--------------------------- MODULE MCSessionBroker ---------------------------
(***************************************************************************)
(* Instances of SessionBroker for TLC.  Three launches: two of one account *)
(* from two browsers, and one of another account from the first browser,   *)
(* so that both halves of "the account AND the browser" are exercised.     *)
(***************************************************************************)
EXTENDS SessionBroker, TLC

CONSTANTS r1, r2, r3, u1, u2, b1, b2, w1, w2, e1, e2

MCUserOf == r1 :> u1 @@ r2 :> u1 @@ r3 :> u2
MCBrowserOf == r1 :> b1 @@ r2 :> b2 @@ r3 :> b1
EndsFirstOnce == e1 :> r1
EndsNone == [e \in {} |-> r1]
EndsFirst == e1 :> r1 @@ e2 :> r1

\* Three launches of one account from one browser: its tabs.
TabsUserOf == r1 :> u1 @@ r2 :> u1 @@ r3 :> u1
TabsBrowserOf == r1 :> b1 @@ r2 :> b1 @@ r3 :> b1
OneUserOf == r1 :> u1
OneBrowserOf == r1 :> b1
=============================================================================
