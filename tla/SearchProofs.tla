----------------------------- MODULE SearchProofs -----------------------------
(***************************************************************************)
(* The Git and the search panel, for any number of workspaces, openings,   *)
(* calls, requests and versions of the file.                               *)
(***************************************************************************)
EXTENDS Search, SequenceTheorems, TLAPS

\* A repository, a call under way.
AnyRepo == [isRepo : BOOLEAN, head : Versions, work : Versions, stage : Versions]

IsCall(c) ==
  /\ c = [id |-> c.id, op |-> c.op, on |-> c.on, at |-> c.at, row |-> c.row, old |-> c.old]
  /\ c.on \in 1 .. Len(opens)

\* What the proofs need of the types.
GitTypes ==
  /\ repo \in [Workspace -> AnyRepo]
  /\ opens \in Seq(Workspace)
  /\ client \in 0 .. Len(opens)
  /\ connected \subseteq 1 .. Len(opens)
  /\ isRepo \in BOOLEAN
  /\ \A c \in calls : IsCall(c)

Current(row) == row = Classify(Matrix(repo[Ws(client)]))

\* A refresh of the store's client has yet to read.
Reading == \E c \in calls : c.at = "reading" /\ c.on = client

\* What a refresh has read and not shown is out of date only if that is known, or
\* another refresh is due or about to read.
ReadsCurrent ==
  client # 0 /\ isRepo /\ ~dirty /\ ~Reading =>
    \A c \in calls : c.at = "read" /\ c.on = client /\ c.old = FALSE => Current(c.row)

\* The row on the screen is out of date only if a refresh is on its way, or behind.
StatusCurrent ==
  client # 0 /\ isRepo /\ ~dirty /\ ~behind =>
    Current(status) \/ \E c \in calls : c.at \in {"reading", "read"} /\ c.on = client

GitInv == GitTypes /\ ReadsCurrent /\ StatusCurrent

GitDefs == <<repo, opens, client, isRepo, status, calls, connected, dirty, behind>>

LEMMA GitStays == GitInv /\ UNCHANGED GitDefs => GitInv'
  BY DEF GitInv, GitDefs, GitTypes, IsCall, ReadsCurrent, StatusCurrent, Reading, Current, Ws

LEMMA RepoIsAny ==
  ASSUME NEW is \in BOOLEAN, NEW h \in Versions, NEW w \in Versions, NEW i \in Versions
  PROVE  Repo(is, h, w, i) \in AnyRepo
  BY DEF Repo, AnyRepo

LEMMA EffectIsRepo ==
  ASSUME NEW op, NEW r \in AnyRepo, NEW s \in Effect(op, r)
  PROVE  s \in AnyRepo
<1>1. r.head \in Versions /\ r.work \in Versions /\ r.stage \in Versions
  BY DEF AnyRepo
<1>2. \A t \in OtherTree(r) : t \in AnyRepo
  BY RepoIsAny DEF OtherTree
<1>3. CASE op \in {"init", "stage", "unstage", "discard", "commit"}
  <2>1. CASE op = "discard"
    <3>1. Effect(op, r) = Discarded(r)
      BY <2>1 DEF Effect
    <3>2. \A v \in {r.head, 0, r.work} : v \in Versions
      BY <1>1, SourceControlAssumption DEF SourceControlAssumption
    <3>3. PICK v \in {r.head, 0, r.work} : s = Repo(TRUE, r.head, v, r.stage)
      BY <3>1 DEF Discarded
    <3> QED BY <1>1, <3>2, <3>3, RepoIsAny
  <2>2. CASE op # "discard"
    BY <1>1, <1>3, <2>2, RepoIsAny DEF Effect
  <2> QED BY <2>1, <2>2
<1>4. CASE op \in {"checkout", "pull"}
  <2>1. Effect(op, r) = OtherTree(r)
    BY <1>4 DEF Effect
  <2> QED BY <1>2, <2>1
<1>5. CASE op \notin {"init", "stage", "unstage", "discard", "commit", "checkout", "pull"}
  <2>1. Effect(op, r) = {r}
    BY <1>5 DEF Effect
  <2> QED BY <2>1
<1> QED BY <1>3, <1>4, <1>5

LEMMA GitStarts == GitInit => GitInv
<1> SUFFICES ASSUME GitInit PROVE GitInv
  OBVIOUS
<1>1. repo \in [Workspace -> AnyRepo]
  BY SourceControlAssumption, RepoIsAny DEF SourceControlAssumption, GitInit
<1>2. opens = <<>> /\ client = 0 /\ isRepo = FALSE /\ connected = {} /\ calls = {}
  BY DEF GitInit
<1>3. opens \in Seq(Workspace) /\ 0 \in 0 .. Len(opens)
  BY <1>2, EmptySeq
<1>4. GitTypes
  BY <1>1, <1>2, <1>3 DEF GitTypes
<1> QED BY <1>2, <1>4 DEF GitInv, ReadsCurrent, StatusCurrent

\* A call that moves on keeps its client.
LEMMA CallMoves ==
  ASSUME NEW c, IsCall(c), NEW x
  PROVE  IsCall(At(c, x)) /\ At(c, x).on = c.on /\ At(c, x).at = x /\ At(c, x).old = c.old
  BY DEF IsCall, At

LEMMA CallReads ==
  ASSUME NEW c, IsCall(c), NEW x
  PROVE  /\ IsCall([c EXCEPT !.row = x]) /\ [c EXCEPT !.row = x].on = c.on
         /\ [c EXCEPT !.row = x].at = c.at /\ [c EXCEPT !.row = x].row = x
  BY DEF IsCall

LEMMA CallAges ==
  ASSUME NEW c, IsCall(c), NEW x
  PROVE  /\ IsCall([c EXCEPT !.old = x]) /\ [c EXCEPT !.old = x].on = c.on
         /\ [c EXCEPT !.old = x].at = c.at /\ [c EXCEPT !.old = x].old = x
  BY DEF IsCall

LEMMA CallGoes ==
  ASSUME NEW c, IsCall(c), NEW n \in 1 .. Len(opens)
  PROVE  IsCall([c EXCEPT !.on = n]) /\ [c EXCEPT !.on = n].on = n /\ [c EXCEPT !.on = n].at = c.at
  BY DEF IsCall

----------------------------------------------------------------------------
(* Calls under way *)

\* The call is over, or goes on to read for the store's client of now.
LEMMA ReplyMoves ==
  ASSUME GitTypes, NEW c \in calls, ThenRefresh(c)
  PROVE  /\ connected' \subseteq 1 .. Len(opens)
         /\ \A d \in calls' : IsCall(d) /\ (d \in calls \/ d.at = "reading")
         /\ client # 0 => \E d \in calls' : d.at = "reading" /\ d.on = client
<1>1. CASE client = 0
  BY <1>1 DEF ThenRefresh, Ends, Settles, GitTypes, IsCall
<1>2. CASE client # 0
  <2> DEFINE d == [At(c, "reading") EXCEPT !.on = client]
  <2>1. IsCall(c) /\ client \in 1 .. Len(opens)
    BY <1>2 DEF GitTypes
  <2>2. IsCall(At(c, "reading")) /\ At(c, "reading").at = "reading"
    BY <2>1, CallMoves
  <2>3. IsCall(d) /\ d.on = client /\ d.at = "reading"
    BY <2>1, <2>2, CallGoes
  <2>4. calls' = (calls \ {c}) \cup {d} /\ connected' = connected
    BY <1>2 DEF ThenRefresh, Becomes
  <2> QED BY <2>3, <2>4 DEF GitTypes
<1> QED BY <1>1, <1>2

LEMMA EndsKeeps ==
  ASSUME GitTypes, NEW c \in calls, Ends(c)
  PROVE  calls' = calls \ {c} /\ connected' \subseteq 1 .. Len(opens)
  BY DEF Ends, Settles, GitTypes, IsCall

\* A call that does not read is over, without a word to the panel.
LEMMA EndsKeepsInv ==
  ASSUME GitInv, NEW c \in calls, c.at \notin {"reading", "read"}, Ends(c),
         UNCHANGED <<repo, opens, client, isRepo, status, dirty, behind>>
  PROVE  GitInv'
<1>1. calls' = calls \ {c} /\ connected' \subseteq 1 .. Len(opens)
  BY EndsKeeps DEF GitInv
<1>2. GitTypes'
  BY <1>1 DEF GitInv, GitTypes, IsCall
<1>3. Reading => Reading'
  BY <1>1 DEF Reading
<1>4. ReadsCurrent'
  BY <1>1, <1>3 DEF GitInv, ReadsCurrent, Current, Ws
<1>5. StatusCurrent'
  BY <1>1 DEF GitInv, StatusCurrent, Current, Ws
<1> QED BY <1>2, <1>4, <1>5 DEF GitInv

\* Whatever the worker did to the repositories, the store's client will read it.
LEMMA DoneKeeps ==
  ASSUME GitInv, NEW c \in calls, Done(c)
  PROVE  GitInv'
<1>1. repo' \in [Workspace -> AnyRepo]
  <2>1. Ws(c.on) \in Workspace
    BY ElementOfSeq DEF GitInv, GitTypes, IsCall, Ws
  <2>2. repo[Ws(c.on)] \in AnyRepo
    BY <2>1 DEF GitInv, GitTypes
  <2>3. PICK r \in Effect(c.op, repo[Ws(c.on)]) : repo' = [repo EXCEPT ![Ws(c.on)] = r]
    BY DEF Done
  <2>4. r \in AnyRepo
    BY <2>2, EffectIsRepo
  <2> QED BY <2>3, <2>4 DEF GitInv, GitTypes
<1>2. CASE c.op = "push"
  <2>1. Effect(c.op, repo[Ws(c.on)]) = {repo[Ws(c.on)]}
    BY <1>2 DEF Effect
  <2>2. repo' = repo
    <3>1. repo' = [repo EXCEPT ![Ws(c.on)] = repo[Ws(c.on)]]
      BY <2>1 DEF Done
    <3> QED BY <3>1 DEF GitInv, GitTypes
  <2>3. Ends(c) /\ c.at \notin {"reading", "read"} /\ isRepo' = (isRepo \/ FALSE)
    BY <1>2 DEF Done, Reply, Asked
  <2> QED BY <2>2, <2>3, EndsKeepsInv DEF Done, GitInv, GitTypes
<1>3. CASE c.op # "push"
  <2>1. ThenRefresh(c)
    BY <1>3 DEF Done, Reply
  <2>2. UNCHANGED <<opens, client, status, dirty, behind>> /\ isRepo' \in BOOLEAN
    BY DEF Done, Reply
  <2>3. GitTypes'
    BY <1>1, <2>1, <2>2, ReplyMoves DEF GitInv, GitTypes, IsCall
  <2>4. client # 0 => Reading'
    BY <2>1, <2>2, ReplyMoves DEF GitInv, Reading
  <2> QED BY <2>2, <2>3, <2>4 DEF GitInv, ReadsCurrent, StatusCurrent, Reading
<1> QED BY <1>2, <1>3

\* Reads marked as out of date are no one's.
LEMMA OutdatedCalls ==
  ASSUME NEW cs, \A c \in cs : IsCall(c)
  PROVE  /\ \A d \in Outdated(cs) : IsCall(d) /\ (d.at = "read" => d.old = TRUE)
         /\ \A d \in Outdated(cs) : \E c \in cs : d.at = c.at /\ d.on = c.on
         /\ \A c \in cs : \E d \in Outdated(cs) : d.at = c.at /\ d.on = c.on
<1> DEFINE Mark(c) == IF c.at = "read" THEN [c EXCEPT !.old = TRUE] ELSE c
<1>1. Outdated(cs) = {Mark(c) : c \in cs}
  BY DEF Outdated
<1>2. \A c \in cs : IsCall(Mark(c)) /\ Mark(c).at = c.at /\ Mark(c).on = c.on
                    /\ (c.at = "read" => Mark(c).old = TRUE)
  BY CallAges
<1> HIDE DEF Mark
<1> QED BY <1>1, <1>2

LEMMA FailedKeeps ==
  ASSUME GitInv, NEW c \in calls, Failed(c)
  PROVE  GitInv'
<1>1. repo' \in [Workspace -> AnyRepo]
  <2>1. Ws(c.on) \in Workspace
    BY ElementOfSeq DEF GitInv, GitTypes, IsCall, Ws
  <2>2. \A r \in OtherTree(repo[Ws(c.on)]) : r \in AnyRepo
    <3>1. repo[Ws(c.on)] \in AnyRepo
      BY <2>1 DEF GitInv, GitTypes
    <3>2. Effect("pull", repo[Ws(c.on)]) = OtherTree(repo[Ws(c.on)])
      BY DEF Effect
    <3> QED BY <3>1, <3>2, EffectIsRepo
  <2> QED BY <2>1, <2>2 DEF Failed, GitInv, GitTypes
<1>2. \A d \in calls' : IsCall(d) /\ (d.at = "read" => d.old = TRUE)
  BY OutdatedCalls DEF Failed, GitInv, GitTypes
<1>3. GitTypes'
  <2>1. connected' \subseteq 1 .. Len(opens)
    BY DEF Failed, Settles, GitInv, GitTypes, IsCall
  <2>2. \A d \in calls' : IsCall(d)'
    BY <1>2 DEF Failed, IsCall
  <2> QED BY <1>1, <2>1, <2>2 DEF Failed, GitInv, GitTypes
<1>4. ReadsCurrent'
  BY <1>2 DEF ReadsCurrent
<1>5. StatusCurrent'
  BY DEF Failed, StatusCurrent
<1> QED BY <1>3, <1>4, <1>5 DEF GitInv

\* A refresh reads the repository of now, and outdates what others of its client read.
LEMMA ReadKeeps ==
  ASSUME GitInv, NEW c \in calls, Read(c)
  PROVE  GitInv'
<1> DEFINE Mark(d) == IF d.at = "read" /\ d.on = c.on THEN [d EXCEPT !.old = TRUE] ELSE d
           new == [At(c, "read") EXCEPT !.row = Classify(Matrix(repo[Ws(c.on)]))]
<1>1. calls' = {Mark(d) : d \in calls \ {c}} \cup {new}
      /\ UNCHANGED <<repo, opens, client, isRepo, status, connected, dirty, behind>>
  BY DEF Read, storeVars
<1>2. \A d \in calls : IsCall(Mark(d)) /\ Mark(d).at = d.at /\ Mark(d).on = d.on
                       /\ (d.at = "read" /\ d.on = c.on => Mark(d).old = TRUE)
                       /\ (d.on # c.on => Mark(d) = d)
  BY CallAges DEF GitInv, GitTypes
<1>3. IsCall(At(c, "read")) /\ At(c, "read").on = c.on /\ At(c, "read").at = "read"
  BY CallMoves DEF GitInv, GitTypes
<1>4. IsCall(new) /\ new.on = c.on /\ new.at = "read" /\ new.row = Classify(Matrix(repo[Ws(c.on)]))
  BY <1>3, CallReads
<1> HIDE DEF Mark, new
<1>5. GitTypes'
  <2>1. \A d \in calls' : IsCall(d)
    BY <1>1, <1>2, <1>4
  <2> QED BY <1>1, <2>1 DEF GitInv, GitTypes, IsCall
<1>6. ASSUME client # 0, isRepo, ~dirty, ~Reading',
             NEW d \in calls', d.at = "read", d.on = client, d.old = FALSE
      PROVE  Current(d.row)
  <2>1. CASE d = new
    BY <1>4, <1>6, <2>1 DEF Current
  <2>2. CASE d # new
    <3>1. PICK b \in calls \ {c} : d = Mark(b)
      BY <1>1, <2>2
    <3>2. b.at = "read" /\ b.on = client /\ b.on # c.on /\ d = b
      BY <1>2, <1>6, <3>1
    <3>3. ~Reading
      <4> SUFFICES ASSUME NEW e \in calls, e.at = "reading", e.on = client PROVE FALSE
        BY DEF Reading
      <4>1. Mark(e) \in calls' /\ Mark(e).at = "reading" /\ Mark(e).on = client
        BY <1>1, <1>2, <3>2
      <4> QED BY <1>1, <1>6, <4>1 DEF Reading
    <3> QED BY <1>6, <3>2, <3>3 DEF GitInv, ReadsCurrent
  <2> QED BY <2>1, <2>2
<1>7. ReadsCurrent'
  BY <1>1, <1>6 DEF ReadsCurrent, Current, Ws
<1>8. StatusCurrent'
  <2>1. ASSUME NEW d \in calls, d.at \in {"reading", "read"}, d.on = client
        PROVE  \E e \in calls' : e.at \in {"reading", "read"} /\ e.on = client
    <3>1. CASE d = c
      BY <1>1, <1>4, <2>1, <3>1
    <3>2. CASE d # c
      BY <1>1, <1>2, <2>1, <3>2
    <3> QED BY <3>1, <3>2
  <2> QED BY <1>1, <2>1 DEF GitInv, StatusCurrent, Current, Ws
<1> QED BY <1>5, <1>7, <1>8 DEF GitInv

\* What a refresh shows is true, or another one follows, or it counts as behind.
LEMMA RefreshedKeeps ==
  ASSUME GitInv, NEW c \in calls, Refreshed(c)
  PROVE  GitInv'
<1>1. calls' = calls \ {c} /\ connected' \subseteq 1 .. Len(opens) /\ c.at = "read"
      /\ UNCHANGED <<repo, opens, client, isRepo, dirty>>
  BY EndsKeeps DEF Refreshed, GitInv
<1>2. GitTypes'
  BY <1>1 DEF GitInv, GitTypes, IsCall
<1>3. Reading <=> Reading'
  BY <1>1 DEF Reading
<1>4. ReadsCurrent'
  BY <1>1, <1>3 DEF GitInv, ReadsCurrent, Current, Ws
<1>5. ASSUME client # 0, isRepo, ~dirty, ~behind'
      PROVE  Current(status') \/ Reading
  <2>1. status' = c.row /\ ~(c.old \/ c.on # client)
    BY <1>5 DEF Refreshed
  <2> QED BY <1>1, <1>5, <2>1 DEF GitInv, ReadsCurrent
<1>6. StatusCurrent'
  BY <1>1, <1>3, <1>5 DEF StatusCurrent, Reading, Current, Ws
<1> QED BY <1>2, <1>4, <1>6 DEF GitInv

\* Calls that read nothing are over, get on or are added.
LEMMA CallsKeep ==
  ASSUME GitInv, calls \subseteq calls' \cup {c \in calls : c.at \notin {"reading", "read"}},
         \A d \in calls' : IsCall(d)' /\ (d \in calls \/ d.at # "read"),
         connected' \subseteq 1 .. Len(opens),
         UNCHANGED <<repo, opens, client, isRepo, status, dirty, behind>>
  PROVE  GitInv'
<1>1. GitTypes'
  BY DEF GitInv, GitTypes
<1>2. Reading => Reading'
  BY DEF Reading
<1>3. ReadsCurrent'
  BY <1>2 DEF GitInv, ReadsCurrent, Current, Ws
<1>4. StatusCurrent'
  BY DEF GitInv, StatusCurrent, Current, Ws
<1> QED BY <1>1, <1>3, <1>4 DEF GitInv

LEMMA RemoteStoredKeeps ==
  ASSUME GitInv, NEW c \in calls, NEW failed \in BOOLEAN, RemoteStored(c, failed)
  PROVE  GitInv'
<1>1. CASE failed
  BY <1>1, EndsKeepsInv DEF RemoteStored
<1>2. CASE ~failed
  <2>1. c.at = "asked" /\ calls' = (calls \ {c}) \cup {At(c, "stored")}
        /\ UNCHANGED <<repo, opens, client, isRepo, status, connected, dirty, behind>>
    BY <1>2 DEF RemoteStored, Becomes
  <2>2. IsCall(At(c, "stored")) /\ At(c, "stored").at = "stored"
    BY CallMoves DEF GitInv, GitTypes
  <2>3. \A d \in calls' : IsCall(d)' /\ (d \in calls \/ d.at # "read")
    BY <2>1, <2>2 DEF GitInv, GitTypes, IsCall
  <2>4. connected' \subseteq 1 .. Len(opens)
    BY <2>1 DEF GitInv, GitTypes
  <2> QED BY <2>1, <2>3, <2>4, CallsKeep
<1> QED BY <1>1, <1>2

LEMMA ConnectedKeeps ==
  ASSUME GitInv, NEW c \in calls, Connected(c)
  PROVE  GitInv'
<1>1. IsCall(c) /\ c.on \in 1 .. Len(opens) /\ Ws(c.on) \in Workspace
  BY ElementOfSeq DEF GitInv, GitTypes, IsCall, Ws
<1>2. repo[Ws(c.on)].isRepo \in BOOLEAN
  BY <1>1 DEF GitInv, GitTypes, AnyRepo
<1>3. client' = c.on /\ isRepo' \in BOOLEAN /\ behind' = TRUE /\ UNCHANGED <<repo, opens>>
  BY <1>2 DEF Connected
<1>4. CASE isRepo'
  <2>1. calls' = (calls \ {c}) \cup {At(c, "reading")} /\ connected' = connected
    BY <1>4 DEF Connected, Becomes
  <2>2. IsCall(At(c, "reading")) /\ At(c, "reading").on = c.on /\ At(c, "reading").at = "reading"
    BY <1>1, CallMoves
  <2>3. GitTypes'
    BY <1>1, <1>3, <2>1, <2>2 DEF GitInv, GitTypes, IsCall
  <2>4. Reading'
    BY <1>3, <2>1, <2>2 DEF Reading
  <2> QED BY <1>3, <2>3, <2>4 DEF GitInv, ReadsCurrent, StatusCurrent
<1>5. CASE ~isRepo'
  <2>1. calls' = calls \ {c} /\ connected' \subseteq 1 .. Len(opens)
    BY <1>5, EndsKeeps DEF Connected, GitInv
  <2>2. GitTypes'
    BY <1>1, <1>3, <2>1 DEF GitInv, GitTypes, IsCall
  <2> QED BY <1>5, <2>2 DEF GitInv, ReadsCurrent, StatusCurrent
<1> QED BY <1>4, <1>5

LEMMA CallIsCall ==
  ASSUME NEW op, NEW n \in 1 .. Len(opens), NEW at
  PROVE  IsCall(Call(op, n, at)) /\ Call(op, n, at).on = n /\ Call(op, n, at).at = at
  BY DEF IsCall, Call

LEMMA StartKeeps ==
  ASSUME GitInv, client # 0, NEW op, Start(op)
  PROVE  GitInv'
<1>1. IsCall(Call(op, client, "asked")) /\ Call(op, client, "asked").at = "asked"
  BY CallIsCall DEF GitInv, GitTypes
<1>2. calls' = calls \cup {Call(op, client, "asked")}
      /\ UNCHANGED <<repo, opens, client, isRepo, status, connected, dirty, behind>>
  BY DEF Start
<1>3. \A d \in calls' : IsCall(d)' /\ (d \in calls \/ d.at # "read")
  BY <1>1, <1>2 DEF GitInv, GitTypes, IsCall
<1>4. connected' \subseteq 1 .. Len(opens)
  BY <1>2 DEF GitInv, GitTypes
<1> QED BY <1>2, <1>3, <1>4, CallsKeep

LEMMA WrittenTypes ==
  ASSUME GitInv, NEW v \in Versions, Written(v)
  PROVE  repo' \in [Workspace -> AnyRepo] /\ UNCHANGED <<opens, client, isRepo, status, connected>>
<1> DEFINE w == Ws(shell)
<1>1. repo' = [repo EXCEPT ![w] = Repo(repo[w].isRepo, repo[w].head, v, repo[w].stage)]
      /\ UNCHANGED <<opens, client, isRepo, status, connected>>
  BY DEF Written, storeVars
<1>2. CASE w \in Workspace
  <2>1. repo[w] \in AnyRepo
    BY <1>2 DEF GitInv, GitTypes
  <2>2. Repo(repo[w].isRepo, repo[w].head, v, repo[w].stage) \in AnyRepo
    BY <2>1 DEF AnyRepo, Repo
  <2> HIDE DEF w
  <2> QED BY <1>1, <2>2 DEF GitInv, GitTypes
<1>3. CASE w \notin Workspace
  <2> HIDE DEF w
  <2> QED BY <1>1, <1>3 DEF GitInv, GitTypes
<1> QED BY <1>2, <1>3

LEMMA WriteKeeps ==
  ASSUME GitInv, NEW v \in Versions, Write(v) \/ WriteElsewhere(v)
  PROVE  GitInv'
<1>1. repo' \in [Workspace -> AnyRepo] /\ UNCHANGED <<opens, client, isRepo, status, connected>>
  BY WrittenTypes DEF Write, WriteElsewhere
<1>2. CASE Write(v)
  BY <1>1, <1>2 DEF Write, GitInv, GitTypes, IsCall, ReadsCurrent, StatusCurrent
<1>3. CASE WriteElsewhere(v)
  <2>1. calls' = Outdated(calls) /\ behind' = TRUE
    BY <1>3 DEF WriteElsewhere
  <2>2. \A d \in calls' : IsCall(d) /\ (d.at = "read" => d.old = TRUE)
    BY <2>1, OutdatedCalls DEF GitInv, GitTypes
  <2>3. GitTypes'
    BY <1>1, <2>2 DEF GitInv, GitTypes, IsCall
  <2> QED BY <2>1, <2>2, <2>3 DEF GitInv, ReadsCurrent, StatusCurrent
<1> QED BY <1>2, <1>3

\* The watcher's refresh; without a repository there is nothing to refresh.
LEMMA RefreshDueKeeps ==
  ASSUME GitInv, RefreshDue
  PROVE  GitInv'
<1>1. UNCHANGED <<repo, opens, client, isRepo, status, connected, behind>>
  BY DEF RefreshDue, storeVars
<1>2. CASE isRepo /\ client # 0
  <2>1. calls' = calls \cup {Call("refresh", client, "reading")}
    BY <1>2 DEF RefreshDue
  <2>2. IsCall(Call("refresh", client, "reading")) /\ Call("refresh", client, "reading").on = client
        /\ Call("refresh", client, "reading").at = "reading"
    BY <1>2, CallIsCall DEF GitInv, GitTypes
  <2>3. GitTypes'
    BY <1>1, <2>1, <2>2 DEF GitInv, GitTypes, IsCall
  <2>4. Reading'
    BY <1>1, <2>1, <2>2 DEF Reading
  <2> QED BY <1>1, <2>3, <2>4 DEF GitInv, ReadsCurrent, StatusCurrent, Reading
<1>3. CASE ~(isRepo /\ client # 0)
  <2>1. calls' = calls
    BY <1>3 DEF RefreshDue
  <2> QED BY <1>1, <1>3, <2>1 DEF GitInv, GitTypes, IsCall, ReadsCurrent, StatusCurrent
<1> QED BY <1>2, <1>3

----------------------------------------------------------------------------
(* The shell of a workspace comes and goes *)

LEMMA ConnectGitKeeps ==
  ASSUME GitInv, NEW w \in Workspace, ConnectGit(w)
  PROVE  GitInv' /\ opens' \in Seq(Workspace) /\ Len(opens') = Len(opens) + 1
<1>1. opens' = Append(opens, w) /\ UNCHANGED <<repo, client, isRepo, status, connected, dirty, behind>>
  BY DEF ConnectGit
<1>2. opens' \in Seq(Workspace) /\ Len(opens') = Len(opens) + 1 /\ Len(opens) \in Nat
      /\ \A n \in 1 .. Len(opens) : opens'[n] = opens[n]
  BY <1>1, AppendProperties, LenProperties DEF GitInv, GitTypes
<1> DEFINE new == Call("connect", shell', "creating")
<1>3. calls' = calls \cup {new} /\ shell' = Len(opens) + 1
  BY <1>2 DEF ConnectGit
<1>4. new = [id |-> new.id, op |-> new.op, on |-> new.on, at |-> new.at, row |-> new.row, old |-> new.old]
      /\ new.on = shell' /\ new.at = "creating"
  BY DEF Call
<1> HIDE DEF new
<1>5. GitTypes'
  <2>1. \A d \in calls : IsCall(d)'
    BY <1>2 DEF GitInv, GitTypes, IsCall
  <2>2. \A d : d = new => IsCall(d)'
    BY <1>2, <1>3, <1>4 DEF IsCall
  <2>3. client' \in 0 .. Len(opens') /\ connected' \subseteq 1 .. Len(opens')
    BY <1>1, <1>2 DEF GitInv, GitTypes
  <2> QED BY <1>1, <1>2, <1>3, <2>1, <2>2, <2>3 DEF GitInv, GitTypes
<1>6. client # 0 => \A row : Current(row)' <=> row = Classify(Matrix(repo[Ws(client)]))
  BY <1>1, <1>2 DEF GitInv, GitTypes, Current, Ws
<1>7. ReadsCurrent'
  BY <1>1, <1>3, <1>4, <1>6 DEF GitInv, ReadsCurrent, Reading, Current
<1>8. StatusCurrent'
  BY <1>1, <1>3, <1>6 DEF GitInv, StatusCurrent, Current
<1> QED BY <1>2, <1>5, <1>7, <1>8 DEF GitInv

LEMMA ResetGitKeeps ==
  ASSUME GitInv, ResetGit
  PROVE  GitInv'
<1>1. calls' \subseteq calls /\ client' = 0 /\ isRepo' = FALSE /\ UNCHANGED <<repo, opens, connected>>
  BY DEF ResetGit
<1>2. 0 \in 0 .. Len(opens)
  BY LenProperties DEF GitInv, GitTypes
<1>3. GitTypes'
  BY <1>1, <1>2 DEF GitInv, GitTypes, IsCall
<1> QED BY <1>1, <1>3 DEF GitInv, ReadsCurrent, StatusCurrent

LEMMA SearchConnectedKeeps ==
  ASSUME GitInv, NEW n \in connected, SearchConnected(n)
  PROVE  GitInv'
  BY DEF GitInv, GitTypes, IsCall, SearchConnected, storeVars, ReadsCurrent, StatusCurrent, Reading, Current, Ws

LEMMA UserGitKeeps == GitInv /\ UserGit => GitInv'
<1> SUFFICES ASSUME GitInv, UserGit PROVE GitInv'
  OBVIOUS
<1>1. ASSUME NEW op, Operate(op) PROVE GitInv'
  BY <1>1, StartKeeps DEF Operate, Offered
<1>2. ASSUME NEW op, SetRemote(op) PROVE GitInv'
  BY <1>2, StartKeeps DEF SetRemote
<1>3. ASSUME NEW v \in Versions, Write(v) \/ WriteElsewhere(v) PROVE GitInv'
  BY <1>3, WriteKeeps
<1> QED BY <1>1, <1>2, <1>3 DEF UserGit

LEMMA GitStepKeeps == GitInv /\ GitStep => GitInv'
<1> SUFFICES ASSUME GitInv, GitStep PROVE GitInv'
  OBVIOUS
<1>1. CASE RefreshDue
  BY <1>1, RefreshDueKeeps
<1>2. ASSUME NEW c \in calls, RemoteSet(c) \/ ConnectFails(c) PROVE GitInv'
  BY <1>2, EndsKeepsInv DEF RemoteSet, ConnectFails
<1> QED BY <1>1, <1>2, DoneKeeps, FailedKeeps, ReadKeeps, RefreshedKeeps, RemoteStoredKeeps, ConnectedKeeps DEF GitStep

----------------------------------------------------------------------------
(* The search panel *)

\* What the proofs need of the types; no request is newer than the newest.
SearchTypes ==
  /\ latest \in Seq(Nat) /\ Len(latest) = Len(opens)
  /\ searcher \in 0 .. Len(opens)
  /\ \A r \in requests : /\ r = Request(r.id, r.on, r.text)
                         /\ r.on \in 1 .. Len(opens) /\ r.id \in Nat /\ r.id <= latest[r.on]

\* Unless a client came late, it, its requests and what they found are of the
\* workspace on the screen.
SearchOwn ==
  ~late =>
    /\ searcher # 0 => searcher = shell
    /\ \A r \in requests : r.on = searcher
    /\ results # Nothing => searcher # 0 /\ results.on = searcher

\* The newest request asks for what is in the box, unless a search is due.
NewestAsks ==
  ~late /\ ~timer /\ query # "" =>
    \A r \in requests : r.id = latest[r.on] => r.text = <<query, regex>>

SearchInv == SearchTypes /\ SearchOwn /\ NewestAsks /\ NewerWins

LEMMA SearchStarts == Init => SearchInv
<1> SUFFICES ASSUME Init PROVE SearchInv
  OBVIOUS
<1>1. latest = <<>> /\ opens = <<>> /\ searcher = 0 /\ requests = {} /\ results = Nothing
  BY DEF Init, GitInit, SearchInit
<1>2. latest \in Seq(Nat) /\ Len(latest) = Len(opens) /\ 0 \in 0 .. Len(opens)
  BY <1>1, EmptySeq
<1> QED BY <1>1, <1>2 DEF SearchInv, SearchTypes, SearchOwn, NewestAsks, NewerWins

LEMMA SearchStays ==
  ASSUME SearchInv, UNCHANGED <<searchVars, opens, shell>>
  PROVE  SearchInv'
<1>1. UNCHANGED <<searcher, query, regex, results, searching, timer, latest, requests, late, opens, shell>>
  BY DEF searchVars
<1>2. SearchTypes'
  BY <1>1 DEF SearchInv, SearchTypes
<1>3. SearchOwn'
  BY <1>1 DEF SearchInv, SearchOwn
<1>4. NewestAsks' /\ NewerWins'
  BY <1>1 DEF SearchInv, NewestAsks, NewerWins
<1> QED BY <1>2, <1>3, <1>4 DEF SearchInv

LEMMA GitLeavesShell == UserGit \/ GitStep => UNCHANGED <<opens, shell>>
<1>1. ASSUME NEW op, Operate(op) \/ SetRemote(op) PROVE UNCHANGED <<opens, shell>>
  BY <1>1 DEF Operate, SetRemote, Start
<1>2. ASSUME NEW v, Write(v) \/ WriteElsewhere(v) PROVE UNCHANGED <<opens, shell>>
  BY <1>2 DEF Write, WriteElsewhere, Written
<1>3. ASSUME NEW c, \/ Done(c) \/ Failed(c) \/ Read(c) \/ Refreshed(c)
                    \/ RemoteSet(c) \/ ConnectFails(c) \/ Connected(c)
      PROVE UNCHANGED <<opens, shell>>
  BY <1>3 DEF Done, Failed, Read, Refreshed, RemoteSet, ConnectFails, Connected
<1>4. ASSUME NEW c, NEW failed, RemoteStored(c, failed) PROVE UNCHANGED <<opens, shell>>
  BY <1>4 DEF RemoteStored
<1>5. CASE RefreshDue
  BY <1>5 DEF RefreshDue
<1> QED BY <1>1, <1>2, <1>3, <1>4, <1>5 DEF UserGit, GitStep

\* A search that was asked is the newest of its client; an empty box or no client
\* shows nothing.
LEMMA RunSearchKeeps ==
  ASSUME SearchInv, RunSearch, UNCHANGED <<opens, shell, searcher, query, late>>,
         timer' = FALSE \/ timer' = timer
  PROVE  SearchInv'
<1>1. CASE searcher = 0 \/ query = ""
  <2>1. results' = Nothing /\ UNCHANGED <<latest, requests>>
    BY <1>1 DEF RunSearch
  <2>2. ~late /\ searcher = 0 => requests = {}
    BY DEF SearchInv, SearchTypes, SearchOwn
  <2> QED BY <1>1, <2>1, <2>2 DEF SearchInv, SearchTypes, SearchOwn, NewestAsks, NewerWins
<1>2. CASE searcher # 0 /\ query # ""
  <2> DEFINE new == Request(latest[searcher] + 1, searcher, <<query, regex'>>)
  <2>1. searcher \in 1 .. Len(latest) /\ latest[searcher] \in Nat
    <3>1. latest \in Seq(Nat) /\ searcher \in 0 .. Len(latest) /\ Len(latest) \in Nat
      BY LenProperties DEF SearchInv, SearchTypes
    <3>2. searcher \in 1 .. Len(latest)
      <4>1. searcher # 0
        BY <1>2
      <4> QED BY <3>1, <4>1
    <3> QED BY <3>1, <3>2, ElementOfSeq
  <2>2. latest' = [latest EXCEPT ![searcher] = @ + 1] /\ searching' = TRUE /\ results' = results
    BY <1>2 DEF RunSearch
  <2>3. /\ latest' \in Seq(Nat) /\ Len(latest') = Len(latest)
        /\ latest'[searcher] = latest[searcher] + 1
        /\ \A n \in 1 .. Len(latest) : n # searcher => latest'[n] = latest[n]
    BY <2>1, <2>2, ExceptSeq DEF SearchInv, SearchTypes
  <2>4. requests' = requests \cup {new}
    BY <1>2, <2>3 DEF RunSearch
  <2>5. new = Request(new.id, new.on, new.text) /\ new.on = searcher /\ new.id = latest'[searcher]
        /\ new.text = <<query, regex'>>
    BY <2>3 DEF Request
  <2> HIDE DEF new
  <2>6. \A r \in requests : r.on \in 1 .. Len(latest) /\ latest[r.on] \in Nat /\ latest'[r.on] \in Nat
                            /\ r.id <= latest[r.on] /\ r.id \in Nat
                            /\ latest[r.on] <= latest'[r.on]
    <3> SUFFICES ASSUME NEW r \in requests
                 PROVE  r.on \in 1 .. Len(latest) /\ latest[r.on] \in Nat /\ latest'[r.on] \in Nat
                        /\ r.id <= latest[r.on] /\ r.id \in Nat /\ latest[r.on] <= latest'[r.on]
      OBVIOUS
    <3>1. r.on \in 1 .. Len(latest) /\ r.id <= latest[r.on] /\ r.id \in Nat
      BY DEF SearchInv, SearchTypes
    <3>2. latest[r.on] \in Nat /\ latest'[r.on] \in Nat
      BY <2>3, <3>1, ElementOfSeq DEF SearchInv, SearchTypes
    <3>3. latest[r.on] <= latest'[r.on]
      <4>1. CASE r.on = searcher
        BY <2>1, <2>3, <4>1
      <4>2. CASE r.on # searcher
        BY <2>3, <3>1, <3>2, <4>2
      <4> QED BY <4>1, <4>2
    <3> QED BY <3>1, <3>2, <3>3
  <2>7. SearchTypes'
    <3>1. \A r \in requests' : /\ r = Request(r.id, r.on, r.text) /\ r.on \in 1 .. Len(opens)
                               /\ r.id \in Nat /\ r.id <= latest'[r.on]
      <4>1. ASSUME NEW r \in requests PROVE r.id <= latest'[r.on]
        BY <2>6
      <4>2. new.id \in Nat /\ new.id <= latest'[new.on]
        BY <2>1, <2>3, <2>5
      <4> QED BY <2>1, <2>4, <2>5, <2>6, <4>1, <4>2 DEF SearchInv, SearchTypes
    <3> QED BY <2>3, <3>1 DEF SearchInv, SearchTypes, Request
  <2>8. SearchOwn'
    BY <1>2, <2>2, <2>4, <2>5 DEF SearchInv, SearchOwn
  <2>9. ASSUME ~late, NEW r \in requests', r.id = latest'[r.on]
        PROVE  r.text = <<query, regex'>>
    <3>1. r \in requests => r.on = searcher
      BY <2>9 DEF SearchInv, SearchOwn
    <3>2. r \notin requests
      BY <2>1, <2>3, <2>6, <2>9, <3>1
    <3> QED BY <2>4, <2>5, <3>2
  <2>10. NewestAsks'
    BY <2>9 DEF NewestAsks
  <2> QED BY <2>2, <2>7, <2>8, <2>10 DEF SearchInv, NewerWins
<1> QED BY <1>1, <1>2

LEMMA BoxKeeps ==
  ASSUME SearchInv, SearchDue \/ ToggleRegex \/ \E q \in Queries : SetQuery(q)
  PROVE  SearchInv'
<1>1. CASE SearchDue \/ ToggleRegex
  <2>1. RunSearch /\ UNCHANGED <<opens, shell, searcher, query, late>> /\ (timer' = FALSE \/ timer' = timer)
    BY <1>1 DEF SearchDue, ToggleRegex, gitVars
  <2> QED BY <2>1, RunSearchKeeps
<1>2. CASE \E q \in Queries : SetQuery(q)
  <2>1. timer' = TRUE /\ UNCHANGED <<opens, shell, searcher, results, latest, requests, late>>
    BY <1>2 DEF SetQuery, gitVars
  <2>2. SearchTypes'
    BY <2>1 DEF SearchInv, SearchTypes
  <2>3. SearchOwn'
    BY <2>1 DEF SearchInv, SearchOwn
  <2> QED BY <2>1, <2>2, <2>3 DEF SearchInv, NewestAsks, NewerWins
<1> QED BY <1>1, <1>2

\* Only the newest answer is shown.
LEMMA FoundKeeps ==
  ASSUME SearchInv, NEW r \in requests, Found(r)
  PROVE  SearchInv'
<1>1. /\ requests' = requests \ {r}
      /\ results' = Nothing \/ (results' = r /\ latest[r.on] = r.id)
      /\ UNCHANGED <<opens, shell, searcher, query, regex, timer, latest, late>>
  BY DEF Found, Show, Answers, gitVars
<1>2. SearchTypes'
  BY <1>1 DEF SearchInv, SearchTypes
<1>3. SearchOwn'
  <2>1. ~late => r.on = searcher /\ searcher # 0
    BY DEF SearchInv, SearchTypes, SearchOwn
  <2> QED BY <1>1, <2>1 DEF SearchInv, SearchOwn
<1>4. NewestAsks'
  BY <1>1 DEF SearchInv, NewestAsks
<1>5. NewerWins'
  BY <1>1, <1>3 DEF SearchInv, NewestAsks, SearchOwn, NewerWins
<1> QED BY <1>2, <1>3, <1>4, <1>5 DEF SearchInv

LEMMA SearchConnectedFinds ==
  ASSUME GitInv, SearchInv, NEW n \in connected, SearchConnected(n)
  PROVE  SearchInv'
<1>1. searcher' = n /\ n \in 0 .. Len(opens) /\ (~late' => ~late /\ shell = n)
  <2>1. n \in 0 .. Len(opens)
    BY DEF GitInv, GitTypes
  <2>2. searcher' = n /\ (late' <=> late \/ shell # n)
    BY Zenon DEF SearchConnected
  <2> QED BY <2>1, <2>2
<1>2. UNCHANGED <<opens, shell, query, regex, results, searching, timer, latest, requests>>
  BY DEF SearchConnected
<1>3. ~late' /\ searcher # n => requests = {} /\ results = Nothing
  BY <1>1 DEF SearchInv, SearchTypes, SearchOwn
<1> QED BY <1>1, <1>2, <1>3 DEF SearchInv, SearchTypes, SearchOwn, NewestAsks, NewerWins

LEMMA OpenFinds ==
  ASSUME GitInv, SearchInv, NEW w \in Workspace, Open(w)
  PROVE  SearchInv'
<1>1. Len(opens') = Len(opens) + 1 /\ Len(opens) \in Nat
  BY ConnectGitKeeps, LenProperties DEF Open, GitInv, GitTypes
<1>2. latest' = Append(latest, 0) /\ shell = 0
      /\ UNCHANGED <<searcher, query, regex, results, searching, timer, requests, late>>
  BY DEF Open
<1>3. latest' \in Seq(Nat) /\ Len(latest') = Len(latest) + 1
      /\ \A n \in 1 .. Len(latest) : latest'[n] = latest[n]
  BY <1>2, AppendProperties DEF SearchInv, SearchTypes
<1>4. SearchTypes'
  BY <1>1, <1>2, <1>3 DEF SearchInv, SearchTypes
<1>5. SearchOwn' /\ NewestAsks'
  BY <1>2, <1>3 DEF SearchInv, SearchTypes, SearchOwn, NewestAsks
<1>6. NewerWins'
  BY <1>2 DEF SearchInv, NewerWins
<1> QED BY <1>4, <1>5, <1>6 DEF SearchInv

LEMMA LeaveFinds ==
  ASSUME SearchInv, ResetSearch, UNCHANGED opens, shell' = 0
  PROVE  SearchInv'
<1>1. ~late => requests' = {}
  BY DEF ResetSearch, SearchInv, SearchOwn
<1>2. requests' \subseteq requests /\ searcher' = 0 /\ query' = "" /\ results' = Nothing
      /\ UNCHANGED <<latest, late>>
  BY DEF ResetSearch
<1>3. 0 \in 0 .. Len(opens)
  BY DEF SearchInv, SearchTypes
<1> QED BY <1>1, <1>2, <1>3 DEF SearchInv, SearchTypes, SearchOwn, NewestAsks, NewerWins

LEMMA NextKeeps == GitInv /\ SearchInv /\ [Next]_vars => (GitInv /\ SearchInv)'
<1> SUFFICES ASSUME GitInv, SearchInv, [Next]_vars PROVE GitInv' /\ SearchInv'
  OBVIOUS
<1>1. CASE UNCHANGED <<searchVars, moves>> /\ GitStep
  BY <1>1, GitStepKeeps, GitLeavesShell, SearchStays DEF searchVars
<1>2. CASE UserGit /\ UNCHANGED searchVars
  BY <1>2, UserGitKeeps, GitLeavesShell, SearchStays
<1>3. CASE SearchDue \/ ToggleRegex \/ \E q \in Queries : SetQuery(q)
  BY <1>3, BoxKeeps, GitStays DEF SearchDue, ToggleRegex, SetQuery, gitVars, storeVars, GitDefs
<1>4. ASSUME NEW r \in requests, Found(r) PROVE GitInv' /\ SearchInv'
  BY <1>4, FoundKeeps, GitStays DEF Found, Show, gitVars, storeVars, GitDefs
<1>5. ASSUME NEW n \in connected, SearchConnected(n) PROVE GitInv' /\ SearchInv'
  BY <1>5, SearchConnectedKeeps, SearchConnectedFinds
<1>6. ASSUME NEW w \in Workspace, Open(w) PROVE GitInv' /\ SearchInv'
  BY <1>6, ConnectGitKeeps, OpenFinds DEF Open
<1>7. CASE Leave
  BY <1>7, ResetGitKeeps, LeaveFinds DEF Leave, ResetGit
<1>8. CASE UNCHANGED vars
  BY <1>8, GitStays, SearchStays DEF vars, gitVars, storeVars, searchVars, GitDefs
<1> QED BY <1>1, <1>2, <1>3, <1>4, <1>5, <1>6, <1>7, <1>8 DEF Next, Step

----------------------------------------------------------------------------

\* The inductive invariant of both panels.
THEOREM PanelsInvariance == Spec => [](GitInv /\ SearchInv)
<1>1. Init => GitInv /\ SearchInv
  BY GitStarts, SearchStarts DEF Init
<1> QED BY <1>1, NextKeeps, PTL DEF Spec

\* What a row of the panel may say of the file.
RowTrue(row, r) ==
  /\ r.work # r.head => row # Nothing
  /\ row # Nothing => (r.work # r.head \/ r.stage # r.head) /\ (row.staged => r.stage # r.head)

LEMMA RowOfTrue ==
  ASSUME NEW r, NEW name \in RowNames, NEW staged \in BOOLEAN,
         r.work # r.head \/ r.stage # r.head, staged => r.stage # r.head
  PROVE  RowTrue(RowOf(name, staged), r)
<1>1. RowOf(name, staged) \in [name : RowNames, staged : BOOLEAN] /\ RowOf(name, staged).staged = staged
  BY DEF RowOf
<1>2. RowOf(name, staged) # Nothing
  BY <1>1, SourceControlAssumption DEF SourceControlAssumption
<1>3. RowOf(name, staged).staged => r.stage # r.head
  BY <1>1
<1> QED BY <1>2, <1>3 DEF RowTrue

\* What classify makes of a status row is true.
LEMMA ClassifyTrue ==
  ASSUME NEW r \in AnyRepo
  PROVE  RowTrue(Classify(Matrix(r)), r)
<1> DEFINE m == Matrix(r)
<1>2. m.head = IF r.head = 0 THEN 0 ELSE 1
  BY DEF Matrix
<1>3. m.workdir = IF r.work = 0 THEN 0 ELSE IF r.work = r.head THEN 1 ELSE 2
  BY DEF Matrix
<1>4. m.stage = IF r.stage = 0 THEN 0 ELSE IF r.stage = r.head THEN 1
                ELSE IF r.stage = r.work THEN 2 ELSE 3
  BY DEF Matrix
<1> HIDE DEF m
<1> SUFFICES RowTrue(Classify(m), r)
  BY DEF m
<1>5. CASE r.head = 0 /\ r.work = 0 /\ r.stage = 0
  <2>1. m.head = 0 /\ m.workdir = 0 /\ m.stage = 0
    BY <1>2, <1>3, <1>4, <1>5
  <2> QED BY <1>5, <2>1 DEF Classify, RowTrue
<1>6. CASE r.head = 0 /\ r.work # 0 /\ r.stage = 0
  <2>1. m.head = 0 /\ m.workdir = 2 /\ m.stage = 0
    BY <1>2, <1>3, <1>4, <1>6
  <2> DEFINE staged == FALSE
  <2>2. staged \in BOOLEAN /\ (staged => r.stage # r.head)
    BY <1>6
  <2> HIDE DEF staged
  <2>3. RowTrue(RowOf("untracked", staged), r)
    <3>1. "untracked" \in RowNames /\ (r.work # r.head \/ r.stage # r.head)
      BY <1>6 DEF RowNames
    <3> QED BY <2>2, <3>1, RowOfTrue, Zenon
  <2> USE DEF staged
  <2> QED BY <2>1, <2>3 DEF Classify
<1>7. CASE r.head = 0 /\ r.stage # 0
  <2>1. m.head = 0 /\ m.stage # 0 /\ m.stage \in {2, 3}
    BY <1>2, <1>4, <1>7
  <2> DEFINE staged == TRUE
  <2>2. staged \in BOOLEAN /\ (staged => r.stage # r.head)
    BY <1>7
  <2> HIDE DEF staged
  <2>3. RowTrue(RowOf("added", staged), r)
    <3>1. "added" \in RowNames /\ (r.work # r.head \/ r.stage # r.head)
      BY <1>7 DEF RowNames
    <3> QED BY <2>2, <3>1, RowOfTrue, Zenon
  <2> USE DEF staged
  <2> QED BY <2>1, <2>3 DEF Classify
<1>8. CASE r.head # 0 /\ r.work = 0
  <2>1. m.head = 1 /\ m.workdir = 0 /\ (m.stage = 0 => r.stage # r.head)
    BY <1>2, <1>3, <1>4, <1>8
  <2> DEFINE staged == m.stage = 0
  <2>2. staged \in BOOLEAN /\ (staged => r.stage # r.head)
    BY <1>8, <2>1
  <2> HIDE DEF staged
  <2>3. RowTrue(RowOf("deleted", staged), r)
    <3>1. "deleted" \in RowNames /\ (r.work # r.head \/ r.stage # r.head)
      BY <1>8 DEF RowNames
    <3> QED BY <2>2, <3>1, RowOfTrue, Zenon
  <2> USE DEF staged
  <2> QED BY <2>1, <2>3 DEF Classify
<1>9. CASE r.head # 0 /\ r.work # 0 /\ r.work # r.head
  <2>1. m.head = 1 /\ m.workdir = 2 /\ (m.stage \in {2, 3} => r.stage # r.head)
    BY <1>2, <1>3, <1>4, <1>9
  <2> DEFINE staged == m.stage \in {2, 3}
  <2>2. staged \in BOOLEAN /\ (staged => r.stage # r.head)
    BY <1>9, <2>1
  <2> HIDE DEF staged
  <2>3. RowTrue(RowOf("modified", staged), r)
    <3>1. "modified" \in RowNames /\ (r.work # r.head \/ r.stage # r.head)
      BY <1>9 DEF RowNames
    <3> QED BY <2>2, <3>1, RowOfTrue, Zenon
  <2> USE DEF staged
  <2> QED BY <2>1, <2>3 DEF Classify
<1>10. CASE r.head # 0 /\ r.work = r.head
  <2>1. m.head = 1 /\ m.workdir = 1
    BY <1>2, <1>3, <1>10
  <2> QED BY <1>10, <2>1 DEF Classify, RowTrue
<1> QED BY <1>5, <1>6, <1>7, <1>8, <1>9, <1>10

\* When nothing is under way, the Git panel's rows are true, whatever calls
\* failed, overlapped or outlived their workspace before.
THEOREM StatusAlwaysTrue == Spec => []StatusTrue
<1>1. GitInv => StatusTrue
  <2> SUFFICES ASSUME GitInv, calls = {}, ~dirty, ~behind, client # 0, isRepo
               PROVE  RowTrue(status, repo[Ws(client)])
    BY DEF StatusTrue, RowTrue
  <2>1. status = Classify(Matrix(repo[Ws(client)]))
    BY DEF GitInv, StatusCurrent, Current
  <2>2. repo[Ws(client)] \in AnyRepo
    BY ElementOfSeq DEF GitInv, GitTypes, Ws
  <2> QED BY <2>1, <2>2, ClassifyTrue
<1> QED BY <1>1, PanelsInvariance, PTL

\* "A newer search always wins over a stale in-flight one", whatever the order of
\* the answers, through changes of workspace.
THEOREM NewerAlwaysWins == Spec => []NewerWins
<1>1. SearchInv => NewerWins
  BY DEF SearchInv
<1> QED BY <1>1, PanelsInvariance, PTL
=============================================================================
