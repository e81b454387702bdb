---------------------------- MODULE TerminalProofs ----------------------------
(***************************************************************************)
(* The bottom panel, the terminal in it and the AI panel beside it, for    *)
(* every height a drag may pass through, every length of line and any      *)
(* number of runs, providers and sends.                                    *)
(***************************************************************************)
EXTENDS AiPanel, SequenceTheorems, TLAPS

Layouts ==
  {l \in [visible : BOOLEAN, maximized : BOOLEAN, height : Nat, tab : {"terminal", "problems"}, odd : BOOLEAN] :
     /\ l.height >= Collapsed
     /\ ~l.visible => ~l.maximized
     /\ l.maximized /\ ~l.odd => l.height > Collapsed}

PanelType ==
  /\ visible \in BOOLEAN /\ maximized \in BOOLEAN /\ dragged \in BOOLEAN
  /\ height \in Nat /\ height >= Collapsed /\ lastExpanded \in Nat
  /\ tab \in {"terminal", "problems"}
  /\ drag \in [start : Nat, last : Nat] \cup {Nothing}
  /\ drag # Nothing => drag.start >= Collapsed /\ drag.last >= Collapsed
  /\ saved \in Layouts \cup {Nothing}
  /\ rested \in Nat \cup {Nothing}

\* What a collapse or a release can rely on, in the middle of a drag or not.
Known ==
  rested # Nothing =>
    /\ drag = Nothing /\ height > Collapsed => rested = height
    /\ drag # Nothing /\ height <= Collapsed => drag.last <= Collapsed
    /\ drag # Nothing /\ drag.start > Collapsed => rested = drag.start
    /\ drag # Nothing /\ drag.start <= Collapsed => Restored = Larger(rested, ExpandedMin)

PanelInv == PanelType /\ MaximizedShown /\ CollapseRemembers /\ Known

----------------------------------------------------------------------------
\* The threshold lies above the collapsed height.
LEMMA SnapAbove == Snap \in Nat /\ Snap > Collapsed
  BY PanelAssumption DEF PanelAssumption, Snap

\* A collapsed panel comes back expanded.
LEMMA RestoredAbove ==
  ASSUME lastExpanded \in Nat
  PROVE  Restored \in Nat /\ Restored >= ExpandedMin /\ Restored > Collapsed
  BY PanelAssumption DEF PanelAssumption, Restored, Larger

LEMMA PanelStarts == PanelInit => PanelInv
<1> SUFFICES ASSUME PanelInit PROVE PanelInv
  OBVIOUS
<1> USE PanelAssumption DEF PanelAssumption, PanelInit
<1>1. lastExpanded = Default
  BY DEF Larger
<1>2. PanelType
  <2>1. visible \in BOOLEAN /\ maximized \in BOOLEAN /\ dragged \in BOOLEAN
    OBVIOUS
  <2>2. height \in Nat /\ height >= Collapsed /\ lastExpanded \in Nat
    BY <1>1
  <2>3.  drag \in [start : Nat, last : Nat] \cup {Nothing}
    OBVIOUS
  <2>4. saved \in Layouts \cup {Nothing}
    OBVIOUS
  <2>5. rested \in Nat \cup {Nothing}
    OBVIOUS
  <2> QED BY <2>1, <2>2, <2>3, <2>4, <2>5 DEF PanelType
<1>3. MaximizedShown
  BY DEF MaximizedShown
<1>4. CollapseRemembers
  BY DEF CollapseRemembers
<1>5. Known
  BY DEF Known
<1> QED BY <1>2, <1>3, <1>4, <1>5 DEF PanelInv

\* The commands and buttons.
LEMMA CommandStep ==
  ASSUME PanelInv,
         Close \/ ToggleTerminalFocus \/ TogglePanelCollapsed \/ ToggleMaximizePanel
  PROVE  PanelInv'
<1> USE PanelAssumption DEF PanelAssumption, PanelInv
<1>0. Restored \in Nat /\ Restored >= ExpandedMin /\ Restored > Collapsed
  BY RestoredAbove DEF PanelType
<1>1. CASE Close
  <2>1. PanelType'
    BY <1>0, <1>1 DEF Close, Settle, PanelType
  <2>2. MaximizedShown'
    BY <1>0, <1>1 DEF Close, Settle, PanelType, MaximizedShown
  <2>3. CollapseRemembers'
    BY <1>0, <1>1 DEF Close, Settle, PanelType, CollapseRemembers, Known, Restored, Larger
  <2>4. Known'
    BY <1>0, <1>1 DEF Close, Settle, PanelType, CollapseRemembers, Known, Restored, Larger
  <2> QED BY <2>1, <2>2, <2>3, <2>4
<1>2. CASE ToggleTerminalFocus
  <2>0. height' \in Nat /\ height' >= Collapsed /\ lastExpanded' \in Nat
    BY <1>0, <1>2 DEF ToggleTerminalFocus, PanelType
  <2>1. PanelType'
    <3>1. rested' \in Nat \cup {Nothing}
      BY <1>2, <2>0 DEF ToggleTerminalFocus, Settle, PanelType
    <3>2. visible' \in BOOLEAN /\ maximized' \in BOOLEAN /\ dragged' \in BOOLEAN /\ tab' \in {"terminal", "problems"}
      BY <1>2 DEF ToggleTerminalFocus, Settle, PanelType
    <3>3. drag' = drag /\ saved' = saved
      BY <1>2 DEF ToggleTerminalFocus
    <3> QED BY <2>0, <3>1, <3>2, <3>3 DEF PanelType
  <2>2. MaximizedShown'
    BY <1>0, <1>2 DEF ToggleTerminalFocus, Settle, PanelType, MaximizedShown
  <2>3. CollapseRemembers'
    BY <1>0, <1>2 DEF ToggleTerminalFocus, Settle, PanelType, CollapseRemembers, Known, Restored, Larger
  <2>4. Known'
    BY <1>0, <1>2 DEF ToggleTerminalFocus, Settle, PanelType, CollapseRemembers, Known, Restored, Larger
  <2> QED BY <2>1, <2>2, <2>3, <2>4
<1>3. CASE TogglePanelCollapsed
  <2>0. height' \in Nat /\ height' >= Collapsed /\ lastExpanded' \in Nat
    BY <1>0, <1>3 DEF TogglePanelCollapsed, PanelType
  <2>1. PanelType'
    <3>1. rested' \in Nat \cup {Nothing}
      BY <1>3, <2>0 DEF TogglePanelCollapsed, Settle, PanelType
    <3>2. visible' \in BOOLEAN /\ maximized' \in BOOLEAN /\ dragged' \in BOOLEAN /\ tab' \in {"terminal", "problems"}
      BY <1>3 DEF TogglePanelCollapsed, Settle, PanelType
    <3>3. drag' = drag /\ saved' = saved
      BY <1>3 DEF TogglePanelCollapsed
    <3> QED BY <2>0, <3>1, <3>2, <3>3 DEF PanelType
  <2>2. MaximizedShown'
    BY <1>0, <1>3 DEF TogglePanelCollapsed, Settle, PanelType, MaximizedShown
  <2>3. CollapseRemembers'
    <3>1. CASE visible /\ height > Collapsed
      <4>1. drag' = drag /\ height' = Collapsed /\ lastExpanded' = height
        BY <1>3, <3>1 DEF TogglePanelCollapsed
      <4>2. drag = Nothing => rested' = rested
        BY <1>3, <4>1 DEF TogglePanelCollapsed, Settle, PanelType
      <4>3. drag = Nothing /\ rested # Nothing => rested = height
        BY <3>1 DEF Known
      <4>4. drag' = Nothing /\ rested' # Nothing => lastExpanded' = rested'
        BY <4>1, <4>2, <4>3
      <4> QED BY <4>4 DEF CollapseRemembers, Restored
    <3>2. CASE visible /\ maximized /\ height = Collapsed
      BY <1>0, <1>3, <3>2 DEF TogglePanelCollapsed, Settle, PanelType, CollapseRemembers, Restored
    <3>3. CASE ~(visible /\ (maximized \/ height > Collapsed))
      <4>1. height' > Collapsed
        BY <1>0, <1>3, <3>3 DEF TogglePanelCollapsed
      <4> QED BY <2>0, <4>1 DEF CollapseRemembers
    <3> QED BY <3>1, <3>2, <3>3 DEF PanelType
  <2>4. Known'
    <3>1. CASE visible /\ height > Collapsed
      BY <1>0, <1>3, <3>1 DEF TogglePanelCollapsed, Settle, PanelType, Known
    <3>2. CASE visible /\ maximized /\ height = Collapsed
      BY <1>0, <1>3, <3>2 DEF TogglePanelCollapsed, Settle, PanelType, Known, Restored
    <3>3. CASE ~(visible /\ (maximized \/ height > Collapsed))
      BY <1>0, <1>3, <3>3 DEF TogglePanelCollapsed, Settle, PanelType, CollapseRemembers, Known, Restored
    <3> QED BY <3>1, <3>2, <3>3 DEF PanelType
  <2> QED BY <2>1, <2>2, <2>3, <2>4
<1>4. CASE ToggleMaximizePanel
  <2>1. PanelType'
    BY <1>0, <1>4 DEF ToggleMaximizePanel, Settle, PanelType
  <2>2. MaximizedShown'
    BY <1>0, <1>4 DEF ToggleMaximizePanel, Settle, PanelType, MaximizedShown
  <2>3. CollapseRemembers'
    BY <1>0, <1>4 DEF ToggleMaximizePanel, Settle, PanelType, CollapseRemembers, Known, Restored, Larger
  <2>4. Known'
    BY <1>0, <1>4 DEF ToggleMaximizePanel, Settle, PanelType, CollapseRemembers, Known, Restored, Larger
  <2> QED BY <2>1, <2>2, <2>3, <2>4
<1> QED BY <1>1, <1>2, <1>3, <1>4

\* What is stored of the panel is a layout it may come back with.
LEMMA LayoutStep ==
  ASSUME PanelInv,
         SaveLayout \/ (\E t \in {"terminal", "problems"} : SetTab(t))
         \/ (\E reloaded \in BOOLEAN :
               \E l \in {DefaultLayout, saved} \ {Nothing} : HydrateLayout(l, reloaded))
  PROVE  PanelInv'
<1> USE PanelAssumption
    DEF PanelAssumption, PanelInv, PanelType, MaximizedShown, CollapseRemembers, Known, Restored, Larger
<1>1. CASE SaveLayout
  BY <1>1 DEF SaveLayout, Layout, Layouts
<1>2. ASSUME NEW t \in {"terminal", "problems"}, SetTab(t) PROVE PanelInv'
  BY <1>2 DEF SetTab
<1>3. ASSUME NEW reloaded \in BOOLEAN, NEW l \in {DefaultLayout, saved} \ {Nothing},
             HydrateLayout(l, reloaded)
      PROVE  PanelInv'
  <2>1. DefaultLayout \in Layouts
    BY DEF DefaultLayout, Layout, Layouts
  <2>2. l \in Layouts
    BY <2>1
  <2> QED BY <1>3, <2>2 DEF HydrateLayout, Layouts
<1> QED BY <1>1, <1>2, <1>3

\* The drag, whatever came between its frames.
LEMMA DragStep ==
  ASSUME PanelInv, DragStart \/ DragCommit \/ (\E h \in Heights : DragMove(h))
  PROVE  PanelInv'
<1> USE PanelAssumption
    DEF PanelAssumption, PanelInv, PanelType, MaximizedShown, CollapseRemembers, Known, Restored, Larger
<1>1. CASE DragStart
  BY <1>1 DEF DragStart, Drag
<1>2. CASE DragCommit
  BY <1>2, SnapAbove DEF DragCommit
<1>3. ASSUME NEW h \in Heights, DragMove(h) PROVE PanelInv'
  BY <1>3 DEF DragMove, Drag
<1> QED BY <1>1, <1>2, <1>3

LEMMA PanelStep == PanelInv /\ PanelNext => PanelInv'
  BY CommandStep, LayoutStep, DragStep DEF PanelNext

\* What the terminal does to the panel is nothing.
LEMMA PanelStays == TermNext => PanelNext \/ UNCHANGED panelVars
  BY DEF TermNext, UserKey, TypeKey, EditKey, HistoryUp, HistoryDown, CtrlC, TabKey, EnterNothing,
         EnterLine, Key, Completed, Connected, Replaced, ShellStep, Started, ScriptPrints, ScriptEnds,
         ScriptHeard, ScriptTimeout, CloudAsked, CloudHeaders, CloudRefused, CloudPrints, CloudEnds,
         BuiltinEnds, Ended, Quiet, Heard

\* The AI panel is beside the others.
LEMMA NextSplits ==
  [Next]_<<vars, aiVars>> => (TermNext /\ UNCHANGED aiVars) \/ UNCHANGED vars \/ UNCHANGED <<panelVars, termVars>>
  BY DEF Next

\* The inductive invariant of the bottom panel, its drags and its stored layouts.
THEOREM PanelInvariance == Spec => []PanelInv
<1>1. TermInit => PanelInv
  BY PanelStarts DEF TermInit
<1>2. ASSUME PanelInv, UNCHANGED panelVars PROVE PanelInv'
  BY <1>2 DEF panelVars, PanelInv, PanelType, MaximizedShown, CollapseRemembers, Known, Restored
<1>3. PanelInv /\ [Next]_<<vars, aiVars>> => PanelInv'
  BY <1>2, PanelStep, PanelStays, NextSplits DEF vars
<1> QED BY <1>1, <1>3, PTL DEF Spec, Init

\* A closed panel is never maximized, and a maximized one has a height to go back
\* to, for every height a drag passes through.
THEOREM MaximizedAlwaysShown == Spec => []MaximizedShown
<1>1. PanelInv => MaximizedShown
  BY DEF PanelInv
<1> QED BY <1>1, PanelInvariance, PTL

\* Collapsing keeps the height to restore through every sequence of commands, drags and
\* stored layouts, but where the history says that the code loses it: a command that
\* collapses the panel during a drag, and a layout that comes back collapsed.
THEOREM CollapseAlwaysRemembers == Spec => []CollapseRemembers
<1>1. PanelInv => CollapseRemembers
  BY DEF PanelInv
<1> QED BY <1>1, PanelInvariance, PTL

----------------------------------------------------------------------------
(* The terminal *)

RunRecords ==
  [what : {"builtin", "script", "cloud"},
   at   : {"entered", "running", "asked", "reading", "returned", "prompted"}]

Messages == [run : Nat, kind : {"out", "result"}]

\* The states of a run from which something may still be printed.
Living == {"running", "asked", "reading"}

Elems(p) == {p[i] : i \in DOMAIN p}

\* Nothing of a run comes after its result.
InOrder(p) == \A i, j \in DOMAIN p : i < j /\ p[i].kind = "result" => p[j].run # p[i].run

TermType ==
  /\ runs \in Seq(RunRecords)
  /\ scripts \in Seq(Seq({"out", "done"})) /\ Len(scripts) = Len(runs)

Owed ==
  /\ posted \in Seq(Messages) /\ InOrder(posted)
  /\ \A m \in Elems(posted) :
       /\ m.run \in Runs /\ runs[m.run].at # "prompted"
       /\ m.kind = "result" => runs[m.run].at = "returned"

\* Only a running script has messages on the way to the shell.
ScriptsOwn ==
  \A n \in Runs : scripts[n] # <<>> => runs[n].at = "running" /\ runs[n].what = "script"

TermInv == TermType /\ Owed /\ ScriptsOwn

\* A message is added behind those there are.
LEMMA AppendElems ==
  ASSUME NEW p \in Seq(Messages), NEW m \in Messages, InOrder(p),
         \A e \in Elems(p) : e.kind = "result" => e.run # m.run
  PROVE  /\ Append(p, m) \in Seq(Messages) /\ InOrder(Append(p, m))
         /\ Elems(Append(p, m)) = Elems(p) \cup {m}
<1>1. /\ Append(p, m) \in Seq(Messages) /\ Len(Append(p, m)) = Len(p) + 1
      /\ \A i \in 1 .. Len(p) : Append(p, m)[i] = p[i]
      /\ Append(p, m)[Len(p) + 1] = m
  BY AppendProperties
<1>2. DOMAIN p = 1 .. Len(p) /\ DOMAIN Append(p, m) = 1 .. Len(p) + 1 /\ Len(p) \in Nat
  BY <1>1, LenProperties
<1>3. Elems(Append(p, m)) = Elems(p) \cup {m}
  BY <1>1, <1>2 DEF Elems
<1>4. InOrder(Append(p, m))
  <2> SUFFICES ASSUME NEW i \in 1 .. Len(p) + 1, NEW j \in 1 .. Len(p) + 1, i < j,
                      Append(p, m)[i].kind = "result"
               PROVE  Append(p, m)[j].run # Append(p, m)[i].run
    BY <1>2 DEF InOrder
  <2>1. i \in 1 .. Len(p) /\ Append(p, m)[i] = p[i]
    BY <1>1, <1>2
  <2>2. CASE j = Len(p) + 1
    BY <1>1, <1>2, <2>1, <2>2 DEF Elems
  <2>3. CASE j \in 1 .. Len(p)
    BY <1>1, <1>2, <2>1, <2>3 DEF InOrder
  <2> QED BY <1>2, <2>2, <2>3
<1> QED BY <1>1, <1>3, <1>4

\* The first message is taken; after a result nothing of that run is left.
LEMMA TailElems ==
  ASSUME NEW p \in Seq(Messages), p # <<>>, InOrder(p)
  PROVE  /\ Tail(p) \in Seq(Messages) /\ InOrder(Tail(p)) /\ Elems(Tail(p)) \subseteq Elems(p)
         /\ Head(p) \in Elems(p)
         /\ Head(p).kind = "result" => \A e \in Elems(Tail(p)) : e.run # Head(p).run
<1>1. /\ Tail(p) \in Seq(Messages) /\ Len(Tail(p)) = Len(p) - 1
      /\ \A i \in 1 .. Len(Tail(p)) : Tail(p)[i] = p[i + 1]
  BY HeadTailProperties
<1>2. DOMAIN p = 1 .. Len(p) /\ DOMAIN Tail(p) = 1 .. Len(p) - 1 /\ Len(p) \in Nat \ {0}
  BY <1>1, LenProperties, EmptySeq
<1>3. Head(p) = p[1]
  BY <1>2
<1>4. \A i \in DOMAIN Tail(p) : i + 1 \in DOMAIN p /\ Tail(p)[i] = p[i + 1]
  BY <1>1, <1>2
<1>5. InOrder(Tail(p))
  <2> SUFFICES ASSUME NEW i \in DOMAIN Tail(p), NEW j \in DOMAIN Tail(p), i < j,
                      Tail(p)[i].kind = "result"
               PROVE  Tail(p)[j].run # Tail(p)[i].run
    BY DEF InOrder
  <2>1. i + 1 < j + 1
    BY <1>2
  <2> QED BY <1>4, <2>1 DEF InOrder
<1>6. ASSUME Head(p).kind = "result", NEW i \in DOMAIN Tail(p) PROVE Tail(p)[i].run # Head(p).run
  <2>1. 1 \in DOMAIN p /\ 1 < i + 1
    BY <1>2
  <2> QED BY <1>3, <1>4, <1>6, <2>1 DEF InOrder
<1> QED BY <1>1, <1>2, <1>3, <1>4, <1>5, <1>6 DEF Elems

\* What To(n, at) does to the runs.
LEMMA ToRun ==
  ASSUME TermType, NEW n \in Runs, NEW at \in {"running", "asked", "reading", "returned", "prompted"},
         To(n, at)
  PROVE  /\ runs' \in Seq(RunRecords) /\ Len(runs') = Len(runs) /\ Runs' = Runs
         /\ runs'[n].at = at /\ runs'[n].what = runs[n].what
         /\ \A k \in Runs : k # n => runs'[k] = runs[k]
<1> DEFINE r == [what |-> runs[n].what, at |-> at]
<1>1. DOMAIN runs = 1 .. Len(runs) /\ runs[n] \in RunRecords
  BY LenProperties, ElementOfSeq DEF TermType, Runs
<1>2. r \in RunRecords /\ r.at = at /\ r.what = runs[n].what
  BY <1>1 DEF RunRecords
<1>3. runs' = [runs EXCEPT ![n] = r]
  BY DEF To
<1> HIDE DEF r
<1>4. /\ runs' \in Seq(RunRecords) /\ Len(runs') = Len(runs)
      /\ \A k \in 1 .. Len(runs) : runs'[k] = IF k = n THEN r ELSE runs[k]
  BY <1>1, <1>2, <1>3, ExceptSeq DEF TermType, Runs
<1>5. Runs' = Runs
  BY <1>1, <1>4, LenProperties DEF Runs
<1> QED BY <1>1, <1>2, <1>4, <1>5 DEF Runs

\* A run that goes on prints.
LEMMA Says ==
  ASSUME TermInv, NEW n \in Runs, runs[n].at \in Living, Runs' = Runs,
         \A k \in Runs : k # n => runs'[k] = runs[k],
         runs'[n].at \in Living,
         posted' = Append(posted, Message(n, "out"))
  PROVE  Owed'
<1>1. n \in Nat
  BY LenProperties DEF TermInv, TermType, Runs
<1>2. Message(n, "out") \in Messages
  BY <1>1 DEF Message, Messages
<1>3. \A e \in Elems(posted) : e.kind = "result" => e.run # n
  BY DEF TermInv, Owed, Living
<1>4. /\ posted' \in Seq(Messages) /\ InOrder(posted')
      /\ Elems(posted') = Elems(posted) \cup {Message(n, "out")}
  BY <1>2, <1>3, AppendElems DEF TermInv, Owed, Message
<1>5. ASSUME NEW m \in Elems(posted') 
      PROVE  /\ m.run \in Runs' /\ runs'[m.run].at # "prompted"
             /\ m.kind = "result" => runs'[m.run].at = "returned"
  <2>1. CASE m = Message(n, "out")
    BY <2>1 DEF Message, Living
  <2>2. CASE m \in Elems(posted) /\ m.run # n
    BY <2>2 DEF TermInv, Owed
  <2>3. CASE m \in Elems(posted) /\ m.run = n
    BY <1>3, <2>3 DEF Living
  <2> QED BY <1>4, <2>1, <2>2, <2>3
<1> QED BY <1>4, <1>5 DEF Owed

\* A run ends: perhaps a last line, then its result.
LEMMA Returns ==
  ASSUME TermInv, NEW n \in Runs, runs[n].at \in Living, NEW out \in BOOLEAN, Ended(n, out)
  PROVE  Owed'
<1>1. n \in Nat
  BY LenProperties DEF TermInv, TermType, Runs
<1>2. Message(n, "out") \in Messages /\ Message(n, "result") \in Messages
  BY <1>1 DEF Message, Messages
<1>3. \A e \in Elems(posted) : e.kind = "result" => e.run # n
  BY DEF TermInv, Owed, Living
<1>4. /\ Runs' = Runs /\ runs'[n].at = "returned"
      /\ \A k \in Runs : k # n => runs'[k] = runs[k]
  BY ToRun DEF TermInv, Ended
<1> DEFINE p == IF out THEN Append(posted, Message(n, "out")) ELSE posted
<1>5. /\ p \in Seq(Messages) /\ InOrder(p) /\ Elems(p) \subseteq Elems(posted) \cup {Message(n, "out")}
  BY <1>2, <1>3, AppendElems DEF TermInv, Owed, Message
<1>6. posted' = Append(p, Message(n, "result"))
  <2>1. CASE out
    <3>1. p = posted \o <<Message(n, "out")>>
      BY <1>2, <2>1, AppendIsConcat DEF TermInv, Owed
    <3>2. Append(p, Message(n, "result")) = p \o <<Message(n, "result")>>
      BY <1>2, <1>5, AppendIsConcat
    <3> QED BY <2>1, <3>1, <3>2 DEF Ended
  <2>2. CASE ~out
    <3>1. posted \o << >> = posted
      BY ConcatEmptySeq DEF TermInv, Owed
    <3>2. Append(p, Message(n, "result")) = p \o <<Message(n, "result")>>
      BY <1>2, <1>5, AppendIsConcat
    <3> QED BY <2>2, <3>1, <3>2 DEF Ended
  <2> QED BY <2>1, <2>2
<1>7. \A e \in Elems(p) : e.kind = "result" => e.run # Message(n, "result").run
  BY <1>3, <1>5 DEF Message
<1> HIDE DEF p
<1>8. /\ posted' \in Seq(Messages) /\ InOrder(posted')
      /\ Elems(posted') = Elems(p) \cup {Message(n, "result")}
  BY <1>2, <1>5, <1>6, <1>7, AppendElems
<1>9. ASSUME NEW m \in Elems(posted')
      PROVE  /\ m.run \in Runs' /\ runs'[m.run].at # "prompted"
             /\ m.kind = "result" => runs'[m.run].at = "returned"
  <2>1. CASE m.run = n
    BY <1>4, <2>1
  <2>2. CASE m.run # n
    <3>1. m \in Elems(posted)
      BY <1>5, <1>8, <2>2 DEF Message
    <3> QED BY <1>4, <2>2, <3>1 DEF TermInv, Owed
  <2> QED BY <2>1, <2>2
<1> QED BY <1>8, <1>9 DEF Owed

\* Steps that no run takes part in.
LEMMA ShellStays ==
  ASSUME TermInv, UNCHANGED <<runs, posted, scripts>>
  PROVE  TermInv'
  BY DEF TermInv, TermType, Owed, ScriptsOwn, InOrder, Elems, Runs

\* A line is entered: one more run, of which there is nothing yet.
LEMMA LineEntered ==
  ASSUME TermInv, NEW what \in {"builtin", "script", "cloud"}, EnterLine(what)
  PROVE  TermInv'
<1> DEFINE r == [what |-> what, at |-> "entered"]
<1>1. r \in RunRecords /\ runs' = Append(runs, r) /\ scripts' = Append(scripts, <<>>) /\ posted' = posted
  BY DEF EnterLine, RunRecords
<1> HIDE DEF r
<1>2. <<>> \in Seq({"out", "done"})
  BY EmptySeq
<1>3. /\ runs' \in Seq(RunRecords) /\ Len(runs') = Len(runs) + 1
      /\ \A i \in 1 .. Len(runs) : runs'[i] = runs[i]
  BY <1>1, AppendProperties DEF TermInv, TermType
<1>4. /\ scripts' \in Seq(Seq({"out", "done"})) /\ Len(scripts') = Len(scripts) + 1
      /\ \A i \in 1 .. Len(scripts) : scripts'[i] = scripts[i]
      /\ scripts'[Len(scripts) + 1] = <<>>
  BY <1>1, <1>2, AppendProperties DEF TermInv, TermType
<1>5. Runs = 1 .. Len(runs) /\ Runs' = 1 .. Len(runs) + 1 /\ Len(runs) \in Nat /\ Len(scripts) = Len(runs)
  BY <1>3, LenProperties DEF TermInv, TermType, Runs
<1>6. TermType'
  BY <1>3, <1>4, <1>5 DEF TermType
<1>7. \A n \in Runs : n \in Runs' /\ runs'[n] = runs[n] /\ scripts'[n] = scripts[n]
  BY <1>3, <1>4, <1>5
<1>8. Owed'
  <2>1. Elems(posted') = Elems(posted) /\ (InOrder(posted) => InOrder(posted'))
    BY <1>1
  <2> QED BY <1>1, <1>7, <2>1 DEF TermInv, Owed
<1>9. ScriptsOwn'
  <2> SUFFICES ASSUME NEW n \in Runs', scripts'[n] # <<>>
               PROVE  runs'[n].at = "running" /\ runs'[n].what = "script"
    BY DEF ScriptsOwn
  <2>1. n \in Runs
    BY <1>4, <1>5
  <2> QED BY <1>7, <2>1 DEF TermInv, ScriptsOwn
<1> QED BY <1>6, <1>8, <1>9 DEF TermInv

\* The messages of one script's worker change; those of the others stay.
LEMMA ScriptChanges ==
  ASSUME TermType, NEW n \in Runs, NEW q \in Seq({"out", "done"}), scripts' = [scripts EXCEPT ![n] = q]
  PROVE  /\ scripts' \in Seq(Seq({"out", "done"})) /\ Len(scripts') = Len(scripts)
         /\ scripts'[n] = q /\ \A k \in Runs : k # n => scripts'[k] = scripts[k]
<1>1. Runs = 1 .. Len(scripts)
  BY LenProperties DEF TermType, Runs
<1> QED BY <1>1, ExceptSeq DEF TermType

\* What is left of the worker of a run when the run is over.
LEMMA ReturnsStep ==
  ASSUME TermInv, NEW n \in Runs, runs[n].at \in Living, NEW out \in BOOLEAN, Ended(n, out),
         \/ scripts' = [scripts EXCEPT ![n] = <<>>]
         \/ UNCHANGED scripts /\ runs[n].what # "script"
  PROVE  TermInv'
<1>1. Owed'
  BY Returns
<1>2. /\ runs' \in Seq(RunRecords) /\ Len(runs') = Len(runs) /\ Runs' = Runs
      /\ \A k \in Runs : k # n => runs'[k] = runs[k]
  BY ToRun DEF TermInv, Ended
<1>3. <<>> \in Seq({"out", "done"})
  BY EmptySeq
<1>4. /\ scripts' \in Seq(Seq({"out", "done"})) /\ Len(scripts') = Len(scripts)
      /\ scripts'[n] = <<>> /\ \A k \in Runs : k # n => scripts'[k] = scripts[k]
  <2>1. CASE scripts' = [scripts EXCEPT ![n] = <<>>]
    BY <1>3, <2>1, ScriptChanges DEF TermInv
  <2>2. CASE UNCHANGED scripts /\ runs[n].what # "script"
    BY <2>2 DEF TermInv, TermType, ScriptsOwn
  <2> QED BY <2>1, <2>2
<1> QED BY <1>1, <1>2, <1>4 DEF TermInv, TermType, ScriptsOwn

\* The steps of a script and of its worker.
LEMMA ScriptStep ==
  ASSUME TermInv, NEW n \in Runs,
         ScriptPrints(n) \/ ScriptEnds(n) \/ ScriptHeard(n) \/ ScriptTimeout(n)
  PROVE  TermInv'
<1>0. scripts[n] \in Seq({"out", "done"})
  BY LenProperties, ElementOfSeq DEF TermInv, TermType, Runs
<1>1. CASE ScriptPrints(n) \/ ScriptEnds(n)
  <2>1. PICK m \in {"out", "done"} : scripts' = [scripts EXCEPT ![n] = Append(scripts[n], m)]
    BY <1>1 DEF ScriptPrints, ScriptEnds
  <2>2. Append(scripts[n], m) \in Seq({"out", "done"})
    BY <1>0, AppendProperties
  <2>3. /\ runs[n].what = "script" /\ runs[n].at = "running" /\ runs' = runs /\ posted' = posted
    BY <1>1 DEF ScriptPrints, ScriptEnds, At
  <2>4. /\ scripts' \in Seq(Seq({"out", "done"})) /\ Len(scripts') = Len(scripts)
        /\ \A k \in Runs : k # n => scripts'[k] = scripts[k]
    BY <2>1, <2>2, ScriptChanges DEF TermInv
  <2>5. Owed'
    BY <2>3 DEF TermInv, Owed, Runs
  <2> QED BY <2>3, <2>4, <2>5 DEF TermInv, TermType, ScriptsOwn, Runs
<1>2. CASE ScriptHeard(n) /\ Head(scripts[n]) = "out"
  <2>1. /\ runs[n].what = "script" /\ runs[n].at = "running" /\ scripts[n] # <<>>
    BY <1>2 DEF ScriptHeard, TermInv, ScriptsOwn
  <2>2. /\ posted' = Append(posted, Message(n, "out")) /\ runs' = runs
        /\ scripts' = [scripts EXCEPT ![n] = Tail(scripts[n])]
    BY <1>2 DEF ScriptHeard
  <2>3. Tail(scripts[n]) \in Seq({"out", "done"})
    BY <1>0, <2>1, HeadTailProperties
  <2>4. /\ scripts' \in Seq(Seq({"out", "done"})) /\ Len(scripts') = Len(scripts)
        /\ \A k \in Runs : k # n => scripts'[k] = scripts[k]
    BY <2>2, <2>3, ScriptChanges DEF TermInv
  <2>5. Owed'
    BY <2>1, <2>2, Says DEF Living, Runs
  <2> QED BY <2>1, <2>2, <2>4, <2>5 DEF TermInv, TermType, ScriptsOwn, Runs
<1>3. CASE ScriptHeard(n) /\ Head(scripts[n]) # "out"
  <2>1. runs[n].at = "running"
    BY <1>3 DEF ScriptHeard, TermInv, ScriptsOwn
  <2> QED BY <1>3, <2>1, ReturnsStep DEF ScriptHeard, Living
<1>4. CASE ScriptTimeout(n)
  BY <1>4, ReturnsStep DEF ScriptTimeout, At, Living
<1> QED BY <1>1, <1>2, <1>3, <1>4

\* The steps of a builtin and of a cloud run, and the start of every run.
LEMMA OtherStep ==
  ASSUME TermInv, NEW n \in Runs, NEW out \in BOOLEAN,
         \/ Started(n) \/ CloudAsked(n) \/ CloudHeaders(n) \/ CloudRefused(n) \/ CloudPrints(n)
         \/ BuiltinEnds(n, out) \/ CloudEnds(n, out)
  PROVE  TermInv'
<1>1. CASE CloudRefused(n) \/ BuiltinEnds(n, out) \/ CloudEnds(n, out)
  BY <1>1, ReturnsStep DEF CloudRefused, BuiltinEnds, CloudEnds, At, Living
<1>2. CASE Started(n) \/ CloudHeaders(n)
  <2>1. PICK at \in {"running", "reading"} : To(n, at)
    BY <1>2 DEF Started, CloudHeaders
  <2>2. /\ posted' = posted /\ scripts' = scripts
        /\ runs[n].at \in {"entered", "asked"}
    BY <1>2 DEF Started, CloudHeaders, At
  <2>3. /\ runs' \in Seq(RunRecords) /\ Len(runs') = Len(runs) /\ Runs' = Runs
        /\ runs'[n].at = at /\ \A k \in Runs : k # n => runs'[k] = runs[k]
    BY <2>1, ToRun DEF TermInv
  <2>4. \A m \in Elems(posted) : m.kind = "result" => m.run # n
    BY <2>2 DEF TermInv, Owed
  <2>5. Owed'
    BY <2>2, <2>3, <2>4 DEF TermInv, Owed, InOrder, Elems
  <2>6. scripts[n] = <<>>
    BY <2>2 DEF TermInv, ScriptsOwn
  <2> QED BY <2>2, <2>3, <2>5, <2>6 DEF TermInv, TermType, ScriptsOwn
<1>3. CASE CloudAsked(n)
  <2>1. /\ runs' \in Seq(RunRecords) /\ Len(runs') = Len(runs) /\ Runs' = Runs
        /\ runs'[n].at = "asked" /\ \A k \in Runs : k # n => runs'[k] = runs[k]
    BY <1>3, ToRun DEF TermInv, CloudAsked
  <2>2. /\ runs[n].at = "running" /\ runs[n].what = "cloud" /\ scripts' = scripts
        /\ posted' = Append(posted, Message(n, "out"))
    BY <1>3 DEF CloudAsked, At
  <2>3. Owed'
    BY <2>1, <2>2, Says DEF Living
  <2>4. scripts[n] = <<>>
    BY <2>2 DEF TermInv, ScriptsOwn
  <2> QED BY <2>1, <2>2, <2>3, <2>4 DEF TermInv, TermType, ScriptsOwn
<1>4. CASE CloudPrints(n)
  <2>1. /\ runs[n].at = "reading" /\ runs' = runs /\ scripts' = scripts
        /\ posted' = Append(posted, Message(n, "out"))
    BY <1>4 DEF CloudPrints, At
  <2>2. Owed'
    BY <2>1, Says DEF Living, Runs
  <2> QED BY <2>1, <2>2 DEF TermInv, TermType, ScriptsOwn, Runs
<1> QED BY <1>1, <1>2, <1>3, <1>4

\* A prompt is written once nothing of its run is left.
LEMMA HeardStep ==
  ASSUME TermInv, Heard
  PROVE  TermInv'
<1>1. /\ Tail(posted) \in Seq(Messages) /\ InOrder(Tail(posted)) /\ Elems(Tail(posted)) \subseteq Elems(posted)
      /\ Head(posted) \in Elems(posted)
      /\ Head(posted).kind = "result" => \A e \in Elems(Tail(posted)) : e.run # Head(posted).run
  BY TailElems DEF Heard, TermInv, Owed
<1>2. Head(posted).kind \in {"out", "result"}
  <2>1. Head(posted) \in Messages
    BY HeadTailProperties DEF Heard, TermInv, Owed
  <2> QED BY <2>1 DEF Messages
<1>3. posted' = Tail(posted) /\ scripts' = scripts
  BY DEF Heard
<1>4. CASE Head(posted).kind = "out"
  BY <1>1, <1>3, <1>4 DEF Heard, TermInv, TermType, Owed, ScriptsOwn, Runs
<1>5. CASE Head(posted).kind = "result"
  <2> DEFINE n == Head(posted).run
  <2>1. n \in Runs /\ runs[n].at = "returned"
    BY <1>1, <1>5 DEF TermInv, Owed
  <2>2. To(n, "prompted")
    BY <1>5 DEF Heard
  <2> HIDE DEF n
  <2>3. /\ runs' \in Seq(RunRecords) /\ Len(runs') = Len(runs) /\ Runs' = Runs
        /\ \A k \in Runs : k # n => runs'[k] = runs[k]
    BY <2>1, <2>2, ToRun DEF TermInv
  <2>4. \A e \in Elems(posted') : e \in Elems(posted) /\ e.run # n
    BY <1>1, <1>3, <1>5 DEF n
  <2>5. Owed'
    BY <1>1, <1>3, <2>3, <2>4 DEF TermInv, Owed
  <2>6. scripts[n] = <<>>
    BY <2>1 DEF TermInv, ScriptsOwn
  <2> QED BY <1>3, <2>3, <2>5, <2>6 DEF TermInv, TermType, ScriptsOwn
<1> QED BY <1>2, <1>4, <1>5

LEMMA TermStarts ==
  ASSUME runs = <<>>, posted = <<>>, scripts = <<>>
  PROVE  TermInv
<1>1. /\ runs \in Seq(RunRecords) /\ scripts \in Seq(Seq({"out", "done"})) /\ posted \in Seq(Messages)
      /\ Len(runs) = 0 /\ Len(scripts) = 0 /\ Len(posted) = 0
  BY EmptySeq
<1>2. DOMAIN runs = {} /\ DOMAIN posted = {}
  BY <1>1, LenProperties
<1> QED BY <1>1, <1>2 DEF TermInv, TermType, Owed, ScriptsOwn, InOrder, Elems, Runs

\* The inductive invariant of the terminal: a run's result is its last message,
\* and only a script that runs has a worker with something to say.
THEOREM TermInvariance == Spec => []TermInv
<1>1. TermInit => TermInv
  BY TermStarts DEF TermInit
<1>2. ASSUME TermInv, [TermNext]_vars PROVE TermInv'
  <2>1. CASE UNCHANGED <<runs, posted, scripts>>
    BY <1>2, <2>1, ShellStays
  <2>2. CASE \E what \in {"builtin", "script", "cloud"} : EnterLine(what)
    BY <1>2, <2>2, LineEntered
  <2>3. CASE ShellStep
    <3>1. PICK n \in Runs :
            \/ ScriptPrints(n) \/ ScriptEnds(n) \/ ScriptHeard(n) \/ ScriptTimeout(n)
            \/ \E out \in BOOLEAN :
                 \/ Started(n) \/ CloudAsked(n) \/ CloudHeaders(n) \/ CloudRefused(n) \/ CloudPrints(n)
                 \/ BuiltinEnds(n, out) \/ CloudEnds(n, out)
      BY <2>3, Zenon DEF ShellStep
    <3>2. CASE ScriptPrints(n) \/ ScriptEnds(n) \/ ScriptHeard(n) \/ ScriptTimeout(n)
      BY <1>2, <3>2, ScriptStep
    <3>3. ASSUME NEW out \in BOOLEAN,
                 \/ Started(n) \/ CloudAsked(n) \/ CloudHeaders(n) \/ CloudRefused(n) \/ CloudPrints(n)
                 \/ BuiltinEnds(n, out) \/ CloudEnds(n, out)
          PROVE  TermInv'
      BY <1>2, <3>3, OtherStep
    <3> QED BY <3>1, <3>2, <3>3, Zenon
  <2>4. CASE Heard
    BY <1>2, <2>4, HeardStep
  <2>5. CASE Replaced
    <3>1. runs' = <<>> /\ posted' = <<>> /\ scripts' = <<>>
      BY <2>5 DEF Replaced
    <3>2. /\ runs' \in Seq(RunRecords) /\ scripts' \in Seq(Seq({"out", "done"})) /\ posted' \in Seq(Messages)
          /\ Len(runs') = 0 /\ Len(scripts') = 0 /\ Len(posted') = 0
      BY <3>1, EmptySeq
    <3>3. DOMAIN runs' = {} /\ DOMAIN posted' = {}
      BY <3>2, LenProperties
    <3> QED BY <3>2, <3>3 DEF TermInv, TermType, Owed, ScriptsOwn, InOrder, Elems, Runs
  <2>6. CASE UNCHANGED vars
    <3>1. UNCHANGED <<runs, posted, scripts>>
      BY <2>6 DEF vars, termVars, shellVars
    <3> QED BY <2>1, <3>1
  <2>7. CASE UserKey /\ ~(\E what \in {"builtin", "script", "cloud"} : EnterLine(what))
    <3>1. UNCHANGED <<runs, posted, scripts>>
      BY <2>7 DEF UserKey, TypeKey, EditKey, HistoryUp, HistoryDown, CtrlC, TabKey, EnterNothing, shellVars
    <3> QED BY <2>1, <3>1
  <2>8. CASE Completed \/ Connected \/ (PanelNext /\ UNCHANGED termVars)
    <3>1. UNCHANGED <<runs, posted, scripts>>
      BY <2>8 DEF Completed, Connected, termVars, shellVars
    <3> QED BY <2>1, <3>1
  <2> QED BY <1>2, <2>2, <2>3, <2>4, <2>5, <2>6, <2>7, <2>8 DEF TermNext
<1>3. ASSUME TermInv, UNCHANGED <<panelVars, termVars>> PROVE TermInv'
  BY <1>3, ShellStays DEF termVars, shellVars
<1>4. TermInv /\ [Next]_<<vars, aiVars>> => TermInv'
  BY <1>2, <1>3, NextSplits
<1> QED BY <1>1, <1>4, PTL DEF Spec, Init

\* Nothing a command prints appears after its prompt, for any number of runs, of
\* any kind and length, however each ends.
THEOREM OutputAlwaysWithin == Spec => []OutputWithin
<1>1. TermInv => OutputWithin
  BY DEF TermInv, Owed, ScriptsOwn, OutputWithin, Elems
<1> QED BY <1>1, TermInvariance, PTL
----------------------------------------------------------------------------
(* The AI panel *)

Replies == [at : {"reading", "asked", "over"}, aborted : BOOLEAN, alone : BOOLEAN]

\* A reply that no other overlapped is the only one on its way.
OnlyOne == \A n \in Under("asked") : replies[n].alone => Under("asked") = {n}

ChatInv == replies \in Seq(Replies) /\ OnlyOne /\ StopReaches

LEMMA ChatStays ==
  ChatInv /\ UNCHANGED chatVars => ChatInv'
  BY DEF ChatInv, chatVars, OnlyOne, StopReaches, Under

LEMMA SendRead == ASSUME ChatInv, HandleSend PROVE ChatInv'
<1> DEFINE r == [at |-> "reading", aborted |-> FALSE, alone |-> TRUE]
<1>1. r \in Replies /\ replies \in Seq(Replies) /\ replies' = Append(replies, r)
  BY DEF Replies, HandleSend, ChatInv
<1>2. /\ replies' \in Seq(Replies) /\ Len(replies') = Len(replies) + 1
      /\ \A i \in 1 .. Len(replies) : replies'[i] = replies[i]
      /\ replies'[Len(replies) + 1] = r
  BY <1>1, AppendProperties
<1>3. DOMAIN replies = 1 .. Len(replies) /\ DOMAIN replies' = 1 .. Len(replies) + 1 /\ Len(replies) \in Nat
  BY <1>1, <1>2, LenProperties
<1>4. Under("asked")' = Under("asked") /\ \A n \in Under("asked") : replies'[n] = replies[n]
  BY <1>2, <1>3 DEF Under
<1> QED BY <1>2, <1>4 DEF HandleSend, ChatInv, OnlyOne, StopReaches

LEMMA SendAsks == ASSUME ChatInv, NEW n, SendMessage(n) PROVE ChatInv'
<1>1. /\ replies \in [1 .. Len(replies) -> Replies] /\ DOMAIN replies = 1 .. Len(replies)
      /\ Len(replies) \in Nat /\ n \in DOMAIN replies /\ replies[n].at = "reading"
  BY LenProperties DEF ChatInv, SendMessage, Under
<1>2. CASE active \notin providers
  <2>1. replies' = [replies EXCEPT ![n].at = "over"] /\ UNCHANGED <<chat, streaming, controller>>
    BY <1>2 DEF SendMessage
  <2>2. replies' \in Seq(Replies)
    <3>1. [replies[n] EXCEPT !.at = "over"] \in Replies
      BY <1>1 DEF Replies
    <3> QED BY <1>1, <2>1, <3>1, ExceptSeq DEF ChatInv
  <2>3. Under("asked")' = Under("asked") /\ \A m \in Under("asked") : replies'[m] = replies[m]
    BY <1>1, <2>1 DEF Under
  <2> QED BY <2>1, <2>2, <2>3 DEF ChatInv, OnlyOne, StopReaches
<1>3. CASE active \in providers
  <2>1. /\ replies' = [m \in DOMAIN replies |->
                           IF m = n THEN [replies[n] EXCEPT !.at = "asked", !.alone = Under("asked") = {}]
                           ELSE IF m \in Under("asked") THEN [replies[m] EXCEPT !.alone = FALSE]
                           ELSE replies[m]]
        /\ chat' = chat \cup {n} /\ streaming' = TRUE /\ controller' = n
    BY <1>3 DEF SendMessage
  <2>2. replies' \in [1 .. Len(replies) -> Replies]
    BY <1>1, <2>1 DEF Replies
  <2>3. replies' \in Seq(Replies)
    BY <1>1, <2>2
  <2>4. Under("asked")' = Under("asked") \cup {n}
    BY <1>1, <2>1 DEF Under, Replies
  <2>5. /\ replies'[n].alone => Under("asked") = {}
        /\ \A m \in Under("asked") : ~replies'[m].alone
    BY <1>1, <2>1 DEF Under, Replies
  <2> QED BY <2>1, <2>3, <2>4, <2>5 DEF ChatInv, OnlyOne, StopReaches
<1> QED BY <1>2, <1>3

LEMMA ReplyEnds == ASSUME ChatInv, NEW n, StreamEnds(n) PROVE ChatInv'
<1>1. /\ replies \in [1 .. Len(replies) -> Replies] /\ DOMAIN replies = 1 .. Len(replies)
      /\ n \in Under("asked") /\ n \in 1 .. Len(replies)
      /\ replies' = [replies EXCEPT ![n].at = "over"] /\ chat' = chat
  BY LenProperties DEF ChatInv, StreamEnds, Under
<1>2. replies' \in Seq(Replies)
  <2>1. [replies[n] EXCEPT !.at = "over"] \in Replies
    BY <1>1 DEF Replies
  <2> QED BY <1>1, <2>1, ExceptSeq DEF ChatInv
<1>3. Under("asked")' = Under("asked") \ {n} /\ \A m \in Under("asked") \ {n} : replies'[m] = replies[m]
  BY <1>1 DEF Under, Replies
<1>4. \A m \in Under("asked") \ {n} : ~replies[m].alone
  BY <1>1 DEF ChatInv, OnlyOne
<1> QED BY <1>2, <1>3, <1>4 DEF ChatInv, OnlyOne, StopReaches

LEMMA StopKeeps == ASSUME ChatInv, StopStreaming \/ ClearChat PROVE ChatInv'
<1>1. /\ replies \in [1 .. Len(replies) -> Replies] /\ DOMAIN replies = 1 .. Len(replies)
      /\ Len(replies) \in Nat
  BY LenProperties DEF ChatInv
<1>2. UNCHANGED <<streaming, controller>> /\ Abort /\ (chat' = chat \/ chat' = {})
  BY DEF StopStreaming, ClearChat
<1>3. \A m \in DOMAIN replies : [replies[m] EXCEPT !.aborted = TRUE] \in Replies
  BY <1>1 DEF Replies
<1>4. replies' \in Seq(Replies)
  <2>1. CASE controller \in DOMAIN replies
    <3>1. replies' = [replies EXCEPT ![controller] = [replies[controller] EXCEPT !.aborted = TRUE]]
      BY <1>1, <1>2, <2>1 DEF Abort
    <3> QED BY <1>1, <1>3, <2>1, <3>1, ExceptSeq DEF ChatInv
  <2>2. CASE controller \notin DOMAIN replies
    BY <1>1, <1>2, <2>2 DEF Abort, ChatInv
  <2> QED BY <2>1, <2>2
<1>5. /\ DOMAIN replies' = DOMAIN replies
      /\ \A m \in DOMAIN replies : /\ replies'[m].at = replies[m].at /\ replies'[m].alone = replies[m].alone
                                   /\ replies[m].aborted => replies'[m].aborted
                                   /\ m = controller => replies'[m].aborted
  BY <1>1, <1>2 DEF Abort, Replies
<1>6. Under("asked")' = Under("asked") /\ Under("asked") \subseteq DOMAIN replies
  BY <1>5 DEF Under
<1> QED BY <1>2, <1>4, <1>5, <1>6 DEF ChatInv, OnlyOne, StopReaches
\* Steps that leave the chat alone, and those that leave the settings alone.
LEMMA ChatStep ==
  ASSUME ChatInv, [Next]_<<vars, aiVars>>
  PROVE  ChatInv'
<1>1. CASE UNCHANGED chatVars
  BY <1>1, ChatStays
<1>2. CASE HandleSend \/ StopStreaming \/ ClearChat \/ \E n \in DOMAIN replies : SendMessage(n) \/ StreamEnds(n)
  BY <1>2, SendRead, SendAsks, ReplyEnds, StopKeeps
<1>3. CASE UNCHANGED aiVars
  BY <1>1, <1>3 DEF aiVars
<1>4. CASE \/ ToggleAiPanel \/ SaveProvider \/ \E id \in providers : RemoveProvider(id) \/ SetActiveProvider(id)
  BY <1>1, <1>4 DEF ToggleAiPanel, SaveProvider, RemoveProvider, SetActiveProvider, Settings
<1>5. CASE Loaded \/ Stored \/ SettingsFail \/ \E e \in edits : Edited(e) \/ Listed(e)
  BY <1>1, <1>5 DEF Loaded, Stored, SettingsFail, Edited, Listed
<1> QED BY <1>2, <1>3, <1>4, <1>5 DEF Next, AiUser, AiStep, aiVars

\* Stop and Clear reach every reply that no other send overlapped, for any number
\* of sends.
THEOREM StopAlwaysReaches == Spec => []StopReaches
<1>1. AiInit => ChatInv
  <2> SUFFICES ASSUME AiInit PROVE ChatInv
    OBVIOUS
  <2>1. replies = <<>> /\ replies \in Seq(Replies) /\ Len(replies) = 0
    BY EmptySeq DEF AiInit
  <2>2. DOMAIN replies = {}
    BY <2>1, LenProperties
  <2> QED BY <2>1, <2>2 DEF ChatInv, OnlyOne, StopReaches, Under
<1>2. ChatInv /\ [Next]_<<vars, aiVars>> => ChatInv'
  BY ChatStep
<1>3. ChatInv => StopReaches
  BY DEF ChatInv
<1> QED BY <1>1, <1>2, <1>3, PTL DEF Spec, Init

----------------------------------------------------------------------------

Transactions == [op : {"get", "put", "clear"}, id : Int, list : SUBSET Int, old : BOOLEAN]

Edits == [op : {"save", "remove"}, id : Int, at : {"asked", "done"}]

SettingsTypes ==
  /\ moves \in Int /\ known \in SUBSET Int /\ providers \in SUBSET Int
  /\ chosen \in Int /\ active \in Int
  /\ edits \subseteq Edits
  /\ queue \in Seq(Transactions) /\ loads \in Seq(Transactions)

\* The transaction sets a list.
Sets(t) == t.op = "clear"

\* What is not marked as old is what the database keeps.
YoungIsTrue ==
  /\ \A t \in Elems(loads) : ~t.old => t.id = chosen /\ t.list = known
  /\ \A t \in Elems(queue) : Sets(t) /\ ~t.old => t.list = known

\* The list shown is the one kept, or a call that has changed that will set it.
ShownOrDue ==
  loaded /\ ~outdated =>
    /\ active = chosen
    /\ providers = known \/ (\E e \in edits : e.at = "done") \/ (\E t \in Elems(queue) : Sets(t))

SettingsInv == SettingsTypes /\ YoungIsTrue /\ ShownOrDue

LEMMA TransactionIs ==
  ASSUME NEW op \in {"get", "put", "clear"}, NEW id \in Int, NEW list \in SUBSET Int
  PROVE  /\ Transaction(op, id, list) \in Transactions
         /\ Transaction(op, id, list).op = op /\ Transaction(op, id, list).id = id
         /\ Transaction(op, id, list).list = list
  BY DEF Transaction, Transactions

LEMMA AppendsOne ==
  ASSUME NEW s \in Seq(Transactions), NEW t \in Transactions
  PROVE  Append(s, t) \in Seq(Transactions) /\ Elems(Append(s, t)) = Elems(s) \cup {t}
<1>1. /\ Append(s, t) \in Seq(Transactions) /\ Len(Append(s, t)) = Len(s) + 1
      /\ \A i \in 1 .. Len(s) : Append(s, t)[i] = s[i]
      /\ Append(s, t)[Len(s) + 1] = t
  BY AppendProperties
<1>2. DOMAIN s = 1 .. Len(s) /\ DOMAIN Append(s, t) = 1 .. Len(s) + 1 /\ Len(s) \in Nat
  BY <1>1, LenProperties
<1> QED BY <1>1, <1>2 DEF Elems

LEMMA TakesOne ==
  ASSUME NEW s \in Seq(Transactions), s # <<>>
  PROVE  /\ Tail(s) \in Seq(Transactions) /\ Head(s) \in Transactions
         /\ Elems(s) = {Head(s)} \cup Elems(Tail(s))
<1>1. /\ Tail(s) \in Seq(Transactions) /\ Len(Tail(s)) = Len(s) - 1 /\ Head(s) \in Transactions
      /\ \A i \in 1 .. Len(Tail(s)) : Tail(s)[i] = s[i + 1]
  BY HeadTailProperties
<1>2. DOMAIN s = 1 .. Len(s) /\ DOMAIN Tail(s) = 1 .. Len(s) - 1 /\ Len(s) \in Nat \ {0}
  BY <1>1, LenProperties, EmptySeq
<1>3. Head(s) = s[1]
  BY <1>2
<1>4. ASSUME NEW i \in 1 .. Len(s) PROVE s[i] \in {Head(s)} \cup Elems(Tail(s))
  <2>1. CASE i = 1
    BY <1>3, <2>1
  <2>2. CASE i # 1
    <3>1. i - 1 \in 1 .. Len(s) - 1 /\ (i - 1) + 1 = i
      BY <1>2, <2>2
    <3>2. Tail(s)[i - 1] = s[i]
      BY <1>1, <3>1
    <3> QED BY <1>2, <3>1, <3>2 DEF Elems
  <2> QED BY <2>1, <2>2
<1>5. Elems(Tail(s)) \subseteq Elems(s) /\ Head(s) \in Elems(s)
  BY <1>1, <1>2, <1>3 DEF Elems
<1> QED BY <1>1, <1>2, <1>4, <1>5 DEF Elems

LEMMA AgesAll ==
  ASSUME NEW s \in Seq(Transactions)
  PROVE  /\ Aged(s) \in Seq(Transactions)
         /\ \A t \in Elems(Aged(s)) : t.old
         /\ (\E t \in Elems(s) : Sets(t)) => \E t \in Elems(Aged(s)) : Sets(t)
<1>1. s \in [1 .. Len(s) -> Transactions] /\ DOMAIN s = 1 .. Len(s) /\ Len(s) \in Nat
  BY LenProperties
<1>2. /\ DOMAIN Aged(s) = 1 .. Len(s)
      /\ \A i \in 1 .. Len(s) : /\ Aged(s)[i] \in Transactions /\ Aged(s)[i].old
                                /\ Aged(s)[i].op = s[i].op /\ Aged(s)[i].list = s[i].list
  BY <1>1 DEF Aged, Transactions
<1>3. Aged(s) \in [1 .. Len(s) -> Transactions]
  BY <1>1, <1>2 DEF Aged
<1>4. Aged(s) \in Seq(Transactions)
  BY <1>1, <1>3
<1> QED BY <1>1, <1>2, <1>4 DEF Elems, Sets

LEMMA SettingsStay ==
  SettingsInv /\ UNCHANGED settingsVars /\ moves' \in Int => SettingsInv'
  BY DEF SettingsInv, settingsVars, SettingsTypes, YoungIsTrue, ShownOrDue, Sets, Elems

\* The user opens the panel, saves, removes or chooses.
LEMMA SettingsAsked ==
  ASSUME SettingsInv,
         ToggleAiPanel \/ SaveProvider \/ \E id \in providers : RemoveProvider(id) \/ SetActiveProvider(id)
  PROVE  SettingsInv'
<1>1. moves' \in Int /\ UNCHANGED <<known, chosen, providers, active, loaded, loads, outdated>>
  BY DEF SettingsInv, SettingsTypes, ToggleAiPanel, SaveProvider, RemoveProvider, SetActiveProvider, Settings, AiAct, Act
<1>2. CASE UNCHANGED queue /\ edits \subseteq edits' /\ edits' \subseteq Edits
  BY <1>1, <1>2 DEF SettingsInv, SettingsTypes, YoungIsTrue, ShownOrDue
<1>3. ASSUME NEW t \in Transactions, queue' = Append(queue, t), ~Sets(t), UNCHANGED edits
      PROVE  SettingsInv'
  <2>1. queue' \in Seq(Transactions) /\ Elems(queue') = Elems(queue) \cup {t}
    BY <1>3, AppendsOne DEF SettingsInv, SettingsTypes
  <2> QED BY <1>1, <1>3, <2>1 DEF SettingsInv, SettingsTypes, YoungIsTrue, ShownOrDue, Elems
<1>4. CASE ToggleAiPanel
  <2> DEFINE t == Transaction("get", 0, {})
  <2>1. t \in Transactions /\ ~Sets(t)
    BY TransactionIs DEF Sets
  <2>2. UNCHANGED edits /\ (queue' = Append(queue, t) \/ queue' = queue)
    BY <1>4 DEF ToggleAiPanel
  <2>3. edits \subseteq Edits
    BY DEF SettingsInv, SettingsTypes
  <2> QED BY <1>2, <1>3, <2>1, <2>2, <2>3
<1>5. CASE SaveProvider
  <2>1. [op |-> "save", id |-> moves', at |-> "asked"] \in Edits
    BY <1>1 DEF Edits
  <2> QED BY <1>2, <1>5, <2>1 DEF SaveProvider, SettingsInv, SettingsTypes
<1>6. ASSUME NEW id \in providers, RemoveProvider(id) PROVE SettingsInv'
  <2>1. [op |-> "remove", id |-> id, at |-> "asked"] \in Edits
    BY DEF Edits, SettingsInv, SettingsTypes
  <2> QED BY <1>2, <1>6, <2>1 DEF RemoveProvider, SettingsInv, SettingsTypes
<1>7. ASSUME NEW id \in providers, SetActiveProvider(id) PROVE SettingsInv'
  <2> DEFINE t == Transaction("put", id, {})
  <2>1. t \in Transactions /\ ~Sets(t)
    BY TransactionIs DEF Sets, SettingsInv, SettingsTypes
  <2>2. queue' = Append(queue, t) /\ UNCHANGED edits
    BY <1>7 DEF SetActiveProvider
  <2> QED BY <1>3, <2>1, <2>2
<1> QED BY <1>4, <1>5, <1>6, <1>7

LEMMA EditStep ==
  ASSUME SettingsInv, NEW e \in edits, Edited(e), moves' = moves
  PROVE  SettingsInv'
<1>1. /\ queue' = Aged(queue) /\ loads' = Aged(loads)
      /\ UNCHANGED <<moves, chosen, providers, active, loaded, outdated>>
      /\ edits' = (edits \ {e}) \cup {[e EXCEPT !.at = "done"]}
      /\ known' = IF e.op = "save" THEN known \cup {e.id} ELSE known \ {e.id}
  BY DEF Edited
<1>2. e \in Edits /\ [e EXCEPT !.at = "done"] \in Edits /\ [e EXCEPT !.at = "done"].at = "done"
  BY DEF SettingsInv, SettingsTypes, Edits
<1>3. known' \in SUBSET Int /\ edits' \subseteq Edits
  BY <1>1, <1>2 DEF SettingsInv, SettingsTypes, Edits
<1>4. /\ queue' \in Seq(Transactions) /\ loads' \in Seq(Transactions)
      /\ \A t \in Elems(queue') : t.old
      /\ \A t \in Elems(loads') : t.old
  BY <1>1, AgesAll DEF SettingsInv, SettingsTypes
<1> QED BY <1>1, <1>2, <1>3, <1>4 DEF SettingsInv, SettingsTypes, YoungIsTrue, ShownOrDue, Elems

LEMMA ListStep ==
  ASSUME SettingsInv, NEW e \in edits, Listed(e), moves' = moves
  PROVE  SettingsInv'
<1>1. e \in Edits /\ edits' = edits \ {e} /\ UNCHANGED <<moves, known, chosen, active, loaded, loads, outdated>>
  BY DEF Listed, SettingsInv, SettingsTypes
<1>2. Transaction("clear", 0, known) \in Transactions /\ Sets(Transaction("clear", 0, known)) /\ Transaction("clear", 0, known).list = known
      /\ Transaction("put", e.id, {}) \in Transactions /\ ~Sets(Transaction("put", e.id, {}))
  <2>1. known \in SUBSET Int /\ e.id \in Int
    BY <1>1 DEF SettingsInv, SettingsTypes, Edits
  <2> QED BY <2>1, TransactionIs DEF Sets
<1>3. CASE UNCHANGED queue /\ providers' = known
  BY <1>1, <1>3 DEF SettingsInv, SettingsTypes, YoungIsTrue, ShownOrDue
<1>4. CASE queue' = Append(queue, Transaction("clear", 0, known)) /\ UNCHANGED providers
  <2>1. queue' \in Seq(Transactions) /\ Elems(queue') = Elems(queue) \cup {Transaction("clear", 0, known)}
    BY <1>2, <1>4, AppendsOne DEF SettingsInv, SettingsTypes
  <2> QED BY <1>1, <1>2, <1>4, <2>1 DEF SettingsInv, SettingsTypes, YoungIsTrue, ShownOrDue, Elems
<1>5. CASE queue' = Append(queue, Transaction("put", e.id, {})) /\ providers' = known
  <2>1. queue' \in Seq(Transactions) /\ Elems(queue') = Elems(queue) \cup {Transaction("put", e.id, {})}
    BY <1>2, <1>5, AppendsOne DEF SettingsInv, SettingsTypes
  <2> QED BY <1>1, <1>2, <1>5, <2>1 DEF SettingsInv, SettingsTypes, YoungIsTrue, ShownOrDue, Elems
<1> QED BY <1>3, <1>4, <1>5 DEF Listed

LEMMA LoadStep ==
  ASSUME SettingsInv, Loaded, moves' = moves
  PROVE  SettingsInv'
<1>1. /\ UNCHANGED <<moves, known, chosen, edits, queue>> /\ loads' = Tail(loads) /\ outdated' = Head(loads).old
      /\ providers' = Head(loads).list /\ active' = Head(loads).id
  BY DEF Loaded
<1>2. /\ Tail(loads) \in Seq(Transactions) /\ Head(loads) \in Transactions
      /\ Elems(loads) = {Head(loads)} \cup Elems(Tail(loads))
  BY TakesOne DEF Loaded, SettingsInv, SettingsTypes
<1> QED BY <1>1, <1>2 DEF SettingsInv, SettingsTypes, YoungIsTrue, ShownOrDue, Transactions, Elems

LEMMA StoreStep ==
  ASSUME SettingsInv, Stored, moves' = moves
  PROVE  SettingsInv'
<1> DEFINE t == Head(queue)
<1>1. /\ Tail(queue) \in Seq(Transactions) /\ t \in Transactions
      /\ Elems(queue) = {t} \cup Elems(Tail(queue))
  BY TakesOne DEF Stored, SettingsInv, SettingsTypes
<1>2. queue' = Tail(queue) /\ UNCHANGED <<moves, known, loaded, edits>>
  BY DEF Stored
<1>3. CASE t.op = "get"
  <2> DEFINE r == Transaction("get", chosen, known)
  <2>1. loads' = Append(loads, r) /\ UNCHANGED <<chosen, active, providers, outdated>>
    BY <1>3 DEF Stored
  <2>2. r \in Transactions /\ r.id = chosen /\ r.list = known
    BY TransactionIs DEF SettingsInv, SettingsTypes
  <2>3. loads' \in Seq(Transactions) /\ Elems(loads') = Elems(loads) \cup {r}
    BY <2>1, <2>2, AppendsOne DEF SettingsInv, SettingsTypes
  <2>4. ~Sets(t)
    BY <1>3 DEF Sets
  <2> HIDE DEF t, r
  <2> QED BY <1>1, <1>2, <2>1, <2>2, <2>3, <2>4 DEF SettingsInv, SettingsTypes, YoungIsTrue, ShownOrDue, Elems
<1>4. CASE t.op # "get"
  <2>1. /\ chosen' = t.id /\ active' = t.id /\ loads' = Aged(loads)
        /\ providers' = IF t.op = "clear" THEN t.list ELSE providers
        /\ outdated' = (outdated \/ (t.old /\ t.op = "clear"))
    BY <1>4 DEF Stored
  <2>2. loads' \in Seq(Transactions) /\ \A r \in Elems(loads') : r.old
    BY <2>1, AgesAll DEF SettingsInv, SettingsTypes
  <2>3. t.id \in Int /\ t.list \in SUBSET Int /\ t.old \in BOOLEAN
    BY <1>1 DEF Transactions
  <2>4. Sets(t) <=> t.op = "clear"
    BY DEF Sets
  <2>5. SettingsTypes'
    <3>1. providers' \in SUBSET Int
      BY <2>1, <2>3 DEF SettingsInv, SettingsTypes
    <3>2. queue' \in Seq(Transactions)
      BY <1>1, <1>2
    <3> HIDE DEF t
    <3> QED BY <1>2, <2>1, <2>2, <2>3, <3>1, <3>2 DEF SettingsInv, SettingsTypes
  <2>6. YoungIsTrue'
    BY <1>1, <1>2, <2>2 DEF SettingsInv, YoungIsTrue, Elems
  <2>7. ShownOrDue'
    <3> SUFFICES ASSUME loaded, ~outdated, ~(t.old /\ t.op = "clear")
                 PROVE  providers' = known \/ (\E e \in edits : e.at = "done") \/ (\E r \in Elems(Tail(queue)) : Sets(r))
      BY <1>2, <2>1 DEF ShownOrDue, Elems
    <3>1. CASE t.op # "clear"
      BY <1>1, <2>1, <2>4, <3>1 DEF SettingsInv, ShownOrDue
    <3>2. CASE t.op = "clear"
      BY <1>1, <2>1, <2>4, <3>2 DEF SettingsInv, YoungIsTrue
    <3> QED BY <3>1, <3>2
  <2> QED BY <2>5, <2>6, <2>7 DEF SettingsInv
<1> QED BY <1>3, <1>4

LEMMA FailStep ==
  ASSUME SettingsInv, SettingsFail, moves' = moves
  PROVE  SettingsInv'
<1>1. outdated' = TRUE /\ UNCHANGED <<moves, known, chosen, providers, active, loaded, loads>> /\ edits' \subseteq edits
  BY DEF SettingsFail
<1>2. queue' \in Seq(Transactions) /\ Elems(queue') \subseteq Elems(queue)
  BY TakesOne DEF SettingsFail, SettingsInv, SettingsTypes
<1> QED BY <1>1, <1>2 DEF SettingsInv, SettingsTypes, YoungIsTrue, ShownOrDue, Elems

LEMMA MovesCount == ASSUME moves \in Int, [Next]_<<vars, aiVars>> PROVE moves' \in Int
<1>1. Act \/ moves' = moves => moves' \in Int
  BY DEF Act
<1>2. UserKey => Act
  BY DEF UserKey, TypeKey, EditKey, HistoryUp, HistoryDown, CtrlC, TabKey, EnterNothing, EnterLine, Key
<1>3. PanelNext => Act \/ moves' = moves
  BY DEF PanelNext, Close, ToggleTerminalFocus, TogglePanelCollapsed, ToggleMaximizePanel, SetTab, SaveLayout,
         HydrateLayout, DragStart, DragCommit, DragMove
<1>4. ShellStep => moves' = moves
  BY DEF ShellStep, Started, ScriptPrints, ScriptEnds, ScriptHeard, ScriptTimeout, CloudAsked, CloudHeaders,
         CloudRefused, CloudPrints, CloudEnds, BuiltinEnds, Ended, Quiet
<1>5. Completed \/ Connected \/ Replaced \/ Heard => Act \/ moves' = moves
  BY DEF Completed, Connected, Replaced, Heard
<1>6. AiUser => Act
  BY DEF AiUser, ToggleAiPanel, SaveProvider, RemoveProvider, SetActiveProvider, Settings, HandleSend,
         StopStreaming, ClearChat, Chatting, AiAct
<1>7. UNCHANGED vars => moves' = moves
  BY DEF vars
<1> QED BY <1>1, <1>2, <1>3, <1>4, <1>5, <1>6, <1>7 DEF Next, TermNext

LEMMA SettingsStep ==
  ASSUME SettingsInv, [Next]_<<vars, aiVars>>
  PROVE  SettingsInv'
<1>1. CASE UNCHANGED settingsVars
  BY <1>1, SettingsStay, MovesCount DEF SettingsInv, SettingsTypes
<1>2. CASE UNCHANGED aiVars
  BY <1>1, <1>2 DEF aiVars
<1>3. CASE AiUser
  <2>1. CASE HandleSend \/ StopStreaming \/ ClearChat
    BY <1>1, <2>1 DEF HandleSend, StopStreaming, ClearChat, Chatting
  <2> QED BY <1>3, <2>1, SettingsAsked DEF AiUser
<1>4. CASE AiStep /\ UNCHANGED moves
  <2>1. CASE \E n \in DOMAIN replies : SendMessage(n) \/ StreamEnds(n)
    BY <1>1, <2>1 DEF SendMessage, StreamEnds
  <2> QED BY <1>4, <2>1, EditStep, ListStep, LoadStep, StoreStep, FailStep DEF AiStep
<1> QED BY <1>2, <1>3, <1>4 DEF Next, aiVars

\* The panel shows what the database keeps once every call has ended, for any
\* number of providers, calls and openings.
THEOREM StoreAlwaysShown == Spec => []StoreShown
<1>1. TermInit /\ AiInit => SettingsInv
  <2> SUFFICES ASSUME TermInit, AiInit PROVE SettingsInv
    OBVIOUS
  <2>1. /\ queue = <<>> /\ loads = <<>>
        /\ <<>> \in Seq(Transactions) /\ Len(<<>>) = 0
    BY EmptySeq DEF AiInit
  <2>2. DOMAIN queue = {} /\ DOMAIN loads = {}
    BY <2>1, LenProperties
  <2>3. moves = 0
    BY DEF TermInit, PanelInit
  <2> QED BY <2>1, <2>2, <2>3 DEF AiInit, SettingsInv, SettingsTypes, YoungIsTrue, ShownOrDue, Elems
<1>2. SettingsInv /\ [Next]_<<vars, aiVars>> => SettingsInv'
  BY SettingsStep
<1>3. SettingsInv => StoreShown
  <2> SUFFICES ASSUME SettingsInv, loaded, edits = {}, queue = <<>>, ~outdated
               PROVE  active = chosen /\ providers = known
    BY DEF StoreShown
  <2>1. <<>> \in Seq(Transactions) /\ Len(<<>>) = 0
    BY EmptySeq
  <2>2. DOMAIN queue = {}
    BY <2>1, LenProperties
  <2> QED BY <2>2 DEF SettingsInv, ShownOrDue, Elems
<1> QED BY <1>1, <1>2, <1>3, PTL DEF Spec, Init
=============================================================================
