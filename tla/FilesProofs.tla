------------------------------ MODULE FilesProofs ------------------------------
(***************************************************************************)
(* The files of a workspace, from the store up to the editor.              *)
(*                                                                         *)
(* Workspaces, sessions and the editor: for any number of workspaces,      *)
(* paths, tabs and saves, and whatever is read back from the store.  Where *)
(* the mark of unsaved text is, when its tab is not on the screen, is the  *)
(* heart of its second part: stored with the workspace it belongs to, or   *)
(* in the session that is being read (MarkKept).                           *)
(*                                                                         *)
(* The IndexedDB filesystem: for any number of overlapping calls and any   *)
(* finite sets of names, with reloads and failed transactions in between.  *)
(* Its invariant is built in three layers.  What a call still has to do is *)
(* a plan inside the part of the tree it was called for (Plans); what it   *)
(* has made sure of stays true while no other call works on that part      *)
(* (StillTrue), so the entries stay a tree; and every file of a copy is    *)
(* copied already, carried by the call, or under something still on its    *)
(* plan (CopyOf).                                                          *)
(***************************************************************************)
EXTENDS EditorArea, IndexedDbFs, SequenceTheorems, FiniteSetTheorems, TLAPS

\* What the proofs need of the types: ids are ids.
Ids ==
  /\ stored \in Seq(Workspace)
  /\ metadata \in Workspace \cup {None}
  /\ DOMAIN sessions = Workspace
  /\ opening.pc # "none" => opening.id \in Workspace
  /\ creating \in Workspace \cup {None}

\* While the session of the workspace that was set ready is read, that workspace
\* is the one shown, unless a project was created meanwhile.
ReadsOwn == ShellShown /\ ReadingSession /\ ~crossed => metadata = opening.id

WsInv == Ids /\ ReadsOwn /\ TabsStayHome /\ SessionSaved

\* A list without an element.
LEMMA WithoutType ==
  ASSUME NEW S, NEW s \in Seq(S), NEW e
  PROVE  Without(s, e) \in Seq(S)
<1>1. CASE e \in Elements(s)
  <2> DEFINE i == CHOOSE j \in DOMAIN s : s[j] = e
  <2>1. i \in DOMAIN s
    BY <1>1 DEF Elements
  <2>2. i \in 1 .. Len(s) /\ Len(s) \in Nat /\ \A j \in 1 .. Len(s) : s[j] \in S
    BY <2>1, LenProperties, ElementOfSeq
  <2> HIDE DEF i
  <2>3. /\ \A j \in 1 .. i - 1 : s[j] \in S
        /\ \A j \in i + 1 .. Len(s) : s[j] \in S
        /\ i - 1 \in Int /\ i + 1 \in Int /\ Len(s) \in Int
    BY <2>2
  <2>4. SubSeq(s, 1, i - 1) \in Seq(S) /\ SubSeq(s, i + 1, Len(s)) \in Seq(S)
    BY <2>3, SubSeqProperties
  <2> QED BY <1>1, <2>4, ConcatProperties DEF Without, RemoveAt, i
<1>2. CASE e \notin Elements(s)
  BY <1>2 DEF Without
<1> QED BY <1>1, <1>2

\* A first page has no session and no tab.
LEMMA WsStarts == WsInit => WsInv
  BY WorkspacesAssumption
  DEF WorkspacesAssumption, WsInit, NoCall, Call, ReadingSession, WsInv, Ids, ReadsOwn, TabsStayHome, SessionSaved, ShellShown

\* Saving the session of this moment.
LEMMA SaveSessionKeeps ==
  ASSUME WsInv, SaveSession
  PROVE  /\ DOMAIN sessions' = Workspace
         /\ ShellShown => sessions'[metadata] = Snapshot
         /\ \A w \in Workspace : sessions'[w] # None /\ sessions'[w].of # w => w \in mixed'
<1>1. CASE ShellShown
  <2>1. metadata \in Workspace /\ sessions' = [sessions EXCEPT ![metadata] = Snapshot]
    BY <1>1 DEF SaveSession, WsInv, Ids, ShellShown
  <2>2. DOMAIN sessions' = Workspace /\ sessions'[metadata] = Snapshot
        /\ \A w \in Workspace : w # metadata => sessions'[w] = sessions[w]
    BY <2>1 DEF WsInv, Ids
  <2>3. \A w \in Workspace : w # metadata => (w \in mixed' <=> w \in mixed)
    BY <1>1 DEF SaveSession
  <2>4. CASE crossed \/ ReadingSession
    BY <1>1, <2>2, <2>3, <2>4 DEF SaveSession, WsInv, TabsStayHome
  <2>5. CASE ~(crossed \/ ReadingSession)
    <3>1. Snapshot.of = metadata
      BY <1>1, <2>5 DEF WsInv, TabsStayHome, Snapshot
    <3> QED BY <2>2, <2>3, <3>1 DEF WsInv, TabsStayHome
  <2> QED BY <2>4, <2>5
<1>2. CASE ~ShellShown
  BY <1>2 DEF SaveSession, WsInv, Ids, TabsStayHome
<1> QED BY <1>1, <1>2

\* What changes the tabs only: a save is due.
LEMMA TabsKeep ==
  ASSUME WsInv, timer' = "due",
         UNCHANGED <<stored, sessions, phase, metadata, opening, creating, tabsOf, crossed, mixed>>
  PROVE  WsInv'
  BY DEF WsInv, Ids, ReadsOwn, TabsStayHome, SessionSaved, ShellShown, ReadingSession

\* openWorkspace, at each of its awaits.
LEMMA OpeningKeeps ==
  ASSUME WsInv,
         \/ \E w \in Workspace : Open(w)
         \/ Restore \/ OpenListed \/ OpenReady \/ OpenHydrate \/ OpenFails
  PROVE  WsInv'
<1> USE WorkspacesAssumption
    DEF WorkspacesAssumption, WsInv, Ids, ReadsOwn, TabsStayHome, SessionSaved, ShellShown, ReadingSession
<1>1. ASSUME NEW w \in Workspace, Open(w) PROVE WsInv'
  <2>1. /\ phase' = "loading" /\ opening'.id = w
        /\ UNCHANGED <<stored, sessions, metadata, creating, mixed>>
    BY <1>1 DEF Open, StartOpening, Call, dbVars
  <2> QED BY <2>1
<1>2. CASE Restore
  <2>1. stored # <<>> => Head(stored) \in Workspace
    BY HeadTailProperties
  <2>2. UNCHANGED <<stored, sessions, metadata, creating, mixed, timer, tabs, activePath, tabsOf>>
    BY <1>2 DEF Restore, dbVars, tabVars
  <2>3. CASE stored # <<>>
    <3>1. phase' = "loading" /\ opening'.id \in Workspace
      BY <1>2, <2>1, <2>3 DEF Restore, StartOpening, Call
    <3> QED BY <2>2, <3>1
  <2>4. CASE stored = <<>>
    BY <1>2, <2>2, <2>4 DEF Restore, Snapshot
  <2> QED BY <2>3, <2>4
<1>3. CASE OpenListed
  <2>1. /\ opening'.id = opening.id /\ opening'.pc = "fs" /\ opening.pc = "list"
        /\ UNCHANGED <<stored, sessions, phase, metadata, creating, crossed, mixed, timer, tabs, activePath, tabsOf>>
    BY <1>3 DEF OpenListed, Call, dbVars, tabVars
  <2> QED BY <2>1 DEF Snapshot
<1>4. CASE OpenReady
  <2>1. stored' \in Seq(Workspace)
    <3>1. opening.id \in Workspace /\ stored' = <<opening.id>> \o Without(stored, opening.id)
      BY <1>4 DEF OpenReady
    <3>2. <<opening.id>> \in Seq(Workspace) /\ Without(stored, opening.id) \in Seq(Workspace)
      BY <3>1, WithoutType
    <3> QED BY <3>1, <3>2, ConcatProperties
  <2> QED BY <1>4, <2>1 DEF OpenReady, Call, tabVars
<1>5. CASE OpenHydrate
  BY <1>5 DEF OpenHydrate, Hydrate, NoCall, Call, dbVars
<1>6. CASE OpenFails
  BY <1>6 DEF OpenFails, NoCall, Call, dbVars, tabVars
<1> QED BY <1>1, <1>2, <1>3, <1>4, <1>5, <1>6

\* Creating, deleting and leaving a workspace.
LEMMA ProjectsKeep ==
  ASSUME WsInv,
         \/ \E w \in Workspace : Create(w) \/ Delete(w)
         \/ Created \/ CreateFails \/ GoHome
  PROVE  WsInv'
<1> USE WorkspacesAssumption
    DEF WorkspacesAssumption, WsInv, Ids, ReadsOwn, TabsStayHome, SessionSaved, ShellShown, ReadingSession
<1>1. ASSUME NEW w \in Workspace, Create(w) PROVE WsInv'
  BY <1>1 DEF Create, Welcome, tabVars
<1>2. ASSUME NEW w \in Workspace, Delete(w) PROVE WsInv'
  <2>1. stored' \in Seq(Workspace)
    BY <1>2, WithoutType DEF Delete
  <2> QED BY <1>2, <2>1 DEF Delete, Welcome, tabVars, callVars
<1>3. CASE Created
  <2>1. stored' \in Seq(Workspace)
    <3>1. creating \in Workspace /\ stored' = <<creating>> \o stored
      BY <1>3 DEF Created
    <3>2. <<creating>> \in Seq(Workspace)
      BY <3>1
    <3> QED BY <3>1, <3>2, ConcatProperties
  <2> QED BY <1>3, <2>1 DEF Created, Hydrate
<1>4. CASE CreateFails
  BY <1>4 DEF CreateFails, dbVars, tabVars, Snapshot
<1>5. CASE GoHome
  BY <1>5 DEF GoHome, dbVars, tabVars, callVars
<1> QED BY <1>1, <1>2, <1>3, <1>4, <1>5

\* The autosave's timer, and a reload at any moment.
LEMMA SavingKeeps ==
  ASSUME WsInv, Flush \/ Reload
  PROVE  WsInv'
<1>1. CASE Flush
  <2>1. /\ SaveSession \/ (timer' = "lost" /\ UNCHANGED <<sessions, mixed>>)
        /\ UNCHANGED <<stored, phase, metadata, tabs, activePath, opening, creating, tabsOf, crossed>>
    BY <1>1 DEF Flush, tabVars, callVars
  <2>2. CASE SaveSession
    BY <2>1, <2>2, SaveSessionKeeps
    DEF WsInv, Ids, ReadsOwn, TabsStayHome, SessionSaved, ShellShown, ReadingSession, Snapshot
  <2>3. CASE timer' = "lost" /\ UNCHANGED <<sessions, mixed>>
    BY <2>1, <2>3 DEF WsInv, Ids, ReadsOwn, TabsStayHome, SessionSaved, ShellShown, ReadingSession
  <2> QED BY <2>1, <2>2, <2>3
<1>2. CASE Reload
  <2>1. SaveSession \/ UNCHANGED <<sessions, mixed>>
    BY <1>2 DEF Reload
  <2>2. /\ DOMAIN sessions' = Workspace
        /\ \A w \in Workspace : sessions'[w] # None /\ sessions'[w].of # w => w \in mixed'
    BY <2>1, SaveSessionKeeps DEF WsInv, Ids, TabsStayHome
  <2> QED BY <1>2, <2>2, WorkspacesAssumption
          DEF Reload, NoCall, Call, ReadingSession, WsInv, Ids, ReadsOwn, TabsStayHome, SessionSaved, ShellShown
<1> QED BY <1>1, <1>2

\* What opens, closes or stores workspaces keeps the invariant.
LEMMA WorkspaceStepKeeps == WsInv /\ WorkspaceStep => WsInv'
  BY OpeningKeeps, ProjectsKeep, SavingKeeps DEF WorkspaceStep

\* Opening, closing, picking and pinning a tab.
LEMMA TabStepKeeps ==
  ASSUME WsInv, NEW p, NEW preview,
         OpenFile(p, preview) \/ CloseTab(p) \/ SetActive(p) \/ PinTab(p) \/ CloseAll
  PROVE  WsInv'
<1>1. StoreChange
  BY DEF OpenFile, CloseTab, SetActive, PinTab, CloseAll
<1> QED BY <1>1, TabsKeep DEF StoreChange, dbVars, callVars

\* A dirty mark changes the tabs only.
LEMMA SetDirtyKeeps ==
  ASSUME WsInv, NEW p, NEW dirty, NEW pin, SetDirty(p, dirty, pin)
  PROVE  WsInv'
  BY TabsKeep DEF SetDirty, dbVars, callVars

\* A step of the editor's own leaves the stores alone.
LEMMA WsStays ==
  ASSUME WsInv, UNCHANGED wsVars
  PROVE  WsInv'
  BY DEF wsVars, dbVars, tabVars, callVars, WsInv, Ids, ReadsOwn, TabsStayHome, SessionSaved,
         ShellShown, ReadingSession, Snapshot

----------------------------------------------------------------------------
(* Whose text a file holds *)

\* A pane's model and what is being saved are of the pane's workspace, but for
\* the paths the history names.
PaneOwn ==
  pane # None =>
    /\ pane.ws \in Workspace
    /\ pane.st = "text" /\ pane.path \in Path /\ models[pane.path].of # pane.ws => pane.path \in shared

SavingOwn == \A s \in saving : s.path \in Path /\ s.text.of # s.ws => s.path \in shared

Shapes ==
  /\ DOMAIN models = Path /\ DOMAIN seen = Path
  /\ DOMAIN disk = Workspace /\ \A w \in Workspace : DOMAIN disk[w] = Path

EdInv == Shapes /\ PaneOwn /\ SavingOwn /\ OwnText

\* One file is written.
LEMMA WriteFile ==
  ASSUME Shapes, NEW ws, NEW p, NEW text, disk' = [disk EXCEPT ![ws][p] = text]
  PROVE  /\ DOMAIN disk' = Workspace /\ \A w \in Workspace : DOMAIN disk'[w] = Path
         /\ \A w \in Workspace, q \in Path :
              disk'[w][q] = IF w = ws /\ q = p THEN text ELSE disk[w][q]
<1> DEFINE d == [disk[ws] EXCEPT ![p] = text]
<1>1. disk' = [disk EXCEPT ![ws] = d]
  OBVIOUS
<1>2. ws \in Workspace => DOMAIN d = Path /\ \A q \in Path : d[q] = IF q = p THEN text ELSE disk[ws][q]
  BY DEF Shapes
<1> HIDE DEF d
<1>3. DOMAIN disk' = Workspace /\ \A w \in Workspace : disk'[w] = IF w = ws THEN d ELSE disk[w]
  BY <1>1 DEF Shapes
<1> QED BY <1>2, <1>3 DEF Shapes

\* The pane that follows the stores reads its file before it shows a model.
LEMMA PaneFollowsOwn ==
  ASSUME EdInv, WsInv', PaneFollows, UNCHANGED <<models, shared>>
  PROVE  PaneOwn' /\ SavingOwn'
<1>1. ShellShown' => metadata' \in Workspace
  BY DEF WsInv, Ids, ShellShown
<1>2. PaneOwn'
  <2>1. CASE ~(ShellShown' /\ ActiveTab')
    BY <2>1 DEF PaneFollows, PaneOwn
  <2>2. CASE ShellShown' /\ pane' = Pane(metadata', activePath', metadata', "loading")
    BY <1>1, <2>2 DEF Pane, PaneOwn
  <2>3. CASE ShellShown' /\ pane' = Pane(metadata', pane.path, pane.key, "loading")
    BY <1>1, <2>3 DEF Pane, PaneOwn
  <2>4. CASE pane' = pane
    BY <2>4 DEF EdInv, PaneOwn
  <2> QED BY <2>1, <2>2, <2>3, <2>4 DEF PaneFollows
<1>3. SavingOwn'
  <2> SUFFICES ASSUME NEW s \in saving' PROVE s.path \in Path /\ s.text.of # s.ws => s.path \in shared'
    BY DEF SavingOwn
  <2>1. PICK r \in saving : s = Saving(r.ws, r.path, r.text, r.live /\ pane' # None /\ pane'.path = r.path)
    BY DEF PaneFollows
  <2>2. s.path = r.path /\ s.ws = r.ws /\ s.text = r.text
    BY <2>1 DEF Saving
  <2> QED BY <2>2 DEF EdInv, SavingOwn
<1> QED BY <1>2, <1>3

\* A first page has no model, and every file its own text.
LEMMA EdStarts == EdInit => EdInv
  BY DEF EdInit, EdInv, Shapes, PaneOwn, SavingOwn, OwnText, Text

\* The steps of the stores, which the pane follows, and a reload.
LEMMA StoresKeepOwn ==
  ASSUME EdInv, WsInv', Workspaces_Step \/ Tabs_Step \/ Close_Step
  PROVE  EdInv'
<1>1. PaneFollows /\ UNCHANGED <<models, disk, seen, shared>>
  BY DEF Workspaces_Step, Tabs_Step, Close_Step
<1> QED BY <1>1, PaneFollowsOwn DEF EdInv, Shapes, OwnText

\* A reload may still make one of the writes under way.
LEMMA ReloadKeepsOwn ==
  ASSUME EdInv, Reload_Step
  PROVE  EdInv'
<1>1. /\ DOMAIN models' = Path /\ DOMAIN seen' = Path /\ pane' = None /\ saving' = {} /\ shared' = shared
  BY DEF Reload_Step
<1>2. CASE UNCHANGED disk
  BY <1>1, <1>2 DEF EdInv, Shapes, PaneOwn, SavingOwn, OwnText
<1>3. ASSUME NEW s \in saving, disk' = [disk EXCEPT ![s.ws][s.path] = s.text] PROVE EdInv'
  <2>1. /\ DOMAIN disk' = Workspace /\ \A w \in Workspace : DOMAIN disk'[w] = Path
        /\ \A w \in Workspace, q \in Path :
             disk'[w][q] = IF w = s.ws /\ q = s.path THEN s.text ELSE disk[w][q]
    BY <1>3, WriteFile DEF EdInv
  <2> QED BY <1>1, <2>1 DEF EdInv, Shapes, PaneOwn, SavingOwn, OwnText
<1> QED BY <1>2, <1>3 DEF Reload_Step

\* The pane reads its file, and takes the model there is or makes one.
LEMMA LoadedKeepsOwn ==
  ASSUME EdInv, Loaded \/ NotText
  PROVE  EdInv'
<1>1. CASE NotText
  <2>1. /\ pane # None /\ pane' = Pane(pane.ws, pane.path, pane.key, "other")
        /\ UNCHANGED <<models, disk, saving, seen, shared>>
    BY <1>1 DEF NotText
  <2> QED BY <2>1 DEF EdInv, Shapes, PaneOwn, SavingOwn, OwnText, Pane
<1>2. CASE Loaded
  <2>1. /\ pane # None /\ pane' = Pane(pane.ws, pane.path, pane.key, "text")
        /\ UNCHANGED <<disk, saving>> /\ shared \subseteq shared' /\ disk[pane.ws][pane.path] # None
    BY <1>2 DEF Loaded
  <2>2. pane'.ws = pane.ws /\ pane'.path = pane.path /\ pane.ws \in Workspace
    BY <2>1 DEF EdInv, PaneOwn, Pane
  <2>3. DOMAIN models' = Path /\ DOMAIN seen' = Path
    BY <1>2 DEF Loaded, EdInv, Shapes
  <2>4. pane.path \in Path /\ models'[pane.path].of # pane.ws => pane.path \in shared'
    <3>1. CASE models[pane.path] = None
      <4>1. pane.path \in Path => models'[pane.path].of = disk[pane.ws][pane.path].of
        BY <1>2, <3>1 DEF Loaded, Model, EdInv, Shapes
      <4> QED BY <2>1, <2>2, <4>1 DEF EdInv, OwnText
    <3>2. CASE models[pane.path] # None
      BY <1>2, <3>2 DEF Loaded
    <3> QED BY <3>1, <3>2
  <2> QED BY <2>1, <2>2, <2>3, <2>4 DEF EdInv, Shapes, PaneOwn, SavingOwn, OwnText
<1> QED BY <1>1, <1>2

\* An edit leaves a model in the workspace it is of.
LEMMA ChangedKeepsOwn ==
  ASSUME EdInv, NEW stack, Changed(stack)
  PROVE  EdInv'
<1>1. /\ models' = [models EXCEPT ![pane.path] = Model(models[pane.path].of, stack, models[pane.path].saved)]
      /\ UNCHANGED <<disk, pane, saving, seen, shared>>
  BY DEF Changed
<1>2. DOMAIN models' = Path /\ \A q \in Path : models'[q].of = models[q].of
  BY <1>1 DEF EdInv, Shapes, Model
<1> QED BY <1>1, <1>2 DEF EdInv, Shapes, PaneOwn, SavingOwn, OwnText

\* A save takes the text of the pane's model, and writes it where it was begun.
LEMMA SavesKeepOwn ==
  ASSUME EdInv,
         \/ \E w \in Workspace : Save(w)
         \/ \E s \in saving : Saved(s) \/ SaveFails(s)
  PROVE  EdInv'
<1>1. ASSUME NEW w \in Workspace, Save(w) PROVE EdInv'
  <2> DEFINE s == Saving(w, pane.path, Value(models[pane.path]), TRUE)
  <2>1. /\ InEditor /\ saving' = saving \cup {s} /\ UNCHANGED <<models, disk, seen, pane>>
        /\ shared' = IF w = pane.ws THEN shared ELSE shared \cup {pane.path}
    BY <1>1 DEF Save
  <2>2. s.path = pane.path /\ s.ws = w /\ s.text.of = models[pane.path].of
    BY DEF Saving, Value, Text
  <2> HIDE DEF s
  <2>3. s.path \in Path /\ s.text.of # s.ws => s.path \in shared'
    BY <2>1, <2>2 DEF EdInv, PaneOwn, InEditor
  <2> QED BY <2>1, <2>3 DEF EdInv, Shapes, PaneOwn, SavingOwn, OwnText
<1>2. ASSUME NEW s \in saving, Saved(s) PROVE EdInv'
  <2>1. /\ disk' = [disk EXCEPT ![s.ws][s.path] = s.text] /\ saving' = saving \ {s}
        /\ UNCHANGED <<pane, shared>>
    BY <1>2 DEF Saved
  <2>2. \/ models' = models
        \/ models' = [models EXCEPT ![s.path] = Model(models[s.path].of, models[s.path].stack,
                                                      Last(models[s.path].stack))]
    BY <1>2 DEF Saved
  <2>3. DOMAIN models' = Path /\ DOMAIN seen' = Path /\ \A q \in Path : models'[q].of = models[q].of
    BY <1>2, <2>2 DEF Saved, EdInv, Shapes, Model
  <2>4. /\ DOMAIN disk' = Workspace /\ \A w \in Workspace : DOMAIN disk'[w] = Path
        /\ \A w \in Workspace, q \in Path :
             disk'[w][q] = IF w = s.ws /\ q = s.path THEN s.text ELSE disk[w][q]
    BY <2>1, WriteFile DEF EdInv
  <2> QED BY <2>1, <2>3, <2>4 DEF EdInv, Shapes, PaneOwn, SavingOwn, OwnText
<1>3. ASSUME NEW s \in saving, SaveFails(s) PROVE EdInv'
  BY <1>3 DEF SaveFails, EdInv, Shapes, PaneOwn, SavingOwn, OwnText
<1> QED BY <1>1, <1>2, <1>3

\* Others write text of the workspace, or copy a file with what is known of it.
LEMMA OutsideKeepsOwn ==
  ASSUME WsInv, EdInv, NEW p \in Path, Outside(p)
  PROVE  EdInv'
<1>1. PICK t \in {Text(metadata, moves + 1), None} \cup {disk[metadata][q] : q \in Path \ {p}} :
        /\ disk' = [disk EXCEPT ![metadata][p] = t]
        /\ shared' = IF t # None /\ t.of # metadata THEN shared \cup {p} ELSE shared
  BY DEF Outside
<1>2. UNCHANGED <<models, pane, saving, seen>> /\ metadata \in Workspace
  BY DEF Outside, WsInv, Ids, ShellShown
<1>3. /\ DOMAIN disk' = Workspace /\ \A w \in Workspace : DOMAIN disk'[w] = Path
      /\ \A w \in Workspace, q \in Path :
           disk'[w][q] = IF w = metadata /\ q = p THEN t ELSE disk[w][q]
  <2>1. disk' = [disk EXCEPT ![metadata][p] = t]
    BY <1>1
  <2>2. Shapes
    BY DEF EdInv
  <2>3. DOMAIN disk' = Workspace /\ \A w \in Workspace : DOMAIN disk'[w] = Path
    BY <2>1, <2>2, WriteFile
  <2>4. \A w \in Workspace, q \in Path :
          disk'[w][q] = IF w = metadata /\ q = p THEN t ELSE disk[w][q]
    BY <2>1, <2>2, WriteFile
  <2> QED BY <2>3, <2>4
<1>4. shared \subseteq shared' /\ (t # None /\ t.of # metadata => p \in shared')
  BY <1>1
<1> QED BY <1>2, <1>3, <1>4 DEF EdInv, Shapes, PaneOwn, SavingOwn, OwnText

----------------------------------------------------------------------------
(* Theorems *)

\* The stores' invariant, through every step.
LEMMA WsStepKeeps == WsInv /\ [EdNext]_vars => WsInv'
<1> SUFFICES ASSUME WsInv, [EdNext]_vars PROVE WsInv'
  OBVIOUS
<1>1. CASE Workspaces_Step
  BY <1>1, WorkspaceStepKeeps DEF Workspaces_Step
<1>2. CASE Tabs_Step \/ Close_Step
  BY <1>2, TabStepKeeps DEF Tabs_Step, Close_Step
<1>3. CASE Reload_Step
  BY <1>3, SavingKeeps DEF Reload_Step
<1>4. CASE Loaded \/ NotText \/ \E w \in Workspace : Save(w)
  BY <1>4, WsStays DEF Loaded, NotText, Save
<1>5. CASE Type \/ Undo
  BY <1>5, SetDirtyKeeps DEF Type, Undo, Changed
<1>6. ASSUME NEW s \in saving, Saved(s) \/ SaveFails(s) PROVE WsInv'
  BY <1>6, SetDirtyKeeps, WsStays DEF Saved, SaveFails
<1>7. CASE UNCHANGED vars
  BY <1>7, WsStays DEF vars
<1>8. ASSUME NEW p \in Path, Outside(p) PROVE WsInv'
  BY <1>8 DEF Outside, dbVars, tabVars, callVars, WsInv, Ids, ReadsOwn, TabsStayHome, SessionSaved,
              ShellShown, ReadingSession, Snapshot
<1> QED BY <1>1, <1>2, <1>3, <1>4, <1>5, <1>6, <1>7, <1>8 DEF EdNext

\* The editor's invariant, through every step.
LEMMA EdStepKeeps == WsInv /\ EdInv /\ [EdNext]_vars => EdInv'
<1> SUFFICES ASSUME WsInv, EdInv, [EdNext]_vars PROVE EdInv'
  OBVIOUS
<1>0. WsInv'
  BY WsStepKeeps
<1>1. CASE Workspaces_Step \/ Tabs_Step \/ Close_Step
  BY <1>0, <1>1, StoresKeepOwn
<1>2. CASE Type \/ Undo
  BY <1>2, ChangedKeepsOwn DEF Type, Undo
<1>3. CASE UNCHANGED vars
  BY <1>3 DEF vars, edVars, EdInv, Shapes, PaneOwn, SavingOwn, OwnText
<1> QED BY <1>1, <1>2, <1>3, ReloadKeepsOwn, LoadedKeepsOwn, SavesKeepOwn, OutsideKeepsOwn DEF EdNext

\* The inductive invariant of the workspaces, the sessions and the panes.
THEOREM EditorInvariance == EdSpec => [](WsInv /\ EdInv)
<1>1. EdInit => WsInv /\ EdInv
  BY WsStarts, EdStarts DEF EdInit
<1>2. WsInv /\ EdInv /\ [EdNext]_vars => (WsInv /\ EdInv)'
  BY WsStepKeeps, EdStepKeeps
<1> QED BY <1>1, <1>2, PTL DEF EdSpec

\* Once the autosave has run, and the store has not rejected it, a page that dies
\* comes back with the tabs it had, whatever else failed and was reloaded before.
THEOREM SessionAlwaysSaved == EdSpec => []SessionSaved
<1>1. WsInv => SessionSaved
  BY DEF WsInv
<1> QED BY <1>1, EditorInvariance, PTL

\* Tabs and stored sessions stay with their workspace, but for a session saved
\* while it was read or after a project was created during that.
THEOREM TabsAlwaysHome == EdSpec => []TabsStayHome
<1>1. WsInv => TabsStayHome
  BY DEF WsInv
<1> QED BY <1>1, EditorInvariance, PTL

\* A file gets text of another workspace only through a model that a pane of
\* another workspace reused, or as a copy of such a file.
THEOREM TextAlwaysOwn == EdSpec => []OwnText
<1>1. EdInv => OwnText
  BY DEF EdInv
<1> QED BY <1>1, EditorInvariance, PTL

----------------------------------------------------------------------------
(* Unsaved text and its mark *)

\* A sublist holds what is at the chosen positions and nothing else.
LEMMA SublistIs ==
  ASSUME NEW S, NEW s \in Seq(S), NEW at \in SUBSET DOMAIN s
  PROVE  /\ Sublist(s, at) \in Seq(S)
         /\ \A i \in at : \E k \in DOMAIN Sublist(s, at) : Sublist(s, at)[k] = s[i]
         /\ \A k \in DOMAIN Sublist(s, at) : \E i \in at : Sublist(s, at)[k] = s[i]
<1> DEFINE n == Cardinality(at)
           Upto(i) == {j \in at : j <= i}
           Rank(i) == Cardinality(Upto(i))
<1>1. DOMAIN s = 1 .. Len(s) /\ Len(s) \in Nat /\ \A i \in at : i \in Nat /\ s[i] \in S
  BY LenProperties, ElementOfSeq
<1>2. IsFiniteSet(at) /\ n \in Nat
  <2>1. IsFiniteSet(1 .. Len(s))
    BY <1>1, FS_Interval
  <2> QED BY <1>1, <2>1, FS_Subset, FS_CardinalityType
<1>3. \A i \in at : IsFiniteSet(Upto(i)) /\ Rank(i) \in 1 .. n
  <2> SUFFICES ASSUME NEW i \in at PROVE IsFiniteSet(Upto(i)) /\ Rank(i) \in 1 .. n
    OBVIOUS
  <2>1. Upto(i) \in SUBSET at /\ i \in Upto(i)
    BY <1>1
  <2>2. IsFiniteSet(Upto(i)) /\ Rank(i) <= n
    BY <1>2, <2>1, FS_Subset
  <2>3. Rank(i) \in Nat /\ Rank(i) # 0
    BY <2>1, <2>2, FS_CardinalityType, FS_EmptySet
  <2> QED BY <1>2, <2>2, <2>3
<1>4. \A i, j \in at : Rank(i) = Rank(j) => i = j
  <2>1. ASSUME NEW i \in at, NEW j \in at, i < j PROVE Rank(i) # Rank(j)
    <3>1. Upto(i) \in SUBSET Upto(j) /\ j \in Upto(j) /\ j \notin Upto(i)
      BY <1>1, <2>1
    <3>2. IsFiniteSet(Upto(j))
      BY <1>3
    <3> QED BY <3>1, <3>2, FS_Subset
  <2> HIDE DEF Rank
  <2> QED BY <1>1, <2>1
<1>5. \A k \in 1 .. n : \E i \in at : Rank(i) = k
  <2> DEFINE f == [i \in at |-> Rank(i)]
  <2>1. f \in Injection(at, 1 .. n)
    BY <1>3, <1>4 DEF Injection, IsInjective
  <2>2. IsFiniteSet(1 .. n) /\ Cardinality(1 .. n) = n
    BY <1>2, FS_Interval
  <2>3. f \in Surjection(at, 1 .. n)
    BY <2>1, <2>2, FS_Injection
  <2> QED BY <2>3 DEF Surjection
<1> DEFINE Pos(k) == CHOOSE i \in at : Rank(i) = k
<1>6. \A k \in 1 .. n : Pos(k) \in at /\ Rank(Pos(k)) = k
  BY <1>5
<1>7. \A i \in at : Pos(Rank(i)) = i
  BY <1>3, <1>4, <1>6
<1>8. Sublist(s, at) = [k \in 1 .. n |-> s[Pos(k)]]
  BY DEF Sublist
<1> HIDE DEF n, Rank, Pos
<1>9. Sublist(s, at) \in Seq(S) /\ DOMAIN Sublist(s, at) = 1 .. n
  BY <1>1, <1>2, <1>6, <1>8
<1> QED BY <1>3, <1>6, <1>7, <1>8, <1>9

\* The tabs there can be: one with unsaved text is no preview.
TabsOK(ts) == ts \in Seq(Tab) /\ \A i \in DOMAIN ts : ts[i].dirty => ~ts[i].preview

\* A session that can be stored.
SessionOK(s) == s \in SavedTabs /\ TabsOK(s.tabs)

StoreTabs ==
  /\ SessionOK(Snapshot)
  /\ \A w \in Workspace : sessions[w] # None => SessionOK(sessions[w])
  /\ ReadingSession /\ opening.read # None => SessionOK(opening.read)

\* Which calls can be under way over which screen.
Screens ==
  /\ phase \in {"none", "loading"} => metadata = None
  /\ phase = "ready" => metadata # None
  /\ phase \in Phases
  /\ phase = "error" => opening.pc = "none"
  /\ ~checked => phase = "none" /\ opening.pc = "none" /\ creating = None
  /\ opening.pc # "none" => opening.id \notin unused \cup {creating}
  /\ metadata # None => metadata \notin unused \cup {creating}
  /\ opening.pc \in {"list", "fs"} => opening.id # metadata
  /\ ShellShown /\ opening.pc # "none" /\ ~(ReadingSession /\ opening.id = metadata) => creating = None
  /\ unused \subseteq Workspace /\ Elements(stored) \cap unused = {}
  /\ creating \notin Elements(stored) \cup unused

\* The pane shows the active tab of the workspace shown, and a save whose editor
\* is still there is of the pane's file.
PaneShown ==
  /\ pane # None => ShellShown /\ ActiveTab /\ pane.path = activePath /\ pane.ws = metadata
  /\ \A s \in saving : s.live /\ pane # None => pane.path = s.path

\* What files hold and saves write are texts, and saves are of paths.
IsText(t) == t = Text(t.of, t.edit)

Texts ==
  /\ \A w \in Workspace, p \in Path : disk[w][p] # None => IsText(disk[w][p])
  /\ \A s \in saving : s.path \in Path /\ IsText(s.text)

\* A path whose model and mark the history names no exception for.
Told(p) == p \notin unmarked \cup shared

\* A path has a model, or its editor shows one.
HasModel(p) == models[p] # None \/ (InEditor /\ pane.path = p)

\* What a model is known to have saved is what the page last read or wrote.
SavedKnown ==
  \A p \in Path : HasModel(p) /\ Told(p) => Text(models[p].of, models[p].saved) = seen[p]

\* Nobody has a model of a workspace that is not there yet.
ModelsPlaced ==
  \A p \in Path : HasModel(p) /\ p \notin shared =>
    models[p].of \in Workspace /\ models[p].of \notin unused \cup {creating}

\* p has a tab in ts, and the mark.
MarkedIn(ts, p) ==
  /\ \E i \in DOMAIN ts : ts[i].path = p
  /\ \A i \in DOMAIN ts : ts[i].path = p => ts[i].dirty

MarkStored(p) ==
  sessions[models[p].of] # None /\ MarkedIn(sessions[models[p].of].tabs, p)

\* What is stored of the workspace shown, or not shown any more after an error,
\* is what it would come back with.
Settled ==
  \/ phase = "ready" /\ timer = "none"
  \/ ReadingSession /\ opening.id = metadata
  \/ phase = "error" /\ creating # None

\* Wherever the tabs of its workspace are or will come back from, the mark of
\* unsaved text is there.
MarkKept(p) ==
  /\ models[p].of # metadata => MarkStored(p)
  /\ models[p].of = metadata /\ metadata \notin mixed /\ Settled => MarkStored(p)
  /\ ReadingSession /\ opening.id = models[p].of =>
       opening.read # None /\ MarkedIn(opening.read.tabs, p)
  /\ models[p].of = tabsOf => MarkedIn(tabs, p)

MarksKept == \A p \in Modified : Told(p) => MarkKept(p)

TellInv == StoreTabs /\ Screens /\ PaneShown /\ Texts /\ SavedKnown /\ ModelsPlaced /\ MarksKept

\* A first page keeps every mark: it has none.
LEMMA TellStarts == EdInit => TellInv
<1> SUFFICES ASSUME EdInit PROVE TellInv
  OBVIOUS
<1>1. /\ phase = "none" /\ metadata = None /\ tabs = <<>> /\ activePath = None /\ tabsOf = None /\ opening.pc = "none" /\ creating = None
      /\ unused = Workspace \ Elements(Kept) /\ stored = Kept
      /\ \A w \in Workspace : sessions[w] = None
  BY DEF EdInit, WsInit, NoCall, Call
<1>2. Elements(Kept) \subseteq Workspace
  BY WorkspacesAssumption, ElementOfSeq, LenProperties DEF WorkspacesAssumption, Elements
<1>3. StoreTabs
  BY <1>1 DEF StoreTabs, SessionOK, TabsOK, Snapshot, SavedTabs, ReadingSession
<1>4. Screens
  BY <1>1, <1>2, WorkspacesAssumption DEF WorkspacesAssumption, Screens, Phases, ShellShown
<1>5. (\A p \in Path : models[p] = None) /\ pane = None /\ saving = {}
  BY DEF EdInit
<1>6. Texts
  BY DEF EdInit, Texts, IsText, Text
<1> QED BY <1>3, <1>4, <1>5, <1>6 DEF TellInv, PaneShown, HasModel, InEditor, SavedKnown, ModelsPlaced, MarksKept, Modified

----------------------------------------------------------------------------
\* Removing an id leaves others of the list.
LEMMA ElementsIn ==
  ASSUME NEW s \in Seq(Workspace), NEW e
  PROVE  Elements(Without(s, e)) \subseteq Elements(s)
<1>1. s \in Seq(Elements(s))
  BY DEF Elements
<1>2. Without(s, e) \in Seq(Elements(s))
  BY <1>1, WithoutType
<1> QED BY <1>2, ElementOfSeq, LenProperties DEF Elements

\* Putting an id in front adds that one.
LEMMA ElementsPut ==
  ASSUME NEW s \in Seq(Workspace), NEW w \in Workspace
  PROVE  Elements(<<w>> \o s) \subseteq {w} \cup Elements(s)
<1>1. s \in Seq({w} \cup Elements(s)) /\ <<w>> \in Seq({w} \cup Elements(s))
  BY DEF Elements
<1>2. <<w>> \o s \in Seq({w} \cup Elements(s))
  BY <1>1, ConcatProperties
<1> QED BY <1>2, ElementOfSeq, LenProperties DEF Elements

\* The screens and calls after what no call of a workspace does.
LEMMA ScreensStay ==
  ASSUME Screens, UNCHANGED <<stored, unused, phase, metadata, opening, creating, checked>>
  PROVE  Screens'
  BY DEF Screens, ShellShown, ReadingSession

\* None is no id.
LEMMA NoneIsNoId ==
  ASSUME WsInv
  PROVE  /\ None \notin Workspace /\ None \notin Elements(stored) /\ Elements(stored) \subseteq Workspace
         /\ stored \in Seq(Workspace)
<1>1. stored \in Seq(Workspace)
  BY DEF WsInv, Ids
<1>2. Elements(stored) \subseteq Workspace
  BY <1>1, ElementOfSeq, LenProperties DEF Elements
<1> QED BY <1>1, <1>2, WorkspacesAssumption DEF WorkspacesAssumption

\* openWorkspace keeps what is known of the screens, at each of its awaits.
LEMMA OpeningScreens ==
  ASSUME WsInv, Screens,
         \/ \E w \in Workspace : Open(w)
         \/ Restore \/ OpenListed \/ OpenReady \/ OpenHydrate \/ OpenFails
  PROVE  Screens'
<1>0. /\ None \notin Workspace /\ None \notin Elements(stored) /\ Elements(stored) \subseteq Workspace
      /\ stored \in Seq(Workspace)
  BY NoneIsNoId
<1>1. ASSUME NEW w \in Workspace, Open(w) PROVE Screens'
  <2>1. /\ phase = "none" /\ checked /\ opening.pc = "none" /\ w \notin unused /\ w # creating
        /\ phase' = "loading" /\ opening'.id = w /\ opening'.pc = "list"
        /\ UNCHANGED <<stored, unused, metadata, creating, checked>>
    BY <1>1 DEF Open, Welcome, StartOpening, Call, dbVars
  <2> QED BY <1>0, <2>1 DEF Screens, Phases, ShellShown, ReadingSession
<1>2. CASE Restore
  <2>1. /\ ~checked /\ checked' /\ UNCHANGED <<stored, unused, metadata, creating>>
        /\ phase = "none" /\ opening.pc = "none" /\ creating = None /\ metadata = None
    BY <1>2 DEF Restore, dbVars, Screens
  <2>2. CASE stored # <<>>
    <3>1. Head(stored) \in Elements(stored)
      BY <1>0, <2>2, HeadTailProperties, LenProperties, EmptySeq DEF Elements
    <3>2. phase' = "loading" /\ opening'.id = Head(stored) /\ opening'.pc = "list"
      BY <1>2, <2>2 DEF Restore, StartOpening, Call
    <3> QED BY <1>0, <2>1, <3>1, <3>2 DEF Screens, Phases, ShellShown, ReadingSession
  <2>3. CASE stored = <<>>
    <3>1. UNCHANGED <<phase, opening>>
      BY <1>2, <2>3 DEF Restore
    <3> QED BY <2>1, <3>1 DEF Screens, ShellShown, ReadingSession
  <2> QED BY <2>2, <2>3
<1>3. CASE OpenListed
  <2>1. /\ opening.pc = "list" /\ opening'.pc = "fs" /\ opening'.id = opening.id
        /\ UNCHANGED <<stored, unused, phase, metadata, creating, checked>>
    BY <1>3 DEF OpenListed, Call, dbVars
  <2> QED BY <2>1 DEF Screens, Phases, ShellShown, ReadingSession
<1>4. CASE OpenReady
  <2>1. /\ opening.pc = "fs" /\ opening'.pc = "session" /\ opening'.id = opening.id
        /\ phase' = "ready" /\ metadata' = opening.id
        /\ stored' = <<opening.id>> \o Without(stored, opening.id)
        /\ UNCHANGED <<unused, creating, checked>>
    BY <1>4 DEF OpenReady, Call
  <2>2. opening.id \in Workspace /\ Without(stored, opening.id) \in Seq(Workspace)
    BY <1>0, <2>1, WithoutType DEF WsInv, Ids
  <2>3. Elements(stored') \subseteq {opening.id} \cup Elements(stored)
    BY <1>0, <2>1, <2>2, ElementsPut, ElementsIn
  <2> QED BY <1>0, <2>1, <2>2, <2>3 DEF Screens, Phases, ShellShown, ReadingSession
<1>5. CASE OpenHydrate
  <2>1. opening'.pc = "none" /\ UNCHANGED <<stored, unused, phase, metadata, creating, checked>>
    BY <1>5 DEF OpenHydrate, NoCall, Call, dbVars
  <2> QED BY <2>1 DEF Screens, ShellShown, ReadingSession
<1>6. CASE OpenFails
  <2>1. /\ opening.pc # "none" /\ opening'.pc = "none" /\ phase' = "error"
        /\ UNCHANGED <<stored, unused, metadata, creating, checked>>
    BY <1>6 DEF OpenFails, NoCall, Call, dbVars
  <2> QED BY <2>1 DEF Screens, Phases, ShellShown, ReadingSession
<1> QED BY <1>1, <1>2, <1>3, <1>4, <1>5, <1>6

\* So do creating, deleting and leaving a workspace.
LEMMA ProjectsScreens ==
  ASSUME WsInv, Screens,
         \/ \E w \in Workspace : Create(w) \/ Delete(w)
         \/ Created \/ CreateFails \/ GoHome
  PROVE  Screens'
<1>0. /\ None \notin Workspace /\ None \notin Elements(stored) /\ Elements(stored) \subseteq Workspace
      /\ stored \in Seq(Workspace)
  BY NoneIsNoId
<1>1. ASSUME NEW w \in Workspace, Create(w) PROVE Screens'
  <2>1. /\ phase = "none" /\ checked /\ creating = None /\ w \in unused
        /\ unused' = unused \ {w} /\ creating' = w
        /\ UNCHANGED <<stored, phase, metadata, opening, checked>>
    BY <1>1 DEF Create, Welcome
  <2> QED BY <1>0, <2>1 DEF Screens, Phases, ShellShown, ReadingSession
<1>2. ASSUME NEW w \in Workspace, Delete(w) PROVE Screens'
  <2>1. stored' = Without(stored, w) /\ UNCHANGED <<unused, phase, metadata, opening, creating, checked>>
    BY <1>2 DEF Delete, callVars
  <2>2. Elements(stored') \subseteq Elements(stored)
    BY <1>0, <2>1, ElementsIn
  <2> QED BY <2>1, <2>2 DEF Screens, ShellShown, ReadingSession
<1>3. CASE Created
  <2>1. /\ creating # None /\ stored' = <<creating>> \o stored
        /\ phase' = "ready" /\ metadata' = creating /\ creating' = None
        /\ UNCHANGED <<unused, opening, checked>>
    BY <1>3 DEF Created
  <2>2. creating \in Workspace /\ (opening.pc # "none" => opening.id \in Workspace)
    BY <2>1 DEF WsInv, Ids
  <2>3. Elements(stored') \subseteq {creating} \cup Elements(stored)
    BY <1>0, <2>1, <2>2, ElementsPut
  <2> QED BY <1>0, <2>1, <2>2, <2>3 DEF Screens, Phases, ShellShown, ReadingSession
<1>4. CASE CreateFails
  <2>1. creating' = None /\ UNCHANGED <<stored, unused, phase, metadata, opening, checked>>
    BY <1>4 DEF CreateFails, dbVars
  <2>2. opening.pc # "none" => opening.id \in Workspace
    BY DEF WsInv, Ids
  <2> QED BY <1>0, <2>1, <2>2 DEF Screens, Phases, ShellShown, ReadingSession
<1>5. CASE GoHome
  <2>1. /\ phase = "ready" /\ phase' = "none" /\ metadata' = None
        /\ UNCHANGED <<stored, unused, opening, creating, checked>>
    BY <1>5 DEF GoHome, ShellShown, dbVars, callVars
  <2>2. opening.pc # "none" => opening.id \in Workspace
    BY DEF WsInv, Ids
  <2> QED BY <1>0, <2>1, <2>2 DEF Screens, Phases, ShellShown, ReadingSession
<1> QED BY <1>1, <1>2, <1>3, <1>4, <1>5

\* A reload drops every call and every screen.
LEMMA ReloadScreens == WsInv /\ Screens /\ Reload => Screens'
<1> SUFFICES ASSUME WsInv, Screens, Reload PROVE Screens'
  OBVIOUS
<1>1. /\ phase' = "none" /\ metadata' = None /\ opening'.pc = "none" /\ creating' = None /\ ~checked'
      /\ UNCHANGED <<stored, unused>>
  BY DEF Reload, NoCall, Call
<1> QED BY <1>1, NoneIsNoId DEF Screens, Phases, ShellShown, ReadingSession

----------------------------------------------------------------------------
\* A part of the tabs is tabs, and keeps the marks of the paths it keeps.
LEMMA SublistOK ==
  ASSUME NEW ts, TabsOK(ts), NEW at \in SUBSET DOMAIN ts
  PROVE  /\ TabsOK(Sublist(ts, at))
         /\ \A p : MarkedIn(ts, p) /\ (\A i \in DOMAIN ts : ts[i].path = p => i \in at)
                     => MarkedIn(Sublist(ts, at), p)
<1>1. /\ Sublist(ts, at) \in Seq(Tab)
      /\ \A i \in at : \E k \in DOMAIN Sublist(ts, at) : Sublist(ts, at)[k] = ts[i]
      /\ \A k \in DOMAIN Sublist(ts, at) : \E i \in at : Sublist(ts, at)[k] = ts[i]
  BY SublistIs DEF TabsOK
<1>2. TabsOK(Sublist(ts, at))
  BY <1>1 DEF TabsOK
<1>3. ASSUME NEW p, MarkedIn(ts, p), \A i \in DOMAIN ts : ts[i].path = p => i \in at
      PROVE  MarkedIn(Sublist(ts, at), p)
  BY <1>1, <1>3 DEF MarkedIn
<1> QED BY <1>2, <1>3

\* Opening, picking or pinning a tab loses no mark; closing one loses its own.
LEMMA TabStepMarks ==
  ASSUME TabsOK(tabs), NEW q \in Path, NEW preview \in BOOLEAN,
         OpenFile(q, preview) \/ SetActive(q) \/ PinTab(q)
  PROVE  TabsOK(tabs') /\ \A p : MarkedIn(tabs, p) => MarkedIn(tabs', p)
<1>1. CASE OpenFile(q, preview)
  <2> DEFINE kept == {i \in DOMAIN tabs : ~tabs[i].preview}
             base == IF preview THEN Sublist(tabs, kept) ELSE tabs
             t == NewTab(q, preview)
  <2>1. TabsOK(base) /\ \A p : MarkedIn(tabs, p) => MarkedIn(base, p)
    <3>1. \A p : MarkedIn(tabs, p) => \A i \in DOMAIN tabs : tabs[i].path = p => i \in kept
      BY DEF MarkedIn, TabsOK
    <3>2. kept \in SUBSET DOMAIN tabs
      OBVIOUS
    <3> QED BY <3>1, <3>2, SublistOK
  <2>2. IsOpen(q) => tabs' = tabs
    BY <1>1 DEF OpenFile
  <2>3. ~IsOpen(q) => tabs' = Append(base, t)
    BY <1>1 DEF OpenFile
  <2>4. t \in Tab /\ t.path = q /\ ~t.dirty
    BY DEF NewTab, Tab
  <2> HIDE DEF base, t
  <2>5. /\ Append(base, t) \in Seq(Tab)
        /\ DOMAIN base = 1 .. Len(base) /\ Len(base) \in Nat /\ DOMAIN Append(base, t) = 1 .. Len(base) + 1
        /\ \A i \in 1 .. Len(base) : Append(base, t)[i] = base[i]
        /\ Append(base, t)[Len(base) + 1] = t
    BY <2>1, <2>4, AppendProperties, LenProperties DEF TabsOK
  <2>6. \A i \in DOMAIN Append(base, t) : Append(base, t)[i] = t \/ i \in DOMAIN base
    BY <2>5
  <2>7. TabsOK(Append(base, t))
    BY <2>1, <2>4, <2>5, <2>6 DEF TabsOK
  <2>8. ASSUME ~IsOpen(q), NEW p, MarkedIn(tabs, p) PROVE MarkedIn(Append(base, t), p)
    <3>1. p # q
      BY <2>8 DEF MarkedIn, IsOpen
    <3>2. MarkedIn(base, p)
      BY <2>1, <2>8
    <3>3. \A i \in DOMAIN base : i \in DOMAIN Append(base, t) /\ Append(base, t)[i] = base[i]
      BY <2>5
    <3> QED BY <2>4, <2>5, <2>6, <3>1, <3>2, <3>3 DEF MarkedIn
  <2> QED BY <2>2, <2>3, <2>7, <2>8
<1>2. CASE SetActive(q)
  BY <1>2 DEF SetActive
<1>3. CASE PinTab(q)
  <2>1. tabs' = [i \in DOMAIN tabs |-> IF tabs[i].path = q THEN Pin(tabs[i]) ELSE tabs[i]]
    BY <1>3 DEF PinTab
  <2>2. \A t \in Tab : Pin(t) \in Tab /\ Pin(t).path = t.path /\ Pin(t).dirty = t.dirty /\ ~Pin(t).preview
    BY DEF Pin, Tab
  <2>3. DOMAIN tabs = 1 .. Len(tabs) /\ Len(tabs) \in Nat /\ \A i \in DOMAIN tabs : tabs[i] \in Tab
    BY LenProperties, ElementOfSeq DEF TabsOK
  <2>4. /\ DOMAIN tabs' = DOMAIN tabs
        /\ \A i \in DOMAIN tabs : tabs'[i] \in Tab /\ tabs'[i].path = tabs[i].path /\ tabs'[i].dirty = tabs[i].dirty
                                  /\ (tabs'[i].preview => tabs[i].preview)
    BY <2>1, <2>2, <2>3
  <2>5. tabs' \in Seq(Tab)
    BY <2>1, <2>3, <2>4
  <2> QED BY <2>4, <2>5 DEF TabsOK, MarkedIn
<1> QED BY <1>1, <1>2, <1>3

\* Closing tabs loses the marks of what is closed only.
LEMMA CloseMarks ==
  ASSUME TabsOK(tabs), CloseAll \/ \E q \in Path : CloseTab(q)
  PROVE  TabsOK(tabs') /\ \A p : MarkedIn(tabs, p) => MarkedIn(tabs', p) \/ (IsOpen(p) /\ ~IsOpen(p)')
<1>1. CASE CloseAll
  BY <1>1 DEF CloseAll, TabsOK, IsOpen, MarkedIn
<1>2. ASSUME NEW q \in Path, CloseTab(q)
      PROVE  TabsOK(tabs') /\ \A p : MarkedIn(tabs, p) => MarkedIn(tabs', p) \/ (IsOpen(p) /\ ~IsOpen(p)')
  <2> DEFINE at == {i \in DOMAIN tabs : tabs[i].path # q}
  <2>1. tabs' = Sublist(tabs, at) /\ at \in SUBSET DOMAIN tabs
    BY <1>2 DEF CloseTab
  <2>2. TabsOK(tabs') /\ \A p : MarkedIn(tabs, p) /\ p # q => MarkedIn(tabs', p)
    BY <2>1, SublistOK
  <2>3. ~IsOpen(q)'
    <3>1. \A k \in DOMAIN tabs' : \E i \in at : tabs'[k] = tabs[i]
      BY <2>1, SublistIs DEF TabsOK
    <3> QED BY <3>1 DEF IsOpen
  <2>4. \A p : MarkedIn(tabs, p) => IsOpen(p)
    BY DEF MarkedIn, IsOpen
  <2> QED BY <2>2, <2>3, <2>4
<1> QED BY <1>1, <1>2

\* setDirty sets the mark of one path; a tab that gets it is pinned.
LEMMA SetDirtyMarks ==
  ASSUME TabsOK(tabs), NEW q \in Path, NEW dirty \in BOOLEAN, NEW pin \in BOOLEAN, dirty => pin,
         SetDirty(q, dirty, pin)
  PROVE  /\ TabsOK(tabs') /\ DOMAIN tabs' = DOMAIN tabs
         /\ \A i \in DOMAIN tabs : tabs'[i].path = tabs[i].path
         /\ \A p : p # q /\ MarkedIn(tabs, p) => MarkedIn(tabs', p)
         /\ dirty /\ IsOpen(q) => MarkedIn(tabs', q)
<1>1. tabs' = [i \in DOMAIN tabs |->
         IF tabs[i].path # q THEN tabs[i]
         ELSE [path |-> q, dirty |-> dirty, preview |-> tabs[i].preview /\ ~pin]]
  BY DEF SetDirty
<1>2. DOMAIN tabs = 1 .. Len(tabs) /\ Len(tabs) \in Nat /\ \A i \in DOMAIN tabs : tabs[i] \in Tab
  BY LenProperties, ElementOfSeq DEF TabsOK
<1>3. \A i \in DOMAIN tabs :
        /\ tabs[i].path # q => tabs'[i] = tabs[i]
        /\ tabs[i].path = q =>
             tabs'[i] = [path |-> q, dirty |-> dirty, preview |-> tabs[i].preview /\ ~pin]
  BY <1>1
<1>4. \A i \in DOMAIN tabs :
        tabs[i].path = q => tabs'[i] \in Tab /\ tabs'[i].path = q /\ tabs'[i].dirty = dirty
                            /\ (tabs'[i].dirty => ~tabs'[i].preview)
  <2> SUFFICES ASSUME NEW i \in DOMAIN tabs, tabs[i].path = q
               PROVE  tabs'[i] \in Tab /\ tabs'[i].path = q /\ tabs'[i].dirty = dirty
                      /\ (tabs'[i].dirty => ~tabs'[i].preview)
    OBVIOUS
  <2> DEFINE v == tabs[i].preview /\ ~pin
  <2>1. v \in BOOLEAN /\ (dirty => v = FALSE)
    BY ZenonT(20)
  <2>2. tabs'[i] = [path |-> q, dirty |-> dirty, preview |-> v]
    BY <1>3
  <2> HIDE DEF v
  <2>3. tabs'[i] \in Tab /\ tabs'[i].path = q /\ tabs'[i].dirty = dirty /\ tabs'[i].preview = v
    BY <2>1, <2>2 DEF Tab
  <2> QED BY <2>1, <2>3, ZenonT(20)
<1>5. DOMAIN tabs' = DOMAIN tabs /\ \A i \in DOMAIN tabs : tabs'[i] \in Tab /\ tabs'[i].path = tabs[i].path
  BY <1>1, <1>2, <1>3, <1>4
<1>6. tabs' \in Seq(Tab)
  BY <1>1, <1>2, <1>5
<1> QED BY <1>3, <1>4, <1>5, <1>6 DEF TabsOK, MarkedIn, IsOpen

----------------------------------------------------------------------------
\* The sessions and the tabs keep their shape: first what a workspace's calls do.
LEMMA SessionsStayOK ==
  ASSUME WsInv, StoreTabs, WorkspaceStep
  PROVE  StoreTabs'
<1>0. /\ SessionOK(Snapshot) /\ TabsOK(tabs)
      /\ \A w \in Workspace : sessions[w] # None => SessionOK(sessions[w])
      /\ DOMAIN sessions = Workspace
  BY DEF StoreTabs, SessionOK, Snapshot, WsInv, Ids
<1>1. ASSUME \/ \E w \in Workspace : Open(w) \/ Create(w)
             \/ Restore \/ OpenListed \/ OpenFails \/ CreateFails \/ GoHome
      PROVE  StoreTabs'
  <2>1. UNCHANGED <<sessions, tabs, activePath, tabsOf>> /\ (opening' = opening \/ ~ReadingSession')
    <3>1. CASE \E w \in Workspace : Open(w)
      BY <3>1 DEF Open, StartOpening, Call, ReadingSession, dbVars, tabVars
    <3>2. CASE \E w \in Workspace : Create(w)
      BY <3>2 DEF Create, tabVars
    <3>3. CASE Restore
      BY <3>3 DEF Restore, StartOpening, Call, ReadingSession, dbVars, tabVars
    <3>4. CASE OpenListed \/ OpenFails
      BY <3>4 DEF OpenListed, OpenFails, NoCall, Call, ReadingSession, dbVars, tabVars
    <3>5. CASE CreateFails \/ GoHome
      BY <3>5 DEF CreateFails, GoHome, dbVars, tabVars, callVars
    <3> QED BY <1>1, <3>1, <3>2, <3>3, <3>4, <3>5
  <2> QED BY <1>0, <2>1 DEF StoreTabs, Snapshot, ReadingSession
<1>2. CASE OpenReady
  <2>1. /\ UNCHANGED <<sessions, tabs, activePath, tabsOf>>
        /\ opening'.read = sessions[opening.id] /\ opening.id \in Workspace
    BY <1>2 DEF OpenReady, Call, tabVars, WsInv, Ids
  <2> QED BY <1>0, <2>1 DEF StoreTabs, Snapshot
<1>3. CASE OpenHydrate
  <2> DEFINE read == IF opening.read = None THEN Empty ELSE opening.read
  <2>1. /\ sessions' = sessions /\ ~ReadingSession' /\ ReadingSession /\ opening.id \in Workspace
        /\ tabs' = read.tabs /\ activePath' = read.active /\ tabsOf' = opening.id
    BY <1>3 DEF OpenHydrate, Hydrate, NoCall, Call, ReadingSession, dbVars, WsInv, Ids
  <2>2. SessionOK(Empty)
    BY DEF SessionOK, Empty, SavedTabs, TabsOK
  <2>3. SessionOK(read)
    BY <2>1, <2>2 DEF StoreTabs
  <2> HIDE DEF read
  <2>4. SessionOK(Snapshot')
    BY <2>1, <2>3 DEF SessionOK, SavedTabs, Snapshot
  <2> QED BY <1>0, <2>1, <2>4 DEF StoreTabs
<1>4. CASE Created
  <2>1. /\ sessions' = sessions /\ opening' = opening /\ creating \in Workspace
        /\ tabs' = <<>> /\ activePath' = None /\ tabsOf' = creating
    BY <1>4 DEF Created, Hydrate, Empty, WsInv, Ids
  <2>2. SessionOK(Snapshot')
    BY <2>1 DEF SessionOK, SavedTabs, Snapshot, TabsOK
  <2> QED BY <1>0, <2>1, <2>2 DEF StoreTabs, ReadingSession
<1>5. ASSUME NEW x \in Workspace, Delete(x) PROVE StoreTabs'
  <2>1. sessions' = [sessions EXCEPT ![x] = None] /\ UNCHANGED <<tabs, activePath, tabsOf, opening>>
    BY <1>5 DEF Delete, tabVars, callVars
  <2> QED BY <1>0, <2>1 DEF StoreTabs, Snapshot, ReadingSession
<1>6. CASE Flush
  <2>1. /\ sessions' = sessions \/ sessions' = [sessions EXCEPT ![metadata] = Snapshot]
        /\ UNCHANGED <<tabs, activePath, tabsOf, opening>>
    BY <1>6 DEF Flush, SaveSession, tabVars, callVars
  <2>2. \A w \in Workspace : sessions'[w] # None => SessionOK(sessions'[w])
    BY <1>0, <2>1
  <2>3. SessionOK(Snapshot')
    BY <1>0, <2>1 DEF Snapshot
  <2> QED BY <2>1, <2>2, <2>3 DEF StoreTabs, ReadingSession
<1> QED BY <1>1, <1>2, <1>3, <1>4, <1>5, <1>6 DEF WorkspaceStep

\* A page that is reloaded has no tabs.
LEMMA ReloadStaysOK ==
  ASSUME WsInv, StoreTabs, Reload
  PROVE  StoreTabs'
<1>1. /\ sessions' = sessions \/ sessions' = [sessions EXCEPT ![metadata] = Snapshot]
      /\ tabs' = <<>> /\ activePath' = None /\ tabsOf' = None /\ ~ReadingSession'
  BY DEF Reload, SaveSession, NoCall, Call, ReadingSession
<1>2. \A w \in Workspace : sessions'[w] # None => SessionOK(sessions'[w])
  BY <1>1 DEF StoreTabs, WsInv, Ids
<1>3. SessionOK(Snapshot')
  BY <1>1 DEF SessionOK, SavedTabs, Snapshot, TabsOK
<1> QED BY <1>1, <1>2, <1>3 DEF StoreTabs

\* What changes the tabs only.
LEMMA TabsStayOK ==
  ASSUME StoreTabs, TabsOK(tabs'), activePath' \in Path \cup {None},
         UNCHANGED <<sessions, opening, tabsOf>>
  PROVE  StoreTabs'
<1>1. SessionOK(Snapshot')
  BY DEF StoreTabs, SessionOK, SavedTabs, Snapshot, TabsOK
<1> QED BY <1>1 DEF StoreTabs, ReadingSession

\* The tab that is active is a path or none.
LEMMA ActiveIsPath ==
  ASSUME StoreTabs,
         \/ \E q \in Path, preview \in BOOLEAN : OpenFile(q, preview)
         \/ \E q \in Path : CloseTab(q) \/ SetActive(q) \/ PinTab(q)
         \/ CloseAll
  PROVE  activePath' \in Path \cup {None}
<1>0. activePath \in Path \cup {None} /\ TabsOK(tabs)
  BY DEF StoreTabs, SessionOK, SavedTabs, Snapshot
<1>1. ASSUME NEW q \in Path, CloseTab(q) PROVE activePath' \in Path \cup {None}
  <2> DEFINE i == CHOOSE j \in DOMAIN tabs : tabs[j].path = q
             at == {j \in DOMAIN tabs : tabs[j].path # q}
             left == Sublist(tabs, at)
             k == IF i <= Len(left) THEN i ELSE Len(left)
  <2>1. /\ activePath' = IF activePath # q THEN activePath ELSE IF left = <<>> THEN None ELSE left[k].path
        /\ i \in DOMAIN tabs
    BY <1>1 DEF CloseTab, IsOpen
  <2>2. left \in Seq(Tab)
    BY <1>0, SublistIs DEF TabsOK
  <2>3. DOMAIN tabs = 1 .. Len(tabs) /\ Len(tabs) \in Nat
    BY <1>0, LenProperties DEF TabsOK
  <2>4. Len(left) \in Nat /\ (left # <<>> => Len(left) # 0)
    BY <2>2, LenProperties, EmptySeq
  <2> HIDE DEF i, left
  <2>5. left # <<>> => k \in 1 .. Len(left)
    BY <2>1, <2>3, <2>4
  <2>6. left # <<>> => left[k] \in Tab
    BY <2>2, <2>5, ElementOfSeq
  <2> QED BY <1>0, <2>1, <2>6 DEF Tab
<1> QED BY <1>0, <1>1 DEF OpenFile, SetActive, PinTab, CloseAll

\* A mark set with its pin leaves tabs that can be stored.
LEMMA SetDirtyStaysOK ==
  ASSUME StoreTabs, NEW q \in Path, NEW dirty \in BOOLEAN, NEW pin \in BOOLEAN, dirty => pin,
         SetDirty(q, dirty, pin)
  PROVE  StoreTabs'
<1>1. TabsOK(tabs) /\ activePath \in Path \cup {None}
  BY DEF StoreTabs, SessionOK, SavedTabs, Snapshot
<1>2. UNCHANGED <<sessions, opening, tabsOf, activePath>>
  BY DEF SetDirty, dbVars, callVars
<1> QED BY <1>1, <1>2, SetDirtyMarks, TabsStayOK
----------------------------------------------------------------------------
\* React renders the pane of the active tab, or none.
LEMMA PaneFollowsShown == PaneFollows => PaneShown'
<1> SUFFICES ASSUME PaneFollows PROVE PaneShown'
  OBVIOUS
<1>1. pane' # None => ShellShown' /\ ActiveTab' /\ pane'.path = activePath' /\ pane'.ws = metadata'
  <2>1. CASE ~(ShellShown' /\ ActiveTab')
    BY <2>1 DEF PaneFollows
  <2>2. CASE ShellShown' /\ ActiveTab' /\ (pane = None \/ pane.path # activePath')
    BY <2>2 DEF PaneFollows, Pane
  <2>3. CASE ShellShown' /\ ActiveTab' /\ pane # None /\ pane.path = activePath'
    BY <2>3 DEF PaneFollows, Pane
  <2> QED BY <2>1, <2>2, <2>3
<1>2. ASSUME NEW s \in saving', s.live PROVE pane'.path = s.path
  <2>1. PICK r \in saving : s = Saving(r.ws, r.path, r.text, r.live /\ pane' # None /\ pane'.path = r.path)
    BY DEF PaneFollows
  <2>2. s.path = r.path /\ s.live = (r.live /\ pane' # None /\ pane'.path = r.path)
    BY <2>1 DEF Saving
  <2> QED BY <1>2, <2>2
<1> QED BY <1>1, <1>2 DEF PaneShown

\* An edit or a mark leaves the pane where it is.
LEMMA SetDirtyShown ==
  ASSUME PaneShown, StoreTabs, NEW q \in Path, NEW dirty \in BOOLEAN, NEW pin \in BOOLEAN, dirty => pin,
         SetDirty(q, dirty, pin), pane' = pane, saving' \subseteq saving
  PROVE  PaneShown'
<1>1. DOMAIN tabs' = DOMAIN tabs /\ \A i \in DOMAIN tabs : tabs'[i].path = tabs[i].path
  BY SetDirtyMarks DEF StoreTabs, SessionOK, Snapshot
<1>2. UNCHANGED <<phase, metadata, activePath>>
  BY DEF SetDirty
<1>3. ActiveTab => ActiveTab'
  BY <1>1, <1>2 DEF ActiveTab
<1> QED BY <1>2, <1>3 DEF PaneShown, ShellShown

\* What the editor shows is a path.
LEMMA PaneOnPath ==
  ASSUME PaneShown, StoreTabs, pane # None
  PROVE  pane.path \in Path
<1>1. PICK i \in DOMAIN tabs : tabs[i].path = pane.path
  BY DEF PaneShown, ActiveTab
<1>2. tabs \in Seq(Tab)
  BY DEF StoreTabs, SessionOK, TabsOK, Snapshot
<1>3. tabs[i] \in Tab
  BY <1>2, LenProperties, ElementOfSeq
<1> QED BY <1>1, <1>3 DEF Tab

\* The pane and the saves of its file, through every step.
LEMMA PaneStaysShown ==
  ASSUME StoreTabs, PaneShown, Texts, EdNext
  PROVE  PaneShown'
<1>1. CASE Workspaces_Step \/ Tabs_Step \/ Close_Step
  BY <1>1, PaneFollowsShown DEF Workspaces_Step, Tabs_Step, Close_Step
<1>2. CASE Reload_Step
  BY <1>2 DEF Reload_Step, PaneShown
<1>3. CASE Loaded \/ NotText
  <2>1. /\ pane # None /\ pane'.path = pane.path /\ pane'.ws = pane.ws
        /\ UNCHANGED <<phase, metadata, tabs, activePath, saving>>
    BY <1>3 DEF Loaded, NotText, Pane, wsVars, tabVars
  <2>2. (ShellShown <=> ShellShown') /\ (ActiveTab <=> ActiveTab')
    BY <2>1 DEF ShellShown, ActiveTab
  <2> QED BY <2>1, <2>2 DEF PaneShown
<1>4. ASSUME NEW stack, InEditor, Changed(stack) PROVE PaneShown'
  <2>1. pane.path \in Path
    BY <1>4, PaneOnPath DEF InEditor
  <2> QED BY <1>4, <2>1, SetDirtyShown DEF Changed
<1>5. ASSUME NEW w, Save(w) PROVE PaneShown'
  <2>1. /\ saving' = saving \cup {Saving(w, pane.path, Value(models[pane.path]), TRUE)} /\ pane # None
        /\ UNCHANGED <<phase, metadata, tabs, activePath, pane>>
    BY <1>5 DEF Save, InEditor, wsVars, tabVars
  <2>2. \A s \in saving' : s \in saving \/ s.path = pane.path
    BY <2>1 DEF Saving
  <2> QED BY <2>1, <2>2 DEF PaneShown, ShellShown, ActiveTab
<1>6. ASSUME NEW s \in saving, Saved(s) PROVE PaneShown'
  BY <1>6, SetDirtyShown DEF Saved, Texts
<1>7. ASSUME NEW s \in saving, SaveFails(s) PROVE PaneShown'
  BY <1>7 DEF SaveFails, PaneShown, ShellShown, ActiveTab, wsVars, tabVars
<1>8. ASSUME NEW p \in Path, Outside(p) PROVE PaneShown'
  BY <1>8 DEF Outside, PaneShown, ShellShown, ActiveTab, tabVars
<1> QED BY <1>1, <1>2, <1>3, <1>4, <1>5, <1>6, <1>7, <1>8 DEF EdNext, Type, Undo

----------------------------------------------------------------------------
\* A write under way is made with the text it began with.
LEMMA WrittenText ==
  ASSUME Shapes, Texts, NEW s \in saving, disk' = [disk EXCEPT ![s.ws][s.path] = s.text],
         saving' \subseteq saving
  PROVE  Texts'
<1>1. \A w \in Workspace, q \in Path :
        disk'[w][q] = IF w = s.ws /\ q = s.path THEN s.text ELSE disk[w][q]
  BY WriteFile
<1> QED BY <1>1 DEF Texts, IsText

\* Texts stay texts, through every step.
LEMMA TextsStay ==
  ASSUME WsInv, StoreTabs, PaneShown, EdInv, Texts, EdNext
  PROVE  Texts'
<1>1. CASE Workspaces_Step \/ Tabs_Step \/ Close_Step
  <2>1. /\ disk' = disk
        /\ saving' = {Saving(s.ws, s.path, s.text, s.live /\ pane' # None /\ pane'.path = s.path) : s \in saving}
    BY <1>1 DEF Workspaces_Step, Tabs_Step, Close_Step, PaneFollows
  <2>2. \A s \in saving' : \E r \in saving : s.path = r.path /\ s.text = r.text
    BY <2>1 DEF Saving
  <2> QED BY <2>1, <2>2 DEF Texts, IsText
<1>2. CASE Reload_Step
  <2>1. saving' = {}
    BY <1>2 DEF Reload_Step
  <2>2. CASE UNCHANGED disk
    BY <2>1, <2>2 DEF Texts, IsText
  <2>3. ASSUME NEW s \in saving, disk' = [disk EXCEPT ![s.ws][s.path] = s.text] PROVE Texts'
    BY <2>1, <2>3, WrittenText DEF EdInv
  <2> QED BY <1>2, <2>2, <2>3 DEF Reload_Step
<1>3. CASE Loaded \/ NotText \/ Type \/ Undo
  BY <1>3 DEF Loaded, NotText, Type, Undo, Changed, Texts, IsText
<1>4. ASSUME NEW w, Save(w) PROVE Texts'
  <2>1. /\ saving' = saving \cup {Saving(w, pane.path, Value(models[pane.path]), TRUE)} /\ disk' = disk
        /\ pane # None
    BY <1>4 DEF Save, InEditor
  <2>2. pane.path \in Path
    BY <2>1, PaneOnPath
  <2> QED BY <2>1, <2>2 DEF Texts, IsText, Saving, Value, Text
<1>5. ASSUME NEW s \in saving, Saved(s) PROVE Texts'
  BY <1>5, WrittenText DEF Saved, EdInv
<1>6. ASSUME NEW s \in saving, SaveFails(s) PROVE Texts'
  BY <1>6 DEF SaveFails, Texts, IsText
<1>7. ASSUME NEW p \in Path, Outside(p) PROVE Texts'
  <2>1. PICK t \in {Text(metadata, moves + 1), None} \cup {disk[metadata][q] : q \in Path \ {p}} :
          disk' = [disk EXCEPT ![metadata][p] = t]
    BY <1>7 DEF Outside
  <2>2. saving' = saving /\ metadata \in Workspace
    BY <1>7 DEF Outside, WsInv, Ids, ShellShown
  <2>3. \A w \in Workspace, q \in Path : disk'[w][q] = IF w = metadata /\ q = p THEN t ELSE disk[w][q]
    BY <2>1, WriteFile DEF EdInv
  <2>4. t # None => IsText(t)
    <3>1. IsText(Text(metadata, moves + 1))
      BY DEF IsText, Text
    <3>2. \A q \in Path : disk[metadata][q] # None => IsText(disk[metadata][q])
      BY <2>2 DEF Texts
    <3> QED BY <2>1, <3>1, <3>2
  <2> QED BY <2>2, <2>3, <2>4 DEF Texts, IsText
<1> QED BY <1>1, <1>2, <1>3, <1>4, <1>5, <1>6, <1>7 DEF EdNext

----------------------------------------------------------------------------
\* What the editor shows has a model of the workspace shown, and that is there.
LEMMA PaneModelPlaced ==
  ASSUME WsInv, Screens, PaneShown, PaneOwn, InEditor, pane.path \in Path, pane.path \notin shared
  PROVE  /\ models[pane.path].of = metadata
         /\ metadata \in Workspace /\ metadata \notin unused \cup {creating}
  BY DEF WsInv, Ids, Screens, PaneShown, PaneOwn, InEditor, ShellShown

\* No step of the workspaces hands out an id that a model is of.
LEMMA IdsStayPlaced ==
  ASSUME WsInv, NEW w \in Workspace, w \notin unused \cup {creating}, WorkspaceStep
  PROVE  w \notin unused' \cup {creating'}
<1>0. None \notin Workspace
  BY WorkspacesAssumption DEF WorkspacesAssumption
<1>1. ASSUME NEW x \in Workspace, Create(x) PROVE w \notin unused' \cup {creating'}
  BY <1>1 DEF Create
<1>2. CASE Created \/ CreateFails
  BY <1>0, <1>2 DEF Created, CreateFails, dbVars
<1>3. CASE \E x \in Workspace : Open(x) \/ Delete(x)
  BY <1>3 DEF Open, Delete, dbVars, callVars
<1>4. CASE Restore \/ OpenListed \/ OpenReady \/ OpenHydrate \/ OpenFails \/ GoHome \/ Flush
  BY <1>4 DEF Restore, OpenListed, OpenReady, OpenHydrate, OpenFails, GoHome, Flush, dbVars, callVars
<1> QED BY <1>1, <1>2, <1>3, <1>4 DEF WorkspaceStep

\* The pane that follows the stores shows no model it did not show.
LEMMA PaneFollowsModels ==
  ASSUME PaneFollows, models' = models
  PROVE  \A p : HasModel(p)' => HasModel(p)
<1>1. pane' = None \/ pane' = pane \/ pane'.st = "loading"
  BY DEF PaneFollows, Pane
<1> QED BY <1>1 DEF HasModel, InEditor

\* A file that is no text, a save that begins or fails, and what others write to a
\* file change nothing the page knows of.
storeVars == <<dbVars, phase, metadata, tabVars, timer, callVars, tabsOf, crossed, mixed>>

QuietStep ==
  \/ NotText
  \/ \E w \in Workspace : Save(w)
  \/ \E s \in saving : SaveFails(s)
  \/ \E p \in Path : Outside(p)

LEMMA QuietSteps ==
  ASSUME QuietStep
  PROVE  /\ UNCHANGED <<storeVars, models, seen, unmarked>> /\ shared \subseteq shared'
         /\ \A p : HasModel(p)' => HasModel(p)
<1>1. CASE NotText
  <2>1. UNCHANGED <<storeVars, models, seen, unmarked, shared>> /\ pane'.st = "other"
    BY <1>1 DEF NotText, Pane, storeVars, wsVars
  <2> QED BY <2>1 DEF HasModel, InEditor
<1>2. ASSUME NEW w \in Workspace, Save(w)
      PROVE  UNCHANGED <<storeVars, models, seen, unmarked, pane>> /\ shared \subseteq shared'
  BY <1>2 DEF Save, storeVars, wsVars
<1>3. ASSUME NEW s \in saving, SaveFails(s)
      PROVE  UNCHANGED <<storeVars, models, seen, unmarked, pane>> /\ shared \subseteq shared'
  BY <1>3 DEF SaveFails, storeVars, wsVars
<1>4. ASSUME NEW p \in Path, Outside(p)
      PROVE  UNCHANGED <<storeVars, models, seen, unmarked, pane>> /\ shared \subseteq shared'
  BY <1>4 DEF Outside, storeVars
<1> QED BY <1>1, <1>2, <1>3, <1>4 DEF QuietStep, HasModel, InEditor

\* A model that no other workspace reused is of a workspace there is.
LEMMA ModelsStayPlaced ==
  ASSUME WsInv, EdInv, Screens, StoreTabs, PaneShown, ModelsPlaced, EdNext
  PROVE  ModelsPlaced'
<1>1. CASE Workspaces_Step
  <2>1. (\A p : HasModel(p)' => HasModel(p)) /\ UNCHANGED <<models, shared>>
    BY <1>1, PaneFollowsModels DEF Workspaces_Step
  <2> QED BY <1>1, <2>1, IdsStayPlaced DEF Workspaces_Step, ModelsPlaced
<1>2. CASE Tabs_Step \/ Close_Step
  <2>1. (\A p : HasModel(p)' => HasModel(p)) /\ UNCHANGED <<unused, creating, models, shared>>
    BY <1>2, PaneFollowsModels
    DEF Tabs_Step, Close_Step, OpenFile, CloseTab, CloseAll, SetActive, PinTab, StoreChange, dbVars, callVars
  <2> QED BY <2>1 DEF ModelsPlaced
<1>3. CASE Reload_Step
  BY <1>3 DEF Reload_Step, ModelsPlaced, HasModel, InEditor
<1>4. CASE Loaded
  <2> DEFINE q == pane.path
  <2>1. /\ pane # None /\ UNCHANGED <<unused, creating, disk>> /\ q \in Path /\ pane'.path = q
        /\ disk[pane.ws][q] # None
        /\ \A p : p \notin shared' => p \notin shared
    BY <1>4, PaneOnPath DEF Loaded, wsVars, dbVars, callVars, Pane
  <2>2. CASE models[q] = None
    <3>1. /\ \A p \in Path : p # q => models'[p] = models[p]
          /\ models'[q].of = disk[pane.ws][q].of /\ shared' = shared
      BY <1>4, <2>1, <2>2 DEF Loaded, Model, EdInv, Shapes
    <3>2. pane.ws \in Workspace /\ pane.ws \notin unused \cup {creating}
      BY <2>1 DEF Screens, PaneShown, ShellShown, EdInv, PaneOwn
    <3>3. q \notin shared => disk[pane.ws][q].of = pane.ws
      BY <2>1, <3>2 DEF EdInv, OwnText
    <3>4. \A p \in Path : p # q /\ HasModel(p)' => HasModel(p)
      BY <2>1, <3>1 DEF HasModel
    <3> QED BY <2>1, <3>1, <3>2, <3>3, <3>4 DEF ModelsPlaced
  <2>3. CASE models[q] # None
    <3>1. models' = models /\ \A p \in Path : HasModel(p)' => HasModel(p)
      BY <1>4, <2>1, <2>3 DEF Loaded, HasModel
    <3> QED BY <2>1, <3>1 DEF ModelsPlaced
  <2> QED BY <2>2, <2>3
<1>5. ASSUME NEW stack, InEditor, Changed(stack) PROVE ModelsPlaced'
  <2>1. /\ pane.path \in Path /\ UNCHANGED <<unused, creating, shared, pane>>
        /\ \A p \in Path : p # pane.path => models'[p] = models[p]
        /\ models'[pane.path].of = models[pane.path].of
    BY <1>5, PaneOnPath DEF InEditor, Changed, Model, SetDirty, dbVars, callVars, EdInv, Shapes
  <2>2. pane.path \notin shared => /\ models[pane.path].of = metadata
                                  /\ metadata \in Workspace /\ metadata \notin unused \cup {creating}
    BY <1>5, <2>1, PaneModelPlaced DEF EdInv
  <2>3. \A p \in Path : p # pane.path /\ HasModel(p)' => HasModel(p)
    BY <2>1 DEF HasModel
  <2> QED BY <2>1, <2>2, <2>3 DEF ModelsPlaced
<1>6. ASSUME NEW s \in saving, Saved(s) PROVE ModelsPlaced'
  <2>1. UNCHANGED <<unused, creating, shared, pane>>
    BY <1>6 DEF Saved, SetDirty, dbVars, callVars
  <2>2. CASE s.live /\ InEditor
    <3>1. s.path = pane.path /\ pane.path \in Path
      BY <2>2, PaneOnPath DEF PaneShown, InEditor
    <3>2. /\ \A p \in Path : p # pane.path => models'[p] = models[p]
          /\ models'[pane.path].of = models[pane.path].of
      BY <1>6, <2>2, <3>1 DEF Saved, Model, EdInv, Shapes
    <3>3. pane.path \notin shared => /\ models[pane.path].of = metadata
                                    /\ metadata \in Workspace /\ metadata \notin unused \cup {creating}
      BY <2>2, <3>1, PaneModelPlaced DEF EdInv
    <3>4. \A p \in Path : p # pane.path /\ HasModel(p)' => HasModel(p)
      BY <2>1, <3>2 DEF HasModel
    <3> QED BY <2>1, <3>2, <3>3, <3>4 DEF ModelsPlaced
  <2>3. CASE ~(s.live /\ InEditor)
    <3>1. models' = models /\ \A p \in Path : HasModel(p)' => HasModel(p)
      BY <1>6, <2>1, <2>3 DEF Saved, HasModel, InEditor
    <3> QED BY <2>1, <3>1 DEF ModelsPlaced
  <2> QED BY <2>2, <2>3
<1>7. CASE QuietStep
  BY <1>7, QuietSteps DEF ModelsPlaced, storeVars, dbVars, callVars
<1> QED BY <1>1, <1>2, <1>3, <1>4, <1>5, <1>6, <1>7 DEF EdNext, QuietStep, Type, Undo

----------------------------------------------------------------------------
\* What the file of an untold path is known to hold.
LEMMA SavedStaysKnown ==
  ASSUME WsInv, EdInv, StoreTabs, PaneShown, Texts, ModelsPlaced, SavedKnown, EdNext
  PROVE  SavedKnown'
<1>1. ASSUME UNCHANGED <<models, seen>>, \A p \in Path : HasModel(p)' => HasModel(p),
             \A p \in Path : Told(p)' => Told(p)
      PROVE  SavedKnown'
  BY <1>1 DEF SavedKnown
<1>2. CASE Workspaces_Step \/ Tabs_Step \/ Close_Step
  <2>1. UNCHANGED <<models, seen>> /\ PaneFollows /\ \A p \in Path : Told(p)' => Told(p)
    BY <1>2 DEF Workspaces_Step, Tabs_Step, Close_Step, Told
  <2> QED BY <1>1, <2>1, PaneFollowsModels
<1>3. CASE Reload_Step
  BY <1>3 DEF Reload_Step, SavedKnown, HasModel, InEditor
<1>4. CASE QuietStep
  BY <1>1, <1>4, QuietSteps DEF Told
<1>5. CASE Loaded
  <2> DEFINE q == pane.path
             t == disk[pane.ws][q]
  <2>1. /\ pane # None /\ t # None /\ q \in Path /\ pane'.path = q
        /\ \A p : Told(p)' => Told(p)
    BY <1>5, PaneOnPath DEF Loaded, Pane, Told
  <2>2. CASE models[q] = None
    <3>1. /\ \A p \in Path : p # q => models'[p] = models[p] /\ seen'[p] = seen[p]
          /\ models'[q].of = t.of /\ models'[q].saved = t.edit /\ seen'[q] = t
      BY <1>5, <2>1, <2>2 DEF Loaded, Model, EdInv, Shapes
    <3>2. pane.ws \in Workspace /\ t = Text(t.of, t.edit)
      BY <2>1 DEF EdInv, PaneOwn, Texts, IsText
    <3>3. \A p \in Path : p # q /\ HasModel(p)' => HasModel(p)
      BY <2>1, <3>1 DEF HasModel
    <3> QED BY <2>1, <3>1, <3>2, <3>3 DEF SavedKnown
  <2>3. CASE models[q] # None
    <3>1. UNCHANGED <<models, seen>> /\ \A p \in Path : HasModel(p)' => HasModel(p)
      BY <1>5, <2>1, <2>3 DEF Loaded, HasModel
    <3> QED BY <1>1, <2>1, <3>1
  <2> QED BY <2>2, <2>3
<1>6. ASSUME NEW stack, InEditor, Changed(stack) PROVE SavedKnown'
  <2>1. /\ UNCHANGED <<seen, pane>> /\ \A p : Told(p)' => Told(p)
        /\ \A p \in Path : p # pane.path => models'[p] = models[p]
        /\ models'[pane.path].of = models[pane.path].of /\ models'[pane.path].saved = models[pane.path].saved
    BY <1>6, PaneOnPath DEF InEditor, Changed, Model, Told, EdInv, Shapes
  <2>2. \A p \in Path : HasModel(p)' => HasModel(p)
    BY <1>6, <2>1 DEF HasModel
  <2> QED BY <2>1, <2>2 DEF SavedKnown
<1>7. ASSUME NEW s \in saving, Saved(s) PROVE SavedKnown'
  <2> DEFINE q == s.path
  <2>1. /\ q \in Path /\ UNCHANGED <<pane, shared>>
        /\ \A p \in Path : p # q => models'[p] = models[p] /\ seen'[p] = seen[p]
        /\ \A p \in Path : p # q /\ Told(p)' => Told(p)
        /\ seen'[q] = s.text
    BY <1>7 DEF Saved, Texts, Told, EdInv, Shapes
  <2>2. ASSUME NEW p \in Path, p # q, HasModel(p)', Told(p)'
        PROVE  Text(models'[p].of, models'[p].saved) = seen'[p]
    <3>1. HasModel(p) /\ Told(p) /\ models'[p] = models[p]
      BY <2>1, <2>2 DEF HasModel, InEditor
    <3> QED BY <2>1, <2>2, <3>1 DEF SavedKnown
  <2>3. ASSUME Told(q)' PROVE Text(models'[q].of, models'[q].saved) = seen'[q]
    <3>1. /\ models[q] # None /\ Value(models[q]) = s.text
          /\ models' = [models EXCEPT ![q] = Model(@.of, @.stack, Last(@.stack))]
      BY <1>7, <2>3 DEF Saved, Told
    <3>2. models'[q].of = models[q].of /\ models'[q].saved = Last(models[q].stack)
      BY <2>1, <3>1 DEF Model, EdInv, Shapes
    <3>3. s.text = Text(models[q].of, Last(models[q].stack))
      BY <3>1 DEF Value
    <3> QED BY <2>1, <3>2, <3>3
  <2> QED BY <2>2, <2>3 DEF SavedKnown
<1> QED BY <1>2, <1>3, <1>4, <1>5, <1>6, <1>7 DEF EdNext, QuietStep, Type, Undo
----------------------------------------------------------------------------
\* A step that leaves tabs, sessions and the workspace shown alone keeps a mark,
\* when what is shown is settled only if it was and no session is read anew.
LEMMA MarkStays ==
  ASSUME NEW p, MarkKept(p), models'[p].of = models[p].of,
         UNCHANGED <<sessions, tabs, tabsOf, metadata, mixed>>,
         Settled' => Settled, opening' = opening \/ ~ReadingSession'
  PROVE  MarkKept(p)'
<1>1. MarkStored(p)' <=> MarkStored(p)
  BY DEF MarkStored, MarkedIn
<1>2. MarkedIn(tabs, p)' <=> MarkedIn(tabs, p)
  BY DEF MarkedIn
<1>3. ReadingSession' => opening' = opening /\ ReadingSession
  BY DEF ReadingSession
<1> QED BY <1>1, <1>2, <1>3 DEF MarkKept

\* A step that changes the tabs keeps a mark when it keeps the tab's.
LEMMA MarkKeptWith ==
  ASSUME NEW p, MarkKept(p), models'[p].of = models[p].of,
         UNCHANGED <<sessions, metadata, mixed, opening, creating, phase, tabsOf>>, timer' = "due",
         MarkedIn(tabs, p) => MarkedIn(tabs', p)
  PROVE  MarkKept(p)'
<1>1. MarkStored(p)' <=> MarkStored(p)
  BY DEF MarkStored, MarkedIn
<1>2. MarkedIn(tabs', p) <=> MarkedIn(tabs, p)'
  BY DEF MarkedIn
<1>3. Settled' => Settled
  BY DEF Settled, ReadingSession
<1> QED BY <1>1, <1>2, <1>3 DEF MarkKept, ReadingSession

\* Leaving a workspace that is settled, or is left with nothing to store.
LEMMA LeftStored ==
  ASSUME NEW p, MarkKept(p), metadata \notin mixed, Settled
  PROVE  MarkStored(p)
  BY DEF MarkKept

\* A mark through each await of openWorkspace.
LEMMA OpeningKeepsMark ==
  ASSUME WsInv, Screens, NEW p, MarkKept(p), models' = models, models[p].of \in Workspace,
         models[p].of = metadata /\ metadata' # metadata => timer = "none" /\ metadata \notin mixed,
         \/ \E w \in Workspace : Open(w)
         \/ Restore \/ OpenListed \/ OpenReady \/ OpenHydrate \/ OpenFails
  PROVE  MarkKept(p)'
<1>0. None \notin Workspace
  BY WorkspacesAssumption DEF WorkspacesAssumption
<1>1. ASSUME NEW x \in Workspace, Open(x) PROVE MarkKept(p)'
  <2>1. /\ UNCHANGED <<sessions, tabs, tabsOf, metadata, mixed>>
        /\ phase' = "loading" /\ ~ReadingSession'
    BY <1>1 DEF Open, StartOpening, Call, ReadingSession, dbVars, tabVars
  <2> QED BY <2>1, MarkStays DEF Settled
<1>2. CASE Restore
  <2>1. /\ UNCHANGED <<sessions, tabs, tabsOf, metadata, mixed, timer, creating>>
        /\ \/ UNCHANGED <<phase, opening>>
           \/ phase' = "loading" /\ ~ReadingSession'
    BY <1>2 DEF Restore, StartOpening, Call, ReadingSession, dbVars, tabVars
  <2> QED BY <2>1, MarkStays DEF Settled, ReadingSession
<1>3. CASE OpenListed
  <2>1. /\ UNCHANGED <<sessions, tabs, tabsOf, metadata, mixed, timer, phase, creating>> /\ ~ReadingSession'
    BY <1>3 DEF OpenListed, Call, ReadingSession, dbVars, tabVars
  <2> QED BY <2>1, MarkStays DEF Settled
<1>4. CASE OpenReady
  <2>1. /\ opening.pc = "fs" /\ opening.id \in Workspace
        /\ UNCHANGED <<sessions, tabs, tabsOf, mixed>>
        /\ metadata' = opening.id /\ opening'.id = opening.id /\ opening'.read = sessions[opening.id]
    BY <1>4 DEF OpenReady, Call, tabVars, WsInv, Ids
  <2>2. metadata' # metadata
    BY <2>1 DEF Screens
  <2>3. MarkStored(p)
    <3>1. CASE models[p].of = metadata
      <4>1. metadata # None /\ phase = "ready"
        BY <1>0, <2>1, <3>1 DEF Screens, Phases
      <4> QED BY <2>2, <3>1, <4>1, LeftStored DEF Settled
    <3>2. CASE models[p].of # metadata
      BY <3>2 DEF MarkKept
    <3> QED BY <3>1, <3>2
  <2>4. MarkStored(p)'
    BY <2>1, <2>3 DEF MarkStored, MarkedIn
  <2>5. opening'.id = models[p].of => opening'.read # None /\ MarkedIn(opening'.read.tabs, p)
    BY <2>1, <2>3 DEF MarkStored
  <2>6. models[p].of = tabsOf' => MarkedIn(tabs', p)
    BY <2>1 DEF MarkKept
  <2> QED BY <2>4, <2>5, <2>6 DEF MarkKept
<1>5. CASE OpenHydrate
  <2>1. /\ UNCHANGED <<sessions, metadata, phase, mixed, creating>> /\ ~ReadingSession' /\ timer' = "due"
        /\ ReadingSession /\ tabsOf' = opening.id
        /\ opening.read # None => tabs' = opening.read.tabs
    BY <1>5 DEF OpenHydrate, Hydrate, NoCall, Call, ReadingSession, dbVars
  <2>2. ~Settled'
    BY <2>1 DEF Settled, Screens, ReadingSession
  <2>3. models[p].of = tabsOf' => MarkedIn(tabs', p)
    BY <2>1 DEF MarkKept
  <2>4. MarkStored(p)' <=> MarkStored(p)
    BY <2>1 DEF MarkStored, MarkedIn
  <2> QED BY <2>1, <2>2, <2>3, <2>4 DEF MarkKept
<1>6. CASE OpenFails
  <2>1. /\ UNCHANGED <<sessions, tabs, tabsOf, metadata, mixed, creating>>
        /\ opening.pc # "none" /\ phase' = "error" /\ ~ReadingSession'
    BY <1>6 DEF OpenFails, NoCall, Call, ReadingSession, dbVars, tabVars
  <2>2. metadata # None /\ Settled' => Settled
    BY <2>1 DEF Settled, Screens, Phases, ShellShown
  <2>3. CASE metadata = None
    <3>1. models[p].of # metadata'
      BY <1>0, <2>1, <2>3
    <3>2. (MarkStored(p)' <=> MarkStored(p)) /\ (MarkedIn(tabs, p)' <=> MarkedIn(tabs, p))
      BY <2>1 DEF MarkStored, MarkedIn
    <3> QED BY <2>1, <3>1, <3>2 DEF MarkKept
  <2> QED BY <2>1, <2>2, <2>3, MarkStays
<1> QED BY <1>1, <1>2, <1>3, <1>4, <1>5, <1>6

\* And through creating, deleting and leaving workspaces.
LEMMA ProjectsKeepMark ==
  ASSUME WsInv, Screens, NEW p, MarkKept(p), models' = models,
         models[p].of \in Workspace, models[p].of \notin unused \cup {creating},
         models[p].of = metadata /\ metadata' # metadata => timer = "none" /\ metadata \notin mixed, ~Deleted(models[p].of),
         \/ \E w \in Workspace : Create(w) \/ Delete(w)
         \/ Created \/ CreateFails \/ GoHome
  PROVE  MarkKept(p)'
<1>0. None \notin Workspace
  BY WorkspacesAssumption DEF WorkspacesAssumption
<1>1. ASSUME NEW x \in Workspace, Create(x) PROVE MarkKept(p)'
  <2>1. /\ UNCHANGED <<sessions, tabs, tabsOf, metadata, mixed, opening, phase, timer>>
        /\ phase = "none"
    BY <1>1 DEF Create, Welcome, tabVars
  <2> QED BY <2>1, MarkStays DEF Settled, ReadingSession
<1>2. ASSUME NEW x \in Workspace, Delete(x) PROVE MarkKept(p)'
  <2>1. /\ UNCHANGED <<tabs, tabsOf, metadata, mixed, opening>> /\ phase = "none"
        /\ sessions' = [sessions EXCEPT ![x] = None] /\ DOMAIN sessions = Workspace
    BY <1>2 DEF Delete, Welcome, tabVars, callVars, WsInv, Ids
  <2>2. models[p].of # metadata
    BY <1>0, <2>1 DEF Screens
  <2>3. MarkStored(p)
    BY <2>2 DEF MarkKept
  <2>4. sessions'[models[p].of] = sessions[models[p].of]
    BY <2>1, <2>3 DEF MarkStored, Deleted
  <2>5. MarkStored(p)' /\ (MarkedIn(tabs, p)' <=> MarkedIn(tabs, p))
    BY <2>1, <2>3, <2>4 DEF MarkStored, MarkedIn
  <2> QED BY <2>1, <2>2, <2>5 DEF MarkKept, ReadingSession
<1>3. CASE Created
  <2>1. /\ creating # None /\ metadata' = creating /\ tabsOf' = creating
        /\ UNCHANGED <<sessions, opening, mixed>>
    BY <1>3 DEF Created, Hydrate
  <2>2. metadata' # metadata
    BY <2>1 DEF Screens
  <2>3. MarkStored(p)
    <3>1. CASE models[p].of = metadata
      <4>1. phase \in {"ready", "error"}
        BY <1>0, <3>1 DEF Screens, Phases
      <4> QED BY <2>1, <2>2, <3>1, <4>1, LeftStored DEF Settled
    <3>2. CASE models[p].of # metadata
      BY <3>2 DEF MarkKept
    <3> QED BY <3>1, <3>2
  <2>4. MarkStored(p)'
    BY <2>1, <2>3 DEF MarkStored, MarkedIn
  <2>5. models[p].of # tabsOf'
    BY <2>1
  <2> QED BY <2>1, <2>4, <2>5 DEF MarkKept, ReadingSession
<1>4. CASE CreateFails
  <2>1. UNCHANGED <<sessions, tabs, tabsOf, metadata, mixed, opening, phase, timer>> /\ creating' = None
    BY <1>4 DEF CreateFails, dbVars, tabVars
  <2> QED BY <2>1, MarkStays DEF Settled, ReadingSession
<1>5. CASE GoHome
  <2>1. /\ UNCHANGED <<sessions, tabs, tabsOf, mixed, opening>> /\ metadata' = None
        /\ phase = "ready" /\ metadata # None
    BY <1>5 DEF GoHome, ShellShown, dbVars, tabVars, callVars
  <2>2. MarkStored(p)
    <3>1. CASE models[p].of = metadata
      BY <2>1, <3>1, LeftStored DEF Settled
    <3>2. CASE models[p].of # metadata
      BY <3>2 DEF MarkKept
    <3> QED BY <3>1, <3>2
  <2>3. MarkStored(p)' /\ (MarkedIn(tabs, p)' <=> MarkedIn(tabs, p))
    BY <2>1, <2>2 DEF MarkStored, MarkedIn
  <2> QED BY <2>1, <2>3 DEF MarkKept, ReadingSession
<1> QED BY <1>1, <1>2, <1>3, <1>4, <1>5

\* The autosave stores the mark with the tabs of the workspace shown.
LEMMA FlushKeepsMark ==
  ASSUME WsInv, StoreTabs, Screens, NEW p, MarkKept(p), models' = models, models[p].of \in Workspace, Flush
  PROVE  MarkKept(p)'
<1>0. None \notin Workspace /\ None \notin SavedTabs
  BY WorkspacesAssumption DEF WorkspacesAssumption
<1>1. /\ SaveSession \/ (ShellShown /\ timer' = "lost" /\ UNCHANGED <<sessions, mixed>>)
      /\ UNCHANGED <<tabs, activePath, tabsOf, metadata, phase, opening, creating>>
  BY DEF Flush, tabVars, callVars
<1>4. CASE ShellShown /\ timer' = "lost" /\ UNCHANGED <<sessions, mixed>>
  <2>1. Settled' => Settled
    BY <1>1, <1>4 DEF Settled, ReadingSession, ShellShown
  <2> QED BY <1>1, <1>4, <2>1, MarkStays
<1>2. CASE ShellShown /\ SaveSession
  <2>1. /\ metadata \in Workspace /\ DOMAIN sessions = Workspace
        /\ sessions' = [sessions EXCEPT ![metadata] = Snapshot]
        /\ metadata \notin mixed' => ~crossed /\ ~ReadingSession
    BY <1>1, <1>2 DEF SaveSession, WsInv, Ids, ShellShown
  <2>2. models[p].of # metadata => (MarkStored(p)' <=> MarkStored(p))
    BY <2>1 DEF MarkStored, MarkedIn
  <2>3. ASSUME models[p].of = metadata, metadata \notin mixed' PROVE MarkStored(p)'
    <3>1. tabsOf = metadata
      BY <1>2, <2>1, <2>3 DEF WsInv, TabsStayHome
    <3>2. MarkedIn(tabs, p)
      BY <2>3, <3>1 DEF MarkKept
    <3>3. sessions'[metadata] = Snapshot /\ Snapshot # None /\ Snapshot.tabs = tabs
      BY <1>0, <2>1 DEF StoreTabs, SessionOK, Snapshot
    <3> QED BY <2>3, <3>2, <3>3 DEF MarkStored, MarkedIn
  <2>4. MarkedIn(tabs, p)' <=> MarkedIn(tabs, p)
    BY <1>1 DEF MarkedIn
  <2> QED BY <1>1, <2>2, <2>3, <2>4 DEF MarkKept, ReadingSession
<1>3. CASE ~ShellShown /\ SaveSession
  <2>1. UNCHANGED <<sessions, mixed>>
    BY <1>1, <1>3 DEF SaveSession
  <2>2. CASE metadata = None
    <3>1. models[p].of # metadata'
      BY <1>0, <1>1, <2>2
    <3>2. (MarkStored(p)' <=> MarkStored(p)) /\ (MarkedIn(tabs, p)' <=> MarkedIn(tabs, p))
      BY <1>1, <2>1 DEF MarkStored, MarkedIn
    <3> QED BY <1>1, <3>1, <3>2 DEF MarkKept, ReadingSession
  <2>3. CASE metadata # None
    <3>1. phase = "error"
      BY <1>3, <2>3 DEF Screens, Phases, ShellShown
    <3> QED BY <1>1, <2>1, <3>1, MarkStays DEF Settled, ReadingSession
  <2> QED BY <2>2, <2>3
<1> QED BY <1>1, <1>2, <1>3, <1>4
----------------------------------------------------------------------------
\* The steps of the stores keep the marks of the models there are.
LEMMA StoresKeepMarks ==
  ASSUME WsInv, TellInv, Workspaces_Step \/ Tabs_Step \/ Close_Step
  PROVE  MarksKept'
<1>0. UNCHANGED <<models, shared>> /\ unmarked \subseteq unmarked'
  BY DEF Workspaces_Step, Tabs_Step, Close_Step
<1> SUFFICES ASSUME NEW p \in Modified, p \notin unmarked', p \notin shared
             PROVE  MarkKept(p)'
  BY <1>0 DEF MarksKept, Modified, Told
<1>1. p \in Path /\ MarkKept(p) /\ models[p].of \in Workspace /\ models[p].of \notin unused \cup {creating}
  BY <1>0 DEF TellInv, MarksKept, Told, Modified, ModelsPlaced, HasModel
<1>2. CASE Workspaces_Step
  <2>1. /\ models[p].of = metadata /\ metadata' # metadata => timer = "none" /\ metadata \notin mixed
        /\ ~Deleted(models[p].of)
    BY <1>2 DEF Workspaces_Step
  <2> QED BY <1>0, <1>1, <1>2, <2>1, OpeningKeepsMark, ProjectsKeepMark, FlushKeepsMark
          DEF TellInv, Workspaces_Step, WorkspaceStep
<1>3. CASE Tabs_Step \/ Close_Step
  <2>1. TabsOK(tabs)
    BY DEF TellInv, StoreTabs, SessionOK, Snapshot
  <2>2. StoreChange
    BY <1>3 DEF Tabs_Step, Close_Step, OpenFile, CloseTab, CloseAll, SetActive, PinTab
  <2>3. UNCHANGED <<sessions, metadata, mixed, opening, creating, phase, tabsOf>> /\ timer' = "due"
    BY <2>2 DEF StoreChange, dbVars, callVars
  <2>4. MarkedIn(tabs, p) => MarkedIn(tabs', p)
    <3>1. CASE Tabs_Step
      BY <2>1, <3>1, TabStepMarks DEF Tabs_Step
    <3>2. CASE Close_Step
      BY <2>1, <3>2, CloseMarks DEF Close_Step
    <3> QED BY <1>3, <3>1, <3>2
  <2> QED BY <1>0, <1>1, <2>3, <2>4, MarkKeptWith
<1> QED BY <1>2, <1>3

\* An edit marks the tab it is in.
LEMMA ChangedKeepsMarks ==
  ASSUME WsInv, EdInv, TellInv, NEW stack, InEditor, Changed(stack)
  PROVE  MarksKept'
<1> DEFINE q == pane.path
           dirty == Last(stack) # models[q].saved
<1>1. /\ q \in Path /\ SetDirty(q, dirty, dirty) /\ UNCHANGED <<pane, shared>>
      /\ models' = [models EXCEPT ![q] = Model(models[q].of, stack, models[q].saved)]
      /\ unmarked' = IF ReadingSession THEN unmarked \cup {q} ELSE unmarked
      /\ TabsOK(tabs)
  BY PaneOnPath DEF TellInv, InEditor, Changed, StoreTabs, SessionOK, Snapshot
<1>2. /\ \A p \in Path : p # q => models'[p] = models[p]
      /\ models'[q].of = models[q].of /\ models'[q].stack = stack /\ models'[q].saved = models[q].saved
  BY <1>1 DEF Model, EdInv, Shapes
<1>3. UNCHANGED <<sessions, metadata, mixed, opening, creating, phase, tabsOf>> /\ timer' = "due"
  BY <1>1 DEF SetDirty, dbVars, callVars
<1>4. /\ \A p : p # q /\ MarkedIn(tabs, p) => MarkedIn(tabs', p)
      /\ dirty /\ IsOpen(q) => MarkedIn(tabs', q)
  <2> HIDE DEF q, dirty
  <2>1. dirty \in BOOLEAN
    BY DEF dirty
  <2> QED BY <1>1, <2>1, SetDirtyMarks
<1> SUFFICES ASSUME NEW p \in Path, p \in Modified', Told(p)' PROVE MarkKept(p)'
  BY DEF MarksKept, Modified
<1>5. CASE p # q
  <2>1. p \in Modified /\ Told(p)
    BY <1>1, <1>2, <1>5 DEF Modified, Told
  <2>2. MarkKept(p)
    BY <2>1 DEF TellInv, MarksKept
  <2> QED BY <1>2, <1>3, <1>4, <1>5, <2>2, MarkKeptWith
<1>6. CASE p = q
  <2>1. dirty /\ ~ReadingSession /\ p \notin shared
    BY <1>1, <1>2, <1>6 DEF Modified, Told
  <2>2. models[q].of = metadata /\ IsOpen(q) /\ phase = "ready"
    BY <1>1, <1>6, <2>1 DEF EdInv, PaneOwn, TellInv, PaneShown, ShellShown, ActiveTab, IsOpen, InEditor
  <2>3. MarkedIn(tabs, p)'
    BY <1>4, <1>6, <2>1, <2>2 DEF MarkedIn
  <2>4. ~Settled' /\ ~ReadingSession' /\ models'[p].of = metadata'
    BY <1>2, <1>3, <1>6, <2>1, <2>2 DEF Settled, ReadingSession
  <2> QED BY <2>3, <2>4 DEF MarkKept
<1> QED BY <1>5, <1>6

\* A save that is done unmarks one path: its model is saved, or history names it.
LEMMA SavedKeepsMarks ==
  ASSUME EdInv, TellInv, NEW s \in saving, Saved(s)
  PROVE  MarksKept'
<1> DEFINE q == s.path
<1>1. /\ q \in Path /\ SetDirty(q, FALSE, FALSE) /\ shared' = shared /\ TabsOK(tabs)
      /\ \A p \in Path : p # q => models'[p] = models[p]
      /\ \A p \in Path : p # q /\ Told(p)' => Told(p)
  BY DEF TellInv, Texts, Saved, Told, EdInv, Shapes, StoreTabs, SessionOK, Snapshot
<1>2. UNCHANGED <<sessions, metadata, mixed, opening, creating, phase, tabsOf>> /\ timer' = "due"
  BY <1>1 DEF SetDirty, dbVars, callVars
<1>3. \A p : p # q /\ MarkedIn(tabs, p) => MarkedIn(tabs', p)
  BY <1>1, SetDirtyMarks
<1>4. Told(q)' => q \notin Modified'
  <2> SUFFICES ASSUME Told(q)' PROVE q \notin Modified'
    OBVIOUS
  <2>1. models' = [models EXCEPT ![q] = Model(@.of, @.stack, Last(@.stack))]
    BY DEF Saved, Told
  <2>2. Last(models'[q].stack) = models'[q].saved
    BY <1>1, <2>1 DEF Model, EdInv, Shapes
  <2> QED BY <2>2 DEF Modified
<1> SUFFICES ASSUME NEW p \in Path, p \in Modified', Told(p)' PROVE MarkKept(p)'
  BY DEF MarksKept, Modified
<1>5. p # q /\ p \in Modified /\ Told(p)
  BY <1>1, <1>4 DEF Modified
<1>6. MarkKept(p)
  BY <1>5 DEF TellInv, MarksKept
<1> QED BY <1>1, <1>2, <1>3, <1>5, <1>6, MarkKeptWith

\* A model just made has nothing to save.
LEMMA LoadedKeepsMarks ==
  ASSUME EdInv, TellInv, Loaded
  PROVE  MarksKept'
<1>1. /\ pane # None /\ UNCHANGED wsVars /\ \A p : Told(p)' => Told(p)
  BY DEF Loaded, Told
<1>2. Modified' \subseteq Modified /\ \A p \in Modified' : models'[p] = models[p]
  <2>1. CASE models[pane.path] = None
    <3> DEFINE q == pane.path
               t == disk[pane.ws][q]
    <3>1. q \in Path
      BY <1>1, PaneOnPath DEF TellInv
    <3>2. models'[q] = Model(t.of, <<t.edit>>, t.edit) /\ \A p \in Path : p # q => models'[p] = models[p]
      BY <2>1, <3>1 DEF Loaded, EdInv, Shapes
    <3>3. Last(models'[q].stack) = models'[q].saved
      BY <3>2 DEF Model, Last
    <3> QED BY <3>2, <3>3 DEF Modified
  <2>2. CASE models[pane.path] # None
    BY <2>2 DEF Loaded, Modified
  <2> QED BY <2>1, <2>2
<1>3. UNCHANGED <<sessions, tabs, tabsOf, metadata, mixed, opening, creating, phase, timer>>
  BY <1>1 DEF wsVars, dbVars, tabVars, callVars
<1>4. Settled' => Settled
  BY <1>3 DEF Settled, ReadingSession
<1> QED BY <1>1, <1>2, <1>3, <1>4, MarkStays DEF TellInv, MarksKept

\* The marks, through every step.
LEMMA MarksStayKept ==
  ASSUME WsInv, EdInv, TellInv, EdNext
  PROVE  MarksKept'
<1>1. CASE Reload_Step
  BY <1>1 DEF Reload_Step, MarksKept, Modified
<1>2. CASE QuietStep
  <2>1. /\ UNCHANGED <<models, sessions, tabs, tabsOf, metadata, mixed, opening, creating, phase, timer>>
        /\ \A p : Told(p)' => Told(p)
    BY <1>2, QuietSteps DEF storeVars, dbVars, tabVars, callVars, Told
  <2>2. (Settled' => Settled) /\ Modified' = Modified
    BY <2>1 DEF Settled, ReadingSession, Modified
  <2> QED BY <2>1, <2>2, MarkStays DEF TellInv, MarksKept
<1>3. CASE Type \/ Undo
  BY <1>3, ChangedKeepsMarks DEF Type, Undo
<1> QED BY <1>1, <1>2, <1>3, StoresKeepMarks, SavedKeepsMarks, LoadedKeepsMarks DEF EdNext, QuietStep

----------------------------------------------------------------------------
\* The screens and the calls, through every step.
LEMMA ScreensStayRight ==
  ASSUME WsInv, Screens, EdNext
  PROVE  Screens'
<1>1. CASE Workspaces_Step
  <2>1. CASE Flush
    BY <2>1, ScreensStay DEF Flush, callVars
  <2> QED BY <1>1, <2>1, OpeningScreens, ProjectsScreens DEF Workspaces_Step, WorkspaceStep
<1>2. CASE Reload_Step
  BY <1>2, ReloadScreens DEF Reload_Step
<1>3. CASE Tabs_Step \/ Close_Step
  <2>1. StoreChange
    BY <1>3 DEF Tabs_Step, Close_Step, OpenFile, CloseTab, CloseAll, SetActive, PinTab
  <2> QED BY <2>1, ScreensStay DEF StoreChange, dbVars, callVars
<1>4. CASE Loaded \/ QuietStep
  <2>1. UNCHANGED storeVars
    BY <1>4, QuietSteps DEF Loaded, wsVars, storeVars
  <2> QED BY <2>1, ScreensStay DEF storeVars, dbVars, callVars
<1>5. CASE Type \/ Undo \/ \E s \in saving : Saved(s)
  <2>1. UNCHANGED <<stored, unused, phase, metadata, opening, creating, checked>>
    BY <1>5 DEF Type, Undo, Changed, Saved, SetDirty, dbVars, callVars
  <2> QED BY <2>1, ScreensStay
<1> QED BY <1>1, <1>2, <1>3, <1>4, <1>5 DEF EdNext, QuietStep

\* The tabs and the sessions, through every step.
LEMMA StoresStayOK ==
  ASSUME WsInv, EdInv, StoreTabs, PaneShown, Texts, EdNext
  PROVE  StoreTabs'
<1>0. TabsOK(tabs)
  BY DEF StoreTabs, SessionOK, Snapshot
<1>1. CASE Workspaces_Step
  BY <1>1, SessionsStayOK DEF Workspaces_Step
<1>2. CASE Reload_Step
  BY <1>2, ReloadStaysOK DEF Reload_Step
<1>3. CASE Tabs_Step \/ Close_Step
  <2>1. StoreChange
    BY <1>3 DEF Tabs_Step, Close_Step, OpenFile, CloseTab, CloseAll, SetActive, PinTab
  <2>2. TabsOK(tabs')
    BY <1>0, <1>3, TabStepMarks, CloseMarks DEF Tabs_Step, Close_Step
  <2>3. activePath' \in Path \cup {None}
    BY <1>3, ActiveIsPath DEF Tabs_Step, Close_Step
  <2> QED BY <2>1, <2>2, <2>3, TabsStayOK DEF StoreChange, dbVars, callVars
<1>4. CASE Loaded \/ QuietStep
  <2>1. UNCHANGED storeVars
    BY <1>4, QuietSteps DEF Loaded, wsVars, storeVars
  <2> QED BY <2>1 DEF storeVars, dbVars, tabVars, callVars, StoreTabs, Snapshot, ReadingSession
<1>5. ASSUME NEW stack, InEditor, Changed(stack) PROVE StoreTabs'
  <2> DEFINE dirty == Last(stack) # models[pane.path].saved
  <2>1. pane.path \in Path /\ SetDirty(pane.path, dirty, dirty) /\ dirty \in BOOLEAN
    BY <1>5, PaneOnPath DEF InEditor, Changed
  <2> HIDE DEF dirty
  <2> QED BY <2>1, SetDirtyStaysOK
<1>6. ASSUME NEW s \in saving, Saved(s) PROVE StoreTabs'
  BY <1>6, SetDirtyStaysOK DEF Saved, Texts
<1> QED BY <1>1, <1>2, <1>3, <1>4, <1>5, <1>6 DEF EdNext, QuietStep, Type, Undo

\* A stutter keeps it all.
LEMMA TellStays ==
  ASSUME UNCHANGED vars, TellInv
  PROVE  TellInv'
<1>1. UNCHANGED <<stored, unused, sessions, phase, metadata, tabs, activePath, timer, opening, creating, checked,
                  tabsOf, mixed, models, disk, pane, saving, seen, unmarked, shared>>
  BY DEF vars, edVars, wsVars, dbVars, tabVars, callVars
<1>2. Screens'
  BY <1>1, ScreensStay DEF TellInv
<1>3. StoreTabs'
  BY <1>1 DEF TellInv, StoreTabs, Snapshot, ReadingSession
<1>4. PaneShown' /\ Texts' /\ SavedKnown' /\ ModelsPlaced'
  BY <1>1 DEF TellInv, PaneShown, ShellShown, ActiveTab, Texts, IsText, SavedKnown, ModelsPlaced, HasModel, InEditor, Told
<1>5. MarksKept'
  <2>1. (Settled' => Settled) /\ Modified' = Modified /\ \A p : Told(p)' => Told(p)
    BY <1>1 DEF Settled, ReadingSession, Modified, Told
  <2> QED BY <1>1, <2>1, MarkStays DEF TellInv, MarksKept
<1> QED BY <1>2, <1>3, <1>4, <1>5 DEF TellInv

\* The inductive invariant of the marks: a path with unsaved text that the history
\* does not name has its dirty mark in the tabs, in the session they were stored
\* with, and in the session being read.
THEOREM TellInvariance == EdSpec => []TellInv
<1>1. EdInit => TellInv
  BY TellStarts
<1>2. WsInv /\ EdInv /\ TellInv /\ [EdNext]_vars => TellInv'
  <2> SUFFICES ASSUME WsInv, EdInv, TellInv, [EdNext]_vars PROVE TellInv'
    OBVIOUS
  <2>1. CASE EdNext
    <3>1. MarksKept' /\ Screens'
      BY <2>1, MarksStayKept, ScreensStayRight DEF TellInv
    <3>2. StoreTabs' /\ PaneShown' /\ Texts'
      BY <2>1, StoresStayOK, PaneStaysShown, TextsStay DEF TellInv
    <3>3. ModelsPlaced' /\ SavedKnown'
      BY <2>1, ModelsStayPlaced, SavedStaysKnown DEF TellInv
    <3> QED BY <3>1, <3>2, <3>3 DEF TellInv
  <2> QED BY <2>1, TellStays
<1> QED BY <1>1, <1>2, EditorInvariance, PTL DEF EdSpec

\* Whatever is opened, left, reloaded and saved in between, and whoever else writes
\* the files, a tab whose text is not what the page last read of its file or wrote to
\* it is marked, but for the cases the history names.
THEOREM DirtyAlwaysTold == EdSpec => []DirtyTold
<1>1. TellInv => DirtyTold
  <2> SUFFICES ASSUME TellInv, ShellShown, tabsOf = metadata, NEW i \in DOMAIN tabs,
                      models[tabs[i].path] # None, models[tabs[i].path].of = metadata,
                      tabs[i].path \notin unmarked \cup shared,
                      Value(models[tabs[i].path]) # seen[tabs[i].path]
               PROVE  tabs[i].dirty
    BY DEF DirtyTold
  <2> DEFINE p == tabs[i].path
  <2>1. p \in Path
    <3>1. tabs \in Seq(Tab)
      BY DEF TellInv, StoreTabs, SessionOK, TabsOK, Snapshot
    <3>2. tabs[i] \in Tab
      BY <3>1, LenProperties, ElementOfSeq
    <3> QED BY <3>2 DEF Tab
  <2>2. Text(models[p].of, models[p].saved) = seen[p]
    BY <2>1 DEF TellInv, SavedKnown, HasModel, Told
  <2>3. p \in Modified
    BY <2>1, <2>2 DEF Modified, Value
  <2>4. MarkedIn(tabs, p)
    BY <2>3 DEF TellInv, MarksKept, MarkKept, Told
  <2> QED BY <2>4 DEF MarkedIn
<1> QED BY <1>1, TellInvariance, PTL

-----------------------------------------------------------------------------

\* The bytes a file can have.
Data == {EmptyBytes} \cup {InitialOf(p) : p \in Paths} \cup {WrittenBy(c) : c \in Calls}

Entries == Paths \ {Root}

Looks == [do : {"look", "putDir"}, path : Entries]
Reads == [do : {"source", "copyDir", "copyChildren", "readFile", "readBytes"}, path : Paths, to : Entries]
Checks == [do : {"check"}, path : Entries, data : Data, match : Nat]
Writes == [do : {"put"}, path : Entries, data : Data]
Targets == [do : {"target", "listTarget", "children"}, path : Paths, recursive : BOOLEAN]
Purges == [do : {"purge"}, path : Paths]
Transactions == Looks \cup Reads \cup Checks \cup Writes \cup Targets \cup Purges

FsTypes ==
  /\ type \in [Paths -> {"none", "file", "directory"}]
  /\ content \in [Paths -> Data \cup {NoContent}]
  /\ op \in [Calls -> Operations \cup {NoOp}]
  /\ outcome \in [Calls -> {"none", "running", "done", "failed"}]
  /\ todo \in [Calls -> Seq(Transactions)]
  /\ before \in [Calls -> [Paths -> Data \cup {NoContent}]]
  /\ type[Root] # "file"
  /\ \A c \in Calls :
       /\ outcome[c] = "none" <=> op[c] = NoOp
       /\ todo[c] # <<>> => outcome[c] = "running"

\* A call works on the part of the tree it was called for.
InZone(i, o) ==
  /\ i.do \in {"look", "putDir"} =>
       o.do # "delete" /\ \E t \in Touches(o) : Comparable(i.path, t)
  /\ i.do \in {"check", "put"} =>
       o.do # "delete" /\ \E t \in Touches(o) : Under(i.path, t)
  /\ i.do \in {"source", "copyDir", "copyChildren", "readFile", "readBytes"} =>
       /\ o.do \in {"copy", "move"}
       /\ Under(i.path, o.path) /\ i.to = Moved(i.path, o.path, o.to)
  /\ i.do \in {"target", "listTarget", "children", "purge"} =>
       o.do \in {"delete", "move"} /\ i.path = o.path

\* What is put comes right after its parent was made or found; the source of a
\* move is deleted at the very end.
InOrder(s) ==
  /\ \A i \in 2 .. Len(s) : s[i].do \in {"put", "putDir"} =>
       i = 2 /\ s[1].do \in {"look", "putDir"} /\ s[1].path = Parent(s[2].path)
  /\ \A i \in 1 .. Len(s) : s[i].do \in {"target", "purge"} => i = Len(s)

EndsInPurge(s) == s # <<>> => s[Len(s)].do \in {"target", "purge"}

PlanOf(c) ==
  /\ \A i \in 1 .. Len(todo[c]) : InZone(todo[c][i], op[c])
  /\ InOrder(todo[c])
  /\ op[c].do = "move" => EndsInPurge(todo[c])

Plans == \A c \in Calls : PlanOf(c)

IsTree ==
  /\ WellFormed(type)
  /\ type[Root] = "directory" \/ \E c \in Calls : op[c].do = "delete" /\ op[c].path = Root
  /\ \A p \in Paths : type[p] # "file" => content[p] = NoContent

\* What a call has seen is still so when it acts on it.
StillTrue(c) ==
  /\ \A i \in 1 .. Len(todo[c]) :
       /\ todo[c][i].do = "put" => type[todo[c][i].path] # "directory"
       /\ todo[c][i].do = "putDir" => type[todo[c][i].path] # "file"
  /\ todo[c] # <<>> /\ todo[c][1].do \in {"put", "putDir"} => type[Parent(todo[c][1].path)] = "directory"

TreeInv == ~Clashing => IsTree /\ \A c \in Calls : StillTrue(c)

\* The files the copy or move o is to bring to the new path, when b was there.
ToCopy(o, b) == {p \in Paths : Under(p, o.path) /\ b[p] # NoContent}
NewPath(o, p) == Moved(p, o.path, o.to)

Untouched(o, b, now) == \A p \in Paths : Under(p, o.path) => now[p] = b[p]
Copied(o, b, now, p) == now[NewPath(o, p)] = b[p]

\* The transaction i is on the way to copying the file p.
Brings(o, i, p) ==
  \/ i.do = "source" /\ Under(p, i.path)
  \/ i.do \in {"copyDir", "copyChildren"} /\ Under(p, i.path) /\ p # i.path
  \/ i.do \in {"readFile", "readBytes"} /\ p = i.path
  \/ i.do \in {"check", "put"} /\ i.path = NewPath(o, p)

\* What the transaction i reads or puts is a file to copy.
Carries(o, b, i) ==
  /\ i.do \in {"check", "put"} => \E p \in ToCopy(o, b) : i.path = NewPath(o, p) /\ i.data = b[p]
  /\ i.do \in {"readFile", "readBytes"} => i.path \in ToCopy(o, b)

Copying(c) == op[c].do \in {"copy", "move"} /\ op[c].path # op[c].to

\* Until the source is deleted it is as it was; a file not yet copied is still
\* to come; the source is deleted when all is copied.
CopyOf(c) ==
  /\ todo[c] # <<>> => Untouched(op[c], before[c], content)
  /\ \/ Untouched(op[c], before[c], content)
     \/ \A p \in ToCopy(op[c], before[c]) : Copied(op[c], before[c], content, p)
  /\ outcome[c] \in {"running", "done"} =>
       \A p \in ToCopy(op[c], before[c]) :
         \/ Copied(op[c], before[c], content, p)
         \/ \E i \in 1 .. Len(todo[c]) : Brings(op[c], todo[c][i], p)
  /\ op[c].do = "move" /\ todo[c] = <<>> /\ outcome[c] \in {"running", "done"} =>
       \A p \in Paths : Under(p, op[c].path) => type[p] = "none"
  /\ \A i \in 1 .. Len(todo[c]) : Carries(op[c], before[c], todo[c][i])

CopyInv == ~Clashing => \A c \in Calls : Copying(c) => CopyOf(c)

----------------------------------------------------------------------------
(* Paths *)

\* A sequence of one or of two is written out.
LEMMA OneIs ==
  ASSUME NEW S, NEW s \in Seq(S), Len(s) = 1
  PROVE  s = <<s[1]>>
<1>1. s[1] \in S
  BY ElementOfSeq
<1>2. <<s[1]>> \in Seq(S)
  BY <1>1
<1> QED BY <1>2, SeqEqual

LEMMA TwoIs ==
  ASSUME NEW S, NEW s \in Seq(S), Len(s) = 2
  PROVE  s = <<s[1], s[2]>>
<1>1. s[1] \in S /\ s[2] \in S
  BY ElementOfSeq
<1>2. <<s[1], s[2]>> \in Seq(S)
  BY <1>1
<1> QED BY <1>2, SeqEqual

\* What a sequence of one or of two holds.
LEMMA PairIs ==
  ASSUME NEW S, NEW u \in S, NEW b \in S
  PROVE  /\ <<u>> \in Seq(S) /\ Len(<<u>>) = 1 /\ <<u>>[1] = u
         /\ <<u, b>> \in Seq(S) /\ Len(<<u, b>>) = 2 /\ <<u, b>>[1] = u /\ <<u, b>>[2] = b
  OBVIOUS

\* Two sequences of one make a pair.
LEMMA ConcatOne ==
  ASSUME NEW S, NEW u \in S, NEW b \in S
  PROVE  <<u>> \o <<b>> = <<u, b>>
<1>1. /\ <<u>> \in Seq(S) /\ Len(<<u>>) = 1 /\ <<u>>[1] = u
      /\ <<b>> \in Seq(S) /\ Len(<<b>>) = 1 /\ <<b>>[1] = b
  OBVIOUS
<1>2. <<u>> \o <<b>> \in Seq(S) /\ Len(<<u>> \o <<b>>) = 2 /\ (<<u>> \o <<b>>)[1] = u /\ (<<u>> \o <<b>>)[2] = b
  BY <1>1, ConcatProperties
<1> QED BY <1>2, TwoIs

\* A path is the root, an entry at the top or one below a top entry.
LEMMA PathCases ==
  ASSUME NEW p \in Paths
  PROVE  \/ p = <<>>
         \/ \E t \in Top : p = <<t>>
         \/ \E t \in Top, b \in Below : p = <<t, b>>
  BY DEF Paths, Root

\* dirname of an entry at the top and of one below it.
LEMMA ParentOf ==
  /\ \A t \in Top : Parent(<<t>>) = <<>>
  /\ \A t \in Top, b \in Below : Parent(<<t, b>>) = <<t>>
<1>1. ASSUME NEW t \in Top
      PROVE  Parent(<<t>>) = <<>>
  BY SubSeqEmpty DEF Parent, Front
<1>2. ASSUME NEW t \in Top, NEW b \in Below
      PROVE  Parent(<<t, b>>) = <<t>>
  <2> DEFINE s == <<t, b>>
  <2>1. s \in Seq(Top \cup Below) /\ Len(s) = 2 /\ s[1] = t
    OBVIOUS
  <2>2. SubSeq(s, 1, 1) \in Seq(Top \cup Below) /\ Len(SubSeq(s, 1, 1)) = 1 /\ SubSeq(s, 1, 1)[1] = t
    BY <2>1, SubSeqProperties
  <2>3. SubSeq(s, 1, 1) = <<t>>
    BY <2>2, OneIs
  <2> QED BY <2>1, <2>3 DEF Parent, Front
<1> QED BY <1>1, <1>2

\* Every entry has a parent, and no directory is deeper than two levels.
LEMMA ParentIs ==
  /\ Root \in Paths
  /\ \A p \in Entries : Parent(p) \in Paths /\ Parent(p) # p
  /\ \A p \in Entries : Parent(p) # Root => Parent(Parent(p)) = Root
<1>1. Root \in Paths
  BY DEF Paths
<1>2. ASSUME NEW p \in Entries
      PROVE  Parent(p) \in Paths /\ Parent(p) # p /\ (Parent(p) # Root => Parent(Parent(p)) = Root)
  <2>1. CASE \E t \in Top : p = <<t>>
    BY <2>1, ParentOf DEF Paths, Root
  <2>2. ASSUME NEW t \in Top, NEW b \in Below, p = <<t, b>>
        PROVE  Parent(p) \in Paths /\ Parent(p) # p /\ (Parent(p) # Root => Parent(Parent(p)) = Root)
    <3>1. Parent(p) = <<t>> /\ Parent(<<t>>) = Root
      BY <2>2, ParentOf DEF Root
    <3>2. <<t>> # <<t, b>> /\ <<t>> \in Paths
      BY DEF Paths
    <3> QED BY <2>2, <3>1, <3>2
  <2> QED BY <2>1, <2>2, PathCases DEF Entries, Root
<1> QED BY <1>1, <1>2

\* A path of the tree is under itself, its parent and the root.
LEMMA UnderIs ==
  ASSUME NEW p \in Paths, NEW q \in Paths
  PROVE  Under(q, p) <=> q = p \/ p = Root \/ (q # Root /\ p = Parent(q))
<1>1. CASE p = <<>>
  BY <1>1 DEF Under, IsPrefix, Root
<1>2. CASE q = <<>>
  BY <1>2, PathCases DEF Under, IsPrefix, Root
<1>3. ASSUME NEW t \in Top, p = <<t>>, NEW u \in Top, q = <<u>>
      PROVE  Under(q, p) <=> q = p
  BY <1>3 DEF Under, IsPrefix
<1>4. ASSUME NEW t \in Top, p = <<t>>, NEW u \in Top, NEW b \in Below, q = <<u, b>>
      PROVE  Under(q, p) <=> <<u>> = p
  BY <1>4 DEF Under, IsPrefix
<1>5. ASSUME NEW t \in Top, NEW a \in Below, p = <<t, a>>, NEW u \in Top, q = <<u>>
      PROVE  ~Under(q, p)
  BY <1>5 DEF Under, IsPrefix
<1>6. ASSUME NEW t \in Top, NEW a \in Below, p = <<t, a>>, NEW u \in Top, NEW b \in Below, q = <<u, b>>
      PROVE  Under(q, p) <=> q = p
  BY <1>6 DEF Under, IsPrefix
<1> QED BY <1>1, <1>2, <1>3, <1>4, <1>5, <1>6, PathCases, ParentOf DEF Root

\* The path of a copy of q, when from is copied to to.
LEMMA MovedIs ==
  ASSUME NEW from \in Entries, NEW to \in Destinations(from), NEW q \in Paths, Under(q, from)
  PROVE  \/ q = from /\ Moved(q, from, to) = to
         \/ \E t \in Top, u \in Top, b \in Below :
              from = <<t>> /\ to = <<u>> /\ q = <<t, b>> /\ Moved(q, from, to) = <<u, b>>
<1>1. CASE q = from
  <2>0. \A p \in Paths : p \in Seq(Top \cup Below)
    <3>1. /\ <<>> \in Seq(Top \cup Below)
          /\ \A t \in Top : <<t>> \in Seq(Top \cup Below)
          /\ \A t \in Top, b \in Below : <<t, b>> \in Seq(Top \cup Below)
      OBVIOUS
    <3> QED BY <3>1, PathCases
  <2>1. to \in Seq(Top \cup Below) /\ Len(from) \in Int
    BY <2>0, LenProperties DEF Destinations, Entries
  <2>2. SubSeq(q, Len(from) + 1, Len(q)) = <<>>
    BY <1>1, <2>1, SubSeqEmpty
  <2> QED BY <1>1, <2>1, <2>2, ConcatEmptySeq DEF Moved
<1>2. CASE q # from
  <2>1. PICK t \in Top, b \in Below : from = <<t>> /\ q = <<t, b>>
    <3>1. from = Parent(q) /\ q \in Entries
      BY <1>2, UnderIs DEF Entries
    <3> QED BY <3>1, PathCases, ParentOf DEF Entries, Root
  <2>2. PICK u \in Top : to = <<u>>
    BY <2>1, PathCases DEF Destinations, Root
  <2>3. SubSeq(q, Len(from) + 1, Len(q)) = <<b>>
    <3>1. Len(q) = 2 /\ q[2] = b /\ Len(from) + 1 = 2 /\ \A i \in 2 .. 2 : q[i] \in Below
      BY <2>1
    <3>2. SubSeq(q, 2, 2) \in Seq(Below) /\ Len(SubSeq(q, 2, 2)) = 1 /\ SubSeq(q, 2, 2)[1] = b
      BY <3>1, SubSeqProperties
    <3>3. SubSeq(q, 2, 2) = <<b>>
      BY <3>2, OneIs
    <3> QED BY <3>1, <3>3
  <2>4. Moved(q, from, to) = <<u>> \o <<b>>
    BY <2>2, <2>3 DEF Moved
  <2>5. <<u>> \o <<b>> = <<u, b>>
    BY ConcatOne, u \in Top \cup Below, b \in Top \cup Below
  <2> QED BY <2>1, <2>2, <2>4, <2>5
<1> QED BY <1>1, <1>2

\* The new path of an entry under what moves lies under the destination.
LEMMA MovedStays ==
  ASSUME NEW from \in Entries, NEW to \in Destinations(from), NEW q \in Paths, Under(q, from)
  PROVE  /\ Moved(q, from, to) \in Entries
         /\ Under(Moved(q, from, to), to)
         /\ Moved(from, from, to) = to
<1>1. to \in Entries /\ Under(from, from)
  BY UnderIs DEF Destinations, Entries
<1>2. Moved(from, from, to) = to
  BY <1>1, MovedIs DEF Entries, Root
<1>3. CASE q = from
  BY <1>1, <1>2, <1>3, UnderIs DEF Entries
<1>4. CASE q # from
  <2>1. PICK t \in Top, u \in Top, b \in Below :
          from = <<t>> /\ to = <<u>> /\ q = <<t, b>> /\ Moved(q, from, to) = <<u, b>>
    BY <1>4, MovedIs
  <2>2. <<u, b>> \in Entries /\ to \in Paths
    BY <1>1 DEF Entries, Paths, Root
  <2>3. Parent(<<u, b>>) = to
    BY <2>1, ParentOf
  <2>4. Under(<<u, b>>, to)
    BY <2>2, <2>3, UnderIs DEF Entries
  <2> QED BY <1>2, <2>1, <2>2, <2>4
<1> QED BY <1>3, <1>4

\* Two files do not go to one place, nor back under the old path.
LEMMA MovedApart ==
  ASSUME NEW from \in Entries, NEW to \in Destinations(from), NEW p \in Paths, NEW q \in Paths,
         Under(p, from), Under(q, from)
  PROVE  /\ Moved(p, from, to) = Moved(q, from, to) => p = q
         /\ from # to => ~Under(Moved(p, from, to), from)
<1>1. Moved(p, from, to) = Moved(q, from, to) => p = q
  BY MovedIs
<1>2. ASSUME from # to PROVE ~Under(Moved(p, from, to), from)
  <2>1. CASE p = from
    <3>1. Moved(p, from, to) = to /\ to \in Entries
      BY <2>1, MovedStays DEF Destinations, Entries
    <3>2. Len(to) <= Len(from)
      BY DEF Destinations
    <3>3. ~(to \in Entries /\ from = Parent(to))
      BY <3>2, PathCases, ParentOf DEF Entries, Root
    <3> QED BY <1>2, <3>1, <3>3, UnderIs DEF Entries
  <2>2. CASE p # from
    <3>1. PICK t \in Top, u \in Top, b \in Below :
            from = <<t>> /\ to = <<u>> /\ p = <<t, b>> /\ Moved(p, from, to) = <<u, b>>
      BY <2>2, MovedIs
    <3>2. <<u, b>> \in Entries /\ Parent(<<u, b>>) = to /\ <<u, b>> # from
      BY <3>1, ParentOf DEF Entries, Paths, Root
    <3> QED BY <1>2, <3>1, <3>2, UnderIs DEF Entries
  <2> QED BY <2>1, <2>2
<1> QED BY <1>1, <1>2

\* Copying a directory and then its children goes where copying the whole goes.
LEMMA MovedChild ==
  ASSUME NEW from \in Entries, NEW to \in Destinations(from), NEW p \in Paths, NEW q \in Entries,
         Under(p, from), Parent(q) = p
  PROVE  /\ Under(q, from)
         /\ Moved(q, p, Moved(p, from, to)) = Moved(q, from, to)
<1>1. p = from
  BY PathCases, ParentOf, UnderIs DEF Entries, Root
<1> QED BY <1>1, MovedStays, UnderIs DEF Entries

\* What is above or below something under t is above or below t.
LEMMA Between ==
  ASSUME NEW q \in Paths, NEW t \in Paths, NEW u \in Paths, Under(q, t), Comparable(q, u)
  PROVE  Comparable(t, u)
  BY UnderIs, ParentIs DEF Comparable, Entries

\* So is the parent of an entry.
LEMMA ParentComparable ==
  ASSUME NEW p \in Entries, NEW u \in Paths, Comparable(p, u)
  PROVE  Comparable(Parent(p), u)
  BY UnderIs, ParentIs DEF Comparable, Entries

\* Under is a partial order with the root at its top.
LEMMA UnderReflexive ==
  ASSUME NEW p \in Paths
  PROVE  Under(p, p) /\ Comparable(p, p) /\ Under(p, Root)
  BY UnderIs, ParentIs DEF Comparable

LEMMA UnderTransitive ==
  ASSUME NEW p \in Paths, NEW q \in Paths, NEW r \in Paths, Under(p, q), Under(q, r)
  PROVE  Under(p, r)
  BY UnderIs, ParentIs DEF Entries

\* What is above the parent is above the entry.
LEMMA UnderParent ==
  ASSUME NEW p \in Entries, NEW q \in Paths, Under(Parent(p), q)
  PROVE  Under(p, q)
  BY UnderIs, ParentIs DEF Entries

\* Two paths are on one line of the tree, whichever is named first.
LEMMA ComparableSym ==
  ASSUME NEW p \in Paths, NEW q \in Paths
  PROVE  Comparable(p, q) <=> Comparable(q, p)
  BY DEF Comparable

----------------------------------------------------------------------------
(* Operations and transactions *)

\* The fields of a call.
LEMMA OperationIs ==
  ASSUME NEW o \in Operations
  PROVE  /\ o # NoOp /\ o.do \in {"write", "mkdir", "delete", "copy", "move"}
         /\ o.path \in Paths
         /\ o.do # "delete" => o.path \in Entries
         /\ o.do = "write" => o.match \in Matches
         /\ o.do = "delete" => o.recursive \in BOOLEAN
         /\ o.do \in {"copy", "move"} => o.to \in Destinations(o.path) /\ o.to \in Entries
         /\ o.path \in Touches(o)
         /\ \A t \in Touches(o) : t \in Paths
<1>1. CASE o \in [do : {"write"}, path : Entries, match : Matches]
  BY <1>1 DEF NoOp, Touches, Entries
<1>2. CASE o \in [do : {"mkdir"}, path : Entries]
  BY <1>2 DEF NoOp, Touches, Entries
<1>3. CASE o \in [do : {"delete"}, path : Paths, recursive : BOOLEAN]
  BY <1>3 DEF NoOp, Touches
<1>4. ASSUME NEW p \in Entries, o \in [do : {"copy", "move"}, path : {p}, to : Destinations(p)]
      PROVE  /\ o # NoOp /\ o.do \in {"copy", "move"}
             /\ o.path \in Entries /\ o.to \in Destinations(o.path) /\ o.to \in Entries
             /\ o.path \in Touches(o)
             /\ \A t \in Touches(o) : t \in Paths
  BY <1>4 DEF NoOp, Touches, Entries, Destinations
<1>5. \/ o \in [do : {"write"}, path : Entries, match : Matches]
      \/ o \in [do : {"mkdir"}, path : Entries]
      \/ o \in [do : {"delete"}, path : Paths, recursive : BOOLEAN]
      \/ \E p \in Entries : o \in [do : {"copy", "move"}, path : {p}, to : Destinations(p)]
  BY DEF Operations, Entries
<1> QED BY <1>1, <1>2, <1>3, <1>4, <1>5 DEF Entries

\* The fields of a transaction still to run, by its kind.
LEMMA TransactionIs ==
  ASSUME NEW i \in Transactions
  PROVE  /\ i.path \in Paths
         /\ i.do \in {"look", "putDir", "check", "put"} => i.path \in Entries
         /\ i.do \in {"check", "put"} => i.data \in Data
         /\ i.do \in {"source", "copyDir", "copyChildren", "readFile", "readBytes"} => i \in Reads
         /\ i.do \in {"target", "listTarget", "children"} => i \in Targets
  BY DEF Transactions, Looks, Reads, Checks, Writes, Targets, Purges, Entries

\* What the plans are written with are transactions.
LEMMA TransactionIn ==
  /\ \A p \in Entries : T("look", p) \in Transactions /\ T("putDir", p) \in Transactions
  /\ \A p \in Paths : T("purge", p) \in Transactions
  /\ \A p \in Paths, to \in Entries :
       ListOf(p, to) \in Transactions /\ Source(p, to) \in Transactions /\ ReadFor(p, to) \in Transactions
  /\ \A p \in Entries, data \in Data, match \in Nat : Check(p, data, match) \in Transactions
  /\ \A p \in Entries, data \in Data : Put(p, data) \in Transactions
  /\ \A p \in Paths, recursive \in BOOLEAN : Target(p, recursive) \in Transactions
  BY DEF Transactions, Looks, Reads, Checks, Writes, Targets, Purges, T, ListOf, Source, ReadFor, Check, Put, Target

\* A transaction that reads hands its paths to the next.
LEMMA NextRead ==
  ASSUME NEW i \in Reads
  PROVE  /\ [i EXCEPT !.do = "copyChildren"] \in Transactions
         /\ [i EXCEPT !.do = "copyChildren"] = [do |-> "copyChildren", path |-> i.path, to |-> i.to]
         /\ [i EXCEPT !.do = "readBytes"] \in Transactions
         /\ [i EXCEPT !.do = "readBytes"] = [do |-> "readBytes", path |-> i.path, to |-> i.to]
  BY DEF Transactions, Reads

\* A delete hands its path to the next transaction.
LEMMA NextTarget ==
  ASSUME NEW i \in Targets
  PROVE  /\ [i EXCEPT !.do = "listTarget"] \in Transactions
         /\ [i EXCEPT !.do = "listTarget"] = [do |-> "listTarget", path |-> i.path, recursive |-> i.recursive]
         /\ [i EXCEPT !.do = "children"] \in Transactions
         /\ [i EXCEPT !.do = "children"] = [do |-> "children", path |-> i.path, recursive |-> i.recursive]
  BY DEF Transactions, Targets

\* mkdirInternal looks for a directory unless it is the root.
LEMMA MkdirIs ==
  ASSUME NEW p \in Paths
  PROVE  /\ p = Root => MkdirInternal(p) = <<>>
         /\ p # Root => MkdirInternal(p) = <<T("look", p)>>
         /\ MkdirInternal(p) \in Seq(Transactions)
  BY TransactionIn DEF MkdirInternal, Entries

\* The tokens for the bytes are none of them the token for none.
LEMMA DataIsBytes ==
  /\ NoContent \notin Data
  /\ EmptyBytes \in Data
  /\ \A p \in Paths : InitialOf(p) \in Data
  /\ \A c \in Calls : WrittenBy(c) \in Data
  BY DEF Data, NoContent, EmptyBytes, InitialOf, WrittenBy

----------------------------------------------------------------------------
(* Steps *)

\* The transactions of a call after it goes on with ts.
LEMMA ProceedIs ==
  ASSUME FsTypes, NEW c \in Calls, todo[c] # <<>>, NEW ts \in Seq(Transactions), Proceed(c, ts)
  PROVE  /\ Len(ts) \in Nat /\ Len(todo[c]) \in Nat /\ Len(todo[c]) >= 1
         /\ todo' \in [Calls -> Seq(Transactions)]
         /\ Len(todo'[c]) = Len(ts) + Len(todo[c]) - 1
         /\ \A i \in 1 .. Len(ts) : todo'[c][i] = ts[i]
         /\ \A j \in 2 .. Len(todo[c]) : todo'[c][Len(ts) + j - 1] = todo[c][j]
         /\ \A d \in Calls \ {c} : todo'[d] = todo[d]
         /\ op' = op /\ outcome' = outcome /\ before' = before
<1> DEFINE s == todo[c]
<1>1. s \in Seq(Transactions) /\ todo \in [Calls -> Seq(Transactions)]
  BY DEF FsTypes
<1>2. /\ Len(ts) \in Nat /\ Len(s) \in Nat /\ Len(s) >= 1
      /\ Tail(s) \in Seq(Transactions) /\ Len(Tail(s)) = Len(s) - 1
      /\ \A i \in 1 .. Len(Tail(s)) : Tail(s)[i] = s[i + 1]
  <2>1. Len(ts) \in Nat /\ Len(s) \in Nat
    BY <1>1, LenProperties
  <2>2. Len(s) \in Nat \ {0}
    BY <1>1, EmptySeq
  <2> QED BY <1>1, <2>1, <2>2, HeadTailProperties
<1>3. /\ ts \o Tail(s) \in Seq(Transactions)
      /\ Len(ts \o Tail(s)) = Len(ts) + Len(Tail(s))
      /\ \A i \in 1 .. Len(ts) + Len(Tail(s)) :
           (ts \o Tail(s))[i] = IF i <= Len(ts) THEN ts[i] ELSE Tail(s)[i - Len(ts)]
  BY <1>2, ConcatProperties
<1>4. todo' = [todo EXCEPT ![c] = ts \o Tail(s)] /\ op' = op /\ outcome' = outcome /\ before' = before
  BY DEF Proceed
<1>5. todo' \in [Calls -> Seq(Transactions)] /\ todo'[c] = ts \o Tail(s) /\ \A d \in Calls \ {c} : todo'[d] = todo[d]
  BY <1>1, <1>3, <1>4
<1> HIDE DEF s
<1>6. ASSUME NEW i \in 1 .. Len(ts)
      PROVE  todo'[c][i] = ts[i]
  BY <1>2, <1>3, <1>5
<1>7. ASSUME NEW j \in 2 .. Len(s)
      PROVE  todo'[c][Len(ts) + j - 1] = s[j]
  <2>1. Len(ts) + j - 1 \in 1 .. Len(ts) + Len(Tail(s)) /\ ~(Len(ts) + j - 1 <= Len(ts))
    BY <1>2
  <2>2. (Len(ts) + j - 1) - Len(ts) = j - 1 /\ j - 1 \in 1 .. Len(Tail(s)) /\ (j - 1) + 1 = j
    BY <1>2
  <2> QED BY <1>2, <1>3, <1>5, <2>1, <2>2
<1> QED BY <1>2, <1>3, <1>4, <1>5, <1>6, <1>7 DEF s

\* Every transaction it then has is a new one or one it had.
LEMMA ProceedHas ==
  ASSUME FsTypes, NEW c \in Calls, todo[c] # <<>>, NEW ts \in Seq(Transactions), Proceed(c, ts),
         NEW i \in 1 .. Len(todo'[c])
  PROVE  \/ i \in 1 .. Len(ts) /\ todo'[c][i] = ts[i]
         \/ \E j \in 2 .. Len(todo[c]) : i = Len(ts) + j - 1 /\ todo'[c][i] = todo[c][j]
<1>1. CASE i \in 1 .. Len(ts)
  BY <1>1, ProceedIs
<1>2. CASE i \notin 1 .. Len(ts)
  <2>1. Len(ts) \in Nat /\ Len(todo[c]) \in Nat /\ Len(todo'[c]) = Len(ts) + Len(todo[c]) - 1
    BY ProceedIs
  <2> DEFINE j == i - Len(ts) + 1
  <2>2. j \in 2 .. Len(todo[c]) /\ i = Len(ts) + j - 1
    BY <1>2, <2>1
  <2> HIDE DEF j
  <2>3. todo'[c][i] = todo[c][j]
    BY <2>2, ProceedIs
  <2> QED BY <2>2, <2>3
<1> QED BY <1>1, <1>2

\* A call that throws runs nothing more and has failed.
LEMMA ThrowIs ==
  ASSUME FsTypes, NEW c \in Calls, Throw(c)
  PROVE  /\ todo'[c] = <<>> /\ outcome'[c] = "failed"
         /\ todo' \in [Calls -> Seq(Transactions)]
         /\ outcome' \in [Calls -> {"none", "running", "done", "failed"}]
         /\ \A d \in Calls \ {c} : todo'[d] = todo[d] /\ outcome'[d] = outcome[d]
         /\ op' = op /\ before' = before
<1>1. <<>> \in Seq(Transactions)
  BY EmptySeq
<1> QED BY <1>1 DEF Throw, FsTypes

\* The transaction a running call is at.
LEMMA HeadIs ==
  ASSUME FsTypes, NEW c \in Calls, NEW do, Doing(c, do)
  PROVE  /\ todo[c] # <<>> /\ Len(todo[c]) \in Nat /\ 1 \in 1 .. Len(todo[c])
         /\ Now(c) = todo[c][1] /\ Now(c) \in Transactions /\ Now(c).do = do
         /\ outcome[c] = "running" /\ op[c] \in Operations
<1>1. todo[c] \in Seq(Transactions) /\ todo[c] # <<>> /\ Head(todo[c]).do = do /\ outcome[c] = "running"
  BY DEF Doing, FsTypes
<1>2. Len(todo[c]) \in Nat \ {0}
  BY <1>1, EmptySeq
<1>3. Now(c) = todo[c][1] /\ todo[c][1] \in Transactions
  BY <1>1, <1>2, ElementOfSeq DEF Now
<1>4. op[c] \in Operations
  BY <1>1 DEF FsTypes
<1> QED BY <1>1, <1>2, <1>3, <1>4

\* A mkdir before another transaction.
LEMMA MkdirThen ==
  ASSUME NEW p \in Paths, NEW i \in Transactions
  PROVE  /\ MkdirInternal(p) \o <<i>> \in Seq(Transactions)
         /\ p = Root => MkdirInternal(p) \o <<i>> = <<i>>
         /\ p # Root => MkdirInternal(p) \o <<i>> = <<T("look", p), i>>
<1>1. <<i>> \in Seq(Transactions)
  OBVIOUS
<1>2. MkdirInternal(p) \o <<i>> \in Seq(Transactions)
  BY <1>1, MkdirIs, ConcatProperties
<1>3. CASE p = Root
  BY <1>1, <1>2, <1>3, MkdirIs, ConcatEmptySeq
<1>4. CASE p # Root
  <2>1. T("look", p) \in Transactions /\ MkdirInternal(p) = <<T("look", p)>>
    BY <1>4, TransactionIn, MkdirIs DEF Entries
  <2>2. <<T("look", p)>> \o <<i>> = <<T("look", p), i>>
    BY <2>1, ConcatOne
  <2> QED BY <1>2, <1>4, <2>1, <2>2
<1> QED BY <1>3, <1>4

\* The children of a directory in some order are all of them.
LEMMA OrderIs ==
  ASSUME NEW p \in Paths, NEW order \in SetToSeqs(Children(p))
  PROVE  /\ DOMAIN order = 1 .. Cardinality(Children(p)) /\ Cardinality(Children(p)) \in Nat
         /\ \A i \in DOMAIN order : order[i] \in Children(p)
         /\ \A q \in Children(p) : \E i \in DOMAIN order : order[i] = q
<1> DEFINE S == Children(p)
           n == Cardinality(S)
<1>1. IsFiniteSet(S)
  <2>1. IsFiniteSet(Top) /\ IsFiniteSet(Below)
    BY FsAssumption DEF FsAssumption
  <2>2. IsFiniteSet(Paths)
    <3>1. IsFiniteSet({<<t>> : t \in Top})
      <4> DEFINE f == [t \in Top |-> <<t>>]
      <4>1. f \in Surjection(Top, {<<t>> : t \in Top})
        BY DEF Surjection
      <4> QED BY <2>1, <4>1, FS_Surjection
    <3>2. IsFiniteSet(Top \X Below)
      BY <2>1, FS_Product
    <3>3. {<<t, b>> : t \in Top, b \in Below} = Top \X Below
      OBVIOUS
    <3>4. IsFiniteSet({Root})
      BY FS_Singleton
    <3> DEFINE shallow == {Root} \cup {<<t>> : t \in Top}
               deep == {<<t, b>> : t \in Top, b \in Below}
    <3>5. IsFiniteSet(shallow)
      BY <3>1, <3>4, FS_Union
    <3>6. IsFiniteSet(deep)
      BY <3>2, <3>3
    <3>7. Paths = shallow \cup deep
      BY DEF Paths
    <3> HIDE DEF shallow, deep
    <3> QED BY <3>5, <3>6, <3>7, FS_Union
  <2>3. S \in SUBSET Paths
    BY DEF Children
  <2> QED BY <2>2, <2>3, FS_Subset
<1>2. n \in Nat
  BY <1>1, FS_CardinalityType
<1>3. order \in [1 .. n -> S] /\ \A i, j \in 1 .. n : i # j => order[i] # order[j]
  BY DEF SetToSeqs
<1>4. IsFiniteSet(1 .. n) /\ Cardinality(1 .. n) = n
  <2>1. IsFiniteSet(1 .. n) /\ Cardinality(1 .. n) = IF 1 > n THEN 0 ELSE n - 1 + 1
    BY <1>2, FS_Interval
  <2> QED BY <1>2, <2>1
<1>5. order \in Injection(1 .. n, S)
  BY <1>3 DEF Injection, IsInjective
<1>6. order \in Surjection(1 .. n, S)
  BY <1>1, <1>4, <1>5, FS_Injection
<1> QED BY <1>2, <1>3, <1>6 DEF Surjection

----------------------------------------------------------------------------
(* Types *)

StoreTypes ==
  /\ type \in [Paths -> {"none", "file", "directory"}] /\ type[Root] # "file"
  /\ content \in [Paths -> Data \cup {NoContent}]

\* A transaction that writes nothing keeps the types of the stores.
LEMMA StoreSame ==
  ASSUME FsTypes, UNCHANGED stores
  PROVE  StoreTypes'
  BY DEF FsTypes, StoreTypes, stores

\* A transaction that goes on keeps the types when what it writes has them.
LEMMA GoesOn ==
  ASSUME FsTypes, StoreTypes', NEW c \in Calls, NEW do, Doing(c, do), NEW ts \in Seq(Transactions), Proceed(c, ts)
  PROVE  FsTypes'
<1>1. outcome[c] = "running" /\ todo[c] # <<>>
  BY HeadIs
<1>2. /\ todo' \in [Calls -> Seq(Transactions)]
      /\ \A d \in Calls \ {c} : todo'[d] = todo[d]
      /\ op' = op /\ outcome' = outcome /\ before' = before
  BY <1>1, ProceedIs
<1> QED BY <1>1, <1>2 DEF FsTypes, StoreTypes

\* So does one that throws.
LEMMA Fails ==
  ASSUME FsTypes, StoreTypes', NEW c \in Calls, NEW do, Doing(c, do), Throw(c)
  PROVE  FsTypes'
<1>1. outcome[c] = "running"
  BY HeadIs
<1>2. /\ todo'[c] = <<>> /\ outcome'[c] = "failed"
      /\ todo' \in [Calls -> Seq(Transactions)]
      /\ outcome' \in [Calls -> {"none", "running", "done", "failed"}]
      /\ \A d \in Calls \ {c} : todo'[d] = todo[d] /\ outcome'[d] = outcome[d]
      /\ op' = op /\ before' = before
  BY ThrowIs
<1>3. ASSUME NEW d \in Calls
      PROVE  /\ outcome'[d] = "none" <=> op'[d] = NoOp
             /\ todo'[d] # <<>> => outcome'[d] = "running"
  BY <1>1, <1>2 DEF FsTypes
<1> QED BY <1>2, <1>3 DEF FsTypes, StoreTypes

\* What each operation begins with.
LEMMA PlanIs ==
  ASSUME NEW c \in Calls, NEW o \in Operations
  PROVE  /\ Plan(c, o) \in Seq(Transactions)
         /\ o.do = "write"  => Plan(c, o) = <<Check(o.path, WrittenBy(c), o.match)>>
         /\ o.do = "mkdir"  => Plan(c, o) = <<T("look", o.path)>>
         /\ o.do = "delete" => Plan(c, o) = <<Target(o.path, o.recursive)>>
         /\ o.do = "copy"   => Plan(c, o) = <<Source(o.path, o.to)>>
         /\ o.do = "move"   => Plan(c, o) = <<Source(o.path, o.to), Target(o.path, TRUE)>>
<1>1. CASE o.do = "write"
  BY <1>1, OperationIs, TransactionIn, DataIsBytes, FsAssumption DEF Plan, FsAssumption
<1>2. CASE o.do = "mkdir"
  <2>1. o.path \in Paths /\ o.path # Root /\ Plan(c, o) = MkdirInternal(o.path)
    BY <1>2, OperationIs DEF Plan, Entries
  <2> QED BY <1>2, <2>1, MkdirIs
<1>3. CASE o.do = "delete"
  <2>1. Target(o.path, o.recursive) \in Transactions /\ Plan(c, o) = <<Target(o.path, o.recursive)>>
    BY <1>3, OperationIs, TransactionIn DEF Plan
  <2> QED BY <1>3, <2>1
<1>4. CASE o.do = "copy"
  <2>1. Source(o.path, o.to) \in Transactions /\ Plan(c, o) = <<Source(o.path, o.to)>>
    BY <1>4, OperationIs, TransactionIn DEF Plan
  <2> QED BY <1>4, <2>1
<1>5. CASE o.do = "move"
  <2>1. /\ Source(o.path, o.to) \in Transactions /\ Target(o.path, TRUE) \in Transactions
        /\ Plan(c, o) = <<Source(o.path, o.to), Target(o.path, TRUE)>>
    BY <1>5, OperationIs, TransactionIn DEF Plan, MovePlan
  <2>2. Plan(c, o) \in Seq(Transactions)
    BY <2>1, PairIs
  <2> QED BY <1>5, <2>1, <2>2
<1> QED BY <1>1, <1>2, <1>3, <1>4, <1>5, OperationIs

\* A call begins with its whole plan and has not run before.
LEMMA BeginIs ==
  ASSUME FsTypes, NEW c \in Calls, Begin(c)
  PROVE  \E o \in Operations :
           /\ op'[c] = o /\ todo'[c] = Plan(c, o)
           /\ o.do \in {"copy", "move"} => before'[c] = content
           /\ op[c] = NoOp /\ outcome[c] = "none" /\ outcome'[c] = "running"
           /\ \A d \in Calls \ {c} : op'[d] = op[d] /\ todo'[d] = todo[d] /\ outcome'[d] = outcome[d] /\ before'[d] = before[d]
           /\ UNCHANGED stores
<1>1. PICK o \in Operations :
        /\ op' = [op EXCEPT ![c] = o]
        /\ todo' = [todo EXCEPT ![c] = Plan(c, o)]
        /\ before' = [before EXCEPT ![c] = IF o.do \in {"copy", "move"} THEN content ELSE @]
  BY DEF Begin
<1>2. outcome[c] = "none" /\ outcome' = [outcome EXCEPT ![c] = "running"] /\ UNCHANGED stores
  BY DEF Begin
<1> QED BY <1>1, <1>2 DEF FsTypes

\* Beginning and returning keep the types.
LEMMA BeginTyped ==
  ASSUME FsTypes, NEW c \in Calls, Begin(c)
  PROVE  FsTypes'
<1>1. PICK o \in Operations :
        /\ op' = [op EXCEPT ![c] = o]
        /\ todo' = [todo EXCEPT ![c] = Plan(c, o)]
        /\ before' = [before EXCEPT ![c] = IF o.do \in {"copy", "move"} THEN content ELSE @]
  BY DEF Begin
<1>2. outcome[c] = "none" /\ outcome' = [outcome EXCEPT ![c] = "running"]
  BY DEF Begin
<1>3. o # NoOp /\ Plan(c, o) \in Seq(Transactions)
  BY OperationIs, PlanIs
<1>4. StoreTypes'
  BY StoreSame DEF Begin
<1>5. /\ op' \in [Calls -> Operations \cup {NoOp}]
      /\ todo' \in [Calls -> Seq(Transactions)]
      /\ before' \in [Calls -> [Paths -> Data \cup {NoContent}]]
      /\ outcome' \in [Calls -> {"none", "running", "done", "failed"}]
  BY <1>1, <1>2, <1>3 DEF FsTypes
<1>6. ASSUME NEW d \in Calls
      PROVE  /\ outcome'[d] = "none" <=> op'[d] = NoOp
             /\ todo'[d] # <<>> => outcome'[d] = "running"
  BY <1>1, <1>2, <1>3 DEF FsTypes
<1> QED BY <1>4, <1>5, <1>6 DEF FsTypes, StoreTypes

LEMMA ReturnTyped ==
  ASSUME FsTypes, NEW c \in Calls, Return(c)
  PROVE  FsTypes'
  BY DEF FsTypes, Return, stores

----------------------------------------------------------------------------
(* What each transaction leads to *)

\* The check of writeFile: a directory or another mtime throws, otherwise the parent is made and the bytes are put.
LEMMA CheckTargetIs ==
  ASSUME FsTypes, NEW c \in Calls, CheckTarget(c)
  PROVE  LET f == todo[c][1] IN
         /\ Doing(c, "check") /\ UNCHANGED stores
         /\ \/ Throw(c)
            \/ /\ type[f.path] # "directory"
               /\ \E ts \in Seq(Transactions) :
                    /\ Proceed(c, ts)
                    /\ \/ Parent(f.path) = Root /\ ts = <<Put(f.path, f.data)>>
                       \/ Parent(f.path) # Root /\ ts = <<T("look", Parent(f.path)), Put(f.path, f.data)>>
<1> DEFINE f == todo[c][1]
           ts == MkdirInternal(Parent(f.path)) \o <<Put(f.path, f.data)>>
<1>1. Doing(c, "check") /\ UNCHANGED stores
  BY DEF CheckTarget
<1>2. f = Now(c) /\ f \in Transactions /\ f.do = "check"
  BY <1>1, HeadIs
<1>3. f.path \in Entries /\ f.data \in Data
  BY <1>2, TransactionIs
<1>4. Parent(f.path) \in Paths /\ Put(f.path, f.data) \in Transactions
  BY <1>3, ParentIs, TransactionIn
<1>5. Throw(c) \/ (type[f.path] # "directory" /\ Proceed(c, ts))
  BY <1>2 DEF CheckTarget, Conflicts
<1> HIDE DEF f
<1>6. /\ ts \in Seq(Transactions)
      /\ \/ Parent(f.path) = Root /\ ts = <<Put(f.path, f.data)>>
         \/ Parent(f.path) # Root /\ ts = <<T("look", Parent(f.path)), Put(f.path, f.data)>>
  BY <1>4, MkdirThen
<1> HIDE DEF ts
<1> QED BY <1>1, <1>5, <1>6 DEF f

\* mkdirInternal: there already, or made after its parent.
LEMMA LookForDirIs ==
  ASSUME FsTypes, NEW c \in Calls, LookForDir(c)
  PROVE  LET p == todo[c][1].path IN
         /\ Doing(c, "look") /\ UNCHANGED stores
         /\ \/ Throw(c)
            \/ type[p] = "directory" /\ Proceed(c, <<>>)
            \/ /\ type[p] = "none"
               /\ \E ts \in Seq(Transactions) :
                    /\ Proceed(c, ts)
                    /\ \/ Parent(p) = Root /\ ts = <<T("putDir", p)>>
                       \/ Parent(p) # Root /\ ts = <<T("look", Parent(p)), T("putDir", p)>>
<1> DEFINE p == todo[c][1].path
           ts == MkdirInternal(Parent(p)) \o <<T("putDir", p)>>
<1>1. Doing(c, "look") /\ UNCHANGED stores
  BY DEF LookForDir
<1>2. todo[c][1] = Now(c) /\ todo[c][1] \in Transactions /\ todo[c][1].do = "look"
  BY <1>1, HeadIs
<1>3. p \in Entries
  BY <1>2, TransactionIs
<1>4. Parent(p) \in Paths /\ T("putDir", p) \in Transactions
  BY <1>3, ParentIs, TransactionIn
<1>5. \/ Throw(c)
      \/ type[p] = "directory" /\ Proceed(c, <<>>)
      \/ type[p] = "none" /\ Proceed(c, ts)
  BY <1>2 DEF LookForDir
<1> HIDE DEF p
<1>6. /\ ts \in Seq(Transactions)
      /\ \/ Parent(p) = Root /\ ts = <<T("putDir", p)>>
         \/ Parent(p) # Root /\ ts = <<T("look", Parent(p)), T("putDir", p)>>
  BY <1>4, MkdirThen
<1> HIDE DEF ts
<1> QED BY <1>1, <1>5, <1>6 DEF p

\* A delete finds its target, lists it when it is a directory, and purges it.
LEMMA FindTargetIs ==
  ASSUME FsTypes, NEW c \in Calls, FindTarget(c)
  PROVE  LET f == todo[c][1] IN
         /\ Doing(c, "target") /\ UNCHANGED stores
         /\ \/ Throw(c)
            \/ \E ts \in Seq(Transactions) :
                 /\ Proceed(c, ts)
                 /\ \/ ts = <<T("purge", f.path)>>
                    \/ ts = <<[do |-> "listTarget", path |-> f.path, recursive |-> f.recursive], T("purge", f.path)>>
<1> DEFINE f == todo[c][1]
<1>1. Doing(c, "target") /\ UNCHANGED stores
  BY DEF FindTarget
<1>2. f = Now(c) /\ f \in Transactions /\ f.do = "target"
  BY <1>1, HeadIs
<1>3. f \in Targets /\ f.path \in Paths
  BY <1>2, TransactionIs
<1>4. T("purge", f.path) \in Transactions
  BY <1>3, TransactionIn
<1>5. Throw(c) \/ Proceed(c, <<T("purge", f.path)>>) \/ Proceed(c, <<[f EXCEPT !.do = "listTarget"], T("purge", f.path)>>)
  BY <1>2 DEF FindTarget
<1>6. /\ [f EXCEPT !.do = "listTarget"] \in Transactions
      /\ [f EXCEPT !.do = "listTarget"] = [do |-> "listTarget", path |-> f.path, recursive |-> f.recursive]
  BY <1>3, NextTarget
<1>7. <<T("purge", f.path)>> \in Seq(Transactions) /\ <<[f EXCEPT !.do = "listTarget"], T("purge", f.path)>> \in Seq(Transactions)
  BY <1>4, <1>6, PairIs
<1> QED BY <1>1, <1>5, <1>6, <1>7

\* A delete asks for the children of what it lists.
LEMMA ListTargetIs ==
  ASSUME FsTypes, NEW c \in Calls, ListTarget(c)
  PROVE  LET f == todo[c][1] IN
         /\ Doing(c, "listTarget") /\ UNCHANGED stores
         /\ \/ Throw(c)
            \/ \E ts \in Seq(Transactions) :
                 /\ Proceed(c, ts)
                 /\ ts = <<[do |-> "children", path |-> f.path, recursive |-> f.recursive]>>
<1> DEFINE f == todo[c][1]
<1>1. Doing(c, "listTarget") /\ UNCHANGED stores
  BY DEF ListTarget
<1>2. f = Now(c) /\ f \in Transactions /\ f.do = "listTarget"
  BY <1>1, HeadIs
<1>3. Throw(c) \/ Proceed(c, <<[f EXCEPT !.do = "children"]>>)
  BY <1>2 DEF ListTarget
<1>4. f \in Targets
  BY <1>2, TransactionIs
<1>5. /\ [f EXCEPT !.do = "children"] \in Transactions
      /\ [f EXCEPT !.do = "children"] = [do |-> "children", path |-> f.path, recursive |-> f.recursive]
  BY <1>4, NextTarget
<1>6. <<[f EXCEPT !.do = "children"]>> \in Seq(Transactions)
  BY <1>5, PairIs
<1> QED BY <1>1, <1>3, <1>5, <1>6

\* A copy reads a file, or makes the directory and lists it.
LEMMA FindSourceIs ==
  ASSUME FsTypes, NEW c \in Calls, FindSource(c)
  PROVE  LET f == todo[c][1] IN
         /\ Doing(c, "source") /\ UNCHANGED stores
         /\ \/ Throw(c)
            \/ \E ts \in Seq(Transactions) :
                 /\ Proceed(c, ts)
                 /\ \/ type[f.path] = "file" /\ ts = <<ReadFor(f.path, f.to)>>
                    \/ type[f.path] = "directory" /\ ts = <<T("look", f.to), ListOf(f.path, f.to)>>
<1> DEFINE f == todo[c][1]
           dir == MkdirInternal(f.to) \o <<ListOf(f.path, f.to)>>
<1>1. Doing(c, "source") /\ UNCHANGED stores
  BY DEF FindSource
<1>2. f = Now(c) /\ f \in Transactions /\ f.do = "source"
  BY <1>1, HeadIs
<1>3. f.path \in Paths /\ f.to \in Entries
  BY <1>2, TransactionIs DEF Reads
<1>4. ReadFor(f.path, f.to) \in Transactions /\ ListOf(f.path, f.to) \in Transactions
  BY <1>3, TransactionIn
<1>5. \/ Throw(c)
      \/ type[f.path] = "file" /\ Proceed(c, <<ReadFor(f.path, f.to)>>)
      \/ type[f.path] = "directory" /\ Proceed(c, dir)
  BY <1>2 DEF FindSource
<1> HIDE DEF f
<1>6. dir \in Seq(Transactions) /\ dir = <<T("look", f.to), ListOf(f.path, f.to)>>
  BY <1>3, <1>4, MkdirThen DEF Entries
<1>7. <<ReadFor(f.path, f.to)>> \in Seq(Transactions)
  BY <1>4, PairIs
<1> HIDE DEF dir
<1> QED BY <1>1, <1>5, <1>6, <1>7 DEF f

\* A copy asks for the children of the directory it lists.
LEMMA ListSourceIs ==
  ASSUME FsTypes, NEW c \in Calls, ListSource(c)
  PROVE  LET f == todo[c][1] IN
         /\ Doing(c, "copyDir") /\ UNCHANGED stores
         /\ \/ Throw(c)
            \/ \E ts \in Seq(Transactions) :
                 Proceed(c, ts) /\ ts = <<[do |-> "copyChildren", path |-> f.path, to |-> f.to]>>
<1> DEFINE f == todo[c][1]
<1>1. Doing(c, "copyDir") /\ UNCHANGED stores
  BY DEF ListSource
<1>2. f = Now(c) /\ f \in Transactions /\ f.do = "copyDir"
  BY <1>1, HeadIs
<1>3. Throw(c) \/ Proceed(c, <<[f EXCEPT !.do = "copyChildren"]>>)
  BY <1>2 DEF ListSource
<1>4. f \in Reads
  BY <1>2, TransactionIs
<1>5. /\ [f EXCEPT !.do = "copyChildren"] \in Transactions
      /\ [f EXCEPT !.do = "copyChildren"] = [do |-> "copyChildren", path |-> f.path, to |-> f.to]
  BY <1>4, NextRead
<1>6. <<[f EXCEPT !.do = "copyChildren"]>> \in Seq(Transactions)
  BY <1>5, PairIs
<1> QED BY <1>1, <1>3, <1>5, <1>6

\* readFile reads the entry before the bytes.
LEMMA ReadEntryIs ==
  ASSUME FsTypes, NEW c \in Calls, ReadEntry(c)
  PROVE  LET f == todo[c][1] IN
         /\ Doing(c, "readFile") /\ UNCHANGED stores
         /\ \/ Throw(c)
            \/ \E ts \in Seq(Transactions) :
                 Proceed(c, ts) /\ ts = <<[do |-> "readBytes", path |-> f.path, to |-> f.to]>>
<1> DEFINE f == todo[c][1]
<1>1. Doing(c, "readFile") /\ UNCHANGED stores
  BY DEF ReadEntry
<1>2. f = Now(c) /\ f \in Transactions /\ f.do = "readFile"
  BY <1>1, HeadIs
<1>3. Throw(c) \/ Proceed(c, <<[f EXCEPT !.do = "readBytes"]>>)
  BY <1>2 DEF ReadEntry
<1>4. f \in Reads
  BY <1>2, TransactionIs
<1>5. /\ [f EXCEPT !.do = "readBytes"] \in Transactions
      /\ [f EXCEPT !.do = "readBytes"] = [do |-> "readBytes", path |-> f.path, to |-> f.to]
  BY <1>4, NextRead
<1>6. <<[f EXCEPT !.do = "readBytes"]>> \in Seq(Transactions)
  BY <1>5, PairIs
<1> QED BY <1>1, <1>3, <1>5, <1>6

\* The bytes read are written to the copy with no mtime to match.
LEMMA ReadBytesIs ==
  ASSUME FsTypes, NEW c \in Calls, ReadBytes(c)
  PROVE  LET f == todo[c][1]
             bytes == content[f.path] IN
         /\ Doing(c, "readBytes") /\ UNCHANGED stores
         /\ \E ts \in Seq(Transactions) :
              /\ Proceed(c, ts)
              /\ ts = <<Check(f.to, IF bytes = NoContent THEN EmptyBytes ELSE bytes, NoVersion)>>
<1> DEFINE f == todo[c][1]
           data == IF content[f.path] = NoContent THEN EmptyBytes ELSE content[f.path]
<1>1. Doing(c, "readBytes") /\ UNCHANGED stores
  BY DEF ReadBytes
<1>2. f = Now(c) /\ f \in Transactions /\ f.do = "readBytes"
  BY <1>1, HeadIs
<1>3. Proceed(c, <<Check(f.to, data, NoVersion)>>)
  BY <1>2 DEF ReadBytes
<1>4. f.path \in Paths /\ f.to \in Entries
  BY <1>2, TransactionIs DEF Reads
<1>5. data \in Data
  BY <1>4, DataIsBytes DEF FsTypes
<1>6. Check(f.to, data, NoVersion) \in Transactions
  BY <1>4, <1>5, TransactionIn DEF NoVersion
<1>7. <<Check(f.to, data, NoVersion)>> \in Seq(Transactions)
  BY <1>6, PairIs
<1> QED BY <1>1, <1>3, <1>7

\* The children go where copying the whole of the tree takes them.
LEMMA SourceChildrenIs ==
  ASSUME FsTypes, Plans, NEW c \in Calls, SourceChildren(c)
  PROVE  LET f == todo[c][1]
             o == op[c] IN
         /\ Doing(c, "copyChildren") /\ UNCHANGED stores
         /\ \A q \in Children(f.path) :
              q \in Entries /\ Parent(q) = f.path /\ Under(q, o.path) /\ Moved(q, o.path, o.to) \in Entries
         /\ \E ts \in Seq(Transactions) :
              /\ Proceed(c, ts)
              /\ \A i \in 1 .. Len(ts) : \E q \in Children(f.path) : ts[i] = Source(q, Moved(q, o.path, o.to))
              /\ \A q \in Children(f.path) : \E i \in 1 .. Len(ts) : ts[i] = Source(q, Moved(q, o.path, o.to))
<1> DEFINE f == todo[c][1]
           o == op[c]
           n == Cardinality(Children(f.path))
<1>1. Doing(c, "copyChildren") /\ UNCHANGED stores
  BY DEF SourceChildren
<1>2. f = Now(c) /\ f \in Transactions /\ f.do = "copyChildren" /\ 1 \in 1 .. Len(todo[c]) /\ o \in Operations
  BY <1>1, HeadIs
<1>3. o.do \in {"copy", "move"} /\ Under(f.path, o.path) /\ f.to = Moved(f.path, o.path, o.to)
  BY <1>2 DEF Plans, PlanOf, InZone
<1>4. f.path \in Paths /\ o.path \in Entries /\ o.to \in Destinations(o.path)
  BY <1>2, <1>3, OperationIs, TransactionIs
<1>5. PICK order \in SetToSeqs(Children(f.path)) :
        Proceed(c, [i \in DOMAIN order |-> Source(order[i], Moved(order[i], f.path, f.to))])
  BY <1>2 DEF SourceChildren
<1> HIDE DEF f, o
<1>6. ASSUME NEW q \in Children(f.path)
      PROVE  /\ q \in Entries /\ Parent(q) = f.path /\ Under(q, o.path)
             /\ Moved(q, f.path, f.to) = Moved(q, o.path, o.to) /\ Moved(q, o.path, o.to) \in Entries
  <2>1. q \in Entries /\ Parent(q) = f.path
    BY DEF Children, Entries
  <2>2. Under(q, o.path) /\ Moved(q, f.path, f.to) = Moved(q, o.path, o.to)
    BY <1>3, <1>4, <2>1, MovedChild
  <2> QED BY <1>4, <2>1, <2>2, MovedStays DEF Entries
<1>7. /\ DOMAIN order = 1 .. n /\ n \in Nat
      /\ \A i \in DOMAIN order : order[i] \in Children(f.path)
      /\ \A q \in Children(f.path) : \E i \in DOMAIN order : order[i] = q
  BY <1>4, OrderIs
<1> HIDE DEF n
<1> DEFINE ts == [i \in DOMAIN order |-> Source(order[i], Moved(order[i], f.path, f.to))]
<1>8. \A i \in 1 .. n : ts[i] = Source(order[i], Moved(order[i], o.path, o.to)) /\ ts[i] \in Transactions
  <2> SUFFICES ASSUME NEW i \in 1 .. n
               PROVE  ts[i] = Source(order[i], Moved(order[i], o.path, o.to)) /\ ts[i] \in Transactions
    OBVIOUS
  <2>1. order[i] \in Children(f.path) /\ ts[i] = Source(order[i], Moved(order[i], f.path, f.to))
    BY <1>7
  <2> QED BY <1>6, <2>1, TransactionIn DEF Entries
<1>9. ts \in [1 .. n -> Transactions]
  BY <1>7, <1>8
<1>10. ts \in Seq(Transactions) /\ Len(ts) = n
  BY <1>7, <1>9
<1>11. /\ \A i \in 1 .. Len(ts) : \E q \in Children(f.path) : ts[i] = Source(q, Moved(q, o.path, o.to))
       /\ \A q \in Children(f.path) : \E i \in 1 .. Len(ts) : ts[i] = Source(q, Moved(q, o.path, o.to))
  BY <1>7, <1>8, <1>10
<1>12. Proceed(c, ts)
  BY <1>5
<1> HIDE DEF ts
<1> QED BY <1>1, <1>6, <1>10, <1>11, <1>12 DEF f, o

\* A delete of a directory goes on unless it has children and is not recursive.
LEMMA TargetChildrenIs ==
  ASSUME NEW c \in Calls, TargetChildren(c)
  PROVE  Doing(c, "children") /\ UNCHANGED stores /\ (Throw(c) \/ Proceed(c, <<>>))
  BY DEF TargetChildren

\* Putting a file writes its entry and its bytes at once, or neither.
LEMMA PutFileIs ==
  ASSUME FsTypes, NEW c \in Calls, PutFile(c)
  PROVE  LET p == todo[c][1].path IN
         /\ Doing(c, "put") /\ StoreTypes' /\ p \in Entries /\ todo[c][1].data \in Data
         /\ \/ Throw(c) /\ UNCHANGED <<type, content>>
            \/ /\ Proceed(c, <<>>)
               /\ type' = [type EXCEPT ![p] = "file"]
               /\ content' = [content EXCEPT ![p] = todo[c][1].data]
<1> DEFINE f == todo[c][1]
<1>1. Doing(c, "put")
  BY DEF PutFile
<1>2. f = Now(c) /\ f \in Transactions /\ f.do = "put"
  BY <1>1, HeadIs
<1>3. f.path \in Entries /\ f.data \in Data
  BY <1>2, TransactionIs
<1>4. \/ Throw(c) /\ UNCHANGED <<type, content>>
      \/ /\ Proceed(c, <<>>)
         /\ type' = [type EXCEPT ![f.path] = "file"]
         /\ content' = [content EXCEPT ![f.path] = f.data]
  BY <1>2 DEF PutFile
<1> HIDE DEF f
<1>5. StoreTypes'
  <2>1. f.path \in Paths /\ f.path # Root
    BY <1>3 DEF Entries
  <2>2. type' \in [Paths -> {"none", "file", "directory"}] /\ type'[Root] # "file"
    BY <1>4, <2>1, ParentIs DEF FsTypes
  <2>3. content' \in [Paths -> Data \cup {NoContent}]
    BY <1>3, <1>4, <2>1 DEF FsTypes
  <2> QED BY <2>2, <2>3 DEF StoreTypes
<1> QED BY <1>1, <1>3, <1>4, <1>5 DEF f

\* Putting a directory writes its entry, or nothing.
LEMMA PutDirIs ==
  ASSUME FsTypes, NEW c \in Calls, PutDir(c)
  PROVE  LET p == todo[c][1].path IN
         /\ Doing(c, "putDir") /\ StoreTypes' /\ p \in Entries /\ UNCHANGED content
         /\ \/ Throw(c) /\ UNCHANGED type
            \/ Proceed(c, <<>>) /\ type' = [type EXCEPT ![p] = "directory"]
<1> DEFINE f == todo[c][1]
<1>1. Doing(c, "putDir") /\ UNCHANGED content
  BY DEF PutDir
<1>2. f = Now(c) /\ f \in Transactions /\ f.do = "putDir"
  BY <1>1, HeadIs
<1>3. f.path \in Entries
  BY <1>2, TransactionIs
<1>4. \/ Throw(c) /\ UNCHANGED type
      \/ Proceed(c, <<>>) /\ type' = [type EXCEPT ![f.path] = "directory"]
  BY <1>2 DEF PutDir
<1> HIDE DEF f
<1>5. StoreTypes'
  <2>1. f.path \in Paths /\ f.path # Root
    BY <1>3 DEF Entries
  <2>2. type' \in [Paths -> {"none", "file", "directory"}] /\ type'[Root] # "file"
    BY <1>4, <2>1, ParentIs DEF FsTypes
  <2> QED BY <1>1, <2>2 DEF StoreTypes, FsTypes
<1> QED BY <1>1, <1>3, <1>4, <1>5 DEF f

\* Purging removes everything under the path at once, or nothing.
LEMMA PurgeIs ==
  ASSUME FsTypes, NEW c \in Calls, Purge(c)
  PROVE  LET p == todo[c][1].path IN
         /\ Doing(c, "purge") /\ StoreTypes' /\ p \in Paths
         /\ \/ Throw(c) /\ UNCHANGED <<type, content>>
            \/ /\ Proceed(c, <<>>)
               /\ \A q \in Paths :
                    IF Under(q, p)
                    THEN type'[q] = "none" /\ content'[q] = IF type[q] # "none" THEN NoContent ELSE content[q]
                    ELSE type'[q] = type[q] /\ content'[q] = content[q]
<1> DEFINE f == todo[c][1]
<1>1. Doing(c, "purge")
  BY DEF Purge
<1>2. f = Now(c) /\ f \in Transactions /\ f.do = "purge"
  BY <1>1, HeadIs
<1>3. f.path \in Paths
  BY <1>2, TransactionIs
<1>4. \/ Throw(c) /\ UNCHANGED <<type, content>>
      \/ /\ Proceed(c, <<>>)
         /\ type' = [q \in Paths |-> IF Under(q, f.path) THEN "none" ELSE type[q]]
         /\ content' = [q \in Paths |-> IF Under(q, f.path) /\ type[q] # "none" THEN NoContent ELSE content[q]]
  BY <1>2 DEF Purge
<1> HIDE DEF f
<1>5. StoreTypes'
  <2>1. CASE UNCHANGED <<type, content>>
    BY <2>1 DEF StoreTypes, FsTypes
  <2>2. CASE /\ type' = [q \in Paths |-> IF Under(q, f.path) THEN "none" ELSE type[q]]
             /\ content' = [q \in Paths |-> IF Under(q, f.path) /\ type[q] # "none" THEN NoContent ELSE content[q]]
    <3>1. type' \in [Paths -> {"none", "file", "directory"}] /\ type'[Root] # "file"
      BY <2>2, ParentIs DEF FsTypes
    <3>2. content' \in [Paths -> Data \cup {NoContent}]
      BY <2>2 DEF FsTypes
    <3> QED BY <3>1, <3>2 DEF StoreTypes
  <2> QED BY <1>4, <2>1, <2>2
<1> QED BY <1>1, <1>3, <1>4, <1>5 DEF f

\* A transaction that needs no other follows with none.
LEMMA EmptyIsSeq == <<>> \in Seq(Transactions) /\ Len(<<>>) = 0
  BY EmptySeq

\* Every step keeps the types.
LEMMA FsTypesStep ==
  ASSUME FsTypes, Plans, NEW c \in Calls, Step(c)
  PROVE  FsTypes'
<1>1. CASE CheckTarget(c)
  BY <1>1, CheckTargetIs, StoreSame, GoesOn, Fails
<1>2. CASE LookForDir(c)
  BY <1>2, LookForDirIs, StoreSame, GoesOn, Fails, EmptyIsSeq
<1>3. CASE FindTarget(c)
  BY <1>3, FindTargetIs, StoreSame, GoesOn, Fails
<1>4. CASE ListTarget(c)
  BY <1>4, ListTargetIs, StoreSame, GoesOn, Fails
<1>5. CASE TargetChildren(c)
  BY <1>5, TargetChildrenIs, StoreSame, GoesOn, Fails, EmptyIsSeq
<1>6. CASE FindSource(c)
  BY <1>6, FindSourceIs, StoreSame, GoesOn, Fails
<1>7. CASE ListSource(c)
  BY <1>7, ListSourceIs, StoreSame, GoesOn, Fails
<1>8. CASE SourceChildren(c)
  BY <1>8, SourceChildrenIs, StoreSame, GoesOn, Fails
<1>9. CASE ReadEntry(c)
  BY <1>9, ReadEntryIs, StoreSame, GoesOn, Fails
<1>10. CASE ReadBytes(c)
  BY <1>10, ReadBytesIs, StoreSame, GoesOn, Fails
<1>11. CASE PutFile(c)
  BY <1>11, PutFileIs, GoesOn, Fails, EmptyIsSeq
<1>12. CASE PutDir(c)
  BY <1>12, PutDirIs, GoesOn, Fails, EmptyIsSeq
<1>13. CASE Purge(c)
  BY <1>13, PurgeIs, GoesOn, Fails, EmptyIsSeq
<1> QED
  BY <1>1, <1>2, <1>3, <1>4, <1>5, <1>6, <1>7, <1>8, <1>9, <1>10, <1>11, <1>12, <1>13, BeginTyped, ReturnTyped DEF Step

\* A reload ends every call and makes the root again.
LEMMA TabReloadsIs ==
  ASSUME FsTypes, TabReloads
  PROVE  /\ FsTypes'
         /\ content' = content /\ op' = op /\ before' = before
         /\ type' = [type EXCEPT ![Root] = "directory"]
         /\ \A c \in Calls : todo'[c] = <<>> /\ outcome'[c] = IF outcome[c] = "running" THEN "failed" ELSE outcome[c]
<1>1. /\ content' = content /\ op' = op /\ before' = before
      /\ type' = [type EXCEPT ![Root] = "directory"]
      /\ todo' = [c \in Calls |-> <<>>]
      /\ outcome' = [c \in Calls |-> IF outcome[c] = "running" THEN "failed" ELSE outcome[c]]
  BY DEF TabReloads
<1>2. todo' \in [Calls -> Seq(Transactions)] /\ outcome' \in [Calls -> {"none", "running", "done", "failed"}]
  BY <1>1, EmptyIsSeq DEF FsTypes
<1>3. type' \in [Paths -> {"none", "file", "directory"}] /\ type'[Root] # "file"
  BY <1>1, ParentIs DEF FsTypes
<1>4. ASSUME NEW c \in Calls
      PROVE  /\ outcome'[c] = "none" <=> op'[c] = NoOp
             /\ todo'[c] # <<>> => outcome'[c] = "running"
  BY <1>1 DEF FsTypes
<1> QED BY <1>1, <1>2, <1>3, <1>4 DEF FsTypes

----------------------------------------------------------------------------
(* Plans *)

\* What a call may go on with.
Fits(c, ts) ==
  LET s == todo[c] IN
  /\ \A i \in 1 .. Len(ts) : InZone(ts[i], op[c])
  /\ InOrder(ts)
  /\ Len(s) > 1 => \A i \in 1 .. Len(ts) : ts[i].do \notin {"target", "purge"}
  /\ s[1].do \in {"target", "purge"} => EndsInPurge(ts)
  /\ Len(s) > 1 /\ s[2].do \in {"put", "putDir"} /\ ts # <<>> =>
       Len(ts) = 1 /\ ts[1].do \in {"look", "putDir"} /\ ts[1].path = Parent(s[2].path)

\* A call keeps to its plan when what it puts first fits it.
LEMMA PlanKept ==
  ASSUME FsTypes, NEW c \in Calls, PlanOf(c), todo[c] # <<>>, NEW ts \in Seq(Transactions), Proceed(c, ts), Fits(c, ts)
  PROVE  PlanOf(c)'
<1> DEFINE s == todo[c]
           n == Len(s)
           m == Len(ts)
           r == todo'[c]
<1>1. /\ m \in Nat /\ n \in Nat /\ n >= 1 /\ Len(r) = m + n - 1 /\ op' = op
      /\ \A i \in 1 .. m : r[i] = ts[i]
      /\ \A j \in 2 .. n : r[m + j - 1] = s[j]
  BY ProceedIs
<1>2. \A i \in 1 .. Len(r) : (i \in 1 .. m /\ r[i] = ts[i]) \/ \E j \in 2 .. n : i = m + j - 1 /\ r[i] = s[j]
  BY ProceedHas
<1>3. /\ \A i \in 1 .. n : InZone(s[i], op[c])
      /\ \A i \in 2 .. n : s[i].do \in {"put", "putDir"} =>
           i = 2 /\ s[1].do \in {"look", "putDir"} /\ s[1].path = Parent(s[2].path)
      /\ \A i \in 1 .. n : s[i].do \in {"target", "purge"} => i = n
      /\ op[c].do = "move" => s[n].do \in {"target", "purge"}
  BY DEF PlanOf, InOrder, EndsInPurge
<1>4. /\ \A i \in 1 .. m : InZone(ts[i], op[c])
      /\ \A i \in 2 .. m : ts[i].do \in {"put", "putDir"} =>
           i = 2 /\ ts[1].do \in {"look", "putDir"} /\ ts[1].path = Parent(ts[2].path)
      /\ \A i \in 1 .. m : ts[i].do \in {"target", "purge"} => i = m /\ n = 1
      /\ s[1].do \in {"target", "purge"} /\ ts # <<>> => ts[m].do \in {"target", "purge"}
      /\ n > 1 /\ s[2].do \in {"put", "putDir"} /\ ts # <<>> =>
           m = 1 /\ ts[1].do \in {"look", "putDir"} /\ ts[1].path = Parent(s[2].path)
  <2>1. /\ \A i \in 1 .. m : InZone(ts[i], op[c])
        /\ InOrder(ts)
        /\ n > 1 => \A i \in 1 .. m : ts[i].do \notin {"target", "purge"}
        /\ s[1].do \in {"target", "purge"} => EndsInPurge(ts)
        /\ n > 1 /\ s[2].do \in {"put", "putDir"} /\ ts # <<>> =>
             m = 1 /\ ts[1].do \in {"look", "putDir"} /\ ts[1].path = Parent(s[2].path)
    BY DEF Fits
  <2>2. /\ \A i \in 2 .. m : ts[i].do \in {"put", "putDir"} =>
             i = 2 /\ ts[1].do \in {"look", "putDir"} /\ ts[1].path = Parent(ts[2].path)
        /\ \A i \in 1 .. m : ts[i].do \in {"target", "purge"} => i = m
    BY <2>1 DEF InOrder
  <2>3. s[1].do \in {"target", "purge"} /\ ts # <<>> => ts[m].do \in {"target", "purge"}
    BY <2>1 DEF EndsInPurge
  <2> HIDE DEF s, n, m, r
  <2> QED BY <1>1, <2>1, <2>2, <2>3
<1>5. (ts # <<>> <=> m > 0) /\ (r # <<>> <=> Len(r) > 0)
  <2>1. r \in Seq(Transactions)
    BY ProceedIs
  <2> QED BY <1>1, <2>1, EmptySeq
<1> HIDE DEF s, n, m, r
<1>6. \A i \in 1 .. Len(r) : InZone(r[i], op'[c])
  BY <1>1, <1>2, <1>3, <1>4
<1>7. ASSUME NEW i \in 2 .. Len(r), r[i].do \in {"put", "putDir"}
      PROVE  i = 2 /\ r[1].do \in {"look", "putDir"} /\ r[1].path = Parent(r[2].path)
  <2>1. CASE i \in 1 .. m
    BY <1>1, <1>4, <1>7, <2>1
  <2>2. ASSUME NEW j \in 2 .. n, i = m + j - 1, r[i] = s[j]
        PROVE  i = 2 /\ r[1].do \in {"look", "putDir"} /\ r[1].path = Parent(r[2].path)
    <3>1. j = 2 /\ i = m + 1
      BY <1>1, <1>3, <1>7, <2>2
    <3>2. m = 1 /\ ts[1].do \in {"look", "putDir"} /\ ts[1].path = Parent(s[2].path)
      BY <1>1, <1>4, <1>5, <1>7, <2>2, <3>1
    <3> QED BY <1>1, <2>2, <3>1, <3>2
  <2> QED BY <1>2, <2>1, <2>2, i \in 1 .. Len(r)
<1>8. ASSUME NEW i \in 1 .. Len(r), r[i].do \in {"target", "purge"}
      PROVE  i = Len(r)
  <2>1. CASE i \in 1 .. m /\ r[i] = ts[i]
    BY <1>1, <1>4, <1>8, <2>1
  <2>2. ASSUME NEW j \in 2 .. n, i = m + j - 1, r[i] = s[j]
        PROVE  i = Len(r)
    BY <1>1, <1>3, <1>8, <2>2
  <2> QED BY <1>2, <2>1, <2>2
<1>9. ASSUME op'[c].do = "move", r # <<>>
      PROVE  r[Len(r)].do \in {"target", "purge"}
  <2>1. CASE n = 1
    BY <1>1, <1>3, <1>4, <1>5, <1>9, <2>1
  <2>2. CASE n > 1
    BY <1>1, <1>3, <1>9, <2>2, n \in 2 .. n
  <2> QED BY <1>1, <2>1, <2>2
<1> QED BY <1>6, <1>7, <1>8, <1>9 DEF PlanOf, InOrder, EndsInPurge, r

\* A single transaction that is neither a put nor the end of a delete fits anywhere.
LEMMA OneFits ==
  ASSUME FsTypes, NEW c \in Calls, PlanOf(c), NEW do, Doing(c, do), do \notin {"look", "putDir", "target", "purge"},
         NEW i \in Transactions, InZone(i, op[c]), i.do \notin {"target", "purge"}
  PROVE  <<i>> \in Seq(Transactions) /\ Fits(c, <<i>>)
<1>1. <<i>> \in Seq(Transactions) /\ Len(<<i>>) = 1 /\ <<i>>[1] = i
  BY PairIs
<1>2. todo[c][1].do = do /\ Len(todo[c]) \in Nat
  BY HeadIs
<1>3. Len(todo[c]) > 1 => todo[c][2].do \notin {"put", "putDir"}
  BY <1>2, 2 \in 2 .. Len(todo[c]) <=> Len(todo[c]) > 1 DEF PlanOf, InOrder
<1>4. InOrder(<<i>>)
  BY <1>1 DEF InOrder
<1> QED BY <1>1, <1>2, <1>3, <1>4 DEF Fits

\* Nothing to do fits any plan.
LEMMA NothingFits ==
  ASSUME NEW c \in Calls
  PROVE  Fits(c, <<>>)
<1>1. Len(<<>>) = 0
  BY EmptyIsSeq
<1> QED BY <1>1 DEF Fits, InOrder, EndsInPurge

\* Two transactions, neither the end of a delete, fit where no put follows.
LEMMA TwoFit ==
  ASSUME FsTypes, NEW c \in Calls, PlanOf(c), NEW do, Doing(c, do), do \notin {"target", "purge"},
         NEW i \in Transactions, InZone(i, op[c]), i.do = "look",
         NEW j \in Transactions, InZone(j, op[c]), j.do \notin {"target", "purge"},
         j.do \in {"put", "putDir"} => i.path = Parent(j.path),
         Len(todo[c]) > 1 => todo[c][2].do \notin {"put", "putDir"}
  PROVE  Fits(c, <<i, j>>)
<1>1. Len(<<i, j>>) = 2 /\ <<i, j>>[1] = i /\ <<i, j>>[2] = j
  BY PairIs
<1>2. todo[c][1].do = do /\ Len(todo[c]) \in Nat
  BY HeadIs
<1>3. InOrder(<<i, j>>)
  BY <1>1 DEF InOrder
<1> QED BY <1>1, <1>2, <1>3 DEF Fits

\* A put comes right after looking for or making the parent.
LEMMA NoPutFollows ==
  ASSUME FsTypes, NEW c \in Calls, PlanOf(c), NEW do, Doing(c, do), do \notin {"look", "putDir"}
  PROVE  Len(todo[c]) > 1 => todo[c][2].do \notin {"put", "putDir"}
<1>1. todo[c][1].do = do /\ Len(todo[c]) \in Nat
  BY HeadIs
<1> QED BY <1>1, 2 \in 2 .. Len(todo[c]) <=> Len(todo[c]) > 1 DEF PlanOf, InOrder

\* One call going on keeps every plan.
LEMMA PlansAfter ==
  ASSUME FsTypes, Plans, NEW c \in Calls, NEW do, Doing(c, do), NEW ts \in Seq(Transactions), Proceed(c, ts), Fits(c, ts)
  PROVE  Plans'
<1>1. todo[c] # <<>>
  BY HeadIs
<1>2. PlanOf(c)'
  BY <1>1, PlanKept DEF Plans
<1>3. op' = op /\ \A d \in Calls \ {c} : todo'[d] = todo[d]
  BY <1>1, ProceedIs
<1>4. ASSUME NEW d \in Calls \ {c}
      PROVE  PlanOf(d)'
  BY <1>3 DEF Plans, PlanOf
<1> QED BY <1>2, <1>4 DEF Plans

\* A call with nothing to do keeps to any plan.
LEMMA EmptyPlan ==
  ASSUME NEW c \in Calls, todo[c] = <<>>
  PROVE  PlanOf(c)
  BY EmptyIsSeq DEF PlanOf, InOrder, EndsInPurge

\* A call that throws keeps every plan.
LEMMA PlansAfterThrow ==
  ASSUME FsTypes, Plans, NEW c \in Calls, Throw(c)
  PROVE  Plans'
<1>1. todo'[c] = <<>> /\ op' = op /\ \A d \in Calls \ {c} : todo'[d] = todo[d]
  BY ThrowIs
<1>2. PlanOf(c)'
  BY <1>1, EmptyIsSeq DEF PlanOf, InOrder, EndsInPurge
<1>3. ASSUME NEW d \in Calls \ {c}
      PROVE  PlanOf(d)'
  BY <1>1 DEF Plans, PlanOf
<1> QED BY <1>2, <1>3 DEF Plans

\* The transactions of a copy, where it is.
LEMMA CopyZone ==
  ASSUME FsTypes, Plans, NEW c \in Calls, NEW do, Doing(c, do),
         do \in {"source", "copyDir", "copyChildren", "readFile", "readBytes"}
  PROVE  LET f == todo[c][1]
             o == op[c] IN
         /\ f.do = do /\ f.path \in Paths /\ f.to \in Entries
         /\ o \in Operations /\ o.do \in {"copy", "move"} /\ o.path \in Entries /\ o.to \in Destinations(o.path)
         /\ Under(f.path, o.path) /\ f.to = Moved(f.path, o.path, o.to)
         /\ o.to \in Touches(o) /\ Under(f.to, o.to) /\ Comparable(f.to, o.to)
<1> DEFINE f == todo[c][1]
           o == op[c]
<1>1. f \in Transactions /\ f.do = do /\ 1 \in 1 .. Len(todo[c]) /\ o \in Operations
  BY HeadIs
<1>2. f.path \in Paths /\ f.to \in Entries
  BY <1>1, TransactionIs DEF Reads
<1>3. o.do \in {"copy", "move"} /\ Under(f.path, o.path) /\ f.to = Moved(f.path, o.path, o.to)
  BY <1>1 DEF Plans, PlanOf, InZone
<1>4. o.path \in Entries /\ o.to \in Destinations(o.path)
  BY <1>1, <1>3, OperationIs
<1>5. Under(f.to, o.to)
  BY <1>2, <1>3, <1>4, MovedStays
<1>6. o.to \in Touches(o)
  BY <1>3 DEF Touches
<1> QED BY <1>1, <1>2, <1>3, <1>4, <1>5, <1>6 DEF Comparable

\* Looking for a directory, and the lemmas after it each other kind of transaction, keeps the plans.
LEMMA LooksPlanned ==
  ASSUME FsTypes, Plans, NEW c \in Calls, LookForDir(c)
  PROVE  Plans'
<1> DEFINE s == todo[c]
           p == s[1].path
           o == op[c]
<1>1. Doing(c, "look")
  BY LookForDirIs
<1>2. s[1] \in Transactions /\ s[1].do = "look" /\ 1 \in 1 .. Len(s) /\ Len(s) \in Nat /\ o \in Operations
  BY <1>1, HeadIs
<1>3. PlanOf(c) /\ p \in Entries
  BY <1>2, TransactionIs DEF Plans
<1>4. o.do # "delete" /\ \E t \in Touches(o) : Comparable(p, t)
  BY <1>2, <1>3 DEF PlanOf, InZone
<1>5. PICK t \in Touches(o) : Comparable(p, t)
  BY <1>4
<1>6. t \in Paths /\ Parent(p) \in Paths
  BY <1>2, <1>3, OperationIs, ParentIs
<1>7. Comparable(Parent(p), t)
  BY <1>3, <1>5, <1>6, ParentComparable
<1>8. InZone(T("putDir", p), o) /\ InZone(T("look", Parent(p)), o)
  BY <1>4, <1>5, <1>7 DEF InZone, T
<1>9. Len(s) > 1 /\ s[2].do \in {"put", "putDir"} => s[2].path \in Entries /\ Parent(s[2].path) = p
  <2> SUFFICES ASSUME Len(s) > 1, s[2].do \in {"put", "putDir"}
               PROVE  s[2].path \in Entries /\ Parent(s[2].path) = p
    OBVIOUS
  <2>1. 2 \in 1 .. Len(s) /\ 2 \in 2 .. Len(s)
    BY <1>2
  <2>2. s[2] \in Transactions
    BY <2>1, ElementOfSeq DEF FsTypes
  <2> QED BY <1>3, <2>1, <2>2, TransactionIs DEF PlanOf, InOrder
<1>10. CASE Throw(c)
  BY <1>10, PlansAfterThrow
<1>11. CASE Proceed(c, <<>>)
  BY <1>1, <1>11, PlansAfter, NothingFits, EmptyIsSeq
<1>12. ASSUME Proceed(c, <<T("putDir", p)>>)
       PROVE  Plans'
  <2> DEFINE i == T("putDir", p)
  <2>1. i \in Transactions /\ i.do = "putDir" /\ i.path = p
    BY <1>3, TransactionIn DEF T
  <2>2. <<i>> \in Seq(Transactions) /\ Len(<<i>>) = 1 /\ <<i>>[1] = i
    BY <2>1, PairIs
  <2>3. InOrder(<<i>>)
    BY <2>1, <2>2 DEF InOrder
  <2> HIDE DEF i, s
  <2>4. Fits(c, <<i>>)
    BY <1>2, <1>8, <1>9, <2>1, <2>2, <2>3 DEF Fits, i, s
  <2> QED BY <1>1, <1>12, <2>2, <2>4, PlansAfter DEF i, s
<1>13. ASSUME Parent(p) # Root, Proceed(c, <<T("look", Parent(p)), T("putDir", p)>>)
       PROVE  Plans'
  <2>1. T("putDir", p) \in Transactions /\ T("putDir", p).do = "putDir" /\ T("putDir", p).path = p
    BY <1>3, TransactionIn DEF T
  <2>2. Parent(p) \in Entries
    BY <1>6, <1>13 DEF Entries
  <2>3. T("look", Parent(p)) \in Transactions /\ T("look", Parent(p)).do = "look" /\ T("look", Parent(p)).path = Parent(p)
    BY <2>2, TransactionIn DEF T
  <2>4. Len(s) > 1 => s[2].do \notin {"put", "putDir"}
    BY <1>3, <1>9, <1>13, ParentIs DEF Entries
  <2>5. Fits(c, <<T("look", Parent(p)), T("putDir", p)>>)
    BY <1>1, <1>3, <1>8, <2>1, <2>3, <2>4, TwoFit
  <2>6. <<T("look", Parent(p)), T("putDir", p)>> \in Seq(Transactions)
    BY <2>1, <2>3, PairIs
  <2> QED BY <1>1, <1>13, <2>5, <2>6, PlansAfter
<1> QED BY <1>10, <1>11, <1>12, <1>13, LookForDirIs

\* The check of a write.
LEMMA ChecksPlanned ==
  ASSUME FsTypes, Plans, NEW c \in Calls, CheckTarget(c)
  PROVE  Plans'
<1> DEFINE f == todo[c][1]
           p == f.path
           o == op[c]
<1>1. Doing(c, "check")
  BY CheckTargetIs
<1>2. f \in Transactions /\ f.do = "check" /\ 1 \in 1 .. Len(todo[c]) /\ o \in Operations
  BY <1>1, HeadIs
<1>3. PlanOf(c) /\ p \in Entries /\ f.data \in Data
  BY <1>2, TransactionIs DEF Plans
<1>4. o.do # "delete" /\ \E t \in Touches(o) : Under(p, t)
  BY <1>2, <1>3 DEF PlanOf, InZone
<1>5. PICK t \in Touches(o) : Under(p, t)
  BY <1>4
<1>6. t \in Paths /\ Parent(p) \in Paths
  BY <1>2, <1>3, OperationIs, ParentIs
<1>7. Comparable(Parent(p), t)
  BY <1>3, <1>5, <1>6, ParentComparable DEF Comparable
<1> DEFINE i == T("look", Parent(p))
           j == Put(p, f.data)
<1>8. j \in Transactions /\ j.do = "put" /\ j.path = p /\ InZone(j, o)
  <2>1. j \in Transactions /\ j.do = "put" /\ j.path = p
    BY <1>3, TransactionIn DEF Put
  <2> QED BY <1>4, <2>1 DEF InZone
<1>9. Parent(p) # Root => i \in Transactions
  BY <1>6, TransactionIn DEF Entries
<1>10. i.do = "look" /\ i.path = Parent(p) /\ InZone(i, o)
  <2>1. i.do = "look" /\ i.path = Parent(p)
    BY DEF T
  <2> QED BY <1>4, <1>5, <1>7, <2>1 DEF InZone
<1>11. CASE Throw(c)
  BY <1>11, PlansAfterThrow
<1> HIDE DEF i, j
<1>12. CASE Proceed(c, <<j>>)
  <2>1. <<j>> \in Seq(Transactions) /\ Fits(c, <<j>>)
    BY <1>1, <1>3, <1>8, OneFits
  <2> QED BY <1>1, <1>12, <2>1, PlansAfter
<1>13. CASE Parent(p) # Root /\ Proceed(c, <<i, j>>)
  <2>1. Fits(c, <<i, j>>)
    BY <1>1, <1>3, <1>8, <1>9, <1>10, <1>13, TwoFit, NoPutFollows
  <2>2. <<i, j>> \in Seq(Transactions)
    BY <1>8, <1>9, <1>13, PairIs
  <2> QED BY <1>1, <1>13, <2>1, <2>2, PlansAfter
<1>14. Throw(c) \/ Proceed(c, <<j>>) \/ (Parent(p) # Root /\ Proceed(c, <<i, j>>))
  BY CheckTargetIs DEF i, j
<1> QED BY <1>11, <1>12, <1>13, <1>14

\* The steps of a delete.
LEMMA DeletesPlanned ==
  ASSUME FsTypes, Plans, NEW c \in Calls, FindTarget(c) \/ ListTarget(c)
  PROVE  Plans'
<1> DEFINE s == todo[c]
           f == s[1]
           o == op[c]
           list == [do |-> "listTarget", path |-> f.path, recursive |-> f.recursive]
           children == [do |-> "children", path |-> f.path, recursive |-> f.recursive]
           purge == T("purge", f.path)
<1>1. PICK do \in {"target", "listTarget"} : Doing(c, do) /\ (FindTarget(c) => do = "target") /\ (ListTarget(c) => do = "listTarget")
  <2>1. CASE FindTarget(c)
    BY <2>1, FindTargetIs DEF Doing, ListTarget
  <2>2. CASE ListTarget(c)
    BY <2>2, ListTargetIs DEF Doing, FindTarget
  <2> QED BY <2>1, <2>2
<1>2. f \in Transactions /\ f.do = do /\ 1 \in 1 .. Len(s) /\ Len(s) \in Nat /\ o \in Operations
  BY <1>1, HeadIs
<1>3. PlanOf(c) /\ f.path \in Paths /\ f.recursive \in BOOLEAN
  BY <1>1, <1>2, TransactionIs DEF Plans, Targets
<1>4. o.do \in {"delete", "move"} /\ f.path = o.path
  BY <1>1, <1>2, <1>3 DEF PlanOf, InZone
<1>5. /\ InZone(list, o) /\ InZone(children, o) /\ InZone(purge, o)
      /\ list.do = "listTarget" /\ children.do = "children" /\ purge.do = "purge"
  BY <1>4 DEF InZone, T
<1>6. list \in Transactions /\ children \in Transactions /\ purge \in Transactions
  BY <1>3, TransactionIn DEF Transactions, Targets
<1> HIDE DEF list, children, purge
<1>7. CASE Throw(c)
  BY <1>7, PlansAfterThrow
<1>8. CASE ListTarget(c) /\ Proceed(c, <<children>>)
  <2>1. <<children>> \in Seq(Transactions) /\ Fits(c, <<children>>)
    BY <1>1, <1>3, <1>5, <1>6, <1>8, OneFits
  <2> QED BY <1>1, <1>8, <2>1, PlansAfter
<1>9. ASSUME FindTarget(c)
      PROVE  Len(s) = 1
  BY <1>1, <1>2, <1>3, <1>9 DEF PlanOf, InOrder
<1>10. CASE FindTarget(c) /\ Proceed(c, <<purge>>)
  <2>1. <<purge>> \in Seq(Transactions) /\ Len(<<purge>>) = 1 /\ <<purge>>[1] = purge
    BY <1>6, PairIs
  <2>2. InOrder(<<purge>>) /\ EndsInPurge(<<purge>>)
    BY <1>5, <2>1 DEF InOrder, EndsInPurge
  <2>3. Fits(c, <<purge>>)
    BY <1>5, <1>9, <1>10, <2>1, <2>2 DEF Fits
  <2> QED BY <1>1, <1>10, <2>1, <2>3, PlansAfter
<1>11. CASE FindTarget(c) /\ Proceed(c, <<list, purge>>)
  <2>1. <<list, purge>> \in Seq(Transactions) /\ Len(<<list, purge>>) = 2 /\ <<list, purge>>[1] = list /\ <<list, purge>>[2] = purge
    BY <1>6, PairIs
  <2>2. InOrder(<<list, purge>>) /\ EndsInPurge(<<list, purge>>)
    BY <1>5, <2>1 DEF InOrder, EndsInPurge
  <2>3. \A i \in 1 .. Len(<<list, purge>>) : InZone(<<list, purge>>[i], op[c])
    BY <1>5, <2>1
  <2>4. ~(Len(s) > 1)
    <3>1. FindTarget(c)
      BY <1>11
    <3>2. Len(s) = 1
      BY <1>9, <3>1
    <3> QED BY <3>2
  <2>5. Fits(c, <<list, purge>>)
    BY <2>2, <2>3, <2>4 DEF Fits
  <2> QED BY <1>1, <1>11, <2>1, <2>5, PlansAfter
<1> QED BY <1>7, <1>8, <1>10, <1>11, FindTargetIs, ListTargetIs DEF list, children, purge

\* The steps of a copy.
LEMMA CopiesPlanned ==
  ASSUME FsTypes, Plans, NEW c \in Calls,
         FindSource(c) \/ ListSource(c) \/ SourceChildren(c) \/ ReadEntry(c) \/ ReadBytes(c)
  PROVE  Plans'
<1> DEFINE f == todo[c][1]
           o == op[c]
<1>1. PlanOf(c)
  BY DEF Plans
<1>2. CASE Throw(c)
  BY <1>2, PlansAfterThrow
<1>3. CASE FindSource(c) /\ ~Throw(c)
  <2>1. Doing(c, "source")
    BY <1>3, FindSourceIs
  <2>2. /\ f.path \in Paths /\ f.to \in Entries /\ o.do \in {"copy", "move"}
        /\ Under(f.path, o.path) /\ f.to = Moved(f.path, o.path, o.to)
        /\ o.to \in Touches(o) /\ Comparable(f.to, o.to)
    BY <2>1, CopyZone
  <2> DEFINE read == ReadFor(f.path, f.to)
             look == T("look", f.to)
             list == ListOf(f.path, f.to)
  <2>3. read \in Transactions /\ look \in Transactions /\ list \in Transactions
    BY <2>2, TransactionIn
  <2>4. InZone(read, o) /\ InZone(look, o) /\ InZone(list, o)
    BY <2>2 DEF InZone, ReadFor, T, ListOf
  <2>5. read.do = "readFile" /\ look.do = "look" /\ list.do = "copyDir"
    BY DEF ReadFor, T, ListOf
  <2> HIDE DEF read, look, list
  <2>6. <<read>> \in Seq(Transactions) /\ Fits(c, <<read>>)
    BY <1>1, <2>1, <2>3, <2>4, <2>5, OneFits
  <2>7. Fits(c, <<look, list>>)
    BY <1>1, <2>1, <2>3, <2>4, <2>5, TwoFit, NoPutFollows
  <2>8. <<look, list>> \in Seq(Transactions)
    BY <2>3, PairIs
  <2>9. Proceed(c, <<read>>) \/ Proceed(c, <<look, list>>)
    BY <1>3, FindSourceIs DEF read, look, list
  <2> QED BY <2>1, <2>6, <2>7, <2>8, <2>9, PlansAfter
<1>4. CASE ListSource(c) /\ ~Throw(c)
  <2>1. Doing(c, "copyDir")
    BY <1>4, ListSourceIs
  <2>2. /\ f.path \in Paths /\ f.to \in Entries /\ o.do \in {"copy", "move"}
        /\ Under(f.path, o.path) /\ f.to = Moved(f.path, o.path, o.to)
    BY <2>1, CopyZone
  <2> DEFINE i == [do |-> "copyChildren", path |-> f.path, to |-> f.to]
  <2>3. i \in Transactions /\ InZone(i, o) /\ i.do = "copyChildren"
    BY <2>2 DEF InZone, Transactions, Reads
  <2>4. Proceed(c, <<i>>)
    BY <1>4, ListSourceIs
  <2> HIDE DEF i
  <2>5. <<i>> \in Seq(Transactions) /\ Fits(c, <<i>>)
    BY <1>1, <2>1, <2>3, OneFits
  <2> QED BY <2>1, <2>4, <2>5, PlansAfter
<1>5. CASE SourceChildren(c)
  <2>1. Doing(c, "copyChildren") /\ \A q \in Children(f.path) : Under(q, o.path)
    BY <1>5, SourceChildrenIs
  <2>2. o.do \in {"copy", "move"} /\ f.do = "copyChildren" /\ Len(todo[c]) \in Nat
    BY <2>1, CopyZone, HeadIs
  <2>3. PICK ts \in Seq(Transactions) :
          /\ Proceed(c, ts)
          /\ \A i \in 1 .. Len(ts) : \E q \in Children(f.path) : ts[i] = Source(q, Moved(q, o.path, o.to))
    BY <1>5, SourceChildrenIs
  <2>4. ASSUME NEW i \in 1 .. Len(ts)
        PROVE  ts[i].do = "source" /\ InZone(ts[i], o)
    <3>1. PICK q \in Children(f.path) : ts[i] = Source(q, Moved(q, o.path, o.to))
      BY <2>3
    <3>2. ts[i].do = "source" /\ ts[i].path = q /\ ts[i].to = Moved(q, o.path, o.to)
      BY <3>1 DEF Source
    <3> QED BY <2>1, <2>2, <3>2 DEF InZone
  <2>5. Len(todo[c]) > 1 => todo[c][2].do \notin {"put", "putDir"}
    BY <1>1, <2>1, NoPutFollows
  <2>6. Len(ts) \in Nat
    BY LenProperties
  <2>7. InOrder(ts)
    BY <2>4, <2>6 DEF InOrder
  <2>8. Fits(c, ts)
    BY <2>2, <2>4, <2>5, <2>7 DEF Fits
  <2> QED BY <2>1, <2>3, <2>8, PlansAfter
<1>6. CASE ReadEntry(c) /\ ~Throw(c)
  <2>1. Doing(c, "readFile")
    BY <1>6, ReadEntryIs
  <2>2. /\ f.path \in Paths /\ f.to \in Entries /\ o.do \in {"copy", "move"}
        /\ Under(f.path, o.path) /\ f.to = Moved(f.path, o.path, o.to)
    BY <2>1, CopyZone
  <2> DEFINE i == [do |-> "readBytes", path |-> f.path, to |-> f.to]
  <2>3. i \in Transactions /\ InZone(i, o) /\ i.do = "readBytes"
    BY <2>2 DEF InZone, Transactions, Reads
  <2>4. Proceed(c, <<i>>)
    BY <1>6, ReadEntryIs
  <2> HIDE DEF i
  <2>5. <<i>> \in Seq(Transactions) /\ Fits(c, <<i>>)
    BY <1>1, <2>1, <2>3, OneFits
  <2> QED BY <2>1, <2>4, <2>5, PlansAfter
<1>7. CASE ReadBytes(c)
  <2>1. Doing(c, "readBytes")
    BY <1>7, ReadBytesIs
  <2>2. /\ f.path \in Paths /\ f.to \in Entries /\ o.do \in {"copy", "move"}
        /\ o.to \in Touches(o) /\ Under(f.to, o.to)
    BY <2>1, CopyZone
  <2> DEFINE data == IF content[f.path] = NoContent THEN EmptyBytes ELSE content[f.path]
             i == Check(f.to, data, NoVersion)
  <2>3. data \in Data
    BY <2>2, DataIsBytes DEF FsTypes
  <2>4. Proceed(c, <<i>>)
    BY <1>7, ReadBytesIs
  <2> HIDE DEF data
  <2>5. i \in Transactions /\ i.do = "check" /\ i.path = f.to
    BY <2>2, <2>3, TransactionIn DEF Check, NoVersion
  <2>6. InZone(i, o)
    BY <2>2, <2>5 DEF InZone
  <2> HIDE DEF i
  <2>7. <<i>> \in Seq(Transactions) /\ Fits(c, <<i>>)
    BY <1>1, <2>1, <2>5, <2>6, OneFits
  <2> QED BY <2>1, <2>4, <2>7, PlansAfter
<1> QED BY <1>2, <1>3, <1>4, <1>5, <1>6, <1>7

\* A call that begins.
LEMMA BeginPlanned ==
  ASSUME FsTypes, Plans, NEW c \in Calls, Begin(c)
  PROVE  Plans'
<1>1. PICK o \in Operations :
        /\ op'[c] = o /\ todo'[c] = Plan(c, o)
        /\ \A d \in Calls \ {c} : op'[d] = op[d] /\ todo'[d] = todo[d]
  BY BeginIs
<1>2. ASSUME NEW d \in Calls \ {c}
      PROVE  PlanOf(d)'
  BY <1>1 DEF Plans, PlanOf
<1> SUFFICES PlanOf(c)'
  BY <1>2 DEF Plans
<1>3. o.path \in Paths /\ o.path \in Touches(o) /\ Under(o.path, o.path) /\ Comparable(o.path, o.path)
  BY OperationIs, UnderReflexive
<1>4. ASSUME NEW i \in Transactions, i.path = o.path,
             \/ o.do = "write" /\ i.do = "check"
             \/ o.do = "mkdir" /\ i.do = "look"
             \/ o.do \in {"delete", "move"} /\ i.do = "target"
             \/ o.do \in {"copy", "move"} /\ i.do = "source" /\ i.to = o.to
      PROVE  InZone(i, o)
  <2>1. CASE o.do \in {"copy", "move"} /\ i.do = "source" /\ i.to = o.to
    <3>1. o.path \in Entries /\ o.to \in Destinations(o.path)
      BY <2>1, OperationIs
    <3>2. i.to = Moved(o.path, o.path, o.to)
      BY <1>3, <2>1, <3>1, MovedStays
    <3> QED BY <1>3, <1>4, <2>1, <3>2 DEF InZone
  <2>2. CASE ~(o.do \in {"copy", "move"} /\ i.do = "source" /\ i.to = o.to)
    BY <1>3, <1>4, <2>2 DEF InZone
  <2> QED BY <2>1, <2>2
<1>5. ASSUME NEW i \in Transactions, todo'[c] = <<i>>, InZone(i, o), o.do = "move" => i.do = "target"
      PROVE  PlanOf(c)'
  <2>1. Len(<<i>>) = 1 /\ <<i>>[1] = i
    BY PairIs
  <2>2. InOrder(<<i>>) /\ (o.do = "move" => EndsInPurge(<<i>>))
    BY <1>5, <2>1 DEF InOrder, EndsInPurge
  <2> QED BY <1>1, <1>5, <2>1, <2>2 DEF PlanOf
<1>6. CASE o.do = "write"
  <2> DEFINE i == Check(o.path, WrittenBy(c), o.match)
  <2>1. i \in Transactions /\ i.do = "check" /\ i.path = o.path
    BY <1>6, OperationIs, TransactionIn, DataIsBytes, FsAssumption DEF FsAssumption, Check
  <2>2. todo'[c] = <<i>>
    BY <1>1, <1>6, PlanIs
  <2> HIDE DEF i
  <2> QED BY <1>4, <1>5, <1>6, <2>1, <2>2
<1>7. CASE o.do = "mkdir"
  <2> DEFINE i == T("look", o.path)
  <2>1. i \in Transactions /\ i.do = "look" /\ i.path = o.path
    BY <1>7, OperationIs, TransactionIn DEF T
  <2>2. todo'[c] = <<i>>
    BY <1>1, <1>7, PlanIs
  <2> HIDE DEF i
  <2> QED BY <1>4, <1>5, <1>7, <2>1, <2>2
<1>8. CASE o.do = "delete"
  <2> DEFINE i == Target(o.path, o.recursive)
  <2>1. i \in Transactions /\ i.do = "target" /\ i.path = o.path
    BY <1>8, OperationIs, TransactionIn DEF Target
  <2>2. todo'[c] = <<i>>
    BY <1>1, <1>8, PlanIs
  <2> HIDE DEF i
  <2> QED BY <1>4, <1>5, <1>8, <2>1, <2>2
<1>9. CASE o.do \in {"copy", "move"}
  <2> DEFINE i == Source(o.path, o.to)
             j == Target(o.path, TRUE)
  <2>1. /\ i \in Transactions /\ i.do = "source" /\ i.path = o.path /\ i.to = o.to
        /\ j \in Transactions /\ j.do = "target" /\ j.path = o.path
    BY <1>9, OperationIs, TransactionIn DEF Source, Target
  <2>2. (o.do = "copy" => todo'[c] = <<i>>) /\ (o.do = "move" => todo'[c] = <<i, j>>)
    BY <1>1, PlanIs
  <2> HIDE DEF i, j
  <2>3. InZone(i, o) /\ (o.do = "move" => InZone(j, o))
    BY <1>4, <1>9, <2>1
  <2>4. CASE o.do = "copy"
    BY <1>5, <2>1, <2>2, <2>3, <2>4
  <2>5. CASE o.do = "move"
    <3>1. Len(<<i, j>>) = 2 /\ <<i, j>>[1] = i /\ <<i, j>>[2] = j
      BY PairIs
    <3>2. InOrder(<<i, j>>) /\ EndsInPurge(<<i, j>>)
      BY <2>1, <3>1 DEF InOrder, EndsInPurge
    <3>3. todo'[c] = <<i, j>> /\ op'[c] = o /\ \A k \in 1 .. Len(<<i, j>>) : InZone(<<i, j>>[k], o)
      BY <1>1, <2>2, <2>3, <2>5, <3>1
    <3> QED BY <2>5, <3>2, <3>3 DEF PlanOf
  <2> QED BY <1>9, <2>4, <2>5
<1> QED BY <1>6, <1>7, <1>8, <1>9, OperationIs

\* Every step keeps the plans.
LEMMA PlansStep ==
  ASSUME FsTypes, Plans, NEW c \in Calls, Step(c)
  PROVE  Plans'
<1>1. CASE TargetChildren(c)
  BY <1>1, TargetChildrenIs, PlansAfterThrow, PlansAfter, NothingFits, EmptyIsSeq
<1>2. CASE PutFile(c)
  BY <1>2, PutFileIs, PlansAfterThrow, PlansAfter, NothingFits, EmptyIsSeq
<1>3. CASE PutDir(c)
  BY <1>3, PutDirIs, PlansAfterThrow, PlansAfter, NothingFits, EmptyIsSeq
<1>4. CASE Purge(c)
  BY <1>4, PurgeIs, PlansAfterThrow, PlansAfter, NothingFits, EmptyIsSeq
<1>5. CASE Return(c)
  BY <1>5 DEF Return, Plans, PlanOf
<1> QED BY <1>1, <1>2, <1>3, <1>4, <1>5, BeginPlanned, LooksPlanned, ChecksPlanned, DeletesPlanned, CopiesPlanned DEF Step

----------------------------------------------------------------------------
(* Files have their bytes *)

BaseInv == FsTypes /\ Plans

\* An opened store has its root and nothing else to do.
LEMMA BaseStarts == FsInit => BaseInv /\ FilesHaveBytes
<1> SUFFICES ASSUME FsInit
             PROVE  BaseInv /\ FilesHaveBytes
  OBVIOUS
<1>1. /\ type \in [Paths -> {"none", "file", "directory"}] /\ type[Root] = "directory"
      /\ content = [p \in Paths |-> IF type[p] = "file" THEN InitialOf(p) ELSE NoContent]
      /\ op = [c \in Calls |-> NoOp]
      /\ todo = [c \in Calls |-> <<>>]
      /\ outcome = [c \in Calls |-> "none"]
      /\ before = [c \in Calls |-> content]
  BY DEF FsInit
<1>2. content \in [Paths -> Data \cup {NoContent}]
  BY <1>1, DataIsBytes
<1>3. todo \in [Calls -> Seq(Transactions)]
  BY <1>1, EmptyIsSeq
<1>4. FsTypes
  BY <1>1, <1>2, <1>3 DEF FsTypes
<1>5. Plans
  BY <1>1, EmptyPlan DEF Plans
<1>6. FilesHaveBytes
  BY <1>1, DataIsBytes DEF FilesHaveBytes
<1> QED BY <1>4, <1>5, <1>6 DEF BaseInv

\* Three transactions write.
LEMMA Writers ==
  ASSUME NEW c \in Calls, Step(c)
  PROVE  UNCHANGED <<type, content>> \/ PutFile(c) \/ PutDir(c) \/ Purge(c)
  BY DEF Step, Begin, Return, CheckTarget, LookForDir, FindTarget, ListTarget, TargetChildren,
     FindSource, ListSource, SourceChildren, ReadEntry, ReadBytes, stores

\* Every step keeps every file its bytes: only a put and a purge write, and each writes both stores.
LEMMA BytesStep ==
  ASSUME BaseInv, FilesHaveBytes, NEW c \in Calls, Step(c)
  PROVE  FilesHaveBytes'
<1>1. CASE UNCHANGED <<type, content>>
  BY <1>1 DEF FilesHaveBytes
<1>2. CASE PutFile(c)
  <2> DEFINE p == todo[c][1].path
             data == todo[c][1].data
  <2>1. /\ p \in Paths /\ data \in Data
        /\ \/ UNCHANGED <<type, content>>
           \/ type' = [type EXCEPT ![p] = "file"] /\ content' = [content EXCEPT ![p] = data]
    BY <1>2, PutFileIs DEF BaseInv, Entries
  <2> HIDE DEF p, data
  <2> QED BY <2>1, DataIsBytes DEF FilesHaveBytes, BaseInv, FsTypes
<1>3. CASE PutDir(c)
  <2> DEFINE p == todo[c][1].path
  <2>1. p \in Paths /\ UNCHANGED content /\ (UNCHANGED type \/ type' = [type EXCEPT ![p] = "directory"])
    BY <1>3, PutDirIs DEF BaseInv, Entries
  <2> HIDE DEF p
  <2> QED BY <2>1 DEF FilesHaveBytes, BaseInv, FsTypes
<1>4. CASE Purge(c)
  <2> DEFINE p == todo[c][1].path
  <2>1. \/ UNCHANGED <<type, content>>
        \/ \A q \in Paths : type'[q] = "none" \/ (type'[q] = type[q] /\ content'[q] = content[q])
    BY <1>4, PurgeIs DEF BaseInv
  <2> QED BY <2>1 DEF FilesHaveBytes
<1> QED BY <1>1, <1>2, <1>3, <1>4, Writers

\* Types, plans and bytes are inductive together.
LEMMA BaseStep ==
  ASSUME BaseInv, FilesHaveBytes, [FsNext]_fsVars
  PROVE  BaseInv' /\ FilesHaveBytes'
<1>1. CASE \E c \in Calls : Step(c)
  BY <1>1, FsTypesStep, PlansStep, BytesStep DEF BaseInv
<1>2. CASE TabReloads
  <2>1. /\ FsTypes' /\ content' = content /\ type' = [type EXCEPT ![Root] = "directory"]
        /\ \A c \in Calls : todo'[c] = <<>>
    BY <1>2, TabReloadsIs DEF BaseInv
  <2>2. Plans'
    BY <2>1, EmptyIsSeq DEF Plans, PlanOf, InOrder, EndsInPurge
  <2>3. FilesHaveBytes'
    BY <2>1 DEF FilesHaveBytes, BaseInv, FsTypes
  <2> QED BY <2>1, <2>2, <2>3 DEF BaseInv
<1>3. CASE UNCHANGED fsVars
  BY <1>3 DEF fsVars, stores, calls, BaseInv, FsTypes, Plans, PlanOf, FilesHaveBytes
<1> QED BY <1>1, <1>2, <1>3 DEF FsNext

\* Whatever calls run together and fail, a file always has its bytes.
THEOREM FilesAlwaysHaveBytes == FsSpec => []FilesHaveBytes
<1>1. FsInit => BaseInv /\ FilesHaveBytes
  BY BaseStarts
<1>2. BaseInv /\ FilesHaveBytes /\ [FsNext]_fsVars => (BaseInv /\ FilesHaveBytes)'
  BY BaseStep
<1> QED BY <1>1, <1>2, PTL DEF FsSpec

----------------------------------------------------------------------------
(* Calls on different parts of the tree *)

\* A step of one call changes nothing of another's, and no call's operation.
LEMMA OthersSame ==
  ASSUME BaseInv, NEW c \in Calls, Step(c)
  PROVE  /\ \A d \in Calls \ {c} :
              op'[d] = op[d] /\ todo'[d] = todo[d] /\ outcome'[d] = outcome[d] /\ before'[d] = before[d]
         /\ op[c] # NoOp => op'[c] = op[c] /\ before'[c] = before[c]
<1>1. CASE Begin(c)
  BY <1>1, BeginIs DEF BaseInv
<1>2. CASE Return(c)
  BY <1>2 DEF Return, BaseInv, FsTypes
<1>3. CASE ~Begin(c) /\ ~Return(c)
  <2>1. PICK do : Doing(c, do)
    BY <1>3 DEF Step, CheckTarget, PutFile, LookForDir, PutDir, FindTarget, ListTarget, TargetChildren, Purge,
       FindSource, ListSource, SourceChildren, ReadEntry, ReadBytes
  <2>2. Throw(c) \/ \E ts : Proceed(c, ts)
    BY <1>3 DEF Step, CheckTarget, PutFile, LookForDir, PutDir, FindTarget, ListTarget, TargetChildren, Purge,
       FindSource, ListSource, SourceChildren, ReadEntry, ReadBytes
  <2>3. CASE Throw(c)
    BY <2>3, ThrowIs DEF BaseInv
  <2>4. CASE \E ts : Proceed(c, ts)
    BY <2>4 DEF Proceed, BaseInv, FsTypes
  <2> QED BY <2>2, <2>3, <2>4
<1> QED BY <1>1, <1>2, <1>3

\* What a call was called for never changes, nor what it set out to copy.
LEMMA OpStays ==
  ASSUME BaseInv, FsNext, NEW c \in Calls, op[c] # NoOp
  PROVE  op'[c] = op[c] /\ before'[c] = before[c]
<1>1. ASSUME NEW d \in Calls, Step(d)
      PROVE  op'[c] = op[c] /\ before'[c] = before[c]
  BY <1>1, OthersSame
<1>2. CASE TabReloads
  BY <1>2, TabReloadsIs DEF BaseInv
<1> QED BY <1>1, <1>2 DEF FsNext

\* Calls that clash go on clashing.
LEMMA ClashStays ==
  ASSUME BaseInv, FsNext, Clashing
  PROVE  Clashing'
  BY OpStays DEF Clashing, Clash

\* Calls that do not clash touch different parts of the tree.
LEMMA Apart ==
  ASSUME ~Clashing, NEW c \in Calls, NEW d \in Calls, c # d, op[c] # NoOp, op[d] # NoOp,
         NEW t \in Touches(op[c]), NEW u \in Touches(op[d])
  PROVE  ~Comparable(t, u)
  BY DEF Clashing, Clash

\* A call writes in the part of the tree it works on, and outside it only the
\* directories above.
LEMMA Effects ==
  ASSUME BaseInv, NEW c \in Calls, Step(c), NEW q \in Paths
  PROVE  /\ type'[q] # type[q] \/ content'[q] # content[q] => op[c] \in Operations
         /\ type'[q] # type[q] => \E t \in Touches(op[c]) : Comparable(q, t)
         /\ type'[q] # type[q] /\ type'[q] # "directory" => \E t \in Touches(op[c]) : Under(q, t)
         /\ content'[q] # content[q] => \E t \in Touches(op[c]) : Under(q, t)
<1> DEFINE f == todo[c][1]
           p == f.path
           o == op[c]
<1>1. ASSUME NEW do, Doing(c, do)
      PROVE  f.do = do /\ InZone(f, o) /\ o \in Operations
  <2>1. f.do = do /\ 1 \in 1 .. Len(todo[c]) /\ o \in Operations
    BY <1>1, HeadIs DEF BaseInv
  <2> QED BY <2>1 DEF BaseInv, Plans, PlanOf
<1>2. CASE UNCHANGED <<type, content>>
  BY <1>2
<1>3. CASE PutFile(c)
  <2>1. /\ Doing(c, "put") /\ p \in Paths
        /\ \/ UNCHANGED <<type, content>>
           \/ type' = [type EXCEPT ![p] = "file"] /\ content' = [content EXCEPT ![p] = f.data]
    BY <1>3, PutFileIs DEF BaseInv, Entries
  <2>2. o \in Operations /\ \E t \in Touches(o) : Under(p, t)
    BY <1>1, <2>1 DEF InZone
  <2>3. q # p => type'[q] = type[q] /\ content'[q] = content[q]
    BY <2>1 DEF BaseInv, FsTypes
  <2> QED BY <2>2, <2>3 DEF Comparable
<1>4. CASE PutDir(c)
  <2>1. /\ Doing(c, "putDir") /\ p \in Paths /\ UNCHANGED content
        /\ UNCHANGED type \/ type' = [type EXCEPT ![p] = "directory"]
    BY <1>4, PutDirIs DEF BaseInv, Entries
  <2>2. o \in Operations /\ \E t \in Touches(o) : Comparable(p, t)
    BY <1>1, <2>1 DEF InZone
  <2>3. type'[q] # type[q] => q = p /\ type'[q] = "directory"
    BY <2>1 DEF BaseInv, FsTypes
  <2> QED BY <2>1, <2>2, <2>3
<1>5. CASE Purge(c)
  <2>1. /\ Doing(c, "purge") /\ p \in Paths
        /\ ~Under(q, p) => type'[q] = type[q] /\ content'[q] = content[q]
    BY <1>5, PurgeIs DEF BaseInv
  <2>2. o \in Operations /\ p = o.path /\ o.path \in Touches(o)
    BY <1>1, <2>1, OperationIs DEF InZone
  <2> QED BY <2>1, <2>2 DEF Comparable
<1> QED BY <1>2, <1>3, <1>4, <1>5, Writers

\* So what another call has seen stays true.
LEMMA OthersTrue ==
  ASSUME BaseInv, ~Clashing, NEW c \in Calls, Step(c), NEW d \in Calls, d # c, StillTrue(d)
  PROVE  StillTrue(d)'
<1>1. todo'[d] = todo[d] /\ todo[d] \in Seq(Transactions) /\ Len(todo[d]) \in Nat
  BY OthersSame, LenProperties DEF BaseInv, FsTypes
<1>2. ASSUME NEW i \in 1 .. Len(todo[d])
      PROVE  todo[d][i] \in Transactions /\ InZone(todo[d][i], op[d]) /\ op[d] # NoOp /\ op[d] \in Operations
  <2>1. todo[d] # <<>>
    BY <1>2, EmptyIsSeq
  <2>2. op[d] # NoOp /\ op[d] \in Operations
    BY <2>1 DEF BaseInv, FsTypes
  <2> QED BY <1>1, <2>2, ElementOfSeq DEF BaseInv, Plans, PlanOf
<1>3. ASSUME NEW u \in Touches(op[d]), NEW t \in Touches(op[c]), op[c] \in Operations, op[d] \in Operations
      PROVE  u \in Paths /\ t \in Paths /\ ~Comparable(u, t) /\ ~Comparable(t, u)
  BY <1>3, Apart, OperationIs
<1>4. ASSUME NEW i \in 1 .. Len(todo[d]), todo[d][i].do = "put"
      PROVE  type'[todo[d][i].path] # "directory"
  <2> DEFINE p == todo[d][i].path
  <2>1. p \in Paths /\ type[p] # "directory" /\ \E u \in Touches(op[d]) : Under(p, u)
    BY <1>2, <1>4, TransactionIs DEF StillTrue, InZone, Entries
  <2>2. PICK u \in Touches(op[d]) : Under(p, u)
    BY <2>1
  <2>3. ASSUME type'[p] # type[p]
        PROVE  FALSE
    <3>1. op[c] \in Operations /\ \E t \in Touches(op[c]) : Comparable(p, t)
      BY <2>1, <2>3, Effects
    <3>2. PICK t \in Touches(op[c]) : Comparable(p, t)
      BY <3>1
    <3> QED BY <1>2, <1>3, <2>1, <2>2, <3>1, <3>2, Between
  <2> QED BY <2>1, <2>3
<1>5. ASSUME NEW i \in 1 .. Len(todo[d]), todo[d][i].do = "putDir"
      PROVE  type'[todo[d][i].path] # "file"
  <2> DEFINE p == todo[d][i].path
  <2>1. p \in Paths /\ type[p] # "file" /\ \E u \in Touches(op[d]) : Comparable(p, u)
    BY <1>2, <1>5, TransactionIs DEF StillTrue, InZone, Entries
  <2>2. PICK u \in Touches(op[d]) : Comparable(p, u)
    BY <2>1
  <2>3. ASSUME type'[p] = "file"
        PROVE  FALSE
    <3>1. op[c] \in Operations /\ \E t \in Touches(op[c]) : Under(p, t)
      BY <2>1, <2>3, Effects
    <3>2. PICK t \in Touches(op[c]) : Under(p, t)
      BY <3>1
    <3> QED BY <1>2, <1>3, <2>1, <2>2, <3>1, <3>2, Between
  <2> QED BY <2>3
<1>6. ASSUME todo[d] # <<>>, todo[d][1].do \in {"put", "putDir"}
      PROVE  type'[Parent(todo[d][1].path)] = "directory"
  <2> DEFINE p == todo[d][1].path
  <2>0. 1 \in 1 .. Len(todo[d])
    BY <1>1, <1>6, EmptySeq
  <2>1. p \in Entries /\ type[Parent(p)] = "directory" /\ \E u \in Touches(op[d]) : Comparable(p, u)
    BY <1>2, <1>6, <2>0, TransactionIs DEF StillTrue, InZone, Comparable
  <2>2. PICK u \in Touches(op[d]) : Comparable(p, u)
    BY <2>1
  <2>3. ASSUME type'[Parent(p)] # "directory"
        PROVE  FALSE
    <3>1. Parent(p) \in Paths
      BY <2>1, ParentIs
    <3>2. op[c] \in Operations /\ \E t \in Touches(op[c]) : Under(Parent(p), t)
      BY <2>1, <2>3, <3>1, Effects
    <3>3. PICK t \in Touches(op[c]) : Under(Parent(p), t)
      BY <3>2
    <3>4. u \in Paths /\ t \in Paths /\ ~Comparable(t, u)
      BY <1>2, <1>3, <2>0, <3>2
    <3>5. Comparable(Parent(p), u)
      BY <2>1, <2>2, <3>4, ParentComparable
    <3> QED BY <3>1, <3>3, <3>4, <3>5, Between
  <2> QED BY <2>3
<1> QED BY <1>1, <1>4, <1>5, <1>6 DEF StillTrue

\* A put to come is right behind the transaction that makes its parent.
LEMMA PutsFollow ==
  ASSUME BaseInv, NEW c \in Calls, NEW do, Doing(c, do),
         NEW j \in 2 .. Len(todo[c]), todo[c][j].do \in {"put", "putDir"}
  PROVE  /\ j = 2 /\ do \in {"look", "putDir"}
         /\ todo[c][2].path \in Entries /\ Parent(todo[c][2].path) = todo[c][1].path
<1>1. todo[c][1].do = do /\ Len(todo[c]) \in Nat /\ todo[c] \in Seq(Transactions)
  BY HeadIs DEF BaseInv, FsTypes
<1>2. j = 2 /\ todo[c][1].do \in {"look", "putDir"} /\ todo[c][1].path = Parent(todo[c][2].path)
  BY DEF BaseInv, Plans, PlanOf, InOrder
<1>3. todo[c][j] \in Transactions
  BY <1>1, ElementOfSeq, j \in 1 .. Len(todo[c])
<1> QED BY <1>1, <1>2, <1>3, TransactionIs

\* What a call has to have seen before it goes on with ts.
Justified(ts, ty) ==
  /\ \A i \in 1 .. Len(ts) :
       /\ ts[i].do = "put" => ty[ts[i].path] # "directory"
       /\ ts[i].do = "putDir" => ty[ts[i].path] # "file"
  /\ ts # <<>> /\ ts[1].do \in {"put", "putDir"} => ty[Parent(ts[1].path)] = "directory"

\* A call that goes on still knows its parents are there when what it puts first is justified.
LEMMA TrueAfter ==
  ASSUME BaseInv, NEW c \in Calls, StillTrue(c), NEW do, Doing(c, do), NEW ts \in Seq(Transactions), Proceed(c, ts),
         do \in {"look", "putDir"} => \A q \in Paths : q # todo[c][1].path => type'[q] = type[q],
         Justified(ts, type'),
         do \in {"look", "putDir"} /\ ts = <<>> => type'[todo[c][1].path] = "directory"
  PROVE  StillTrue(c)'
<1> DEFINE s == todo[c]
           r == todo'[c]
<1>1. s # <<>> /\ s[1].do = do
  BY HeadIs DEF BaseInv
<1>2. /\ Len(ts) \in Nat /\ Len(s) \in Nat /\ Len(r) = Len(ts) + Len(s) - 1
      /\ \A i \in 1 .. Len(ts) : r[i] = ts[i]
      /\ \A j \in 2 .. Len(s) : r[Len(ts) + j - 1] = s[j]
      /\ r \in Seq(Transactions)
  BY <1>1, ProceedIs DEF BaseInv
<1>3. ASSUME NEW j \in 2 .. Len(s), s[j].do \in {"put", "putDir"}
      PROVE  /\ j = 2 /\ do \in {"look", "putDir"} /\ Parent(s[2].path) = s[1].path
             /\ type'[s[j].path] = type[s[j].path]
  <2>1. j = 2 /\ do \in {"look", "putDir"} /\ s[2].path \in Entries /\ Parent(s[2].path) = s[1].path
    BY <1>3, PutsFollow
  <2>2. s[2].path # s[1].path /\ s[2].path \in Paths
    BY <2>1, ParentIs DEF Entries
  <2> QED BY <2>1, <2>2
<1>4. ASSUME NEW i \in 1 .. Len(r)
      PROVE  /\ r[i].do = "put" => type'[r[i].path] # "directory"
             /\ r[i].do = "putDir" => type'[r[i].path] # "file"
  <2>1. CASE i \in 1 .. Len(ts) /\ r[i] = ts[i]
    BY <2>1 DEF Justified
  <2>2. ASSUME NEW j \in 2 .. Len(s), r[i] = s[j]
        PROVE  /\ r[i].do = "put" => type'[r[i].path] # "directory"
               /\ r[i].do = "putDir" => type'[r[i].path] # "file"
    BY <1>3, <2>2, j \in 1 .. Len(s) DEF StillTrue
  <2> QED BY <1>1, <2>1, <2>2, ProceedHas DEF BaseInv
<1>5. ASSUME r # <<>>, r[1].do \in {"put", "putDir"}
      PROVE  type'[Parent(r[1].path)] = "directory"
  <2>1. CASE ts # <<>>
    <3>1. 1 \in 1 .. Len(ts)
      BY <1>2, <2>1, EmptySeq
    <3> QED BY <1>2, <1>5, <2>1, <3>1 DEF Justified
  <2>2. CASE ts = <<>>
    <3>1. Len(ts) = 0 /\ Len(r) > 0
      BY <1>2, <1>5, <2>2, EmptySeq
    <3>2. 2 \in 2 .. Len(s) /\ r[1] = s[2]
      BY <1>2, <3>1
    <3> QED BY <1>3, <1>5, <2>2, <3>2
  <2> QED BY <2>1, <2>2
<1> HIDE DEF r
<1> QED BY <1>4, <1>5 DEF StillTrue, r

\* A call that throws has nothing left to be true.
LEMMA TrueAfterThrow ==
  ASSUME BaseInv, NEW c \in Calls, Throw(c)
  PROVE  StillTrue(c)'
<1>1. todo'[c] = <<>>
  BY ThrowIs DEF BaseInv
<1> QED BY <1>1, EmptyIsSeq DEF StillTrue

\* Nothing to do needs no justification.
LEMMA NothingJustified ==
  ASSUME NEW ty
  PROVE  Justified(<<>>, ty)
  BY EmptyIsSeq DEF Justified

\* The root is there, unless a delete of it, and of nothing else, was called.
LEMMA RootThere ==
  ASSUME BaseInv, ~Clashing, IsTree, NEW c \in Calls, op[c] \in Operations, op[c].do # "delete"
  PROVE  type[Root] = "directory"
<1> SUFFICES ASSUME NEW d \in Calls, op[d].do = "delete", op[d].path = Root
             PROVE  FALSE
  BY DEF IsTree
<1>1. d # c /\ op[c] # NoOp /\ op[c].path \in Paths /\ op[c].path \in Touches(op[c])
  BY OperationIs
<1>2. op[d] # NoOp /\ Root \in Touches(op[d])
  BY DEF NoOp, Touches
<1>3. Comparable(op[c].path, Root)
  BY <1>1, UnderReflexive DEF Comparable
<1> QED BY <1>1, <1>2, <1>3, Apart

\* Going on with transactions that put nothing, after none that could be followed by a put.
LEMMA TrueAfterOther ==
  ASSUME BaseInv, NEW c \in Calls, StillTrue(c), NEW do, Doing(c, do), do \notin {"look", "putDir"},
         NEW ts \in Seq(Transactions), Proceed(c, ts),
         \A i \in 1 .. Len(ts) : ts[i].do \notin {"put", "putDir"}
  PROVE  StillTrue(c)'
<1>1. ts # <<>> => 1 \in 1 .. Len(ts)
  BY EmptySeq
<1>2. Justified(ts, type')
  BY <1>1 DEF Justified
<1> QED BY <1>2, TrueAfter

\* What a call has made sure of is still true after its own step.
LEMMA OwnTrue ==
  ASSUME BaseInv, ~Clashing, IsTree, NEW c \in Calls, StillTrue(c), Step(c)
  PROVE  StillTrue(c)'
<1> DEFINE f == todo[c][1]
           p == f.path
           o == op[c]
<1>0. FsTypes /\ Plans
  BY DEF BaseInv
<1>1. ASSUME NEW do, Doing(c, do)
      PROVE  f.do = do /\ f \in Transactions /\ InZone(f, o) /\ o \in Operations
  <2>1. f.do = do /\ f \in Transactions /\ 1 \in 1 .. Len(todo[c]) /\ o \in Operations
    BY <1>1, HeadIs DEF BaseInv
  <2> QED BY <2>1 DEF BaseInv, Plans, PlanOf
<1>2. CASE Throw(c)
  BY <1>2, TrueAfterThrow
<1>3. CASE Begin(c)
  <2>1. PICK o1 \in Operations : todo'[c] = Plan(c, o1)
    BY <1>0, <1>3, BeginIs
  <2>2. \A i \in 1 .. Len(Plan(c, o1)) : Plan(c, o1)[i].do \notin {"put", "putDir"}
    BY PlanIs, OperationIs DEF Check, T, Target, Source
  <2>3. Plan(c, o1) # <<>> => 1 \in 1 .. Len(Plan(c, o1))
    BY PlanIs, EmptySeq
  <2> QED BY <2>1, <2>2, <2>3 DEF StillTrue
<1>4. CASE Return(c)
  BY <1>4 DEF Return, StillTrue, stores
<1>5. CASE CheckTarget(c) /\ ~Throw(c)
  <2>1. Doing(c, "check") /\ UNCHANGED type /\ type[p] # "directory"
    BY <1>0, <1>5, CheckTargetIs DEF stores
  <2>2. type[Root] = "directory"
    BY <1>1, <2>1, RootThere DEF InZone
  <2>3. PICK ts \in Seq(Transactions) :
          /\ Proceed(c, ts)
          /\ \/ Parent(p) = Root /\ ts = <<Put(p, f.data)>>
             \/ Parent(p) # Root /\ ts = <<T("look", Parent(p)), Put(p, f.data)>>
    BY <1>0, <1>5, CheckTargetIs
  <2>4. Justified(ts, type)
    <3>1. CASE Parent(p) = Root /\ ts = <<Put(p, f.data)>>
      <4>1. Len(ts) = 1 /\ ts[1].do = "put" /\ ts[1].path = p
        BY <3>1 DEF Put
      <4>2. 1 .. Len(ts) = {1} /\ type[Parent(ts[1].path)] = "directory" /\ type[ts[1].path] # "directory"
        BY <2>1, <2>2, <3>1, <4>1
      <4> QED BY <4>1, <4>2 DEF Justified
    <3>2. CASE ts = <<T("look", Parent(p)), Put(p, f.data)>>
      <4>1. /\ Len(ts) = 2 /\ ts[1].do = "look" /\ ts[1].path = Parent(p)
            /\ ts[2].do = "put" /\ ts[2].path = p
        BY <3>2 DEF Put, T
      <4>2. 1 .. Len(ts) = {1, 2} /\ "look" \notin {"put", "putDir"}
        BY <4>1, 1 .. 2 = {1, 2}
      <4>3. \A i \in 1 .. Len(ts) : (ts[i].do = "put" => type[ts[i].path] # "directory") /\ ts[i].do # "putDir"
        BY <2>1, <4>1, <4>2
      <4> QED BY <4>1, <4>3 DEF Justified
    <3> QED BY <2>3, <3>1, <3>2
  <2> QED BY <2>1, <2>3, <2>4, TrueAfter
<1>6. CASE LookForDir(c) /\ ~Throw(c)
  <2>1. Doing(c, "look") /\ UNCHANGED type
    BY <1>0, <1>6, LookForDirIs DEF stores
  <2>2. type[Root] = "directory"
    BY <1>1, <2>1, RootThere DEF InZone
  <2>3. CASE type[p] = "directory" /\ Proceed(c, <<>>)
    BY <2>1, <2>3, TrueAfter, NothingJustified, EmptyIsSeq
  <2>4. ASSUME type[p] = "none", NEW ts \in Seq(Transactions), Proceed(c, ts),
               \/ Parent(p) = Root /\ ts = <<T("putDir", p)>>
               \/ Parent(p) # Root /\ ts = <<T("look", Parent(p)), T("putDir", p)>>
        PROVE  StillTrue(c)'
    <3>1. Justified(ts, type) /\ ts # <<>>
      <4>1. CASE Parent(p) = Root /\ ts = <<T("putDir", p)>>
        <5>1. Len(ts) = 1 /\ ts[1].do = "putDir" /\ ts[1].path = p
          BY <4>1 DEF T
        <5>2. ts # <<>>
          <6>1. Len(ts) # 0
            BY <5>1
          <6> QED BY <6>1, EmptyIsSeq
        <5>3. 1 .. Len(ts) = {1} /\ type[Parent(ts[1].path)] = "directory" /\ type[ts[1].path] # "file"
          <6>1. 1 .. Len(ts) = {1} /\ type[p] # "file"
            BY <2>4, <5>1
          <6> QED BY <2>2, <4>1, <5>1, <6>1
        <5> QED BY <5>1, <5>2, <5>3 DEF Justified
      <4>2. CASE ts = <<T("look", Parent(p)), T("putDir", p)>>
        <5>1. /\ Len(ts) = 2 /\ ts[1].do = "look" /\ ts[1].path = Parent(p)
              /\ ts[2].do = "putDir" /\ ts[2].path = p
          BY <4>2 DEF T
        <5>2. ts # <<>>
          <6>1. Len(ts) # 0
            BY <5>1
          <6> QED BY <6>1, EmptyIsSeq
        <5>3. 1 .. Len(ts) = {1, 2} /\ "look" \notin {"put", "putDir"}
          BY <5>1, 1 .. 2 = {1, 2}
        <5>4. \A i \in 1 .. Len(ts) : (ts[i].do = "putDir" => type[ts[i].path] # "file") /\ ts[i].do # "put"
          BY <2>4, <5>1, <5>3
        <5> QED BY <5>1, <5>2, <5>4 DEF Justified
      <4> QED BY <2>4, <4>1, <4>2
    <3> QED BY <2>1, <2>4, <3>1, TrueAfter
  <2> QED BY <1>0, <1>6, <2>3, <2>4, LookForDirIs
<1>7. CASE PutDir(c) /\ ~Throw(c)
  <2>1. Doing(c, "putDir") /\ p \in Entries /\ Proceed(c, <<>>) /\ type' = [type EXCEPT ![p] = "directory"]
    BY <1>0, <1>7, PutDirIs
  <2>2. type'[p] = "directory" /\ \A q \in Paths : q # p => type'[q] = type[q]
    BY <1>0, <2>1 DEF FsTypes, Entries
  <2> QED BY <2>1, <2>2, TrueAfter, NothingJustified, EmptyIsSeq
<1>8. CASE (PutFile(c) \/ Purge(c) \/ TargetChildren(c)) /\ ~Throw(c)
  <2>1. \E do \in {"put", "purge", "children"} : Doing(c, do) /\ Proceed(c, <<>>)
    BY <1>0, <1>8, PutFileIs, PurgeIs, TargetChildrenIs
  <2>2. <<>> \in Seq(Transactions) /\ \A i \in 1 .. Len(<<>>) : <<>>[i].do \notin {"put", "putDir"}
    BY EmptyIsSeq
  <2> QED BY <2>1, <2>2, TrueAfterOther
<1>9. CASE (FindTarget(c) \/ ListTarget(c) \/ FindSource(c) \/ ListSource(c) \/ ReadEntry(c) \/ ReadBytes(c)) /\ ~Throw(c)
  <2>1. \E do \in {"target", "listTarget", "source", "copyDir", "readFile", "readBytes"}, ts \in Seq(Transactions) :
          /\ Doing(c, do) /\ Proceed(c, ts)
          /\ \A i \in 1 .. Len(ts) : ts[i].do \notin {"put", "putDir"}
    <3>1. CASE FindTarget(c)
      BY <1>0, <1>9, <3>1, FindTargetIs DEF T
    <3>2. CASE ListTarget(c)
      BY <1>0, <1>9, <3>2, ListTargetIs
    <3>3. CASE FindSource(c)
      BY <1>0, <1>9, <3>3, FindSourceIs DEF T, ReadFor, ListOf
    <3>4. CASE ListSource(c)
      BY <1>0, <1>9, <3>4, ListSourceIs
    <3>5. CASE ReadEntry(c)
      BY <1>0, <1>9, <3>5, ReadEntryIs
    <3>6. CASE ReadBytes(c)
      BY <1>0, <1>9, <3>6, ReadBytesIs DEF Check
    <3> QED BY <1>9, <3>1, <3>2, <3>3, <3>4, <3>5, <3>6
  <2> QED BY <2>1, TrueAfterOther
<1>10. CASE SourceChildren(c)
  <2>1. PICK ts \in Seq(Transactions) :
          /\ Doing(c, "copyChildren") /\ Proceed(c, ts)
          /\ \A i \in 1 .. Len(ts) : \E q \in Children(p) : ts[i] = Source(q, Moved(q, o.path, o.to))
    BY <1>0, <1>10, SourceChildrenIs
  <2>2. ASSUME NEW i \in 1 .. Len(ts)
        PROVE  ts[i].do \notin {"put", "putDir"}
    <3>1. \A q, to : Source(q, to).do = "source"
      BY DEF Source
    <3> QED BY <2>1, <3>1
  <2> QED BY <2>1, <2>2, TrueAfterOther
<1> QED BY <1>2, <1>3, <1>4, <1>5, <1>6, <1>7, <1>8, <1>9, <1>10 DEF Step

\* A step that finds its parents there keeps the tree.
LEMMA IsTreeStep ==
  ASSUME BaseInv, IsTree, NEW c \in Calls, StillTrue(c), Step(c)
  PROVE  IsTree'
<1> DEFINE f == todo[c][1]
           p == f.path
           o == op[c]
<1>0. /\ type \in [Paths -> {"none", "file", "directory"}] /\ content \in [Paths -> Data \cup {NoContent}]
      /\ type[Root] # "file" /\ FsTypes /\ Plans
  BY DEF BaseInv, FsTypes
<1>1. ASSUME NEW do, Doing(c, do)
      PROVE  f.do = do /\ f \in Transactions /\ InZone(f, o) /\ o \in Operations /\ 1 \in 1 .. Len(todo[c]) /\ todo[c] # <<>>
  <2>1. f.do = do /\ f \in Transactions /\ 1 \in 1 .. Len(todo[c]) /\ o \in Operations /\ todo[c] # <<>>
    BY <1>1, HeadIs DEF BaseInv
  <2> QED BY <2>1 DEF BaseInv, Plans, PlanOf
<1>2. ASSUME NEW d \in Calls, op[d].do = "delete", op[d].path = Root
      PROVE  op'[d].do = "delete" /\ op'[d].path = Root
  BY <1>2, OthersSame DEF NoOp
<1>3. ASSUME type'[Root] = "none", type[Root] # "none"
      PROVE  op'[c].do = "delete" /\ op'[c].path = Root
  <2>1. Purge(c)
    BY <1>0, <1>3, Writers, PutFileIs, PutDirIs, ParentIs DEF Entries
  <2>2. Doing(c, "purge") /\ p \in Paths /\ Under(Root, p)
    BY <1>0, <1>3, <2>1, PurgeIs, ParentIs
  <2>3. p = Root
    BY <2>2, UnderIs, ParentIs
  <2>4. o \in Operations /\ o.do \in {"delete", "move"} /\ o.path = Root
    BY <1>1, <2>2, <2>3 DEF InZone
  <2>5. o.do = "delete"
    BY <2>4, OperationIs DEF Entries
  <2> QED BY <1>2, <2>4, <2>5
<1>4. type'[Root] = "directory" \/ \E d \in Calls : op'[d].do = "delete" /\ op'[d].path = Root
  <2>1. CASE type'[Root] = "none" /\ type[Root] # "none"
    BY <1>3, <2>1
  <2>2. CASE type'[Root] # "none"
    <3>1. type'[Root] # "file" /\ type'[Root] \in {"none", "file", "directory"}
      BY FsTypesStep, <1>0, ParentIs DEF FsTypes
    <3> QED BY <2>2, <3>1
  <2>3. CASE type'[Root] = "none" /\ type[Root] = "none"
    BY <1>2, <2>3 DEF IsTree
  <2> QED BY <2>1, <2>2, <2>3
<1>5. WellFormed(type)' /\ \A q \in Paths : type'[q] # "file" => content'[q] = NoContent
  <2>1. CASE UNCHANGED <<type, content>>
    BY <2>1 DEF IsTree, WellFormed
  <2>2. CASE PutFile(c) /\ ~UNCHANGED <<type, content>>
    <3>1. /\ Doing(c, "put") /\ p \in Entries
          /\ type' = [type EXCEPT ![p] = "file"] /\ content' = [content EXCEPT ![p] = f.data]
      BY <1>0, <2>2, PutFileIs
    <3>2. type[p] # "directory" /\ type[Parent(p)] = "directory"
      BY <1>1, <3>1 DEF StillTrue
    <3>3. \A q \in Entries : Parent(q) \in Paths /\ Parent(q) # q
      BY ParentIs
    <3> HIDE DEF p
    <3>4. /\ type'[p] = "file" /\ \A q \in Paths : q # p => type'[q] = type[q] /\ content'[q] = content[q]
      BY <1>0, <3>1 DEF Entries
    <3>5. ASSUME NEW q \in Entries, type'[q] # "none"
          PROVE  type'[Parent(q)] = "directory"
      <4>1. type[Parent(q)] = "directory"
        BY <3>2, <3>4, <3>5 DEF IsTree, WellFormed, Entries
      <4> QED BY <3>2, <3>3, <3>4, <4>1
    <3> QED BY <3>4, <3>5 DEF IsTree, WellFormed, Entries
  <2>3. CASE PutDir(c) /\ ~UNCHANGED <<type, content>>
    <3>1. Doing(c, "putDir") /\ p \in Entries /\ UNCHANGED content /\ type' = [type EXCEPT ![p] = "directory"]
      BY <1>0, <2>3, PutDirIs
    <3>2. type[p] # "file" /\ type[Parent(p)] = "directory"
      BY <1>1, <3>1 DEF StillTrue
    <3>3. \A q \in Entries : Parent(q) \in Paths
      BY ParentIs
    <3> HIDE DEF p
    <3>4. /\ type'[p] = "directory" /\ \A q \in Paths : q # p => type'[q] = type[q]
      BY <1>0, <3>1 DEF Entries
    <3>5. ASSUME NEW q \in Entries, type'[q] # "none"
          PROVE  type'[Parent(q)] = "directory"
      <4>1. type[Parent(q)] = "directory"
        BY <3>2, <3>4, <3>5 DEF IsTree, WellFormed, Entries
      <4> QED BY <3>3, <3>4, <4>1
    <3>6. \A q \in Paths : type'[q] # "file" => content'[q] = NoContent
      BY <3>1, <3>2, <3>4 DEF IsTree
    <3> QED BY <3>5, <3>6 DEF WellFormed, Entries
  <2>4. CASE Purge(c) /\ ~UNCHANGED <<type, content>>
    <3>1. /\ p \in Paths
          /\ \A q \in Paths :
               IF Under(q, p)
               THEN type'[q] = "none" /\ content'[q] = IF type[q] # "none" THEN NoContent ELSE content[q]
               ELSE type'[q] = type[q] /\ content'[q] = content[q]
      BY <1>0, <2>4, PurgeIs
    <3> HIDE DEF p
    <3>2. ASSUME NEW q \in Entries, type'[q] # "none"
          PROVE  type'[Parent(q)] = "directory"
      <4>1. Parent(q) \in Paths /\ q \in Paths /\ ~Under(q, p) /\ type[q] # "none"
        BY <3>1, <3>2, ParentIs DEF Entries
      <4>2. ~Under(Parent(q), p) /\ type[Parent(q)] = "directory"
        BY <3>1, <4>1, UnderParent DEF IsTree, WellFormed, Entries
      <4> QED BY <3>1, <4>1, <4>2
    <3>3. \A q \in Paths : type'[q] # "file" => content'[q] = NoContent
      BY <3>1 DEF IsTree
    <3> QED BY <3>2, <3>3 DEF WellFormed, Entries
  <2> QED BY <2>1, <2>2, <2>3, <2>4, Writers
<1> QED BY <1>4, <1>5 DEF IsTree

\* The tree and what the calls know of it are inductive together.
LEMMA TreeStep ==
  ASSUME BaseInv, TreeInv, [FsNext]_fsVars
  PROVE  TreeInv'
<1> SUFFICES ASSUME ~Clashing'
             PROVE  IsTree' /\ \A c \in Calls : StillTrue(c)'
  BY DEF TreeInv
<1>1. CASE UNCHANGED fsVars
  BY <1>1 DEF fsVars, stores, calls, TreeInv, IsTree, WellFormed, StillTrue, Clashing, Clash
<1>2. ASSUME FsNext
      PROVE  ~Clashing /\ IsTree /\ \A c \in Calls : StillTrue(c)
  BY <1>2, ClashStays DEF TreeInv
<1>3. ASSUME NEW c \in Calls, Step(c)
      PROVE  IsTree' /\ \A d \in Calls : StillTrue(d)'
  <2>1. FsNext
    BY <1>3 DEF FsNext
  <2>2. ~Clashing /\ IsTree /\ \A d \in Calls : StillTrue(d)
    BY <1>2, <2>1
  <2> QED BY <1>3, <2>2, IsTreeStep, OwnTrue, OthersTrue
<1>4. CASE TabReloads
  <2>1. /\ content' = content /\ op' = op /\ type' = [type EXCEPT ![Root] = "directory"]
        /\ \A c \in Calls : todo'[c] = <<>>
    BY <1>4, TabReloadsIs DEF BaseInv
  <2>2. \A c \in Calls : StillTrue(c)'
    BY <2>1, EmptyIsSeq DEF StillTrue
  <2>3. IsTree
    BY <1>2, <1>4 DEF FsNext
  <2>4. type'[Root] = "directory" /\ \A q \in Paths : q # Root => type'[q] = type[q]
    BY <2>1, ParentIs DEF BaseInv, FsTypes
  <2>5. WellFormed(type)' /\ \A q \in Paths : type'[q] # "file" => content'[q] = NoContent
    <3>1. \A q \in Paths \ {Root} : type'[q] # "none" => type'[Parent(q)] = "directory"
      BY <2>3, <2>4, ParentIs DEF IsTree, WellFormed, Entries
    <3>2. \A q \in Paths : type'[q] # "file" => content'[q] = NoContent
      BY <2>1, <2>3, <2>4 DEF IsTree, BaseInv, FsTypes
    <3> QED BY <3>1, <3>2 DEF WellFormed
  <2> QED BY <2>2, <2>4, <2>5 DEF IsTree
<1> QED BY <1>1, <1>3, <1>4 DEF FsNext

\* An opened store is a tree.
LEMMA TreeStarts == FsInit => TreeInv
<1> SUFFICES ASSUME FsInit
             PROVE  IsTree /\ \A c \in Calls : StillTrue(c)
  BY DEF TreeInv
<1>1. IsTree
  BY DEF FsInit, IsTree
<1>2. ASSUME NEW c \in Calls
      PROVE  StillTrue(c)
  BY EmptyIsSeq DEF FsInit, StillTrue
<1> QED BY <1>1, <1>2

\* Calls on different parts of the tree keep it a tree, whatever fails and
\* whenever the tab is closed.
THEOREM TreeAlwaysKept == FsSpec => []TreeKept
<1> DEFINE Inv == BaseInv /\ FilesHaveBytes /\ TreeInv
<1>1. FsInit => Inv
  BY BaseStarts, TreeStarts
<1>2. Inv /\ [FsNext]_fsVars => Inv'
  BY BaseStep, TreeStep
<1>3. Inv => TreeKept
  BY DEF TreeInv, IsTree, TreeKept
<1> QED BY <1>1, <1>2, <1>3, PTL DEF FsSpec

----------------------------------------------------------------------------
(* Copies and moves *)

\* What a call that copies was called for.
LEMMA CopyingIs ==
  ASSUME BaseInv, NEW c \in Calls, Copying(c)
  PROVE  LET o == op[c] IN
         /\ o \in Operations /\ o # NoOp /\ o.path \in Entries /\ o.to \in Destinations(o.path) /\ o.path # o.to
         /\ o.path \in Touches(o) /\ o.to \in Touches(o) /\ o.to \in Entries
<1>1. op[c] \in Operations
  BY DEF Copying, BaseInv, FsTypes, NoOp
<1> QED BY <1>1, OperationIs DEF Copying, Touches

\* Where an entry is copied to is outside what is copied.
LEMMA NewPathIs ==
  ASSUME NEW o \in Operations, o.do \in {"copy", "move"}, NEW p \in Paths, Under(p, o.path)
  PROVE  /\ NewPath(o, p) \in Entries /\ NewPath(o, p) \in Paths /\ Under(NewPath(o, p), o.to)
         /\ o.path # o.to => ~Under(NewPath(o, p), o.path)
         /\ \A q \in Paths : Under(q, o.path) /\ NewPath(o, q) = NewPath(o, p) => q = p
<1>1. o.path \in Entries /\ o.to \in Destinations(o.path)
  BY OperationIs
<1> QED BY <1>1, MovedStays, MovedApart DEF NewPath, Entries

\* Another call changes nothing where this one copies from and to.
LEMMA OthersCopy ==
  ASSUME BaseInv, ~Clashing, NEW c \in Calls, Step(c), NEW d \in Calls, d # c, Copying(d), CopyOf(d)
  PROVE  CopyOf(d)'
<1> DEFINE o == op[d]
<1>1. op'[d] = o /\ todo'[d] = todo[d] /\ outcome'[d] = outcome[d] /\ before'[d] = before[d]
  BY OthersSame
<1>2. /\ o \in Operations /\ o # NoOp /\ o.do \in {"copy", "move"} /\ o.path \in Paths /\ o.to \in Paths
      /\ o.path \in Touches(o) /\ o.to \in Touches(o)
  BY CopyingIs DEF Copying, Entries
<1>3. ASSUME NEW q \in Paths, NEW u \in {o.path, o.to}, Under(q, u)
      PROVE  type'[q] = type[q] /\ content'[q] = content[q]
  <2> SUFFICES ASSUME type'[q] # type[q] \/ content'[q] # content[q]
               PROVE  FALSE
    OBVIOUS
  <2>1. op[c] \in Operations /\ \E t \in Touches(op[c]) : Comparable(q, t)
    BY Effects DEF Comparable
  <2>2. PICK t \in Touches(op[c]) : Comparable(q, t)
    BY <2>1
  <2>3. t \in Paths /\ op[c] # NoOp /\ u \in Touches(o) /\ u \in Paths
    BY <1>2, <2>1, OperationIs
  <2>4. Comparable(u, t)
    BY <1>3, <2>2, <2>3, Between
  <2> QED BY <1>2, <2>3, <2>4, Apart
<1>4. ASSUME NEW p \in Paths, Under(p, o.path)
      PROVE  content'[p] = content[p] /\ type'[p] = type[p] /\ content'[NewPath(o, p)] = content[NewPath(o, p)]
  BY <1>2, <1>3, <1>4, NewPathIs
<1> QED BY <1>1, <1>4 DEF CopyOf, Untouched, Copied, ToCopy

\* A call that goes on without writing any file.
LEMMA CopyAfter ==
  ASSUME BaseInv, NEW c \in Calls, Copying(c), CopyOf(c), UNCHANGED content,
         NEW do, Doing(c, do), do # "purge", NEW ts \in Seq(Transactions), Proceed(c, ts),
         do = "target" => ts # <<>>,
         \A p \in ToCopy(op[c], before[c]) :
           Brings(op[c], todo[c][1], p) => \E i \in 1 .. Len(ts) : Brings(op[c], ts[i], p),
         \A i \in 1 .. Len(ts) : Carries(op[c], before[c], ts[i])
  PROVE  CopyOf(c)'
<1> DEFINE s == todo[c]
           r == todo'[c]
           o == op[c]
           b == before[c]
<1>1. s # <<>> /\ s[1].do = do /\ outcome[c] = "running"
  BY HeadIs DEF BaseInv
<1>2. /\ Len(ts) \in Nat /\ Len(s) \in Nat /\ Len(s) >= 1 /\ Len(r) = Len(ts) + Len(s) - 1
      /\ \A i \in 1 .. Len(ts) : r[i] = ts[i]
      /\ \A j \in 2 .. Len(s) : r[Len(ts) + j - 1] = s[j]
      /\ op' = op /\ outcome' = outcome /\ before' = before
  BY <1>1, ProceedIs DEF BaseInv
<1>3. \A i \in 1 .. Len(r) : (i \in 1 .. Len(ts) /\ r[i] = ts[i]) \/ \E j \in 2 .. Len(s) : r[i] = s[j]
  BY <1>1, ProceedHas DEF BaseInv
<1>4. Untouched(o, b, content)
  BY <1>1 DEF CopyOf
<1>5. ASSUME NEW p \in ToCopy(o, b)
      PROVE  Copied(o, b, content, p) \/ \E i \in 1 .. Len(r) : Brings(o, r[i], p)
  <2>1. Copied(o, b, content, p) \/ \E i \in 1 .. Len(s) : Brings(o, s[i], p)
    BY <1>1 DEF CopyOf
  <2>2. ASSUME NEW i \in 1 .. Len(ts), Brings(o, ts[i], p)
        PROVE  \E k \in 1 .. Len(r) : Brings(o, r[k], p)
    BY <1>2, <2>2, i \in 1 .. Len(r)
  <2>3. ASSUME NEW j \in 2 .. Len(s), Brings(o, s[j], p)
        PROVE  \E k \in 1 .. Len(r) : Brings(o, r[k], p)
    <3>1. Len(ts) + j - 1 \in 1 .. Len(r) /\ r[Len(ts) + j - 1] = s[j]
      BY <1>2
    <3> QED BY <2>3, <3>1
  <2>4. \A i \in 1 .. Len(s) : i = 1 \/ i \in 2 .. Len(s)
    BY <1>2
  <2> QED BY <2>1, <2>2, <2>3, <2>4
<1>6. ASSUME o.do = "move", r = <<>>
      PROVE  FALSE
  <2>1. Len(r) = 0
    BY <1>6, EmptyIsSeq
  <2>2. Len(s) = 1 /\ Len(ts) = 0
    <3> DEFINE m == Len(ts)
               n == Len(s)
    <3>1. m \in Nat /\ n \in Nat /\ n >= 1 /\ 0 = m + n - 1
      BY <1>2, <2>1
    <3> HIDE DEF m, n
    <3>2. n = 1 /\ m = 0
      BY <3>1
    <3> QED BY <3>2 DEF m, n
  <2>3. s[1].do \in {"target", "purge"}
    BY <1>1, <1>6, <2>2 DEF BaseInv, Plans, PlanOf, EndsInPurge
  <2>4. ts = <<>>
    BY <2>2, EmptySeq
  <2> QED BY <1>1, <2>3, <2>4
<1>7. ASSUME NEW i \in 1 .. Len(r)
      PROVE  Carries(o, b, r[i])
  <2>1. ASSUME NEW j \in 2 .. Len(s)
        PROVE  Carries(o, b, s[j])
    BY <1>2, j \in 1 .. Len(s) DEF CopyOf
  <2> QED BY <1>3, <2>1
<1> HIDE DEF r
<1> QED BY <1>2, <1>4, <1>5, <1>6, <1>7 DEF CopyOf, r

\* A copy that throws leaves every file under its old path or its new one.
LEMMA CopyAfterThrow ==
  ASSUME BaseInv, NEW c \in Calls, Copying(c), CopyOf(c), UNCHANGED content, Throw(c)
  PROVE  CopyOf(c)'
<1>1. todo'[c] = <<>> /\ outcome'[c] = "failed" /\ op' = op /\ before' = before
  BY ThrowIs DEF BaseInv
<1> QED BY <1>1, EmptyIsSeq DEF CopyOf

\* A copy begins with every file untouched and its source on the plan.
LEMMA CopyBegins ==
  ASSUME BaseInv, NEW c \in Calls, Begin(c), Copying(c)'
  PROVE  CopyOf(c)'
<1>1. PICK o \in Operations :
        /\ op'[c] = o /\ todo'[c] = Plan(c, o)
        /\ o.do \in {"copy", "move"} => before'[c] = content
        /\ UNCHANGED stores
  BY BeginIs DEF BaseInv
<1>2. o.do \in {"copy", "move"} /\ before'[c] = content /\ content' = content
  BY <1>1 DEF Copying, stores
<1>3. Untouched(o, content, content)
  BY DEF Untouched
<1> DEFINE i == Source(o.path, o.to)
           j == Target(o.path, TRUE)
           ts == Plan(c, o)
<1>4. i \in Transactions /\ j \in Transactions
  BY <1>2, OperationIs, TransactionIn
<1>5. i.do = "source" /\ i.path = o.path /\ j.do = "target"
  BY DEF Source, Target
<1> HIDE DEF i, j
<1>6. ts = <<i>> \/ ts = <<i, j>>
  BY <1>2, PlanIs DEF i, j
<1>7. 1 \in 1 .. Len(ts) /\ ts[1] = i /\ ts # <<>> /\ \A k \in 1 .. Len(ts) : ts[k] \in {i, j}
  <2>1. CASE ts = <<i>>
    <3>1. Len(<<i>>) = 1 /\ <<i>>[1] = i
      BY <1>4, PairIs
    <3> QED BY <2>1, <3>1, EmptyIsSeq
  <2>2. CASE ts = <<i, j>>
    <3>1. Len(<<i, j>>) = 2 /\ <<i, j>>[1] = i /\ <<i, j>>[2] = j
      BY <1>4, PairIs
    <3> QED BY <2>2, <3>1, EmptyIsSeq
  <2> QED BY <1>6, <2>1, <2>2
<1> HIDE DEF ts
<1>8. \A p \in ToCopy(o, content) : Brings(o, ts[1], p)
  BY <1>5, <1>7 DEF ToCopy, Brings
<1>9. \A k \in 1 .. Len(ts) : Carries(o, content, ts[k])
  BY <1>5, <1>7 DEF Carries
<1> QED BY <1>1, <1>2, <1>3, <1>7, <1>8, <1>9 DEF CopyOf, ts

\* Putting a file that was read makes it copied and takes nothing else away.
LEMMA CopyPuts ==
  ASSUME BaseInv, NEW c \in Calls, Copying(c), CopyOf(c), PutFile(c), ~Throw(c)
  PROVE  CopyOf(c)'
<1> DEFINE s == todo[c]
           r == todo'[c]
           f == s[1]
           o == op[c]
           b == before[c]
<1>1. /\ Doing(c, "put") /\ f.path \in Paths /\ Proceed(c, <<>>)
      /\ content' = [content EXCEPT ![f.path] = f.data]
  BY PutFileIs DEF BaseInv, Entries
<1>2. s # <<>> /\ f.do = "put" /\ outcome[c] = "running" /\ 1 \in 1 .. Len(s) /\ Len(s) \in Nat
  BY <1>1, HeadIs DEF BaseInv
<1>3. /\ Len(r) = Len(s) - 1 /\ \A j \in 2 .. Len(s) : r[j - 1] = s[j]
      /\ op' = op /\ outcome' = outcome /\ before' = before
  <2>1. /\ Len(r) = Len(<<>>) + Len(s) - 1 /\ \A j \in 2 .. Len(s) : r[Len(<<>>) + j - 1] = s[j]
        /\ op' = op /\ outcome' = outcome /\ before' = before
    BY <1>1, <1>2, ProceedIs, EmptyIsSeq DEF BaseInv
  <2>2. \A j \in 2 .. Len(s) : Len(<<>>) + j - 1 = j - 1
    BY EmptyIsSeq
  <2> QED BY <1>2, <2>1, <2>2, EmptyIsSeq
<1>4. \A i \in 1 .. Len(r) : \E j \in 2 .. Len(s) : r[i] = s[j]
  BY <1>2, <1>3, \A i \in 1 .. Len(r) : i + 1 \in 2 .. Len(s) /\ (i + 1) - 1 = i
<1>5. o \in Operations /\ o.do \in {"copy", "move"} /\ o.path # o.to
  BY CopyingIs DEF Copying
<1>6. PICK p \in ToCopy(o, b) : f.path = NewPath(o, p) /\ f.data = b[p]
  BY <1>2 DEF CopyOf, Carries
<1>7. p \in Paths /\ Under(p, o.path)
  BY <1>6 DEF ToCopy
<1>8. content'[f.path] = f.data /\ \A q \in Paths : q # f.path => content'[q] = content[q]
  BY <1>1 DEF BaseInv, FsTypes
<1>9. Untouched(o, b, content')
  BY <1>2, <1>5, <1>6, <1>7, <1>8, NewPathIs DEF CopyOf, Untouched
<1>10. ASSUME NEW q \in ToCopy(o, b)
       PROVE  Copied(o, b, content', q) \/ \E i \in 1 .. Len(r) : Brings(o, r[i], q)
  <2>0. q \in Paths /\ Under(q, o.path) /\ NewPath(o, q) \in Paths
    BY <1>5, NewPathIs DEF ToCopy
  <2>1. CASE q = p
    BY <1>6, <1>8, <2>1 DEF Copied
  <2>2. CASE q # p
    <3>1. NewPath(o, q) # f.path
      BY <1>5, <1>6, <1>7, <2>0, <2>2, NewPathIs
    <3>2. ~Brings(o, f, q)
      BY <1>2, <3>1 DEF Brings
    <3>3. Copied(o, b, content, q) \/ \E i \in 1 .. Len(s) : Brings(o, s[i], q)
      BY <1>2 DEF CopyOf
    <3>4. Copied(o, b, content, q) => Copied(o, b, content', q)
      BY <1>8, <2>0, <3>1 DEF Copied
    <3>5. ASSUME NEW i \in 1 .. Len(s), Brings(o, s[i], q)
          PROVE  \E k \in 1 .. Len(r) : Brings(o, r[k], q)
      <4>1. i \in 2 .. Len(s) /\ i - 1 \in 1 .. Len(r)
        BY <1>2, <1>3, <3>2, <3>5
      <4> QED BY <1>3, <3>5, <4>1
    <3> QED BY <3>3, <3>4, <3>5
  <2> QED BY <2>1, <2>2
<1>11. ASSUME o.do = "move", r = <<>>
       PROVE  FALSE
  <2>1. Len(r) = 0
    BY <1>11, EmptyIsSeq
  <2> DEFINE n == Len(s)
  <2>2. n = 1
    <3>1. n \in Nat /\ 0 = n - 1
      BY <1>2, <1>3, <2>1
    <3> HIDE DEF n
    <3> QED BY <3>1
  <2>3. s[1].do \in {"target", "purge"}
    BY <1>2, <1>11, <2>2 DEF BaseInv, Plans, PlanOf, EndsInPurge
  <2> QED BY <1>2, <2>3
<1>12. \A i \in 1 .. Len(r) : Carries(o, b, r[i])
  BY <1>2, <1>4, \A j \in 2 .. Len(s) : j \in 1 .. Len(s) DEF CopyOf
<1> HIDE DEF r
<1> QED BY <1>3, <1>9, <1>10, <1>11, <1>12 DEF CopyOf, r

\* A move purges the source when nothing is left to copy.
LEMMA MovePurges ==
  ASSUME BaseInv, NEW c \in Calls, Copying(c), CopyOf(c), Purge(c), ~Throw(c)
  PROVE  CopyOf(c)'
<1> DEFINE s == todo[c]
           r == todo'[c]
           f == s[1]
           o == op[c]
           b == before[c]
<1>1. /\ Doing(c, "purge") /\ Proceed(c, <<>>)
      /\ \A q \in Paths :
           IF Under(q, f.path)
           THEN type'[q] = "none" /\ content'[q] = IF type[q] # "none" THEN NoContent ELSE content[q]
           ELSE type'[q] = type[q] /\ content'[q] = content[q]
  BY PurgeIs DEF BaseInv
<1>2. s # <<>> /\ f.do = "purge" /\ outcome[c] = "running" /\ 1 \in 1 .. Len(s) /\ Len(s) \in Nat
  BY <1>1, HeadIs DEF BaseInv
<1>3. Len(s) = 1 /\ f.path = o.path
  BY <1>2 DEF BaseInv, Plans, PlanOf, InOrder, InZone
<1>4. r = <<>> /\ op' = op /\ outcome' = outcome /\ before' = before
  <2>1. /\ Len(r) = Len(<<>>) + Len(s) - 1 /\ r \in Seq(Transactions)
        /\ op' = op /\ outcome' = outcome /\ before' = before
    BY <1>1, <1>2, ProceedIs, EmptyIsSeq DEF BaseInv
  <2>2. Len(r) = 0
    BY <1>3, <2>1, EmptyIsSeq
  <2> QED BY <2>1, <2>2, EmptySeq
<1>5. o \in Operations /\ o.do \in {"copy", "move"} /\ o.path # o.to
  BY CopyingIs DEF Copying
<1>6. ASSUME NEW p \in ToCopy(o, b)
      PROVE  Copied(o, b, content', p)
  <2>1. ~Brings(o, f, p)
    BY <1>2 DEF Brings
  <2>2. Copied(o, b, content, p)
    BY <1>2, <1>3, <2>1 DEF CopyOf
  <2>3. NewPath(o, p) \in Paths /\ ~Under(NewPath(o, p), f.path)
    BY <1>3, <1>5, NewPathIs DEF ToCopy
  <2> QED BY <1>1, <2>2, <2>3 DEF Copied
<1>7. \A p \in Paths : Under(p, o.path) => type'[p] = "none"
  BY <1>1, <1>3
<1> QED BY <1>4, <1>6, <1>7, EmptyIsSeq DEF CopyOf

\* Every step that reads puts all it has found on the plan.
LEMMA CopyReads ==
  ASSUME BaseInv, FilesHaveBytes, IsTree, NEW c \in Calls, Copying(c), CopyOf(c), ~Throw(c),
         FindSource(c) \/ ListSource(c) \/ SourceChildren(c) \/ ReadEntry(c) \/ ReadBytes(c)
  PROVE  CopyOf(c)'
<1> DEFINE s == todo[c]
           f == s[1]
           o == op[c]
           b == before[c]
<1>0. FsTypes /\ Plans
  BY DEF BaseInv
<1>1. ASSUME NEW do, Doing(c, do), do \in {"source", "copyDir", "copyChildren", "readFile", "readBytes"}
      PROVE  /\ f.do = do /\ f.path \in Paths /\ f.path # Root /\ f.to \in Entries
             /\ Under(f.path, o.path) /\ f.to = NewPath(o, f.path) /\ 1 \in 1 .. Len(s)
             /\ Untouched(o, b, content)
  <2>1. /\ f.do = do /\ f.path \in Paths /\ f.to \in Entries
        /\ Under(f.path, o.path) /\ f.to = Moved(f.path, o.path, o.to) /\ o.path \in Entries
    BY <1>0, <1>1, CopyZone
  <2>2. f.path # Root
    BY <2>1, UnderIs, ParentIs DEF Entries
  <2>3. s # <<>> /\ 1 \in 1 .. Len(s)
    BY <1>0, <1>1, HeadIs
  <2> QED BY <2>1, <2>2, <2>3 DEF CopyOf, NewPath
\* A file to copy is there, with the bytes it had.
<1>2. ASSUME NEW p \in ToCopy(o, b), Untouched(o, b, content)
      PROVE  p \in Paths /\ Under(p, o.path) /\ type[p] = "file" /\ content[p] = b[p] /\ b[p] # NoContent
  BY <1>2 DEF ToCopy, Untouched, IsTree
<1>3. ASSUME NEW do, Doing(c, do), do \in {"source", "copyDir", "copyChildren", "readFile", "readBytes"},
             NEW p \in ToCopy(o, b), Under(p, f.path), p # f.path
      PROVE  p \in Children(f.path) /\ type[f.path] = "directory"
  <2>1. f.path \in Paths /\ f.path # Root /\ p \in Paths /\ type[p] = "file"
    BY <1>1, <1>2, <1>3
  <2>2. p # Root /\ Parent(p) = f.path
    BY <1>3, <2>1, UnderIs
  <2> QED BY <2>1, <2>2 DEF Children, IsTree, WellFormed
<1>4. CASE FindSource(c)
  <2>1. Doing(c, "source") /\ UNCHANGED content
    BY <1>0, <1>4, FindSourceIs DEF stores
  <2>2. PICK ts \in Seq(Transactions) :
          /\ Proceed(c, ts)
          /\ \/ type[f.path] = "file" /\ ts = <<ReadFor(f.path, f.to)>>
             \/ type[f.path] = "directory" /\ ts = <<T("look", f.to), ListOf(f.path, f.to)>>
    BY <1>0, <1>4, FindSourceIs
  <2>3. ASSUME NEW p \in ToCopy(o, b), Brings(o, f, p)
        PROVE  Under(p, f.path) /\ (p = f.path <=> type[f.path] = "file")
    <3>1. f.do = "source" /\ Untouched(o, b, content)
      BY <1>1, <2>1
    <3>2. Under(p, f.path) /\ type[p] = "file"
      BY <1>2, <2>3, <3>1 DEF Brings
    <3> QED BY <1>3, <2>1, <3>2
  <2>4. CASE type[f.path] = "file" /\ ts = <<ReadFor(f.path, f.to)>>
    <3>1. f.path \in ToCopy(o, b)
      BY <1>1, <2>1, <2>4 DEF FilesHaveBytes, ToCopy, Untouched
    <3>2. Len(ts) = 1 /\ ts[1].do = "readFile" /\ ts[1].path = f.path
      BY <2>4 DEF ReadFor
    <3>3. \A i \in 1 .. Len(ts) : Carries(o, b, ts[i])
      BY <3>1, <3>2 DEF Carries
    <3>4. \A p \in ToCopy(o, b) : Brings(o, f, p) => Brings(o, ts[1], p)
      BY <2>3, <2>4, <3>2 DEF Brings
    <3>5. \A p \in ToCopy(o, b) : Brings(o, f, p) => \E i \in 1 .. Len(ts) : Brings(o, ts[i], p)
      BY <3>2, <3>4
    <3> QED BY <2>1, <2>2, <3>3, <3>5, CopyAfter
  <2>5. CASE type[f.path] = "directory" /\ ts = <<T("look", f.to), ListOf(f.path, f.to)>>
    <3>1. Len(ts) = 2 /\ ts[1].do = "look" /\ ts[2].do = "copyDir" /\ ts[2].path = f.path
      BY <2>5 DEF T, ListOf
    <3>2. \A i \in 1 .. Len(ts) : Carries(o, b, ts[i])
      BY <3>1 DEF Carries
    <3>3. \A p \in ToCopy(o, b) : Brings(o, f, p) => Brings(o, ts[2], p)
      BY <2>3, <2>5, <3>1 DEF Brings
    <3>4. \A p \in ToCopy(o, b) : Brings(o, f, p) => \E i \in 1 .. Len(ts) : Brings(o, ts[i], p)
      BY <3>1, <3>3
    <3> QED BY <2>1, <2>2, <3>2, <3>4, CopyAfter
  <2> QED BY <2>2, <2>4, <2>5
<1>5. CASE ListSource(c)
  <2>1. Doing(c, "copyDir") /\ UNCHANGED content
    BY <1>0, <1>5, ListSourceIs DEF stores
  <2>2. PICK ts \in Seq(Transactions) : Proceed(c, ts) /\ ts = <<[do |-> "copyChildren", path |-> f.path, to |-> f.to]>>
    BY <1>0, <1>5, ListSourceIs
  <2>3. Len(ts) = 1 /\ ts[1].do = "copyChildren" /\ ts[1].path = f.path /\ f.do = "copyDir"
    BY <1>1, <2>1, <2>2
  <2>4. \A i \in 1 .. Len(ts) : Carries(o, b, ts[i])
    BY <2>3 DEF Carries
  <2>5. \A p \in ToCopy(o, b) : Brings(o, f, p) => Brings(o, ts[1], p)
    BY <2>3 DEF Brings
  <2>6. \A p \in ToCopy(o, b) : Brings(o, f, p) => \E i \in 1 .. Len(ts) : Brings(o, ts[i], p)
    BY <2>3, <2>5
  <2> QED BY <2>1, <2>2, <2>4, <2>6, CopyAfter
<1>6. CASE SourceChildren(c)
  <2>1. Doing(c, "copyChildren") /\ UNCHANGED content
    BY <1>0, <1>6, SourceChildrenIs DEF stores
  <2>2. PICK ts \in Seq(Transactions) :
          /\ Proceed(c, ts)
          /\ \A i \in 1 .. Len(ts) : \E q \in Children(f.path) : ts[i] = Source(q, Moved(q, o.path, o.to))
          /\ \A q \in Children(f.path) : \E i \in 1 .. Len(ts) : ts[i] = Source(q, Moved(q, o.path, o.to))
    BY <1>0, <1>6, SourceChildrenIs
  <2>3. \A q, to : Source(q, to).do = "source" /\ Source(q, to).path = q
    BY DEF Source
  <2>4. \A i \in 1 .. Len(ts) : ts[i].do = "source"
    BY <2>2, <2>3
  <2>5. \A i \in 1 .. Len(ts) : Carries(o, b, ts[i])
    BY <2>4 DEF Carries
  <2>6. ASSUME NEW p \in ToCopy(o, b), Brings(o, f, p)
        PROVE  \E i \in 1 .. Len(ts) : Brings(o, ts[i], p)
    <3>1. Under(p, f.path) /\ p # f.path
      BY <1>1, <2>1, <2>6 DEF Brings
    <3>2. p \in Children(f.path) /\ Under(p, p)
      BY <1>3, <2>1, <3>1, UnderReflexive DEF ToCopy
    <3>3. PICK i \in 1 .. Len(ts) : ts[i] = Source(p, Moved(p, o.path, o.to))
      BY <2>2, <3>2
    <3> QED BY <2>3, <3>2, <3>3 DEF Brings
  <2> QED BY <2>1, <2>2, <2>5, <2>6, CopyAfter
<1>7. CASE ReadEntry(c)
  <2>1. Doing(c, "readFile") /\ UNCHANGED content
    BY <1>0, <1>7, ReadEntryIs DEF stores
  <2>2. PICK ts \in Seq(Transactions) : Proceed(c, ts) /\ ts = <<[do |-> "readBytes", path |-> f.path, to |-> f.to]>>
    BY <1>0, <1>7, ReadEntryIs
  <2>3. Len(ts) = 1 /\ ts[1].do = "readBytes" /\ ts[1].path = f.path /\ f.do = "readFile" /\ 1 \in 1 .. Len(s)
    BY <1>1, <2>1, <2>2
  <2>4. f.path \in ToCopy(o, b)
    BY <2>3 DEF CopyOf, Carries
  <2>5. \A i \in 1 .. Len(ts) : Carries(o, b, ts[i])
    BY <2>3, <2>4 DEF Carries
  <2>6. \A p \in ToCopy(o, b) : Brings(o, f, p) => Brings(o, ts[1], p)
    BY <2>3 DEF Brings
  <2>7. \A p \in ToCopy(o, b) : Brings(o, f, p) => \E i \in 1 .. Len(ts) : Brings(o, ts[i], p)
    BY <2>3, <2>6
  <2> QED BY <2>1, <2>2, <2>5, <2>7, CopyAfter
<1>8. CASE ReadBytes(c)
  <2> DEFINE data == IF content[f.path] = NoContent THEN EmptyBytes ELSE content[f.path]
  <2>1. Doing(c, "readBytes") /\ UNCHANGED content
    BY <1>0, <1>8, ReadBytesIs DEF stores
  <2>2. PICK ts \in Seq(Transactions) : Proceed(c, ts) /\ ts = <<Check(f.to, data, NoVersion)>>
    BY <1>0, <1>8, ReadBytesIs
  <2>3. f.do = "readBytes" /\ 1 \in 1 .. Len(s) /\ f.to = NewPath(o, f.path) /\ Untouched(o, b, content)
    BY <1>1, <2>1
  <2>4. f.path \in ToCopy(o, b)
    BY <2>3 DEF CopyOf, Carries
  <2>5. data = b[f.path]
    BY <1>2, <2>3, <2>4
  <2>6. Len(ts) = 1 /\ ts[1].do = "check" /\ ts[1].path = NewPath(o, f.path) /\ ts[1].data = b[f.path]
    BY <2>2, <2>3, <2>5 DEF Check
  <2>7. \A i \in 1 .. Len(ts) : Carries(o, b, ts[i])
    BY <2>4, <2>6 DEF Carries
  <2>8. \A p \in ToCopy(o, b) : Brings(o, f, p) => Brings(o, ts[1], p)
    BY <2>3, <2>6 DEF Brings
  <2>9. \A p \in ToCopy(o, b) : Brings(o, f, p) => \E i \in 1 .. Len(ts) : Brings(o, ts[i], p)
    BY <2>6, <2>8
  <2> QED BY <2>1, <2>2, <2>7, <2>9, CopyAfter
<1> QED BY <1>4, <1>5, <1>6, <1>7, <1>8

\* The check before the put carries the bytes on.
LEMMA CopyChecks ==
  ASSUME BaseInv, NEW c \in Calls, Copying(c), CopyOf(c), ~Throw(c), CheckTarget(c)
  PROVE  CopyOf(c)'
<1> DEFINE f == todo[c][1]
           o == op[c]
           b == before[c]
<1>1. Doing(c, "check") /\ UNCHANGED content
  BY CheckTargetIs DEF stores, BaseInv
<1>2. f.do = "check" /\ 1 \in 1 .. Len(todo[c])
  BY <1>1, HeadIs DEF BaseInv
<1>3. PICK ts \in Seq(Transactions) :
        /\ Proceed(c, ts)
        /\ \/ ts = <<Put(f.path, f.data)>>
           \/ ts = <<T("look", Parent(f.path)), Put(f.path, f.data)>>
  BY CheckTargetIs DEF BaseInv
<1>4. \E p \in ToCopy(o, b) : f.path = NewPath(o, p) /\ f.data = b[p]
  BY <1>2 DEF CopyOf, Carries
<1> DEFINE put == Put(f.path, f.data)
<1>5. put.do = "put" /\ put.path = f.path /\ put.data = f.data
  BY DEF Put
<1>6. Carries(o, b, put) /\ \A p : Brings(o, f, p) => Brings(o, put, p)
  BY <1>2, <1>4, <1>5 DEF Carries, Brings
<1>7. T("look", Parent(f.path)).do = "look"
  BY DEF T
<1>8. Carries(o, b, T("look", Parent(f.path)))
  BY <1>7 DEF Carries
<1>9. \A i \in 1 .. Len(ts) : Carries(o, b, ts[i])
  BY <1>3, <1>6, <1>8
<1>10. \E i \in 1 .. Len(ts) : ts[i] = put
  <2>1. CASE ts = <<put>>
    BY <2>1, Len(ts) = 1, ts[1] = put
  <2>2. CASE ts = <<T("look", Parent(f.path)), put>>
    BY <2>2, Len(ts) = 2, ts[2] = put
  <2> QED BY <1>3, <2>1, <2>2
<1> QED BY <1>1, <1>3, <1>6, <1>9, <1>10, CopyAfter

\* Making directories and finding the source to delete copies nothing.
LEMMA CopyBeside ==
  ASSUME BaseInv, NEW c \in Calls, Copying(c), CopyOf(c), ~Throw(c),
         LookForDir(c) \/ PutDir(c) \/ FindTarget(c) \/ ListTarget(c) \/ TargetChildren(c)
  PROVE  CopyOf(c)'
<1>0. FsTypes
  BY DEF BaseInv
<1>e. /\ <<>> \in Seq(Transactions)
      /\ \A i \in 1 .. Len(<<>>) : <<>>[i].do \in {"look", "putDir", "purge", "listTarget", "children"}
  BY EmptyIsSeq
<1>1. \E do \in {"look", "putDir", "target", "listTarget", "children"}, ts \in Seq(Transactions) :
        /\ Doing(c, do) /\ UNCHANGED content /\ Proceed(c, ts)
        /\ do = "target" => ts # <<>>
        /\ \A i \in 1 .. Len(ts) : ts[i].do \in {"look", "putDir", "purge", "listTarget", "children"}
  <2>1. CASE LookForDir(c)
    <3>1. Doing(c, "look") /\ UNCHANGED content
      BY <1>0, <2>1, LookForDirIs DEF stores
    <3>2. CASE Proceed(c, <<>>)
      BY <3>1, <3>2, <1>e
    <3>3. CASE ~Proceed(c, <<>>)
      BY <1>0, <2>1, <3>1, <3>3, LookForDirIs DEF T
    <3> QED BY <3>2, <3>3
  <2>2. CASE PutDir(c)
    <3>1. Doing(c, "putDir") /\ UNCHANGED content /\ Proceed(c, <<>>)
      BY <1>0, <2>2, PutDirIs
    <3> QED BY <3>1, <1>e
  <2>3. CASE FindTarget(c)
    <3>1. Doing(c, "target") /\ UNCHANGED content
      BY <1>0, <2>3, FindTargetIs DEF stores
    <3>2. PICK ts \in Seq(Transactions) :
            /\ Proceed(c, ts)
            /\ \/ ts = <<T("purge", todo[c][1].path)>>
               \/ ts = <<[do |-> "listTarget", path |-> todo[c][1].path, recursive |-> todo[c][1].recursive],
                         T("purge", todo[c][1].path)>>
      BY <1>0, <2>3, FindTargetIs
    <3>3. Len(ts) \in {1, 2} /\ \A i \in 1 .. Len(ts) : ts[i].do \in {"purge", "listTarget"}
      BY <3>2 DEF T
    <3>4. ts # <<>>
      BY <3>3, EmptyIsSeq
    <3>5. \A i \in 1 .. Len(ts) : ts[i].do \in {"look", "putDir", "purge", "listTarget", "children"}
      BY <3>3
    <3> QED BY <3>1, <3>2, <3>4, <3>5
  <2>4. CASE ListTarget(c)
    BY <1>0, <2>4, ListTargetIs DEF stores
  <2>5. CASE TargetChildren(c)
    <3>1. Doing(c, "children") /\ UNCHANGED content /\ Proceed(c, <<>>)
      BY <2>5, TargetChildrenIs DEF stores
    <3> QED BY <3>1, <1>e
  <2> QED BY <2>1, <2>2, <2>3, <2>4, <2>5
<1>2. PICK do \in {"look", "putDir", "target", "listTarget", "children"}, ts \in Seq(Transactions) :
        /\ Doing(c, do) /\ UNCHANGED content /\ Proceed(c, ts)
        /\ do = "target" => ts # <<>>
        /\ \A i \in 1 .. Len(ts) : ts[i].do \in {"look", "putDir", "purge", "listTarget", "children"}
  BY <1>1
<1>3. \A p : ~Brings(op[c], todo[c][1], p)
  BY <1>0, <1>2, HeadIs DEF Brings
<1>4. \A i \in 1 .. Len(ts) : Carries(op[c], before[c], ts[i])
  BY <1>2 DEF Carries
<1> QED BY <1>2, <1>3, <1>4, CopyAfter

\* A copy keeps its account through its own steps.
LEMMA OwnCopy ==
  ASSUME BaseInv, FilesHaveBytes, IsTree, NEW c \in Calls, Step(c),
         Copying(c) => CopyOf(c), Copying(c)'
  PROVE  CopyOf(c)'
<1>1. CASE Begin(c)
  BY <1>1, CopyBegins
<1>2. CASE ~Begin(c)
  <2>1. Copying(c) /\ CopyOf(c)
    <3>1. op' = op
      BY <1>2 DEF Step, Return, CheckTarget, PutFile, LookForDir, PutDir, FindTarget, ListTarget, TargetChildren, Purge,
         FindSource, ListSource, SourceChildren, ReadEntry, ReadBytes, Proceed, Throw
    <3> QED BY <3>1 DEF Copying
  <2>2. CASE Return(c)
    <3>1. /\ outcome[c] = "running" /\ outcome'[c] = "done"
          /\ UNCHANGED <<type, content, op, todo, before>>
      BY <2>2 DEF Return, stores, BaseInv, FsTypes
    <3> QED BY <2>1, <3>1 DEF CopyOf
  <2>3. CASE Throw(c)
    <3>1. CASE UNCHANGED content
      BY <2>1, <2>3, <3>1, CopyAfterThrow
    <3>2. CASE ~UNCHANGED content
      <4>1. todo'[c] = <<>> /\ todo[c] # <<>> /\ Proceed(c, <<>>)
        BY <2>3, <3>2, Writers, PutFileIs, PutDirIs, PurgeIs, ThrowIs, HeadIs DEF BaseInv
      <4>2. outcome'[c] = "failed" /\ outcome'[c] = outcome[c] /\ outcome[c] = "running"
        BY <2>3, <4>1, ThrowIs DEF Proceed, BaseInv, FsTypes
      <4> QED BY <4>2
    <3> QED BY <3>1, <3>2
  <2>4. CASE ~Throw(c) /\ ~Return(c)
    BY <1>2, <2>1, <2>4, CopyReads, CopyChecks, CopyBeside, CopyPuts, MovePurges DEF Step
  <2> QED BY <2>2, <2>3, <2>4
<1> QED BY <1>1, <1>2

\* The account of every copy is inductive, given the tree and the bytes.
LEMMA CopyStep ==
  ASSUME BaseInv, FilesHaveBytes, TreeInv, CopyInv, [FsNext]_fsVars
  PROVE  CopyInv'
<1> SUFFICES ASSUME ~Clashing', NEW c \in Calls, Copying(c)'
             PROVE  CopyOf(c)'
  BY DEF CopyInv
<1>1. CASE UNCHANGED fsVars
  BY <1>1 DEF fsVars, stores, calls, CopyInv, CopyOf, Copying, Clashing, Clash
<1>2. ASSUME FsNext
      PROVE  ~Clashing /\ IsTree /\ (Copying(c) => CopyOf(c))
  BY <1>2, ClashStays DEF TreeInv, CopyInv
<1>3. ASSUME NEW d \in Calls, Step(d)
      PROVE  CopyOf(c)'
  <2>1. ~Clashing /\ IsTree /\ (Copying(c) => CopyOf(c))
    BY <1>2, <1>3 DEF FsNext
  <2>2. CASE d = c
    BY <1>3, <2>1, <2>2, OwnCopy
  <2>3. CASE d # c
    <3>1. op'[c] = op[c]
      BY <1>3, <2>3, OthersSame
    <3>2. Copying(c)
      BY <3>1 DEF Copying
    <3> QED BY <1>3, <2>1, <2>3, <3>2, OthersCopy
  <2> QED BY <2>2, <2>3
<1>4. CASE TabReloads
  <2>1. /\ content' = content /\ op' = op /\ before' = before /\ type' = [type EXCEPT ![Root] = "directory"]
        /\ todo'[c] = <<>> /\ outcome'[c] = IF outcome[c] = "running" THEN "failed" ELSE outcome[c]
    BY <1>4, TabReloadsIs DEF BaseInv
  <2>2. Copying(c) /\ CopyOf(c)
    BY <1>2, <1>4, <2>1 DEF FsNext, Copying
  <2>3. outcome'[c] \in {"running", "done"} => outcome[c] = "done" /\ todo[c] = <<>>
    BY <2>1 DEF BaseInv, FsTypes
  <2>4. ASSUME NEW p \in Paths, Under(p, op[c].path)
        PROVE  type'[p] = type[p]
    <3>1. op[c].path \in Entries
      BY <2>2, CopyingIs
    <3>2. p # Root
      BY <2>4, <3>1, UnderIs, ParentIs DEF Entries
    <3> QED BY <2>1, <3>2 DEF BaseInv, FsTypes
  <2> QED BY <2>1, <2>2, <2>3, <2>4, EmptyIsSeq DEF CopyOf
<1> QED BY <1>1, <1>3, <1>4 DEF FsNext

\* Nothing is copied at first.
LEMMA CopyStarts == FsInit => CopyInv
  BY DEF FsInit, CopyInv, Copying, NoOp

\* A move that has run out of transactions has deleted what it was called for.
Gone(c) ==
  op[c].do = "move" /\ todo[c] = <<>> /\ outcome[c] \in {"running", "done"} =>
    \A p \in Paths : Under(p, op[c].path) => type[p] = "none"

GoneInv == ~Clashing => \A c \in Calls : Gone(c)

\* A transaction that does not throw leaves the rest of the plan, after what it
\* adds; finding the target adds the purge.
LEMMA Advances ==
  ASSUME BaseInv, NEW c \in Calls, Step(c), ~Begin(c), ~Return(c), ~Throw(c)
  PROVE  /\ \E do : Doing(c, do)
         /\ \E ts \in Seq(Transactions) : Proceed(c, ts) /\ (FindTarget(c) => ts # <<>>)
<1>0. FsTypes /\ Plans /\ <<>> \in Seq(Transactions)
  BY EmptyIsSeq DEF BaseInv
<1>1. \E do : Doing(c, do)
  BY DEF Step, CheckTarget, PutFile, LookForDir, PutDir, FindTarget, ListTarget, TargetChildren, Purge,
     FindSource, ListSource, SourceChildren, ReadEntry, ReadBytes
<1>2. CASE FindTarget(c)
  <2>1. PICK ts \in Seq(Transactions) :
          /\ Proceed(c, ts)
          /\ \/ ts = <<T("purge", todo[c][1].path)>>
             \/ ts = <<[do |-> "listTarget", path |-> todo[c][1].path, recursive |-> todo[c][1].recursive],
                       T("purge", todo[c][1].path)>>
    BY <1>0, <1>2, FindTargetIs
  <2>2. Len(ts) \in {1, 2}
    BY <2>1
  <2>3. ts # <<>>
    BY <2>2, EmptyIsSeq
  <2> QED BY <1>1, <2>1, <2>3
<1>3. CASE ~FindTarget(c)
  <2>1. \E ts \in Seq(Transactions) : Proceed(c, ts)
    <3>1. CASE PutFile(c) \/ PutDir(c) \/ Purge(c) \/ TargetChildren(c)
      BY <1>0, <3>1, PutFileIs, PutDirIs, PurgeIs, TargetChildrenIs
    <3>2. CASE CheckTarget(c)
      BY <1>0, <3>2, CheckTargetIs
    <3>3. CASE LookForDir(c)
      BY <1>0, <3>3, LookForDirIs
    <3>4. CASE ListTarget(c) \/ FindSource(c)
      BY <1>0, <3>4, ListTargetIs, FindSourceIs
    <3>5. CASE ListSource(c) \/ ReadEntry(c)
      BY <1>0, <3>5, ListSourceIs, ReadEntryIs
    <3>6. CASE ReadBytes(c)
      BY <1>0, <3>6, ReadBytesIs
    <3>7. CASE SourceChildren(c)
      BY <1>0, <3>7, SourceChildrenIs
    <3> QED BY <1>3, <3>1, <3>2, <3>3, <3>4, <3>5, <3>6, <3>7 DEF Step
  <2> QED BY <1>1, <1>3, <2>1
<1> QED BY <1>2, <1>3

\* The last transaction of a move is the purge of its source.
LEMMA OwnGone ==
  ASSUME BaseInv, NEW c \in Calls, Step(c), Gone(c)
  PROVE  Gone(c)'
<1>1. SUFFICES ASSUME op'[c].do = "move", todo'[c] = <<>>, outcome'[c] \in {"running", "done"},
                       NEW p \in Paths, Under(p, op'[c].path)
                PROVE  type'[p] = "none"
  BY DEF Gone
<1>0. FsTypes
  BY DEF BaseInv
<1>2. CASE Begin(c)
  <2>1. PICK o \in Operations : op'[c] = o /\ todo'[c] = Plan(c, o)
    BY <1>0, <1>2, BeginIs
  <2>2. o.do = "move" /\ Plan(c, o) = <<Source(o.path, o.to), Target(o.path, TRUE)>> /\ Plan(c, o) \in Seq(Transactions)
    BY <1>1, <2>1, PlanIs
  <2>3. Len(Plan(c, o)) = 2
    BY <2>2
  <2> QED BY <1>1, <2>1, <2>2, <2>3, EmptySeq
<1>3. CASE Return(c)
  BY <1>1, <1>3 DEF Return, stores, Gone
<1>4. CASE Throw(c)
  BY <1>0, <1>1, <1>4, ThrowIs
<1>5. CASE ~Begin(c) /\ ~Return(c) /\ ~Throw(c)
  <2>1. PICK do : Doing(c, do)
    BY <1>5, Advances
  <2>2. PICK ts \in Seq(Transactions) : Proceed(c, ts) /\ (FindTarget(c) => ts # <<>>)
    BY <1>5, Advances
  <2>3. todo[c] # <<>> /\ Len(todo[c]) \in Nat /\ 1 \in 1 .. Len(todo[c]) /\ todo[c][1].do = do
    BY <1>0, <2>1, HeadIs
  <2>4. Len(ts) \in Nat /\ op' = op
    BY <1>0, <2>2, <2>3, ProceedIs
  <2>5. Len(ts) + Len(todo[c]) - 1 = 0
    <3>1. todo'[c] \in Seq(Transactions)
      BY <1>0, <2>2, <2>3, ProceedIs
    <3> DEFINE s == todo'[c]
    <3>2. s = <<>> /\ s \in Seq(Transactions)
      BY <1>1, <3>1
    <3> HIDE DEF s
    <3>3. Len(s) = 0
      BY <3>2, EmptySeq
    <3>4. Len(s) = Len(ts) + Len(todo[c]) - 1
      BY <1>0, <2>2, <2>3, ProceedIs DEF s
    <3> QED BY <3>3, <3>4
  <2>6. Len(todo[c]) = 1 /\ Len(ts) = 0
    <3> DEFINE m == Len(ts)
               n == Len(todo[c])
    <3>1. m \in Nat /\ n \in Nat /\ n >= 1 /\ m + n - 1 = 0
      BY <1>0, <2>2, <2>3, <2>5, ProceedIs
    <3> HIDE DEF m, n
    <3>2. n = 1 /\ m = 0
      BY <3>1
    <3> QED BY <3>2 DEF m, n
  <2>7. do \in {"target", "purge"} /\ InZone(todo[c][1], op[c])
    <3>1. op[c].do = "move" /\ PlanOf(c)
      BY <1>1, <2>4 DEF BaseInv, Plans
    <3>2. todo[c][Len(todo[c])].do \in {"target", "purge"} /\ InZone(todo[c][1], op[c])
      BY <2>3, <3>1 DEF PlanOf, EndsInPurge
    <3> QED BY <2>3, <2>6, <3>2
  <2>8. FindTarget(c) \/ Purge(c)
    BY <1>5, <2>1, <2>7 DEF Step, Doing, CheckTarget, PutFile, LookForDir, PutDir, ListTarget,
       TargetChildren, FindSource, ListSource, SourceChildren, ReadEntry, ReadBytes
  <2>9. Purge(c) /\ todo[c][1].path = op[c].path
    BY <2>2, <2>3, <2>6, <2>7, <2>8, EmptySeq DEF InZone
  <2>10. \A q \in Paths : Under(q, op[c].path) => type'[q] = "none"
    BY <1>0, <1>5, <2>9, PurgeIs
  <2> QED BY <1>1, <2>4, <2>10
<1> QED BY <1>2, <1>3, <1>4, <1>5

\* Another call puts nothing where a move was.
LEMMA OthersGone ==
  ASSUME BaseInv, ~Clashing, NEW c \in Calls, Step(c), NEW d \in Calls, d # c, Gone(d)
  PROVE  Gone(d)'
<1>1. op'[d] = op[d] /\ todo'[d] = todo[d] /\ outcome'[d] = outcome[d]
  BY OthersSame
<1>2. ASSUME op[d].do = "move", NEW q \in Paths, Under(q, op[d].path)
      PROVE  type'[q] = type[q]
  <2> SUFFICES ASSUME type'[q] # type[q]
               PROVE  FALSE
    OBVIOUS
  <2>1. op[d] \in Operations
    BY <1>2 DEF BaseInv, FsTypes, NoOp
  <2>2. op[d] # NoOp /\ op[d].path \in Touches(op[d]) /\ op[d].path \in Paths
    BY <2>1, OperationIs
  <2>3. op[c] \in Operations /\ \E t \in Touches(op[c]) : Comparable(q, t)
    BY Effects
  <2>4. PICK t \in Touches(op[c]) : Comparable(q, t)
    BY <2>3
  <2>5. t \in Paths /\ op[c] # NoOp
    BY <2>3, OperationIs
  <2>6. Comparable(op[d].path, t)
    BY <1>2, <2>2, <2>4, <2>5, Between
  <2> QED BY <2>2, <2>5, <2>6, Apart
<1> QED BY <1>1, <1>2 DEF Gone

\* What a move has deleted stays deleted while no other call works there.
LEMMA GoneStep ==
  ASSUME BaseInv, GoneInv, [FsNext]_fsVars
  PROVE  GoneInv'
<1> SUFFICES ASSUME ~Clashing', NEW c \in Calls
             PROVE  Gone(c)'
  BY DEF GoneInv
<1>1. CASE UNCHANGED fsVars
  BY <1>1 DEF fsVars, stores, calls, GoneInv, Gone, Clashing, Clash
<1>2. ASSUME FsNext
      PROVE  ~Clashing /\ Gone(c)
  BY <1>2, ClashStays DEF GoneInv
<1>3. ASSUME NEW d \in Calls, Step(d)
      PROVE  Gone(c)'
  BY <1>2, <1>3, OwnGone, OthersGone DEF FsNext
<1>4. CASE TabReloads
  <2>1. /\ op' = op /\ type' = [type EXCEPT ![Root] = "directory"]
        /\ outcome'[c] = IF outcome[c] = "running" THEN "failed" ELSE outcome[c]
    BY <1>4, TabReloadsIs DEF BaseInv
  <2>2. outcome'[c] \in {"running", "done"} => outcome[c] = "done" /\ todo[c] = <<>>
    BY <2>1 DEF BaseInv, FsTypes
  <2>3. ASSUME op[c].do = "move", NEW p \in Paths, Under(p, op[c].path)
        PROVE  type'[p] = type[p]
    <3>1. op[c] \in Operations
      BY <2>3 DEF BaseInv, FsTypes, NoOp
    <3>2. op[c].path \in Entries
      BY <2>3, <3>1, OperationIs
    <3>3. p # Root
      BY <2>3, <3>2, UnderIs, ParentIs DEF Entries
    <3> QED BY <2>1, <3>3 DEF BaseInv, FsTypes
  <2> QED BY <1>2, <1>4, <2>1, <2>2, <2>3 DEF Gone, FsNext
<1> QED BY <1>1, <1>3, <1>4 DEF FsNext

\* Nothing has moved at first.
LEMMA GoneStarts == FsInit => GoneInv
  BY DEF FsInit, GoneInv, Gone, NoOp

FsInv == BaseInv /\ FilesHaveBytes /\ TreeInv /\ CopyInv /\ GoneInv

\* The inductive invariant of the filesystem.
THEOREM FsInvAlways == FsSpec => []FsInv
<1>1. FsInit => FsInv
  BY BaseStarts, TreeStarts, CopyStarts, GoneStarts DEF FsInv
<1>2. FsInv /\ [FsNext]_fsVars => FsInv'
  BY BaseStep, TreeStep, CopyStep, GoneStep DEF FsInv
<1> QED BY <1>1, <1>2, PTL DEF FsSpec

\* A move to another path, interrupted anywhere, has every file under the old
\* path or the new.
THEOREM MoveAlwaysKeeps == FsSpec => []MoveNeverLoses
<1>1. FsInv => MoveNeverLoses
  <2> SUFFICES ASSUME FsInv, NEW c \in Calls, op[c].do = "move", ~Clashing, op[c].path # op[c].to,
                      NEW p \in Paths, Under(p, op[c].path), before[c][p] # NoContent
               PROVE  before[c][p] \in {content[p], content[Moved(p, op[c].path, op[c].to)]}
    BY DEF MoveNeverLoses
  <2>1. CopyOf(c) /\ p \in ToCopy(op[c], before[c])
    BY DEF FsInv, CopyInv, Copying, ToCopy
  <2> QED BY <2>1 DEF CopyOf, Untouched, Copied, NewPath
<1> QED BY <1>1, FsInvAlways, PTL

\* A copy or move to another path that reports success has brought every file;
\* any move that does has left nothing where it was, onto itself too.
THEOREM CopyAlwaysComplete == FsSpec => []CopyComplete
<1>1. FsInv => CopyComplete
  <2> SUFFICES ASSUME FsInv, NEW c \in Calls, outcome[c] = "done", op[c].do \in {"copy", "move"}, ~Clashing
               PROVE  /\ op[c].path # op[c].to =>
                           \A p \in Paths : Under(p, op[c].path) /\ before[c][p] # NoContent =>
                             content[Moved(p, op[c].path, op[c].to)] = before[c][p]
                      /\ op[c].do = "move" => \A p \in Paths : Under(p, op[c].path) => type[p] = "none"
    BY DEF CopyComplete
  <2>1. todo[c] = <<>> /\ Gone(c)
    BY DEF FsInv, GoneInv, BaseInv, FsTypes
  <2>2. ASSUME op[c].path # op[c].to
        PROVE  \A p \in ToCopy(op[c], before[c]) : Copied(op[c], before[c], content, p)
    <3>1. CopyOf(c)
      BY <2>2 DEF FsInv, CopyInv, Copying
    <3> QED BY <2>1, <3>1, EmptyIsSeq DEF CopyOf
  <2> QED BY <2>1, <2>2 DEF Copied, NewPath, ToCopy, Gone
<1> QED BY <1>1, FsInvAlways, PTL

=============================================================================
