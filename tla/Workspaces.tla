------------------------------ MODULE Workspaces ------------------------------
(***************************************************************************)
(* The web app's workspaces: workspace-controller.ts over the two object   *)
(* stores of workspace-persistence.ts that it keeps its records in, the    *)
(* workspace store, the list of open tabs (editor-store.ts), the debounced *)
(* session autosave, and the screens App.tsx shows.  Opening, creating and *)
(* deleting a workspace, and the autosave timer, interleave at every       *)
(* await; the page may be reloaded at any moment.                          *)
(***************************************************************************)
EXTENDS Naturals, Sequences, SequencesExt

CONSTANTS
  Workspace,  \* ids (createId never repeats one)
  Folder,     \* those of them that are local folders (createWorkspaceFromDirectory)
  Path,       \* file paths, the same in every workspace
  None,
  Kept,       \* what an earlier visit left: the recent list of the first page
  MaxMoves    \* bound: how often the user opens, creates, deletes or leaves a
              \* workspace, or opens, closes, picks or pins a tab, or types

\* A pinned tab is one that is no preview: pinTab sets both, and only openFile
\* makes a preview.
Tab == [path : Path, preview : BOOLEAN, dirty : BOOLEAN]

SavedTabs == [tabs : Seq(Tab), active : Path \cup {None}, of : Workspace \cup {None}]

ASSUME WorkspacesAssumption ==
  /\ None \notin Workspace
  /\ None \notin Path
  /\ None \notin SavedTabs
  /\ Folder \subseteq Workspace
  /\ Kept \in Seq(Workspace)
  /\ MaxMoves \in Nat

VARIABLES
  stored,     \* WORKSPACES: ids, the most recently opened first
  unused,     \* ids not handed out yet
  sessions,   \* SESSIONS: id -> the tabs saved for it, or None
  phase,      \* workspace-store: "none", "loading", "ready", "error"
  metadata,   \* workspace-store: the id of metadata, and of fs: they are set together
  tabs,       \* editor-store: the open tabs, in order
  activePath,
  timer,      \* the autosave: "none", "due", or "lost" when it ran, the store rejected
              \* it, and nothing has changed since (history: the code does not know)
  opening,    \* the openWorkspace call under way, or NoCall
  creating,   \* the id createWorkspace is making, or None
  checked,    \* App: restoreChecked
  tabsOf,     \* history: the workspace the open tabs were last hydrated for
  crossed,    \* history: a project was created while openWorkspace read a session
  mixed,      \* history: ids whose session was saved between setReady and hydrate,
              \* or after such a crossing
  moves

dbVars == <<stored, unused, sessions>>
tabVars == <<tabs, activePath>>
callVars == <<opening, creating, checked>>
wsVars == <<dbVars, phase, metadata, tabVars, timer, callVars, tabsOf, crossed, mixed, moves>>

Phases == {"none", "loading", "ready", "error"}

Elements(s) == {s[i] : i \in DOMAIN s}

\* The elements of s at the positions at, in their order.
Sublist(s, at) ==
  [k \in 1 .. Cardinality(at) |-> s[CHOOSE i \in at : Cardinality({j \in at : j <= i}) = k]]

\* An id is in a list once.
Without(s, e) ==
  IF e \in Elements(s) THEN RemoveAt(s, CHOOSE i \in DOMAIN s : s[i] = e) ELSE s

\* The list of recent workspaces is on the screen, and can be clicked.
Welcome == phase = "none" /\ checked

\* The shell, and with it the editor, is on the screen.
ShellShown == phase = "ready" /\ metadata # None

Move == moves < MaxMoves /\ moves' = moves + 1

Empty == [tabs |-> <<>>, active |-> None, of |-> None]

\* useEditorStore.hydrate, and the autosave its change schedules.
Hydrate(w, saved) ==
  /\ tabs' = saved.tabs
  /\ activePath' = saved.active
  /\ tabsOf' = w
  /\ timer' = "due"

Call(w, clicked, pc, read) == [id |-> w, clicked |-> clicked, pc |-> pc, read |-> read]

NoCall == Call(None, FALSE, "none", None)

WsInit ==
  /\ stored = Kept /\ unused = Workspace \ Elements(Kept) /\ sessions = [w \in Workspace |-> None]
  /\ phase = "none" /\ metadata = None
  /\ tabs = <<>> /\ activePath = None /\ timer = "none"
  /\ opening = NoCall /\ creating = None /\ checked = FALSE
  /\ tabsOf = None /\ crossed = FALSE /\ mixed = {}
  /\ moves = 0

----------------------------------------------------------------------------
(* openWorkspace *)

\* setLoading, and the first await: the metadata stays until setReady.
StartOpening(w, clicked) ==
  /\ phase' = "loading"
  /\ opening' = Call(w, clicked, "list", None)
  /\ crossed' = FALSE

\* A row of the recent list is clicked.  The record of a row deleted a moment
\* ago may be gone already.
Open(w) ==
  /\ Welcome /\ opening.pc = "none" /\ Move
  /\ w \notin unused /\ w # creating
  /\ StartOpening(w, TRUE)
  /\ UNCHANGED <<dbVars, metadata, tabVars, timer, creating, checked, tabsOf, mixed>>

\* App's effect at the start of the page: the most recent workspace is opened.
Restore ==
  /\ ~checked
  /\ checked' = TRUE
  /\ IF stored # <<>> THEN StartOpening(Head(stored), FALSE) ELSE UNCHANGED <<phase, opening, crossed>>
  /\ UNCHANGED <<dbVars, metadata, tabVars, timer, creating, tabsOf, mixed, moves>>

\* listWorkspaces answers and the record is there.
OpenListed ==
  /\ opening.pc = "list"
  /\ opening.id \in Elements(stored)
  /\ opening' = Call(opening.id, opening.clicked, "fs", None)
  /\ UNCHANGED <<dbVars, phase, metadata, tabVars, timer, creating, checked, tabsOf, crossed, mixed, moves>>

\* The file system is there and the record saved (last opened now); setReady,
\* and getSession's transaction is issued in the same turn.
OpenReady ==
  /\ opening.pc = "fs"
  /\ stored' = <<opening.id>> \o Without(stored, opening.id)
  /\ phase' = "ready" /\ metadata' = opening.id
  /\ opening' = Call(opening.id, opening.clicked, "session", sessions[opening.id])
  /\ UNCHANGED <<unused, sessions, tabVars, timer, creating, checked, tabsOf, crossed, mixed, moves>>

\* Mutant: a workspace without a session keeps the tabs that are there.
OpenHydrate_KeepsTabs ==
  /\ opening.pc = "session"
  /\ opening' = NoCall
  /\ IF opening.read = None THEN UNCHANGED <<tabVars, tabsOf, timer>>
     ELSE Hydrate(opening.id, opening.read)
  /\ UNCHANGED <<dbVars, phase, metadata, creating, checked, crossed, mixed, moves>>

\* getSession answers: the tabs, whatever workspace is open by now.
OpenHydrate ==
  /\ opening.pc = "session"
  /\ opening' = NoCall
  /\ Hydrate(opening.id, IF opening.read = None THEN Empty ELSE opening.read)
  /\ UNCHANGED <<dbVars, phase, metadata, creating, checked, crossed, mixed, moves>>

\* The record is missing, or a call is refused: a lost folder handle, a
\* permission not granted, a storage error.  The catch sets the error, even
\* when setReady has been called.
OpenFails ==
  /\ opening.pc # "none"
  /\ opening' = NoCall
  /\ phase' = "error"
  /\ UNCHANGED <<dbVars, metadata, tabVars, timer, creating, checked, tabsOf, crossed, mixed, moves>>

----------------------------------------------------------------------------
(* createWorkspace and createWorkspaceFromDirectory, deleteWorkspace, reset *)

\* An openWorkspace call is between its setReady and its hydrate.
ReadingSession == opening.pc = "session"

\* The first await; the phase is left alone, so the recent list stays usable.
Create(w) ==
  /\ Welcome /\ creating = None /\ Move
  /\ w \in unused
  /\ unused' = unused \ {w}
  /\ creating' = w
  /\ UNCHANGED <<stored, sessions, phase, metadata, tabVars, timer, opening, checked, tabsOf, crossed, mixed>>

\* File system, README and record are made; setReady and hydrate in one turn.
Created ==
  /\ creating # None
  /\ stored' = <<creating>> \o stored
  /\ phase' = "ready" /\ metadata' = creating
  /\ Hydrate(creating, Empty)
  /\ crossed' = ReadingSession
  /\ creating' = None
  /\ UNCHANGED <<unused, sessions, opening, checked, mixed, moves>>

\* No capability, no space, or the picker is cancelled: Welcome shows the error.
CreateFails ==
  /\ creating # None
  /\ creating' = None
  /\ UNCHANGED <<dbVars, phase, metadata, tabVars, timer, opening, checked, tabsOf, crossed, mixed, moves>>

\* One transaction deletes the record, the session and the settings.
Delete(w) ==
  /\ Welcome /\ Move
  /\ w \in Elements(stored)
  /\ stored' = Without(stored, w)
  /\ sessions' = [sessions EXCEPT ![w] = None]
  /\ UNCHANGED <<unused, phase, metadata, tabVars, timer, callVars, tabsOf, crossed, mixed>>

\* workspace.goHome, or the title bar: the tabs stay in their store.
GoHome ==
  /\ ShellShown /\ Move
  /\ phase' = "none" /\ metadata' = None
  /\ UNCHANGED <<dbVars, tabVars, timer, callVars, tabsOf, crossed, mixed>>

----------------------------------------------------------------------------
(* startSessionAutosave *)

Snapshot == [tabs |-> tabs, active |-> activePath, of |-> tabsOf]

\* flush: the workspace and the tabs of this very moment.  The put that a reload
\* cuts off is a reload before the timer.
SaveSession ==
  IF ShellShown
  THEN /\ sessions' = [sessions EXCEPT ![metadata] = Snapshot]
       /\ mixed' = IF crossed \/ ReadingSession
                   THEN mixed \cup {metadata} ELSE mixed \ {metadata}
  ELSE UNCHANGED <<sessions, mixed>>

\* The timer fires, 500 ms after the last change.  The put may be rejected (no
\* space): nobody awaits it, and only the next change of a store saves again.
Flush ==
  /\ timer = "due"
  /\ \/ SaveSession /\ timer' = "none"
     \/ ShellShown /\ timer' = "lost" /\ UNCHANGED <<sessions, mixed>>
  /\ UNCHANGED <<stored, unused, phase, metadata, tabVars, callVars, tabsOf, crossed, moves>>

\* The page is reloaded: beforeunload flushes, and the write may or may not
\* reach the store; everything in memory is gone.
Reload ==
  /\ (SaveSession \/ UNCHANGED <<sessions, mixed>>)
  /\ phase' = "none" /\ metadata' = None
  /\ tabs' = <<>> /\ activePath' = None /\ tabsOf' = None /\ timer' = "none"
  /\ opening' = NoCall /\ creating' = None /\ checked' = FALSE /\ crossed' = FALSE
  /\ UNCHANGED <<stored, unused, moves>>

----------------------------------------------------------------------------
(* editor-store.ts, which only the shell's components call *)

StoreChange ==
  /\ ShellShown
  /\ Move
  /\ timer' = "due"
  /\ UNCHANGED <<dbVars, phase, metadata, callVars, tabsOf, crossed, mixed>>

IsOpen(p) == \E i \in DOMAIN tabs : tabs[i].path = p

NewTab(p, preview) == [path |-> p, preview |-> preview, dirty |-> FALSE]

\* A preview takes the place of the one there is.
OpenFile(p, preview) ==
  /\ StoreChange
  /\ activePath' = p
  /\ tabs' = IF IsOpen(p) THEN tabs
             ELSE Append(IF preview THEN Sublist(tabs, {i \in DOMAIN tabs : ~tabs[i].preview}) ELSE tabs,
                         NewTab(p, preview))

\* The tab that takes the closed one's place, or the last one.
CloseTab(p) ==
  /\ StoreChange
  /\ IsOpen(p)
  /\ LET i == CHOOSE j \in DOMAIN tabs : tabs[j].path = p
         left == Sublist(tabs, {j \in DOMAIN tabs : tabs[j].path # p})
     IN  /\ tabs' = left
         /\ activePath' = IF activePath # p THEN activePath
                          ELSE IF left = <<>> THEN None
                          ELSE left[IF i <= Len(left) THEN i ELSE Len(left)].path

CloseAll == StoreChange /\ tabs # <<>> /\ tabs' = <<>> /\ activePath' = None

\* Mutant: only a change of the list schedules a save.
SetActive_NotSaved(p) ==
  /\ ShellShown /\ Move /\ IsOpen(p) /\ activePath' = p
  /\ UNCHANGED <<dbVars, phase, metadata, tabs, timer, callVars, tabsOf, crossed, mixed>>

SetActive(p) == StoreChange /\ IsOpen(p) /\ activePath' = p /\ UNCHANGED tabs

\* pinTab: a double click on the tab.
Pin(t) == [t EXCEPT !.preview = FALSE]

PinTab(p) ==
  /\ StoreChange
  /\ IsOpen(p)
  /\ tabs' = [i \in DOMAIN tabs |-> IF tabs[i].path = p THEN Pin(tabs[i]) ELSE tabs[i]]
  /\ UNCHANGED activePath

\* setDirty, and pinTab for a preview tab that becomes dirty.
SetDirty(p, dirty, pin) ==
  /\ tabs' = [i \in DOMAIN tabs |->
       IF tabs[i].path # p THEN tabs[i]
       ELSE [path |-> p, dirty |-> dirty,
             preview |-> tabs[i].preview /\ ~pin]]
  /\ timer' = "due"
  /\ UNCHANGED <<dbVars, phase, metadata, activePath, callVars, tabsOf, crossed, mixed>>

----------------------------------------------------------------------------
\* What opens or closes workspaces, except a reload.
WorkspaceStep ==
  \/ \E w \in Workspace : Open(w) \/ Create(w) \/ Delete(w)
  \/ Restore \/ OpenListed \/ OpenReady \/ OpenHydrate \/ OpenFails
  \/ Created \/ CreateFails \/ GoHome \/ Flush

TabStep ==
  \/ \E p \in Path, preview \in BOOLEAN : OpenFile(p, preview)
  \/ \E p \in Path : CloseTab(p) \/ SetActive(p) \/ PinTab(p)
  \/ CloseAll

WsNext ==
  \/ WorkspaceStep \/ TabStep \/ Reload
  \/ \E p \in Path, dirty, pin \in BOOLEAN : SetDirty(p, dirty, pin) /\ (Move \/ UNCHANGED moves)

WsSpec == WsInit /\ [][WsNext]_wsVars

----------------------------------------------------------------------------
(* Properties *)

\* Once the autosave's timer has run and no call is under way, what the store
\* keeps for the open workspace is what its tabs are: a page that dies now comes
\* back with them (workspace-controller.ts: every store change reschedules).  When
\* the store rejected that save nothing retries it, and a page that dies before the
\* next change comes back with what was stored before, or with nothing.
SessionSaved ==
  ShellShown /\ opening.pc = "none" /\ timer = "none" => sessions[metadata] = Snapshot

\* The tabs shown are those of the workspace shown, and the tabs stored for a
\* workspace are its own, except in the two windows the code leaves open: a
\* session being read after setReady, and a project created during that read.
TabsStayHome ==
  /\ ShellShown /\ ~ReadingSession /\ ~crossed => tabsOf = metadata
  /\ \A w \in Workspace : sessions[w] # None /\ sessions[w].of # w => w \in mixed

\* A local folder is not given back to a page that opens it without a click: its
\* permission has not outlived the browser.
Ungranted == opening.pc # "none" /\ opening.id \in Folder /\ ~opening.clicked

\* The steps of a page on which nothing else fails and which the user reloads
\* only to get out of an error.
TrapNext ==
  \/ \E w \in Workspace : Open(w) \/ Create(w) \/ Delete(w)
  \/ Restore \/ OpenListed \/ (~Ungranted /\ OpenReady) \/ OpenHydrate
  \/ (Ungranted /\ OpenFails)
  \/ Created \/ GoHome \/ (Flush /\ timer' = "none")
  \/ (phase = "error" /\ Reload)

\* The browser answers every call, and the user does reload.
TrapSpec ==
  /\ WsInit /\ [][TrapNext]_wsVars
  /\ WF_wsVars(Restore) /\ WF_wsVars(OpenListed) /\ WF_wsVars(OpenHydrate)
  /\ WF_wsVars(~Ungranted /\ OpenReady) /\ WF_wsVars(Ungranted /\ OpenFails)
  /\ WF_wsVars(Created) /\ WF_wsVars(phase = "error" /\ Reload)

\* The error of openFsaWorkspace tells the user to open the folder again: from
\* the error screen the list of workspaces, or a workspace, is reached again.
ErrorIsLeft == phase = "error" ~> (Welcome \/ ShellShown)
============================================================================
