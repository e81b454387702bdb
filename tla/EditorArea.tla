------------------------------ MODULE EditorArea ------------------------------
(***************************************************************************)
(* The editor on top of the workspaces: the pane that shows the active tab *)
(* (EditorArea.tsx, useFileBuffer.ts, KnoxEditor.tsx), the Monaco models   *)
(* that model-registry.ts keeps by path for as long as the page lives, and *)
(* the saves under way.  A text is named by the workspace its model was    *)
(* first read in and by the move that made it, 0 for a file nobody edited. *)
(***************************************************************************)
EXTENDS Workspaces, FiniteSets

CONSTANTS
  MaxSaves    \* bound: saves under way at once

ASSUME EditorAssumption == MaxSaves \in Nat

VARIABLES
  models,     \* model-registry: path -> None or [of, stack, saved]: the edits that can
              \* be undone, the last one on top, and the one savedVersion names
  disk,       \* what each workspace's file system holds at each path, None if nothing
  pane,       \* SingleFilePane: None or [ws, path, key, st]; key is the file system its
              \* keydown listener closed over
  saving,     \* save() calls awaiting writeFile; live while their pane is mounted
  seen,       \* history: the text of each path that this page last read into its
              \* model or wrote
  unmarked,   \* history: paths whose dirty mark or saved version is known to be off
  shared      \* history: paths whose model a pane of another workspace has reused, or
              \* that were given the text of such a path

edVars == <<models, disk, pane, saving, seen, unmarked, shared>>
vars == <<wsVars, edVars>>

Text(ws, edit) == [of |-> ws, edit |-> edit]

Model(of, stack, saved) == [of |-> of, stack |-> stack, saved |-> saved]

Value(m) == Text(m.of, Last(m.stack))

Pane(ws, p, key, st) == [ws |-> ws, path |-> p, key |-> key, st |-> st]

Saving(ws, p, text, live) == [ws |-> ws, path |-> p, text |-> text, live |-> live]

EdInit ==
  /\ WsInit
  /\ models = [p \in Path |-> None]
  /\ disk = [w \in Workspace |-> [p \in Path |-> Text(w, 0)]]
  /\ pane = None /\ saving = {}
  /\ seen = [p \in Path |-> None]
  /\ unmarked = {} /\ shared = {}

----------------------------------------------------------------------------
(* The pane follows the stores: React renders again in the turn of a change *)

ActiveTab == \E i \in DOMAIN tabs : tabs[i].path = activePath

\* useFileBuffer reads again when the file system or the path changes; the
\* component, its key the path, and its keydown listener stay when only the file
\* system does.
PaneFollows ==
  /\ pane' = IF ~(ShellShown' /\ ActiveTab') THEN None
             ELSE IF pane = None \/ pane.path # activePath'
               THEN Pane(metadata', activePath', metadata', "loading")
             ELSE IF pane.ws # metadata' THEN Pane(metadata', pane.path, pane.key, "loading")
             ELSE pane
  /\ saving' = {Saving(s.ws, s.path, s.text,
                       s.live /\ pane' # None /\ pane'.path = s.path) : s \in saving}

\* Paths whose model holds something its saved version does not.
Modified == {p \in Path : models[p] # None /\ Last(models[p].stack) # models[p].saved}

\* The step deletes a workspace with what is stored of its tabs.
Deleted(w) == sessions[w] # None /\ sessions'[w] = None

\* Leaving a workspace whose tabs the autosave has not stored yet, or stored last
\* in one of the two windows, or was refused to store, loses the dirty marks; so
\* does deleting it.
Workspaces_Step ==
  /\ WorkspaceStep
  /\ PaneFollows
  /\ unmarked' = unmarked \cup
       {p \in Modified : \/ /\ metadata' # metadata /\ models[p].of = metadata
                           /\ (timer # "none" \/ metadata \in mixed)
                        \/ Deleted(models[p].of)}
  /\ UNCHANGED <<models, disk, seen, shared>>

\* openFile from the explorer, the palette, the search or git; tab clicks.
Tabs_Step ==
  /\ \/ \E p \in Path : SetActive(p) \/ PinTab(p)
     \/ \E p \in Path, preview \in BOOLEAN : OpenFile(p, preview)
  /\ PaneFollows
  /\ UNCHANGED <<models, disk, seen, unmarked, shared>>

\* A tab is closed, "anyway" or by a command that does not ask: its model stays.
Close_Step ==
  /\ CloseAll \/ \E p \in Path : CloseTab(p)
  /\ PaneFollows
  /\ unmarked' = unmarked \cup {p \in Modified : IsOpen(p) /\ ~IsOpen(p)'}
  /\ UNCHANGED <<models, disk, seen, shared>>

\* A reload: what only the page held is gone, a write under way is made or not.
Reload_Step ==
  /\ Reload
  /\ models' = [p \in Path |-> None] /\ pane' = None /\ saving' = {}
  /\ \/ UNCHANGED disk
     \/ \E s \in saving : disk' = [disk EXCEPT ![s.ws][s.path] = s.text]
  /\ seen' = [p \in Path |-> None] /\ unmarked' = {}
  /\ UNCHANGED shared

----------------------------------------------------------------------------
(* SingleFilePane *)

\* The file is read and the editor mounted: modelRegistry.get makes a model of
\* the text, unless the path has one, whatever the workspace that is from.
Loaded ==
  /\ pane # None /\ pane.st = "loading"
  /\ disk[pane.ws][pane.path] # None
  /\ pane' = Pane(pane.ws, pane.path, pane.key, "text")
  /\ LET t == disk[pane.ws][pane.path]
     IN  IF models[pane.path] = None
         THEN /\ models' = [models EXCEPT ![pane.path] = Model(t.of, <<t.edit>>, t.edit)]
              /\ seen' = [seen EXCEPT ![pane.path] = t]
              /\ UNCHANGED shared
         ELSE /\ UNCHANGED <<models, seen>>
              /\ shared' = IF models[pane.path].of = pane.ws THEN shared
                           ELSE shared \cup {pane.path}
  /\ UNCHANGED <<wsVars, disk, saving, unmarked>>

\* No such file, not readable, too large, an image or binary: no editor.
NotText ==
  /\ pane # None /\ pane.st = "loading"
  /\ pane' = Pane(pane.ws, pane.path, pane.key, "other")
  /\ UNCHANGED <<wsVars, models, disk, saving, seen, unmarked, shared>>

InEditor == pane # None /\ pane.st = "text"

\* Mutant: the preview is not pinned by its first edit.
Changed_StaysPreview(stack) ==
  LET p == pane.path
      m == models[p]
  IN  /\ models' = [models EXCEPT ![p] = Model(m.of, stack, m.saved)]
      /\ SetDirty(p, Last(stack) # m.saved, FALSE)
      /\ unmarked' = IF ReadingSession THEN unmarked \cup {p} ELSE unmarked
      /\ UNCHANGED <<disk, pane, saving, seen, shared>>

\* onChange: the dirty mark is Monaco's version against the saved one.  A session
\* still being read will replace the tab.
Changed(stack) ==
  LET p == pane.path
      m == models[p]
  IN  /\ models' = [models EXCEPT ![p] = Model(m.of, stack, m.saved)]
      /\ SetDirty(p, Last(stack) # m.saved, Last(stack) # m.saved)
      /\ unmarked' = IF ReadingSession THEN unmarked \cup {p} ELSE unmarked
      /\ UNCHANGED <<disk, pane, saving, seen, shared>>

Type ==
  /\ InEditor /\ Move
  /\ Changed(Append(models[pane.path].stack, moves + 1))

\* Undo, down to the text the model was made with.
Undo ==
  /\ InEditor /\ Len(models[pane.path].stack) > 1
  /\ Changed(Front(models[pane.path].stack))
  /\ UNCHANGED moves

\* Ctrl+S in the editor saves to the workspace shown; elsewhere in the window the
\* listener does, with the file system it closed over.
Save(ws) ==
  /\ InEditor /\ Cardinality(saving) < MaxSaves
  /\ ws \in {pane.ws, pane.key}
  /\ saving' = saving \cup {Saving(ws, pane.path, Value(models[pane.path]), TRUE)}
  /\ shared' = IF ws = pane.ws THEN shared ELSE shared \cup {pane.path}
  /\ UNCHANGED <<wsVars, models, disk, pane, seen, unmarked>>

\* Mutant: the file goes to whatever workspace is open when it is written.
Saved_Current(s) ==
  /\ s \in saving /\ metadata # None
  /\ saving' = saving \ {s}
  /\ disk' = [disk EXCEPT ![metadata][s.path] = s.text]
  /\ SetDirty(s.path, FALSE, FALSE)
  /\ UNCHANGED <<moves, models, pane, seen, unmarked, shared>>

\* writeFile is done: markSaved, if the editor is still there, takes the version
\* the model has by now, and the tab is clean.
Saved(s) ==
  LET p == s.path
      marks == s.live /\ InEditor
      exact == models[p] # None /\ Value(models[p]) = s.text
  IN  /\ s \in saving
      /\ saving' = saving \ {s}
      /\ disk' = [disk EXCEPT ![s.ws][p] = s.text]
      /\ seen' = [seen EXCEPT ![p] = s.text]
      /\ models' = IF marks THEN [models EXCEPT ![p] = Model(@.of, @.stack, Last(@.stack))]
                   ELSE models
      /\ SetDirty(p, FALSE, FALSE)
      /\ unmarked' = IF marks /\ exact /\ \A r \in saving : r.path = p => r = s
                     THEN unmarked \ {p} ELSE unmarked \cup {p}
      /\ UNCHANGED <<moves, pane, shared>>

\* writeFile rejects: nobody catches it, and nothing is marked.
SaveFails(s) ==
  /\ s \in saving
  /\ saving' = saving \ {s}
  /\ UNCHANGED <<wsVars, models, disk, pane, seen, unmarked, shared>>

----------------------------------------------------------------------------
\* Somebody else writes a file of the workspace shown: git's discard, checkout and
\* pull, a shell, the explorer, another page or program.  It is new, gone, or what
\* another path held.  Neither the pane nor the registry watches: tabs, models and
\* marks stay.  A write before the page has read the file is left out: it is as if
\* the file had been so from the start.
Outside(p) ==
  /\ ShellShown /\ models[p] # None /\ Move
  /\ \E t \in {Text(metadata, moves + 1), None} \cup {disk[metadata][q] : q \in Path \ {p}} :
       /\ disk' = [disk EXCEPT ![metadata][p] = t]
       /\ shared' = IF t # None /\ t.of # metadata THEN shared \cup {p} ELSE shared
  /\ UNCHANGED <<dbVars, phase, metadata, tabVars, timer, callVars, tabsOf, crossed, mixed>>
  /\ UNCHANGED <<models, pane, saving, seen, unmarked>>

EdNext ==
  \/ Workspaces_Step \/ Tabs_Step \/ Close_Step \/ Reload_Step
  \/ Loaded \/ NotText \/ Type \/ Undo
  \/ \E w \in Workspace : Save(w)
  \/ \E p \in Path : Outside(p)
  \/ \E s \in saving : Saved(s) \/ SaveFails(s)

EdSpec == EdInit /\ [][EdNext]_vars

----------------------------------------------------------------------------
(* Properties *)

\* An open tab whose text is not what the page last read of its file or wrote to it
\* has its dirty mark, so that closing it asks first, unless one of the cases the
\* code leaves open is behind it: a save that ended after its pane or its text had
\* moved on, text typed while the session is read, a tab closed with unsaved text, a
\* workspace deleted with it, or left before the autosave had stored its tabs, when
\* that was refused, or when it last stored them in one of the two windows of
\* TabsStayHome, a model of another workspace.  What others write to the file is
\* another matter: no mark tells of it, and a save writes over it.
DirtyTold ==
  ShellShown /\ tabsOf = metadata =>
    \A i \in DOMAIN tabs :
      LET p == tabs[i].path
      IN  /\ models[p] # None /\ models[p].of = metadata
          /\ p \notin unmarked \cup shared
          /\ Value(models[p]) # seen[p]
          => tabs[i].dirty

\* A file only ever holds text of its own workspace, unless its model was reused
\* by a pane of another one, or it was copied from such a file.
OwnText ==
  \A w \in Workspace, p \in Path :
    disk[w][p] # None /\ disk[w][p].of # w => p \in shared
============================================================================
