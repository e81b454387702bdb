------------------------------ MODULE BottomPanel ------------------------------
(***************************************************************************)
(* The bottom panel: the fields of layout-store.ts that place it, the      *)
(* commands and buttons that change them, the drag of its handle           *)
(* (BottomPanel.tsx, useDragResize.ts), whose frames interleave with them, *)
(* and the layout a session stores and brings back.                        *)
(***************************************************************************)
EXTENDS Integers

CONSTANTS
  Collapsed,    \* PANEL_COLLAPSED_HEIGHT
  ExpandedMin,  \* PANEL_EXPANDED_MIN_HEIGHT
  Default,      \* the panelHeight of DEFAULT_LAYOUT
  Heights,      \* the heights a drag may pass through
  Nothing,
  MaxMoves      \* bound: how often the user acts

ASSUME PanelAssumption ==
  /\ Collapsed \in Nat /\ ExpandedMin \in Nat /\ Default \in Nat
  /\ Collapsed + 2 <= ExpandedMin /\ ExpandedMin <= Default
  /\ Heights \subseteq {h \in Nat : h >= Collapsed}
  /\ Nothing \notin Nat /\ Nothing \notin [start : Nat, last : Nat]
  /\ MaxMoves \in Nat

VARIABLES
  visible, maximized, height, tab,  \* panelVisible, panelMaximized, panelHeight, bottomPanelTab
  lastExpanded,  \* lastExpandedPanelHeight
  drag,          \* the drag under way: its dragStartHeight and its last height, or Nothing
  saved,         \* the layout stored with the session, or Nothing
  rested,        \* history: the last height the panel rested at expanded; Nothing once
                 \* a command has collapsed the panel during a drag, or a layout was
                 \* brought back collapsed or during a drag, until it rests again
  dragged,       \* history: a drag went on while the panel was maximized
  moves

panelVars == <<visible, maximized, height, tab, lastExpanded, drag, saved, rested, dragged>>

Snap == (Collapsed + ExpandedMin) \div 2

Larger(a, b) == IF a < b THEN b ELSE a

\* The height a collapsed panel comes back with.
Restored == Larger(lastExpanded, ExpandedMin)

Act == moves < MaxMoves /\ moves' = moves + 1

Layout(vis, max, h, t, odd) == [visible |-> vis, maximized |-> max, height |-> h, tab |-> t, odd |-> odd]

PanelInit ==
  /\ visible = FALSE /\ maximized = FALSE /\ height = Default /\ tab = "terminal"
  /\ lastExpanded = Larger(Default, ExpandedMin)
  /\ drag = Nothing /\ saved = Nothing
  /\ rested = Default /\ dragged = FALSE
  /\ moves = 0

\* What the history keeps of a step that is not the drag's own.
Settle ==
  /\ rested' = IF height' = height THEN rested
               ELSE IF drag # Nothing THEN IF height' > Collapsed THEN rested ELSE Nothing
               ELSE IF height' > Collapsed THEN height' ELSE rested
  /\ dragged' = (dragged /\ maximized')

----------------------------------------------------------------------------
(* layout-store.ts *)

\* The close button: setPanelVisible(false).
Close ==
  /\ Act /\ visible
  /\ visible' = FALSE /\ maximized' = FALSE
  /\ UNCHANGED <<height, tab, lastExpanded, drag, saved>>
  /\ Settle

SetTab(t) ==
  /\ Act /\ visible /\ tab' = t
  /\ UNCHANGED <<visible, maximized, height, lastExpanded, drag, saved, rested, dragged>>

\* Ctrl and backquote.
ToggleTerminalFocus ==
  /\ Act
  /\ tab' = "terminal"
  /\ IF visible /\ tab = "terminal"
     THEN visible' = FALSE /\ maximized' = FALSE /\ UNCHANGED height
     ELSE /\ visible' = TRUE
          /\ height' = IF height <= Collapsed THEN Restored ELSE height
          /\ UNCHANGED maximized
  /\ UNCHANGED <<lastExpanded, drag, saved>>
  /\ Settle

\* Mutant: a maximized panel counts as collapsed when its stored height is.
TogglePanelCollapsed_HeightOnly ==
  /\ Act
  /\ visible' = TRUE
  /\ IF visible /\ height > Collapsed
     THEN height' = Collapsed /\ lastExpanded' = height /\ UNCHANGED maximized
     ELSE height' = Restored /\ UNCHANGED lastExpanded /\ maximized' = FALSE
  /\ UNCHANGED <<tab, drag, saved>>
  /\ Settle

\* Cmd+J, and a double click on the handle.
TogglePanelCollapsed ==
  /\ Act
  /\ visible' = TRUE /\ maximized' = FALSE
  /\ IF visible /\ (maximized \/ height > Collapsed)
     THEN /\ height' = Collapsed
          /\ lastExpanded' = IF height > Collapsed THEN height ELSE lastExpanded
     ELSE height' = Restored /\ UNCHANGED lastExpanded
  /\ UNCHANGED <<tab, drag, saved>>
  /\ Settle

ToggleMaximizePanel ==
  /\ Act
  /\ visible' = TRUE /\ maximized' = ~maximized
  /\ height' = IF ~maximized /\ height <= Collapsed THEN Restored ELSE height
  /\ UNCHANGED <<tab, lastExpanded, drag, saved>>
  /\ Settle

\* getLayoutSnapshot, when the autosave stores the session.
SaveLayout ==
  /\ Act
  /\ saved' = Layout(visible, maximized, height, tab, dragged)
  /\ UNCHANGED <<visible, maximized, height, tab, lastExpanded, drag, rested, dragged>>

\* hydrate: the session's layout, or the default one; lastExpandedPanelHeight is
\* in neither, and stays what it was, or the default after a reload.
HydrateLayout(l, reloaded) ==
  /\ Act
  /\ visible' = l.visible /\ maximized' = l.maximized /\ height' = l.height /\ tab' = l.tab
  /\ lastExpanded' = IF reloaded THEN Larger(Default, ExpandedMin) ELSE lastExpanded
  /\ drag' = IF reloaded THEN Nothing ELSE drag
  /\ rested' = IF l.height > Collapsed /\ drag' = Nothing THEN l.height ELSE Nothing
  /\ dragged' = l.odd
  /\ UNCHANGED saved

----------------------------------------------------------------------------
(* The drag *)

Drag(start, last) == [start |-> start, last |-> last]

\* onHandlePointerDown; a maximized panel shows no handle.
DragStart ==
  /\ Act /\ visible /\ ~maximized /\ drag = Nothing
  /\ drag' = Drag(height, height)
  /\ UNCHANGED <<visible, maximized, height, tab, lastExpanded, saved, rested, dragged>>

\* A frame: setPanelHeight, whatever has happened to the panel meanwhile.
DragMove(h) ==
  /\ Act /\ drag # Nothing
  /\ drag' = Drag(drag.start, h)
  /\ height' = h
  /\ dragged' = (dragged \/ maximized)
  /\ UNCHANGED <<visible, maximized, tab, lastExpanded, saved, rested>>

\* Mutant: what is remembered is where the drag ended.
DragCommit_Final ==
  /\ drag # Nothing
  /\ drag' = Nothing
  /\ IF drag.last < Snap
     THEN height' = Collapsed /\ lastExpanded' = Larger(drag.last, ExpandedMin)
     ELSE UNCHANGED height /\ lastExpanded' = Larger(drag.last, ExpandedMin)
  /\ rested' = IF height' > Collapsed THEN height' ELSE rested
  /\ dragged' = (dragged \/ maximized)
  /\ UNCHANGED <<visible, maximized, tab, saved, moves>>

\* The release: below the threshold the panel collapses and remembers the height
\* the drag started from.
DragCommit ==
  /\ drag # Nothing
  /\ drag' = Nothing
  /\ IF drag.last < Snap
     THEN /\ height' = Collapsed
          /\ lastExpanded' = IF drag.start > Collapsed THEN Larger(drag.start, ExpandedMin)
                             ELSE lastExpanded
     ELSE UNCHANGED height /\ lastExpanded' = Larger(drag.last, ExpandedMin)
  /\ rested' = IF height' > Collapsed THEN height' ELSE rested
  /\ dragged' = (dragged \/ maximized)
  /\ UNCHANGED <<visible, maximized, tab, saved, moves>>

DefaultLayout == Layout(FALSE, FALSE, Default, "terminal", FALSE)

PanelNext ==
  \/ Close \/ ToggleTerminalFocus \/ TogglePanelCollapsed \/ ToggleMaximizePanel
  \/ \E t \in {"terminal", "problems"} : SetTab(t)
  \/ SaveLayout
  \/ \E reloaded \in BOOLEAN :
       \E l \in {DefaultLayout, saved} \ {Nothing} : HydrateLayout(l, reloaded)
  \/ DragStart \/ DragCommit
  \/ \E h \in Heights : DragMove(h)

PanelSpec == PanelInit /\ [][PanelNext]_<<panelVars, moves>>

----------------------------------------------------------------------------
(* Properties *)

\* A closed panel is not maximized, so that opening it never comes back
\* fullscreen, and under a maximized one there is a real height to go back to,
\* unless a drag begun before went on under it.
MaximizedShown ==
  /\ ~visible => ~maximized
  /\ maximized /\ ~dragged => height > Collapsed

\* Collapsing the panel, by a command while nothing is dragged or by a drag, whatever
\* else was done during the drag, does not lose the height to restore: it is the one
\* the panel last rested at.  layout-store.ts says so of every collapse, but a command
\* that collapses the panel during a drag stores the height of that moment, and the
\* release leaves it when the drag began collapsed (300 kept, dragged up to 60, Cmd+J,
\* released: 120); and a layout stored collapsed does not hold the height at all.
CollapseRemembers ==
  drag = Nothing /\ height <= Collapsed /\ rested # Nothing =>
    Restored = Larger(rested, ExpandedMin)
============================================================================
