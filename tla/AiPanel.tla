-------------------------------- MODULE AiPanel --------------------------------
(***************************************************************************)
(* The two panels around the editor: the bottom panel with its terminal    *)
(* (Terminal), and the AI panel beside it: its providers (ai-settings.ts,  *)
(* AiSettings.tsx) and its chat (ai-store.ts, AiChat.tsx).  What is asked  *)
(* and answered is left out; a reply is kept by the send it answers.       *)
(***************************************************************************)
EXTENDS Terminal, Integers

CONSTANT MaxAiMoves  \* bound: how early in the user's moves the AI panel is used

ASSUME AiAssumption == MaxAiMoves \in Nat

VARIABLES
  aiVisible,     \* layout-store: aiPanelVisible
  known, chosen, \* the knox-ai database: its providers, its active one or 0
  providers, active, loaded,  \* the store; active 0 for null
  edits,         \* saveProvider and removeProvider calls before they have listed
  queue,         \* transactions on ACTIVE, in the order they were opened
  loads,         \* what load() calls have read and not set
  replies,       \* the sends, in order
  chat,          \* the sends whose messages are shown
  streaming, controller,      \* controller 0 for null
  outdated       \* history: since the last good load one set what had changed since
                 \* it read it, or a call failed half-done

settingsVars == <<known, chosen, providers, active, loaded, edits, queue, loads, outdated>>
chatVars == <<replies, chat, streaming, controller>>
aiVars == <<aiVisible, settingsVars, chatVars>>

AiInit ==
  /\ aiVisible = FALSE
  /\ \/ known = {} /\ chosen = 0
     \/ known = {-1} /\ chosen = -1  \* of an earlier visit
  /\ providers = {} /\ active = 0 /\ loaded = FALSE
  /\ edits = {} /\ queue = <<>> /\ loads = <<>>
  /\ replies = <<>> /\ chat = {} /\ streaming = FALSE /\ controller = 0
  /\ outdated = FALSE

----------------------------------------------------------------------------
(* The providers *)

AiAct == Act /\ moves < MaxAiMoves

\* get reads the choice, put stores one, clear deletes it and has a list to show.
Transaction(op, id, list) == [op |-> op, id |-> id, list |-> list, old |-> FALSE]

\* What they hold has been changed by another call.
Aged(s) == [i \in DOMAIN s |-> [s[i] EXCEPT !.old = TRUE]]

\* By a command, or a layout that is brought back; the panel loads the settings
\* whenever it is mounted.
ToggleAiPanel ==
  /\ AiAct
  /\ aiVisible' = ~aiVisible
  /\ queue' = IF aiVisible' THEN Append(queue, Transaction("get", 0, {})) ELSE queue
  /\ UNCHANGED <<known, chosen, providers, active, loaded, edits, loads, outdated, chatVars>>

\* Promise.all is answered: the panel shows what was read.
Loaded ==
  /\ loads # <<>> /\ loads' = Tail(loads)
  /\ providers' = Head(loads).list /\ active' = Head(loads).id /\ loaded' = TRUE
  /\ outdated' = Head(loads).old
  /\ UNCHANGED <<aiVisible, known, chosen, edits, queue, chatVars>>

Settings ==
  /\ AiAct /\ aiVisible /\ loaded
  /\ UNCHANGED <<aiVisible, known, chosen, providers, active, loaded, loads, outdated, chatVars>>

\* Ids are never used twice.
SaveProvider ==
  /\ Settings
  /\ edits' = edits \cup {[op |-> "save", id |-> moves', at |-> "asked"]}
  /\ UNCHANGED queue

RemoveProvider(id) ==
  /\ Settings /\ id \in providers
  /\ edits' = edits \cup {[op |-> "remove", id |-> id, at |-> "asked"]}
  /\ UNCHANGED queue

SetActiveProvider(id) ==
  /\ Settings /\ id \in providers /\ id # active
  /\ queue' = Append(queue, Transaction("put", id, {}))
  /\ UNCHANGED edits

\* The put or the delete is done.
Edited(e) ==
  /\ e.at = "asked"
  /\ known' = IF e.op = "save" THEN known \cup {e.id} ELSE known \ {e.id}
  /\ edits' = (edits \ {e}) \cup {[e EXCEPT !.at = "done"]}
  /\ queue' = Aged(queue) /\ loads' = Aged(loads)
  /\ UNCHANGED <<aiVisible, chosen, providers, active, loaded, outdated, chatVars>>

\* A save shows the list, and makes its provider the active one if there is none;
\* removing the active one first clears the choice.
Listed(e) ==
  /\ e.at = "done" /\ edits' = edits \ {e}
  /\ IF e.op = "remove" /\ active = e.id
     THEN queue' = Append(queue, Transaction("clear", 0, known)) /\ UNCHANGED providers
     ELSE /\ providers' = known
          /\ queue' = IF e.op = "save" /\ active = 0 THEN Append(queue, Transaction("put", e.id, {})) ELSE queue
  /\ UNCHANGED <<aiVisible, known, chosen, active, loaded, loads, outdated, chatVars>>

\* Mutant: a choice of a provider that is gone is not followed.
Stored_OnlyListed ==
  /\ queue # <<>> /\ queue' = Tail(queue)
  /\ LET t == Head(queue) IN
     IF t.op = "get"
     THEN /\ loads' = Append(loads, Transaction("get", chosen, known))
          /\ UNCHANGED <<chosen, active, providers, outdated>>
     ELSE /\ chosen' = t.id /\ active' = IF t.id \in providers \cup {0} THEN t.id ELSE active
          /\ providers' = IF t.op = "clear" THEN t.list ELSE providers
          /\ loads' = Aged(loads)
          /\ outdated' = (outdated \/ (t.old /\ t.op = "clear"))
  /\ UNCHANGED <<aiVisible, known, loaded, edits, chatVars>>

\* The next transaction on ACTIVE is done: the store follows a choice.
Stored ==
  /\ queue # <<>> /\ queue' = Tail(queue)
  /\ LET t == Head(queue) IN
     IF t.op = "get"
     THEN /\ loads' = Append(loads, Transaction("get", chosen, known))
          /\ UNCHANGED <<chosen, active, providers, outdated>>
     ELSE /\ chosen' = t.id /\ active' = t.id
          /\ providers' = IF t.op = "clear" THEN t.list ELSE providers
          /\ loads' = Aged(loads)
          /\ outdated' = (outdated \/ (t.old /\ t.op = "clear"))
  /\ UNCHANGED <<aiVisible, known, loaded, edits, chatVars>>

\* A transaction that fails leaves the rest of its call undone.
SettingsFail ==
  /\ outdated' = TRUE
  /\ \/ (\E e \in edits : edits' = edits \ {e}) /\ UNCHANGED queue
     \/ queue # <<>> /\ queue' = Tail(queue) /\ UNCHANGED edits
  /\ UNCHANGED <<aiVisible, known, chosen, providers, active, loaded, loads, chatVars>>

----------------------------------------------------------------------------
(* The chat *)

Chatting == AiAct /\ aiVisible /\ loaded /\ active \in providers /\ UNCHANGED <<aiVisible, settingsVars>>

\* handleSend: nothing is streaming, but the file in the editor is read first.
HandleSend ==
  /\ Chatting /\ ~streaming
  /\ replies' = Append(replies, [at |-> "reading", aborted |-> FALSE, alone |-> TRUE])
  /\ UNCHANGED <<chat, streaming, controller>>

Under(at) == {n \in DOMAIN replies : replies[n].at = at}

\* sendMessage, without a provider or with one: its controller replaces the last.
SendMessage(n) ==
  /\ n \in Under("reading")
  /\ IF active \notin providers
     THEN /\ replies' = [replies EXCEPT ![n].at = "over"]
          /\ UNCHANGED <<chat, streaming, controller>>
     ELSE /\ replies' = [m \in DOMAIN replies |->
                           IF m = n THEN [replies[n] EXCEPT !.at = "asked", !.alone = Under("asked") = {}]
                           ELSE IF m \in Under("asked") THEN [replies[m] EXCEPT !.alone = FALSE]
                           ELSE replies[m]]
          /\ chat' = chat \cup {n} /\ streaming' = TRUE /\ controller' = n
  /\ UNCHANGED <<aiVisible, settingsVars>>

\* The provider's stream ends, fails, or is cut off by its signal.
StreamEnds(n) ==
  /\ n \in Under("asked")
  /\ replies' = [replies EXCEPT ![n].at = "over"]
  /\ streaming' = FALSE /\ controller' = 0
  /\ UNCHANGED <<chat, aiVisible, settingsVars>>

Abort ==
  replies' = IF controller = 0 THEN replies ELSE [replies EXCEPT ![controller].aborted = TRUE]

StopStreaming == Chatting /\ streaming /\ Abort /\ UNCHANGED <<chat, streaming, controller>>

\* Mutant: a cleared chat may be written to at once.
ClearChat_Idle == Chatting /\ chat # {} /\ Abort /\ chat' = {} /\ streaming' = FALSE /\ UNCHANGED controller

ClearChat == Chatting /\ chat # {} /\ Abort /\ chat' = {} /\ UNCHANGED <<streaming, controller>>

AiUser ==
  \/ ToggleAiPanel \/ SaveProvider
  \/ \E id \in providers : RemoveProvider(id) \/ SetActiveProvider(id)
  \/ HandleSend \/ StopStreaming \/ ClearChat

AiStep ==
  \/ Loaded \/ Stored \/ SettingsFail
  \/ \E e \in edits : Edited(e) \/ Listed(e)
  \/ \E n \in DOMAIN replies : SendMessage(n) \/ StreamEnds(n)

Init == TermInit /\ AiInit

Next ==
  \/ TermNext /\ UNCHANGED aiVars
  \/ (AiUser \/ (AiStep /\ UNCHANGED moves)) /\ UNCHANGED <<panelVars, termVars>>

\* No call of the AI panel is promised an end.
Spec ==
  /\ Init /\ [][Next]_<<vars, aiVars>>
  /\ WF_vars(Heard) /\ WF_vars(\E n \in Runs : Progress(n))

----------------------------------------------------------------------------
(* Properties *)

\* A reply on its way shows as streaming, Stop and Clear reach it, and it is cut
\* off once its messages are cleared, unless two sends overlapped: the first to end
\* then gives up the controls of the other.
StopReaches ==
  \A n \in Under("asked") : replies[n].alone =>
    streaming /\ controller = n /\ (n \in chat \/ replies[n].aborted)

\* With no call under way the panel shows the providers and the choice the database
\* keeps, however choices, saves and removals overlapped, unless one set what it had
\* read before another's change, or failed; opening the panel again mends that.
StoreShown ==
  loaded /\ edits = {} /\ queue = <<>> /\ loads = <<>> /\ ~outdated =>
    active = chosen /\ providers = known
============================================================================
