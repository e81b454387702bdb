------------------------------- MODULE Terminal -------------------------------
(***************************************************************************)
(* The terminal in the bottom panel: the line being typed (view.tsx), the  *)
(* shell in its worker (session.ts, worker.ts, shell.ts), the throwaway    *)
(* worker of a local script (js-executor.ts, exec-worker.ts) and the       *)
(* request of a cloud run (remote-executor.ts).  A line is kept by its     *)
(* length.  Nothing stops the user from entering a line while an earlier   *)
(* one runs: the shell then runs both.                                     *)
(***************************************************************************)
EXTENDS BottomPanel, Sequences, FiniteSets

CONSTANTS
  MaxText,   \* bound: the length of a line
  MaxUnread  \* bound: the output a script or the cloud has sent and nobody read

ASSUME TerminalAssumption == MaxText \in Nat \ {0} /\ MaxUnread \in Nat \ {0}

VARIABLES
  session,      \* TerminalSession: "connecting", "ready", "failed"
  len, cursor,  \* line.length, cursor
  history,      \* the lengths of the lines entered
  historyIndex,
  asked,        \* complete() calls not answered yet
  runs,         \* the lines executed, in order: what runs and how far it is
  posted,       \* messages of the shell's worker that the page has not handled
  scripts       \* run -> messages of its script's worker the shell has not handled

lineVars == <<len, cursor, history, historyIndex>>
shellVars == <<asked, runs, posted, scripts>>
termVars == <<session, lineVars, shellVars>>
vars == <<panelVars, moves, termVars>>

Message(n, kind) == [run |-> n, kind |-> kind]

Runs == DOMAIN runs

TermInit ==
  /\ PanelInit
  /\ session = "connecting"
  /\ len = 0 /\ cursor = 0 /\ history = <<>> /\ historyIndex = -1
  /\ asked = 0 /\ runs = <<>> /\ posted = <<>> /\ scripts = <<>>

----------------------------------------------------------------------------
(* view.tsx: what a key does *)

\* The terminal takes keys while its pane is shown.
Shown == visible /\ tab = "terminal" /\ (maximized \/ height > Collapsed)

Key == Act /\ Shown /\ UNCHANGED <<panelVars, session>>

Line(l, c) == len' = l /\ cursor' = c

\* insertText, from a key or from a completion.
Insert(n) == Line(len + n, cursor + n) /\ UNCHANGED <<history, historyIndex>>

TypeKey == Key /\ len < MaxText /\ Insert(1) /\ UNCHANGED shellVars

\* backspace, deleteForward, killToEnd, killToStart, deleteWordBackward (a word
\* starts at some place before the cursor), and the moves within the line.
EditKey ==
  /\ Key
  /\ \/ cursor > 0 /\ Line(len - 1, cursor - 1)
     \/ cursor < len /\ Line(len - 1, cursor)
     \/ cursor < len /\ Line(cursor, cursor)
     \/ cursor > 0 /\ Line(len - cursor, 0)
     \/ \E start \in 0 .. cursor - 1 : Line(len - (cursor - start), start)
     \/ \E pos \in 0 .. len : Line(len, pos)
  /\ UNCHANGED <<history, historyIndex, shellVars>>

Entry(i) == IF i >= 0 /\ i < Len(history) THEN history[i + 1] ELSE 0

HistoryUp ==
  /\ Key /\ historyIndex > 0
  /\ historyIndex' = historyIndex - 1
  /\ Line(Entry(historyIndex'), Entry(historyIndex'))
  /\ UNCHANGED <<history, shellVars>>

HistoryDown ==
  /\ Key
  /\ historyIndex' = IF historyIndex < Len(history) THEN historyIndex + 1 ELSE Len(history)
  /\ Line(Entry(historyIndex'), Entry(historyIndex'))
  /\ UNCHANGED <<history, shellVars>>

\* Ctrl+C: a new prompt; what runs goes on running.
CtrlC == Key /\ Line(0, 0) /\ UNCHANGED <<history, historyIndex, shellVars>>

TabKey ==
  /\ Key /\ session = "ready"
  /\ asked' = asked + 1
  /\ UNCHANGED <<lineVars, runs, posted, scripts>>

\* What complete()'s candidates, commands or a directory's entries, share beyond
\* the word: nothing or something.
Extras == {0, 1}

\* They are there: what they share goes to where the cursor is now.
Completed ==
  /\ asked > 0 /\ asked' = asked - 1
  /\ \E n \in Extras : len + n <= MaxText /\ Insert(n)
  /\ UNCHANGED <<panelVars, moves, session, runs, posted, scripts>>

\* writePrompt: whatever has been typed since is gone.
WritePrompt == Line(0, 0)

\* Enter on a blank line, or without a session: the prompt follows at once.
EnterNothing ==
  /\ Key
  /\ WritePrompt
  /\ IF len > 0 /\ session # "ready"
     THEN history' = Append(history, len) /\ historyIndex' = Len(history')
     ELSE UNCHANGED <<history, historyIndex>>
  /\ UNCHANGED shellVars

\* Enter: the line stays on the screen while the shell runs it.  A builtin prints
\* or not and returns; run takes a script to its own worker or to the cloud.
EnterLine(what) ==
  /\ Key /\ session = "ready" /\ len > 0
  /\ history' = Append(history, len) /\ historyIndex' = Len(history')
  /\ runs' = Append(runs, [what |-> what, at |-> "entered"])
  /\ scripts' = Append(scripts, <<>>)
  /\ UNCHANGED <<len, cursor, asked, posted>>

----------------------------------------------------------------------------
(* The shell *)

At(n, what, at) == n \in Runs /\ runs[n].what = what /\ runs[n].at = at

To(n, at) == runs' = [runs EXCEPT ![n] = [what |-> @.what, at |-> at]]

Quiet == UNCHANGED <<panelVars, moves, session, lineVars, asked>>

\* The worker takes up the line; lines are taken up in the order they were sent.
Started(n) ==
  /\ n \in Runs /\ runs[n].at = "entered"
  /\ \A m \in 1 .. n - 1 : runs[m].at # "entered"
  /\ To(n, "running")
  /\ UNCHANGED <<posted, scripts>> /\ Quiet

\* The messages after which a run is over for the shell.
Ended(n, out) ==
  /\ To(n, "returned")
  /\ posted' = posted \o (IF out THEN <<Message(n, "out")>> ELSE <<>>) \o <<Message(n, "result")>>
  /\ Quiet

\* A builtin's calls are answered, or fail: execute catches that and prints it. A
\* file that cannot be read or run counts as a builtin.
BuiltinEnds(n, out) == At(n, "builtin", "running") /\ Ended(n, out) /\ UNCHANGED scripts

\* The script prints, returns or throws, or does neither for ever.
ScriptPrints(n) ==
  /\ At(n, "script", "running") /\ Len(scripts[n]) + Len(posted) < MaxUnread
  /\ "done" \notin {scripts[n][i] : i \in DOMAIN scripts[n]}
  /\ scripts' = [scripts EXCEPT ![n] = Append(@, "out")]
  /\ UNCHANGED <<runs, posted>> /\ Quiet

ScriptEnds(n) ==
  /\ At(n, "script", "running")
  /\ "done" \notin {scripts[n][i] : i \in DOMAIN scripts[n]}
  /\ scripts' = [scripts EXCEPT ![n] = Append(@, "done")]
  /\ UNCHANGED <<runs, posted>> /\ Quiet

\* The shell handles a message of the script's worker: output is passed on, done
\* settles the run, terminates that worker and drops what it still had to say.
ScriptHeard(n) ==
  /\ n \in Runs /\ scripts[n] # <<>>
  /\ IF Head(scripts[n]) = "out"
     THEN /\ posted' = Append(posted, Message(n, "out"))
          /\ scripts' = [scripts EXCEPT ![n] = Tail(@)]
          /\ UNCHANGED runs /\ Quiet
     ELSE /\ scripts' = [scripts EXCEPT ![n] = <<>>]
          /\ Ended(n, FALSE)

\* Mutant: the run is answered, its worker goes on.
ScriptTimeout_GoesOn(n) ==
  /\ At(n, "script", "running")
  /\ UNCHANGED scripts
  /\ Ended(n, TRUE)

\* Mutant: the ten seconds begin anew with each message.
ScriptTimeout_Idle(n) ==
  /\ At(n, "script", "running") /\ scripts[n] = <<>>
  /\ UNCHANGED scripts
  /\ Ended(n, TRUE)

\* Ten seconds are over, at whatever point of it, or an error nobody caught:
\* terminated, finish(1).
ScriptTimeout(n) ==
  /\ At(n, "script", "running")
  /\ scripts' = [scripts EXCEPT ![n] = <<>>]
  /\ Ended(n, TRUE)

\* runRemote: the announcement, then the request.
CloudAsked(n) ==
  /\ At(n, "cloud", "running")
  /\ To(n, "asked")
  /\ posted' = Append(posted, Message(n, "out"))
  /\ UNCHANGED scripts /\ Quiet

\* Headers of a run; from here on no timer is set.
CloudHeaders(n) ==
  /\ At(n, "cloud", "asked")
  /\ To(n, "reading")
  /\ UNCHANGED <<posted, scripts>> /\ Quiet

\* No answer at all, an error answer, or 100 seconds: each prints why.
CloudRefused(n) == At(n, "cloud", "asked") /\ Ended(n, TRUE) /\ UNCHANGED scripts

CloudPrints(n) ==
  /\ At(n, "cloud", "reading") /\ Len(posted) < MaxUnread
  /\ posted' = Append(posted, Message(n, "out"))
  /\ UNCHANGED <<runs, scripts>> /\ Quiet

\* The stream ends, or breaks: a read that rejects is printed by execute.
CloudEnds(n, broken) == At(n, "cloud", "reading") /\ Ended(n, broken) /\ UNCHANGED scripts

\* The page handles the next message: term.write, or the end of runLine.
Heard ==
  /\ posted # <<>>
  /\ posted' = Tail(posted)
  /\ IF Head(posted).kind = "out" THEN UNCHANGED <<lineVars, runs>>
     ELSE /\ To(Head(posted).run, "prompted")
          /\ WritePrompt /\ UNCHANGED <<history, historyIndex>>
  /\ UNCHANGED <<panelVars, moves, session, asked, scripts>>

----------------------------------------------------------------------------
(* The session *)

Connected ==
  /\ session = "connecting"
  /\ session' \in {"ready", "failed"}
  /\ UNCHANGED <<panelVars, moves, lineVars, shellVars>>

\* Another workspace: the view is made anew and its worker terminated, with every
\* answer it owes; hiding the panel keeps it.
Replaced ==
  /\ Act
  /\ session' = "connecting"
  /\ len' = 0 /\ cursor' = 0 /\ history' = <<>> /\ historyIndex' = -1
  /\ asked' = 0 /\ runs' = <<>> /\ posted' = <<>> /\ scripts' = <<>>
  /\ UNCHANGED panelVars

UserKey ==
  \/ TypeKey \/ EditKey \/ HistoryUp \/ HistoryDown \/ CtrlC \/ TabKey \/ EnterNothing
  \/ \E what \in {"builtin", "script", "cloud"} : EnterLine(what)

ShellStep ==
  \E n \in Runs :
    \/ Started(n) \/ ScriptPrints(n) \/ ScriptEnds(n) \/ ScriptHeard(n) \/ ScriptTimeout(n)
    \/ CloudAsked(n) \/ CloudHeaders(n) \/ CloudRefused(n) \/ CloudPrints(n)
    \/ \E out \in BOOLEAN : BuiltinEnds(n, out) \/ CloudEnds(n, out)

TermNext ==
  \/ UserKey \/ Completed \/ Connected \/ Replaced \/ ShellStep \/ Heard
  \/ (PanelNext /\ UNCHANGED termVars)

\* What a run owes its line: the worker takes it up, a builtin's calls and the
\* cloud's answer come in the end, the timer cuts off a script.
Progress(n) ==
  \/ Started(n) \/ ScriptTimeout(n) \/ CloudAsked(n) \/ CloudHeaders(n) \/ CloudRefused(n)
  \/ \E out \in BOOLEAN : BuiltinEnds(n, out) \/ CloudEnds(n, out)

\* The workers run and the page handles their messages; that a script ends by
\* itself is not promised.
TermSpec ==
  /\ TermInit /\ [][TermNext]_vars
  /\ WF_vars(Heard) /\ WF_vars(\E n \in Runs : Progress(n))

----------------------------------------------------------------------------
(* Properties *)

\* Nothing a command prints appears after the prompt that ends it, however its
\* run ended: what is still on the way is of runs without their prompt.
OutputWithin ==
  /\ \A i \in DOMAIN posted : posted[i].run \in Runs /\ runs[posted[i].run].at # "prompted"
  /\ \A n \in Runs : scripts[n] # <<>> => runs[n].at = "running"

\* Once lines are entered there comes a moment at which each has its prompt, or
\* the terminal has been replaced: a script that never ends is cut off, a cloud
\* run that fails is reported.
Prompted == runs # <<>> ~> \A n \in Runs : runs[n].at = "prompted"

============================================================================
