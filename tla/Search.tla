-------------------------------- MODULE Search --------------------------------
(***************************************************************************)
(* The search panel (search-store.ts, client.ts, worker.ts), and the shell *)
(* of a workspace that connects it after Git and resets both (Shell.tsx).  *)
(* Answers of the worker arrive in any order.                              *)
(***************************************************************************)
EXTENDS SourceControl

CONSTANT Queries  \* what is typed, "" for an empty box

ASSUME SearchAssumption == "" \in Queries

VARIABLES
  searcher,   \* the store's client: its opening, or 0
  query, regex, results, searching,  \* the store; results holds a request, or Nothing
  timer,      \* the debounced runSearch is due
  latest,     \* client -> its latestRequestId, counted
  requests,   \* the searches the workers have not answered
  late        \* history: a search client came when its workspace was no longer open

searchVars == <<searcher, query, regex, results, searching, timer, latest, requests, late>>
vars == <<gitVars, searchVars, moves>>

Request(id, on, text) == [id |-> id, on |-> on, text |-> text]

SearchInit ==
  /\ searcher = 0 /\ query = "" /\ regex = FALSE /\ results = Nothing /\ searching = FALSE
  /\ timer = FALSE /\ latest = <<>> /\ requests = {} /\ late = FALSE

\* runSearch: an empty box shows nothing, and supersedes nothing.
RunSearch ==
  IF searcher = 0 \/ query = ""
  THEN /\ results' = Nothing /\ searching' = FALSE
       /\ UNCHANGED <<latest, requests>>
  ELSE /\ searching' = TRUE
       /\ latest' = [latest EXCEPT ![searcher] = @ + 1]
       /\ requests' = requests \cup {Request(latest'[searcher], searcher, <<query, regex'>>)}
       /\ UNCHANGED results

SetQuery(q) ==
  /\ Act /\ shell # 0 /\ q # query
  /\ query' = q /\ searching' = (q # "") /\ timer' = TRUE
  /\ UNCHANGED <<gitVars, searcher, regex, results, latest, requests, late>>

ToggleRegex ==
  /\ Act /\ shell # 0
  /\ regex' = ~regex
  /\ RunSearch
  /\ UNCHANGED <<gitVars, searcher, query, timer, late>>

SearchDue ==
  /\ timer /\ timer' = FALSE
  /\ UNCHANGED regex
  /\ RunSearch
  /\ UNCHANGED <<gitVars, searcher, query, late, moves>>

\* What vfs.search finds: all of it, or what a failure or a cancel left.
Answers(r) == {r, Nothing}

Show(r, found) ==
  /\ requests' = requests \ {r}
  /\ results' = found /\ searching' = FALSE
  /\ UNCHANGED <<gitVars, searcher, query, regex, timer, latest, late, moves>>

\* Mutant: every answer is shown.
Found_Any(r) == \E found \in Answers(r) : Show(r, found)

\* An answer, or an empty list if a later search was asked of this client: the
\* store shows either as the results, and no longer searches.
Found(r) == \E found \in Answers(r) : Show(r, IF latest[r.on] = r.id THEN found ELSE Nothing)

\* connect, when the worker comes up at all: the shell may have gone.
SearchConnected(n) ==
  /\ n \in connected /\ connected' = connected \ {n}
  /\ searcher' = n /\ late' = (late \/ shell # n)
  /\ UNCHANGED <<repo, settings, opens, shell, storeVars, calls, dirty, behind>>
  /\ UNCHANGED <<query, regex, results, searching, timer, latest, requests, moves>>

ResetSearch ==
  /\ requests' = {r \in requests : r.on # searcher}
  /\ searcher' = 0 /\ query' = "" /\ results' = Nothing /\ searching' = FALSE
  /\ UNCHANGED <<regex, timer, latest, late>>

----------------------------------------------------------------------------
(* Shell.tsx *)

Open(w) ==
  /\ Act /\ shell = 0
  /\ ConnectGit(w)
  /\ latest' = Append(latest, 0)
  /\ UNCHANGED <<searcher, query, regex, results, searching, timer, requests, late>>

Leave == Act /\ shell # 0 /\ ResetGit /\ ResetSearch

Init == GitInit /\ SearchInit

Step ==
  \/ UNCHANGED <<searchVars, moves>> /\ GitStep
  \/ SearchDue
  \/ \E r \in requests : Found(r)

Next ==
  \/ \E n \in connected : SearchConnected(n)
  \/ \E w \in Workspace : Open(w)
  \/ Leave
  \/ UserGit /\ UNCHANGED searchVars
  \/ \E q \in Queries : SetQuery(q)
  \/ ToggleRegex
  \/ Step

\* The timers fire, workers and databases answer or fail, the network ends; that a
\* search worker comes up is not promised.
Spec == Init /\ [][Next]_vars /\ WF_vars(Step)

----------------------------------------------------------------------------
(* Properties *)

\* Results on the screen, with no search due or running, are those of the text and
\* the options in the box, found by the client of this workspace. An empty box
\* may still get the results of the last search; late names the other exception.
NewerWins ==
  results # Nothing /\ ~searching /\ ~timer /\ query # "" /\ ~late =>
    results.text = <<query, regex>> /\ results.on = searcher

\* Whatever the panels show as under way ends, or its workspace goes: loading, a
\* remote operation that keeps the buttons disabled, a search.
Busy == loading \/ remoteOp # Nothing \/ searching

BusyEnds == Busy ~> ~Busy
============================================================================
