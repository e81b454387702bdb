# Knox in TLA+

Specifications of the parts of Knox (a browser IDE with a cloud back end) whose
correctness depends on the order in which things happen: containers and the rows
that account for them, an authorisation cache, usage caps, concurrent sign-ins, a
run on somebody else's computer, a filesystem made of asynchronous transactions, and
a page whose editor, terminal and panels share stores with workers that answer when
they like. Each module is translated from the code it names. TLC checks every
property on a small instance; the properties that matter most are proved with TLAPS
for every value of the constants.

`PROJECT.json` lists the components, the runs, which source lines each
definition stands for, the hazards of the code with the properties that cover
them, and the theorems.

    tlc -workers 2 -config SessionBroker_Races.cfg MCSessionBroker
    tlapm SessionBrokerProofs.tla

## 1. The system

| part | state it keeps | operations | talks to | what makes it hard |
|---|---|---|---|---|
| session broker (`apps/session-broker`) | Postgres `sessions`, `session_events` | `POST /api/sessions`, reaper every 30 s, `POST /__knox/end-session` | ECS RunTask, DescribeTasks, StopTask | every handler awaits between reading and writing; sweeps overlap; calls fail half-done |
| the broker's gate (`account-auth.ts`, `proxy.ts`) | in-memory cache of whoami answers | authorise each proxied request and websocket | account API `/auth/whoami` | answers arrive in any order; sign-outs race them |
| API, execution (`apps/api` `server.ts`, `usage.ts`, `rate-limit.ts`) | `executions`, in-memory limiter | `POST /v1/execute`, `POST /api/execute`, prune timer | worker (streamed HTTP) | check, run, then count |
| API, accounts (`auth.ts`, `api-keys.ts`) | `users`, `sessions`, `api_keys` | GitHub callback, whoami, logout, key create and revoke | GitHub | concurrent first sign-ins |
| worker (`apps/worker`) | nothing; S3 objects and an ECS task per run | one run on Fargate, or in Docker | ECS, S3, the container's script `infra/runner/knox-run` | deadlines on both sides, cleanup after any failure |
| filesystem (`packages/filesystem`) | IndexedDB stores, or OPFS, or a local folder | read, write, mkdir, delete, copy, move, search, watch | the browser | a call is many transactions; calls of explorer, editor, terminal and git overlap; the tab closes |
| workspaces (`workspace-controller.ts`, `App.tsx`) | workspace list, session (tabs, layout) | open, create, delete, go home, autosave timer, restore at start | filesystem, editor store | overlapping opens, a timer that reads state when it fires, reloads |
| editor (`EditorArea`, `editor-store.ts`, `packages/editor`) | tabs, Monaco models keyed by path, dirty marks | open, load, edit, save, close | filesystem | asynchronous load and save under edits, tab switches and changes of workspace |
| git (`packages/git`, `git-store.ts`) | status, repository, remote settings | connect, refresh, stage, discard, commit, fetch, pull, push, set the remote | a Worker over RPC, file events | refreshes overlap operations, writes and changes of workspace |
| search (`packages/search`, `search-store.ts`) | latest request, results | type, toggle, connect, reset | a Worker over RPC | results out of order |
| bottom panel (`BottomPanel.tsx`, `layout-store.ts`) | four fields of the layout, a drag | collapse, maximize, toggle, close, drag, restore a layout | session | commands between the frames of a drag |
| terminal (`packages/terminal`, `packages/runtime`) | the line, its history; the shell in a Worker, a Worker per script | keys, run a builtin, a script or a cloud run, time out | filesystem, API | lines overlap; timers race messages; sessions are replaced |
| AI panel (`ai-store.ts`, `AiPanel`, `packages/ai`) | providers, the choice, messages, a stream | load, save, remove, choose, send, stop, clear | IndexedDB, a provider | transactions of overlapping calls; sends that overlap |
| explorer (`useFileTree.ts`) | listings of the open directories | expand, watch, refresh | filesystem | - |
| palette, landing, admin, infrastructure | view state, configuration | - | - | nothing a model would add to |

What each part must get right:

- broker: a row never says stopped over a running container; no container is
  left behind unless a call failed; expired sessions end; the daily budget and
  the one-session rule hold; a row is charged for at least what it could be used.
- gate: only the owner passes; a sign-out takes effect within the cache's
  lifetime; the cache is bounded.
- execution: caps overrun by less than the overlap; a refusal is justified; no
  burst above the limit.
- worker: the program's exit code comes with its output; a run is cut off only
  when it deserves it; nothing is left stored or running; an answer always comes.
- filesystem: the tree stays a tree; a file has its bytes; a move to another path
  loses nothing.
- accounts: concurrent sign-ins agree; no account is re-owned.
- workspaces, editor: tabs, sessions and texts stay with their workspace; unsaved
  text is marked; what was open comes back; an error can be left.
- Git, search: with nothing under way the rows and results are those of what is
  there now; nothing stays busy.
- bottom panel, terminal: the height to restore is kept; output comes before its
  prompt, and every line gets one.
- AI panel: it shows what is stored; a reply can be stopped.

## 2. Modules

| module | models | root |
|---|---|---|
| `ContainerLease` | what the broker promises, with no broker in it | abstract |
| `SessionBroker` | `sessions.ts`, `ecs.ts`, the session routes and timer of `server.ts` | `MCSessionBroker` |
| `SessionGate` | `account-auth.ts`, `authorizeSessionRequest` of `proxy.ts` | `MCSessionGate` |
| `ExecutionApi` | the two execute routes, `usage.ts`, `rate-limit.ts` | `MCExecutionApi` |
| `AccountSignIn` | `auth.ts`, `api-keys.ts` and their routes in `server.ts` | `MCAccountSignIn` |
| `FargateRunner` | `ecs-runner.ts` and `infra/runner/knox-run` | itself |
| `IndexedDbFs` | the mutating calls of `indexeddb-backend.ts` | `MCIndexedDbFs` |
| `Workspaces` | `workspace-controller.ts`, the stores it sets, tabs, autosave, `App.tsx` | `MCWorkspaces` |
| `EditorArea` | the pane, the models and the saves on top of `Workspaces` | `MCEditorArea` |
| `SourceControl` | `git-store.ts`, its client and worker, `git-service.ts` | in `Search` |
| `Search` | the search panel, and the shell that connects and resets both panels | itself |
| `BottomPanel` | the panel's fields in `layout-store.ts`, its drag, stored layouts | in `Terminal` |
| `Terminal` | `view.tsx`, `shell.ts` and its workers, in that panel | in `AiPanel` |
| `AiPanel` | the AI panel beside them: settings and chat | itself |
| `SessionBrokerProofs`, `SessionGateProofs`, `ExecutionApiProofs`, `AccountSignInProofs`, `FargateRunnerProofs`, `FilesProofs`, `TerminalProofs`, `SearchProofs` | the proofs | |

The granularity is the same everywhere: code between two `await`s runs without
interruption on Node's (or the tab's) event loop, so it is one action; what is
awaited (a query, a call of ECS, a transaction) is the action's boundary. A call
that throws is an action or a disjunct of its own, and where the callee may have
acted before the error, both outcomes are there.

### SessionBroker

A launch request, the container it may start and the row it may insert share one
name `r`, because each is made at most once per request. `pc[r]` is the await
the request is suspended at or its answer; `task[r]` is the container as ECS
moves it; `row[r]` is the row, `status` being `stopped_at IS NULL` and
`end_reason` in one field. The steps of `createSession` follow the code:
`FindActive`, `ReadBrowserUsage`, `ReadUserUsage`, `CheckActive`, `RunTask...`,
`PublicIpFound` or `NeverReachable`, `InsertSession`. `SweepSelect`,
`SweepStopOk`, `SweepStopFails`, `SweepCheck`, `SweepMark` and `SweepMarkFails`
are one reaper call; several may be under way because `setInterval` does not
wait. `EndAuthorized` to `EndMarkFails` are the End-session handler and
`stopSessionNow`. `Crash` loses what is in memory and keeps Postgres and ECS.

Time is a tick counter; `SessionLength`, `DailyCap` and `DayLength` are the
code's 15 minutes, 30 minutes and calendar day in ticks. A row may be marked twice, by
two sweeps or by a sweep and an End-session request, since neither UPDATE looks whether
`stopped_at` is set; `firstEnd` remembers the first mark.

`containerOf` and `leaseOf` map this state to `ContainerLease`. A stop ECS has
acknowledged counts as gone there: the container no longer answers to the user
and ECS finishes it.

Not modelled: ECS acting on a RunTask after its caller has given up (the launch
has failed by then; `LeaksOnlyByFault` would allow it), `session_events`, and
the proxying itself.

### SessionGate

`cache` is the map token -> account and `expiresAt`; an answer carries the account it
names. A visit goes through `LookupSession`,
then `CacheHit` or `CacheMiss`; `WhoamiAnswers` is the account API judging the
token, and `ReceiveAccount` or `ReceiveRefusal` the broker using that answer, up
to `MaxLatency` later, which is what lets answers overtake each other and
sign-outs. `Evicted` is the clean-up of a full map before an answer is stored. A
token is issued once (`SignIn`), so a sign-out is final for it.

### ExecutionApi

One account on a deployment with a database (without one the routes only
forward). `pc`, `daily`, `monthly` are the handler's place and the two counts,
which are queried together and answered in any order. `rows` is `executions`;
`hits` the limiter's timestamps. A refused or failed request may be made again,
which is how a few request names stand for many requests; the number of names
bounds how many overlap. `Restart` loses handlers and limiter.

### AccountSignIn

A use `s` of `/auth/github` also names its state, its session token and the row
of `users` it may insert. `cookie` is each browser's state cookie and `jar` its
session cookie; the answer to a callback clears the former whatever it then
holds. `ByGithub`, `Link`, `InsertEmail`, `InsertFallback` and `Raced` are the
statements of `upsertGithubUser` with the unique indexes of `users` inside them;
each may fail before its effect (`QueryFails`) or after it (`Found`). `Stray` is
GitHub's redirect reaching a browser that did not begin the sign-in. E-mail
addresses come in spellings with one normal form; a verified address that is
GitHub's own noreply form is left out, it would be the fallback itself. An account has
verified a set of addresses and has a primary one; `Taken` is the one address the
callback takes of them, and a failed `/user/emails` gives none. Login
sessions end at any time (`Expire`). `request` is the session by which a request
about keys was let in; the key is written later.

### FargateRunner

One run. `pc` follows `runOnFargate` and its `finally`; `task` follows ECS and the
script, from provisioning through fetch, compile, run and the two uploads; `objects`
is the bucket's prefix of the run. RunTask reaches ECS only while its caller waits
for it. `RunTimeout` is in fractions of a `Second`: the container is given whole
ones, rounded up (`ecs-runner.ts:114`), while `Deadline` adds the buffer to the
milliseconds themselves (`:128`); `Rounding` is the difference. DescribeTasks may
not list a task that is still being provisioned. The script's `timeout` sends
SIGTERM only, so a program may run on; the compiler has no timeout at all. `failed`
records what went wrong without the caller being told; the properties name exactly
the entries they depend on.

### IndexedDbFs

A path is a sequence of names; the stores are functions over the paths. A call
is the list `todo` of transactions it still has before it, and each step is one
transaction: what `get` found decides what follows. `copy` and `move` unfold
into the steps of `mkdir`, `readdir`, `readFile`, `writeFile` and `delete`, as
in the code. A put or a purge may fail (quota); `TabReloads` is the tab
closing at any point. `recursive: false` of `writeFile` and `mkdir` is passed by no caller
and left out, and so are sizes, times and change events. `Destinations`
excludes a copy into the source's own subtree, which the code would continue
for ever. A move onto itself is in: it copies every file over itself and then deletes it.

### Workspaces and EditorArea

`opening` is the `openWorkspace` call under way and the await it is at; the code
has no queue, but its callers cannot overlap two of them (the welcome screen is
gone while one loads), so one is enough, while `createWorkspace` (`creating`) can
be under way beside it. `OpenListed`, `OpenReady` and `OpenHydrate` are the
pieces between its awaits; `OpenFails` is any of them throwing. `timer` is the
debounced autosave, and `SaveSession` takes what the stores hold at that moment; a put
that IndexedDB rejects (`lost`) leaves the old session, and nothing retries it.
`Reload` loses the page and keeps the database. `tabsOf`, `crossed` and `mixed`
are history: whose tabs are shown, and which sessions were saved in the two
windows the code leaves open.

`EditorArea` EXTENDS it: each step of a workspace or a tab is followed by the pane
(`PaneFollows`), as React's effects are. `models` is the registry, by path and
nothing else; `saving` the `writeFile` calls under way, with the text they carry
and whether their pane is still there to mark it saved. `Outside` is any other writer of
an open file: git's discard, checkout or pull, the terminal, the explorer; it writes,
deletes or renames over it, and neither the pane nor the model is told. `seen` is what
the page last read of a file or wrote to it. A text is named by the
workspace it was read in and the edit that made it. `unmarked` and `shared` are
history: the paths whose text lost its mark, or came from a model of another
workspace, in one of the ways `DirtyTold` and `OwnText` name.

Not modelled: two names for one file, and the editor's settings.

### SourceControl and Search

A workspace holds one file, of which the repository knows three versions: HEAD,
the working tree and the index, 0 for none; `Matrix` and `Classify` are
`statusMatrix` and its classification. `opens` lists the openings of workspaces, each
with its worker; `calls` are the operations and refreshes under way, each with
the worker it was sent to and what it has read (`row`). `Done`, `Reply`, `Read` and
`Refreshed` separate the worker's act, its answer and the `set` that follows.
`Effect` says what isomorphic-git may do to the repository; `Discarded` is
`git-service.ts`' own: on any error it deletes the file, swallows a failing delete, and
returns. `Write` is a change of
the file, which the watcher tells (`dirty`), `WriteElsewhere` one it cannot tell.
`behind` is history: a refresh failed, or set what had been changed without a
notice since it was read.

`Search` EXTENDS it, because the shell opens and leaves both together. `latest` is
each client's counter, `requests` what its worker has not answered. Answers come
in any order; `late` names the one exception `NewerWins` has.

### BottomPanel, Terminal and AiPanel

`BottomPanel` keeps the four fields of the layout store, `lastExpanded`, and the
drag with the height it began at; each pointer move is a step, so commands come
between frames. `rested` is history: the last height the panel rested at expanded,
until a command collapses it during a drag or a layout comes back collapsed. A
layout is stored and brought back with or without a reload; one stored by an older
version lacks `lastExpandedPanelHeight`.

`Terminal` keeps a line by its length and cursor. `runs` holds every line entered,
what it runs and how far it is; nothing stops a second line from being entered
while one runs. `posted` is the queue from the shell's worker to the page, and
`scripts[n]` that from a script's worker to the shell, so that the timer
(`ScriptTimeout`) can fire with messages on the way. `Replaced` is a change of
workspace, which terminates the worker.

`AiPanel` puts the AI panel beside them. `queue` holds the transactions on the
store of the active provider, which IndexedDB carries out in the order they were
opened; `edits` the saves and removals that have not listed the providers again;
`loads` what a load has read and not set. A load's two reads are one step: whatever
changes between them makes what it read old. `outdated` is history: a call set
what it had read before another's change, or failed. `replies` are the sends;
`controller` is the one whose signal the store holds. Two sends overlap because
`handleSend` reads the open file before it sets `streaming`.

## 3. Runs

Time limits aside, the bounds are chosen so that what the property is about
happens: the number of actors that must overlap, and one more tick than the
longest interval that is compared. A module has one type invariant, `TypeOK` or the first
conjuncts of the inductive invariant; where it is proved it is not run as well.

| run | checks | bounds and why they are enough |
|---|---|---|
| `broker_races` | `TypeOK`, `StoppedMeansGone`, `LeaksOnlyByFault`, `ChargeCoversUse`, `ImplementsLease`, `ExpiredIsStopped`, `LaunchesAnswered` | one session, two overlapping sweeps, two End-session requests, one crash. Rows are independent in these properties; two sweeps and two requests are what can disagree about one row |
| `broker_budget` | `DailyBudget`, `OneActiveSession` | three launches, two sharing the account and two the browser; a day of 3 ticks, a cap of 3, sessions of 2, so that a third grant has to be cut |
| `gate` | `OwnersOnly`, `CacheBounded`, `SignOutReaches` | three visits, two tokens, a one-entry cache, so that eviction and overtaking happen; time runs past a lifetime plus a latency |
| `execution_api` | `OverrunBounded`, `RefusedOnlyAtCap`, `RateBound` | two overlapping key requests, days of one tick and months of two, so that each request can straddle both |
| `account_sign_in` | `Belongs`, `LegacyLinked`, `NeverDeadEnds` | three sign-ins, two browsers, two old accounts, two GitHub accounts that have verified the address of the first as their primary one, in two spellings; one of them has verified that of the second too, which is never the address taken. The second insert needs one rival for the address and one for the person (1,816,096 states, two minutes) |
| `fargate_runner` | `OutputKept`, `TimeoutEarned`, `NothingStored`, `Answered`, `TaskEnds` | complete for a timeout of a second and a half and a buffer of one second, in half seconds: the clock saturates where nothing compares any more |
| `filesystem` | `FilesHaveBytes`, `TreeKept`, `MoveNeverLoses`, `CopyComplete` | two calls over every tree of two names in the root with two below each. `copy` is not called on its own: a move's first half is a copy, step for step; moves onto themselves are among the calls |
| `editor` | `SessionSaved`, `TabsStayHome`, `DirtyTold`, `OwnText` | two workspaces, one a local folder, one restored from an earlier visit; two paths; four acts of the user and one save under way: open another workspace, edit, save and come back takes four, and another writer is one of the acts; that saves overlap is left to the proofs, which bound neither (1,300,755 states) |
| `panels` | `StatusTrue`, `NewerWins`, `BusyEnds` | two workspaces, one with a repository's settings kept; versions 0 to 2; two texts in the box; four acts: a write, an operation, and leaving and opening another workspace under it (708,298 states) |
| `terminal` | `MaximizedShown`, `CollapseRemembers`, `OutputWithin`, `Prompted`, `StopReaches`, `StoreShown` | five acts, the AI panel's among the first four; three heights: collapsed, below the threshold and above it; lines of up to two letters; one unread message a script. A drag with a command between two frames takes five, a save and a removal that overlap four (about 400,000 states) |

Two runs end in a counterexample, each a sentence of the code that the code does
not keep:

- `broker_overspend` (`DailyBudget`): the caps "both enforced here" of
  `sessions.ts:8` are not, when three launches of one account from one browser
  overlap: the budget is read before the container boots and the row that uses it is
  inserted after. With the code's 15 and 30 minutes (1 and 2 ticks here) two fresh
  launches use exactly the cap; the third, or a session already used, exceeds it.
- `workspace_trap` (`ErrorIsLeft`): the messages of a local folder that cannot be
  opened say to open the folder again (`workspace-controller.ts:68`, `:74`), but
  the error screen has no control (`App.tsx:35`) and every reload restores the same
  folder (`App.tsx:24`). `TrapSpec` is fair to every call and to the reload, and lets
  only the permission fail.

### Fairness

- `SessionBroker!Fairness`: the clock runs; a launch that has been accepted is
  resumed (every await of it ends, `waitForPublicIp` by its deadline); sweeps
  keep being started and resumed by the interval timer. Strong fairness on
  `SweepStopOk` and `SweepMark` says that ECS and Postgres do not fail for
  ever: `ExpiredIsStopped` cannot hold without it, and the reaper's retry is
  there for exactly that case.
- `FargateRunner!Fairness`: the worker's calls return or fail, the clock runs,
  ECS carries out a stop it has accepted, `timeout` fires. Nothing says that a
  compiler or a program ends.
- `Terminal`: the page handles the messages of its worker, and some run that can go
  on does: the worker takes lines up, a builtin's calls end, the ten-second timer
  fires, a cloud request is refused or its stream ends. That a script ends by itself
  is not promised. That a stream which has begun ends is an assumption and not the
  code's doing: `remote-executor.ts:52` clears its timer with the headers, so a
  body that stalls leaves its line without a prompt.
- `Search`: `WF(Step)`, some timer, worker or database call goes on. That a search
  worker comes up is not promised: `Busy` then ends with the workspace, or because
  nothing was started.
- `Workspaces`: only `TrapSpec`, see above. The other modules state no liveness, and
  no call of the AI panel is promised an end.

`CHECK_DEADLOCK FALSE` is set where a history is over: every request made,
clock at its bound.

## 4. Proofs

Each proof module extends its component. All are proved from the constants'
named assumptions only; no bound on the clock or on the number of actors is
used.

**SessionBrokerProofs.** `TypeCorrect`, then `Invariance` of the inductive
invariant. `StoppedMeansGone` is not inductive: a sweep or an End-session handler
that is about to mark a row has decided so in an earlier step. The invariant adds
what each of them remembers across its awaits: whoever is about to mark holds a
container that is gone, whoever is about to insert or resume has started one, a row
exists only for a request that got so far, and gone is for ever. `PromiseKept`,
`NoSilentLeak` and `ChargeAlwaysCovers` (no second mark gives back time the first
has charged) follow, and `Refinement` shows every step to be a step of
`ContainerLease` or a stutter. `OneSessionEach` assumes what the run `broker_budget`
sets, that clients do not overlap their launches; without it the property is false.
A launch past its check, then, is the only one of its account and browser and no
open row stands beside it (`AloneInv`, proved as `AloneAlways`).

`BudgetNeverExceeded` (`DailyBudget`, for the same clients) is about sums over the
rows of a day. The fold of the community modules is a function chosen to satisfy its
recursion, and the library's induction theorems cannot be instantiated; so the lemmas
on sums argue from a smallest counterexample instead (`FiniteMin`, from the
well-foundedness of strict inclusion on finite sets): the recursion has exactly one
solution (`SumUnique`, `SumExists`), any element may be taken out of it first
(`SumRemove`), and larger numbers have a larger sum (`SumMonotone`). The invariant
`BudgetInv` then follows a launch from its readings to its INSERT. What was read covers
what today's sessions are usable for (`Counted`), because a row is charged for at least
what it could be used (`RowInv`, through every second marking); it goes on covering it
while the launch is under way, since nobody else may add a row to either group; if the
day changes meanwhile, no row of the new day exists. So the row fits into what is left,
or is the first of its day, which needs `SessionLength <= DailyCap` (15 and 30 minutes,
assumed with the other limits).

**SessionGateProofs.** `OwnersOnlyAlways` and `SignOutBound`. The invariant says
that every answer on its way and every entry of the map names the account of the
token it was asked for, whoever asked, and it bounds the age of everything that can
let a visit in: a cache entry expires no later than `CacheTTL + MaxLatency` after
its token was last signed in, a positive answer on its way was true when given, and
was given at most `MaxLatency` ago. `SignOutReaches` is an action property and
follows step by step. `CacheAlwaysBounded`: only `ReceiveAccount` adds an entry, and
only to a map that has been cleaned to leave room for one (`StoredFits`).

**ExecutionApiProofs.** `OverrunAlwaysBounded`: the invariant relates the rows
of a day to the requests past the check. A request that is past it, or has a
count below the cap in hand, is one of fewer than `Cardinality(ApiRequests)`
others, and each adds one row; so for every remembered count the rows now are at
most the count plus the requests that may still have logged since. The month is
the same argument. `RateAlwaysBounded`: what was admitted inside a window is
still remembered by the limiter, whatever was pruned, so the limiter's own test
bounds every window. `RefusalAlwaysJustified`: a count in
hand never exceeds the API rows since the start of the day the request arrived in
(`CountsReal`), because rows are only added and the start of a day, taken later,
only moves forward.

**AccountSignInProofs.** One inductive invariant gives `AccountsBelong`,
`OldAccountsLinked` and `NoDeadEnd`. The properties speak of finished sign-ins; the
invariant adds what one under way relies on from before its last await: whom it acts
for and in which browser (`Known`, `Here`), that its own row is not made yet
(`Unmade`), that its address is one the callback takes (`FromGithub`), and why the
next statement is tried, an old account with the address being claimed already
(`Claimed`) or another row of the person existing (`Won`). These survive the steps
of others because a row with an owner never changes (`Kept`): `LinkTakes` and
`InsertTakes` show that the statements which write `users` only ever take a row
nobody owns, for a person who has none.

**FargateRunnerProofs.** `CutOffOnlyWhenEarned`: the time since RunTask answered
is at most the program's time plus the rest, so past the deadline the rest
and the rounding exceed the buffer. `OutputAlwaysKept`: a program's exit code implies both
uploads, and nobody deletes before reading. `NothingStaysStored`: a task that
was seen stopped uploads nothing more.

**FilesProofs, the editor.** `SessionAlwaysSaved`, `TabsAlwaysHome` and `TextAlwaysOwn` from
`WsInv` and `EdInv`. What is stored can only be related to what is shown through the
call in between: while the session of the workspace that was set ready is being
read, that workspace is the one shown unless a project was created meanwhile
(`ReadsOwn`). For texts, a pane and a save under way carry a workspace and a model
(`PaneOwn`, `SavingOwn`), so that what a save writes later is text of the workspace
it was asked in or of a path in `shared`.

`DirtyAlwaysTold` takes a second invariant, `TellInv`, on top of those. A model
outlives its tab and its workspace, so its mark must be where it will come back
from: for every path with unsaved text that the history does not name, the mark is
in the tabs when they are those of the model's workspace, in the stored session when
another workspace is shown or the autosave has nothing left to store, and in the
session that is being read for it (`MarkKept`). Leaving a workspace keeps this
because it is then `Settled`, which needs what each screen excludes (`Screens`: an
error has no call under way, a project being made is nobody's workspace yet). That a
text counts as unsaved exactly when it differs from what the page knows of its file
needs `SavedKnown`: what a model takes for saved is what the page last read of its
file or wrote to it (`seen`), whatever others have written since
(`OutsideKeepsOwn`). A tab with a mark is no preview (`TabsOK`), so no preview
replaces it.

**FilesProofs, the filesystem.** For any calls, kinds of call, versions and names
(finitely many names, for the listing of a directory is a finite sequence). A call
unfolds into a list of transactions as it goes, so the first invariant says what
such a list can be (`Plans`): all of it inside the part of the tree the call was
made for, a put right behind what makes its parent, a delete last. From it,
`FilesAlwaysHaveBytes`: only a put and a purge write, and each writes both stores.
For `TreeAlwaysKept` a call must be able to rely on what an earlier transaction of
its own found (`StillTrue`: the parent of what it puts next is there); it can,
because calls that do not clash touch parts of the tree that are not above or below
each other (`Apart`, `Effects`, `OthersTrue`). For `MoveAlwaysKeeps` and
`CopyAlwaysComplete` every file of the source is, at every moment, untouched or copied
already, and copied, or carried by a transaction of the list, or under a directory
that is still to be listed (`CopyOf`); the purge of a move runs when the list holds
nothing else, so everything is copied by then. `GoneInv` is the last conjunct of
`CopyComplete`: what a move has purged stays away.

**SearchProofs.** `StatusAlwaysTrue`: a refresh that has read holds what is there
now, or another one follows it (a notice is due or a call will refresh), or it is
known to be old (`ReadsCurrent`, `StatusCurrent`); with nothing under way only the
first is left, and `ClassifyTrue` says what a row of a current matrix tells.
`NewerAlwaysWins`: the newest request of the client in use asks for what is in the
box, or a search is due (`NewestAsks`), and an answer is shown only under the
newest number.

**TerminalProofs.** About the specification the run checks, for all heights, lines,
runs, providers and sends. `MaximizedAlwaysShown` and `CollapseAlwaysRemembers` need
what a drag under way and the stored layout hold (`PanelInv`).
`OutputAlwaysWithin`: a run's result is its last message, and only a running
script has messages on the way to the shell (`TermInv`); `Returns` shows that
ending a run in any way keeps both. `StopAlwaysReaches`: a reply that nothing
overlapped is the only one on its way (`OnlyOne`). `StoreAlwaysShown`: what is read
and not marked old is what the database keeps (`YoungIsTrue`), and a list that is
not shown yet is due from a call under way (`ShownOrDue`).

Only model-checked: liveness (`ExpiredIsStopped`, `LaunchesAnswered`, `Answered`,
`TaskEnds`, `Prompted`, `BusyEnds`), which is beyond the prover. Every
invariant and every other action property that a passing run checks is also proved.

## 5. Differences between code and comments met on the way

Beside the two runs above, comments that no run can show to be wrong but a
reader should not rely on: `remote-executor.ts:26-33` says that the API sends no
header before the run is over and that the runner's timeout is 90 s, and
`nginx.conf:60-65` repeats it; `server.ts:381-386` flushes its headers at once
and `ecs-runner.ts` waits for the run's timeout plus 60 s.

Two more are met by a single failing call and have no run: `cloud-runtime.md:152` says
that a container that never becomes reachable is stopped, but its one StopTask may
fail and the error is swallowed; `vfs.ts:34` says that a write with `ifMatch` fails
unless the current version matches, but it succeeds when the file is gone, or
changed between the check and the put.

The following are places where the code does less than it says, or than one would
expect. The models take these steps; the property beside each names the case as its
exception, and holds of everything else, so a passing run says nothing for it:

- *A move onto itself loses the file* (`indexeddb-backend.ts:217-220`, reached by
  `mv a a`, `shell.ts:158-164`): it is copied over itself and then deleted.
  `MoveNeverLoses` is about moves to another path; the last conjunct of
  `CopyComplete` is that such a finished move has left nothing.
- *A rejected autosave is not retried* (`workspace-controller.ts:118`): the timer is
  cleared, the error unheard, and until the next change a reload brings back the session
  stored before. `SessionSaved` and `DirtyTold`.
- *Other writers of an open file go unnoticed* (`git-service.ts:80-89`, the terminal,
  the explorer): the clean tab keeps its old text without a mark, and the next save
  writes it over what they wrote. `DirtyTold` compares with what the page last read or
  wrote itself.
- *Collapsing during a drag loses the height* (`layout-store.ts:102`,
  `BottomPanel.tsx:54`), against `layout-store.ts:12-13`: 300 kept, the collapsed panel
  dragged up to 60, Cmd+J and the release leave 120 to come back. A stored layout does
  not hold the height at all. `CollapseRemembers`.
- *Discard deletes a file that HEAD has* when reading HEAD's version or writing it fails
  (`git-service.ts:81-87`), and tells nobody. `StatusTrue` holds there: the panel then
  shows the file as deleted. It says nothing after two refreshes that ended in the wrong
  order (`git-store.ts:76`), nor while a late client of another workspace is in use (`:65`).
- *An old account is not linked* although GitHub reports its address as verified, which
  `auth.ts:135-138` and `cloud-runtime.md:91-93` promise: when `/user/emails` fails
  (`auth.ts:126-128`), and when the callback takes another verified address (the primary
  one, or the first listed; `:129-130`). The person then has a second account, and no later
  sign-in links the old one, since the first statement finds the second. `LegacyLinked`.
- *The buffer on top of the run's timeout* (`ecs-runner.ts:8-11`) is up to a second
  short: the container's timeout is rounded up to whole seconds and the deadline is not.
  `TimeoutEarned`.
- *A task that outlives its request*: after a failed or empty last look, a failed last
  stop or a crash of the worker nothing looks for it again (`TaskEnds`), and a timed-out
  task may store its output after the deletes (`NothingStored`).
- *Overlapped sends* (`AiChat.tsx:24`): the end of one takes the stop button from the
  other. `StopReaches` is about replies that no other send overlapped. *A removal that sets
  the choice it read before a change* (`ai-store.ts:58`) is the exception of `StoreShown`.

## 6. Not modelled

- The Docker runner: its cleanup is the Docker CLI's behaviour.
- The file operations of OPFS and local folders: what a handle's write leaves
  after a failure is the browser's.
- HTML pages, overviews and SQL aggregates, the landing and admin pages,
  infrastructure but for the runner's script: they keep no state, or are
  configuration.
- The explorer's listings, the palette, the command registry, the service worker:
  lists and flags that are made anew from what they show.
- What a builtin of the shell does to files (its calls are those of `IndexedDbFs`),
  matching in a search, isomorphic-git, Monaco, the text of a chat and its
  context, a provider's stream format: data that no property here tells apart.
