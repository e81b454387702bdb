----------------------------- MODULE SourceControl -----------------------------
(***************************************************************************)
(* The Git panel (git-store.ts, GitPanel.tsx) over one worker per opened   *)
(* workspace (client.ts, worker.ts, git-service.ts).  A workspace holds    *)
(* one file, of which a repository knows the version in HEAD, in the       *)
(* working tree and in the index, 0 for none.  isomorphic-git and the      *)
(* remote are external.                                                    *)
(***************************************************************************)
EXTENDS Integers, Sequences, FiniteSets

CONSTANTS
  Workspace,
  Known,     \* the workspaces that hold a repository with a remote at first
  Versions,  \* the versions of the file, 0 where it does not exist
  Nothing,
  MaxMoves   \* bound: how often the user acts

RowNames == {"untracked", "added", "deleted", "modified"}

ASSUME SourceControlAssumption ==
  /\ Known \subseteq Workspace /\ {0, 1} \subseteq Versions
  /\ Nothing \notin Nat \cup [name : RowNames, staged : BOOLEAN]
  /\ MaxMoves \in Nat

VARIABLES
  repo,       \* workspace -> [isRepo, head, work, stage]
  settings,   \* the workspaces with a remote in the knox-git-remotes database
  opens,      \* the workspaces opened, in order: the n-th opening has client n
  shell,      \* the opening on the screen, or 0
  client, loading, isRepo, status, remote, remoteOp,  \* the store; client 0 for null
  calls,      \* the store's async calls under way
  connected,  \* openings whose git connect has returned to the shell
  dirty,      \* the shell's debounced refresh is due
  behind,     \* history: no refresh has ended yet, or the last one failed, was overtaken or
              \* is of another client, or something changed that nobody refreshes after
  moves

storeVars == <<client, loading, isRepo, status, remote, remoteOp>>
gitVars == <<repo, settings, opens, shell, storeVars, calls, connected, dirty, behind>>

Act == moves < MaxMoves /\ moves' = moves + 1

----------------------------------------------------------------------------
(* git-service.ts *)

\* statusMatrix: what differs from what.
Matrix(r) ==
  [head    |-> IF r.head = 0 THEN 0 ELSE 1,
   workdir |-> IF r.work = 0 THEN 0 ELSE IF r.work = r.head THEN 1 ELSE 2,
   stage   |-> IF r.stage = 0 THEN 0 ELSE IF r.stage = r.head THEN 1
               ELSE IF r.stage = r.work THEN 2 ELSE 3]

RowOf(name, staged) == [name |-> name, staged |-> staged]

\* classify, and the rows status() keeps.
Classify(m) ==
  IF m.head = 0 /\ m.workdir = 2 /\ m.stage = 0 THEN RowOf("untracked", FALSE)
  ELSE IF m.head = 0 /\ m.stage \in {2, 3} THEN RowOf("added", TRUE)
  ELSE IF m.head = 1 /\ m.workdir = 0 THEN RowOf("deleted", m.stage = 0)
  ELSE IF m.head = 1 /\ m.workdir = 2 THEN RowOf("modified", m.stage \in {2, 3})
  ELSE Nothing

Repo(is, head, work, stage) == [isRepo |-> is, head |-> head, work |-> work, stage |-> stage]

\* What another tree brings: nothing, or a clean file changed, made or removed.
OtherTree(r) ==
  {r} \cup (IF r.head = r.work /\ r.head = r.stage THEN {Repo(TRUE, v, v, v) : v \in Versions} ELSE {})

\* discard writes what HEAD has.  Where it cannot, for whatever reason (no version in
\* HEAD, one that cannot be read, a write refused), it deletes the file, HEAD's or not,
\* and a delete that fails as well leaves all as it was.
Discarded(r) == {Repo(TRUE, r.head, v, r.stage) : v \in {r.head, 0, r.work}}

\* What a call that returns has done to the repository; add fails on a file that is gone.
Effect(op, r) ==
  CASE op = "init"     -> {Repo(TRUE, r.head, r.work, r.stage)}
    [] op = "stage"    -> IF r.work = 0 THEN {} ELSE {Repo(TRUE, r.head, r.work, r.work)}
    [] op = "unstage"  -> {Repo(TRUE, r.head, r.work, r.head)}
    [] op = "discard"  -> Discarded(r)
    [] op = "commit"   -> {Repo(TRUE, r.stage, r.work, r.stage)}
    [] op \in {"checkout", "pull"} -> OtherTree(r)
    [] OTHER -> {r}

----------------------------------------------------------------------------
(* git-store.ts: calls *)

RemoteOps == {"fetch", "pull", "push"}

Ws(n) == opens[n]

NewId == CHOOSE i \in 1 .. Cardinality(calls) + 1 : \A c \in calls : c.id # i

Call(op, on, at) ==
  [id |-> NewId, op |-> op, on |-> on, at |-> at, row |-> Nothing, old |-> FALSE]

Becomes(c, d) == calls' = (calls \ {c}) \cup {d}

At(c, at) == [c EXCEPT !.at = at]

\* Mutant: a pull keeps its label.
Settles_PushOnly(c) ==
  /\ remoteOp' = IF c.op \in {"fetch", "push"} THEN Nothing ELSE remoteOp
  /\ connected' = IF c.op = "connect" THEN connected \cup {c.on} ELSE connected

\* The finally of a remote operation; the shell goes on after a connect.
Settles(c) ==
  /\ remoteOp' = IF c.op \in RemoteOps THEN Nothing ELSE remoteOp
  /\ connected' = IF c.op = "connect" THEN connected \cup {c.on} ELSE connected

Ends(c) == calls' = calls \ {c} /\ Settles(c)

\* get().refresh(): over the client of now.
ThenRefresh(c) ==
  IF client = 0 THEN Ends(c)
  ELSE Becomes(c, [At(c, "reading") EXCEPT !.on = client]) /\ UNCHANGED <<remoteOp, connected>>

\* Mutant: discarding is taken for an edit, which the watcher tells.
Reply_DiscardIsEdit(c) ==
  /\ isRepo' = (isRepo \/ c.op = "init")
  /\ IF c.op \in {"push", "discard"} THEN Ends(c) ELSE ThenRefresh(c)

\* What the worker is done with: the store knows of a new repository, and reads
\* it all again, but for a push.
Reply(c) ==
  /\ isRepo' = (isRepo \/ c.op = "init")
  /\ IF c.op = "push" THEN Ends(c) ELSE ThenRefresh(c)

Asked(c) == c.at = "asked" /\ c.op \notin {"setRemote", "clearRemote"}

\* The worker does it; its reply finds the store as it is then.
Done(c) ==
  /\ Asked(c)
  /\ \E r \in Effect(c.op, repo[Ws(c.on)]) : repo' = [repo EXCEPT ![Ws(c.on)] = r]
  /\ Reply(c)
  /\ UNCHANGED <<settings, opens, shell, client, loading, status, remote, dirty, behind, moves>>

\* Reads that nothing corrects: what they bring is out of date.
Outdated(cs) == {IF c.at = "read" THEN [c EXCEPT !.old = TRUE] ELSE c : c \in cs}

\* It fails, a checkout or a pull perhaps half-way: nobody refreshes.  discard swallows
\* every error, and always returns.
Failed(c) ==
  /\ Asked(c)
  /\ c.op # "discard"
  /\ \/ UNCHANGED repo
     \/ /\ c.op \in {"checkout", "pull"}
        /\ \E r \in OtherTree(repo[Ws(c.on)]) : repo' = [repo EXCEPT ![Ws(c.on)] = r]
  /\ behind' = TRUE
  /\ calls' = Outdated(calls \ {c})
  /\ Settles(c)
  /\ UNCHANGED <<settings, opens, shell, client, loading, isRepo, status, remote, dirty, moves>>

\* refresh: the worker reads the state of now, the store shows it later.
Read(c) ==
  /\ c.at = "reading"
  /\ calls' = {IF d.at = "read" /\ d.on = c.on THEN [d EXCEPT !.old = TRUE] ELSE d : d \in calls \ {c}}
              \cup {[At(c, "read") EXCEPT !.row = Classify(Matrix(repo[Ws(c.on)]))]}
  /\ UNCHANGED <<repo, settings, opens, shell, storeVars, connected, dirty, behind, moves>>

Refreshed(c) ==
  /\ c.at = "read"
  /\ \/ status' = c.row /\ behind' = (c.old \/ c.on # client)
     \/ UNCHANGED status /\ behind' = TRUE  \* one of the four calls failed
  /\ Ends(c)
  /\ UNCHANGED <<repo, settings, opens, shell, client, loading, isRepo, remote, dirty, moves>>

----------------------------------------------------------------------------
(* git-store.ts: the operations *)

Start(op) ==
  /\ Act
  /\ calls' = calls \cup {Call(op, client, "asked")}
  /\ UNCHANGED <<repo, settings, opens, shell, client, loading, isRepo, status, remote, connected, dirty, behind>>

\* What the panel offers: a row's buttons by what it shows, commit with a staged
\* row; nothing keeps two calls apart.
Offered(op) ==
  /\ shell # 0 /\ ~loading /\ client # 0
  /\ CASE op = "init" -> ~isRepo
       [] op \in {"stage", "discard"} -> isRepo /\ status # Nothing /\ ~status.staged
       [] op \in {"unstage", "commit"} -> isRepo /\ status # Nothing /\ status.staged
       [] op = "checkout" -> isRepo
       [] op \in RemoteOps -> isRepo /\ remote # Nothing /\ remoteOp = Nothing
       [] OTHER -> FALSE

Operate(op) ==
  /\ Offered(op)
  /\ Start(op)
  /\ remoteOp' = IF op \in RemoteOps THEN op ELSE remoteOp

\* setRemote and clearRemote: the worker's config, then the database, then the
\* store, whatever is open by then.
SetRemote(op) ==
  /\ shell # 0 /\ ~loading /\ isRepo /\ client # 0
  /\ op = "clearRemote" => remote # Nothing
  /\ Start(op)
  /\ UNCHANGED remoteOp

\* A failure before leaves the rest undone; clearRemote's first call may fail.
RemoteStored(c, failed) ==
  /\ c.at = "asked" /\ c.op \in {"setRemote", "clearRemote"}
  /\ IF failed THEN Ends(c) /\ UNCHANGED settings
     ELSE /\ Becomes(c, At(c, "stored"))
          /\ settings' = IF c.op = "setRemote" THEN settings \cup {Ws(c.on)} ELSE settings \ {Ws(c.on)}
          /\ UNCHANGED <<remoteOp, connected>>
  /\ UNCHANGED <<repo, opens, shell, client, loading, isRepo, status, remote, dirty, behind, moves>>

RemoteSet(c) ==
  /\ c.at = "stored"
  /\ remote' = IF c.op = "setRemote" THEN Ws(c.on) ELSE Nothing
  /\ Ends(c)
  /\ UNCHANGED <<repo, settings, opens, shell, client, loading, isRepo, status, dirty, behind, moves>>

ConnectFails(c) ==
  /\ c.at = "creating"
  /\ loading' = FALSE
  /\ Ends(c)
  /\ UNCHANGED <<repo, settings, opens, shell, client, isRepo, status, remote, dirty, behind, moves>>

\* getRemoteSettings.
Stored(w) == IF w \in settings THEN w ELSE Nothing

\* connect: a worker and the settings, then isRepo; nothing asks whether the
\* workspace is still open.
Connected(c) ==
  /\ c.at = "creating"
  /\ client' = c.on /\ loading' = FALSE
  /\ isRepo' = repo[Ws(c.on)].isRepo
  /\ remote' = Stored(Ws(c.on))
  /\ behind' = TRUE
  /\ IF isRepo' THEN Becomes(c, At(c, "reading")) /\ UNCHANGED <<remoteOp, connected>> ELSE Ends(c)
  /\ UNCHANGED <<repo, settings, opens, shell, status, dirty, moves>>

\* The shell of a workspace comes up, and connects.
ConnectGit(w) ==
  /\ opens' = Append(opens, w)
  /\ shell' = Len(opens')
  /\ calls' = calls \cup {Call("connect", shell', "creating")}
  /\ loading' = TRUE
  /\ UNCHANGED <<repo, settings, client, isRepo, status, remote, remoteOp, connected, dirty, behind>>

\* It goes: the worker is terminated and answers nothing any more.
ResetGit ==
  /\ shell' = 0
  /\ calls' = {c \in calls : client = 0 \/ c.on # client}
  /\ client' = 0 /\ isRepo' = FALSE /\ status' = Nothing /\ remote' = Nothing /\ remoteOp' = Nothing
  /\ dirty' = FALSE /\ behind' = TRUE
  /\ UNCHANGED <<repo, settings, opens, loading, connected>>

----------------------------------------------------------------------------
(* Shell.tsx: files written *)

Written(v) ==
  /\ Act /\ shell # 0
  /\ LET w == Ws(shell) r == repo[w] IN
     v # r.work /\ repo' = [repo EXCEPT ![w] = Repo(r.isRepo, r.head, v, r.stage)]
  /\ UNCHANGED <<settings, opens, shell, storeVars, connected>>

\* By the page's own file system: its watcher asks for a refresh in 400 ms.
Write(v) == Written(v) /\ dirty' = TRUE /\ UNCHANGED <<calls, behind>>

\* By the terminal's: no watcher of the page sees it.
WriteElsewhere(v) ==
  /\ Written(v) /\ behind' = TRUE
  /\ calls' = Outdated(calls)
  /\ UNCHANGED dirty

RefreshDue ==
  /\ dirty /\ dirty' = FALSE
  /\ calls' = IF isRepo /\ client # 0 THEN calls \cup {Call("refresh", client, "reading")} ELSE calls
  /\ UNCHANGED <<repo, settings, opens, shell, storeVars, connected, behind, moves>>

GitInit ==
  /\ repo = [w \in Workspace |-> IF w \in Known THEN Repo(TRUE, 1, 1, 1) ELSE Repo(FALSE, 0, 1, 0)]
  /\ settings = Known
  /\ opens = <<>> /\ shell = 0
  /\ client = 0 /\ loading = FALSE /\ isRepo = FALSE /\ status = Nothing
  /\ remote = Nothing /\ remoteOp = Nothing
  /\ calls = {} /\ connected = {} /\ dirty = FALSE /\ behind = TRUE
  /\ moves = 0

UserGit ==
  \/ \E op \in {"init", "stage", "unstage", "discard", "commit", "checkout"} \cup RemoteOps : Operate(op)
  \/ \E op \in {"setRemote", "clearRemote"} : SetRemote(op)
  \/ \E v \in Versions : Write(v) \/ WriteElsewhere(v)

GitStep ==
  \/ \E c \in calls :
       \/ Done(c) \/ Failed(c) \/ Read(c) \/ Refreshed(c)
       \/ \E failed \in BOOLEAN : RemoteStored(c, failed)
       \/ RemoteSet(c) \/ ConnectFails(c) \/ Connected(c)
  \/ RefreshDue

----------------------------------------------------------------------------
(* Properties *)

\* Once nothing is under way and the last refresh was in order, the panel tells
\* the truth: a file that differs from HEAD in the working tree has a row, a row is
\* of a file that differs, and one under "Staged" of a file the next commit changes;
\* a file that a discard has deleted, where it could not write it, has one too.  A
\* refresh is not in order (behind) when one of its reads failed, when a call failed
\* and nobody refreshes after it, when an older refresh ended after it (git-store.ts:76
\* sets what it read whatever is newer), or when its client is another's (:65).
StatusTrue ==
  calls = {} /\ ~dirty /\ ~behind /\ client # 0 /\ isRepo =>
    LET r == repo[Ws(client)] IN
    /\ r.work # r.head => status # Nothing
    /\ status # Nothing =>
         (r.work # r.head \/ r.stage # r.head) /\ (status.staged => r.stage # r.head)
============================================================================
