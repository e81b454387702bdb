----------------------------- MODULE IndexedDbFs -----------------------------
(***************************************************************************)
(* packages/filesystem, indexeddb-backend.ts: the virtual filesystem over  *)
(* two IndexedDB object stores.  A call is a series of transactions with   *)
(* awaits between them; calls of the explorer, the terminal, the editor    *)
(* and git run side by side.  todo holds the transactions a call still has *)
(* before it; each step is one transaction.                                *)
(***************************************************************************)
EXTENDS Integers, Sequences, FiniteSets, SequencesExt

CONSTANTS
  Calls,  \* the calls of a history, each made at most once
  Top,    \* names in the root directory
  Below,  \* names in the directories of the root; nothing is deeper
  Kinds,  \* the operations that are called
  Matches \* the versions given as ifMatch, NoVersion when there is none

NoVersion == 0

ASSUME FsAssumption ==
  /\ Kinds \subseteq {"write", "mkdir", "delete", "copy", "move"}
  /\ Matches \subseteq Nat
  /\ IsFiniteSet(Top) /\ IsFiniteSet(Below)

Root == <<>>
Paths == {Root} \cup {<<t>> : t \in Top} \cup {<<t, b>> : t \in Top, b \in Below}

VARIABLES
  type,     \* the entries store: what is at each path, or "none"
  version,  \* the version of the file at each path
  content,  \* the contents store: a token for the bytes, or NoContent
  next,     \* versionCounter
  op,       \* the operation of each call, or NoOp
  todo,     \* what each call still has to do
  outcome,  \* "none", "running", "done" or "failed"
  before    \* history: the content of each path when a copy or move was made

stores == <<type, version, content, next>>
calls == <<op, todo, outcome, before>>
fsVars == <<stores, calls>>

\* Tokens: what was in a file at the start, what a call writes, and the bytes
\* readFile makes up for a file without contents.
NoContent == <<"none">>
EmptyBytes == <<"empty">>
InitialOf(p) == <<"initial", p>>
WrittenBy(c) == <<"written", c>>

NoOp == [do |-> "none"]

Parent(p) == Front(p)
\* norm itself, or with the prefix `${norm}/`.
Under(q, p) == IsPrefix(p, q)
Children(p) == {q \in Paths : q # Root /\ Parent(q) = p /\ type[q] # "none"}
\* Where copying from to to takes q.
Moved(q, from, to) == to \o SubSeq(q, Len(from) + 1, Len(q))

----------------------------------------------------------------------------
(* Transactions, named for what they ask of the stores *)

T(do, p) == [do |-> do, path |-> p]
ListOf(p, to) == [do |-> "copyDir", path |-> p, to |-> to]
Source(p, to) == [do |-> "source", path |-> p, to |-> to]
ReadFor(p, to) == [do |-> "readFile", path |-> p, to |-> to]
Check(p, data, match) == [do |-> "check", path |-> p, data |-> data, match |-> match]
Put(p, data) == [do |-> "put", path |-> p, data |-> data]
Target(p, recursive) == [do |-> "target", path |-> p, recursive |-> recursive]

\* mkdirInternal returns at once for the root.
MkdirInternal(p) == IF p = Root THEN <<>> ELSE <<T("look", p)>>

\* Mutant: the source is deleted before it is copied.
MovePlan_DeleteFirst(o) == <<Target(o.path, TRUE), Source(o.path, o.to)>>

MovePlan(o) == <<Source(o.path, o.to), Target(o.path, TRUE)>>

\* What each API call begins with.  rename is move.
Plan(c, o) ==
  CASE o.do = "write"  -> <<Check(o.path, WrittenBy(c), o.match)>>
    [] o.do = "mkdir"  -> MkdirInternal(o.path)
    [] o.do = "delete" -> <<Target(o.path, o.recursive)>>
    [] o.do = "copy"   -> <<Source(o.path, o.to)>>
    [] o.do = "move"   -> MovePlan(o)

\* A destination no deeper than the source keeps every copy within Paths; one
\* inside the source would be copied into for ever.
Destinations(p) == {q \in Paths \ {Root} : Len(q) <= Len(p)}

Operations ==
  LET Entries == Paths \ {Root} IN
  [do : {"write"}, path : Entries, match : Matches]
  \cup [do : {"mkdir"}, path : Entries]
  \cup [do : {"delete"}, path : Paths, recursive : BOOLEAN]
  \cup UNION {[do : {"copy", "move"}, path : {p}, to : Destinations(p)] : p \in Entries}

Begin(c) ==
  /\ outcome[c] = "none"
  /\ \E o \in Operations :
       /\ o.do \in Kinds
       /\ op' = [op EXCEPT ![c] = o]
       /\ todo' = [todo EXCEPT ![c] = Plan(c, o)]
       /\ before' = [before EXCEPT ![c] = IF o.do \in {"copy", "move"} THEN content ELSE @]
  /\ outcome' = [outcome EXCEPT ![c] = "running"]
  /\ UNCHANGED <<stores>>

Doing(c, do) == outcome[c] = "running" /\ todo[c] # <<>> /\ Head(todo[c]).do = do
Now(c) == Head(todo[c])

\* The call goes on with the transactions ts.
Proceed(c, ts) ==
  /\ todo' = [todo EXCEPT ![c] = ts \o Tail(@)]
  /\ UNCHANGED <<op, outcome, before>>

Throw(c) ==
  /\ todo' = [todo EXCEPT ![c] = <<>>]
  /\ outcome' = [outcome EXCEPT ![c] = "failed"]
  /\ UNCHANGED <<op, before>>

Return(c) ==
  /\ outcome[c] = "running" /\ todo[c] = <<>>
  /\ outcome' = [outcome EXCEPT ![c] = "done"]
  /\ UNCHANGED <<stores, op, todo, before>>

----------------------------------------------------------------------------
(* writeFile *)

Conflicts(f) ==
  \/ f.match # NoVersion /\ type[f.path] # "none" /\ version[f.path] # f.match
  \/ type[f.path] = "directory"

CheckTarget(c) ==
  /\ Doing(c, "check")
  /\ LET f == Now(c) IN
       \/ Conflicts(f) /\ Throw(c)
       \/ ~Conflicts(f) /\ Proceed(c, MkdirInternal(Parent(f.path)) \o <<Put(f.path, f.data)>>)
  /\ UNCHANGED <<stores>>

\* One transaction for the entry and its bytes, which may fail for want of space.
PutFile(c) ==
  /\ Doing(c, "put")
  /\ LET f == Now(c) IN
       \/ /\ type' = [type EXCEPT ![f.path] = "file"]
          /\ version' = [version EXCEPT ![f.path] = next]
          /\ content' = [content EXCEPT ![f.path] = f.data]
          /\ next' = next + 1
          /\ Proceed(c, <<>>)
       \/ Throw(c) /\ UNCHANGED <<type, version, content>> /\ next' = next + 1

----------------------------------------------------------------------------
(* mkdirInternal, recursive *)

LookForDir(c) ==
  /\ Doing(c, "look")
  /\ LET p == Now(c).path IN
       \/ type[p] = "directory" /\ Proceed(c, <<>>)
       \/ type[p] = "file" /\ Throw(c)
       \/ type[p] = "none" /\ Proceed(c, MkdirInternal(Parent(p)) \o <<T("putDir", p)>>)
  /\ UNCHANGED <<stores>>

\* Only the entries store: bytes of a file put there meanwhile stay behind.
PutDir(c) ==
  /\ Doing(c, "putDir")
  /\ \/ type' = [type EXCEPT ![Now(c).path] = "directory"] /\ Proceed(c, <<>>)
     \/ Throw(c) /\ UNCHANGED type
  /\ UNCHANGED <<version, content, next>>

----------------------------------------------------------------------------
(* delete *)

FindTarget(c) ==
  /\ Doing(c, "target")
  /\ LET f == Now(c) IN
       \/ type[f.path] = "none" /\ Throw(c)
       \/ type[f.path] = "file" /\ Proceed(c, <<T("purge", f.path)>>)
       \/ /\ type[f.path] = "directory"
          /\ Proceed(c, <<[f EXCEPT !.do = "listTarget"], T("purge", f.path)>>)
  /\ UNCHANGED <<stores>>

\* readdir: it is still a directory.
ListTarget(c) ==
  /\ Doing(c, "listTarget")
  /\ \/ type[Now(c).path] # "directory" /\ Throw(c)
     \/ type[Now(c).path] = "directory" /\ Proceed(c, <<[Now(c) EXCEPT !.do = "children"]>>)
  /\ UNCHANGED <<stores>>

TargetChildren(c) ==
  /\ Doing(c, "children")
  /\ LET refuse == Children(Now(c).path) # {} /\ ~Now(c).recursive
     IN  (refuse /\ Throw(c)) \/ (~refuse /\ Proceed(c, <<>>))
  /\ UNCHANGED <<stores>>

\* Mutant: only the directory's own record goes.
Purge_OnlyItself(c) ==
  /\ Doing(c, "purge")
  /\ \/ /\ type' = [type EXCEPT ![Now(c).path] = "none"]
        /\ content' = [content EXCEPT ![Now(c).path] = NoContent]
        /\ Proceed(c, <<>>)
     \/ Throw(c) /\ UNCHANGED <<type, content>>
  /\ UNCHANGED <<version, next>>

\* One transaction: every entry at or under the path, with its bytes.
Purge(c) ==
  /\ Doing(c, "purge")
  /\ LET p == Now(c).path IN
       \/ /\ type' = [q \in Paths |-> IF Under(q, p) THEN "none" ELSE type[q]]
          /\ content' = [q \in Paths |-> IF Under(q, p) /\ type[q] # "none" THEN NoContent ELSE content[q]]
          /\ Proceed(c, <<>>)
       \/ Throw(c) /\ UNCHANGED <<type, content>>
  /\ UNCHANGED <<version, next>>

----------------------------------------------------------------------------
(* copy, which move begins with *)

FindSource(c) ==
  /\ Doing(c, "source")
  /\ LET f == Now(c) IN
       \/ type[f.path] = "none" /\ Throw(c)
       \/ type[f.path] = "file" /\ Proceed(c, <<ReadFor(f.path, f.to)>>)
       \/ /\ type[f.path] = "directory"
          /\ Proceed(c, MkdirInternal(f.to) \o <<ListOf(f.path, f.to)>>)
  /\ UNCHANGED <<stores>>

ListSource(c) ==
  /\ Doing(c, "copyDir")
  /\ \/ type[Now(c).path] # "directory" /\ Throw(c)
     \/ type[Now(c).path] = "directory" /\ Proceed(c, <<[Now(c) EXCEPT !.do = "copyChildren"]>>)
  /\ UNCHANGED <<stores>>

\* In the order of their names, which is some order.
SourceChildren(c) ==
  /\ Doing(c, "copyChildren")
  /\ LET f == Now(c)
         copyOf(q) == Source(q, Moved(q, f.path, f.to))
     IN  \E order \in SetToSeqs(Children(f.path)) :
           Proceed(c, [i \in DOMAIN order |-> copyOf(order[i])])
  /\ UNCHANGED <<stores>>

\* readFile looks at the entry and, in another transaction, at the bytes.
ReadEntry(c) ==
  /\ Doing(c, "readFile")
  /\ \/ type[Now(c).path] # "file" /\ Throw(c)
     \/ type[Now(c).path] = "file" /\ Proceed(c, <<[Now(c) EXCEPT !.do = "readBytes"]>>)
  /\ UNCHANGED <<stores>>

\* Mutant: the copy is made without the bytes.
ReadBytes_Lost(c) ==
  /\ Doing(c, "readBytes")
  /\ Proceed(c, <<Check(Now(c).to, EmptyBytes, NoVersion)>>)
  /\ UNCHANGED <<stores>>

\* Mutant: nothing stands in for bytes that are gone.
ReadBytes_NoDefault(c) ==
  /\ Doing(c, "readBytes")
  /\ Proceed(c, <<Check(Now(c).to, content[Now(c).path], NoVersion)>>)
  /\ UNCHANGED <<stores>>

ReadBytes(c) ==
  /\ Doing(c, "readBytes")
  /\ LET bytes == content[Now(c).path] IN
       Proceed(c, <<Check(Now(c).to, IF bytes = NoContent THEN EmptyBytes ELSE bytes, NoVersion)>>)
  /\ UNCHANGED <<stores>>

----------------------------------------------------------------------------
\* The tab is closed or reloaded; ensureRoot puts a missing root back.
TabReloads ==
  /\ \E c \in Calls : outcome[c] = "running"
  /\ outcome' = [c \in Calls |-> IF outcome[c] = "running" THEN "failed" ELSE outcome[c]]
  /\ todo' = [c \in Calls |-> <<>>]
  /\ type' = [type EXCEPT ![Root] = "directory"]
  /\ UNCHANGED <<version, content, next, op, before>>

WellFormed(ty) ==
  \A p \in Paths \ {Root} : ty[p] # "none" => ty[Parent(p)] = "directory"

\* Any tree that calls made one after the other can have left.
FsInit ==
  /\ type \in [Paths -> {"none", "file", "directory"}]
  /\ type[Root] = "directory" /\ WellFormed(type)
  /\ \A p \in Paths : Len(p) = 2 => type[p] # "directory"
  /\ version = [p \in Paths |-> 1]
  /\ content = [p \in Paths |-> IF type[p] = "file" THEN InitialOf(p) ELSE NoContent]
  /\ next = 2
  /\ op = [c \in Calls |-> NoOp]
  /\ todo = [c \in Calls |-> <<>>]
  /\ outcome = [c \in Calls |-> "none"]
  /\ before = [c \in Calls |-> content]

Step(c) ==
  \/ Begin(c) \/ Return(c)
  \/ CheckTarget(c) \/ PutFile(c) \/ LookForDir(c) \/ PutDir(c)
  \/ FindTarget(c) \/ ListTarget(c) \/ TargetChildren(c) \/ Purge(c)
  \/ FindSource(c) \/ ListSource(c) \/ SourceChildren(c) \/ ReadEntry(c) \/ ReadBytes(c)

FsNext == (\E c \in Calls : Step(c)) \/ TabReloads

FsSpec == FsInit /\ [][FsNext]_fsVars

----------------------------------------------------------------------------
Comparable(p, q) == Under(p, q) \/ Under(q, p)
Touches(o) == IF o.do \in {"copy", "move"} THEN {o.path, o.to} ELSE {o.path}

\* Two calls of the history work on the same part of the tree.
Clash(c, d) ==
  /\ c # d /\ op[c] # NoOp /\ op[d] # NoOp
  /\ \E p \in Touches(op[c]), q \in Touches(op[d]) : Comparable(p, q)

Clashing == \E c, d \in Calls : Clash(c, d)

\* Whatever runs at the same time, a file always has its bytes: the two stores
\* are written and cleared together.
FilesHaveBytes == \A p \in Paths : type[p] = "file" => content[p] # NoContent

\* Calls on different parts of the tree leave no entry outside a directory and
\* no bytes without an entry, at any moment a tab may be closed in, however
\* they interleave and whichever transaction fails.
TreeKept ==
  ~Clashing =>
    /\ type[Root] = "directory" => WellFormed(type)
    /\ \A p \in Paths : type[p] # "file" => content[p] = NoContent

\* A move to another path, finished, failed or interrupted, keeps every file it
\* was to move: under the old path or under the new one.  A move onto itself is
\* no such move: it copies each file over itself and then deletes them all (see
\* CopyComplete).
MoveNeverLoses ==
  \A c \in Calls : op[c].do = "move" /\ ~Clashing /\ op[c].path # op[c].to =>
    \A p \in Paths : Under(p, op[c].path) /\ before[c][p] # NoContent =>
      before[c][p] \in {content[p], content[Moved(p, op[c].path, op[c].to)]}

\* A finished copy or move to another path has brought every file there.  A
\* finished move has left nothing under the old path, which for a move onto
\* itself is the loss of all it was to move.
CopyComplete ==
  \A c \in Calls : outcome[c] = "done" /\ op[c].do \in {"copy", "move"} /\ ~Clashing =>
    /\ op[c].path # op[c].to =>
         \A p \in Paths : Under(p, op[c].path) /\ before[c][p] # NoContent =>
           content[Moved(p, op[c].path, op[c].to)] = before[c][p]
    /\ op[c].do = "move" => \A p \in Paths : Under(p, op[c].path) => type[p] = "none"
=============================================================================
