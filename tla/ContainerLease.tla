--------------------------- MODULE ContainerLease ---------------------------
(***************************************************************************)
(* What the session broker promises about a container and the row that     *)
(* accounts for it, with no broker in it: no requests, sweeps, clock or    *)
(* failures.  A lease is the sessions row; a container is the ECS task.    *)
(***************************************************************************)
CONSTANT Sessions

VARIABLES container, lease

vars == <<container, lease>>

TypeOK ==
  /\ container \in [Sessions -> {"absent", "live", "gone"}]
  /\ lease \in [Sessions -> {"absent", "open", "closed"}]

Init ==
  /\ container = [s \in Sessions |-> "absent"]
  /\ lease = [s \in Sessions |-> "absent"]

\* A container starts at most once.
Launch(s) ==
  /\ container[s] = "absent"
  /\ container' = [container EXCEPT ![s] = "live"]
  /\ UNCHANGED lease

\* It stops for good: by itself, by the reaper or by its user.
Stop(s) ==
  /\ container[s] = "live"
  /\ container' = [container EXCEPT ![s] = "gone"]
  /\ UNCHANGED lease

\* A row is written for a container that has been started.
Open(s) ==
  /\ lease[s] = "absent" /\ container[s] # "absent"
  /\ lease' = [lease EXCEPT ![s] = "open"]
  /\ UNCHANGED container

\* A row is closed only when its container is gone.
Close(s) ==
  /\ lease[s] = "open" /\ container[s] = "gone"
  /\ lease' = [lease EXCEPT ![s] = "closed"]
  /\ UNCHANGED container

Next == \E s \in Sessions : Launch(s) \/ Stop(s) \/ Open(s) \/ Close(s)

Spec == Init /\ [][Next]_vars
=============================================================================
