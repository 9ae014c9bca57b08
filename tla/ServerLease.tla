----------------------------- MODULE ServerLease -----------------------------
(***************************************************************************)
(* The lock file beside the database (internal/serverlock).  It does two   *)
(* things: one server at a time owns the database, and its content tells   *)
(* the next owner whether every child process of the earlier ones is known *)
(* to have stopped - because a server drained its workers before it left,  *)
(* or because the machine or container has been restarted since.           *)
(***************************************************************************)
EXTENDS Naturals

VARIABLES
  marker,    \* content of the file: what it says, and the boundary it names
  boundary,  \* processBoundary: the boot and container the servers run in
  lease,     \* the lease of the running server
  proven     \* PriorWorkersStopped, fixed when the lease is acquired

leaseVars == <<marker, boundary, lease, proven>>

LeaseTypeOK ==
  /\ marker \in [says : {"nothing", "clean", "unclean", "torn"}, boundary : Nat]
  /\ boundary \in Nat
  /\ lease \in {"none", "acquired", "held", "marked"}
  /\ proven \in BOOLEAN

LeaseInit ==
  /\ marker = [says |-> "nothing", boundary |-> 0]
  /\ boundary = 1 /\ lease = "none" /\ proven = FALSE

\* An empty file is a first use; one that does not parse names no boundary.
PriorStopped ==
  \/ marker.says \in {"nothing", "clean"}
  \/ marker.says = "unclean" /\ marker.boundary # boundary

\* Acquire decides, then begins to write its own marker: the bytes of a longer
\* earlier marker stay behind them until the file is truncated.
Acquire ==
  /\ lease = "none" /\ lease' = "acquired"
  /\ proven' = PriorStopped
  /\ \E says \in {"unclean", "torn"} :
       marker' = [says |-> says, boundary |-> boundary]
  /\ UNCHANGED boundary

Truncate ==
  /\ lease = "acquired" /\ lease' = "held"
  /\ marker' = [marker EXCEPT !.says = "unclean"]
  /\ UNCHANGED <<boundary, proven>>

MayMarkAlways == TRUE                                          \* mutant

\* A server that could not vouch for its predecessors cannot clear their record.
MayMark == proven

\* MarkWorkersStopped, called when every worker has been drained.  "clean" is
\* shorter than the marker it replaces, which is torn in between.
MarkWorkersStopped ==
  /\ lease = "held" /\ lease' = "marked"
  /\ marker' = IF MayMark THEN [marker EXCEPT !.says = "torn"] ELSE marker
  /\ UNCHANGED <<boundary, proven>>

\* The second half of that write, and the exit of the process.
Leave ==
  /\ lease = "marked" /\ lease' = "none"
  /\ marker' = IF MayMark THEN [marker EXCEPT !.says = "clean"] ELSE marker
  /\ UNCHANGED <<boundary, proven>>

\* The operating system drops the lock of a process that dies.
LoseLease == lease # "none" /\ lease' = "none" /\ UNCHANGED <<marker, boundary, proven>>

\* The machine restarts: no process survives.
NextBoundary ==
  /\ boundary' = boundary + 1 /\ lease' = "none"
  /\ UNCHANGED <<marker, proven>>
=============================================================================
