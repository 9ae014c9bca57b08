--------------------------- MODULE QueueRefinement ---------------------------
(***************************************************************************)
(* The task queue implements SequentialRuns: the abstract state of one     *)
(* recording is read off the queue items of that recording alone.          *)
(***************************************************************************)
EXTENDS TaskQueue

CONSTANT Recording   \* the recording a client watches

ASSUME RecordingAssumption == Recording \in Jobs

RunsOfRecording == {i \in Items : JobOf[i] = Recording}

\* The waiting runs in the order of their positions.  There is such an order only
\* because positions are dense, 1..n without gaps or ties (normalizeQueuedPositions
\* and every caller of it): the order of promotion is the order a client sees.
Line ==
  [p \in 1..Cardinality(Queued(rows, Recording)) |->
     CHOOSE i \in Queued(rows, Recording) : rows.item[i].pos = p]

Ended(i) ==
  CASE rows.item[i].status \in {"completed", "failed", "cancelled"} -> rows.item[i].status
    [] rows.item[i].status = "gone" -> "deleted"
    [] OTHER -> "no"

RunQueue ==
  INSTANCE SequentialRuns WITH
    Runs <- RunsOfRecording, line <- Line,
    active <- ActiveItems(rows, Recording),
    ended <- [i \in RunsOfRecording |-> Ended(i)]

\* Whatever workers, stops, repairs, crashes and restarts interleave, the rows
\* of a recording behave as one queue: first in line first promoted, at most
\* one active run, one end per run, and back only by a resume.
RunQueueImplemented == RunQueue!Spec
=============================================================================
