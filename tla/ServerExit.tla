----------------------------- MODULE ServerExit ------------------------------
(***************************************************************************)
(* The server around its requests: event streams, uploads and quick jobs,  *)
(* the runs that the task queue's workers process, and the orderly         *)
(* shutdown of cmd/server/main.go, which ends them one kind after another. *)
(* Of a run only what it tells the broadcaster is modelled here: TaskQueue *)
(* has the rest, and ModelDownloads the downloads and their storage.       *)
(***************************************************************************)
EXTENDS Uploads

CONSTANTS
  Workers      \* workers of the task queue

VARIABLES
  main,     \* where main is
  run       \* what the processor of each worker does

mainVars == <<main, run>>
vars == <<streamVars, quickVars, uploadVars, mainVars>>

TypeOK ==
  /\ StreamTypeOK /\ QuickTypeOK /\ UploadTypeOK
  /\ main \in {"serving", "closing", "draining", "stopping", "waiting", "down"}
  /\ run \in [Workers -> {"none", "beginning", "running", "publishing"}]

Init ==
  /\ StreamInit /\ QuickInit /\ UploadInit
  /\ main = "serving" /\ run = [w \in Workers |-> "none"]

\* New requests are taken until srv.Shutdown closes the listening socket, that is,
\* for a moment after the broadcaster was told to end.
Accepting == main \in {"serving", "closing"}
Alive == main # "down"

RunGoes(w, pc) == run' = [run EXCEPT ![w] = pc]

-----------------------------------------------------------------------------
(* The runs of the task queue, as the broadcaster sees them.               *)

BeginRun(w) ==
  /\ main \in {"serving", "closing", "draining"} /\ run[w] = "none" /\ RunGoes(w, "beginning")
  /\ UNCHANGED <<streamVars, quickVars, uploadVars, main>>

\* broadcastRecovery after Begin and after the outcome is written: the processor
\* waits for the listener, whatever becomes of its context.
AnnounceRun(w) ==
  /\ run[w] \in {"beginning", "publishing"} /\ Broadcast
  /\ RunGoes(w, IF run[w] = "beginning" THEN "running" ELSE "none")
  /\ UNCHANGED <<quickVars, uploadVars, main>>

\* The adapters return, and the outcome is published or refused.
ProcessRun(w) ==
  /\ run[w] = "running" /\ (RunGoes(w, "publishing") \/ RunGoes(w, "none"))
  /\ UNCHANGED <<streamVars, quickVars, uploadVars, main>>

-----------------------------------------------------------------------------
(* Shutdown, in the order of main.                                         *)

HandlersDone ==
  /\ MutexFree /\ \A u \in Requests : chunk[u] = NoRequest
  /\ \A c \in Clients : stream[c] = "none"
  /\ \A q \in Quick : quick[q] \notin {"admitted", "written", "committed"}

MainGoes(from, to) == main = from /\ main' = to /\ UNCHANGED run

CloseStreams ==
  /\ MainGoes("serving", "closing") /\ CloseShutdown /\ UNCHANGED <<quickVars, uploadVars>>

\* srv.Shutdown begins; it ends when no handler is left.
Drain == MainGoes("closing", "draining") /\ UNCHANGED <<streamVars, quickVars, uploadVars>>

Drained ==
  /\ MainGoes("draining", "stopping") /\ HandlersDone
  /\ UNCHANGED <<streamVars, quickVars, uploadVars>>

\* TaskQueue.Stop has returned; QuickTranscriptionService.Close begins.
CloseQuick ==
  /\ MainGoes("stopping", "waiting") /\ \A w \in Workers : run[w] = "none"
  /\ refusing' = TRUE
  /\ UNCHANGED <<streamVars, uploadVars, quick, entry, audio, slots>>

\* The process is gone, and with it all that is not on disk.
MemoryLost ==
  /\ main' = "down" /\ run' = [w \in Workers |-> "none"]
  /\ listener' = "stopped" /\ shutdown' = FALSE /\ subscribers' = {} /\ closed' = {}
  /\ stream' = [c \in Clients |-> "none"] /\ panicked' = FALSE
  /\ quick' = [q \in Quick |-> IF quick[q] = "none" THEN "none" ELSE "ended"]
  /\ entry' = [q \in Quick |-> NoEntry] /\ slots' = {} /\ refusing' = FALSE
  /\ holder' = NoHolder /\ chunk' = [u \in Requests |-> NoRequest]
  /\ UNCHANGED <<audio, session, staged, uploaded, recordings>>

Exit ==
  /\ main = "waiting" /\ \A q \in Quick : quick[q] \in {"none", "ended"}
  /\ MemoryLost

\* srv.Shutdown gives up after 30 seconds, and main exits.
DrainTimesOut ==
  /\ main = "draining" /\ ~HandlersDone /\ MemoryLost

Crash == Alive /\ MemoryLost

Restart ==
  /\ main = "down" /\ main' = "serving" /\ listener' = "listening"
  /\ UNCHANGED <<shutdown, subscribers, closed, stream, panicked, quickVars, uploadVars,
                 run>>

-----------------------------------------------------------------------------
RequestStep ==
  \/ /\ \/ CreateUploadSession
           \/ \E s \in Sessions : CancelUploadSession(s) \/ CompleteUploadSession(s)
        \/ \E u \in Requests, s \in Sessions, c \in Chunks : BeginChunk(u, s, c)
     /\ Accepting /\ UNCHANGED <<streamVars, quickVars, mainVars>>
  \/ (\E c \in Clients : Connect(c)) /\ Accepting /\ UNCHANGED <<quickVars, uploadVars, mainVars>>
  \/ \E q \in Quick : /\ quick[q] = "none" => Accepting
                      /\ SubmitDirectly(q) /\ UNCHANGED <<streamVars, mainVars>>

HandlerStep ==
  /\ Alive
  /\ \/ /\ \/ \E u \in Requests : StoreChunk(u) \/ CountChunk(u)
           \/ RemoveStaging
        /\ UNCHANGED <<quickVars, streamVars, mainVars>>
     \/ RecordingStep /\ UNCHANGED <<streamVars, mainVars>>
     \/ (BeginSubmission \/ GoOnSubmitting \/ LaunchSubmitted) /\ UNCHANGED <<streamVars, mainVars>>
     \/ StreamStep /\ UNCHANGED <<quickVars, uploadVars, mainVars>>

JobStep ==
  /\ Alive
  /\ \/ QuickStep /\ UNCHANGED <<streamVars, uploadVars, mainVars>>
     \/ (\E q \in Quick : AnnounceQuick(q)) /\ UNCHANGED <<uploadVars, mainVars>>

RunStep == \E w \in Workers : BeginRun(w) \/ AnnounceRun(w) \/ ProcessRun(w)

TimeStep == (\E s \in Sessions : ExpireSession(s)) /\ UNCHANGED <<streamVars, quickVars, mainVars>>

MainStep == CloseStreams \/ Drain \/ Drained \/ CloseQuick \/ Exit \/ DrainTimesOut

Next == RequestStep \/ HandlerStep \/ JobStep \/ RunStep \/ TimeStep \/ MainStep \/ Crash \/ Restart

Spec == Init /\ [][Next]_vars

\* Goroutines that can go on do; a connection ends when its channel is closed, and
\* so does a run, whose context is cancelled.  Nothing makes a client come, a run
\* begin or the process die.
Fairness ==
  /\ WF_vars(HandlerStep) /\ WF_vars(JobStep) /\ WF_vars(MainStep)
  /\ \A c \in Clients :
       /\ WF_vars(Alive /\ (Register(c) \/ Written(c) \/ Unregister(c))
                    /\ UNCHANGED <<quickVars, uploadVars, mainVars>>)
       /\ WF_vars(Alive /\ c \in closed /\ StopReading(c)
                    /\ UNCHANGED <<quickVars, uploadVars, mainVars>>)
  /\ WF_vars(Alive /\ ListenerEnds /\ UNCHANGED <<quickVars, uploadVars, mainVars>>)
  /\ \A w \in Workers : WF_vars(AnnounceRun(w)) /\ WF_vars(ProcessRun(w))

FairSpec == Spec /\ Fairness
=============================================================================
