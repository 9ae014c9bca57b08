------------------------------ MODULE QuickJobs ------------------------------
(***************************************************************************)
(* Quick transcriptions (internal/transcription/quick_transcription.go):   *)
(* temporary jobs that live in memory, with their audio on disk.  They     *)
(* share the server's media slots.  The temporary recording that each has  *)
(* in the database while it is processed is left out: nothing here reads it.*)
(***************************************************************************)
EXTENDS Broadcaster

CONSTANTS
  Quick,       \* quick jobs
  MaxSlots     \* capacity of jobSlots

ASSUME QuickAssumption == MaxSlots \in Nat

VARIABLES
  quick,       \* where the submission, then the goroutine of each job is
  entry,       \* QuickTranscriptionService.jobs
  audio,       \* jobs whose temporary audio is on disk
  slots,       \* jobs that occupy one of jobSlots
  refusing     \* closed: no submission is taken any more

quickVars == <<quick, entry, audio, slots, refusing>>

NoEntry == [status |-> "none", expired |-> FALSE]

QuickTypeOK ==
  /\ quick \in [Quick -> {"none", "admitted", "written", "committed", "launched", "ready",
                          "starting", "beginning", "running", "publishing", "returned", "ended"}]
  /\ entry \in [Quick -> [status : {"none", "pending", "processing", "completed", "failed"},
                          expired : BOOLEAN]]
  /\ audio \subseteq Quick
  /\ Cardinality(slots) <= MaxSlots
  /\ slots = {q \in Quick : quick[q] \notin {"none", "ended"}}
  /\ refusing \in BOOLEAN

QuickInit ==
  /\ quick = [q \in Quick |-> "none"] /\ entry = [q \in Quick |-> NoEntry]
  /\ audio = {} /\ slots = {} /\ refusing = FALSE

QuickGoes(q, pc) == quick' = [quick EXCEPT ![q] = pc]
Unfinished(q) == entry[q].status \in {"pending", "processing"}

\* The submission counts among the workers that Close waits for, and takes a slot
\* if there is one.
Submit(q) ==
  /\ quick[q] = "none" /\ ~refusing /\ Cardinality(slots) < MaxSlots
  /\ slots' = slots \cup {q} /\ QuickGoes(q, "admitted")
  /\ UNCHANGED <<entry, audio, refusing>>

WriteAudio(q) ==
  /\ quick[q] = "admitted" /\ audio' = audio \cup {q} /\ QuickGoes(q, "written")
  /\ UNCHANGED <<entry, slots, refusing>>

AbandonButKeepSlot(q) ==                                       \* mutant
  /\ quick[q] \in {"admitted", "written"}
  /\ audio' = audio \ {q} /\ QuickGoes(q, "none")
  /\ UNCHANGED <<entry, slots, refusing>>

\* A submission that fails leaves nothing behind.
AbandonSubmission(q) ==
  /\ quick[q] \in {"admitted", "written"}
  /\ audio' = audio \ {q} /\ slots' = slots \ {q} /\ QuickGoes(q, "none")
  /\ UNCHANGED <<entry, refusing>>

\* The caller has recorded the result.
Committed(q) ==
  /\ quick[q] = "written" /\ QuickGoes(q, "committed")
  /\ UNCHANGED <<entry, audio, slots, refusing>>

Launch(q) ==
  /\ quick[q] = "committed" /\ QuickGoes(q, "launched")
  /\ entry' = [entry EXCEPT ![q] = [status |-> "pending", expired |-> FALSE]]
  /\ UNCHANGED <<audio, slots, refusing>>

\* The first look of processQuickJob at its entry.
BeginQuick(q) ==
  /\ quick[q] = "launched"
  /\ IF entry[q].status = "none"
     THEN QuickGoes(q, "ended") /\ slots' = slots \ {q} /\ UNCHANGED entry
     ELSE /\ QuickGoes(q, "ready") /\ UNCHANGED slots
          /\ entry' = [entry EXCEPT ![q].status = "processing"]
  /\ UNCHANGED <<audio, refusing>>

\* The end of the job, and the slot's return.
Settle(q, status) ==
  /\ QuickGoes(q, "ended") /\ slots' = slots \ {q}
  /\ entry' = IF entry[q].status = "none" THEN entry
              ELSE [entry EXCEPT ![q] = [status |-> status, expired |-> FALSE]]

\* The environment is prepared and the temporary recording created, or the job fails.
PrepareQuick(q) ==
  /\ quick[q] = "ready"
  /\ \/ QuickGoes(q, "starting") /\ UNCHANGED <<entry, slots>>
     \/ Settle(q, "failed")
  /\ UNCHANGED <<audio, refusing>>

\* ProcessJob announces the execution it has begun and the outcome it has written;
\* each time it waits for the listener.  Errors may end it without an announcement.
AnnounceQuick(q) ==
  /\ quick[q] \in {"beginning", "publishing"} /\ Broadcast
  /\ QuickGoes(q, IF quick[q] = "beginning" THEN "running" ELSE "returned")
  /\ UNCHANGED <<entry, audio, slots, refusing>>

ProcessQuick(q) ==
  /\ \/ quick[q] = "starting" /\ QuickGoes(q, "beginning")
     \/ quick[q] = "running" /\ QuickGoes(q, "publishing")
     \/ quick[q] \in {"starting", "running"} /\ QuickGoes(q, "returned")
  /\ UNCHANGED <<entry, audio, slots, refusing>>

\* The temporary recording has been deleted, and the outcome is known.
EndQuick(q) ==
  /\ quick[q] = "returned"
  /\ \E status \in {"completed", "failed"} : Settle(q, status)
  /\ UNCHANGED <<audio, refusing>>

\* Six hours pass, as they may for a job that is still processed.
Expire(q) ==
  /\ entry[q].status # "none" /\ ~entry[q].expired
  /\ entry' = [entry EXCEPT ![q].expired = TRUE]
  /\ UNCHANGED <<quick, audio, slots, refusing>>

Collectable(q) == entry[q].expired /\ ~Unfinished(q)

\* cleanupExpiredJobs, every hour.
CleanupExpiredJobs ==
  LET old == {q \in Quick : Collectable(q)}
  IN  /\ old # {} /\ audio' = audio \ old
      /\ entry' = [q \in Quick |-> IF q \in old THEN NoEntry ELSE entry[q]]
      /\ UNCHANGED <<quick, slots, refusing>>

QuickStep ==
  \/ \E q \in Quick : \/ BeginQuick(q) \/ PrepareQuick(q) \/ ProcessQuick(q)
                      \/ EndQuick(q) \/ Expire(q)
  \/ CleanupExpiredJobs
=============================================================================
