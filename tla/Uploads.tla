------------------------------- MODULE Uploads -------------------------------
(***************************************************************************)
(* Resumable uploads (internal/api/upload_handlers.go, upload_finalize.go, *)
(* internal/repository/upload_result.go).  A session's file arrives in     *)
(* chunks, in any order and repeatedly; completing it assembles the chunks *)
(* and turns them into a recording or a quick job, bound to the session.   *)
(* Creating, completing and cancelling hold sessionMu; chunks do not.      *)
(* A session has one file here, and every client sends the bytes it        *)
(* announced: writeChunk compares their length and hash and refuses others.*)
(***************************************************************************)
EXTENDS QuickJobs

CONSTANTS
  Sessions,    \* upload sessions
  Chunks,      \* the chunks of a session's file
  Requests,    \* chunk uploads under way at one time
  None,        \* no session, chunk, job or result
  MaxActive    \* Config.MaxActiveUploads

\* A session is bound to a recording or to a quick job, in columns of their own.
ASSUME UploadAssumption ==
  /\ MaxActive \in Nat /\ Chunks # {}
  /\ "recording" \notin Quick /\ None \notin Quick \cup {"recording"}

VARIABLES
  session,     \* upload_sessions, with the list of received chunks
  staged,      \* chunk files on disk
  uploaded,    \* sessions whose assembled file is in the upload directory
  recordings,  \* how many recordings were created from each session
  holder,      \* the handler that holds sessionMu
  chunk        \* the chunk uploads

uploadVars == <<session, staged, uploaded, recordings, holder, chunk>>

NoHolder  == [op |-> "none", session |-> None, pc |-> "none", quick |-> None]
NoRequest == [pc |-> "none", session |-> None, chunk |-> None]

UploadTypeOK ==
  /\ session \in [Sessions -> [status : {"none", "active", "completed", "cancelled"},
                               kind : {"recording", "quick"}, expired : BOOLEAN, got : SUBSET Chunks,
                               result : {None, "recording"} \cup Quick]]
  /\ staged \in [Sessions -> SUBSET Chunks] /\ uploaded \subseteq Sessions
  /\ recordings \in [Sessions -> Nat]
  /\ holder \in [op : {"none", "complete", "cancel"}, session : Sessions \cup {None},
                 pc : {"none", "assembling", "assembled", "moved", "submitted",
                       "launching", "removing"}, quick : Quick \cup {None}]
  /\ chunk \in [Requests -> [pc : {"none", "admitted", "stored"},
                             session : Sessions \cup {None}, chunk : Chunks \cup {None}]]

UploadInit ==
  /\ session = [s \in Sessions |-> [status |-> "none", kind |-> "recording",
                                    expired |-> FALSE, got |-> {}, result |-> None]]
  /\ staged = [s \in Sessions |-> {}] /\ uploaded = {}
  /\ recordings = [s \in Sessions |-> 0]
  /\ holder = NoHolder /\ chunk = [u \in Requests |-> NoRequest]

MutexFree == holder = NoHolder
Holds(op, pc) == holder.op = op /\ holder.pc = pc
HolderGoes(pc) == holder' = [holder EXCEPT !.pc = pc]
Unlock == holder' = NoHolder

Live(s) == session[s].status = "active" /\ ~session[s].expired
Writable(s) == Live(s)
SetStatus(s, status) == [session EXCEPT ![s].status = status]

-----------------------------------------------------------------------------
(* Sessions and chunks.                                                    *)

\* cleanupExpiredUploadSessions, then the count of active sessions and the new row;
\* the session may also be refused for want of disk space.  An update that fails
\* leaves an expired session active.
CreateUploadSession ==
  LET old == {t \in Sessions : session[t].status = "active" /\ session[t].expired}
  IN  /\ MutexFree
      /\ staged' = [t \in Sessions |-> IF t \in old THEN {} ELSE staged[t]]
      /\ \E ended \in SUBSET old :
           LET cleaned == [t \in Sessions |-> IF t \in ended
                             THEN [session[t] EXCEPT !.status = "cancelled"] ELSE session[t]]
           IN  \/ session' = cleaned
               \/ /\ Cardinality({t \in Sessions : Live(t)}) < MaxActive
                  /\ \E s \in Sessions, kind \in {"recording", "quick"} :
                       /\ session[s].status = "none"
                       /\ session' = [cleaned EXCEPT ![s].status = "active", ![s].kind = kind]
      /\ UNCHANGED <<uploaded, recordings, holder, chunk>>

\* UploadChunk looks at the session once, at its beginning.
BeginChunk(u, s, c) ==
  /\ chunk[u].pc = "none" /\ Writable(s)
  /\ chunk' = [chunk EXCEPT ![u] = [pc |-> "admitted", session |-> s, chunk |-> c]]
  /\ UNCHANGED <<session, staged, uploaded, recordings, holder>>

\* The chunk is there already, or is written under another name and renamed, in a
\* directory that is made again if need be; or the body is refused.
StoreChunk(u) ==
  LET s == chunk[u].session
  IN  /\ chunk[u].pc = "admitted"
      /\ \/ /\ staged' = [staged EXCEPT ![s] = @ \cup {chunk[u].chunk}]
            /\ chunk' = [chunk EXCEPT ![u].pc = "stored"]
         \/ /\ chunk[u].chunk \notin staged[s]
            /\ chunk' = [chunk EXCEPT ![u] = NoRequest] /\ UNCHANGED staged
      /\ UNCHANGED <<session, uploaded, recordings, holder>>

\* markChunkReceived, which may fail: the client sends the chunk again.
CountChunk(u) ==
  /\ chunk[u].pc = "stored" /\ chunk' = [chunk EXCEPT ![u] = NoRequest]
  /\ \/ session' = [session EXCEPT ![chunk[u].session].got = @ \cup {chunk[u].chunk}]
     \/ UNCHANGED session
  /\ UNCHANGED <<staged, uploaded, recordings, holder>>

\* Time; it matters for active sessions only.
ExpireSession(s) ==
  /\ Live(s) /\ session' = [session EXCEPT ![s].expired = TRUE]
  /\ UNCHANGED <<staged, uploaded, recordings, holder, chunk>>

\* CancelUploadSession does not look at the status of the session.
CancelUploadSession(s) ==
  /\ MutexFree /\ session[s].status # "none" /\ session' = SetStatus(s, "cancelled")
  /\ holder' = [NoHolder EXCEPT !.op = "cancel", !.session = s, !.pc = "removing"]
  /\ UNCHANGED <<staged, uploaded, recordings, chunk>>

\* The last step of a completion and of a cancellation; its error is ignored.
RemoveStaging ==
  /\ holder.pc = "removing" /\ Unlock
  /\ staged' \in {staged, [staged EXCEPT ![holder.session] = {}]}
  /\ UNCHANGED <<session, uploaded, recordings, chunk>>

-----------------------------------------------------------------------------
(* CompleteUploadSession.  A repeated request for a completed session is    *)
(* answered with its result and changes nothing.                           *)

CompleteUploadSession(s) ==
  /\ MutexFree /\ Writable(s) /\ session[s].got = Chunks
  /\ holder' = [NoHolder EXCEPT !.op = "complete", !.session = s, !.pc = "assembling"]
  /\ UNCHANGED <<session, staged, uploaded, recordings, chunk>>

FailAndRemoveStaging(s) == staged' = [staged EXCEPT ![s] = {}]  \* mutant

\* A completion that fails leaves the chunks for another.
KeepStaging(s) == UNCHANGED staged

FailCompletion ==
  /\ holder.op = "complete" /\ holder.pc \in {"assembling", "assembled", "moved"}
  /\ Unlock /\ KeepStaging(holder.session)
  /\ uploaded' = uploaded \ {holder.session}
  /\ UNCHANGED <<session, recordings, chunk>>

AssembleFiles ==
  /\ Holds("complete", "assembling") /\ staged[holder.session] = Chunks
  /\ HolderGoes("assembled")
  /\ UNCHANGED <<session, staged, uploaded, recordings, chunk>>

MoveAssembled ==
  /\ Holds("complete", "assembled") /\ session[holder.session].kind = "recording"
  /\ uploaded' = uploaded \cup {holder.session} /\ HolderGoes("moved")
  /\ UNCHANGED <<session, staged, recordings, chunk>>

\* completeUploadResult: only an active session without a result takes one.
MayComplete(s) == session[s].status = "active" /\ session[s].result = None
Bind(s, result) ==
  session' = [session EXCEPT ![s].status = "completed", ![s].result = result]

\* The recording is created, the update of the session is lost, and the error too.
PublishApart(s) ==                                             \* mutant
  /\ recordings' = [recordings EXCEPT ![s] = @ + 1]
  /\ Bind(s, "recording") \/ UNCHANGED session

\* CommitUploadResult: the recording and the binding in one transaction.
Publish(s) ==
  /\ recordings' = [recordings EXCEPT ![s] = @ + 1]
  /\ Bind(s, "recording")

CommitRecording ==
  /\ Holds("complete", "moved") /\ MayComplete(holder.session)
  /\ Publish(holder.session) /\ HolderGoes("removing")
  /\ UNCHANGED <<staged, uploaded, chunk>>

RecordingStep ==
  /\ \/ FailCompletion \/ AssembleFiles \/ MoveAssembled \/ CommitRecording
  /\ UNCHANGED quickVars

\* The submission of a quick job, which commits the binding before it launches.
BeginSubmission ==
  /\ Holds("complete", "assembled") /\ session[holder.session].kind = "quick"
  /\ \E q \in Quick : /\ Submit(q)
                      /\ holder' = [holder EXCEPT !.pc = "submitted", !.quick = q]
  /\ UNCHANGED <<session, staged, uploaded, recordings, chunk>>

GoOnSubmitting ==
  /\ Holds("complete", "submitted")
  /\ \/ WriteAudio(holder.quick) /\ UNCHANGED <<holder, session>>
     \/ AbandonSubmission(holder.quick) /\ Unlock /\ UNCHANGED session
     \/ /\ Committed(holder.quick) /\ MayComplete(holder.session)
        /\ Bind(holder.session, holder.quick) /\ HolderGoes("launching")
  /\ UNCHANGED <<staged, uploaded, recordings, chunk>>

LaunchSubmitted ==
  /\ Holds("complete", "launching") /\ Launch(holder.quick) /\ HolderGoes("removing")
  /\ UNCHANGED <<session, staged, uploaded, recordings, chunk>>

\* A quick job that is sent in one request.
SubmitDirectly(q) ==
  /\ q # holder.quick
  /\ \/ Submit(q) \/ WriteAudio(q) \/ AbandonSubmission(q) \/ Committed(q) \/ Launch(q)
  /\ UNCHANGED uploadVars
=============================================================================
