---------------------------- MODULE ServerProofs -----------------------------
(***************************************************************************)
(* Theorems about ServerExit: event streams, quick jobs and uploads, for   *)
(* any number of connections, jobs, sessions, chunks and workers, and any  *)
(* number of failures, shutdowns and crashes.                              *)
(***************************************************************************)
EXTENDS ServerProperties, FiniteSetTheorems, TLAPS

-----------------------------------------------------------------------------
(* Event streams.                                                          *)

\* Why no channel is closed twice: while the listener listens it is the only one to
\* close channels, each only once it has left the subscribers, and a connection
\* that was registered is a subscriber until it has left.
StreamInv ==
  /\ StreamTypeOK
  /\ main \in {"serving", "closing", "draining", "stopping", "waiting", "down"}
  /\ run \in [Workers -> {"none", "beginning", "running", "publishing"}]
  /\ ~panicked
  /\ Listening => /\ subscribers \cap closed = {}
                  /\ \A c \in Clients :
                       /\ stream[c] = "registering" => c \notin closed
                       /\ stream[c] \in {"waiting", "writing", "leaving"} => c \in subscribers
  /\ main = "down" => /\ subscribers = {} /\ closed = {}
                      /\ \A c \in Clients : stream[c] = "none"
                      /\ \A w \in Workers : run[w] = "none"

\* The steps of requests, handlers and jobs that have no part in event streams.
Elsewhere == UNCHANGED <<streamVars, mainVars>>

LEMMA StreamSteps ==
  ASSUME Next
  PROVE  \/ Elsewhere
         \/ (\E c \in Clients : Connect(c)) /\ Accepting /\ UNCHANGED mainVars
         \/ StreamStep /\ Alive /\ UNCHANGED mainVars
         \/ Broadcast /\ Alive /\ UNCHANGED mainVars
         \/ RunStep \/ CloseStreams \/ Drain \/ Drained \/ CloseQuick
         \/ MemoryLost \/ Restart
<1>1. CASE RequestStep
  BY <1>1 DEF RequestStep, Elsewhere
<1>2. CASE HandlerStep
  BY <1>2 DEF HandlerStep, Elsewhere
<1>3. CASE JobStep
  BY <1>3 DEF JobStep, Elsewhere, AnnounceQuick
<1>4. CASE TimeStep
  BY <1>4 DEF TimeStep, Elsewhere
<1>5. CASE MainStep \/ Crash
  BY <1>5 DEF MainStep, Exit, DrainTimesOut, Crash
<1> QED BY <1>1, <1>2, <1>3, <1>4, <1>5 DEF Next

LEMMA BroadcastKeepsStreams ==
  ASSUME StreamInv, Broadcast, Alive
  PROVE  /\ StreamTypeOK' /\ ~panicked'
         /\ Listening' => /\ (subscribers \cap closed)' = {}
                          /\ \A c \in Clients :
                               /\ stream'[c] = "registering" => c \notin closed'
                               /\ stream'[c] \in {"waiting", "writing", "leaving"}
                                    => c \in subscribers'
BY DEF StreamInv, StreamTypeOK, Broadcast, Listening

LEMMA StreamInductive ==
  ASSUME StreamInv, [Next]_vars
  PROVE  StreamInv'
<1> USE DEF StreamInv, StreamTypeOK, Listening, Alive, mainVars
<1>1. CASE Elsewhere
  BY <1>1 DEF Elsewhere, streamVars
<1>2. ASSUME NEW c \in Clients, Connect(c), Accepting, UNCHANGED mainVars
      PROVE  StreamInv'
  BY <1>2 DEF Connect, StreamGoes, Accepting
<1>3. CASE StreamStep /\ Alive /\ UNCHANGED mainVars
  <2>1. ASSUME NEW c \in Clients, Register(c) PROVE StreamInv'
    BY <1>3, <2>1 DEF Register, StreamGoes
  <2>2. ASSUME NEW c \in Clients, Written(c) PROVE StreamInv'
    BY <1>3, <2>2 DEF Written, StreamGoes
  <2>3. ASSUME NEW c \in Clients, StopReading(c) PROVE StreamInv'
    BY <1>3, <2>3 DEF StopReading, StreamGoes
  <2>4. ASSUME NEW c \in Clients, Unregister(c) PROVE StreamInv'
    BY <1>3, <2>4 DEF Unregister, Unsubscribe, CloseChannels, StreamGoes
  <2>5. CASE ListenerEnds
    BY <1>3, <2>5 DEF ListenerEnds, CloseChannels
  <2> QED BY <1>3, <2>1, <2>2, <2>3, <2>4, <2>5 DEF StreamStep
<1>4. CASE Broadcast /\ Alive /\ UNCHANGED mainVars
  BY <1>4, BroadcastKeepsStreams
<1>5. CASE RunStep
  <2>1. ASSUME NEW w \in Workers, BeginRun(w) PROVE StreamInv'
    BY <2>1 DEF BeginRun, RunGoes, streamVars
  <2>2. ASSUME NEW w \in Workers, AnnounceRun(w) PROVE StreamInv'
    <3>1. Alive /\ Broadcast /\ main' = main
      BY <2>2 DEF AnnounceRun
    <3>2. run' \in [Workers -> {"none", "beginning", "running", "publishing"}]
      BY <2>2 DEF AnnounceRun, RunGoes
    <3> QED BY <3>1, <3>2, BroadcastKeepsStreams
  <2>3. ASSUME NEW w \in Workers, ProcessRun(w) PROVE StreamInv'
    BY <2>3 DEF ProcessRun, RunGoes, streamVars
  <2> QED BY <1>5, <2>1, <2>2, <2>3 DEF RunStep
<1>6. CASE CloseStreams
  BY <1>6 DEF CloseStreams, CloseShutdown, MainGoes
<1>7. CASE Drain \/ Drained
  BY <1>7 DEF Drain, Drained, MainGoes, streamVars
<1>8. CASE CloseQuick
  BY <1>8 DEF CloseQuick, MainGoes, streamVars
<1>9. CASE MemoryLost
  BY <1>9 DEF MemoryLost
<1>10. CASE Restart
  BY <1>10 DEF Restart
<1>11. CASE UNCHANGED vars
  BY <1>11 DEF vars, streamVars
<1> QED
  BY <1>1, <1>2, <1>3, <1>4, <1>5, <1>6, <1>7, <1>8, <1>9, <1>10, <1>11, StreamSteps

\* However connections come and go while the broadcaster shuts down, no channel is
\* closed twice or sent to after it was closed (internal/sse/broadcaster.go).
THEOREM StreamsDoNotPanic == Spec => []NoPanic
<1>1. Init => StreamInv
  BY DEF Init, StreamInit, StreamInv, StreamTypeOK, Listening
<1>2. StreamInv => NoPanic
  BY DEF StreamInv, NoPanic
<1> QED BY <1>1, <1>2, StreamInductive, PTL DEF Spec

-----------------------------------------------------------------------------
(* Upload sessions.                                                        *)

SessionRow == [status : {"none", "active", "completed", "cancelled"},
               kind : {"recording", "quick"}, expired : BOOLEAN, got : SUBSET Chunks,
               result : {None, "recording"} \cup Quick]

\* The handler that completes a session without a result is the only one that holds
\* the mutex, and what removes the chunks comes when the session has ended.
HolderInv ==
  /\ ~MutexFree => holder.session \in Sessions /\ holder.pc # "none"
  /\ holder.pc \in {"submitted", "launching"} => holder.quick \in Quick
  /\ holder.pc \in {"assembling", "assembled", "moved"} =>
       session[holder.session].result = None
  /\ holder.pc = "moved" => holder.session \in uploaded
  /\ holder.pc \in {"launching", "removing"} =>
       session[holder.session].status \in {"completed", "cancelled"}

\* A chunk is on disk before it is counted, and stays there while its session lives.
ChunkInv ==
  /\ \A s \in Sessions : session[s].status = "none" => session[s].got = {}
  /\ \A u \in Requests : chunk[u].pc # "none" =>
       /\ chunk[u].session \in Sessions /\ chunk[u].chunk \in Chunks
       /\ session[chunk[u].session].status # "none"
       /\ chunk[u].pc = "stored" /\ Live(chunk[u].session) =>
            chunk[u].chunk \in staged[chunk[u].session]
  /\ \A s \in Sessions : Live(s) => session[s].got \subseteq staged[s]

\* Why a result is bound once and no chunk is lost: an ended session never lives again.
UploadInv == UploadTypeOK /\ HolderInv /\ ChunkInv /\ OneResult

\* What may become of a session without its result: it begins, expires or ends, and
\* once ended it stays so.
Ages(s) ==
  /\ session'[s] \in SessionRow
  /\ session'[s].got = session[s].got /\ session'[s].result = session[s].result
  /\ session[s].expired => session'[s].expired
  /\ \/ session'[s].status = session[s].status
     \/ session'[s].status = "cancelled" /\ session[s].status # "none"
     \/ session[s].status = "none" /\ session'[s].status = "active"

LEMMA RowUpdates ==
  ASSUME NEW row \in SessionRow
  PROVE  /\ [row EXCEPT !.status = "cancelled"] \in SessionRow
         /\ [row EXCEPT !.expired = TRUE] \in SessionRow
         /\ \A kind \in {"recording", "quick"} :
              [[row EXCEPT !.status = "active"] EXCEPT !.kind = kind] \in SessionRow
         /\ \A result \in {"recording"} \cup Quick :
              [[row EXCEPT !.status = "completed"] EXCEPT !.result = result] \in SessionRow
         /\ \A c \in Chunks : [row EXCEPT !.got = @ \cup {c}] \in SessionRow
BY DEF SessionRow

\* An update of one session changes its row and no other.
LEMMA OneSession ==
  ASSUME session \in [Sessions -> SessionRow], NEW s \in Sessions, NEW row \in SessionRow,
         session' = [session EXCEPT ![s] = row]
  PROVE  /\ session' \in [Sessions -> SessionRow]
         /\ session'[s] = row
         /\ \A t \in Sessions : t # s => session'[t] = session[t]
OBVIOUS

LEMMA UploadSteps ==
  ASSUME Next
  PROVE  \/ UNCHANGED uploadVars
         \/ CreateUploadSession
         \/ \E s \in Sessions : CancelUploadSession(s) \/ CompleteUploadSession(s) \/ ExpireSession(s)
         \/ \E u \in Requests, s \in Sessions, c \in Chunks : BeginChunk(u, s, c)
         \/ \E u \in Requests : StoreChunk(u) \/ CountChunk(u)
         \/ RemoveStaging \/ RecordingStep
         \/ BeginSubmission \/ GoOnSubmitting \/ LaunchSubmitted
         \/ MemoryLost
<1>1. CASE RequestStep
  BY <1>1 DEF RequestStep, SubmitDirectly
<1>2. CASE HandlerStep
  BY <1>2 DEF HandlerStep
<1>3. CASE JobStep
  BY <1>3 DEF JobStep
<1>4. CASE TimeStep \/ RunStep \/ Restart
  BY <1>4 DEF TimeStep, RunStep, BeginRun, AnnounceRun, ProcessRun, Restart
<1>5. CASE MainStep \/ Crash
  BY <1>5 DEF MainStep, Exit, DrainTimesOut, Crash, CloseStreams, Drain, Drained, CloseQuick
<1> QED BY <1>1, <1>2, <1>3, <1>4, <1>5 DEF Next

\* Sessions that begin, expire or end disturb nothing, if only the chunks of sessions
\* that do not live are removed.
LEMMA AgeingKeeps ==
  ASSUME UploadInv, DOMAIN session' = Sessions, session' = [s \in Sessions |-> session'[s]],
         \A s \in Sessions : Ages(s),
         staged' \in [Sessions -> SUBSET Chunks],
         \A s \in Sessions : Live(s)' /\ Live(s) => staged'[s] = staged[s],
         UNCHANGED <<uploaded, recordings, chunk>>
  PROVE  session' \in [Sessions -> SessionRow] /\ ChunkInv' /\ OneResult'
<1>1. session' \in [Sessions -> SessionRow]
  BY DEF Ages
<1>2. ASSUME NEW s \in Sessions, session'[s].status = "none" PROVE session'[s].got = {}
  BY <1>2 DEF UploadInv, ChunkInv, Ages
<1>3. ASSUME NEW s \in Sessions, Live(s)' PROVE session'[s].got \subseteq staged'[s]
  <2>1. CASE session[s].status = "none"
    BY <2>1 DEF UploadInv, ChunkInv, Ages
  <2>2. CASE session[s].status # "none"
    <3>1. Live(s)
      BY <1>3, <2>2 DEF Ages, Live, UploadInv, UploadTypeOK
    <3> QED BY <1>3, <3>1 DEF UploadInv, ChunkInv, Ages
  <2> QED BY <2>1, <2>2
<1>4. ASSUME NEW u \in Requests, chunk'[u].pc # "none"
      PROVE  (/\ chunk[u].session \in Sessions /\ chunk[u].chunk \in Chunks
              /\ session[chunk[u].session].status # "none"
              /\ chunk[u].pc = "stored" /\ Live(chunk[u].session) =>
                   chunk[u].chunk \in staged[chunk[u].session])'
  <2> DEFINE s == chunk[u].session
  <2>1. /\ s \in Sessions /\ chunk[u].chunk \in Chunks /\ session[s].status # "none"
        /\ chunk[u].pc = "stored" /\ Live(s) => chunk[u].chunk \in staged[s]
    BY <1>4 DEF UploadInv, ChunkInv
  <2>2. session'[s].status # "none" /\ (Live(s)' => Live(s))
    BY <2>1 DEF Ages, Live, UploadInv, UploadTypeOK
  <2>3. (Live(chunk[u].session))' => Live(s)' /\ chunk' = chunk
    BY DEF Live
  <2> QED BY <2>1, <2>2, <2>3 DEF Live
<1>5. OneResult'
  <2> SUFFICES ASSUME NEW s \in Sessions
               PROVE  /\ recordings[s] = (IF session'[s].result = "recording" THEN 1 ELSE 0)
                      /\ recordings[s] = 1 => s \in uploaded
                      /\ session'[s].result # None
                           => session'[s].status \in {"completed", "cancelled"}
    BY DEF OneResult
  <2>1. /\ recordings[s] = (IF session[s].result = "recording" THEN 1 ELSE 0)
        /\ recordings[s] = 1 => s \in uploaded
        /\ session[s].result # None => session[s].status \in {"completed", "cancelled"}
    BY DEF UploadInv, OneResult
  <2>2. Ages(s)
    OBVIOUS
  <2> QED BY <2>1, <2>2 DEF Ages
<1> QED BY <1>1, <1>2, <1>3, <1>4, <1>5 DEF ChunkInv

LEMMA UploadInductive ==
  ASSUME UploadInv, [Next]_vars
  PROVE  UploadInv'
<1> USE UploadAssumption
<1>0. session \in [Sessions -> SessionRow]
  BY DEF UploadInv, UploadTypeOK, SessionRow
<1>1. CASE UNCHANGED uploadVars
  BY <1>1 DEF uploadVars, UploadInv, UploadTypeOK, HolderInv, ChunkInv, OneResult, MutexFree, Live
<1>2. CASE CreateUploadSession
  <2> DEFINE old == {t \in Sessions : session[t].status = "active" /\ session[t].expired}
             cleaned(E) == [t \in Sessions |-> IF t \in E
                              THEN [session[t] EXCEPT !.status = "cancelled"] ELSE session[t]]
  <2>1. PICK ended \in SUBSET old :
          \/ session' = cleaned(ended)
          \/ \E s \in Sessions, kind \in {"recording", "quick"} :
               /\ session[s].status = "none"
               /\ session' = [cleaned(ended) EXCEPT ![s].status = "active", ![s].kind = kind]
    BY <1>2 DEF CreateUploadSession
  <2>2. ASSUME NEW t \in Sessions
        PROVE  /\ cleaned(ended)[t] \in SessionRow
               /\ cleaned(ended)[t].got = session[t].got
               /\ cleaned(ended)[t].result = session[t].result
               /\ cleaned(ended)[t].expired = session[t].expired
               /\ \/ cleaned(ended)[t].status = session[t].status
                  \/ cleaned(ended)[t].status = "cancelled" /\ session[t].status # "none"
    <3>1. CASE t \in ended
      <4>1. session[t] \in SessionRow /\ session[t].status = "active"
        BY <1>0, <3>1
      <4>2. cleaned(ended)[t] = [session[t] EXCEPT !.status = "cancelled"]
        BY <3>1
      <4>3. cleaned(ended)[t] \in SessionRow
        BY <4>1, <4>2, RowUpdates
      <4> HIDE DEF cleaned
      <4> QED BY <4>1, <4>2, <4>3 DEF SessionRow
    <3>2. CASE t \notin ended
      BY <1>0, <3>2
    <3> QED BY <3>1, <3>2
  <2>3. DOMAIN session' = Sessions /\ session' = [t \in Sessions |-> session'[t]]
    BY <2>1
  <2>4. ASSUME NEW t \in Sessions PROVE Ages(t)
    <3>1. CASE session' = cleaned(ended)
      BY <3>1, <2>2 DEF Ages
    <3>2. ASSUME NEW s \in Sessions, NEW kind \in {"recording", "quick"},
                 session[s].status = "none",
                 session' = [cleaned(ended) EXCEPT ![s].status = "active", ![s].kind = kind]
          PROVE  Ages(t)
      <4>1. CASE t # s
        <5>1. session'[t] = cleaned(ended)[t]
          BY <3>2, <4>1
        <5> QED BY <5>1, <2>2 DEF Ages
      <4>2. CASE t = s
        <5>1. t \notin ended /\ cleaned(ended)[t] = session[t]
          BY <3>2, <4>2
        <5>2. session'[t] = [[session[t] EXCEPT !.status = "active"] EXCEPT !.kind = kind]
          BY <3>2, <4>2, <5>1
        <5>3. session'[t] \in SessionRow
          <6>1. session[t] \in SessionRow
            BY <1>0
          <6> HIDE DEF cleaned, old
          <6> QED BY <5>2, <6>1, RowUpdates
        <5> QED BY <1>0, <3>2, <4>2, <5>2, <5>3 DEF Ages, SessionRow
      <4> QED BY <4>1, <4>2
    <3> QED BY <2>1, <3>1, <3>2
  <2>5. /\ UNCHANGED <<uploaded, recordings, holder, chunk>> /\ holder = NoHolder
        /\ staged' = [t \in Sessions |-> IF t \in old THEN {} ELSE staged[t]]
    BY <1>2 DEF CreateUploadSession, MutexFree
  <2>6. staged' \in [Sessions -> SUBSET Chunks]
    BY <2>5 DEF UploadInv, UploadTypeOK
  <2>7. \A t \in Sessions : Live(t) => staged'[t] = staged[t]
    BY <2>5 DEF Live
  <2>8. session' \in [Sessions -> SessionRow] /\ ChunkInv' /\ OneResult'
    BY <2>3, <2>4, <2>5, <2>6, <2>7, AgeingKeeps
  <2>9. UploadTypeOK' /\ HolderInv'
    BY <2>5, <2>6, <2>8 DEF UploadInv, UploadTypeOK, HolderInv, MutexFree, NoHolder, SessionRow
  <2> QED BY <2>8, <2>9 DEF UploadInv
<1>3. ASSUME NEW s \in Sessions, CancelUploadSession(s) PROVE UploadInv'
  <2>1. session' = [session EXCEPT ![s] = [session[s] EXCEPT !.status = "cancelled"]]
    BY <1>3 DEF CancelUploadSession, SetStatus
  <2>2. /\ holder' = [NoHolder EXCEPT !.op = "cancel", !.session = s, !.pc = "removing"]
        /\ UNCHANGED <<staged, uploaded, recordings, chunk>> /\ session[s].status # "none"
    BY <1>3 DEF CancelUploadSession
  <2>3. /\ session' \in [Sessions -> SessionRow]
        /\ session'[s] = [session[s] EXCEPT !.status = "cancelled"]
        /\ \A t \in Sessions : t # s => session'[t] = session[t]
    BY <1>0, <2>1, RowUpdates, OneSession
  <2>4. \A t \in Sessions : Ages(t)
    BY <1>0, <2>2, <2>3 DEF Ages, SessionRow
  <2>5. ChunkInv' /\ OneResult'
    BY <2>2, <2>3, <2>4, AgeingKeeps DEF UploadInv, UploadTypeOK
  <2>6. UploadTypeOK'
    BY <2>2, <2>3 DEF UploadInv, UploadTypeOK, NoHolder, SessionRow
  <2>7. HolderInv'
    BY <1>0, <2>2, <2>3 DEF HolderInv, MutexFree, NoHolder, SessionRow
  <2> QED BY <2>5, <2>6, <2>7 DEF UploadInv
<1>4. ASSUME NEW s \in Sessions, CompleteUploadSession(s) PROVE UploadInv'
  <2>1. /\ holder' = [NoHolder EXCEPT !.op = "complete", !.session = s, !.pc = "assembling"]
        /\ UNCHANGED <<session, staged, uploaded, recordings, chunk>>
        /\ session[s].status = "active"
    BY <1>4 DEF CompleteUploadSession, Writable, Live
  <2>2. session[s].result = None
    BY <2>1 DEF UploadInv, OneResult
  <2> QED
    BY <2>1, <2>2 DEF UploadInv, UploadTypeOK, HolderInv, ChunkInv, OneResult, MutexFree, NoHolder,
       Live
<1>5. ASSUME NEW s \in Sessions, ExpireSession(s) PROVE UploadInv'
  <2>1. session' = [session EXCEPT ![s] = [session[s] EXCEPT !.expired = TRUE]]
    BY <1>5 DEF ExpireSession
  <2>2. UNCHANGED <<staged, uploaded, recordings, holder, chunk>>
    BY <1>5 DEF ExpireSession
  <2>3. /\ session' \in [Sessions -> SessionRow]
        /\ session'[s] = [session[s] EXCEPT !.expired = TRUE]
        /\ \A t \in Sessions : t # s => session'[t] = session[t]
    BY <1>0, <2>1, RowUpdates, OneSession
  <2>4. \A t \in Sessions : Ages(t)
    BY <1>0, <2>2, <2>3 DEF Ages, SessionRow
  <2>5. ChunkInv' /\ OneResult'
    BY <2>2, <2>3, <2>4, AgeingKeeps DEF UploadInv, UploadTypeOK
  <2>6. UploadTypeOK'
    BY <2>2, <2>3 DEF UploadInv, UploadTypeOK, SessionRow
  <2>7. HolderInv'
    <3>1. \A t \in Sessions : /\ session'[t].status = session[t].status
                              /\ session'[t].result = session[t].result
      BY <1>0, <2>3 DEF SessionRow
    <3> QED BY <2>2, <3>1 DEF UploadInv, HolderInv, MutexFree, NoHolder, UploadTypeOK
  <2> QED BY <2>5, <2>6, <2>7 DEF UploadInv
<1>6. ASSUME NEW u \in Requests, NEW s \in Sessions, NEW c \in Chunks, BeginChunk(u, s, c)
      PROVE  UploadInv'
  BY <1>6 DEF BeginChunk, Writable, UploadInv, UploadTypeOK, HolderInv, ChunkInv, OneResult,
     MutexFree, Live
<1>7. ASSUME NEW u \in Requests, StoreChunk(u) PROVE UploadInv'
  <2> DEFINE s == chunk[u].session
  <2>1. /\ UNCHANGED <<session, uploaded, recordings, holder>> /\ chunk[u].pc = "admitted"
        /\ s \in Sessions /\ chunk[u].chunk \in Chunks
    BY <1>7 DEF StoreChunk, UploadInv, ChunkInv
  <2>2. HolderInv' /\ OneResult'
    BY <2>1 DEF UploadInv, HolderInv, OneResult, MutexFree
  <2>3. /\ staged' \in [Sessions -> SUBSET Chunks]
        /\ \A t \in Sessions : staged[t] \subseteq staged'[t]
        /\ chunk' \in [Requests -> [pc : {"none", "admitted", "stored"},
                             session : Sessions \cup {None}, chunk : Chunks \cup {None}]]
        /\ \A v \in Requests : v # u => chunk'[v] = chunk[v]
        /\ \/ chunk'[u] = [chunk[u] EXCEPT !.pc = "stored"] /\ chunk[u].chunk \in staged'[s]
           \/ chunk'[u].pc = "none"
    <3>1. /\ staged \in [Sessions -> SUBSET Chunks]
          /\ chunk \in [Requests -> [pc : {"none", "admitted", "stored"},
                             session : Sessions \cup {None}, chunk : Chunks \cup {None}]]
      BY DEF UploadInv, UploadTypeOK
    <3>2. CASE UNCHANGED staged /\ chunk' = [chunk EXCEPT ![u] = NoRequest]
      BY <3>1, <3>2 DEF NoRequest
    <3>3. CASE /\ staged' = [staged EXCEPT ![s] = @ \cup {chunk[u].chunk}]
               /\ chunk' = [chunk EXCEPT ![u].pc = "stored"]
      <4>1. /\ staged' \in [Sessions -> SUBSET Chunks]
            /\ \A t \in Sessions : staged[t] \subseteq staged'[t]
            /\ chunk[u].chunk \in staged'[s]
        BY <2>1, <3>1, <3>3
      <4> HIDE DEF s
      <4>2. chunk' = [chunk EXCEPT ![u] = [chunk[u] EXCEPT !.pc = "stored"]]
        BY <3>3
      <4> QED BY <3>1, <4>1, <4>2
    <3> QED BY <1>7, <3>2, <3>3 DEF StoreChunk
  <2>4. ChunkInv'
    BY <2>1, <2>3, SMTT(30) DEF UploadInv, UploadTypeOK, ChunkInv, Live
  <2>5. UploadTypeOK'
    BY <2>1, <2>3 DEF UploadInv, UploadTypeOK
  <2> QED BY <2>2, <2>4, <2>5 DEF UploadInv
<1>8. ASSUME NEW u \in Requests, CountChunk(u) PROVE UploadInv'
  <2> DEFINE s == chunk[u].session
             c == chunk[u].chunk
  <2>1. /\ UNCHANGED <<staged, uploaded, recordings, holder>>
        /\ chunk[u].pc = "stored" /\ s \in Sessions /\ c \in Chunks
        /\ session[s].status # "none" /\ (Live(s) => c \in staged[s])
    BY <1>8 DEF CountChunk, UploadInv, ChunkInv
  <2>2. /\ chunk' \in [Requests -> [pc : {"none", "admitted", "stored"},
                             session : Sessions \cup {None}, chunk : Chunks \cup {None}]]
        /\ \A v \in Requests : chunk'[v] = chunk[v] \/ chunk'[v].pc = "none"
    BY <1>8 DEF CountChunk, NoRequest, UploadInv, UploadTypeOK
  <2>3. /\ session' \in [Sessions -> SessionRow]
        /\ \A t \in Sessions :
             /\ session'[t].status = session[t].status /\ session'[t].expired = session[t].expired
             /\ session'[t].result = session[t].result
             /\ \/ session'[t].got = session[t].got
                \/ t = s /\ session'[t].got = session[t].got \cup {c}
    <3>1. CASE UNCHANGED session
      <4> HIDE DEF s, c
      <4> QED BY <1>0, <3>1
    <3>2. CASE session' = [session EXCEPT ![s].got = @ \cup {c}]
      <4>1. session' = [session EXCEPT ![s] = [session[s] EXCEPT !.got = @ \cup {c}]]
        BY <3>2
      <4>2. [session[s] EXCEPT !.got = @ \cup {c}] \in SessionRow
        BY <1>0, <2>1, RowUpdates
      <4>3. /\ session' \in [Sessions -> SessionRow]
            /\ session'[s] = [session[s] EXCEPT !.got = @ \cup {c}]
            /\ \A t \in Sessions : t # s => session'[t] = session[t]
        BY <1>0, <2>1, <4>1, <4>2, OneSession
      <4>4. session[s] \in SessionRow
        BY <1>0, <2>1
      <4> HIDE DEF s, c
      <4> QED BY <4>3, <4>4 DEF SessionRow
    <3> QED BY <1>8, <3>1, <3>2 DEF CountChunk
  <2> HIDE DEF s, c
  <2>4. HolderInv' /\ OneResult'
    <3>1. \A t \in Sessions : /\ session'[t].status = session[t].status
                              /\ session'[t].result = session[t].result
      BY <2>3
    <3> QED
      BY <2>1, <3>1 DEF UploadInv, UploadTypeOK, HolderInv, OneResult, MutexFree, NoHolder
  <2>5. ChunkInv'
    <3>1. /\ \A t \in Sessions : session'[t].status = "none" => session'[t].got = {}
          /\ \A t \in Sessions : Live(t)' => Live(t)
          /\ \A t \in Sessions : Live(t)' => session'[t].got \subseteq staged'[t]
      BY <2>1, <2>3 DEF UploadInv, ChunkInv, Live
    <3>2. ASSUME NEW v \in Requests, chunk'[v].pc # "none"
          PROVE  (/\ chunk[v].session \in Sessions /\ chunk[v].chunk \in Chunks
                  /\ session[chunk[v].session].status # "none"
                  /\ chunk[v].pc = "stored" /\ Live(chunk[v].session) =>
                       chunk[v].chunk \in staged[chunk[v].session])'
      <4>1. chunk'[v] = chunk[v]
        BY <2>2, <3>2
      <4>2. /\ chunk[v].session \in Sessions /\ chunk[v].chunk \in Chunks
            /\ session[chunk[v].session].status # "none"
            /\ chunk[v].pc = "stored" /\ Live(chunk[v].session) =>
                 chunk[v].chunk \in staged[chunk[v].session]
        BY <3>2, <4>1 DEF UploadInv, ChunkInv
      <4> QED BY <2>1, <2>3, <4>1, <4>2 DEF Live
    <3> QED BY <3>1, <3>2 DEF ChunkInv
  <2>6. UploadTypeOK'
    BY <2>1, <2>2, <2>3 DEF UploadInv, UploadTypeOK, SessionRow
  <2> QED BY <2>4, <2>5, <2>6 DEF UploadInv
<1>9. CASE RemoveStaging
  BY <1>9 DEF RemoveStaging, Unlock, UploadInv, UploadTypeOK, HolderInv, ChunkInv, OneResult,
     MutexFree, NoHolder, Live
<1>10. CASE RecordingStep
  <2> USE DEF UploadInv, UploadTypeOK, HolderInv, MutexFree, NoHolder
  <2>1. CASE FailCompletion
    BY <2>1 DEF FailCompletion, KeepStaging, Unlock, ChunkInv, OneResult, Live
  <2>2. CASE AssembleFiles
    BY <2>2 DEF AssembleFiles, Holds, HolderGoes, ChunkInv, OneResult, Live
  <2>3. CASE MoveAssembled
    BY <2>3 DEF MoveAssembled, Holds, HolderGoes, ChunkInv, OneResult, Live
  <2>4. CASE CommitRecording
    <3> DEFINE s == holder.session
    <3>1. /\ s \in Sessions /\ session[s].result = None /\ s \in uploaded
          /\ session[s].status = "active"
          /\ holder' = [holder EXCEPT !.pc = "removing"]
          /\ UNCHANGED <<staged, uploaded, chunk>>
      BY <2>4 DEF CommitRecording, Holds, HolderGoes, MayComplete
    <3>2. session' = [session EXCEPT ![s] =
                        [[session[s] EXCEPT !.status = "completed"] EXCEPT !.result = "recording"]]
      BY <2>4 DEF CommitRecording, Publish, Bind
    <3>3. /\ session' \in [Sessions -> SessionRow]
          /\ session'[s] = [[session[s] EXCEPT !.status = "completed"] EXCEPT !.result = "recording"]
          /\ \A t \in Sessions : t # s => session'[t] = session[t]
      BY <1>0, <3>1, <3>2, RowUpdates, OneSession
    <3>4. /\ session'[s].status = "completed" /\ session'[s].result = "recording"
          /\ session'[s].got = session[s].got /\ session'[s].expired = session[s].expired
      BY <1>0, <3>1, <3>3 DEF SessionRow
    <3>5. recordings[s] = 0
      BY <3>1 DEF OneResult
    <3>6. recordings' = [recordings EXCEPT ![s] = 1]
      BY <2>4, <3>1, <3>5 DEF CommitRecording, Publish
    <3> HIDE DEF s
    <3>7. OneResult'
      <4> SUFFICES ASSUME NEW t \in Sessions
                   PROVE  /\ recordings'[t] = (IF session'[t].result = "recording" THEN 1 ELSE 0)
                          /\ recordings'[t] = 1 => t \in uploaded'
                          /\ session'[t].result # None
                               => session'[t].status \in {"completed", "cancelled"}
        BY DEF OneResult
      <4>1. CASE t = s
        BY <3>1, <3>4, <3>6, <4>1
      <4>2. CASE t # s
        BY <3>1, <3>3, <3>6, <4>2 DEF OneResult
      <4> QED BY <4>1, <4>2
    <3>8. ChunkInv'
      <4>1. \A t \in Sessions : /\ Live(t)' => Live(t)
                                /\ session'[t].got = session[t].got
                                /\ session'[t].status = "none" => session[t].status = "none"
                                /\ session[t].status # "none" => session'[t].status # "none"
        BY <3>1, <3>3, <3>4 DEF Live
      <4> QED BY <3>1, <4>1 DEF UploadInv, ChunkInv, Live
    <3>9. UploadTypeOK'
      BY <3>1, <3>3, <3>6 DEF SessionRow
    <3>10. HolderInv'
      BY <3>1, <3>4 DEF s
    <3> QED BY <3>7, <3>8, <3>9, <3>10
  <2> QED BY <1>10, <2>1, <2>2, <2>3, <2>4 DEF RecordingStep
<1>11. CASE BeginSubmission
  <2>1. PICK q \in Quick : holder' = [holder EXCEPT !.pc = "submitted", !.quick = q]
    BY <1>11 DEF BeginSubmission
  <2>2. /\ holder.pc = "assembled"
        /\ UNCHANGED <<session, staged, uploaded, recordings, chunk>>
    BY <1>11 DEF BeginSubmission, Holds
  <2>3. holder.session \in Sessions
    BY <2>2 DEF UploadInv, HolderInv, MutexFree, NoHolder
  <2>5. UploadTypeOK'
    BY <2>1, <2>2 DEF UploadInv, UploadTypeOK
  <2>6. holder'.session = holder.session /\ holder'.quick = q /\ holder'.pc = "submitted"
    BY <2>1 DEF UploadInv, UploadTypeOK
  <2>7. HolderInv'
    BY <2>2, <2>3, <2>6 DEF HolderInv
  <2>4. ChunkInv' /\ OneResult'
    BY <2>2 DEF UploadInv, ChunkInv, OneResult, Live
  <2> QED BY <2>4, <2>5, <2>7 DEF UploadInv
<1>12. CASE GoOnSubmitting
  <2> DEFINE s == holder.session
             q == holder.quick
  <2>1. /\ s \in Sessions /\ q \in Quick /\ UNCHANGED <<staged, uploaded, recordings, chunk>>
        /\ holder.pc = "submitted"
    BY <1>12 DEF GoOnSubmitting, Holds, UploadInv, HolderInv, MutexFree, NoHolder
  <2>2. CASE UNCHANGED <<holder, session>>
    BY <2>1, <2>2 DEF UploadInv, UploadTypeOK, HolderInv, ChunkInv, OneResult, MutexFree, Live
  <2>3. CASE Unlock /\ UNCHANGED session
    BY <2>1, <2>3 DEF Unlock, UploadInv, UploadTypeOK, HolderInv, ChunkInv, OneResult, MutexFree,
       NoHolder, Live
  <2>4. CASE MayComplete(s) /\ Bind(s, q) /\ HolderGoes("launching")
    <3>1. session' = [session EXCEPT ![s] =
                        [[session[s] EXCEPT !.status = "completed"] EXCEPT !.result = q]]
      BY <2>4 DEF Bind
    <3>2. /\ session' \in [Sessions -> SessionRow]
          /\ session'[s] = [[session[s] EXCEPT !.status = "completed"] EXCEPT !.result = q]
          /\ \A t \in Sessions : t # s => session'[t] = session[t]
      BY <1>0, <2>1, <3>1, RowUpdates, OneSession
    <3>3. /\ session'[s].status = "completed" /\ session'[s].result = q
          /\ session'[s].got = session[s].got /\ session'[s].expired = session[s].expired
      BY <1>0, <2>1, <3>2 DEF SessionRow
    <3>4. session[s].result = None /\ session[s].status = "active"
      BY <2>4 DEF MayComplete
    <3>5. holder' = [holder EXCEPT !.pc = "launching"]
      BY <2>4 DEF HolderGoes
    <3>6. q # "recording" /\ q # None
      BY <2>1
    <3>7. HolderInv'
      BY <2>1, <3>3, <3>5 DEF UploadInv, UploadTypeOK, HolderInv, MutexFree, NoHolder
    <3> HIDE DEF s, q
    <3>8. OneResult'
      <4> SUFFICES ASSUME NEW t \in Sessions
                   PROVE  /\ recordings'[t] = (IF session'[t].result = "recording" THEN 1 ELSE 0)
                          /\ recordings'[t] = 1 => t \in uploaded'
                          /\ session'[t].result # None
                               => session'[t].status \in {"completed", "cancelled"}
        BY DEF OneResult
      <4>1. CASE t = s
        BY <2>1, <3>3, <3>4, <3>6, <4>1 DEF UploadInv, OneResult
      <4>2. CASE t # s
        BY <2>1, <3>2, <4>2 DEF UploadInv, OneResult
      <4> QED BY <4>1, <4>2
    <3>9. ChunkInv'
      <4>1. \A t \in Sessions : /\ Live(t)' => Live(t)
                                /\ session'[t].got = session[t].got
                                /\ session'[t].status = "none" => session[t].status = "none"
                                /\ session[t].status # "none" => session'[t].status # "none"
        BY <2>1, <3>2, <3>3, <3>4 DEF Live
      <4> QED BY <2>1, <4>1 DEF UploadInv, ChunkInv, Live
    <3>10. UploadTypeOK'
      BY <2>1, <3>2, <3>5 DEF UploadInv, UploadTypeOK, SessionRow
    <3> QED BY <3>7, <3>8, <3>9, <3>10 DEF UploadInv
  <2> QED BY <1>12, <2>2, <2>3, <2>4 DEF GoOnSubmitting
<1>13. CASE LaunchSubmitted
  BY <1>13 DEF LaunchSubmitted, Holds, HolderGoes, UploadInv, UploadTypeOK, HolderInv, ChunkInv,
     OneResult, MutexFree, NoHolder, Live
<1>14. CASE MemoryLost
  BY <1>14 DEF MemoryLost, NoRequest, UploadInv, UploadTypeOK, HolderInv, ChunkInv, OneResult,
     MutexFree, NoHolder, Live
<1>15. CASE UNCHANGED vars
  BY <1>1, <1>15 DEF vars, uploadVars
<1> QED
  BY <1>1, <1>2, <1>3, <1>4, <1>5, <1>6, <1>7, <1>8, <1>9, <1>10, <1>11, <1>12, <1>13, <1>14,
     <1>15, UploadSteps

LEMMA UploadInitially == Init => UploadInv
BY UploadAssumption DEF Init, UploadInit, UploadInv, UploadTypeOK, HolderInv, ChunkInv, OneResult, MutexFree,
   NoHolder, NoRequest, Live

\* However often its completion fails, is repeated or is cut short by a crash, and
\* whatever else is uploaded, cancelled or expires meanwhile, a session gives one
\* recording, with its binding and its audio (CompleteUploadSession, CommitUploadResult).
THEOREM ResultIsBoundOnce == Spec => []OneResult
<1>1. UploadInv => OneResult
  BY DEF UploadInv
<1> QED BY <1>1, UploadInitially, UploadInductive, PTL DEF Spec

-----------------------------------------------------------------------------
(* Quick transcriptions.                                                   *)

\* Why a job's audio outlives it: a job has no entry before it is launched, then has
\* its audio, and only an entry that is finished is collected.
QuickInv ==
  /\ QuickTypeOK
  /\ \A q \in Quick :
       /\ quick[q] \in {"none", "admitted", "written", "committed"} => entry[q] = NoEntry
       /\ quick[q] \in {"written", "committed"} => q \in audio
       /\ quick[q] = "launched" => entry[q].status = "pending"
       /\ Unfinished(q) => q \in audio

\* One job moves, and with it no more than its entry, its audio and its slot.
Moves(q) ==
  \/ Submit(q) \/ WriteAudio(q) \/ AbandonSubmission(q) \/ Committed(q) \/ Launch(q)
  \/ BeginQuick(q) \/ PrepareQuick(q) \/ ProcessQuick(q) \/ EndQuick(q) \/ Expire(q)

LEMMA QuickSteps ==
  ASSUME Next, UploadInv
  PROVE  \/ UNCHANGED quickVars
         \/ \E q \in Quick : Moves(q)
         \/ (\E q \in Quick : AnnounceQuick(q))
         \/ CleanupExpiredJobs \/ CloseQuick \/ MemoryLost
<1>1. CASE RequestStep
  BY <1>1 DEF RequestStep, SubmitDirectly, Moves
<1>2. CASE HandlerStep
  <2>1. CASE BeginSubmission
    BY <2>1 DEF BeginSubmission, Moves
  <2>2. CASE GoOnSubmitting
    <3>1. holder.quick \in Quick
      BY <2>2 DEF GoOnSubmitting, Holds, UploadInv, HolderInv
    <3> QED BY <2>2, <3>1 DEF GoOnSubmitting, Moves
  <2>3. CASE LaunchSubmitted
    <3>1. holder.quick \in Quick
      BY <2>3 DEF LaunchSubmitted, Holds, UploadInv, HolderInv
    <3> QED BY <2>3, <3>1 DEF LaunchSubmitted, Moves
  <2> QED BY <1>2, <2>1, <2>2, <2>3 DEF HandlerStep, RecordingStep
<1>3. CASE JobStep
  BY <1>3 DEF JobStep, QuickStep, Moves
<1>4. CASE TimeStep \/ RunStep \/ Restart
  BY <1>4 DEF TimeStep, RunStep, BeginRun, AnnounceRun, ProcessRun, Restart
<1>5. CASE MainStep \/ Crash
  BY <1>5 DEF MainStep, Exit, DrainTimesOut, Crash, CloseStreams, Drain, Drained
<1> QED BY <1>1, <1>2, <1>3, <1>4, <1>5 DEF Next

\* The capacity of jobSlots is kept: a slot is taken when one is left.
LEMMA SlotsBounded ==
  ASSUME Cardinality(slots) <= MaxSlots, IsFiniteSet(slots), NEW q,
         \/ slots' = slots
         \/ slots' = slots \cup {q} /\ Cardinality(slots) < MaxSlots
         \/ slots' = slots \ {q}
  PROVE  Cardinality(slots') <= MaxSlots /\ IsFiniteSet(slots')
<1>1. Cardinality(slots) \in Nat
  BY FS_CardinalityType
<1>2. CASE slots' = slots \cup {q} /\ Cardinality(slots) < MaxSlots
  BY <1>1, <1>2, QuickAssumption, FS_AddElement
<1>3. CASE slots' = slots \ {q}
  BY <1>1, <1>3, QuickAssumption, FS_RemoveElement
<1> QED BY <1>1, <1>2, <1>3

QuickRow == [status : {"none", "pending", "processing", "completed", "failed"},
             expired : BOOLEAN]

\* What a job may make of its entry.
LEMMA EntryUpdates ==
  ASSUME NEW row \in QuickRow
  PROVE  /\ \A status \in {"pending", "processing", "completed", "failed"} :
              /\ [status |-> status, expired |-> FALSE] \in QuickRow
              /\ [row EXCEPT !.status = status] \in QuickRow
              /\ [row EXCEPT !.status = status].status = status
         /\ [row EXCEPT !.expired = TRUE] \in QuickRow
         /\ [row EXCEPT !.expired = TRUE].status = row.status
         /\ NoEntry \in QuickRow /\ NoEntry.status = "none"
BY DEF QuickRow, NoEntry

LEMMA MoveKeepsQuick ==
  ASSUME QuickInv, IsFiniteSet(slots), NEW q \in Quick, Moves(q)
  PROVE  QuickInv' /\ IsFiniteSet(slots')
<1> DEFINE pcs == {"none", "admitted", "written", "committed", "launched", "ready",
                   "starting", "beginning", "running", "publishing", "returned", "ended"}
<1>1. /\ quick \in [Quick -> pcs] /\ entry \in [Quick -> QuickRow] /\ audio \subseteq Quick
      /\ slots = {r \in Quick : quick[r] \notin {"none", "ended"}}
      /\ Cardinality(slots) <= MaxSlots /\ refusing \in BOOLEAN
  BY DEF QuickInv, QuickTypeOK, QuickRow
<1>2. /\ \A r \in Quick : r # q => quick'[r] = quick[r] /\ entry'[r] = entry[r]
      /\ \A r \in Quick : r # q => (r \in audio' <=> r \in audio)
      /\ quick' \in [Quick -> pcs] /\ refusing' = refusing /\ audio' \subseteq Quick
  BY <1>1 DEF Moves, Submit, WriteAudio, AbandonSubmission, Committed, Launch, BeginQuick,
     PrepareQuick, ProcessQuick, EndQuick, Expire, Settle, QuickGoes
<1>3. /\ \/ slots' = slots
         \/ slots' = slots \cup {q} /\ Cardinality(slots) < MaxSlots
         \/ slots' = slots \ {q}
      /\ q \in slots' <=> quick'[q] \notin {"none", "ended"}
  BY <1>1 DEF Moves, Submit, WriteAudio, AbandonSubmission, Committed, Launch, BeginQuick,
     PrepareQuick, ProcessQuick, EndQuick, Expire, Settle, QuickGoes
<1> DEFINE agrees ==
      /\ quick'[q] \in {"none", "admitted", "written", "committed"} => entry'[q] = NoEntry
      /\ quick'[q] \in {"written", "committed"} => q \in audio'
      /\ quick'[q] = "launched" => entry'[q].status = "pending"
      /\ entry'[q].status \in {"pending", "processing"} => q \in audio'
<1>a. /\ entry[q] \in QuickRow /\ quick[q] \in pcs
      /\ quick[q] \in {"none", "admitted", "written", "committed"} => entry[q] = NoEntry
      /\ quick[q] \in {"written", "committed"} => q \in audio
      /\ quick[q] = "launched" => entry[q].status = "pending"
      /\ entry[q].status \in {"pending", "processing"} => q \in audio
  BY <1>1 DEF QuickInv, Unfinished
<1>4. entry' \in [Quick -> QuickRow] /\ agrees
  <2>1. CASE Submit(q) \/ WriteAudio(q) \/ AbandonSubmission(q) \/ Committed(q) \/ ProcessQuick(q)
    <3>1. entry' = entry /\ quick'[q] # "launched"
      BY <2>1, <1>1 DEF Submit, WriteAudio, AbandonSubmission, Committed, ProcessQuick, QuickGoes
    <3>2. CASE ProcessQuick(q)
      BY <3>1, <3>2, <1>1, <1>a DEF ProcessQuick, QuickGoes
    <3>3. CASE Submit(q) \/ WriteAudio(q) \/ AbandonSubmission(q) \/ Committed(q)
      <4>1. entry[q] = NoEntry /\ entry[q].status = "none"
        BY <3>3, <1>a DEF Submit, WriteAudio, AbandonSubmission, Committed, NoEntry
      <4>2. quick'[q] \in {"written", "committed"} => q \in audio'
        BY <3>3, <1>1, <1>a DEF Submit, WriteAudio, AbandonSubmission, Committed, QuickGoes
      <4> QED BY <3>1, <4>1, <4>2, <1>1
    <3> QED BY <2>1, <3>2, <3>3
  <2>2. CASE Launch(q)
    <3>1. entry'[q].status = "pending" /\ quick'[q] = "launched" /\ q \in audio'
      BY <2>2, <1>1, <1>a DEF Launch, QuickGoes
    <3>2. entry' \in [Quick -> QuickRow]
      BY <2>2, <1>1, <1>a, EntryUpdates DEF Launch
    <3> QED BY <3>1, <3>2
  <2>3. CASE BeginQuick(q)
    <3> DEFINE row == [entry[q] EXCEPT !.status = "processing"]
    <3>1. entry' = [entry EXCEPT ![q] = row] /\ quick'[q] = "ready" /\ q \in audio'
      BY <2>3, <1>1, <1>a DEF BeginQuick, QuickGoes
    <3>2. row \in QuickRow /\ row.status = "processing"
      BY <1>a, EntryUpdates
    <3> HIDE DEF row
    <3> QED BY <3>1, <3>2, <1>1
  <2>4. ASSUME NEW status \in {"completed", "failed"}, Settle(q, status), audio' = audio
        PROVE  entry' \in [Quick -> QuickRow] /\ agrees
    <3> DEFINE row == [status |-> status, expired |-> FALSE]
    <3>1. quick'[q] = "ended" /\ (entry' = entry \/ entry' = [entry EXCEPT ![q] = row])
      BY <2>4, <1>1 DEF Settle, QuickGoes
    <3>2. row \in QuickRow /\ row.status = status
      BY <1>a, EntryUpdates
    <3> HIDE DEF row
    <3> QED BY <3>1, <3>2, <2>4, <1>1, <1>a
  <2>5. CASE PrepareQuick(q)
    <3>1. CASE QuickGoes(q, "starting") /\ UNCHANGED <<entry, slots>>
      BY <2>5, <3>1, <1>1, <1>a DEF PrepareQuick, QuickGoes
    <3> QED BY <2>5, <3>1, <2>4 DEF PrepareQuick
  <2>6. CASE EndQuick(q)
    BY <2>6, <2>4 DEF EndQuick
  <2>7. CASE Expire(q)
    <3> DEFINE row == [entry[q] EXCEPT !.expired = TRUE]
    <3>1. /\ entry' = [entry EXCEPT ![q] = row] /\ quick' = quick /\ audio' = audio
          /\ entry[q].status # "none"
      BY <2>7 DEF Expire
    <3>2. row \in QuickRow /\ row.status = entry[q].status
      BY <1>a, EntryUpdates
    <3>3. quick[q] \notin {"none", "admitted", "written", "committed"}
      BY <3>1, <1>a, EntryUpdates
    <3> HIDE DEF row
    <3> QED BY <3>1, <3>2, <3>3, <1>1, <1>a
  <2> QED BY <2>1, <2>2, <2>3, <2>5, <2>6, <2>7 DEF Moves
<1>5. agrees
  BY <1>4
<1>6. Cardinality(slots') <= MaxSlots /\ IsFiniteSet(slots')
  BY <1>1, <1>3, SlotsBounded
<1>7. slots' = {r \in Quick : quick'[r] \notin {"none", "ended"}}
  BY <1>1, <1>2, <1>3
<1>8. QuickTypeOK'
  BY <1>1, <1>2, <1>4, <1>6, <1>7 DEF QuickTypeOK, QuickRow
<1> HIDE DEF pcs
<1>9. ASSUME NEW r \in Quick
      PROVE  (/\ quick[r] \in {"none", "admitted", "written", "committed"} => entry[r] = NoEntry
              /\ quick[r] \in {"written", "committed"} => r \in audio
              /\ quick[r] = "launched" => entry[r].status = "pending"
              /\ Unfinished(r) => r \in audio)'
  BY <1>2, <1>5 DEF QuickInv, Unfinished
<1> QED BY <1>6, <1>8, <1>9 DEF QuickInv

LEMMA QuickInductive ==
  ASSUME QuickInv, IsFiniteSet(slots), UploadInv, [Next]_vars
  PROVE  QuickInv' /\ IsFiniteSet(slots')
<1>1. CASE UNCHANGED quickVars
  BY <1>1 DEF quickVars, QuickInv, QuickTypeOK, Unfinished
<1>2. ASSUME NEW q \in Quick, Moves(q) PROVE QuickInv' /\ IsFiniteSet(slots')
  BY <1>2, MoveKeepsQuick
<1>3. ASSUME NEW q \in Quick, AnnounceQuick(q) PROVE QuickInv' /\ IsFiniteSet(slots')
  BY <1>3 DEF AnnounceQuick, QuickGoes, QuickInv, QuickTypeOK, Unfinished
<1>4. CASE CleanupExpiredJobs
  <2> DEFINE old == {q \in Quick : Collectable(q)}
  <2>1. /\ entry' = [q \in Quick |-> IF q \in old THEN NoEntry ELSE entry[q]]
        /\ audio' = audio \ old /\ UNCHANGED <<quick, slots, refusing>>
    BY <1>4 DEF CleanupExpiredJobs
  <2>2. entry \in [Quick -> QuickRow]
    BY DEF QuickInv, QuickTypeOK, QuickRow
  <2>3. entry' \in [Quick -> QuickRow]
    BY <2>1, <2>2, EntryUpdates
  <2>4. \A q \in Quick : q \in old => entry[q].status \notin {"pending", "processing"}
    BY DEF Collectable, Unfinished
  <2> HIDE DEF old
  <2>5. QuickTypeOK'
    BY <2>1, <2>3 DEF QuickInv, QuickTypeOK, QuickRow
  <2>6. ASSUME NEW q \in Quick
        PROVE  (/\ quick[q] \in {"none", "admitted", "written", "committed"} => entry[q] = NoEntry
                /\ quick[q] \in {"written", "committed"} => q \in audio
                /\ quick[q] = "launched" => entry[q].status = "pending"
                /\ Unfinished(q) => q \in audio)'
    <3>1. CASE q \in old
      <4>1. entry'[q] = NoEntry
        BY <2>1, <3>1
      <4>2. entry'[q].status = "none"
        BY <4>1, <2>2, EntryUpdates
      <4>3. quick'[q] = quick[q] /\ quick[q] \notin {"written", "committed", "launched"}
        BY <2>1, <3>1 DEF QuickInv, NoEntry, old, Collectable, Unfinished
      <4> QED BY <4>1, <4>2, <4>3 DEF Unfinished
    <3>2. CASE q \notin old
      <4>1. entry'[q] = entry[q] /\ quick'[q] = quick[q] /\ (q \in audio' <=> q \in audio)
        BY <2>1, <3>2
      <4> QED BY <4>1 DEF QuickInv, Unfinished
    <3> QED BY <3>1, <3>2
  <2> QED BY <2>1, <2>5, <2>6 DEF QuickInv
<1>5. CASE CloseQuick
  BY <1>5 DEF CloseQuick, QuickInv, QuickTypeOK, Unfinished
<1>6. CASE MemoryLost
  <2>1. /\ quick' = [q \in Quick |-> IF quick[q] = "none" THEN "none" ELSE "ended"]
        /\ entry' = [q \in Quick |-> NoEntry] /\ slots' = {} /\ refusing' = FALSE
        /\ audio' = audio
    BY <1>6 DEF MemoryLost
  <2>2. Cardinality(slots') <= MaxSlots /\ IsFiniteSet(slots')
    BY <2>1, QuickAssumption, FS_EmptySet
  <2>3. /\ entry' \in [Quick -> [status : {"none", "pending", "processing", "completed", "failed"},
                                 expired : BOOLEAN]]
        /\ \A q \in Quick : entry'[q].status = "none" /\ entry'[q] = NoEntry
    BY <2>1 DEF NoEntry
  <2>4. \A q \in Quick : quick'[q] \in {"none", "ended"}
    BY <2>1
  <2>5. QuickTypeOK'
    BY <2>1, <2>2, <2>3 DEF QuickInv, QuickTypeOK
  <2> QED BY <2>2, <2>3, <2>4, <2>5 DEF QuickInv, Unfinished
<1>7. CASE UNCHANGED vars
  BY <1>1, <1>7 DEF vars, quickVars
<1> QED BY <1>1, <1>2, <1>3, <1>4, <1>5, <1>6, <1>7, QuickSteps

\* Why the server's three parts keep what they promise.
ServerInv == StreamInv /\ QuickInv /\ IsFiniteSet(slots) /\ UploadInv

LEMMA ServerInvariant == Spec => []ServerInv
<1>1. Init => StreamInv
  BY DEF Init, StreamInit, StreamInv, StreamTypeOK, Listening
<1>2. Init => QuickInv /\ IsFiniteSet(slots)
  <2> SUFFICES ASSUME Init PROVE QuickInv /\ IsFiniteSet(slots)
    OBVIOUS
  <2>1. Cardinality(slots) <= MaxSlots /\ IsFiniteSet(slots)
    BY QuickAssumption, FS_EmptySet DEF Init, QuickInit
  <2>2. QuickTypeOK
    BY <2>1 DEF Init, QuickInit, QuickTypeOK, NoEntry
  <2> QED BY <2>1, <2>2 DEF Init, QuickInit, QuickInv, NoEntry, Unfinished
<1>3. ServerInv /\ [Next]_vars => ServerInv'
  BY StreamInductive, QuickInductive, UploadInductive DEF ServerInv
<1> QED BY <1>1, <1>2, <1>3, UploadInitially, PTL DEF Spec, ServerInv

\* Every variable of the server keeps its type, and never are more quick jobs admitted
\* than there are slots (the buffered channel jobSlots of quick_transcription.go).
THEOREM TypeCorrect == Spec => []TypeOK
<1>1. ServerInv => TypeOK
  BY DEF ServerInv, StreamInv, QuickInv, UploadInv, TypeOK
<1> QED BY <1>1, ServerInvariant, PTL

\* Neither expiry nor the cleanups, nor a failure, a repeated chunk or a crash between
\* two steps removes what a live session or an unfinished quick job has still to read.
THEOREM NeededFilesAreKept == Spec => []NeededFilesStay
<1>1. ServerInv => NeededFilesStay
  BY DEF ServerInv, QuickInv, UploadInv, ChunkInv, NeededFilesStay
<1> QED BY <1>1, ServerInvariant, PTL
=============================================================================
