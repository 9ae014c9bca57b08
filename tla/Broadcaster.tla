----------------------------- MODULE Broadcaster -----------------------------
(***************************************************************************)
(* Server-sent events (internal/sse): one listener goroutine owns the set  *)
(* of subscribers; connections and processors reach it through unbuffered  *)
(* channels, so that whoever sends waits for the listener to receive.      *)
(* Broadcast(S) is that meeting, seen from the listener; the processors    *)
(* that wait for it are in QuickJobs and ServerExit.  All connections here *)
(* watch one recording: those of another never hear of it.                 *)
(***************************************************************************)
EXTENDS Naturals, FiniteSets

CONSTANT Clients  \* connections to the event stream

VARIABLES
  listener,    \* the goroutine of listen, which ends on shutdown
  shutdown,    \* Broadcaster.shutdown is closed
  subscribers, \* Broadcaster.subscribers
  closed,      \* client channels that have been closed
  stream,      \* where the handler of each connection is
  panicked     \* a closed channel was closed or sent to, which ends the process

streamVars == <<listener, shutdown, subscribers, closed, stream, panicked>>

StreamTypeOK ==
  /\ listener \in {"listening", "stopped"} /\ shutdown \in BOOLEAN
  /\ subscribers \subseteq Clients /\ closed \subseteq Clients
  /\ stream \in [Clients -> {"none", "registering", "waiting", "writing", "leaving"}]
  /\ panicked \in BOOLEAN

StreamInit ==
  /\ listener = "listening" /\ shutdown = FALSE
  /\ subscribers = {} /\ closed = {} /\ panicked = FALSE
  /\ stream = [c \in Clients |-> "none"]

Listening == listener = "listening"
StreamGoes(c, pc) == stream' = [stream EXCEPT ![c] = pc]

\* ServeHTTP makes a channel and offers it to the listener.
Connect(c) ==
  /\ stream[c] = "none" /\ StreamGoes(c, "registering") /\ closed' = closed \ {c}
  /\ UNCHANGED <<listener, shutdown, subscribers, panicked>>

Register(c) ==
  /\ Listening /\ stream[c] = "registering"
  /\ subscribers' = subscribers \cup {c} /\ StreamGoes(c, "writing")
  /\ UNCHANGED <<listener, shutdown, closed, panicked>>

\* The event has been flushed.
Written(c) ==
  /\ stream[c] = "writing" /\ StreamGoes(c, "waiting")
  /\ UNCHANGED <<listener, shutdown, subscribers, closed, panicked>>

\* The connection is gone, or the channel was closed.
StopReading(c) ==
  /\ stream[c] = "waiting" /\ StreamGoes(c, "leaving")
  /\ UNCHANGED <<listener, shutdown, subscribers, closed, panicked>>

Unsubscribed(c) == subscribers                                 \* mutant
Unsubscribe(c)  == subscribers \ {c}

CloseChannels(S) ==
  /\ closed' = closed \cup S
  /\ panicked' = (panicked \/ S \cap closed # {})

\* The deferred select: the listener takes the channel back, or has ended.
Unregister(c) ==
  /\ stream[c] = "leaving" /\ StreamGoes(c, "none")
  /\ \/ /\ Listening
        /\ IF subscribers # {}
           THEN subscribers' = Unsubscribe(c) /\ CloseChannels({c})
           ELSE UNCHANGED <<subscribers, closed, panicked>>
     \/ shutdown /\ UNCHANGED <<subscribers, closed, panicked>>
  /\ UNCHANGED <<listener, shutdown>>

\* One event: whoever is not waiting for it misses it.
Broadcast ==
  /\ Listening
  /\ stream' = [c \in Clients |-> IF c \in subscribers /\ stream[c] = "waiting"
                                  THEN "writing" ELSE stream[c]]
  /\ panicked' = (panicked \/ subscribers \cap closed # {})
  /\ UNCHANGED <<listener, shutdown, subscribers, closed>>

\* Shutdown closes the channel that the listener ends on.
CloseShutdown == shutdown' = TRUE /\ UNCHANGED <<listener, subscribers, closed, stream, panicked>>

ListenerEnds ==
  /\ Listening /\ shutdown /\ listener' = "stopped"
  /\ CloseChannels(subscribers) /\ subscribers' = {}
  /\ UNCHANGED <<shutdown, stream>>

StreamStep ==
  \/ \E c \in Clients : Register(c) \/ Written(c) \/ StopReading(c) \/ Unregister(c)
  \/ ListenerEnds
=============================================================================
