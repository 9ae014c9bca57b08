-------------------------- MODULE ServerProperties ---------------------------
(***************************************************************************)
(* What must hold of event streams, uploads and quick jobs however their   *)
(* requests, expiries, failures, shutdowns and crashes interleave.         *)
(***************************************************************************)
EXTENDS ServerExit

\* No channel of an event stream is closed twice or sent to after it was closed,
\* whichever way its connection ends: that would end the whole process.
NoPanic == ~panicked

\* A session's recording is created once, however often its completion fails, is
\* repeated or is cut short by a crash, together with the binding of its result, and
\* with its audio in place.
OneResult ==
  \A s \in Sessions :
    /\ recordings[s] = (IF session[s].result = "recording" THEN 1 ELSE 0)
    /\ recordings[s] = 1 => s \in uploaded
    /\ session[s].result # None => session[s].status \in {"completed", "cancelled"}

\* What has still to be read stays on disk: the chunks a live session has been told
\* to have, so that it never has to be completed with one missing, and the audio of
\* a quick job that is not finished, however old it is.
NeededFilesStay ==
  /\ \A s \in Sessions : Live(s) => session[s].got \subseteq staged[s]
  /\ \A q \in Quick : Unfinished(q) => q \in audio

\* "Gracefully shutdown the server": a shutdown that has begun ends the process.
ShutdownCompletes == main = "closing" ~> main = "down"
=============================================================================
