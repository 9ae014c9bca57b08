--------------------------- MODULE ModelProperties ---------------------------
(***************************************************************************)
(* What must hold of the model files whatever runs, downloads, removals,   *)
(* cleanups, shutdowns, crashes and restarts interleave.                   *)
(***************************************************************************)
EXTENDS ModelDownloads

Lost(m) == files[m].there /\ ~files'[m].there

\* A server that does not know that it is alone, and the model of a run that was
\* stopped: its child may have gone on, which no row and no use tells.
Unwatched(m) == ~proven /\ \E r \in Stopped : m \in Needs[r]

\* Who is at work on files and is known to be: by its use, or, as the child of a server
\* that has died, by the rows of a run that nobody has stopped.
Protected == uses \cup (orphans \ Stopped)

\* No removal takes files from a stage or a download that is at work on them, be it
\* of this server, stopped or not, or the child of one that has died.  Only of such a
\* child the rows tell: once the owner has stopped its run, which a server whose startup
\* was refused does without ending it, nothing protects its files.
UsedFilesStay ==
  [][\A m \in Models : Lost(m) => \A u \in Protected : m \notin Needs[u]]_vars

\* Once the server has confirmed that a model is kept, nothing removes its files
\* until the owner says otherwise: no removal confirmed before, no cleanup planned
\* before.
KeptFilesStay == [][\A m \in kept : ~Lost(m)]_vars

\* A cleanup removes only what the owner has confirmed, in that version, or what has
\* expired when the removal is behind the barrier, whatever was planned before it got
\* there; and never what a queued cached-only run waits for.  The version is what was
\* checked last, which the child of a stopped run may have changed since.
CleanupAsAgreed ==
  [][LET c == request[Collector]
         m == c.model
     IN  /\ c.pc = "checked" /\ Lost(m) =>
              /\ ~Awaited(m)
              /\ c.op = "clear" =>
                   /\ [model |-> m, version |-> c.version] \in confirmed
                   /\ files[m] = c.version \/ Unwatched(m)
         /\ c.pc = "inside" /\ request'[Collector].pc = "checked" /\ c.op = "expire" =>
              m \in expired \/ files[m].left]_vars

\* The cached inventory is never silently wrong: where it differs from the disk, a
\* change is marked that the next look will follow, a removal that will mark it is at
\* work, or the inventory shows the model as in use.  Only a server that does not know
\* that it is alone can be wrong for longer: about what a run needs that was stopped
\* and whose child, which marks nothing, may have gone on.
StaleEntriesAreMarked ==
  Scanned => \A m \in Models :
    \/ snapshot[m] = files[m] \/ marks[m] # "clean" \/ InUse(m)
    \/ \E w \in Writers : request[w].model = m /\ request[w].pc \in {"checked", "renamed"}
    \/ Unwatched(m)

\* A cancellation that was confirmed is final: no late success or failure of the
\* download, and no restart, replaces it.
CancellationWins ==
  [][\A f \in Fetches :
       rows[f].state = "canceling" => rows'[f].state \in {"canceling", "canceled"}]_vars

\* A server that believes all earlier workers stopped is right.
ProvenMeansAlone == lease # "none" /\ proven => orphans = {}
=============================================================================
