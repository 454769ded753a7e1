--------------------------- MODULE MCIngestWorker ---------------------------
(* Small instances of IngestWorker: who the threads belong to and what the *)
(* producers enqueue.                                                      *)
EXTENDS IngestWorker, TLC

CONSTANTS p1, p2, t1, t2, t3, v1, v2, movie, other

\* One process with two threads; two processes with one; one of each
OneThread == (t1 :> p1)
TwoThreads == (t1 :> p1) @@ (t2 :> p1)
TwoProcesses == (t1 :> p1) @@ (t2 :> p2)
ThreeThreads == (t1 :> p1) @@ (t2 :> p1) @@ (t3 :> p2)

NoSkew == {0}

JobOf(k, payloadVersion, rowVersion) ==
  [kind |-> k, payload |-> payloadVersion, row |-> rowVersion]

\* v2 is the workers' version.  A row made for it; one made for v1, without and
\* with a version in its payload; and one no handler is registered for.
CurrentJob == JobOf(movie, NoVersion, v2)
StaleRow == JobOf(movie, NoVersion, v1)
StalePayload == JobOf(movie, v1, v1)
UnknownType == JobOf(other, NoVersion, v2)

FreshAndStale == {CurrentJob, StaleRow}
FreshStaleAndUnknown == {CurrentJob, StaleRow, UnknownType}
OnlyStalePayload == {StalePayload}
OnlyCurrent == {CurrentJob}

ThreadSymmetry == Permutations({t1, t2})
=============================================================================
