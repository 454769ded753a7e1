-------------------------- MODULE MCIngestBackoff ---------------------------
EXTENDS MCIngestWorker, IngestBackoff

\* The worker's clock is a second behind, equal, or a second ahead
SecondOff == {-1, 0, 1}
=============================================================================
