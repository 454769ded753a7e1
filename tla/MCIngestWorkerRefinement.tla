---------------------- MODULE MCIngestWorkerRefinement ----------------------
EXTENDS MCIngestWorker, IngestWorkerRefinement
=============================================================================
