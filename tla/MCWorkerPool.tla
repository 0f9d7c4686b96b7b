---------------------------- MODULE MCWorkerPool ----------------------------
(* Small instances of WorkerPool: two or three requests, one or two workers. *)
EXTENDS WorkerPool
=============================================================================
