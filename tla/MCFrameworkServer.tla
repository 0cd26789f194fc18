------------------------- MODULE MCFrameworkServer -------------------------
(* Small instances of FrameworkServer; workers are interchangeable. *)
EXTENDS FrameworkServer, TLC

WorkerSymmetry == Permutations(Worker)
=============================================================================
