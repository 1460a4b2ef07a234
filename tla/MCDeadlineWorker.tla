-------------------------- MODULE MCDeadlineWorker --------------------------
(* Small instances of DeadlineWorker. *)
EXTENDS DeadlineWorker
=============================================================================
