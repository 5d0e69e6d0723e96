-------------------------- MODULE MCCheckpointWorker --------------------------
(* Instances of CheckpointWorker for TLC.                                  *)
EXTENDS CheckpointWorker
=============================================================================
