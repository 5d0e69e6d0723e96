----------------------------- MODULE MCStorageRoot -----------------------------
(* Instances of StorageRoot for TLC.                                       *)
EXTENDS StorageRoot
=============================================================================
