--------------------------- MODULE MCOfflineQueue ---------------------------
(***************************************************************************)
(* Small instances of OfflineQueue for TLC.  Calls of trySync are          *)
(* interchangeable, and so are entries.                                    *)
(***************************************************************************)
EXTENDS OfflineQueue, TLC

QueueSymmetry == Permutations(Entries) \cup Permutations(Syncs)
=============================================================================
