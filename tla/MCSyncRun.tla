----------------------------- MODULE MCSyncRun -----------------------------
(* Instances of SyncRun for TLC. *)
EXTENDS SyncRun, TLC

CONSTANTS s1, s2

OneSync == {s1}
TwoSyncs == {s1, s2}

Symmetry == Permutations(TwoSyncs)
=============================================================================
