-------------------------- MODULE MCRecordingList --------------------------
(* RecordingList for TLC. *)
EXTENDS RecordingList, TLC

RecSymmetry == Permutations(Recs)
=============================================================================
