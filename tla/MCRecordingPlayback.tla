------------------------ MODULE MCRecordingPlayback ------------------------
(* RecordingPlayback for TLC. *)
EXTENDS RecordingPlayback, TLC
=============================================================================
