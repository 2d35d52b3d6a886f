----------------------------- MODULE MCStreams -----------------------------
(* An icon and a preview. *)
EXTENDS Streams
============================================================================
