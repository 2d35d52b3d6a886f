-------------------------- MODULE MCLiveTVPlayback --------------------------
(* Instances of LiveTVPlayback for TLC.                                    *)
EXTENDS LiveTVPlayback
=============================================================================
