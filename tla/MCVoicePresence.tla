--------------------------- MODULE MCVoicePresence ---------------------------
(* Instances of VoicePresence for TLC.                                      *)
EXTENDS VoicePresence, TLC

=============================================================================
