-------------------------- MODULE MCVoiceConnection --------------------------
(* Small instances of VoiceConnection for TLC.                             *)
EXTENDS VoiceConnection
=============================================================================
