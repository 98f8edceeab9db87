------------------------ MODULE MCSessionTranscript ------------------------
(***************************************************************************)
(* SessionTranscript with the bounds of the configurations.                *)
(***************************************************************************)
EXTENDS SessionTranscript
=============================================================================
