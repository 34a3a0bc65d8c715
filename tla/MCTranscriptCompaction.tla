----------------------- MODULE MCTranscriptCompaction -----------------------
(***************************************************************************)
(* Ten steps with a limit of twelve messages, six of them kept: micro and  *)
(* auto compactions after each other.  Six is even, as the fifty of the    *)
(* default options are: it decides where the cuts can fall.                *)
(***************************************************************************)
EXTENDS TranscriptCompaction
=============================================================================
