--------------------------- MODULE MCTranscription ---------------------------
(***************************************************************************)
(* Small instances of Transcription: its jobs are interchangeable.         *)
(***************************************************************************)
EXTENDS Transcription, TLC

Symmetry == Permutations(Job)

=============================================================================
