--------------------------- MODULE MCSequenceBuffer ---------------------------
(* Instances of SequenceBuffer for TLC: see the .cfg file. *)
EXTENDS SequenceBuffer, TLC
=============================================================================
