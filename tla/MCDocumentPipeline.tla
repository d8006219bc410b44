-------------------------- MODULE MCDocumentPipeline --------------------------
(* Instances of DocumentPipeline for TLC. *)
EXTENDS DocumentPipeline, TLC

Symmetry == Permutations(Writers) \cup Permutations(Jobs)
===============================================================================
