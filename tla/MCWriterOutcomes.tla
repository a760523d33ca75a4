-------------------------- MODULE MCWriterOutcomes --------------------------
(* Model-checking instance of WriterOutcomes. Tensors are interchangeable.  *)
EXTENDS WriterOutcomes, TLC

Symmetry == Permutations(Tensors)
=============================================================================
