---------------------------- MODULE MCStreamFifo ----------------------------
(* StreamFifo with interchangeable streams. *)
EXTENDS StreamFifo, TLC

StreamSymmetry == Permutations(Stream)
=============================================================================
