------------------------- MODULE MCSequenceManager --------------------------
(***************************************************************************)
(* Small instances of the id generator.                                    *)
(***************************************************************************)
EXTENDS SequenceManager, TLC

Symmetry == Permutations(Threads)

=============================================================================
