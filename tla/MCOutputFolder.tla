--------------------------- MODULE MCOutputFolder ---------------------------
(* OutputFolder and its refinement of AtomicOutput on a small instance.     *)
EXTENDS OutputFolderRefinement, TLC

\* A first file that is new and one that is replaced, before another that is.
MCFolders == {<<Original, Original>>, <<Absent, Original>>}

Symmetry == Permutations(Runs)

=============================================================================
