------------------- MODULE MCBazelOutputServiceDirectory -------------------
(* Small instances of the registry for TLC.                                *)
EXTENDS BazelOutputServiceDirectory, TLC

(* Threads, build IDs, output bases and addresses are interchangeable.     *)
Symmetry == Permutations(Call) \union Permutations(Reader)
              \union Permutations(BuildID) \union Permutations(OutputBase)
              \union Permutations(PathID)
=============================================================================
