------------------------ MODULE MCLocalFileUploading ------------------------
(* A small instance of an output path whose local files are uploaded.      *)
EXTENDS LocalFileUploading, TLC

MCParentOf == [x \in File |-> IF x \in StatusFile THEN "root" ELSE "bin"]

Symmetry == Permutations(Content) \union Permutations(Function)
=============================================================================
