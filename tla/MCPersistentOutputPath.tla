----------------------- MODULE MCPersistentOutputPath -----------------------
(* Small instances of persistent output paths for TLC.                     *)
EXTENDS PersistentOutputPath, TLC

(* getTemporaryName() appends ".tmp".                                      *)
MCTemporaryName ==
    [b \in BaseName |-> IF b = "a" THEN "a.tmp" ELSE "b.tmp"]

MCState == RootDirectory

(* Files to which nothing refers are overwritten before they are read.     *)
View == <<serviceVars, call, history, directory, durable, io,
          [i \in Inode \ FreeInode |-> inode[i]]>>

Symmetry == Permutations(PathID) \union Permutations(Artifact)
              \union Permutations(Inode) \union Permutations(Thread)
=============================================================================
