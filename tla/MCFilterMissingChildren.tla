---------------------- MODULE MCFilterMissingChildren ----------------------
(* A file, a tree that shares a digest with it and does not fit in one     *)
(* batch, and a file of another instance.                                  *)
EXTENDS FilterMissingChildren

MCContainingDigests ==
    [c \in Child |-> CASE c = "file"  -> {"d1"}
                       [] c = "tree"  -> {"d1", "d2", "d3"}
                       [] c = "other" -> {"e1"}]
=============================================================================
