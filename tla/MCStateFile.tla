---------------------------- MODULE MCStateFile ----------------------------
(* A root directory "r" with two children, of which one has two children,  *)
(* one of them empty.                                                      *)
EXTENDS StateFile

MCChildren ==
    [n \in Node |-> CASE n = "r" -> {"a", "b"}
                      [] n = "a" -> {"c", "d"}
                      [] OTHER   -> {}]

(* A damaged file may claim that any directory has these children.         *)
MCDamagedChildren == {{}, {"a"}, {"a", "b"}}

(* Sizes, of which the ones that are not positive are due to damage.       *)
MCSize == {-1, 0, 1, 2, 3}
=============================================================================
