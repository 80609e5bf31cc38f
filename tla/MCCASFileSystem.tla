--------------------------- MODULE MCCASFileSystem ---------------------------
(* All directories with up to three children of each kind, out of five     *)
(* names; all scripts of up to four strings; and a namespace with three    *)
(* digest functions, two of which accept each other's hashes, and two      *)
(* trees, "t1" and "t2", that have everything in common but their digests. *)
(* Objects of the wrong type have no contents.                             *)
EXTENDS CASFileSystem

MCStrings     == {<<>>, <<"a">>, <<"b", "c">>, <<"d", "e", "f">>}
MCFunctions   == <<"sha256", "sha1", "sha256tree">>
MCHashLength  == [sha256 |-> 64, sha1 |-> 40, sha256tree |-> 64]
MCLengthOf    == [h \in Hash |-> IF h = "e" THEN 40 ELSE 64]
MCTreeRoot    == [h \in Hash |-> IF h \in {"t1", "t2"} THEN "d1" ELSE "d3"]
MCDirectories == [h \in Hash |-> CASE h = "d1" -> <<"d2", "d3">>
                                   [] h = "d2" -> <<"d3">>
                                   [] OTHER    -> <<>>]
MCSymlinks    == [h \in Hash |-> CASE h = "d1" -> 2
                                   [] h \in {"d2", "e"} -> 1
                                   [] OTHER -> 0]
=============================================================================
