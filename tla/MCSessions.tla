------------------------------ MODULE MCSessions ------------------------------
(* Sessions for TLC: ids are interchangeable, and so are pages. *)
EXTENDS Sessions

CONSTANTS c1, c2, c3, g1, g2, s1, s2

Symmetry == Permutations({c1, c2, c3}) \cup Permutations({g1, g2}) \cup Permutations({s1, s2})

=============================================================================
