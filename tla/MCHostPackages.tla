---------------------------- MODULE MCHostPackages ----------------------------
(* Two packages, the first required and the second optional, two versions  *)
(* of each; the optional one's second version would collide with its first.*)
EXTENDS HostPackages

CONSTANTS p, q

MCOrder    == <<p, q>>
MCCollides == {<<q, 1, 2>>}

=============================================================================
