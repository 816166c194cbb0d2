----------------------------- MODULE MCConfigPush ----------------------------
(* ConfigPush with one API handler and two interchangeable sites.           *)
EXTENDS ConfigPush, TLC

CONSTANTS h1, s1, s2

OneHandler == {h1}
TwoSites == {s1, s2}
SiteSymmetry == Permutations(TwoSites)
=============================================================================
