----------------------------- MODULE MCBlockedIps ----------------------------
(* BlockedIps with two interchangeable threads, one address, and CIDRs that   *)
(* cover it.                                                                  *)
EXTENDS BlockedIps, TLC

CONSTANTS t1, t2, a1, c1, c2

TwoThreads == {t1, t2}
OneAddr == {a1}
OneCidr == {c1}
TwoCidrs == {c1, c2}
CidrSymmetry == Permutations(TwoThreads) \cup Permutations(TwoCidrs)
=============================================================================
