---------------------------- MODULE MCDiskCache ------------------------------
(* DiskCache with two threads, two interchangeable keys and objects of one    *)
(* and two bytes.                                                             *)
EXTENDS DiskCache, TLC

CONSTANTS t1, t2, k1, k2

TwoThreads == {t1, t2}
TwoKeys == {k1, k2}
ThreeObjects == <<1, 1, 2>>
Symmetries == Permutations(TwoThreads) \cup Permutations(TwoKeys)
AllOps == {"put", "meta", "get", "remove", "urls", "sweep", "namespace", "domain"}
=============================================================================
