----------------------------- MODULE MCDictionary -----------------------------
(***************************************************************************)
(* Dictionary on a table of three slots and three attempts. With the Word  *)
(* of the .cfg files, key 1 probes slots 0, 1, 1, key 3 only slot 0 and    *)
(* key 5 slots 1, 0, 2: calls for them wait for one another, pass one      *)
(* another, come to a slot at the last attempt and run out of attempts.    *)
(***************************************************************************)
EXTENDS Dictionary

CONSTANTS w1, w2, w3

TwoWarps == {w1, w2}
ThreeWarps == {w1, w2, w3}
MCKeys == {1, 3, 5}
=============================================================================
