---------------------------- MODULE MCExpiryIndex ----------------------------
(***************************************************************************)
(* Instances of ExpiryIndex for TLC: an array of two, and enough messages  *)
(* for it to overflow, with expiries that come in and out of order.        *)
(***************************************************************************)
EXTENDS ExpiryIndex, TLC

CONSTANTS m1, m2, m3, m4

MCExpiry == [m \in Msgs |-> CASE m = m1 -> 2 [] m = m2 -> 1 [] m = m3 -> 3 [] m = m4 -> 2]

(* One message without an expiry, to be in the way of a scan.              *)
MCExpiryMixed == [m \in Msgs |-> CASE m \in {m1, m2} -> 1 [] m = m3 -> 3 [] m = m4 -> 0]

ThreadSymmetry == Permutations(Threads)
=============================================================================
