---------------------------- MODULE MCSrvNotify -----------------------------
(* A small instance of SrvNotify for TLC: the cfg files name the           *)
(* connections.  Listeners are interchangeable, and so are pushers.        *)
EXTENDS SrvNotify, TLC

ConnSymmetry == Permutations(Listeners) \cup Permutations(Pushers)
=============================================================================
