----------------------------- MODULE MCSimClock -----------------------------
(* Instances of SimClock for TLC.                                           *)
EXTENDS SimClock, TLC

UserSymmetry == Permutations(Users)
=============================================================================
