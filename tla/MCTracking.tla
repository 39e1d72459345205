------------------------------ MODULE MCTracking ------------------------------
(* An instance of Tracking for TLC. *)
EXTENDS Tracking, TLC

\* Reports, subscriptions and sockets are interchangeable.
RequestSymmetry == Permutations(Stores) \cup Permutations(Subs) \cup Permutations(Sockets)
===============================================================================
