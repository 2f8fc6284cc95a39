----------------------------- MODULE MCConnPool ------------------------------
(* ConnPool with interchangeable deliveries, connections and buckets. *)
EXTENDS ConnPool, TLC

Symmetry == Permutations(Users) \cup Permutations(Conns) \cup Permutations(Slots)
==============================================================================
