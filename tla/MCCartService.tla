---------------------------- MODULE MCCartService -----------------------------
EXTENDS CartService, TLC

CONSTANTS first, second      \* two products

MCStock == [p \in Products |-> IF p = first THEN 2 ELSE 1]

\* No action or property names a call, a user or a generated id.
Interchangeable ==
  Permutations(Calls) \cup Permutations(Users)
    \cup Permutations(ItemIds) \cup Permutations(CartIds)
===============================================================================
