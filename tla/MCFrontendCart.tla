----------------------------- MODULE MCFrontendCart ----------------------------
EXTENDS FrontendCart, TLC

CONSTANT MaxStock

MCStock == [p \in Products |-> MaxStock]

\* No action or property names a user, a product or a hook.
Interchangeable == Permutations(Users) \cup Permutations(Products) \cup Permutations(Slots)

\* Bound: whoever has logged out in the header leaves the cart page alone.
Starts(s) == ~Busy(s) /\ Busy(s)'

\* Bound: an answered order's DELETE that may still be served is one of the
\* session that goes on, and no mutation given up on may be served late as well.
OneServedLate ==
  stray # {} => stray = {user} /\ \A s \in Slots : slot[s].at # "late"

\* Bound: of two mutations under way, one is of the session that goes on.
OneLeft ==
  \A s, t \in Slots : s # t /\ Busy(s) /\ Busy(t) => user \in {slot[s].user, slot[t].user}

MCNext == /\ Next
          /\ user = Nobody => \A s \in Slots : ~Starts(s)
          /\ OneServedLate' /\ OneLeft'
MCSpec == Init /\ [][MCNext]_vars
===============================================================================
