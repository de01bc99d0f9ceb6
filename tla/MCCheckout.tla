------------------------------ MODULE MCCheckout -------------------------------
EXTENDS Checkout

CONSTANTS first,             \* a product
          tab                \* a call of the shopper's

MCStock == [p \in Products |-> IF p = first THEN 2 ELSE 1]
MCCalls == {tab} \cup OrderCalls
===============================================================================
