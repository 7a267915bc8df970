---------------------------- MODULE MCFulfilment ----------------------------
(* A few orders of one user, for model checking.                           *)
EXTENDS Fulfilment, TLC

CONSTANTS h1, h2, h3, b1, b2, t1, t2, basic, pro

MCPlan == [o \in Buys \cup Topups |-> IF o \in {h2, b2} THEN pro ELSE basic]
=============================================================================
