---------------------------- MODULE MCCardDelivery ----------------------------
(* Instances of CardDelivery for TLC. *)
EXTENDS CardDelivery, TLC

CONSTANTS l1, l2

TwoLines == <<l1, l2>>
OneEach == [o \in Order |-> 1]
\* the second order is for two pieces
TwoForSecond == [o \in Order |-> IF o = 2 THEN 2 ELSE 1]
AllSettings == SUBSET Switches
NoSwitch == {{}}
Symmetry == Permutations(Session)
===============================================================================
