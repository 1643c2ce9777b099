-------------------------------- MODULE MCPages --------------------------------
(* Two accounts with three conversations on the chat page, two tabs with the keyword *)
(* rules of two keywords and one item, and two items of two sellers in the list.      *)
EXTENDS Pages, TLC

CONSTANTS a1, a2, c1, c2, c3, i1, i2

MCConv == {c1, c2, c3}
MCAccountOf == c1 :> a1 @@ c2 :> a1 @@ c3 :> a2
MCListing == {i1, i2}
MCSellerOf == i1 :> a1 @@ i2 :> a2
================================================================================
