------------------------------ MODULE MCOrderStatus ------------------------------
(* Instances of OrderStatus for TLC. *)
EXTENDS OrderStatus, SequencesExt

CONSTANTS o1, o2, b1, i1, i2, s1, s2, seller, unsaid

\* One buyer orders two items, or one item twice.
OneBuyer == [o \in {o1, o2} |-> b1]
TwoItems == o1 :> i1 @@ o2 :> i2
OneItem == [o \in {o1, o2} |-> i1]

Sessions == Permutations({s1, s2})

\* Best, and Merge of two of them, are what merging messages one by one gives.
Folded(current, c) == FoldLeft(LAMBDA st, m : Merge(st, m.status), current, c)
ASSUME BestFolds ==
    \A n \in 0 .. 4 : \A c \in [1 .. n -> [status : Evident]] :
        /\ Best(c, 1 .. n) = Folded("unknown", c)
        /\ \A k \in 0 .. n :
             Merge(Best(c, 1 .. k), Best(c, k + 1 .. n)) =
                Folded(Folded("unknown", SubSeq(c, 1, k)), SubSeq(c, k + 1, n))
=============================================================================
