-------------------------- MODULE MCSaleLifecycle --------------------------
(* Instances of SaleLifecycle for TLC. *)
EXTENDS SaleLifecycle, TLC

CONSTANTS p1, p2, k1, k2, r1, r2

TwoProcs == {p1, p2}
TwoKeys == {k1, k2}
Symmetric == Permutations(Procs) \cup Permutations(Keys)
                                    \cup Permutations(Reasons)

(* An empty draft, one unit, two units. *)
SomeQuantities == {0, 1, 2}

(* Exact and excessive cash for delivery, a part in cash, a card that pays *)
(* all, and credit bound to a cash session.                                *)
SomeCharges ==
  { [kind |-> "cash", tender |-> 3, delivery |-> TRUE, bound |-> FALSE],
    [kind |-> "cash", tender |-> 1, delivery |-> TRUE, bound |-> TRUE],
    [kind |-> "card", tender |-> 2, delivery |-> FALSE, bound |-> FALSE],
    [kind |-> "credit", tender |-> 0, delivery |-> TRUE, bound |-> FALSE] }

SomeCollections ==
  { [amount |-> 1, bound |-> FALSE], [amount |-> 2, bound |-> TRUE] }

(* For the states in which a stale copy is under way: those are the more. *)
FewQuantities == {0, 2}
FewCharges ==
  { [kind |-> "cash", tender |-> 3, delivery |-> TRUE, bound |-> FALSE],
    [kind |-> "cash", tender |-> 1, delivery |-> TRUE, bound |-> TRUE] }
FewCollections == { [amount |-> 1, bound |-> FALSE] }
=============================================================================
