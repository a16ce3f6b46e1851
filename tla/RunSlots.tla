------------------------------ MODULE RunSlots ------------------------------
(***************************************************************************)
(* What the serve process promises about its slots: a trigger becomes at   *)
(* most one live run, a card has at most one live run, there are at most   *)
(* MaxConcurrent of them, and a run that is over stays over.               *)
(***************************************************************************)
EXTENDS Naturals, FiniteSets

CONSTANTS Runs, CardOf, MaxConcurrent

VARIABLE st     \* [Runs -> {"new", "pending", "live", "over"}]

Live == {r \in Runs : st[r] = "live"}

Init == st = [r \in Runs |-> "new"]

Move(r, from, to) ==
    /\ st[r] = from
    /\ st' = [st EXCEPT ![r] = to]

Accept(r) == Move(r, "new", "pending")

Occupy(r) ==
    /\ Move(r, "pending", "live")
    /\ \A x \in Live : CardOf[x] # CardOf[r]
    /\ Cardinality(Live) < MaxConcurrent

\* A trigger refused or stopped before it came to run.
Drop(r) == Move(r, "new", "over") \/ Move(r, "pending", "over")

Release(r) == Move(r, "live", "over")

Next == \E r \in Runs : Accept(r) \/ Occupy(r) \/ Drop(r) \/ Release(r)

Spec == Init /\ [][Next]_st
=============================================================================
