----------------------------- MODULE MCExecutor -----------------------------
(* Small instances of Executor: two runs of one card and one of another, one *)
(* slot, and one request to kill the first card.                             *)
EXTENDS Executor, TLC

CONSTANTS r1, r2, r3, c1, c2, k1

MCCardOf == (r1 :> c1) @@ (r2 :> c1) @@ (r3 :> c2)
MCCardOfPair == (r1 :> c1) @@ (r2 :> c1)
MCSymmetry == Permutations({r1, r2})
MCCallerCard == [k \in Callers |-> c1]
=============================================================================
