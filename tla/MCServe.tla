------------------------------ MODULE MCServe -------------------------------
(* Small instances of Serve: two triggers of one card and one of another,   *)
(* and one request that stops a card or all of them.                        *)
EXTENDS Serve, TLC

CONSTANTS r1, r2, r3, c1, c2, s1

MCCardOf == [r \in Runs |-> IF r = r3 THEN c2 ELSE c1]
MCCallers == Runs \cup (Stops \X Cards)
MCCallerCard == [k \in MCCallers |-> IF k \in Runs THEN MCCardOf[k] ELSE k[2]]
MCSymmetry == Permutations({r1, r2})
=============================================================================
