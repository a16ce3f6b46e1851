----------------------------- MODULE MCShutdown ----------------------------
EXTENDS Shutdown, TLC

CONSTANTS r1, r2, r3, c1, c2, k1, k2, k3, m1

\* Two runs of one card, one of another; a message, its retry, a promotion.
MCCardOf == [r \in Runs |-> IF r = r3 THEN c2 ELSE c1]
MCKindOf == [k \in Calls |-> IF k = k3 THEN "promote" ELSE m1]
MCTarget == [k \in Calls |-> c1]
MCInstances ==
  {[runs |-> {r1, r2}, calls |-> {}], [runs |-> {r1, r3}, calls |-> {}],
   [runs |-> {r1}, calls |-> {k1, k2}], [runs |-> {r1}, calls |-> {k1, k3}]}
=============================================================================
