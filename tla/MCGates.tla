------------------------------- MODULE MCGates -------------------------------
(* The gates on small instances: the cards worth telling apart, and a cap of   *)
(* two rounds for the code's three. *)
EXTENDS Gates, TLC

CONSTANTS c1, c2

Card(c, p, m, o, r, cs, f) ==
    [ci |-> c, copilot |-> p, merge |-> m, pr |-> o, repo |-> r, says |-> cs, faults |-> f]
MCCards ==
    {Card(TRUE, TRUE, TRUE, TRUE, "CI", {c}, fs) :
        c \in Comments,
        fs \in {{"gh", "stop", "crash", "threads"}, {"card", "crash"}, {"operator", "crash"}}} \cup
    {Card(TRUE, TRUE, FALSE, TRUE, "no CI", {c1, c2}, {"gh", "stop", "partial"}),
     Card(FALSE, TRUE, FALSE, FALSE, "CI", {c1, c2}, {"crash", "stop", "threads"}),
     Card(TRUE, FALSE, TRUE, TRUE, "silent CI", {},
          {"card", "gh", "stop", "crash", "operator", "threads"})}
MCSymmetry == Permutations(Comments)
=============================================================================
