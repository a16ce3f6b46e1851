-------------------------------- MODULE MCWork --------------------------------
EXTENDS Work

Solo2(fs) == [best |-> FALSE, human |-> FALSE, mob |-> FALSE, verify |-> TRUE,
              split |-> FALSE, stale |-> FALSE, runs |-> 2, faults |-> fs]
Best2(fs) == [Solo2(fs) EXCEPT !.best = TRUE]
MCCards ==
    {[Solo2(fs) EXCEPT !.split = TRUE] : fs \in {{"card", "crash"}, {"git", "crash"}}}
    \cup {[Solo2(fs) EXCEPT !.mob = TRUE, !.runs = 3] :
             fs \in {{"model", "cap"}, {"git", "stop"}, {"selfcommit", "inconclusive"}}}
    \cup {[Solo2({"budget", "card"}) EXCEPT !.human = TRUE, !.split = TRUE, !.verify = FALSE],
          [Solo2({"crash", "cap"}) EXCEPT !.human = TRUE, !.mob = TRUE, !.runs = 3]}
    \cup {[Solo2(fs) EXCEPT !.stale = TRUE] :
             fs \in {{"human", "git"}, {"human", "operator"}, {"budget", "cap"}, {"stop", "budget"}}}
    \cup {[Solo2(fs) EXCEPT !.runs = 3] :
             fs \in {{"crash", "cap", "budget", "stop"}, {"crash", "redraft"}, {"inconclusive", "cap"}}}
    \cup {Solo2({"cap", "card"}), Solo2({"stop", "selfcommit"}),
          [Solo2({"stop", "model", "cap"}) EXCEPT !.mob = TRUE]}
    \cup {Best2(fs) : fs \in {{"card"}, {"git", "stop", "cap"}, {"inconclusive", "cap"}}}
    \cup {[Best2(fs) EXCEPT !.runs = 3] : fs \in {{"cap", "model"}, {"budget", "crash"}}}
    \cup {[Best2({"human"}) EXCEPT !.stale = TRUE]}
MCStale == {[Solo2({"budget", "cap"}) EXCEPT !.stale = TRUE]}
==============================================================================
