---------------------------- MODULE ReviewProofs ----------------------------
(* Theorems about Review, for every cap, ceiling, branch and number of runs. *)
EXTENDS Review, FiniteSetTheorems, TLAPS

USE DEF cm, git, entry, ending, rounds, result, judging, fixing, panels, vars, Goto, None

-----------------------------------------------------------------------------
(* Type correctness. *)

\* Sections and their edits.
LEMMA SectionTypes ==
    /\ NoApproval \in Approval
    /\ \A a \in Approval, p \in BOOLEAN : [parked |-> p, approval |-> a] \in Sections
    /\ \A b \in Sections, p \in BOOLEAN : [b EXCEPT !.parked = p] \in Sections
    /\ \A b \in Sections, a \in Approval : [b EXCEPT !.approval = a] \in Sections
  BY ReviewAssumption DEF Sections, Approval, NoApproval

\* A write of sections leaves sections, on the run's copy and on the card.
LEMMA WriteTypes ==
    ASSUME NEW b, b \in Sections, card \in Sections, Write(b)
    PROVE  body' \in Sections /\ card' \in Sections
  BY DEF Write

LEMMA ApprovedTypes ==
    ASSUME body \in Sections, card \in Sections,
           Approved \/ ApprovedCorrected \/ WriteOther
    PROVE  body' \in Sections /\ card' \in Sections
  BY SectionTypes, WriteTypes DEF Approved, ApprovedCorrected, WriteOther

\* A commit is a new one, and holds what the one below it holds.
LEMMA CommitTypes ==
    ASSUME NEW c \in 0..MaxCommits, ReviewTypeOK, Commit(c)
    PROVE  /\ made' \in 0..MaxCommits
           /\ hist' \in [0..MaxCommits -> SUBSET Commits]
<1>1. made + 1 \in Commits
  BY ReviewAssumption DEF ReviewTypeOK, GitTypeOK, Commit, Commits
<1>2. hist[c] \cup {made + 1} \in SUBSET Commits
  BY <1>1 DEF ReviewTypeOK, GitTypeOK
<1> QED
  BY <1>1, <1>2, ReviewAssumption DEF ReviewTypeOK, GitTypeOK, Commit, Commits

\* A gate's result is recorded against HEAD.
LEMMA GateTypes ==
    ASSUME NEW g, ReviewTypeOK, GateRuns(g)
    PROVE  g \in Gates /\ gateOf' \in [0..MaxCommits -> Gates]
  BY DEF ReviewTypeOK, GitTypeOK, RoundTypeOK, GateRuns, Gates

\* A fix round is charged by its number.
LEMMA MarkTypes ==
    ASSUME NEW f \in Nat, FixTypeOK, MarkFixFailed(f) \/ Unblamed
    PROVE  bar' \in Nat /\ blamed' \in SUBSET Nat
<1>1. bar' \in Nat
  BY DEF FixTypeOK, MarkFixFailed, Unblamed
<1>2. blamed' = blamed \cup {f} \/ blamed' = blamed
  BY DEF MarkFixFailed, Unblamed
<1> QED
  BY <1>1, <1>2 DEF FixTypeOK

\* A run that is over leaves nothing but the card and the branch.
LEMMA OverTypes ==
    ASSUME ReviewTypeOK, Over
    PROVE  body' \in Sections /\ RunTypeOK' /\ RoundTypeOK' /\ FixTypeOK'
<1>1. body' \in Sections
  BY SectionTypes DEF Over
<1>2. gateOf' \in [0..MaxCommits -> Gates]
  BY DEF Over, Gates
<1>3. RunTypeOK'
  <2>1. poc' \in BOOLEAN /\ adopting' \in BOOLEAN
    BY Zenon DEF Over
  <2> QED
    BY <2>1, ReviewAssumption DEF Over, ReviewTypeOK, RunTypeOK
<1>4. RoundTypeOK'
  BY <1>2, ReviewAssumption DEF Over, ReviewTypeOK, RoundTypeOK, Gates
<1>5. FixTypeOK'
  <2>1. green' \in BOOLEAN /\ fixRan' \in BOOLEAN /\ pending' \in BOOLEAN
    BY Zenon DEF Over
  <2> QED
    BY <2>1, ReviewAssumption DEF Over, FixTypeOK
<1> QED
  BY <1>1, <1>3, <1>4, <1>5

\* The first round of a run is counted from one.
LEMMA NextNumber ==
    ASSUME NEW b \in Nat, NEW c \in Nat, c <= b
    PROVE  (b - c) + 1 \in Nat
  OBVIOUS

\* Every step keeps the types.
LEMMA TypeStep == ReviewTypeOK /\ [Next]_vars => ReviewTypeOK'
<1> USE ReviewAssumption DEF ReviewTypeOK
<1> SUFFICES ASSUME ReviewTypeOK, [Next]_vars PROVE ReviewTypeOK'
  OBVIOUS
<1>1. CASE Begin
  <2>1. CardTypeOK'
    BY <1>1, SectionTypes, WriteTypes DEF Begin, CardTypeOK, GitTypeOK, RunTypeOK
  <2>2. GitTypeOK'
    BY <1>1, CommitTypes DEF Begin, GitTypeOK, RunTypeOK
  <2>3. RunTypeOK'
    BY <1>1 DEF Begin, RunTypeOK, GitTypeOK, CardTypeOK
  <2>4. RoundTypeOK'
    <3>1. dropped' \in {attempts, 0} /\ round' = (attempts - dropped') + 1
      BY <1>1 DEF Begin
    <3>2. attempts \in Nat /\ dropped' \in Nat /\ dropped' <= attempts
      BY <3>1 DEF CardTypeOK
    <3>3. round' \in Nat
      BY <3>1, <3>2, NextNumber
    <3> QED
      BY <1>1, <3>3 DEF Begin, RoundTypeOK
  <2>5. FixTypeOK'
    BY <1>1 DEF Begin, FixTypeOK, GitTypeOK, RunTypeOK
  <2> QED
    BY <2>1, <2>2, <2>3, <2>4, <2>5
<1>2. CASE Adopt
  <2>1. CardTypeOK'
    BY <1>2, SectionTypes, WriteTypes DEF Adopt, CardTypeOK, GitTypeOK, RunTypeOK
  <2>2. GitTypeOK'
    BY <1>2 DEF Adopt, GitTypeOK, RunTypeOK
  <2>3. RunTypeOK'
    BY <1>2 DEF Adopt, RunTypeOK, GitTypeOK, CardTypeOK
  <2>4. RoundTypeOK'
    BY <1>2, GateTypes DEF Adopt, RoundTypeOK, GitTypeOK, CardTypeOK, RunTypeOK
  <2>5. FixTypeOK'
    BY <1>2 DEF Adopt, FixTypeOK, GitTypeOK, RunTypeOK
  <2> QED
    BY <2>1, <2>2, <2>3, <2>4, <2>5
<1>3. CASE AdoptNot
  BY <1>3, GateTypes
    DEF AdoptNot, CardTypeOK, GitTypeOK, RunTypeOK, RoundTypeOK, FixTypeOK
<1>4. CASE RoundBegins
  BY <1>4 DEF RoundBegins, CardTypeOK, GitTypeOK, RunTypeOK, RoundTypeOK, FixTypeOK
<1>5. CASE OutOfTime
  BY <1>5
    DEF OutOfTime, StopWith, CardTypeOK, GitTypeOK, RunTypeOK, RoundTypeOK, FixTypeOK
<1>6. CASE Gate
  BY <1>6, GateTypes DEF Gate, CardTypeOK, GitTypeOK, RunTypeOK, RoundTypeOK, FixTypeOK
<1>7. CASE Panel
  BY <1>7 DEF Panel, Shown, CardTypeOK, GitTypeOK, RunTypeOK, RoundTypeOK, FixTypeOK
<1>8. CASE MobPanel
  BY <1>8 DEF MobPanel, Shown, CardTypeOK, GitTypeOK, RunTypeOK, RoundTypeOK, FixTypeOK
<1>9. CASE Synthesize
  <2>1. CardTypeOK'
    BY <1>9 DEF Synthesize, CardTypeOK, GitTypeOK, RunTypeOK
  <2>2. GitTypeOK'
    BY <1>9 DEF Synthesize, GitTypeOK, RunTypeOK
  <2>3. RunTypeOK'
    BY <1>9 DEF Synthesize, RunTypeOK, GitTypeOK, CardTypeOK
  <2>4. RoundTypeOK'
    BY <1>9 DEF Synthesize, Settle, RoundTypeOK, GitTypeOK, CardTypeOK, RunTypeOK
  <2>5. FixTypeOK'
    BY <1>9 DEF Synthesize, FixTypeOK, GitTypeOK, RunTypeOK
  <2> QED
    BY <2>1, <2>2, <2>3, <2>4, <2>5
<1>10. CASE RecordApproval
  <2>1. CardTypeOK'
    BY <1>10, SectionTypes, WriteTypes
      DEF RecordApproval, Approval, CardTypeOK, GitTypeOK, RunTypeOK
  <2>2. GitTypeOK'
    BY <1>10 DEF RecordApproval, GitTypeOK, RunTypeOK
  <2>3. RunTypeOK'
    BY <1>10 DEF RecordApproval, RunTypeOK, GitTypeOK, CardTypeOK
  <2>4. RoundTypeOK'
    BY <1>10 DEF RecordApproval, RoundTypeOK, GitTypeOK, CardTypeOK, RunTypeOK
  <2>5. FixTypeOK'
    BY <1>10 DEF RecordApproval, FixTypeOK, GitTypeOK, RunTypeOK
  <2> QED
    BY <2>1, <2>2, <2>3, <2>4, <2>5
<1>11. CASE RecordRevision
  BY <1>11, WriteTypes
    DEF RecordRevision, CardTypeOK, GitTypeOK, RunTypeOK, RoundTypeOK, FixTypeOK
<1>12. CASE Presents
  BY <1>12, WriteTypes
    DEF Presents, CardTypeOK, GitTypeOK, RunTypeOK, RoundTypeOK, FixTypeOK
<1>13. CASE HumanApproves
  BY <1>13 DEF HumanApproves, CardTypeOK, GitTypeOK, RunTypeOK, RoundTypeOK, FixTypeOK
<1>14. CASE HumanAdjusts
  BY <1>14 DEF HumanAdjusts, CardTypeOK, GitTypeOK, RunTypeOK, RoundTypeOK, FixTypeOK
<1>15. CASE Promoted
  BY <1>15 DEF Promoted, CardTypeOK, GitTypeOK, RunTypeOK, RoundTypeOK, FixTypeOK
<1>16. CASE JudgeCheap
  <2>1. CardTypeOK'
    BY <1>16 DEF JudgeCheap, CardTypeOK, GitTypeOK, RunTypeOK
  <2>2. GitTypeOK'
    BY <1>16 DEF JudgeCheap, Discard, Undiscarded, GitTypeOK, FixTypeOK
  <2>3. RunTypeOK'
    BY <1>16 DEF JudgeCheap, RunTypeOK, GitTypeOK, CardTypeOK
  <2>4. RoundTypeOK'
    BY <1>16 DEF JudgeCheap, CreditCap, RoundTypeOK, GitTypeOK, CardTypeOK, RunTypeOK
  <2>5. FixTypeOK'
    BY <1>16, MarkTypes DEF JudgeCheap, CapSettles, FixTypeOK, GitTypeOK, RunTypeOK
  <2> QED
    BY <2>1, <2>2, <2>3, <2>4, <2>5
<1>17. CASE JudgeStrong
  <2>1. CardTypeOK'
    BY <1>17 DEF JudgeStrong, CardTypeOK, GitTypeOK, RunTypeOK
  <2>2. GitTypeOK'
    BY <1>17 DEF JudgeStrong, Discard, Undiscarded, GitTypeOK, RunTypeOK
  <2>3. RunTypeOK'
    BY <1>17 DEF JudgeStrong, RunTypeOK, GitTypeOK, CardTypeOK
  <2>4. RoundTypeOK'
    BY <1>17 DEF JudgeStrong, CreditCap, RoundTypeOK, GitTypeOK, CardTypeOK, RunTypeOK
  <2>5. FixTypeOK'
    BY <1>17, MarkTypes DEF JudgeStrong, CapSettles, FixTypeOK, GitTypeOK, RunTypeOK
  <2> QED
    BY <2>1, <2>2, <2>3, <2>4, <2>5
<1>18. CASE JudgeAgain
  <2>1. CardTypeOK'
    BY <1>18 DEF JudgeAgain, CardTypeOK, GitTypeOK, RunTypeOK
  <2>2. GitTypeOK'
    BY <1>18 DEF JudgeAgain, Discard, Undiscarded, GitTypeOK, FixTypeOK
  <2>3. RunTypeOK'
    BY <1>18 DEF JudgeAgain, RunTypeOK, GitTypeOK, CardTypeOK
  <2>4. RoundTypeOK'
    BY <1>18 DEF JudgeAgain, CreditCap, RoundTypeOK, GitTypeOK, CardTypeOK, RunTypeOK
  <2>5. FixTypeOK'
    BY <1>18, MarkTypes DEF JudgeAgain, CapSettles, FixTypeOK, GitTypeOK, RunTypeOK
  <2> QED
    BY <2>1, <2>2, <2>3, <2>4, <2>5
<1>19. CASE Count
  BY <1>19 DEF Count, Counted, CardTypeOK, GitTypeOK, RunTypeOK, RoundTypeOK, FixTypeOK
<1>20. CASE Refused
  BY <1>20 DEF Refused, CardTypeOK, GitTypeOK, RunTypeOK, RoundTypeOK, FixTypeOK
<1>21. CASE CapPark
  <2>1. CardTypeOK'
    BY <1>21, SectionTypes, WriteTypes DEF CapPark, CardTypeOK, GitTypeOK, RunTypeOK
  <2>2. GitTypeOK'
    BY <1>21 DEF CapPark, GitTypeOK, RunTypeOK
  <2>3. RunTypeOK'
    BY <1>21 DEF CapPark, RunTypeOK, GitTypeOK, CardTypeOK
  <2>4. RoundTypeOK'
    BY <1>21 DEF CapPark, RoundTypeOK, GitTypeOK, CardTypeOK, RunTypeOK
  <2>5. FixTypeOK'
    BY <1>21 DEF CapPark, FixTypeOK, GitTypeOK, RunTypeOK
  <2> QED
    BY <2>1, <2>2, <2>3, <2>4, <2>5
<1>22. CASE FixLands
  <2>1. CardTypeOK'
    BY <1>22, ApprovedTypes DEF FixLands, CardTypeOK, GitTypeOK, RunTypeOK
  <2>2. GitTypeOK'
    BY <1>22, CommitTypes DEF FixLands, PushLands, GitTypeOK, RunTypeOK
  <2>3. RunTypeOK'
    BY <1>22 DEF FixLands, NextRound, RunTypeOK, GitTypeOK, CardTypeOK
  <2>4. RoundTypeOK'
    BY <1>22 DEF FixLands, NextRound, RoundTypeOK, GitTypeOK, CardTypeOK, RunTypeOK
  <2>5. FixTypeOK'
    <3>1. pending' \in BOOLEAN /\ fixRan' \in BOOLEAN
      BY <1>22 DEF FixLands, Spent, FixTypeOK
    <3>2. preFix' \in {preFix, head, 0}
      BY <1>22 DEF FixLands, BeforeFix, HeadRead
    <3>3. preFix' \in 0..MaxCommits
      BY <3>2 DEF FixTypeOK, GitTypeOK
    <3> QED
      BY <1>22, <3>1, <3>3 DEF FixLands, FixTypeOK
  <2> QED
    BY <2>1, <2>2, <2>3, <2>4, <2>5
<1>23. CASE FixMissing
  <2>1. CardTypeOK'
    BY <1>23, ApprovedTypes DEF FixMissing, CardTypeOK, GitTypeOK, RunTypeOK
  <2>2. GitTypeOK'
    BY <1>23 DEF FixMissing, GitTypeOK, RunTypeOK
  <2>3. RunTypeOK'
    BY <1>23 DEF FixMissing, NextRound, RunTypeOK, GitTypeOK, CardTypeOK
  <2>4. RoundTypeOK'
    BY <1>23
      DEF FixMissing, NextRound, Rewiden, RoundTypeOK, GitTypeOK, CardTypeOK, RunTypeOK
  <2>5. FixTypeOK'
    <3>1. fixes' \in Nat
      BY <1>23 DEF FixMissing, FixTypeOK
    <3>2. MarkFixFailed(fixes') \/ Unblamed
      BY <1>23 DEF FixMissing
    <3>3. bar' \in Nat /\ blamed' \in SUBSET Nat
      BY <3>1, <3>2, MarkTypes
    <3>4. preFix' \in {preFix, head, 0}
      BY <1>23 DEF FixMissing, BeforeFix, HeadRead
    <3>5. preFix' \in 0..MaxCommits
      BY <3>4 DEF FixTypeOK, GitTypeOK
    <3>6. fixRan' \in BOOLEAN
      BY <1>23, Zenon DEF FixMissing, FixTypeOK
    <3> QED
      BY <1>23, <3>1, <3>3, <3>5, <3>6 DEF FixMissing, FixTypeOK
  <2> QED
    BY <2>1, <2>2, <2>3, <2>4, <2>5
<1>24. CASE FixUnpushed
  <2>1. CardTypeOK'
    BY <1>24 DEF FixUnpushed, CardTypeOK, GitTypeOK, RunTypeOK
  <2>2. GitTypeOK'
    BY <1>24, CommitTypes DEF FixUnpushed, PushFails, GitTypeOK, RunTypeOK
  <2>3. RunTypeOK'
    BY <1>24 DEF FixUnpushed, StopWith, RunTypeOK, GitTypeOK, CardTypeOK
  <2>4. RoundTypeOK'
    BY <1>24 DEF FixUnpushed, RoundTypeOK, GitTypeOK, CardTypeOK, RunTypeOK
  <2>5. FixTypeOK'
    BY <1>24 DEF FixUnpushed, BeforeFix, HeadRead, FixTypeOK, GitTypeOK, RunTypeOK
  <2> QED
    BY <2>1, <2>2, <2>3, <2>4, <2>5
<1>25. CASE CleanupLands
  <2>1. CardTypeOK'
    BY <1>25, ApprovedTypes DEF CleanupLands, Approved, CardTypeOK, GitTypeOK, RunTypeOK
  <2>2. GitTypeOK'
    BY <1>25, CommitTypes DEF CleanupLands, Cleans, PushLands, GitTypeOK, RunTypeOK
  <2>3. RunTypeOK'
    BY <1>25 DEF CleanupLands, Cleans, Approved, RunTypeOK, GitTypeOK, CardTypeOK
  <2>4. RoundTypeOK'
    BY <1>25 DEF CleanupLands, RoundTypeOK, GitTypeOK, CardTypeOK, RunTypeOK
  <2>5. FixTypeOK'
    BY <1>25 DEF CleanupLands, Cleans, HeadRead, FixTypeOK, GitTypeOK, RunTypeOK
  <2> QED
    BY <2>1, <2>2, <2>3, <2>4, <2>5
<1>26. CASE CleanupMissing
  <2>1. CardTypeOK'
    BY <1>26, ApprovedTypes DEF CleanupMissing, CardTypeOK, GitTypeOK, RunTypeOK
  <2>2. GitTypeOK'
    BY <1>26 DEF CleanupMissing, GitTypeOK, RunTypeOK
  <2>3. RunTypeOK'
    BY <1>26 DEF CleanupMissing, Cleans, Approved, RunTypeOK, GitTypeOK, CardTypeOK
  <2>4. RoundTypeOK'
    BY <1>26 DEF CleanupMissing, Rewiden, RoundTypeOK, GitTypeOK, CardTypeOK, RunTypeOK
  <2>5. FixTypeOK'
    BY <1>26 DEF CleanupMissing, Cleans, HeadRead, FixTypeOK, GitTypeOK, RunTypeOK
  <2> QED
    BY <2>1, <2>2, <2>3, <2>4, <2>5
<1>27. CASE CleanupUnpushed
  <2>1. CardTypeOK'
    BY <1>27, ApprovedTypes
      DEF CleanupUnpushed, Approved, CardTypeOK, GitTypeOK, RunTypeOK
  <2>2. GitTypeOK'
    BY <1>27, CommitTypes DEF CleanupUnpushed, Cleans, PushFails, GitTypeOK, RunTypeOK
  <2>3. RunTypeOK'
    BY <1>27 DEF CleanupUnpushed, Cleans, Approved, RunTypeOK, GitTypeOK, CardTypeOK
  <2>4. RoundTypeOK'
    BY <1>27 DEF CleanupUnpushed, RoundTypeOK, GitTypeOK, CardTypeOK, RunTypeOK
  <2>5. FixTypeOK'
    BY <1>27 DEF CleanupUnpushed, Cleans, HeadRead, FixTypeOK, GitTypeOK, RunTypeOK
  <2> QED
    BY <2>1, <2>2, <2>3, <2>4, <2>5
<1>28. CASE Prove
  <2>1. CardTypeOK'
    BY <1>28, ApprovedTypes DEF Prove, CardTypeOK, GitTypeOK, RunTypeOK
  <2>2. GitTypeOK'
    <3>1. head' \in {head, preFix}
      BY <1>28 DEF Prove
    <3> QED
      BY <1>28, <3>1 DEF Prove, GitTypeOK, FixTypeOK
  <2>3. RunTypeOK'
    BY <1>28 DEF Prove, Approved, ApprovedCorrected, RunTypeOK, GitTypeOK, CardTypeOK
  <2>4. RoundTypeOK'
    BY <1>28 DEF Prove, Gates, RoundTypeOK, GitTypeOK, CardTypeOK, RunTypeOK
  <2>5. FixTypeOK'
    BY <1>28 DEF Prove, FixTypeOK, GitTypeOK, RunTypeOK
  <2> QED
    BY <2>1, <2>2, <2>3, <2>4, <2>5
<1>29. CASE Stop
  <2>1. CardTypeOK'
    BY <1>29, ApprovedTypes DEF Stop, CardTypeOK
  <2>2. GitTypeOK' /\ RoundTypeOK' /\ FixTypeOK'
    BY <1>29 DEF Stop, GitTypeOK, RoundTypeOK, FixTypeOK
  <2>3. RunTypeOK'
    BY <1>29 DEF Stop, StopWith, RunTypeOK
  <2> QED
    BY <2>1, <2>2, <2>3
<1>30. CASE Crash
  <2>1. CardTypeOK'
    BY <1>30, OverTypes DEF Crash, CardTypeOK, GitTypeOK, RunTypeOK
  <2>2. GitTypeOK'
    BY <1>30 DEF Crash, GitTypeOK, RunTypeOK
  <2>3. RunTypeOK'
    BY <1>30, OverTypes DEF Crash, RunTypeOK, GitTypeOK, CardTypeOK
  <2>4. RoundTypeOK'
    BY <1>30, OverTypes DEF Crash, RoundTypeOK, GitTypeOK, CardTypeOK, RunTypeOK
  <2>5. FixTypeOK'
    BY <1>30, OverTypes DEF Crash, FixTypeOK, GitTypeOK, RunTypeOK
  <2> QED
    BY <2>1, <2>2, <2>3, <2>4, <2>5
<1>31. CASE Integrates
  <2>1. CardTypeOK'
    BY <1>31, OverTypes DEF Integrates, CardTypeOK, GitTypeOK, RunTypeOK
  <2>2. GitTypeOK'
    BY <1>31 DEF Integrates, GitTypeOK, RunTypeOK
  <2>3. RunTypeOK'
    BY <1>31, OverTypes DEF Integrates, RunTypeOK, GitTypeOK, CardTypeOK
  <2>4. RoundTypeOK'
    BY <1>31, OverTypes DEF Integrates, RoundTypeOK, GitTypeOK, CardTypeOK, RunTypeOK
  <2>5. FixTypeOK'
    BY <1>31, OverTypes DEF Integrates, FixTypeOK, GitTypeOK, RunTypeOK
  <2> QED
    BY <2>1, <2>2, <2>3, <2>4, <2>5
<1>32. CASE Leaves
  <2>1. CardTypeOK'
    BY <1>32, OverTypes DEF Leaves, CardTypeOK, GitTypeOK, RunTypeOK
  <2>2. GitTypeOK'
    BY <1>32, CommitTypes DEF Leaves, PushLands, GitTypeOK, RunTypeOK
  <2>3. RunTypeOK'
    BY <1>32, OverTypes DEF Leaves, RunTypeOK, GitTypeOK, CardTypeOK
  <2>4. RoundTypeOK'
    BY <1>32, OverTypes DEF Leaves, RoundTypeOK, GitTypeOK, CardTypeOK, RunTypeOK
  <2>5. FixTypeOK'
    BY <1>32, OverTypes DEF Leaves, FixTypeOK, GitTypeOK, RunTypeOK
  <2> QED
    BY <2>1, <2>2, <2>3, <2>4, <2>5
<1>33. CASE Reopen
  BY <1>33 DEF Reopen, CardTypeOK, GitTypeOK, RunTypeOK, RoundTypeOK, FixTypeOK
<1>34. CASE StopsEarly
  BY <1>34 DEF StopsEarly, CardTypeOK, GitTypeOK, RunTypeOK, RoundTypeOK, FixTypeOK
<1>35. CASE OperatorPush
  <2>1. CardTypeOK'
    BY <1>35 DEF OperatorPush, CardTypeOK, GitTypeOK, RunTypeOK
  <2>2. GitTypeOK'
    BY <1>35, CommitTypes DEF OperatorPush, GitTypeOK, RunTypeOK
  <2>3. RunTypeOK'
    BY <1>35 DEF OperatorPush, RunTypeOK, GitTypeOK, CardTypeOK
  <2>4. RoundTypeOK'
    BY <1>35 DEF OperatorPush, RoundTypeOK, GitTypeOK, CardTypeOK, RunTypeOK
  <2>5. FixTypeOK'
    BY <1>35 DEF OperatorPush, FixTypeOK, GitTypeOK, RunTypeOK
  <2> QED
    BY <2>1, <2>2, <2>3, <2>4, <2>5
<1>36. CASE Rest
  BY <1>36 DEF Rest, CardTypeOK, GitTypeOK, RunTypeOK, RoundTypeOK, FixTypeOK
<1>37. CASE UNCHANGED vars
  BY <1>37 DEF CardTypeOK, GitTypeOK, RunTypeOK, RoundTypeOK, FixTypeOK
<1> QED
  BY <1>1, <1>2, <1>3, <1>4, <1>5, <1>6, <1>7, <1>8, <1>9, <1>10, <1>11, <1>12,
     <1>13, <1>14, <1>15, <1>16, <1>17, <1>18, <1>19, <1>20, <1>21, <1>22, <1>23, <1>24,
     <1>25, <1>26, <1>27, <1>28, <1>29, <1>30, <1>31, <1>32, <1>33, <1>34, <1>35, <1>36,
     <1>37 DEF Next
-----------------------------------------------------------------------------
(* The inductive invariant. *)

\* Between runs nothing of a run is left.
IdleInv ==
    pc = "idle" => ~fixRan /\ ~pending /\ stage = "cheap" /\ credit = 0 /\ why = "none"

\* What is still to be judged has not been charged yet: a fix that ran, a fix
\* that was capped, the strong fix.
BlameInv ==
    /\ blamed \subseteq 1..fixes /\ bar = Cardinality(blamed)
    /\ pc \in {"adopt", "round", "gate", "panel", "verdict", "record", "judge"}
         /\ (fixRan \/ pending \/ stage = "again") => fixes \in (1..fixes) \ blamed
    /\ mode # "auto" \/ pc \in {"human", "count", "fix"} \/ stage = "again" => ~pending

\* A round's number is one more than the counter until it is counted.
NumberInv ==
    /\ dropped <= attempts
    /\ pc \in {"adopt", "round", "gate", "panel", "verdict", "record", "human", "judge",
               "count"} => round + dropped = attempts + 1
    /\ pc = "fix" => round + dropped = attempts

\* An autonomous run of a fresh counter stays in front of its cliff, which the
\* credit moves; behind it come the two rounds of the authoritative pass.
CliffInv ==
    "human" \notin Modes =>
    /\ mode = "auto" /\ pc # "human"
    /\ origin = 0 =>
       /\ dropped = 0
       /\ pc \in {"adopt", "round"} => stage = "cheap" /\ round <= AttemptsCap + credit
       /\ pc \in {"gate", "panel", "verdict", "record", "judge", "count", "fix"} =>
             /\ stage = "cheap" => round < AttemptsCap + credit
             /\ stage = "strong" => round <= AttemptsCap + credit
             /\ stage = "again" => round <= AttemptsCap + credit + 1
       /\ pc = "fix" => stage # "again"

\* Who refuses the count of a round, and of which cards.
RefusalInv ==
    why = "ceiling" => pc \in {"park", "stopped"} /\ ("human" \notin Modes => origin > 0)

\* Charging a fix round that was not charged adds one to the bar.
LEMMA MarkCounts ==
    ASSUME NEW f \in Nat, NEW n \in Nat, FixTypeOK, blamed \subseteq 1..n,
           bar = Cardinality(blamed), f \notin blamed, MarkFixFailed(f)
    PROVE  bar' = Cardinality(blamed')
<1>1. IsFiniteSet(blamed)
  <2>1. IsFiniteSet(1..n)
    BY FS_Interval
  <2> QED
    BY <2>1, FS_Subset
<1>2. Cardinality(blamed \cup {f}) = Cardinality(blamed) + 1
  BY <1>1, FS_AddElement
<1> QED
  BY <1>2 DEF MarkFixFailed

\* Every step keeps the numbering of the rounds, and so the cliff.
LEMMA NumberStep ==
    ASSUME ReviewTypeOK, IdleInv, NumberInv, CliffInv, RefusalInv, [Next]_vars
    PROVE  IdleInv' /\ NumberInv' /\ CliffInv' /\ RefusalInv'
<1> USE ReviewAssumption DEF ReviewTypeOK, CardTypeOK, RunTypeOK, RoundTypeOK
<1>1. CASE Begin
  BY <1>1 DEF Begin, IdleInv, NumberInv, CliffInv, RefusalInv
<1>2. CASE Adopt
  BY <1>2 DEF Adopt, IdleInv, NumberInv, CliffInv, RefusalInv
<1>3. CASE AdoptNot
  BY <1>3 DEF AdoptNot, IdleInv, NumberInv, CliffInv, RefusalInv
<1>4. CASE RoundBegins
  BY <1>4 DEF RoundBegins, IdleInv, NumberInv, CliffInv, RefusalInv
<1>5. CASE OutOfTime
  BY <1>5 DEF OutOfTime, StopWith, IdleInv, NumberInv, CliffInv, RefusalInv
<1>6. CASE Gate
  BY <1>6 DEF Gate, IdleInv, NumberInv, CliffInv, RefusalInv
<1>7. CASE Panel
  BY <1>7 DEF Panel, IdleInv, NumberInv, CliffInv, RefusalInv
<1>8. CASE MobPanel
  BY <1>8 DEF MobPanel, IdleInv, NumberInv, CliffInv, RefusalInv
<1>9. CASE Synthesize
  BY <1>9 DEF Synthesize, IdleInv, NumberInv, CliffInv, RefusalInv
<1>10. CASE RecordApproval
  BY <1>10 DEF RecordApproval, IdleInv, NumberInv, CliffInv, RefusalInv
<1>11. CASE RecordRevision
  BY <1>11 DEF RecordRevision, IdleInv, NumberInv, CliffInv, RefusalInv
<1>12. CASE Presents
  BY <1>12 DEF Presents, IdleInv, NumberInv, CliffInv, RefusalInv
<1>13. CASE HumanApproves
  BY <1>13 DEF HumanApproves, IdleInv, NumberInv, CliffInv, RefusalInv
<1>14. CASE HumanAdjusts
  BY <1>14 DEF HumanAdjusts, IdleInv, NumberInv, CliffInv, RefusalInv
<1>15. CASE Promoted
  BY <1>15 DEF Promoted, IdleInv, NumberInv, CliffInv, RefusalInv
<1>16. CASE JudgeCheap
  BY <1>16
    DEF JudgeCheap, CreditCap, CapSettles, IdleInv, NumberInv, CliffInv, RefusalInv
<1>17. CASE JudgeStrong
  BY <1>17 DEF JudgeStrong, CapSettles, IdleInv, NumberInv, CliffInv, RefusalInv
<1>18. CASE JudgeAgain
  BY <1>18 DEF JudgeAgain, IdleInv, NumberInv, CliffInv, RefusalInv
<1>19. CASE Count
  BY <1>19 DEF Count, Counted, IdleInv, NumberInv, CliffInv, RefusalInv
<1>20. CASE Refused
  BY <1>20 DEF Refused, IdleInv, NumberInv, CliffInv, RefusalInv
<1>21. CASE CapPark
  BY <1>21 DEF CapPark, IdleInv, NumberInv, CliffInv, RefusalInv
<1>22. CASE FixLands
  BY <1>22 DEF FixLands, NextRound, Spent, IdleInv, NumberInv, CliffInv, RefusalInv
<1>23. CASE FixMissing
  BY <1>23 DEF FixMissing, NextRound, IdleInv, NumberInv, CliffInv, RefusalInv
<1>24. CASE FixUnpushed
  BY <1>24 DEF FixUnpushed, StopWith, IdleInv, NumberInv, CliffInv, RefusalInv
<1>25. CASE CleanupLands
  BY <1>25 DEF CleanupLands, Cleans, Approved, IdleInv, NumberInv, CliffInv, RefusalInv
<1>26. CASE CleanupMissing
  BY <1>26
    DEF CleanupMissing, Cleans, Approved, IdleInv, NumberInv, CliffInv, RefusalInv
<1>27. CASE CleanupUnpushed
  BY <1>27
    DEF CleanupUnpushed, Cleans, Approved, IdleInv, NumberInv, CliffInv, RefusalInv
<1>28. CASE Prove
  BY <1>28 DEF Prove, Approved, ApprovedCorrected, IdleInv, NumberInv, CliffInv, RefusalInv
<1>29. CASE Stop
  BY <1>29 DEF Stop, StopWith, IdleInv, NumberInv, CliffInv, RefusalInv
<1>30. CASE Crash
  BY <1>30 DEF Crash, Over, IdleInv, NumberInv, CliffInv, RefusalInv
<1>31. CASE Integrates
  BY <1>31 DEF Integrates, Over, IdleInv, NumberInv, CliffInv, RefusalInv
<1>32. CASE Leaves
  BY <1>32 DEF Leaves, Over, IdleInv, NumberInv, CliffInv, RefusalInv
<1>33. CASE Reopen
  BY <1>33 DEF Reopen, IdleInv, NumberInv, CliffInv, RefusalInv
<1>34. CASE StopsEarly
  BY <1>34 DEF StopsEarly, IdleInv, NumberInv, CliffInv, RefusalInv
<1>35. CASE OperatorPush
  BY <1>35 DEF OperatorPush, IdleInv, NumberInv, CliffInv, RefusalInv
<1>36. CASE Rest
  BY <1>36 DEF Rest, IdleInv, NumberInv, CliffInv, RefusalInv
<1>37. CASE UNCHANGED vars
  BY <1>37 DEF IdleInv, NumberInv, CliffInv, RefusalInv
<1> QED
  BY <1>1, <1>2, <1>3, <1>4, <1>5, <1>6, <1>7, <1>8, <1>9, <1>10, <1>11, <1>12,
     <1>13, <1>14, <1>15, <1>16, <1>17, <1>18, <1>19, <1>20, <1>21, <1>22, <1>23, <1>24,
     <1>25, <1>26, <1>27, <1>28, <1>29, <1>30, <1>31, <1>32, <1>33, <1>34, <1>35, <1>36,
     <1>37 DEF Next

\* Every step keeps the account of the fix rounds.
LEMMA BlameStep ==
    ASSUME ReviewTypeOK, IdleInv, BlameInv, [Next]_vars
    PROVE  BlameInv'
<1> USE ReviewAssumption DEF ReviewTypeOK, RunTypeOK, RoundTypeOK, FixTypeOK
<1>1. CASE Begin
  BY <1>1 DEF Begin, IdleInv, BlameInv
<1>2. CASE Adopt
  BY <1>2 DEF Adopt, IdleInv, BlameInv
<1>3. CASE AdoptNot
  BY <1>3 DEF AdoptNot, IdleInv, BlameInv
<1>4. CASE RoundBegins
  BY <1>4 DEF RoundBegins, IdleInv, BlameInv
<1>5. CASE OutOfTime
  BY <1>5 DEF OutOfTime, StopWith, IdleInv, BlameInv
<1>6. CASE Gate
  BY <1>6 DEF Gate, IdleInv, BlameInv
<1>7. CASE Panel
  BY <1>7 DEF Panel, IdleInv, BlameInv
<1>8. CASE MobPanel
  BY <1>8 DEF MobPanel, IdleInv, BlameInv
<1>9. CASE Synthesize
  BY <1>9 DEF Synthesize, IdleInv, BlameInv
<1>10. CASE RecordApproval
  BY <1>10 DEF RecordApproval, IdleInv, BlameInv
<1>11. CASE RecordRevision
  BY <1>11 DEF RecordRevision, IdleInv, BlameInv
<1>12. CASE Presents
  BY <1>12 DEF Presents, IdleInv, BlameInv
<1>13. CASE HumanApproves
  BY <1>13 DEF HumanApproves, IdleInv, BlameInv
<1>14. CASE HumanAdjusts
  BY <1>14 DEF HumanAdjusts, IdleInv, BlameInv
<1>15. CASE Promoted
  BY <1>15 DEF Promoted, IdleInv, BlameInv
<1>16. CASE JudgeCheap
  <2>1. pc = "judge" /\ fixes' = fixes /\ pc' = "count" /\ UNCHANGED <<stage, mode>>
    BY <1>16 DEF JudgeCheap
  <2>2. pending' = FALSE
    BY <1>16 DEF JudgeCheap, CapSettles, BlameInv
  <2>3. \/ Unblamed
        \/ MarkFixFailed(fixes) /\ fixes \in (1..fixes) \ blamed
    BY <1>16 DEF JudgeCheap, BlameInv
  <2>4. CASE Unblamed
    BY <2>1, <2>2, <2>4 DEF BlameInv, Unblamed
  <2>5. CASE MarkFixFailed(fixes) /\ fixes \in (1..fixes) \ blamed
    <3>1. bar' = Cardinality(blamed')
      BY <2>5, MarkCounts DEF BlameInv
    <3>2. blamed' \subseteq 1..fixes
      BY <2>5 DEF BlameInv, MarkFixFailed
    <3> QED
      BY <2>1, <2>2, <3>1, <3>2 DEF BlameInv
  <2> QED
    BY <2>3, <2>4, <2>5
<1>17. CASE JudgeStrong
  <2>1. pc = "judge" /\ fixes' = fixes /\ pc' = "count" /\ UNCHANGED <<stage, mode>>
    BY <1>17 DEF JudgeStrong
  <2>2. pending' = FALSE
    BY <1>17 DEF JudgeStrong, CapSettles, BlameInv
  <2>3. \/ Unblamed
        \/ MarkFixFailed(fixes) /\ fixes \in (1..fixes) \ blamed
    BY <1>17 DEF JudgeStrong, BlameInv
  <2>4. CASE Unblamed
    BY <2>1, <2>2, <2>4 DEF BlameInv, Unblamed
  <2>5. CASE MarkFixFailed(fixes) /\ fixes \in (1..fixes) \ blamed
    <3>1. bar' = Cardinality(blamed')
      BY <2>5, MarkCounts DEF BlameInv
    <3>2. blamed' \subseteq 1..fixes
      BY <2>5 DEF BlameInv, MarkFixFailed
    <3> QED
      BY <2>1, <2>2, <3>1, <3>2 DEF BlameInv
  <2> QED
    BY <2>3, <2>4, <2>5
<1>18. CASE JudgeAgain
  <2>1. pc = "judge" /\ fixes' = fixes /\ pc' = "count" /\ UNCHANGED <<stage, mode>>
    BY <1>18 DEF JudgeAgain
  <2>2. pending' = FALSE
    BY <1>18 DEF JudgeAgain, CapSettles, BlameInv
  <2>3. \/ Unblamed
        \/ MarkFixFailed(fixes) /\ fixes \in (1..fixes) \ blamed
    BY <1>18 DEF JudgeAgain, BlameInv
  <2>4. CASE Unblamed
    BY <2>1, <2>2, <2>4 DEF BlameInv, Unblamed
  <2>5. CASE MarkFixFailed(fixes) /\ fixes \in (1..fixes) \ blamed
    <3>1. bar' = Cardinality(blamed')
      BY <2>5, MarkCounts DEF BlameInv
    <3>2. blamed' \subseteq 1..fixes
      BY <2>5 DEF BlameInv, MarkFixFailed
    <3> QED
      BY <2>1, <2>2, <3>1, <3>2 DEF BlameInv
  <2> QED
    BY <2>3, <2>4, <2>5
<1>19. CASE Count
  BY <1>19 DEF Count, Counted, IdleInv, BlameInv
<1>20. CASE Refused
  BY <1>20 DEF Refused, IdleInv, BlameInv
<1>21. CASE CapPark
  BY <1>21 DEF CapPark, IdleInv, BlameInv
<1>22. CASE FixLands
  <2>1. /\ fixes' = fixes + 1 /\ fixes + 1 \in Nat /\ UNCHANGED <<bar, blamed>>
        /\ stage' \in {"cheap", "again"} \cup {stage} /\ pc' \in {"gate", "round"}
    BY <1>22 DEF FixLands, NextRound
  <2>2. fixes + 1 \in 1..fixes' /\ fixes + 1 \notin blamed /\ blamed \subseteq 1..fixes'
    BY <2>1 DEF BlameInv
  <2>3. mode' # "auto" \/ stage' = "again" => ~pending'
    BY <1>22 DEF FixLands, NextRound, BlameInv
  <2> QED
    BY <2>1, <2>2, <2>3 DEF BlameInv
<1>23. CASE FixMissing
  <2>1. /\ fixes' = fixes + 1 /\ fixes + 1 \in Nat /\ pc' \in {"gate", "round"}
        /\ pending' = pending /\ ~pending
    BY <1>23 DEF FixMissing, NextRound, BlameInv
  <2>2. fixes + 1 \in 1..fixes' /\ fixes + 1 \notin blamed /\ blamed \subseteq 1..fixes'
    BY <2>1 DEF BlameInv
  <2>3. CASE mode = "auto" /\ stage = "cheap"
    <3>1. MarkFixFailed(fixes + 1) /\ fixRan' = FALSE /\ stage' = "cheap"
      BY <1>23, <2>1, <2>3 DEF FixMissing, NextRound
    <3>2. bar' = Cardinality(blamed')
      BY <2>1, <2>2, <3>1, MarkCounts DEF BlameInv
    <3>3. blamed' \subseteq 1..fixes'
      BY <2>2, <3>1 DEF MarkFixFailed
    <3> QED
      BY <2>1, <3>1, <3>2, <3>3 DEF BlameInv
  <2>4. CASE ~(mode = "auto" /\ stage = "cheap")
    <3>1. UNCHANGED <<bar, blamed>>
      BY <1>23, <2>4 DEF FixMissing, Unblamed
    <3> QED
      BY <2>1, <2>2, <3>1 DEF BlameInv
  <2> QED
    BY <2>3, <2>4
<1>24. CASE FixUnpushed
  BY <1>24 DEF FixUnpushed, StopWith, IdleInv, BlameInv
<1>25. CASE CleanupLands
  BY <1>25 DEF CleanupLands, Cleans, Approved, IdleInv, BlameInv
<1>26. CASE CleanupMissing
  BY <1>26 DEF CleanupMissing, Cleans, Approved, IdleInv, BlameInv
<1>27. CASE CleanupUnpushed
  BY <1>27 DEF CleanupUnpushed, Cleans, Approved, IdleInv, BlameInv
<1>28. CASE Prove
  BY <1>28 DEF Prove, Approved, ApprovedCorrected, IdleInv, BlameInv
<1>29. CASE Stop
  BY <1>29 DEF Stop, StopWith, IdleInv, BlameInv
<1>30. CASE Crash
  <2>1. blamed' = {} /\ bar' = 0 /\ fixes' = 0 /\ pc' = "idle" /\ pending' = FALSE
    BY <1>30 DEF Crash, Over
  <2> QED
    BY <2>1, FS_EmptySet DEF BlameInv
<1>31. CASE Integrates
  <2>1. blamed' = {} /\ bar' = 0 /\ fixes' = 0 /\ pc' = "idle" /\ pending' = FALSE
    BY <1>31 DEF Integrates, Over
  <2> QED
    BY <2>1, FS_EmptySet DEF BlameInv
<1>32. CASE Leaves
  <2>1. blamed' = {} /\ bar' = 0 /\ fixes' = 0 /\ pc' = "idle" /\ pending' = FALSE
    BY <1>32 DEF Leaves, Over
  <2> QED
    BY <2>1, FS_EmptySet DEF BlameInv
<1>33. CASE Reopen
  BY <1>33 DEF Reopen, IdleInv, BlameInv
<1>34. CASE StopsEarly
  BY <1>34 DEF StopsEarly, IdleInv, BlameInv
<1>35. CASE OperatorPush
  BY <1>35 DEF OperatorPush, IdleInv, BlameInv
<1>36. CASE Rest
  BY <1>36 DEF Rest, IdleInv, BlameInv
<1>37. CASE UNCHANGED vars
  BY <1>37 DEF IdleInv, BlameInv
<1> QED
  BY <1>1, <1>2, <1>3, <1>4, <1>5, <1>6, <1>7, <1>8, <1>9, <1>10, <1>11, <1>12,
     <1>13, <1>14, <1>15, <1>16, <1>17, <1>18, <1>19, <1>20, <1>21, <1>22, <1>23, <1>24,
     <1>25, <1>26, <1>27, <1>28, <1>29, <1>30, <1>31, <1>32, <1>33, <1>34, <1>35, <1>36,
     <1>37 DEF Next

IInv ==
    /\ ReviewTypeOK
    /\ IdleInv /\ NumberInv /\ CliffInv /\ RefusalInv /\ BlameInv

LEMMA InitInv == Init => IInv
<1> SUFFICES ASSUME Init PROVE IInv
  OBVIOUS
<1> USE ReviewAssumption DEF Init, Fresh
<1>1. CardTypeOK
  <2>1. [parked |-> FALSE, approval |-> NoApproval] \in Sections
    BY SectionTypes
  <2> QED
    BY <2>1 DEF CardTypeOK
<1>2. GitTypeOK
  BY DEF GitTypeOK
<1>3. RunTypeOK
  <2>1. poc \in BOOLEAN /\ adopting \in BOOLEAN
    BY Zenon
  <2> QED
    BY <2>1 DEF RunTypeOK
<1>4. RoundTypeOK
  <2>1. gateOf \in [0..MaxCommits -> Gates]
    BY DEF Gates
  <2> QED
    BY <2>1 DEF RoundTypeOK, Gates
<1>5. FixTypeOK
  <2>1. green \in BOOLEAN /\ fixRan \in BOOLEAN /\ pending \in BOOLEAN
    BY Zenon
  <2> QED
    BY <2>1 DEF FixTypeOK
<1>6. IdleInv /\ NumberInv /\ CliffInv /\ RefusalInv
  BY DEF IdleInv, NumberInv, CliffInv, RefusalInv
<1>7. BlameInv
  BY FS_EmptySet DEF BlameInv
<1> QED
  BY <1>1, <1>2, <1>3, <1>4, <1>5, <1>6, <1>7 DEF IInv, ReviewTypeOK

LEMMA InvariantStep == IInv /\ [Next]_vars => IInv'
  BY TypeStep, NumberStep, BlameStep DEF IInv

LEMMA InductiveInvariant == Spec => []IInv
  BY InitInv, InvariantStep, PTL DEF Spec

-----------------------------------------------------------------------------
(* What follows. *)

\* The state of the review, its card and its branch stays of its types, for any
\* cap, ceiling, number of runs and length of the branch.
THEOREM ReviewTypes == Spec => []ReviewTypeOK
<1>1. IInv => ReviewTypeOK
  BY DEF IInv
<1> QED
  BY <1>1, InductiveInvariant, PTL

LEMMA NumberOf ==
    ASSUME NEW a \in Nat, NEW d \in Nat, NEW n \in Nat, n + d = a + 1
    PROVE  n = (a - d) + 1
  OBVIOUS

\* The number a round starts with is the card's counter less what the run's
\* restart left out, plus one, over every resume, credit and hand-off
\* (reviewLoop, runReviewHITL).
THEOREM RoundsMirrorCounter == Spec => []RoundMirrorsCounter
<1>1. IInv => RoundMirrorsCounter
  <2> SUFFICES ASSUME IInv, pc = "round" PROVE round = (attempts - dropped) + 1
    BY DEF RoundMirrorsCounter
  <2>1. attempts \in Nat /\ dropped \in Nat /\ round \in Nat
    BY ReviewAssumption DEF IInv, ReviewTypeOK, CardTypeOK, RunTypeOK, RoundTypeOK
  <2>2. round + dropped = attempts + 1
    BY DEF IInv, NumberInv
  <2> QED
    BY <2>1, <2>2, NumberOf
<1> QED
  BY <1>1, InductiveInvariant, PTL

\* An autonomous card whose counter started at zero is never refused a count by
\* ContextMatrix: whatever the cap, its highest value and the credit, the loop
\* parks by itself (creditCap, MaxReviewAttemptsCap, incrementReviewAttempt).
THEOREM NeverRefused == Spec => []NoRefusal
<1>1. IInv => NoRefusal
  BY DEF IInv, RefusalInv, NoRefusal
<1> QED
  BY <1>1, InductiveInvariant, PTL

\* The bar counts the fix rounds it was raised for, each once (reviewLoop,
\* authoritativeReview, markFixFailed).
THEOREM OneChargeEach == Spec => []OneChargePerFix
<1>1. IInv => OneChargePerFix
  BY DEF IInv, BlameInv, OneChargePerFix
<1> QED
  BY <1>1, InductiveInvariant, PTL
-----------------------------------------------------------------------------
(* The branch and what the run remembers of it. *)

\* A commit holds itself and older ones only.  While a run is in review there is
\* a branch, and all that a run or a record names has been made.
BranchInv ==
    /\ head <= made /\ remote <= made /\ preFix <= made /\ reviewed <= made
    /\ cleaned <= made /\ \A a \in approvals : a.at <= made
    /\ hist[None] = {}
    /\ \A c \in 1..made : c \in hist[c] /\ hist[c] \subseteq 1..c
    /\ phase = "review" => remote # None
    /\ pc # "idle" => phase = "review" /\ head # None

\* A verdict that approved commit c, at this run's bar and behind a good gate.
Good(c) == HasVerify => gateOf[c] \in {"passed", "skipped"}
Sound(c) == Good(c) /\ \E a \in approvals : a.at = c /\ (a.poc => poc)

\* A record on the card tells of a verdict.
RecordInv ==
    \A b \in {card, body} : b.approval.at # None =>
        \E a \in approvals : a.at = b.approval.at /\ (a.poc => b.approval.poc)

\* Where an approval is on its way to the end of the review.
SoundInv ==
    /\ pc \in {"panel", "verdict"} => Good(head)
    /\ pc \in {"record", "human"} /\ verdict # "revise" => Sound(head)
    /\ pc = "cleanup" => Sound(head)
    /\ pc = "prove" => /\ Sound(cleaned) /\ cleaned < head /\ preFix \in {None, cleaned}
                       /\ hist[head] = hist[cleaned] \cup {head}
    /\ ApprovedIsProven

\* The snapshot of the last panel holds only what panels were shown, and what is
\* at HEAD when the next one is asked is not part of it.
SeenInv ==
    /\ hist[reviewed] \subseteq covered
    /\ pc \in {"idle", "adopt"} => reviewed = None
    /\ pc \in {"adopt", "round", "gate", "panel"} => head \notin hist[reviewed]
    /\ NothingUnseen

\* What the last fix is measured by: the gate of the round, and that of the
\* round before, at the commit before the fix.
MeasureInv ==
    /\ pc \in {"panel", "verdict", "record", "human", "judge"} => gate = gateOf[head]
    /\ pc \in {"count", "fix"} /\ stage # "again" /\ green => gateOf[head] = "passed"
    /\ mode # "auto" => /\ ~green /\ preFix = None
                         /\ pc \notin {"adopt", "judge", "cleanup", "prove"}
    /\ pc = "human" => mode # "auto"
    /\ pc \in {"idle", "adopt"} => ~green /\ preFix = None
    /\ pc = "fix" => stage # "again"
    /\ pc \in {"round", "gate", "panel", "verdict", "record", "human", "judge"}
         /\ preFix \notin {None, head} =>
            /\ hist[head] = hist[preFix] \cup {head} /\ preFix < head
            /\ green => gateOf[preFix] = "passed"

\* A commit is new, stands on the one below it and changes no other.
LEMMA CommitKeeps ==
    ASSUME ReviewTypeOK, BranchInv, NEW c \in 0..made, Commit(c)
    PROVE  /\ made' = made + 1 /\ made' \in Commits
           /\ \A d \in 0..made : hist'[d] = hist[d]
           /\ hist'[made'] = hist[c] \cup {made'}
           /\ \A d \in hist[c] : d \in 1..made
<1> USE ReviewAssumption DEF ReviewTypeOK, GitTypeOK, Commits
<1>1. made' = made + 1 /\ made' \in 1..MaxCommits
  BY DEF Commit
<1>2. hist' = [hist EXCEPT ![made'] = hist[c] \cup {made'}]
  BY <1>1 DEF Commit
<1>3. \A d \in hist[c] : d \in 1..made
  <2>1. CASE c = 0
    BY <2>1 DEF BranchInv
  <2>2. CASE c \in 1..made
    BY <2>2 DEF BranchInv
  <2> QED
    BY <2>1, <2>2
<1> QED
  BY <1>1, <1>2, <1>3

\* Commits are made on the base, on HEAD or on the pushed branch.
LEMMA BranchGrows ==
    ASSUME ReviewTypeOK, BranchInv, [Next]_vars
    PROVE  UNCHANGED <<made, hist>> \/ \E c \in 0..made : Commit(c)
<1>1. 0 \in 0..made /\ head \in 0..made /\ remote \in 0..made
  BY DEF ReviewTypeOK, GitTypeOK, BranchInv
<1>2. CASE Begin \/ FixLands \/ FixUnpushed \/ CleanupLands \/ CleanupUnpushed \/ Leaves
           \/ OperatorPush
  BY <1>1, <1>2 DEF Begin, FixLands, FixUnpushed, CleanupLands, CleanupUnpushed, Cleans, Leaves,
                    OperatorPush
<1>3. CASE Adopt \/ AdoptNot \/ RoundBegins \/ OutOfTime \/ Gate \/ Panel \/ MobPanel \/ Synthesize
           \/ RecordApproval \/ RecordRevision \/ Presents \/ HumanApproves \/ HumanAdjusts
           \/ Promoted
  BY <1>3 DEF Adopt, AdoptNot, RoundBegins, OutOfTime, Gate, Panel, MobPanel, Synthesize,
              RecordApproval, RecordRevision, Presents, HumanApproves, HumanAdjusts, Promoted
<1>4. CASE JudgeCheap \/ JudgeStrong \/ JudgeAgain
  BY <1>4 DEF JudgeCheap, JudgeStrong, JudgeAgain, Discard, Undiscarded
<1>5. CASE Count \/ Refused \/ CapPark \/ FixMissing \/ CleanupMissing \/ Prove \/ Stop \/ Crash
           \/ Integrates \/ Reopen \/ StopsEarly \/ Rest \/ UNCHANGED vars
  BY <1>5 DEF Count, Refused, CapPark, FixMissing, CleanupMissing, Prove, Stop, Crash, Integrates,
              Reopen, StopsEarly, Rest
<1> QED
  BY <1>2, <1>3, <1>4, <1>5 DEF Next

\* What there is of the branch stays as it is.
LEMMA BranchKeeps ==
    ASSUME ReviewTypeOK, BranchInv, [Next]_vars
    PROVE  /\ made' \in Nat /\ made <= made' /\ \A d \in 0..made : hist'[d] = hist[d]
           /\ \A d \in 0..made : \A e \in hist[d] : e \in 1..made
           /\ \A d \in 1..made : d \in hist[d]
<1> USE DEF ReviewTypeOK, GitTypeOK
<1>1. \A d \in 0..made : \A e \in hist[d] : e \in 1..made
  <2> SUFFICES ASSUME NEW d \in 0..made, NEW e \in hist[d] PROVE e \in 1..made
    OBVIOUS
  <2>1. CASE d = 0
    BY <2>1 DEF BranchInv
  <2>2. CASE d \in 1..made
    BY <2>2 DEF BranchInv
  <2> QED
    BY <2>1, <2>2
<1>2. CASE UNCHANGED <<made, hist>>
  BY <1>1, <1>2 DEF BranchInv
<1>3. ASSUME NEW c \in 0..made, Commit(c)
      PROVE  made' \in Nat /\ made <= made' /\ \A d \in 0..made : hist'[d] = hist[d]
  BY <1>3, CommitKeeps DEF Commits
<1> QED
  BY <1>1, <1>2, <1>3, BranchGrows DEF BranchInv

\* Every step keeps the branch in order.
LEMMA BranchStep ==
    ASSUME ReviewTypeOK, BranchInv, [Next]_vars
    PROVE  BranchInv'
<1> DEFINE Order == /\ hist'[None] = {}
                    /\ \A c \in 1..made' : c \in hist'[c] /\ hist'[c] \subseteq 1..c
           Named == /\ head' <= made' /\ remote' <= made' /\ preFix' <= made'
                    /\ reviewed' <= made' /\ cleaned' <= made'
                    /\ \A a \in approvals' : a.at <= made'
           There == /\ phase' = "review" => remote' # None
                    /\ pc' # "idle" => phase' = "review" /\ head' # None
<1> USE DEF ReviewTypeOK, GitTypeOK
<1>a. /\ made \in Nat /\ made' \in Nat /\ made <= made'
      /\ head \in 0..made /\ remote \in 0..made /\ preFix \in 0..made
      /\ reviewed \in 0..made /\ cleaned \in 0..made
  BY BranchKeeps DEF BranchInv, FixTypeOK, RoundTypeOK, RunTypeOK
<1>b. \A a \in approvals : a.at \in 0..made /\ a.at <= made'
  BY <1>a DEF BranchInv, RoundTypeOK
<1>1. Order
  <2>1. CASE UNCHANGED <<made, hist>>
    BY <2>1 DEF BranchInv
  <2>2. ASSUME NEW c \in 0..made, Commit(c) PROVE Order
    <3>1. hist'[None] = {} /\ \A d \in 1..made : d \in hist'[d] /\ hist'[d] \subseteq 1..d
      BY <2>2, CommitKeeps DEF BranchInv
    <3>2. made' \in hist'[made'] /\ hist'[made'] \subseteq 1..made'
      <4>1. made' = made + 1 /\ hist'[made'] = hist[c] \cup {made'}
        BY <2>2, CommitKeeps
      <4>2. \A d \in hist[c] : d \in 1..made
        BY <2>2, CommitKeeps
      <4>3. \A d \in hist'[made'] : d \in 1..made'
        BY <1>a, <4>1, <4>2
      <4> QED
        BY <4>1, <4>3
    <3> QED
      BY <1>a, <2>2, <3>1, <3>2, CommitKeeps
  <2> QED
    BY <2>1, <2>2, BranchGrows
<1>2. CASE Adopt \/ AdoptNot \/ RoundBegins \/ OutOfTime \/ Gate \/ RecordApproval \/ RecordRevision
           \/ Presents \/ HumanApproves \/ HumanAdjusts \/ Promoted \/ JudgeStrong \/ Count
           \/ Refused \/ CapPark \/ Stop \/ Reopen \/ StopsEarly \/ Rest \/ UNCHANGED vars
  <2>1. /\ UNCHANGED <<made, head, remote, preFix, reviewed, cleaned, approvals>>
        /\ pc' = "idle" => pc = "idle"
    BY <1>2 DEF Adopt, AdoptNot, RoundBegins, OutOfTime, Gate, RecordApproval, RecordRevision,
                Presents, HumanApproves, HumanAdjusts, Promoted, JudgeStrong, Count, Refused,
                CapPark, Stop, StopWith, Reopen, StopsEarly, Rest
  <2>2. \/ phase' = phase /\ (pc' # "idle" => pc # "idle")
        \/ phase' # "review" /\ pc' = "idle"
    BY <1>2 DEF Adopt, AdoptNot, RoundBegins, OutOfTime, Gate, RecordApproval, RecordRevision,
                Presents, HumanApproves, HumanAdjusts, Promoted, JudgeStrong, Count, Refused,
                CapPark, Stop, StopWith, Reopen, StopsEarly, Rest
  <2> QED
    BY <1>1, <2>1, <2>2 DEF BranchInv
<1>3. CASE Panel \/ MobPanel \/ Synthesize
  <2>1. /\ UNCHANGED <<made, head, remote, preFix, cleaned, phase>>
        /\ pc # "idle" /\ reviewed' \in {reviewed, head}
        /\ \A a \in approvals' : a \in approvals \/ a.at = head
    BY <1>3 DEF Panel, MobPanel, Synthesize
  <2> QED
    BY <1>1, <1>a, <1>b, <2>1 DEF BranchInv
<1>4. CASE JudgeCheap \/ JudgeAgain
  <2>1. /\ UNCHANGED <<made, preFix, reviewed, cleaned, phase, approvals>> /\ pc # "idle"
        /\ \/ UNCHANGED <<head, remote>>
           \/ head' = preFix /\ remote' \in {remote, preFix} /\ preFix # None
    BY <1>4 DEF JudgeCheap, JudgeAgain, Discard, Undiscarded
  <2> QED
    BY <1>1, <1>a, <1>b, <2>1 DEF BranchInv
<1>5. CASE FixLands \/ FixUnpushed \/ CleanupLands \/ CleanupUnpushed
  <2>1. /\ UNCHANGED <<reviewed, phase, approvals>> /\ pc # "idle"
        /\ head' = made' /\ remote' \in {remote, made'} /\ preFix' \in {preFix, head, None}
        /\ cleaned' \in {cleaned, head} /\ Commit(head)
    BY <1>5 DEF FixLands, FixUnpushed, CleanupLands, CleanupUnpushed, Cleans, BeforeFix, HeadRead,
                PushLands, PushFails, StopWith
  <2>2. made' # 0
    BY <1>a, <2>1, CommitKeeps DEF Commits
  <2> QED
    BY <1>1, <1>a, <1>b, <2>1, <2>2 DEF BranchInv
<1>6. CASE FixMissing \/ CleanupMissing \/ Prove
  <2>1. /\ UNCHANGED <<made, remote, phase, approvals>> /\ pc # "idle"
        /\ head' = head \/ (head' = preFix /\ preFix # None)
        /\ preFix' \in {preFix, head, None} /\ reviewed' \in {reviewed, None}
        /\ cleaned' \in {cleaned, head}
    BY <1>6 DEF FixMissing, CleanupMissing, Cleans, Prove, BeforeFix, HeadRead, Rewiden
  <2> QED
    BY <1>1, <1>a, <1>b, <2>1 DEF BranchInv
<1>7. CASE Crash \/ Integrates \/ Leaves
  <2>1. /\ preFix' = None /\ reviewed' = None /\ cleaned' = None /\ approvals' = approvals
        /\ pc' = "idle"
        /\ phase' = "review" => phase = "review"
        /\ head' \in {head, made'}
    BY <1>7 DEF Crash, Integrates, Leaves, Over
  <2>2. remote' \in {remote, head, made'} /\ (phase' = "review" => remote' # None)
    <3>1. CASE Crash
      BY <3>1 DEF Crash, BranchInv
    <3>2. CASE Integrates
      BY <3>2 DEF Integrates
    <3>3. CASE Leaves
      <4>1. ASSUME Commit(head) PROVE made' # 0
        BY <1>a, <4>1, CommitKeeps DEF Commits
      <4> QED
        BY <3>3, <4>1 DEF Leaves, PushLands, BranchInv
    <3> QED
      BY <1>7, <3>1, <3>2, <3>3
  <2> QED
    BY <1>1, <1>a, <1>b, <2>1, <2>2 DEF BranchInv
<1>8. CASE Begin
  <2>1. UNCHANGED <<preFix, reviewed, cleaned, approvals>> /\ phase' = "review"
    BY <1>8 DEF Begin
  <2>2. \/ UNCHANGED <<made, remote>> /\ head' = remote /\ phase = "review"
        \/ Commit(0) /\ head' = made' /\ remote' = made'
    BY <1>8 DEF Begin
  <2>3. ASSUME Commit(0) PROVE made' # 0
    BY <1>a, <2>3, CommitKeeps DEF Commits
  <2> QED
    BY <1>1, <1>a, <1>b, <2>1, <2>2, <2>3 DEF BranchInv
<1>9. CASE OperatorPush
  <2>1. /\ UNCHANGED <<preFix, reviewed, cleaned, approvals, phase, head, pc>>
        /\ Commit(remote) /\ remote' = made'
    BY <1>9 DEF OperatorPush
  <2>2. made' # 0
    BY <1>a, <2>1, CommitKeeps DEF Commits
  <2> QED
    BY <1>1, <1>a, <1>b, <2>1, <2>2 DEF BranchInv
<1> QED
  BY <1>2, <1>3, <1>4, <1>5, <1>6, <1>7, <1>8, <1>9 DEF Next

\* A record is written where a verdict approved, and kept or cleared elsewhere.
LEMMA RecordStep ==
    ASSUME ReviewTypeOK, SoundInv, RecordInv, [Next]_vars
    PROVE  RecordInv'
<1> DEFINE Backed(b) == b.approval.at # None =>
                          \E a \in approvals : a.at = b.approval.at /\ (a.poc => b.approval.poc)
           Clear == [parked |-> FALSE, approval |-> NoApproval]
<1> USE DEF ReviewTypeOK, CardTypeOK, Sections, Approval
<1>a. Backed(card) /\ Backed(body)
  BY DEF RecordInv
<1>b. ASSUME approvals \subseteq approvals', body' \in Sections, card' \in Sections,
             Backed(body'), Backed(card')
      PROVE  RecordInv'
  BY <1>b DEF RecordInv
<1>c. ASSUME UNCHANGED <<card, body>>, approvals \subseteq approvals' PROVE RecordInv'
  BY <1>a, <1>c DEF RecordInv
<1>d. ASSUME NEW b, Backed(b), Write(b), approvals' = approvals PROVE RecordInv'
  BY <1>a, <1>d DEF Write, RecordInv
<1>e. Backed([body EXCEPT !.approval = NoApproval]) /\ Backed([body EXCEPT !.parked = TRUE])
      /\ Backed([card EXCEPT !.parked = FALSE])
  BY <1>a DEF NoApproval
<1>1. CASE AdoptNot \/ RoundBegins \/ OutOfTime \/ Gate \/ Panel \/ MobPanel \/ Synthesize
           \/ HumanApproves \/ HumanAdjusts \/ Promoted \/ JudgeCheap \/ JudgeStrong \/ JudgeAgain
           \/ Count \/ Refused \/ FixUnpushed \/ Reopen \/ StopsEarly \/ OperatorPush \/ Rest
           \/ UNCHANGED vars
  BY <1>c, <1>1 DEF AdoptNot, RoundBegins, OutOfTime, Gate, Panel, MobPanel, Synthesize,
              HumanApproves, HumanAdjusts, Promoted, JudgeCheap, JudgeStrong, JudgeAgain, Count,
              Refused, FixUnpushed, Reopen, StopsEarly, OperatorPush, Rest
<1>2. CASE RecordRevision \/ Presents \/ FixLands \/ FixMissing \/ Stop
  <2>1. approvals' = approvals /\ (Write(body) \/ UNCHANGED <<card, body>>)
    BY <1>2 DEF RecordRevision, Presents, FixLands, FixMissing, Stop, WriteOther
  <2> QED
    BY <1>a, <1>c, <1>d, <2>1
<1>3. CASE Begin \/ Adopt \/ CapPark \/ CleanupLands \/ CleanupMissing \/ CleanupUnpushed \/ Prove
  <2>1. /\ approvals' = approvals
        /\ \/ Write([card EXCEPT !.parked = FALSE]) \/ Write([body EXCEPT !.parked = TRUE])
           \/ Write([body EXCEPT !.approval = NoApproval]) \/ Write(body)
           \/ UNCHANGED <<card, body>> \/ (body' = card /\ UNCHANGED card)
    BY <1>3 DEF Begin, Adopt, CapPark, CleanupLands, CleanupMissing, CleanupUnpushed, Prove,
                Approved, ApprovedCorrected
  <2>2. ASSUME body' = card, UNCHANGED card PROVE RecordInv'
    BY <1>a, <2>1, <2>2 DEF RecordInv
  <2> QED
    BY <1>a, <1>c, <1>d, <1>e, <2>1, <2>2
<1>4. CASE RecordApproval
  <2> DEFINE new == [body EXCEPT !.approval = [at |-> head, poc |-> poc, worth |-> verdict = "worth"]]
  <2>1. approvals' = approvals /\ (Write(new) \/ Write(body))
    BY <1>4 DEF RecordApproval
  <2>2. Sound(head)
    BY <1>4 DEF RecordApproval, SoundInv
  <2>3. new.approval.at = head /\ new.approval.poc = poc
    OBVIOUS
  <2>4. Backed(new)
    BY <2>2, <2>3 DEF Sound
  <2> HIDE DEF new
  <2> QED
    BY <1>a, <1>d, <2>1, <2>4
<1>5. CASE Crash \/ Integrates \/ Leaves
  <2>1. approvals' = approvals /\ body' = Clear /\ UNCHANGED card
    BY <1>5 DEF Crash, Integrates, Leaves, Over
  <2> QED
    BY <1>a, <2>1 DEF RecordInv, NoApproval
<1> QED
  BY <1>1, <1>2, <1>3, <1>4, <1>5 DEF Next

\* What was sound of a commit stays so while its gate does.
LEMMA SoundKeeps ==
    ASSUME NEW c, Sound(c), gateOf'[c] = gateOf[c], poc' = poc, approvals \subseteq approvals'
    PROVE  Sound(c)'
  BY DEF Sound, Good

\* A branch at an approved commit is proven.
LEMMA SoundIsProven ==
    ASSUME Sound(head)
    PROVE  Proven
  BY DEF Sound, Good, Proven

\* Every step keeps an approval sound on its way.
LEMMA SoundStep ==
    ASSUME ReviewTypeOK, BranchInv, RecordInv, SoundInv, [Next]_vars
    PROVE  SoundInv'
<1> USE ReviewAssumption DEF ReviewTypeOK, GitTypeOK, RunTypeOK, RoundTypeOK, FixTypeOK
<1> DEFINE Away == pc' \notin {"panel", "verdict", "record", "human", "cleanup", "prove", "approved"}
<1>a. ASSUME Away PROVE SoundInv'
  BY <1>a DEF SoundInv, ApprovedIsProven
<1>b. ASSUME Sound(head)', pc' # "prove" PROVE SoundInv'
  <2>1. Good(head)' /\ Proven'
    BY <1>b, SoundIsProven, PTL DEF Sound
  <2> QED
    BY <1>b, <2>1 DEF SoundInv, ApprovedIsProven
<1>1. CASE Begin \/ AdoptNot \/ RoundBegins \/ OutOfTime \/ RecordRevision \/ HumanAdjusts
           \/ JudgeCheap \/ JudgeStrong \/ JudgeAgain \/ Count \/ Refused \/ CapPark \/ FixLands
           \/ FixMissing \/ FixUnpushed \/ Stop \/ Crash \/ Integrates \/ Leaves
           \/ Reopen \/ StopsEarly \/ Rest
  <2>1. ASSUME Begin \/ AdoptNot \/ RoundBegins \/ OutOfTime \/ RecordRevision \/ HumanAdjusts
               \/ JudgeCheap \/ JudgeStrong \/ JudgeAgain
        PROVE  Away
    BY <2>1 DEF Begin, AdoptNot, RoundBegins, OutOfTime, StopWith, RecordRevision, HumanAdjusts,
                JudgeCheap, JudgeStrong, JudgeAgain
  <2>2. ASSUME Count \/ Refused \/ CapPark \/ FixLands \/ FixMissing \/ FixUnpushed \/ Stop
        PROVE  Away
    BY <2>2 DEF Count, Refused, CapPark, FixLands, FixMissing, FixUnpushed, NextRound, Stop, StopWith
  <2>3. ASSUME Crash \/ Integrates \/ Leaves \/ Reopen \/ StopsEarly \/ Rest
        PROVE  Away
    BY <2>3 DEF Crash, Integrates, Leaves, Over, Reopen, StopsEarly, Rest
  <2>4. Away
    BY <1>1, <2>1, <2>2, <2>3
  <2> QED
    BY <1>a, <2>4
<1>2. CASE Adopt
  <2>1. /\ Record.at = head /\ head # None /\ (Record.poc => poc)
        /\ UNCHANGED <<head, poc, approvals>> /\ pc' # "prove"
        /\ \E g \in {"passed", "none"} : GateRuns(g)
    BY <1>2 DEF Adopt, Matches, Approved
  <2>2. PICK a \in approvals : a.at = head /\ (a.poc => poc)
    BY <2>1 DEF RecordInv, Record
  <2>3. Good(head)'
    BY <2>1 DEF GateRuns, Good
  <2>4. Sound(head)'
    BY <2>1, <2>2, <2>3 DEF Sound
  <2> QED
    BY <1>b, <2>1, <2>4
<1>3. CASE Gate
  <2>1. PICK g \in Gates : GateRuns(g) /\ pc' = (IF g = "failed" THEN "record" ELSE "panel")
    BY <1>3 DEF Gate
  <2>2. verdict' = "revise" /\ head' = head /\ gateOf'[head] = g
    BY <1>3, <2>1 DEF Gate, GateRuns
  <2>3. g # "failed" => Good(head)'
    BY <2>1, <2>2 DEF GateRuns, Good
  <2> QED
    BY <2>1, <2>2, <2>3 DEF SoundInv, ApprovedIsProven
<1>4. CASE Panel \/ MobPanel
  <2>1. pc = "panel" /\ pc' = "verdict" /\ UNCHANGED <<head, gateOf>>
    BY <1>4 DEF Panel, MobPanel
  <2> QED
    BY <2>1 DEF SoundInv, ApprovedIsProven, Good
<1>5. CASE Synthesize
  <2>1. /\ pc = "verdict" /\ pc' = "record" /\ UNCHANGED <<head, gateOf, poc>>
        /\ verdict' # "revise" => [at |-> head, poc |-> poc] \in approvals'
    BY <1>5 DEF Synthesize
  <2>2. verdict' # "revise" => Sound(head)'
    BY <2>1 DEF Sound, SoundInv, Good
  <2> QED
    BY <2>1, <2>2 DEF SoundInv, ApprovedIsProven
<1>6. CASE RecordApproval \/ Promoted
  <2>1. /\ verdict # "revise" => pc \in {"record", "human"}
        /\ UNCHANGED <<head, gateOf, poc, approvals>> /\ pc' # "prove"
        /\ verdict = "revise" => pc' = "count"
    BY <1>6 DEF RecordApproval, Promoted
  <2>2. CASE verdict = "revise"
    BY <1>a, <2>1, <2>2
  <2>3. CASE verdict # "revise"
    BY <1>b, <2>1, <2>3, SoundKeeps DEF SoundInv
  <2> QED
    BY <2>2, <2>3
<1>7. CASE Presents
  <2>1. pc = "record" /\ pc' = "human" /\ UNCHANGED <<head, gateOf, poc, approvals, verdict>>
    BY <1>7 DEF Presents
  <2> QED
    BY <2>1, SoundKeeps DEF SoundInv, ApprovedIsProven
<1>8. CASE HumanApproves
  BY <1>8 DEF HumanApproves, SoundInv, ApprovedIsProven
<1>9. CASE CleanupLands
  <2>1. /\ Sound(head) /\ cleaned' = head /\ head' = made' /\ preFix' \in {None, head}
        /\ UNCHANGED <<gateOf, poc, approvals>>
    BY <1>9 DEF CleanupLands, Cleans, HeadRead, SoundInv
  <2>2. Commit(head) /\ pc' = (IF HasVerify THEN "prove" ELSE "approved")
    BY <1>9 DEF CleanupLands, Approved
  <2>3. hist'[head'] = hist[head] \cup {head'} /\ hist'[head] = hist[head] /\ head < head'
    <3>1. head \in 0..made
      BY DEF BranchInv
    <3> QED
      BY <2>1, <2>2, <3>1, CommitKeeps
  <2>4. PICK a \in approvals : a.at = head /\ (a.poc => poc) /\ Good(head)
    BY <2>1 DEF Sound
  <2>5. CASE HasVerify
    <3>1. Sound(cleaned)'
      BY <2>1, <2>4 DEF Sound, Good
    <3> QED
      BY <2>1, <2>2, <2>3, <2>5, <3>1 DEF SoundInv, ApprovedIsProven
  <2>6. CASE ~HasVerify
    <3>1. Proven'
      BY <2>1, <2>3, <2>4, <2>6 DEF Proven
    <3> QED
      BY <2>2, <2>6, <3>1 DEF SoundInv, ApprovedIsProven
  <2> QED
    BY <2>5, <2>6
<1>10. CASE CleanupMissing
  <2>1. /\ Sound(head) /\ UNCHANGED <<head, gateOf, poc, approvals>> /\ pc' = "approved"
    BY <1>10 DEF CleanupMissing, Cleans, Approved, SoundInv
  <2> QED
    BY <1>b, <2>1, SoundKeeps
<1>11. CASE CleanupUnpushed
  BY <1>11 DEF CleanupUnpushed, Approved, SoundInv, ApprovedIsProven
<1>12. CASE Prove
  <2>1. /\ Sound(cleaned) /\ cleaned < head /\ preFix \in {None, cleaned}
        /\ hist[head] = hist[cleaned] \cup {head}
        /\ pc' = "approved" /\ UNCHANGED <<made, hist, poc, approvals, cleaned>>
    BY <1>12 DEF Prove, Approved, ApprovedCorrected, SoundInv
  <2>2. PICK g \in {"passed", "skipped", "failed", "none"} :
              /\ gateOf' = [gateOf EXCEPT ![head] = g]
              /\ \/ g \in {"passed", "skipped"} /\ head' = head
                 \/ preFix # None /\ head' = preFix
                 \/ why' = "kept"
    BY <1>12 DEF Prove
  <2>3. PICK a \in approvals : a.at = cleaned /\ (a.poc => poc) /\ Good(cleaned)
    BY <2>1 DEF Sound
  <2>4. gateOf'[cleaned] = gateOf[cleaned] /\ gateOf'[head] = g
    BY <2>1, <2>2
  <2>5. why' = "kept" \/ Proven'
    <3>1. CASE g \in {"passed", "skipped"} /\ head' = head
      BY <2>1, <2>3, <2>4, <3>1 DEF Proven, Good
    <3>2. CASE preFix # None /\ head' = preFix
      BY <2>1, <2>3, <2>4, <3>2 DEF Proven, Good
    <3> QED
      BY <2>2, <3>1, <3>2
  <2> QED
    BY <2>1, <2>5 DEF SoundInv, ApprovedIsProven
<1>13. CASE OperatorPush
  <2>1. UNCHANGED <<pc, head, gateOf, poc, approvals, verdict, preFix, cleaned, why>>
    BY <1>13 DEF OperatorPush
  <2>2. \A d \in 0..made : hist'[d] = hist[d]
    BY BranchKeeps
  <2>3. /\ head \in 0..made /\ cleaned \in 0..made
        /\ \A a \in approvals : a.at \in 0..made
    BY DEF BranchInv
  <2>4. ASSUME Proven PROVE Proven'
    BY <2>1, <2>2, <2>3, <2>4 DEF Proven
  <2>5. \A c : Sound(c) => Sound(c)'
    BY <2>1 DEF Sound, Good
  <2> QED
    BY <2>1, <2>2, <2>3, <2>4, <2>5 DEF SoundInv, ApprovedIsProven, Good, Sound
<1>14. CASE UNCHANGED vars
  BY <1>14 DEF SoundInv, ApprovedIsProven, Good, Sound, Proven
<1> QED
  BY <1>1, <1>2, <1>3, <1>4, <1>5, <1>6, <1>7, <1>8, <1>9, <1>10, <1>11, <1>12, <1>13, <1>14
     DEF Next

\* Every step keeps what panels were shown in step with the snapshot.
LEMMA SeenStep ==
    ASSUME ReviewTypeOK, BranchInv, SeenInv, [Next]_vars
    PROVE  SeenInv'
<1> USE ReviewAssumption DEF ReviewTypeOK, GitTypeOK, RunTypeOK, RoundTypeOK
<1>a. /\ head \in 0..made /\ reviewed \in 0..made /\ made \in Nat
      /\ \A d \in 0..made : hist'[d] = hist[d]
      /\ \A d \in 0..made : \A e \in hist[d] : e \in 1..made
      /\ pc # "idle" => head \in hist[head]
      /\ hist[None] = {} /\ hist'[None] = {}
  BY BranchKeeps DEF BranchInv
<1>b. ASSUME reviewed' = None, pc' # "verdict" PROVE SeenInv'
  BY <1>a, <1>b DEF SeenInv, NothingUnseen
<1>c. ASSUME UNCHANGED <<reviewed, covered>>, pc' \notin {"adopt", "round", "gate", "panel", "verdict", "idle"}
      PROVE  SeenInv'
  BY <1>a, <1>c DEF SeenInv, NothingUnseen
<1>1. CASE RecordApproval \/ RecordRevision \/ Presents \/ HumanApproves \/ HumanAdjusts \/ Promoted
           \/ OutOfTime \/ Synthesize \/ JudgeCheap \/ JudgeStrong \/ JudgeAgain
  BY <1>c, <1>1 DEF RecordApproval, RecordRevision, Presents, HumanApproves, HumanAdjusts, Promoted,
                    OutOfTime, StopWith, Synthesize, JudgeCheap, JudgeStrong, JudgeAgain
<1>2. CASE Count \/ Refused \/ CapPark \/ FixUnpushed \/ Stop
  BY <1>c, <1>2 DEF Count, Refused, CapPark, FixUnpushed, Stop, StopWith
<1>3. CASE CleanupLands \/ CleanupUnpushed \/ Prove
  BY <1>c, <1>3 DEF CleanupLands, CleanupUnpushed, Prove, Approved, ApprovedCorrected
<1>4. CASE CleanupMissing
  <2>1. pc' = "approved" /\ (reviewed' = None \/ UNCHANGED reviewed) /\ UNCHANGED covered
    BY <1>4 DEF CleanupMissing, Approved, Rewiden
  <2> QED
    BY <1>b, <1>c, <2>1
<1>5. CASE FixMissing
  BY <1>b, <1>5 DEF FixMissing, Rewiden, NextRound
<1>6. CASE Crash \/ Integrates \/ Leaves
  BY <1>b, <1>6 DEF Crash, Integrates, Leaves, Over
<1>7. CASE Adopt \/ AdoptNot \/ RoundBegins \/ Gate
  <2>1. /\ pc \in {"adopt", "round", "gate"}
        /\ pc' \in {"round", "gate", "panel", "record", "cleanup", "approved"}
        /\ UNCHANGED <<hist, head, reviewed, covered>>
    BY <1>7 DEF Adopt, Approved, AdoptNot, RoundBegins, Gate
  <2> QED
    BY <2>1 DEF SeenInv, NothingUnseen
<1>8. CASE Panel \/ MobPanel
  <2>1. /\ pc = "panel" /\ pc' = "verdict" /\ UNCHANGED <<hist, head>>
        /\ covered' = covered \cup scope'
        /\ scope' \in {hist[head], hist[head] \ hist[reviewed]}
        /\ reviewed' \in {head, reviewed}
    BY <1>8, <1>a DEF Panel, MobPanel, Shown
  <2>2. head \in scope' /\ hist[head] \subseteq covered'
    BY <1>a, <2>1 DEF SeenInv
  <2> QED
    BY <1>a, <2>1, <2>2 DEF SeenInv, NothingUnseen
<1>9. CASE FixLands
  <2>1. /\ Commit(head) /\ head' = made' /\ UNCHANGED <<reviewed, covered>>
        /\ pc' \in {"round", "gate"}
    BY <1>9 DEF FixLands, NextRound
  <2>2. made' = made + 1
    BY <1>a, <2>1, CommitKeeps
  <2>3. head' \notin hist'[reviewed]
    BY <1>a, <2>1, <2>2
  <2> QED
    BY <1>a, <2>1, <2>3 DEF SeenInv, NothingUnseen
<1>10. CASE Begin
  <2>1. reviewed' = None /\ pc' # "verdict"
    BY <1>10 DEF Begin, SeenInv
  <2> QED
    BY <1>b, <2>1
<1>11. CASE Reopen \/ StopsEarly \/ Rest \/ UNCHANGED vars
  BY <1>11 DEF Reopen, StopsEarly, Rest, SeenInv, NothingUnseen
<1>12. CASE OperatorPush
  <2>1. UNCHANGED <<pc, head, reviewed, covered, scope>>
    BY <1>12 DEF OperatorPush
  <2> QED
    BY <1>a, <2>1 DEF SeenInv, NothingUnseen
<1> QED
  BY <1>1, <1>2, <1>3, <1>4, <1>5, <1>6, <1>7, <1>8, <1>9, <1>10, <1>11, <1>12 DEF Next

\* Every step keeps what the last fix is measured by.
LEMMA MeasureStep ==
    ASSUME ReviewTypeOK, BranchInv, MeasureInv, [Next]_vars
    PROVE  MeasureInv'
<1> USE ReviewAssumption DEF ReviewTypeOK, GitTypeOK, RunTypeOK, RoundTypeOK, FixTypeOK
<1>a. /\ head \in 0..made /\ preFix \in 0..made /\ made \in Nat
      /\ \A d \in 0..made : hist'[d] = hist[d]
  BY BranchKeeps DEF BranchInv
<1>1. CASE Begin
  <2>1. UNCHANGED <<preFix, green>> /\ preFix = None /\ ~green
    BY <1>1 DEF Begin, MeasureInv
  <2>2. (pc' = "round" /\ mode' = "human") \/ (pc' = "adopt" /\ mode' = "auto")
    BY <1>1 DEF Begin
  <2> QED
    BY <2>1, <2>2 DEF MeasureInv
<1>2. CASE Adopt \/ AdoptNot
  <2>1. /\ pc = "adopt" /\ pc' \in {"cleanup", "approved", "round"}
        /\ UNCHANGED <<mode, green, preFix>>
    BY <1>2 DEF Adopt, Approved, AdoptNot
  <2> QED
    BY <2>1 DEF MeasureInv
<1>3. CASE RoundBegins \/ OutOfTime
  <2>1. /\ pc = "round" /\ pc' \in {"gate", "stopped"}
        /\ UNCHANGED <<hist, head, mode, green, preFix, gateOf>>
    BY <1>3 DEF RoundBegins, OutOfTime, StopWith
  <2> QED
    BY <2>1 DEF MeasureInv
<1>4. CASE Gate
  <2>1. /\ pc = "gate" /\ pc' \in {"record", "panel"} /\ gate' = gateOf'[head]
        /\ UNCHANGED <<hist, head, mode, green, preFix>>
        /\ preFix # head => gateOf'[preFix] = gateOf[preFix]
    BY <1>4 DEF Gate, GateRuns
  <2> QED
    BY <2>1 DEF MeasureInv
<1>5. CASE Panel \/ MobPanel \/ Synthesize \/ RecordRevision \/ Presents
  <2>1. /\ pc \in {"panel", "verdict", "record"} /\ pc' \in {"verdict", "record", "judge", "human"}
        /\ pc' = "judge" => mode = "auto"
        /\ pc' = "human" => mode # "auto"
        /\ UNCHANGED <<hist, head, mode, green, preFix, gate, gateOf>>
    BY <1>5 DEF Panel, MobPanel, Synthesize, RecordRevision, Presents
  <2> QED
    BY <2>1 DEF MeasureInv
<1>6. CASE RecordApproval \/ HumanApproves \/ HumanAdjusts \/ Promoted
  <2>1. /\ pc \in {"record", "human"} /\ pc' \in {"cleanup", "approved", "count"}
        /\ pc = "record" => mode' = "auto" /\ mode = "auto" /\ pc' # "count"
        /\ pc = "human" => pc' # "cleanup"
        /\ UNCHANGED <<green, preFix>>
    BY <1>6 DEF RecordApproval, HumanApproves, HumanAdjusts, Promoted
  <2> QED
    BY <2>1 DEF MeasureInv
<1>7. CASE JudgeCheap
  <2>1. /\ pc = "judge" /\ pc' = "count" /\ UNCHANGED <<hist, mode, preFix, gate, gateOf>>
    BY <1>7 DEF JudgeCheap, Discard, Undiscarded
  <2>2. green' => gateOf'[head'] = "passed"
    <3>1. CASE green /\ Discard
      BY <1>7, <2>1, <3>1 DEF Discard, MeasureInv
    <3>2. CASE UNCHANGED git /\ green' = (gate = "passed")
      BY <2>1, <3>2 DEF MeasureInv
    <3>3. ~green' \/ (green /\ Discard) \/ (UNCHANGED git /\ green' = (gate = "passed"))
      BY <1>7 DEF JudgeCheap
    <3> QED
      BY <3>1, <3>2, <3>3
  <2>3. mode = "auto"
    BY <2>1 DEF MeasureInv
  <2> QED
    BY <2>1, <2>2, <2>3 DEF MeasureInv
<1>8. CASE JudgeStrong
  <2>1. /\ pc = "judge" /\ pc' = "count" /\ UNCHANGED <<mode, head, gateOf>>
        /\ green' = (gate = "passed")
    BY <1>8 DEF JudgeStrong
  <2> QED
    BY <2>1 DEF MeasureInv
<1>9. CASE JudgeAgain
  <2>1. pc = "judge" /\ pc' = "count" /\ UNCHANGED <<mode, stage>> /\ stage = "again"
    BY <1>9 DEF JudgeAgain
  <2> QED
    BY <2>1 DEF MeasureInv
<1>10. CASE Count \/ Refused
  <2>1. /\ pc = "count" /\ pc' \in {"fix", "park"} /\ (pc' = "fix" => stage # "again")
        /\ UNCHANGED <<mode, stage, green, preFix, head, gateOf>>
    BY <1>10 DEF Count, Refused
  <2> QED
    BY <2>1 DEF MeasureInv
<1>11. CASE CapPark \/ Stop
  <2>1. pc # "idle" /\ pc' = "stopped" /\ UNCHANGED <<mode, green, preFix>>
    BY <1>11 DEF CapPark, Stop, StopWith
  <2> QED
    BY <2>1 DEF MeasureInv
<1>12. CASE FixLands
  <2>1. /\ pc = "fix" /\ pc' \in {"gate", "round"} /\ UNCHANGED <<green, gateOf>>
        /\ Commit(head) /\ head' = made' /\ mode' \in {mode, "auto"}
        /\ IF mode = "auto" THEN preFix' \in {head, None} ELSE UNCHANGED preFix
    BY <1>12 DEF FixLands, NextRound, BeforeFix, HeadRead
  <2>2. hist'[head'] = hist[head] \cup {head'} /\ hist'[head] = hist[head] /\ head < head'
    BY <1>a, <2>1, CommitKeeps
  <2>3. green => gateOf[head] = "passed"
    BY <2>1 DEF MeasureInv
  <2> QED
    BY <2>1, <2>2, <2>3 DEF MeasureInv
<1>13. CASE FixMissing
  <2>1. /\ pc = "fix" /\ pc' \in {"gate", "round"} /\ UNCHANGED <<green, head>>
        /\ mode' \in {mode, "auto"}
        /\ IF mode = "auto" THEN preFix' \in {head, None} ELSE UNCHANGED preFix
    BY <1>13 DEF FixMissing, NextRound, BeforeFix, HeadRead
  <2> QED
    BY <2>1 DEF MeasureInv
<1>14. CASE FixUnpushed
  <2>1. /\ pc = "fix" /\ pc' = "stopped" /\ UNCHANGED <<green, mode>>
        /\ mode # "auto" => UNCHANGED preFix
    BY <1>14 DEF FixUnpushed, StopWith, BeforeFix
  <2> QED
    BY <2>1 DEF MeasureInv
<1>15. CASE CleanupLands \/ CleanupMissing \/ CleanupUnpushed \/ Prove
  <2>1. /\ pc \in {"cleanup", "prove"} /\ pc' \in {"prove", "approved"} /\ UNCHANGED mode
    BY <1>15 DEF CleanupLands, CleanupMissing, CleanupUnpushed, Cleans, Prove, Approved,
                 ApprovedCorrected
  <2> QED
    BY <2>1 DEF MeasureInv
<1>16. CASE Crash \/ Integrates \/ Leaves
  <2>1. pc' = "idle" /\ mode' = "auto" /\ ~green' /\ preFix' = None
    BY <1>16 DEF Crash, Integrates, Leaves, Over
  <2> QED
    BY <2>1 DEF MeasureInv
<1>17. CASE OperatorPush
  <2>1. UNCHANGED <<pc, head, mode, stage, green, preFix, gate, gateOf>>
    BY <1>17 DEF OperatorPush
  <2> QED
    BY <1>a, <2>1 DEF MeasureInv
<1>18. CASE Reopen \/ StopsEarly \/ Rest \/ UNCHANGED vars
  BY <1>18 DEF Reopen, StopsEarly, Rest, MeasureInv
<1> QED
  BY <1>1, <1>2, <1>3, <1>4, <1>5, <1>6, <1>7, <1>8, <1>9, <1>10, <1>11, <1>12, <1>13, <1>14,
     <1>15, <1>16, <1>17, <1>18 DEF Next

BInv ==
    /\ ReviewTypeOK /\ BranchInv
    /\ RecordInv /\ SoundInv /\ SeenInv /\ MeasureInv

LEMMA BranchInvariant == Spec => []BInv
<1>1. Init => BInv
  <2> SUFFICES ASSUME Init PROVE BInv
    OBVIOUS
  <2>1. ReviewTypeOK
    BY InitInv DEF IInv
  <2>2. BranchInv
    BY ReviewAssumption DEF Init, Fresh, BranchInv
  <2>3. RecordInv /\ SoundInv /\ MeasureInv
    BY DEF Init, Fresh, RecordInv, NoApproval, SoundInv, ApprovedIsProven, MeasureInv
  <2>4. SeenInv
    BY ReviewAssumption DEF Init, Fresh, SeenInv, NothingUnseen
  <2> QED
    BY <2>1, <2>2, <2>3, <2>4 DEF BInv
<1>2. BInv /\ [Next]_vars => BInv'
  BY TypeStep, BranchStep, RecordStep, SoundStep, SeenStep, MeasureStep DEF BInv
<1> QED
  BY <1>1, <1>2, PTL DEF Spec

-----------------------------------------------------------------------------
(* What follows of the branch. *)

\* A review that ends approved hands on a branch a verdict of its bar approved
\* behind a good gate, with at most a proven cleanup on it, for every history of
\* rounds, crashes, records and pushes (runReview, tryAdoptApproval, cleanupPass,
\* verifyCleanupFixup).
THEOREM ApprovalIsProven == Spec => []ApprovedIsProven
<1>1. BInv => ApprovedIsProven
  BY DEF BInv, SoundInv
<1> QED
  BY <1>1, BranchInvariant, PTL

\* No panel is asked about nothing, and once it is asked every commit of the
\* branch has been shown, however the snapshot narrowed it (runSpecialists).
THEOREM EverythingSeen == Spec => []NothingUnseen
<1>1. BInv => NothingUnseen
  BY DEF BInv, SeenInv
<1> QED
  BY <1>1, BranchInvariant, PTL

\* Only the last fix is ever taken off the pushed branch under review, and only
\* where it turned a green tree red (discardRegressingFix).
THEOREM OneFixDiscarded == Spec => DiscardsOneFix
<1>1. ASSUME BInv, [Next]_vars, pc \notin {"idle", "approved"}, remote \notin hist'[remote']
      PROVE  /\ gateOf[remote] = "failed" /\ gateOf[remote'] = "passed"
             /\ hist[remote] = hist[remote'] \cup {remote}
  <2> USE DEF ReviewTypeOK, GitTypeOK
  <2>a. ReviewTypeOK /\ BranchInv /\ MeasureInv
    BY <1>1 DEF BInv
  <2>1. /\ remote \in hist[remote] /\ remote \in 0..made /\ head \in 0..made
        /\ hist'[remote] = hist[remote]
    BY <1>1, <2>a, BranchKeeps DEF BranchInv
  <2>2. remote' # remote
    BY <1>1, <2>1
  <2>3. CASE JudgeCheap \/ JudgeAgain
    <3>1. /\ pc = "judge" /\ gate = "failed" /\ green /\ Discard
      BY <1>1, <2>2, <2>3 DEF JudgeCheap, JudgeAgain, Undiscarded
    <3> QED
      BY <2>a, <3>1 DEF Discard, MeasureInv
  <2>4. CASE FixLands \/ CleanupLands \/ Leaves
    BY <1>1, <2>2, <2>1, <2>4 DEF FixLands, CleanupLands, Leaves, PushLands
  <2>5. CASE OperatorPush
    <3>1. Commit(remote) /\ remote' = made'
      BY <2>5 DEF OperatorPush
    <3> QED
      BY <1>1, <2>a, <2>1, <3>1, CommitKeeps
  <2>6. CASE Adopt \/ AdoptNot \/ RoundBegins \/ OutOfTime \/ Gate \/ Panel \/ MobPanel
             \/ Synthesize \/ RecordApproval \/ RecordRevision \/ Presents \/ HumanApproves
             \/ HumanAdjusts \/ Promoted \/ JudgeStrong
    BY <2>2, <2>6 DEF Adopt, AdoptNot, RoundBegins, OutOfTime, Gate, Panel, MobPanel, Synthesize,
              RecordApproval, RecordRevision, Presents, HumanApproves, HumanAdjusts, Promoted,
              JudgeStrong
  <2>7. CASE Count \/ Refused \/ CapPark \/ FixMissing \/ FixUnpushed \/ CleanupMissing
             \/ CleanupUnpushed \/ Prove \/ Stop \/ Crash \/ UNCHANGED vars
    BY <2>2, <2>7 DEF Count, Refused, CapPark, FixMissing, FixUnpushed, PushFails, CleanupMissing,
              CleanupUnpushed, Prove, Stop, Crash
  <2>8. CASE Begin \/ Integrates \/ Reopen \/ StopsEarly \/ Rest
    BY <1>1, <2>8 DEF Begin, Integrates, Reopen, StopsEarly, Rest
  <2> QED
    BY <1>1, <2>3, <2>4, <2>5, <2>6, <2>7, <2>8 DEF Next
<1> QED
  BY <1>1, BranchInvariant, PTL DEF Spec, DiscardsOneFix
=============================================================================
