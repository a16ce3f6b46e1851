----------------------------- MODULE WorkProofs ------------------------------
(* Theorems about Work, for any cards, subtasks, candidates and runs: what    *)
(* its variables hold, and what the winner of a race is.                      *)
EXTENDS Work, WellFoundedInduction, TLAPS

USE CardAssumption, PlanAssumption, ExecuteAssumption, FanoutAssumption
USE DEF vars, cm, proc, Goto, Remember, Fault

(* What else the types rest on: a planner is asked while a draft is left; a   *)
(* race has a candidate; the winner is one of those the judge may choose.     *)
Grounded ==
    /\ pc = "reconcile" \/ (pc = "enter" /\ me.next = "plan") => me.drafts = 0
    /\ pc = "plan" => me.drafts < MaxDrafts
    /\ pc = "race" => 1 \in Candidates
    /\ pc \in {"adopt", "replay"} => me.winner \in Pool

TypedInv == WorkTypeOK /\ Grounded

(* A race is only somewhere between its start and the end of its replay, and  *)
(* its candidates work on open subtasks until they are past the last of them. *)
InRace == pc \in {"race", "judge", "adopt", "replay"} \/ (pc = "enter" /\ me.next = "judge")
RaceInv ==
    /\ cands # << >> => InRace \/ pc \in {"park", "release"}
    /\ pc = "race" => \A i \in Candidates : cands[i].step \in Racing => cands[i].at \in Open
    /\ InRace => \A i \in Survivors : \A t \in Open : t <= cands[i].at

(* Where a run is at a subtask, and where it has no candidates. *)
AtSubtask == pc \in {"code", "gate", "fix", "regate", "commit", "discuss", "recheck", "push",
                     "complete", "salvage", "authority", "salvaged"}
Alone == cands = << >> /\ pc \notin {"race", "adopt", "replay"}

-----------------------------------------------------------------------------
(* The data. *)

LEMMA LaterIs ==
    /\ Later("plan") = "execute" /\ Later("execute") = "judge" /\ Later("judge") = "document"
    /\ Later("document") = "review" /\ Later("review") = "integrate"
    /\ Later("integrate") = "pr_gates" /\ Later("pr_gates") = "done"
<1>1. \A i \in 1 .. 8 : \A j \in 1 .. 8 : Phases[i] = Phases[j] => i = j
  BY DEF Phases
<1>2. ASSUME NEW i \in 1 .. 7 PROVE Later(Phases[i]) = Phases[i + 1]
  <2>1. i \in 1 .. 8
    OBVIOUS
  <2>2. (CHOOSE j \in 1 .. 8 : Phases[j] = Phases[i]) = i
    BY <1>1, <2>1
  <2> QED
    BY <2>2 DEF Later
<1>3. /\ Phases[1] = "plan" /\ Phases[2] = "execute" /\ Phases[3] = "judge"
      /\ Phases[4] = "document" /\ Phases[5] = "review" /\ Phases[6] = "integrate"
      /\ Phases[7] = "pr_gates" /\ Phases[8] = "done"
  BY DEF Phases
<1>4. /\ Later(Phases[1]) = Phases[2] /\ Later(Phases[2]) = Phases[3]
      /\ Later(Phases[3]) = Phases[4] /\ Later(Phases[4]) = Phases[5]
      /\ Later(Phases[5]) = Phases[6] /\ Later(Phases[6]) = Phases[7]
      /\ Later(Phases[7]) = Phases[8]
  BY <1>2
<1> QED
  BY <1>3, <1>4

LEMMA NamesAre ==
    PhaseNames = {"plan", "execute", "judge", "document", "review", "integrate", "pr_gates",
                  "done"}
BY DEF PhaseNames, Phases

LEMMA FirstOf ==
    ASSUME NEW S \in SUBSET Tasks, S # {}
    PROVE  \E t \in S : \A u \in S : t <= u
<1> DEFINE R == OpToRel(<, Nat)
<1>1. S \subseteq Nat
  BY DEF Tasks
<1>2. PICK m \in S : \A t \in S : ~(<<t, m>> \in R)
  <2>1. IsWellFoundedOn(R, Nat)
    BY NatLessThanWellFounded
  <2> HIDE DEF R
  <2> QED
    BY <1>1, <2>1, WFMin
<1>3. \A t \in S : ~(t < m)
  BY <1>1, <1>2 DEF OpToRel
<1> QED
  BY <1>1, <1>3

LEMMA DataTypes ==
    /\ Base \in Branches
    /\ \A b \in Branches, t \in 0 .. NTasks, g \in BOOLEAN :
          runs \in 0 .. MaxRuns => Commit(b, t, g) \in Branches
    /\ \A b \in Branches, g \in BOOLEAN :
          [b EXCEPT !.work = @ \cup {Human}, !.good = g] \in Branches
    /\ \A b \in Branches, r \in 0 .. MaxRuns, g \in BOOLEAN :
          /\ [b EXCEPT !.root = r] \in Branches
          /\ [b EXCEPT !.root = r, !.good = g] \in Branches
    /\ \A g \in BOOLEAN : Abandoned(g) \in Branches
<1> USE DEF Branches, Marks
<1>1. Base \in Branches
  BY DEF Base
<1>2. ASSUME NEW b \in Branches, NEW t \in 0 .. NTasks, NEW g \in BOOLEAN,
             runs \in 0 .. MaxRuns
      PROVE  Commit(b, t, g) \in Branches
  <2>1. [of |-> t, run |-> runs] \in Marks
    BY <1>2
  <2> QED
    BY <2>1 DEF Commit
<1>3. ASSUME NEW b \in Branches, NEW g \in BOOLEAN
      PROVE  [b EXCEPT !.work = @ \cup {Human}, !.good = g] \in Branches
  <2>1. Human \in Marks
    BY DEF Human
  <2> QED
    BY <2>1
<1>4. ASSUME NEW b \in Branches, NEW r \in 0 .. MaxRuns, NEW g \in BOOLEAN
      PROVE  /\ [b EXCEPT !.root = r] \in Branches
             /\ [b EXCEPT !.root = r, !.good = g] \in Branches
  OBVIOUS
<1>5. ASSUME NEW g \in BOOLEAN PROVE Abandoned(g) \in Branches
  BY DEF Abandoned
<1> QED
  BY <1>1, <1>2, <1>3, <1>4, <1>5

LEMMA FieldTypes ==
    ASSUME NEW m \in Memory
    PROVE  /\ Fresh \in Memory
           /\ \A w \in Endings : [m EXCEPT !.why = w] \in Memory
           /\ \A t \in 0 .. NTasks : [m EXCEPT !.at = t] \in Memory
           /\ \A p \in PhaseNames : [m EXCEPT !.next = p] \in Memory
           /\ \A b \in Branches \cup {None} : [m EXCEPT !.tip = b] \in Memory
           /\ \A v \in BOOLEAN : [m EXCEPT !.verified = v] \in Memory
           /\ \A v \in BOOLEAN : [m EXCEPT !.revising = v] \in Memory
           /\ [m EXCEPT !.pushed = TRUE] \in Memory
           /\ m.picks < ReselectCap => [m EXCEPT !.picks = @ + 1] \in Memory
           /\ \A b \in Branches \cup {None} : [m EXCEPT !.before = b] \in Memory
           /\ [m EXCEPT !.tool = None] \in Memory
           /\ \A t \in Tasks : [m EXCEPT !.once = @ \cup {t}] \in Memory
           /\ \A i \in 1 .. Best : [m EXCEPT !.winner = i] \in Memory
           /\ \A b \in Branches, d \in {"none", "good", "bad"} :
                 [m EXCEPT !.tool = [head |-> b, tree |-> d]] \in Memory
           /\ \A p \in SUBSET Tasks : [m EXCEPT !.plan = p] \in Memory
           /\ m.drafts < MaxDrafts => [m EXCEPT !.drafts = @ + 1] \in Memory
           /\ \A b \in Branches \cup {None} : [m EXCEPT !.preFix = b] \in Memory
<1> USE DEF Memory
<1>1. Fresh \in Memory
  BY NamesAre DEF Fresh, Endings
<1>2. ASSUME NEW w \in Endings
      PROVE  [m EXCEPT !.why = w] \in Memory
  OBVIOUS
<1>3. ASSUME NEW t \in 0 .. NTasks
      PROVE  [m EXCEPT !.at = t] \in Memory
  OBVIOUS
<1>4. ASSUME NEW p \in PhaseNames
      PROVE  [m EXCEPT !.next = p] \in Memory
  OBVIOUS
<1>5. ASSUME NEW b \in Branches \cup {None}
      PROVE  [m EXCEPT !.tip = b] \in Memory
  OBVIOUS
<1>6. ASSUME NEW v \in BOOLEAN
      PROVE  [m EXCEPT !.verified = v] \in Memory
  OBVIOUS
<1>7. ASSUME NEW v \in BOOLEAN
      PROVE  [m EXCEPT !.revising = v] \in Memory
  OBVIOUS
<1>8. [m EXCEPT !.pushed = TRUE] \in Memory
  OBVIOUS
<1>9. ASSUME m.picks < ReselectCap
      PROVE  [m EXCEPT !.picks = @ + 1] \in Memory
  <2>1. m.picks + 1 \in 0 .. ReselectCap
    BY <1>9
  <2> QED
    BY <2>1
<1>10. ASSUME NEW b \in Branches \cup {None}
      PROVE  [m EXCEPT !.before = b] \in Memory
  OBVIOUS
<1>11. [m EXCEPT !.tool = None] \in Memory
  OBVIOUS
<1>12. ASSUME NEW t \in Tasks
      PROVE  [m EXCEPT !.once = @ \cup {t}] \in Memory
  OBVIOUS
<1>13. ASSUME NEW i \in 1 .. Best
      PROVE  [m EXCEPT !.winner = i] \in Memory
  OBVIOUS
<1>14. ASSUME NEW b \in Branches, NEW d \in {"none", "good", "bad"}
      PROVE  [m EXCEPT !.tool = [head |-> b, tree |-> d]] \in Memory
  BY DEF Identities
<1>15. ASSUME NEW p \in SUBSET Tasks
      PROVE  [m EXCEPT !.plan = p] \in Memory
  OBVIOUS
<1>16. ASSUME m.drafts < MaxDrafts
      PROVE  [m EXCEPT !.drafts = @ + 1] \in Memory
  <2>1. m.drafts + 1 \in 0 .. MaxDrafts
    BY <1>16
  <2> QED
    BY <2>1
<1>17. ASSUME NEW b \in Branches \cup {None}
      PROVE  [m EXCEPT !.preFix = b] \in Memory
  OBVIOUS
<1> QED
  BY <1>1, <1>2, <1>3, <1>4, <1>5, <1>6, <1>7, <1>8, <1>9, <1>10, <1>11, <1>12, <1>13, <1>14,
     <1>15, <1>16, <1>17

\* The fields a step reads of the memory.
LEMMA MemoryHas ==
    ASSUME NEW m \in Memory
    PROVE  /\ m.at \in 0 .. NTasks /\ m.next \in PhaseNames /\ m.plan \subseteq Tasks
           /\ m.tip \in Branches \cup {None} /\ m.before \in Branches \cup {None}
           /\ m.picks \in 0 .. ReselectCap /\ m.drafts \in 0 .. MaxDrafts
           /\ m.known \in 0 .. 1 /\ m.winner \in 0 .. Best /\ m.once \subseteq Tasks
           /\ m.preFix \in Branches \cup {None} /\ m.why \in Endings
BY DEF Memory

LEMMA MemoryTypes ==
    ASSUME NEW m \in Memory
    PROVE  /\ \A p \in PhaseNames : [m EXCEPT !.next = p, !.at = 0] \in Memory
           /\ \A t \in Tasks : [m EXCEPT !.at = t] \in Memory
           /\ \A v \in BOOLEAN : [m EXCEPT !.revising = FALSE, !.verified = v] \in Memory
           /\ [m EXCEPT !.pushed = TRUE, !.verified = TRUE] \in Memory
           /\ [m EXCEPT !.pushed = TRUE, !.at = 0] \in Memory
           /\ [m EXCEPT !.pushed = TRUE, !.next = "review", !.at = 0] \in Memory
           /\ [m EXCEPT !.at = 0, !.before = None, !.tool = None] \in Memory
           /\ \A t \in Tasks, b \in Branches \cup {None} :
                 [m EXCEPT !.at = t, !.before = b, !.tool = None, !.verified = FALSE] \in Memory
           /\ \A p \in SUBSET Tasks :
                 m.drafts < MaxDrafts => [m EXCEPT !.plan = p, !.drafts = @ + 1] \in Memory
<1>1. 0 \in 0 .. NTasks /\ \A t \in Tasks : t \in 0 .. NTasks
  BY DEF Tasks
<1>2. ASSUME NEW n \in Memory PROVE [n EXCEPT !.at = 0] \in Memory
  BY <1>1, FieldTypes
<1>3. ASSUME NEW p \in PhaseNames
      PROVE  [m EXCEPT !.next = p, !.at = 0] \in Memory
  <2> DEFINE n1 == [m EXCEPT !.next = p]
  <2>1. n1 \in Memory
    BY FieldTypes, <1>1
  <2>2. [n1 EXCEPT !.at = 0] \in Memory
    BY FieldTypes, <1>2, <2>1
  <2> QED
    BY <2>2
<1>4. ASSUME NEW t \in Tasks
      PROVE  [m EXCEPT !.at = t] \in Memory
  BY <1>1, FieldTypes
<1>5. ASSUME NEW v \in BOOLEAN
      PROVE  [m EXCEPT !.revising = FALSE, !.verified = v] \in Memory
  <2> DEFINE n1 == [m EXCEPT !.revising = FALSE]
  <2>1. n1 \in Memory
    BY FieldTypes, <1>1
  <2>2. [n1 EXCEPT !.verified = v] \in Memory
    BY FieldTypes, <1>2, <2>1
  <2> QED
    BY <2>2
<1>6. [m EXCEPT !.pushed = TRUE, !.verified = TRUE] \in Memory
  <2> DEFINE n1 == [m EXCEPT !.pushed = TRUE]
  <2>1. n1 \in Memory
    BY FieldTypes, <1>1
  <2>2. [n1 EXCEPT !.verified = TRUE] \in Memory
    BY FieldTypes, <1>2, <2>1
  <2> QED
    BY <2>2
<1>7. [m EXCEPT !.pushed = TRUE, !.at = 0] \in Memory
  <2> DEFINE n1 == [m EXCEPT !.pushed = TRUE]
  <2>1. n1 \in Memory
    BY FieldTypes, <1>1
  <2>2. [n1 EXCEPT !.at = 0] \in Memory
    BY FieldTypes, <1>2, <2>1
  <2> QED
    BY <2>2
<1>8. [m EXCEPT !.pushed = TRUE, !.next = "review", !.at = 0] \in Memory
  <2> DEFINE n1 == [m EXCEPT !.pushed = TRUE]
             n2 == [n1 EXCEPT !.next = "review"]
  <2>1. n1 \in Memory
    BY FieldTypes, <1>1
  <2>2. n2 \in Memory
    BY FieldTypes, NamesAre, <1>1, <2>1
  <2>3. [n2 EXCEPT !.at = 0] \in Memory
    BY FieldTypes, <1>2, <2>2
  <2> QED
    BY <2>3
<1>9. [m EXCEPT !.at = 0, !.before = None, !.tool = None] \in Memory
  <2> DEFINE n1 == [m EXCEPT !.at = 0]
             n2 == [n1 EXCEPT !.before = None]
  <2>1. n1 \in Memory
    BY FieldTypes, <1>1
  <2>2. n2 \in Memory
    BY FieldTypes, <1>1, <2>1
  <2>3. [n2 EXCEPT !.tool = None] \in Memory
    BY FieldTypes, <1>2, <2>2
  <2> QED
    BY <2>3
<1>10. ASSUME NEW t \in Tasks, NEW b \in Branches \cup {None}
      PROVE  [m EXCEPT !.at = t, !.before = b, !.tool = None, !.verified = FALSE] \in Memory
  <2> DEFINE n1 == [m EXCEPT !.at = t]
             n2 == [n1 EXCEPT !.before = b]
             n3 == [n2 EXCEPT !.tool = None]
  <2>1. n1 \in Memory
    BY FieldTypes, <1>1
  <2>2. n2 \in Memory
    BY FieldTypes, <1>1, <2>1
  <2>3. n3 \in Memory
    BY FieldTypes, <1>1, <2>2
  <2>4. [n3 EXCEPT !.verified = FALSE] \in Memory
    BY FieldTypes, <1>2, <2>3
  <2> QED
    BY <2>4
<1>11. ASSUME NEW p \in SUBSET Tasks, m.drafts < MaxDrafts
      PROVE  [m EXCEPT !.plan = p, !.drafts = @ + 1] \in Memory
  <2> DEFINE n1 == [m EXCEPT !.drafts = @ + 1]
  <2>1. n1 \in Memory
    BY FieldTypes, <1>1, <1>11
  <2>2. [n1 EXCEPT !.plan = p] \in Memory
    BY FieldTypes, <1>2, <2>1
  <2>3. [m EXCEPT !.plan = p, !.drafts = @ + 1] = [n1 EXCEPT !.plan = p]
    BY DEF Memory
  <2> QED
    BY <2>2, <2>3
<1> QED
  BY <1>3, <1>4, <1>5, <1>6, <1>7, <1>8, <1>9, <1>10, <1>11

-----------------------------------------------------------------------------
(* Type correctness.  What a run does on its way out, or on to the next       *)
(* phase, is told once. *)

LEMMA ExitTypes ==
    ASSUME me \in Memory, NEW why \in Endings, Exit(why)
    PROVE  me' \in Memory /\ pc' = "park"
BY FieldTypes DEF Exit

LEMMA AbortTypes ==
    ASSUME WorkTypeOK, NEW why \in Endings, Abort(why)
    PROVE  /\ me' \in Memory /\ pc' = "park" /\ sub' = sub /\ held' \subseteq Tasks
           /\ start' \in [Tasks -> Branches \cup {None}]
<1>1. me' \in Memory /\ pc' = "park" /\ sub' = sub
  BY ExitTypes DEF Abort, WorkTypeOK
<1>2. held' \subseteq Tasks
  BY DEF Abort, WorkTypeOK, BoardTypeOK
<1>3. start' \in [Tasks -> Branches \cup {None}]
  BY MemoryHas DEF Abort, WorkTypeOK, BoardTypeOK
<1> QED
  BY <1>1, <1>2, <1>3

LEMMA ProceedTypes ==
    ASSUME me \in Memory,
           NEW p \in {"plan", "execute", "judge", "document", "review", "integrate", "pr_gates"},
           Proceed(p)
    PROVE  /\ me' \in Memory /\ pc' = "enter" /\ me'.next = Later(p)
<1>1. Later(p) \in PhaseNames
  BY LaterIs, NamesAre
<1>2. me' = [me EXCEPT !.next = Later(p), !.at = 0]
  BY DEF Proceed
<1>3. me' \in Memory
  BY <1>1, <1>2, MemoryTypes
<1>4. me'.next = Later(p)
  BY <1>2 DEF Memory
<1> QED
  BY <1>3, <1>4 DEF Proceed

LEMMA IdleTypes ==
    ASSUME Idle
    PROVE  /\ pc' = "idle" /\ local' = Base /\ local' \in Branches /\ dirty' = "none"
           /\ me' = Fresh /\ me' \in Memory /\ cands' = << >> /\ RaceTypeOK'
<1>1. local' \in Branches
  BY DataTypes DEF Idle
<1>2. Fresh \in Memory
  BY NamesAre DEF Fresh, Memory, Endings
<1>3. RaceTypeOK'
  BY DEF Idle, RaceTypeOK, Candidates
<1> QED
  BY <1>1, <1>2, <1>3 DEF Idle

\* The first of the open subtasks, of those to create, of those to replay.
LEMMA NextTasks ==
    ASSUME me \in Memory
    PROVE  /\ Open \subseteq Tasks
           /\ Open # {} => NextTask \in Open /\ \A u \in Open : NextTask <= u
<1>1. Open \subseteq Tasks
  BY MemoryHas DEF Open
<1>2. ASSUME Open # {} PROVE NextTask \in Open /\ \A u \in Open : NextTask <= u
  BY <1>1, <1>2, FirstOf DEF NextTask
<1> QED
  BY <1>1, <1>2

LEMMA ReplayTypes ==
    ASSUME me \in Memory, ToReplay # {}
    PROVE  /\ (CHOOSE t \in ToReplay : \A u \in ToReplay : t <= u) \in ToReplay
           /\ \A v \in ToReplay : (CHOOSE t \in ToReplay : \A u \in ToReplay : t <= u) <= v
           /\ ToReplay \subseteq Tasks
<1>1. ToReplay \in SUBSET Tasks
  BY NextTasks DEF ToReplay
<1>2. \E t \in ToReplay : \A u \in ToReplay : t <= u
  <2> HIDE DEF ToReplay
  <2> QED
    BY <1>1, FirstOf
<1> QED
  BY <1>1, <1>2

LEMMA CreateTypes ==
    ASSUME me \in Memory, ToCreate # {}
    PROVE  (CHOOSE t \in ToCreate : \A u \in ToCreate : t <= u) \in Tasks
<1>1. ToCreate \in SUBSET Tasks
  BY MemoryHas DEF ToCreate
<1>2. \E t \in ToCreate : \A u \in ToCreate : t <= u
  BY <1>1, FirstOf
<1> QED
  BY <1>1, <1>2

LEMMA BoardStep == TypedInv /\ [Next]_vars => BoardTypeOK'
<1> SUFFICES ASSUME TypedInv, [Next]_vars PROVE BoardTypeOK'
  OBVIOUS
<1> USE DEF TypedInv, WorkTypeOK, BoardTypeOK
<1>1. CASE UNCHANGED <<tc, cm>>
  BY <1>1
<1>2. CASE Boot
  BY <1>2, MemoryHas, NamesAre
     DEF Boot, Recovered
<1>3. CASE Enter
  BY <1>3, MemoryHas
     DEF Enter, Late, Resumed
<1>4. CASE Park \/ Release \/ Sweep
  BY <1>4
     DEF Park, Saved, Release, Idle, Sweep
<1>5. CASE StartReview \/ GatesPass \/ Done \/ Parks
  BY <1>5
     DEF StartReview, Rests, Tree, GatesPass, Proceed, Done, Idle, Parks, ParkedForPeople
<1>6. CASE Split \/ Note
  BY <1>6
     DEF Split, Stays, Note, Exit
<1>7. CASE CreateSubtask
  BY <1>7
     DEF CreateSubtask, ToCreate
<1>8. CASE Claim
  BY <1>8, NextTasks
     DEF Claim, Solo, Open, Kept, Tree, History
<1>9. CASE CoderFails
  BY <1>9, AbortTypes
     DEF CoderFails, NoCoder, Kept, Board, Tree, History, Endings
<1>10. CASE Gate
  BY <1>10, AbortTypes
     DEF Gate, Kept, Board, Tree, History, Endings
<1>11. CASE Fix
  BY <1>11, AbortTypes
     DEF Fix, Kept, Board, History, Endings
<1>12. CASE Regate
  BY <1>12, AbortTypes
     DEF Regate, Kept, Board, Tree, History, Endings
<1>13. CASE CommitNothing
  BY <1>13, AbortTypes
     DEF CommitNothing, Kept, Board, Tree, History, Endings
<1>14. CASE CommitFails
  BY <1>14, AbortTypes
     DEF CommitFails, Kept, Tree, History, Endings
<1>15. CASE PushFails
  BY <1>15, AbortTypes
     DEF PushFails, Kept, Tree, History, Endings
<1>16. CASE CompleteFails
  BY <1>16, AbortTypes
     DEF CompleteFails, Kept, Tree, History, Endings
<1>17. CASE SalvageNothing
  BY <1>17, AbortTypes
     DEF SalvageNothing, Kept, Tree, History, Endings
<1>18. CASE Authority
  BY <1>18, AbortTypes
     DEF Authority, Kept, Board, History, Endings
<1>19. CASE StoppedAtWork
  BY <1>19, AbortTypes
     DEF StoppedAtWork, Kept, Tree, History, Endings
<1>20. CASE Complete
  BY <1>20, MemoryHas
     DEF Complete, Kept, Tree, Terminal
<1>21. CASE Salvaged
  BY <1>21, MemoryHas, AbortTypes
     DEF Salvaged, Kept, Tree, Terminal, Endings
<1>22. CASE Join \/ RaceStopped \/ NobodyToJudge
  BY <1>22
     DEF Join, Returned, Proceed, Exit, RaceStopped, Leaves, NobodyToJudge, Judging
<1>23. CASE Replay
  BY <1>23, ReplayTypes
     DEF Replay, ToReplay, Open, Terminal
<1>24. ASSUME NEW t \in Tasks, Cancel(t)
      PROVE  BoardTypeOK'
  BY <1>24
     DEF Cancel, Terminal
<1>25. ASSUME NEW i \in Candidates, CandidateClaims(i)
      PROVE  BoardTypeOK'
  BY <1>25
     DEF CandidateClaims, Steps, RaceTypeOK, Cand, Candidates
<1>26. CASE BootFails \/ ReconcileFresh \/ ReconcileResume \/ ReconcileFails
         \/ EnterFails \/ ReenterReview
         \/ Crash \/ HumanPushes \/ Draft \/ Diagnose(ReselectCap) \/ DraftFails
  BY <1>1, <1>26
     DEF BootFails, ReconcileFresh, ReconcileResume, Adopted, ReconcileFails, Exit,
         EnterFails, ReenterReview, Crash, Idle, HumanPushes, Draft, Drafted, Plans,
         MobDrafts, SoloDrafts,
         Stays, Diagnose, DraftFails
<1>27. CASE Approve \/ Adjust \/ ApproveFails \/ NoSplit \/ SplitFails \/ CreateFails
         \/ Planned \/ ClaimFails \/ Executed \/ Writes
  BY <1>1, <1>27
     DEF Approve, Stays, Adjust, Reply, Exit, ApproveFails, NoSplit, SplitFails,
         CreateFails, Planned, Proceed, ClaimFails, Solo, Kept, Board, Tree, History,
         Executed, Writes
<1>28. CASE Measures \/ CommitsItself \/ Finishes \/ Reselects \/ CommitWork \/ Discuss
         \/ ReviseFails \/ Recheck \/ Push \/ Salvage
  BY <1>1, <1>28
     DEF Measures, Identity, Kept, Board, Tree, History, CommitsItself, Finishes, Reselects,
         CommitWork, Discuss, ReviseFails, Discarded, Checked, Recheck, Revised, Push,
         Salvage
<1>29. CASE Race \/ RaceFails \/ RaceSkipped \/ NothingToJudge \/ JudgeVerifies
         \/ JudgeChooses \/ JudgeFails \/ Adopt \/ AdoptFails \/ Replayed
  BY <1>1, <1>29
     DEF Race, RaceFails, Exit, RaceSkipped, Proceed, NothingToJudge, JudgeVerifies, Steps,
         JudgeChooses, Judging, JudgeFails, Leaves, Adopt, AdoptFails, Replayed
<1>30. CASE Document \/ DocumentBroke \/ DocumentPushes \/ StartReviewFails \/ Fixes
         \/ Discards \/ Approved \/ PhaseFails \/ ReadsTip \/ Rebase
  BY <1>1, <1>30
     DEF Document, Undone, Proceed, Rests, DocumentBroke, Exit, Tree, DocumentPushes,
         StartReviewFails, Fixes, Discards, Approved, PhaseFails, ReadsTip, Rebase, Rebased,
         SquashedOnConflict
<1>31. CASE IntegrateFails \/ LeasePush \/ LeaseFails \/ OpensPull \/ Stopped
  BY <1>1, <1>31
     DEF IntegrateFails, Exit, Rests, Tree, LeasePush, LeaseFails, OpensPull, Proceed,
         Stopped
<1>32. ASSUME NEW i \in Candidates, CandidateBroke(i)
      PROVE  BoardTypeOK'
  BY <1>1, <1>32
     DEF CandidateBroke, Drops, Steps
<1>33. ASSUME NEW i \in Candidates, CandidateWorks(i)
      PROVE  BoardTypeOK'
  BY <1>1, <1>33
     DEF CandidateWorks, Passed, Rest, Steps
<1>34. ASSUME NEW i \in Candidates, CandidateCapped(i)
      PROVE  BoardTypeOK'
  BY <1>1, <1>34
     DEF CandidateCapped, CapSaves, Drops, Steps
<1>35. ASSUME NEW i \in Candidates, CandidateReselects(i)
      PROVE  BoardTypeOK'
  BY <1>1, <1>35
     DEF CandidateReselects, Drops, Steps
<1> QED
  BY <1>1, <1>2, <1>3, <1>4, <1>5, <1>6, <1>7, <1>8, <1>9, <1>10, <1>11, <1>12, <1>13,
     <1>14, <1>15, <1>16, <1>17, <1>18, <1>19, <1>20, <1>21, <1>22, <1>23, <1>24, <1>25,
     <1>26, <1>27, <1>28, <1>29, <1>30, <1>31, <1>32, <1>33, <1>34, <1>35
     DEF Next, RunNext, PlanNext, ExecuteNext, FanoutNext

LEMMA TreeStep == TypedInv /\ [Next]_vars => TreeTypeOK'
<1> SUFFICES ASSUME TypedInv, [Next]_vars PROVE TreeTypeOK'
  OBVIOUS
<1> USE DEF TypedInv, WorkTypeOK, TreeTypeOK
<1>1. CASE UNCHANGED <<remote, runs, local, dirty>>
  BY <1>1
<1>2. CASE Boot \/ BootFails
  BY <1>2
     DEF Boot, Recovered, BootFails, BoardTypeOK, CardSpecs
<1>3. CASE ReconcileResume \/ Writes \/ Fix
  BY <1>3
     DEF ReconcileResume, Adopted, Writes, Kept, Board, History, Fix
<1>4. CASE Push \/ Authority \/ LeasePush
  BY <1>4
     DEF Push, Kept, Board, History, Authority, LeasePush, Rests
<1>5. CASE ReviseFails
  BY <1>5
     DEF ReviseFails, Discarded, Checked, Kept, Board, History
<1>6. CASE Park
  <2>1. me.at \in 0 .. NTasks /\ (dirty = "good") \in BOOLEAN
    BY MemoryHas
  <2>2. Commit(local, me.at, dirty = "good") \in Branches
    BY <2>1, DataTypes
  <2>3. Saved \in Branches
    BY <2>2 DEF Saved
  <2> QED
    BY <1>6, <2>3 DEF Park
<1>7. CASE Release \/ Crash \/ Parks \/ Done
  BY <1>7, IdleTypes
     DEF Release, Idle, Crash, Parks, ParkedForPeople, Done
<1>8. CASE HumanPushes
  <2>1. PICK g \in BOOLEAN : remote' = [remote EXCEPT !.work = @ \cup {Human}, !.good = g]
    BY <1>8 DEF HumanPushes
  <2>2. remote \in Branches
    BY <1>8 DEF HumanPushes
  <2>3. remote' \in Branches
    BY <2>1, <2>2, DataTypes
  <2> QED
    BY <1>8, <2>3 DEF HumanPushes
<1>9. CASE CommitsItself
  <2>1. me.at \in 0 .. NTasks /\ (dirty = "good") \in BOOLEAN
    BY MemoryHas
  <2>2. \E g \in BOOLEAN : local' = Commit(local, me.at, g)
    BY <1>9, <2>1 DEF CommitsItself
  <2>3. \A g \in BOOLEAN : Commit(local, me.at, g) \in Branches
    BY <2>1, DataTypes
  <2>4. local' \in Branches
    BY <2>2, <2>3
  <2> QED
    BY <1>9, <2>4 DEF CommitsItself, Kept, Board
<1>10. CASE CommitWork
  BY <1>10, DataTypes, MemoryHas
     DEF CommitWork, Kept, Board
<1>11. CASE Salvage
  BY <1>11, DataTypes, MemoryHas
     DEF Salvage, Kept, Board, History
<1>12. CASE Recheck
  <2>1. me.at \in 0 .. NTasks
    BY MemoryHas
  <2>2. Commit(local, me.at, dirty = "good") \in Branches
    BY <2>1, DataTypes
  <2>3. local' \in Branches /\ dirty' \in {"none", "good", "bad"}
    BY <1>12, <2>2 DEF Recheck, Discarded, Checked, Revised
  <2> QED
    BY <1>12, <2>3 DEF Recheck, Kept
<1>13. CASE Adopt \/ AdoptFails
  BY <1>13
     DEF Adopt, AdoptFails, Leaves, Exit, Grounded, Pool, Survivors, Verifying, Uncapped,
         RaceTypeOK, Cand
<1>14. CASE Document
  <2>1. \A g \in BOOLEAN : Commit(local, 0, g) \in Branches
    <3>1. 0 \in 0 .. NTasks
      OBVIOUS
    <3> QED
      BY <3>1, DataTypes
  <2>2. local' \in Branches
    BY <1>14, <2>1 DEF Document
  <2>3. dirty' \in {"none", "good", "bad"}
    BY <1>14 DEF Document, Undone
  <2> QED
    BY <1>14, <2>2, <2>3 DEF Document, Rests
<1>15. CASE DocumentPushes
  BY <1>15
     DEF DocumentPushes, Rests
<1>16. CASE Fixes
  <2>1. \A g \in BOOLEAN : Commit(local, 0, g) \in Branches
    <3>1. 0 \in 0 .. NTasks
      OBVIOUS
    <3> QED
      BY <3>1, DataTypes
  <2>2. local' \in Branches
    BY <1>16, <2>1 DEF Fixes
  <2> QED
    BY <1>16, <2>2 DEF Fixes, Rests
<1>17. CASE Discards
  BY <1>17, MemoryHas
     DEF Discards, Rests
<1>18. CASE Rebase
  <2>1. \A g \in BOOLEAN : /\ [local EXCEPT !.root = runs] \in Branches
                           /\ [local EXCEPT !.root = runs, !.good = g] \in Branches
    BY DataTypes
  <2>2. TreeIsGood \in BOOLEAN
    BY DEF TreeIsGood, Branches
  <2>3. local' \in Branches
    BY <1>18, <2>1, <2>2 DEF Rebase, Rebased, SquashedOnConflict
  <2>4. dirty' \in {"none", "good", "bad"}
    BY <1>18 DEF Rebase, Rebased, SquashedOnConflict
  <2> QED
    BY <1>18, <2>3, <2>4 DEF Rebase, Rests
<1>19. CASE ReconcileFresh \/ ReconcileFails \/ Enter \/ EnterFails \/ ReenterReview
         \/ Sweep \/ Draft
         \/ Diagnose(ReselectCap) \/ DraftFails \/ Approve \/ Adjust
  BY <1>1, <1>19
     DEF ReconcileFresh, ReconcileFails, Exit, Enter, Late, Resumed, EnterFails,
         ReenterReview, Sweep,
         Draft, Drafted, Plans, MobDrafts, SoloDrafts, Stays, Diagnose, DraftFails, Approve,
         Adjust, Reply
<1>20. CASE ApproveFails \/ Split \/ NoSplit \/ SplitFails \/ Note \/ CreateSubtask
         \/ CreateFails \/ Planned \/ Claim \/ ClaimFails
  BY <1>1, <1>20
     DEF ApproveFails, Exit, Stays, Split, NoSplit, SplitFails, Note, CreateSubtask,
         ToCreate, CreateFails, Planned, Proceed, Claim, Solo, Open, Kept, Tree, History,
         ClaimFails, Board
<1>21. CASE Executed \/ Measures \/ Finishes \/ Reselects \/ CoderFails \/ Gate \/ Regate
         \/ CommitNothing \/ CommitFails \/ Discuss
  BY <1>1, <1>21
     DEF Executed, Solo, Proceed, Kept, Board, Tree, History, Measures, Identity, Finishes,
         Reselects, CoderFails, NoCoder, Gate, Regate, CommitNothing, CommitFails, Discuss
<1>22. CASE PushFails \/ Complete \/ CompleteFails \/ SalvageNothing \/ Salvaged
         \/ StoppedAtWork \/ Race \/ RaceFails \/ RaceSkipped \/ Join
  BY <1>1, <1>22
     DEF PushFails, Kept, Tree, History, Complete, CompleteFails, SalvageNothing, Salvaged,
         StoppedAtWork, Race, RaceFails, Exit, RaceSkipped, Proceed, Join, Returned
<1>23. CASE RaceStopped \/ NothingToJudge \/ JudgeVerifies \/ NobodyToJudge
         \/ JudgeChooses \/ JudgeFails \/ Replay \/ Replayed \/ DocumentBroke
         \/ StartReview
  BY <1>1, <1>23
     DEF RaceStopped, Returned, Exit, NothingToJudge, Proceed, JudgeVerifies, Steps,
         NobodyToJudge, Judging, JudgeChooses, JudgeFails, Leaves, Replay, ToReplay, Open,
         Replayed, DocumentBroke, Rests, Tree, StartReview
<1>24. CASE StartReviewFails \/ Approved \/ PhaseFails \/ ReadsTip \/ IntegrateFails
         \/ LeaseFails \/ OpensPull \/ GatesPass \/ Stopped
  BY <1>1, <1>24
     DEF StartReviewFails, Exit, Rests, Tree, Approved, Proceed, PhaseFails, ReadsTip,
         IntegrateFails, LeaseFails, OpensPull, GatesPass, Stopped
<1>25. ASSUME NEW t \in Tasks, Cancel(t)
      PROVE  TreeTypeOK'
  BY <1>1, <1>25
     DEF Cancel
<1>26. ASSUME NEW i \in Candidates, CandidateClaims(i)
      PROVE  TreeTypeOK'
  BY <1>1, <1>26
     DEF CandidateClaims, Steps
<1>27. ASSUME NEW i \in Candidates, CandidateBroke(i)
      PROVE  TreeTypeOK'
  BY <1>1, <1>27
     DEF CandidateBroke, Drops, Steps
<1>28. ASSUME NEW i \in Candidates, CandidateWorks(i)
      PROVE  TreeTypeOK'
  BY <1>1, <1>28
     DEF CandidateWorks, Passed, Rest, Steps
<1>29. ASSUME NEW i \in Candidates, CandidateCapped(i)
      PROVE  TreeTypeOK'
  BY <1>1, <1>29
     DEF CandidateCapped, CapSaves, Drops, Steps
<1>30. ASSUME NEW i \in Candidates, CandidateReselects(i)
      PROVE  TreeTypeOK'
  BY <1>1, <1>30
     DEF CandidateReselects, Drops, Steps
<1> QED
  BY <1>1, <1>2, <1>3, <1>4, <1>5, <1>6, <1>7, <1>8, <1>9, <1>10, <1>11, <1>12, <1>13,
     <1>14, <1>15, <1>16, <1>17, <1>18, <1>19, <1>20, <1>21, <1>22, <1>23, <1>24, <1>25,
     <1>26, <1>27, <1>28, <1>29, <1>30
     DEF Next, RunNext, PlanNext, ExecuteNext, FanoutNext

LEMMA PlaceStep == TypedInv /\ [Next]_vars => pc' \in Places
<1> SUFFICES ASSUME TypedInv, [Next]_vars PROVE pc' \in Places
  OBVIOUS
<1> USE NamesAre DEF TypedInv, WorkTypeOK, Places
<1>1. CASE UNCHANGED pc
  BY <1>1
<1>2. CASE Enter
  BY <1>2, MemoryHas
     DEF Enter, Late, Resumed
<1>3. CASE CoderFails
  BY <1>3, AbortTypes
     DEF CoderFails, NoCoder, Kept, Board, Tree, History, Endings
<1>4. CASE Gate
  BY <1>4, AbortTypes
     DEF Gate, Kept, Board, Tree, History, Endings
<1>5. CASE Fix
  BY <1>5, AbortTypes
     DEF Fix, Kept, Board, History, Endings
<1>6. CASE Regate
  BY <1>6, AbortTypes
     DEF Regate, Kept, Board, Tree, History, Endings
<1>7. CASE CommitNothing
  BY <1>7, AbortTypes
     DEF CommitNothing, Kept, Board, Tree, History, Endings
<1>8. CASE CommitFails
  BY <1>8, AbortTypes
     DEF CommitFails, Kept, Tree, History, Endings
<1>9. CASE PushFails
  BY <1>9, AbortTypes
     DEF PushFails, Kept, Tree, History, Endings
<1>10. CASE CompleteFails
  BY <1>10, AbortTypes
     DEF CompleteFails, Kept, Tree, History, Endings
<1>11. CASE SalvageNothing
  BY <1>11, AbortTypes
     DEF SalvageNothing, Kept, Tree, History, Endings
<1>12. CASE Authority
  BY <1>12, AbortTypes
     DEF Authority, Kept, Board, History, Endings
<1>13. CASE StoppedAtWork
  BY <1>13, AbortTypes
     DEF StoppedAtWork, Kept, Tree, History, Endings
<1>14. CASE Salvaged
  BY <1>14, AbortTypes
     DEF Salvaged, Kept, Tree, Endings
<1>15. CASE Boot \/ BootFails \/ ReconcileFresh \/ ReconcileResume \/ ReconcileFails
         \/ EnterFails \/ ReenterReview \/ Park \/ Release
  BY <1>1, <1>15
     DEF Boot, Recovered, BootFails, ReconcileFresh, ReconcileResume, Adopted,
         ReconcileFails, Exit, EnterFails, ReenterReview, Park, Saved, Release, Idle
<1>16. CASE Crash \/ Sweep \/ HumanPushes \/ Draft \/ Diagnose(ReselectCap) \/ DraftFails
         \/ Approve \/ Adjust
  BY <1>1, <1>16
     DEF Crash, Idle, Sweep, HumanPushes, Draft, Drafted, Plans, MobDrafts, SoloDrafts,
         Stays, Diagnose, DraftFails, Exit, Approve, Adjust, Reply
<1>17. CASE ApproveFails \/ Split \/ NoSplit \/ SplitFails \/ Note \/ CreateSubtask
         \/ CreateFails \/ Planned
  BY <1>1, <1>17
     DEF ApproveFails, Exit, Stays, Split, NoSplit, SplitFails, Note, CreateSubtask,
         ToCreate, CreateFails, Planned, Proceed
<1>18. CASE Claim \/ ClaimFails \/ Executed \/ Writes \/ Measures \/ CommitsItself
         \/ Finishes \/ Reselects
  BY <1>1, <1>18
     DEF Claim, Solo, Open, Kept, Tree, History, ClaimFails, Exit, Board, Executed, Proceed,
         Writes, Measures, Identity, CommitsItself, Finishes, Reselects
<1>19. CASE CommitWork \/ Discuss \/ ReviseFails \/ Recheck \/ Push \/ Complete \/ Salvage
         \/ Race
  BY <1>1, <1>19
     DEF CommitWork, Kept, Board, Discuss, Tree, History, ReviseFails, Discarded, Checked,
         Recheck, Revised, Push, Complete, Salvage, Race
<1>20. CASE RaceFails \/ RaceSkipped \/ Join \/ RaceStopped \/ NothingToJudge
         \/ JudgeVerifies \/ NobodyToJudge \/ JudgeChooses
  BY <1>1, <1>20
     DEF RaceFails, Exit, RaceSkipped, Proceed, Join, Returned, RaceStopped, Leaves,
         NothingToJudge,
         JudgeVerifies, Steps, NobodyToJudge, Judging, JudgeChooses
<1>21. CASE JudgeFails \/ Adopt \/ AdoptFails \/ Replay \/ Replayed \/ Document
         \/ DocumentBroke \/ DocumentPushes
  BY <1>1, <1>21
     DEF JudgeFails, Leaves, Exit, Adopt, AdoptFails, Replay, ToReplay, Open, Replayed,
         Proceed, Document, Undone, Rests, DocumentBroke, Tree, DocumentPushes
<1>22. CASE StartReview \/ StartReviewFails \/ Fixes \/ Discards \/ Approved \/ Parks
         \/ PhaseFails \/ ReadsTip
  BY <1>1, <1>22
     DEF StartReview, Rests, Tree, StartReviewFails, Exit, Fixes, Discards, Approved,
         Proceed, Parks, ParkedForPeople, Idle, PhaseFails, ReadsTip
<1>23. CASE Rebase \/ IntegrateFails \/ LeasePush \/ LeaseFails \/ OpensPull \/ GatesPass
         \/ Done \/ Stopped
  BY <1>1, <1>23
     DEF Rebase, Rebased, SquashedOnConflict, Rests, IntegrateFails, Exit, Tree, LeasePush,
         LeaseFails, OpensPull, Proceed, GatesPass, Done, Idle, Stopped
<1>24. ASSUME NEW t \in Tasks, Cancel(t)
      PROVE  pc' \in Places
  BY <1>1, <1>24
     DEF Cancel
<1>25. ASSUME NEW i \in Candidates, CandidateClaims(i)
      PROVE  pc' \in Places
  BY <1>1, <1>25
     DEF CandidateClaims, Steps
<1>26. ASSUME NEW i \in Candidates, CandidateBroke(i)
      PROVE  pc' \in Places
  BY <1>1, <1>26
     DEF CandidateBroke, Drops, Steps
<1>27. ASSUME NEW i \in Candidates, CandidateWorks(i)
      PROVE  pc' \in Places
  BY <1>1, <1>27
     DEF CandidateWorks, Passed, Rest, Steps
<1>28. ASSUME NEW i \in Candidates, CandidateCapped(i)
      PROVE  pc' \in Places
  BY <1>1, <1>28
     DEF CandidateCapped, CapSaves, Drops, Steps
<1>29. ASSUME NEW i \in Candidates, CandidateReselects(i)
      PROVE  pc' \in Places
  BY <1>1, <1>29
     DEF CandidateReselects, Drops, Steps
<1> QED
  BY <1>1, <1>2, <1>3, <1>4, <1>5, <1>6, <1>7, <1>8, <1>9, <1>10, <1>11, <1>12, <1>13,
     <1>14, <1>15, <1>16, <1>17, <1>18, <1>19, <1>20, <1>21, <1>22, <1>23, <1>24, <1>25,
     <1>26, <1>27, <1>28, <1>29
     DEF Next, RunNext, PlanNext, ExecuteNext, FanoutNext

LEMMA PassedTypes ==
    ASSUME WorkTypeOK, NEW i \in Candidates
    PROVE  /\ Passed(i).step \in {"finished", "claim"} /\ Passed(i).at \in Tasks
           /\ Passed(i).step = "finished" => Rest(i) = {} /\ Passed(i).at = cands[i].at
           /\ Passed(i).step = "claim" => Passed(i).at \in Open
<1>1. Rest(i) \in SUBSET Tasks /\ cands[i].at \in Tasks /\ Rest(i) \subseteq Open
  BY NextTasks DEF Rest, WorkTypeOK, RaceTypeOK, Cand
<1>2. CASE Rest(i) = {}
  BY <1>1, <1>2 DEF Passed
<1>3. CASE Rest(i) # {}
  <2>1. (CHOOSE t \in Rest(i) : \A u \in Rest(i) : t <= u) \in Rest(i)
    <3>1. \E t \in Rest(i) : \A u \in Rest(i) : t <= u
      BY <1>1, <1>3, FirstOf
    <3> QED
      BY <3>1
  <2> QED
    BY <1>1, <1>3, <2>1 DEF Passed
<1> QED
  BY <1>2, <1>3

LEMMA RaceStep == TypedInv /\ [Next]_vars => RaceTypeOK'
<1> SUFFICES ASSUME TypedInv, [Next]_vars PROVE RaceTypeOK'
  OBVIOUS
<1> USE DEF TypedInv, WorkTypeOK, RaceTypeOK, Candidates
<1>1. CASE UNCHANGED cands
  BY <1>1
<1>2. CASE Release \/ Crash \/ Parks \/ Done
  BY <1>2, IdleTypes
     DEF Release, Idle, Crash, Parks, ParkedForPeople, Done
<1>3. CASE Race
  <2>1. PICK n \in {1, Best} :
           cands' = [i \in 1 .. n |-> [at |-> NextTask, step |-> "claim", work |-> local,
                                       capped |-> FALSE, verdict |-> "unknown"]]
    BY <1>3 DEF Race, Funded
  <2>2. NextTask \in Tasks
    BY <1>3, NextTasks DEF Race
  <2>3. 1 .. n \subseteq 1 .. Best
    BY <2>1
  <2> QED
    BY <2>1, <2>2, <2>3 DEF Cand, TreeTypeOK, Racing
<1>4. CASE Replayed
  BY <1>4
     DEF Replayed, Proceed
<1>5. CASE JudgeVerifies
  <2>1. PICK i \in Survivors : \E v \in Measured(cands[i]) :
           cands' = [cands EXCEPT ![i] = [cands[i] EXCEPT !.verdict = v]]
    BY <1>5 DEF JudgeVerifies, Steps
  <2>2. PICK v \in Measured(cands[i]) : cands' = [cands EXCEPT ![i] = [cands[i] EXCEPT !.verdict = v]]
    BY <2>1
  <2>3. v \in {"unknown", "passed", "failed", "skipped"}
    BY <2>2 DEF Measured
  <2> QED
    BY <2>2, <2>3 DEF Cand, Survivors
<1>6. ASSUME NEW i \in Candidates, CandidateClaims(i)
      PROVE  RaceTypeOK'
  BY <1>6
     DEF CandidateClaims, Steps, Cand, Racing
<1>7. ASSUME NEW i \in Candidates, CandidateBroke(i)
      PROVE  RaceTypeOK'
  BY <1>7
     DEF CandidateBroke, Drops, Steps, Cand, Outcomes
<1>8. ASSUME NEW i \in Candidates, CandidateWorks(i)
      PROVE  RaceTypeOK'
  <2>1. cands[i] \in Cand /\ cands[i].at \in 0 .. NTasks /\ cands[i].work \in Branches
    BY DEF Cand, Tasks
  <2>2. PICK w \in {cands[i].work} \cup {Commit(cands[i].work, cands[i].at, g) : g \in BOOLEAN} :
           cands' = [cands EXCEPT ![i] = [cands[i] EXCEPT !.step = Passed(i).step,
                                                         !.at = Passed(i).at, !.work = w]]
    BY <1>8 DEF CandidateWorks, Steps
  <2>3. w \in Branches
    <3>1. \A g \in BOOLEAN : Commit(cands[i].work, cands[i].at, g) \in Branches
      BY <2>1, DataTypes DEF TreeTypeOK
    <3> QED
      BY <2>1, <2>2, <3>1
  <2>4. [cands[i] EXCEPT !.step = Passed(i).step, !.at = Passed(i).at, !.work = w] \in Cand
    BY <2>1, <2>3, PassedTypes DEF Cand, Racing, Outcomes
  <2> QED
    BY <2>2, <2>4
<1>9. ASSUME NEW i \in Candidates, CandidateCapped(i)
      PROVE  RaceTypeOK'
  <2>1. cands[i] \in Cand /\ cands[i].at \in 0 .. NTasks /\ cands[i].work \in Branches
    BY DEF Cand, Tasks
  <2>2. \A g \in BOOLEAN : Commit(cands[i].work, cands[i].at, g) \in Branches
    BY <2>1, DataTypes DEF TreeTypeOK
  <2>3. CASE \E g \in BOOLEAN :
               cands' = [cands EXCEPT ![i] = [cands[i] EXCEPT !.step = "finished", !.capped = TRUE,
                                                 !.work = Commit(@, cands[i].at, g)]]
    <3>1. PICK g \in BOOLEAN :
             cands' = [cands EXCEPT ![i] = [cands[i] EXCEPT !.step = "finished", !.capped = TRUE,
                                               !.work = Commit(@, cands[i].at, g)]]
      BY <2>3
    <3>2. Commit(cands[i].work, cands[i].at, g) \in Branches
      BY <2>2
    <3>3. [cands[i] EXCEPT !.step = "finished", !.capped = TRUE,
                           !.work = Commit(@, cands[i].at, g)] \in Cand
      BY <2>1, <3>2 DEF Cand, Outcomes
    <3> QED
      BY <3>1, <3>3
  <2>4. CASE cands' = [cands EXCEPT ![i] = [cands[i] EXCEPT !.step = "turns"]]
    BY <2>1, <2>4 DEF Cand, Outcomes
  <2> QED
    BY <1>9, <2>3, <2>4 DEF CandidateCapped, Drops, Steps
<1>10. ASSUME NEW i \in Candidates, CandidateReselects(i)
      PROVE  RaceTypeOK'
  BY <1>10
     DEF CandidateReselects, Drops, Steps, Cand, Outcomes
<1>11. CASE Boot \/ BootFails \/ ReconcileFresh \/ ReconcileResume \/ ReconcileFails
         \/ Enter \/ EnterFails \/ ReenterReview \/ Park \/ Sweep \/ HumanPushes
  BY <1>1, <1>11
     DEF Boot, Recovered, BootFails, ReconcileFresh, ReconcileResume, Adopted,
         ReconcileFails, Exit, Enter, Late, Resumed, EnterFails, ReenterReview, Park,
         Saved, Sweep,
         HumanPushes
<1>12. CASE Draft \/ Diagnose(ReselectCap) \/ DraftFails \/ Approve \/ Adjust
         \/ ApproveFails \/ Split \/ NoSplit \/ SplitFails \/ Note
  BY <1>1, <1>12
     DEF Draft, Drafted, Plans, MobDrafts, SoloDrafts, Stays, Diagnose, DraftFails, Exit,
         Approve, Adjust, Reply, ApproveFails, Split, NoSplit, SplitFails, Note
<1>13. CASE CreateSubtask \/ CreateFails \/ Planned \/ Claim \/ ClaimFails \/ Executed
         \/ Writes \/ Measures \/ CommitsItself \/ Finishes
  BY <1>1, <1>13
     DEF CreateSubtask, ToCreate, CreateFails, Exit, Stays, Planned, Proceed, Claim, Solo,
         Open, Kept, Tree, History, ClaimFails, Board, Executed, Writes, Measures, Identity,
         CommitsItself, Finishes
<1>14. CASE Reselects \/ CoderFails \/ Gate \/ Fix \/ Regate \/ CommitWork
         \/ CommitNothing \/ CommitFails \/ Discuss \/ ReviseFails
  BY <1>1, <1>14
     DEF Reselects, Kept, Board, Tree, History, CoderFails, NoCoder, Gate, Fix, Regate,
         CommitWork, CommitNothing, CommitFails, Discuss, ReviseFails, Discarded, Checked
<1>15. CASE Recheck \/ Push \/ PushFails \/ Complete \/ CompleteFails \/ SalvageNothing
         \/ Salvage \/ Authority \/ Salvaged \/ StoppedAtWork
  BY <1>1, <1>15
     DEF Recheck, Discarded, Checked, Revised, Kept, Board, History, Push, PushFails, Tree,
         Complete, CompleteFails, SalvageNothing, Salvage, Authority, Salvaged,
         StoppedAtWork
<1>16. CASE RaceFails \/ RaceSkipped \/ Join \/ RaceStopped \/ NothingToJudge
         \/ NobodyToJudge \/ JudgeChooses \/ JudgeFails \/ Adopt \/ AdoptFails
  BY <1>1, <1>16
     DEF RaceFails, Exit, RaceSkipped, Proceed, Join, Returned, RaceStopped, NothingToJudge,
         NobodyToJudge, Judging, JudgeChooses, JudgeFails, Leaves, Adopt, AdoptFails
<1>17. CASE Replay \/ Document \/ DocumentBroke \/ DocumentPushes \/ StartReview
         \/ StartReviewFails \/ Fixes \/ Discards \/ Approved \/ PhaseFails
  BY <1>1, <1>17
     DEF Replay, ToReplay, Open, Document, Undone, Proceed, Rests, DocumentBroke, Exit,
         Tree, DocumentPushes, StartReview, StartReviewFails, Fixes, Discards, Approved,
         PhaseFails
<1>18. CASE ReadsTip \/ Rebase \/ IntegrateFails \/ LeasePush \/ LeaseFails \/ OpensPull
         \/ GatesPass \/ Stopped
  BY <1>1, <1>18
     DEF ReadsTip, Rests, Tree, Rebase, Rebased, SquashedOnConflict, IntegrateFails, Exit,
         LeasePush, LeaseFails, OpensPull, Proceed, GatesPass, Stopped
<1>19. ASSUME NEW t \in Tasks, Cancel(t)
      PROVE  RaceTypeOK'
  BY <1>1, <1>19
     DEF Cancel
<1> QED
  BY <1>1, <1>2, <1>3, <1>4, <1>5, <1>6, <1>7, <1>8, <1>9, <1>10, <1>11, <1>12, <1>13,
     <1>14, <1>15, <1>16, <1>17, <1>18, <1>19
     DEF Next, RunNext, PlanNext, ExecuteNext, FanoutNext

LEMMA HistoryStep == TypedInv /\ [Next]_vars => HistoryTypeOK'
<1> SUFFICES ASSUME TypedInv, [Next]_vars PROVE HistoryTypeOK'
  OBVIOUS
<1>0. held \in SUBSET Tasks
  BY DEF TypedInv, WorkTypeOK, BoardTypeOK
<1> USE DEF TypedInv, WorkTypeOK, HistoryTypeOK
<1>1. CASE UNCHANGED <<landed, past>>
  BY <1>1
<1>2. CASE BootFails
  BY <1>2
     DEF BootFails, Endings
<1>3. CASE Release
  BY <1>3, MemoryHas
     DEF Release, Idle, Endings
<1>4. CASE Sweep
  BY <1>4
     DEF Sweep, Endings
<1>5. CASE Approve
  BY <1>5
     DEF Approve, Stays, Endings
<1>6. CASE Note
  BY <1>6
     DEF Note, Exit, Stays, Endings
<1>7. CASE CommitsItself
  BY <1>7
     DEF CommitsItself, Kept, Board, Endings
<1>8. CASE JudgeFails
  BY <1>0, <1>8
     DEF JudgeFails, Leaves, Exit, Endings
<1>9. CASE AdoptFails \/ RaceStopped
  BY <1>0, <1>9
     DEF AdoptFails, RaceStopped, Leaves, Exit, Endings
<1>10. CASE Parks
  BY <1>10
     DEF Parks, ParkedForPeople, Idle, Endings
<1>11. CASE Done
  BY <1>11
     DEF Done, Idle, Endings
<1>12. CASE Crash
  <2>1. past.torn + 1 \in Nat
    OBVIOUS
  <2>2. CASE pc = "note"
    BY <1>12, <2>1, <2>2 DEF Crash, Idle, Endings
  <2>3. CASE pc # "note"
    BY <1>12, <2>3 DEF Crash, Idle, Endings
  <2> QED
    BY <2>2, <2>3
<1>13. CASE Stopped
  <2>1. past.torn + 1 \in Nat
    OBVIOUS
  <2>2. \E leak \in SUBSET Tasks : \E torn \in Nat :
           past' = [past EXCEPT !.leak = leak, !.torn = torn]
    <3>1. CASE pc = "note"
      BY <1>0, <1>13, <2>1, <3>1 DEF Stopped
    <3>2. CASE pc # "note"
      BY <1>0, <1>13, <3>2 DEF Stopped
    <3> QED
      BY <3>1, <3>2
  <2> QED
    BY <1>13, <2>2 DEF Stopped, Exit, Endings
<1>14. CASE Complete
  BY <1>14, MemoryHas
     DEF Complete, Kept, Tree, TreeTypeOK, Board
<1>15. CASE Salvaged
  BY <1>15, MemoryHas
     DEF Salvaged, Kept, Tree, TreeTypeOK, Board
<1>16. CASE Replay
  <2>1. past' = past /\ (landed' = landed \/ \E t : landed' = [landed EXCEPT ![t] = local])
    BY <1>16 DEF Replay
  <2>2. landed' \in [Tasks -> Branches \cup {None}]
    BY <2>1 DEF TreeTypeOK
  <2> QED
    BY <2>1, <2>2
<1>17. CASE Boot \/ ReconcileFresh \/ ReconcileResume \/ ReconcileFails \/ Enter
         \/ EnterFails \/ ReenterReview \/ Park \/ HumanPushes \/ Draft
         \/ Diagnose(ReselectCap)
  BY <1>1, <1>17
     DEF Boot, Recovered, ReconcileFresh, ReconcileResume, Adopted, ReconcileFails, Exit,
         Enter, Late, Resumed, EnterFails, ReenterReview, Park, Saved, HumanPushes, Draft,
         Drafted, Plans,
         MobDrafts, SoloDrafts, Stays, Diagnose
<1>18. CASE DraftFails \/ Adjust \/ ApproveFails \/ Split \/ NoSplit \/ SplitFails
         \/ CreateSubtask \/ CreateFails \/ Planned \/ Claim
  BY <1>1, <1>18
     DEF DraftFails, Exit, Stays, Adjust, Reply, ApproveFails, Split, NoSplit, SplitFails,
         CreateSubtask, ToCreate, CreateFails, Planned, Proceed, Claim, Solo, Open, Kept,
         Tree, History
<1>19. CASE ClaimFails \/ Executed \/ Writes \/ Measures \/ Finishes \/ Reselects
         \/ CoderFails \/ Gate \/ Fix \/ Regate
  BY <1>1, <1>19
     DEF ClaimFails, Solo, Exit, Kept, Board, Tree, History, Executed, Proceed, Writes,
         Measures, Identity, Finishes, Reselects, CoderFails, NoCoder, Gate, Fix, Regate
<1>20. CASE CommitWork \/ CommitNothing \/ CommitFails \/ Discuss \/ ReviseFails
         \/ Recheck \/ Push \/ PushFails \/ CompleteFails \/ SalvageNothing
  BY <1>1, <1>20
     DEF CommitWork, Kept, Board, CommitNothing, Tree, History, CommitFails, Discuss,
         ReviseFails, Discarded, Checked, Recheck, Revised, Push, PushFails, CompleteFails,
         SalvageNothing
<1>21. CASE Salvage \/ Authority \/ StoppedAtWork \/ Race \/ RaceFails \/ RaceSkipped
         \/ Join \/ NothingToJudge \/ JudgeVerifies
  BY <1>1, <1>21
     DEF Salvage, Kept, Board, History, Authority, StoppedAtWork, Tree, Race, RaceFails,
         Exit, RaceSkipped, Proceed, Join, Returned, NothingToJudge, JudgeVerifies, Steps
<1>22. CASE NobodyToJudge \/ JudgeChooses \/ Adopt \/ Replayed \/ Document
         \/ DocumentBroke \/ DocumentPushes \/ StartReview \/ StartReviewFails \/ Fixes
  BY <1>1, <1>22
     DEF NobodyToJudge, Judging, Returned, Exit, JudgeChooses, Adopt, Replayed, Proceed,
         Document, Undone, Rests, DocumentBroke, Tree, DocumentPushes, StartReview,
         StartReviewFails, Fixes
<1>23. CASE Discards \/ Approved \/ PhaseFails \/ ReadsTip \/ Rebase \/ IntegrateFails
         \/ LeasePush \/ LeaseFails \/ OpensPull \/ GatesPass
  BY <1>1, <1>23
     DEF Discards, Rests, Approved, Proceed, Tree, PhaseFails, Exit, ReadsTip, Rebase,
         Rebased, SquashedOnConflict, IntegrateFails, LeasePush, LeaseFails, OpensPull,
         GatesPass
<1>24. ASSUME NEW t \in Tasks, Cancel(t)
      PROVE  HistoryTypeOK'
  BY <1>1, <1>24
     DEF Cancel
<1>25. ASSUME NEW i \in Candidates, CandidateClaims(i)
      PROVE  HistoryTypeOK'
  BY <1>1, <1>25
     DEF CandidateClaims, Steps
<1>26. ASSUME NEW i \in Candidates, CandidateBroke(i)
      PROVE  HistoryTypeOK'
  BY <1>1, <1>26
     DEF CandidateBroke, Drops, Steps
<1>27. ASSUME NEW i \in Candidates, CandidateWorks(i)
      PROVE  HistoryTypeOK'
  BY <1>1, <1>27
     DEF CandidateWorks, Passed, Rest, Steps
<1>28. ASSUME NEW i \in Candidates, CandidateCapped(i)
      PROVE  HistoryTypeOK'
  BY <1>1, <1>28
     DEF CandidateCapped, CapSaves, Drops, Steps
<1>29. ASSUME NEW i \in Candidates, CandidateReselects(i)
      PROVE  HistoryTypeOK'
  BY <1>1, <1>29
     DEF CandidateReselects, Drops, Steps
<1> QED
  BY <1>1, <1>2, <1>3, <1>4, <1>5, <1>6, <1>7, <1>8, <1>9, <1>10, <1>11, <1>12, <1>13,
     <1>14, <1>15, <1>16, <1>17, <1>18, <1>19, <1>20, <1>21, <1>22, <1>23, <1>24, <1>25,
     <1>26, <1>27, <1>28, <1>29
     DEF Next, RunNext, PlanNext, ExecuteNext, FanoutNext

LEMMA MemoryStep == TypedInv /\ [Next]_vars => me' \in Memory
<1> SUFFICES ASSUME TypedInv, [Next]_vars PROVE me' \in Memory
  OBVIOUS
<1> USE DEF TypedInv, WorkTypeOK
<1>1. CASE UNCHANGED me
  BY <1>1
<1>2. /\ \A w \in Endings : Exit(w) => me' \in Memory
      /\ \A w \in Endings : Abort(w) => me' \in Memory
  BY ExitTypes, AbortTypes
<1>3. /\ \A p \in {"plan", "execute", "judge", "document", "review", "integrate", "pr_gates"} :
            Proceed(p) => me' \in Memory
      /\ Idle => me' \in Memory
  BY ProceedTypes, IdleTypes
<1>4. /\ "error" \in Endings /\ "budget" \in Endings /\ "turns" \in Endings
      /\ "blocked" \in Endings /\ "cancel" \in Endings
  BY DEF Endings
<1>5. CASE Boot
  <2>1. me' = [Fresh EXCEPT !.next = me'.next, !.known = extra.noted] /\ me'.next \in PhaseNames
    BY <1>5, NamesAre DEF Boot, BoardTypeOK, Fresh
  <2>2. Fresh \in Memory /\ extra.noted \in 0 .. 1
    BY FieldTypes DEF BoardTypeOK
  <2> QED
    BY <2>1, <2>2 DEF Memory
<1>6. CASE ReconcileFresh
  <2>1. PICK b \in {remote, None} : me' = [me EXCEPT !.tip = b]
    BY <1>6 DEF ReconcileFresh
  <2>2. b \in Branches \cup {None}
    BY <2>1 DEF TreeTypeOK
  <2> QED
    BY <2>1, <2>2, FieldTypes
<1>7. CASE ReconcileResume
  <2>1. {t \in Tasks : sub[t] # "absent"} \in SUBSET Tasks
    OBVIOUS
  <2> QED
    BY <1>7, <2>1, FieldTypes DEF ReconcileResume
<1>8. CASE Draft
  <2>1. PICK p \in SUBSET Tasks : Drafted(p)
    BY <1>8 DEF Draft, MobDrafts, SoloDrafts, Plans
  <2>2. me.drafts < MaxDrafts
    BY <1>8 DEF Draft, Grounded
  <2> QED
    BY <2>1, <2>2, MemoryTypes DEF Drafted
<1>9. CASE Diagnose(ReselectCap) \/ Reselects
  BY <1>9, FieldTypes
     DEF Diagnose, Stays, Reselects, Kept, Board, Tree, History
<1>10. CASE CreateSubtask
  BY <1>10, CreateTypes, MemoryTypes
     DEF CreateSubtask, ToCreate
<1>11. CASE Claim
  <2>1. NextTask \in Tasks
    BY <1>11, NextTasks DEF Claim
  <2>2. \A b \in {local, None} :
           [me EXCEPT !.at = NextTask, !.before = b, !.tool = None, !.verified = FALSE] \in Memory
    BY <2>1, MemoryTypes DEF TreeTypeOK
  <2> QED
    BY <1>11, <2>2 DEF Claim
<1>12. CASE Measures
  BY <1>12, FieldTypes
     DEF Measures, Identity, Kept, Board, Tree, History, TreeTypeOK
<1>13. CASE Gate
  BY <1>13, <1>2, <1>4, FieldTypes
     DEF Gate, Kept, Board, Tree, History
<1>14. CASE Regate
  BY <1>14, <1>2, <1>4, FieldTypes
     DEF Regate, Kept, Board, Tree, History
<1>15. CASE Discuss \/ ReviseFails
  BY <1>15, FieldTypes
     DEF Discuss, Kept, Board, Tree, History, ReviseFails, Discarded, Checked
<1>16. CASE Recheck
  BY <1>16, FieldTypes, MemoryTypes
     DEF Recheck, Discarded, Checked, Revised, Kept, Board, History
<1>17. CASE Push
  BY <1>17, FieldTypes
     DEF Push, Kept, Board, History
<1>18. CASE Complete
  BY <1>18, MemoryTypes
     DEF Complete, Kept, Tree
<1>19. CASE Salvaged
  BY <1>19, <1>2, <1>4, MemoryTypes
     DEF Salvaged, Kept, Tree
<1>20. CASE Authority
  BY <1>20, <1>2, <1>4, MemoryTypes
     DEF Authority, Kept, Board, History
<1>21. CASE Join
  <2>1. 1 \in Candidates /\ cands[1] \in Cand
    BY <1>21 DEF Join, Grounded, RaceTypeOK
  <2>2. Survivors = {} => cands[1].step \in Endings
    BY <1>21, <2>1 DEF Join, Survivors, Cand, Racing, Outcomes, Endings
  <2> QED
    BY <1>21, <1>2, <1>3, <2>2 DEF Join
<1>22. CASE JudgeChooses
  <2>1. \A i \in Pool : i \in 1 .. Best
    BY DEF Pool, Verifying, Uncapped, Survivors, RaceTypeOK, Candidates
  <2>2. \A i \in 1 .. Best : [me EXCEPT !.winner = i] \in Memory
    BY FieldTypes
  <2> QED
    BY <1>22, <2>1, <2>2 DEF JudgeChooses
<1>23. CASE Adopt
  BY <1>23, MemoryTypes
     DEF Adopt
<1>24. CASE Replay
  BY <1>24, ReplayTypes, MemoryTypes
     DEF Replay, ToReplay
<1>25. CASE DocumentPushes
  BY <1>25, MemoryTypes
     DEF DocumentPushes, Rests
<1>26. CASE Fixes
  <2>1. [me EXCEPT !.preFix = IF pc = "reviewing" THEN local ELSE @] \in Memory
    <3>1. \A b \in {local, me.preFix} : [me EXCEPT !.preFix = b] \in Memory
      BY FieldTypes, MemoryHas DEF TreeTypeOK
    <3> QED
      BY <3>1
  <2> QED
    BY <1>26, <1>2, <1>4, <2>1 DEF Fixes
<1>27. CASE ReadsTip
  BY <1>27, FieldTypes
     DEF ReadsTip, Rests, Tree, TreeTypeOK
<1>28. ASSUME NEW i \in Candidates, CandidateClaims(i)
      PROVE  me' \in Memory
  <2>1. cands[i].at \in Tasks
    BY DEF RaceTypeOK, Cand
  <2> QED
    BY <1>28, <2>1, FieldTypes DEF CandidateClaims
<1>29. ASSUME NEW i \in Candidates, CandidateReselects(i)
      PROVE  me' \in Memory
  BY <1>29, FieldTypes
     DEF CandidateReselects, Drops
<1>30. CASE BootFails \/ ReconcileFails \/ Enter \/ EnterFails \/ ReenterReview \/ Park
         \/ Release \/ Crash
         \/ Sweep
  BY <1>1, <1>2, <1>3, <1>4, <1>30
     DEF BootFails, ReconcileFails, Enter, Late, Resumed, EnterFails, ReenterReview, Park,
         Saved, Release,
         Crash, Sweep
<1>31. CASE HumanPushes \/ DraftFails \/ Approve \/ Adjust \/ ApproveFails \/ Split
         \/ NoSplit \/ SplitFails
  BY <1>1, <1>2, <1>3, <1>4, <1>31
     DEF HumanPushes, DraftFails, Stays, Approve, Adjust, Reply, ApproveFails, Split,
         NoSplit, SplitFails
<1>32. CASE Note \/ CreateFails \/ Planned \/ ClaimFails \/ Executed \/ Writes
         \/ CommitsItself \/ Finishes
  BY <1>1, <1>2, <1>3, <1>4, <1>32
     DEF Note, Stays, CreateFails, Planned, ClaimFails, Solo, Kept, Board, Tree, History,
         Executed, Writes, CommitsItself, Finishes
<1>33. CASE CoderFails \/ Fix \/ CommitWork \/ CommitNothing \/ CommitFails \/ PushFails
         \/ CompleteFails \/ SalvageNothing
  BY <1>1, <1>2, <1>3, <1>4, <1>33
     DEF CoderFails, NoCoder, Kept, Board, Tree, History, Fix, CommitWork, CommitNothing,
         CommitFails, PushFails, CompleteFails, SalvageNothing
<1>34. CASE Salvage \/ StoppedAtWork \/ Race \/ RaceFails \/ RaceSkipped \/ RaceStopped
         \/ NothingToJudge \/ JudgeVerifies
  BY <1>1, <1>2, <1>3, <1>4, <1>34
     DEF Salvage, Kept, Board, History, StoppedAtWork, Tree, Race, RaceFails, RaceSkipped,
         RaceStopped, Leaves, Returned, NothingToJudge, JudgeVerifies
<1>35. CASE NobodyToJudge \/ JudgeFails \/ AdoptFails \/ Replayed \/ Document
         \/ DocumentBroke \/ StartReview \/ StartReviewFails
  BY <1>1, <1>2, <1>3, <1>4, <1>35
     DEF NobodyToJudge, Judging, Returned, JudgeFails, Leaves, AdoptFails, Replayed,
         Document, Undone, Rests, DocumentBroke, Tree, StartReview, StartReviewFails
<1>36. CASE Discards \/ Approved \/ Parks \/ PhaseFails \/ Rebase \/ IntegrateFails
         \/ LeasePush \/ LeaseFails
  BY <1>1, <1>2, <1>3, <1>4, <1>36
     DEF Discards, Rests, Approved, Tree, Parks, ParkedForPeople, PhaseFails, Rebase,
         Rebased, SquashedOnConflict, IntegrateFails, LeasePush, LeaseFails
<1>37. CASE OpensPull \/ GatesPass \/ Done \/ Stopped
  BY <1>1, <1>2, <1>3, <1>4, <1>37
     DEF OpensPull, Rests, Tree, GatesPass, Done, Stopped
<1>38. ASSUME NEW t \in Tasks, Cancel(t)
      PROVE  me' \in Memory
  BY <1>1, <1>2, <1>3, <1>4, <1>38
     DEF Cancel
<1>39. ASSUME NEW i \in Candidates, CandidateBroke(i)
      PROVE  me' \in Memory
  BY <1>1, <1>2, <1>3, <1>4, <1>39
     DEF CandidateBroke, Drops
<1>40. ASSUME NEW i \in Candidates, CandidateWorks(i)
      PROVE  me' \in Memory
  BY <1>1, <1>2, <1>3, <1>4, <1>40
     DEF CandidateWorks, Passed, Rest
<1>41. ASSUME NEW i \in Candidates, CandidateCapped(i)
      PROVE  me' \in Memory
  BY <1>1, <1>2, <1>3, <1>4, <1>41
     DEF CandidateCapped, CapSaves, Drops
<1> QED
  BY <1>1, <1>5, <1>6, <1>7, <1>8, <1>9, <1>10, <1>11, <1>12, <1>13, <1>14, <1>15, <1>16,
     <1>17, <1>18, <1>19, <1>20, <1>21, <1>22, <1>23, <1>24, <1>25, <1>26, <1>27, <1>28,
     <1>29, <1>30, <1>31, <1>32, <1>33, <1>34, <1>35, <1>36, <1>37, <1>38, <1>39, <1>40,
     <1>41
     DEF Next, RunNext, PlanNext, ExecuteNext, FanoutNext

LEMMA WorkTypeStep == TypedInv /\ [Next]_vars => WorkTypeOK'
BY BoardStep, TreeStep, PlaceStep, MemoryStep, RaceStep, HistoryStep DEF WorkTypeOK

-----------------------------------------------------------------------------
(* Where a step leads.  *)

\* What a step makes of the attempt's past.
LEMMA PastLeads ==
    ASSUME TypedInv, [Next]_vars
    PROVE  /\ past'.approved = past.approved \/ Approve
           /\ past'.selfmade = past.selfmade \/ CommitsItself
           /\ past'.torn = past.torn \/ (pc = "note" /\ past'.torn = past.torn + 1)
           /\ \/ past'.leak = past.leak
              \/ Sweep /\ past'.leak = {}
              \/ past'.leak = held /\ held' = held
           /\ \/ past'.ended = past.ended
              \/ Crash /\ past'.ended = "crash"
              \/ (BootFails \/ Release \/ Parks \/ Done) /\ past'.ended # "crash"
<1> DEFINE I == /\ past'.approved = past.approved \/ Approve
                /\ past'.selfmade = past.selfmade \/ CommitsItself
                /\ past'.torn = past.torn \/ (pc = "note" /\ past'.torn = past.torn + 1)
                /\ \/ past'.leak = past.leak
                   \/ Sweep /\ past'.leak = {}
                   \/ past'.leak = held /\ held' = held
                /\ \/ past'.ended = past.ended
                   \/ Crash /\ past'.ended = "crash"
                   \/ (BootFails \/ Release \/ Parks \/ Done) /\ past'.ended # "crash"
<1> SUFFICES I
  OBVIOUS
<1>0. HistoryTypeOK
  BY DEF TypedInv, WorkTypeOK
<1>1. CASE UNCHANGED past
  BY <1>1
<1>2. CASE Approve
  BY <1>2, <1>0
     DEF Approve, Stays, HistoryTypeOK
<1>3. CASE CommitsItself
  BY <1>3, <1>0
     DEF CommitsItself, Kept, Board, HistoryTypeOK
<1>4. CASE Note
  <2>1. past' = past \/ past' = [past EXCEPT !.torn = @ + 1]
    BY <1>4 DEF Note
  <2> QED
    BY <1>4, <2>1, <1>0 DEF Note, HistoryTypeOK
<1>5. CASE BootFails
  <2>1. past' = [past EXCEPT !.ended = "error"]
    BY <1>5 DEF BootFails
  <2> QED
    BY <1>5, <2>1, <1>0 DEF HistoryTypeOK
<1>6. CASE Parks
  <2>1. past' = [past EXCEPT !.ended = "parked"]
    BY <1>6 DEF Parks, ParkedForPeople
  <2> QED
    BY <1>6, <2>1, <1>0 DEF HistoryTypeOK
<1>7. CASE Done
  <2>1. past' = [past EXCEPT !.ended = "done"]
    BY <1>7 DEF Done
  <2> QED
    BY <1>7, <2>1, <1>0 DEF HistoryTypeOK
<1>8. CASE Sweep
  <2>1. past' = [past EXCEPT !.leak = {}]
    BY <1>8 DEF Sweep
  <2> QED
    BY <1>8, <2>1, <1>0 DEF HistoryTypeOK
<1>9. CASE Release
  <2>1. past' = [past EXCEPT !.ended = me.why]
    BY <1>9 DEF Release
  <2>2. me.why # "crash"
    BY MemoryHas DEF TypedInv, WorkTypeOK, Endings
  <2> QED
    BY <1>9, <2>1, <2>2, <1>0 DEF HistoryTypeOK
<1>10. CASE JudgeFails \/ AdoptFails \/ RaceStopped
  <2>1. past' = past \/ (past' = [past EXCEPT !.leak = held] /\ held' = held)
    BY <1>10 DEF JudgeFails, AdoptFails, RaceStopped, Leaves
  <2> QED
    BY <2>1, <1>0 DEF HistoryTypeOK
<1>11. CASE Crash
  <2>1. past' = [past EXCEPT !.ended = "crash",
                               !.torn = IF pc = "note" THEN past.torn + 1 ELSE past.torn]
    BY <1>11 DEF Crash
  <2> QED
    BY <1>11, <2>1, <1>0 DEF HistoryTypeOK
<1>12. CASE Stopped
  <2>1. /\ past' = [past EXCEPT !.leak = IF cands # << >> THEN held ELSE past.leak,
                               !.torn = IF pc = "note" THEN past.torn + 1 ELSE past.torn]
        /\ held' = held
    BY <1>12 DEF Stopped
  <2> QED
    BY <2>1, <1>0 DEF HistoryTypeOK
<1>13. CASE Boot \/ ReconcileFresh \/ ReconcileResume \/ ReconcileFails \/ Enter
         \/ EnterFails \/ ReenterReview \/ Park \/ HumanPushes \/ Draft
         \/ Diagnose(ReselectCap)
  BY <1>1, <1>13
     DEF Boot, Recovered, ReconcileFresh, ReconcileResume, Adopted, ReconcileFails, Enter,
         Late, Resumed, EnterFails, ReenterReview, Park, Saved, HumanPushes, Draft,
         Drafted, Plans,
         MobDrafts, SoloDrafts, Stays, Diagnose
<1>14. CASE DraftFails \/ Adjust \/ ApproveFails \/ Split \/ NoSplit \/ SplitFails
         \/ CreateSubtask \/ CreateFails \/ Planned \/ Claim
  BY <1>1, <1>14
     DEF DraftFails, Stays, Adjust, Reply, ApproveFails, Split, NoSplit, SplitFails,
         CreateSubtask, ToCreate, CreateFails, Planned, Claim, Solo, Open, Kept, Tree,
         History
<1>15. CASE ClaimFails \/ Executed \/ Writes \/ Measures \/ Finishes \/ Reselects
         \/ CoderFails \/ Gate \/ Fix \/ Regate
  BY <1>1, <1>15
     DEF ClaimFails, Solo, Kept, Board, Tree, History, Executed, Writes, Measures, Identity,
         Finishes, Reselects, CoderFails, NoCoder, Gate, Fix, Regate
<1>16. CASE CommitWork \/ CommitNothing \/ CommitFails \/ Discuss \/ ReviseFails
         \/ Recheck \/ Push \/ PushFails \/ Complete \/ CompleteFails
  BY <1>1, <1>16
     DEF CommitWork, Kept, Board, CommitNothing, Tree, History, CommitFails, Discuss,
         ReviseFails, Discarded, Checked, Recheck, Revised, Push, PushFails, Complete,
         CompleteFails
<1>17. CASE SalvageNothing \/ Salvage \/ Authority \/ Salvaged \/ StoppedAtWork \/ Race
         \/ RaceFails \/ RaceSkipped \/ Join
  BY <1>1, <1>17
     DEF SalvageNothing, Kept, Tree, History, Salvage, Board, Authority, Salvaged,
         StoppedAtWork, Race, RaceFails, RaceSkipped, Join, Returned
<1>18. CASE NothingToJudge \/ JudgeVerifies \/ NobodyToJudge \/ JudgeChooses \/ Adopt
         \/ Replay \/ Replayed \/ Document \/ DocumentBroke \/ DocumentPushes
  BY <1>1, <1>18
     DEF NothingToJudge, JudgeVerifies, Steps, NobodyToJudge, Judging, Returned,
         JudgeChooses, Adopt, Replay, ToReplay, Open, Replayed, Document, Undone, Rests,
         DocumentBroke, Tree, DocumentPushes
<1>19. CASE StartReview \/ StartReviewFails \/ Fixes \/ Discards \/ Approved \/ PhaseFails
         \/ ReadsTip \/ Rebase \/ IntegrateFails \/ LeasePush
  BY <1>1, <1>19
     DEF StartReview, Rests, Tree, StartReviewFails, Fixes, Discards, Approved, PhaseFails,
         ReadsTip, Rebase, Rebased, SquashedOnConflict, IntegrateFails, LeasePush
<1>20. CASE LeaseFails \/ OpensPull \/ GatesPass
  BY <1>1, <1>20
     DEF LeaseFails, Rests, Tree, OpensPull, GatesPass
<1>21. ASSUME NEW t \in Tasks, Cancel(t)
      PROVE  I
  BY <1>1, <1>21
     DEF Cancel
<1>22. ASSUME NEW i \in Candidates, CandidateClaims(i)
      PROVE  I
  BY <1>1, <1>22
     DEF CandidateClaims, Steps
<1>23. ASSUME NEW i \in Candidates, CandidateBroke(i)
      PROVE  I
  BY <1>1, <1>23
     DEF CandidateBroke, Drops, Steps
<1>24. ASSUME NEW i \in Candidates, CandidateWorks(i)
      PROVE  I
  BY <1>1, <1>24
     DEF CandidateWorks, Passed, Rest, Steps
<1>25. ASSUME NEW i \in Candidates, CandidateCapped(i)
      PROVE  I
  BY <1>1, <1>25
     DEF CandidateCapped, CapSaves, Drops, Steps
<1>26. ASSUME NEW i \in Candidates, CandidateReselects(i)
      PROVE  I
  BY <1>1, <1>26
     DEF CandidateReselects, Drops, Steps
<1> QED
  BY <1>1, <1>2, <1>3, <1>4, <1>5, <1>6, <1>7, <1>8, <1>9, <1>10, <1>11, <1>12, <1>13,
     <1>14, <1>15, <1>16, <1>17, <1>18, <1>19, <1>20, <1>21, <1>22, <1>23, <1>24, <1>25,
     <1>26
     DEF Next, RunNext, PlanNext, ExecuteNext, FanoutNext

LEMMA TornLeads ==
    ASSUME TypedInv
    PROVE  /\ (Crash \/ Stopped) /\ pc = "note" => past'.torn = past.torn + 1
           /\ Note => \/ past'.torn = past.torn + 1
                      \/ extra' = [extra EXCEPT !.noted = 1]
<1>1. HistoryTypeOK
  BY DEF TypedInv, WorkTypeOK
<1>2. ASSUME Crash \/ Stopped, pc = "note" PROVE past'.torn = past.torn + 1
  <2>1. past'.torn = IF pc = "note" THEN past.torn + 1 ELSE past.torn
    BY <1>1, <1>2 DEF Crash, Stopped, HistoryTypeOK
  <2> QED
    BY <1>2, <2>1
<1>3. ASSUME Note
      PROVE  \/ past'.torn = past.torn + 1
             \/ extra' = [extra EXCEPT !.noted = 1]
  BY <1>1, <1>3 DEF Note, HistoryTypeOK
<1> QED
  BY <1>2, <1>3

LEMMA Leads ==
    ASSUME me \in Memory
    PROVE  /\ \A w : Exit(w) => pc' = "park" /\ me'.plan = me.plan /\ me'.once = me.once
           /\ \A w : Abort(w) => /\ pc' = "park" /\ sub' = sub
                                 /\ held' = held \ {me.at} \/ (Fault("card") /\ held' = held)
           /\ \A w : Leaves(w) => pc' = "park"
           /\ \A p : Proceed(p) => /\ pc' = "enter" /\ me'.plan = me.plan /\ me'.once = me.once
           /\ Proceed("plan") => me'.next = "execute"
           /\ Proceed("execute") => me'.next = "judge"
           /\ Proceed("judge") => me'.next = "document"
           /\ Proceed("document") => me'.next = "review"
           /\ Proceed("review") => me'.next = "integrate"
           /\ Proceed("integrate") => me'.next = "pr_gates"
           /\ Proceed("pr_gates") => me'.next = "done"
           /\ Idle => pc' = "idle" /\ cands' = << >> /\ local' = Base /\ dirty' = "none"
<1>1. ASSUME NEW p, Proceed(p)
      PROVE  /\ pc' = "enter" /\ me'.plan = me.plan /\ me'.once = me.once
  BY <1>1 DEF Proceed, Memory
<1>2. ASSUME NEW w, Exit(w)
      PROVE  pc' = "park" /\ me'.plan = me.plan /\ me'.once = me.once
  BY <1>2 DEF Exit, Memory
<1> QED
  BY <1>1, <1>2, LaterIs, ProceedTypes DEF Exit, Abort, Leaves, Proceed, Idle

LEMMA DraftsStep ==
    ASSUME TypedInv, [Next]_vars
    PROVE  /\ (pc = "reconcile" \/ (pc = "enter" /\ me.next = "plan") => me.drafts = 0)'
           /\ (pc = "plan" => me.drafts < MaxDrafts)'
<1> DEFINE I == /\ pc = "reconcile" \/ (pc = "enter" /\ me.next = "plan") => me.drafts = 0
                /\ pc = "plan" => me.drafts < MaxDrafts
<1> SUFFICES I'
  OBVIOUS
<1> USE DEF TypedInv, WorkTypeOK, Grounded
<1>1. CASE UNCHANGED vars
  BY <1>1
<1>2. me \in Memory
  OBVIOUS
<1>3. CASE Boot
  BY <1>3
     DEF Boot, Recovered, Fresh
<1>4. CASE ReconcileFresh \/ ReconcileResume
  BY <1>4
     DEF ReconcileFresh, ReconcileResume, Adopted, Memory
<1>5. CASE Enter
  BY <1>5, NamesAre
     DEF Enter, Late, Resumed, Memory
<1>6. CASE Draft
  BY <1>6
     DEF Draft, Drafted, Plans, MobDrafts, SoloDrafts, Stays
<1>7. CASE Diagnose(ReselectCap) \/ Reselects
  BY <1>7
     DEF Diagnose, Stays, Reselects, Kept, Board, Tree, History, Memory
<1>8. CASE Adjust
  BY <1>8, <1>2, Leads
     DEF Adjust, Reply, Stays
<1>9. CASE DocumentPushes
  BY <1>9
     DEF DocumentPushes, Rests, Memory
<1>10. CASE BootFails \/ ReconcileFails \/ EnterFails \/ ReenterReview \/ Park
         \/ Release \/ Crash
  BY <1>1, <1>2, Leads, <1>10
     DEF BootFails, ReconcileFails, EnterFails, ReenterReview, Park, Saved, Release, Crash
<1>11. CASE Sweep \/ HumanPushes \/ DraftFails \/ Approve \/ ApproveFails \/ Split
  BY <1>1, <1>2, Leads, <1>11
     DEF Sweep, HumanPushes, DraftFails, Stays, Approve, ApproveFails, Split
<1>12. CASE NoSplit \/ SplitFails \/ Note \/ CreateSubtask \/ CreateFails \/ Planned
  BY <1>1, <1>2, Leads, <1>12
     DEF NoSplit, Stays, SplitFails, Note, CreateSubtask, ToCreate, CreateFails, Planned
<1>13. CASE Claim \/ ClaimFails \/ Executed \/ Writes \/ Measures \/ CommitsItself
  BY <1>1, <1>2, Leads, <1>13
     DEF Claim, Solo, Open, Kept, Tree, History, ClaimFails, Board, Executed, Writes,
         Measures, Identity, CommitsItself
<1>14. CASE Finishes \/ CoderFails \/ Gate \/ Fix \/ Regate \/ CommitWork
  BY <1>1, <1>2, Leads, <1>14
     DEF Finishes, Kept, Board, Tree, History, CoderFails, NoCoder, Gate, Fix, Regate,
         CommitWork
<1>15. CASE CommitNothing \/ CommitFails \/ Discuss \/ ReviseFails \/ Recheck \/ Push
  BY <1>1, <1>2, Leads, <1>15
     DEF CommitNothing, Kept, Board, Tree, History, CommitFails, Discuss, ReviseFails,
         Discarded, Checked, Recheck, Revised, Push
<1>16. CASE PushFails \/ Complete \/ CompleteFails \/ SalvageNothing \/ Salvage
         \/ Authority
  BY <1>1, <1>2, Leads, <1>16
     DEF PushFails, Kept, Tree, History, Complete, CompleteFails, SalvageNothing, Salvage,
         Board, Authority
<1>17. CASE Salvaged \/ StoppedAtWork \/ Race \/ RaceFails \/ RaceSkipped \/ Join
  BY <1>1, <1>2, Leads, <1>17
     DEF Salvaged, Kept, Tree, StoppedAtWork, History, Race, RaceFails, RaceSkipped, Join,
         Returned
<1>18. CASE RaceStopped \/ NothingToJudge \/ JudgeVerifies \/ NobodyToJudge
         \/ JudgeChooses \/ JudgeFails
  BY <1>1, <1>2, Leads, <1>18
     DEF RaceStopped, Returned, NothingToJudge, JudgeVerifies, Steps, NobodyToJudge,
         Judging, JudgeChooses, JudgeFails, Leaves
<1>19. CASE Adopt \/ AdoptFails \/ Replay \/ Replayed \/ Document \/ DocumentBroke
  BY <1>1, <1>2, Leads, <1>19
     DEF Adopt, AdoptFails, Leaves, Replay, ToReplay, Open, Replayed, Document, Undone,
         Rests, DocumentBroke, Tree
<1>20. CASE StartReview \/ StartReviewFails \/ Fixes \/ Discards \/ Approved \/ Parks
  BY <1>1, <1>2, Leads, <1>20
     DEF StartReview, Rests, Tree, StartReviewFails, Fixes, Discards, Approved, Parks,
         ParkedForPeople
<1>21. CASE PhaseFails \/ ReadsTip \/ Rebase \/ IntegrateFails \/ LeasePush \/ LeaseFails
  BY <1>1, <1>2, Leads, <1>21
     DEF PhaseFails, Rests, Tree, ReadsTip, Rebase, Rebased, SquashedOnConflict,
         IntegrateFails, LeasePush, LeaseFails
<1>22. CASE OpensPull \/ GatesPass \/ Done \/ Stopped
  BY <1>1, <1>2, Leads, <1>22
     DEF OpensPull, Rests, Tree, GatesPass, Done, Stopped
<1>23. ASSUME NEW t \in Tasks, Cancel(t)
      PROVE  I'
  BY <1>1, <1>2, Leads, <1>23
     DEF Cancel
<1>24. ASSUME NEW i \in Candidates, CandidateClaims(i)
      PROVE  I'
  BY <1>1, <1>2, Leads, <1>24
     DEF CandidateClaims, Steps
<1>25. ASSUME NEW i \in Candidates, CandidateBroke(i)
      PROVE  I'
  BY <1>1, <1>2, Leads, <1>25
     DEF CandidateBroke, Drops, Steps
<1>26. ASSUME NEW i \in Candidates, CandidateWorks(i)
      PROVE  I'
  BY <1>1, <1>2, Leads, <1>26
     DEF CandidateWorks, Passed, Rest, Steps
<1>27. ASSUME NEW i \in Candidates, CandidateCapped(i)
      PROVE  I'
  BY <1>1, <1>2, Leads, <1>27
     DEF CandidateCapped, CapSaves, Drops, Steps
<1>28. ASSUME NEW i \in Candidates, CandidateReselects(i)
      PROVE  I'
  BY <1>1, <1>2, Leads, <1>28
     DEF CandidateReselects, Drops, Steps
<1> QED
  BY <1>1, <1>3, <1>4, <1>5, <1>6, <1>7, <1>8, <1>9, <1>10, <1>11, <1>12, <1>13, <1>14,
     <1>15, <1>16, <1>17, <1>18, <1>19, <1>20, <1>21, <1>22, <1>23, <1>24, <1>25, <1>26,
     <1>27, <1>28
     DEF Next, RunNext, PlanNext, ExecuteNext, FanoutNext

LEMMA PoolStep ==
    ASSUME TypedInv, [Next]_vars
    PROVE  /\ (pc = "race" => 1 \in Candidates)'
           /\ (pc \in {"adopt", "replay"} => me.winner \in Pool)'
<1> DEFINE I == /\ pc = "race" => 1 \in Candidates
                /\ pc \in {"adopt", "replay"} => me.winner \in Pool
<1> SUFFICES I'
  OBVIOUS
<1> USE DEF TypedInv, WorkTypeOK, Grounded
<1>1. CASE UNCHANGED vars
  BY <1>1 DEF Candidates, Pool, Verifying, Uncapped, Survivors
<1>2. me \in Memory
  OBVIOUS
<1>3. cands' = cands => Candidates' = Candidates /\ Pool' = Pool
  BY DEF Candidates, Pool, Verifying, Uncapped, Survivors
<1>4. CASE Enter
  BY <1>4, <1>2, NamesAre, MemoryHas
     DEF Enter, Late, Resumed
<1>5. CASE Race
  BY <1>5
     DEF Race, Funded, Candidates
<1>6. CASE JudgeChooses
  BY <1>6, <1>3
     DEF JudgeChooses, Judging, Memory
<1>7. CASE JudgeVerifies \/ Adopt
  BY <1>7, <1>3
     DEF JudgeVerifies, Steps, Adopt, Memory
<1>8. CASE Replay
  BY <1>8, <1>3
     DEF Replay, ToReplay, Open, Memory
<1>9. ASSUME NEW i \in Candidates, CandidateClaims(i)
      PROVE  I'
  BY <1>9
     DEF CandidateClaims, Steps, Candidates
<1>10. ASSUME NEW i \in Candidates, CandidateBroke(i)
      PROVE  I'
  BY <1>10
     DEF CandidateBroke, Drops, Steps, Candidates
<1>11. ASSUME NEW i \in Candidates, CandidateWorks(i)
      PROVE  I'
  BY <1>11
     DEF CandidateWorks, Passed, Rest, Steps, Candidates
<1>12. ASSUME NEW i \in Candidates, CandidateCapped(i)
      PROVE  I'
  BY <1>12
     DEF CandidateCapped, CapSaves, Drops, Steps, Candidates
<1>13. ASSUME NEW i \in Candidates, CandidateReselects(i)
      PROVE  I'
  BY <1>13
     DEF CandidateReselects, Drops, Steps, Candidates
<1>14. CASE Boot \/ BootFails \/ ReconcileFresh \/ ReconcileResume \/ ReconcileFails
         \/ EnterFails \/ ReenterReview
  BY <1>1, <1>2, <1>3, Leads, <1>14
     DEF Boot, Recovered, BootFails, ReconcileFresh, ReconcileResume, Adopted,
         ReconcileFails, EnterFails, ReenterReview
<1>15. CASE Park \/ Release \/ Crash \/ Sweep \/ HumanPushes \/ Draft
  BY <1>1, <1>2, <1>3, Leads, <1>15
     DEF Park, Saved, Release, Crash, Sweep, HumanPushes, Draft, Drafted, Plans, MobDrafts,
         SoloDrafts, Stays
<1>16. CASE Diagnose(ReselectCap) \/ DraftFails \/ Approve \/ Adjust \/ ApproveFails
         \/ Split
  BY <1>1, <1>2, <1>3, Leads, <1>16
     DEF Diagnose, Stays, DraftFails, Approve, Adjust, Reply, ApproveFails, Split
<1>17. CASE NoSplit \/ SplitFails \/ Note \/ CreateSubtask \/ CreateFails \/ Planned
  BY <1>1, <1>2, <1>3, Leads, <1>17
     DEF NoSplit, Stays, SplitFails, Note, CreateSubtask, ToCreate, CreateFails, Planned
<1>18. CASE Claim \/ ClaimFails \/ Executed \/ Writes \/ Measures \/ CommitsItself
  BY <1>1, <1>2, <1>3, Leads, <1>18
     DEF Claim, Solo, Open, Kept, Tree, History, ClaimFails, Board, Executed, Writes,
         Measures, Identity, CommitsItself
<1>19. CASE Finishes \/ Reselects \/ CoderFails \/ Gate \/ Fix \/ Regate
  BY <1>1, <1>2, <1>3, Leads, <1>19
     DEF Finishes, Kept, Board, Tree, History, Reselects, CoderFails, NoCoder, Gate, Fix,
         Regate
<1>20. CASE CommitWork \/ CommitNothing \/ CommitFails \/ Discuss \/ ReviseFails
         \/ Recheck
  BY <1>1, <1>2, <1>3, Leads, <1>20
     DEF CommitWork, Kept, Board, CommitNothing, Tree, History, CommitFails, Discuss,
         ReviseFails, Discarded, Checked, Recheck, Revised
<1>21. CASE Push \/ PushFails \/ Complete \/ CompleteFails \/ SalvageNothing \/ Salvage
  BY <1>1, <1>2, <1>3, Leads, <1>21
     DEF Push, Kept, Board, History, PushFails, Tree, Complete, CompleteFails,
         SalvageNothing, Salvage
<1>22. CASE Authority \/ Salvaged \/ StoppedAtWork \/ RaceFails \/ RaceSkipped \/ Join
  BY <1>1, <1>2, <1>3, Leads, <1>22
     DEF Authority, Kept, Board, History, Salvaged, Tree, StoppedAtWork, RaceFails,
         RaceSkipped, Join, Returned
<1>23. CASE RaceStopped \/ NothingToJudge \/ NobodyToJudge \/ JudgeFails \/ AdoptFails
         \/ Replayed
  BY <1>1, <1>2, <1>3, Leads, <1>23
     DEF RaceStopped, Returned, NothingToJudge, NobodyToJudge, Judging, JudgeFails, Leaves,
         AdoptFails, Replayed
<1>24. CASE Document \/ DocumentBroke \/ DocumentPushes \/ StartReview \/ StartReviewFails
         \/ Fixes
  BY <1>1, <1>2, <1>3, Leads, <1>24
     DEF Document, Undone, Rests, DocumentBroke, Tree, DocumentPushes, StartReview,
         StartReviewFails, Fixes
<1>25. CASE Discards \/ Approved \/ Parks \/ PhaseFails \/ ReadsTip \/ Rebase
  BY <1>1, <1>2, <1>3, Leads, <1>25
     DEF Discards, Rests, Approved, Tree, Parks, ParkedForPeople, PhaseFails, ReadsTip,
         Rebase, Rebased, SquashedOnConflict
<1>26. CASE IntegrateFails \/ LeasePush \/ LeaseFails \/ OpensPull \/ GatesPass \/ Done
  BY <1>1, <1>2, <1>3, Leads, <1>26
     DEF IntegrateFails, Rests, Tree, LeasePush, LeaseFails, OpensPull, GatesPass, Done
<1>27. CASE Stopped
  BY <1>1, <1>2, <1>3, Leads, <1>27
     DEF Stopped
<1>28. ASSUME NEW t \in Tasks, Cancel(t)
      PROVE  I'
  BY <1>1, <1>2, <1>3, Leads, <1>28
     DEF Cancel
<1> QED
  BY <1>1, <1>4, <1>5, <1>6, <1>7, <1>8, <1>9, <1>10, <1>11, <1>12, <1>13, <1>14, <1>15,
     <1>16, <1>17, <1>18, <1>19, <1>20, <1>21, <1>22, <1>23, <1>24, <1>25, <1>26, <1>27,
     <1>28
     DEF Next, RunNext, PlanNext, ExecuteNext, FanoutNext

LEMMA TypedStep == TypedInv /\ [Next]_vars => TypedInv'
BY WorkTypeStep, DraftsStep, PoolStep DEF TypedInv, Grounded

LEMMA TypedInit == Init => TypedInv
<1> SUFFICES ASSUME Init PROVE TypedInv
  OBVIOUS
<1>1. BoardTypeOK
  <2>1. /\ tc \in Cards /\ phase = "none" /\ state = "todo" /\ claim = FALSE /\ held = {}
        /\ sub = [t \in Tasks |-> "absent"] /\ start = [t \in Tasks |-> None]
        /\ extra = [made |-> 0, noted |-> 0]
    BY DEF Init
  <2>2. extra \in [made : Nat, noted : 0 .. 1]
    BY <2>1
  <2>3. sub \in [Tasks -> {"absent", "todo", "in_progress"} \cup Terminal]
    BY <2>1
  <2>4. start \in [Tasks -> Branches \cup {None}]
    BY <2>1
  <2> QED
    BY <2>1, <2>2, <2>3, <2>4 DEF BoardTypeOK
<1>2. TreeTypeOK
  <2>1. remote \in Branches \cup {None}
    BY DataTypes DEF Init
  <2>2. runs = 0 /\ local = Base /\ dirty = "none"
    BY DEF Init
  <2> QED
    <3>1. 0 \in 0 .. MaxRuns
      OBVIOUS
    <3>2. Base \in Branches
      BY DataTypes
    <3> QED
      BY <2>1, <2>2, <3>1, <3>2 DEF TreeTypeOK
<1>3. me \in Memory
  BY NamesAre DEF Init, Fresh, Memory, Endings
<1>4. RaceTypeOK
  BY DEF Init, RaceTypeOK, Candidates
<1>5. HistoryTypeOK
  BY DEF Init, HistoryTypeOK, Endings
<1>6. pc \in Places /\ Grounded
  BY DEF Init, Grounded, Places, Fresh
<1> QED
  BY <1>1, <1>2, <1>3, <1>4, <1>5, <1>6 DEF TypedInv, WorkTypeOK

(* Every variable stays in its type; a run drafts at most maxPlanDrafts plans *)
(* (plan.go, runPlan) and replaces at most so many models. *)
THEOREM WorkTypes == Spec => []WorkTypeOK
<1>1. TypedInv => WorkTypeOK
  BY DEF TypedInv
<1> QED
  BY TypedInit, TypedStep, <1>1, PTL DEF Spec

-----------------------------------------------------------------------------
(* What every argument uses: the card stays the card, and a run that does not *)
(* race never has candidates. *)

LEMMA CardKept == [Next]_vars => tc' = tc
<1> SUFFICES ASSUME [Next]_vars PROVE tc' = tc
  OBVIOUS
<1>1. CASE UNCHANGED tc
  BY <1>1
<1>2. CASE Boot \/ BootFails \/ ReconcileFresh \/ ReconcileResume \/ ReconcileFails
         \/ Enter \/ EnterFails \/ ReenterReview \/ Park \/ Release \/ Crash \/ Sweep
         \/ HumanPushes
  BY <1>1, <1>2
     DEF Boot, Recovered, BootFails, ReconcileFresh, ReconcileResume, Adopted,
         ReconcileFails, Enter, Late, Resumed, EnterFails, ReenterReview, Park, Saved,
         Release, Crash,
         Sweep, HumanPushes
<1>3. CASE Draft \/ Diagnose(ReselectCap) \/ DraftFails \/ Approve \/ Adjust
         \/ ApproveFails \/ Split \/ NoSplit \/ SplitFails \/ Note \/ CreateSubtask
         \/ CreateFails
  BY <1>1, <1>3
     DEF Draft, Drafted, Plans, MobDrafts, SoloDrafts, Stays, Diagnose, DraftFails, Approve,
         Adjust, Reply, ApproveFails, Split, NoSplit, SplitFails, Note, CreateSubtask,
         ToCreate, CreateFails
<1>4. CASE Planned \/ Claim \/ ClaimFails \/ Executed \/ Writes \/ Measures
         \/ CommitsItself \/ Finishes \/ Reselects \/ CoderFails \/ Gate \/ Fix
  BY <1>1, <1>4
     DEF Planned, Stays, Claim, Solo, Open, Kept, Tree, History, ClaimFails, Board,
         Executed, Writes, Measures, Identity, CommitsItself, Finishes, Reselects,
         CoderFails, NoCoder, Gate, Fix
<1>5. CASE Regate \/ CommitWork \/ CommitNothing \/ CommitFails \/ Discuss \/ ReviseFails
         \/ Recheck \/ Push \/ PushFails \/ Complete \/ CompleteFails \/ SalvageNothing
  BY <1>1, <1>5
     DEF Regate, Kept, Board, Tree, History, CommitWork, CommitNothing, CommitFails,
         Discuss, ReviseFails, Discarded, Checked, Recheck, Revised, Push, PushFails,
         Complete, CompleteFails, SalvageNothing
<1>6. CASE Salvage \/ Authority \/ Salvaged \/ StoppedAtWork \/ Race \/ RaceFails
         \/ RaceSkipped \/ Join \/ RaceStopped \/ NothingToJudge \/ JudgeVerifies
         \/ NobodyToJudge
  BY <1>1, <1>6
     DEF Salvage, Kept, Board, History, Authority, Salvaged, Tree, StoppedAtWork, Race,
         RaceFails, RaceSkipped, Join, Returned, RaceStopped, Leaves, NothingToJudge,
         JudgeVerifies,
         Steps, NobodyToJudge, Judging
<1>7. CASE JudgeChooses \/ JudgeFails \/ Adopt \/ AdoptFails \/ Replay \/ Replayed
         \/ Document \/ DocumentBroke \/ DocumentPushes \/ StartReview \/ StartReviewFails
         \/ Fixes
  BY <1>1, <1>7
     DEF JudgeChooses, Judging, JudgeFails, Adopt, AdoptFails, Replay, ToReplay, Open,
         Replayed, Document, Undone, Rests, DocumentBroke, Tree, DocumentPushes,
         StartReview, StartReviewFails, Fixes
<1>8. CASE Discards \/ Approved \/ Parks \/ PhaseFails \/ ReadsTip \/ Rebase
         \/ IntegrateFails \/ LeasePush \/ LeaseFails \/ OpensPull \/ GatesPass \/ Done
  BY <1>1, <1>8
     DEF Discards, Rests, Approved, Tree, Parks, ParkedForPeople, PhaseFails, ReadsTip,
         Rebase, Rebased, SquashedOnConflict, IntegrateFails, LeasePush, LeaseFails,
         OpensPull, GatesPass, Done
<1>9. CASE Stopped
  BY <1>1, <1>9
     DEF Stopped
<1>10. ASSUME NEW t \in Tasks, Cancel(t)
      PROVE  tc' = tc
  BY <1>1, <1>10
     DEF Cancel
<1>11. ASSUME NEW i \in Candidates, CandidateClaims(i)
      PROVE  tc' = tc
  BY <1>1, <1>11
     DEF CandidateClaims, Steps
<1>12. ASSUME NEW i \in Candidates, CandidateBroke(i)
      PROVE  tc' = tc
  BY <1>1, <1>12
     DEF CandidateBroke, Drops, Steps
<1>13. ASSUME NEW i \in Candidates, CandidateWorks(i)
      PROVE  tc' = tc
  BY <1>1, <1>13
     DEF CandidateWorks, Passed, Rest, Steps
<1>14. ASSUME NEW i \in Candidates, CandidateCapped(i)
      PROVE  tc' = tc
  BY <1>1, <1>14
     DEF CandidateCapped, CapSaves, Drops, Steps
<1>15. ASSUME NEW i \in Candidates, CandidateReselects(i)
      PROVE  tc' = tc
  BY <1>1, <1>15
     DEF CandidateReselects, Drops, Steps
<1> QED
  BY <1>1, <1>2, <1>3, <1>4, <1>5, <1>6, <1>7, <1>8, <1>9, <1>10, <1>11, <1>12, <1>13,
     <1>14, <1>15
     DEF Next, RunNext, PlanNext, ExecuteNext, FanoutNext

LEMMA AloneStep ==
    ASSUME TypedInv, [Next]_vars, ~tc.best, Alone
    PROVE  Alone'
<1> USE DEF Alone
<1> DEFINE I == Alone'
<1> SUFFICES I
  OBVIOUS
<1>1. CASE UNCHANGED <<pc, cands>>
  BY <1>1
<1>2. me \in Memory /\ Candidates = {}
  BY DEF TypedInv, WorkTypeOK, Candidates
<1>3. CASE Enter
  BY <1>3, <1>2, MemoryHas, NamesAre
     DEF Enter, Late, Resumed
<1>4. CASE Boot \/ BootFails \/ ReconcileFresh \/ ReconcileResume \/ ReconcileFails
         \/ EnterFails \/ ReenterReview \/ Park \/ Release
  BY <1>1, <1>2, Leads, <1>4
     DEF Boot, Recovered, BootFails, ReconcileFresh, ReconcileResume, Adopted,
         ReconcileFails, EnterFails, ReenterReview, Park, Saved, Release
<1>5. CASE Crash \/ Sweep \/ HumanPushes \/ Draft \/ Diagnose(ReselectCap) \/ DraftFails
         \/ Approve \/ Adjust
  BY <1>1, <1>2, Leads, <1>5
     DEF Crash, Sweep, HumanPushes, Draft, Drafted, Plans, MobDrafts, SoloDrafts, Stays,
         Diagnose, DraftFails, Approve, Adjust, Reply
<1>6. CASE ApproveFails \/ Split \/ NoSplit \/ SplitFails \/ Note \/ CreateSubtask
         \/ CreateFails \/ Planned
  BY <1>1, <1>2, Leads, <1>6
     DEF ApproveFails, Stays, Split, NoSplit, SplitFails, Note, CreateSubtask, ToCreate,
         CreateFails, Planned
<1>7. CASE Claim \/ ClaimFails \/ Executed \/ Writes \/ Measures \/ CommitsItself
         \/ Finishes \/ Reselects
  BY <1>1, <1>2, Leads, <1>7
     DEF Claim, Solo, Open, Kept, Tree, History, ClaimFails, Board, Executed, Writes,
         Measures, Identity, CommitsItself, Finishes, Reselects
<1>8. CASE CoderFails \/ Gate \/ Fix \/ Regate \/ CommitWork \/ CommitNothing
         \/ CommitFails \/ Discuss
  BY <1>1, <1>2, Leads, <1>8
     DEF CoderFails, NoCoder, Kept, Board, Tree, History, Gate, Fix, Regate, CommitWork,
         CommitNothing, CommitFails, Discuss
<1>9. CASE ReviseFails \/ Recheck \/ Push \/ PushFails \/ Complete \/ CompleteFails
         \/ SalvageNothing \/ Salvage
  BY <1>1, <1>2, Leads, <1>9
     DEF ReviseFails, Discarded, Checked, Kept, Board, History, Recheck, Revised, Push,
         PushFails, Tree, Complete, CompleteFails, SalvageNothing, Salvage
<1>10. CASE Authority \/ Salvaged \/ StoppedAtWork \/ Race \/ RaceFails \/ RaceSkipped
         \/ Join \/ RaceStopped
  BY <1>1, <1>2, Leads, <1>10
     DEF Authority, Kept, Board, History, Salvaged, Tree, StoppedAtWork, Race, RaceFails,
         RaceSkipped, Join, Returned, RaceStopped, Leaves
<1>11. CASE NothingToJudge \/ JudgeVerifies \/ NobodyToJudge \/ JudgeChooses \/ JudgeFails
         \/ Adopt \/ AdoptFails \/ Replay
  BY <1>1, <1>2, Leads, <1>11
     DEF NothingToJudge, JudgeVerifies, Steps, NobodyToJudge, Judging, Returned,
         JudgeChooses, JudgeFails, Adopt, AdoptFails, Replay, ToReplay, Open
<1>12. CASE Replayed \/ Document \/ DocumentBroke \/ DocumentPushes \/ StartReview
         \/ StartReviewFails \/ Fixes \/ Discards
  BY <1>1, <1>2, Leads, <1>12
     DEF Replayed, Document, Undone, Rests, DocumentBroke, Tree, DocumentPushes,
         StartReview, StartReviewFails, Fixes, Discards
<1>13. CASE Approved \/ Parks \/ PhaseFails \/ ReadsTip \/ Rebase \/ IntegrateFails
         \/ LeasePush \/ LeaseFails
  BY <1>1, <1>2, Leads, <1>13
     DEF Approved, Rests, Tree, Parks, ParkedForPeople, PhaseFails, ReadsTip, Rebase,
         Rebased, SquashedOnConflict, IntegrateFails, LeasePush, LeaseFails
<1>14. CASE OpensPull \/ GatesPass \/ Done \/ Stopped
  BY <1>1, <1>2, Leads, <1>14
     DEF OpensPull, Rests, Tree, GatesPass, Done, Stopped
<1>15. ASSUME NEW t \in Tasks, Cancel(t)
      PROVE  I
  BY <1>1, <1>2, Leads, <1>15
     DEF Cancel
<1>16. ASSUME NEW i \in Candidates, CandidateClaims(i)
      PROVE  I
  BY <1>1, <1>2, Leads, <1>16
     DEF CandidateClaims, Steps
<1>17. ASSUME NEW i \in Candidates, CandidateBroke(i)
      PROVE  I
  BY <1>1, <1>2, Leads, <1>17
     DEF CandidateBroke, Drops, Steps
<1>18. ASSUME NEW i \in Candidates, CandidateWorks(i)
      PROVE  I
  BY <1>1, <1>2, Leads, <1>18
     DEF CandidateWorks, Passed, Rest, Steps
<1>19. ASSUME NEW i \in Candidates, CandidateCapped(i)
      PROVE  I
  BY <1>1, <1>2, Leads, <1>19
     DEF CandidateCapped, CapSaves, Drops, Steps
<1>20. ASSUME NEW i \in Candidates, CandidateReselects(i)
      PROVE  I
  BY <1>1, <1>2, Leads, <1>20
     DEF CandidateReselects, Drops, Steps
<1> QED
  BY <1>1, <1>3, <1>4, <1>5, <1>6, <1>7, <1>8, <1>9, <1>10, <1>11, <1>12, <1>13, <1>14,
     <1>15, <1>16, <1>17, <1>18, <1>19, <1>20
     DEF Next, RunNext, PlanNext, ExecuteNext, FanoutNext

-----------------------------------------------------------------------------
(* The race. *)

LEMMA RaceInvStep == TypedInv /\ RaceInv /\ [Next]_vars => RaceInv'
<1> SUFFICES ASSUME TypedInv, RaceInv, [Next]_vars PROVE RaceInv'
  OBVIOUS
<1>1. CASE UNCHANGED <<pc, sub, me, cands>>
  BY <1>1 DEF RaceInv, InRace, Survivors, Candidates, Open
<1>2. me \in Memory /\ RaceTypeOK
  BY DEF TypedInv, WorkTypeOK
<1>3. cands' = << >> => RaceInv'
  BY DEF RaceInv, Survivors, Candidates
<1>4. pc' \in {"park", "release"} => RaceInv'
  BY DEF RaceInv, InRace
<1>5. InRace \/ pc \in {"park", "release"} \/ cands = << >>
  BY DEF RaceInv
<1>6. ASSUME cands' = cands, sub' = sub, me'.plan = me.plan
      PROVE  Open' = Open /\ Survivors' = Survivors
  BY <1>6 DEF Open, Survivors, Candidates, Terminal
<1>7. ASSUME Survivors' = Survivors, \A i \in Survivors : cands'[i].at = cands[i].at,
             Open' \subseteq Open, InRace, pc' # "race", cands' # << >> => InRace'
      PROVE  RaceInv'
  BY <1>7 DEF RaceInv
<1>8. CASE Race
  <2>1. pc' = "race" /\ Open' = Open /\ NextTask \in Open
    BY <1>8, <1>2, NextTasks DEF Race, Open
  <2>2. PICK n \in Funded :
           cands' = [i \in 1 .. n |-> [at |-> NextTask, step |-> "claim", work |-> local,
                                       capped |-> FALSE, verdict |-> "unknown"]]
    BY <1>8 DEF Race
  <2>3. Survivors' = {}
    BY <2>2 DEF Survivors, Candidates
  <2>4. \A i \in Candidates' : cands'[i].at \in Open'
    BY <2>1, <2>2 DEF Candidates
  <2> QED
    BY <2>1, <2>3, <2>4 DEF RaceInv, InRace
<1>9. CASE Join \/ RaceStopped
  <2>1. Open' = Open /\ cands' = cands /\ InRace
    BY <1>9, <1>2, <1>6, Leads DEF Join, RaceStopped, Leaves, InRace
  <2>2. InRace' \/ pc' = "park"
    BY <1>9, <1>2, Leads DEF Join, RaceStopped, Leaves, InRace
  <2>3. Survivors' = Survivors /\ pc' # "race"
    BY <1>9, <1>2, <1>6, Leads DEF Join, RaceStopped, Leaves
  <2> QED
    BY <1>4, <1>7, <2>1, <2>2, <2>3
<1>10. CASE Enter
  <2>1. CASE cands = << >>
    BY <1>10, <1>3, <2>1 DEF Enter
  <2>2. CASE cands # << >>
    <3>1. InRace /\ pc' = "judge"
      BY <1>10, <1>5, <2>2 DEF Enter, InRace
    <3>2. cands' = cands /\ Open' = Open /\ Survivors' = Survivors /\ InRace' /\ pc' # "race"
      BY <1>10, <1>6, <3>1 DEF Enter, InRace
    <3> QED
      BY <1>7, <3>1, <3>2
  <2> QED
    BY <2>1, <2>2
<1>11. CASE JudgeVerifies
  <2>1. PICK i \in Survivors : \E v : cands' = [cands EXCEPT ![i] = [cands[i] EXCEPT !.verdict = v]]
    BY <1>11 DEF JudgeVerifies, Steps
  <2>2. PICK v : cands' = [cands EXCEPT ![i] = [cands[i] EXCEPT !.verdict = v]]
    BY <2>1
  <2>3. /\ Candidates' = Candidates
        /\ \A j \in Candidates : cands'[j].step = cands[j].step /\ cands'[j].at = cands[j].at
    BY <1>2, <2>2 DEF RaceTypeOK, Candidates, Cand
  <2>4. Survivors' = Survivors /\ Open' = Open
    BY <1>11, <2>3 DEF Survivors, Open, JudgeVerifies
  <2>5. InRace /\ InRace' /\ pc' # "race"
    BY <1>11 DEF JudgeVerifies, InRace
  <2> QED
    BY <1>7, <2>3, <2>4, <2>5 DEF Survivors
<1>12. CASE JudgeChooses \/ Adopt
  <2>1. me'.plan = me.plan /\ cands' = cands /\ sub' = sub
    BY <1>12, <1>2 DEF JudgeChooses, Adopt, Memory
  <2>2. InRace /\ InRace' /\ pc' # "race"
    BY <1>12 DEF JudgeChooses, Judging, Adopt, InRace
  <2> QED
    BY <1>6, <1>7, <2>1, <2>2
<1>13. CASE Replay
  <2>1. /\ me'.plan = me.plan /\ cands' = cands /\ InRace /\ InRace' /\ pc' # "race"
        /\ sub' = sub \/ \E t : sub' = [sub EXCEPT ![t] = "done"]
    BY <1>13, <1>2 DEF Replay, InRace, Memory
  <2>2. Open' \subseteq Open /\ Survivors' = Survivors
    <3>1. \A u \in Tasks : sub'[u] = sub[u] \/ sub'[u] = "done"
      BY <2>1 DEF TypedInv, WorkTypeOK, BoardTypeOK
    <3>2. me.plan \subseteq Tasks
      BY <1>2, MemoryHas
    <3>3. Open' \subseteq Open
      BY <2>1, <3>1, <3>2 DEF Open, Terminal
    <3> QED
      BY <2>1, <3>3 DEF Survivors, Candidates
  <2> QED
    BY <1>7, <2>1, <2>2
<1>14. ASSUME NEW i \in Candidates, CandidateClaims(i)
      PROVE  RaceInv'
  <2>1. cands[i].at \in Open /\ pc = "race" /\ pc' = "race" /\ me'.plan = me.plan
    BY <1>14, <1>2 DEF CandidateClaims, RaceInv, Racing, Memory
  <2>2. sub' = sub \/ sub' = [sub EXCEPT ![cands[i].at] = "in_progress"]
    BY <1>14 DEF CandidateClaims
  <2>3. Open' = Open
    <3>1. \A u \in Tasks : sub'[u] = sub[u] \/ (u = cands[i].at /\ sub'[u] = "in_progress")
      BY <2>2 DEF TypedInv, WorkTypeOK, BoardTypeOK
    <3>2. me.plan \subseteq Tasks
      BY <1>2, MemoryHas
    <3> QED
      BY <2>1, <3>1, <3>2 DEF Open, Terminal
  <2>4. cands' = [cands EXCEPT ![i] = [cands[i] EXCEPT !.step = "code"]]
    BY <1>14 DEF CandidateClaims, Steps
  <2>5. /\ Candidates' = Candidates
        /\ \A j \in Candidates \ {i} : cands'[j] = cands[j]
        /\ cands'[i].step = "code" /\ cands'[i].at = cands[i].at
    BY <1>2, <2>4 DEF RaceTypeOK, Candidates, Cand
  <2> QED
    BY <2>1, <2>3, <2>5 DEF RaceInv, InRace, Survivors
<1>15. ASSUME NEW i \in Candidates, CandidateBroke(i)
      PROVE  RaceInv'
  <2>1. pc = "race" /\ pc' = "race" /\ Open' = Open
    BY <1>15 DEF CandidateBroke, Open
  <2>2. cands' = [cands EXCEPT ![i] = [cands[i] EXCEPT !.step = "budget"]]
    BY <1>15 DEF CandidateBroke, Drops, Steps
  <2>3. /\ Candidates' = Candidates
        /\ \A j \in Candidates \ {i} : cands'[j] = cands[j]
        /\ cands'[i].step = "budget"
    BY <1>2, <2>2 DEF RaceTypeOK, Candidates, Cand
  <2> QED
    BY <2>1, <2>3 DEF RaceInv, InRace, Survivors, Racing
<1>16. ASSUME NEW i \in Candidates, CandidateWorks(i)
      PROVE  RaceInv'
  <2>1. pc = "race" /\ pc' = "race" /\ Open' = Open /\ cands[i].step = "code"
    BY <1>16 DEF CandidateWorks, Open
  <2>2. PICK w : cands' = [cands EXCEPT ![i] = [cands[i] EXCEPT !.step = Passed(i).step,
                                                       !.at = Passed(i).at, !.work = w]]
    BY <1>16 DEF CandidateWorks, Steps
  <2>3. /\ Candidates' = Candidates
        /\ \A j \in Candidates \ {i} : cands'[j] = cands[j]
        /\ cands'[i].step = Passed(i).step /\ cands'[i].at = Passed(i).at
    BY <1>2, <2>2 DEF RaceTypeOK, Candidates, Cand
  <2>4. CASE Passed(i).step = "claim"
    <3>1. Passed(i).at \in Open
      BY <2>4, PassedTypes DEF TypedInv
    <3> QED
      BY <2>1, <2>3, <2>4, <3>1 DEF RaceInv, InRace, Survivors
  <2>5. CASE Passed(i).step = "finished"
    <3>1. \A t \in Open : t <= Passed(i).at
      <4>1. Rest(i) = {} /\ Passed(i).at = cands[i].at
        BY <2>5, PassedTypes DEF TypedInv
      <4>2. Open \subseteq Tasks /\ cands[i].at \in Tasks
        BY <1>2, NextTasks DEF RaceTypeOK, Cand
      <4> QED
        BY <4>1, <4>2 DEF Rest, Tasks
    <3> QED
      BY <2>1, <2>3, <2>5, <3>1 DEF RaceInv, InRace, Survivors, Racing
  <2> QED
    BY <2>4, <2>5, PassedTypes DEF TypedInv
<1>17. ASSUME NEW i \in Candidates, CandidateCapped(i)
      PROVE  RaceInv'
  <2>1. pc = "race" /\ pc' = "race" /\ Open' = Open /\ cands[i].step = "code"
    BY <1>17 DEF CandidateCapped, Open
  <2>2. CASE CapSaves(i) /\ \E g \in BOOLEAN :
               Steps(i, [cands[i] EXCEPT !.step = "finished", !.capped = TRUE,
                                         !.work = Commit(@, cands[i].at, g)])
    <3>0. PICK w : cands' = [cands EXCEPT ![i] = [cands[i] EXCEPT !.step = "finished",
                                                    !.capped = TRUE, !.work = w]]
      BY <2>2 DEF Steps
    <3>1. /\ Candidates' = Candidates
          /\ \A j \in Candidates \ {i} : cands'[j] = cands[j]
          /\ cands'[i].step = "finished" /\ cands'[i].at = cands[i].at
      BY <1>2, <3>0 DEF RaceTypeOK, Candidates, Cand
    <3>2. Open \subseteq Tasks /\ cands[i].at \in Tasks /\ Rest(i) = {}
      BY <1>2, <2>2, NextTasks DEF RaceTypeOK, Cand, CapSaves
    <3>3. \A t \in Open : t <= cands[i].at
      BY <3>2 DEF Rest, Tasks
    <3> QED
      BY <2>1, <3>1, <3>3 DEF RaceInv, InRace, Survivors, Racing
  <2>3. CASE Drops(i, "turns")
    <3>1. /\ Candidates' = Candidates
          /\ \A j \in Candidates \ {i} : cands'[j] = cands[j]
          /\ cands'[i].step = "turns"
      BY <1>2, <2>3 DEF Drops, Steps, RaceTypeOK, Candidates, Cand
    <3> QED
      BY <2>1, <3>1 DEF RaceInv, InRace, Survivors, Racing
  <2> QED
    BY <1>17, <2>2, <2>3 DEF CandidateCapped
<1>18. ASSUME NEW i \in Candidates, CandidateReselects(i)
      PROVE  RaceInv'
  <2>1. pc = "race" /\ pc' = "race" /\ Open' = Open /\ cands[i].step = "code"
    BY <1>18, <1>2 DEF CandidateReselects, Open, Memory
  <2>2. CASE cands' = cands
    BY <2>1, <2>2 DEF RaceInv, InRace, Survivors, Candidates
  <2>3. CASE Drops(i, "error")
    <3>1. /\ Candidates' = Candidates
          /\ \A j \in Candidates \ {i} : cands'[j] = cands[j]
          /\ cands'[i].step = "error"
      BY <1>2, <2>3 DEF Drops, Steps, RaceTypeOK, Candidates, Cand
    <3> QED
      BY <2>1, <3>1 DEF RaceInv, InRace, Survivors, Racing
  <2> QED
    BY <1>18, <2>2, <2>3 DEF CandidateReselects
<1>19. CASE Boot \/ BootFails \/ ReconcileFresh \/ ReconcileResume \/ ReconcileFails
         \/ EnterFails \/ ReenterReview
  BY <1>1, <1>2, <1>3, <1>4, <1>5, Leads, <1>19
     DEF Boot, Recovered, BootFails, ReconcileFresh, ReconcileResume, Adopted,
         ReconcileFails, EnterFails, ReenterReview, InRace
<1>20. CASE Park \/ Release \/ Crash \/ Sweep \/ HumanPushes \/ Draft
  BY <1>1, <1>2, <1>3, <1>4, <1>5, Leads, <1>20
     DEF Park, Saved, Release, Crash, Sweep, HumanPushes, Draft, Drafted, Plans, MobDrafts,
         SoloDrafts, Stays, InRace
<1>21. CASE Diagnose(ReselectCap) \/ DraftFails \/ Approve \/ Adjust \/ ApproveFails
         \/ Split
  BY <1>1, <1>2, <1>3, <1>4, <1>5, Leads, <1>21
     DEF Diagnose, Stays, DraftFails, Approve, Adjust, Reply, ApproveFails, Split, InRace
<1>22. CASE NoSplit \/ SplitFails \/ Note \/ CreateSubtask \/ CreateFails \/ Planned
  BY <1>1, <1>2, <1>3, <1>4, <1>5, Leads, <1>22
     DEF NoSplit, Stays, SplitFails, Note, CreateSubtask, ToCreate, CreateFails, Planned,
         InRace
<1>23. CASE Claim \/ ClaimFails \/ Executed \/ Writes \/ Measures \/ CommitsItself
  BY <1>1, <1>2, <1>3, <1>4, <1>5, Leads, <1>23
     DEF Claim, Solo, Open, Kept, Tree, History, ClaimFails, Board, Executed, Writes,
         Measures, Identity, CommitsItself, InRace
<1>24. CASE Finishes \/ Reselects \/ CoderFails \/ Gate \/ Fix \/ Regate
  BY <1>1, <1>2, <1>3, <1>4, <1>5, Leads, <1>24
     DEF Finishes, Kept, Board, Tree, History, Reselects, CoderFails, NoCoder, Gate, Fix,
         Regate, InRace
<1>25. CASE CommitWork \/ CommitNothing \/ CommitFails \/ Discuss \/ ReviseFails
         \/ Recheck
  BY <1>1, <1>2, <1>3, <1>4, <1>5, Leads, <1>25
     DEF CommitWork, Kept, Board, CommitNothing, Tree, History, CommitFails, Discuss,
         ReviseFails, Discarded, Checked, Recheck, Revised, InRace
<1>26. CASE Push \/ PushFails \/ Complete \/ CompleteFails \/ SalvageNothing \/ Salvage
  BY <1>1, <1>2, <1>3, <1>4, <1>5, Leads, <1>26
     DEF Push, Kept, Board, History, PushFails, Tree, Complete, CompleteFails,
         SalvageNothing, Salvage, InRace
<1>27. CASE Authority \/ Salvaged \/ StoppedAtWork \/ RaceFails \/ RaceSkipped
         \/ NothingToJudge
  BY <1>1, <1>2, <1>3, <1>4, <1>5, Leads, <1>27
     DEF Authority, Kept, Board, History, Salvaged, Tree, StoppedAtWork, RaceFails,
         RaceSkipped, NothingToJudge, InRace
<1>28. CASE NobodyToJudge \/ JudgeFails \/ AdoptFails \/ Replayed \/ Document
         \/ DocumentBroke
  BY <1>1, <1>2, <1>3, <1>4, <1>5, Leads, <1>28
     DEF NobodyToJudge, Judging, Returned, JudgeFails, AdoptFails, Replayed, Document,
         Undone, Rests, DocumentBroke, Tree, InRace
<1>29. CASE DocumentPushes \/ StartReview \/ StartReviewFails \/ Fixes \/ Discards
         \/ Approved
  BY <1>1, <1>2, <1>3, <1>4, <1>5, Leads, <1>29
     DEF DocumentPushes, Rests, StartReview, Tree, StartReviewFails, Fixes, Discards,
         Approved, InRace
<1>30. CASE Parks \/ PhaseFails \/ ReadsTip \/ Rebase \/ IntegrateFails \/ LeasePush
  BY <1>1, <1>2, <1>3, <1>4, <1>5, Leads, <1>30
     DEF Parks, ParkedForPeople, PhaseFails, Rests, Tree, ReadsTip, Rebase, Rebased,
         SquashedOnConflict, IntegrateFails, LeasePush, InRace
<1>31. CASE LeaseFails \/ OpensPull \/ GatesPass \/ Done \/ Stopped
  BY <1>1, <1>2, <1>3, <1>4, <1>5, Leads, <1>31
     DEF LeaseFails, Rests, Tree, OpensPull, GatesPass, Done, Stopped, InRace
<1>32. ASSUME NEW t \in Tasks, Cancel(t)
      PROVE  RaceInv'
  BY <1>1, <1>2, <1>3, <1>4, <1>5, Leads, <1>32
     DEF Cancel, InRace
<1> QED
  BY <1>1, <1>8, <1>9, <1>10, <1>11, <1>12, <1>13, <1>14, <1>15, <1>16, <1>17, <1>18, <1>19,
     <1>20, <1>21, <1>22, <1>23, <1>24, <1>25, <1>26, <1>27, <1>28, <1>29, <1>30, <1>31,
     <1>32
     DEF Next, RunNext, PlanNext, ExecuteNext, FanoutNext

LEMMA RaceInit == Init => RaceInv
BY DEF Init, RaceInv, InRace

(* The adopted candidate passed the verify command if any did, and was not    *)
(* cut short by its turn cap if none did (judge.go, verifyingCandidates and   *)
(* uncappedCandidates). *)
THEOREM WinnerIsOneOfTheBest == Spec => []WinnerIsBest
<1>1. TypedInv => WinnerIsBest
  BY DEF TypedInv, Grounded, WinnerIsBest, Pool, Verifying, Uncapped
<1> QED
  BY TypedInit, TypedStep, <1>1, PTL DEF Spec

(* The adopted candidate got to the last open subtask: the replay completes   *)
(* no subtask nobody worked on (candidates.go, runCandidate). *)
THEOREM WinnerDidEverything == Spec => []WinnerDidAll
<1>1. TypedInv /\ RaceInv => WinnerDidAll
  BY DEF TypedInv, Grounded, RaceInv, InRace, WinnerDidAll, Pool, Verifying, Uncapped
<1> QED
  BY TypedInit, RaceInit, TypedStep, RaceInvStep, <1>1, PTL DEF Spec
==============================================================================
