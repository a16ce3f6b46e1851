--------------------------- MODULE WorkCardProofs ----------------------------
(* Theorems about Work and the card: its plan, its follow-up cards, the       *)
(* claims on its subtasks, and where none of them is open any more.           *)
EXTENDS WorkProofs

USE CardAssumption, PlanAssumption, ExecuteAssumption, FanoutAssumption
USE DEF vars, cm, proc, Goto, Remember, Fault

(* Until a plan is approved the run is at it, and what it has is not its own. *)
ApprovalInv ==
    tc.human /\ ~past.approved =>
        /\ pc \in {"idle", "reconcile", "enter", "plan", "approve", "park", "release"}
        /\ pc \in {"reconcile", "enter"} => me.next = "plan"
        /\ phase \in {"none", "plan"}
        /\ dirty = "none"
        /\ cands = << >>
        /\ \A m \in local.work : m.run = 0
        /\ NothingBeforeApproval

(* What the run knows of the record is what the record says, and a card that  *)
(* is not in it is one the run is about to record, or one that was torn.      *)
SplitInv ==
    /\ pc \in {"reconcile", "plan", "approve", "split"} \/ (pc = "enter" /\ me.next = "plan")
          => me.known = extra.noted
    /\ extra.made <= (IF pc = "note" THEN 1 ELSE extra.noted) + past.torn

(* Where the claims of the run are, those it leaves to the sweep apart. *)
Owed == held \ past.leak
ClaimInv ==
    ~Fault("card") =>
        /\ pc # "idle" => claim
        /\ Owed # {} => claim
        /\ pc = "idle" /\ past.ended # "crash" => Owed = {}
        /\ AtSubtask => Owed \subseteq {me.at}
        /\ InRace => Owed \subseteq me.once \cap Open
        /\ InRace /\ cands = << >> => Owed = {}
        /\ pc = "replay" => \A t \in Owed : t > me.at
        /\ Owed = {} \/ AtSubtask \/ InRace \/ pc = "idle"

(* Where nothing of the card is open any more, and how the run gets there: it *)
(* has all the subtasks in its plan, and all of them were created. *)
LatePhases == {"document", "review", "integrate", "pr_gates", "done"}
AllTerminal == \A t \in Tasks : sub[t] \in Terminal
AllCreated == \A t \in Tasks : sub[t] # "absent"
Behind == \/ pc \in LatePhases \cup {"docpush", "reviewing", "rebase", "lease", "pull"}
          \/ pc \in {"reconcile", "enter"} /\ me.next \in LatePhases
Planning == pc \in {"approve", "split", "note", "subtasks"}
Executing == \/ AtSubtask \/ pc \in {"execute", "race", "judge", "adopt", "replay"}
             \/ pc = "enter" /\ me.next \in {"execute", "judge"}
Judged == pc = "judge" \/ (pc = "enter" /\ me.next = "judge")
Begun == phase \notin {"none", "plan"}
AtNone == pc \in {"reconcile", "enter", "plan", "approve", "split", "note"} => me.at = 0
Resumes == pc = "reconcile" =>
    /\ phase = "none" => me.next = "plan"
    /\ me.next # "judge" /\ (me.next # "plan" => Begun)
SettledInv ==
    ~Fault("redraft") /\ ~(tc.best /\ Fault("card")) =>
        /\ PastExecute
        /\ ~tc.best => Alone
        /\ AtNone /\ Resumes
        /\ Behind => AllTerminal
        /\ Begun \/ Executing => AllCreated
        /\ Planning \/ Executing => me.plan = Tasks
        /\ pc = "subtasks" => \A t \in Tasks : t <= me.at => sub[t] # "absent"
        /\ Judged /\ cands = << >> => AllTerminal
        /\ pc = "replay" => \A t \in Open : t > me.at

-----------------------------------------------------------------------------
(* The follow-up cards. *)

LEMMA SplitStep == TypedInv /\ SplitInv /\ [Next]_vars => SplitInv'
<1> SUFFICES ASSUME TypedInv, SplitInv, [Next]_vars PROVE SplitInv'
  OBVIOUS
<1> USE DEF SplitInv
<1>1. CASE UNCHANGED vars
  BY <1>1
<1>2. me \in Memory /\ me.known \in 0 .. 1 /\ extra.made \in Nat /\ extra.noted \in 0 .. 1
      /\ past.torn \in Nat
  BY MemoryHas DEF TypedInv, WorkTypeOK, BoardTypeOK, HistoryTypeOK
<1>3. extra \in [made : Nat, noted : 0 .. 1]
  BY DEF TypedInv, WorkTypeOK, BoardTypeOK
<1>4. /\ past'.torn = past.torn \/ (pc = "note" /\ past'.torn = past.torn + 1)
      /\ (Crash \/ Stopped) /\ pc = "note" => past'.torn = past.torn + 1
  BY PastLeads, TornLeads
<1>5. CASE Boot
  BY <1>5, <1>2
     DEF Boot, Recovered, Fresh
<1>6. CASE ReconcileFresh
  BY <1>6, <1>2
     DEF ReconcileFresh, Memory
<1>7. CASE ReconcileResume
  BY <1>7, <1>2
     DEF ReconcileResume, Adopted, Memory
<1>8. CASE Diagnose(ReselectCap)
  BY <1>8, <1>2
     DEF Diagnose, Stays, Memory
<1>9. CASE Draft
  BY <1>9, <1>2
     DEF Draft, Drafted, Plans, MobDrafts, SoloDrafts, Stays, Memory
<1>10. CASE Enter
  BY <1>10, <1>2, NamesAre, MemoryHas
     DEF Enter, Late, Resumed
<1>11. CASE Split
  BY <1>11, <1>2, <1>3
     DEF Split, Stays, Recorded
<1>12. CASE Note
  BY <1>12, <1>3, TornLeads, <1>2, <1>4, Leads
     DEF Note, Stays
<1>13. CASE DocumentPushes
  BY <1>13, <1>2, <1>4, Leads
     DEF DocumentPushes, Rests, Memory
<1>14. CASE CommitsItself
  BY <1>14, <1>2, <1>4, Leads
     DEF CommitsItself, Kept, Board
<1>15. CASE JudgeFails
  BY <1>15, <1>2, <1>4, Leads
     DEF JudgeFails
<1>16. CASE Release \/ BootFails
  BY <1>16, <1>2, <1>4, Leads
     DEF Release, BootFails
<1>17. CASE Crash \/ Stopped
  BY <1>17, <1>2, <1>4, Leads
     DEF Crash, Stopped
<1>18. CASE ReconcileFails \/ EnterFails \/ ReenterReview \/ Park \/ Sweep
         \/ HumanPushes \/ DraftFails
  BY <1>1, <1>2, <1>4, Leads, <1>18
     DEF ReconcileFails, EnterFails, ReenterReview, Park, Saved, Sweep, HumanPushes,
         DraftFails, Stays
<1>19. CASE Approve \/ Adjust \/ ApproveFails \/ NoSplit \/ SplitFails \/ CreateSubtask
  BY <1>1, <1>2, <1>4, Leads, <1>19
     DEF Approve, Stays, Adjust, Reply, ApproveFails, NoSplit, SplitFails, CreateSubtask,
         ToCreate
<1>20. CASE CreateFails \/ Planned \/ Claim \/ ClaimFails \/ Executed \/ Writes
  BY <1>1, <1>2, <1>4, Leads, <1>20
     DEF CreateFails, Stays, Planned, Claim, Solo, Open, Kept, Tree, History, ClaimFails,
         Board, Executed, Writes
<1>21. CASE Measures \/ Finishes \/ Reselects \/ CoderFails \/ Gate \/ Fix
  BY <1>1, <1>2, <1>4, Leads, <1>21
     DEF Measures, Identity, Kept, Board, Tree, History, Finishes, Reselects, CoderFails,
         NoCoder, Gate, Fix
<1>22. CASE Regate \/ CommitWork \/ CommitNothing \/ CommitFails \/ Discuss \/ ReviseFails
  BY <1>1, <1>2, <1>4, Leads, <1>22
     DEF Regate, Kept, Board, Tree, History, CommitWork, CommitNothing, CommitFails,
         Discuss, ReviseFails, Discarded, Checked
<1>23. CASE Recheck \/ Push \/ PushFails \/ Complete \/ CompleteFails \/ SalvageNothing
  BY <1>1, <1>2, <1>4, Leads, <1>23
     DEF Recheck, Discarded, Checked, Revised, Kept, Board, History, Push, PushFails, Tree,
         Complete, CompleteFails, SalvageNothing
<1>24. CASE Salvage \/ Authority \/ Salvaged \/ StoppedAtWork \/ Race \/ RaceFails
  BY <1>1, <1>2, <1>4, Leads, <1>24
     DEF Salvage, Kept, Board, History, Authority, Salvaged, Tree, StoppedAtWork, Race,
         RaceFails
<1>25. CASE RaceSkipped \/ Join \/ RaceStopped \/ NothingToJudge \/ JudgeVerifies
         \/ NobodyToJudge
  BY <1>1, <1>2, <1>4, Leads, <1>25
     DEF RaceSkipped, Join, Returned, RaceStopped, Leaves, NothingToJudge, JudgeVerifies, Steps,
         NobodyToJudge, Judging
<1>26. CASE JudgeChooses \/ Adopt \/ AdoptFails \/ Replay \/ Replayed \/ Document
  BY <1>1, <1>2, <1>4, Leads, <1>26
     DEF JudgeChooses, Judging, Adopt, AdoptFails, Replay, ToReplay, Open, Replayed,
         Document, Undone, Rests
<1>27. CASE DocumentBroke \/ StartReview \/ StartReviewFails \/ Fixes \/ Discards
         \/ Approved
  BY <1>1, <1>2, <1>4, Leads, <1>27
     DEF DocumentBroke, Rests, Tree, StartReview, StartReviewFails, Fixes, Discards,
         Approved
<1>28. CASE Parks \/ PhaseFails \/ ReadsTip \/ Rebase \/ IntegrateFails \/ LeasePush
  BY <1>1, <1>2, <1>4, Leads, <1>28
     DEF Parks, ParkedForPeople, PhaseFails, Rests, Tree, ReadsTip, Rebase, Rebased,
         SquashedOnConflict, IntegrateFails, LeasePush
<1>29. CASE LeaseFails \/ OpensPull \/ GatesPass \/ Done
  BY <1>1, <1>2, <1>4, Leads, <1>29
     DEF LeaseFails, Rests, Tree, OpensPull, GatesPass, Done
<1>30. ASSUME NEW t \in Tasks, Cancel(t)
      PROVE  SplitInv'
  BY <1>1, <1>2, <1>4, Leads, <1>30
     DEF Cancel
<1>31. ASSUME NEW i \in Candidates, CandidateClaims(i)
      PROVE  SplitInv'
  BY <1>1, <1>2, <1>4, Leads, <1>31
     DEF CandidateClaims, Steps
<1>32. ASSUME NEW i \in Candidates, CandidateBroke(i)
      PROVE  SplitInv'
  BY <1>1, <1>2, <1>4, Leads, <1>32
     DEF CandidateBroke, Drops, Steps
<1>33. ASSUME NEW i \in Candidates, CandidateWorks(i)
      PROVE  SplitInv'
  BY <1>1, <1>2, <1>4, Leads, <1>33
     DEF CandidateWorks, Passed, Rest, Steps
<1>34. ASSUME NEW i \in Candidates, CandidateCapped(i)
      PROVE  SplitInv'
  BY <1>1, <1>2, <1>4, Leads, <1>34
     DEF CandidateCapped, CapSaves, Drops, Steps
<1>35. ASSUME NEW i \in Candidates, CandidateReselects(i)
      PROVE  SplitInv'
  BY <1>1, <1>2, <1>4, Leads, <1>35
     DEF CandidateReselects, Drops, Steps
<1> QED
  BY <1>1, <1>5, <1>6, <1>7, <1>8, <1>9, <1>10, <1>11, <1>12, <1>13, <1>14, <1>15, <1>16,
     <1>17, <1>18, <1>19, <1>20, <1>21, <1>22, <1>23, <1>24, <1>25, <1>26, <1>27, <1>28,
     <1>29, <1>30, <1>31, <1>32, <1>33, <1>34, <1>35
     DEF Next, RunNext, PlanNext, ExecuteNext, FanoutNext

LEMMA SplitInit == Init => SplitInv
BY DEF Init, SplitInv, Fresh

(* A deliverable becomes one follow-up card however often the card is run,    *)
(* but for a run lost, stopped or refused between the card and its record     *)
(* (plan.go, createFollowups). *)
THEOREM FollowUpOnce == Spec => []SplitOnce
<1>1. TypedInv /\ SplitInv => SplitOnce
  BY DEF TypedInv, WorkTypeOK, BoardTypeOK, HistoryTypeOK, SplitInv, SplitOnce
<1> QED
  BY TypedInit, SplitInit, TypedStep, SplitStep, <1>1, PTL DEF Spec

-----------------------------------------------------------------------------
(* The approval of the plan. *)

LEMMA ApprovalStep == TypedInv /\ ApprovalInv /\ [Next]_vars => ApprovalInv'
<1> SUFFICES ASSUME TypedInv, ApprovalInv, [Next]_vars, tc'.human /\ ~past'.approved
             PROVE  ApprovalInv'
  BY DEF ApprovalInv
<1>1. CASE UNCHANGED vars
  BY <1>1 DEF ApprovalInv, NothingBeforeApproval, AtOrigin
<1>2. me \in Memory /\ local \in Branches /\ remote \in Branches \cup {None} /\ cands' = cands'
  BY DEF TypedInv, WorkTypeOK, TreeTypeOK
<1>3. past'.approved = past.approved \/ Approve
  BY PastLeads
<1>4. tc' = tc
  BY CardKept
<1>5. ~past.approved /\ ~Approve
  BY <1>3 DEF Approve, TypedInv, WorkTypeOK, HistoryTypeOK
<1>6. /\ pc \in {"idle", "reconcile", "enter", "plan", "approve", "park", "release"}
      /\ pc \in {"reconcile", "enter"} => me.next = "plan"
      /\ phase \in {"none", "plan"}
      /\ dirty = "none"
      /\ cands = << >>
      /\ \A m \in local.work : m.run = 0
      /\ \A t \in Tasks : sub[t] = "absent"
      /\ extra.made = 0
      /\ \A m \in AtOrigin : m.run = 0
  BY <1>4, <1>5 DEF ApprovalInv, NothingBeforeApproval
<1>7. CASE Approve
  BY <1>5, <1>7
<1>8. CASE Boot
  BY <1>8, <1>2, <1>6
     DEF Boot, Recovered, ApprovalInv, NothingBeforeApproval, AtOrigin, Fresh
<1>9. CASE ReconcileFresh
  BY <1>9, <1>2, <1>6
     DEF ReconcileFresh, ApprovalInv, NothingBeforeApproval, AtOrigin, Memory
<1>10. CASE ReconcileResume
  BY <1>10, <1>2, <1>6
     DEF ReconcileResume, Adopted, ApprovalInv, NothingBeforeApproval, AtOrigin, Memory
<1>11. CASE Diagnose(ReselectCap)
  BY <1>11, <1>2, <1>6
     DEF Diagnose, Stays, ApprovalInv, NothingBeforeApproval, AtOrigin, Memory
<1>12. CASE Draft
  BY <1>12, <1>2, <1>6
     DEF Draft, Drafted, Plans, MobDrafts, SoloDrafts, Stays, ApprovalInv,
         NothingBeforeApproval, AtOrigin, Memory
<1>13. CASE BootFails
  BY <1>13, <1>2, <1>6, Leads
     DEF BootFails, ApprovalInv, NothingBeforeApproval, AtOrigin
<1>14. CASE ReconcileFails
  BY <1>14, <1>2, <1>6, Leads
     DEF ReconcileFails, ApprovalInv, NothingBeforeApproval, AtOrigin
<1>15. CASE Enter
  BY <1>15, <1>2, <1>6, Leads
     DEF Enter, Late, Resumed, ApprovalInv, NothingBeforeApproval, AtOrigin
<1>16. CASE EnterFails \/ ReenterReview
  BY <1>16, <1>2, <1>6, Leads
     DEF EnterFails, ReenterReview, ApprovalInv, NothingBeforeApproval, AtOrigin
<1>17. CASE DraftFails
  BY <1>17, <1>2, <1>6, Leads
     DEF DraftFails, Stays, ApprovalInv, NothingBeforeApproval, AtOrigin
<1>18. CASE Adjust
  BY <1>18, <1>2, <1>6, Leads
     DEF Adjust, Reply, Stays, ApprovalInv, NothingBeforeApproval, AtOrigin
<1>19. CASE ApproveFails
  BY <1>19, <1>2, <1>6, Leads
     DEF ApproveFails, Stays, ApprovalInv, NothingBeforeApproval, AtOrigin
<1>20. CASE Sweep
  BY <1>20, <1>2, <1>6, Leads
     DEF Sweep, ApprovalInv, NothingBeforeApproval, AtOrigin
<1>21. CASE Stopped
  BY <1>21, <1>2, <1>6, Leads
     DEF Stopped, ApprovalInv, NothingBeforeApproval, AtOrigin
<1>22. ASSUME NEW t \in Tasks, Cancel(t)
      PROVE  ApprovalInv'
  BY <1>22, <1>2, <1>6, Leads
     DEF Cancel, ApprovalInv, NothingBeforeApproval, AtOrigin
<1>23. CASE Release
  BY <1>23, <1>2, <1>6, Leads
     DEF Release, ApprovalInv, NothingBeforeApproval, AtOrigin, Base
<1>24. CASE Crash
  BY <1>24, <1>2, <1>6, Leads
     DEF Crash, ApprovalInv, NothingBeforeApproval, AtOrigin, Base
<1>25. CASE Park
  BY <1>25, <1>2, <1>6, Leads
     DEF Park, Saved, ApprovalInv, NothingBeforeApproval, AtOrigin, Uncommitted
<1>26. CASE HumanPushes
  BY <1>26, <1>2, <1>6, Leads
     DEF HumanPushes, ApprovalInv, NothingBeforeApproval, AtOrigin, Human, Branches
<1>27. CASE Split \/ NoSplit \/ SplitFails \/ Note \/ CreateSubtask \/ CreateFails
         \/ Planned \/ Claim
  BY <1>1, <1>5, <1>6, <1>27
     DEF Split, Stays, NoSplit, SplitFails, Note, CreateSubtask, ToCreate, CreateFails,
         Planned, Claim, Solo, Open, Kept, Tree, History
<1>28. CASE ClaimFails \/ Executed \/ Writes \/ Measures \/ CommitsItself \/ Finishes
         \/ Reselects \/ CoderFails
  BY <1>1, <1>5, <1>6, <1>28
     DEF ClaimFails, Solo, Kept, Board, Tree, History, Executed, Writes, Measures, Identity,
         CommitsItself, Finishes, Reselects, CoderFails, NoCoder
<1>29. CASE Gate \/ Fix \/ Regate \/ CommitWork \/ CommitNothing \/ CommitFails \/ Discuss
         \/ ReviseFails
  BY <1>1, <1>5, <1>6, <1>29
     DEF Gate, Kept, Board, Tree, History, Fix, Regate, CommitWork, CommitNothing,
         CommitFails, Discuss, ReviseFails, Discarded, Checked
<1>30. CASE Recheck \/ Push \/ PushFails \/ Complete \/ CompleteFails \/ SalvageNothing
         \/ Salvage \/ Authority
  BY <1>1, <1>5, <1>6, <1>30
     DEF Recheck, Discarded, Checked, Revised, Kept, Board, History, Push, PushFails, Tree,
         Complete, CompleteFails, SalvageNothing, Salvage, Authority
<1>31. CASE Salvaged \/ StoppedAtWork \/ Race \/ RaceFails \/ RaceSkipped \/ Join
         \/ RaceStopped \/ NothingToJudge
  BY <1>1, <1>5, <1>6, <1>31
     DEF Salvaged, Kept, Tree, StoppedAtWork, History, Race, RaceFails, RaceSkipped, Join,
         Returned, RaceStopped, Leaves, NothingToJudge
<1>32. CASE JudgeVerifies \/ NobodyToJudge \/ JudgeChooses \/ JudgeFails \/ Adopt
         \/ AdoptFails \/ Replay \/ Replayed
  BY <1>1, <1>5, <1>6, <1>32
     DEF JudgeVerifies, Steps, NobodyToJudge, Judging, Returned, JudgeChooses, JudgeFails,
         Adopt, AdoptFails, Replay, ToReplay, Open, Replayed
<1>33. CASE Document \/ DocumentBroke \/ DocumentPushes \/ StartReview \/ StartReviewFails
         \/ Fixes \/ Discards \/ Approved
  BY <1>1, <1>5, <1>6, <1>33
     DEF Document, Undone, Rests, DocumentBroke, Tree, DocumentPushes, StartReview,
         StartReviewFails, Fixes, Discards, Approved
<1>34. CASE Parks \/ PhaseFails \/ ReadsTip \/ Rebase \/ IntegrateFails \/ LeasePush
         \/ LeaseFails \/ OpensPull
  BY <1>1, <1>5, <1>6, <1>34
     DEF Parks, ParkedForPeople, PhaseFails, Rests, Tree, ReadsTip, Rebase, Rebased,
         SquashedOnConflict, IntegrateFails, LeasePush, LeaseFails, OpensPull
<1>35. CASE GatesPass \/ Done
  BY <1>1, <1>5, <1>6, <1>35
     DEF GatesPass, Rests, Tree, Done
<1>36. ASSUME NEW i \in Candidates, CandidateClaims(i)
      PROVE  ApprovalInv'
  BY <1>1, <1>5, <1>6, <1>36
     DEF CandidateClaims, Steps
<1>37. ASSUME NEW i \in Candidates, CandidateBroke(i)
      PROVE  ApprovalInv'
  BY <1>1, <1>5, <1>6, <1>37
     DEF CandidateBroke, Drops, Steps
<1>38. ASSUME NEW i \in Candidates, CandidateWorks(i)
      PROVE  ApprovalInv'
  BY <1>1, <1>5, <1>6, <1>38
     DEF CandidateWorks, Passed, Rest, Steps
<1>39. ASSUME NEW i \in Candidates, CandidateCapped(i)
      PROVE  ApprovalInv'
  BY <1>1, <1>5, <1>6, <1>39
     DEF CandidateCapped, CapSaves, Drops, Steps
<1>40. ASSUME NEW i \in Candidates, CandidateReselects(i)
      PROVE  ApprovalInv'
  BY <1>1, <1>5, <1>6, <1>40
     DEF CandidateReselects, Drops, Steps
<1> QED
  BY <1>1, <1>7, <1>8, <1>9, <1>10, <1>11, <1>12, <1>13, <1>14, <1>15, <1>16, <1>17, <1>18,
     <1>19, <1>20, <1>21, <1>22, <1>23, <1>24, <1>25, <1>26, <1>27, <1>28, <1>29, <1>30,
     <1>31, <1>32, <1>33, <1>34, <1>35, <1>36, <1>37, <1>38, <1>39, <1>40
     DEF Next, RunNext, PlanNext, ExecuteNext, FanoutNext

LEMMA ApprovalInit == Init => ApprovalInv
<1> SUFFICES ASSUME Init PROVE ApprovalInv
  OBVIOUS
<1>1. \A m \in AtOrigin : m.run = 0
  BY DEF Init, AtOrigin, Abandoned
<1> QED
  BY <1>1 DEF Init, ApprovalInv, NothingBeforeApproval, Base

(* With a human attending, no card is created and nothing is pushed before a  *)
(* plan was approved (plan.go, runPlan; gate.go). *)
THEOREM ApprovalFirst == Spec => []NothingBeforeApproval
<1>1. ApprovalInv => NothingBeforeApproval
  BY DEF ApprovalInv, NothingBeforeApproval
<1> QED
  BY TypedInit, ApprovalInit, TypedStep, ApprovalStep, <1>1, PTL DEF Spec

-----------------------------------------------------------------------------
(* The claims. *)

LEMMA ClaimKept ==
    ASSUME TypedInv, [Next]_vars, ~Fault("card"), pc # "idle" => claim, pc' # "idle"
    PROVE  claim'
<1> SUFFICES claim'
  OBVIOUS
<1>1. CASE UNCHANGED <<pc, claim>>
  BY <1>1
<1>2. me \in Memory
  BY DEF TypedInv, WorkTypeOK
<1>3. CASE Boot \/ BootFails \/ ReconcileFresh \/ ReconcileResume \/ ReconcileFails
         \/ Enter \/ EnterFails \/ ReenterReview \/ Park \/ Release \/ Crash
  BY <1>1, <1>2, Leads, <1>3
     DEF Boot, Recovered, BootFails, ReconcileFresh, ReconcileResume, Adopted,
         ReconcileFails, Enter, Late, Resumed, EnterFails, ReenterReview, Park, Saved,
         Release, Crash
<1>4. CASE Sweep \/ HumanPushes \/ Draft \/ Diagnose(ReselectCap) \/ DraftFails \/ Approve
         \/ Adjust \/ ApproveFails \/ Split \/ NoSplit
  BY <1>1, <1>2, Leads, <1>4
     DEF Sweep, HumanPushes, Draft, Drafted, Plans, MobDrafts, SoloDrafts, Stays, Diagnose,
         DraftFails, Approve, Adjust, Reply, ApproveFails, Split, NoSplit
<1>5. CASE SplitFails \/ Note \/ CreateSubtask \/ CreateFails \/ Planned \/ Claim
         \/ ClaimFails \/ Executed \/ Writes \/ Measures
  BY <1>1, <1>2, Leads, <1>5
     DEF SplitFails, Stays, Note, CreateSubtask, ToCreate, CreateFails, Planned, Claim,
         Solo, Open, Kept, Tree, History, ClaimFails, Board, Executed, Writes, Measures,
         Identity
<1>6. CASE CommitsItself \/ Finishes \/ Reselects \/ CoderFails \/ Gate \/ Fix \/ Regate
         \/ CommitWork \/ CommitNothing \/ CommitFails
  BY <1>1, <1>2, Leads, <1>6
     DEF CommitsItself, Kept, Board, Finishes, Tree, History, Reselects, CoderFails,
         NoCoder, Gate, Fix, Regate, CommitWork, CommitNothing, CommitFails
<1>7. CASE Discuss \/ ReviseFails \/ Recheck \/ Push \/ PushFails \/ Complete
         \/ CompleteFails \/ SalvageNothing \/ Salvage \/ Authority
  BY <1>1, <1>2, Leads, <1>7
     DEF Discuss, Kept, Board, Tree, History, ReviseFails, Discarded, Checked, Recheck,
         Revised, Push, PushFails, Complete, CompleteFails, SalvageNothing, Salvage,
         Authority
<1>8. CASE Salvaged \/ StoppedAtWork \/ Race \/ RaceFails \/ RaceSkipped \/ Join
         \/ RaceStopped \/ NothingToJudge \/ JudgeVerifies \/ NobodyToJudge
  BY <1>1, <1>2, Leads, <1>8
     DEF Salvaged, Kept, Tree, StoppedAtWork, History, Race, RaceFails, RaceSkipped, Join,
         Returned, RaceStopped, Leaves, NothingToJudge, JudgeVerifies, Steps, NobodyToJudge,
         Judging
<1>9. CASE JudgeChooses \/ JudgeFails \/ Adopt \/ AdoptFails \/ Replay \/ Replayed
         \/ Document \/ DocumentBroke \/ DocumentPushes \/ StartReview
  BY <1>1, <1>2, Leads, <1>9
     DEF JudgeChooses, Judging, JudgeFails, Adopt, AdoptFails, Replay, ToReplay, Open,
         Replayed, Document, Undone, Rests, DocumentBroke, Tree, DocumentPushes, StartReview
<1>10. CASE StartReviewFails \/ Fixes \/ Discards \/ Approved \/ Parks \/ PhaseFails
         \/ ReadsTip \/ Rebase \/ IntegrateFails \/ LeasePush
  BY <1>1, <1>2, Leads, <1>10
     DEF StartReviewFails, Rests, Tree, Fixes, Discards, Approved, Parks, ParkedForPeople,
         PhaseFails, ReadsTip, Rebase, Rebased, SquashedOnConflict, IntegrateFails,
         LeasePush
<1>11. CASE LeaseFails \/ OpensPull \/ GatesPass \/ Done \/ Stopped
  BY <1>1, <1>2, Leads, <1>11
     DEF LeaseFails, Rests, Tree, OpensPull, GatesPass, Done, Stopped
<1>12. ASSUME NEW t \in Tasks, Cancel(t)
      PROVE  claim'
  BY <1>1, <1>2, Leads, <1>12
     DEF Cancel
<1>13. ASSUME NEW i \in Candidates, CandidateClaims(i)
      PROVE  claim'
  BY <1>1, <1>2, Leads, <1>13
     DEF CandidateClaims, Steps
<1>14. ASSUME NEW i \in Candidates, CandidateBroke(i)
      PROVE  claim'
  BY <1>1, <1>2, Leads, <1>14
     DEF CandidateBroke, Drops, Steps
<1>15. ASSUME NEW i \in Candidates, CandidateWorks(i)
      PROVE  claim'
  BY <1>1, <1>2, Leads, <1>15
     DEF CandidateWorks, Passed, Rest, Steps
<1>16. ASSUME NEW i \in Candidates, CandidateCapped(i)
      PROVE  claim'
  BY <1>1, <1>2, Leads, <1>16
     DEF CandidateCapped, CapSaves, Drops, Steps
<1>17. ASSUME NEW i \in Candidates, CandidateReselects(i)
      PROVE  claim'
  BY <1>1, <1>2, Leads, <1>17
     DEF CandidateReselects, Drops, Steps
<1> QED
  BY <1>1, <1>3, <1>4, <1>5, <1>6, <1>7, <1>8, <1>9, <1>10, <1>11, <1>12, <1>13, <1>14,
     <1>15, <1>16, <1>17
     DEF Next, RunNext, PlanNext, ExecuteNext, FanoutNext

LEMMA ClaimStep == TypedInv /\ RaceInv /\ ClaimInv /\ [Next]_vars => ClaimInv'
<1> SUFFICES ASSUME TypedInv, RaceInv, ClaimInv, [Next]_vars, ~Fault("card")'
             PROVE  ClaimInv'
  BY DEF ClaimInv
<1>0. ~Fault("card") /\ (pc # "idle" => claim) /\ (pc' # "idle" => claim')
  <2>1. ~Fault("card")
    BY CardKept
  <2> QED
    BY <2>1, ClaimKept DEF ClaimInv
<1>a. Owed' = {} => ClaimInv'
  BY <1>0 DEF ClaimInv
<1>b. ASSUME Sweep \/ (past'.leak = held /\ held' = held)
      PROVE  ClaimInv'
  <2>1. Owed' = {}
    BY <1>b DEF Sweep, Owed
  <2> QED
    BY <1>a, <2>1
<1> SUFFICES ASSUME past'.leak = past.leak, ~Sweep PROVE ClaimInv'
  BY PastLeads, <1>b
<1>c. /\ held' = held => Owed' = Owed
      /\ held' = held \ {me.at} => Owed' = Owed \ {me.at}
      /\ held' = held \ me.once => Owed' = Owed \ me.once
  BY DEF Owed
<1> USE <1>c
<1>d. /\ Owed # {} => claim
      /\ pc = "idle" /\ past.ended # "crash" => Owed = {}
      /\ AtSubtask => Owed \subseteq {me.at}
      /\ InRace => Owed \subseteq me.once \cap Open
      /\ InRace /\ cands = << >> => Owed = {}
      /\ pc = "replay" => \A t \in Owed : t > me.at
      /\ Owed = {} \/ AtSubtask \/ InRace \/ pc = "idle"
  BY <1>0 DEF ClaimInv
<1>e. /\ me \in Memory /\ held \subseteq Tasks
      /\ past'.ended = past.ended \/ (pc # "idle" /\ pc' = "idle") \/ BootFails
  <2>1. past'.ended = past.ended \/ Crash \/ BootFails \/ Release \/ Parks \/ Done
    BY PastLeads
  <2> QED
    BY <2>1, Leads DEF TypedInv, WorkTypeOK, BoardTypeOK, Crash, Release, Parks, Done,
       ParkedForPeople
<1>f. ASSUME AtSubtask, AtSubtask', Owed' = Owed \/ Owed' = Owed \ {me.at}, me'.at = me.at
      PROVE  ClaimInv'
  <2>1. pc' # "idle" /\ ~InRace' /\ claim'
    BY <1>0, <1>f DEF AtSubtask, InRace
  <2> QED
    BY <1>0, <1>d, <1>f, <2>1 DEF ClaimInv, InRace
<1>g. ASSUME InRace, InRace', Owed' \subseteq Owed, me'.once = me.once,
             Owed' \cap Open \subseteq Open', cands' # << >> \/ cands' = cands,
             pc' = "replay" => \A t \in Owed' : t > me'.at
      PROVE  ClaimInv'
  <2>1. pc' # "idle" /\ ~AtSubtask' /\ claim'
    BY <1>0, <1>g DEF AtSubtask, InRace
  <2> QED
    BY <1>0, <1>d, <1>g, <2>1 DEF ClaimInv
<1>1. CASE UNCHANGED <<tc, claim, sub, Owed, proc, past>>
  BY <1>1, <1>0, <1>d DEF ClaimInv, AtSubtask, InRace, Open
<1>2. CASE Boot
  <2>1. Owed' = {}
    BY <1>2, <1>d DEF Boot
  <2> QED
    BY <1>a, <2>1
<1>3. CASE BootFails
  <2>1. Owed' = {}
    BY <1>3, <1>d DEF BootFails
  <2> QED
    BY <1>a, <2>1
<1>4. ASSUME NEW t \in Tasks, Cancel(t)
      PROVE  ClaimInv'
  <2>1. pc = "idle" /\ UNCHANGED <<claim, Owed, pc, past, tc>>
    BY <1>4 DEF Cancel
  <2> QED
    BY <1>0, <1>d, <2>1 DEF ClaimInv, AtSubtask, InRace
<1>5. CASE ReenterReview
  BY <1>1, <1>5 DEF ReenterReview
<1>6. CASE JudgeFails \/ AdoptFails \/ Stopped
  <2>1. past \in [ended : Endings \cup {"crash", "done", "parked"}, approved : BOOLEAN,
                  selfmade : BOOLEAN, torn : Nat, leak : SUBSET Tasks]
    BY DEF TypedInv, WorkTypeOK, HistoryTypeOK
  <2>2. CASE past'.leak = held /\ held' = held
    BY <1>b, <2>2
  <2>3. CASE Stopped /\ cands = << >>
    <3>1. held' = held /\ ~AtSubtask /\ pc # "idle"
      BY <2>3 DEF Stopped, AtSubtask
    <3>2. Owed = {}
      BY <1>d, <2>3, <3>1
    <3> QED
      BY <1>a, <3>1, <3>2
  <2> QED
    BY <1>6, <2>1, <2>2, <2>3 DEF JudgeFails, AdoptFails, Stopped, Leaves
<1>7. CASE Crash
  <2>1. /\ pc' = "idle" /\ pc # "idle" /\ Owed' = Owed /\ claim' = claim
        /\ past'.ended = "crash"
    BY <1>7, <1>e, Leads DEF Crash, TypedInv, WorkTypeOK, HistoryTypeOK
  <2> QED
    BY <1>0, <2>1 DEF ClaimInv, AtSubtask, InRace
<1>8. CASE Enter
  <2>1. CASE Owed = {}
    BY <1>8, <1>a, <2>1 DEF Enter
  <2>2. CASE Owed # {}
    <3>1. InRace /\ InRace' /\ pc' = "judge"
      BY <1>8, <1>d, <2>2 DEF Enter, InRace, AtSubtask
    <3> QED
      BY <1>8, <1>g, <3>1 DEF Enter, Open
  <2> QED
    BY <2>1, <2>2
<1>9. CASE EnterFails
  <2>1. Owed' = {}
    BY <1>9, <1>0, <1>d DEF EnterFails, Refused, Reenters, Late, InRace, AtSubtask
  <2> QED
    BY <1>a, <2>1
<1>10. CASE Claim
  <2>1. Owed = {}
    BY <1>10, <1>d DEF Claim, Solo, InRace, AtSubtask
  <2>2. me'.at = NextTask /\ pc' = "code"
    BY <1>10, <1>e DEF Claim, Memory
  <2>3. Owed' \subseteq {NextTask}
    BY <1>10, <2>1 DEF Claim, Owed
  <2> QED
    BY <1>0, <2>2, <2>3 DEF ClaimInv, AtSubtask, InRace
<1>11. CASE Race
  <2>1. Owed' = {}
    BY <1>11, <1>d DEF Race, InRace, AtSubtask
  <2> QED
    BY <1>a, <2>1
<1>12. CASE Join \/ RaceStopped \/ NobodyToJudge
  <2>1. pc \in {"race", "judge"} /\ Owed \ me.once = {}
    BY <1>12, <1>d DEF Join, RaceStopped, Leaves, NobodyToJudge, Judging, InRace
  <2>2. CASE Owed' = Owed \ me.once
    BY <1>a, <2>1, <2>2
  <2>3. CASE Join /\ Proceed("execute") /\ Owed' = Owed
    <3>1. InRace /\ InRace' /\ me'.plan = me.plan /\ me'.once = me.once /\ pc' = "enter"
      BY <1>e, <2>1, <2>3, Leads DEF InRace
    <3> QED
      BY <1>g, <2>3, <3>1 DEF Join, Open
  <2> QED
    <3>1. CASE RaceStopped
      <4>1. CASE past' = past /\ Returned
        BY <1>0, <2>2, <4>1 DEF Returned
      <4>2. CASE past' = [past EXCEPT !.leak = held] /\ held' = held
        <5>1. past'.leak = held
          BY <4>2 DEF TypedInv, WorkTypeOK, HistoryTypeOK
        <5> QED
          BY <1>b, <4>2, <5>1
      <4> QED
        BY <3>1, <4>1, <4>2 DEF RaceStopped, Leaves
    <3> QED
      BY <1>12, <1>0, <2>2, <2>3, <3>1 DEF Join, NobodyToJudge, Returned
<1>13. CASE NothingToJudge
  <2>1. Owed' = {}
    BY <1>13, <1>d DEF NothingToJudge, InRace
  <2> QED
    BY <1>a, <2>1
<1>14. CASE JudgeVerifies
  <2>1. cands' # << >>
    BY <1>14 DEF JudgeVerifies, Steps, TypedInv, WorkTypeOK, RaceTypeOK
  <2> QED
    BY <1>14, <1>g, <2>1 DEF JudgeVerifies, InRace, Open
<1>15. CASE JudgeChooses
  <2>1. me'.plan = me.plan /\ me'.once = me.once /\ Owed' = Owed /\ sub' = sub
    BY <1>15, <1>e, Leads DEF JudgeChooses, Judging, Memory
  <2>2. InRace /\ InRace' /\ (cands' # << >> \/ cands' = cands)
    BY <1>15, Leads DEF JudgeChooses, Judging, InRace
  <2>3. pc' = "replay" => \A t \in Owed' : t > me'.at
    BY <1>15, <1>e, Leads DEF JudgeChooses, Judging, Memory, Tasks
  <2> QED
    BY <1>g, <2>1, <2>2, <2>3 DEF Open
<1>16. CASE Adopt
  <2>1. me'.plan = me.plan /\ me'.once = me.once /\ Owed' = Owed /\ sub' = sub
    BY <1>16, <1>e, Leads DEF Adopt, Memory
  <2>2. InRace /\ InRace' /\ (cands' # << >> \/ cands' = cands)
    BY <1>16, Leads DEF Adopt, InRace
  <2>3. pc' = "replay" => \A t \in Owed' : t > me'.at
    BY <1>16, <1>e, Leads DEF Adopt, Memory, Tasks, Owed
  <2> QED
    BY <1>g, <2>1, <2>2, <2>3 DEF Open
<1>17. CASE Replay
  <2> DEFINE t == CHOOSE u \in ToReplay : \A v \in ToReplay : u <= v
  <2>1. t \in ToReplay /\ (\A v \in ToReplay : t <= v) /\ ToReplay \subseteq Tasks
    BY <1>17, <1>e, ReplayTypes DEF Replay
  <2>2. /\ me'.at = t /\ me'.plan = me.plan /\ me'.once = me.once /\ pc = "replay" /\ pc' = "replay"
        /\ sub' = [sub EXCEPT ![t] = "done"] /\ Owed' = Owed \ {t} /\ cands' = cands
    BY <1>17, <1>0, <1>e DEF Replay, Memory, Owed
  <2>3. InRace /\ InRace'
    BY <2>2 DEF InRace
  <2> HIDE DEF t
  <2>4. \A u \in Owed : u \in ToReplay
    BY <1>d, <2>2, <2>3 DEF ToReplay
  <2>5. \A u \in Owed' : u > me'.at
    <3>1. Owed' = Owed \ {t} /\ me'.at = t /\ t \in 1 .. NTasks
      BY <2>1, <2>2 DEF Tasks
    <3>2. \A u \in Owed : u \in 1 .. NTasks /\ t <= u
      BY <2>1, <2>4 DEF Tasks
    <3> QED
      BY <3>1, <3>2
  <2>6. Owed' \cap Open \subseteq Open'
    BY <2>2 DEF Open, TypedInv, WorkTypeOK, BoardTypeOK
  <2> QED
    BY <1>g, <2>2, <2>3, <2>5, <2>6
<1>18. CASE Replayed
  <2>1. Owed' = {}
    BY <1>18, <1>d DEF Replayed, ToReplay, InRace
  <2> QED
    BY <1>a, <2>1
<1>19. ASSUME NEW i \in Candidates, CandidateClaims(i)
      PROVE  ClaimInv'
  <2> DEFINE t == cands[i].at
  <2>1. InRace /\ InRace' /\ pc = "race" /\ pc' = "race" /\ cands # << >>
    BY <1>19 DEF CandidateClaims, InRace, Candidates
  <2>2. cands' # << >> /\ me'.plan = me.plan
    BY <1>19, <1>e, <2>1
       DEF CandidateClaims, Steps, Memory, TypedInv, WorkTypeOK, RaceTypeOK
  <2>3. CASE t \in me.once
    BY <1>19, <1>g, <2>1, <2>2, <2>3 DEF CandidateClaims, Open
  <2>4. CASE t \notin me.once
    <3>1. /\ me'.once = me.once \cup {t} /\ Owed' \subseteq Owed \cup {t}
          /\ sub' = [sub EXCEPT ![t] = "in_progress"]
      BY <1>19, <1>0, <1>e, <2>4 DEF CandidateClaims, Memory, Owed
    <3>2. t \in Open
      BY <1>19 DEF CandidateClaims, RaceInv, Racing
    <3>3. Open \subseteq Open'
      BY <2>2, <3>1 DEF Open, Terminal, TypedInv, WorkTypeOK, BoardTypeOK
    <3>4. Owed' \subseteq me'.once \cap Open'
      BY <1>d, <2>1, <3>1, <3>2, <3>3
    <3> QED
      BY <1>0, <2>1, <2>2, <3>4 DEF ClaimInv, AtSubtask
  <2> QED
    BY <2>3, <2>4
<1>20. ASSUME NEW i \in Candidates, CandidateBroke(i)
      PROVE  ClaimInv'
  <2>1. InRace /\ InRace' /\ pc' = "race" /\ cands # << >> /\ Owed' = Owed /\ sub' = sub
    BY <1>20 DEF CandidateBroke, Drops, Steps, InRace, Candidates
  <2>2. cands' # << >> /\ me'.plan = me.plan /\ me'.once = me.once
    BY <1>20, <1>e, <2>1
       DEF CandidateBroke, Drops, Steps, Memory, TypedInv, WorkTypeOK, RaceTypeOK
  <2> QED
    BY <1>g, <2>1, <2>2 DEF Open
<1>21. ASSUME NEW i \in Candidates, CandidateWorks(i)
      PROVE  ClaimInv'
  <2>1. InRace /\ InRace' /\ pc' = "race" /\ cands # << >> /\ Owed' = Owed /\ sub' = sub
    BY <1>21 DEF CandidateWorks, Steps, InRace, Candidates
  <2>2. cands' # << >> /\ me'.plan = me.plan /\ me'.once = me.once
    BY <1>21, <1>e, <2>1
       DEF CandidateWorks, Steps, Memory, TypedInv, WorkTypeOK, RaceTypeOK
  <2> QED
    BY <1>g, <2>1, <2>2 DEF Open
<1>22. ASSUME NEW i \in Candidates, CandidateReselects(i)
      PROVE  ClaimInv'
  <2>1. InRace /\ InRace' /\ pc' = "race" /\ cands # << >> /\ Owed' = Owed /\ sub' = sub
    BY <1>22 DEF CandidateReselects, Drops, Steps, InRace, Candidates
  <2>2. cands' # << >> /\ me'.plan = me.plan /\ me'.once = me.once
    BY <1>22, <1>e, <2>1
       DEF CandidateReselects, Drops, Steps, Memory, TypedInv, WorkTypeOK, RaceTypeOK
  <2> QED
    BY <1>g, <2>1, <2>2 DEF Open
<1>23. ASSUME NEW i \in Candidates, CandidateCapped(i)
      PROVE  ClaimInv'
  <2>1. /\ pc = "race" /\ UNCHANGED <<pc, me, Owed, sub>>
        /\ \E r : cands' = [cands EXCEPT ![i] = r]
    BY <1>23 DEF CandidateCapped, CapSaves, Drops, Steps
  <2>2. cands' # << >>
    BY <2>1 DEF Candidates, TypedInv, WorkTypeOK, RaceTypeOK
  <2> QED
    BY <1>g, <2>1, <2>2 DEF InRace, Open
<1>24. CASE Writes
  <2>1. AtSubtask /\ (Owed' = {} \/ (AtSubtask' /\ Owed' = Owed /\ me'.at = me.at))
    BY <1>24, <1>0, <1>d, <1>e, Leads
       DEF Writes, Kept, Board, History, AtSubtask
  <2> QED
    BY <1>a, <1>f, <2>1
<1>25. CASE Measures
  <2>1. AtSubtask /\ (Owed' = {} \/ (AtSubtask' /\ Owed' = Owed /\ me'.at = me.at))
    BY <1>25, <1>0, <1>d, <1>e, Leads
       DEF Measures, Identity, Kept, Board, Tree, History, AtSubtask
  <2> QED
    BY <1>a, <1>f, <2>1
<1>26. CASE CommitsItself
  <2>1. AtSubtask /\ (Owed' = {} \/ (AtSubtask' /\ Owed' = Owed /\ me'.at = me.at))
    BY <1>26, <1>0, <1>d, <1>e, Leads
       DEF CommitsItself, Kept, Board, AtSubtask
  <2> QED
    BY <1>a, <1>f, <2>1
<1>27. CASE Finishes
  <2>1. AtSubtask /\ (Owed' = {} \/ (AtSubtask' /\ Owed' = Owed /\ me'.at = me.at))
    BY <1>27, <1>0, <1>d, <1>e, Leads
       DEF Finishes, Kept, Board, Tree, History, AtSubtask
  <2> QED
    BY <1>a, <1>f, <2>1
<1>28. CASE Reselects
  <2>1. AtSubtask /\ (Owed' = {} \/ (AtSubtask' /\ Owed' = Owed /\ me'.at = me.at))
    BY <1>28, <1>0, <1>d, <1>e, Leads
       DEF Reselects, Kept, Board, Tree, History, AtSubtask
  <2> QED
    BY <1>a, <1>f, <2>1
<1>29. CASE CoderFails
  <2>1. AtSubtask /\ (Owed' = {} \/ (AtSubtask' /\ Owed' = Owed /\ me'.at = me.at))
    BY <1>29, <1>0, <1>d, <1>e, Leads
       DEF CoderFails, NoCoder, Kept, Board, Tree, History, AtSubtask
  <2> QED
    BY <1>a, <1>f, <2>1
<1>30. CASE Gate
  <2>1. AtSubtask /\ (Owed' = {} \/ (AtSubtask' /\ Owed' = Owed /\ me'.at = me.at))
    BY <1>30, <1>0, <1>d, <1>e, Leads
       DEF Gate, Kept, Board, Tree, History, AtSubtask, Memory
  <2> QED
    BY <1>a, <1>f, <2>1
<1>31. CASE Fix
  <2>1. AtSubtask /\ (Owed' = {} \/ (AtSubtask' /\ Owed' = Owed /\ me'.at = me.at))
    BY <1>31, <1>0, <1>d, <1>e, Leads
       DEF Fix, Kept, Board, History, AtSubtask
  <2> QED
    BY <1>a, <1>f, <2>1
<1>32. CASE Regate
  <2>1. AtSubtask /\ (Owed' = {} \/ (AtSubtask' /\ Owed' = Owed /\ me'.at = me.at))
    BY <1>32, <1>0, <1>d, <1>e, Leads
       DEF Regate, Kept, Board, Tree, History, AtSubtask, Memory
  <2> QED
    BY <1>a, <1>f, <2>1
<1>33. CASE CommitWork
  <2>1. AtSubtask /\ (Owed' = {} \/ (AtSubtask' /\ Owed' = Owed /\ me'.at = me.at))
    BY <1>33, <1>0, <1>d, <1>e, Leads
       DEF CommitWork, Kept, Board, AtSubtask
  <2> QED
    BY <1>a, <1>f, <2>1
<1>34. CASE CommitNothing
  <2>1. AtSubtask /\ (Owed' = {} \/ (AtSubtask' /\ Owed' = Owed /\ me'.at = me.at))
    BY <1>34, <1>0, <1>d, <1>e, Leads
       DEF CommitNothing, Kept, Board, Tree, History, AtSubtask
  <2> QED
    BY <1>a, <1>f, <2>1
<1>35. CASE CommitFails
  <2>1. AtSubtask /\ (Owed' = {} \/ (AtSubtask' /\ Owed' = Owed /\ me'.at = me.at))
    BY <1>35, <1>0, <1>d, <1>e, Leads
       DEF CommitFails, Kept, Tree, History, AtSubtask
  <2> QED
    BY <1>a, <1>f, <2>1
<1>36. CASE Discuss
  <2>1. AtSubtask /\ (Owed' = {} \/ (AtSubtask' /\ Owed' = Owed /\ me'.at = me.at))
    BY <1>36, <1>0, <1>d, <1>e, Leads
       DEF Discuss, Kept, Board, Tree, History, AtSubtask, Memory
  <2> QED
    BY <1>a, <1>f, <2>1
<1>37. CASE ReviseFails
  <2>1. AtSubtask /\ (Owed' = {} \/ (AtSubtask' /\ Owed' = Owed /\ me'.at = me.at))
    BY <1>37, <1>0, <1>d, <1>e, Leads
       DEF ReviseFails, Discarded, Checked, Kept, Board, History, AtSubtask
  <2> QED
    BY <1>a, <1>f, <2>1
<1>38. CASE Recheck
  <2>1. AtSubtask /\ (Owed' = {} \/ (AtSubtask' /\ Owed' = Owed /\ me'.at = me.at))
    BY <1>38, <1>0, <1>d, <1>e, Leads
       DEF Recheck, Discarded, Checked, Revised, Kept, Board, History, AtSubtask, Memory
  <2> QED
    BY <1>a, <1>f, <2>1
<1>39. CASE Push
  <2>1. AtSubtask /\ (Owed' = {} \/ (AtSubtask' /\ Owed' = Owed /\ me'.at = me.at))
    BY <1>39, <1>0, <1>d, <1>e, Leads
       DEF Push, Kept, Board, History, AtSubtask
  <2> QED
    BY <1>a, <1>f, <2>1
<1>40. CASE PushFails
  <2>1. AtSubtask /\ (Owed' = {} \/ (AtSubtask' /\ Owed' = Owed /\ me'.at = me.at))
    BY <1>40, <1>0, <1>d, <1>e, Leads
       DEF PushFails, Kept, Tree, History, AtSubtask
  <2> QED
    BY <1>a, <1>f, <2>1
<1>41. CASE Complete
  <2>1. AtSubtask /\ (Owed' = {} \/ (AtSubtask' /\ Owed' = Owed /\ me'.at = me.at))
    BY <1>41, <1>0, <1>d, <1>e, Leads
       DEF Complete, Kept, Tree, AtSubtask
  <2> QED
    BY <1>a, <1>f, <2>1
<1>42. CASE CompleteFails
  <2>1. AtSubtask /\ (Owed' = {} \/ (AtSubtask' /\ Owed' = Owed /\ me'.at = me.at))
    BY <1>42, <1>0, <1>d, <1>e, Leads
       DEF CompleteFails, Kept, Tree, History, AtSubtask
  <2> QED
    BY <1>a, <1>f, <2>1
<1>43. CASE SalvageNothing
  <2>1. AtSubtask /\ (Owed' = {} \/ (AtSubtask' /\ Owed' = Owed /\ me'.at = me.at))
    BY <1>43, <1>0, <1>d, <1>e, Leads
       DEF SalvageNothing, Kept, Tree, History, AtSubtask
  <2> QED
    BY <1>a, <1>f, <2>1
<1>44. CASE Salvage
  <2>1. AtSubtask /\ (Owed' = {} \/ (AtSubtask' /\ Owed' = Owed /\ me'.at = me.at))
    BY <1>44, <1>0, <1>d, <1>e, Leads
       DEF Salvage, Kept, Board, History, AtSubtask
  <2> QED
    BY <1>a, <1>f, <2>1
<1>45. CASE Authority
  <2>1. AtSubtask /\ (Owed' = {} \/ (AtSubtask' /\ Owed' = Owed /\ me'.at = me.at))
    BY <1>45, <1>0, <1>d, <1>e, Leads
       DEF Authority, Kept, Board, History, AtSubtask, Memory
  <2> QED
    BY <1>a, <1>f, <2>1
<1>46. CASE Salvaged
  <2>1. AtSubtask /\ (Owed' = {} \/ (AtSubtask' /\ Owed' = Owed /\ me'.at = me.at))
    BY <1>46, <1>0, <1>d, <1>e, Leads
       DEF Salvaged, Kept, Tree, AtSubtask
  <2> QED
    BY <1>a, <1>f, <2>1
<1>47. CASE StoppedAtWork
  <2>1. AtSubtask /\ (Owed' = {} \/ (AtSubtask' /\ Owed' = Owed /\ me'.at = me.at))
    BY <1>47, <1>0, <1>d, <1>e, Leads
       DEF StoppedAtWork, Kept, Tree, History, AtSubtask
  <2> QED
    BY <1>a, <1>f, <2>1
<1>48. CASE ReconcileFresh \/ ReconcileResume \/ ReconcileFails \/ Park \/ Release
  BY <1>1, <1>a, <1>0, <1>d, <1>e, Leads, <1>48
     DEF ReconcileFresh, ReconcileResume, Adopted, ReconcileFails, Park, Saved, Release,
         AtSubtask, InRace
<1>49. CASE HumanPushes \/ Draft \/ Diagnose(ReselectCap) \/ DraftFails \/ Approve
  BY <1>1, <1>a, <1>0, <1>d, <1>e, Leads, <1>49
     DEF HumanPushes, Draft, Drafted, Plans, MobDrafts, SoloDrafts, Stays, Diagnose,
         DraftFails, Approve, AtSubtask, InRace
<1>50. CASE Adjust \/ ApproveFails \/ Split \/ NoSplit \/ SplitFails
  BY <1>1, <1>a, <1>0, <1>d, <1>e, Leads, <1>50
     DEF Adjust, Reply, Stays, ApproveFails, Split, NoSplit, SplitFails, AtSubtask, InRace
<1>51. CASE Note \/ CreateSubtask \/ CreateFails \/ Planned \/ ClaimFails
  BY <1>1, <1>a, <1>0, <1>d, <1>e, Leads, <1>51
     DEF Note, Stays, CreateSubtask, ToCreate, CreateFails, Planned, ClaimFails, Solo, Kept,
         Board, Tree, History, AtSubtask, InRace
<1>52. CASE Executed \/ RaceFails \/ RaceSkipped \/ Document \/ DocumentBroke
  BY <1>1, <1>a, <1>0, <1>d, <1>e, Leads, <1>52
     DEF Executed, Solo, Kept, Board, Tree, History, RaceFails, RaceSkipped, Document,
         Undone, Rests, DocumentBroke, AtSubtask, InRace
<1>53. CASE DocumentPushes \/ StartReview \/ StartReviewFails \/ Fixes \/ Discards
  BY <1>1, <1>a, <1>0, <1>d, <1>e, Leads, <1>53
     DEF DocumentPushes, Rests, StartReview, Tree, StartReviewFails, Fixes, Discards,
         AtSubtask, InRace
<1>54. CASE Approved \/ Parks \/ PhaseFails \/ ReadsTip \/ Rebase
  BY <1>1, <1>a, <1>0, <1>d, <1>e, Leads, <1>54
     DEF Approved, Rests, Tree, Parks, ParkedForPeople, PhaseFails, ReadsTip, Rebase,
         Rebased, SquashedOnConflict, AtSubtask, InRace
<1>55. CASE IntegrateFails \/ LeasePush \/ LeaseFails \/ OpensPull \/ GatesPass
  BY <1>1, <1>a, <1>0, <1>d, <1>e, Leads, <1>55
     DEF IntegrateFails, Rests, Tree, LeasePush, LeaseFails, OpensPull, GatesPass,
         AtSubtask, InRace
<1>56. CASE Done
  BY <1>1, <1>a, <1>0, <1>d, <1>e, Leads, <1>56
     DEF Done, AtSubtask, InRace
<1> QED
  BY <1>1, <1>2, <1>3, <1>4, <1>5, <1>6, <1>7, <1>8, <1>9, <1>10, <1>11, <1>12, <1>13,
     <1>14, <1>15, <1>16, <1>17, <1>18, <1>19, <1>20, <1>21, <1>22, <1>23, <1>24, <1>25,
     <1>26, <1>27, <1>28, <1>29, <1>30, <1>31, <1>32, <1>33, <1>34, <1>35, <1>36, <1>37,
     <1>38, <1>39, <1>40, <1>41, <1>42, <1>43, <1>44, <1>45, <1>46, <1>47, <1>48, <1>49,
     <1>50, <1>51, <1>52, <1>53, <1>54, <1>55, <1>56
     DEF Next, RunNext, PlanNext, ExecuteNext, FanoutNext

LEMMA ClaimInit == Init => ClaimInv
BY DEF Init, ClaimInv, Owed, AtSubtask, InRace

(* A run that ends gives back every subtask it holds, however it ends and in  *)
(* whichever step (execute.go, releaseSubtask; candidates.go, claimedSubIDs). *)
THEOREM ClaimsGivenBack == Spec => []ClaimsReturned
<1>1. ClaimInv => ClaimsReturned
  BY DEF ClaimInv, ClaimsReturned, Owed
<1> QED
  BY TypedInit, RaceInit, ClaimInit, TypedStep, RaceInvStep, ClaimStep, <1>1, PTL DEF Spec

-----------------------------------------------------------------------------
(* Settled subtasks. *)

LEMMA SettledLeads ==
    ASSUME me \in Memory
    PROVE  /\ \A w : Exit(w) => me'.next = me.next /\ me'.at = me.at
           /\ \A w : Abort(w) => me'.next = me.next /\ me'.at = me.at
           /\ \A w : Leaves(w) => me'.next = me.next /\ me'.at = me.at
           /\ \A p : Proceed(p) => me'.at = 0
           /\ Idle => me'.at = 0
<1>1. ASSUME NEW w, Exit(w)
      PROVE  me'.next = me.next /\ me'.at = me.at
  BY <1>1 DEF Exit, Memory
<1>2. ASSUME NEW p, Proceed(p)
      PROVE  me'.at = 0
  BY <1>2 DEF Proceed, Memory
<1> QED
  BY <1>1, <1>2 DEF Abort, Leaves, Idle, Fresh

LEMMA SubStep ==
    ASSUME TypedInv, RaceInv, [Next]_vars, NEW s \in Tasks
    PROVE  /\ sub[s] \in Terminal => sub'[s] \in Terminal
           /\ sub[s] # "absent" => sub'[s] # "absent"
<1> DEFINE I == /\ sub[s] \in Terminal => sub'[s] \in Terminal
                /\ sub[s] # "absent" => sub'[s] # "absent"
<1> SUFFICES I
  OBVIOUS
<1>1. CASE UNCHANGED sub
  BY <1>1
<1>2. me \in Memory /\ me.plan \subseteq Tasks
      /\ sub \in [Tasks -> {"absent", "todo", "in_progress"} \cup Terminal]
  BY MemoryHas DEF TypedInv, WorkTypeOK, BoardTypeOK
<1>3. CASE Claim
  <2>1. NextTask \in Open /\ sub' = [sub EXCEPT ![NextTask] = "in_progress"]
    BY <1>3, <1>2, NextTasks DEF Claim
  <2> QED
    BY <1>2, <2>1 DEF Open, Terminal
<1>4. ASSUME NEW i \in Candidates, CandidateClaims(i)
      PROVE  I
  <2>1. cands[i].at \in Open
    BY <1>4 DEF CandidateClaims, RaceInv, Racing
  <2>2. sub' = sub \/ sub' = [sub EXCEPT ![cands[i].at] = "in_progress"]
    BY <1>4 DEF CandidateClaims
  <2> QED
    BY <1>2, <2>1, <2>2 DEF Open, Terminal
<1>5. CASE Replay
  <2>1. sub' = sub \/ \E u : sub' = [sub EXCEPT ![u] = "done"]
    BY <1>5 DEF Replay
  <2> QED
    BY <1>2, <2>1 DEF Terminal
<1>6. CASE CreateSubtask
  <2> DEFINE u == CHOOSE v \in ToCreate : \A w \in ToCreate : v <= w
  <2>1. sub' = [sub EXCEPT ![u] = IF sub[u] = "absent" THEN "todo" ELSE sub[u]]
    BY <1>6 DEF CreateSubtask
  <2> HIDE DEF u
  <2> QED
    BY <1>2, <2>1 DEF Terminal
<1>7. CASE Complete
  BY <1>7, <1>2
     DEF Complete, Kept, Tree, Terminal
<1>8. CASE Salvaged
  BY <1>8, <1>2, Leads
     DEF Salvaged, Kept, Tree, Terminal
<1>9. ASSUME NEW t \in Tasks, Cancel(t)
      PROVE  I
  BY <1>9, <1>2
     DEF Cancel, Terminal
<1>10. CASE Boot \/ BootFails \/ ReconcileFresh \/ ReconcileResume \/ ReconcileFails
         \/ Enter \/ EnterFails \/ ReenterReview \/ Park \/ Release \/ Crash
  BY <1>1, <1>2, Leads, <1>10
     DEF Boot, Recovered, BootFails, ReconcileFresh, ReconcileResume, Adopted,
         ReconcileFails, Enter, Late, Resumed, EnterFails, ReenterReview, Park, Saved,
         Release, Crash
<1>11. CASE Sweep \/ HumanPushes \/ Draft \/ Diagnose(ReselectCap) \/ DraftFails
         \/ Approve \/ Adjust \/ ApproveFails \/ Split \/ NoSplit
  BY <1>1, <1>2, Leads, <1>11
     DEF Sweep, HumanPushes, Draft, Drafted, Plans, MobDrafts, SoloDrafts, Stays, Diagnose,
         DraftFails, Approve, Adjust, Reply, ApproveFails, Split, NoSplit
<1>12. CASE SplitFails \/ Note \/ CreateFails \/ Planned \/ ClaimFails \/ Executed
         \/ Writes \/ Measures \/ CommitsItself \/ Finishes
  BY <1>1, <1>2, Leads, <1>12
     DEF SplitFails, Stays, Note, CreateFails, Planned, ClaimFails, Solo, Kept, Board, Tree,
         History, Executed, Writes, Measures, Identity, CommitsItself, Finishes
<1>13. CASE Reselects \/ CoderFails \/ Gate \/ Fix \/ Regate \/ CommitWork
         \/ CommitNothing \/ CommitFails \/ Discuss \/ ReviseFails
  BY <1>1, <1>2, Leads, <1>13
     DEF Reselects, Kept, Board, Tree, History, CoderFails, NoCoder, Gate, Fix, Regate,
         CommitWork, CommitNothing, CommitFails, Discuss, ReviseFails, Discarded, Checked
<1>14. CASE Recheck \/ Push \/ PushFails \/ CompleteFails \/ SalvageNothing \/ Salvage
         \/ Authority \/ StoppedAtWork \/ Race \/ RaceFails
  BY <1>1, <1>2, Leads, <1>14
     DEF Recheck, Discarded, Checked, Revised, Kept, Board, History, Push, PushFails, Tree,
         CompleteFails, SalvageNothing, Salvage, Authority, StoppedAtWork, Race, RaceFails
<1>15. CASE RaceSkipped \/ Join \/ RaceStopped \/ NothingToJudge \/ JudgeVerifies
         \/ NobodyToJudge \/ JudgeChooses \/ JudgeFails \/ Adopt \/ AdoptFails
  BY <1>1, <1>2, Leads, <1>15
     DEF RaceSkipped, Join, Returned, RaceStopped, Leaves, NothingToJudge, JudgeVerifies, Steps,
         NobodyToJudge, Judging, JudgeChooses, JudgeFails, Adopt, AdoptFails
<1>16. CASE Replayed \/ Document \/ DocumentBroke \/ DocumentPushes \/ StartReview
         \/ StartReviewFails \/ Fixes \/ Discards \/ Approved \/ Parks
  BY <1>1, <1>2, Leads, <1>16
     DEF Replayed, Document, Undone, Rests, DocumentBroke, Tree, DocumentPushes,
         StartReview, StartReviewFails, Fixes, Discards, Approved, Parks, ParkedForPeople
<1>17. CASE PhaseFails \/ ReadsTip \/ Rebase \/ IntegrateFails \/ LeasePush \/ LeaseFails
         \/ OpensPull \/ GatesPass \/ Done \/ Stopped
  BY <1>1, <1>2, Leads, <1>17
     DEF PhaseFails, Rests, Tree, ReadsTip, Rebase, Rebased, SquashedOnConflict,
         IntegrateFails, LeasePush, LeaseFails, OpensPull, GatesPass, Done, Stopped
<1>18. ASSUME NEW i \in Candidates, CandidateBroke(i)
      PROVE  I
  BY <1>1, <1>2, Leads, <1>18
     DEF CandidateBroke, Drops, Steps
<1>19. ASSUME NEW i \in Candidates, CandidateWorks(i)
      PROVE  I
  BY <1>1, <1>2, Leads, <1>19
     DEF CandidateWorks, Passed, Rest, Steps
<1>20. ASSUME NEW i \in Candidates, CandidateCapped(i)
      PROVE  I
  BY <1>1, <1>2, Leads, <1>20
     DEF CandidateCapped, CapSaves, Drops, Steps
<1>21. ASSUME NEW i \in Candidates, CandidateReselects(i)
      PROVE  I
  BY <1>1, <1>2, Leads, <1>21
     DEF CandidateReselects, Drops, Steps
<1> QED
  BY <1>1, <1>3, <1>4, <1>5, <1>6, <1>7, <1>8, <1>9, <1>10, <1>11, <1>12, <1>13, <1>14,
     <1>15, <1>16, <1>17, <1>18, <1>19, <1>20, <1>21
     DEF Next, RunNext, PlanNext, ExecuteNext, FanoutNext

LEMMA BehindStep ==
    ASSUME TypedInv, [Next]_vars, Behind', Resumes
    PROVE  Behind \/ (Boot /\ phase \in LatePhases) \/ NothingToJudge \/ Replayed
<1> DEFINE I == Behind \/ (Boot /\ phase \in LatePhases) \/ NothingToJudge \/ Replayed
<1> SUFFICES I
  OBVIOUS
<1> USE DEF Behind, LatePhases
<1>1. CASE UNCHANGED <<pc, me>>
  BY <1>1
<1>2. me \in Memory
  BY DEF TypedInv, WorkTypeOK
<1>3. CASE Boot
  BY <1>3, <1>2, Leads, SettledLeads
     DEF Boot, Recovered, Memory, Fresh
<1>4. CASE NothingToJudge \/ Replayed
  BY <1>4
<1>5. CASE Enter
  BY <1>5, <1>2, MemoryHas, NamesAre
     DEF Enter, Late, Resumed
<1>6. CASE ReconcileFresh
  BY <1>6, <1>2, Leads, SettledLeads
     DEF ReconcileFresh, Memory
<1>7. CASE ReconcileResume
  BY <1>7, <1>2, Leads, SettledLeads
     DEF ReconcileResume, Adopted, Memory
<1>8. CASE DocumentPushes
  BY <1>8, <1>2, Leads, SettledLeads
     DEF DocumentPushes, Rests, Memory
<1>9. CASE Diagnose(ReselectCap)
  BY <1>9, <1>2, Leads, SettledLeads
     DEF Diagnose, Stays, Memory
<1>10. CASE BootFails \/ ReconcileFails \/ EnterFails \/ ReenterReview \/ Park
         \/ Release \/ Crash
  BY <1>1, <1>2, Leads, SettledLeads, <1>10
     DEF BootFails, ReconcileFails, EnterFails, ReenterReview, Park, Saved, Release, Crash
<1>11. CASE Sweep \/ HumanPushes \/ Draft \/ DraftFails \/ Approve \/ Adjust
  BY <1>1, <1>2, Leads, SettledLeads, <1>11
     DEF Sweep, HumanPushes, Draft, Drafted, Plans, MobDrafts, SoloDrafts, Stays,
         DraftFails, Approve, Adjust, Reply
<1>12. CASE ApproveFails \/ Split \/ NoSplit \/ SplitFails \/ Note \/ CreateSubtask
  BY <1>1, <1>2, Leads, SettledLeads, <1>12
     DEF ApproveFails, Stays, Split, NoSplit, SplitFails, Note, CreateSubtask, ToCreate
<1>13. CASE CreateFails \/ Planned \/ Claim \/ ClaimFails \/ Executed \/ Writes
  BY <1>1, <1>2, Leads, SettledLeads, <1>13
     DEF CreateFails, Stays, Planned, Claim, Solo, Open, Kept, Tree, History, ClaimFails,
         Board, Executed, Writes
<1>14. CASE Measures \/ CommitsItself \/ Finishes \/ Reselects \/ CoderFails \/ Gate
  BY <1>1, <1>2, Leads, SettledLeads, <1>14
     DEF Measures, Identity, Kept, Board, Tree, History, CommitsItself, Finishes, Reselects,
         CoderFails, NoCoder, Gate
<1>15. CASE Fix \/ Regate \/ CommitWork \/ CommitNothing \/ CommitFails \/ Discuss
  BY <1>1, <1>2, Leads, SettledLeads, <1>15
     DEF Fix, Kept, Board, History, Regate, Tree, CommitWork, CommitNothing, CommitFails,
         Discuss
<1>16. CASE ReviseFails \/ Recheck \/ Push \/ PushFails \/ Complete \/ CompleteFails
  BY <1>1, <1>2, Leads, SettledLeads, <1>16
     DEF ReviseFails, Discarded, Checked, Kept, Board, History, Recheck, Revised, Push,
         PushFails, Tree, Complete, CompleteFails
<1>17. CASE SalvageNothing \/ Salvage \/ Authority \/ Salvaged \/ StoppedAtWork \/ Race
  BY <1>1, <1>2, Leads, SettledLeads, <1>17
     DEF SalvageNothing, Kept, Tree, History, Salvage, Board, Authority, Salvaged,
         StoppedAtWork, Race
<1>18. CASE RaceFails \/ RaceSkipped \/ Join \/ RaceStopped \/ JudgeVerifies
         \/ NobodyToJudge
  BY <1>1, <1>2, Leads, SettledLeads, <1>18
     DEF RaceFails, RaceSkipped, Join, Returned, RaceStopped, Leaves, JudgeVerifies, Steps,
         NobodyToJudge, Judging
<1>19. CASE JudgeChooses \/ JudgeFails \/ Adopt \/ AdoptFails \/ Replay \/ Document
  BY <1>1, <1>2, Leads, SettledLeads, <1>19
     DEF JudgeChooses, Judging, JudgeFails, Adopt, AdoptFails, Replay, ToReplay, Open,
         Document, Undone, Rests
<1>20. CASE DocumentBroke \/ StartReview \/ StartReviewFails \/ Fixes \/ Discards
         \/ Approved
  BY <1>1, <1>2, Leads, SettledLeads, <1>20
     DEF DocumentBroke, Rests, Tree, StartReview, StartReviewFails, Fixes, Discards,
         Approved
<1>21. CASE Parks \/ PhaseFails \/ ReadsTip \/ Rebase \/ IntegrateFails \/ LeasePush
  BY <1>1, <1>2, Leads, SettledLeads, <1>21
     DEF Parks, ParkedForPeople, PhaseFails, Rests, Tree, ReadsTip, Rebase, Rebased,
         SquashedOnConflict, IntegrateFails, LeasePush
<1>22. CASE LeaseFails \/ OpensPull \/ GatesPass \/ Done \/ Stopped
  BY <1>1, <1>2, Leads, SettledLeads, <1>22
     DEF LeaseFails, Rests, Tree, OpensPull, GatesPass, Done, Stopped
<1>23. ASSUME NEW t \in Tasks, Cancel(t)
      PROVE  I
  BY <1>1, <1>2, Leads, SettledLeads, <1>23
     DEF Cancel
<1>24. ASSUME NEW i \in Candidates, CandidateClaims(i)
      PROVE  I
  BY <1>1, <1>2, Leads, SettledLeads, <1>24
     DEF CandidateClaims, Steps
<1>25. ASSUME NEW i \in Candidates, CandidateBroke(i)
      PROVE  I
  BY <1>1, <1>2, Leads, SettledLeads, <1>25
     DEF CandidateBroke, Drops, Steps
<1>26. ASSUME NEW i \in Candidates, CandidateWorks(i)
      PROVE  I
  BY <1>1, <1>2, Leads, SettledLeads, <1>26
     DEF CandidateWorks, Passed, Rest, Steps
<1>27. ASSUME NEW i \in Candidates, CandidateCapped(i)
      PROVE  I
  BY <1>1, <1>2, Leads, SettledLeads, <1>27
     DEF CandidateCapped, CapSaves, Drops, Steps
<1>28. ASSUME NEW i \in Candidates, CandidateReselects(i)
      PROVE  I
  BY <1>1, <1>2, Leads, SettledLeads, <1>28
     DEF CandidateReselects, Drops, Steps
<1> QED
  BY <1>1, <1>3, <1>4, <1>5, <1>6, <1>7, <1>8, <1>9, <1>10, <1>11, <1>12, <1>13, <1>14,
     <1>15, <1>16, <1>17, <1>18, <1>19, <1>20, <1>21, <1>22, <1>23, <1>24, <1>25, <1>26,
     <1>27, <1>28
     DEF Next, RunNext, PlanNext, ExecuteNext, FanoutNext

LEMMA ExecutingStep ==
    ASSUME TypedInv, [Next]_vars, Executing', Resumes
    PROVE  \/ (Executing \/ Planned) /\ me'.plan = me.plan
           \/ ReconcileResume /\ Begun
<1> DEFINE I == \/ (Executing \/ Planned) /\ me'.plan = me.plan
                \/ ReconcileResume /\ Begun
<1> SUFFICES I
  OBVIOUS
<1> USE DEF Executing, AtSubtask
<1>1. CASE UNCHANGED <<pc, me>>
  BY <1>1
<1>2. me \in Memory
  BY DEF TypedInv, WorkTypeOK
<1>3. CASE Boot
  BY <1>3, <1>2, Leads, SettledLeads
     DEF Boot, Recovered, Fresh, Memory
<1>4. CASE Planned
  BY <1>4, <1>2, Leads, SettledLeads
     DEF Planned, Stays
<1>5. CASE Enter
  BY <1>5, <1>2, MemoryHas, NamesAre
     DEF Enter, Late, Resumed
<1>6. CASE ReconcileFresh
  BY <1>6, <1>2, Leads, SettledLeads
     DEF ReconcileFresh, Resumes, Memory
<1>7. CASE ReconcileResume
  BY <1>7, <1>2, Leads, SettledLeads
     DEF ReconcileResume, Adopted, Resumes, Memory, Begun
<1>8. CASE Claim
  <2>1. pc = "execute"
    BY <1>8 DEF Claim, Solo
  <2>2. PICK b : me' = [me EXCEPT !.at = NextTask, !.before = b, !.tool = None,
                                  !.verified = FALSE]
    BY <1>8 DEF Claim
  <2>3. me'.plan = me.plan
    BY <1>2, <2>2 DEF Memory
  <2> QED
    BY <2>1, <2>3
<1>9. CASE Draft
  BY <1>9, <1>2, Leads, SettledLeads
     DEF Draft, Drafted, Plans, MobDrafts, SoloDrafts, Stays, Memory
<1>10. CASE Diagnose(ReselectCap)
  BY <1>10, <1>2, Leads, SettledLeads
     DEF Diagnose, Stays, Memory
<1>11. CASE CreateSubtask
  BY <1>11, <1>2, Leads, SettledLeads
     DEF CreateSubtask, ToCreate, Memory
<1>12. CASE Measures
  BY <1>12, <1>2, Leads, SettledLeads
     DEF Measures, Identity, Kept, Board, Tree, History, Memory
<1>13. CASE Reselects
  BY <1>13, <1>2, Leads, SettledLeads
     DEF Reselects, Kept, Board, Tree, History, Memory
<1>14. CASE Gate
  BY <1>14, <1>2, Leads, SettledLeads
     DEF Gate, Kept, Board, Tree, History, Memory
<1>15. CASE Regate
  BY <1>15, <1>2, Leads, SettledLeads
     DEF Regate, Kept, Board, Tree, History, Memory
<1>16. CASE Discuss
  BY <1>16, <1>2, Leads, SettledLeads
     DEF Discuss, Kept, Board, Tree, History, Memory
<1>17. CASE ReviseFails
  BY <1>17, <1>2, Leads, SettledLeads
     DEF ReviseFails, Discarded, Checked, Kept, Board, History, Memory
<1>18. CASE Recheck
  BY <1>18, <1>2, Leads, SettledLeads
     DEF Recheck, Discarded, Checked, Revised, Kept, Board, History, Memory
<1>19. CASE Push
  BY <1>19, <1>2, Leads, SettledLeads
     DEF Push, Kept, Board, History, Memory
<1>20. CASE Complete
  BY <1>20, <1>2, Leads, SettledLeads
     DEF Complete, Kept, Tree, Memory
<1>21. CASE Authority
  BY <1>21, <1>2, Leads, SettledLeads
     DEF Authority, Kept, Board, History, Memory
<1>22. CASE Salvaged
  BY <1>22, <1>2, Leads, SettledLeads
     DEF Salvaged, Kept, Tree, Memory
<1>23. CASE JudgeChooses
  BY <1>23, <1>2, Leads, SettledLeads
     DEF JudgeChooses, Judging, Memory
<1>24. CASE Adopt
  BY <1>24, <1>2, Leads, SettledLeads
     DEF Adopt, Memory
<1>25. CASE Replay
  BY <1>25, <1>2, Leads, SettledLeads
     DEF Replay, ToReplay, Open, Memory
<1>26. CASE DocumentPushes
  BY <1>26, <1>2, Leads, SettledLeads
     DEF DocumentPushes, Rests, Memory
<1>27. CASE ReadsTip
  BY <1>27, <1>2, Leads, SettledLeads
     DEF ReadsTip, Rests, Tree, Memory
<1>28. ASSUME NEW i \in Candidates, CandidateClaims(i)
      PROVE  I
  BY <1>28, <1>2, Leads, SettledLeads
     DEF CandidateClaims, Steps, Memory
<1>29. ASSUME NEW i \in Candidates, CandidateReselects(i)
      PROVE  I
  BY <1>29, <1>2, Leads, SettledLeads
     DEF CandidateReselects, Drops, Steps, Memory
<1>30. CASE BootFails \/ ReconcileFails \/ EnterFails \/ ReenterReview \/ Park
         \/ Release \/ Crash
  BY <1>1, <1>2, Leads, SettledLeads, <1>30
     DEF BootFails, ReconcileFails, EnterFails, ReenterReview, Park, Saved, Release, Crash
<1>31. CASE Sweep \/ HumanPushes \/ DraftFails \/ Approve \/ Adjust \/ ApproveFails
  BY <1>1, <1>2, Leads, SettledLeads, <1>31
     DEF Sweep, HumanPushes, DraftFails, Stays, Approve, Adjust, Reply, ApproveFails
<1>32. CASE Split \/ NoSplit \/ SplitFails \/ Note \/ CreateFails \/ ClaimFails
  BY <1>1, <1>2, Leads, SettledLeads, <1>32
     DEF Split, Stays, NoSplit, SplitFails, Note, CreateFails, ClaimFails, Solo, Kept,
         Board, Tree, History
<1>33. CASE Executed \/ Writes \/ CommitsItself \/ Finishes \/ CoderFails \/ Fix
  BY <1>1, <1>2, Leads, SettledLeads, <1>33
     DEF Executed, Solo, Kept, Board, Tree, History, Writes, CommitsItself, Finishes,
         CoderFails, NoCoder, Fix
<1>34. CASE CommitWork \/ CommitNothing \/ CommitFails \/ PushFails \/ CompleteFails
         \/ SalvageNothing
  BY <1>1, <1>2, Leads, SettledLeads, <1>34
     DEF CommitWork, Kept, Board, CommitNothing, Tree, History, CommitFails, PushFails,
         CompleteFails, SalvageNothing
<1>35. CASE Salvage \/ StoppedAtWork \/ Race \/ RaceFails \/ RaceSkipped \/ Join
  BY <1>1, <1>2, Leads, SettledLeads, <1>35
     DEF Salvage, Kept, Board, History, StoppedAtWork, Tree, Race, RaceFails, RaceSkipped,
         Join, Returned
<1>36. CASE RaceStopped \/ NothingToJudge \/ JudgeVerifies \/ NobodyToJudge \/ JudgeFails
         \/ AdoptFails
  BY <1>1, <1>2, Leads, SettledLeads, <1>36
     DEF RaceStopped, Leaves, Returned, NothingToJudge, JudgeVerifies, Steps, NobodyToJudge,
         Judging, JudgeFails, AdoptFails
<1>37. CASE Replayed \/ Document \/ DocumentBroke \/ StartReview \/ StartReviewFails
         \/ Fixes
  BY <1>1, <1>2, Leads, SettledLeads, <1>37
     DEF Replayed, Document, Undone, Rests, DocumentBroke, Tree, StartReview,
         StartReviewFails, Fixes
<1>38. CASE Discards \/ Approved \/ Parks \/ PhaseFails \/ Rebase \/ IntegrateFails
  BY <1>1, <1>2, Leads, SettledLeads, <1>38
     DEF Discards, Rests, Approved, Tree, Parks, ParkedForPeople, PhaseFails, Rebase,
         Rebased, SquashedOnConflict, IntegrateFails
<1>39. CASE LeasePush \/ LeaseFails \/ OpensPull \/ GatesPass \/ Done \/ Stopped
  BY <1>1, <1>2, Leads, SettledLeads, <1>39
     DEF LeasePush, Rests, LeaseFails, Tree, OpensPull, GatesPass, Done, Stopped
<1>40. ASSUME NEW t \in Tasks, Cancel(t)
      PROVE  I
  BY <1>1, <1>2, Leads, SettledLeads, <1>40
     DEF Cancel
<1>41. ASSUME NEW i \in Candidates, CandidateBroke(i)
      PROVE  I
  BY <1>1, <1>2, Leads, SettledLeads, <1>41
     DEF CandidateBroke, Drops, Steps
<1>42. ASSUME NEW i \in Candidates, CandidateWorks(i)
      PROVE  I
  BY <1>1, <1>2, Leads, SettledLeads, <1>42
     DEF CandidateWorks, Passed, Rest, Steps
<1>43. ASSUME NEW i \in Candidates, CandidateCapped(i)
      PROVE  I
  BY <1>1, <1>2, Leads, SettledLeads, <1>43
     DEF CandidateCapped, CapSaves, Drops, Steps
<1> QED
  BY <1>1, <1>3, <1>4, <1>5, <1>6, <1>7, <1>8, <1>9, <1>10, <1>11, <1>12, <1>13, <1>14,
     <1>15, <1>16, <1>17, <1>18, <1>19, <1>20, <1>21, <1>22, <1>23, <1>24, <1>25, <1>26,
     <1>27, <1>28, <1>29, <1>30, <1>31, <1>32, <1>33, <1>34, <1>35, <1>36, <1>37, <1>38,
     <1>39, <1>40, <1>41, <1>42, <1>43
     DEF Next, RunNext, PlanNext, ExecuteNext, FanoutNext

LEMMA PlanningStep ==
    ASSUME TypedInv, [Next]_vars, Planning', ~Fault("redraft")
    PROVE  (Planning /\ me'.plan = me.plan) \/ me'.plan = Tasks
<1> DEFINE I == (Planning /\ me'.plan = me.plan) \/ me'.plan = Tasks
<1> SUFFICES I
  OBVIOUS
<1> USE DEF Planning
<1>1. CASE UNCHANGED <<pc, me>>
  BY <1>1
<1>2. me \in Memory
  BY DEF TypedInv, WorkTypeOK
<1>3. CASE Draft
  <2>1. me' = [me EXCEPT !.plan = Tasks, !.drafts = @ + 1]
    BY <1>3 DEF Draft, MobDrafts, SoloDrafts, Plans, Drafted
  <2> QED
    BY <1>2, <2>1 DEF Memory
<1>4. CASE CreateSubtask
  BY <1>4, <1>2, Leads, SettledLeads
     DEF CreateSubtask, ToCreate, Memory
<1>5. CASE Enter
  BY <1>5, <1>2, MemoryHas, NamesAre
     DEF Enter, Late, Resumed
<1>6. CASE Boot \/ BootFails \/ ReconcileFresh \/ ReconcileResume \/ ReconcileFails
         \/ EnterFails \/ ReenterReview
  BY <1>1, <1>2, Leads, SettledLeads, <1>6
     DEF Boot, Recovered, BootFails, ReconcileFresh, ReconcileResume, Adopted,
         ReconcileFails, EnterFails, ReenterReview
<1>7. CASE Park \/ Release \/ Crash \/ Sweep \/ HumanPushes \/ Diagnose(ReselectCap)
  BY <1>1, <1>2, Leads, SettledLeads, <1>7
     DEF Park, Saved, Release, Crash, Sweep, HumanPushes, Diagnose, Stays
<1>8. CASE DraftFails \/ Approve \/ Adjust \/ ApproveFails \/ Split \/ NoSplit
  BY <1>1, <1>2, Leads, SettledLeads, <1>8
     DEF DraftFails, Stays, Approve, Adjust, Reply, ApproveFails, Split, NoSplit
<1>9. CASE SplitFails \/ Note \/ CreateFails \/ Planned \/ Claim \/ ClaimFails
  BY <1>1, <1>2, Leads, SettledLeads, <1>9
     DEF SplitFails, Stays, Note, CreateFails, Planned, Claim, Solo, Open, Kept, Tree,
         History, ClaimFails, Board
<1>10. CASE Executed \/ Writes \/ Measures \/ CommitsItself \/ Finishes \/ Reselects
  BY <1>1, <1>2, Leads, SettledLeads, <1>10
     DEF Executed, Solo, Kept, Board, Tree, History, Writes, Measures, Identity,
         CommitsItself, Finishes, Reselects
<1>11. CASE CoderFails \/ Gate \/ Fix \/ Regate \/ CommitWork \/ CommitNothing
  BY <1>1, <1>2, Leads, SettledLeads, <1>11
     DEF CoderFails, NoCoder, Kept, Board, Tree, History, Gate, Fix, Regate, CommitWork,
         CommitNothing
<1>12. CASE CommitFails \/ Discuss \/ ReviseFails \/ Recheck \/ Push \/ PushFails
  BY <1>1, <1>2, Leads, SettledLeads, <1>12
     DEF CommitFails, Kept, Tree, History, Discuss, Board, ReviseFails, Discarded, Checked,
         Recheck, Revised, Push, PushFails
<1>13. CASE Complete \/ CompleteFails \/ SalvageNothing \/ Salvage \/ Authority
         \/ Salvaged
  BY <1>1, <1>2, Leads, SettledLeads, <1>13
     DEF Complete, Kept, Tree, CompleteFails, History, SalvageNothing, Salvage, Board,
         Authority, Salvaged
<1>14. CASE StoppedAtWork \/ Race \/ RaceFails \/ RaceSkipped \/ Join \/ RaceStopped
  BY <1>1, <1>2, Leads, SettledLeads, <1>14
     DEF StoppedAtWork, Kept, Tree, History, Race, RaceFails, RaceSkipped, Join, Returned,
         RaceStopped, Leaves
<1>15. CASE NothingToJudge \/ JudgeVerifies \/ NobodyToJudge \/ JudgeChooses \/ JudgeFails
         \/ Adopt
  BY <1>1, <1>2, Leads, SettledLeads, <1>15
     DEF NothingToJudge, JudgeVerifies, Steps, NobodyToJudge, Judging, Returned,
         JudgeChooses, JudgeFails, Adopt
<1>16. CASE AdoptFails \/ Replay \/ Replayed \/ Document \/ DocumentBroke
         \/ DocumentPushes
  BY <1>1, <1>2, Leads, SettledLeads, <1>16
     DEF AdoptFails, Replay, ToReplay, Open, Replayed, Document, Undone, Rests,
         DocumentBroke, Tree, DocumentPushes
<1>17. CASE StartReview \/ StartReviewFails \/ Fixes \/ Discards \/ Approved \/ Parks
  BY <1>1, <1>2, Leads, SettledLeads, <1>17
     DEF StartReview, Rests, Tree, StartReviewFails, Fixes, Discards, Approved, Parks,
         ParkedForPeople
<1>18. CASE PhaseFails \/ ReadsTip \/ Rebase \/ IntegrateFails \/ LeasePush \/ LeaseFails
  BY <1>1, <1>2, Leads, SettledLeads, <1>18
     DEF PhaseFails, Rests, Tree, ReadsTip, Rebase, Rebased, SquashedOnConflict,
         IntegrateFails, LeasePush, LeaseFails
<1>19. CASE OpensPull \/ GatesPass \/ Done \/ Stopped
  BY <1>1, <1>2, Leads, SettledLeads, <1>19
     DEF OpensPull, Rests, Tree, GatesPass, Done, Stopped
<1>20. ASSUME NEW t \in Tasks, Cancel(t)
      PROVE  I
  BY <1>1, <1>2, Leads, SettledLeads, <1>20
     DEF Cancel
<1>21. ASSUME NEW i \in Candidates, CandidateClaims(i)
      PROVE  I
  BY <1>1, <1>2, Leads, SettledLeads, <1>21
     DEF CandidateClaims, Steps
<1>22. ASSUME NEW i \in Candidates, CandidateBroke(i)
      PROVE  I
  BY <1>1, <1>2, Leads, SettledLeads, <1>22
     DEF CandidateBroke, Drops, Steps
<1>23. ASSUME NEW i \in Candidates, CandidateWorks(i)
      PROVE  I
  BY <1>1, <1>2, Leads, SettledLeads, <1>23
     DEF CandidateWorks, Passed, Rest, Steps
<1>24. ASSUME NEW i \in Candidates, CandidateCapped(i)
      PROVE  I
  BY <1>1, <1>2, Leads, SettledLeads, <1>24
     DEF CandidateCapped, CapSaves, Drops, Steps
<1>25. ASSUME NEW i \in Candidates, CandidateReselects(i)
      PROVE  I
  BY <1>1, <1>2, Leads, SettledLeads, <1>25
     DEF CandidateReselects, Drops, Steps
<1> QED
  BY <1>1, <1>3, <1>4, <1>5, <1>6, <1>7, <1>8, <1>9, <1>10, <1>11, <1>12, <1>13, <1>14,
     <1>15, <1>16, <1>17, <1>18, <1>19, <1>20, <1>21, <1>22, <1>23, <1>24, <1>25
     DEF Next, RunNext, PlanNext, ExecuteNext, FanoutNext

LEMMA AtNoneStep ==
    ASSUME TypedInv, [Next]_vars, AtNone
    PROVE  AtNone'
<1> DEFINE I == AtNone'
<1> SUFFICES I
  OBVIOUS
<1> USE DEF AtNone
<1>1. CASE UNCHANGED <<pc, me>>
  BY <1>1
<1>2. me \in Memory
  BY DEF TypedInv, WorkTypeOK
<1>3. CASE Boot
  BY <1>3, <1>2, Leads, SettledLeads
     DEF Boot, Recovered, Fresh, Memory
<1>4. CASE Enter
  BY <1>4, <1>2, MemoryHas, NamesAre
     DEF Enter, Late, Resumed
<1>5. CASE ReconcileFresh
  BY <1>5, <1>2, Leads, SettledLeads
     DEF ReconcileFresh, Memory
<1>6. CASE ReconcileResume
  BY <1>6, <1>2, Leads, SettledLeads
     DEF ReconcileResume, Adopted, Memory
<1>7. CASE Draft
  BY <1>7, <1>2, Leads, SettledLeads
     DEF Draft, Drafted, Plans, MobDrafts, SoloDrafts, Stays, Memory
<1>8. CASE Diagnose(ReselectCap)
  BY <1>8, <1>2, Leads, SettledLeads
     DEF Diagnose, Stays, Memory
<1>9. CASE DocumentPushes
  BY <1>9, <1>2, Leads, SettledLeads
     DEF DocumentPushes, Rests, Memory
<1>10. CASE BootFails \/ ReconcileFails \/ EnterFails \/ ReenterReview \/ Park
         \/ Release \/ Crash
  BY <1>1, <1>2, Leads, SettledLeads, <1>10
     DEF BootFails, ReconcileFails, EnterFails, ReenterReview, Park, Saved, Release, Crash
<1>11. CASE Sweep \/ HumanPushes \/ DraftFails \/ Approve \/ Adjust \/ ApproveFails
  BY <1>1, <1>2, Leads, SettledLeads, <1>11
     DEF Sweep, HumanPushes, DraftFails, Stays, Approve, Adjust, Reply, ApproveFails
<1>12. CASE Split \/ NoSplit \/ SplitFails \/ Note \/ CreateSubtask \/ CreateFails
  BY <1>1, <1>2, Leads, SettledLeads, <1>12
     DEF Split, Stays, NoSplit, SplitFails, Note, CreateSubtask, ToCreate, CreateFails
<1>13. CASE Planned \/ Claim \/ ClaimFails \/ Executed \/ Writes \/ Measures
  BY <1>1, <1>2, Leads, SettledLeads, <1>13
     DEF Planned, Stays, Claim, Solo, Open, Kept, Tree, History, ClaimFails, Board,
         Executed, Writes, Measures, Identity
<1>14. CASE CommitsItself \/ Finishes \/ Reselects \/ CoderFails \/ Gate \/ Fix
  BY <1>1, <1>2, Leads, SettledLeads, <1>14
     DEF CommitsItself, Kept, Board, Finishes, Tree, History, Reselects, CoderFails,
         NoCoder, Gate, Fix
<1>15. CASE Regate \/ CommitWork \/ CommitNothing \/ CommitFails \/ Discuss \/ ReviseFails
  BY <1>1, <1>2, Leads, SettledLeads, <1>15
     DEF Regate, Kept, Board, Tree, History, CommitWork, CommitNothing, CommitFails,
         Discuss, ReviseFails, Discarded, Checked
<1>16. CASE Recheck \/ Push \/ PushFails \/ Complete \/ CompleteFails \/ SalvageNothing
  BY <1>1, <1>2, Leads, SettledLeads, <1>16
     DEF Recheck, Discarded, Checked, Revised, Kept, Board, History, Push, PushFails, Tree,
         Complete, CompleteFails, SalvageNothing
<1>17. CASE Salvage \/ Authority \/ Salvaged \/ StoppedAtWork \/ Race \/ RaceFails
  BY <1>1, <1>2, Leads, SettledLeads, <1>17
     DEF Salvage, Kept, Board, History, Authority, Salvaged, Tree, StoppedAtWork, Race,
         RaceFails
<1>18. CASE RaceSkipped \/ Join \/ RaceStopped \/ NothingToJudge \/ JudgeVerifies
         \/ NobodyToJudge
  BY <1>1, <1>2, Leads, SettledLeads, <1>18
     DEF RaceSkipped, Join, Returned, RaceStopped, Leaves, NothingToJudge, JudgeVerifies, Steps,
         NobodyToJudge, Judging
<1>19. CASE JudgeChooses \/ JudgeFails \/ Adopt \/ AdoptFails \/ Replay \/ Replayed
  BY <1>1, <1>2, Leads, SettledLeads, <1>19
     DEF JudgeChooses, Judging, JudgeFails, Adopt, AdoptFails, Replay, ToReplay, Open,
         Replayed
<1>20. CASE Document \/ DocumentBroke \/ StartReview \/ StartReviewFails \/ Fixes
         \/ Discards
  BY <1>1, <1>2, Leads, SettledLeads, <1>20
     DEF Document, Undone, Rests, DocumentBroke, Tree, StartReview, StartReviewFails, Fixes,
         Discards
<1>21. CASE Approved \/ Parks \/ PhaseFails \/ ReadsTip \/ Rebase \/ IntegrateFails
  BY <1>1, <1>2, Leads, SettledLeads, <1>21
     DEF Approved, Rests, Tree, Parks, ParkedForPeople, PhaseFails, ReadsTip, Rebase,
         Rebased, SquashedOnConflict, IntegrateFails
<1>22. CASE LeasePush \/ LeaseFails \/ OpensPull \/ GatesPass \/ Done \/ Stopped
  BY <1>1, <1>2, Leads, SettledLeads, <1>22
     DEF LeasePush, Rests, LeaseFails, Tree, OpensPull, GatesPass, Done, Stopped
<1>23. ASSUME NEW t \in Tasks, Cancel(t)
      PROVE  I
  BY <1>1, <1>2, Leads, SettledLeads, <1>23
     DEF Cancel
<1>24. ASSUME NEW i \in Candidates, CandidateClaims(i)
      PROVE  I
  BY <1>1, <1>2, Leads, SettledLeads, <1>24
     DEF CandidateClaims, Steps
<1>25. ASSUME NEW i \in Candidates, CandidateBroke(i)
      PROVE  I
  BY <1>1, <1>2, Leads, SettledLeads, <1>25
     DEF CandidateBroke, Drops, Steps
<1>26. ASSUME NEW i \in Candidates, CandidateWorks(i)
      PROVE  I
  BY <1>1, <1>2, Leads, SettledLeads, <1>26
     DEF CandidateWorks, Passed, Rest, Steps
<1>27. ASSUME NEW i \in Candidates, CandidateCapped(i)
      PROVE  I
  BY <1>1, <1>2, Leads, SettledLeads, <1>27
     DEF CandidateCapped, CapSaves, Drops, Steps
<1>28. ASSUME NEW i \in Candidates, CandidateReselects(i)
      PROVE  I
  BY <1>1, <1>2, Leads, SettledLeads, <1>28
     DEF CandidateReselects, Drops, Steps
<1> QED
  BY <1>1, <1>3, <1>4, <1>5, <1>6, <1>7, <1>8, <1>9, <1>10, <1>11, <1>12, <1>13, <1>14,
     <1>15, <1>16, <1>17, <1>18, <1>19, <1>20, <1>21, <1>22, <1>23, <1>24, <1>25, <1>26,
     <1>27, <1>28
     DEF Next, RunNext, PlanNext, ExecuteNext, FanoutNext

LEMMA ResumesStep ==
    ASSUME TypedInv, [Next]_vars, Resumes
    PROVE  Resumes'
<1> DEFINE I == Resumes'
<1> SUFFICES I
  OBVIOUS
<1> USE DEF Resumes, Begun
<1>1. CASE UNCHANGED <<pc, phase, me>>
  BY <1>1
<1>2. me \in Memory
  BY DEF TypedInv, WorkTypeOK
<1>3. CASE Boot
  BY <1>3, <1>2, Leads, SettledLeads
     DEF Boot, Recovered, Fresh, Memory
<1>4. CASE Enter
  BY <1>4, <1>2, MemoryHas, NamesAre
     DEF Enter, Late, Resumed
<1>5. CASE BootFails \/ ReconcileFresh \/ ReconcileResume \/ ReconcileFails
         \/ EnterFails \/ ReenterReview
         \/ Park
  BY <1>1, <1>2, Leads, SettledLeads, <1>5
     DEF BootFails, ReconcileFresh, ReconcileResume, Adopted, ReconcileFails, EnterFails,
         ReenterReview,
         Park, Saved
<1>6. CASE Release \/ Crash \/ Sweep \/ HumanPushes \/ Draft \/ Diagnose(ReselectCap)
  BY <1>1, <1>2, Leads, SettledLeads, <1>6
     DEF Release, Crash, Sweep, HumanPushes, Draft, Drafted, Plans, MobDrafts, SoloDrafts,
         Stays, Diagnose
<1>7. CASE DraftFails \/ Approve \/ Adjust \/ ApproveFails \/ Split \/ NoSplit
  BY <1>1, <1>2, Leads, SettledLeads, <1>7
     DEF DraftFails, Stays, Approve, Adjust, Reply, ApproveFails, Split, NoSplit
<1>8. CASE SplitFails \/ Note \/ CreateSubtask \/ CreateFails \/ Planned \/ Claim
  BY <1>1, <1>2, Leads, SettledLeads, <1>8
     DEF SplitFails, Stays, Note, CreateSubtask, ToCreate, CreateFails, Planned, Claim,
         Solo, Open, Kept, Tree, History
<1>9. CASE ClaimFails \/ Executed \/ Writes \/ Measures \/ CommitsItself \/ Finishes
  BY <1>1, <1>2, Leads, SettledLeads, <1>9
     DEF ClaimFails, Solo, Kept, Board, Tree, History, Executed, Writes, Measures, Identity,
         CommitsItself, Finishes
<1>10. CASE Reselects \/ CoderFails \/ Gate \/ Fix \/ Regate \/ CommitWork
  BY <1>1, <1>2, Leads, SettledLeads, <1>10
     DEF Reselects, Kept, Board, Tree, History, CoderFails, NoCoder, Gate, Fix, Regate,
         CommitWork
<1>11. CASE CommitNothing \/ CommitFails \/ Discuss \/ ReviseFails \/ Recheck \/ Push
  BY <1>1, <1>2, Leads, SettledLeads, <1>11
     DEF CommitNothing, Kept, Board, Tree, History, CommitFails, Discuss, ReviseFails,
         Discarded, Checked, Recheck, Revised, Push
<1>12. CASE PushFails \/ Complete \/ CompleteFails \/ SalvageNothing \/ Salvage
         \/ Authority
  BY <1>1, <1>2, Leads, SettledLeads, <1>12
     DEF PushFails, Kept, Tree, History, Complete, CompleteFails, SalvageNothing, Salvage,
         Board, Authority
<1>13. CASE Salvaged \/ StoppedAtWork \/ Race \/ RaceFails \/ RaceSkipped \/ Join
  BY <1>1, <1>2, Leads, SettledLeads, <1>13
     DEF Salvaged, Kept, Tree, StoppedAtWork, History, Race, RaceFails, RaceSkipped, Join,
         Returned
<1>14. CASE RaceStopped \/ NothingToJudge \/ JudgeVerifies \/ NobodyToJudge
         \/ JudgeChooses \/ JudgeFails
  BY <1>1, <1>2, Leads, SettledLeads, <1>14
     DEF RaceStopped, Leaves, Returned, NothingToJudge, JudgeVerifies, Steps, NobodyToJudge,
         Judging, JudgeChooses, JudgeFails
<1>15. CASE Adopt \/ AdoptFails \/ Replay \/ Replayed \/ Document \/ DocumentBroke
  BY <1>1, <1>2, Leads, SettledLeads, <1>15
     DEF Adopt, AdoptFails, Replay, ToReplay, Open, Replayed, Document, Undone, Rests,
         DocumentBroke, Tree
<1>16. CASE DocumentPushes \/ StartReview \/ StartReviewFails \/ Fixes \/ Discards
         \/ Approved
  BY <1>1, <1>2, Leads, SettledLeads, <1>16
     DEF DocumentPushes, Rests, StartReview, Tree, StartReviewFails, Fixes, Discards,
         Approved
<1>17. CASE Parks \/ PhaseFails \/ ReadsTip \/ Rebase \/ IntegrateFails \/ LeasePush
  BY <1>1, <1>2, Leads, SettledLeads, <1>17
     DEF Parks, ParkedForPeople, PhaseFails, Rests, Tree, ReadsTip, Rebase, Rebased,
         SquashedOnConflict, IntegrateFails, LeasePush
<1>18. CASE LeaseFails \/ OpensPull \/ GatesPass \/ Done \/ Stopped
  BY <1>1, <1>2, Leads, SettledLeads, <1>18
     DEF LeaseFails, Rests, Tree, OpensPull, GatesPass, Done, Stopped
<1>19. ASSUME NEW t \in Tasks, Cancel(t)
      PROVE  I
  BY <1>1, <1>2, Leads, SettledLeads, <1>19
     DEF Cancel
<1>20. ASSUME NEW i \in Candidates, CandidateClaims(i)
      PROVE  I
  BY <1>1, <1>2, Leads, SettledLeads, <1>20
     DEF CandidateClaims, Steps
<1>21. ASSUME NEW i \in Candidates, CandidateBroke(i)
      PROVE  I
  BY <1>1, <1>2, Leads, SettledLeads, <1>21
     DEF CandidateBroke, Drops, Steps
<1>22. ASSUME NEW i \in Candidates, CandidateWorks(i)
      PROVE  I
  BY <1>1, <1>2, Leads, SettledLeads, <1>22
     DEF CandidateWorks, Passed, Rest, Steps
<1>23. ASSUME NEW i \in Candidates, CandidateCapped(i)
      PROVE  I
  BY <1>1, <1>2, Leads, SettledLeads, <1>23
     DEF CandidateCapped, CapSaves, Drops, Steps
<1>24. ASSUME NEW i \in Candidates, CandidateReselects(i)
      PROVE  I
  BY <1>1, <1>2, Leads, SettledLeads, <1>24
     DEF CandidateReselects, Drops, Steps
<1> QED
  BY <1>1, <1>3, <1>4, <1>5, <1>6, <1>7, <1>8, <1>9, <1>10, <1>11, <1>12, <1>13, <1>14,
     <1>15, <1>16, <1>17, <1>18, <1>19, <1>20, <1>21, <1>22, <1>23, <1>24
     DEF Next, RunNext, PlanNext, ExecuteNext, FanoutNext

LEMMA BegunStep ==
    ASSUME TypedInv, [Next]_vars, Begun'
    PROVE  Begun \/ (Enter /\ me.next # "plan")
<1> DEFINE I == Begun \/ (Enter /\ me.next # "plan")
<1> SUFFICES I
  OBVIOUS
<1> USE DEF Begun
<1>1. CASE UNCHANGED phase
  BY <1>1
<1>2. me \in Memory
  BY DEF TypedInv, WorkTypeOK
<1>3. CASE Enter
  BY <1>3
     DEF Enter, Late, Resumed
<1>4. CASE Boot \/ BootFails \/ ReconcileFresh \/ ReconcileResume \/ ReconcileFails
         \/ EnterFails \/ ReenterReview \/ Park \/ Release \/ Crash \/ Sweep
  BY <1>1, <1>2, Leads, <1>4
     DEF Boot, Recovered, BootFails, ReconcileFresh, ReconcileResume, Adopted,
         ReconcileFails, EnterFails, ReenterReview, Park, Saved, Release, Crash, Sweep
<1>5. CASE HumanPushes \/ Draft \/ Diagnose(ReselectCap) \/ DraftFails \/ Approve
         \/ Adjust \/ ApproveFails \/ Split \/ NoSplit \/ SplitFails
  BY <1>1, <1>2, Leads, <1>5
     DEF HumanPushes, Draft, Drafted, Plans, MobDrafts, SoloDrafts, Stays, Diagnose,
         DraftFails, Approve, Adjust, Reply, ApproveFails, Split, NoSplit, SplitFails
<1>6. CASE Note \/ CreateSubtask \/ CreateFails \/ Planned \/ Claim \/ ClaimFails
         \/ Executed \/ Writes \/ Measures \/ CommitsItself
  BY <1>1, <1>2, Leads, <1>6
     DEF Note, Stays, CreateSubtask, ToCreate, CreateFails, Planned, Claim, Solo, Open,
         Kept, Tree, History, ClaimFails, Board, Executed, Writes, Measures, Identity,
         CommitsItself
<1>7. CASE Finishes \/ Reselects \/ CoderFails \/ Gate \/ Fix \/ Regate \/ CommitWork
         \/ CommitNothing \/ CommitFails \/ Discuss
  BY <1>1, <1>2, Leads, <1>7
     DEF Finishes, Kept, Board, Tree, History, Reselects, CoderFails, NoCoder, Gate, Fix,
         Regate, CommitWork, CommitNothing, CommitFails, Discuss
<1>8. CASE ReviseFails \/ Recheck \/ Push \/ PushFails \/ Complete \/ CompleteFails
         \/ SalvageNothing \/ Salvage \/ Authority \/ Salvaged
  BY <1>1, <1>2, Leads, <1>8
     DEF ReviseFails, Discarded, Checked, Kept, Board, History, Recheck, Revised, Push,
         PushFails, Tree, Complete, CompleteFails, SalvageNothing, Salvage, Authority,
         Salvaged
<1>9. CASE StoppedAtWork \/ Race \/ RaceFails \/ RaceSkipped \/ Join \/ RaceStopped
         \/ NothingToJudge \/ JudgeVerifies \/ NobodyToJudge \/ JudgeChooses
  BY <1>1, <1>2, Leads, <1>9
     DEF StoppedAtWork, Kept, Tree, History, Race, RaceFails, RaceSkipped, Join, Returned,
         RaceStopped, Leaves, NothingToJudge, JudgeVerifies, Steps, NobodyToJudge, Judging,
         JudgeChooses
<1>10. CASE JudgeFails \/ Adopt \/ AdoptFails \/ Replay \/ Replayed \/ Document
         \/ DocumentBroke \/ DocumentPushes \/ StartReview \/ StartReviewFails
  BY <1>1, <1>2, Leads, <1>10
     DEF JudgeFails, Adopt, AdoptFails, Replay, ToReplay, Open, Replayed, Document, Undone,
         Rests, DocumentBroke, Tree, DocumentPushes, StartReview, StartReviewFails
<1>11. CASE Fixes \/ Discards \/ Approved \/ Parks \/ PhaseFails \/ ReadsTip \/ Rebase
         \/ IntegrateFails \/ LeasePush \/ LeaseFails
  BY <1>1, <1>2, Leads, <1>11
     DEF Fixes, Rests, Discards, Approved, Tree, Parks, ParkedForPeople, PhaseFails,
         ReadsTip, Rebase, Rebased, SquashedOnConflict, IntegrateFails, LeasePush,
         LeaseFails
<1>12. CASE OpensPull \/ GatesPass \/ Done \/ Stopped
  BY <1>1, <1>2, Leads, <1>12
     DEF OpensPull, Rests, Tree, GatesPass, Done, Stopped
<1>13. ASSUME NEW t \in Tasks, Cancel(t)
      PROVE  I
  BY <1>1, <1>2, Leads, <1>13
     DEF Cancel
<1>14. ASSUME NEW i \in Candidates, CandidateClaims(i)
      PROVE  I
  BY <1>1, <1>2, Leads, <1>14
     DEF CandidateClaims, Steps
<1>15. ASSUME NEW i \in Candidates, CandidateBroke(i)
      PROVE  I
  BY <1>1, <1>2, Leads, <1>15
     DEF CandidateBroke, Drops, Steps
<1>16. ASSUME NEW i \in Candidates, CandidateWorks(i)
      PROVE  I
  BY <1>1, <1>2, Leads, <1>16
     DEF CandidateWorks, Passed, Rest, Steps
<1>17. ASSUME NEW i \in Candidates, CandidateCapped(i)
      PROVE  I
  BY <1>1, <1>2, Leads, <1>17
     DEF CandidateCapped, CapSaves, Drops, Steps
<1>18. ASSUME NEW i \in Candidates, CandidateReselects(i)
      PROVE  I
  BY <1>1, <1>2, Leads, <1>18
     DEF CandidateReselects, Drops, Steps
<1> QED
  BY <1>1, <1>3, <1>4, <1>5, <1>6, <1>7, <1>8, <1>9, <1>10, <1>11, <1>12, <1>13, <1>14,
     <1>15, <1>16, <1>17, <1>18
     DEF Next, RunNext, PlanNext, ExecuteNext, FanoutNext

LEMMA PhaseIs ==
    ASSUME TypedInv, [Next]_vars
    PROVE  phase' = phase \/ (Enter /\ phase' = me.next /\ sub' = sub)
<1> DEFINE I == phase' = phase \/ (Enter /\ phase' = me.next /\ sub' = sub)
<1> SUFFICES I
  OBVIOUS
<1>1. CASE UNCHANGED phase
  BY <1>1
<1>2. me \in Memory
  BY DEF TypedInv, WorkTypeOK
<1>3. CASE Enter
  BY <1>3
     DEF Enter, Late, Resumed
<1>4. CASE Boot \/ BootFails \/ ReconcileFresh \/ ReconcileResume \/ ReconcileFails
         \/ EnterFails \/ ReenterReview \/ Park \/ Release \/ Crash \/ Sweep
  BY <1>1, <1>2, Leads, <1>4
     DEF Boot, Recovered, BootFails, ReconcileFresh, ReconcileResume, Adopted,
         ReconcileFails, EnterFails, ReenterReview, Park, Saved, Release, Crash, Sweep
<1>5. CASE HumanPushes \/ Draft \/ Diagnose(ReselectCap) \/ DraftFails \/ Approve
         \/ Adjust \/ ApproveFails \/ Split \/ NoSplit \/ SplitFails
  BY <1>1, <1>2, Leads, <1>5
     DEF HumanPushes, Draft, Drafted, Plans, MobDrafts, SoloDrafts, Stays, Diagnose,
         DraftFails, Approve, Adjust, Reply, ApproveFails, Split, NoSplit, SplitFails
<1>6. CASE Note \/ CreateSubtask \/ CreateFails \/ Planned \/ Claim \/ ClaimFails
         \/ Executed \/ Writes \/ Measures \/ CommitsItself
  BY <1>1, <1>2, Leads, <1>6
     DEF Note, Stays, CreateSubtask, ToCreate, CreateFails, Planned, Claim, Solo, Open,
         Kept, Tree, History, ClaimFails, Board, Executed, Writes, Measures, Identity,
         CommitsItself
<1>7. CASE Finishes \/ Reselects \/ CoderFails \/ Gate \/ Fix \/ Regate \/ CommitWork
         \/ CommitNothing \/ CommitFails \/ Discuss
  BY <1>1, <1>2, Leads, <1>7
     DEF Finishes, Kept, Board, Tree, History, Reselects, CoderFails, NoCoder, Gate, Fix,
         Regate, CommitWork, CommitNothing, CommitFails, Discuss
<1>8. CASE ReviseFails \/ Recheck \/ Push \/ PushFails \/ Complete \/ CompleteFails
         \/ SalvageNothing \/ Salvage \/ Authority \/ Salvaged
  BY <1>1, <1>2, Leads, <1>8
     DEF ReviseFails, Discarded, Checked, Kept, Board, History, Recheck, Revised, Push,
         PushFails, Tree, Complete, CompleteFails, SalvageNothing, Salvage, Authority,
         Salvaged
<1>9. CASE StoppedAtWork \/ Race \/ RaceFails \/ RaceSkipped \/ Join \/ RaceStopped
         \/ NothingToJudge \/ JudgeVerifies \/ NobodyToJudge \/ JudgeChooses
  BY <1>1, <1>2, Leads, <1>9
     DEF StoppedAtWork, Kept, Tree, History, Race, RaceFails, RaceSkipped, Join, Returned,
         RaceStopped, Leaves, NothingToJudge, JudgeVerifies, Steps, NobodyToJudge, Judging,
         JudgeChooses
<1>10. CASE JudgeFails \/ Adopt \/ AdoptFails \/ Replay \/ Replayed \/ Document
         \/ DocumentBroke \/ DocumentPushes \/ StartReview \/ StartReviewFails
  BY <1>1, <1>2, Leads, <1>10
     DEF JudgeFails, Adopt, AdoptFails, Replay, ToReplay, Open, Replayed, Document, Undone,
         Rests, DocumentBroke, Tree, DocumentPushes, StartReview, StartReviewFails
<1>11. CASE Fixes \/ Discards \/ Approved \/ Parks \/ PhaseFails \/ ReadsTip \/ Rebase
         \/ IntegrateFails \/ LeasePush \/ LeaseFails
  BY <1>1, <1>2, Leads, <1>11
     DEF Fixes, Rests, Discards, Approved, Tree, Parks, ParkedForPeople, PhaseFails,
         ReadsTip, Rebase, Rebased, SquashedOnConflict, IntegrateFails, LeasePush,
         LeaseFails
<1>12. CASE OpensPull \/ GatesPass \/ Done \/ Stopped
  BY <1>1, <1>2, Leads, <1>12
     DEF OpensPull, Rests, Tree, GatesPass, Done, Stopped
<1>13. ASSUME NEW t \in Tasks, Cancel(t)
      PROVE  I
  BY <1>1, <1>2, Leads, <1>13
     DEF Cancel
<1>14. ASSUME NEW i \in Candidates, CandidateClaims(i)
      PROVE  I
  BY <1>1, <1>2, Leads, <1>14
     DEF CandidateClaims, Steps
<1>15. ASSUME NEW i \in Candidates, CandidateBroke(i)
      PROVE  I
  BY <1>1, <1>2, Leads, <1>15
     DEF CandidateBroke, Drops, Steps
<1>16. ASSUME NEW i \in Candidates, CandidateWorks(i)
      PROVE  I
  BY <1>1, <1>2, Leads, <1>16
     DEF CandidateWorks, Passed, Rest, Steps
<1>17. ASSUME NEW i \in Candidates, CandidateCapped(i)
      PROVE  I
  BY <1>1, <1>2, Leads, <1>17
     DEF CandidateCapped, CapSaves, Drops, Steps
<1>18. ASSUME NEW i \in Candidates, CandidateReselects(i)
      PROVE  I
  BY <1>1, <1>2, Leads, <1>18
     DEF CandidateReselects, Drops, Steps
<1> QED
  BY <1>1, <1>3, <1>4, <1>5, <1>6, <1>7, <1>8, <1>9, <1>10, <1>11, <1>12, <1>13, <1>14,
     <1>15, <1>16, <1>17, <1>18
     DEF Next, RunNext, PlanNext, ExecuteNext, FanoutNext

LEMMA ToSubtasks ==
    ASSUME TypedInv, [Next]_vars, AtNone, pc' = "subtasks", ~CreateSubtask
    PROVE  (pc = "subtasks" /\ me'.at = me.at) \/ me'.at = 0
<1> DEFINE I == (pc = "subtasks" /\ me'.at = me.at) \/ me'.at = 0
<1> SUFFICES I
  OBVIOUS
<1> USE DEF AtNone
<1>1. CASE UNCHANGED <<pc, me>>
  BY <1>1
<1>2. me \in Memory
  BY DEF TypedInv, WorkTypeOK
<1>3. CASE CreateSubtask
  BY <1>3
<1>4. CASE Enter
  BY <1>4, <1>2, MemoryHas, NamesAre
     DEF Enter, Late, Resumed
<1>5. CASE Boot \/ BootFails \/ ReconcileFresh \/ ReconcileResume \/ ReconcileFails
         \/ EnterFails \/ ReenterReview \/ Park \/ Release
  BY <1>1, <1>2, Leads, SettledLeads, <1>5
     DEF Boot, Recovered, BootFails, ReconcileFresh, ReconcileResume, Adopted,
         ReconcileFails, EnterFails, ReenterReview, Park, Saved, Release
<1>6. CASE Crash \/ Sweep \/ HumanPushes \/ Draft \/ Diagnose(ReselectCap) \/ DraftFails
         \/ Approve \/ Adjust
  BY <1>1, <1>2, Leads, SettledLeads, <1>6
     DEF Crash, Sweep, HumanPushes, Draft, Drafted, Plans, MobDrafts, SoloDrafts, Stays,
         Diagnose, DraftFails, Approve, Adjust, Reply
<1>7. CASE ApproveFails \/ Split \/ NoSplit \/ SplitFails \/ Note \/ CreateFails
         \/ Planned \/ Claim
  BY <1>1, <1>2, Leads, SettledLeads, <1>7
     DEF ApproveFails, Stays, Split, NoSplit, SplitFails, Note, CreateFails, Planned, Claim,
         Solo, Open, Kept, Tree, History
<1>8. CASE ClaimFails \/ Executed \/ Writes \/ Measures \/ CommitsItself \/ Finishes
         \/ Reselects \/ CoderFails
  BY <1>1, <1>2, Leads, SettledLeads, <1>8
     DEF ClaimFails, Solo, Kept, Board, Tree, History, Executed, Writes, Measures, Identity,
         CommitsItself, Finishes, Reselects, CoderFails, NoCoder
<1>9. CASE Gate \/ Fix \/ Regate \/ CommitWork \/ CommitNothing \/ CommitFails \/ Discuss
         \/ ReviseFails
  BY <1>1, <1>2, Leads, SettledLeads, <1>9
     DEF Gate, Kept, Board, Tree, History, Fix, Regate, CommitWork, CommitNothing,
         CommitFails, Discuss, ReviseFails, Discarded, Checked
<1>10. CASE Recheck \/ Push \/ PushFails \/ Complete \/ CompleteFails \/ SalvageNothing
         \/ Salvage \/ Authority
  BY <1>1, <1>2, Leads, SettledLeads, <1>10
     DEF Recheck, Discarded, Checked, Revised, Kept, Board, History, Push, PushFails, Tree,
         Complete, CompleteFails, SalvageNothing, Salvage, Authority
<1>11. CASE Salvaged \/ StoppedAtWork \/ Race \/ RaceFails \/ RaceSkipped \/ Join
         \/ RaceStopped \/ NothingToJudge
  BY <1>1, <1>2, Leads, SettledLeads, <1>11
     DEF Salvaged, Kept, Tree, StoppedAtWork, History, Race, RaceFails, RaceSkipped, Join,
         Returned, RaceStopped, Leaves, NothingToJudge
<1>12. CASE JudgeVerifies \/ NobodyToJudge \/ JudgeChooses \/ JudgeFails \/ Adopt
         \/ AdoptFails \/ Replay \/ Replayed
  BY <1>1, <1>2, Leads, SettledLeads, <1>12
     DEF JudgeVerifies, Steps, NobodyToJudge, Judging, Returned, JudgeChooses, JudgeFails,
         Adopt, AdoptFails, Replay, ToReplay, Open, Replayed
<1>13. CASE Document \/ DocumentBroke \/ DocumentPushes \/ StartReview \/ StartReviewFails
         \/ Fixes \/ Discards \/ Approved
  BY <1>1, <1>2, Leads, SettledLeads, <1>13
     DEF Document, Undone, Rests, DocumentBroke, Tree, DocumentPushes, StartReview,
         StartReviewFails, Fixes, Discards, Approved
<1>14. CASE Parks \/ PhaseFails \/ ReadsTip \/ Rebase \/ IntegrateFails \/ LeasePush
         \/ LeaseFails \/ OpensPull
  BY <1>1, <1>2, Leads, SettledLeads, <1>14
     DEF Parks, ParkedForPeople, PhaseFails, Rests, Tree, ReadsTip, Rebase, Rebased,
         SquashedOnConflict, IntegrateFails, LeasePush, LeaseFails, OpensPull
<1>15. CASE GatesPass \/ Done \/ Stopped
  BY <1>1, <1>2, Leads, SettledLeads, <1>15
     DEF GatesPass, Rests, Tree, Done, Stopped
<1>16. ASSUME NEW t \in Tasks, Cancel(t)
      PROVE  I
  BY <1>1, <1>2, Leads, SettledLeads, <1>16
     DEF Cancel
<1>17. ASSUME NEW i \in Candidates, CandidateClaims(i)
      PROVE  I
  BY <1>1, <1>2, Leads, SettledLeads, <1>17
     DEF CandidateClaims, Steps
<1>18. ASSUME NEW i \in Candidates, CandidateBroke(i)
      PROVE  I
  BY <1>1, <1>2, Leads, SettledLeads, <1>18
     DEF CandidateBroke, Drops, Steps
<1>19. ASSUME NEW i \in Candidates, CandidateWorks(i)
      PROVE  I
  BY <1>1, <1>2, Leads, SettledLeads, <1>19
     DEF CandidateWorks, Passed, Rest, Steps
<1>20. ASSUME NEW i \in Candidates, CandidateCapped(i)
      PROVE  I
  BY <1>1, <1>2, Leads, SettledLeads, <1>20
     DEF CandidateCapped, CapSaves, Drops, Steps
<1>21. ASSUME NEW i \in Candidates, CandidateReselects(i)
      PROVE  I
  BY <1>1, <1>2, Leads, SettledLeads, <1>21
     DEF CandidateReselects, Drops, Steps
<1> QED
  BY <1>1, <1>3, <1>4, <1>5, <1>6, <1>7, <1>8, <1>9, <1>10, <1>11, <1>12, <1>13, <1>14,
     <1>15, <1>16, <1>17, <1>18, <1>19, <1>20, <1>21
     DEF Next, RunNext, PlanNext, ExecuteNext, FanoutNext

LEMMA SubtasksStep ==
    ASSUME TypedInv, RaceInv, [Next]_vars, AtNone, Planning => me.plan = Tasks,
           pc = "subtasks" => \A t \in Tasks : t <= me.at => sub[t] # "absent"
    PROVE  (pc = "subtasks" => \A t \in Tasks : t <= me.at => sub[t] # "absent")'
<1> DEFINE I == pc' = "subtasks" => \A t \in Tasks : t <= me'.at => sub'[t] # "absent"
<1> SUFFICES I
  OBVIOUS
<1>1. CASE UNCHANGED <<pc, me, sub>>
  BY <1>1
<1>2. me \in Memory
  BY DEF TypedInv, WorkTypeOK
<1>3. CASE CreateSubtask
  <2> DEFINE u == CHOOSE v \in ToCreate : \A w \in ToCreate : v <= w
  <2>1. pc = "subtasks" /\ me' = [me EXCEPT !.at = u]
        /\ sub' = [sub EXCEPT ![u] = IF sub[u] = "absent" THEN "todo" ELSE sub[u]]
        /\ ToCreate # {}
    BY <1>3 DEF CreateSubtask
  <2>2. me.plan = Tasks /\ ToCreate = {t \in Tasks : t > me.at} /\ me.at \in Nat
    BY <1>2, <2>1, MemoryHas DEF Planning, ToCreate
  <2>3. u \in ToCreate /\ \A w \in ToCreate : u <= w
    <3>1. ToCreate \in SUBSET Tasks
      BY <2>2
    <3>2. \E v \in ToCreate : \A w \in ToCreate : v <= w
      BY <2>1, <3>1, FirstOf
    <3> QED
      BY <3>2
  <2> HIDE DEF u
  <2>4. me'.at = u
    BY <1>2, <2>1 DEF Memory
  <2>5. ASSUME NEW t \in Tasks, t <= u PROVE t = u \/ t <= me.at
    BY <2>2, <2>3, <2>5 DEF Tasks
  <2>6. /\ u \in Tasks /\ sub'[u] # "absent"
        /\ \A t \in Tasks : sub[t] # "absent" => sub'[t] # "absent"
    BY <2>1, <2>2, <2>3 DEF TypedInv, WorkTypeOK, BoardTypeOK
  <2> QED
    BY <2>1, <2>4, <2>5, <2>6
<1>4. ASSUME pc' = "subtasks", ~CreateSubtask
      PROVE  \/ pc = "subtasks" /\ me'.at = me.at
             \/ me'.at = 0
  BY <1>4, ToSubtasks
<1>5. \A t \in Tasks : sub[t] # "absent" => sub'[t] # "absent"
  BY SubStep
<1>6. CASE ~CreateSubtask /\ pc' = "subtasks"
  <2>1. CASE pc = "subtasks" /\ me'.at = me.at
    BY <1>5, <2>1
  <2>2. CASE me'.at = 0
    BY <2>2 DEF Tasks
  <2> QED
    BY <1>4, <1>6, <2>1, <2>2
<1> QED
  BY <1>3, <1>6

LEMMA JudgedStep ==
    ASSUME TypedInv, [Next]_vars, Judged', cands' = << >>, Resumes
    PROVE  \/ Judged /\ cands = << >>
           \/ (Executed \/ RaceSkipped)
<1> DEFINE I == \/ Judged /\ cands = << >>
                \/ (Executed \/ RaceSkipped)
<1> SUFFICES I
  OBVIOUS
<1> USE DEF Judged
<1>1. CASE UNCHANGED <<pc, me, cands>>
  BY <1>1
<1>2. me \in Memory
  BY DEF TypedInv, WorkTypeOK
<1>3. pc = "race" => cands # << >>
  BY DEF TypedInv, Grounded, Candidates
<1>4. CASE Boot
  BY <1>4, <1>2, Leads, SettledLeads
     DEF Boot, Recovered, Fresh, Memory
<1>5. CASE Executed \/ RaceSkipped
  BY <1>5
<1>6. CASE Enter
  BY <1>6, <1>2, MemoryHas, NamesAre
     DEF Enter, Late, Resumed
<1>7. CASE ReconcileFresh
  BY <1>7, <1>2, Leads, SettledLeads
     DEF ReconcileFresh, Resumes, Memory
<1>8. CASE ReconcileResume
  BY <1>8, <1>2, Leads, SettledLeads
     DEF ReconcileResume, Adopted, Resumes, Memory
<1>9. CASE DocumentPushes
  BY <1>9, <1>2, Leads, SettledLeads
     DEF DocumentPushes, Rests, Memory
<1>10. CASE JudgeVerifies
  <2>1. PICK i \in Survivors : \E r : cands' = [cands EXCEPT ![i] = r]
    BY <1>10 DEF JudgeVerifies, Steps
  <2>2. i \in DOMAIN cands /\ DOMAIN cands' = DOMAIN cands
    BY <2>1 DEF Survivors, Candidates, TypedInv, WorkTypeOK, RaceTypeOK
  <2> QED
    BY <2>2
<1>11. CASE BootFails \/ ReconcileFails \/ EnterFails \/ ReenterReview \/ Park
         \/ Release \/ Crash
  BY <1>1, <1>2, Leads, SettledLeads, <1>3, <1>11
     DEF BootFails, ReconcileFails, EnterFails, ReenterReview, Park, Saved, Release, Crash
<1>12. CASE Sweep \/ HumanPushes \/ Draft \/ Diagnose(ReselectCap) \/ DraftFails
         \/ Approve
  BY <1>1, <1>2, Leads, SettledLeads, <1>3, <1>12
     DEF Sweep, HumanPushes, Draft, Drafted, Plans, MobDrafts, SoloDrafts, Stays, Diagnose,
         DraftFails, Approve
<1>13. CASE Adjust \/ ApproveFails \/ Split \/ NoSplit \/ SplitFails \/ Note
  BY <1>1, <1>2, Leads, SettledLeads, <1>3, <1>13
     DEF Adjust, Reply, Stays, ApproveFails, Split, NoSplit, SplitFails, Note
<1>14. CASE CreateSubtask \/ CreateFails \/ Planned \/ Claim \/ ClaimFails \/ Writes
  BY <1>1, <1>2, Leads, SettledLeads, <1>3, <1>14
     DEF CreateSubtask, ToCreate, CreateFails, Stays, Planned, Claim, Solo, Open, Kept,
         Tree, History, ClaimFails, Board, Writes
<1>15. CASE Measures \/ CommitsItself \/ Finishes \/ Reselects \/ CoderFails \/ Gate
  BY <1>1, <1>2, Leads, SettledLeads, <1>3, <1>15
     DEF Measures, Identity, Kept, Board, Tree, History, CommitsItself, Finishes, Reselects,
         CoderFails, NoCoder, Gate
<1>16. CASE Fix \/ Regate \/ CommitWork \/ CommitNothing \/ CommitFails \/ Discuss
  BY <1>1, <1>2, Leads, SettledLeads, <1>3, <1>16
     DEF Fix, Kept, Board, History, Regate, Tree, CommitWork, CommitNothing, CommitFails,
         Discuss
<1>17. CASE ReviseFails \/ Recheck \/ Push \/ PushFails \/ Complete \/ CompleteFails
  BY <1>1, <1>2, Leads, SettledLeads, <1>3, <1>17
     DEF ReviseFails, Discarded, Checked, Kept, Board, History, Recheck, Revised, Push,
         PushFails, Tree, Complete, CompleteFails
<1>18. CASE SalvageNothing \/ Salvage \/ Authority \/ Salvaged \/ StoppedAtWork \/ Race
  BY <1>1, <1>2, Leads, SettledLeads, <1>3, <1>18
     DEF SalvageNothing, Kept, Tree, History, Salvage, Board, Authority, Salvaged,
         StoppedAtWork, Race
<1>19. CASE RaceFails \/ Join \/ RaceStopped \/ NothingToJudge \/ NobodyToJudge
         \/ JudgeChooses
  BY <1>1, <1>2, Leads, SettledLeads, <1>3, <1>19
     DEF RaceFails, Join, Returned, RaceStopped, Leaves, NothingToJudge, NobodyToJudge, Judging,
         JudgeChooses
<1>20. CASE JudgeFails \/ Adopt \/ AdoptFails \/ Replay \/ Replayed \/ Document
  BY <1>1, <1>2, Leads, SettledLeads, <1>3, <1>20
     DEF JudgeFails, Adopt, AdoptFails, Replay, ToReplay, Open, Replayed, Document, Undone,
         Rests
<1>21. CASE DocumentBroke \/ StartReview \/ StartReviewFails \/ Fixes \/ Discards
         \/ Approved
  BY <1>1, <1>2, Leads, SettledLeads, <1>3, <1>21
     DEF DocumentBroke, Rests, Tree, StartReview, StartReviewFails, Fixes, Discards,
         Approved
<1>22. CASE Parks \/ PhaseFails \/ ReadsTip \/ Rebase \/ IntegrateFails \/ LeasePush
  BY <1>1, <1>2, Leads, SettledLeads, <1>3, <1>22
     DEF Parks, ParkedForPeople, PhaseFails, Rests, Tree, ReadsTip, Rebase, Rebased,
         SquashedOnConflict, IntegrateFails, LeasePush
<1>23. CASE LeaseFails \/ OpensPull \/ GatesPass \/ Done \/ Stopped
  BY <1>1, <1>2, Leads, SettledLeads, <1>3, <1>23
     DEF LeaseFails, Rests, Tree, OpensPull, GatesPass, Done, Stopped
<1>24. ASSUME NEW t \in Tasks, Cancel(t)
      PROVE  I
  BY <1>1, <1>2, Leads, SettledLeads, <1>3, <1>24
     DEF Cancel
<1>25. ASSUME NEW i \in Candidates, CandidateClaims(i)
      PROVE  I
  BY <1>1, <1>2, Leads, SettledLeads, <1>3, <1>25
     DEF CandidateClaims, Steps
<1>26. ASSUME NEW i \in Candidates, CandidateBroke(i)
      PROVE  I
  BY <1>1, <1>2, Leads, SettledLeads, <1>3, <1>26
     DEF CandidateBroke, Drops, Steps
<1>27. ASSUME NEW i \in Candidates, CandidateWorks(i)
      PROVE  I
  BY <1>1, <1>2, Leads, SettledLeads, <1>3, <1>27
     DEF CandidateWorks, Passed, Rest, Steps
<1>28. ASSUME NEW i \in Candidates, CandidateCapped(i)
      PROVE  I
  BY <1>1, <1>2, Leads, SettledLeads, <1>3, <1>28
     DEF CandidateCapped, CapSaves, Drops, Steps
<1>29. ASSUME NEW i \in Candidates, CandidateReselects(i)
      PROVE  I
  BY <1>1, <1>2, Leads, SettledLeads, <1>3, <1>29
     DEF CandidateReselects, Drops, Steps
<1> QED
  BY <1>1, <1>4, <1>5, <1>6, <1>7, <1>8, <1>9, <1>10, <1>11, <1>12, <1>13, <1>14, <1>15,
     <1>16, <1>17, <1>18, <1>19, <1>20, <1>21, <1>22, <1>23, <1>24, <1>25, <1>26, <1>27,
     <1>28, <1>29
     DEF Next, RunNext, PlanNext, ExecuteNext, FanoutNext

LEMMA ReplayStep ==
    ASSUME TypedInv, [Next]_vars, pc' = "replay", ~Fault("card"),
           pc = "replay" => \A t \in Open : t > me.at
    PROVE  (\A t \in Open : t > me.at)'
<1> DEFINE I == \A t \in Open' : t > me'.at
<1> SUFFICES I
  OBVIOUS
<1>1. CASE UNCHANGED <<pc, me, sub>>
  BY <1>1 DEF Open
<1>2. me \in Memory
  BY DEF TypedInv, WorkTypeOK
<1>3. CASE Adopt
  <2>1. me'.at = 0 /\ me'.plan = me.plan /\ sub' = sub
    BY <1>3, <1>2 DEF Adopt, Memory
  <2> QED
    BY <1>2, <2>1, NextTasks DEF Open, Tasks
<1>4. CASE Replay
  <2> DEFINE t == CHOOSE u \in ToReplay : \A v \in ToReplay : u <= v
  <2>1. t \in ToReplay /\ (\A v \in ToReplay : t <= v) /\ ToReplay \subseteq Tasks
    BY <1>4, <1>2, ReplayTypes DEF Replay
  <2>2. /\ me'.at = t /\ me'.plan = me.plan /\ pc = "replay" /\ sub' = [sub EXCEPT ![t] = "done"]
    BY <1>4, <1>2 DEF Replay, Memory
  <2> HIDE DEF t
  <2>3. Open' \subseteq Open \ {t}
    BY <1>2, <2>1, <2>2, MemoryHas DEF Open, Terminal, TypedInv, WorkTypeOK, BoardTypeOK
  <2>4. Open \subseteq ToReplay
    BY <2>2 DEF ToReplay
  <2>5. ASSUME NEW u \in ToReplay \ {t} PROVE u > t
    BY <2>1, <2>5 DEF Tasks
  <2> QED
    BY <2>2, <2>3, <2>4, <2>5
<1>5. CASE Enter
  BY <1>5, <1>2, MemoryHas, NamesAre
     DEF Enter, Late, Resumed
<1>6. ASSUME NEW t \in Tasks, Cancel(t)
      PROVE  I
  <2>1. pc' = "idle"
    BY <1>6 DEF Cancel
  <2> QED
    BY <2>1
<1>7. CASE Boot \/ BootFails \/ ReconcileFresh \/ ReconcileResume \/ ReconcileFails
         \/ EnterFails \/ ReenterReview \/ Park \/ Release
  BY <1>1, <1>2, Leads, SettledLeads, <1>7
     DEF Boot, Recovered, BootFails, ReconcileFresh, ReconcileResume, Adopted,
         ReconcileFails, EnterFails, ReenterReview, Park, Saved, Release
<1>8. CASE Crash \/ Sweep \/ HumanPushes \/ Draft \/ Diagnose(ReselectCap) \/ DraftFails
         \/ Approve \/ Adjust
  BY <1>1, <1>2, Leads, SettledLeads, <1>8
     DEF Crash, Sweep, HumanPushes, Draft, Drafted, Plans, MobDrafts, SoloDrafts, Stays,
         Diagnose, DraftFails, Approve, Adjust, Reply
<1>9. CASE ApproveFails \/ Split \/ NoSplit \/ SplitFails \/ Note \/ CreateSubtask
         \/ CreateFails \/ Planned
  BY <1>1, <1>2, Leads, SettledLeads, <1>9
     DEF ApproveFails, Stays, Split, NoSplit, SplitFails, Note, CreateSubtask, ToCreate,
         CreateFails, Planned
<1>10. CASE Claim \/ ClaimFails \/ Executed \/ Writes \/ Measures \/ CommitsItself
         \/ Finishes \/ Reselects
  BY <1>1, <1>2, Leads, SettledLeads, <1>10
     DEF Claim, Solo, Open, Kept, Tree, History, ClaimFails, Board, Executed, Writes,
         Measures, Identity, CommitsItself, Finishes, Reselects
<1>11. CASE CoderFails \/ Gate \/ Fix \/ Regate \/ CommitWork \/ CommitNothing
         \/ CommitFails \/ Discuss
  BY <1>1, <1>2, Leads, SettledLeads, <1>11
     DEF CoderFails, NoCoder, Kept, Board, Tree, History, Gate, Fix, Regate, CommitWork,
         CommitNothing, CommitFails, Discuss
<1>12. CASE ReviseFails \/ Recheck \/ Push \/ PushFails \/ Complete \/ CompleteFails
         \/ SalvageNothing \/ Salvage
  BY <1>1, <1>2, Leads, SettledLeads, <1>12
     DEF ReviseFails, Discarded, Checked, Kept, Board, History, Recheck, Revised, Push,
         PushFails, Tree, Complete, CompleteFails, SalvageNothing, Salvage
<1>13. CASE Authority \/ Salvaged \/ StoppedAtWork \/ Race \/ RaceFails \/ RaceSkipped
         \/ Join \/ RaceStopped
  BY <1>1, <1>2, Leads, SettledLeads, <1>13
     DEF Authority, Kept, Board, History, Salvaged, Tree, StoppedAtWork, Race, RaceFails,
         RaceSkipped, Join, Returned, RaceStopped, Leaves
<1>14. CASE NothingToJudge \/ JudgeVerifies \/ NobodyToJudge \/ JudgeChooses \/ JudgeFails
         \/ AdoptFails \/ Replayed \/ Document
  BY <1>1, <1>2, Leads, SettledLeads, <1>14
     DEF NothingToJudge, JudgeVerifies, Steps, NobodyToJudge, Judging, Returned,
         JudgeChooses, JudgeFails, AdoptFails, Replayed, Document, Undone, Rests
<1>15. CASE DocumentBroke \/ DocumentPushes \/ StartReview \/ StartReviewFails \/ Fixes
         \/ Discards \/ Approved \/ Parks
  BY <1>1, <1>2, Leads, SettledLeads, <1>15
     DEF DocumentBroke, Rests, Tree, DocumentPushes, StartReview, StartReviewFails, Fixes,
         Discards, Approved, Parks, ParkedForPeople
<1>16. CASE PhaseFails \/ ReadsTip \/ Rebase \/ IntegrateFails \/ LeasePush \/ LeaseFails
         \/ OpensPull \/ GatesPass
  BY <1>1, <1>2, Leads, SettledLeads, <1>16
     DEF PhaseFails, Rests, Tree, ReadsTip, Rebase, Rebased, SquashedOnConflict,
         IntegrateFails, LeasePush, LeaseFails, OpensPull, GatesPass
<1>17. CASE Done \/ Stopped
  BY <1>1, <1>2, Leads, SettledLeads, <1>17
     DEF Done, Stopped
<1>18. ASSUME NEW i \in Candidates, CandidateClaims(i)
      PROVE  I
  BY <1>1, <1>2, Leads, SettledLeads, <1>18
     DEF CandidateClaims, Steps
<1>19. ASSUME NEW i \in Candidates, CandidateBroke(i)
      PROVE  I
  BY <1>1, <1>2, Leads, SettledLeads, <1>19
     DEF CandidateBroke, Drops, Steps
<1>20. ASSUME NEW i \in Candidates, CandidateWorks(i)
      PROVE  I
  BY <1>1, <1>2, Leads, SettledLeads, <1>20
     DEF CandidateWorks, Passed, Rest, Steps
<1>21. ASSUME NEW i \in Candidates, CandidateCapped(i)
      PROVE  I
  BY <1>1, <1>2, Leads, SettledLeads, <1>21
     DEF CandidateCapped, CapSaves, Drops, Steps
<1>22. ASSUME NEW i \in Candidates, CandidateReselects(i)
      PROVE  I
  BY <1>1, <1>2, Leads, SettledLeads, <1>22
     DEF CandidateReselects, Drops, Steps
<1> QED
  BY <1>1, <1>3, <1>4, <1>5, <1>6, <1>7, <1>8, <1>9, <1>10, <1>11, <1>12, <1>13, <1>14,
     <1>15, <1>16, <1>17, <1>18, <1>19, <1>20, <1>21, <1>22
     DEF Next, RunNext, PlanNext, ExecuteNext, FanoutNext

LEMMA SettledStep == TypedInv /\ RaceInv /\ SettledInv /\ [Next]_vars => SettledInv'
<1> SUFFICES ASSUME TypedInv, RaceInv, SettledInv, [Next]_vars,
                    (~Fault("redraft") /\ ~(tc.best /\ Fault("card")))'
             PROVE  SettledInv'
  BY DEF SettledInv
<1>1. ~Fault("redraft") /\ ~(tc.best /\ Fault("card")) /\ tc' = tc
  BY CardKept
<1>2. /\ phase \in LatePhases => AllTerminal
      /\ ~tc.best => Alone
      /\ AtNone /\ Resumes
      /\ Behind => AllTerminal
      /\ Begun \/ Executing => AllCreated
      /\ Planning \/ Executing => me.plan = Tasks
      /\ pc = "subtasks" => \A t \in Tasks : t <= me.at => sub[t] # "absent"
      /\ Judged /\ cands = << >> => AllTerminal
      /\ pc = "replay" => \A t \in Open : t > me.at
  BY <1>1 DEF SettledInv, PastExecute, LatePhases, AllTerminal
<1>3. /\ AllTerminal => AllTerminal'
      /\ AllCreated => AllCreated'
      /\ AllTerminal => AllCreated
  BY SubStep DEF AllTerminal, AllCreated, Terminal
<1>4. me \in Memory /\ me.at \in Nat
  BY MemoryHas DEF TypedInv, WorkTypeOK
<1>5. Open = {} /\ me.plan = Tasks => AllTerminal
  BY DEF Open, AllTerminal
<1>6. Behind' => AllTerminal'
  <2>1. CASE Boot /\ phase \in LatePhases
    BY <1>2, <1>3, <2>1
  <2>2. CASE NothingToJudge
    BY <1>2, <1>3, <2>2 DEF NothingToJudge, Judged
  <2>3. CASE Replayed
    <3>1. Open = {}
      BY <1>2, <2>3 DEF Replayed, ToReplay
    <3>2. me.plan = Tasks
      BY <1>2, <2>3 DEF Replayed, Executing
    <3> QED
      BY <1>3, <1>5, <3>1, <3>2
  <2> QED
    BY BehindStep, <1>2, <1>3, <2>1, <2>2, <2>3
<1>7. PastExecute'
  <2>1. phase' \in LatePhases => AllTerminal'
    <3>1. CASE Enter /\ phase' = me.next
      BY <1>2, <1>3, <3>1 DEF Behind, Enter
    <3> QED
      BY PhaseIs, <1>2, <1>3, <3>1
  <2> QED
    BY <2>1 DEF PastExecute, LatePhases, AllTerminal
<1>8. (~tc.best => Alone)'
  BY AloneStep, <1>1, <1>2
<1>9. AtNone' /\ Resumes'
  BY AtNoneStep, ResumesStep, <1>2
<1>10. Executing' => AllCreated' /\ me'.plan = Tasks
  <2>1. CASE Planned /\ me'.plan = me.plan
    <3>1. ToCreate = {} /\ pc = "subtasks" /\ me.plan = Tasks
      BY <1>2, <2>1 DEF Planned, Planning
    <3>2. ASSUME NEW t \in Tasks PROVE sub[t] # "absent"
      <4>1. ~(t > me.at)
        BY <3>1 DEF ToCreate
      <4>2. t <= me.at
        BY <1>4, <4>1 DEF Tasks
      <4> QED
        BY <1>2, <3>1, <4>2
    <3> QED
      BY <1>3, <2>1, <3>1, <3>2 DEF AllCreated
  <2>2. CASE ReconcileResume /\ Begun
    <3>1. me' = [me EXCEPT !.plan = {t \in Tasks : sub[t] # "absent"}]
      BY <2>2 DEF ReconcileResume
    <3>2. me'.plan = {t \in Tasks : sub[t] # "absent"}
      BY <1>4, <3>1 DEF Memory
    <3> QED
      BY <1>2, <1>3, <2>2, <3>2 DEF AllCreated
  <2> QED
    BY ExecutingStep, <1>2, <1>3, <2>1, <2>2
<1>11. Begun' => AllCreated'
  <2>1. CASE Enter /\ me.next # "plan"
    <3>1. Behind \/ Executing
      BY <2>1, <1>4, MemoryHas, NamesAre DEF Enter, Behind, Executing, LatePhases
    <3> QED
      BY <1>2, <1>3, <3>1
  <2> QED
    BY BegunStep, <1>2, <1>3, <2>1
<1>12. Planning' => me'.plan = Tasks
  BY PlanningStep, <1>1, <1>2
<1>13. (pc = "subtasks" => \A t \in Tasks : t <= me.at => sub[t] # "absent")'
  BY SubtasksStep, <1>2
<1>14. (Judged /\ cands = << >> => AllTerminal)'
  <2>1. CASE Executed \/ RaceSkipped
    <3>1. Open = {} /\ Executing
      BY <2>1 DEF Executed, Solo, RaceSkipped, Executing
    <3> QED
      BY <1>2, <1>3, <1>5, <3>1
  <2> QED
    BY JudgedStep, <1>2, <1>3, <2>1
<1>15. (pc = "replay" => \A t \in Open : t > me.at)'
  <2>1. pc' = "replay" => tc.best
    BY <1>1, <1>8 DEF Alone
  <2> QED
    BY ReplayStep, <1>1, <1>2, <2>1
<1> QED
  BY <1>6, <1>7, <1>8, <1>9, <1>10, <1>11, <1>12, <1>13, <1>14, <1>15 DEF SettledInv

LEMMA SettledInit == Init => SettledInv
BY DEF Init, SettledInv, PastExecute, Alone, AtNone, Resumes, Behind, LatePhases, Begun,
   Executing, AtSubtask, Planning, Judged

(* Past execute every subtask of the card is complete or cancelled, those a   *)
(* crashed run had begun included (execute.go, runExecute; resume.go). *)
THEOREM NothingOpenPastExecute == Spec => []PastExecute
<1>1. SettledInv => PastExecute
  BY DEF SettledInv, PastExecute
<1> QED
  BY TypedInit, RaceInit, SettledInit, TypedStep, RaceInvStep, SettledStep, <1>1, PTL DEF Spec
==============================================================================
