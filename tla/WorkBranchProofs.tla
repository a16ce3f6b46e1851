-------------------------- MODULE WorkBranchProofs ---------------------------
(* Theorems about Work and the branch of the card: what is complete is at the *)
(* origin and on a tree that verifies, no push takes anything away, a park    *)
(* leaves what it has at the origin, and what is complete has its own work.   *)
EXTENDS WorkCardProofs

USE CardAssumption, PlanAssumption, ExecuteAssumption, FanoutAssumption
USE DEF vars, cm, proc, Goto, Remember, Fault

(* Where the branch of the clone has all that is complete, the candidates of  *)
(* a race have it, and the origin has the branch. *)
Carries == pc \notin {"idle", "reconcile", "park", "release"}
Racers == pc \in {"race", "judge", "adopt"} \/ (pc = "enter" /\ me.next = "judge")
Pushed == \/ pc \in {"reconcile", "plan", "approve", "split", "note", "subtasks", "execute", "gate",
                     "fix", "regate", "commit", "complete", "salvage", "salvaged", "replay"}
          \/ pc = "enter" /\ me.next \in {"plan", "execute"}
          \/ pc = "code" /\ ~me.revising
CompleteIn(work) == \A t \in Tasks : sub[t] = "done" => landed[t].work \subseteq work
DurableInv ==
    ~past.selfmade =>
        /\ DoneIsDurable
        /\ pc = "idle" => local = Base
        /\ phase = "none" => /\ \A t \in Tasks : sub[t] # "done"
                             /\ pc \in {"idle", "reconcile", "enter", "park", "release"}
        /\ Carries => CompleteIn(local.work)
        /\ pc = "reviewing" /\ me.preFix # None => CompleteIn(me.preFix.work)
        /\ Racers => \A i \in Candidates : CompleteIn(cands[i].work.work)
        /\ Pushed => local.work \subseteq AtOrigin

(* Before review a run has no fix to take back; in review the fix is all the  *)
(* branch has got since. *)
Unfixed == \/ pc = "reconcile"
           \/ Carries /\ pc \notin {"enter", "reviewing", "integrate", "rebase", "lease", "pull",
                                    "pr_gates", "done"}
           \/ pc = "enter" /\ me.next \notin {"integrate", "pr_gates", "done"}
FixInv ==
    /\ Unfixed => me.preFix = None
    /\ pc = "reviewing" /\ me.preFix # None =>
          \A m \in local.work \ me.preFix.work : m = [of |-> 0, run |-> runs]

(* What a good tree passes through on the way to completion. *)
ToolIsGood == me.tool # None =>
    IF me.tool.tree = "none" THEN me.tool.head.good ELSE me.tool.tree = "good"
GoodAt ==
    /\ pc = "commit" => TreeIsGood
    /\ pc = "authority" => dirty = "none"
    /\ pc \in {"discuss", "recheck", "push", "complete", "salvaged"} => local.good
    /\ pc = "code" /\ me.revising => local.good
Revising == me.revising => pc \in {"code", "recheck", "park", "release"}
GoodInv ==
    tc.verify /\ ~tc.best /\ ~past.selfmade /\ ~Fault("inconclusive") =>
        DoneIsGood /\ Alone /\ ToolIsGood /\ GoodAt /\ Revising

(* Where the branch of the clone, and those of the candidates, have all the   *)
(* runs of the card pushed, but for a fix taken back. *)
Has(work) == \A m \in AtOrigin : m.run = 0 \/ m \in work \/ TakenBack(m)
KeepsInv ==
    /\ phase = "none" => /\ pc \in {"idle", "reconcile", "enter", "park", "release"}
                         /\ local.work = {} /\ dirty = "none"
                         /\ \A m \in AtOrigin : m.run = 0
    /\ pc = "idle" => local = Base /\ dirty = "none"
    /\ Carries => Has(local.work)
    /\ Racers => \A i \in Candidates : Has(cands[i].work.work)

(* Where the origin takes what the clone has: everywhere, but before a fresh  *)
(* run has overwritten the branch it found, while integrate has a rewritten   *)
(* branch it has not pushed, and after review took a fix back in the clone    *)
(* only, when the origin has all the clone has.                               *)
LateNext == {"review", "integrate", "pr_gates", "done"}
Young == /\ Carries /\ pc \notin LateNext \cup {"reviewing", "rebase", "lease", "pull"}
         /\ ~(pc = "enter" /\ me.next \in LateNext)
LeasedNext == {"pr_gates", "done"}
Leased == pc \in LeasedNext \cup {"pull"} \/ (pc = "enter" /\ me.next \in LeasedNext)
Integrating == pc \in {"integrate", "rebase", "lease"}
FirstIsAhead == me.tip # None /\ ~me.pushed
Follows == ~FirstIsAhead \/ Leased
Within == ~Uncommitted /\ local.work \subseteq AtOrigin
ParkInv ==
    ~Fault("git") /\ ~Fault("human") =>
        /\ pc \in {"idle", "reconcile"} => local = Base /\ dirty = "none"
        /\ pc = "reconcile" => /\ me.tip = None /\ me.pushed = FALSE
                               /\ phase = "none" => me.next = "plan"
                               /\ phase = "pr_gates" => me.next = "pr_gates"
        /\ pc = "reviewing" /\ me.preFix # None =>
              ~Uncommitted /\ me.preFix.work \subseteq AtOrigin
        /\ Integrating => phase = "integrate"
        /\ phase = "pr_gates" => ~Carries \/ Leased
        /\ Young /\ FirstIsAhead => remote = me.tip
        /\ Carries /\ Follows /\ pc # "lease" => Takes(local) \/ (~Young /\ Within)
        /\ pc = "lease" /\ Follows /\ ~Rewriting => Takes(local) \/ Within
        /\ Racers /\ Follows => \A i \in Candidates : Takes(cands[i].work)
        /\ pc = "park" /\ SavesWIP /\ ~Overwriting /\ ~Rewriting => Takes(local) \/ Within

(* What the branch says of a subtask that is still open.  Only the first one  *)
(* has been worked on; its start is recorded; what descends from that start   *)
(* is the start itself or has a commit of the subtask.  Own is the commit     *)
(* this run would make for a subtask.                                         *)
Unfinished == {t \in Tasks : sub[t] \notin Terminal}
HasOwn(b, t) == \E m \in b.work : m.of = t
Own(t) == [of |-> t, run |-> runs]
Grown(b, t) == Descends(b, start[t]) => b = start[t] \/ HasOwn(b, t)
Having == \/ pc \in {"discuss", "recheck", "push", "complete", "authority", "salvaged"}
          \/ pc = "code" /\ me.revising
AtFirst == AtSubtask => me.at \in Unfinished /\ \A u \in Unfinished : me.at <= u
BlankInv ==
    /\ pc \in {"idle", "reconcile"} => local = Base /\ dirty = "none"
    /\ phase = "none" => remote = None
    /\ \A m \in AtOrigin \cup local.work : m.run <= runs
    /\ local.work = {} => local = Base
    /\ AtOrigin = {} => remote \in {None, Base}
StartInv == \A t \in Unfinished : start[t] # None =>
    /\ start[t].work = {} => start[t] = Base
    /\ \A u \in Unfinished : t <= u
    /\ Grown(local, t)
    /\ remote # None => Grown(remote, t)
    /\ dirty # "none" => me.at = t /\ (AtSubtask \/ pc \in {"park", "release"})
AheadInv == Carries /\ remote # None =>
    Descends(local, remote) /\ (remote.work = local.work => remote = local)
MarksInv == Carries \/ pc = "reconcile" => \A u \in Unfinished :
    /\ Own(u) \in AtOrigin => u = me.at /\ pc \in {"complete", "salvaged"}
    /\ Own(u) \in local.work => u = me.at /\ AtSubtask
BeforeInv == AtSubtask /\ me.before # None =>
    /\ me.before.work = {} => me.before = Base
    /\ local = me.before \/ HasOwn(local, me.at)
    /\ remote # None => \/ HasOwn(remote, me.at)
                        \/ /\ Descends(me.before, remote)
                           /\ remote.work = me.before.work => remote = me.before
OpenInv == BlankInv /\ StartInv /\ AheadInv /\ MarksInv /\ BeforeInv
           /\ (Having => HasOwn(local, me.at))
OwnBranch == ~tc.best /\ ~tc.stale /\ ~Fault("human") /\ ~Fault("redraft")
OwnInv ==
    OwnBranch =>
        /\ \A t \in Tasks : sub[t] = "done" => HasOwn(landed[t], t)
        /\ Revising /\ AtFirst
        /\ Unfinished # {} => OpenInv

-----------------------------------------------------------------------------
(* The fix that review may take back. *)

LEMMA UnfixedStep ==
    ASSUME TypedInv, [Next]_vars, Unfixed'
    PROVE  me'.preFix = None \/ (Unfixed /\ me'.preFix = me.preFix)
<1> DEFINE I == Unfixed' => me'.preFix = None \/ (Unfixed /\ me'.preFix = me.preFix)
<1> SUFFICES I
  OBVIOUS
<1> USE DEF Unfixed, Carries
<1>1. CASE UNCHANGED <<pc, me>>
  BY <1>1
<1>2. me \in Memory
  BY DEF TypedInv, WorkTypeOK
<1>3. CASE Enter
  BY <1>3, <1>2, MemoryHas, NamesAre
     DEF Enter, Late, Resumed
<1>4. CASE Boot
  BY <1>4, <1>2, Leads
     DEF Boot, Recovered, Fresh, Memory
<1>5. CASE Claim
  <2>1. PICK b : me' = [me EXCEPT !.at = NextTask, !.before = b, !.tool = None,
                                  !.verified = FALSE]
    BY <1>5 DEF Claim
  <2>2. me'.preFix = me.preFix
    BY <1>2, <2>1 DEF Memory
  <2> QED
    BY <1>5, <2>2 DEF Claim, Solo
<1>6. CASE ReconcileFresh
  BY <1>6, <1>2, Leads
     DEF ReconcileFresh, Memory
<1>7. CASE ReconcileResume
  BY <1>7, <1>2, Leads
     DEF ReconcileResume, Adopted, Memory
<1>8. CASE Draft
  BY <1>8, <1>2, Leads
     DEF Draft, Drafted, Plans, MobDrafts, SoloDrafts, Stays, Memory
<1>9. CASE Diagnose(ReselectCap)
  BY <1>9, <1>2, Leads
     DEF Diagnose, Stays, Memory
<1>10. CASE CreateSubtask
  BY <1>10, <1>2, Leads
     DEF CreateSubtask, ToCreate, Memory
<1>11. CASE Measures
  BY <1>11, <1>2, Leads
     DEF Measures, Identity, Kept, Board, Tree, History, Memory
<1>12. CASE Reselects
  BY <1>12, <1>2, Leads
     DEF Reselects, Kept, Board, Tree, History, Memory
<1>13. CASE Gate
  BY <1>13, <1>2, Leads
     DEF Gate, Kept, Board, Tree, History, Memory
<1>14. CASE Regate
  BY <1>14, <1>2, Leads
     DEF Regate, Kept, Board, Tree, History, Memory
<1>15. CASE Discuss
  BY <1>15, <1>2, Leads
     DEF Discuss, Kept, Board, Tree, History, Memory
<1>16. CASE ReviseFails
  BY <1>16, <1>2, Leads
     DEF ReviseFails, Discarded, Checked, Kept, Board, History, Memory
<1>17. CASE Recheck
  BY <1>17, <1>2, Leads
     DEF Recheck, Discarded, Checked, Revised, Kept, Board, History, Memory
<1>18. CASE Push
  BY <1>18, <1>2, Leads
     DEF Push, Kept, Board, History, Memory
<1>19. CASE Authority
  BY <1>19, <1>2, Leads
     DEF Authority, Kept, Board, History, Memory
<1>20. CASE Complete
  BY <1>20, <1>2, Leads
     DEF Complete, Kept, Tree, Memory
<1>21. CASE Salvaged
  BY <1>21, <1>2, Leads
     DEF Salvaged, Kept, Tree, Memory
<1>22. CASE JudgeChooses
  BY <1>22, <1>2, Leads
     DEF JudgeChooses, Judging, Memory
<1>23. CASE Adopt
  BY <1>23, <1>2, Leads
     DEF Adopt, Memory
<1>24. CASE Replay
  BY <1>24, <1>2, Leads
     DEF Replay, ToReplay, Open, Memory
<1>25. CASE DocumentPushes
  BY <1>25, <1>2, Leads
     DEF DocumentPushes, Rests, Memory
<1>26. CASE ReadsTip
  BY <1>26, <1>2, Leads
     DEF ReadsTip, Rests, Tree, Memory
<1>27. CASE Fixes
  BY <1>27, <1>2, Leads
     DEF Fixes, Rests, Memory
<1>28. ASSUME NEW i \in Candidates, CandidateClaims(i)
      PROVE  I
  BY <1>28, <1>2, Leads
     DEF CandidateClaims, Steps, Memory
<1>29. ASSUME NEW i \in Candidates, CandidateReselects(i)
      PROVE  I
  BY <1>29, <1>2, Leads
     DEF CandidateReselects, Drops, Steps, Memory
<1>30. CASE Planned
  BY <1>30, <1>2, Leads
     DEF Planned, Proceed, Stays, Memory
<1>31. CASE Executed
  BY <1>31, <1>2, Leads
     DEF Executed, Solo, Proceed, Kept, Board, Tree, History, Memory
<1>32. CASE RaceSkipped
  BY <1>32, <1>2, Leads
     DEF RaceSkipped, Proceed, Memory
<1>33. CASE Join
  BY <1>33, <1>2, Leads
     DEF Join, Returned, Proceed, Memory
<1>34. CASE NothingToJudge
  BY <1>34, <1>2, Leads
     DEF NothingToJudge, Proceed, Memory
<1>35. CASE Replayed
  BY <1>35, <1>2, Leads
     DEF Replayed, Proceed, Memory
<1>36. CASE Document
  BY <1>36, <1>2, Leads
     DEF Document, Undone, Proceed, Rests, Memory
<1>37. CASE Approved
  BY <1>37, <1>2, Leads
     DEF Approved, Proceed, Rests, Tree, Memory
<1>38. CASE OpensPull
  BY <1>38, <1>2, Leads
     DEF OpensPull, Proceed, Rests, Tree, Memory
<1>39. CASE GatesPass
  BY <1>39, <1>2, Leads
     DEF GatesPass, Proceed, Rests, Tree, Memory
<1>40. CASE BootFails \/ ReconcileFails \/ EnterFails \/ ReenterReview \/ Park
         \/ Release \/ Crash \/ Sweep
         \/ HumanPushes
  BY <1>1, <1>2, Leads, <1>40
     DEF BootFails, ReconcileFails, EnterFails, ReenterReview, Park, Saved, Release, Crash,
         Sweep,
         HumanPushes
<1>41. CASE DraftFails \/ Approve \/ Adjust \/ ApproveFails \/ Split \/ NoSplit
         \/ SplitFails \/ Note
  BY <1>1, <1>2, Leads, <1>41
     DEF DraftFails, Stays, Approve, Adjust, Reply, ApproveFails, Split, NoSplit,
         SplitFails, Note
<1>42. CASE CreateFails \/ ClaimFails \/ Writes \/ CommitsItself \/ Finishes \/ CoderFails
         \/ Fix \/ CommitWork
  BY <1>1, <1>2, Leads, <1>42
     DEF CreateFails, Stays, ClaimFails, Solo, Kept, Board, Tree, History, Writes,
         CommitsItself, Finishes, CoderFails, NoCoder, Fix, CommitWork
<1>43. CASE CommitNothing \/ CommitFails \/ PushFails \/ CompleteFails \/ SalvageNothing
         \/ Salvage \/ StoppedAtWork \/ Race
  BY <1>1, <1>2, Leads, <1>43
     DEF CommitNothing, Kept, Board, Tree, History, CommitFails, PushFails, CompleteFails,
         SalvageNothing, Salvage, StoppedAtWork, Race
<1>44. CASE RaceFails \/ RaceStopped \/ JudgeVerifies \/ NobodyToJudge \/ JudgeFails
         \/ AdoptFails \/ DocumentBroke \/ StartReview
  BY <1>1, <1>2, Leads, <1>44
     DEF RaceFails, RaceStopped, Leaves, Returned, JudgeVerifies, Steps, NobodyToJudge, Judging,
         JudgeFails, AdoptFails, DocumentBroke, Rests, Tree, StartReview
<1>45. CASE StartReviewFails \/ Discards \/ Parks \/ PhaseFails \/ Rebase
         \/ IntegrateFails \/ LeasePush \/ LeaseFails
  BY <1>1, <1>2, Leads, <1>45
     DEF StartReviewFails, Rests, Tree, Discards, Parks, ParkedForPeople, PhaseFails,
         Rebase, Rebased, SquashedOnConflict, IntegrateFails, LeasePush, LeaseFails
<1>46. CASE Done \/ Stopped
  BY <1>1, <1>2, Leads, <1>46
     DEF Done, Stopped
<1>47. ASSUME NEW t \in Tasks, Cancel(t)
      PROVE  I
  BY <1>1, <1>2, Leads, <1>47
     DEF Cancel
<1>48. ASSUME NEW i \in Candidates, CandidateBroke(i)
      PROVE  I
  BY <1>1, <1>2, Leads, <1>48
     DEF CandidateBroke, Drops, Steps
<1>49. ASSUME NEW i \in Candidates, CandidateWorks(i)
      PROVE  I
  BY <1>1, <1>2, Leads, <1>49
     DEF CandidateWorks, Passed, Rest, Steps
<1>50. ASSUME NEW i \in Candidates, CandidateCapped(i)
      PROVE  I
  BY <1>1, <1>2, Leads, <1>50
     DEF CandidateCapped, CapSaves, Drops, Steps
<1> QED
  BY <1>1, <1>3, <1>4, <1>5, <1>6, <1>7, <1>8, <1>9, <1>10, <1>11, <1>12, <1>13, <1>14,
     <1>15, <1>16, <1>17, <1>18, <1>19, <1>20, <1>21, <1>22, <1>23, <1>24, <1>25, <1>26,
     <1>27, <1>28, <1>29, <1>30, <1>31, <1>32, <1>33, <1>34, <1>35, <1>36, <1>37, <1>38,
     <1>39, <1>40, <1>41, <1>42, <1>43, <1>44, <1>45, <1>46, <1>47, <1>48, <1>49, <1>50
     DEF Next, RunNext, PlanNext, ExecuteNext, FanoutNext

LEMMA ReviewStep ==
    ASSUME TypedInv, [Next]_vars, pc' = "reviewing", me'.preFix # None
    PROVE  \/ pc = "review" /\ me'.preFix = me.preFix
           \/ /\ pc = "reviewing" /\ me'.preFix = me.preFix /\ runs' = runs /\ dirty' = dirty
              /\ local' = local /\ (remote' = remote \/ HumanPushes)
           \/ /\ pc = "reviewing" /\ me'.preFix = me.preFix /\ runs' = runs /\ dirty' = dirty
              /\ local' = me.preFix /\ (remote' = remote \/ remote' = me.preFix)
           \/ /\ pc = "reviewing" /\ me'.preFix = local /\ runs' = runs /\ dirty' = "none"
              /\ remote' = local' /\ \E g \in BOOLEAN : local' = Commit(local, 0, g)
<1> DEFINE I == pc' = "reviewing" =>
           \/ pc = "review" /\ me'.preFix = me.preFix
           \/ /\ pc = "reviewing" /\ me'.preFix = me.preFix /\ runs' = runs /\ dirty' = dirty
              /\ local' = local /\ (remote' = remote \/ HumanPushes)
           \/ /\ pc = "reviewing" /\ me'.preFix = me.preFix /\ runs' = runs /\ dirty' = dirty
              /\ local' = me.preFix /\ (remote' = remote \/ remote' = me.preFix)
           \/ /\ pc = "reviewing" /\ me'.preFix = local /\ runs' = runs /\ dirty' = "none"
              /\ remote' = local' /\ \E g \in BOOLEAN : local' = Commit(local, 0, g)
<1> SUFFICES I
  OBVIOUS
<1>1. CASE UNCHANGED <<pc, me, local, runs, dirty, remote>>
  BY <1>1
<1>2. me \in Memory
  BY DEF TypedInv, WorkTypeOK
<1>3. CASE Enter
  BY <1>3, <1>2, MemoryHas, NamesAre
     DEF Enter, Late, Resumed
<1>4. CASE Fixes
  BY <1>4, <1>2, Leads
     DEF Fixes, Rests, Memory
<1>5. CASE HumanPushes
  BY <1>5
     DEF HumanPushes
<1>6. CASE Boot \/ BootFails \/ ReconcileFresh \/ ReconcileResume \/ ReconcileFails
         \/ EnterFails \/ ReenterReview \/ Park \/ Release
  BY <1>1, <1>2, Leads, <1>6
     DEF Boot, Recovered, BootFails, ReconcileFresh, ReconcileResume, Adopted,
         ReconcileFails, EnterFails, ReenterReview, Park, Saved, Release
<1>7. CASE Crash \/ Sweep \/ Draft \/ Diagnose(ReselectCap) \/ DraftFails \/ Approve
         \/ Adjust \/ ApproveFails
  BY <1>1, <1>2, Leads, <1>7
     DEF Crash, Sweep, Draft, Drafted, Plans, MobDrafts, SoloDrafts, Stays, Diagnose,
         DraftFails, Approve, Adjust, Reply, ApproveFails
<1>8. CASE Split \/ NoSplit \/ SplitFails \/ Note \/ CreateSubtask \/ CreateFails
         \/ Planned \/ Claim
  BY <1>1, <1>2, Leads, <1>8
     DEF Split, Stays, NoSplit, SplitFails, Note, CreateSubtask, ToCreate, CreateFails,
         Planned, Claim, Solo, Open, Kept, Tree, History
<1>9. CASE ClaimFails \/ Executed \/ Writes \/ Measures \/ CommitsItself \/ Finishes
         \/ Reselects \/ CoderFails
  BY <1>1, <1>2, Leads, <1>9
     DEF ClaimFails, Solo, Kept, Board, Tree, History, Executed, Writes, Measures, Identity,
         CommitsItself, Finishes, Reselects, CoderFails, NoCoder
<1>10. CASE Gate \/ Fix \/ Regate \/ CommitWork \/ CommitNothing \/ CommitFails \/ Discuss
         \/ ReviseFails
  BY <1>1, <1>2, Leads, <1>10
     DEF Gate, Kept, Board, Tree, History, Fix, Regate, CommitWork, CommitNothing,
         CommitFails, Discuss, ReviseFails, Discarded, Checked
<1>11. CASE Recheck \/ Push \/ PushFails \/ Complete \/ CompleteFails \/ SalvageNothing
         \/ Salvage \/ Authority
  BY <1>1, <1>2, Leads, <1>11
     DEF Recheck, Discarded, Checked, Revised, Kept, Board, History, Push, PushFails, Tree,
         Complete, CompleteFails, SalvageNothing, Salvage, Authority
<1>12. CASE Salvaged \/ StoppedAtWork \/ Race \/ RaceFails \/ RaceSkipped \/ Join
         \/ RaceStopped \/ NothingToJudge
  BY <1>1, <1>2, Leads, <1>12
     DEF Salvaged, Kept, Tree, StoppedAtWork, History, Race, RaceFails, RaceSkipped, Join,
         Returned, RaceStopped, Leaves, NothingToJudge
<1>13. CASE JudgeVerifies \/ NobodyToJudge \/ JudgeChooses \/ JudgeFails \/ Adopt
         \/ AdoptFails \/ Replay \/ Replayed
  BY <1>1, <1>2, Leads, <1>13
     DEF JudgeVerifies, Steps, NobodyToJudge, Judging, Returned, JudgeChooses, JudgeFails,
         Adopt, AdoptFails, Replay, ToReplay, Open, Replayed
<1>14. CASE Document \/ DocumentBroke \/ DocumentPushes \/ StartReview \/ StartReviewFails
         \/ Discards \/ Approved \/ Parks
  BY <1>1, <1>2, Leads, <1>14
     DEF Document, Undone, Rests, DocumentBroke, Tree, DocumentPushes, StartReview,
         StartReviewFails, Discards, Approved, Parks, ParkedForPeople
<1>15. CASE PhaseFails \/ ReadsTip \/ Rebase \/ IntegrateFails \/ LeasePush \/ LeaseFails
         \/ OpensPull \/ GatesPass
  BY <1>1, <1>2, Leads, <1>15
     DEF PhaseFails, Rests, Tree, ReadsTip, Rebase, Rebased, SquashedOnConflict,
         IntegrateFails, LeasePush, LeaseFails, OpensPull, GatesPass
<1>16. CASE Done \/ Stopped
  BY <1>1, <1>2, Leads, <1>16
     DEF Done, Stopped
<1>17. ASSUME NEW t \in Tasks, Cancel(t)
      PROVE  I
  BY <1>1, <1>2, Leads, <1>17
     DEF Cancel
<1>18. ASSUME NEW i \in Candidates, CandidateClaims(i)
      PROVE  I
  BY <1>1, <1>2, Leads, <1>18
     DEF CandidateClaims, Steps
<1>19. ASSUME NEW i \in Candidates, CandidateBroke(i)
      PROVE  I
  BY <1>1, <1>2, Leads, <1>19
     DEF CandidateBroke, Drops, Steps
<1>20. ASSUME NEW i \in Candidates, CandidateWorks(i)
      PROVE  I
  BY <1>1, <1>2, Leads, <1>20
     DEF CandidateWorks, Passed, Rest, Steps
<1>21. ASSUME NEW i \in Candidates, CandidateCapped(i)
      PROVE  I
  BY <1>1, <1>2, Leads, <1>21
     DEF CandidateCapped, CapSaves, Drops, Steps
<1>22. ASSUME NEW i \in Candidates, CandidateReselects(i)
      PROVE  I
  BY <1>1, <1>2, Leads, <1>22
     DEF CandidateReselects, Drops, Steps
<1> QED
  BY <1>1, <1>3, <1>4, <1>5, <1>6, <1>7, <1>8, <1>9, <1>10, <1>11, <1>12, <1>13, <1>14,
     <1>15, <1>16, <1>17, <1>18, <1>19, <1>20, <1>21, <1>22
     DEF Next, RunNext, PlanNext, ExecuteNext, FanoutNext

LEMMA FixStep == TypedInv /\ FixInv /\ [Next]_vars => FixInv'
<1> SUFFICES ASSUME TypedInv, FixInv, [Next]_vars PROVE FixInv'
  OBVIOUS
<1>1. (Unfixed => me.preFix = None)'
  BY UnfixedStep DEF FixInv
<1>2. (pc = "reviewing" /\ me.preFix # None =>
          \A m \in local.work \ me.preFix.work : m = [of |-> 0, run |-> runs])'
  <2> SUFFICES ASSUME pc' = "reviewing", me'.preFix # None,
                      NEW m \in local'.work \ me'.preFix.work
               PROVE  m = [of |-> 0, run |-> runs']
    OBVIOUS
  <2>1. CASE pc = "review" /\ me'.preFix = me.preFix
    BY <2>1 DEF FixInv, Unfixed, Carries
  <2>2. CASE /\ pc = "reviewing" /\ me'.preFix = me.preFix /\ runs' = runs
             /\ (local' = local \/ local' = me.preFix)
    BY <2>2 DEF FixInv
  <2>3. CASE /\ pc = "reviewing" /\ me'.preFix = local /\ runs' = runs
             /\ \E g \in BOOLEAN : local' = Commit(local, 0, g)
    <3>1. local \in Branches
      BY DEF TypedInv, WorkTypeOK, TreeTypeOK
    <3> QED
      BY <2>3, <3>1 DEF Commit, Branches
  <2> QED
    BY ReviewStep, <2>1, <2>2, <2>3
<1> QED
  BY <1>1, <1>2 DEF FixInv

LEMMA FixInit == Init => FixInv
BY DEF Init, FixInv, Unfixed, Carries

-----------------------------------------------------------------------------
(* What is complete stays at the origin.  First what a step does to the       *)
(* subtasks that are complete, to the origin, the clone and the candidates.   *)

LEMMA CompleteStep ==
    ASSUME TypedInv, [Next]_vars, NEW t \in Tasks, sub'[t] = "done"
    PROVE  \/ sub[t] = "done" /\ landed'[t] = landed[t]
           \/ pc \in {"complete", "salvaged", "replay"} /\ landed'[t] = local
<1> DEFINE I == \/ sub[t] = "done" /\ landed'[t] = landed[t]
                \/ pc \in {"complete", "salvaged", "replay"} /\ landed'[t] = local
<1> SUFFICES I
  OBVIOUS
<1>1. CASE UNCHANGED <<sub, landed>>
  BY <1>1
<1>2. me \in Memory /\ sub \in [Tasks -> {"absent", "todo", "in_progress"} \cup Terminal]
      /\ landed \in [Tasks -> Branches \cup {None}]
  BY DEF TypedInv, WorkTypeOK, BoardTypeOK, HistoryTypeOK
<1>3. CASE Complete
  BY <1>3, <1>2
     DEF Complete, Kept, Tree
<1>4. CASE Salvaged
  BY <1>4, <1>2, Leads
     DEF Salvaged, Kept, Tree
<1>5. CASE Replay
  <2>1. \/ sub' = sub /\ landed' = landed
        \/ \E u : sub' = [sub EXCEPT ![u] = "done"] /\ landed' = [landed EXCEPT ![u] = local]
    BY <1>5 DEF Replay
  <2> QED
    BY <1>5, <1>2, <2>1 DEF Replay
<1>6. CASE CreateSubtask
  <2> DEFINE w == CHOOSE v \in ToCreate : \A u \in ToCreate : v <= u
  <2>1. landed' = landed /\ sub' = [sub EXCEPT ![w] = IF @ = "absent" THEN "todo" ELSE @]
    BY <1>6 DEF CreateSubtask
  <2> HIDE DEF w
  <2> QED
    BY <1>2, <2>1
<1>7. CASE Claim
  <2>1. landed' = landed /\ (sub' = sub \/ \E u : sub' = [sub EXCEPT ![u] = "in_progress"])
    BY <1>7 DEF Claim, Kept, History
  <2> QED
    BY <1>2, <2>1
<1>8. ASSUME NEW u \in Tasks, Cancel(u)
      PROVE  I
  <2>1. landed' = landed /\ (sub' = sub \/ \E v : sub' = [sub EXCEPT ![v] = "not_planned"])
    BY <1>8 DEF Cancel
  <2> QED
    BY <1>2, <2>1
<1>9. ASSUME NEW i \in Candidates, CandidateClaims(i)
      PROVE  I
  <2>1. landed' = landed /\ (sub' = sub \/ \E u : sub' = [sub EXCEPT ![u] = "in_progress"])
    BY <1>9 DEF CandidateClaims
  <2> QED
    BY <1>2, <2>1
<1>10. CASE Boot \/ BootFails \/ ReconcileFresh \/ ReconcileResume \/ ReconcileFails
         \/ Enter
  BY <1>1, <1>2, Leads, <1>10
     DEF Boot, Recovered, BootFails, ReconcileFresh, ReconcileResume, Adopted,
         ReconcileFails, Enter, Late, Resumed
<1>11. CASE EnterFails \/ ReenterReview \/ Park \/ Release \/ Crash \/ Sweep \/ HumanPushes
  BY <1>1, <1>2, Leads, <1>11
     DEF EnterFails, ReenterReview, Park, Saved, Release, Crash, Sweep, HumanPushes
<1>12. CASE Draft \/ Diagnose(ReselectCap) \/ DraftFails \/ Approve \/ Adjust
         \/ ApproveFails
  BY <1>1, <1>2, Leads, <1>12
     DEF Draft, Drafted, Plans, MobDrafts, SoloDrafts, Stays, Diagnose, DraftFails, Approve,
         Adjust, Reply, ApproveFails
<1>13. CASE Split \/ NoSplit \/ SplitFails \/ Note \/ CreateFails \/ Planned
  BY <1>1, <1>2, Leads, <1>13
     DEF Split, Stays, NoSplit, SplitFails, Note, CreateFails, Planned
<1>14. CASE ClaimFails \/ Executed \/ Writes \/ Measures \/ CommitsItself \/ Finishes
  BY <1>1, <1>2, Leads, <1>14
     DEF ClaimFails, Solo, Kept, Board, Tree, History, Executed, Writes, Measures, Identity,
         CommitsItself, Finishes
<1>15. CASE Reselects \/ CoderFails \/ Gate \/ Fix \/ Regate \/ CommitWork
  BY <1>1, <1>2, Leads, <1>15
     DEF Reselects, Kept, Board, Tree, History, CoderFails, NoCoder, Gate, Fix, Regate,
         CommitWork
<1>16. CASE CommitNothing \/ CommitFails \/ Discuss \/ ReviseFails \/ Recheck \/ Push
  BY <1>1, <1>2, Leads, <1>16
     DEF CommitNothing, Kept, Board, Tree, History, CommitFails, Discuss, ReviseFails,
         Discarded, Checked, Recheck, Revised, Push
<1>17. CASE PushFails \/ CompleteFails \/ SalvageNothing \/ Salvage \/ Authority
         \/ StoppedAtWork
  BY <1>1, <1>2, Leads, <1>17
     DEF PushFails, Kept, Tree, History, CompleteFails, SalvageNothing, Salvage, Board,
         Authority, StoppedAtWork
<1>18. CASE Race \/ RaceFails \/ RaceSkipped \/ Join \/ RaceStopped \/ NothingToJudge
  BY <1>1, <1>2, Leads, <1>18
     DEF Race, RaceFails, RaceSkipped, Join, Returned, RaceStopped, Leaves, NothingToJudge
<1>19. CASE JudgeVerifies \/ NobodyToJudge \/ JudgeChooses \/ JudgeFails \/ Adopt
         \/ AdoptFails
  BY <1>1, <1>2, Leads, <1>19
     DEF JudgeVerifies, Steps, NobodyToJudge, Judging, Returned, JudgeChooses, JudgeFails,
         Adopt, AdoptFails
<1>20. CASE Replayed \/ Document \/ DocumentBroke \/ DocumentPushes \/ StartReview
         \/ StartReviewFails
  BY <1>1, <1>2, Leads, <1>20
     DEF Replayed, Document, Undone, Rests, DocumentBroke, Tree, DocumentPushes,
         StartReview, StartReviewFails
<1>21. CASE Fixes \/ Discards \/ Approved \/ Parks \/ PhaseFails \/ ReadsTip
  BY <1>1, <1>2, Leads, <1>21
     DEF Fixes, Rests, Discards, Approved, Tree, Parks, ParkedForPeople, PhaseFails,
         ReadsTip
<1>22. CASE Rebase \/ IntegrateFails \/ LeasePush \/ LeaseFails \/ OpensPull \/ GatesPass
  BY <1>1, <1>2, Leads, <1>22
     DEF Rebase, Rebased, SquashedOnConflict, Rests, IntegrateFails, Tree, LeasePush,
         LeaseFails, OpensPull, GatesPass
<1>23. CASE Done \/ Stopped
  BY <1>1, <1>2, Leads, <1>23
     DEF Done, Stopped
<1>24. ASSUME NEW i \in Candidates, CandidateBroke(i)
      PROVE  I
  BY <1>1, <1>2, Leads, <1>24
     DEF CandidateBroke, Drops, Steps
<1>25. ASSUME NEW i \in Candidates, CandidateWorks(i)
      PROVE  I
  BY <1>1, <1>2, Leads, <1>25
     DEF CandidateWorks, Passed, Rest, Steps
<1>26. ASSUME NEW i \in Candidates, CandidateCapped(i)
      PROVE  I
  BY <1>1, <1>2, Leads, <1>26
     DEF CandidateCapped, CapSaves, Drops, Steps
<1>27. ASSUME NEW i \in Candidates, CandidateReselects(i)
      PROVE  I
  BY <1>1, <1>2, Leads, <1>27
     DEF CandidateReselects, Drops, Steps
<1> QED
  BY <1>1, <1>3, <1>4, <1>5, <1>6, <1>7, <1>8, <1>9, <1>10, <1>11, <1>12, <1>13, <1>14,
     <1>15, <1>16, <1>17, <1>18, <1>19, <1>20, <1>21, <1>22, <1>23, <1>24, <1>25, <1>26,
     <1>27
     DEF Next, RunNext, PlanNext, ExecuteNext, FanoutNext

LEMMA OriginStep ==
    ASSUME TypedInv, [Next]_vars
    PROVE  \/ AtOrigin \subseteq AtOrigin'
           \/ remote' = local /\ local' = local /\ Carries
           \/ Adopt \/ Discards
<1> DEFINE I == \/ AtOrigin \subseteq AtOrigin'
                \/ remote' = local /\ local' = local /\ Carries
                \/ Adopt \/ Discards
<1> SUFFICES I
  OBVIOUS
<1>1. CASE UNCHANGED remote
  BY <1>1 DEF AtOrigin
<1>2. me \in Memory /\ local \in Branches /\ local' \in Branches
      /\ remote \in Branches \cup {None} /\ remote' \in Branches \cup {None}
  BY TreeStep DEF TypedInv, WorkTypeOK, TreeTypeOK
<1>3. ASSUME NEW b \in Branches, Takes(b), remote' = b \/ remote' = remote
      PROVE  AtOrigin \subseteq AtOrigin'
  BY <1>3 DEF Takes, Descends, AtOrigin
<1>4. CASE Park
  <2>1. CASE remote' = remote
    BY <2>1 DEF AtOrigin
  <2>2. CASE remote' # remote
    <3>1. remote' = Saved /\ Takes(Saved) /\ local' = Saved
      BY <1>4, <2>2 DEF Park
    <3>2. Saved \in Branches
      BY <1>2, <3>1
    <3> QED
      BY <1>3, <3>1, <3>2
  <2> QED
    BY <2>1, <2>2
<1>5. CASE HumanPushes
  <2>1. remote \in Branches
    BY <1>5, <1>2 DEF HumanPushes
  <2>2. PICK g \in BOOLEAN : remote' = [remote EXCEPT !.work = @ \cup {Human}, !.good = g]
    BY <1>5 DEF HumanPushes
  <2>3. remote' \in Branches
    BY <2>1, <2>2, DataTypes
  <2>4. remote.work \subseteq remote'.work
    BY <2>1, <2>2 DEF Branches
  <2> QED
    BY <2>1, <2>3, <2>4 DEF AtOrigin
<1>6. CASE Push \/ Authority \/ LeasePush \/ DocumentPushes
  BY <1>6
     DEF Push, Kept, Board, History, Authority, LeasePush, Rests, DocumentPushes, Carries,
         AtOrigin
<1>7. CASE Fixes
  <2>1. remote' = remote \/ (Takes(local') /\ remote' = local')
    BY <1>7 DEF Fixes
  <2> QED
    BY <1>2, <1>3, <2>1 DEF AtOrigin
<1>8. CASE Adopt
  BY <1>8
     DEF Adopt
<1>9. CASE Discards
  BY <1>9
<1>10. CASE Boot \/ BootFails \/ ReconcileFresh \/ ReconcileResume \/ ReconcileFails
         \/ Enter \/ EnterFails \/ ReenterReview \/ Release
  BY <1>1, <1>10
     DEF Boot, Recovered, BootFails, ReconcileFresh, ReconcileResume, Adopted,
         ReconcileFails, Enter, Late, Resumed, EnterFails, ReenterReview, Release
<1>11. CASE Crash \/ Sweep \/ Draft \/ Diagnose(ReselectCap) \/ DraftFails \/ Approve
         \/ Adjust \/ ApproveFails
  BY <1>1, <1>11
     DEF Crash, Sweep, Draft, Drafted, Plans, MobDrafts, SoloDrafts, Stays, Diagnose,
         DraftFails, Approve, Adjust, Reply, ApproveFails
<1>12. CASE Split \/ NoSplit \/ SplitFails \/ Note \/ CreateSubtask \/ CreateFails
         \/ Planned \/ Claim
  BY <1>1, <1>12
     DEF Split, Stays, NoSplit, SplitFails, Note, CreateSubtask, ToCreate, CreateFails,
         Planned, Claim, Solo, Open, Kept, Tree, History
<1>13. CASE ClaimFails \/ Executed \/ Writes \/ Measures \/ CommitsItself \/ Finishes
         \/ Reselects \/ CoderFails
  BY <1>1, <1>13
     DEF ClaimFails, Solo, Kept, Board, Tree, History, Executed, Writes, Measures, Identity,
         CommitsItself, Finishes, Reselects, CoderFails, NoCoder
<1>14. CASE Gate \/ Fix \/ Regate \/ CommitWork \/ CommitNothing \/ CommitFails \/ Discuss
         \/ ReviseFails
  BY <1>1, <1>14
     DEF Gate, Kept, Board, Tree, History, Fix, Regate, CommitWork, CommitNothing,
         CommitFails, Discuss, ReviseFails, Discarded, Checked
<1>15. CASE Recheck \/ PushFails \/ Complete \/ CompleteFails \/ SalvageNothing \/ Salvage
         \/ Salvaged \/ StoppedAtWork
  BY <1>1, <1>15
     DEF Recheck, Discarded, Checked, Revised, Kept, Board, History, PushFails, Tree,
         Complete, CompleteFails, SalvageNothing, Salvage, Salvaged, StoppedAtWork
<1>16. CASE Race \/ RaceFails \/ RaceSkipped \/ Join \/ RaceStopped \/ NothingToJudge
         \/ JudgeVerifies \/ NobodyToJudge
  BY <1>1, <1>16
     DEF Race, RaceFails, RaceSkipped, Join, Returned, RaceStopped, Leaves, NothingToJudge,
         JudgeVerifies, Steps, NobodyToJudge, Judging
<1>17. CASE JudgeChooses \/ JudgeFails \/ AdoptFails \/ Replay \/ Replayed \/ Document
         \/ DocumentBroke \/ StartReview
  BY <1>1, <1>17
     DEF JudgeChooses, Judging, JudgeFails, AdoptFails, Replay, ToReplay, Open, Replayed,
         Document, Undone, Rests, DocumentBroke, Tree, StartReview
<1>18. CASE StartReviewFails \/ Approved \/ Parks \/ PhaseFails \/ ReadsTip \/ Rebase
         \/ IntegrateFails \/ LeaseFails
  BY <1>1, <1>18
     DEF StartReviewFails, Rests, Tree, Approved, Parks, ParkedForPeople, PhaseFails,
         ReadsTip, Rebase, Rebased, SquashedOnConflict, IntegrateFails, LeaseFails
<1>19. CASE OpensPull \/ GatesPass \/ Done \/ Stopped
  BY <1>1, <1>19
     DEF OpensPull, Rests, Tree, GatesPass, Done, Stopped
<1>20. ASSUME NEW t \in Tasks, Cancel(t)
      PROVE  I
  BY <1>1, <1>20
     DEF Cancel
<1>21. ASSUME NEW i \in Candidates, CandidateClaims(i)
      PROVE  I
  BY <1>1, <1>21
     DEF CandidateClaims, Steps
<1>22. ASSUME NEW i \in Candidates, CandidateBroke(i)
      PROVE  I
  BY <1>1, <1>22
     DEF CandidateBroke, Drops, Steps
<1>23. ASSUME NEW i \in Candidates, CandidateWorks(i)
      PROVE  I
  BY <1>1, <1>23
     DEF CandidateWorks, Passed, Rest, Steps
<1>24. ASSUME NEW i \in Candidates, CandidateCapped(i)
      PROVE  I
  BY <1>1, <1>24
     DEF CandidateCapped, CapSaves, Drops, Steps
<1>25. ASSUME NEW i \in Candidates, CandidateReselects(i)
      PROVE  I
  BY <1>1, <1>25
     DEF CandidateReselects, Drops, Steps
<1> QED
  BY <1>1, <1>4, <1>5, <1>6, <1>7, <1>8, <1>9, <1>10, <1>11, <1>12, <1>13, <1>14, <1>15,
     <1>16, <1>17, <1>18, <1>19, <1>20, <1>21, <1>22, <1>23, <1>24, <1>25
     DEF Next, RunNext, PlanNext, ExecuteNext, FanoutNext

LEMMA LocalStep ==
    ASSUME TypedInv, [Next]_vars
    PROVE  \/ /\ local.work \subseteq local'.work /\ (local'.root = local.root \/ Rebase)
              /\ pc' = "idle" => pc = "idle" /\ local' = local
           \/ local' = Base /\ pc' = "idle"
           \/ ReconcileResume \/ Adopt \/ AdoptFails \/ Discards
<1> DEFINE I == \/ /\ local.work \subseteq local'.work /\ (local'.root = local.root \/ Rebase)
                   /\ pc' = "idle" => pc = "idle" /\ local' = local
                \/ local' = Base /\ pc' = "idle"
                \/ ReconcileResume \/ Adopt \/ AdoptFails \/ Discards
<1> SUFFICES I
  OBVIOUS
<1>1. CASE UNCHANGED <<local, pc>>
  BY <1>1
<1>2. me \in Memory /\ local \in Branches
  BY DEF TypedInv, WorkTypeOK, TreeTypeOK
<1>3. \A s, g : /\ local.work \subseteq Commit(local, s, g).work
                /\ local.root = Commit(local, s, g).root
  BY <1>2 DEF Commit, Branches
<1>4. CASE Park
  BY <1>4, <1>3, Leads, <1>2
     DEF Park, Saved
<1>5. CASE CommitWork
  BY <1>5, <1>3, Leads, <1>2
     DEF CommitWork, Kept, Board
<1>6. CASE CommitsItself
  BY <1>6, <1>3, Leads, <1>2
     DEF CommitsItself, Kept, Board
<1>7. CASE Salvage
  BY <1>7, <1>3, Leads, <1>2
     DEF Salvage, Kept, Board, History
<1>8. CASE Recheck
  BY <1>8, <1>3, Leads, <1>2
     DEF Recheck, Discarded, Checked, Revised, Kept, Board, History
<1>9. CASE Document
  BY <1>9, <1>3, Leads, <1>2
     DEF Document, Undone, Rests
<1>10. CASE Fixes
  BY <1>10, <1>3, Leads, <1>2
     DEF Fixes, Rests
<1>11. CASE Rebase
  <2>1. local' = local \/ \E r, g : \/ local' = [local EXCEPT !.root = r, !.good = g]
                                    \/ local' = [local EXCEPT !.root = r]
    BY <1>11 DEF Rebase, Rebased, SquashedOnConflict
  <2>2. local'.work = local.work
    BY <1>2, <2>1 DEF Branches
  <2> QED
    BY <1>11, <2>2 DEF Rebase
<1>12. CASE Enter
  BY <1>12, <1>2, NamesAre, MemoryHas
     DEF Enter, Late, Resumed
<1>13. CASE ReconcileResume
  BY <1>13
     DEF ReconcileResume, Adopted
<1>14. CASE Adopt
  BY <1>14
     DEF Adopt
<1>15. CASE AdoptFails
  BY <1>15
     DEF AdoptFails
<1>16. CASE Discards
  BY <1>16
<1>17. CASE Release \/ Crash \/ Parks \/ Done
  BY <1>17, Leads, <1>2
     DEF Release, Crash, Parks, ParkedForPeople, Done
<1>18. CASE Boot \/ BootFails \/ ReconcileFresh \/ ReconcileFails \/ EnterFails
         \/ ReenterReview \/ Sweep
  BY <1>1, <1>2, Leads, <1>18
     DEF Boot, Recovered, BootFails, ReconcileFresh, ReconcileFails, EnterFails,
         ReenterReview, Sweep
<1>19. CASE HumanPushes \/ Draft \/ Diagnose(ReselectCap) \/ DraftFails \/ Approve
         \/ Adjust
  BY <1>1, <1>2, Leads, <1>19
     DEF HumanPushes, Draft, Drafted, Plans, MobDrafts, SoloDrafts, Stays, Diagnose,
         DraftFails, Approve, Adjust, Reply
<1>20. CASE ApproveFails \/ Split \/ NoSplit \/ SplitFails \/ Note \/ CreateSubtask
  BY <1>1, <1>2, Leads, <1>20
     DEF ApproveFails, Stays, Split, NoSplit, SplitFails, Note, CreateSubtask, ToCreate
<1>21. CASE CreateFails \/ Planned \/ Claim \/ ClaimFails \/ Executed \/ Writes
  BY <1>1, <1>2, Leads, <1>21
     DEF CreateFails, Stays, Planned, Claim, Solo, Open, Kept, Tree, History, ClaimFails,
         Board, Executed, Writes
<1>22. CASE Measures \/ Finishes \/ Reselects \/ CoderFails \/ Gate \/ Fix
  BY <1>1, <1>2, Leads, <1>22
     DEF Measures, Identity, Kept, Board, Tree, History, Finishes, Reselects, CoderFails,
         NoCoder, Gate, Fix
<1>23. CASE Regate \/ CommitNothing \/ CommitFails \/ Discuss \/ ReviseFails \/ Push
  BY <1>1, <1>2, Leads, <1>23
     DEF Regate, Kept, Board, Tree, History, CommitNothing, CommitFails, Discuss,
         ReviseFails, Discarded, Checked, Push
<1>24. CASE PushFails \/ Complete \/ CompleteFails \/ SalvageNothing \/ Authority
         \/ Salvaged
  BY <1>1, <1>2, Leads, <1>24
     DEF PushFails, Kept, Tree, History, Complete, CompleteFails, SalvageNothing, Authority,
         Board, Salvaged
<1>25. CASE StoppedAtWork \/ Race \/ RaceFails \/ RaceSkipped \/ Join \/ RaceStopped
  BY <1>1, <1>2, Leads, <1>25
     DEF StoppedAtWork, Kept, Tree, History, Race, RaceFails, RaceSkipped, Join, Returned,
         RaceStopped, Leaves
<1>26. CASE NothingToJudge \/ JudgeVerifies \/ NobodyToJudge \/ JudgeChooses \/ JudgeFails
         \/ Replay
  BY <1>1, <1>2, Leads, <1>26
     DEF NothingToJudge, JudgeVerifies, Steps, NobodyToJudge, Judging, Returned,
         JudgeChooses, JudgeFails, Replay, ToReplay, Open
<1>27. CASE Replayed \/ DocumentBroke \/ DocumentPushes \/ StartReview \/ StartReviewFails
         \/ Approved
  BY <1>1, <1>2, Leads, <1>27
     DEF Replayed, DocumentBroke, Rests, Tree, DocumentPushes, StartReview,
         StartReviewFails, Approved
<1>28. CASE PhaseFails \/ ReadsTip \/ IntegrateFails \/ LeasePush \/ LeaseFails
         \/ OpensPull
  BY <1>1, <1>2, Leads, <1>28
     DEF PhaseFails, Rests, Tree, ReadsTip, IntegrateFails, LeasePush, LeaseFails, OpensPull
<1>29. CASE GatesPass \/ Stopped
  BY <1>1, <1>2, Leads, <1>29
     DEF GatesPass, Rests, Tree, Stopped
<1>30. ASSUME NEW t \in Tasks, Cancel(t)
      PROVE  I
  BY <1>1, <1>2, Leads, <1>30
     DEF Cancel
<1>31. ASSUME NEW i \in Candidates, CandidateClaims(i)
      PROVE  I
  BY <1>1, <1>2, Leads, <1>31
     DEF CandidateClaims, Steps
<1>32. ASSUME NEW i \in Candidates, CandidateBroke(i)
      PROVE  I
  BY <1>1, <1>2, Leads, <1>32
     DEF CandidateBroke, Drops, Steps
<1>33. ASSUME NEW i \in Candidates, CandidateWorks(i)
      PROVE  I
  BY <1>1, <1>2, Leads, <1>33
     DEF CandidateWorks, Passed, Rest, Steps
<1>34. ASSUME NEW i \in Candidates, CandidateCapped(i)
      PROVE  I
  BY <1>1, <1>2, Leads, <1>34
     DEF CandidateCapped, CapSaves, Drops, Steps
<1>35. ASSUME NEW i \in Candidates, CandidateReselects(i)
      PROVE  I
  BY <1>1, <1>2, Leads, <1>35
     DEF CandidateReselects, Drops, Steps
<1> QED
  BY <1>1, <1>4, <1>5, <1>6, <1>7, <1>8, <1>9, <1>10, <1>11, <1>12, <1>13, <1>14, <1>15,
     <1>16, <1>17, <1>18, <1>19, <1>20, <1>21, <1>22, <1>23, <1>24, <1>25, <1>26, <1>27,
     <1>28, <1>29, <1>30, <1>31, <1>32, <1>33, <1>34, <1>35
     DEF Next, RunNext, PlanNext, ExecuteNext, FanoutNext

LEMMA PushedStep ==
    ASSUME TypedInv, [Next]_vars, ~CommitsItself, Pushed'
    PROVE  \/ Pushed /\ local' = local
           \/ local' = remote'
           \/ pc = "idle" /\ local' = local
<1> DEFINE I == \/ Pushed /\ local' = local
                \/ local' = remote'
                \/ pc = "idle" /\ local' = local
<1> SUFFICES I
  OBVIOUS
<1> USE DEF Pushed
<1>1. CASE UNCHANGED <<pc, me, local>>
  BY <1>1
<1>2. me \in Memory
  BY DEF TypedInv, WorkTypeOK
<1>3. CASE CommitsItself
  BY <1>3
<1>4. CASE Enter
  BY <1>4, NamesAre, MemoryHas, <1>2
     DEF Enter, Late, Resumed
<1>5. CASE Measures \/ Reselects \/ Discuss \/ DocumentPushes
  BY <1>5, <1>2
     DEF Measures, Identity, Kept, Board, Tree, History, Reselects, Discuss, DocumentPushes,
         Rests, Memory
<1>6. CASE Fixes
  BY <1>6, <1>2, Leads
     DEF Fixes, Rests
<1>7. CASE Boot \/ BootFails \/ ReconcileFresh \/ ReconcileResume \/ ReconcileFails
         \/ EnterFails \/ ReenterReview
  BY <1>1, <1>2, Leads, <1>7
     DEF Boot, Recovered, BootFails, ReconcileFresh, ReconcileResume, Adopted,
         ReconcileFails, EnterFails, ReenterReview
<1>8. CASE Park \/ Release \/ Crash \/ Sweep \/ HumanPushes \/ Draft
  BY <1>1, <1>2, Leads, <1>8
     DEF Park, Saved, Release, Crash, Sweep, HumanPushes, Draft, Drafted, Plans, MobDrafts,
         SoloDrafts, Stays
<1>9. CASE Diagnose(ReselectCap) \/ DraftFails \/ Approve \/ Adjust \/ ApproveFails
         \/ Split
  BY <1>1, <1>2, Leads, <1>9
     DEF Diagnose, Stays, DraftFails, Approve, Adjust, Reply, ApproveFails, Split
<1>10. CASE NoSplit \/ SplitFails \/ Note \/ CreateSubtask \/ CreateFails \/ Planned
  BY <1>1, <1>2, Leads, <1>10
     DEF NoSplit, Stays, SplitFails, Note, CreateSubtask, ToCreate, CreateFails, Planned
<1>11. CASE Claim \/ ClaimFails \/ Executed \/ Writes \/ Finishes \/ CoderFails
  BY <1>1, <1>2, Leads, <1>11
     DEF Claim, Solo, Open, Kept, Tree, History, ClaimFails, Board, Executed, Writes,
         Finishes, CoderFails, NoCoder
<1>12. CASE Gate \/ Fix \/ Regate \/ CommitWork \/ CommitNothing \/ CommitFails
  BY <1>1, <1>2, Leads, <1>12
     DEF Gate, Kept, Board, Tree, History, Fix, Regate, CommitWork, CommitNothing,
         CommitFails
<1>13. CASE ReviseFails \/ Recheck \/ Push \/ PushFails \/ Complete \/ CompleteFails
  BY <1>1, <1>2, Leads, <1>13
     DEF ReviseFails, Discarded, Checked, Kept, Board, History, Recheck, Revised, Push,
         PushFails, Tree, Complete, CompleteFails
<1>14. CASE SalvageNothing \/ Salvage \/ Authority \/ Salvaged \/ StoppedAtWork \/ Race
  BY <1>1, <1>2, Leads, <1>14
     DEF SalvageNothing, Kept, Tree, History, Salvage, Board, Authority, Salvaged,
         StoppedAtWork, Race
<1>15. CASE RaceFails \/ RaceSkipped \/ Join \/ RaceStopped \/ NothingToJudge
         \/ JudgeVerifies
  BY <1>1, <1>2, Leads, <1>15
     DEF RaceFails, RaceSkipped, Join, Returned, RaceStopped, Leaves, NothingToJudge,
         JudgeVerifies,
         Steps
<1>16. CASE NobodyToJudge \/ JudgeChooses \/ JudgeFails \/ Adopt \/ AdoptFails \/ Replay
  BY <1>1, <1>2, Leads, <1>16
     DEF NobodyToJudge, Judging, Returned, JudgeChooses, JudgeFails, Adopt, AdoptFails,
         Replay, ToReplay, Open
<1>17. CASE Replayed \/ Document \/ DocumentBroke \/ StartReview \/ StartReviewFails
         \/ Discards
  BY <1>1, <1>2, Leads, <1>17
     DEF Replayed, Document, Undone, Rests, DocumentBroke, Tree, StartReview,
         StartReviewFails, Discards
<1>18. CASE Approved \/ Parks \/ PhaseFails \/ ReadsTip \/ Rebase \/ IntegrateFails
  BY <1>1, <1>2, Leads, <1>18
     DEF Approved, Rests, Tree, Parks, ParkedForPeople, PhaseFails, ReadsTip, Rebase,
         Rebased, SquashedOnConflict, IntegrateFails
<1>19. CASE LeasePush \/ LeaseFails \/ OpensPull \/ GatesPass \/ Done \/ Stopped
  BY <1>1, <1>2, Leads, <1>19
     DEF LeasePush, Rests, LeaseFails, Tree, OpensPull, GatesPass, Done, Stopped
<1>20. ASSUME NEW t \in Tasks, Cancel(t)
      PROVE  I
  BY <1>1, <1>2, Leads, <1>20
     DEF Cancel
<1>21. ASSUME NEW i \in Candidates, CandidateClaims(i)
      PROVE  I
  BY <1>1, <1>2, Leads, <1>21
     DEF CandidateClaims, Steps
<1>22. ASSUME NEW i \in Candidates, CandidateBroke(i)
      PROVE  I
  BY <1>1, <1>2, Leads, <1>22
     DEF CandidateBroke, Drops, Steps
<1>23. ASSUME NEW i \in Candidates, CandidateWorks(i)
      PROVE  I
  BY <1>1, <1>2, Leads, <1>23
     DEF CandidateWorks, Passed, Rest, Steps
<1>24. ASSUME NEW i \in Candidates, CandidateCapped(i)
      PROVE  I
  BY <1>1, <1>2, Leads, <1>24
     DEF CandidateCapped, CapSaves, Drops, Steps
<1>25. ASSUME NEW i \in Candidates, CandidateReselects(i)
      PROVE  I
  BY <1>1, <1>2, Leads, <1>25
     DEF CandidateReselects, Drops, Steps
<1> QED
  BY <1>1, <1>3, <1>4, <1>5, <1>6, <1>7, <1>8, <1>9, <1>10, <1>11, <1>12, <1>13, <1>14,
     <1>15, <1>16, <1>17, <1>18, <1>19, <1>20, <1>21, <1>22, <1>23, <1>24, <1>25
     DEF Next, RunNext, PlanNext, ExecuteNext, FanoutNext

LEMMA RaceWorkStep ==
    ASSUME TypedInv, RaceInv, [Next]_vars, Racers'
    PROVE  \/ /\ Racers
              /\ \A i \in Candidates' :
                    i \in Candidates /\ Descends(cands'[i].work, cands[i].work)
           \/ pc = "execute" /\ \A i \in Candidates' : cands'[i].work = local
           \/ cands' = << >>
<1> DEFINE I == \/ /\ Racers
                   /\ \A i \in Candidates' :
                         i \in Candidates /\ Descends(cands'[i].work, cands[i].work)
                \/ pc = "execute" /\ \A i \in Candidates' : cands'[i].work = local
                \/ cands' = << >>
<1> SUFFICES I
  OBVIOUS
<1>1. CASE UNCHANGED <<pc, me, cands>>
  BY <1>1 DEF Racers, Candidates, Descends
<1>2. me \in Memory /\ RaceTypeOK
  BY DEF TypedInv, WorkTypeOK
<1>3. Racers \/ pc \in {"replay", "park", "release"} \/ cands = << >>
  BY DEF RaceInv, InRace, Racers
<1>4. Racers /\ cands' = cands => I
  BY DEF Candidates, Descends
<1>5. ASSUME Racers, NEW i \in Candidates, NEW r,
             cands' = [cands EXCEPT ![i] = r], Descends(r.work, cands[i].work)
      PROVE  I
  BY <1>2, <1>5 DEF RaceTypeOK, Candidates, Descends
<1>6. \A b \in Branches : Descends(b, b) /\ \A s, g : Descends(Commit(b, s, g), b)
  BY DEF Commit, Branches, Descends
<1>7. \A i \in Candidates : cands[i] \in Cand /\ cands[i].work \in Branches
  BY <1>2 DEF RaceTypeOK, Cand
<1>8. CASE Enter
  BY <1>8, <1>2, <1>3, <1>4
     DEF Enter, Late, Resumed, Racers
<1>9. CASE Race
  <2>1. PICK n \in Funded :
           cands' = [i \in 1 .. n |-> [at |-> NextTask, step |-> "claim", work |-> local,
                                       capped |-> FALSE, verdict |-> "unknown"]]
    BY <1>9 DEF Race
  <2> QED
    BY <1>9, <2>1 DEF Race, Candidates
<1>10. CASE JudgeVerifies
  <2>1. PICK i \in Survivors : \E v : cands' = [cands EXCEPT ![i] = [cands[i] EXCEPT !.verdict = v]]
    BY <1>10 DEF JudgeVerifies, Steps
  <2>2. PICK v : cands' = [cands EXCEPT ![i] = [cands[i] EXCEPT !.verdict = v]]
    BY <2>1
  <2>3. i \in Candidates /\ Descends([cands[i] EXCEPT !.verdict = v].work, cands[i].work)
    BY <1>7 DEF Survivors, Cand, Descends
  <2>4. Racers
    BY <1>10 DEF JudgeVerifies, Racers
  <2> QED
    BY <1>5, <2>2, <2>3, <2>4
<1>11. ASSUME NEW i \in Candidates, CandidateClaims(i)
      PROVE  I
  <2>1. Racers /\ cands' = [cands EXCEPT ![i] = [cands[i] EXCEPT !.step = "code"]]
    BY <1>11 DEF CandidateClaims, Steps, Racers
  <2>2. Descends([cands[i] EXCEPT !.step = "code"].work, cands[i].work)
    BY <1>7 DEF Cand, Descends
  <2> QED
    BY <1>5, <2>1, <2>2
<1>12. ASSUME NEW i \in Candidates, CandidateBroke(i)
      PROVE  I
  <2>1. Racers /\ cands' = [cands EXCEPT ![i] = [cands[i] EXCEPT !.step = "budget"]]
    BY <1>12 DEF CandidateBroke, Drops, Steps, Racers
  <2>2. Descends([cands[i] EXCEPT !.step = "budget"].work, cands[i].work)
    BY <1>7 DEF Cand, Descends
  <2> QED
    BY <1>5, <2>1, <2>2
<1>13. ASSUME NEW i \in Candidates, CandidateWorks(i)
      PROVE  I
  <2>1. PICK w \in {cands[i].work} \cup {Commit(cands[i].work, cands[i].at, g) : g \in BOOLEAN} :
           cands' = [cands EXCEPT ![i] = [cands[i] EXCEPT !.step = Passed(i).step,
                                                         !.at = Passed(i).at, !.work = w]]
    BY <1>13 DEF CandidateWorks, Steps
  <2>2. Descends(w, cands[i].work)
    BY <1>6, <1>7, <2>1
  <2>3. [cands[i] EXCEPT !.step = Passed(i).step, !.at = Passed(i).at, !.work = w].work = w
    BY <1>7 DEF Cand
  <2>4. Racers
    BY <1>13 DEF CandidateWorks, Racers
  <2> QED
    BY <1>5, <2>1, <2>2, <2>3, <2>4
<1>14. ASSUME NEW i \in Candidates, CandidateCapped(i)
      PROVE  I
  <2>1. Racers
    BY <1>14 DEF CandidateCapped, Racers
  <2>2. CASE Drops(i, "turns")
    <3>1. Descends([cands[i] EXCEPT !.step = "turns"].work, cands[i].work)
      BY <1>7 DEF Cand, Descends
    <3> QED
      BY <1>5, <2>1, <2>2, <3>1 DEF Drops, Steps
  <2>3. CASE \E g \in BOOLEAN :
               Steps(i, [cands[i] EXCEPT !.step = "finished", !.capped = TRUE,
                                         !.work = Commit(@, cands[i].at, g)])
    <3>1. PICK g \in BOOLEAN :
             Steps(i, [cands[i] EXCEPT !.step = "finished", !.capped = TRUE,
                                       !.work = Commit(@, cands[i].at, g)])
      BY <2>3
    <3>2. [cands[i] EXCEPT !.step = "finished", !.capped = TRUE,
                           !.work = Commit(@, cands[i].at, g)].work
             = Commit(cands[i].work, cands[i].at, g)
      BY <1>7 DEF Cand, Descends
    <3>3. Descends(Commit(cands[i].work, cands[i].at, g), cands[i].work)
      BY <1>6, <1>7
    <3> QED
      BY <1>5, <2>1, <3>1, <3>2, <3>3 DEF Steps
  <2> QED
    BY <1>14, <2>2, <2>3 DEF CandidateCapped
<1>15. ASSUME NEW i \in Candidates, CandidateReselects(i)
      PROVE  I
  <2>1. Racers
    BY <1>15 DEF CandidateReselects, Racers
  <2>2. CASE Drops(i, "error")
    <3>1. Descends([cands[i] EXCEPT !.step = "error"].work, cands[i].work)
      BY <1>7 DEF Cand, Descends
    <3> QED
      BY <1>5, <2>1, <2>2, <3>1 DEF Drops, Steps
  <2> QED
    BY <1>15, <1>4, <2>1, <2>2 DEF CandidateReselects
<1>16. CASE Boot \/ BootFails \/ ReconcileFresh \/ ReconcileResume \/ ReconcileFails
         \/ EnterFails \/ ReenterReview
  BY <1>1, <1>2, <1>3, <1>4, Leads, <1>16
     DEF Boot, Recovered, BootFails, ReconcileFresh, ReconcileResume, Adopted,
         ReconcileFails, EnterFails, ReenterReview, Racers
<1>17. CASE Park \/ Release \/ Crash \/ Sweep \/ HumanPushes \/ Draft
  BY <1>1, <1>2, <1>3, <1>4, Leads, <1>17
     DEF Park, Saved, Release, Crash, Sweep, HumanPushes, Draft, Drafted, Plans, MobDrafts,
         SoloDrafts, Stays, Racers
<1>18. CASE Diagnose(ReselectCap) \/ DraftFails \/ Approve \/ Adjust \/ ApproveFails
         \/ Split
  BY <1>1, <1>2, <1>3, <1>4, Leads, <1>18
     DEF Diagnose, Stays, DraftFails, Approve, Adjust, Reply, ApproveFails, Split, Racers
<1>19. CASE NoSplit \/ SplitFails \/ Note \/ CreateSubtask \/ CreateFails \/ Planned
  BY <1>1, <1>2, <1>3, <1>4, Leads, <1>19
     DEF NoSplit, Stays, SplitFails, Note, CreateSubtask, ToCreate, CreateFails, Planned,
         Racers
<1>20. CASE Claim \/ ClaimFails \/ Executed \/ Writes \/ Measures \/ CommitsItself
  BY <1>1, <1>2, <1>3, <1>4, Leads, <1>20
     DEF Claim, Solo, Open, Kept, Tree, History, ClaimFails, Board, Executed, Writes,
         Measures, Identity, CommitsItself, Racers
<1>21. CASE Finishes \/ Reselects \/ CoderFails \/ Gate \/ Fix \/ Regate
  BY <1>1, <1>2, <1>3, <1>4, Leads, <1>21
     DEF Finishes, Kept, Board, Tree, History, Reselects, CoderFails, NoCoder, Gate, Fix,
         Regate, Racers
<1>22. CASE CommitWork \/ CommitNothing \/ CommitFails \/ Discuss \/ ReviseFails
         \/ Recheck
  BY <1>1, <1>2, <1>3, <1>4, Leads, <1>22
     DEF CommitWork, Kept, Board, CommitNothing, Tree, History, CommitFails, Discuss,
         ReviseFails, Discarded, Checked, Recheck, Revised, Racers
<1>23. CASE Push \/ PushFails \/ Complete \/ CompleteFails \/ SalvageNothing \/ Salvage
  BY <1>1, <1>2, <1>3, <1>4, Leads, <1>23
     DEF Push, Kept, Board, History, PushFails, Tree, Complete, CompleteFails,
         SalvageNothing, Salvage, Racers
<1>24. CASE Authority \/ Salvaged \/ StoppedAtWork \/ RaceFails \/ RaceSkipped \/ Join
  BY <1>1, <1>2, <1>3, <1>4, Leads, <1>24
     DEF Authority, Kept, Board, History, Salvaged, Tree, StoppedAtWork, RaceFails,
         RaceSkipped, Join, Returned, Racers
<1>25. CASE RaceStopped \/ NothingToJudge \/ NobodyToJudge \/ JudgeChooses \/ JudgeFails
         \/ Adopt
  BY <1>1, <1>2, <1>3, <1>4, Leads, <1>25
     DEF RaceStopped, Leaves, Returned, NothingToJudge, NobodyToJudge, Judging, JudgeChooses,
         JudgeFails, Adopt, Racers
<1>26. CASE AdoptFails \/ Replay \/ Replayed \/ Document \/ DocumentBroke
         \/ DocumentPushes
  BY <1>1, <1>2, <1>3, <1>4, Leads, <1>26
     DEF AdoptFails, Replay, ToReplay, Open, Replayed, Document, Undone, Rests,
         DocumentBroke, Tree, DocumentPushes, Racers
<1>27. CASE StartReview \/ StartReviewFails \/ Fixes \/ Discards \/ Approved \/ Parks
  BY <1>1, <1>2, <1>3, <1>4, Leads, <1>27
     DEF StartReview, Rests, Tree, StartReviewFails, Fixes, Discards, Approved, Parks,
         ParkedForPeople, Racers
<1>28. CASE PhaseFails \/ ReadsTip \/ Rebase \/ IntegrateFails \/ LeasePush \/ LeaseFails
  BY <1>1, <1>2, <1>3, <1>4, Leads, <1>28
     DEF PhaseFails, Rests, Tree, ReadsTip, Rebase, Rebased, SquashedOnConflict,
         IntegrateFails, LeasePush, LeaseFails, Racers
<1>29. CASE OpensPull \/ GatesPass \/ Done \/ Stopped
  BY <1>1, <1>2, <1>3, <1>4, Leads, <1>29
     DEF OpensPull, Rests, Tree, GatesPass, Done, Stopped, Racers
<1>30. ASSUME NEW t \in Tasks, Cancel(t)
      PROVE  I
  BY <1>1, <1>2, <1>3, <1>4, Leads, <1>30
     DEF Cancel, Racers
<1> QED
  BY <1>1, <1>8, <1>9, <1>10, <1>11, <1>12, <1>13, <1>14, <1>15, <1>16, <1>17, <1>18, <1>19,
     <1>20, <1>21, <1>22, <1>23, <1>24, <1>25, <1>26, <1>27, <1>28, <1>29, <1>30
     DEF Next, RunNext, PlanNext, ExecuteNext, FanoutNext

LEMMA PhaseStep ==
    ASSUME TypedInv, [Next]_vars, phase' = "none"
    PROVE  /\ phase = "none"
           /\ pc \in {"idle", "reconcile", "enter", "park", "release"}
                 => pc' \in {"idle", "reconcile", "enter", "park", "release"}
<1> DEFINE I == /\ phase = "none"
                /\ pc \in {"idle", "reconcile", "enter", "park", "release"}
                      => pc' \in {"idle", "reconcile", "enter", "park", "release"}
<1> SUFFICES I
  OBVIOUS
<1>1. CASE UNCHANGED <<phase, pc>>
  BY <1>1
<1>2. me \in Memory
  BY DEF TypedInv, WorkTypeOK
<1>3. CASE Enter
  BY <1>3, <1>2, NamesAre, MemoryHas
     DEF Enter, Late, Resumed
<1>4. CASE Boot \/ BootFails \/ ReconcileFresh \/ ReconcileResume \/ ReconcileFails
         \/ EnterFails \/ ReenterReview \/ Park \/ Release
  BY <1>1, <1>2, Leads, <1>4
     DEF Boot, Recovered, BootFails, ReconcileFresh, ReconcileResume, Adopted,
         ReconcileFails, EnterFails, ReenterReview, Park, Saved, Release
<1>5. CASE Crash \/ Sweep \/ HumanPushes \/ Draft \/ Diagnose(ReselectCap) \/ DraftFails
         \/ Approve \/ Adjust
  BY <1>1, <1>2, Leads, <1>5
     DEF Crash, Sweep, HumanPushes, Draft, Drafted, Plans, MobDrafts, SoloDrafts, Stays,
         Diagnose, DraftFails, Approve, Adjust, Reply
<1>6. CASE ApproveFails \/ Split \/ NoSplit \/ SplitFails \/ Note \/ CreateSubtask
         \/ CreateFails \/ Planned
  BY <1>1, <1>2, Leads, <1>6
     DEF ApproveFails, Stays, Split, NoSplit, SplitFails, Note, CreateSubtask, ToCreate,
         CreateFails, Planned
<1>7. CASE Claim \/ ClaimFails \/ Executed \/ Writes \/ Measures \/ CommitsItself
         \/ Finishes \/ Reselects
  BY <1>1, <1>2, Leads, <1>7
     DEF Claim, Solo, Open, Kept, Tree, History, ClaimFails, Board, Executed, Writes,
         Measures, Identity, CommitsItself, Finishes, Reselects
<1>8. CASE CoderFails \/ Gate \/ Fix \/ Regate \/ CommitWork \/ CommitNothing
         \/ CommitFails \/ Discuss
  BY <1>1, <1>2, Leads, <1>8
     DEF CoderFails, NoCoder, Kept, Board, Tree, History, Gate, Fix, Regate, CommitWork,
         CommitNothing, CommitFails, Discuss
<1>9. CASE ReviseFails \/ Recheck \/ Push \/ PushFails \/ Complete \/ CompleteFails
         \/ SalvageNothing \/ Salvage
  BY <1>1, <1>2, Leads, <1>9
     DEF ReviseFails, Discarded, Checked, Kept, Board, History, Recheck, Revised, Push,
         PushFails, Tree, Complete, CompleteFails, SalvageNothing, Salvage
<1>10. CASE Authority \/ Salvaged \/ StoppedAtWork \/ Race \/ RaceFails \/ RaceSkipped
         \/ Join \/ RaceStopped
  BY <1>1, <1>2, Leads, <1>10
     DEF Authority, Kept, Board, History, Salvaged, Tree, StoppedAtWork, Race, RaceFails,
         RaceSkipped, Join, Returned, RaceStopped, Leaves
<1>11. CASE NothingToJudge \/ JudgeVerifies \/ NobodyToJudge \/ JudgeChooses \/ JudgeFails
         \/ Adopt \/ AdoptFails \/ Replay
  BY <1>1, <1>2, Leads, <1>11
     DEF NothingToJudge, JudgeVerifies, Steps, NobodyToJudge, Judging, Returned,
         JudgeChooses, JudgeFails, Adopt, AdoptFails, Replay, ToReplay, Open
<1>12. CASE Replayed \/ Document \/ DocumentBroke \/ DocumentPushes \/ StartReview
         \/ StartReviewFails \/ Fixes \/ Discards
  BY <1>1, <1>2, Leads, <1>12
     DEF Replayed, Document, Undone, Rests, DocumentBroke, Tree, DocumentPushes,
         StartReview, StartReviewFails, Fixes, Discards
<1>13. CASE Approved \/ Parks \/ PhaseFails \/ ReadsTip \/ Rebase \/ IntegrateFails
         \/ LeasePush \/ LeaseFails
  BY <1>1, <1>2, Leads, <1>13
     DEF Approved, Rests, Tree, Parks, ParkedForPeople, PhaseFails, ReadsTip, Rebase,
         Rebased, SquashedOnConflict, IntegrateFails, LeasePush, LeaseFails
<1>14. CASE OpensPull \/ GatesPass \/ Done \/ Stopped
  BY <1>1, <1>2, Leads, <1>14
     DEF OpensPull, Rests, Tree, GatesPass, Done, Stopped
<1>15. ASSUME NEW t \in Tasks, Cancel(t)
      PROVE  I
  BY <1>1, <1>2, Leads, <1>15
     DEF Cancel
<1>16. ASSUME NEW i \in Candidates, CandidateClaims(i)
      PROVE  I
  BY <1>1, <1>2, Leads, <1>16
     DEF CandidateClaims, Steps
<1>17. ASSUME NEW i \in Candidates, CandidateBroke(i)
      PROVE  I
  BY <1>1, <1>2, Leads, <1>17
     DEF CandidateBroke, Drops, Steps
<1>18. ASSUME NEW i \in Candidates, CandidateWorks(i)
      PROVE  I
  BY <1>1, <1>2, Leads, <1>18
     DEF CandidateWorks, Passed, Rest, Steps
<1>19. ASSUME NEW i \in Candidates, CandidateCapped(i)
      PROVE  I
  BY <1>1, <1>2, Leads, <1>19
     DEF CandidateCapped, CapSaves, Drops, Steps
<1>20. ASSUME NEW i \in Candidates, CandidateReselects(i)
      PROVE  I
  BY <1>1, <1>2, Leads, <1>20
     DEF CandidateReselects, Drops, Steps
<1> QED
  BY <1>1, <1>3, <1>4, <1>5, <1>6, <1>7, <1>8, <1>9, <1>10, <1>11, <1>12, <1>13, <1>14,
     <1>15, <1>16, <1>17, <1>18, <1>19, <1>20
     DEF Next, RunNext, PlanNext, ExecuteNext, FanoutNext

LEMMA ArrivesStep ==
    ASSUME TypedInv, [Next]_vars, ~Carries, Carries'
    PROVE  (ReconcileFresh /\ phase = "none") \/ ReconcileResume
<1> DEFINE I == (ReconcileFresh /\ phase = "none") \/ ReconcileResume
<1> SUFFICES I
  OBVIOUS
<1> USE DEF Carries
<1>1. CASE UNCHANGED pc
  BY <1>1
<1>2. me \in Memory
  BY DEF TypedInv, WorkTypeOK
<1>3. CASE ReconcileFresh
  BY <1>3
     DEF ReconcileFresh
<1>4. CASE ReconcileResume
  BY <1>4
<1>5. CASE Boot \/ BootFails \/ ReconcileFails \/ Enter \/ EnterFails \/ ReenterReview
         \/ Park \/ Release
         \/ Crash
  BY <1>1, <1>2, Leads, <1>5
     DEF Boot, Recovered, BootFails, ReconcileFails, Enter, Late, Resumed, EnterFails,
         ReenterReview, Park,
         Saved, Release, Crash
<1>6. CASE Sweep \/ HumanPushes \/ Draft \/ Diagnose(ReselectCap) \/ DraftFails \/ Approve
         \/ Adjust \/ ApproveFails
  BY <1>1, <1>2, Leads, <1>6
     DEF Sweep, HumanPushes, Draft, Drafted, Plans, MobDrafts, SoloDrafts, Stays, Diagnose,
         DraftFails, Approve, Adjust, Reply, ApproveFails
<1>7. CASE Split \/ NoSplit \/ SplitFails \/ Note \/ CreateSubtask \/ CreateFails
         \/ Planned \/ Claim
  BY <1>1, <1>2, Leads, <1>7
     DEF Split, Stays, NoSplit, SplitFails, Note, CreateSubtask, ToCreate, CreateFails,
         Planned, Claim, Solo, Open, Kept, Tree, History
<1>8. CASE ClaimFails \/ Executed \/ Writes \/ Measures \/ CommitsItself \/ Finishes
         \/ Reselects \/ CoderFails
  BY <1>1, <1>2, Leads, <1>8
     DEF ClaimFails, Solo, Kept, Board, Tree, History, Executed, Writes, Measures, Identity,
         CommitsItself, Finishes, Reselects, CoderFails, NoCoder
<1>9. CASE Gate \/ Fix \/ Regate \/ CommitWork \/ CommitNothing \/ CommitFails \/ Discuss
         \/ ReviseFails
  BY <1>1, <1>2, Leads, <1>9
     DEF Gate, Kept, Board, Tree, History, Fix, Regate, CommitWork, CommitNothing,
         CommitFails, Discuss, ReviseFails, Discarded, Checked
<1>10. CASE Recheck \/ Push \/ PushFails \/ Complete \/ CompleteFails \/ SalvageNothing
         \/ Salvage \/ Authority
  BY <1>1, <1>2, Leads, <1>10
     DEF Recheck, Discarded, Checked, Revised, Kept, Board, History, Push, PushFails, Tree,
         Complete, CompleteFails, SalvageNothing, Salvage, Authority
<1>11. CASE Salvaged \/ StoppedAtWork \/ Race \/ RaceFails \/ RaceSkipped \/ Join
         \/ RaceStopped \/ NothingToJudge
  BY <1>1, <1>2, Leads, <1>11
     DEF Salvaged, Kept, Tree, StoppedAtWork, History, Race, RaceFails, RaceSkipped, Join,
         Returned, RaceStopped, Leaves, NothingToJudge
<1>12. CASE JudgeVerifies \/ NobodyToJudge \/ JudgeChooses \/ JudgeFails \/ Adopt
         \/ AdoptFails \/ Replay \/ Replayed
  BY <1>1, <1>2, Leads, <1>12
     DEF JudgeVerifies, Steps, NobodyToJudge, Judging, Returned, JudgeChooses, JudgeFails,
         Adopt, AdoptFails, Replay, ToReplay, Open, Replayed
<1>13. CASE Document \/ DocumentBroke \/ DocumentPushes \/ StartReview \/ StartReviewFails
         \/ Fixes \/ Discards \/ Approved
  BY <1>1, <1>2, Leads, <1>13
     DEF Document, Undone, Rests, DocumentBroke, Tree, DocumentPushes, StartReview,
         StartReviewFails, Fixes, Discards, Approved
<1>14. CASE Parks \/ PhaseFails \/ ReadsTip \/ Rebase \/ IntegrateFails \/ LeasePush
         \/ LeaseFails \/ OpensPull
  BY <1>1, <1>2, Leads, <1>14
     DEF Parks, ParkedForPeople, PhaseFails, Rests, Tree, ReadsTip, Rebase, Rebased,
         SquashedOnConflict, IntegrateFails, LeasePush, LeaseFails, OpensPull
<1>15. CASE GatesPass \/ Done \/ Stopped
  BY <1>1, <1>2, Leads, <1>15
     DEF GatesPass, Rests, Tree, Done, Stopped
<1>16. ASSUME NEW t \in Tasks, Cancel(t)
      PROVE  I
  BY <1>1, <1>2, Leads, <1>16
     DEF Cancel
<1>17. ASSUME NEW i \in Candidates, CandidateClaims(i)
      PROVE  I
  BY <1>1, <1>2, Leads, <1>17
     DEF CandidateClaims, Steps
<1>18. ASSUME NEW i \in Candidates, CandidateBroke(i)
      PROVE  I
  BY <1>1, <1>2, Leads, <1>18
     DEF CandidateBroke, Drops, Steps
<1>19. ASSUME NEW i \in Candidates, CandidateWorks(i)
      PROVE  I
  BY <1>1, <1>2, Leads, <1>19
     DEF CandidateWorks, Passed, Rest, Steps
<1>20. ASSUME NEW i \in Candidates, CandidateCapped(i)
      PROVE  I
  BY <1>1, <1>2, Leads, <1>20
     DEF CandidateCapped, CapSaves, Drops, Steps
<1>21. ASSUME NEW i \in Candidates, CandidateReselects(i)
      PROVE  I
  BY <1>1, <1>2, Leads, <1>21
     DEF CandidateReselects, Drops, Steps
<1> QED
  BY <1>1, <1>3, <1>4, <1>5, <1>6, <1>7, <1>8, <1>9, <1>10, <1>11, <1>12, <1>13, <1>14,
     <1>15, <1>16, <1>17, <1>18, <1>19, <1>20, <1>21
     DEF Next, RunNext, PlanNext, ExecuteNext, FanoutNext

LEMMA DurableStep ==
    TypedInv /\ RaceInv /\ FixInv /\ DurableInv /\ [Next]_vars => DurableInv'
<1> SUFFICES ASSUME TypedInv, RaceInv, FixInv, DurableInv, [Next]_vars, ~past'.selfmade
             PROVE  /\ DoneIsDurable'
                    /\ (pc = "idle" => local = Base)'
                    /\ (phase = "none" =>
                           /\ \A t \in Tasks : sub[t] # "done"
                           /\ pc \in {"idle", "reconcile", "enter", "park", "release"})'
                    /\ (Carries => CompleteIn(local.work))'
                    /\ (pc = "reviewing" /\ me.preFix # None => CompleteIn(me.preFix.work))'
                    /\ (Racers => \A i \in Candidates : CompleteIn(cands[i].work.work))'
                    /\ (Pushed => local.work \subseteq AtOrigin)'
  BY DEF DurableInv
<1>1. ~past.selfmade /\ ~CommitsItself
  <2>1. past'.selfmade = past.selfmade \/ CommitsItself
    BY PastLeads
  <2>2. past.selfmade \in BOOLEAN
    BY DEF TypedInv, WorkTypeOK, HistoryTypeOK
  <2>3. CASE CommitsItself
    BY <2>2, <2>3 DEF CommitsItself, TypedInv, WorkTypeOK, HistoryTypeOK
  <2> QED
    BY <2>1, <2>2, <2>3
<1>2. /\ \A t \in Tasks : sub[t] = "done" => landed[t].work \subseteq AtOrigin
      /\ pc = "idle" => local = Base
      /\ phase = "none" => /\ \A t \in Tasks : sub[t] # "done"
                           /\ pc \in {"idle", "reconcile", "enter", "park", "release"}
      /\ Carries => CompleteIn(local.work)
      /\ pc = "reviewing" /\ me.preFix # None => CompleteIn(me.preFix.work)
      /\ Racers => \A i \in Candidates : CompleteIn(cands[i].work.work)
      /\ Pushed => local.work \subseteq AtOrigin
  BY <1>1 DEF DurableInv, DoneIsDurable
<1>3. /\ local \in Branches /\ local' \in Branches /\ None \notin Branches
      /\ remote \in Branches \cup {None}
  BY TreeStep DEF TypedInv, WorkTypeOK, TreeTypeOK
<1>4. \A t \in Tasks : sub'[t] = "done" =>
         \/ sub[t] = "done" /\ landed'[t] = landed[t]
         \/ pc \in {"complete", "salvaged", "replay"} /\ landed'[t] = local
  BY CompleteStep
<1>5. \A b \in Branches : /\ remote = b => AtOrigin = b.work
                          /\ remote' = b => AtOrigin' = b.work
  BY <1>3 DEF AtOrigin
<1>6. Adopt => /\ pc = "adopt" /\ Racers /\ me.winner \in Candidates /\ pc' = "replay"
               /\ local' = cands[me.winner].work /\ remote' = local'
  BY DEF Adopt, Racers, TypedInv, Grounded, Pool, Verifying, Uncapped, Survivors
<1>7. Discards => /\ pc = "reviewing" /\ pc' = "reviewing" /\ phase' = phase
                   /\ me.preFix # None /\ local' = me.preFix
                   /\ (remote' = remote \/ remote' = me.preFix)
  BY DEF Discards, Rests
<1>8. DoneIsDurable'
  <2> SUFFICES ASSUME NEW t \in Tasks, sub'[t] = "done"
               PROVE  landed'[t].work \subseteq AtOrigin'
    BY DEF DoneIsDurable
  <2>1. CASE AtOrigin \subseteq AtOrigin'
    <3>1. CASE sub[t] = "done" /\ landed'[t] = landed[t]
      BY <1>2, <2>1, <3>1
    <3>2. CASE pc \in {"complete", "salvaged", "replay"} /\ landed'[t] = local
      BY <1>2, <2>1, <3>2 DEF Pushed
    <3> QED
      BY <1>4, <3>1, <3>2
  <2>2. CASE remote' = local /\ Carries
    BY <1>2, <1>3, <1>4, <1>5, <2>2 DEF CompleteIn
  <2>3. CASE Adopt
    BY <1>2, <1>3, <1>4, <1>5, <1>6, <2>3 DEF CompleteIn
  <2>4. CASE Discards
    <3>1. sub[t] = "done" /\ landed'[t] = landed[t]
      BY <1>4, <1>7, <2>4
    <3>2. CASE remote' = me.preFix
      BY <1>2, <1>3, <1>5, <1>7, <2>4, <3>1, <3>2 DEF CompleteIn
    <3> QED
      BY <1>7, <2>1, <2>4, <3>2 DEF AtOrigin
  <2> QED
    BY OriginStep, <2>1, <2>2, <2>3, <2>4
<1>9. (pc = "idle" => local = Base)'
  <2>1. CASE ReconcileResume \/ Adopt \/ AdoptFails
    BY <2>1, Leads DEF ReconcileResume, Adopt, AdoptFails, TypedInv, WorkTypeOK
  <2> QED
    BY LocalStep, <1>2, <1>7, <2>1
<1>10. (phase = "none" =>
          /\ \A t \in Tasks : sub[t] # "done"
          /\ pc \in {"idle", "reconcile", "enter", "park", "release"})'
  BY PhaseStep, <1>2, <1>4
<1>11. (Carries => CompleteIn(local.work))'
  <2> SUFFICES ASSUME Carries', NEW t \in Tasks, sub'[t] = "done"
               PROVE  landed'[t].work \subseteq local'.work
    BY DEF CompleteIn
  <2>1. CASE ReconcileFresh /\ phase = "none"
    BY <2>1, <1>2, <1>4
  <2>2. CASE ReconcileResume
    <3>1. local' = Adopted /\ pc = "reconcile"
      BY <2>2 DEF ReconcileResume
    <3>2. AtOrigin \subseteq local'.work
      BY <3>1 DEF Adopted, AtOrigin
    <3> QED
      BY <1>2, <1>4, <3>1, <3>2
  <2>3. CASE Adopt
    BY <1>2, <1>4, <1>6, <2>3 DEF CompleteIn
  <2>4. ~AdoptFails /\ ~(pc' = "idle")
    BY Leads DEF Carries, AdoptFails, TypedInv, WorkTypeOK
  <2>5. CASE Carries /\ local.work \subseteq local'.work
    BY <1>2, <1>4, <2>5 DEF CompleteIn
  <2>6. CASE Discards
    BY <1>2, <1>4, <1>7, <2>6 DEF CompleteIn
  <2> QED
    BY LocalStep, ArrivesStep, <2>1, <2>2, <2>3, <2>4, <2>5, <2>6
<1>12. (Racers => \A i \in Candidates : CompleteIn(cands[i].work.work))'
  <2> SUFFICES ASSUME Racers', NEW i \in Candidates', NEW t \in Tasks, sub'[t] = "done"
               PROVE  landed'[t].work \subseteq cands'[i].work.work
    BY DEF CompleteIn
  <2>1. CASE Racers /\ i \in Candidates /\ cands[i].work.work \subseteq cands'[i].work.work
    BY <1>2, <1>4, <2>1 DEF CompleteIn, Racers
  <2>2. CASE pc = "execute" /\ cands'[i].work = local
    BY <1>2, <1>4, <2>2 DEF CompleteIn, Carries
  <2>3. cands' # << >>
    BY DEF Candidates
  <2> QED
    BY RaceWorkStep, <2>1, <2>2, <2>3 DEF Descends
<1>13. (Pushed => local.work \subseteq AtOrigin)'
  <2> SUFFICES ASSUME Pushed' PROVE local'.work \subseteq AtOrigin'
    OBVIOUS
  <2>1. CASE Pushed /\ local' = local
    BY OriginStep, <1>2, <1>3, <1>5, <1>6, <1>7, <2>1 DEF Pushed
  <2>2. CASE local' = remote'
    BY <1>3, <1>5, <2>2
  <2>3. CASE pc = "idle" /\ local' = local
    BY <1>2, <2>3 DEF Base
  <2> QED
    BY PushedStep, <1>1, <2>1, <2>2, <2>3
<1>14. (pc = "reviewing" /\ me.preFix # None => CompleteIn(me.preFix.work))'
  <2> SUFFICES ASSUME pc' = "reviewing", me'.preFix # None, NEW t \in Tasks, sub'[t] = "done"
               PROVE  landed'[t].work \subseteq me'.preFix.work
    BY DEF CompleteIn
  <2>1. CASE pc = "review" /\ me'.preFix = me.preFix
    BY <2>1 DEF FixInv, Unfixed, Carries
  <2>2. CASE pc = "reviewing" /\ me'.preFix \in {me.preFix, local}
    BY <1>2, <1>4, <2>2 DEF CompleteIn, Carries
  <2> QED
    BY ReviewStep, <2>1, <2>2
<1> QED
  BY <1>8, <1>9, <1>10, <1>11, <1>12, <1>13, <1>14

LEMMA DurableInit == Init => DurableInv
<1> SUFFICES ASSUME Init PROVE DurableInv
  OBVIOUS
<1>1. \A t \in Tasks : sub[t] # "done"
  BY DEF Init
<1> QED
  BY <1>1 DEF Init, DurableInv, DoneIsDurable, Carries, Racers, Pushed

(* What a completed subtask was completed on is at the origin and stays       *)
(* there, through crashes, resumed runs, races and rewrites, unless a coder   *)
(* committed by itself (execute.go, executeClaimedWith; judge.go, adoption;   *)
(* integrate.go). *)
THEOREM CompletedIsPushed == Spec => []DoneIsDurable
<1>1. DurableInv => DoneIsDurable
  BY DEF DurableInv, DoneIsDurable
<1> QED
  BY TypedInit, RaceInit, FixInit, DurableInit, TypedStep, RaceInvStep, FixStep, DurableStep,
     <1>1, PTL
     DEF Spec

-----------------------------------------------------------------------------
(* Good trees. *)

LEMMA MemoryLeads ==
    ASSUME me \in Memory
    PROVE  /\ \A w : Exit(w) => /\ me'.tool = me.tool /\ me'.revising = me.revising
                                /\ me'.tip = me.tip /\ me'.pushed = me.pushed
           /\ \A w : Abort(w) => /\ me'.tool = me.tool /\ me'.revising = me.revising
                                 /\ me'.tip = me.tip /\ me'.pushed = me.pushed
           /\ \A w : Leaves(w) => /\ me'.tool = me.tool /\ me'.revising = me.revising
                                  /\ me'.tip = me.tip /\ me'.pushed = me.pushed
           /\ \A p : Proceed(p) => /\ me'.tool = me.tool /\ me'.revising = me.revising
                                   /\ me'.tip = me.tip /\ me'.pushed = me.pushed
           /\ Idle => /\ me'.tool = None /\ me'.revising = FALSE
                      /\ me'.tip = None /\ me'.pushed = FALSE
<1>1. ASSUME NEW w, Exit(w)
      PROVE  /\ me'.tool = me.tool /\ me'.revising = me.revising
             /\ me'.tip = me.tip /\ me'.pushed = me.pushed
  BY <1>1 DEF Exit, Memory
<1>2. ASSUME NEW p, Proceed(p)
      PROVE  /\ me'.tool = me.tool /\ me'.revising = me.revising
             /\ me'.tip = me.tip /\ me'.pushed = me.pushed
  BY <1>2 DEF Proceed, Memory
<1> QED
  BY <1>1, <1>2 DEF Abort, Leaves, Idle, Fresh

LEMMA ToolStep ==
    ASSUME TypedInv, [Next]_vars
    PROVE  \/ me'.tool = me.tool \/ me'.tool = None
           \/ me'.tool = Identity /\ TreeIsGood
<1> DEFINE I == \/ me'.tool = me.tool \/ me'.tool = None
                \/ me'.tool = Identity /\ TreeIsGood
<1> SUFFICES I
  OBVIOUS
<1>1. CASE UNCHANGED me
  BY <1>1
<1>2. me \in Memory
  BY DEF TypedInv, WorkTypeOK
<1>3. CASE Boot
  BY <1>3, <1>1, <1>2, MemoryLeads
     DEF Boot, Recovered, Memory, Fresh
<1>4. CASE ReconcileFresh
  BY <1>4, <1>1, <1>2, MemoryLeads
     DEF ReconcileFresh, Memory
<1>5. CASE ReconcileResume
  BY <1>5, <1>1, <1>2, MemoryLeads
     DEF ReconcileResume, Adopted, Memory
<1>6. CASE Draft
  BY <1>6, <1>1, <1>2, MemoryLeads
     DEF Draft, Drafted, Plans, MobDrafts, SoloDrafts, Stays, Memory
<1>7. CASE Diagnose(ReselectCap)
  BY <1>7, <1>1, <1>2, MemoryLeads
     DEF Diagnose, Stays, Memory
<1>8. CASE CreateSubtask
  BY <1>8, <1>1, <1>2, MemoryLeads
     DEF CreateSubtask, ToCreate, Memory
<1>9. CASE Claim
  BY <1>9, <1>1, <1>2, MemoryLeads
     DEF Claim, Solo, Open, Kept, Tree, History, Memory
<1>10. CASE Measures
  BY <1>10, <1>1, <1>2, MemoryLeads
     DEF Measures, Kept, Board, Tree, History, Memory
<1>11. CASE Reselects
  BY <1>11, <1>1, <1>2, MemoryLeads
     DEF Reselects, Kept, Board, Tree, History, Memory
<1>12. CASE Gate
  BY <1>12, <1>1, <1>2, MemoryLeads
     DEF Gate, Kept, Board, Tree, History, Memory
<1>13. CASE Regate
  BY <1>13, <1>1, <1>2, MemoryLeads
     DEF Regate, Kept, Board, Tree, History, Memory
<1>14. CASE Discuss
  BY <1>14, <1>1, <1>2, MemoryLeads
     DEF Discuss, Kept, Board, Tree, History, Memory
<1>15. CASE ReviseFails
  BY <1>15, <1>1, <1>2, MemoryLeads
     DEF ReviseFails, Discarded, Checked, Kept, Board, History, Memory
<1>16. CASE Recheck
  BY <1>16, <1>1, <1>2, MemoryLeads
     DEF Recheck, Discarded, Checked, Revised, Kept, Board, History, Memory
<1>17. CASE Push
  BY <1>17, <1>1, <1>2, MemoryLeads
     DEF Push, Kept, Board, History, Memory
<1>18. CASE Complete
  BY <1>18, <1>1, <1>2, MemoryLeads
     DEF Complete, Kept, Tree, Memory
<1>19. CASE Authority
  BY <1>19, <1>1, <1>2, MemoryLeads
     DEF Authority, Kept, Board, History, Memory
<1>20. CASE Salvaged
  BY <1>20, <1>1, <1>2, MemoryLeads
     DEF Salvaged, Kept, Tree, Memory
<1>21. CASE JudgeChooses
  BY <1>21, <1>1, <1>2, MemoryLeads
     DEF JudgeChooses, Judging, Memory
<1>22. CASE Adopt
  BY <1>22, <1>1, <1>2, MemoryLeads
     DEF Adopt, Memory
<1>23. CASE Replay
  BY <1>23, <1>1, <1>2, MemoryLeads
     DEF Replay, ToReplay, Open, Memory
<1>24. CASE DocumentPushes
  BY <1>24, <1>1, <1>2, MemoryLeads
     DEF DocumentPushes, Rests, Memory
<1>25. CASE ReadsTip
  BY <1>25, <1>1, <1>2, MemoryLeads
     DEF ReadsTip, Rests, Tree, Memory
<1>26. CASE Fixes
  BY <1>26, <1>1, <1>2, MemoryLeads
     DEF Fixes, Rests, Memory
<1>27. ASSUME NEW i \in Candidates, CandidateClaims(i)
      PROVE  I
  BY <1>27, <1>1, <1>2, MemoryLeads
     DEF CandidateClaims, Steps, Memory
<1>28. ASSUME NEW i \in Candidates, CandidateReselects(i)
      PROVE  I
  BY <1>28, <1>1, <1>2, MemoryLeads
     DEF CandidateReselects, Drops, Steps, Memory
<1>29. CASE BootFails \/ ReconcileFails \/ Enter \/ EnterFails \/ ReenterReview \/ Park
         \/ Release \/ Crash
         \/ Sweep
  BY <1>1, <1>2, MemoryLeads, <1>29
     DEF BootFails, ReconcileFails, Enter, Late, Resumed, EnterFails, ReenterReview, Park,
         Saved, Release,
         Crash, Sweep
<1>30. CASE HumanPushes \/ DraftFails \/ Approve \/ Adjust \/ ApproveFails \/ Split
         \/ NoSplit \/ SplitFails
  BY <1>1, <1>2, MemoryLeads, <1>30
     DEF HumanPushes, DraftFails, Stays, Approve, Adjust, Reply, ApproveFails, Split,
         NoSplit, SplitFails
<1>31. CASE Note \/ CreateFails \/ Planned \/ ClaimFails \/ Executed \/ Writes
         \/ CommitsItself \/ Finishes
  BY <1>1, <1>2, MemoryLeads, <1>31
     DEF Note, Stays, CreateFails, Planned, ClaimFails, Solo, Kept, Board, Tree, History,
         Executed, Writes, CommitsItself, Finishes
<1>32. CASE CoderFails \/ Fix \/ CommitWork \/ CommitNothing \/ CommitFails \/ PushFails
         \/ CompleteFails \/ SalvageNothing
  BY <1>1, <1>2, MemoryLeads, <1>32
     DEF CoderFails, NoCoder, Kept, Board, Tree, History, Fix, CommitWork, CommitNothing,
         CommitFails, PushFails, CompleteFails, SalvageNothing
<1>33. CASE Salvage \/ StoppedAtWork \/ Race \/ RaceFails \/ RaceSkipped \/ Join
         \/ RaceStopped \/ NothingToJudge
  BY <1>1, <1>2, MemoryLeads, <1>33
     DEF Salvage, Kept, Board, History, StoppedAtWork, Tree, Race, RaceFails, RaceSkipped,
         Join, Returned, RaceStopped, Leaves, NothingToJudge
<1>34. CASE JudgeVerifies \/ NobodyToJudge \/ JudgeFails \/ AdoptFails \/ Replayed
         \/ Document \/ DocumentBroke \/ StartReview
  BY <1>1, <1>2, MemoryLeads, <1>34
     DEF JudgeVerifies, Steps, NobodyToJudge, Judging, Returned, JudgeFails, AdoptFails,
         Replayed, Document, Undone, Rests, DocumentBroke, Tree, StartReview
<1>35. CASE StartReviewFails \/ Discards \/ Approved \/ Parks \/ PhaseFails \/ Rebase
         \/ IntegrateFails \/ LeasePush
  BY <1>1, <1>2, MemoryLeads, <1>35
     DEF StartReviewFails, Rests, Tree, Discards, Approved, Parks, ParkedForPeople,
         PhaseFails, Rebase, Rebased, SquashedOnConflict, IntegrateFails, LeasePush
<1>36. CASE LeaseFails \/ OpensPull \/ GatesPass \/ Done \/ Stopped
  BY <1>1, <1>2, MemoryLeads, <1>36
     DEF LeaseFails, Rests, Tree, OpensPull, GatesPass, Done, Stopped
<1>37. ASSUME NEW t \in Tasks, Cancel(t)
      PROVE  I
  BY <1>1, <1>2, MemoryLeads, <1>37
     DEF Cancel
<1>38. ASSUME NEW i \in Candidates, CandidateBroke(i)
      PROVE  I
  BY <1>1, <1>2, MemoryLeads, <1>38
     DEF CandidateBroke, Drops, Steps
<1>39. ASSUME NEW i \in Candidates, CandidateWorks(i)
      PROVE  I
  BY <1>1, <1>2, MemoryLeads, <1>39
     DEF CandidateWorks, Passed, Rest, Steps
<1>40. ASSUME NEW i \in Candidates, CandidateCapped(i)
      PROVE  I
  BY <1>1, <1>2, MemoryLeads, <1>40
     DEF CandidateCapped, CapSaves, Drops, Steps
<1> QED
  BY <1>1, <1>3, <1>4, <1>5, <1>6, <1>7, <1>8, <1>9, <1>10, <1>11, <1>12, <1>13, <1>14,
     <1>15, <1>16, <1>17, <1>18, <1>19, <1>20, <1>21, <1>22, <1>23, <1>24, <1>25, <1>26,
     <1>27, <1>28, <1>29, <1>30, <1>31, <1>32, <1>33, <1>34, <1>35, <1>36, <1>37, <1>38,
     <1>39, <1>40
     DEF Next, RunNext, PlanNext, ExecuteNext, FanoutNext

LEMMA RevisingStep ==
    ASSUME TypedInv, [Next]_vars, Revising
    PROVE  Revising'
<1> USE DEF Revising
<1> DEFINE I == Revising'
<1> SUFFICES I
  OBVIOUS
<1>1. CASE UNCHANGED <<pc, me>>
  BY <1>1
<1>2. me \in Memory
  BY DEF TypedInv, WorkTypeOK
<1>3. CASE Boot
  BY <1>3, <1>1, <1>2, MemoryLeads, Leads
     DEF Boot, Recovered, Memory, Fresh
<1>4. CASE ReconcileFresh
  BY <1>4, <1>1, <1>2, MemoryLeads, Leads
     DEF ReconcileFresh, Memory
<1>5. CASE ReconcileResume
  BY <1>5, <1>1, <1>2, MemoryLeads, Leads
     DEF ReconcileResume, Adopted, Memory
<1>6. CASE Draft
  BY <1>6, <1>1, <1>2, MemoryLeads, Leads
     DEF Draft, Drafted, Plans, MobDrafts, SoloDrafts, Stays, Memory
<1>7. CASE Diagnose(ReselectCap)
  BY <1>7, <1>1, <1>2, MemoryLeads, Leads
     DEF Diagnose, Stays, Memory
<1>8. CASE CreateSubtask
  BY <1>8, <1>1, <1>2, MemoryLeads, Leads
     DEF CreateSubtask, ToCreate, Memory
<1>9. CASE Claim
  BY <1>9, <1>1, <1>2, MemoryLeads, Leads
     DEF Claim, Solo, Open, Kept, Tree, History, Memory
<1>10. CASE Measures
  BY <1>10, <1>1, <1>2, MemoryLeads, Leads
     DEF Measures, Kept, Board, Tree, History, Memory
<1>11. CASE Reselects
  BY <1>11, <1>1, <1>2, MemoryLeads, Leads
     DEF Reselects, Kept, Board, Tree, History, Memory
<1>12. CASE Gate
  BY <1>12, <1>1, <1>2, MemoryLeads, Leads
     DEF Gate, Kept, Board, Tree, History, Memory
<1>13. CASE Regate
  BY <1>13, <1>1, <1>2, MemoryLeads, Leads
     DEF Regate, Kept, Board, Tree, History, Memory
<1>14. CASE Discuss
  BY <1>14, <1>1, <1>2, MemoryLeads, Leads
     DEF Discuss, Kept, Board, Tree, History, Memory
<1>15. CASE ReviseFails
  BY <1>15, <1>1, <1>2, MemoryLeads, Leads
     DEF ReviseFails, Discarded, Checked, Kept, Board, History, Memory
<1>16. CASE Recheck
  <2>1. PICK v \in GateSays : Checked \/ Revised(v)
    BY <1>16 DEF Recheck
  <2>2. me'.revising = FALSE
    BY <2>1, <1>2 DEF Checked, Revised, Memory
  <2> QED
    BY <2>2
<1>17. CASE Push
  BY <1>17, <1>1, <1>2, MemoryLeads, Leads
     DEF Push, Kept, Board, History, Memory
<1>18. CASE Complete
  BY <1>18, <1>1, <1>2, MemoryLeads, Leads
     DEF Complete, Kept, Tree, Memory
<1>19. CASE Authority
  BY <1>19, <1>1, <1>2, MemoryLeads, Leads
     DEF Authority, Kept, Board, History, Memory
<1>20. CASE Salvaged
  BY <1>20, <1>1, <1>2, MemoryLeads, Leads
     DEF Salvaged, Kept, Tree, Memory
<1>21. CASE JudgeChooses
  BY <1>21, <1>1, <1>2, MemoryLeads, Leads
     DEF JudgeChooses, Judging, Memory
<1>22. CASE Adopt
  BY <1>22, <1>1, <1>2, MemoryLeads, Leads
     DEF Adopt, Memory
<1>23. CASE Replay
  BY <1>23, <1>1, <1>2, MemoryLeads, Leads
     DEF Replay, ToReplay, Open, Memory
<1>24. CASE DocumentPushes
  BY <1>24, <1>1, <1>2, MemoryLeads, Leads
     DEF DocumentPushes, Rests, Memory
<1>25. CASE ReadsTip
  BY <1>25, <1>1, <1>2, MemoryLeads, Leads
     DEF ReadsTip, Rests, Tree, Memory
<1>26. CASE Fixes
  BY <1>26, <1>1, <1>2, MemoryLeads, Leads
     DEF Fixes, Rests, Memory
<1>27. ASSUME NEW i \in Candidates, CandidateClaims(i)
      PROVE  I
  BY <1>27, <1>1, <1>2, MemoryLeads, Leads
     DEF CandidateClaims, Steps, Memory
<1>28. ASSUME NEW i \in Candidates, CandidateReselects(i)
      PROVE  I
  BY <1>28, <1>1, <1>2, MemoryLeads, Leads
     DEF CandidateReselects, Drops, Steps, Memory
<1>29. CASE Enter
  BY <1>29, <1>2
     DEF Enter, Late, Resumed
<1>30. CASE BootFails \/ ReconcileFails \/ EnterFails \/ ReenterReview \/ Park
         \/ Release \/ Crash \/ Sweep
         \/ HumanPushes
  BY <1>1, <1>2, MemoryLeads, Leads, <1>30
     DEF BootFails, ReconcileFails, EnterFails, ReenterReview, Park, Saved, Release, Crash,
         Sweep,
         HumanPushes
<1>31. CASE DraftFails \/ Approve \/ Adjust \/ ApproveFails \/ Split \/ NoSplit
         \/ SplitFails \/ Note
  BY <1>1, <1>2, MemoryLeads, Leads, <1>31
     DEF DraftFails, Stays, Approve, Adjust, Reply, ApproveFails, Split, NoSplit,
         SplitFails, Note
<1>32. CASE CreateFails \/ Planned \/ ClaimFails \/ Executed \/ Writes \/ CommitsItself
         \/ Finishes \/ CoderFails
  BY <1>1, <1>2, MemoryLeads, Leads, <1>32
     DEF CreateFails, Stays, Planned, ClaimFails, Solo, Kept, Board, Tree, History,
         Executed, Writes, CommitsItself, Finishes, CoderFails, NoCoder
<1>33. CASE Fix \/ CommitWork \/ CommitNothing \/ CommitFails \/ PushFails
         \/ CompleteFails \/ SalvageNothing \/ Salvage
  BY <1>1, <1>2, MemoryLeads, Leads, <1>33
     DEF Fix, Kept, Board, History, CommitWork, CommitNothing, Tree, CommitFails, PushFails,
         CompleteFails, SalvageNothing, Salvage
<1>34. CASE StoppedAtWork \/ Race \/ RaceFails \/ RaceSkipped \/ Join \/ RaceStopped
         \/ NothingToJudge \/ JudgeVerifies
  BY <1>1, <1>2, MemoryLeads, Leads, <1>34
     DEF StoppedAtWork, Kept, Tree, History, Race, RaceFails, RaceSkipped, Join, Returned,
         RaceStopped, Leaves, NothingToJudge, JudgeVerifies, Steps
<1>35. CASE NobodyToJudge \/ JudgeFails \/ AdoptFails \/ Replayed \/ Document
         \/ DocumentBroke \/ StartReview \/ StartReviewFails
  BY <1>1, <1>2, MemoryLeads, Leads, <1>35
     DEF NobodyToJudge, Judging, Returned, JudgeFails, AdoptFails, Replayed, Document,
         Undone, Rests, DocumentBroke, Tree, StartReview, StartReviewFails
<1>36. CASE Discards \/ Approved \/ Parks \/ PhaseFails \/ Rebase \/ IntegrateFails
         \/ LeasePush \/ LeaseFails
  BY <1>1, <1>2, MemoryLeads, Leads, <1>36
     DEF Discards, Rests, Approved, Tree, Parks, ParkedForPeople, PhaseFails, Rebase,
         Rebased, SquashedOnConflict, IntegrateFails, LeasePush, LeaseFails
<1>37. CASE OpensPull \/ GatesPass \/ Done \/ Stopped
  BY <1>1, <1>2, MemoryLeads, Leads, <1>37
     DEF OpensPull, Rests, Tree, GatesPass, Done, Stopped
<1>38. ASSUME NEW t \in Tasks, Cancel(t)
      PROVE  I
  BY <1>1, <1>2, MemoryLeads, Leads, <1>38
     DEF Cancel
<1>39. ASSUME NEW i \in Candidates, CandidateBroke(i)
      PROVE  I
  BY <1>1, <1>2, MemoryLeads, Leads, <1>39
     DEF CandidateBroke, Drops, Steps
<1>40. ASSUME NEW i \in Candidates, CandidateWorks(i)
      PROVE  I
  BY <1>1, <1>2, MemoryLeads, Leads, <1>40
     DEF CandidateWorks, Passed, Rest, Steps
<1>41. ASSUME NEW i \in Candidates, CandidateCapped(i)
      PROVE  I
  BY <1>1, <1>2, MemoryLeads, Leads, <1>41
     DEF CandidateCapped, CapSaves, Drops, Steps
<1> QED
  BY <1>1, <1>3, <1>4, <1>5, <1>6, <1>7, <1>8, <1>9, <1>10, <1>11, <1>12, <1>13, <1>14,
     <1>15, <1>16, <1>17, <1>18, <1>19, <1>20, <1>21, <1>22, <1>23, <1>24, <1>25, <1>26,
     <1>27, <1>28, <1>29, <1>30, <1>31, <1>32, <1>33, <1>34, <1>35, <1>36, <1>37, <1>38,
     <1>39, <1>40, <1>41
     DEF Next, RunNext, PlanNext, ExecuteNext, FanoutNext

LEMMA GoodAtStep ==
    ASSUME TypedInv, [Next]_vars, tc.verify, ~Fault("inconclusive"), ~CommitsItself,
           Alone, ToolIsGood, Revising, GoodAt
    PROVE  GoodAt'
<1> DEFINE I == GoodAt'
<1> SUFFICES I
  OBVIOUS
<1> USE DEF GoodAt
<1>1. CASE UNCHANGED <<pc, local, dirty, me>>
  BY <1>1 DEF TreeIsGood, Uncommitted
<1>2. me \in Memory /\ local \in Branches /\ pc \notin {"race", "adopt", "replay"}
      /\ (pc = "execute" => ~me.revising)
  BY DEF TypedInv, WorkTypeOK, TreeTypeOK, Alone, Revising
<1>3. \A t, g : Commit(local, t, g).good = g
  BY <1>2 DEF Commit, Branches
<1>4. me.tool = Identity => TreeIsGood
  BY DEF ToolIsGood, Identity, Identities, TreeIsGood, Uncommitted, TypedInv, WorkTypeOK,
     TreeTypeOK
<1>5. \A v \in Verdicts : v # "failed" => v = "passed" /\ TreeIsGood
  BY DEF Verdicts, Classified
<1>6. \A v \in GateSays : v # "failed" => v = "passed" /\ TreeIsGood
  BY <1>4, <1>5 DEF GateSays, Resolved, Accepts
<1>7. CASE Claim
  <2>1. pc = "execute" /\ pc' = "code"
    BY <1>7 DEF Claim, Solo
  <2>2. PICK b : me' = [me EXCEPT !.at = NextTask, !.before = b, !.tool = None,
                                  !.verified = FALSE]
    BY <1>7 DEF Claim
  <2>3. me'.revising = me.revising
    BY <1>2, <2>2 DEF Memory
  <2> QED
    BY <1>2, <2>1, <2>3
<1>8. CASE Recheck
  <2>1. pc = "recheck" /\ local.good /\ pc' = "push"
    BY <1>8 DEF Recheck, Revised, Checked
  <2>2. local'.good
        <3>1. PICK v \in GateSays : \/ local' = local
                                \/ /\ v # "failed" /\ Uncommitted
                                   /\ local' = Commit(local, me.at, dirty = "good")
      BY <1>8 DEF Recheck, Revised
    <3> QED
      BY <1>3, <1>6, <2>1, <3>1 DEF TreeIsGood
  <2> QED
    BY <2>1, <2>2
<1>9. CASE CommitsItself
  BY <1>9
<1>10. CASE CommitWork
  <2>1. /\ pc = "commit" /\ dirty # "none" /\ pc' \in {"discuss", "push"}
        /\ local' = Commit(local, me.at, dirty = "good") /\ me' = me
    BY <1>10 DEF CommitWork, Uncommitted
  <2>2. dirty = "good"
    BY <2>1 DEF TreeIsGood, Uncommitted
  <2>3. local'.good
    BY <1>3, <2>1, <2>2
  <2> QED
    BY <2>1, <2>3
<1>11. CASE Writes
  BY <1>11, <1>2, <1>3, <1>5, <1>6, Leads, MemoryLeads
     DEF Writes, Kept, Board, History, TreeIsGood, Uncommitted
<1>12. CASE Measures
  BY <1>12, <1>2, <1>3, <1>5, <1>6, Leads, MemoryLeads
     DEF Measures, Identity, Kept, Board, Tree, History, TreeIsGood, Uncommitted, Memory
<1>13. CASE Finishes
  BY <1>13, <1>2, <1>3, <1>5, <1>6, Leads, MemoryLeads
     DEF Finishes, Kept, Board, Tree, History, TreeIsGood, Uncommitted
<1>14. CASE Reselects
  BY <1>14, <1>2, <1>3, <1>5, <1>6, Leads, MemoryLeads
     DEF Reselects, Kept, Board, Tree, History, TreeIsGood, Uncommitted, Memory
<1>15. CASE CoderFails
  BY <1>15, <1>2, <1>3, <1>5, <1>6, Leads, MemoryLeads
     DEF CoderFails, NoCoder, Kept, Board, Tree, History, TreeIsGood, Uncommitted
<1>16. CASE Gate
  BY <1>16, <1>2, <1>3, <1>5, <1>6, Leads, MemoryLeads
     DEF Gate, Kept, Board, Tree, History, TreeIsGood, Uncommitted, Memory
<1>17. CASE Fix
  BY <1>17, <1>2, <1>3, <1>5, <1>6, Leads, MemoryLeads
     DEF Fix, Kept, Board, History, TreeIsGood, Uncommitted
<1>18. CASE Regate
  BY <1>18, <1>2, <1>3, <1>5, <1>6, Leads, MemoryLeads
     DEF Regate, Kept, Board, Tree, History, TreeIsGood, Uncommitted, Memory
<1>19. CASE CommitNothing
  BY <1>19, <1>2, <1>3, <1>5, <1>6, Leads, MemoryLeads
     DEF CommitNothing, Kept, Board, Tree, History, TreeIsGood, Uncommitted
<1>20. CASE Discuss
  BY <1>20, <1>2, <1>3, <1>5, <1>6, Leads, MemoryLeads
     DEF Discuss, Kept, Board, Tree, History, TreeIsGood, Uncommitted, Memory
<1>21. CASE ReviseFails
  BY <1>21, <1>2, <1>3, <1>5, <1>6, Leads, MemoryLeads
     DEF ReviseFails, Discarded, Checked, Kept, Board, History, TreeIsGood, Uncommitted,
         Memory
<1>22. CASE Push
  BY <1>22, <1>2, <1>3, <1>5, <1>6, Leads, MemoryLeads
     DEF Push, Kept, Board, History, TreeIsGood, Uncommitted, Memory
<1>23. CASE Complete
  BY <1>23, <1>2, <1>3, <1>5, <1>6, Leads, MemoryLeads
     DEF Complete, Kept, Tree, TreeIsGood, Uncommitted, Memory
<1>24. CASE Salvage
  BY <1>24, <1>2, <1>3, <1>5, <1>6, Leads, MemoryLeads
     DEF Salvage, Kept, Board, History, TreeIsGood, Uncommitted
<1>25. CASE Authority
  BY <1>25, <1>2, <1>3, <1>5, <1>6, Leads, MemoryLeads
     DEF Authority, Kept, Board, History, TreeIsGood, Uncommitted, Memory
<1>26. CASE Salvaged
  BY <1>26, <1>2, <1>3, <1>5, <1>6, Leads, MemoryLeads
     DEF Salvaged, Kept, Tree, TreeIsGood, Uncommitted, Memory
<1>27. CASE Enter
  BY <1>27, <1>2, MemoryHas, NamesAre
     DEF Enter, Late, Resumed, TreeIsGood, Uncommitted
<1>28. CASE Boot \/ BootFails \/ ReconcileFresh \/ ReconcileResume \/ ReconcileFails
         \/ EnterFails \/ ReenterReview
  BY <1>1, <1>2, <1>3, <1>5, <1>6, Leads, MemoryLeads, <1>28
     DEF Boot, Recovered, BootFails, ReconcileFresh, ReconcileResume, Adopted,
         ReconcileFails, EnterFails, ReenterReview, TreeIsGood, Uncommitted
<1>29. CASE Park \/ Release \/ Crash \/ Sweep \/ HumanPushes \/ Draft
  BY <1>1, <1>2, <1>3, <1>5, <1>6, Leads, MemoryLeads, <1>29
     DEF Park, Saved, Release, Crash, Sweep, HumanPushes, Draft, Drafted, Plans, MobDrafts,
         SoloDrafts, Stays, TreeIsGood, Uncommitted
<1>30. CASE Diagnose(ReselectCap) \/ DraftFails \/ Approve \/ Adjust \/ ApproveFails
         \/ Split
  BY <1>1, <1>2, <1>3, <1>5, <1>6, Leads, MemoryLeads, <1>30
     DEF Diagnose, Stays, DraftFails, Approve, Adjust, Reply, ApproveFails, Split,
         TreeIsGood, Uncommitted
<1>31. CASE NoSplit \/ SplitFails \/ Note \/ CreateSubtask \/ CreateFails \/ Planned
  BY <1>1, <1>2, <1>3, <1>5, <1>6, Leads, MemoryLeads, <1>31
     DEF NoSplit, Stays, SplitFails, Note, CreateSubtask, ToCreate, CreateFails, Planned,
         TreeIsGood, Uncommitted
<1>32. CASE ClaimFails \/ Executed \/ CommitFails \/ PushFails \/ CompleteFails
         \/ SalvageNothing
  BY <1>1, <1>2, <1>3, <1>5, <1>6, Leads, MemoryLeads, <1>32
     DEF ClaimFails, Solo, Kept, Board, Tree, History, Executed, CommitFails, PushFails,
         CompleteFails, SalvageNothing, TreeIsGood, Uncommitted
<1>33. CASE StoppedAtWork \/ Race \/ RaceFails \/ RaceSkipped \/ Join \/ RaceStopped
  BY <1>1, <1>2, <1>3, <1>5, <1>6, Leads, MemoryLeads, <1>33
     DEF StoppedAtWork, Kept, Tree, History, Race, RaceFails, RaceSkipped, Join, Returned,
         RaceStopped, Leaves, TreeIsGood, Uncommitted
<1>34. CASE NothingToJudge \/ JudgeVerifies \/ NobodyToJudge \/ JudgeChooses \/ JudgeFails
         \/ Adopt
  BY <1>1, <1>2, <1>3, <1>5, <1>6, Leads, MemoryLeads, <1>34
     DEF NothingToJudge, JudgeVerifies, Steps, NobodyToJudge, Judging, Returned,
         JudgeChooses, JudgeFails, Adopt, TreeIsGood, Uncommitted
<1>35. CASE AdoptFails \/ Replay \/ Replayed \/ Document \/ DocumentBroke
         \/ DocumentPushes
  BY <1>1, <1>2, <1>3, <1>5, <1>6, Leads, MemoryLeads, <1>35
     DEF AdoptFails, Replay, ToReplay, Open, Replayed, Document, Undone, Rests,
         DocumentBroke, Tree, DocumentPushes, TreeIsGood, Uncommitted
<1>36. CASE StartReview \/ StartReviewFails \/ Fixes \/ Discards \/ Approved \/ Parks
  BY <1>1, <1>2, <1>3, <1>5, <1>6, Leads, MemoryLeads, <1>36
     DEF StartReview, Rests, Tree, StartReviewFails, Fixes, Discards, Approved, Parks,
         ParkedForPeople, TreeIsGood, Uncommitted
<1>37. CASE PhaseFails \/ ReadsTip \/ Rebase \/ IntegrateFails \/ LeasePush \/ LeaseFails
  BY <1>1, <1>2, <1>3, <1>5, <1>6, Leads, MemoryLeads, <1>37
     DEF PhaseFails, Rests, Tree, ReadsTip, Rebase, Rebased, SquashedOnConflict,
         IntegrateFails, LeasePush, LeaseFails, TreeIsGood, Uncommitted
<1>38. CASE OpensPull \/ GatesPass \/ Done \/ Stopped
  BY <1>1, <1>2, <1>3, <1>5, <1>6, Leads, MemoryLeads, <1>38
     DEF OpensPull, Rests, Tree, GatesPass, Done, Stopped, TreeIsGood, Uncommitted
<1>39. ASSUME NEW t \in Tasks, Cancel(t)
      PROVE  I
  BY <1>1, <1>2, <1>3, <1>5, <1>6, Leads, MemoryLeads, <1>39
     DEF Cancel, TreeIsGood, Uncommitted
<1>40. ASSUME NEW i \in Candidates, CandidateClaims(i)
      PROVE  I
  BY <1>1, <1>2, <1>3, <1>5, <1>6, Leads, MemoryLeads, <1>40
     DEF CandidateClaims, Steps, TreeIsGood, Uncommitted
<1>41. ASSUME NEW i \in Candidates, CandidateBroke(i)
      PROVE  I
  BY <1>1, <1>2, <1>3, <1>5, <1>6, Leads, MemoryLeads, <1>41
     DEF CandidateBroke, Drops, Steps, TreeIsGood, Uncommitted
<1>42. ASSUME NEW i \in Candidates, CandidateWorks(i)
      PROVE  I
  BY <1>1, <1>2, <1>3, <1>5, <1>6, Leads, MemoryLeads, <1>42
     DEF CandidateWorks, Passed, Rest, Steps, TreeIsGood, Uncommitted
<1>43. ASSUME NEW i \in Candidates, CandidateCapped(i)
      PROVE  I
  BY <1>1, <1>2, <1>3, <1>5, <1>6, Leads, MemoryLeads, <1>43
     DEF CandidateCapped, CapSaves, Drops, Steps, TreeIsGood, Uncommitted
<1>44. ASSUME NEW i \in Candidates, CandidateReselects(i)
      PROVE  I
  BY <1>1, <1>2, <1>3, <1>5, <1>6, Leads, MemoryLeads, <1>44
     DEF CandidateReselects, Drops, Steps, TreeIsGood, Uncommitted
<1> QED
  BY <1>1, <1>7, <1>8, <1>9, <1>10, <1>11, <1>12, <1>13, <1>14, <1>15, <1>16, <1>17, <1>18,
     <1>19, <1>20, <1>21, <1>22, <1>23, <1>24, <1>25, <1>26, <1>27, <1>28, <1>29, <1>30,
     <1>31, <1>32, <1>33, <1>34, <1>35, <1>36, <1>37, <1>38, <1>39, <1>40, <1>41, <1>42,
     <1>43, <1>44
     DEF Next, RunNext, PlanNext, ExecuteNext, FanoutNext

LEMMA GoodStep == TypedInv /\ GoodInv /\ [Next]_vars => GoodInv'
<1> SUFFICES ASSUME TypedInv, GoodInv, [Next]_vars,
                    (tc.verify /\ ~tc.best /\ ~past.selfmade /\ ~Fault("inconclusive"))'
             PROVE  (DoneIsGood /\ Alone /\ ToolIsGood /\ GoodAt /\ Revising)'
  BY DEF GoodInv
<1>1. /\ tc.verify /\ ~tc.best /\ ~past.selfmade /\ ~Fault("inconclusive")
      /\ ~CommitsItself
  <2>1. past'.selfmade = past.selfmade \/ CommitsItself
    BY PastLeads
  <2>2. past.selfmade \in BOOLEAN
    BY DEF TypedInv, WorkTypeOK, HistoryTypeOK
  <2>3. CASE CommitsItself
    BY <2>2, <2>3 DEF CommitsItself, TypedInv, WorkTypeOK, HistoryTypeOK
  <2> QED
    BY CardKept, <2>1, <2>2, <2>3
<1>2. /\ \A t \in Tasks : sub[t] = "done" => landed[t].good
      /\ Alone /\ ToolIsGood /\ GoodAt /\ Revising
  BY <1>1 DEF GoodInv, DoneIsGood
<1>3. DoneIsGood'
  BY CompleteStep, <1>2 DEF DoneIsGood, Alone, GoodAt
<1>4. Alone'
  BY AloneStep, <1>1, <1>2
<1>5. ToolIsGood'
  BY ToolStep, <1>2 DEF ToolIsGood, TreeIsGood, Uncommitted, Identity
<1>6. GoodAt'
  BY GoodAtStep, <1>1, <1>2
<1>7. Revising'
  BY RevisingStep, <1>2
<1> QED
  BY <1>3, <1>4, <1>5, <1>6, <1>7

LEMMA GoodInit == Init => GoodInv
<1> SUFFICES ASSUME Init PROVE GoodInv
  OBVIOUS
<1>1. \A t \in Tasks : sub[t] # "done"
  BY DEF Init
<1> QED
  BY <1>1 DEF Init, GoodInv, DoneIsGood, Alone, ToolIsGood, GoodAt, Revising, Fresh

(* A subtask one coder completed landed on a tree that passes the verify      *)
(* command, whichever gate, tool, revision or salvage said so (execute.go,    *)
(* verifyGate; checkpoint.go). *)
THEOREM CompletedIsVerified == Spec => []DoneIsGood
<1>1. GoodInv => DoneIsGood
  BY DEF GoodInv, DoneIsGood
<1> QED
  BY TypedInit, GoodInit, TypedStep, GoodStep, <1>1, PTL DEF Spec

-----------------------------------------------------------------------------
(* What pushes keep. *)

LEMMA PushingStep ==
    ASSUME TypedInv, [Next]_vars
    PROVE  \/ remote' = remote \/ HumanPushes \/ Discards
           \/ /\ remote' = local' /\ (pc = "park" \/ Carries)
              /\ Racers' => ~Racers
              /\ \/ Takes(local')
                 \/ TakesFirst(local') /\ (Adopt \/ (local' = local /\ Carries))
                 \/ pc = "lease" /\ LeaseOK /\ local' = local
<1> DEFINE I == \/ remote' = remote \/ HumanPushes \/ Discards
                \/ /\ remote' = local' /\ (pc = "park" \/ Carries)
                   /\ Racers' => ~Racers
                   /\ \/ Takes(local')
                      \/ TakesFirst(local') /\ (Adopt \/ (local' = local /\ Carries))
                      \/ pc = "lease" /\ LeaseOK /\ local' = local
<1> SUFFICES I
  OBVIOUS
<1>1. CASE UNCHANGED remote
  BY <1>1
<1>2. me \in Memory
  BY DEF TypedInv, WorkTypeOK
<1>3. CASE Push
  BY <1>3, <1>2, Leads
     DEF Push, Kept, Board, History, Carries, Racers
<1>4. CASE Authority
  BY <1>4, <1>2, Leads
     DEF Authority, Kept, Board, History, Carries, Racers
<1>5. CASE DocumentPushes
  BY <1>5, <1>2, Leads
     DEF DocumentPushes, Rests, Carries, Racers
<1>6. CASE Fixes
  BY <1>6, <1>2, Leads
     DEF Fixes, Rests, Carries, Racers
<1>7. CASE LeasePush
  BY <1>7, <1>2, Leads
     DEF LeasePush, Rests, Carries, Racers
<1>8. CASE Adopt
  BY <1>8, <1>2, Leads
     DEF Adopt, Carries, Racers
<1>9. CASE Park
  BY <1>9, <1>2, Leads
     DEF Park, Saved, Carries, Racers
<1>10. CASE HumanPushes
  BY <1>10
<1>11. CASE Discards
  BY <1>11
<1>12. CASE Boot \/ BootFails \/ ReconcileFresh \/ ReconcileResume \/ ReconcileFails
         \/ Enter \/ EnterFails \/ ReenterReview \/ Release \/ Crash \/ Sweep
  BY <1>1, <1>2, <1>12
     DEF Boot, Recovered, BootFails, ReconcileFresh, ReconcileResume, Adopted,
         ReconcileFails, Enter, Late, Resumed, EnterFails, ReenterReview, Release, Crash,
         Sweep
<1>13. CASE Draft \/ Diagnose(ReselectCap) \/ DraftFails \/ Approve \/ Adjust
         \/ ApproveFails \/ Split \/ NoSplit \/ SplitFails \/ Note
  BY <1>1, <1>2, <1>13
     DEF Draft, Drafted, Plans, MobDrafts, SoloDrafts, Stays, Diagnose, DraftFails, Approve,
         Adjust, Reply, ApproveFails, Split, NoSplit, SplitFails, Note
<1>14. CASE CreateSubtask \/ CreateFails \/ Planned \/ Claim \/ ClaimFails \/ Executed
         \/ Writes \/ Measures \/ CommitsItself \/ Finishes
  BY <1>1, <1>2, <1>14
     DEF CreateSubtask, ToCreate, CreateFails, Stays, Planned, Claim, Solo, Open, Kept,
         Tree, History, ClaimFails, Board, Executed, Writes, Measures, Identity,
         CommitsItself, Finishes
<1>15. CASE Reselects \/ CoderFails \/ Gate \/ Fix \/ Regate \/ CommitWork
         \/ CommitNothing \/ CommitFails \/ Discuss \/ ReviseFails
  BY <1>1, <1>2, <1>15
     DEF Reselects, Kept, Board, Tree, History, CoderFails, NoCoder, Gate, Fix, Regate,
         CommitWork, CommitNothing, CommitFails, Discuss, ReviseFails, Discarded, Checked
<1>16. CASE Recheck \/ PushFails \/ Complete \/ CompleteFails \/ SalvageNothing \/ Salvage
         \/ Salvaged \/ StoppedAtWork \/ Race \/ RaceFails
  BY <1>1, <1>2, <1>16
     DEF Recheck, Discarded, Checked, Revised, Kept, Board, History, PushFails, Tree,
         Complete, CompleteFails, SalvageNothing, Salvage, Salvaged, StoppedAtWork, Race,
         RaceFails
<1>17. CASE RaceSkipped \/ Join \/ RaceStopped \/ NothingToJudge \/ JudgeVerifies
         \/ NobodyToJudge \/ JudgeChooses \/ JudgeFails \/ AdoptFails \/ Replay
  BY <1>1, <1>2, <1>17
     DEF RaceSkipped, Join, Returned, RaceStopped, Leaves, NothingToJudge, JudgeVerifies, Steps,
         NobodyToJudge, Judging, JudgeChooses, JudgeFails, AdoptFails, Replay, ToReplay,
         Open
<1>18. CASE Replayed \/ Document \/ DocumentBroke \/ StartReview \/ StartReviewFails
         \/ Approved \/ Parks \/ PhaseFails \/ ReadsTip \/ Rebase
  BY <1>1, <1>2, <1>18
     DEF Replayed, Document, Undone, Rests, DocumentBroke, Tree, StartReview,
         StartReviewFails, Approved, Parks, ParkedForPeople, PhaseFails, ReadsTip, Rebase,
         Rebased, SquashedOnConflict
<1>19. CASE IntegrateFails \/ LeaseFails \/ OpensPull \/ GatesPass \/ Done \/ Stopped
  BY <1>1, <1>2, <1>19
     DEF IntegrateFails, Rests, Tree, LeaseFails, OpensPull, GatesPass, Done, Stopped
<1>20. ASSUME NEW t \in Tasks, Cancel(t)
      PROVE  I
  BY <1>1, <1>2, <1>20
     DEF Cancel
<1>21. ASSUME NEW i \in Candidates, CandidateClaims(i)
      PROVE  I
  BY <1>1, <1>2, <1>21
     DEF CandidateClaims, Steps
<1>22. ASSUME NEW i \in Candidates, CandidateBroke(i)
      PROVE  I
  BY <1>1, <1>2, <1>22
     DEF CandidateBroke, Drops, Steps
<1>23. ASSUME NEW i \in Candidates, CandidateWorks(i)
      PROVE  I
  BY <1>1, <1>2, <1>23
     DEF CandidateWorks, Passed, Rest, Steps
<1>24. ASSUME NEW i \in Candidates, CandidateCapped(i)
      PROVE  I
  BY <1>1, <1>2, <1>24
     DEF CandidateCapped, CapSaves, Drops, Steps
<1>25. ASSUME NEW i \in Candidates, CandidateReselects(i)
      PROVE  I
  BY <1>1, <1>2, <1>25
     DEF CandidateReselects, Drops, Steps
<1> QED
  BY <1>1, <1>3, <1>4, <1>5, <1>6, <1>7, <1>8, <1>9, <1>10, <1>11, <1>12, <1>13, <1>14,
     <1>15, <1>16, <1>17, <1>18, <1>19, <1>20, <1>21, <1>22, <1>23, <1>24, <1>25
     DEF Next, RunNext, PlanNext, ExecuteNext, FanoutNext

LEMMA HumanLeads ==
    ASSUME remote \in Branches \cup {None}, HumanPushes
    PROVE  AtOrigin' = AtOrigin \cup {Human}
<1>1. PICK g \in BOOLEAN : remote' = [remote EXCEPT !.work = @ \cup {Human}, !.good = g]
  BY DEF HumanPushes
<1>2. remote \in Branches /\ remote # None
  BY DEF HumanPushes
<1>3. remote' \in Branches
  BY <1>1, <1>2, DataTypes
<1>4. remote'.work = remote.work \cup {Human}
  BY <1>1, <1>2 DEF Branches
<1> QED
  BY <1>2, <1>3, <1>4 DEF AtOrigin

LEMMA UntouchedStep ==
    ASSUME TypedInv, [Next]_vars, phase' = "none", local.work = {}, dirty = "none",
           pc \in {"idle", "reconcile", "enter", "park", "release"}
    PROVE  local'.work = {} /\ dirty' = "none"
<1> DEFINE I == local'.work = {} /\ dirty' = "none"
<1> SUFFICES I
  OBVIOUS
<1>0. phase = "none"
  BY PhaseStep
<1>1. CASE UNCHANGED <<local, dirty>>
  BY <1>1
<1>2. me \in Memory
  BY DEF TypedInv, WorkTypeOK
<1>3. CASE Crash
  <2>1. Idle
    BY <1>3 DEF Crash
  <2> QED
    BY <2>1, <1>2, Leads DEF Base
<1>4. CASE Park
  BY <1>4, <1>2
     DEF Park, Saved, Unsaved, Uncommitted, Unpushed
<1>5. CASE Boot \/ BootFails \/ ReconcileFresh \/ ReconcileResume
  BY <1>1, <1>0, <1>2, Leads, <1>5
     DEF Boot, Recovered, BootFails, ReconcileFresh, ReconcileResume, Adopted, Base
<1>6. CASE ReconcileFails \/ Enter \/ EnterFails \/ ReenterReview \/ Release
  BY <1>1, <1>0, <1>2, Leads, <1>6
     DEF ReconcileFails, Enter, Late, Resumed, EnterFails, ReenterReview, Release, Base
<1>7. CASE Sweep \/ HumanPushes \/ Draft \/ Diagnose(ReselectCap)
  BY <1>1, <1>0, <1>2, Leads, <1>7
     DEF Sweep, HumanPushes, Draft, Drafted, Plans, MobDrafts, SoloDrafts, Stays, Diagnose,
         Base
<1>8. CASE DraftFails \/ Approve \/ Adjust \/ ApproveFails
  BY <1>1, <1>0, <1>2, Leads, <1>8
     DEF DraftFails, Stays, Approve, Adjust, Reply, ApproveFails, Base
<1>9. CASE Split \/ NoSplit \/ SplitFails \/ Note
  BY <1>1, <1>0, <1>2, Leads, <1>9
     DEF Split, Stays, NoSplit, SplitFails, Note, Base
<1>10. CASE CreateSubtask \/ CreateFails \/ Planned \/ Claim
  BY <1>1, <1>0, <1>2, Leads, <1>10
     DEF CreateSubtask, ToCreate, CreateFails, Stays, Planned, Claim, Solo, Open, Kept,
         Tree, History, Base
<1>11. CASE ClaimFails \/ Executed \/ Writes \/ Measures
  BY <1>1, <1>0, <1>2, Leads, <1>11
     DEF ClaimFails, Solo, Kept, Board, Tree, History, Executed, Writes, Measures, Identity,
         Base
<1>12. CASE CommitsItself \/ Finishes \/ Reselects \/ CoderFails
  BY <1>1, <1>0, <1>2, Leads, <1>12
     DEF CommitsItself, Kept, Board, Finishes, Tree, History, Reselects, CoderFails,
         NoCoder, Base
<1>13. CASE Gate \/ Fix \/ Regate \/ CommitWork
  BY <1>1, <1>0, <1>2, Leads, <1>13
     DEF Gate, Kept, Board, Tree, History, Fix, Regate, CommitWork, Base
<1>14. CASE CommitNothing \/ CommitFails \/ Discuss \/ ReviseFails
  BY <1>1, <1>0, <1>2, Leads, <1>14
     DEF CommitNothing, Kept, Board, Tree, History, CommitFails, Discuss, ReviseFails,
         Discarded, Checked, Base
<1>15. CASE Recheck \/ Push \/ PushFails \/ Complete
  BY <1>1, <1>0, <1>2, Leads, <1>15
     DEF Recheck, Discarded, Checked, Revised, Kept, Board, History, Push, PushFails, Tree,
         Complete, Base
<1>16. CASE CompleteFails \/ SalvageNothing \/ Salvage \/ Authority
  BY <1>1, <1>0, <1>2, Leads, <1>16
     DEF CompleteFails, Kept, Tree, History, SalvageNothing, Salvage, Board, Authority, Base
<1>17. CASE Salvaged \/ StoppedAtWork \/ Race \/ RaceFails
  BY <1>1, <1>0, <1>2, Leads, <1>17
     DEF Salvaged, Kept, Tree, StoppedAtWork, History, Race, RaceFails, Base
<1>18. CASE RaceSkipped \/ Join \/ RaceStopped \/ NothingToJudge
  BY <1>1, <1>0, <1>2, Leads, <1>18
     DEF RaceSkipped, Join, Returned, RaceStopped, Leaves, NothingToJudge, Base
<1>19. CASE JudgeVerifies \/ NobodyToJudge \/ JudgeChooses \/ JudgeFails
  BY <1>1, <1>0, <1>2, Leads, <1>19
     DEF JudgeVerifies, Steps, NobodyToJudge, Judging, Returned, JudgeChooses, JudgeFails,
         Base
<1>20. CASE Adopt \/ AdoptFails \/ Replay \/ Replayed
  BY <1>1, <1>0, <1>2, Leads, <1>20
     DEF Adopt, AdoptFails, Replay, ToReplay, Open, Replayed, Base
<1>21. CASE Document \/ DocumentBroke \/ DocumentPushes \/ StartReview
  BY <1>1, <1>0, <1>2, Leads, <1>21
     DEF Document, Undone, Rests, DocumentBroke, Tree, DocumentPushes, StartReview, Base
<1>22. CASE StartReviewFails \/ Fixes \/ Discards \/ Approved
  BY <1>1, <1>0, <1>2, Leads, <1>22
     DEF StartReviewFails, Rests, Tree, Fixes, Discards, Approved, Base
<1>23. CASE Parks \/ PhaseFails \/ ReadsTip \/ Rebase
  BY <1>1, <1>0, <1>2, Leads, <1>23
     DEF Parks, ParkedForPeople, PhaseFails, Rests, Tree, ReadsTip, Rebase, Rebased,
         SquashedOnConflict, Base
<1>24. CASE IntegrateFails \/ LeasePush \/ LeaseFails \/ OpensPull
  BY <1>1, <1>0, <1>2, Leads, <1>24
     DEF IntegrateFails, Rests, Tree, LeasePush, LeaseFails, OpensPull, Base
<1>25. CASE GatesPass \/ Done \/ Stopped
  BY <1>1, <1>0, <1>2, Leads, <1>25
     DEF GatesPass, Rests, Tree, Done, Stopped, Base
<1>26. ASSUME NEW t \in Tasks, Cancel(t)
      PROVE  I
  BY <1>1, <1>0, <1>2, Leads, <1>26
     DEF Cancel, Base
<1>27. ASSUME NEW i \in Candidates, CandidateClaims(i)
      PROVE  I
  BY <1>1, <1>0, <1>2, Leads, <1>27
     DEF CandidateClaims, Steps, Base
<1>28. ASSUME NEW i \in Candidates, CandidateBroke(i)
      PROVE  I
  BY <1>1, <1>0, <1>2, Leads, <1>28
     DEF CandidateBroke, Drops, Steps, Base
<1>29. ASSUME NEW i \in Candidates, CandidateWorks(i)
      PROVE  I
  BY <1>1, <1>0, <1>2, Leads, <1>29
     DEF CandidateWorks, Passed, Rest, Steps, Base
<1>30. ASSUME NEW i \in Candidates, CandidateCapped(i)
      PROVE  I
  BY <1>1, <1>0, <1>2, Leads, <1>30
     DEF CandidateCapped, CapSaves, Drops, Steps, Base
<1>31. ASSUME NEW i \in Candidates, CandidateReselects(i)
      PROVE  I
  BY <1>1, <1>0, <1>2, Leads, <1>31
     DEF CandidateReselects, Drops, Steps, Base
<1> QED
  BY <1>1, <1>3, <1>4, <1>5, <1>6, <1>7, <1>8, <1>9, <1>10, <1>11, <1>12, <1>13, <1>14,
     <1>15, <1>16, <1>17, <1>18, <1>19, <1>20, <1>21, <1>22, <1>23, <1>24, <1>25, <1>26,
     <1>27, <1>28, <1>29, <1>30, <1>31
     DEF Next, RunNext, PlanNext, ExecuteNext, FanoutNext

LEMMA IdleStep ==
    ASSUME TypedInv, [Next]_vars, pc = "idle" => local = Base /\ dirty = "none"
    PROVE  (pc = "idle" => local = Base /\ dirty = "none")'
<1> DEFINE I == pc' = "idle" => local' = Base /\ dirty' = "none"
<1> SUFFICES I
  OBVIOUS
<1>1. CASE UNCHANGED <<pc, local, dirty>>
  BY <1>1
<1>2. me \in Memory
  BY DEF TypedInv, WorkTypeOK
<1>3. CASE Enter
  BY <1>3, <1>2, MemoryHas, NamesAre
     DEF Enter, Late, Resumed
<1>4. CASE Boot \/ BootFails \/ ReconcileFresh \/ ReconcileResume \/ ReconcileFails
         \/ EnterFails \/ ReenterReview \/ Park \/ Release
  BY <1>1, <1>2, Leads, <1>4
     DEF Boot, Recovered, BootFails, ReconcileFresh, ReconcileResume, Adopted,
         ReconcileFails, EnterFails, ReenterReview, Park, Saved, Release
<1>5. CASE Crash \/ Sweep \/ HumanPushes \/ Draft \/ Diagnose(ReselectCap) \/ DraftFails
         \/ Approve \/ Adjust
  BY <1>1, <1>2, Leads, <1>5
     DEF Crash, Sweep, HumanPushes, Draft, Drafted, Plans, MobDrafts, SoloDrafts, Stays,
         Diagnose, DraftFails, Approve, Adjust, Reply
<1>6. CASE ApproveFails \/ Split \/ NoSplit \/ SplitFails \/ Note \/ CreateSubtask
         \/ CreateFails \/ Planned
  BY <1>1, <1>2, Leads, <1>6
     DEF ApproveFails, Stays, Split, NoSplit, SplitFails, Note, CreateSubtask, ToCreate,
         CreateFails, Planned
<1>7. CASE Claim \/ ClaimFails \/ Executed \/ Writes \/ Measures \/ CommitsItself
         \/ Finishes \/ Reselects
  BY <1>1, <1>2, Leads, <1>7
     DEF Claim, Solo, Open, Kept, Tree, History, ClaimFails, Board, Executed, Writes,
         Measures, Identity, CommitsItself, Finishes, Reselects
<1>8. CASE CoderFails \/ Gate \/ Fix \/ Regate \/ CommitWork \/ CommitNothing
         \/ CommitFails \/ Discuss
  BY <1>1, <1>2, Leads, <1>8
     DEF CoderFails, NoCoder, Kept, Board, Tree, History, Gate, Fix, Regate, CommitWork,
         CommitNothing, CommitFails, Discuss
<1>9. CASE ReviseFails \/ Recheck \/ Push \/ PushFails \/ Complete \/ CompleteFails
         \/ SalvageNothing \/ Salvage
  BY <1>1, <1>2, Leads, <1>9
     DEF ReviseFails, Discarded, Checked, Kept, Board, History, Recheck, Revised, Push,
         PushFails, Tree, Complete, CompleteFails, SalvageNothing, Salvage
<1>10. CASE Authority \/ Salvaged \/ StoppedAtWork \/ Race \/ RaceFails \/ RaceSkipped
         \/ Join \/ RaceStopped
  BY <1>1, <1>2, Leads, <1>10
     DEF Authority, Kept, Board, History, Salvaged, Tree, StoppedAtWork, Race, RaceFails,
         RaceSkipped, Join, Returned, RaceStopped, Leaves
<1>11. CASE NothingToJudge \/ JudgeVerifies \/ NobodyToJudge \/ JudgeChooses \/ JudgeFails
         \/ Adopt \/ AdoptFails \/ Replay
  BY <1>1, <1>2, Leads, <1>11
     DEF NothingToJudge, JudgeVerifies, Steps, NobodyToJudge, Judging, Returned,
         JudgeChooses, JudgeFails, Adopt, AdoptFails, Replay, ToReplay, Open
<1>12. CASE Replayed \/ Document \/ DocumentBroke \/ DocumentPushes \/ StartReview
         \/ StartReviewFails \/ Fixes \/ Discards
  BY <1>1, <1>2, Leads, <1>12
     DEF Replayed, Document, Undone, Rests, DocumentBroke, Tree, DocumentPushes,
         StartReview, StartReviewFails, Fixes, Discards
<1>13. CASE Approved \/ Parks \/ PhaseFails \/ ReadsTip \/ Rebase \/ IntegrateFails
         \/ LeasePush \/ LeaseFails
  BY <1>1, <1>2, Leads, <1>13
     DEF Approved, Rests, Tree, Parks, ParkedForPeople, PhaseFails, ReadsTip, Rebase,
         Rebased, SquashedOnConflict, IntegrateFails, LeasePush, LeaseFails
<1>14. CASE OpensPull \/ GatesPass \/ Done \/ Stopped
  BY <1>1, <1>2, Leads, <1>14
     DEF OpensPull, Rests, Tree, GatesPass, Done, Stopped
<1>15. ASSUME NEW t \in Tasks, Cancel(t)
      PROVE  I
  BY <1>1, <1>2, Leads, <1>15
     DEF Cancel
<1>16. ASSUME NEW i \in Candidates, CandidateClaims(i)
      PROVE  I
  BY <1>1, <1>2, Leads, <1>16
     DEF CandidateClaims, Steps
<1>17. ASSUME NEW i \in Candidates, CandidateBroke(i)
      PROVE  I
  BY <1>1, <1>2, Leads, <1>17
     DEF CandidateBroke, Drops, Steps
<1>18. ASSUME NEW i \in Candidates, CandidateWorks(i)
      PROVE  I
  BY <1>1, <1>2, Leads, <1>18
     DEF CandidateWorks, Passed, Rest, Steps
<1>19. ASSUME NEW i \in Candidates, CandidateCapped(i)
      PROVE  I
  BY <1>1, <1>2, Leads, <1>19
     DEF CandidateCapped, CapSaves, Drops, Steps
<1>20. ASSUME NEW i \in Candidates, CandidateReselects(i)
      PROVE  I
  BY <1>1, <1>2, Leads, <1>20
     DEF CandidateReselects, Drops, Steps
<1> QED
  BY <1>1, <1>3, <1>4, <1>5, <1>6, <1>7, <1>8, <1>9, <1>10, <1>11, <1>12, <1>13, <1>14,
     <1>15, <1>16, <1>17, <1>18, <1>19, <1>20
     DEF Next, RunNext, PlanNext, ExecuteNext, FanoutNext

LEMMA TakenBackStep ==
    ASSUME TypedInv, [Next]_vars, Carries, Carries', NEW m, TakenBack(m)
    PROVE  TakenBack(m)'
<1> DEFINE I == Carries' => me'.preFix = me.preFix /\ runs' = runs
<1>0. me.preFix # None
  BY DEF TakenBack
<1> SUFFICES I
  BY CardKept DEF TakenBack
<1> USE DEF Carries
<1>1. CASE UNCHANGED <<pc, me, runs>>
  BY <1>1
<1>2. me \in Memory
  BY DEF TypedInv, WorkTypeOK
<1>3. CASE Enter
  BY <1>3
     DEF Enter, Late, Resumed
<1>4. CASE Claim
  <2>1. PICK b : me' = [me EXCEPT !.at = NextTask, !.before = b, !.tool = None,
                                  !.verified = FALSE]
    BY <1>4 DEF Claim
  <2>2. me'.preFix = me.preFix
    BY <1>2, <2>1 DEF Memory
  <2> QED
    BY <1>4, <2>2 DEF Claim, Kept
<1>5. CASE Fixes
  BY <1>5, <1>0, <1>2, Leads
     DEF Fixes, Rests, Memory
<1>6. CASE ReconcileFresh
  BY <1>6, <1>2, Leads
     DEF ReconcileFresh, Memory
<1>7. CASE ReconcileResume
  BY <1>7, <1>2, Leads
     DEF ReconcileResume, Adopted, Memory
<1>8. CASE Draft
  BY <1>8, <1>2, Leads
     DEF Draft, Drafted, Plans, MobDrafts, SoloDrafts, Stays, Memory
<1>9. CASE Diagnose(ReselectCap)
  BY <1>9, <1>2, Leads
     DEF Diagnose, Stays, Memory
<1>10. CASE CreateSubtask
  BY <1>10, <1>2, Leads
     DEF CreateSubtask, ToCreate, Memory
<1>11. CASE Measures
  BY <1>11, <1>2, Leads
     DEF Measures, Identity, Kept, Board, Tree, History, Memory
<1>12. CASE Reselects
  BY <1>12, <1>2, Leads
     DEF Reselects, Kept, Board, Tree, History, Memory
<1>13. CASE Gate
  BY <1>13, <1>2, Leads
     DEF Gate, Kept, Board, Tree, History, Memory
<1>14. CASE Regate
  BY <1>14, <1>2, Leads
     DEF Regate, Kept, Board, Tree, History, Memory
<1>15. CASE Discuss
  BY <1>15, <1>2, Leads
     DEF Discuss, Kept, Board, Tree, History, Memory
<1>16. CASE ReviseFails
  BY <1>16, <1>2, Leads
     DEF ReviseFails, Discarded, Checked, Kept, Board, History, Memory
<1>17. CASE Recheck
  BY <1>17, <1>2, Leads
     DEF Recheck, Discarded, Checked, Revised, Kept, Board, History, Memory
<1>18. CASE Push
  BY <1>18, <1>2, Leads
     DEF Push, Kept, Board, History, Memory
<1>19. CASE Authority
  BY <1>19, <1>2, Leads
     DEF Authority, Kept, Board, History, Memory
<1>20. CASE Complete
  BY <1>20, <1>2, Leads
     DEF Complete, Kept, Tree, Memory
<1>21. CASE Salvaged
  BY <1>21, <1>2, Leads
     DEF Salvaged, Kept, Tree, Memory
<1>22. CASE JudgeChooses
  BY <1>22, <1>2, Leads
     DEF JudgeChooses, Judging, Memory
<1>23. CASE Adopt
  BY <1>23, <1>2, Leads
     DEF Adopt, Memory
<1>24. CASE Replay
  BY <1>24, <1>2, Leads
     DEF Replay, ToReplay, Open, Memory
<1>25. CASE DocumentPushes
  BY <1>25, <1>2, Leads
     DEF DocumentPushes, Rests, Memory
<1>26. CASE ReadsTip
  BY <1>26, <1>2, Leads
     DEF ReadsTip, Rests, Tree, Memory
<1>27. ASSUME NEW i \in Candidates, CandidateClaims(i)
      PROVE  I
  BY <1>27, <1>2, Leads
     DEF CandidateClaims, Steps, Memory
<1>28. ASSUME NEW i \in Candidates, CandidateReselects(i)
      PROVE  I
  BY <1>28, <1>2, Leads
     DEF CandidateReselects, Drops, Steps, Memory
<1>29. CASE Planned
  BY <1>29, <1>2, Leads
     DEF Planned, Proceed, Stays, Memory
<1>30. CASE Executed
  BY <1>30, <1>2, Leads
     DEF Executed, Solo, Proceed, Kept, Board, Tree, History, Memory
<1>31. CASE RaceSkipped
  BY <1>31, <1>2, Leads
     DEF RaceSkipped, Proceed, Memory
<1>32. CASE Join
  BY <1>32, <1>2, Leads
     DEF Join, Returned, Proceed, Memory
<1>33. CASE NothingToJudge
  BY <1>33, <1>2, Leads
     DEF NothingToJudge, Proceed, Memory
<1>34. CASE Replayed
  BY <1>34, <1>2, Leads
     DEF Replayed, Proceed, Memory
<1>35. CASE Document
  BY <1>35, <1>2, Leads
     DEF Document, Undone, Proceed, Rests, Memory
<1>36. CASE Approved
  BY <1>36, <1>2, Leads
     DEF Approved, Proceed, Rests, Tree, Memory
<1>37. CASE OpensPull
  BY <1>37, <1>2, Leads
     DEF OpensPull, Proceed, Rests, Tree, Memory
<1>38. CASE GatesPass
  BY <1>38, <1>2, Leads
     DEF GatesPass, Proceed, Rests, Tree, Memory
<1>39. CASE Boot \/ BootFails \/ ReconcileFails \/ EnterFails \/ ReenterReview \/ Park
         \/ Release \/ Crash
         \/ Sweep
  BY <1>1, <1>2, Leads, <1>39
     DEF Boot, Recovered, BootFails, ReconcileFails, EnterFails, ReenterReview, Park,
         Saved, Release,
         Crash, Sweep
<1>40. CASE HumanPushes \/ DraftFails \/ Approve \/ Adjust \/ ApproveFails \/ Split
         \/ NoSplit \/ SplitFails
  BY <1>1, <1>2, Leads, <1>40
     DEF HumanPushes, DraftFails, Stays, Approve, Adjust, Reply, ApproveFails, Split,
         NoSplit, SplitFails
<1>41. CASE Note \/ CreateFails \/ ClaimFails \/ Writes \/ CommitsItself \/ Finishes
         \/ CoderFails \/ Fix
  BY <1>1, <1>2, Leads, <1>41
     DEF Note, Stays, CreateFails, ClaimFails, Solo, Kept, Board, Tree, History, Writes,
         CommitsItself, Finishes, CoderFails, NoCoder, Fix
<1>42. CASE CommitWork \/ CommitNothing \/ CommitFails \/ PushFails \/ CompleteFails
         \/ SalvageNothing \/ Salvage \/ StoppedAtWork
  BY <1>1, <1>2, Leads, <1>42
     DEF CommitWork, Kept, Board, CommitNothing, Tree, History, CommitFails, PushFails,
         CompleteFails, SalvageNothing, Salvage, StoppedAtWork
<1>43. CASE Race \/ RaceFails \/ RaceStopped \/ JudgeVerifies \/ NobodyToJudge
         \/ JudgeFails \/ AdoptFails \/ DocumentBroke
  BY <1>1, <1>2, Leads, <1>43
     DEF Race, RaceFails, RaceStopped, Leaves, Returned, JudgeVerifies, Steps, NobodyToJudge,
         Judging, JudgeFails, AdoptFails, DocumentBroke, Rests, Tree
<1>44. CASE StartReview \/ StartReviewFails \/ Discards \/ Parks \/ PhaseFails \/ Rebase
         \/ IntegrateFails \/ LeasePush
  BY <1>1, <1>2, Leads, <1>44
     DEF StartReview, Rests, Tree, StartReviewFails, Discards, Parks, ParkedForPeople,
         PhaseFails, Rebase, Rebased, SquashedOnConflict, IntegrateFails, LeasePush
<1>45. CASE LeaseFails \/ Done \/ Stopped
  BY <1>1, <1>2, Leads, <1>45
     DEF LeaseFails, Rests, Tree, Done, Stopped
<1>46. ASSUME NEW t \in Tasks, Cancel(t)
      PROVE  I
  BY <1>1, <1>2, Leads, <1>46
     DEF Cancel
<1>47. ASSUME NEW i \in Candidates, CandidateBroke(i)
      PROVE  I
  BY <1>1, <1>2, Leads, <1>47
     DEF CandidateBroke, Drops, Steps
<1>48. ASSUME NEW i \in Candidates, CandidateWorks(i)
      PROVE  I
  BY <1>1, <1>2, Leads, <1>48
     DEF CandidateWorks, Passed, Rest, Steps
<1>49. ASSUME NEW i \in Candidates, CandidateCapped(i)
      PROVE  I
  BY <1>1, <1>2, Leads, <1>49
     DEF CandidateCapped, CapSaves, Drops, Steps
<1> QED
  BY <1>1, <1>3, <1>4, <1>5, <1>6, <1>7, <1>8, <1>9, <1>10, <1>11, <1>12, <1>13, <1>14,
     <1>15, <1>16, <1>17, <1>18, <1>19, <1>20, <1>21, <1>22, <1>23, <1>24, <1>25, <1>26,
     <1>27, <1>28, <1>29, <1>30, <1>31, <1>32, <1>33, <1>34, <1>35, <1>36, <1>37, <1>38,
     <1>39, <1>40, <1>41, <1>42, <1>43, <1>44, <1>45, <1>46, <1>47, <1>48, <1>49
     DEF Next, RunNext, PlanNext, ExecuteNext, FanoutNext

LEMMA RaceStarts ==
    ASSUME TypedInv, [Next]_vars, Racers', pc = "execute", cands' # << >>
    PROVE  local' = local /\ remote' = remote
<1> DEFINE I == local' = local /\ remote' = remote
<1> SUFFICES I
  OBVIOUS
<1>1. CASE UNCHANGED <<local, remote>>
  BY <1>1
<1>2. me \in Memory
  BY DEF TypedInv, WorkTypeOK
<1>3. CASE HumanPushes
  BY <1>3, <1>2 DEF HumanPushes, Racers
<1>4. CASE Boot \/ BootFails \/ ReconcileFresh \/ ReconcileResume \/ ReconcileFails
         \/ Enter \/ EnterFails \/ ReenterReview \/ Park
  BY <1>1, <1>2, Leads, <1>4
     DEF Boot, Recovered, BootFails, ReconcileFresh, ReconcileResume, Adopted,
         ReconcileFails, Enter, Late, Resumed, EnterFails, ReenterReview, Park, Saved
<1>5. CASE Release \/ Crash \/ Sweep \/ Draft \/ Diagnose(ReselectCap) \/ DraftFails
         \/ Approve \/ Adjust
  BY <1>1, <1>2, Leads, <1>5
     DEF Release, Crash, Sweep, Draft, Drafted, Plans, MobDrafts, SoloDrafts, Stays,
         Diagnose, DraftFails, Approve, Adjust, Reply
<1>6. CASE ApproveFails \/ Split \/ NoSplit \/ SplitFails \/ Note \/ CreateSubtask
         \/ CreateFails \/ Planned
  BY <1>1, <1>2, Leads, <1>6
     DEF ApproveFails, Stays, Split, NoSplit, SplitFails, Note, CreateSubtask, ToCreate,
         CreateFails, Planned
<1>7. CASE Claim \/ ClaimFails \/ Executed \/ Writes \/ Measures \/ CommitsItself
         \/ Finishes \/ Reselects
  BY <1>1, <1>2, Leads, <1>7
     DEF Claim, Solo, Open, Kept, Tree, History, ClaimFails, Board, Executed, Writes,
         Measures, Identity, CommitsItself, Finishes, Reselects
<1>8. CASE CoderFails \/ Gate \/ Fix \/ Regate \/ CommitWork \/ CommitNothing
         \/ CommitFails \/ Discuss
  BY <1>1, <1>2, Leads, <1>8
     DEF CoderFails, NoCoder, Kept, Board, Tree, History, Gate, Fix, Regate, CommitWork,
         CommitNothing, CommitFails, Discuss
<1>9. CASE ReviseFails \/ Recheck \/ Push \/ PushFails \/ Complete \/ CompleteFails
         \/ SalvageNothing \/ Salvage
  BY <1>1, <1>2, Leads, <1>9
     DEF ReviseFails, Discarded, Checked, Kept, Board, History, Recheck, Revised, Push,
         PushFails, Tree, Complete, CompleteFails, SalvageNothing, Salvage
<1>10. CASE Authority \/ Salvaged \/ StoppedAtWork \/ Race \/ RaceFails \/ RaceSkipped
         \/ Join \/ RaceStopped
  BY <1>1, <1>2, Leads, <1>10
     DEF Authority, Kept, Board, History, Salvaged, Tree, StoppedAtWork, Race, RaceFails,
         RaceSkipped, Join, Returned, RaceStopped, Leaves
<1>11. CASE NothingToJudge \/ JudgeVerifies \/ NobodyToJudge \/ JudgeChooses \/ JudgeFails
         \/ Adopt \/ AdoptFails \/ Replay
  BY <1>1, <1>2, Leads, <1>11
     DEF NothingToJudge, JudgeVerifies, Steps, NobodyToJudge, Judging, Returned,
         JudgeChooses, JudgeFails, Adopt, AdoptFails, Replay, ToReplay, Open
<1>12. CASE Replayed \/ Document \/ DocumentBroke \/ DocumentPushes \/ StartReview
         \/ StartReviewFails \/ Fixes \/ Discards
  BY <1>1, <1>2, Leads, <1>12
     DEF Replayed, Document, Undone, Rests, DocumentBroke, Tree, DocumentPushes,
         StartReview, StartReviewFails, Fixes, Discards
<1>13. CASE Approved \/ Parks \/ PhaseFails \/ ReadsTip \/ Rebase \/ IntegrateFails
         \/ LeasePush \/ LeaseFails
  BY <1>1, <1>2, Leads, <1>13
     DEF Approved, Rests, Tree, Parks, ParkedForPeople, PhaseFails, ReadsTip, Rebase,
         Rebased, SquashedOnConflict, IntegrateFails, LeasePush, LeaseFails
<1>14. CASE OpensPull \/ GatesPass \/ Done \/ Stopped
  BY <1>1, <1>2, Leads, <1>14
     DEF OpensPull, Rests, Tree, GatesPass, Done, Stopped
<1>15. ASSUME NEW t \in Tasks, Cancel(t)
      PROVE  I
  BY <1>1, <1>2, Leads, <1>15
     DEF Cancel
<1>16. ASSUME NEW i \in Candidates, CandidateClaims(i)
      PROVE  I
  BY <1>1, <1>2, Leads, <1>16
     DEF CandidateClaims, Steps
<1>17. ASSUME NEW i \in Candidates, CandidateBroke(i)
      PROVE  I
  BY <1>1, <1>2, Leads, <1>17
     DEF CandidateBroke, Drops, Steps
<1>18. ASSUME NEW i \in Candidates, CandidateWorks(i)
      PROVE  I
  BY <1>1, <1>2, Leads, <1>18
     DEF CandidateWorks, Passed, Rest, Steps
<1>19. ASSUME NEW i \in Candidates, CandidateCapped(i)
      PROVE  I
  BY <1>1, <1>2, Leads, <1>19
     DEF CandidateCapped, CapSaves, Drops, Steps
<1>20. ASSUME NEW i \in Candidates, CandidateReselects(i)
      PROVE  I
  BY <1>1, <1>2, Leads, <1>20
     DEF CandidateReselects, Drops, Steps
<1> QED
  BY <1>1, <1>3, <1>4, <1>5, <1>6, <1>7, <1>8, <1>9, <1>10, <1>11, <1>12, <1>13, <1>14,
     <1>15, <1>16, <1>17, <1>18, <1>19, <1>20
     DEF Next, RunNext, PlanNext, ExecuteNext, FanoutNext

LEMMA KeepsStep == TypedInv /\ RaceInv /\ FixInv /\ KeepsInv /\ [Next]_vars => KeepsInv'
<1> SUFFICES ASSUME TypedInv, RaceInv, FixInv, KeepsInv, [Next]_vars PROVE KeepsInv'
  OBVIOUS
<1>1. /\ me \in Memory /\ local \in Branches /\ local' \in Branches /\ None \notin Branches
      /\ remote \in Branches \cup {None}
  BY TreeStep DEF TypedInv, WorkTypeOK, TreeTypeOK
<1>2. /\ remote' = remote => AtOrigin' = AtOrigin
      /\ remote' = local' => AtOrigin' = local'.work
  BY <1>1 DEF AtOrigin
<1>3. HumanPushes => /\ AtOrigin' = AtOrigin \cup {Human}
                     /\ pc' = pc /\ local' = local /\ cands' = cands /\ me' = me
  BY <1>1, HumanLeads DEF HumanPushes
<1>4. Human.run = 0
  BY DEF Human
<1>5. Discards => /\ pc = "reviewing" /\ Carries /\ phase' = phase /\ me' = me /\ tc.verify
                  /\ me.preFix # None /\ local' = me.preFix
                  /\ (remote' = remote \/ remote' = local')
  BY DEF Discards, Rests, Carries
<1>6. (phase = "none" => /\ pc \in {"idle", "reconcile", "enter", "park", "release"}
                         /\ local.work = {} /\ dirty = "none"
                         /\ \A m \in AtOrigin : m.run = 0)'
  <2> SUFFICES ASSUME phase' = "none"
               PROVE  /\ pc' \in {"idle", "reconcile", "enter", "park", "release"}
                      /\ local'.work = {} /\ dirty' = "none"
                      /\ \A m \in AtOrigin' : m.run = 0
    OBVIOUS
  <2>1. phase = "none"
    BY PhaseStep
  <2>2. /\ pc' \in {"idle", "reconcile", "enter", "park", "release"}
        /\ local'.work = {} /\ dirty' = "none"
    BY <2>1, PhaseStep, UntouchedStep DEF KeepsInv
  <2>3. \A m \in AtOrigin' : m.run = 0
    BY <1>2, <1>3, <1>4, <1>5, <2>1, <2>2, PushingStep DEF KeepsInv
  <2> QED
    BY <2>2, <2>3
<1>7. (pc = "idle" => local = Base /\ dirty = "none")'
  BY IdleStep DEF KeepsInv
<1>8. Carries' /\ Carries => \A m : TakenBack(m) => TakenBack(m)'
  BY TakenBackStep
<1>9. (Carries => Has(local.work))'
  <2> SUFFICES ASSUME Carries', NEW m \in AtOrigin', m.run # 0, ~TakenBack(m)'
               PROVE  m \in local'.work
    BY DEF Has
  <2>1. CASE remote' = local'
    BY <1>2, <2>1
  <2>2. CASE remote' = remote \/ HumanPushes
    <3>1. m \in AtOrigin
      BY <1>2, <1>3, <1>4, <2>2
    <3>2. CASE ReconcileFresh /\ phase = "none"
      BY <3>1, <3>2 DEF KeepsInv
    <3>3. CASE ReconcileResume
      BY <3>1, <3>3 DEF ReconcileResume, Adopted, AtOrigin
    <3>4. CASE Carries /\ local.work \subseteq local'.work
      BY <1>8, <3>1, <3>4 DEF KeepsInv, Has
    <3>5. ~AdoptFails /\ pc' # "idle"
      BY <1>1, Leads DEF Carries, AdoptFails
    <3>6. CASE Adopt
      BY <1>2, <3>6 DEF Adopt
    <3>7. CASE Discards
      <4>1. m \in local.work
        BY <1>5, <1>8, <3>1, <3>7 DEF KeepsInv, Has
      <4>2. m \notin me.preFix.work => m = [of |-> 0, run |-> runs]
        BY <1>5, <3>7, <4>1 DEF FixInv
      <4>3. m \notin me.preFix.work => TakenBack(m)
        BY <1>5, <3>7, <4>2 DEF TakenBack
      <4> QED
        BY <1>5, <1>8, <3>7, <4>3
    <3> QED
      BY LocalStep, ArrivesStep, <3>2, <3>3, <3>4, <3>5, <3>6, <3>7
  <2> QED
    BY PushingStep, <1>5, <2>1, <2>2
<1>10. (Racers => \A i \in Candidates : Has(cands[i].work.work))'
  <2> SUFFICES ASSUME Racers', NEW i \in Candidates', NEW m \in AtOrigin', m.run # 0,
                      ~TakenBack(m)'
               PROVE  m \in cands'[i].work.work
    BY DEF Has
  <2>1. cands' # << >>
    BY DEF Candidates
  <2>2. CASE Racers /\ i \in Candidates /\ cands[i].work.work \subseteq cands'[i].work.work
    <3>1. m \in AtOrigin
      BY PushingStep, <1>2, <1>3, <1>4, <1>5, <2>2 DEF Racers
    <3>2. Carries /\ Carries'
      BY <2>2 DEF Racers, Carries
    <3> QED
      BY <1>8, <2>2, <3>1, <3>2 DEF KeepsInv, Has
  <2>3. CASE pc = "execute" /\ cands'[i].work = local
    <3>1. local' = local /\ remote' = remote
      BY <2>1, <2>3, RaceStarts
    <3>2. Carries /\ Carries'
      BY <2>3 DEF Racers, Carries
    <3> QED
      BY <1>2, <1>8, <2>3, <3>1, <3>2 DEF KeepsInv, Has
  <2> QED
    BY RaceWorkStep, <2>1, <2>2, <2>3 DEF Descends
<1> QED
  BY <1>6, <1>7, <1>9, <1>10 DEF KeepsInv

LEMMA KeepsInit == Init => KeepsInv
<1> SUFFICES ASSUME Init PROVE KeepsInv
  OBVIOUS
<1>1. \A m \in AtOrigin : m.run = 0
  BY DEF Init, AtOrigin, Abandoned
<1> QED
  BY <1>1 DEF Init, KeepsInv, Carries, Racers, Base

(* What a run pushed is never taken off the branch again but for a fix its    *)
(* review takes back, and what somebody else pushed only by a run that had    *)
(* seen it there (git.go, pushBranch and ForcePushWithLease; review.go,       *)
(* discardRegressingFix and discardCleanupFixup). *)
THEOREM PushedStays == Spec => PushKeepsWork
<1> DEFINE A == \A m \in AtOrigin \ AtOrigin' :
                   \/ m.run = 0 /\ me.tip # None /\ m \in me.tip.work
                   \/ TakenBack(m)
<1>1. TypedInv /\ FixInv /\ KeepsInv /\ [Next]_vars => A
  <2> SUFFICES ASSUME TypedInv, FixInv, KeepsInv, [Next]_vars,
                      NEW m \in AtOrigin, m \notin AtOrigin', ~TakenBack(m)
               PROVE  m.run = 0 /\ me.tip # None /\ m \in me.tip.work
    OBVIOUS
  <2>1. /\ local' \in Branches /\ None \notin Branches /\ remote \in Branches \cup {None}
        /\ me \in Memory
    BY TreeStep DEF TypedInv, WorkTypeOK, TreeTypeOK
  <2>2. /\ remote' = remote => AtOrigin' = AtOrigin
        /\ remote' = local' => AtOrigin' = local'.work
    BY <2>1 DEF AtOrigin
  <2>3. ~HumanPushes /\ ~Discards
    <3>1. CASE Discards
      <4>1. /\ pc = "reviewing" /\ tc.verify /\ me.preFix # None
            /\ remote = local /\ remote' = me.preFix
        BY <2>2, <3>1 DEF Discards
      <4>2. m \in local.work \ me.preFix.work
        BY <2>1, <4>1 DEF AtOrigin
      <4> QED
        BY <4>1, <4>2 DEF FixInv, TakenBack
    <3> QED
      BY <2>1, <3>1, HumanLeads
  <2>4. remote' = local' /\ m \notin local'.work
    BY PushingStep, <2>2, <2>3
  <2>5. ~Takes(local')
    BY <2>4 DEF Takes, Descends, AtOrigin
  <2>6. me.tip # None /\ remote = me.tip
    BY PushingStep, <2>2, <2>3, <2>5 DEF TakesFirst, LeaseOK
  <2>7. m \in me.tip.work
    BY <2>6 DEF AtOrigin
  <2>8. CASE Adopt
    <3>1. Racers /\ me.winner \in Candidates /\ local' = cands[me.winner].work
      BY <2>8 DEF Adopt, Racers, TypedInv, Grounded, Pool, Verifying, Uncapped, Survivors
    <3> QED
      BY <2>4, <2>6, <2>7, <3>1 DEF KeepsInv, Has
  <2>9. CASE local' = local /\ Carries
    BY <2>4, <2>6, <2>7, <2>9 DEF KeepsInv, Has
  <2>10. pc = "lease" => Carries
    BY DEF Carries
  <2> QED
    BY PushingStep, <2>2, <2>3, <2>5, <2>6, <2>7, <2>8, <2>9, <2>10
<1>2. TypedInv /\ FixInv /\ KeepsInv /\ [Next]_vars => [A]_vars
  BY <1>1
<1> QED
  BY TypedInit, RaceInit, FixInit, KeepsInit, TypedStep, RaceInvStep, FixStep, KeepsStep,
     <1>2, PTL
     DEF Spec, PushKeepsWork

-----------------------------------------------------------------------------
(* What a park saves.  First where a step leads: to the memory of a first     *)
(* push, to the places, and to a park. *)

LEMMA FirstStep ==
    ASSUME TypedInv, [Next]_vars
    PROVE  \/ me'.tip = me.tip /\ me'.pushed = me.pushed
           \/ me'.tip = None /\ pc' \in {"idle", "reconcile"}
           \/ ReconcileFresh
           \/ ReadsTip /\ me'.tip = remote /\ me'.pushed = me.pushed /\ pc' = "rebase"
           \/ /\ me'.tip = me.tip /\ me'.pushed = TRUE /\ Carries /\ ~Racers'
              /\ \/ remote' = local'
                 \/ DocumentPushes
<1> DEFINE I == \/ me'.tip = me.tip /\ me'.pushed = me.pushed
                \/ me'.tip = None /\ pc' \in {"idle", "reconcile"}
                \/ ReconcileFresh
                \/ ReadsTip /\ me'.tip = remote /\ me'.pushed = me.pushed /\ pc' = "rebase"
                \/ /\ me'.tip = me.tip /\ me'.pushed = TRUE /\ Carries /\ ~Racers'
                   /\ \/ remote' = local'
                      \/ DocumentPushes
<1> SUFFICES I
  OBVIOUS
<1>1. CASE UNCHANGED me
  BY <1>1
<1>2. me \in Memory
  BY DEF TypedInv, WorkTypeOK
<1>3. CASE Boot
  BY <1>3, <1>2, Leads, MemoryLeads
     DEF Boot, Recovered, Fresh, Memory
<1>4. CASE ReconcileFresh
  BY <1>4
<1>5. CASE ReadsTip
  BY <1>5, <1>2, Leads, MemoryLeads
     DEF ReadsTip, Rests, Tree, Memory
<1>6. CASE Push
  BY <1>6, <1>2, Leads, MemoryLeads
     DEF Push, Kept, Board, History, Memory, Carries, Racers
<1>7. CASE Authority
  BY <1>7, <1>2, Leads, MemoryLeads
     DEF Authority, Kept, Board, History, Memory, Carries, Racers
<1>8. CASE Adopt
  BY <1>8, <1>2, Leads, MemoryLeads
     DEF Adopt, Memory, Carries, Racers
<1>9. CASE DocumentPushes
  BY <1>9, <1>2, Leads, MemoryLeads
     DEF DocumentPushes, Rests, Memory, Carries, Racers
<1>10. CASE Claim
  <2>1. PICK b : me' = [me EXCEPT !.at = NextTask, !.before = b, !.tool = None,
                                  !.verified = FALSE]
    BY <1>10 DEF Claim
  <2> QED
    BY <1>2, <2>1 DEF Memory
<1>11. CASE Draft
  BY <1>11, <1>2, Leads, MemoryLeads
     DEF Draft, Drafted, Plans, MobDrafts, SoloDrafts, Stays, Memory
<1>12. CASE Diagnose(ReselectCap)
  BY <1>12, <1>2, Leads, MemoryLeads
     DEF Diagnose, Stays, Memory
<1>13. CASE CreateSubtask
  BY <1>13, <1>2, Leads, MemoryLeads
     DEF CreateSubtask, ToCreate, Memory
<1>14. CASE Measures
  BY <1>14, <1>2, Leads, MemoryLeads
     DEF Measures, Identity, Kept, Board, Tree, History, Memory
<1>15. CASE Reselects
  BY <1>15, <1>2, Leads, MemoryLeads
     DEF Reselects, Kept, Board, Tree, History, Memory
<1>16. CASE Gate
  BY <1>16, <1>2, Leads, MemoryLeads
     DEF Gate, Kept, Board, Tree, History, Memory
<1>17. CASE Regate
  BY <1>17, <1>2, Leads, MemoryLeads
     DEF Regate, Kept, Board, Tree, History, Memory
<1>18. CASE Discuss
  BY <1>18, <1>2, Leads, MemoryLeads
     DEF Discuss, Kept, Board, Tree, History, Memory
<1>19. CASE ReviseFails
  BY <1>19, <1>2, Leads, MemoryLeads
     DEF ReviseFails, Discarded, Checked, Kept, Board, History, Memory
<1>20. CASE Recheck
  BY <1>20, <1>2, Leads, MemoryLeads
     DEF Recheck, Discarded, Checked, Revised, Kept, Board, History, Memory
<1>21. CASE Complete
  BY <1>21, <1>2, Leads, MemoryLeads
     DEF Complete, Kept, Tree, Memory
<1>22. CASE Salvaged
  BY <1>22, <1>2, Leads, MemoryLeads
     DEF Salvaged, Kept, Tree, Memory
<1>23. CASE JudgeChooses
  BY <1>23, <1>2, Leads, MemoryLeads
     DEF JudgeChooses, Judging, Memory
<1>24. CASE Replay
  BY <1>24, <1>2, Leads, MemoryLeads
     DEF Replay, ToReplay, Open, Memory
<1>25. CASE ReconcileResume
  BY <1>25, <1>2, Leads, MemoryLeads
     DEF ReconcileResume, Adopted, Memory
<1>26. ASSUME NEW i \in Candidates, CandidateClaims(i)
      PROVE  I
  BY <1>26, <1>2, Leads, MemoryLeads
     DEF CandidateClaims, Steps, Memory
<1>27. ASSUME NEW i \in Candidates, CandidateReselects(i)
      PROVE  I
  BY <1>27, <1>2, Leads, MemoryLeads
     DEF CandidateReselects, Drops, Steps, Memory
<1>28. CASE Fixes
  BY <1>28, <1>2, Leads, MemoryLeads
     DEF Fixes, Rests, Memory
<1>29. CASE BootFails \/ ReconcileFails \/ Enter \/ EnterFails \/ ReenterReview \/ Park
         \/ Release \/ Crash
         \/ Sweep
  BY <1>1, <1>2, Leads, MemoryLeads, <1>29
     DEF BootFails, ReconcileFails, Enter, Late, Resumed, EnterFails, ReenterReview, Park,
         Saved, Release,
         Crash, Sweep
<1>30. CASE HumanPushes \/ DraftFails \/ Approve \/ Adjust \/ ApproveFails \/ Split
         \/ NoSplit \/ SplitFails
  BY <1>1, <1>2, Leads, MemoryLeads, <1>30
     DEF HumanPushes, DraftFails, Stays, Approve, Adjust, Reply, ApproveFails, Split,
         NoSplit, SplitFails
<1>31. CASE Note \/ CreateFails \/ Planned \/ ClaimFails \/ Executed \/ Writes
         \/ CommitsItself \/ Finishes
  BY <1>1, <1>2, Leads, MemoryLeads, <1>31
     DEF Note, Stays, CreateFails, Planned, ClaimFails, Solo, Kept, Board, Tree, History,
         Executed, Writes, CommitsItself, Finishes
<1>32. CASE CoderFails \/ Fix \/ CommitWork \/ CommitNothing \/ CommitFails \/ PushFails
         \/ CompleteFails \/ SalvageNothing
  BY <1>1, <1>2, Leads, MemoryLeads, <1>32
     DEF CoderFails, NoCoder, Kept, Board, Tree, History, Fix, CommitWork, CommitNothing,
         CommitFails, PushFails, CompleteFails, SalvageNothing
<1>33. CASE Salvage \/ StoppedAtWork \/ Race \/ RaceFails \/ RaceSkipped \/ Join
         \/ RaceStopped \/ NothingToJudge
  BY <1>1, <1>2, Leads, MemoryLeads, <1>33
     DEF Salvage, Kept, Board, History, StoppedAtWork, Tree, Race, RaceFails, RaceSkipped,
         Join, Returned, RaceStopped, Leaves, NothingToJudge
<1>34. CASE JudgeVerifies \/ NobodyToJudge \/ JudgeFails \/ AdoptFails \/ Replayed
         \/ Document \/ DocumentBroke \/ StartReview
  BY <1>1, <1>2, Leads, MemoryLeads, <1>34
     DEF JudgeVerifies, Steps, NobodyToJudge, Judging, Returned, JudgeFails, AdoptFails,
         Replayed, Document, Undone, Rests, DocumentBroke, Tree, StartReview
<1>35. CASE StartReviewFails \/ Discards \/ Approved \/ Parks \/ PhaseFails \/ Rebase
         \/ IntegrateFails \/ LeasePush
  BY <1>1, <1>2, Leads, MemoryLeads, <1>35
     DEF StartReviewFails, Rests, Tree, Discards, Approved, Parks, ParkedForPeople,
         PhaseFails, Rebase, Rebased, SquashedOnConflict, IntegrateFails, LeasePush
<1>36. CASE LeaseFails \/ OpensPull \/ GatesPass \/ Done \/ Stopped
  BY <1>1, <1>2, Leads, MemoryLeads, <1>36
     DEF LeaseFails, Rests, Tree, OpensPull, GatesPass, Done, Stopped
<1>37. ASSUME NEW t \in Tasks, Cancel(t)
      PROVE  I
  BY <1>1, <1>2, Leads, MemoryLeads, <1>37
     DEF Cancel
<1>38. ASSUME NEW i \in Candidates, CandidateBroke(i)
      PROVE  I
  BY <1>1, <1>2, Leads, MemoryLeads, <1>38
     DEF CandidateBroke, Drops, Steps
<1>39. ASSUME NEW i \in Candidates, CandidateWorks(i)
      PROVE  I
  BY <1>1, <1>2, Leads, MemoryLeads, <1>39
     DEF CandidateWorks, Passed, Rest, Steps
<1>40. ASSUME NEW i \in Candidates, CandidateCapped(i)
      PROVE  I
  BY <1>1, <1>2, Leads, MemoryLeads, <1>40
     DEF CandidateCapped, CapSaves, Drops, Steps
<1> QED
  BY <1>1, <1>3, <1>4, <1>5, <1>6, <1>7, <1>8, <1>9, <1>10, <1>11, <1>12, <1>13, <1>14,
     <1>15, <1>16, <1>17, <1>18, <1>19, <1>20, <1>21, <1>22, <1>23, <1>24, <1>25, <1>26,
     <1>27, <1>28, <1>29, <1>30, <1>31, <1>32, <1>33, <1>34, <1>35, <1>36, <1>37, <1>38,
     <1>39, <1>40
     DEF Next, RunNext, PlanNext, ExecuteNext, FanoutNext

LEMMA PlaceLeads ==
    ASSUME TypedInv, [Next]_vars
    PROVE  /\ Young' => Young \/ ReconcileFresh \/ ReconcileResume
           /\ Leased' /\ Carries => Leased \/ LeasePush
           /\ Leased /\ Carries' => Leased'
           /\ pc = "lease" => LeasePush \/ pc' \in {"lease", "park", "idle"}
<1> DEFINE I == /\ Young' => Young \/ ReconcileFresh \/ ReconcileResume
                /\ Leased' /\ Carries => Leased \/ LeasePush
                /\ Leased /\ Carries' => Leased'
                /\ pc = "lease" => LeasePush \/ pc' \in {"lease", "park", "idle"}
<1> SUFFICES I
  OBVIOUS
<1> USE DEF Young, Leased, Carries, LateNext, LeasedNext
<1>1. CASE UNCHANGED <<pc, me>>
  BY <1>1
<1>2. me \in Memory
  BY DEF TypedInv, WorkTypeOK
<1>3. CASE ReconcileFresh \/ ReconcileResume
  BY <1>3, <1>2, Leads, MemoryLeads
     DEF ReconcileFresh, ReconcileResume, Adopted, Memory
<1>4. CASE Enter
  BY <1>4, <1>2, MemoryHas, NamesAre
     DEF Enter, Late, Resumed
<1>5. CASE Boot
  BY <1>5, <1>2, Leads, MemoryLeads
     DEF Boot, Recovered, Memory
<1>6. CASE Diagnose(ReselectCap)
  BY <1>6, <1>2, Leads, MemoryLeads
     DEF Diagnose, Stays, Memory
<1>7. CASE DocumentPushes
  BY <1>7, <1>2, Leads, MemoryLeads
     DEF DocumentPushes, Rests, Memory
<1>8. CASE Measures
  BY <1>8, <1>2, Leads, MemoryLeads
     DEF Measures, Identity, Kept, Board, Tree, History, Memory
<1>9. CASE Reselects
  BY <1>9, <1>2, Leads, MemoryLeads
     DEF Reselects, Kept, Board, Tree, History, Memory
<1>10. ASSUME NEW i \in Candidates, CandidateClaims(i)
      PROVE  I
  BY <1>10, <1>2, Leads, MemoryLeads
     DEF CandidateClaims, Steps, Memory
<1>11. ASSUME NEW i \in Candidates, CandidateReselects(i)
      PROVE  I
  BY <1>11, <1>2, Leads, MemoryLeads
     DEF CandidateReselects, Drops, Steps, Memory
<1>12. CASE Replay
  BY <1>12, <1>2, Leads, MemoryLeads
     DEF Replay, ToReplay, Open, Memory
<1>13. CASE CreateSubtask
  BY <1>13, <1>2, Leads, MemoryLeads
     DEF CreateSubtask, ToCreate, Memory
<1>14. CASE LeasePush
  BY <1>14, <1>2, Leads, MemoryLeads
     DEF LeasePush, Rests, Memory
<1>15. CASE OpensPull
  BY <1>15, <1>2, Leads, MemoryLeads
     DEF OpensPull, Rests, Tree, Memory
<1>16. CASE GatesPass
  BY <1>16, <1>2, Leads, MemoryLeads
     DEF GatesPass, Rests, Tree, Memory
<1>17. CASE Fixes
  BY <1>17, <1>2, Leads, MemoryLeads
     DEF Fixes, Rests, Memory
<1>18. CASE BootFails \/ ReconcileFails \/ EnterFails \/ ReenterReview \/ Park
  BY <1>1, <1>2, Leads, MemoryLeads, <1>18
     DEF BootFails, ReconcileFails, EnterFails, ReenterReview, Park, Saved
<1>19. CASE Release \/ Crash \/ Sweep \/ HumanPushes
  BY <1>1, <1>2, Leads, MemoryLeads, <1>19
     DEF Release, Crash, Sweep, HumanPushes
<1>20. CASE Draft \/ DraftFails \/ Approve \/ Adjust
  BY <1>1, <1>2, Leads, MemoryLeads, <1>20
     DEF Draft, Drafted, Plans, MobDrafts, SoloDrafts, Stays, DraftFails, Approve, Adjust,
         Reply
<1>21. CASE ApproveFails \/ Split \/ NoSplit \/ SplitFails
  BY <1>1, <1>2, Leads, MemoryLeads, <1>21
     DEF ApproveFails, Stays, Split, NoSplit, SplitFails
<1>22. CASE Note \/ CreateFails \/ Planned \/ Claim
  BY <1>1, <1>2, Leads, MemoryLeads, <1>22
     DEF Note, Stays, CreateFails, Planned, Claim, Solo, Open, Kept, Tree, History
<1>23. CASE ClaimFails \/ Executed \/ Writes \/ CommitsItself
  BY <1>1, <1>2, Leads, MemoryLeads, <1>23
     DEF ClaimFails, Solo, Kept, Board, Tree, History, Executed, Writes, CommitsItself
<1>24. CASE Finishes \/ CoderFails \/ Gate \/ Fix
  BY <1>1, <1>2, Leads, MemoryLeads, <1>24
     DEF Finishes, Kept, Board, Tree, History, CoderFails, NoCoder, Gate, Fix
<1>25. CASE Regate \/ CommitWork \/ CommitNothing \/ CommitFails
  BY <1>1, <1>2, Leads, MemoryLeads, <1>25
     DEF Regate, Kept, Board, Tree, History, CommitWork, CommitNothing, CommitFails
<1>26. CASE Discuss \/ ReviseFails \/ Recheck \/ Push
  BY <1>1, <1>2, Leads, MemoryLeads, <1>26
     DEF Discuss, Kept, Board, Tree, History, ReviseFails, Discarded, Checked, Recheck,
         Revised, Push
<1>27. CASE PushFails \/ Complete \/ CompleteFails \/ SalvageNothing
  BY <1>1, <1>2, Leads, MemoryLeads, <1>27
     DEF PushFails, Kept, Tree, History, Complete, CompleteFails, SalvageNothing
<1>28. CASE Salvage \/ Authority \/ Salvaged \/ StoppedAtWork
  BY <1>1, <1>2, Leads, MemoryLeads, <1>28
     DEF Salvage, Kept, Board, History, Authority, Salvaged, Tree, StoppedAtWork
<1>29. CASE Race \/ RaceFails \/ RaceSkipped \/ Join
  BY <1>1, <1>2, Leads, MemoryLeads, <1>29
     DEF Race, RaceFails, RaceSkipped, Join, Returned
<1>30. CASE RaceStopped \/ NothingToJudge \/ JudgeVerifies \/ NobodyToJudge
  BY <1>1, <1>2, Leads, MemoryLeads, <1>30
     DEF RaceStopped, Leaves, Returned, NothingToJudge, JudgeVerifies, Steps, NobodyToJudge,
         Judging
<1>31. CASE JudgeChooses \/ JudgeFails \/ Adopt \/ AdoptFails
  BY <1>1, <1>2, Leads, MemoryLeads, <1>31
     DEF JudgeChooses, Judging, JudgeFails, Adopt, AdoptFails
<1>32. CASE Replayed \/ Document \/ DocumentBroke \/ StartReview
  BY <1>1, <1>2, Leads, MemoryLeads, <1>32
     DEF Replayed, Document, Undone, Rests, DocumentBroke, Tree, StartReview
<1>33. CASE StartReviewFails \/ Discards \/ Approved \/ Parks
  BY <1>1, <1>2, Leads, MemoryLeads, <1>33
     DEF StartReviewFails, Rests, Tree, Discards, Approved, Parks, ParkedForPeople
<1>34. CASE PhaseFails \/ ReadsTip \/ Rebase \/ IntegrateFails
  BY <1>1, <1>2, Leads, MemoryLeads, <1>34
     DEF PhaseFails, Rests, Tree, ReadsTip, Rebase, Rebased, SquashedOnConflict,
         IntegrateFails
<1>35. CASE LeaseFails \/ Done \/ Stopped
  BY <1>1, <1>2, Leads, MemoryLeads, <1>35
     DEF LeaseFails, Rests, Tree, Done, Stopped
<1>36. ASSUME NEW t \in Tasks, Cancel(t)
      PROVE  I
  BY <1>1, <1>2, Leads, MemoryLeads, <1>36
     DEF Cancel
<1>37. ASSUME NEW i \in Candidates, CandidateBroke(i)
      PROVE  I
  BY <1>1, <1>2, Leads, MemoryLeads, <1>37
     DEF CandidateBroke, Drops, Steps
<1>38. ASSUME NEW i \in Candidates, CandidateWorks(i)
      PROVE  I
  BY <1>1, <1>2, Leads, MemoryLeads, <1>38
     DEF CandidateWorks, Passed, Rest, Steps
<1>39. ASSUME NEW i \in Candidates, CandidateCapped(i)
      PROVE  I
  BY <1>1, <1>2, Leads, MemoryLeads, <1>39
     DEF CandidateCapped, CapSaves, Drops, Steps
<1> QED
  BY <1>1, <1>3, <1>4, <1>5, <1>6, <1>7, <1>8, <1>9, <1>10, <1>11, <1>12, <1>13, <1>14,
     <1>15, <1>16, <1>17, <1>18, <1>19, <1>20, <1>21, <1>22, <1>23, <1>24, <1>25, <1>26,
     <1>27, <1>28, <1>29, <1>30, <1>31, <1>32, <1>33, <1>34, <1>35, <1>36, <1>37, <1>38,
     <1>39
     DEF Next, RunNext, PlanNext, ExecuteNext, FanoutNext

LEMMA PhaseLeads ==
    ASSUME TypedInv, [Next]_vars
    PROVE  /\ phase' = phase \/ (Enter /\ phase' = me.next /\ pc' = me.next)
           /\ Integrating' => Enter \/ (Integrating /\ phase' = phase)
           /\ pc' = "lease" => \/ Rebase
                               \/ /\ pc = "lease" /\ local' = local /\ me' = me /\ phase' = phase
                                  /\ dirty' = dirty
                                  /\ (remote' = remote \/ HumanPushes)
           /\ pc' = "reconcile" => \/ pc = "reconcile" /\ me' = me /\ phase' = phase
                                      /\ local' = local /\ dirty' = dirty
                                   \/ Boot
<1> DEFINE I == /\ phase' = phase \/ (Enter /\ phase' = me.next /\ pc' = me.next)
                /\ Integrating' => Enter \/ (Integrating /\ phase' = phase)
                /\ pc' = "lease" => \/ Rebase
                                    \/ /\ pc = "lease" /\ local' = local /\ me' = me
                                       /\ dirty' = dirty
                                       /\ phase' = phase /\ (remote' = remote \/ HumanPushes)
                /\ pc' = "reconcile" => \/ pc = "reconcile" /\ me' = me /\ phase' = phase
                                           /\ local' = local /\ dirty' = dirty
                                        \/ Boot
<1> SUFFICES I
  OBVIOUS
<1> USE DEF Integrating
<1>1. CASE UNCHANGED <<pc, phase, me, local, dirty, remote>>
  BY <1>1
<1>2. me \in Memory
  BY DEF TypedInv, WorkTypeOK
<1>3. CASE Enter
  BY <1>3, <1>2, MemoryHas, NamesAre
     DEF Enter, Late, Resumed
<1>4. CASE Boot
  BY <1>4, <1>2, Leads, MemoryLeads
     DEF Boot, Recovered
<1>5. CASE HumanPushes
  BY <1>5
     DEF HumanPushes
<1>6. CASE BootFails \/ ReconcileFresh \/ ReconcileResume \/ ReconcileFails
         \/ EnterFails \/ ReenterReview
  BY <1>1, <1>2, Leads, MemoryLeads, <1>6
     DEF BootFails, ReconcileFresh, ReconcileResume, Adopted, ReconcileFails, EnterFails,
         ReenterReview
<1>7. CASE Park \/ Release \/ Crash \/ Sweep \/ Draft
  BY <1>1, <1>2, Leads, MemoryLeads, <1>7
     DEF Park, Saved, Release, Crash, Sweep, Draft, Drafted, Plans, MobDrafts, SoloDrafts,
         Stays
<1>8. CASE Diagnose(ReselectCap) \/ DraftFails \/ Approve \/ Adjust \/ ApproveFails
  BY <1>1, <1>2, Leads, MemoryLeads, <1>8
     DEF Diagnose, Stays, DraftFails, Approve, Adjust, Reply, ApproveFails
<1>9. CASE Split \/ NoSplit \/ SplitFails \/ Note \/ CreateSubtask
  BY <1>1, <1>2, Leads, MemoryLeads, <1>9
     DEF Split, Stays, NoSplit, SplitFails, Note, CreateSubtask, ToCreate
<1>10. CASE CreateFails \/ Planned \/ Claim \/ ClaimFails \/ Executed
  BY <1>1, <1>2, Leads, MemoryLeads, <1>10
     DEF CreateFails, Stays, Planned, Claim, Solo, Open, Kept, Tree, History, ClaimFails,
         Board, Executed
<1>11. CASE Writes \/ Measures \/ CommitsItself \/ Finishes \/ Reselects
  BY <1>1, <1>2, Leads, MemoryLeads, <1>11
     DEF Writes, Kept, Board, History, Measures, Identity, Tree, CommitsItself, Finishes,
         Reselects
<1>12. CASE CoderFails \/ Gate \/ Fix \/ Regate \/ CommitWork
  BY <1>1, <1>2, Leads, MemoryLeads, <1>12
     DEF CoderFails, NoCoder, Kept, Board, Tree, History, Gate, Fix, Regate, CommitWork
<1>13. CASE CommitNothing \/ CommitFails \/ Discuss \/ ReviseFails \/ Recheck
  BY <1>1, <1>2, Leads, MemoryLeads, <1>13
     DEF CommitNothing, Kept, Board, Tree, History, CommitFails, Discuss, ReviseFails,
         Discarded, Checked, Recheck, Revised
<1>14. CASE Push \/ PushFails \/ Complete \/ CompleteFails \/ SalvageNothing
  BY <1>1, <1>2, Leads, MemoryLeads, <1>14
     DEF Push, Kept, Board, History, PushFails, Tree, Complete, CompleteFails,
         SalvageNothing
<1>15. CASE Salvage \/ Authority \/ Salvaged \/ StoppedAtWork \/ Race
  BY <1>1, <1>2, Leads, MemoryLeads, <1>15
     DEF Salvage, Kept, Board, History, Authority, Salvaged, Tree, StoppedAtWork, Race
<1>16. CASE RaceFails \/ RaceSkipped \/ Join \/ RaceStopped \/ NothingToJudge
  BY <1>1, <1>2, Leads, MemoryLeads, <1>16
     DEF RaceFails, RaceSkipped, Join, Returned, RaceStopped, Leaves, NothingToJudge
<1>17. CASE JudgeVerifies \/ NobodyToJudge \/ JudgeChooses \/ JudgeFails \/ Adopt
  BY <1>1, <1>2, Leads, MemoryLeads, <1>17
     DEF JudgeVerifies, Steps, NobodyToJudge, Judging, Returned, JudgeChooses, JudgeFails,
         Adopt
<1>18. CASE AdoptFails \/ Replay \/ Replayed \/ Document \/ DocumentBroke
  BY <1>1, <1>2, Leads, MemoryLeads, <1>18
     DEF AdoptFails, Replay, ToReplay, Open, Replayed, Document, Undone, Rests,
         DocumentBroke, Tree
<1>19. CASE DocumentPushes \/ StartReview \/ StartReviewFails \/ Fixes \/ Discards
  BY <1>1, <1>2, Leads, MemoryLeads, <1>19
     DEF DocumentPushes, Rests, StartReview, Tree, StartReviewFails, Fixes, Discards
<1>20. CASE Approved \/ Parks \/ PhaseFails \/ ReadsTip \/ Rebase
  BY <1>1, <1>2, Leads, MemoryLeads, <1>20
     DEF Approved, Rests, Tree, Parks, ParkedForPeople, PhaseFails, ReadsTip, Rebase,
         Rebased, SquashedOnConflict
<1>21. CASE IntegrateFails \/ LeasePush \/ LeaseFails \/ OpensPull \/ GatesPass
  BY <1>1, <1>2, Leads, MemoryLeads, <1>21
     DEF IntegrateFails, Rests, Tree, LeasePush, LeaseFails, OpensPull, GatesPass
<1>22. CASE Done \/ Stopped
  BY <1>1, <1>2, Leads, MemoryLeads, <1>22
     DEF Done, Stopped
<1>23. ASSUME NEW t \in Tasks, Cancel(t)
      PROVE  I
  BY <1>1, <1>2, Leads, MemoryLeads, <1>23
     DEF Cancel
<1>24. ASSUME NEW i \in Candidates, CandidateClaims(i)
      PROVE  I
  BY <1>1, <1>2, Leads, MemoryLeads, <1>24
     DEF CandidateClaims, Steps
<1>25. ASSUME NEW i \in Candidates, CandidateBroke(i)
      PROVE  I
  BY <1>1, <1>2, Leads, MemoryLeads, <1>25
     DEF CandidateBroke, Drops, Steps
<1>26. ASSUME NEW i \in Candidates, CandidateWorks(i)
      PROVE  I
  BY <1>1, <1>2, Leads, MemoryLeads, <1>26
     DEF CandidateWorks, Passed, Rest, Steps
<1>27. ASSUME NEW i \in Candidates, CandidateCapped(i)
      PROVE  I
  BY <1>1, <1>2, Leads, MemoryLeads, <1>27
     DEF CandidateCapped, CapSaves, Drops, Steps
<1>28. ASSUME NEW i \in Candidates, CandidateReselects(i)
      PROVE  I
  BY <1>1, <1>2, Leads, MemoryLeads, <1>28
     DEF CandidateReselects, Drops, Steps
<1> QED
  BY <1>1, <1>3, <1>4, <1>5, <1>6, <1>7, <1>8, <1>9, <1>10, <1>11, <1>12, <1>13, <1>14,
     <1>15, <1>16, <1>17, <1>18, <1>19, <1>20, <1>21, <1>22, <1>23, <1>24, <1>25, <1>26,
     <1>27, <1>28
     DEF Next, RunNext, PlanNext, ExecuteNext, FanoutNext

LEMMA ParksStep ==
    ASSUME TypedInv, [Next]_vars, pc' = "park"
    PROVE  \/ /\ pc = "park" /\ me' = me /\ UNCHANGED <<local, dirty, phase>>
              /\ (remote' = remote \/ HumanPushes)
           \/ me'.why = "error"
           \/ /\ pc = "reconcile" \/ Carries
              /\ me'.tip = me.tip /\ me'.pushed = me.pushed
              /\ UNCHANGED <<phase, remote, dirty>>
              /\ local' = local \/ (pc = "adopt" /\ local' = cands[me.winner].work)
<1> DEFINE I == \/ /\ pc = "park" /\ me' = me /\ UNCHANGED <<local, dirty, phase>>
                   /\ (remote' = remote \/ HumanPushes)
                \/ me'.why = "error"
                \/ /\ pc = "reconcile" \/ Carries
                   /\ me'.tip = me.tip /\ me'.pushed = me.pushed
                   /\ UNCHANGED <<phase, remote, dirty>>
                   /\ local' = local \/ (pc = "adopt" /\ local' = cands[me.winner].work)
<1> SUFFICES I
  OBVIOUS
<1> USE DEF Carries
<1>1. CASE UNCHANGED <<pc, phase, me, local, dirty, remote>>
  BY <1>1
<1>2. me \in Memory /\ (Exit("error") => me'.why = "error")
  BY DEF TypedInv, WorkTypeOK, Exit, Memory
<1>3. CASE Enter
  BY <1>3, <1>2, MemoryHas, NamesAre
     DEF Enter, Late, Resumed
<1>4. CASE HumanPushes
  BY <1>4
     DEF HumanPushes
<1>5. CASE Boot \/ BootFails \/ ReconcileFresh \/ ReconcileResume \/ ReconcileFails
  BY <1>1, <1>2, Leads, MemoryLeads, <1>5
     DEF Boot, Recovered, BootFails, ReconcileFresh, ReconcileResume, Adopted,
         ReconcileFails
<1>6. CASE EnterFails \/ ReenterReview \/ Park \/ Release \/ Crash \/ Sweep
  BY <1>1, <1>2, Leads, MemoryLeads, <1>6
     DEF EnterFails, ReenterReview, Park, Saved, Release, Crash, Sweep
<1>7. CASE Draft \/ Diagnose(ReselectCap) \/ DraftFails \/ Approve \/ Adjust
  BY <1>1, <1>2, Leads, MemoryLeads, <1>7
     DEF Draft, Drafted, Plans, MobDrafts, SoloDrafts, Stays, Diagnose, DraftFails, Approve,
         Adjust, Reply
<1>8. CASE ApproveFails \/ Split \/ NoSplit \/ SplitFails \/ Note
  BY <1>1, <1>2, Leads, MemoryLeads, <1>8
     DEF ApproveFails, Stays, Split, NoSplit, SplitFails, Note
<1>9. CASE CreateSubtask \/ CreateFails \/ Planned \/ Claim \/ ClaimFails
  BY <1>1, <1>2, Leads, MemoryLeads, <1>9
     DEF CreateSubtask, ToCreate, CreateFails, Stays, Planned, Claim, Solo, Open, Kept,
         Tree, History, ClaimFails, Board
<1>10. CASE Executed \/ Writes \/ Measures \/ CommitsItself \/ Finishes
  BY <1>1, <1>2, Leads, MemoryLeads, <1>10
     DEF Executed, Solo, Kept, Board, Tree, History, Writes, Measures, Identity,
         CommitsItself, Finishes
<1>11. CASE Reselects \/ CoderFails \/ Gate \/ Fix \/ Regate
  BY <1>1, <1>2, Leads, MemoryLeads, <1>11
     DEF Reselects, Kept, Board, Tree, History, CoderFails, NoCoder, Gate, Fix, Regate
<1>12. CASE CommitWork \/ CommitNothing \/ CommitFails \/ Discuss \/ ReviseFails
  BY <1>1, <1>2, Leads, MemoryLeads, <1>12
     DEF CommitWork, Kept, Board, CommitNothing, Tree, History, CommitFails, Discuss,
         ReviseFails, Discarded, Checked
<1>13. CASE Recheck \/ Push \/ PushFails \/ Complete \/ CompleteFails
  BY <1>1, <1>2, Leads, MemoryLeads, <1>13
     DEF Recheck, Discarded, Checked, Revised, Kept, Board, History, Push, PushFails, Tree,
         Complete, CompleteFails
<1>14. CASE SalvageNothing \/ Salvage \/ Authority \/ Salvaged \/ StoppedAtWork
  BY <1>1, <1>2, Leads, MemoryLeads, <1>14
     DEF SalvageNothing, Kept, Tree, History, Salvage, Board, Authority, Salvaged,
         StoppedAtWork
<1>15. CASE Race \/ RaceFails \/ RaceSkipped \/ Join \/ RaceStopped
  BY <1>1, <1>2, Leads, MemoryLeads, <1>15
     DEF Race, RaceFails, RaceSkipped, Join, Returned, RaceStopped, Leaves
<1>16. CASE NothingToJudge \/ JudgeVerifies \/ NobodyToJudge \/ JudgeChooses \/ JudgeFails
  BY <1>1, <1>2, Leads, MemoryLeads, <1>16
     DEF NothingToJudge, JudgeVerifies, Steps, NobodyToJudge, Judging, Returned,
         JudgeChooses, JudgeFails
<1>17. CASE Adopt \/ AdoptFails \/ Replay \/ Replayed \/ Document
  BY <1>1, <1>2, Leads, MemoryLeads, <1>17
     DEF Adopt, AdoptFails, Replay, ToReplay, Open, Replayed, Document, Undone, Rests
<1>18. CASE DocumentBroke \/ DocumentPushes \/ StartReview \/ StartReviewFails \/ Fixes
  BY <1>1, <1>2, Leads, MemoryLeads, <1>18
     DEF DocumentBroke, Rests, Tree, DocumentPushes, StartReview, StartReviewFails, Fixes
<1>19. CASE Discards \/ Approved \/ Parks \/ PhaseFails \/ ReadsTip
  BY <1>1, <1>2, Leads, MemoryLeads, <1>19
     DEF Discards, Rests, Approved, Tree, Parks, ParkedForPeople, PhaseFails, ReadsTip
<1>20. CASE Rebase \/ IntegrateFails \/ LeasePush \/ LeaseFails \/ OpensPull
  BY <1>1, <1>2, Leads, MemoryLeads, <1>20
     DEF Rebase, Rebased, SquashedOnConflict, Rests, IntegrateFails, Tree, LeasePush,
         LeaseFails, OpensPull
<1>21. CASE GatesPass \/ Done \/ Stopped
  BY <1>1, <1>2, Leads, MemoryLeads, <1>21
     DEF GatesPass, Rests, Tree, Done, Stopped
<1>22. ASSUME NEW t \in Tasks, Cancel(t)
      PROVE  I
  BY <1>1, <1>2, Leads, MemoryLeads, <1>22
     DEF Cancel
<1>23. ASSUME NEW i \in Candidates, CandidateClaims(i)
      PROVE  I
  BY <1>1, <1>2, Leads, MemoryLeads, <1>23
     DEF CandidateClaims, Steps
<1>24. ASSUME NEW i \in Candidates, CandidateBroke(i)
      PROVE  I
  BY <1>1, <1>2, Leads, MemoryLeads, <1>24
     DEF CandidateBroke, Drops, Steps
<1>25. ASSUME NEW i \in Candidates, CandidateWorks(i)
      PROVE  I
  BY <1>1, <1>2, Leads, MemoryLeads, <1>25
     DEF CandidateWorks, Passed, Rest, Steps
<1>26. ASSUME NEW i \in Candidates, CandidateCapped(i)
      PROVE  I
  BY <1>1, <1>2, Leads, MemoryLeads, <1>26
     DEF CandidateCapped, CapSaves, Drops, Steps
<1>27. ASSUME NEW i \in Candidates, CandidateReselects(i)
      PROVE  I
  BY <1>1, <1>2, Leads, MemoryLeads, <1>27
     DEF CandidateReselects, Drops, Steps
<1> QED
  BY <1>1, <1>3, <1>4, <1>5, <1>6, <1>7, <1>8, <1>9, <1>10, <1>11, <1>12, <1>13, <1>14,
     <1>15, <1>16, <1>17, <1>18, <1>19, <1>20, <1>21, <1>22, <1>23, <1>24, <1>25, <1>26,
     <1>27
     DEF Next, RunNext, PlanNext, ExecuteNext, FanoutNext

LEMMA YoungStep ==
    ASSUME TypedInv, [Next]_vars, Young, remote' # remote
    PROVE  HumanPushes \/ me'.pushed = TRUE
<1> DEFINE I == HumanPushes \/ me'.pushed = TRUE
<1> SUFFICES I
  OBVIOUS
<1> USE DEF Young, Carries, LateNext
<1>1. CASE UNCHANGED remote
  BY <1>1
<1>2. me \in Memory
  BY DEF TypedInv, WorkTypeOK
<1>3. CASE HumanPushes
  BY <1>3
<1>4. CASE Push
  BY <1>4, <1>2, Leads, MemoryLeads
     DEF Push, Kept, Board, History, Memory
<1>5. CASE Authority
  BY <1>5, <1>2, Leads, MemoryLeads
     DEF Authority, Kept, Board, History, Memory
<1>6. CASE Adopt
  BY <1>6, <1>2, Leads, MemoryLeads
     DEF Adopt, Memory
<1>7. CASE DocumentPushes
  BY <1>7, <1>2, Leads, MemoryLeads
     DEF DocumentPushes, Rests, Memory
<1>8. CASE Fixes
  BY <1>8, <1>2, Leads, MemoryLeads
     DEF Fixes, Rests, Memory
<1>9. CASE LeasePush
  BY <1>9, <1>2, Leads, MemoryLeads
     DEF LeasePush, Rests, Memory
<1>10. CASE Park
  BY <1>10, <1>2, Leads, MemoryLeads
     DEF Park, Saved, Memory
<1>11. CASE Boot \/ BootFails \/ ReconcileFresh \/ ReconcileResume \/ ReconcileFails
         \/ Enter \/ EnterFails \/ ReenterReview \/ Release \/ Crash \/ Sweep
  BY <1>1, <1>2, <1>11
     DEF Boot, Recovered, BootFails, ReconcileFresh, ReconcileResume, Adopted,
         ReconcileFails, Enter, Late, Resumed, EnterFails, ReenterReview, Release, Crash,
         Sweep
<1>12. CASE Draft \/ Diagnose(ReselectCap) \/ DraftFails \/ Approve \/ Adjust
         \/ ApproveFails \/ Split \/ NoSplit \/ SplitFails \/ Note
  BY <1>1, <1>2, <1>12
     DEF Draft, Drafted, Plans, MobDrafts, SoloDrafts, Stays, Diagnose, DraftFails, Approve,
         Adjust, Reply, ApproveFails, Split, NoSplit, SplitFails, Note
<1>13. CASE CreateSubtask \/ CreateFails \/ Planned \/ Claim \/ ClaimFails \/ Executed
         \/ Writes \/ Measures \/ CommitsItself \/ Finishes
  BY <1>1, <1>2, <1>13
     DEF CreateSubtask, ToCreate, CreateFails, Stays, Planned, Claim, Solo, Open, Kept,
         Tree, History, ClaimFails, Board, Executed, Writes, Measures, Identity,
         CommitsItself, Finishes
<1>14. CASE Reselects \/ CoderFails \/ Gate \/ Fix \/ Regate \/ CommitWork
         \/ CommitNothing \/ CommitFails \/ Discuss \/ ReviseFails
  BY <1>1, <1>2, <1>14
     DEF Reselects, Kept, Board, Tree, History, CoderFails, NoCoder, Gate, Fix, Regate,
         CommitWork, CommitNothing, CommitFails, Discuss, ReviseFails, Discarded, Checked
<1>15. CASE Recheck \/ PushFails \/ Complete \/ CompleteFails \/ SalvageNothing \/ Salvage
         \/ Salvaged \/ StoppedAtWork \/ Race \/ RaceFails
  BY <1>1, <1>2, <1>15
     DEF Recheck, Discarded, Checked, Revised, Kept, Board, History, PushFails, Tree,
         Complete, CompleteFails, SalvageNothing, Salvage, Salvaged, StoppedAtWork, Race,
         RaceFails
<1>16. CASE RaceSkipped \/ Join \/ RaceStopped \/ NothingToJudge \/ JudgeVerifies
         \/ NobodyToJudge \/ JudgeChooses \/ JudgeFails \/ AdoptFails \/ Replay
  BY <1>1, <1>2, <1>16
     DEF RaceSkipped, Join, Returned, RaceStopped, Leaves, NothingToJudge, JudgeVerifies, Steps,
         NobodyToJudge, Judging, JudgeChooses, JudgeFails, AdoptFails, Replay, ToReplay,
         Open
<1>17. CASE Replayed \/ Document \/ DocumentBroke \/ StartReview \/ StartReviewFails
         \/ Discards \/ Approved \/ Parks \/ PhaseFails \/ ReadsTip
  BY <1>1, <1>2, <1>17
     DEF Replayed, Document, Undone, Rests, DocumentBroke, Tree, StartReview,
         StartReviewFails, Discards, Approved, Parks, ParkedForPeople, PhaseFails, ReadsTip
<1>18. CASE Rebase \/ IntegrateFails \/ LeaseFails \/ OpensPull \/ GatesPass \/ Done
         \/ Stopped
  BY <1>1, <1>2, <1>18
     DEF Rebase, Rebased, SquashedOnConflict, Rests, IntegrateFails, Tree, LeaseFails,
         OpensPull, GatesPass, Done, Stopped
<1>19. ASSUME NEW t \in Tasks, Cancel(t)
      PROVE  I
  BY <1>1, <1>2, <1>19
     DEF Cancel
<1>20. ASSUME NEW i \in Candidates, CandidateClaims(i)
      PROVE  I
  BY <1>1, <1>2, <1>20
     DEF CandidateClaims, Steps
<1>21. ASSUME NEW i \in Candidates, CandidateBroke(i)
      PROVE  I
  BY <1>1, <1>2, <1>21
     DEF CandidateBroke, Drops, Steps
<1>22. ASSUME NEW i \in Candidates, CandidateWorks(i)
      PROVE  I
  BY <1>1, <1>2, <1>22
     DEF CandidateWorks, Passed, Rest, Steps
<1>23. ASSUME NEW i \in Candidates, CandidateCapped(i)
      PROVE  I
  BY <1>1, <1>2, <1>23
     DEF CandidateCapped, CapSaves, Drops, Steps
<1>24. ASSUME NEW i \in Candidates, CandidateReselects(i)
      PROVE  I
  BY <1>1, <1>2, <1>24
     DEF CandidateReselects, Drops, Steps
<1> QED
  BY <1>1, <1>3, <1>4, <1>5, <1>6, <1>7, <1>8, <1>9, <1>10, <1>11, <1>12, <1>13, <1>14,
     <1>15, <1>16, <1>17, <1>18, <1>19, <1>20, <1>21, <1>22, <1>23, <1>24
     DEF Next, RunNext, PlanNext, ExecuteNext, FanoutNext

LEMMA ParkLeads ==
    ASSUME TypedInv, [Next]_vars, pc = "park", pc' = "release"
    PROVE  Park
<1>1. CASE UNCHANGED pc
  BY <1>1
<1>2. me \in Memory
  BY DEF TypedInv, WorkTypeOK
<1>3. CASE Park
  BY <1>3
<1>4. CASE Enter
  BY <1>4, <1>2, MemoryHas, NamesAre
     DEF Enter, Late, Resumed
<1>5. CASE Boot \/ BootFails \/ ReconcileFresh \/ ReconcileResume \/ ReconcileFails
         \/ EnterFails \/ ReenterReview \/ Release \/ Crash \/ Sweep \/ HumanPushes
  BY <1>1, <1>2, Leads, <1>5
     DEF Boot, Recovered, BootFails, ReconcileFresh, ReconcileResume, Adopted,
         ReconcileFails, EnterFails, ReenterReview, Release, Crash, Sweep, HumanPushes
<1>6. CASE Draft \/ Diagnose(ReselectCap) \/ DraftFails \/ Approve \/ Adjust
         \/ ApproveFails \/ Split \/ NoSplit \/ SplitFails \/ Note
  BY <1>1, <1>2, Leads, <1>6
     DEF Draft, Drafted, Plans, MobDrafts, SoloDrafts, Stays, Diagnose, DraftFails, Approve,
         Adjust, Reply, ApproveFails, Split, NoSplit, SplitFails, Note
<1>7. CASE CreateSubtask \/ CreateFails \/ Planned \/ Claim \/ ClaimFails \/ Executed
         \/ Writes \/ Measures \/ CommitsItself \/ Finishes
  BY <1>1, <1>2, Leads, <1>7
     DEF CreateSubtask, ToCreate, CreateFails, Stays, Planned, Claim, Solo, Open, Kept,
         Tree, History, ClaimFails, Board, Executed, Writes, Measures, Identity,
         CommitsItself, Finishes
<1>8. CASE Reselects \/ CoderFails \/ Gate \/ Fix \/ Regate \/ CommitWork \/ CommitNothing
         \/ CommitFails \/ Discuss \/ ReviseFails
  BY <1>1, <1>2, Leads, <1>8
     DEF Reselects, Kept, Board, Tree, History, CoderFails, NoCoder, Gate, Fix, Regate,
         CommitWork, CommitNothing, CommitFails, Discuss, ReviseFails, Discarded, Checked
<1>9. CASE Recheck \/ Push \/ PushFails \/ Complete \/ CompleteFails \/ SalvageNothing
         \/ Salvage \/ Authority \/ Salvaged \/ StoppedAtWork
  BY <1>1, <1>2, Leads, <1>9
     DEF Recheck, Discarded, Checked, Revised, Kept, Board, History, Push, PushFails, Tree,
         Complete, CompleteFails, SalvageNothing, Salvage, Authority, Salvaged,
         StoppedAtWork
<1>10. CASE Race \/ RaceFails \/ RaceSkipped \/ Join \/ RaceStopped \/ NothingToJudge
         \/ JudgeVerifies \/ NobodyToJudge \/ JudgeChooses \/ JudgeFails
  BY <1>1, <1>2, Leads, <1>10
     DEF Race, RaceFails, RaceSkipped, Join, Returned, RaceStopped, Leaves, NothingToJudge,
         JudgeVerifies, Steps, NobodyToJudge, Judging, JudgeChooses, JudgeFails
<1>11. CASE Adopt \/ AdoptFails \/ Replay \/ Replayed \/ Document \/ DocumentBroke
         \/ DocumentPushes \/ StartReview \/ StartReviewFails \/ Fixes
  BY <1>1, <1>2, Leads, <1>11
     DEF Adopt, AdoptFails, Replay, ToReplay, Open, Replayed, Document, Undone, Rests,
         DocumentBroke, Tree, DocumentPushes, StartReview, StartReviewFails, Fixes
<1>12. CASE Discards \/ Approved \/ Parks \/ PhaseFails \/ ReadsTip \/ Rebase
         \/ IntegrateFails \/ LeasePush \/ LeaseFails \/ OpensPull
  BY <1>1, <1>2, Leads, <1>12
     DEF Discards, Rests, Approved, Tree, Parks, ParkedForPeople, PhaseFails, ReadsTip,
         Rebase, Rebased, SquashedOnConflict, IntegrateFails, LeasePush, LeaseFails,
         OpensPull
<1>13. CASE GatesPass \/ Done \/ Stopped
  BY <1>1, <1>2, Leads, <1>13
     DEF GatesPass, Rests, Tree, Done, Stopped
<1>14. ASSUME NEW t \in Tasks, Cancel(t)
      PROVE  Park
  BY <1>1, <1>2, Leads, <1>14
     DEF Cancel
<1>15. ASSUME NEW i \in Candidates, CandidateClaims(i)
      PROVE  Park
  BY <1>1, <1>2, Leads, <1>15
     DEF CandidateClaims, Steps
<1>16. ASSUME NEW i \in Candidates, CandidateBroke(i)
      PROVE  Park
  BY <1>1, <1>2, Leads, <1>16
     DEF CandidateBroke, Drops, Steps
<1>17. ASSUME NEW i \in Candidates, CandidateWorks(i)
      PROVE  Park
  BY <1>1, <1>2, Leads, <1>17
     DEF CandidateWorks, Passed, Rest, Steps
<1>18. ASSUME NEW i \in Candidates, CandidateCapped(i)
      PROVE  Park
  BY <1>1, <1>2, Leads, <1>18
     DEF CandidateCapped, CapSaves, Drops, Steps
<1>19. ASSUME NEW i \in Candidates, CandidateReselects(i)
      PROVE  Park
  BY <1>1, <1>2, Leads, <1>19
     DEF CandidateReselects, Drops, Steps
<1> QED
  BY <1>1, <1>3, <1>4, <1>5, <1>6, <1>7, <1>8, <1>9, <1>10, <1>11, <1>12, <1>13, <1>14,
     <1>15, <1>16, <1>17, <1>18, <1>19
     DEF Next, RunNext, PlanNext, ExecuteNext, FanoutNext

LEMMA LateStep ==
    ASSUME TypedInv, [Next]_vars, Carries, Carries', ~Young, ~Uncommitted, remote' = remote
    PROVE  \/ Discards \/ remote' = local'
           \/ dirty' = "none" /\ local'.work = local.work
<1> DEFINE I == Carries' => \/ Discards \/ remote' = local'
                            \/ dirty' = "none" /\ local'.work = local.work
<1> SUFFICES I
  OBVIOUS
<1> USE DEF Carries, Young, LateNext, Uncommitted
<1>1. CASE UNCHANGED <<local, dirty, pc>>
  BY <1>1
<1>2. me \in Memory /\ local \in Branches
  BY DEF TypedInv, WorkTypeOK, TreeTypeOK
<1>3. CASE Discards
  BY <1>3
<1>4. CASE Rebase
  BY <1>4, <1>2
     DEF Rebase, Rebased, SquashedOnConflict, Rests, Branches
<1>5. CASE Fixes
  BY <1>5, <1>2, Leads, MemoryLeads
     DEF Fixes, Rests
<1>6. CASE Boot \/ BootFails \/ ReconcileFresh \/ ReconcileResume \/ ReconcileFails
         \/ Enter \/ EnterFails \/ ReenterReview \/ Park
  BY <1>1, <1>2, Leads, MemoryLeads, <1>6
     DEF Boot, Recovered, BootFails, ReconcileFresh, ReconcileResume, Adopted,
         ReconcileFails, Enter, Late, Resumed, EnterFails, ReenterReview, Park, Saved
<1>7. CASE Release \/ Crash \/ Sweep \/ HumanPushes \/ Draft \/ Diagnose(ReselectCap)
         \/ DraftFails \/ Approve
  BY <1>1, <1>2, Leads, MemoryLeads, <1>7
     DEF Release, Crash, Sweep, HumanPushes, Draft, Drafted, Plans, MobDrafts, SoloDrafts,
         Stays, Diagnose, DraftFails, Approve
<1>8. CASE Adjust \/ ApproveFails \/ Split \/ NoSplit \/ SplitFails \/ Note
         \/ CreateSubtask \/ CreateFails
  BY <1>1, <1>2, Leads, MemoryLeads, <1>8
     DEF Adjust, Reply, Stays, ApproveFails, Split, NoSplit, SplitFails, Note,
         CreateSubtask, ToCreate, CreateFails
<1>9. CASE Planned \/ Claim \/ ClaimFails \/ Executed \/ Writes \/ Measures
         \/ CommitsItself \/ Finishes
  BY <1>1, <1>2, Leads, MemoryLeads, <1>9
     DEF Planned, Stays, Claim, Solo, Open, Kept, Tree, History, ClaimFails, Board,
         Executed, Writes, Measures, Identity, CommitsItself, Finishes
<1>10. CASE Reselects \/ CoderFails \/ Gate \/ Fix \/ Regate \/ CommitWork
         \/ CommitNothing \/ CommitFails
  BY <1>1, <1>2, Leads, MemoryLeads, <1>10
     DEF Reselects, Kept, Board, Tree, History, CoderFails, NoCoder, Gate, Fix, Regate,
         CommitWork, CommitNothing, CommitFails
<1>11. CASE Discuss \/ ReviseFails \/ Recheck \/ Push \/ PushFails \/ Complete
         \/ CompleteFails \/ SalvageNothing
  BY <1>1, <1>2, Leads, MemoryLeads, <1>11
     DEF Discuss, Kept, Board, Tree, History, ReviseFails, Discarded, Checked, Recheck,
         Revised, Push, PushFails, Complete, CompleteFails, SalvageNothing
<1>12. CASE Salvage \/ Authority \/ Salvaged \/ StoppedAtWork \/ Race \/ RaceFails
         \/ RaceSkipped \/ Join
  BY <1>1, <1>2, Leads, MemoryLeads, <1>12
     DEF Salvage, Kept, Board, History, Authority, Salvaged, Tree, StoppedAtWork, Race,
         RaceFails, RaceSkipped, Join, Returned
<1>13. CASE RaceStopped \/ NothingToJudge \/ JudgeVerifies \/ NobodyToJudge
         \/ JudgeChooses \/ JudgeFails \/ Adopt \/ AdoptFails
  BY <1>1, <1>2, Leads, MemoryLeads, <1>13
     DEF RaceStopped, Leaves, Returned, NothingToJudge, JudgeVerifies, Steps, NobodyToJudge,
         Judging, JudgeChooses, JudgeFails, Adopt, AdoptFails
<1>14. CASE Replay \/ Replayed \/ Document \/ DocumentBroke \/ DocumentPushes
         \/ StartReview \/ StartReviewFails \/ Approved
  BY <1>1, <1>2, Leads, MemoryLeads, <1>14
     DEF Replay, ToReplay, Open, Replayed, Document, Undone, Rests, DocumentBroke, Tree,
         DocumentPushes, StartReview, StartReviewFails, Approved
<1>15. CASE Parks \/ PhaseFails \/ ReadsTip \/ IntegrateFails \/ LeasePush \/ LeaseFails
         \/ OpensPull \/ GatesPass
  BY <1>1, <1>2, Leads, MemoryLeads, <1>15
     DEF Parks, ParkedForPeople, PhaseFails, Rests, Tree, ReadsTip, IntegrateFails,
         LeasePush, LeaseFails, OpensPull, GatesPass
<1>16. CASE Done \/ Stopped
  BY <1>1, <1>2, Leads, MemoryLeads, <1>16
     DEF Done, Stopped
<1>17. ASSUME NEW t \in Tasks, Cancel(t)
      PROVE  I
  BY <1>1, <1>2, Leads, MemoryLeads, <1>17
     DEF Cancel
<1>18. ASSUME NEW i \in Candidates, CandidateClaims(i)
      PROVE  I
  BY <1>1, <1>2, Leads, MemoryLeads, <1>18
     DEF CandidateClaims, Steps
<1>19. ASSUME NEW i \in Candidates, CandidateBroke(i)
      PROVE  I
  BY <1>1, <1>2, Leads, MemoryLeads, <1>19
     DEF CandidateBroke, Drops, Steps
<1>20. ASSUME NEW i \in Candidates, CandidateWorks(i)
      PROVE  I
  BY <1>1, <1>2, Leads, MemoryLeads, <1>20
     DEF CandidateWorks, Passed, Rest, Steps
<1>21. ASSUME NEW i \in Candidates, CandidateCapped(i)
      PROVE  I
  BY <1>1, <1>2, Leads, MemoryLeads, <1>21
     DEF CandidateCapped, CapSaves, Drops, Steps
<1>22. ASSUME NEW i \in Candidates, CandidateReselects(i)
      PROVE  I
  BY <1>1, <1>2, Leads, MemoryLeads, <1>22
     DEF CandidateReselects, Drops, Steps
<1> QED
  BY <1>1, <1>3, <1>4, <1>5, <1>6, <1>7, <1>8, <1>9, <1>10, <1>11, <1>12, <1>13, <1>14,
     <1>15, <1>16, <1>17, <1>18, <1>19, <1>20, <1>21, <1>22
     DEF Next, RunNext, PlanNext, ExecuteNext, FanoutNext

\* What the origin takes, it takes with more on it.
LEMMA TakesMore ==
    ASSUME NEW a \in Branches, NEW b \in Branches, Takes(a), Descends(b, a)
    PROVE  Takes(b)
BY DEF Takes, Descends

\* A step to where the origin takes the branch comes from there, or pushes.
LEMMA FollowsStep ==
    ASSUME TypedInv, ParkInv, [Next]_vars, ~Fault("git"), ~Fault("human"),
           Carries', Follows'
    PROVE  remote' = local' \/ remote' = None \/ (Carries /\ Follows /\ remote' = remote)
<1>1. me \in Memory /\ (remote' = remote \/ remote' = local')
  BY PushingStep DEF TypedInv, WorkTypeOK, HumanPushes, Discards
<1>2. CASE ~Carries
  <2>1. CASE ReconcileFresh /\ phase = "none"
    <3>1. /\ pc = "reconcile" /\ pc' = "enter" /\ remote' = remote
          /\ me'.tip = remote /\ me'.pushed = me.pushed /\ me'.next = me.next
      BY <1>1, <2>1 DEF ReconcileFresh, Memory
    <3>2. me'.next = "plan" /\ me'.pushed = FALSE
      BY <2>1, <3>1 DEF ParkInv
    <3> QED
      BY <3>1, <3>2 DEF Follows, Leased, LeasedNext, FirstIsAhead
  <2>2. CASE ReconcileResume
    BY <2>2 DEF ReconcileResume, Adopted
  <2> QED
    BY <1>2, <2>1, <2>2, ArrivesStep
<1>3. CASE Carries
  <2>1. CASE me'.tip = me.tip /\ me'.pushed = me.pushed
    <3>1. Follows \/ LeasePush
      BY <1>3, <2>1, PlaceLeads DEF Follows, FirstIsAhead
    <3> QED
      BY <1>1, <1>3, <3>1 DEF LeasePush
  <2>2. CASE ReadsTip /\ me'.tip = remote /\ me'.pushed = me.pushed /\ pc' = "rebase"
    <3>1. remote' = remote /\ ~FirstIsAhead'
      BY <2>2 DEF ReadsTip, Tree, Follows, Leased, LeasedNext
    <3>2. CASE me.pushed
      BY <1>3, <3>1, <3>2 DEF Follows, FirstIsAhead
    <3> QED
      BY <2>2, <3>1, <3>2 DEF FirstIsAhead
  <2>3. CASE DocumentPushes
    <3>1. pc = "docpush" /\ local' = local
      BY <2>3 DEF DocumentPushes
    <3>2. CASE FirstIsAhead
      <4>1. remote = me.tip
        BY <1>3, <3>1, <3>2 DEF ParkInv, Young, LateNext
      <4>2. TakesFirst(local)
        BY <3>2, <4>1 DEF TakesFirst, FirstIsAhead
      <4> QED
        BY <2>3, <3>1, <4>2 DEF DocumentPushes
    <3> QED
      BY <1>1, <1>3, <3>2 DEF Follows
  <2>4. ~ReconcileFresh /\ ~(pc' \in {"idle", "reconcile"})
    BY <1>3 DEF Carries, ReconcileFresh
  <2> QED
    BY FirstStep, <2>1, <2>2, <2>3, <2>4
<1> QED
  BY <1>2, <1>3

LEMMA ParkStep == TypedInv /\ RaceInv /\ FixInv /\ ParkInv /\ [Next]_vars => ParkInv'
<1> SUFFICES ASSUME TypedInv, RaceInv, FixInv, ParkInv, [Next]_vars, ~Fault("git"), ~Fault("human")
             PROVE  ParkInv'
  BY CardKept DEF ParkInv
<1>1. /\ me \in Memory /\ local \in Branches /\ local' \in Branches /\ None \notin Branches
      /\ remote \in Branches \cup {None} /\ RaceTypeOK /\ ~HumanPushes
  BY TreeStep DEF TypedInv, WorkTypeOK, TreeTypeOK, HumanPushes
<1>2. /\ pc \in {"idle", "reconcile"} => local = Base /\ dirty = "none"
      /\ pc = "reconcile" => /\ me.tip = None /\ me.pushed = FALSE
                             /\ phase = "none" => me.next = "plan"
                             /\ phase = "pr_gates" => me.next = "pr_gates"
      /\ pc = "reviewing" /\ me.preFix # None =>
            ~Uncommitted /\ me.preFix.work \subseteq AtOrigin
      /\ Integrating => phase = "integrate"
      /\ phase = "pr_gates" => ~Carries \/ Leased
      /\ Young /\ FirstIsAhead => remote = me.tip
      /\ Carries /\ Follows /\ pc # "lease" => Takes(local) \/ (~Young /\ Within)
      /\ pc = "lease" /\ Follows /\ ~Rewriting => Takes(local) \/ Within
      /\ Racers /\ Follows => \A i \in Candidates : Takes(cands[i].work)
      /\ pc = "park" /\ SavesWIP /\ ~Overwriting /\ ~Rewriting => Takes(local) \/ Within
  BY DEF ParkInv
<1>3. remote' = remote => \A b : Takes(b) => (remote' # None => Descends(b, remote'))
  BY DEF Takes
<1>4. (pc \in {"idle", "reconcile"} => local = Base /\ dirty = "none")'
  <2>1. CASE Boot
    BY <1>2, <2>1 DEF Boot
  <2> QED
    BY <1>2, <2>1, IdleStep, PhaseLeads
<1>5. (pc = "reconcile" => /\ me.tip = None /\ me.pushed = FALSE
                           /\ phase = "none" => me.next = "plan"
                           /\ phase = "pr_gates" => me.next = "pr_gates")'
  <2>1. CASE Boot
    BY <2>1 DEF Boot, Fresh
  <2> QED
    BY <1>2, <2>1, PhaseLeads
<1>6. (Integrating => phase = "integrate")'
  <2>1. CASE Enter
    BY <1>1, <2>1, MemoryHas, NamesAre DEF Enter, Integrating
  <2> QED
    BY <1>2, <2>1, PhaseLeads
<1>7. (phase = "pr_gates" => ~Carries \/ Leased)'
  <2> SUFFICES ASSUME phase' = "pr_gates", Carries' PROVE Leased'
    OBVIOUS
  <2>1. CASE Enter /\ phase' = me.next /\ pc' = me.next
    BY <2>1 DEF Leased, LeasedNext
  <2>2. CASE phase' = phase /\ Carries
    BY <1>2, <2>2, PlaceLeads
  <2>3. CASE phase' = phase /\ ~Carries
    <3>1. ReconcileResume
      BY <2>3, ArrivesStep
    <3>2. pc = "reconcile" /\ pc' = "enter" /\ me'.next = me.next
      BY <1>1, <3>1 DEF ReconcileResume, Memory
    <3> QED
      BY <1>2, <2>3, <3>2 DEF Leased, LeasedNext
  <2> QED
    BY PhaseLeads, <2>1, <2>2, <2>3
<1>8. (Young /\ FirstIsAhead => remote = me.tip)'
  <2> SUFFICES ASSUME Young', FirstIsAhead' PROVE remote' = me'.tip
    OBVIOUS
  <2>1. CASE ReconcileFresh
    BY <1>1, <2>1 DEF ReconcileFresh, Memory
  <2>2. CASE ReconcileResume
    <3>1. me'.tip = None
      BY <1>1, <1>2, <2>2 DEF ReconcileResume, Memory
    <3> QED
      BY <3>1 DEF FirstIsAhead
  <2>3. CASE Young /\ ~ReconcileFresh
    <3>1. pc # "integrate" /\ pc' \notin {"idle", "reconcile"} /\ me'.tip # None /\ ~me'.pushed
      BY <2>3 DEF Young, Carries, LateNext, FirstIsAhead
    <3>2. me'.tip = me.tip /\ me'.pushed = me.pushed
      BY FirstStep, <2>3, <3>1 DEF ReadsTip
    <3> QED
      BY <1>1, <1>2, <2>3, <3>1, <3>2, YoungStep DEF FirstIsAhead
  <2> QED
    BY PlaceLeads, <2>1, <2>2, <2>3
<1>9. (Carries /\ Follows /\ pc # "lease" => Takes(local) \/ (~Young /\ Within))'
  <2> SUFFICES ASSUME Carries', Follows', pc' # "lease"
               PROVE  Takes(local)' \/ (~Young' /\ Within')
    OBVIOUS
  <2>1. CASE remote' = local' \/ remote' = None
    BY <2>1 DEF Takes, Descends
  <2>2. CASE Carries /\ Follows /\ remote' = remote
    <3>1. CASE pc = "lease"
      <4>1. LeasePush
        BY <3>1, PlaceLeads DEF Carries
      <4> QED
        BY <2>1, <4>1 DEF LeasePush
    <3>2. ~Young => ~Young'
      BY <2>2, PlaceLeads DEF ReconcileFresh, ReconcileResume, Carries
    <3>3. CASE Discards
      <4>1. ~Young /\ local' = me.preFix /\ dirty' = dirty
        BY <3>3 DEF Discards, Young
      <4>2. ~Uncommitted /\ me.preFix.work \subseteq AtOrigin
        BY <1>2, <3>3 DEF Discards
      <4> QED
        BY <2>2, <3>2, <4>1, <4>2 DEF Within, Uncommitted, AtOrigin
    <3>4. CASE pc # "lease" /\ ~Young /\ Within /\ ~Discards
      <4>1. \/ remote' = local'
            \/ dirty' = "none" /\ local'.work = local.work
        BY <2>2, <3>4, LateStep DEF Within, Uncommitted
      <4> QED
        BY <2>1, <2>2, <3>2, <3>4, <4>1 DEF Within, Uncommitted, AtOrigin
    <3>5. CASE pc # "lease" /\ Takes(local) /\ Descends(local', local)
      BY <1>1, <2>2, <3>5, TakesMore DEF Takes
    <3>6. CASE Adopt
      BY <2>1, <3>6 DEF Adopt
    <3>7. ~ReconcileResume /\ ~AdoptFails /\ pc' # "idle" /\ ~Rebase
      BY <1>1, <2>2, Leads DEF Carries, ReconcileResume, AdoptFails, Rebase
    <3> QED
      BY LocalStep, <1>2, <2>2, <3>1, <3>3, <3>4, <3>5, <3>6, <3>7 DEF Descends
  <2> QED
    BY FollowsStep, <2>1, <2>2
<1>10. (pc = "lease" /\ Follows /\ ~Rewriting => Takes(local) \/ Within)'
  <2> SUFFICES ASSUME pc' = "lease", Follows', ~Rewriting' PROVE Takes(local)' \/ Within'
    OBVIOUS
  <2>1. CASE Rebase
    <3>1. pc = "rebase" /\ remote' = remote /\ me' = me /\ phase' = phase
      BY <2>1 DEF Rebase, Rests
    <3>2. phase = "integrate" /\ local'.work = local.work /\ (~Uncommitted => ~Uncommitted')
      BY <1>1, <1>2, <2>1 DEF Rebase, Rebased, SquashedOnConflict, Integrating, Branches,
                              Uncommitted
    <3>3. Takes(local) \/ Within
      BY <1>2, <3>1 DEF Follows, Leased, LeasedNext, FirstIsAhead, Carries
    <3>4. CASE Within
      BY <3>1, <3>2, <3>4 DEF Within, AtOrigin
    <3>5. remote' = None \/ local'.root = remote'.root
      BY <3>1, <3>2 DEF Rewriting
    <3> QED
      BY <3>1, <3>2, <3>3, <3>4, <3>5 DEF Takes, Descends
  <2>2. CASE /\ pc = "lease" /\ local' = local /\ me' = me /\ phase' = phase
             /\ remote' = remote /\ dirty' = dirty
    BY <1>2, <2>2 DEF Follows, FirstIsAhead, Leased, Rewriting, Takes, Within, Uncommitted,
                      AtOrigin
  <2> QED
    BY <1>1, <2>1, <2>2, PhaseLeads
<1>11. (Racers /\ Follows => \A i \in Candidates : Takes(cands[i].work))'
  <2> SUFFICES ASSUME Racers', Follows', NEW i \in Candidates' PROVE Takes(cands[i].work)'
    OBVIOUS
  <2>1. ~FirstIsAhead' /\ pc' \notin {"idle", "reconcile", "rebase"} /\ cands' # << >>
    BY DEF Racers, Follows, Leased, LeasedNext, Candidates
  <2>2. cands'[i].work \in Branches
    BY RaceStep DEF RaceTypeOK, Cand, Candidates
  <2>3. Racers \/ pc = "execute" => ~FirstIsAhead
    <3> SUFFICES ASSUME Racers \/ pc = "execute" PROVE ~FirstIsAhead
      OBVIOUS
    <3>1. pc # "reconcile"
      BY DEF Racers
    <3>2. ~ReconcileFresh
      BY <3>1 DEF ReconcileFresh
    <3>3. me'.tip = me.tip /\ me'.pushed = me.pushed
      BY FirstStep, <2>1, <3>2
    <3> QED
      BY <2>1, <3>3 DEF FirstIsAhead
  <2>4. CASE Racers /\ i \in Candidates /\ Descends(cands'[i].work, cands[i].work)
    <3>1. remote' = remote
      BY <1>1, <2>4, PushingStep DEF Discards, Racers
    <3>2. Takes(cands[i].work) /\ cands[i].work \in Branches
      BY <1>1, <1>2, <2>3, <2>4 DEF Follows, RaceTypeOK, Cand
    <3> QED
      BY <2>2, <2>4, <3>1, <3>2, TakesMore DEF Takes
  <2>5. CASE pc = "execute" /\ cands'[i].work = local
    <3>1. local' = local /\ remote' = remote
      BY <2>1, <2>5, RaceStarts
    <3>2. Takes(local)
      BY <1>2, <2>3, <2>5 DEF Follows, Carries, Young, LateNext
    <3> QED
      BY <2>5, <3>1, <3>2 DEF Takes
  <2> QED
    BY RaceWorkStep, <2>1, <2>4, <2>5
<1>12. (pc = "park" /\ SavesWIP /\ ~Overwriting /\ ~Rewriting => Takes(local) \/ Within)'
  <2> SUFFICES ASSUME pc' = "park", SavesWIP', ~Overwriting', ~Rewriting'
               PROVE  Takes(local)' \/ Within'
    OBVIOUS
  <2>1. CASE pc = "park" /\ me' = me /\ UNCHANGED <<local, dirty, phase, remote>>
    BY <1>2, <2>1 DEF SavesWIP, Overwriting, Rewriting, Takes, Within, Uncommitted, AtOrigin
  <2>2. me'.why # "error"
    BY DEF SavesWIP
  <2>3. ASSUME pc = "reconcile", local' = local, dirty' = dirty
        PROVE  Within'
    BY <1>2, <2>3 DEF Base, Within, Uncommitted
  <2>4. ASSUME Carries, me'.tip = me.tip, me'.pushed = me.pushed,
               UNCHANGED <<phase, remote, dirty>>,
               local' = local \/ (pc = "adopt" /\ local' = cands[me.winner].work)
        PROVE  Takes(local)' \/ Within'
    <3>1. Follows
      BY <1>2, <2>4 DEF Overwriting, Follows, FirstIsAhead
    <3>2. CASE local' = local
      <4>1. Takes(local) \/ Within
        BY <1>2, <2>4, <3>1, <3>2 DEF Rewriting, Integrating
      <4> QED
        BY <2>4, <3>2, <4>1 DEF Takes, Within, Uncommitted, AtOrigin
    <3>3. CASE pc = "adopt" /\ local' = cands[me.winner].work
      <4>1. me.winner \in Candidates
        BY <3>3 DEF TypedInv, Grounded, Pool, Verifying, Uncapped, Survivors
      <4> QED
        BY <1>2, <2>4, <3>1, <3>3, <4>1 DEF Racers, Takes
    <3> QED
      BY <2>4, <3>2, <3>3
  <2> QED
    BY ParksStep, <1>1, <2>1, <2>2, <2>3, <2>4
<1>13. (pc = "reviewing" /\ me.preFix # None =>
           ~Uncommitted /\ me.preFix.work \subseteq AtOrigin)'
  <2> SUFFICES ASSUME pc' = "reviewing", me'.preFix # None
               PROVE  ~Uncommitted' /\ me'.preFix.work \subseteq AtOrigin'
    OBVIOUS
  <2>1. CASE pc = "review" /\ me'.preFix = me.preFix
    BY <2>1 DEF FixInv, Unfixed, Carries
  <2>2. CASE /\ pc = "reviewing" /\ me'.preFix = me.preFix /\ dirty' = dirty
             /\ (remote' = remote \/ remote' = me.preFix)
    BY <1>1, <1>2, <2>2 DEF AtOrigin, Uncommitted
  <2>3. CASE /\ me'.preFix = local /\ dirty' = "none" /\ remote' = local'
             /\ \E g \in BOOLEAN : local' = Commit(local, 0, g)
    BY <1>1, <2>3 DEF AtOrigin, Uncommitted, Commit, Branches
  <2> QED
    BY ReviewStep, <1>1, <2>1, <2>2, <2>3
<1> QED
  BY <1>4, <1>5, <1>6, <1>7, <1>8, <1>9, <1>10, <1>11, <1>12, <1>13 DEF ParkInv

LEMMA ParkInit == Init => ParkInv
BY DEF Init, ParkInv, Carries, Racers, Young, Integrating

(* A run that parks leaves everything it worked on at the origin, unless the  *)
(* push fails, somebody else pushed, or what it has does not descend from     *)
(* what is there: because it is a fresh run that has not pushed yet over an   *)
(* abandoned branch, or one that was ended between integrate's rewrite of     *)
(* the branch and its lease push (worker.go, pushWIP; integrate.go). *)
THEOREM ParkSaves == Spec => ParkSavesWork
<1> DEFINE A == Parking /\ ~Fault("git") /\ ~Fault("human") /\ ~Overwriting /\ ~Rewriting
                   => Saved.work \subseteq AtOrigin'
<1>1. TypedInv /\ ParkInv /\ [Next]_vars => A
  <2> SUFFICES ASSUME TypedInv, ParkInv, [Next]_vars, Parking, ~Fault("git"),
                      ~Fault("human"), ~Overwriting, ~Rewriting
               PROVE  Saved.work \subseteq AtOrigin'
    OBVIOUS
  <2>1. /\ local \in Branches /\ None \notin Branches /\ remote \in Branches \cup {None}
        /\ remote' \in Branches \cup {None} /\ me \in Memory
    BY TreeStep DEF TypedInv, WorkTypeOK, TreeTypeOK
  <2>2. /\ Takes(local) \/ Within
        /\ pc = "park" /\ SavesWIP
    BY DEF ParkInv, Parking
  <2>3. Park
    BY ParkLeads DEF Parking
  <2>4. CASE ~Unsaved
    <3>1. Saved = local /\ remote' = remote /\ (local.work = {} \/ local = remote)
      BY <2>3, <2>4 DEF Park, Unsaved, Unpushed, Saved
    <3> QED
      BY <2>1, <3>1 DEF AtOrigin
  <2>5. CASE Unsaved
    <3>1. Saved \in Branches /\ Descends(Saved, local)
      <4>1. Saved \in Branches
        BY <2>1, DataTypes, MemoryHas DEF Saved, TypedInv, WorkTypeOK, TreeTypeOK
      <4> QED
        BY <2>1, <4>1 DEF Saved, Commit, Descends, Branches
    <3>2. remote' = Saved \/ (remote' = remote /\ ~Takes(Saved))
      BY <2>2, <2>3, <2>5 DEF Park
    <3>3. CASE Takes(local)
      <4>1. remote' = Saved
        BY <2>1, <3>1, <3>2, <3>3 DEF Takes, Descends
      <4> QED
        BY <2>1, <3>1, <4>1 DEF AtOrigin
    <3>4. CASE Within
      BY <2>1, <3>1, <3>2, <3>4 DEF Within, Saved, AtOrigin
    <3> QED
      BY <2>2, <3>3, <3>4
  <2> QED
    BY <2>4, <2>5
<1>2. Spec => [](TypedInv /\ ParkInv)
  BY TypedInit, RaceInit, FixInit, ParkInit, TypedStep, RaceInvStep, FixStep, ParkStep, PTL
     DEF Spec
<1> QED
  BY <1>1, <1>2, PTL DEF Spec, ParkSavesWork

-----------------------------------------------------------------------------
(* A completed subtask has a commit of its own. *)

(* The steps of a run that is not behind execute, by what they do to what     *)
(* OwnInv speaks of. *)
Begins == /\ pc = "idle" /\ pc' \in {"idle", "reconcile"} /\ runs' = runs + 1
          /\ UNCHANGED <<remote, local, dirty, start, sub, landed, phase>>
Passes == /\ ~AtSubtask /\ ~AtSubtask' /\ pc \notin {"park", "release"}
          /\ (Carries' => Carries) /\ (pc' \in {"idle", "reconcile"} => pc' = pc)
          /\ UNCHANGED <<remote, local, dirty, start, runs>>
Claims == /\ pc = "execute" /\ ~tc.best /\ Open # {} /\ pc' = "code"
          /\ me'.at = NextTask /\ me'.before \in {local, None} /\ me'.revising = me.revising
          /\ sub' = [sub EXCEPT ![NextTask] = "in_progress"]
          /\ UNCHANGED <<remote, local, dirty, start, runs, landed>>
Works == /\ AtSubtask /\ AtSubtask' /\ pc \notin {"complete", "salvaged"}
         /\ me'.at = me.at /\ me'.before = me.before
         /\ UNCHANGED <<remote, start, runs, sub, landed>>
         /\ \/ /\ local' = local
               /\ Having' => Having \/ (me.before # None /\ local # me.before) \/ EarlierWork
            \/ \E g \in BOOLEAN : local' = Commit(local, me.at, g)
Sends == /\ pc \in {"push", "authority"} /\ pc' \in {"complete", "salvaged"}
         /\ me'.at = me.at /\ me'.before = me.before /\ remote' = local
         /\ UNCHANGED <<local, dirty, start, runs, sub, landed>>
Aborts == /\ AtSubtask /\ pc' = "park" /\ me'.at = me.at
          /\ \/ start' = start
             \/ /\ me.before # None /\ start[me.at] = None
                /\ start' = [start EXCEPT ![me.at] = me.before]
          /\ UNCHANGED <<remote, local, dirty, runs, sub, landed>>
Completes == /\ pc \in {"complete", "salvaged"} /\ pc' = "execute"
             /\ sub' = [sub EXCEPT ![me.at] = "done"]
             /\ landed' = [landed EXCEPT ![me.at] = local]
             /\ UNCHANGED <<remote, local, dirty, start, runs>>
Ends == /\ pc' = "idle" /\ local' = Base /\ dirty' = "none"
        /\ UNCHANGED <<remote, start, runs, sub, landed>>

LEMMA ToSubtask ==
    ASSUME TypedInv, [Next]_vars, AtSubtask'
    PROVE  AtSubtask \/ pc = "execute"
<1> DEFINE I == AtSubtask' => AtSubtask \/ pc = "execute"
<1> SUFFICES I
  OBVIOUS
<1>1. CASE UNCHANGED pc
  BY <1>1 DEF AtSubtask
<1>2. me \in Memory
  BY DEF TypedInv, WorkTypeOK
<1>3. CASE Enter
  BY <1>3, <1>2, MemoryHas, NamesAre
     DEF Enter, Late, Resumed, AtSubtask
<1>4. CASE Boot \/ BootFails \/ ReconcileFresh \/ ReconcileResume \/ ReconcileFails
         \/ EnterFails \/ ReenterReview \/ Park \/ Release \/ Crash \/ Sweep
  BY <1>1, <1>2, Leads, <1>4
     DEF Boot, Recovered, BootFails, ReconcileFresh, ReconcileResume, Adopted,
         ReconcileFails, EnterFails, ReenterReview, Park, Saved, Release, Crash, Sweep,
         AtSubtask
<1>5. CASE HumanPushes \/ Draft \/ Diagnose(ReselectCap) \/ DraftFails \/ Approve
         \/ Adjust \/ ApproveFails \/ Split \/ NoSplit \/ SplitFails
  BY <1>1, <1>2, Leads, <1>5
     DEF HumanPushes, Draft, Drafted, Plans, MobDrafts, SoloDrafts, Stays, Diagnose,
         DraftFails, Approve, Adjust, Reply, ApproveFails, Split, NoSplit, SplitFails,
         AtSubtask
<1>6. CASE Note \/ CreateSubtask \/ CreateFails \/ Planned \/ Claim \/ ClaimFails
         \/ Executed \/ Writes \/ Measures \/ CommitsItself
  BY <1>1, <1>2, Leads, <1>6
     DEF Note, Stays, CreateSubtask, ToCreate, CreateFails, Planned, Claim, Solo, Open,
         Kept, Tree, History, ClaimFails, Board, Executed, Writes, Measures, Identity,
         CommitsItself, AtSubtask
<1>7. CASE Finishes \/ Reselects \/ CoderFails \/ Gate \/ Fix \/ Regate \/ CommitWork
         \/ CommitNothing \/ CommitFails \/ Discuss
  BY <1>1, <1>2, Leads, <1>7
     DEF Finishes, Kept, Board, Tree, History, Reselects, CoderFails, NoCoder, Gate, Fix,
         Regate, CommitWork, CommitNothing, CommitFails, Discuss, AtSubtask
<1>8. CASE ReviseFails \/ Recheck \/ Push \/ PushFails \/ Complete \/ CompleteFails
         \/ SalvageNothing \/ Salvage \/ Authority \/ Salvaged
  BY <1>1, <1>2, Leads, <1>8
     DEF ReviseFails, Discarded, Checked, Kept, Board, History, Recheck, Revised, Push,
         PushFails, Tree, Complete, CompleteFails, SalvageNothing, Salvage, Authority,
         Salvaged, AtSubtask
<1>9. CASE StoppedAtWork \/ Race \/ RaceFails \/ RaceSkipped \/ Join \/ RaceStopped
         \/ NothingToJudge \/ JudgeVerifies \/ NobodyToJudge \/ JudgeChooses
  BY <1>1, <1>2, Leads, <1>9
     DEF StoppedAtWork, Kept, Tree, History, Race, RaceFails, RaceSkipped, Join, Returned,
         RaceStopped, Leaves, NothingToJudge, JudgeVerifies, Steps, NobodyToJudge, Judging,
         JudgeChooses, AtSubtask
<1>10. CASE JudgeFails \/ Adopt \/ AdoptFails \/ Replay \/ Replayed \/ Document
         \/ DocumentBroke \/ DocumentPushes \/ StartReview \/ StartReviewFails
  BY <1>1, <1>2, Leads, <1>10
     DEF JudgeFails, Adopt, AdoptFails, Replay, ToReplay, Open, Replayed, Document, Undone,
         Rests, DocumentBroke, Tree, DocumentPushes, StartReview, StartReviewFails,
         AtSubtask
<1>11. CASE Fixes \/ Discards \/ Approved \/ Parks \/ PhaseFails \/ ReadsTip \/ Rebase
         \/ IntegrateFails \/ LeasePush \/ LeaseFails
  BY <1>1, <1>2, Leads, <1>11
     DEF Fixes, Rests, Discards, Approved, Tree, Parks, ParkedForPeople, PhaseFails,
         ReadsTip, Rebase, Rebased, SquashedOnConflict, IntegrateFails, LeasePush,
         LeaseFails, AtSubtask
<1>12. CASE OpensPull \/ GatesPass \/ Done \/ Stopped
  BY <1>1, <1>2, Leads, <1>12
     DEF OpensPull, Rests, Tree, GatesPass, Done, Stopped, AtSubtask
<1>13. ASSUME NEW t \in Tasks, Cancel(t)
      PROVE  I
  BY <1>1, <1>2, Leads, <1>13
     DEF Cancel, AtSubtask
<1>14. ASSUME NEW i \in Candidates, CandidateClaims(i)
      PROVE  I
  BY <1>1, <1>2, Leads, <1>14
     DEF CandidateClaims, Steps, AtSubtask
<1>15. ASSUME NEW i \in Candidates, CandidateBroke(i)
      PROVE  I
  BY <1>1, <1>2, Leads, <1>15
     DEF CandidateBroke, Drops, Steps, AtSubtask
<1>16. ASSUME NEW i \in Candidates, CandidateWorks(i)
      PROVE  I
  BY <1>1, <1>2, Leads, <1>16
     DEF CandidateWorks, Passed, Rest, Steps, AtSubtask
<1>17. ASSUME NEW i \in Candidates, CandidateCapped(i)
      PROVE  I
  BY <1>1, <1>2, Leads, <1>17
     DEF CandidateCapped, CapSaves, Drops, Steps, AtSubtask
<1>18. ASSUME NEW i \in Candidates, CandidateReselects(i)
      PROVE  I
  BY <1>1, <1>2, Leads, <1>18
     DEF CandidateReselects, Drops, Steps, AtSubtask
<1> QED
  BY <1>1, <1>3, <1>4, <1>5, <1>6, <1>7, <1>8, <1>9, <1>10, <1>11, <1>12, <1>13, <1>14,
     <1>15, <1>16, <1>17, <1>18
     DEF Next, RunNext, PlanNext, ExecuteNext, FanoutNext

LEMMA KindLeads ==
    ASSUME me \in Memory
    PROVE  /\ \A w : Exit(w) => pc' = "park" /\ me'.at = me.at
           /\ \A w : Abort(w) =>
                 /\ pc' = "park" /\ me'.at = me.at /\ sub' = sub
                 /\ \/ start' = start
                    \/ /\ me.before # None /\ start[me.at] = None
                       /\ start' = [start EXCEPT ![me.at] = me.before]
           /\ \A p : Proceed(p) => pc' = "enter"
           /\ Idle => pc' = "idle" /\ local' = Base /\ dirty' = "none"
BY DEF Exit, Abort, Proceed, Idle, Memory

LEMMA KindStep ==
    ASSUME TypedInv, [Next]_vars, Alone, ~tc.best, ~Behind, ~Judged, ~Fault("human"), Revising
    PROVE  \/ UNCHANGED vars \/ Park \/ ReconcileFresh \/ ReconcileResume
           \/ Begins \/ Passes \/ Claims \/ Works \/ Sends \/ Aborts \/ Completes \/ Ends
<1> DEFINE I == \/ UNCHANGED vars \/ Park \/ ReconcileFresh \/ ReconcileResume
                \/ Begins \/ Passes \/ Claims \/ Works \/ Sends \/ Aborts \/ Completes \/ Ends
<1> SUFFICES I
  OBVIOUS
<1>1. CASE UNCHANGED vars
  BY <1>1
<1>2. /\ me \in Memory /\ me.at \in 0 .. NTasks /\ me.next \in PhaseNames
      /\ runs \in Nat /\ me.before \in Branches \cup {None}
      /\ dirty \in {"none", "good", "bad"} /\ cands = << >> /\ Candidates = {}
  BY MemoryHas DEF TypedInv, WorkTypeOK, TreeTypeOK, Alone, Candidates
<1>3. CASE Park \/ ReconcileFresh \/ ReconcileResume
  BY <1>3, <1>2, KindLeads
     DEF Park, Saved, ReconcileFresh, ReconcileResume, Adopted
<1>4. CASE Boot \/ BootFails
  BY <1>4, <1>2, KindLeads
     DEF Boot, Recovered, BootFails, Begins
<1>5. CASE Enter
  BY <1>5, <1>2, NamesAre
     DEF Enter, Late, Resumed, Passes, AtSubtask, Carries
<1>6. CASE ReconcileFails \/ EnterFails \/ ReenterReview \/ Sweep \/ Draft
  BY <1>6, <1>2, KindLeads
     DEF ReconcileFails, EnterFails, ReenterReview, Sweep, Draft, Drafted, Plans,
         MobDrafts, SoloDrafts,
         Stays, Passes, AtSubtask, Carries
<1>7. CASE Diagnose(ReselectCap) \/ DraftFails \/ Approve \/ Adjust \/ ApproveFails
  BY <1>7, <1>2, KindLeads
     DEF Diagnose, Stays, DraftFails, Approve, Adjust, Reply, ApproveFails, Passes,
         AtSubtask, Carries
<1>8. CASE Split \/ NoSplit \/ SplitFails \/ Note \/ CreateFails
  BY <1>8, <1>2, KindLeads
     DEF Split, Stays, NoSplit, SplitFails, Note, CreateFails, Passes, AtSubtask, Carries
<1>9. CASE CreateSubtask \/ Planned
  BY <1>9, <1>2, KindLeads
     DEF CreateSubtask, ToCreate, Planned, Stays, Passes, AtSubtask, Carries
<1>10. CASE ClaimFails \/ Executed \/ Stopped
  BY <1>10, <1>2, KindLeads
     DEF ClaimFails, Solo, Kept, Board, Tree, History, Executed, Stopped, Passes, AtSubtask,
         Carries
<1>11. ASSUME NEW t \in Tasks, Cancel(t)
      PROVE  I
  BY <1>11, <1>2, KindLeads
     DEF Cancel, Passes, AtSubtask, Carries
<1>12. CASE Claim
  <2>1. PICK b \in {local, None} :
            me' = [me EXCEPT !.at = NextTask, !.before = b, !.tool = None, !.verified = FALSE]
    BY <1>12 DEF Claim
  <2>2. me'.at = NextTask /\ me'.before \in {local, None} /\ me'.revising = me.revising
    BY <2>1, <1>2 DEF Memory
  <2>3. Claims
    BY <1>12, <2>2 DEF Claim, Solo, Kept, Tree, History, Claims
  <2> QED
    BY <2>3
<1>13. CASE Writes
  BY <1>13, <1>2, KindLeads
     DEF Writes, Kept, Board, History, Works, AtSubtask, Having, Unmoved, Discussed,
         Identity, Memory
<1>14. CASE Measures
  BY <1>14, <1>2, KindLeads
     DEF Measures, Identity, Kept, Board, Tree, History, Works, AtSubtask, Having, Unmoved,
         Discussed, Memory
<1>15. CASE CommitsItself
  BY <1>15, <1>2, KindLeads
     DEF CommitsItself, Kept, Board, Works, AtSubtask, Having, Unmoved, Discussed, Identity,
         Memory
<1>16. CASE Finishes
  BY <1>16, <1>2, KindLeads
     DEF Finishes, Kept, Board, Tree, History, Works, AtSubtask, Having, Unmoved, Discussed,
         Identity, Memory
<1>17. CASE Reselects
  BY <1>17, <1>2, KindLeads
     DEF Reselects, Kept, Board, Tree, History, Works, AtSubtask, Having, Unmoved,
         Discussed, Identity, Memory
<1>18. CASE Discuss
  BY <1>18, <1>2, KindLeads
     DEF Discuss, Kept, Board, Tree, History, Works, AtSubtask, Having, Unmoved, Discussed,
         Identity, Memory
<1>19. CASE ReviseFails
  BY <1>19, <1>2, KindLeads
     DEF ReviseFails, Discarded, Checked, Kept, Board, History, Works, AtSubtask, Having,
         Unmoved, Discussed, Identity, Memory
<1>20. CASE Recheck
  BY <1>20, <1>2, KindLeads
     DEF Recheck, Discarded, Checked, Revised, Kept, Board, History, Works, AtSubtask,
         Having, Unmoved, Discussed, Identity, Memory
<1>21. CASE Salvage
  BY <1>21, <1>2, KindLeads
     DEF Salvage, Kept, Board, History, Works, AtSubtask, Having, Unmoved, Discussed,
         Identity, Memory
<1>22. CASE CommitWork
  <2>1. local' = Commit(local, me.at, dirty = "good") /\ (dirty = "good") \in BOOLEAN
    BY <1>22 DEF CommitWork
  <2>2. \E g \in BOOLEAN : local' = Commit(local, me.at, g)
    BY <2>1
  <2>3. pc = "commit" /\ pc' \in {"discuss", "push"} /\ me' = me
        /\ UNCHANGED <<remote, start, runs, sub, landed>>
    BY <1>22 DEF CommitWork, Kept, Board, History
  <2>4. Works
    BY <2>2, <2>3 DEF Works, AtSubtask
  <2> QED
    BY <2>4
<1>23. CASE CoderFails
  BY <1>23, <1>2, KindLeads
     DEF CoderFails, NoCoder, Kept, Board, Tree, History, Works, AtSubtask, Having, Unmoved,
         Discussed, Identity, Memory, Aborts
<1>24. CASE Gate
  BY <1>24, <1>2, KindLeads
     DEF Gate, Kept, Board, Tree, History, Works, AtSubtask, Having, Unmoved, Discussed,
         Identity, Memory, Aborts
<1>25. CASE Fix
  BY <1>25, <1>2, KindLeads
     DEF Fix, Kept, Board, History, Works, AtSubtask, Having, Unmoved, Discussed, Identity,
         Memory, Aborts
<1>26. CASE Regate
  BY <1>26, <1>2, KindLeads
     DEF Regate, Kept, Board, Tree, History, Works, AtSubtask, Having, Unmoved, Discussed,
         Identity, Memory, Aborts
<1>27. CASE CommitNothing
  BY <1>27, <1>2, KindLeads
     DEF CommitNothing, Kept, Board, Tree, History, Works, AtSubtask, Having, Unmoved,
         Discussed, Identity, Memory, Aborts
<1>28. CASE CommitFails \/ PushFails \/ CompleteFails \/ SalvageNothing
  BY <1>28, <1>2, KindLeads
     DEF CommitFails, Kept, Tree, History, PushFails, CompleteFails, SalvageNothing, Aborts,
         AtSubtask
<1>29. CASE StoppedAtWork
  BY <1>29, <1>2, KindLeads
     DEF StoppedAtWork, Kept, Tree, History, Aborts, AtSubtask
<1>30. CASE Push
  BY <1>30, <1>2, KindLeads
     DEF Push, Kept, Board, History, Sends, Memory
<1>31. CASE Authority
  BY <1>31, <1>2, KindLeads
     DEF Authority, Kept, Board, History, Sends, Aborts, AtSubtask, Memory
<1>32. CASE Complete
  BY <1>32, <1>2, KindLeads
     DEF Complete, Kept, Tree, Completes
<1>33. CASE Salvaged
  BY <1>33, <1>2, KindLeads
     DEF Salvaged, Kept, Tree, Completes, Aborts, AtSubtask
<1>34. CASE Release \/ Crash
  BY <1>34, <1>2, KindLeads
     DEF Release, Crash, Ends
<1>35. CASE HumanPushes
  BY <1>35, <1>2
     DEF HumanPushes
<1>36. CASE Race \/ RaceFails \/ RaceSkipped \/ Join \/ RaceStopped \/ JudgeVerifies
         \/ JudgeChooses \/ JudgeFails \/ NobodyToJudge
  BY <1>36, <1>2, KindLeads
     DEF Race, RaceFails, RaceSkipped, Join, Returned, RaceStopped, Leaves, JudgeVerifies, Steps,
         JudgeChooses, Judging, JudgeFails, NobodyToJudge, Alone
<1>37. CASE NothingToJudge
  BY <1>37, <1>2, KindLeads
     DEF NothingToJudge, Judged
<1>38. CASE Adopt \/ AdoptFails \/ Replay \/ Replayed
  BY <1>38, <1>2, KindLeads
     DEF Adopt, AdoptFails, Replay, ToReplay, Open, Replayed, Alone
<1>39. CASE Document \/ DocumentBroke \/ DocumentPushes \/ StartReview \/ StartReviewFails
         \/ Fixes \/ Discards \/ Approved
  BY <1>39
     DEF Document, Undone, Rests, DocumentBroke, Tree, DocumentPushes, StartReview,
         StartReviewFails, Fixes, Discards, Approved, Behind, LatePhases
<1>40. CASE Parks \/ PhaseFails \/ ReadsTip \/ Rebase \/ IntegrateFails \/ LeasePush
         \/ LeaseFails \/ OpensPull
  BY <1>40
     DEF Parks, ParkedForPeople, PhaseFails, Rests, Tree, ReadsTip, Rebase, Rebased,
         SquashedOnConflict, IntegrateFails, LeasePush, LeaseFails, OpensPull, Behind,
         LatePhases
<1>41. CASE GatesPass \/ Done
  BY <1>41
     DEF GatesPass, Rests, Tree, Done, Behind, LatePhases
<1>42. ASSUME NEW i \in Candidates, CandidateClaims(i)
      PROVE  I
  BY <1>42, <1>2
     DEF CandidateClaims, Steps, Behind, LatePhases
<1>43. ASSUME NEW i \in Candidates, CandidateBroke(i)
      PROVE  I
  BY <1>43, <1>2
     DEF CandidateBroke, Drops, Steps, Behind, LatePhases
<1>44. ASSUME NEW i \in Candidates, CandidateWorks(i)
      PROVE  I
  BY <1>44, <1>2
     DEF CandidateWorks, Passed, Rest, Steps, Behind, LatePhases
<1>45. ASSUME NEW i \in Candidates, CandidateCapped(i)
      PROVE  I
  BY <1>45, <1>2
     DEF CandidateCapped, CapSaves, Drops, Steps, Behind, LatePhases
<1>46. ASSUME NEW i \in Candidates, CandidateReselects(i)
      PROVE  I
  BY <1>46, <1>2
     DEF CandidateReselects, Drops, Steps, Behind, LatePhases
<1> QED
  BY <1>1, <1>3, <1>4, <1>5, <1>6, <1>7, <1>8, <1>9, <1>10, <1>11, <1>12, <1>13, <1>14, <1>15,
     <1>16, <1>17, <1>18, <1>19, <1>20, <1>21, <1>22, <1>23, <1>24, <1>25, <1>26, <1>27,
     <1>28, <1>29, <1>30, <1>31, <1>32, <1>33, <1>34, <1>35, <1>36, <1>37, <1>38, <1>39,
     <1>40, <1>41, <1>42, <1>43, <1>44, <1>45, <1>46
     DEF Next, RunNext, PlanNext, ExecuteNext, FanoutNext

LEMMA OwnFacts ==
    ASSUME NEW b \in Branches, NEW t \in Tasks, NEW g \in BOOLEAN, runs \in 0 .. MaxRuns
    PROVE  LET c == Commit(b, t, g)
           IN  /\ c \in Branches /\ c.root = b.root /\ c.work = b.work \cup {Own(t)}
               /\ HasOwn(c, t) /\ Descends(c, b)
<1>1. Commit(b, t, g) \in Branches
  <2>1. t \in 0 .. NTasks
    BY DEF Tasks
  <2> QED
    BY <2>1, DataTypes
<1>2. Commit(b, t, g).root = b.root /\ Commit(b, t, g).work = b.work \cup {Own(t)}
  BY DEF Commit, Branches, Own
<1>3. Own(t).of = t
  BY DEF Own
<1> QED
  BY <1>1, <1>2, <1>3 DEF HasOwn, Descends

\* Where the run is at no subtask, and the branches stay.
LEMMA PassesKeeps ==
    ASSUME WorkTypeOK, OpenInv, Unfinished' \subseteq Unfinished, Passes,
           phase' = "none" => phase = "none"
    PROVE  OpenInv'
<1> USE DEF Passes
<1>1. AtOrigin' = AtOrigin
  BY DEF AtOrigin
<1>2. BlankInv'
  BY <1>1 DEF OpenInv, BlankInv
<1>3. StartInv'
  BY DEF OpenInv, StartInv, Grown, HasOwn
<1>4. AheadInv' /\ BeforeInv'
  BY DEF OpenInv, AheadInv, BeforeInv
<1>5. MarksInv'
  BY <1>1 DEF OpenInv, MarksInv, Own, AtSubtask, Carries
<1>6. ~Having'
  BY DEF Having, AtSubtask
<1> QED
  BY <1>2, <1>3, <1>4, <1>5, <1>6 DEF OpenInv

LEMMA BeginsKeeps ==
    ASSUME WorkTypeOK, OpenInv, Unfinished' \subseteq Unfinished, Begins
    PROVE  OpenInv'
<1> USE DEF Begins
<1>1. AtOrigin' = AtOrigin
  BY DEF AtOrigin
<1>2. \A m \in AtOrigin \cup local.work : m.run <= runs' /\ m.run # runs'
  <2>1. AtOrigin \cup local.work \subseteq Marks /\ runs \in Nat
    BY DEF WorkTypeOK, TreeTypeOK, AtOrigin, Branches
  <2> QED
    BY <2>1 DEF OpenInv, BlankInv, Marks
<1>3. BlankInv'
  BY <1>1, <1>2 DEF OpenInv, BlankInv
<1>4. dirty = "none" /\ ~AtSubtask' /\ ~Carries' /\ ~Having'
  BY DEF OpenInv, BlankInv, AtSubtask, Carries, Having
<1>5. StartInv'
  BY <1>4 DEF OpenInv, StartInv, Grown, HasOwn
<1>6. \A u \in Tasks : Own(u)' \notin AtOrigin \cup local.work
  BY <1>2 DEF Own
<1>7. MarksInv'
  BY <1>1, <1>6 DEF MarksInv, Unfinished
<1> QED
  BY <1>3, <1>4, <1>5, <1>7 DEF OpenInv, AheadInv, BeforeInv

\* The container goes, with the clone; what is left is what a run may begin at.
LEMMA BaseIsGrown ==
    ASSUME NEW t, start[t] # None, start[t].work = {} => start[t] = Base
    PROVE  Grown(Base, t)
BY DEF Grown, Descends, Base

LEMMA EndsKeeps ==
    ASSUME WorkTypeOK, OpenInv, Unfinished' \subseteq Unfinished, Ends,
           phase' = "none" => phase = "none"
    PROVE  OpenInv'
<1> USE DEF Ends
<1>1. AtOrigin' = AtOrigin
  BY DEF AtOrigin
<1>2. BlankInv'
  BY <1>1 DEF OpenInv, BlankInv, Base
<1>3. ~AtSubtask' /\ ~Carries' /\ ~Having'
  BY DEF AtSubtask, Carries, Having
<1>4. StartInv'
  BY BaseIsGrown DEF OpenInv, StartInv, Grown, HasOwn
<1> QED
  BY <1>2, <1>3, <1>4 DEF OpenInv, AheadInv, BeforeInv, MarksInv

\* A run reads what is there.
LEMMA ReadsKeeps ==
    ASSUME WorkTypeOK, OpenInv, Unfinished' \subseteq Unfinished,
           ReconcileFresh \/ ReconcileResume
    PROVE  OpenInv'
<1>1. /\ pc = "reconcile" /\ local = Base /\ dirty = "none" /\ pc' = "enter"
      /\ UNCHANGED <<remote, dirty, start, runs, phase>>
      /\ local' = IF remote = None THEN Base ELSE remote
  <2>1. /\ pc = "reconcile" /\ pc' = "enter" /\ UNCHANGED <<remote, dirty, start, runs, phase>>
        /\ \/ phase = "none" /\ local' = local
           \/ local' = Adopted
    BY DEF ReconcileFresh, ReconcileResume
  <2>2. local = Base /\ dirty = "none" /\ (phase = "none" => remote = None)
    BY <2>1 DEF OpenInv, BlankInv
  <2> QED
    BY <2>1, <2>2 DEF Adopted
<1>2. /\ AtOrigin' = AtOrigin /\ local'.work = AtOrigin
      /\ remote # None => local' = remote /\ AtOrigin = remote.work
  BY <1>1 DEF AtOrigin, Base
<1>3. BlankInv'
  BY <1>1, <1>2 DEF OpenInv, BlankInv
<1>4. StartInv'
  BY <1>1, BaseIsGrown DEF OpenInv, StartInv, Grown, HasOwn
<1>5. AheadInv'
  BY <1>1, <1>2 DEF AheadInv, Descends
<1>6. MarksInv'
  BY <1>1, <1>2 DEF OpenInv, MarksInv, Own
<1>7. ~AtSubtask' /\ ~Having'
  BY <1>1 DEF AtSubtask, Having
<1> QED
  BY <1>3, <1>4, <1>5, <1>6, <1>7 DEF OpenInv, BeforeInv

\* What is claimed is the first open subtask, and nothing is made for it yet.
LEMMA ClaimsKeeps ==
    ASSUME WorkTypeOK, OpenInv, AtFirst, Unfinished' \subseteq Unfinished, Claims,
           Revising, phase' = "none" => phase = "none"
    PROVE  OpenInv'
<1> USE DEF Claims
<1>1. AtOrigin' = AtOrigin /\ local \in Branches /\ None \notin Branches
  BY DEF AtOrigin, WorkTypeOK, TreeTypeOK
<1>2. Carries /\ ~AtSubtask /\ ~Having'
  BY DEF Carries, AtSubtask, Having, Revising
<1>3. BlankInv'
  BY <1>1 DEF OpenInv, BlankInv
<1>4. StartInv'
  BY <1>2 DEF OpenInv, StartInv, Grown, HasOwn
<1>5. AheadInv'
  BY <1>2 DEF OpenInv, AheadInv
<1>6. MarksInv'
  BY <1>1, <1>2 DEF OpenInv, MarksInv, Own
<1>7. BeforeInv'
  BY <1>1, <1>2 DEF OpenInv, BeforeInv, AheadInv, BlankInv
<1> QED
  BY <1>2, <1>3, <1>4, <1>5, <1>6, <1>7 DEF OpenInv

\* Where it is known to begin, and what is there is earlier work or its own.
LEMMA EarlierIsOwn ==
    ASSUME WorkTypeOK, OpenInv, AtFirst, AtSubtask,
           (me.before # None /\ local # me.before) \/ EarlierWork
    PROVE  HasOwn(local, me.at)
<1>1. CASE me.before # None /\ local # me.before
  BY <1>1 DEF OpenInv, BeforeInv
<1>2. CASE EarlierWork /\ local = me.before
  BY <1>2 DEF OpenInv, StartInv, AtFirst, EarlierWork, Grown
<1> QED
  BY <1>1, <1>2 DEF EarlierWork

LEMMA WorksKeeps ==
    ASSUME WorkTypeOK, OpenInv, AtFirst, Unfinished' = Unfinished, Works,
           phase' = "none" => phase = "none"
    PROVE  OpenInv'
<1> USE DEF Works
<1>1. /\ me.at \in Tasks /\ me.at \in Unfinished /\ \A u \in Unfinished : me.at <= u
      /\ runs \in 0 .. MaxRuns /\ local \in Branches /\ remote \in Branches \cup {None}
      /\ None \notin Branches /\ Carries /\ Carries'
  BY DEF AtFirst, Unfinished, WorkTypeOK, TreeTypeOK, Carries, AtSubtask
<1>2. AtOrigin' = AtOrigin
  BY DEF AtOrigin
<1>3. \A t \in Unfinished : start[t] # None => t = me.at
  BY <1>1 DEF OpenInv, StartInv, Tasks, Unfinished
<1>4. CASE /\ local' = local
           /\ Having' => Having \/ (me.before # None /\ local # me.before) \/ EarlierWork
  <2>1. Having' => HasOwn(local, me.at)
    BY <1>4, EarlierIsOwn DEF OpenInv
  <2>2. BlankInv' /\ AheadInv'
    BY <1>1, <1>2, <1>4 DEF OpenInv, BlankInv, AheadInv, AtSubtask
  <2>3. StartInv'
    BY <1>1, <1>3, <1>4 DEF OpenInv, StartInv, Grown, HasOwn
  <2>4. MarksInv'
    BY <1>1, <1>2, <1>4 DEF OpenInv, MarksInv, Own
  <2>5. BeforeInv'
    BY <1>4 DEF OpenInv, BeforeInv, HasOwn
  <2> QED
    BY <1>4, <2>1, <2>2, <2>3, <2>4, <2>5 DEF OpenInv, HasOwn
<1>5. ASSUME NEW g \in BOOLEAN, local' = Commit(local, me.at, g)
      PROVE  OpenInv'
  <2>1. /\ local' \in Branches /\ local'.root = local.root
        /\ local'.work = local.work \cup {Own(me.at)}
        /\ HasOwn(local', me.at) /\ Descends(local', local)
    BY <1>1, <1>5, OwnFacts
  <2>2. Own(me.at).run <= runs /\ local'.work # {}
    <3>1. Own(me.at).run = runs
      BY DEF Own
    <3> QED
      BY <1>1, <2>1, <3>1
  <2>3. BlankInv'
    BY <1>2, <2>1, <2>2 DEF OpenInv, BlankInv, AtSubtask
  <2>4. AheadInv'
    <3>1. Own(me.at) \notin AtOrigin
      BY <1>1 DEF OpenInv, MarksInv
    <3>2. remote # None => AtOrigin = remote.work
      BY DEF AtOrigin
    <3> QED
      BY <1>1, <2>1, <3>1, <3>2 DEF OpenInv, AheadInv, Descends
  <2>5. StartInv'
    BY <1>1, <1>3, <2>1 DEF OpenInv, StartInv, Grown, HasOwn
  <2>6. MarksInv'
    <3>1. \A u \in Unfinished : Own(u) = Own(me.at) => u = me.at
      BY DEF Own
    <3> QED
      BY <1>1, <1>2, <2>1, <3>1 DEF OpenInv, MarksInv, Own
  <2>7. BeforeInv'
    BY <2>1 DEF OpenInv, BeforeInv, HasOwn
  <2> QED
    BY <2>1, <2>3, <2>4, <2>5, <2>6, <2>7 DEF OpenInv, HasOwn
<1> QED
  BY <1>4, <1>5

LEMMA SendsKeeps ==
    ASSUME WorkTypeOK, OpenInv, AtFirst, Unfinished' = Unfinished, Sends,
           phase' = "none" => phase = "none", phase # "none"
    PROVE  OpenInv'
<1> USE DEF Sends
<1>1. /\ local \in Branches /\ None \notin Branches /\ Carries /\ AtSubtask /\ AtSubtask'
      /\ Having
  BY DEF WorkTypeOK, TreeTypeOK, Carries, AtSubtask, Having
<1>2. AtOrigin' = local.work
  BY <1>1 DEF AtOrigin
<1>3. BlankInv'
  BY <1>1, <1>2 DEF OpenInv, BlankInv
<1>4. StartInv'
  BY <1>1 DEF OpenInv, StartInv, Grown, HasOwn
<1>5. AheadInv'
  BY DEF AheadInv, Descends
<1>6. MarksInv'
  BY <1>1, <1>2 DEF OpenInv, MarksInv, Own
<1>7. HasOwn(local, me.at)
  BY <1>1 DEF OpenInv
<1>8. BeforeInv'
  BY <1>1, <1>7 DEF OpenInv, BeforeInv, HasOwn
<1> QED
  BY <1>3, <1>4, <1>5, <1>6, <1>7, <1>8 DEF OpenInv, HasOwn

\* The start of a subtask is recorded as the run lets it go.
LEMMA AbortsKeeps ==
    ASSUME WorkTypeOK, OpenInv, AtFirst, Unfinished' = Unfinished, Aborts,
           phase' = "none" => phase = "none"
    PROVE  OpenInv'
<1> USE DEF Aborts
<1>1. /\ local \in Branches /\ None \notin Branches /\ ~Carries' /\ ~AtSubtask' /\ ~Having'
      /\ me.at \in Tasks /\ me.at \in Unfinished /\ \A u \in Unfinished : me.at <= u
      /\ start \in [Tasks -> Branches \cup {None}] /\ me.before \in Branches \cup {None}
      /\ remote \in Branches \cup {None}
  BY MemoryHas
     DEF WorkTypeOK, BoardTypeOK, TreeTypeOK, Carries, AtSubtask, Having, AtFirst, Unfinished
<1>2. AtOrigin' = AtOrigin
  BY DEF AtOrigin
<1>3. BlankInv'
  BY <1>1, <1>2 DEF OpenInv, BlankInv
<1>4. StartInv'
  <2>1. CASE start' = start
    BY <1>1, <2>1 DEF OpenInv, StartInv, Grown, HasOwn, AtSubtask
  <2>2. CASE /\ me.before # None /\ start[me.at] = None
             /\ start' = [start EXCEPT ![me.at] = me.before]
    <3>1. /\ start'[me.at] = me.before
          /\ \A t \in Tasks : t # me.at => start'[t] = start[t]
      BY <1>1, <2>2
    <3>2. \A t \in Unfinished : start'[t] # None => t = me.at
      BY <1>1, <3>1 DEF OpenInv, StartInv, Tasks, Unfinished
    <3>3. /\ me.before.work = {} => me.before = Base
          /\ local = me.before \/ HasOwn(local, me.at)
          /\ remote # None => \/ HasOwn(remote, me.at)
                              \/ /\ Descends(me.before, remote)
                                 /\ remote.work = me.before.work => remote = me.before
      BY <2>2 DEF OpenInv, BeforeInv
    <3>4. remote # None /\ Descends(remote, me.before)
             => remote = me.before \/ HasOwn(remote, me.at)
      BY <3>3 DEF Descends
    <3> QED
      BY <1>1, <3>1, <3>2, <3>3, <3>4 DEF StartInv, Grown, HasOwn
  <2> QED
    BY <2>1, <2>2
<1> QED
  BY <1>1, <1>3, <1>4 DEF OpenInv, AheadInv, MarksInv, BeforeInv

LEMMA CompletesKeeps ==
    ASSUME WorkTypeOK, OpenInv, AtFirst, Completes, phase' = "none" => phase = "none"
    PROVE  /\ Unfinished' = Unfinished \ {me.at}
           /\ OpenInv'
<1> USE DEF Completes
<1>1. /\ me.at \in Tasks /\ me.at \in Unfinished /\ \A u \in Unfinished : me.at <= u
      /\ Carries /\ ~AtSubtask' /\ ~Having'
      /\ sub \in [Tasks -> {"absent", "todo", "in_progress"} \cup Terminal]
  BY DEF WorkTypeOK, BoardTypeOK, Carries, AtSubtask, Having, AtFirst, Unfinished
<1>2. Unfinished' = Unfinished \ {me.at}
  BY <1>1 DEF Unfinished, Terminal
<1>3. AtOrigin' = AtOrigin
  BY DEF AtOrigin
<1>4. BlankInv'
  BY <1>1, <1>3 DEF OpenInv, BlankInv
<1>5. \A t \in Unfinished' : start[t] = None
  BY <1>1, <1>2 DEF OpenInv, StartInv, Tasks, Unfinished
<1>6. StartInv'
  BY <1>5 DEF StartInv
<1>7. AheadInv'
  BY <1>1 DEF OpenInv, AheadInv
<1>8. MarksInv'
  BY <1>1, <1>2, <1>3 DEF OpenInv, MarksInv, Own
<1> QED
  BY <1>1, <1>2, <1>4, <1>6, <1>7, <1>8 DEF OpenInv, BeforeInv

\* A park commits what is uncommitted, for the subtask the run was at.
LEMMA ParkKeeps ==
    ASSUME WorkTypeOK, OpenInv, Unfinished' = Unfinished, Park,
           phase = "none" => local.work = {} /\ dirty = "none"
    PROVE  OpenInv'
<1>1. /\ UNCHANGED <<phase, start, runs, me>> /\ pc = "park" /\ pc' = "release"
      /\ \/ local' = local /\ dirty' = dirty /\ remote' = remote
         \/ /\ Unsaved /\ local' = Saved /\ dirty' = "none"
            /\ remote' \in {Saved, remote}
  BY DEF Park
<1>2. /\ local \in Branches /\ remote \in Branches \cup {None} /\ None \notin Branches
      /\ runs \in 0 .. MaxRuns /\ me.at \in 0 .. NTasks /\ dirty \in {"none", "good", "bad"}
      /\ runs \in Nat
  BY MemoryHas DEF WorkTypeOK, TreeTypeOK
<1>3. ~AtSubtask' /\ ~Carries' /\ ~Having'
  BY <1>1 DEF AtSubtask, Carries, Having
<1>4. CASE local' = local /\ dirty' = dirty /\ remote' = remote
  <2>1. BlankInv'
    BY <1>1, <1>4 DEF OpenInv, BlankInv, AtOrigin
  <2>2. StartInv'
    BY <1>1, <1>4 DEF OpenInv, StartInv, Grown, HasOwn
  <2> QED
    BY <1>1, <1>3, <2>1, <2>2 DEF OpenInv, AheadInv, MarksInv, BeforeInv
<1>5. CASE /\ Unsaved /\ local' = Saved /\ dirty' = "none"
           /\ remote' \in {Saved, remote}
  <2>1. /\ Saved \in Branches
        /\ \A m \in Saved.work : m \in local.work \/ m = Own(me.at)
        /\ Saved.work = {} => Saved = local
        /\ dirty = "none" => Saved = local
        /\ dirty # "none" => HasOwn(Saved, me.at)
    <3>1. CASE dirty = "none"
      BY <1>2, <3>1 DEF Saved, Uncommitted
    <3>2. CASE dirty # "none"
      <4>1. Saved = Commit(local, me.at, dirty = "good") /\ (dirty = "good") \in BOOLEAN
        BY <3>2 DEF Saved, Uncommitted
      <4>2. Saved \in Branches
        BY <1>2, <4>1, DataTypes
      <4>3. Saved.work = local.work \cup {Own(me.at)} /\ Own(me.at).of = me.at
        BY <1>2, <4>1 DEF Commit, Branches, Own
      <4> QED
        BY <3>2, <4>2, <4>3 DEF HasOwn
    <3> QED
      BY <3>1, <3>2
  <2>2. phase # "none"
    BY <1>5 DEF Unsaved, Uncommitted, Unpushed
  <2>3. Own(me.at).run <= runs
    <3>1. Own(me.at).run = runs
      BY DEF Own
    <3> QED
      BY <1>2, <3>1
  <2>4. AtOrigin' = AtOrigin \/ (remote' = Saved /\ AtOrigin' = Saved.work)
    BY <1>2, <1>5, <2>1 DEF AtOrigin
  <2>5. BlankInv'
    <3>1. \A m \in AtOrigin' \cup local'.work : m.run <= runs'
      BY <1>1, <1>5, <2>1, <2>3, <2>4 DEF OpenInv, BlankInv
    <3>2. (local.work = {} => local = Base)' /\ (AtOrigin = {} => remote \in {None, Base})'
      BY <1>2, <1>5, <2>1, <2>4 DEF OpenInv, BlankInv, AtOrigin
    <3> QED
      BY <1>1, <2>2, <3>1, <3>2 DEF BlankInv
  <2>6. StartInv'
    BY <1>1, <1>2, <1>5, <2>1 DEF OpenInv, StartInv, Grown, HasOwn
  <2> QED
    BY <1>1, <1>3, <2>5, <2>6 DEF OpenInv, AheadInv, MarksInv, BeforeInv
<1> QED
  BY <1>1, <1>4, <1>5

LEMMA OwnStep ==
    TypedInv /\ RaceInv /\ SettledInv /\ KeepsInv /\ OwnInv /\ [Next]_vars => OwnInv'
<1> SUFFICES ASSUME TypedInv, RaceInv, SettledInv, KeepsInv, OwnInv, [Next]_vars, OwnBranch'
             PROVE  OwnInv'
  BY DEF OwnInv
<1>1. OwnBranch /\ tc' = tc
  BY CardKept DEF OwnBranch
<1>2. /\ Alone /\ ~tc.best /\ ~Fault("human") /\ Revising /\ AtFirst
      /\ Behind \/ Judged => AllTerminal
      /\ Executing => me.plan = Tasks
      /\ \A t \in Tasks : sub[t] = "done" => HasOwn(landed[t], t)
      /\ Unfinished # {} => OpenInv
  <2>1. ~tc.best /\ ~Fault("human") /\ ~Fault("redraft")
    BY <1>1 DEF OwnBranch
  <2>2. /\ Revising /\ AtFirst /\ (Unfinished # {} => OpenInv)
        /\ \A t \in Tasks : sub[t] = "done" => HasOwn(landed[t], t)
    BY <1>1 DEF OwnInv
  <2>3. /\ Alone /\ (Behind => AllTerminal) /\ (Executing => me.plan = Tasks)
        /\ Judged /\ cands = << >> => AllTerminal
    BY <2>1 DEF SettledInv
  <2>4. cands = << >>
    BY <2>3 DEF Alone
  <2> QED
    BY <2>1, <2>2, <2>3, <2>4
<1>3. Unfinished' \subseteq Unfinished /\ (AllTerminal => Unfinished = {})
  BY SubStep DEF Unfinished, AllTerminal
<1>4. AtSubtask \/ pc = "execute" => ~Behind /\ ~Judged
  BY DEF AtSubtask, Behind, Judged, LatePhases
<1>5. ~Behind /\ ~Judged =>
         \/ UNCHANGED vars \/ Park \/ ReconcileFresh \/ ReconcileResume
         \/ Begins \/ Passes \/ Claims \/ Works \/ Sends \/ Aborts \/ Completes \/ Ends
  BY KindStep, <1>2
<1>6. WorkTypeOK /\ me \in Memory /\ sub \in [Tasks -> {"absent", "todo", "in_progress"} \cup Terminal]
  BY DEF TypedInv, WorkTypeOK, BoardTypeOK
<1>7. phase' = "none" => phase = "none"
  BY PhaseStep
<1>8. Revising'
  BY RevisingStep, <1>2
<1>9. Claims => /\ NextTask \in Unfinished /\ \A u \in Unfinished : NextTask <= u
                /\ Unfinished' = Unfinished
  <2> SUFFICES ASSUME Claims
               PROVE  /\ NextTask \in Unfinished /\ \A u \in Unfinished : NextTask <= u
                      /\ Unfinished' = Unfinished
    OBVIOUS
  <2>1. Open = Unfinished /\ Open # {} /\ Open \in SUBSET Tasks
    BY <1>2 DEF Claims, Executing, Open, Unfinished
  <2>2. NextTask \in Open /\ \A u \in Open : NextTask <= u
    BY <2>1, FirstOf DEF NextTask
  <2>3. sub' = [sub EXCEPT ![NextTask] = "in_progress"] /\ NextTask \in Tasks
    BY <2>1, <2>2 DEF Claims
  <2>4. Unfinished' = Unfinished
    BY <1>6, <2>1, <2>2, <2>3 DEF Unfinished, Terminal
  <2> QED
    BY <2>1, <2>2, <2>4
<1>10. Works \/ Sends \/ Aborts \/ Park => Unfinished' = Unfinished
  BY DEF Works, Sends, Aborts, Park, Unfinished
<1>11. AtFirst'
  <2> SUFFICES ASSUME AtSubtask'
               PROVE  me'.at \in Unfinished' /\ \A u \in Unfinished' : me'.at <= u
    BY DEF AtFirst
  <2>1. ~Behind /\ ~Judged
    BY <1>4, ToSubtask
  <2>2. CASE UNCHANGED vars
    BY <1>2, <2>2 DEF AtFirst, AtSubtask, Unfinished
  <2>3. CASE Claims
    BY <1>9, <2>3 DEF Claims
  <2>4. CASE Works \/ Sends
    BY <1>2, <1>10, <2>4 DEF Works, Sends, AtFirst, AtSubtask
  <2>5. /\ ~Park /\ ~ReconcileFresh /\ ~ReconcileResume /\ ~Begins /\ ~Passes
        /\ ~Aborts /\ ~Completes /\ ~Ends
    BY DEF AtSubtask, Park, ReconcileFresh, ReconcileResume, Begins, Passes, Aborts,
           Completes, Ends
  <2> QED
    BY <1>5, <2>1, <2>2, <2>3, <2>4, <2>5
<1>12. ASSUME NEW t \in Tasks, sub'[t] = "done"
       PROVE  HasOwn(landed'[t], t)
  <2>1. CASE sub[t] = "done" /\ landed'[t] = landed[t]
    BY <1>2, <2>1
  <2>2. CASE pc \in {"complete", "salvaged"} /\ ~(sub[t] = "done" /\ landed'[t] = landed[t])
    <3>1. AtSubtask /\ Having /\ me.at \in Unfinished
      BY <1>2, <2>2 DEF AtSubtask, Having, AtFirst
    <3>2. HasOwn(local, me.at)
      BY <1>2, <3>1 DEF OpenInv
    <3>3. CASE Completes
      <4>1. sub' = [sub EXCEPT ![me.at] = "done"] /\ landed' = [landed EXCEPT ![me.at] = local]
        BY <3>3 DEF Completes
      <4>2. landed \in [Tasks -> Branches \cup {None}]
        BY DEF WorkTypeOK, HistoryTypeOK, TypedInv
      <4>3. t # me.at => sub'[t] = sub[t] /\ landed'[t] = landed[t]
        BY <1>6, <4>1, <4>2
      <4>4. t = me.at
        BY <1>12, <2>2, <4>3
      <4>5. landed'[t] = local
        BY <4>1, <4>2, <4>4
      <4> QED
        BY <3>2, <4>4, <4>5
    <3>4. ~Works /\ ~Sends /\ ~Aborts /\ ~Ends /\ ~(UNCHANGED vars)
      BY <1>12, <2>2 DEF Works, Sends, Aborts, Ends
    <3>5. ~Park /\ ~ReconcileFresh /\ ~ReconcileResume /\ ~Begins /\ ~Passes /\ ~Claims
      BY <2>2, <3>1 DEF Park, ReconcileFresh, ReconcileResume, Begins, Passes, Claims
    <3> QED
      BY <1>4, <1>5, <3>1, <3>3, <3>4, <3>5
  <2>3. pc # "replay"
    BY <1>2 DEF Alone
  <2> QED
    BY CompleteStep, <1>12, <2>1, <2>2, <2>3
<1>13. ASSUME Unfinished' # {} PROVE OpenInv'
  <2>1. ~Behind /\ ~Judged /\ OpenInv
    BY <1>2, <1>3, <1>13
  <2>2. CASE UNCHANGED vars
    BY <2>1, <2>2
       DEF OpenInv, BlankInv, StartInv, AheadInv, MarksInv, BeforeInv, Having, Unfinished,
           HasOwn, Grown, Own, AtOrigin, Carries, AtSubtask
  <2>3. CASE Park
    BY <1>6, <1>10, <2>1, <2>3, ParkKeeps DEF KeepsInv
  <2>4. CASE ReconcileFresh \/ ReconcileResume
    BY <1>3, <1>6, <2>1, <2>4, ReadsKeeps
  <2>5. CASE Begins \/ Passes \/ Claims \/ Ends
    BY <1>2, <1>3, <1>6, <1>7, <2>1, <2>5, BeginsKeeps, PassesKeeps, ClaimsKeeps, EndsKeeps
  <2>6. CASE Works \/ Aborts
    BY <1>2, <1>6, <1>7, <1>10, <2>1, <2>6, WorksKeeps, AbortsKeeps
  <2>7. CASE Sends
    <3>1. phase # "none"
      BY <2>7 DEF KeepsInv, Sends
    <3> QED
      BY <1>2, <1>6, <1>7, <1>10, <2>1, <2>7, <3>1, SendsKeeps
  <2>8. CASE Completes
    BY <1>2, <1>6, <1>7, <2>1, <2>8, CompletesKeeps
  <2> QED
    BY <1>5, <2>1, <2>2, <2>3, <2>4, <2>5, <2>6, <2>7, <2>8
<1> QED
  BY <1>8, <1>11, <1>12, <1>13 DEF OwnInv

LEMMA OwnInit == Init => OwnInv
<1> SUFFICES ASSUME Init, OwnBranch PROVE OwnInv
  BY DEF OwnInv
<1>1. /\ remote = None /\ local = Base /\ dirty = "none" /\ pc = "idle" /\ me = Fresh
      /\ start = [t \in Tasks |-> None] /\ sub = [t \in Tasks |-> "absent"]
  BY DEF Init, OwnBranch
<1>2. AtOrigin = {} /\ Base.work = {}
  BY <1>1 DEF AtOrigin, Base
<1>3. BlankInv /\ StartInv
  BY <1>1, <1>2 DEF BlankInv, StartInv, Unfinished
<1>4. AheadInv /\ MarksInv /\ BeforeInv /\ ~Having /\ Revising /\ AtFirst
  BY <1>1 DEF AheadInv, MarksInv, BeforeInv, Having, Revising, AtFirst, Carries, AtSubtask, Fresh
<1> QED
  BY <1>1, <1>3, <1>4 DEF OwnInv, OpenInv

(* A subtask one coder completed has a commit of its own on the branch: of    *)
(* this run, of its checkpoint or its salvage or, when this run had nothing   *)
(* to add, of an earlier one past the recorded start (execute.go:642). *)
THEOREM CompletedHasWork == Spec => []DoneHasWork
<1>1. OwnInv => DoneHasWork
  <2> SUFFICES ASSUME OwnInv, OwnBranch, NEW t \in Tasks, sub[t] = "done"
               PROVE  HasOwn(landed[t], t)
    BY DEF OwnBranch, DoneHasWork, HasOwn
  <2> QED
    BY DEF OwnInv
<1> QED
  BY TypedInit, RaceInit, SettledInit, FixInit, KeepsInit, OwnInit, TypedStep, RaceInvStep,
     SettledStep, FixStep, KeepsStep, OwnStep, <1>1, PTL DEF Spec
==============================================================================
