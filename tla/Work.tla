-------------------------------- MODULE Work ---------------------------------
(***************************************************************************)
(* The phases of a worker composed (internal/orchestrator/orchestrator.go): *)
(* plan, execute alone or as a race, document, review, integrate, the gates *)
(* of the pull request and done, over the runs of one card.  Review and     *)
(* Gates model two of the phases; here they are what they do to the card    *)
(* and its branch.                                                          *)
(***************************************************************************)
EXTENDS Plan, Fanout

-----------------------------------------------------------------------------
(* The document phase: best effort. *)

Rests == UNCHANGED <<tc, phase, claim, sub, held, start, extra, runs, cands, landed>>

(* Tracked edits are reset, and files the run created removed: what it found  *)
(* untracked stays, and whatever could not be listed or discarded. *)
Undone == dirty' \in {"none", dirty} \cup (IF Fault("git") THEN {"good", "bad"} ELSE {})

(* No model, no docs, or edits that are discarded; or a commit, which sweeps  *)
(* in whatever the clone holds. *)
Document ==
    /\ pc = "document"
    /\ \/ /\ ~Uncommitted \/ Fault("model") \/ Fault("git")
          /\ Undone /\ Proceed("document") /\ UNCHANGED local
       \/ /\ \E g \in BOOLEAN :
                 local' = Commit(local, 0, IF dirty = "bad" THEN FALSE ELSE g)
          /\ dirty' = "none"
          /\ Goto("docpush") /\ UNCHANGED me
    /\ Rests /\ UNCHANGED <<state, remote, past>>

DocumentBroke ==
    /\ pc = "document" /\ Fault("budget")
    /\ Exit("budget")
    /\ Rests /\ UNCHANGED <<state, Tree, past>>

(* A push that fails is made good by integrate's; it was the first one all    *)
(* the same. *)
DocumentPushes ==
    /\ pc = "docpush"
    /\ \/ TakesFirst(local) /\ remote' = local
       \/ (~TakesFirst(local) \/ Fault("git")) /\ remote' = remote
    /\ Goto("enter")
    /\ Remember([me EXCEPT !.pushed = TRUE, !.next = "review", !.at = 0])
    /\ Rests /\ UNCHANGED <<state, local, dirty, past>>

-----------------------------------------------------------------------------
(* Review: the card enters review, fixes are committed and pushed, and the    *)
(* phase approves, parks for people or fails. *)

StartReview ==
    /\ pc = "review" /\ state \in {"in_progress", "review"}
    /\ state' = "review" /\ Goto("reviewing")
    /\ Rests /\ UNCHANGED <<Tree, me, past>>

StartReviewFails ==
    /\ pc = "review" /\ (state \notin {"in_progress", "review"} \/ Fault("card"))
    /\ Exit("error")
    /\ Rests /\ UNCHANGED <<state, Tree, past>>

(* A fix round of review, at most one in a run, or of a gate: committed, and  *)
(* pushed plainly.  Review remembers where the fix began.                     *)
Fixes ==
    /\ \/ pc = "reviewing" /\ me.preFix = None
       \/ pc = "pr_gates"
    /\ [of |-> 0, run |-> runs] \notin local.work
    /\ \E g \in BOOLEAN : local' = Commit(local, 0, g)
    /\ dirty' = "none"
    /\ \/ /\ Takes(local') /\ remote' = local' /\ UNCHANGED pc
          /\ Remember([me EXCEPT !.preFix = IF pc = "reviewing" THEN local ELSE @])
       \/ (~Takes(local') \/ Fault("git")) /\ remote' = remote /\ Exit("error")
    /\ Rests /\ UNCHANGED <<state, past>>

(* A fix that turned the verify command red is taken back, at the origin by a *)
(* lease on the fix; the cleanup pass of an approval in the clone only, where *)
(* a lease that is refused may leave the other as well. *)
Discards ==
    /\ pc = "reviewing" /\ tc.verify /\ me.preFix \notin {None, local}
    /\ local' = me.preFix
    /\ \/ ~TreeIsGood /\ me.preFix.good /\ remote = local /\ remote' = me.preFix
       \/ (~TreeIsGood \/ Fault("inconclusive")) /\ remote' = remote
    /\ Rests /\ UNCHANGED <<state, pc, dirty, me, past>>

Approved ==
    /\ pc = "reviewing"
    /\ Proceed("review")
    /\ Rests /\ UNCHANGED <<state, Tree, past>>

(* Either phase parks for people, or fails. *)
Parks ==
    /\ pc \in {"reviewing", "pr_gates"}
    /\ ParkedForPeople
    /\ UNCHANGED <<tc, phase, state, sub, held, start, extra, remote, runs, landed>>

PhaseFails ==
    /\ pc \in {"reviewing", "pr_gates"}
    /\ \/ Fault("budget") /\ Exit("budget")
       \/ Fault("model") /\ Exit("blocked")
       \/ Fault("card") /\ Exit("error")
    /\ Rests /\ UNCHANGED <<state, Tree, past>>

-----------------------------------------------------------------------------
(* Integrate. *)

(* The tip is read before the rebase: it is what the lease expects. *)
ReadsTip ==
    /\ pc = "integrate"
    /\ Goto("rebase") /\ Remember([me EXCEPT !.tip = remote])
    /\ Rests /\ UNCHANGED <<state, Tree, past>>

(* The branch is rebased and its fixups squashed, with uncommitted tracked    *)
(* changes in the stash and untracked files in place. *)
Rebased ==
    /\ \/ local' = local
       \/ \E g \in BOOLEAN : local' = [local EXCEPT !.root = runs, !.good = g]
    /\ dirty' \in {"none", dirty}

(* A conflict squashes it onto its merge base, with whatever the clone still  *)
(* holds: the same content, under another history. *)
SquashedOnConflict ==
    /\ \/ Uncommitted /\ local' = [local EXCEPT !.root = runs, !.good = TreeIsGood]
       \/ local' = [local EXCEPT !.root = runs]   \* what was uncommitted is in the stash
    /\ dirty' = "none"

Rebase ==
    /\ pc = "rebase"
    /\ Rebased \/ SquashedOnConflict
    /\ Goto("lease")
    /\ Rests /\ UNCHANGED <<state, remote, me, past>>

IntegrateFails ==
    /\ pc \in {"integrate", "rebase"} /\ Fault("git")
    /\ Exit("error")
    /\ Rests /\ UNCHANGED <<state, Tree, past>>

LeaseOK == IF me.tip # None THEN remote = me.tip ELSE Takes(local)

LeasePush ==
    /\ pc = "lease" /\ LeaseOK
    /\ remote' = local
    /\ Goto("pull")
    /\ Rests /\ UNCHANGED <<state, local, dirty, me, past>>

LeaseFails ==
    /\ pc = "lease" /\ (~LeaseOK \/ Fault("git"))
    /\ Exit("error")
    /\ Rests /\ UNCHANGED <<state, Tree, past>>

(* The pull request, which may fail, and the report of the push, which may    *)
(* not. *)
OpensPull ==
    /\ pc = "pull"
    /\ \/ Proceed("integrate")
       \/ Fault("budget") /\ Exit("budget")
       \/ Fault("card") /\ Exit("error")
    /\ Rests /\ UNCHANGED <<state, Tree, past>>

-----------------------------------------------------------------------------
(* The gates passed: the card is done, then released. *)

GatesPass ==
    /\ pc = "pr_gates" /\ state' = "done"
    /\ Proceed("pr_gates")
    /\ Rests /\ UNCHANGED <<Tree, past>>

Done ==
    /\ pc = "done"
    /\ \/ claim' = FALSE
       \/ Fault("card") /\ claim' = claim
    /\ past' = [past EXCEPT !.ended = "done"]
    /\ Idle
    /\ UNCHANGED <<tc, phase, state, sub, held, start, extra, remote, runs, landed>>

(* The run is ended anywhere else; after a race its claims stay. *)
Stopped ==
    /\ Fault("stop")
    /\ pc \in {"reconcile", "enter", "plan", "approve", "split", "note", "subtasks", "execute",
               "replay", "document", "docpush", "review", "reviewing", "integrate", "rebase",
               "lease", "pull", "pr_gates"}
    /\ Exit("cancel")
    /\ past' = [past EXCEPT !.leak = IF cands # << >> THEN held ELSE @,
                            !.torn = IF pc = "note" THEN @ + 1 ELSE @]
    /\ UNCHANGED <<tc, cm, remote, runs, local, dirty, cands, landed>>

PlanNext ==
    \/ Draft \/ Diagnose(ReselectCap) \/ DraftFails \/ Approve \/ Adjust \/ ApproveFails
    \/ Split \/ NoSplit \/ SplitFails \/ Note \/ CreateSubtask \/ CreateFails \/ Planned

(* What the run itself does. *)
RunNext ==
    \/ ReconcileFresh \/ ReconcileResume \/ ReconcileFails
    \/ ReenterReview \/ Enter \/ EnterFails
    \/ PlanNext \/ ExecuteNext \/ FanoutNext
    \/ Document \/ DocumentBroke \/ DocumentPushes
    \/ StartReview \/ StartReviewFails \/ Fixes \/ Discards \/ Approved \/ Parks \/ PhaseFails
    \/ ReadsTip \/ Rebase \/ IntegrateFails \/ LeasePush \/ LeaseFails \/ OpensPull
    \/ GatesPass \/ Done \/ Park \/ Release

Next ==
    \/ RunNext
    \/ Boot \/ BootFails \/ Stopped \/ Crash \/ Sweep \/ HumanPushes
    \/ \E t \in Tasks : Cancel(t)

Spec == Init /\ [][Next]_vars

-----------------------------------------------------------------------------
Places ==
    PhaseNames \cup {"idle", "reconcile", "enter", "approve", "split", "note", "subtasks",
                     "code", "gate", "fix", "regate", "commit", "discuss", "recheck", "push",
                     "complete", "salvage", "authority", "salvaged", "race", "adopt",
                     "replay", "docpush", "reviewing", "rebase", "lease", "pull", "park",
                     "release"}
Endings == {"none", "error", "budget", "turns", "blocked", "cancel"}
Memory == [at : 0 .. NTasks, next : PhaseNames, plan : SUBSET Tasks,
           tip : Branches \cup {None}, pushed : BOOLEAN, before : Branches \cup {None},
           tool : Identities \cup {None},
           verified : BOOLEAN, revising : BOOLEAN, picks : 0 .. ReselectCap,
           drafts : 0 .. MaxDrafts, known : 0 .. 1, winner : 0 .. Best,
           once : SUBSET Tasks, preFix : Branches \cup {None}, why : Endings]

BoardTypeOK ==
    /\ tc \in Cards
    /\ phase \in PhaseNames \cup {"none"}
    /\ state \in {"todo", "in_progress", "blocked", "stalled", "review", "done"}
    /\ claim \in BOOLEAN
    /\ sub \in [Tasks -> {"absent", "todo", "in_progress"} \cup Terminal]
    /\ held \subseteq Tasks
    /\ start \in [Tasks -> Branches \cup {None}]
    /\ extra \in [made : Nat, noted : 0 .. 1]
TreeTypeOK ==
    /\ remote \in Branches \cup {None}
    /\ runs \in 0 .. MaxRuns
    /\ local \in Branches /\ dirty \in {"none", "good", "bad"}
RaceTypeOK == DOMAIN cands \subseteq 1 .. Best /\ \A i \in Candidates : cands[i] \in Cand
HistoryTypeOK ==
    /\ landed \in [Tasks -> Branches \cup {None}]
    /\ past \in [ended : Endings \cup {"parked", "crash", "done"}, approved : BOOLEAN,
                selfmade : BOOLEAN, torn : Nat, leak : SUBSET Tasks]

(* Every variable stays in its type: among them, a run drafts at most         *)
(* maxPlanDrafts plans (plan.go:1162) and replaces at most so many models. *)
WorkTypeOK ==
    BoardTypeOK /\ TreeTypeOK /\ pc \in Places /\ me \in Memory /\ RaceTypeOK /\ HistoryTypeOK

AtOrigin == IF remote = None THEN {} ELSE remote.work

(* What a completed subtask was completed on is at the origin, and stays      *)
(* there through crashes, resumed runs, the first push of a fresh run, the    *)
(* adoption of a winner and integrate's rewrite: its push comes before its    *)
(* completion (execute.go, executeClaimedWith).  Except after a coder         *)
(* committed by itself, whose subtask is completed without a push. *)
DoneIsDurable ==
    ~past.selfmade =>
        \A t \in Tasks : sub[t] = "done" => landed[t].work \subseteq AtOrigin

(* A subtask one coder completed landed on a tree that passes the verify      *)
(* command: by the gate, by the pass its own tool measured on the same tree,  *)
(* by the gate of a revision or by the check of a salvaged tree.  Unless the  *)
(* command can be inconclusive, or the coder commits by itself: a checkpoint  *)
(* cannot discard that. *)
DoneIsGood ==
    tc.verify /\ ~tc.best /\ ~past.selfmade /\ ~Fault("inconclusive") =>
        \A t \in Tasks : sub[t] = "done" => landed[t].good

(* A subtask one coder completed has a commit of its own on the branch: of    *)
(* this run or, when this one had nothing to add, of an earlier one (the      *)
(* start marker, execute.go:642).  Unless the branch got foreign commits, or  *)
(* another subtask's because a redrafted plan changed the order. *)
DoneHasWork ==
    ~tc.best /\ ~tc.stale /\ ~Fault("human") /\ ~Fault("redraft") =>
        \A t \in Tasks : sub[t] = "done" => \E m \in landed[t].work : m.of = t

(* What a run pushed is never taken off the branch again, but for the fix its *)
(* own review takes back, and what somebody else pushed only by a run that    *)
(* had seen it there: by its first push over the branch it found, or by       *)
(* integrate's lease (git.go, ForcePushWithLease; review.go,                  *)
(* discardRegressingFix and discardCleanupFixup). *)
TakenBack(m) == /\ tc.verify /\ me.preFix # None
                /\ m = [of |-> 0, run |-> runs] /\ m \notin me.preFix.work
PushKeepsWork ==
    [][\A m \in AtOrigin \ AtOrigin' :
          \/ m.run = 0 /\ me.tip # None /\ m \in me.tip.work
          \/ TakenBack(m)]_vars

(* A run that parks on its budget, on a turn cap, blocked or cancelled leaves *)
(* everything it worked on at the origin (worker.go, pushWIP).  Unless the    *)
(* push fails, somebody else pushed, or the origin cannot take a plain push   *)
(* of what the run has: it is a fresh run over an abandoned branch and has    *)
(* not pushed yet (ParkSavesAllWork), or integrate has rewritten the branch   *)
(* and its lease push did not come to pass (integrate.go, runIntegrate). *)
Parking == pc = "park" /\ pc' = "release" /\ SavesWIP
Overwriting == me.tip # None /\ ~me.pushed /\ phase # "pr_gates"
Rewriting == phase = "integrate" /\ remote # None /\ local.root # remote.root
ParkSavesWork ==
    [][Parking /\ ~Fault("git") /\ ~Fault("human") /\ ~Overwriting /\ ~Rewriting
          => Saved.work \subseteq AtOrigin']_vars

(* docs/orchestrator.md:31 and :413, worker.go:443: a park pushes the         *)
(* unfinished tree as WIP; whatever the branch was when the run began. *)
ParkSavesAllWork ==
    [][Parking /\ ~Fault("git") /\ ~Fault("human")
          => Saved.work \subseteq AtOrigin']_vars

(* A run that ends gives back every subtask it holds, however it ends and in  *)
(* whichever step (execute.go, releaseSubtask; candidates.go, claimedSubIDs). *)
(* Left to the sweep are the claims of a crashed run, those a board refuses   *)
(* to take back, and the claims of a race of which a candidate has finished:  *)
(* only a race nobody finishes gives its claims back (candidates.go:261-275), *)
(* so they stay when the run is stopped before they are replayed, or the      *)
(* judge or the adoption fails.  past.leak has those, and no others. *)
ClaimsReturned ==
    pc = "idle" /\ past.ended # "crash" /\ ~Fault("card") => held \subseteq past.leak

(* With a human attending, no card is created and nothing is pushed before a  *)
(* plan was approved (plan.go, runPlan; gate.go). *)
NothingBeforeApproval ==
    tc.human /\ ~past.approved =>
        /\ \A t \in Tasks : sub[t] = "absent"
        /\ extra.made = 0
        /\ \A m \in AtOrigin : m.run = 0

(* Past execute every subtask of the card is complete or cancelled, those a   *)
(* crashed run had begun included (execute.go, runExecute).  Unless a later   *)
(* plan left out what an earlier one had created, or a replay was refused. *)
PastExecute ==
    /\ phase \in {"document", "review", "integrate", "pr_gates", "done"}
    /\ ~Fault("redraft") /\ ~(tc.best /\ Fault("card"))
    => \A t \in Tasks : sub[t] \in Terminal

(* The adopted candidate passed the verify command if any did, and was not    *)
(* cut short by its turn cap if none did (judge.go, verifyingCandidates and   *)
(* uncappedCandidates). *)
WinnerIsBest ==
    pc \in {"adopt", "replay"} =>
        \/ cands[me.winner].verdict = "passed"
        \/ Verifying = {} /\ ~cands[me.winner].capped

(* The adopted candidate got to the last open subtask: the replay completes   *)
(* no subtask nobody worked on (candidates.go, runCandidate). *)
WinnerDidAll ==
    pc \in {"adopt", "replay"} => \A t \in Open : t <= cands[me.winner].at

(* A deliverable becomes one follow-up card however often the card is run,    *)
(* but for a run lost, stopped or refused between the card and its record     *)
(* (plan.go, createFollowups). *)
SplitOnce == extra.made <= 1 + past.torn
=============================================================================
