------------------------------- MODULE Review -------------------------------
(***************************************************************************)
(* The review phase of the worker (internal/orchestrator/review.go): rounds *)
(* of a verify gate, a review panel and a synthesized verdict, a fix after  *)
(* every round that does not approve, the authoritative pass where the      *)
(* attempts run out, the human's rounds, the approval recorded on the card, *)
(* the cleanup pass that follows an approval, and the runs that resume a    *)
(* review which crashed or parked.                                          *)
(*                                                                          *)
(* A commit is a number; hist[c] is the set of commits it holds beyond the  *)
(* base branch, which is commit 0.  0 also stands for "no commit recorded". *)
(* A fault is a call that may fail, named in Faults; Stop is every park and *)
(* error of a model call (budget, context, turn cap, no model left).        *)
(***************************************************************************)
EXTENDS Integers, FiniteSets

CONSTANTS
    AttemptsCap,            \* Config.ReviewAttemptsCap
    MaxReviewAttemptsCap,   \* its highest value
    MaxVerifyRedCredit,     \* maxVerifyRedCredit
    ServerCeiling,          \* ContextMatrix's ceiling of review_attempts
    HasVerify,              \* whether the card has a verify command
    Modes,                  \* subset of {"auto", "human"}: Config.Interactive
    Bars,                   \* subset of BOOLEAN: whether a run is a POC review
    Mob,                    \* whether mob sessions review
    Faults,
    MaxCommits,             \* bound on the commits of the branch
    MaxRuns                 \* bound on the runs that enter review

ReviewFaults == {"time", "stop", "head", "card", "reset", "lease", "push",
                 "verify", "turns", "crash", "operator"}

ASSUME ReviewAssumption ==
    /\ AttemptsCap \in Nat \ {0} /\ MaxReviewAttemptsCap \in Nat
    /\ MaxVerifyRedCredit \in Nat /\ ServerCeiling \in Nat
    /\ AttemptsCap <= MaxReviewAttemptsCap /\ MaxReviewAttemptsCap < ServerCeiling
    /\ HasVerify \in BOOLEAN /\ Mob \in BOOLEAN
    /\ Modes \subseteq {"auto", "human"} /\ Bars \subseteq BOOLEAN
    /\ Faults \subseteq ReviewFaults
    /\ MaxCommits \in Nat /\ MaxRuns \in Nat

VARIABLES
    \* ContextMatrix: the card
    attempts,   \* review_attempts
    card,       \* the sections of its body: [parked, approval]
    phase,      \* its persisted phase: "new", "review", "earlier" or "later" than it
    \* git
    made,       \* how many commits there are
    hist,       \* what each holds
    remote,     \* the pushed branch
    head,       \* the worker's HEAD
    \* the run
    pc,
    runs,       \* runs so far (bound)
    mode,       \* "human" on an interactive card, "promoted" until its fix, "auto"
    poc,
    body,       \* the run's copy of the card's sections
    round,
    stage,      \* "cheap", then "strong" and "again" of the authoritative pass
    credit,     \* verifyRedCredit
    gate,       \* result of the round's verify gate
    verdict,    \* of the round: "revise", "approve", or "worth" a cleanup
    reviewed,   \* lastReviewBase
    preFix,     \* preFixHead, and pre of the cleanup pass
    green,      \* prevRoundGreen, and the first gate of the authoritative pass
    fixRan,
    pending,    \* fixCappedPending
    bar,        \* fixBarSteps
    adopting,   \* the cleanup pass is the one of an adopted approval
    why,        \* what ended the run
    \* history
    approvals,  \* the commits a verdict approved, and at which bar
    scope,      \* the commits the last panel was shown
    covered,    \* the commits the run's panels were shown
    gateOf,     \* the run's latest gate result of each commit
    fixes,      \* fix rounds of the run
    blamed,     \* the fix rounds charged to the bar
    cleaned,    \* the commit the cleanup pass found
    origin,     \* attempts when the run entered review
    dropped     \* attempts the run's numbering leaves out

cm      == <<attempts, card, phase>>
git     == <<made, hist, remote, head>>
entry   == <<runs, poc, origin, dropped>>
ending  == <<why, adopting, cleaned>>
rounds  == <<round, stage, credit>>
result  == <<gate, verdict>>
judging == <<green, fixRan, pending, bar, blamed>>
fixing  == <<preFix, fixes>>
panels  == <<reviewed, scope, covered>>
vars    == <<cm, git, pc, mode, body, entry, ending, rounds, result, judging, fixing,
             panels, approvals, gateOf>>

Commits == 1..MaxCommits
None    == 0
NoApproval == [at |-> None, poc |-> FALSE, worth |-> FALSE]

Approval == [at : 0..MaxCommits, poc : BOOLEAN, worth : BOOLEAN]
Sections == [parked : BOOLEAN, approval : Approval]
Gates    == {"none", "passed", "failed", "skipped"}

\* Mutant of CreditCap: not clamped by the ceiling.
CreditUnclamped(cap) == MaxVerifyRedCredit

\* How many rounds red gates may add to the loop.
CreditCap(cap) ==
    IF MaxReviewAttemptsCap - cap < MaxVerifyRedCredit
    THEN MaxReviewAttemptsCap - cap ELSE MaxVerifyRedCredit

CardTypeOK ==
    /\ attempts \in 0..ServerCeiling
    /\ card \in Sections /\ body \in Sections
    /\ phase \in {"new", "earlier", "review", "later"}

GitTypeOK ==
    /\ made \in 0..MaxCommits
    /\ hist \in [0..MaxCommits -> SUBSET Commits]
    /\ remote \in 0..MaxCommits /\ head \in 0..MaxCommits

RunTypeOK ==
    /\ pc \in {"idle", "adopt", "round", "gate", "panel", "verdict", "record", "human",
               "judge", "count", "park", "fix", "cleanup", "prove", "approved", "stopped"}
    /\ runs \in 0..MaxRuns
    /\ mode \in {"auto", "human", "promoted"} /\ poc \in BOOLEAN
    /\ adopting \in BOOLEAN /\ cleaned \in 0..MaxCommits
    /\ why \in {"none", "other", "attempts", "ceiling", "human", "unpushed", "kept"}
    /\ origin \in 0..ServerCeiling /\ dropped \in 0..ServerCeiling

RoundTypeOK ==
    /\ round \in Nat
    /\ stage \in {"cheap", "strong", "again"}
    /\ credit \in 0..(MaxReviewAttemptsCap - AttemptsCap)
    /\ gate \in Gates /\ verdict \in {"revise", "approve", "worth"}
    /\ approvals \in SUBSET [at : 0..MaxCommits, poc : BOOLEAN]
    /\ reviewed \in 0..MaxCommits
    /\ scope \in SUBSET Commits /\ covered \in SUBSET Commits
    /\ gateOf \in [0..MaxCommits -> Gates]

FixTypeOK ==
    /\ preFix \in 0..MaxCommits
    /\ green \in BOOLEAN /\ fixRan \in BOOLEAN /\ pending \in BOOLEAN
    /\ bar \in Nat /\ fixes \in Nat /\ blamed \in SUBSET Nat

ReviewTypeOK == CardTypeOK /\ GitTypeOK /\ RunTypeOK /\ RoundTypeOK /\ FixTypeOK

\* What a run starts from, beside the snapshot of the card.
Fresh ==
    /\ round = 0 /\ stage = "cheap" /\ credit = 0
    /\ gate = "none" /\ verdict = "revise"
    /\ reviewed = None /\ scope = {} /\ covered = {}
    /\ preFix = None /\ green = FALSE /\ fixRan = FALSE /\ pending = FALSE
    /\ bar = 0 /\ fixes = 0 /\ blamed = {}
    /\ adopting = FALSE /\ cleaned = None /\ why = "none"
    /\ gateOf = [c \in 0..MaxCommits |-> "none"]
    /\ mode = "auto" /\ poc = FALSE /\ origin = 0 /\ dropped = 0
    /\ body = [parked |-> FALSE, approval |-> NoApproval]

Init ==
    /\ attempts = 0 /\ phase = "new"
    /\ card = [parked |-> FALSE, approval |-> NoApproval]
    /\ made = 0 /\ hist = [c \in 0..MaxCommits |-> {}]
    /\ remote = None /\ head = None
    /\ pc = "idle" /\ runs = 0
    /\ approvals = {}
    /\ Fresh

-----------------------------------------------------------------------------
(* Helpers. *)

Fault(f) == f \in Faults
Goto(to) == pc' = to

\* A section is written into the run's body, and the whole body is pushed as
\* well as can be (recordSection, clearSection).
Write(b) ==
    /\ body' = b
    /\ card' = b \/ (Fault("card") /\ card' = card)

\* A section the model does not hold may be written too, with the whole body.
WriteOther == Write(body) \/ UNCHANGED <<body, card>>

\* A commit on top of commit c.
Commit(c) ==
    /\ made < MaxCommits
    /\ made' = made + 1
    /\ hist' = [hist EXCEPT ![made + 1] = hist[c] \cup {made + 1}]

GateRuns(g) ==
    /\ g \in IF HasVerify THEN {"passed", "failed", "skipped"} ELSE {"none"}
    /\ gateOf' = [gateOf EXCEPT ![head] = g]

\* markFixFailed: fix round f, which ran last, is charged to the bar.
MarkFixFailed(f) ==
    /\ bar' = bar + 1
    /\ blamed' = blamed \cup {f}

Unblamed == UNCHANGED <<bar, blamed>>

StopWith(reason) ==
    /\ why' = reason
    /\ Goto("stopped")
    /\ UNCHANGED <<adopting, cleaned>>

-----------------------------------------------------------------------------
(* Entering review. *)

\* Round numbers restart only behind a finished loop: one that parked at a cap,
\* or that of a card reopened.
Restarts ==
    /\ attempts >= AttemptsCap
    /\ card.parked \/ phase = "new"

\* A run reaches review with the branch its earlier phases pushed, or resumes
\* there on the pushed branch; the earlier phases of a fresh run may have been
\* another run's (phase "earlier").
Begin ==
    /\ pc = "idle" /\ phase # "later" /\ runs < MaxRuns
    /\ runs' = runs + 1
    /\ \/ /\ phase \in {"new", "earlier"}
          /\ Commit(None) /\ head' = made' /\ remote' = made'
       \/ /\ phase = "review"
          /\ head' = remote
          /\ UNCHANGED <<made, hist, remote>>
    /\ phase' = "review"
    /\ origin' = attempts
    /\ dropped' = IF Restarts THEN attempts ELSE 0
    /\ round' = attempts - dropped' + 1
    /\ IF card.parked THEN Write([card EXCEPT !.parked = FALSE])
       ELSE body' = card /\ UNCHANGED card
    /\ poc' \in Bars
    /\ mode' \in Modes
    /\ Goto(IF mode' = "human" THEN "round" ELSE "adopt")
    /\ UNCHANGED <<attempts, ending, stage, credit, result, judging, fixing, panels,
                   approvals, gateOf>>

Record == body.approval

\* Mutant of Matches: the record is taken for the branch it finds.
MatchesAnyHead == Record.at # None /\ (Record.poc => poc)

\* The recorded approval is of this commit, and not of a lower bar.
Matches == Record.at # None /\ Record.at = head /\ (Record.poc => poc)

\* The review is approved; an adopted record is cleared from the card.
Approved ==
    /\ Goto("approved")
    /\ IF adopting THEN Write([body EXCEPT !.approval = NoApproval])
       ELSE UNCHANGED <<body, card>>

ApprovedCorrected ==
    IF adopting THEN Approved ELSE Goto("approved") /\ Write(body)

\* tryAdoptApproval: the gate must pass again; the surviving fixes are applied.
Adopt ==
    /\ pc = "adopt"
    /\ Matches
    /\ \E g \in {"passed", "none"} : GateRuns(g)
    /\ \/ /\ Record.worth /\ ~poc
          /\ adopting' = TRUE /\ Goto("cleanup")
          /\ UNCHANGED <<body, card>>
       \/ /\ ~Record.worth \/ poc
          /\ Write([body EXCEPT !.approval = NoApproval]) /\ Goto("approved")
          /\ UNCHANGED adopting
    /\ UNCHANGED <<attempts, phase, git, mode, entry, why, cleaned, rounds, result,
                   judging, fixing, panels, approvals>>

AdoptNot ==
    /\ pc = "adopt"
    /\ \/ /\ ~Matches \/ Fault("head") \/ Fault("verify")
          /\ UNCHANGED gateOf
       \/ /\ Matches
          /\ \E g \in {"failed", "skipped"} : GateRuns(g)
    /\ Goto("round")
    /\ UNCHANGED <<cm, git, mode, body, entry, ending, rounds, result, judging, fixing,
                   panels, approvals>>

-----------------------------------------------------------------------------
(* A round. *)

\* At the cliff the authoritative pass takes over; a human's rounds have none.
RoundBegins ==
    /\ pc = "round"
    /\ stage' = IF mode = "auto" /\ round >= AttemptsCap + credit THEN "strong" ELSE "cheap"
    /\ Goto("gate")
    /\ UNCHANGED <<cm, git, mode, body, entry, ending, round, credit, result, judging,
                   fixing, panels, approvals, gateOf>>

\* reviewTimeLeft.
OutOfTime ==
    /\ Fault("time")
    /\ pc = "round" /\ mode = "auto"
    /\ StopWith("other")
    /\ UNCHANGED <<cm, git, mode, body, entry, rounds, result, judging, fixing, panels,
                   approvals, gateOf>>

\* reviewRound: a red gate is the round's verdict, without a panel.
Gate ==
    /\ pc = "gate"
    /\ \E g \in Gates :
          /\ GateRuns(g)
          /\ gate' = g
          /\ Goto(IF g = "failed" THEN "record" ELSE "panel")
    /\ verdict' = "revise"
    /\ UNCHANGED <<cm, git, mode, body, entry, ending, rounds, judging, fixing, panels,
                   approvals>>

Shown(base) == hist[head] \ hist[base]

\* runSpecialists: a cheap round is shown what changed since the last panel.
Panel ==
    /\ pc = "panel"
    /\ scope' = Shown(IF stage = "cheap" THEN reviewed ELSE None)
    /\ covered' = covered \cup scope'
    /\ reviewed' = head \/ (Fault("head") /\ UNCHANGED reviewed)
    /\ Goto("verdict")
    /\ UNCHANGED <<cm, git, mode, body, entry, ending, rounds, result, judging, fixing,
                   approvals, gateOf>>

\* mobReviewVerdict: a discussion, which is shown the whole branch.
MobPanel ==
    /\ Mob /\ pc = "panel" /\ stage = "cheap"
    /\ scope' = Shown(None)
    /\ covered' = covered \cup scope'
    /\ reviewed' = head \/ (Fault("head") /\ UNCHANGED reviewed)
    /\ Goto("verdict")
    /\ UNCHANGED <<cm, git, mode, body, entry, ending, rounds, result, judging, fixing,
                   approvals, gateOf>>

\* A finding: critical or important, the same on an advisory basis, without a
\* severity, minor, nit.
Kinds == {"blocker", "advisory", "unlabelled", "minor", "nit"}

\* settleVerdict: advisory findings are capped, an approval with a blocker is
\* demoted, a revision without one is promoted.
Settle(yes, found) ==
    LET capped == (found \ {"advisory"}) \cup (IF "advisory" \in found THEN {"minor"} ELSE {})
        agreed == IF yes THEN "blocker" \notin capped
                  ELSE capped # {} /\ capped \cap {"blocker", "unlabelled"} = {}
    IN  IF ~agreed THEN "revise"
        ELSE IF capped \subseteq {"nit"} THEN "approve" ELSE "worth"

Synthesize ==
    /\ pc = "verdict"
    /\ \E yes \in BOOLEAN, found \in SUBSET Kinds : verdict' = Settle(yes, found)
    /\ approvals' = IF verdict' = "revise" THEN approvals
                    ELSE approvals \cup {[at |-> head, poc |-> poc]}
    /\ Goto("record")
    /\ UNCHANGED <<cm, git, mode, body, entry, ending, rounds, gate, judging, fixing,
                   panels, gateOf>>

\* recordReview, then recordApproval before anything else is done about it.
RecordApproval ==
    /\ pc = "record" /\ mode = "auto" /\ verdict # "revise"
    /\ \/ Write([body EXCEPT !.approval =
                 [at |-> head, poc |-> poc, worth |-> verdict = "worth"]])
       \/ Fault("head") /\ Write(body)
    /\ Goto(IF stage = "cheap" /\ verdict = "worth" /\ ~poc THEN "cleanup" ELSE "approved")
    /\ UNCHANGED <<attempts, phase, git, mode, entry, ending, rounds, result, judging,
                   fixing, panels, approvals, gateOf>>

RecordRevision ==
    /\ pc = "record" /\ mode = "auto" /\ verdict = "revise"
    /\ Write(body)
    /\ Goto("judge")
    /\ UNCHANGED <<attempts, phase, git, mode, entry, ending, rounds, result, judging,
                   fixing, panels, approvals, gateOf>>

-----------------------------------------------------------------------------
(* The human's decision (runReviewHITL). *)

Presents ==
    /\ pc = "record" /\ mode = "human"
    /\ Write(body)
    /\ Goto("human")
    /\ UNCHANGED <<attempts, phase, git, mode, entry, ending, rounds, result, judging,
                   fixing, panels, approvals, gateOf>>

HumanApproves ==
    /\ pc = "human"
    /\ why' = "human"
    /\ Goto("approved")
    /\ UNCHANGED <<cm, git, mode, body, entry, adopting, cleaned, rounds, result, judging,
                   fixing, panels, approvals, gateOf>>

HumanAdjusts ==
    /\ pc = "human"
    /\ Goto("count")
    /\ UNCHANGED <<cm, git, mode, body, entry, ending, rounds, result, judging, fixing,
                   panels, approvals, gateOf>>

\* The card went autonomous: the verdict in hand decides, one fix is landed,
\* and the rest is the autonomous loop's.
Promoted ==
    /\ pc = "human"
    /\ mode' = IF verdict = "revise" THEN "promoted" ELSE "auto"
    /\ Goto(IF verdict = "revise" THEN "count" ELSE "approved")
    /\ UNCHANGED <<cm, git, body, entry, ending, rounds, result, judging, fixing, panels,
                   approvals, gateOf>>

-----------------------------------------------------------------------------
(* What a round says of the fix before it. *)

\* discardRegressingFix: the branch goes back to the commit before the fix, the
\* remote with a lease on the fix.
Discard ==
    /\ preFix # None /\ head # preFix /\ remote = head
    /\ head' = preFix /\ remote' = preFix
    /\ UNCHANGED <<made, hist>>

\* Every failure leaves the fix where it is; a lease that failed and could not
\* be taken back locally leaves HEAD behind.
Undiscarded ==
    \/ /\ \/ preFix = None \/ head = preFix \/ remote # head
          \/ Fault("head") \/ Fault("reset") \/ Fault("lease")
       /\ UNCHANGED git
    \/ /\ preFix # None /\ head # preFix
       /\ remote # head \/ Fault("lease")
       /\ Fault("reset")
       /\ head' = preFix
       /\ UNCHANGED <<made, hist, remote>>

\* Mutant of CapSettles: the capped round stays pending.
CapLingers == UNCHANGED pending

CapSettles == pending' = FALSE

\* reviewLoop: what its gate charges to the fix it follows.
JudgeCheap ==
    /\ pc = "judge" /\ stage = "cheap"
    /\ LET red == gate = "failed" IN
       /\ credit' = IF red /\ credit < CreditCap(AttemptsCap) THEN credit + 1 ELSE credit
       /\ CapSettles
       /\ \/ /\ fixRan /\ red /\ green
             /\ MarkFixFailed(fixes)
             /\ \/ Discard /\ green' = TRUE
                \/ Undiscarded /\ green' = FALSE
          \/ /\ red /\ (IF fixRan THEN ~green ELSE pending)
             /\ MarkFixFailed(fixes) /\ green' = FALSE
             /\ UNCHANGED git
          \/ /\ ~red \/ (~fixRan /\ ~pending)
             /\ green' = (gate = "passed")
             /\ Unblamed /\ UNCHANGED git
    /\ Goto("count")
    /\ UNCHANGED <<cm, mode, body, entry, ending, round, stage, result, fixRan, fixing,
                   panels, approvals, gateOf>>

\* authoritativeReview, its first round: it settles a capped fix only.
JudgeStrong ==
    /\ pc = "judge" /\ stage = "strong"
    /\ IF pending /\ gate = "failed" THEN MarkFixFailed(fixes) ELSE Unblamed
    /\ CapSettles
    /\ green' = (gate = "passed")
    /\ Goto("count")
    /\ UNCHANGED <<cm, git, mode, body, entry, ending, rounds, result, fixRan, fixing,
                   panels, approvals, gateOf>>

\* Its second round: the strong fix is discarded if it regressed the gate.
JudgeAgain ==
    /\ pc = "judge" /\ stage = "again"
    /\ IF green /\ gate = "failed"
       THEN \/ Discard /\ MarkFixFailed(fixes)
            \/ Undiscarded /\ Unblamed
       ELSE Unblamed /\ UNCHANGED git
    /\ Goto("count")
    /\ UNCHANGED <<cm, mode, body, entry, ending, rounds, result, green, fixRan, pending,
                   fixing, panels, approvals, gateOf>>

\* Mutant of Counted: the rounds no panel judged are not counted.
CountsPanels == attempts' = IF gate = "failed" THEN attempts ELSE attempts + 1

Counted == attempts' = attempts + 1

\* incrementReviewAttempt: ContextMatrix counts the round, or refuses.
Count ==
    /\ pc = "count" /\ attempts < ServerCeiling
    /\ Counted
    /\ why' = IF stage = "again" THEN "attempts" ELSE why
    /\ Goto(IF stage = "again" THEN "park" ELSE "fix")
    /\ UNCHANGED <<card, phase, git, mode, body, entry, adopting, cleaned, rounds, result,
                   judging, fixing, panels, approvals, gateOf>>

Refused ==
    /\ pc = "count" /\ attempts = ServerCeiling
    /\ why' = "ceiling" /\ Goto("park")
    /\ UNCHANGED <<cm, git, mode, body, entry, adopting, cleaned, rounds, result, judging,
                   fixing, panels, approvals, gateOf>>

\* capPark: the card remembers that its loop finished.
CapPark ==
    /\ pc = "park"
    /\ Write([body EXCEPT !.parked = TRUE])
    /\ Goto("stopped")
    /\ UNCHANGED <<attempts, phase, git, mode, entry, ending, rounds, result, judging,
                   fixing, panels, approvals, gateOf>>

-----------------------------------------------------------------------------
(* A fix round. *)

\* Mutant of HeadRead: an unreadable head leaves the value of the round before.
HeadKept == preFix' = head \/ (Fault("head") /\ UNCHANGED preFix)

\* The head before a fix; cleared when it cannot be read.
HeadRead == preFix' = head \/ (Fault("head") /\ preFix' = None)

\* The autonomous loop and pass read it, the human's rounds do not.
BeforeFix == IF mode = "auto" THEN HeadRead ELSE UNCHANGED preFix

NextRound ==
    /\ mode' = IF mode = "promoted" THEN "auto" ELSE mode
    /\ round' = round + 1
    /\ stage' = IF stage = "strong" THEN "again" ELSE stage
    /\ Goto(IF stage = "strong" THEN "gate" ELSE "round")

\* A plain push takes the remote forward only.
PushLands == remote \in hist'[head'] /\ remote' = head'

PushFails == (Fault("push") \/ remote \notin hist'[head']) /\ UNCHANGED remote

Spent == IF Fault("turns") THEN BOOLEAN ELSE {FALSE}

\* The fixup is pushed.  A round that spent its turns is judged by the next
\* gate as a capped one, any other as a fix that ran.
FixLands ==
    /\ pc = "fix"
    /\ BeforeFix
    /\ Commit(head) /\ head' = made'
    /\ PushLands
    /\ fixes' = fixes + 1
    /\ IF mode = "auto" /\ stage = "cheap"
       THEN \E spent \in Spent : pending' = spent /\ fixRan' = ~spent
       ELSE UNCHANGED <<pending, fixRan>>
    /\ WriteOther
    /\ NextRound
    /\ UNCHANGED <<attempts, phase, entry, ending, credit, result, green, bar, blamed, panels,
                   approvals, gateOf>>

\* Mutant of Rewiden: the snapshot of the last panel stays.
KeepsDelta == UNCHANGED reviewed

\* Nothing changed: the next panel is shown the whole branch again.
Rewiden == reviewed' = None

FixMissing ==
    /\ pc = "fix"
    /\ BeforeFix
    /\ fixes' = fixes + 1
    /\ Rewiden
    /\ IF mode = "auto" /\ stage = "cheap"
       THEN fixRan' = FALSE /\ MarkFixFailed(fixes')
       ELSE UNCHANGED fixRan /\ Unblamed
    /\ WriteOther
    /\ NextRound
    /\ UNCHANGED <<attempts, phase, git, entry, ending, credit, result, green, pending, scope,
                   covered, approvals, gateOf>>

\* The fixup is on HEAD and the push failed.
FixUnpushed ==
    /\ pc = "fix"
    /\ BeforeFix
    /\ Commit(head) /\ head' = made'
    /\ PushFails
    /\ fixes' = fixes + 1
    /\ StopWith("other")
    /\ UNCHANGED <<cm, mode, body, entry, rounds, result, judging, panels, approvals,
                   gateOf>>

-----------------------------------------------------------------------------
(* The cleanup pass of an approval. *)

Cleans ==
    /\ pc = "cleanup"
    /\ HeadRead
    /\ cleaned' = head

CleanupLands ==
    /\ Cleans
    /\ Commit(head) /\ head' = made'
    /\ PushLands
    /\ IF HasVerify THEN Goto("prove") /\ UNCHANGED <<body, card>> ELSE Approved
    /\ UNCHANGED <<attempts, phase, mode, entry, adopting, why, rounds, result, judging,
                   fixes, panels, approvals, gateOf>>

\* Nothing to commit, or an error of the fixer that is not a park.
CleanupMissing ==
    /\ Cleans
    /\ Rewiden \/ UNCHANGED reviewed
    /\ Approved
    /\ UNCHANGED <<attempts, phase, git, mode, entry, adopting, why, rounds, result,
                   judging, fixes, scope, covered, approvals, gateOf>>

\* A failed push is swallowed like any other error, and HEAD keeps the fixup.
CleanupUnpushed ==
    /\ Cleans
    /\ Commit(head) /\ head' = made'
    /\ PushFails
    /\ why' = "unpushed"
    /\ Approved
    /\ UNCHANGED <<attempts, phase, mode, entry, adopting, rounds, result, judging, fixes,
                   panels, approvals, gateOf>>

\* verifyCleanupFixup: a red gate, or one that cannot run, drops the fixup; what
\* stays without a green gate corrects the round the card tells of.
Prove ==
    /\ pc = "prove"
    /\ \E g \in {"passed", "skipped", "failed"} \cup (IF Fault("verify") THEN {"none"} ELSE {}) :
          /\ gateOf' = [gateOf EXCEPT ![head] = g]
          /\ \/ g = "passed" /\ UNCHANGED <<head, why>> /\ Approved
             \/ g = "skipped" /\ UNCHANGED <<head, why>> /\ ApprovedCorrected
             \/ /\ g \in {"failed", "none"} /\ preFix # None
                /\ head' = preFix /\ UNCHANGED why /\ Approved
             \/ /\ g \in {"failed", "none"} /\ (preFix = None \/ Fault("reset"))
                /\ why' = "kept" /\ UNCHANGED head /\ ApprovedCorrected
    /\ UNCHANGED <<attempts, phase, made, hist, remote, mode, entry, adopting, cleaned,
                   rounds, result, judging, fixing, panels, approvals>>

-----------------------------------------------------------------------------
(* How a run ends, and what happens between runs. *)

\* A park or an error of a model call, a gate, a diff or the card's counter.  A
\* verdict that ran out of turns leaves the panel's findings on the card.
Stop ==
    /\ Fault("stop")
    /\ pc \in {"gate", "panel", "verdict", "human", "count", "fix", "cleanup"}
    /\ IF pc = "verdict" THEN WriteOther ELSE UNCHANGED <<body, card>>
    /\ StopWith("other")
    /\ UNCHANGED <<attempts, phase, git, mode, entry, rounds, result, judging, fixing,
                   panels, approvals, gateOf>>

\* The run is over: the next one knows nothing of it but the card and the remote.
Over ==
    /\ Goto("idle")
    /\ body' = [parked |-> FALSE, approval |-> NoApproval]
    /\ mode' = "auto" /\ poc' = FALSE /\ origin' = 0 /\ dropped' = 0
    /\ round' = 0 /\ stage' = "cheap" /\ credit' = 0
    /\ gate' = "none" /\ verdict' = "revise"
    /\ reviewed' = None /\ scope' = {} /\ covered' = {}
    /\ preFix' = None /\ fixes' = 0
    /\ green' = FALSE /\ fixRan' = FALSE /\ pending' = FALSE /\ bar' = 0 /\ blamed' = {}
    /\ adopting' = FALSE /\ cleaned' = None /\ why' = "none"
    /\ gateOf' = [c \in 0..MaxCommits |-> "none"]
    /\ UNCHANGED <<runs, approvals>>

Crash ==
    /\ Fault("crash") /\ pc # "idle"
    /\ Over
    /\ UNCHANGED <<cm, git>>

\* The FSM goes on to integrate, which rewrites and pushes the branch.
Integrates ==
    /\ pc = "approved"
    /\ phase' = "later"
    /\ remote' = head
    /\ Over
    /\ UNCHANGED <<attempts, card, made, hist, head>>

\* The worker pushes what the run left behind, as far as the remote takes it.
Leaves ==
    /\ pc = "stopped"
    /\ \/ UNCHANGED git
       \/ remote \in hist[head] /\ remote' = head /\ UNCHANGED <<made, hist, head>>
       \/ /\ why = "other"
          /\ Commit(head) /\ head' = made'
          /\ PushLands
    /\ Over
    /\ UNCHANGED cm

\* A finished card is run again: ContextMatrix forgets the phase, not the rest.
Reopen ==
    /\ pc = "idle" /\ phase = "later"
    /\ phase' = "new"
    /\ UNCHANGED <<attempts, card, git, pc, mode, body, entry, ending, rounds, result,
                   judging, fixing, panels, approvals, gateOf>>

\* A fresh run ends before it reaches review.
StopsEarly ==
    /\ pc = "idle" /\ phase = "new"
    /\ phase' = "earlier"
    /\ UNCHANGED <<attempts, card, git, pc, mode, body, entry, ending, rounds, result,
                   judging, fixing, panels, approvals, gateOf>>

\* Someone pushes to the branch while no run, or one that reads on, holds it.
OperatorPush ==
    /\ Fault("operator") /\ phase = "review"
    /\ Commit(remote) /\ remote' = made'
    /\ UNCHANGED <<cm, head, pc, mode, body, entry, ending, rounds, result, judging,
                   fixing, panels, approvals, gateOf>>

Rest == pc = "idle" /\ UNCHANGED vars

Next ==
    \/ Begin \/ Adopt \/ AdoptNot \/ RoundBegins \/ OutOfTime
    \/ Gate \/ Panel \/ MobPanel \/ Synthesize \/ RecordApproval \/ RecordRevision
    \/ Presents \/ HumanApproves \/ HumanAdjusts \/ Promoted
    \/ JudgeCheap \/ JudgeStrong \/ JudgeAgain \/ Count \/ Refused \/ CapPark
    \/ FixLands \/ FixMissing \/ FixUnpushed
    \/ CleanupLands \/ CleanupMissing \/ CleanupUnpushed \/ Prove
    \/ Stop \/ Crash \/ Integrates \/ Leaves \/ Reopen \/ StopsEarly \/ OperatorPush
    \/ Rest

Spec == Init /\ [][Next]_vars

-----------------------------------------------------------------------------
(* Properties. *)

\* The branch holds the work a verdict of this bar approved, behind a gate that
\* was not red, and beyond it at most the fixup of a cleanup whose own gate ran
\* and was not red.
Proven ==
    \E a \in approvals :
        /\ a.poc => poc
        /\ HasVerify => gateOf[a.at] \in {"passed", "skipped"}
        /\ \/ head = a.at
           \/ /\ hist[head] = hist[a.at] \cup {head} /\ cleaned = a.at
              /\ HasVerify => gateOf[head] \in {"passed", "skipped"}

\* A review that ends approved hands on a branch that was judged.  The exceptions
\* are the human's word and the two cleanups that cannot take their fixup back
\* (runReview, tryAdoptApproval, cleanupPass, verifyCleanupFixup).
ApprovedIsProven ==
    pc = "approved" /\ why \notin {"human", "kept", "unpushed"} => Proven

\* A cleanup fixup is proved or dropped, unless the pass says it could not be
\* dropped (cleanupPass, verifyCleanupFixup, discardCleanupFixup).
CleanupIsProven ==
    pc = "approved" /\ why \notin {"human", "kept"} => Proven

\* A panel is asked about something, and when it is, this run's panels have been
\* shown every commit of the branch: the snapshot that narrows a panel to what
\* changed never hides a commit nobody reviewed (runSpecialists, runFix).
NothingUnseen ==
    pc = "verdict" => scope # {} /\ hist[head] \subseteq covered

\* A fix round raises the bar of the fixers at most once, whichever gate, cap or
\* discard it meets (reviewLoop, authoritativeReview, markFixFailed).
OneChargePerFix == bar = Cardinality(blamed)

\* While review runs, the branch that is pushed loses at most the last fix, and
\* only for the green tree that fix turned red (discardRegressingFix).
DiscardsOneFix ==
    [][pc \notin {"idle", "approved"} /\ remote \notin hist'[remote'] =>
          /\ gateOf[remote] = "failed" /\ gateOf[remote'] = "passed"
          /\ hist[remote] = hist[remote'] \cup {remote}]_vars

\* The round a run is at is the card's counter: a resume, a credit or a hand-off
\* from the human never repeats or skips a number (reviewLoop, runReviewHITL).
RoundMirrorsCounter == pc = "round" => round = (attempts - dropped) + 1

\* The credit of red gates never widens the loop past ContextMatrix's ceiling: an
\* autonomous card whose counter starts at zero parks by itself (creditCap,
\* MaxReviewAttemptsCap).
NoRefusal == why = "ceiling" /\ "human" \notin Modes => origin > 0
=============================================================================
