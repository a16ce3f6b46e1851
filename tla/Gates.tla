-------------------------------- MODULE Gates --------------------------------
(***************************************************************************)
(* The pr_gates phase of the worker (internal/orchestrator/gates.go): the   *)
(* Copilot gate, the CI gate, the late look for a Copilot review, the merge *)
(* and the card's transition to done, over the runs that resume a card the  *)
(* gates parked, lost to a crash or failed to finish.                       *)
(*                                                                          *)
(* A comment is its dedupe key.  What is known of the head is what GitHub   *)
(* shows of it: the state of its checks and whether Copilot's latest review *)
(* is a review of it; a push takes both away.  A wait ends when its step    *)
(* says so: no clock is modelled, except that a repository with CI shows a  *)
(* check within the no-checks grace of a push.                              *)
(***************************************************************************)
EXTENDS Integers, FiniteSets

CONSTANTS
    Comments,   \* what Copilot may say
    RoundsCap,  \* gatesRoundsCap
    Cards,      \* the cards the phase may be about
    MaxRuns     \* bound on the runs that enter the gates

Repos == {"CI", "no CI", "silent CI"}   \* "silent": CI nothing announces
GatesFaults == {"card", "gh", "stop", "partial", "crash", "operator", "threads"}

ASSUME GatesAssumption ==
    /\ RoundsCap \in Nat /\ MaxRuns \in Nat
    /\ Cards \subseteq [ci : BOOLEAN, copilot : BOOLEAN, merge : BOOLEAN, pr : BOOLEAN,
                       repo : Repos, says : SUBSET Comments, faults : SUBSET GatesFaults]

Verdicts == {"none", "valid", "invalid"}
Rounds == 1 .. RoundsCap + 1
Kinds == {"copilot", "ci"}

VARIABLES
    tc,         \* the card: its gates and its repository; what Copilot may say of
                \* it, and the calls that may fail
    \* GitHub: the pull request
    checks,     \* the checks of its head
    review,     \* Copilot's latest review: [on, comments]; on: of the head
    asked,      \* Copilot is a requested reviewer
    resolved,   \* the comments whose thread is resolved
    merged,
    \* ContextMatrix: the card
    saved,      \* its sections
    url,        \* it records the pull request
    done,
    \* the run
    pc,
    runs,       \* runs so far (bound)
    body,       \* its copy of the sections, "## PR Gates" among them
    judged,     \* triaged of copilotGate and copilotReviewCycle
    inhand,     \* the comments of the review it works on
    late,       \* the cycle is the late check's
    unavail,    \* CopilotDetail names a proven 422
    ciSaw,      \* ciSawChecks
    saw,        \* sawChecks
    probed,
    bar,        \* fixBarSteps is not zero
    \* what the run does not see, and history
    theirs,     \* what somebody else pushed since the run took the branch: nothing,
                \* something the CI gate had before it ("gated"), something since ("late")
    fresh,      \* a fix was pushed since the CI gate was entered
    begun,      \* the fix rounds begun, over all runs; none once lost
    lost,       \* a write of the card was lost
    ungated,    \* the run left a late fix round without a CI gate
    muddled     \* a triage named some comments only, or wrote over a section

pr == <<checks, review, asked, resolved, merged>>
cm == <<saved, url, done, lost>>
mem == <<judged, inhand, late, unavail, ciSaw, saw, probed, bar>>
hist == <<theirs, fresh, begun, ungated, muddled>>
vars == <<tc, pr, cm, pc, runs, body, mem, hist>>

Fault(f) == f \in tc.faults

Sections == [rounds : [Kinds -> 0 .. RoundsCap], sat : BOOLEAN, merged : BOOLEAN,
             triage : [Rounds -> [Comments -> Verdicts]]]
NoVerdict == [c \in Comments |-> "none"]
NoSections == [rounds |-> [g \in Kinds |-> 0], sat |-> FALSE, merged |-> FALSE,
               triage |-> [r \in Rounds |-> NoVerdict]]
(* The verdicts on the card: of two sections that judge a comment the later  *)
(* one counts. *)
TriagedComments(b) ==
    [c \in Comments |->
        LET said == {r \in Rounds : b.triage[r][c] # "none"} IN
        IF said = {} THEN "none"
        ELSE b.triage[CHOOSE r \in said : \A q \in said : q <= r][c]]

\* Mutant of Unseen: a comment judged invalid reads as one never judged.
UnseenByValue == {c \in inhand : judged[c] # "valid"}
\* Mutant of RepeatedValid: whatever an earlier round judged is settled.
RepeatedIgnored == {}
\* Mutant of ConfirmedFixed: the push confirms the fix.
ConfirmedByPush == {c \in Comments : judged[c] = "valid"}

Unseen == {c \in inhand : judged[c] = "none"}
RepeatedValid == {c \in inhand : judged[c] = "valid"}
ConfirmedFixed == {c \in Comments : judged[c] = "valid"} \ inhand

Init ==
    /\ tc \in Cards
    /\ checks = "none" /\ review = [on |-> FALSE, comments |-> {}]
    /\ asked = FALSE /\ resolved = {} /\ merged = FALSE
    /\ saved = NoSections /\ url \in BOOLEAN /\ done = FALSE
    /\ pc = "idle" /\ runs = 0 /\ body = NoSections
    /\ judged = NoVerdict /\ inhand = {} /\ late = FALSE /\ unavail = FALSE
    /\ ciSaw = FALSE /\ saw = FALSE /\ probed = FALSE /\ bar = FALSE
    /\ theirs = "none" /\ fresh = FALSE /\ begun = [g \in Kinds |-> 0] /\ lost = FALSE
    /\ ungated = FALSE /\ muddled = FALSE

(* A section is written to the run's copy, and the copy to the card, best     *)
(* effort. *)
Save(b) ==
    /\ \/ saved' = b /\ lost' = lost
       \/ Fault("card") /\ saved' = saved /\ lost' = TRUE
    /\ UNCHANGED <<url, done>>
Write(b) == body' = b /\ Save(b)

Goto(p) == pc' = p
(* The run is over, and what it held in memory is gone. *)
Ends ==
    /\ Goto("idle") /\ body' = NoSections
    /\ judged' = NoVerdict /\ inhand' = {} /\ late' = FALSE /\ unavail' = FALSE
    /\ ciSaw' = FALSE /\ saw' = FALSE /\ probed' = FALSE /\ bar' = FALSE
    /\ ungated' = FALSE /\ fresh' = FALSE /\ theirs' = "none"
(* parkGates. *)
Park == Save(body) /\ Ends

(* What a push does to what GitHub shows of the head. *)
Pushed == checks' = "none" /\ review' = [review EXCEPT !.on = FALSE]

(* Best effort: the thread writer stops at its first failure. *)
Resolve(cs) ==
    IF Fault("threads")
    THEN \E done_ \in SUBSET cs : resolved' = resolved \cup done_
    ELSE resolved' = resolved \cup cs

-----------------------------------------------------------------------------
(* GitHub, and people. *)

ChecksMove ==
    /\ tc.ci /\ tc.repo # "no CI"
    /\ \/ checks = "none" /\ checks' = "pending"
       \/ checks = "pending" /\ checks' \in {"red", "failed", "passed"}
       \/ checks = "red" /\ checks' = "failed"
    /\ UNCHANGED <<tc, review, asked, resolved, merged, cm, pc, runs, body, mem, hist>>

(* Copilot reviews the head because it was asked to, or because a ruleset     *)
(* has it review every push. *)
CopilotReviews ==
    /\ tc.copilot
    /\ asked \/ ~review.on
    /\ \E cs \in SUBSET tc.says : review' = [on |-> TRUE, comments |-> cs]
    /\ asked' = FALSE
    /\ UNCHANGED <<tc, checks, resolved, merged, cm, pc, runs, body, mem, hist>>

(* Somebody else pushes to the branch, between two runs or in the middle of   *)
(* one, between a check and the merge that relies on it included: nothing is  *)
(* pinned to a head.  A run fetches nothing, and learns of it when its own    *)
(* push is refused. *)
OperatorPushes ==
    /\ Fault("operator") /\ runs > 0 /\ ~merged
    /\ Pushed
    /\ theirs' = (IF pc = "idle" THEN "none" ELSE "late")
    /\ UNCHANGED <<tc, asked, resolved, merged, cm, pc, runs, body, mem,
                   fresh, begun, ungated, muddled>>

-----------------------------------------------------------------------------
(* runPRGates: the entry. *)

Fresh ==
    /\ runs < MaxRuns /\ runs' = runs + 1
    /\ body' = saved /\ bar' \in BOOLEAN
    /\ UNCHANGED <<judged, inhand, late, unavail, ciSaw, saw, probed>>

Enter ==
    /\ pc = "idle" /\ ~done /\ url
    /\ Fresh /\ Goto("copilot")
    /\ UNCHANGED <<tc, pr, cm, hist>>

(* A card that is to have no pull request, and has none, is done. *)
PassesThrough ==
    /\ pc = "idle" /\ ~done /\ ~url /\ ~tc.pr
    /\ runs < MaxRuns /\ runs' = runs + 1
    /\ done' = TRUE
    /\ UNCHANGED <<tc, pr, saved, url, lost, pc, body, mem, hist>>

(* The card knows no pull request: the branch is asked for one, and the card  *)
(* told of it, best effort. *)
EnterFinds ==
    /\ pc = "idle" /\ ~done /\ ~url /\ tc.pr
    /\ Fresh /\ Goto("copilot")
    /\ url' = TRUE \/ (Fault("card") /\ url' = FALSE)
    /\ UNCHANGED <<tc, pr, saved, done, lost, hist>>

EnterFindsNone ==
    /\ pc = "idle" /\ ~done /\ ~url /\ tc.pr /\ Fault("gh")
    /\ runs < MaxRuns /\ runs' = runs + 1
    /\ UNCHANGED <<tc, pr, cm, pc, body, mem, hist>>

-----------------------------------------------------------------------------
(* copilotGate. *)

CopilotPasses ==
    /\ pc = "copilot" /\ (~tc.copilot \/ body.sat)
    /\ Goto("ci")
    /\ UNCHANGED <<tc, pr, cm, runs, body, mem, hist>>

CopilotOnHead ==
    /\ pc = "copilot" /\ tc.copilot /\ ~body.sat
    /\ review.on
    /\ judged' = TriagedComments(body) /\ inhand' = review.comments
    /\ Goto("cycle")
    /\ UNCHANGED <<tc, pr, cm, runs, body, late, unavail, ciSaw, saw, probed, bar, hist>>

CopilotAsks ==
    /\ pc = "copilot" /\ tc.copilot /\ ~body.sat
    /\ ~review.on \/ Fault("gh")
    /\ judged' = TriagedComments(body)
    /\ Goto(IF asked THEN "await" ELSE "ask")
    /\ UNCHANGED <<tc, pr, cm, runs, body, inhand, late, unavail, ciSaw, saw, probed, bar, hist>>

(* requestCopilotReview: the reviewer is on the pull request, was dropped,    *)
(* cannot be ("unavailable"), or nothing is proven. *)
Answers == {"present", "dropped", "unavailable", "indeterminate"}
Request(a) ==
    /\ a = "present" \/ Fault("gh")
    /\ CASE a = "present" -> asked' = TRUE
         [] a = "indeterminate" -> asked' \in {asked, TRUE}
         [] OTHER -> asked' = asked

(* skipCopilot. *)
Skip(a) == Write(body) /\ unavail' = (a = "unavailable")

Asks ==
    /\ pc = "ask"
    /\ \E a \in Answers :
        /\ Request(a)
        /\ \/ a \in {"present", "indeterminate"} /\ Goto("await")
              /\ UNCHANGED <<cm, body, unavail>>
           \/ a = "dropped" /\ Goto("grace") /\ UNCHANGED <<cm, body, unavail>>
           \/ a = "unavailable" /\ Goto("ci") /\ Skip(a)
    /\ UNCHANGED <<tc, checks, review, resolved, merged, runs, judged, inhand, late,
                   ciSaw, saw, probed, bar, hist>>

(* awaitCopilotReview, and the grace wait finding a review: of the head only. *)
ReviewArrives ==
    /\ pc \in {"await", "grace"} /\ review.on
    /\ pc = "grace" => (~asked \/ Fault("gh"))
    /\ inhand' = review.comments /\ Goto("cycle")
    /\ UNCHANGED <<tc, pr, cm, runs, body, judged, late, unavail, ciSaw, saw, probed, bar, hist>>

ReviewDoesNot ==
    /\ pc \in {"await", "grace"}
    /\ ~review.on \/ Fault("gh")
    /\ pc = "grace" => (~asked \/ Fault("gh"))
    /\ Goto("ci") /\ Skip("none")
    /\ UNCHANGED <<tc, pr, runs, judged, inhand, late, ciSaw, saw, probed, bar, hist>>

GraceUpgrades ==
    /\ pc = "grace" /\ asked
    /\ Goto("await")
    /\ UNCHANGED <<tc, pr, cm, runs, body, mem, hist>>

GraceRetries ==
    /\ pc = "grace" /\ ~asked /\ ~review.on
    /\ \E a \in Answers :
        /\ Request(a)
        /\ \/ a = "present" /\ Goto("await") /\ UNCHANGED <<cm, body, unavail>>
           \/ a = "unavailable" /\ Goto("ci") /\ Skip(a)
           \/ a \in {"dropped", "indeterminate"} /\ Goto("grace")
              /\ UNCHANGED <<cm, body, unavail>>
    /\ UNCHANGED <<tc, checks, review, resolved, merged, runs, judged, inhand, late,
                   ciSaw, saw, probed, bar, hist>>

-----------------------------------------------------------------------------
(* copilotReviewCycle: the review in hand against the verdicts so far. *)

CycleRepeats ==
    /\ pc = "cycle"
    /\ inhand # {} /\ Unseen = {} /\ RepeatedValid = {}
    /\ Resolve(ConfirmedFixed)
    /\ Goto("settled")
    /\ UNCHANGED <<tc, checks, review, asked, merged, cm, runs, body, mem, hist>>

CycleReopens ==
    /\ pc = "cycle"
    /\ Unseen = {} /\ RepeatedValid # {}
    /\ Resolve(ConfirmedFixed)
    /\ Goto("fix")
    /\ UNCHANGED <<tc, checks, review, asked, merged, cm, runs, body, mem, hist>>

CycleTriages ==
    /\ pc = "cycle"
    /\ Unseen # {} \/ inhand = {}
    /\ Resolve(ConfirmedFixed)
    /\ Goto("triage")
    /\ UNCHANGED <<tc, checks, review, asked, merged, cm, runs, body, mem, hist>>

(* What triageCopilot makes of the model's answer: the comments it named and  *)
(* those it holds valid; an answer that names none stands for all of them     *)
(* being valid, and one that names some leaves the others recorded valid. *)
Answer(named, valid) ==
    [c \in Comments |-> IF c \notin Unseen THEN "none"
                        ELSE IF c \in named \ valid THEN "invalid" ELSE "valid"]

(* The section of the round is written over, then what was dismissed is       *)
(* resolved, and what is valid goes to a fix round.  extra: a finding that is *)
(* no comment's.  An answer that finds nothing at all leaves every comment    *)
(* standing. *)
Triages ==
    /\ pc = "triage"
    /\ \E named \in SUBSET Unseen : \E valid \in SUBSET named :
       \E extra \in {"none", "dismissed", "held"} :
        LET round == body.rounds["copilot"] + 1
            verdict == Answer(named, valid)
            silent == named = {} /\ extra = "none"
            open == IF silent THEN Unseen ELSE valid
            partly == named # Unseen /\ ~silent
        IN
        /\ partly \/ (extra # "none" /\ Unseen # {}) => Fault("partial")
        /\ Write([body EXCEPT !.triage[round] = verdict])
        /\ judged' = [c \in Comments |-> IF c \in Unseen THEN verdict[c] ELSE judged[c]]
        /\ Resolve(named \ valid)
        /\ Goto(IF open = {} /\ RepeatedValid = {} /\ extra # "held" THEN "settled" ELSE "fix")
        /\ muddled' = (muddled \/ partly \/ body.triage[round] # NoVerdict)
    /\ UNCHANGED <<tc, checks, review, asked, merged, runs, inhand, late, unavail,
                   ciSaw, saw, probed, bar, theirs, fresh, begun, ungated>>

TriageStops ==
    /\ pc = "triage" /\ Fault("stop")
    /\ Park
    /\ UNCHANGED <<tc, pr, runs, begun, muddled>>

(* The card's gates are through: what the phase does next. *)
AfterPass == IF tc.ci /\ tc.merge THEN "merge" ELSE "finish"

CycleSatisfied ==
    /\ pc = "settled"
    /\ Write([body EXCEPT !.sat = TRUE])
    /\ Goto(IF late THEN AfterPass ELSE "ci")
    /\ inhand' = {} /\ judged' = NoVerdict
    /\ UNCHANGED <<tc, pr, runs, late, unavail, ciSaw, saw, probed, bar, hist>>

(* After the fix round: the re-review is requested. *)
CycleAsksAgain ==
    /\ pc = "again"
    /\ \E a \in Answers :
        /\ Request(a)
        /\ \/ a # "unavailable"
              /\ Goto(IF late THEN "copilot" ELSE IF a = "dropped" THEN "grace" ELSE "await")
              /\ late' = FALSE
              /\ UNCHANGED <<cm, body, unavail, ungated>>
           \/ a = "unavailable"
              /\ Goto(IF late THEN AfterPass ELSE "ci")
              /\ Skip(a)
              /\ ungated' = late /\ UNCHANGED late
    /\ inhand' = {}
    /\ UNCHANGED <<tc, checks, review, resolved, merged, runs, judged,
                   ciSaw, saw, probed, bar, theirs, fresh, begun, muddled>>
-----------------------------------------------------------------------------
(* copilotFixRound and ciFixRound: a round is counted and recorded before any *)
(* work; a fix ends pushed, pushed at its turn cap, without a change, or not  *)
(* at all. *)

Fixing(g) == IF g = "ci" THEN "cifixing" ELSE "fixing"
Fix(g) == IF g = "ci" THEN "cifix" ELSE "fix"
AfterFix(g) == IF g = "ci" THEN "poll" ELSE "again"

FixRefused(g) ==
    /\ pc = Fix(g) /\ body.rounds[g] >= RoundsCap
    /\ Park
    /\ UNCHANGED <<tc, pr, runs, begun, muddled>>

\* Mutants of FixBegins: the round is recorded with the next write only, and
\* the cap is not looked at.
FixBeginsUnrecorded(g) ==
    /\ pc = Fix(g) /\ body.rounds[g] < RoundsCap
    /\ body' = [body EXCEPT !.rounds[g] = @ + 1]
    /\ begun' = [begun EXCEPT ![g] = @ + 1]
    /\ Goto(Fixing(g))
    /\ UNCHANGED <<tc, pr, cm, runs, mem, theirs, fresh, ungated, muddled>>
FixBeginsUncapped(g) ==
    /\ pc = Fix(g) /\ Write([body EXCEPT !.rounds[g] = @ + 1])
    /\ begun' = [begun EXCEPT ![g] = @ + 1]
    /\ Goto(Fixing(g))
    /\ UNCHANGED <<tc, pr, runs, mem, theirs, fresh, ungated, muddled>>

FixBegins(g) ==
    /\ pc = Fix(g) /\ body.rounds[g] < RoundsCap
    /\ Write([body EXCEPT !.rounds[g] = @ + 1])
    /\ begun' = [k \in Kinds |-> IF lost' THEN 0 ELSE begun[k] + (IF k = g THEN 1 ELSE 0)]
    /\ Goto(Fixing(g))
    /\ UNCHANGED <<tc, pr, runs, mem, theirs, fresh, ungated, muddled>>

FixLands(g) ==
    /\ pc = Fixing(g) /\ theirs = "none"
    /\ Pushed /\ fresh' = (g = "ci")
    /\ Goto(AfterFix(g))
    /\ UNCHANGED <<tc, asked, resolved, merged, cm, runs, body, mem, theirs, begun, ungated, muddled>>

(* The push is refused over somebody else's: the run fails. *)
FixRejected(g) ==
    /\ pc = Fixing(g) /\ theirs # "none"
    /\ Ends
    /\ UNCHANGED <<tc, pr, cm, runs, begun, muddled>>

(* The cap on turns came after the push: the round goes on only when a wider *)
(* one is left, which FixLands covers. *)
FixCapped(g) ==
    /\ pc = Fixing(g) /\ Fault("stop") /\ theirs = "none"
    /\ Pushed
    /\ Park
    /\ UNCHANGED <<tc, asked, resolved, merged, runs, begun, muddled>>

FixStops(g) ==
    /\ pc = Fixing(g) /\ Fault("stop")
    /\ Park
    /\ UNCHANGED <<tc, pr, runs, begun, muddled>>

(* gateNoChangeRetry: one retry by a stronger fixer, for both gates. *)
RetryLeft(g) == ~bar /\ body.rounds[g] < RoundsCap

FixChangesNothing(g) ==
    /\ pc = Fixing(g)
    /\ \/ /\ RetryLeft(g) /\ bar' = TRUE
          /\ Goto(IF g = "ci" THEN "poll" ELSE Fix(g))
          /\ UNCHANGED <<cm, body, judged, inhand, late, unavail, ciSaw, saw, probed, theirs, ungated, fresh>>
       \/ ~RetryLeft(g) /\ Park
    /\ UNCHANGED <<tc, pr, runs, begun, muddled>>

FixRound(g) ==
    \/ FixRefused(g) \/ FixBegins(g) \/ FixLands(g) \/ FixRejected(g)
    \/ FixCapped(g) \/ FixStops(g) \/ FixChangesNothing(g)

CopilotFixRound == FixRound("copilot")
CiFixRound == FixRound("ci")

-----------------------------------------------------------------------------
(* ciGate: every poll reads the checks of the head. *)

(* What was pushed so far has the gate before it, or behind it. *)
CaughtUp == theirs' = (IF theirs = "none" THEN "none" ELSE "gated")

Seen == saw \/ checks # "none"
\* Mutant of Sees: each poll judges by itself.
SeesNothing == UNCHANGED <<saw, ciSaw>>
Sees == saw' = Seen /\ ciSaw' = (ciSaw \/ checks # "none")

CiSkipped ==
    /\ pc = "ci" /\ ~tc.ci
    /\ Goto("gated")
    /\ UNCHANGED <<tc, pr, cm, runs, body, mem, hist>>

CiEnters ==
    /\ pc = "ci" /\ tc.ci
    /\ saw' = (body.rounds["ci"] > 0 \/ ciSaw) /\ probed' = FALSE /\ fresh' = FALSE
    /\ CaughtUp /\ Goto("poll")
    /\ UNCHANGED <<tc, pr, cm, runs, body, judged, inhand, late, unavail, ciSaw, bar, begun, ungated, muddled>>

(* noCIConfigured, asked once: a lookup that fails says there may be CI. *)
CiProbes ==
    /\ pc = "poll" /\ checks = "none" /\ ~saw /\ ~probed
    /\ probed' = TRUE
    /\ \/ tc.repo # "CI" /\ Goto("gated")
       \/ (tc.repo = "CI" \/ Fault("gh")) /\ Goto("poll")
    /\ UNCHANGED <<tc, pr, cm, runs, body, judged, inhand, late, unavail, ciSaw, saw, bar, hist>>

(* The grace is over and there is no check: the repository has none, unless   *)
(* the head is newer than the wait. *)
CiGraceOver ==
    /\ pc = "poll" /\ checks = "none" /\ ~saw /\ probed
    /\ tc.repo = "no CI" \/ fresh \/ theirs = "late"
    /\ Goto("gated")
    /\ UNCHANGED <<tc, pr, cm, runs, body, mem, hist>>

CiWaits ==
    /\ pc = "poll" /\ checks \in {"pending", "red"}
    /\ Sees
    /\ UNCHANGED <<tc, pr, cm, pc, runs, body, judged, inhand, late, unavail, probed, bar, hist>>

CiGreen ==
    /\ pc = "poll" /\ checks = "passed"
    /\ Sees /\ CaughtUp /\ Goto("gated")
    /\ UNCHANGED <<tc, pr, cm, runs, body, judged, inhand, late, unavail, probed, bar,
                   fresh, begun, ungated, muddled>>

(* Red and settled: a fix round, or a park when too little of the wait is     *)
(* left for one. *)
CiRed ==
    /\ pc = "poll" /\ checks = "failed"
    /\ \/ /\ Sees /\ Goto("cifix")
          /\ UNCHANGED <<cm, body, judged, inhand, late, unavail, probed, bar, theirs, ungated, fresh>>
       \/ Park
    /\ UNCHANGED <<tc, pr, runs, begun, muddled>>

(* ciDeadlinePark, and the poll that can never be read. *)
CiParks ==
    /\ pc = "poll"
    /\ checks \in {"none", "pending", "red"} \/ Fault("gh")
    /\ Park
    /\ UNCHANGED <<tc, pr, runs, begun, muddled>>

-----------------------------------------------------------------------------
(* After the gates: the late check, the merge, the transition. *)

GatesPass ==
    /\ pc = "gated"
    /\ ~tc.copilot \/ body.sat \/ unavail
    /\ Write(body) /\ Goto(AfterPass)
    /\ UNCHANGED <<tc, pr, runs, mem, hist>>

LateCheckFindsNone ==
    /\ pc = "gated" /\ tc.copilot /\ ~body.sat /\ ~unavail
    /\ ~review.on \/ Fault("gh")
    /\ Write(body) /\ Goto(AfterPass)
    /\ UNCHANGED <<tc, pr, runs, mem, hist>>

LateCheckFinds ==
    /\ pc = "gated" /\ tc.copilot /\ ~body.sat /\ ~unavail
    /\ review.on
    /\ late' = TRUE /\ judged' = TriagedComments(body) /\ inhand' = review.comments
    /\ Goto("cycle")
    /\ UNCHANGED <<tc, pr, cm, runs, body, unavail, ciSaw, saw, probed, bar, hist>>

MergeSkipped ==
    /\ pc = "merge" /\ body.merged
    /\ Goto("finish")
    /\ UNCHANGED <<tc, pr, cm, runs, body, mem, hist>>

MergeLands ==
    /\ pc = "merge" /\ ~body.merged
    /\ merged' = TRUE /\ Goto("mark")
    /\ UNCHANGED <<tc, checks, review, asked, resolved, cm, runs, body, mem, hist>>

MergeRefused ==
    /\ pc = "merge" /\ ~body.merged /\ Fault("gh")
    /\ Park
    /\ UNCHANGED <<tc, pr, runs, begun, muddled>>

MergeRecorded ==
    /\ pc = "mark"
    /\ Write([body EXCEPT !.merged = TRUE]) /\ Goto("finish")
    /\ UNCHANGED <<tc, pr, runs, mem, hist>>

Finish ==
    /\ pc = "finish"
    /\ done' = TRUE /\ Ends
    /\ UNCHANGED <<tc, pr, saved, url, lost, runs, begun, muddled>>

(* The run ends without a word: a crash, an error, a container torn down. *)
Crash ==
    /\ pc # "idle" /\ Fault("crash")
    /\ Ends
    /\ UNCHANGED <<tc, pr, cm, runs, begun, muddled>>

-----------------------------------------------------------------------------
CopilotGate ==
    \/ CopilotPasses \/ CopilotOnHead \/ CopilotAsks \/ Asks
    \/ ReviewArrives \/ ReviewDoesNot \/ GraceUpgrades
CopilotReviewCycle ==
    \/ CycleRepeats \/ CycleReopens \/ CycleTriages \/ Triages \/ TriageStops
    \/ CycleSatisfied \/ CycleAsksAgain
CiGate ==
    \/ CiSkipped \/ CiEnters \/ CiProbes \/ CiGraceOver \/ CiGreen \/ CiRed \/ CiParks
RunPRGates ==
    \/ GatesPass \/ LateCheckFindsNone \/ LateCheckFinds
    \/ MergeSkipped \/ MergeLands \/ MergeRefused \/ MergeRecorded \/ Finish

(* The steps of a run that take it on, and the polls that only wait. *)
RunStep ==
    \/ CopilotGate \/ CopilotReviewCycle \/ CopilotFixRound
    \/ CiGate \/ CiFixRound \/ RunPRGates
Polls == CiWaits \/ GraceRetries

Next ==
    \/ Enter \/ PassesThrough \/ EnterFinds \/ EnterFindsNone
    \/ RunStep \/ Polls \/ Crash
    \/ ChecksMove \/ CopilotReviews \/ OperatorPushes

Spec == Init /\ [][Next]_vars
-----------------------------------------------------------------------------
(* Properties. *)

PrTypeOK ==
    /\ checks \in {"none", "pending", "red", "failed", "passed"}
    /\ review \in [on : BOOLEAN, comments : SUBSET Comments]
    /\ asked \in BOOLEAN /\ resolved \subseteq Comments /\ merged \in BOOLEAN
CardTypeOK ==
    /\ saved \in Sections /\ body \in Sections
    /\ url \in BOOLEAN /\ done \in BOOLEAN /\ lost \in BOOLEAN
MemTypeOK ==
    /\ judged \in [Comments -> Verdicts] /\ inhand \subseteq Comments
    /\ late \in BOOLEAN /\ unavail \in BOOLEAN /\ ciSaw \in BOOLEAN /\ saw \in BOOLEAN
    /\ probed \in BOOLEAN /\ bar \in BOOLEAN
HistTypeOK ==
    /\ theirs \in {"none", "gated", "late"} /\ fresh \in BOOLEAN /\ ungated \in BOOLEAN /\ muddled \in BOOLEAN
    /\ begun \in [Kinds -> Nat]
RunTypeOK ==
    /\ runs \in 0 .. MaxRuns
    /\ pc \in {"idle", "copilot", "ask", "await", "grace", "cycle", "triage", "settled",
               "fix", "fixing", "again", "ci", "poll", "cifix", "cifixing", "gated",
               "merge", "mark", "finish"}

(* Every variable holds a value of its kind. *)
GatesTypeOK ==
    /\ tc \in Cards
    /\ PrTypeOK /\ CardTypeOK /\ MemTypeOK /\ HistTypeOK /\ RunTypeOK

(* A card that awaits CI gets past the CI gate - to the late check, the merge *)
(* or done - only with the checks of the head passed, or in a repository that *)
(* has no CI.  CI that nothing announces may go unseen, until a fix round was *)
(* spent on it: from then on no run takes an empty list for a pass            *)
(* (sawChecks of ciGate).  So no push of the run itself, a fix of either gate *)
(* or of the late check, leaves a head unchecked.  Somebody else's can: the   *)
(* merge names the pull request and no head (gates.go:2164), and what is      *)
(* pushed after the green poll (gates.go:1927), or while a gate waits for a   *)
(* first check, goes unseen (theirs = "late").  Set aside as well: the late   *)
(* check whose re-request is refused, after which the gates do not run on the *)
(* fix (gates.go:876). *)
PassedIsGreen ==
    pc \in {"gated", "merge", "finish"} /\ tc.ci /\ ~merged /\ ~ungated /\ theirs # "late" =>
        \/ checks = "passed" \/ tc.repo = "no CI"
        \/ tc.repo = "silent CI" /\ (begun["ci"] = 0 \/ lost)

(* No card gets more fix rounds than the cap of either gate, over all its     *)
(* runs and whatever crashed in them: a round is counted on the card before   *)
(* its work (copilotFixRound, ciFixRound), unless ContextMatrix lost a write. *)
RoundsCapped == lost \/ \A g \in Kinds : begun[g] <= RoundsCap

(* The Copilot gate is satisfied by a review none of whose comments is held   *)
(* valid or went without a verdict on the card, whichever run or check saw    *)
(* it: copilotReviewCycle.  Set aside: a triage that named some comments      *)
(* only, and a section a later triage of the same round wrote over. *)
SatisfiedIsSettled ==
    [][~body.sat /\ body'.sat /\ ~muddled =>
        \A c \in inhand : TriagedComments(body)[c] = "invalid"]_vars

(* A thread is closed for good only when its comment was dismissed with a     *)
(* verdict on the card, or was valid and a review came without it; the        *)
(* comment of a review in hand that is still held valid keeps its thread, so  *)
(* that its repetition is seen: the resolve rule of copilotThreadWriter. *)
ResolvedIsSettled ==
    [][\A c \in resolved' \ resolved :
        LET verdict == TriagedComments(body')[c] IN
        \/ verdict = "invalid" /\ c \in inhand
        \/ verdict = "valid" /\ c \notin inhand
        \/ muddled']_vars

(* A comment is judged once, however many runs and reviews repeat it: the     *)
(* verdicts on the card are the dedupe key of the next round                  *)
(* (recordCopilotRound), unless the card lost them or wrote over them. *)
JudgedOnce ==
    [][\A c \in Comments :
        TriagedComments(saved)[c] # "none" /\ ~lost' /\ ~muddled' =>
            TriagedComments(saved')[c] = TriagedComments(saved)[c]]_vars
=============================================================================
