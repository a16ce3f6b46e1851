# Verification of contextmatrix-agent

TLA+ models of contextmatrix-agent, the TLC configurations that check them on
small instances, and TLAPS proofs of what holds for every instance. Paths below
are relative to the repository; the machine-readable correspondence (each
definition to the lines it stands for, each property to the mutation that breaks
it, each hazard to the properties about it) is `PROJECT.json`.

1. [The system](#1-the-system)
2. [The hard behaviours](#2-the-hard-behaviours)
3. [Modules and their code](#3-modules-and-their-code)
4. [Runs, bounds and fairness](#4-runs-bounds-and-fairness)
5. [Findings and divergences](#5-findings-and-divergences)
6. [Proofs](#6-proofs)
7. [What is not modelled](#7-what-is-not-modelled)
8. [What is left](#8-what-is-left)

## 1. The system

One binary has two roles. `serve` runs on a host: it takes webhooks of
ContextMatrix and starts one Docker container per card. `work` is the process in
that container: it plans, executes, reviews and integrates the card, and sees its
pull request through CI and Copilot.

```
 ContextMatrix --webhooks--> serve --create/attach/stdin--> container: work
      ^   ^                    |                              |   |
      |   +----status POSTs----+<----container exit-----------+   |
      +---------- MCP calls: card, claims, phase, sections -------+
                                                   git, GitHub <--+
```

### 1.1 The serve process

| Component | State | Operations | Interacts with | Right when |
|---|---|---|---|---|
| Docker executor and tracker (`internal/executor`) | per card: the tracked run, its exit reason, its idle clock and its awaiting flag; the containers | `Launch`, `Kill`, the supervisor `waitAndCleanup`, the idle watchdog, `CleanupOrphans` | the Docker daemon; `OnExit` into the serve process | every container that runs is tracked; a slot is given back by its own run only; no reason or clock outlives a run |
| Webhook server: triggers and stops (`internal/webhook`) | admissions in flight, a launch lock per card | trigger, kill, stop-all | executor, credentials, LLM proxy, reporter | one run per card, no more than the limit; an answered stop is final |
| Webhook server: frames (`internal/webhook`, `internal/worker/inbox.go`) | message dedup, the stdin lock of a card, the pipe, the worker's inbox | message, promote, end-session; the worker's pump, waits and drains | the container's stdin, ContextMatrix (promotion check) | an acknowledged message was written once; no wake-up is lost |
| Per-run credentials (`internal/secrets`) | a handle per run, the card's directory of secrets, a refresh loop per handle | `Provision`, `Teardown`, refresh | the redactor, the token hook, the container's mount | a run that works has its own credentials; a run that is over has none |
| Exit callback and shutdown (`internal/cli/serve.go`) | claims on exit reports, the drain flag, the runs to park, the sweep | `onContainerExit`, `gracefulShutdown`: drain, end sessions, await the park, sweep, settle | executor, credentials, reporter, frames | each run is reported once; a run that parked reports itself; shutdown ends |
| Status callbacks (`internal/callback`) | pending background retries | `ReportStatus`, `VerifyAutonomous` | ContextMatrix | terminal statuses get through |
| File log, metrics, configuration | files, counters, values | - | - | - |

### 1.2 The work process

| Component | State | Operations | Interacts with | Right when |
|---|---|---|---|---|
| Worker (`internal/worker/worker.go`, `git.go`) | the clone, its branch and its tree; the claim | boot, reconcile, commit, plain push, first push, lease push, WIP push, release, exit code | git, ContextMatrix | a park leaves the work at the origin; nothing pushed is overwritten unseen |
| State machine (`internal/orchestrator/orchestrator.go`, `resume.go`) | the card's recorded phase, written *before* the phase's body runs | plan, execute, judge, document, review, integrate, pr_gates, done; parks; re-selection of an incapable model | ContextMatrix, every phase | a crash resumes in the phase it left, without repeating or skipping work |
| Plan and human gates (`plan.go`, `gate.go`) | the plan, follow-up cards and their record, subtasks | draft, approve, adjust, split, create | ContextMatrix, the inbox | nothing is made before an approval; a deliverable is split out once |
| Execute (`execute.go`, `checkpoint.go`) | claims and states of subtasks, the start marker, the commit of each, what the verify tool measured | claim, code, gate, fix, commit, checkpoint, push, complete, salvage | git, coder, verify, ContextMatrix | a completed subtask is at the origin, verified, with work of its own; claims are given back |
| Best-of-N (`candidates.go`, `judge.go`) | candidates and their worktrees, claims by the first to reach a subtask | race, join, verify, choose, adopt, replay | git, coder, verify | the winner passed if any did, and did everything |
| Document, integrate, finish (`document.go`, `integrate.go`, `finish.go`) | the rebased branch, the tip it is leased on, the pull request | edit, discard, rebase, lease push, completion | git, ContextMatrix | a push of somebody else's is overwritten only when it was seen |
| Review loop (`review.go`, `approval.go`, `findings.go`) | `review_attempts`, the approval recorded on the card, the round's snapshots and flags | rounds, gates, panels, verdicts, fixes, cleanup, authoritative pass, human rounds | git, verify, models, ContextMatrix | what it hands on was judged |
| Pull request gates (`gates.go`) | the `## PR Gates` sections, the verdicts of a review, what was seen of CI | request, await, triage, fix, poll, late check, merge, finish, park | GitHub, git, ContextMatrix | no push of the run itself passes unchecked; a comment is judged once |
| Verify, budget, model selection, mob sessions | verdicts of commands, spend, excluded models, speakers | - | every phase | bounded spend, bounded retries |

## 2. The hard behaviours

`PROJECT.json` lists the hazards, each at its line. They group as follows.

- **One key, several lives.** The tracker, the credentials directory, the stdin
  lock and the launch lock are keyed by the *card*, runs by their correlation id.
  A run on its way out meets its successor in all of them (`SlotIsOwn`,
  `SlotIsClean`, `OwnCredentials`, `ParkedReportsItself`).
- **A launch is many calls.** Create, attach, admission, start: each fails with
  the earlier ones done, or is cut by the launch timeout or by a stop
  (`RunningIsTracked`, `NothingLeft`).
- **A stop races a launch.** A stop must find a trigger whether it waits, is being
  launched or runs, and its answer must hold (`StopIsFinal`).
- **A message crosses four goroutines.** Webhook handler, pipe, pump and a waiting
  phase: duplicates, failed writes, a ping between look and sleep
  (`AckedIsWritten`, `NoWakeupLost`).
- **Two reporters for one exit.** At shutdown the exit callback and the sweep both
  may report a run; the sweep's report says failed (`ReportedOnce`,
  `ParkedReportsItself`, `ShutdownEnds`).
- **The work survives the run.** The board, the origin and the clone change in
  steps of their own; a crash, a park or a person comes between any two
  (`DoneIsDurable`, `DoneHasWork`, `ParkSavesWork`, `PushKeepsWork`,
  `ClaimsReturned`, `SplitOnce`, `PastExecute`).
- **Evidence that is stale.** A pass measured by the coder's own tool, a
  candidate's verdict, CI of an older head (`DoneIsGood`, `WinnerIsBest`,
  `WinnerDidAll`, `PassedIsGreen`).
- **The review survives the run.** A counter and a record of approval live on the
  card; everything else dies with the process, while the branch can move in
  between (`ApprovedIsProven`, `RoundMirrorsCounter`).
- **Snapshots that narrow.** A panel is shown what changed since the last one, a
  discard goes back to the head before the last fix; both snapshots can be stale
  (`NothingUnseen`, `DiscardsOneFix`).
- **Verdicts as a dedupe key.** What the gates recorded of an earlier review
  decides what the next one has to say (`JudgedOnce`, `SatisfiedIsSettled`,
  `ResolvedIsSettled`).
- **Numbers at their limit.** The attempts cap, the credit for red gates, the two
  rounds of the authoritative pass and ContextMatrix's ceiling meet within one
  step of each other; the fix rounds of both gates are counted on the card before
  their work (`NoRefusal`, `OneChargePerFix`, `RoundsCapped`).
- **A human's gate.** Adjustments, unreadable replies, promotions and crashes,
  before anything may be created (`NothingBeforeApproval`).

## 3. Modules and their code

| Module | Models | Composition |
|---|---|---|
| `Executor` | `internal/executor`: `docker.go`, `tracker.go`, `outcome.go` | one action per daemon call or critical section |
| `Serve` | triggers and stops of `handler.go`, `runrefresher.go`, the exit callback of `serve.go` | extends `Executor` |
| `RunSlots` | abstract: what `Serve` promises of its slots | implemented by `Serve` through `Slots` |
| `Session` | frames: the three stdin handlers of `handler.go`, the tracker's stdin, `inbox.go` | |
| `Shutdown` | `gracefulShutdown` and the exit reports of `serve.go` | extends `Session` |
| `Card` | the frame of a run: `worker.go`, `git.go`, `orchestrator.go`, `resume.go` | |
| `Plan` | `plan.go`, `gate.go` | extends `Card` |
| `Execute` | `execute.go`, `checkpoint.go`, the verify of a change | extends `Card` |
| `Fanout` | `candidates.go`, `judge.go` | extends `Execute` |
| `Work` | `document.go`, `integrate.go`, `finish.go`; the phases composed, over the runs of one card | extends `Plan`, `Fanout` |
| `Review` | `review.go`, `approval.go`, the sections of `history.go` | one action per step of a round |
| `Gates` | `gates.go`, `gates_types.go` | one action per step of a gate |
| `MCExecutor`, `MCServe`, `MCShutdown`, `MCWork`, `MCReview`, `MCGates` | the small instances | |
| `ExecutorProofs`, `ServeProofs`, `ShutdownProofs`, ``WorkProofs`, `WorkCardProofs`, `WorkBranchProofs`, ReviewProofs`, `GatesProofs` | the theorems | |

Definitions whose comment begins with "Mutant of" are not part of the model: each is
the body a plausible bug would give the definition after it, and `PROJECT.json`
names the property it breaks.

### Executor

A run has three threads. `lpc[r]` is `Launch` (create, add to the tracker, start,
with the undo of each failure), `spc[r]` the supervisor (wait, remove, untrack,
exit callback), `wpc[r]` the idle watchdog. A call of `Kill` is `kpc[k]`, with the
run it found in `krun[k]`. `ctr[r]` is the container as the daemon knows it,
`code[r]` what it exited with, `cause[r]` what the supervisor concluded
(`resolveExit`). The tracker's four maps keep the card as their key, so the model
shows what the code risks: `reason`, `activity` and `awaiting` are written by
card, under whichever run is tracked at that moment. A caller's context that ends
is `left[k]`, a launch's `cancelled[r]`.

A daemon call that may fail is named in `Faults`. `stray` is the set of
containers the daemon refused to remove: the program has no way to get rid of
them, so `RunningIsTracked` excludes them and nothing else. Idle time is a
boolean clock per card (`activity`): `Quiet` says it ran out, `Output` says it
did not. Attaching is one step with the admission to the tracker (`Add`): nothing
else reads the stream, and the failures of both end in the same undo
(`AddRefused`). Where the launch's context ended during the create, the daemon may
have made the container all the same (`CreateCutShort`).

### Serve

`pc[r]` is the trigger handler and then the launch goroutine. Its steps
are those that take a lock or leave the process: `queued` (waits for the card's
launch lock), `provision`, `launch` (the executor's `Launch` runs), `end`
(`endAdmission`), `revoke` and `kill` (`stopLaunchedRun` on a run that a stop
reached too late to be cancelled), `report`. `xpc[s]` is a `/kill` or `/stop-all`:
it marks the admissions (`stopAdmissions`), waits for them, kills what is tracked
and answers. Credentials are four facts about a run (token, redacted secrets,
handle) or a card (`env`: whose secrets its directory holds), which is what the
teardown can get wrong: handles are keyed by run, the directory by card. `told`
is what ContextMatrix has received. `found[s]` is a history variable: what a stop
was asked to stop.

### Session and Shutdown

`Session` is a frame's way to a worker. A writer is a webhook call or the shutdown
itself; `kpc[k]` is its place: look-up of the card's run, `verify` (a promotion is
checked with ContextMatrix first), `locking`, `writing`. The stdin lock, the
duplicate record and the target of the write are a card's, the pipe a run's; a
write blocks while the pipe is full (`PipeRoom`). On the other side `pump[r]`
queues and pings in two steps, `wpc[r]` looks at the queue and sleeps in two, and
the signal is a channel of one, as in `inbox.go`.

`Shutdown` adds the life of the runs (`stage`: admitted, up, exited, dropped from
the tracker, sending its exit report, over) and `gracefulShutdown` as `ppc`:
draining, listing, `ending` (one session after the other), `parking`, sweeping,
`settling` (a goroutine `spc[r]` per run), closing. `claims` is `exitReports`;
`sent[r]` records who sent a terminal status, in order. A worker outlives the
serve process, and so do its steps in the model (`Work`).

### Card, Plan, Execute, Fanout, Work

These five model one card over the runs of its worker. `Card` has ContextMatrix's
side (phase, lane, claim, subtasks, start markers, follow-up cards), the origin
(`remote`), and the container (`local`, `dirty`, `me`: what the run remembers).
**A branch** is the set of the marks of its commits - the subtask a commit is for
and the run that made it -, whether its tip passes the verify command, and a root
that a rewrite changes; one branch descends from another with the same root and
all of its marks, which is what a plain push asks. `TakesFirst` is `pushBranch`:
the first push of a fresh run goes over the branch it found, with a lease.

A run is `Boot`, `ReconcileFresh` or `ReconcileResume`, then for each phase
`Enter` (the phase is written first; a run resumed behind review brings the card back
to review before that, `ReenterReview`) and the phase's actions, and it ends through
`Exit(why)` to `Park` (`parkBlocked`, `pushWIP`) and `Release`, or `Done`,
`ParkedForPeople` or `Crash`. `Sweep`, `Cancel` and `HumanPushes` are
ContextMatrix and people. `Plan` has draft, approval, split and creation;
`Execute` the claim, the coder with its verify tool (`Writes`, `Measures`,
`CommitsItself`), gate, fix, commit, checkpoint, push, completion and the salvage
of a capped coder; `Fanout` the race, each candidate's steps, the join, the judge,
adoption and replay. `Work` adds document, integrate and the frame of review and
of the gates - what those phases do to the branch and the card: `Fixes`, and in review
`Discards`, which takes a fix back to `preFix`; `Review` and `Gates` are their inside.

`tc` is the card: which features it has (race, human, mob, verify, split, an
abandoned branch) and which faults may happen to it. History variables are
`landed` (the head a subtask was completed on) and `past` (what ended the last run,
whether a plan was approved, a coder committed by itself, a split was torn, and which
subtasks a race that ended after one of its candidates had finished left claimed).

### Review

Commits are numbers, `hist[c]` is the set of commits `c` holds beyond the base
branch (0). The card has `attempts`, `phase` and two sections: the record of a
park at the cap and the approval, with the head it approved and the bar (a
proof-of-concept review or a full one). The run's state comes in groups that follow the code's
variables: `round`, `stage` and `credit`; the gate and the verdict; `reviewed`
(`lastReviewBase`) and `preFix` (`preFixHead`); `green`, `fixRan`, `pending`
(`fixCappedPending`) and `bar` (`fixBarSteps`, how far the
bar of the fixers was raised). Each
step of `reviewLoop`, `authoritativeReview` and `runReviewHITL` is an action:

- `Begin`, `Adopt`/`AdoptNot`: `runReview` and `tryAdoptApproval`, with the
  restart at the cap;
- `RoundBegins`, `OutOfTime`, `Gate`, `Panel`/`MobPanel`, `Synthesize`,
  `RecordApproval`/`RecordRevision`;
- `JudgeCheap`, `JudgeStrong`, `JudgeAgain`, `Count`, `Refused`, `CapPark`: what a
  gate or a verdict means for the fix before it, the counter and the cliff;
- `Presents`, `HumanApproves`, `HumanAdjusts`, `Promoted`: the human's rounds and
  the hand-off to the loop;
- `FixLands`, `FixMissing`, `FixUnpushed`; `CleanupLands`, `CleanupMissing`,
  `CleanupUnpushed`, `Prove`: fix and cleanup with each call that fails after the
  earlier ones;
- `Stop`, `Crash`, `Integrates`, `Leaves`, `Reopen`, `StopsEarly`, `OperatorPush`:
  how a run ends and what the world does between two runs.

History variables, which no guard of the program reads, are `approvals` (what was
approved, where, at which bar), `gateOf` (the last gate of each commit), `scope`
and `covered` (what panels were shown), `fixes` and `blamed` (which fix was
charged), `cleaned`, `origin`, `dropped`. `Integrates`, `Reopen`, `StopsEarly` and
`OperatorPush` are abstract on purpose: they stand for the other phases,
for ContextMatrix and for people, as far as review can observe them.

### Gates

`pc` follows `runPRGates`: the Copilot gate (`copilot`, `ask`, `await`, `grace`),
its review cycle (`cycle`, `triage`, `settled`, `fix`, `fixing`, `again`), the CI
gate (`ci`, `poll`, `cifix`, `cifixing`), then `gated` (the late look for a
review), `merge`, `mark` and `finish`. GitHub is the state of the checks of the
head, Copilot's latest review and whether it is of the head, the requested
reviewer, the resolved threads; a push takes the checks and the review's freshness
away (`Pushed`). The card is the sections the run parses back: rounds of both
gates, satisfied, merged, and the verdicts of each triage; `body` is the run's
copy, `saved` the card's, and `Save` may lose a write. A comment is its dedupe key.
A wait ends when its step says so; no clock is modelled, except that a repository
with CI shows a check within the no-checks grace of a push (`CiGraceOver`).
Somebody else may push at any moment (`OperatorPushes`), in the middle of a run as
well: the run fetches nothing and learns of it when its own push is refused, which
ends it (`FixRejected`). History variables: `theirs` (what somebody else pushed while
the run worked, and whether the CI gate had it before it), `fresh`, `begun` (fix
rounds begun over all runs), `lost`, `ungated`, `muddled`.

## 4. Runs, bounds and fairness

| Run | Instance | Distinct states | Checks |
|---|---|---|---|
| `executor` | two runs of one card, one slot, one kill, the watchdog, every daemon fault, every context that can end | 2.5 million | `RunningIsTracked`, `SlotIsClean`, `SlotIsOwn` under *any* caller, also one that overlaps two launches of a card, which the webhook server does not do |
| `executor_killed` | the same, a caller that leaves | | `KilledWasKilled` is violated (finding 1) |
| `serve_faults` | two triggers of one card, one slot; a launch that fails at its start or times out, a payload without credentials, a failed provision, a refused removal, a lost callback; the watchdog | 2.8 million | `ServeTypeOK`, `OwnCredentials`, `NothingLeft` |
| `serve_stop` | two triggers of one card and one stop at any moment, for the card or for all; its caller may leave, removals may be refused, launches and provisions fail | 5.8 million | `StopIsFinal`; no deadlock between stop, launch lock and admissions |
| `serve_live` | two triggers of two cards over one slot; refused removals, launch timeouts, failed starts; fair goroutines | 0.1 million | `EveryTriggerSettles`; `ImplementsSlots`, the refinement of `RunSlots` |
| `shutdown` | four instances: two runs of one card, runs of two cards, one run with a message and its retry, one with a message and a promotion; failed writes, kills and promotion checks; a pipe of one frame; fair goroutines | 0.74 million | `ShutdownTypeOK`, `ReportedOnce`, `ParkedReportsItself`, `AckedIsWritten`, `NoWakeupLost`, `ShutdownEnds` |
| `review` | two autonomous runs of a card at a cap of two, all faults, both bars, four commits | 3.9 million | `ReviewTypeOK`, `ApprovedIsProven`, `OneChargePerFix`, `RoundMirrorsCounter`, `NoRefusal`, `DiscardsOneFix` |
| `review_human` | two runs, autonomous or with a human, at the highest cap, mob panels, failed pushes, turn caps, an operator's push | 1.0 million | `NothingUnseen` |
| `review_cleanup` | one run, failed pushes | | `CleanupIsProven` is violated (finding 2) |
| `gates` | nine cards: both gates with a merge and a comment, once with a failing hosting service, stops, crashes and failing threads, once with lost card writes and crashes, once with other people's pushes and crashes; a repository without CI and two comments; the Copilot gate alone, on a card that is to have no pull request; CI nothing announces, under nearly all faults and other people's pushes; a cap of two, two runs | 4.1 million | `GatesTypeOK`, `PassedIsGreen`, `RoundsCapped`, `SatisfiedIsSettled`, `ResolvedIsSettled`, `JudgedOnce` |
| `work` | twenty-three kinds of card: alone or in a race of two, with human, mob, split, abandoned branch, each with two or three faults; two subtasks, two or three runs | 5.0 million | `WorkTypeOK`, `DoneIsDurable`, `DoneIsGood`, `DoneHasWork`, `ClaimsReturned`, `NothingBeforeApproval`, `PastExecute`, `WinnerIsBest`, `WinnerDidAll`, `SplitOnce`, `PushKeepsWork`, `ParkSavesWork` |
| `work_park` | a card with an abandoned branch, budget and turn caps | | `ParkSavesAllWork` is violated (finding 3) |

**Why these bounds are enough to be interesting.**

- *Two runs of one card, one slot.* Whatever goes wrong between runs goes wrong
  because both use one key or one slot; two of them and a fault per step meet in
  every order. `serve_live` has two cards, where the limit and not the key
  refuses. Symmetry is over the two runs of a card, or over comments, and is never
  used in a run with a liveness property.
- *Faults by run, or by card.* Faults multiply states. Each run of the serve
  process enables those its properties are about: `executor` has all of the
  executor's; `serve_faults` those that reach the credentials. `work` and `gates`
  spread them over cards instead (`tc.faults`): a behaviour meets the two or three
  faults of its card in every order. The theorems hold for any set of them.
- *Instances of `shutdown`.* Runs and calls interact through the card's stdin lock
  and its slot; one instance has two runs of a card (a successor at the drain),
  one has two cards (the claims), two have two frames of a run.
- *Review: cap 2, highest cap 3, ceiling 4, credit 3.* The code has 3, 6, 7 and 3.
  The proportions are kept: a credit the clamp cuts, a highest cap above the
  default, and a ceiling one above it, which the two rounds behind the cliff reach
  exactly. `review_human` puts the cap at the highest value, where no credit is
  left. Four commits are enough for an approved head, a fix, its discard or a
  cleanup fixup, and a push by somebody else.
- *Gates: two comments, a cap of two, two runs.* One comment can repeat while the
  other is new; a round is left for the second run or not. `MaxRuns`, like the
  other bounds on runs, only stops a behaviour.
- *Work: two subtasks, two or three runs.* A crash between any two steps of the
  first subtask, a resumption, and a second subtask to go wrong after it; a third
  run where a park follows a crash. A race has two candidates. One fix commit of
  review per run, which it may take back, and one of the gates stand for their fix
  rounds.

Deadlock is checked where the system does not stop by itself (`Rest` in `Review`,
`ExecutorDone`, `Quiescent` are its resting states). `gates`, `work` and `shutdown`
switch it off: a card that is done, or whose bound of runs is used up, and a
process that has exited have no next step. `ShutdownEnds` covers what deadlock
checking would have found there.

**Fairness.** `serve_live` and `shutdown` use it (`FairSpec` of `Serve` and
`Shutdown`). A goroutine that can run does run: weak fairness of the launch
goroutine, the supervisor with its exit callback, the stop and frame handlers, the
main goroutine once it drains. A waiter of the card's launch lock is not
starved: Go's `sync.Mutex` hands over to a waiter after a millisecond, hence
strong fairness of `Admit` and `AdmitRefused`, which other runs of the card
disable again and again. The supervisor's wait is bounded by the
container timeout (`docker.go`, `waitAndCleanup`), so it is fair although nothing
makes a container exit by itself. The park window and the sweep are bounded by
their timeouts (`CutShort`, `Deadline`), and a worker's steps are fair because its
finalisation has a timeout of its own (`worker.go`); a promotion check is bounded by its
HTTP timeout. Triggers, stops, faults, frames and the exits of containers are never assumed
to happen.

## 5. Findings and divergences

Runs that end in a violation, each a disagreement between the code and what its
own documents or comments say:

1. **`KilledWasKilled`** (`internal/executor/docker.go:642`). `Kill` records its
   reason before it sends the signal. It takes an ended caller context for the end
   of the grace, records `killed`, and `ContainerKill` fails on the same context:
   the container goes on, ends by itself with 0 and is reported as failed.
2. **`CleanupIsProven`** (`internal/orchestrator/review.go:813`). `runFix` commits
   before it pushes. A cleanup whose push fails takes the branch that swallows
   errors, resets to HEAD, which is the fixup by then, and goes on approved
   without the gate; `integrate` pushes the fixup.
3. **`ParkSavesAllWork`** (`internal/worker/worker.go:973`). The WIP push of a park
   is a plain one. A fresh run over a branch that an abandoned attempt left
   overwrites it with its first push only; if it parks before that, its WIP is
   refused and its work goes with the container. The same happens to a run that
   is cancelled between integrate's rebase and its lease push with work no push
   has carried. `ParkSavesWork` names both (`Overwriting`, `Rewriting`), says that
   every other park keeps its work, and is proved.

Behaviour the models contain and the properties name as their exceptions. None is
hidden by a bound: each would break a property stated without the exception.

- *Serve.* The running report leaves after the launch lock is released, so a short
  run's terminal status can come first (`handler.go:529`). A provision that fails to
  write has already displaced the predecessor's handle; its env file stays until
  the card's next run (`runrefresher.go:189`, against `docs/secrets.md:14`).
- *Shutdown.* A trigger that was past the drain gate can be tracked after the sweep
  has listed the runs: nobody reports it, and its container waits for the next
  boot's `CleanupOrphans`. Sessions are ended one after the other, before and not
  within the park timeout (`serve.go:377`). The duplicate check of a message is per
  card and not per run.
- *Execute.* A coder that commits by itself has its subtask completed without a
  push (`execute.go:572-596`; `execute.go:567` and `docs/orchestrator.md:55` have
  completion behind the push): the next push carries it, a crash before that loses
  it. `DoneIsDurable` excludes it (`selfmade`). The earlier work that lets an
  empty subtask complete may be another subtask's (`execute.go:642`) when a
  redrafted plan changed the order. A crash between push and completion leaves a
  subtask that the next run finds empty and accepts only when it verifies; when it
  cannot, it blocks on every run. What is untracked and left by a discarded
  revision is swept into a later commit (`checkpoint.go:173-179`).
- *Plan.* `NothingBeforeApproval` is about the first approval of a card: a later run that
  drafts anew passes a gate of its own, and what it creates is no longer told from
  what the approved plan created. A redraft after a crash leaves the subtasks of the old plan open
  (`PastExecute` excludes it). A crash between a follow-up card and its record, a record
  that is lost, or a create whose answer is (in the model a `Split` with a `Note` that
  fails) has the follow-up created again; `SplitOnce` counts these and allows no other.
- *Fan-out.* A race gives its claims back only when every candidate failed
  (`candidates.go:261-275`). Once one has finished, a stop during the race, a judge or an
  adoption that fails, or a stop before the replay leaves the claims to
  ContextMatrix's sweep; `ClaimsReturned` allows exactly those (`past.leak`), a crashed
  run's, and those a board refuses to take back. A race that parks saves
  nothing of its candidates: they work in worktrees.
- *Integrate.* A push that arrives during review is overwritten by the lease push,
  because the tip is read when integrate begins (`integrate.go:41`); `PushKeepsWork`
  allows that and review's discard of its own fix, nothing else. A document push that fails counts as the first
  push.
- *Park.* A review or gate that parks for people does not release the card
  (`worker.go:527-541`); ContextMatrix does.
- *Review.* `ApprovedIsProven` names its exceptions: the human's word, a cleanup
  fixup that could not be dropped (the code logs that it keeps it), and finding 2.
- *Gates.* The merge names the pull request and pins no head (`gates.go:2164`): what
  somebody else pushes after the green poll (`gates.go:1927`), or while a gate waits for
  a first check, is merged unchecked. `OperatorPushes` is enabled at every step,
  so the model has it; `PassedIsGreen` sets it apart (`theirs = "late"`) and speaks of the
  run's own pushes and of those the CI gate had before it. A triage that names some comments only leaves the others recorded valid,
  and one that runs twice in the same round writes over its section (`muddled`). A late fix whose
  re-request is refused goes on without a CI gate (`gates.go:876`, `ungated`). A run
  that crashes between the merge and its record may push onto the branch of a
  merged pull request. Checks that register one after another can look passed in
  between, which the model does not distinguish.

## 6. Proofs

All theorems are proved by TLAPS for every value of the constants that satisfies
the named assumptions of the modules. These are types of the constants,
a `None` that is no branch and no measured tree (`CardAssumption`), and:
the callers of `Kill` are the runs and the stops (`ServeAssumption`); a message id
belongs to one card (`MessageAssumption`; ids are ContextMatrix's); the cap is at most the
highest cap, as `Validate` enforces, which is below ContextMatrix's ceiling, as
`internal/config/service.go:38-51` documents (`ReviewAssumption`). The number of
runs, cards, stops, calls, messages, commits, comments and rounds and the set of
faults are arbitrary.

| Theorem | Property |
|---|---|
| `ExecutorProofs!ContainersTracked` | `RunningIsTracked`, under any caller |
| `ExecutorProofs!SlotsClean` | `SlotIsClean` |
| `ExecutorProofs!SlotsOwn` | `SlotIsOwn` |
| `ServeProofs!TypeCorrect` | `ServeTypeOK` |
| `ServeProofs!RunningTracked` | `RunningIsTracked`, under the webhook server |
| `ServeProofs!CredentialsAreOwn` | `OwnCredentials` |
| `ServeProofs!NothingIsLeft` | `NothingLeft` |
| `ServeProofs!StopsAreFinal` | `StopIsFinal` |
| `ServeProofs!SlotsImplemented` | `ImplementsSlots`: refinement of `RunSlots` |
| `ShutdownProofs!ShutdownTypes` | `ShutdownTypeOK` |
| `ShutdownProofs!OneReportEach` | `ReportedOnce` |
| `ShutdownProofs!ParkedReports` | `ParkedReportsItself` |
| `ShutdownProofs!DeliveredOnce` | `AckedIsWritten` |
| `ShutdownProofs!WakeupsArrive` | `NoWakeupLost` |
| `WorkProofs!WorkTypes` | `WorkTypeOK` |
| `WorkProofs!WinnerIsOneOfTheBest` | `WinnerIsBest` |
| `WorkProofs!WinnerDidEverything` | `WinnerDidAll` |
| `WorkCardProofs!FollowUpOnce` | `SplitOnce` |
| `WorkCardProofs!ApprovalFirst` | `NothingBeforeApproval` |
| `WorkCardProofs!ClaimsGivenBack` | `ClaimsReturned` |
| `WorkCardProofs!NothingOpenPastExecute` | `PastExecute` |
| `WorkBranchProofs!CompletedIsPushed` | `DoneIsDurable` |
| `WorkBranchProofs!CompletedIsVerified` | `DoneIsGood` |
| `WorkBranchProofs!PushedStays` | `PushKeepsWork` |
| `WorkBranchProofs!ParkSaves` | `ParkSavesWork` |
| `WorkBranchProofs!CompletedHasWork` | `DoneHasWork` |
| `ReviewProofs!ReviewTypes` | `ReviewTypeOK` |
| `ReviewProofs!RoundsMirrorCounter` | `RoundMirrorsCounter` |
| `ReviewProofs!NeverRefused` | `NoRefusal` |
| `ReviewProofs!OneChargeEach` | `OneChargePerFix` |
| `ReviewProofs!ApprovalIsProven` | `ApprovedIsProven` |
| `ReviewProofs!EverythingSeen` | `NothingUnseen` |
| `ReviewProofs!OneFixDiscarded` | `DiscardsOneFix` |
| `GatesProofs!GatesTypes` | `GatesTypeOK` |
| `GatesProofs!PassedGreen` | `PassedIsGreen` |
| `GatesProofs!CappedRounds` | `RoundsCapped` |
| `GatesProofs!SatisfiedSettled` | `SatisfiedIsSettled` |
| `GatesProofs!ResolvedSettled` | `ResolvedIsSettled` |
| `GatesProofs!JudgedForGood` | `JudgedOnce` |

In each module an inductive invariant `IInv` is shown to hold initially and to be
preserved, with one step per action, and the theorems follow from it. TLC checked
every conjunct on the instances above before it was proved.

**Executor.** Without a lock above it, two launches of one card may overlap up to
`AddIfUnderLimit`. `ExecutorInv` is

- `HeldInv`: a run is in the slot of its card exactly from its add to its supervisor's
  untrack or its failed start, so the removal by card meets the remover;
- `BoxInv`: before its start a launch has no running container. A launch that is cut
  short removes by *name*, hence possibly the container another launch of the card
  has just created: that one is then `removed` at its start, never `running`;
- `SlotIsClean` itself, which is inductive next to these two.

**Serve.** `OwnCredentials` is not inductive: a state in which two launch
goroutines are past the lock satisfies it and the next provision breaks it. The
invariant adds

- `LockInv`: who is between `Admit` and the end of the admission holds the card's
  lock, so there is one per card;
- `StepInv`: the three threads of a run agree on where it is, so that a supervisor
  runs only after its launch came up;
- `SlotInv`: the slot belongs to the run from the admission to the supervisor's
  untrack, and is free while a launch of the card is on its way to it. Here the
  check under the lock (`tracked = NoRun`) does its work: nobody else can take
  the slot while the lock is held;
- `TokenInv`, `CredInv`: credentials of a run on its way up or working are its own;
  the provision of another run of the card needs the slot free, which by `SlotInv`
  it is not while this one works;
- `CtrInv`: a container exists only past its create and runs only while supervised.

`NothingLeft` speaks about the moment a terminal status is told; `LeftInv` follows
what a run has been given (`Has`) along its way: nothing before the admission, nothing
after a failed launch, and after one that came up whatever its session secrets have
not yet been taken with.

`StopIsFinal` needs two invariants over the stop handlers, because a stop acts on
what it *found*, some steps earlier:

- `StoppedInv`: the admissions in flight are those between `queued` and `end`; who is
  marked in that window cannot be reported running, and gets to `over` only dead or
  with its own kill failed (`Spared`);
- `StopInv`: what a stop found is marked and waited for or was past its admission;
  from the kill on, the stop's call for the card has yet to look at the slot (`get`),
  is in its grace or about to send at this very run, failed, or the run is `Dead`.
  `Dead` is stable: past its admission a run is started no more, and by `SlotInv` who
  is out of the slot does not run.

The refinement maps a run to `live` when it is tracked, to `pending` while its
launch may still be admitted, and to `new` or `over` otherwise; each action is
shown to be a step of `RunSlots` or to leave the map alone.

**Shutdown.** Four arguments share one invariant.

- *Reports.* `ReportedOnce` alone does not say who may still send. `ReportInv` adds
  `PhaseInv` (which flags are up at which place of the main goroutine), `HomeInv`
  (a run in the slot is up), `ClaimInv` (from the beginning of the shutdown, who is
  sending holds the claim), `SentInv` (a status has been sent by whoever is past
  sending, and by nobody else) and `LandedInv` (a claim that landed was sent or
  gave up at the deadline).
- *Parked runs.* `ParkInv`: a run that was waited for, with the wait not cut short,
  is out of the slot with its claim taken when the sweep begins; the sweep then
  waits for that claim instead of reporting.
- *Messages.* `DeliverInv`: `LockInv` (one writer per card is past the lock),
  `TargetInv` (it writes to a run of its card) and `RecordInv` (an id is recorded
  exactly when it has been written or is being written under the lock). It is here
  that a message id must belong to one card.
- *Wake-ups.* `WakeInv`: between the look at the queue and the sleep, anything that
  arrived has its ping kept in the channel or still to be sent.

**Work.** One invariant per theorem, all over the same lemmas about single steps.
Work has some hundred actions, and most of them leave most of the state alone: the
lemmas say once for all actions how a variable may move (`PastLeads`, `ToolStep`,
`LocalStep`, `PhaseStep`, `SubStep`, ...), each with the actions grouped by what they
do to it, and the invariants cite them instead of going through `Next` again.

- *Types* (`WorkProofs`). `WorkTypeOK` needs `Grounded`: a planner is asked only while a
  draft is left, a race has a candidate, the winner comes out of the judge's pool.
- *Race.* `RaceInv`: candidates exist only between a race's start and the end of its
  replay, one that still works is at an open subtask, and one that survived is at
  or past the last of them.
- *Approval* (`WorkCardProofs`). `ApprovalInv` says where an attended run can be before
  its plan is approved, and that its clone holds no commit of a run.
- *Follow-ups.* `SplitInv`: what a run believes of the record is what the record says,
  and a card beyond it is about to be recorded or was counted as torn.
- *Claims.* `ClaimInv`, over the claims that are not set apart as left by a race: at a
  subtask a run holds at most that one; in a race those it claimed once and that are
  still open; during the replay only those ahead of it; between two runs none.
- *Settled subtasks.* `SettledInv`: which phase implies that every subtask was created,
  which that all are terminal, and that a resumed run gets behind execute only
  through a phase that says so.
- *Durability* (`WorkBranchProofs`). `DoneIsDurable` is broken by any push over the
  origin unless the branch that replaces it has all completed work: `DurableInv`
  says that of the clone, of each candidate's branch and, where the next step
  completes without a push, that the clone is at the origin.
- *Good trees.* `GoodInv`: what a tool measured is good for the tree it measured,
  and the places between a passing gate and the completion have a good HEAD.
- *Pushes.* `KeepsInv`: clone and candidates contain all that runs pushed, but for a fix
  review took back; a fresh run's phase is `none` only while no run has pushed. The one
  step that takes a run's work off the branch is review's discard of its own fix, and
  `FixInv` says that the fix is all it takes: in review the branch has got nothing else
  since `preFix`, and what completed before is in `preFix` (`DurableInv`).
- *Parks.* `ParkInv` follows two things a run may be without: its first push over a
  branch it found, and integrate's lease push over a branch it rewrote. Everywhere
  else a plain push of the clone fast-forwards, and so would one of a candidate's
  branch (`Takes`), or the origin has all the clone has (`Within`), as after a fix that
  was taken back in the clone only; where a run parks before either, there is nothing
  to save. The
  invariant was first stated without the second, and failed: a run cancelled
  between the rebase and the lease push loses its unpushed work.
- *Own work.* The run that completes a subtask may have nothing to commit: it trusts
  that what lies past the recorded start is the subtask's. `OwnInv` makes that an
  invariant over runs: only the first open subtask was worked on, so only its start is
  recorded, and what descends from that start is the start itself or has a commit of
  the subtask (`StartInv`); the clone is ahead of the origin (`AheadInv`); a run finds
  no commit of its own before it has made one (`MarksInv`), which is what makes a
  branch with the same marks the same branch. `KindStep` sorts the steps of a run that
  is not behind execute into eight kinds, and each kind has a lemma.

**Review.** `RoundMirrorsCounter` and `NoRefusal` speak about single steps
(`pc = "round"`, the refusal) and need the whole round:

- `IdleInv`: between runs nothing of a run is left;
- `NumberInv`: a round's number is the counter plus one until it is counted and
  equal to it after, less what the restart at the cap dropped;
- `CliffInv`: an autonomous run of a fresh counter is before its cliff, which the
  credit moves; `stage` tells which of the two rounds behind the cliff it is in,
  so the counter never passes the cap plus the clamped credit plus one, and that is
  where the ceiling starts;
- `RefusalInv`: who is refused a count, and on which cards;
- `BlameInv`: a fix that is still to be judged (it ran, or it was capped, or it is
  the strong one) has not been charged yet, and every charge names a fix of its own.

Three more speak about the branch; a second invariant, `BInv`, serves them:

- `BranchInv`: a commit holds itself and older ones, and everything a run or record
  names has been made. With `CommitKeeps` (a new commit changes no other) what is
  known of a commit stays known, whoever pushes meanwhile;
- `RecordInv`: a record on the card or in the run's copy tells of a verdict, of no
  higher bar than it claims; `SoundInv` carries the verdict and its gate from the panel through
  record, human, cleanup and proof to `approved`. An adopted record is covered by the
  first, so a crash between the record and the end of the review costs nothing;
- `SeenInv`: the snapshot of the last panel holds only commits panels were shown, and
  HEAD is not in it whenever the next one is asked. A discard does put HEAD back into
  the snapshot; what saves the panel is that a fix follows, which adds a commit or
  widens the snapshot again;
- `MeasureInv`: between two rounds HEAD is the commit before the fix plus that fix, and
  `green` is the gate of that commit. It holds of capped and missing fixes too, so
  `DiscardsOneFix` does not depend on `fixRan`.

**Gates.**

- `CopyInv`: the run's copy of the sections is the card's unless a write was lost,
  and `CountInv`: then the rounds on the card are the rounds begun; with the guard
  of `FixBegins` these bound the rounds for every history of runs and crashes;
- `PollInv`: at a poll, a fix round on the card or a fix of this entry means that
  an empty list of checks is not taken for a pass (`sawChecks`); with `CountInv` it gives
  `GreenInv`, which also follows the late check through the steps in which
  the head has not moved (`LateInv` says which those are). A push of somebody else's
  makes `theirs` "late" until the CI gate reads the checks, and a run has it refuse every
  push of its own, so no fix lands on a head the gate was not asked about;
- `JudgedInv`: while a review is worked on, the run's verdicts are those of its
  copy of the card. Its one hard step is a triage: writing a section that judges
  comments without a verdict, where there was none, leaves every other comment's
  verdict and gives these theirs (`NewVerdicts`). A verdict is the one of the *last*
  section that judges the comment, so this needs that a non-empty set of rounds has
  a last one (`LastExists`, from the library's well-founded minimum);
- `SettledInv`: a review that settles the gate has no comment that is not dismissed.

The three action properties are then shown step by step: which actions satisfy the
gate, close a thread or write a section, and what `JudgedInv` says there.

**Only model-checked:** `EveryTriggerSettles` and `ShutdownEnds` (liveness and
`ENABLED` are outside what the prover handles); every safety
property, action property and refinement of a passing run is a theorem. No module uses
`RECURSIVE`; nothing proved needs induction over data.

## 7. What is not modelled

Each component's status is in `PROJECT.json`.

- *No control state a property could be about:* file log, metrics, configuration,
  prompts and other text, the command line, branch names, the ranking of models
  (a pure function of a static registry), the client calls to ContextMatrix and
  to the hosting service with the parsing of their answers (their outcomes are
  the nondeterministic inputs of the phases).
- *Mob sessions.* What a mob decides is an input of the plan, of the checkpoint and
  of a review round. The engine - speakers, rounds, consensus - keeps nothing the
  rest reads afterwards, except its spend.
- *The refresh loop of the credentials and the background retry of a terminal
  status.* Both are hazards in `PROJECT.json` without a property. The first needs
  the redactor's contents and the mounted file as state of their own; the second
  carries the card alone, so nothing in this code could tell a late report from
  one in time.
- *Bounds of a property rather than of a model:* `NothingLeft` leaves the env file to
  `OwnCredentials`; `ShutdownEnds` relies on a blocked write to fail at last, so it does
  not cover a worker that lives on and never reads its pipe; `serve_live` has a trigger
  per card, and a launch lock somebody waits for is met in `serve_faults` and
  `serve_stop` only, whose deadlock check would find it kept.
- *Within modelled components:* image pulls and listings, extra hosts and the
  boot-time removal of orphans (executor); how verify commands are detected; the
  windows of turns, the sizing of prompts, the reported outcomes and costs; the
  text of findings, plans and sections - the sections' *facts* are modelled, their
  formatting is not; the requests to GitHub one by one.
- *External code* (the Docker daemon, the LLM proxy, the redactor, ContextMatrix,
  git, GitHub) is modelled by the effect `src/` relies on.
- *Liveness of a run of the worker.* Its waits are bounded by deadlines and its
  loops by counters, which `RoundsCapped`, `NoRefusal` and `WorkTypeOK` bound; that
  a run ends was not checked as a temporal property, for the size of `work` and
  `gates`.

## 8. What is left

In the order of what would add most: `Review`
and `Gates` as refinements of what `Work` takes them for; liveness of a run on a
reduced instance of `gates`; the refresh loop as a small module over `Serve`'s
credentials.
