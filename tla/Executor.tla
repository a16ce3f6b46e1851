------------------------------ MODULE Executor ------------------------------
(***************************************************************************)
(* The Docker executor of the serve process (internal/executor): it        *)
(* launches one container per card, supervises it until it is gone, kills  *)
(* it on request or when it falls silent, and keeps the tracker that gates *)
(* concurrency.                                                            *)
(*                                                                         *)
(* A run is one launch of one card, named by its correlation id.  Every    *)
(* goroutine of the code is a program counter here; a call to the Docker   *)
(* daemon is one atomic step with the outcomes the daemon can produce, and *)
(* so is every method of the tracker, which holds its mutex throughout.    *)
(* The actions take what the caller decides (which run to launch, whose    *)
(* container to kill) as parameters, so that Serve composes them with the  *)
(* webhook handlers; the specification at the end drives them by           *)
(* themselves.                                                             *)
(***************************************************************************)
EXTENDS Naturals, FiniteSets

CONSTANTS
    Runs,           \* correlation ids, one per accepted trigger
    Cards,          \* project/card keys
    CardOf,         \* the card each run is for
    Callers,        \* the calls of Kill that may be made, one each
    CallerCard,     \* the card each of them names
    MaxConcurrent,  \* the tracker's limit
    NoRun,          \* an empty tracker slot
    Faults,         \* the calls that may fail, and the waits that may be cut
    IdleTimeout     \* whether the idle watchdog is configured

FaultKinds == {"create", "attach", "start", "kill", "remove", "wait", "caller",
               "timeout", "payload", "provision", "callback"}

ASSUME ExecutorAssumption ==
    /\ CardOf \in [Runs -> Cards]
    /\ CallerCard \in [Callers -> Cards]
    /\ NoRun \notin Runs
    /\ MaxConcurrent \in Nat
    /\ Faults \subseteq FaultKinds
    /\ IdleTimeout \in BOOLEAN

VARIABLES
    \* the Docker daemon
    ctr,        \* [Runs -> container state]
    code,       \* [Runs -> how the container's process ended]
    stray,      \* runs whose container the daemon refused to remove
    \* the tracker, keyed by card
    tracked,    \* the run holding the card's slot, or NoRun
    reason,     \* the recorded kill reason
    awaiting,   \* the worker waits for a human
    activity,   \* age of the last output line
    \* the goroutines of each run
    lpc,        \* Launch
    cancelled,  \* Launch's context has ended
    spc,        \* waitAndCleanup
    observed,   \* what the wait returned
    cause,      \* the cause handed to onExit
    wpc,        \* runIdleWatchdog
    \* each call of Kill
    kpc,        \* its step
    krun,       \* the run it found tracked
    left        \* its context has ended

daemon   == <<ctr, code, stray>>
tracker  == <<tracked, reason, awaiting, activity>>
launch   == <<lpc, cancelled>>
superv   == <<spc, observed, cause>>
kills    == <<kpc, krun, left>>
exvars   == <<daemon, tracker, launch, superv, wpc, kills>>

Containers == {"none", "created", "running", "exited", "removed"}
Causes     == {"normal", "timeout", "wait_failure", "daemon_error",
               "idle_timeout", "killed"}

ExecutorTypeOK ==
    /\ ctr \in [Runs -> Containers]
    /\ code \in [Runs -> {"none", "zero", "nonzero", "sigkill"}]
    /\ stray \in SUBSET Runs
    /\ tracked \in [Cards -> Runs \cup {NoRun}]
    /\ reason \in [Cards -> {"none", "killed", "idle_timeout"}]
    /\ awaiting \in [Cards -> BOOLEAN]
    /\ activity \in [Cards -> {"unset", "fresh", "stale"}]
    /\ lpc \in [Runs -> {"idle", "create", "add", "start", "up", "failed"}]
    /\ cancelled \in [Runs -> BOOLEAN]
    /\ spc \in [Runs -> {"off", "wait", "remove", "untrack", "exit", "done"}]
    /\ observed \in [Runs -> Causes]
    /\ cause \in [Runs -> Causes \cup {"unresolved"}]
    /\ wpc \in [Runs -> {"off", "poll", "reason", "kill"}]
    /\ kpc \in [Callers -> {"idle", "get", "grace", "send",
                            "ok", "notfound", "error"}]
    /\ krun \in [Callers -> Runs \cup {NoRun}]
    /\ left \in [Callers -> BOOLEAN]

ExecutorInit ==
    /\ ctr = [r \in Runs |-> "none"]
    /\ code = [r \in Runs |-> "none"]
    /\ stray = {}
    /\ tracked = [c \in Cards |-> NoRun]
    /\ reason = [c \in Cards |-> "none"]
    /\ awaiting = [c \in Cards |-> FALSE]
    /\ activity = [c \in Cards |-> "unset"]
    /\ lpc = [r \in Runs |-> "idle"]
    /\ cancelled = [r \in Runs |-> FALSE]
    /\ spc = [r \in Runs |-> "off"]
    /\ observed = [r \in Runs |-> "normal"]
    /\ cause = [r \in Runs |-> "unresolved"]
    /\ wpc = [r \in Runs |-> "off"]
    /\ kpc = [k \in Callers |-> "idle"]
    /\ krun = [k \in Callers |-> NoRun]
    /\ left = [k \in Callers |-> FALSE]

-----------------------------------------------------------------------------
(* The tracker. *)

Tracked == {r \in Runs : tracked[CardOf[r]] = r}

\* Mutant of HasRoom: the limit is off by one.
HasRoomOffByOne(c) ==
    /\ tracked[c] = NoRun
    /\ Cardinality(Tracked) <= MaxConcurrent

\* Tracker.AddIfUnderLimit: the conditions under which it registers a run.
HasRoom(c) ==
    /\ tracked[c] = NoRun
    /\ Cardinality(Tracked) < MaxConcurrent

\* Tracker.Remove drops the card's slot and all that is kept beside it, by
\* key: whichever run holds it.
TrackerRemove(c) ==
    /\ tracked' = [tracked EXCEPT ![c] = NoRun]
    /\ reason' = [reason EXCEPT ![c] = "none"]
    /\ awaiting' = [awaiting EXCEPT ![c] = FALSE]
    /\ activity' = [activity EXCEPT ![c] = "unset"]

\* Mutant of SetReason: it writes for an untracked card too.
SetReasonUnguarded(c, why) ==
    /\ reason' = [reason EXCEPT ![c] = why]
    /\ UNCHANGED <<tracked, awaiting, activity>>

\* Tracker.SetReason and Tracker.Touch write nothing for an untracked card.
SetReason(c, why) ==
    /\ reason' = IF tracked[c] = NoRun THEN reason ELSE [reason EXCEPT ![c] = why]
    /\ UNCHANGED <<tracked, awaiting, activity>>

Touched(c) ==
    IF tracked[c] = NoRun THEN activity ELSE [activity EXCEPT ![c] = "fresh"]

-----------------------------------------------------------------------------
(* The Docker daemon. *)

Present(r) == ctr[r] \in {"created", "running", "exited"}

\* Container names are per card, so a container still there refuses the next
\* create of its card.
Holding(c) == {r \in Runs : CardOf[r] = c /\ Present(r)}

\* A container that is removed while it runs is killed first.
Removing(R) ==
    /\ ctr' = [r \in Runs |-> IF r \in R THEN "removed" ELSE ctr[r]]
    /\ code' = [r \in Runs |-> IF r \in R /\ ctr[r] = "running"
                               THEN "sigkill" ELSE code[r]]
    /\ stray' = stray \ R

\* A forced removal: the container goes, or the daemon refuses and it stays
\* behind in state s.
RemoveContainer(r, s) ==
    \/ Removing({r})
    \/ /\ "remove" \in Faults /\ Present(r)
       /\ ctr' = [ctr EXCEPT ![r] = s]
       /\ stray' = stray \cup {r}
       /\ UNCHANGED code

\* SIGKILL reaches a running container.
Killed(r) ==
    /\ ctr' = [ctr EXCEPT ![r] = "exited"]
    /\ code' = [code EXCEPT ![r] = "sigkill"]
    /\ UNCHANGED stray

\* The worker ends on its own: with success, or with any failure (the worker's
\* own, an OOM kill).
ContainerExits(r) ==
    /\ ctr[r] = "running"
    /\ ctr' = [ctr EXCEPT ![r] = "exited"]
    /\ \E x \in {"zero", "nonzero"} : code' = [code EXCEPT ![r] = x]
    /\ UNCHANGED <<stray, tracker, launch, superv, wpc, kills>>

-----------------------------------------------------------------------------
(* Launch. *)

BeginLaunch(r) ==
    /\ lpc[r] = "idle"
    /\ lpc' = [lpc EXCEPT ![r] = "create"]
    /\ UNCHANGED cancelled

LaunchStep(r, to) ==
    /\ lpc' = [lpc EXCEPT ![r] = to]
    /\ UNCHANGED cancelled

\* ContainerCreate, after the image pull.
Create(r) ==
    /\ lpc[r] = "create"
    /\ ~cancelled[r]
    /\ Holding(CardOf[r]) = {}
    /\ ctr' = [ctr EXCEPT ![r] = "created"]
    /\ LaunchStep(r, "add")
    /\ UNCHANGED <<code, stray, tracker, superv, wpc, kills>>

\* The pull or the create is refused: a name still taken, a daemon error, or
\* a context that ended before the create was sent.
CreateRefused(r) ==
    /\ lpc[r] = "create"
    /\ \/ Holding(CardOf[r]) # {}
       \/ cancelled[r]
       \/ "create" \in Faults
    /\ LaunchStep(r, "failed")
    /\ UNCHANGED <<daemon, tracker, superv, wpc, kills>>

\* The context ended during the create, which the daemon may have carried out
\* all the same: whatever container has the card's name is removed.
CreateCutShort(r) ==
    /\ lpc[r] = "create"
    /\ cancelled[r]
    /\ LET named == IF Holding(CardOf[r]) = {} THEN {r} ELSE Holding(CardOf[r])
       IN  \/ Removing(named)
           \/ /\ "remove" \in Faults
              /\ Holding(CardOf[r]) = {}
              /\ ctr' = [ctr EXCEPT ![r] = "created"]
              /\ stray' = stray \cup {r}
              /\ UNCHANGED code
    /\ LaunchStep(r, "failed")
    /\ UNCHANGED <<tracker, superv, wpc, kills>>

\* Attach, then AddIfUnderLimit.
Add(r) ==
    /\ lpc[r] = "add"
    /\ HasRoom(CardOf[r])
    /\ tracked' = [tracked EXCEPT ![CardOf[r]] = r]
    /\ LaunchStep(r, "start")
    /\ UNCHANGED <<daemon, reason, awaiting, activity, superv, wpc, kills>>

\* Mutant of AddRefused: the refused launch clears the card's slot as a failed
\* start does.
AddRefusedClearsSlot(r) ==
    /\ lpc[r] = "add"
    /\ "attach" \in Faults \/ cancelled[r] \/ ~Present(r) \/ ~HasRoom(CardOf[r])
    /\ TrackerRemove(CardOf[r])
    /\ RemoveContainer(r, "created")
    /\ LaunchStep(r, "failed")
    /\ UNCHANGED <<superv, wpc, kills>>

\* The attach fails, or the tracker refuses (ErrCapacity).
AddRefused(r) ==
    /\ lpc[r] = "add"
    /\ \/ "attach" \in Faults
       \/ cancelled[r]
       \/ ~Present(r)
       \/ ~HasRoom(CardOf[r])
    /\ RemoveContainer(r, "created")
    /\ LaunchStep(r, "failed")
    /\ UNCHANGED <<tracker, superv, wpc, kills>>

\* ContainerStart; the idle clock is seeded and the supervisors spawned.
Start(r) ==
    /\ lpc[r] = "start"
    /\ ~cancelled[r]
    /\ ctr[r] = "created"
    /\ ctr' = [ctr EXCEPT ![r] = "running"]
    /\ activity' = Touched(CardOf[r])
    /\ spc' = [spc EXCEPT ![r] = "wait"]
    /\ wpc' = [wpc EXCEPT ![r] = IF IdleTimeout THEN "poll" ELSE "off"]
    /\ LaunchStep(r, "up")
    /\ UNCHANGED <<code, stray, tracked, reason, awaiting, observed, cause, kills>>

\* The start fails: the slot is given back and the container removed.  A start
\* cut short by its context may have run the container.
StartRefused(r) ==
    /\ lpc[r] = "start"
    /\ cancelled[r] \/ "start" \in Faults \/ ~Present(r)
    /\ TrackerRemove(CardOf[r])
    /\ \/ RemoveContainer(r, "created")
       \/ cancelled[r] /\ RemoveContainer(r, "running")
    /\ LaunchStep(r, "failed")
    /\ UNCHANGED <<superv, wpc, kills>>

Launch(r) ==
    \/ Create(r) \/ CreateRefused(r) \/ CreateCutShort(r)
    \/ Add(r) \/ AddRefused(r)
    \/ Start(r) \/ StartRefused(r)

\* The launch context ends, by its timeout or by its caller.
EndContext(R) == cancelled' = [r \in Runs |-> cancelled[r] \/ r \in R]

-----------------------------------------------------------------------------
(* waitAndCleanup. *)

SuperviseStep(r, to) == spc' = [spc EXCEPT ![r] = to]

\* The wait returns: the container is not running any more.
Observe(r) ==
    /\ spc[r] = "wait"
    /\ ctr[r] # "running"
    /\ \E o \in {"normal"} \cup (IF "wait" \in Faults THEN {"daemon_error"} ELSE {}) :
          observed' = [observed EXCEPT ![r] = o]
    /\ SuperviseStep(r, "remove")
    /\ UNCHANGED <<daemon, tracker, launch, cause, wpc, kills>>

\* Mutant of GiveUp: the wait is not bounded by the container timeout.
GiveUpUnbounded(r) ==
    /\ spc[r] = "wait" /\ "wait" \in Faults
    /\ observed' = [observed EXCEPT ![r] = "wait_failure"]
    /\ ctr[r] = "running" => Killed(r)
    /\ ctr[r] # "running" => UNCHANGED daemon
    /\ SuperviseStep(r, "remove")
    /\ UNCHANGED <<tracker, launch, cause, wpc, kills>>

\* The container timeout ends the wait, or the wait fails: the container is
\* killed as well as can be.
GiveUp(r) ==
    /\ spc[r] = "wait"
    /\ \E o \in {"timeout"} \cup (IF "wait" \in Faults THEN {"wait_failure"} ELSE {}) :
          observed' = [observed EXCEPT ![r] = o]
    /\ \/ ctr[r] = "running" /\ Killed(r)
       \/ (ctr[r] # "running" \/ "kill" \in Faults) /\ UNCHANGED daemon
    /\ SuperviseStep(r, "remove")
    /\ UNCHANGED <<tracker, launch, cause, wpc, kills>>

\* Mutant of ForceRemove: the container is taken to be gone once it was killed.
ForceRemoveSkipped(r) ==
    /\ spc[r] = "remove"
    /\ SuperviseStep(r, "untrack")
    /\ UNCHANGED <<daemon, tracker, launch, observed, cause, wpc, kills>>

ForceRemove(r) ==
    /\ spc[r] = "remove"
    /\ RemoveContainer(r, ctr[r])
    /\ SuperviseStep(r, "untrack")
    /\ UNCHANGED <<tracker, launch, observed, cause, wpc, kills>>

\* resolveCause: the supervisor's own kill wins, then a recorded reason.
ResolveCause(o, why) ==
    IF o \in {"timeout", "wait_failure"} \/ why = "none" THEN o ELSE why

\* The reason is read, then the slot given back: by key.
Untrack(r) ==
    /\ spc[r] = "untrack"
    /\ cause' = [cause EXCEPT ![r] = ResolveCause(observed[r], reason[CardOf[r]])]
    /\ TrackerRemove(CardOf[r])
    /\ SuperviseStep(r, "exit")
    /\ UNCHANGED <<daemon, launch, observed, wpc, kills>>

\* onExit has returned; the watchdog is told.
ExitReturns(r) ==
    /\ spc[r] = "exit"
    /\ SuperviseStep(r, "done")
    /\ UNCHANGED <<observed, cause>>

Supervise(r) == Observe(r) \/ GiveUp(r) \/ ForceRemove(r) \/ Untrack(r)

-----------------------------------------------------------------------------
(* The output pump and the idle watchdog. *)

\* A line of output: the idle clock restarts, and the log bridge sets or clears
\* awaiting-human from the entry.  Lines arrive until the attach stream ends,
\* which may be after the run lost its slot.  With no watchdog nothing reads
\* what this writes.
Output(r) ==
    /\ IdleTimeout
    /\ ctr[r] = "running" \/ spc[r] \in {"wait", "remove", "untrack", "exit"}
    /\ lpc[r] = "up" /\ spc[r] # "done"
    /\ activity' = Touched(CardOf[r])
    /\ \E b \in BOOLEAN :
          awaiting' = IF tracked[CardOf[r]] = NoRun THEN awaiting
                      ELSE [awaiting EXCEPT ![CardOf[r]] = b]
    /\ UNCHANGED <<daemon, tracked, reason, launch, superv, wpc, kills>>

\* The idle timeout passes without a line.
Quiet(c) ==
    /\ activity[c] = "fresh"
    /\ IdleTimeout
    /\ activity' = [activity EXCEPT ![c] = "stale"]
    /\ UNCHANGED <<daemon, tracked, reason, awaiting, launch, superv, wpc, kills>>

\* A tick that finds the card idle; the tracker is asked by key.
WatchdogFires(r) ==
    /\ wpc[r] = "poll"
    /\ ~awaiting[CardOf[r]]
    /\ activity[CardOf[r]] = "stale"
    /\ wpc' = [wpc EXCEPT ![r] = "reason"]
    /\ UNCHANGED <<daemon, tracker, launch, superv, kills>>

WatchdogRecords(r) ==
    /\ wpc[r] = "reason"
    /\ SetReason(CardOf[r], "idle_timeout")
    /\ wpc' = [wpc EXCEPT ![r] = "kill"]
    /\ UNCHANGED <<daemon, launch, superv, kills>>

\* One attempt, whatever comes of it.
WatchdogKills(r) ==
    /\ wpc[r] = "kill"
    /\ \/ ctr[r] = "running" /\ Killed(r)
       \/ (ctr[r] # "running" \/ "kill" \in Faults) /\ UNCHANGED daemon
    /\ wpc' = [wpc EXCEPT ![r] = "off"]
    /\ UNCHANGED <<tracker, launch, superv, kills>>

WatchdogStops(r) ==
    /\ wpc[r] = "poll"
    /\ spc[r] = "done"
    /\ wpc' = [wpc EXCEPT ![r] = "off"]
    /\ UNCHANGED <<daemon, tracker, launch, superv, kills>>

Watchdog(r) ==
    WatchdogFires(r) \/ WatchdogRecords(r) \/ WatchdogKills(r) \/ WatchdogStops(r)

-----------------------------------------------------------------------------
(* Kill. *)

\* Get: the run tracked for the card now, or ErrNotFound.
KillGet(k) ==
    /\ kpc[k] = "get"
    /\ krun' = [krun EXCEPT ![k] = tracked[CallerCard[k]]]
    /\ kpc' = [kpc EXCEPT ![k] = IF tracked[CallerCard[k]] = NoRun
                                 THEN "notfound" ELSE "grace"]
    /\ UNCHANGED <<daemon, tracker, launch, superv, wpc, left>>

\* The daemon answers that the container is not running, which it also does
\* for one that is created and not started.
KillSelfExit(k) ==
    /\ kpc[k] = "grace"
    /\ ctr[krun[k]] # "running"
    /\ kpc' = [kpc EXCEPT ![k] = "ok"]
    /\ UNCHANGED <<daemon, tracker, launch, superv, wpc, krun, left>>

\* The grace, or the caller's context, ends: the reason is recorded by key.
KillGraceOver(k) ==
    /\ kpc[k] = "grace"
    /\ SetReason(CallerCard[k], "killed")
    /\ kpc' = [kpc EXCEPT ![k] = "send"]
    /\ UNCHANGED <<daemon, launch, superv, wpc, krun, left>>

\* ContainerKill on the container that was found.
KillSend(k) ==
    /\ kpc[k] = "send"
    /\ \/ /\ ctr[krun[k]] = "running" /\ ~left[k]
          /\ Killed(krun[k])
          /\ kpc' = [kpc EXCEPT ![k] = "ok"]
       \/ /\ ctr[krun[k]] # "running" \/ left[k] \/ "kill" \in Faults
          /\ kpc' = [kpc EXCEPT ![k] = "error"]
          /\ UNCHANGED daemon
    /\ UNCHANGED <<tracker, launch, superv, wpc, krun, left>>

Kill(k) == KillGet(k) \/ KillSelfExit(k) \/ KillGraceOver(k) \/ KillSend(k)

KillReturned(k) == kpc[k] \in {"ok", "notfound", "error"}

\* A caller goes away, or its deadline passes, while Kill is at work.
EndCallers(K) == left' = [k \in Callers |-> left[k] \/ k \in K]
-----------------------------------------------------------------------------
(* The executor by itself, under any caller: launches of one card may even   *)
(* overlap, which the webhook handlers never do.                             *)

CallLaunch(r) ==
    /\ BeginLaunch(r)
    /\ UNCHANGED <<daemon, tracker, superv, wpc, kills>>

CallKill(k) ==
    /\ kpc[k] = "idle"
    /\ kpc' = [kpc EXCEPT ![k] = "get"]
    /\ UNCHANGED <<daemon, tracker, launch, superv, wpc, krun, left>>

LaunchTimesOut(r) ==
    /\ "timeout" \in Faults
    /\ lpc[r] \in {"create", "add", "start"}
    /\ EndContext({r})
    /\ UNCHANGED <<daemon, tracker, lpc, superv, wpc, kills>>

CallerLeaves(k) ==
    /\ "caller" \in Faults
    /\ kpc[k] \in {"grace", "send"}
    /\ EndCallers({k})
    /\ UNCHANGED <<daemon, tracker, launch, superv, wpc, kpc, krun>>

Returns(r) == ExitReturns(r) /\ UNCHANGED <<daemon, tracker, launch, wpc, kills>>

ExecutorDone ==
    /\ \A r \in Runs : lpc[r] = "failed" \/ (lpc[r] = "up" /\ spc[r] = "done" /\ wpc[r] = "off")
    /\ \A k \in Callers : KillReturned(k)
    /\ UNCHANGED exvars

ExecutorNext ==
    \/ \E r \in Runs :
          \/ CallLaunch(r) \/ LaunchTimesOut(r) \/ Launch(r)
          \/ ContainerExits(r) \/ Supervise(r) \/ Returns(r)
          \/ Output(r) \/ Watchdog(r)
    \/ \E c \in Cards : Quiet(c)
    \/ \E k \in Callers : CallKill(k) \/ CallerLeaves(k) \/ Kill(k)
    \/ ExecutorDone

ExecutorSpec == ExecutorInit /\ [][ExecutorNext]_exvars

-----------------------------------------------------------------------------
(* Properties. *)

\* Docker never runs a container that the tracker does not count: a container
\* that runs is supervised and holds its card's slot, unless the daemon
\* refused to remove it.  So at most MaxConcurrent containers run, however
\* launches fail, race and are cut short (Launch, waitAndCleanup).
RunningIsTracked ==
    \A r \in Runs \ stray :
        ctr[r] = "running" => r \in Tracked /\ spc[r] \in {"wait", "remove"}

\* A slot is given back by the run that holds it and by nobody else, though
\* Tracker.Remove names only the card: not by a refused duplicate, not by a
\* predecessor that is still on its way out.
SlotIsOwn ==
    [][\A r \in Tracked :
          tracked'[CardOf[r]] # r =>
              \/ spc[r] = "untrack" /\ spc'[r] = "exit"
              \/ lpc[r] = "start" /\ lpc'[r] = "failed"]_exvars

\* "A dead key never carries a stale reason" (Tracker.SetReason): when a run
\* takes the slot, no kill, watchdog or earlier run of the card has left a
\* reason or an idle clock there.
SlotIsClean ==
    \A c \in Cards :
        tracked[c] = NoRun => reason[c] = "none" /\ activity[c] = "unset" /\ ~awaiting[c]

\* ExitKilled is "a container killed on request, by an operator or by a
\* shutdown sweep": a run that ends with cause killed was ended by SIGKILL, or
\* ended by itself just as a request that still stands was about to send it.
KilledWasKilled ==
    \A r \in Runs :
        cause[r] = "killed" =>
            code[r] = "sigkill" \/ \E k \in Callers : krun[k] = r /\ ~left[k]
=============================================================================
