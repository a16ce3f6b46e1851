--------------------------- MODULE ExecutorProofs ---------------------------
(* Theorems about Executor, under any caller: for any launches, also several *)
(* of one card at a time, and any kills.                                     *)
EXTENDS Executor, TLAPS

USE DEF exvars, daemon, tracker, launch, superv, kills

-----------------------------------------------------------------------------
(* Type correctness. *)

\* The steps of the executor's launch keep the executor's types.
LEMMA LaunchTypes ==
    ASSUME NEW r \in Runs, ExecutorTypeOK, Launch(r)
    PROVE  ExecutorTypeOK'
<1> USE ExecutorAssumption DEF ExecutorTypeOK, Containers, Causes
<1>1. CASE Create(r)
  BY <1>1 DEF Create, LaunchStep
<1>2. CASE CreateRefused(r)
  BY <1>2 DEF CreateRefused, LaunchStep
<1>3. CASE CreateCutShort(r)
  BY <1>3 DEF CreateCutShort, LaunchStep, Removing, Holding
<1>4. CASE Add(r)
  BY <1>4 DEF Add, LaunchStep
<1>5. CASE AddRefused(r)
  BY <1>5 DEF AddRefused, LaunchStep, RemoveContainer, Removing
<1>6. CASE Start(r)
  BY <1>6 DEF Start, LaunchStep, Touched
<1>7. CASE StartRefused(r)
  BY <1>7 DEF StartRefused, LaunchStep, RemoveContainer, Removing, TrackerRemove
<1> QED
  BY <1>1, <1>2, <1>3, <1>4, <1>5, <1>6, <1>7 DEF Launch

\* The supervisor, the container, the pump and the watchdog keep them too.
LEMMA SuperviseTypes ==
    ASSUME NEW r \in Runs, ExecutorTypeOK,
           Supervise(r) \/ ContainerExits(r) \/ Output(r) \/ Watchdog(r)
    PROVE  ExecutorTypeOK'
<1> USE ExecutorAssumption DEF ExecutorTypeOK, Containers, Causes
<1>1. CASE Observe(r)
  <2>1. PICK o \in Causes : observed' = [observed EXCEPT ![r] = o]
    BY <1>1 DEF Observe
  <2> QED
    BY <1>1, <2>1 DEF Observe, SuperviseStep
<1>2. CASE GiveUp(r)
  BY <1>2 DEF GiveUp, SuperviseStep, Killed
<1>3. CASE ForceRemove(r)
  BY <1>3 DEF ForceRemove, SuperviseStep, RemoveContainer, Removing
<1>4. CASE Untrack(r)
  BY <1>4 DEF Untrack, SuperviseStep, TrackerRemove, ResolveCause
<1>5. CASE ContainerExits(r)
  <2>1. PICK x \in {"zero", "nonzero"} : code' = [code EXCEPT ![r] = x]
    BY <1>5 DEF ContainerExits
  <2>2. code' \in [Runs -> {"none", "zero", "nonzero", "sigkill"}]
    BY <2>1
  <2>3. ctr' \in [Runs -> Containers]
    BY <1>5 DEF ContainerExits
  <2> QED
    BY <1>5, <2>2, <2>3 DEF ContainerExits
<1>6. CASE Output(r)
  BY <1>6 DEF Output, Touched
<1>7. CASE WatchdogFires(r)
  BY <1>7 DEF WatchdogFires
<1>8. CASE WatchdogRecords(r)
  BY <1>8 DEF WatchdogRecords, SetReason
<1>9. CASE WatchdogKills(r)
  BY <1>9 DEF WatchdogKills, Killed
<1>10. CASE WatchdogStops(r)
  BY <1>10 DEF WatchdogStops
<1> QED
  BY <1>1, <1>2, <1>3, <1>4, <1>5, <1>6, <1>7, <1>8, <1>9, <1>10 DEF Supervise, Watchdog

\* A caller in its grace, or about to send, has found a run.
LEMMA KillTypes ==
    ASSUME NEW k \in Callers, ExecutorTypeOK, Kill(k)
    PROVE  ExecutorTypeOK'
<1> USE ExecutorAssumption DEF ExecutorTypeOK, Containers, Causes
<1>1. CASE KillGet(k)
  BY <1>1 DEF KillGet
<1>2. CASE KillSelfExit(k)
  BY <1>2 DEF KillSelfExit
<1>3. CASE KillGraceOver(k)
  BY <1>3 DEF KillGraceOver, SetReason
<1>4. CASE KillSend(k)
  BY <1>4 DEF KillSend, Killed
<1> QED
  BY <1>1, <1>2, <1>3, <1>4 DEF Kill

\* Launch moves on its own run only, from create by add and start to its end.
LEMMA LaunchMoves ==
    ASSUME NEW r \in Runs, ExecutorTypeOK, Launch(r)
    PROVE  /\ lpc[r] \in {"create", "add", "start"}
           /\ \A x \in Runs \ {r} : lpc'[x] = lpc[x] /\ spc'[x] = spc[x]
           /\ lpc'[r] \in {"add", "start", "up", "failed"}
           /\ lpc'[r] \in {"add", "start", "failed"} => spc'[r] = spc[r]
           /\ lpc'[r] = "up" => spc'[r] = "wait"
<1> USE DEF ExecutorTypeOK, LaunchStep
<1>1. CASE Create(r) \/ CreateRefused(r) \/ CreateCutShort(r)
  BY <1>1 DEF Create, CreateRefused, CreateCutShort
<1>2. CASE Add(r) \/ AddRefused(r)
  BY <1>2 DEF Add, AddRefused
<1>3. CASE Start(r)
  BY <1>3 DEF Start
<1>4. CASE StartRefused(r)
  BY <1>4 DEF StartRefused
<1> QED
  BY <1>1, <1>2, <1>3, <1>4 DEF Launch

\* The executor by itself keeps its types.
LEMMA ExecutorTypes == ExecutorTypeOK /\ [ExecutorNext]_exvars => ExecutorTypeOK'
<1> SUFFICES ASSUME ExecutorTypeOK, [ExecutorNext]_exvars
             PROVE  ExecutorTypeOK'
  OBVIOUS
<1>1. ASSUME NEW r \in Runs, CallLaunch(r) \/ Returns(r)
      PROVE  ExecutorTypeOK'
  BY <1>1 DEF CallLaunch, Returns, BeginLaunch, ExitReturns, SuperviseStep, ExecutorTypeOK
<1>2. ASSUME NEW c \in Cards, Quiet(c)
      PROVE  ExecutorTypeOK'
  BY <1>2 DEF Quiet, ExecutorTypeOK
<1>3. ASSUME NEW k \in Callers, CallKill(k)
      PROVE  ExecutorTypeOK'
  BY <1>3 DEF CallKill, ExecutorTypeOK
<1>5. ASSUME NEW r \in Runs, LaunchTimesOut(r)
      PROVE  ExecutorTypeOK'
  <2>1. cancelled' \in [Runs -> BOOLEAN]
    BY <1>5 DEF LaunchTimesOut, EndContext
  <2> QED
    BY <1>5, <2>1 DEF LaunchTimesOut, ExecutorTypeOK
<1>6. ASSUME NEW k \in Callers, CallerLeaves(k)
      PROVE  ExecutorTypeOK'
  <2>1. left' \in [Callers -> BOOLEAN]
    BY <1>6 DEF CallerLeaves, EndCallers
  <2> QED
    BY <1>6, <2>1 DEF CallerLeaves, ExecutorTypeOK
<1>4. CASE UNCHANGED exvars
  BY <1>4 DEF ExecutorTypeOK
<1> QED
  BY <1>1, <1>2, <1>3, <1>4, <1>5, <1>6, LaunchTypes, SuperviseTypes, KillTypes
     DEF ExecutorNext, ExecutorDone

-----------------------------------------------------------------------------
(* The slot of a card. *)

LEMMA RunHasCard == \A r \in Runs : CardOf[r] \in Cards /\ r # NoRun
  BY ExecutorAssumption

\* A run holds the slot from AddIfUnderLimit until its supervisor, or its
\* failed start, gives it back: two launches of one card cannot both have it.
HeldInv ==
    /\ \A c \in Cards : tracked[c] # NoRun => CardOf[tracked[c]] = c
    /\ \A r \in Runs :
          /\ r \in Tracked <=> lpc[r] = "start" \/ spc[r] \in {"wait", "remove", "untrack"}
          /\ spc[r] # "off" => lpc[r] = "up"

\* What a container may be at each step of its launch.
BoxInv ==
    \A r \in Runs :
        /\ lpc[r] \in {"idle", "create"} => ctr[r] = "none"
        /\ lpc[r] \in {"add", "start"} => ctr[r] \in {"created", "removed"}
        /\ ctr[r] = "running" /\ r \notin stray => spc[r] \in {"wait", "remove"}

ExecutorInv == ExecutorTypeOK /\ HeldInv /\ BoxInv /\ SlotIsClean

\* The steps that take or give back no slot and move no launch or supervisor.
LEMMA Bystanders ==
    ASSUME ExecutorTypeOK,
           \/ \E r \in Runs : LaunchTimesOut(r) \/ ContainerExits(r) \/ Output(r) \/ Watchdog(r)
           \/ \E c \in Cards : Quiet(c)
           \/ \E k \in Callers : CallKill(k) \/ CallerLeaves(k) \/ Kill(k)
           \/ UNCHANGED exvars
    PROVE  UNCHANGED <<tracked, lpc, spc>>
<1>1. ASSUME NEW r \in Runs, LaunchTimesOut(r) \/ ContainerExits(r) \/ Output(r)
      PROVE  UNCHANGED <<tracked, lpc, spc>>
  BY <1>1 DEF LaunchTimesOut, ContainerExits, Output
<1>2. ASSUME NEW r \in Runs, Watchdog(r)
      PROVE  UNCHANGED <<tracked, lpc, spc>>
  BY <1>2 DEF Watchdog, WatchdogFires, WatchdogRecords, WatchdogKills, WatchdogStops, SetReason
<1>3. ASSUME NEW c \in Cards, Quiet(c)
      PROVE  UNCHANGED <<tracked, lpc, spc>>
  BY <1>3 DEF Quiet
<1>4. ASSUME NEW k \in Callers, CallKill(k) \/ CallerLeaves(k) \/ Kill(k)
      PROVE  UNCHANGED <<tracked, lpc, spc>>
  BY <1>4 DEF CallKill, CallerLeaves, Kill, KillGet, KillSelfExit, KillGraceOver, KillSend,
              SetReason
<1> QED
  BY <1>1, <1>2, <1>3, <1>4

\* Who has the slot.
LEMMA HeldStep == ExecutorInv /\ [ExecutorNext]_exvars => HeldInv'
<1> SUFFICES ASSUME ExecutorInv, [ExecutorNext]_exvars
             PROVE  HeldInv'
  OBVIOUS
<1> USE RunHasCard DEF ExecutorInv, HeldInv, ExecutorTypeOK, Tracked
<1>1. CASE UNCHANGED <<tracked, lpc, spc>>
  BY <1>1
<1>2. ASSUME NEW r \in Runs, CallLaunch(r) \/ Create(r) \/ CreateRefused(r) \/ CreateCutShort(r)
             \/ AddRefused(r)
      PROVE  HeldInv'
  BY <1>2 DEF CallLaunch, BeginLaunch, Create, CreateRefused, CreateCutShort, AddRefused,
              LaunchStep
<1>3. ASSUME NEW r \in Runs, Add(r)
      PROVE  HeldInv'
  BY <1>3 DEF Add, LaunchStep, HasRoom
<1>4. ASSUME NEW r \in Runs, Start(r)
      PROVE  HeldInv'
  BY <1>4 DEF Start, LaunchStep
<1>5. ASSUME NEW r \in Runs, StartRefused(r)
      PROVE  HeldInv'
  BY <1>5 DEF StartRefused, LaunchStep, TrackerRemove
<1>6. ASSUME NEW r \in Runs, Observe(r) \/ GiveUp(r) \/ ForceRemove(r) \/ Returns(r)
      PROVE  HeldInv'
  BY <1>6 DEF Observe, GiveUp, ForceRemove, Returns, ExitReturns, SuperviseStep
<1>7. ASSUME NEW r \in Runs, Untrack(r)
      PROVE  HeldInv'
  BY <1>7 DEF Untrack, SuperviseStep, TrackerRemove
<1> QED
  BY <1>1, <1>2, <1>3, <1>4, <1>5, <1>6, <1>7, Bystanders
     DEF ExecutorNext, ExecutorDone, Launch, Supervise

\* What the containers are: a launch cut short may remove the container of
\* another launch of the card, and never starts one.
LEMMA BoxStep == ExecutorInv /\ [ExecutorNext]_exvars => BoxInv'
<1> SUFFICES ASSUME ExecutorInv, [ExecutorNext]_exvars
             PROVE  BoxInv'
  OBVIOUS
<1> USE DEF ExecutorInv, BoxInv, ExecutorTypeOK
<1>1. ASSUME NEW r \in Runs, CallLaunch(r) \/ LaunchTimesOut(r) \/ Returns(r)
      PROVE  BoxInv'
  BY <1>1 DEF CallLaunch, BeginLaunch, LaunchTimesOut, Returns, ExitReturns, SuperviseStep
<1>2. ASSUME NEW r \in Runs, Create(r) \/ CreateRefused(r) \/ Add(r)
      PROVE  BoxInv'
  BY <1>2 DEF Create, CreateRefused, Add, LaunchStep
<1>3. ASSUME NEW r \in Runs, CreateCutShort(r)
      PROVE  BoxInv'
  BY <1>3 DEF CreateCutShort, LaunchStep, Removing, Holding, Present
<1>4. ASSUME NEW r \in Runs, AddRefused(r) \/ StartRefused(r)
      PROVE  BoxInv'
  BY <1>4 DEF AddRefused, StartRefused, LaunchStep, RemoveContainer, Removing
<1>5. ASSUME NEW r \in Runs, Start(r)
      PROVE  BoxInv'
  BY <1>5 DEF Start, LaunchStep
<1>6. ASSUME NEW r \in Runs, ContainerExits(r) \/ Output(r) \/ Observe(r) \/ GiveUp(r)
      PROVE  BoxInv'
  BY <1>6 DEF ContainerExits, Output, Observe, GiveUp, Killed, SuperviseStep
<1>7. ASSUME NEW r \in Runs, ForceRemove(r) \/ Untrack(r)
      PROVE  BoxInv'
  BY <1>7 DEF ForceRemove, Untrack, RemoveContainer, Removing, SuperviseStep, HeldInv
<1>8. ASSUME NEW r \in Runs, Watchdog(r)
      PROVE  BoxInv'
  BY <1>8 DEF Watchdog, WatchdogFires, WatchdogRecords, WatchdogKills, WatchdogStops, Killed
<1>9. ASSUME NEW c \in Cards, Quiet(c)
      PROVE  BoxInv'
  BY <1>9 DEF Quiet
<1>10. ASSUME NEW k \in Callers, CallKill(k) \/ CallerLeaves(k) \/ Kill(k)
       PROVE  BoxInv'
  BY <1>10 DEF CallKill, CallerLeaves, Kill, KillGet, KillSelfExit, KillGraceOver, KillSend, Killed
<1>11. CASE UNCHANGED exvars
  BY <1>11
<1> QED
  BY <1>1, <1>2, <1>3, <1>4, <1>5, <1>6, <1>7, <1>8, <1>9, <1>10, <1>11
     DEF ExecutorNext, ExecutorDone, Launch, Supervise

\* What a dead key carries.  Every write beside the slot looks at the slot
\* first, and what gives the slot back clears the rest with it.
LEMMA CleanStep == ExecutorInv /\ [ExecutorNext]_exvars => SlotIsClean'
<1> SUFFICES ASSUME ExecutorInv, [ExecutorNext]_exvars
             PROVE  SlotIsClean'
  OBVIOUS
<1> USE RunHasCard DEF ExecutorInv, SlotIsClean, ExecutorTypeOK
<1>1. CASE UNCHANGED tracker
  BY <1>1
<1>2. ASSUME NEW r \in Runs, Add(r)
      PROVE  SlotIsClean'
  BY <1>2 DEF Add
<1>3. ASSUME NEW r \in Runs, Start(r) \/ Output(r)
      PROVE  SlotIsClean'
  BY <1>3 DEF Start, Output, Touched
<1>4. ASSUME NEW c \in Cards, TrackerRemove(c)
      PROVE  SlotIsClean'
  BY <1>4 DEF TrackerRemove
<1>5. ASSUME NEW c \in Cards, NEW why, SetReason(c, why)
      PROVE  SlotIsClean'
  BY <1>5 DEF SetReason
<1>6. ASSUME NEW c \in Cards, Quiet(c)
      PROVE  SlotIsClean'
  BY <1>6 DEF Quiet
<1>7. ASSUME NEW r \in Runs, CallLaunch(r) \/ LaunchTimesOut(r) \/ Returns(r) \/ Create(r)
             \/ CreateRefused(r) \/ CreateCutShort(r) \/ AddRefused(r) \/ ContainerExits(r)
             \/ Observe(r) \/ GiveUp(r) \/ ForceRemove(r)
      PROVE  SlotIsClean'
  BY <1>1, <1>7 DEF CallLaunch, LaunchTimesOut, Returns, Create, CreateRefused, CreateCutShort,
                    AddRefused, ContainerExits, Observe, GiveUp, ForceRemove
<1>8. ASSUME NEW r \in Runs, StartRefused(r) \/ Untrack(r)
      PROVE  SlotIsClean'
  BY <1>4, <1>8 DEF StartRefused, Untrack
<1>9. ASSUME NEW r \in Runs, Watchdog(r)
      PROVE  SlotIsClean'
  BY <1>1, <1>5, <1>9 DEF Watchdog, WatchdogFires, WatchdogRecords, WatchdogKills, WatchdogStops
<1>10. ASSUME NEW k \in Callers, CallKill(k) \/ CallerLeaves(k) \/ Kill(k)
       PROVE  SlotIsClean'
  BY <1>1, <1>5, <1>10, ExecutorAssumption
     DEF CallKill, CallerLeaves, Kill, KillGet, KillSelfExit, KillGraceOver, KillSend
<1>11. CASE UNCHANGED exvars
  BY <1>1, <1>11
<1> QED
  BY <1>2, <1>3, <1>6, <1>7, <1>8, <1>9, <1>10, <1>11
     DEF ExecutorNext, ExecutorDone, Launch, Supervise

LEMMA ExecutorInvariant == ExecutorSpec => []ExecutorInv
<1>1. ExecutorInit => ExecutorInv
  BY RunHasCard, ExecutorAssumption
     DEF ExecutorInit, ExecutorInv, ExecutorTypeOK, HeldInv, BoxInv, SlotIsClean, Tracked,
         Containers, Causes
<1>2. ExecutorInv /\ [ExecutorNext]_exvars => ExecutorInv'
  BY ExecutorTypes, HeldStep, BoxStep, CleanStep DEF ExecutorInv
<1> QED
  BY <1>1, <1>2, PTL DEF ExecutorSpec

\* No container runs that the tracker does not count, however the launches and
\* kills of a card overlap (Launch, waitAndCleanup).
THEOREM ContainersTracked == ExecutorSpec => []RunningIsTracked
<1>1. ExecutorInv => RunningIsTracked
  BY DEF ExecutorInv, HeldInv, BoxInv, RunningIsTracked
<1> QED
  BY <1>1, ExecutorInvariant, PTL

\* A free slot carries no reason, idle clock or awaiting mark of the runs that
\* had it (Tracker.SetReason, Tracker.Remove).
THEOREM SlotsClean == ExecutorSpec => []SlotIsClean
<1>1. ExecutorInv => SlotIsClean
  BY DEF ExecutorInv
<1> QED
  BY <1>1, ExecutorInvariant, PTL

\* Only the run in the slot gives it back, by its supervisor or by its failed
\* start, though both name the card alone (Tracker.Remove).
THEOREM SlotsOwn == ExecutorSpec => SlotIsOwn
<1> DEFINE Own == \A r \in Tracked :
                      tracked'[CardOf[r]] # r =>
                          \/ spc[r] = "untrack" /\ spc'[r] = "exit"
                          \/ lpc[r] = "start" /\ lpc'[r] = "failed"
<1>1. ASSUME ExecutorInv, [ExecutorNext]_exvars PROVE Own
  <2> USE RunHasCard DEF ExecutorInv, ExecutorTypeOK, HeldInv, Tracked
  <2>1. CASE tracked' = tracked
    BY <2>1
  <2>2. ASSUME NEW x \in Runs, Add(x) PROVE Own
    BY <2>2 DEF Add, HasRoom
  <2>3. ASSUME NEW x \in Runs, StartRefused(x) PROVE Own
    <3>1. /\ lpc[x] = "start" /\ lpc'[x] = "failed"
          /\ tracked' = [tracked EXCEPT ![CardOf[x]] = NoRun]
      BY <2>3, <1>1 DEF StartRefused, TrackerRemove, LaunchStep
    <3>2. tracked[CardOf[x]] = x
      BY <3>1, <1>1
    <3> QED
      BY <3>1, <3>2, <1>1
  <2>4. ASSUME NEW x \in Runs, Untrack(x) PROVE Own
    <3>1. /\ spc[x] = "untrack" /\ spc'[x] = "exit"
          /\ tracked' = [tracked EXCEPT ![CardOf[x]] = NoRun]
      BY <2>4, <1>1 DEF Untrack, TrackerRemove, SuperviseStep
    <3>2. tracked[CardOf[x]] = x
      BY <3>1, <1>1
    <3> QED
      BY <3>1, <3>2, <1>1
  <2>5. \/ tracked' = tracked
        \/ \E x \in Runs : Add(x) \/ StartRefused(x) \/ Untrack(x)
    <3>1. ASSUME NEW x \in Runs, CallLaunch(x) \/ Returns(x) \/ Create(x) \/ CreateRefused(x)
                 \/ CreateCutShort(x) \/ AddRefused(x) \/ Start(x) \/ Observe(x) \/ GiveUp(x)
                 \/ ForceRemove(x)
          PROVE  tracked' = tracked
      BY <3>1 DEF CallLaunch, Returns, Create, CreateRefused, CreateCutShort, AddRefused, Start,
                  Observe, GiveUp, ForceRemove
    <3> QED
      BY <1>1, <3>1, Bystanders DEF ExecutorNext, ExecutorDone, Launch, Supervise
  <2> QED
    BY <2>1, <2>2, <2>3, <2>4, <2>5
<1> QED
  BY <1>1, ExecutorInvariant, PTL DEF ExecutorSpec, SlotIsOwn
=============================================================================
