---------------------------- MODULE ServeProofs -----------------------------
(* Theorems about Serve, for every set of runs, cards and stops.             *)
EXTENDS Serve, ExecutorProofs, TLAPS

USE DEF exvars, svars, daemon, tracker, launch, superv, kills, creds, stopvars

-----------------------------------------------------------------------------
(* Type correctness. *)

\* The whole of Serve keeps its types.
LEMMA ServeTypes == ServeTypeOK /\ [Next]_vars => ServeTypeOK'
<1> SUFFICES ASSUME ServeTypeOK, [Next]_vars
             PROVE  ServeTypeOK'
  OBVIOUS
<1>a. \A r \in Runs : CardOf[r] \in Cards
  BY ExecutorAssumption
<1>1. ASSUME NEW r \in Runs, TriggerArrives(r) \/ TriggerAccepted(r)
      PROVE  ServeTypeOK'
  BY <1>1 DEF TriggerArrives, TriggerAccepted, Goto, ServeTypeOK, Steps, ExecutorTypeOK
<1>2. ASSUME NEW r \in Runs, Admit(r) \/ AdmitRefused(r)
      PROVE  ServeTypeOK'
  <2>1. CASE Admit(r)
    BY <2>1, <1>a DEF Admit, Goto, ServeTypeOK, Steps, ExecutorTypeOK
  <2>2. CASE AdmitRefused(r)
    BY <2>2, <1>a DEF AdmitRefused, Goto, ServeTypeOK, Steps, ExecutorTypeOK
  <2> QED
    BY <1>2, <2>1, <2>2
<1>3. ASSUME NEW r \in Runs, Provision(r) \/ ProvisionFails(r)
      PROVE  ServeTypeOK'
  <2>1. CASE Provision(r)
    <3>1. ExecutorTypeOK'
      BY <2>1 DEF Provision, BeginLaunch, ServeTypeOK, ExecutorTypeOK
    <3>2. pc' \in [Runs -> Steps]
      BY <2>1 DEF Provision, Goto, ServeTypeOK, Steps
    <3>3. /\ token' \in SUBSET Runs /\ session' \in SUBSET Runs
          /\ handles' \in SUBSET Runs
          /\ env' \in [Cards -> Runs \cup {NoRun}]
      BY <2>1, <1>a DEF Provision, Displaced, ServeTypeOK
    <3>4. UNCHANGED <<lock, admissions, stopped, told, stopvars>>
      BY <2>1 DEF Provision
    <3> QED
      BY <3>1, <3>2, <3>3, <3>4 DEF ServeTypeOK, stopvars
  <2>2. CASE ProvisionFails(r)
    <3>1. UNCHANGED exvars /\ ExecutorTypeOK'
      BY <2>2 DEF ProvisionFails, ServeTypeOK, ExecutorTypeOK, exvars, daemon, tracker,
                  launch, superv, kills
    <3>2. pc' \in [Runs -> Steps]
      BY <2>2 DEF ProvisionFails, Goto, ServeTypeOK, Steps
    <3>3. token' \in SUBSET Runs /\ handles' \in SUBSET Runs
      BY <2>2 DEF ProvisionFails, Displaced, ServeTypeOK
    <3>4. UNCHANGED <<lock, admissions, stopped, session, env, told, stopvars>>
      BY <2>2 DEF ProvisionFails
    <3> QED
      BY <3>1, <3>2, <3>3, <3>4 DEF ServeTypeOK, stopvars
  <2> QED
    BY <1>3, <2>1, <2>2
<1>4. ASSUME NEW r \in Runs, Launching(r)
      PROVE  ServeTypeOK'
  BY <1>4, LaunchTypes DEF Launching, ServeTypeOK
<1>5. ASSUME NEW r \in Runs, Undo(r) \/ EndAdmission(r)
      PROVE  ServeTypeOK'
  <2>1. CASE Undo(r)
    BY <2>1, <1>a DEF Undo, Teardown, Goto, ServeTypeOK, Steps, ExecutorTypeOK
  <2>2. CASE EndAdmission(r)
    <3>1. pc' \in [Runs -> Steps]
      BY <2>2 DEF EndAdmission, Goto, ServeTypeOK, Steps
    <3>2. lock' \in [Cards -> Runs \cup {NoRun}]
      BY <2>2, <1>a DEF EndAdmission, Unlock, ServeTypeOK
    <3> QED
      BY <2>2, <3>1, <3>2 DEF EndAdmission, ServeTypeOK, ExecutorTypeOK
  <2> QED
    BY <1>5, <2>1, <2>2
<1>6. ASSUME NEW r \in Runs, RevokeStopped(r) \/ StoppedKilled(r)
      PROVE  ServeTypeOK'
  <2>1. CASE RevokeStopped(r)
    BY <2>1, <1>a, ServeAssumption DEF RevokeStopped, Teardown, Goto,
                    ServeTypeOK, Steps, ExecutorTypeOK
  <2>2. CASE StoppedKilled(r)
    BY <2>2, <1>a DEF StoppedKilled, Unlock, Goto, ServeTypeOK, Steps, ExecutorTypeOK
  <2> QED
    BY <1>6, <2>1, <2>2
<1>7. ASSUME NEW r \in Runs, Report(r)
      PROVE  ServeTypeOK'
  BY <1>7 DEF Report, Tell, Goto, ServeTypeOK, Steps, ExecutorTypeOK
<1>8. ASSUME NEW r \in Runs, LaunchTimeout(r)
      PROVE  ServeTypeOK'
  BY <1>8 DEF LaunchTimeout, EndContext, ServeTypeOK, ExecutorTypeOK
<1>9. ASSUME NEW r \in Runs, ExitCleanup(r) \/ ExitReport(r)
      PROVE  ServeTypeOK'
  <2>1. CASE ExitCleanup(r)
    <3>1. UNCHANGED exvars /\ ExecutorTypeOK'
      BY <2>1 DEF ExitCleanup, ServeTypeOK, ExecutorTypeOK, exvars, daemon, tracker,
                  launch, superv, kills
    <3>2. /\ token' \in SUBSET Runs /\ session' \in SUBSET Runs
          /\ handles' \in SUBSET Runs
          /\ env' \in [Cards -> Runs \cup {NoRun}]
      BY <2>1, <1>a DEF ExitCleanup, Teardown, ServeTypeOK
    <3>3. UNCHANGED <<pc, lock, admissions, stopped, told, stopvars>>
      BY <2>1 DEF ExitCleanup
    <3> QED
      BY <3>1, <3>2, <3>3 DEF ServeTypeOK, stopvars
  <2>2. CASE ExitReport(r)
    <3>1. ExecutorTypeOK'
      BY <2>2 DEF ExitReport, ExitReturns, SuperviseStep, ServeTypeOK, ExecutorTypeOK
    <3>2. told' \in [Runs -> SUBSET {"running", "completed", "failed"}]
      BY <2>2 DEF ExitReport, Tell, ExitStatus, ServeTypeOK
    <3>3. UNCHANGED <<pc, lock, admissions, stopped, creds, stopvars>>
      BY <2>2 DEF ExitReport
    <3> QED
      BY <3>1, <3>2, <3>3 DEF ServeTypeOK, creds, stopvars
  <2> QED
    BY <1>9, <2>1, <2>2
<1>10. ASSUME NEW r \in Runs,
              (ContainerExits(r) \/ Supervise(r) \/ Output(r) \/ Watchdog(r)) /\ UNCHANGED svars
       PROVE  ServeTypeOK'
  BY <1>10, SuperviseTypes DEF ServeTypeOK
<1>11. ASSUME NEW c \in Cards, Quiet(c) /\ UNCHANGED svars
       PROVE  ServeTypeOK'
  BY <1>11 DEF Quiet, ServeTypeOK, ExecutorTypeOK
<1>12. ASSUME NEW s \in Stops, StopArrives(s)
       PROVE  ServeTypeOK'
  BY <1>12 DEF StopArrives, EndContext, Tracked, ServeTypeOK, ExecutorTypeOK
<1>13. ASSUME NEW s \in Stops, StopKills(s) \/ StopAnswers(s) \/ StopContextEnds(s)
       PROVE  ServeTypeOK'
  <2>1. CASE StopKills(s)
    BY <2>1 DEF StopKills, ServeTypeOK, ExecutorTypeOK
  <2>2. CASE StopAnswers(s)
    BY <2>2 DEF StopAnswers, ServeTypeOK, ExecutorTypeOK
  <2>3. CASE StopContextEnds(s)
    BY <2>3 DEF StopContextEnds, EndCallers, ServeTypeOK, ExecutorTypeOK
  <2> QED
    BY <1>13, <2>1, <2>2, <2>3
<1>14. ASSUME NEW k \in Callers, Killing(k)
       PROVE  ServeTypeOK'
  BY <1>14, KillTypes DEF Killing, ServeTypeOK
<1>15. CASE UNCHANGED vars
  BY <1>15 DEF vars, ServeTypeOK, ExecutorTypeOK
<1> QED
  BY <1>1, <1>2, <1>3, <1>4, <1>5, <1>6, <1>7, <1>8, <1>9, <1>10, <1>11, <1>12,
     <1>13, <1>14, <1>15 DEF Next, LaunchGoroutine

\* Every variable of Serve keeps to its type: the steps of the handlers, the
\* launch goroutines, the exit callbacks and the executor compose.
THEOREM TypeCorrect == Spec => []ServeTypeOK
<1>1. ServeInit => ServeTypeOK
  BY ExecutorAssumption DEF ServeInit, ExecutorInit, ServeTypeOK, ExecutorTypeOK,
                            Containers, Causes, Steps
<1> QED
  BY <1>1, ServeTypes, PTL DEF Spec

-----------------------------------------------------------------------------
(* The inductive invariant.  OwnCredentials is not inductive by itself: that *)
(* nobody else touches a run's credentials rests on the launch lock and on   *)
(* the tracker's slot, and on which of the two protects the run at each      *)
(* step.                                                                     *)

\* A launch goroutine holds its card's lock from admission to endAdmission.
LockInv ==
    \A r \in Runs :
        pc[r] \in {"provision", "launch", "end", "revoke", "kill"}
            <=> lock[CardOf[r]] = r

\* The launch goroutine, Launch and the supervisor are steps of one run.
StepInv ==
    \A r \in Runs :
        /\ lpc[r] \in {"create", "add", "start"} => pc[r] = "launch"
        /\ pc[r] \in {"new", "resolve", "queued", "refused", "provision"} => lpc[r] = "idle"
        /\ pc[r] = "launch" => lpc[r] # "idle"
        /\ pc[r] = "end" => lpc[r] # "up"
        /\ pc[r] \in {"revoke", "kill"} => r \in stopped
        /\ spc[r] # "off" => lpc[r] = "up"

Supervised(r) == spc[r] \in {"wait", "remove", "untrack"}

\* A run holds its card's slot from AddIfUnderLimit until its supervisor or a
\* failed start gives it back, and a launch under way finds the slot free.
SlotInv ==
    /\ \A c \in Cards : tracked[c] # NoRun => CardOf[tracked[c]] = c
    /\ \A r \in Runs :
          /\ r \in Tracked <=> lpc[r] = "start" \/ Supervised(r)
          /\ pc[r] = "provision" \/ lpc[r] \in {"create", "add"} => tracked[CardOf[r]] = NoRun

\* A run on its way up, or running and not stopped.
Working(r) ==
    \/ pc[r] = "launch" /\ lpc[r] # "up"
    \/ Supervised(r) /\ r \notin stopped

\* The token is issued before the provision.
TokenInv == \A r \in Runs : pc[r] = "provision" => r \in token

CredInv ==
    /\ \A x, y \in handles : CardOf[x] = CardOf[y] => x = y
    /\ \A r \in Runs : Working(r) =>
          r \in handles \cap token \cap session /\ env[CardOf[r]] = r

\* A container exists only past its create, and runs only while supervised.
CtrInv ==
    \A r \in Runs :
        /\ lpc[r] \in {"idle", "create"} => ctr[r] = "none"
        /\ lpc[r] \in {"add", "start"} => ctr[r] \in {"created", "removed"}
        /\ ctr[r] = "running" /\ r \notin stray => spc[r] \in {"wait", "remove"}

IInv == ServeTypeOK /\ LockInv /\ StepInv /\ SlotInv /\ TokenInv /\ CredInv /\ CtrInv

\* The steps of Next outside the launch goroutine leave it alone.
Elsewhere ==
    \/ \E r \in Runs : LaunchTimeout(r) \/ ExitCleanup(r) \/ ExitReport(r)
    \/ \E r \in Runs : (ContainerExits(r) \/ Supervise(r) \/ Output(r) \/ Watchdog(r)) /\ UNCHANGED svars
    \/ \E c \in Cards : Quiet(c) /\ UNCHANGED svars
    \/ \E s \in Stops : StopArrives(s) \/ StopKills(s) \/ StopAnswers(s) \/ StopContextEnds(s)
    \/ \E k \in Callers : Killing(k)
    \/ UNCHANGED vars

LEMMA ElsewhereUnchanged ==
    ASSUME Elsewhere
    PROVE  UNCHANGED <<pc, lock, lpc>>
<1>1. ASSUME NEW r \in Runs, LaunchTimeout(r) \/ ExitCleanup(r) \/ ExitReport(r)
      PROVE  UNCHANGED <<pc, lock, lpc>>
  BY <1>1 DEF LaunchTimeout, ExitCleanup, ExitReport
<1>2. ASSUME NEW r \in Runs,
             (ContainerExits(r) \/ Supervise(r) \/ Output(r) \/ Watchdog(r)) /\ UNCHANGED svars
      PROVE  UNCHANGED <<pc, lock, lpc>>
  BY <1>2 DEF ContainerExits, Supervise, Observe, GiveUp, ForceRemove, Untrack, Output,
              Watchdog, WatchdogFires, WatchdogRecords, WatchdogKills, WatchdogStops
<1>3. ASSUME NEW c \in Cards, Quiet(c) /\ UNCHANGED svars
      PROVE  UNCHANGED <<pc, lock, lpc>>
  BY <1>3 DEF Quiet
<1>4. ASSUME NEW s \in Stops,
             StopArrives(s) \/ StopKills(s) \/ StopAnswers(s) \/ StopContextEnds(s)
      PROVE  UNCHANGED <<pc, lock, lpc>>
  BY <1>4 DEF StopArrives, StopKills, StopAnswers, StopContextEnds
<1>5. ASSUME NEW k \in Callers, Killing(k)
      PROVE  UNCHANGED <<pc, lock, lpc>>
  BY <1>5 DEF Killing, Kill, KillGet, KillSelfExit, KillGraceOver, KillSend
<1>6. CASE UNCHANGED vars
  BY <1>6 DEF vars
<1> QED
  BY <1>1, <1>2, <1>3, <1>4, <1>5, <1>6 DEF Elsewhere

LEMMA NextCases ==
    ASSUME [Next]_vars
    PROVE  \/ Elsewhere
           \/ \E r \in Runs : TriggerArrives(r) \/ TriggerAccepted(r) \/ LaunchGoroutine(r)
  BY DEF Next, Elsewhere

\* The launch lock is held by one goroutine at a time.
LEMMA LockStep == IInv /\ [Next]_vars => LockInv'
<1> SUFFICES ASSUME IInv, [Next]_vars
             PROVE  LockInv'
  OBVIOUS
<1> USE RunHasCard DEF IInv, LockInv, ServeTypeOK
<1>1. CASE Elsewhere
  BY <1>1, ElsewhereUnchanged
<1>2. ASSUME NEW r \in Runs, TriggerArrives(r) \/ TriggerAccepted(r)
      PROVE  LockInv'
  BY <1>2 DEF TriggerArrives, TriggerAccepted, Goto
<1>3. ASSUME NEW r \in Runs, Admit(r) \/ AdmitRefused(r)
      PROVE  LockInv'
  BY <1>3 DEF Admit, AdmitRefused, Goto
<1>4. ASSUME NEW r \in Runs, Provision(r) \/ ProvisionFails(r) \/ Launching(r) \/ Undo(r)
      PROVE  LockInv'
  BY <1>4 DEF Provision, ProvisionFails, Launching, Undo, Goto
<1>5. ASSUME NEW r \in Runs, EndAdmission(r)
      PROVE  LockInv'
  BY <1>5 DEF EndAdmission, Unlock, Goto
<1>6. ASSUME NEW r \in Runs, RevokeStopped(r) \/ StoppedKilled(r) \/ Report(r)
      PROVE  LockInv'
  BY <1>6 DEF RevokeStopped, StoppedKilled, Report, Unlock, Goto
<1> QED
  BY <1>1, <1>2, <1>3, <1>4, <1>5, <1>6, NextCases DEF LaunchGoroutine

\* The supervisor goes on by itself; nothing else in Elsewhere starts one.
LEMMA ElsewhereSupervises ==
    ASSUME ServeTypeOK, Elsewhere
    PROVE  /\ \A r \in Runs : spc'[r] # "off" => spc[r] # "off"
           /\ stopped \subseteq stopped'
<1> USE DEF ServeTypeOK, ExecutorTypeOK
<1>1. ASSUME NEW x \in Runs, LaunchTimeout(x) \/ ExitCleanup(x) \/ ExitReport(x)
      PROVE  (\A r \in Runs : spc'[r] # "off" => spc[r] # "off") /\ stopped' = stopped
  BY <1>1 DEF LaunchTimeout, ExitCleanup, ExitReport, ExitReturns, SuperviseStep
<1>2. ASSUME NEW x \in Runs, ContainerExits(x) \/ Output(x) \/ Watchdog(x), UNCHANGED svars
      PROVE  spc' = spc /\ stopped' = stopped
  BY <1>2 DEF ContainerExits, Output, Watchdog, WatchdogFires, WatchdogRecords,
              WatchdogKills, WatchdogStops
<1>3. ASSUME NEW x \in Runs, Supervise(x), UNCHANGED svars
      PROVE  (\A r \in Runs : spc'[r] # "off" => spc[r] # "off") /\ stopped' = stopped
  BY <1>3 DEF Supervise, Observe, GiveUp, ForceRemove, Untrack, SuperviseStep
<1>4. ASSUME NEW c \in Cards, Quiet(c), UNCHANGED svars
      PROVE  spc' = spc /\ stopped' = stopped
  BY <1>4 DEF Quiet
<1>5. ASSUME NEW s \in Stops,
             StopArrives(s) \/ StopKills(s) \/ StopAnswers(s) \/ StopContextEnds(s)
      PROVE  spc' = spc /\ stopped \subseteq stopped'
  BY <1>5 DEF StopArrives, StopKills, StopAnswers, StopContextEnds
<1>6. ASSUME NEW k \in Callers, Killing(k)
      PROVE  spc' = spc /\ stopped' = stopped
  BY <1>6 DEF Killing, Kill, KillGet, KillSelfExit, KillGraceOver, KillSend
<1>7. CASE UNCHANGED vars
  BY <1>7 DEF vars
<1> QED
  BY <1>1, <1>2, <1>3, <1>4, <1>5, <1>6, <1>7 DEF Elsewhere

\* The goroutines of one run follow each other.
LEMMA StepStep == IInv /\ [Next]_vars => StepInv'
<1> SUFFICES ASSUME IInv, [Next]_vars
             PROVE  StepInv'
  OBVIOUS
<1> USE DEF IInv, StepInv, ServeTypeOK
<1>1. CASE Elsewhere
  BY <1>1, ElsewhereUnchanged, ElsewhereSupervises
<1>2. ASSUME NEW r \in Runs, TriggerArrives(r) \/ TriggerAccepted(r)
      PROVE  StepInv'
  BY <1>2 DEF TriggerArrives, TriggerAccepted, Goto
<1>3. ASSUME NEW r \in Runs, Admit(r) \/ AdmitRefused(r)
      PROVE  StepInv'
  BY <1>3 DEF Admit, AdmitRefused, Goto
<1>4. ASSUME NEW r \in Runs, Provision(r) \/ ProvisionFails(r)
      PROVE  StepInv'
  BY <1>4 DEF Provision, ProvisionFails, BeginLaunch, Goto, ExecutorTypeOK
<1>5. ASSUME NEW r \in Runs, Launching(r)
      PROVE  StepInv'
  <2>1. UNCHANGED <<pc, stopped>>
    BY <1>5 DEF Launching
  <2> QED
    BY <1>5, <2>1, LaunchMoves DEF Launching
<1>6. ASSUME NEW r \in Runs, Undo(r) \/ EndAdmission(r)
      PROVE  StepInv'
  BY <1>6 DEF Undo, EndAdmission, Goto
<1>7. ASSUME NEW r \in Runs, RevokeStopped(r) \/ StoppedKilled(r) \/ Report(r)
      PROVE  StepInv'
  BY <1>7 DEF RevokeStopped, StoppedKilled, Report, Goto
<1> QED
  BY <1>1, <1>2, <1>3, <1>4, <1>5, <1>6, <1>7, NextCases DEF LaunchGoroutine

\* Outside the launch goroutine only the supervisor's Untrack gives up a slot.
LEMMA ElsewhereSlots ==
    ASSUME ServeTypeOK, Elsewhere
    PROVE  \/ \E r \in Runs : Untrack(r) /\ UNCHANGED svars
           \/ /\ tracked' = tracked
              /\ \A r \in Runs : Supervised(r)' <=> Supervised(r)
<1> USE DEF ServeTypeOK, ExecutorTypeOK, Supervised
<1>1. ASSUME NEW x \in Runs, LaunchTimeout(x) \/ ExitCleanup(x) \/ ExitReport(x)
      PROVE  tracked' = tracked /\ \A r \in Runs : Supervised(r)' <=> Supervised(r)
  BY <1>1 DEF LaunchTimeout, ExitCleanup, ExitReport, ExitReturns, SuperviseStep
<1>2. ASSUME NEW x \in Runs, ContainerExits(x) \/ Output(x) \/ Watchdog(x), UNCHANGED svars
      PROVE  tracked' = tracked /\ spc' = spc
  BY <1>2 DEF ContainerExits, Output, Watchdog, WatchdogFires, WatchdogRecords,
              WatchdogKills, WatchdogStops, SetReason
<1>3. ASSUME NEW x \in Runs, Observe(x) \/ GiveUp(x) \/ ForceRemove(x), UNCHANGED svars
      PROVE  tracked' = tracked /\ \A r \in Runs : Supervised(r)' <=> Supervised(r)
  BY <1>3 DEF Observe, GiveUp, ForceRemove, SuperviseStep
<1>4. ASSUME NEW c \in Cards, Quiet(c), UNCHANGED svars
      PROVE  tracked' = tracked /\ spc' = spc
  BY <1>4 DEF Quiet
<1>5. ASSUME NEW s \in Stops,
             StopArrives(s) \/ StopKills(s) \/ StopAnswers(s) \/ StopContextEnds(s)
      PROVE  tracked' = tracked /\ spc' = spc
  BY <1>5 DEF StopArrives, StopKills, StopAnswers, StopContextEnds
<1>6. ASSUME NEW k \in Callers, Killing(k)
      PROVE  tracked' = tracked /\ spc' = spc
  BY <1>6 DEF Killing, Kill, KillGet, KillSelfExit, KillGraceOver, KillSend, SetReason
<1>7. CASE UNCHANGED vars
  BY <1>7 DEF vars
<1> QED
  BY <1>1, <1>2, <1>3, <1>4, <1>5, <1>6, <1>7 DEF Elsewhere, Supervise

\* A launch that has the lock has the slot to itself.
LEMMA SlotStep == IInv /\ [Next]_vars => SlotInv'
<1> SUFFICES ASSUME IInv, [Next]_vars
             PROVE  SlotInv'
  OBVIOUS
<1> USE RunHasCard DEF IInv, SlotInv, ServeTypeOK, ExecutorTypeOK, Tracked, Supervised
<1>1. CASE Elsewhere
  <2>1. UNCHANGED <<pc, lock, lpc>>
    BY <1>1, ElsewhereUnchanged
  <2>2. CASE \E r \in Runs : Untrack(r) /\ UNCHANGED svars
    BY <2>1, <2>2 DEF Untrack, TrackerRemove, SuperviseStep, StepInv
  <2>3. CASE /\ tracked' = tracked
             /\ \A r \in Runs : Supervised(r)' <=> Supervised(r)
    BY <2>1, <2>3
  <2> QED
    BY <1>1, <2>2, <2>3, ElsewhereSlots
<1>2. ASSUME NEW r \in Runs, TriggerArrives(r) \/ TriggerAccepted(r)
      PROVE  SlotInv'
  BY <1>2 DEF TriggerArrives, TriggerAccepted, Goto
<1>3. ASSUME NEW r \in Runs, Admit(r) \/ AdmitRefused(r)
      PROVE  SlotInv'
  BY <1>3 DEF Admit, AdmitRefused, Goto
<1>4. ASSUME NEW r \in Runs, Provision(r) \/ ProvisionFails(r)
      PROVE  SlotInv'
  BY <1>4 DEF Provision, ProvisionFails, BeginLaunch, Goto, StepInv
<1>5. ASSUME NEW r \in Runs, Create(r) \/ CreateRefused(r) \/ CreateCutShort(r) \/ AddRefused(r),
             UNCHANGED svars
      PROVE  SlotInv'
  BY <1>5 DEF Create, CreateRefused, CreateCutShort, AddRefused, LaunchStep
<1>6. ASSUME NEW r \in Runs, Add(r), UNCHANGED svars
      PROVE  SlotInv'
  <2>1. \A x \in Runs : x # r /\ CardOf[x] = CardOf[r] =>
            pc[x] # "provision" /\ lpc[x] \notin {"create", "add"}
    BY <1>6 DEF Add, LockInv, StepInv
  <2> QED
    BY <1>6, <2>1 DEF Add, LaunchStep, HasRoom, StepInv
<1>7. ASSUME NEW r \in Runs, Start(r), UNCHANGED svars
      PROVE  SlotInv'
  BY <1>7 DEF Start, LaunchStep, StepInv
<1>8. ASSUME NEW r \in Runs, StartRefused(r), UNCHANGED svars
      PROVE  SlotInv'
  BY <1>8 DEF StartRefused, LaunchStep, TrackerRemove, StepInv
<1>9. ASSUME NEW r \in Runs, Undo(r) \/ EndAdmission(r)
      PROVE  SlotInv'
  BY <1>9 DEF Undo, EndAdmission, Goto
<1>10. ASSUME NEW r \in Runs, RevokeStopped(r) \/ StoppedKilled(r) \/ Report(r)
       PROVE  SlotInv'
  BY <1>10 DEF RevokeStopped, StoppedKilled, Report, Goto
<1> QED
  BY <1>1, <1>2, <1>3, <1>4, <1>5, <1>6, <1>7, <1>8, <1>9, <1>10, NextCases
     DEF LaunchGoroutine, Launching, Launch

\* A container runs under its supervisor: every way out of the supervision has
\* ended or removed the container, or left it to the daemon as a stray.
LEMMA CtrStep == IInv /\ [Next]_vars => CtrInv'
<1> SUFFICES ASSUME IInv, [Next]_vars
             PROVE  CtrInv'
  OBVIOUS
<1> USE DEF IInv, CtrInv, ServeTypeOK, ExecutorTypeOK
<1>1. ASSUME NEW r \in Runs,
             \/ TriggerArrives(r) \/ TriggerAccepted(r)
             \/ Admit(r) \/ AdmitRefused(r) \/ ProvisionFails(r)
             \/ Undo(r) \/ EndAdmission(r) \/ RevokeStopped(r) \/ StoppedKilled(r) \/ Report(r)
             \/ LaunchTimeout(r) \/ ExitCleanup(r)
      PROVE  CtrInv'
  BY <1>1 DEF TriggerArrives, TriggerAccepted, Admit, AdmitRefused, ProvisionFails,
              Undo, EndAdmission, RevokeStopped, StoppedKilled, Report, LaunchTimeout, ExitCleanup
<1>2. ASSUME NEW r \in Runs, Provision(r)
      PROVE  CtrInv'
  BY <1>2 DEF Provision, BeginLaunch
<1>3. ASSUME NEW r \in Runs, Create(r) \/ CreateRefused(r) \/ Add(r)
      PROVE  CtrInv'
  BY <1>3 DEF Create, CreateRefused, Add, LaunchStep
<1>4. ASSUME NEW r \in Runs, CreateCutShort(r)
      PROVE  CtrInv'
  BY <1>4 DEF CreateCutShort, LaunchStep, Removing, Holding, Present
<1>5. ASSUME NEW r \in Runs, AddRefused(r) \/ StartRefused(r)
      PROVE  CtrInv'
  BY <1>5 DEF AddRefused, StartRefused, LaunchStep, RemoveContainer, Removing
<1>6. ASSUME NEW r \in Runs, Start(r)
      PROVE  CtrInv'
  BY <1>6 DEF Start, LaunchStep
<1>7. ASSUME NEW r \in Runs, ExitReport(r)
      PROVE  CtrInv'
  BY <1>7 DEF ExitReport, ExitReturns, SuperviseStep
<1>8. ASSUME NEW r \in Runs, ContainerExits(r) \/ Output(r) \/ Observe(r) \/ GiveUp(r)
      PROVE  CtrInv'
  BY <1>8 DEF ContainerExits, Output, Observe, GiveUp, Killed, SuperviseStep
<1>9. ASSUME NEW r \in Runs, ForceRemove(r) \/ Untrack(r)
      PROVE  CtrInv'
  BY <1>9 DEF ForceRemove, Untrack, RemoveContainer, Removing, SuperviseStep, StepInv
<1>10. ASSUME NEW r \in Runs, Watchdog(r)
       PROVE  CtrInv'
  BY <1>10 DEF Watchdog, WatchdogFires, WatchdogRecords, WatchdogKills, WatchdogStops, Killed
<1>11. ASSUME NEW c \in Cards, Quiet(c)
       PROVE  CtrInv'
  BY <1>11 DEF Quiet
<1>12. ASSUME NEW s \in Stops,
              StopArrives(s) \/ StopKills(s) \/ StopAnswers(s) \/ StopContextEnds(s)
       PROVE  CtrInv'
  BY <1>12 DEF StopArrives, StopKills, StopAnswers, StopContextEnds
<1>13. ASSUME NEW k \in Callers, Killing(k)
       PROVE  CtrInv'
  BY <1>13 DEF Killing, Kill, KillGet, KillSelfExit, KillGraceOver, KillSend, Killed
<1>14. CASE UNCHANGED vars
  BY <1>14 DEF vars
<1> QED
  BY <1>1, <1>2, <1>3, <1>4, <1>5, <1>6, <1>7, <1>8, <1>9, <1>10, <1>11, <1>12, <1>13, <1>14
     DEF Next, LaunchGoroutine, Launching, Launch, Supervise

\* A provision for r meets no working run of the card: the lock is r's and the
\* slot is free.
LEMMA AloneWithLock ==
    ASSUME IInv, NEW r \in Runs, pc[r] = "provision",
           NEW x \in Runs, Working(x)
    PROVE  CardOf[x] # CardOf[r]
  BY RunHasCard DEF IInv, LockInv, SlotInv, Working, Tracked

\* A teardown for r leaves every other working run its credentials: a card has
\* one handle, and the directory goes with it.
LEMMA TeardownSpares ==
    ASSUME IInv, NEW r \in Runs, Teardown(r), NEW x \in Runs \ {r}, Working(x)
    PROVE  x \in handles' /\ env'[CardOf[x]] = x
  BY RunHasCard DEF IInv, CredInv, Teardown, ServeTypeOK

\* Nobody takes the token of a run about to be provisioned.
LEMMA TokenStep == IInv /\ [Next]_vars => TokenInv'
<1> SUFFICES ASSUME IInv, [Next]_vars
             PROVE  TokenInv'
  OBVIOUS
<1> USE RunHasCard DEF IInv, TokenInv, ServeTypeOK
<1>1. CASE Elsewhere
  <2>1. UNCHANGED pc
    BY <1>1, ElsewhereUnchanged
  <2>2. ASSUME NEW r \in Runs, ExitCleanup(r)
        PROVE  TokenInv'
    BY <2>1, <2>2 DEF ExitCleanup, StepInv
  <2>3. UNCHANGED token \/ \E r \in Runs : ExitCleanup(r)
    BY <1>1 DEF Elsewhere, vars, LaunchTimeout, ExitReport, StopArrives, StopKills,
                StopAnswers, StopContextEnds, Killing
  <2> QED
    BY <2>1, <2>2, <2>3
<1>2. ASSUME NEW r \in Runs,
             \/ TriggerArrives(r) \/ TriggerAccepted(r) \/ Admit(r) \/ AdmitRefused(r)
             \/ EndAdmission(r) \/ StoppedKilled(r) \/ Report(r) \/ Launching(r)
      PROVE  TokenInv'
  BY <1>2 DEF TriggerArrives, TriggerAccepted, Admit, AdmitRefused, EndAdmission,
              StoppedKilled, Report, Launching, Goto
<1>3. ASSUME NEW r \in Runs, Provision(r) \/ ProvisionFails(r)
      PROVE  TokenInv'
  BY <1>3 DEF Provision, ProvisionFails, Displaced, Goto, LockInv
<1>4. ASSUME NEW r \in Runs, Undo(r) \/ RevokeStopped(r)
      PROVE  TokenInv'
  BY <1>4 DEF Undo, RevokeStopped, Goto
<1> QED
  BY <1>1, <1>2, <1>3, <1>4, NextCases DEF LaunchGoroutine

\* Nobody takes a working run's credentials.
LEMMA CredStep == IInv /\ [Next]_vars => CredInv'
<1> SUFFICES ASSUME IInv, [Next]_vars
             PROVE  CredInv'
  OBVIOUS
<1> USE RunHasCard DEF ServeTypeOK, ExecutorTypeOK
<1>a. ServeTypeOK /\ StepInv /\ CredInv
  BY DEF IInv
<1>1. CASE Elsewhere
  <2>1. UNCHANGED <<pc, lock, lpc>> /\ stopped \subseteq stopped'
    BY <1>1, <1>a, ElsewhereUnchanged, ElsewhereSupervises
  <2>2. \A x \in Runs : Supervised(x)' => Supervised(x)
    BY <1>1, <1>a, ElsewhereSlots DEF Untrack, SuperviseStep, Supervised
  <2>3. \A x \in Runs : Working(x)' => Working(x)
    BY <2>1, <2>2 DEF Working
  <2>4. ASSUME NEW r \in Runs, ExitCleanup(r)
        PROVE  CredInv'
    <3>1. ~Working(r)
      BY <2>4, <1>a DEF ExitCleanup, StepInv, Working, Supervised
    <3>2. \A x \in handles' : x \in handles
      BY <2>4 DEF ExitCleanup, Teardown
    <3> QED
      BY <2>3, <2>4, <3>1, <3>2, <1>a, TeardownSpares DEF ExitCleanup, CredInv
  <2>5. CASE UNCHANGED creds
    BY <2>3, <2>5, <1>a DEF CredInv
  <2>6. \/ UNCHANGED creds
        \/ \E r \in Runs : ExitCleanup(r)
    BY <1>1 DEF Elsewhere, vars, LaunchTimeout, ExitReport, StopArrives, StopKills,
                StopAnswers, StopContextEnds, Killing
  <2> QED
    BY <2>4, <2>5, <2>6
<1>2. ASSUME NEW r \in Runs,
             \/ TriggerArrives(r) \/ TriggerAccepted(r) \/ Admit(r) \/ AdmitRefused(r)
             \/ EndAdmission(r) \/ StoppedKilled(r) \/ Report(r)
      PROVE  CredInv'
  <2>1. \A x \in Runs : Working(x)' => Working(x)
    BY <1>2, <1>a DEF TriggerArrives, TriggerAccepted, Admit, AdmitRefused, EndAdmission,
                 StoppedKilled, Report, Goto, Working, Supervised
  <2>2. UNCHANGED <<handles, session, env>> /\ token \subseteq token'
    BY <1>2 DEF TriggerArrives, TriggerAccepted, Admit, AdmitRefused, EndAdmission,
                 StoppedKilled, Report
  <2> QED
    BY <2>1, <2>2, <1>a DEF CredInv
<1>3. ASSUME NEW r \in Runs, Provision(r)
      PROVE  CredInv'
  <2>1. \A x \in Runs \ {r} : Working(x)' => Working(x)
    BY <1>3, <1>a DEF Provision, BeginLaunch, Goto, Working, Supervised
  <2>2. \A x \in Runs \ {r} : Working(x) => CardOf[x] # CardOf[r]
    BY <1>3, AloneWithLock DEF Provision
  <2>3. \A x \in Runs \ {r} : Working(x)' =>
            x \in handles' \cap token' \cap session' /\ env'[CardOf[x]] = x
    BY <1>3, <2>1, <2>2, <1>a DEF Provision, Displaced, CredInv
  <2>4. r \in handles' \cap token' \cap session' /\ env'[CardOf[r]] = r
    <3>1. r \in token
      BY <1>3 DEF Provision, IInv, TokenInv
    <3> QED
      BY <1>3, <1>a, <3>1 DEF Provision
  <2>5. \A x, y \in handles' : CardOf[x] = CardOf[y] => x = y
    BY <1>3, <1>a DEF Provision, Displaced, CredInv
  <2> QED
    BY <2>3, <2>4, <2>5 DEF CredInv
<1>4. ASSUME NEW r \in Runs, ProvisionFails(r)
      PROVE  CredInv'
  <2>1. \A x \in Runs : Working(x)' => Working(x) /\ x # r
    BY <1>4, <1>a DEF ProvisionFails, Goto, Working, Supervised, StepInv
  <2>2. \A x \in Runs : Working(x) => CardOf[x] # CardOf[r]
    BY <1>4, AloneWithLock DEF ProvisionFails
  <2> QED
    BY <1>4, <2>1, <2>2, <1>a DEF ProvisionFails, Displaced, CredInv
<1>5. ASSUME NEW r \in Runs, Launching(r)
      PROVE  CredInv'
  <2>1. \A x \in Runs : Working(x)' => Working(x)
    BY <1>5, <1>a, LaunchMoves DEF Launching, Working, Supervised, StepInv
  <2> QED
    BY <1>5, <2>1, <1>a DEF Launching, CredInv
<1>6. ASSUME NEW r \in Runs, Undo(r) \/ RevokeStopped(r)
      PROVE  CredInv'
  <2>1. \A x \in Runs : Working(x)' => Working(x) /\ x # r
    BY <1>6, <1>a DEF Undo, RevokeStopped, Goto, Working, Supervised, StepInv
  <2>2. Teardown(r) /\ token' = token \ {r} /\ session \ {r} \subseteq session'
    BY <1>6 DEF Undo, RevokeStopped
  <2>3. \A x \in handles' : x \in handles
    BY <2>2 DEF Teardown
  <2> QED
    BY <2>1, <2>2, <2>3, <1>a, TeardownSpares DEF CredInv
<1> QED
  BY <1>1, <1>2, <1>3, <1>4, <1>5, <1>6, NextCases DEF LaunchGoroutine

LEMMA InductiveInvariant == Spec => []IInv
<1>1. ServeInit => IInv
  <2>1. ServeInit => ServeTypeOK
    BY ExecutorAssumption DEF ServeInit, ExecutorInit, ServeTypeOK, ExecutorTypeOK,
                              Containers, Causes, Steps
  <2>2. ServeInit => LockInv /\ StepInv /\ SlotInv /\ TokenInv /\ CredInv /\ CtrInv
    BY RunHasCard DEF ServeInit, ExecutorInit, LockInv, StepInv, SlotInv, TokenInv, CredInv, CtrInv,
                      Working, Supervised, Tracked
  <2> QED
    BY <2>1, <2>2 DEF IInv
<1>2. IInv /\ [Next]_vars => IInv'
  BY ServeTypes, LockStep, StepStep, SlotStep, TokenStep, CredStep, CtrStep DEF IInv
<1> QED
  BY <1>1, <1>2, PTL DEF Spec

\* However triggers, kills, failed launches and exits of a card overlap, a
\* container that works has the env file, handle, proxy token and redacted
\* secrets of its own run (admitAndLaunch, Provision, onContainerExit).
THEOREM CredentialsAreOwn == Spec => []OwnCredentials
<1>1. IInv => OwnCredentials
  BY DEF IInv, CredInv, Working, Supervised, OwnCredentials
<1> QED
  BY <1>1, InductiveInvariant, PTL

\* Under the webhook handlers no container runs that the tracker does not
\* count, whatever the daemon refuses (Launch, waitAndCleanup).
THEOREM RunningTracked == Spec => []RunningIsTracked
<1>1. IInv => RunningIsTracked
  BY DEF IInv, CtrInv, SlotInv, Supervised, RunningIsTracked
<1> QED
  BY <1>1, InductiveInvariant, PTL

-----------------------------------------------------------------------------
(* What a run leaves behind. *)

\* What a run has been given: its handle, its proxy token, its session secrets.
Has(r) == r \in handles \cup token \cup session

\* A run is given nothing before it is admitted, and keeps nothing once its
\* launch has failed; one that came up keeps its session secrets until its exit
\* callback, which takes the rest with them, and only then is it reported.
LeftInv ==
    \A r \in Runs :
        /\ pc[r] \in {"new", "resolve", "queued", "refused", "end"} => ~Has(r)
        /\ pc[r] = "provision" => r \notin handles \cup session
        /\ pc[r] \in {"report", "over"} /\ lpc[r] # "up" => ~Has(r)
        /\ pc[r] \in {"revoke", "kill"} => lpc[r] = "up"
        /\ lpc[r] = "up" => spc[r] # "off"
        /\ lpc[r] = "up" /\ r \notin session => ~Has(r)
        /\ Supervised(r) => r \in session
        /\ spc[r] = "done" => r \notin session
        /\ told[r] \cap Terminal # {} => spc[r] = "done" \/ (pc[r] = "over" /\ lpc[r] # "up")

\* What a run has left at each step of its way.
LEMMA LeftStep == IInv /\ LeftInv /\ [Next]_vars => LeftInv'
<1> SUFFICES ASSUME IInv, LeftInv, [Next]_vars
             PROVE  LeftInv'
  OBVIOUS
<1>a. ServeTypeOK /\ StepInv /\ LeftInv
  BY DEF IInv
<1> USE <1>a DEF ServeTypeOK, ExecutorTypeOK, LeftInv, Supervised
<1>b. ASSUME UNCHANGED <<handles, token, session>> PROVE \A r \in Runs : Has(r)' <=> Has(r)
  BY <1>b DEF Has
<1>1. CASE Elsewhere
  <2>1. UNCHANGED <<pc, lock, lpc>>
    BY <1>1, ElsewhereUnchanged
  <2>2. ASSUME NEW r \in Runs, ExitCleanup(r) PROVE LeftInv'
    <3>1. /\ \A x \in Runs \ {r} : /\ x \in session' <=> x \in session
                                   /\ Has(x)' => Has(x)
                                   /\ x \in handles' => x \in handles
          /\ r \notin session' /\ ~Has(r)'
          /\ UNCHANGED <<spc, told>>
      BY <2>2 DEF ExitCleanup, Teardown, Has
    <3> QED
      BY <2>1, <2>2, <3>1 DEF ExitCleanup, StepInv
  <2>3. ASSUME NEW r \in Runs, ExitReport(r) PROVE LeftInv'
    <3>1. /\ \A x \in Runs \ {r} : spc'[x] = spc[x] /\ told'[x] = told[x]
          /\ spc[r] = "exit" /\ spc'[r] = "done" /\ r \notin session
          /\ UNCHANGED <<handles, token, session>>
      BY <2>3 DEF ExitReport, ExitReturns, SuperviseStep, Tell
    <3> QED
      BY <2>1, <3>1, <1>b DEF StepInv
  <2>4. ASSUME UNCHANGED <<handles, token, session, told, spc>> PROVE LeftInv'
    BY <2>1, <2>4, <1>b
  <2>5. ASSUME NEW r \in Runs, Supervise(r), UNCHANGED svars PROVE LeftInv'
    <3>1. /\ \A x \in Runs \ {r} : spc'[x] = spc[x]
          /\ spc[r] \in {"wait", "remove", "untrack"} /\ spc'[r] \in {"remove", "untrack", "exit"}
          /\ UNCHANGED <<handles, token, session, told>>
      BY <2>5 DEF Supervise, Observe, GiveUp, ForceRemove, Untrack, SuperviseStep
    <3> QED
      BY <2>1, <3>1, <1>b
  <2>6. ASSUME NEW r \in Runs, LaunchTimeout(r) PROVE LeftInv'
    BY <2>4, <2>6 DEF LaunchTimeout
  <2>7. ASSUME NEW r \in Runs, ContainerExits(r) \/ Output(r) \/ Watchdog(r), UNCHANGED svars
        PROVE  LeftInv'
    BY <2>4, <2>7 DEF ContainerExits, Output, Watchdog, WatchdogFires, WatchdogRecords,
                      WatchdogKills, WatchdogStops
  <2>8. ASSUME NEW c \in Cards, Quiet(c), UNCHANGED svars PROVE LeftInv'
    BY <2>4, <2>8 DEF Quiet
  <2>9. ASSUME NEW s \in Stops,
               StopArrives(s) \/ StopKills(s) \/ StopAnswers(s) \/ StopContextEnds(s)
        PROVE  LeftInv'
    BY <2>4, <2>9 DEF StopArrives, StopKills, StopAnswers, StopContextEnds
  <2>10. ASSUME NEW k \in Callers, Killing(k) PROVE LeftInv'
    BY <2>4, <2>10 DEF Killing, Kill, KillGet, KillSelfExit, KillGraceOver, KillSend
  <2>11. CASE UNCHANGED vars
    BY <2>4, <2>11 DEF vars
  <2> QED
    BY <1>1, <2>2, <2>3, <2>5, <2>6, <2>7, <2>8, <2>9, <2>10, <2>11 DEF Elsewhere
<1>2. ASSUME NEW r \in Runs, TriggerArrives(r) \/ TriggerAccepted(r) \/ AdmitRefused(r)
      PROVE  LeftInv'
  <2>1. /\ \A x \in Runs \ {r} : pc'[x] = pc[x]
        /\ pc[r] \in {"new", "resolve", "queued"} /\ pc'[r] \in {"refused", "resolve", "queued", "end"}
        /\ UNCHANGED <<lpc, spc, handles, token, session, told>>
    BY <1>2 DEF TriggerArrives, TriggerAccepted, AdmitRefused, Goto
  <2> QED
    BY <2>1, <1>b DEF StepInv
<1>3. ASSUME NEW r \in Runs, Admit(r) PROVE LeftInv'
  <2>1. /\ \A x \in Runs \ {r} : pc'[x] = pc[x] /\ (Has(x)' <=> Has(x))
        /\ pc[r] = "queued" /\ pc'[r] = "provision"
        /\ UNCHANGED <<lpc, spc, handles, session, told>>
    BY <1>3 DEF Admit, Goto, Has
  <2> QED
    BY <2>1 DEF StepInv, Has
<1>4. ASSUME NEW r \in Runs, Provision(r) PROVE LeftInv'
  <2>1. /\ \A x \in Runs \ {r} : /\ pc'[x] = pc[x] /\ lpc'[x] = lpc[x]
                                 /\ Has(x)' => Has(x)
                                 /\ x \in session' <=> x \in session
                                 /\ x \in handles' => x \in handles
        /\ pc[r] = "provision" /\ pc'[r] = "launch" /\ lpc'[r] = "create" /\ lpc[r] = "idle"
        /\ UNCHANGED <<spc, told>> /\ r \in session'
    BY <1>4 DEF Provision, BeginLaunch, Displaced, Goto, Has
  <2> QED
    BY <2>1 DEF StepInv
<1>5. ASSUME NEW r \in Runs, ProvisionFails(r) PROVE LeftInv'
  <2>1. /\ \A x \in Runs \ {r} : pc'[x] = pc[x] /\ (Has(x)' => Has(x)) /\ (x \in handles' => x \in handles)
        /\ pc[r] = "provision" /\ pc'[r] = "end" /\ ~Has(r)'
        /\ UNCHANGED <<lpc, spc, session, told>>
    BY <1>5 DEF ProvisionFails, Displaced, Goto, Has
  <2> QED
    BY <2>1 DEF StepInv
<1>6. ASSUME NEW r \in Runs, Launching(r) PROVE LeftInv'
  <2>1. UNCHANGED <<pc, handles, token, session, told>>
    BY <1>6 DEF Launching
  <2>2. /\ pc[r] = "launch" /\ lpc[r] \in {"create", "add", "start"}
        /\ \A x \in Runs \ {r} : lpc'[x] = lpc[x] /\ spc'[x] = spc[x]
        /\ lpc'[r] \in {"add", "start", "failed"} => spc'[r] = spc[r]
        /\ lpc'[r] = "up" => spc'[r] = "wait"
        /\ lpc'[r] \in {"add", "start", "up", "failed"}
    BY <1>6, LaunchMoves DEF Launching
  <2>3. r \in session
    BY <2>2 DEF IInv, CredInv, Working
  <2> QED
    BY <2>1, <2>2, <2>3, <1>b DEF StepInv
<1>7. ASSUME NEW r \in Runs, Undo(r) PROVE LeftInv'
  <2>1. /\ \A x \in Runs \ {r} : /\ pc'[x] = pc[x] /\ (Has(x)' <=> Has(x))
                                 /\ x \in session' <=> x \in session
                                 /\ x \in handles' => x \in handles
        /\ pc[r] = "launch" /\ lpc[r] = "failed" /\ pc'[r] = "end" /\ ~Has(r)'
        /\ UNCHANGED <<lpc, spc, told>>
    BY <1>7 DEF Undo, Teardown, Goto, Has
  <2> QED
    BY <2>1 DEF StepInv, Has
<1>8. ASSUME NEW r \in Runs, EndAdmission(r) PROVE LeftInv'
  <2>1. /\ \A x \in Runs \ {r} : pc'[x] = pc[x]
        /\ pc[r] = "end" \/ (pc[r] = "launch" /\ lpc[r] = "up")
        /\ \/ pc'[r] = "report"
           \/ pc'[r] = "over" /\ lpc[r] # "up"
           \/ pc'[r] = "revoke" /\ lpc[r] = "up"
        /\ UNCHANGED <<lpc, spc, handles, token, session, told>>
    BY <1>8 DEF EndAdmission, Goto
  <2> QED
    BY <2>1, <1>b DEF StepInv
<1>9. ASSUME NEW r \in Runs, RevokeStopped(r) PROVE LeftInv'
  <2>1. /\ \A x \in Runs \ {r} : /\ pc'[x] = pc[x] /\ (Has(x)' => Has(x))
                                 /\ x \in handles' => x \in handles
        /\ pc[r] = "revoke" /\ pc'[r] = "kill" /\ (r \notin session => ~Has(r)')
        /\ UNCHANGED <<lpc, spc, session, told>>
    BY <1>9 DEF RevokeStopped, Teardown, Goto, Has
  <2> QED
    BY <2>1 DEF StepInv
<1>10. ASSUME NEW r \in Runs, StoppedKilled(r) PROVE LeftInv'
  <2>1. /\ \A x \in Runs \ {r} : pc'[x] = pc[x]
        /\ pc[r] = "kill" /\ pc'[r] = "over"
        /\ UNCHANGED <<lpc, spc, handles, token, session, told>>
    BY <1>10 DEF StoppedKilled, Goto
  <2> QED
    BY <2>1, <1>b DEF StepInv
<1>11. ASSUME NEW r \in Runs, Report(r) PROVE LeftInv'
  <2>1. /\ \A x \in Runs \ {r} : pc'[x] = pc[x] /\ told'[x] = told[x]
        /\ pc[r] = "report" /\ pc'[r] = "over"
        /\ told'[r] \subseteq told[r] \cup {IF lpc[r] = "up" THEN "running" ELSE "failed"}
        /\ UNCHANGED <<lpc, spc, handles, token, session>>
    BY <1>11 DEF Report, Tell, Goto
  <2>2. lpc[r] = "up" => told'[r] \cap Terminal \subseteq told[r] \cap Terminal
    BY <2>1 DEF Terminal
  <2> QED
    BY <2>1, <2>2, <1>b DEF StepInv
<1> QED
  BY <1>1, <1>2, <1>3, <1>4, <1>5, <1>6, <1>7, <1>8, <1>9, <1>10, <1>11, NextCases
     DEF LaunchGoroutine

\* ContextMatrix may trigger a card again once it has the terminal status: by
\* then the run holds neither slot nor credentials (onContainerExit).
THEOREM NothingIsLeft == Spec => []NothingLeft
<1>1. ServeInit => LeftInv
  BY DEF ServeInit, ExecutorInit, LeftInv, Has, Supervised
<1>2. IInv /\ LeftInv => NothingLeft
  <2> SUFFICES ASSUME IInv, LeftInv, NEW r \in Runs,
                      told[r] \cap Terminal # {} \/ spc[r] = "done" \/ (pc[r] = "over" /\ spc[r] = "off")
               PROVE  r \notin Tracked /\ ~Has(r)
    BY DEF NothingLeft, Has
  <2>1. spc[r] = "done" \/ (pc[r] = "over" /\ lpc[r] # "up")
    BY DEF LeftInv
  <2>2. r \notin Tracked
    BY <2>1 DEF IInv, SlotInv, StepInv, Supervised
  <2>3. ~Has(r)
    BY <2>1 DEF LeftInv, IInv, StepInv
  <2> QED
    BY <2>2, <2>3
<1> QED
  BY <1>1, <1>2, LeftStep, InductiveInvariant, PTL DEF Spec

-----------------------------------------------------------------------------
(* What a stop has seen to. *)

\* Past its admission, a run is started no more.
Late == {"revoke", "kill", "report", "over"}

\* A run that will not work again.
Dead(r) == pc[r] \in Late /\ (ctr[r] = "running" => r \in stray)

\* A call of Kill that is about to end the run, gave up on it, or need not.
Ending(k, r) ==
    \/ kpc[k] = "get"
    \/ krun[k] = r /\ kpc[k] \in {"grace", "send"}
    \/ kpc[k] = "error"
    \/ Dead(r)

\* The launch goroutine's own kill failed.
Spared(r) == pc[r] = "over" /\ kpc[r] = "error"

\* The admissions in flight are those the launch goroutine has not ended; a
\* stop marks only those, so a stopped run is not reported running, and is over
\* only after its own kill.
StoppedInv ==
    \A r \in Runs :
        /\ r \in admissions <=> pc[r] \in {"queued", "provision", "launch", "end"}
        /\ "running" \in told[r] => pc[r] = "over"
        /\ r \in stopped =>
              /\ "running" \notin told[r]
              /\ pc[r] = "report" => lpc[r] # "up"
              /\ pc[r] = "over" => Dead(r) \/ Spared(r)
              /\ pc[r] \notin {"new", "resolve", "refused"}
        /\ pc[r] = "kill" => Ending(r, r)

\* A run a stop found has been marked, or was past its admission; once the stop
\* kills, its call for the card ends the run, unless the run needs it no more.
StopInv ==
    \A s \in Stops : \A r \in found[s] :
        /\ xpc[s] # "idle" => CardOf[r] \in Targets(s)
        /\ r \in waiting[s] => r \in stopped
        /\ xpc[s] = "await" => r \in waiting[s] \/ pc[r] \in Late
        /\ xpc[s] = "kill" /\ ~Gone(s) =>
              pc[r] \in Late /\ (Spared(r) \/ Ending(<<s, CardOf[r]>>, r))
        /\ xpc[s] = "ok" /\ ~Gone(s) => Dead(r) \/ Spared(r)

LEMMA LateStays ==
    ASSUME IInv, [Next]_vars, NEW r \in Runs, pc[r] \in Late
    PROVE  pc'[r] \in Late
<1> USE DEF Late, IInv, ServeTypeOK
<1>1. CASE Elsewhere
  BY <1>1, ElsewhereUnchanged
<1>2. ASSUME NEW x \in Runs,
             \/ TriggerArrives(x) \/ TriggerAccepted(x) \/ Admit(x) \/ AdmitRefused(x)
             \/ Provision(x) \/ ProvisionFails(x) \/ Launching(x) \/ Undo(x)
      PROVE  pc'[r] \in Late
  BY <1>2 DEF TriggerArrives, TriggerAccepted, Admit, AdmitRefused, Provision, ProvisionFails,
              Launching, Undo, Goto
<1>3. ASSUME NEW x \in Runs, EndAdmission(x) \/ RevokeStopped(x) \/ StoppedKilled(x) \/ Report(x)
      PROVE  pc'[r] \in Late
  BY <1>3 DEF EndAdmission, RevokeStopped, StoppedKilled, Report, Goto
<1> QED
  BY <1>1, <1>2, <1>3, NextCases DEF LaunchGoroutine

\* Only a start makes a container run, and past its admission a run has had
\* its start; a container that is no stray any more has been removed.
LEMMA DeadStays ==
    ASSUME IInv, [Next]_vars, NEW r \in Runs, Dead(r)
    PROVE  Dead(r)'
<1> DEFINE Down == ctr'[r] = "running" => r \in stray'
<1> SUFFICES Down
  BY LateStays DEF Dead
<1>a. /\ ServeTypeOK /\ (ctr[r] = "running" => r \in stray)
      /\ lpc[r] \notin {"create", "add", "start"}
  BY DEF Dead, Late, IInv, StepInv
<1> USE <1>a DEF ServeTypeOK, ExecutorTypeOK
<1>1. CASE UNCHANGED daemon
  BY <1>1
<1>2. ASSUME NEW x \in Runs, Create(x) \/ Start(x) PROVE Down
  BY <1>2 DEF Create, Start, LaunchStep
<1>3. ASSUME NEW x \in Runs, CreateCutShort(x) PROVE Down
  <2>1. \/ \E R : Removing(R)
        \/ ctr' = [ctr EXCEPT ![x] = "created"] /\ stray' = stray \cup {x}
    BY <1>3 DEF CreateCutShort
  <2>2. ASSUME NEW R, Removing(R) PROVE Down
    BY <2>2 DEF Removing
  <2> QED
    BY <2>1, <2>2
<1>4. ASSUME NEW x \in Runs, AddRefused(x) \/ StartRefused(x) PROVE Down
  BY <1>4 DEF AddRefused, StartRefused, RemoveContainer, Removing
<1>5. ASSUME NEW x \in Runs, ForceRemove(x) PROVE Down
  BY <1>5 DEF ForceRemove, RemoveContainer, Removing
<1>6. ASSUME NEW x \in Runs, ContainerExits(x) \/ GiveUp(x) \/ WatchdogKills(x) PROVE Down
  BY <1>6 DEF ContainerExits, GiveUp, WatchdogKills, Killed
<1>7. ASSUME NEW k \in Callers, Kill(k) PROVE Down
  BY <1>7 DEF Kill, KillGet, KillSelfExit, KillGraceOver, KillSend, Killed
<1>8. ASSUME NEW x \in Runs,
             \/ CreateRefused(x) \/ Add(x) \/ Observe(x) \/ Untrack(x) \/ Output(x)
             \/ WatchdogFires(x) \/ WatchdogRecords(x) \/ WatchdogStops(x)
      PROVE  Down
  BY <1>1, <1>8 DEF CreateRefused, Add, Observe, Untrack, Output, WatchdogFires,
                    WatchdogRecords, WatchdogStops
<1>9. ASSUME NEW x \in Runs,
             \/ TriggerArrives(x) \/ TriggerAccepted(x) \/ Admit(x) \/ AdmitRefused(x)
             \/ Provision(x) \/ ProvisionFails(x) \/ Undo(x) \/ EndAdmission(x)
             \/ RevokeStopped(x) \/ StoppedKilled(x) \/ Report(x) \/ LaunchTimeout(x)
             \/ ExitCleanup(x) \/ ExitReport(x)
      PROVE  Down
  BY <1>1, <1>9 DEF TriggerArrives, TriggerAccepted, Admit, AdmitRefused, Provision,
                    ProvisionFails, Undo, EndAdmission, RevokeStopped, StoppedKilled, Report,
                    LaunchTimeout, ExitCleanup, ExitReport
<1>10. ASSUME NEW s \in Stops,
              StopArrives(s) \/ StopKills(s) \/ StopAnswers(s) \/ StopContextEnds(s)
       PROVE  Down
  BY <1>1, <1>10 DEF StopArrives, StopKills, StopAnswers, StopContextEnds
<1>11. ASSUME NEW c \in Cards, Quiet(c) PROVE Down
  BY <1>1, <1>11 DEF Quiet
<1>12. CASE UNCHANGED vars
  BY <1>1, <1>12 DEF vars
<1> QED
  BY <1>2, <1>3, <1>4, <1>5, <1>6, <1>7, <1>8, <1>9, <1>10, <1>11, <1>12
     DEF Next, LaunchGoroutine, Launching, Launch, Supervise, Watchdog, Killing

\* Past its admission a run works only while it has the slot.
LEMMA OutOfSlot ==
    ASSUME IInv, NEW r \in Runs, pc[r] \in Late, tracked[CardOf[r]] # r
    PROVE  Dead(r)
  BY DEF IInv, CtrInv, SlotInv, Supervised, Tracked, Dead

\* A call of Kill moves by itself, once it was made.
LEMMA CallStep ==
    ASSUME [Next]_vars, ServeTypeOK, NEW k \in Callers
    PROVE  \/ kpc'[k] = kpc[k] /\ krun'[k] = krun[k]
           \/ Kill(k)
           \/ k \in Runs /\ RevokeStopped(k) /\ kpc'[k] = "get"
           \/ kpc'[k] = "get" /\ \E s \in Stops : k \in Calls(s) /\ StopKills(s)
<1> DEFINE Goal == \/ kpc'[k] = kpc[k] /\ krun'[k] = krun[k]
                   \/ Kill(k)
                   \/ k \in Runs /\ RevokeStopped(k) /\ kpc'[k] = "get"
                   \/ kpc'[k] = "get" /\ \E s \in Stops : k \in Calls(s) /\ StopKills(s)
<1> SUFFICES Goal
  OBVIOUS
<1> USE DEF ServeTypeOK, ExecutorTypeOK
<1>1. CASE UNCHANGED <<kpc, krun>>
  BY <1>1
<1>2. ASSUME NEW x \in Runs, RevokeStopped(x) PROVE Goal
  <2>1. x \in Callers
    BY ServeAssumption
  <2>2. krun'[k] = krun[k] /\ kpc'[k] = (IF x = k THEN "get" ELSE kpc[k])
    BY <1>2, <2>1 DEF RevokeStopped
  <2>3. CASE x = k
    <3>1. k \in Runs /\ RevokeStopped(k) /\ kpc'[k] = "get"
      BY <1>2, <2>2, <2>3
    <3> QED
      BY <3>1
  <2>4. CASE x # k
    BY <2>2, <2>4
  <2> QED
    BY <2>3, <2>4
<1>3. ASSUME NEW s \in Stops, StopKills(s) PROVE Goal
  <2>1. krun'[k] = krun[k] /\ (kpc'[k] = kpc[k] \/ (k \in Calls(s) /\ kpc'[k] = "get"))
    BY <1>3 DEF StopKills
  <2> QED
    BY <1>3, <2>1
<1>4. ASSUME NEW l \in Callers, Kill(l) PROVE Goal
  <2>1. l # k => kpc'[k] = kpc[k] /\ krun'[k] = krun[k]
    BY <1>4 DEF Kill, KillGet, KillSelfExit, KillGraceOver, KillSend
  <2> QED
    BY <1>4, <2>1
<1>5. ASSUME NEW x \in Runs,
             \/ TriggerArrives(x) \/ TriggerAccepted(x) \/ Admit(x) \/ AdmitRefused(x)
             \/ Provision(x) \/ ProvisionFails(x) \/ Undo(x) \/ EndAdmission(x)
             \/ StoppedKilled(x) \/ Report(x) \/ LaunchTimeout(x) \/ ExitCleanup(x) \/ ExitReport(x)
      PROVE  Goal
  BY <1>1, <1>5 DEF TriggerArrives, TriggerAccepted, Admit, AdmitRefused, Provision,
                    ProvisionFails, Undo, EndAdmission, StoppedKilled, Report, LaunchTimeout,
                    ExitCleanup, ExitReport
<1>6. ASSUME NEW x \in Runs, Launch(x) \/ ContainerExits(x) \/ Supervise(x) \/ Output(x)
      PROVE  Goal
  BY <1>1, <1>6 DEF Launch, Create, CreateRefused, CreateCutShort, Add, AddRefused, Start,
                    StartRefused, ContainerExits, Supervise, Observe, GiveUp, ForceRemove,
                    Untrack, Output
<1>7. ASSUME NEW x \in Runs, Watchdog(x) PROVE Goal
  BY <1>1, <1>7 DEF Watchdog, WatchdogFires, WatchdogRecords, WatchdogKills, WatchdogStops
<1>8. ASSUME NEW s \in Stops, StopArrives(s) \/ StopAnswers(s) \/ StopContextEnds(s) PROVE Goal
  BY <1>1, <1>8 DEF StopArrives, StopAnswers, StopContextEnds
<1>9. ASSUME NEW c \in Cards, Quiet(c) PROVE Goal
  BY <1>1, <1>9 DEF Quiet
<1>10. CASE UNCHANGED vars
  BY <1>1, <1>10 DEF vars
<1> QED
  BY <1>2, <1>3, <1>4, <1>5, <1>6, <1>7, <1>8, <1>9, <1>10
     DEF Next, LaunchGoroutine, Launching, Killing

LEMMA SparedStays ==
    ASSUME IInv, [Next]_vars, NEW r \in Runs, Spared(r)
    PROVE  Spared(r)'
<1>1. r \in Callers /\ \A s \in Stops : r \notin Calls(s)
  BY ServeAssumption DEF Calls
<1>2. kpc'[r] = "error"
  BY <1>1, CallStep DEF IInv, Spared, RevokeStopped, Kill, KillGet, KillSelfExit, KillGraceOver,
                        KillSend
<1>3. pc'[r] = "over"
  <2> USE DEF IInv, ServeTypeOK, Spared
  <2>1. CASE Elsewhere
    BY <2>1, ElsewhereUnchanged
  <2>2. ASSUME NEW x \in Runs,
               \/ TriggerArrives(x) \/ TriggerAccepted(x) \/ Admit(x) \/ AdmitRefused(x)
               \/ Provision(x) \/ ProvisionFails(x) \/ Launching(x) \/ Undo(x)
        PROVE  pc'[r] = "over"
    BY <2>2 DEF TriggerArrives, TriggerAccepted, Admit, AdmitRefused, Provision, ProvisionFails,
                Launching, Undo, Goto
  <2>3. ASSUME NEW x \in Runs, EndAdmission(x) \/ RevokeStopped(x) \/ StoppedKilled(x) \/ Report(x)
        PROVE  pc'[r] = "over"
    BY <2>3 DEF EndAdmission, RevokeStopped, StoppedKilled, Report, Goto
  <2> QED
    BY <2>1, <2>2, <2>3, NextCases DEF LaunchGoroutine
<1> QED
  BY <1>2, <1>3 DEF Spared

\* A call of Kill for the run's card comes to the run while it has the slot, and
\* answers only when the run is dead or the daemon failed it.
LEMMA EndingStays ==
    ASSUME IInv, [Next]_vars, NEW r \in Runs, NEW k \in Callers, CallerCard[k] = CardOf[r],
           pc[r] \in Late, Ending(k, r)
    PROVE  Ending(k, r)'
<1> USE DEF Ending
<1>1. CASE Dead(r)
  BY <1>1, DeadStays
<1>2. CASE kpc'[k] = "get"
  BY <1>2
<1>3. CASE ~Dead(r) /\ kpc'[k] = kpc[k] /\ krun'[k] = krun[k]
  BY <1>3
<1>4. CASE ~Dead(r) /\ Kill(k)
  <2> USE DEF IInv, ServeTypeOK, ExecutorTypeOK
  <2>1. CASE KillGet(k)
    BY <1>4, <2>1, OutOfSlot, RunHasCard DEF KillGet
  <2>2. ~KillSelfExit(k)
    BY <1>4 DEF KillSelfExit, Dead
  <2>3. CASE KillGraceOver(k)
    BY <1>4, <2>3 DEF KillGraceOver
  <2>4. CASE KillSend(k)
    <3>1. krun[k] = r
      BY <1>4, <2>4 DEF KillSend
    <3>2. kpc'[k] = "error" \/ Killed(r)
      BY <2>4, <3>1 DEF KillSend
    <3>3. CASE Killed(r)
      BY <3>3, LateStays DEF Killed, Dead
    <3> QED
      BY <3>2, <3>3
  <2> QED
    BY <1>4, <2>1, <2>2, <2>3, <2>4 DEF Kill
<1> QED
  BY <1>1, <1>2, <1>3, <1>4, CallStep DEF IInv

\* A launch that did not come up has nothing running.
LEMMA NeverUp ==
    ASSUME IInv, NEW r \in Runs, lpc[r] # "up"
    PROVE  ctr[r] = "running" => r \in stray
  BY DEF IInv, CtrInv, StepInv

\* What a stop has marked.
LEMMA StoppedStep == IInv /\ StoppedInv /\ [Next]_vars => StoppedInv'
<1> SUFFICES ASSUME IInv, StoppedInv, [Next]_vars, NEW r \in Runs
             PROVE  /\ r \in admissions' <=> pc'[r] \in {"queued", "provision", "launch", "end"}
                    /\ "running" \in told'[r] => pc'[r] = "over"
                    /\ r \in stopped' =>
                          /\ "running" \notin told'[r]
                          /\ pc'[r] = "report" => lpc'[r] # "up"
                          /\ pc'[r] = "over" => Dead(r)' \/ Spared(r)'
                          /\ pc'[r] \notin {"new", "resolve", "refused"}
                    /\ pc'[r] = "kill" => Ending(r, r)'
  BY DEF StoppedInv
<1> DEFINE Goal == /\ r \in admissions' <=> pc'[r] \in {"queued", "provision", "launch", "end"}
                   /\ "running" \in told'[r] => pc'[r] = "over"
                   /\ r \in stopped' =>
                         /\ "running" \notin told'[r]
                         /\ pc'[r] = "report" => lpc'[r] # "up"
                         /\ pc'[r] = "over" => Dead(r)' \/ Spared(r)'
                         /\ pc'[r] \notin {"new", "resolve", "refused"}
                   /\ pc'[r] = "kill" => Ending(r, r)'
<1> SUFFICES Goal
  OBVIOUS
<1>a. ServeTypeOK /\ StepInv
  BY DEF IInv
<1>b. Dead(r) \/ Spared(r) => Dead(r)' \/ Spared(r)'
  BY DeadStays, SparedStays
<1>c. pc[r] = "kill" => Ending(r, r)'
  BY EndingStays, ServeAssumption DEF StoppedInv, Late
<1>d. /\ r \in admissions <=> pc[r] \in {"queued", "provision", "launch", "end"}
      /\ "running" \in told[r] => pc[r] = "over"
      /\ r \in stopped =>
            /\ "running" \notin told[r]
            /\ pc[r] = "report" => lpc[r] # "up"
            /\ pc[r] = "over" => Dead(r) \/ Spared(r)
            /\ pc[r] \notin {"new", "resolve", "refused"}
  BY DEF StoppedInv
<1> USE <1>a DEF ServeTypeOK, ExecutorTypeOK
<1>1. CASE Elsewhere
  <2>1. UNCHANGED <<pc, lock, lpc>>
    BY <1>1, ElsewhereUnchanged
  <2>2. admissions' = admissions /\ stopped' \subseteq stopped \cup admissions
    BY <1>1 DEF Elsewhere, LaunchTimeout, ExitCleanup, ExitReport, StopArrives, StopKills,
                StopAnswers, StopContextEnds, Killing, vars
  <2>3. "running" \in told'[r] => "running" \in told[r]
    <3>1. ASSUME NEW x \in Runs, ExitReport(x)
          PROVE  "running" \in told'[r] => "running" \in told[r]
      <4>1. ExitStatus(x) # "running"
        BY DEF ExitStatus
      <4>2. told' = [told EXCEPT ![x] = @ \cup {ExitStatus(x)}] \/ UNCHANGED told
        BY <3>1 DEF ExitReport, Tell
      <4> QED
        BY <4>1, <4>2
    <3>2. \/ told' = told
          \/ \E x \in Runs : ExitReport(x)
      BY <1>1 DEF Elsewhere, LaunchTimeout, ExitCleanup, StopArrives, StopKills,
                  StopAnswers, StopContextEnds, Killing, vars
    <3> QED
      BY <3>1, <3>2
  <2> QED
    BY <2>1, <2>2, <2>3, <1>b, <1>c, <1>d
<1>2. ASSUME NEW x \in Runs, x # r,
             TriggerArrives(x) \/ TriggerAccepted(x) \/ LaunchGoroutine(x)
      PROVE  Goal
  <2>1. /\ pc'[r] = pc[r] /\ (r \in admissions' <=> r \in admissions)
        /\ told'[r] = told[r] /\ stopped' = stopped /\ lpc'[r] = lpc[r]
    <3>1. ASSUME Launching(x)
          PROVE  /\ pc'[r] = pc[r] /\ (r \in admissions' <=> r \in admissions)
                 /\ told'[r] = told[r] /\ stopped' = stopped /\ lpc'[r] = lpc[r]
      BY <1>2, <3>1, LaunchMoves DEF Launching
    <3>2. ASSUME \/ TriggerArrives(x) \/ TriggerAccepted(x) \/ Admit(x) \/ AdmitRefused(x)
                 \/ Provision(x) \/ ProvisionFails(x)
          PROVE  /\ pc'[r] = pc[r] /\ (r \in admissions' <=> r \in admissions)
                 /\ told'[r] = told[r] /\ stopped' = stopped /\ lpc'[r] = lpc[r]
      BY <1>2, <3>2 DEF TriggerArrives, TriggerAccepted, Admit, AdmitRefused, Provision,
                        BeginLaunch, ProvisionFails, Goto
    <3>3. ASSUME Undo(x) \/ EndAdmission(x) \/ RevokeStopped(x) \/ StoppedKilled(x) \/ Report(x)
          PROVE  /\ pc'[r] = pc[r] /\ (r \in admissions' <=> r \in admissions)
                 /\ told'[r] = told[r] /\ stopped' = stopped /\ lpc'[r] = lpc[r]
      BY <1>2, <3>3 DEF Undo, EndAdmission, RevokeStopped, StoppedKilled, Report, Tell, Goto
    <3> QED
      BY <1>2, <3>1, <3>2, <3>3 DEF LaunchGoroutine
  <2> QED
    BY <2>1, <1>b, <1>c, <1>d
<1>3. CASE \/ TriggerArrives(r) \/ TriggerAccepted(r) \/ Admit(r) \/ AdmitRefused(r)
           \/ Provision(r) \/ ProvisionFails(r) \/ Undo(r)
  BY <1>3, <1>d DEF TriggerArrives, TriggerAccepted, Admit, AdmitRefused, Provision,
                    ProvisionFails, Undo, Goto
<1>4. CASE Launching(r)
  BY <1>4, <1>d DEF Launching
<1>5. CASE EndAdmission(r)
  <2>1. /\ pc[r] = "end" \/ (pc[r] = "launch" /\ lpc[r] = "up")
        /\ r \notin admissions' /\ UNCHANGED <<ctr, stray, lpc, told, stopped>>
        /\ \/ r \notin stopped /\ pc'[r] = "report"
           \/ r \in stopped /\ lpc[r] # "up" /\ pc'[r] = "over"
           \/ r \in stopped /\ pc'[r] = "revoke"
    BY <1>5 DEF EndAdmission, Goto
  <2>2. pc'[r] = "over" => Dead(r)'
    BY <2>1, NeverUp DEF Dead, Late
  <2> QED
    BY <2>1, <2>2, <1>d
<1>6. CASE RevokeStopped(r)
  <2>1. /\ pc[r] = "revoke" /\ pc'[r] = "kill" /\ kpc'[r] = "get"
        /\ UNCHANGED <<admissions, told, stopped>>
    BY <1>6, ServeAssumption DEF RevokeStopped, Goto
  <2> QED
    BY <2>1, <1>d DEF Ending
<1>7. CASE StoppedKilled(r)
  <2>1. /\ pc[r] = "kill" /\ pc'[r] = "over" /\ kpc[r] \in {"ok", "notfound", "error"}
        /\ UNCHANGED <<admissions, told, stopped, ctr, stray, kpc>>
    BY <1>7 DEF StoppedKilled, KillReturned, Goto
  <2>2. kpc[r] = "error" \/ Dead(r)
    BY <2>1 DEF StoppedInv, Ending
  <2>3. Dead(r)' \/ Spared(r)'
    BY <2>1, <2>2, DeadStays DEF Spared
  <2> QED
    BY <2>1, <2>3, <1>d
<1>8. CASE Report(r)
  <2>1. /\ pc[r] = "report" /\ pc'[r] = "over"
        /\ told'[r] \subseteq told[r] \cup {IF lpc[r] = "up" THEN "running" ELSE "failed"}
        /\ UNCHANGED <<admissions, stopped, ctr, stray, lpc>>
    BY <1>8 DEF Report, Tell, Goto
  <2>2. lpc[r] # "up" => Dead(r)'
    BY <2>1, NeverUp DEF Dead, Late
  <2> QED
    BY <2>1, <2>2, <1>d
<1> QED
  BY <1>1, <1>2, <1>3, <1>4, <1>5, <1>6, <1>7, <1>8, NextCases DEF LaunchGoroutine

\* A stop moves by its own steps; a caller that is gone stays gone.
LEMMA StopFields ==
    ASSUME [Next]_vars, ServeTypeOK, NEW s \in Stops
    PROVE  /\ stopped \subseteq stopped' /\ \A k \in Callers : left[k] => left'[k]
           /\ \/ StopArrives(s) \/ StopKills(s) \/ StopAnswers(s)
              \/ /\ xpc'[s] = xpc[s] /\ scope'[s] = scope[s]
                 /\ waiting'[s] = waiting[s] /\ found'[s] = found[s]
<1> DEFINE Same == /\ xpc'[s] = xpc[s] /\ scope'[s] = scope[s]
                   /\ waiting'[s] = waiting[s] /\ found'[s] = found[s]
           Keeps == stopped \subseteq stopped' /\ \A k \in Callers : left[k] => left'[k]
<1> USE DEF ServeTypeOK, ExecutorTypeOK
<1>1. ASSUME NEW x \in Runs,
             \/ TriggerArrives(x) \/ TriggerAccepted(x) \/ Admit(x) \/ AdmitRefused(x)
             \/ Provision(x) \/ ProvisionFails(x) \/ Undo(x) \/ EndAdmission(x)
             \/ RevokeStopped(x) \/ StoppedKilled(x) \/ Report(x) \/ LaunchTimeout(x)
             \/ ExitCleanup(x) \/ ExitReport(x)
      PROVE  Keeps /\ Same
  BY <1>1 DEF TriggerArrives, TriggerAccepted, Admit, AdmitRefused, Provision,
              ProvisionFails, Undo, EndAdmission, RevokeStopped, StoppedKilled, Report,
              LaunchTimeout, ExitCleanup, ExitReport
<1>2. ASSUME UNCHANGED svars, UNCHANGED left PROVE Keeps /\ Same
  BY <1>2
<1>3. ASSUME NEW x \in Runs, UNCHANGED svars, Launch(x) \/ ContainerExits(x) \/ Supervise(x) \/ Output(x)
      PROVE  Keeps /\ Same
  BY <1>2, <1>3 DEF Launch, Create, CreateRefused, CreateCutShort, Add, AddRefused, Start,
                    StartRefused, ContainerExits, Supervise, Observe, GiveUp, ForceRemove,
                    Untrack, Output
<1>4. ASSUME NEW x \in Runs, UNCHANGED svars, Watchdog(x) PROVE Keeps /\ Same
  BY <1>2, <1>4 DEF Watchdog, WatchdogFires, WatchdogRecords, WatchdogKills, WatchdogStops
<1>5. ASSUME NEW c \in Cards, UNCHANGED svars, Quiet(c) PROVE Keeps /\ Same
  BY <1>2, <1>5 DEF Quiet
<1>6. ASSUME NEW k \in Callers, Killing(k) PROVE Keeps /\ Same
  BY <1>2, <1>6 DEF Killing, Kill, KillGet, KillSelfExit, KillGraceOver, KillSend
<1>7. ASSUME NEW x \in Stops, StopContextEnds(x) PROVE Keeps /\ Same
  BY <1>7 DEF StopContextEnds, EndCallers
<1>8. ASSUME NEW x \in Stops, StopArrives(x) \/ StopKills(x) \/ StopAnswers(x)
      PROVE  Keeps /\ (x = s \/ Same)
  BY <1>8 DEF StopArrives, StopKills, StopAnswers
<1>9. CASE UNCHANGED vars
  BY <1>2, <1>9 DEF vars
<1> QED
  BY <1>1, <1>3, <1>4, <1>5, <1>6, <1>7, <1>8, <1>9 DEF Next, LaunchGoroutine, Launching

\* What a stop has seen to.
LEMMA StopStep == IInv /\ StoppedInv /\ StopInv /\ [Next]_vars => StopInv'
<1> SUFFICES ASSUME IInv, StoppedInv, StopInv, [Next]_vars, NEW s \in Stops, NEW r \in found'[s]
             PROVE  /\ xpc'[s] # "idle" => CardOf[r] \in Targets(s)'
                    /\ r \in waiting'[s] => r \in stopped'
                    /\ xpc'[s] = "await" => r \in waiting'[s] \/ pc'[r] \in Late
                    /\ xpc'[s] = "kill" /\ ~Gone(s)' =>
                          pc'[r] \in Late /\ (Spared(r)' \/ Ending(<<s, CardOf[r]>>, r)')
                    /\ xpc'[s] = "ok" /\ ~Gone(s)' => Dead(r)' \/ Spared(r)'
  BY DEF StopInv
<1> DEFINE Goal == /\ xpc'[s] # "idle" => CardOf[r] \in Targets(s)'
                   /\ r \in waiting'[s] => r \in stopped'
                   /\ xpc'[s] = "await" => r \in waiting'[s] \/ pc'[r] \in Late
                   /\ xpc'[s] = "kill" /\ ~Gone(s)' =>
                         pc'[r] \in Late /\ (Spared(r)' \/ Ending(<<s, CardOf[r]>>, r)')
                   /\ xpc'[s] = "ok" /\ ~Gone(s)' => Dead(r)' \/ Spared(r)'
           k == <<s, CardOf[r]>>
<1> SUFFICES Goal
  OBVIOUS
<1>a. ServeTypeOK /\ ServeTypeOK' /\ r \in Runs /\ CardOf[r] \in Cards
  BY ServeTypes, RunHasCard DEF IInv, ServeTypeOK
<1>b. /\ k \in Callers /\ CallerCard[k] = CardOf[r] /\ k \in Calls(s)
      /\ Calls(s) \subseteq Callers
  BY <1>a, ServeAssumption DEF Calls
<1>c. ~Gone(s)' => ~Gone(s)
  BY <1>a, <1>b, StopFields DEF Gone, Calls
<1>d. /\ pc[r] \in Late => pc'[r] \in Late
      /\ Dead(r) => Dead(r)'
      /\ Spared(r) => Spared(r)'
      /\ Ending(k, r) /\ pc[r] \in Late => Ending(k, r)'
  BY <1>a, <1>b, LateStays, DeadStays, SparedStays, EndingStays
<1>1. CASE StopArrives(s)
  <2>1. /\ xpc'[s] = "await" /\ pc' = pc
        /\ r \in waiting'[s] => r \in stopped'
        /\ r \in waiting'[s] \/ (r \in Tracked /\ r \notin admissions)
        /\ CardOf[r] \in Targets(s)'
    BY <1>1, <1>a DEF StopArrives, ServeTypeOK, Tracked
  <2>2. r \in Tracked /\ r \notin admissions => pc[r] \in Late
    <3> SUFFICES ASSUME r \in Tracked, r \notin admissions PROVE pc[r] \in Late
      OBVIOUS
    <3>1. lpc[r] = "start" \/ lpc[r] = "up"
      BY <1>a DEF IInv, SlotInv, StepInv, Supervised
    <3> QED
      BY <1>a, <3>1 DEF IInv, StepInv, StoppedInv, ServeTypeOK, Steps, Late
  <2> QED
    BY <2>1, <2>2
<1>2. CASE StopKills(s)
  <2>1. /\ xpc[s] = "await" /\ xpc'[s] = "kill"
        /\ (\A x \in waiting[s] : Over(x)) \/ Gone(s)
        /\ UNCHANGED <<scope, waiting, stopped, found, pc, ctr, stray, tracked>>
    BY <1>2, <1>a DEF StopKills, ServeTypeOK
  <2>2. r \in found[s] /\ CardOf[r] \in Targets(s) /\ Targets(s)' = Targets(s)
    BY <2>1 DEF StopInv, Targets
  <2>3. ASSUME ~Gone(s) PROVE pc[r] \in Late /\ (Spared(r) \/ Dead(r) \/ kpc'[k] = "get")
    <3>1. CASE r \in waiting[s]
      <4>1. r \in stopped /\ pc[r] \in {"report", "over"}
        BY <2>1, <2>2, <2>3, <3>1 DEF StopInv, Over
      <4>2. Dead(r) \/ Spared(r)
        BY <1>a, <4>1, NeverUp DEF StoppedInv, Dead, Late
      <4> QED
        BY <4>1, <4>2 DEF Late
    <3>2. CASE r \notin waiting[s]
      <4>1. pc[r] \in Late
        BY <2>1, <2>2, <3>2 DEF StopInv
      <4>2. CASE tracked[CardOf[r]] = r
        BY <1>2, <1>a, <1>b, <2>2, <4>1, <4>2, RunHasCard DEF StopKills
      <4>3. CASE tracked[CardOf[r]] # r
        BY <1>a, <4>1, <4>3, OutOfSlot
      <4> QED
        BY <4>1, <4>2, <4>3
    <3> QED
      BY <3>1, <3>2
  <2> QED
    BY <1>c, <1>d, <2>1, <2>2, <2>3 DEF StopInv, Ending
<1>3. CASE StopAnswers(s)
  <2>1. /\ xpc[s] = "kill" /\ xpc'[s] \in {"error", "ok"}
        /\ kpc[k] = "idle" \/ kpc[k] \in {"ok", "notfound", "error"}
        /\ kpc[k] = "error" => xpc'[s] = "error"
        /\ UNCHANGED <<scope, waiting, stopped, found>>
    BY <1>3, <1>a, <1>b DEF StopAnswers, KillReturned, ServeTypeOK
  <2>2. r \in found[s] /\ Targets(s)' = Targets(s)
    BY <2>1 DEF Targets
  <2>3. xpc'[s] = "ok" /\ ~Gone(s) => Dead(r) \/ Spared(r)
    BY <2>1, <2>2 DEF StopInv, Ending
  <2> QED
    BY <1>c, <1>d, <2>1, <2>2, <2>3 DEF StopInv
<1>4. CASE /\ xpc'[s] = xpc[s] /\ scope'[s] = scope[s]
           /\ waiting'[s] = waiting[s] /\ found'[s] = found[s]
  <2>1. r \in found[s] /\ Targets(s)' = Targets(s) /\ stopped \subseteq stopped'
    BY <1>4, <1>a, StopFields DEF Targets
  <2> QED
    BY <1>4, <1>c, <1>d, <2>1 DEF StopInv
<1> QED
  BY <1>1, <1>2, <1>3, <1>4, <1>a, StopFields

\* A stop that answered OK is final: whatever it found, in admission or running,
\* is dead, unless the kill a stopped launch owed failed (stopAdmissions,
\* stopLaunchedRun, Kill).
THEOREM StopsAreFinal == Spec => []StopIsFinal
<1>1. ServeInit => StoppedInv /\ StopInv
  BY ServeAssumption DEF ServeInit, ExecutorInit, StoppedInv, StopInv
<1>2. IInv /\ StoppedInv /\ StopInv => StopIsFinal
  BY DEF IInv, ServeTypeOK, StoppedInv, StopInv, StopIsFinal, Dead, Spared
<1> QED
  BY <1>1, <1>2, StoppedStep, StopStep, InductiveInvariant, PTL DEF Spec

-----------------------------------------------------------------------------
(* Serve implements RunSlots. *)

SlotMap == [r \in Runs |-> SlotOf(r)]

\* The slots the abstract specification calls live are the tracked ones.
LEMMA LiveIsTracked ==
    {r \in Runs : SlotMap[r] = "live"} = Tracked
  BY DEF SlotMap, SlotOf, Tracked

\* A step that moves one run's slot along is a step of RunSlots.
LEMMA SlotMoves ==
    ASSUME NEW r \in Runs,
           \A x \in Runs \ {r} : SlotOf(x)' = SlotOf(x),
           \/ SlotOf(r)' = SlotOf(r)
           \/ SlotOf(r) = "new" /\ SlotOf(r)' \in {"pending", "over"}
           \/ SlotOf(r) = "pending" /\ SlotOf(r)' = "over"
           \/ SlotOf(r) = "live" /\ SlotOf(r)' = "over"
           \/ /\ SlotOf(r) = "pending" /\ SlotOf(r)' = "live"
              /\ tracked[CardOf[r]] = NoRun
              /\ Cardinality(Tracked) < MaxConcurrent
    PROVE  [Slots!Next]_SlotMap
<1>1. SlotMap' = [SlotMap EXCEPT ![r] = SlotOf(r)']
  BY DEF SlotMap
<1>2. SlotMap[r] = SlotOf(r)
  BY DEF SlotMap
<1>3. CASE SlotOf(r)' = SlotOf(r)
  BY <1>3 DEF SlotMap
<1>4. CASE SlotOf(r) = "new" /\ SlotOf(r)' = "pending"
  <2>1. Slots!Accept(r)
    BY <1>1, <1>2, <1>4 DEF Slots!Accept, Slots!Move, SlotMap
  <2> QED
    BY <2>1 DEF Slots!Next
<1>5. CASE SlotOf(r) \in {"new", "pending"} /\ SlotOf(r)' = "over"
  <2>1. Slots!Drop(r)
    BY <1>1, <1>2, <1>5 DEF Slots!Drop, Slots!Move, SlotMap
  <2> QED
    BY <2>1 DEF Slots!Next
<1>6. CASE SlotOf(r) = "live" /\ SlotOf(r)' = "over"
  <2>1. Slots!Release(r)
    BY <1>1, <1>2, <1>6 DEF Slots!Release, Slots!Move, SlotMap
  <2> QED
    BY <2>1 DEF Slots!Next
<1>7. CASE /\ SlotOf(r) = "pending" /\ SlotOf(r)' = "live"
           /\ tracked[CardOf[r]] = NoRun
           /\ Cardinality(Tracked) < MaxConcurrent
  <2>1. Slots!Live = Tracked
    BY LiveIsTracked DEF Slots!Live, SlotMap
  <2>2. \A x \in Tracked : CardOf[x] # CardOf[r]
    BY <1>7, ExecutorAssumption DEF Tracked
  <2>3. Slots!Move(r, "pending", "live")
    BY <1>1, <1>2, <1>7 DEF Slots!Move, SlotMap
  <2>4. Slots!Cardinality(Tracked) = Cardinality(Tracked)
    BY DEF Slots!Cardinality, Cardinality
  <2>5. Slots!Occupy(r)
    BY <1>7, <2>1, <2>2, <2>3, <2>4 DEF Slots!Occupy
  <2> QED
    BY <2>5 DEF Slots!Next
<1> QED
  BY <1>3, <1>4, <1>5, <1>6, <1>7

\* Every step of Serve is a step of RunSlots or none.
LEMMA SlotsStep == IInv /\ [Next]_vars => [Slots!Next]_SlotMap
<1> SUFFICES ASSUME IInv, [Next]_vars
             PROVE  [Slots!Next]_SlotMap
  OBVIOUS
<1> USE RunHasCard DEF IInv, StepInv, SlotInv, ServeTypeOK, ExecutorTypeOK
<1>1. CASE Elsewhere
  <2>1. UNCHANGED <<pc, lock, lpc>>
    BY <1>1, ElsewhereUnchanged
  <2>2. ASSUME NEW r \in Runs, Untrack(r)
        PROVE  [Slots!Next]_SlotMap
    <3>1. r \in Tracked /\ lpc[r] = "up"
      BY <2>2 DEF Untrack, Supervised
    <3>2. tracked' = [tracked EXCEPT ![CardOf[r]] = NoRun]
      BY <2>2 DEF Untrack, TrackerRemove
    <3>3. SlotOf(r) = "live" /\ SlotOf(r)' = "over"
      BY <2>1, <3>1, <3>2 DEF SlotOf, Tracked
    <3>4. \A x \in Runs \ {r} : SlotOf(x)' = SlotOf(x)
      BY <2>1, <3>1, <3>2 DEF SlotOf, Tracked
    <3> QED
      BY <3>3, <3>4, SlotMoves
  <2>3. CASE tracked' = tracked
    BY <2>1, <2>3 DEF SlotMap, SlotOf, Tracked
  <2> QED
    BY <1>1, <2>2, <2>3, ElsewhereSlots
<1>2. ASSUME NEW r \in Runs, TriggerArrives(r) \/ TriggerAccepted(r)
      PROVE  [Slots!Next]_SlotMap
  <2>1. \A x \in Runs \ {r} : SlotOf(x)' = SlotOf(x)
    BY <1>2 DEF TriggerArrives, TriggerAccepted, Goto, SlotOf, Tracked
  <2>2. SlotOf(r) = "new" /\ SlotOf(r)' \in {"new", "pending", "over"}
    BY <1>2 DEF TriggerArrives, TriggerAccepted, Goto, SlotOf, Tracked, Supervised
  <2> QED
    BY <2>1, <2>2, SlotMoves
<1>3. ASSUME NEW r \in Runs, Admit(r) \/ AdmitRefused(r) \/ Provision(r) \/ ProvisionFails(r)
      PROVE  [Slots!Next]_SlotMap
  <2>1. \A x \in Runs \ {r} : SlotOf(x)' = SlotOf(x)
    BY <1>3 DEF Admit, AdmitRefused, Provision, ProvisionFails, BeginLaunch, Goto, SlotOf, Tracked
  <2>2. SlotOf(r) = "pending" /\ SlotOf(r)' \in {"pending", "over"}
    BY <1>3 DEF Admit, AdmitRefused, Provision, ProvisionFails, BeginLaunch, Goto,
                SlotOf, Tracked, Supervised
  <2> QED
    BY <2>1, <2>2, SlotMoves
<1>4. ASSUME NEW r \in Runs, UNCHANGED svars,
             Create(r) \/ CreateRefused(r) \/ CreateCutShort(r) \/ AddRefused(r)
      PROVE  [Slots!Next]_SlotMap
  <2>1. \A x \in Runs \ {r} : SlotOf(x)' = SlotOf(x)
    BY <1>4 DEF Create, CreateRefused, CreateCutShort, AddRefused, LaunchStep, SlotOf, Tracked
  <2>2. SlotOf(r) = "pending" /\ SlotOf(r)' \in {"pending", "over"}
    BY <1>4 DEF Create, CreateRefused, CreateCutShort, AddRefused, LaunchStep,
                SlotOf, Tracked, Supervised
  <2> QED
    BY <2>1, <2>2, SlotMoves
<1>5. ASSUME NEW r \in Runs, UNCHANGED svars, Add(r)
      PROVE  [Slots!Next]_SlotMap
  <2>1. \A x \in Runs \ {r} : SlotOf(x)' = SlotOf(x)
    BY <1>5 DEF Add, HasRoom, LaunchStep, SlotOf, Tracked
  <2>2. SlotOf(r) = "pending" /\ SlotOf(r)' = "live"
    BY <1>5 DEF Add, LaunchStep, SlotOf, Tracked, Supervised
  <2> QED
    BY <1>5, <2>1, <2>2, SlotMoves DEF Add, HasRoom
<1>6. ASSUME NEW r \in Runs, UNCHANGED svars, Start(r)
      PROVE  [Slots!Next]_SlotMap
  BY <1>6, SlotMoves DEF Start, LaunchStep, SlotOf, Tracked, Supervised
<1>7. ASSUME NEW r \in Runs, UNCHANGED svars, StartRefused(r)
      PROVE  [Slots!Next]_SlotMap
  <2>1. r \in Tracked /\ tracked' = [tracked EXCEPT ![CardOf[r]] = NoRun]
    BY <1>7 DEF StartRefused, TrackerRemove
  <2>2. \A x \in Runs \ {r} : SlotOf(x)' = SlotOf(x)
    BY <1>7, <2>1 DEF StartRefused, LaunchStep, SlotOf, Tracked
  <2>3. SlotOf(r) = "live" /\ SlotOf(r)' = "over"
    BY <1>7, <2>1 DEF StartRefused, LaunchStep, SlotOf, Tracked
  <2> QED
    BY <2>2, <2>3, SlotMoves
<1>8. ASSUME NEW r \in Runs, Undo(r) \/ EndAdmission(r)
      PROVE  [Slots!Next]_SlotMap
  <2>1. \A x \in Runs : SlotOf(x)' = SlotOf(x)
    BY <1>8 DEF Undo, EndAdmission, Goto, SlotOf, Tracked
  <2> QED
    BY <2>1 DEF SlotMap
<1>9. ASSUME NEW r \in Runs, RevokeStopped(r) \/ StoppedKilled(r) \/ Report(r)
      PROVE  [Slots!Next]_SlotMap
  <2>1. \A x \in Runs : SlotOf(x)' = SlotOf(x)
    BY <1>9 DEF RevokeStopped, StoppedKilled, Report, Goto, SlotOf, Tracked
  <2> QED
    BY <2>1 DEF SlotMap
<1> QED
  BY <1>1, <1>2, <1>3, <1>4, <1>5, <1>6, <1>7, <1>8, <1>9, NextCases
     DEF LaunchGoroutine, Launching, Launch

\* For any number of triggers, cards and slots, the serve process keeps the
\* promise of RunSlots: one live run per card, never more than MaxConcurrent,
\* and no run comes back (AddIfUnderLimit under admitAndLaunch).
THEOREM SlotsImplemented == Spec => ImplementsSlots
<1>1. ServeInit => Slots!Init
  BY RunHasCard DEF ServeInit, ExecutorInit, Slots!Init, SlotOf, Tracked
<1>2. IInv /\ [Next]_vars => [Slots!Next]_SlotMap
  BY SlotsStep
<1> QED
  BY <1>1, <1>2, InductiveInvariant, PTL DEF Spec, ImplementsSlots, Slots!Spec, SlotMap
=============================================================================
