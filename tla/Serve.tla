------------------------------- MODULE Serve --------------------------------
(***************************************************************************)
(* The serve process (internal/webhook, internal/cli/serve.go and          *)
(* internal/secrets) around the executor: a trigger becomes an admission,  *)
(* the admission provisions the run's credentials and launches it under    *)
(* the card's launch lock, a kill or a stop-all stops admissions and kills *)
(* runs, and the exit callback takes the run's credentials down before it  *)
(* reports to ContextMatrix.                                               *)
(*                                                                         *)
(* The launch goroutine of a run is pc[r], a stop request is xpc[s].  The  *)
(* steps of the executor are those of Executor; Kill is called by the      *)
(* launch goroutine of a stopped run (caller r) and by a stop request for  *)
(* each card it targets (caller <<s, c>>).                                 *)
(***************************************************************************)
EXTENDS Executor

CONSTANTS
    Stops       \* the /kill and /stop-all requests that may arrive

ASSUME ServeAssumption ==
    /\ Callers = Runs \cup (Stops \X Cards)
    /\ \A r \in Runs : CallerCard[r] = CardOf[r]
    /\ \A s \in Stops, c \in Cards : CallerCard[<<s, c>>] = c
    /\ Runs \cap (Stops \X Cards) = {}

VARIABLES
    pc,         \* [Runs -> step of the trigger handler and launch goroutine]
    lock,       \* [Cards -> the run holding the card's launch lock, or NoRun]
    admissions, \* runs whose admission is in flight
    stopped,    \* runs whose admission a stop has reached
    token,      \* runs whose LLM proxy token is live
    session,    \* runs whose secrets the redactor knows
    handles,    \* runs with a credential handle
    env,        \* [Cards -> the run whose secrets are in the card's dir, or NoRun]
    told,       \* [Runs -> statuses ContextMatrix has received for the run]
    xpc,        \* [Stops -> step of the stop handler]
    scope,      \* [Stops -> the card it names, or "all"]
    waiting,    \* [Stops -> the admissions it waits for]
    found       \* [Stops -> the runs it was to stop] (history)

creds   == <<token, session, handles, env>>
stopvars == <<xpc, scope, waiting, found>>
svars   == <<pc, lock, admissions, stopped, creds, told, stopvars>>
vars    == <<exvars, svars>>

Steps == {"new", "resolve", "queued", "provision", "launch", "end",
          "revoke", "kill", "report", "refused", "over"}

ServeTypeOK ==
    /\ ExecutorTypeOK
    /\ pc \in [Runs -> Steps]
    /\ lock \in [Cards -> Runs \cup {NoRun}]
    /\ admissions \in SUBSET Runs
    /\ stopped \in SUBSET Runs
    /\ token \in SUBSET Runs
    /\ session \in SUBSET Runs
    /\ handles \in SUBSET Runs
    /\ env \in [Cards -> Runs \cup {NoRun}]
    /\ told \in [Runs -> SUBSET {"running", "completed", "failed"}]
    /\ xpc \in [Stops -> {"idle", "await", "kill", "ok", "error"}]
    /\ scope \in [Stops -> Cards \cup {"all"}]
    /\ waiting \in [Stops -> SUBSET Runs]
    /\ found \in [Stops -> SUBSET Runs]

ServeInit ==
    /\ ExecutorInit
    /\ pc = [r \in Runs |-> "new"]
    /\ lock = [c \in Cards |-> NoRun]
    /\ admissions = {} /\ stopped = {}
    /\ token = {} /\ session = {} /\ handles = {}
    /\ env = [c \in Cards |-> NoRun]
    /\ told = [r \in Runs |-> {}]
    /\ xpc = [s \in Stops |-> "idle"]
    /\ scope = [s \in Stops |-> "all"]
    /\ waiting = [s \in Stops |-> {}]
    /\ found = [s \in Stops |-> {}]

Goto(r, to) == pc' = [pc EXCEPT ![r] = to]

\* A status callback is delivered, or given up after its attempts.
Tell(r, status) ==
    \/ told' = [told EXCEPT ![r] = @ \cup {status}]
    \/ "callback" \in Faults /\ UNCHANGED told

-----------------------------------------------------------------------------
(* POST /trigger. *)

\* The capacity pre-check, made only where a limit is set; the slow resolution
\* of the task skills follows.
TriggerArrives(r) ==
    /\ pc[r] = "new"
    /\ Goto(r, IF MaxConcurrent > 0 /\ Cardinality(Tracked) >= MaxConcurrent
               THEN "refused" ELSE "resolve")
    /\ UNCHANGED <<exvars, lock, admissions, stopped, creds, told, stopvars>>

\* beginAdmission, the 202, and the launch goroutine.
TriggerAccepted(r) ==
    /\ pc[r] = "resolve"
    /\ Goto(r, "queued")
    /\ admissions' = admissions \cup {r}
    /\ UNCHANGED <<exvars, lock, stopped, creds, told, stopvars>>

-----------------------------------------------------------------------------
(* The launch goroutine, from the card's launch lock to its report. *)

\* What makes provisionAndLaunch turn the trigger away under the lock: the
\* card already running, a payload without credentials, an ended context.
TurnedAway(r) ==
    \/ tracked[CardOf[r]] # NoRun
    \/ "payload" \in Faults
    \/ cancelled[r]

\* The lock is taken, the guards pass, and the LLM proxy issues a token.
Admit(r) ==
    /\ pc[r] = "queued"
    /\ lock[CardOf[r]] = NoRun
    /\ lock' = [lock EXCEPT ![CardOf[r]] = r]
    /\ tracked[CardOf[r]] = NoRun /\ ~cancelled[r]
    /\ token' = token \cup {r}
    /\ Goto(r, "provision")
    /\ UNCHANGED <<exvars, admissions, stopped, session, handles, env, told, stopvars>>

\* The lock is taken and a guard, or the token registration, fails.
AdmitRefused(r) ==
    /\ pc[r] = "queued"
    /\ lock[CardOf[r]] = NoRun
    /\ lock' = [lock EXCEPT ![CardOf[r]] = r]
    /\ TurnedAway(r)
    /\ Goto(r, "end")
    /\ UNCHANGED <<exvars, admissions, stopped, creds, told, stopvars>>

\* The handles whose directory a provision for run r takes over.
Displaced(r) == {x \in handles : CardOf[x] = CardOf[r]}

\* RunCredentials.Provision, under the manager lock, then addSessionSecrets.
\* A handle it displaces loses its proxy token.  The executor is called next: a
\* context that has ended by then makes the launch fail before a container is
\* created (CreateRefused), whether it is the webhook or the executor that
\* looks at it.
Provision(r) ==
    /\ pc[r] = "provision"
    /\ handles' = (handles \ Displaced(r)) \cup {r}
    /\ token' = token \ (Displaced(r) \ {r})
    /\ env' = [env EXCEPT ![CardOf[r]] = r]
    /\ session' = session \cup {r}
    /\ Goto(r, "launch")
    /\ BeginLaunch(r)
    /\ UNCHANGED <<daemon, tracker, superv, wpc, kills>>
    /\ UNCHANGED <<lock, admissions, stopped, told, stopvars>>

\* The env file cannot be written: the displaced handle is gone, its file is
\* not, and nothing is registered.
ProvisionFails(r) ==
    /\ pc[r] = "provision"
    /\ "provision" \in Faults
    /\ handles' = handles \ Displaced(r)
    /\ token' = token \ (Displaced(r) \cup {r})
    /\ Goto(r, "end")
    /\ UNCHANGED <<exvars, lock, admissions, stopped, session, env, told, stopvars>>

Launching(r) ==
    /\ pc[r] = "launch"
    /\ Launch(r)
    /\ UNCHANGED svars

\* Mutant of Teardown: keyed by the card, as the directory is.
TeardownByCard(r) ==
    /\ handles' = handles \ Displaced(r)
    /\ env' = [env EXCEPT ![CardOf[r]] = NoRun]

\* RunCredentials.Teardown: only the run that still has a handle.
Teardown(r) ==
    /\ handles' = handles \ {r}
    /\ env' = IF r \in handles THEN [env EXCEPT ![CardOf[r]] = NoRun] ELSE env

\* Mutant of Undo: the proxy token is not revoked.
UndoKeepsToken(r) ==
    /\ pc[r] = "launch" /\ lpc[r] = "failed"
    /\ Teardown(r)
    /\ session' = session \ {r}
    /\ Goto(r, "end")
    /\ UNCHANGED <<exvars, token, lock, admissions, stopped, told, stopvars>>

\* A failed launch takes back what it provisioned.
Undo(r) ==
    /\ pc[r] = "launch" /\ lpc[r] = "failed"
    /\ Teardown(r)
    /\ token' = token \ {r}
    /\ session' = session \ {r}
    /\ Goto(r, "end")
    /\ UNCHANGED <<exvars, lock, admissions, stopped, told, stopvars>>

Unlock(r) == lock' = [lock EXCEPT ![CardOf[r]] = NoRun]

\* Mutant of EndAdmission: the stop mark is not looked at.
EndAdmissionUnchecked(r) ==
    /\ pc[r] = "end" \/ (pc[r] = "launch" /\ lpc[r] = "up")
    /\ admissions' = admissions \ {r}
    /\ Goto(r, "report")
    /\ Unlock(r)
    /\ UNCHANGED <<exvars, stopped, creds, told, stopvars>>

\* endAdmission: a stop has reached the admission by now or finds none.
EndAdmission(r) ==
    /\ pc[r] = "end" \/ (pc[r] = "launch" /\ lpc[r] = "up")
    /\ admissions' = admissions \ {r}
    /\ \/ r \notin stopped /\ Goto(r, "report") /\ Unlock(r)
       \/ r \in stopped /\ lpc[r] # "up" /\ Goto(r, "over") /\ Unlock(r)
       \/ r \in stopped /\ lpc[r] = "up" /\ Goto(r, "revoke") /\ UNCHANGED lock
    /\ UNCHANGED <<exvars, stopped, creds, told, stopvars>>

\* stopLaunchedRun: its token and credentials go first, then it is killed
\* while the launch lock is still held.
RevokeStopped(r) ==
    /\ pc[r] = "revoke"
    /\ Teardown(r)
    /\ token' = token \ {r}
    /\ kpc' = [kpc EXCEPT ![r] = "get"]
    /\ Goto(r, "kill")
    /\ UNCHANGED <<daemon, tracker, launch, superv, wpc, krun, left>>
    /\ UNCHANGED <<lock, admissions, stopped, session, told, stopvars>>

StoppedKilled(r) ==
    /\ pc[r] = "kill"
    /\ KillReturned(r)
    /\ Unlock(r)
    /\ Goto(r, "over")
    /\ UNCHANGED <<exvars, admissions, stopped, creds, told, stopvars>>

\* The report, outside the lock and after the admission is gone.
Report(r) ==
    /\ pc[r] = "report"
    /\ Tell(r, IF lpc[r] = "up" THEN "running" ELSE "failed")
    /\ Goto(r, "over")
    /\ UNCHANGED <<exvars, lock, admissions, stopped, creds, stopvars>>

LaunchGoroutine(r) ==
    \/ Admit(r) \/ AdmitRefused(r) \/ Provision(r) \/ ProvisionFails(r)
    \/ Launching(r) \/ Undo(r)
    \/ EndAdmission(r) \/ RevokeStopped(r) \/ StoppedKilled(r) \/ Report(r)

\* The launch timeout ends the context of an admission in flight.
LaunchTimeout(r) ==
    /\ "timeout" \in Faults
    /\ r \in admissions /\ ~cancelled[r]
    /\ EndContext({r})
    /\ UNCHANGED <<daemon, tracker, lpc, superv, wpc, kills, svars>>

-----------------------------------------------------------------------------
(* The exit callback. *)

\* onContainerExit up to its report; every cleanup is keyed by the run.
ExitCleanup(r) ==
    /\ spc[r] = "exit" /\ r \in session
    /\ Teardown(r)
    /\ token' = token \ {r}
    /\ session' = session \ {r}
    /\ UNCHANGED <<exvars, pc, lock, admissions, stopped, told, stopvars>>

\* Mutant of ExitStatus: the cause goes out as the status.
ExitStatusIsCause(r) ==
    IF cause[r] = "normal" /\ code[r] = "zero" THEN "completed" ELSE cause[r]

\* exitStatus: completed only for a zero exit nobody forced.
ExitStatus(r) ==
    IF cause[r] = "normal" /\ code[r] = "zero" THEN "completed" ELSE "failed"

ExitReport(r) ==
    /\ r \notin session
    /\ ExitReturns(r)
    /\ Tell(r, ExitStatus(r))
    /\ UNCHANGED <<daemon, tracker, launch, wpc, kills>>
    /\ UNCHANGED <<pc, lock, admissions, stopped, creds, stopvars>>

-----------------------------------------------------------------------------
(* POST /kill and POST /stop-all. *)

Targets(s) == IF scope[s] = "all" THEN Cards ELSE {scope[s]}

\* stopAdmissions marks and cancels every admission in flight it matches.
StopArrives(s) ==
    /\ xpc[s] = "idle"
    /\ \E what \in Cards \cup {"all"} : scope' = [scope EXCEPT ![s] = what]
    /\ LET hit == {r \in admissions : CardOf[r] \in Targets(s)'}
       IN  /\ stopped' = stopped \cup hit
           /\ waiting' = [waiting EXCEPT ![s] = hit]
           /\ EndContext(hit)
           /\ found' = [found EXCEPT ![s] =
                 hit \cup {r \in Tracked : CardOf[r] \in Targets(s)'}]
    /\ xpc' = [xpc EXCEPT ![s] = "await"]
    /\ UNCHANGED <<daemon, tracker, lpc, superv, wpc, kills>>
    /\ UNCHANGED <<pc, lock, admissions, creds, told>>

\* An admission is over once its launch goroutine closes done.
Over(r) == pc[r] \in {"report", "over"}

Calls(s) == {s} \X Cards
Gone(s) == \E k \in Calls(s) : left[k]

\* The admissions have returned, or the request's context has ended; then the
\* tracked runs are killed: the card's, or all that StopAll lists.
StopKills(s) ==
    /\ xpc[s] = "await"
    /\ (\A r \in waiting[s] : Over(r)) \/ Gone(s)
    /\ kpc' = [k \in Callers |->
                 IF /\ k \in Calls(s)
                    /\ CallerCard[k] \in Targets(s)
                    /\ scope[s] = "all" => tracked[CallerCard[k]] # NoRun
                 THEN "get" ELSE kpc[k]]
    /\ xpc' = [xpc EXCEPT ![s] = "kill"]
    /\ UNCHANGED <<daemon, tracker, launch, superv, wpc, krun, left>>
    /\ UNCHANGED <<pc, lock, admissions, stopped, creds, told, scope, waiting, found>>

\* The answer: a run no longer tracked counts as stopped.
StopAnswers(s) ==
    /\ xpc[s] = "kill"
    /\ \A k \in Calls(s) : kpc[k] = "idle" \/ KillReturned(k)
    /\ xpc' = [xpc EXCEPT ![s] =
                 IF \E k \in Calls(s) : kpc[k] = "error" THEN "error" ELSE "ok"]
    /\ UNCHANGED <<exvars, pc, lock, admissions, stopped, creds, told, scope, waiting, found>>

\* The caller hangs up, or the stop's deadline passes.
StopContextEnds(s) ==
    /\ "caller" \in Faults
    /\ xpc[s] \in {"await", "kill"} /\ ~Gone(s)
    /\ EndCallers(Calls(s))
    /\ UNCHANGED <<daemon, tracker, launch, superv, wpc, kpc, krun, svars>>

Killing(k) == Kill(k) /\ UNCHANGED svars

-----------------------------------------------------------------------------

\* Everything that was asked for has come to its end.
Quiescent ==
    /\ \A r \in Runs : pc[r] \in {"new", "refused", "over"} /\ spc[r] \in {"off", "done"}
                       /\ wpc[r] = "off"
    /\ \A s \in Stops : xpc[s] \in {"idle", "ok", "error"}

Next ==
    \/ \E r \in Runs :
          \/ TriggerArrives(r) \/ TriggerAccepted(r)
          \/ LaunchGoroutine(r) \/ LaunchTimeout(r)
          \/ ExitCleanup(r) \/ ExitReport(r)
          \/ (ContainerExits(r) \/ Supervise(r) \/ Output(r) \/ Watchdog(r)) /\ UNCHANGED svars
    \/ \E c \in Cards : Quiet(c) /\ UNCHANGED svars
    \/ \E s \in Stops :
          StopArrives(s) \/ StopKills(s) \/ StopAnswers(s) \/ StopContextEnds(s)
    \/ \E k \in Callers : Killing(k)
    \/ Quiescent /\ UNCHANGED vars

\* A goroutine that can run does run, and Go's mutexes do not starve a waiter.
\* The container timeout bounds the supervisor's wait.  Triggers, stops, exits
\* and timeouts of the launch may or may not happen.
Fairness ==
    /\ \A r \in Runs :
          /\ WF_vars(TriggerAccepted(r) \/ LaunchGoroutine(r) \/ Killing(r))
          /\ SF_vars(Admit(r) \/ AdmitRefused(r))
          /\ WF_vars((Supervise(r) /\ UNCHANGED svars) \/ ExitCleanup(r) \/ ExitReport(r))
    /\ \A s \in Stops :
          WF_vars(StopKills(s) \/ StopAnswers(s) \/ \E k \in Calls(s) : Killing(k))

Spec == ServeInit /\ [][Next]_vars
FairSpec == Spec /\ Fairness
-----------------------------------------------------------------------------
(* Properties. *)

Terminal == {"completed", "failed"}

\* A run whose container works, and that no stop has reached, has its own
\* credentials whole: its env file in the card's directory, its handle (and so
\* its refresh loop), its proxy token and its redacted secrets.  No duplicate
\* trigger, failed launch, predecessor on its way out or stopped sibling takes
\* them (admitAndLaunch, Provision, Teardown, onContainerExit).
OwnCredentials ==
    \A r \in Runs \ stopped :
        spc[r] = "wait" =>
            /\ r \in handles \cap token \cap session
            /\ env[CardOf[r]] = r

\* Once ContextMatrix has a run's terminal status, which lets it trigger the
\* card again, and once a launch has come to nothing, the run keeps no slot,
\* handle, token or session secrets (onContainerExit: "all run before the
\* status callback that lets CM admit a re-trigger").
NothingLeft ==
    \A r \in Runs :
        \/ told[r] \cap Terminal # {}
        \/ spc[r] = "done"
        \/ pc[r] = "over" /\ spc[r] = "off"
        => /\ r \notin Tracked
           /\ r \notin handles \cup token \cup session

\* A stop that has answered OK to a caller still there is final: a run it
\* found, accepted or tracked, does not work any more and never will, unless
\* the daemon refused to remove it or the kill the stopped launch owed; and an
\* admission it stopped is never reported running (stopAdmissions,
\* stopLaunchedRun).
StopIsFinal ==
    \A s \in Stops :
        xpc[s] = "ok" /\ ~Gone(s) =>
            \A r \in found[s] :
                /\ ctr[r] = "running" => r \in stray \/ kpc[r] = "error"
                /\ r \in waiting[s] => "running" \notin told[r]

\* Every accepted trigger comes to a terminal status of its own, unless a stop
\* reached it before it ran (launch, onContainerExit).
EveryTriggerSettles ==
    \A r \in Runs :
        (pc[r] = "queued") ~>
            (told[r] \cap Terminal # {} \/ (r \in stopped /\ pc[r] = "over" /\ spc[r] = "off"))

\* The slots as RunSlots promises them.
SlotOf(r) ==
    IF r \in Tracked THEN "live"
    ELSE IF pc[r] \in {"new", "resolve"} THEN "new"
    ELSE IF pc[r] \in {"queued", "provision", "launch"} /\ lpc[r] \in {"idle", "create", "add"}
    THEN "pending" ELSE "over"

Slots == INSTANCE RunSlots WITH st <- [r \in Runs |-> SlotOf(r)]

\* The serve process implements RunSlots: whatever the daemon refuses and
\* however triggers, kills and exits overlap.
ImplementsSlots == Slots!Spec
=============================================================================
