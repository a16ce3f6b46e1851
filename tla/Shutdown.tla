------------------------------ MODULE Shutdown -----------------------------
(* The end of the serve process: new work is refused, every worker is asked *)
(* to park, the rest is killed, and each run's terminal status is reported  *)
(* once - by the run's own exit callback or by the sweep.                   *)
EXTENDS Session

VARIABLES
  ppc,        \* the main goroutine of the serve process
  draining, shutdown,
  live,       \* the runs listed when the shutdown began
  toend,      \* those it has still to send an end_session frame
  asking,     \* the one whose frame is being written
  ended,      \* those it waits for
  cut,        \* the park window was cut short
  swept,      \* the runs the sweep settles
  spc,        \* its goroutine for each of them
  overdue,    \* the deadline of the sweep has passed
  claims,     \* runs whose report somebody has taken
  landed,     \* runs whose claimed report has returned
  sent        \* ghost: who sent a terminal status of the run, in order

sweepvars == <<live, toend, asking, ended, cut, swept, spc, overdue>>
reportvars == <<claims, landed, sent>>
servevars == <<ppc, draining, shutdown, sweepvars, reportvars>>
vars == <<sessionvars, servevars>>

Sender == {"exit", "sweep"}

ShutdownTypeOK ==
  /\ SessionTypeOK
  /\ ppc \in {"serving", "draining", "listing", "ending", "parking",
              "sweeping", "settling", "closing", "exited"}
  /\ draining \in BOOLEAN /\ shutdown \in BOOLEAN /\ cut \in BOOLEAN /\ overdue \in BOOLEAN
  /\ toend \subseteq live /\ ended \subseteq live /\ swept \subseteq Runs
  /\ live \subseteq Runs /\ asking \in live \cup {None}
  /\ spc \in [Runs -> {"none", "check", "kill", "report", "sending", "wait", "done"}]
  /\ landed \subseteq claims /\ claims \subseteq Runs
  /\ sent \in [Runs -> Seq(Sender)]

Init ==
  /\ \E i \in Instances : SessionInit(i)
  /\ ppc = "serving" /\ draining = FALSE /\ shutdown = FALSE
  /\ live = {} /\ toend = {} /\ ended = {} /\ swept = {} /\ asking = None
  /\ cut = FALSE /\ overdue = FALSE
  /\ spc = [r \in Runs |-> "none"]
  /\ claims = {} /\ landed = {}
  /\ sent = [r \in Runs |-> <<>>]

Up == ppc # "exited"
Enter(s, p) == ppc = s /\ ppc' = p

-----------------------------------------------------------------------------
(* Requests, while the process lives.  DrainGate turns away what arrives    *)
(* after the flag; what passed it before goes on.                           *)

Admit(r) ==
  /\ Up /\ ~draining /\ stage[r] = "new"
  /\ stage' = SetTo(stage, r, "admitted")
  /\ UNCHANGED <<tracked, workervars, writervars, servevars>>

Track(r) ==
  /\ Up /\ stage[r] = "admitted" /\ tracked[CardOf[r]] = None
  /\ tracked' = SetTo(tracked, CardOf[r], r)
  /\ stage' = SetTo(stage, r, "up")
  /\ UNCHANGED <<workervars, writervars, servevars>>

Receive(k) ==
  /\ Up /\ ~draining /\ kpc[k] = "idle"
  /\ LookUp(k, Target[k])
  /\ UNCHANGED servevars

Handle(k) == Up /\ Frame(k) /\ UNCHANGED servevars

\* Nobody but the kernel runs a worker, and it outlives the serve process.
Work(r) == Worker(r) /\ UNCHANGED servevars

-----------------------------------------------------------------------------
(* The exit of a run: the supervisor gives the slot back before the exit    *)
(* callback, which cleans up and reports last.                              *)

Drop(r) ==
  /\ Up /\ stage[r] = "exited"
  /\ tracked' = IF tracked[CardOf[r]] = r THEN SetTo(tracked, CardOf[r], None) ELSE tracked
  /\ stage' = SetTo(stage, r, "dropped")
  /\ UNCHANGED <<workervars, writervars, servevars>>

\* exitReports.report: claims are kept once the shutdown has begun.
Claimed(r) == r \in claims
Claim(r) == claims' = IF shutdown THEN claims \cup {r} ELSE claims

\* Mutant of ReportExit: it does not ask who has taken the report.
ReportExitAlways(r) ==
  /\ Up /\ stage[r] = "dropped"
  /\ stage' = SetTo(stage, r, "sending") /\ Claim(r)
  /\ UNCHANGED <<tracked, workervars, writervars, ppc, draining, shutdown,
                 sweepvars, landed, sent>>

ReportExit(r) ==
  /\ Up /\ stage[r] = "dropped"
  /\ IF Claimed(r)
       THEN stage' = SetTo(stage, r, "over") /\ UNCHANGED claims
       ELSE stage' = SetTo(stage, r, "sending") /\ Claim(r)
  /\ UNCHANGED <<tracked, workervars, writervars, ppc, draining, shutdown,
                 sweepvars, landed, sent>>

\* The report has landed when ReportStatus returns: it may have given up and
\* left the status to a retry in the background, which Close cancels.
Sent(r, who) ==
  /\ sent' = [sent EXCEPT ![r] = Append(@, who)]
  /\ landed' = landed \cup ({r} \cap claims)

SendExit(r) ==
  /\ Up /\ stage[r] = "sending"
  /\ Sent(r, "exit")
  /\ stage' = SetTo(stage, r, "over")
  /\ UNCHANGED <<tracked, workervars, writervars, ppc, draining, shutdown,
                 sweepvars, claims>>

-----------------------------------------------------------------------------
(* gracefulShutdown.                                                        *)

BeginDrain ==
  /\ Enter("serving", "draining")
  /\ draining' = TRUE
  /\ UNCHANGED <<sessionvars, shutdown, sweepvars, reportvars>>

\* Before the snapshot, so that the exit callback of every listed run claims.
BeginShutdown ==
  /\ Enter("draining", "listing")
  /\ shutdown' = TRUE
  /\ UNCHANGED <<sessionvars, draining, sweepvars, reportvars>>

Tracked == {r \in Runs : tracked[CardOf[r]] = r}

Snapshot ==
  /\ Enter("listing", "ending")
  /\ live' = Tracked /\ toend' = Tracked
  /\ UNCHANGED <<sessionvars, draining, shutdown, asking, ended, cut, swept, spc,
                 overdue, reportvars>>

\* EndSession looks the run up by its card, whoever holds it by now.
EndOne(r) ==
  /\ ppc = "ending" /\ asking = None /\ r \in toend
  /\ LookUp(Serve, CardOf[r])
  /\ asking' = r /\ toend' = toend \ {r}
  /\ UNCHANGED <<ppc, draining, shutdown, live, ended, cut, swept, spc, overdue, reportvars>>

EndFrame == Up /\ Frame(Serve) /\ UNCHANGED servevars

\* Mutant of EndDone: it waits for the run it found instead of the one it listed.
EndDoneByCard ==
  /\ asking # None /\ kpc[Serve] \in {"done", "refused"}
  /\ asking' = None
  /\ ended' = IF kpc[Serve] = "refused" THEN ended ELSE ended \cup {krun[Serve]}
  /\ kpc' = SetTo(kpc, Serve, "idle") /\ krun' = SetTo(krun, Serve, None)
  /\ UNCHANGED <<tracked, stage, workervars, lock, recorded, acked, wrote, ppc, draining,
                 shutdown, live, toend, cut, swept, spc, overdue, reportvars>>

\* A run that is gone is waited for like one that was reached: its exit
\* callback may not have claimed yet.  One whose frame failed is not.
EndDone ==
  /\ asking # None /\ kpc[Serve] \in {"done", "refused"}
  /\ asking' = None
  /\ ended' = IF kpc[Serve] = "refused" /\ krun[Serve] # None THEN ended
              ELSE ended \cup {asking}
  /\ kpc' = SetTo(kpc, Serve, "idle") /\ krun' = SetTo(krun, Serve, None)
  /\ UNCHANGED <<tracked, stage, workervars, lock, recorded, acked, wrote, ppc, draining,
                 shutdown, live, toend, cut, swept, spc, overdue, reportvars>>

EndedAll ==
  /\ toend = {} /\ asking = None
  /\ Enter("ending", "parking")
  /\ UNCHANGED <<sessionvars, draining, shutdown, sweepvars, reportvars>>

\* Mutant of Parking: the wait ends as soon as the slots are free.
ParkingIsTracked(r) == r \in Tracked

\* Identity, so that a successor of the card is not waited for.
Parking(r) == r \in Tracked \/ ~Claimed(r)

AwaitPark ==
  /\ ~ \E r \in ended : Parking(r)
  /\ Enter("parking", "sweeping")
  /\ UNCHANGED <<sessionvars, draining, shutdown, sweepvars, reportvars>>

\* The park timeout, or a second signal.
CutShort ==
  /\ Enter("parking", "sweeping")
  /\ cut' = TRUE
  /\ UNCHANGED <<sessionvars, draining, shutdown, live, toend, ended, asking, swept,
                 spc, overdue, reportvars>>

\* The sweep settles what was listed and what has been admitted since.
Sweep ==
  /\ Enter("sweeping", "settling")
  /\ swept' = live \cup Tracked
  /\ spc' = [r \in Runs |-> IF r \in swept' THEN "check" ELSE "none"]
  /\ UNCHANGED <<sessionvars, draining, shutdown, live, toend, ended, asking, cut,
                 overdue, reportvars>>

-----------------------------------------------------------------------------
(* settle, a goroutine per run.                                             *)

SettleStep(r, p) == Up /\ spc[r] = p
SettleVars == <<draining, shutdown, live, toend, ended, asking, cut, swept, ppc>>

Check(r) ==
  /\ SettleStep(r, "check")
  /\ spc' = SetTo(spc, r, IF r \in Tracked THEN "kill" ELSE "report")
  /\ UNCHANGED <<sessionvars, SettleVars, overdue, reportvars>>

\* Kill works by card: it can hit a successor, or find nothing.  A kill that
\* fails leaves the worker running.
KillRun(r) ==
  /\ SettleStep(r, "kill")
  /\ \/ stage' = [q \in Runs |-> IF q = tracked[CardOf[r]] /\ stage[q] = "up"
                                   THEN "exited" ELSE stage[q]]
     \/ ("kill" \in Faults \/ overdue) /\ UNCHANGED stage
  /\ spc' = SetTo(spc, r, "report")
  /\ UNCHANGED <<tracked, workervars, writervars, SettleVars, overdue, reportvars>>

ReportSwept(r) ==
  /\ SettleStep(r, "report")
  /\ IF Claimed(r) THEN UNCHANGED claims ELSE Claim(r)
  /\ spc' = SetTo(spc, r, IF Claimed(r) THEN "wait" ELSE "sending")
  /\ UNCHANGED <<sessionvars, SettleVars, overdue, landed, sent>>

\* Past the deadline the request fails before it is made.
SendSwept(r) ==
  /\ SettleStep(r, "sending")
  /\ \/ Sent(r, "sweep")
     \/ overdue /\ landed' = landed \cup {r} /\ UNCHANGED sent
  /\ spc' = SetTo(spc, r, "done")
  /\ UNCHANGED <<sessionvars, SettleVars, overdue, claims>>

WaitLanded(r) ==
  /\ SettleStep(r, "wait")
  /\ r \in landed \/ overdue
  /\ spc' = SetTo(spc, r, "done")
  /\ UNCHANGED <<sessionvars, SettleVars, overdue, reportvars>>

Settle(r) == Check(r) \/ KillRun(r) \/ ReportSwept(r) \/ SendSwept(r) \/ WaitLanded(r)

Deadline ==
  /\ ppc = "settling" /\ ~overdue
  /\ overdue' = TRUE
  /\ UNCHANGED <<sessionvars, SettleVars, spc, reportvars>>

Settled ==
  /\ \A r \in swept : spc[r] = "done"
  /\ Enter("settling", "closing")
  /\ UNCHANGED <<sessionvars, draining, shutdown, sweepvars, reportvars>>

\* The listeners are closed, then the callback client; whatever goroutine is
\* left dies with the process.
Close ==
  /\ Enter("closing", "exited")
  /\ UNCHANGED <<sessionvars, draining, shutdown, sweepvars, reportvars>>

Main ==
  \/ BeginDrain \/ BeginShutdown \/ Snapshot \/ EndFrame \/ EndDone \/ EndedAll
  \/ AwaitPark \/ CutShort \/ Sweep \/ Deadline \/ Settled \/ Close
  \/ \E r \in Runs : EndOne(r) \/ Settle(r)

ExitStep(r) == Drop(r) \/ ReportExit(r) \/ SendExit(r)

Next ==
  \/ Main
  \/ \E k \in Calls : Receive(k) \/ Handle(k)
  \/ \E r \in Runs : Admit(r) \/ Track(r) \/ Work(r) \/ ExitStep(r)

Spec == Init /\ [][Next]_vars

\* Goroutines are scheduled, the park window and the sweep are bounded, and a
\* worker whose session has ended exits within its finalisation timeout.
Fairness ==
  /\ WF_vars(draining /\ Main)
  /\ \A k \in Calls : WF_vars(Handle(k))
  /\ \A r \in Runs : WF_vars(Work(r)) /\ WF_vars(ExitStep(r))

FairSpec == Spec /\ Fairness

-----------------------------------------------------------------------------
(* Properties.                                                              *)

\* No run's terminal status is sent twice, and when the process exits every
\* run the sweep had on its list has had one sent - unless the deadline of the
\* sweep passed (exitReports, onContainerExit and settle).
ReportedOnce ==
  \A r \in Runs :
    /\ Len(sent[r]) <= 1
    /\ ppc = "exited" /\ r \in swept /\ ~overdue => Len(sent[r]) = 1

\* The sweep does not report a run failed that shutdown waited for to the
\* end: such a run has parked and its own exit callback reports it completed,
\* also when the card has a successor by then (awaitPark, parking, tracked).
ParkedReportsItself ==
  \A r \in ended : ~cut => sent[r] # <<"sweep">>

\* A message whose caller was told it is delivered has been written to a
\* worker exactly once, over retries that arrive while the first attempt is
\* writing or has just failed (handleMessage).
AckedIsWritten ==
  \A m \in Messages : wrote[m] <= 1 /\ (m \in acked => wrote[m] = 1)

\* A worker that sleeps on a queued message, or on a closed inbox, has a
\* wake-up coming, though the pump queues and pings in two steps and Wait
\* looks and sleeps in two (Inbox).
NoWakeupLost ==
  \A r \in Runs :
    Alive(r) /\ wpc[r] = "asleep" /\ (pending[r] # <<>> \/ closed[r])
      => signal[r] \/ pump[r] = "ping"

\* A shutdown that has begun ends, with messages and end_session calls still
\* holding stdin locks and workers that no longer read (gracefulShutdown).
ShutdownEnds == draining ~> (ppc = "exited")

=============================================================================
