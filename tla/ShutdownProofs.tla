--------------------------- MODULE ShutdownProofs ---------------------------
(* Theorems about Shutdown, for any runs, cards, calls, messages and pipes.  *)
EXTENDS Shutdown, TLAPS

USE DEF workervars, writervars, sessionvars, sweepvars, reportvars, servevars, vars,
        SetTo, Step, Enter, Up, Alive

\* A step is one of a worker, one of a handler, or leaves the workers alone.
LEMMA WorkersMove ==
    ASSUME [Next]_vars
    PROVE  \/ \E r \in Runs : Worker(r)
           \/ \E k \in Writers : Frame(k)
           \/ UNCHANGED workervars
<1>1. CASE Main
  <2>1. CASE EndFrame
    BY <2>1 DEF EndFrame, Writers
  <2>2. ASSUME NEW r \in Runs, EndOne(r) \/ Settle(r)
        PROVE  UNCHANGED workervars
    BY <2>2 DEF EndOne, LookUp, Settle, Check, KillRun, ReportSwept, SendSwept, WaitLanded
  <2> QED
    BY <1>1, <2>1, <2>2 DEF Main, BeginDrain, BeginShutdown, Snapshot, EndDone, EndedAll,
       AwaitPark, CutShort, Sweep, Deadline, Settled, Close
<1>2. ASSUME NEW k \in Calls, Receive(k) \/ Handle(k)
      PROVE  Frame(k) \/ UNCHANGED workervars
  BY <1>2 DEF Receive, Handle, LookUp
<1>3. ASSUME NEW r \in Runs, Admit(r) \/ Track(r) \/ Work(r) \/ ExitStep(r)
      PROVE  Worker(r) \/ UNCHANGED workervars
  BY <1>3 DEF Admit, Track, Work, ExitStep, Drop, ReportExit, SendExit
<1> QED
  BY <1>1, <1>2, <1>3 DEF Next, Writers

-----------------------------------------------------------------------------
(* Type correctness. *)

USE SessionAssumption

Frames == Messages \cup {"promote", "end"}
WriterPlaces == {"idle", "verify", "locking", "writing", "done", "refused"}

\* Who is past its look-up has found a run, and the shutdown has one call at
\* a time.
Placed ==
  /\ \A k \in Writers : kpc[k] \in {"verify", "locking", "writing"} => krun[k] \in Runs
  /\ asking = None => kpc[Serve] = "idle"

SessionInv == SessionTypeOK /\ Placed /\ asking \in Runs \cup {None}

LEMMA KindTypes == \A k \in Writers : Kind(k) \in Frames
  BY DEF Kind, Frames, Messages, Writers

LEMMA LookUpTypes ==
    ASSUME SessionInv, NEW k \in Writers, NEW c \in Cards, LookUp(k, c)
    PROVE  SessionTypeOK' /\ (\A j \in Writers \ {k} : kpc'[j] = kpc[j] /\ krun'[j] = krun[j])
           /\ (kpc'[k] \in {"verify", "locking", "writing"} => krun'[k] \in Runs)
  BY DEF LookUp, SessionInv, SessionTypeOK, WorkerTypeOK, WriterTypeOK

LEMMA FrameTypes ==
    ASSUME SessionInv, NEW k \in Writers, Frame(k), asking' = asking
    PROVE  SessionInv'
<1> USE DEF SessionInv, SessionTypeOK, Placed, WriterTypeOK
<1>1. UNCHANGED <<tracked, stage>> /\ SessionTypeOK
  BY DEF Frame, Verify, Acquire, Write, WriteFails
<1>2. CASE Verify(k)
  <2>1. PICK p \in {"locking", "refused"} : kpc' = [kpc EXCEPT ![k] = p]
    BY <1>2 DEF Verify
  <2>2. UNCHANGED <<workervars, krun, lock, recorded, acked, wrote>> /\ kpc[k] = "verify"
    BY <1>2 DEF Verify
  <2>3. WorkerTypeOK' /\ WriterTypeOK'
    BY <2>1, <2>2 DEF WorkerTypeOK
  <2>4. Placed'
    BY <2>1, <2>2
  <2> QED
    BY <1>1, <2>3, <2>4
<1>3. CASE Acquire(k)
  <2>1. CardFor(k) \in Cards
    BY <1>3 DEF Acquire, CardFor
  <2>2. PICK p \in {"done", "writing"} : kpc' = [kpc EXCEPT ![k] = p]
    BY <1>3 DEF Acquire
  <2>3. UNCHANGED <<workervars, krun, wrote>> /\ kpc[k] = "locking"
    BY <1>3 DEF Acquire
  <2>4. /\ lock' \in [Cards -> Writers \cup {None}]
        /\ recorded' \subseteq Cards \X Messages
        /\ acked' \subseteq Messages
    BY <1>3, <2>1 DEF Acquire
  <2>5. WorkerTypeOK' /\ WriterTypeOK'
    BY <2>2, <2>3, <2>4 DEF WorkerTypeOK
  <2>6. Placed'
    BY <2>2, <2>3
  <2> QED
    BY <1>1, <2>5, <2>6
<1>4. CASE Write(k)
  <2> DEFINE r == krun[k]
  <2>1. r \in Runs /\ pipe[r] \in Seq(Frames) /\ Len(pipe[r]) < PipeRoom
    BY <1>4 DEF Write, Frames, WorkerTypeOK
  <2>2. Append(pipe[r], Kind(k)) \in Seq(Frames) /\ Len(Append(pipe[r], Kind(k))) <= PipeRoom
    BY <2>1, KindTypes
  <2>3. WorkerTypeOK'
    BY <1>4, <2>1, <2>2 DEF Write, Frames, WorkerTypeOK
  <2>4. lock' \in [Cards -> Writers \cup {None}]
    BY <1>4 DEF Write, CardFor
  <2>5. acked' \subseteq Messages /\ wrote' \in [Messages -> Nat]
    BY <1>4 DEF Write
  <2>6. WriterTypeOK' /\ Placed'
    BY <1>4, <2>4, <2>5 DEF Write
  <2> QED
    BY <1>1, <2>3, <2>6
<1>5. CASE WriteFails(k)
  <2>1. lock' \in [Cards -> Writers \cup {None}] /\ recorded' \subseteq Cards \X Messages
    BY <1>5 DEF WriteFails, CardFor, Forget
  <2>2. WriterTypeOK' /\ Placed'
    BY <1>5, <2>1 DEF WriteFails
  <2> QED
    BY <1>1, <1>5, <2>2 DEF WriteFails, WorkerTypeOK
<1> QED
  BY <1>2, <1>3, <1>4, <1>5 DEF Frame

LEMMA WorkerTypes ==
    ASSUME SessionInv, NEW r \in Runs, Worker(r), asking' = asking
    PROVE  SessionInv'
<1> USE DEF SessionInv, SessionTypeOK, WorkerTypeOK
<1>1. /\ UNCHANGED <<tracked, writervars>> /\ stage' \in [Runs -> Stages]
  BY DEF Worker, PumpFrame, Ping, WaitCheck, Sleep, Woken, Drain, SeeCancel, Finish,
         Exit, Stages
<1>2. WriterTypeOK' /\ Placed'
  BY <1>1 DEF WriterTypeOK, Placed
<1>3. CASE PumpFrame(r)
  <2>1. pipe[r] \in Seq(Frames) /\ pipe[r] # <<>>
    BY <1>3 DEF PumpFrame, Frames
  <2>2. /\ Head(pipe[r]) \in Frames /\ Tail(pipe[r]) \in Seq(Frames)
        /\ Len(Tail(pipe[r])) <= PipeRoom
    BY <2>1
  <2>3. pipe' \in [Runs -> Seq(Frames)] /\ \A q \in Runs : Len(pipe'[q]) <= PipeRoom
    BY <1>3, <2>2 DEF PumpFrame, Frames
  <2>4. UNCHANGED <<wpc, signal>>
    BY <1>3 DEF PumpFrame
  <2>5. CASE Head(pipe[r]) = "end"
    BY <1>1, <1>2, <1>3, <2>3, <2>4, <2>5 DEF PumpFrame, Frames
  <2>6. CASE Head(pipe[r]) = "promote"
    BY <1>1, <1>2, <1>3, <2>3, <2>4, <2>6 DEF PumpFrame, Frames
  <2>7. CASE Head(pipe[r]) \in Messages
    <3>1. Head(pipe[r]) # "end" /\ Head(pipe[r]) # "promote"
      BY <2>7 DEF Messages
    <3>2. Append(pending[r], Head(pipe[r])) \in Seq(Messages)
      BY <2>7
    <3>3. /\ pending' = [pending EXCEPT ![r] = Append(@, Head(pipe[r]))]
          /\ pump' = [pump EXCEPT ![r] = "ping"]
          /\ UNCHANGED <<closed, cancelled>>
      BY <1>3, <3>1 DEF PumpFrame
    <3>4. pending' \in [Runs -> Seq(Messages)] /\ pump' \in [Runs -> {"reading", "ping", "stopped"}]
      BY <3>2, <3>3
    <3> QED
      BY <1>1, <1>2, <2>3, <2>4, <3>3, <3>4 DEF Frames
  <2> QED
    BY <2>2, <2>5, <2>6, <2>7 DEF Frames
<1>4. CASE Ping(r)
  BY <1>1, <1>2, <1>4 DEF Ping, Pinged
<1>5. CASE WaitCheck(r)
  <2>1. pending' \in [Runs -> Seq(Messages)]
    BY <1>5 DEF WaitCheck
  <2> QED
    BY <1>1, <1>2, <1>5, <2>1 DEF WaitCheck
<1>6. CASE Sleep(r)
  BY <1>1, <1>2, <1>6 DEF Sleep
<1>7. CASE Woken(r)
  BY <1>1, <1>2, <1>7 DEF Woken
<1>8. CASE Drain(r)
  BY <1>1, <1>2, <1>8 DEF Drain
<1>9. CASE SeeCancel(r) \/ Finish(r)
  BY <1>1, <1>2, <1>9 DEF SeeCancel, Finish
<1>10. CASE Exit(r)
  BY <1>1, <1>2, <1>10 DEF Exit
<1> QED
  BY <1>3, <1>4, <1>5, <1>6, <1>7, <1>8, <1>9, <1>10 DEF Worker

LEMMA SessionStep == SessionInv /\ [Next]_vars => SessionInv'
<1> SUFFICES ASSUME SessionInv, [Next]_vars PROVE SessionInv'
  OBVIOUS
<1> USE DEF SessionInv, Placed
<1>1. ASSUME NEW r \in Runs, Work(r)
      PROVE  SessionInv'
  BY <1>1, WorkerTypes DEF Work
<1>2. ASSUME NEW k \in Calls, Handle(k)
      PROVE  SessionInv'
  BY <1>2, FrameTypes DEF Handle, Writers
<1>3. CASE EndFrame
  BY <1>3, FrameTypes DEF EndFrame, Writers
<1>4. ASSUME NEW k \in Calls, Receive(k)
      PROVE  SessionInv'
  <2>1. k \in Writers /\ k # Serve /\ Target[k] \in Cards /\ LookUp(k, Target[k])
    BY <1>4 DEF Receive, Writers
  <2>2. asking' = asking /\ Serve \in Writers
    BY <1>4 DEF Receive, Writers
  <2> QED
    BY <2>1, <2>2, LookUpTypes
<1>5. ASSUME NEW r \in Runs, EndOne(r)
      PROVE  SessionInv'
  <2>1. Serve \in Writers /\ CardOf[r] \in Cards /\ LookUp(Serve, CardOf[r]) /\ asking' = r
    BY <1>5 DEF EndOne, Writers
  <2>2. r # None
    OBVIOUS
  <2> QED
    BY <2>1, <2>2, LookUpTypes
<1>6. CASE EndDone
  BY <1>6 DEF EndDone, SessionTypeOK, WorkerTypeOK, WriterTypeOK, Writers
<1>7. ASSUME NEW r \in Runs, Admit(r) \/ Track(r) \/ ExitStep(r)
      PROVE  SessionInv'
  <2>1. tracked' \in [Cards -> Runs \cup {None}]
    BY <1>7 DEF Admit, Track, ExitStep, Drop, ReportExit, SendExit, SessionTypeOK
  <2>3. stage' \in [Runs -> Stages]
    BY <1>7 DEF Admit, Track, ExitStep, Drop, ReportExit, SendExit, SessionTypeOK, Stages
  <2>2. UNCHANGED <<workervars, writervars, asking>>
    BY <1>7 DEF Admit, Track, ExitStep, Drop, ReportExit, SendExit
  <2> QED
    BY <2>1, <2>2, <2>3 DEF SessionTypeOK, WorkerTypeOK, WriterTypeOK
<1>8. ASSUME NEW r \in Runs, KillRun(r)
      PROVE  SessionInv'
  <2>1. stage' \in [Runs -> Stages]
    BY <1>8 DEF KillRun, SessionTypeOK, Stages
  <2>2. UNCHANGED <<tracked, workervars, writervars, asking>>
    BY <1>8 DEF KillRun, SettleVars
  <2> QED
    BY <2>1, <2>2 DEF SessionTypeOK, WorkerTypeOK, WriterTypeOK
<1>9. CASE UNCHANGED <<sessionvars, asking>>
  BY <1>9 DEF SessionTypeOK, WorkerTypeOK, WriterTypeOK
<1>10. ASSUME NEW r \in Runs, Check(r) \/ ReportSwept(r) \/ SendSwept(r) \/ WaitLanded(r)
       PROVE  UNCHANGED <<sessionvars, asking>>
  BY <1>10 DEF Check, ReportSwept, SendSwept, WaitLanded, SettleVars
<1>11. CASE \/ BeginDrain \/ BeginShutdown \/ Snapshot \/ EndedAll
            \/ AwaitPark \/ CutShort \/ Sweep \/ Deadline \/ Settled \/ Close
  <2>1. UNCHANGED <<sessionvars, asking>>
    BY <1>11 DEF BeginDrain, BeginShutdown, Snapshot, EndedAll, AwaitPark, CutShort,
       Sweep, Deadline, Settled, Close, SettleVars
  <2> QED
    BY <2>1, <1>9
<1> QED
  BY <1>1, <1>2, <1>3, <1>4, <1>5, <1>6, <1>7, <1>8, <1>9, <1>10, <1>11
     DEF Next, Main, Settle

-----------------------------------------------------------------------------
(* No wake-up is lost.  What Wait may have missed since it looked has a ping *)
(* kept or coming, before it sleeps as well as in its sleep.                 *)

Waiting(r) == wpc[r] \in {"checked", "asleep"}
Missed(r) == pending[r] # <<>> \/ closed[r]

WakeInv == \A r \in Runs : Waiting(r) /\ Missed(r) => signal[r] \/ pump[r] = "ping"

LEMMA WakeInit == Init => WakeInv
  BY DEF Init, SessionInit, WakeInv, Waiting

LEMMA PumpWakes ==
    ASSUME WorkerTypeOK, WakeInv, NEW r \in Runs, PumpFrame(r) \/ Ping(r)
    PROVE  WakeInv'
<1>1. CASE PumpFrame(r)
  <2>1. UNCHANGED <<wpc, signal>> /\ pump[r] = "reading"
    BY <1>1 DEF PumpFrame
  <2>2. CASE Head(pipe[r]) = "end"
    BY <1>1, <2>1, <2>2 DEF PumpFrame, WorkerTypeOK, WakeInv, Waiting, Missed
  <2>3. CASE Head(pipe[r]) = "promote"
    BY <1>1, <2>1, <2>3 DEF PumpFrame, WorkerTypeOK, WakeInv, Waiting, Missed
  <2>4. CASE Head(pipe[r]) \notin {"end", "promote"}
    BY <1>1, <2>1, <2>4 DEF PumpFrame, WorkerTypeOK, WakeInv, Waiting, Missed
  <2> QED
    BY <2>2, <2>3, <2>4
<1>2. CASE Ping(r)
  BY <1>2 DEF Ping, Pinged, WorkerTypeOK, WakeInv, Waiting, Missed
<1> QED
  BY <1>1, <1>2

LEMMA WakeStep == WorkerTypeOK /\ WakeInv /\ [Next]_vars => WakeInv'
<1> SUFFICES ASSUME WorkerTypeOK, WakeInv, [Next]_vars
             PROVE  WakeInv'
  OBVIOUS
<1> USE DEF WorkerTypeOK, WakeInv, Waiting, Missed
<1>1. ASSUME NEW r \in Runs, Worker(r)
      PROVE  WakeInv'
  <2>1. CASE PumpFrame(r) \/ Ping(r)
    BY <2>1, PumpWakes
  <2>2. CASE WaitCheck(r)
    BY <2>2 DEF WaitCheck
  <2>3. CASE Sleep(r)
    BY <2>3 DEF Sleep
  <2>4. CASE Woken(r)
    BY <2>4 DEF Woken
  <2>5. CASE Drain(r)
    BY <2>5 DEF Drain
  <2>6. CASE SeeCancel(r) \/ Finish(r)
    BY <2>6 DEF SeeCancel, Finish
  <2>7. CASE Exit(r)
    BY <2>7 DEF Exit
  <2> QED
    BY <1>1, <2>1, <2>2, <2>3, <2>4, <2>5, <2>6, <2>7 DEF Worker
<1>2. ASSUME NEW k \in Writers, Frame(k)
      PROVE  WakeInv'
  BY <1>2 DEF Frame, Verify, Acquire, Write, WriteFails
<1>3. CASE UNCHANGED workervars
  BY <1>3
<1> QED
  BY <1>1, <1>2, <1>3, WorkersMove

-----------------------------------------------------------------------------
(* A report is claimed before it is sent.  Claims are kept from the moment   *)
(* the shutdown begins, which is before the list of runs is made: whoever is *)
(* on it has its report claimed, by its exit callback or by the sweep, and   *)
(* the claim tells that nothing has been sent yet.                           *)

ReportTypeOK ==
  /\ ppc \in {"serving", "draining", "listing", "ending", "parking",
              "sweeping", "settling", "closing", "exited"}
  /\ draining \in BOOLEAN /\ shutdown \in BOOLEAN /\ cut \in BOOLEAN /\ overdue \in BOOLEAN
  /\ toend \subseteq live /\ ended \subseteq live /\ swept \subseteq Runs
  /\ live \subseteq Runs /\ asking \in live \cup {None}
  /\ spc \in [Runs -> {"none", "check", "kill", "report", "sending", "wait", "done"}]
  /\ claims \subseteq Runs /\ landed \subseteq Runs
  /\ sent \in [Runs -> Seq(Sender)]

\* What the shutdown has not done yet.
PhaseInv ==
  /\ ppc \in {"serving", "draining"} <=> ~shutdown
  /\ ppc \in {"serving", "draining", "listing"} => live = {}
  /\ ppc \notin {"settling", "closing", "exited"}
       => swept = {} /\ \A r \in Runs : spc[r] = "none"
  /\ ppc \in {"closing", "exited"} => \A r \in swept : spc[r] = "done"

\* The tracker holds a run of the card whose exit callback has not begun.
HomeInv ==
  \A c \in Cards : tracked[c] # None =>
    CardOf[tracked[c]] = c /\ stage[tracked[c]] \in {"up", "exited"}

ClaimInv ==
  \A r \in Runs :
    /\ spc[r] # "none" => r \in swept
    /\ spc[r] \in {"sending", "wait", "done"} => r \in claims
    /\ r \in live \cup swept /\ stage[r] \in {"sending", "over"} => r \in claims
    /\ r \in landed => r \in claims

SentInv ==
  \A r \in Runs :
    /\ stage[r] = "sending" => sent[r] = <<>> /\ spc[r] # "sending"
    /\ spc[r] = "sending" => sent[r] = <<>>
    /\ sent[r] # <<>> => stage[r] = "over" \/ spc[r] = "done"
    /\ Len(sent[r]) <= 1

LandedInv ==
  ~overdue => \A r \in Runs :
    /\ spc[r] = "done" => r \in landed
    /\ r \in landed => sent[r] # <<>>

ReportInv == ReportTypeOK /\ PhaseInv /\ HomeInv /\ ClaimInv /\ SentInv /\ LandedInv

\* The steps of the workers and the handlers: a run may have come to its exit.
Outside ==
  /\ UNCHANGED <<tracked, servevars>>
  /\ stage' = stage \/ \E r \in Runs : Alive(r) /\ stage' = [stage EXCEPT ![r] = "exited"]

LEMMA OutsideReports ==
    ASSUME SessionInv, ReportInv, Outside
    PROVE  ReportInv'
<1>1. CASE stage' = stage
  BY <1>1 DEF Outside, ReportInv, ReportTypeOK, PhaseInv, HomeInv, ClaimInv, SentInv, LandedInv
<1>2. ASSUME NEW r \in Runs, stage[r] = "up", stage' = [stage EXCEPT ![r] = "exited"]
      PROVE  ReportInv'
  <2>1. ReportTypeOK' /\ PhaseInv' /\ LandedInv'
    BY DEF Outside, ReportInv, ReportTypeOK, PhaseInv, LandedInv
  <2>2. HomeInv'
    BY <1>2 DEF Outside, ReportInv, HomeInv, SessionInv, SessionTypeOK
  <2>3. ClaimInv' /\ SentInv'
    BY <1>2 DEF Outside, ReportInv, ClaimInv, SentInv, SessionInv, SessionTypeOK
  <2> QED
    BY <2>1, <2>2, <2>3 DEF ReportInv
<1> QED
  BY <1>1, <1>2 DEF Outside

LEMMA OutsideSteps ==
    /\ \A r \in Runs : Work(r) => Outside
    /\ \A k \in Calls : Receive(k) \/ Handle(k) => Outside
    /\ EndFrame => Outside
<1>1. ASSUME NEW k \in Writers, Frame(k) PROVE UNCHANGED <<tracked, stage>>
  BY <1>1 DEF Frame, Verify, Acquire, Write, WriteFails
<1>2. ASSUME NEW k \in Calls, Receive(k) \/ Handle(k) PROVE Outside
  BY <1>1, <1>2 DEF Receive, LookUp, Handle, Writers, Outside
<1>3. ASSUME NEW r \in Runs, Work(r) PROVE Outside
  BY <1>3 DEF Work, Worker, PumpFrame, Ping, WaitCheck, Sleep, Woken, Drain, SeeCancel,
     Finish, Exit, Outside
<1>4. EndFrame => Outside
  BY <1>1 DEF EndFrame, Writers, Outside
<1> QED
  BY <1>2, <1>3, <1>4

LEMMA FirstReport ==
    ASSUME NEW who \in Sender
    PROVE  /\ Append(<<>>, who) = <<who>> /\ <<who>> # <<>>
           /\ <<who>> \in Seq(Sender) /\ Len(<<who>>) = 1
  OBVIOUS

\* Admission and the exit callback.
LEMMA RunReports ==
    ASSUME SessionInv, ReportInv, NEW r \in Runs, Admit(r) \/ Track(r) \/ ExitStep(r)
    PROVE  ReportInv'
<1> USE DEF ReportInv, SessionInv, SessionTypeOK
<1>1. CASE Admit(r) \/ Track(r) \/ Drop(r)
  <2>1. UNCHANGED servevars
    BY <1>1 DEF Admit, Track, Drop
  <2>2. ReportTypeOK' /\ PhaseInv' /\ LandedInv'
    BY <2>1 DEF ReportTypeOK, PhaseInv, LandedInv
  <2>3. HomeInv'
    BY <1>1 DEF Admit, Track, Drop, HomeInv
  <2>4. ClaimInv' /\ SentInv'
    BY <1>1, <2>1 DEF Admit, Track, Drop, ClaimInv, SentInv
  <2> QED
    BY <2>2, <2>3, <2>4
<1>2. CASE ReportExit(r)
  <2>1. ReportTypeOK' /\ PhaseInv' /\ LandedInv'
    BY <1>2 DEF ReportExit, Claim, ReportTypeOK, PhaseInv, LandedInv
  <2>2. HomeInv'
    BY <1>2 DEF ReportExit, HomeInv
  <2>3. ClaimInv'
    BY <1>2 DEF ReportExit, Claim, Claimed, ClaimInv, PhaseInv, ReportTypeOK
  <2>4. SentInv'
    BY <1>2 DEF ReportExit, Claimed, ClaimInv, SentInv, ReportTypeOK
  <2> QED
    BY <2>1, <2>2, <2>3, <2>4
<1>3. CASE SendExit(r)
  <2> DEFINE one == <<"exit">>
  <2>0. one = Append(<<>>, "exit") /\ one # <<>> /\ one \in Seq(Sender) /\ Len(one) = 1
    BY FirstReport DEF Sender
  <2> HIDE DEF one
  <2>1. sent[r] = <<>> /\ sent' = [sent EXCEPT ![r] = one]
    BY <1>3, <2>0 DEF SendExit, Sent, SentInv
  <2>2. ReportTypeOK' /\ PhaseInv'
    BY <1>3, <2>0, <2>1 DEF SendExit, Sent, ReportTypeOK, PhaseInv
  <2>3. HomeInv'
    BY <1>3 DEF SendExit, HomeInv
  <2>4. ClaimInv'
    BY <1>3 DEF SendExit, Sent, ClaimInv
  <2>5. SentInv'
    BY <1>3, <2>0, <2>1 DEF SendExit, SentInv, ReportTypeOK
  <2>6. LandedInv'
    BY <1>3, <2>0, <2>1 DEF SendExit, Sent, LandedInv, ReportTypeOK
  <2> QED
    BY <2>2, <2>3, <2>4, <2>5, <2>6
<1> QED
  BY <1>1, <1>2, <1>3 DEF ExitStep

\* The main goroutine, up to the sweep and after it.
LEMMA MainReports ==
    ASSUME SessionInv, ReportInv,
           \/ BeginDrain \/ BeginShutdown \/ Snapshot \/ EndDone \/ EndedAll
           \/ AwaitPark \/ CutShort \/ Sweep \/ Deadline \/ Settled \/ Close
           \/ \E r \in Runs : EndOne(r)
    PROVE  ReportInv'
<1> USE DEF ReportInv, SessionInv, SessionTypeOK
<1>1. CASE BeginDrain \/ BeginShutdown \/ EndedAll \/ AwaitPark \/ CutShort
  <2>1. UNCHANGED <<tracked, stage, live, swept, spc, overdue, claims, landed, sent>>
    BY <1>1 DEF BeginDrain, BeginShutdown, EndedAll, AwaitPark, CutShort
  <2>2. ReportTypeOK'
    BY <1>1, <2>1 DEF BeginDrain, BeginShutdown, EndedAll, AwaitPark, CutShort, ReportTypeOK
  <2>3. PhaseInv'
    BY <1>1, <2>1 DEF BeginDrain, BeginShutdown, EndedAll, AwaitPark, CutShort, PhaseInv, ReportTypeOK
  <2> QED
    BY <2>1, <2>2, <2>3 DEF HomeInv, ClaimInv, SentInv, LandedInv
<1>2. CASE Settled \/ Close
  <2>1. UNCHANGED <<tracked, stage, live, swept, spc, overdue, claims, landed, sent>>
    BY <1>2 DEF Settled, Close
  <2>2. ReportTypeOK' /\ PhaseInv'
    BY <1>2, <2>1 DEF Settled, Close, PhaseInv, ReportTypeOK
  <2> QED
    BY <2>1, <2>2 DEF HomeInv, ClaimInv, SentInv, LandedInv
<1>3. CASE Deadline
  <2>1. UNCHANGED <<tracked, stage, live, swept, spc, claims, landed, sent, ppc, shutdown>>
    BY <1>3 DEF Deadline, SettleVars
  <2>2. ReportTypeOK' /\ PhaseInv'
    BY <1>3, <2>1 DEF Deadline, SettleVars, PhaseInv, ReportTypeOK
  <2>3. LandedInv'
    BY <1>3 DEF Deadline, LandedInv
  <2> QED
    BY <2>1, <2>2, <2>3 DEF HomeInv, ClaimInv, SentInv
<1>4. CASE EndDone \/ \E r \in Runs : EndOne(r)
  <2>1. UNCHANGED <<tracked, stage, live, swept, spc, overdue, claims, landed, sent, ppc,
                    draining, shutdown, cut>>
    BY <1>4 DEF EndDone, EndOne, LookUp
  <2>2. ReportTypeOK'
    BY <1>4, <2>1 DEF EndDone, EndOne, ReportTypeOK
  <2> QED
    BY <2>1, <2>2 DEF PhaseInv, HomeInv, ClaimInv, SentInv, LandedInv
<1>5. CASE Snapshot
  <2>1. ReportTypeOK' /\ PhaseInv'
    BY <1>5 DEF Snapshot, Tracked, ReportTypeOK, PhaseInv
  <2>2. \A r \in live' : stage[r] \in {"up", "exited"}
    BY <1>5 DEF Snapshot, Tracked, HomeInv
  <2>3. ClaimInv'
    BY <1>5, <2>2 DEF Snapshot, ClaimInv, PhaseInv
  <2> QED
    BY <1>5, <2>1, <2>3 DEF Snapshot, HomeInv, SentInv, LandedInv
<1>6. CASE Sweep
  <2>1. ReportTypeOK' /\ PhaseInv'
    BY <1>6 DEF Sweep, Tracked, ReportTypeOK, PhaseInv
  <2>2. \A r \in swept' : r \in live \/ stage[r] \in {"up", "exited"}
    BY <1>6 DEF Sweep, Tracked, HomeInv
  <2>3. \A r \in Runs : spc[r] = "none" /\ spc'[r] \in {"check", "none"} /\ (spc'[r] # "none" => r \in swept')
    BY <1>6 DEF Sweep, PhaseInv
  <2>4. UNCHANGED <<tracked, stage, live, overdue, claims, landed, sent>>
    BY <1>6 DEF Sweep
  <2>5. ClaimInv'
    BY <2>2, <2>3, <2>4 DEF ClaimInv
  <2>6. SentInv' /\ LandedInv' /\ HomeInv'
    BY <2>3, <2>4 DEF SentInv, LandedInv, HomeInv
  <2> QED
    BY <2>1, <2>5, <2>6
<1> QED
  BY <1>1, <1>2, <1>3, <1>4, <1>5, <1>6

\* The sweep's goroutine for a run.
LEMMA SettleReports ==
    ASSUME SessionInv, ReportInv, NEW r \in Runs, Settle(r)
    PROVE  ReportInv'
<1> USE DEF ReportInv, SessionInv, SessionTypeOK, SettleStep
<1>1. /\ UNCHANGED <<tracked, SettleVars>> /\ spc[r] # "none" /\ spc[r] # "done"
      /\ \E p \in {"kill", "report", "sending", "wait", "done"} : spc' = [spc EXCEPT ![r] = p]
  BY DEF Settle, Check, KillRun, ReportSwept, SendSwept, WaitLanded
<1>2. r \in swept /\ ppc = "settling" /\ shutdown
  BY <1>1 DEF ClaimInv, PhaseInv, ReportTypeOK
<1>3. PhaseInv'
  BY <1>1, <1>2 DEF PhaseInv, SettleVars, ReportTypeOK
<1>4. CASE Check(r)
  <2>1. UNCHANGED <<stage, overdue, claims, landed, sent>>
        /\ \E p \in {"kill", "report"} : spc' = [spc EXCEPT ![r] = p]
    BY <1>4 DEF Check
  <2>2. ReportTypeOK' /\ HomeInv'
    BY <1>1, <2>1 DEF SettleVars, ReportTypeOK, HomeInv
  <2>3. ClaimInv' /\ SentInv' /\ LandedInv'
    BY <1>1, <1>2, <2>1 DEF SettleVars, ReportTypeOK, ClaimInv, SentInv, LandedInv
  <2> QED
    BY <1>3, <2>2, <2>3
<1>5. CASE KillRun(r)
  <2>1. UNCHANGED <<overdue, claims, landed, sent>> /\ spc' = [spc EXCEPT ![r] = "report"]
    BY <1>5 DEF KillRun
  <2>2. \A q \in Runs : stage'[q] = stage[q] \/ (stage[q] = "up" /\ stage'[q] = "exited")
    BY <1>5 DEF KillRun
  <2>3. ReportTypeOK' /\ HomeInv'
    BY <1>1, <2>1, <2>2 DEF SettleVars, ReportTypeOK, HomeInv
  <2>4. ClaimInv' /\ SentInv' /\ LandedInv'
    BY <1>1, <1>2, <2>1, <2>2 DEF SettleVars, ReportTypeOK, ClaimInv, SentInv, LandedInv
  <2> QED
    BY <1>3, <2>3, <2>4
<1>6. CASE ReportSwept(r)
  <2>1. UNCHANGED <<stage, overdue, landed, sent>> /\ spc[r] = "report"
        /\ claims' = claims \cup {r}
        /\ spc' = [spc EXCEPT ![r] = IF r \in claims THEN "wait" ELSE "sending"]
    BY <1>2, <1>6 DEF ReportSwept, Claimed, Claim
  <2>2. ReportTypeOK' /\ HomeInv'
    BY <1>1, <2>1 DEF SettleVars, ReportTypeOK, HomeInv
  <2>3. ClaimInv' /\ LandedInv'
    BY <1>1, <1>2, <2>1 DEF SettleVars, ReportTypeOK, ClaimInv, LandedInv
  <2>4. r \notin claims => sent[r] = <<>> /\ stage[r] # "sending"
    BY <1>2, <2>1 DEF ClaimInv, SentInv
  <2>5. SentInv'
    BY <2>1, <2>4 DEF SentInv, ReportTypeOK
  <2> QED
    BY <1>3, <2>2, <2>3, <2>5
<1>7. CASE SendSwept(r)
  <2> DEFINE one == <<"sweep">>
  <2>0. one = Append(<<>>, "sweep") /\ one # <<>> /\ one \in Seq(Sender) /\ Len(one) = 1
    BY FirstReport DEF Sender
  <2> HIDE DEF one
  <2>1. UNCHANGED <<stage, overdue, claims>> /\ spc[r] = "sending" /\ spc' = [spc EXCEPT ![r] = "done"]
        /\ r \in claims /\ sent[r] = <<>> /\ stage[r] # "sending"
    BY <1>7 DEF SendSwept, ClaimInv, SentInv
  <2>2. landed' = landed \cup {r} /\ (sent' = [sent EXCEPT ![r] = one] \/ (overdue /\ sent' = sent))
    BY <1>7, <2>0, <2>1 DEF SendSwept, Sent
  <2>3. sent' \in [Runs -> Seq(Sender)]
    BY <2>0, <2>2 DEF ReportTypeOK
  <2>4. ReportTypeOK' /\ HomeInv'
    BY <1>1, <2>1, <2>2, <2>3 DEF SettleVars, ReportTypeOK, HomeInv
  <2>5. ClaimInv'
    BY <1>1, <1>2, <2>1, <2>2 DEF SettleVars, ReportTypeOK, ClaimInv
  <2>6. SentInv'
    <3>1. sent'[r] = sent[r] \/ sent'[r] = one
      BY <2>2 DEF ReportTypeOK
    <3>2. Len(sent'[r]) <= 1
      <4>1. Len(sent[r]) <= 1
        BY DEF SentInv
      <4>2. Len(one) <= 1
        BY <2>0
      <4> QED
        BY <3>1, <4>1, <4>2
    <3>3. spc'[r] = "done"
      BY <2>1 DEF ReportTypeOK
    <3>4. \A q \in Runs \ {r} : sent'[q] = sent[q] /\ spc'[q] = spc[q]
      BY <2>1, <2>2 DEF ReportTypeOK
    <3> QED
      BY <2>1, <3>2, <3>3, <3>4 DEF SentInv
  <2>7. LandedInv'
    BY <2>0, <2>1, <2>2 DEF LandedInv, ReportTypeOK
  <2> QED
    BY <1>3, <2>4, <2>5, <2>6, <2>7
<1>8. CASE WaitLanded(r)
  <2>1. UNCHANGED <<stage, overdue, claims, landed, sent>> /\ spc[r] = "wait"
        /\ (r \in landed \/ overdue) /\ spc' = [spc EXCEPT ![r] = "done"]
    BY <1>8 DEF WaitLanded
  <2>2. ReportTypeOK' /\ HomeInv'
    BY <1>1, <2>1 DEF SettleVars, ReportTypeOK, HomeInv
  <2>3. ClaimInv' /\ SentInv' /\ LandedInv'
    BY <1>1, <1>2, <2>1 DEF SettleVars, ReportTypeOK, ClaimInv, SentInv, LandedInv
  <2> QED
    BY <1>3, <2>2, <2>3
<1> QED
  BY <1>4, <1>5, <1>6, <1>7, <1>8 DEF Settle

LEMMA ReportStep == SessionInv /\ ReportInv /\ [Next]_vars => ReportInv'
<1> SUFFICES ASSUME SessionInv, ReportInv, [Next]_vars PROVE ReportInv'
  OBVIOUS
<1>1. CASE UNCHANGED vars
  BY <1>1 DEF ReportInv, ReportTypeOK, PhaseInv, HomeInv, ClaimInv, SentInv, LandedInv
<1>2. ASSUME NEW r \in Runs, Work(r) PROVE ReportInv'
  BY <1>2, OutsideSteps, OutsideReports
<1>3. ASSUME NEW k \in Calls, Receive(k) \/ Handle(k) PROVE ReportInv'
  BY <1>3, OutsideSteps, OutsideReports
<1>4. CASE EndFrame
  BY <1>4, OutsideSteps, OutsideReports
<1> QED
  BY <1>1, <1>2, <1>3, <1>4, RunReports, MainReports, SettleReports DEF Next, Main

\* A write holds the lock of its card, and the record of a message says that
\* it is written or that whoever holds the lock is writing it.
LockInv == \A k \in Writers : kpc[k] = "writing" => lock[CardFor(k)] = k

TargetInv ==
  \A k \in Calls : kpc[k] \in {"verify", "locking", "writing"} => CardFor(k) = Target[k]

Tried(k) == <<Target[k], KindOf[k]>> \in recorded
Unwritten(m) == m \notin acked /\ wrote[m] = 0
Writing(m) == \E k \in Calls : kpc[k] = "writing" /\ KindOf[k] = m

RecordInv ==
  \A k \in Calls : KindOf[k] \in Messages =>
    /\ kpc[k] = "writing" => Tried(k) /\ Unwritten(KindOf[k])
    /\ ~Tried(k) => Unwritten(KindOf[k])
    /\ Tried(k) => wrote[KindOf[k]] = 1 \/ Writing(KindOf[k])

DeliverInv == LockInv /\ TargetInv /\ RecordInv

USE MessageAssumption

LEMMA MessageKinds ==
    /\ \A k \in Writers : Kind(k) \in Messages => k \in Calls /\ Kind(k) = KindOf[k]
    /\ \A k \in Calls : Kind(k) = KindOf[k] /\ k \in Writers
    /\ \A m \in Messages : \E k \in Calls : KindOf[k] = m
    /\ \A m \in Messages : m \notin {"promote", "end"}
  BY DEF Kind, Messages, Writers

\* Nothing of what a write and its record are told by has changed.
LEMMA FrameDelivers ==
    ASSUME SessionInv, HomeInv, DeliverInv, NEW k \in Writers, Frame(k)
    PROVE  DeliverInv'
<1> USE DEF SessionInv, SessionTypeOK, WriterTypeOK, Placed
<1>1. UNCHANGED krun /\ krun[k] \in Runs /\ CardFor(k) \in Cards
  BY DEF Frame, Verify, Acquire, Write, WriteFails, CardFor
<1>2. \A j \in Writers : CardFor(j)' = CardFor(j)
  BY <1>1 DEF CardFor
<1>3. TargetInv'
  BY <1>2 DEF Frame, Verify, Acquire, Write, WriteFails, DeliverInv, TargetInv, Writers
<1>4. k \in Calls => CardFor(k) = Target[k] /\ Kind(k) = KindOf[k]
  BY MessageKinds DEF Frame, Verify, Acquire, Write, WriteFails, DeliverInv, TargetInv
<1>5. CASE Verify(k)
  <2>1. UNCHANGED <<lock, recorded, acked, wrote>>
        /\ \A j \in Writers : kpc'[j] = "writing" <=> kpc[j] = "writing"
    BY <1>5 DEF Verify
  <2>2. LockInv'
    BY <1>2, <2>1 DEF DeliverInv, LockInv
  <2>3. RecordInv'
    BY <2>1 DEF DeliverInv, RecordInv, Tried, Unwritten, Writing, Writers
  <2> QED
    BY <1>3, <2>2, <2>3 DEF DeliverInv
<1>6. CASE Acquire(k) /\ Kind(k) \in Messages /\ Known(k)
  <2> DEFINE m == KindOf[k]
  <2>1. k \in Calls /\ Kind(k) = m /\ m \in Messages /\ Tried(k)
    BY <1>4, <1>6, MessageKinds DEF Known, Tried
  <2>2. UNCHANGED <<lock, recorded, wrote>> /\ acked' = acked \cup {m}
        /\ kpc' = [kpc EXCEPT ![k] = "done"] /\ kpc[k] = "locking"
        /\ lock[CardFor(k)] = None
    BY <1>6, <2>1 DEF Acquire
  <2>3. LockInv'
    BY <1>2, <2>2 DEF DeliverInv, LockInv
  <2>4. \A j \in Calls : KindOf[j] = m => kpc[j] # "writing"
    <3>1. \A j \in Calls : KindOf[j] = m => Target[j] = Target[k]
      BY <2>1
    <3>2. \A j \in Calls : kpc[j] = "writing" => lock[Target[j]] = j
      BY DEF DeliverInv, LockInv, TargetInv, Writers
    <3> QED
      BY <1>4, <2>1, <2>2, <3>1, <3>2
  <2>5. wrote[m] = 1
    BY <2>1, <2>4 DEF DeliverInv, RecordInv, Writing
  <2>6. \A j \in Calls : kpc'[j] = "writing" <=> kpc[j] = "writing"
    BY <2>2 DEF Writers
  <2>7. \A j \in Calls : KindOf[j] = m => Tried(j)
    BY <2>1 DEF Tried
  <2>8. RecordInv'
    BY <2>2, <2>4, <2>5, <2>6, <2>7 DEF DeliverInv, RecordInv, Tried, Unwritten, Writing
  <2> QED
    BY <1>3, <2>3, <2>8 DEF DeliverInv
<1>7. CASE Acquire(k) /\ ~(Kind(k) \in Messages /\ Known(k))
  <2>1. UNCHANGED <<acked, wrote>> /\ lock' = [lock EXCEPT ![CardFor(k)] = k]
        /\ recorded' = recorded \cup ({<<CardFor(k), Kind(k)>>} \cap (Cards \X Messages))
        /\ kpc' = [kpc EXCEPT ![k] = "writing"]
        /\ lock[CardFor(k)] = None
    BY <1>7 DEF Acquire
  <2>2. LockInv'
    <3>1. lock'[CardFor(k)] = k
      BY <1>1, <2>1
    <3>2. ASSUME NEW j \in Writers \ {k}, kpc'[j] = "writing"
          PROVE  lock'[CardFor(j)] = j
      <4>1. lock[CardFor(j)] = j /\ j # None
        BY <2>1, <3>2 DEF DeliverInv, LockInv, Writers
      <4> QED
        BY <2>1, <4>1
    <3> QED
      BY <1>2, <3>1, <3>2 DEF LockInv
  <2>3. CASE Kind(k) \notin Messages
    <3>1. recorded' = recorded
      BY <2>1, <2>3
    <3>2. \A j \in Calls : KindOf[j] \in Messages => (kpc'[j] = "writing" <=> kpc[j] = "writing")
      BY <1>4, <2>1, <2>3 DEF Writers
    <3> QED
      BY <1>3, <2>1, <2>2, <3>1, <3>2, MessageKinds
         DEF DeliverInv, RecordInv, Tried, Unwritten, Writing
  <2>4. CASE Kind(k) \in Messages
    <3> DEFINE m == KindOf[k]
    <3>1. k \in Calls /\ Kind(k) = m /\ m \in Messages /\ ~Tried(k)
      BY <1>4, <1>7, <2>4, MessageKinds DEF Known, Tried
    <3>2. Unwritten(m)
      BY <3>1 DEF DeliverInv, RecordInv
    <3>3. recorded' = recorded \cup {<<Target[k], m>>}
      BY <1>1, <1>4, <2>1, <3>1
    <3>4. \A j \in Calls : KindOf[j] = m => Target[j] = Target[k]
      BY <3>1
    <3>5. \A j \in Calls : j # k => kpc'[j] = kpc[j]
      BY <2>1 DEF Writers
    <3>6. kpc'[k] = "writing"
      BY <2>1
    <3>7. \A j \in Calls : KindOf[j] # m => (Tried(j)' <=> Tried(j))
      BY <3>3 DEF Tried
    <3>8. \A j \in Calls : KindOf[j] = m => Tried(j)' /\ Writing(m)'
      BY <3>1, <3>3, <3>4, <3>6 DEF Tried, Writing
    <3>9. \A x \in Messages : Writing(x) => Writing(x)'
      BY <3>1, <3>5, <3>6 DEF Writing
    <3>10. \A x : Unwritten(x)' <=> Unwritten(x)
      BY <2>1 DEF Unwritten
    <3>11. RecordInv'
      BY <2>1, <3>1, <3>2, <3>5, <3>7, <3>8, <3>9, <3>10 DEF DeliverInv, RecordInv
    <3> QED
      BY <1>3, <2>2, <3>11 DEF DeliverInv
  <2> QED
    BY <2>3, <2>4
<1>8. CASE Write(k) \/ WriteFails(k)
  <2>1. kpc[k] = "writing" /\ lock[CardFor(k)] = k /\ lock' = [lock EXCEPT ![CardFor(k)] = None]
        /\ \E p \in {"done", "refused"} : kpc' = [kpc EXCEPT ![k] = p]
    BY <1>8 DEF Write, WriteFails, DeliverInv, LockInv
  <2>2. LockInv'
    BY <1>2, <2>1 DEF DeliverInv, LockInv
  <2>3. \A j \in Calls : j # k => kpc'[j] = kpc[j]
    BY <2>1 DEF Writers
  <2>4. CASE Kind(k) \notin Messages
    <3>0. Forget(k) = recorded
      BY <2>4 DEF Forget
    <3>1. UNCHANGED <<acked, wrote, recorded>>
      BY <1>8, <2>4, <3>0 DEF Write, WriteFails
    <3>2. \A j \in Calls : KindOf[j] \in Messages => kpc'[j] = kpc[j]
      BY <1>4, <2>3, <2>4
    <3>3. /\ \A j \in Calls : Tried(j)' <=> Tried(j)
          /\ \A x \in Messages : (Unwritten(x)' <=> Unwritten(x)) /\ wrote'[x] = wrote[x]
      BY <3>1 DEF Tried, Unwritten
    <3>4. \A x \in Messages : Writing(x) => Writing(x)'
      BY <3>2 DEF Writing
    <3>5. RecordInv'
      BY <3>2, <3>3, <3>4 DEF DeliverInv, RecordInv
    <3> QED
      BY <1>3, <2>2, <3>5 DEF DeliverInv
  <2>5. CASE Kind(k) \in Messages
    <3> DEFINE m == KindOf[k]
    <3>1. k \in Calls /\ Kind(k) = m /\ m \in Messages /\ Tried(k) /\ Unwritten(m)
      BY <1>4, <2>1, <2>5, MessageKinds DEF DeliverInv, RecordInv
    <3>2. \A j \in Calls : KindOf[j] = m => Target[j] = Target[k]
      BY <3>1
    <3>3. \A j \in Calls : j # k /\ KindOf[j] = m => kpc[j] # "writing" /\ kpc'[j] # "writing"
      <4>1. \A j \in Calls : kpc[j] = "writing" => lock[Target[j]] = j
        BY DEF DeliverInv, LockInv, TargetInv, Writers
      <4> QED
        BY <1>4, <2>1, <2>3, <3>1, <3>2, <4>1
    <3>4. kpc'[k] # "writing"
      BY <2>1
    <3>5. \A x \in Messages \ {m} : Writing(x) => Writing(x)'
      BY <2>3, <3>1 DEF Writing
    <3>6. CASE Write(k)
      <4>1. recorded' = recorded /\ acked' = acked \cup {m} /\ wrote' = [wrote EXCEPT ![m] = @ + 1]
        BY <3>1, <3>6 DEF Write
      <4>2. wrote'[m] = 1
        BY <3>1, <4>1 DEF Unwritten
      <4>3. \A j \in Calls : Tried(j)' <=> Tried(j)
        BY <4>1 DEF Tried
      <4>4. \A x \in Messages \ {m} : (Unwritten(x)' <=> Unwritten(x)) /\ wrote'[x] = wrote[x]
        BY <4>1 DEF Unwritten
      <4>5. \A j \in Calls : KindOf[j] = m => Tried(j)
        BY <3>1, <3>2 DEF Tried
      <4>6. RecordInv'
        BY <2>3, <3>1, <3>3, <3>4, <3>5, <4>2, <4>3, <4>4, <4>5 DEF DeliverInv, RecordInv
      <4> QED
        BY <1>3, <2>2, <4>6 DEF DeliverInv
    <3>7. CASE WriteFails(k)
      <4>1. recorded' = recorded \ {<<Target[k], m>>} /\ UNCHANGED <<acked, wrote>>
        BY <1>4, <3>1, <3>7 DEF WriteFails, Forget
      <4>2. \A j \in Calls : KindOf[j] = m => ~Tried(j)'
        BY <3>2, <4>1 DEF Tried
      <4>3. \A j \in Calls : KindOf[j] # m => (Tried(j)' <=> Tried(j))
        BY <4>1 DEF Tried
      <4>4. \A x : (Unwritten(x)' <=> Unwritten(x)) /\ wrote'[x] = wrote[x]
        BY <4>1 DEF Unwritten
      <4>5. RecordInv'
        BY <2>3, <3>1, <3>3, <3>4, <3>5, <4>2, <4>3, <4>4 DEF DeliverInv, RecordInv
      <4> QED
        BY <1>3, <2>2, <4>5 DEF DeliverInv
    <3> QED
      BY <1>8, <3>6, <3>7
  <2> QED
    BY <2>4, <2>5
<1> QED
  BY <1>5, <1>6, <1>7, <1>8 DEF Frame

\* A look-up finds a run of the card it names, and looks up for nobody who
\* is writing.
LEMMA LookUpDelivers ==
    ASSUME SessionInv, HomeInv, DeliverInv, NEW k \in Writers, NEW c \in Cards,
           LookUp(k, c), kpc[k] = "idle", k \in Calls => c = Target[k]
    PROVE  DeliverInv'
<1> USE DEF SessionInv, SessionTypeOK, WriterTypeOK
<1>1. UNCHANGED <<lock, recorded, acked, wrote>>
      /\ krun' = [krun EXCEPT ![k] = tracked[c]]
      /\ \E p \in {"refused", "verify", "locking"} : kpc' = [kpc EXCEPT ![k] = p]
  BY DEF LookUp
<1>2. kpc'[k] # "refused" => krun'[k] \in Runs /\ CardOf[krun'[k]] = c
  BY DEF LookUp, HomeInv
<1>3. \A j \in Writers \ {k} : kpc'[j] = kpc[j] /\ krun'[j] = krun[j]
  BY <1>1
<1>4. LockInv'
  BY <1>1, <1>3 DEF DeliverInv, LockInv, CardFor
<1>5. TargetInv'
  BY <1>1, <1>2, <1>3 DEF DeliverInv, TargetInv, CardFor, Writers
<1>6. \A j \in Calls : kpc'[j] = "writing" <=> kpc[j] = "writing"
  BY <1>1 DEF Writers
<1>7. RecordInv'
  BY <1>1, <1>6 DEF DeliverInv, RecordInv, Tried, Unwritten, Writing
<1> QED
  BY <1>4, <1>5, <1>7 DEF DeliverInv

LEMMA DeliverStep == SessionInv /\ HomeInv /\ DeliverInv /\ [Next]_vars => DeliverInv'
<1> SUFFICES ASSUME SessionInv, HomeInv, DeliverInv, [Next]_vars PROVE DeliverInv'
  OBVIOUS
<1>1. ASSUME NEW k \in Calls, Handle(k) PROVE DeliverInv'
  BY <1>1, FrameDelivers DEF Handle, Writers
<1>2. CASE EndFrame
  BY <1>2, FrameDelivers DEF EndFrame, Writers
<1>3. ASSUME NEW k \in Calls, Receive(k) PROVE DeliverInv'
  BY <1>3, LookUpDelivers DEF Receive, Writers
<1>4. ASSUME NEW r \in Runs, EndOne(r) PROVE DeliverInv'
  <2>1. Serve \in Writers /\ kpc[Serve] = "idle" /\ CardOf[r] \in Cards /\ LookUp(Serve, CardOf[r])
    BY <1>4 DEF EndOne, Writers, SessionInv, Placed
  <2> QED
    BY <2>1, LookUpDelivers
<1>5. CASE EndDone
  <2>1. UNCHANGED <<lock, recorded, acked, wrote>>
        /\ \A j \in Calls : kpc'[j] = kpc[j] /\ krun'[j] = krun[j]
    BY <1>5 DEF EndDone, SessionInv, SessionTypeOK, WriterTypeOK, Writers
  <2>2. kpc'[Serve] = "idle"
    BY <1>5 DEF EndDone, SessionInv, SessionTypeOK, WriterTypeOK, Writers
  <2>3. LockInv'
    BY <2>1, <2>2 DEF DeliverInv, LockInv, CardFor, Writers
  <2> QED
    BY <2>1, <2>3 DEF DeliverInv, TargetInv, CardFor, RecordInv, Tried, Unwritten, Writing
<1>6. CASE UNCHANGED writervars
  BY <1>6 DEF DeliverInv, LockInv, TargetInv, CardFor, RecordInv, Tried, Unwritten, Writing
<1>7. ASSUME NEW r \in Runs, Admit(r) \/ Track(r) \/ ExitStep(r) \/ Work(r) \/ Settle(r)
      PROVE  UNCHANGED writervars
  BY <1>7 DEF Admit, Track, ExitStep, Drop, ReportExit, SendExit, Work, Worker, PumpFrame, Ping,
     WaitCheck, Sleep, Woken, Drain, SeeCancel, Finish, Exit, Settle, Check, KillRun, ReportSwept,
     SendSwept, WaitLanded
<1>8. ASSUME \/ BeginDrain \/ BeginShutdown \/ Snapshot \/ EndedAll
             \/ AwaitPark \/ CutShort \/ Sweep \/ Deadline \/ Settled \/ Close
      PROVE  UNCHANGED writervars
  BY <1>8 DEF BeginDrain, BeginShutdown, Snapshot, EndedAll, AwaitPark, CutShort, Sweep,
     Deadline, Settled, Close
<1> QED
  BY <1>1, <1>2, <1>3, <1>4, <1>5, <1>6, <1>7, <1>8 DEF Next, Main

-----------------------------------------------------------------------------
(* Whoever has been waited for to the end of its exit callback has claimed   *)
(* its own report, so that the sweep does not.                               *)

ParkInv ==
  /\ asking # None => ppc = "ending"
  /\ \A r \in Runs : sent[r] = <<"sweep">> => spc[r] = "done"
  /\ ~cut /\ ppc \in {"sweeping", "settling", "closing", "exited"} =>
       \A r \in ended : r \in claims /\ spc[r] # "sending" /\ sent[r] # <<"sweep">>

LEMMA ParkStep == SessionInv /\ ReportInv /\ ParkInv /\ [Next]_vars => ParkInv'
<1> SUFFICES ASSUME SessionInv, ReportInv, ParkInv, [Next]_vars PROVE ParkInv'
  OBVIOUS
<1> USE DEF ParkInv, ReportInv, ReportTypeOK
<1> DEFINE one == <<"sweep">>
<1>1. one # <<>> /\ one = Append(<<>>, "sweep") /\ one # Append(<<>>, "exit")
  OBVIOUS
<1> HIDE DEF one
<1>2. CASE UNCHANGED <<ppc, asking, cut, ended, spc, claims, sent>>
  BY <1>2
<1>3. ASSUME Outside PROVE UNCHANGED <<ppc, asking, cut, ended, spc, claims, sent>>
  BY <1>3 DEF Outside
<1>4. ASSUME NEW r \in Runs, Admit(r) \/ Track(r) \/ Drop(r) \/ Check(r) \/ KillRun(r) \/ WaitLanded(r)
      PROVE  ParkInv'
  <2>1. UNCHANGED <<ppc, asking, cut, ended, claims, sent>>
        /\ (spc' = spc \/ \E p \in {"kill", "report", "done"} : spc' = [spc EXCEPT ![r] = p])
        /\ (spc' # spc => spc[r] # "done")
    BY <1>4 DEF Admit, Track, Drop, Check, KillRun, WaitLanded, SettleStep, SettleVars
  <2> QED
    BY <2>1
<1>5. ASSUME NEW r \in Runs, ReportExit(r) \/ ReportSwept(r)
      PROVE  ParkInv'
  <2>1. UNCHANGED <<ppc, asking, cut, ended, sent>> /\ claims \subseteq claims'
    BY <1>5 DEF ReportExit, ReportSwept, Claim, SettleStep, SettleVars
  <2>2. CASE ReportExit(r)
    BY <2>1, <2>2 DEF ReportExit
  <2>3. CASE ReportSwept(r)
    <3>1. spc[r] = "report" /\ spc' = [spc EXCEPT ![r] = IF r \in claims THEN "wait" ELSE "sending"]
      BY <2>3 DEF ReportSwept, SettleStep, Claimed
    <3> QED
      BY <2>1, <3>1
  <2> QED
    BY <1>5, <2>2, <2>3
<1>6. ASSUME NEW r \in Runs, SendExit(r)
      PROVE  ParkInv'
  <2>1. UNCHANGED <<ppc, asking, cut, ended, spc, claims>> /\ sent[r] = <<>>
        /\ sent' = [sent EXCEPT ![r] = Append(@, "exit")]
    BY <1>6 DEF SendExit, Sent, SentInv
  <2>2. sent'[r] # one /\ \A q \in Runs \ {r} : sent'[q] = sent[q]
    BY <1>1, <2>1
  <2>3. \A q \in Runs : sent'[q] = one => sent[q] = one
    BY <2>2
  <2> QED
    BY <2>1, <2>3 DEF one
<1>7. ASSUME NEW r \in Runs, SendSwept(r)
      PROVE  ParkInv'
  <2>1. UNCHANGED <<ppc, asking, cut, ended, claims>> /\ spc[r] = "sending"
        /\ spc' = [spc EXCEPT ![r] = "done"]
        /\ \A q \in Runs \ {r} : sent'[q] = sent[q]
    BY <1>7 DEF SendSwept, Sent, SettleStep, SettleVars
  <2> QED
    BY <2>1
<1>8. CASE EndDone \/ EndedAll \/ \E r \in Runs : EndOne(r)
  <2>1. UNCHANGED <<spc, claims, sent, cut>> /\ ppc = "ending" /\ ppc' \in {"ending", "parking"}
        /\ (asking' # None => ppc' = "ending")
    BY <1>8 DEF EndDone, EndedAll, EndOne
  <2> QED
    BY <2>1
<1>9. CASE BeginDrain \/ BeginShutdown \/ Snapshot
  <2>1. UNCHANGED <<asking, spc, claims, sent, cut, ended>> /\ ppc # "ending"
        /\ ppc' \in {"draining", "listing", "ending"}
    BY <1>9 DEF BeginDrain, BeginShutdown, Snapshot
  <2> QED
    BY <2>1
<1>10. CASE AwaitPark
  <2>1. UNCHANGED <<asking, spc, claims, sent, cut, ended>> /\ ppc = "parking" /\ ppc' = "sweeping"
        /\ \A r \in ended : r \in claims
    BY <1>10 DEF AwaitPark, Parking, Claimed
  <2>2. \A r \in Runs : spc[r] = "none"
    BY <2>1 DEF PhaseInv
  <2>3. \A r \in Runs : sent[r] # <<"sweep">>
    BY <2>2
  <2>4. ended \subseteq Runs
    OBVIOUS
  <2> QED
    BY <2>1, <2>2, <2>3, <2>4
<1>11. CASE CutShort
  BY <1>11 DEF CutShort
<1>12. CASE Sweep
  <2>1. UNCHANGED <<asking, claims, sent, cut, ended>> /\ ppc = "sweeping" /\ ppc' = "settling"
        /\ \A r \in Runs : spc'[r] \in {"check", "none"}
    BY <1>12 DEF Sweep
  <2>2. \A r \in Runs : spc[r] = "none"
    BY <2>1 DEF PhaseInv
  <2>3. \A r \in Runs : sent[r] # <<"sweep">>
    BY <2>2
  <2>4. ended \subseteq Runs
    OBVIOUS
  <2> QED
    BY <2>1, <2>3, <2>4
<1>13. CASE Deadline \/ Settled \/ Close
  <2>1. UNCHANGED <<asking, spc, claims, sent, cut, ended>>
        /\ ppc \in {"settling", "closing"} /\ ppc' \in {"settling", "closing", "exited"}
    BY <1>13 DEF Deadline, Settled, Close, SettleVars
  <2> QED
    BY <2>1
<1> QED
  BY <1>2, <1>3, <1>4, <1>5, <1>6, <1>7, <1>8, <1>9, <1>10, <1>11, <1>12, <1>13, OutsideSteps
     DEF Next, Main, ExitStep, Settle

-----------------------------------------------------------------------------
(* The inductive invariant. *)

IInv == SessionInv /\ WakeInv /\ ReportInv /\ DeliverInv /\ ParkInv

LEMMA InitInv == Init => IInv
<1> SUFFICES ASSUME Init PROVE IInv
  OBVIOUS
<1>1. PICK i \in Instances : SessionInit(i)
  BY DEF Init
<1>2. WorkerTypeOK /\ WriterTypeOK
  BY <1>1 DEF SessionInit, WorkerTypeOK, WriterTypeOK
<1>3. SessionInv
  BY <1>1, <1>2 DEF Init, SessionInit, SessionInv, SessionTypeOK, Stages, Placed, Writers
<1>4. ReportInv
  <2>1. ReportTypeOK
    <3>1. sent \in [Runs -> Seq(Sender)]
      BY DEF Init
    <3> QED
      BY <3>1 DEF Init, ReportTypeOK
  <2>2. PhaseInv
    BY DEF Init, PhaseInv
  <2>3. HomeInv
    BY <1>1 DEF SessionInit, HomeInv
  <2>4. ClaimInv /\ LandedInv
    BY DEF Init, ClaimInv, LandedInv
  <2>5. \A r \in Runs : stage[r] # "sending" /\ sent[r] = <<>>
    BY <1>1 DEF Init, SessionInit
  <2>6. SentInv
    BY <2>5 DEF Init, SentInv
  <2> QED
    BY <2>1, <2>2, <2>3, <2>4, <2>6 DEF ReportInv
<1>5. DeliverInv
  BY <1>1 DEF SessionInit, DeliverInv, LockInv, TargetInv, RecordInv, Tried, Unwritten, Writing, Writers
<1>6. ParkInv
  <2>1. <<>> # <<"sweep">>
    OBVIOUS
  <2> QED
    BY <2>1 DEF Init, ParkInv
<1> QED
  BY <1>3, <1>4, <1>5, <1>6, WakeInit DEF IInv

LEMMA InductiveInvariant == Spec => []IInv
<1>1. IInv /\ [Next]_vars => IInv'
  BY SessionStep, WakeStep, ReportStep, DeliverStep, ParkStep
     DEF IInv, SessionInv, SessionTypeOK, ReportInv
<1> QED
  BY <1>1, InitInv, PTL DEF Spec

\* The variables of the serve process, the webhook calls and the workers have
\* their types, and whatever report has landed was claimed.
THEOREM ShutdownTypes == Spec => []ShutdownTypeOK
<1>1. IInv => ShutdownTypeOK
  BY DEF IInv, SessionInv, ReportInv, ReportTypeOK, ClaimInv, ShutdownTypeOK
<1> QED
  BY <1>1, InductiveInvariant, PTL

\* No terminal status is sent twice and, short of the sweep's deadline, every
\* run the sweep had on its list has had one when the process exits, for any
\* number of runs and cards (exitReports, onContainerExit and settle).
THEOREM OneReportEach == Spec => []ReportedOnce
<1>1. IInv => ReportedOnce
  <2> SUFFICES ASSUME IInv, NEW r \in Runs
               PROVE  /\ Len(sent[r]) <= 1
                      /\ ppc = "exited" /\ r \in swept /\ ~overdue => Len(sent[r]) = 1
    BY DEF ReportedOnce
  <2>1. Len(sent[r]) <= 1 /\ sent[r] \in Seq(Sender)
    BY DEF IInv, ReportInv, SentInv, ReportTypeOK
  <2>2. ppc = "exited" /\ r \in swept /\ ~overdue => sent[r] # <<>>
    BY DEF IInv, ReportInv, PhaseInv, LandedInv
  <2>3. sent[r] # <<>> => Len(sent[r]) # 0 /\ Len(sent[r]) \in Nat
    BY <2>1
  <2>4. \A n \in Nat : n <= 1 /\ n # 0 => n = 1
    OBVIOUS
  <2>5. sent[r] # <<>> => Len(sent[r]) = 1
    BY <2>1, <2>3, <2>4
  <2> QED
    BY <2>1, <2>2, <2>5
<1> QED
  BY <1>1, InductiveInvariant, PTL

\* A run that shutdown waited for to the end is not reported failed by the
\* sweep, unless the wait was cut short (awaitPark, parking, settle).
THEOREM ParkedReports == Spec => []ParkedReportsItself
<1>1. IInv => ParkedReportsItself
  <2> SUFFICES ASSUME IInv, NEW r \in ended, ~cut PROVE sent[r] # <<"sweep">>
    BY DEF ParkedReportsItself
  <2>1. r \in Runs
    BY DEF IInv, ReportInv, ReportTypeOK
  <2>2. CASE ppc \in {"sweeping", "settling", "closing", "exited"}
    BY <2>2 DEF IInv, ParkInv
  <2>3. CASE ppc \notin {"settling", "closing", "exited"}
    BY <2>1, <2>3 DEF IInv, ParkInv, ReportInv, PhaseInv
  <2> QED
    BY <2>2, <2>3
<1> QED
  BY <1>1, InductiveInvariant, PTL

\* A message whose caller was told it is delivered has been written exactly
\* once, whatever number of retries there is, whenever writes fail
\* (handleMessage, messageDedup).
THEOREM DeliveredOnce == Spec => []AckedIsWritten
<1>1. IInv => AckedIsWritten
  <2> SUFFICES ASSUME IInv, NEW m \in Messages
               PROVE  wrote[m] <= 1 /\ (m \in acked => wrote[m] = 1)
    BY DEF AckedIsWritten
  <2>1. PICK k \in Calls : KindOf[k] = m
    BY MessageKinds
  <2>2. Unwritten(m) \/ wrote[m] = 1
    <3>1. CASE Writing(m)
      BY <3>1 DEF IInv, DeliverInv, RecordInv, Writing
    <3>2. CASE ~Writing(m)
      BY <2>1, <3>2 DEF IInv, DeliverInv, RecordInv
    <3> QED
      BY <3>1, <3>2
  <2> QED
    BY <2>2 DEF Unwritten
<1> QED
  BY <1>1, InductiveInvariant, PTL

\* A worker that sleeps on a queued message or a closed inbox has a wake-up
\* coming (Inbox.Pump, ping and Wait).
THEOREM WakeupsArrive == Spec => []NoWakeupLost
<1>1. IInv => NoWakeupLost
  BY DEF IInv, WakeInv, NoWakeupLost, Waiting, Missed
<1> QED
  BY <1>1, InductiveInvariant, PTL
=============================================================================
