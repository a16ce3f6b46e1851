------------------------------ MODULE Session ------------------------------
(* How a frame reaches a running worker: the webhook handlers that write   *)
(* messages, promotions and the end of a session to the stdin of a card's  *)
(* run, and the worker's inbox that reads them.  Which runs exist, and     *)
(* when the serve process goes away, is Shutdown's.                        *)
EXTENDS Integers, FiniteSets, Sequences

CONSTANTS
  Runs, Cards, CardOf,
  Calls,       \* webhook calls that write a frame; a retry is a call of its own
  KindOf,      \* a call's frame: a message id, "promote" or "end"
  Target,      \* the card a call names
  Serve,       \* the shutdown of the serve process, which writes "end" frames
  Hitl,        \* the runs whose worker waits for a human
  Instances,   \* what a behaviour may contain: its runs and its calls
  PipeRoom,    \* frames a worker's stdin holds before a write blocks
  Faults, None

ASSUME SessionAssumption ==
  /\ CardOf \in [Runs -> Cards] /\ Target \in [Calls -> Cards]
  /\ Serve \notin Calls
  /\ None \notin Runs \cup Calls \cup {Serve}
  /\ Hitl \subseteq Runs
  /\ Instances \subseteq [runs : SUBSET Runs, calls : SUBSET Calls]
  /\ PipeRoom \in Nat \ {0}

Writers == Calls \cup {Serve}
Kind(k) == IF k = Serve THEN "end" ELSE KindOf[k]
Messages == {KindOf[k] : k \in Calls} \ {"promote", "end"}

\* A message id names a message of one card: the duplicate check is a card's.
ASSUME MessageAssumption ==
  \A j, k \in Calls : KindOf[j] = KindOf[k] /\ KindOf[j] \in Messages => Target[j] = Target[k]

VARIABLES
  tracked,     \* the run of each card
  stage,       \* a run, from its admission to the end of its exit callback
  wpc,         \* the worker's main goroutine
  pump,        \* the worker's pump
  pipe, pending, closed, signal, cancelled,
  kpc, krun,   \* a writer: its place and the run it looked up
  lock,        \* the stdin lock of each card
  recorded,    \* message ids the duplicate check of a card knows
  acked,       \* messages a caller was told are delivered
  wrote        \* ghost: frames written for each message

workervars == <<wpc, pump, pipe, pending, closed, signal, cancelled>>
writervars == <<kpc, krun, lock, recorded, acked, wrote>>
sessionvars == <<tracked, stage, workervars, writervars>>

Stages == {"new", "admitted", "up", "exited", "dropped", "sending", "over"}

WorkerTypeOK ==
  /\ wpc \in [Runs -> {"busy", "checked", "asleep", "finishing", "parking"}]
  /\ pump \in [Runs -> {"reading", "ping", "stopped"}]
  /\ pipe \in [Runs -> Seq(Messages \cup {"promote", "end"})]
  /\ \A r \in Runs : Len(pipe[r]) <= PipeRoom
  /\ pending \in [Runs -> Seq(Messages)]
  /\ closed \in [Runs -> BOOLEAN] /\ signal \in [Runs -> BOOLEAN]
  /\ cancelled \in [Runs -> BOOLEAN]

WriterTypeOK ==
  /\ kpc \in [Writers -> {"idle", "verify", "locking", "writing", "done", "refused"}]
  /\ krun \in [Writers -> Runs \cup {None}]
  /\ lock \in [Cards -> Writers \cup {None}]
  /\ recorded \subseteq Cards \X Messages
  /\ acked \subseteq Messages /\ wrote \in [Messages -> Nat]

SessionTypeOK ==
  /\ tracked \in [Cards -> Runs \cup {None}]
  /\ stage \in [Runs -> Stages]
  /\ WorkerTypeOK /\ WriterTypeOK

SessionInit(i) ==
  /\ tracked = [c \in Cards |-> None]
  /\ stage = [r \in Runs |-> IF r \in i.runs THEN "new" ELSE "over"]
  /\ wpc = [r \in Runs |-> "busy"] /\ pump = [r \in Runs |-> "reading"]
  /\ pipe = [r \in Runs |-> <<>>] /\ pending = [r \in Runs |-> <<>>]
  /\ closed = [r \in Runs |-> r \notin Hitl]
  /\ signal = [r \in Runs |-> FALSE] /\ cancelled = [r \in Runs |-> FALSE]
  /\ kpc = [k \in Writers |-> IF k \in i.calls \cup {Serve} THEN "idle" ELSE "done"] /\ krun = [k \in Writers |-> None]
  /\ lock = [c \in Cards |-> None]
  /\ recorded = {} /\ acked = {} /\ wrote = [m \in Messages |-> 0]

-----------------------------------------------------------------------------
(* The handlers.                                                           *)

CardFor(k) == CardOf[krun[k]]
Step(k, p) == kpc' = [kpc EXCEPT ![k] = p]
SetTo(f, x, v) == [f EXCEPT ![x] = v]

\* The run is looked up before the lock is taken: a call that finds none is
\* refused (404, or a 200 that says there is no session to end).
LookUp(k, c) ==
  /\ krun' = SetTo(krun, k, tracked[c])
  /\ Step(k, IF tracked[c] = None THEN "refused"
             ELSE IF Kind(k) = "promote" THEN "verify" ELSE "locking")
  /\ UNCHANGED <<tracked, stage, workervars, lock, recorded, acked, wrote>>

\* A promotion is checked with ContextMatrix first; whatever is not a clear
\* yes is a refusal.
Verify(k) ==
  /\ kpc[k] = "verify"
  /\ \/ Step(k, "locking")
     \/ "verify" \in Faults /\ Step(k, "refused")
  /\ UNCHANGED <<tracked, stage, workervars, krun, lock, recorded, acked, wrote>>

\* The duplicate check is made under the lock: an id that is known is
\* acknowledged, any other is recorded before it is written.
Known(k) == <<CardFor(k), Kind(k)>> \in recorded

Acquire(k) ==
  /\ kpc[k] = "locking"
  /\ lock[CardFor(k)] = None
  /\ IF Kind(k) \in Messages /\ Known(k)
       THEN /\ acked' = acked \cup {Kind(k)}
            /\ Step(k, "done")
            /\ UNCHANGED <<lock, recorded>>
       ELSE /\ lock' = SetTo(lock, CardFor(k), k)
            /\ recorded' = recorded \cup ({<<CardFor(k), Kind(k)>>} \cap (Cards \X Messages))
            /\ Step(k, "writing")
            /\ UNCHANGED acked
  /\ UNCHANGED <<tracked, stage, workervars, krun, wrote>>

\* The write blocks while the pipe is full.  A container that has exited may
\* still swallow a frame.
Write(k) ==
  LET r == krun[k] IN
  /\ kpc[k] = "writing"
  /\ Len(pipe[r]) < PipeRoom
  /\ pipe' = [pipe EXCEPT ![r] = Append(@, Kind(k))]
  /\ lock' = SetTo(lock, CardFor(k), None)
  /\ IF Kind(k) \in Messages
       THEN /\ acked' = acked \cup {Kind(k)}
            /\ wrote' = [wrote EXCEPT ![Kind(k)] = @ + 1]
       ELSE UNCHANGED <<acked, wrote>>
  /\ Step(k, "done")
  /\ UNCHANGED <<tracked, stage, wpc, pump, pending, closed, signal, cancelled,
                 krun, recorded>>

\* Mutant of Forget: the record of a failed write stays.
ForgetNot(k) == recorded

\* A failed write takes the record back before the lock is given up, so that
\* the retry which waits for it delivers.
Forget(k) == recorded \ {<<CardFor(k), Kind(k)>>}

\* Mutant of WriteFails: it returns with the lock held.
WriteFailsLocked(k) ==
  /\ kpc[k] = "writing"
  /\ "write" \in Faults \/ stage[krun[k]] # "up"
  /\ recorded' = Forget(k)
  /\ Step(k, "refused")
  /\ UNCHANGED <<tracked, stage, workervars, krun, lock, acked, wrote>>

WriteFails(k) ==
  /\ kpc[k] = "writing"
  /\ "write" \in Faults \/ stage[krun[k]] # "up"
  /\ recorded' = Forget(k)
  /\ lock' = SetTo(lock, CardFor(k), None)
  /\ Step(k, "refused")
  /\ UNCHANGED <<tracked, stage, workervars, krun, acked, wrote>>

Frame(k) == Verify(k) \/ Acquire(k) \/ Write(k) \/ WriteFails(k)

-----------------------------------------------------------------------------
(* The worker.                                                             *)

Alive(r) == stage[r] = "up"

\* The pump queues a message under the inbox's lock and pings after it; a
\* promotion closes the inbox the same way; the end of the session cancels
\* the run and stops the pump.
PumpFrame(r) ==
  /\ Alive(r) /\ pump[r] = "reading" /\ pipe[r] # <<>>
  /\ pipe' = [pipe EXCEPT ![r] = Tail(@)]
  /\ CASE Head(pipe[r]) = "end" ->
            /\ cancelled' = SetTo(cancelled, r, TRUE)
            /\ pump' = SetTo(pump, r, "stopped")
            /\ UNCHANGED <<pending, closed>>
       [] Head(pipe[r]) = "promote" ->
            /\ closed' = SetTo(closed, r, TRUE)
            /\ pump' = SetTo(pump, r, "ping")
            /\ UNCHANGED <<pending, cancelled>>
       [] OTHER ->
            /\ pending' = [pending EXCEPT ![r] = Append(@, Head(pipe[r]))]
            /\ pump' = SetTo(pump, r, "ping")
            /\ UNCHANGED <<closed, cancelled>>
  /\ UNCHANGED <<tracked, stage, writervars, wpc, signal>>

\* Mutant of Pinged: an unbuffered channel keeps no ping for a later select.
PingedUnbuffered(r) == SetTo(signal, r, signal[r] \/ wpc[r] = "asleep")

\* The signal is a channel of one: a ping that finds it full is dropped.
Pinged(r) == SetTo(signal, r, TRUE)

Ping(r) ==
  /\ Alive(r) /\ pump[r] = "ping"
  /\ signal' = Pinged(r)
  /\ pump' = SetTo(pump, r, "reading")
  /\ UNCHANGED <<tracked, stage, writervars, wpc, pipe, pending, closed, cancelled>>

\* Wait takes the first message; without one it ends at a closed inbox and
\* goes to sleep otherwise, having let go of the lock.
WaitCheck(r) ==
  /\ Alive(r) /\ wpc[r] = "busy"
  /\ pending' = [pending EXCEPT ![r] = IF @ = <<>> THEN @ ELSE Tail(@)]
  /\ wpc' = SetTo(wpc, r, IF pending[r] # <<>> THEN "busy"
                          ELSE IF closed[r] THEN "finishing" ELSE "checked")
  /\ UNCHANGED <<tracked, stage, writervars, pump, pipe, closed, signal, cancelled>>

Sleep(r) ==
  /\ Alive(r) /\ wpc[r] = "checked"
  /\ wpc' = SetTo(wpc, r, "asleep")
  /\ UNCHANGED <<tracked, stage, writervars, pump, pipe, pending, closed, signal, cancelled>>

Woken(r) ==
  /\ Alive(r) /\ wpc[r] = "asleep" /\ signal[r]
  /\ signal' = SetTo(signal, r, FALSE)
  /\ wpc' = SetTo(wpc, r, "busy")
  /\ UNCHANGED <<tracked, stage, writervars, pump, pipe, pending, closed, cancelled>>

\* A step of the work itself empties the queue between two model calls.
Drain(r) ==
  /\ Alive(r) /\ wpc[r] = "busy" /\ pending[r] # <<>>
  /\ pending' = SetTo(pending, r, <<>>)
  /\ UNCHANGED <<tracked, stage, writervars, wpc, pump, pipe, closed, signal, cancelled>>

\* The cancelled context reaches the worker in Wait and in everything else it
\* does: it pushes its work, releases the card and exits.
SeeCancel(r) ==
  /\ Alive(r) /\ cancelled[r] /\ wpc[r] \in {"busy", "asleep"}
  /\ wpc' = SetTo(wpc, r, "parking")
  /\ UNCHANGED <<tracked, stage, writervars, pump, pipe, pending, closed, signal, cancelled>>

\* The work can also come to its end, or to an error, by itself.
Finish(r) ==
  /\ Alive(r) /\ wpc[r] = "busy"
  /\ wpc' = SetTo(wpc, r, "finishing")
  /\ UNCHANGED <<tracked, stage, writervars, pump, pipe, pending, closed, signal, cancelled>>

Exit(r) ==
  /\ Alive(r) /\ wpc[r] \in {"finishing", "parking"}
  /\ stage' = SetTo(stage, r, "exited")
  /\ UNCHANGED <<tracked, writervars, workervars>>

Worker(r) ==
  \/ PumpFrame(r) \/ Ping(r) \/ WaitCheck(r) \/ Sleep(r) \/ Woken(r)
  \/ Drain(r) \/ SeeCancel(r) \/ Finish(r) \/ Exit(r)
=============================================================================
