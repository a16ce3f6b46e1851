-------------------------------- MODULE Card ---------------------------------
(***************************************************************************)
(* A card over the runs of its worker: what ContextMatrix keeps of it, its  *)
(* branch at the origin, and the clone a run works in.  The frame of a run  *)
(* is here: how it boots, reconciles itself with what earlier runs left,    *)
(* enters its phases, and ends (internal/worker/worker.go and git.go,       *)
(* internal/orchestrator/resume.go and orchestrator.go).  The phases are in *)
(* Plan, Execute, Fanout and Work.                                          *)
(*                                                                          *)
(* A commit is a mark: the subtask it is for and the run that made it.  A   *)
(* branch is the set of its marks, whether its tip passes the verify        *)
(* command, and its root, which changes when history is rewritten: one      *)
(* branch descends from another when it has the same root and all of its    *)
(* marks.                                                                   *)
(***************************************************************************)
EXTENDS Integers, FiniteSets

CONSTANTS
    NTasks,  \* the subtasks a plan may have, in the order of their card ids
    Cards,   \* the cards a run may be about
    MaxRuns, \* bound on the runs of any card
    None

CardFaults == {"card", "git", "model", "budget", "cap", "stop", "crash",
               "selfcommit", "human", "operator", "inconclusive", "redraft"}

(* What a run is told of its card: whether candidates race for it, a human    *)
(* attends, mobs discuss it, a verify command resolves; whether its plan      *)
(* splits a deliverable out, and an abandoned attempt left a branch.          *)
CardSpecs == [best : BOOLEAN, human : BOOLEAN, mob : BOOLEAN, verify : BOOLEAN,
              split : BOOLEAN, stale : BOOLEAN, runs : 0 .. MaxRuns,
              faults : SUBSET CardFaults]

Tasks == 1 .. NTasks
Marks == [of : 0 .. NTasks, run : 0 .. MaxRuns]   \* of 0: no subtask; run 0: not a run
Branches == [root : 0 .. MaxRuns, work : SUBSET Marks, good : BOOLEAN]
Identities == [head : Branches, tree : {"none", "good", "bad"}]   \* trees that were measured
ASSUME CardAssumption ==
    /\ NTasks \in Nat /\ MaxRuns \in Nat /\ Cards \subseteq CardSpecs
    /\ None \notin Branches \cup Identities

Base == [root |-> 0, work |-> {}, good |-> TRUE]
Human == [of |-> 0, run |-> 0]
(* What an abandoned attempt at the card left at the origin. *)
Abandoned(g) == [root |-> 0, work |-> {[of |-> NTasks, run |-> 0]}, good |-> g]

Descends(b, a) == b.root = a.root /\ a.work \subseteq b.work

Phases == <<"plan", "execute", "judge", "document", "review", "integrate", "pr_gates", "done">>
PhaseNames == {Phases[i] : i \in 1 .. 8}
Later(p) == Phases[(CHOOSE i \in 1 .. 8 : Phases[i] = p) + 1]
Terminal == {"done", "not_planned"}

VARIABLES
    tc,         \* the card: its features, its bound, and what may happen to it
    \* ContextMatrix
    phase,
    state,      \* the card's lane
    claim,      \* the run holds it
    sub,        \* the states of the subtasks
    held,       \* the subtasks the run holds
    start,      \* the start key of a subtask's marker
    extra,      \* follow-up cards: [made, noted]; noted: in "## Split"
    \* the origin
    remote,
    \* the container
    pc,
    runs,       \* runs so far, at most tc.runs
    local,      \* the clone's branch
    dirty,      \* its uncommitted work: "none", or whether it would pass verify
    me,         \* what the run remembers
    cands,      \* the candidates of a fan-out
    \* history
    landed,     \* the head a subtask was completed on
    past        \* what the attempt has been through

cm == <<phase, state, claim, sub, held, start, extra>>
proc == <<pc, runs, local, dirty, me, cands>>
vars == <<tc, cm, remote, proc, landed, past>>

Fault(f) == f \in tc.faults

(* What a run remembers.  tip: staleRemoteTip, then integrate's; tool: what   *)
(* the coder's last passing verify measured; preFix: the branch before the    *)
(* last fix of review; why: how the run is to end.                            *)
Fresh == [at |-> 0, next |-> "plan", plan |-> {}, tip |-> None, pushed |-> FALSE,
          before |-> None, tool |-> None, verified |-> FALSE, revising |-> FALSE,
          picks |-> 0, drafts |-> 0, known |-> 0, winner |-> 0, once |-> {},
          preFix |-> None, why |-> "none"]
Idle == /\ pc' = "idle" /\ local' = Base /\ dirty' = "none" /\ me' = Fresh
        /\ cands' = << >>

(* What a commit would take in: tracked changes, and untracked files but for  *)
(* binaries and worktrees. *)
Uncommitted == dirty # "none"
(* What the project's verify command says of the tree. *)
TreeIsGood == IF Uncommitted THEN dirty = "good" ELSE local.good
Commit(b, t, g) == [b EXCEPT !.work = @ \cup {[of |-> t, run |-> runs]}, !.good = g]

Init ==
    /\ tc \in Cards
    /\ phase = "none" /\ state = "todo" /\ claim = FALSE
    /\ sub = [t \in Tasks |-> "absent"] /\ held = {} /\ start = [t \in Tasks |-> None]
    /\ extra = [made |-> 0, noted |-> 0]
    /\ \/ tc.stale /\ \E g \in BOOLEAN : remote = Abandoned(g)
       \/ ~tc.stale /\ remote = None
    /\ pc = "idle" /\ runs = 0 /\ local = Base /\ dirty = "none" /\ me = Fresh
    /\ cands = << >>
    /\ landed = [t \in Tasks |-> None]
    /\ past = [ended |-> "none", approved |-> FALSE, selfmade |-> FALSE, torn |-> 0,
               leak |-> {}]

Goto(p) == pc' = p
Remember(r) == me' = r

(* The run is on its way out; mapFSMResult goes by the reason. *)
Exit(why) == Goto("park") /\ Remember([me EXCEPT !.why = why])

-----------------------------------------------------------------------------
(* Pushes. *)

(* The origin takes a plain push that descends from what it has. *)
Takes(b) == remote # None => Descends(b, remote)
\* Mutant of TakesFirst: the first push overwrites whatever is there.
TakesFirstForced(b) == me.tip = None \/ me.pushed => Takes(b)
(* pushBranch: the first push of a fresh run overwrites the branch it found,  *)
(* if that is still what it found. *)
TakesFirst(b) == IF me.tip # None /\ ~me.pushed THEN remote = me.tip ELSE Takes(b)

-----------------------------------------------------------------------------
(* A run boots. *)

(* A stalled card goes back to in_progress: directly, or over todo and a      *)
(* second claim.  What is refused on the way leaves it where it got to. *)
Recovered == {"in_progress"}
             \cup (IF state = "stalled" /\ Fault("card") THEN {"stalled", "todo"} ELSE {})

(* A failed boot gives back what it claimed. *)
Boot ==
    /\ pc = "idle" /\ runs < tc.runs /\ state # "done" /\ ~claim
    /\ runs' = runs + 1
    /\ claim' = TRUE
    /\ state' \in Recovered
    /\ Goto("reconcile")
    /\ Remember([Fresh EXCEPT !.next = CASE phase = "none" -> "plan"
                                         [] phase = "judge" -> "execute"
                                         [] OTHER -> phase,
                              !.known = extra.noted])
    /\ UNCHANGED <<tc, phase, sub, held, start, extra, remote, local, dirty, cands,
                   landed, past>>

BootFails ==
    /\ pc = "idle" /\ runs < tc.runs /\ state # "done" /\ ~claim
    /\ Fault("card") \/ Fault("git")
    /\ runs' = runs + 1
    /\ past' = [past EXCEPT !.ended = "error"]
    /\ UNCHANGED <<tc, cm, remote, pc, local, dirty, me, cands, landed>>

(* A fresh run notes the tip of the branch it is to overwrite; a failed probe *)
(* reads as no branch. *)
ReconcileFresh ==
    /\ pc = "reconcile" /\ phase = "none"
    /\ \/ Remember([me EXCEPT !.tip = remote])
       \/ Fault("git") /\ Remember([me EXCEPT !.tip = None])
    /\ Goto("enter")
    /\ UNCHANGED <<tc, cm, remote, runs, local, dirty, cands, landed, past>>

Adopted == IF remote = None THEN local ELSE remote

(* A resumed run adopts the branch, and the subtasks of the card. *)
ReconcileResume ==
    /\ pc = "reconcile" /\ phase # "none"
    /\ local' = Adopted
    /\ Remember([me EXCEPT !.plan = {t \in Tasks : sub[t] # "absent"}])
    /\ Goto("enter")
    /\ UNCHANGED <<tc, cm, remote, runs, dirty, cands, landed, past>>

ReconcileFails ==
    /\ pc = "reconcile" /\ phase # "none"
    /\ Fault("git") \/ Fault("card")
    /\ Exit("error")
    /\ UNCHANGED <<tc, cm, remote, runs, local, dirty, cands, landed, past>>

(* A run resumed past review moves the card back to review first. *)
Late == me.next \in {"integrate", "pr_gates"}
Resumed == phase = me.next
Reenters == Late /\ Resumed /\ state # "review"
(* start_review takes a card from in_progress. *)
Refused == Reenters /\ state \in {"stalled", "todo"}

ReenterReview ==
    /\ pc = "enter" /\ Reenters /\ ~Refused
    /\ state' = "review"
    /\ UNCHANGED <<tc, phase, claim, sub, held, start, extra, remote, proc, landed, past>>

(* The phase is on the card before its body runs. *)
Enter ==
    /\ pc = "enter" /\ ~Reenters
    /\ phase' = me.next
    /\ Goto(me.next)
    /\ UNCHANGED <<tc, state, claim, sub, held, start, extra, remote, runs, local, dirty, me,
                   cands, landed, past>>

EnterFails ==
    /\ pc = "enter"
    /\ Fault("card") \/ Refused
    /\ Exit("error")
    /\ UNCHANGED <<tc, cm, remote, runs, local, dirty, cands, landed, past>>

(* The body of a phase returned nil. *)
Proceed(p) == Goto("enter") /\ Remember([me EXCEPT !.next = Later(p), !.at = 0])

-----------------------------------------------------------------------------
(* A run ends. *)

(* What pushWIP commits: everything that is uncommitted. *)
Saved == IF Uncommitted THEN Commit(local, me.at, dirty = "good") ELSE local
(* Commits no push has carried. *)
Unpushed == local.work # {} /\ (remote = None \/ local # remote)
\* Mutant of Unsaved: a clean tree has nothing to save.
UnsavedIfDirty == Uncommitted
Unsaved == Uncommitted \/ Unpushed

SavesWIP == me.why \in {"budget", "turns", "cancel", "blocked"}

(* parkBlocked moves the card first, as far as the board allows it. *)
Park ==
    /\ pc = "park"
    /\ IF me.why = "blocked"
       THEN state' \in {"blocked"} \cup (IF Fault("card") THEN {state, "in_progress"} ELSE {})
       ELSE state' = state
    /\ \/ /\ SavesWIP /\ Unsaved
          /\ \/ /\ local' = Saved /\ dirty' = "none"
                /\ remote' = IF Takes(Saved) THEN Saved ELSE remote
             \/ /\ Fault("git") /\ UNCHANGED <<local, dirty, remote>>
       \/ ~(SavesWIP /\ Unsaved) /\ UNCHANGED <<local, dirty, remote>>
    /\ Goto("release")
    /\ UNCHANGED <<tc, phase, claim, sub, held, start, extra, runs, me, cands, landed, past>>

(* The card is let go, and the container with what it held. *)
Release ==
    /\ pc = "release"
    /\ \/ claim' = FALSE
       \/ Fault("card") /\ claim' = claim
    /\ past' = [past EXCEPT !.ended = me.why]
    /\ Idle
    /\ UNCHANGED <<tc, phase, state, sub, held, start, extra, remote, runs, landed>>

(* Parked for people: the run reports it and does not let the card go;        *)
(* ContextMatrix may, on the callback that follows. *)
ParkedForPeople ==
    /\ claim' \in BOOLEAN
    /\ past' = [past EXCEPT !.ended = "parked"]
    /\ Idle

(* The container dies; the sweep finds its claims later. *)
Crash ==
    /\ Fault("crash") /\ pc # "idle"
    /\ past' = [past EXCEPT !.ended = "crash",
                            !.torn = IF pc = "note" THEN @ + 1 ELSE @]
    /\ Idle
    /\ UNCHANGED <<tc, cm, remote, runs, landed>>

(* CM's sweep of claims nobody heartbeats. *)
Sweep ==
    /\ pc = "idle" /\ (claim \/ held # {})
    /\ claim' = FALSE /\ held' = {}
    /\ state' = IF claim THEN "stalled" ELSE state
    /\ past' = [past EXCEPT !.leak = {}]
    /\ UNCHANGED <<tc, phase, sub, start, extra, remote, proc, landed>>

(* Somebody cancels a subtask after its plan, while no run works on the card. *)
Cancel(t) ==
    /\ Fault("operator") /\ pc = "idle" /\ runs < tc.runs /\ phase \notin {"none", "plan"}
    /\ sub[t] \in {"todo", "in_progress"} /\ t \notin held
    /\ sub' = [sub EXCEPT ![t] = "not_planned"]
    /\ UNCHANGED <<tc, phase, state, claim, held, start, extra, remote, proc, landed, past>>

(* Somebody pushes to the branch of the card. *)
HumanPushes ==
    /\ Fault("human") /\ remote # None /\ Human \notin remote.work
    /\ \E g \in BOOLEAN :
          remote' = [remote EXCEPT !.work = @ \cup {Human}, !.good = g]
    /\ UNCHANGED <<tc, cm, proc, landed, past>>
=============================================================================
