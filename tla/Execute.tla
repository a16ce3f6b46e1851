------------------------------- MODULE Execute -------------------------------
(***************************************************************************)
(* The execute phase of a run that works alone (internal/orchestrator/      *)
(* execute.go and checkpoint.go): every open subtask in the order of the    *)
(* plan is claimed, coded, verified, committed, discussed when a mob is on, *)
(* pushed and completed.                                                    *)
(***************************************************************************)
EXTENDS Card

CONSTANT ReselectCap   \* the models a run may replace

ASSUME ExecuteAssumption == ReselectCap \in Nat

Kept == UNCHANGED <<tc, phase, state, claim, extra, runs, cands>>
Board == <<sub, held, start>>
Tree == <<local, dirty, remote>>
History == <<landed, past>>

(* Board writes on the way out: where the subtask began, once, and its claim. *)
Abort(why) ==
    /\ \/ start' = IF me.before # None /\ start[me.at] = None
                   THEN [start EXCEPT ![me.at] = me.before] ELSE start
       \/ Fault("card") /\ start' = start
    /\ \/ held' = held \ {me.at}
       \/ Fault("card") /\ held' = held
    /\ sub' = sub
    /\ Exit(why)

-----------------------------------------------------------------------------
\* Mutant of Open: a subtask that an earlier run had begun is passed over.
OpenUnbegun == {t \in me.plan : sub[t] = "todo"}
Open == {t \in me.plan : sub[t] \notin Terminal}
NextTask == CHOOSE t \in Open : \A u \in Open : t <= u
Solo == pc = "execute" /\ ~tc.best

(* The verify command: declared, or implied by the repository's files, or     *)
(* proposed by a model; a toolchain that is missing for any of them parks the *)
(* run, and nothing to run is no verdict. *)
Resolved == tc.verify
NoToolchain == Resolved /\ Fault("inconclusive")

(* A subtask is claimed, and the head it starts from is read. *)
Claim ==
    /\ Solo /\ Open # {}
    /\ held' = held \cup {NextTask} /\ sub' = [sub EXCEPT ![NextTask] = "in_progress"]
    /\ \/ Remember([me EXCEPT !.at = NextTask, !.before = local, !.tool = None,
                              !.verified = FALSE])
       \/ /\ Fault("git")
          /\ Remember([me EXCEPT !.at = NextTask, !.before = None, !.tool = None,
                                 !.verified = FALSE])
    /\ Goto("code")
    /\ Kept /\ UNCHANGED <<start, Tree, History>>

(* Execute resolves the command on its entry, alone or before a race; then    *)
(* the budget and the claim of each subtask. *)
ClaimFails ==
    /\ pc = "execute"
    /\ \/ Fault("budget") /\ Exit("budget")
       \/ NoToolchain /\ Exit("blocked")
       \/ Solo /\ Open # {} /\ Fault("card") /\ Exit("error")
    /\ Kept /\ UNCHANGED <<Board, Tree, History>>

Executed ==
    /\ Solo /\ Open = {}
    /\ Proceed("execute")
    /\ Kept /\ UNCHANGED <<Board, Tree, History>>

-----------------------------------------------------------------------------
(* The coder, on a subtask or on what the checkpoint asks of it. *)

Writes ==
    /\ pc = "code"
    /\ dirty' \in {"good", "bad"}
    /\ UNCHANGED <<local, pc, me>>
    /\ Kept /\ UNCHANGED <<Board, remote, History>>

(* Its verify tool remembers what the last run measured, if that passed. *)
Identity == [head |-> local, tree |-> dirty]
Measures ==
    /\ pc = "code" /\ tc.verify
    /\ Remember([me EXCEPT !.tool = IF TreeIsGood THEN Identity ELSE None])
    /\ UNCHANGED pc
    /\ Kept /\ UNCHANGED <<Board, Tree, History>>

(* The bash tool of a coder can commit, that of the fix coder after an edit. *)
CommitsItself ==
    /\ Fault("selfcommit")
    /\ \/ pc = "code" /\ Uncommitted /\ local' = Commit(local, me.at, dirty = "good")
       \/ pc = "fix" /\ \E g \in BOOLEAN : local' = Commit(local, me.at, g)
    /\ dirty' = "none"
    /\ past' = [past EXCEPT !.selfmade = TRUE]
    /\ UNCHANGED <<pc, me>>
    /\ Kept /\ UNCHANGED <<Board, remote, landed>>

Finishes ==
    /\ pc = "code"
    /\ Goto(IF me.revising THEN "recheck" ELSE "gate")
    /\ Kept /\ UNCHANGED <<Board, Tree, me, History>>

(* A model that cannot drive the tools is ruled out and another takes the     *)
(* subtask, a bounded number of times in a run. *)
Reselects ==
    /\ pc = "code" /\ Fault("model") /\ me.picks < ReselectCap
    /\ Remember([me EXCEPT !.picks = @ + 1])
    /\ UNCHANGED pc
    /\ Kept /\ UNCHANGED <<Board, Tree, History>>

(* No model is left that clears the subtask's bar and fits its prompt. *)
NoCoder == Fault("model") /\ Abort("blocked")

(* The coder reached its cap, its window, or failed. *)
CoderFails ==
    /\ pc = "code" /\ ~me.revising
    /\ \/ /\ Fault("cap") /\ Goto("salvage") /\ UNCHANGED <<me, Board>>
       \/ Fault("budget") /\ Abort("budget")
       \/ Fault("model") /\ Abort("error")
       \/ NoCoder
    /\ Kept /\ UNCHANGED <<Tree, History>>

-----------------------------------------------------------------------------
(* The gate before the commit. *)

\* Mutant of Accepts: a pass the coder measured on another tree will do.
AcceptsAnyPass == me.tool # None
Accepts == me.tool = Identity

(* A command that could not judge the tree is no failure. *)
Classified == {IF TreeIsGood THEN "passed" ELSE "failed"}
              \cup (IF Fault("inconclusive") THEN {"skipped"} ELSE {})
(* What a run of the verify command says, exhausted containers retried once. *)
Verdicts == Classified
GateSays == IF ~Resolved THEN {"none"} ELSE IF Accepts THEN {"passed"} ELSE Verdicts

Gate ==
    /\ pc = "gate"
    /\ \E v \in GateSays :
          \/ /\ v # "failed"
             /\ Goto("commit") /\ Remember([me EXCEPT !.verified = (v = "passed")])
             /\ UNCHANGED Board
          \/ /\ v = "failed"
             /\ \/ Goto("fix") /\ UNCHANGED <<me, Board>>
                \/ Fault("budget") /\ Abort("budget")
          \/ v = "skipped" /\ NoToolchain /\ Abort("blocked")
    /\ Kept /\ UNCHANGED <<Tree, History>>

(* One pass of a fix coder; its cap is no verdict on what it left. *)
Fix ==
    /\ pc = "fix"
    /\ \/ Goto("regate") /\ dirty' \in {dirty, "good", "bad"} /\ UNCHANGED <<me, Board>>
       \/ Fault("model") /\ Abort("error") /\ UNCHANGED dirty
       \/ Fault("budget") /\ Abort("budget") /\ UNCHANGED dirty
       \/ Fault("cap") /\ Abort("turns") /\ UNCHANGED dirty   \* its context window
    /\ Kept /\ UNCHANGED <<local, remote, History>>

(* Still red: the work is not committed as finished. *)
Regate ==
    /\ pc = "regate"
    /\ \E v \in Verdicts :
          \/ /\ v # "failed"
             /\ Goto("commit") /\ Remember([me EXCEPT !.verified = (v = "passed")])
             /\ UNCHANGED Board
          \/ v = "failed" /\ Abort("blocked")
    /\ Kept /\ UNCHANGED <<Tree, History>>

\* Mutant of EarlierWork: the head the subtask began at will do.
EarlierWorkUnmoved ==
    /\ me.verified /\ start[me.at] # None /\ me.before # None
    /\ Descends(me.before, start[me.at])
(* Work of an earlier run is on the branch, and passes. *)
EarlierWork ==
    /\ me.verified /\ start[me.at] # None /\ me.before # None
    /\ me.before # start[me.at] /\ Descends(me.before, start[me.at])
Unmoved == me.before = None \/ local = me.before

(* A subtask of the tier from which mobs discuss, whose start is known. *)
Discussed == tc.mob /\ me.before # None

CommitWork ==
    /\ pc = "commit" /\ Uncommitted
    /\ local' = Commit(local, me.at, dirty = "good") /\ dirty' = "none"
    /\ Goto(IF Discussed THEN "discuss" ELSE "push")
    /\ Kept /\ UNCHANGED <<Board, remote, me, History>>

(* Nothing to commit: the coder committed itself, or an earlier run left what *)
(* the subtask asks for, or nothing was done, or so it seems: a head that     *)
(* cannot be read is unmoved, a marker or a merge base no earlier work. *)
CommitNothing ==
    /\ pc = "commit" /\ ~Uncommitted
    /\ \/ /\ ~Unmoved \/ EarlierWork
          /\ Goto("complete") /\ UNCHANGED <<me, Board>>
       \/ /\ Unmoved \/ Fault("git")
          /\ ~EarlierWork \/ Fault("card") \/ Fault("git")
          /\ Abort("blocked")
    /\ Kept /\ UNCHANGED <<Tree, History>>

CommitFails ==
    /\ pc = "commit" /\ Fault("git")
    /\ Abort("error")
    /\ Kept /\ UNCHANGED <<Tree, History>>

-----------------------------------------------------------------------------
(* The checkpoint. *)

(* The mob proceeds, fails, or asks for a revision. *)
Discuss ==
    /\ pc = "discuss"
    /\ \/ Goto("push") /\ UNCHANGED me
       \/ Goto("code") /\ Remember([me EXCEPT !.revising = TRUE])
    /\ Kept /\ UNCHANGED <<Board, Tree, History>>

(* A hard reset leaves what is untracked. *)
Discarded == dirty' \in {"none", dirty}
Checked == Goto("push") /\ Remember([me EXCEPT !.revising = FALSE])

ReviseFails ==
    /\ pc = "code" /\ me.revising /\ (Fault("model") \/ Fault("cap"))
    /\ Discarded /\ Checked
    /\ Kept /\ UNCHANGED <<Board, local, remote, History>>

(* The evidence follows the tree that lands; a revision that changed nothing  *)
(* leaves it. *)
Revised(v) ==
    \/ /\ Uncommitted
       /\ local' = Commit(local, me.at, dirty = "good") /\ dirty' = "none"
       /\ Goto("push")
       /\ Remember([me EXCEPT !.revising = FALSE, !.verified = (v = "passed")])
    \/ ~Uncommitted /\ Checked /\ UNCHANGED <<local, dirty>>

(* A revision the gate refuses is dropped; one it does not is committed. *)
Recheck ==
    /\ pc = "recheck"
    /\ \E v \in GateSays :
          \/ /\ v = "failed" \/ Fault("git") \/ NoToolchain
             /\ Discarded /\ Checked /\ UNCHANGED local
          \/ v # "failed" /\ Revised(v)
    /\ Kept /\ UNCHANGED <<Board, remote, History>>

-----------------------------------------------------------------------------
(* Pushed, then completed. *)

Push ==
    /\ pc = "push" /\ TakesFirst(local)
    /\ remote' = local
    /\ Goto("complete") /\ Remember([me EXCEPT !.pushed = TRUE])
    /\ Kept /\ UNCHANGED <<Board, local, dirty, History>>

\* Mutant of PushFails: a push that fails is made good by a later one.
PushFailsQuietly ==
    /\ pc = "push" /\ (~TakesFirst(local) \/ Fault("git"))
    /\ Goto("complete") /\ UNCHANGED <<me, Board>>
    /\ Kept /\ UNCHANGED <<Tree, History>>
PushFails ==
    /\ pc = "push" /\ (~TakesFirst(local) \/ Fault("git"))
    /\ Abort("error")
    /\ Kept /\ UNCHANGED <<Tree, History>>

Complete ==
    /\ pc = "complete"
    /\ sub' = [sub EXCEPT ![me.at] = "done"] /\ held' = held \ {me.at}
    /\ landed' = [landed EXCEPT ![me.at] = local]
    /\ Goto("execute")
    /\ Remember([me EXCEPT !.at = 0, !.before = None, !.tool = None])
    /\ Kept /\ UNCHANGED <<start, Tree, past>>

CompleteFails ==
    /\ pc = "complete" /\ Fault("card")
    /\ Abort("error")
    /\ Kept /\ UNCHANGED <<Tree, History>>

(* The coder reached its turn cap: its tree is committed, and stands as       *)
(* complete only when the verify command passes and the push lands.           *)
SalvageNothing ==
    /\ pc = "salvage" /\ (~Uncommitted \/ Fault("git"))
    /\ Abort("turns")
    /\ Kept /\ UNCHANGED <<Tree, History>>

Salvage ==
    /\ pc = "salvage" /\ Uncommitted
    /\ local' = Commit(local, me.at, dirty = "good") /\ dirty' = "none"
    /\ Goto("authority")
    /\ Kept /\ UNCHANGED <<Board, remote, me, History>>

Authority ==
    /\ pc = "authority"
    /\ \E v \in IF tc.verify THEN Verdicts ELSE {"none"} :
          \/ /\ v = "passed" /\ TakesFirst(local)
             /\ remote' = local
             /\ Goto("salvaged") /\ Remember([me EXCEPT !.pushed = TRUE, !.verified = TRUE])
             /\ UNCHANGED Board
          \/ /\ v # "passed" \/ ~TakesFirst(local) \/ Fault("git")
             /\ Abort("turns") /\ remote' = remote
          \/ v = "skipped" /\ NoToolchain /\ Abort("blocked") /\ remote' = remote
    /\ Kept /\ UNCHANGED <<local, dirty, History>>

Salvaged ==
    /\ pc = "salvaged"
    /\ \/ /\ sub' = [sub EXCEPT ![me.at] = "done"] /\ held' = held \ {me.at}
          /\ landed' = [landed EXCEPT ![me.at] = local]
          /\ Goto("execute")
          /\ Remember([me EXCEPT !.at = 0, !.before = None, !.tool = None])
          /\ start' = start
       \/ Fault("card") /\ Abort("turns") /\ landed' = landed
    /\ Kept /\ UNCHANGED <<Tree, past>>

(* The run is ended while it holds a subtask. *)
StoppedAtWork ==
    /\ Fault("stop") /\ me.at # 0
    /\ pc \in {"code", "gate", "fix", "regate", "commit", "discuss", "recheck", "push",
               "complete", "salvage", "authority", "salvaged"}
    /\ Abort("cancel")
    /\ Kept /\ UNCHANGED <<Tree, History>>

ExecuteNext ==
    \/ Claim \/ ClaimFails \/ Executed
    \/ Writes \/ Measures \/ CommitsItself \/ Finishes \/ Reselects \/ CoderFails
    \/ Gate \/ Fix \/ Regate \/ CommitWork \/ CommitNothing \/ CommitFails
    \/ Discuss \/ ReviseFails \/ Recheck
    \/ Push \/ PushFails \/ Complete \/ CompleteFails
    \/ SalvageNothing \/ Salvage \/ Authority \/ Salvaged \/ StoppedAtWork
=============================================================================
