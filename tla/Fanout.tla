------------------------------- MODULE Fanout --------------------------------
(***************************************************************************)
(* The execute phase of a run that races candidates (internal/orchestrator/ *)
(* candidates.go) and the judge that adopts one of them (judge.go).  The    *)
(* candidates work side by side in worktrees of their own, off the board    *)
(* but for the first of them to reach a subtask, which claims it for the    *)
(* run, and share the run's exclusions.                                     *)
(***************************************************************************)
EXTENDS Execute

CONSTANT Best   \* BestOfN of a card that races

ASSUME FanoutAssumption == Best \in Nat \ {0}

Racing == {"claim", "code"}
Outcomes == {"finished", "error", "budget", "turns"}
Candidates == DOMAIN cands
Cand == [at : Tasks, step : Racing \cup Outcomes, work : Branches,
         capped : BOOLEAN, verdict : {"unknown", "passed", "failed", "skipped"}]

(* As many candidates as the budget funds, at least one. *)
Funded == {Best} \cup (IF Fault("budget") THEN {1} ELSE {})

(* A race begins: each candidate gets a worktree of its own, cut from the     *)
(* branch of the card, before the first of them starts. *)
Race ==
    /\ pc = "execute" /\ tc.best /\ Open # {}
    /\ \E n \in Funded :
          cands' = [i \in 1 .. n |-> [at |-> NextTask, step |-> "claim", work |-> local,
                                      capped |-> FALSE, verdict |-> "unknown"]]
    /\ Goto("race")
    /\ UNCHANGED <<tc, cm, remote, runs, local, dirty, me, landed, past>>

(* Worktrees that cannot be cut, or no model to race on. *)
RaceFails ==
    /\ pc = "execute" /\ tc.best /\ Open # {} /\ (Fault("git") \/ Fault("model"))
    /\ Exit("error")
    /\ UNCHANGED <<tc, cm, remote, runs, local, dirty, cands, landed, past>>

(* Every subtask is complete: an earlier run adopted its winner already. *)
RaceSkipped ==
    /\ pc = "execute" /\ tc.best /\ Open = {}
    /\ Proceed("execute")
    /\ UNCHANGED <<tc, cm, remote, runs, local, dirty, cands, landed, past>>

Steps(i, r) == cands' = [cands EXCEPT ![i] = r]
Drops(i, why) == Steps(i, [cands[i] EXCEPT !.step = why])

(* The budget check of a candidate, and the claim of whoever is first. *)
CandidateClaims(i) ==
    /\ pc = "race" /\ cands[i].step = "claim"
    /\ LET t == cands[i].at IN
       IF t \in me.once THEN UNCHANGED <<me, sub, held>>
       ELSE /\ Remember([me EXCEPT !.once = @ \cup {t}])
            /\ \/ held' = held \cup {t} /\ sub' = [sub EXCEPT ![t] = "in_progress"]
               \/ Fault("card") /\ UNCHANGED <<sub, held>>
    /\ Steps(i, [cands[i] EXCEPT !.step = "code"])
    /\ UNCHANGED <<tc, phase, state, claim, start, extra, remote, pc, runs, local, dirty,
                   landed, past>>

CandidateBroke(i) ==
    /\ pc = "race" /\ cands[i].step = "claim" /\ Fault("budget")
    /\ Drops(i, "budget")
    /\ UNCHANGED <<tc, cm, remote, pc, runs, local, dirty, me, landed, past>>

Rest(i) == {t \in Open : t > cands[i].at}
Passed(c) == IF Rest(c) = {} THEN [step |-> "finished", at |-> cands[c].at]
             ELSE [step |-> "claim", at |-> CHOOSE t \in Rest(c) : \A u \in Rest(c) : t <= u]

(* The subtask is done, with a commit or with nothing to commit. *)
CandidateWorks(i) ==
    /\ pc = "race" /\ cands[i].step = "code"
    /\ \E w \in {cands[i].work} \cup {Commit(cands[i].work, cands[i].at, g) : g \in BOOLEAN} :
          Steps(i, [cands[i] EXCEPT !.step = Passed(i).step, !.at = Passed(i).at, !.work = w])
    /\ UNCHANGED <<tc, cm, remote, pc, runs, local, dirty, me, landed, past>>

\* Mutant of CapSaves: a cap on any subtask is salvaged.
CapSavesAny(i) == TRUE
(* A cap is salvaged on the last subtask only. *)
CapSaves(i) == Rest(i) = {}

CandidateCapped(i) ==
    /\ pc = "race" /\ cands[i].step = "code" /\ Fault("cap")
    /\ \/ /\ CapSaves(i)
          /\ \E g \in BOOLEAN :
                Steps(i, [cands[i] EXCEPT !.step = "finished", !.capped = TRUE,
                                          !.work = Commit(@, cands[i].at, g)])
       \/ Drops(i, "turns")
    /\ UNCHANGED <<tc, cm, remote, pc, runs, local, dirty, me, landed, past>>

(* Its model is ruled out, for all of them; another takes over, or none is    *)
(* left and the candidate drops. *)
CandidateReselects(i) ==
    /\ pc = "race" /\ cands[i].step = "code" /\ Fault("model")
    /\ \/ /\ me.picks < ReselectCap
          /\ Remember([me EXCEPT !.picks = @ + 1]) /\ UNCHANGED cands
       \/ Drops(i, "error") /\ UNCHANGED me
    /\ UNCHANGED <<tc, cm, remote, pc, runs, local, dirty, landed, past>>

Survivors == {i \in Candidates : cands[i].step = "finished"}

\* Mutant of Returned: the claims of a race nobody finished stay.
ReturnedNever == held' = held
Returned == \/ held' = held \ me.once
            \/ Fault("card") /\ held' = held

(* The race is joined; the run fails when every candidate did, with what the  *)
(* first of them failed with. *)
Join ==
    /\ pc = "race" /\ \A i \in Candidates : cands[i].step \notin Racing
    /\ \/ /\ Survivors # {}
          /\ Proceed("execute") /\ UNCHANGED held
       \/ /\ Survivors = {}
          /\ Returned /\ Exit(cands[1].step)
    /\ UNCHANGED <<tc, phase, state, claim, sub, start, extra, remote, runs, local, dirty,
                   cands, landed, past>>

(* The claims of the race are left to the sweep. *)
Leaves(why) == Exit(why) /\ past' = [past EXCEPT !.leak = held]

(* A stop fails whoever still races.  The claims go back when that is all of  *)
(* them; with one that had finished the join succeeds, and the run ends on    *)
(* its next step, which gives back nothing.                                   *)
RaceStopped ==
    /\ pc = "race" /\ Fault("stop")
    /\ \/ Survivors = {} /\ Returned /\ Exit("cancel") /\ past' = past
       \/ Survivors # {} /\ Leaves("cancel") /\ held' = held
    /\ UNCHANGED <<tc, phase, state, claim, sub, start, extra, remote, runs, local, dirty,
                   cands, landed>>

-----------------------------------------------------------------------------
(* The judge. *)

NothingToJudge ==
    /\ pc = "judge" /\ cands = << >>
    /\ Proceed("judge")
    /\ UNCHANGED <<tc, cm, remote, runs, local, dirty, cands, landed, past>>

Measured(c) == IF ~tc.verify THEN {"skipped"}
               ELSE {IF c.work.good THEN "passed" ELSE "failed"}
                    \cup (IF Fault("inconclusive") THEN {"skipped"} ELSE {})

(* Every survivor is verified, one after the other. *)
JudgeVerifies ==
    /\ pc = "judge" /\ cands # << >>
    /\ \E i \in Survivors :
          /\ cands[i].verdict = "unknown"
          /\ \A j \in Survivors : j < i => cands[j].verdict # "unknown"
          /\ \E v \in Measured(cands[i]) : Steps(i, [cands[i] EXCEPT !.verdict = v])
    /\ UNCHANGED <<tc, cm, remote, pc, runs, local, dirty, me, landed, past>>

Verifying == {i \in Survivors : cands[i].verdict = "passed"}
Uncapped == {i \in Survivors : ~cands[i].capped}
\* Mutant of Pool: nobody passes, so whoever survived is in.
PoolOfSurvivors == IF Verifying # {} THEN Verifying ELSE Survivors
Pool == IF Verifying # {} THEN Verifying ELSE Uncapped
Verified == \A i \in Survivors : cands[i].verdict # "unknown"
Judging == pc = "judge" /\ cands # << >> /\ Verified

NobodyToJudge ==
    /\ Judging /\ Pool = {}
    /\ Returned /\ Exit("error")
    /\ UNCHANGED <<tc, phase, state, claim, sub, start, extra, remote, runs, local, dirty,
                   cands, landed, past>>

(* One of them wins unread, or the judge's model chooses; without a model or  *)
(* a verdict it is the first. *)
JudgeChooses ==
    /\ Judging
    /\ \E i \in Pool : Remember([me EXCEPT !.winner = i])
    /\ Goto("adopt")
    /\ UNCHANGED <<tc, cm, remote, runs, local, dirty, cands, landed, past>>

JudgeFails ==
    /\ pc = "judge" /\ cands # << >>
    /\ \/ Verified /\ Cardinality(Pool) > 1 /\ Fault("budget") /\ Leaves("budget")
       \/ Verified /\ Cardinality(Pool) > 1 /\ Fault("model") /\ Leaves("error")
       \/ Fault("inconclusive") /\ Leaves("blocked")   \* no toolchain
       \/ Fault("stop") /\ Leaves("cancel")
    /\ UNCHANGED <<tc, cm, remote, runs, local, dirty, cands, landed>>

(* The card branch becomes the winner's, and is pushed. *)
Adopt ==
    /\ pc = "adopt" /\ dirty' = "none"
    /\ local' = cands[me.winner].work
    /\ TakesFirst(local') /\ remote' = local'
    /\ Goto("replay") /\ Remember([me EXCEPT !.pushed = TRUE, !.at = 0])
    /\ UNCHANGED <<tc, cm, runs, cands, landed, past>>

AdoptFails ==
    /\ pc = "adopt"
    /\ local' = cands[me.winner].work
    /\ \/ Fault("stop") /\ Leaves("cancel")
       \/ (Fault("git") \/ ~TakesFirst(local')) /\ Leaves("error")
    /\ UNCHANGED <<tc, cm, remote, runs, dirty, cands, landed>>

(* Its subtasks are completed, best effort each: the code is on the branch. *)
ToReplay == {t \in Open : t > me.at}
Replay ==
    /\ pc = "replay" /\ ToReplay # {}
    /\ LET t == CHOOSE u \in ToReplay : \A v \in ToReplay : u <= v IN
       /\ Remember([me EXCEPT !.at = t])
       /\ \/ /\ sub' = [sub EXCEPT ![t] = "done"] /\ held' = held \ {t}
             /\ landed' = [landed EXCEPT ![t] = local]
          \/ Fault("card") /\ held' \in {held, held \cup {t}} /\ UNCHANGED <<sub, landed>>
    /\ UNCHANGED <<tc, phase, state, claim, start, extra, remote, pc, runs, local, dirty,
                   cands, past>>

(* The worktrees go, the outcomes are reported, and the race is over. *)
Replayed ==
    /\ pc = "replay" /\ ToReplay = {}
    /\ Proceed("judge")
    /\ cands' = << >>
    /\ UNCHANGED <<tc, cm, remote, runs, local, dirty, landed, past>>

FanoutNext ==
    \/ Race \/ RaceFails \/ RaceSkipped \/ Join \/ RaceStopped
    \/ \E i \in Candidates :
          \/ CandidateClaims(i) \/ CandidateBroke(i) \/ CandidateWorks(i)
          \/ CandidateCapped(i) \/ CandidateReselects(i)
    \/ NothingToJudge \/ JudgeVerifies \/ NobodyToJudge \/ JudgeChooses \/ JudgeFails
    \/ Adopt \/ AdoptFails \/ Replay \/ Replayed
=============================================================================
