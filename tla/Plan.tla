-------------------------------- MODULE Plan ---------------------------------
(***************************************************************************)
(* The plan phase of a run (internal/orchestrator/plan.go and gate.go): a   *)
(* plan is drafted, a human approves it when one attends, the deliverables  *)
(* it splits out become cards of their own, and its subtasks are created.   *)
(***************************************************************************)
EXTENDS Card

CONSTANT MaxDrafts   \* maxPlanDrafts

ASSUME PlanAssumption == MaxDrafts \in Nat \ {0}

(* A plan: the subtasks it has.  A redrafted plan need not repeat the titles  *)
(* of the plan before it. *)
Plans == IF Fault("redraft") THEN SUBSET Tasks \ {{}} ELSE {Tasks}
(* A mob discusses the plan where one is on; a discussion that fails or       *)
(* settles on no plan, its repair included, leaves the draft to one planner. *)
MobDrafts == IF tc.mob THEN Plans ELSE {}
SoloDrafts == Plans

Stays == UNCHANGED <<tc, phase, state, claim, sub, held, start, remote, runs, local, dirty,
                     cands, landed>>

(* A draft goes to the human, or straight to the cards. *)
Drafted(p) ==
    /\ Goto(IF tc.human THEN "approve" ELSE "split")
    /\ Remember([me EXCEPT !.plan = p, !.drafts = @ + 1])
    /\ Stays /\ UNCHANGED <<extra, past>>

Draft == pc = "plan" /\ \E p \in MobDrafts \cup SoloDrafts : Drafted(p)

(* The root-cause investigation is best effort: all it can do to the run is   *)
(* to rule a model out. *)
Diagnose(cap) ==
    /\ pc = "plan" /\ me.drafts = 0 /\ Fault("model") /\ me.picks < cap
    /\ Remember([me EXCEPT !.picks = @ + 1])
    /\ Stays /\ UNCHANGED <<extra, pc, past>>

(* Budget, the turn cap of a planner, or a reply that is no plan after its     *)
(* repair. *)
DraftFails ==
    /\ pc = "plan"
    /\ \/ Fault("budget") /\ Exit("budget")
       \/ Fault("cap") /\ Exit("turns")
       \/ Fault("model") /\ Exit("error")
    /\ Stays /\ UNCHANGED <<extra, past>>

(* Approved, or promoted to autonomous while the gate waited. *)
Approve ==
    /\ pc = "approve"
    /\ past' = [past EXCEPT !.approved = TRUE]
    /\ Goto("split")
    /\ Stays /\ UNCHANGED <<extra, me>>

\* Mutant of Reply: a reply that could not be classified passes the gate.
ReplyPasses == Goto("split") /\ UNCHANGED me
\* Mutant of Reply: one draft too many.
ReplyOneMore ==
    IF me.drafts <= MaxDrafts THEN Goto("plan") /\ UNCHANGED me ELSE Exit("error")
(* An adjustment, or a reply that could not be classified: draft again. *)
Reply == IF me.drafts < MaxDrafts THEN Goto("plan") /\ UNCHANGED me ELSE Exit("error")

Adjust ==
    /\ pc = "approve"
    /\ Reply
    /\ Stays /\ UNCHANGED <<extra, past>>

ApproveFails ==
    /\ pc = "approve" /\ Fault("budget")
    /\ Exit("budget")
    /\ Stays /\ UNCHANGED <<extra, past>>

\* Mutant of Recorded: the record of an earlier run is not read.
RecordedNever == FALSE
(* The follow-up is in the "## Split" section the run read as it began. *)
Recorded == me.known = 1

(* The deliverable split out of the card becomes a card, unless it is one; a   *)
(* card whose answer is lost is this step, and a Note that fails. *)
Split ==
    /\ pc = "split" /\ tc.split
    /\ \/ Recorded /\ extra' = extra
       \/ ~Recorded /\ extra' = [extra EXCEPT !.made = @ + 1]
    /\ Goto("note")
    /\ Stays /\ UNCHANGED <<me, past>>

NoSplit ==
    /\ pc = "split" /\ ~tc.split
    /\ Goto("subtasks")
    /\ Stays /\ UNCHANGED <<extra, me, past>>

(* It cannot be created, or there are more of them than a run may create. *)
SplitFails ==
    /\ pc = "split" /\ tc.split
    /\ \/ Fault("card") /\ Exit("error")
       \/ Fault("model") /\ Exit("blocked")
    /\ Stays /\ UNCHANGED <<extra, past>>

(* It is recorded, best effort, before the next one risks failing. *)
Note ==
    /\ pc = "note"
    /\ \/ extra' = [extra EXCEPT !.noted = 1] /\ past' = past
       \/ /\ Fault("card") /\ extra' = extra
          /\ past' = [past EXCEPT !.torn = @ + 1]
    /\ \/ Goto("subtasks") /\ UNCHANGED me
       \/ Fault("card") /\ Exit("error")
    /\ Stays

(* One card each, in the order of the plan; an open card of the same title is *)
(* taken for it. *)
ToCreate == {t \in me.plan : t > me.at}
CreateSubtask ==
    /\ pc = "subtasks" /\ ToCreate # {}
    /\ LET t == CHOOSE u \in ToCreate : \A v \in ToCreate : u <= v IN
       /\ sub' = [sub EXCEPT ![t] = IF @ = "absent" THEN "todo" ELSE @]
       /\ Remember([me EXCEPT !.at = t])
    /\ UNCHANGED <<tc, phase, state, claim, held, start, extra, remote, pc, runs, local,
                   dirty, cands, landed, past>>

CreateFails ==
    /\ pc = "subtasks" /\ ToCreate # {} /\ Fault("card")
    /\ Exit("error")
    /\ Stays /\ UNCHANGED <<extra, past>>

Planned ==
    /\ pc = "subtasks" /\ ToCreate = {}
    /\ Proceed("plan")
    /\ Stays /\ UNCHANGED <<extra, past>>
=============================================================================
