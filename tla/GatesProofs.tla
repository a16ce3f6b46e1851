----------------------------- MODULE GatesProofs -----------------------------
(* Theorems about Gates, for any comments, cap, cards and number of runs.    *)
EXTENDS Gates, WellFoundedInduction, TLAPS

USE GatesAssumption
USE DEF pr, cm, mem, hist, vars, Goto, Fault

-----------------------------------------------------------------------------
(* The verdicts on the card. *)

LEMMA LastExists ==
    ASSUME NEW N \in Nat, NEW S \in SUBSET (1 .. N), S # {}
    PROVE  \E x \in S : \A y \in S : y <= x
<1> DEFINE T == {N - x : x \in S}
           R == OpToRel(<, Nat)
<1>1. T # {}
  OBVIOUS
<1>2. T \subseteq Nat
  <2>1. ASSUME NEW x \in S PROVE N - x \in Nat
    <3>1. x \in 1 .. N
      OBVIOUS
    <3> QED
      BY <3>1
  <2> QED
    BY <2>1
<1>3. IsWellFoundedOn(R, Nat)
  BY NatLessThanWellFounded
<1>4. PICK m \in T : \A t \in T : ~(<<t, m>> \in R)
  <2> HIDE DEF T, R
  <2> QED
    BY <1>1, <1>2, <1>3, WFMin
<1>5. \A t \in T : ~(t < m)
  BY <1>2, <1>4 DEF OpToRel
<1>6. PICK x \in S : m = N - x
  OBVIOUS
<1>7. ASSUME NEW y \in S PROVE y <= x
  <2>1. ~(N - y < N - x)
    BY <1>5, <1>6
  <2>2. x \in 1 .. N /\ y \in 1 .. N
    OBVIOUS
  <2> QED
    BY <2>1, <2>2
<1> QED
  BY <1>7

LEMMA TriagedTypes ==
    ASSUME NEW b \in Sections
    PROVE  TriagedComments(b) \in [Comments -> Verdicts]
<1> SUFFICES ASSUME NEW c \in Comments PROVE TriagedComments(b)[c] \in Verdicts
  BY DEF TriagedComments
<1> DEFINE said == {r \in Rounds : b.triage[r][c] # "none"}
<1>1. CASE said = {}
  BY <1>1 DEF TriagedComments, Verdicts
<1>2. CASE said # {}
  <2> DEFINE last == CHOOSE r \in said : \A q \in said : q <= r
  <2>1. said \in SUBSET (1 .. RoundsCap + 1) /\ RoundsCap + 1 \in Nat
    BY DEF Rounds
  <2>2. \E r \in said : \A q \in said : q <= r
    <3> HIDE DEF said
    <3> QED
      BY <1>2, <2>1, LastExists
  <2>3. last \in said
    BY <2>2
  <2>4. b.triage[last][c] \in Verdicts
    BY <2>3 DEF Sections
  <2>5. TriagedComments(b)[c] = b.triage[last][c]
    BY <1>2 DEF TriagedComments
  <2> QED
    BY <2>4, <2>5
<1> QED
  BY <1>1, <1>2

-----------------------------------------------------------------------------
(* Type correctness. *)

LEMMA SectionTypes ==
    /\ NoVerdict \in [Comments -> Verdicts]
    /\ NoSections \in Sections
    /\ \A b \in Sections : [b EXCEPT !.sat = TRUE] \in Sections
    /\ \A b \in Sections : [b EXCEPT !.merged = TRUE] \in Sections
    /\ \A b \in Sections, r \in Rounds, v \in [Comments -> Verdicts] :
         [b EXCEPT !.triage[r] = v] \in Sections
    /\ \A b \in Sections, g \in Kinds :
         b.rounds[g] < RoundsCap => [b EXCEPT !.rounds[g] = @ + 1] \in Sections
<1>1. NoVerdict \in [Comments -> Verdicts]
  BY DEF NoVerdict, Verdicts
<1>2. NoSections \in Sections
  BY <1>1 DEF NoSections, Sections, Rounds, Kinds
<1>3. \A b \in Sections : [b EXCEPT !.sat = TRUE] \in Sections /\ [b EXCEPT !.merged = TRUE] \in Sections
  BY DEF Sections
<1>4. ASSUME NEW b \in Sections, NEW r \in Rounds, NEW v \in [Comments -> Verdicts]
      PROVE  [b EXCEPT !.triage[r] = v] \in Sections
  BY DEF Sections
<1>5. ASSUME NEW b \in Sections, NEW g \in Kinds, b.rounds[g] < RoundsCap
      PROVE  [b EXCEPT !.rounds[g] = @ + 1] \in Sections
  <2>1. b.rounds \in [Kinds -> 0 .. RoundsCap] /\ b.rounds[g] + 1 \in 0 .. RoundsCap
    BY <1>5 DEF Sections
  <2> QED
    BY <2>1 DEF Sections
<1> QED
  BY <1>1, <1>2, <1>3, <1>4, <1>5

LEMMA WriteTypes ==
    ASSUME CardTypeOK, NEW b \in Sections, Write(b)
    PROVE  CardTypeOK'
<1>1. saved' \in Sections /\ body' \in Sections
  BY DEF CardTypeOK, Write, Save
<1>2. url' \in BOOLEAN /\ done' \in BOOLEAN /\ lost' \in BOOLEAN
  BY Zenon DEF CardTypeOK, Write, Save
<1> QED
  BY <1>1, <1>2 DEF CardTypeOK

\* A run that is over leaves nothing in memory.
LEMMA EndsTypes ==
    ASSUME GatesTypeOK, Ends
    PROVE  /\ MemTypeOK' /\ body' \in Sections /\ pc' = "idle"
           /\ fresh' = FALSE /\ ungated' = FALSE /\ theirs' = "none"
<1>1. judged' \in [Comments -> Verdicts] /\ inhand' \subseteq Comments /\ body' \in Sections
  BY SectionTypes DEF Ends
<1> QED
  BY <1>1 DEF Ends, MemTypeOK

LEMMA ParkTypes ==
    ASSUME GatesTypeOK, Park, muddled' = muddled, begun' = begun
    PROVE  CardTypeOK' /\ MemTypeOK' /\ HistTypeOK' /\ pc' = "idle"
<1>1. MemTypeOK' /\ body' \in Sections /\ pc' = "idle" /\ fresh' = FALSE /\ ungated' = FALSE
      /\ theirs' = "none"
  BY EndsTypes DEF Park
<1>2. saved' \in Sections
  BY DEF Park, Save, GatesTypeOK, CardTypeOK
<1>3. url' \in BOOLEAN /\ done' \in BOOLEAN /\ lost' \in BOOLEAN
  BY Zenon DEF Park, Save, GatesTypeOK, CardTypeOK
<1> QED
  BY <1>1, <1>2, <1>3 DEF CardTypeOK, HistTypeOK, GatesTypeOK

\* What a step does to the rest is named, so that each kind of step is told
\* by the variables it writes.
LEMMA PullRequestTypes ==
    ASSUME GatesTypeOK, [Next]_vars
    PROVE  PrTypeOK'
<1> USE DEF GatesTypeOK, PrTypeOK
<1>1. CASE UNCHANGED pr
  BY <1>1
<1>2. CASE ChecksMove
  BY <1>2 DEF ChecksMove
<1>3. CASE CopilotReviews
  <2>1. tc.says \subseteq Comments
    OBVIOUS
  <2>2. PICK cs \in SUBSET tc.says : review' = [on |-> TRUE, comments |-> cs]
    BY <1>3 DEF CopilotReviews
  <2>3. review' \in [on : BOOLEAN, comments : SUBSET Comments]
    BY <2>1, <2>2
  <2> QED
    BY <1>3, <2>3 DEF CopilotReviews
<1>4. CASE OperatorPushes
  BY <1>4 DEF OperatorPushes, Pushed
<1>5. CASE Asks \/ GraceRetries \/ CycleAsksAgain
  <2>1. PICK a \in Answers : Request(a)
    BY <1>5 DEF Asks, GraceRetries, CycleAsksAgain
  <2>2. asked' \in BOOLEAN
    BY <2>1 DEF Request, Answers
  <2> QED
    BY <1>5, <2>2 DEF Asks, GraceRetries, CycleAsksAgain
<1>6. CASE CycleRepeats \/ CycleReopens \/ CycleTriages
  <2>1. resolved' \subseteq Comments
    BY <1>6 DEF CycleRepeats, CycleReopens, CycleTriages, Resolve, ConfirmedFixed
  <2> QED
    BY <1>6, <2>1 DEF CycleRepeats, CycleReopens, CycleTriages
<1>7. CASE Triages
  <2>1. Unseen \subseteq Comments
    BY DEF Unseen, MemTypeOK
  <2>2. PICK cs \in SUBSET Unseen : Resolve(cs)
    BY <1>7 DEF Triages
  <2>3. resolved' \subseteq Comments
    BY <2>1, <2>2 DEF Resolve
  <2> QED
    BY <1>7, <2>3 DEF Triages
<1>8. ASSUME NEW g \in Kinds, FixRound(g)
      PROVE  PrTypeOK'
  BY <1>8 DEF FixRound, FixRefused, FixBegins, FixLands, FixRejected, FixCapped, FixStops, FixChangesNothing, Pushed
<1>9. CASE MergeLands
  BY <1>9 DEF MergeLands
<1>10. CASE CopilotGate /\ ~Asks
  BY <1>1, <1>10 DEF CopilotGate, CopilotPasses, CopilotOnHead, CopilotAsks, ReviewArrives,
     ReviewDoesNot, GraceUpgrades
<1>11. CASE TriageStops \/ CycleSatisfied
  BY <1>1, <1>11 DEF TriageStops, CycleSatisfied
<1>12. CASE CiGate \/ CiWaits
  BY <1>1, <1>12 DEF CiGate, CiSkipped, CiEnters, CiProbes, CiGraceOver, CiWaits, CiGreen, CiRed, CiParks
<1>13. CASE RunPRGates /\ ~MergeLands
  BY <1>1, <1>13 DEF RunPRGates, GatesPass, LateCheckFindsNone, LateCheckFinds, MergeSkipped,
     MergeRefused, MergeRecorded, Finish
<1>14. CASE Enter \/ PassesThrough \/ EnterFinds \/ EnterFindsNone \/ Crash
  BY <1>1, <1>14 DEF Enter, PassesThrough, EnterFinds, EnterFindsNone, Crash
<1> QED
  BY <1>1, <1>2, <1>3, <1>4, <1>5, <1>6, <1>7, <1>8, <1>9, <1>10, <1>11, <1>12, <1>13, <1>14
     DEF Next, RunStep, Polls, CopilotReviewCycle, CopilotFixRound, CiFixRound, Kinds


LEMMA TypeStep == GatesTypeOK /\ [Next]_vars => GatesTypeOK'
<1> SUFFICES ASSUME GatesTypeOK, [Next]_vars PROVE GatesTypeOK'
  OBVIOUS
<1>a. review.comments \subseteq Comments /\ TriagedComments(body) \in [Comments -> Verdicts]
  BY TriagedTypes DEF GatesTypeOK, PrTypeOK, CardTypeOK
<1>b. NoVerdict \in [Comments -> Verdicts]
  BY SectionTypes
<1>1. CASE ChecksMove
  <2>1. tc' = tc /\ RunTypeOK'
    BY <1>1 DEF ChecksMove, GatesTypeOK, RunTypeOK
  <2>2. CardTypeOK'
    BY <1>1, SectionTypes, WriteTypes DEF ChecksMove, GatesTypeOK, CardTypeOK
  <2>3. MemTypeOK'
    BY <1>1 DEF ChecksMove, GatesTypeOK, MemTypeOK
  <2>4. HistTypeOK'
    BY <1>1 DEF ChecksMove, GatesTypeOK, HistTypeOK
  <2> QED
    BY <2>1, <2>2, <2>3, <2>4, PullRequestTypes DEF GatesTypeOK
<1>2. CASE CopilotReviews
  <2>1. tc' = tc /\ RunTypeOK'
    BY <1>2 DEF CopilotReviews, GatesTypeOK, RunTypeOK
  <2>2. CardTypeOK'
    BY <1>2, SectionTypes, WriteTypes DEF CopilotReviews, GatesTypeOK, CardTypeOK
  <2>3. MemTypeOK'
    BY <1>2 DEF CopilotReviews, GatesTypeOK, MemTypeOK
  <2>4. HistTypeOK'
    BY <1>2 DEF CopilotReviews, GatesTypeOK, HistTypeOK
  <2> QED
    BY <2>1, <2>2, <2>3, <2>4, PullRequestTypes DEF GatesTypeOK
<1>3. CASE OperatorPushes
  <2>1. tc' = tc /\ RunTypeOK'
    BY <1>3 DEF OperatorPushes, GatesTypeOK, RunTypeOK
  <2>2. CardTypeOK'
    BY <1>3, SectionTypes, WriteTypes DEF OperatorPushes, GatesTypeOK, CardTypeOK
  <2>3. MemTypeOK'
    BY <1>3 DEF OperatorPushes, GatesTypeOK, MemTypeOK
  <2>4. HistTypeOK'
    BY <1>3 DEF OperatorPushes, GatesTypeOK, HistTypeOK
  <2> QED
    BY <2>1, <2>2, <2>3, <2>4, PullRequestTypes DEF GatesTypeOK
<1>4. CASE Enter
  <2>1. tc' = tc /\ RunTypeOK'
    BY <1>4 DEF Enter, Fresh, GatesTypeOK, RunTypeOK
  <2>2. CardTypeOK'
    BY <1>4, SectionTypes, WriteTypes DEF Enter, Fresh, GatesTypeOK, CardTypeOK
  <2>3. MemTypeOK'
    BY <1>4 DEF Enter, Fresh, GatesTypeOK, MemTypeOK
  <2>4. HistTypeOK'
    BY <1>4 DEF Enter, Fresh, GatesTypeOK, HistTypeOK
  <2> QED
    BY <2>1, <2>2, <2>3, <2>4, PullRequestTypes DEF GatesTypeOK
<1>5. CASE EnterFinds
  <2>1. tc' = tc /\ RunTypeOK'
    BY <1>5 DEF EnterFinds, Fresh, GatesTypeOK, RunTypeOK
  <2>2. CardTypeOK'
    BY <1>5, SectionTypes, WriteTypes DEF EnterFinds, Fresh, GatesTypeOK, CardTypeOK
  <2>3. MemTypeOK'
    BY <1>5 DEF EnterFinds, Fresh, GatesTypeOK, MemTypeOK
  <2>4. HistTypeOK'
    BY <1>5 DEF EnterFinds, Fresh, GatesTypeOK, HistTypeOK
  <2> QED
    BY <2>1, <2>2, <2>3, <2>4, PullRequestTypes DEF GatesTypeOK
<1>6. CASE EnterFindsNone
  <2>1. tc' = tc /\ RunTypeOK'
    BY <1>6 DEF EnterFindsNone, GatesTypeOK, RunTypeOK
  <2>2. CardTypeOK'
    BY <1>6, SectionTypes, WriteTypes DEF EnterFindsNone, GatesTypeOK, CardTypeOK
  <2>3. MemTypeOK'
    BY <1>6 DEF EnterFindsNone, GatesTypeOK, MemTypeOK
  <2>4. HistTypeOK'
    BY <1>6 DEF EnterFindsNone, GatesTypeOK, HistTypeOK
  <2> QED
    BY <2>1, <2>2, <2>3, <2>4, PullRequestTypes DEF GatesTypeOK
<1>7. CASE CopilotPasses
  <2>1. tc' = tc /\ RunTypeOK'
    BY <1>7 DEF CopilotPasses, GatesTypeOK, RunTypeOK
  <2>2. CardTypeOK'
    BY <1>7, SectionTypes, WriteTypes DEF CopilotPasses, GatesTypeOK, CardTypeOK
  <2>3. MemTypeOK'
    BY <1>7 DEF CopilotPasses, GatesTypeOK, MemTypeOK
  <2>4. HistTypeOK'
    BY <1>7 DEF CopilotPasses, GatesTypeOK, HistTypeOK
  <2> QED
    BY <2>1, <2>2, <2>3, <2>4, PullRequestTypes DEF GatesTypeOK
<1>8. CASE CopilotOnHead
  <2>1. tc' = tc /\ RunTypeOK'
    BY <1>8 DEF CopilotOnHead, GatesTypeOK, RunTypeOK
  <2>2. CardTypeOK'
    BY <1>8, SectionTypes, WriteTypes DEF CopilotOnHead, GatesTypeOK, CardTypeOK
  <2>3. MemTypeOK'
    BY <1>8, <1>a DEF CopilotOnHead, GatesTypeOK, MemTypeOK
  <2>4. HistTypeOK'
    BY <1>8 DEF CopilotOnHead, GatesTypeOK, HistTypeOK
  <2> QED
    BY <2>1, <2>2, <2>3, <2>4, PullRequestTypes DEF GatesTypeOK
<1>9. CASE CopilotAsks
  <2>1. tc' = tc /\ RunTypeOK'
    BY <1>9 DEF CopilotAsks, GatesTypeOK, RunTypeOK
  <2>2. CardTypeOK'
    BY <1>9, SectionTypes, WriteTypes DEF CopilotAsks, GatesTypeOK, CardTypeOK
  <2>3. MemTypeOK'
    BY <1>9, <1>a DEF CopilotAsks, GatesTypeOK, MemTypeOK
  <2>4. HistTypeOK'
    BY <1>9 DEF CopilotAsks, GatesTypeOK, HistTypeOK
  <2> QED
    BY <2>1, <2>2, <2>3, <2>4, PullRequestTypes DEF GatesTypeOK
<1>10. CASE Asks
  <2>1. tc' = tc /\ RunTypeOK'
    BY <1>10 DEF Asks, Skip, Answers, GatesTypeOK, RunTypeOK
  <2>2. CardTypeOK'
    BY <1>10, SectionTypes, WriteTypes DEF Asks, Skip, Answers, GatesTypeOK, CardTypeOK
  <2>3. MemTypeOK'
    BY <1>10 DEF Asks, Skip, Answers, GatesTypeOK, MemTypeOK
  <2>4. HistTypeOK'
    BY <1>10 DEF Asks, Skip, Answers, GatesTypeOK, HistTypeOK
  <2> QED
    BY <2>1, <2>2, <2>3, <2>4, PullRequestTypes DEF GatesTypeOK
<1>11. CASE ReviewArrives
  <2>1. tc' = tc /\ RunTypeOK'
    BY <1>11 DEF ReviewArrives, GatesTypeOK, RunTypeOK
  <2>2. CardTypeOK'
    BY <1>11, SectionTypes, WriteTypes DEF ReviewArrives, GatesTypeOK, CardTypeOK
  <2>3. MemTypeOK'
    BY <1>11, <1>a DEF ReviewArrives, GatesTypeOK, MemTypeOK
  <2>4. HistTypeOK'
    BY <1>11 DEF ReviewArrives, GatesTypeOK, HistTypeOK
  <2> QED
    BY <2>1, <2>2, <2>3, <2>4, PullRequestTypes DEF GatesTypeOK
<1>12. CASE ReviewDoesNot
  <2>1. tc' = tc /\ RunTypeOK'
    BY <1>12 DEF ReviewDoesNot, Skip, GatesTypeOK, RunTypeOK
  <2>2. CardTypeOK'
    BY <1>12, SectionTypes, WriteTypes DEF ReviewDoesNot, Skip, GatesTypeOK, CardTypeOK
  <2>3. MemTypeOK'
    BY <1>12 DEF ReviewDoesNot, Skip, GatesTypeOK, MemTypeOK
  <2>4. HistTypeOK'
    BY <1>12 DEF ReviewDoesNot, Skip, GatesTypeOK, HistTypeOK
  <2> QED
    BY <2>1, <2>2, <2>3, <2>4, PullRequestTypes DEF GatesTypeOK
<1>13. CASE GraceUpgrades
  <2>1. tc' = tc /\ RunTypeOK'
    BY <1>13 DEF GraceUpgrades, GatesTypeOK, RunTypeOK
  <2>2. CardTypeOK'
    BY <1>13, SectionTypes, WriteTypes DEF GraceUpgrades, GatesTypeOK, CardTypeOK
  <2>3. MemTypeOK'
    BY <1>13 DEF GraceUpgrades, GatesTypeOK, MemTypeOK
  <2>4. HistTypeOK'
    BY <1>13 DEF GraceUpgrades, GatesTypeOK, HistTypeOK
  <2> QED
    BY <2>1, <2>2, <2>3, <2>4, PullRequestTypes DEF GatesTypeOK
<1>14. CASE GraceRetries
  <2>1. tc' = tc /\ RunTypeOK'
    BY <1>14 DEF GraceRetries, Skip, Answers, GatesTypeOK, RunTypeOK
  <2>2. CardTypeOK'
    BY <1>14, SectionTypes, WriteTypes DEF GraceRetries, Skip, Answers, GatesTypeOK, CardTypeOK
  <2>3. MemTypeOK'
    BY <1>14 DEF GraceRetries, Skip, Answers, GatesTypeOK, MemTypeOK
  <2>4. HistTypeOK'
    BY <1>14 DEF GraceRetries, Skip, Answers, GatesTypeOK, HistTypeOK
  <2> QED
    BY <2>1, <2>2, <2>3, <2>4, PullRequestTypes DEF GatesTypeOK
<1>15. CASE CycleRepeats
  <2>1. tc' = tc /\ RunTypeOK'
    BY <1>15 DEF CycleRepeats, GatesTypeOK, RunTypeOK
  <2>2. CardTypeOK'
    BY <1>15, SectionTypes, WriteTypes DEF CycleRepeats, GatesTypeOK, CardTypeOK
  <2>3. MemTypeOK'
    BY <1>15 DEF CycleRepeats, GatesTypeOK, MemTypeOK
  <2>4. HistTypeOK'
    BY <1>15 DEF CycleRepeats, GatesTypeOK, HistTypeOK
  <2> QED
    BY <2>1, <2>2, <2>3, <2>4, PullRequestTypes DEF GatesTypeOK
<1>16. CASE CycleReopens
  <2>1. tc' = tc /\ RunTypeOK'
    BY <1>16 DEF CycleReopens, GatesTypeOK, RunTypeOK
  <2>2. CardTypeOK'
    BY <1>16, SectionTypes, WriteTypes DEF CycleReopens, GatesTypeOK, CardTypeOK
  <2>3. MemTypeOK'
    BY <1>16 DEF CycleReopens, GatesTypeOK, MemTypeOK
  <2>4. HistTypeOK'
    BY <1>16 DEF CycleReopens, GatesTypeOK, HistTypeOK
  <2> QED
    BY <2>1, <2>2, <2>3, <2>4, PullRequestTypes DEF GatesTypeOK
<1>17. CASE CycleTriages
  <2>1. tc' = tc /\ RunTypeOK'
    BY <1>17 DEF CycleTriages, GatesTypeOK, RunTypeOK
  <2>2. CardTypeOK'
    BY <1>17, SectionTypes, WriteTypes DEF CycleTriages, GatesTypeOK, CardTypeOK
  <2>3. MemTypeOK'
    BY <1>17 DEF CycleTriages, GatesTypeOK, MemTypeOK
  <2>4. HistTypeOK'
    BY <1>17 DEF CycleTriages, GatesTypeOK, HistTypeOK
  <2> QED
    BY <2>1, <2>2, <2>3, <2>4, PullRequestTypes DEF GatesTypeOK
<1>18. CASE Triages
  <2>1. PICK named \in SUBSET Unseen : \E valid \in SUBSET named :
          /\ Write([body EXCEPT !.triage[body.rounds["copilot"] + 1] = Answer(named, valid)])
          /\ judged' = [c \in Comments |-> IF c \in Unseen THEN Answer(named, valid)[c] ELSE judged[c]]
    BY <1>18 DEF Triages
  <2>2. PICK valid \in SUBSET named :
          /\ Write([body EXCEPT !.triage[body.rounds["copilot"] + 1] = Answer(named, valid)])
          /\ judged' = [c \in Comments |-> IF c \in Unseen THEN Answer(named, valid)[c] ELSE judged[c]]
    BY <2>1
  <2>3. Answer(named, valid) \in [Comments -> Verdicts]
    BY DEF Answer, Verdicts
  <2>4. body \in Sections /\ body.rounds["copilot"] + 1 \in Rounds
    BY DEF GatesTypeOK, CardTypeOK, Sections, Rounds, Kinds
  <2>5. CardTypeOK'
    BY <2>2, <2>3, <2>4, SectionTypes, WriteTypes DEF GatesTypeOK
  <2>6. judged' \in [Comments -> Verdicts]
    BY <2>2, <2>3 DEF GatesTypeOK, MemTypeOK
  <2>7. MemTypeOK'
    BY <1>18, <2>6 DEF Triages, GatesTypeOK, MemTypeOK
  <2>8. muddled' \in BOOLEAN
    BY <1>18 DEF Triages, GatesTypeOK, HistTypeOK
  <2>9. HistTypeOK'
    BY <1>18, <2>8 DEF Triages, GatesTypeOK, HistTypeOK
  <2>10. tc' = tc /\ RunTypeOK'
    BY <1>18 DEF Triages, GatesTypeOK, RunTypeOK
  <2> QED
    BY <2>5, <2>7, <2>9, <2>10, PullRequestTypes DEF GatesTypeOK
<1>19. CASE CycleSatisfied
  <2>1. tc' = tc /\ RunTypeOK'
    BY <1>19 DEF CycleSatisfied, AfterPass, GatesTypeOK, RunTypeOK
  <2>2. CardTypeOK'
    BY <1>19, SectionTypes, WriteTypes DEF CycleSatisfied, AfterPass, GatesTypeOK, CardTypeOK
  <2>3. MemTypeOK'
    BY <1>19, <1>b DEF CycleSatisfied, GatesTypeOK, MemTypeOK
  <2>4. HistTypeOK'
    BY <1>19 DEF CycleSatisfied, AfterPass, GatesTypeOK, HistTypeOK
  <2> QED
    BY <2>1, <2>2, <2>3, <2>4, PullRequestTypes DEF GatesTypeOK
<1>20. CASE CycleAsksAgain
  <2>1. tc' = tc /\ RunTypeOK'
    BY <1>20 DEF CycleAsksAgain, Skip, Answers, AfterPass, GatesTypeOK, RunTypeOK
  <2>2. CardTypeOK'
    BY <1>20, SectionTypes, WriteTypes DEF CycleAsksAgain, Skip, Answers, AfterPass, GatesTypeOK, CardTypeOK
  <2>3. MemTypeOK'
    BY <1>20 DEF CycleAsksAgain, Skip, Answers, AfterPass, GatesTypeOK, MemTypeOK
  <2>4. HistTypeOK'
    <3>1. ungated' = late \/ ungated' = ungated
      BY <1>20 DEF CycleAsksAgain
    <3>2. ungated' \in BOOLEAN
      BY <3>1, Zenon DEF GatesTypeOK, MemTypeOK, HistTypeOK
    <3> QED
      BY <1>20, <3>2 DEF CycleAsksAgain, GatesTypeOK, HistTypeOK
  <2> QED
    BY <2>1, <2>2, <2>3, <2>4, PullRequestTypes DEF GatesTypeOK
<1>21. CASE CiSkipped
  <2>1. tc' = tc /\ RunTypeOK'
    BY <1>21 DEF CiSkipped, GatesTypeOK, RunTypeOK
  <2>2. CardTypeOK'
    BY <1>21, SectionTypes, WriteTypes DEF CiSkipped, GatesTypeOK, CardTypeOK
  <2>3. MemTypeOK'
    BY <1>21 DEF CiSkipped, GatesTypeOK, MemTypeOK
  <2>4. HistTypeOK'
    BY <1>21 DEF CiSkipped, GatesTypeOK, HistTypeOK
  <2> QED
    BY <2>1, <2>2, <2>3, <2>4, PullRequestTypes DEF GatesTypeOK
<1>22. CASE CiEnters
  <2>1. tc' = tc /\ RunTypeOK'
    BY <1>22 DEF CiEnters, GatesTypeOK, RunTypeOK
  <2>2. CardTypeOK'
    BY <1>22, SectionTypes, WriteTypes DEF CiEnters, GatesTypeOK, CardTypeOK
  <2>3. MemTypeOK'
    BY <1>22 DEF CiEnters, GatesTypeOK, MemTypeOK
  <2>4. HistTypeOK'
    BY <1>22 DEF CiEnters, CaughtUp, GatesTypeOK, HistTypeOK
  <2> QED
    BY <2>1, <2>2, <2>3, <2>4, PullRequestTypes DEF GatesTypeOK
<1>23. CASE CiProbes
  <2>1. tc' = tc /\ RunTypeOK'
    BY <1>23 DEF CiProbes, GatesTypeOK, RunTypeOK
  <2>2. CardTypeOK'
    BY <1>23, SectionTypes, WriteTypes DEF CiProbes, GatesTypeOK, CardTypeOK
  <2>3. MemTypeOK'
    BY <1>23 DEF CiProbes, GatesTypeOK, MemTypeOK
  <2>4. HistTypeOK'
    BY <1>23 DEF CiProbes, GatesTypeOK, HistTypeOK
  <2> QED
    BY <2>1, <2>2, <2>3, <2>4, PullRequestTypes DEF GatesTypeOK
<1>24. CASE CiGraceOver
  <2>1. tc' = tc /\ RunTypeOK'
    BY <1>24 DEF CiGraceOver, GatesTypeOK, RunTypeOK
  <2>2. CardTypeOK'
    BY <1>24, SectionTypes, WriteTypes DEF CiGraceOver, GatesTypeOK, CardTypeOK
  <2>3. MemTypeOK'
    BY <1>24 DEF CiGraceOver, GatesTypeOK, MemTypeOK
  <2>4. HistTypeOK'
    BY <1>24 DEF CiGraceOver, GatesTypeOK, HistTypeOK
  <2> QED
    BY <2>1, <2>2, <2>3, <2>4, PullRequestTypes DEF GatesTypeOK
<1>25. CASE CiWaits
  <2>1. tc' = tc /\ RunTypeOK'
    BY <1>25 DEF CiWaits, Sees, Seen, GatesTypeOK, RunTypeOK
  <2>2. CardTypeOK'
    BY <1>25, SectionTypes, WriteTypes DEF CiWaits, Sees, Seen, GatesTypeOK, CardTypeOK
  <2>3. MemTypeOK'
    BY <1>25 DEF CiWaits, Sees, Seen, GatesTypeOK, MemTypeOK
  <2>4. HistTypeOK'
    BY <1>25 DEF CiWaits, Sees, Seen, GatesTypeOK, HistTypeOK
  <2> QED
    BY <2>1, <2>2, <2>3, <2>4, PullRequestTypes DEF GatesTypeOK
<1>26. CASE CiGreen
  <2>1. tc' = tc /\ RunTypeOK'
    BY <1>26 DEF CiGreen, Sees, Seen, GatesTypeOK, RunTypeOK
  <2>2. CardTypeOK'
    BY <1>26, SectionTypes, WriteTypes DEF CiGreen, Sees, Seen, GatesTypeOK, CardTypeOK
  <2>3. MemTypeOK'
    BY <1>26 DEF CiGreen, Sees, Seen, GatesTypeOK, MemTypeOK
  <2>4. HistTypeOK'
    BY <1>26 DEF CiGreen, CaughtUp, GatesTypeOK, HistTypeOK
  <2> QED
    BY <2>1, <2>2, <2>3, <2>4, PullRequestTypes DEF GatesTypeOK
<1>27. CASE GatesPass
  <2>1. tc' = tc /\ RunTypeOK'
    BY <1>27 DEF GatesPass, AfterPass, GatesTypeOK, RunTypeOK
  <2>2. CardTypeOK'
    BY <1>27, SectionTypes, WriteTypes DEF GatesPass, AfterPass, GatesTypeOK, CardTypeOK
  <2>3. MemTypeOK'
    BY <1>27 DEF GatesPass, AfterPass, GatesTypeOK, MemTypeOK
  <2>4. HistTypeOK'
    BY <1>27 DEF GatesPass, AfterPass, GatesTypeOK, HistTypeOK
  <2> QED
    BY <2>1, <2>2, <2>3, <2>4, PullRequestTypes DEF GatesTypeOK
<1>28. CASE LateCheckFindsNone
  <2>1. tc' = tc /\ RunTypeOK'
    BY <1>28 DEF LateCheckFindsNone, AfterPass, GatesTypeOK, RunTypeOK
  <2>2. CardTypeOK'
    BY <1>28, SectionTypes, WriteTypes DEF LateCheckFindsNone, AfterPass, GatesTypeOK, CardTypeOK
  <2>3. MemTypeOK'
    BY <1>28 DEF LateCheckFindsNone, AfterPass, GatesTypeOK, MemTypeOK
  <2>4. HistTypeOK'
    BY <1>28 DEF LateCheckFindsNone, AfterPass, GatesTypeOK, HistTypeOK
  <2> QED
    BY <2>1, <2>2, <2>3, <2>4, PullRequestTypes DEF GatesTypeOK
<1>29. CASE LateCheckFinds
  <2>1. tc' = tc /\ RunTypeOK'
    BY <1>29 DEF LateCheckFinds, GatesTypeOK, RunTypeOK
  <2>2. CardTypeOK'
    BY <1>29, SectionTypes, WriteTypes DEF LateCheckFinds, GatesTypeOK, CardTypeOK
  <2>3. MemTypeOK'
    BY <1>29, <1>a DEF LateCheckFinds, GatesTypeOK, MemTypeOK
  <2>4. HistTypeOK'
    BY <1>29 DEF LateCheckFinds, GatesTypeOK, HistTypeOK
  <2> QED
    BY <2>1, <2>2, <2>3, <2>4, PullRequestTypes DEF GatesTypeOK
<1>30. CASE MergeSkipped
  <2>1. tc' = tc /\ RunTypeOK'
    BY <1>30 DEF MergeSkipped, GatesTypeOK, RunTypeOK
  <2>2. CardTypeOK'
    BY <1>30, SectionTypes, WriteTypes DEF MergeSkipped, GatesTypeOK, CardTypeOK
  <2>3. MemTypeOK'
    BY <1>30 DEF MergeSkipped, GatesTypeOK, MemTypeOK
  <2>4. HistTypeOK'
    BY <1>30 DEF MergeSkipped, GatesTypeOK, HistTypeOK
  <2> QED
    BY <2>1, <2>2, <2>3, <2>4, PullRequestTypes DEF GatesTypeOK
<1>31. CASE MergeLands
  <2>1. tc' = tc /\ RunTypeOK'
    BY <1>31 DEF MergeLands, GatesTypeOK, RunTypeOK
  <2>2. CardTypeOK'
    BY <1>31, SectionTypes, WriteTypes DEF MergeLands, GatesTypeOK, CardTypeOK
  <2>3. MemTypeOK'
    BY <1>31 DEF MergeLands, GatesTypeOK, MemTypeOK
  <2>4. HistTypeOK'
    BY <1>31 DEF MergeLands, GatesTypeOK, HistTypeOK
  <2> QED
    BY <2>1, <2>2, <2>3, <2>4, PullRequestTypes DEF GatesTypeOK
<1>32. CASE MergeRecorded
  <2>1. tc' = tc /\ RunTypeOK'
    BY <1>32 DEF MergeRecorded, GatesTypeOK, RunTypeOK
  <2>2. CardTypeOK'
    BY <1>32, SectionTypes, WriteTypes DEF MergeRecorded, GatesTypeOK, CardTypeOK
  <2>3. MemTypeOK'
    BY <1>32 DEF MergeRecorded, GatesTypeOK, MemTypeOK
  <2>4. HistTypeOK'
    BY <1>32 DEF MergeRecorded, GatesTypeOK, HistTypeOK
  <2> QED
    BY <2>1, <2>2, <2>3, <2>4, PullRequestTypes DEF GatesTypeOK
<1>33. CASE TriageStops
  <2>1. tc' = tc /\ runs' = runs /\ Park /\ muddled' = muddled /\ begun' = begun
    BY <1>33 DEF TriageStops
  <2> QED
    BY <2>1, ParkTypes, PullRequestTypes DEF GatesTypeOK, RunTypeOK
<1>34. CASE CiParks
  <2>1. tc' = tc /\ runs' = runs /\ Park /\ muddled' = muddled /\ begun' = begun
    BY <1>34 DEF CiParks
  <2> QED
    BY <2>1, ParkTypes, PullRequestTypes DEF GatesTypeOK, RunTypeOK
<1>35. CASE MergeRefused
  <2>1. tc' = tc /\ runs' = runs /\ Park /\ muddled' = muddled /\ begun' = begun
    BY <1>35 DEF MergeRefused
  <2> QED
    BY <2>1, ParkTypes, PullRequestTypes DEF GatesTypeOK, RunTypeOK
<1>36. CASE CiRed
  <2>1. CASE Park
    BY <1>36, <2>1, ParkTypes, PullRequestTypes DEF CiRed, GatesTypeOK, RunTypeOK
  <2>2. CASE ~Park
    <3>1. tc' = tc /\ RunTypeOK'
      BY <1>36, <2>2 DEF CiRed, GatesTypeOK, RunTypeOK
    <3>2. MemTypeOK'
      BY <1>36, <2>2 DEF CiRed, Sees, Seen, GatesTypeOK, MemTypeOK
    <3>3. CardTypeOK' /\ HistTypeOK'
      BY <1>36, <2>2 DEF CiRed, GatesTypeOK, CardTypeOK, HistTypeOK
    <3> QED
      BY <3>1, <3>2, <3>3, PullRequestTypes DEF GatesTypeOK
  <2> QED
    BY <2>1, <2>2
<1>37. CASE Finish
  <2>1. tc' = tc /\ runs' = runs /\ muddled' = muddled /\ begun' = begun
        /\ UNCHANGED <<saved, url, lost>> /\ done' = TRUE /\ Ends
    BY <1>37 DEF Finish
  <2>2. MemTypeOK' /\ body' \in Sections /\ pc' = "idle" /\ fresh' = FALSE /\ ungated' = FALSE
      /\ theirs' = "none"
    BY <2>1, EndsTypes
  <2> QED
    BY <2>1, <2>2, PullRequestTypes DEF GatesTypeOK, CardTypeOK, HistTypeOK, RunTypeOK
<1>38. CASE Crash
  <2>1. tc' = tc /\ runs' = runs /\ muddled' = muddled /\ begun' = begun
        /\ UNCHANGED cm /\ Ends
    BY <1>38 DEF Crash
  <2>2. MemTypeOK' /\ body' \in Sections /\ pc' = "idle" /\ fresh' = FALSE /\ ungated' = FALSE
      /\ theirs' = "none"
    BY <2>1, EndsTypes
  <2> QED
    BY <2>1, <2>2, PullRequestTypes DEF GatesTypeOK, CardTypeOK, HistTypeOK, RunTypeOK
<1>39. ASSUME NEW g \in Kinds, FixRound(g)
       PROVE  GatesTypeOK'
  <2> USE <1>39 DEF Kinds
  <2>1. CASE FixRefused(g) \/ FixCapped(g) \/ FixStops(g)
    <3>1. tc' = tc /\ runs' = runs /\ Park /\ muddled' = muddled /\ begun' = begun
      BY <2>1 DEF FixRefused, FixCapped, FixStops
    <3> QED
      BY <3>1, ParkTypes, PullRequestTypes DEF GatesTypeOK, RunTypeOK
  <2>2. CASE FixBegins(g)
    <3>1. CardTypeOK'
      BY <2>2, SectionTypes, WriteTypes DEF FixBegins, GatesTypeOK, CardTypeOK
    <3>2. begun' \in [Kinds -> Nat]
      BY <2>2 DEF FixBegins, GatesTypeOK, HistTypeOK
    <3>3. tc' = tc /\ RunTypeOK'
      BY <2>2 DEF FixBegins, Fixing, GatesTypeOK, RunTypeOK
    <3> QED
      BY <2>2, <3>1, <3>2, <3>3, PullRequestTypes DEF FixBegins, GatesTypeOK, MemTypeOK, HistTypeOK
  <2>3. CASE FixLands(g)
    <3>1. tc' = tc /\ RunTypeOK'
      BY <2>3 DEF FixLands, AfterFix, GatesTypeOK, RunTypeOK
    <3>2. HistTypeOK'
      BY <2>3 DEF FixLands, GatesTypeOK, HistTypeOK
    <3> QED
      BY <2>3, <3>1, <3>2, PullRequestTypes DEF FixLands, GatesTypeOK, CardTypeOK, MemTypeOK
  <2>4. CASE FixChangesNothing(g)
    <3>1. CASE Park
      BY <2>4, <3>1, ParkTypes, PullRequestTypes DEF FixChangesNothing, GatesTypeOK, RunTypeOK
    <3>2. CASE ~Park
      <4>1. tc' = tc /\ RunTypeOK'
        BY <2>4, <3>2 DEF FixChangesNothing, Fix, GatesTypeOK, RunTypeOK
      <4>2. CardTypeOK' /\ HistTypeOK'
        BY <2>4, <3>2 DEF FixChangesNothing, GatesTypeOK, CardTypeOK, HistTypeOK
      <4>3. MemTypeOK'
        BY <2>4, <3>2 DEF FixChangesNothing, GatesTypeOK, MemTypeOK
      <4> QED
        BY <4>1, <4>2, <4>3, PullRequestTypes DEF GatesTypeOK
    <3> QED
      BY <3>1, <3>2
  <2>5. CASE FixRejected(g)
    <3>1. tc' = tc /\ runs' = runs /\ muddled' = muddled /\ begun' = begun
          /\ UNCHANGED cm /\ Ends
      BY <2>5 DEF FixRejected
    <3>2. MemTypeOK' /\ body' \in Sections /\ pc' = "idle" /\ fresh' = FALSE /\ ungated' = FALSE
          /\ theirs' = "none"
      BY <3>1, EndsTypes
    <3> QED
      BY <3>1, <3>2, PullRequestTypes DEF GatesTypeOK, CardTypeOK, HistTypeOK, RunTypeOK
  <2> QED
    BY <2>1, <2>2, <2>3, <2>4, <2>5 DEF FixRound
<1>40. CASE PassesThrough
  <2>1. tc' = tc /\ RunTypeOK'
    BY <1>40 DEF PassesThrough, GatesTypeOK, RunTypeOK
  <2>2. CardTypeOK'
    BY <1>40 DEF PassesThrough, GatesTypeOK, CardTypeOK
  <2>3. MemTypeOK' /\ HistTypeOK'
    BY <1>40 DEF PassesThrough, GatesTypeOK, MemTypeOK, HistTypeOK
  <2> QED
    BY <2>1, <2>2, <2>3, PullRequestTypes DEF GatesTypeOK
<1>41. CASE UNCHANGED vars
  BY <1>41 DEF GatesTypeOK, PrTypeOK, CardTypeOK, MemTypeOK, HistTypeOK, RunTypeOK
<1> QED
  BY <1>1, <1>2, <1>3, <1>4, <1>5, <1>6, <1>7, <1>8, <1>9, <1>10, <1>11, <1>12, <1>13, <1>14, <1>15, <1>16, <1>17, <1>18, <1>19, <1>20, <1>21, <1>22, <1>23, <1>24, <1>25, <1>26, <1>27, <1>28, <1>29, <1>30, <1>31, <1>32, <1>33, <1>34, <1>35, <1>36, <1>37, <1>38, <1>39, <1>40, <1>41
     DEF Next, RunStep, Polls, CopilotGate, CopilotReviewCycle, CopilotFixRound, CiGate, CiFixRound,
         RunPRGates, Kinds
-----------------------------------------------------------------------------
(* The inductive invariant. *)

\* What the run has is what the card has, until a write of it is lost; the
\* card counts the rounds that were begun.
CopyInv == ~lost /\ pc # "idle" => body = saved
CountInv == ~lost => \A g \in Kinds : begun[g] = saved.rounds[g]

\* Between two runs nothing is in hand; the late cycle is the last one.
IdleInv == pc = "idle" => inhand = {}
LateInv == late => pc \in {"cycle", "triage", "settled", "fix", "fixing", "again",
                           "merge", "mark", "finish"}

\* Past a fix round, or a look at a check, no empty list is taken for a pass.
PollInv ==
    /\ pc \in {"poll", "cifix", "cifixing"} =>
         /\ body.rounds["ci"] > 0 => saw
         /\ fresh => saw
    /\ pc \in {"cifix", "cifixing"} => saw

\* The gate's answer holds from the gate to the end, through the late cycle
\* up to a push of its fix, unless somebody else pushes since.
Gated ==
    \/ pc \in {"gated", "merge", "finish"}
    \/ late /\ pc \in {"cycle", "triage", "settled", "fix", "fixing"}
Green ==
    \/ checks = "passed" \/ tc.repo = "no CI"
    \/ tc.repo = "silent CI" /\ (begun["ci"] = 0 \/ lost)
GreenInv ==
    /\ Gated /\ tc.ci /\ ~merged /\ ~ungated /\ theirs # "late" => Green
    /\ pc = "mark" => merged

\* The run goes by the verdicts on the card, and settles a review all of whose
\* comments it dismissed.
Reviewing == pc \in {"ask", "await", "grace", "cycle", "triage", "settled", "fix",
                     "fixing", "again"}
JudgedInv == Reviewing /\ ~muddled => judged = TriagedComments(body)
SettledInv == pc = "settled" /\ ~muddled => \A c \in inhand : judged[c] = "invalid"

-----------------------------------------------------------------------------
(* What a step does to the card: nothing, the start of a run, a write of a   *)
(* section, the count of a fix round, or the end of the run.                 *)

Kept == UNCHANGED <<body, saved, lost, begun>> /\ (pc = "idle" <=> pc' = "idle")
Loads ==
    /\ pc = "idle" /\ pc' = "copilot"
    /\ body' = saved /\ UNCHANGED <<saved, lost, begun>>
Writes(b) ==
    /\ pc # "idle" /\ pc' # "idle"
    /\ Write(b) /\ b.rounds = body.rounds /\ begun' = begun
    /\ b.triage = body.triage \/ Triages
Over ==
    /\ pc # "idle" /\ pc' = "idle"
    /\ Save(body) \/ UNCHANGED <<saved, lost>>
    /\ begun' = begun

LEMMA CardMoves ==
    ASSUME GatesTypeOK, [Next]_vars
    PROVE  \/ Kept \/ Loads \/ Over
           \/ \E b \in Sections : Writes(b)
           \/ \E g \in Kinds : FixBegins(g)
<1> USE DEF GatesTypeOK, CardTypeOK
<1>1. CASE UNCHANGED <<body, cm, begun, pc>>
  BY <1>1 DEF Kept
<1>2. CASE ChecksMove \/ CopilotReviews \/ OperatorPushes \/ PassesThrough \/ EnterFindsNone
  BY <1>1, <1>2 DEF ChecksMove, CopilotReviews, OperatorPushes, PassesThrough, EnterFindsNone, Kept
<1>3. CASE Enter \/ EnterFinds
  BY <1>3 DEF Enter, EnterFinds, Fresh, Loads
<1>4. CASE CopilotPasses \/ CopilotOnHead \/ CopilotAsks \/ ReviewArrives \/ GraceUpgrades
  BY <1>4 DEF CopilotPasses, CopilotOnHead, CopilotAsks, ReviewArrives, GraceUpgrades, Kept
<1>5. CASE UNCHANGED <<body, cm, begun>> /\ pc # "idle" /\ pc' # "idle"
  BY <1>5 DEF Kept
<1>6. ASSUME pc # "idle", pc' # "idle", Write(body), begun' = begun PROVE Writes(body)
  BY <1>6 DEF Writes
<1>7. CASE Asks
  <2>1. pc # "idle" /\ pc' # "idle" /\ begun' = begun /\ (UNCHANGED <<body, cm>> \/ Write(body))
    BY <1>7 DEF Asks, Skip, Answers
  <2> QED
    BY <2>1, <1>5, <1>6
<1>8. CASE GraceRetries
  <2>1. pc # "idle" /\ pc' # "idle" /\ begun' = begun /\ (UNCHANGED <<body, cm>> \/ Write(body))
    BY <1>8 DEF GraceRetries, Skip, Answers
  <2> QED
    BY <2>1, <1>5, <1>6
<1>9. CASE CycleAsksAgain
  <2>1. pc # "idle" /\ pc' # "idle" /\ begun' = begun /\ (UNCHANGED <<body, cm>> \/ Write(body))
    BY <1>9 DEF CycleAsksAgain, Skip, Answers, AfterPass
  <2> QED
    BY <2>1, <1>5, <1>6
<1>10. CASE ReviewDoesNot
  <2>1. pc # "idle" /\ pc' # "idle" /\ begun' = begun /\ Write(body)
    BY <1>10 DEF ReviewDoesNot, Skip
  <2> QED
    BY <2>1, <1>6
<1>11. CASE CycleRepeats \/ CycleReopens \/ CycleTriages
  BY <1>5, <1>11 DEF CycleRepeats, CycleReopens, CycleTriages
<1>12. CASE Triages
  <2>1. PICK v \in [Comments -> Verdicts] :
          Write([body EXCEPT !.triage[body.rounds["copilot"] + 1] = v])
    <3>1. \A named, valid : Answer(named, valid) \in [Comments -> Verdicts]
      BY DEF Answer, Verdicts
    <3> QED
      BY <1>12, <3>1 DEF Triages
  <2> DEFINE b == [body EXCEPT !.triage[body.rounds["copilot"] + 1] = v]
  <2>2. body.rounds["copilot"] + 1 \in Rounds
    BY DEF Sections, Rounds, Kinds
  <2>3. b \in Sections
    BY <2>2, SectionTypes
  <2>4. b.rounds = body.rounds
    BY DEF Sections
  <2>5. pc # "idle" /\ pc' # "idle" /\ begun' = begun
    BY <1>12 DEF Triages
  <2>6. Writes(b)
    BY <1>12, <2>1, <2>4, <2>5 DEF Writes
  <2> QED
    BY <2>3, <2>6
<1>13. CASE CycleSatisfied
  <2>1. [body EXCEPT !.sat = TRUE].rounds = body.rounds /\ [body EXCEPT !.sat = TRUE].triage = body.triage
    BY DEF Sections
  <2>2. Writes([body EXCEPT !.sat = TRUE])
    BY <1>13, <2>1 DEF CycleSatisfied, AfterPass, Writes
  <2> QED
    BY <2>2, SectionTypes
<1>14. CASE MergeRecorded
  <2>1. [body EXCEPT !.merged = TRUE].rounds = body.rounds /\ [body EXCEPT !.merged = TRUE].triage = body.triage
    BY DEF Sections
  <2>2. Writes([body EXCEPT !.merged = TRUE])
    BY <1>14, <2>1 DEF MergeRecorded, Writes
  <2> QED
    BY <2>2, SectionTypes
<1>15. CASE GatesPass \/ LateCheckFindsNone
  <2>1. pc # "idle" /\ pc' # "idle" /\ begun' = begun /\ Write(body)
    BY <1>15 DEF GatesPass, LateCheckFindsNone, AfterPass
  <2> QED
    BY <2>1, <1>6
<1>16. CASE LateCheckFinds \/ MergeSkipped \/ MergeLands
  BY <1>5, <1>16 DEF LateCheckFinds, MergeSkipped, MergeLands
<1>17. CASE CiSkipped \/ CiEnters \/ CiProbes \/ CiGraceOver \/ CiGreen \/ CiWaits
  BY <1>5, <1>17 DEF CiSkipped, CiEnters, CiProbes, CiGraceOver, CiGreen, CiWaits
<1>18. ASSUME Park, pc # "idle", begun' = begun PROVE Over
  BY <1>18 DEF Park, Ends, Over
<1>19. CASE TriageStops \/ MergeRefused \/ CiParks
  BY <1>18, <1>19 DEF TriageStops, MergeRefused, CiParks
<1>20. CASE CiRed
  <2>1. pc # "idle" /\ begun' = begun
    BY <1>20 DEF CiRed
  <2> QED
    BY <1>5, <1>18, <1>20, <2>1 DEF CiRed
<1>21. CASE Finish \/ Crash
  BY <1>21 DEF Finish, Crash, Ends, Over
<1>22. ASSUME NEW g \in Kinds, FixRound(g), ~FixBegins(g)
       PROVE  Kept \/ Over
  <2>1. CASE FixRefused(g) \/ FixCapped(g) \/ FixStops(g)
    <3>1. Park /\ begun' = begun /\ pc # "idle"
      BY <2>1 DEF FixRefused, FixCapped, FixStops, Fix, Fixing
    <3> QED
      BY <1>18, <3>1
  <2>2. CASE FixLands(g)
    BY <2>2, <1>5 DEF FixLands, Fixing, AfterFix, Kept
  <2>3. CASE FixChangesNothing(g)
    <3>1. begun' = begun /\ pc # "idle"
      BY <2>3 DEF FixChangesNothing, Fixing
    <3>2. CASE Park
      BY <1>18, <3>1, <3>2
    <3>3. CASE ~Park
      BY <2>3, <3>1, <3>3 DEF FixChangesNothing, Fix, Kept
    <3> QED
      BY <3>2, <3>3
  <2>4. CASE FixRejected(g)
    BY <2>4 DEF FixRejected, Fixing, Ends, Over
  <2> QED
    BY <1>22, <2>1, <2>2, <2>3, <2>4 DEF FixRound
<1> QED
  BY <1>1, <1>2, <1>3, <1>4, <1>5, <1>7, <1>8, <1>9, <1>10, <1>11, <1>12, <1>13, <1>14,
     <1>15, <1>16, <1>17, <1>19, <1>20, <1>21, <1>22
     DEF Next, RunStep, Polls, CopilotGate, CopilotReviewCycle, CopilotFixRound, CiGate, CiFixRound,
         RunPRGates, Kinds

LEMMA CountStep ==
    ASSUME GatesTypeOK, CopyInv, CountInv, [Next]_vars
    PROVE  CopyInv' /\ CountInv'
<1> USE DEF GatesTypeOK, CardTypeOK, CopyInv, CountInv
<1>1. CASE Kept
  BY <1>1 DEF Kept
<1>2. CASE Loads
  BY <1>2 DEF Loads
<1>3. CASE Over
  BY <1>3 DEF Over, Save
<1>4. ASSUME NEW b \in Sections, Writes(b) PROVE CopyInv' /\ CountInv'
  BY <1>4 DEF Writes, Write, Save
<1>5. ASSUME NEW g \in Kinds, FixBegins(g) PROVE CopyInv' /\ CountInv'
  <2> DEFINE b == [body EXCEPT !.rounds[g] = @ + 1]
  <2>1. Write(b) /\ pc # "idle"
    BY <1>5 DEF FixBegins, Fix
  <2>2. ~lost' => ~lost /\ saved' = b /\ body' = b
    BY <2>1 DEF Write, Save
  <2>3. \A k \in Kinds : b.rounds[k] = body.rounds[k] + (IF k = g THEN 1 ELSE 0)
    BY DEF Sections, Kinds
  <2>4. \A k \in Kinds : ~lost' => begun'[k] = begun[k] + (IF k = g THEN 1 ELSE 0)
    BY <1>5 DEF FixBegins
  <2>5. CopyInv'
    BY <2>2
  <2>6. ASSUME ~lost', NEW k \in Kinds PROVE begun'[k] = saved'.rounds[k]
    <3>1. saved' = b /\ body = saved /\ begun[k] = saved.rounds[k]
      BY <2>1, <2>2, <2>6
    <3> QED
      BY <2>3, <2>4, <2>6, <3>1
  <2>7. CountInv'
    BY <2>6
  <2> QED
    BY <2>5, <2>7
<1> QED
  BY <1>1, <1>2, <1>3, <1>4, <1>5, CardMoves

-----------------------------------------------------------------------------
(* The polls and the gate's answer. *)

LEMMA RoundTypes ==
    \A b \in Sections, g \in Kinds : b.rounds[g] \in Nat /\ b.rounds[g] <= RoundsCap
<1> SUFFICES ASSUME NEW b \in Sections, NEW g \in Kinds
             PROVE  b.rounds[g] \in Nat /\ b.rounds[g] <= RoundsCap
  OBVIOUS
<1>1. b.rounds[g] \in 0 .. RoundsCap
  BY DEF Sections
<1> QED
  BY <1>1

LEMMA Zero == \A n \in Nat : (~(n > 0) => n = 0) /\ n + 0 = n
  OBVIOUS

LEMMA FixSteps ==
    ASSUME GatesTypeOK, NEW g \in Kinds, FixRound(g)
    PROVE  \/ FixBegins(g)
           \/ FixLands(g)
           \/ FixChangesNothing(g) /\ ~Ends
           \/ Ends /\ pc # "idle" /\ merged' = merged /\ tc' = tc
  BY DEF FixRound, FixRefused, FixRejected, FixCapped, FixStops, FixChangesNothing, Park, Fix, Fixing

\* The steps that end a run.
LEMMA EndSteps ==
    ASSUME Crash \/ Finish \/ TriageStops \/ MergeRefused \/ CiParks
    PROVE  Ends
  BY DEF Crash, Finish, TriageStops, MergeRefused, CiParks, Park

LEMMA GreenStep ==
    ASSUME GatesTypeOK, CopyInv, CountInv, IdleInv, LateInv, PollInv, GreenInv, [Next]_vars
    PROVE  IdleInv' /\ LateInv' /\ PollInv' /\ GreenInv'
<1> DEFINE Holds == IdleInv' /\ LateInv' /\ PollInv' /\ GreenInv'
<1> USE DEF GatesTypeOK, IdleInv, LateInv, PollInv, GreenInv, Gated, Green
<1>1. ASSUME Ends PROVE Holds
  BY <1>1 DEF Ends
<1>2. CASE UNCHANGED vars
  BY <1>2
<1>3. CASE Crash \/ Finish \/ TriageStops \/ MergeRefused \/ CiParks
  BY <1>1, <1>3, EndSteps
<1>4. CASE ChecksMove
  BY <1>4 DEF ChecksMove
<1>5. CASE CopilotReviews \/ PassesThrough \/ EnterFindsNone
  <2>1. UNCHANGED <<tc, checks, merged, lost, pc, body, mem, hist>>
    BY <1>5 DEF CopilotReviews, PassesThrough, EnterFindsNone
  <2> QED
    BY <2>1
<1>6. CASE OperatorPushes
  <2>1. UNCHANGED <<tc, merged, pc, body, mem, fresh>> /\ (pc # "idle" => theirs' = "late")
    BY <1>6 DEF OperatorPushes
  <2> QED
    BY <2>1
<1>7. CASE Enter \/ EnterFinds
  <2>1. pc = "idle" /\ pc' = "copilot" /\ UNCHANGED late
    BY <1>7 DEF Enter, EnterFinds, Fresh
  <2> QED
    BY <2>1
<1>8. CASE CopilotPasses \/ CopilotOnHead \/ CopilotAsks \/ ReviewArrives \/ GraceUpgrades
  <2>1. pc \in {"copilot", "await", "grace"} /\ pc' \in {"ci", "cycle", "await", "ask"} /\ UNCHANGED late
    BY <1>8 DEF CopilotPasses, CopilotOnHead, CopilotAsks, ReviewArrives, GraceUpgrades
  <2> QED
    BY <2>1
<1>9. CASE Asks \/ GraceRetries \/ ReviewDoesNot
  <2>1. pc' \in {"await", "grace", "ci"} /\ pc \in {"ask", "await", "grace"} /\ UNCHANGED late
    BY <1>9 DEF Asks, GraceRetries, ReviewDoesNot, Answers
  <2> QED
    BY <2>1
<1>10. CASE CycleRepeats \/ CycleReopens \/ CycleTriages
  <2>1. pc' \in {"settled", "fix", "triage"} /\ pc = "cycle"
        /\ UNCHANGED <<tc, checks, merged, begun, lost, late, ungated, theirs>>
    BY <1>10 DEF CycleRepeats, CycleReopens, CycleTriages
  <2> QED
    BY <2>1
<1>11. CASE Triages
  <2>1. pc' \in {"settled", "fix"} /\ pc = "triage"
        /\ UNCHANGED <<tc, checks, merged, begun, late, ungated, theirs>>
    BY <1>11 DEF Triages
  <2>2. lost => lost'
    BY <1>11 DEF Triages, Write, Save
  <2> QED
    BY <2>1, <2>2
<1>12. CASE CycleSatisfied
  <2>1. UNCHANGED <<tc, checks, merged, begun, late, ungated, theirs>> /\ inhand' = {} /\ pc = "settled"
    BY <1>12 DEF CycleSatisfied
  <2>2. lost => lost'
    BY <1>12 DEF CycleSatisfied, Write, Save
  <2>3. pc' \in {"ci", "merge", "finish"} /\ (pc' = "ci" <=> ~late)
    BY <1>12 DEF CycleSatisfied, AfterPass
  <2> QED
    BY <2>1, <2>2, <2>3
<1>13. CASE CycleAsksAgain
  <2>1. UNCHANGED <<tc, merged>> /\ inhand' = {} /\ pc = "again"
    BY <1>13 DEF CycleAsksAgain
  <2>2. \/ pc' \in {"copilot", "grace", "await"} /\ late' = FALSE
        \/ pc' = "ci" /\ ~late /\ late' = late
        \/ pc' \in {"merge", "finish"} /\ late' = late /\ late /\ ungated' = TRUE
    BY <1>13 DEF CycleAsksAgain, AfterPass
  <2>3. IdleInv' /\ PollInv'
    BY <2>1, <2>2
  <2>4. LateInv'
    BY <2>2
  <2>5. GreenInv'
    BY <2>2
  <2> QED
    BY <2>3, <2>4, <2>5
<1>14. CASE CiSkipped
  BY <1>14 DEF CiSkipped
<1>15. CASE CiEnters
  <2>1. body.rounds["ci"] \in Nat
    BY RoundTypes DEF CardTypeOK, Kinds
  <2>2. saw' = (body.rounds["ci"] > 0 \/ ciSaw) /\ fresh' = FALSE /\ pc' = "poll" /\ pc = "ci"
        /\ UNCHANGED <<body, late, inhand>>
    BY <1>15 DEF CiEnters
  <2> QED
    BY <2>1, <2>2
<1>16. CASE CiProbes \/ CiGraceOver
  <2>1. pc = "poll" /\ ~saw /\ pc' \in {"poll", "gated"}
        /\ UNCHANGED <<tc, checks, merged, begun, lost, late, ungated, theirs, body, saw, fresh, inhand>>
        /\ (pc' = "gated" => tc.repo # "CI" \/ fresh \/ theirs = "late")
    BY <1>16 DEF CiProbes, CiGraceOver
  <2>2. ~fresh /\ ~(body.rounds["ci"] > 0)
    BY <2>1
  <2>3. lost \/ begun["ci"] = 0
    <3>1. body.rounds["ci"] \in Nat
      BY RoundTypes DEF CardTypeOK, Kinds
    <3>2. ~lost => begun["ci"] = body.rounds["ci"]
      BY <2>1 DEF CopyInv, CountInv, Kinds
    <3>3. body.rounds["ci"] = 0
      BY <2>2, <3>1, Zero
    <3> QED
      BY <3>2, <3>3
  <2>4. tc.repo \in Repos
    OBVIOUS
  <2>5. pc' = "gated" => Green \/ theirs = "late"
    BY <2>1, <2>2, <2>3, <2>4 DEF Repos
  <2> QED
    BY <2>1, <2>5
<1>17. CASE CiWaits \/ CiGreen
  <2>1. pc = "poll" /\ pc' \in {"poll", "gated"} /\ (saw => saw')
        /\ UNCHANGED <<tc, checks, merged, begun, lost, late, ungated, body, fresh, inhand>>
        /\ (pc' = "gated" => checks = "passed")
    BY <1>17 DEF CiWaits, CiGreen, Sees, Seen
  <2> QED
    BY <2>1
<1>18. CASE CiRed /\ ~Ends
  <2>1. pc = "poll" /\ pc' = "cifix" /\ saw' = TRUE
        /\ UNCHANGED <<tc, checks, merged, begun, lost, late, ungated, theirs, body, fresh, inhand>>
    BY <1>18 DEF CiRed, Sees, Seen, Park
  <2> QED
    BY <2>1
<1>19. CASE GatesPass \/ LateCheckFindsNone
  <2>1. pc = "gated" /\ pc' \in {"merge", "finish"}
        /\ UNCHANGED <<tc, checks, merged, begun, late, ungated, theirs, inhand>>
    BY <1>19 DEF GatesPass, LateCheckFindsNone, AfterPass
  <2>2. lost => lost'
    BY <1>19 DEF GatesPass, LateCheckFindsNone, Write, Save
  <2> QED
    BY <2>1, <2>2
<1>20. CASE LateCheckFinds
  BY <1>20 DEF LateCheckFinds
<1>21. CASE MergeSkipped
  BY <1>21 DEF MergeSkipped
<1>22. CASE MergeLands
  BY <1>22 DEF MergeLands
<1>23. CASE MergeRecorded
  <2>1. pc = "mark" /\ pc' = "finish" /\ UNCHANGED <<tc, checks, merged, begun, late, ungated, theirs, inhand>>
    BY <1>23 DEF MergeRecorded
  <2> QED
    BY <2>1
<1>24. ASSUME NEW g \in Kinds, FixRound(g) PROVE Holds
  <2>1. CASE FixBegins(g)
    <3>1. pc = Fix(g) /\ pc' = Fixing(g)
          /\ UNCHANGED <<tc, checks, merged, late, ungated, theirs, saw, fresh, inhand>>
      BY <2>1 DEF FixBegins
    <3>2. lost => lost'
      BY <2>1 DEF FixBegins, Write, Save
    <3>3. g = "copilot" => begun'["ci"] = begun["ci"] \/ lost'
      <4>1. begun["ci"] \in Nat
        BY DEF HistTypeOK, Kinds
      <4>2. begun'["ci"] = IF lost' THEN 0 ELSE begun["ci"] + (IF "ci" = g THEN 1 ELSE 0)
        BY <2>1 DEF FixBegins, Kinds
      <4>3. g = "copilot" => begun'["ci"] = IF lost' THEN 0 ELSE begun["ci"] + 0
        BY <4>2
      <4> QED
        BY <4>1, <4>3, Zero
    <3> QED
      BY <3>1, <3>2, <3>3 DEF Fix, Fixing, Kinds
  <2>2. CASE FixLands(g)
    <3>1. pc = Fixing(g) /\ pc' = AfterFix(g) /\ fresh' = (g = "ci")
          /\ UNCHANGED <<tc, merged, late, ungated, theirs, saw, body, inhand>>
      BY <2>2 DEF FixLands
    <3> QED
      BY <3>1 DEF Fixing, AfterFix, Kinds
  <2>3. CASE FixChangesNothing(g) /\ ~Ends
    <3>1. pc = Fixing(g) /\ pc' = (IF g = "ci" THEN "poll" ELSE Fix(g))
          /\ UNCHANGED <<tc, checks, merged, begun, lost, late, ungated, theirs, saw, fresh, body, inhand>>
      BY <2>3 DEF FixChangesNothing, Park
    <3> QED
      BY <3>1 DEF Fixing, Fix, Kinds
  <2> QED
    BY <1>1, <1>24, <2>1, <2>2, <2>3, FixSteps
<1> QED
  BY <1>1, <1>2, <1>3, <1>4, <1>5, <1>6, <1>7, <1>8, <1>9, <1>10, <1>11, <1>12, <1>13, <1>14,
     <1>15, <1>16, <1>17, <1>18, <1>19, <1>20, <1>21, <1>22, <1>23, <1>24
     DEF Next, RunStep, Polls, CopilotGate, CopilotReviewCycle, CopilotFixRound, CiGate, CiFixRound,
         RunPRGates, Kinds

-----------------------------------------------------------------------------
(* The verdicts a run goes by are those of the card. *)

LEMMA SameVerdicts ==
    \A a, b : a.triage = b.triage => TriagedComments(a) = TriagedComments(b)
  BY DEF TriagedComments

\* A section that names comments without a verdict, written where there was
\* none, leaves every other verdict as it was.
LEMMA NewVerdicts ==
    ASSUME NEW b \in Sections, NEW n \in Rounds, NEW v \in [Comments -> Verdicts],
           b.triage[n] = NoVerdict,
           NEW c \in Comments
    PROVE  LET w == [b EXCEPT !.triage[n] = v] IN
           /\ v[c] = "none" => TriagedComments(w)[c] = TriagedComments(b)[c]
           /\ TriagedComments(b)[c] = "none" => TriagedComments(w)[c] = v[c]
<1> DEFINE w == [b EXCEPT !.triage[n] = v]
           said(x) == {r \in Rounds : x.triage[r][c] # "none"}
           last(x) == CHOOSE r \in said(x) : \A q \in said(x) : q <= r
<1>1. /\ w.triage[n] = v
      /\ \A r \in Rounds \ {n} : w.triage[r] = b.triage[r]
  BY DEF Sections
<1>2. b.triage[n][c] = "none"
  BY DEF NoVerdict
<1>3. \A x : TriagedComments(x)[c] = IF said(x) = {} THEN "none" ELSE x.triage[last(x)][c]
  BY DEF TriagedComments
<1>4. CASE v[c] = "none"
  <2>1. \A r \in Rounds : w.triage[r][c] = b.triage[r][c]
    BY <1>1, <1>2, <1>4
  <2>2. said(w) = said(b)
    BY <2>1
  <2>3. last(w) = last(b)
    BY <2>2
  <2>4. said(b) # {} => last(b) \in Rounds
    <3>1. RoundsCap + 1 \in Nat /\ said(b) \in SUBSET (1 .. RoundsCap + 1)
      BY DEF Rounds
    <3>2. said(b) # {} => \E x \in said(b) : \A y \in said(b) : y <= x
      <4> HIDE DEF said
      <4> QED
        BY <3>1, LastExists
    <3> QED
      BY <3>2
  <2>5. TriagedComments(w)[c] = TriagedComments(b)[c]
    <3> HIDE DEF w, said, last
    <3> QED
      BY <1>3, <2>1, <2>2, <2>3, <2>4
  <2>6. TriagedComments(b)[c] = "none" => TriagedComments(w)[c] = v[c]
    BY <1>4, <2>5
  <2> QED
    BY <2>5, <2>6
<1>5. CASE v[c] # "none"
  <2> SUFFICES ASSUME TriagedComments(b)[c] = "none" PROVE TriagedComments(w)[c] = v[c]
    BY <1>5
  <2>1. said(b) = {}
    <3> SUFFICES ASSUME said(b) # {} PROVE FALSE
      OBVIOUS
    <3>1. RoundsCap + 1 \in Nat /\ said(b) \in SUBSET (1 .. RoundsCap + 1)
      BY DEF Rounds
    <3>2. \E x \in said(b) : \A y \in said(b) : y <= x
      <4> HIDE DEF said
      <4> QED
        BY <3>1, LastExists
    <3>3. last(b) \in said(b)
      BY <3>2
    <3>4. b.triage[last(b)][c] # "none"
      BY <3>3
    <3>5. TriagedComments(b)[c] = b.triage[last(b)][c]
      <4> HIDE DEF said, last
      <4> QED
        BY <1>3
    <3> QED
      BY <3>4, <3>5
  <2>2. said(w) = {n}
    BY <1>1, <1>5, <2>1
  <2>3. last(w) = n
    <3>1. n <= n
      BY DEF Rounds
    <3> QED
      BY <2>2, <3>1
  <2>4. TriagedComments(w)[c] = w.triage[n][c]
    <3> HIDE DEF w, said, last
    <3> QED
      BY <1>3, <2>2, <2>3
  <2> QED
    BY <1>1, <2>4
<1> QED
  BY <1>4, <1>5

\* What a triage writes and judges.
Judging(named, valid) ==
    /\ named \in SUBSET Unseen /\ valid \in SUBSET named
    /\ Write([body EXCEPT !.triage[body.rounds["copilot"] + 1] = Answer(named, valid)])
    /\ judged' = [c \in Comments |-> IF c \in Unseen THEN Answer(named, valid)[c] ELSE judged[c]]
    /\ Resolve(named \ valid)
    /\ ~muddled' => ~muddled /\ body.triage[body.rounds["copilot"] + 1] = NoVerdict
    /\ pc' = "settled" /\ ~muddled' => named = Unseen /\ valid = {} /\ RepeatedValid = {}

LEMMA TriagesJudges ==
    ASSUME Triages PROVE \E named, valid : Judging(named, valid)
<1> DEFINE silent(named, extra) == named = {} /\ extra = "none"
           Judges(named, valid, extra) ==
             /\ Write([body EXCEPT !.triage[body.rounds["copilot"] + 1] = Answer(named, valid)])
             /\ judged' = [c \in Comments |-> IF c \in Unseen THEN Answer(named, valid)[c] ELSE judged[c]]
             /\ Resolve(named \ valid)
             /\ pc' = (IF (IF silent(named, extra) THEN Unseen ELSE valid) = {}
                          /\ RepeatedValid = {} /\ extra # "held" THEN "settled" ELSE "fix")
             /\ muddled' = (\/ muddled \/ (named # Unseen /\ ~silent(named, extra))
                            \/ body.triage[body.rounds["copilot"] + 1] # NoVerdict)
<1>1. PICK named \in SUBSET Unseen : \E valid \in SUBSET named :
        \E extra \in {"none", "dismissed", "held"} : Judges(named, valid, extra)
  <2>1. PICK named \in SUBSET Unseen : \E valid \in SUBSET named :
          \E extra \in {"none", "dismissed", "held"} :
            LET round == body.rounds["copilot"] + 1
                verdict == Answer(named, valid)
                quiet == named = {} /\ extra = "none"
                open == IF quiet THEN Unseen ELSE valid
                partly == named # Unseen /\ ~quiet
            IN
            /\ partly \/ (extra # "none" /\ Unseen # {}) => Fault("partial")
            /\ Write([body EXCEPT !.triage[round] = verdict])
            /\ judged' = [c \in Comments |-> IF c \in Unseen THEN verdict[c] ELSE judged[c]]
            /\ Resolve(named \ valid)
            /\ Goto(IF open = {} /\ RepeatedValid = {} /\ extra # "held" THEN "settled" ELSE "fix")
            /\ muddled' = (muddled \/ partly \/ body.triage[round] # NoVerdict)
    BY Zenon DEF Triages
  <2> QED
    BY <2>1, Zenon DEF Goto
<1>2. PICK valid \in SUBSET named : \E extra \in {"none", "dismissed", "held"} : Judges(named, valid, extra)
  BY <1>1
<1>3. PICK extra : Judges(named, valid, extra)
  BY <1>2
<1>4. ~muddled' => /\ ~muddled /\ body.triage[body.rounds["copilot"] + 1] = NoVerdict
                   /\ named = Unseen \/ silent(named, extra)
  BY <1>3
<1>5. pc' = "settled" => /\ RepeatedValid = {}
                         /\ IF silent(named, extra) THEN Unseen = {} ELSE valid = {}
  BY <1>3
<1>6. pc' = "settled" /\ ~muddled' => named = Unseen /\ valid = {} /\ RepeatedValid = {}
  BY <1>4, <1>5
<1>7. Judging(named, valid)
  BY <1>3, <1>4, <1>6 DEF Judging
<1> QED
  BY <1>7

\* A triage leaves the run with the verdicts of its section on the card.
LEMMA TriagesKeepsVerdicts ==
    ASSUME GatesTypeOK, JudgedInv, Triages, ~muddled'
    PROVE  /\ judged' = TriagedComments(body')
           /\ \A c \in Comments : TriagedComments(body)[c] # "none" =>
                TriagedComments(body')[c] = TriagedComments(body)[c]
<1> USE DEF GatesTypeOK, CardTypeOK, MemTypeOK
<1>1. PICK named, valid : Judging(named, valid)
  BY TriagesJudges
<1> DEFINE n == body.rounds["copilot"] + 1
           v == Answer(named, valid)
           w == [body EXCEPT !.triage[n] = v]
<1>2. body' = w /\ ~muddled /\ body.triage[n] = NoVerdict
  BY <1>1 DEF Judging, Write
<1>3. judged = TriagedComments(body)
  BY <1>2 DEF Triages, JudgedInv, Reviewing
<1>4. n \in Rounds
  BY DEF Sections, Rounds, Kinds
<1>5. v \in [Comments -> Verdicts]
  BY DEF Answer, Verdicts
<1>6. ASSUME NEW c \in Comments
      PROVE  /\ v[c] = "none" => TriagedComments(w)[c] = TriagedComments(body)[c]
             /\ TriagedComments(body)[c] = "none" => TriagedComments(w)[c] = v[c]
  <2> HIDE DEF n, v
  <2> QED
    BY <1>2, <1>4, <1>5, NewVerdicts
<1>7. ASSUME NEW c \in Comments
      PROVE  judged'[c] = TriagedComments(w)[c]
  <2>1. CASE c \in Unseen
    <3>1. TriagedComments(body)[c] = "none" /\ judged'[c] = v[c]
      BY <1>1, <1>3, <2>1 DEF Unseen, Judging
    <3> QED
      BY <1>6, <3>1
  <2>2. CASE c \notin Unseen
    <3>1. v[c] = "none" /\ judged'[c] = judged[c]
      BY <1>1, <2>2 DEF Judging, Answer
    <3> QED
      BY <1>3, <1>6, <3>1
  <2> QED
    BY <2>1, <2>2
<1>8. judged' \in [Comments -> Verdicts] /\ w \in Sections
  <2>1. w \in Sections
    <3> HIDE DEF n, v
    <3> QED
      BY <1>4, <1>5, SectionTypes
  <2>2. judged' \in [Comments -> Verdicts]
    BY <1>1, <1>5 DEF Judging
  <2> QED
    BY <2>1, <2>2
<1>9. judged' = TriagedComments(w)
  <2>1. TriagedComments(w) \in [Comments -> Verdicts]
    BY <1>8, TriagedTypes
  <2> HIDE DEF w
  <2> QED
    BY <1>7, <1>8, <2>1
<1>10. ASSUME NEW c \in Comments, TriagedComments(body)[c] # "none"
       PROVE  TriagedComments(w)[c] = TriagedComments(body)[c]
  <2>1. c \notin Unseen
    BY <1>3, <1>10 DEF Unseen
  <2>2. v[c] = "none"
    BY <2>1 DEF Answer
  <2> QED
    BY <1>6, <2>2
<1> QED
  BY <1>2, <1>9, <1>10

\* Every other step that leads to a review or on with it.
Reads == judged' = TriagedComments(body) /\ body' = body
GoesOn ==
    /\ Reviewing /\ judged' = judged /\ body'.triage = body.triage /\ muddled' = muddled

LEMMA ReviewMoves ==
    ASSUME GatesTypeOK, [Next]_vars, Reviewing'
    PROVE  Reads \/ GoesOn \/ Triages
<1> USE DEF GatesTypeOK
<1>1. ASSUME Ends PROVE FALSE
  BY <1>1 DEF Ends, Reviewing
<1>2. CASE UNCHANGED <<pc, body, judged, muddled>>
  BY <1>2 DEF Reviewing, GoesOn
<1>3. CASE Crash \/ Finish \/ TriageStops \/ MergeRefused \/ CiParks
  BY <1>1, <1>3, EndSteps
<1>4. CASE ChecksMove \/ CopilotReviews \/ PassesThrough \/ EnterFindsNone \/ OperatorPushes
  BY <1>2, <1>4 DEF ChecksMove, CopilotReviews, PassesThrough, EnterFindsNone, OperatorPushes
<1>5. ASSUME pc' \in {"idle", "copilot", "ci", "poll", "cifix", "cifixing", "gated", "merge", "mark", "finish"}
      PROVE  FALSE
  BY <1>5 DEF Reviewing
<1>6. CASE Enter \/ EnterFinds \/ CopilotPasses
  BY <1>5, <1>6 DEF Enter, EnterFinds, CopilotPasses
<1>7. CASE CopilotOnHead \/ CopilotAsks \/ LateCheckFinds
  BY <1>7 DEF CopilotOnHead, CopilotAsks, LateCheckFinds, Reads
<1>8. CASE Asks \/ GraceRetries \/ CycleAsksAgain \/ ReviewDoesNot
  <2>1. judged' = judged /\ body' = body /\ muddled' = muddled /\ Reviewing
    BY <1>8 DEF Asks, GraceRetries, CycleAsksAgain, ReviewDoesNot, Skip, Write, Reviewing
  <2> QED
    BY <2>1 DEF GoesOn
<1>9. CASE ReviewArrives \/ GraceUpgrades \/ CycleRepeats \/ CycleReopens \/ CycleTriages
  <2>1. judged' = judged /\ body' = body /\ muddled' = muddled /\ Reviewing
    BY <1>9 DEF ReviewArrives, GraceUpgrades, CycleRepeats, CycleReopens, CycleTriages, Reviewing
  <2> QED
    BY <2>1 DEF GoesOn
<1>10. CASE CycleSatisfied \/ GatesPass \/ LateCheckFindsNone
  BY <1>5, <1>10 DEF CycleSatisfied, GatesPass, LateCheckFindsNone, AfterPass
<1>11. CASE CiSkipped \/ CiEnters \/ CiProbes \/ CiGraceOver \/ CiGreen \/ CiWaits
  BY <1>5, <1>11 DEF CiSkipped, CiEnters, CiProbes, CiGraceOver, CiGreen, CiWaits
<1>12. CASE CiRed
  BY <1>1, <1>5, <1>12 DEF CiRed, Park
<1>13. CASE MergeSkipped \/ MergeLands \/ MergeRecorded
  BY <1>5, <1>13 DEF MergeSkipped, MergeLands, MergeRecorded
<1>14. ASSUME NEW g \in Kinds, FixRound(g) PROVE GoesOn
  <2>1. CASE FixBegins(g)
    <3>1. pc = Fix(g) /\ pc' = Fixing(g) /\ judged' = judged /\ muddled' = muddled
          /\ body' = [body EXCEPT !.rounds[g] = @ + 1]
      BY <2>1 DEF FixBegins, Write
    <3>2. body'.triage = body.triage
      BY <3>1 DEF CardTypeOK, Sections
    <3>3. Reviewing
      BY <1>5, <3>1 DEF Fix, Fixing, Reviewing
    <3> QED
      BY <3>1, <3>2, <3>3 DEF GoesOn
  <2>2. CASE FixLands(g)
    BY <1>5, <2>2 DEF FixLands, Fixing, AfterFix, GoesOn, Reviewing
  <2>3. CASE FixChangesNothing(g) /\ ~Ends
    <3>1. pc = Fixing(g) /\ pc' = (IF g = "ci" THEN "poll" ELSE Fix(g))
          /\ UNCHANGED <<judged, body, muddled>>
      BY <2>3 DEF FixChangesNothing, Park
    <3> QED
      BY <1>5, <3>1 DEF Fixing, GoesOn, Reviewing
  <2> QED
    BY <1>1, <1>14, <2>1, <2>2, <2>3, FixSteps
<1> QED
  BY <1>2, <1>3, <1>4, <1>6, <1>7, <1>8, <1>9, <1>10, <1>11, <1>12, <1>13, <1>14
     DEF Next, RunStep, Polls, CopilotGate, CopilotReviewCycle, CopilotFixRound, CiGate, CiFixRound,
         RunPRGates, Kinds

LEMMA SettledMoves ==
    ASSUME GatesTypeOK, [Next]_vars, pc' = "settled"
    PROVE  \/ UNCHANGED <<pc, inhand, judged, muddled>>
           \/ CycleRepeats \/ Triages
<1> USE DEF GatesTypeOK
<1>1. ASSUME Ends PROVE FALSE
  BY <1>1 DEF Ends
<1>2. CASE Crash \/ Finish \/ TriageStops \/ MergeRefused \/ CiParks
  BY <1>1, <1>2, EndSteps
<1>3. CASE ChecksMove \/ CopilotReviews \/ PassesThrough \/ EnterFindsNone \/ OperatorPushes
  BY <1>3 DEF ChecksMove, CopilotReviews, PassesThrough, EnterFindsNone, OperatorPushes
<1>4. CASE Enter \/ EnterFinds \/ CopilotPasses \/ CopilotOnHead \/ CopilotAsks \/ LateCheckFinds
  BY <1>4 DEF Enter, EnterFinds, CopilotPasses, CopilotOnHead, CopilotAsks, LateCheckFinds
<1>5. CASE Asks \/ GraceRetries \/ CycleAsksAgain \/ ReviewDoesNot
  BY <1>5 DEF Asks, GraceRetries, CycleAsksAgain, ReviewDoesNot, AfterPass, Answers
<1>6. CASE ReviewArrives \/ GraceUpgrades \/ CycleReopens \/ CycleTriages
  BY <1>6 DEF ReviewArrives, GraceUpgrades, CycleReopens, CycleTriages
<1>7. CASE CycleSatisfied \/ GatesPass \/ LateCheckFindsNone
  BY <1>7 DEF CycleSatisfied, GatesPass, LateCheckFindsNone, AfterPass
<1>8. CASE CiSkipped \/ CiEnters \/ CiProbes \/ CiGraceOver \/ CiGreen \/ CiWaits
  BY <1>8 DEF CiSkipped, CiEnters, CiProbes, CiGraceOver, CiGreen, CiWaits
<1>9. CASE CiRed
  BY <1>1, <1>9 DEF CiRed, Park
<1>10. CASE MergeSkipped \/ MergeLands \/ MergeRecorded
  BY <1>10 DEF MergeSkipped, MergeLands, MergeRecorded
<1>11. ASSUME NEW g \in Kinds, FixRound(g) PROVE FALSE
  <2>1. CASE FixBegins(g) \/ FixLands(g)
    BY <2>1 DEF FixBegins, FixLands, Fixing, AfterFix
  <2>2. CASE FixChangesNothing(g) /\ ~Ends
    BY <2>2 DEF FixChangesNothing, Park, Fix
  <2> QED
    BY <1>1, <1>11, <2>1, <2>2, FixSteps
<1> QED
  BY <1>2, <1>3, <1>4, <1>5, <1>6, <1>7, <1>8, <1>9, <1>10, <1>11
     DEF Next, RunStep, Polls, CopilotGate, CopilotReviewCycle, CopilotFixRound, CiGate, CiFixRound,
         RunPRGates, Kinds

LEMMA JudgedStep ==
    ASSUME GatesTypeOK, JudgedInv, SettledInv, [Next]_vars
    PROVE  JudgedInv' /\ SettledInv'
<1> USE DEF GatesTypeOK, MemTypeOK
<1>1. JudgedInv'
  <2> SUFFICES ASSUME Reviewing', ~muddled' PROVE judged' = TriagedComments(body')
    BY DEF JudgedInv
  <2>1. CASE Reads
    BY <2>1 DEF Reads
  <2>2. CASE GoesOn
    BY <2>2, SameVerdicts DEF GoesOn, JudgedInv
  <2>3. CASE Triages
    BY <2>3, TriagesKeepsVerdicts
  <2> QED
    BY <2>1, <2>2, <2>3, ReviewMoves
<1>2. SettledInv'
  <2> SUFFICES ASSUME pc' = "settled", ~muddled', NEW c \in inhand'
               PROVE  judged'[c] = "invalid"
    BY DEF SettledInv
  <2>1. CASE UNCHANGED <<pc, inhand, judged, muddled>>
    BY <2>1 DEF SettledInv
  <2>2. CASE CycleRepeats
    <3>1. c \in inhand /\ judged' = judged /\ judged[c] # "none" /\ judged[c] # "valid"
      BY <2>2 DEF CycleRepeats, Unseen, RepeatedValid
    <3> QED
      BY <3>1 DEF Verdicts
  <2>3. CASE Triages
    <3>1. PICK named, valid : Judging(named, valid)
      BY <2>3, TriagesJudges
    <3>2. inhand' = inhand /\ c \in Comments
      BY <2>3 DEF Triages
    <3>3. judged[c] # "valid"
      BY <3>1, <3>2 DEF Judging, RepeatedValid
    <3>4. named = Unseen /\ valid = {}
      BY <3>1 DEF Judging
    <3>5. CASE c \in Unseen
      BY <3>1, <3>2, <3>4, <3>5 DEF Judging, Answer
    <3>6. CASE c \notin Unseen
      <4>1. judged'[c] = judged[c] /\ judged[c] # "none"
        BY <3>1, <3>2, <3>6 DEF Judging, Unseen
      <4> QED
        BY <3>2, <3>3, <4>1 DEF Verdicts
    <3> QED
      BY <3>5, <3>6
  <2> QED
    BY <2>1, <2>2, <2>3, SettledMoves
<1> QED
  BY <1>1, <1>2

-----------------------------------------------------------------------------
(* The steps that satisfy the Copilot gate, and those that close a thread. *)

LEMMA SatisfiedMoves ==
    ASSUME GatesTypeOK, [Next]_vars, ~body.sat, body'.sat
    PROVE  CycleSatisfied \/ pc = "idle"
<1> USE DEF GatesTypeOK
<1>1. ASSUME Ends PROVE FALSE
  BY <1>1 DEF Ends, NoSections
<1>2. ASSUME body' = body \/ Write(body) PROVE FALSE
  BY <1>2 DEF Write
<1>3. CASE UNCHANGED vars \/ ChecksMove \/ CopilotReviews \/ PassesThrough \/ EnterFindsNone \/ OperatorPushes
  BY <1>2, <1>3 DEF ChecksMove, CopilotReviews, PassesThrough, EnterFindsNone, OperatorPushes
<1>4. CASE Enter \/ EnterFinds
  BY <1>4 DEF Enter, EnterFinds
<1>5. CASE Crash \/ Finish \/ TriageStops \/ MergeRefused \/ CiParks
  BY <1>1, <1>5, EndSteps
<1>6. CASE CopilotPasses \/ CopilotOnHead \/ CopilotAsks \/ ReviewArrives \/ GraceUpgrades \/ LateCheckFinds
  BY <1>2, <1>6 DEF CopilotPasses, CopilotOnHead, CopilotAsks, ReviewArrives, GraceUpgrades, LateCheckFinds
<1>7. CASE Asks \/ GraceRetries \/ CycleAsksAgain \/ ReviewDoesNot
  BY <1>2, <1>7 DEF Asks, GraceRetries, CycleAsksAgain, ReviewDoesNot, Skip, Answers
<1>8. CASE CycleRepeats \/ CycleReopens \/ CycleTriages
  BY <1>2, <1>8 DEF CycleRepeats, CycleReopens, CycleTriages
<1>9. CASE Triages
  <2>1. PICK named, valid : Judging(named, valid)
    BY <1>9, TriagesJudges
  <2>2. body' = [body EXCEPT !.triage[body.rounds["copilot"] + 1] = Answer(named, valid)]
    BY <2>1 DEF Judging, Write
  <2>3. body'.sat = body.sat
    BY <2>2 DEF CardTypeOK, Sections
  <2> QED
    BY <2>3
<1>10. CASE GatesPass \/ LateCheckFindsNone
  BY <1>2, <1>10 DEF GatesPass, LateCheckFindsNone
<1>11. CASE CiSkipped \/ CiEnters \/ CiProbes \/ CiGraceOver \/ CiGreen \/ CiWaits
  BY <1>2, <1>11 DEF CiSkipped, CiEnters, CiProbes, CiGraceOver, CiGreen, CiWaits
<1>12. CASE CiRed
  BY <1>1, <1>2, <1>12 DEF CiRed, Park
<1>13. CASE MergeSkipped \/ MergeLands
  BY <1>2, <1>13 DEF MergeSkipped, MergeLands
<1>14. CASE MergeRecorded
  <2>1. body' = [body EXCEPT !.merged = TRUE]
    BY <1>14 DEF MergeRecorded, Write
  <2>2. body'.sat = body.sat
    BY <2>1 DEF CardTypeOK, Sections
  <2> QED
    BY <2>2
<1>15. ASSUME NEW g \in Kinds, FixRound(g) PROVE FALSE
  <2>1. CASE FixBegins(g)
    <3>1. body' = [body EXCEPT !.rounds[g] = @ + 1]
      BY <2>1 DEF FixBegins, Write
    <3>2. body'.sat = body.sat
      BY <3>1 DEF CardTypeOK, Sections
    <3> QED
      BY <3>2
  <2>2. CASE FixLands(g)
    BY <1>2, <2>2 DEF FixLands
  <2>3. CASE FixChangesNothing(g) /\ ~Ends
    BY <1>2, <2>3 DEF FixChangesNothing, Park
  <2> QED
    BY <1>1, <1>15, <2>1, <2>2, <2>3, FixSteps
<1> QED
  BY <1>3, <1>4, <1>5, <1>6, <1>7, <1>8, <1>9, <1>10, <1>11, <1>12, <1>13, <1>14, <1>15
     DEF Next, RunStep, Polls, CopilotGate, CopilotReviewCycle, CopilotFixRound, CiGate, CiFixRound,
         RunPRGates, Kinds

LEMMA ResolvedMoves ==
    ASSUME [Next]_vars, resolved' # resolved
    PROVE  Triages \/ CycleRepeats \/ CycleReopens \/ CycleTriages
<1>1. CASE UNCHANGED vars \/ ChecksMove \/ CopilotReviews \/ PassesThrough \/ EnterFindsNone \/ OperatorPushes
  BY <1>1 DEF ChecksMove, CopilotReviews, PassesThrough, EnterFindsNone, OperatorPushes
<1>2. CASE Enter \/ EnterFinds \/ Crash \/ Finish \/ TriageStops \/ MergeRefused \/ CiParks
  BY <1>2 DEF Enter, EnterFinds, Crash, Finish, TriageStops, MergeRefused, CiParks
<1>3. CASE CopilotPasses \/ CopilotOnHead \/ CopilotAsks \/ ReviewArrives \/ GraceUpgrades \/ LateCheckFinds
  BY <1>3 DEF CopilotPasses, CopilotOnHead, CopilotAsks, ReviewArrives, GraceUpgrades, LateCheckFinds
<1>4. CASE Asks \/ GraceRetries \/ CycleAsksAgain \/ ReviewDoesNot \/ CycleSatisfied
  BY <1>4 DEF Asks, GraceRetries, CycleAsksAgain, ReviewDoesNot, CycleSatisfied
<1>5. CASE GatesPass \/ LateCheckFindsNone \/ MergeSkipped \/ MergeLands \/ MergeRecorded
  BY <1>5 DEF GatesPass, LateCheckFindsNone, MergeSkipped, MergeLands, MergeRecorded
<1>6. CASE CiSkipped \/ CiEnters \/ CiProbes \/ CiGraceOver \/ CiGreen \/ CiWaits \/ CiRed
  BY <1>6 DEF CiSkipped, CiEnters, CiProbes, CiGraceOver, CiGreen, CiWaits, CiRed
<1>7. ASSUME NEW g \in Kinds, FixRound(g) PROVE FALSE
  BY <1>7 DEF FixRound, FixRefused, FixBegins, FixLands, FixRejected, FixCapped, FixStops, FixChangesNothing
<1> QED
  BY <1>1, <1>2, <1>3, <1>4, <1>5, <1>6, <1>7
     DEF Next, RunStep, Polls, CopilotGate, CopilotReviewCycle, CopilotFixRound, CiGate, CiFixRound,
         RunPRGates, Kinds

-----------------------------------------------------------------------------
(* The theorems. *)

IInv ==
    /\ GatesTypeOK
    /\ CopyInv /\ CountInv
    /\ IdleInv /\ LateInv /\ PollInv /\ GreenInv
    /\ JudgedInv /\ SettledInv

LEMMA InitInv == Init => IInv
<1> SUFFICES ASSUME Init PROVE IInv
  OBVIOUS
<1>1. CardTypeOK /\ PrTypeOK
  BY SectionTypes DEF Init, CardTypeOK, PrTypeOK
<1>2. MemTypeOK /\ HistTypeOK /\ RunTypeOK
  <2>1. judged \in [Comments -> Verdicts] /\ inhand \subseteq Comments
    BY SectionTypes DEF Init
  <2>2. begun \in [Kinds -> Nat] /\ runs \in 0 .. MaxRuns
    BY DEF Init
  <2> QED
    BY <2>1, <2>2 DEF Init, MemTypeOK, HistTypeOK, RunTypeOK
<1>3. CopyInv /\ IdleInv /\ LateInv /\ PollInv /\ GreenInv /\ JudgedInv /\ SettledInv
  BY DEF Init, CopyInv, IdleInv, LateInv, PollInv, GreenInv, Gated, JudgedInv, Reviewing, SettledInv
<1>4. CountInv
  BY DEF Init, CountInv, NoSections
<1> QED
  BY <1>1, <1>2, <1>3, <1>4 DEF IInv, GatesTypeOK, Init

LEMMA InvariantStep == IInv /\ [Next]_vars => IInv'
  BY TypeStep, CountStep, GreenStep, JudgedStep DEF IInv

LEMMA InductiveInvariant == Spec => []IInv
  BY InitInv, InvariantStep, PTL DEF Spec

\* Every variable of the gates holds a value of its kind.
THEOREM GatesTypes == Spec => []GatesTypeOK
<1>1. IInv => GatesTypeOK
  BY DEF IInv
<1> QED
  BY <1>1, InductiveInvariant, PTL

\* No push of the run itself gets an unchecked head past the CI gate of a card
\* that awaits CI: to the late check, the merge or done it goes with the checks
\* passed or in a repository without CI, for any number of fix rounds and
\* resumed runs, and whatever somebody else pushed before the gate looked
\* (ciGate, sawChecks).
THEOREM PassedGreen == Spec => []PassedIsGreen
<1>1. IInv => PassedIsGreen
  BY DEF IInv, GreenInv, Gated, Green, PassedIsGreen
<1> QED
  BY <1>1, InductiveInvariant, PTL

\* No card gets more fix rounds than the cap of either gate, whatever number
\* of runs resume it or crash (copilotFixRound, ciFixRound).
THEOREM CappedRounds == Spec => []RoundsCapped
<1>1. IInv => RoundsCapped
  <2> SUFFICES ASSUME IInv, ~lost, NEW g \in Kinds PROVE begun[g] <= RoundsCap
    BY DEF RoundsCapped
  <2>1. begun[g] = saved.rounds[g] /\ saved \in Sections
    BY DEF IInv, CountInv, GatesTypeOK, CardTypeOK
  <2> QED
    BY <2>1, RoundTypes
<1> QED
  BY <1>1, InductiveInvariant, PTL

\* The Copilot gate is satisfied only by a review whose every comment is
\* dismissed on the card, for any comments, rounds and runs, the late check
\* included (copilotReviewCycle).
THEOREM SatisfiedSettled == Spec => SatisfiedIsSettled
<1>1. IInv /\ [Next]_vars =>
        [~body.sat /\ body'.sat /\ ~muddled =>
            \A c \in inhand : TriagedComments(body)[c] = "invalid"]_vars
  <2> SUFFICES ASSUME IInv, [Next]_vars, ~body.sat, body'.sat, ~muddled, NEW c \in inhand
               PROVE  TriagedComments(body)[c] = "invalid"
    OBVIOUS
  <2>1. CycleSatisfied \/ pc = "idle"
    BY SatisfiedMoves DEF IInv
  <2>2. pc # "idle"
    BY DEF IInv, IdleInv
  <2>3. pc = "settled"
    BY <2>1, <2>2 DEF CycleSatisfied
  <2>4. judged[c] = "invalid" /\ judged = TriagedComments(body)
    BY <2>3 DEF IInv, SettledInv, JudgedInv, Reviewing
  <2> QED
    BY <2>4
<1> QED
  BY <1>1, InductiveInvariant, PTL DEF Spec, SatisfiedIsSettled

\* A thread is closed only for a comment dismissed on the card, or for a valid
\* one that the review in hand no longer makes (copilotThreadWriter).
THEOREM ResolvedSettled == Spec => ResolvedIsSettled
<1>1. IInv /\ [Next]_vars =>
        [\A c \in resolved' \ resolved :
            LET verdict == TriagedComments(body')[c] IN
            \/ verdict = "invalid" /\ c \in inhand
            \/ verdict = "valid" /\ c \notin inhand
            \/ muddled']_vars
  <2> SUFFICES ASSUME IInv, [Next]_vars, NEW c \in resolved' \ resolved, ~muddled'
               PROVE  LET verdict == TriagedComments(body')[c] IN
                      \/ verdict = "invalid" /\ c \in inhand
                      \/ verdict = "valid" /\ c \notin inhand
    OBVIOUS
  <2>1. CASE CycleRepeats \/ CycleReopens \/ CycleTriages
    <3>1. pc = "cycle" /\ Resolve(ConfirmedFixed) /\ UNCHANGED <<body, muddled>>
      BY <2>1 DEF CycleRepeats, CycleReopens, CycleTriages
    <3>2. c \in ConfirmedFixed
      BY <3>1 DEF Resolve
    <3>3. judged = TriagedComments(body)
      BY <3>1 DEF IInv, JudgedInv, Reviewing
    <3> QED
      BY <3>1, <3>2, <3>3 DEF ConfirmedFixed
  <2>2. CASE Triages
    <3>1. PICK named, valid : Judging(named, valid)
      BY <2>2, TriagesJudges
    <3>2. c \in named \ valid
      BY <3>1 DEF Judging, Resolve
    <3>3. c \in Unseen /\ c \in inhand /\ c \in Comments
      BY <3>1, <3>2 DEF Judging, Unseen, IInv, GatesTypeOK, MemTypeOK
    <3>4. judged'[c] = "invalid"
      BY <3>1, <3>2, <3>3 DEF Judging, Answer
    <3>5. judged' = TriagedComments(body')
      BY <2>2, TriagesKeepsVerdicts DEF IInv
    <3>6. TriagedComments(body')[c] = "invalid"
      BY <3>4, <3>5
    <3> QED
      BY <3>3, <3>6
  <2> QED
    BY <2>1, <2>2, ResolvedMoves
<1> QED
  BY <1>1, InductiveInvariant, PTL DEF Spec, ResolvedIsSettled

\* No comment is judged twice: a verdict on the card stays what it is through
\* every later triage, run and crash (recordCopilotRound).
THEOREM JudgedForGood == Spec => JudgedOnce
<1>1. IInv /\ [Next]_vars =>
        [\A c \in Comments :
            TriagedComments(saved)[c] # "none" /\ ~lost' /\ ~muddled' =>
                TriagedComments(saved')[c] = TriagedComments(saved)[c]]_vars
  <2> SUFFICES ASSUME IInv, [Next]_vars, ~lost', ~muddled',
                      NEW c \in Comments, TriagedComments(saved)[c] # "none"
               PROVE  TriagedComments(saved')[c] = TriagedComments(saved)[c]
    OBVIOUS
  <2>1. CASE Kept \/ Loads
    BY <2>1 DEF Kept, Loads
  <2>2. CASE Over
    BY <2>2 DEF Over, Save, IInv, CopyInv
  <2>3. ASSUME pc # "idle", NEW b, Write(b) PROVE saved' = b /\ body' = b /\ saved = body
    BY <2>3 DEF Write, Save, IInv, CopyInv
  <2>4. ASSUME NEW b \in Sections, Writes(b)
        PROVE  TriagedComments(saved')[c] = TriagedComments(saved)[c]
    <3>1. saved' = b /\ body' = b /\ saved = body
      BY <2>3, <2>4 DEF Writes
    <3>2. CASE b.triage = body.triage
      BY <3>1, <3>2, SameVerdicts
    <3>3. CASE Triages
      BY <3>1, <3>3, TriagesKeepsVerdicts DEF IInv
    <3> QED
      BY <2>4, <3>2, <3>3 DEF Writes
  <2>5. ASSUME NEW g \in Kinds, FixBegins(g)
        PROVE  TriagedComments(saved')[c] = TriagedComments(saved)[c]
    <3> DEFINE b == [body EXCEPT !.rounds[g] = @ + 1]
    <3>1. pc # "idle" /\ Write(b)
      BY <2>5 DEF FixBegins, Fix
    <3>2. saved' = b /\ saved = body
      BY <2>3, <3>1
    <3>3. b.triage = body.triage
      BY DEF IInv, GatesTypeOK, CardTypeOK, Sections
    <3> QED
      BY <3>2, <3>3, SameVerdicts
  <2> QED
    BY <2>1, <2>2, <2>4, <2>5, CardMoves DEF IInv
<1> QED
  BY <1>1, InductiveInvariant, PTL DEF Spec, JudgedOnce

=============================================================================
