---------------------------- MODULE ImpactEvaluation ----------------------------
(***************************************************************************)
(* ImpactEvaluationService (services/impact_evaluation_service.py): a wake *)
(* event starts a call of evaluate_wake, which judges the objective,       *)
(* searches, verifies candidates in their order and recommends one.  A     *)
(* call that finds a newer wake in the event log gives way to it.  Calls   *)
(* of one journey run in threads of their own and share its call budget.   *)
(***************************************************************************)
EXTENDS Integers, Sequences, FiniteSets

CONSTANTS
  Evaluations,    \* the wakes of one journey, each with the call it starts
  CallBudget,     \* journeys.call_budget before the first of them
  MaxCandidates   \* bound: options of one search that survive the scoring

ASSUME EvaluationAssumption ==
  /\ CallBudget \in Nat
  /\ MaxCandidates \in Nat \ {0}

VARIABLES
  events,       \* the journey's events that evaluate_wake writes or reads
  row,          \* per evaluation: its row of impact_evaluations
  recommended,  \* evaluations with a row in recommendations
  budget,       \* journeys.call_budget
  call,         \* per evaluation: the frame of evaluate_wake
  asked,        \* history: requests sent to Atlas for the journey
  late          \* history: per evaluation, those sent after a newer wake

vars == <<events, row, recommended, budget, call, asked, late>>

(* EvaluationStatus, and no row yet. *)
EvaluationStatus == {"IN_PROGRESS", "COMPLETED", "SUPERSEDED", "INERT_PAST_DEPARTURE"}
Answers == {"satisfied", "alternative_recommended", "no_alternative_found"}
Reports == Answers \union {"objective_violated", "superseded"}
Event == [type : Reports \union {"wake_requested"}, of : Evaluations]

Points == {"idle", "waking", "judging", "checking", "budgeting", "spending",
           "asking", "between", "deciding", "recommending", "concluding",
           "announcing", "returned", "failed"}

(* left: candidates not verified yet, 0 before the search.  relaxed: they
   are those that only the budget constraint eliminates. *)
Frame == [pc : Points, before : 0..CallBudget, searched : BOOLEAN,
          relaxed : BOOLEAN, left : 0..MaxCandidates, report : Reports]

NewFrame == [pc |-> "idle", before |-> 0, searched |-> FALSE,
             relaxed |-> FALSE, left |-> 0, report |-> "no_alternative_found"]

At(e, pc) == call[e].pc = pc
Goto(e, pc) == call' = [call EXCEPT ![e].pc = pc]

TypeOK ==
  /\ events \in Seq(Event)
  /\ row \in [Evaluations -> EvaluationStatus \union {"none"}]
  /\ recommended \subseteq Evaluations
  /\ budget \in 0..CallBudget
  /\ call \in [Evaluations -> Frame]
  /\ asked \in Nat
  /\ late \in [Evaluations -> Nat]

Init ==
  /\ events = <<>>
  /\ row = [e \in Evaluations |-> "none"]
  /\ recommended = {}
  /\ budget = CallBudget
  /\ call = [e \in Evaluations |-> NewFrame]
  /\ asked = 0
  /\ late = [e \in Evaluations |-> 0]

-------------------------------------------------------------------------------
(* _superseded: a wake of another event after the one that started the call. *)

IsWake(i) == events[i].type = "wake_requested"

(* Mutant: the whole log is read, older wakes included. *)
SupersededByAny(e) == \E i \in DOMAIN events : IsWake(i) /\ events[i].of # e

Superseded(e) ==
  \E i, j \in DOMAIN events :
    /\ IsWake(i) /\ events[i].of = e
    /\ IsWake(j) /\ j > i

-------------------------------------------------------------------------------
(* From the wake to the objective. *)

(* The webhook service appends the wake and calls on_wake in its thread. *)
AppendWake(e) ==
  /\ At(e, "idle")
  /\ events' = Append(events, [type |-> "wake_requested", of |-> e])
  /\ Goto(e, "waking")
  /\ UNCHANGED <<row, recommended, budget, asked, late>>

SaveEvaluation(e) ==
  /\ At(e, "waking")
  /\ row' = [row EXCEPT ![e] = "IN_PROGRESS"]
  /\ Goto(e, "judging")
  /\ UNCHANGED <<events, recommended, budget, asked, late>>

Conclude(e, status, report) ==
  /\ row' = [row EXCEPT ![e] = status]
  /\ call' = [call EXCEPT ![e].pc = "announcing", ![e].report = report]
  /\ UNCHANGED <<events, recommended, budget, asked, late>>

(* The departure, the latest claim about the order and the deadline are data:
   any verdict. *)
Judge(e) ==
  /\ At(e, "judging")
  /\ \/ /\ row' = [row EXCEPT ![e] = "INERT_PAST_DEPARTURE"]
        /\ Goto(e, "returned")
        /\ UNCHANGED <<events, recommended, budget, asked, late>>
     \/ Conclude(e, "COMPLETED", "satisfied")
     \/ Conclude(e, "IN_PROGRESS", "objective_violated")

Announce(e) ==
  /\ At(e, "announcing")
  /\ events' = Append(events, [type |-> call[e].report, of |-> e])
  /\ Goto(e, IF call[e].report = "objective_violated" THEN "checking" ELSE "returned")
  /\ UNCHANGED <<row, recommended, budget, asked, late>>

(* Before the search: give way or go on. *)
Check(e) ==
  /\ At(e, "checking")
  /\ IF Superseded(e)
     THEN Conclude(e, "SUPERSEDED", "superseded")
     ELSE /\ call' = [call EXCEPT ![e].pc = "budgeting",
                                  ![e].report = "no_alternative_found"]
          /\ UNCHANGED <<events, row, recommended, budget, asked, late>>

-------------------------------------------------------------------------------
(* A search or a verification: decrement_call_budget, which reads and writes
   in two steps that no transaction holds together, and the request. *)

(* Mutant: a budget of zero is let through. *)
ReadBudgetToZero(e) ==
  /\ At(e, "budgeting")
  /\ IF budget < 0
     THEN Goto(e, "deciding")
     ELSE call' = [call EXCEPT ![e].pc = "spending", ![e].before = budget]
  /\ UNCHANGED <<events, row, recommended, budget, asked, late>>

(* BudgetExhaustedError: no alternative, whatever candidates are left. *)
ReadBudget(e) ==
  /\ At(e, "budgeting")
  /\ IF budget <= 0
     THEN Goto(e, "deciding")
     ELSE call' = [call EXCEPT ![e].pc = "spending", ![e].before = budget]
  /\ UNCHANGED <<events, row, recommended, budget, asked, late>>

WriteBudget(e) ==
  /\ At(e, "spending")
  /\ budget' = call[e].before - 1
  /\ Goto(e, "asking")
  /\ UNCHANGED <<events, row, recommended, asked, late>>

Ask(e) ==
  /\ At(e, "asking")
  /\ asked' = asked + 1
  /\ late' = [late EXCEPT ![e] = IF Superseded(e) THEN @ + 1 ELSE @]
  /\ UNCHANGED <<events, row, recommended, budget>>

(* Atlas's options, scored: none of use, candidates in the order of their
   rank, or only candidates that break nothing but the budget constraint. *)
Search(e) ==
  /\ ~ call[e].searched
  /\ Ask(e)
  /\ \/ call' = [call EXCEPT ![e].pc = "deciding", ![e].searched = TRUE]
     \/ \E n \in 1..MaxCandidates, relaxed \in BOOLEAN :
          call' = [call EXCEPT ![e].pc = "budgeting", ![e].searched = TRUE,
                               ![e].left = n, ![e].relaxed = relaxed]

(* Mutant: the candidate that was not verified stays in the list. *)
VerifyAgain(e) ==
  /\ call[e].searched
  /\ Ask(e)
  /\ \/ call' = [call EXCEPT ![e].pc = "deciding",
                             ![e].report = "alternative_recommended"]
     \/ call' = [call EXCEPT ![e].pc = IF call[e].relaxed THEN "budgeting" ELSE "between"]

(* One that is verified is recommended, a relaxed one only if it costs more
   than the traveller's budget; otherwise it is the next one's turn. *)
Verify(e) ==
  /\ call[e].searched
  /\ Ask(e)
  /\ \/ call' = [call EXCEPT ![e].pc = "deciding",
                             ![e].report = "alternative_recommended"]
     \/ call' = [call EXCEPT ![e].left = @ - 1,
                  ![e].pc = IF ~ call[e].relaxed THEN "between"
                            ELSE IF call[e].left = 1 THEN "deciding"
                            ELSE "budgeting"]

(* Mutant: the next candidate is verified whatever the log says. *)
BetweenUnchecked(e) ==
  /\ At(e, "between")
  /\ Goto(e, IF call[e].left = 0 THEN "deciding" ELSE "budgeting")
  /\ UNCHANGED <<events, row, recommended, budget, asked, late>>

Between(e) ==
  /\ At(e, "between")
  /\ Goto(e, IF Superseded(e) \/ call[e].left = 0 THEN "deciding" ELSE "budgeting")
  /\ UNCHANGED <<events, row, recommended, budget, asked, late>>

-------------------------------------------------------------------------------
(* The conclusion: the recommendation, the row and the event, in this order. *)

Decide(e) ==
  /\ At(e, "deciding")
  /\ \/ /\ Superseded(e)
        /\ Conclude(e, "SUPERSEDED", "superseded")
     \/ /\ ~ Superseded(e) /\ call[e].report = "no_alternative_found"
        /\ Conclude(e, "COMPLETED", "no_alternative_found")
     \/ /\ ~ Superseded(e) /\ call[e].report = "alternative_recommended"
        /\ Goto(e, "recommending")
        /\ UNCHANGED <<events, row, recommended, budget, asked, late>>

SaveRecommendation(e) ==
  /\ At(e, "recommending")
  /\ recommended' = recommended \union {e}
  /\ Goto(e, "concluding")
  /\ UNCHANGED <<events, row, budget, asked, late>>

ConcludeRecommended(e) ==
  /\ At(e, "concluding")
  /\ Conclude(e, "COMPLETED", "alternative_recommended")

Step(e) ==
  \/ SaveEvaluation(e) \/ Judge(e) \/ Announce(e) \/ Check(e)
  \/ ReadBudget(e) \/ WriteBudget(e) \/ Search(e) \/ Verify(e) \/ Between(e)
  \/ Decide(e) \/ SaveRecommendation(e) \/ ConcludeRecommended(e)

(* A service or a table access raises, an error answer of Atlas does, or the
   process dies: evaluate_wake catches nothing but an exhausted budget. *)
RequestFails(e) ==
  /\ Ask(e)
  /\ Goto(e, "failed")

CallFails(e) ==
  /\ call[e].pc \notin {"idle", "returned", "failed"}
  /\ Goto(e, "failed")
  /\ UNCHANGED <<events, row, recommended, budget, asked, late>>

Next ==
  \E e \in Evaluations :
    AppendWake(e) \/ Step(e) \/ RequestFails(e) \/ CallFails(e)

Spec == Init /\ [][Next]_vars

(* Every thread that is inside evaluate_wake goes on. *)
FairSpec == Spec /\ \A e \in Evaluations : WF_vars(Step(e))

-------------------------------------------------------------------------------
(* Properties. *)

(* FR-002 (specs/009-impact-evaluation/spec.md), as far as the code carries
   it: once a newer wake is in the log, an evaluation sends Atlas at most its
   search and one verification more, because it looks at the log between two
   candidates; relaxed candidates it verifies without looking
   (_try_score_and_verify:279-291, _try_relaxed_budget_recommendation). *)
AbandonsSoon == \A e \in Evaluations : ~ call[e].relaxed => late[e] <= 2

(* Overlapping evaluations never cancel each other out: every wake is answered
   with a report, unless its evaluation failed, the journey has departed, or a
   newer wake is there to be answered instead (_superseded:167-172). *)
Answered(e) == \E i \in DOMAIN events : events[i].of = e /\ events[i].type \in Answers

WokenBefore(e, f) ==
  \E i, j \in DOMAIN events :
    i < j /\ IsWake(i) /\ events[i].of = e /\ IsWake(j) /\ events[j].of = f

AnsweredOrNewer(e) ==
  \/ Answered(e) \/ (\E f \in Evaluations : WokenBefore(e, f))
  \/ row[e] = "INERT_PAST_DEPARTURE"

NewestIsAnswered ==
  \A e \in Evaluations :
    At(e, "waking") ~> AnsweredOrNewer(e) \/ At(e, "failed")

(* Its safety half: evaluate_wake never returns and owes the answer, whichever
   of its three looks at the log it gave way at. *)
ReturnsAnswered ==
  \A e \in Evaluations : At(e, "returned") => AnsweredOrNewer(e)

(* A bound on the steps a call has before it: four for every candidate that is
   left (the search counts as one more), and the fixed points around them. *)
Left(frame) ==
  LET requests == 4 * (IF frame.searched THEN frame.left ELSE MaxCandidates + 1)
      whole == 4 * (MaxCandidates + 1)
  IN CASE frame.pc = "idle" -> whole + 12
       [] frame.pc = "waking" -> whole + 11
       [] frame.pc = "judging" -> whole + 10
       [] frame.pc = "announcing" ->
            IF frame.report = "objective_violated" THEN whole + 9 ELSE 1
       [] frame.pc = "checking" -> whole + 8
       [] frame.pc = "between" -> requests + 8
       [] frame.pc = "budgeting" -> requests + 7
       [] frame.pc = "spending" -> requests + 6
       [] frame.pc = "asking" -> requests + 5
       [] frame.pc = "deciding" -> 4
       [] frame.pc = "recommending" -> 3
       [] frame.pc = "concluding" -> 2
       [] OTHER -> 0

(* Every call of evaluate_wake comes to an end, however many wakes overlap and
   whatever they take from the budget: each step brings one call nearer to its
   end and puts no other call back. *)
EvaluationsAdvance ==
  [][\E e \in Evaluations :
       /\ Left(call'[e]) < Left(call[e])
       /\ \A f \in Evaluations \ {e} : call'[f] = call[f]]_vars

(* FR-002: an evaluation in progress when a second confirmed change arrives is
   abandoned, so nothing it recommends can follow the answer to the change. *)
LastWordIsNewest ==
  \A i, j \in DOMAIN events :
    /\ i < j /\ events[i].type \in Answers
    /\ WokenBefore(events[j].of, events[i].of)
    => events[j].type # "alternative_recommended"

(* FR-009 and SC-004 (specs/002-flight-search/spec.md), and the docstring of
   decrement_call_budget: every request takes one from the budget, so no more
   requests are sent than it holds. *)
CallsWithinBudget == asked <= CallBudget

=============================================================================
