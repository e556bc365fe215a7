------------------------- MODULE ImpactEvaluationProofs -------------------------
(***************************************************************************)
(* Proofs about ImpactEvaluation for every number of wakes, candidates and *)
(* calls in the budget.                                                    *)
(***************************************************************************)
EXTENDS ImpactEvaluation, TLAPS

(* What a frame says of itself: a call that is about to spend has read a
   budget that is not exhausted, one that goes on to verify has a candidate
   left, and one that has searched is past the judgement of the objective. *)
Sound(g) ==
  /\ g.pc = "spending" => g.before > 0
  /\ g.searched /\ g.pc \in {"budgeting", "spending", "asking"} => g.left > 0
  /\ g.searched => g.pc \notin {"idle", "waking", "judging", "checking"}
  /\ g.report = "objective_violated" =>
       ~ g.searched /\ g.pc \in {"announcing", "checking", "failed"}

FramesSound == \A e \in Evaluations : Sound(call[e])

TypeInv == TypeOK /\ FramesSound

(* An event of the model can be appended to the log. *)
LEMMA AppendTypes ==
  ASSUME TypeOK, NEW type \in Reports \union {"wake_requested"}, NEW e \in Evaluations
  PROVE  Append(events, [type |-> type, of |-> e]) \in Seq(Event)
  BY DEF TypeOK, Event

(* What one call does to its frame, as far as the others are concerned. *)
OwnFrame(e) ==
  /\ call'[e] \in Frame /\ Sound(call'[e])
  /\ call' = [call EXCEPT ![e] = call'[e]]

LEMMA FrameStep ==
  ASSUME TypeInv, NEW e \in Evaluations, OwnFrame(e)
  PROVE  call' \in [Evaluations -> Frame] /\ FramesSound'
<1>1. call' \in [Evaluations -> Frame]
  BY DEF OwnFrame, TypeInv, TypeOK
<1>2. \A f \in Evaluations : f # e => call'[f] = call[f]
  BY DEF OwnFrame, TypeInv, TypeOK
<1> QED BY <1>1, <1>2 DEF OwnFrame, TypeInv, FramesSound

(* The frame of a call that only moves on to another point. *)
LEMMA GotoFrame ==
  ASSUME TypeInv, NEW e \in Evaluations, NEW pc \in Points, Goto(e, pc),
         Sound([call[e] EXCEPT !.pc = pc])
  PROVE  OwnFrame(e)
<1>1. call[e] \in Frame
  BY DEF TypeInv, TypeOK
<1>2. call'[e] = [call[e] EXCEPT !.pc = pc] /\ call' = [call EXCEPT ![e] = call'[e]]
  BY DEF Goto, TypeInv, TypeOK
<1> QED BY <1>1, <1>2 DEF OwnFrame, Frame

(* The frame of a call that concludes or states the violation. *)
LEMMA ConcludeFrame ==
  ASSUME TypeInv, NEW e \in Evaluations, NEW status \in EvaluationStatus,
         NEW report \in Reports, Conclude(e, status, report),
         call[e].searched => report # "objective_violated"
  PROVE  OwnFrame(e) /\ row' \in [Evaluations -> EvaluationStatus \union {"none"}]
<1>1. call[e] \in Frame
  BY DEF TypeInv, TypeOK
<1>2. call'[e] = [call[e] EXCEPT !.pc = "announcing", !.report = report]
      /\ call' = [call EXCEPT ![e] = call'[e]]
  BY DEF Conclude, TypeInv, TypeOK
<1>3. OwnFrame(e)
  BY <1>1, <1>2 DEF OwnFrame, Sound, Frame, Points
<1> QED BY <1>3 DEF Conclude, TypeInv, TypeOK

LEMMA TypeStep == TypeInv /\ [Next]_vars => TypeInv'
<1> SUFFICES ASSUME TypeInv, [Next]_vars PROVE TypeInv'
  OBVIOUS
<1>1. CASE UNCHANGED vars
  BY <1>1 DEF vars, TypeInv, TypeOK, FramesSound
<1> SUFFICES ASSUME NEW e \in Evaluations,
                    AppendWake(e) \/ Step(e) \/ RequestFails(e) \/ CallFails(e)
             PROVE  TypeInv'
  BY <1>1 DEF Next
<1>2. call[e] \in Frame /\ Sound(call[e])
  BY DEF TypeInv, TypeOK, FramesSound
<1> DEFINE RowOK == row' \in [Evaluations -> EvaluationStatus \union {"none"}]
           Rest == /\ events' \in Seq(Event)
                   /\ recommended' \subseteq Evaluations
                   /\ budget' \in 0..CallBudget
                   /\ asked' \in Nat
                   /\ late' \in [Evaluations -> Nat]
<1>3. SUFFICES OwnFrame(e) /\ RowOK /\ Rest
  BY <1>3, FrameStep DEF TypeInv, TypeOK
<1>4. CASE AppendWake(e)
  <2>1. OwnFrame(e)
    BY <1>2, <1>4, GotoFrame DEF AppendWake, Points, Sound, At
  <2>2. events' \in Seq(Event)
    BY <1>4, AppendTypes DEF AppendWake, TypeInv
  <2> QED BY <1>4, <2>1, <2>2 DEF AppendWake, TypeInv, TypeOK
<1>5. CASE SaveEvaluation(e)
  <2>1. OwnFrame(e)
    BY <1>2, <1>5, GotoFrame DEF SaveEvaluation, Points, Sound, At
  <2> QED BY <1>5, <2>1 DEF SaveEvaluation, EvaluationStatus, TypeInv, TypeOK
<1>6. CASE Judge(e)
  <2>1. ASSUME row' = [row EXCEPT ![e] = "INERT_PAST_DEPARTURE"], Goto(e, "returned"),
               UNCHANGED <<events, recommended, budget, asked, late>>
        PROVE  OwnFrame(e) /\ RowOK /\ Rest
    <3>1. OwnFrame(e)
      BY <1>2, <1>6, <2>1, GotoFrame DEF Judge, At, Points, Sound
    <3> QED BY <2>1, <3>1 DEF EvaluationStatus, TypeInv, TypeOK
  <2>2. ASSUME Conclude(e, "COMPLETED", "satisfied")
        PROVE  OwnFrame(e) /\ RowOK /\ Rest
    <3>1. OwnFrame(e) /\ RowOK
      BY <2>2, ConcludeFrame DEF EvaluationStatus, Reports, Answers
    <3> QED BY <2>2, <3>1 DEF Conclude, TypeInv, TypeOK
  <2>3. ASSUME Conclude(e, "IN_PROGRESS", "objective_violated")
        PROVE  OwnFrame(e) /\ RowOK /\ Rest
    <3>1. OwnFrame(e) /\ RowOK
      BY <1>2, <1>6, <2>3, ConcludeFrame DEF Judge, At, Sound, EvaluationStatus, Reports
    <3> QED BY <2>3, <3>1 DEF Conclude, TypeInv, TypeOK
  <2> QED BY <1>6, <2>1, <2>2, <2>3 DEF Judge
<1>7. CASE Announce(e)
  <2>1. OwnFrame(e)
    BY <1>2, <1>7, GotoFrame DEF Announce, Points, Sound, At
  <2>2. events' \in Seq(Event)
    BY <1>2, <1>7, AppendTypes DEF Announce, Frame, TypeInv
  <2> QED BY <1>7, <2>1, <2>2 DEF Announce, TypeInv, TypeOK
<1>8. CASE Check(e)
  <2>1. ASSUME Conclude(e, "SUPERSEDED", "superseded")
        PROVE  OwnFrame(e) /\ RowOK /\ Rest
    <3>1. OwnFrame(e) /\ RowOK
      BY <2>1, ConcludeFrame DEF EvaluationStatus, Reports
    <3> QED BY <2>1, <3>1 DEF Conclude, TypeInv, TypeOK
  <2>2. ASSUME ~ Superseded(e)
        PROVE  OwnFrame(e) /\ RowOK /\ Rest
    <3>1. call'[e] = [call[e] EXCEPT !.pc = "budgeting", !.report = "no_alternative_found"]
          /\ call' = [call EXCEPT ![e] = call'[e]]
      BY <1>8, <2>2 DEF Check, TypeInv, TypeOK
    <3>2. OwnFrame(e)
      BY <1>2, <1>8, <3>1 DEF Check, At, OwnFrame, Sound, Frame, Points, Reports, Answers
    <3> QED BY <1>8, <2>2, <3>2 DEF Check, TypeInv, TypeOK
  <2> QED BY <1>8, <2>1, <2>2 DEF Check
<1>9. CASE ReadBudget(e)
  <2>1. ASSUME budget <= 0 PROVE OwnFrame(e)
    BY <1>2, <1>9, <2>1, GotoFrame DEF ReadBudget, Points, Sound, At
  <2>2. ASSUME budget > 0 PROVE OwnFrame(e)
    <3>2. budget \in 0..CallBudget /\ call[e].pc = "budgeting"
      BY <1>9 DEF ReadBudget, At, TypeInv, TypeOK
    <3>3. call' = [call EXCEPT ![e].pc = "spending", ![e].before = budget]
      BY <1>9, <2>2, <3>2, EvaluationAssumption DEF ReadBudget
    <3>1. call'[e] = [call[e] EXCEPT !.pc = "spending", !.before = budget]
          /\ call' = [call EXCEPT ![e] = call'[e]]
      BY <3>3 DEF TypeInv, TypeOK
    <3> QED BY <1>2, <2>2, <3>1, <3>2, EvaluationAssumption
        DEF OwnFrame, Sound, Frame, Points
  <2> QED BY <1>9, <2>1, <2>2, EvaluationAssumption DEF ReadBudget, TypeInv, TypeOK
<1>10. CASE WriteBudget(e)
  <2>1. OwnFrame(e)
    BY <1>2, <1>10, GotoFrame DEF WriteBudget, Points, Sound, At
  <2>2. budget' \in 0..CallBudget
    BY <1>2, <1>10, EvaluationAssumption DEF WriteBudget, At, Sound, Frame
  <2> QED BY <1>10, <2>1, <2>2 DEF WriteBudget, TypeInv, TypeOK
<1>11. ASSUME Ask(e), OwnFrame(e) PROVE OwnFrame(e) /\ RowOK /\ Rest
  <2>1. late' \in [Evaluations -> Nat]
    BY <1>11 DEF Ask, TypeInv, TypeOK
  <2> QED BY <1>11, <2>1 DEF Ask, TypeInv, TypeOK
<1>12. CASE Search(e)
  <2>1. ASSUME call' = [call EXCEPT ![e].pc = "deciding", ![e].searched = TRUE]
        PROVE  OwnFrame(e)
    <3>1. call'[e] = [call[e] EXCEPT !.pc = "deciding", !.searched = TRUE]
          /\ call' = [call EXCEPT ![e] = call'[e]]
      BY <2>1 DEF TypeInv, TypeOK
    <3> QED BY <1>2, <1>12, <3>1 DEF Search, Ask, At, OwnFrame, Sound, Frame, Points
  <2>2. ASSUME NEW n \in 1..MaxCandidates, NEW relaxed \in BOOLEAN,
               call' = [call EXCEPT ![e].pc = "budgeting", ![e].searched = TRUE,
                                    ![e].left = n, ![e].relaxed = relaxed]
        PROVE  OwnFrame(e)
    <3>1. call'[e] = [call[e] EXCEPT !.pc = "budgeting", !.searched = TRUE,
                                     !.left = n, !.relaxed = relaxed]
          /\ call' = [call EXCEPT ![e] = call'[e]]
      BY <2>2 DEF TypeInv, TypeOK
    <3>2. n \in 0..MaxCandidates /\ n > 0 /\ "budgeting" \in Points
      BY EvaluationAssumption DEF Points
    <3>3. PICK h : h = [pc |-> "budgeting", before |-> call[e].before,
                        searched |-> TRUE, relaxed |-> relaxed, left |-> n,
                        report |-> call[e].report]
      OBVIOUS
    <3>4. h \in Frame /\ call'[e] = h
      BY <1>2, <3>1, <3>2, <3>3 DEF Frame
    <3>5. call[e].pc = "asking"
      BY <1>12 DEF Search, Ask, At
    <3> QED BY <1>2, <3>1, <3>2, <3>3, <3>4, <3>5 DEF OwnFrame, Sound
  <2> QED BY <1>11, <1>12, <2>1, <2>2 DEF Search
<1>13. CASE Verify(e)
  <2>1. ASSUME call' = [call EXCEPT ![e].pc = "deciding",
                                    ![e].report = "alternative_recommended"]
        PROVE  OwnFrame(e)
    <3>1. call'[e] = [call[e] EXCEPT !.pc = "deciding",
                                     !.report = "alternative_recommended"]
          /\ call' = [call EXCEPT ![e] = call'[e]]
      BY <2>1 DEF TypeInv, TypeOK
    <3> QED BY <1>2, <1>13, <3>1
        DEF Verify, Ask, At, OwnFrame, Sound, Frame, Points, Reports, Answers
  <2>2. ASSUME NEW pc \in {"between", "deciding", "budgeting"},
               pc = "budgeting" => call[e].left # 1,
               call' = [call EXCEPT ![e].left = @ - 1, ![e].pc = pc]
        PROVE  OwnFrame(e)
    <3>1. call'[e] = [call[e] EXCEPT !.left = @ - 1, !.pc = pc]
          /\ call' = [call EXCEPT ![e] = call'[e]]
      BY <2>2 DEF TypeInv, TypeOK
    <3>2. call[e].left \in 1..MaxCandidates
      BY <1>2, <1>13 DEF Verify, Ask, At, Sound, Frame
    <3>3. /\ call[e].left - 1 \in 0..MaxCandidates
          /\ call[e].left # 1 => call[e].left - 1 > 0
      BY <3>2, EvaluationAssumption
    <3>4. call[e].pc = "asking" /\ pc \in Points
      BY <1>13, <2>2 DEF Verify, Ask, At, Points
    <3>5. PICK h : h = [pc |-> pc, before |-> call[e].before,
                        searched |-> call[e].searched,
                        relaxed |-> call[e].relaxed, left |-> call[e].left - 1,
                        report |-> call[e].report]
      OBVIOUS
    <3>6. h \in Frame /\ call'[e] = h
      BY <1>2, <3>1, <3>3, <3>4, <3>5 DEF Frame
    <3> QED BY <1>2, <2>2, <3>1, <3>3, <3>4, <3>5, <3>6 DEF OwnFrame, Sound
  <2> QED BY <1>11, <1>13, <2>1, <2>2 DEF Verify
<1>14. CASE Between(e)
  <2>1. OwnFrame(e)
    BY <1>2, <1>14, GotoFrame DEF Between, Points, Sound, At, Frame
  <2> QED BY <1>14, <2>1 DEF Between, TypeInv, TypeOK
<1>15. CASE Decide(e)
  <2>1. ASSUME NEW status \in EvaluationStatus,
               NEW report \in {"superseded", "no_alternative_found"},
               Conclude(e, status, report)
        PROVE  OwnFrame(e) /\ RowOK /\ Rest
    <3>1. OwnFrame(e) /\ RowOK
      BY <2>1, ConcludeFrame DEF Reports, Answers
    <3> QED BY <2>1, <3>1 DEF Conclude, TypeInv, TypeOK
  <2>2. ASSUME Goto(e, "recommending"),
               UNCHANGED <<events, row, recommended, budget, asked, late>>
        PROVE  OwnFrame(e) /\ RowOK /\ Rest
    <3>1. OwnFrame(e)
      BY <1>2, <1>15, <2>2, GotoFrame DEF Decide, Points, Sound, At
    <3> QED BY <2>2, <3>1 DEF TypeInv, TypeOK
  <2> QED BY <1>15, <2>1, <2>2 DEF Decide, EvaluationStatus
<1>16. CASE SaveRecommendation(e)
  <2>1. OwnFrame(e)
    BY <1>2, <1>16, GotoFrame DEF SaveRecommendation, Points, Sound, At
  <2> QED BY <1>16, <2>1 DEF SaveRecommendation, TypeInv, TypeOK
<1>17. CASE ConcludeRecommended(e)
  <2>1. OwnFrame(e) /\ RowOK
    BY <1>17, ConcludeFrame DEF ConcludeRecommended, EvaluationStatus, Reports, Answers
  <2> QED BY <1>17, <2>1 DEF ConcludeRecommended, Conclude, TypeInv, TypeOK
<1>18. CASE RequestFails(e)
  <2>1. OwnFrame(e)
    BY <1>2, <1>18, GotoFrame DEF RequestFails, Ask, Points, Sound, At
  <2> QED BY <1>11, <1>18, <2>1 DEF RequestFails
<1>19. CASE CallFails(e)
  <2>1. OwnFrame(e)
    BY <1>2, <1>19, GotoFrame DEF CallFails, Points, Sound
  <2> QED BY <1>19, <2>1 DEF CallFails, TypeInv, TypeOK
<1> QED
  BY <1>4, <1>5, <1>6, <1>7, <1>8, <1>9, <1>10, <1>12, <1>13, <1>14, <1>15,
     <1>16, <1>17, <1>18, <1>19 DEF Step

LEMMA TypeInvHolds == Spec => []TypeInv
<1>1. Init => TypeInv
  BY EvaluationAssumption DEF Init, TypeInv, TypeOK, FramesSound, Sound,
     NewFrame, Frame, Points, Reports, Answers
<1> QED BY <1>1, TypeStep, PTL DEF Spec

(* decrement_call_budget and evaluate_wake keep their types; in particular the
   budget never falls below zero and never rises above its first value, however
   many reads and writes of it overlap. *)
THEOREM TypeCorrect == Spec => []TypeOK
<1>1. TypeInv => TypeOK
  BY DEF TypeInv
<1> QED BY <1>1, TypeInvHolds, PTL

-------------------------------------------------------------------------------
(* AbandonsSoon.  A request is late only if a newer wake was in the log, which
   the log does not forget; so a call that has just looked and found none has
   sent nothing late, and from its search, or from a candidate, to the next
   look it sends at most two requests. *)

LateSoFar(e) ==
  /\ late[e] > 0 => Superseded(e)
  /\ ~ call[e].searched /\ call[e].pc # "failed" => late[e] = 0
  /\ ~ call[e].relaxed =>
       /\ late[e] <= 2
       /\ call[e].pc \in {"budgeting", "spending", "asking"} => late[e] <= 1

LateInv == TypeInv /\ \A e \in Evaluations : LateSoFar(e)

(* A log that grows at its end forgets no wake. *)
LEMMA SupersededStays ==
  ASSUME TypeOK, NEW e \in Evaluations, Superseded(e),
         NEW event \in Event,
         events' = events \/ events' = Append(events, event)
  PROVE  Superseded(e)'
<1>1. CASE events' = events
  BY <1>1 DEF Superseded, IsWake
<1>2. CASE events' = Append(events, event)
  <2>1. PICK i, j \in DOMAIN events :
          IsWake(i) /\ events[i].of = e /\ IsWake(j) /\ j > i
    BY DEF Superseded
  <2>2. /\ i \in DOMAIN events' /\ j \in DOMAIN events'
        /\ events'[i] = events[i] /\ events'[j] = events[j]
    BY <1>2, <2>1 DEF TypeOK
  <2> QED BY <2>1, <2>2 DEF Superseded, IsWake
<1> QED BY <1>1, <1>2

(* The log only ever grows by one event at its end. *)
LEMMA LogAppends ==
  ASSUME TypeInv, [Next]_vars
  PROVE  events' = events \/ \E event \in Event : events' = Append(events, event)
<1>1. CASE UNCHANGED vars
  BY <1>1 DEF vars
<1>2. ASSUME NEW e \in Evaluations, AppendWake(e)
      PROVE  \E event \in Event : events' = Append(events, event)
  BY <1>2 DEF AppendWake, Event
<1>3. ASSUME NEW e \in Evaluations, Announce(e)
      PROVE  \E event \in Event : events' = Append(events, event)
  <2>1. call[e].report \in Reports
    BY DEF TypeInv, TypeOK, Frame
  <2> QED BY <1>3, <2>1 DEF Announce, Event
<1>4. ASSUME NEW e \in Evaluations, Step(e), ~ Announce(e)
      PROVE  events' = events
  BY <1>4 DEF Step, SaveEvaluation, Judge, Check, ReadBudget, WriteBudget,
     Search, Verify, Ask, Between, Decide, SaveRecommendation,
     ConcludeRecommended, Conclude
<1>5. ASSUME NEW e \in Evaluations, RequestFails(e) \/ CallFails(e)
      PROVE  events' = events
  BY <1>5 DEF RequestFails, CallFails, Ask
<1> QED BY <1>1, <1>2, <1>3, <1>4, <1>5 DEF Next

LEMMA LogGrows ==
  ASSUME TypeInv, [Next]_vars, NEW f \in Evaluations, Superseded(f)
  PROVE  Superseded(f)'
<1>1. events' = events \/ \E event \in Event : events' = Append(events, event)
  BY LogAppends
<1>2. ASSUME events' = events PROVE Superseded(f)'
  BY <1>2 DEF Superseded, IsWake
<1>3. ASSUME NEW event \in Event, events' = Append(events, event)
      PROVE  Superseded(f)'
  BY <1>3, SupersededStays DEF TypeInv
<1> QED BY <1>1, <1>2, <1>3

(* A call that sends nothing stays within its requests, if it has looked at
   the log before it goes on. *)
LEMMA QuietStep ==
  ASSUME LateInv, [Next]_vars, NEW e \in Evaluations, late'[e] = late[e],
         call'[e].searched = call[e].searched, call'[e].relaxed = call[e].relaxed,
         call[e].pc # "failed",
         call'[e].pc \in {"budgeting", "spending", "asking"} =>
            \/ call[e].pc \in {"budgeting", "spending", "asking"}
            \/ ~ Superseded(e)
  PROVE  LateSoFar(e)'
<1>1. Superseded(e) => Superseded(e)'
  BY LogGrows DEF LateInv
<1>2. late[e] \in Nat /\ LateSoFar(e)
  BY DEF LateInv, TypeInv, TypeOK
<1> QED BY <1>1, <1>2 DEF LateSoFar

(* A request that is sent, with what its answer makes of the call. *)
LEMMA AskStep ==
  ASSUME LateInv, [Next]_vars, NEW e \in Evaluations, Ask(e),
         call'[e].searched \/ call'[e].pc = "failed",
         ~ call'[e].relaxed => ~ call[e].relaxed \/ ~ call[e].searched,
         call'[e].pc \in {"budgeting", "spending", "asking"} =>
            ~ call[e].searched \/ call'[e].relaxed
  PROVE  LateSoFar(e)'
<1>1. Superseded(e) => Superseded(e)'
  BY LogGrows DEF LateInv
<1>2. late[e] \in Nat /\ LateSoFar(e) /\ call[e].pc = "asking"
  BY DEF LateInv, TypeInv, TypeOK, Ask, At
<1>3. late'[e] = IF Superseded(e) THEN late[e] + 1 ELSE late[e]
  BY DEF Ask, LateInv, TypeInv, TypeOK
<1> QED BY <1>1, <1>2, <1>3 DEF LateSoFar

(* The other calls may only add to the log. *)
LEMMA OtherStep ==
  ASSUME LateInv, [Next]_vars, NEW e \in Evaluations,
         late'[e] = late[e], call'[e] = call[e]
  PROVE  LateSoFar(e)'
<1>1. Superseded(e) => Superseded(e)'
  BY LogGrows DEF LateInv
<1> QED BY <1>1 DEF LateInv, LateSoFar

LEMMA LateStep == LateInv /\ [Next]_vars => LateInv'
<1> SUFFICES ASSUME LateInv, [Next]_vars, NEW f \in Evaluations
             PROVE  LateSoFar(f)'
  BY TypeStep DEF LateInv
<1>1. CASE UNCHANGED vars
  BY <1>1, OtherStep DEF vars
<1> SUFFICES ASSUME NEW e \in Evaluations,
                    AppendWake(e) \/ Step(e) \/ RequestFails(e) \/ CallFails(e)
             PROVE  LateSoFar(f)'
  BY <1>1 DEF Next
<1>2. call \in [Evaluations -> Frame] /\ late \in [Evaluations -> Nat] /\ Sound(call[e])
  BY DEF LateInv, TypeInv, TypeOK, FramesSound
<1>3. call[e] \in Frame
  BY <1>2
<1>4. CASE f # e
  <2>1. call'[f] = call[f]
    BY <1>2, <1>4 DEF AppendWake, Step, SaveEvaluation, Judge, Announce, Check,
       ReadBudget, WriteBudget, Search, Verify, Between, Decide,
       SaveRecommendation, ConcludeRecommended, Conclude, Goto, RequestFails, CallFails
  <2>2. late'[f] = late[f]
    BY <1>2, <1>4 DEF AppendWake, Step, SaveEvaluation, Judge, Announce, Check,
       ReadBudget, WriteBudget, Search, Verify, Between, Decide,
       SaveRecommendation, ConcludeRecommended, Conclude, RequestFails, CallFails, Ask
  <2> QED BY <2>1, <2>2, OtherStep
<1> SUFFICES LateSoFar(e)'
  BY <1>4
<1> DEFINE Asking == {"budgeting", "spending", "asking"}
<1>5. ASSUME late' = late, NEW pc \in Points, Goto(e, pc), call[e].pc # "failed",
             pc \in Asking => call[e].pc \in Asking \/ ~ Superseded(e)
      PROVE  LateSoFar(e)'
  <2>1. call'[e] = [call[e] EXCEPT !.pc = pc]
    BY <1>2, <1>5 DEF Goto
  <2> QED BY <1>3, <1>5, <2>1, QuietStep DEF Frame
<1>6. ASSUME NEW status, NEW report, Conclude(e, status, report), call[e].pc # "failed"
      PROVE  LateSoFar(e)'
  <2>1. call'[e] = [call[e] EXCEPT !.pc = "announcing", !.report = report]
    BY <1>2, <1>6 DEF Conclude
  <2>2. late' = late
    BY <1>6 DEF Conclude
  <2> QED BY <1>3, <1>6, <2>1, <2>2, QuietStep DEF Frame
<1>7. CASE AppendWake(e) \/ SaveEvaluation(e) \/ Announce(e)
           \/ SaveRecommendation(e) \/ CallFails(e)
  BY <1>5, <1>7 DEF AppendWake, SaveEvaluation, Announce, SaveRecommendation,
     CallFails, At, Points
<1>8. CASE Judge(e)
  BY <1>5, <1>6, <1>8 DEF Judge, At, Points
<1>9. CASE Check(e)
  <2>1. ASSUME ~ Superseded(e) PROVE LateSoFar(e)'
    <3>1. call'[e] = [call[e] EXCEPT !.pc = "budgeting", !.report = "no_alternative_found"]
      BY <1>2, <1>9, <2>1 DEF Check
    <3>2. late' = late /\ call[e].pc = "checking"
      BY <1>9, <2>1 DEF Check, At
    <3> QED BY <1>3, <2>1, <3>1, <3>2, QuietStep DEF Frame
  <2> QED BY <1>6, <1>9, <2>1 DEF Check, At
<1>10. CASE ReadBudget(e)
  <2>1. ASSUME call' = [call EXCEPT ![e].pc = "spending", ![e].before = budget]
        PROVE  LateSoFar(e)'
    <3>1. call'[e] = [call[e] EXCEPT !.pc = "spending", !.before = budget]
      BY <1>2, <2>1
    <3>2. late' = late /\ call[e].pc = "budgeting"
      BY <1>10 DEF ReadBudget, At
    <3> QED BY <1>3, <3>1, <3>2, QuietStep DEF Frame
  <2> QED BY <1>5, <1>10, <2>1 DEF ReadBudget, At, Points
<1>11. CASE WriteBudget(e)
  BY <1>5, <1>11 DEF WriteBudget, At, Points
<1>12. CASE Search(e)
  <2>1. ASSUME call' = [call EXCEPT ![e].pc = "deciding", ![e].searched = TRUE]
        PROVE  LateSoFar(e)'
    <3>1. call'[e] = [call[e] EXCEPT !.pc = "deciding", !.searched = TRUE]
      BY <1>2, <2>1
    <3> QED BY <1>3, <1>12, <3>1, AskStep DEF Search, Frame
  <2>2. ASSUME NEW n \in 1..MaxCandidates, NEW relaxed \in BOOLEAN,
               call' = [call EXCEPT ![e].pc = "budgeting", ![e].searched = TRUE,
                                    ![e].left = n, ![e].relaxed = relaxed]
        PROVE  LateSoFar(e)'
    <3>1. call'[e] = [call[e] EXCEPT !.pc = "budgeting", !.searched = TRUE,
                                     !.left = n, !.relaxed = relaxed]
      BY <1>2, <2>2
    <3>2. /\ call'[e].pc = "budgeting" /\ call'[e].searched
          /\ call'[e].relaxed = relaxed
      BY <1>3, <3>1 DEF Frame
    <3> QED BY <1>12, <3>2, AskStep DEF Search
  <2> QED BY <1>12, <2>1, <2>2 DEF Search
<1>13. CASE Verify(e)
  <2>1. ASSUME call' = [call EXCEPT ![e].pc = "deciding",
                                    ![e].report = "alternative_recommended"]
        PROVE  LateSoFar(e)'
    <3>1. call'[e] = [call[e] EXCEPT !.pc = "deciding",
                                     !.report = "alternative_recommended"]
      BY <1>2, <2>1
    <3> QED BY <1>3, <1>13, <3>1, AskStep DEF Verify, Frame
  <2>2. ASSUME NEW pc \in {"between", "deciding", "budgeting"},
               pc = "budgeting" => call[e].relaxed,
               call' = [call EXCEPT ![e].left = @ - 1, ![e].pc = pc]
        PROVE  LateSoFar(e)'
    <3>1. call'[e] = [call[e] EXCEPT !.left = @ - 1, !.pc = pc]
      BY <1>2, <2>2
    <3> QED BY <1>3, <1>13, <2>2, <3>1, AskStep DEF Verify, Frame
  <2> QED BY <1>13, <2>1, <2>2 DEF Verify
<1>14. CASE Between(e)
  BY <1>5, <1>14 DEF Between, At, Points
<1>15. CASE Decide(e)
  BY <1>5, <1>6, <1>15 DEF Decide, At, Points
<1>16. CASE ConcludeRecommended(e)
  BY <1>6, <1>16 DEF ConcludeRecommended, At
<1>17. CASE RequestFails(e)
  <2>1. call'[e] = [call[e] EXCEPT !.pc = "failed"]
    BY <1>2, <1>17 DEF RequestFails, Goto
  <2> QED BY <1>3, <1>17, <2>1, AskStep DEF RequestFails, Frame
<1> QED
  BY <1>7, <1>8, <1>9, <1>10, <1>11, <1>12, <1>13, <1>14, <1>15, <1>16, <1>17 DEF Step

(* However many wakes overlap, an evaluation whose candidates are not relaxed
   sends at most two requests to Atlas once a newer wake is in the log. *)
THEOREM EvaluationsAbandonSoon == Spec => []AbandonsSoon
<1>1. Init => LateInv
  BY EvaluationAssumption DEF Init, LateInv, LateSoFar, TypeInv, TypeOK, FramesSound,
     Sound, NewFrame, Frame, Points, Reports, Answers
<1>2. LateInv => AbandonsSoon
  BY DEF LateInv, LateSoFar, AbandonsSoon
<1> QED BY <1>1, <1>2, LateStep, PTL DEF Spec

-------------------------------------------------------------------------------
(* EvaluationsAdvance.  What Left is at each point, once for all actions. *)

LEMMA LeftAt ==
  ASSUME NEW g \in Frame
  PROVE  LET requests == 4 * (IF g.searched THEN g.left ELSE MaxCandidates + 1)
             whole == 4 * (MaxCandidates + 1)
         IN /\ g.pc = "idle" => Left(g) = whole + 12
            /\ g.pc = "waking" => Left(g) = whole + 11
            /\ g.pc = "judging" => Left(g) = whole + 10
            /\ g.pc = "announcing" /\ g.report = "objective_violated" =>
                 Left(g) = whole + 9
            /\ g.pc = "announcing" /\ g.report # "objective_violated" => Left(g) = 1
            /\ g.pc = "checking" => Left(g) = whole + 8
            /\ g.pc = "between" => Left(g) = requests + 8
            /\ g.pc = "budgeting" => Left(g) = requests + 7
            /\ g.pc = "spending" => Left(g) = requests + 6
            /\ g.pc = "asking" => Left(g) = requests + 5
            /\ g.pc = "deciding" => Left(g) = 4
            /\ g.pc = "recommending" => Left(g) = 3
            /\ g.pc = "concluding" => Left(g) = 2
            /\ g.pc \in {"returned", "failed"} => Left(g) = 0
BY DEF Left

(* A call that moves on: the points it may come from and go to. *)
LEMMA MovesOn ==
  ASSUME NEW g \in Frame, NEW h \in Frame, Sound(g),
         g.searched = h.searched, g.left = h.left,
         \/ g.pc = "idle" /\ h.pc = "waking"
         \/ g.pc = "waking" /\ h.pc = "judging"
         \/ g.pc \in {"waking", "judging"} /\ h.pc \in {"announcing", "returned"}
         \/ g.pc = "checking" /\ h.pc = "budgeting"
         \/ g.pc = "budgeting" /\ h.pc \in {"spending", "deciding"}
         \/ g.pc = "spending" /\ h.pc = "asking"
         \/ g.pc = "asking" /\ h.pc = "deciding"
         \/ g.pc = "between" /\ h.pc \in {"budgeting", "deciding"}
         \/ g.pc = "deciding" /\ h.pc = "recommending"
         \/ g.pc = "recommending" /\ h.pc = "concluding"
         \/ /\ g.pc \in {"checking", "deciding", "concluding"}
            /\ h.pc = "announcing" /\ h.report # "objective_violated"
         \/ /\ g.pc = "announcing" /\ g.report # "objective_violated"
            /\ h.pc = "returned"
         \/ /\ g.pc = "announcing" /\ g.report = "objective_violated"
            /\ h.pc = "checking"
         \/ g.pc \notin {"idle", "returned", "failed"} /\ h.pc = "failed"
  PROVE  Left(h) < Left(g)
<1>1. /\ g.left \in Nat /\ MaxCandidates \in Nat /\ MaxCandidates > 0
      /\ g.searched \in BOOLEAN /\ g.pc \in Points
  BY EvaluationAssumption DEF Frame
<1> DEFINE whole == 4 * (MaxCandidates + 1)
           requests == 4 * (IF g.searched THEN g.left ELSE MaxCandidates + 1)
<1>2. whole \in Nat /\ requests \in Nat
  BY <1>1
<1>3. CASE g.pc \in {"idle", "waking", "judging"}
  BY <1>1, <1>3, LeftAt
<1>4. CASE g.pc = "announcing"
  BY <1>1, <1>4, LeftAt
<1>5. CASE g.pc = "checking"
  <2>1. ~ g.searched
    BY <1>1, <1>5 DEF Sound
  <2> QED BY <1>1, <1>5, <2>1, LeftAt
<1>6. CASE g.pc \in {"budgeting", "spending", "asking", "between"}
  <2>1. /\ g.pc = "between" => Left(g) = requests + 8
        /\ g.pc = "budgeting" => Left(g) = requests + 7
        /\ g.pc = "spending" => Left(g) = requests + 6
        /\ g.pc = "asking" => Left(g) = requests + 5
    BY LeftAt
  <2>2. /\ h.pc = "budgeting" => Left(h) = requests + 7
        /\ h.pc = "spending" => Left(h) = requests + 6
        /\ h.pc = "asking" => Left(h) = requests + 5
        /\ h.pc = "deciding" => Left(h) = 4
        /\ h.pc = "failed" => Left(h) = 0
    BY LeftAt
  <2> HIDE DEF requests
  <2> QED BY <1>2, <1>6, <2>1, <2>2
<1>7. CASE g.pc \in {"deciding", "recommending", "concluding"}
  BY <1>1, <1>7, LeftAt
<1> QED BY <1>1, <1>3, <1>4, <1>5, <1>6, <1>7 DEF Points

LEMMA AdvanceStep ==
  ASSUME TypeInv, NEW e \in Evaluations,
         AppendWake(e) \/ Step(e) \/ RequestFails(e) \/ CallFails(e)
  PROVE  /\ Left(call'[e]) < Left(call[e])
         /\ \A f \in Evaluations \ {e} : call'[f] = call[f]
<1>1. TypeInv'
  BY TypeStep DEF Next
<1>2. /\ call \in [Evaluations -> Frame] /\ call[e] \in Frame /\ Sound(call[e])
      /\ call'[e] \in Frame
  BY <1>1 DEF TypeInv, TypeOK, FramesSound
<1>3. \A f \in Evaluations \ {e} : call'[f] = call[f]
  BY <1>2 DEF AppendWake, Step, SaveEvaluation, Judge, Announce, Check,
     ReadBudget, WriteBudget, Search, Verify, Between, Decide,
     SaveRecommendation, ConcludeRecommended, Conclude, Goto, RequestFails, CallFails
<1> SUFFICES Left(call'[e]) < Left(call[e])
  BY <1>3
<1> DEFINE g == call[e]
           h == call'[e]
<1>4. ASSUME NEW pc, Goto(e, pc)
      PROVE  /\ h.pc = pc /\ h.searched = g.searched /\ h.left = g.left
             /\ h.report = g.report
  <2>1. h = [g EXCEPT !.pc = pc]
    BY <1>2, <1>4 DEF Goto
  <2> QED BY <1>2, <2>1 DEF Frame
<1>5. ASSUME NEW status, NEW report, Conclude(e, status, report)
      PROVE  /\ h.pc = "announcing" /\ h.searched = g.searched /\ h.left = g.left
             /\ h.report = report
  <2>1. h = [g EXCEPT !.pc = "announcing", !.report = report]
    BY <1>2, <1>5 DEF Conclude
  <2> QED BY <1>2, <2>1 DEF Frame
<1>6. CASE AppendWake(e) \/ SaveEvaluation(e) \/ CallFails(e) \/ RequestFails(e)
           \/ SaveRecommendation(e) \/ Announce(e) \/ WriteBudget(e) \/ Between(e)
  BY <1>2, <1>4, <1>6, MovesOn
     DEF AppendWake, SaveEvaluation, CallFails, RequestFails, Ask,
         SaveRecommendation, Announce, WriteBudget, Between, At
<1>7. CASE Judge(e)
  BY <1>2, <1>4, <1>5, <1>7, MovesOn DEF Judge, At
<1>8. CASE Decide(e)
  BY <1>2, <1>4, <1>5, <1>8, MovesOn DEF Decide, At
<1>9. CASE ConcludeRecommended(e)
  BY <1>2, <1>5, <1>9, MovesOn DEF ConcludeRecommended, At
<1>10. CASE Check(e)
  <2>1. ASSUME ~ Superseded(e)
        PROVE  h.pc = "budgeting" /\ h.searched = g.searched /\ h.left = g.left
    <3>1. h = [g EXCEPT !.pc = "budgeting", !.report = "no_alternative_found"]
      BY <1>2, <1>10, <2>1 DEF Check
    <3> QED BY <1>2, <3>1 DEF Frame
  <2> QED BY <1>2, <1>5, <1>10, <2>1, MovesOn DEF Check, At
<1>11. CASE ReadBudget(e)
  <2>1. ASSUME call' = [call EXCEPT ![e].pc = "spending", ![e].before = budget]
        PROVE  h.pc = "spending" /\ h.searched = g.searched /\ h.left = g.left
    <3>1. h = [g EXCEPT !.pc = "spending", !.before = budget]
      BY <1>2, <2>1
    <3> QED BY <1>2, <3>1 DEF Frame
  <2> QED BY <1>2, <1>4, <1>11, <2>1, MovesOn DEF ReadBudget, At
<1>12. CASE Search(e)
  <2>1. g.pc = "asking" /\ ~ g.searched /\ Left(g) = 4 * (MaxCandidates + 1) + 5
    BY <1>2, <1>12, LeftAt DEF Search, Ask, At
  <2>2. ASSUME call' = [call EXCEPT ![e].pc = "deciding", ![e].searched = TRUE]
        PROVE  Left(h) < Left(g)
    <3>1. h = [g EXCEPT !.pc = "deciding", !.searched = TRUE]
      BY <1>2, <2>2
    <3>2. Left(h) = 4
      BY <1>2, <3>1, LeftAt DEF Frame
    <3> QED BY <2>1, <3>2, EvaluationAssumption
  <2>3. ASSUME NEW n \in 1..MaxCandidates, NEW relaxed \in BOOLEAN,
               call' = [call EXCEPT ![e].pc = "budgeting", ![e].searched = TRUE,
                                    ![e].left = n, ![e].relaxed = relaxed]
        PROVE  Left(h) < Left(g)
    <3>1. h = [g EXCEPT !.pc = "budgeting", !.searched = TRUE,
                        !.left = n, !.relaxed = relaxed]
      BY <1>2, <2>3
    <3>2. h.pc = "budgeting" /\ h.searched /\ h.left = n
      BY <1>2, <3>1 DEF Frame
    <3>3. Left(h) = 4 * n + 7
      BY <1>2, <3>2, LeftAt
    <3> QED BY <2>1, <3>3, EvaluationAssumption
  <2> QED BY <1>12, <2>2, <2>3 DEF Search
<1>13. CASE Verify(e)
  <2>1. /\ g.pc = "asking" /\ g.searched /\ Left(g) = 4 * g.left + 5
        /\ g.left \in 1..MaxCandidates
    BY <1>2, <1>13, LeftAt, EvaluationAssumption DEF Verify, Ask, At, Sound, Frame
  <2>2. ASSUME call' = [call EXCEPT ![e].pc = "deciding",
                                    ![e].report = "alternative_recommended"]
        PROVE  Left(h) < Left(g)
    <3>1. h = [g EXCEPT !.pc = "deciding", !.report = "alternative_recommended"]
      BY <1>2, <2>2
    <3>2. Left(h) = 4
      BY <1>2, <3>1, LeftAt DEF Frame
    <3> QED BY <2>1, <3>2, EvaluationAssumption
  <2>3. ASSUME NEW pc \in {"between", "deciding", "budgeting"},
               call' = [call EXCEPT ![e].left = @ - 1, ![e].pc = pc]
        PROVE  Left(h) < Left(g)
    <3>1. h = [g EXCEPT !.left = @ - 1, !.pc = pc]
      BY <1>2, <2>3
    <3>2. h.pc = pc /\ h.searched /\ h.left = g.left - 1
      BY <1>2, <2>1, <3>1 DEF Frame
    <3>3. Left(h) \in {4 * (g.left - 1) + 8, 4 * (g.left - 1) + 7, 4}
      BY <1>2, <3>2, LeftAt
    <3> QED BY <2>1, <3>3, EvaluationAssumption
  <2> QED BY <1>13, <2>2, <2>3 DEF Verify
<1> QED
  BY <1>6, <1>7, <1>8, <1>9, <1>10, <1>11, <1>12, <1>13 DEF Step

(* Every step of every behaviour brings one call of evaluate_wake nearer to its
   end and leaves the others where they are: no evaluation loops. *)
THEOREM EvaluationsEnd == Spec => EvaluationsAdvance
<1>1. TypeInv /\ [Next]_vars =>
        [\E e \in Evaluations :
           /\ Left(call'[e]) < Left(call[e])
           /\ \A f \in Evaluations \ {e} : call'[f] = call[f]]_vars
  BY AdvanceStep DEF Next
<1> QED BY <1>1, TypeInvHolds, PTL DEF Spec, EvaluationsAdvance

-------------------------------------------------------------------------------
(* ReturnsAnswered.  A call gives way only when the log holds a newer wake, so
   it has its excuse before it states that it is superseded; and the log never
   loses an answer or a wake. *)

Newer(e) == \E f \in Evaluations : WokenBefore(e, f)

AnswerInv ==
  /\ TypeInv
  /\ \A e \in Evaluations :
       /\ At(e, "announcing") /\ call[e].report = "superseded" => Newer(e)
       /\ At(e, "returned") => AnsweredOrNewer(e)

LEMMA GivesWay ==
  ASSUME TypeOK, NEW e \in Evaluations, Superseded(e)
  PROVE  Newer(e)
<1>1. PICK i, j \in DOMAIN events :
        IsWake(i) /\ events[i].of = e /\ IsWake(j) /\ j > i
  BY DEF Superseded
<1>2. /\ events[j] \in Event
      /\ i \in Nat /\ j \in Nat
  BY <1>1 DEF TypeOK
<1>3. events[j].of \in Evaluations
  BY <1>2 DEF Event
<1> QED BY <1>1, <1>2, <1>3 DEF Newer, WokenBefore

(* An event stays at its place in the log. *)
LEMMA EventsStay ==
  ASSUME TypeInv, [Next]_vars
  PROVE  /\ DOMAIN events \subseteq DOMAIN events'
         /\ \A i \in DOMAIN events : events'[i] = events[i]
<1>1. CASE events' = events
  BY <1>1
<1>2. ASSUME NEW event \in Event, events' = Append(events, event)
      PROVE  /\ DOMAIN events \subseteq DOMAIN events'
             /\ \A i \in DOMAIN events : events'[i] = events[i]
  BY <1>2 DEF TypeInv, TypeOK
<1> QED BY <1>1, <1>2, LogAppends

LEMMA ExcusesStay ==
  ASSUME TypeInv, [Next]_vars, NEW e \in Evaluations
  PROVE  /\ Newer(e) => Newer(e)'
         /\ Answered(e) => Answered(e)'
<1>1. Newer(e) => Newer(e)'
  BY EventsStay DEF Newer, WokenBefore, IsWake
<1>2. Answered(e) => Answered(e)'
  BY EventsStay DEF Answered
<1> QED BY <1>1, <1>2

LEMMA AnswerStep == AnswerInv /\ [Next]_vars => AnswerInv'
<1> SUFFICES ASSUME AnswerInv, [Next]_vars, NEW f \in Evaluations
             PROVE  /\ (At(f, "announcing") /\ call[f].report = "superseded" => Newer(f))'
                    /\ (At(f, "returned") => AnsweredOrNewer(f))'
  BY TypeStep DEF AnswerInv
<1>1. /\ Newer(f) => Newer(f)'
      /\ Answered(f) => Answered(f)'
      /\ Superseded(f) => Newer(f)
  BY ExcusesStay, GivesWay DEF AnswerInv, TypeInv
<1>2. ASSUME call'[f] = call[f], row'[f] = row[f]
      PROVE  /\ (At(f, "announcing") /\ call[f].report = "superseded" => Newer(f))'
             /\ (At(f, "returned") => AnsweredOrNewer(f))'
  <2>1. /\ At(f, "announcing") /\ call[f].report = "superseded" => Newer(f)
        /\ At(f, "returned") => AnsweredOrNewer(f)
    BY DEF AnswerInv
  <2>2. AnsweredOrNewer(f) => AnsweredOrNewer(f)'
    BY <1>1, <1>2 DEF AnsweredOrNewer, Newer
  <2> QED BY <1>1, <1>2, <2>1, <2>2 DEF At
<1>3. CASE UNCHANGED vars
  BY <1>2, <1>3 DEF vars
<1> SUFFICES ASSUME NEW e \in Evaluations,
                    AppendWake(e) \/ Step(e) \/ RequestFails(e) \/ CallFails(e)
             PROVE  /\ (At(f, "announcing") /\ call[f].report = "superseded" => Newer(f))'
                    /\ (At(f, "returned") => AnsweredOrNewer(f))'
  BY <1>3 DEF Next
<1>4. call \in [Evaluations -> Frame] /\ row \in [Evaluations -> EvaluationStatus \union {"none"}]
  BY DEF AnswerInv, TypeInv, TypeOK
<1>5. CASE f # e
  <2>1. call'[f] = call[f]
    BY <1>4, <1>5, AdvanceStep DEF AnswerInv
  <2>2. row'[f] = row[f]
    BY <1>4, <1>5 DEF AppendWake, Step, SaveEvaluation, Judge, Announce, Check,
       ReadBudget, WriteBudget, Search, Verify, Between, Decide,
       SaveRecommendation, ConcludeRecommended, Conclude, RequestFails, CallFails, Ask
  <2> QED BY <1>2, <2>1, <2>2
<1>6. SUFFICES /\ (At(e, "announcing") /\ call[e].report = "superseded" => Newer(e))'
               /\ (At(e, "returned") => AnsweredOrNewer(e))'
  BY <1>5, <1>6
<1>7. call[e] \in Frame /\ (Superseded(e) => Newer(e)')
  BY <1>1, <1>4, ExcusesStay, GivesWay DEF AnswerInv, TypeInv
<1>8. ASSUME call'[e].pc \notin {"announcing", "returned"}
      PROVE  /\ (At(e, "announcing") /\ call[e].report = "superseded" => Newer(e))'
             /\ (At(e, "returned") => AnsweredOrNewer(e))'
  BY <1>8 DEF At
<1>9. ASSUME NEW pc, Goto(e, pc), pc \notin {"announcing", "returned"}
      PROVE  call'[e].pc \notin {"announcing", "returned"}
  BY <1>4, <1>9 DEF Goto, Frame
<1>10. ASSUME NEW status, NEW report, Conclude(e, status, report),
              report = "superseded" => Superseded(e)
       PROVE  /\ (At(e, "announcing") /\ call[e].report = "superseded" => Newer(e))'
              /\ (At(e, "returned") => AnsweredOrNewer(e))'
  <2>1. call'[e] = [call[e] EXCEPT !.pc = "announcing", !.report = report]
    BY <1>4, <1>10 DEF Conclude
  <2>2. call'[e].pc = "announcing" /\ call'[e].report = report
    BY <1>7, <2>1 DEF Frame
  <2> QED BY <1>7, <1>10, <2>2 DEF At
<1>11. CASE AppendWake(e) \/ SaveEvaluation(e) \/ CallFails(e) \/ RequestFails(e)
            \/ SaveRecommendation(e) \/ WriteBudget(e) \/ Between(e)
  BY <1>8, <1>9, <1>11
     DEF AppendWake, SaveEvaluation, CallFails, RequestFails,
         SaveRecommendation, WriteBudget, Between
<1>12. CASE Judge(e)
  <2>1. ASSUME row' = [row EXCEPT ![e] = "INERT_PAST_DEPARTURE"], Goto(e, "returned")
        PROVE  /\ (At(e, "announcing") /\ call[e].report = "superseded" => Newer(e))'
               /\ (At(e, "returned") => AnsweredOrNewer(e))'
    <3>1. call'[e].pc = "returned" /\ row'[e] = "INERT_PAST_DEPARTURE"
      BY <1>4, <2>1 DEF Goto, Frame
    <3> QED BY <3>1 DEF At, AnsweredOrNewer
  <2> QED BY <1>10, <1>12, <2>1 DEF Judge
<1>13. CASE Announce(e)
  <2>1. CASE call[e].report = "objective_violated"
    BY <1>8, <1>9, <1>13, <2>1 DEF Announce
  <2>2. CASE call[e].report # "objective_violated"
    <3>1. call'[e].pc = "returned"
      BY <1>4, <1>13, <2>2 DEF Announce, Goto, Frame
    <3>2. CASE call[e].report = "superseded"
      <4>1. Newer(e)
        BY <1>13, <3>2 DEF AnswerInv, Announce
      <4> QED BY <1>1, <3>1, <4>1, ExcusesStay DEF AnswerInv, At, AnsweredOrNewer, Newer
    <3>3. CASE call[e].report \in Answers
      <4> DEFINE n == Len(events) + 1
      <4>1. n \in DOMAIN events' /\ events'[n] = [type |-> call[e].report, of |-> e]
        BY <1>13 DEF Announce, AnswerInv, TypeInv, TypeOK
      <4>2. Answered(e)'
        BY <3>3, <4>1 DEF Answered
      <4> QED BY <3>1, <4>2 DEF At, AnsweredOrNewer
    <3> QED BY <1>7, <2>2, <3>2, <3>3 DEF Frame, Reports
  <2> QED BY <2>1, <2>2
<1>14. CASE Check(e)
  <2>1. ASSUME ~ Superseded(e) PROVE call'[e].pc = "budgeting"
    <3>1. call'[e] = [call[e] EXCEPT !.pc = "budgeting", !.report = "no_alternative_found"]
      BY <1>4, <1>14, <2>1 DEF Check
    <3> QED BY <1>7, <3>1 DEF Frame
  <2> QED BY <1>8, <1>10, <1>14, <2>1 DEF Check
<1>15. CASE ReadBudget(e)
  <2>1. ASSUME call' = [call EXCEPT ![e].pc = "spending", ![e].before = budget]
        PROVE  call'[e].pc = "spending"
    <3>1. call'[e] = [call[e] EXCEPT !.pc = "spending", !.before = budget]
      BY <1>4, <2>1
    <3> QED BY <1>7, <3>1 DEF Frame
  <2> QED BY <1>8, <1>9, <1>15, <2>1 DEF ReadBudget
<1>16. CASE Search(e)
  <2>1. ASSUME call' = [call EXCEPT ![e].pc = "deciding", ![e].searched = TRUE]
        PROVE  call'[e].pc = "deciding"
    <3>1. call'[e] = [call[e] EXCEPT !.pc = "deciding", !.searched = TRUE]
      BY <1>4, <2>1
    <3> QED BY <1>7, <3>1 DEF Frame
  <2>2. ASSUME NEW n \in 1..MaxCandidates, NEW relaxed \in BOOLEAN,
               call' = [call EXCEPT ![e].pc = "budgeting", ![e].searched = TRUE,
                                    ![e].left = n, ![e].relaxed = relaxed]
        PROVE  call'[e].pc = "budgeting"
    <3>1. call'[e] = [call[e] EXCEPT !.pc = "budgeting", !.searched = TRUE,
                                     !.left = n, !.relaxed = relaxed]
      BY <1>4, <2>2
    <3> QED BY <1>7, <3>1 DEF Frame
  <2> QED BY <1>8, <1>16, <2>1, <2>2 DEF Search
<1>17. CASE Verify(e)
  <2>1. ASSUME call' = [call EXCEPT ![e].pc = "deciding",
                                    ![e].report = "alternative_recommended"]
        PROVE  call'[e].pc = "deciding"
    <3>1. call'[e] = [call[e] EXCEPT !.pc = "deciding",
                                     !.report = "alternative_recommended"]
      BY <1>4, <2>1
    <3> QED BY <1>7, <3>1 DEF Frame
  <2>2. ASSUME NEW pc \in {"between", "deciding", "budgeting"},
               call' = [call EXCEPT ![e].left = @ - 1, ![e].pc = pc]
        PROVE  call'[e].pc = pc
    <3>1. call'[e] = [call[e] EXCEPT !.left = @ - 1, !.pc = pc]
      BY <1>4, <2>2
    <3> QED BY <1>7, <3>1 DEF Frame
  <2> QED BY <1>8, <1>17, <2>1, <2>2 DEF Verify
<1>18. CASE Decide(e)
  BY <1>8, <1>9, <1>10, <1>18 DEF Decide
<1>19. CASE ConcludeRecommended(e)
  BY <1>10, <1>19 DEF ConcludeRecommended
<1> QED
  BY <1>11, <1>12, <1>13, <1>14, <1>15, <1>16, <1>17, <1>18, <1>19 DEF Step

(* evaluate_wake never returns and owes the answer: a call that returned has
   reported, found its journey departed, or left a newer wake in the log. *)
THEOREM ReturnedCallsAnswered == Spec => []ReturnsAnswered
<1>1. Init => AnswerInv
  BY EvaluationAssumption DEF Init, AnswerInv, TypeInv, TypeOK, FramesSound,
     Sound, NewFrame, Frame, Points, Reports, Answers, At
<1>2. AnswerInv => ReturnsAnswered
  BY DEF AnswerInv, ReturnsAnswered
<1> QED BY <1>1, <1>2, AnswerStep, PTL DEF Spec
=============================================================================
