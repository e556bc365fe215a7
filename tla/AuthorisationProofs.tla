-------------------------- MODULE AuthorisationProofs --------------------------
(***************************************************************************)
(* Proofs about Authorisation for every set of actions, prices and         *)
(* recorders and logs of every length.                                     *)
(***************************************************************************)
EXTENDS Authorisation, TLAPS

(* What one append does to the log as its readers see it. *)
LEMMA AppendFacts ==
  ASSUME TypeOK, NEW e \in Requested \union Outcome \union Voided, Append1(e)
  PROVE  /\ Len(log') = Len(log) + 1
         /\ Len(log) \in Nat
         /\ Len(log') <= MaxEvents
         /\ log' \in Seq(Requested \union Outcome \union Voided)
         /\ \A i \in 1..Len(log) : log'[i] = log[i]
         /\ log'[Len(log) + 1] = e
  BY ConstantsAssumption DEF TypeOK, Append1

(* Each frame that owes an append owes a well-formed event. *)
LEMMA FrameFacts ==
  ASSUME TypeOK
  PROVE  /\ \A a \in Actions : engine[a].pc = "voiding" =>
              /\ engine[a].request \in Ids
              /\ engine[a].next \in {"idle", "asking"}
              /\ engine[a].next = "asking" => engine[a].cost \in Costs
         /\ \A a \in Actions : engine[a].pc = "asking" =>
              engine[a].cost \in Costs
         /\ \A r \in Recorders : recorder[r].pc = "answering" =>
              recorder[r].request \in Ids /\ recorder[r].answer \in Answers
  BY DEF TypeOK, Frame, Pending

LEMMA TypeStep == TypeOK /\ [Next]_vars => TypeOK'
<1> SUFFICES ASSUME TypeOK, [Next]_vars PROVE TypeOK'
  OBVIOUS
<1> USE ConstantsAssumption
<1>1. ASSUME NEW a \in Actions, NEW c \in Costs, EnforceAuthorised(a, c)
      PROVE  TypeOK'
  BY <1>1 DEF TypeOK, EnforceAuthorised, Frame
<1>2. ASSUME NEW a \in Actions, NEW c \in Costs, RequestIfRequired(a, c)
      PROVE  TypeOK'
  BY <1>2 DEF TypeOK, RequestIfRequired, Frame
<1>3. ASSUME NEW a \in Actions, AppendVoided(a) PROVE TypeOK'
  <2> DEFINE e == [type |-> "voided", request |-> engine[a].request]
  <2>1. e \in Voided
    BY <1>3, FrameFacts DEF AppendVoided, Voided
  <2>2. engine' \in [Actions -> Frame]
    BY <1>3, FrameFacts DEF TypeOK, AppendVoided, Frame, Idle
  <2> QED BY <1>3, <2>1, <2>2, AppendFacts DEF TypeOK, AppendVoided
<1>4. ASSUME NEW a \in Actions, AppendRequested(a) PROVE TypeOK'
  <2> DEFINE e == [type |-> "requested", action |-> a, cost |-> engine[a].cost]
  <2>1. e \in Requested
    BY <1>4, FrameFacts DEF AppendRequested, Requested
  <2>2. engine' \in [Actions -> Frame]
    BY <1>4 DEF TypeOK, AppendRequested, Frame, Idle
  <2> QED BY <1>4, <2>1, <2>2, AppendFacts DEF TypeOK, AppendRequested
<1>10. ASSUME NEW a \in Actions, AppendUnpriced(a) PROVE TypeOK'
  <2> DEFINE e == [type |-> "requested", action |-> a, cost |-> NoCost]
  <2>1. e \in Requested
    BY DEF Requested
  <2> QED BY <1>10, <2>1, AppendFacts DEF TypeOK, AppendUnpriced
<1>5. ASSUME NEW a \in Actions, EngineFails(a) PROVE TypeOK'
  BY <1>5 DEF TypeOK, EngineFails, Frame, Idle
<1>6. ASSUME NEW r \in Recorders, NEW q \in Ids, NEW answer \in Answers,
             RecordAuthOutcome(r, q, answer)
      PROVE  TypeOK'
  BY <1>6 DEF TypeOK, RecordAuthOutcome, Pending
<1>7. ASSUME NEW r \in Recorders, AppendOutcome(r) PROVE TypeOK'
  <2> DEFINE e == [type |-> "outcome", request |-> recorder[r].request,
                   outcome |-> recorder[r].answer, by |-> r]
  <2>1. e \in Outcome
    BY <1>7, FrameFacts DEF AppendOutcome, Outcome
  <2>2. recorder' \in [Recorders -> Pending]
    BY <1>7 DEF TypeOK, AppendOutcome, Pending, Idle
  <2> QED BY <1>7, <2>1, <2>2, AppendFacts DEF TypeOK, AppendOutcome
<1>8. ASSUME NEW r \in Recorders, RecorderFails(r) PROVE TypeOK'
  BY <1>8 DEF TypeOK, RecorderFails, Pending, Idle
<1>9. CASE UNCHANGED vars
  BY <1>9 DEF TypeOK, vars
<1> QED BY <1>1, <1>2, <1>3, <1>4, <1>5, <1>6, <1>7, <1>8, <1>9, <1>10 DEF Next

(* Every reachable state is well formed: an engine or recorder call between its
   read and its append always owes an event the log accepts. *)
THEOREM TypeCorrect == Spec => []TypeOK
<1>1. Init => TypeOK
  BY ConstantsAssumption DEF Init, TypeOK, Frame, Pending, Idle
<1> QED BY <1>1, TypeStep, PTL DEF Spec

-------------------------------------------------------------------------------
(* The invariant behind the safety theorems.  A process about to answer a
   request has not answered it yet, so the outcome it is about to append is its
   first: another process may have answered in between, this one not. *)

OutcomesFollowRequests ==
  \A k \in Events("outcome") :
    log[k].request \in Events("requested") /\ log[k].request < k

AnswerIsFirst ==
  \A r \in Recorders : recorder[r].pc = "answering" =>
    /\ recorder[r].request \in Events("requested")
    /\ \A k \in Outcomes(recorder[r].request) : log[k].by # r

(* A call about to void does so for a grant of its own action, unvoided. *)
VoiderJustified ==
  \A a \in Actions : engine[a].pc = "voiding" =>
    /\ engine[a].request \in Requests(a)
    /\ Voids(engine[a].request) = {}
    /\ \E k \in Outcomes(engine[a].request) : log[k].outcome = "approved"

VoidInv == TypeOK /\ VoiderJustified /\ VoidsAreOfGrants

AnswerInv ==
  TypeOK /\ OutcomesFollowRequests /\ AnswerIsFirst /\ OneAnswerEach
    /\ PermitsHonourAnswers

(* How the readers of the log see an append of event e. *)
LEMMA ReadersAfterAppend ==
  ASSUME TypeOK, NEW e \in Requested \union Outcome \union Voided, Append1(e)
  PROVE  /\ \A t : Events(t)' =
              Events(t) \union {i \in {Len(log) + 1} : e.type = t}
         /\ \A a : Requests(a)' = Requests(a) \union
              {i \in {Len(log) + 1} : e.type = "requested" /\ e.action = a}
         /\ \A q : Outcomes(q)' = Outcomes(q) \union
              {i \in {Len(log) + 1} : e.type = "outcome" /\ e.request = q}
         /\ \A q : Voids(q)' = Voids(q) \union
              {i \in {Len(log) + 1} : e.type = "voided" /\ e.request = q}
         /\ \A t : \A i \in Events(t) : log'[i] = log[i] /\ i < Len(log) + 1
<1>1. /\ Len(log') = Len(log) + 1 /\ Len(log) \in Nat
      /\ \A i \in 1..Len(log) : log'[i] = log[i]
      /\ log'[Len(log) + 1] = e
  BY AppendFacts
<1>2. \A t : Events(t)' = Events(t) \union {i \in {Len(log) + 1} : e.type = t}
  BY <1>1 DEF Events
<1>3. \A t : \A i \in Events(t) : i \in 1..Len(log)
  BY DEF Events
<1>4. \A a : Requests(a)' = Requests(a) \union
        {i \in {Len(log) + 1} : e.type = "requested" /\ e.action = a}
  BY <1>1, <1>2, <1>3 DEF Requests
<1>5. \A q : Outcomes(q)' = Outcomes(q) \union
        {i \in {Len(log) + 1} : e.type = "outcome" /\ e.request = q}
  BY <1>1, <1>2, <1>3 DEF Outcomes
<1>6. \A q : Voids(q)' = Voids(q) \union
        {i \in {Len(log) + 1} : e.type = "voided" /\ e.request = q}
  BY <1>1, <1>2, <1>3 DEF Voids
<1> QED BY <1>1, <1>2, <1>3, <1>4, <1>5, <1>6

(* A step that leaves the log alone leaves every reader's view alone. *)
LEMMA ReadersUnchanged ==
  ASSUME UNCHANGED log
  PROVE  /\ \A t : Events(t)' = Events(t)
         /\ \A a : Requests(a)' = Requests(a)
         /\ \A q : Outcomes(q)' = Outcomes(q)
         /\ \A q : Voids(q)' = Voids(q)
  BY DEF Events, Requests, Outcomes, Voids

(* Readers only see positions of the log. *)
LEMMA ReadersInLog ==
  /\ \A t : Events(t) \subseteq 1..Len(log)
  /\ \A a : Requests(a) \subseteq Events("requested")
  /\ \A q : Outcomes(q) \subseteq Events("outcome")
  /\ \A q : Voids(q) \subseteq Events("voided")
  BY DEF Events, Requests, Outcomes, Voids

-------------------------------------------------------------------------------
(* Voids. *)

(* A void that is owed is owed on a standing grant of that very action. *)
LEMMA VoidOwedFacts ==
  ASSUME NEW a, NEW c, NEW q, VoidOwed(a, c, q)
  PROVE  /\ q \in Requests(a) /\ Voids(q) = {}
         /\ \E k \in Outcomes(q) : log[k].outcome = "approved"
  BY DEF VoidOwed, Repriced, LatestRequestFor, IsLast, Approved

LEMMA VoidStep == VoidInv /\ [Next]_vars => VoidInv'
<1> SUFFICES ASSUME VoidInv, [Next]_vars PROVE VoidInv'
  OBVIOUS
<1> USE DEF VoidInv
<1>t. TypeOK'
  BY TypeStep
<1> DEFINE Quiet == /\ UNCHANGED log
                    /\ \A a \in Actions : engine'[a].pc = "voiding" =>
                         \/ engine'[a] = engine[a]
                         \/ \E c \in Costs : VoidOwed(a, c, engine'[a].request)
(* Steps that leave the log alone. *)
<1>q. ASSUME Quiet PROVE VoidInv'
  <2>1. VoiderJustified'
    BY <1>q, ReadersUnchanged, VoidOwedFacts DEF VoiderJustified
  <2>2. VoidsAreOfGrants'
    BY <1>q, ReadersUnchanged DEF VoidsAreOfGrants
  <2> QED BY <1>t, <2>1, <2>2
(* Steps that append an event other than a void. *)
<1>a. ASSUME NEW e \in Requested \union Outcome, Append1(e),
             \A a \in Actions : engine'[a].pc = "voiding" =>
               engine'[a] = engine[a]
      PROVE  VoidInv'
  <2>1. e.type # "voided"
    BY DEF Requested, Outcome
  <2>2. /\ \A q : Voids(q)' = Voids(q) /\ Outcomes(q) \subseteq Outcomes(q)'
        /\ \A b : Requests(b) \subseteq Requests(b)'
        /\ Events("voided")' = Events("voided")
        /\ \A t : \A i \in Events(t) : log'[i] = log[i]
    <3>1. \A q : Voids(q)' = Voids(q)
      <4>1. \A q : Voids(q)' = Voids(q) \union
              {i \in {Len(log) + 1} : e.type = "voided" /\ e.request = q}
        BY <1>a, ReadersAfterAppend
      <4> QED BY <4>1, <2>1
    <3>2. \A q : Outcomes(q) \subseteq Outcomes(q)'
      BY <1>a, ReadersAfterAppend
    <3>3. \A b : Requests(b) \subseteq Requests(b)'
      BY <1>a, ReadersAfterAppend
    <3>4. Events("voided")' = Events("voided")
      <4>1. Events("voided")' = Events("voided") \union
              {i \in {Len(log) + 1} : e.type = "voided"}
        BY <1>a, ReadersAfterAppend
      <4> QED BY <4>1, <2>1
    <3>5. \A t : \A i \in Events(t) : log'[i] = log[i]
      BY <1>a, ReadersAfterAppend
    <3> QED BY <3>1, <3>2, <3>3, <3>4, <3>5
  <2>3. VoiderJustified'
    BY <1>a, <2>2, ReadersInLog DEF VoiderJustified
  <2>4. VoidsAreOfGrants'
    <3> SUFFICES ASSUME NEW v \in Events("voided")
                 PROVE  (/\ Voids(log[v].request) = {v}
                         /\ \E k \in Outcomes(log[v].request) :
                              k < v /\ log[k].outcome = "approved")'
      BY <2>2 DEF VoidsAreOfGrants
    <3>1. PICK q : q = log[v].request /\ q = log'[v].request
      BY <2>2
    <3>2. PICK k \in Outcomes(q) : k < v /\ log[k].outcome = "approved"
      BY <3>1 DEF VoidsAreOfGrants
    <3>3. Voids(q) = {v}
      BY <3>1 DEF VoidsAreOfGrants
    <3>4. Voids(q)' = {v} /\ k \in Outcomes(q)' /\ log'[k].outcome = "approved"
      BY <2>2, <3>2, <3>3, ReadersInLog
    <3> QED BY <3>1, <3>2, <3>4
  <2> QED BY <1>t, <2>3, <2>4
<1>1. ASSUME NEW a \in Actions, NEW c \in Costs, EnforceAuthorised(a, c)
      PROVE  VoidInv'
  BY <1>1, <1>q DEF TypeOK, EnforceAuthorised
<1>2. ASSUME NEW a \in Actions, NEW c \in Costs, RequestIfRequired(a, c)
      PROVE  VoidInv'
  BY <1>2, <1>q DEF TypeOK, RequestIfRequired
<1>3. ASSUME NEW a \in Actions, AppendVoided(a) PROVE VoidInv'
  <2>q. PICK q \in Ids : q = engine[a].request
    BY <1>3, FrameFacts DEF AppendVoided
  <2> DEFINE e == [type |-> "voided", request |-> q]
  <2>1. e \in Voided /\ Append1(e)
    BY <1>3, <2>q DEF AppendVoided, Voided
  <2>2. /\ q \in Requests(a) /\ Voids(q) = {}
        /\ \E k \in Outcomes(q) : log[k].outcome = "approved"
    BY <1>3, <2>q DEF AppendVoided, VoiderJustified
  <2>3. \A b \in Actions : engine'[b].pc = "voiding" =>
          b # a /\ engine'[b] = engine[b]
    BY <1>3 DEF TypeOK, AppendVoided, Idle
  <2>4. VoiderJustified'
    <3> SUFFICES ASSUME NEW b \in Actions, engine'[b].pc = "voiding"
                 PROVE  (/\ engine[b].request \in Requests(b)
                         /\ Voids(engine[b].request) = {}
                         /\ \E k \in Outcomes(engine[b].request) :
                              log[k].outcome = "approved")'
      BY DEF VoiderJustified
    <3>1. PICK p : p = engine[b].request /\ p = engine'[b].request
      BY <2>3
    <3>2. /\ p \in Requests(b) /\ Voids(p) = {}
          /\ \E k \in Outcomes(p) : log[k].outcome = "approved"
      BY <2>3, <3>1 DEF VoiderJustified
    <3>3. p # q
      BY <2>2, <2>3, <3>2 DEF Requests
    <3>4. Voids(p)' = {} /\ p \in Requests(b)'
      BY <2>1, <3>2, <3>3, ReadersAfterAppend
    <3>5. \E k \in Outcomes(p)' : log'[k].outcome = "approved"
      BY <2>1, <3>2, ReadersAfterAppend, ReadersInLog
    <3> QED BY <3>1, <3>4, <3>5
  <2>5. VoidsAreOfGrants'
    <3> SUFFICES ASSUME NEW v \in Events("voided")'
                 PROVE  (/\ Voids(log[v].request) = {v}
                         /\ \E k \in Outcomes(log[v].request) :
                              k < v /\ log[k].outcome = "approved")'
      BY DEF VoidsAreOfGrants
    <3>1. CASE v \in Events("voided")
      <4>1. PICK p : p = log[v].request /\ p = log'[v].request
        BY <3>1, <2>1, ReadersAfterAppend
      <4>2. /\ Voids(p) = {v}
            /\ \E k \in Outcomes(p) : k < v /\ log[k].outcome = "approved"
        BY <3>1, <4>1 DEF VoidsAreOfGrants
      <4>3. p # q
        BY <4>2, <2>2
      <4>4. Voids(p)' = {v}
        BY <2>1, <4>2, <4>3, ReadersAfterAppend
      <4>5. \E k \in Outcomes(p)' : k < v /\ log'[k].outcome = "approved"
        BY <2>1, <4>2, ReadersAfterAppend, ReadersInLog
      <4> QED BY <4>1, <4>4, <4>5
    <3>2. CASE v = Len(log) + 1
      <4>1. log'[v] = e /\ Len(log) \in Nat
        BY <3>2, <2>1, AppendFacts
      <4>2. Voids(q)' = {v}
        BY <3>2, <2>1, <2>2, <4>1, ReadersAfterAppend
      <4>3. \A k \in Outcomes(q) : k < v /\ log'[k] = log[k] /\ k \in Outcomes(q)'
        BY <3>2, <4>1, <2>1, ReadersAfterAppend, ReadersInLog, AppendFacts
      <4>4. log'[v].request = q
        BY <4>1
      <4> QED BY <4>2, <4>3, <4>4, <2>2
    <3> QED BY <3>1, <3>2, <2>1, ReadersAfterAppend
  <2> QED BY <1>t, <2>4, <2>5
<1>4. ASSUME NEW a \in Actions, AppendRequested(a) PROVE VoidInv'
  <2> DEFINE e == [type |-> "requested", action |-> a, cost |-> engine[a].cost]
  <2>1. e \in Requested /\ Append1(e)
    BY <1>4, FrameFacts DEF AppendRequested, Requested
  <2>2. \A b \in Actions : engine'[b].pc = "voiding" => engine'[b] = engine[b]
    BY <1>4 DEF TypeOK, AppendRequested, Idle
  <2> QED BY <2>1, <2>2, <1>a
<1>10. ASSUME NEW a \in Actions, AppendUnpriced(a) PROVE VoidInv'
  <2> DEFINE e == [type |-> "requested", action |-> a, cost |-> NoCost]
  <2>1. e \in Requested /\ Append1(e)
    BY <1>10 DEF AppendUnpriced, Requested
  <2> QED BY <1>10, <2>1, <1>a DEF AppendUnpriced
<1>5. ASSUME NEW a \in Actions, EngineFails(a) PROVE VoidInv'
  BY <1>5, <1>q DEF TypeOK, EngineFails, Idle
<1>6. ASSUME NEW r \in Recorders, NEW q \in Ids, NEW answer \in Answers,
             RecordAuthOutcome(r, q, answer)
      PROVE  VoidInv'
  BY <1>6, <1>q DEF RecordAuthOutcome
<1>7. ASSUME NEW r \in Recorders, AppendOutcome(r) PROVE VoidInv'
  <2> DEFINE e == [type |-> "outcome", request |-> recorder[r].request,
                   outcome |-> recorder[r].answer, by |-> r]
  <2>1. e \in Outcome /\ Append1(e)
    BY <1>7, FrameFacts DEF AppendOutcome, Outcome
  <2> QED BY <1>7, <2>1, <1>a DEF AppendOutcome
<1>8. ASSUME NEW r \in Recorders, RecorderFails(r) PROVE VoidInv'
  BY <1>8, <1>q DEF RecorderFails
<1>9. CASE UNCHANGED vars
  BY <1>9, <1>q DEF vars
<1> QED BY <1>1, <1>2, <1>3, <1>4, <1>5, <1>6, <1>7, <1>8, <1>9, <1>10 DEF Next

(* A grant is voided at most once, and only after it was given, however many
   processes read and write the log at the same time. *)
THEOREM VoidsOnlyGrants == Spec => []VoidsAreOfGrants
<1>1. Init => VoidInv
  BY TypeCorrect, ConstantsAssumption
  DEF Init, VoidInv, TypeOK, Frame, Pending, Idle, VoiderJustified,
      VoidsAreOfGrants, Events
<1>2. VoidInv => VoidsAreOfGrants
  BY DEF VoidInv
<1> QED BY <1>1, <1>2, VoidStep, PTL DEF Spec

-------------------------------------------------------------------------------
(* Answers, from any number of processes. *)

(* When no process answers twice, a permission given now rests on an approval,
   and every refusal on record is of another process. *)
LEMMA StandingHonours ==
  ASSUME OneAnswerEach, NEW a, NEW c, NEW q, Standing(a, c, q)
  PROVE  /\ q \in Requests(a) /\ log[q].cost \in {c, NoCost}
         /\ \E k \in Outcomes(q) :
              /\ log[k].outcome = "approved"
              /\ \A j \in Outcomes(q) :
                   log[j].outcome = "refused" => log[j].by # log[k].by
<1>1. q \in Requests(a) /\ log[q].cost \in {c, NoCost}
  BY DEF Standing, LatestRequestFor, IsLast
<1>2. PICK k \in Outcomes(q) : log[k].outcome = "approved"
  BY DEF Standing, Approved
<1>3. ASSUME NEW j \in Outcomes(q), log[j].outcome = "refused"
      PROVE  log[j].by # log[k].by
  BY <1>2, <1>3 DEF OneAnswerEach, Outcomes
<1> QED BY <1>1, <1>2, <1>3

LEMMA AnswerStep == AnswerInv /\ [Next]_vars => AnswerInv'
<1> SUFFICES ASSUME AnswerInv, [Next]_vars PROVE AnswerInv'
  OBVIOUS
<1> USE DEF AnswerInv
<1>t. TypeOK'
  BY TypeStep
(* Steps that leave the log alone. *)
<1>q. ASSUME UNCHANGED log, AnswerIsFirst', PermitsHonourAnswers'
      PROVE  AnswerInv'
  <2>1. OutcomesFollowRequests' /\ OneAnswerEach'
    BY <1>q, ReadersUnchanged DEF OutcomesFollowRequests, OneAnswerEach
  <2> QED BY <1>q, <1>t, <2>1
<1>r. ASSUME UNCHANGED log,
             \A r \in Recorders : recorder'[r].pc = "answering" =>
               recorder'[r] = recorder[r]
      PROVE  AnswerIsFirst'
  BY <1>r, ReadersUnchanged DEF AnswerIsFirst
<1>p. ASSUME UNCHANGED <<log, permit>> PROVE PermitsHonourAnswers'
  BY <1>p, ReadersUnchanged DEF PermitsHonourAnswers
(* Steps that append an event other than an outcome. *)
<1>a. ASSUME NEW e \in Requested \union Voided, Append1(e),
             UNCHANGED <<recorder, permit>>
      PROVE  AnswerInv'
  <2>1. e.type # "outcome"
    BY DEF Requested, Voided
  <2>2. \A q : Outcomes(q)' = Outcomes(q)
    <3>1. \A q : Outcomes(q)' = Outcomes(q) \union
            {i \in {Len(log) + 1} : e.type = "outcome" /\ e.request = q}
      BY <1>a, ReadersAfterAppend
    <3> QED BY <3>1, <2>1
  <2>3. Events("outcome")' = Events("outcome")
    <3>1. Events("outcome")' = Events("outcome") \union
            {i \in {Len(log) + 1} : e.type = "outcome"}
      BY <1>a, ReadersAfterAppend
    <3> QED BY <3>1, <2>1
  <2>4. /\ Events("requested") \subseteq Events("requested")'
        /\ \A b : Requests(b) \subseteq Requests(b)'
    BY <1>a, ReadersAfterAppend
  <2>5. \A t : \A i \in Events(t) : log'[i] = log[i]
    BY <1>a, ReadersAfterAppend
  <2>6. OutcomesFollowRequests'
    BY <2>3, <2>4, <2>5 DEF OutcomesFollowRequests
  <2>7. AnswerIsFirst'
    BY <1>a, <2>2, <2>4, <2>5, ReadersInLog DEF AnswerIsFirst
  <2>8. OneAnswerEach'
    BY <2>3, <2>5 DEF OneAnswerEach
  <2>9. PermitsHonourAnswers'
    BY <1>a, <2>2, <2>4, <2>5, ReadersInLog DEF PermitsHonourAnswers
  <2> QED BY <1>t, <2>6, <2>7, <2>8, <2>9
<1>1. ASSUME NEW a \in Actions, NEW c \in Costs, EnforceAuthorised(a, c)
      PROVE  AnswerInv'
  <2>1. AnswerIsFirst'
    BY <1>1, <1>r DEF EnforceAuthorised
  <2>2. PermitsHonourAnswers'
    <3> SUFFICES ASSUME NEW p \in permit'
                 PROVE  /\ p.request \in Requests(p.action)
                        /\ log[p.request].cost \in {p.cost, NoCost}
                        /\ \E k \in Outcomes(p.request) :
                             /\ log[k].outcome = "approved"
                             /\ \A j \in Outcomes(p.request) :
                                  log[j].outcome = "refused" =>
                                    log[j].by # log[k].by
      BY <1>1, ReadersUnchanged DEF EnforceAuthorised, PermitsHonourAnswers
    <3>1. CASE p \in permit
      BY <3>1 DEF PermitsHonourAnswers
    <3>2. CASE p \notin permit
      <4>1. PICK q \in Ids :
              Standing(a, c, q) /\ p = [action |-> a, cost |-> c, request |-> q]
        BY <1>1, <3>2 DEF EnforceAuthorised
      <4> QED BY <4>1, StandingHonours
    <3> QED BY <3>1, <3>2
  <2> QED BY <1>1, <1>q, <2>1, <2>2 DEF EnforceAuthorised
<1>2. ASSUME NEW a \in Actions, NEW c \in Costs, RequestIfRequired(a, c)
      PROVE  AnswerInv'
  BY <1>2, <1>q, <1>r, <1>p DEF RequestIfRequired
<1>3. ASSUME NEW a \in Actions, AppendVoided(a) PROVE AnswerInv'
  <2> DEFINE e == [type |-> "voided", request |-> engine[a].request]
  <2>1. e \in Voided
    BY <1>3, FrameFacts DEF AppendVoided, Voided
  <2> QED BY <1>3, <2>1, <1>a DEF AppendVoided
<1>4. ASSUME NEW a \in Actions, AppendRequested(a) PROVE AnswerInv'
  <2> DEFINE e == [type |-> "requested", action |-> a, cost |-> engine[a].cost]
  <2>1. e \in Requested
    BY <1>4, FrameFacts DEF AppendRequested, Requested
  <2> QED BY <1>4, <2>1, <1>a DEF AppendRequested
<1>10. ASSUME NEW a \in Actions, AppendUnpriced(a) PROVE AnswerInv'
  <2> DEFINE e == [type |-> "requested", action |-> a, cost |-> NoCost]
  <2>1. e \in Requested
    BY DEF Requested
  <2> QED BY <1>10, <2>1, <1>a DEF AppendUnpriced
<1>5. ASSUME NEW a \in Actions, EngineFails(a) PROVE AnswerInv'
  BY <1>5, <1>q, <1>r, <1>p DEF EngineFails
<1>6. ASSUME NEW r \in Recorders, NEW q \in Ids, NEW answer \in Answers,
             RecordAuthOutcome(r, q, answer)
      PROVE  AnswerInv'
  <2>1. AnswerIsFirst'
    BY <1>6, ReadersUnchanged
    DEF TypeOK, RecordAuthOutcome, AlreadyResolved, AnswerIsFirst
  <2> QED BY <1>6, <1>q, <1>p, <2>1 DEF RecordAuthOutcome
<1>7. ASSUME NEW r \in Recorders, AppendOutcome(r) PROVE AnswerInv'
  <2>1. PICK q \in Ids : q = recorder[r].request
    BY <1>7, FrameFacts DEF AppendOutcome
  <2> DEFINE e == [type |-> "outcome", request |-> q,
                   outcome |-> recorder[r].answer, by |-> r]
             n == Len(log) + 1
  <2>2. e \in Outcome /\ Append1(e)
    BY <1>7, <2>1, FrameFacts DEF AppendOutcome, Outcome
  <2>3. q \in Events("requested") /\ \A k \in Outcomes(q) : log[k].by # r
    BY <1>7, <2>1 DEF AppendOutcome, AnswerIsFirst
  <2>5. PICK m : m = n /\ log'[m] = e
    BY <2>2, AppendFacts
  <2>6. Events("outcome")' = Events("outcome") \union {m}
    BY <2>2, <2>5, ReadersAfterAppend
  <2>7. \A t : \A i \in Events(t) : log'[i] = log[i] /\ i < m
    BY <2>2, <2>5, ReadersAfterAppend
  <2>8. \A t : Events(t) \subseteq Events(t)'
    BY <2>2, ReadersAfterAppend
  <2>9. \A a : Requests(a) \subseteq Requests(a)'
    BY <2>2, ReadersAfterAppend
  <2>10. /\ \A p : p # q => Outcomes(p)' = Outcomes(p)
         /\ Outcomes(q)' = Outcomes(q) \union {m}
    <3>1. \A p : Outcomes(p)' = Outcomes(p) \union
            {i \in {Len(log) + 1} : e.type = "outcome" /\ e.request = p}
      BY <2>2, ReadersAfterAppend
    <3> QED BY <3>1, <2>5
  <2>13. log'[m].by = r /\ log'[m].request = q
    BY <2>5
  <2> HIDE DEF e, n
  <2>4. AnswerIsFirst'
    <3> SUFFICES ASSUME NEW s \in Recorders, recorder'[s].pc = "answering"
                 PROVE  (/\ recorder[s].request \in Events("requested")
                         /\ \A k \in Outcomes(recorder[s].request) :
                              log[k].by # s)'
      BY DEF AnswerIsFirst
    <3>1. s # r /\ recorder'[s] = recorder[s]
      BY <1>7 DEF TypeOK, AppendOutcome, Idle
    <3>2. PICK p : p = recorder[s].request
      OBVIOUS
    <3>3. /\ p \in Events("requested") /\ recorder'[s].request = p
          /\ \A k \in Outcomes(p) : log[k].by # s
      BY <3>1, <3>2 DEF AnswerIsFirst
    <3>4. ASSUME NEW k \in Outcomes(p)' PROVE log'[k].by # s
      <4>1. CASE k \in Outcomes(p)
        BY <4>1, <3>3, <2>7, ReadersInLog
      <4>2. CASE k = m
        BY <4>2, <3>1, <2>13
      <4> QED BY <4>1, <4>2, <2>10
    <3> QED BY <3>3, <3>4, <2>8
  <2>11. OutcomesFollowRequests'
    <3> SUFFICES ASSUME NEW k \in Events("outcome") \union {m}
                 PROVE  log'[k].request \in Events("requested")'
                          /\ log'[k].request < k
      BY <2>6 DEF OutcomesFollowRequests
    <3>1. CASE k \in Events("outcome")
      BY <3>1, <2>7, <2>8 DEF OutcomesFollowRequests
    <3>2. CASE k = m
      BY <3>2, <2>3, <2>7, <2>8, <2>13
    <3> QED BY <3>1, <3>2
  <2>12. OneAnswerEach'
    <3>1. \A k \in Events("outcome") : ~ (log[k].request = q /\ log[k].by = r)
      BY <2>3 DEF Outcomes
    <3> QED BY <3>1, <2>6, <2>7, <2>13 DEF OneAnswerEach
  <2>14. PermitsHonourAnswers'
    <3> SUFFICES ASSUME NEW p \in permit
                 PROVE  (/\ p.request \in Requests(p.action)
                         /\ log[p.request].cost \in {p.cost, NoCost}
                         /\ \E k \in Outcomes(p.request) :
                              /\ log[k].outcome = "approved"
                              /\ \A j \in Outcomes(p.request) :
                                   log[j].outcome = "refused" =>
                                     log[j].by # log[k].by)'
      BY <1>7 DEF AppendOutcome, PermitsHonourAnswers
    <3>0. PICK x : x = p.request
      OBVIOUS
    <3>1. x \in Requests(p.action) /\ log[x].cost \in {p.cost, NoCost}
      BY <3>0 DEF PermitsHonourAnswers
    <3>2. PICK k \in Outcomes(x) :
            /\ log[k].outcome = "approved"
            /\ \A j \in Outcomes(x) :
                 log[j].outcome = "refused" => log[j].by # log[k].by
      BY <3>0 DEF PermitsHonourAnswers
    <3>3. log'[k] = log[k] /\ k \in Outcomes(x)'
      BY <2>7, <2>10, ReadersInLog
    <3>4. ASSUME NEW j \in Outcomes(x)', log'[j].outcome = "refused"
          PROVE  log'[j].by # log[k].by
      <4>1. CASE j \in Outcomes(x)
        BY <4>1, <3>2, <3>4, <2>7, ReadersInLog
      <4>2. CASE j = m /\ x = q
        BY <4>2, <2>3, <2>13
      <4> QED BY <4>1, <4>2, <2>10
    <3>5. x \in Requests(p.action)' /\ log'[x].cost \in {p.cost, NoCost}
      BY <3>1, <2>7, <2>9, ReadersInLog
    <3> QED BY <3>0, <3>2, <3>3, <3>4, <3>5
  <2> QED BY <1>t, <2>4, <2>11, <2>12, <2>14
<1>8. ASSUME NEW r \in Recorders, RecorderFails(r) PROVE AnswerInv'
  <2>1. AnswerIsFirst'
    BY <1>8, <1>r DEF TypeOK, RecorderFails, Idle
  <2> QED BY <1>8, <1>q, <1>p, <2>1 DEF RecorderFails
<1>9. CASE UNCHANGED vars
  BY <1>9, <1>q, <1>r, <1>p DEF vars
<1> QED BY <1>1, <1>2, <1>3, <1>4, <1>5, <1>6, <1>7, <1>8, <1>9, <1>10 DEF Next

LEMMA AnswerInvHolds == Spec => []AnswerInv
<1>1. Init => AnswerInv
  BY ConstantsAssumption
  DEF Init, AnswerInv, TypeOK, Frame, Pending, Idle, OutcomesFollowRequests,
      AnswerIsFirst, OneAnswerEach, PermitsHonourAnswers, Events
<1> QED BY <1>1, AnswerStep, PTL DEF Spec

(* However many processes record answers, none of them resolves a request twice,
   although record_auth_outcome tests and appends in separate transactions. *)
THEOREM AnswersAreOnePerProcess == Spec => []OneAnswerEach
<1>1. AnswerInv => OneAnswerEach
  BY DEF AnswerInv
<1> QED BY <1>1, AnswerInvHolds, PTL

(* Every TRUE that enforce_authorised returns rests on a request for that action
   at that price or at none, approved, and refused if at all by another process
   that raced the approval. *)
THEOREM PermissionsAreConsented == Spec => []PermitsHonourAnswers
<1>1. AnswerInv => PermitsHonourAnswers
  BY DEF AnswerInv
<1> QED BY <1>1, AnswerInvHolds, PTL

-------------------------------------------------------------------------------
(* The log as the abstract specification sees it. *)

Heard(q) == {log[k].by : k \in Outcomes(q)}
AskOf(q) == [id |-> q, action |-> log[q].action, cost |-> log[q].cost,
             answer |-> AnswerTo(q), heard |-> Heard(q)]
Asks == {AskOf(q) : q \in Events("requested")}

LEMMA AsksUnchanged ==
  ASSUME UNCHANGED log
  PROVE  Asks' = Asks
  BY DEF Asks, AskOf, Heard, AnswerTo, Approved, Outcomes, Events, IsLast

LEMMA AskFields ==
  ASSUME NEW x \in Asks
  PROVE  x.id \in Events("requested") /\ x = AskOf(x.id)
         /\ x.action = log[x.id].action /\ x.cost = log[x.id].cost
         /\ x.answer = AnswerTo(x.id) /\ x.heard = Heard(x.id)
  BY DEF Asks, AskOf

LEMMA ConsentPermit ==
  ASSUME NEW a, NEW c, NEW q, Standing(a, c, q),
         permit' = {[action |-> a, cost |-> c, request |-> q]}
  PROVE  Consent!Permit(a, c)
<1>1. /\ q \in Requests(a) /\ log[q].cost \in {c, NoCost} /\ Approved(q)
      /\ \A p \in Requests(a) : p <= q
  BY DEF Standing, LatestRequestFor, IsLast
<1>2. q \in Events("requested") /\ log[q].action = a
  BY <1>1 DEF Requests
<1>3. AnswerTo(q) = "approved"
  BY <1>1 DEF AnswerTo, Approved
<1>4. PICK x \in Asks : /\ x.id = q /\ x.action = a /\ x.cost \in {c, NoCost}
                        /\ x.answer = "approved"
  <2>1. /\ AskOf(q).id = q /\ AskOf(q).action = a
        /\ AskOf(q).cost \in {c, NoCost} /\ AskOf(q).answer = "approved"
    BY <1>1, <1>2, <1>3 DEF AskOf
  <2>2. AskOf(q) \in Asks
    BY <1>2 DEF Asks
  <2> QED BY <2>1, <2>2
<1>5. \A r \in Asks : r.action = a => r.id <= x.id
  BY <1>1, <1>4, AskFields DEF Requests
<1>6. permit' = {[action |-> a, cost |-> c, request |-> x.id]}
  BY <1>4
<1> QED BY <1>4, <1>5, <1>6 DEF Consent!Permit, Asks, AskOf, Heard

LEMMA ConsentAsks ==
  ASSUME AnswerInv, NEW a \in Actions, NEW c \in Costs \union {NoCost},
         Append1([type |-> "requested", action |-> a, cost |-> c])
  PROVE  Asks' # Asks /\ Consent!PutToTraveller(a, c)
<1> DEFINE e == [type |-> "requested", action |-> a, cost |-> c]
           x(n) == [id |-> n, action |-> a, cost |-> c, answer |-> "pending",
                    heard |-> {}]
<1>0. PICK n : n = Len(log) + 1
  OBVIOUS
<1>1. TypeOK /\ e \in Requested
  BY DEF AnswerInv, Requested
<1>2. /\ n \in Ids /\ Len(log) \in Nat
      /\ \A i \in 1..Len(log) : log'[i] = log[i]
      /\ log'[n] = e
  BY <1>0, <1>1, AppendFacts, ConstantsAssumption DEF Ids
<1>3. /\ Events("requested")' = Events("requested") \union {n}
      /\ \A q : Outcomes(q)' = Outcomes(q)
      /\ \A q \in Events("requested") : log'[q] = log[q] /\ q < n
  <2>1. e.type = "requested"
    OBVIOUS
  <2>2. /\ Events("requested")' = Events("requested") \union
             {i \in {n} : e.type = "requested"}
        /\ \A q : Outcomes(q)' = Outcomes(q) \union
             {i \in {n} : e.type = "outcome" /\ e.request = q}
        /\ \A q \in Events("requested") : log'[q] = log[q] /\ q < n
    BY <1>0, <1>1, ReadersAfterAppend
  <2> HIDE DEF e
  <2> QED BY <2>1, <2>2
<1>4. \A k \in Events("outcome") : log'[k] = log[k]
  BY <1>2 DEF Events
<1>5. \A q : AnswerTo(q)' = AnswerTo(q) /\ Heard(q)' = Heard(q)
  <2> SUFFICES ASSUME NEW q
               PROVE  AnswerTo(q)' = AnswerTo(q) /\ Heard(q)' = Heard(q)
    OBVIOUS
  <2>1. Outcomes(q) \subseteq Events("outcome")
    BY ReadersInLog
  <2>2. Approved(q)' = Approved(q)
    BY <1>3, <1>4, <2>1 DEF Approved, IsLast
  <2>3. Heard(q)' = Heard(q)
    BY <1>3, <1>4, <2>1 DEF Heard
  <2> QED BY <1>3, <2>2, <2>3 DEF AnswerTo
<1>6. AnswerTo(n) = "pending" /\ Heard(n) = {}
  <2>1. Outcomes(n) = {}
    <3> SUFFICES ASSUME NEW k \in Outcomes(n)
                 PROVE  FALSE
      OBVIOUS
    <3>1. k \in 1..Len(log) /\ k \in Events("outcome") /\ log[k].request = n
      BY DEF Outcomes, Events
    <3>2. n < k
      BY <3>1 DEF AnswerInv, OutcomesFollowRequests
    <3> QED BY <1>0, <1>2, <3>1, <3>2
  <2> QED BY <2>1 DEF AnswerTo, Heard
<1>7. \A q \in Events("requested") : AskOf(q)' = AskOf(q)
  BY <1>3, <1>5 DEF AskOf
<1>8. AskOf(n)' = x(n)
  <2>1. log'[n].action = a /\ log'[n].cost = c
    BY <1>2
  <2> QED BY <1>5, <1>6, <2>1 DEF AskOf
<1>9. Asks' = Asks \union {x(n)}
  <2>1. Asks' = {AskOf(q)' : q \in Events("requested") \union {n}}
    BY <1>3 DEF Asks
  <2> HIDE DEF x
  <2> QED BY <1>7, <1>8, <2>1 DEF Asks
<1>10. \A y \in Asks : y.id < n
  BY <1>3, AskFields
<1> HIDE DEF e
<1>11. Asks' # Asks
  <2>1. x(n).id = n /\ ~ (n < n)
    BY <1>2 DEF Ids
  <2>2. x(n) \notin Asks
    BY <1>10, <2>1
  <2> QED BY <1>9, <2>2
<1>12. Consent!PutToTraveller(a, c)
  BY <1>2, <1>9, <1>10 DEF Consent!PutToTraveller, Asks, AskOf, Heard
<1> QED BY <1>11, <1>12

LEMMA ConsentSettles ==
  ASSUME AnswerInv, NEW r \in Recorders, AppendOutcome(r)
  PROVE  /\ Asks' # Asks
         /\ \E x \in Asks, answer \in Answers : Consent!Settle(x, r, answer)
<1>1. TypeOK /\ OutcomesFollowRequests /\ recorder[r].pc = "answering"
  BY DEF AnswerInv, AppendOutcome
<1>2. PICK q \in Ids, answer \in Answers :
        /\ q = recorder[r].request /\ answer = recorder[r].answer
        /\ Append1([type |-> "outcome", request |-> q, outcome |-> answer,
                    by |-> r])
  BY <1>1, FrameFacts DEF AppendOutcome
<1>3. q \in Events("requested") /\ r \notin Heard(q)
  BY <1>1, <1>2 DEF AnswerInv, AnswerIsFirst, Heard
<1> DEFINE e == [type |-> "outcome", request |-> q, outcome |-> answer, by |-> r]
<1>n. PICK n : n = Len(log) + 1
  OBVIOUS
<1>4. e \in Outcome
  BY DEF Outcome
<1>5. log'[n] = e /\ \A i \in 1..Len(log) : log'[i] = log[i]
  BY <1>n, <1>1, <1>2, <1>4, AppendFacts
<1>0. n \in Nat /\ log'[n].outcome = answer /\ log'[n].by = r
  BY <1>n, <1>1, <1>2, <1>4, <1>5, AppendFacts
<1>6. /\ Events("requested")' = Events("requested")
      /\ \A p : p # q => Outcomes(p)' = Outcomes(p)
      /\ Outcomes(q)' = Outcomes(q) \union {n}
      /\ \A p \in Events("requested") : log'[p] = log[p]
      /\ \A k \in Events("outcome") : log'[k] = log[k] /\ k < n
  <2>1. e.type = "outcome" /\ e.request = q
    OBVIOUS
  <2>2. /\ Events("requested")' = Events("requested") \union
             {i \in {n} : e.type = "requested"}
        /\ \A p : Outcomes(p)' = Outcomes(p) \union
             {i \in {n} : e.type = "outcome" /\ e.request = p}
        /\ \A t : \A i \in Events(t) : log'[i] = log[i] /\ i < n
    BY <1>n, <1>1, <1>2, <1>4, ReadersAfterAppend
  <2> HIDE DEF e
  <2> QED BY <1>3, <2>1, <2>2
<1>7. \A p : p # q => AnswerTo(p)' = AnswerTo(p) /\ Heard(p)' = Heard(p)
  <2> SUFFICES ASSUME NEW p, p # q
               PROVE  AnswerTo(p)' = AnswerTo(p) /\ Heard(p)' = Heard(p)
    OBVIOUS
  <2>1. Outcomes(p)' = Outcomes(p) /\ Outcomes(p) \subseteq Events("outcome")
    BY <1>6, ReadersInLog
  <2>2. Approved(p)' = Approved(p)
    BY <1>6, <2>1 DEF Approved, IsLast
  <2>3. Heard(p)' = Heard(p)
    BY <1>6, <2>1 DEF Heard
  <2> QED BY <2>1, <2>2, <2>3 DEF AnswerTo
<1> HIDE DEF e
<1>8. Heard(q)' = Heard(q) \union {r}
  <2>1. Outcomes(q) \subseteq Events("outcome")
    BY ReadersInLog
  <2> QED BY <1>0, <1>6, <2>1 DEF Heard
<1>9. AnswerTo(q)' = answer
  <2>1. IsLast(n, Outcomes(q))'
    BY <1>0, <1>6, ReadersInLog DEF IsLast
  <2>2. \A k : IsLast(k, Outcomes(q))' => k = n
    BY <1>0, <1>6, ReadersInLog DEF IsLast
  <2>3. Approved(q)' <=> answer = "approved"
    BY <1>0, <2>1, <2>2 DEF Approved, IsLast
  <2> QED BY <1>6, <2>3 DEF AnswerTo, Answers
<1> DEFINE y == [id |-> AskOf(q).id, action |-> AskOf(q).action,
                 cost |-> AskOf(q).cost, answer |-> answer,
                 heard |-> AskOf(q).heard \union {r}]
<1>10. AskOf(q)' = y /\ AskOf(q).heard = Heard(q)
  BY <1>3, <1>6, <1>8, <1>9 DEF AskOf
<1>11. \A p \in Events("requested") : p # q => AskOf(p)' = AskOf(p)
  BY <1>6, <1>7 DEF AskOf
<1>12. \A p \in Events("requested") : p # q => AskOf(p) # AskOf(q)
  BY DEF AskOf
<1>13. Asks' = (Asks \ {AskOf(q)}) \union {y}
  <2>1. Asks' = {AskOf(p)' : p \in Events("requested")}
    BY <1>6 DEF Asks
  <2>2. PICK x : x = AskOf(q)
    OBVIOUS
  <2> HIDE DEF y
  <2>3. ASSUME NEW z \in Asks'
        PROVE  z \in (Asks \ {x}) \union {y}
    BY <1>10, <1>11, <1>12, <2>1, <2>2 DEF Asks
  <2>4. ASSUME NEW z \in (Asks \ {x}) \union {y}
        PROVE  z \in Asks'
    BY <1>3, <1>10, <1>11, <2>1, <2>2 DEF Asks
  <2> QED BY <2>2, <2>3, <2>4
<1>14. AskOf(q) \in Asks
  BY <1>3 DEF Asks
<1>15. Asks' # Asks
  <2>1. y.id = q /\ y.heard = Heard(q) \union {r}
    BY <1>10 DEF AskOf
  <2> HIDE DEF y
  <2>2. y \notin Asks
    BY <1>3, <2>1, AskFields
  <2> QED BY <1>13, <2>2
<1>16. Consent!Settle(AskOf(q), r, answer)
  BY <1>3, <1>10, <1>13 DEF Consent!Settle, Asks, AskOf, Heard
<1> QED BY <1>14, <1>15, <1>16

LEMMA ConsentStep ==
  AnswerInv /\ [Next]_vars => [Consent!Next]_(Consent!vars)
<1> SUFFICES ASSUME AnswerInv, [Next]_vars
             PROVE  Consent!Next \/ UNCHANGED Consent!vars
  OBVIOUS
<1>0. TypeOK
  BY DEF AnswerInv
<1>q. ASSUME UNCHANGED <<log, permit>> PROVE UNCHANGED Consent!vars
  BY <1>q, AsksUnchanged DEF Consent!vars, Asks, AskOf, Heard
(* A question or an answer. *)
<1>m. ASSUME UNCHANGED permit, Asks' # Asks,
             \/ \E a \in Actions, c \in Costs \union {NoCost} :
                  Consent!PutToTraveller(a, c)
             \/ \E x \in Asks, v \in Recorders, answer \in Answers :
                  Consent!Settle(x, v, answer)
      PROVE  Consent!Next
  BY <1>m DEF Consent!Next, Consent!Answers, Answers, Asks, AskOf, Heard
<1>1. ASSUME NEW a \in Actions, NEW c \in Costs, EnforceAuthorised(a, c)
      PROVE  Consent!Next \/ UNCHANGED Consent!vars
  <2>1. CASE UNCHANGED <<log, permit>>
    BY <1>q, <2>1
  <2>2. CASE /\ permit' # permit
             /\ \E q \in Ids :
                  /\ Standing(a, c, q)
                  /\ permit' = {[action |-> a, cost |-> c, request |-> q]}
    <3>1. Consent!Permit(a, c)
      BY <2>2, ConsentPermit
    <3>2. Asks' = Asks
      BY <1>1, AsksUnchanged DEF EnforceAuthorised
    <3> QED BY <2>2, <3>1, <3>2 DEF Consent!Next, Asks, AskOf, Heard
  <2> QED BY <1>1, <2>1, <2>2 DEF EnforceAuthorised
<1>2. ASSUME NEW a \in Actions, NEW c \in Costs, RequestIfRequired(a, c)
      PROVE  UNCHANGED Consent!vars
  BY <1>2, <1>q DEF RequestIfRequired
<1>3. ASSUME NEW a \in Actions, AppendVoided(a)
      PROVE  UNCHANGED Consent!vars
  <2>0. PICK p \in Ids : p = engine[a].request
    BY <1>0, <1>3, FrameFacts DEF AppendVoided
  <2>1. PICK e \in Voided : Append1(e) /\ UNCHANGED permit /\ e.type = "voided"
    BY <1>3, <2>0 DEF AppendVoided, Voided
  <2>2. /\ Events("requested")' = Events("requested")
        /\ \A q : Outcomes(q)' = Outcomes(q)
        /\ \A t : \A i \in Events(t) : log'[i] = log[i]
    <3>1. /\ Events("requested")' = Events("requested") \union
               {i \in {Len(log) + 1} : e.type = "requested"}
          /\ \A q : Outcomes(q)' = Outcomes(q) \union
               {i \in {Len(log) + 1} : e.type = "outcome" /\ e.request = q}
          /\ \A t : \A i \in Events(t) : log'[i] = log[i]
      BY <1>0, <2>1, ReadersAfterAppend
    <3> QED BY <2>1, <3>1
  <2>3. \A q : AnswerTo(q)' = AnswerTo(q) /\ Heard(q)' = Heard(q)
    <3>1. \A q : Heard(q)' = Heard(q)
      BY <2>2, ReadersInLog DEF Heard
    <3>2. \A q : AnswerTo(q)' = AnswerTo(q)
      BY <2>2, ReadersInLog DEF AnswerTo, Approved, IsLast
    <3> QED BY <3>1, <3>2
  <2>4. \A q \in Events("requested") : AskOf(q)' = AskOf(q)
    BY <2>2, <2>3 DEF AskOf
  <2>5. Asks' = Asks
    BY <2>2, <2>4 DEF Asks
  <2> QED BY <2>1, <2>5 DEF Consent!vars, Asks, AskOf, Heard
<1>4. ASSUME NEW a \in Actions, AppendRequested(a)
      PROVE  Consent!Next
  <2>1. PICK c \in Costs : c = engine[a].cost
    BY <1>0, <1>4, FrameFacts DEF AppendRequested
  <2>2. Asks' # Asks /\ Consent!PutToTraveller(a, c)
    BY <1>4, <2>1, ConsentAsks DEF AppendRequested
  <2> QED BY <1>4, <1>m, <2>2 DEF AppendRequested
<1>10. ASSUME NEW a \in Actions, AppendUnpriced(a)
      PROVE  Consent!Next
  <2>1. Asks' # Asks /\ Consent!PutToTraveller(a, NoCost)
    BY <1>10, ConsentAsks DEF AppendUnpriced
  <2> QED BY <1>10, <1>m, <2>1 DEF AppendUnpriced
<1>5. ASSUME NEW r \in Recorders, AppendOutcome(r)
      PROVE  Consent!Next
  <2>1. /\ Asks' # Asks
        /\ \E x \in Asks, answer \in Answers : Consent!Settle(x, r, answer)
    BY <1>5, ConsentSettles
  <2> QED BY <1>5, <1>m, <2>1 DEF AppendOutcome
<1>6. ASSUME NEW a \in Actions, EngineFails(a)
      PROVE  UNCHANGED Consent!vars
  BY <1>6, <1>q DEF EngineFails
<1>7. ASSUME NEW r \in Recorders, NEW q \in Ids, NEW answer \in Answers,
             RecordAuthOutcome(r, q, answer)
      PROVE  UNCHANGED Consent!vars
  BY <1>7, <1>q DEF RecordAuthOutcome
<1>8. CASE UNCHANGED vars
  BY <1>8, <1>q DEF vars
<1>9. ASSUME NEW r \in Recorders, RecorderFails(r)
      PROVE  UNCHANGED Consent!vars
  BY <1>9, <1>q DEF RecorderFails
<1> QED BY <1>1, <1>2, <1>3, <1>4, <1>5, <1>6, <1>7, <1>8, <1>9, <1>10 DEF Next

(* The racing engine calls and recording processes over the log do only what
   the feature promises: ask, hear each process once on a question, permit on
   the newest question when its last answer approves it, at its price if any. *)
THEOREM LogIsConsent == Spec => ImplementsConsent
<1>1. Init => Consent!Init
  <2> SUFFICES ASSUME Init
               PROVE  Asks = {} /\ permit = {}
    BY DEF Consent!Init, Asks, AskOf, Heard
  <2>1. Events("requested") = {}
    BY DEF Init, Events
  <2> QED BY <2>1 DEF Init, Asks
<1> QED BY <1>1, ConsentStep, AnswerInvHolds, PTL
        DEF Spec, ImplementsConsent, Consent!Spec
=============================================================================
