----------------------------- MODULE Authorisation -----------------------------
(***************************************************************************)
(* The authorisation gate of one journey: AuthorisationPolicyEngine        *)
(* (services/authorisation_policy_engine.py) and the answering half of     *)
(* EventService.record_auth_outcome (services/event_service.py).           *)
(*                                                                         *)
(* Both keep no state of their own.  They re-read the journey's            *)
(* append-only event log, decide, and append, and nothing holds a lock     *)
(* between the read and the append: `engine` and `recorder` hold what a    *)
(* call decided on the log it read and has not written yet.  An event is   *)
(* named by its position in the log, so a request_id is the position of    *)
(* its authorisation_requested event.                                      *)
(***************************************************************************)
EXTENDS Integers, Sequences

CONSTANTS
  Actions,    \* action_ids; one caller drives each action
  TraitsOf,   \* what each action does beside spending money
  Costs,      \* the prices an action may carry
  Recorders,  \* processes that record answers: the API's event loop, and
              \* scripts/capture_runner.py, which runs beside it
  MaxEvents   \* bound: the longest log explored

(* What makes an action need the traveller, beside a positive cost. *)
Traits == {"cancels", "irreversible", "breaches"}

ASSUME ConstantsAssumption ==
  /\ TraitsOf \in [Actions -> SUBSET Traits]
  /\ Costs \subseteq Nat
  /\ MaxEvents \in Nat

VARIABLES
  log,       \* the journey's events, in sequence order
  engine,    \* per action: the append its engine call still owes
  recorder,  \* per recorder: the outcome event it still owes
  permit     \* history: the last TRUE returned by enforce_authorised (a set
             \* of at most one)

vars == <<log, engine, recorder, permit>>

Answers == {"approved", "refused"}
Ids == 1..MaxEvents

(* The cost_amount of a request written without one. *)
NoCost == -1

Requested == [type : {"requested"}, action : Actions, cost : Costs \union {NoCost}]
(* `by` is history: no payload names the process that recorded the answer. *)
Outcome == [type : {"outcome"}, request : Ids, outcome : Answers, by : Recorders]
Voided == [type : {"voided"}, request : Ids]

(* Between its read and its appends an engine call owes a void (and then a
   request, when request_if_required made the call), or a request. *)
Frame == [pc : {"idle"}]
           \union [pc : {"voiding"}, request : Ids, next : {"idle"}]
           \union [pc : {"voiding"}, request : Ids, next : {"asking"}, cost : Costs]
           \union [pc : {"asking"}, cost : Costs]
Pending == [pc : {"idle"}]
             \union [pc : {"answering"}, request : Ids, answer : Answers]
Idle == [pc |-> "idle"]

TypeOK ==
  /\ log \in Seq(Requested \union Outcome \union Voided)
  /\ Len(log) <= MaxEvents
  /\ engine \in [Actions -> Frame]
  /\ recorder \in [Recorders -> Pending]
  /\ permit \subseteq [action : Actions, cost : Costs, request : Ids]

Init ==
  /\ log = <<>>
  /\ engine = [a \in Actions |-> Idle]
  /\ recorder = [r \in Recorders |-> Idle]
  /\ permit = {}

-------------------------------------------------------------------------------
(* Reading the log. *)

Events(type) == {i \in 1..Len(log) : log[i].type = type}
Requests(a) == {i \in Events("requested") : log[i].action = a}
Outcomes(q) == {i \in Events("outcome") : log[i].request = q}
Voids(q) == {i \in Events("voided") : log[i].request = q}

(* Python's matching[-1]: the last of the matching events. *)
IsLast(i, S) == i \in S /\ \A j \in S : j <= i

(* Mutant: an older request of the same action answers for the newest. *)
AnyRequestFor(q, a) == q \in Requests(a)

LatestRequestFor(q, a) == IsLast(q, Requests(a))

(* Mutant: any recorded answer counts as consent. *)
AnsweredAtAll(q) == Outcomes(q) # {}

Approved(q) ==
  \E k \in Outcomes(q) : IsLast(k, Outcomes(q)) /\ log[k].outcome = "approved"

(* enforce_authorised would return TRUE on this log, on the strength of q: a
   request that states no cost_amount permits at any price. *)
Standing(a, c, q) ==
  LatestRequestFor(q, a) /\ Approved(q) /\ log[q].cost \in {c, NoCost}

(* enforce_authorised finds an approval given at another price. *)
Repriced(a, c, q) ==
  LatestRequestFor(q, a) /\ Approved(q) /\ log[q].cost \notin {c, NoCost}

(* The event append: one transaction takes the next sequence number. *)
Append1(event) ==
  /\ Len(log) < MaxEvents
  /\ log' = Append(log, event)

-------------------------------------------------------------------------------
(* The policy engine. *)

MatchedRules(a, cost) ==
  (IF cost > 0 THEN {"money"} ELSE {}) \union TraitsOf[a]

(* Mutant: the grant is voided again by every later check. *)
VoidOwedAgain(a, c, q) == Repriced(a, c, q)

(* An approval given at another price is voided, once per request, before
   anything else is appended. *)
VoidOwed(a, c, q) == Repriced(a, c, q) /\ Voids(q) = {}

(* enforce_authorised: read the log and return TRUE, or owe a void and
   return FALSE (or return FALSE at once, which changes nothing). *)
EnforceAuthorised(a, c) ==
  /\ engine[a] = Idle
  /\ \E q \in Ids :
       \/ /\ Standing(a, c, q)
          /\ permit' = {[action |-> a, cost |-> c, request |-> q]}
          /\ UNCHANGED engine
       \/ /\ VoidOwed(a, c, q)
          /\ engine' = [engine EXCEPT ![a] =
               [pc |-> "voiding", request |-> q, next |-> "idle"]]
          /\ UNCHANGED permit
  /\ UNCHANGED <<log, recorder>>

(* request_if_required: unless the rules let the action through or it is
   authorised already, a request is owed, and first the void of a grant at
   another price.  A request still unanswered does not stop it. *)
RequestIfRequired(a, c) ==
  /\ engine[a] = Idle
  /\ MatchedRules(a, c) # {}
  /\ \A q \in Ids : ~ Standing(a, c, q)
  /\ \/ \E q \in Ids :
          /\ VoidOwed(a, c, q)
          /\ engine' = [engine EXCEPT ![a] =
               [pc |-> "voiding", request |-> q, next |-> "asking", cost |-> c]]
     \/ /\ \A q \in Ids : ~ VoidOwed(a, c, q)
        /\ engine' = [engine EXCEPT ![a] = [pc |-> "asking", cost |-> c]]
  /\ UNCHANGED <<log, recorder, permit>>

(* Mutant: the void leaves its own bookkeeping in the call's frame. *)
AppendVoidedKeepsFrame(a) ==
  /\ engine[a].pc = "voiding"
  /\ Append1([type |-> "voided", request |-> engine[a].request])
  /\ engine' = [engine EXCEPT ![a].pc = engine[a].next]
  /\ UNCHANGED <<recorder, permit>>

AppendVoided(a) ==
  /\ engine[a].pc = "voiding"
  /\ Append1([type |-> "voided", request |-> engine[a].request])
  /\ engine' = [engine EXCEPT ![a] =
       IF engine[a].next = "asking"
       THEN [pc |-> "asking", cost |-> engine[a].cost] ELSE Idle]
  /\ UNCHANGED <<recorder, permit>>

AppendRequested(a) ==
  /\ engine[a].pc = "asking"
  /\ Append1([type |-> "requested", action |-> a, cost |-> engine[a].cost])
  /\ engine' = [engine EXCEPT ![a] = Idle]
  /\ UNCHANGED <<recorder, permit>>

(* A request written by another than the engine (a seeded or replayed
   journey), without the optional cost_amount. *)
AppendUnpriced(a) ==
  /\ Append1([type |-> "requested", action |-> a, cost |-> NoCost])
  /\ UNCHANGED <<engine, recorder, permit>>

(* The append raises: another writer took the sequence number, the database
   was locked, or the process died.  The call leaves no further trace. *)
EngineFails(a) ==
  /\ engine[a] # Idle
  /\ engine' = [engine EXCEPT ![a] = Idle]
  /\ UNCHANGED <<log, recorder, permit>>

-------------------------------------------------------------------------------
(* record_auth_outcome. *)

(* Mutant: the "already resolved" test is dropped. *)
NeverResolved(q) == q \in {}

AlreadyResolved(q) == Outcomes(q) # {}

(* A recorder handles one answer at a time: the API's event loop runs the
   handler of POST /authorisation/{request_id} to its end, and the capture
   script is sequential.  Two recorders may answer the same request. *)
RecordAuthOutcome(r, q, answer) ==
  /\ recorder[r] = Idle
  /\ q \in Events("requested")
  /\ ~ AlreadyResolved(q)
  /\ recorder' = [recorder EXCEPT ![r] =
       [pc |-> "answering", request |-> q, answer |-> answer]]
  /\ UNCHANGED <<log, engine, permit>>

AppendOutcome(r) ==
  /\ recorder[r].pc = "answering"
  /\ Append1([type |-> "outcome", request |-> recorder[r].request,
              outcome |-> recorder[r].answer, by |-> r])
  /\ recorder' = [recorder EXCEPT ![r] = Idle]
  /\ UNCHANGED <<engine, permit>>

RecorderFails(r) ==
  /\ recorder[r].pc = "answering"
  /\ recorder' = [recorder EXCEPT ![r] = Idle]
  /\ UNCHANGED <<log, engine, permit>>

-------------------------------------------------------------------------------
Next ==
  \/ \E a \in Actions :
       \/ \E c \in Costs : EnforceAuthorised(a, c) \/ RequestIfRequired(a, c)
       \/ AppendVoided(a)
       \/ AppendRequested(a)
       \/ AppendUnpriced(a)
       \/ EngineFails(a)
  \/ \E r \in Recorders :
       \/ \E q \in Ids, answer \in Answers : RecordAuthOutcome(r, q, answer)
       \/ AppendOutcome(r)
       \/ RecorderFails(r)

Spec == Init /\ [][Next]_vars

-------------------------------------------------------------------------------
(* A process never resolves a request twice, although its "already resolved"
   test and its append are separate transactions: two answers on record for one
   request are those of two processes that raced (H1). *)
OneAnswerEach ==
  \A i, j \in Events("outcome") :
    log[i].request = log[j].request /\ log[i].by = log[j].by => i = j

(* Every permission the engine returns rests on a request for that very action,
   at that very price or at none, and on an approval of it.  A refusal of that
   request can only be on record, before the permission or since, as the answer
   of another process that raced the approval. *)
PermitsHonourAnswers ==
  \A p \in permit :
    /\ p.request \in Requests(p.action)
    /\ log[p.request].cost \in {p.cost, NoCost}
    /\ \E k \in Outcomes(p.request) :
         /\ log[k].outcome = "approved"
         /\ \A j \in Outcomes(p.request) :
              log[j].outcome = "refused" => log[j].by # log[k].by

(* A grant is voided at most once, and only a grant: the request was answered
   "approved", earlier in the log than its void. *)
VoidsAreOfGrants ==
  \A v \in Events("voided") :
    /\ Voids(log[v].request) = {v}
    /\ \E k \in Outcomes(log[v].request) :
         k < v /\ log[k].outcome = "approved"

(* The questions and answers the log stands for. *)
AnswerTo(q) ==
  IF Outcomes(q) = {} THEN "pending"
  ELSE IF Approved(q) THEN "approved" ELSE "refused"

Consent == INSTANCE TravellerConsent WITH
  Voices <- Recorders,
  AnyPrice <- NoCost,
  asks <- {[id |-> q, action |-> log[q].action, cost |-> log[q].cost,
            answer |-> AnswerTo(q), heard |-> {log[k].by : k \in Outcomes(q)}]
             : q \in Events("requested")}

(* The log and its racing readers implement the abstract promise. *)
ImplementsConsent == Consent!Spec
=============================================================================
