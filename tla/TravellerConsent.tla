--------------------------- MODULE TravellerConsent ---------------------------
(***************************************************************************)
(* What the authorisation feature promises, with no event log, no polling  *)
(* and no concurrency: a proposed action is put to the traveller, at a     *)
(* price or at none; each voice that carries the traveller's answers is    *)
(* heard at most once on a question, the last one heard counts; and an     *)
(* action may be carried out only on the newest question asked about it,   *)
(* when the answer that counts is "approved" and the price asked at, if    *)
(* one was, is still the price.  Authorisation.tla implements this         *)
(* specification.                                                          *)
(***************************************************************************)
EXTENDS Integers

CONSTANTS
  Actions,  \* proposed actions, by action_id
  Costs,    \* prices an action may carry
  AnyPrice, \* a question that names no price
  Voices,   \* those through whom the traveller may answer
  Ids       \* identities of questions, ordered by the time they are asked

VARIABLES
  asks,     \* the questions put to the traveller, each with its answer
  permit    \* the last permission handed out (a set of at most one)

vars == <<asks, permit>>

Answers == {"approved", "refused"}

Ask == [id : Ids, action : Actions, cost : Costs \union {AnyPrice},
        answer : Answers \union {"pending"}, heard : SUBSET Voices]

Init ==
  /\ asks = {}
  /\ permit = {}

(* The traveller is asked about action a at price c. *)
PutToTraveller(a, c) ==
  \E id \in Ids :
    /\ \A q \in asks : q.id < id
    /\ asks' = asks \union
         {[id |-> id, action |-> a, cost |-> c, answer |-> "pending",
           heard |-> {}]}

(* Voice v gives its one answer to question q. *)
Settle(q, v, answer) ==
  /\ v \notin q.heard
  /\ asks' = (asks \ {q}) \union
       {[id |-> q.id, action |-> q.action, cost |-> q.cost, answer |-> answer,
         heard |-> q.heard \union {v}]}

(* Permission for a at price c, resting on the newest question about a. *)
Permit(a, c) ==
  \E q \in asks :
    /\ q.action = a /\ q.cost \in {c, AnyPrice} /\ q.answer = "approved"
    /\ \A r \in asks : r.action = a => r.id <= q.id
    /\ permit' = {[action |-> a, cost |-> c, request |-> q.id]}

(* A question or an answer moves asks alone, a permission moves permit alone. *)
Next ==
  \/ /\ asks' # asks
     /\ UNCHANGED permit
     /\ \/ \E a \in Actions, c \in Costs \union {AnyPrice} : PutToTraveller(a, c)
        \/ \E q \in asks, v \in Voices, answer \in Answers : Settle(q, v, answer)
  \/ /\ permit' # permit
     /\ UNCHANGED asks
     /\ \E a \in Actions, c \in Costs : Permit(a, c)

Spec == Init /\ [][Next]_vars
=============================================================================
