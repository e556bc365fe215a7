-------------------------------- MODULE Booking --------------------------------
(***************************************************************************)
(* Verifying, ordering, paying for and ticketing one journey:              *)
(* VerificationService, BookingService, JourneyStateService and the tables *)
(* they share, driven the way scripts/capture_runner.py and the impact     *)
(* evaluation drive them, against an Atlas that may answer, lose the       *)
(* answer, decline, ticket late or never.                                  *)
(*                                                                         *)
(* A job is one such caller in its own process or thread.  It runs the     *)
(* services' methods in sequence; `job` holds its local variables.  Every  *)
(* table access or Atlas call that another job could see or disturb is a   *)
(* step of its own.  A job reads the clock once, when it starts, and       *)
(* passes that `now` to every call it makes.                               *)
(***************************************************************************)
EXTENDS Integers, Sequences, FiniteSets

CONSTANTS
  Options,        \* flight options the journey's search returned
  Jobs,           \* callers of the services
  KindOf,         \* what each caller does: "book" or "verify"
  OptionOf,       \* the flight option each caller works on
  TicketAttempts, \* _TICKETING_MAX_ATTEMPTS
  MaxOrders,      \* bound: orders Atlas creates
  MaxClock        \* bound: the clock

ASSUME BookingAssumption ==
  /\ OptionOf \in [Jobs -> Options]
  /\ TicketAttempts \in Nat \ {0}
  /\ MaxOrders \in Nat
  /\ MaxClock \in Nat

VARIABLES
  state,    \* journeys.state
  audit,    \* targets of the STATE_TRANSITION audit entries, in order
  held,     \* held_identifiers, in insertion order
  verified, \* options with a stored verification
  orders,   \* rows of the orders table
  payments, \* rows of the payments table
  queries,  \* per order number: the ticketing_queries rows, by `confirmed`
  atlas,    \* the supplier: its orders by order number
  clock,
  job       \* per caller: program counter and local variables

journey == <<state, audit, held, verified>>
tables == <<orders, payments, queries>>
bookingVars == <<journey, tables, atlas, clock, job>>

OrderNos == 1..MaxOrders
Never == MaxClock + 1

JourneyState == {"OBJECTIVE_CONFIRMED", "SEARCHING", "VERIFIED", "MONITORING",
                 "CANCELLED", "ABANDONED"}

AllowedTransitions ==
  [s \in JourneyState |->
     CASE s = "OBJECTIVE_CONFIRMED" -> {"SEARCHING", "CANCELLED", "ABANDONED"}
       [] s = "SEARCHING" -> {"VERIFIED", "CANCELLED", "ABANDONED"}
       [] s = "VERIFIED" -> {"SEARCHING", "MONITORING", "CANCELLED", "ABANDONED"}
       [] s = "MONITORING" -> {"CANCELLED", "ABANDONED"}
       [] OTHER -> {}]

(* A held identifier is the session that verifying an option opened, or an
   order number kept for its ticketing deadline. *)
Session(o) == [kind |-> "session", option |-> o]
OrderId(n) == [kind |-> "order", no |-> n]
Identifier == {Session(o) : o \in Options} \union {OrderId(n) : n \in OrderNos}
Held == [value : Identifier, issued : 0..MaxClock, stale : 0..Never]

OrderOutcome == {"CREATED", "DUPLICATE_REJECTED", "UNCERTAIN", "ERROR"}
PaymentOutcome == {"SUCCESS", "DECLINED", "UNCERTAIN", "ERROR"}
Verdict == {"VERIFIED", "PRICE_CHANGED", "UNAVAILABLE"}

NoOrder == 0
OrderRow == [option : Options, session : Identifier, outcome : OrderOutcome,
             no : OrderNos \union {NoOrder}, at : 0..MaxClock]
PaymentRow == [no : OrderNos, outcome : PaymentOutcome]

AtlasStatus == {"held", "paid", "partial", "ticketed", "void"}
AtlasOrder == [option : Options, status : AtlasStatus, charges : 0..2]

(* The local variables a caller's frame keeps between two calls. *)
NoSession == [kind |-> "none"]
Frame == [pc : {"idle", "verifying", "checking", "writing", "verified",
                "ordering", "posting", "ordered", "paid", "querying",
                "queried", "ended", "raised", "crashed"},
          now : 0..MaxClock, result : Verdict \union OrderOutcome
            \union PaymentOutcome \union {"none", "CONFIRMED", "UNCONFIRMED"},
          session : Identifier \union {NoSession},
          no : OrderNos \union {NoOrder}, tries : 0..TicketAttempts,
          target : JourneyState, then : {"verified", "ordered", "queried"}]

NewFrame == [pc |-> "idle", now |-> 0, result |-> "none", session |-> NoSession,
             no |-> NoOrder, tries |-> 0, target |-> "SEARCHING",
             then |-> "verified"]

TypeOK ==
  /\ state \in JourneyState
  /\ audit \in Seq(JourneyState)
  /\ held \in Seq(Held)
  /\ verified \subseteq Options
  /\ orders \in Seq(OrderRow)
  /\ payments \subseteq PaymentRow
  /\ queries \in [OrderNos -> Seq(BOOLEAN)]
  /\ atlas \in Seq(AtlasOrder) /\ Len(atlas) <= MaxOrders
  /\ clock \in 0..MaxClock
  /\ job \in [Jobs -> Frame]

Init ==
  /\ state \in {"OBJECTIVE_CONFIRMED", "SEARCHING"}
  /\ audit = <<>> /\ held = <<>> /\ verified = {}
  /\ orders = <<>> /\ payments = {}
  /\ queries = [n \in OrderNos |-> <<>>]
  /\ atlas = <<>>
  /\ clock = 0
  /\ job = [j \in Jobs |-> NewFrame]

-------------------------------------------------------------------------------
(* Callers. *)

At(j, pc) == job[j].pc = pc

(* Caller j continues at pc, with the given local variables. *)
Goto(j, frame, pc) == job' = [job EXCEPT ![j] = [frame EXCEPT !.pc = pc]]

(* The caller stops and its locals are gone; what it had on the wire when it
   crashed is remembered, for the properties alone. *)
Stop(j, pc) ==
  Goto(j, IF pc = "crashed" THEN [NewFrame EXCEPT !.no = job[j].no] ELSE NewFrame,
       pc)

(* An exception leaves the services. *)
Raise(j) == Stop(j, "raised")

Stopped(j) == job[j].pc \in {"ended", "raised", "crashed"}

Start(j) ==
  /\ At(j, "idle")
  /\ Goto(j, [job[j] EXCEPT !.now = clock], "verifying")
  /\ UNCHANGED <<journey, tables, atlas, clock>>

(* Time passes; it only matters between the starts of two callers. *)
Tick ==
  /\ clock < MaxClock
  /\ \E i, j \in Jobs : At(i, "idle") /\ ~ At(j, "idle")
  /\ clock' = clock + 1
  /\ UNCHANGED <<journey, tables, atlas, job>>

(* The process dies between two steps. *)
Crash(j) ==
  /\ ~ Stopped(j) /\ ~ At(j, "idle")
  /\ Stop(j, "crashed")
  /\ UNCHANGED <<journey, tables, atlas, clock>>

-------------------------------------------------------------------------------
(* JourneyStateService.transition: the state is read and checked, then
   written blindly, in separate transactions. *)

(* A service that wants the journey in `target`, and saw it in `from`,
   asks for the transition before returning to `pc`. *)
MaybeTransition(j, frame, from, target, pc) ==
  IF state = from
  THEN Goto(j, [frame EXCEPT !.target = target, !.then = pc], "checking")
  ELSE Goto(j, frame, pc)

CheckTransition(j) ==
  /\ At(j, "checking")
  /\ IF job[j].target \in AllowedTransitions[state]
     THEN Goto(j, job[j], "writing") ELSE Raise(j)
  /\ UNCHANGED <<journey, tables, atlas, clock>>

WriteTransition(j) ==
  /\ At(j, "writing")
  /\ state' = job[j].target
  /\ audit' = Append(audit, job[j].target)
  /\ Goto(j, job[j], job[j].then)
  /\ UNCHANGED <<held, verified, tables, atlas, clock>>

AddHeld(value, issued, stale) ==
  held' = Append(held, [value |-> value, issued |-> issued, stale |-> stale])

-------------------------------------------------------------------------------
(* VerificationService.verify. *)

(* Atlas answers; the verification is stored and, when the option can be
   booked, the session is held that the answer may carry.  Sessions outlive
   every run explored. *)
VerifyAnswered(j, verdict) ==
  /\ At(j, "verifying")
  /\ verified' = verified \union {OptionOf[j]}
  /\ IF verdict = "UNAVAILABLE"
     THEN /\ UNCHANGED held
          /\ MaybeTransition(j, [job[j] EXCEPT !.result = verdict],
                             "VERIFIED", "SEARCHING", "verified")
     ELSE /\ AddHeld(Session(OptionOf[j]), job[j].now, Never) \/ UNCHANGED held
          /\ MaybeTransition(j, [job[j] EXCEPT !.result = verdict],
                             "SEARCHING", "VERIFIED", "verified")
  /\ UNCHANGED <<state, audit, tables, atlas, clock>>

(* The budget is exhausted, the call fails, or the answer is a 429 or cannot
   be parsed (the last two are stored as verifications first). *)
VerifyRaises(j) ==
  /\ At(j, "verifying")
  /\ verified' \in {verified, verified \union {OptionOf[j]}}
  /\ Raise(j)
  /\ UNCHANGED <<state, audit, held, tables, atlas, clock>>

(* What the caller does with the verification: stop, or order the option. *)
FinishVerifying(j) ==
  /\ At(j, "verified")
  /\ IF KindOf[j] = "book" /\ job[j].result = "VERIFIED"
     THEN Goto(j, job[j], "ordering") ELSE Stop(j, "ended")
  /\ KindOf[j] \in {"book", "verify"}
  /\ UNCHANGED <<journey, tables, atlas, clock>>

-------------------------------------------------------------------------------
(* BookingService.create_order. *)

(* _find_session_identifier: the held identifier issued last, whatever it
   identifies; of those issued at the same time, the one inserted last. *)
CurrentSession(i) ==
  /\ i \in 1..Len(held)
  /\ \A k \in 1..Len(held) :
       \/ held[k].issued < held[i].issued
       \/ held[k].issued = held[i].issued /\ k <= i

ReadSession(j) ==
  /\ At(j, "ordering")
  /\ \/ \E i \in 1..Len(held) :
          /\ CurrentSession(i)
          /\ job[j].now < held[i].stale
          /\ OptionOf[j] \in verified
          /\ Goto(j, [job[j] EXCEPT !.session = held[i].value, !.tries = 0],
                  "posting")
     \/ /\ \A i \in 1..Len(held) :
             CurrentSession(i) => \/ job[j].now >= held[i].stale
                                 \/ OptionOf[j] \notin verified
        /\ Raise(j)
  /\ UNCHANGED <<journey, tables, atlas, clock>>

SaveOrder(j, outcome, no) ==
  orders' = Append(orders,
    [option |-> OptionOf[j], session |-> job[j].session, outcome |-> outcome,
     no |-> no, at |-> job[j].now])

(* Atlas books the itinerary the session is for, unless it is no session. *)
AtlasCreates(j) ==
  /\ job[j].session.kind = "session"
  /\ Len(atlas) < MaxOrders
  /\ atlas' = Append(atlas,
       [option |-> job[j].session.option, status |-> "held", charges |-> 0])

(* Live orders Atlas may name when it recognises the request as a repeat. *)
Duplicates(j) ==
  {n \in 1..Len(atlas) : /\ atlas[n].status # "void"
                         /\ job[j].session.kind = "session"
                         /\ atlas[n].option = job[j].session.option}

(* Mutant: only the last of two uncertain attempts is stored. *)
OrderUncertainUnsaved(j) ==
  /\ At(j, "posting")
  /\ AtlasCreates(j) \/ UNCHANGED atlas
  /\ IF job[j].tries = 0
     THEN /\ UNCHANGED orders
          /\ Goto(j, [job[j] EXCEPT !.tries = 1], "posting")
     ELSE /\ SaveOrder(j, "UNCERTAIN", NoOrder)
          /\ Goto(j, [job[j] EXCEPT !.tries = 0, !.result = "UNCERTAIN"], "ordered")
  /\ UNCHANGED <<journey, payments, queries, clock>>

(* The response is lost: UNCERTAIN is stored and the order is tried once more. *)
OrderUncertain(j) ==
  /\ At(j, "posting")
  /\ AtlasCreates(j) \/ UNCHANGED atlas
  /\ SaveOrder(j, "UNCERTAIN", NoOrder)
  /\ IF job[j].tries = 0
     THEN Goto(j, [job[j] EXCEPT !.tries = 1], "posting")
     ELSE Goto(j, [job[j] EXCEPT !.tries = 0, !.result = "UNCERTAIN"], "ordered")
  /\ UNCHANGED <<journey, payments, queries, clock>>

(* status 0: the row, and an identifier for the ticketing deadline when Atlas
   gives one (already past, or beyond the run's frozen clock reading). *)
OrderCreated(j) ==
  /\ At(j, "posting")
  /\ AtlasCreates(j)
  /\ LET n == Len(atlas) + 1 IN
       /\ SaveOrder(j, "CREATED", n)
       /\ \/ UNCHANGED held
          \/ AddHeld(OrderId(n), job[j].now, job[j].now)
          \/ AddHeld(OrderId(n), job[j].now, Never)
       /\ Goto(j, [job[j] EXCEPT !.tries = 0, !.no = n, !.result = "CREATED"],
               "ordered")
  /\ UNCHANGED <<state, audit, verified, payments, queries, clock>>

(* One duplicate: the row, then a query of that order.  More: an anomaly is
   raised with nothing stored. *)
OrderDuplicate(j) ==
  /\ At(j, "posting")
  /\ \/ \E n \in Duplicates(j) :
          /\ SaveOrder(j, "DUPLICATE_REJECTED", n)
          /\ Goto(j, [job[j] EXCEPT !.tries = 0, !.no = n,
                        !.result = "DUPLICATE_REJECTED", !.then = "ordered"],
                  "querying")
     \/ /\ Cardinality(Duplicates(j)) > 1
        /\ Raise(j)
        /\ UNCHANGED orders
  /\ UNCHANGED <<journey, payments, queries, atlas, clock>>

(* Atlas refuses, or its answer cannot be parsed whatever it did. *)
OrderError(j) ==
  /\ At(j, "posting")
  /\ AtlasCreates(j) \/ UNCHANGED atlas
  /\ SaveOrder(j, "ERROR", NoOrder)
  /\ Goto(j, [job[j] EXCEPT !.tries = 0, !.result = "ERROR"], "ordered")
  /\ UNCHANGED <<journey, payments, queries, clock>>

(* status 0 without an order number: a CREATED row that names no order.  Both
   callers look for the number before they go on (capture_runner.py:159,
   recovery_execution_service.py:98) and take the answer for a failure, so
   the frame's result is that of one. *)
OrderUnnumbered(j) ==
  /\ At(j, "posting")
  /\ AtlasCreates(j) \/ UNCHANGED atlas
  /\ SaveOrder(j, "CREATED", NoOrder)
  /\ Goto(j, [job[j] EXCEPT !.tries = 0, !.result = "ERROR"], "ordered")
  /\ UNCHANGED <<journey, payments, queries, clock>>

(* The process dies after Atlas took the request and before the row. *)
CrashOrdering(j) ==
  /\ At(j, "posting")
  /\ AtlasCreates(j)
  /\ Stop(j, "crashed")
  /\ UNCHANGED <<journey, tables, clock>>

-------------------------------------------------------------------------------
(* BookingService.submit_payment. *)

(* get_order_by_order_no returns a row of that order number; rows without one
   are never asked for. *)
CreatedOrder(no) ==
  \E i \in 1..Len(orders) :
    /\ orders[i].no = no /\ no # NoOrder /\ orders[i].outcome = "CREATED"
    /\ \A k \in 1..(i - 1) : orders[k].no # no

Declined(no) == [no |-> no, outcome |-> "DECLINED"] \in payments

(* Atlas charges the traveller for an order that has not lapsed; it is not
   taken to notice that one is paid already. *)
Charge(n) ==
  /\ atlas[n].status # "void"
  /\ atlas' = [atlas EXCEPT ![n].charges = @ + 1, ![n].status =
              IF @ = "held" THEN "paid" ELSE @]

PaymentStored(j, outcome) ==
  /\ payments' = payments \union {[no |-> job[j].no, outcome |-> outcome]}
  /\ Goto(j, [job[j] EXCEPT !.result = outcome], "paid")

(* Mutant: an uncertain payment is simply submitted again. *)
SubmitPaymentRetrying(j) ==
  /\ At(j, "ordered") /\ job[j].result = "CREATED"
  /\ CreatedOrder(job[j].no) /\ ~ Declined(job[j].no)
  /\ \/ Charge(job[j].no) /\ PaymentStored(j, "SUCCESS")
     \/ /\ Charge(job[j].no) \/ UNCHANGED atlas
        /\ PaymentStored(j, "DECLINED")
     \/ /\ Charge(job[j].no)
        /\ payments' = payments \union
                {[no |-> job[j].no, outcome |-> "UNCERTAIN"]}
        /\ UNCHANGED job
  /\ UNCHANGED <<journey, orders, queries, clock>>

(* Mutant: an answer that cannot be parsed leaves as an exception, before the
   payment is stored. *)
SubmitPaymentUnparsedRaises(j) ==
  /\ At(j, "ordered") /\ job[j].result = "CREATED"
  /\ CreatedOrder(job[j].no) /\ ~ Declined(job[j].no)
  /\ \/ Charge(job[j].no) /\ PaymentStored(j, "SUCCESS")
     \/ /\ Charge(job[j].no) \/ UNCHANGED atlas
        /\ Raise(j) /\ UNCHANGED payments
  /\ UNCHANGED <<journey, orders, queries, clock>>

(* Both callers pay only for an order just reported CREATED.  Only status 0
   says that Atlas charged; every other answer is stored as DECLINED, one with
   no status among them, and like a lost or unparsed one it may come from an
   Atlas that charged all the same. *)
SubmitPayment(j) ==
  /\ At(j, "ordered") /\ job[j].result = "CREATED"
  /\ LET n == job[j].no IN
       \/ /\ CreatedOrder(n) /\ ~ Declined(n)
          /\ \/ Charge(n) /\ PaymentStored(j, "SUCCESS")
             \/ /\ Charge(n) \/ UNCHANGED atlas
                /\ \E outcome \in PaymentOutcome \ {"SUCCESS"} :
                     PaymentStored(j, outcome)
       \/ /\ ~ CreatedOrder(n) \/ Declined(n)
          /\ Raise(j)
          /\ UNCHANGED <<payments, atlas>>
  /\ UNCHANGED <<journey, orders, queries, clock>>

CrashPaying(j) ==
  /\ At(j, "ordered") /\ job[j].result = "CREATED"
  /\ CreatedOrder(job[j].no) /\ ~ Declined(job[j].no)
  /\ Charge(job[j].no)
  /\ Stop(j, "crashed")
  /\ UNCHANGED <<journey, tables, clock>>

-------------------------------------------------------------------------------
(* BookingService.confirm_ticketing. *)

(* Mutant: one ticketed passenger is enough. *)
TicketedInPart(n) == atlas[n].status \in {"partial", "ticketed"}

Ticketed(n) == atlas[n].status = "ticketed"

DeadlinePassed(j) ==
  \E i \in 1..Len(held) :
    /\ held[i].value = OrderId(job[j].no) /\ job[j].now >= held[i].stale
    /\ \A k \in 1..(i - 1) : held[k].value # OrderId(job[j].no)

(* After the deadline Atlas is not asked: the last stored query answers. *)
LastQueryConfirmed(no) ==
  queries[no] # <<>> /\ queries[no][Len(queries[no])]

EverConfirmed(no) == \E i \in 1..Len(queries[no]) : queries[no][i]

Outcome(confirmed) == IF confirmed THEN "CONFIRMED" ELSE "UNCONFIRMED"

ConfirmTicketing(j) ==
  /\ \/ At(j, "paid") /\ job[j].result = "SUCCESS"
     \/ /\ At(j, "queried") /\ job[j].result = "UNCONFIRMED"
        /\ KindOf[j] = "book" /\ job[j].tries < TicketAttempts
  /\ LET n == job[j].no IN
       \/ ~ CreatedOrder(n) /\ Raise(j)
       \/ /\ CreatedOrder(n) /\ DeadlinePassed(j)
          /\ Goto(j, [job[j] EXCEPT !.tries = @ + 1,
                        !.result = Outcome(LastQueryConfirmed(n))], "queried")
       \/ /\ CreatedOrder(n) /\ ~ DeadlinePassed(j)
          /\ Goto(j, [job[j] EXCEPT !.tries = @ + 1, !.then = "queried"],
                  "querying")
  /\ UNCHANGED <<journey, tables, atlas, clock>>

(* _query_order: only ticket numbers for every passenger confirm. *)
QueryOrder(j) ==
  /\ At(j, "querying")
  /\ LET confirmed == Ticketed(job[j].no)
         frame == [job[j] EXCEPT !.result =
                     IF job[j].then = "queried" THEN Outcome(confirmed) ELSE @]
     IN  /\ queries' = [queries EXCEPT ![job[j].no] = Append(@, confirmed)]
         /\ IF confirmed
            THEN MaybeTransition(j, frame, "VERIFIED", "MONITORING", job[j].then)
            ELSE Goto(j, frame, job[j].then)
  /\ UNCHANGED <<journey, orders, payments, atlas, clock>>

QueryRaises(j) ==
  /\ At(j, "querying")
  /\ Raise(j)
  /\ UNCHANGED <<journey, tables, atlas, clock>>

(* Mutant: the pipeline forgets to stop when its attempts run out. *)
FinishBookingConfirmed(j) ==
  /\ KindOf[j] = "book"
  /\ \/ At(j, "ordered") /\ job[j].result # "CREATED"
     \/ At(j, "paid") /\ job[j].result # "SUCCESS"
     \/ At(j, "queried") /\ job[j].result = "CONFIRMED"
  /\ Stop(j, "ended")
  /\ UNCHANGED <<journey, tables, atlas, clock>>

(* The pipeline stops at its first disappointment, or when it is done. *)
FinishBooking(j) ==
  /\ KindOf[j] = "book"
  /\ \/ At(j, "ordered") /\ job[j].result # "CREATED"
     \/ At(j, "paid") /\ job[j].result # "SUCCESS"
     \/ At(j, "queried") /\ \/ job[j].result = "CONFIRMED"
                            \/ job[j].tries = TicketAttempts
  /\ Stop(j, "ended")
  /\ UNCHANGED <<journey, tables, atlas, clock>>

-------------------------------------------------------------------------------
(* Atlas tickets a paid order, passenger by passenger or all at once, and
   lets an unpaid one lapse. *)
AtlasSettles ==
  \E n \in 1..Len(atlas), status \in {"partial", "ticketed", "void"} :
    /\ \/ atlas[n].status = "paid" /\ status # "void"
       \/ atlas[n].status = "partial" /\ status = "ticketed"
       \/ atlas[n].status = "held" /\ status = "void"
    /\ atlas' = [atlas EXCEPT ![n].status = status]
    /\ UNCHANGED <<journey, tables, clock, job>>

Verifying(j) ==
  \/ \E verdict \in Verdict : VerifyAnswered(j, verdict)
  \/ VerifyRaises(j) \/ CheckTransition(j) \/ WriteTransition(j)

Buying(j) ==
  \/ ReadSession(j) \/ OrderUncertain(j) \/ OrderCreated(j)
  \/ OrderDuplicate(j) \/ OrderError(j) \/ OrderUnnumbered(j)
  \/ SubmitPayment(j) \/ ConfirmTicketing(j) \/ QueryOrder(j) \/ QueryRaises(j)

Dying(j) == Crash(j) \/ CrashOrdering(j) \/ CrashPaying(j)

CallerStep(j) ==
  Start(j) \/ Verifying(j) \/ FinishVerifying(j) \/ Buying(j) \/ FinishBooking(j)

Next ==
  \/ \E j \in Jobs : CallerStep(j) \/ Dying(j)
  \/ AtlasSettles
  \/ Tick

(* A caller that is running keeps running: it is a thread of a live process. *)
Spec ==
  Init /\ [][Next]_bookingVars
    /\ \A j \in Jobs : WF_bookingVars(CallerStep(j))

-------------------------------------------------------------------------------
(* FR-010 and FR-012 of specs/005: the journey is monitored only once a stored
   query confirmed an order that Atlas ticketed for every passenger and for
   which the traveller was charged. *)
MonitoringIsTicketed ==
  state = "MONITORING" =>
    \E n \in 1..Len(atlas) :
      /\ EverConfirmed(n)
      /\ atlas[n].status = "ticketed" /\ atlas[n].charges > 0

(* However answers are lost, repeated or mistaken for one another, no order is
   charged twice, and only orders with a CREATED row are charged at all. *)
ChargedOnceForCreated ==
  \A n \in 1..Len(atlas) :
    /\ atlas[n].charges <= 1
    /\ atlas[n].charges = 1 =>
         \E i \in 1..Len(orders) :
           orders[i].no = n /\ orders[i].outcome = "CREATED"

(* No booking is lost sight of: the orders at Atlas that no row names are no
   more than the rows that name none and so admit one, plus the callers that
   died with a request on the wire. *)
Named(n) == \E i \in 1..Len(orders) : orders[i].no = n
OrdersAccounted ==
  Cardinality({n \in 1..Len(atlas) : ~ Named(n)})
    <= Cardinality({i \in 1..Len(orders) : orders[i].no = NoOrder})
       + Cardinality({j \in Jobs : At(j, "crashed")})

(* Money spent is on record: an order that was charged has a payment row, if
   only one that reports an uncertain, unreadable or declined payment, unless
   its payer died waiting for the answer.  And the record is no fancy: a row
   that reports success is of an order that was charged. *)
PaymentsAccounted ==
  /\ \A n \in 1..Len(atlas) : atlas[n].charges > 0 =>
       \/ \E p \in payments : p.no = n
       \/ \E j \in Jobs : At(j, "crashed") /\ job[j].no = n
  /\ \A p \in payments : p.outcome = "SUCCESS" =>
       p.no \in 1..Len(atlas) /\ atlas[p.no].charges > 0

(* Every caller that starts comes to a stop: an uncertain order is retried
   once, an unconfirmed ticket is asked for TicketAttempts times. *)
EveryCallerStops == \A j \in Jobs : ~ At(j, "idle") ~> Stopped(j)

(* A bound on the steps a caller has before it: three for a query and the
   transition it may ask for, one for what follows, for every attempt that is
   left to confirm the ticket, and the fixed points before them. *)
Resting(frame, pc) ==
  CASE pc = "verified" -> 4 * TicketAttempts + 9
    [] pc = "ordered" -> 4 * TicketAttempts + 2
    [] OTHER -> 4 * (TicketAttempts - frame.tries) + 1

Left(frame) ==
  CASE frame.pc = "idle" -> 4 * TicketAttempts + 13
    [] frame.pc = "verifying" -> 4 * TicketAttempts + 12
    [] frame.pc = "ordering" -> 4 * TicketAttempts + 8
    [] frame.pc = "posting" ->
         4 * TicketAttempts + (IF frame.tries = 0 THEN 7 ELSE 6)
    [] frame.pc \in {"verified", "ordered", "paid", "queried"} ->
         Resting(frame, frame.pc)
    [] frame.pc = "querying" -> Resting(frame, frame.then) + 3
    [] frame.pc = "checking" -> Resting(frame, frame.then) + 2
    [] frame.pc = "writing" -> Resting(frame, frame.then) + 1
    [] OTHER -> 0

(* No answer of Atlas, no row of another caller and no state of the journey
   makes a caller go round: every step is Atlas's or the clock's, or brings
   one caller nearer to its end and puts no other back. *)
CallersAdvance ==
  [][\/ AtlasSettles \/ Tick
     \/ \E j \in Jobs : /\ Left(job'[j]) < Left(job[j])
                        /\ \A k \in Jobs \ {j} : job'[k] = job[k]]_bookingVars

(* FR-001 of specs/005: an order is created with the session obtained from
   verifying the option it is for. *)
OrderedUnderOwnSession ==
  \A i \in 1..Len(orders) : orders[i].session = Session(orders[i].option)

(* FR-007 of specs/001: the journey's state follows documented edges only. *)
DocumentedTransitions ==
  [][state' # state => state' \in AllowedTransitions[state]]_state
=============================================================================
