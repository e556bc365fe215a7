----------------------------- MODULE BookingProofs -----------------------------
(***************************************************************************)
(* Proofs about Booking for every set of callers and options, any number   *)
(* of orders and ticketing attempts, and whatever Atlas answers: its       *)
(* types, what a monitored journey rests on, that nothing is charged twice *)
(* and that every charge and every order is on record.                     *)
(***************************************************************************)
EXTENDS Booking, SequenceTheorems, FiniteSetTheorems, TLAPS

(* A caller that is about to pay. *)
Awaiting(f) == f.pc = "ordered" /\ f.result = "CREATED"

(* What makes monitoring the journey right. *)
Confirmed ==
  \E n \in 1..Len(atlas) :
    /\ EverConfirmed(n)
    /\ atlas[n].status = "ticketed" /\ atlas[n].charges > 0

(* What a caller's frame knows: a session when it orders, an unpaid order of its
   own when it pays, an order of Atlas when it queries, a ticketed one when it
   asks for monitoring. *)
Sound(f) ==
  /\ f.pc = "posting" => f.session \in Identifier
  /\ f.pc = "paid" \/ Awaiting(f) => f.tries = 0
  /\ f.pc \in {"querying", "checking", "writing"} /\ f.then = "ordered" =>
       f.result = "DUPLICATE_REJECTED"
  /\ f.pc = "querying" => f.no \in 1..Len(atlas)
  /\ Awaiting(f) => f.no \in 1..Len(atlas) /\ atlas[f.no].charges = 0
  /\ f.target = "MONITORING" => Confirmed

(* No two callers are about to pay for the same order. *)
OneEach ==
  \A j, k \in Jobs :
    j # k /\ Awaiting(job[j]) /\ Awaiting(job[k]) => job[j].no # job[k].no

CreatedRow(n) ==
  \E i \in 1..Len(orders) : orders[i].no = n /\ orders[i].outcome = "CREATED"

CreatedAtAtlas ==
  \A i \in 1..Len(orders) :
    orders[i].outcome = "CREATED" /\ orders[i].no # NoOrder =>
      orders[i].no \in 1..Len(atlas)

AtlasSound ==
  \A n \in 1..Len(atlas) :
    /\ atlas[n].charges \in {0, 1}
    /\ atlas[n].charges = 1 => CreatedRow(n)
    /\ atlas[n].status \in {"paid", "partial", "ticketed"} => atlas[n].charges = 1

MoneyInv ==
  /\ \A j \in Jobs : Sound(job[j])
  /\ OneEach /\ CreatedAtAtlas /\ AtlasSound /\ PaymentsAccounted
  /\ state = "MONITORING" => Confirmed

BookingInv == TypeOK /\ MoneyInv

-------------------------------------------------------------------------------
(* Steps that charge nothing. *)

(* Nothing that the invariant rests on is taken back. *)
Keeps ==
  /\ Len(atlas) <= Len(atlas')
  /\ \A n \in 1..Len(atlas) : /\ atlas'[n].charges = atlas[n].charges
                              /\ atlas'[n].status = atlas[n].status
  /\ \A n \in 1..Len(atlas') : n \notin 1..Len(atlas) =>
       atlas'[n].charges = 0 /\ atlas'[n].status = "held"
  /\ \A i \in 1..Len(orders) : i \in 1..Len(orders') /\ orders'[i] = orders[i]
  /\ \A i \in 1..Len(orders') :
       i \notin 1..Len(orders) /\ orders'[i].outcome = "CREATED" =>
         orders'[i].no \in 1..Len(atlas') \union {NoOrder}
  /\ payments \subseteq payments'
  /\ \A p \in payments' : p \in payments \/ p.outcome # "SUCCESS"
  /\ \A n \in 1..Len(atlas) : EverConfirmed(n) => EverConfirmed(n)'

(* The types of everything but the callers, after a step. *)
TypedOthers ==
  /\ state \in JourneyState /\ audit \in Seq(JourneyState) /\ held \in Seq(Held)
  /\ verified \subseteq Options /\ orders \in Seq(OrderRow)
  /\ payments \subseteq PaymentRow
  /\ queries \in [OrderNos -> Seq(BOOLEAN)]
  /\ atlas \in Seq(AtlasOrder) /\ Len(atlas) <= MaxOrders
  /\ clock \in 0..MaxClock

LEMMA Lengths ==
  ASSUME TypeOK
  PROVE  /\ Len(atlas) \in Nat /\ Len(orders) \in Nat /\ Len(held) \in Nat
         /\ DOMAIN atlas = 1..Len(atlas)
         /\ \A n \in 1..Len(atlas) : /\ atlas[n].charges \in 0..2
                                     /\ atlas[n].status \in AtlasStatus
                                     /\ atlas[n].option \in Options
                                     /\ n \in OrderNos
                                     /\ atlas[n] = [option |-> atlas[n].option,
                                                    status |-> atlas[n].status,
                                                    charges |-> atlas[n].charges]
         /\ \A i \in 1..Len(held) : held[i] \in Held
         /\ \A i \in 1..Len(orders) : orders[i] \in OrderRow
<1>1. /\ atlas \in Seq(AtlasOrder) /\ Len(atlas) <= MaxOrders
      /\ orders \in Seq(OrderRow) /\ held \in Seq(Held)
  BY DEF TypeOK
<1>2. /\ Len(atlas) \in Nat /\ Len(orders) \in Nat /\ Len(held) \in Nat
      /\ DOMAIN atlas = 1..Len(atlas)
  BY <1>1, LenProperties
<1>3. /\ \A n \in 1..Len(atlas) : atlas[n] \in AtlasOrder
      /\ \A i \in 1..Len(held) : held[i] \in Held
      /\ \A i \in 1..Len(orders) : orders[i] \in OrderRow
  BY <1>1, ElementOfSeq
<1>4. \A n \in 1..Len(atlas) : n \in OrderNos
  BY <1>1, <1>2, BookingAssumption DEF OrderNos
<1>5. \A x \in AtlasOrder : /\ x.charges \in 0..2 /\ x.status \in AtlasStatus
                            /\ x.option \in Options
                            /\ x = [option |-> x.option, status |-> x.status,
                                    charges |-> x.charges]
  BY DEF AtlasOrder
<1> QED BY <1>2, <1>3, <1>4, <1>5

LEMMA ConfirmedStays ==
  ASSUME TypeOK, Keeps, Confirmed
  PROVE  Confirmed'
<1>1. PICK n \in 1..Len(atlas) :
         EverConfirmed(n) /\ atlas[n].status = "ticketed" /\ atlas[n].charges > 0
  BY DEF Confirmed
<1>2. /\ n \in 1..Len(atlas') /\ EverConfirmed(n)'
      /\ atlas'[n].status = "ticketed" /\ atlas'[n].charges > 0
  BY <1>1, Lengths DEF Keeps
<1> QED BY <1>2 DEF Confirmed

(* A caller that takes a step and charges nothing. *)
LEMMA StepKeeps ==
  ASSUME BookingInv, NEW j \in Jobs, NEW f \in Frame,
         job' = [job EXCEPT ![j] = f], ~At(j, "crashed"),
         Keeps, TypedOthers', Sound(f)',
         Awaiting(f) => f.no \notin 1..Len(atlas),
         state' = "MONITORING" => Confirmed'
  PROVE  BookingInv'
<1>1. TypeOK /\ job \in [Jobs -> Frame]
  BY DEF BookingInv, TypeOK
<1>2. /\ job' \in [Jobs -> Frame] /\ job'[j] = f
      /\ \A k \in Jobs : k # j => job'[k] = job[k]
  BY <1>1
<1>3. TypeOK'
  BY <1>2 DEF TypeOK, TypedOthers
<1>4. \A k \in Jobs : Sound(job[k])
  BY DEF BookingInv, MoneyInv
<1>5. ASSUME NEW k \in Jobs
      PROVE  Sound(job[k])'
  <2>1. CASE k = j
    BY <1>2, <2>1 DEF Sound, Awaiting
  <2>2. CASE k # j
    <3>1. job'[k] = job[k]
      BY <1>2, <2>2
    <3>2. Confirmed => Confirmed'
      BY <1>1, ConfirmedStays
    <3>3. Awaiting(job[k]) =>
            job[k].no \in 1..Len(atlas') /\ atlas'[job[k].no].charges = 0
      BY <1>1, <1>4, Lengths DEF Sound, Keeps
    <3>9. job[k].pc = "querying" => job[k].no \in 1..Len(atlas')
      BY <1>1, <1>4, Lengths DEF Sound, Keeps
    <3>4. PICK g \in Frame : job[k] = g /\ job'[k] = g
      BY <1>1, <3>1
    <3>5. Sound(g) /\ (Awaiting(g) =>
            g.no \in 1..Len(atlas') /\ atlas'[g.no].charges = 0)
          /\ (g.pc = "querying" => g.no \in 1..Len(atlas'))
      BY <1>4, <3>3, <3>9, <3>4
    <3>6. Sound(g)'
      BY <3>2, <3>5 DEF Sound, Awaiting
    <3> QED BY <3>4, <3>6 DEF Sound, Awaiting
  <2> QED BY <2>1, <2>2
<1>6. OneEach'
  <2>1. \A k \in Jobs : Awaiting(job[k]) => job[k].no \in 1..Len(atlas)
    BY <1>4 DEF Sound
  <2> QED BY <1>2, <2>1 DEF BookingInv, MoneyInv, OneEach, Awaiting
<1>7. AtlasSound'
  <2> SUFFICES ASSUME NEW n \in 1..Len(atlas')
               PROVE  /\ atlas'[n].charges \in {0, 1}
                      /\ atlas'[n].charges = 1 => CreatedRow(n)'
                      /\ atlas'[n].status \in {"paid", "partial", "ticketed"} =>
                           atlas'[n].charges = 1
    BY DEF AtlasSound
  <2>1. CASE n \in 1..Len(atlas)
    <3>1. CreatedRow(n) => CreatedRow(n)'
      BY DEF CreatedRow, Keeps
    <3>2. /\ atlas[n].charges \in {0, 1}
          /\ atlas[n].charges = 1 => CreatedRow(n)
          /\ atlas[n].status \in {"paid", "partial", "ticketed"} => atlas[n].charges = 1
      BY <2>1 DEF BookingInv, MoneyInv, AtlasSound
    <3> QED BY <2>1, <3>1, <3>2 DEF Keeps
  <2>2. CASE n \notin 1..Len(atlas)
    BY <2>2 DEF Keeps
  <2> QED BY <2>1, <2>2
<1>8. PaymentsAccounted'
  <2>1. ASSUME NEW n \in 1..Len(atlas'), atlas'[n].charges > 0
        PROVE  \/ \E p \in payments' : p.no = n
               \/ \E k \in Jobs : job'[k].pc = "crashed" /\ job'[k].no = n
    <3>1. n \in 1..Len(atlas) /\ atlas[n].charges > 0
      BY <2>1 DEF Keeps
    <3>2. \/ \E p \in payments : p.no = n
          \/ \E k \in Jobs : job[k].pc = "crashed" /\ job[k].no = n
      BY <3>1 DEF BookingInv, MoneyInv, PaymentsAccounted, At
    <3> QED BY <1>2, <3>2 DEF Keeps, At
  <2>2. ASSUME NEW p \in payments', p.outcome = "SUCCESS"
        PROVE  p.no \in 1..Len(atlas') /\ atlas'[p.no].charges > 0
    <3>1. p \in payments
      BY <2>2 DEF Keeps
    <3>2. p.no \in 1..Len(atlas) /\ atlas[p.no].charges > 0
      BY <2>2, <3>1 DEF BookingInv, MoneyInv, PaymentsAccounted
    <3> QED BY <1>1, <3>2, Lengths DEF Keeps
  <2> QED BY <2>1, <2>2 DEF PaymentsAccounted, At
<1>9. CreatedAtAtlas'
  <2> SUFFICES ASSUME NEW i \in 1..Len(orders'), orders'[i].outcome = "CREATED",
                      orders'[i].no # NoOrder
               PROVE  orders'[i].no \in 1..Len(atlas')
    BY DEF CreatedAtAtlas
  <2>1. CASE i \in 1..Len(orders)
    <3>1. orders[i].no \in 1..Len(atlas)
      BY <2>1 DEF Keeps, BookingInv, MoneyInv, CreatedAtAtlas
    <3> QED BY <1>1, <2>1, <3>1, Lengths DEF Keeps
  <2>2. CASE i \notin 1..Len(orders)
    BY <2>2 DEF Keeps
  <2> QED BY <2>1, <2>2
<1> QED BY <1>3, <1>5, <1>6, <1>7, <1>8, <1>9 DEF BookingInv, MoneyInv

Points == {"idle", "verifying", "checking", "writing", "verified", "ordering",
           "posting", "ordered", "paid", "querying", "queried", "ended", "raised",
           "crashed"}

LEMMA FrameFields ==
  ASSUME NEW f \in Frame
  PROVE  /\ f = [pc |-> f.pc, now |-> f.now, result |-> f.result,
                 session |-> f.session, no |-> f.no, tries |-> f.tries,
                 target |-> f.target, then |-> f.then]
         /\ f.pc \in Points /\ f.now \in 0..MaxClock
         /\ f.result \in Verdict \union OrderOutcome \union PaymentOutcome
                           \union {"none", "CONFIRMED", "UNCONFIRMED"}
         /\ f.session \in Identifier \union {NoSession}
         /\ f.no \in OrderNos \union {NoOrder} /\ f.tries \in 0..TicketAttempts
         /\ f.target \in JourneyState /\ f.then \in {"verified", "ordered", "queried"}
BY DEF Frame, Points

(* One local variable of a frame is assigned. *)
LEMMA WithNow ==
  ASSUME NEW f \in Frame, NEW x \in 0..MaxClock
  PROVE  LET u == [f EXCEPT !.now = x] IN
           /\ u \in Frame /\ u.pc = f.pc /\ u.now = x /\ u.result = f.result
           /\ u.session = f.session /\ u.no = f.no /\ u.tries = f.tries
           /\ u.target = f.target /\ u.then = f.then
<1>1. [f EXCEPT !.now = x] =
        [pc |-> f.pc, now |-> x, result |-> f.result, session |-> f.session,
         no |-> f.no, tries |-> f.tries, target |-> f.target, then |-> f.then]
  BY FrameFields
<1>2. [f EXCEPT !.now = x] \in Frame
  BY <1>1, FrameFields DEF Frame, Points
<1> QED BY <1>1, <1>2

LEMMA WithResult ==
  ASSUME NEW f \in Frame, NEW x \in Verdict \union OrderOutcome \union PaymentOutcome
                   \union {"none", "CONFIRMED", "UNCONFIRMED"}
  PROVE  LET u == [f EXCEPT !.result = x] IN
           /\ u \in Frame /\ u.pc = f.pc /\ u.now = f.now /\ u.result = x
           /\ u.session = f.session /\ u.no = f.no /\ u.tries = f.tries
           /\ u.target = f.target /\ u.then = f.then
<1>1. [f EXCEPT !.result = x] =
        [pc |-> f.pc, now |-> f.now, result |-> x, session |-> f.session, no
         |-> f.no, tries |-> f.tries, target |-> f.target, then |-> f.then]
  BY FrameFields
<1>2. [f EXCEPT !.result = x] \in Frame
  BY <1>1, FrameFields DEF Frame, Points
<1> QED BY <1>1, <1>2

LEMMA WithSession ==
  ASSUME NEW f \in Frame, NEW x \in Identifier \union {NoSession}
  PROVE  LET u == [f EXCEPT !.session = x] IN
           /\ u \in Frame /\ u.pc = f.pc /\ u.now = f.now /\ u.result = f.result
           /\ u.session = x /\ u.no = f.no /\ u.tries = f.tries
           /\ u.target = f.target /\ u.then = f.then
<1>1. [f EXCEPT !.session = x] =
        [pc |-> f.pc, now |-> f.now, result |-> f.result, session |-> x, no
         |-> f.no, tries |-> f.tries, target |-> f.target, then |-> f.then]
  BY FrameFields
<1>2. [f EXCEPT !.session = x] \in Frame
  BY <1>1, FrameFields DEF Frame, Points
<1> QED BY <1>1, <1>2

LEMMA WithNo ==
  ASSUME NEW f \in Frame, NEW x \in OrderNos \union {NoOrder}
  PROVE  LET u == [f EXCEPT !.no = x] IN
           /\ u \in Frame /\ u.pc = f.pc /\ u.now = f.now /\ u.result = f.result
           /\ u.session = f.session /\ u.no = x /\ u.tries = f.tries
           /\ u.target = f.target /\ u.then = f.then
<1>1. [f EXCEPT !.no = x] =
        [pc |-> f.pc, now |-> f.now, result |-> f.result, session |->
         f.session, no |-> x, tries |-> f.tries, target |-> f.target, then |->
         f.then]
  BY FrameFields
<1>2. [f EXCEPT !.no = x] \in Frame
  BY <1>1, FrameFields DEF Frame, Points
<1> QED BY <1>1, <1>2

LEMMA WithTries ==
  ASSUME NEW f \in Frame, NEW x \in 0..TicketAttempts
  PROVE  LET u == [f EXCEPT !.tries = x] IN
           /\ u \in Frame /\ u.pc = f.pc /\ u.now = f.now /\ u.result = f.result
           /\ u.session = f.session /\ u.no = f.no /\ u.tries = x
           /\ u.target = f.target /\ u.then = f.then
<1>1. [f EXCEPT !.tries = x] =
        [pc |-> f.pc, now |-> f.now, result |-> f.result, session |->
         f.session, no |-> f.no, tries |-> x, target |-> f.target, then |->
         f.then]
  BY FrameFields
<1>2. [f EXCEPT !.tries = x] \in Frame
  BY <1>1, FrameFields DEF Frame, Points
<1> QED BY <1>1, <1>2

LEMMA WithTarget ==
  ASSUME NEW f \in Frame, NEW x \in JourneyState
  PROVE  LET u == [f EXCEPT !.target = x] IN
           /\ u \in Frame /\ u.pc = f.pc /\ u.now = f.now /\ u.result = f.result
           /\ u.session = f.session /\ u.no = f.no /\ u.tries = f.tries
           /\ u.target = x /\ u.then = f.then
<1>1. [f EXCEPT !.target = x] =
        [pc |-> f.pc, now |-> f.now, result |-> f.result, session |->
         f.session, no |-> f.no, tries |-> f.tries, target |-> x, then |->
         f.then]
  BY FrameFields
<1>2. [f EXCEPT !.target = x] \in Frame
  BY <1>1, FrameFields DEF Frame, Points
<1> QED BY <1>1, <1>2

LEMMA WithThen ==
  ASSUME NEW f \in Frame, NEW x \in {"verified", "ordered", "queried"}
  PROVE  LET u == [f EXCEPT !.then = x] IN
           /\ u \in Frame /\ u.pc = f.pc /\ u.now = f.now /\ u.result = f.result
           /\ u.session = f.session /\ u.no = f.no /\ u.tries = f.tries
           /\ u.target = f.target /\ u.then = x
<1>1. [f EXCEPT !.then = x] =
        [pc |-> f.pc, now |-> f.now, result |-> f.result, session |->
         f.session, no |-> f.no, tries |-> f.tries, target |-> f.target, then
         |-> x]
  BY FrameFields
<1>2. [f EXCEPT !.then = x] \in Frame
  BY <1>1, FrameFields DEF Frame, Points
<1> QED BY <1>1, <1>2

(* Where a caller goes on, and what it takes along. *)
LEMMA GotoFrame ==
  ASSUME NEW j \in Jobs, NEW g \in Frame, NEW p \in Points, Goto(j, g, p)
  PROVE  \E f \in Frame :
           /\ job' = [job EXCEPT ![j] = f]
           /\ f.pc = p /\ f.now = g.now /\ f.result = g.result
           /\ f.session = g.session /\ f.no = g.no /\ f.tries = g.tries
           /\ f.target = g.target /\ f.then = g.then
<1> DEFINE f == [pc |-> p, now |-> g.now, result |-> g.result,
                 session |-> g.session, no |-> g.no, tries |-> g.tries,
                 target |-> g.target, then |-> g.then]
<1>1. [g EXCEPT !.pc = p] = f
  BY FrameFields
<1>2. f \in Frame
  BY FrameFields DEF Frame, Points
<1>3. job' = [job EXCEPT ![j] = f]
  BY <1>1 DEF Goto
<1>4. /\ f.pc = p /\ f.now = g.now /\ f.result = g.result
      /\ f.session = g.session /\ f.no = g.no /\ f.tries = g.tries
      /\ f.target = g.target /\ f.then = g.then
  OBVIOUS
<1> HIDE DEF f
<1> QED BY <1>2, <1>3, <1>4

(* A caller that touches neither Atlas nor the booking tables. *)
LEMMA QuietStep ==
  ASSUME BookingInv, NEW j \in Jobs, NEW g \in Frame, NEW p \in Points,
         Goto(j, g, p), ~At(j, "crashed"), UNCHANGED <<tables, atlas>>,
         state' \in JourneyState, audit' \in Seq(JourneyState),
         held' \in Seq(Held), verified' \subseteq Options, clock' \in 0..MaxClock,
         p = "posting" => g.session \in Identifier,
         p = "paid" => g.tries = 0,
         p = "querying" => g.no \in 1..Len(atlas),
         p \in {"querying", "checking", "writing"} /\ g.then = "ordered" =>
           g.result = "DUPLICATE_REJECTED",
         p = "ordered" => g.result # "CREATED",
         g.target = "MONITORING" => Confirmed,
         state' = "MONITORING" => Confirmed
  PROVE  BookingInv'
<1>1. PICK f \in Frame :
        /\ job' = [job EXCEPT ![j] = f]
        /\ f.pc = p /\ f.now = g.now /\ f.result = g.result
        /\ f.session = g.session /\ f.no = g.no /\ f.tries = g.tries
        /\ f.target = g.target /\ f.then = g.then
  BY GotoFrame
<1>2. UNCHANGED <<orders, payments, queries, atlas>>
  BY DEF tables
<1>3. Confirmed => Confirmed'
  BY <1>2 DEF Confirmed, EverConfirmed
<1>4. ~Awaiting(f) /\ Sound(f)'
  BY <1>1, <1>3 DEF Awaiting, Sound
<1>5. TypedOthers'
  BY <1>2 DEF BookingInv, TypeOK, TypedOthers
<1>6. Keeps
  <2>1. TypeOK
    BY DEF BookingInv
  <2> QED BY <1>2, <2>1, Lengths DEF Keeps, EverConfirmed
<1> QED BY <1>1, <1>3, <1>4, <1>5, <1>6, StepKeeps

(* What is left of a frame when its caller stops. *)
LEMMA CrashFrame ==
  ASSUME NEW f \in Frame
  PROVE  LET g == [NewFrame EXCEPT !.no = f.no] IN
           g \in Frame /\ g.target = "SEARCHING" /\ g.no = f.no
<1>1. NewFrame \in Frame /\ NewFrame.target = "SEARCHING"
  BY BookingAssumption DEF NewFrame, Frame, NoSession, NoOrder, JourneyState
<1> QED BY <1>1, FrameFields, WithNo

LEMMA StopStep ==
  ASSUME BookingInv, NEW j \in Jobs, NEW p \in {"ended", "raised", "crashed"},
         Stop(j, p), ~At(j, "crashed"), UNCHANGED <<tables, atlas>>,
         UNCHANGED <<state, audit, held, clock>>, verified' \subseteq Options
  PROVE  BookingInv'
<1>1. TypeOK /\ job[j] \in Frame
  BY DEF BookingInv, TypeOK
<1>2. NewFrame \in Frame /\ NewFrame.target = "SEARCHING"
  BY BookingAssumption DEF NewFrame, Frame, NoSession, NoOrder, JourneyState
<1> DEFINE g == IF p = "crashed" THEN [NewFrame EXCEPT !.no = job[j].no] ELSE NewFrame
<1>4. g \in Frame /\ g.target = "SEARCHING"
  BY <1>1, <1>2, CrashFrame
<1>5. Goto(j, g, p)
  BY DEF Stop
<1> HIDE DEF g
<1>6. /\ state' \in JourneyState /\ audit' \in Seq(JourneyState)
      /\ held' \in Seq(Held) /\ clock' \in 0..MaxClock
      /\ state' = "MONITORING" => Confirmed
  BY <1>1 DEF TypeOK, BookingInv, MoneyInv
<1> QED BY <1>4, <1>5, <1>6, QuietStep DEF Points

(* Either the caller goes on, or it asks for the transition first. *)
LEMMA TransitionFrame ==
  ASSUME NEW j \in Jobs, NEW g \in Frame, NEW from, NEW target \in JourneyState,
         NEW p \in {"verified", "ordered", "queried"},
         MaybeTransition(j, g, from, target, p)
  PROVE  \E h \in Frame, q \in {p, "checking"} :
           /\ Goto(j, h, q)
           /\ h.result = g.result /\ h.no = g.no
           /\ q = p => h.target = g.target
           /\ q = "checking" => h.then = p /\ h.target = target
<1>1. CASE state = from
  <2> DEFINE u == [g EXCEPT !.target = target]
             h == [u EXCEPT !.then = p]
  <2>1. [g EXCEPT !.target = target, !.then = p] = h
    OBVIOUS
  <2>2. u \in Frame /\ u.result = g.result /\ u.no = g.no /\ u.target = target
    BY WithTarget
  <2> HIDE DEF u
  <2>3. /\ h \in Frame /\ h.result = g.result /\ h.no = g.no
        /\ h.then = p /\ h.target = target
    BY <2>2, WithThen
  <2> HIDE DEF h
  <2>4. Goto(j, h, "checking") /\ p # "checking"
    BY <1>1, <2>1 DEF MaybeTransition
  <2> QED BY <2>3, <2>4
<1>2. CASE state # from
  <2>1. Goto(j, g, p) /\ p # "checking"
    BY <1>2 DEF MaybeTransition
  <2> QED BY <2>1
<1> QED BY <1>1, <1>2

(* What a caller that moves on keeps of its frame. *)
LEMMA OwnFrame ==
  ASSUME BookingInv, NEW j \in Jobs
  PROVE  /\ TypeOK /\ TypedOthers /\ job[j] \in Frame
         /\ job[j].target = "MONITORING" => Confirmed
         /\ state = "MONITORING" => Confirmed
         /\ At(j, "posting") => job[j].session \in Identifier
         /\ At(j, "paid") => job[j].tries = 0
         /\ job[j].pc \in {"querying", "checking", "writing"}
              /\ job[j].then = "ordered" => job[j].result = "DUPLICATE_REJECTED"
BY DEF BookingInv, TypeOK, TypedOthers, MoneyInv, Sound, At

LEMMA StartStep ==
  ASSUME BookingInv, NEW j \in Jobs, Start(j)
  PROVE  BookingInv'
<1>1. /\ TypeOK /\ job[j] \in Frame /\ (job[j].target = "MONITORING" => Confirmed)
      /\ (state = "MONITORING" => Confirmed)
  BY OwnFrame
<1> DEFINE g == [job[j] EXCEPT !.now = clock]
<1>2. g \in Frame /\ g.target = job[j].target
  BY <1>1, WithNow DEF TypeOK
<1>3. /\ Goto(j, g, "verifying") /\ UNCHANGED <<tables, atlas>>
      /\ UNCHANGED <<state, audit, held, verified, clock>> /\ ~At(j, "crashed")
  BY DEF Start, journey, At
<1> HIDE DEF g
<1> QED BY <1>1, <1>2, <1>3, QuietStep DEF Points, TypeOK

LEMMA TickStep ==
  ASSUME BookingInv, Tick
  PROVE  BookingInv'
<1>1. /\ clock' \in 0..MaxClock
      /\ UNCHANGED <<state, audit, held, verified, orders, payments, queries, atlas, job>>
  BY BookingAssumption DEF BookingInv, TypeOK, Tick, journey, tables
<1>2. Confirmed' = Confirmed
  BY <1>1 DEF Confirmed, EverConfirmed
<1>3. \A f : Sound(f)' = Sound(f)
  BY <1>1, <1>2 DEF Sound, Awaiting
<1>4. TypeOK'
  BY <1>1 DEF BookingInv, TypeOK
<1>5. MoneyInv'
  BY <1>1, <1>2, <1>3
  DEF BookingInv, MoneyInv, OneEach, Awaiting, AtlasSound, CreatedRow,
      CreatedAtAtlas, PaymentsAccounted, At, Sound
<1> QED BY <1>4, <1>5 DEF BookingInv

LEMMA TransitionStep ==
  ASSUME BookingInv, NEW j \in Jobs, CheckTransition(j) \/ WriteTransition(j)
  PROVE  BookingInv'
<1>1. /\ TypeOK /\ TypedOthers /\ job[j] \in Frame
      /\ (job[j].target = "MONITORING" => Confirmed)
      /\ (state = "MONITORING" => Confirmed)
      /\ job[j].pc \in {"querying", "checking", "writing"}
              /\ job[j].then = "ordered" => job[j].result = "DUPLICATE_REJECTED"
  BY OwnFrame
<1>2. job[j].target \in JourneyState /\ job[j].then \in {"verified", "ordered", "queried"}
  BY <1>1, FrameFields
<1>3. CASE CheckTransition(j)
  <2>1. /\ UNCHANGED <<tables, atlas>> /\ UNCHANGED <<state, audit, held, verified, clock>>
        /\ job[j].pc = "checking"
        /\ Goto(j, job[j], "writing") \/ Stop(j, "raised")
    BY <1>3 DEF CheckTransition, journey, At, Raise
  <2>2. CASE Stop(j, "raised")
    BY <1>1, <2>1, <2>2, StopStep DEF TypedOthers, At
  <2>3. CASE Goto(j, job[j], "writing")
    BY <1>1, <2>1, <2>3, QuietStep DEF TypedOthers, At, Points
  <2> QED BY <2>1, <2>2, <2>3
<1>4. CASE WriteTransition(j)
  <2>1. /\ UNCHANGED <<tables, atlas>> /\ UNCHANGED <<held, verified, clock>>
        /\ job[j].pc = "writing" /\ state' = job[j].target
        /\ audit' = Append(audit, job[j].target)
        /\ Goto(j, job[j], job[j].then)
    BY <1>4 DEF WriteTransition, At
  <2>2. audit' \in Seq(JourneyState)
    BY <1>1, <1>2, <2>1, AppendProperties DEF TypedOthers
  <2> QED BY <1>1, <1>2, <2>1, <2>2, QuietStep DEF TypedOthers, At, Points
<1> QED BY <1>3, <1>4

LEMMA HeldGrows ==
  ASSUME TypeOK, NEW v \in Identifier, NEW t \in 0..MaxClock, NEW x \in 0..Never,
         AddHeld(v, t, x)
  PROVE  held' \in Seq(Held)
<1>1. PICK e \in Held : held' = Append(held, e)
  BY DEF AddHeld, Held
<1> QED BY <1>1, AppendProperties DEF TypeOK

LEMMA VerifyStep ==
  ASSUME BookingInv, NEW j \in Jobs, NEW verdict \in Verdict, VerifyAnswered(j, verdict)
  PROVE  BookingInv'
<1>1. /\ TypeOK /\ TypedOthers /\ job[j] \in Frame
      /\ (job[j].target = "MONITORING" => Confirmed)
      /\ (state = "MONITORING" => Confirmed)
  BY OwnFrame
<1> DEFINE g == [job[j] EXCEPT !.result = verdict]
<1>2. g \in Frame /\ g.target = job[j].target
  BY <1>1, WithResult
<1>3. /\ UNCHANGED <<tables, atlas>> /\ UNCHANGED <<state, audit, clock>>
      /\ verified' = verified \union {OptionOf[j]} /\ ~At(j, "crashed")
      /\ held' = held \/ AddHeld(Session(OptionOf[j]), job[j].now, Never)
  BY DEF VerifyAnswered, At
<1>4. OptionOf[j] \in Options
  BY BookingAssumption
<1>5. held' \in Seq(Held)
  <2>1. Never \in 0..Never
    BY BookingAssumption DEF Never
  <2>2. Session(OptionOf[j]) \in Identifier
    BY <1>4 DEF Identifier
  <2>3. job[j].now \in 0..MaxClock
    BY <1>1, FrameFields
  <2> QED BY <1>1, <1>3, <2>1, <2>2, <2>3, HeldGrows DEF TypedOthers
<1>6. PICK target \in {"SEARCHING", "VERIFIED"}, from \in JourneyState :
        MaybeTransition(j, g, from, target, "verified")
  <2>1. CASE verdict = "UNAVAILABLE"
    <3>1. MaybeTransition(j, g, "VERIFIED", "SEARCHING", "verified")
      BY <2>1 DEF VerifyAnswered
    <3> QED BY <3>1 DEF JourneyState
  <2>2. CASE verdict # "UNAVAILABLE"
    <3>1. MaybeTransition(j, g, "SEARCHING", "VERIFIED", "verified")
      BY <2>2 DEF VerifyAnswered
    <3> QED BY <3>1 DEF JourneyState
  <2> QED BY <2>1, <2>2
<1> HIDE DEF g
<1>7. PICK h \in Frame, q \in {"verified", "checking"} :
        /\ Goto(j, h, q)
        /\ q = "verified" => h.target = g.target
        /\ q = "checking" => h.then = "verified" /\ h.target \in {"SEARCHING", "VERIFIED"}
  BY <1>2, <1>6, TransitionFrame DEF JourneyState
<1>8. verified' \subseteq Options
  BY <1>1, <1>3, <1>4 DEF TypedOthers
<1> QED BY <1>1, <1>2, <1>3, <1>5, <1>7, <1>8, QuietStep DEF TypedOthers, Points

LEMMA VerifyEndStep ==
  ASSUME BookingInv, NEW j \in Jobs, VerifyRaises(j) \/ FinishVerifying(j)
  PROVE  BookingInv'
<1>1. /\ TypeOK /\ TypedOthers /\ job[j] \in Frame
      /\ (job[j].target = "MONITORING" => Confirmed)
      /\ (state = "MONITORING" => Confirmed)
  BY OwnFrame
<1>2. CASE VerifyRaises(j)
  <2>1. /\ UNCHANGED <<tables, atlas>> /\ UNCHANGED <<state, audit, held, clock>>
        /\ job[j].pc = "verifying" /\ Stop(j, "raised")
        /\ verified' \in {verified, verified \union {OptionOf[j]}}
    BY <1>2 DEF VerifyRaises, Raise, At
  <2>2. verified' \subseteq Options
    BY <1>1, <2>1, BookingAssumption DEF TypedOthers
  <2> QED BY <2>1, <2>2, StopStep DEF At
<1>3. CASE FinishVerifying(j)
  <2>1. /\ UNCHANGED <<tables, atlas>> /\ UNCHANGED <<state, audit, held, verified, clock>>
        /\ job[j].pc = "verified"
        /\ Goto(j, job[j], "ordering") \/ Stop(j, "ended")
    BY <1>3 DEF FinishVerifying, journey, At
  <2>2. CASE Stop(j, "ended")
    BY <1>1, <2>1, <2>2, StopStep DEF TypedOthers, At
  <2>3. CASE Goto(j, job[j], "ordering")
    BY <1>1, <2>1, <2>3, QuietStep DEF TypedOthers, At, Points
  <2> QED BY <2>1, <2>2, <2>3
<1> QED BY <1>2, <1>3

LEMMA StoppingStep ==
  ASSUME BookingInv, NEW j \in Jobs,
         QueryRaises(j) \/ FinishBooking(j) \/ Crash(j)
  PROVE  BookingInv'
<1>1. /\ UNCHANGED <<tables, atlas>> /\ UNCHANGED <<state, audit, held, verified, clock>>
      /\ ~At(j, "crashed")
      /\ \E p \in {"ended", "raised", "crashed"} : Stop(j, p)
  BY DEF QueryRaises, FinishBooking, Crash, Raise, journey, At, Stopped
<1>2. verified' \subseteq Options
  BY <1>1, OwnFrame DEF TypedOthers
<1> QED BY <1>1, <1>2, StopStep

LEMMA ReadSessionStep ==
  ASSUME BookingInv, NEW j \in Jobs, ReadSession(j)
  PROVE  BookingInv'
<1>1. /\ TypeOK /\ TypedOthers /\ job[j] \in Frame
      /\ (job[j].target = "MONITORING" => Confirmed)
      /\ (state = "MONITORING" => Confirmed)
  BY OwnFrame
<1>2. /\ UNCHANGED <<tables, atlas>> /\ UNCHANGED <<state, audit, held, verified, clock>>
      /\ job[j].pc = "ordering"
  BY DEF ReadSession, journey, At
<1>3. CASE Stop(j, "raised")
  BY <1>1, <1>2, <1>3, StopStep DEF TypedOthers, At
<1>4. CASE \E i \in 1..Len(held) :
             Goto(j, [job[j] EXCEPT !.session = held[i].value, !.tries = 0], "posting")
  <2>1. PICK i \in 1..Len(held) :
          Goto(j, [job[j] EXCEPT !.session = held[i].value, !.tries = 0], "posting")
    BY <1>4
  <2>2. PICK v \in Identifier : v = held[i].value
    BY <1>1, Lengths DEF Held
  <2> DEFINE u == [job[j] EXCEPT !.session = v]
             g == [u EXCEPT !.tries = 0]
  <2>3. Goto(j, g, "posting")
    BY <2>1, <2>2
  <2>4. u \in Frame /\ u.session = v /\ u.target = job[j].target
    BY <1>1, WithSession
  <2> HIDE DEF u
  <2>5. g \in Frame /\ g.session = v /\ g.target = job[j].target
    BY <2>4, WithTries, BookingAssumption
  <2> HIDE DEF g
  <2> QED BY <1>1, <1>2, <2>3, <2>5, QuietStep DEF TypedOthers, At, Points
<1> QED BY <1>3, <1>4 DEF ReadSession, Raise

LEMMA ConfirmStep ==
  ASSUME BookingInv, NEW j \in Jobs, ConfirmTicketing(j)
  PROVE  BookingInv'
<1>1. /\ TypeOK /\ TypedOthers /\ job[j] \in Frame
      /\ (job[j].target = "MONITORING" => Confirmed)
      /\ (state = "MONITORING" => Confirmed)
      /\ (job[j].pc = "paid" => job[j].tries = 0)
  BY OwnFrame DEF At
<1>2. /\ UNCHANGED <<tables, atlas>> /\ UNCHANGED <<state, audit, held, verified, clock>>
      /\ job[j].pc \in {"paid", "queried"}
      /\ job[j].pc = "paid" \/ job[j].tries < TicketAttempts
  BY DEF ConfirmTicketing, journey, At
<1>3. PICK t \in 0..TicketAttempts : t = job[j].tries + 1
  <2>1. job[j].tries \in 0..TicketAttempts
    BY <1>1, FrameFields
  <2> QED BY <1>1, <1>2, <2>1, BookingAssumption
<1> DEFINE u == [job[j] EXCEPT !.tries = t]
<1>4. /\ u \in Frame /\ u.target = job[j].target /\ u.no = job[j].no
  BY <1>1, WithTries
<1>5. CASE Stop(j, "raised")
  BY <1>1, <1>2, <1>5, StopStep DEF TypedOthers, At
<1>6. CASE \E b : Goto(j, [job[j] EXCEPT !.tries = @ + 1, !.result = Outcome(b)], "queried")
  <2>1. PICK r \in {"CONFIRMED", "UNCONFIRMED"} :
          Goto(j, [job[j] EXCEPT !.tries = @ + 1, !.result = r], "queried")
    BY <1>6 DEF Outcome
  <2> DEFINE g == [u EXCEPT !.result = r]
  <2>2. Goto(j, g, "queried")
    BY <1>3, <2>1
  <2> HIDE DEF u
  <2>3. g \in Frame /\ g.target = job[j].target
    BY <1>4, WithResult
  <2> HIDE DEF g
  <2> QED BY <1>1, <1>2, <2>2, <2>3, QuietStep DEF TypedOthers, At, Points
<1>7. CASE /\ CreatedOrder(job[j].no)
           /\ Goto(j, [job[j] EXCEPT !.tries = @ + 1, !.then = "queried"], "querying")
  <2> DEFINE g == [u EXCEPT !.then = "queried"]
  <2>1. Goto(j, g, "querying")
    BY <1>3, <1>7
  <2> HIDE DEF u
  <2>2. g \in Frame /\ g.target = job[j].target /\ g.no = job[j].no /\ g.then = "queried"
    BY <1>4, WithThen
  <2> HIDE DEF g
  <2>3. g.no \in 1..Len(atlas)
    BY <1>7, <2>2 DEF CreatedOrder, BookingInv, MoneyInv, CreatedAtAtlas
  <2> QED BY <1>1, <1>2, <2>1, <2>2, <2>3, QuietStep DEF TypedOthers, At, Points
<1> QED BY <1>5, <1>6, <1>7 DEF ConfirmTicketing, Raise

-------------------------------------------------------------------------------
(* Ordering: Atlas may hold a new, unpaid order; a row may be added. *)

Fresh(o) == [option |-> o, status |-> "held", charges |-> 0]

LEMMA AtlasGrows ==
  ASSUME BookingInv, NEW j \in Jobs, At(j, "posting"),
         AtlasCreates(j) \/ UNCHANGED atlas
  PROVE  /\ atlas' \in Seq(AtlasOrder) /\ Len(atlas') <= MaxOrders
         /\ Len(atlas') \in Nat /\ Len(atlas) <= Len(atlas')
         /\ AtlasCreates(j) => Len(atlas') = Len(atlas) + 1
         /\ \A n \in 1..Len(atlas) : atlas'[n] = atlas[n]
         /\ \A n \in 1..Len(atlas') : n \notin 1..Len(atlas) =>
              atlas'[n].charges = 0 /\ atlas'[n].status = "held"
<1>1. /\ TypeOK /\ job[j].session \in Identifier
  BY OwnFrame
<1>2. /\ atlas \in Seq(AtlasOrder) /\ Len(atlas) \in Nat /\ Len(atlas) <= MaxOrders
      /\ MaxOrders \in Nat
  BY <1>1, Lengths, BookingAssumption DEF TypeOK
<1>3. CASE UNCHANGED atlas /\ ~AtlasCreates(j)
  BY <1>2, <1>3
<1>4. CASE AtlasCreates(j)
  <2>1. PICK o \in Options : job[j].session = Session(o)
    BY <1>1, <1>4 DEF AtlasCreates, Identifier, Session, OrderId
  <2>2. PICK x \in AtlasOrder : atlas' = Append(atlas, x) /\ x = Fresh(o)
    <3>1. atlas' = Append(atlas, Fresh(o))
      BY <1>4, <2>1 DEF AtlasCreates, Fresh, Session
    <3>2. Fresh(o) \in AtlasOrder
      BY DEF Fresh, AtlasOrder, AtlasStatus
    <3> QED BY <3>1, <3>2
  <2>3. /\ atlas' \in Seq(AtlasOrder) /\ Len(atlas') = Len(atlas) + 1
        /\ \A n \in 1..Len(atlas) : atlas'[n] = atlas[n]
        /\ atlas'[Len(atlas) + 1] = x
    BY <1>2, <2>2, AppendProperties
  <2>4. Len(atlas) < MaxOrders
    BY <1>4 DEF AtlasCreates
  <2>5. x.charges = 0 /\ x.status = "held"
    BY <2>2 DEF Fresh
  <2> QED BY <1>2, <2>3, <2>4, <2>5
<1> QED BY <1>3, <1>4

LEMMA OrdersGrow ==
  ASSUME TypeOK, NEW j \in Jobs, NEW out \in OrderOutcome,
         NEW n \in OrderNos \union {NoOrder}, job[j].session \in Identifier,
         SaveOrder(j, out, n)
  PROVE  /\ orders' \in Seq(OrderRow)
         /\ \A i \in 1..Len(orders) : i \in 1..Len(orders') /\ orders'[i] = orders[i]
         /\ \A i \in 1..Len(orders') : i \notin 1..Len(orders) =>
              orders'[i].outcome = out /\ orders'[i].no = n
<1>1. job[j] \in Frame /\ OptionOf[j] \in Options
  BY BookingAssumption DEF TypeOK
<1>2. job[j].now \in 0..MaxClock
  BY <1>1, FrameFields
<1>3. PICK x \in OrderRow :
        orders' = Append(orders, x) /\ x.outcome = out /\ x.no = n
  <2> DEFINE y == [option |-> OptionOf[j], session |-> job[j].session,
                   outcome |-> out, no |-> n, at |-> job[j].now]
  <2>1. y \in OrderRow
    BY <1>1, <1>2 DEF OrderRow
  <2>2. y.outcome = out /\ y.no = n /\ orders' = Append(orders, y)
    BY DEF SaveOrder
  <2> HIDE DEF y
  <2> QED BY <2>1, <2>2
<1>4. orders \in Seq(OrderRow) /\ Len(orders) \in Nat
  BY Lengths DEF TypeOK
<1>5. /\ orders' \in Seq(OrderRow) /\ Len(orders') = Len(orders) + 1
      /\ \A i \in 1..Len(orders) : orders'[i] = orders[i]
      /\ orders'[Len(orders) + 1] = x
  BY <1>3, <1>4, AppendProperties
<1> QED BY <1>3, <1>4, <1>5

(* A caller's step of create_order that leaves a row or dies. *)
LEMMA OrderStep ==
  ASSUME BookingInv, NEW j \in Jobs, At(j, "posting"),
         NEW g \in Frame, NEW p \in Points, Goto(j, g, p),
         AtlasCreates(j) \/ UNCHANGED atlas,
         orders' \in Seq(OrderRow),
         \A i \in 1..Len(orders) : i \in 1..Len(orders') /\ orders'[i] = orders[i],
         \A i \in 1..Len(orders') :
           i \notin 1..Len(orders) /\ orders'[i].outcome = "CREATED" =>
             orders'[i].no \in 1..Len(atlas') \union {NoOrder},
         held' \in Seq(Held),
         UNCHANGED <<state, audit, verified, payments, queries, clock>>,
         p \in {"posting", "ordered", "querying", "raised", "crashed"},
         p = "posting" => g.session \in Identifier,
         p = "querying" => g.no \in 1..Len(atlas) /\ g.result = "DUPLICATE_REJECTED",
         p = "ordered" /\ g.result = "CREATED" =>
           g.tries = 0 /\ g.no \in 1..Len(atlas') /\ g.no \notin 1..Len(atlas),
         g.target = "MONITORING" => Confirmed
  PROVE  BookingInv'
<1>1. PICK f \in Frame :
        /\ job' = [job EXCEPT ![j] = f]
        /\ f.pc = p /\ f.now = g.now /\ f.result = g.result
        /\ f.session = g.session /\ f.no = g.no /\ f.tries = g.tries
        /\ f.target = g.target /\ f.then = g.then
  BY GotoFrame
<1>2. TypeOK /\ TypedOthers /\ (state = "MONITORING" => Confirmed)
  BY OwnFrame
<1>3. /\ atlas' \in Seq(AtlasOrder) /\ Len(atlas') <= MaxOrders
      /\ Len(atlas') \in Nat /\ Len(atlas) <= Len(atlas')
      /\ \A n \in 1..Len(atlas) : atlas'[n] = atlas[n]
      /\ \A n \in 1..Len(atlas') : n \notin 1..Len(atlas) =>
           atlas'[n].charges = 0 /\ atlas'[n].status = "held"
  BY AtlasGrows
<1>4. Keeps
  BY <1>3 DEF Keeps, EverConfirmed
<1>5. TypedOthers'
  BY <1>2, <1>3 DEF TypedOthers
<1>6. Confirmed => Confirmed'
  BY <1>2, <1>4, ConfirmedStays
<1>7. Awaiting(f) => f.no \in 1..Len(atlas') /\ f.no \notin 1..Len(atlas)
  BY <1>1 DEF Awaiting
<1>8. p = "querying" => f.no \in 1..Len(atlas')
  <2>1. Len(atlas) \in Nat
    BY <1>2, Lengths
  <2> QED BY <1>1, <1>3, <2>1
<1>9. Sound(f)'
  BY <1>1, <1>3, <1>6, <1>7, <1>8 DEF Sound, Awaiting
<1>10. ~At(j, "crashed") /\ (state' = "MONITORING" => Confirmed')
  BY <1>2, <1>6 DEF At
<1> QED BY <1>1, <1>4, <1>5, <1>7, <1>9, <1>10, StepKeeps

LEMMA UncertainStep ==
  ASSUME BookingInv, NEW j \in Jobs,
         OrderUncertain(j) \/ OrderError(j) \/ OrderUnnumbered(j)
  PROVE  BookingInv'
<1>1. /\ TypeOK /\ TypedOthers /\ job[j] \in Frame
      /\ (job[j].target = "MONITORING" => Confirmed)
      /\ (At(j, "posting") => job[j].session \in Identifier)
  BY OwnFrame
<1>2. PICK row \in {"UNCERTAIN", "ERROR", "CREATED"}, out \in {"UNCERTAIN", "ERROR"} :
        /\ At(j, "posting") /\ (AtlasCreates(j) \/ UNCHANGED atlas)
        /\ SaveOrder(j, row, NoOrder)
        /\ UNCHANGED <<state, audit, held, verified, payments, queries, clock>>
        /\ \/ Goto(j, [job[j] EXCEPT !.tries = 1], "posting")
           \/ Goto(j, [job[j] EXCEPT !.tries = 0, !.result = out], "ordered")
  BY DEF OrderUncertain, OrderError, OrderUnnumbered, journey
<1>3. /\ orders' \in Seq(OrderRow)
      /\ \A i \in 1..Len(orders) : i \in 1..Len(orders') /\ orders'[i] = orders[i]
      /\ \A i \in 1..Len(orders') : i \notin 1..Len(orders) => orders'[i].no = NoOrder
  BY <1>1, <1>2, OrdersGrow DEF OrderOutcome
<1>4. \A i \in 1..Len(orders') :
        i \notin 1..Len(orders) => orders'[i].no \in 1..Len(atlas') \union {NoOrder}
  BY <1>3
<1>5. held' \in Seq(Held)
  BY <1>1, <1>2 DEF TypedOthers
<1>6. CASE Goto(j, [job[j] EXCEPT !.tries = 1], "posting")
  <2> DEFINE g == [job[j] EXCEPT !.tries = 1]
  <2>3. 1 \in 0..TicketAttempts
    BY BookingAssumption
  <2>1. g \in Frame /\ g.session = job[j].session /\ g.target = job[j].target
    BY <1>1, <2>3, WithTries
  <2>2. Goto(j, g, "posting")
    BY <1>6
  <2> HIDE DEF g
  <2> QED BY <1>1, <1>2, <1>3, <1>4, <1>5, <2>1, <2>2, OrderStep DEF Points
<1>7. CASE Goto(j, [job[j] EXCEPT !.tries = 0, !.result = out], "ordered")
  <2> DEFINE u == [job[j] EXCEPT !.tries = 0]
             g == [u EXCEPT !.result = out]
  <2>1. u \in Frame /\ u.target = job[j].target
    BY <1>1, WithTries, BookingAssumption
  <2>2. Goto(j, g, "ordered")
    BY <1>7
  <2> HIDE DEF u
  <2>3. g \in Frame /\ g.target = job[j].target /\ g.result = out
    BY <2>1, WithResult DEF OrderOutcome
  <2> HIDE DEF g
  <2>4. g.result # "CREATED"
    BY <2>3
  <2> QED BY <1>1, <1>2, <1>3, <1>4, <1>5, <2>2, <2>3, <2>4, OrderStep DEF Points
<1> QED BY <1>2, <1>6, <1>7

LEMMA CreatedStep ==
  ASSUME BookingInv, NEW j \in Jobs, OrderCreated(j)
  PROVE  BookingInv'
<1>1. /\ TypeOK /\ TypedOthers /\ job[j] \in Frame
      /\ (job[j].target = "MONITORING" => Confirmed)
      /\ (At(j, "posting") => job[j].session \in Identifier)
  BY OwnFrame
<1>2. PICK n : n = Len(atlas) + 1
  OBVIOUS
<1>3. /\ At(j, "posting") /\ AtlasCreates(j) /\ SaveOrder(j, "CREATED", n)
      /\ UNCHANGED <<state, audit, verified, payments, queries, clock>>
      /\ \/ UNCHANGED held
         \/ AddHeld(OrderId(n), job[j].now, job[j].now)
         \/ AddHeld(OrderId(n), job[j].now, Never)
      /\ Goto(j, [job[j] EXCEPT !.tries = 0, !.no = n, !.result = "CREATED"], "ordered")
  BY <1>2 DEF OrderCreated
<1>4. /\ n \in OrderNos /\ n \in 1..Len(atlas') /\ n \notin 1..Len(atlas)
  <2>1. Len(atlas') = Len(atlas) + 1 /\ Len(atlas) \in Nat /\ MaxOrders \in Nat
    BY <1>1, <1>3, AtlasGrows, Lengths, BookingAssumption
  <2>2. Len(atlas) < MaxOrders
    BY <1>3 DEF AtlasCreates
  <2> QED BY <1>2, <2>1, <2>2 DEF OrderNos
<1>5. /\ orders' \in Seq(OrderRow)
      /\ \A i \in 1..Len(orders) : i \in 1..Len(orders') /\ orders'[i] = orders[i]
      /\ \A i \in 1..Len(orders') : i \notin 1..Len(orders) => orders'[i].no = n
  BY <1>1, <1>3, <1>4, OrdersGrow DEF OrderOutcome
<1>6. held' \in Seq(Held)
  <2>1. job[j].now \in 0..MaxClock
    BY <1>1, FrameFields
  <2>2. job[j].now \in 0..Never /\ Never \in 0..Never
    BY <2>1, BookingAssumption DEF Never
  <2>3. OrderId(n) \in Identifier
    BY <1>4 DEF Identifier
  <2> QED BY <1>1, <1>3, <2>1, <2>2, <2>3, HeldGrows DEF TypedOthers
<1> DEFINE u == [job[j] EXCEPT !.tries = 0]
           v == [u EXCEPT !.no = n]
           g == [v EXCEPT !.result = "CREATED"]
<1>7. Goto(j, g, "ordered")
  BY <1>3
<1>8. u \in Frame /\ u.target = job[j].target /\ u.tries = 0
  BY <1>1, WithTries, BookingAssumption
<1> HIDE DEF u
<1>9. v \in Frame /\ v.target = job[j].target /\ v.tries = 0 /\ v.no = n
  BY <1>4, <1>8, WithNo
<1> HIDE DEF v
<1>10. g \in Frame /\ g.target = job[j].target /\ g.tries = 0 /\ g.no = n
  BY <1>9, WithResult DEF OrderOutcome
<1> HIDE DEF g
<1> QED BY <1>1, <1>3, <1>4, <1>5, <1>6, <1>7, <1>10, OrderStep DEF Points

LEMMA DuplicateStep ==
  ASSUME BookingInv, NEW j \in Jobs, OrderDuplicate(j)
  PROVE  BookingInv'
<1>1. /\ TypeOK /\ TypedOthers /\ job[j] \in Frame
      /\ (job[j].target = "MONITORING" => Confirmed)
      /\ (At(j, "posting") => job[j].session \in Identifier)
  BY OwnFrame
<1>2. /\ At(j, "posting")
      /\ UNCHANGED <<state, audit, held, verified, payments, queries, atlas, clock>>
  BY DEF OrderDuplicate, journey
<1>3. CASE Raise(j) /\ UNCHANGED orders
  <2>1. UNCHANGED <<tables, atlas>> /\ Stop(j, "raised") /\ ~At(j, "crashed")
        /\ UNCHANGED <<state, audit, held, clock>>
    BY <1>2, <1>3 DEF tables, Raise, At
  <2>2. verified' \subseteq Options
    BY <1>1, <1>2 DEF TypedOthers
  <2> QED BY <2>1, <2>2, StopStep
<1>4. CASE \E n \in Duplicates(j) :
             /\ SaveOrder(j, "DUPLICATE_REJECTED", n)
             /\ Goto(j, [job[j] EXCEPT !.tries = 0, !.no = n,
                           !.result = "DUPLICATE_REJECTED", !.then = "ordered"],
                     "querying")
  <2>1. PICK n \in Duplicates(j) :
             /\ SaveOrder(j, "DUPLICATE_REJECTED", n)
             /\ Goto(j, [job[j] EXCEPT !.tries = 0, !.no = n,
                           !.result = "DUPLICATE_REJECTED", !.then = "ordered"],
                     "querying")
    BY <1>4
  <2>2. n \in 1..Len(atlas) /\ n \in OrderNos
    BY <1>1, Lengths DEF Duplicates
  <2>3. /\ orders' \in Seq(OrderRow)
        /\ \A i \in 1..Len(orders) : i \in 1..Len(orders') /\ orders'[i] = orders[i]
        /\ \A i \in 1..Len(orders') : i \notin 1..Len(orders) => orders'[i].no = n
    BY <1>1, <1>2, <2>1, <2>2, OrdersGrow DEF OrderOutcome
  <2> DEFINE u == [job[j] EXCEPT !.tries = 0]
             v == [u EXCEPT !.no = n]
             w == [v EXCEPT !.result = "DUPLICATE_REJECTED"]
             g == [w EXCEPT !.then = "ordered"]
  <2>4. Goto(j, g, "querying")
    BY <2>1
  <2>5. u \in Frame /\ u.target = job[j].target
    BY <1>1, WithTries, BookingAssumption
  <2> HIDE DEF u
  <2>6. v \in Frame /\ v.target = job[j].target /\ v.no = n
    BY <2>2, <2>5, WithNo
  <2> HIDE DEF v
  <2>7. /\ w \in Frame /\ w.target = job[j].target /\ w.no = n
        /\ w.result = "DUPLICATE_REJECTED"
    BY <2>6, WithResult DEF OrderOutcome
  <2> HIDE DEF w
  <2>8. /\ g \in Frame /\ g.target = job[j].target /\ g.no = n
        /\ g.result = "DUPLICATE_REJECTED"
    BY <2>7, WithThen
  <2> HIDE DEF g
  <2>9. /\ held' \in Seq(Held) /\ atlas' = atlas
    BY <1>1, <1>2 DEF TypedOthers
  <2> QED BY <1>1, <1>2, <2>2, <2>3, <2>4, <2>8, <2>9, OrderStep DEF Points
<1> QED BY <1>3, <1>4 DEF OrderDuplicate

LEMMA CrashOrderingStep ==
  ASSUME BookingInv, NEW j \in Jobs, CrashOrdering(j)
  PROVE  BookingInv'
<1>1. /\ TypeOK /\ TypedOthers /\ job[j] \in Frame
  BY OwnFrame
<1>2. /\ At(j, "posting") /\ AtlasCreates(j) /\ Stop(j, "crashed")
      /\ UNCHANGED <<state, audit, held, verified, orders, payments, queries, clock>>
  BY DEF CrashOrdering, journey, tables
<1>3. \E g \in Frame : Goto(j, g, "crashed") /\ g.target = "SEARCHING"
  <2> DEFINE g == [NewFrame EXCEPT !.no = job[j].no]
  <2>1. Goto(j, g, "crashed")
    BY <1>2 DEF Stop
  <2>2. g \in Frame /\ g.target = "SEARCHING"
    BY <1>1, CrashFrame
  <2> HIDE DEF g
  <2> QED BY <2>1, <2>2
<1>4. orders' \in Seq(OrderRow) /\ held' \in Seq(Held)
  BY <1>1, <1>2 DEF TypedOthers
<1> QED BY <1>2, <1>3, <1>4, OrderStep DEF Points

-------------------------------------------------------------------------------
(* Queries of an order. *)

LEMMA QueryStep ==
  ASSUME BookingInv, NEW j \in Jobs, QueryOrder(j)
  PROVE  BookingInv'
<1>1. /\ TypeOK /\ TypedOthers /\ job[j] \in Frame
      /\ (job[j].target = "MONITORING" => Confirmed)
      /\ (state = "MONITORING" => Confirmed)
  BY OwnFrame
<1>2. PICK n, c : n = job[j].no /\ c = Ticketed(job[j].no)
  OBVIOUS
<1>3. /\ UNCHANGED <<state, audit, held, verified, orders, payments, atlas, clock>>
      /\ job[j].pc = "querying" /\ queries' = [queries EXCEPT ![n] = Append(@, c)]
  BY <1>2 DEF QueryOrder, journey, At
<1>4. /\ n \in 1..Len(atlas) /\ n \in OrderNos
      /\ (job[j].then = "ordered" => job[j].result = "DUPLICATE_REJECTED")
  BY <1>1, <1>2, <1>3, Lengths DEF BookingInv, MoneyInv, Sound
<1>5. c \in BOOLEAN /\ (c => atlas[n].status = "ticketed")
  BY <1>2 DEF Ticketed
<1>6. queries \in [OrderNos -> Seq(BOOLEAN)]
  BY <1>1 DEF TypedOthers
<1>7. PICK q \in Seq(BOOLEAN) : q = queries[n] /\ Len(q) \in Nat
  BY <1>4, <1>6, LenProperties
<1>8. /\ Append(q, c) \in Seq(BOOLEAN) /\ Len(Append(q, c)) = Len(q) + 1
      /\ \A i \in 1..Len(q) : Append(q, c)[i] = q[i]
      /\ Append(q, c)[Len(q) + 1] = c
  BY <1>5, <1>7, AppendProperties
<1>9. /\ queries' \in [OrderNos -> Seq(BOOLEAN)]
      /\ queries'[n] = Append(q, c)
      /\ \A m \in OrderNos : m # n => queries'[m] = queries[m]
  BY <1>3, <1>4, <1>6, <1>7, <1>8
<1>10. \A m \in 1..Len(atlas) : EverConfirmed(m) => EverConfirmed(m)'
  <2> SUFFICES ASSUME NEW m \in 1..Len(atlas), EverConfirmed(m)
               PROVE  \E i \in 1..Len(queries'[m]) : queries'[m][i]
    BY DEF EverConfirmed
  <2>1. m \in OrderNos
    BY <1>1, Lengths
  <2>2. CASE m # n
    BY <1>9, <2>1, <2>2 DEF EverConfirmed
  <2>3. CASE m = n
    <3>1. PICK i \in 1..Len(q) : q[i]
      BY <1>7, <2>3 DEF EverConfirmed
    <3>2. i \in 1..Len(queries'[m]) /\ queries'[m][i] = q[i]
      BY <1>7, <1>8, <1>9, <2>3
    <3> QED BY <3>1, <3>2, Zenon
  <2> QED BY <2>2, <2>3
<1>11. c => Confirmed'
  <2> SUFFICES ASSUME c
               PROVE  Confirmed'
    OBVIOUS
  <2>1. PICK i \in 1..Len(Append(q, c)) : Append(q, c)[i] = c
    <3>1. Len(q) + 1 \in 1..Len(Append(q, c))
      BY <1>7, <1>8
    <3> QED BY <1>8, <3>1
  <2>4. i \in 1..Len(queries'[n]) /\ queries'[n][i] = c
    BY <1>9, <2>1
  <2>2. EverConfirmed(n)'
    BY <2>4, Zenon DEF EverConfirmed
  <2>3. atlas[n].status = "ticketed" /\ atlas[n].charges > 0
    BY <1>4, <1>5 DEF BookingInv, MoneyInv, AtlasSound
  <2> QED BY <1>3, <1>4, <2>2, <2>3 DEF Confirmed
<1>12. Keeps
  <2>1. Len(atlas) \in Nat
    BY <1>1, Lengths
  <2> QED BY <1>3, <1>10, <2>1 DEF Keeps
<1>13. TypedOthers'
  BY <1>1, <1>3, <1>9 DEF TypedOthers
<1>14. Confirmed => Confirmed'
  BY <1>1, <1>12, ConfirmedStays
<1>15. PICK r \in Frame :
         /\ r.no = n /\ r.target = job[j].target /\ r.then = job[j].then
         /\ (r.then = "ordered" => r.result = "DUPLICATE_REJECTED")
         /\ \/ c /\ MaybeTransition(j, r, "VERIFIED", "MONITORING", r.then)
            \/ Goto(j, r, r.then)
  <2>1. PICK x : /\ x = IF job[j].then = "queried" THEN Outcome(c) ELSE job[j].result
                 /\ \/ c /\ MaybeTransition(j, [job[j] EXCEPT !.result = x],
                                            "VERIFIED", "MONITORING", job[j].then)
                    \/ Goto(j, [job[j] EXCEPT !.result = x], job[j].then)
    BY <1>2 DEF QueryOrder
  <2>2. x \in Verdict \union OrderOutcome \union PaymentOutcome
                \union {"none", "CONFIRMED", "UNCONFIRMED"}
    BY <1>1, <2>1, FrameFields DEF Outcome
  <2> DEFINE r == [job[j] EXCEPT !.result = x]
  <2>3. /\ r \in Frame /\ r.no = n /\ r.target = job[j].target
        /\ r.then = job[j].then /\ r.result = x
    BY <1>1, <1>2, <2>2, WithResult
  <2>4. \/ c /\ MaybeTransition(j, r, "VERIFIED", "MONITORING", job[j].then)
        \/ Goto(j, r, job[j].then)
    BY <2>1
  <2> HIDE DEF r
  <2>5. r.then = "ordered" => r.result = "DUPLICATE_REJECTED"
    BY <1>4, <2>1, <2>3
  <2> QED BY <2>3, <2>4, <2>5
<1>16. r.then \in {"verified", "ordered", "queried"}
  BY FrameFields
<1>17. PICK h \in Frame, p \in {r.then, "checking"} :
         /\ Goto(j, h, p) /\ h.result = r.result
         /\ p = r.then => h.target = r.target
         /\ p = "checking" => h.then = r.then /\ h.target = "MONITORING" /\ c
  <2>1. CASE c /\ MaybeTransition(j, r, "VERIFIED", "MONITORING", r.then)
    <3>1. \E h \in Frame, p \in {r.then, "checking"} :
           /\ Goto(j, h, p)
           /\ h.result = r.result /\ h.no = r.no
           /\ p = r.then => h.target = r.target
           /\ p = "checking" => h.then = r.then /\ h.target = "MONITORING"
      BY <1>16, <2>1, TransitionFrame DEF JourneyState
    <3> QED BY <2>1, <3>1
  <2>2. CASE Goto(j, r, r.then)
    BY <1>16, <2>2
  <2> QED BY <1>15, <2>1, <2>2
<1>18. PICK f \in Frame :
        /\ job' = [job EXCEPT ![j] = f]
        /\ f.pc = p /\ f.result = h.result /\ f.target = h.target /\ f.then = h.then
  BY <1>16, <1>17, GotoFrame DEF Points
<1>19. f.target = "MONITORING" => Confirmed'
  BY <1>1, <1>11, <1>14, <1>15, <1>17, <1>18
<1>20. ~Awaiting(f)
  BY <1>15, <1>16, <1>17, <1>18 DEF Awaiting
<1>21. Sound(f)'
  BY <1>15, <1>16, <1>17, <1>18, <1>19, <1>20 DEF Sound, Awaiting
<1>22. ~At(j, "crashed") /\ (state' = "MONITORING" => Confirmed')
  BY <1>1, <1>3, <1>14 DEF At
<1> QED BY <1>12, <1>13, <1>18, <1>20, <1>21, <1>22, StepKeeps

-------------------------------------------------------------------------------
(* Atlas changes one of its orders. *)

LEMMA AtlasUpdated ==
  ASSUME TypeOK, NEW n \in 1..Len(atlas), NEW x \in AtlasOrder,
         atlas' = [atlas EXCEPT ![n] = x]
  PROVE  /\ atlas' \in Seq(AtlasOrder) /\ Len(atlas') = Len(atlas)
         /\ atlas'[n] = x
         /\ \A m \in 1..Len(atlas) : m # n => atlas'[m] = atlas[m]
BY ExceptSeq DEF TypeOK

LEMMA Charged ==
  ASSUME TypeOK, NEW n \in 1..Len(atlas), atlas[n].charges = 0, Charge(n)
  PROVE  /\ atlas' \in Seq(AtlasOrder) /\ Len(atlas') = Len(atlas)
         /\ atlas'[n].charges = 1
         /\ atlas[n].status = "ticketed" => atlas'[n].status = "ticketed"
         /\ \A m \in 1..Len(atlas) : m # n => atlas'[m] = atlas[m]
<1> DEFINE st == IF atlas[n].status = "held" THEN "paid" ELSE atlas[n].status
           x == [option |-> atlas[n].option, status |-> st, charges |-> 1]
<1>1. /\ atlas \in Seq(AtlasOrder) /\ DOMAIN atlas = 1..Len(atlas)
      /\ atlas[n] = [option |-> atlas[n].option, status |-> atlas[n].status,
                     charges |-> atlas[n].charges]
      /\ atlas[n].option \in Options /\ atlas[n].status \in AtlasStatus
  BY Lengths DEF TypeOK
<1>2. st \in AtlasStatus
  BY <1>1 DEF AtlasStatus
<1>3. x \in AtlasOrder /\ x.charges = 1
      /\ (atlas[n].status = "ticketed" => x.status = "ticketed")
  BY <1>1, <1>2 DEF AtlasOrder
<1>4. atlas' = [atlas EXCEPT ![n] = x]
  <2> DEFINE y == [option |-> atlas[n].option, status |-> atlas[n].status, charges |-> 1]
             b == [atlas EXCEPT ![n].charges = @ + 1]
  <2>1. atlas' = [b EXCEPT ![n].status = IF @ = "held" THEN "paid" ELSE @]
    BY DEF Charge
  <2>2. b = [atlas EXCEPT ![n] = y]
    <3>1. [atlas[n] EXCEPT !.charges = atlas[n].charges + 1] = y
      <4>1. atlas[n].charges + 1 = 1
        OBVIOUS
      <4>2. [atlas[n] EXCEPT !.charges = 1] = y
        BY <1>1
      <4> QED BY <4>1, <4>2
    <3>2. b = [atlas EXCEPT ![n] = [atlas[n] EXCEPT !.charges = atlas[n].charges + 1]]
      OBVIOUS
    <3> QED BY <3>1, <3>2
  <2>3. DOMAIN b = 1..Len(atlas) /\ b[n] = y
    BY <1>1, <2>2
  <2>4. y.status = atlas[n].status
    OBVIOUS
  <2>5. [y EXCEPT !.status = st] = x
    OBVIOUS
  <2> HIDE DEF y, x
  <2>6. atlas' = [b EXCEPT ![n] = [b[n] EXCEPT !.status = st]]
    <3>1. b[n].status = atlas[n].status
      BY <2>3, <2>4
    <3> HIDE DEF b
    <3> QED BY <2>1, <3>1
  <2>7. atlas' = [b EXCEPT ![n] = x]
    BY <2>3, <2>5, <2>6
  <2> QED BY <2>2, <2>7
<1> HIDE DEF x
<1> QED BY <1>3, <1>4, AtlasUpdated

(* A caller pays for the order it was told of, and Atlas takes the money. *)
LEMMA ChargeStep ==
  ASSUME BookingInv, NEW j \in Jobs, Awaiting(job[j]), CreatedRow(job[j].no),
         Charge(job[j].no), NEW f \in Frame, job' = [job EXCEPT ![j] = f],
         UNCHANGED <<journey, orders, queries, clock>>,
         payments \subseteq payments', payments' \subseteq PaymentRow,
         (f.pc = "paid" /\ f.tries = 0) \/ f.pc = "crashed",
         f.target = "MONITORING" => Confirmed,
         \A p \in payments' : p \in payments \/ p.no = job[j].no,
         \/ \E p \in payments' : p.no = job[j].no
         \/ f.pc = "crashed" /\ f.no = job[j].no
  PROVE  BookingInv'
<1>1. /\ TypeOK /\ job \in [Jobs -> Frame] /\ (state = "MONITORING" => Confirmed)
      /\ UNCHANGED <<state, audit, held, verified, orders, queries, clock>>
  BY OwnFrame DEF TypeOK, journey
<1>2. PICK n \in 1..Len(atlas) :
        n = job[j].no /\ atlas[n].charges = 0 /\ Charge(n) /\ CreatedRow(n)
  BY DEF BookingInv, MoneyInv, Sound
<1>3. /\ atlas' \in Seq(AtlasOrder) /\ Len(atlas') = Len(atlas)
      /\ atlas'[n].charges = 1
      /\ atlas[n].status = "ticketed" => atlas'[n].status = "ticketed"
      /\ \A m \in 1..Len(atlas) : m # n => atlas'[m] = atlas[m]
  BY <1>1, <1>2, Charged
<1>4. /\ job' \in [Jobs -> Frame] /\ job'[j] = f
      /\ \A k \in Jobs : k # j => job'[k] = job[k]
  BY <1>1
<1>5. TypeOK'
  BY <1>1, <1>3, <1>4 DEF TypeOK
<1>6. Confirmed => Confirmed'
  <2> SUFFICES ASSUME Confirmed
               PROVE  Confirmed'
    OBVIOUS
  <2>1. PICK m \in 1..Len(atlas) :
          EverConfirmed(m) /\ atlas[m].status = "ticketed" /\ atlas[m].charges > 0
    BY DEF Confirmed
  <2>2. m # n
    BY <1>2, <2>1
  <2>3. EverConfirmed(m)' /\ atlas'[m] = atlas[m] /\ m \in 1..Len(atlas')
    BY <1>1, <1>3, <2>1, <2>2 DEF EverConfirmed
  <2> QED BY <2>1, <2>3 DEF Confirmed
<1>7. \A k \in Jobs : Sound(job[k])
  BY DEF BookingInv, MoneyInv
<1>8. \A k \in Jobs : k # j /\ Awaiting(job[k]) => job[k].no # n
  BY <1>2 DEF BookingInv, MoneyInv, OneEach
<1>9. ASSUME NEW k \in Jobs
      PROVE  Sound(job[k])'
  <2>1. CASE k = j
    <3>1. Sound(f)'
      BY <1>6 DEF Sound, Awaiting
    <3> QED BY <1>4, <2>1, <3>1 DEF Sound, Awaiting
  <2>2. CASE k # j
    <3>1. PICK g \in Frame : job[k] = g /\ job'[k] = g
      BY <1>1, <1>4, <2>2
    <3>2. Sound(g) /\ (Awaiting(g) => g.no # n)
      BY <1>7, <1>8, <2>2, <3>1
    <3>3. Awaiting(g) => g.no \in 1..Len(atlas') /\ atlas'[g.no].charges = 0
      BY <1>3, <3>2 DEF Sound
    <3>4. Sound(g)'
      BY <1>3, <1>6, <3>2, <3>3 DEF Sound, Awaiting
    <3> QED BY <3>1, <3>4 DEF Sound, Awaiting
  <2> QED BY <2>1, <2>2
<1>10. OneEach'
  <2>1. ~Awaiting(f)
    BY DEF Awaiting
  <2> QED BY <1>4, <2>1 DEF BookingInv, MoneyInv, OneEach, Awaiting
<1>11. CreatedAtAtlas'
  BY <1>1, <1>3 DEF BookingInv, MoneyInv, CreatedAtAtlas
<1>12. AtlasSound'
  BY <1>1, <1>2, <1>3 DEF BookingInv, MoneyInv, AtlasSound, CreatedRow
<1>13. PaymentsAccounted'
  <2>1. ASSUME NEW m \in 1..Len(atlas'), atlas'[m].charges > 0, m # n
        PROVE  \/ \E p \in payments' : p.no = m
               \/ \E k \in Jobs : job'[k].pc = "crashed" /\ job'[k].no = m
    <3>1. \/ \E p \in payments : p.no = m
          \/ \E k \in Jobs : job[k].pc = "crashed" /\ job[k].no = m
      BY <1>3, <2>1 DEF BookingInv, MoneyInv, PaymentsAccounted, At
    <3>2. job[j].pc # "crashed"
      BY DEF Awaiting
    <3> QED BY <1>4, <3>1, <3>2
  <2>2. \/ \E p \in payments' : p.no = n
        \/ \E k \in Jobs : job'[k].pc = "crashed" /\ job'[k].no = n
    BY <1>2, <1>4
  <2>3. ASSUME NEW p \in payments', p.outcome = "SUCCESS"
        PROVE  p.no \in 1..Len(atlas') /\ atlas'[p.no].charges > 0
    <3>1. CASE p.no = n
      BY <1>3, <3>1
    <3>2. CASE p.no # n
      <4>1. p.no \in 1..Len(atlas) /\ atlas[p.no].charges > 0
        BY <1>2, <2>3, <3>2 DEF BookingInv, MoneyInv, PaymentsAccounted
      <4> QED BY <1>3, <3>2, <4>1
    <3> QED BY <3>1, <3>2
  <2> QED BY <2>1, <2>2, <2>3 DEF PaymentsAccounted, At
<1> QED BY <1>1, <1>5, <1>6, <1>9, <1>10, <1>11, <1>12, <1>13 DEF BookingInv, MoneyInv

(* An answer to a payment is stored and the caller moves on. *)
LEMMA StoredFrame ==
  ASSUME BookingInv, NEW j \in Jobs, Awaiting(job[j]), NEW out \in PaymentOutcome,
         PaymentStored(j, out)
  PROVE  /\ payments' = payments \union {[no |-> job[j].no, outcome |-> out]}
         /\ payments' \subseteq PaymentRow
         /\ \E f \in Frame :
              /\ job' = [job EXCEPT ![j] = f]
              /\ f.pc = "paid" /\ f.tries = 0 /\ f.target = job[j].target
<1>1. /\ TypeOK /\ TypedOthers /\ job[j] \in Frame
  BY OwnFrame
<1>2. job[j].tries = 0 /\ job[j].no \in 1..Len(atlas)
  BY DEF BookingInv, MoneyInv, Sound
<1>3. job[j].no \in OrderNos
  BY <1>1, <1>2, Lengths
<1>4. /\ payments' = payments \union {[no |-> job[j].no, outcome |-> out]}
      /\ payments' \subseteq PaymentRow
  BY <1>1, <1>3 DEF PaymentStored, TypedOthers, PaymentRow
<1> DEFINE g == [job[j] EXCEPT !.result = out]
<1>5. Goto(j, g, "paid")
  BY DEF PaymentStored
<1>6. g \in Frame /\ g.target = job[j].target /\ g.tries = 0
  BY <1>1, <1>2, WithResult
<1> HIDE DEF g
<1>7. PICK f \in Frame :
        /\ job' = [job EXCEPT ![j] = f]
        /\ f.pc = "paid" /\ f.tries = g.tries /\ f.target = g.target
  BY <1>5, <1>6, GotoFrame DEF Points
<1> QED BY <1>4, <1>6, <1>7

LEMMA PaymentStep ==
  ASSUME BookingInv, NEW j \in Jobs, SubmitPayment(j)
  PROVE  BookingInv'
<1>1. /\ TypeOK /\ TypedOthers /\ job[j] \in Frame
      /\ (job[j].target = "MONITORING" => Confirmed)
      /\ (state = "MONITORING" => Confirmed)
  BY OwnFrame
<1>2. /\ Awaiting(job[j]) /\ UNCHANGED <<journey, orders, queries, clock>>
      /\ UNCHANGED <<state, audit, held, verified>>
  BY DEF SubmitPayment, Awaiting, At, journey
<1>3. CASE Raise(j) /\ UNCHANGED <<payments, atlas>>
  <2>1. /\ UNCHANGED <<tables, atlas>> /\ Stop(j, "raised") /\ ~At(j, "crashed")
        /\ UNCHANGED <<state, audit, held, clock>>
    BY <1>2, <1>3 DEF tables, Raise, At, Awaiting
  <2>2. verified' \subseteq Options
    BY <1>1, <1>2 DEF TypedOthers
  <2> QED BY <2>1, <2>2, StopStep
<1>4. CASE \E out \in PaymentOutcome :
             /\ CreatedOrder(job[j].no) /\ Charge(job[j].no) /\ PaymentStored(j, out)
  <2>1. PICK out \in PaymentOutcome : /\ PaymentStored(j, out)
                                     /\ CreatedOrder(job[j].no) /\ Charge(job[j].no)
    BY <1>4
  <2>2. /\ payments' = payments \union {[no |-> job[j].no, outcome |-> out]}
        /\ payments' \subseteq PaymentRow
    BY <1>2, <2>1, StoredFrame
  <2>3. PICK f \in Frame :
              /\ job' = [job EXCEPT ![j] = f]
              /\ f.pc = "paid" /\ f.tries = 0 /\ f.target = job[j].target
    BY <1>2, <2>1, StoredFrame
  <2>4. /\ payments \subseteq payments'
        /\ \A p \in payments' : p \in payments \/ p.no = job[j].no
        /\ \E p \in payments' : p.no = job[j].no
    <3> DEFINE p == [no |-> job[j].no, outcome |-> out]
    <3>1. p.no = job[j].no
      OBVIOUS
    <3>2. payments' = payments \union {p}
      BY <2>2
    <3> HIDE DEF p
    <3> QED BY <3>1, <3>2
  <2>5. CreatedRow(job[j].no)
    BY <2>1 DEF CreatedOrder, CreatedRow
  <2> QED BY <1>1, <1>2, <2>1, <2>2, <2>3, <2>4, <2>5, ChargeStep
<1>5. CASE \E out \in PaymentOutcome \ {"SUCCESS"} :
             UNCHANGED atlas /\ PaymentStored(j, out)
  <2>1. PICK out \in PaymentOutcome :
          out # "SUCCESS" /\ UNCHANGED atlas /\ PaymentStored(j, out)
    BY <1>5
  <2>2. /\ payments' = payments \union {[no |-> job[j].no, outcome |-> out]}
        /\ payments' \subseteq PaymentRow
    BY <1>2, <2>1, StoredFrame
  <2>3. PICK f \in Frame :
              /\ job' = [job EXCEPT ![j] = f]
              /\ f.pc = "paid" /\ f.tries = 0 /\ f.target = job[j].target
    BY <1>2, <2>1, StoredFrame
  <2>4. Keeps
    <3>1. Len(atlas) \in Nat
      BY <1>1, Lengths
    <3>2. \A p \in payments' : p \in payments \/ p.outcome # "SUCCESS"
      BY <2>1, <2>2
    <3> QED BY <1>2, <2>1, <2>2, <3>1, <3>2 DEF Keeps, EverConfirmed
  <2>5. TypedOthers'
    BY <1>1, <1>2, <2>1, <2>2 DEF TypedOthers
  <2>6. Confirmed => Confirmed'
    BY <1>1, <2>4, ConfirmedStays
  <2>7. ~Awaiting(f)
    BY <2>3 DEF Awaiting
  <2>8. Sound(f)'
    BY <1>1, <2>3, <2>6 DEF Sound, Awaiting
  <2>9. ~At(j, "crashed") /\ (state' = "MONITORING" => Confirmed')
    BY <1>1, <1>2, <2>6 DEF Awaiting, At
  <2> QED BY <2>3, <2>4, <2>5, <2>7, <2>8, <2>9, StepKeeps
<1> QED BY <1>3, <1>4, <1>5 DEF SubmitPayment, PaymentOutcome

LEMMA CrashPayingStep ==
  ASSUME BookingInv, NEW j \in Jobs, CrashPaying(j)
  PROVE  BookingInv'
<1>1. /\ TypeOK /\ TypedOthers /\ job[j] \in Frame
  BY OwnFrame
<1>2. /\ Awaiting(job[j]) /\ CreatedRow(job[j].no) /\ Charge(job[j].no)
      /\ Stop(j, "crashed") /\ UNCHANGED <<journey, orders, queries, clock>>
      /\ UNCHANGED payments
  BY DEF CrashPaying, Awaiting, At, CreatedOrder, CreatedRow, tables
<1> DEFINE g == [NewFrame EXCEPT !.no = job[j].no]
<1>3. Goto(j, g, "crashed")
  BY <1>2 DEF Stop
<1>4. g \in Frame /\ g.target = "SEARCHING" /\ g.no = job[j].no
  BY <1>1, CrashFrame
<1> HIDE DEF g
<1>5. PICK f \in Frame :
        /\ job' = [job EXCEPT ![j] = f]
        /\ f.pc = "crashed" /\ f.no = g.no /\ f.target = g.target
  BY <1>3, <1>4, GotoFrame DEF Points
<1>6. payments \subseteq payments' /\ payments' \subseteq PaymentRow
  BY <1>1, <1>2 DEF TypedOthers
<1> QED BY <1>2, <1>4, <1>5, <1>6, ChargeStep

LEMMA AtlasStep ==
  ASSUME BookingInv, AtlasSettles
  PROVE  BookingInv'
<1>1. PICK n \in 1..Len(atlas), status \in {"partial", "ticketed", "void"} :
        /\ \/ atlas[n].status = "paid" /\ status # "void"
           \/ atlas[n].status = "partial" /\ status = "ticketed"
           \/ atlas[n].status = "held" /\ status = "void"
        /\ atlas' = [atlas EXCEPT ![n].status = status]
        /\ UNCHANGED <<journey, tables, clock, job>>
  BY DEF AtlasSettles
<1>2. /\ UNCHANGED <<state, audit, held, verified, orders, payments, queries, clock, job>>
      /\ TypeOK
  BY <1>1 DEF journey, tables, BookingInv
<1>3. PICK x \in AtlasOrder :
        /\ x.status = status /\ x.charges = atlas[n].charges
        /\ atlas' = [atlas EXCEPT ![n] = x]
  <2> DEFINE x == [option |-> atlas[n].option, status |-> status,
                   charges |-> atlas[n].charges]
  <2>1. x \in AtlasOrder /\ x.status = status /\ x.charges = atlas[n].charges
    BY <1>2, Lengths DEF AtlasOrder, AtlasStatus
  <2>2. [atlas[n] EXCEPT !.status = status] = x
    BY <1>2, Lengths
  <2> HIDE DEF x
  <2>3. atlas' = [atlas EXCEPT ![n] = x]
    BY <1>1, <2>2
  <2> QED BY <2>1, <2>3
<1>4. /\ atlas' \in Seq(AtlasOrder) /\ Len(atlas') = Len(atlas)
      /\ atlas'[n] = x
      /\ \A m \in 1..Len(atlas) : m # n => atlas'[m] = atlas[m]
  BY <1>2, <1>3, AtlasUpdated
<1>5. /\ \A m \in 1..Len(atlas) : atlas'[m].charges = atlas[m].charges
      /\ \A m \in 1..Len(atlas) :
           atlas[m].status = "ticketed" => atlas'[m].status = "ticketed"
  BY <1>1, <1>3, <1>4
<1>6. TypeOK'
  BY <1>2, <1>4 DEF TypeOK
<1>7. Confirmed => Confirmed'
  BY <1>2, <1>4, <1>5 DEF Confirmed, EverConfirmed
<1>8. \A j \in Jobs : Sound(job[j])'
  <2> SUFFICES ASSUME NEW j \in Jobs
               PROVE  Sound(job[j])'
    OBVIOUS
  <2>1. PICK g \in Frame : job[j] = g /\ job'[j] = g
    BY <1>2 DEF TypeOK
  <2>2. Sound(g)
    BY <2>1 DEF BookingInv, MoneyInv
  <2>3. Awaiting(g) => g.no \in 1..Len(atlas') /\ atlas'[g.no].charges = 0
    BY <1>4, <1>5, <2>2 DEF Sound
  <2>4. Sound(g)'
    BY <1>4, <1>7, <2>2, <2>3 DEF Sound, Awaiting
  <2> QED BY <2>1, <2>4 DEF Sound, Awaiting
<1>9. OneEach' /\ CreatedAtAtlas'
  BY <1>2, <1>4 DEF BookingInv, MoneyInv, OneEach, Awaiting, CreatedAtAtlas
<1>10. AtlasSound'
  <2> SUFFICES ASSUME NEW m \in 1..Len(atlas')
               PROVE  /\ atlas'[m].charges \in {0, 1}
                      /\ atlas'[m].charges = 1 => CreatedRow(m)'
                      /\ atlas'[m].status \in {"paid", "partial", "ticketed"} =>
                           atlas'[m].charges = 1
    BY DEF AtlasSound
  <2>1. /\ m \in 1..Len(atlas) /\ atlas[m].charges \in {0, 1}
        /\ atlas[m].charges = 1 => CreatedRow(m)
        /\ atlas[m].status \in {"paid", "partial", "ticketed"} => atlas[m].charges = 1
    BY <1>4 DEF BookingInv, MoneyInv, AtlasSound
  <2>2. CreatedRow(m) => CreatedRow(m)'
    BY <1>2 DEF CreatedRow
  <2>3. atlas'[m].status \in {"paid", "partial", "ticketed"} => atlas'[m].charges = 1
    BY <1>1, <1>3, <1>4, <2>1
  <2> QED BY <1>5, <2>1, <2>2, <2>3
<1>11. PaymentsAccounted'
  BY <1>2, <1>4, <1>5 DEF BookingInv, MoneyInv, PaymentsAccounted, At
<1> QED BY <1>2, <1>6, <1>7, <1>8, <1>9, <1>10, <1>11 DEF BookingInv, MoneyInv

-------------------------------------------------------------------------------
LEMMA BookingInit ==
  ASSUME Init
  PROVE  BookingInv
<1>1. NewFrame \in Frame /\ NewFrame.pc = "idle" /\ NewFrame.target = "SEARCHING"
  BY BookingAssumption DEF NewFrame, Frame, NoSession, NoOrder, JourneyState
<1>2. /\ job \in [Jobs -> Frame]
      /\ \A j \in Jobs : job[j].pc = "idle" /\ job[j].target = "SEARCHING"
  BY <1>1 DEF Init
<1>3. /\ atlas = <<>> /\ orders = <<>> /\ Len(atlas) = 0 /\ Len(orders) = 0
      /\ state \in {"OBJECTIVE_CONFIRMED", "SEARCHING"}
  BY DEF Init
<1>4. \A i : i \notin 1..Len(atlas) /\ i \notin 1..Len(orders)
  BY <1>3
<1>5. TypeOK
  BY <1>2, <1>3, BookingAssumption DEF Init, TypeOK, JourneyState
<1>6. \A j \in Jobs : Sound(job[j])
  BY <1>2 DEF Sound, Awaiting
<1>7. OneEach /\ CreatedAtAtlas /\ AtlasSound
  BY <1>2, <1>4 DEF OneEach, Awaiting, CreatedAtAtlas, AtlasSound
<1>8. PaymentsAccounted
  BY <1>4 DEF Init, PaymentsAccounted
<1> QED BY <1>3, <1>5, <1>6, <1>7, <1>8 DEF BookingInv, MoneyInv

LEMMA BookingStutter ==
  ASSUME BookingInv, UNCHANGED bookingVars
  PROVE  BookingInv'
<1>1. UNCHANGED <<state, audit, held, verified, orders, payments, queries, atlas, clock, job>>
  BY DEF bookingVars, journey, tables
<1>2. Confirmed' = Confirmed
  BY <1>1 DEF Confirmed, EverConfirmed
<1>3. TypeOK'
  BY <1>1 DEF BookingInv, TypeOK
<1>4. MoneyInv'
  BY <1>1, <1>2
  DEF BookingInv, MoneyInv, OneEach, Awaiting, AtlasSound, CreatedRow,
      CreatedAtAtlas, PaymentsAccounted, At, Sound
<1> QED BY <1>3, <1>4 DEF BookingInv

LEMMA BookingStep ==
  ASSUME BookingInv, Next
  PROVE  BookingInv'
<1>1. CASE Tick
  BY <1>1, TickStep
<1>2. CASE AtlasSettles
  BY <1>2, AtlasStep
<1>3. ASSUME NEW j \in Jobs, CallerStep(j) \/ Dying(j)
      PROVE  BookingInv'
  <2>1. CASE Start(j) \/ CheckTransition(j) \/ WriteTransition(j)
    BY <2>1, StartStep, TransitionStep
  <2>2. CASE \E verdict \in Verdict : VerifyAnswered(j, verdict)
    BY <2>2, VerifyStep
  <2>3. CASE VerifyRaises(j) \/ FinishVerifying(j)
    BY <2>3, VerifyEndStep
  <2>4. CASE QueryRaises(j) \/ FinishBooking(j) \/ Crash(j)
    BY <2>4, StoppingStep
  <2>5. CASE ReadSession(j) \/ ConfirmTicketing(j) \/ QueryOrder(j)
    BY <2>5, ReadSessionStep, ConfirmStep, QueryStep
  <2>6. CASE \/ OrderUncertain(j) \/ OrderError(j) \/ OrderUnnumbered(j)
             \/ OrderCreated(j) \/ OrderDuplicate(j) \/ CrashOrdering(j)
    BY <2>6, UncertainStep, CreatedStep, DuplicateStep, CrashOrderingStep
  <2>7. CASE SubmitPayment(j) \/ CrashPaying(j)
    BY <2>7, PaymentStep, CrashPayingStep
  <2> QED BY <1>3, <2>1, <2>2, <2>3, <2>4, <2>5, <2>6, <2>7
          DEF CallerStep, Dying, Verifying, Buying
<1> QED BY <1>1, <1>2, <1>3 DEF Next

(* The invariant is kept by every step, whatever is lost, repeated or dies. *)
THEOREM BookingInvariant == Spec => []BookingInv
<1>1. Init => BookingInv
  BY BookingInit
<1>2. BookingInv /\ [Next]_bookingVars => BookingInv'
  BY BookingStep, BookingStutter
<1> QED BY <1>1, <1>2, PTL DEF Spec

(* TypeOK for every set of callers and options and every bound: no row, frame
   or order ever leaves its type, whichever callers interleave or die. *)
THEOREM TypeCorrect == Spec => []TypeOK
<1>1. BookingInv => TypeOK
  BY DEF BookingInv
<1> QED BY <1>1, BookingInvariant, PTL

(* FR-010 and FR-012 of specs/005: _query_order asks for MONITORING only for an
   order Atlas ticketed for every passenger, and by then it was charged. *)
THEOREM Monitored == Spec => []MonitoringIsTicketed
<1>1. BookingInv => MonitoringIsTicketed
  BY DEF BookingInv, MoneyInv, MonitoringIsTicketed, Confirmed
<1> QED BY <1>1, BookingInvariant, PTL

(* create_order's retry, its duplicates and submit_payment's rule that only a
   CREATED order of the caller's own is paid, once, keep any number of callers
   from charging the traveller twice for one order. *)
THEOREM ChargedOnce == Spec => []ChargedOnceForCreated
<1>1. BookingInv => ChargedOnceForCreated
  <2> SUFFICES ASSUME BookingInv, NEW n \in 1..Len(atlas)
               PROVE  /\ atlas[n].charges <= 1
                      /\ atlas[n].charges = 1 => CreatedRow(n)
    BY DEF ChargedOnceForCreated, CreatedRow
  <2>1. /\ atlas[n].charges \in {0, 1}
        /\ atlas[n].charges = 1 => CreatedRow(n)
    BY DEF BookingInv, MoneyInv, AtlasSound
  <2> QED BY <2>1
<1> QED BY <1>1, BookingInvariant, PTL

(* submit_payment stores every answer, a lost, unreadable or declining one too,
   before it goes on: a charge without a payment row means that the payer died
   in the call.  It stores SUCCESS on status 0 alone, so such a row is of a
   charged order. *)
THEOREM ChargesOnRecord == Spec => []PaymentsAccounted
<1>1. BookingInv => PaymentsAccounted
  BY DEF BookingInv, MoneyInv
<1> QED BY <1>1, BookingInvariant, PTL

-------------------------------------------------------------------------------
(* Orders that no row names, against the rows and the dead that excuse them. *)

Unnamed == {n \in 1..Len(atlas) : ~ Named(n)}
Excuses == {i \in 1..Len(orders) : orders[i].no = NoOrder}
Dead == {j \in Jobs : At(j, "crashed")}

AccountInv ==
  /\ BookingInv /\ IsFiniteSet(Dead)
  /\ Cardinality(Unnamed) <= Cardinality(Excuses) + Cardinality(Dead)

(* A set that grows by one member only when one of two others grows stays no
   larger than both. *)
LEMMA StillCovered ==
  ASSUME NEW R, NEW R2, NEW S, NEW S2, NEW D, NEW D2,
         IsFiniteSet(R), IsFiniteSet(S2), IsFiniteSet(D2),
         S \subseteq S2, D \subseteq D2,
         Cardinality(R) <= Cardinality(S) + Cardinality(D),
         \/ R2 \subseteq R
         \/ (S # S2 \/ D # D2) /\ \E n : R2 \subseteq R \union {n}
  PROVE  Cardinality(R2) <= Cardinality(S2) + Cardinality(D2)
<1>1. /\ Cardinality(R) \in Nat /\ Cardinality(S) \in Nat /\ Cardinality(S2) \in Nat
      /\ Cardinality(D) \in Nat /\ Cardinality(D2) \in Nat
      /\ Cardinality(S) <= Cardinality(S2) /\ Cardinality(D) <= Cardinality(D2)
      /\ S # S2 => Cardinality(S) # Cardinality(S2)
      /\ D # D2 => Cardinality(D) # Cardinality(D2)
  <2>1. IsFiniteSet(S) /\ IsFiniteSet(D)
    BY FS_Subset
  <2> QED BY <2>1, FS_Subset, FS_CardinalityType
<1>2. CASE R2 \subseteq R
  <2>1. Cardinality(R2) <= Cardinality(R) /\ Cardinality(R2) \in Nat
    BY <1>2, FS_Subset, FS_CardinalityType
  <2> QED BY <1>1, <2>1
<1>3. ASSUME NEW n, R2 \subseteq R \union {n}, S # S2 \/ D # D2
      PROVE  Cardinality(R2) <= Cardinality(S2) + Cardinality(D2)
  <2>1. /\ IsFiniteSet(R \union {n})
        /\ Cardinality(R \union {n}) \in {Cardinality(R), Cardinality(R) + 1}
    BY FS_AddElement
  <2>2. Cardinality(R2) <= Cardinality(R \union {n}) /\ Cardinality(R2) \in Nat
    BY <1>3, <2>1, FS_Subset, FS_CardinalityType
  <2> QED BY <1>1, <1>3, <2>1, <2>2
<1> QED BY <1>2, <1>3

(* A caller whose call is over does nothing any more, and no step of a caller
   moves another. *)
LEMMA NobodyRestarts ==
  ASSUME NEW j \in Jobs, CallerStep(j) \/ Dying(j)
  PROVE  ~ Stopped(j)
BY DEF CallerStep, Dying, Start, Verifying, FinishVerifying, Buying, FinishBooking,
       VerifyAnswered, VerifyRaises, CheckTransition, WriteTransition, ReadSession,
       OrderUncertain, OrderCreated, OrderDuplicate, OrderError, OrderUnnumbered,
       SubmitPayment,
       ConfirmTicketing, QueryOrder, QueryRaises, Crash, CrashOrdering, CrashPaying,
       Stopped, At

LEMMA OthersStay ==
  ASSUME TypeOK, NEW j \in Jobs, CallerStep(j) \/ Dying(j),
         NEW k \in Jobs, k # j
  PROVE  job'[k] = job[k]
<1>1. job \in [Jobs -> Frame]
  BY DEF TypeOK
<1>2. CASE Verifying(j) \/ Start(j) \/ FinishVerifying(j)
  BY <1>1, <1>2
  DEF Verifying, Start, FinishVerifying, VerifyAnswered, VerifyRaises, CheckTransition,
      WriteTransition, MaybeTransition, Raise, Stop, Goto
<1>3. CASE ReadSession(j) \/ OrderUncertain(j) \/ OrderCreated(j)
           \/ OrderDuplicate(j) \/ OrderError(j) \/ OrderUnnumbered(j)
  BY <1>1, <1>3
  DEF ReadSession, OrderUncertain, OrderCreated, OrderDuplicate, OrderError,
      OrderUnnumbered, Raise, Stop, Goto
<1>4. CASE SubmitPayment(j) \/ ConfirmTicketing(j) \/ QueryOrder(j) \/ QueryRaises(j)
  BY <1>1, <1>4
  DEF SubmitPayment, PaymentStored, ConfirmTicketing, QueryOrder, QueryRaises,
      MaybeTransition, Raise, Stop, Goto
<1>5. CASE FinishBooking(j) \/ Dying(j)
  BY <1>1, <1>5 DEF FinishBooking, Dying, Crash, CrashOrdering, CrashPaying, Stop, Goto
<1> QED BY <1>2, <1>3, <1>4, <1>5 DEF CallerStep, Buying

LEMMA DeadStay ==
  ASSUME TypeOK, NEW j \in Jobs, CallerStep(j) \/ Dying(j)
  PROVE  /\ j \notin Dead /\ Dead \subseteq Dead' /\ Dead' \subseteq Dead \union {j}
         /\ IsFiniteSet(Dead) => IsFiniteSet(Dead')
<1>1. j \notin Dead
  BY NobodyRestarts DEF Stopped, Dead, At
<1>2. Dead \subseteq Dead' /\ Dead' \subseteq Dead \union {j}
  BY <1>1, OthersStay DEF Dead, At
<1> QED BY <1>1, <1>2, FS_AddElement, FS_Subset

LEMMA AccountSets ==
  ASSUME TypeOK
  PROVE  IsFiniteSet(Unnamed) /\ IsFiniteSet(Excuses)
<1>1. IsFiniteSet(1..Len(atlas)) /\ IsFiniteSet(1..Len(orders))
  BY Lengths, FS_Interval
<1>2. Unnamed \subseteq 1..Len(atlas) /\ Excuses \subseteq 1..Len(orders)
  BY DEF Unnamed, Excuses
<1> QED BY <1>1, <1>2, FS_Subset

(* A row is added: what was named stays named, and what was excused, excused. *)
LEMMA RowAdded ==
  ASSUME TypeOK, NEW x, orders' = Append(orders, x)
  PROVE  /\ \A n : Named(n) => Named(n)'
         /\ \E i : i \in 1..Len(orders') /\ orders'[i] = x /\ i \notin 1..Len(orders)
         /\ Excuses \subseteq Excuses'
         /\ x.no = NoOrder => Excuses # Excuses'
<1>1. Len(orders) \in Nat /\ orders \in Seq(OrderRow)
  BY Lengths DEF TypeOK
<1>2. /\ Len(orders') = Len(orders) + 1 /\ orders'[Len(orders) + 1] = x
      /\ \A i \in 1..Len(orders) : orders'[i] = orders[i]
  BY <1>1
<1>3. /\ \A i \in 1..Len(orders) : i \in 1..Len(orders')
      /\ Len(orders) + 1 \in 1..Len(orders')
      /\ Len(orders) + 1 \notin 1..Len(orders)
  BY <1>1, <1>2
<1>4. Excuses \subseteq Excuses'
  BY <1>2, <1>3 DEF Excuses
<1>5. x.no = NoOrder =>
        Len(orders) + 1 \in Excuses' /\ Len(orders) + 1 \notin Excuses
  BY <1>2, <1>3 DEF Excuses
<1> QED BY <1>2, <1>3, <1>4, <1>5 DEF Named

(* The only steps that store an order or may make Atlas create one. *)
LEMMA OrderAccounted ==
  ASSUME BookingInv, NEW j \in Jobs,
         \/ OrderUncertain(j) \/ OrderError(j) \/ OrderUnnumbered(j)
         \/ OrderCreated(j) \/ OrderDuplicate(j) \/ CrashOrdering(j)
  PROVE  /\ Excuses \subseteq Excuses'
         /\ \/ Unnamed' \subseteq Unnamed
            \/ /\ Excuses # Excuses' \/ CrashOrdering(j)
               /\ \E n : Unnamed' \subseteq Unnamed \union {n}
<1>1. /\ TypeOK /\ Len(atlas) \in Nat /\ At(j, "posting")
      /\ AtlasCreates(j) \/ UNCHANGED atlas
  BY Lengths DEF BookingInv, OrderUncertain, OrderError, OrderUnnumbered, OrderCreated,
                 OrderDuplicate, CrashOrdering
<1>2. /\ Len(atlas') \in {Len(atlas), Len(atlas) + 1}
  BY <1>1, AtlasGrows
<1>3. \A n \in 1..Len(atlas') : n \in 1..Len(atlas) \/ n = Len(atlas) + 1
  BY <1>1, <1>2
<1>4. ASSUME NEW x, orders' = Append(orders, x),
             \/ x.no = NoOrder
             \/ UNCHANGED atlas
             \/ x.no = Len(atlas) + 1
      PROVE  /\ Excuses \subseteq Excuses'
             /\ \/ Unnamed' \subseteq Unnamed
                \/ Excuses # Excuses' /\ \E n : Unnamed' \subseteq Unnamed \union {n}
  <2>1. /\ \A n : Named(n) => Named(n)'
        /\ Named(x.no)'
        /\ Excuses \subseteq Excuses'
        /\ x.no = NoOrder => Excuses # Excuses'
    BY <1>1, <1>4, RowAdded DEF Named
  <2>2. Unnamed' \subseteq Unnamed \union {Len(atlas) + 1}
    BY <1>3, <2>1 DEF Unnamed
  <2>3. CASE UNCHANGED atlas
    BY <2>1, <2>3 DEF Unnamed
  <2>4. CASE x.no = Len(atlas) + 1
    BY <2>1, <2>2, <2>4 DEF Unnamed
  <2> QED BY <1>4, <2>1, <2>2, <2>3, <2>4
<1>5. CASE CrashOrdering(j)
  <2>1. UNCHANGED orders
    BY <1>5 DEF CrashOrdering, tables
  <2> QED BY <1>3, <1>5, <2>1 DEF Unnamed, Excuses, Named
<1>6. CASE OrderUncertain(j) \/ OrderError(j) \/ OrderUnnumbered(j)
  <2>1. PICK row \in OrderOutcome : SaveOrder(j, row, NoOrder)
    BY <1>6 DEF OrderUncertain, OrderError, OrderUnnumbered, OrderOutcome
  <2> QED BY <1>4, <2>1 DEF SaveOrder
<1>7. CASE OrderCreated(j)
  <2>1. SaveOrder(j, "CREATED", Len(atlas) + 1)
    BY <1>7 DEF OrderCreated
  <2> QED BY <1>4, <2>1 DEF SaveOrder
<1>8. CASE OrderDuplicate(j)
  <2>1. UNCHANGED atlas
    BY <1>8 DEF OrderDuplicate
  <2>2. UNCHANGED orders \/ \E n : SaveOrder(j, "DUPLICATE_REJECTED", n)
    BY <1>8 DEF OrderDuplicate
  <2>3. UNCHANGED orders => Unnamed' = Unnamed /\ Excuses' = Excuses
    BY <2>1 DEF Unnamed, Excuses, Named
  <2> QED BY <1>4, <2>1, <2>2, <2>3 DEF SaveOrder
<1> QED BY <1>5, <1>6, <1>7, <1>8

(* No other step changes how many orders Atlas has, or the rows. *)
LEMMA OthersAccounted ==
  ASSUME BookingInv, NEW j \in Jobs, CallerStep(j) \/ Dying(j),
         ~(\/ OrderUncertain(j) \/ OrderError(j) \/ OrderUnnumbered(j)
           \/ OrderCreated(j) \/ OrderDuplicate(j) \/ CrashOrdering(j))
  PROVE  Unnamed' = Unnamed /\ Excuses' = Excuses
<1>1. /\ BookingInv' /\ DOMAIN atlas = 1..Len(atlas) /\ DOMAIN atlas' = 1..Len(atlas')
  BY BookingStep, Lengths DEF Next, BookingInv, TypeOK
<1>2. UNCHANGED orders
  BY DEF CallerStep, Dying, Start, Verifying, FinishVerifying, Buying, FinishBooking,
     VerifyAnswered, VerifyRaises, CheckTransition, WriteTransition, ReadSession,
     SubmitPayment, ConfirmTicketing, QueryOrder, QueryRaises, Crash, CrashPaying, tables
<1>3. UNCHANGED atlas \/ \E n : Charge(n)
  BY DEF CallerStep, Dying, Start, Verifying, FinishVerifying, Buying, FinishBooking,
     VerifyAnswered, VerifyRaises, CheckTransition, WriteTransition, ReadSession,
     SubmitPayment, ConfirmTicketing, QueryOrder, QueryRaises, Crash, CrashPaying
<1>4. DOMAIN atlas' = DOMAIN atlas
  BY <1>3 DEF Charge
<1>5. 1..Len(atlas') = 1..Len(atlas)
  BY <1>1, <1>4
<1> QED BY <1>2, <1>5 DEF Unnamed, Excuses, Named

LEMMA AccountStep ==
  ASSUME AccountInv, [Next]_bookingVars
  PROVE  AccountInv'
<1>1. /\ BookingInv /\ BookingInv' /\ TypeOK /\ TypeOK' /\ IsFiniteSet(Dead)
      /\ IsFiniteSet(Unnamed) /\ IsFiniteSet(Excuses)
  BY BookingStep, BookingStutter, AccountSets DEF AccountInv, BookingInv
<1>2. IsFiniteSet(Excuses')
  <2>1. Len(orders') \in Nat
    BY <1>1, LenProperties DEF TypeOK
  <2>2. Excuses' \subseteq 1..Len(orders')
    BY DEF Excuses
  <2>3. IsFiniteSet(1..Len(orders'))
    BY <2>1, FS_Interval
  <2> QED BY <2>2, <2>3, FS_Subset
<1>3. ASSUME UNCHANGED <<job, orders>>, 1..Len(atlas') = 1..Len(atlas)
      PROVE  AccountInv'
  <2>1. Unnamed' = Unnamed /\ Excuses' = Excuses /\ Dead' = Dead
    BY <1>3 DEF Unnamed, Excuses, Dead, Named, At
  <2> QED BY <1>1, <2>1 DEF AccountInv
<1>4. ASSUME NEW j \in Jobs, CallerStep(j) \/ Dying(j)
      PROVE  AccountInv'
  <2>1. /\ j \notin Dead /\ Dead \subseteq Dead' /\ IsFiniteSet(Dead')
    BY <1>1, <1>4, DeadStay
  <2>2. ASSUME CrashOrdering(j)
        PROVE  Dead # Dead'
    <3>1. Stop(j, "crashed")
      BY <2>2 DEF CrashOrdering
    <3>2. job'[j].pc = "crashed"
      <4>1. job \in [Jobs -> Frame] /\ job[j] \in Frame
        BY <1>1 DEF TypeOK
      <4> DEFINE g == [NewFrame EXCEPT !.no = job[j].no]
      <4>2. g \in Frame /\ Goto(j, g, "crashed")
        BY <3>1, <4>1, CrashFrame DEF Stop
      <4> HIDE DEF g
      <4> QED BY <4>1, <4>2, GotoFrame DEF Points
    <3> QED BY <2>1, <3>2 DEF Dead, At
  <2>3. /\ Excuses \subseteq Excuses'
        /\ \/ Unnamed' \subseteq Unnamed
           \/ /\ Excuses # Excuses' \/ Dead # Dead'
              /\ \E n : Unnamed' \subseteq Unnamed \union {n}
    BY <1>1, <1>4, <2>2, OrderAccounted, OthersAccounted
  <2>4. Cardinality(Unnamed') <= Cardinality(Excuses') + Cardinality(Dead')
    BY <1>1, <1>2, <2>1, <2>3, StillCovered DEF AccountInv
  <2> QED BY <1>1, <2>1, <2>4 DEF AccountInv
<1>5. CASE AtlasSettles
  <2>1. UNCHANGED <<job, orders>> /\ DOMAIN atlas' = DOMAIN atlas
    BY <1>5 DEF AtlasSettles, tables
  <2>2. DOMAIN atlas = 1..Len(atlas) /\ DOMAIN atlas' = 1..Len(atlas')
    BY <1>1 DEF TypeOK
  <2> QED BY <1>3, <2>1, <2>2
<1>6. CASE Tick \/ UNCHANGED bookingVars
  BY <1>3, <1>6 DEF Tick, bookingVars, tables
<1> QED BY <1>4, <1>5, <1>6 DEF Next

(* create_order stores a row for every request that was answered or given up,
   before it tries again: an order of Atlas that no row names is matched by a row
   without a number or by a caller that died, however many there are. *)
THEOREM OrdersOnRecord == Spec => []OrdersAccounted
<1>1. Init => AccountInv
  <2> SUFFICES ASSUME Init PROVE AccountInv
    OBVIOUS
  <2>1. BookingInv /\ Dead = {} /\ Unnamed = {}
    BY BookingInit DEF Init, Dead, Unnamed, At, NewFrame
  <2>2. Cardinality(Excuses) \in Nat
    BY <2>1, AccountSets, FS_CardinalityType DEF BookingInv
  <2> QED BY <2>1, <2>2, FS_EmptySet DEF AccountInv
<1>2. AccountInv => OrdersAccounted
  BY DEF AccountInv, OrdersAccounted, Unnamed, Excuses, Dead
<1> QED BY <1>1, <1>2, AccountStep, PTL DEF Spec
-------------------------------------------------------------------------------
(* CallersAdvance: a measure of each caller that all its steps lower. *)

LEMMA LeftAt ==
  ASSUME NEW f \in Frame
  PROVE  LET queried == 4 * (TicketAttempts - f.tries) + 1 IN
           /\ Resting(f, "verified") = 4 * TicketAttempts + 9
           /\ Resting(f, "ordered") = 4 * TicketAttempts + 2
           /\ Resting(f, "paid") = queried /\ Resting(f, "queried") = queried
           /\ f.pc = "idle" => Left(f) = 4 * TicketAttempts + 13
           /\ f.pc = "verifying" => Left(f) = 4 * TicketAttempts + 12
           /\ f.pc = "ordering" => Left(f) = 4 * TicketAttempts + 8
           /\ f.pc = "posting" /\ f.tries = 0 => Left(f) = 4 * TicketAttempts + 7
           /\ f.pc = "posting" /\ f.tries # 0 => Left(f) = 4 * TicketAttempts + 6
           /\ f.pc \in {"verified", "ordered", "paid", "queried"} =>
                Left(f) = Resting(f, f.pc)
           /\ f.pc = "querying" => Left(f) = Resting(f, f.then) + 3
           /\ f.pc = "checking" => Left(f) = Resting(f, f.then) + 2
           /\ f.pc = "writing" => Left(f) = Resting(f, f.then) + 1
           /\ f.pc \in {"ended", "raised", "crashed"} => Left(f) = 0
BY DEF Left, Resting

LEMMA RestingType ==
  ASSUME NEW f \in Frame, NEW p
  PROVE  Resting(f, p) \in Nat /\ Resting(f, p) > 0
<1>1. f.tries \in 0..TicketAttempts /\ TicketAttempts \in Nat
  BY FrameFields, BookingAssumption
<1> QED BY <1>1 DEF Resting

(* Where a caller rests depends on its attempts alone. *)
LEMMA RestingSame ==
  ASSUME NEW f, NEW g, f.tries = g.tries, NEW p
  PROVE  Resting(f, p) = Resting(g, p)
BY DEF Resting

LEMMA StoppingLowers ==
  ASSUME NEW f \in Frame, NEW g \in Frame, g.pc \in {"ended", "raised", "crashed"},
         f.pc \notin {"ended", "raised", "crashed"}
  PROVE  Left(g) < Left(f)
<1>1. Left(g) = 0
  BY LeftAt
<1>2. Left(f) \in Nat /\ Left(f) > 0
  <2>1. /\ TicketAttempts \in Nat /\ f.pc \in Points
    BY FrameFields, BookingAssumption
  <2>2. CASE f.pc \in {"idle", "verifying", "ordering", "posting"}
    BY <2>1, <2>2, LeftAt
  <2>3. CASE f.pc \in {"verified", "ordered", "paid", "queried"}
    BY <2>1, <2>3, LeftAt, RestingType
  <2>4. CASE f.pc \in {"querying", "checking", "writing"}
    BY <2>1, <2>4, LeftAt, RestingType
  <2> QED BY <2>1, <2>2, <2>3, <2>4 DEF Points
<1> QED BY <1>1, <1>2

(* The ways a caller goes on. *)
LEMMA GoingLowers ==
  ASSUME NEW f \in Frame, NEW g \in Frame,
         \/ f.pc = "idle" /\ g.pc = "verifying"
         \/ /\ f.pc = "verifying"
            /\ g.pc = "verified" \/ (g.pc = "checking" /\ g.then = "verified")
         \/ /\ f.pc = "checking" /\ g.pc = "writing"
            /\ g.then = f.then /\ g.tries = f.tries
         \/ f.pc = "writing" /\ g.pc = f.then /\ g.tries = f.tries
         \/ f.pc = "verified" /\ g.pc = "ordering"
         \/ f.pc = "ordering" /\ g.pc = "posting"
         \/ f.pc = "posting" /\ f.tries = 0 /\ g.pc = "posting" /\ g.tries # 0
         \/ /\ f.pc = "posting"
            /\ g.pc = "ordered" \/ (g.pc = "querying" /\ g.then = "ordered")
         \/ f.pc = "ordered" /\ g.pc = "paid"
         \/ /\ f.pc \in {"paid", "queried"} /\ g.tries = f.tries + 1
            /\ g.pc = "queried" \/ (g.pc = "querying" /\ g.then = "queried")
         \/ /\ f.pc = "querying" /\ g.tries = f.tries
            /\ g.pc = f.then \/ (g.pc = "checking" /\ g.then = f.then)
  PROVE  Left(g) < Left(f)
<1>1. /\ TicketAttempts \in Nat /\ f.tries \in 0..TicketAttempts
      /\ g.tries \in 0..TicketAttempts
      /\ f.pc \in Points /\ f.then \in {"verified", "ordered", "queried"}
  BY FrameFields, BookingAssumption
<1>2. /\ f.tries \in Nat /\ g.tries \in Nat
      /\ f.tries <= TicketAttempts /\ g.tries <= TicketAttempts
  BY <1>1
<1>3. CASE f.pc \in {"idle", "verifying", "verified", "ordering"}
  BY <1>1, <1>2, <1>3, LeftAt
<1>4. CASE f.pc = "posting"
  BY <1>1, <1>2, <1>4, LeftAt
<1>5. CASE f.pc \in {"ordered", "paid", "queried"}
  BY <1>1, <1>2, <1>5, LeftAt
<1>6. CASE f.pc \in {"querying", "checking", "writing"}
  <2>1. g.tries = f.tries
    BY <1>6
  <2>2. Resting(g, f.then) = Resting(f, f.then) /\ Resting(f, f.then) \in Nat
    BY <2>1, RestingSame, RestingType
  <2>3. g.pc = f.then => Left(g) = Resting(f, f.then)
    BY <1>1, <2>2, LeftAt
  <2>4. g.pc \in {"checking", "writing"} /\ g.then = f.then =>
          /\ g.pc = "checking" => Left(g) = Resting(f, f.then) + 2
          /\ g.pc = "writing" => Left(g) = Resting(f, f.then) + 1
    BY <2>2, LeftAt
  <2>5. /\ f.pc = "querying" => Left(f) = Resting(f, f.then) + 3
        /\ f.pc = "checking" => Left(f) = Resting(f, f.then) + 2
        /\ f.pc = "writing" => Left(f) = Resting(f, f.then) + 1
    BY LeftAt
  <2> QED BY <1>6, <2>2, <2>3, <2>4, <2>5
<1> QED BY <1>3, <1>4, <1>5, <1>6

LEMMA GoesTo ==
  ASSUME TypeOK, NEW j \in Jobs, NEW g \in Frame, NEW p \in Points, Goto(j, g, p)
  PROVE  /\ job'[j] \in Frame /\ job'[j].pc = p
         /\ job'[j].tries = g.tries /\ job'[j].then = g.then
<1>1. PICK f \in Frame :
        /\ job' = [job EXCEPT ![j] = f]
        /\ f.pc = p /\ f.tries = g.tries /\ f.then = g.then
  BY GotoFrame
<1> QED BY <1>1 DEF TypeOK

LEMMA StopLowers ==
  ASSUME TypeOK, NEW j \in Jobs, NEW p \in {"ended", "raised", "crashed"},
         Stop(j, p), ~ Stopped(j)
  PROVE  Left(job'[j]) < Left(job[j])
<1> DEFINE g == IF p = "crashed" THEN [NewFrame EXCEPT !.no = job[j].no] ELSE NewFrame
<1>1. job[j] \in Frame /\ NewFrame \in Frame
  BY BookingAssumption DEF TypeOK, NewFrame, Frame, NoSession, NoOrder, JourneyState
<1>2. g \in Frame /\ Goto(j, g, p)
  BY <1>1, CrashFrame DEF Stop
<1> HIDE DEF g
<1>3. job'[j] \in Frame /\ job'[j].pc = p
  BY <1>2, GoesTo DEF Points
<1> QED BY <1>1, <1>3, StoppingLowers DEF Stopped

LEMMA TransitionGoes ==
  ASSUME TypeOK, NEW j \in Jobs, NEW g \in Frame, NEW from, NEW target \in JourneyState,
         NEW p \in {"verified", "ordered", "queried"},
         MaybeTransition(j, g, from, target, p)
  PROVE  /\ job'[j] \in Frame /\ job'[j].tries = g.tries
         /\ job'[j].pc = p \/ (job'[j].pc = "checking" /\ job'[j].then = p)
<1>1. CASE state = from
  <2> DEFINE u == [g EXCEPT !.target = target]
             h == [u EXCEPT !.then = p]
  <2>1. Goto(j, h, "checking")
    BY <1>1 DEF MaybeTransition
  <2>2. u \in Frame /\ u.tries = g.tries
    BY WithTarget
  <2> HIDE DEF u
  <2>3. h \in Frame /\ h.then = p /\ h.tries = g.tries
    BY <2>2, WithThen
  <2> HIDE DEF h
  <2> QED BY <2>1, <2>3, GoesTo DEF Points
<1>2. CASE state # from
  <2>1. Goto(j, g, p)
    BY <1>2 DEF MaybeTransition
  <2> QED BY <2>1, GoesTo DEF Points
<1> QED BY <1>1, <1>2

(* Whatever happens in a call, its caller is nearer to its end. *)
LEMMA CallerAdvances ==
  ASSUME BookingInv, NEW j \in Jobs, CallerStep(j) \/ Dying(j)
  PROVE  Left(job'[j]) < Left(job[j])
<1> DEFINE f == job[j]
           h == job'[j]
<1>1. /\ TypeOK /\ f \in Frame /\ f.now \in 0..MaxClock
      /\ f.tries \in 0..TicketAttempts
      /\ f.then \in {"verified", "ordered", "queried"} /\ f.target \in JourneyState
      /\ f.pc = "paid" => f.tries = 0
  BY OwnFrame, FrameFields DEF At
<1>2. ASSUME NEW p \in {"ended", "raised", "crashed"}, Stop(j, p)
      PROVE  Left(h) < Left(f)
  BY <1>1, <1>2, NobodyRestarts, StopLowers
<1>3. CASE Raise(j) \/ Stop(j, "ended") \/ Dying(j)
  BY <1>2, <1>3 DEF Raise, Dying, Crash, CrashOrdering, CrashPaying
<1>4. CASE Start(j)
  <2> DEFINE g == [f EXCEPT !.now = clock]
  <2>1. g \in Frame /\ Goto(j, g, "verifying") /\ f.pc = "idle"
    BY <1>1, <1>4, WithNow DEF Start, At, TypeOK
  <2> HIDE DEF g
  <2> QED BY <1>1, <2>1, GoesTo, GoingLowers DEF Points
<1>5. ASSUME NEW verdict \in Verdict, VerifyAnswered(j, verdict)
      PROVE  Left(h) < Left(f)
  <2> DEFINE g == [f EXCEPT !.result = verdict]
  <2>1. g \in Frame /\ f.pc = "verifying"
    BY <1>1, <1>5, WithResult DEF VerifyAnswered, At
  <2>2. \/ MaybeTransition(j, g, "VERIFIED", "SEARCHING", "verified")
        \/ MaybeTransition(j, g, "SEARCHING", "VERIFIED", "verified")
    BY <1>5 DEF VerifyAnswered
  <2> HIDE DEF g
  <2>3. /\ h \in Frame
        /\ h.pc = "verified" \/ (h.pc = "checking" /\ h.then = "verified")
    BY <1>1, <2>1, <2>2, TransitionGoes DEF JourneyState
  <2> HIDE DEF f, h
  <2> QED BY <1>1, <2>1, <2>3, GoingLowers
<1>6. CASE CheckTransition(j) \/ WriteTransition(j) \/ FinishVerifying(j)
  <2>1. ASSUME NEW p \in Points, Goto(j, f, p),
               \/ f.pc = "checking" /\ p = "writing"
               \/ f.pc = "writing" /\ p = f.then
               \/ f.pc = "verified" /\ p = "ordering"
        PROVE  Left(h) < Left(f)
    BY <1>1, <2>1, GoesTo, GoingLowers
  <2> QED BY <1>1, <1>3, <1>6, <2>1
          DEF CheckTransition, WriteTransition, FinishVerifying, At, Points
<1>7. CASE ReadSession(j)
  <2>1. ASSUME NEW i \in 1..Len(held),
               Goto(j, [f EXCEPT !.session = held[i].value, !.tries = 0], "posting")
        PROVE  Left(h) < Left(f)
    <3>1. PICK v \in Identifier : v = held[i].value
      BY <1>1, Lengths DEF Held
    <3> DEFINE u == [f EXCEPT !.session = v]
               g == [u EXCEPT !.tries = 0]
    <3>2. Goto(j, g, "posting")
      BY <2>1, <3>1
    <3>3. u \in Frame
      BY <1>1, WithSession
    <3> HIDE DEF u
    <3>4. g \in Frame
      BY <3>3, WithTries, BookingAssumption
    <3> HIDE DEF g
    <3>5. f.pc = "ordering"
      BY <1>7 DEF ReadSession, At
    <3> QED BY <1>1, <3>2, <3>4, <3>5, GoesTo, GoingLowers DEF Points
  <2> QED BY <1>3, <1>7, <2>1 DEF ReadSession
<1>8. CASE \/ OrderUncertain(j) \/ OrderCreated(j) \/ OrderDuplicate(j)
           \/ OrderError(j) \/ OrderUnnumbered(j)
  <2>1. f.pc = "posting"
    BY <1>8 DEF OrderUncertain, OrderCreated, OrderDuplicate, OrderError,
                OrderUnnumbered, At
  <2>2. ASSUME f.tries = 0, Goto(j, [f EXCEPT !.tries = 1], "posting")
        PROVE  Left(h) < Left(f)
    <3> DEFINE g == [f EXCEPT !.tries = 1]
    <3>1. g \in Frame /\ g.tries = 1
      BY <1>1, WithTries, BookingAssumption
    <3> HIDE DEF g
    <3>2. Goto(j, g, "posting")
      BY <2>2 DEF g
    <3> QED BY <1>1, <2>1, <2>2, <3>1, <3>2, GoesTo, GoingLowers DEF Points
  <2>3. ASSUME NEW r \in OrderOutcome,
               Goto(j, [f EXCEPT !.tries = 0, !.result = r], "ordered")
        PROVE  Left(h) < Left(f)
    <3> DEFINE u == [f EXCEPT !.tries = 0]
               g == [u EXCEPT !.result = r]
    <3>1. Goto(j, g, "ordered")
      BY <2>3
    <3>2. u \in Frame
      BY <1>1, WithTries, BookingAssumption
    <3> HIDE DEF u
    <3>3. g \in Frame
      BY <3>2, WithResult
    <3> HIDE DEF g
    <3>8. h \in Frame /\ h.pc = "ordered"
      BY <1>1, <3>1, <3>3, GoesTo DEF Points
    <3> HIDE DEF f, h
    <3> QED BY <1>1, <2>1, <3>8, GoingLowers
  <2>4. ASSUME OrderCreated(j) PROVE Left(h) < Left(f)
    <3> DEFINE n == Len(atlas) + 1
               u == [f EXCEPT !.tries = 0]
               w == [u EXCEPT !.no = n]
               g == [w EXCEPT !.result = "CREATED"]
    <3>1. Goto(j, g, "ordered")
      BY <2>4 DEF OrderCreated
    <3>2. n \in OrderNos
      BY <1>1, <2>4, Lengths, BookingAssumption DEF OrderCreated, AtlasCreates, OrderNos
    <3> HIDE DEF n
    <3>3. u \in Frame
      BY <1>1, WithTries, BookingAssumption
    <3> HIDE DEF u
    <3>4. w \in Frame
      BY <3>2, <3>3, WithNo
    <3> HIDE DEF w
    <3>5. g \in Frame
      BY <3>4, WithResult DEF OrderOutcome
    <3> HIDE DEF g
    <3>8. h \in Frame /\ h.pc = "ordered"
      BY <1>1, <3>1, <3>5, GoesTo DEF Points
    <3> HIDE DEF f, h
    <3> QED BY <1>1, <2>1, <3>8, GoingLowers
  <2>5. ASSUME NEW n \in Duplicates(j),
               Goto(j, [f EXCEPT !.tries = 0, !.no = n,
                          !.result = "DUPLICATE_REJECTED", !.then = "ordered"],
                    "querying")
        PROVE  Left(h) < Left(f)
    <3> DEFINE u == [f EXCEPT !.tries = 0]
               w == [u EXCEPT !.no = n]
               x == [w EXCEPT !.result = "DUPLICATE_REJECTED"]
               g == [x EXCEPT !.then = "ordered"]
    <3>1. Goto(j, g, "querying")
      BY <2>5
    <3>2. n \in OrderNos
      BY <1>1, Lengths, BookingAssumption DEF Duplicates, OrderNos, TypeOK
    <3>3. u \in Frame
      BY <1>1, WithTries, BookingAssumption
    <3> HIDE DEF u
    <3>4. w \in Frame
      BY <3>2, <3>3, WithNo
    <3> HIDE DEF w
    <3>5. x \in Frame
      BY <3>4, WithResult DEF OrderOutcome
    <3> HIDE DEF x
    <3>6. g \in Frame /\ g.then = "ordered"
      BY <3>5, WithThen
    <3> HIDE DEF g
    <3> QED BY <1>1, <2>1, <3>1, <3>6, GoesTo, GoingLowers DEF Points
  <2> QED BY <1>3, <1>8, <2>2, <2>3, <2>4, <2>5
          DEF OrderUncertain, OrderDuplicate, OrderError, OrderUnnumbered, OrderOutcome
<1>9. CASE SubmitPayment(j)
  <2>1. ASSUME NEW r \in PaymentOutcome, PaymentStored(j, r)
        PROVE  Left(h) < Left(f)
    <3> DEFINE g == [f EXCEPT !.result = r]
    <3>1. g \in Frame /\ Goto(j, g, "paid") /\ f.pc = "ordered"
      BY <1>1, <1>9, <2>1, WithResult DEF PaymentStored, SubmitPayment, At
    <3> HIDE DEF g
    <3> QED BY <1>1, <3>1, GoesTo, GoingLowers DEF Points
  <2> QED BY <1>3, <1>9, <2>1 DEF SubmitPayment, PaymentOutcome
<1>10. CASE ConfirmTicketing(j)
  <2>1. f.pc \in {"paid", "queried"} /\ f.tries + 1 \in 0..TicketAttempts
    BY <1>1, <1>10, BookingAssumption DEF ConfirmTicketing, At
  <2> DEFINE u == [f EXCEPT !.tries = f.tries + 1]
  <2>2. u \in Frame /\ u.tries = f.tries + 1
    BY <1>1, <2>1, WithTries
  <2>3. ASSUME NEW r \in {"CONFIRMED", "UNCONFIRMED"},
               Goto(j, [f EXCEPT !.tries = @ + 1, !.result = r], "queried")
        PROVE  Left(h) < Left(f)
    <3> DEFINE g == [u EXCEPT !.result = r]
    <3>1. Goto(j, g, "queried")
      BY <2>3
    <3> HIDE DEF u
    <3>2. g \in Frame /\ g.tries = f.tries + 1
      BY <2>2, WithResult
    <3> HIDE DEF g
    <3>8. h \in Frame /\ h.pc = "queried" /\ h.tries = f.tries + 1
      BY <1>1, <3>1, <3>2, GoesTo DEF Points
    <3> HIDE DEF f, h
    <3> QED BY <1>1, <2>1, <3>8, GoingLowers
  <2>4. ASSUME Goto(j, [f EXCEPT !.tries = @ + 1, !.then = "queried"], "querying")
        PROVE  Left(h) < Left(f)
    <3> DEFINE g == [u EXCEPT !.then = "queried"]
    <3>1. Goto(j, g, "querying")
      BY <2>4
    <3> HIDE DEF u
    <3>2. g \in Frame /\ g.tries = f.tries + 1 /\ g.then = "queried"
      BY <2>2, WithThen
    <3> HIDE DEF g
    <3> QED BY <1>1, <2>1, <3>1, <3>2, GoesTo, GoingLowers DEF Points
  <2>5. Outcome(LastQueryConfirmed(f.no)) \in {"CONFIRMED", "UNCONFIRMED"}
    BY DEF Outcome
  <2> QED BY <1>3, <1>10, <2>3, <2>4, <2>5 DEF ConfirmTicketing
<1>11. CASE QueryOrder(j)
  <2> DEFINE confirmed == Ticketed(f.no)
             g == [f EXCEPT !.result =
                     IF f.then = "queried" THEN Outcome(confirmed) ELSE @]
  <2>1. f.pc = "querying"
    BY <1>11 DEF QueryOrder, At
  <2>2. g \in Frame /\ g.tries = f.tries /\ g.then = f.then
    <3>1. (IF f.then = "queried" THEN Outcome(confirmed) ELSE f.result)
            \in Verdict \union OrderOutcome \union PaymentOutcome
                  \union {"none", "CONFIRMED", "UNCONFIRMED"}
      BY <1>1, FrameFields DEF Outcome
    <3> QED BY <1>1, <3>1, WithResult
  <2>3. MaybeTransition(j, g, "VERIFIED", "MONITORING", f.then) \/ Goto(j, g, f.then)
    BY <1>11 DEF QueryOrder
  <2> HIDE DEF g
  <2>4. /\ h \in Frame /\ h.tries = f.tries
        /\ h.pc = f.then \/ (h.pc = "checking" /\ h.then = f.then)
    BY <1>1, <2>2, <2>3, TransitionGoes, GoesTo DEF JourneyState, Points
  <2>5. Left(h) < Left(f)
    <3> HIDE DEF f, h
    <3> QED BY <1>1, <2>1, <2>4, GoingLowers
  <2> QED BY <2>5
<1>12. CASE VerifyRaises(j) \/ QueryRaises(j) \/ FinishBooking(j)
  BY <1>3, <1>12 DEF VerifyRaises, QueryRaises, FinishBooking
<1> QED BY <1>3, <1>4, <1>5, <1>6, <1>7, <1>8, <1>9, <1>10, <1>11, <1>12
        DEF CallerStep, Verifying, Buying

(* No caller goes round, whatever Atlas answers and whoever runs beside it:
   every step of a caller lowers what is left of it and moves nobody else. *)
THEOREM CallersEnd == Spec => CallersAdvance
<1>1. BookingInv /\ [Next]_bookingVars =>
        [\/ AtlasSettles \/ Tick
         \/ \E j \in Jobs :
              /\ Left(job'[j]) < Left(job[j])
              /\ \A k \in Jobs \ {j} : job'[k] = job[k]]_bookingVars
  BY CallerAdvances, OthersStay DEF Next, BookingInv
<1> QED BY <1>1, BookingInvariant, PTL DEF Spec, CallersAdvance
===============================================================================
