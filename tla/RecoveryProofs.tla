----------------------------- MODULE RecoveryProofs -----------------------------
(***************************************************************************)
(* Proofs about Recovery for every set of callers, recommendations and     *)
(* grants, any number of orders, and whatever Atlas answers: its types,    *)
(* that the traveller always holds a ticketed booking, what the current    *)
(* order and each release rest on, that concluded rows stay, and that a    *)
(* grant is spent once.                                                    *)
(***************************************************************************)
EXTENDS Recovery, BookingProofs, WellFoundedInduction

(* A caller that has sent the payment of an order of its own. *)
Paid(f) ==
  \/ f.pc \in {"paid", "queried"}
  \/ f.pc \in {"querying", "checking", "writing"} /\ f.then = "queried"

Bought(f) == Awaiting(f) \/ Paid(f)

(* A caller that was told that its order is ticketed. *)
Told(f) ==
  /\ f.result = "CONFIRMED"
  /\ \/ f.pc = "queried"
     \/ f.pc \in {"checking", "writing"} /\ f.then = "queried"

(* What a frame buys is newer than the order s that it replaces. *)
Replacing(f, s) ==
  /\ s \in 0..Len(atlas)
  /\ Bought(f) => f.no \in 1..Len(atlas) /\ s < f.no
  /\ Told(f) => EverConfirmed(f.no)

RowsAtAtlas ==
  \A i \in 1..Len(orders) :
    orders[i].no # NoOrder => orders[i].no \in 1..Len(atlas)

(* A confirmed order is ticketed, unless a later one was confirmed as well. *)
ConfirmedSound ==
  \A n \in OrderNos : EverConfirmed(n) =>
    /\ n \in 1..Len(atlas) /\ atlas[n].charges = 1
    /\ \/ atlas[n].status = "ticketed"
       \/ \E m \in OrderNos : n < m /\ EverConfirmed(m)

Securing == {"secured", "reconciling", "concluding"}
Running == {"buying"} \union Securing

(* What a recovery knows: its row is its own until it concludes it, and the
   replacement it has secured is the order it asked about last. *)
Owned(j) ==
  /\ exec[j].pc \in {"new", "saving"} =>
       At(j, "idle") /\ exec[j].superseded = NoOrder
  /\ exec[j].pc \in Running =>
       /\ executions[RecoveryOf[j]].status = "IN_PROGRESS"
       /\ Replacing(job[j], exec[j].superseded)
  /\ exec[j].pc \in Securing => At(j, "queried") /\ job[j].result = "CONFIRMED"
  /\ exec[j].pc \in {"secured", "reconciling"} => exec[j].superseded # NoOrder

OneRunning ==
  \A j, k \in Recoverers :
    j # k /\ exec[j].pc \in Running /\ exec[k].pc \in Running =>
      RecoveryOf[j] # RecoveryOf[k]

RecoveryTyped ==
  /\ granted \subseteq Recommendations
  /\ executions \in [Recommendations -> ExecutionRow]
  /\ current \in MaybeOrder
  /\ cancels \in Seq([no : OrderNos, confirmed : BOOLEAN])
  /\ exec \in [Recoverers -> ExecFrame]

RecoveryInv ==
  /\ BookingInv /\ RecoveryTyped
  /\ RowsAtAtlas /\ ConfirmedSound /\ EverConfirmed(Original)
  /\ OneRunning /\ \A j \in Recoverers : Owned(j)
  /\ CurrentIsConfirmed /\ ReleasedAfterSecured

-------------------------------------------------------------------------------
(* A set of numbers with a bound has a greatest one. *)
LEMMA Greatest ==
  ASSUME NEW N \in Nat, NEW T, T \subseteq 1..N, T # {}
  PROVE  \E n \in T : \A m \in T : m <= n
<1> DEFINE U == {N - n : n \in T}
<1>1. U \subseteq Nat /\ U # {}
  <2>1. \A n \in T : n \in 1..N /\ N - n \in Nat
    OBVIOUS
  <2>2. PICK n : n \in T
    OBVIOUS
  <2>3. N - n \in U
    BY <2>2
  <2> QED BY <2>1, <2>3
<1> HIDE DEF U
<1>2. PICK x \in U : \A y \in U : <<y, x>> \notin OpToRel(<, Nat)
  <2> DEFINE R == OpToRel(<, Nat)
  <2>1. IsWellFoundedOn(R, Nat)
    BY NatLessThanWellFounded
  <2> HIDE DEF R
  <2>2. \E x \in U : \A y \in U : ~(<<y, x>> \in R)
    BY <1>1, <2>1, WFMin
  <2> QED BY <2>2 DEF R
<1>3. PICK n \in T : x = N - n
  BY DEF U
<1>4. ASSUME NEW m \in T
      PROVE  m <= n
  <2>1. N - m \in U /\ N - m \in Nat /\ x \in Nat
    BY <1>1 DEF U
  <2>2. ~(N - m < x)
    BY <1>2, <2>1 DEF OpToRel
  <2>3. m \in Int /\ n \in Int
    OBVIOUS
  <2> QED BY <1>3, <2>2, <2>3
<1> QED BY <1>4

(* What no step takes back: charges and confirmations stay, an order is only
   confirmed while it is ticketed, and only released once a later one is. *)
Grown ==
  /\ Len(atlas) <= Len(atlas')
  /\ \A n \in 1..Len(atlas) : atlas[n].charges = 1 => atlas'[n].charges = 1
  /\ \A n \in 1..Len(atlas) : atlas[n].status = "ticketed" =>
       \/ atlas'[n].status = "ticketed"
       \/ \E m \in OrderNos : n < m /\ EverConfirmed(m)'
  /\ \A n \in OrderNos : EverConfirmed(n) => EverConfirmed(n)'
  /\ \A n \in OrderNos : EverConfirmed(n)' =>
       \/ EverConfirmed(n)
       \/ n \in 1..Len(atlas) /\ atlas[n].status = "ticketed" /\ atlas[n].charges = 1

LEMMA GrownOrders ==
  ASSUME TypeOK, Len(atlas') \in Nat, ConfirmedSound, EverConfirmed(Original), Grown
  PROVE  ConfirmedSound' /\ EverConfirmed(Original)'
<1>1. Len(atlas) \in Nat /\ Original \in OrderNos
  BY Lengths, RecoveryAssumption, BookingAssumption DEF Original, OrderNos
<1>2. ASSUME NEW n \in OrderNos, EverConfirmed(n)'
      PROVE  /\ n \in 1..Len(atlas') /\ atlas'[n].charges = 1
             /\ \/ atlas'[n].status = "ticketed"
                \/ \E m \in OrderNos : n < m /\ EverConfirmed(m)'
  <2>1. /\ n \in 1..Len(atlas) /\ atlas[n].charges = 1
        /\ \/ atlas[n].status = "ticketed"
           \/ \E m \in OrderNos : n < m /\ EverConfirmed(m)
    BY <1>2 DEF Grown, ConfirmedSound
  <2>2. n \in 1..Len(atlas')
    BY <1>1, <2>1 DEF Grown
  <2> QED BY <2>1, <2>2 DEF Grown
<1>3. EverConfirmed(Original)'
  BY <1>1 DEF Grown
<1> QED BY <1>2, <1>3 DEF ConfirmedSound

(* The greatest order that was ever confirmed is ticketed. *)
LEMMA LastIsTicketed ==
  ASSUME ConfirmedSound, EverConfirmed(Original)
  PROVE  Confirmed
<1> DEFINE T == {n \in OrderNos : EverConfirmed(n)}
<1>1. T \subseteq 1..MaxOrders /\ T # {} /\ MaxOrders \in Nat
  BY RecoveryAssumption, BookingAssumption DEF Original, OrderNos
<1>2. PICK n \in T : \A m \in T : m <= n
  <2> HIDE DEF T
  <2> QED BY <1>1, Greatest
<1>3. n \in OrderNos /\ EverConfirmed(n) /\ \A m \in OrderNos : EverConfirmed(m) => m <= n
  BY <1>2
<1>4. ~ \E m \in OrderNos : n < m /\ EverConfirmed(m)
  <2>1. \A m \in OrderNos : m \in Int /\ n \in Int
    BY <1>3 DEF OrderNos
  <2> QED BY <1>3, <2>1
<1>5. n \in 1..Len(atlas) /\ atlas[n].charges = 1 /\ atlas[n].status = "ticketed"
  BY <1>3, <1>4 DEF ConfirmedSound
<1> QED BY <1>3, <1>5 DEF Confirmed

(* What a frame knows of Atlas stays true. *)
LEMMA ReplacingStays ==
  ASSUME TypeOK, Len(atlas') \in Nat, Grown, NEW f, NEW s, Replacing(f, s)
  PROVE  Replacing(f, s)'
<1>1. Len(atlas) \in Nat /\ \A n \in 1..Len(atlas) : n \in OrderNos
  BY Lengths
<1>2. s \in 0..Len(atlas') /\ \A n \in 1..Len(atlas) : n \in 1..Len(atlas')
  BY <1>1 DEF Replacing, Grown
<1>3. Told(f) => f.no \in 1..Len(atlas)
  BY DEF Told, Replacing, Bought, Paid
<1>4. Told(f) => EverConfirmed(f.no)'
  BY <1>1, <1>3 DEF Replacing, Grown
<1> QED BY <1>2, <1>4 DEF Replacing, Bought, Paid, Told, Awaiting

-------------------------------------------------------------------------------
(* What a step of a caller does to its frame. *)

Stops == {"ended", "raised", "crashed"}

(* A caller that may order: it has nothing to ask any more. *)
Asked(f) ==
  \/ f.pc \in {"ordering", "posting", "ordered"}
  \/ f.pc \in {"querying", "checking", "writing"} /\ f.then = "ordered"

Moves(j, f, g) ==
  /\ Bought(g) => \/ Bought(f) /\ g.no = f.no
                  \/ g.no \in 1..Len(atlas') /\ g.no \notin 1..Len(atlas)
  /\ Told(g) => (Told(f) /\ g.no = f.no) \/ EverConfirmed(g.no)'
  /\ Paid(f) => Paid(g) \/ g.pc \in Stops
  /\ Asked(g) => Asked(f) \/ KindOf[j] = "book"
  /\ \A n \in 1..Len(atlas') : atlas'[n].charges = 1 =>
       \/ n \in 1..Len(atlas) /\ atlas[n].charges = 1
       \/ Awaiting(f) /\ n = f.no /\ (Paid(g) \/ g.pc = "crashed")

CallerMoves(j) ==
  /\ \E f, g \in Frame : /\ job[j] = f /\ job' = [job EXCEPT ![j] = g]
                         /\ Moves(j, f, g)
  /\ Grown /\ RowsAtAtlas'

(* Neither Atlas nor an order or a query changes. *)
LEMMA QuietMove ==
  ASSUME BookingInv, RowsAtAtlas, NEW j \in Jobs, NEW f \in Frame,
         job' = [job EXCEPT ![j] = f], UNCHANGED <<orders, queries, atlas>>,
         Bought(f) => Bought(job[j]) /\ f.no = job[j].no,
         Told(f) => (Told(job[j]) /\ f.no = job[j].no) \/ EverConfirmed(f.no),
         Paid(job[j]) => Paid(f) \/ f.pc \in Stops,
         Asked(f) => Asked(job[j]) \/ KindOf[j] = "book"
  PROVE  CallerMoves(j)
<1>1. TypeOK /\ Len(atlas) \in Nat /\ job[j] \in Frame
  BY OwnFrame, Lengths
<1>2. \A n : EverConfirmed(n)' = EverConfirmed(n)
  BY DEF EverConfirmed
<1>3. \A n \in OrderNos : EverConfirmed(n)' => EverConfirmed(n)
  BY <1>2
<1>4. Grown
  BY <1>1, <1>2 DEF Grown
<1>5. Moves(j, job[j], f)
  BY <1>2 DEF Moves
<1>6. RowsAtAtlas'
  BY DEF RowsAtAtlas
<1> QED BY <1>1, <1>4, <1>5, <1>6 DEF CallerMoves

(* The same for a caller that goes on with a frame of its own. *)
LEMMA GotoMove ==
  ASSUME BookingInv, RowsAtAtlas, NEW j \in Jobs, NEW g \in Frame, NEW p \in Points,
         Goto(j, g, p), UNCHANGED <<orders, queries, atlas>>, g.no = job[j].no,
         p = "ordered" => g.result # "CREATED",
         \/ p \in {"verifying", "verified", "ordering", "posting", "ordered", "raised"}
         \/ /\ p \in {"querying", "checking", "writing"}
            /\ g.then = "queried" => Bought(job[j])
         \/ p \in {"paid", "queried"} /\ Bought(job[j]),
         (/\ p = "queried" \/ (p \in {"checking", "writing"} /\ g.then = "queried")
          /\ g.result = "CONFIRMED")
           => Told(job[j]) \/ EverConfirmed(g.no),
         Paid(job[j]) =>
           \/ p \in {"paid", "queried"}
           \/ p \in {"querying", "checking", "writing"} /\ g.then = "queried",
         (\/ p \in {"ordering", "posting", "ordered"}
          \/ p \in {"querying", "checking", "writing"} /\ g.then = "ordered")
           => Asked(job[j]) \/ KindOf[j] = "book"
  PROVE  CallerMoves(j)
<1>1. PICK f \in Frame :
        /\ job' = [job EXCEPT ![j] = f]
        /\ f.pc = p /\ f.now = g.now /\ f.result = g.result
        /\ f.session = g.session /\ f.no = g.no /\ f.tries = g.tries
        /\ f.target = g.target /\ f.then = g.then
  BY GotoFrame
<1>2. Bought(f) => Bought(job[j]) /\ f.no = job[j].no
  BY <1>1 DEF Bought, Awaiting, Paid
<1>3. Told(f) => (Told(job[j]) /\ f.no = job[j].no) \/ EverConfirmed(f.no)
  BY <1>1 DEF Told
<1>4. Paid(job[j]) => Paid(f)
  BY <1>1 DEF Paid
<1>5. Asked(f) => Asked(job[j]) \/ KindOf[j] = "book"
  BY <1>1 DEF Asked
<1> QED BY <1>1, <1>2, <1>3, <1>4, <1>5, QuietMove

LEMMA StopFrame ==
  ASSUME BookingInv, NEW j \in Jobs, NEW p \in Stops, Stop(j, p)
  PROVE  \E f \in Frame : job' = [job EXCEPT ![j] = f] /\ f.pc = p
<1>1. job[j] \in Frame
  BY OwnFrame
<1>2. NewFrame \in Frame
  BY BookingAssumption DEF NewFrame, Frame, NoSession, NoOrder, JourneyState
<1> DEFINE g == IF p = "crashed" THEN [NewFrame EXCEPT !.no = job[j].no] ELSE NewFrame
<1>3. g \in Frame
  BY <1>1, <1>2, CrashFrame
<1>4. Goto(j, g, p)
  BY DEF Stop
<1> HIDE DEF g
<1> QED BY <1>3, <1>4, GotoFrame DEF Stops, Points

LEMMA StopMove ==
  ASSUME BookingInv, RowsAtAtlas, NEW j \in Jobs, NEW p \in Stops, Stop(j, p),
         UNCHANGED <<orders, queries, atlas>>
  PROVE  CallerMoves(j)
<1>1. PICK f \in Frame : job' = [job EXCEPT ![j] = f] /\ f.pc = p
  BY StopFrame
<1>2. ~Bought(f) /\ ~Told(f) /\ f.pc \in Stops /\ ~Asked(f)
  BY <1>1 DEF Bought, Awaiting, Paid, Told, Stops, Asked
<1> QED BY <1>1, <1>2, QuietMove

LEMMA VerifyMoves ==
  ASSUME BookingInv, RowsAtAtlas, NEW j \in Jobs,
         NEW verdict \in Verdict, VerifyAnswered(j, verdict)
  PROVE  CallerMoves(j)
<1>1. job[j] \in Frame /\ job[j].pc = "verifying"
  BY OwnFrame DEF VerifyAnswered, At
<1> DEFINE g == [job[j] EXCEPT !.result = verdict]
<1>2. g \in Frame /\ g.no = job[j].no
  BY <1>1, WithResult
<1>3. UNCHANGED <<orders, queries, atlas>>
  BY DEF VerifyAnswered, tables
<1>4. PICK target \in {"SEARCHING", "VERIFIED"}, from \in JourneyState :
        MaybeTransition(j, g, from, target, "verified")
  <2>1. \/ MaybeTransition(j, g, "VERIFIED", "SEARCHING", "verified")
        \/ MaybeTransition(j, g, "SEARCHING", "VERIFIED", "verified")
    BY DEF VerifyAnswered
  <2> QED BY <2>1 DEF JourneyState
<1> HIDE DEF g
<1>5. PICK h \in Frame, q \in {"verified", "checking"} :
        Goto(j, h, q) /\ h.no = g.no /\ (q = "checking" => h.then = "verified")
  BY <1>2, <1>4, TransitionFrame DEF JourneyState
<1>6. ~Paid(job[j])
  BY <1>1 DEF Paid
<1> QED BY <1>2, <1>3, <1>5, <1>6, GotoMove DEF Points

LEMMA TransitionMoves ==
  ASSUME BookingInv, RowsAtAtlas, NEW j \in Jobs,
         CheckTransition(j) \/ WriteTransition(j)
  PROVE  CallerMoves(j)
<1>1. /\ job[j] \in Frame /\ UNCHANGED <<orders, queries, atlas>>
      /\ (job[j].pc \in {"querying", "checking", "writing"}
             /\ job[j].then = "ordered" => job[j].result = "DUPLICATE_REJECTED")
  BY OwnFrame DEF CheckTransition, WriteTransition, tables
<1>2. job[j].then \in {"verified", "ordered", "queried"}
  BY <1>1, FrameFields
<1>3. CASE Stop(j, "raised")
  BY <1>1, <1>3, StopMove DEF Stops
<1>4. CASE At(j, "checking") /\ Goto(j, job[j], "writing")
  BY <1>1, <1>4, GotoMove DEF Points, At, Bought, Paid, Told, Asked
<1>5. CASE At(j, "writing") /\ Goto(j, job[j], job[j].then)
  BY <1>1, <1>2, <1>5, GotoMove DEF Points, At, Bought, Paid, Told, Asked
<1> QED BY <1>3, <1>4, <1>5 DEF CheckTransition, WriteTransition, Raise

LEMMA EndMoves ==
  ASSUME BookingInv, RowsAtAtlas, NEW j \in Jobs,
         \/ VerifyRaises(j) \/ QueryRaises(j) \/ FinishBooking(j)
         \/ Crash(j) \/ FinishVerifying(j) \/ Start(j)
  PROVE  CallerMoves(j)
<1>1. job[j] \in Frame /\ UNCHANGED <<orders, queries, atlas>>
  BY OwnFrame
  DEF VerifyRaises, QueryRaises, FinishBooking, Crash, FinishVerifying, Start, tables
<1>2. CASE \E p \in Stops : Stop(j, p)
  BY <1>1, <1>2, StopMove
<1>3. CASE At(j, "verified") /\ KindOf[j] = "book" /\ Goto(j, job[j], "ordering")
  BY <1>1, <1>3, GotoMove DEF Points, At, Paid
<1>4. CASE Start(j)
  <2> DEFINE g == [job[j] EXCEPT !.now = clock]
  <2>1. g \in Frame /\ g.no = job[j].no
    BY <1>1, OwnFrame, WithNow DEF TypeOK
  <2>2. Goto(j, g, "verifying") /\ job[j].pc = "idle"
    BY <1>4 DEF Start, At
  <2> HIDE DEF g
  <2> QED BY <1>1, <2>1, <2>2, GotoMove DEF Points, Paid
<1> QED BY <1>2, <1>3, <1>4
        DEF VerifyRaises, QueryRaises, FinishBooking, Crash, FinishVerifying, Raise, Stops

LEMMA ReadSessionMoves ==
  ASSUME BookingInv, RowsAtAtlas, NEW j \in Jobs, ReadSession(j)
  PROVE  CallerMoves(j)
<1>1. /\ TypeOK /\ job[j] \in Frame /\ job[j].pc = "ordering"
      /\ UNCHANGED <<orders, queries, atlas>>
  BY OwnFrame DEF ReadSession, At, tables
<1>2. CASE Stop(j, "raised")
  BY <1>1, <1>2, StopMove DEF Stops
<1>3. CASE \E i \in 1..Len(held) :
             Goto(j, [job[j] EXCEPT !.session = held[i].value, !.tries = 0], "posting")
  <2>1. PICK i \in 1..Len(held) :
          Goto(j, [job[j] EXCEPT !.session = held[i].value, !.tries = 0], "posting")
    BY <1>3
  <2>2. PICK v \in Identifier : v = held[i].value
    BY <1>1, Lengths DEF Held
  <2> DEFINE u == [job[j] EXCEPT !.session = v]
             g == [u EXCEPT !.tries = 0]
  <2>3. Goto(j, g, "posting")
    BY <2>1, <2>2
  <2>4. u \in Frame /\ u.no = job[j].no
    BY <1>1, WithSession
  <2> HIDE DEF u
  <2>5. g \in Frame /\ g.no = job[j].no
    BY <2>4, WithTries, BookingAssumption
  <2> HIDE DEF g
  <2> QED BY <1>1, <2>3, <2>5, GotoMove DEF Points, Paid, Asked
<1> QED BY <1>2, <1>3 DEF ReadSession, Raise

LEMMA ConfirmMoves ==
  ASSUME BookingInv, RowsAtAtlas, NEW j \in Jobs, ConfirmTicketing(j)
  PROVE  CallerMoves(j)
<1>1. /\ TypeOK /\ job[j] \in Frame /\ UNCHANGED <<orders, queries, atlas>>
      /\ (job[j].pc = "paid" => job[j].tries = 0)
      /\ job[j].pc \in {"paid", "queried"}
      /\ job[j].pc = "paid" \/ job[j].tries < TicketAttempts
  BY OwnFrame DEF ConfirmTicketing, tables, At
<1>2. PICK t \in 0..TicketAttempts : t = job[j].tries + 1
  <2>1. job[j].tries \in 0..TicketAttempts
    BY <1>1, FrameFields
  <2> QED BY <1>1, <2>1, BookingAssumption
<1> DEFINE u == [job[j] EXCEPT !.tries = t]
<1>3. u \in Frame /\ u.no = job[j].no /\ Bought(job[j])
  BY <1>1, WithTries DEF Bought, Paid
<1>4. CASE Stop(j, "raised")
  BY <1>1, <1>4, StopMove DEF Stops
<1>5. CASE /\ CreatedOrder(job[j].no)
           /\ Goto(j, [job[j] EXCEPT !.tries = @ + 1,
                         !.result = Outcome(LastQueryConfirmed(job[j].no))], "queried")
  <2>1. PICK r \in {"CONFIRMED", "UNCONFIRMED"} :
          /\ r = Outcome(LastQueryConfirmed(job[j].no))
          /\ Goto(j, [job[j] EXCEPT !.tries = @ + 1, !.result = r], "queried")
    BY <1>5 DEF Outcome
  <2> DEFINE g == [u EXCEPT !.result = r]
  <2>2. Goto(j, g, "queried")
    BY <1>2, <2>1
  <2>3. r = "CONFIRMED" => EverConfirmed(job[j].no)
    <3> SUFFICES ASSUME r = "CONFIRMED"
                 PROVE  EverConfirmed(job[j].no)
      OBVIOUS
    <3>1. PICK n \in OrderNos : n = job[j].no
      <4>1. job[j].no \in 1..Len(atlas)
        BY <1>5 DEF BookingInv, MoneyInv, CreatedAtAtlas, CreatedOrder
      <4> QED BY <1>1, <4>1, Lengths
    <3>2. queries[n] \in Seq(BOOLEAN) /\ LastQueryConfirmed(n)
      BY <1>1, <2>1, <3>1 DEF TypeOK, Outcome
    <3>3. Len(queries[n]) \in 1..Len(queries[n])
      BY <3>2, LenProperties DEF LastQueryConfirmed
    <3> QED BY <3>1, <3>2, <3>3 DEF LastQueryConfirmed, EverConfirmed
  <2> HIDE DEF u
  <2>4. g \in Frame /\ g.no = job[j].no /\ g.result = r
    BY <1>3, <2>1, WithResult
  <2> HIDE DEF g
  <2> QED BY <1>1, <1>3, <2>2, <2>3, <2>4, GotoMove DEF Points
<1>6. CASE Goto(j, [job[j] EXCEPT !.tries = @ + 1, !.then = "queried"], "querying")
  <2> DEFINE g == [u EXCEPT !.then = "queried"]
  <2>1. Goto(j, g, "querying")
    BY <1>2, <1>6
  <2> HIDE DEF u
  <2>2. g \in Frame /\ g.no = job[j].no /\ g.then = "queried"
    BY <1>3, WithThen
  <2> HIDE DEF g
  <2> QED BY <1>1, <1>3, <2>1, <2>2, GotoMove DEF Points
<1> QED BY <1>4, <1>5, <1>6 DEF ConfirmTicketing, Raise

(* An attempt to order: whatever Atlas does, its new order is unpaid. *)
LEMMA OrderMove ==
  ASSUME BookingInv, RowsAtAtlas, NEW j \in Jobs, At(j, "posting"),
         NEW g \in Frame, NEW p \in Points, Goto(j, g, p),
         AtlasCreates(j) \/ UNCHANGED atlas, UNCHANGED queries,
         \A i \in 1..Len(orders') : orders'[i].no # NoOrder =>
           \/ i \in 1..Len(orders) /\ orders'[i] = orders[i]
           \/ orders'[i].no \in 1..Len(atlas'),
         \/ p \in {"posting", "raised", "crashed"}
         \/ p = "querying" /\ g.then = "ordered"
         \/ p = "ordered" /\ g.result # "CREATED"
         \/ p = "ordered" /\ g.no \in 1..Len(atlas') /\ g.no \notin 1..Len(atlas)
  PROVE  CallerMoves(j)
<1>1. TypeOK /\ Len(atlas) \in Nat /\ job[j] \in Frame /\ job[j].pc = "posting"
  BY OwnFrame, Lengths DEF At
<1>2. PICK f \in Frame :
        /\ job' = [job EXCEPT ![j] = f]
        /\ f.pc = p /\ f.now = g.now /\ f.result = g.result
        /\ f.session = g.session /\ f.no = g.no /\ f.tries = g.tries
        /\ f.target = g.target /\ f.then = g.then
  BY GotoFrame
<1>3. /\ Len(atlas') \in Nat /\ Len(atlas) <= Len(atlas')
      /\ \A n \in 1..Len(atlas) : atlas'[n] = atlas[n]
      /\ \A n \in 1..Len(atlas') : n \notin 1..Len(atlas) => atlas'[n].charges = 0
  BY AtlasGrows
<1>4. \A n : EverConfirmed(n)' = EverConfirmed(n)
  BY DEF EverConfirmed
<1>5. \A n \in OrderNos : EverConfirmed(n)' => EverConfirmed(n)
  BY <1>4
<1>6. Grown
  BY <1>3, <1>4 DEF Grown
<1>7. /\ Bought(f) => f.no \in 1..Len(atlas') /\ f.no \notin 1..Len(atlas)
      /\ ~Told(f) /\ ~Paid(job[j]) /\ Asked(job[j])
  BY <1>1, <1>2 DEF Bought, Awaiting, Paid, Told, Asked
<1>8. Moves(j, job[j], f)
  <2>1. \A n \in 1..Len(atlas') : atlas'[n].charges = 1 =>
          n \in 1..Len(atlas) /\ atlas[n].charges = 1
    BY <1>3
  <2> QED BY <1>7, <2>1 DEF Moves
<1>9. RowsAtAtlas'
  <2> SUFFICES ASSUME NEW i \in 1..Len(orders'), orders'[i].no # NoOrder
               PROVE  orders'[i].no \in 1..Len(atlas')
    BY DEF RowsAtAtlas
  <2>1. CASE i \in 1..Len(orders) /\ orders'[i] = orders[i]
    <3>1. orders[i].no \in 1..Len(atlas)
      BY <2>1 DEF RowsAtAtlas
    <3> QED BY <1>1, <1>3, <2>1, <3>1
  <2> QED BY <2>1
<1> QED BY <1>1, <1>2, <1>6, <1>8, <1>9 DEF CallerMoves

LEMMA UncertainMoves ==
  ASSUME BookingInv, RowsAtAtlas, NEW j \in Jobs,
         OrderUncertain(j) \/ OrderError(j) \/ OrderUnnumbered(j)
  PROVE  CallerMoves(j)
<1>1. /\ TypeOK /\ job[j] \in Frame
      /\ (At(j, "posting") => job[j].session \in Identifier)
  BY OwnFrame
<1>2. PICK row \in {"UNCERTAIN", "ERROR", "CREATED"}, out \in {"UNCERTAIN", "ERROR"} :
        /\ At(j, "posting") /\ (AtlasCreates(j) \/ UNCHANGED atlas)
        /\ SaveOrder(j, row, NoOrder) /\ UNCHANGED queries
        /\ \/ Goto(j, [job[j] EXCEPT !.tries = 1], "posting")
           \/ Goto(j, [job[j] EXCEPT !.tries = 0, !.result = out], "ordered")
  BY DEF OrderUncertain, OrderError, OrderUnnumbered
<1>3. /\ \A i \in 1..Len(orders) : orders'[i] = orders[i]
      /\ \A i \in 1..Len(orders') : i \notin 1..Len(orders) => orders'[i].no = NoOrder
  BY <1>1, <1>2, OrdersGrow DEF OrderOutcome
<1>4. CASE Goto(j, [job[j] EXCEPT !.tries = 1], "posting")
  <2> DEFINE g == [job[j] EXCEPT !.tries = 1]
  <2>3. 1 \in 0..TicketAttempts
    BY BookingAssumption
  <2>1. g \in Frame
    BY <1>1, <2>3, WithTries
  <2>2. Goto(j, g, "posting")
    BY <1>4
  <2> HIDE DEF g
  <2> QED BY <1>2, <1>3, <2>1, <2>2, OrderMove DEF Points
<1>5. CASE Goto(j, [job[j] EXCEPT !.tries = 0, !.result = out], "ordered")
  <2> DEFINE u == [job[j] EXCEPT !.tries = 0]
             g == [u EXCEPT !.result = out]
  <2>1. u \in Frame
    BY <1>1, WithTries, BookingAssumption
  <2>2. Goto(j, g, "ordered")
    BY <1>5
  <2> HIDE DEF u
  <2>3. g \in Frame /\ g.result = out
    BY <2>1, WithResult DEF OrderOutcome
  <2> HIDE DEF g
  <2>4. g.result # "CREATED"
    BY <2>3
  <2> QED BY <1>2, <1>3, <2>2, <2>3, <2>4, OrderMove DEF Points
<1> QED BY <1>2, <1>4, <1>5

LEMMA CreatedMoves ==
  ASSUME BookingInv, RowsAtAtlas, NEW j \in Jobs, OrderCreated(j)
  PROVE  CallerMoves(j)
<1>1. /\ TypeOK /\ job[j] \in Frame
      /\ (At(j, "posting") => job[j].session \in Identifier)
  BY OwnFrame
<1>2. PICK n : n = Len(atlas) + 1
  OBVIOUS
<1>3. /\ At(j, "posting") /\ AtlasCreates(j) /\ SaveOrder(j, "CREATED", n)
      /\ UNCHANGED queries
      /\ Goto(j, [job[j] EXCEPT !.tries = 0, !.no = n, !.result = "CREATED"], "ordered")
  BY <1>2 DEF OrderCreated
<1>4. n \in OrderNos /\ n \in 1..Len(atlas') /\ n \notin 1..Len(atlas)
  <2>1. Len(atlas') = Len(atlas) + 1 /\ Len(atlas) \in Nat /\ MaxOrders \in Nat
    BY <1>1, <1>3, AtlasGrows, Lengths, BookingAssumption
  <2>2. Len(atlas) < MaxOrders
    BY <1>3 DEF AtlasCreates
  <2> QED BY <1>2, <2>1, <2>2 DEF OrderNos
<1>5. /\ \A i \in 1..Len(orders) : orders'[i] = orders[i]
      /\ \A i \in 1..Len(orders') : i \notin 1..Len(orders) => orders'[i].no = n
  BY <1>1, <1>3, <1>4, OrdersGrow DEF OrderOutcome
<1> DEFINE u == [job[j] EXCEPT !.tries = 0]
           v == [u EXCEPT !.no = n]
           g == [v EXCEPT !.result = "CREATED"]
<1>6. Goto(j, g, "ordered")
  BY <1>3
<1>7. u \in Frame
  BY <1>1, WithTries, BookingAssumption
<1> HIDE DEF u
<1>8. v \in Frame /\ v.no = n
  BY <1>4, <1>7, WithNo
<1> HIDE DEF v
<1>9. g \in Frame /\ g.no = n
  BY <1>8, WithResult DEF OrderOutcome
<1> HIDE DEF g
<1> QED BY <1>3, <1>4, <1>5, <1>6, <1>9, OrderMove DEF Points

LEMMA DuplicateMoves ==
  ASSUME BookingInv, RowsAtAtlas, NEW j \in Jobs, OrderDuplicate(j)
  PROVE  CallerMoves(j)
<1>1. /\ TypeOK /\ job[j] \in Frame
      /\ (At(j, "posting") => job[j].session \in Identifier)
  BY OwnFrame
<1>2. At(j, "posting") /\ UNCHANGED <<queries, atlas>>
  BY DEF OrderDuplicate
<1>3. CASE Raise(j) /\ UNCHANGED orders
  BY <1>2, <1>3, StopMove DEF Raise, Stops
<1>4. CASE \E n \in Duplicates(j) :
             /\ SaveOrder(j, "DUPLICATE_REJECTED", n)
             /\ Goto(j, [job[j] EXCEPT !.tries = 0, !.no = n,
                           !.result = "DUPLICATE_REJECTED", !.then = "ordered"],
                     "querying")
  <2>1. PICK n \in Duplicates(j) :
             /\ SaveOrder(j, "DUPLICATE_REJECTED", n)
             /\ Goto(j, [job[j] EXCEPT !.tries = 0, !.no = n,
                           !.result = "DUPLICATE_REJECTED", !.then = "ordered"],
                     "querying")
    BY <1>4
  <2>2. n \in 1..Len(atlas) /\ n \in OrderNos
    BY <1>1, Lengths DEF Duplicates
  <2>3. /\ \A i \in 1..Len(orders) : orders'[i] = orders[i]
        /\ \A i \in 1..Len(orders') : i \notin 1..Len(orders) => orders'[i].no = n
    BY <1>1, <1>2, <2>1, <2>2, OrdersGrow DEF OrderOutcome
  <2> DEFINE u == [job[j] EXCEPT !.tries = 0]
             v == [u EXCEPT !.no = n]
             w == [v EXCEPT !.result = "DUPLICATE_REJECTED"]
             g == [w EXCEPT !.then = "ordered"]
  <2>4. Goto(j, g, "querying")
    BY <2>1
  <2>5. u \in Frame
    BY <1>1, WithTries, BookingAssumption
  <2> HIDE DEF u
  <2>6. v \in Frame
    BY <2>2, <2>5, WithNo
  <2> HIDE DEF v
  <2>7. w \in Frame
    BY <2>6, WithResult DEF OrderOutcome
  <2> HIDE DEF w
  <2>8. g \in Frame /\ g.then = "ordered"
    BY <2>7, WithThen
  <2> HIDE DEF g
  <2> QED BY <1>2, <2>2, <2>3, <2>4, <2>8, OrderMove DEF Points
<1> QED BY <1>3, <1>4 DEF OrderDuplicate

LEMMA CrashOrderingMoves ==
  ASSUME BookingInv, RowsAtAtlas, NEW j \in Jobs, CrashOrdering(j)
  PROVE  CallerMoves(j)
<1>1. /\ At(j, "posting") /\ AtlasCreates(j) /\ Stop(j, "crashed")
      /\ UNCHANGED <<orders, queries>> /\ job[j] \in Frame
  BY OwnFrame DEF CrashOrdering, tables
<1>2. PICK g \in Frame : Goto(j, g, "crashed")
  <2> DEFINE g == [NewFrame EXCEPT !.no = job[j].no]
  <2>1. Goto(j, g, "crashed")
    BY <1>1 DEF Stop
  <2>2. g \in Frame
    BY <1>1, CrashFrame
  <2> HIDE DEF g
  <2> QED BY <2>1, <2>2
<1> QED BY <1>1, <1>2, OrderMove DEF Points

(* Only an answer that names every ticket confirms. *)
LEMMA QueryMoves ==
  ASSUME BookingInv, RowsAtAtlas, NEW j \in Jobs, QueryOrder(j)
  PROVE  CallerMoves(j)
<1>1. TypeOK /\ Len(atlas) \in Nat /\ job[j] \in Frame
  BY OwnFrame, Lengths
<1>2. PICK n, c : n = job[j].no /\ c = Ticketed(job[j].no)
  OBVIOUS
<1>3. /\ UNCHANGED <<orders, atlas>> /\ job[j].pc = "querying"
      /\ queries' = [queries EXCEPT ![n] = Append(@, c)]
  BY <1>2 DEF QueryOrder, At
<1>4. /\ n \in 1..Len(atlas) /\ n \in OrderNos
      /\ (job[j].then = "ordered" => job[j].result = "DUPLICATE_REJECTED")
      /\ (atlas[n].status = "ticketed" => atlas[n].charges = 1)
  BY <1>1, <1>2, <1>3, Lengths DEF BookingInv, MoneyInv, Sound, AtlasSound
<1>5. c \in BOOLEAN /\ (c => atlas[n].status = "ticketed")
  BY <1>2 DEF Ticketed
<1>6. PICK q \in Seq(BOOLEAN) : q = queries[n] /\ Len(q) \in Nat
  BY <1>1, <1>4, LenProperties DEF TypeOK
<1>7. /\ Append(q, c) \in Seq(BOOLEAN) /\ Len(Append(q, c)) = Len(q) + 1
      /\ \A i \in 1..Len(q) : Append(q, c)[i] = q[i]
      /\ Append(q, c)[Len(q) + 1] = c
  BY <1>5, <1>6, AppendProperties
<1>8. /\ queries'[n] = Append(q, c)
      /\ \A m \in OrderNos : m # n => queries'[m] = queries[m]
  BY <1>1, <1>3, <1>4, <1>6 DEF TypeOK
<1>9. ASSUME NEW m \in OrderNos
      PROVE  /\ EverConfirmed(m) => EverConfirmed(m)'
             /\ EverConfirmed(m)' => EverConfirmed(m) \/ (m = n /\ c)
             /\ m = n /\ c => EverConfirmed(m)'
  <2>1. CASE m # n
    BY <1>8, <2>1 DEF EverConfirmed
  <2>2. CASE m = n
    <3>1. EverConfirmed(m) <=> \E i \in 1..Len(q) : q[i]
      BY <1>6, <2>2 DEF EverConfirmed
    <3>2. EverConfirmed(m)' <=> \E i \in 1..(Len(q) + 1) : Append(q, c)[i]
      BY <1>7, <1>8, <2>2 DEF EverConfirmed
    <3>3. \A i \in 1..(Len(q) + 1) : i \in 1..Len(q) \/ i = Len(q) + 1
      BY <1>6
    <3>4. /\ \A i \in 1..Len(q) : i \in 1..(Len(q) + 1)
          /\ Len(q) + 1 \in 1..(Len(q) + 1)
      BY <1>6
    <3>5. (\E i \in 1..(Len(q) + 1) : Append(q, c)[i])
             <=> (\E i \in 1..Len(q) : q[i]) \/ c
      BY <1>7, <3>3, <3>4
    <3> QED BY <2>2, <3>1, <3>2, <3>5
  <2> QED BY <2>1, <2>2
<1>10. Grown
  BY <1>1, <1>3, <1>4, <1>5, <1>9 DEF Grown
<1>11. RowsAtAtlas'
  BY <1>3 DEF RowsAtAtlas
<1>12. PICK r \in Frame :
         /\ r.no = n /\ r.then = job[j].then
         /\ (r.then = "queried" => r.result = Outcome(c))
         /\ (r.then = "ordered" => r.result = "DUPLICATE_REJECTED")
         /\ \/ MaybeTransition(j, r, "VERIFIED", "MONITORING", r.then)
            \/ Goto(j, r, r.then)
  <2>1. PICK x : /\ x = IF job[j].then = "queried" THEN Outcome(c) ELSE job[j].result
                 /\ \/ MaybeTransition(j, [job[j] EXCEPT !.result = x],
                                       "VERIFIED", "MONITORING", job[j].then)
                    \/ Goto(j, [job[j] EXCEPT !.result = x], job[j].then)
    BY <1>2 DEF QueryOrder
  <2>2. x \in Verdict \union OrderOutcome \union PaymentOutcome
                \union {"none", "CONFIRMED", "UNCONFIRMED"}
    BY <1>1, <2>1, FrameFields DEF Outcome
  <2> DEFINE r == [job[j] EXCEPT !.result = x]
  <2>3. r \in Frame /\ r.no = n /\ r.then = job[j].then /\ r.result = x
    BY <1>1, <1>2, <2>2, WithResult
  <2>4. \/ MaybeTransition(j, r, "VERIFIED", "MONITORING", job[j].then)
        \/ Goto(j, r, job[j].then)
    BY <2>1
  <2> HIDE DEF r
  <2>5. /\ r.then = "ordered" => r.result = "DUPLICATE_REJECTED"
        /\ r.then = "queried" => r.result = Outcome(c)
    BY <1>4, <2>1, <2>3
  <2> QED BY <2>3, <2>4, <2>5
<1>13. r.then \in {"verified", "ordered", "queried"}
  BY FrameFields
<1>14. PICK h \in Frame, p \in {r.then, "checking"} :
         /\ Goto(j, h, p) /\ h.result = r.result /\ h.no = r.no
         /\ p = "checking" => h.then = r.then
  <2>1. CASE MaybeTransition(j, r, "VERIFIED", "MONITORING", r.then)
    BY <1>13, <2>1, TransitionFrame DEF JourneyState
  <2>2. CASE Goto(j, r, r.then)
    BY <1>13, <2>2
  <2> QED BY <1>12, <2>1, <2>2
<1>15. PICK f \in Frame :
        /\ job' = [job EXCEPT ![j] = f]
        /\ f.pc = p /\ f.result = h.result /\ f.no = h.no /\ f.then = h.then
  BY <1>13, <1>14, GotoFrame DEF Points
<1>16. Moves(j, job[j], f)
  <2>1. Bought(f) => Bought(job[j]) /\ f.no = job[j].no
    BY <1>2, <1>3, <1>12, <1>13, <1>14, <1>15 DEF Bought, Awaiting, Paid
  <2>2. Told(f) => EverConfirmed(f.no)'
    <3>1. Told(f) => c
      BY <1>12, <1>13, <1>14, <1>15 DEF Told, Outcome
    <3>2. f.no = n
      BY <1>12, <1>14, <1>15
    <3> QED BY <1>4, <1>9, <3>1, <3>2
  <2>3. Paid(job[j]) => Paid(f)
    BY <1>3, <1>12, <1>13, <1>14, <1>15 DEF Paid
  <2>4. Asked(f) => Asked(job[j])
    BY <1>3, <1>12, <1>13, <1>14, <1>15 DEF Asked
  <2> QED BY <1>3, <2>1, <2>2, <2>3, <2>4 DEF Moves
<1> QED BY <1>1, <1>10, <1>11, <1>15, <1>16 DEF CallerMoves

(* Money only moves for the order that its caller was told of. *)
LEMMA ChargeMove ==
  ASSUME BookingInv, RowsAtAtlas, NEW j \in Jobs, Awaiting(job[j]),
         Charge(job[j].no), NEW f \in Frame, job' = [job EXCEPT ![j] = f],
         UNCHANGED <<orders, queries>>,
         (f.pc = "paid" /\ f.no = job[j].no /\ f.result # "CONFIRMED")
           \/ f.pc = "crashed"
  PROVE  CallerMoves(j)
<1>1. TypeOK /\ Len(atlas) \in Nat /\ job[j] \in Frame
  BY OwnFrame, Lengths
<1>2. PICK n \in 1..Len(atlas) : n = job[j].no /\ atlas[n].charges = 0 /\ Charge(n)
  BY DEF BookingInv, MoneyInv, Sound
<1>3. /\ Len(atlas') = Len(atlas) /\ atlas'[n].charges = 1
      /\ atlas[n].status = "ticketed" => atlas'[n].status = "ticketed"
      /\ \A m \in 1..Len(atlas) : m # n => atlas'[m] = atlas[m]
  BY <1>1, <1>2, Charged
<1>4. \A m : EverConfirmed(m)' = EverConfirmed(m)
  BY DEF EverConfirmed
<1>5. \A m \in OrderNos : EverConfirmed(m)' => EverConfirmed(m)
  BY <1>4
<1>6. Grown
  <2>1. \A m \in 1..Len(atlas) :
          /\ atlas[m].charges = 1 => atlas'[m].charges = 1
          /\ atlas[m].status = "ticketed" => atlas'[m].status = "ticketed"
    BY <1>3
  <2> QED BY <1>1, <1>3, <1>4, <2>1 DEF Grown
<1>7. RowsAtAtlas'
  BY <1>3 DEF RowsAtAtlas
<1>8. Moves(j, job[j], f)
  <2>1. /\ Bought(f) => Bought(job[j]) /\ f.no = job[j].no
        /\ ~Told(f) /\ ~Paid(job[j]) /\ ~Asked(f)
        /\ Paid(f) \/ f.pc = "crashed"
    BY DEF Bought, Awaiting, Paid, Told, Asked
  <2>2. \A m \in 1..Len(atlas') : atlas'[m].charges = 1 =>
          \/ m \in 1..Len(atlas) /\ atlas[m].charges = 1
          \/ m = job[j].no
    BY <1>2, <1>3
  <2> QED BY <2>1, <2>2 DEF Moves
<1> QED BY <1>1, <1>6, <1>7, <1>8 DEF CallerMoves

LEMMA PaymentMoves ==
  ASSUME BookingInv, RowsAtAtlas, NEW j \in Jobs, SubmitPayment(j) \/ CrashPaying(j)
  PROVE  CallerMoves(j)
<1>1. /\ job[j] \in Frame /\ Awaiting(job[j]) /\ UNCHANGED <<orders, queries>>
  BY OwnFrame DEF SubmitPayment, CrashPaying, Awaiting, At, tables
<1>2. CASE Stop(j, "raised") /\ UNCHANGED atlas
  BY <1>1, <1>2, StopMove DEF Stops
<1>3. CASE Charge(job[j].no) /\ Stop(j, "crashed")
  BY <1>1, <1>3, StopFrame, ChargeMove DEF Stops
<1>4. CASE \E out \in PaymentOutcome :
             (Charge(job[j].no) \/ UNCHANGED atlas) /\ PaymentStored(j, out)
  <2>1. PICK out \in PaymentOutcome :
             (Charge(job[j].no) \/ UNCHANGED atlas) /\ PaymentStored(j, out)
    BY <1>4
  <2> DEFINE g == [job[j] EXCEPT !.result = out]
  <2>2. Goto(j, g, "paid")
    BY <2>1 DEF PaymentStored
  <2>3. g \in Frame /\ g.no = job[j].no /\ g.result = out
    BY <1>1, WithResult
  <2> HIDE DEF g
  <2>4. out # "CONFIRMED"
    BY DEF PaymentOutcome
  <2>5. PICK f \in Frame : /\ job' = [job EXCEPT ![j] = f]
                           /\ f.pc = "paid" /\ f.no = g.no /\ f.result = g.result
    BY <2>2, <2>3, GotoFrame DEF Points
  <2>6. CASE UNCHANGED atlas
    <3>1. /\ Bought(f) => Bought(job[j]) /\ f.no = job[j].no
          /\ ~Told(f) /\ Paid(f) /\ ~Asked(f)
      BY <1>1, <2>3, <2>5 DEF Bought, Awaiting, Paid, Told, Asked
    <3> QED BY <1>1, <2>5, <2>6, <3>1, QuietMove
  <2>7. CASE Charge(job[j].no)
    BY <1>1, <2>3, <2>4, <2>5, <2>7, ChargeMove
  <2> QED BY <2>1, <2>6, <2>7
<1> QED BY <1>2, <1>3, <1>4 DEF SubmitPayment, CrashPaying, Raise, PaymentOutcome

LEMMA ServiceMoves ==
  ASSUME BookingInv, RowsAtAtlas, NEW j \in Jobs, CallerStep(j) \/ Dying(j)
  PROVE  CallerMoves(j)
<1>1. CASE \/ \E verdict \in Verdict : VerifyAnswered(j, verdict)
           \/ CheckTransition(j) \/ WriteTransition(j)
  BY <1>1, VerifyMoves, TransitionMoves
<1>2. CASE \/ VerifyRaises(j) \/ QueryRaises(j) \/ FinishBooking(j)
           \/ Crash(j) \/ FinishVerifying(j) \/ Start(j)
  BY <1>2, EndMoves
<1>3. CASE ReadSession(j) \/ ConfirmTicketing(j) \/ QueryOrder(j)
  BY <1>3, ReadSessionMoves, ConfirmMoves, QueryMoves
<1>4. CASE \/ OrderUncertain(j) \/ OrderError(j) \/ OrderUnnumbered(j)
           \/ OrderCreated(j) \/ OrderDuplicate(j) \/ CrashOrdering(j)
  BY <1>4, UncertainMoves, CreatedMoves, DuplicateMoves, CrashOrderingMoves
<1>5. CASE SubmitPayment(j) \/ CrashPaying(j)
  BY <1>5, PaymentMoves
<1> QED BY <1>1, <1>2, <1>3, <1>4, <1>5 DEF CallerStep, Dying, Verifying, Buying

(* Atlas settles an order or time passes: nobody is charged. *)
LEMMA WorldMoves ==
  ASSUME BookingInv, RowsAtAtlas, World
  PROVE  /\ Grown /\ RowsAtAtlas' /\ job' = job /\ Len(atlas') = Len(atlas)
         /\ \A n \in 1..Len(atlas) : atlas'[n].charges = atlas[n].charges
<1>1. /\ TypeOK /\ Len(atlas) \in Nat /\ UNCHANGED <<orders, queries, job>>
  BY OwnFrame, Lengths DEF World, AtlasSettles, Tick, tables, BookingInv
<1>2. \A m : EverConfirmed(m)' = EverConfirmed(m)
  BY <1>1 DEF EverConfirmed
<1>3. \A m \in OrderNos : EverConfirmed(m)' => EverConfirmed(m)
  BY <1>2
<1>4. /\ Len(atlas') = Len(atlas)
      /\ \A m \in 1..Len(atlas) :
           /\ atlas'[m].charges = atlas[m].charges
           /\ atlas[m].status = "ticketed" => atlas'[m].status = "ticketed"
  <2>1. CASE UNCHANGED atlas
    BY <2>1
  <2>2. CASE AtlasSettles
    <3>1. PICK n \in 1..Len(atlas), status \in {"partial", "ticketed", "void"} :
            atlas[n].status # "ticketed" /\ atlas' = [atlas EXCEPT ![n].status = status]
      BY <2>2 DEF AtlasSettles
    <3>2. DOMAIN atlas = 1..Len(atlas) /\ atlas \in Seq(AtlasOrder)
      BY <1>1, Lengths DEF TypeOK
    <3> DEFINE x == [option |-> atlas[n].option, status |-> status,
                     charges |-> atlas[n].charges]
    <3>3. x \in AtlasOrder /\ x.charges = atlas[n].charges
      BY <1>1, Lengths DEF AtlasOrder, AtlasStatus
    <3>4. [atlas[n] EXCEPT !.status = status] = x
      BY <1>1, Lengths
    <3> HIDE DEF x
    <3>5. atlas' = [atlas EXCEPT ![n] = x]
      BY <3>1, <3>4
    <3>6. /\ Len(atlas') = Len(atlas) /\ atlas'[n] = x
          /\ \A m \in 1..Len(atlas) : m # n => atlas'[m] = atlas[m]
      BY <1>1, <3>3, <3>5, AtlasUpdated
    <3> QED BY <3>1, <3>3, <3>6
  <2> QED BY <2>1, <2>2 DEF World, Tick
<1>5. Grown
  BY <1>1, <1>2, <1>4 DEF Grown
<1>6. RowsAtAtlas'
  BY <1>1, <1>4 DEF RowsAtAtlas
<1> QED BY <1>1, <1>4, <1>5, <1>6

-------------------------------------------------------------------------------
(* What every step of a recovery keeps. *)

LEMMA ReplacingMoves ==
  ASSUME TypeOK, Len(atlas') \in Nat, Grown, NEW j, NEW f, NEW g, NEW s,
         Replacing(f, s), Moves(j, f, g)
  PROVE  Replacing(g, s)'
<1>1. Replacing(f, s)' /\ Len(atlas) \in Nat /\ s \in 0..Len(atlas)
  BY ReplacingStays, Lengths DEF Replacing
<1>2. Bought(g) => g.no \in 1..Len(atlas') /\ s < g.no
  <2>1. CASE Bought(f) /\ g.no = f.no
    BY <1>1, <2>1 DEF Replacing, Bought, Awaiting, Paid
  <2>2. CASE g.no \in 1..Len(atlas') /\ g.no \notin 1..Len(atlas)
    BY <1>1, <2>2
  <2> QED BY <2>1, <2>2 DEF Moves
<1>3. Told(g) => EverConfirmed(g.no)'
  BY <1>1 DEF Moves, Replacing, Told
<1> QED BY <1>1, <1>2, <1>3 DEF Replacing, Bought, Awaiting, Paid, Told

LEMMA PromisesKept ==
  ASSUME RecoveryInv, Len(atlas') \in Nat, Grown
  PROVE  /\ ConfirmedSound' /\ EverConfirmed(Original)'
         /\ current' = current => CurrentIsConfirmed'
         /\ cancels' = cancels => ReleasedAfterSecured'
<1>1. TypeOK /\ ConfirmedSound' /\ EverConfirmed(Original)'
  BY GrownOrders DEF RecoveryInv, BookingInv
<1>2. ASSUME current' = current
      PROVE  CurrentIsConfirmed'
  <2> SUFFICES ASSUME current # NoOrder
               PROVE  atlas'[current].charges > 0 /\ EverConfirmed(current)'
    BY <1>2 DEF CurrentIsConfirmed
  <2>1. PICK n \in OrderNos : n = current /\ EverConfirmed(n)
    BY DEF RecoveryInv, RecoveryTyped, MaybeOrder, CurrentIsConfirmed
  <2>2. EverConfirmed(n)'
    BY <2>1 DEF Grown
  <2>3. atlas'[n].charges = 1
    BY <1>1, <2>2 DEF ConfirmedSound
  <2>4. EverConfirmed(current)'
    BY <1>2, <2>1, <2>2
  <2> QED BY <1>2, <2>1, <2>3, <2>4
<1>3. ASSUME cancels' = cancels
      PROVE  ReleasedAfterSecured'
  BY <1>3 DEF RecoveryInv, ReleasedAfterSecured, Grown
<1> QED BY <1>1, <1>2, <1>3

(* A recovery that does not move still owns what it owned. *)
LEMMA OwnedStays ==
  ASSUME RecoveryInv, Len(atlas') \in Nat, Grown, NEW k \in Recoverers,
         job'[k] = job[k], exec'[k] = exec[k],
         exec[k].pc \in Running =>
           executions'[RecoveryOf[k]].status = "IN_PROGRESS"
  PROVE  Owned(k)'
<1>1. Owned(k) /\ TypeOK
  BY DEF RecoveryInv, BookingInv
<1>2. PICK f, e : f = job[k] /\ e = exec[k]
  OBVIOUS
<1>3. Replacing(f, e.superseded) => Replacing(f, e.superseded)'
  BY <1>1, ReplacingStays
<1>4. /\ job'[k] = f /\ exec'[k] = e
      /\ e.pc \in {"new", "saving"} => f.pc = "idle" /\ e.superseded = NoOrder
      /\ e.pc \in Running => /\ executions'[RecoveryOf[k]].status = "IN_PROGRESS"
                             /\ Replacing(f, e.superseded)
      /\ e.pc \in Securing => f.pc = "queried" /\ f.result = "CONFIRMED"
      /\ e.pc \in {"secured", "reconciling"} => e.superseded # NoOrder
  BY <1>1, <1>2 DEF Owned, At
<1>5. e.pc \in Running => Replacing(f, e.superseded)'
  BY <1>3, <1>4
<1>6. Replacing(job[k], exec[k].superseded)' <=> Replacing(f, e.superseded)'
  BY <1>4 DEF Replacing, Bought, Awaiting, Paid, Told, EverConfirmed
<1> QED BY <1>4, <1>5, <1>6 DEF Owned, At

(* One caller moves, and whatever it does to the rows, every other recovery
   that is running keeps its own. *)
LEMMA OneMoves ==
  ASSUME RecoveryInv, BookingInv', RecoveryTyped', RowsAtAtlas', Grown,
         UNCHANGED current \/ CurrentIsConfirmed',
         UNCHANGED cancels \/ ReleasedAfterSecured', NEW j \in Jobs,
         \A k \in Jobs : k # j => job'[k] = job[k],
         \A k \in Recoverers : k # j => exec'[k] = exec[k],
         \A k \in Recoverers : k # j /\ exec[k].pc \in Running =>
           executions'[RecoveryOf[k]] = executions[RecoveryOf[k]],
         j \in Recoverers => Owned(j)',
         j \in Recoverers /\ exec'[j].pc \in Running =>
           \A k \in Recoverers : k # j /\ exec[k].pc \in Running =>
             RecoveryOf[j] # RecoveryOf[k]
  PROVE  RecoveryInv'
<1>1. Len(atlas') \in Nat
  BY LenProperties DEF BookingInv, TypeOK
<1>2. /\ ConfirmedSound' /\ EverConfirmed(Original)'
      /\ CurrentIsConfirmed' /\ ReleasedAfterSecured'
  BY <1>1, PromisesKept
<1>3. ASSUME NEW k \in Recoverers
      PROVE  Owned(k)'
  <2>1. CASE k = j
    BY <2>1
  <2>2. CASE k # j
    <3>1. k \in Jobs /\ Owned(k)
      BY DEF Recoverers, RecoveryInv
    <3>2. exec[k].pc \in Running => executions'[RecoveryOf[k]].status = "IN_PROGRESS"
      BY <2>2, <3>1 DEF Owned
    <3> QED BY <1>1, <2>2, <3>1, <3>2, OwnedStays
  <2> QED BY <2>1, <2>2
<1>4. OneRunning'
  BY DEF RecoveryInv, OneRunning
<1> QED BY <1>2, <1>3, <1>4 DEF RecoveryInv

-------------------------------------------------------------------------------
(* What the recovery's own part of an object becomes. *)

ExecPoints == {"new", "saving", "buying", "secured", "reconciling", "concluding",
               "over"}

LEMMA ExecFields ==
  ASSUME NEW e \in ExecFrame
  PROVE  /\ e = [pc |-> e.pc, superseded |-> e.superseded,
                 cancellation |-> e.cancellation]
         /\ e.pc \in ExecPoints /\ e.superseded \in MaybeOrder
         /\ e.cancellation \in CancellationOutcome
BY DEF ExecFrame, ExecPoints

(* A recovery that goes on with what it had, and one that is over. *)
LEMMA ProceedFrame ==
  ASSUME RecoveryTyped, NEW j \in Recoverers, NEW p \in ExecPoints, Proceed(j, p)
  PROVE  \E e \in ExecFrame :
           /\ exec' = [exec EXCEPT ![j] = e]
           /\ e.pc = p /\ e.superseded = exec[j].superseded
           /\ e.cancellation = exec[j].cancellation
<1>1. exec[j] \in ExecFrame
  BY DEF RecoveryTyped
<1> DEFINE e == [pc |-> p, superseded |-> exec[j].superseded,
                 cancellation |-> exec[j].cancellation]
<1>2. [exec[j] EXCEPT !.pc = p] = e
  BY <1>1, ExecFields
<1>3. /\ e \in ExecFrame /\ e.pc = p /\ e.superseded = exec[j].superseded
      /\ e.cancellation = exec[j].cancellation
  BY <1>1, ExecFields DEF ExecFrame, ExecPoints
<1> HIDE DEF e
<1>4. exec' = [exec EXCEPT ![j] = e]
  BY <1>2 DEF Proceed
<1> QED BY <1>3, <1>4

LEMMA OverFrame ==
  ASSUME NEW j \in Recoverers, Over(j)
  PROVE  \E e \in ExecFrame : exec' = [exec EXCEPT ![j] = e] /\ e.pc = "over"
<1> DEFINE e == [pc |-> "over", superseded |-> NoOrder,
                 cancellation |-> "NOT_ATTEMPTED"]
<1>1. [NewExec EXCEPT !.pc = "over"] = e
  BY DEF NewExec
<1>2. e \in ExecFrame /\ e.pc = "over"
  BY DEF ExecFrame, MaybeOrder, CancellationOutcome, NoOrder
<1> HIDE DEF e
<1>3. exec' = [exec EXCEPT ![j] = e]
  BY <1>1 DEF Over
<1> QED BY <1>2, <1>3

(* Recovery's tables and objects after a step that keeps the tables. *)
LEMMA ExecMoves ==
  ASSUME RecoveryTyped, NEW j \in Recoverers, NEW e \in ExecFrame,
         exec' = [exec EXCEPT ![j] = e]
  PROVE  /\ exec' \in [Recoverers -> ExecFrame] /\ exec'[j] = e
         /\ \A k \in Recoverers : k # j => exec'[k] = exec[k]
BY DEF RecoveryTyped

(* A service call, made by whoever, or the death of its caller. *)
LEMMA ServiceKeeps ==
  ASSUME RecoveryInv, NEW j \in Jobs, ServiceStep(j) \/ Dies(j)
  PROVE  RecoveryInv'
<1>1. /\ BookingInv /\ TypeOK /\ RecoveryTyped /\ RowsAtAtlas
      /\ job \in [Jobs -> Frame]
  BY DEF RecoveryInv, BookingInv, TypeOK
<1>2. /\ CallerStep(j) \/ Dying(j)
      /\ UNCHANGED <<granted, executions, current, cancels>>
  BY DEF ServiceStep, Dies, CallerStep, recoveryTables
<1>3. BookingInv'
  BY <1>1, <1>2, BookingStep DEF Next
<1>4. Grown /\ RowsAtAtlas' /\ CallerMoves(j)
  BY <1>1, <1>2, ServiceMoves DEF CallerMoves
<1>5. PICK f \in Frame, g \in Frame :
        job[j] = f /\ job' = [job EXCEPT ![j] = g] /\ Moves(j, f, g)
  BY <1>4 DEF CallerMoves
<1>6. job'[j] = g /\ \A k \in Jobs : k # j => job'[k] = job[k]
  BY <1>1, <1>5
<1>7. Len(atlas') \in Nat
  BY <1>3, LenProperties DEF BookingInv, TypeOK
<1>8. CASE UNCHANGED exec /\ (j \in Recoverers => In(j, "buying"))
  <2>1. RecoveryTyped'
    BY <1>1, <1>2, <1>8 DEF RecoveryTyped
  <2>2. ASSUME j \in Recoverers
        PROVE  Owned(j)'
    <3>1. PICK e : e = exec[j] /\ e.pc = "buying"
      BY <1>8, <2>2 DEF In
    <3>2. /\ executions[RecoveryOf[j]].status = "IN_PROGRESS"
          /\ Replacing(f, e.superseded)
      BY <1>5, <2>2, <3>1 DEF RecoveryInv, Owned, Running
    <3>3. Replacing(g, e.superseded)'
      BY <1>1, <1>4, <1>5, <1>7, <3>2, ReplacingMoves
    <3>4. Replacing(job[j], exec[j].superseded)'
      BY <1>6, <1>8, <3>1, <3>3
      DEF Replacing, Bought, Awaiting, Paid, Told, EverConfirmed
    <3>5. exec'[j].pc = "buying" /\ executions' = executions
      BY <1>2, <1>8, <3>1
    <3> QED BY <3>2, <3>4, <3>5 DEF Owned, Running, Securing, At
  <2>3. j \in Recoverers /\ exec'[j].pc \in Running =>
          \A k \in Recoverers : k # j /\ exec[k].pc \in Running =>
             RecoveryOf[j] # RecoveryOf[k]
    BY <1>8 DEF RecoveryInv, OneRunning
  <2> QED BY <1>2, <1>3, <1>4, <1>6, <1>8, <2>1, <2>2, <2>3, OneMoves
<1>9. CASE j \in Recoverers /\ Over(j)
  <2>1. PICK e \in ExecFrame : exec' = [exec EXCEPT ![j] = e] /\ e.pc = "over"
    BY <1>9, OverFrame
  <2>2. /\ exec' \in [Recoverers -> ExecFrame] /\ exec'[j] = e
        /\ \A k \in Recoverers : k # j => exec'[k] = exec[k]
    BY <1>1, <1>9, <2>1, ExecMoves
  <2>3. RecoveryTyped'
    BY <1>1, <1>2, <2>2 DEF RecoveryTyped
  <2>4. Owned(j)' /\ exec'[j].pc \notin Running
    BY <2>1, <2>2 DEF Owned, Running, Securing
  <2> QED BY <1>2, <1>3, <1>4, <1>6, <2>2, <2>3, <2>4, OneMoves
<1>10. CASE j \notin Recoverers /\ UNCHANGED exec
  BY <1>8, <1>10
<1> QED BY <1>8, <1>9, <1>10 DEF ServiceStep, Dies

LEMMA WorldKeeps ==
  ASSUME RecoveryInv, World, UNCHANGED <<granted, recoveryTables, exec>>
  PROVE  RecoveryInv'
<1>1. BookingInv /\ RowsAtAtlas /\ RecoveryTyped
  BY DEF RecoveryInv
<1>2. BookingInv'
  BY <1>1, BookingStep DEF World, Next
<1>3. /\ Grown /\ RowsAtAtlas' /\ job' = job
      /\ UNCHANGED <<granted, executions, current, cancels, exec>>
  BY <1>1, WorldMoves DEF recoveryTables
<1>4. Len(atlas') \in Nat
  BY <1>2, LenProperties DEF BookingInv, TypeOK
<1>5. RecoveryTyped'
  BY <1>1, <1>3 DEF RecoveryTyped
<1>6. /\ ConfirmedSound' /\ EverConfirmed(Original)'
      /\ CurrentIsConfirmed' /\ ReleasedAfterSecured'
  BY <1>3, <1>4, PromisesKept
<1>7. ASSUME NEW k \in Recoverers
      PROVE  Owned(k)'
  <2>1. exec[k].pc \in Running => executions'[RecoveryOf[k]].status = "IN_PROGRESS"
    BY <1>3 DEF RecoveryInv, Owned
  <2> QED BY <1>3, <1>4, <2>1, OwnedStays
<1>8. OneRunning'
  BY <1>3 DEF RecoveryInv, OneRunning
<1> QED BY <1>2, <1>3, <1>5, <1>6, <1>7, <1>8 DEF RecoveryInv

-------------------------------------------------------------------------------
(* The recovery's own steps. *)

LEMMA StillGrown ==
  ASSUME TypeOK, RowsAtAtlas, UNCHANGED <<orders, queries, atlas>>
  PROVE  Grown /\ RowsAtAtlas'
<1>1. Len(atlas) \in Nat
  BY Lengths
<1>2. \A n : EverConfirmed(n)' = EverConfirmed(n)
  BY DEF EverConfirmed
<1>3. \A n \in OrderNos : EverConfirmed(n)' => EverConfirmed(n)
  BY <1>2
<1>4. Grown
  BY <1>1, <1>2, <1>3 DEF Grown
<1> QED BY <1>4 DEF RowsAtAtlas

LEMMA RowOf ==
  ASSUME NEW j \in Recoverers
  PROVE  j \in Jobs /\ RecoveryOf[j] \in Recommendations
BY RecoveryAssumption DEF Recoverers, Recommendations

(* One execution row is written. *)
LEMMA RowWritten ==
  ASSUME RecoveryTyped, NEW j \in Recoverers, NEW x \in ExecutionRow,
         executions' = [executions EXCEPT ![RecoveryOf[j]] = x]
  PROVE  /\ executions' \in [Recommendations -> ExecutionRow]
         /\ executions'[RecoveryOf[j]] = x
         /\ \A r \in Recommendations : r # RecoveryOf[j] => executions'[r] = executions[r]
BY RowOf DEF RecoveryTyped

(* The call of execute ends: its row may change for the last time, and the
   frame and the object are gone. *)
LEMMA EndKeeps ==
  ASSUME RecoveryInv, NEW j \in Recoverers, NEW p \in {"ended", "raised"},
         Stop(j, p), Over(j), ~At(j, "crashed"),
         UNCHANGED <<journey, tables, atlas, clock, granted, current, cancels>>,
         \/ UNCHANGED executions
         \/ /\ exec[j].pc \in Running
            /\ \E x \in ExecutionRow :
                 executions' = [executions EXCEPT ![RecoveryOf[j]] = x]
  PROVE  RecoveryInv'
<1>1. /\ BookingInv /\ TypeOK /\ RecoveryTyped /\ RowsAtAtlas
      /\ j \in Jobs /\ RecoveryOf[j] \in Recommendations
  BY RowOf DEF RecoveryInv, BookingInv
<1>2. /\ UNCHANGED <<state, audit, held, verified, clock, orders, queries>>
      /\ UNCHANGED <<tables, atlas>> /\ UNCHANGED <<orders, queries, atlas>>
  BY DEF journey, tables
<1>3. BookingInv'
  BY <1>1, <1>2, StopStep DEF TypeOK
<1>4. Grown /\ RowsAtAtlas'
  BY <1>1, <1>2, StillGrown
<1>5. \A k \in Jobs : k # j => job'[k] = job[k]
  BY <1>1, StopFrame DEF TypeOK, Stops
<1>6. PICK e \in ExecFrame : exec' = [exec EXCEPT ![j] = e] /\ e.pc = "over"
  BY OverFrame
<1>7. /\ exec' \in [Recoverers -> ExecFrame] /\ exec'[j] = e
      /\ \A k \in Recoverers : k # j => exec'[k] = exec[k]
  BY <1>1, <1>6, ExecMoves
<1>8. Owned(j)' /\ exec'[j].pc \notin Running
  BY <1>6, <1>7 DEF Owned, Running, Securing
<1>9. /\ executions' \in [Recommendations -> ExecutionRow]
      /\ \A k \in Recoverers : k # j /\ exec[k].pc \in Running =>
           executions'[RecoveryOf[k]] = executions[RecoveryOf[k]]
  <2>1. CASE UNCHANGED executions
    BY <1>1, <2>1 DEF RecoveryTyped
  <2>2. CASE /\ exec[j].pc \in Running
             /\ \E x \in ExecutionRow :
                  executions' = [executions EXCEPT ![RecoveryOf[j]] = x]
    <3>1. \A k \in Recoverers : k # j /\ exec[k].pc \in Running =>
            RecoveryOf[k] \in Recommendations /\ RecoveryOf[j] # RecoveryOf[k]
      BY <2>2, RowOf DEF RecoveryInv, OneRunning
    <3> QED BY <1>1, <2>2, <3>1, RowWritten
  <2> QED BY <2>1, <2>2
<1>10. RecoveryTyped'
  BY <1>1, <1>7, <1>9 DEF RecoveryTyped
<1> QED BY <1>1, <1>3, <1>4, <1>5, <1>7, <1>8, <1>9, <1>10, OneMoves

(* A recovery that stays where its caller is. *)
LEMMA StillKeeps ==
  ASSUME RecoveryInv, NEW j \in Recoverers, exec[j].pc \in Running,
         UNCHANGED <<bookingVars, granted, executions>>,
         current' \in MaybeOrder,
         cancels' \in Seq([no : OrderNos, confirmed : BOOLEAN]),
         UNCHANGED current \/ CurrentIsConfirmed',
         UNCHANGED cancels \/ ReleasedAfterSecured',
         NEW e \in ExecFrame, exec' = [exec EXCEPT ![j] = e],
         e.pc \in Securing, e.superseded = exec[j].superseded,
         At(j, "queried") /\ job[j].result = "CONFIRMED",
         e.pc \in {"secured", "reconciling"} => e.superseded # NoOrder
  PROVE  RecoveryInv'
<1>1. /\ BookingInv /\ TypeOK /\ RecoveryTyped /\ RowsAtAtlas /\ j \in Jobs
      /\ Owned(j)
  BY RowOf DEF RecoveryInv, BookingInv
<1>2. UNCHANGED <<job, orders, queries, atlas, granted, executions>>
  BY DEF bookingVars, tables
<1>3. BookingInv'
  BY <1>1, BookingStutter
<1>4. Grown /\ RowsAtAtlas'
  BY <1>1, <1>2, StillGrown
<1>5. /\ exec' \in [Recoverers -> ExecFrame] /\ exec'[j] = e
      /\ \A k \in Recoverers : k # j => exec'[k] = exec[k]
  BY <1>1, ExecMoves
<1>6. Owned(j)'
  <2>1. /\ executions[RecoveryOf[j]].status = "IN_PROGRESS"
        /\ Replacing(job[j], e.superseded)
    BY <1>1 DEF Owned
  <2>2. Replacing(job[j], exec[j].superseded)'
    BY <1>2, <1>5, <2>1 DEF Replacing, Bought, Awaiting, Paid, Told, EverConfirmed
  <2> QED BY <1>2, <1>5, <2>1, <2>2 DEF Owned, Running, Securing, At
<1>7. RecoveryTyped'
  BY <1>1, <1>2, <1>5 DEF RecoveryTyped
<1>8. \A k \in Recoverers : k # j /\ exec[k].pc \in Running =>
        RecoveryOf[j] # RecoveryOf[k]
  BY DEF RecoveryInv, OneRunning
<1> QED BY <1>1, <1>2, <1>3, <1>4, <1>5, <1>6, <1>7, <1>8, OneMoves

(* The recovery and its caller go on together, and nothing else changes but the
   rows and where the recovery stands. *)
LEMMA GoesKeeps ==
  ASSUME RecoveryInv, NEW j \in Recoverers, NEW f \in Frame,
         job' = [job EXCEPT ![j] = f], BookingInv',
         UNCHANGED <<orders, queries, atlas, granted, current, cancels>>,
         f.pc \in {"idle", "verifying", "ordering"},
         NEW e \in ExecFrame, exec' = [exec EXCEPT ![j] = e],
         executions' \in [Recommendations -> ExecutionRow],
         \A r \in Recommendations : r # RecoveryOf[j] => executions'[r] = executions[r],
         e.pc = "saving" => UNCHANGED executions,
         \/ e.pc = "saving" /\ f.pc = "idle" /\ e.superseded = NoOrder
         \/ e.pc = "buying" /\ executions'[RecoveryOf[j]].status = "IN_PROGRESS",
         e.superseded \in 0..Len(atlas),
         e.pc = "buying" =>
           \A k \in Recoverers : k # j /\ exec[k].pc \in Running =>
             RecoveryOf[j] # RecoveryOf[k]
  PROVE  RecoveryInv'
<1>1. /\ BookingInv /\ TypeOK /\ RecoveryTyped /\ RowsAtAtlas
      /\ j \in Jobs /\ RecoveryOf[j] \in Recommendations
  BY RowOf DEF RecoveryInv, BookingInv
<1>2. Grown /\ RowsAtAtlas'
  BY <1>1, StillGrown
<1>3. job'[j] = f /\ \A k \in Jobs : k # j => job'[k] = job[k]
  BY <1>1 DEF TypeOK
<1>4. /\ exec' \in [Recoverers -> ExecFrame] /\ exec'[j] = e
      /\ \A k \in Recoverers : k # j => exec'[k] = exec[k]
  BY <1>1, ExecMoves
<1>5. Owned(j)'
  <2>1. ~Bought(f) /\ ~Told(f)
    BY DEF Bought, Awaiting, Paid, Told
  <2>2. Replacing(job[j], exec[j].superseded)'
    BY <1>3, <1>4, <2>1 DEF Replacing, Bought, Awaiting, Paid, Told
  <2> QED BY <1>3, <1>4, <2>2 DEF Owned, Running, Securing, At
<1>6. RecoveryTyped'
  BY <1>1, <1>4 DEF RecoveryTyped
<1>7. \A k \in Recoverers : k # j /\ exec[k].pc \in Running =>
        executions'[RecoveryOf[k]] = executions[RecoveryOf[k]]
  <2> SUFFICES ASSUME NEW k \in Recoverers, k # j, exec[k].pc \in Running
               PROVE  executions'[RecoveryOf[k]] = executions[RecoveryOf[k]]
    OBVIOUS
  <2>1. RecoveryOf[k] \in Recommendations
    BY RowOf
  <2>2. CASE UNCHANGED executions
    BY <2>2
  <2>3. CASE e.pc = "buying"
    BY <2>1, <2>3
  <2> QED BY <2>2, <2>3
<1>8. exec'[j].pc \in Running => e.pc = "buying"
  BY <1>4 DEF Running, Securing
<1> QED BY <1>1, <1>2, <1>3, <1>4, <1>5, <1>6, <1>7, <1>8, OneMoves

(* The row may only be inserted while no recovery runs for its recommendation:
   one that runs keeps it IN_PROGRESS. *)
LEMMA RowIsFree ==
  ASSUME RecoveryInv, NEW j \in Recoverers, executions[RecoveryOf[j]] = NoRow
  PROVE  \A k \in Recoverers : exec[k].pc \in Running => RecoveryOf[j] # RecoveryOf[k]
<1>1. NoRow.status # "IN_PROGRESS"
  BY DEF NoRow
<1> QED BY <1>1 DEF RecoveryInv, Owned

LEMMA CheckKeeps ==
  ASSUME RecoveryInv, NEW j \in Recoverers, CheckExecution(j)
  PROVE  RecoveryInv'
<1>1. /\ BookingInv /\ TypeOK /\ TypedOthers /\ RecoveryTyped /\ j \in Jobs
      /\ job[j] \in Frame /\ Owned(j)
      /\ (job[j].target = "MONITORING" => Confirmed)
      /\ (state = "MONITORING" => Confirmed)
  BY RowOf, OwnFrame DEF RecoveryInv
<1>2. /\ job[j].pc = "idle" /\ exec[j].superseded = NoOrder
      /\ UNCHANGED <<state, audit, held, verified, clock, orders, queries>>
      /\ UNCHANGED <<journey, tables, atlas, granted, executions, current, cancels>>
  BY <1>1 DEF CheckExecution, In, Owned, At, journey, tables, recoveryTables
<1>3. CASE Over(j) /\ Raise(j)
  <2>1. Stop(j, "raised")
    BY <1>3 DEF Raise
  <2> QED BY <1>2, <1>3, <2>1, EndKeeps DEF At
<1>4. CASE Proceed(j, "saving") /\ job' = [job EXCEPT ![j].now = clock]
  <2> DEFINE g == [job[j] EXCEPT !.now = clock]
  <2>1. g \in Frame /\ g.target = job[j].target /\ g.pc = "idle" /\ clock \in 0..MaxClock
    BY <1>1, <1>2, WithNow DEF TypeOK
  <2>2. job' = [job EXCEPT ![j] = g]
    BY <1>4
  <2> HIDE DEF g
  <2>3. [g EXCEPT !.pc = "idle"] = g
    BY <2>1, FrameFields
  <2>4. Goto(j, g, "idle")
    BY <2>2, <2>3 DEF Goto
  <2>5. BookingInv'
    BY <1>1, <1>2, <2>1, <2>4, QuietStep DEF Points, At, TypedOthers
  <2>6. PICK e \in ExecFrame :
           /\ exec' = [exec EXCEPT ![j] = e]
           /\ e.pc = "saving" /\ e.superseded = exec[j].superseded
    BY <1>1, <1>4, ProceedFrame DEF ExecPoints
  <2>7. e.superseded = NoOrder /\ e.superseded \in 0..Len(atlas)
    BY <1>1, <1>2, <2>6, Lengths DEF NoOrder
  <2> QED BY <1>1, <1>2, <2>1, <2>2, <2>5, <2>6, <2>7, GoesKeeps DEF RecoveryTyped
<1> QED BY <1>3, <1>4 DEF CheckExecution

LEMMA SaveKeeps ==
  ASSUME RecoveryInv, NEW j \in Recoverers, SaveExecution(j)
  PROVE  RecoveryInv'
<1>1. /\ BookingInv /\ TypeOK /\ TypedOthers /\ RecoveryTyped /\ j \in Jobs
      /\ job[j] \in Frame /\ Owned(j) /\ RecoveryOf[j] \in Recommendations
      /\ (job[j].target = "MONITORING" => Confirmed)
      /\ (state = "MONITORING" => Confirmed)
  BY RowOf, OwnFrame DEF RecoveryInv
<1>2. /\ job[j].pc = "idle" /\ exec[j].superseded = NoOrder
      /\ UNCHANGED <<state, audit, held, verified, clock, orders, queries>>
      /\ UNCHANGED <<journey, tables, atlas, granted, current, cancels>>
  BY <1>1 DEF SaveExecution, In, Owned, At, journey, tables
<1>3. CASE Over(j) /\ Raise(j) /\ UNCHANGED executions
  <2>1. Stop(j, "raised")
    BY <1>3 DEF Raise
  <2> QED BY <1>2, <1>3, <2>1, EndKeeps DEF At
<1>4. CASE /\ executions[RecoveryOf[j]] = NoRow
           /\ executions' = [executions EXCEPT ![RecoveryOf[j]] =
                               [status |-> "IN_PROGRESS"]]
           /\ Goto(j, job[j], "verifying") /\ Proceed(j, "buying")
  <2>1. PICK x \in ExecutionRow :
          x.status = "IN_PROGRESS" /\ executions' = [executions EXCEPT ![RecoveryOf[j]] = x]
    <3> DEFINE x == [status |-> "IN_PROGRESS"]
    <3>1. x \in [status : {"IN_PROGRESS"}] /\ x.status = "IN_PROGRESS"
      OBVIOUS
    <3>2. executions' = [executions EXCEPT ![RecoveryOf[j]] = x]
      BY <1>4
    <3> HIDE DEF x
    <3> QED BY <3>1, <3>2 DEF ExecutionRow
  <2>2. /\ executions' \in [Recommendations -> ExecutionRow]
        /\ executions'[RecoveryOf[j]] = x
        /\ \A r \in Recommendations : r # RecoveryOf[j] => executions'[r] = executions[r]
    BY <1>1, <2>1, RowWritten
  <2>3. BookingInv'
    BY <1>1, <1>2, <1>4, QuietStep DEF Points, At, TypedOthers
  <2>4. PICK f \in Frame : job' = [job EXCEPT ![j] = f] /\ f.pc = "verifying"
    BY <1>1, <1>4, GotoFrame DEF Points
  <2>5. PICK e \in ExecFrame :
           /\ exec' = [exec EXCEPT ![j] = e]
           /\ e.pc = "buying" /\ e.superseded = exec[j].superseded
    BY <1>1, <1>4, ProceedFrame DEF ExecPoints
  <2>6. e.superseded \in 0..Len(atlas)
    BY <1>1, <1>2, <2>5, Lengths DEF NoOrder
  <2>7. \A k \in Recoverers : exec[k].pc \in Running => RecoveryOf[j] # RecoveryOf[k]
    BY <1>4, RowIsFree
  <2>8. /\ executions'[RecoveryOf[j]].status = "IN_PROGRESS"
        /\ UNCHANGED <<orders, queries, atlas, granted, current, cancels>>
        /\ f.pc \in {"idle", "verifying", "ordering"} /\ e.pc # "saving"
    BY <1>2, <2>1, <2>2, <2>4, <2>5
  <2> QED BY <2>2, <2>3, <2>4, <2>5, <2>6, <2>7, <2>8, GoesKeeps
<1> QED BY <1>3, <1>4 DEF SaveExecution

LEMMA ClearKeeps ==
  ASSUME RecoveryInv, NEW j \in Recoverers, ClearToBuy(j)
  PROVE  RecoveryInv'
<1>1. /\ BookingInv /\ TypeOK /\ TypedOthers /\ RecoveryTyped /\ j \in Jobs
      /\ job[j] \in Frame /\ Owned(j) /\ RecoveryOf[j] \in Recommendations
      /\ (job[j].target = "MONITORING" => Confirmed)
      /\ (state = "MONITORING" => Confirmed)
  BY RowOf, OwnFrame DEF RecoveryInv
<1>2. /\ job[j].pc = "verified" /\ exec[j].pc = "buying"
      /\ UNCHANGED <<state, audit, held, verified, clock, orders, queries>>
      /\ UNCHANGED <<journey, tables, atlas, granted, executions, current, cancels>>
      /\ Goto(j, job[j], "ordering")
  BY DEF ClearToBuy, In, At, journey, tables, recoveryTables
<1>3. executions[RecoveryOf[j]].status = "IN_PROGRESS"
  BY <1>1, <1>2 DEF Owned, Running
<1>4. PICK no \in MaybeOrder :
        /\ LatestOrder(no) \/ no = NoOrder
        /\ exec' = [exec EXCEPT ![j].superseded = no]
  BY DEF ClearToBuy
<1>5. no \in 0..Len(atlas)
  <2>1. Len(atlas) \in Nat
    BY <1>1, Lengths
  <2>2. LatestOrder(no) => no \in 1..Len(atlas)
    BY DEF LatestOrder, RecoveryInv, RowsAtAtlas
  <2> QED BY <1>4, <2>1, <2>2 DEF NoOrder
<1>6. PICK e \in ExecFrame :
        exec' = [exec EXCEPT ![j] = e] /\ e.pc = "buying" /\ e.superseded = no
  <2>1. exec[j] \in ExecFrame
    BY <1>1 DEF RecoveryTyped
  <2> DEFINE e == [pc |-> exec[j].pc, superseded |-> no,
                   cancellation |-> exec[j].cancellation]
  <2>2. [exec[j] EXCEPT !.superseded = no] = e
    BY <2>1, ExecFields
  <2>3. e \in ExecFrame /\ e.pc = "buying" /\ e.superseded = no
    BY <1>2, <2>1, ExecFields DEF ExecFrame
  <2> HIDE DEF e
  <2>4. exec' = [exec EXCEPT ![j] = e]
    BY <1>4, <2>2
  <2> QED BY <2>3, <2>4
<1>7. BookingInv'
  BY <1>1, <1>2, QuietStep DEF Points, At, TypedOthers
<1>8. PICK f \in Frame : job' = [job EXCEPT ![j] = f] /\ f.pc = "ordering"
  BY <1>1, <1>2, GotoFrame DEF Points
<1>9. \A k \in Recoverers : k # j /\ exec[k].pc \in Running =>
        RecoveryOf[j] # RecoveryOf[k]
  BY <1>2 DEF RecoveryInv, OneRunning, Running
<1>10. executions' \in [Recommendations -> ExecutionRow]
  BY <1>1, <1>2 DEF RecoveryTyped
<1> QED BY <1>2, <1>3, <1>5, <1>6, <1>7, <1>8, <1>9, <1>10, GoesKeeps

LEMMA AbandonKeeps ==
  ASSUME RecoveryInv, NEW j \in Recoverers, NotCleared(j) \/ ReplacementFails(j)
  PROVE  RecoveryInv'
<1>1. /\ exec[j].pc \in Running /\ ~At(j, "crashed")
      /\ UNCHANGED <<journey, tables, atlas, clock, granted, current, cancels>>
      /\ \E reason \in Reason : Abandon(j, reason)
  BY DEF NotCleared, ReplacementFails, In, Running, At, Reason
<1>2. PICK reason \in Reason : Abandon(j, reason)
  BY <1>1
<1>3. job[j].no \in MaybeOrder
  BY RowOf, OwnFrame, FrameFields DEF RecoveryInv, MaybeOrder
<1> DEFINE x == [status |-> "ABANDONED", reason |-> reason, replacement |-> job[j].no]
<1>4. x \in ExecutionRow
  BY <1>3 DEF ExecutionRow
<1>5. executions' = [executions EXCEPT ![RecoveryOf[j]] = x]
  BY <1>2 DEF Abandon
<1>6. Stop(j, "ended") /\ Over(j)
  BY <1>2 DEF Abandon
<1> HIDE DEF x
<1> QED BY <1>1, <1>4, <1>5, <1>6, EndKeeps

(* What a recovery that was told of a ticket knows of its replacement. *)
LEMMA SecuredOrder ==
  ASSUME RecoveryInv, NEW j \in Recoverers, exec[j].pc \in Running,
         At(j, "queried"), job[j].result = "CONFIRMED"
  PROVE  /\ job[j].no \in 1..Len(atlas) /\ job[j].no \in OrderNos
         /\ exec[j].superseded \in 0..Len(atlas) /\ exec[j].superseded < job[j].no
         /\ EverConfirmed(job[j].no) /\ atlas[job[j].no].charges = 1
<1>1. TypeOK /\ Replacing(job[j], exec[j].superseded)
  BY DEF RecoveryInv, BookingInv, Owned
<1>2. Bought(job[j]) /\ Told(job[j])
  BY DEF Bought, Paid, Told, At
<1>3. /\ job[j].no \in 1..Len(atlas) /\ exec[j].superseded \in 0..Len(atlas)
      /\ exec[j].superseded < job[j].no /\ EverConfirmed(job[j].no)
  BY <1>1, <1>2 DEF Replacing
<1>4. job[j].no \in OrderNos
  BY <1>1, <1>3, Lengths
<1> QED BY <1>3, <1>4 DEF RecoveryInv, ConfirmedSound

LEMMA CurrentKeeps ==
  ASSUME RecoveryInv, NEW j \in Recoverers, SetCurrentOrder(j)
  PROVE  RecoveryInv'
<1>1. /\ exec[j].pc = "buying" /\ exec[j].pc \in Running
      /\ At(j, "queried") /\ job[j].result = "CONFIRMED"
      /\ UNCHANGED <<bookingVars, granted, executions>> /\ UNCHANGED cancels
      /\ current' = job[j].no /\ RecoveryTyped
  BY DEF SetCurrentOrder, In, Running, RecoveryInv
<1>2. PICK p \in {"concluding", "secured"} :
        Proceed(j, p) /\ (p = "secured" => exec[j].superseded # NoOrder)
  BY DEF SetCurrentOrder
<1>3. PICK e \in ExecFrame :
           /\ exec' = [exec EXCEPT ![j] = e]
           /\ e.pc = p /\ e.superseded = exec[j].superseded
  BY <1>1, <1>2, ProceedFrame DEF ExecPoints
<1>4. PICK n : n = job[j].no /\ n \in OrderNos /\ EverConfirmed(n) /\ atlas[n].charges = 1
  BY <1>1, SecuredOrder
<1>5. CurrentIsConfirmed'
  BY <1>1, <1>4 DEF CurrentIsConfirmed, EverConfirmed, bookingVars, tables
<1>6. current' \in MaybeOrder /\ cancels' \in Seq([no : OrderNos, confirmed : BOOLEAN])
  BY <1>1, <1>4 DEF MaybeOrder, RecoveryTyped
<1>7. e.pc \in Securing /\ (e.pc \in {"secured", "reconciling"} => e.superseded # NoOrder)
  BY <1>2, <1>3 DEF Securing
<1> QED BY <1>1, <1>3, <1>5, <1>6, <1>7, StillKeeps

(* The superseded booking may be void at Atlas now: a later one is ticketed. *)
LEMMA VoidKeeps ==
  ASSUME RecoveryInv, NEW j \in Recoverers, VoidSuperseded(j)
  PROVE  RecoveryInv'
<1>1. /\ BookingInv /\ TypeOK /\ RecoveryTyped /\ RowsAtAtlas /\ j \in Jobs /\ Owned(j)
      /\ Len(atlas) \in Nat
  BY RowOf, Lengths DEF RecoveryInv, BookingInv
<1>2. /\ UNCHANGED <<state, audit, held, verified, orders, payments, queries, clock, job>>
      /\ UNCHANGED <<granted, executions, current, cancels>>
      /\ exec[j].pc = "secured" /\ Proceed(j, "reconciling")
  BY DEF VoidSuperseded, In, journey, tables, recoveryTables
<1>3. /\ At(j, "queried") /\ job[j].result = "CONFIRMED" /\ exec[j].superseded # NoOrder
      /\ exec[j].pc \in Running
  BY <1>1, <1>2 DEF Owned, Securing, Running
<1>4. PICK n, s : /\ n = job[j].no /\ n \in OrderNos /\ EverConfirmed(n)
                  /\ s = exec[j].superseded /\ s \in 1..Len(atlas) /\ s < n
  BY <1>1, <1>3, SecuredOrder DEF NoOrder
<1>5. \A m : EverConfirmed(m)' = EverConfirmed(m)
  BY <1>2 DEF EverConfirmed
<1>6. /\ atlas' \in Seq(AtlasOrder) /\ Len(atlas') = Len(atlas)
      /\ \A m \in 1..Len(atlas) :
           /\ atlas'[m].charges = atlas[m].charges
           /\ m # s => atlas'[m] = atlas[m]
      /\ atlas'[s].status \in {atlas[s].status, "void"}
  <2>1. CASE UNCHANGED atlas
    BY <1>1, <1>4, <2>1 DEF TypeOK
  <2>2. CASE atlas' = [atlas EXCEPT ![s].status = "void"]
    <3> DEFINE x == [option |-> atlas[s].option, status |-> "void",
                     charges |-> atlas[s].charges]
    <3>1. x \in AtlasOrder /\ x.charges = atlas[s].charges /\ x.status = "void"
      BY <1>1, <1>4, Lengths DEF AtlasOrder, AtlasStatus
    <3>2. [atlas[s] EXCEPT !.status = "void"] = x
      BY <1>1, <1>4, Lengths
    <3> HIDE DEF x
    <3>3. atlas' = [atlas EXCEPT ![s] = x]
      BY <2>2, <3>2
    <3>4. /\ atlas' \in Seq(AtlasOrder) /\ Len(atlas') = Len(atlas) /\ atlas'[s] = x
          /\ \A m \in 1..Len(atlas) : m # s => atlas'[m] = atlas[m]
      BY <1>1, <1>4, <3>1, <3>3, AtlasUpdated
    <3> QED BY <3>1, <3>4
  <2> QED BY <1>4, <2>1, <2>2 DEF VoidSuperseded
<1>7. EverConfirmed(n)'
  BY <1>4, <1>5
<1>8. \A m \in OrderNos : EverConfirmed(m)' => EverConfirmed(m)
  BY <1>5
<1>9. Grown
  BY <1>1, <1>4, <1>5, <1>6, <1>7, <1>8 DEF Grown
<1>10. RowsAtAtlas'
  BY <1>1, <1>2, <1>6 DEF RowsAtAtlas
<1>11. ConfirmedSound' /\ EverConfirmed(Original)'
  BY <1>1, <1>6, <1>9, GrownOrders DEF RecoveryInv
<1>12. Confirmed'
  <2> DEFINE T == {m \in OrderNos : EverConfirmed(m)'}
  <2>1. T \subseteq 1..MaxOrders /\ T # {} /\ MaxOrders \in Nat
    BY <1>4, <1>7, BookingAssumption DEF OrderNos
  <2>2. PICK m \in T : \A i \in T : i <= m
    <3> HIDE DEF T
    <3> QED BY <2>1, Greatest
  <2>3. m \in OrderNos /\ EverConfirmed(m)' /\ \A i \in OrderNos : EverConfirmed(i)' => i <= m
    BY <2>2
  <2>4. ~ \E i \in OrderNos : m < i /\ EverConfirmed(i)'
    <3>1. \A i \in OrderNos : i \in Int /\ m \in Int
      BY <2>3 DEF OrderNos
    <3> QED BY <2>3, <3>1
  <2>5. m \in 1..Len(atlas') /\ atlas'[m].charges = 1 /\ atlas'[m].status = "ticketed"
    BY <1>11, <2>3, <2>4 DEF ConfirmedSound
  <2> QED BY <2>3, <2>5 DEF Confirmed
<1>13. BookingInv'
  <2>1. TypeOK'
    BY <1>1, <1>2, <1>6 DEF TypeOK
  <2>2. ASSUME NEW k \in Jobs
        PROVE  Sound(job[k])'
    <3>1. PICK g \in Frame : job[k] = g /\ job'[k] = g
      BY <1>1, <1>2 DEF TypeOK
    <3>2. Sound(g)
      BY <1>1, <3>1 DEF BookingInv, MoneyInv
    <3>3. Sound(g)'
      BY <1>6, <1>12, <3>2 DEF Sound, Awaiting
    <3> QED BY <3>1, <3>3 DEF Sound, Awaiting
  <2>3. OneEach' /\ CreatedAtAtlas'
    BY <1>1, <1>2, <1>6 DEF BookingInv, MoneyInv, OneEach, Awaiting, CreatedAtAtlas
  <2>4. AtlasSound'
    <3> SUFFICES ASSUME NEW m \in 1..Len(atlas')
                 PROVE  /\ atlas'[m].charges \in {0, 1}
                        /\ atlas'[m].charges = 1 => CreatedRow(m)'
                        /\ atlas'[m].status \in {"paid", "partial", "ticketed"} =>
                             atlas'[m].charges = 1
      BY DEF AtlasSound
    <3>1. /\ m \in 1..Len(atlas) /\ atlas[m].charges \in {0, 1}
          /\ atlas[m].charges = 1 => CreatedRow(m)
          /\ atlas[m].status \in {"paid", "partial", "ticketed"} => atlas[m].charges = 1
      BY <1>1, <1>6 DEF BookingInv, MoneyInv, AtlasSound
    <3>2. CreatedRow(m) => CreatedRow(m)'
      BY <1>2 DEF CreatedRow
    <3>3. atlas'[m].status \in {atlas[m].status, "void"}
      BY <1>6, <3>1
    <3> QED BY <1>6, <3>1, <3>2, <3>3
  <2>5. PaymentsAccounted'
    BY <1>1, <1>2, <1>6 DEF BookingInv, MoneyInv, PaymentsAccounted, At
  <2> QED BY <1>12, <2>1, <2>2, <2>3, <2>4, <2>5 DEF BookingInv, MoneyInv
<1>14. PICK e \in ExecFrame :
           /\ exec' = [exec EXCEPT ![j] = e]
           /\ e.pc = "reconciling" /\ e.superseded = exec[j].superseded
  BY <1>1, <1>2, ProceedFrame DEF ExecPoints
<1>15. /\ exec' \in [Recoverers -> ExecFrame] /\ exec'[j] = e
       /\ \A k \in Recoverers : k # j => exec'[k] = exec[k]
  BY <1>1, <1>14, ExecMoves
<1>16. Owned(j)'
  <2>1. PICK f : f = job[j] /\ f = job'[j]
    BY <1>2
  <2>2. /\ executions'[RecoveryOf[j]].status = "IN_PROGRESS" /\ Replacing(f, s)
    BY <1>1, <1>2, <1>3, <1>4, <2>1 DEF Owned
  <2>3. Len(atlas') \in Nat
    BY <1>1, <1>6
  <2>4. Replacing(f, s)'
    BY <1>1, <1>9, <2>2, <2>3, ReplacingStays
  <2>5. Replacing(job[j], exec[j].superseded)'
    BY <1>4, <1>14, <1>15, <2>1, <2>4
    DEF Replacing, Bought, Awaiting, Paid, Told, EverConfirmed
  <2> QED BY <1>2, <1>3, <1>14, <1>15, <2>2, <2>5 DEF Owned, Running, Securing, At
<1>17. RecoveryTyped'
  BY <1>1, <1>2, <1>15 DEF RecoveryTyped
<1>18. \A k \in Recoverers : k # j /\ exec[k].pc \in Running =>
         RecoveryOf[j] # RecoveryOf[k]
  BY <1>3 DEF RecoveryInv, OneRunning
<1> QED BY <1>1, <1>2, <1>9, <1>10, <1>13, <1>15, <1>16, <1>17, <1>18, OneMoves

LEMMA ReconcileKeeps ==
  ASSUME RecoveryInv, NEW j \in Recoverers, Reconcile(j)
  PROVE  RecoveryInv'
<1>1. /\ RecoveryTyped /\ Owned(j) /\ exec[j].pc = "reconciling"
      /\ UNCHANGED <<bookingVars, granted, executions>> /\ UNCHANGED current
      /\ exec[j].pc \in Running
  BY DEF RecoveryInv, Reconcile, In, Running, Securing
<1>2. /\ At(j, "queried") /\ job[j].result = "CONFIRMED" /\ exec[j].superseded # NoOrder
  BY <1>1 DEF Owned, Securing
<1>3. PICK n, s : /\ n = job[j].no /\ n \in OrderNos /\ EverConfirmed(n)
                  /\ s = exec[j].superseded /\ s \in 1..Len(atlas) /\ s < n
  BY <1>1, <1>2, SecuredOrder DEF NoOrder
<1>4. s \in OrderNos
  BY <1>3, Lengths DEF RecoveryInv, BookingInv
<1>5. PICK b \in BOOLEAN :
        /\ cancels' = Append(cancels, [no |-> s, confirmed |-> b])
        /\ exec' = [exec EXCEPT ![j].pc = "concluding", ![j].cancellation =
                      IF b THEN "SUCCEEDED" ELSE "FAILED"]
  BY <1>3 DEF Reconcile
<1>6. PICK x \in [no : OrderNos, confirmed : BOOLEAN] :
        x.no = s /\ cancels' = Append(cancels, x)
  BY <1>4, <1>5
<1>7. /\ cancels' \in Seq([no : OrderNos, confirmed : BOOLEAN])
      /\ Len(cancels) \in Nat /\ Len(cancels') = Len(cancels) + 1
      /\ \A i \in 1..Len(cancels) : cancels'[i] = cancels[i]
      /\ cancels'[Len(cancels) + 1] = x
  BY <1>1, <1>6, AppendProperties, LenProperties DEF RecoveryTyped
<1>8. ReleasedAfterSecured'
  <2>1. \A m : EverConfirmed(m)' = EverConfirmed(m)
    BY <1>1 DEF bookingVars, tables, EverConfirmed
  <2>2. ASSUME NEW i \in 1..Len(cancels')
        PROVE  \E m \in OrderNos : m > cancels'[i].no /\ EverConfirmed(m)'
    <3>1. CASE i \in 1..Len(cancels)
      <4>1. PICK m \in OrderNos : m > cancels[i].no /\ EverConfirmed(m)
        BY <3>1 DEF RecoveryInv, ReleasedAfterSecured
      <4> QED BY <1>7, <2>1, <3>1, <4>1
    <3>2. CASE i = Len(cancels) + 1
      <4>1. n > x.no /\ EverConfirmed(n)'
        BY <1>3, <1>4, <1>6, <2>1
      <4> QED BY <1>3, <1>7, <3>2, <4>1
    <3> QED BY <1>7, <3>1, <3>2
  <2> QED BY <2>2 DEF ReleasedAfterSecured
<1>9. PICK e \in ExecFrame :
        /\ exec' = [exec EXCEPT ![j] = e]
        /\ e.pc = "concluding" /\ e.superseded = exec[j].superseded
  <2>1. exec[j] \in ExecFrame
    BY <1>1 DEF RecoveryTyped
  <2>2. PICK c \in CancellationOutcome :
          exec' = [exec EXCEPT ![j].pc = "concluding", ![j].cancellation = c]
    BY <1>5 DEF CancellationOutcome
  <2> DEFINE e == [pc |-> "concluding", superseded |-> exec[j].superseded,
                   cancellation |-> c]
  <2>3. [[exec[j] EXCEPT !.pc = "concluding"] EXCEPT !.cancellation = c] = e
    <3> DEFINE u == [pc |-> "concluding", superseded |-> exec[j].superseded,
                     cancellation |-> exec[j].cancellation]
    <3>1. [exec[j] EXCEPT !.pc = "concluding"] = u
      BY <2>1, ExecFields
    <3>2. [u EXCEPT !.cancellation = c] = e
      OBVIOUS
    <3> QED BY <3>1, <3>2
  <2>4. e \in ExecFrame /\ e.pc = "concluding" /\ e.superseded = exec[j].superseded
    BY <2>1, ExecFields DEF ExecFrame
  <2> HIDE DEF e
  <2> DEFINE a == [exec EXCEPT ![j].pc = "concluding"]
  <2>5. exec' = [a EXCEPT ![j].cancellation = c]
    BY <2>2
  <2>6. a[j] = [exec[j] EXCEPT !.pc = "concluding"]
    BY <1>1 DEF RecoveryTyped
  <2>7. exec' = [a EXCEPT ![j] = [a[j] EXCEPT !.cancellation = c]]
    BY <2>5
  <2>8. exec' = [a EXCEPT ![j] = e]
    BY <2>3, <2>6, <2>7
  <2>9. exec' = [exec EXCEPT ![j] = e]
    BY <2>8
  <2> QED BY <2>4, <2>9
<1>10. current' \in MaybeOrder /\ e.pc \in Securing
       /\ e.pc \notin {"secured", "reconciling"}
  BY <1>1, <1>9 DEF RecoveryTyped, Securing
<1> QED BY <1>1, <1>2, <1>7, <1>8, <1>9, <1>10, StillKeeps

LEMMA FinishKeeps ==
  ASSUME RecoveryInv, NEW j \in Recoverers, ReconcileRaises(j) \/ Conclude(j)
  PROVE  RecoveryInv'
<1>1. /\ exec[j].pc \in Running /\ exec[j].pc \in Securing
      /\ UNCHANGED <<journey, tables, atlas, clock, granted, current, cancels>>
      /\ Over(j)
  BY DEF ReconcileRaises, Conclude, In, Running, Securing, recoveryTables
<1>2. At(j, "queried") /\ job[j].result = "CONFIRMED" /\ ~At(j, "crashed")
  BY <1>1 DEF RecoveryInv, Owned, At
<1>3. CASE ReconcileRaises(j)
  <2>1. Stop(j, "raised") /\ UNCHANGED executions
    BY <1>3 DEF ReconcileRaises, Raise, recoveryTables
  <2> QED BY <1>1, <1>2, <2>1, EndKeeps
<1>4. CASE Conclude(j)
  <2> DEFINE x == [status |-> "COMPLETED", superseded |-> exec[j].superseded,
                   replacement |-> job[j].no, cancellation |-> exec[j].cancellation]
  <2>1. exec[j].superseded \in MaybeOrder /\ exec[j].cancellation \in CancellationOutcome
    BY ExecFields DEF RecoveryInv, RecoveryTyped
  <2>2. job[j].no \in OrderNos
    BY <1>1, <1>2, SecuredOrder
  <2>3. x \in ExecutionRow
    BY <2>1, <2>2 DEF ExecutionRow
  <2>4. executions' = [executions EXCEPT ![RecoveryOf[j]] = x] /\ Stop(j, "ended")
    BY <1>4 DEF Conclude
  <2> HIDE DEF x
  <2> QED BY <1>1, <1>2, <2>3, <2>4, EndKeeps
<1> QED BY <1>3, <1>4

-------------------------------------------------------------------------------
LEMMA RecoveryStarts ==
  ASSUME RecoveryInit
  PROVE  RecoveryInv
<1>1. Original \in OrderNos /\ Original = 1 /\ NoOrder = 0
  BY RecoveryAssumption, BookingAssumption DEF Original, OrderNos, NoOrder
<1>2. NewFrame \in Frame /\ NewFrame.pc = "idle" /\ NewFrame.target = "SEARCHING"
  BY BookingAssumption DEF NewFrame, Frame, NoSession, NoOrder, JourneyState
<1>3. /\ job \in [Jobs -> Frame]
      /\ \A j \in Jobs : job[j].pc = "idle" /\ job[j].target = "SEARCHING"
  BY <1>2 DEF RecoveryInit
<1>4. PICK o \in OrderRow :
        orders = <<o>> /\ o.no = Original /\ o.outcome = "CREATED"
  <2> DEFINE o == [option |-> FirstOption, session |-> Session(FirstOption),
                   outcome |-> "CREATED", no |-> Original, at |-> 0]
  <2>1. o \in OrderRow
    BY <1>1, RecoveryAssumption, BookingAssumption DEF OrderRow, OrderOutcome, Identifier
  <2>2. orders = <<o>> /\ o.no = Original /\ o.outcome = "CREATED"
    BY DEF RecoveryInit
  <2> HIDE DEF o
  <2> QED BY <2>1, <2>2
<1>5. PICK a \in AtlasOrder :
        atlas = <<a>> /\ a.status = "ticketed" /\ a.charges = 1
  <2> DEFINE a == [option |-> FirstOption, status |-> "ticketed", charges |-> 1]
  <2>1. a \in AtlasOrder
    BY RecoveryAssumption DEF AtlasOrder, AtlasStatus
  <2>2. atlas = <<a>> /\ a.status = "ticketed" /\ a.charges = 1
    BY DEF RecoveryInit
  <2> HIDE DEF a
  <2> QED BY <2>1, <2>2
<1>6. PICK h \in Held : held = <<h>>
  <2> DEFINE h == [value |-> Session(FirstOption), issued |-> 0, stale |-> Never]
  <2>1. h \in Held
    BY RecoveryAssumption, BookingAssumption DEF Held, Identifier, Never
  <2>2. held = <<h>>
    BY DEF RecoveryInit
  <2> HIDE DEF h
  <2> QED BY <2>1, <2>2
<1>7. /\ Len(atlas) = 1 /\ atlas[1] = a /\ atlas \in Seq(AtlasOrder)
      /\ Len(orders) = 1 /\ orders[1] = o /\ orders \in Seq(OrderRow)
      /\ held \in Seq(Held)
  BY <1>4, <1>5, <1>6
<1>8. \A i : (i \in 1..Len(atlas) \/ i \in 1..Len(orders)) => i = 1
  BY <1>7
<1>9. /\ queries \in [OrderNos -> Seq(BOOLEAN)] /\ EverConfirmed(Original)
      /\ \A n \in OrderNos : EverConfirmed(n) => n = Original
  <2>1. queries = [n \in OrderNos |-> IF n = Original THEN <<TRUE>> ELSE <<>>]
    BY DEF RecoveryInit
  <2>2. <<TRUE>> \in Seq(BOOLEAN) /\ <<>> \in Seq(BOOLEAN)
        /\ Len(<<TRUE>>) = 1 /\ <<TRUE>>[1] = TRUE /\ Len(<<>>) = 0
    OBVIOUS
  <2>3. queries \in [OrderNos -> Seq(BOOLEAN)] /\ queries[Original] = <<TRUE>>
    BY <1>1, <2>1, <2>2
  <2>4. 1 \in 1..Len(queries[Original]) /\ queries[Original][1]
    BY <2>2, <2>3
  <2>5. \A n \in OrderNos : n # Original => queries[n] = <<>>
    BY <2>1
  <2>6. \A n \in OrderNos : n # Original => ~EverConfirmed(n)
    BY <2>2, <2>5 DEF EverConfirmed
  <2>7. EverConfirmed(Original)
    BY <2>4 DEF EverConfirmed
  <2> QED BY <2>3, <2>6, <2>7
<1>10. TypeOK
  <2>1. payments \subseteq PaymentRow
    BY <1>1 DEF RecoveryInit, PaymentRow, PaymentOutcome
  <2>2. Len(atlas) <= MaxOrders /\ clock \in 0..MaxClock
    BY <1>7, RecoveryAssumption, BookingAssumption DEF RecoveryInit
  <2>3. state \in JourneyState /\ audit \in Seq(JourneyState) /\ verified \subseteq Options
    BY RecoveryAssumption DEF RecoveryInit, JourneyState
  <2> QED BY <1>3, <1>7, <1>9, <2>1, <2>2, <2>3 DEF TypeOK
<1>11. Confirmed
  BY <1>1, <1>5, <1>7, <1>9 DEF Confirmed
<1>12. \A j \in Jobs : Sound(job[j])
  BY <1>3 DEF Sound, Awaiting
<1>13. OneEach /\ CreatedAtAtlas
  BY <1>1, <1>3, <1>4, <1>7, <1>8 DEF OneEach, Awaiting, CreatedAtAtlas
<1>14. AtlasSound
  BY <1>1, <1>4, <1>5, <1>7, <1>8 DEF AtlasSound, CreatedRow
<1>15. PaymentsAccounted
  <2> DEFINE p == [no |-> Original, outcome |-> "SUCCESS"]
  <2>1. payments = {p} /\ p.no = Original
    BY DEF RecoveryInit
  <2> HIDE DEF p
  <2>2. Original \in 1..Len(atlas) /\ atlas[Original].charges > 0
    BY <1>1, <1>5, <1>7
  <2>3. \A n \in 1..Len(atlas) : n = Original
    BY <1>1, <1>8
  <2> QED BY <2>1, <2>2, <2>3 DEF PaymentsAccounted
<1>16. BookingInv
  BY <1>10, <1>11, <1>12, <1>13, <1>14, <1>15 DEF BookingInv, MoneyInv
<1>17. RowsAtAtlas /\ ConfirmedSound
  BY <1>1, <1>4, <1>5, <1>7, <1>8, <1>9 DEF RowsAtAtlas, ConfirmedSound
<1>18. NewExec \in ExecFrame /\ NewExec.pc = "new" /\ NewExec.superseded = NoOrder
  BY DEF NewExec, ExecFrame, MaybeOrder, CancellationOutcome
<1>19. /\ exec \in [Recoverers -> ExecFrame]
       /\ \A j \in Recoverers : exec[j].pc = "new" /\ exec[j].superseded = NoOrder
  BY <1>18 DEF RecoveryInit
<1>20. RecoveryTyped
  BY <1>19 DEF RecoveryInit, RecoveryTyped, ExecutionRow, MaybeOrder
<1>21. OneRunning /\ \A j \in Recoverers : Owned(j)
  BY <1>3, <1>19, RowOf DEF OneRunning, Owned, Running, Securing, At
<1>22. CurrentIsConfirmed /\ ReleasedAfterSecured
  BY DEF RecoveryInit, CurrentIsConfirmed, ReleasedAfterSecured
<1> QED BY <1>9, <1>16, <1>17, <1>20, <1>21, <1>22 DEF RecoveryInv

LEMMA RecoveryStutter ==
  ASSUME RecoveryInv, UNCHANGED vars
  PROVE  RecoveryInv'
<1>1. /\ UNCHANGED bookingVars /\ UNCHANGED <<job, orders, queries, atlas>>
      /\ UNCHANGED <<granted, executions, current, cancels, exec>>
  BY DEF vars, bookingVars, tables, recoveryTables
<1>2. BookingInv'
  BY <1>1, BookingStutter DEF RecoveryInv
<1> QED BY <1>1, <1>2
        DEF RecoveryInv, RecoveryTyped, RowsAtAtlas, ConfirmedSound, EverConfirmed,
            OneRunning, Owned, Replacing, Bought, Awaiting, Paid, Told, At,
            CurrentIsConfirmed, ReleasedAfterSecured

LEMMA RecoveryKeeps ==
  ASSUME RecoveryInv, RecoveryNext
  PROVE  RecoveryInv'
<1>1. ASSUME NEW j \in Recoverers, RecoveryStep(j)
      PROVE  RecoveryInv'
  BY <1>1, CheckKeeps, SaveKeeps, ClearKeeps, AbandonKeeps, CurrentKeeps, VoidKeeps,
     ReconcileKeeps, FinishKeeps
  DEF RecoveryStep
<1>2. ASSUME NEW j \in Jobs, ServiceStep(j) \/ Dies(j)
      PROVE  RecoveryInv'
  BY <1>2, ServiceKeeps
<1>3. CASE World /\ UNCHANGED <<granted, recoveryTables, exec>>
  BY <1>3, WorldKeeps
<1> QED BY <1>1, <1>2, <1>3 DEF RecoveryNext

(* The invariant is kept by every step of execute, of the services it calls, of
   whoever works beside it, of Atlas, and by the death of any of them. *)
THEOREM RecoveryInvariant == RecoverySpec => []RecoveryInv
<1>1. RecoveryInit => RecoveryInv
  BY RecoveryStarts
<1>2. RecoveryInv /\ [RecoveryNext]_vars => RecoveryInv'
  BY RecoveryKeeps, RecoveryStutter
<1> QED BY <1>1, <1>2, PTL DEF RecoverySpec

(* RecoveryTypeOK for every instance: the rows that execute writes, conclude or
   abandon, and the objects of its calls keep their types. *)
THEOREM RecoveryTypeCorrect == RecoverySpec => []RecoveryTypeOK
<1>1. RecoveryInv => RecoveryTypeOK
  BY DEF RecoveryInv, BookingInv, RecoveryTyped, RecoveryTypeOK
<1> QED BY <1>1, RecoveryInvariant, PTL

(* FR-008 and NFR-001 of specs/011: the last order that _query_order confirmed
   is one that no recovery has released, so the traveller holds a ticket. *)
THEOREM TravellerIsTicketed == RecoverySpec => []NeverStranded
<1>1. RecoveryInv => NeverStranded
  BY LastIsTicketed DEF RecoveryInv, NeverStranded, Confirmed
<1> QED BY <1>1, RecoveryInvariant, PTL

(* FR-009: SetCurrentOrder only writes an order whose ticket a query confirmed,
   and what was confirmed and paid stays so. *)
THEOREM CurrentOrderIsConfirmed == RecoverySpec => []CurrentIsConfirmed
<1>1. RecoveryInv => CurrentIsConfirmed
  BY DEF RecoveryInv
<1> QED BY <1>1, RecoveryInvariant, PTL

(* FR-005: execute notes the order it supersedes before it buys, so whatever it
   releases is older than the replacement it has secured. *)
THEOREM ReleasesAreSecured == RecoverySpec => []ReleasedAfterSecured
<1>1. RecoveryInv => ReleasedAfterSecured
  BY DEF RecoveryInv
<1> QED BY <1>1, RecoveryInvariant, PTL

-------------------------------------------------------------------------------
(* What happens to the rows: one is inserted where there was none, and only the
   recovery that runs for it writes it again. *)

RowsFinal ==
  \A r \in Recommendations :
    /\ executions[r].status \in {"COMPLETED", "ABANDONED"} =>
         executions'[r] = executions[r]
    /\ executions[r].status = "IN_PROGRESS" => executions'[r].status # "none"

LEMMA OneRowWritten ==
  ASSUME RecoveryTyped, NEW j \in Recoverers, NEW x \in ExecutionRow \ {NoRow},
         executions' = [executions EXCEPT ![RecoveryOf[j]] = x],
         executions[RecoveryOf[j]].status \notin {"COMPLETED", "ABANDONED"}
  PROVE  RowsFinal
<1>1. x.status # "none"
  BY DEF ExecutionRow, NoRow
<1>2. /\ executions'[RecoveryOf[j]] = x
      /\ \A r \in Recommendations : r # RecoveryOf[j] => executions'[r] = executions[r]
  BY RowWritten
<1> QED BY <1>1, <1>2 DEF RowsFinal

LEMMA RowsStayFinal ==
  ASSUME RecoveryInv, RecoveryNext
  PROVE  RowsFinal
<1>1. CASE UNCHANGED executions
  BY <1>1 DEF RowsFinal
<1>2. ASSUME NEW j \in Recoverers, SaveExecution(j)
      PROVE  RowsFinal
  <2>1. RecoveryTyped /\ NoRow.status = "none"
    BY DEF RecoveryInv, NoRow
  <2>2. CASE /\ executions[RecoveryOf[j]] = NoRow
             /\ executions' = [executions EXCEPT ![RecoveryOf[j]] =
                                 [status |-> "IN_PROGRESS"]]
    <3> DEFINE x == [status |-> "IN_PROGRESS"]
    <3>1. x \in [status : {"IN_PROGRESS"}] /\ x.status = "IN_PROGRESS"
      OBVIOUS
    <3>2. executions' = [executions EXCEPT ![RecoveryOf[j]] = x]
      BY <2>2
    <3> HIDE DEF x
    <3>3. x \in ExecutionRow \ {NoRow}
      BY <2>1, <3>1 DEF ExecutionRow
    <3> QED BY <2>1, <2>2, <3>2, <3>3, OneRowWritten
  <2> QED BY <1>1, <1>2, <2>2 DEF SaveExecution
<1>3. ASSUME NEW j \in Recoverers,
             NotCleared(j) \/ ReplacementFails(j) \/ Conclude(j)
      PROVE  RowsFinal
  <2>1. exec[j].pc \in Running /\ RecoveryTyped
    BY <1>3 DEF NotCleared, ReplacementFails, Conclude, In, Running, Securing, RecoveryInv
  <2>2. executions[RecoveryOf[j]].status = "IN_PROGRESS"
    BY <2>1 DEF RecoveryInv, Owned
  <2>3. PICK x \in ExecutionRow \ {NoRow} :
          executions' = [executions EXCEPT ![RecoveryOf[j]] = x]
    <3>1. CASE NotCleared(j) \/ ReplacementFails(j)
      <4>1. PICK reason \in Reason : Abandon(j, reason)
        BY <3>1 DEF NotCleared, ReplacementFails, Reason
      <4> DEFINE x == [status |-> "ABANDONED", reason |-> reason,
                       replacement |-> job[j].no]
      <4>2. job[j].no \in MaybeOrder
        BY RowOf, OwnFrame, FrameFields DEF RecoveryInv, MaybeOrder
      <4>3. x \in ExecutionRow /\ x # NoRow
        <5>1. x.status # NoRow.status
          BY DEF NoRow
        <5> QED BY <4>2, <5>1 DEF ExecutionRow
      <4>4. executions' = [executions EXCEPT ![RecoveryOf[j]] = x]
        BY <4>1 DEF Abandon
      <4> HIDE DEF x
      <4> QED BY <4>3, <4>4
    <3>2. CASE Conclude(j)
      <4> DEFINE x == [status |-> "COMPLETED", superseded |-> exec[j].superseded,
                       replacement |-> job[j].no, cancellation |-> exec[j].cancellation]
      <4>1. /\ exec[j].superseded \in MaybeOrder
            /\ exec[j].cancellation \in CancellationOutcome
        BY <2>1, ExecFields DEF RecoveryTyped
      <4>2. job[j].no \in OrderNos
        <5>1. exec[j].pc \in Securing
          BY <3>2 DEF Conclude, In, Securing
        <5> QED BY <2>1, <5>1, SecuredOrder DEF RecoveryInv, Owned
      <4>3. x \in ExecutionRow /\ x # NoRow
        <5>1. x.status # NoRow.status
          BY DEF NoRow
        <5> QED BY <4>1, <4>2, <5>1 DEF ExecutionRow
      <4>4. executions' = [executions EXCEPT ![RecoveryOf[j]] = x]
        BY <3>2 DEF Conclude
      <4> HIDE DEF x
      <4> QED BY <4>3, <4>4
    <3> QED BY <1>3, <3>1, <3>2
  <2> QED BY <2>1, <2>2, <2>3, OneRowWritten
<1>4. ASSUME NEW j \in Recoverers, RecoveryStep(j)
      PROVE  RowsFinal
  <2>1. CASE \/ CheckExecution(j) \/ ClearToBuy(j) \/ SetCurrentOrder(j)
             \/ VoidSuperseded(j) \/ Reconcile(j) \/ ReconcileRaises(j)
    BY <1>1, <2>1 DEF CheckExecution, ClearToBuy, SetCurrentOrder, VoidSuperseded,
                      Reconcile, ReconcileRaises, recoveryTables
  <2> QED BY <1>2, <1>3, <1>4, <2>1 DEF RecoveryStep
<1>5. CASE (\E j \in Jobs : ServiceStep(j) \/ Dies(j))
             \/ (World /\ UNCHANGED <<granted, recoveryTables, exec>>)
  BY <1>1, <1>5 DEF ServiceStep, Dies, recoveryTables
<1> QED BY <1>4, <1>5 DEF RecoveryNext

(* A row that says COMPLETED or ABANDONED is never written again, and none is
   deleted, however many calls of execute share a recommendation. *)
THEOREM RowsAreFinal == RecoverySpec => ConcludedIsFinal
<1>1. RecoveryInv /\ [RecoveryNext]_vars => [RowsFinal]_executions
  BY RowsStayFinal DEF vars, recoveryTables
<1>2. RecoverySpec => [][RowsFinal]_executions
  BY <1>1, RecoveryInvariant, PTL DEF RecoverySpec
<1> QED BY <1>2, PTL DEF ConcludedIsFinal, RowsFinal

-------------------------------------------------------------------------------
(* How often a grant is spent, when nobody but recoveries buys. *)

OnlyRecoveriesBuy == \A j \in Jobs \ Recoverers : KindOf[j] = "verify"

Replacements == {n \in 1..Len(atlas) : n # Original /\ atlas[n].charges > 0}

(* A caller that has paid, or will never do anything again. *)
Settled(f) == Paid(f) \/ f.pc \in Stops

(* A grant that no recovery can spend any more: one has inserted its row, and
   none that runs for it has yet to pay. *)
SpentFor(r) ==
  /\ executions[r].status # "none"
  /\ \A j \in Recoverers :
       RecoveryOf[j] = r /\ exec[j].pc = "buying" => Settled(job[j])

Spent == {r \in granted : SpentFor(r)}

(* Whoever orders is a recovery that was cleared to buy. *)
AskedIsGranted ==
  \A j \in Jobs : Asked(job[j]) =>
    j \in Recoverers /\ exec[j].pc = "buying" /\ RecoveryOf[j] \in granted

SpendInv ==
  /\ RecoveryInv /\ AskedIsGranted
  /\ Cardinality(Replacements) <= Cardinality(Spent)

LEMMA FinitelyMany ==
  ASSUME RecoveryInv
  PROVE  IsFiniteSet(Replacements) /\ IsFiniteSet(granted) /\ IsFiniteSet(Spent)
<1>1. Len(atlas) \in Nat /\ 1 \in Int
  BY Lengths DEF RecoveryInv, BookingInv
<1>2. IsFiniteSet(1..Len(atlas))
  BY <1>1, FS_Interval
<1>3. Replacements \subseteq 1..Len(atlas)
  BY DEF Replacements
<1>4. IsFiniteSet(granted)
  BY FS_Subset, RecoveryAssumption DEF RecoveryInv, RecoveryTyped
<1>5. Spent \subseteq granted
  BY DEF Spent
<1> QED BY <1>2, <1>3, <1>4, <1>5, FS_Subset

LEMMA DyingCrashes ==
  ASSUME BookingInv, NEW j \in Jobs, Dying(j)
  PROVE  job'[j].pc = "crashed"
<1>1. Stop(j, "crashed")
  BY DEF Dying, Crash, CrashOrdering, CrashPaying
<1> QED BY <1>1, StopFrame, OwnFrame DEF Stops, TypeOK

(* What is spent stays spent, unless a recovery whose row had spent its grant
   were to start anew. *)
LEMMA SpentStays ==
  ASSUME RecoveryInv, RowsFinal, UNCHANGED granted, NEW j \in Jobs,
         \A k \in Recoverers : k # j => job'[k] = job[k] /\ exec'[k] = exec[k],
         j \in Recoverers /\ exec'[j].pc = "buying" /\ SpentFor(RecoveryOf[j]) =>
           Settled(job'[j])
  PROVE  Spent \subseteq Spent'
<1> SUFFICES ASSUME NEW r \in Spent
             PROVE  r \in Spent'
  OBVIOUS
<1>1. r \in granted /\ SpentFor(r) /\ r \in Recommendations
  BY DEF Spent, RecoveryInv, RecoveryTyped
<1>2. executions[r].status \in {"none", "IN_PROGRESS", "COMPLETED", "ABANDONED"}
  <2>1. executions[r] \in ExecutionRow
    BY <1>1 DEF RecoveryInv, RecoveryTyped
  <2> QED BY <2>1 DEF ExecutionRow, NoRow
<1>3. executions'[r].status # "none"
  BY <1>1, <1>2 DEF SpentFor, RowsFinal
<1>4. ASSUME NEW k \in Recoverers, RecoveryOf[k] = r, exec'[k].pc = "buying"
      PROVE  Settled(job'[k])
  BY <1>1, <1>4 DEF SpentFor
<1>5. SpentFor(r)'
  BY <1>3, <1>4 DEF SpentFor, Settled, Paid
<1> QED BY <1>1, <1>5 DEF Spent

LEMMA CountKept ==
  ASSUME SpendInv, RecoveryInv', Spent \subseteq Spent',
         \/ Replacements' \subseteq Replacements
         \/ \E n, r : Replacements' \subseteq Replacements \union {n} /\ r \in Spent' \ Spent
  PROVE  (Cardinality(Replacements) <= Cardinality(Spent))'
<1>1. IsFiniteSet(Replacements) /\ IsFiniteSet(Spent) /\ IsFiniteSet(Spent')
  <2>1. Spent' \subseteq Recommendations
    BY DEF Spent, RecoveryInv, RecoveryTyped
  <2> QED BY <2>1, FinitelyMany, FS_Subset, RecoveryAssumption DEF SpendInv
<1>2. /\ IsFiniteSet({}) /\ Cardinality({}) = 0
      /\ Cardinality(Spent) \in Nat /\ Cardinality(Spent') \in Nat
  BY <1>1, FS_EmptySet, FS_CardinalityType
<1>3. Cardinality(Replacements) <= Cardinality(Spent) + Cardinality({})
  BY <1>2 DEF SpendInv
<1>4. Cardinality(Replacements') <= Cardinality(Spent') + Cardinality({})
  <2>1. \/ Replacements' \subseteq Replacements
        \/ Spent # Spent' /\ \E n : Replacements' \subseteq Replacements \union {n}
    OBVIOUS
  <2> QED BY <1>1, <1>2, <1>3, <2>1, StillCovered
<1> QED BY <1>2, <1>4

(* A service call, or the death of its caller: it may spend the grant of the
   recovery that makes it, and no other. *)
LEMMA ServiceSpends ==
  ASSUME OnlyRecoveriesBuy, SpendInv, RecoveryInv', RowsFinal,
         NEW j \in Jobs, ServiceStep(j) \/ Dies(j)
  PROVE  SpendInv'
<1>1. /\ RecoveryInv /\ AskedIsGranted /\ BookingInv /\ RowsAtAtlas
      /\ job \in [Jobs -> Frame] /\ exec \in [Recoverers -> ExecFrame]
      /\ Len(atlas) \in Nat
  BY Lengths DEF SpendInv, RecoveryInv, RecoveryTyped, BookingInv, TypeOK
<1>2. /\ CallerStep(j) \/ Dying(j)
      /\ UNCHANGED granted /\ UNCHANGED executions
  BY DEF ServiceStep, Dies, CallerStep, recoveryTables
<1>3. PICK f \in Frame, g \in Frame :
        job[j] = f /\ job' = [job EXCEPT ![j] = g] /\ Moves(j, f, g)
  BY <1>1, <1>2, ServiceMoves DEF CallerMoves
<1>4. job'[j] = g /\ \A k \in Jobs : k # j => job'[k] = job[k]
  BY <1>1, <1>3
<1>5. \/ UNCHANGED exec
      \/ /\ j \in Recoverers /\ g.pc \in Stops
         /\ exec'[j].pc = "over" /\ \A k \in Recoverers : k # j => exec'[k] = exec[k]
  <2>1. CASE j \in Recoverers /\ Over(j) /\ g.pc \in Stops
    BY <1>1, <2>1, OverFrame
  <2>2. ASSUME ServiceStep(j), ~UNCHANGED exec
        PROVE  j \in Recoverers /\ Over(j) /\ g.pc \in Stops
    BY <1>4, <2>2 DEF ServiceStep, Stops
  <2>3. ASSUME Dies(j), ~UNCHANGED exec
        PROVE  j \in Recoverers /\ Over(j) /\ g.pc \in Stops
    BY <1>1, <1>4, <2>3, DyingCrashes DEF Dies, Stops
  <2> QED BY <2>1, <2>2, <2>3
<1>6. KindOf[j] # "book"
  BY DEF OnlyRecoveriesBuy, Recoverers
<1>7. AskedIsGranted'
  <2> SUFFICES ASSUME NEW k \in Jobs, Asked(job'[k])
               PROVE  k \in Recoverers /\ exec'[k].pc = "buying" /\ RecoveryOf[k] \in granted
    BY <1>2 DEF AskedIsGranted, Asked
  <2>1. CASE k # j
    BY <1>1, <1>4, <1>5, <2>1 DEF AskedIsGranted
  <2>2. CASE k = j
    <3>1. Asked(g) /\ Asked(f) /\ g.pc \notin Stops
      BY <1>3, <1>4, <1>6, <2>2 DEF Moves, Asked, Stops
    <3> QED BY <1>1, <1>3, <1>5, <2>2, <3>1 DEF AskedIsGranted
  <2> QED BY <2>1, <2>2
<1>8. Settled(f) => Settled(g) /\ Paid(f)
  BY <1>2, <1>3, NobodyRestarts DEF Settled, Moves, Stopped, Stops
<1>9. Spent \subseteq Spent'
  <2>1. \A k \in Recoverers : k # j => job'[k] = job[k] /\ exec'[k] = exec[k]
    BY <1>4, <1>5 DEF Recoverers
  <2>2. j \in Recoverers /\ exec'[j].pc = "buying" /\ SpentFor(RecoveryOf[j]) =>
          Settled(job'[j])
    BY <1>3, <1>4, <1>5, <1>8 DEF SpentFor
  <2> QED BY <1>1, <1>2, <2>1, <2>2, SpentStays
<1>10. \/ Replacements' \subseteq Replacements
       \/ Awaiting(f) /\ Settled(g) /\ Replacements' \subseteq Replacements \union {f.no}
  <2>1. \A n \in Replacements' :
          n \in 1..Len(atlas') /\ n # Original /\ atlas'[n].charges = 1
    BY DEF Replacements, RecoveryInv, BookingInv, MoneyInv, AtlasSound
  <2>2. \A n \in 1..Len(atlas) : n # Original /\ atlas[n].charges = 1 => n \in Replacements
    BY DEF Replacements
  <2>3. \A n \in Replacements' :
          \/ n \in Replacements
          \/ Awaiting(f) /\ n = f.no /\ Settled(g)
    BY <1>3, <2>1, <2>2 DEF Moves, Settled, Stops
  <2> QED BY <2>3
<1>11. ASSUME Awaiting(f), Settled(g)
       PROVE  \E r : r \in Spent' \ Spent
  <2>1. /\ Asked(job[j]) /\ ~Settled(job[j])
    BY <1>3, <1>11 DEF Awaiting, Asked, Settled, Paid, Stops
  <2>2. PICK r : /\ j \in Recoverers /\ exec[j].pc = "buying"
                 /\ r = RecoveryOf[j] /\ r \in granted
    BY <1>1, <2>1 DEF AskedIsGranted
  <2>3. executions[r].status = "IN_PROGRESS"
    BY <1>1, <2>2 DEF RecoveryInv, Owned, Running
  <2>4. r \notin Spent
    BY <2>1, <2>2 DEF Spent, SpentFor
  <2>5. ASSUME NEW k \in Recoverers, RecoveryOf[k] = r, exec'[k].pc = "buying"
        PROVE  Settled(job'[k])
    <3>1. k # j => exec[k].pc # "buying"
      BY <1>1, <2>2, <2>5 DEF RecoveryInv, OneRunning, Running
    <3>2. k = j
      BY <1>5, <2>5, <3>1
    <3> QED BY <1>4, <1>11, <3>2
  <2>6. SpentFor(r)'
    BY <1>2, <2>3, <2>5 DEF SpentFor, Settled, Paid
  <2>7. r \in Spent'
    BY <1>2, <2>2, <2>6 DEF Spent
  <2> QED BY <2>4, <2>7
<1>12. (Cardinality(Replacements) <= Cardinality(Spent))'
  BY <1>9, <1>10, <1>11, CountKept
<1> QED BY <1>7, <1>12 DEF SpendInv

(* What the recovery's own steps do to the grants: they order nothing, and only
   one that inserts the row, or that is cleared before it pays, is to buy. *)
OwnEffect(j) ==
  /\ UNCHANGED granted
  /\ \A k \in Jobs : k # j => job'[k] = job[k]
  /\ \A k \in Recoverers : k # j => exec'[k] = exec[k]
  /\ Replacements' = Replacements
  /\ Asked(job'[j]) => exec'[j].pc = "buying" /\ RecoveryOf[j] \in granted
  /\ exec'[j].pc = "buying" =>
       ~SpentFor(RecoveryOf[j])

LEMMA EndEffect ==
  ASSUME RecoveryInv, NEW j \in Recoverers, NEW p \in Stops, Stop(j, p), Over(j),
         UNCHANGED <<atlas, granted>>
  PROVE  OwnEffect(j)
<1>1. /\ BookingInv /\ j \in Jobs /\ job \in [Jobs -> Frame]
      /\ exec \in [Recoverers -> ExecFrame]
  BY RowOf DEF RecoveryInv, BookingInv, TypeOK, RecoveryTyped
<1>2. /\ job'[j].pc = p /\ \A k \in Jobs : k # j => job'[k] = job[k]
  BY <1>1, StopFrame
<1>3. exec'[j].pc = "over" /\ \A k \in Recoverers : k # j => exec'[k] = exec[k]
  BY <1>1, OverFrame
<1> QED BY <1>2, <1>3 DEF OwnEffect, Asked, Stops, Replacements

LEMMA OwnEffects ==
  ASSUME RecoveryInv, NEW j \in Recoverers, RecoveryStep(j)
  PROVE  OwnEffect(j)
<1>1. /\ BookingInv /\ TypeOK /\ RecoveryTyped /\ j \in Jobs /\ Owned(j)
      /\ job \in [Jobs -> Frame] /\ exec \in [Recoverers -> ExecFrame]
      /\ job[j] \in Frame /\ Len(atlas) \in Nat
  BY RowOf, Lengths DEF RecoveryInv, BookingInv, TypeOK, RecoveryTyped
<1>2. ASSUME NotCleared(j) \/ ReplacementFails(j)
      PROVE  OwnEffect(j)
  <2>1. Stop(j, "ended") /\ Over(j) /\ UNCHANGED <<atlas, granted>>
    BY <1>2 DEF NotCleared, ReplacementFails, Abandon
  <2> QED BY <2>1, EndEffect DEF Stops
<1>3. ASSUME ReconcileRaises(j) \/ Conclude(j)
      PROVE  OwnEffect(j)
  <2>1. /\ Stop(j, "raised") \/ Stop(j, "ended")
        /\ Over(j) /\ UNCHANGED <<atlas, granted>>
    BY <1>3 DEF ReconcileRaises, Conclude, Raise
  <2> QED BY <2>1, EndEffect DEF Stops
<1>4. ASSUME Over(j), Raise(j), UNCHANGED <<atlas, granted>>
      PROVE  OwnEffect(j)
  BY <1>4, EndEffect DEF Raise, Stops
<1>5. CASE CheckExecution(j)
  <2>1. UNCHANGED <<atlas, granted>>
    BY <1>5 DEF CheckExecution
  <2>2. CASE Proceed(j, "saving") /\ job' = [job EXCEPT ![j].now = clock]
    <3>1. /\ exec'[j].pc = "saving"
          /\ \A k \in Recoverers : k # j => exec'[k] = exec[k]
      BY <1>1, <2>2, ProceedFrame DEF ExecPoints
    <3>2. job[j].pc = "idle"
      BY <1>1, <1>5 DEF CheckExecution, In, Owned, At
    <3>3. job'[j].pc = "idle" /\ \A k \in Jobs : k # j => job'[k] = job[k]
      <4>1. job[j] = [pc |-> job[j].pc, now |-> job[j].now, result |-> job[j].result,
                      session |-> job[j].session, no |-> job[j].no,
                      tries |-> job[j].tries, target |-> job[j].target,
                      then |-> job[j].then]
        BY <1>1, FrameFields
      <4> QED BY <1>1, <2>2, <3>2, <4>1
    <3> QED BY <2>1, <3>1, <3>3 DEF OwnEffect, Asked, Replacements
  <2> QED BY <1>4, <1>5, <2>1, <2>2 DEF CheckExecution
<1>6. CASE SaveExecution(j)
  <2>1. UNCHANGED <<atlas, granted>>
    BY <1>6 DEF SaveExecution
  <2>2. CASE /\ executions[RecoveryOf[j]] = NoRow
             /\ Goto(j, job[j], "verifying") /\ Proceed(j, "buying")
    <3>1. \A k \in Recoverers : k # j => exec'[k] = exec[k]
      BY <1>1, <2>2, ProceedFrame DEF ExecPoints
    <3>2. job'[j].pc = "verifying" /\ \A k \in Jobs : k # j => job'[k] = job[k]
      BY <1>1, <2>2, GotoFrame DEF Points
    <3>3. ~SpentFor(RecoveryOf[j])
      BY <2>2 DEF SpentFor, NoRow
    <3> QED BY <2>1, <3>1, <3>2, <3>3 DEF OwnEffect, Asked, Replacements
  <2> QED BY <1>4, <1>6, <2>1, <2>2 DEF SaveExecution
<1>7. CASE ClearToBuy(j)
  <2>1. /\ UNCHANGED <<atlas, granted>> /\ Goto(j, job[j], "ordering")
        /\ job[j].pc = "verified" /\ exec[j].pc = "buying" /\ RecoveryOf[j] \in granted
        /\ \E no \in MaybeOrder : exec' = [exec EXCEPT ![j].superseded = no]
    BY <1>7 DEF ClearToBuy, At, In
  <2>2. job'[j].pc = "ordering" /\ \A k \in Jobs : k # j => job'[k] = job[k]
    BY <1>1, <2>1, GotoFrame DEF Points
  <2>3. exec'[j].pc = "buying" /\ \A k \in Recoverers : k # j => exec'[k] = exec[k]
    <3>1. exec[j] = [pc |-> exec[j].pc, superseded |-> exec[j].superseded,
                     cancellation |-> exec[j].cancellation]
      BY <1>1, ExecFields
    <3> QED BY <1>1, <2>1, <3>1
  <2>4. ~SpentFor(RecoveryOf[j])
    BY <2>1 DEF SpentFor, Settled, Paid, Stops
  <2> QED BY <2>1, <2>2, <2>3, <2>4 DEF OwnEffect, Asked, Replacements
<1>8. CASE SetCurrentOrder(j) \/ VoidSuperseded(j) \/ Reconcile(j)
  <2>1. UNCHANGED <<job, granted>> /\ At(j, "queried")
    BY <1>1, <1>8
    DEF SetCurrentOrder, VoidSuperseded, Reconcile, bookingVars, Owned, In, Securing
  <2>2. PICK p \in {"secured", "concluding", "reconciling"} :
          exec'[j].pc = p /\ \A k \in Recoverers : k # j => exec'[k] = exec[k]
    <3>1. exec[j] = [pc |-> exec[j].pc, superseded |-> exec[j].superseded,
                     cancellation |-> exec[j].cancellation]
      BY <1>1, ExecFields
    <3>2. CASE Reconcile(j)
      BY <1>1, <3>1, <3>2 DEF Reconcile
    <3>3. CASE SetCurrentOrder(j) \/ VoidSuperseded(j)
      <4>1. PICK p \in {"secured", "concluding", "reconciling"} : Proceed(j, p)
        BY <3>3 DEF SetCurrentOrder, VoidSuperseded
      <4> QED BY <1>1, <4>1, ProceedFrame DEF ExecPoints
    <3> QED BY <1>8, <3>2, <3>3
  <2>3. Replacements' = Replacements
    <3>1. CASE UNCHANGED atlas
      BY <3>1 DEF Replacements
    <3>2. CASE /\ VoidSuperseded(j)
               /\ atlas' = [atlas EXCEPT ![exec[j].superseded].status = "void"]
      <4>1. DOMAIN atlas' = DOMAIN atlas /\ DOMAIN atlas = 1..Len(atlas)
        BY <1>1, <3>2, Lengths
      <4>2. atlas' \in Seq(AtlasOrder)
        BY <3>2, VoidKeeps DEF RecoveryInv, BookingInv, TypeOK
      <4> QED BY <1>1, <3>2, <4>1, Lengths DEF Replacements
    <3> QED BY <1>8, <3>1, <3>2
        DEF SetCurrentOrder, VoidSuperseded, Reconcile, bookingVars
  <2> QED BY <2>1, <2>2, <2>3 DEF OwnEffect, Asked, At
<1> QED BY <1>2, <1>3, <1>5, <1>6, <1>7, <1>8 DEF RecoveryStep

LEMMA SpendKeeps ==
  ASSUME OnlyRecoveriesBuy, SpendInv, RecoveryNext
  PROVE  SpendInv'
<1>1. RecoveryInv /\ AskedIsGranted /\ RecoveryInv' /\ RowsFinal /\ BookingInv /\ RowsAtAtlas
  BY RecoveryKeeps, RowsStayFinal DEF SpendInv, RecoveryInv
<1>2. ASSUME NEW j \in Recoverers, RecoveryStep(j)
      PROVE  SpendInv'
  <2>1. OwnEffect(j) /\ j \in Jobs /\ \A k \in Recoverers : k \in Jobs
    BY <1>1, <1>2, OwnEffects, RowOf
  <2>2. AskedIsGranted'
    BY <1>1, <2>1 DEF OwnEffect, AskedIsGranted, Asked
  <2>3. Spent \subseteq Spent'
    BY <1>1, <2>1, SpentStays DEF OwnEffect
  <2>4. (Cardinality(Replacements) <= Cardinality(Spent))'
    BY <1>1, <2>1, <2>3, CountKept DEF OwnEffect
  <2> QED BY <1>1, <2>2, <2>4 DEF SpendInv
<1>3. ASSUME NEW j \in Jobs, ServiceStep(j) \/ Dies(j)
      PROVE  SpendInv'
  BY <1>1, <1>3, ServiceSpends
<1>4. CASE World /\ UNCHANGED <<granted, recoveryTables, exec>>
  <2>1. /\ UNCHANGED <<granted, executions, exec, job>> /\ Replacements' = Replacements
    BY <1>1, <1>4, WorldMoves DEF recoveryTables, Replacements
  <2>2. Spent' = Spent /\ AskedIsGranted'
    BY <1>1, <2>1 DEF Spent, SpentFor, Settled, Paid, AskedIsGranted, Asked
  <2>3. (Cardinality(Replacements) <= Cardinality(Spent))'
    BY <1>1, <2>1, <2>2, CountKept
  <2> QED BY <1>1, <2>2, <2>3 DEF SpendInv
<1> QED BY <1>2, <1>3, <1>4 DEF RecoveryNext

LEMMA SpendStarts ==
  ASSUME RecoveryInit
  PROVE  SpendInv
<1>1. RecoveryInv
  BY RecoveryStarts
<1>2. AskedIsGranted
  BY DEF RecoveryInit, AskedIsGranted, Asked, NewFrame
<1>3. Replacements = {}
  <2>1. Len(atlas) = 1
    BY DEF RecoveryInit
  <2> QED BY <2>1 DEF Replacements, Original
<1>4. Cardinality(Spent) \in Nat
  BY <1>1, FinitelyMany, FS_CardinalityType
<1>5. Cardinality(Replacements) = 0
  BY <1>3, FS_EmptySet
<1> QED BY <1>1, <1>2, <1>4, <1>5 DEF SpendInv

(* FR-001 and FR-014: when nobody but execute buys, an approval buys at most one
   replacement and nothing is bought without one, because the row of a
   recommendation is inserted once and its call pays at most once. *)
THEOREM GrantsAreSpentOnce ==
  ASSUME OnlyRecoveriesBuy
  PROVE  RecoverySpec => []EachGrantSpendsOnce
<1>1. RecoveryInit => SpendInv
  BY SpendStarts
<1>2. ASSUME SpendInv, UNCHANGED vars
      PROVE  SpendInv'
  <2>1. RecoveryInv'
    BY <1>2, RecoveryStutter DEF SpendInv
  <2>2. UNCHANGED <<granted, executions, exec, job, atlas>>
    BY <1>2 DEF vars, bookingVars, recoveryTables
  <2>3. Spent' = Spent /\ AskedIsGranted' /\ Replacements' = Replacements
    BY <1>2, <2>2
    DEF SpendInv, Spent, SpentFor, Settled, Paid, AskedIsGranted, Asked, Replacements
  <2>4. (Cardinality(Replacements) <= Cardinality(Spent))'
    BY <1>2, <2>1, <2>3, CountKept
  <2> QED BY <2>1, <2>3, <2>4 DEF SpendInv
<1>3. SpendInv /\ [RecoveryNext]_vars => SpendInv'
  BY <1>2, SpendKeeps
<1>4. SpendInv => EachGrantSpendsOnce
  <2> SUFFICES ASSUME SpendInv
               PROVE  Cardinality(Replacements) <= Cardinality(granted)
    BY DEF EachGrantSpendsOnce, Replacements
  <2>1. /\ IsFiniteSet(Replacements) /\ IsFiniteSet(granted) /\ IsFiniteSet(Spent)
        /\ Spent \subseteq granted
    BY FinitelyMany DEF SpendInv, Spent
  <2>2. /\ Cardinality(Spent) <= Cardinality(granted)
        /\ Cardinality(Spent) \in Nat /\ Cardinality(granted) \in Nat
        /\ Cardinality(Replacements) \in Nat
    BY <2>1, FS_Subset, FS_CardinalityType
  <2> QED BY <2>2 DEF SpendInv
<1> QED BY <1>1, <1>3, <1>4, PTL DEF RecoverySpec
-------------------------------------------------------------------------------
(* RecoveriesAdvance: the measure of CallersAdvance, with the stages of execute
   on top, which its own steps lower between two service calls. *)

LEMMA LeftType ==
  ASSUME NEW f \in Frame
  PROVE  Left(f) \in Nat
<1>1. /\ TicketAttempts \in Nat /\ f.pc \in Points
      /\ Resting(f, f.then) \in Nat /\ Resting(f, f.pc) \in Nat
  BY FrameFields, RestingType, BookingAssumption
<1> QED BY <1>1, LeftAt DEF Points

LEMMA StageType ==
  ASSUME NEW p
  PROVE  Stage(p) \in 0..6
BY DEF Stage

(* The other callers stay where they are. *)
OnlyMoves(j) ==
  /\ \A k \in Jobs \ {j} : job'[k] = job[k]
  /\ \A k \in Recoverers \ {j} : exec'[k] = exec[k]

Nearer(j) ==
  /\ Remaining(j)' < Remaining(j)
  /\ \A k \in Jobs \ {j} : Remaining(k)' = Remaining(k)

LEMMA NearerEnd ==
  ASSUME NEW j \in Jobs, OnlyMoves(j), job[j] \in Frame, Left(job'[j]) \in Nat,
         j \notin Recoverers => Left(job'[j]) < Left(job[j]),
         j \in Recoverers =>
           \/ /\ Left(job'[j]) < Left(job[j])
              /\ Stage(exec'[j].pc) <= Stage(exec[j].pc)
           \/ /\ Left(job'[j]) <= Left(job[j])
              /\ Stage(exec'[j].pc) < Stage(exec[j].pc)
  PROVE  Nearer(j)
<1>1. \A k \in Jobs \ {j} : Remaining(k)' = Remaining(k)
  BY DEF OnlyMoves, Remaining
<1>2. /\ Left(job[j]) \in Nat
      /\ Stage(exec[j].pc) \in 0..6 /\ Stage(exec'[j].pc) \in 0..6
  BY LeftType, StageType
<1>3. Remaining(j)' < Remaining(j)
  BY <1>2 DEF Remaining
<1> QED BY <1>1, <1>3 DEF Nearer

(* What a step of execute itself does to its frame and its stage. *)
LEMMA ExecuteAdvances ==
  ASSUME RecoveryInv, NEW j \in Recoverers, ~ Stopped(j), RecoveryStep(j)
  PROVE  Nearer(j)
<1> DEFINE f == job[j]
           e == exec[j]
<1>1. /\ BookingInv /\ TypeOK /\ RecoveryTyped /\ j \in Jobs
      /\ f \in Frame /\ job \in [Jobs -> Frame]
      /\ e \in ExecFrame /\ e.pc \in ExecPoints /\ exec \in [Recoverers -> ExecFrame]
  BY OwnFrame, ExecFields DEF RecoveryInv, RecoveryTyped, Recoverers, BookingInv, TypeOK
<1>2. /\ Stage("new") = 6 /\ Stage("saving") = 5 /\ Stage("buying") = 4
      /\ Stage("secured") = 3 /\ Stage("reconciling") = 2
      /\ Stage("concluding") = 1 /\ Stage("over") = 0
  BY DEF Stage
<1>3. Stage(e.pc) \in 0..6
  BY StageType
(* It stops, and its object with it. *)
<1>4. ASSUME NEW p \in {"ended", "raised"}, Stop(j, p), Over(j)
      PROVE  Nearer(j)
  <2>1. exec'[j].pc = "over" /\ \A k \in Recoverers \ {j} : exec'[k] = exec[k]
    BY <1>1, <1>4, OverFrame, ExecMoves
  <2>2. /\ Left(job'[j]) < Left(f) /\ job'[j] \in Frame
        /\ \A k \in Jobs \ {j} : job'[k] = job[k]
    <3>1. Left(job'[j]) < Left(f)
      BY <1>1, <1>4, StopLowers
    <3>2. NewFrame \in Frame
      BY BookingAssumption DEF NewFrame, Frame, NoSession, NoOrder, JourneyState
    <3>3. Goto(j, NewFrame, p)
      BY <1>4 DEF Stop
    <3>4. job'[j] \in Frame
      BY <1>1, <3>2, <3>3, GoesTo DEF Points
    <3>5. \A k \in Jobs \ {j} : job'[k] = job[k]
      BY <1>1, <3>3 DEF Goto
    <3> QED BY <3>1, <3>4, <3>5
  <2>3. Left(job'[j]) \in Nat
    BY <2>2, LeftType
  <2> QED BY <1>1, <1>2, <1>3, <2>1, <2>2, <2>3, NearerEnd DEF OnlyMoves
(* It goes on to its next stage without the services. *)
<1>5. ASSUME NEW p \in ExecPoints, Stage(p) < Stage(e.pc), UNCHANGED job,
             exec'[j].pc = p, \A k \in Recoverers \ {j} : exec'[k] = exec[k]
      PROVE  Nearer(j)
  <2>1. Left(job'[j]) = Left(f) /\ Left(f) \in Nat
    BY <1>1, <1>5, LeftType
  <2> QED BY <1>1, <1>5, <2>1, NearerEnd DEF OnlyMoves
<1>6. ASSUME NEW p \in ExecPoints, Proceed(j, p)
      PROVE  exec'[j].pc = p /\ \A k \in Recoverers \ {j} : exec'[k] = exec[k]
  BY <1>1, <1>6, ProceedFrame, ExecMoves
<1>7. ASSUME NEW p \in Points, Goto(j, f, p)
      PROVE  /\ job'[j] \in Frame /\ job'[j].pc = p
             /\ \A k \in Jobs \ {j} : job'[k] = job[k]
  <2>1. job'[j] \in Frame /\ job'[j].pc = p
    BY <1>1, <1>7, GoesTo
  <2>2. \A k \in Jobs \ {j} : job'[k] = job[k]
    BY <1>1, <1>7 DEF Goto
  <2> QED BY <2>1, <2>2
<1>8. CASE CheckExecution(j)
  <2>1. ASSUME Proceed(j, "saving"), job' = [job EXCEPT ![j].now = clock]
        PROVE  Nearer(j)
    <3> DEFINE g == [f EXCEPT !.now = clock]
    <3>1. g \in Frame /\ g.pc = f.pc
      BY <1>1, WithNow DEF TypeOK
    <3>2. job' = [job EXCEPT ![j] = g]
      BY <2>1
    <3> HIDE DEF g
    <3>3. job'[j] = g /\ \A k \in Jobs \ {j} : job'[k] = job[k]
      BY <1>1, <3>2
    <3>4. e.pc = "new" /\ f.pc = "idle"
      BY <1>8 DEF CheckExecution, In, RecoveryInv, Owned, At
    <3>5. Left(job'[j]) = Left(f) /\ Left(f) \in Nat
      BY <1>1, <3>1, <3>3, <3>4, LeftAt, LeftType
    <3>6. exec'[j].pc = "saving" /\ \A k \in Recoverers \ {j} : exec'[k] = exec[k]
      BY <1>6, <2>1 DEF ExecPoints
    <3> QED BY <1>1, <1>2, <3>3, <3>4, <3>5, <3>6, NearerEnd DEF OnlyMoves
  <2> QED BY <1>4, <1>8, <2>1 DEF CheckExecution, Raise
<1>9. CASE SaveExecution(j)
  <2>1. ASSUME Goto(j, f, "verifying"), Proceed(j, "buying")
        PROVE  Nearer(j)
    <3>1. e.pc = "saving" /\ f.pc = "idle"
      BY <1>9 DEF SaveExecution, In, RecoveryInv, Owned, At
    <3>2. /\ job'[j] \in Frame /\ job'[j].pc = "verifying"
          /\ \A k \in Jobs \ {j} : job'[k] = job[k]
      BY <1>7, <2>1 DEF Points
    <3>3. Left(job'[j]) < Left(f) /\ Left(job'[j]) \in Nat
      BY <1>1, <3>1, <3>2, GoingLowers, LeftType
    <3>4. exec'[j].pc = "buying" /\ \A k \in Recoverers \ {j} : exec'[k] = exec[k]
      BY <1>6, <2>1 DEF ExecPoints
    <3>5. Stage(exec'[j].pc) <= Stage(e.pc)
      BY <1>2, <3>1, <3>4
    <3> QED BY <1>1, <3>2, <3>3, <3>4, <3>5, NearerEnd DEF OnlyMoves
  <2> QED BY <1>4, <1>9, <2>1 DEF SaveExecution, Raise
<1>10. CASE ClearToBuy(j)
  <2>1. f.pc = "verified" /\ Goto(j, f, "ordering")
    BY <1>10 DEF ClearToBuy, At
  <2>2. /\ job'[j] \in Frame /\ job'[j].pc = "ordering"
        /\ \A k \in Jobs \ {j} : job'[k] = job[k]
    BY <1>7, <2>1 DEF Points
  <2>3. Left(job'[j]) < Left(f) /\ Left(job'[j]) \in Nat
    BY <1>1, <2>1, <2>2, GoingLowers, LeftType
  <2>4. exec'[j].pc = e.pc /\ \A k \in Recoverers \ {j} : exec'[k] = exec[k]
    <3>1. PICK no \in MaybeOrder : exec' = [exec EXCEPT ![j].superseded = no]
      BY <1>10 DEF ClearToBuy
    <3>2. exec'[j] = [e EXCEPT !.superseded = no]
      BY <1>1, <3>1
    <3> QED BY <1>1, <3>1, <3>2, ExecFields
  <2>5. Stage(exec'[j].pc) <= Stage(e.pc)
    BY <1>3, <2>4
  <2> QED BY <1>1, <2>2, <2>3, <2>4, <2>5, NearerEnd DEF OnlyMoves
<1>11. CASE NotCleared(j) \/ ReplacementFails(j) \/ Conclude(j) \/ ReconcileRaises(j)
  BY <1>4, <1>11 DEF NotCleared, ReplacementFails, Conclude, ReconcileRaises,
                     Abandon, Raise
<1>12. CASE SetCurrentOrder(j)
  <2>1. PICK p \in {"concluding", "secured"} : Proceed(j, p)
    BY <1>12 DEF SetCurrentOrder
  <2>2. e.pc = "buying" /\ UNCHANGED job
    BY <1>12 DEF SetCurrentOrder, In, bookingVars
  <2>3. p \in ExecPoints /\ Stage(p) < Stage(e.pc)
    BY <1>2, <2>1, <2>2 DEF ExecPoints
  <2> QED BY <1>5, <1>6, <2>1, <2>2, <2>3
<1>13. CASE VoidSuperseded(j)
  <2>1. Proceed(j, "reconciling") /\ e.pc = "secured" /\ UNCHANGED job
    BY <1>13 DEF VoidSuperseded, In
  <2>2. "reconciling" \in ExecPoints /\ Stage("reconciling") < Stage(e.pc)
    BY <1>2, <2>1 DEF ExecPoints
  <2> QED BY <1>5, <1>6, <2>1, <2>2
<1>14. CASE Reconcile(j)
  <2>1. e.pc = "reconciling" /\ UNCHANGED job
    BY <1>14 DEF Reconcile, In, bookingVars
  <2>2. PICK c \in {"SUCCEEDED", "FAILED"} :
          exec' = [exec EXCEPT ![j].pc = "concluding", ![j].cancellation = c]
    BY <1>14 DEF Reconcile
  <2>3. exec'[j] = [e EXCEPT !.pc = "concluding", !.cancellation = c]
    BY <1>1, <2>2
  <2>4. exec'[j].pc = "concluding" /\ \A k \in Recoverers \ {j} : exec'[k] = exec[k]
    BY <1>1, <2>2, <2>3, ExecFields
  <2>5. "concluding" \in ExecPoints /\ Stage("concluding") < Stage(e.pc)
    BY <1>2, <2>1 DEF ExecPoints
  <2> QED BY <1>5, <2>1, <2>4, <2>5
<1> QED
  BY <1>8, <1>9, <1>10, <1>11, <1>12, <1>13, <1>14 DEF RecoveryStep

LEMMA ServiceAdvances ==
  ASSUME RecoveryInv, NEW j \in Jobs, ServiceStep(j) \/ Dies(j)
  PROVE  Nearer(j)
<1>1. CallerStep(j) \/ Dying(j)
  BY DEF ServiceStep, Dies, CallerStep
<1>2. /\ BookingInv /\ TypeOK /\ RecoveryTyped /\ job[j] \in Frame
  BY OwnFrame DEF RecoveryInv
<1>3. /\ Left(job'[j]) < Left(job[j])
      /\ \A k \in Jobs \ {j} : job'[k] = job[k]
  BY <1>1, <1>2, CallerAdvances, OthersStay
<1>4. Left(job'[j]) \in Nat
  <2>1. BookingInv'
    BY ServiceKeeps DEF RecoveryInv
  <2>2. job'[j] \in Frame
    BY <2>1 DEF BookingInv, TypeOK
  <2> QED BY <2>2, LeftType
<1>5. (j \in Recoverers /\ Over(j)) \/ UNCHANGED exec
  BY DEF ServiceStep, Dies
<1>6. /\ \A k \in Recoverers \ {j} : exec'[k] = exec[k]
      /\ j \in Recoverers => Stage(exec'[j].pc) <= Stage(exec[j].pc)
  <2>1. CASE UNCHANGED exec
    BY <2>1, StageType
  <2>2. CASE j \in Recoverers /\ Over(j)
    <3>1. exec'[j].pc = "over" /\ \A k \in Recoverers \ {j} : exec'[k] = exec[k]
      BY <1>2, <2>2, OverFrame, ExecMoves
    <3>2. Stage("over") = 0 /\ Stage(exec[j].pc) \in 0..6
      BY StageType DEF Stage
    <3> QED BY <3>1, <3>2
  <2> QED BY <1>5, <2>1, <2>2
<1> QED BY <1>2, <1>3, <1>4, <1>6, NearerEnd DEF OnlyMoves

(* No call of execute, and no caller beside one, goes round: a recovery that
   fails in one of its phases has come to its end, and so has one that is
   refused, raises or dies. *)
THEOREM RecoveriesEnd == RecoverySpec => RecoveriesAdvance
<1>1. RecoveryInv /\ [RecoveryNext]_vars =>
        [World \/ \E j \in Jobs : Nearer(j)]_vars
  BY ExecuteAdvances, ServiceAdvances DEF RecoveryNext, Recoverers
<1>2. RecoverySpec => [][World \/ \E j \in Jobs : Nearer(j)]_vars
  BY <1>1, RecoveryInvariant, PTL DEF RecoverySpec
<1> QED BY <1>2, PTL DEF RecoveriesAdvance, Nearer
===============================================================================
