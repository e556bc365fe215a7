----------------------------- MODULE WebhookProofs -----------------------------
(***************************************************************************)
(* Proofs about Webhook for every set of orders, background threads and    *)
(* every length of the window, the interval and the exploration.           *)
(***************************************************************************)
EXTENDS Webhook, VerificationGateProofs, FiniteSetTheorems

(* A sweep looks at the windows with the time at which it began. *)
SweepInPast == sweep.pc = "sweeping" => sweep.now <= clock

Inv == TypeOK /\ SweepInPast

(* The frame of the loop and of a notification, seen by their pc. *)
LEMMA WebhookFacts ==
  ASSUME TypeOK
  PROVE  /\ receiving # Idle => receiving.order \in Records /\ receiving.at \in Time
         /\ sweep.pc = "sweeping" => sweep.todo \subseteq Records /\ sweep.now \in Time
         /\ clock \in Nat /\ clock <= MaxClock
  BY GateAssumption DEF TypeOK, GateTypeOK, Idle, Sweep, Time

(* Every step of the service is a step of the gate or leaves it alone. *)
LEMMA StepsOfGate == Inv /\ [Next]_vars => [GateNext]_gateVars
<1> SUFFICES ASSUME Inv, [Next]_vars PROVE [GateNext]_gateVars
  OBVIOUS
<1> USE DEF Inv
<1>1. ASSUME NEW o \in Records, Receive(o) \/ Close(o) PROVE UNCHANGED gateVars
  BY <1>1 DEF Receive, Close
<1>2. ASSUME NEW o \in Records, SweepOrder(o) PROVE [GateNext]_gateVars
  <2>1. CASE UNCHANGED gateVars
    BY <2>1
  <2>2. CASE StartVerify(Sweeper, o, sweep.now)
    <3>1. sweep.now \in 0..clock
      BY <1>2, WebhookFacts, GateAssumption DEF SweepOrder, SweepInPast, Time
    <3> QED BY <2>2, <3>1, WebhookAssumption DEF GateNext
  <2> QED BY <1>2, <2>1, <2>2 DEF SweepOrder
<1>3. ASSUME SaveNotification PROVE UNCHANGED gateVars
  BY <1>3 DEF SaveNotification
<1>4. ASSUME NEW v \in Workers, WorkerStep(v) PROVE [GateNext]_gateVars
  <2>1. v \in Verifiers
    BY DEF Workers
  <2>2. ASSUME NEW task \in backlog, Confirm(v, task) PROVE GateNext
    <3>1. task.order \in Records
      BY DEF TypeOK, Task
    <3>2. clock \in 0..clock
      BY WebhookFacts
    <3> QED BY <2>1, <2>2, <3>1, <3>2 DEF Confirm, GateNext
  <2> QED BY <1>4, <2>1, <2>2 DEF WorkerStep, Wake, GateNext
<1>5. ASSUME NEW v \in Workers, WorkerRaises(v) PROVE GateNext
  BY <1>5 DEF WorkerRaises, Workers, GateNext
<1>6. ASSUME SweeperStep PROVE [GateNext]_gateVars
  <2>1. CASE BeginSweep \/ EndSweep
    BY <2>1 DEF BeginSweep, EndSweep
  <2>2. CASE VerifyStep(Sweeper) \/ Return(Sweeper)
    BY <2>2, WebhookAssumption DEF GateNext
  <2> QED BY <1>2, <1>6, <2>1, <2>2 DEF SweeperStep, Wake
<1>7. ASSUME SweepRaises PROVE GateNext
  <2>1. VerifyRaises(Sweeper) \/ Return(Sweeper)
    BY <1>7 DEF SweepRaises, VerifyRaises, Return, At
  <2> QED BY <2>1, WebhookAssumption DEF GateNext
<1>8. ASSUME Restart \/ TimePasses PROVE GateNext
  BY <1>8 DEF Restart, TimePasses, GateNext
<1>9. ASSUME EndOfTime \/ UNCHANGED vars PROVE UNCHANGED gateVars
  BY <1>9 DEF EndOfTime, vars
<1> QED BY <1>1, <1>2, <1>3, <1>4, <1>5, <1>6, <1>7, <1>8, <1>9 DEF Next

LEMMA InvStep == Inv /\ [Next]_vars => Inv'
<1> SUFFICES ASSUME Inv, [Next]_vars PROVE Inv'
  OBVIOUS
<1>1. GateTypeOK'
  BY StepsOfGate, GateTypeStep DEF Inv, TypeOK
<1> DEFINE Rest ==
      /\ triggers \in [Records -> SUBSET Time]
      /\ receiving \in {Idle} \union [pc : {"saving"}, order : Records, at : Time]
      /\ backlog \subseteq Task
      /\ sweep \in Sweep
      /\ sweep.pc = "sweeping" \/ At(Sweeper, "idle")
      /\ closed \subseteq Records
      /\ failed \in Time
      /\ faults \in 0..MaxFaults
      /\ woken \in [Records -> SUBSET Time]
      /\ asked \in [Records -> SUBSET Asked]
      /\ SweepInPast
<1>2. Rest /\ GateTypeOK /\ clock \in Time /\ clock \in Nat
  BY WebhookFacts DEF Inv, TypeOK, GateTypeOK
<1> HIDE DEF Rest
<1>3. ASSUME UNCHANGED webhookVars, UNCHANGED clock,
             run'[Sweeper] = run[Sweeper] \/ sweep.pc = "sweeping"
      PROVE  Rest'
  BY <1>2, <1>3 DEF Rest, webhookVars, At, SweepInPast
<1>4. ASSUME NEW o \in Records, Receive(o) PROVE Rest'
  BY <1>2, <1>4 DEF Rest, Receive, gateVars, At, SweepInPast
<1>5. ASSUME NEW o \in Records, Close(o) PROVE Rest'
  BY <1>2, <1>5 DEF Rest, Close, gateVars, At, SweepInPast
<1>6. ASSUME NEW o \in Records, SweepOrder(o) PROVE Rest'
  <2>1. sweep \in [pc : {"sweeping"}, todo : SUBSET Records, now : Time]
    BY <1>2, <1>6 DEF Rest, SweepOrder, Sweep
  <2>2. sweep' = [sweep EXCEPT !.todo = @ \ {o}]
    BY <1>6 DEF SweepOrder
  <2>3. /\ sweep' \in Sweep /\ sweep'.pc = "sweeping"
        /\ sweep'.now = sweep.now
    BY <2>1, <2>2 DEF Sweep
  <2>4. UNCHANGED <<clock, triggers, receiving, backlog, closed, failed, faults,
                 woken>>
    BY <1>6 DEF SweepOrder, StartVerify, gateVars
  <2>5. asked' \in [Records -> SUBSET Asked]
    BY <1>2, <1>6, <2>1 DEF Rest, SweepOrder, Asked
  <2> QED BY <1>2, <2>1, <2>3, <2>4, <2>5 DEF Rest, SweepInPast
<1>7. ASSUME SaveNotification PROVE Rest'
  <2>1. receiving.order \in Records /\ receiving.at \in Time
    BY <1>7, WebhookFacts DEF Inv, SaveNotification
  <2>2. /\ triggers' \in [Records -> SUBSET Time]
        /\ asked' \in [Records -> SUBSET Asked]
        /\ backlog' \subseteq Task
    BY <1>2, <1>7, <2>1 DEF Rest, SaveNotification, Asked, Task
  <2> QED BY <1>2, <1>7, <2>2 DEF Rest, SaveNotification, gateVars, At, SweepInPast
<1>8. ASSUME NEW v \in Workers, NEW task \in backlog, Confirm(v, task) PROVE Rest'
  <2>1. run'[Sweeper] = run[Sweeper]
    BY <1>2, <1>8, WebhookAssumption DEF Confirm, StartVerify, GateTypeOK, Workers
  <2> QED BY <1>2, <1>8, <2>1 DEF Rest, Confirm, StartVerify, At, SweepInPast
<1>9. ASSUME NEW v \in Workers,
             VerifyStep(v) \/ Return(v) \/ VerifyRaises(v)
      PROVE  run'[Sweeper] = run[Sweeper] /\ UNCHANGED clock
  BY <1>2, <1>9, WebhookAssumption DEF VerifyStep, QueryAnswered, QueryFails,
     Judge, Apply, SaveAttempt, Return, VerifyRaises, GateTypeOK, Workers
<1> DEFINE Told == woken' \in [Records -> SUBSET Time]
<1>10. \A v \in Verifiers : Wakes(v) \in [Records -> SUBSET Time]
  BY <1>2 DEF Rest, Wakes
<1>11. ASSUME NEW v \in Workers, Wake(v) PROVE Rest'
  <2>1. Told
    BY <1>10, <1>11 DEF Wake, Workers
  <2> QED BY <1>2, <1>9, <1>11, <2>1 DEF Rest, Wake, At, SweepInPast
<1>12. ASSUME NEW v \in Workers, WorkerRaises(v) PROVE Rest'
  <2>1. faults' \in 0..MaxFaults /\ failed' \in Time
    BY <1>2, <1>12, WebhookAssumption DEF Rest, WorkerRaises, VerifyRaises,
       Return, Fault
  <2>2. Told
    BY <1>2, <1>10, <1>12 DEF Rest, WorkerRaises, Workers
  <2> QED BY <1>2, <1>9, <1>12, <2>1, <2>2 DEF Rest, WorkerRaises, At, SweepInPast
<1>13. ASSUME BeginSweep PROVE Rest'
  BY <1>2, <1>13 DEF Rest, BeginSweep, gateVars, SweepInPast, Sweep
<1>14. ASSUME EndSweep PROVE Rest'
  BY <1>2, <1>14, WebhookAssumption DEF Rest, EndSweep, gateVars, At, SweepInPast,
     Sweep
<1>15. ASSUME VerifyStep(Sweeper) \/ Return(Sweeper)
       PROVE  sweep.pc = "sweeping" /\ UNCHANGED clock
  <2>1. ~ At(Sweeper, "idle") /\ UNCHANGED clock
    BY <1>15 DEF VerifyStep, QueryAnswered, QueryFails, Judge, Apply, SaveAttempt,
       Return, At
  <2> QED BY <1>2, <2>1 DEF Rest
<1>16. ASSUME UNCHANGED webhookVars, VerifyStep(Sweeper) PROVE Rest'
  BY <1>3, <1>15, <1>16
<1>17. ASSUME Wake(Sweeper) PROVE Rest'
  <2>1. Told
    BY <1>10, <1>17, WebhookAssumption DEF Wake
  <2> QED BY <1>2, <1>15, <1>17, <2>1 DEF Rest, Wake, SweepInPast
<1>18. ASSUME SweepRaises PROVE Rest'
  <2>1. faults' \in 0..MaxFaults /\ failed' \in Time
    BY <1>2, <1>18, WebhookAssumption DEF Rest, SweepRaises, Fault
  <2>2. run'[Sweeper] = Idle
    BY <1>2, <1>18, WebhookAssumption DEF SweepRaises, GateTypeOK
  <2>3. Told
    BY <1>2, <1>10, <1>18, WebhookAssumption DEF Rest, SweepRaises
  <2>4. sweep' \in Sweep /\ sweep'.pc = "dead"
    BY <1>18 DEF SweepRaises, Sweep
  <2> QED BY <1>2, <1>18, <2>1, <2>2, <2>3, <2>4 DEF Rest, SweepRaises, At,
      SweepInPast, Idle
<1>19. ASSUME Restart PROVE Rest'
  <2>1. faults' \in 0..MaxFaults /\ failed' \in Time
    BY <1>2, <1>19, WebhookAssumption DEF Rest, Restart, Fault
  <2>2. run'[Sweeper] = Idle /\ UNCHANGED clock
    BY <1>19, WebhookAssumption DEF Restart, CrashServer
  <2>3. sweep' \in Sweep /\ sweep'.pc = "asleep"
    BY <1>2, <1>19, WebhookAssumption DEF Restart, Sweep
  <2> QED BY <1>2, <1>19, <2>1, <2>2, <2>3 DEF Rest, Restart, At, SweepInPast, Idle
<1>20. ASSUME TimePasses PROVE Rest'
  BY <1>2, <1>20 DEF Rest, TimePasses, Tick, webhookVars, At, SweepInPast, Sweep,
     Time
<1>21. ASSUME EndOfTime \/ UNCHANGED vars PROVE Rest'
  BY <1>3, <1>21 DEF EndOfTime, vars, gateVars
<1>22. ASSUME NEW v \in Workers, WorkerStep(v) PROVE Rest'
  BY <1>3, <1>8, <1>9, <1>11, <1>22 DEF WorkerStep
<1>23. ASSUME SweeperStep PROVE Rest'
  BY <1>6, <1>13, <1>14, <1>16, <1>17, <1>23 DEF SweeperStep
<1>24. Rest'
  BY <1>4, <1>5, <1>6, <1>7, <1>12, <1>18, <1>19, <1>20, <1>21, <1>22, <1>23
     DEF Next
<1> QED BY <1>1, <1>24 DEF Rest, Inv, TypeOK

LEMMA InvInit == Init => Inv
<1> SUFFICES ASSUME Init PROVE Inv
  OBVIOUS
<1>1. GateTypeOK
  BY GateAssumption DEF Init, GateInit, GateTypeOK, Frame, Idle, Time
<1>2. sweep \in Sweep /\ sweep.pc = "asleep" /\ At(Sweeper, "idle")
  BY WebhookAssumption DEF Init, GateInit, Sweep, At, Idle
<1> QED BY <1>1, <1>2, GateAssumption, WebhookAssumption
        DEF Init, Inv, TypeOK, SweepInPast, Time

(* Every variable of the service keeps its type, and the sweep's thread is
   inside the gate only during a sweep. *)
THEOREM TypeCorrect == Spec => []TypeOK
<1>1. Inv => TypeOK
  BY DEF Inv
<1> QED BY <1>1, InvInit, InvStep, PTL DEF Spec

(* The service is a client of the verification gate: whatever notifications,
   sweeps, exceptions and restarts do, each of its steps is one of the gate's
   or leaves the gate alone. *)
THEOREM UsesGate == Spec => GateSpec
<1>1. Init => GateInit
  BY DEF Init
<1> QED BY <1>1, InvInit, InvStep, StepsOfGate, PTL DEF Spec, GateSpec

(* So confirmations and sweeps of one order, which overlap, never leave an
   older conclusion on offer to the traveller than one already stored. *)
THEOREM ServiceReportsNewest == Spec => []ReportableIsNewest
  BY UsesGate, NewestIsReportable, PTL

(* And an order is declared gone only at the bound, however many confirmations
   and sweeps asked for it, and however late the sweeps' own clock is. *)
THEOREM ServiceBoundsAbsence == Spec => []AbsenceIsBounded
  BY UsesGate, AbsenceBounded, PTL

-------------------------------------------------------------------------------
(* How often Atlas is asked. *)

(* The loop sleeps at least as long as a window is open. *)
SweepsAreRare == Window <= Interval

By(o, who) == {a \in asked[o] : a.by = who}

(* A decision of a notification is on record as its trigger, and one that is
   about to be saved came a window after every other. *)
NotificationsApart ==
  \A o \in Records :
    /\ \A a \in By(o, "notification") : a.at \in triggers[o]
    /\ \A a, b \in By(o, "notification") :
         a.at = b.at \/ a.at + Window <= b.at \/ b.at + Window <= a.at

AboutToSave ==
  receiving # Idle =>
    \A t \in triggers[receiving.order] : t + Window <= receiving.at

(* A sweep's decisions lie an interval before the next one, or are its own. *)
SweepsApart ==
  \A o \in Records :
    /\ \A a \in By(o, "sweep") :
         /\ a.at <= clock
         /\ sweep.pc = "asleep" => a.at + Interval <= sweep.due
         /\ sweep.pc = "sweeping" =>
              \/ a.at + Interval <= sweep.now
              \/ a.at = sweep.now /\ o \notin sweep.todo
    /\ \A a, b \in By(o, "sweep") :
         a.at = b.at \/ a.at + Interval <= b.at \/ b.at + Interval <= a.at

AskInv == Inv /\ NotificationsApart /\ AboutToSave /\ SweepsApart

(* One decision is added, for an order and a time of the exploration. *)
LEMMA AskedOnce ==
  ASSUME Inv, NEW o \in Records, NEW x,
         asked' = [asked EXCEPT ![o] = @ \union {x}]
  PROVE  /\ asked'[o] = asked[o] \union {x}
         /\ \A p \in Records : p # o => asked'[p] = asked[p]
BY DEF Inv, TypeOK

(* Every time a decision carries is one of the clock's. *)
LEMMA AskedTimes ==
  ASSUME Inv, NEW o \in Records, NEW who, NEW a \in By(o, who)
  PROVE  a.at \in Nat /\ a \in Asked /\ a.by = who
BY GateAssumption DEF Inv, TypeOK, By, Asked, Time

LEMMA NotificationAsks ==
  ASSUME AskInv, SaveNotification
  PROVE  NotificationsApart' /\ AboutToSave' /\ SweepsApart'
<1>1. PICK o \in Records, at \in Time : o = receiving.order /\ at = receiving.at
  BY WebhookFacts DEF AskInv, Inv, SaveNotification
<1>2. at \in Nat /\ Window \in Nat /\ triggers \in [Records -> SUBSET Time]
  BY GateAssumption, WebhookAssumption DEF AskInv, Inv, TypeOK, Time
<1> DEFINE x == [by |-> "notification", at |-> at]
<1>3. x.by = "notification" /\ x.at = at
  OBVIOUS
<1>4. asked' = [asked EXCEPT ![o] = @ \union {x}]
  BY <1>1 DEF SaveNotification
<1> HIDE DEF x
<1>5. /\ asked'[o] = asked[o] \union {x}
      /\ \A p \in Records : p # o => asked'[p] = asked[p]
  BY <1>4, AskedOnce DEF AskInv
<1>6. /\ triggers'[o] = triggers[o] \union {at}
      /\ \A p \in Records : p # o => triggers'[p] = triggers[p]
  BY <1>1, <1>2 DEF SaveNotification
<1>7. \A t \in triggers[o] : t + Window <= at
  BY <1>1 DEF AskInv, AboutToSave, SaveNotification
<1>8. \A p \in Records :
        /\ By(p, "sweep")' = By(p, "sweep")
        /\ By(p, "notification")' =
             By(p, "notification") \union (IF p = o THEN {x} ELSE {})
  BY <1>3, <1>5 DEF By
<1>9. UNCHANGED <<sweep, clock>> /\ receiving' = Idle
  BY DEF SaveNotification, gateVars
<1>10. NotificationsApart'
  <2> SUFFICES ASSUME NEW p \in Records
               PROVE  /\ \A a \in By(p, "notification")' : a.at \in triggers'[p]
                      /\ \A a, b \in By(p, "notification")' :
                           \/ a.at = b.at \/ a.at + Window <= b.at
                           \/ b.at + Window <= a.at
    BY DEF NotificationsApart
  <2>1. /\ \A a \in By(p, "notification") : a.at \in triggers[p]
        /\ \A a, b \in By(p, "notification") :
             a.at = b.at \/ a.at + Window <= b.at \/ b.at + Window <= a.at
    BY DEF AskInv, NotificationsApart
  <2> QED BY <1>3, <1>6, <1>7, <1>8, <2>1
<1>11. SweepsApart'
  BY <1>8, <1>9 DEF AskInv, SweepsApart
<1> QED BY <1>9, <1>10, <1>11 DEF AboutToSave

LEMMA SweepAsks ==
  ASSUME AskInv, NEW o \in Records, SweepOrder(o)
  PROVE  NotificationsApart' /\ AboutToSave' /\ SweepsApart'
<1>1. /\ sweep \in [pc : {"sweeping"}, todo : SUBSET Records, now : Time]
      /\ o \in sweep.todo /\ sweep.now <= clock
  BY DEF AskInv, Inv, TypeOK, SweepOrder, Sweep, SweepInPast
<1>2. /\ sweep.now \in Nat /\ clock \in Nat /\ Interval \in Nat
  BY <1>1, WebhookFacts, GateAssumption, WebhookAssumption DEF AskInv, Inv, Time
<1>3. UNCHANGED <<clock, triggers, receiving>>
  BY DEF SweepOrder, StartVerify, gateVars
<1>4. sweep'.pc = "sweeping" /\ sweep'.now = sweep.now /\ sweep'.todo = sweep.todo \ {o}
  BY <1>1 DEF SweepOrder
<1> DEFINE x == [by |-> "sweep", at |-> sweep.now]
<1>5. x.by = "sweep" /\ x.at = sweep.now
  OBVIOUS
<1>6. UNCHANGED asked \/ asked' = [asked EXCEPT ![o] = @ \union {x}]
  BY DEF SweepOrder
<1> HIDE DEF x
<1>7. \/ UNCHANGED asked
      \/ /\ asked'[o] = asked[o] \union {x}
         /\ \A p \in Records : p # o => asked'[p] = asked[p]
  BY <1>6, AskedOnce DEF AskInv
<1>8. \A p \in Records :
        /\ By(p, "notification")' = By(p, "notification")
        /\ \A a \in By(p, "sweep")' : a \in By(p, "sweep") \/ (p = o /\ a = x)
  BY <1>5, <1>7 DEF By
<1>9. NotificationsApart' /\ AboutToSave'
  BY <1>3, <1>8 DEF AskInv, NotificationsApart, AboutToSave
<1>10. SweepsApart'
  <2> SUFFICES ASSUME NEW p \in Records
               PROVE  /\ \A a \in By(p, "sweep")' :
                           /\ a.at <= clock
                           /\ \/ a.at + Interval <= sweep.now
                              \/ a.at = sweep.now /\ p \notin sweep.todo \ {o}
                      /\ \A a, b \in By(p, "sweep")' :
                           \/ a.at = b.at \/ a.at + Interval <= b.at
                           \/ b.at + Interval <= a.at
    BY <1>3, <1>4 DEF SweepsApart
  <2>1. \A a \in By(p, "sweep") :
          /\ a.at <= clock
          /\ a.at + Interval <= sweep.now \/ (a.at = sweep.now /\ p \notin sweep.todo)
    BY <1>1 DEF AskInv, SweepsApart
  <2>2. \A a, b \in By(p, "sweep") :
          a.at = b.at \/ a.at + Interval <= b.at \/ b.at + Interval <= a.at
    BY DEF AskInv, SweepsApart
  <2> QED BY <1>1, <1>5, <1>8, <2>1, <2>2
<1> QED BY <1>9, <1>10

(* No decision is taken: the loop may begin or end a sweep, start over, or die,
   and the clock may go on. *)
LEMMA NothingAsked ==
  ASSUME AskInv, Inv', UNCHANGED <<asked, triggers>>, clock <= clock',
         receiving' # Idle => \/ UNCHANGED receiving
                              \/ /\ receiving'.order \in Records
                                 /\ \A t \in triggers[receiving'.order] :
                                      t + Window <= receiving'.at,
         \/ UNCHANGED sweep
         \/ sweep'.pc = "dead"
         \/ sweep'.pc = "asleep" /\ sweep'.due = clock + Interval
         \/ /\ sweep.pc = "asleep" /\ sweep'.pc = "sweeping"
            /\ sweep.due <= sweep'.now /\ sweep'.now \in Nat /\ sweep.due \in Nat
  PROVE  NotificationsApart' /\ AboutToSave' /\ SweepsApart'
<1>1. /\ clock \in Nat /\ clock' \in Nat /\ Interval \in Nat
  BY WebhookAssumption, GateAssumption
  DEF AskInv, Inv, TypeOK, GateTypeOK, Time
<1>2. \A p : By(p, "sweep")' = By(p, "sweep")
               /\ By(p, "notification")' = By(p, "notification")
  BY DEF By
<1>3. NotificationsApart'
  BY <1>2 DEF AskInv, NotificationsApart
<1>4. AboutToSave'
  BY DEF AskInv, AboutToSave
<1>5. ASSUME NEW p \in Records, NEW a \in By(p, "sweep")
      PROVE  /\ a.at <= clock'
             /\ sweep'.pc = "asleep" => a.at + Interval <= sweep'.due
             /\ sweep'.pc = "sweeping" =>
                  \/ a.at + Interval <= sweep'.now
                  \/ a.at = sweep'.now /\ p \notin sweep'.todo
  <2>1. /\ a.at \in Nat /\ a.at <= clock
        /\ sweep.pc = "asleep" => a.at + Interval <= sweep.due
        /\ sweep.pc = "sweeping" =>
             \/ a.at + Interval <= sweep.now
             \/ a.at = sweep.now /\ p \notin sweep.todo
    BY AskedTimes DEF AskInv, SweepsApart
  <2>2. CASE UNCHANGED sweep
    BY <1>1, <2>1, <2>2
  <2>3. CASE sweep'.pc = "dead"
    BY <1>1, <2>1, <2>3
  <2>4. CASE sweep'.pc = "asleep" /\ sweep'.due = clock + Interval
    BY <1>1, <2>1, <2>4
  <2>5. CASE /\ sweep.pc = "asleep" /\ sweep'.pc = "sweeping"
             /\ sweep.due <= sweep'.now /\ sweep'.now \in Nat /\ sweep.due \in Nat
    BY <1>1, <2>1, <2>5
  <2> QED BY <2>2, <2>3, <2>4, <2>5
<1>6. SweepsApart'
  BY <1>2, <1>5 DEF AskInv, SweepsApart
<1> QED BY <1>3, <1>4, <1>6

LEMMA AskStep ==
  ASSUME AskInv, [Next]_vars
  PROVE  AskInv'
<1>1. Inv /\ Inv' /\ clock \in Nat /\ triggers \in [Records -> SUBSET Time]
  BY InvStep, WebhookFacts DEF AskInv, Inv, TypeOK
<1>2. ASSUME UNCHANGED <<asked, triggers, receiving, sweep>>, clock' \in {clock, clock + 1}
      PROVE  AskInv'
  BY <1>1, <1>2, NothingAsked DEF AskInv
<1>3. ASSUME NEW o \in Records, Receive(o) PROVE AskInv'
  <2>1. UNCHANGED <<asked, triggers, sweep, clock>>
    BY <1>3 DEF Receive, gateVars
  <2>2. receiving'.order = o /\ receiving'.at = clock
    BY <1>3 DEF Receive
  <2>3. \A t \in triggers[o] : t \in Nat /\ ~(clock - t < Window)
    BY <1>1, <1>3, GateAssumption DEF Receive, WithinWindow, Time
  <2>4. \A t \in triggers[o] : t + Window <= clock
    BY <1>1, <2>3, WebhookAssumption
  <2> QED BY <1>1, <2>1, <2>2, <2>4, NothingAsked DEF AskInv
<1>4. ASSUME SaveNotification PROVE AskInv'
  BY <1>1, <1>4, NotificationAsks DEF AskInv
<1>5. ASSUME NEW o \in Records, SweepOrder(o) PROVE AskInv'
  BY <1>1, <1>5, SweepAsks DEF AskInv
<1>6. ASSUME NEW o \in Records, Close(o) PROVE AskInv'
  BY <1>2, <1>6 DEF Close, gateVars
<1>7. ASSUME NEW v \in Verifiers,
             \/ \E task \in backlog : Confirm(v, task)
             \/ Wake(v) \/ WorkerRaises(v)
             \/ VerifyStep(v) /\ UNCHANGED webhookVars
      PROVE  AskInv'
  <2>1. UNCHANGED <<asked, triggers, receiving, sweep, clock>>
    BY <1>7 DEF Confirm, StartVerify, Wake, WorkerRaises, VerifyStep, QueryAnswered,
       QueryFails, Judge, Apply, SaveAttempt, Return, VerifyRaises, webhookVars
  <2> QED BY <1>2, <2>1
<1>8. ASSUME BeginSweep PROVE AskInv'
  <2>1. /\ UNCHANGED <<asked, triggers, receiving, clock>>
        /\ sweep.pc = "asleep" /\ sweep'.pc = "sweeping"
        /\ sweep'.now = clock /\ clock >= sweep.due
    BY <1>8 DEF BeginSweep, gateVars
  <2>2. sweep.due \in Nat
    BY <1>1, <2>1 DEF Inv, TypeOK, Sweep
  <2> QED BY <1>1, <2>1, <2>2, NothingAsked DEF AskInv
<1>9. ASSUME EndSweep PROVE AskInv'
  <2>1. /\ UNCHANGED <<asked, triggers, receiving, clock>>
        /\ sweep'.pc = "asleep" /\ sweep'.due = clock + Interval
    BY <1>9 DEF EndSweep, gateVars
  <2> QED BY <1>1, <2>1, NothingAsked DEF AskInv
<1>10. ASSUME SweepRaises PROVE AskInv'
  <2>1. UNCHANGED <<asked, triggers, receiving, clock>> /\ sweep'.pc = "dead"
    BY <1>10 DEF SweepRaises
  <2> QED BY <1>1, <2>1, NothingAsked DEF AskInv
<1>11. ASSUME Restart PROVE AskInv'
  <2>1. /\ UNCHANGED <<asked, triggers, clock>> /\ receiving' = Idle
        /\ sweep'.pc = "asleep" /\ sweep'.due = clock + Interval
    BY <1>11 DEF Restart, CrashServer
  <2> QED BY <1>1, <2>1, NothingAsked DEF AskInv
<1>12. ASSUME TimePasses PROVE AskInv'
  BY <1>2, <1>12 DEF TimePasses, Tick, webhookVars
<1>13. ASSUME UNCHANGED vars PROVE AskInv'
  BY <1>2, <1>13 DEF vars, gateVars, webhookVars
<1>14. ASSUME SweeperStep PROVE AskInv'
  BY <1>5, <1>7, <1>8, <1>9, <1>14, WebhookAssumption DEF SweeperStep
<1>15. ASSUME NEW v \in Workers, WorkerStep(v) \/ WorkerRaises(v) PROVE AskInv'
  BY <1>7, <1>15 DEF WorkerStep, Workers
<1> QED BY <1>3, <1>4, <1>5, <1>6, <1>10, <1>11, <1>12, <1>13, <1>14, <1>15
        DEF Next, EndOfTime

(* Decisions of one kind within a window are one decision. *)
LEMMA OneOfEachKind ==
  ASSUME SweepsAreRare, AskInv, NEW o \in Records, NEW t \in Nat,
         NEW a \in asked[o], NEW b \in asked[o], a.by = b.by,
         t <= a.at, a.at < t + Window, t <= b.at, b.at < t + Window
  PROVE  a = b
<1>1. /\ a \in Asked /\ b \in Asked /\ a.at \in Nat /\ b.at \in Nat
      /\ Window \in Nat /\ Interval \in Nat /\ Window <= Interval
  BY GateAssumption, WebhookAssumption
  DEF AskInv, Inv, TypeOK, Asked, Time, SweepsAreRare
<1>2. \/ a.at = b.at
      \/ a.at + Window <= b.at \/ b.at + Window <= a.at
      \/ a.at + Interval <= b.at \/ b.at + Interval <= a.at
  <2>1. CASE a.by = "notification"
    BY <2>1 DEF AskInv, NotificationsApart, By
  <2>2. CASE a.by = "sweep"
    BY <2>2 DEF AskInv, SweepsApart, By
  <2> QED BY <1>1, <2>1, <2>2 DEF Asked
<1>3. a.at = b.at
  BY <1>1, <1>2
<1> QED BY <1>1, <1>3 DEF Asked

(* A set whose members agree with each other has at most one. *)
LEMMA AtMostOne ==
  ASSUME NEW S, \A a, b \in S : a = b
  PROVE  IsFiniteSet(S) /\ Cardinality(S) \in {0, 1}
<1>1. CASE S = {}
  BY <1>1, FS_EmptySet
<1>2. ASSUME NEW a \in S
      PROVE  IsFiniteSet(S) /\ Cardinality(S) \in {0, 1}
  <2>1. S = {a}
    OBVIOUS
  <2> QED BY <2>1, FS_Singleton
<1> QED BY <1>1, <1>2

(* FR-013 for every window no longer than the interval of the loop: a window
   holds one decision of a notification and one of a sweep at most, whatever
   notifications arrive, raise or are lost with a server. *)
THEOREM ConfirmationsAreBounded ==
  ASSUME SweepsAreRare
  PROVE  Spec => []ConfirmationsBounded
<1>1. Init => AskInv
  <2> SUFFICES ASSUME Init PROVE AskInv
    OBVIOUS
  <2>1. Inv /\ \A o \in Records : \A who : By(o, who) = {}
    BY InvInit DEF Init, By
  <2> QED BY <2>1 DEF Init, AskInv, NotificationsApart, AboutToSave, SweepsApart
<1>2. ASSUME AskInv
      PROVE  ConfirmationsBounded
  <2> SUFFICES ASSUME NEW o \in Records, NEW a \in asked[o]
               PROVE  LET S == {b \in asked[o] : a.at <= b.at /\ b.at < a.at + Window}
                      IN  /\ Cardinality(S) <= 2
                          /\ Cardinality({b \in S : b.by = "notification"}) <= 1
    BY DEF ConfirmationsBounded
  <2> DEFINE S == {b \in asked[o] : a.at <= b.at /\ b.at < a.at + Window}
             Of(who) == {b \in S : b.by = who}
  <2>1. a.at \in Nat /\ \A b \in asked[o] : b.by \in {"notification", "sweep"}
    BY <1>2, GateAssumption DEF AskInv, Inv, TypeOK, Asked, Time
  <2>2. \A who : \A b, c \in Of(who) : b = c
    BY <1>2, <2>1, OneOfEachKind
  <2>3. S = Of("notification") \union Of("sweep")
    BY <2>1
  <2> HIDE DEF S, Of
  <2>4. \A who : IsFiniteSet(Of(who)) /\ Cardinality(Of(who)) \in {0, 1}
    BY <2>2, AtMostOne
  <2>5. Cardinality(S) <= 2
    <3>1. Cardinality(S) = Cardinality(Of("notification")) + Cardinality(Of("sweep"))
             - Cardinality(Of("notification") \intersect Of("sweep"))
      BY <2>3, <2>4, FS_Union
    <3>2. Cardinality(Of("notification") \intersect Of("sweep")) \in Nat
      BY <2>4, FS_Intersection, FS_CardinalityType
    <3> QED BY <2>4, <3>1, <3>2
  <2>6. Cardinality(Of("notification")) <= 1
    BY <2>4
  <2> QED BY <2>5, <2>6 DEF S, Of
<1> QED BY <1>1, <1>2, AskStep, PTL DEF Spec
-------------------------------------------------------------------------------
(* How long an order may be left alone. *)

(* The longest from the activity that a sweep holds back for to the beginning
   of the sweep that no longer does. *)
Cycle == Window + Interval + Patience

Heard(o) == Observed(o) \union triggers[o]

(* Verifications of an order whose result is neither stored nor passed on. *)
Asking(o) ==
  {v \in Verifiers :
     /\ ~ At(v, "idle") /\ run[v].record = o
     /\ ~ (At(v, "returned") /\ run[v].outcome = "UNRESOLVED")}

(* The time that the row of a verification will carry, as far as is known. *)
Since(v) ==
  IF At(v, "querying") THEN run[v].now
  ELSE IF At(v, "returned") THEN clock ELSE run[v].observed

Tasks(o) == {task.at : task \in {task \in backlog : task.order = o}}
Settled(o) == Learnt(o) \union {failed}
Acts(o) == Settled(o) \union Tasks(o) \union {Since(v) : v \in Asking(o)}

(* Time passes only while Atlas is being asked, and for no longer than a
   confirmation or a sweep may take. *)
FramePunctual(v) ==
  /\ At(v, "querying") => run[v].now <= clock /\ clock <= run[v].now + Patience
  /\ At(v, "judging") \/ At(v, "applying") => run[v].observed = clock
  /\ At(v, "saving") =>
       /\ run[v].observed <= clock /\ clock <= run[v].observed + Patience
       /\ run[v].outcome \in Conclusive => run[v].observed = clock

SweepPunctual ==
  /\ sweep.pc = "asleep" => clock <= sweep.due /\ sweep.due <= clock + Interval
  /\ sweep.pc = "sweeping" => sweep.now <= clock /\ clock <= sweep.now + Patience

Punctual ==
  /\ receiving # Idle => receiving.at = clock
  /\ \A task \in backlog : task.at = clock
  /\ \A v \in Verifiers : FramePunctual(v)
  /\ SweepPunctual
  /\ failed <= clock
  /\ \A o \in Records : \A s \in Heard(o) : s <= clock

(* What makes a sweep hold back is known, or still under way: it is not lost
   without a trace. *)
Remembers(o) == \A s \in Heard(o) : \E x \in Acts(o) : s <= x

(* The next sweep of an order begins within a cycle of some activity. *)
Covered(o, x) ==
  \/ sweep.pc = "asleep" /\ sweep.due < x + Cycle
  \/ /\ sweep.pc = "sweeping"
     /\ sweep.now < x + (IF o \in sweep.todo THEN Cycle ELSE Window)

Scheduled(o) == sweep.pc = "dead" \/ \E x \in Acts(o) : Covered(o, x)

(* What was settled last is followed by a sweep, or by a verification that began
   before a sweep within a cycle could have ended. *)
Pending(o, m) ==
  \/ \E t \in Tasks(o) : t < m + Cycle + Patience
  \/ \E v \in Asking(o) :
       /\ clock < m + LatestAnswer
       /\ At(v, "querying") => run[v].now < m + Cycle + Patience

InTime(o) ==
  sweep.pc = "dead" \/ \E m \in Settled(o) : Covered(o, m) \/ Pending(o, m)

Tracked(o) == Remembers(o) /\ (o \notin closed => Scheduled(o) /\ InTime(o))

(* A wake tells what an attempt has found. *)
WakesOnRecord ==
  \A o \in Records :
    /\ woken[o] \subseteq Observed(o)
    /\ \A v \in Asking(o) : At(v, "returned") => clock \in Observed(o)

TimeInv ==
  Inv /\ Punctual /\ (\A o \in Records : Tracked(o)) /\ WakesOnRecord

LEMMA TimeConstants ==
  /\ {Window, Interval, Patience, Cycle, LatestAnswer} \subseteq Nat
  /\ Window > 0 /\ Interval > 0 /\ Patience > 0
  /\ Cycle = Window + Interval + Patience
  /\ LatestAnswer = Cycle + Patience + Patience
BY WebhookAssumption DEF Cycle, LatestAnswer

Times ==
  /\ clock \in Nat /\ failed \in Nat
  /\ sweep.pc \in {"asleep", "sweeping", "dead"}
  /\ sweep.pc = "asleep" => sweep.due \in Nat
  /\ sweep.pc = "sweeping" => sweep.now \in Nat
  /\ \A v \in Verifiers : At(v, "querying") => run[v].now \in Nat
  /\ \A v \in Verifiers : ~ At(v, "idle") => Since(v) \in Nat
  /\ \A o \in Records :
       /\ Heard(o) \subseteq Nat /\ Acts(o) \subseteq Nat
       /\ Learnt(o) \subseteq Nat /\ Tasks(o) \subseteq Nat

(* Every time at hand is a number. *)
LEMMA TimesHold == Inv => Times
<1> SUFFICES ASSUME Inv PROVE Times
  OBVIOUS
<1> USE GateAssumption DEF Inv
<1>1. /\ clock \in Nat /\ failed \in Nat /\ Time \subseteq Nat
      /\ sweep.pc \in {"asleep", "sweeping", "dead"}
      /\ sweep.pc = "asleep" => sweep.due \in Nat
      /\ sweep.pc = "sweeping" => sweep.now \in Nat
  BY DEF TypeOK, GateTypeOK, Sweep, Time
<1>2. ASSUME NEW v \in Verifiers
      PROVE  /\ At(v, "querying") => run[v].now \in Nat
             /\ ~ At(v, "idle") => Since(v) \in Nat
  <2>1. run[v] \in Frame
    BY DEF TypeOK, GateTypeOK
  <2> QED BY <1>1, <2>1 DEF At, Since, Frame
<1>3. ASSUME NEW o \in Records
      PROVE  Observed(o) \subseteq Nat /\ Learnt(o) \subseteq Nat
  <2>1. \A i \in Rows(o) : attempts[o][i].observed \in Nat
    <3>1. attempts[o] \in Seq(Attempt)
      BY DEF TypeOK, GateTypeOK
    <3>2. \A i \in Rows(o) : attempts[o][i] \in Attempt
      BY <3>1 DEF Rows
    <3> QED BY <1>1, <3>2 DEF Attempt
  <2>2. woken[o] \subseteq Nat
    BY <1>1 DEF TypeOK
  <2> QED BY <2>1, <2>2 DEF Observed, Learnt
<1>4. ASSUME NEW o \in Records
      PROVE  Heard(o) \subseteq Nat /\ Tasks(o) \subseteq Nat
  BY <1>1, <1>3 DEF TypeOK, Heard, Tasks, Task
<1>5. \A o \in Records : \A v \in Asking(o) : Since(v) \in Nat
  BY <1>2 DEF Asking
<1>6. \A o \in Records : Acts(o) \subseteq Nat
  BY <1>1, <1>3, <1>4, <1>5 DEF Acts, Settled
<1> QED BY <1>1, <1>2, <1>3, <1>4, <1>6 DEF Times

LEMMA TimesHoldNext == Inv' => Times'
BY TimesHold, PTL

(* Whoever learns something now, or loses everything, starts afresh. *)
LEMMA SettledNow ==
  ASSUME Inv', Punctual', NEW o \in Records, clock' \in Settled(o)'
  PROVE  Tracked(o)'
<1>1. Times'
  BY TimesHoldNext
<1>2. clock' \in Acts(o)'
  BY DEF Acts
<1>3. Remembers(o)'
  BY <1>2 DEF Remembers, Punctual
<1>4. sweep'.pc = "dead" \/ Covered(o, clock)'
  BY <1>1, TimeConstants DEF Times, Punctual, SweepPunctual, Covered
<1> QED BY <1>2, <1>3, <1>4 DEF Tracked, Scheduled, InTime

(* An activity later than another is covered if that one is. *)
LEMMA LaterIsCovered ==
  ASSUME Times, NEW o, NEW x \in Nat, NEW y \in Nat, x <= y, Covered(o, x)
  PROVE  Covered(o, y)
BY TimeConstants DEF Times, Covered

(* A step that loses no activity, hears of nothing that is not one, and puts
   off neither the next sweep nor what is pending. *)
LEMMA NothingLost ==
  ASSUME Times, Times', NEW o \in Records, Tracked(o),
         closed \subseteq closed',
         \A x \in Acts(o) : \E y \in Acts(o)' : x <= y,
         \A s \in Heard(o)' : s \in Heard(o) \/ \E y \in Acts(o)' : s <= y,
         Settled(o) \subseteq Settled(o)',
         o \notin closed' =>
           /\ sweep.pc = "dead" => sweep'.pc = "dead"
           /\ \A x \in Nat : Covered(o, x) => Covered(o, x)'
           /\ \A m \in Settled(o) : Pending(o, m) => Pending(o, m)'
  PROVE  Tracked(o)'
<1>1. Acts(o) \subseteq Nat /\ Acts(o)' \subseteq Nat /\ Heard(o) \subseteq Nat
      /\ Heard(o)' \subseteq Nat
  BY DEF Times
<1>2. Remembers(o)'
  <2> SUFFICES ASSUME NEW s \in Heard(o)' PROVE \E y \in Acts(o)' : s <= y
    BY DEF Remembers
  <2>1. CASE s \in Heard(o)
    <3>1. PICK x \in Acts(o) : s <= x
      BY <2>1 DEF Tracked, Remembers
    <3>2. PICK y \in Acts(o)' : x <= y
      OBVIOUS
    <3> QED BY <1>1, <3>1, <3>2
  <2> QED BY <2>1
<1>3. ASSUME o \notin closed' PROVE Scheduled(o)' /\ InTime(o)'
  <2>1. Scheduled(o) /\ InTime(o)
    BY <1>3 DEF Tracked
  <2>2. Scheduled(o)'
    <3>1. CASE sweep.pc = "dead"
      BY <1>3, <3>1 DEF Scheduled
    <3>2. ASSUME NEW x \in Acts(o), Covered(o, x) PROVE Scheduled(o)'
      <4>1. PICK y \in Acts(o)' : x <= y
        OBVIOUS
      <4>2. x \in Nat /\ y \in Nat
        BY <1>1
      <4>3. Covered(o, y)
        BY <3>2, <4>1, <4>2, LaterIsCovered
      <4> QED BY <1>3, <4>2, <4>3 DEF Scheduled
    <3> QED BY <2>1, <3>1, <3>2 DEF Scheduled
  <2>3. Settled(o) \subseteq Nat
    BY <1>1 DEF Acts
  <2>4. InTime(o)'
    BY <1>3, <2>1, <2>3 DEF InTime
  <2> QED BY <2>2, <2>4
<1> QED BY <1>2, <1>3 DEF Tracked

(* An order none of whose activities changes. *)
LEMMA Untouched ==
  ASSUME Times, Times', NEW o \in Records, Tracked(o),
         closed \subseteq closed', UNCHANGED clock,
         UNCHANGED <<Settled(o), Tasks(o), Heard(o), Asking(o)>>,
         \A v \in Asking(o) : run'[v] = run[v],
         o \notin closed' =>
           /\ sweep.pc = "dead" => sweep'.pc = "dead"
           /\ \A x \in Nat : Covered(o, x) => Covered(o, x)'
  PROVE  Tracked(o)'
<1>1. \A v \in Asking(o) : Since(v)' = Since(v) /\ (At(v, "querying")' <=> At(v, "querying"))
  BY DEF Since, At
<1>2. Acts(o)' = Acts(o)
  BY <1>1 DEF Acts
<1>3. \A m \in Settled(o) : Pending(o, m) => Pending(o, m)'
  BY <1>1 DEF Pending
<1>4. \A x \in Acts(o) : x <= x
  BY DEF Times
<1> QED BY <1>2, <1>3, <1>4, NothingLost

(* What is asked about an order only depends on the frames of that order. *)
LEMMA OthersAsk ==
  ASSUME NEW v \in Verifiers, \A w \in Verifiers : w # v => run'[w] = run[w],
         NEW o, v \notin Asking(o), v \notin Asking(o)'
  PROVE  Asking(o)' = Asking(o) /\ \A w \in Asking(o) : run'[w] = run[w]
BY DEF Asking, At

LEMMA LearntStays ==
  ASSUME UNCHANGED <<attempts, woken>>
  PROVE  \A o : UNCHANGED <<Observed(o), Learnt(o)>>
BY DEF Observed, Learnt, Rows

(* Nothing is asked or learnt. *)
LEMMA LoopTracks ==
  ASSUME Inv, Inv', \A o \in Records : Tracked(o), closed \subseteq closed',
         UNCHANGED <<gateVars, triggers, backlog, failed, woken>>,
         \A o \in Records : o \notin closed' =>
           /\ sweep.pc = "dead" => sweep'.pc = "dead"
           /\ \A x \in Nat : Covered(o, x) => Covered(o, x)'
  PROVE  \A o \in Records : Tracked(o)'
<1> SUFFICES ASSUME NEW o \in Records PROVE Tracked(o)'
  OBVIOUS
<1>1. Times /\ Times'
  BY TimesHold, TimesHoldNext
<1>2. UNCHANGED <<Settled(o), Tasks(o), Heard(o), Asking(o)>>
  BY LearntStays DEF gateVars, Settled, Tasks, Heard, Asking, At
<1> QED BY <1>1, <1>2, Untouched DEF gateVars

(* And the loop does not move. *)
LEMMA QuietTracks ==
  ASSUME Inv, Inv', \A o \in Records : Tracked(o), closed \subseteq closed',
         UNCHANGED <<gateVars, triggers, backlog, sweep, failed, woken>>
  PROVE  \A o \in Records : Tracked(o)'
<1>1. \A o \in Records : \A x \in Nat : Covered(o, x) => Covered(o, x)'
  BY DEF Covered
<1> QED BY <1>1, LoopTracks

(* A notification that triggers a confirmation is under way with it. *)
LEMMA NotificationTracks ==
  ASSUME TimeInv, Inv', SaveNotification
  PROVE  \A o \in Records : Tracked(o)'
<1> SUFFICES ASSUME NEW o \in Records PROVE Tracked(o)'
  OBVIOUS
<1>1. Times /\ Times' /\ Tracked(o)
  BY TimesHold, TimesHoldNext DEF TimeInv
<1>2. PICK p \in Records : p = receiving.order
  BY WebhookFacts DEF TimeInv, Inv, SaveNotification
<1>3. receiving.at = clock
  BY DEF TimeInv, Punctual, SaveNotification
<1>4. /\ triggers' = [triggers EXCEPT ![p] = @ \union {clock}]
      /\ backlog' = backlog \union {[order |-> p, at |-> clock]}
      /\ UNCHANGED <<attempts, run, clock, sweep, closed, failed, woken>>
  BY <1>2, <1>3 DEF SaveNotification, gateVars
<1>5. UNCHANGED <<Settled(o), Asking(o)>> /\ \A v \in Asking(o) : run'[v] = run[v]
  BY <1>4, LearntStays DEF Settled, Asking, At
<1>6. \A x \in Nat : Covered(o, x) => Covered(o, x)'
  BY <1>4 DEF Covered
<1>7. CASE o # p
  <2>1. triggers'[o] = triggers[o] /\ Observed(o)' = Observed(o)
    BY <1>4, <1>7, LearntStays DEF TimeInv, Inv, TypeOK
  <2>2. UNCHANGED <<Heard(o), Tasks(o)>>
    BY <1>4, <1>7, <2>1 DEF Heard, Tasks
  <2> QED BY <1>1, <1>4, <1>5, <1>6, <2>2, Untouched
<1>8. CASE o = p
  <2>1. Tasks(o)' = Tasks(o) \union {clock}
    <3> DEFINE task == [order |-> p, at |-> clock]
    <3>1. task.order = o /\ task.at = clock
      BY <1>8
    <3>2. backlog' = backlog \union {task}
      BY <1>4
    <3> HIDE DEF task
    <3> QED BY <3>1, <3>2 DEF Tasks
  <2>2. Heard(o)' \subseteq Heard(o) \union {clock}
    <3>1. triggers'[o] = triggers[o] \union {clock}
      BY <1>4, <1>8 DEF TimeInv, Inv, TypeOK
    <3>2. Observed(o)' = Observed(o)
      BY <1>4, LearntStays
    <3> QED BY <3>1, <3>2 DEF Heard
  <2>3. \A v \in Asking(o) : Since(v)' = Since(v) /\ (At(v, "querying")' <=> At(v, "querying"))
    BY <1>4 DEF Since, At
  <2>4. Acts(o)' = Acts(o) \union {clock}
    BY <1>5, <2>1, <2>3 DEF Acts
  <2>5. \A m \in Settled(o) : Pending(o, m) => Pending(o, m)'
    BY <1>4, <1>5, <2>1, <2>3 DEF Pending
  <2>6. /\ \A x \in Acts(o) : x <= x
        /\ clock <= clock
    BY <1>1 DEF Times
  <2>7. /\ \A x \in Acts(o) : \E y \in Acts(o)' : x <= y
        /\ \A s \in Heard(o)' : s \in Heard(o) \/ \E y \in Acts(o)' : s <= y
    BY <2>2, <2>4, <2>6
  <2> QED BY <1>1, <1>4, <1>5, <1>6, <2>5, <2>7, NothingLost
<1> QED BY <1>7, <1>8

(* What the frames of the other verifiers say stays the same. *)
LEMMA OtherFrames ==
  ASSUME NEW v \in Verifiers, \A w \in Verifiers : w # v => run'[w] = run[w],
         UNCHANGED clock
  PROVE  \A o : \A w \in Verifiers \ {v} :
           /\ w \in Asking(o)' <=> w \in Asking(o)
           /\ run'[w] = run[w] /\ Since(w)' = Since(w)
           /\ At(w, "querying")' <=> At(w, "querying")
BY DEF Asking, Since, At

(* A verification that starts is under way from the time it was given. *)
LEMMA StartFacts ==
  ASSUME GateTypeOK, NEW v \in Verifiers, NEW o, NEW now, StartVerify(v, o, now)
  PROVE  /\ \A w \in Verifiers : w # v => run'[w] = run[w]
         /\ UNCHANGED <<attempts, clock>>
         /\ \A p : v \notin Asking(p)
         /\ \A p : v \in Asking(p)' <=> p = o
         /\ Since(v)' = now /\ run'[v].now = now /\ At(v, "querying")'
<1>1. run'[v] = [pc |-> "querying", record |-> o, now |-> now]
  BY DEF StartVerify, GateTypeOK
<1>2. run'[v].pc = "querying" /\ run'[v].record = o /\ run'[v].now = now
  BY <1>1
<1>3. At(v, "idle") /\ UNCHANGED <<attempts, clock>>
      /\ \A w \in Verifiers : w # v => run'[w] = run[w]
  BY DEF StartVerify, GateTypeOK
<1> QED BY <1>2, <1>3 DEF At, Asking, Since

(* A task that a thread takes up goes on as its verification. *)
LEMMA ConfirmTracks ==
  ASSUME TimeInv, Inv', NEW v \in Workers, NEW task \in backlog, Confirm(v, task)
  PROVE  \A o \in Records : Tracked(o)'
<1> SUFFICES ASSUME NEW o \in Records PROVE Tracked(o)'
  OBVIOUS
<1>1. Times /\ Times' /\ Tracked(o) /\ GateTypeOK /\ v \in Verifiers
  BY TimesHold, TimesHoldNext DEF TimeInv, Inv, TypeOK, Workers
<1>2. /\ task.at = clock /\ \A t \in Tasks(o) : t = clock
      /\ clock \in Nat
  BY <1>1 DEF TimeInv, Punctual, Tasks, Times
<1>3. StartVerify(v, task.order, clock)
  BY DEF Confirm
<1>4. /\ backlog' = backlog \ {task}
      /\ UNCHANGED <<triggers, sweep, closed, failed, woken, attempts, clock>>
  BY <1>1, <1>3, StartFacts DEF Confirm
<1>5. UNCHANGED <<Settled(o), Heard(o)>>
  BY <1>4, LearntStays DEF Settled, Heard
<1>6. \A x \in Nat : Covered(o, x) => Covered(o, x)'
  BY <1>4 DEF Covered
<1>7. CASE o # task.order
  <2>1. Asking(o)' = Asking(o) /\ \A w \in Asking(o) : run'[w] = run[w]
    BY <1>1, <1>3, <1>7, StartFacts, OthersAsk
  <2>2. Tasks(o)' = Tasks(o)
    BY <1>4, <1>7 DEF Tasks
  <2> QED BY <1>1, <1>4, <1>5, <1>6, <2>1, <2>2, Untouched
<1>8. CASE o = task.order
  <2>1. /\ v \in Asking(o)' /\ v \notin Asking(o)
        /\ Since(v)' = clock /\ run'[v].now = clock
    BY <1>1, <1>3, <1>8, StartFacts
  <2>2. \A w \in Asking(o) :
          /\ w \in Asking(o)' /\ Since(w)' = Since(w) /\ run'[w] = run[w]
          /\ At(w, "querying")' <=> At(w, "querying")
    BY <1>1, <1>3, <1>4, <2>1, StartFacts, OtherFrames DEF Asking
  <2>3. \A x \in Acts(o) : x \in Acts(o)'
    BY <1>2, <1>5, <2>1, <2>2 DEF Acts
  <2>4. \A x \in Acts(o) : x <= x
    BY <1>1 DEF Times
  <2>5. ASSUME NEW m \in Settled(o), Pending(o, m) PROVE Pending(o, m)'
    <3>1. m \in Nat
      BY <1>1 DEF Times, Acts
    <3>2. CASE \E t \in Tasks(o) : t < m + Cycle + Patience
      <4>1. clock < m + Cycle + Patience
        BY <1>2, <3>2
      <4>2. clock < m + LatestAnswer
        BY <1>2, <3>1, <4>1, TimeConstants
      <4> QED BY <1>4, <2>1, <4>1, <4>2 DEF Pending
    <3>3. CASE \E w \in Asking(o) :
                 /\ clock < m + LatestAnswer
                 /\ At(w, "querying") => run[w].now < m + Cycle + Patience
      BY <1>4, <2>2, <3>3 DEF Pending
    <3> QED BY <2>5, <3>2, <3>3 DEF Pending
  <2> QED BY <1>1, <1>4, <1>5, <1>6, <2>3, <2>4, <2>5, NothingLost
<1> QED BY <1>7, <1>8

Thinks(v) == QueryAnswered(v) \/ QueryFails(v) \/ Judge(v) \/ Apply(v)

(* A verification goes on until it has a row to store; what it has seen is no
   older than the time it was given. *)
LEMMA ThinkFacts ==
  ASSUME Inv, Punctual, NEW v \in Verifiers, Thinks(v)
  PROVE  /\ \A w \in Verifiers : w # v => run'[w] = run[w]
         /\ UNCHANGED <<attempts, clock>>
         /\ \A o : v \in Asking(o)' <=> v \in Asking(o)
         /\ ~ At(v, "querying")' /\ ~ At(v, "idle") /\ ~ At(v, "returned")'
         /\ Since(v) <= Since(v)' /\ FramePunctual(v)'
<1>1. /\ run \in [Verifiers -> Frame] /\ clock \in Nat
      /\ Times /\ FramePunctual(v)
  BY TimesHold, WebhookFacts DEF Inv, TypeOK, GateTypeOK, Punctual
<1>2. /\ UNCHANGED <<attempts, clock>>
      /\ \A w \in Verifiers : w # v => run'[w] = run[w]
  BY <1>1 DEF Thinks, QueryAnswered, QueryFails, Judge, Apply
<1>3. /\ run'[v].record = run[v].record
      /\ run'[v].pc \in {"judging", "applying", "saving"}
      /\ run[v].pc \in {"querying", "judging", "applying"}
      /\ \/ At(v, "querying") /\ run'[v].observed \in {clock, run[v].now}
         \/ ~ At(v, "querying") /\ run'[v].observed = run[v].observed
      /\ run'[v].pc = "saving" /\ run'[v].outcome \in Conclusive => At(v, "applying")
      /\ run'[v].pc # "saving" /\ At(v, "querying") => run'[v].observed = clock
  <2>1. CASE QueryAnswered(v)
    <3>1. PICK result \in Results :
            run'[v] =
              CASE result \in Conclusive ->
                     Concluded(run[v].record, clock, result, result)
                [] result = "INCONCLUSIVE" ->
                     Unresolved(run[v].record, clock, result)
                [] result = "NOT_FOUND" ->
                     [pc |-> "judging", record |-> run[v].record,
                      now |-> run[v].now, observed |-> clock]
      BY <1>1, <2>1 DEF QueryAnswered
    <3>2. /\ result \in Conclusive \/ result = "INCONCLUSIVE" \/ result = "NOT_FOUND"
      BY GateAssumption DEF ConditionResults, Conclusive
    <3>3. At(v, "querying")
      BY <2>1 DEF QueryAnswered
    <3>4. CASE result \in Conclusive
      <4>1. run'[v] = Concluded(run[v].record, clock, result, result)
        BY <3>1, <3>4 DEF Conclusive
      <4> QED BY <3>3, <4>1 DEF Concluded, At, Conclusive
    <3>5. CASE result = "INCONCLUSIVE"
      <4>1. run'[v] = Unresolved(run[v].record, clock, result)
        BY <3>1, <3>5 DEF Conclusive
      <4> QED BY <3>3, <4>1 DEF Unresolved, At, Conclusive
    <3>6. CASE result = "NOT_FOUND"
      <4>1. run'[v] = [pc |-> "judging", record |-> run[v].record,
                       now |-> run[v].now, observed |-> clock]
        BY <3>1, <3>6 DEF Conclusive
      <4> QED BY <3>3, <4>1 DEF At
    <3> QED BY <3>2, <3>4, <3>5, <3>6
  <2>2. CASE QueryFails(v)
    <3>1. run'[v] = Unresolved(run[v].record, run[v].now, "INCONCLUSIVE")
      BY <1>1, <2>2 DEF QueryFails
    <3> QED BY <2>2, <3>1 DEF Unresolved, QueryFails, At, Conclusive
  <2>3. CASE Judge(v)
    <3>1. run'[v] \in {Concluded(run[v].record, run[v].observed, "NOT_FOUND", "FAILURE"),
                       Unresolved(run[v].record, run[v].observed, "NOT_FOUND")}
      BY <1>1, <2>3 DEF Judge
    <3> QED BY <2>3, <3>1 DEF Concluded, Unresolved, Judge, At, Conclusive
  <2>4. CASE Apply(v)
    <3>1. run'[v] = [pc |-> "saving", record |-> run[v].record,
                     observed |-> run[v].observed, result |-> run[v].result,
                     outcome |-> run[v].outcome,
                     apply |-> ShouldApply(run[v].record, run[v].observed)]
      BY <1>1, <2>4 DEF Apply
    <3> QED BY <2>4, <3>1 DEF Apply, At
  <2> QED BY <2>1, <2>2, <2>3, <2>4 DEF Thinks
<1>4. Since(v) <= Since(v)'
  <2>1. Since(v) \in Nat /\ Since(v)' = run'[v].observed
    BY <1>1, <1>3 DEF Times, Since, At
  <2>2. CASE At(v, "querying")
    <3>1. Since(v) = run[v].now /\ run[v].now <= clock
      BY <1>1, <2>2 DEF FramePunctual, Since
    <3> QED BY <1>1, <1>3, <2>1, <2>2, <3>1
  <2>3. CASE ~ At(v, "querying")
    <3>1. Since(v) = run[v].observed
      BY <1>3, <2>3 DEF Since, At
    <3> QED BY <1>3, <2>1, <2>3, <3>1
  <2> QED BY <2>2, <2>3
<1>5. FramePunctual(v)'
  <2>1. FramePunctual(v) /\ UNCHANGED clock /\ clock \in Nat /\ Patience \in Nat
    BY <1>1, <1>2, TimeConstants
  <2>2. At(v, "querying") => run[v].now \in Nat
    BY <1>1 DEF Times
  <2>3. CASE At(v, "querying")
    BY <1>3, <2>1, <2>2, <2>3 DEF FramePunctual, At
  <2>4. CASE At(v, "judging") \/ At(v, "applying")
    BY <1>3, <2>1, <2>4 DEF FramePunctual, At
  <2> QED BY <1>3, <2>3, <2>4 DEF At
<1> QED BY <1>2, <1>3, <1>4, <1>5 DEF Asking, At

LEMMA ThinkTracks ==
  ASSUME TimeInv, Inv', NEW v \in Verifiers, Thinks(v), UNCHANGED webhookVars
  PROVE  \A o \in Records : Tracked(o)'
<1> SUFFICES ASSUME NEW o \in Records PROVE Tracked(o)'
  OBVIOUS
<1>1. Times /\ Times' /\ Tracked(o)
  BY TimesHold, TimesHoldNext DEF TimeInv
<1>2. /\ UNCHANGED <<attempts, clock, triggers, backlog, sweep, closed, failed, woken>>
      /\ \A p : v \in Asking(p)' <=> v \in Asking(p)
      /\ ~ At(v, "querying")' /\ Since(v) <= Since(v)'
      /\ \A w \in Verifiers : w # v => run'[w] = run[w]
  BY ThinkFacts DEF TimeInv, webhookVars
<1>3. UNCHANGED <<Settled(o), Tasks(o), Heard(o)>>
  BY <1>2, LearntStays DEF Settled, Tasks, Heard
<1>4. \A w \in Verifiers \ {v} :
        /\ w \in Asking(o)' <=> w \in Asking(o)
        /\ run'[w] = run[w] /\ Since(w)' = Since(w)
        /\ At(w, "querying")' <=> At(w, "querying")
  BY <1>2, OtherFrames
<1>5. Asking(o) \subseteq Verifiers /\ Asking(o)' = Asking(o)
  BY <1>2, <1>4 DEF Asking
<1>6. \A x \in Acts(o) : x <= x
  BY <1>1 DEF Times
<1>7. ASSUME NEW x \in Acts(o) PROVE \E y \in Acts(o)' : x <= y
  <2>1. CASE x \in Settled(o) \union Tasks(o)
    BY <1>3, <1>6, <2>1 DEF Acts
  <2>2. ASSUME NEW w \in Asking(o), x = Since(w) PROVE \E y \in Acts(o)' : x <= y
    <3>1. Since(w)' \in Acts(o)'
      BY <1>5, <2>2 DEF Acts
    <3>2. x <= Since(w)'
      BY <1>2, <1>4, <1>5, <1>6, <2>2
    <3> QED BY <3>1, <3>2
  <2> QED BY <2>1, <2>2 DEF Acts
<1>8. \A m \in Settled(o) : Pending(o, m) => Pending(o, m)'
  BY <1>2, <1>3, <1>4, <1>5 DEF Pending
<1>9. \A x \in Nat : Covered(o, x) => Covered(o, x)'
  BY <1>2 DEF Covered
<1> QED BY <1>1, <1>2, <1>3, <1>7, <1>8, <1>9, NothingLost

(* A row that is stored tells when its order was seen, and is settled by it
   unless it has news to pass on. *)
LEMMA RowSeen ==
  ASSUME Inv, NEW v \in Verifiers, SaveAttempt(v), UNCHANGED webhookVars
  PROVE  /\ \A w \in Verifiers : w # v => run'[w] = run[w]
         /\ Since(v) = run[v].observed /\ ~ At(v, "querying")
         /\ run[v].outcome = "UNRESOLVED" => \A o : v \notin Asking(o)'
         /\ run[v].outcome # "UNRESOLVED" =>
              /\ \A o : v \in Asking(o)' <=> v \in Asking(o)
              /\ Since(v)' = clock' /\ ~ At(v, "querying")'
         /\ \A o \in Records :
              /\ v \in Asking(o) <=> o = run[v].record
              /\ o # run[v].record => UNCHANGED <<Observed(o), Learnt(o)>>
              /\ o = run[v].record =>
                   /\ Observed(o)' = Observed(o) \union {run[v].observed}
                   /\ Learnt(o)' = Learnt(o) \union
                        (IF run[v].outcome = "UNRESOLVED" THEN {run[v].observed}
                         ELSE {})
<1>1. /\ GateTypeOK /\ run \in [Verifiers -> Frame] /\ At(v, "saving")
  BY DEF Inv, TypeOK, GateTypeOK, SaveAttempt
<1>2. \A w \in Verifiers : w # v => run'[w] = run[w]
  BY <1>1 DEF SaveAttempt
<1>3. run'[v] = [pc |-> "returned", record |-> run[v].record, outcome |-> run[v].outcome]
  BY <1>1 DEF SaveAttempt
<1>4. run'[v].pc = "returned" /\ run'[v].record = run[v].record
      /\ run'[v].outcome = run[v].outcome
  BY <1>3
<1>5. \A o \in Records : o # run[v].record => UNCHANGED <<Observed(o), Learnt(o)>>
  <2>1. \A o \in Records : o # run[v].record => attempts'[o] = attempts[o]
    BY <1>1, SaveFacts
  <2> QED BY <2>1 DEF Observed, Learnt, Rows, webhookVars
<1>6. ASSUME NEW o \in Records, o = run[v].record
      PROVE  /\ Observed(o)' = Observed(o) \union {run[v].observed}
             /\ Learnt(o)' = Learnt(o) \union
                  (IF run[v].outcome = "UNRESOLVED" THEN {run[v].observed} ELSE {})
  <2> DEFINE n == Len(attempts[o])
             a == [observed |-> run[v].observed, result |-> run[v].result,
                   outcome |-> run[v].outcome, applied |-> run[v].apply]
  <2>1. /\ n \in Nat /\ Len(attempts'[o]) = n + 1
        /\ \A i \in 1..n : attempts'[o][i] = attempts[o][i]
        /\ attempts'[o][n + 1] = a
    BY <1>1, <1>6, SaveFacts
  <2>2. a.observed = run[v].observed /\ a.outcome = run[v].outcome
    OBVIOUS
  <2> HIDE DEF a
  <2>3. Rows(o) = 1..n /\ Rows(o)' = 1..n \union {n + 1} /\ n + 1 \notin 1..n
    BY <2>1 DEF Rows
  <2> HIDE DEF n
  <2>4. Observed(o)' = Observed(o) \union {run[v].observed}
    BY <2>1, <2>2, <2>3 DEF Observed
  <2>5. Learnt(o)' = Learnt(o) \union
          (IF run[v].outcome = "UNRESOLVED" THEN {run[v].observed} ELSE {})
    <3> DEFINE Open(rows, list) == {i \in rows : list[i].outcome = "UNRESOLVED"}
    <3>1. Open(Rows(o), attempts[o])
            = {i \in 1..n : attempts[o][i].outcome = "UNRESOLVED"}
      BY <2>3
    <3>2. Open(Rows(o)', attempts'[o])
            = Open(Rows(o), attempts[o]) \union
                (IF run[v].outcome = "UNRESOLVED" THEN {n + 1} ELSE {})
      BY <2>1, <2>2, <2>3
    <3>3. {attempts'[o][i].observed : i \in Open(Rows(o)', attempts'[o])}
            = {attempts[o][i].observed : i \in Open(Rows(o), attempts[o])} \union
                (IF run[v].outcome = "UNRESOLVED" THEN {run[v].observed} ELSE {})
      BY <2>1, <2>2, <2>3, <3>1, <3>2
    <3>4. woken' = woken
      BY DEF webhookVars
    <3> QED BY <3>3, <3>4 DEF Learnt
  <2> QED BY <2>4, <2>5
<1>7. /\ Since(v) = run[v].observed /\ ~ At(v, "querying")
      /\ run[v].outcome = "UNRESOLVED" => \A o : v \notin Asking(o)'
      /\ run[v].outcome # "UNRESOLVED" =>
           /\ \A o : v \in Asking(o)' <=> v \in Asking(o)
           /\ Since(v)' = clock' /\ ~ At(v, "querying")'
      /\ \A o \in Records : v \in Asking(o) <=> o = run[v].record
  BY <1>1, <1>4 DEF At, Asking, Since
<1> QED BY <1>2, <1>5, <1>6, <1>7

(* An attempt without a conclusion settles its order; the sweeps that go by it
   are due within a cycle of the time it carries. *)
LEMMA RowTracks ==
  ASSUME TimeInv, Inv', NEW v \in Verifiers, SaveAttempt(v), UNCHANGED webhookVars
  PROVE  \A o \in Records : Tracked(o)'
<1> SUFFICES ASSUME NEW o \in Records PROVE Tracked(o)'
  OBVIOUS
<1>1. /\ Times /\ Times' /\ Tracked(o) /\ Inv /\ Punctual
      /\ UNCHANGED <<clock, triggers, backlog, sweep, closed, failed, woken>>
  BY TimesHold, TimesHoldNext DEF TimeInv, webhookVars, SaveAttempt
<1>2. \A w \in Verifiers : w # v => run'[w] = run[w]
  BY <1>1, RowSeen
<1>3. \A w \in Verifiers \ {v} :
        /\ w \in Asking(o)' <=> w \in Asking(o)
        /\ run'[w] = run[w] /\ Since(w)' = Since(w)
        /\ At(w, "querying")' <=> At(w, "querying")
  BY <1>1, <1>2, OtherFrames
<1>4. /\ Tasks(o)' = Tasks(o)
      /\ \A x \in Nat : Covered(o, x) => Covered(o, x)'
  BY <1>1 DEF Tasks, Covered
<1>5. PICK u \in Nat : u = run[v].observed /\ u <= clock /\ clock <= u + Patience
  BY <1>1, FrameFacts DEF Punctual, FramePunctual, SaveAttempt, At, Inv, TypeOK, Time, Times
<1>6. \A x \in Acts(o) : x <= x
  BY <1>1 DEF Times
<1>7. CASE o # run[v].record
  <2>1. v \notin Asking(o) /\ v \notin Asking(o)'
        /\ UNCHANGED <<Observed(o), Learnt(o)>>
    BY <1>1, <1>7, RowSeen
  <2>2. Asking(o)' = Asking(o) /\ \A w \in Asking(o) : run'[w] = run[w]
    BY <1>2, <2>1, OthersAsk
  <2>3. UNCHANGED <<Settled(o), Heard(o)>>
    BY <1>1, <2>1 DEF Settled, Heard
  <2> QED BY <1>1, <1>4, <2>2, <2>3, Untouched
<1>8. ASSUME o = run[v].record
      PROVE  /\ v \in Asking(o) /\ Since(v) = u
             /\ Heard(o)' = Heard(o) \union {u}
  BY <1>1, <1>5, <1>8, RowSeen DEF Heard
<1>9. CASE o = run[v].record /\ run[v].outcome # "UNRESOLVED"
  <2>1. /\ Settled(o)' = Settled(o) /\ v \in Asking(o)'
        /\ Since(v)' = clock /\ ~ At(v, "querying")'
    BY <1>1, <1>8, <1>9, RowSeen DEF Settled
  <2>2. Asking(o) \subseteq Asking(o)'
    BY <1>3, <2>1 DEF Asking
  <2>3. \A s \in Heard(o)' : s \in Heard(o) \/ \E y \in Acts(o)' : s <= y
    <3>1. clock \in Acts(o)'
      BY <2>1 DEF Acts
    <3> QED BY <1>5, <1>8, <1>9, <3>1
  <2>4. ASSUME NEW x \in Acts(o) PROVE \E y \in Acts(o)' : x <= y
    <3>1. CASE x \in Settled(o) \union Tasks(o)
      BY <1>4, <1>6, <2>1, <3>1 DEF Acts
    <3>2. ASSUME NEW w \in Asking(o), x = Since(w) PROVE \E y \in Acts(o)' : x <= y
      <4>1. Since(w)' \in Acts(o)'
        BY <2>2, <3>2 DEF Acts
      <4>2. w \in Verifiers
        BY DEF Asking
      <4>3. x <= Since(w)'
        BY <1>3, <1>5, <1>6, <1>8, <1>9, <2>1, <3>2, <4>2
      <4> QED BY <4>1, <4>3
    <3> QED BY <3>1, <3>2 DEF Acts
  <2>5. \A m \in Settled(o) : Pending(o, m) => Pending(o, m)'
    BY <1>1, <1>3, <1>4, <2>1, <2>2 DEF Pending, Asking
  <2> QED BY <1>1, <1>4, <2>1, <2>3, <2>4, <2>5, NothingLost
<1>10. CASE o = run[v].record /\ run[v].outcome = "UNRESOLVED"
  <2>1. Settled(o)' = Settled(o) \union {u} /\ v \notin Asking(o)'
    BY <1>1, <1>5, <1>10, RowSeen DEF Settled
  <2>2. Asking(o)' = Asking(o) \ {v}
    BY <1>3, <2>1 DEF Asking
  <2>3. \A w \in Asking(o)' : Since(w)' = Since(w)
    BY <1>3, <2>2 DEF Asking
  <2>4. Acts(o) \subseteq Acts(o)' /\ u \in Acts(o)'
    BY <1>4, <1>8, <1>10, <2>1, <2>2, <2>3 DEF Acts
  <2>5. Remembers(o)'
    <3>1. \A s \in Heard(o)' : s \in Heard(o) \/ s = u
      BY <1>8, <1>10
    <3> QED BY <1>1, <1>5, <2>4, <3>1 DEF Tracked, Remembers
  <2> SUFFICES ASSUME o \notin closed', sweep'.pc # "dead"
               PROVE  Scheduled(o)' /\ InTime(o)'
    BY <2>5 DEF Tracked, Scheduled, InTime
  <2>6. PICK y \in Acts(o)' : Covered(o, y)'
    <3>1. PICK x \in Acts(o) : Covered(o, x)
      BY <1>1 DEF Tracked, Scheduled
    <3> QED BY <1>1, <1>4, <2>4, <3>1 DEF Times
  <2>7. CASE y \in Settled(o)'
    BY <2>6, <2>7 DEF InTime, Scheduled
  <2>8. CASE y \notin Settled(o)'
    <3>1. clock' < u + Cycle + Patience /\ clock' < u + LatestAnswer
      BY <1>1, <1>5, TimeConstants DEF Times
    <3>2. CASE y \in Tasks(o)'
      <4>1. y = clock'
        BY <1>1, <1>4, <3>2 DEF Punctual, Tasks
      <4>2. Pending(o, u)'
        BY <3>1, <3>2, <4>1 DEF Pending
      <4> QED BY <2>1, <2>6, <4>2 DEF InTime, Scheduled
    <3>3. ASSUME NEW w \in Asking(o)' PROVE Pending(o, u)'
      <4>1. w \in Verifiers /\ w # v
        BY <2>2 DEF Asking
      <4>2. ASSUME At(w, "querying")' PROVE run'[w].now < u + Cycle + Patience
        <5>1. At(w, "querying") /\ run'[w] = run[w]
          BY <1>3, <4>1, <4>2
        <5>2. run[w].now <= clock /\ run[w].now \in Nat
          BY <1>1, <4>1, <5>1 DEF Punctual, FramePunctual, Times
        <5> QED BY <1>1, <1>5, <3>1, <5>1, <5>2, TimeConstants DEF Times
      <4> QED BY <3>1, <4>2 DEF Pending
    <3> QED BY <2>1, <2>6, <2>8, <3>2, <3>3 DEF Acts, InTime, Scheduled
  <2> QED BY <2>7, <2>8
<1> QED BY <1>7, <1>9, <1>10

(* Every exception and every restart is a fresh start. *)
LEMMA LossTracks ==
  ASSUME Inv', Punctual', UNCHANGED clock, Fault
  PROVE  \A o \in Records : Tracked(o)'
<1>1. \A o \in Records : clock' \in Settled(o)'
  BY DEF Fault, Settled
<1> QED BY <1>1, SettledNow

(* A conclusion is passed on, and an attempt without one was settled before. *)
LEMMA WakeTracks ==
  ASSUME TimeInv, Inv', Punctual', NEW v \in Verifiers, Wake(v)
  PROVE  \A o \in Records : Tracked(o)'
<1> SUFFICES ASSUME NEW o \in Records PROVE Tracked(o)'
  OBVIOUS
<1>1. /\ Times /\ Times' /\ Tracked(o)
      /\ run \in [Verifiers -> Frame] /\ woken \in [Records -> SUBSET Time]
  BY TimesHold, TimesHoldNext DEF TimeInv, Inv, TypeOK, GateTypeOK
<1>2. /\ At(v, "returned") /\ run[v].outcome \in Outcomes /\ run'[v] = Idle
      /\ \A w \in Verifiers : w # v => run'[w] = run[w]
      /\ UNCHANGED <<attempts, clock, triggers, backlog, sweep, closed, failed>>
  BY <1>1 DEF Wake, Return, At, Frame
<1>3. At(v, "idle")'
  BY <1>2 DEF At, Idle
<1>4. CASE o = run[v].record /\ run[v].outcome \in Conclusive
  <2>1. woken'[o] = {clock}
    BY <1>1, <1>2, <1>4 DEF Wake, Wakes
  <2>2. clock' \in Settled(o)'
    BY <1>2, <2>1 DEF Settled, Learnt
  <2> QED BY <2>2, SettledNow
<1>5. CASE ~ (o = run[v].record /\ run[v].outcome \in Conclusive)
  <2>1. woken'[o] = woken[o]
    BY <1>1, <1>2, <1>5 DEF Wake, Wakes
  <2>2. v \notin Asking(o) /\ v \notin Asking(o)'
    BY <1>2, <1>3, <1>5 DEF Asking, Outcomes, Conclusive
  <2>3. Asking(o)' = Asking(o) /\ \A w \in Asking(o) : run'[w] = run[w]
    BY <1>2, <2>2, OthersAsk
  <2>4. UNCHANGED <<Settled(o), Heard(o), Tasks(o)>>
    BY <1>2, <2>1 DEF Settled, Learnt, Heard, Observed, Rows, Tasks
  <2>5. \A x \in Nat : Covered(o, x) => Covered(o, x)'
    BY <1>2 DEF Covered
  <2> QED BY <1>1, <1>2, <2>3, <2>4, <2>5, Untouched
<1> QED BY <1>4, <1>5

(* A sweep begins when it is due, and looks at every order of an active journey. *)
LEMMA BeginTracks ==
  ASSUME TimeInv, Inv', BeginSweep
  PROVE  \A o \in Records : Tracked(o)'
<1>1. /\ Times /\ Inv /\ sweep.pc = "asleep" /\ sweep.due = clock
      /\ UNCHANGED <<gateVars, triggers, backlog, closed, failed, woken>>
  BY TimesHold DEF TimeInv, Punctual, SweepPunctual, BeginSweep, Times
<1>2. /\ sweep' = [pc |-> "sweeping", todo |-> Records \ closed, now |-> clock]
  BY DEF BeginSweep
<1>3. sweep'.pc = "sweeping" /\ sweep'.todo = Records \ closed /\ sweep'.now = clock
  BY <1>2
<1>4. \A o \in Records : o \notin closed' =>
        \A x \in Nat : Covered(o, x) => Covered(o, x)'
  BY <1>1, <1>3 DEF Covered
<1> QED BY <1>1, <1>4, LoopTracks DEF TimeInv

(* A sweep lasts no longer than Patience, and the sleep after it an interval. *)
LEMMA EndTracks ==
  ASSUME TimeInv, Inv', EndSweep
  PROVE  \A o \in Records : Tracked(o)'
<1>1. /\ Times /\ Inv /\ sweep.pc = "sweeping" /\ sweep.todo = {}
      /\ clock <= sweep.now + Patience
      /\ UNCHANGED <<gateVars, triggers, backlog, closed, failed, woken>>
  BY TimesHold DEF TimeInv, Punctual, SweepPunctual, EndSweep
<1>2. sweep'.pc = "asleep" /\ sweep'.due = clock + Interval
  BY DEF EndSweep
<1>3. \A o \in Records : \A x \in Nat : Covered(o, x) => Covered(o, x)'
  BY <1>1, <1>2, TimeConstants DEF Covered, Times
<1> QED BY <1>1, <1>3, LoopTracks DEF TimeInv

(* Time passes only while Atlas is asked, and every answer is waited for no
   longer than Patience. *)
LEMMA PassTracks ==
  ASSUME TimeInv, Inv', TimePasses
  PROVE  \A o \in Records : Tracked(o)'
<1> SUFFICES ASSUME NEW o \in Records PROVE Tracked(o)'
  OBVIOUS
<1> DEFINE Waits(v) == At(v, "querying") /\ clock < run[v].now + Patience
<1>1. /\ clock' = clock + 1 /\ backlog = {}
      /\ \A v \in Verifiers : At(v, "idle") \/ Waits(v)
      /\ UNCHANGED <<attempts, run, triggers, backlog, sweep, closed, failed, woken>>
  <2>1. backlog = {} /\ \A v \in Verifiers : At(v, "idle") \/ Waits(v)
    BY DEF TimePasses
  <2>2. Tick /\ UNCHANGED webhookVars
    BY DEF TimePasses
  <2> QED BY <2>1, <2>2 DEF Tick, webhookVars
<1> Times /\ Times' /\ Tracked(o)
  BY TimesHold, TimesHoldNext DEF TimeInv
<1>2. UNCHANGED <<Settled(o), Tasks(o), Heard(o), Asking(o)>>
  BY <1>1, LearntStays DEF Settled, Tasks, Heard, Asking, At
<1>3. \A v \in Asking(o) : At(v, "querying") /\ At(v, "querying")' /\ Since(v)' = Since(v)
  BY <1>1 DEF Asking, Since, At
<1>4. Acts(o)' = Acts(o) /\ \A x \in Acts(o) : x <= x
  BY <1>1, <1>2, <1>3 DEF Acts, Times
<1>5. ASSUME NEW m \in Settled(o), Pending(o, m) PROVE Pending(o, m)'
  <2>1. PICK v \in Asking(o) : run[v].now < m + Cycle + Patience
    BY <1>1, <1>3, <1>5 DEF Pending, Tasks
  <2>2. /\ run[v].now \in Nat /\ clock \in Nat /\ m \in Nat
        /\ clock < run[v].now + Patience
    BY <1>1, <1>3 DEF Times, Acts, Asking, At
  <2>3. clock' < m + LatestAnswer
    BY <1>1, <2>1, <2>2, TimeConstants
  <2> QED BY <1>1, <1>2, <2>1, <2>3 DEF Pending
<1>6. \A x \in Nat : Covered(o, x) => Covered(o, x)'
  BY <1>1 DEF Covered
<1> QED BY <1>1, <1>2, <1>4, <1>5, <1>6, NothingLost

(* An order that a sweep holds back for was active less than a window before the
   sweep began; one that it asks about is active from there. *)
LEMMA OrderTracks ==
  ASSUME TimeInv, Inv', NEW p \in Records, SweepOrder(p)
  PROVE  \A o \in Records : Tracked(o)'
<1> SUFFICES ASSUME NEW o \in Records PROVE Tracked(o)'
  OBVIOUS
<1>1. /\ Times /\ Times' /\ Tracked(o) /\ GateTypeOK /\ Punctual
      /\ sweep.pc = "sweeping" /\ p \in sweep.todo
      /\ sweep.now <= clock /\ clock <= sweep.now + Patience
      /\ UNCHANGED <<triggers, backlog, closed, failed, woken>>
  BY TimesHold, TimesHoldNext
  DEF TimeInv, Inv, TypeOK, Punctual, SweepPunctual, SweepOrder
<1>2. sweep'.pc = "sweeping" /\ sweep'.now = sweep.now /\ sweep'.todo = sweep.todo \ {p}
  BY <1>1 DEF TimeInv, Inv, TypeOK, Sweep, SweepOrder
<1>3. PICK now \in Nat : now = sweep.now
  BY <1>1 DEF Times
<1>4. \/ UNCHANGED gateVars /\ WithinWindow(p, now)
      \/ StartVerify(Sweeper, p, now)
  BY <1>3 DEF SweepOrder
<1>5. UNCHANGED <<attempts, clock>>
  BY <1>4 DEF gateVars, StartVerify
<1>6. UNCHANGED <<Settled(o), Heard(o), Tasks(o)>>
  BY <1>1, <1>5, LearntStays DEF Settled, Heard, Tasks
<1>7. \A x : Covered(o, x)' <=> now < x + (IF o \in sweep.todo \ {p} THEN Cycle ELSE Window)
  BY <1>2, <1>3 DEF Covered
<1>8. CASE o # p
  <2>1. \A x \in Nat : Covered(o, x) => Covered(o, x)'
    BY <1>1, <1>3, <1>7, <1>8 DEF Covered
  <2>2. Asking(o)' = Asking(o) /\ \A w \in Asking(o) : run'[w] = run[w]
    <3>1. CASE UNCHANGED gateVars
      BY <3>1 DEF gateVars, Asking, At
    <3>2. CASE StartVerify(Sweeper, p, now)
      BY <1>1, <1>8, <3>2, StartFacts, OthersAsk, WebhookAssumption
    <3> QED BY <1>4, <3>1, <3>2
  <2> QED BY <1>1, <1>2, <1>5, <1>6, <2>1, <2>2, Untouched
<1>9. CASE o = p
  <2>1. \A x \in Nat : Covered(o, x) => clock < x + Cycle + Patience
    BY <1>1, <1>9, TimeConstants DEF Covered, Times
  <2>2. \A w \in Verifiers : At(w, "querying") => run[w].now \in Nat /\ run[w].now <= clock
    BY <1>1 DEF Times, Punctual, FramePunctual
  <2>3. Settled(o) \subseteq Acts(o) /\ Acts(o) \subseteq Nat /\ clock \in Nat
    BY <1>1 DEF Acts, Times
  <2>4. CASE UNCHANGED gateVars /\ WithinWindow(p, now)
    <3>1. Asking(o)' = Asking(o) /\ Acts(o)' = Acts(o)
      BY <1>6, <2>4 DEF gateVars, Acts, Asking, Since, At
    <3>2. Remembers(o)'
      BY <1>1, <1>6, <3>1 DEF Tracked, Remembers
    <3>3. PICK x \in Acts(o) : now < x + Window
      <4>1. PICK s \in Heard(o) : now - s < Window
        BY <1>9, <2>4 DEF WithinWindow, Heard
      <4>2. PICK x \in Acts(o) : s <= x
        BY <1>1 DEF Tracked, Remembers
      <4>3. s \in Nat /\ x \in Nat
        BY <1>1 DEF Times
      <4> QED BY <1>3, <4>1, <4>2, <4>3, TimeConstants
    <3>4. Covered(o, x)'
      BY <1>7, <1>9, <3>3
    <3>5. Scheduled(o)'
      BY <3>1, <3>3, <3>4 DEF Scheduled
    <3>6. ASSUME o \notin closed PROVE InTime(o)'
      <4>1. CASE x \in Settled(o)
        BY <1>6, <3>4, <4>1 DEF InTime
      <4>2. CASE x \notin Settled(o)
        <5>1. PICK m \in Settled(o) : Covered(o, m) \/ Pending(o, m)
          BY <1>1, <3>6 DEF Tracked, InTime
        <5>2. CASE Pending(o, m)
          <6>1. Pending(o, m)'
            BY <1>5, <1>6, <2>4, <3>1, <5>2 DEF Pending, At, gateVars
          <6> QED BY <1>6, <5>1, <6>1 DEF InTime
        <5>3. CASE Covered(o, m)
          <6>1. m \in Nat /\ clock < m + Cycle + Patience /\ clock < m + LatestAnswer
            BY <2>1, <2>3, <5>1, <5>3, TimeConstants
          <6>2. CASE x \in Tasks(o)
            <7>1. x = clock
              BY <1>1, <6>2 DEF Punctual, Tasks
            <7>2. Pending(o, m)'
              BY <1>6, <6>1, <6>2, <7>1 DEF Pending
            <7> QED BY <1>6, <5>1, <7>2 DEF InTime
          <6>3. ASSUME NEW w \in Asking(o) PROVE Pending(o, m)'
            <7>1. At(w, "querying") => run[w].now < m + Cycle + Patience
              BY <2>2, <2>3, <6>1, TimeConstants DEF Asking
            <7> QED BY <1>5, <2>4, <3>1, <6>1, <7>1 DEF Pending, At, gateVars
          <6> QED BY <1>6, <3>3, <4>2, <5>1, <6>2, <6>3 DEF Acts, InTime
        <5> QED BY <5>1, <5>2, <5>3
      <4> QED BY <4>1, <4>2
    <3> QED BY <1>1, <3>2, <3>5, <3>6 DEF Tracked
  <2>5. CASE StartVerify(Sweeper, p, now)
    <3>1. /\ Sweeper \in Verifiers /\ Sweeper \notin Asking(o) /\ Sweeper \in Asking(o)'
          /\ Since(Sweeper)' = now /\ run'[Sweeper].now = now
      BY <1>1, <1>9, <2>5, StartFacts, WebhookAssumption
    <3>2. \A w \in Asking(o) :
            /\ w \in Asking(o)' /\ Since(w)' = Since(w) /\ run'[w] = run[w]
            /\ At(w, "querying")' <=> At(w, "querying")
      BY <1>1, <1>5, <2>5, <3>1, StartFacts, OtherFrames DEF Asking
    <3>3. Acts(o) \subseteq Acts(o)' /\ now \in Acts(o)'
      BY <1>6, <3>1, <3>2 DEF Acts
    <3>4. Remembers(o)'
      BY <1>1, <1>6, <3>3 DEF Tracked, Remembers
    <3>5. Scheduled(o)'
      <4>1. Covered(o, now)'
        BY <1>3, <1>7, <1>9, TimeConstants
      <4> QED BY <3>3, <4>1 DEF Scheduled
    <3>6. ASSUME o \notin closed PROVE InTime(o)'
      <4>1. PICK m \in Settled(o) : Covered(o, m) \/ Pending(o, m)
        BY <1>1, <3>6 DEF Tracked, InTime
      <4>2. CASE Covered(o, m)
        <5>1. m \in Nat /\ clock < m + Cycle + Patience /\ clock < m + LatestAnswer
          BY <2>1, <2>3, <4>1, <4>2, TimeConstants
        <5>2. now < m + Cycle + Patience
          BY <1>1, <1>3, <2>3, <5>1, TimeConstants
        <5>3. Pending(o, m)'
          BY <1>5, <3>1, <5>1, <5>2 DEF Pending
        <5> QED BY <1>6, <4>1, <5>3 DEF InTime
      <4>3. CASE Pending(o, m)
        <5>1. Pending(o, m)'
          BY <1>5, <1>6, <3>2, <4>3 DEF Pending
        <5> QED BY <1>6, <4>1, <5>1 DEF InTime
      <4> QED BY <4>1, <4>2, <4>3
    <3> QED BY <1>1, <3>4, <3>5, <3>6 DEF Tracked
  <2> QED BY <1>4, <2>4, <2>5
<1> QED BY <1>8, <1>9

-------------------------------------------------------------------------------
(* Everything but a step of the clock happens on time. *)

LEMMA PunctualSame ==
  ASSUME Inv, Punctual, UNCHANGED clock,
         receiving' # Idle => receiving' = receiving \/ receiving'.at = clock,
         \A task \in backlog' : task \in backlog \/ task.at = clock,
         \A v \in Verifiers :
           run'[v] = run[v] \/ At(v, "idle")' \/ FramePunctual(v)',
         sweep' = sweep \/ SweepPunctual',
         failed' = failed \/ failed' = clock,
         \A o \in Records : \A s \in Heard(o)' : s \in Heard(o) \/ s <= clock
  PROVE  Punctual'
<1>1. clock \in Nat
  BY TimesHold DEF Times
<1>2. \A v \in Verifiers : FramePunctual(v)'
  <2> SUFFICES ASSUME NEW v \in Verifiers PROVE FramePunctual(v)'
    OBVIOUS
  <2>1. CASE run'[v] = run[v]
    BY <2>1 DEF Punctual, FramePunctual, At
  <2>2. CASE At(v, "idle")'
    BY <2>2 DEF FramePunctual, At
  <2> QED BY <2>1, <2>2
<1>3. SweepPunctual'
  BY DEF Punctual, SweepPunctual
<1> QED BY <1>1, <1>2, <1>3 DEF Punctual

(* What is heard of stays within what was heard of, without a row or a trigger. *)
LEMMA NothingHeard ==
  ASSUME UNCHANGED <<attempts, triggers>>
  PROVE  \A o : Heard(o)' = Heard(o)
BY DEF Heard, Observed, Rows

LEMMA PunctualStarts ==
  ASSUME Inv, Punctual, NEW v \in Verifiers, NEW o, NEW now \in Nat,
         StartVerify(v, o, now), now <= clock, clock <= now + Patience
  PROVE  \A w \in Verifiers : run'[w] = run[w] \/ FramePunctual(w)'
<1>1. /\ \A w \in Verifiers : w # v => run'[w] = run[w]
      /\ run'[v].now = now /\ At(v, "querying")' /\ UNCHANGED clock
  BY StartFacts DEF Inv, TypeOK
<1>2. FramePunctual(v)'
  BY <1>1 DEF FramePunctual, At
<1> QED BY <1>1, <1>2

LEMMA PunctualThinks ==
  ASSUME Inv, Punctual, NEW v \in Verifiers, VerifyStep(v), UNCHANGED webhookVars
  PROVE  Punctual'
<1>1. CASE Thinks(v)
  <2>1. /\ UNCHANGED <<attempts, clock>> /\ FramePunctual(v)'
        /\ \A w \in Verifiers : w # v => run'[w] = run[w]
    BY <1>1, ThinkFacts
  <2>2. \A w \in Verifiers : run'[w] = run[w] \/ FramePunctual(w)'
    BY <2>1
  <2> QED BY <2>1, <2>2, NothingHeard, PunctualSame DEF webhookVars
<1>2. CASE SaveAttempt(v)
  <2>1. /\ \A w \in Verifiers : w # v => run'[w] = run[w]
        /\ \A o \in Records :
             Observed(o)' = Observed(o) \/ Observed(o)' = Observed(o) \union {run[v].observed}
        /\ UNCHANGED clock
    BY <1>2, RowSeen DEF SaveAttempt
  <2>2. run'[v] = [pc |-> "returned", record |-> run[v].record, outcome |-> run[v].outcome]
    BY <1>2 DEF SaveAttempt, Inv, TypeOK, GateTypeOK
  <2>3. FramePunctual(v)'
    BY <2>2 DEF FramePunctual, At
  <2>4. run[v].observed <= clock
    BY <1>2 DEF Punctual, FramePunctual, SaveAttempt
  <2>5. \A o \in Records : \A s \in Heard(o)' : s \in Heard(o) \/ s <= clock
    BY <2>1, <2>4 DEF Heard, webhookVars
  <2>6. \A w \in Verifiers : run'[w] = run[w] \/ FramePunctual(w)'
    BY <2>1, <2>3
  <2> QED BY <2>1, <2>5, <2>6, PunctualSame DEF webhookVars
<1> QED BY <1>1, <1>2 DEF VerifyStep, Thinks

(* Time passes at no call's and no sweep's expense. *)
LEMMA PunctualPasses ==
  ASSUME Inv, Punctual, TimePasses
  PROVE  Punctual'
<1>1. /\ receiving = Idle /\ backlog = {}
      /\ clock' = clock + 1
      /\ UNCHANGED <<attempts, run, triggers, receiving, backlog, sweep, failed>>
  BY DEF TimePasses, Tick, webhookVars
<1>2. Times
  BY TimesHold
<1>3. \A v \in Verifiers : FramePunctual(v)'
  <2> SUFFICES ASSUME NEW v \in Verifiers PROVE FramePunctual(v)'
    OBVIOUS
  <2>1. \/ At(v, "idle")
        \/ At(v, "querying") /\ clock < run[v].now + Patience
    BY DEF TimePasses
  <2>2. At(v, "querying") => run[v].now \in Nat /\ run[v].now <= clock /\ clock \in Nat
    BY <1>2 DEF Times, Punctual, FramePunctual
  <2> QED BY <1>1, <2>1, <2>2, TimeConstants DEF FramePunctual, At
<1>4. SweepPunctual'
  <2>1. /\ sweep.pc = "asleep" => clock < sweep.due
        /\ sweep.pc = "sweeping" => clock < sweep.now + Patience
    BY DEF TimePasses
  <2> QED BY <1>1, <1>2, <2>1, TimeConstants DEF Punctual, SweepPunctual, Times
<1>5. \A o \in Records : \A s \in Heard(o)' : s <= clock'
  <2>1. \A o \in Records : Heard(o)' = Heard(o)
    BY <1>1, NothingHeard
  <2> QED BY <1>1, <1>2, <2>1 DEF Punctual, Times
<1>6. failed' <= clock'
  BY <1>1, <1>2 DEF Punctual, Times
<1> QED BY <1>1, <1>3, <1>4, <1>5, <1>6 DEF Punctual

LEMMA CallsEnd ==
  ASSUME GateTypeOK, NEW v \in Verifiers,
         VerifyRaises(v) \/ Return(v) \/ run' = [run EXCEPT ![v] = Idle]
  PROVE  /\ \A w \in Verifiers : w # v => run'[w] = run[w]
         /\ At(v, "idle")'
BY DEF GateTypeOK, VerifyRaises, Return, At, Idle

LEMMA PunctualStep ==
  ASSUME Inv, Punctual, [Next]_vars
  PROVE  Punctual'
<1>1. /\ GateTypeOK /\ Times /\ clock \in Nat /\ Sweeper \in Verifiers
      /\ Workers \subseteq Verifiers
  BY TimesHold, WebhookAssumption DEF Inv, TypeOK, Times, Workers
<1> DEFINE FramesOnTime ==
      \A v \in Verifiers : run'[v] = run[v] \/ At(v, "idle")' \/ FramePunctual(v)'
<1>2. UNCHANGED run => FramesOnTime
  OBVIOUS
<1> HIDE DEF FramesOnTime
<1>3. ASSUME FramesOnTime, UNCHANGED <<attempts, triggers, clock>>,
             receiving' # Idle => receiving' = receiving \/ receiving'.at = clock,
             backlog' \subseteq backlog,
             sweep' = sweep \/ SweepPunctual',
             failed' = failed \/ failed' = clock
      PROVE  Punctual'
  BY <1>3, NothingHeard, PunctualSame DEF FramesOnTime
<1>4. ASSUME NEW o \in Records, Receive(o) PROVE Punctual'
  <2>1. receiving'.at = clock
    BY <1>4 DEF Receive
  <2> QED BY <1>2, <1>3, <1>4, <2>1 DEF Receive, gateVars
<1>5. ASSUME NEW o \in Records, Close(o) PROVE Punctual'
  BY <1>2, <1>3, <1>5 DEF Close, gateVars
<1>6. ASSUME SaveNotification PROVE Punctual'
  <2>1. PICK p \in Records : p = receiving.order
    BY <1>6, WebhookFacts DEF Inv, SaveNotification
  <2>2. receiving.at = clock
    BY <1>6 DEF Punctual, SaveNotification
  <2>3. /\ triggers' = [triggers EXCEPT ![p] = @ \union {clock}]
        /\ backlog' = backlog \union {[order |-> p, at |-> clock]}
        /\ receiving' = Idle
        /\ UNCHANGED <<attempts, run, clock, sweep, failed>>
    BY <1>6, <2>1, <2>2 DEF SaveNotification, gateVars
  <2>4. \A task \in backlog' : task \in backlog \/ task.at = clock
    BY <2>3
  <2>5. \A o \in Records : \A s \in Heard(o)' : s \in Heard(o) \/ s <= clock
    <3> SUFFICES ASSUME NEW o \in Records, NEW s \in Heard(o)', s \notin Heard(o)
                 PROVE  s <= clock
      OBVIOUS
    <3>1. Observed(o)' = Observed(o) /\ triggers'[o] \subseteq triggers[o] \union {clock}
      BY <2>3 DEF Observed, Rows, Inv, TypeOK
    <3> QED BY <1>1, <3>1 DEF Heard
  <2> QED BY <2>3, <2>4, <2>5, PunctualSame
<1>7. ASSUME NEW o \in Records, SweepOrder(o) PROVE Punctual'
  <2>1. /\ sweep.pc = "sweeping" /\ sweep.now <= clock /\ clock <= sweep.now + Patience
        /\ sweep.now \in Nat
    BY <1>1, <1>7 DEF SweepOrder, Punctual, SweepPunctual, Times
  <2>2. sweep'.pc = "sweeping" /\ sweep'.now = sweep.now
    BY <1>7 DEF Inv, TypeOK, Sweep, SweepOrder
  <2>3. UNCHANGED <<attempts, triggers, clock, receiving, backlog, failed>>
    BY <1>7 DEF SweepOrder, StartVerify, gateVars
  <2>4. FramesOnTime
    <3>1. CASE UNCHANGED gateVars
      BY <1>2, <3>1 DEF gateVars
    <3>2. CASE StartVerify(Sweeper, o, sweep.now)
      BY <1>1, <2>1, <3>2, PunctualStarts DEF FramesOnTime
    <3> QED BY <1>7, <3>1, <3>2 DEF SweepOrder
  <2>5. SweepPunctual'
    BY <2>1, <2>2, <2>3 DEF SweepPunctual
  <2> QED BY <1>3, <2>3, <2>4, <2>5
<1>8. ASSUME NEW v \in Workers, NEW task \in backlog, Confirm(v, task) PROVE Punctual'
  <2>1. FramesOnTime
    <3>1. StartVerify(v, task.order, clock) /\ clock <= clock /\ clock <= clock + Patience
      BY <1>1, <1>8, TimeConstants DEF Confirm
    <3> QED BY <1>1, <3>1, PunctualStarts DEF FramesOnTime
  <2> QED BY <1>3, <1>8, <2>1 DEF Confirm, StartVerify
<1>9. ASSUME NEW v \in Verifiers, VerifyRaises(v) \/ Return(v) PROVE FramesOnTime
  BY <1>1, <1>9, CallsEnd DEF FramesOnTime
<1>10. ASSUME NEW v \in Verifiers, Wake(v) PROVE Punctual'
  <2>1. FramesOnTime
    BY <1>9, <1>10 DEF Wake
  <2> QED BY <1>3, <1>10, <2>1 DEF Wake, Return
<1>11. ASSUME NEW v \in Workers, WorkerRaises(v) PROVE Punctual'
  <2>1. FramesOnTime
    BY <1>1, <1>9, <1>11 DEF WorkerRaises
  <2> QED BY <1>3, <1>11, <2>1 DEF WorkerRaises, Fault, VerifyRaises, Return
<1>12. ASSUME BeginSweep PROVE Punctual'
  <2>1. sweep'.pc = "sweeping" /\ sweep'.now = clock /\ clock' = clock
    BY <1>12 DEF BeginSweep, gateVars
  <2>2. SweepPunctual'
    BY <1>1, <2>1, TimeConstants DEF SweepPunctual
  <2> QED BY <1>2, <1>3, <1>12, <2>2 DEF BeginSweep, gateVars
<1>13. ASSUME EndSweep PROVE Punctual'
  <2>1. sweep'.pc = "asleep" /\ sweep'.due = clock + Interval /\ clock' = clock
    BY <1>13 DEF EndSweep, gateVars
  <2>2. SweepPunctual'
    BY <1>1, <2>1, TimeConstants DEF SweepPunctual
  <2> QED BY <1>2, <1>3, <1>13, <2>2 DEF EndSweep, gateVars
<1>14. ASSUME SweepRaises PROVE Punctual'
  <2>1. FramesOnTime
    BY <1>1, <1>14, CallsEnd DEF FramesOnTime, SweepRaises
  <2>2. SweepPunctual'
    BY <1>14 DEF SweepRaises, SweepPunctual
  <2> QED BY <1>3, <1>14, <2>1, <2>2 DEF SweepRaises, Fault
<1>15. ASSUME Restart PROVE Punctual'
  <2>1. /\ \A v \in Verifiers : At(v, "idle")'
        /\ UNCHANGED <<attempts, triggers, clock>>
        /\ receiving' = Idle /\ backlog' = {} /\ failed' = clock
    BY <1>15 DEF Restart, CrashServer, Fault, At, Idle
  <2>2. sweep'.pc = "asleep" /\ sweep'.due = clock + Interval
    BY <1>15 DEF Restart
  <2>3. SweepPunctual'
    BY <1>1, <2>1, <2>2, TimeConstants DEF SweepPunctual
  <2> QED BY <1>3, <2>1, <2>3 DEF FramesOnTime
<1>16. ASSUME TimePasses PROVE Punctual'
  BY <1>16, PunctualPasses
<1>17. ASSUME EndOfTime \/ UNCHANGED vars PROVE Punctual'
  BY <1>2, <1>3, <1>17 DEF EndOfTime, vars, gateVars, webhookVars
<1>18. ASSUME NEW v \in Verifiers, VerifyStep(v) /\ UNCHANGED webhookVars PROVE Punctual'
  BY <1>18, PunctualThinks
<1>19. ASSUME NEW v \in Workers, WorkerStep(v) PROVE Punctual'
  BY <1>1, <1>8, <1>10, <1>18, <1>19 DEF WorkerStep
<1>20. ASSUME SweeperStep PROVE Punctual'
  BY <1>1, <1>7, <1>10, <1>12, <1>13, <1>18, <1>20 DEF SweeperStep
<1> QED BY <1>4, <1>5, <1>6, <1>7, <1>11, <1>14, <1>15, <1>16, <1>17, <1>19, <1>20
        DEF Next

(* What is passed on has been stored before. *)
LEMMA WokenSame ==
  ASSUME Inv, WakesOnRecord,
         \A o \in Records : Observed(o) \subseteq Observed(o)',
         woken' = woken \/ \E v \in Verifiers : woken' = Wakes(v),
         \A v \in Verifiers :
           ~ At(v, "returned")' \/ (run'[v] = run[v] /\ UNCHANGED clock)
  PROVE  WakesOnRecord'
<1> SUFFICES ASSUME NEW o \in Records
             PROVE  /\ woken'[o] \subseteq Observed(o)'
                    /\ \A v \in Asking(o)' : At(v, "returned")' => clock' \in Observed(o)'
  BY DEF WakesOnRecord
<1>1. /\ woken[o] \subseteq Observed(o)
      /\ \A v \in Asking(o) : At(v, "returned") => clock \in Observed(o)
  BY DEF WakesOnRecord
<1>2. woken'[o] \subseteq Observed(o)'
  <2>1. CASE woken' = woken
    BY <1>1, <2>1
  <2>2. ASSUME NEW v \in Verifiers, woken' = Wakes(v) PROVE woken'[o] \subseteq Observed(o)'
    <3>1. woken \in [Records -> SUBSET Time]
      BY DEF Inv, TypeOK
    <3>2. CASE At(v, "returned") /\ run[v].outcome \in Conclusive /\ run[v].record = o
      <4>1. v \in Asking(o)
        BY <3>2 DEF Asking, At, Conclusive
      <4>2. woken'[o] = {clock}
        BY <2>2, <3>1, <3>2 DEF Wakes
      <4> QED BY <1>1, <3>2, <4>1, <4>2
    <3>3. CASE ~ (At(v, "returned") /\ run[v].outcome \in Conclusive /\ run[v].record = o)
      <4>1. woken'[o] = woken[o]
        BY <2>2, <3>1, <3>3 DEF Wakes
      <4> QED BY <1>1, <4>1
    <3> QED BY <3>2, <3>3
  <2> QED BY <2>1, <2>2
<1>3. ASSUME NEW v \in Asking(o)', At(v, "returned")' PROVE clock' \in Observed(o)'
  <2>1. v \in Verifiers /\ run'[v] = run[v] /\ clock' = clock
    BY <1>3 DEF Asking
  <2>2. v \in Asking(o) /\ At(v, "returned")
    BY <1>3, <2>1 DEF Asking, At
  <2> QED BY <1>1, <2>1, <2>2
<1> QED BY <1>2, <1>3

LEMMA WakesOnRecordStep ==
  ASSUME Inv, Punctual, WakesOnRecord, [Next]_vars
  PROVE  WakesOnRecord'
<1>1. /\ GateTypeOK /\ Sweeper \in Verifiers /\ Workers \subseteq Verifiers
  BY WebhookAssumption DEF Inv, TypeOK, Workers
<1> DEFINE NoneReturns ==
      \A v \in Verifiers : ~ At(v, "returned")' \/ (run'[v] = run[v] /\ UNCHANGED clock)
<1>2. UNCHANGED attempts => \A o \in Records : Observed(o) \subseteq Observed(o)'
  BY DEF Observed, Rows
<1>3. UNCHANGED <<run, clock>> => NoneReturns
  OBVIOUS
<1> HIDE DEF NoneReturns
<1>4. ASSUME NoneReturns, UNCHANGED attempts,
             woken' = woken \/ \E v \in Verifiers : woken' = Wakes(v)
      PROVE  WakesOnRecord'
  BY <1>2, <1>4, WokenSame DEF NoneReturns
<1>5. ASSUME NEW v \in Verifiers, NEW o, NEW now, StartVerify(v, o, now) PROVE NoneReturns
  BY <1>1, <1>5, StartFacts DEF NoneReturns, At
<1>6. ASSUME NEW v \in Verifiers, UNCHANGED clock,
             VerifyRaises(v) \/ Return(v) \/ run' = [run EXCEPT ![v] = Idle]
      PROVE  NoneReturns
  BY <1>1, <1>6, CallsEnd DEF NoneReturns, At
<1>7. ASSUME NEW o \in Records, Receive(o) \/ Close(o) PROVE WakesOnRecord'
  BY <1>3, <1>4, <1>7 DEF Receive, Close, gateVars
<1>8. ASSUME SaveNotification \/ BeginSweep \/ EndSweep \/ EndOfTime \/ UNCHANGED vars
      PROVE  WakesOnRecord'
  BY <1>3, <1>4, <1>8 DEF SaveNotification, BeginSweep, EndSweep, EndOfTime, vars,
     gateVars, webhookVars
<1>9. ASSUME NEW o \in Records, SweepOrder(o) PROVE WakesOnRecord'
  <2>1. NoneReturns /\ UNCHANGED attempts
    BY <1>1, <1>3, <1>5, <1>9 DEF SweepOrder, StartVerify, gateVars
  <2> QED BY <1>4, <1>9, <2>1 DEF SweepOrder
<1>10. ASSUME NEW v \in Workers, NEW task \in backlog, Confirm(v, task)
       PROVE  WakesOnRecord'
  BY <1>1, <1>4, <1>5, <1>10 DEF Confirm, StartVerify
<1>11. ASSUME NEW v \in Verifiers, Wake(v) PROVE WakesOnRecord'
  BY <1>4, <1>6, <1>11 DEF Wake, Return
<1>12. ASSUME NEW v \in Workers, WorkerRaises(v) PROVE WakesOnRecord'
  <2>1. VerifyRaises(v) \/ Return(v)
    BY <1>12 DEF WorkerRaises
  <2>2. UNCHANGED <<attempts, clock>> /\ v \in Verifiers
    BY <1>1, <2>1 DEF VerifyRaises, Return
  <2>3. NoneReturns
    BY <1>6, <2>1, <2>2
  <2> QED BY <1>4, <1>12, <2>2, <2>3 DEF WorkerRaises
<1>13. ASSUME SweepRaises PROVE WakesOnRecord'
  <2>1. NoneReturns
    BY <1>1, <1>6, <1>13 DEF SweepRaises
  <2> QED BY <1>1, <1>4, <1>13, <2>1 DEF SweepRaises
<1>14. ASSUME Restart PROVE WakesOnRecord'
  <2>1. \A v \in Verifiers : run'[v].pc = "idle"
    BY <1>14 DEF Restart, CrashServer, Idle
  <2>2. NoneReturns
    BY <2>1 DEF NoneReturns, At
  <2> QED BY <1>4, <1>14, <2>2 DEF Restart, CrashServer
<1>15. ASSUME TimePasses PROVE WakesOnRecord'
  <2>1. \A v \in Verifiers : At(v, "idle") \/ At(v, "querying")
    BY <1>15 DEF TimePasses
  <2>2. UNCHANGED <<attempts, run, woken>>
    BY <1>15 DEF TimePasses, Tick, webhookVars
  <2>3. NoneReturns
    BY <2>1, <2>2 DEF NoneReturns, At
  <2> QED BY <1>4, <2>2, <2>3
<1>16. ASSUME NEW v \in Verifiers, Thinks(v), UNCHANGED webhookVars PROVE WakesOnRecord'
  <2>1. /\ UNCHANGED <<attempts, clock, woken>>
        /\ \A w \in Verifiers : w # v => run'[w] = run[w]
        /\ \A o : v \in Asking(o)' <=> v \in Asking(o)
    BY <1>16, ThinkFacts DEF webhookVars
  <2>2. ~ At(v, "returned")'
    BY <1>16, ThinkFacts
  <2> QED BY <1>4, <2>1, <2>2 DEF NoneReturns
<1>17. ASSUME NEW v \in Verifiers, SaveAttempt(v), UNCHANGED webhookVars PROVE WakesOnRecord'
  <2> SUFFICES ASSUME NEW o \in Records
               PROVE  /\ woken'[o] \subseteq Observed(o)'
                      /\ \A w \in Asking(o)' : At(w, "returned")' => clock' \in Observed(o)'
    BY DEF WakesOnRecord
  <2>1. /\ Observed(o) \subseteq Observed(o)' /\ UNCHANGED <<clock, woken>>
        /\ \A w \in Verifiers : w # v => run'[w] = run[w]
        /\ woken[o] \subseteq Observed(o)
    BY <1>17, RowSeen DEF webhookVars, SaveAttempt, WakesOnRecord
  <2>2. ASSUME NEW w \in Asking(o)', At(w, "returned")', w # v PROVE clock' \in Observed(o)'
    <3>1. w \in Asking(o) /\ At(w, "returned")
      BY <2>1, <2>2 DEF Asking, At
    <3> QED BY <2>1, <3>1 DEF WakesOnRecord
  <2>3. ASSUME v \in Asking(o)' PROVE clock' \in Observed(o)'
    <3>1. run[v].outcome # "UNRESOLVED" /\ v \in Asking(o)
      BY <1>17, <2>3, RowSeen
    <3>2. o = run[v].record /\ Observed(o)' = Observed(o) \union {run[v].observed}
      BY <1>17, <3>1, RowSeen
    <3>3. run[v].outcome \in Conclusive
      BY <1>1, <1>17, <3>1, FrameFacts DEF SaveAttempt, At, Outcomes, Conclusive
    <3>4. run[v].observed = clock
      BY <1>17, <3>3 DEF Punctual, FramePunctual, SaveAttempt
    <3> QED BY <2>1, <3>2, <3>4
  <2> QED BY <2>1, <2>2, <2>3
<1>18. ASSUME NEW v \in Verifiers, VerifyStep(v) /\ UNCHANGED webhookVars
       PROVE  WakesOnRecord'
  BY <1>16, <1>17, <1>18 DEF VerifyStep, Thinks
<1>19. ASSUME NEW v \in Workers, WorkerStep(v) PROVE WakesOnRecord'
  BY <1>1, <1>10, <1>11, <1>18, <1>19 DEF WorkerStep
<1>20. ASSUME SweeperStep PROVE WakesOnRecord'
  BY <1>1, <1>8, <1>9, <1>11, <1>18, <1>20 DEF SweeperStep
<1> QED BY <1>7, <1>8, <1>9, <1>12, <1>13, <1>14, <1>15, <1>19, <1>20 DEF Next

-------------------------------------------------------------------------------
LEMMA TimeInit == Init => TimeInv
<1> SUFFICES ASSUME Init PROVE TimeInv
  OBVIOUS
<1>1. Inv /\ Times
  BY InvInit, TimesHold
<1>2. /\ \A v \in Verifiers : At(v, "idle")
      /\ \A o \in Records : Rows(o) = {} /\ triggers[o] = {} /\ woken[o] = {}
      /\ clock = 0 /\ failed = 0 /\ receiving = Idle /\ backlog = {}
      /\ sweep.pc = "asleep" /\ sweep.due = Interval
  BY DEF Init, GateInit, At, Idle, Rows
<1>3. \A o \in Records : Observed(o) = {} /\ Heard(o) = {} /\ Asking(o) = {}
  BY <1>2 DEF Observed, Heard, Asking
<1>4. Punctual
  BY <1>2, <1>3, TimeConstants DEF Punctual, FramePunctual, SweepPunctual, At
<1>5. ASSUME NEW o \in Records PROVE Tracked(o)
  <2>1. 0 \in Settled(o) /\ 0 \in Acts(o)
    BY <1>2 DEF Settled, Acts
  <2>2. Covered(o, 0)
    BY <1>2, TimeConstants DEF Covered
  <2> QED BY <1>3, <2>1, <2>2 DEF Tracked, Remembers, Scheduled, InTime
<1>6. WakesOnRecord
  BY <1>2, <1>3 DEF WakesOnRecord
<1> QED BY <1>1, <1>4, <1>5, <1>6 DEF TimeInv

LEMMA TimeStep == TimeInv /\ [Next]_vars => TimeInv'
<1> SUFFICES ASSUME TimeInv, [Next]_vars PROVE TimeInv'
  OBVIOUS
<1>1. Inv' /\ Punctual' /\ WakesOnRecord'
  BY InvStep, PunctualStep, WakesOnRecordStep DEF TimeInv
<1>2. Sweeper \in Verifiers /\ Workers \subseteq Verifiers
  BY WebhookAssumption DEF Workers
<1> DEFINE AllTracked == \A o \in Records : Tracked(o)'
<1>3. ASSUME closed \subseteq closed',
             UNCHANGED <<gateVars, triggers, backlog, sweep, failed, woken>>
      PROVE  AllTracked
  BY <1>1, <1>3, QuietTracks DEF TimeInv
<1> HIDE DEF AllTracked
<1>4. ASSUME NEW o \in Records, Receive(o) \/ Close(o) PROVE AllTracked
  BY <1>3, <1>4 DEF Receive, Close
<1>5. ASSUME EndOfTime \/ UNCHANGED vars PROVE AllTracked
  BY <1>3, <1>5 DEF EndOfTime, vars, webhookVars
<1>6. ASSUME SaveNotification PROVE AllTracked
  BY <1>1, <1>6, NotificationTracks DEF AllTracked
<1>7. ASSUME NEW o \in Records, SweepOrder(o) PROVE AllTracked
  BY <1>1, <1>7, OrderTracks DEF AllTracked
<1>8. ASSUME BeginSweep PROVE AllTracked
  BY <1>1, <1>8, BeginTracks DEF AllTracked
<1>9. ASSUME EndSweep PROVE AllTracked
  BY <1>1, <1>9, EndTracks DEF AllTracked
<1>10. ASSUME TimePasses PROVE AllTracked
  BY <1>1, <1>10, PassTracks DEF AllTracked
<1>11. ASSUME NEW v \in Verifiers, Wake(v) PROVE AllTracked
  BY <1>1, <1>11, WakeTracks DEF AllTracked
<1>12. ASSUME NEW v \in Verifiers, VerifyStep(v), UNCHANGED webhookVars PROVE AllTracked
  <2>1. CASE Thinks(v)
    BY <1>1, <1>12, <2>1, ThinkTracks DEF AllTracked
  <2>2. CASE SaveAttempt(v)
    BY <1>1, <1>12, <2>2, RowTracks DEF AllTracked
  <2> QED BY <1>12, <2>1, <2>2 DEF VerifyStep, Thinks
<1>13. ASSUME NEW v \in Workers, WorkerStep(v) PROVE AllTracked
  <2>1. ASSUME NEW task \in backlog, Confirm(v, task) PROVE AllTracked
    BY <1>1, <2>1, ConfirmTracks DEF AllTracked
  <2> QED BY <1>2, <1>11, <1>12, <1>13, <2>1 DEF WorkerStep
<1>14. ASSUME SweeperStep PROVE AllTracked
  BY <1>2, <1>7, <1>8, <1>9, <1>11, <1>12, <1>14 DEF SweeperStep
<1>15. ASSUME \/ \E v \in Workers : WorkerRaises(v)
              \/ SweepRaises \/ Restart
       PROVE  AllTracked
  <2>1. Fault /\ UNCHANGED clock
    BY <1>15 DEF WorkerRaises, SweepRaises, Restart, VerifyRaises, Return, CrashServer
  <2> QED BY <1>1, <2>1, LossTracks DEF AllTracked
<1>16. AllTracked
  BY <1>4, <1>5, <1>6, <1>7, <1>10, <1>13, <1>14, <1>15 DEF Next
<1> QED BY <1>1, <1>16 DEF TimeInv, AllTracked

(* An order that is kept in time was heard of lately. *)
LEMMA InTimeIsInformed == TimeInv => KeptInformed
<1> SUFFICES ASSUME TimeInv, NEW o \in Records \ closed, sweep.pc # "dead"
             PROVE  \E t \in Learnt(o) \union {failed} : clock < t + LatestAnswer
  BY DEF KeptInformed
<1>1. Times /\ Punctual
  BY TimesHold DEF TimeInv
<1>2. PICK m \in Settled(o) : Covered(o, m) \/ Pending(o, m)
  BY DEF TimeInv, Tracked, InTime
<1>3. m \in Nat /\ clock \in Nat
  BY <1>1, <1>2 DEF Times, Acts
<1>4. CASE Covered(o, m)
  <2>1. clock < m + Cycle + Patience
    BY <1>1, <1>3, <1>4, TimeConstants DEF Covered, Punctual, SweepPunctual, Times
  <2> QED BY <1>2, <1>3, <2>1, TimeConstants DEF Settled
<1>5. CASE Pending(o, m)
  <2>1. CASE \E t \in Tasks(o) : t < m + Cycle + Patience
    <3>1. clock < m + Cycle + Patience
      BY <1>1, <2>1 DEF Punctual, Tasks
    <3> QED BY <1>2, <1>3, <3>1, TimeConstants DEF Settled
  <2> QED BY <1>2, <1>5, <2>1 DEF Pending, Settled
<1> QED BY <1>2, <1>4, <1>5

(* For every set of orders and threads, every window, interval and patience, and
   every number of exceptions and restarts: a live loop never leaves an order of
   an active journey alone for longer than LatestAnswer after it last learnt of
   it, told its evaluation so, or lost something. *)
THEOREM OrdersAreKeptInformed == Spec => []KeptInformed
  BY TimeInit, TimeStep, InTimeIsInformed, PTL DEF Spec

(* And an acknowledged notification is followed in time by an attempt that
   observed its order no earlier, whoever made it. *)
THEOREM NotificationsAreAnswered == Spec => []TriggersAnswered
<1>1. ASSUME TimeInv PROVE TriggersAnswered
  <2> SUFFICES ASSUME NEW o \in Records \ closed, NEW t \in triggers[o],
                      t + LatestAnswer <= clock, failed + LatestAnswer <= clock,
                      sweep.pc # "dead"
               PROVE  \E u \in Observed(o) : u >= t
    BY DEF TriggersAnswered
  <2>1. Times /\ t \in Nat
    BY <1>1, TimesHold DEF TimeInv, Times, Heard
  <2>2. PICK u \in Learnt(o) \union {failed} : clock < u + LatestAnswer
    BY <1>1, InTimeIsInformed DEF KeptInformed
  <2>3. u \in Nat /\ clock \in Nat /\ failed \in Nat
    BY <2>1 DEF Times
  <2>4. u \in Learnt(o) /\ u >= t
    BY <2>1, <2>2, <2>3, TimeConstants
  <2>5. Learnt(o) \subseteq Observed(o)
    BY <1>1 DEF TimeInv, WakesOnRecord, Learnt, Observed
  <2> QED BY <2>4, <2>5
<1> QED BY <1>1, TimeInit, TimeStep, PTL DEF Spec
=============================================================================
