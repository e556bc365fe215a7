-------------------------------- MODULE Webhook --------------------------------
(***************************************************************************)
(* WebhookService (services/webhook_service.py), its router and the        *)
(* reconciliation loop of the server (api/main.py): who asks the           *)
(* verification gate about an order, and when.  A notification is          *)
(* acknowledged on the event loop and confirmed later by a background      *)
(* thread; a sweep asks about every active order once per interval.  Both  *)
(* hold back while the order's confirmation window is open.                *)
(*                                                                         *)
(* The orders are the records of the gate, one per active journey.         *)
(***************************************************************************)
EXTENDS VerificationGate

CONSTANTS
  Sweeper,      \* the verifier that is the thread of the reconciliation loop
  Window,       \* _CONFIRMATION_BUDGET_WINDOW_SECONDS
  Interval,     \* _RECONCILIATION_INTERVAL_SECONDS
  Patience,     \* the longest a confirmation or a sweep takes
  MaxFaults     \* bound: exceptions and server restarts explored

Workers == Verifiers \ {Sweeper}

ASSUME WebhookAssumption ==
  /\ Sweeper \in Verifiers
  /\ {Window, Interval, Patience} \subseteq Nat \ {0}
  /\ MaxFaults \in Nat

VARIABLES
  triggers,   \* per order: received_at of notifications with confirmation_triggered
  receiving,  \* what receive has decided and not saved yet
  backlog,    \* background tasks that no thread has picked up
  sweep,      \* the reconciliation loop
  closed,     \* orders of journeys in a terminal state
  failed,     \* history: when an exception or a restart last lost something
  faults,     \* exceptions and restarts so far
  woken,      \* per order: when WAKE_REQUESTED was appended last
  asked       \* history: per order, the queries decided on, by whom and for when

webhookVars == <<triggers, receiving, backlog, sweep, closed, failed,
                 faults, woken, asked>>
vars == <<gateVars, webhookVars>>

Task == [order : Records, at : Time]
Sweep ==
  [pc : {"asleep"}, due : Nat]
    \union [pc : {"sweeping"}, todo : SUBSET Records, now : Time]
    \union [pc : {"dead"}]
Asked == [by : {"notification", "sweep"}, at : Time]

TypeOK ==
  /\ GateTypeOK
  /\ triggers \in [Records -> SUBSET Time]
  /\ receiving \in {Idle} \union [pc : {"saving"}, order : Records, at : Time]
  /\ backlog \subseteq Task
  /\ sweep \in Sweep
  /\ sweep.pc = "sweeping" \/ At(Sweeper, "idle")
  /\ closed \subseteq Records
  /\ failed \in Time
  /\ faults \in 0..MaxFaults
  /\ woken \in [Records -> SUBSET Time]
  /\ asked \in [Records -> SUBSET Asked]

Init ==
  /\ GateInit
  /\ triggers = [o \in Records |-> {}]
  /\ receiving = Idle
  /\ backlog = {}
  /\ sweep = [pc |-> "asleep", due |-> Interval]
  /\ closed = {}
  /\ failed = 0
  /\ faults = 0
  /\ woken = [o \in Records |-> {}]
  /\ asked = [o \in Records |-> {}]

-------------------------------------------------------------------------------
(* _within_confirmation_budget_window.  A time in the future of `now`, which
   a sweep holds from its beginning, counts as recent. *)

Observed(o) == {attempts[o][i].observed : i \in Rows(o)}

(* Mutant: a confirmation under way is not taken into account. *)
WithinWindowObserved(o, now) ==
  \E t \in Observed(o) : now - t < Window

(* Mutant: the window never closes. *)
WithinWindowForever(o, now) == Observed(o) \union triggers[o] # {}

WithinWindow(o, now) ==
  \E t \in Observed(o) \union triggers[o] : now - t < Window

-------------------------------------------------------------------------------
(* Notifications.  One whose order is unknown, whose type has no handler, or
   whose window is open is stored and changes nothing else. *)

Receive(o) ==
  /\ receiving = Idle
  /\ o \notin closed /\ ~ WithinWindow(o, clock)
  /\ receiving' = [pc |-> "saving", order |-> o, at |-> clock]
  /\ UNCHANGED <<gateVars, triggers, backlog, sweep, closed, failed, faults,
                 woken, asked>>

(* save_notification, and the background task once the answer is sent. *)
SaveNotification ==
  /\ receiving # Idle
  /\ LET o == receiving.order
         at == receiving.at
     IN  /\ triggers' = [triggers EXCEPT ![o] = @ \union {at}]
         /\ backlog' = backlog \union {[order |-> o, at |-> at]}
         /\ asked' = [asked EXCEPT ![o] =
                        @ \union {[by |-> "notification", at |-> at]}]
  /\ receiving' = Idle
  /\ UNCHANGED <<gateVars, sweep, closed, failed, faults, woken>>

(* confirm: the background thread verifies on a clock of its own. *)
Confirm(v, task) ==
  /\ task \in backlog
  /\ StartVerify(v, task.order, clock)
  /\ backlog' = backlog \ {task}
  /\ UNCHANGED <<triggers, receiving, sweep, closed, failed, faults,
                 woken, asked>>

(* Mutant: only a failure is news. *)
WakesFailure(v) ==
  IF At(v, "returned") /\ run[v].outcome = "FAILURE"
  THEN [woken EXCEPT ![run[v].record] = {clock}] ELSE woken

(* A conclusion wakes the journey's evaluation, applied or not. *)
Wakes(v) ==
  IF At(v, "returned") /\ run[v].outcome \in Conclusive
  THEN [woken EXCEPT ![run[v].record] = {clock}] ELSE woken

(* WAKE_REQUESTED is appended, and the evaluation started from there is over. *)
Wake(v) ==
  /\ Return(v)
  /\ woken' = Wakes(v)
  /\ UNCHANGED <<triggers, receiving, backlog, sweep, closed, failed, faults, asked>>

WorkerStep(v) ==
  \/ \E task \in backlog : Confirm(v, task)
  \/ Wake(v)
  \/ VerifyStep(v) /\ UNCHANGED webhookVars

Fault ==
  /\ faults < MaxFaults
  /\ faults' = faults + 1
  /\ failed' = clock

(* verify raises, or the append of the wake, which is lost then, or the impact
   evaluation it started: the background task is gone. *)
WorkerRaises(v) ==
  /\ Fault
  /\ VerifyRaises(v) \/ Return(v)
  /\ woken' \in {woken, Wakes(v)}
  /\ UNCHANGED <<triggers, receiving, backlog, sweep, closed, asked>>

-------------------------------------------------------------------------------
(* reconcile_active_journeys, once per interval. *)

BeginSweep ==
  /\ sweep.pc = "asleep" /\ clock >= sweep.due
  /\ receiving = Idle
  /\ sweep' = [pc |-> "sweeping", todo |-> Records \ closed, now |-> clock]
  /\ UNCHANGED <<gateVars, triggers, receiving, backlog, closed, failed, faults,
                 woken, asked>>

SweepOrder(o) ==
  /\ sweep.pc = "sweeping" /\ o \in sweep.todo /\ At(Sweeper, "idle")
  /\ sweep' = [sweep EXCEPT !.todo = @ \ {o}]
  /\ IF WithinWindow(o, sweep.now)
     THEN UNCHANGED <<gateVars, asked>>
     ELSE /\ StartVerify(Sweeper, o, sweep.now)
          /\ asked' = [asked EXCEPT ![o] =
                         @ \union {[by |-> "sweep", at |-> sweep.now]}]
  /\ UNCHANGED <<triggers, receiving, backlog, closed, failed, faults, woken>>

(* Mutant: the loop sleeps while its last verification is still out. *)
EndSweepEarly ==
  /\ sweep.pc = "sweeping" /\ sweep.todo = {}
  /\ receiving = Idle
  /\ sweep' = [pc |-> "asleep", due |-> clock + Interval]
  /\ UNCHANGED <<gateVars, triggers, receiving, backlog, closed, failed, faults,
                 woken, asked>>

EndSweep ==
  /\ sweep.pc = "sweeping" /\ sweep.todo = {} /\ At(Sweeper, "idle")
  /\ receiving = Idle
  /\ sweep' = [pc |-> "asleep", due |-> clock + Interval]
  /\ UNCHANGED <<gateVars, triggers, receiving, backlog, closed, failed, faults,
                 woken, asked>>

SweeperStep ==
  \/ BeginSweep \/ EndSweep
  \/ \E o \in Records : SweepOrder(o)
  \/ Wake(Sweeper)
  \/ VerifyStep(Sweeper) /\ UNCHANGED webhookVars

(* An exception ends the thread's work, the task that awaits it and with it
   the loop: nothing catches it in _reconciliation_loop. *)
SweepRaises ==
  /\ Fault
  /\ sweep.pc = "sweeping" /\ ~ At(Sweeper, "idle")
  /\ run' = [run EXCEPT ![Sweeper] = Idle]
  /\ sweep' = [pc |-> "dead"]
  /\ woken' \in {woken, Wakes(Sweeper)}
  /\ UNCHANGED <<attempts, clock, triggers, receiving, backlog, closed, asked>>

-------------------------------------------------------------------------------
(* The journeys, the server and time. *)

Close(o) ==
  /\ o \notin closed
  /\ closed' = closed \union {o}
  /\ UNCHANGED <<gateVars, triggers, receiving, backlog, sweep, failed, faults,
                 woken, asked>>

(* Background tasks live in memory; the loop sleeps before it sweeps. *)
Restart ==
  /\ Fault
  /\ CrashServer
  /\ receiving' = Idle
  /\ backlog' = {}
  /\ sweep' = [pc |-> "asleep", due |-> clock + Interval]
  /\ UNCHANGED <<triggers, closed, woken, asked>>

(* Bound: an HTTP call gives up after seconds and a tick is a good part of a
   window, so only calls to Atlas take time, a confirmation or a sweep no more
   than Patience ticks, and a sweep that is due begins. *)
TimePasses ==
  /\ receiving = Idle /\ backlog = {}
  /\ \A v \in Verifiers :
       \/ At(v, "idle")
       \/ At(v, "querying") /\ clock < run[v].now + Patience
  /\ sweep.pc = "asleep" => clock < sweep.due
  /\ sweep.pc = "sweeping" => clock < sweep.now + Patience
  /\ Tick
  /\ UNCHANGED webhookVars

(* Bound: the exploration ends here, and must not end before. *)
EndOfTime ==
  /\ \/ clock = MaxClock
     \/ \E o \in Records : Len(attempts[o]) + Cardinality(Running(o)) = MaxRows
  /\ UNCHANGED vars

Next ==
  \/ \E o \in Records : Receive(o) \/ SweepOrder(o) \/ Close(o)
  \/ SaveNotification
  \/ \E v \in Workers : WorkerStep(v) \/ WorkerRaises(v)
  \/ SweeperStep \/ SweepRaises
  \/ Restart
  \/ TimePasses
  \/ EndOfTime

Spec == Init /\ [][Next]_vars

-------------------------------------------------------------------------------
(* Properties. *)

(* FR-013 (specs/007-webhook-receiver/spec.md:359): however many notifications
   arrive and whatever the sweep does, no window holds more than two decisions
   to ask Atlas about one order, two only if one of them is the sweep's, and
   none of them comes within a window after a notification's that it could
   see (_within_confirmation_budget_window:145-165). *)
ConfirmationsBounded ==
  \A o \in Records : \A a \in asked[o] :
    LET inWindow == {b \in asked[o] : a.at <= b.at /\ b.at < a.at + Window} IN
    /\ Cardinality(inWindow) <= 2
    /\ Cardinality({b \in inWindow : b.by = "notification"}) <= 1

(* What is known of an order is news of it that was passed on, or that Atlas
   gave no answer. *)
Learnt(o) ==
  woken[o] \union {attempts[o][i].observed :
                     i \in {i \in Rows(o) : attempts[o][i].outcome = "UNRESOLVED"}}

(* The longest a live server leaves an order alone after the last exception: a
   window during which its sweeps hold back, a sweep that is under way, the
   sleep until the next, that one, and a confirmation that was received late in
   it and holds it back too. *)
LatestAnswer == Window + Interval + 3 * Patience

(* What the window test and the loop give (reconcile_active_journeys, main.py:25-30,
   _within_confirmation_budget_window): an order of an active journey never stays
   unasked about for longer than that, which is more than an interval, whether or
   not notifications of it arrive, and what was learnt by asking is passed on to
   the journey's evaluation; exceptions and restarts, which lose confirmations, or
   the wake between the attempt and its event, delay it by as much again.  Once
   the loop is dead nothing is promised. *)
KeptInformed ==
  \A o \in Records \ closed :
    sweep.pc = "dead" \/ \E t \in Learnt(o) \union {failed} : clock < t + LatestAnswer

(* So is every notification that was acknowledged and not held back: it is
   followed in time by an attempt that observed the order no earlier, by its own
   confirmation or, when that is lost, by a sweep, unless the journey ends or the
   loop is dead (webhooks.py:28-30). *)
TriggersAnswered ==
  \A o \in Records \ closed : \A t \in triggers[o] :
    t + LatestAnswer <= clock /\ failed + LatestAnswer <= clock =>
      sweep.pc = "dead" \/ \E u \in Observed(o) : u >= t
===============================================================================
