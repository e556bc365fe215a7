-------------------------------- MODULE Recovery --------------------------------
(***************************************************************************)
(* RecoveryExecutionService.execute: swapping a ticketed booking for a     *)
(* recommended replacement through the services of Booking, and releasing  *)
(* the old booking last.  Each recovery job is one call of execute for one *)
(* recommendation; two jobs may be handed the same one.                    *)
(*                                                                         *)
(* The model starts where a recovery does: the journey's first order is    *)
(* bought, ticketed and monitored (a capture journey, which never left     *)
(* OBJECTIVE_CONFIRMED, behaves the same: neither state lets a             *)
(* verification or a ticket move it).  `granted` stands for what the       *)
(* Authorisation module decides.  The price of a stored option never       *)
(* changes, so an approval never stops standing, and each recommendation   *)
(* is checked by at most one call: whether it is approved by then is       *)
(* chosen at the start.                                                    *)
(***************************************************************************)
EXTENDS Booking

CONSTANTS
  RecoveryOf,   \* the recommendation each job of kind "recover" executes
  FirstOption   \* the flight option of the original booking

Recommendations == {RecoveryOf[j] : j \in DOMAIN RecoveryOf}
Recoverers == {j \in Jobs : KindOf[j] = "recover"}

ASSUME RecoveryAssumption ==
  /\ DOMAIN RecoveryOf = Recoverers
  /\ IsFiniteSet(Recommendations)
  /\ FirstOption \in Options
  /\ MaxOrders > 0

VARIABLES
  granted,     \* recommendations the traveller approved
  executions,  \* the recovery_executions row of each recommendation
  current,     \* journeys.current_order_no
  cancels,     \* rows of the cancellation_attempts table
  exec         \* per job: the rest of its RecoveryExecution object

recoveryTables == <<executions, current, cancels>>
vars == <<bookingVars, granted, recoveryTables, exec>>

Original == 1
MaybeOrder == OrderNos \union {NoOrder}

ExecutionStatus == {"IN_PROGRESS", "COMPLETED", "ABANDONED"}
CancellationOutcome == {"SUCCEEDED", "FAILED", "NOT_ATTEMPTED"}
Reason == {"price_changed", "alternative_unavailable", "not_authorised",
           "replacement_creation_failed", "replacement_payment_failed"}

(* The replacement of an abandoned row is kept for the properties alone: the
   code leaves that column empty. *)
NoRow == [status |-> "none"]
ExecutionRow ==
  {NoRow} \union [status : {"IN_PROGRESS"}]
    \union [status : {"ABANDONED"}, reason : Reason, replacement : MaybeOrder]
    \union [status : {"COMPLETED"}, superseded : MaybeOrder,
            replacement : OrderNos, cancellation : CancellationOutcome]

ExecFrame == [pc : {"new", "saving", "buying", "secured", "reconciling",
                    "concluding", "over"},
              superseded : MaybeOrder,
              cancellation : CancellationOutcome]

NewExec == [pc |-> "new", superseded |-> NoOrder,
            cancellation |-> "NOT_ATTEMPTED"]

RecoveryTypeOK ==
  /\ TypeOK
  /\ granted \subseteq Recommendations
  /\ executions \in [Recommendations -> ExecutionRow]
  /\ current \in MaybeOrder
  /\ cancels \in Seq([no : OrderNos, confirmed : BOOLEAN])
  /\ exec \in [Recoverers -> ExecFrame]

RecoveryInit ==
  /\ state = "MONITORING"
  /\ audit = <<>>
  /\ held = <<[value |-> Session(FirstOption), issued |-> 0, stale |-> Never]>>
  /\ verified = {FirstOption}
  /\ orders = <<[option |-> FirstOption, session |-> Session(FirstOption),
                 outcome |-> "CREATED", no |-> Original, at |-> 0]>>
  /\ payments = {[no |-> Original, outcome |-> "SUCCESS"]}
  /\ queries = [n \in OrderNos |-> IF n = Original THEN <<TRUE>> ELSE <<>>]
  /\ atlas = <<[option |-> FirstOption, status |-> "ticketed", charges |-> 1]>>
  /\ clock = 0
  /\ job = [j \in Jobs |-> NewFrame]
  /\ granted \in SUBSET Recommendations
  /\ executions = [r \in Recommendations |-> NoRow]
  /\ current = NoOrder
  /\ cancels = <<>>
  /\ exec = [j \in Recoverers |-> NewExec]

-------------------------------------------------------------------------------
In(j, pc) == exec[j].pc = pc
Proceed(j, pc) == exec' = [exec EXCEPT ![j].pc = pc]

(* The call of execute is over, and its object with it. *)
Over(j) == exec' = [exec EXCEPT ![j] = [NewExec EXCEPT !.pc = "over"]]

(* The journey must not have an execution row yet, in one transaction ... *)
CheckExecution(j) ==
  /\ In(j, "new")
  /\ IF executions[RecoveryOf[j]] = NoRow
     THEN /\ Proceed(j, "saving")
          /\ job' = [job EXCEPT ![j].now = clock]
     ELSE Over(j) /\ Raise(j)
  /\ UNCHANGED <<journey, tables, atlas, clock, granted, recoveryTables>>

(* Mutant: the row is upserted, as if recommendation_id were not unique. *)
SaveExecutionUpsert(j) ==
  /\ In(j, "saving")
  /\ executions' = [executions EXCEPT ![RecoveryOf[j]] = [status |-> "IN_PROGRESS"]]
  /\ Goto(j, job[j], "verifying")
  /\ Proceed(j, "buying")
  /\ UNCHANGED <<journey, tables, atlas, clock, granted, current, cancels>>

(* ... and the row is inserted in another, where recommendation_id is unique. *)
SaveExecution(j) ==
  /\ In(j, "saving")
  /\ IF executions[RecoveryOf[j]] = NoRow
     THEN /\ executions' = [executions EXCEPT ![RecoveryOf[j]] =
                              [status |-> "IN_PROGRESS"]]
          /\ Goto(j, job[j], "verifying")
          /\ Proceed(j, "buying")
     ELSE /\ Over(j) /\ Raise(j)
          /\ UNCHANGED executions
  /\ UNCHANGED <<journey, tables, atlas, clock, granted, current, cancels>>

Abandon(j, reason) ==
  /\ executions' = [executions EXCEPT ![RecoveryOf[j]] =
       [status |-> "ABANDONED", reason |-> reason, replacement |-> job[j].no]]
  /\ Stop(j, "ended")
  /\ Over(j)

(* get_order_no_for_journey: an order number with the latest request time. *)
LatestOrder(no) ==
  \E i \in 1..Len(orders) :
    /\ orders[i].no = no /\ no # NoOrder
    /\ \A k \in 1..Len(orders) :
         orders[k].no # NoOrder => orders[k].at <= orders[i].at

(* Mutant: execute trusts its caller to have asked for authorisation. *)
ClearToBuyUnasked(j) ==
  /\ In(j, "buying") /\ At(j, "verified") /\ job[j].result = "VERIFIED"
  /\ \E no \in OrderNos :
       /\ LatestOrder(no)
       /\ exec' = [exec EXCEPT ![j].superseded = no]
  /\ Goto(j, job[j], "ordering")
  /\ UNCHANGED <<journey, tables, atlas, clock, granted, recoveryTables>>

(* With the option verified at an unchanged price and the recommendation
   authorised, the booking it supersedes is noted before a new one exists. *)
ClearToBuy(j) ==
  /\ In(j, "buying") /\ At(j, "verified")
  /\ job[j].result = "VERIFIED" /\ RecoveryOf[j] \in granted
  /\ \E no \in MaybeOrder :
       /\ LatestOrder(no) \/ (no = NoOrder /\ \A n \in OrderNos : ~ LatestOrder(n))
       /\ exec' = [exec EXCEPT ![j].superseded = no]
  /\ Goto(j, job[j], "ordering")
  /\ UNCHANGED <<journey, tables, atlas, clock, granted, recoveryTables>>

(* Mutant: an option whose price changed is verified again. *)
NotClearedReverifying(j) ==
  /\ In(j, "buying") /\ At(j, "verified")
  /\ \/ /\ job[j].result = "PRICE_CHANGED"
        /\ Goto(j, job[j], "verifying")
        /\ UNCHANGED <<executions, exec>>
     \/ job[j].result = "UNAVAILABLE" /\ Abandon(j, "alternative_unavailable")
     \/ /\ job[j].result = "VERIFIED" /\ RecoveryOf[j] \notin granted
        /\ Abandon(j, "not_authorised")
  /\ UNCHANGED <<journey, tables, atlas, clock, granted, current, cancels>>

NotCleared(j) ==
  /\ In(j, "buying") /\ At(j, "verified")
  /\ \/ job[j].result = "PRICE_CHANGED" /\ Abandon(j, "price_changed")
     \/ job[j].result = "UNAVAILABLE" /\ Abandon(j, "alternative_unavailable")
     \/ /\ job[j].result = "VERIFIED" /\ RecoveryOf[j] \notin granted
        /\ Abandon(j, "not_authorised")
  /\ UNCHANGED <<journey, tables, atlas, clock, granted, current, cancels>>

(* Anything but CREATED, SUCCESS and a confirmed ticket ends the attempt. *)
ReplacementFails(j) ==
  /\ In(j, "buying")
  /\ \/ /\ At(j, "ordered") /\ job[j].result # "CREATED"
        /\ Abandon(j, "replacement_creation_failed")
     \/ /\ At(j, "paid") /\ job[j].result # "SUCCESS"
        /\ Abandon(j, "replacement_payment_failed")
     \/ /\ At(j, "queried") /\ job[j].result = "UNCONFIRMED"
        /\ Abandon(j, "replacement_creation_failed")
  /\ UNCHANGED <<journey, tables, atlas, clock, granted, current, cancels>>

(* Mutant: a successful payment is taken as evidence of a ticket. *)
SetCurrentOrderOnPayment(j) ==
  /\ In(j, "buying") /\ At(j, "paid") /\ job[j].result = "SUCCESS"
  /\ current' = job[j].no
  /\ Proceed(j, "secured")
  /\ UNCHANGED <<bookingVars, granted, executions, cancels>>

(* Mutant: the order to release is looked up once the replacement exists. *)
SetCurrentOrderRederiving(j) ==
  /\ In(j, "buying") /\ At(j, "queried") /\ job[j].result = "CONFIRMED"
  /\ current' = job[j].no
  /\ \E no \in OrderNos :
       /\ LatestOrder(no)
       /\ exec' = [exec EXCEPT ![j].pc = "secured", ![j].superseded = no]
  /\ UNCHANGED <<bookingVars, granted, executions, cancels>>

(* FR-009: only a confirmed ticket makes the replacement the current order. *)
SetCurrentOrder(j) ==
  /\ In(j, "buying") /\ At(j, "queried") /\ job[j].result = "CONFIRMED"
  /\ current' = job[j].no
  /\ Proceed(j, IF exec[j].superseded = NoOrder THEN "concluding" ELSE "secured")
  /\ UNCHANGED <<bookingVars, granted, executions, cancels>>

(* The void request; its answer, or the lack of one, decides nothing. *)
VoidSuperseded(j) ==
  /\ In(j, "secured")
  /\ \/ atlas' = [atlas EXCEPT ![exec[j].superseded].status = "void"]
     \/ UNCHANGED atlas
  /\ Proceed(j, "reconciling")
  /\ UNCHANGED <<journey, tables, clock, job, granted, recoveryTables>>

(* The independent query decides, and an answer that cannot be parsed is
   read as one that shows no ticket numbers. *)
Reconcile(j) ==
  /\ In(j, "reconciling")
  /\ \E parsed \in BOOLEAN :
       LET cancelled == ~ (parsed /\ Ticketed(exec[j].superseded)) IN
         /\ cancels' = Append(cancels,
              [no |-> exec[j].superseded, confirmed |-> cancelled])
         /\ exec' = [exec EXCEPT ![j].pc = "concluding", ![j].cancellation =
                       IF cancelled THEN "SUCCEEDED" ELSE "FAILED"]
  /\ UNCHANGED <<bookingVars, granted, executions, current>>

(* The query fails: nothing catches it. *)
ReconcileRaises(j) ==
  /\ In(j, "reconciling")
  /\ Over(j) /\ Raise(j)
  /\ UNCHANGED <<journey, tables, atlas, clock, granted, recoveryTables>>

(* Mutant: the row is concluded without the outcome of the cancellation. *)
ConcludeUnrecorded(j) ==
  /\ In(j, "concluding")
  /\ executions' = [executions EXCEPT ![RecoveryOf[j]] =
       [status |-> "COMPLETED", superseded |-> exec[j].superseded,
        replacement |-> job[j].no]]
  /\ Stop(j, "ended")
  /\ Over(j)
  /\ UNCHANGED <<journey, tables, atlas, clock, granted, current, cancels>>

Conclude(j) ==
  /\ In(j, "concluding")
  /\ executions' = [executions EXCEPT ![RecoveryOf[j]] =
       [status |-> "COMPLETED", superseded |-> exec[j].superseded,
        replacement |-> job[j].no, cancellation |-> exec[j].cancellation]]
  /\ Stop(j, "ended")
  /\ Over(j)
  /\ UNCHANGED <<journey, tables, atlas, clock, granted, current, cancels>>

-------------------------------------------------------------------------------
(* A service call made by any caller: the tables of recovery stay as they are.
   An exception is not caught, so it ends the recovery that made the call. *)
ServiceStep(j) ==
  /\ \/ j \notin Recoverers /\ CallerStep(j)
     \/ j \in Recoverers /\ In(j, "buying") /\ (Verifying(j) \/ Buying(j))
  /\ IF j \in Recoverers /\ job'[j].pc = "raised" THEN Over(j) ELSE UNCHANGED exec
  /\ UNCHANGED <<granted, recoveryTables>>

RecoveryStep(j) ==
  \/ CheckExecution(j) \/ SaveExecution(j) \/ ClearToBuy(j) \/ NotCleared(j)
  \/ ReplacementFails(j) \/ SetCurrentOrder(j) \/ VoidSuperseded(j)
  \/ Reconcile(j) \/ ReconcileRaises(j) \/ Conclude(j)

Dies(j) ==
  /\ Dying(j)
  /\ IF j \in Recoverers THEN Over(j) ELSE UNCHANGED exec
  /\ UNCHANGED <<granted, recoveryTables>>

World == AtlasSettles \/ Tick

RecoveryNext ==
  \/ \E j \in Recoverers : ~ Stopped(j) /\ RecoveryStep(j)
  \/ \E j \in Jobs : ServiceStep(j) \/ Dies(j)
  \/ World /\ UNCHANGED <<granted, recoveryTables, exec>>

RecoverySpec ==
  RecoveryInit /\ [][RecoveryNext]_vars
    /\ (\A j \in Jobs : WF_vars(ServiceStep(j)))
    /\ (\A j \in Recoverers : WF_vars(~ Stopped(j) /\ RecoveryStep(j)))

-------------------------------------------------------------------------------
(* FR-008 and NFR-001 of specs/011: whatever fails, dies or runs beside it, a
   recovery never leaves the traveller without a ticketed booking. *)
NeverStranded == \E n \in 1..Len(atlas) : atlas[n].status = "ticketed"

(* FR-001 and FR-014: one approval buys at most one replacement, and nothing
   is bought without one, however often execute is called. *)
EachGrantSpendsOnce ==
  Cardinality({n \in 1..Len(atlas) : n # Original /\ atlas[n].charges > 0})
    <= Cardinality(granted)

(* FR-009: the journey's current booking is one whose ticketing a stored query
   confirmed and for which the traveller paid. *)
CurrentIsConfirmed ==
  current # NoOrder =>
    /\ atlas[current].charges > 0
    /\ EverConfirmed(current)

(* FR-005: a booking is only ever released by an execution that had secured
   another one: every cancellation attempt on record names an order that was
   superseded by a later, confirmed one. *)
ReleasedAfterSecured ==
  \A i \in 1..Len(cancels) :
    \E n \in OrderNos : n > cancels[i].no /\ EverConfirmed(n)

(* An execution row is written for good: one call creates it, the same call
   concludes it, and a concluded row never changes. *)
ConcludedIsFinal ==
  [][\A r \in Recommendations :
       /\ executions[r].status \in {"COMPLETED", "ABANDONED"} =>
            executions'[r] = executions[r]
       /\ executions[r].status = "IN_PROGRESS" =>
            executions'[r].status # "none"]_executions

(* A bound on the steps a caller has before it, those of execute around the
   service calls included. *)
Stage(pc) ==
  CASE pc = "new" -> 6 [] pc = "saving" -> 5 [] pc = "buying" -> 4
    [] pc = "secured" -> 3 [] pc = "reconciling" -> 2 [] pc = "concluding" -> 1
    [] OTHER -> 0

Remaining(j) == Left(job[j]) + (IF j \in Recoverers THEN Stage(exec[j].pc) ELSE 0)

(* One authorisation starts one bounded sequence of phases (specs/011): execute
   goes through them once, and what fails in one of them is never tried again.
   Every step is Atlas's or the clock's, or brings one caller nearer to its end
   and moves no other. *)
RecoveriesAdvance ==
  [][\/ World
     \/ \E j \in Jobs :
          /\ Remaining(j)' < Remaining(j)
          /\ \A k \in Jobs \ {j} : Remaining(k)' = Remaining(k)]_vars
=============================================================================
