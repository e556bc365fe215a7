---------------------------- MODULE VerificationGate ----------------------------
(***************************************************************************)
(* PostActionVerifier (services/verification_gate.py): what is believed of *)
(* a record held by Atlas, after an action whose own answer is never       *)
(* trusted.  A verification asks Atlas, classifies the answer, reads the   *)
(* stored attempts to see whether the answer is news, and stores itself.   *)
(* Verifications of one record overlap, and nothing holds a lock between   *)
(* any two of these steps.                                                 *)
(***************************************************************************)
EXTENDS Integers, Sequences, FiniteSets

CONSTANTS
  Records,      \* the records an action may affect (order references)
  Verifiers,    \* threads that may be inside verify
  Results,      \* the ConditionResults the registered condition can give
  MaxAttempts,  \* ReconciliationBound.max_attempts: {} for None, or {n}
  MaxDuration,  \* ReconciliationBound.max_duration_seconds, likewise
  MaxClock,     \* bound: the last instant explored
  MaxRows       \* bound: attempts stored for one record

ConditionResults == {"SUCCESS", "FAILURE", "INCONCLUSIVE", "NOT_FOUND"}

ASSUME GateAssumption ==
  /\ Results \subseteq ConditionResults
  /\ MaxAttempts \subseteq Nat \ {0}
  /\ MaxDuration \subseteq Nat \ {0}
  /\ MaxClock \in Nat
  /\ MaxRows \in Nat

VARIABLES
  attempts,  \* per record: its verification_attempts rows, in insertion order
  run,       \* per verifier: the frame of its verify call
  clock      \* datetime.now(), the same for every thread

gateVars == <<attempts, run, clock>>

Time == 0..MaxClock
Outcomes == {"SUCCESS", "FAILURE", "UNRESOLVED"}
Conclusive == {"SUCCESS", "FAILURE"}

Attempt == [observed : Time, result : ConditionResults, outcome : Outcomes,
            applied : BOOLEAN]

Frame ==
  [pc : {"idle"}]
    \union [pc : {"querying"}, record : Records, now : Time]
    \union [pc : {"judging"}, record : Records, now : Time, observed : Time]
    \union [pc : {"applying"}, record : Records, observed : Time,
            result : ConditionResults, outcome : Conclusive]
    \union [pc : {"saving"}, record : Records, observed : Time,
            result : ConditionResults, outcome : Outcomes, apply : BOOLEAN]
    \union [pc : {"returned"}, record : Records, outcome : Outcomes]

Idle == [pc |-> "idle"]
At(v, pc) == run[v].pc = pc

GateTypeOK ==
  /\ attempts \in [Records -> Seq(Attempt)]
  /\ run \in [Verifiers -> Frame]
  /\ clock \in Time

GateInit ==
  /\ attempts = [r \in Records |-> <<>>]
  /\ run = [v \in Verifiers |-> Idle]
  /\ clock = 0

-------------------------------------------------------------------------------
(* Reading the attempts stored for a record. *)

Rows(r) == 1..Len(attempts[r])

(* history[0].observed_at: the rows are read in the order of observation. *)
FirstObserved(r, now) ==
  IF attempts[r] = <<>> THEN now
  ELSE CHOOSE t \in Time :
         /\ \E i \in Rows(r) : attempts[r][i].observed = t
         /\ \A i \in Rows(r) : t <= attempts[r][i].observed

(* Mutant: the attempt at hand is counted twice. *)
BoundReachedTwice(count, first, now) ==
  \/ \E n \in MaxAttempts : count + 1 >= n
  \/ \E d \in MaxDuration : now - first >= d

BoundReached(count, first, now) ==
  \/ \E n \in MaxAttempts : count >= n
  \/ \E d \in MaxDuration : now - first >= d

(* A record not found is a failure only when the bound is reached and no
   attempt so far saw anything else. *)
NeverFound(r, now) ==
  /\ BoundReached(Len(attempts[r]) + 1, FirstObserved(r, now), now)
  /\ \A i \in Rows(r) : attempts[r][i].result = "NOT_FOUND"

Applied(r) == {i \in Rows(r) : attempts[r][i].applied}

(* Mutant: only the first conclusion is ever applied. *)
ShouldApplyFirst(r, observed) == Applied(r) = {}

(* observed_at > latest_applied.observed_at, the latest by observed_at. *)
ShouldApply(r, observed) ==
  \A i \in Applied(r) : observed > attempts[r][i].observed

-------------------------------------------------------------------------------
(* PostActionVerifier.verify, one action between two accesses. *)

Running(r) == {v \in Verifiers : run[v] # Idle /\ run[v].record = r}

StartVerify(v, r, now) ==
  /\ At(v, "idle")
  /\ Len(attempts[r]) + Cardinality(Running(r)) < MaxRows
  /\ run' = [run EXCEPT ![v] = [pc |-> "querying", record |-> r, now |-> now]]
  /\ UNCHANGED <<attempts, clock>>

Unresolved(r, observed, result) ==
  [pc |-> "saving", record |-> r, observed |-> observed, result |-> result,
   outcome |-> "UNRESOLVED", apply |-> FALSE]

Concluded(r, observed, result, outcome) ==
  [pc |-> "applying", record |-> r, observed |-> observed, result |-> result,
   outcome |-> outcome]

(* The answer is observed when it has arrived, on the asker's clock. *)
QueryAnswered(v) ==
  /\ At(v, "querying")
  /\ \E result \in Results :
       run' = [run EXCEPT ![v] =
         CASE result \in Conclusive ->
                Concluded(@.record, clock, result, result)
           [] result = "INCONCLUSIVE" ->
                Unresolved(@.record, clock, result)
           [] result = "NOT_FOUND" ->
                [pc |-> "judging", record |-> @.record, now |-> @.now,
                 observed |-> clock]]
  /\ UNCHANGED <<attempts, clock>>

(* query_fn raises: an attempt all the same, observed when it was begun. *)
QueryFails(v) ==
  /\ At(v, "querying")
  /\ run' = [run EXCEPT ![v] = Unresolved(@.record, @.now, "INCONCLUSIVE")]
  /\ UNCHANGED <<attempts, clock>>

Judge(v) ==
  /\ At(v, "judging")
  /\ run' = [run EXCEPT ![v] =
       IF NeverFound(@.record, @.now)
       THEN Concluded(@.record, @.observed, "NOT_FOUND", "FAILURE")
       ELSE Unresolved(@.record, @.observed, "NOT_FOUND")]
  /\ UNCHANGED <<attempts, clock>>

Apply(v) ==
  /\ At(v, "applying")
  /\ run' = [run EXCEPT ![v] =
       [pc |-> "saving", record |-> @.record, observed |-> @.observed,
        result |-> @.result, outcome |-> @.outcome,
        apply |-> ShouldApply(@.record, @.observed)]]
  /\ UNCHANGED <<attempts, clock>>

SaveAttempt(v) ==
  /\ At(v, "saving")
  /\ LET f == run[v] IN
       /\ attempts' = [attempts EXCEPT ![f.record] =
            Append(@, [observed |-> f.observed, result |-> f.result,
                       outcome |-> f.outcome, applied |-> f.apply])]
       /\ run' = [run EXCEPT ![v] =
            [pc |-> "returned", record |-> f.record, outcome |-> f.outcome]]
  /\ UNCHANGED clock

(* The caller goes on with the attempt that verify returned. *)
Return(v) ==
  /\ At(v, "returned")
  /\ run' = [run EXCEPT ![v] = Idle]
  /\ UNCHANGED <<attempts, clock>>

(* classify, the serialisation of an answer or a table access raises. *)
VerifyRaises(v) ==
  /\ ~ At(v, "idle") /\ ~ At(v, "returned")
  /\ run' = [run EXCEPT ![v] = Idle]
  /\ UNCHANGED <<attempts, clock>>

(* reconcile_unresolved asks again only while the bound is not reached. *)
ReconcileUnresolved(v, r) ==
  /\ \/ attempts[r] = <<>>
     \/ ~ BoundReached(Len(attempts[r]), FirstObserved(r, clock), clock)
  /\ StartVerify(v, r, clock)

(* The server process dies: its threads are gone, the rows are not. *)
CrashServer ==
  /\ run' = [v \in Verifiers |-> Idle]
  /\ UNCHANGED <<attempts, clock>>

Tick ==
  /\ clock < MaxClock
  /\ clock' = clock + 1
  /\ UNCHANGED <<attempts, run>>

VerifyStep(v) ==
  \/ QueryAnswered(v) \/ QueryFails(v) \/ Judge(v) \/ Apply(v)
  \/ SaveAttempt(v)

GateNext ==
  \/ \E v \in Verifiers :
       \/ VerifyStep(v) \/ Return(v) \/ VerifyRaises(v)
       \/ \E r \in Records :
            \/ \E now \in 0..clock : StartVerify(v, r, now)
            \/ ReconcileUnresolved(v, r)
  \/ CrashServer
  \/ Tick

GateSpec == GateInit /\ [][GateNext]_gateVars

-------------------------------------------------------------------------------
(* Properties. *)

(* What get_latest_applied_attempt offers to the traveller is never older
   than a conclusion the gate has stored: whatever the order in which the
   verifications of a record began, were answered and were stored, every
   conclusive attempt has an applied attempt observed no earlier
   (verify:82-86, _should_apply:184-188). *)
ReportableIsNewest ==
  \A r \in Records : \A i \in Rows(r) :
    attempts[r][i].outcome \in Conclusive =>
      \E j \in Applied(r) : attempts[r][j].observed >= attempts[r][i].observed

(* A record is declared absent only when the bound was reached: that many
   attempts up to this one, or one observed that long before it
   (_resolve_classification:143-154, _bound_reached_for_results:175-182). *)
AbsenceIsBounded ==
  \A r \in Records : \A i \in Rows(r) :
    LET a == attempts[r][i] IN
    a.result = "NOT_FOUND" /\ a.outcome = "FAILURE" =>
      \/ \E n \in MaxAttempts : i >= n
      \/ \E d \in MaxDuration, j \in 1..(i - 1) :
           a.observed - attempts[r][j].observed >= d

===============================================================================
