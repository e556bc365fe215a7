------------------------ MODULE VerificationGateProofs ------------------------
(***************************************************************************)
(* Proofs about VerificationGate for every set of records, verifiers and   *)
(* results, every bound and every number of attempts.                      *)
(***************************************************************************)
EXTENDS VerificationGate, WellFoundedInduction, TLAPS

(* What the frame of a call holds at each point of verify. *)
LEMMA FrameFacts ==
  ASSUME GateTypeOK, NEW v \in Verifiers
  PROVE  /\ run[v].pc = "querying" =>
              run[v].record \in Records /\ run[v].now \in Time
         /\ run[v].pc = "judging" =>
              /\ run[v].record \in Records
              /\ run[v].now \in Time /\ run[v].observed \in Time
         /\ run[v].pc = "applying" =>
              /\ run[v].record \in Records /\ run[v].observed \in Time
              /\ run[v].result \in ConditionResults
              /\ run[v].outcome \in Conclusive
         /\ run[v].pc = "saving" =>
              /\ run[v].record \in Records /\ run[v].observed \in Time
              /\ run[v].result \in ConditionResults
              /\ run[v].outcome \in Outcomes /\ run[v].apply \in BOOLEAN
  BY DEF GateTypeOK, Frame

(* What a stored row holds. *)
LEMMA RowFacts ==
  ASSUME GateTypeOK, NEW r \in Records, NEW i \in Rows(r)
  PROVE  /\ attempts[r][i].observed \in Int
         /\ attempts[r][i].applied \in BOOLEAN
<1>1. attempts[r] \in Seq(Attempt) /\ i \in 1..Len(attempts[r])
  BY DEF GateTypeOK, Rows
<1>2. attempts[r][i] \in Attempt
  BY <1>1
<1> QED BY <1>2 DEF Attempt, Time

(* What the insertion of one row does to the attempts stored. *)
LEMMA SaveFacts ==
  ASSUME GateTypeOK, NEW v \in Verifiers, SaveAttempt(v)
  PROVE  /\ attempts' \in [Records -> Seq(Attempt)]
         /\ \A r \in Records : r # run[v].record => attempts'[r] = attempts[r]
         /\ \A r \in Records : r = run[v].record =>
              /\ Len(attempts[r]) \in Nat
              /\ Len(attempts'[r]) = Len(attempts[r]) + 1
              /\ \A i \in 1..Len(attempts[r]) : attempts'[r][i] = attempts[r][i]
              /\ attempts'[r][Len(attempts[r]) + 1] =
                   [observed |-> run[v].observed, result |-> run[v].result,
                    outcome |-> run[v].outcome, applied |-> run[v].apply]
<1> DEFINE a == [observed |-> run[v].observed, result |-> run[v].result,
                 outcome |-> run[v].outcome, applied |-> run[v].apply]
<1>1. PICK r \in Records : r = run[v].record
  BY FrameFacts DEF SaveAttempt, At
<1>2. a \in Attempt
  BY FrameFacts DEF SaveAttempt, At, Attempt
<1>3. attempts[r] \in Seq(Attempt)
  BY DEF GateTypeOK
<1>4. attempts' = [attempts EXCEPT ![r] = Append(@, a)]
  BY <1>1 DEF SaveAttempt
<1>5. attempts'[r] = Append(attempts[r], a)
  BY <1>4 DEF GateTypeOK
<1> HIDE DEF a
<1>6. /\ Len(attempts[r]) \in Nat
      /\ Append(attempts[r], a) \in Seq(Attempt)
      /\ Len(Append(attempts[r], a)) = Len(attempts[r]) + 1
      /\ \A i \in 1..Len(attempts[r]) : Append(attempts[r], a)[i] = attempts[r][i]
      /\ Append(attempts[r], a)[Len(attempts[r]) + 1] = a
  BY <1>2, <1>3
<1>7. attempts' \in [Records -> Seq(Attempt)]
  BY <1>4, <1>6 DEF GateTypeOK
<1>8. \A s \in Records : s # r => attempts'[s] = attempts[s]
  BY <1>4 DEF GateTypeOK
<1> QED BY <1>1, <1>5, <1>6, <1>7, <1>8 DEF a

LEMMA GateTypeStep == GateTypeOK /\ [GateNext]_gateVars => GateTypeOK'
<1> SUFFICES ASSUME GateTypeOK, [GateNext]_gateVars PROVE GateTypeOK'
  OBVIOUS
<1> USE GateAssumption
<1>1. ASSUME NEW v \in Verifiers, NEW r \in Records, NEW now \in 0..clock,
             StartVerify(v, r, now)
      PROVE  GateTypeOK'
  BY <1>1 DEF GateTypeOK, StartVerify, Frame, Time
<1>2. ASSUME NEW v \in Verifiers, QueryAnswered(v) PROVE GateTypeOK'
  <2>1. PICK result \in Results : run' = [run EXCEPT ![v] =
          CASE result \in Conclusive -> Concluded(@.record, clock, result, result)
            [] result = "INCONCLUSIVE" -> Unresolved(@.record, clock, result)
            [] result = "NOT_FOUND" ->
                 [pc |-> "judging", record |-> @.record, now |-> @.now,
                  observed |-> clock]]
    BY <1>2 DEF QueryAnswered
  <2>2. result \in ConditionResults
    OBVIOUS
  <2>3. /\ run[v].record \in Records /\ run[v].now \in Time
        /\ clock \in Time
    BY <1>2, FrameFacts DEF QueryAnswered, At, GateTypeOK
  <2>4. CASE result \in Conclusive
    BY <1>2, <2>1, <2>3, <2>4 DEF GateTypeOK, QueryAnswered, Frame, Concluded,
       Conclusive, ConditionResults
  <2>5. CASE result = "INCONCLUSIVE"
    BY <1>2, <2>1, <2>3, <2>5 DEF GateTypeOK, QueryAnswered, Frame, Unresolved,
       Conclusive, ConditionResults, Outcomes
  <2>6. CASE result = "NOT_FOUND"
    BY <1>2, <2>1, <2>3, <2>6 DEF GateTypeOK, QueryAnswered, Frame, Conclusive
  <2> QED BY <2>2, <2>4, <2>5, <2>6 DEF ConditionResults, Conclusive
<1>3. ASSUME NEW v \in Verifiers, QueryFails(v) PROVE GateTypeOK'
  BY <1>3, FrameFacts DEF GateTypeOK, QueryFails, At, Unresolved, Frame,
     ConditionResults, Outcomes
<1>4. ASSUME NEW v \in Verifiers, Judge(v) PROVE GateTypeOK'
  BY <1>4, FrameFacts DEF GateTypeOK, Judge, At, Concluded, Unresolved, Frame,
     Conclusive, ConditionResults, Outcomes
<1>5. ASSUME NEW v \in Verifiers, Apply(v) PROVE GateTypeOK'
  <2>1. /\ run[v].record \in Records /\ run[v].observed \in Time
        /\ run[v].result \in ConditionResults /\ run[v].outcome \in Outcomes
    BY <1>5, FrameFacts DEF Apply, At, Conclusive, Outcomes
  <2>2. ShouldApply(run[v].record, run[v].observed) \in BOOLEAN
    BY DEF ShouldApply
  <2> QED BY <1>5, <2>1, <2>2 DEF GateTypeOK, Apply, Frame
<1>6. ASSUME NEW v \in Verifiers, SaveAttempt(v) PROVE GateTypeOK'
  <2>1. attempts' \in [Records -> Seq(Attempt)]
    BY <1>6, SaveFacts
  <2>2. run' \in [Verifiers -> Frame]
    BY <1>6, FrameFacts DEF GateTypeOK, SaveAttempt, At, Frame
  <2> QED BY <1>6, <2>1, <2>2 DEF GateTypeOK, SaveAttempt
<1>7. ASSUME NEW v \in Verifiers, Return(v) \/ VerifyRaises(v)
      PROVE  GateTypeOK'
  BY <1>7 DEF GateTypeOK, Return, VerifyRaises, Frame, Idle
<1>8. ASSUME NEW v \in Verifiers, NEW r \in Records, ReconcileUnresolved(v, r)
      PROVE  GateTypeOK'
  BY <1>1, <1>8 DEF ReconcileUnresolved, GateTypeOK, Time
<1>9. CASE CrashServer
  BY <1>9 DEF GateTypeOK, CrashServer, Frame, Idle
<1>10. CASE Tick
  BY <1>10 DEF GateTypeOK, Tick, Time
<1>11. CASE UNCHANGED gateVars
  BY <1>11 DEF GateTypeOK, gateVars
<1> QED BY <1>1, <1>2, <1>3, <1>4, <1>5, <1>6, <1>7, <1>8, <1>9, <1>10, <1>11
        DEF GateNext, VerifyStep

(* Every stored attempt and every call of verify is well formed, whatever its
   condition answers and wherever the server stops. *)
THEOREM GateTypeCorrect == GateSpec => []GateTypeOK
<1>1. GateInit => GateTypeOK
  BY GateAssumption DEF GateInit, GateTypeOK, Frame, Idle, Time
<1> QED BY <1>1, GateTypeStep, PTL DEF GateSpec

-------------------------------------------------------------------------------
(* A call that decided not to apply its conclusion did so because a newer one
   is applied already.  The converse fails: between its read and its insertion
   a call that decided to apply may be overtaken, and two rows are applied. *)
HoldsBackForNewer ==
  \A v \in Verifiers :
    run[v].pc = "saving" /\ run[v].outcome \in Conclusive /\ ~ run[v].apply =>
      \E j \in Applied(run[v].record) :
        attempts[run[v].record][j].observed >= run[v].observed

GateInv == GateTypeOK /\ HoldsBackForNewer /\ ReportableIsNewest

(* Rows are never taken away: what is applied stays applied. *)
LEMMA AppliedStays ==
  ASSUME GateTypeOK, NEW v \in Verifiers, SaveAttempt(v),
         NEW r \in Records, NEW j \in Applied(r)
  PROVE  j \in Applied(r)' /\ attempts'[r][j] = attempts[r][j]
<1>1. j \in 1..Len(attempts[r]) /\ attempts[r][j].applied
  BY DEF Applied, Rows
<1>2. CASE r = run[v].record
  <2>1. /\ Len(attempts[r]) \in Nat
        /\ Len(attempts'[r]) = Len(attempts[r]) + 1
        /\ attempts'[r][j] = attempts[r][j]
    BY <1>1, <1>2, SaveFacts
  <2> QED BY <1>1, <2>1 DEF Applied, Rows
<1>3. CASE r # run[v].record
  BY <1>1, <1>3, SaveFacts DEF Applied, Rows
<1> QED BY <1>2, <1>3

(* A step that inserts nothing disturbs neither what is stored nor the calls
   that are about to store, except the one it moves. *)
LEMMA QuietStep ==
  ASSUME GateInv, UNCHANGED attempts,
         \A v \in Verifiers :
           run'[v].pc = "saving" =>
             \/ run'[v] = run[v]
             \/ run'[v].outcome = "UNRESOLVED"
             \/ /\ run'[v].record \in Records
                /\ run'[v].observed \in Time
                /\ run'[v].apply = ShouldApply(run'[v].record, run'[v].observed)
  PROVE  HoldsBackForNewer' /\ ReportableIsNewest'
<1>1. ReportableIsNewest'
  BY DEF GateInv, ReportableIsNewest, Rows, Applied
<1>2. ASSUME NEW v \in Verifiers, run'[v].pc = "saving",
             run'[v].outcome \in Conclusive, ~ run'[v].apply
      PROVE  \E j \in Applied(run'[v].record) :
               attempts[run'[v].record][j].observed >= run'[v].observed
  <2>1. CASE run'[v] = run[v]
    BY <1>2, <2>1 DEF GateInv, HoldsBackForNewer
  <2>2. CASE /\ run'[v].record \in Records /\ run'[v].observed \in Time
             /\ run'[v].apply = ShouldApply(run'[v].record, run'[v].observed)
    <3>1. PICK j \in Applied(run'[v].record) :
            ~ (run'[v].observed > attempts[run'[v].record][j].observed)
      BY <1>2, <2>2 DEF ShouldApply
    <3>2. attempts[run'[v].record][j].observed \in Int
      BY <2>2, <3>1, RowFacts DEF GateInv, Applied
    <3> QED BY <2>2, <3>1, <3>2 DEF Time
  <2> QED BY <1>2, <2>1, <2>2 DEF Conclusive
<1>3. HoldsBackForNewer'
  <2>1. \A r : Applied(r)' = Applied(r)
    BY DEF Applied, Rows
  <2> QED BY <1>2, <2>1 DEF HoldsBackForNewer
<1> QED BY <1>1, <1>3

LEMMA SaveStep ==
  ASSUME GateInv, NEW v \in Verifiers, SaveAttempt(v)
  PROVE  HoldsBackForNewer' /\ ReportableIsNewest'
<1>1. /\ GateTypeOK /\ run[v].pc = "saving"
      /\ run[v].record \in Records /\ run[v].observed \in Time
      /\ run[v].apply \in BOOLEAN
  BY FrameFacts DEF GateInv, SaveAttempt, At
<1>2. ASSUME NEW w \in Verifiers, run'[w].pc = "saving",
             run'[w].outcome \in Conclusive, ~ run'[w].apply
      PROVE  \E j \in Applied(run[w].record)' :
               attempts'[run'[w].record][j].observed >= run'[w].observed
  <2>1. w # v /\ run'[w] = run[w]
    BY <1>1, <1>2 DEF SaveAttempt, GateTypeOK
  <2>2. PICK r \in Records : r = run[w].record
    BY <1>1, <1>2, <2>1, FrameFacts
  <2>3. PICK j \in Applied(r) : attempts[r][j].observed >= run[w].observed
    BY <1>2, <2>1, <2>2 DEF GateInv, HoldsBackForNewer
  <2>4. j \in Applied(r)' /\ attempts'[r][j] = attempts[r][j]
    BY <1>1, <2>3, AppliedStays
  <2>5. Applied(run[w].record)' = Applied(r)'
    BY <2>1, <2>2 DEF Applied, Rows
  <2> QED BY <2>1, <2>2, <2>3, <2>4, <2>5
<1>3. ASSUME NEW r \in Records, NEW i \in Rows(r)',
             attempts'[r][i].outcome \in Conclusive
      PROVE  \E j \in Applied(r)' :
               attempts'[r][j].observed >= attempts'[r][i].observed
  <2>1. ASSUME i \in Rows(r), attempts'[r][i] = attempts[r][i]
        PROVE  \E j \in Applied(r)' :
                 attempts'[r][j].observed >= attempts'[r][i].observed
    <3>1. PICK j \in Applied(r) :
            attempts[r][j].observed >= attempts[r][i].observed
      BY <1>3, <2>1 DEF GateInv, ReportableIsNewest
    <3>2. j \in Applied(r)' /\ attempts'[r][j] = attempts[r][j]
      BY <1>1, <3>1, AppliedStays
    <3> QED BY <2>1, <3>1, <3>2
  <2>2. CASE r # run[v].record
    <3>1. attempts'[r] = attempts[r]
      BY <1>1, <2>2, SaveFacts
    <3> QED BY <2>1, <3>1 DEF Rows
  <2> DEFINE n == Len(attempts[r])
  <2>3. ASSUME r = run[v].record
        PROVE  /\ n \in Nat /\ i \in 1..(n + 1)
               /\ \A k \in 1..n : attempts'[r][k] = attempts[r][k]
               /\ attempts'[r][n + 1] =
                    [observed |-> run[v].observed, result |-> run[v].result,
                     outcome |-> run[v].outcome, applied |-> run[v].apply]
    BY <1>1, <2>3, SaveFacts DEF Rows
  <2>4. CASE r = run[v].record /\ i # n + 1
    <3>1. i \in 1..n
      BY <2>4, <2>3
    <3> QED BY <2>1, <2>4, <2>3, <3>1 DEF Rows
  <2>5. CASE r = run[v].record /\ i = n + 1
    <3>1. /\ attempts'[r][i].observed = run[v].observed
          /\ attempts'[r][i].outcome = run[v].outcome
          /\ attempts'[r][i].applied = run[v].apply
      BY <2>5, <2>3
    <3>2. CASE run[v].apply
      <4>1. i \in Applied(r)'
        BY <3>1, <3>2 DEF Applied
      <4> QED BY <1>1, <3>1, <4>1 DEF Time
    <3>3. CASE ~ run[v].apply
      <4>1. PICK j \in Applied(r) :
              attempts[r][j].observed >= run[v].observed
        BY <1>1, <1>3, <2>5, <3>1, <3>3 DEF GateInv, HoldsBackForNewer
      <4>2. j \in Applied(r)' /\ attempts'[r][j] = attempts[r][j]
        BY <1>1, <4>1, AppliedStays
      <4> QED BY <3>1, <4>1, <4>2
    <3> QED BY <3>2, <3>3
  <2> QED BY <2>2, <2>3, <2>4, <2>5
<1> QED BY <1>2, <1>3 DEF HoldsBackForNewer, ReportableIsNewest

LEMMA GateStep == GateInv /\ [GateNext]_gateVars => GateInv'
<1> SUFFICES ASSUME GateInv, [GateNext]_gateVars PROVE GateInv'
  OBVIOUS
<1>1. GateTypeOK'
  BY GateTypeStep DEF GateInv
<1>2. ASSUME UNCHANGED attempts,
             \A v \in Verifiers : run'[v].pc = "saving" =>
               \/ run'[v] = run[v]
               \/ run'[v].outcome = "UNRESOLVED"
      PROVE  HoldsBackForNewer' /\ ReportableIsNewest'
  BY <1>2, QuietStep
<1>3. ASSUME NEW v \in Verifiers, NEW r \in Records, NEW now,
             StartVerify(v, r, now)
      PROVE  HoldsBackForNewer' /\ ReportableIsNewest'
  BY <1>2, <1>3 DEF GateInv, GateTypeOK, StartVerify
<1>4. ASSUME NEW v \in Verifiers, QueryAnswered(v)
      PROVE  HoldsBackForNewer' /\ ReportableIsNewest'
  <2>1. PICK result \in Results : run' = [run EXCEPT ![v] =
          CASE result \in Conclusive -> Concluded(@.record, clock, result, result)
            [] result = "INCONCLUSIVE" -> Unresolved(@.record, clock, result)
            [] result = "NOT_FOUND" ->
                 [pc |-> "judging", record |-> @.record, now |-> @.now,
                  observed |-> clock]]
    BY <1>4 DEF QueryAnswered
  <2>2. result \in Conclusive \union {"INCONCLUSIVE", "NOT_FOUND"}
    BY GateAssumption DEF ConditionResults, Conclusive
  <2>3. run'[v].pc = "saving" => run'[v].outcome = "UNRESOLVED"
    BY <2>1, <2>2 DEF GateInv, GateTypeOK, Concluded, Unresolved, Conclusive
  <2>4. \A w \in Verifiers : w # v => run'[w] = run[w]
    BY <2>1 DEF GateInv, GateTypeOK
  <2>5. UNCHANGED attempts
    BY <1>4 DEF QueryAnswered
  <2> QED BY <1>2, <2>3, <2>4, <2>5
<1>5. ASSUME NEW v \in Verifiers, QueryFails(v) \/ Judge(v)
      PROVE  HoldsBackForNewer' /\ ReportableIsNewest'
  <2>1. run'[v].pc = "saving" => run'[v].outcome = "UNRESOLVED"
    BY <1>5 DEF GateInv, GateTypeOK, QueryFails, Judge, Concluded, Unresolved
  <2>2. \A w \in Verifiers \ {v} : run'[w] = run[w]
    BY <1>5 DEF GateInv, GateTypeOK, QueryFails, Judge
  <2> QED BY <1>2, <1>5, <2>1, <2>2 DEF QueryFails, Judge
<1>6. ASSUME NEW v \in Verifiers, Apply(v)
      PROVE  HoldsBackForNewer' /\ ReportableIsNewest'
  <2>1. /\ run'[v].record = run[v].record /\ run'[v].observed = run[v].observed
        /\ run'[v].apply = ShouldApply(run[v].record, run[v].observed)
    BY <1>6 DEF GateInv, GateTypeOK, Apply
  <2>2. run[v].record \in Records /\ run[v].observed \in Time
    BY <1>6, FrameFacts DEF GateInv, Apply, At
  <2>3. \A w \in Verifiers \ {v} : run'[w] = run[w]
    BY <1>6 DEF GateInv, GateTypeOK, Apply
  <2> QED BY <1>6, <2>1, <2>2, <2>3, QuietStep DEF Apply
<1>7. ASSUME NEW v \in Verifiers, SaveAttempt(v)
      PROVE  HoldsBackForNewer' /\ ReportableIsNewest'
  BY <1>7, SaveStep
<1>8. ASSUME NEW v \in Verifiers, Return(v) \/ VerifyRaises(v)
      PROVE  HoldsBackForNewer' /\ ReportableIsNewest'
  BY <1>2, <1>8 DEF GateInv, GateTypeOK, Return, VerifyRaises, Idle
<1>9. ASSUME CrashServer PROVE HoldsBackForNewer' /\ ReportableIsNewest'
  BY <1>2, <1>9 DEF CrashServer, Idle
<1>10. ASSUME Tick \/ UNCHANGED gateVars
       PROVE  HoldsBackForNewer' /\ ReportableIsNewest'
  BY <1>2, <1>10 DEF Tick, gateVars
<1> QED BY <1>1, <1>3, <1>4, <1>5, <1>6, <1>7, <1>8, <1>9, <1>10
        DEF GateInv, GateNext, VerifyStep, ReconcileUnresolved

(* Whatever the order in which the verifications of a record begin, are
   answered and are stored, and wherever the server stops, the conclusion on
   offer to the traveller is never older than one the gate has stored: each
   conclusive attempt has an applied attempt observed no earlier. *)
THEOREM NewestIsReportable == GateSpec => []ReportableIsNewest
<1>1. GateInit => GateInv
  <2>1. GateInit => GateTypeOK
    BY GateAssumption DEF GateInit, GateTypeOK, Frame, Idle, Time
  <2>2. GateInit => HoldsBackForNewer
    BY DEF GateInit, HoldsBackForNewer, Idle
  <2>3. GateInit => ReportableIsNewest
    BY DEF GateInit, ReportableIsNewest, Rows
  <2> QED BY <2>1, <2>2, <2>3 DEF GateInv
<1>2. GateInv => ReportableIsNewest
  BY DEF GateInv
<1> QED BY <1>1, <1>2, GateStep, PTL DEF GateSpec

-------------------------------------------------------------------------------
(* Absence. *)

LEMMA LeastNatural ==
  ASSUME NEW T, T \subseteq Nat, T # {}
  PROVE  \E n \in T : \A m \in T : n <= m
<1>1. PICK n \in T : \A m \in T : <<m, n>> \notin OpToRel(<, Nat)
  <2> DEFINE R == OpToRel(<, Nat)
  <2>1. IsWellFoundedOn(R, Nat)
    BY NatLessThanWellFounded
  <2> HIDE DEF R
  <2>2. \E n \in T : \A m \in T : ~(<<m, n>> \in R)
    BY <2>1, WFMin
  <2> QED BY <2>2 DEF R
<1>2. ASSUME NEW m \in T
      PROVE  n <= m
  <2>1. ~(m < n)
    BY <1>1 DEF OpToRel
  <2> QED BY <2>1
<1> QED BY <1>2

(* The time the bound is measured from is that of a stored attempt. *)
LEMMA FirstIsStored ==
  ASSUME GateTypeOK, NEW r \in Records, NEW now, attempts[r] # <<>>
  PROVE  \E j \in Rows(r) : attempts[r][j].observed = FirstObserved(r, now)
<1> DEFINE T == {attempts[r][i].observed : i \in Rows(r)}
<1>1. /\ attempts[r] \in Seq(Attempt) /\ Len(attempts[r]) \in Nat
      /\ \A i \in Rows(r) : attempts[r][i] \in Attempt
  BY DEF GateTypeOK, Rows
<1>2. \A i \in Rows(r) : attempts[r][i].observed \in Time
  BY <1>1 DEF Attempt
<1>3. T \subseteq Time /\ Time \subseteq Nat
  BY <1>2, GateAssumption DEF Time
<1>4. 1 \in Rows(r)
  BY <1>1 DEF Rows
<1>5. T # {}
  BY <1>4
<1> DEFINE Least(t) == /\ \E i \in Rows(r) : attempts[r][i].observed = t
                       /\ \A i \in Rows(r) : t <= attempts[r][i].observed
<1>6. \E t \in Time : Least(t)
  <2>1. PICK t \in T : \A u \in T : t <= u
    <3> HIDE DEF T
    <3> QED BY <1>3, <1>5, LeastNatural
  <2>2. Least(t) /\ t \in Time
    BY <1>3, <2>1
  <2> QED BY <2>2
<1>7. FirstObserved(r, now) = CHOOSE t \in Time : Least(t)
  BY DEF FirstObserved
<1>8. Least(FirstObserved(r, now))
  <2> HIDE DEF Least
  <2> QED BY <1>6, <1>7
<1> QED BY <1>8

(* A call asks after it was called. *)
AsksLater ==
  \A v \in Verifiers :
    /\ run[v].pc = "querying" => run[v].now <= clock
    /\ run[v].pc = "judging" => run[v].now <= run[v].observed

(* An absence concluded and not yet stored has reached the bound. *)
Reached(r, count, observed) ==
  \/ \E n \in MaxAttempts : count >= n
  \/ \E d \in MaxDuration, j \in Rows(r) :
       observed - attempts[r][j].observed >= d

JudgedAtBound ==
  \A v \in Verifiers :
    run[v].pc \in {"applying", "saving"} /\ run[v].result = "NOT_FOUND"
      /\ run[v].outcome = "FAILURE" =>
        Reached(run[v].record, Len(attempts[run[v].record]) + 1, run[v].observed)

AbsenceInv == GateTypeOK /\ AsksLater /\ JudgedAtBound /\ AbsenceIsBounded

(* A step that inserts nothing. *)
LEMMA QuietAbsence ==
  ASSUME AbsenceInv, UNCHANGED attempts,
         \A v \in Verifiers :
           \/ run'[v] = run[v] /\ clock' >= clock
           \/ /\ run'[v].pc = "querying" => run'[v].now <= clock'
              /\ run'[v].pc = "judging" => run'[v].now <= run'[v].observed
              /\ run'[v].pc \in {"applying", "saving"} /\ run'[v].result = "NOT_FOUND"
                   /\ run'[v].outcome = "FAILURE" =>
                     Reached(run'[v].record, Len(attempts[run'[v].record]) + 1,
                             run'[v].observed),
         clock' \in Int
  PROVE  AsksLater' /\ JudgedAtBound' /\ AbsenceIsBounded'
<1>1. AbsenceIsBounded'
  BY DEF AbsenceInv, AbsenceIsBounded, Rows
<1>2. \A r, n, t : Reached(r, n, t)' = Reached(r, n, t)
  BY DEF Reached, Rows
<1>3. JudgedAtBound'
  BY <1>2 DEF AbsenceInv, JudgedAtBound, Reached, Rows
<1>4. AsksLater'
  <2> SUFFICES ASSUME NEW v \in Verifiers
               PROVE  /\ run'[v].pc = "querying" => run'[v].now <= clock'
                      /\ run'[v].pc = "judging" => run'[v].now <= run'[v].observed
    BY DEF AsksLater
  <2>1. /\ run[v].pc = "querying" => run[v].now <= clock /\ run[v].now \in Int
        /\ run[v].pc = "judging" => run[v].now <= run[v].observed
    BY FrameFacts DEF AbsenceInv, AsksLater, Time
  <2>2. clock \in Int
    BY DEF AbsenceInv, GateTypeOK, Time
  <2> QED BY <2>1, <2>2
<1> QED BY <1>1, <1>3, <1>4

LEMMA JudgeAbsence ==
  ASSUME AbsenceInv, NEW v \in Verifiers, Judge(v)
  PROVE  AsksLater' /\ JudgedAtBound' /\ AbsenceIsBounded'
<1>1. /\ GateTypeOK /\ run[v].pc = "judging" /\ UNCHANGED <<attempts, clock>>
      /\ run[v].record \in Records /\ run[v].now \in Time /\ run[v].observed \in Time
      /\ run[v].now <= run[v].observed
  BY FrameFacts DEF AbsenceInv, AsksLater, Judge, At
<1>2. PICK r \in Records, now \in Time, t \in Time :
        r = run[v].record /\ now = run[v].now /\ t = run[v].observed /\ now <= t
  BY <1>1
<1>3. /\ run'[v] = IF NeverFound(r, now) THEN Concluded(r, t, "NOT_FOUND", "FAILURE")
                   ELSE Unresolved(r, t, "NOT_FOUND")
      /\ \A w \in Verifiers : w # v => run'[w] = run[w]
  BY <1>1, <1>2 DEF Judge, GateTypeOK
<1>4. NeverFound(r, now) => Reached(r, Len(attempts[r]) + 1, t)
  <2> SUFFICES ASSUME NEW d \in MaxDuration, now - FirstObserved(r, now) >= d
               PROVE  Reached(r, Len(attempts[r]) + 1, t)
    BY DEF NeverFound, BoundReached, Reached
  <2>1. d \in Nat \ {0} /\ now \in Int /\ t \in Int
    BY GateAssumption DEF Time
  <2>2. attempts[r] # <<>>
    <3> SUFFICES ASSUME attempts[r] = <<>>
                 PROVE  FALSE
      OBVIOUS
    <3>1. FirstObserved(r, now) = now
      BY DEF FirstObserved
    <3> QED BY <2>1, <3>1
  <2>3. PICK j \in Rows(r) : attempts[r][j].observed = FirstObserved(r, now)
    BY <1>1, <2>2, FirstIsStored
  <2>4. attempts[r][j].observed \in Int
    BY <1>1, RowFacts
  <2>5. t - attempts[r][j].observed >= d
    BY <1>2, <2>1, <2>3, <2>4
  <2> QED BY <2>5 DEF Reached
<1>5. CASE NeverFound(r, now)
  <2>1. /\ run'[v].pc = "applying" /\ run'[v].record = r /\ run'[v].observed = t
    BY <1>3, <1>5 DEF Concluded
  <2>2. clock' = clock /\ clock \in Int
    BY <1>1 DEF GateTypeOK, Time
  <2> QED BY <1>1, <1>3, <1>4, <1>5, <2>1, <2>2, QuietAbsence
<1>6. CASE ~NeverFound(r, now)
  <2>1. run'[v].pc = "saving" /\ run'[v].outcome = "UNRESOLVED"
    BY <1>3, <1>6 DEF Unresolved
  <2>2. clock' = clock /\ clock \in Int
    BY <1>1 DEF GateTypeOK, Time
  <2> QED BY <1>1, <1>3, <2>1, <2>2, QuietAbsence
<1> QED BY <1>5, <1>6

LEMMA SaveAbsence ==
  ASSUME AbsenceInv, NEW v \in Verifiers, SaveAttempt(v)
  PROVE  AsksLater' /\ JudgedAtBound' /\ AbsenceIsBounded'
<1>1. /\ GateTypeOK /\ run[v].pc = "saving"
      /\ run[v].record \in Records /\ run[v].observed \in Time
  BY FrameFacts DEF AbsenceInv, SaveAttempt, At
<1>2. PICK r \in Records : r = run[v].record
  BY <1>1
<1>3. PICK n \in Nat : n = Len(attempts[r])
  BY <1>1, <1>2, SaveFacts
<1>4. /\ \A s \in Records : s # r => attempts'[s] = attempts[s]
      /\ Len(attempts'[r]) = n + 1
      /\ \A i \in 1..n : attempts'[r][i] = attempts[r][i]
      /\ attempts'[r][n + 1] =
           [observed |-> run[v].observed, result |-> run[v].result,
            outcome |-> run[v].outcome, applied |-> run[v].apply]
  BY <1>1, <1>2, <1>3, SaveFacts
<1>5. /\ run'[v].pc = "returned"
      /\ \A w \in Verifiers : w # v => run'[w] = run[w]
      /\ clock' = clock
  BY <1>1 DEF SaveAttempt, GateTypeOK
<1>6. AsksLater'
  BY <1>5 DEF AbsenceInv, AsksLater
<1>7. JudgedAtBound'
  <2> SUFFICES ASSUME NEW w \in Verifiers, run'[w].pc \in {"applying", "saving"},
                      run'[w].result = "NOT_FOUND", run'[w].outcome = "FAILURE"
               PROVE  \/ \E b \in MaxAttempts : Len(attempts'[run'[w].record]) + 1 >= b
                      \/ \E d \in MaxDuration, j \in 1..Len(attempts'[run'[w].record]) :
                           run'[w].observed - attempts'[run'[w].record][j].observed >= d
    BY DEF JudgedAtBound, Reached, Rows
  <2>1. w # v /\ run'[w] = run[w]
    BY <1>5
  <2>2. PICK q \in Records : q = run[w].record
    BY <1>1, <2>1, FrameFacts
  <2>3. \/ \E b \in MaxAttempts : Len(attempts[q]) + 1 >= b
        \/ \E d \in MaxDuration, j \in 1..Len(attempts[q]) :
             run[w].observed - attempts[q][j].observed >= d
    BY <2>1, <2>2 DEF AbsenceInv, JudgedAtBound, Reached, Rows
  <2>4. CASE q # r
    BY <1>4, <2>1, <2>2, <2>3, <2>4
  <2>5. CASE q = r
    <3>1. CASE \E b \in MaxAttempts : Len(attempts[q]) + 1 >= b
      <4>1. PICK b \in MaxAttempts : n + 1 >= b
        BY <1>3, <2>5, <3>1
      <4>2. b \in Nat
        BY GateAssumption
      <4>3. Len(attempts'[run'[w].record]) + 1 >= b
        BY <1>4, <2>1, <2>2, <2>5, <4>1, <4>2
      <4> QED BY <4>3
    <3>2. CASE \E d \in MaxDuration, j \in 1..Len(attempts[q]) :
                 run[w].observed - attempts[q][j].observed >= d
      <4>1. PICK d \in MaxDuration, j \in 1..n :
              run[w].observed - attempts[r][j].observed >= d
        BY <1>3, <2>5, <3>2
      <4>2. j \in 1..Len(attempts'[r]) /\ attempts'[r][j] = attempts[r][j]
        BY <1>4
      <4> QED BY <2>1, <2>2, <2>5, <4>1, <4>2
    <3> QED BY <2>3, <3>1, <3>2
  <2> QED BY <2>4, <2>5
<1>8. AbsenceIsBounded'
  <2> SUFFICES ASSUME NEW s \in Records, NEW i \in 1..Len(attempts'[s]),
                      attempts'[s][i].result = "NOT_FOUND",
                      attempts'[s][i].outcome = "FAILURE"
               PROVE  \/ \E b \in MaxAttempts : i >= b
                      \/ \E d \in MaxDuration, j \in 1..(i - 1) :
                           attempts'[s][i].observed - attempts'[s][j].observed >= d
    BY DEF AbsenceIsBounded, Rows
  <2>1. ASSUME i \in 1..Len(attempts[s]),
               \A k \in 1..i : attempts'[s][k] = attempts[s][k]
        PROVE  \/ \E b \in MaxAttempts : i >= b
               \/ \E d \in MaxDuration, j \in 1..(i - 1) :
                    attempts'[s][i].observed - attempts'[s][j].observed >= d
    <3>1. attempts'[s][i] = attempts[s][i]
      BY <2>1
    <3>2. \/ \E b \in MaxAttempts : i >= b
          \/ \E d \in MaxDuration, j \in 1..(i - 1) :
               attempts[s][i].observed - attempts[s][j].observed >= d
      BY <2>1, <3>1 DEF AbsenceInv, AbsenceIsBounded, Rows
    <3>3. \A j \in 1..(i - 1) : attempts'[s][j] = attempts[s][j]
      BY <2>1
    <3> QED BY <3>1, <3>2, <3>3
  <2>2. CASE s # r
    <3>1. attempts'[s] = attempts[s]
      BY <1>4, <2>2
    <3> QED BY <2>1, <3>1
  <2>3. CASE s = r /\ i # n + 1
    <3>1. i \in 1..n /\ \A k \in 1..i : attempts'[s][k] = attempts[s][k]
      BY <1>4, <2>3
    <3> QED BY <1>3, <2>1, <2>3, <3>1
  <2>4. CASE s = r /\ i = n + 1
    <3>1. /\ attempts'[s][i].observed = run[v].observed
          /\ run[v].result = "NOT_FOUND" /\ run[v].outcome = "FAILURE"
      BY <1>4, <2>4
    <3>2. \/ \E b \in MaxAttempts : n + 1 >= b
          \/ \E d \in MaxDuration, j \in 1..n :
               run[v].observed - attempts[r][j].observed >= d
      BY <1>1, <1>2, <1>3, <3>1 DEF AbsenceInv, JudgedAtBound, Reached, Rows
    <3>3. \A j \in 1..n : j \in 1..(i - 1) /\ attempts'[s][j] = attempts[r][j]
      BY <1>4, <2>4
    <3> QED BY <2>4, <3>1, <3>2, <3>3
  <2> QED BY <2>2, <2>3, <2>4
<1> QED BY <1>6, <1>7, <1>8

LEMMA AbsenceStep == AbsenceInv /\ [GateNext]_gateVars => AbsenceInv'
<1> SUFFICES ASSUME AbsenceInv, [GateNext]_gateVars
             PROVE  AsksLater' /\ JudgedAtBound' /\ AbsenceIsBounded'
  BY GateTypeStep DEF AbsenceInv
<1>1. GateTypeOK /\ clock \in Int
  BY DEF AbsenceInv, GateTypeOK, Time
<1>2. ASSUME NEW v \in Verifiers, NEW r \in Records, NEW now \in Int, now <= clock,
             StartVerify(v, r, now)
      PROVE  AsksLater' /\ JudgedAtBound' /\ AbsenceIsBounded'
  <2>1. /\ run'[v].pc = "querying" /\ run'[v].now = now
        /\ \A w \in Verifiers : w # v => run'[w] = run[w]
        /\ UNCHANGED <<attempts, clock>>
    BY <1>1, <1>2 DEF StartVerify, GateTypeOK
  <2> QED BY <1>1, <1>2, <2>1, QuietAbsence
<1>3. ASSUME NEW v \in Verifiers, QueryAnswered(v) \/ QueryFails(v)
      PROVE  AsksLater' /\ JudgedAtBound' /\ AbsenceIsBounded'
  <2>1. /\ UNCHANGED <<attempts, clock>> /\ run[v].pc = "querying"
        /\ run[v].now <= clock
    BY <1>3 DEF QueryAnswered, QueryFails, At, AbsenceInv, AsksLater
  <2>2. \A w \in Verifiers : w # v => run'[w] = run[w]
    BY <1>1, <1>3 DEF QueryAnswered, QueryFails, GateTypeOK
  <2>3. \/ run'[v].pc \in {"applying", "saving"} /\ run'[v].result # "NOT_FOUND"
        \/ run'[v].pc = "judging" /\ run'[v].now = run[v].now /\ run'[v].observed = clock
    <3>1. CASE QueryFails(v)
      BY <1>1, <3>1 DEF QueryFails, GateTypeOK, Unresolved
    <3>2. CASE QueryAnswered(v)
      <4>1. PICK result \in Results : run' = [run EXCEPT ![v] =
              CASE result \in Conclusive -> Concluded(@.record, clock, result, result)
                [] result = "INCONCLUSIVE" -> Unresolved(@.record, clock, result)
                [] result = "NOT_FOUND" ->
                     [pc |-> "judging", record |-> @.record, now |-> @.now,
                      observed |-> clock]]
        BY <3>2 DEF QueryAnswered
      <4>2. result \in Conclusive \union {"INCONCLUSIVE", "NOT_FOUND"}
        BY GateAssumption DEF ConditionResults, Conclusive
      <4>3. CASE result \in Conclusive
        BY <1>1, <4>1, <4>3 DEF GateTypeOK, Concluded, Conclusive
      <4>4. CASE result = "INCONCLUSIVE"
        BY <1>1, <4>1, <4>4 DEF GateTypeOK, Unresolved, Conclusive
      <4>5. CASE result = "NOT_FOUND"
        BY <1>1, <4>1, <4>5 DEF GateTypeOK, Conclusive
      <4> QED BY <4>2, <4>3, <4>4, <4>5
    <3> QED BY <1>3, <3>1, <3>2
  <2> QED BY <1>1, <2>1, <2>2, <2>3, QuietAbsence
<1>4. ASSUME NEW v \in Verifiers, Judge(v)
      PROVE  AsksLater' /\ JudgedAtBound' /\ AbsenceIsBounded'
  BY <1>4, JudgeAbsence
<1>5. ASSUME NEW v \in Verifiers, Apply(v)
      PROVE  AsksLater' /\ JudgedAtBound' /\ AbsenceIsBounded'
  <2>1. /\ UNCHANGED <<attempts, clock>> /\ run[v].pc = "applying"
        /\ \A w \in Verifiers : w # v => run'[w] = run[w]
        /\ run'[v].pc = "saving" /\ run'[v].record = run[v].record
        /\ run'[v].observed = run[v].observed /\ run'[v].result = run[v].result
        /\ run'[v].outcome = run[v].outcome
    BY <1>1, <1>5 DEF Apply, At, GateTypeOK
  <2> QED BY <1>1, <2>1, QuietAbsence DEF AbsenceInv, JudgedAtBound
<1>6. ASSUME NEW v \in Verifiers, SaveAttempt(v)
      PROVE  AsksLater' /\ JudgedAtBound' /\ AbsenceIsBounded'
  BY <1>6, SaveAbsence
<1>7. ASSUME NEW v \in Verifiers, Return(v) \/ VerifyRaises(v)
      PROVE  AsksLater' /\ JudgedAtBound' /\ AbsenceIsBounded'
  <2>1. /\ UNCHANGED <<attempts, clock>> /\ run'[v].pc = "idle"
        /\ \A w \in Verifiers : w # v => run'[w] = run[w]
    BY <1>1, <1>7 DEF Return, VerifyRaises, GateTypeOK, Idle
  <2> QED BY <1>1, <2>1, QuietAbsence
<1>8. ASSUME CrashServer
      PROVE  AsksLater' /\ JudgedAtBound' /\ AbsenceIsBounded'
  <2>1. UNCHANGED <<attempts, clock>> /\ \A w \in Verifiers : run'[w].pc = "idle"
    BY <1>8 DEF CrashServer, Idle
  <2> QED BY <1>1, <2>1, QuietAbsence
<1>9. ASSUME Tick \/ UNCHANGED gateVars
      PROVE  AsksLater' /\ JudgedAtBound' /\ AbsenceIsBounded'
  <2>1. UNCHANGED <<attempts, run>> /\ clock' \in Int /\ clock' >= clock
    BY <1>1, <1>9 DEF Tick, gateVars
  <2> QED BY <2>1, QuietAbsence
<1>10. \A now \in 0..clock : now \in Int /\ now <= clock
  BY <1>1
<1>11. clock <= clock
  BY <1>1
<1> QED BY <1>1, <1>2, <1>3, <1>4, <1>5, <1>6, <1>7, <1>8, <1>9, <1>10, <1>11
        DEF GateNext, VerifyStep, ReconcileUnresolved

(* However verifications of a record overlap and whatever else they store
   meanwhile, "not found" becomes a failure only when the stored attempts reach
   the bound: that many, or one observed that long before. *)
THEOREM AbsenceBounded == GateSpec => []AbsenceIsBounded
<1>1. GateInit => AbsenceInv
  <2> SUFFICES ASSUME GateInit
               PROVE  AbsenceInv
    OBVIOUS
  <2>1. GateTypeOK
    BY GateAssumption DEF GateInit, GateTypeOK, Frame, Idle, Time
  <2>2. \A v \in Verifiers : run[v].pc = "idle"
    BY DEF GateInit, Idle
  <2>3. \A r \in Records : attempts[r] = <<>>
    BY DEF GateInit
  <2> QED BY <2>1, <2>2, <2>3
          DEF AbsenceInv, AsksLater, JudgedAtBound, AbsenceIsBounded, Rows
<1>2. AbsenceInv => AbsenceIsBounded
  BY DEF AbsenceInv
<1> QED BY <1>1, <1>2, AbsenceStep, PTL DEF GateSpec
===============================================================================
