--------------------------------- MODULE Scoring ---------------------------------
(***************************************************************************)
(* ScoringService.score: the options of a search, judged against the hard  *)
(* constraints of the objective and ranked by its preferences; and the     *)
(* second scoring, with the budget relaxed, that an impact evaluation asks *)
(* for when nothing but the budget stood in the way.  Options and          *)
(* objectives are data: the runs take them from a catalogue.  Texts        *)
(* (rationales, rejection reasons, summaries) are left out.                *)
(***************************************************************************)
EXTENDS Integers, Sequences, FiniteSets

CONSTANTS
  Searches,    \* the lists of flight options a search may hand over
  Objectives,  \* travel objectives
  Now          \* the instant of the scoring

(* A flight option.  `expires` is {} when expire_at is None; a gap is the time
   between two legs, so a direct flight has none; seats and risk are those of
   the worst leg. *)
OptionFields == {"id", "expires", "currency", "cost", "date", "origin",
                 "destination", "arrives", "gaps", "seats", "risk"}

(* A travel objective: every field is absent, HARD or SOFT. *)
ObjectiveFields == {"budget", "date", "origin", "destination", "deadline", "prefs"}
ConstraintType == {"absent", "HARD", "SOFT"}

IsOption(o) ==
  /\ DOMAIN o = OptionFields
  /\ o.id \in Nat /\ o.cost \in Nat /\ o.arrives \in Nat /\ o.seats \in Nat
  /\ o.expires \subseteq Nat /\ o.risk \in BOOLEAN
  /\ \A i \in DOMAIN o.gaps : o.gaps[i] \in Int

Stated(field) == field.type # "absent"
Hard(field) == field.type = "HARD"

(* The preferences: names in the order of their priority, and min_connection_N
   with its number.  A name that is not known ranks nothing. *)
Prefs(q) == IF Stated(q.prefs) THEN q.prefs.value ELSE <<>>
Prefers(q, name) == \E i \in DOMAIN Prefs(q) : Prefs(q)[i].name = name

IsList(s) == Len(s) \in Nat /\ DOMAIN s = 1..Len(s)

(* option_id is a primary key. *)
IsSearch(list) ==
  /\ IsList(list)
  /\ \A i \in DOMAIN list : IsOption(list[i])
  /\ \A i, j \in DOMAIN list : list[i].id = list[j].id => i = j

IsObjective(q) ==
  /\ DOMAIN q = ObjectiveFields
  /\ \A f \in ObjectiveFields : "type" \in DOMAIN q[f] /\ q[f].type \in ConstraintType
  /\ Stated(q.budget) => "value" \in DOMAIN q.budget /\ q.budget.value \in Nat
  /\ Stated(q.deadline) => q.deadline.value \in Nat
  /\ IsList(Prefs(q))

ASSUME ScoringAssumption ==
  /\ \A list \in Searches : IsSearch(list)
  /\ \A q \in Objectives : IsObjective(q)
  /\ Now \in Nat

VARIABLES
  objective,  \* what is scored against
  options,    \* the list handed over
  stage,      \* the scoring done last
  run         \* its ScoringRun

vars == <<objective, options, stage, run>>

-------------------------------------------------------------------------------
(* Elimination. *)

(* The first min_connection_N, whatever the type of the preferences. *)
MinConnection(q) ==
  LET stated == {i \in DOMAIN Prefs(q) : Prefs(q)[i].name = "min_connection"}
  IN {Prefs(q)[i].minutes : i \in {i \in stated : \A j \in stated : i <= j}}

(* The checks in their order, each named by what the report calls it. *)
Checks == <<"expiry_unknown", "offer_expired", "currency_mismatch",
            "budget_amount", "departure_date", "origin", "destination",
            "latest_arrival", "impossible_connection", "connection_excluded",
            "min_connection_time">>

Differs(field, value) == Hard(field) /\ value # field.value

(* Mutant: an offer may be used at the instant it expires. *)
ExpiredLate(o) == \E t \in o.expires : t < Now

Expired(o) == \E t \in o.expires : t <= Now

Fails(check, o, q) ==
  CASE check = "expiry_unknown" -> o.expires = {}
    [] check = "offer_expired" -> Expired(o)
    [] check = "currency_mismatch" -> Stated(q.budget) /\ o.currency # q.budget.currency
    [] check = "budget_amount" -> Hard(q.budget) /\ o.cost > q.budget.value
    [] check = "departure_date" -> Differs(q.date, o.date)
    [] check = "origin" -> Differs(q.origin, o.origin)
    [] check = "destination" -> Differs(q.destination, o.destination)
    [] check = "latest_arrival" -> Hard(q.deadline) /\ o.arrives > q.deadline.value
    [] check = "impossible_connection" -> \E i \in DOMAIN o.gaps : o.gaps[i] <= 0
    [] check = "connection_excluded" ->
         q.prefs.type = "SOFT" /\ Prefers(q, "direct_only") /\ o.gaps # <<>>
    [] check = "min_connection_time" ->
         \E n \in MinConnection(q), i \in DOMAIN o.gaps : o.gaps[i] < n

Failing(o, q) == {i \in DOMAIN Checks : Fails(Checks[i], o, q)}
Survives(o, q) == Failing(o, q) = {}

(* Only the first check that fails is recorded. *)
Reason(o, q) ==
  Checks[CHOOSE i \in Failing(o, q) : \A j \in Failing(o, q) : i <= j]

-------------------------------------------------------------------------------
(* Ranking. *)

(* A key is a list of pairs; where the code has a number the second is 0, and
   what ranks nothing is the same for all.  Keys that are compared have one
   length. *)
PairBefore(s, t) == s[1] < t[1] \/ (s[1] = t[1] /\ s[2] < t[2])
KeyBefore(k, l) ==
  \E i \in DOMAIN k : PairBefore(k[i], l[i]) /\ \A j \in 1..(i - 1) : k[j] = l[j]

(* sorted(list, key) of the elements at the places in I: stable. *)
Precedes(key, i, j) ==
  KeyBefore(key[i], key[j]) \/ (~KeyBefore(key[j], key[i]) /\ i < j)
Place(I, key, i) == 1 + Cardinality({j \in I : Precedes(key, j, i)})
Sorted(list, I, key) ==
  [k \in 1..Cardinality(I) |-> list[CHOOSE i \in I : Place(I, key, i) = k]]

Neither == <<0, 0>>

(* _scarcity_score, negated: no risk and more seats come first. *)
Scarcity(o) == <<IF o.risk THEN 0 ELSE -1, -o.seats>>

(* Mutant: the option with the smallest margin comes first. *)
PrefKeyUnnegated(pref, o, q) ==
  CASE pref.name = "cost" -> <<o.cost, 0>>
    [] pref.name = "arrival_margin" ->
         <<IF Stated(q.deadline) THEN q.deadline.value - o.arrives ELSE 0, 0>>
    [] pref.name = "scarcity" -> Scarcity(o)
    [] OTHER -> Neither

(* The arrival margin counts even when the deadline is a soft one. *)
PrefKey(pref, o, q) ==
  CASE pref.name = "cost" -> <<o.cost, 0>>
    [] pref.name = "arrival_margin" ->
         <<IF Stated(q.deadline) THEN o.arrives - q.deadline.value ELSE 0, 0>>
    [] pref.name = "scarcity" -> Scarcity(o)
    [] OTHER -> Neither

(* _full_sort_key: scarcity comes last unless it was asked for. *)
SortKey(o, q) ==
  [i \in 1..(Len(Prefs(q)) + 1) |->
     IF i \in DOMAIN Prefs(q) THEN PrefKey(Prefs(q)[i], o, q)
     ELSE IF Prefers(q, "scarcity") THEN Neither ELSE Scarcity(o)]

(* Mutant: the list is taken as it comes. *)
ByIdNot(list, I) == Sorted(list, I, [i \in I |-> <<Neither>>])

(* The options at the places in I, in the order in which they are judged. *)
ById(list, I) == Sorted(list, I, [i \in I |-> <<<<list[i].id, 0>>>>])

Dropped(list, q) == ById(list, {i \in DOMAIN list : ~Survives(list[i], q)})
Survivors(list, q) ==
  LET alive == ById(list, {i \in DOMAIN list : Survives(list[i], q)})
  IN Sorted(alive, DOMAIN alive, [i \in DOMAIN alive |-> SortKey(alive[i], q)])

(* rank_counter goes up wherever the key changes: equal keys share a rank. *)
Ranks(ranked, q) ==
  [i \in DOMAIN ranked |->
     1 + Cardinality({j \in 2..i : SortKey(ranked[j], q) # SortKey(ranked[j - 1], q)})]

(* Mutant: a single survivor ties with itself. *)
FullTieAlone(ranks) == \A i \in DOMAIN ranks : ranks[i] = 1

FullTie(ranks) == Len(ranks) > 1 /\ \A i \in DOMAIN ranks : ranks[i] = 1

-------------------------------------------------------------------------------
(* The ScoringRun. *)

Eliminated(o, q) ==
  [id |-> o.id, outcome |-> "ELIMINATED", rank |-> 0, reason |-> Reason(o, q)]

Kept(o, rank, tie) ==
  [id |-> o.id, rank |-> rank, reason |-> "none",
   outcome |-> IF rank = 1 /\ ~tie THEN "SELECTED" ELSE "RANKED"]

(* Mutant: every option of the first rank is the one selected. *)
SelectedAll(kept) ==
  {kept[i].id : i \in {i \in DOMAIN kept : kept[i].outcome = "SELECTED"}}

(* The option selected is the last of those of the first rank. *)
Selected(kept) ==
  LET chosen == {i \in DOMAIN kept : kept[i].outcome = "SELECTED"}
  IN {kept[i].id : i \in {i \in chosen : \A j \in chosen : j <= i}}

(* Mutant: the report names what eliminated any option. *)
ReportAlways(out, kept) == {out[i].reason : i \in DOMAIN out}

(* NoSatisfyingOptionReport.unsatisfied_constraints, {} when there is none. *)
Report(out, kept) == IF kept = <<>> THEN {out[i].reason : i \in DOMAIN out} ELSE {}

Score(q, list) ==
  LET dropped == Dropped(list, q)
      ranked == Survivors(list, q)
      ranks == Ranks(ranked, q)
      out == [i \in DOMAIN dropped |-> Eliminated(dropped[i], q)]
      kept == [i \in DOMAIN ranked |-> Kept(ranked[i], ranks[i], FullTie(ranks))]
  IN [scored |-> out \o kept, selected |-> Selected(kept),
      report |-> Report(out, kept)]

NoRun == [scored |-> <<>>, selected |-> {}, report |-> {}]

Init ==
  /\ objective \in Objectives
  /\ options \in Searches
  /\ stage = "new"
  /\ run = NoRun

ScoreOptions ==
  /\ stage = "new"
  /\ run' = Score(objective, options)
  /\ stage' = "scored"
  /\ UNCHANGED <<objective, options>>

(* _has_budget_only_blocker, and the scoring of
   _try_relaxed_budget_recommendation. *)
RelaxBudget ==
  /\ stage = "scored"
  /\ Hard(objective.budget) /\ run.report = {"budget_amount"}
  /\ objective' = [objective EXCEPT !.budget.type = "SOFT"]
  /\ run' = Score(objective', options)
  /\ stage' = "relaxed"
  /\ UNCHANGED options

Next == ScoreOptions \/ RelaxBudget
Spec == Init /\ [][Next]_vars

-------------------------------------------------------------------------------
(* Properties. *)

Entry == [id : Nat, outcome : {"SELECTED", "RANKED", "ELIMINATED"}, rank : Nat,
          reason : {Checks[i] : i \in DOMAIN Checks} \union {"none"}]

Entries == {run.scored[i] : i \in DOMAIN run.scored}
Alive == {e \in Entries : e.outcome # "ELIMINATED"}
OptionOf(e) == CHOOSE o \in {options[i] : i \in DOMAIN options} : o.id = e.id

TypeOK ==
  /\ stage \in {"new", "scored", "relaxed"}
  /\ run.scored \in Seq(Entry)
  /\ run.report \subseteq {Checks[i] : i \in DOMAIN Checks}
  /\ Cardinality(run.selected) <= 1

(* SC-001, SC-003 and FR-012 of specs/003: every option handed over is in the
   run once, and one that is ranked is not expired, costs what it may, goes
   where and when it must and has connections that can be made; an option with
   none of these faults, nor one that its connections are excluded for, is
   not eliminated. *)
EveryOptionIsJudged ==
  stage # "new" =>
    /\ Len(run.scored) = Len(options)
    /\ \A i \in DOMAIN options :
         \E e \in Entries :
           /\ OptionOf(e) = options[i]
           /\ LET o == options[i]
                  sound == /\ o.expires # {} /\ \A t \in o.expires : Now < t
                           /\ Stated(objective.budget)
                                => o.currency = objective.budget.currency
                           /\ Hard(objective.budget)
                                => o.cost <= objective.budget.value
                           /\ Hard(objective.deadline)
                                => o.arrives <= objective.deadline.value
                           /\ \A f \in {"date", "origin", "destination"} :
                                Hard(objective[f]) => o[f] = objective[f].value
                           /\ \A g \in DOMAIN o.gaps : o.gaps[g] > 0
              IN /\ e \in Alive => sound
                 /\ sound /\ e \notin Alive =>
                      e.reason \in {"connection_excluded", "min_connection_time"}

(* What the traveller means by a preference. *)
Better(pref, a, b) ==
  CASE pref = "cost" -> a.cost < b.cost
    [] pref = "arrival_margin" -> Stated(objective.deadline) /\ a.arrives < b.arrives
    [] pref = "scarcity" -> \/ ~a.risk /\ b.risk
                            \/ a.risk = b.risk /\ a.seats > b.seats
    [] OTHER -> FALSE

Ordered ==
  [i \in 1..(Len(Prefs(objective)) + 1) |->
     IF i \in DOMAIN Prefs(objective) THEN Prefs(objective)[i].name ELSE "scarcity"]

Direct(o) == o.gaps = <<>>
Alike(a, b) == Direct(a) <=> Direct(b)

(* One option is ahead of another when the first preference that separates the
   two is for it.  Scarcity, which comes last, settles only what is equally
   direct: whether it may put a connection ahead of a direct flight that no
   stated preference separates from it is left open. *)
Ahead(a, b) ==
  \E i \in DOMAIN Ordered :
    /\ Better(Ordered[i], a, b)
    /\ \A j \in 1..(i - 1) : ~Better(Ordered[j], a, b) /\ ~Better(Ordered[j], b, a)
    /\ i \in DOMAIN Prefs(objective) \/ Alike(a, b)

(* FR-003: ranks follow the preferences in the order of their priority, a lower
   one deciding only between options equal on all higher ones; equally direct
   options that nothing separates share a rank, and no rank is left out. *)
RanksArePreferences ==
  /\ \A e, f \in Alive :
       LET a == OptionOf(e)  b == OptionOf(f) IN
       /\ Ahead(a, b) => e.rank < f.rank
       /\ Alike(a, b) /\ ~Ahead(a, b) /\ ~Ahead(b, a) => e.rank = f.rank
  /\ \A e \in Alive : 1..e.rank \subseteq {f.rank : f \in Alive}

(* US1 and US2 of specs/003: no survivor is ahead of the one selected; a survivor
   ahead of all the others is selected, a single one too; and when nothing
   separates several survivors none is, whichever of them came last.  What is
   selected when only some of them tie at the top is left open. *)
SelectedIsBest ==
  /\ \A id \in run.selected :
       \E e \in Alive :
         e.id = id /\ \A f \in Alive : ~Ahead(OptionOf(f), OptionOf(e))
  /\ \A e \in Alive :
       (\A f \in Alive \ {e} : Ahead(OptionOf(e), OptionOf(f)))
         => run.selected = {e.id}
  /\ /\ Cardinality(Alive) > 1
     /\ \A e, f \in Alive :
          Alike(OptionOf(e), OptionOf(f)) /\ ~Ahead(OptionOf(e), OptionOf(f))
     => run.selected = {}

(* NFR-001 and SC-004: the order in which the options come makes no
   difference. *)
OrderIndependent ==
  stage # "new" =>
    \A p \in {p \in [DOMAIN options -> DOMAIN options] :
                 \A i, j \in DOMAIN options : i # j => p[i] # p[j]} :
      run = Score(objective, [i \in DOMAIN options |-> options[p[i]]])

(* A relaxed budget lets nothing through but what exceeds it, so that every
   recommendation an evaluation makes from it must be marked as a breach: no
   option that keeps to the budget was passed over. *)
RelaxedExceedsBudget ==
  stage = "relaxed" =>
    \A e \in Alive : OptionOf(e).cost > objective.budget.value
=============================================================================
