------------------------------- MODULE MCScoring -------------------------------
(* Options that differ from a plain one in what a check or a preference looks *)
(* at, and objectives that state each field absent, hard or soft.             *)
EXTENDS Scoring

Plain == [id |-> 1, expires |-> {2}, currency |-> "usd", cost |-> 2,
          date |-> "5 sep", origin |-> "icn", destination |-> "nrt",
          arrives |-> 2, gaps |-> <<>>, seats |-> 1, risk |-> FALSE]

MCNow == 1
Catalogue ==
  <<Plain,
    [Plain EXCEPT !.id = 2, !.cost = 3, !.arrives = 1],
    [Plain EXCEPT !.id = 3, !.seats = 2, !.risk = TRUE],
    [Plain EXCEPT !.id = 4],
    [Plain EXCEPT !.id = 5, !.gaps = <<60, 30>>, !.cost = 1, !.seats = 2],
    [Plain EXCEPT !.id = 6, !.gaps = <<0>>],
    [Plain EXCEPT !.id = 7, !.expires = {MCNow}, !.arrives = 3],
    [Plain EXCEPT !.id = 8, !.expires = {}, !.cost = 3],
    [Plain EXCEPT !.id = 9, !.currency = "krw", !.origin = "gmp"],
    [Plain EXCEPT !.id = 10, !.arrives = 3, !.date = "6 sep"],
    [Plain EXCEPT !.id = 11, !.cost = 3, !.destination = "hnd"]>>

(* Bound: up to three options, in descending order of their ids and pairs in
   both; OrderIndependent compares each with all its orders. *)
Descending(n) ==
  {l \in [1..n -> DOMAIN Catalogue] : \A i \in 2..n : l[i] < l[i - 1]}
MCSearches ==
  {[i \in DOMAIN l |-> Catalogue[l[i]]] :
     l \in UNION {Descending(n) : n \in 0..3}
            \union {l \in [1..2 -> DOMAIN Catalogue] : l[1] < l[2]}}

Budgets == {[type |-> t, value |-> 2, currency |-> "usd"] : t \in ConstraintType}
Deadlines == {[type |-> t, value |-> 2] : t \in ConstraintType}
Route(t) == [date |-> [type |-> t, value |-> "5 sep"],
             origin |-> [type |-> t, value |-> "icn"],
             destination |-> [type |-> t, value |-> "nrt"]]
Pref(name) == [name |-> name, minutes |-> 0]
MinConnect(n) == [name |-> "min_connection", minutes |-> n]
PrefLists ==
  {<<Pref("cost"), Pref("arrival_margin")>>,
   <<Pref("arrival_margin"), Pref("window seat"), Pref("cost")>>,
   <<Pref("scarcity"), Pref("direct_only"), Pref("cost")>>,
   <<MinConnect(45), MinConnect(20)>>}
Preferences ==
  {[type |-> "absent"]} \union [type : {"HARD", "SOFT"}, value : PrefLists]

(* The route is soft where the budget is the only hard constraint. *)
Stating(b, d, p) ==
  LET route == Route(IF Hard(b) /\ ~Stated(d) THEN "SOFT" ELSE "HARD")
  IN [budget |-> b, deadline |-> d, prefs |-> p, date |-> route.date,
      origin |-> route.origin, destination |-> route.destination]
MCObjectives ==
  {Stating(b, d, p) : b \in Budgets, d \in Deadlines, p \in Preferences}
=============================================================================
