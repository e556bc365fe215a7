------------------------------ MODULE EventStream ------------------------------
(***************************************************************************)
(* The event stream of one journey, from the appends of the services to    *)
(* the log of the trace console: JourneyRepository.append_event, the       *)
(* polling generator EventService.stream_events behind GET                 *)
(* /journeys/{id}/events, the replay of a recording, the connection that   *)
(* carries either, and the hook and the reducer that receive it.           *)
(*                                                                         *)
(* Connections share nothing but the log, so one console is modelled, for  *)
(* as long as its component stays mounted.  The fetch client of the hook   *)
(* is a library: it keeps the last id received over its retries and sends  *)
(* it with each of them, retries after an error and not after a normal     *)
(* end of the answer.                                                      *)
(***************************************************************************)
EXTENDS Integers, Sequences, FiniteSets

CONSTANTS
  Writers,          \* processes and threads that append events
  MaxLogEntries,    \* MAX_LOG_ENTRIES
  MaxEvents,        \* bound: events of the journey
  MaxFaults         \* bound: connections broken

ASSUME StreamAssumption ==
  /\ MaxLogEntries \in Nat \ {0}
  /\ MaxEvents \in Nat
  /\ MaxFaults \in Nat

VARIABLES
  mode,      \* what the component was mounted for: "live" or "replay"
  log,       \* journey_events: sequence number -> event
  finished,  \* journeys.state is CANCELLED or ABANDONED
  writer,    \* per writer: the frame of its call of the event service
  server,    \* the generator that answers the request of the console
  wire,      \* the messages sent and not yet received
  console,   \* the connection and the reducer's state
  faults,    \* connections broken so far
  shown,     \* history: the events presented since the stream began
  refused    \* history: the stream ended because a request was refused

vars == <<mode, log, finished, writer, server, wire, console, faults, shown, refused>>
history == <<shown, refused>>

(* "note" stands for every type that the console presents and that neither
   asks, answers nor ends anything, "hidden" for every type it ignores. *)
Kind == {"note", "hidden", "requested", "outcome", "final"}
Number == 1..MaxEvents
None == 0
Event == [kind : Kind, request : Number \union {None}]
AnswerTo(r) == [kind |-> "outcome", request |-> r]

WriterFrame ==
  [pc : {"idle"}] \union [pc : {"answering"}, request : Number]
    \union [pc : {"inserting"}, last : 0..MaxEvents,
            request : Number \union {None}]

(* `batch` is the list read and not yet yielded, which is in the order of the
   sequence; `seen` is the last number in the log when it was read. *)
ServerFrame ==
  [pc : {"down", "reading", "yielding", "testing", "closing"},
   cursor : 0..MaxEvents, batch : SUBSET Number, seen : 0..MaxEvents]

Message ==
  [type : {"event"}, id : Number] \union [type : {"replay_started"}, id : {0}]
    \union [type : {"replay_ended"}, id : 1..(MaxEvents + 1)]
    \union [type : {"close"}]

Console ==
  [status : {"connecting", "live", "reconnecting", "ended"},
   last : 0..(MaxEvents + 1), log : Seq(0..(MaxEvents + 1)),
   pending : Number \union {None}, replaying : BOOLEAN]

Numbers == DOMAIN log
LastNumber == CHOOSE n \in Numbers \union {0} : \A i \in Numbers : i <= n

TypeOK ==
  /\ mode \in {"live", "replay"}
  /\ Numbers \in {1..n : n \in 0..MaxEvents} /\ \A n \in Numbers : log[n] \in Event
  /\ finished \in BOOLEAN
  /\ writer \in [Writers -> WriterFrame]
  /\ server \in ServerFrame
  /\ wire \in Seq(Message)
  /\ console \in Console /\ Len(console.log) <= MaxLogEntries
  /\ faults \in 0..MaxFaults
  /\ shown \in Seq(Number)
  /\ refused \in BOOLEAN

Idle == [pc |-> "idle"]
Down == [pc |-> "down", cursor |-> 0, batch |-> {}, seen |-> 0]

Init ==
  /\ mode \in {"live", "replay"}
  /\ log = [n \in {} |-> Idle]
  /\ finished = FALSE
  /\ writer = [w \in Writers |-> Idle]
  /\ server = Down
  /\ wire = <<>>
  /\ console = [status |-> "connecting", last |-> 0, log |-> <<>>,
                pending |-> None, replaying |-> FALSE]
  /\ faults = 0
  /\ shown = <<>>
  /\ refused = FALSE

-------------------------------------------------------------------------------
(* The log. *)

Appending(w) == writer[w].pc = "inserting"

(* Mutant: numbers are dealt out as from a counter. *)
BeginAppendCounted(w, r) ==
  LET dealt == Numbers \union {0}
                 \union {writer[v].last + 1 : v \in {v \in Writers : Appending(v)}}
      last == CHOOSE n \in dealt : \A i \in dealt : i <= n
  IN /\ last < MaxEvents
     /\ writer' = [writer EXCEPT ![w] =
                     [pc |-> "inserting", last |-> last, request |-> r]]
     /\ UNCHANGED <<mode, log, finished, server, wire, console, faults, history>>

(* EventService.append reads the greatest sequence number ... *)
BeginAppend(w, r) ==
  /\ LastNumber < MaxEvents
  /\ writer' = [writer EXCEPT ![w] =
                  [pc |-> "inserting", last |-> LastNumber, request |-> r]]
  /\ UNCHANGED <<mode, log, finished, server, wire, console, faults, history>>

(* A service appends an event. *)
Record(w) == writer[w] = Idle /\ BeginAppend(w, None)

AnsweredBy(n, r) == \E i \in Numbers : i <= n /\ log[i] = AnswerTo(r)

(* record_auth_outcome finds a request of the journey that has no answer yet:
   POST /authorisation names any of them, received by the console or not, and
   so does the capture script, in a process of its own (capture_runner.py:243). *)
Answer(w) ==
  /\ writer[w] = Idle /\ LastNumber < MaxEvents
  /\ \E r \in Numbers :
       /\ log[r].kind = "requested" /\ ~ AnsweredBy(LastNumber, r)
       /\ writer' = [writer EXCEPT ![w] = [pc |-> "answering", request |-> r]]
  /\ UNCHANGED <<mode, log, finished, server, wire, console, faults, history>>

(* ... and appends its answer, whatever was answered meanwhile. *)
AppendAnswer(w) ==
  /\ writer[w].pc = "answering"
  /\ BeginAppend(w, writer[w].request)

(* The event an append was called with; what is not an answer is chosen only
   now.  A terminal state change is reported after it was made. *)
Payload(r) ==
  IF r # None THEN {AnswerTo(r)}
  ELSE [kind : {"note", "hidden", "requested"}, request : {None}]
         \union (IF finished THEN [kind : {"final"}, request : {None}] ELSE {})

(* ... and inserts the next one, which is unique: when another append was
   faster the insert raises and nothing is recorded. *)
Insert(w) ==
  LET n == writer[w].last + 1
  IN /\ Appending(w)
     /\ IF n \in Numbers THEN UNCHANGED log
        ELSE \E e \in Payload(writer[w].request) :
               log' = [i \in Numbers \union {n} |-> IF i = n THEN e ELSE log[i]]
     /\ writer' = [writer EXCEPT ![w] = Idle]
     /\ UNCHANGED <<mode, finished, server, wire, console, faults, history>>

(* StateService.transition to a terminal state. *)
FinishJourney ==
  /\ ~finished
  /\ finished' = TRUE
  /\ UNCHANGED <<mode, log, writer, server, wire, console, faults, history>>

-------------------------------------------------------------------------------
(* The server: one action between two suspensions of the generator. *)

Serving(pc) == server.pc = pc
Goto(pc) == server' = [server EXCEPT !.pc = pc]

(* Mutant: the client asks for what follows the number it would expect next. *)
ConnectNext ==
  /\ console.status \in {"connecting", "reconnecting"} /\ Serving("down")
  /\ server' = [pc |-> "reading", batch |-> {}, seen |-> 0,
                cursor |-> IF mode = "live" /\ console.last \in 1..(MaxEvents - 1)
                           THEN console.last + 1 ELSE 0]
  /\ wire' = IF mode = "live" THEN <<>>
             ELSE <<[type |-> "replay_started", id |-> 0]>>
  /\ console' = [console EXCEPT !.status = "live"]
  /\ UNCHANGED <<mode, log, finished, writer, faults, history>>

(* A live stream resumes after Last-Event-ID; a replay starts over. *)
Connect ==
  /\ console.status \in {"connecting", "reconnecting"} /\ Serving("down")
  /\ server' = [pc |-> "reading", batch |-> {}, seen |-> 0,
                cursor |-> IF mode = "live" THEN console.last ELSE 0]
  /\ wire' = IF mode = "live" THEN <<>>
             ELSE <<[type |-> "replay_started", id |-> 0]>>
  /\ console' = [console EXCEPT !.status = "live"]
  /\ UNCHANGED <<mode, log, finished, writer, faults, history>>

(* The sleep before a poll, if any, and get_events_from_sequence; an empty
   answer makes the live stream look at the state of the journey next and the
   replay end. *)
Read ==
  LET rows == {n \in Numbers : n > server.cursor}
  IN /\ Serving("reading")
     /\ server' = [server EXCEPT !.batch = rows, !.seen = LastNumber,
                     !.pc = CASE rows # {} -> "yielding"
                              [] rows = {} /\ mode = "live" -> "testing"
                              [] OTHER -> "closing"]
     /\ UNCHANGED <<mode, log, finished, writer, wire, console, faults, history>>

(* Mutant: a terminal state change ends the stream wherever it stands. *)
AfterYieldAtOnce(n, rest) ==
  CASE mode = "live" /\ log[n].kind = "final" -> "closing"
    [] rest # {} -> "yielding"
    [] mode = "replay" -> "closing"
    [] OTHER -> "reading"

(* Only the last event of a list is asked whether it ends the journey. *)
AfterYield(n, rest) ==
  CASE rest # {} -> "yielding"
    [] rest = {} /\ (mode = "replay" \/ log[n].kind = "final") -> "closing"
    [] OTHER -> "reading"

Yield ==
  /\ Serving("yielding")
  /\ \E n \in server.batch :
       /\ \A i \in server.batch : n <= i
       /\ wire' = Append(wire, [type |-> "event", id |-> n])
       /\ server' = [server EXCEPT !.cursor = n, !.batch = @ \ {n},
                       !.pc = AfterYield(n, server.batch \ {n})]
  /\ UNCHANGED <<mode, log, finished, writer, console, faults, history>>

(* Mutant: only the event of the transition ends the stream. *)
TestNever ==
  /\ Serving("testing")
  /\ Goto("reading")
  /\ UNCHANGED <<mode, log, finished, writer, wire, console, faults, history>>

(* _journey_terminal, in a transaction of its own. *)
Test ==
  /\ Serving("testing")
  /\ Goto(IF finished THEN "closing" ELSE "reading")
  /\ UNCHANGED <<mode, log, finished, writer, wire, console, faults, history>>

(* The generator returns; a replay says so first. *)
Close ==
  /\ Serving("closing")
  /\ Goto("down")
  /\ wire' = wire \o (IF mode = "live" THEN <<>>
                      ELSE <<[type |-> "replay_ended", id |-> server.cursor + 1]>>)
                  \o <<[type |-> "close"]>>
  /\ UNCHANGED <<mode, log, finished, writer, console, faults, history>>

-------------------------------------------------------------------------------
(* The console. *)

(* Mutant: nothing is cut off. *)
AppendLogWhole(entry) == Append(console.log, entry)

(* appendLog *)
AppendLog(entry) ==
  LET entries == Append(console.log, entry)
      surplus == Len(entries) - MaxLogEntries
  IN IF surplus > 0 THEN SubSeq(entries, surplus + 1, Len(entries)) ELSE entries

(* Mutant: any outcome clears the panel, whatever request it is for. *)
PendingAfterAny(n) ==
  CASE log[n].kind = "requested" -> n
    [] log[n].kind = "outcome" -> None
    [] OTHER -> console.pending

(* AUTH_REQUESTED takes the panel over; AUTH_OUTCOME clears it only if it is
   the answer to the request shown. *)
PendingAfter(n) ==
  CASE log[n].kind = "requested" -> n
    [] log[n] = AnswerTo(console.pending) -> None
    [] OTHER -> console.pending

Receiving(type) ==
  /\ wire # <<>> /\ Head(wire).type = type
  /\ wire' = Tail(wire)
  /\ UNCHANGED <<mode, log, finished, writer, server, faults>>

(* The client notes the id of every message; the hook drops a type that it
   does not know. *)
ReceiveHidden ==
  /\ Receiving("event")
  /\ log[Head(wire).id].kind = "hidden"
  /\ console' = [console EXCEPT !.last = Head(wire).id]
  /\ UNCHANGED history

ReceiveEvent ==
  LET n == Head(wire).id
  IN /\ Receiving("event")
     /\ log[n].kind # "hidden"
     /\ console' = [console EXCEPT !.last = n, !.log = AppendLog(n),
                      !.pending = PendingAfter(n)]
     /\ shown' = Append(shown, n)
     /\ UNCHANGED refused

ReceiveStarted ==
  /\ Receiving("replay_started")
  /\ console' = [console EXCEPT !.last = 0, !.log = AppendLog(0),
                   !.replaying = TRUE]
  /\ shown' = <<>>
  /\ UNCHANGED refused

ReceiveEnded ==
  /\ Receiving("replay_ended")
  /\ console' = [console EXCEPT !.last = Head(wire).id,
                   !.log = AppendLog(Head(wire).id), !.replaying = FALSE]
  /\ UNCHANGED history

(* onclose: the answer ended normally and is not asked for again. *)
ReceiveClose ==
  /\ Receiving("close")
  /\ console' = [console EXCEPT !.status = "ended"]
  /\ UNCHANGED history

(* onerror: the connection broke, or the server process restarted.  What was
   on its way is lost and the generator is gone. *)
Break ==
  /\ console.status = "live" /\ faults < MaxFaults
  /\ console' = [console EXCEPT !.status = "reconnecting"]
  /\ wire' = <<>>
  /\ Goto("down")
  /\ faults' = faults + 1
  /\ UNCHANGED <<mode, log, finished, writer, history>>

(* onopen replaces the client's own test of the status: an answer that is an
   error is taken for a stream without events, which then ended normally. *)
Refuse ==
  /\ console.status \in {"connecting", "reconnecting"}
  /\ console' = [console EXCEPT !.status = "ended"]
  /\ refused' = TRUE
  /\ UNCHANGED <<mode, log, finished, writer, server, wire, faults, shown>>

-------------------------------------------------------------------------------
Service == Connect \/ Read \/ Yield \/ Test \/ Close
Receive ==
  ReceiveHidden \/ ReceiveEvent \/ ReceiveStarted \/ ReceiveEnded \/ ReceiveClose

Next ==
  \/ \E w \in Writers : Record(w) \/ Answer(w) \/ AppendAnswer(w) \/ Insert(w)
  \/ FinishJourney
  \/ Service
  \/ Receive
  \/ Break
  \/ Refuse

Spec == Init /\ [][Next]_vars

(* The event loop resumes a generator that is ready, or whose sleep is over, and
   the browser a client that has something to read or to ask for.  Nothing else
   has to happen. *)
FairSpec == Spec /\ WF_vars(Service) /\ WF_vars(Receive)

-------------------------------------------------------------------------------
(* Properties. *)

Due(n) == {i \in Numbers : i <= n /\ log[i].kind # "hidden"}
Shown == {shown[i] : i \in DOMAIN shown}

(* The number of the last event received: the end of a replay carries a number
   that no event of the recording has. *)
Received ==
  IF mode = "replay" /\ ~console.replaying /\ console.last > 0
  THEN console.last - 1 ELSE console.last

(* FR-006 and NFR-006 of specs/006, for live streams and for each run of a
   replay: whatever connections break and however appends interleave with the
   polls, the console has presented every event up to the one it received
   last, none of them twice, and in the order of the log; a live console keeps
   the newest MaxLogEntries of them. *)
ShownOnceInOrder ==
  /\ \A i, j \in DOMAIN shown : i < j => shown[i] < shown[j]
  /\ Shown = Due(Received)
  /\ mode = "live" =>
       /\ Len(console.log) = IF Len(shown) < MaxLogEntries
                             THEN Len(shown) ELSE MaxLogEntries
       /\ \A i \in DOMAIN console.log :
            console.log[i] = shown[Len(shown) - Len(console.log) + i]

RequestsUpTo(n) == {i \in Numbers : i <= n /\ log[i].kind = "requested"}
NewestRequest(n) ==
  CHOOSE r \in RequestsUpTo(n) \union {None} : \A i \in RequestsUpTo(n) : i <= r
(* The panel of a live console never shows a request that was answered, as far
   as the console has received, and it shows the newest request received for as
   long as that one is outstanding, whatever is received about others. *)
PendingIsOutstanding ==
  mode = "live" =>
    LET Outstanding(r) ==
          r \in RequestsUpTo(console.last) /\ ~ AnsweredBy(console.last, r)
        newest == NewestRequest(console.last)
    IN /\ console.pending # None => Outstanding(console.pending)
       /\ Outstanding(newest) => console.pending = newest

(* A stream that ended normally has shown everything that was in the log when
   it was read for the last time, and a live one ended because the journey
   had: neither test of the generator cuts events off. *)
ClosesAfterDelivery ==
  console.status = "ended" /\ ~refused =>
    /\ mode = "live" => finished
    /\ Shown = Due(server.seen)

(* A console that watches a journey learns that it has finished, although no
   service appends an event that says so. *)
EndsWhenFinished ==
  mode = "live" /\ finished ~> console.status = "ended"

(* A live console is a feed until its stream ends. *)
Feed == INSTANCE EventFeed WITH
  Ids <- Number,
  recorded <- Due(MaxEvents),
  shown <- IF mode = "live" THEN shown ELSE <<>>,
  over <- mode = "replay" \/ console.status = "ended"

(* The stream implements the feed: nothing the console presents is skipped,
   repeated or shown out of order, and every event is shown in the end unless
   the stream ends first. *)
ImplementsFeed == Feed!Spec
=============================================================================
