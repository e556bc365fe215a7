--------------------------- MODULE EventStreamProofs ---------------------------
(***************************************************************************)
(* Proofs about EventStream for every set of writers, every length of the  *)
(* journey's log and of the console's, and any number of broken            *)
(* connections: its types, that events are shown once and in order, and    *)
(* that a stream ends only after it has delivered what it read.            *)
(***************************************************************************)
EXTENDS EventStream, SequenceTheorems, TLAPS

(* An append that has read the greatest number is not ahead of the log. *)
WritersBehind ==
  \A w \in Writers : Appending(w) =>
    writer[w].last \in Numbers \union {0} /\ writer[w].last < MaxEvents

(* The number past the end of the log is sent to a replay only, and so a live
   console never asks for what follows it. *)
LiveNumbers ==
  mode = "live" =>
    /\ console.last <= MaxEvents
    /\ \A i \in DOMAIN wire : wire[i].type # "replay_ended"

TypeInv == TypeOK /\ WritersBehind /\ LiveNumbers

(* Only a console that is connected has a generator and messages under way. *)
Linked == console.status # "live" => wire = <<>> /\ Serving("down")

(* What a list that was read still holds is what lies between the event yielded
   last and the end of the log at that time. *)
ReadsInOrder ==
  /\ server.cursor \in Numbers \union {0}
  /\ server.seen \in Numbers \union {0}
  /\ console.status = "live" /\ ~Serving("reading") =>
       /\ server.cursor <= server.seen
       /\ server.batch = {i \in Numbers : server.cursor < i /\ i <= server.seen}
       /\ Serving("yielding") <=> server.batch # {}

(* The messages in their order: a replay begins with its first message and ends
   with the last but one, and nothing follows the end of an answer. *)
WireFramed ==
  \A i \in DOMAIN wire :
    /\ wire[i].type = "replay_started" => i = 1 /\ mode = "replay"
    /\ wire[i].type = "replay_ended" =>
         /\ mode = "replay" /\ wire[i].id = server.cursor + 1
         /\ i + 1 = Len(wire) /\ wire[i + 1].type = "close"
    /\ wire[i].type = "close" => i = Len(wire) /\ Serving("down")

Starting == wire # <<>> /\ Head(wire).type = "replay_started"
Base == IF Starting THEN 0 ELSE console.last

(* A replay is shown between its first and its last message. *)
Replaying ==
  mode = "replay" /\ console.status = "live" /\ ~Starting =>
    \/ console.replaying
    \/ Len(wire) = 1 /\ wire[1].type = "close" /\ console.last = server.cursor + 1

(* The events under way are those between the one received last and the one
   yielded last, in their order. *)
WireCarries ==
  console.status = "live" =>
    /\ \A i \in DOMAIN wire : wire[i].type = "event" =>
         /\ wire[i].id \in Numbers
         /\ Base < wire[i].id /\ wire[i].id <= server.cursor
    /\ \A i, j \in DOMAIN wire :
         i < j /\ wire[i].type = "event" /\ wire[j].type = "event" =>
           wire[i].id < wire[j].id
    /\ \A n \in Numbers : Base < n /\ n <= server.cursor =>
         \E i \in DOMAIN wire : wire[i].type = "event" /\ wire[i].id = n
    /\ mode = "live" \/ (console.replaying /\ ~Starting) =>
         console.last <= server.cursor

(* What was received, and whether it ended. *)
ReceivedKnown ==
  /\ Received \in Numbers \union {0}
  /\ mode = "live" => ~console.replaying

(* A stream is closed by a journey that has finished, after all that was read. *)
FinalIsLast ==
  /\ \A n \in Numbers : log[n].kind = "final" => finished
  /\ mode = "live" /\ Serving("closing") => finished
  /\ mode = "live" /\ wire # <<>> /\ wire[Len(wire)].type = "close" => finished
  /\ console.status = "ended" /\ ~refused =>
       (mode = "live" => finished) /\ Received = server.seen
  /\ console.status = "live" /\ Serving("closing") => server.batch = {}
  /\ refused => console.status = "ended"

DeliveryInv ==
  /\ Linked /\ ReadsInOrder /\ WireFramed /\ Replaying /\ WireCarries
  /\ ReceivedKnown /\ FinalIsLast /\ ShownOnceInOrder

-------------------------------------------------------------------------------
(* The log and the console. *)

LEMMA LogLength ==
  ASSUME TypeOK
  PROVE  /\ LastNumber \in 0..MaxEvents
         /\ Numbers = 1..LastNumber
<1>1. PICK n \in 0..MaxEvents : Numbers = 1..n
  BY DEF TypeOK
<1>2. n \in Numbers \union {0} /\ \A i \in Numbers : i <= n
  BY <1>1, StreamAssumption
<1>3. LastNumber \in Numbers \union {0} /\ \A i \in Numbers : i <= LastNumber
  BY <1>2 DEF LastNumber
<1>4. LastNumber = n
  BY <1>1, <1>2, <1>3, StreamAssumption
<1> QED BY <1>1, <1>4

LEMMA AppendLogFacts ==
  ASSUME TypeOK, NEW e \in 0..(MaxEvents + 1)
  PROVE  /\ AppendLog(e) \in Seq(0..(MaxEvents + 1))
         /\ Len(AppendLog(e)) = IF Len(console.log) < MaxLogEntries
                                THEN Len(console.log) + 1 ELSE MaxLogEntries
         /\ AppendLog(e)[Len(AppendLog(e))] = e
         /\ \A i \in 1..(Len(AppendLog(e)) - 1) :
              AppendLog(e)[i] = console.log[Len(console.log) + 1 - Len(AppendLog(e)) + i]
<1> DEFINE l == console.log
           entries == Append(l, e)
<1>1. l \in Seq(0..(MaxEvents + 1)) /\ Len(l) <= MaxLogEntries /\ Len(l) \in Nat
  BY DEF TypeOK, Console
<1>2. /\ entries \in Seq(0..(MaxEvents + 1)) /\ Len(entries) = Len(l) + 1
      /\ \A i \in 1..Len(l) : entries[i] = l[i]
      /\ entries[Len(l) + 1] = e
  BY <1>1
<1> DEFINE cut == AppendLog(e)
<1>3. ASSUME Len(l) < MaxLogEntries PROVE cut = entries
  BY <1>1, <1>2, <1>3, StreamAssumption DEF AppendLog
<1>4. ASSUME ~(Len(l) < MaxLogEntries)
      PROVE  /\ Len(l) = MaxLogEntries
             /\ cut = SubSeq(entries, 2, MaxLogEntries + 1)
  <2>1. Len(l) = MaxLogEntries
    BY <1>1, <1>4, StreamAssumption
  <2>2. Len(entries) = MaxLogEntries + 1 /\ Len(entries) - MaxLogEntries = 1
    BY <1>2, <2>1, StreamAssumption
  <2>3. cut = IF Len(entries) - MaxLogEntries > 0
              THEN SubSeq(entries, Len(entries) - MaxLogEntries + 1, Len(entries))
              ELSE entries
    BY DEF AppendLog
  <2> HIDE DEF cut, entries
  <2>4. cut = SubSeq(entries, 1 + 1, MaxLogEntries + 1)
    BY <2>2, <2>3
  <2> QED BY <2>1, <2>4
<1> HIDE DEF entries, cut, l
<1>5. ASSUME ~(Len(l) < MaxLogEntries)
      PROVE  /\ cut \in Seq(0..(MaxEvents + 1)) /\ Len(cut) = MaxLogEntries
             /\ \A i \in 1..MaxLogEntries : cut[i] = entries[i + 1]
  <2>1. entries \in Seq(0..(MaxEvents + 1)) /\ entries # <<>>
        /\ Len(entries) = MaxLogEntries + 1
    BY <1>1, <1>2, <1>4, <1>5, StreamAssumption
  <2>2. cut = Tail(entries)
    BY <1>4, <1>5, <2>1, TailIsSubSeq
  <2>3. /\ Tail(entries) \in Seq(0..(MaxEvents + 1))
        /\ Len(Tail(entries)) = Len(entries) - 1
        /\ \A i \in 1..Len(Tail(entries)) : Tail(entries)[i] = entries[i + 1]
    BY <2>1, HeadTailProperties
  <2>4. Len(entries) - 1 = MaxLogEntries
    BY <2>1, StreamAssumption
  <2> QED BY <2>2, <2>3, <2>4
<1>6. cut \in Seq(0..(MaxEvents + 1))
  BY <1>2, <1>3, <1>5
<1>7. Len(cut) = IF Len(l) < MaxLogEntries THEN Len(l) + 1 ELSE MaxLogEntries
  BY <1>2, <1>3, <1>5
<1>8. cut[Len(cut)] = e
  BY <1>1, <1>2, <1>3, <1>4, <1>5, StreamAssumption
<1>9. ASSUME NEW i \in 1..(Len(cut) - 1)
      PROVE  cut[i] = l[Len(l) + 1 - Len(cut) + i]
  <2>1. CASE Len(l) < MaxLogEntries
    BY <1>1, <1>2, <1>3, <1>9, <2>1
  <2>2. CASE ~(Len(l) < MaxLogEntries)
    <3>1. Len(cut) = MaxLogEntries /\ Len(l) = MaxLogEntries
      BY <1>4, <1>5, <2>2
    <3>2. i \in 1..MaxLogEntries /\ i + 1 \in 1..Len(l)
          /\ Len(l) + 1 - Len(cut) + i = i + 1
      BY <3>1, StreamAssumption
    <3> QED BY <1>2, <1>5, <2>2, <3>2
  <2> QED BY <2>1, <2>2
<1> QED BY <1>6, <1>7, <1>8, <1>9 DEF cut, l

(* What is in the sets of frames and messages. *)
LEMMA MessageFacts ==
  /\ \A n \in Number : [type |-> "event", id |-> n] \in Message
  /\ [type |-> "replay_started", id |-> 0] \in Message
  /\ \A n \in 1..(MaxEvents + 1) : [type |-> "replay_ended", id |-> n] \in Message
  /\ [type |-> "close"] \in Message
  /\ \A m \in Message : /\ m.type = "event" => m.id \in Number
                        /\ m.type = "replay_ended" => m.id \in 1..(MaxEvents + 1)
<1>1. \A n \in Number : [type |-> "event", id |-> n] \in Message
  BY DEF Message
<1>2. [type |-> "replay_started", id |-> 0] \in Message
  BY DEF Message
<1>3. \A n \in 1..(MaxEvents + 1) : [type |-> "replay_ended", id |-> n] \in Message
  BY DEF Message
<1>4. [type |-> "close"] \in Message
  BY DEF Message
<1>5. \A m \in Message : /\ m.type = "event" => m.id \in Number
                         /\ m.type = "replay_ended" => m.id \in 1..(MaxEvents + 1)
  BY DEF Message
<1> QED BY <1>1, <1>2, <1>3, <1>4, <1>5

LEMMA ServerFields ==
  ASSUME TypeOK
  PROVE  /\ server = [pc |-> server.pc, cursor |-> server.cursor,
                      batch |-> server.batch, seen |-> server.seen]
         /\ server.cursor \in 0..MaxEvents /\ server.seen \in 0..MaxEvents
         /\ server.batch \subseteq Number
BY DEF TypeOK, ServerFrame

LEMMA ConsoleFields ==
  ASSUME TypeOK
  PROVE  /\ console = [status |-> console.status, last |-> console.last,
                       log |-> console.log, pending |-> console.pending,
                       replaying |-> console.replaying]
         /\ console.status \in {"connecting", "live", "reconnecting", "ended"}
         /\ console.last \in 0..(MaxEvents + 1)
         /\ console.log \in Seq(0..(MaxEvents + 1))
         /\ console.pending \in Number \union {None}
         /\ console.replaying \in BOOLEAN
BY DEF TypeOK, Console

(* What the wire holds after one message more and after one less. *)
LEMMA AppendFacts ==
  ASSUME wire \in Seq(Message), NEW m, m \in Message
  PROVE  /\ Append(wire, m) \in Seq(Message)
         /\ Len(Append(wire, m)) = Len(wire) + 1 /\ Len(wire) \in Nat
         /\ DOMAIN wire = 1..Len(wire)
         /\ DOMAIN Append(wire, m) = 1..(Len(wire) + 1)
         /\ \A i \in 1..Len(wire) : Append(wire, m)[i] = wire[i]
         /\ Append(wire, m)[Len(wire) + 1] = m
BY AppendProperties, LenProperties

LEMMA TailFacts ==
  ASSUME wire \in Seq(Message), wire # <<>>
  PROVE  /\ Len(wire) \in Nat \ {0} /\ DOMAIN wire = 1..Len(wire)
         /\ Len(Tail(wire)) = Len(wire) - 1 /\ DOMAIN Tail(wire) = 1..(Len(wire) - 1)
         /\ \A i \in 1..(Len(wire) - 1) : Tail(wire)[i] = wire[i + 1]
         /\ \A i \in 2..Len(wire) : Tail(wire)[i - 1] = wire[i]
         /\ Head(wire) = wire[1]
<1>1. /\ Len(wire) \in Nat /\ Len(wire) # 0 /\ DOMAIN wire = 1..Len(wire)
      /\ Head(wire) = wire[1]
  BY EmptySeq, LenProperties
<1>2. /\ Tail(wire) \in Seq(Message) /\ Len(Tail(wire)) = Len(wire) - 1
      /\ \A i \in 1..Len(Tail(wire)) : Tail(wire)[i] = wire[i + 1]
  BY HeadTailProperties
<1>3. DOMAIN Tail(wire) = 1..(Len(wire) - 1)
  BY <1>2, LenProperties
<1>4. \A i \in 2..Len(wire) : Tail(wire)[i - 1] = wire[i]
  <2> TAKE i \in 2..Len(wire)
  <2>1. i - 1 \in 1..Len(Tail(wire)) /\ (i - 1) + 1 = i
    BY <1>1, <1>2
  <2> QED BY <1>2, <2>1
<1> QED BY <1>1, <1>2, <1>3, <1>4

LEMMA CloseFacts ==
  ASSUME TypeOK, Close
  PROVE  /\ wire' \in Seq(Message) /\ Len(wire) \in Nat
         /\ DOMAIN wire = 1..Len(wire) /\ DOMAIN wire' = 1..Len(wire')
         /\ Len(wire') = Len(wire) + (IF mode = "live" THEN 1 ELSE 2)
         /\ \A i \in 1..Len(wire) : wire'[i] = wire[i]
         /\ wire'[Len(wire')] = [type |-> "close"]
         /\ mode # "live" =>
              wire'[Len(wire) + 1] = [type |-> "replay_ended", id |-> server.cursor + 1]
<1> DEFINE end == [type |-> "close"]
           ended == [type |-> "replay_ended", id |-> server.cursor + 1]
<1>1. wire \in Seq(Message) /\ end \in Message /\ ended \in Message
  <2>1. server.cursor + 1 \in 1..(MaxEvents + 1)
    BY ServerFields, StreamAssumption
  <2> QED BY <2>1, MessageFacts DEF TypeOK
<1>2. wire' = wire \o (IF mode = "live" THEN <<>> ELSE <<ended>>) \o <<end>>
  BY DEF Close
<1> HIDE DEF end, ended
<1>3. CASE mode = "live"
  <2>1. wire' = Append(wire, end)
    BY <1>1, <1>2, <1>3
  <2> QED BY <1>1, <1>3, <2>1, AppendFacts DEF end
<1>4. CASE mode # "live"
  <2> DEFINE w == Append(wire, ended)
  <2>1. wire' = Append(w, end)
    <3>1. w = wire \o <<ended>> /\ w \in Seq(Message)
      BY <1>1, AppendIsConcat, AppendProperties
    <3>2. Append(w, end) = w \o <<end>>
      BY <1>1, <3>1, AppendIsConcat
    <3> QED BY <1>2, <1>4, <3>1, <3>2
  <2>2. /\ w \in Seq(Message) /\ Len(w) = Len(wire) + 1 /\ Len(wire) \in Nat
        /\ DOMAIN wire = 1..Len(wire)
        /\ \A i \in 1..Len(wire) : w[i] = wire[i]
        /\ w[Len(wire) + 1] = ended
    BY <1>1, AppendFacts
  <2> HIDE DEF w
  <2>3. /\ wire' \in Seq(Message) /\ Len(wire') = Len(w) + 1
        /\ \A i \in 1..Len(w) : wire'[i] = w[i]
        /\ wire'[Len(w) + 1] = end
    BY <1>1, <2>1, <2>2, AppendProperties
  <2>4. DOMAIN wire' = 1..Len(wire')
    BY <2>3, LenProperties
  <2> QED BY <1>4, <2>2, <2>3, <2>4 DEF end, ended
<1> QED BY <1>3, <1>4

(* An insertion adds the number that follows all others, or nothing. *)
LEMMA InsertFacts ==
  ASSUME TypeInv, NEW w \in Writers, Insert(w)
  PROVE  /\ Numbers \subseteq Numbers' /\ \A i \in Numbers : log'[i] = log[i]
         /\ Numbers' # Numbers =>
              Numbers' = 1..(LastNumber + 1) /\ LastNumber + 1 \in Number
         /\ \A i \in Numbers' \ Numbers :
              /\ log'[i] \in Event
              /\ log'[i].kind = "final" => finished
<1>1. Numbers = 1..LastNumber /\ LastNumber \in 0..MaxEvents
  BY LogLength DEF TypeInv
<1>2. /\ Appending(w) /\ writer[w].last \in Numbers \union {0}
      /\ writer[w].last < MaxEvents
  BY DEF TypeInv, WritersBehind, Insert
<1>3. writer[w].request \in Number \union {None}
  <2>1. writer[w] \in WriterFrame
    BY DEF TypeInv, TypeOK
  <2> QED BY <2>1, <1>2 DEF WriterFrame, Appending
<1> DEFINE n == writer[w].last + 1
<1>4. n \in Nat /\ n \in 1..(LastNumber + 1) /\ n \in Number
  BY <1>1, <1>2, StreamAssumption DEF Number
<1>5. CASE n \in Numbers
  BY <1>5 DEF Insert, Numbers
<1>6. CASE n \notin Numbers
  <2>1. n = LastNumber + 1
    BY <1>1, <1>4, <1>6, StreamAssumption
  <2>2. PICK e \in Payload(writer[w].request) :
           log' = [i \in Numbers \union {n} |-> IF i = n THEN e ELSE log[i]]
    BY <1>6 DEF Insert
  <2>3. e \in Event /\ (e.kind = "final" => finished)
    BY <1>3 DEF Payload, Event, Kind, AnswerTo, None
  <2> HIDE DEF n
  <2>4. /\ Numbers' = Numbers \union {n} /\ log'[n] = e
        /\ \A i \in Numbers : log'[i] = log[i]
    BY <2>2, <1>6 DEF Numbers
  <2>5. Numbers' = 1..(LastNumber + 1)
    BY <2>1, <2>4, <1>1, StreamAssumption
  <2> QED BY <2>1, <2>3, <2>4, <2>5, <1>4, <1>6
<1> QED BY <1>5, <1>6

-------------------------------------------------------------------------------
(* Types. *)

LEMMA TypeInit == Init => TypeInv
<1> SUFFICES ASSUME Init PROVE TypeInv
  OBVIOUS
<1>1. DOMAIN log = 1..0
  BY DEF Init
<1>2. Numbers \in {1..n : n \in 0..MaxEvents} /\ \A n \in Numbers : log[n] \in Event
  BY <1>1, StreamAssumption DEF Numbers
<1>3. writer \in [Writers -> WriterFrame] /\ WritersBehind
  BY DEF Init, Idle, WriterFrame, WritersBehind, Appending
<1>4. server \in ServerFrame
  BY StreamAssumption DEF Init, Down, ServerFrame
<1>5. console \in Console /\ Len(console.log) <= MaxLogEntries
  BY StreamAssumption DEF Init, Console, None
<1>6. wire \in Seq(Message) /\ shown \in Seq(Number)
  <2>1. wire = <<>> /\ shown = <<>>
    BY DEF Init
  <2>2. <<>> \in Seq(Message) /\ <<>> \in Seq(Number)
    BY EmptySeq
  <2> QED BY <2>1, <2>2
<1>7. /\ mode \in {"live", "replay"} /\ finished \in BOOLEAN
      /\ faults \in 0..MaxFaults /\ refused \in BOOLEAN
  <2>1. faults = 0 /\ 0 \in 0..MaxFaults
    BY StreamAssumption DEF Init
  <2> QED BY <2>1, Zenon DEF Init
<1>8. LiveNumbers
  BY StreamAssumption DEF Init, LiveNumbers
<1> QED BY <1>2, <1>3, <1>4, <1>5, <1>6, <1>7, <1>8 DEF TypeInv, TypeOK

(* What a step leaves of the types when the log and the writers stay. *)
LEMMA TypeFrame ==
  ASSUME TypeInv, UNCHANGED <<mode, log, writer>>,
         finished' \in BOOLEAN, server' \in ServerFrame, wire' \in Seq(Message),
         console' \in Console, Len(console'.log) <= MaxLogEntries,
         faults' \in 0..MaxFaults, shown' \in Seq(Number), refused' \in BOOLEAN,
         LiveNumbers'
  PROVE  TypeInv'
BY DEF TypeInv, TypeOK, WritersBehind, Appending, Numbers

LEMMA TypeWriters ==
  ASSUME TypeInv, NEW w \in Writers,
         (\E r \in Number \union {None} : BeginAppend(w, r)) \/ Answer(w) \/ Insert(w)
  PROVE  TypeInv'
<1>1. /\ TypeOK /\ Numbers = 1..LastNumber /\ LastNumber \in 0..MaxEvents
      /\ UNCHANGED <<mode, finished, server, wire, console, faults, history>>
  BY LogLength DEF TypeInv, BeginAppend, Answer, Insert
<1>2. UNCHANGED history => UNCHANGED <<shown, refused>>
  BY DEF history
<1>3. ASSUME NEW r \in Number \union {None}, BeginAppend(w, r)
      PROVE  TypeInv'
  <2> DEFINE f == [pc |-> "inserting", last |-> LastNumber, request |-> r]
  <2>1. f \in WriterFrame /\ f.last = LastNumber
    BY <1>1 DEF WriterFrame
  <2>2. /\ writer' = [writer EXCEPT ![w] = f] /\ UNCHANGED log
        /\ LastNumber < MaxEvents
    BY <1>3 DEF BeginAppend
  <2>3. LastNumber \in Numbers \union {0}
    BY <1>1
  <2> HIDE DEF f
  <2>4. writer \in [Writers -> WriterFrame]
    BY <1>1 DEF TypeOK
  <2>5. writer' \in [Writers -> WriterFrame]
    BY <2>1, <2>2, <2>4
  <2>6. WritersBehind'
    <3>1. \A v \in Writers : writer'[v] = IF v = w THEN f ELSE writer[v]
      BY <2>2, <2>4
    <3> QED BY <2>1, <2>2, <2>3, <3>1 DEF TypeInv, WritersBehind, Appending, Numbers
  <2> QED BY <1>1, <1>2, <2>2, <2>5, <2>6 DEF TypeInv, TypeOK, Numbers, LiveNumbers
<1>4. ASSUME Insert(w)
      PROVE  TypeInv'
  <2>1. /\ Numbers \subseteq Numbers' /\ \A i \in Numbers : log'[i] = log[i]
        /\ Numbers' # Numbers =>
             Numbers' = 1..(LastNumber + 1) /\ LastNumber + 1 \in Number
        /\ \A i \in Numbers' \ Numbers : log'[i] \in Event
    BY <1>4, InsertFacts
  <2>2. Numbers' \in {1..n : n \in 0..MaxEvents}
    <3>1. CASE Numbers' = Numbers
      BY <1>1, <3>1
    <3>2. CASE Numbers' # Numbers
      BY <1>1, <2>1, <3>2, StreamAssumption DEF Number
    <3> QED BY <3>1, <3>2
  <2>3. \A n \in Numbers' : log'[n] \in Event
    BY <1>1, <2>1 DEF TypeOK
  <2>4. writer' = [writer EXCEPT ![w] = Idle] /\ writer \in [Writers -> WriterFrame]
    BY <1>1, <1>4 DEF Insert, TypeOK
  <2>5. writer' \in [Writers -> WriterFrame]
    BY <2>4 DEF WriterFrame, Idle
  <2>6. WritersBehind'
    <3>1. \A v \in Writers : writer'[v] = IF v = w THEN Idle ELSE writer[v]
      BY <2>4
    <3> QED BY <2>1, <3>1 DEF TypeInv, WritersBehind, Appending, Idle
  <2> QED BY <1>1, <1>2, <2>2, <2>3, <2>5, <2>6 DEF TypeInv, TypeOK, LiveNumbers
<1>5. ASSUME Answer(w)
      PROVE  TypeInv'
  <2>1. PICK r \in Numbers : writer' = [writer EXCEPT ![w] =
                                        [pc |-> "answering", request |-> r]]
    BY <1>5 DEF Answer
  <2> DEFINE f == [pc |-> "answering", request |-> r]
  <2>2. f \in WriterFrame /\ f.pc = "answering"
    BY <1>1, StreamAssumption DEF WriterFrame, Number
  <2>3. writer' = [writer EXCEPT ![w] = f] /\ writer \in [Writers -> WriterFrame]
    BY <1>1, <2>1 DEF TypeOK
  <2> HIDE DEF f
  <2>4. writer' \in [Writers -> WriterFrame]
    BY <2>2, <2>3
  <2>5. UNCHANGED log
    BY <1>5 DEF Answer
  <2>6. WritersBehind'
    <3>1. \A v \in Writers : writer'[v] = IF v = w THEN f ELSE writer[v]
      BY <2>3
    <3> QED BY <2>2, <2>5, <3>1 DEF TypeInv, WritersBehind, Appending, Numbers
  <2> QED BY <1>1, <1>2, <2>4, <2>5, <2>6 DEF TypeInv, TypeOK, Numbers, LiveNumbers
<1> QED BY <1>3, <1>4, <1>5

LEMMA TypeService ==
  ASSUME TypeInv, Service
  PROVE  TypeInv'
<1>1. /\ TypeOK /\ Numbers = 1..LastNumber /\ LastNumber \in 0..MaxEvents
      /\ UNCHANGED <<mode, log, finished, writer, faults, shown, refused>>
  BY LogLength DEF TypeInv, Service, Connect, Read, Yield, Test, Close, history
<1>2. /\ server = [pc |-> server.pc, cursor |-> server.cursor,
                   batch |-> server.batch, seen |-> server.seen]
      /\ server.cursor \in 0..MaxEvents /\ server.seen \in 0..MaxEvents
      /\ server.batch \subseteq Number
  BY <1>1, ServerFields
<1>3. /\ console \in Console /\ Len(console.log) <= MaxLogEntries
      /\ wire \in Seq(Message) /\ server \in ServerFrame
  BY <1>1 DEF TypeOK
<1>4. \A p \in {"down", "reading", "yielding", "testing", "closing"} :
        Goto(p) => server' \in ServerFrame
  BY <1>2 DEF Goto, ServerFrame
<1>5. CASE Connect
  <2>1. console' = [console EXCEPT !.status = "live"]
    BY <1>5 DEF Connect
  <2>2. console' \in Console /\ console'.log = console.log
    BY <1>1, <2>1, ConsoleFields DEF Console
  <2>3. wire' \in Seq(Message)
    BY <1>5, MessageFacts, EmptySeq DEF Connect
  <2>4. server' \in ServerFrame
    <3>1. mode = "live" => console.last \in 0..MaxEvents
      BY <1>1, ConsoleFields, StreamAssumption DEF TypeInv, LiveNumbers
    <3> QED BY <1>5, <3>1, StreamAssumption DEF Connect, ServerFrame
  <2>5. LiveNumbers'
    BY <1>1, <1>5, <2>1, ConsoleFields DEF TypeInv, LiveNumbers, Connect
  <2> QED BY <1>1, <1>3, <2>2, <2>3, <2>4, <2>5, TypeFrame DEF TypeOK
<1>6. CASE Read
  <2>1. LET rows == {n \in Numbers : n > server.cursor}
        IN server' = [pc |-> server'.pc, cursor |-> server.cursor,
                      batch |-> rows, seen |-> LastNumber]
           /\ server'.pc \in {"yielding", "testing", "closing"}
    BY <1>2, <1>6 DEF Read
  <2>2. {n \in Numbers : n > server.cursor} \subseteq Number
    BY <1>1, StreamAssumption DEF Number
  <2>3. server' \in ServerFrame
    BY <1>1, <1>2, <2>1, <2>2 DEF ServerFrame
  <2> QED BY <1>1, <1>3, <1>6, <2>3, TypeFrame DEF TypeOK, TypeInv, LiveNumbers, Read
<1>7. CASE Yield
  <2>1. PICK n \in server.batch :
          /\ wire' = Append(wire, [type |-> "event", id |-> n])
          /\ server' = [server EXCEPT !.cursor = n, !.batch = @ \ {n},
                          !.pc = AfterYield(n, server.batch \ {n})]
    BY <1>7 DEF Yield
  <2>2. wire' \in Seq(Message)
    BY <1>2, <1>3, <2>1, MessageFacts, AppendProperties
  <2>3. AfterYield(n, server.batch \ {n}) \in {"yielding", "closing", "reading"}
    BY DEF AfterYield
  <2>4. server' = [pc |-> AfterYield(n, server.batch \ {n}), cursor |-> n,
                   batch |-> server.batch \ {n}, seen |-> server.seen]
    BY <1>2, <2>1
  <2>5. n \in 0..MaxEvents /\ server.batch \ {n} \subseteq Number
    BY <1>2 DEF Number
  <2>6. server' \in ServerFrame
    BY <1>2, <2>3, <2>4, <2>5 DEF ServerFrame
  <2>7. LiveNumbers'
    <3>1. wire' = Append(wire, [type |-> "event", id |-> n]) /\ UNCHANGED console
      BY <1>7, <2>1 DEF Yield
    <3>2. \A i \in DOMAIN wire' :
            \/ i \in DOMAIN wire /\ wire'[i] = wire[i]
            \/ wire'[i] = [type |-> "event", id |-> n]
      BY <1>3, <3>1, AppendFacts
    <3> QED BY <1>1, <3>1, <3>2 DEF TypeInv, LiveNumbers
  <2> QED BY <1>1, <1>3, <1>7, <2>2, <2>6, <2>7, TypeFrame DEF TypeOK, Yield
<1>8. CASE Test
  <2>1. server' \in ServerFrame
    BY <1>4, <1>8 DEF Test
  <2> QED BY <1>1, <1>3, <1>8, <2>1, TypeFrame DEF TypeOK, TypeInv, LiveNumbers, Test
<1>9. CASE Close
  <2>1. wire' \in Seq(Message)
    BY <1>1, <1>9, CloseFacts
  <2>2. server' \in ServerFrame
    BY <1>4, <1>9 DEF Close
  <2>3. LiveNumbers'
    BY <1>1, <1>9, CloseFacts, LenProperties DEF TypeInv, LiveNumbers, Close
  <2> QED BY <1>1, <1>3, <1>9, <2>1, <2>2, <2>3, TypeFrame DEF TypeOK, Close
<1> QED BY <1>5, <1>6, <1>7, <1>8, <1>9 DEF Service

LEMMA TypeReceive ==
  ASSUME TypeInv, Receive
  PROVE  TypeInv'
<1>1. /\ TypeOK /\ wire # <<>> /\ wire \in Seq(Message) /\ wire' = Tail(wire)
      /\ UNCHANGED <<mode, log, finished, writer, server, faults>>
  BY DEF TypeInv, TypeOK, Receive, ReceiveHidden, ReceiveEvent, ReceiveStarted,
         ReceiveEnded, ReceiveClose, Receiving
<1>2. wire' \in Seq(Message) /\ Head(wire) \in Message
  BY <1>1, HeadTailProperties
<1>3. /\ Head(wire).type = "event" => Head(wire).id \in Number
      /\ Head(wire).type = "replay_ended" => Head(wire).id \in 1..(MaxEvents + 1)
  BY <1>2, MessageFacts
<1>4. console = [status |-> console.status, last |-> console.last,
                 log |-> console.log, pending |-> console.pending,
                 replaying |-> console.replaying]
  BY <1>1, ConsoleFields
<1>5. /\ console.status \in {"connecting", "live", "reconnecting", "ended"}
      /\ console.last \in 0..(MaxEvents + 1)
      /\ console.log \in Seq(0..(MaxEvents + 1)) /\ Len(console.log) <= MaxLogEntries
      /\ console.pending \in Number \union {None}
      /\ console.replaying \in BOOLEAN
  BY <1>1, ConsoleFields DEF TypeOK
<1>6. ASSUME NEW e \in 0..(MaxEvents + 1)
      PROVE  /\ AppendLog(e) \in Seq(0..(MaxEvents + 1))
             /\ Len(AppendLog(e)) <= MaxLogEntries
  BY <1>1, <1>5, AppendLogFacts, LenProperties, StreamAssumption
<1>7. /\ finished' \in BOOLEAN /\ server' \in ServerFrame /\ faults' \in 0..MaxFaults
      /\ shown \in Seq(Number) /\ refused \in BOOLEAN
      /\ UNCHANGED <<mode, log, writer>>
  BY <1>1 DEF TypeOK
<1>15. LiveNumbers'
  <2>1. \A i \in DOMAIN wire' : i + 1 \in DOMAIN wire /\ wire'[i] = wire[i + 1]
    BY <1>1, TailFacts
  <2>2. mode = "live" => Head(wire).type # "replay_ended"
    BY <1>1, TailFacts DEF TypeInv, LiveNumbers
  <2>3. mode = "live" => console'.last \in {console.last, 0} \union Number
    BY <1>3, <1>4, <2>2 DEF Receive, ReceiveHidden, ReceiveEvent, ReceiveStarted,
                            ReceiveEnded, ReceiveClose, Receiving
  <2>4. mode = "live" => console'.last <= MaxEvents
    BY <2>3, StreamAssumption DEF TypeInv, LiveNumbers, Number
  <2> QED BY <1>1, <2>1, <2>4 DEF TypeInv, LiveNumbers
<1>8. SUFFICES /\ console' \in Console /\ Len(console'.log) <= MaxLogEntries
               /\ shown' \in Seq(Number) /\ refused' = refused
  BY <1>2, <1>7, <1>15, TypeFrame
<1>9. ASSUME ReceiveHidden \/ ReceiveEnded \/ ReceiveStarted,
             NEW l \in Seq(0..(MaxEvents + 1)), Len(l) <= MaxLogEntries,
             NEW n \in 0..(MaxEvents + 1), NEW p \in BOOLEAN,
             console' = [status |-> console.status, last |-> n, log |-> l,
                         pending |-> console.pending, replaying |-> p]
      PROVE  console' \in Console /\ Len(console'.log) <= MaxLogEntries
  BY <1>5, <1>9 DEF Console
<1>10. CASE ReceiveHidden
  <2>1. console' = [status |-> console.status, last |-> Head(wire).id,
                    log |-> console.log, pending |-> console.pending,
                    replaying |-> console.replaying]
    BY <1>4, <1>10 DEF ReceiveHidden
  <2>2. Head(wire).id \in 0..(MaxEvents + 1) /\ UNCHANGED history
    BY <1>3, <1>10, StreamAssumption DEF ReceiveHidden, Receiving, Number
  <2> QED BY <1>5, <1>7, <1>9, <1>10, <2>1, <2>2 DEF history
<1>11. CASE ReceiveEvent
  <2> DEFINE n == Head(wire).id
  <2>1. n \in Number /\ n \in 0..(MaxEvents + 1)
    BY <1>3, <1>11, StreamAssumption DEF ReceiveEvent, Receiving, Number
  <2>2. /\ console' = [status |-> console.status, last |-> n, log |-> AppendLog(n),
                       pending |-> PendingAfter(n), replaying |-> console.replaying]
        /\ shown' = Append(shown, n) /\ refused' = refused
    BY <1>4, <1>11 DEF ReceiveEvent
  <2>3. PendingAfter(n) \in Number \union {None}
    BY <1>5, <2>1 DEF PendingAfter
  <2>4. /\ AppendLog(n) \in Seq(0..(MaxEvents + 1))
        /\ Len(AppendLog(n)) <= MaxLogEntries
    BY <1>6, <2>1
  <2>5. shown' \in Seq(Number)
    BY <1>7, <2>1, <2>2, AppendProperties
  <2> HIDE DEF n
  <2> QED BY <1>5, <2>1, <2>2, <2>3, <2>4, <2>5 DEF Console
<1>12. CASE ReceiveStarted
  <2>1. /\ console' = [status |-> console.status, last |-> 0, log |-> AppendLog(0),
                       pending |-> console.pending, replaying |-> TRUE]
        /\ shown' = <<>> /\ refused' = refused
    BY <1>4, <1>12 DEF ReceiveStarted
  <2>2. 0 \in 0..(MaxEvents + 1)
    BY StreamAssumption
  <2>3. <<>> \in Seq(Number)
    BY EmptySeq
  <2> QED BY <1>6, <1>9, <1>12, <2>1, <2>2, <2>3
<1>13. CASE ReceiveEnded
  <2> DEFINE n == Head(wire).id
  <2>1. n \in 0..(MaxEvents + 1) /\ UNCHANGED history
    BY <1>3, <1>13, StreamAssumption DEF ReceiveEnded, Receiving
  <2>2. console' = [status |-> console.status, last |-> n, log |-> AppendLog(n),
                    pending |-> console.pending, replaying |-> FALSE]
    BY <1>4, <1>13 DEF ReceiveEnded
  <2> HIDE DEF n
  <2> QED BY <1>6, <1>7, <1>9, <1>13, <2>1, <2>2 DEF history
<1>14. CASE ReceiveClose
  <2>1. console' = [status |-> "ended", last |-> console.last,
                    log |-> console.log, pending |-> console.pending,
                    replaying |-> console.replaying]
    BY <1>4, <1>14 DEF ReceiveClose
  <2>2. UNCHANGED history
    BY <1>14 DEF ReceiveClose
  <2> QED BY <1>5, <1>7, <2>1, <2>2 DEF history, Console
<1> QED BY <1>10, <1>11, <1>12, <1>13, <1>14 DEF Receive

LEMMA TypeStep == TypeInv /\ [Next]_vars => TypeInv'
<1> SUFFICES ASSUME TypeInv, [Next]_vars PROVE TypeInv'
  OBVIOUS
<1>1. /\ TypeOK /\ LiveNumbers
      /\ server \in ServerFrame /\ wire \in Seq(Message) /\ console \in Console
      /\ Len(console.log) <= MaxLogEntries /\ finished \in BOOLEAN
      /\ faults \in 0..MaxFaults /\ shown \in Seq(Number) /\ refused \in BOOLEAN
  BY DEF TypeInv, TypeOK
<1>2. ASSUME NEW w \in Writers, Record(w) \/ Answer(w) \/ AppendAnswer(w) \/ Insert(w)
      PROVE  TypeInv'
  <2>1. Record(w) \/ AppendAnswer(w) => \E r \in Number \union {None} : BeginAppend(w, r)
    <3>1. writer[w] \in WriterFrame
      BY <1>1 DEF TypeOK
    <3> QED BY <3>1 DEF Record, AppendAnswer, WriterFrame
  <2> QED BY <1>2, <2>1, TypeWriters
<1>3. CASE FinishJourney
  BY <1>1, <1>3, TypeFrame DEF FinishJourney, history, LiveNumbers
<1>4. CASE Break
  <2>1. /\ UNCHANGED <<mode, log, writer, finished, shown, refused>>
        /\ console' = [console EXCEPT !.status = "reconnecting"]
        /\ wire' = <<>> /\ server' = [server EXCEPT !.pc = "down"]
        /\ faults' = faults + 1 /\ faults < MaxFaults
    BY <1>4 DEF Break, history, Goto
  <2>2. /\ console' \in Console /\ console'.log = console.log
        /\ console'.last = console.last
    BY <1>1, <2>1, ConsoleFields DEF Console
  <2>3. server' \in ServerFrame
    BY <1>1, <2>1 DEF ServerFrame
  <2>4. wire' \in Seq(Message) /\ DOMAIN wire' = {}
    BY <2>1, EmptySeq
  <2>5. faults' \in 0..MaxFaults
    BY <1>1, <2>1, StreamAssumption
  <2>6. LiveNumbers'
    BY <1>1, <2>1, <2>2, <2>4 DEF LiveNumbers
  <2> QED BY <1>1, <2>1, <2>2, <2>3, <2>4, <2>5, <2>6, TypeFrame
<1>5. CASE Refuse
  <2>1. /\ UNCHANGED <<mode, log, finished, writer, server, wire, faults, shown>>
        /\ console' = [console EXCEPT !.status = "ended"] /\ refused' = TRUE
    BY <1>5 DEF Refuse
  <2>2. /\ console' \in Console /\ console'.log = console.log
        /\ console'.last = console.last
    BY <1>1, <2>1, ConsoleFields DEF Console
  <2>3. refused' \in BOOLEAN
    BY <2>1
  <2>4. LiveNumbers'
    BY <1>1, <2>1, <2>2 DEF LiveNumbers
  <2> QED BY <1>1, <2>1, <2>2, <2>3, <2>4, TypeFrame
<1>6. CASE UNCHANGED vars
  BY <1>1, <1>6, TypeFrame DEF vars, history, LiveNumbers
<1> QED
  BY <1>2, <1>3, <1>4, <1>5, <1>6, TypeService, TypeReceive DEF Next

(* The frames of the server and of the appends, the messages and the state of
   the console keep their types: no list holds a number that the log does not
   have, and the log of the console never grows beyond its limit. *)
THEOREM TypeCorrect == Spec => []TypeOK
<1>1. TypeInv => TypeOK
  BY DEF TypeInv
<1> QED BY TypeInit, TypeStep, <1>1, PTL DEF Spec

-------------------------------------------------------------------------------
(* Delivery. *)

LEMMA DeliveryInit == Init => DeliveryInv
<1> SUFFICES ASSUME Init PROVE DeliveryInv
  OBVIOUS
<1>1. /\ Numbers = {} /\ wire = <<>> /\ shown = <<>> /\ refused = FALSE
      /\ server = [pc |-> "down", cursor |-> 0, batch |-> {}, seen |-> 0]
      /\ console = [status |-> "connecting", last |-> 0, log |-> <<>>,
                    pending |-> None, replaying |-> FALSE]
  BY DEF Init, Down, Numbers
<1>2. Linked /\ ReadsInOrder /\ WireFramed /\ Replaying /\ WireCarries
  BY <1>1 DEF Linked, ReadsInOrder, WireFramed, Replaying, WireCarries, Serving
<1>3. Received = 0
  BY <1>1 DEF Received
<1>4. ReceivedKnown
  BY <1>1, <1>3 DEF ReceivedKnown
<1>5. FinalIsLast
  BY <1>1 DEF FinalIsLast, Serving
<1>6. ShownOnceInOrder
  <2>1. Shown = {} /\ Due(0) = {}
    BY <1>1 DEF Shown, Due
  <2> QED BY <1>1, <1>3, <2>1, StreamAssumption DEF ShownOnceInOrder
<1> QED BY <1>2, <1>4, <1>5, <1>6 DEF DeliveryInv

(* What does not touch the console's log and what it received does not touch
   the order of the events shown. *)
LEMMA ShownFrame ==
  ASSUME ShownOnceInOrder, UNCHANGED <<mode, log, shown>>,
         console'.log = console.log, Received' = Received
  PROVE  ShownOnceInOrder'
BY DEF ShownOnceInOrder, Shown, Due, Numbers

LEMMA DeliveryBeginAppend ==
  ASSUME DeliveryInv, UNCHANGED <<mode, log, finished, server, wire, console, shown, refused>>
  PROVE  DeliveryInv'
<1>1. Received' = Received /\ Base' = Base /\ Starting' = Starting /\ Numbers' = Numbers
  BY DEF Received, Base, Starting, Numbers
<1>2. Linked' /\ ReadsInOrder' /\ WireFramed' /\ Replaying' /\ WireCarries'
  BY <1>1 DEF DeliveryInv, Linked, ReadsInOrder, WireFramed, Replaying, WireCarries, Serving
<1>3. ReceivedKnown' /\ FinalIsLast'
  BY <1>1 DEF DeliveryInv, ReceivedKnown, FinalIsLast, Serving
<1>4. ShownOnceInOrder'
  BY <1>1, ShownFrame DEF DeliveryInv
<1> QED BY <1>2, <1>3, <1>4 DEF DeliveryInv

LEMMA DeliveryInsert ==
  ASSUME TypeInv, DeliveryInv, NEW w \in Writers, Insert(w)
  PROVE  DeliveryInv'
<1>1. /\ UNCHANGED <<mode, finished, server, wire, console, shown, refused>>
      /\ Received' = Received /\ Base' = Base /\ Starting' = Starting
  BY DEF Insert, history, Received, Base, Starting
<1>2. /\ TypeOK /\ Numbers = 1..LastNumber /\ LastNumber \in Nat
      /\ server.cursor \in Nat /\ server.seen \in Nat
  BY LogLength, ServerFields, StreamAssumption DEF TypeInv
<1>3. /\ Numbers \subseteq Numbers' /\ \A i \in Numbers : log'[i] = log[i]
      /\ \A i \in Numbers' \ Numbers : log'[i].kind = "final" => finished
      /\ \A i \in Numbers' \ Numbers : i = LastNumber + 1
  BY <1>2, InsertFacts
<1>4. \A i \in Numbers' \ Numbers, n \in Numbers \union {0} : ~(i <= n) /\ n < i
  BY <1>2, <1>3
<1>5. Linked' /\ WireFramed' /\ Replaying'
  BY <1>1 DEF DeliveryInv, Linked, WireFramed, Replaying, Serving
<1>6. ReadsInOrder'
  <2>1. server.cursor \in Numbers \union {0} /\ server.seen \in Numbers \union {0}
    BY DEF DeliveryInv, ReadsInOrder
  <2>2. {i \in Numbers' : server.cursor < i /\ i <= server.seen}
          = {i \in Numbers : server.cursor < i /\ i <= server.seen}
    BY <1>3, <1>4, <2>1
  <2> QED BY <1>1, <1>3, <2>1, <2>2 DEF DeliveryInv, ReadsInOrder, Serving
<1>7. WireCarries'
  <2>1. server.cursor \in Numbers \union {0}
    BY DEF DeliveryInv, ReadsInOrder
  <2>2. \A n \in Numbers' : n <= server.cursor => n \in Numbers
    BY <1>4, <2>1
  <2> QED BY <1>1, <1>3, <2>2 DEF DeliveryInv, WireCarries
<1>8. ReceivedKnown' /\ FinalIsLast'
  <2>1. \A n \in Numbers' : log'[n].kind = "final" => finished
    BY <1>3 DEF DeliveryInv, FinalIsLast
  <2> QED BY <1>1, <1>3, <2>1 DEF DeliveryInv, ReceivedKnown, FinalIsLast, Serving
<1>9. ShownOnceInOrder'
  <2>1. Received \in Numbers \union {0}
    BY DEF DeliveryInv, ReceivedKnown
  <2>2. Due(Received)' = Due(Received)
    BY <1>1, <1>3, <1>4, <2>1 DEF Due
  <2>3. Shown' = Shown
    BY <1>1 DEF Shown
  <2> QED BY <1>1, <2>2, <2>3 DEF DeliveryInv, ShownOnceInOrder
<1> QED BY <1>5, <1>6, <1>7, <1>8, <1>9 DEF DeliveryInv

LEMMA DeliveryConnect ==
  ASSUME TypeInv, DeliveryInv, Connect
  PROVE  DeliveryInv'
<1>1. /\ TypeOK /\ mode \in {"live", "replay"}
      /\ UNCHANGED <<mode, log, finished, shown, refused>>
      /\ console.status # "live" /\ console.status # "ended" /\ Numbers' = Numbers
  BY DEF TypeInv, TypeOK, Connect, history, Numbers
<1>2. /\ server'.pc = "reading" /\ server'.seen = 0
      /\ server'.cursor = (IF mode = "live" THEN console.last ELSE 0)
      /\ wire' = (IF mode = "live" THEN <<>>
                  ELSE <<[type |-> "replay_started", id |-> 0]>>)
  BY DEF Connect
<1>3. /\ console'.status = "live" /\ console'.last = console.last
      /\ console'.log = console.log /\ console'.replaying = console.replaying
  BY <1>1, ConsoleFields DEF Connect
<1>4. Received' = Received
  BY <1>1, <1>3 DEF Received
<1>5. /\ mode = "live" => wire' = <<>> /\ ~Starting' /\ Base' = console.last
      /\ mode # "live" => /\ Len(wire') = 1 /\ wire'[1].type = "replay_started"
                          /\ DOMAIN wire' = {1} /\ Starting' /\ Base' = 0
  BY <1>2, <1>3 DEF Starting, Base
<1>6. mode = "live" => console.last = Received
  BY DEF Received
<1>7. Linked' /\ WireFramed' /\ Replaying'
  BY <1>1, <1>3, <1>5 DEF Linked, WireFramed, Replaying
<1>8. ReadsInOrder'
  BY <1>1, <1>2, <1>6 DEF DeliveryInv, ReceivedKnown, ReadsInOrder, Serving
<1>9. WireCarries'
  <2>1. console.last \in Int /\ \A n \in Numbers : n \in Nat \ {0}
    BY <1>1, ConsoleFields, LogLength
  <2>2. CASE mode = "live"
    <3>1. server'.cursor = console.last /\ Base' = console.last /\ DOMAIN wire' = {}
      BY <1>2, <1>5, <2>2
    <3> QED BY <1>1, <1>3, <2>1, <2>2, <3>1 DEF WireCarries
  <2>3. CASE mode # "live"
    <3>1. server'.cursor = 0 /\ Base' = 0 /\ Starting' /\ DOMAIN wire' = {1}
          /\ wire'[1].type # "event"
      BY <1>2, <1>5, <2>3
    <3> QED BY <1>1, <1>3, <2>1, <2>3, <3>1 DEF WireCarries
  <2> QED BY <2>2, <2>3
<1>10. ReceivedKnown'
  BY <1>1, <1>3, <1>4 DEF DeliveryInv, ReceivedKnown
<1>11. FinalIsLast'
  BY <1>1, <1>2, <1>3, <1>5 DEF DeliveryInv, FinalIsLast, Serving
<1>12. ShownOnceInOrder'
  BY <1>1, <1>3, <1>4, ShownFrame DEF DeliveryInv
<1> QED BY <1>7, <1>8, <1>9, <1>10, <1>11, <1>12 DEF DeliveryInv

(* Reading and testing send nothing. *)
LEMMA DeliveryRead ==
  ASSUME TypeInv, DeliveryInv, Read \/ Test
  PROVE  DeliveryInv'
<1>1. /\ TypeOK /\ mode \in {"live", "replay"}
      /\ UNCHANGED <<mode, log, finished, wire, console, shown, refused>>
      /\ Numbers' = Numbers /\ Base' = Base /\ Starting' = Starting
      /\ Received' = Received
  BY DEF TypeInv, TypeOK, Read, Test, history, Numbers, Base, Starting, Received
<1>2. /\ server.pc # "down" /\ console.status = "live"
      /\ server'.cursor = server.cursor /\ server'.pc # "down"
  <2>1. server.pc # "down"
    BY DEF Read, Test, Serving
  <2>2. server'.cursor = server.cursor /\ server'.pc # "down"
    BY <1>1, ServerFields DEF Read, Test, Goto
  <2> QED BY <2>1, <2>2 DEF DeliveryInv, Linked, Serving
<1>3. /\ \A i \in DOMAIN wire : wire[i].type # "close" /\ wire[i].type # "replay_ended"
  BY <1>2 DEF DeliveryInv, WireFramed, Serving
<1>4. ReadsInOrder'
  <2>1. CASE Read
    <3>1. /\ server'.batch = {n \in Numbers : n > server.cursor}
          /\ server'.seen = LastNumber
          /\ server'.pc \in {"yielding", "testing", "closing"}
          /\ server'.pc = "yielding" <=> server'.batch # {}
      BY <1>1, <2>1, ServerFields DEF Read
    <3>2. server.cursor \in Numbers \union {0}
      BY DEF DeliveryInv, ReadsInOrder
    <3>3. Numbers = 1..LastNumber /\ LastNumber \in Nat
      BY <1>1, LogLength, StreamAssumption
    <3>4. /\ server.cursor <= LastNumber /\ LastNumber \in Numbers \union {0}
          /\ {n \in Numbers : n > server.cursor}
               = {i \in Numbers : server.cursor < i /\ i <= LastNumber}
      BY <3>2, <3>3
    <3> QED BY <1>1, <1>2, <3>1, <3>2, <3>4 DEF ReadsInOrder, Serving
  <2>2. CASE Test
    <3>1. /\ server.pc = "testing" /\ server'.pc \in {"closing", "reading"}
          /\ server'.batch = server.batch /\ server'.seen = server.seen
      BY <1>1, <2>2, ServerFields DEF Test, Goto, Serving
    <3> QED BY <1>1, <1>2, <3>1 DEF DeliveryInv, ReadsInOrder, Serving
  <2> QED BY <2>1, <2>2
<1>5. Linked' /\ WireFramed' /\ Replaying' /\ WireCarries' /\ ReceivedKnown'
  BY <1>1, <1>2, <1>3
  DEF DeliveryInv, Linked, WireFramed, Replaying, WireCarries, ReceivedKnown, Serving
<1>6. FinalIsLast'
  <2>1. mode = "live" /\ server'.pc = "closing" => finished
    BY <1>1, ServerFields DEF Read, Test, Goto
  <2>2. server'.pc = "closing" => server'.batch = {}
    BY <1>1, <1>2, <1>4 DEF ReadsInOrder, Serving
  <2> QED BY <1>1, <1>2, <2>1, <2>2 DEF DeliveryInv, FinalIsLast, Serving
<1>7. ShownOnceInOrder'
  BY <1>1, ShownFrame DEF DeliveryInv
<1> QED BY <1>4, <1>5, <1>6, <1>7 DEF DeliveryInv

(* Until the answer ends, what the console has received is not beyond what was
   sent. *)
LEMMA BaseBehind ==
  ASSUME TypeInv, DeliveryInv, ~Serving("down")
  PROVE  /\ console.status = "live" /\ Base \in Nat /\ Base <= server.cursor
         /\ mode = "live" \/ Starting \/ console.replaying
         /\ \A i \in DOMAIN wire : wire[i].type # "close" /\ wire[i].type # "replay_ended"
<1>1. console.status = "live" /\ TypeOK /\ mode \in {"live", "replay"}
  BY DEF DeliveryInv, Linked, TypeInv, TypeOK
<1>2. wire \in Seq(Message)
  BY <1>1 DEF TypeOK
<1>3. \A i \in DOMAIN wire : wire[i].type # "close" /\ wire[i].type # "replay_ended"
  BY <1>2, LenProperties DEF DeliveryInv, WireFramed, Serving
<1>4. mode = "live" \/ Starting \/ console.replaying
  <2>1. ASSUME Len(wire) = 1, wire[1].type = "close" PROVE FALSE
    BY <1>2, <1>3, <2>1, LenProperties
  <2> QED BY <1>1, <2>1 DEF DeliveryInv, Replaying
<1>5. server.cursor \in Nat /\ console.last \in Nat
  BY <1>1, ServerFields, ConsoleFields, StreamAssumption
<1>6. Base \in Nat /\ Base <= server.cursor
  <2>1. CASE Starting
    BY <1>5, <2>1 DEF Base
  <2>2. CASE ~Starting
    BY <1>1, <1>4, <1>5, <2>2 DEF Base, DeliveryInv, WireCarries
  <2> QED BY <2>1, <2>2
<1> QED BY <1>1, <1>3, <1>4, <1>6

LEMMA DeliveryYield ==
  ASSUME TypeInv, DeliveryInv, Yield
  PROVE  DeliveryInv'
<1>1. /\ TypeOK /\ mode \in {"live", "replay"} /\ wire \in Seq(Message)
      /\ UNCHANGED <<mode, log, finished, console, shown, refused>>
      /\ Numbers' = Numbers /\ Received' = Received
  BY DEF TypeInv, TypeOK, Yield, history, Numbers, Received
<1>2. /\ console.status = "live" /\ Base \in Nat /\ Base <= server.cursor
      /\ mode = "live" \/ Starting \/ console.replaying
      /\ server.pc = "yielding"
      /\ \A i \in DOMAIN wire : wire[i].type # "close" /\ wire[i].type # "replay_ended"
  BY BaseBehind DEF Yield, Serving
<1>3. PICK n \in server.batch :
        /\ \A i \in server.batch : n <= i
        /\ wire' = Append(wire, [type |-> "event", id |-> n])
        /\ server' = [server EXCEPT !.cursor = n, !.batch = @ \ {n},
                        !.pc = AfterYield(n, server.batch \ {n})]
  BY DEF Yield
<1>4. /\ server'.cursor = n /\ server'.batch = server.batch \ {n}
      /\ server'.seen = server.seen
      /\ server'.pc = AfterYield(n, server.batch \ {n})
  BY <1>1, <1>3, ServerFields
<1>5. /\ server.cursor \in Nat /\ server.seen \in Nat /\ \A i \in Numbers : i \in Nat \ {0}
      /\ server.batch = {i \in Numbers : server.cursor < i /\ i <= server.seen}
      /\ server.seen \in Numbers \union {0}
  BY <1>1, <1>2, ServerFields, LogLength, StreamAssumption
  DEF DeliveryInv, ReadsInOrder, Serving
<1>6. /\ n \in Numbers /\ server.cursor < n /\ n <= server.seen /\ n \in Nat
      /\ n \in Number
  BY <1>1, <1>3, <1>5, ServerFields
<1>7. /\ Len(wire) \in Nat /\ DOMAIN wire = 1..Len(wire)
      /\ Len(wire') = Len(wire) + 1 /\ DOMAIN wire' = 1..(Len(wire) + 1)
      /\ \A i \in 1..Len(wire) : wire'[i] = wire[i]
      /\ wire'[Len(wire) + 1] = [type |-> "event", id |-> n]
      /\ wire' \in Seq(Message)
  BY <1>1, <1>3, <1>6, MessageFacts, AppendFacts
<1>8. Starting' = Starting
  <2>1. wire' # <<>> /\ Head(wire') = wire'[1]
    BY <1>7, EmptySeq
  <2>2. CASE wire = <<>>
    BY <1>7, <2>1, <2>2 DEF Starting
  <2>3. CASE wire # <<>>
    BY <1>1, <1>7, <2>1, <2>3, TailFacts DEF Starting
  <2> QED BY <2>2, <2>3
<1>9. Base' = Base
  BY <1>1, <1>8 DEF Base
<1>10. /\ server'.pc # "down" /\ server'.pc # "testing"
       /\ server'.pc = "yielding" <=> server'.batch # {}
       /\ mode = "live" /\ server'.pc = "closing" => log[n].kind = "final"
  BY <1>1, <1>4 DEF AfterYield
<1>11. Linked'
  BY <1>1, <1>2 DEF Linked
<1>12. ReadsInOrder'
  <2>1. server'.batch = {i \in Numbers : n < i /\ i <= server.seen}
    BY <1>3, <1>4, <1>5, <1>6
  <2> QED BY <1>1, <1>4, <1>5, <1>6, <1>10, <2>1 DEF ReadsInOrder, Serving
<1>13. WireFramed'
  <2>1. \A i \in DOMAIN wire' :
          /\ wire'[i].type # "close" /\ wire'[i].type # "replay_ended"
          /\ wire'[i].type = "replay_started" => i = 1 /\ mode = "replay"
    BY <1>2, <1>7 DEF DeliveryInv, WireFramed
  <2> QED BY <1>1, <2>1 DEF WireFramed
<1>14. Replaying'
  BY <1>1, <1>2, <1>8 DEF Replaying
<1>15. WireCarries'
  <2>1. \A i \in 1..Len(wire) : wire[i].type = "event" =>
          wire[i].id \in Numbers /\ Base < wire[i].id /\ wire[i].id <= server.cursor
    BY <1>2, <1>7 DEF DeliveryInv, WireCarries
  <2>2. \A i \in DOMAIN wire' : wire'[i].type = "event" =>
          wire'[i].id \in Numbers /\ Base < wire'[i].id /\ wire'[i].id <= n
    <3> TAKE i \in DOMAIN wire'
    <3>1. CASE i \in 1..Len(wire)
      <4>1. wire'[i] = wire[i]
        BY <1>7, <3>1
      <4>2. ASSUME NEW m \in Numbers, m <= server.cursor PROVE m <= n
        BY <1>5, <1>6, <4>2
      <4> QED BY <2>1, <3>1, <4>1, <4>2
    <3>2. CASE i = Len(wire) + 1
      <4>1. wire'[i].id = n
        BY <1>7, <3>2
      <4>2. n \in Numbers /\ Base < n /\ n <= n
        BY <1>2, <1>5, <1>6
      <4> QED BY <4>1, <4>2
    <3> QED BY <1>7, <3>1, <3>2
  <2>3. ASSUME NEW i \in DOMAIN wire', NEW j \in DOMAIN wire', i < j,
               wire'[i].type = "event", wire'[j].type = "event"
        PROVE  wire'[i].id < wire'[j].id
    <3>1. i \in 1..Len(wire)
      BY <1>7, <2>3
    <3>2. CASE j \in 1..Len(wire)
      BY <1>2, <1>7, <2>3, <3>1, <3>2 DEF DeliveryInv, WireCarries
    <3>3. CASE j = Len(wire) + 1
      <4>1. wire'[j].id = n /\ wire'[i] = wire[i]
        BY <1>7, <3>1, <3>3
      <4>2. wire[i].id \in Nat /\ wire[i].id <= server.cursor
        BY <1>5, <2>1, <2>3, <3>1, <4>1
      <4> QED BY <1>5, <1>6, <4>1, <4>2
    <3> QED BY <1>7, <3>2, <3>3
  <2>4. ASSUME NEW m \in Numbers, Base < m, m <= n
        PROVE  \E i \in DOMAIN wire' : wire'[i].type = "event" /\ wire'[i].id = m
    <3>1. CASE m <= server.cursor
      <4>1. PICK i \in DOMAIN wire : wire[i].type = "event" /\ wire[i].id = m
        BY <1>2, <2>4, <3>1 DEF DeliveryInv, WireCarries
      <4> QED BY <1>7, <4>1
    <3>2. CASE ~(m <= server.cursor)
      <4>1. m \in server.batch
        BY <1>5, <1>6, <2>4, <3>2
      <4>2. m = n
        BY <1>3, <1>5, <1>6, <2>4, <4>1
      <4> QED BY <1>7, <4>2
    <3> QED BY <3>1, <3>2
  <2>5. mode = "live" \/ (console.replaying /\ ~Starting) => console.last <= n
    <3>1. console.last \in Nat
      BY <1>1, ConsoleFields, StreamAssumption
    <3>2. mode = "live" \/ (console.replaying /\ ~Starting) => console.last <= server.cursor
      BY <1>2 DEF DeliveryInv, WireCarries
    <3> QED BY <1>5, <1>6, <3>1, <3>2
  <2> QED BY <1>1, <1>4, <1>8, <1>9, <2>2, <2>3, <2>4, <2>5 DEF WireCarries
<1>16. ReceivedKnown'
  BY <1>1 DEF DeliveryInv, ReceivedKnown
<1>17. FinalIsLast'
  <2>1. mode = "live" /\ server'.pc = "closing" => finished
    BY <1>6, <1>10 DEF DeliveryInv, FinalIsLast
  <2>2. wire'[Len(wire')].type # "close"
    BY <1>7
  <2> QED BY <1>1, <1>2, <1>10, <2>1, <2>2 DEF DeliveryInv, FinalIsLast, Serving
<1>18. ShownOnceInOrder'
  BY <1>1, ShownFrame DEF DeliveryInv
<1> QED
  BY <1>11, <1>12, <1>13, <1>14, <1>15, <1>16, <1>17, <1>18 DEF DeliveryInv

LEMMA DeliveryClose ==
  ASSUME TypeInv, DeliveryInv, Close
  PROVE  DeliveryInv'
<1>1. /\ TypeOK /\ mode \in {"live", "replay"} /\ wire \in Seq(Message)
      /\ UNCHANGED <<mode, log, finished, console, shown, refused>>
      /\ Numbers' = Numbers /\ Received' = Received
  BY DEF TypeInv, TypeOK, Close, history, Numbers, Received
<1>2. /\ console.status = "live"
      /\ mode = "live" \/ Starting \/ console.replaying
      /\ server.pc = "closing"
      /\ \A i \in DOMAIN wire : wire[i].type # "close" /\ wire[i].type # "replay_ended"
  BY BaseBehind DEF Close, Serving
<1>3. /\ server'.pc = "down" /\ server'.cursor = server.cursor
      /\ server'.batch = server.batch /\ server'.seen = server.seen
  BY <1>1, ServerFields DEF Close, Goto
<1>4. /\ Len(wire) \in Nat /\ DOMAIN wire = 1..Len(wire) /\ DOMAIN wire' = 1..Len(wire')
      /\ Len(wire') = Len(wire) + (IF mode = "live" THEN 1 ELSE 2)
      /\ \A i \in 1..Len(wire) : wire'[i] = wire[i]
      /\ wire' \in Seq(Message)
  BY <1>1, CloseFacts
<1>5. /\ wire'[Len(wire')].type = "close"
      /\ mode # "live" => /\ wire'[Len(wire) + 1].type = "replay_ended"
                          /\ wire'[Len(wire) + 1].id = server.cursor + 1
  <2>1. wire'[Len(wire')] = [type |-> "close"]
    BY <1>1, CloseFacts
  <2>2. mode # "live" =>
          wire'[Len(wire) + 1] = [type |-> "replay_ended", id |-> server.cursor + 1]
    BY <1>1, CloseFacts
  <2>3. [type |-> "close"].type = "close"
    OBVIOUS
  <2> DEFINE ended == [type |-> "replay_ended", id |-> server.cursor + 1]
  <2>4. ended.type = "replay_ended" /\ ended.id = server.cursor + 1
    OBVIOUS
  <2> HIDE DEF ended
  <2>5. mode # "live" => wire'[Len(wire) + 1] = ended
    BY <2>2 DEF ended
  <2> QED BY <2>1, <2>3, <2>4, <2>5
<1>6. \A i \in DOMAIN wire' :
        \/ i \in DOMAIN wire /\ wire'[i] = wire[i]
        \/ i = Len(wire') /\ wire'[i].type = "close"
        \/ i + 1 = Len(wire') /\ mode = "replay" /\ wire'[i].type = "replay_ended"
           /\ wire'[i].id = server.cursor + 1
  <2> TAKE i \in DOMAIN wire'
  <2>1. CASE mode = "live"
    <3>1. i \in 1..Len(wire) \/ i = Len(wire')
      BY <1>4, <2>1
    <3> QED BY <1>4, <1>5, <3>1
  <2>2. CASE mode # "live"
    <3>1. \/ i \in 1..Len(wire) \/ i = Len(wire')
          \/ i = Len(wire) + 1 /\ i + 1 = Len(wire')
      BY <1>4, <2>2
    <3> QED BY <1>1, <1>4, <1>5, <2>2, <3>1
  <2> QED BY <2>1, <2>2
<1>7. Starting' = Starting
  <2>1. wire' # <<>> /\ Head(wire') = wire'[1]
    BY <1>4, EmptySeq
  <2>2. CASE wire = <<>>
    <3>1. Len(wire) = 0 /\ 1 \in DOMAIN wire'
      BY <1>4, <2>2
    <3>2. wire'[1].type \in {"close", "replay_ended"}
      BY <1>4, <1>6, <3>1
    <3> QED BY <2>1, <2>2, <3>2 DEF Starting
  <2>3. CASE wire # <<>>
    BY <1>1, <1>4, <2>1, <2>3, TailFacts DEF Starting
  <2> QED BY <2>2, <2>3
<1>8. Base' = Base
  BY <1>1, <1>7 DEF Base
<1>9. Linked' /\ ReadsInOrder'
  BY <1>1, <1>2, <1>3 DEF DeliveryInv, Linked, ReadsInOrder, Serving
<1>10. WireFramed'
  <2> SUFFICES ASSUME NEW i \in DOMAIN wire'
               PROVE  /\ wire'[i].type = "replay_started" => i = 1 /\ mode = "replay"
                      /\ wire'[i].type = "replay_ended" =>
                           /\ mode = "replay" /\ wire'[i].id = server.cursor + 1
                           /\ i + 1 = Len(wire') /\ wire'[i + 1].type = "close"
                      /\ wire'[i].type = "close" => i = Len(wire')
    BY <1>1, <1>3 DEF WireFramed, Serving
  <2> QED BY <1>2, <1>5, <1>6 DEF DeliveryInv, WireFramed
<1>11. Replaying'
  BY <1>1, <1>2, <1>7 DEF Replaying
<1>12. WireCarries'
  <2>1. \A i \in DOMAIN wire' : wire'[i].type = "event" =>
          i \in DOMAIN wire /\ wire'[i] = wire[i]
    BY <1>6
  <2>2. \A i \in DOMAIN wire : i \in DOMAIN wire' /\ wire'[i] = wire[i]
    BY <1>4
  <2> QED BY <1>1, <1>2, <1>3, <1>7, <1>8, <2>1, <2>2 DEF DeliveryInv, WireCarries
<1>13. ReceivedKnown'
  BY <1>1 DEF DeliveryInv, ReceivedKnown
<1>14. FinalIsLast'
  <2>1. mode = "live" => finished
    BY <1>2 DEF DeliveryInv, FinalIsLast, Serving
  <2> QED BY <1>1, <1>2, <1>3, <2>1 DEF DeliveryInv, FinalIsLast, Serving
<1>15. ShownOnceInOrder'
  BY <1>1, ShownFrame DEF DeliveryInv
<1> QED
  BY <1>9, <1>10, <1>11, <1>12, <1>13, <1>14, <1>15 DEF DeliveryInv

(* A connection that breaks or is refused takes nothing from what was shown. *)
LEMMA DeliveryBreak ==
  ASSUME TypeInv, DeliveryInv, Break \/ Refuse
  PROVE  DeliveryInv'
<1>1. /\ TypeOK /\ UNCHANGED <<mode, log, finished, shown>> /\ Numbers' = Numbers
  BY DEF TypeInv, Break, Refuse, history, Numbers
<1>2. /\ console'.last = console.last /\ console'.log = console.log
      /\ console'.replaying = console.replaying
      /\ console'.status \in {"reconnecting", "ended"}
      /\ Break => console'.status = "reconnecting" /\ refused' = refused
                  /\ console.status = "live"
      /\ Refuse => console'.status = "ended" /\ refused' = TRUE
                   /\ console.status # "live"
  BY <1>1, ConsoleFields DEF Break, Refuse, history
<1>3. Received' = Received
  BY <1>1, <1>2 DEF Received
<1>4. /\ wire' = <<>> /\ server'.pc = "down" /\ server'.cursor = server.cursor
      /\ server'.seen = server.seen
  BY <1>1, <1>2, ServerFields DEF Break, Refuse, Goto, DeliveryInv, Linked, Serving
<1>5. Linked' /\ ReadsInOrder' /\ WireFramed' /\ Replaying' /\ WireCarries'
  BY <1>1, <1>2, <1>4
  DEF DeliveryInv, Linked, ReadsInOrder, WireFramed, Replaying, WireCarries, Serving
<1>6. ReceivedKnown'
  BY <1>1, <1>2, <1>3 DEF DeliveryInv, ReceivedKnown
<1>7. FinalIsLast'
  BY <1>1, <1>2, <1>4 DEF DeliveryInv, FinalIsLast, Serving
<1>8. ShownOnceInOrder'
  BY <1>1, <1>2, <1>3, ShownFrame DEF DeliveryInv
<1> QED BY <1>5, <1>6, <1>7, <1>8 DEF DeliveryInv

LEMMA DeliveryFinish ==
  ASSUME DeliveryInv, FinishJourney
  PROVE  DeliveryInv'
<1>1. /\ UNCHANGED <<mode, log, server, wire, console, shown, refused>> /\ finished'
      /\ Received' = Received /\ Base' = Base /\ Starting' = Starting
      /\ Numbers' = Numbers
  BY DEF FinishJourney, history, Received, Base, Starting, Numbers
<1>2. Linked' /\ ReadsInOrder' /\ WireFramed' /\ Replaying' /\ WireCarries'
  BY <1>1 DEF DeliveryInv, Linked, ReadsInOrder, WireFramed, Replaying, WireCarries, Serving
<1>3. ReceivedKnown' /\ FinalIsLast'
  BY <1>1 DEF DeliveryInv, ReceivedKnown, FinalIsLast, Serving
<1>4. ShownOnceInOrder'
  BY <1>1, ShownFrame DEF DeliveryInv
<1> QED BY <1>2, <1>3, <1>4 DEF DeliveryInv

(* Whatever the console receives was the first of the messages under way. *)
LEMMA ReceiveFacts ==
  ASSUME TypeInv, DeliveryInv, Receive
  PROVE  /\ TypeOK /\ mode \in {"live", "replay"} /\ Numbers' = Numbers
         /\ UNCHANGED <<mode, log, finished, server, refused>>
         /\ console.status = "live" /\ 1 \in DOMAIN wire
         /\ wire # <<>> /\ Head(wire) = wire[1]
         /\ wire \in Seq(Message) /\ wire' = Tail(wire)
         /\ WireFramed' /\ ~Starting' /\ Base' = console'.last
         /\ wire' # <<>> => wire'[Len(wire')] = wire[Len(wire)]
<1>1. /\ TypeOK /\ wire # <<>> /\ wire \in Seq(Message) /\ wire' = Tail(wire)
      /\ mode \in {"live", "replay"} /\ Numbers' = Numbers
      /\ UNCHANGED <<mode, log, finished, server, faults, refused>>
  BY DEF TypeInv, TypeOK, Receive, ReceiveHidden, ReceiveEvent, ReceiveStarted,
         ReceiveEnded, ReceiveClose, Receiving, history, Numbers
<1>2. console.status = "live"
  BY <1>1 DEF DeliveryInv, Linked
<1>3. /\ Len(wire) \in Nat \ {0} /\ DOMAIN wire = 1..Len(wire)
      /\ Len(wire') = Len(wire) - 1 /\ DOMAIN wire' = 1..(Len(wire) - 1)
      /\ \A i \in 1..(Len(wire) - 1) : wire'[i] = wire[i + 1]
      /\ Head(wire) = wire[1]
  BY <1>1, TailFacts
<1>4. WireFramed'
  <2> SUFFICES ASSUME NEW i \in DOMAIN wire'
               PROVE  /\ wire'[i].type = "replay_started" => i = 1 /\ mode = "replay"
                      /\ wire'[i].type = "replay_ended" =>
                           /\ mode = "replay" /\ wire'[i].id = server.cursor + 1
                           /\ i + 1 = Len(wire') /\ wire'[i + 1].type = "close"
                      /\ wire'[i].type = "close" => i = Len(wire') /\ Serving("down")
    BY <1>1 DEF WireFramed, Serving
  <2>1. i + 1 \in DOMAIN wire /\ wire'[i] = wire[i + 1] /\ i + 1 # 1 /\ i \in Nat
    BY <1>3
  <2>2. /\ wire'[i].type # "replay_started"
        /\ wire'[i].type = "replay_ended" =>
             /\ mode = "replay" /\ wire'[i].id = server.cursor + 1
             /\ (i + 1) + 1 = Len(wire) /\ wire[(i + 1) + 1].type = "close"
        /\ wire'[i].type = "close" => i + 1 = Len(wire) /\ Serving("down")
    BY <2>1 DEF DeliveryInv, WireFramed
  <2>3. i + 1 = Len(wire) => i = Len(wire')
    BY <1>3, <2>1
  <2>4. (i + 1) + 1 = Len(wire) =>
          i + 1 = Len(wire') /\ wire'[i + 1] = wire[(i + 1) + 1]
    BY <1>3, <2>1
  <2> QED BY <2>2, <2>3, <2>4
<1>5. ~Starting'
  <2> SUFFICES ASSUME wire' # <<>> PROVE Head(wire').type # "replay_started"
    BY DEF Starting
  <2>1. wire' \in Seq(Message)
    BY <1>1, HeadTailProperties
  <2>2. Head(wire') = wire'[1] /\ Len(wire') # 0 /\ Len(wire') \in Nat
    BY <2>1, EmptySeq, LenProperties
  <2>3. wire'[1] = wire[2] /\ 2 \in DOMAIN wire
    BY <1>3, <2>2
  <2> QED BY <2>2, <2>3 DEF DeliveryInv, WireFramed
<1>6. Base' = console'.last
  BY <1>5 DEF Base
<1>7. wire' # <<>> => wire'[Len(wire')] = wire[Len(wire)]
  <2> SUFFICES ASSUME wire' # <<>> PROVE wire'[Len(wire')] = wire[Len(wire)]
    OBVIOUS
  <2>1. wire' \in Seq(Message)
    BY <1>1, HeadTailProperties
  <2>2. Len(wire') # 0
    BY <2>1, EmptySeq
  <2>3. Len(wire') \in 1..(Len(wire) - 1) /\ Len(wire') + 1 = Len(wire)
    BY <1>3, <2>2
  <2> QED BY <1>3, <2>3
<1>8. 1 \in DOMAIN wire
  BY <1>3
<1> QED BY <1>1, <1>2, <1>3, <1>4, <1>5, <1>6, <1>7, <1>8

(* What the invariant says of the end of a stream does not depend on the console
   as long as it stays connected. *)
LEMMA FinalFrame ==
  ASSUME TypeInv, DeliveryInv, Receive, console'.status = "live"
  PROVE  FinalIsLast' /\ Linked' /\ ReadsInOrder'
<1>1. /\ UNCHANGED <<mode, log, finished, server, refused>> /\ Numbers' = Numbers
      /\ wire' # <<>> => wire # <<>> /\ wire'[Len(wire')] = wire[Len(wire)]
      /\ console.status = "live"
  BY ReceiveFacts
<1> QED BY <1>1 DEF DeliveryInv, FinalIsLast, Linked, ReadsInOrder, Serving

(* The first message is the event that follows the one received last. *)
LEMMA HeadEvent ==
  ASSUME TypeInv, DeliveryInv, Receive, Head(wire).type = "event"
  PROVE  /\ Head(wire).id \in Numbers /\ Received = console.last
         /\ console.last < Head(wire).id /\ Head(wire).id <= server.cursor
         /\ \A m \in Numbers : ~(console.last < m /\ m < Head(wire).id)
         /\ mode # "live" => console.replaying
         /\ console.last \in Nat /\ server.cursor \in Nat
         /\ \A m \in Numbers : m \in Nat \ {0}
<1> DEFINE n == Head(wire).id
<1>1. /\ TypeOK /\ mode \in {"live", "replay"} /\ console.status = "live"
      /\ 1 \in DOMAIN wire /\ Head(wire) = wire[1] /\ wire \in Seq(Message)
      /\ DOMAIN wire = 1..Len(wire)
  BY ReceiveFacts, LenProperties
<1>2. ~Starting /\ Base = console.last
  BY DEF Starting, Base
<1>3. n \in Numbers /\ console.last < n /\ n <= server.cursor
  BY <1>1, <1>2 DEF DeliveryInv, WireCarries
<1>4. /\ console.last \in Nat /\ server.cursor \in Nat
      /\ \A m \in Numbers : m \in Nat \ {0}
  BY <1>1, LogLength, ServerFields, ConsoleFields, StreamAssumption
<1>5. ASSUME NEW m \in Numbers, console.last < m, m < n
      PROVE  FALSE
  <2>1. m <= server.cursor
    BY <1>3, <1>4, <1>5
  <2>2. PICK i \in DOMAIN wire : wire[i].type = "event" /\ wire[i].id = m
    BY <1>1, <1>2, <1>5, <2>1 DEF DeliveryInv, WireCarries
  <2>3. i # 1
    BY <1>1, <1>3, <1>4, <1>5, <2>2
  <2>4. 1 < i
    BY <1>1, <2>3
  <2>5. n < m
    BY <1>1, <2>2, <2>4 DEF DeliveryInv, WireCarries
  <2> QED BY <1>3, <1>4, <1>5, <2>5
<1>6. mode # "live" => console.replaying
  BY <1>1, <1>2 DEF DeliveryInv, Replaying
<1>7. Received = console.last
  BY <1>1, <1>6 DEF Received
<1> HIDE DEF n
<1> QED BY <1>3, <1>4, <1>5, <1>6, <1>7 DEF n

(* The rest of the messages carries what follows the event received. *)
LEMMA CarriesAfterEvent ==
  ASSUME TypeInv, DeliveryInv, Receive, Head(wire).type = "event",
         console'.status = console.status, console'.replaying = console.replaying,
         console'.last = Head(wire).id
  PROVE  /\ WireCarries' /\ Replaying' /\ ReceivedKnown'
         /\ Received' = Head(wire).id
<1> DEFINE n == Head(wire).id
<1>1. /\ TypeOK /\ mode \in {"live", "replay"} /\ Numbers' = Numbers
      /\ UNCHANGED <<mode, log, finished, server, refused>>
      /\ console.status = "live" /\ 1 \in DOMAIN wire
      /\ wire # <<>> /\ Head(wire) = wire[1]
      /\ wire \in Seq(Message) /\ wire' = Tail(wire)
      /\ ~Starting' /\ Base' = n
  BY ReceiveFacts
<1>2. /\ n \in Numbers /\ Received = console.last
      /\ console.last < n /\ n <= server.cursor
      /\ mode # "live" => console.replaying
      /\ console.last \in Nat /\ server.cursor \in Nat
      /\ \A m \in Numbers : m \in Nat \ {0}
  BY HeadEvent
<1>3. /\ Len(wire) \in Nat \ {0} /\ DOMAIN wire = 1..Len(wire)
      /\ DOMAIN wire' = 1..(Len(wire) - 1)
      /\ \A i \in 1..(Len(wire) - 1) : wire'[i] = wire[i + 1]
      /\ \A i \in 2..Len(wire) : wire'[i - 1] = wire[i]
  BY <1>1, TailFacts
<1>4. \A i \in DOMAIN wire' :
        i + 1 \in DOMAIN wire /\ 1 < i + 1 /\ wire'[i] = wire[i + 1] /\ i \in Nat
  BY <1>3
<1>5. /\ ~Starting /\ Base = console.last
  BY DEF Starting, Base
<1>6. \A i, j \in DOMAIN wire :
        i < j /\ wire[i].type = "event" /\ wire[j].type = "event" =>
          wire[i].id < wire[j].id
  BY <1>1 DEF DeliveryInv, WireCarries
<1> HIDE DEF n
<1>7. \A i \in DOMAIN wire' : wire'[i].type = "event" =>
        wire'[i].id \in Numbers /\ n < wire'[i].id /\ wire'[i].id <= server.cursor
  <2> SUFFICES ASSUME NEW i \in DOMAIN wire', wire'[i].type = "event"
               PROVE  /\ wire'[i].id \in Numbers /\ n < wire'[i].id
                      /\ wire'[i].id <= server.cursor
    OBVIOUS
  <2>1. n < wire[i + 1].id
    BY <1>1, <1>4, <1>6 DEF n
  <2>2. wire[i + 1].id \in Numbers /\ wire[i + 1].id <= server.cursor
    BY <1>1, <1>4 DEF DeliveryInv, WireCarries
  <2> QED BY <1>4, <2>1, <2>2
<1>8. \A i, j \in DOMAIN wire' :
        i < j /\ wire'[i].type = "event" /\ wire'[j].type = "event" =>
          wire'[i].id < wire'[j].id
  <2> SUFFICES ASSUME NEW i \in DOMAIN wire', NEW j \in DOMAIN wire', i < j,
                      wire'[i].type = "event", wire'[j].type = "event"
               PROVE  wire'[i].id < wire'[j].id
    OBVIOUS
  <2>1. i + 1 < j + 1
    BY <1>4
  <2> QED BY <1>4, <1>6, <2>1
<1>9. ASSUME NEW m \in Numbers, n < m, m <= server.cursor
      PROVE  \E i \in DOMAIN wire' : wire'[i].type = "event" /\ wire'[i].id = m
  <2>1. console.last < m
    BY <1>2, <1>9
  <2>2. PICK i \in DOMAIN wire : wire[i].type = "event" /\ wire[i].id = m
    BY <1>1, <1>5, <1>9, <2>1 DEF DeliveryInv, WireCarries
  <2>3. i # 1
    BY <1>1, <1>2, <1>9, <2>2 DEF n
  <2>4. i \in 2..Len(wire) /\ i - 1 \in DOMAIN wire'
    BY <1>3, <2>3
  <2> QED BY <1>3, <2>2, <2>4
<1>10. n <= server.cursor /\ console'.last = n
  BY <1>2 DEF n
<1>11. WireCarries'
  BY <1>1, <1>7, <1>8, <1>9, <1>10 DEF WireCarries
<1>12. Replaying'
  BY <1>1, <1>2 DEF Replaying
<1>13. Received' = n
  BY <1>1, <1>2, <1>10 DEF Received
<1>14. ReceivedKnown'
  BY <1>1, <1>2, <1>13 DEF DeliveryInv, ReceivedKnown
<1> QED BY <1>11, <1>12, <1>13, <1>14 DEF n

LEMMA DeliveryHidden ==
  ASSUME TypeInv, DeliveryInv, ReceiveHidden
  PROVE  DeliveryInv'
<1> DEFINE n == Head(wire).id
<1>1. /\ Receive /\ Head(wire).type = "event" /\ log[n].kind = "hidden"
      /\ UNCHANGED <<mode, log, shown>>
  BY DEF Receive, ReceiveHidden, Receiving, history
<1>2. /\ console'.status = console.status /\ console'.replaying = console.replaying
      /\ console'.last = n /\ console'.log = console.log
  BY ConsoleFields DEF TypeInv, ReceiveHidden
<1>3. console.status = "live" /\ WireFramed' /\ Numbers' = Numbers
  BY <1>1, ReceiveFacts
<1>4. FinalIsLast' /\ Linked' /\ ReadsInOrder'
  BY <1>1, <1>2, <1>3, FinalFrame
<1>5. WireCarries' /\ Replaying' /\ ReceivedKnown' /\ Received' = n
  BY <1>1, <1>2, CarriesAfterEvent
<1>6. ShownOnceInOrder'
  <2>1. /\ n \in Numbers /\ Received = console.last /\ console.last < n
        /\ \A m \in Numbers : ~(console.last < m /\ m < n)
        /\ console.last \in Nat /\ \A m \in Numbers : m \in Nat
    BY <1>1, HeadEvent
  <2> HIDE DEF n
  <2>2. ASSUME NEW m \in Numbers PROVE m <= n <=> m <= console.last \/ m = n
    BY <2>1
  <2>3. Due(Received)' = Due(Received)
    BY <1>1, <1>3, <1>5, <2>1, <2>2 DEF Due
  <2>4. Shown' = Shown
    BY <1>1 DEF Shown
  <2> QED BY <1>1, <1>2, <2>3, <2>4 DEF DeliveryInv, ShownOnceInOrder
<1> QED BY <1>3, <1>4, <1>5, <1>6 DEF DeliveryInv

LEMMA DeliveryEvent ==
  ASSUME TypeInv, DeliveryInv, ReceiveEvent
  PROVE  DeliveryInv'
<1> DEFINE n == Head(wire).id
<1>1. /\ Receive /\ Head(wire).type = "event" /\ log[n].kind # "hidden"
      /\ UNCHANGED <<mode, log>> /\ shown' = Append(shown, n)
  BY DEF Receive, ReceiveEvent, Receiving
<1>2. /\ console'.status = console.status /\ console'.replaying = console.replaying
      /\ console'.last = n /\ console'.log = AppendLog(n)
  BY ConsoleFields DEF TypeInv, ReceiveEvent
<1>3. /\ console.status = "live" /\ WireFramed' /\ Numbers' = Numbers
      /\ TypeOK /\ shown \in Seq(Number)
  BY <1>1, ReceiveFacts DEF TypeInv, TypeOK
<1>4. FinalIsLast' /\ Linked' /\ ReadsInOrder'
  BY <1>1, <1>2, <1>3, FinalFrame
<1>5. WireCarries' /\ Replaying' /\ ReceivedKnown' /\ Received' = n
  BY <1>1, <1>2, CarriesAfterEvent
<1>6. /\ n \in Numbers /\ Received = console.last /\ console.last < n
      /\ \A m \in Numbers : ~(console.last < m /\ m < n)
      /\ console.last \in Nat /\ \A m \in Numbers : m \in Nat
  BY <1>1, HeadEvent
<1>7. n \in Number /\ n \in 0..(MaxEvents + 1)
  BY <1>3, <1>6, LogLength, StreamAssumption DEF Number
<1> HIDE DEF n
<1>8. /\ shown' \in Seq(Number) /\ Len(shown') = Len(shown) + 1 /\ Len(shown) \in Nat
      /\ \A i \in 1..Len(shown) : shown'[i] = shown[i]
      /\ shown'[Len(shown) + 1] = n
      /\ DOMAIN shown = 1..Len(shown) /\ DOMAIN shown' = 1..(Len(shown) + 1)
  BY <1>1, <1>3, <1>7, AppendProperties, LenProperties
<1>9. \A i \in DOMAIN shown : shown[i] \in Numbers /\ shown[i] <= console.last
  BY <1>6 DEF DeliveryInv, ShownOnceInOrder, Shown, Due
<1>10. ASSUME NEW i \in DOMAIN shown', NEW j \in DOMAIN shown', i < j
       PROVE  shown'[i] < shown'[j]
  <2>1. i \in DOMAIN shown /\ shown'[i] = shown[i]
    BY <1>8, <1>10
  <2>2. CASE j \in DOMAIN shown
    BY <1>8, <1>10, <2>1, <2>2 DEF DeliveryInv, ShownOnceInOrder
  <2>3. CASE j = Len(shown) + 1
    <3>1. shown'[j] = n /\ shown[i] \in Nat /\ shown[i] <= console.last
      BY <1>6, <1>8, <1>9, <2>1, <2>3
    <3> QED BY <1>6, <2>1, <3>1
  <2> QED BY <1>8, <2>2, <2>3
<1>11. Shown' = Due(Received)'
  <2>1. ASSUME NEW m \in Numbers PROVE m <= n <=> m <= console.last \/ m = n
    BY <1>6
  <2>2. Due(Received)' = Due(console.last) \union {n}
    BY <1>1, <1>3, <1>5, <1>6, <2>1 DEF Due
  <2>3. Shown' = Shown \union {n}
    BY <1>8 DEF Shown
  <2> QED BY <1>6, <2>2, <2>3 DEF DeliveryInv, ShownOnceInOrder
<1>12. ASSUME mode = "live"
       PROVE  /\ Len(console'.log) = IF Len(shown') < MaxLogEntries
                                     THEN Len(shown') ELSE MaxLogEntries
              /\ \A i \in DOMAIN console'.log :
                   console'.log[i] = shown'[Len(shown') - Len(console'.log) + i]
  <2> DEFINE l == console.log
             k == console'.log
  <2>1. /\ k \in Seq(0..(MaxEvents + 1))
        /\ Len(k) = IF Len(l) < MaxLogEntries THEN Len(l) + 1 ELSE MaxLogEntries
        /\ k[Len(k)] = n
        /\ \A i \in 1..(Len(k) - 1) : k[i] = l[Len(l) + 1 - Len(k) + i]
    BY <1>2, <1>3, <1>7, AppendLogFacts
  <2>2. /\ Len(l) = IF Len(shown) < MaxLogEntries THEN Len(shown) ELSE MaxLogEntries
        /\ \A i \in DOMAIN l : l[i] = shown[Len(shown) - Len(l) + i]
    BY <1>12 DEF DeliveryInv, ShownOnceInOrder
  <2>3. DOMAIN l = 1..Len(l) /\ Len(l) \in Nat /\ DOMAIN k = 1..Len(k) /\ Len(k) \in Nat
    BY <1>3, <2>1, ConsoleFields, LenProperties
  <2> HIDE DEF l, k
  <2>4. Len(k) = IF Len(shown') < MaxLogEntries THEN Len(shown') ELSE MaxLogEntries
    BY <1>8, <2>1, <2>2, <2>3, StreamAssumption
  <2>5. Len(k) <= Len(l) + 1 /\ Len(l) <= Len(shown)
    BY <1>8, <2>1, <2>2, <2>3, StreamAssumption
  <2>6. ASSUME NEW i \in DOMAIN k
        PROVE  k[i] = shown'[Len(shown') - Len(k) + i]
    <3>1. CASE i = Len(k)
      <4>1. Len(shown') - Len(k) + i = Len(shown) + 1
        BY <1>8, <2>3, <3>1
      <4> QED BY <1>8, <2>1, <3>1, <4>1
    <3>2. CASE i # Len(k)
      <4> DEFINE h == Len(l) + 1 - Len(k) + i
                 g == Len(shown') - Len(k) + i
      <4>1. i \in 1..(Len(k) - 1)
        BY <2>3, <2>6, <3>2
      <4>2. h \in 1..Len(l)
        BY <2>3, <2>5, <4>1
      <4>3. Len(shown) - Len(l) + h = g
        BY <1>8, <2>3, <4>1
      <4>4. g \in 1..Len(shown)
        BY <1>8, <2>3, <2>5, <4>1
      <4>5. k[i] = l[h]
        BY <2>1, <4>1
      <4> HIDE DEF h, g
      <4>6. l[h] = shown[g]
        BY <2>2, <2>3, <4>2, <4>3
      <4>7. k[i] = shown'[g]
        BY <1>8, <4>4, <4>5, <4>6
      <4> QED BY <4>7 DEF g
    <3> QED BY <3>1, <3>2
  <2> QED BY <2>4, <2>6 DEF k
<1>13. ShownOnceInOrder'
  BY <1>1, <1>10, <1>11, <1>12 DEF ShownOnceInOrder
<1> QED BY <1>3, <1>4, <1>5, <1>13 DEF DeliveryInv

LEMMA DeliveryStarted ==
  ASSUME TypeInv, DeliveryInv, ReceiveStarted
  PROVE  DeliveryInv'
<1>1. Receive /\ Head(wire).type = "replay_started" /\ shown' = <<>>
  BY DEF Receive, ReceiveStarted, Receiving
<1>2. /\ TypeOK /\ Numbers' = Numbers /\ UNCHANGED <<mode, log, server>>
      /\ console.status = "live" /\ 1 \in DOMAIN wire
      /\ wire # <<>> /\ Head(wire) = wire[1]
      /\ wire \in Seq(Message) /\ wire' = Tail(wire)
      /\ WireFramed' /\ ~Starting' /\ Base' = console'.last
  BY <1>1, ReceiveFacts
<1>3. /\ console'.status = console.status /\ console'.replaying = TRUE
      /\ console'.last = 0
  BY <1>2, ConsoleFields DEF ReceiveStarted
<1>4. mode = "replay" /\ Starting /\ Base = 0
  BY <1>1, <1>2 DEF DeliveryInv, WireFramed, Starting, Base
<1>5. FinalIsLast' /\ Linked' /\ ReadsInOrder'
  BY <1>1, <1>2, <1>3, FinalFrame
<1>6. WireCarries'
  <2>1. /\ Len(wire) \in Nat \ {0} /\ DOMAIN wire = 1..Len(wire)
        /\ DOMAIN wire' = 1..(Len(wire) - 1)
        /\ \A i \in 1..(Len(wire) - 1) : wire'[i] = wire[i + 1]
        /\ \A i \in 2..Len(wire) : wire'[i - 1] = wire[i]
    BY <1>2, TailFacts
  <2>2. \A i \in DOMAIN wire' :
          i + 1 \in DOMAIN wire /\ wire'[i] = wire[i + 1] /\ i \in Nat
    BY <2>1
  <2>3. \A i, j \in DOMAIN wire' :
          i < j /\ wire'[i].type = "event" /\ wire'[j].type = "event" =>
            wire'[i].id < wire'[j].id
    <3> SUFFICES ASSUME NEW i \in DOMAIN wire', NEW j \in DOMAIN wire', i < j,
                        wire'[i].type = "event", wire'[j].type = "event"
                 PROVE  wire'[i].id < wire'[j].id
      OBVIOUS
    <3>1. i + 1 < j + 1
      BY <2>2
    <3> QED BY <1>2, <2>2, <3>1 DEF DeliveryInv, WireCarries
  <2>4. ASSUME NEW m \in Numbers, 0 < m, m <= server.cursor
        PROVE  \E i \in DOMAIN wire' : wire'[i].type = "event" /\ wire'[i].id = m
    <3>1. PICK i \in DOMAIN wire : wire[i].type = "event" /\ wire[i].id = m
      BY <1>2, <1>4, <2>4 DEF DeliveryInv, WireCarries
    <3>2. i # 1
      BY <1>1, <1>2, <3>1
    <3>3. i \in 2..Len(wire) /\ i - 1 \in DOMAIN wire'
      BY <2>1, <3>2
    <3> QED BY <2>1, <3>1, <3>3
  <2>5. \A i \in DOMAIN wire' : wire'[i].type = "event" =>
          wire'[i].id \in Numbers /\ 0 < wire'[i].id /\ wire'[i].id <= server.cursor
    BY <1>2, <1>4, <2>2 DEF DeliveryInv, WireCarries
  <2>6. 0 <= server.cursor
    BY <1>2, ServerFields, StreamAssumption
  <2> QED BY <1>2, <1>3, <2>3, <2>4, <2>5, <2>6 DEF WireCarries
<1>7. Replaying'
  BY <1>3 DEF Replaying
<1>8. Received' = 0
  BY <1>3 DEF Received
<1>9. ReceivedKnown'
  BY <1>2, <1>4, <1>8 DEF ReceivedKnown
<1>10. ShownOnceInOrder'
  <2>1. Shown' = {} /\ DOMAIN shown' = {}
    BY <1>1 DEF Shown
  <2>2. \A m \in Numbers : ~(m <= 0)
    BY <1>2, LogLength
  <2>3. Due(Received)' = {}
    BY <1>2, <1>8, <2>2 DEF Due
  <2> QED BY <1>2, <1>4, <2>1, <2>3 DEF ShownOnceInOrder
<1> QED BY <1>2, <1>5, <1>6, <1>7, <1>9, <1>10 DEF DeliveryInv

(* When an answer has ended and no event of it is under way, every event that
   was read has been received. *)
LEMMA ReadIsSent ==
  ASSUME TypeInv, DeliveryInv, console.status = "live", Serving("down")
  PROVE  server.cursor = server.seen
<1>1. /\ server.cursor <= server.seen /\ server.batch = {}
      /\ server.batch = {i \in Numbers : server.cursor < i /\ i <= server.seen}
      /\ server.seen \in Numbers \union {0}
  BY DEF DeliveryInv, ReadsInOrder, Serving
<1>2. server.cursor \in Nat /\ server.seen \in Nat
  BY ServerFields, StreamAssumption DEF TypeInv
<1>3. CASE server.cursor < server.seen
  BY <1>1, <1>2, <1>3
<1> QED BY <1>1, <1>2, <1>3

LEMMA SentIsReceived ==
  ASSUME TypeInv, DeliveryInv, console.status = "live", ~Starting,
         mode = "live" \/ console.replaying,
         \A i \in DOMAIN wire : wire[i].type # "event"
  PROVE  console.last = server.cursor
<1>1. /\ console.last <= server.cursor
      /\ \A n \in Numbers : console.last < n /\ n <= server.cursor =>
           \E i \in DOMAIN wire : wire[i].type = "event" /\ wire[i].id = n
  BY DEF DeliveryInv, WireCarries, Base
<1>2. server.cursor \in Nat /\ console.last \in Nat /\ server.cursor \in Numbers \union {0}
  BY ServerFields, ConsoleFields, StreamAssumption DEF TypeInv, DeliveryInv, ReadsInOrder
<1>3. CASE console.last < server.cursor
  <2>1. server.cursor \in Numbers
    BY <1>2, <1>3
  <2> QED BY <1>1, <1>2, <1>3, <2>1
<1> QED BY <1>1, <1>2, <1>3

LEMMA DeliveryEnded ==
  ASSUME TypeInv, DeliveryInv, ReceiveEnded
  PROVE  DeliveryInv'
<1>1. Receive /\ Head(wire).type = "replay_ended" /\ shown' = shown
  BY DEF Receive, ReceiveEnded, Receiving, history
<1>2. /\ TypeOK /\ Numbers' = Numbers /\ UNCHANGED <<mode, log, server>>
      /\ console.status = "live" /\ 1 \in DOMAIN wire
      /\ wire # <<>> /\ Head(wire) = wire[1]
      /\ wire \in Seq(Message) /\ wire' = Tail(wire)
      /\ WireFramed' /\ ~Starting' /\ Base' = console'.last
  BY <1>1, ReceiveFacts
<1>3. /\ console'.status = console.status /\ console'.replaying = FALSE
      /\ console'.last = Head(wire).id
  BY <1>2, ConsoleFields DEF ReceiveEnded
<1>4. /\ Len(wire) \in Nat \ {0} /\ DOMAIN wire = 1..Len(wire)
      /\ Len(wire') = Len(wire) - 1 /\ DOMAIN wire' = 1..(Len(wire) - 1)
      /\ \A i \in 1..(Len(wire) - 1) : wire'[i] = wire[i + 1]
  BY <1>2, TailFacts
<1>5. /\ mode = "replay" /\ wire[1].id = server.cursor + 1
      /\ 1 + 1 = Len(wire) /\ wire[1 + 1].type = "close"
  BY <1>1, <1>2 DEF DeliveryInv, WireFramed
<1>6. /\ DOMAIN wire = {1, 2} /\ wire[2].type = "close"
      /\ Len(wire') = 1 /\ DOMAIN wire' = {1} /\ wire'[1].type = "close"
  <2>1. Len(wire) = 2 /\ 1..2 = {1, 2} /\ 1..1 = {1} /\ 2 - 1 = 1 /\ 1 + 1 = 2
    BY <1>5
  <2>2. DOMAIN wire = {1, 2} /\ Len(wire') = 1 /\ DOMAIN wire' = {1}
    BY <1>4, <2>1
  <2>3. wire'[1] = wire[2] /\ wire[2].type = "close"
    BY <1>4, <1>5, <2>1
  <2> QED BY <2>2, <2>3
<1>7. ~Starting /\ console.replaying
  <2>1. ~Starting /\ Len(wire) # 1
    BY <1>1, <1>5 DEF Starting
  <2> QED BY <1>2, <1>5, <2>1 DEF DeliveryInv, Replaying
<1>8. server.cursor = console.last
  <2>1. \A i \in DOMAIN wire : wire[i].type # "event"
    BY <1>1, <1>2, <1>6
  <2> QED BY <1>2, <1>7, <2>1, SentIsReceived
<1>9. console'.last = server.cursor + 1 /\ server.cursor \in Nat
  BY <1>2, <1>3, <1>5, ServerFields, StreamAssumption
<1>10. Received = server.cursor /\ Received' = server.cursor
  <2>1. Received = console.last
    BY <1>7 DEF Received
  <2>2. Received' = console'.last - 1
    BY <1>2, <1>3, <1>5, <1>9 DEF Received
  <2> QED BY <1>8, <1>9, <2>1, <2>2
<1>11. FinalIsLast' /\ Linked' /\ ReadsInOrder'
  BY <1>1, <1>2, <1>3, FinalFrame
<1>12. WireCarries'
  <2>1. ASSUME NEW m \in Numbers, server.cursor + 1 < m, m <= server.cursor PROVE FALSE
    <3>1. m \in Nat
      BY <1>2, LogLength
    <3> QED BY <1>9, <2>1, <3>1
  <2> QED BY <1>2, <1>3, <1>5, <1>6, <1>9, <2>1 DEF WireCarries
<1>13. Replaying'
  BY <1>2, <1>3, <1>6, <1>9 DEF Replaying
<1>14. ReceivedKnown'
  BY <1>2, <1>5, <1>10 DEF DeliveryInv, ReceivedKnown
<1>15. ShownOnceInOrder'
  <2>1. Due(Received)' = Due(Received) /\ Shown' = Shown
    BY <1>1, <1>2, <1>10 DEF Due, Shown
  <2> QED BY <1>1, <1>2, <1>5, <2>1 DEF DeliveryInv, ShownOnceInOrder
<1> QED BY <1>2, <1>11, <1>12, <1>13, <1>14, <1>15 DEF DeliveryInv

LEMMA DeliveryClosed ==
  ASSUME TypeInv, DeliveryInv, ReceiveClose
  PROVE  DeliveryInv'
<1>1. Receive /\ Head(wire).type = "close" /\ shown' = shown
  BY DEF Receive, ReceiveClose, Receiving, history
<1>2. /\ TypeOK /\ Numbers' = Numbers /\ UNCHANGED <<mode, log, finished, server, refused>>
      /\ console.status = "live" /\ 1 \in DOMAIN wire
      /\ wire # <<>> /\ Head(wire) = wire[1] /\ mode \in {"live", "replay"}
      /\ wire \in Seq(Message) /\ wire' = Tail(wire)
      /\ WireFramed' /\ ~Starting' /\ Base' = console'.last
  BY <1>1, ReceiveFacts
<1>3. /\ console'.status = "ended" /\ console'.replaying = console.replaying
      /\ console'.last = console.last /\ console'.log = console.log
  BY <1>2, ConsoleFields DEF ReceiveClose
<1>4. 1 = Len(wire) /\ Serving("down")
  BY <1>1, <1>2 DEF DeliveryInv, WireFramed
<1>5. DOMAIN wire = {1} /\ wire' = <<>>
  <2>1. /\ DOMAIN wire = 1..Len(wire) /\ wire' \in Seq(Message) /\ Len(wire') = 0
    BY <1>2, <1>4, TailFacts, HeadTailProperties
  <2> QED BY <1>4, <2>1, EmptySeq
<1>6. Received' = Received
  BY <1>2, <1>3 DEF Received
<1>7. Received = server.seen
  <2>1. ~Starting /\ \A i \in DOMAIN wire : wire[i].type # "event"
    BY <1>1, <1>2, <1>5 DEF Starting
  <2>2. server.cursor = server.seen /\ server.cursor \in Nat /\ console.last \in Nat
    BY <1>2, <1>4, ReadIsSent, ServerFields, ConsoleFields, StreamAssumption
  <2>3. CASE mode = "live" \/ console.replaying
    <3>1. console.last = server.cursor
      BY <1>2, <2>1, <2>3, SentIsReceived
    <3>2. Received = console.last
      BY <1>2, <2>3 DEF Received
    <3> QED BY <2>2, <3>1, <3>2
  <2>4. CASE mode # "live" /\ ~console.replaying
    <3>1. console.last = server.cursor + 1
      BY <1>2, <2>1, <2>4 DEF DeliveryInv, Replaying
    <3>2. console.last > 0 /\ console.last - 1 = server.cursor
      BY <2>2, <3>1
    <3>3. mode = "replay"
      BY <1>2, <2>4
    <3>4. Received = console.last - 1
      BY <2>4, <3>2, <3>3 DEF Received
    <3> QED BY <2>2, <3>2, <3>4
  <2> QED BY <2>3, <2>4
<1>8. mode = "live" => finished
  BY <1>1, <1>2, <1>4 DEF DeliveryInv, FinalIsLast
<1>9. Linked' /\ ReadsInOrder' /\ Replaying' /\ WireCarries'
  BY <1>2, <1>3, <1>4, <1>5
  DEF DeliveryInv, Linked, ReadsInOrder, Replaying, WireCarries, Serving
<1>10. ReceivedKnown'
  BY <1>2, <1>3, <1>6 DEF DeliveryInv, ReceivedKnown
<1>11. FinalIsLast'
  BY <1>2, <1>3, <1>4, <1>5, <1>6, <1>7, <1>8 DEF DeliveryInv, FinalIsLast, Serving
<1>12. ShownOnceInOrder'
  BY <1>1, <1>2, <1>3, <1>6, ShownFrame DEF DeliveryInv
<1> QED BY <1>2, <1>9, <1>10, <1>11, <1>12 DEF DeliveryInv

LEMMA DeliveryStep == TypeInv /\ DeliveryInv /\ [Next]_vars => DeliveryInv'
<1> SUFFICES ASSUME TypeInv, DeliveryInv, [Next]_vars PROVE DeliveryInv'
  OBVIOUS
<1>1. ASSUME NEW w \in Writers, Record(w) \/ Answer(w) \/ AppendAnswer(w)
      PROVE  DeliveryInv'
  BY <1>1, DeliveryBeginAppend DEF Record, Answer, AppendAnswer, BeginAppend, history
<1>2. ASSUME NEW w \in Writers, Insert(w)
      PROVE  DeliveryInv'
  BY <1>2, DeliveryInsert
<1>3. CASE UNCHANGED vars
  BY <1>3, DeliveryBeginAppend DEF vars, history
<1>4. CASE Service
  BY <1>4, DeliveryConnect, DeliveryRead, DeliveryYield, DeliveryClose DEF Service
<1>5. CASE Receive
  BY <1>5, DeliveryHidden, DeliveryEvent, DeliveryStarted, DeliveryEnded,
     DeliveryClosed DEF Receive
<1>6. CASE FinishJourney \/ Break \/ Refuse
  BY <1>6, DeliveryFinish, DeliveryBreak
<1> QED BY <1>1, <1>2, <1>3, <1>4, <1>5, <1>6 DEF Next

LEMMA DeliveryAlways == Spec => [](TypeInv /\ DeliveryInv)
BY TypeInit, TypeStep, DeliveryInit, DeliveryStep, PTL DEF Spec

(* Whatever connections break and however appends, polls and messages
   interleave, the console has presented every event up to the one it received
   last, once and in the order of the log, and keeps the newest of them. *)
THEOREM OnceInOrder == Spec => []ShownOnceInOrder
<1>1. TypeInv /\ DeliveryInv => ShownOnceInOrder
  BY DEF DeliveryInv
<1> QED BY DeliveryAlways, <1>1, PTL

(* A stream that ended normally has delivered all that was read last, and a live
   one ends with its journey. *)
THEOREM ClosedAfterDelivery == Spec => []ClosesAfterDelivery
<1>1. TypeInv /\ DeliveryInv => ClosesAfterDelivery
  <2> SUFFICES ASSUME DeliveryInv, console.status = "ended", ~refused
               PROVE  (mode = "live" => finished) /\ Shown = Due(server.seen)
    BY DEF ClosesAfterDelivery
  <2>1. (mode = "live" => finished) /\ Received = server.seen
    BY DEF DeliveryInv, FinalIsLast
  <2>2. Shown = Due(Received)
    BY DEF DeliveryInv, ShownOnceInOrder
  <2> QED BY <2>1, <2>2
<1> QED BY DeliveryAlways, <1>1, PTL

-------------------------------------------------------------------------------
(* The panel. *)

(* A request is answered after it was recorded. *)
AnswersFollow ==
  /\ \A i \in Numbers : log[i].kind = "outcome" =>
       log[i].request \in Numbers /\ log[i].request < i
  /\ \A w \in Writers : writer[w] # Idle => writer[w].request \in Numbers \union {None}
  /\ console.pending \in Numbers \union {None}

(* r is the newest request up to n. *)
IsNewest(r, n) ==
  /\ r \in RequestsUpTo(n) \union {None}
  /\ \A i \in RequestsUpTo(n) : i <= r

PanelShows ==
  mode = "live" =>
    \E r \in Numbers \union {None} :
      /\ IsNewest(r, console.last)
      /\ console.pending = IF AnsweredBy(console.last, r) THEN None ELSE r

PanelInv == AnswersFollow /\ PanelShows

LEMMA PanelInit == Init => PanelInv
<1> SUFFICES ASSUME Init PROVE PanelInv
  OBVIOUS
<1>1. /\ Numbers = {} /\ console.last = 0 /\ console.pending = None
      /\ \A w \in Writers : writer[w] = Idle
  BY DEF Init, Numbers
<1>2. IsNewest(None, 0) /\ ~AnsweredBy(0, None)
  BY <1>1 DEF IsNewest, RequestsUpTo, AnsweredBy
<1> QED BY <1>1, <1>2 DEF PanelInv, AnswersFollow, PanelShows

LEMMA PanelFrame ==
  ASSUME PanelInv, UNCHANGED <<mode, log, writer>>,
         console'.pending = console.pending,
         mode = "live" => console'.last = console.last
  PROVE  PanelInv'
BY DEF PanelInv, AnswersFollow, PanelShows, IsNewest, RequestsUpTo, AnsweredBy, Numbers

LEMMA PanelBeginAppend ==
  ASSUME TypeInv, PanelInv, NEW w \in Writers,
         Record(w) \/ Answer(w) \/ AppendAnswer(w)
  PROVE  PanelInv'
<1>1. /\ UNCHANGED <<mode, log, console>> /\ Numbers' = Numbers
      /\ writer \in [Writers -> WriterFrame]
  BY DEF Record, Answer, AppendAnswer, BeginAppend, Numbers, TypeInv, TypeOK
<1>2. PICK f : /\ writer' = [writer EXCEPT ![w] = f]
               /\ f.request \in Numbers \union {None}
  <2>1. ASSUME NEW r \in Numbers \union {None}, BeginAppend(w, r)
        PROVE  \E f : /\ writer' = [writer EXCEPT ![w] = f]
                      /\ f.request \in Numbers \union {None}
    <3> DEFINE f == [pc |-> "inserting", last |-> LastNumber, request |-> r]
    <3>1. writer' = [writer EXCEPT ![w] = f] /\ f.request = r
      BY <2>1 DEF BeginAppend
    <3> HIDE DEF f
    <3> QED BY <3>1
  <2>2. CASE Record(w)
    BY <2>1, <2>2 DEF Record
  <2>3. CASE Answer(w)
    <3>1. PICK r \in Numbers : writer' = [writer EXCEPT ![w] =
                                          [pc |-> "answering", request |-> r]]
      BY <2>3 DEF Answer
    <3> DEFINE f == [pc |-> "answering", request |-> r]
    <3>2. writer' = [writer EXCEPT ![w] = f] /\ f.request = r
      BY <3>1
    <3> HIDE DEF f
    <3> QED BY <3>2
  <2>4. CASE AppendAnswer(w)
    <3>1. writer[w] # Idle
      BY <2>4 DEF AppendAnswer, Idle
    <3>2. writer[w].request \in Numbers \union {None}
      BY <3>1 DEF PanelInv, AnswersFollow
    <3> QED BY <2>1, <2>4, <3>2 DEF AppendAnswer
  <2> QED BY <2>2, <2>3, <2>4
<1>3. \A v \in Writers : writer'[v] # Idle => writer'[v].request \in Numbers \union {None}
  BY <1>1, <1>2 DEF PanelInv, AnswersFollow
<1>4. AnswersFollow'
  BY <1>1, <1>3 DEF PanelInv, AnswersFollow
<1>5. PanelShows'
  BY <1>1 DEF PanelInv, PanelShows, IsNewest, RequestsUpTo, AnsweredBy
<1> QED BY <1>4, <1>5 DEF PanelInv

(* The event a writer inserts answers a request that it found in the log. *)
LEMMA InsertedAnswer ==
  ASSUME TypeInv, PanelInv, NEW w \in Writers, Insert(w),
         NEW n \in Numbers', n \notin Numbers, log'[n].kind = "outcome"
  PROVE  log'[n].request \in Numbers
<1>1. n = writer[w].last + 1 /\ n \notin Numbers /\ writer[w] # Idle
  BY DEF Insert, Numbers, Appending, Idle
<1>2. PICK e \in Payload(writer[w].request) :
        log' = [i \in Numbers \union {n} |-> IF i = n THEN e ELSE log[i]]
  BY <1>1 DEF Insert
<1>3. log'[n] = e
  BY <1>2
<1>4. writer[w].request # None /\ e = AnswerTo(writer[w].request)
  BY <1>3 DEF Payload
<1>5. e.request = writer[w].request
  BY <1>4 DEF AnswerTo
<1> QED BY <1>1, <1>3, <1>4, <1>5 DEF PanelInv, AnswersFollow

LEMMA PanelInsert ==
  ASSUME TypeInv, DeliveryInv, PanelInv, NEW w \in Writers, Insert(w)
  PROVE  PanelInv'
<1>1. /\ UNCHANGED <<mode, console>> /\ writer' = [writer EXCEPT ![w] = Idle]
      /\ writer \in [Writers -> WriterFrame]
      /\ Numbers = 1..LastNumber /\ LastNumber \in Nat
  BY LogLength, StreamAssumption DEF Insert, TypeInv, TypeOK
<1>2. /\ Numbers \subseteq Numbers' /\ \A i \in Numbers : log'[i] = log[i]
      /\ \A i \in Numbers' \ Numbers : i = LastNumber + 1
  BY <1>1, InsertFacts
<1>3. \A i \in Numbers' \ Numbers, n \in Numbers \union {0} : ~(i <= n) /\ n < i
  BY <1>1, <1>2
<1>4. AnswersFollow'
  <2>1. \A i \in Numbers' : log'[i].kind = "outcome" =>
          log'[i].request \in Numbers' /\ log'[i].request < i
    <3> SUFFICES ASSUME NEW i \in Numbers', log'[i].kind = "outcome"
                 PROVE  log'[i].request \in Numbers' /\ log'[i].request < i
      OBVIOUS
    <3>1. CASE i \in Numbers
      BY <1>2, <3>1 DEF PanelInv, AnswersFollow
    <3>2. CASE i \notin Numbers
      BY <1>2, <1>3, <3>2, InsertedAnswer
    <3> QED BY <3>1, <3>2
  <2>2. \A v \in Writers : writer'[v] # Idle =>
          writer'[v].request \in Numbers' \union {None}
    BY <1>1, <1>2 DEF PanelInv, AnswersFollow
  <2> QED BY <1>1, <1>2, <2>1, <2>2 DEF PanelInv, AnswersFollow
<1>5. PanelShows'
  <2> SUFFICES ASSUME mode = "live" PROVE PanelShows'
    BY <1>1 DEF PanelShows
  <2> DEFINE n == console.last
  <2>1. n \in Numbers \union {0} /\ console'.last = n
    BY <1>1 DEF DeliveryInv, ReceivedKnown, Received
  <2>2. \A i : i \in Numbers' /\ i <= n <=> i \in Numbers /\ i <= n
    BY <1>2, <1>3, <2>1
  <2> HIDE DEF n
  <2>3. RequestsUpTo(n)' = RequestsUpTo(n)
    BY <1>2, <2>1, <2>2 DEF RequestsUpTo, n
  <2>4. \A r : (\E i \in Numbers' : i <= n /\ log'[i] = AnswerTo(r)) <=> AnsweredBy(n, r)
    BY <1>2, <2>2 DEF AnsweredBy
  <2>5. PICK r \in Numbers \union {None} :
          /\ IsNewest(r, n)
          /\ console.pending = IF AnsweredBy(n, r) THEN None ELSE r
    BY DEF PanelInv, PanelShows, n
  <2>6. AnsweredBy(n, r)' <=> AnsweredBy(n, r)
    BY <1>1, <2>4 DEF AnsweredBy, n
  <2>7. IsNewest(r, n)'
    BY <2>3, <2>5 DEF IsNewest
  <2> QED BY <1>1, <1>2, <2>1, <2>5, <2>6, <2>7 DEF PanelShows, n
<1> QED BY <1>4, <1>5 DEF PanelInv

LEMMA PanelReceived ==
  ASSUME TypeInv, DeliveryInv, PanelInv, Receive, Head(wire).type = "event",
         UNCHANGED writer, console'.last = Head(wire).id,
         console'.pending = PendingAfter(Head(wire).id)
  PROVE  PanelInv'
<1> DEFINE n == Head(wire).id
<1>1. /\ UNCHANGED <<mode, log>> /\ Numbers' = Numbers
      /\ console'.last = n /\ console'.pending = PendingAfter(n)
  BY ReceiveFacts
<1>2. /\ n \in Numbers /\ console.last < n /\ console.last \in Nat
      /\ \A m \in Numbers : ~(console.last < m /\ m < n)
      /\ \A m \in Numbers : m \in Nat \ {0}
  BY HeadEvent
<1> HIDE DEF n
<1>3. AnswersFollow'
  <2>1. console.pending \in Numbers \union {None}
    BY DEF PanelInv, AnswersFollow
  <2>2. console'.pending \in Numbers \union {None}
    BY <1>1, <1>2, <2>1 DEF PendingAfter
  <2> QED BY <1>1, <2>2 DEF PanelInv, AnswersFollow
<1>4. ASSUME mode = "live"
      PROVE  \E r \in Numbers \union {None} :
               /\ IsNewest(r, n)
               /\ PendingAfter(n) = IF AnsweredBy(n, r) THEN None ELSE r
  <2> DEFINE last == console.last
  <2>1. PICK r \in Numbers \union {None} :
          /\ IsNewest(r, last)
          /\ console.pending = IF AnsweredBy(last, r) THEN None ELSE r
    BY <1>4 DEF PanelInv, PanelShows
  <2>2. \A m \in Numbers : m <= n <=> m <= last \/ m = n
    BY <1>2
  <2> HIDE DEF last
  <2>3. CASE log[n].kind = "requested"
    <3>1. IsNewest(n, n)
      BY <1>2, <2>3 DEF IsNewest, RequestsUpTo
    <3>2. ~AnsweredBy(n, n)
      <4> SUFFICES ASSUME NEW i \in Numbers, i <= n, log[i] = AnswerTo(n)
                   PROVE  FALSE
        BY DEF AnsweredBy
      <4>1. log[i].kind = "outcome" /\ log[i].request = n
        BY DEF AnswerTo
      <4>2. n < i
        BY <4>1 DEF PanelInv, AnswersFollow
      <4> QED BY <1>2, <4>2
    <3>3. PendingAfter(n) = n
      <4>1. log[n] # AnswerTo(console.pending)
        BY <2>3 DEF AnswerTo
      <4> QED BY <2>3, <4>1 DEF PendingAfter
    <3> QED BY <1>2, <3>1, <3>2, <3>3
  <2>4. CASE log[n].kind # "requested"
    <3>1. RequestsUpTo(n) = RequestsUpTo(last)
      BY <2>2, <2>4 DEF RequestsUpTo
    <3>2. IsNewest(r, n)
      BY <2>1, <3>1 DEF IsNewest
    <3>3. AnsweredBy(n, r) <=> AnsweredBy(last, r) \/ log[n] = AnswerTo(r)
      BY <1>2, <2>2 DEF AnsweredBy
    <3>4. log[n] # AnswerTo(None)
      <4> SUFFICES ASSUME log[n] = AnswerTo(None) PROVE FALSE
        OBVIOUS
      <4>1. log[n].kind = "outcome" /\ log[n].request = None
        BY DEF AnswerTo
      <4>2. None \in Numbers
        BY <1>2, <4>1 DEF PanelInv, AnswersFollow
      <4> QED BY <1>2, <4>2 DEF None
    <3>5. PendingAfter(n) = IF log[n] = AnswerTo(console.pending) THEN None
                            ELSE console.pending
      BY <2>4 DEF PendingAfter
    <3> QED BY <2>1, <3>2, <3>3, <3>4, <3>5
  <2> QED BY <2>3, <2>4
<1>5. PanelShows'
  <2> SUFFICES ASSUME mode = "live" PROVE PanelShows'
    BY <1>1 DEF PanelShows
  <2>1. PICK r \in Numbers \union {None} :
          /\ IsNewest(r, n)
          /\ PendingAfter(n) = IF AnsweredBy(n, r) THEN None ELSE r
    BY <1>4
  <2>2. IsNewest(r, console.last)'
    BY <1>1, <2>1 DEF IsNewest, RequestsUpTo
  <2>3. AnsweredBy(console.last, r)' <=> AnsweredBy(n, r)
    BY <1>1 DEF AnsweredBy
  <2> QED BY <1>1, <2>1, <2>2, <2>3 DEF PanelShows
<1> QED BY <1>3, <1>5 DEF PanelInv

LEMMA PanelStep ==
  TypeInv /\ DeliveryInv /\ PanelInv /\ [Next]_vars => PanelInv'
<1> SUFFICES ASSUME TypeInv, DeliveryInv, PanelInv, [Next]_vars PROVE PanelInv'
  OBVIOUS
<1>1. TypeOK
  BY DEF TypeInv
<1>2. ASSUME NEW w \in Writers, Record(w) \/ Answer(w) \/ AppendAnswer(w) \/ Insert(w)
      PROVE  PanelInv'
  BY <1>2, PanelBeginAppend, PanelInsert
<1>3. CASE FinishJourney \/ UNCHANGED vars
  BY <1>3, PanelFrame DEF FinishJourney, vars, history
<1>4. CASE Read \/ Yield \/ Test \/ Close
  BY <1>4, PanelFrame DEF Read, Yield, Test, Close, history
<1>5. CASE Connect \/ Break \/ Refuse \/ ReceiveClose
  <2>1. console'.pending = console.pending /\ console'.last = console.last
    BY <1>1, <1>5, ConsoleFields DEF Connect, Break, Refuse, ReceiveClose
  <2>2. UNCHANGED <<mode, log, writer>>
    BY <1>5, ReceiveFacts DEF Connect, Break, Refuse, ReceiveClose, Receive, Receiving
  <2> QED BY <2>1, <2>2, PanelFrame
<1>6. CASE ReceiveStarted \/ ReceiveEnded
  <2>1. /\ console'.pending = console.pending /\ UNCHANGED <<mode, log, writer>>
        /\ Receive /\ Head(wire).type \in {"replay_started", "replay_ended"}
    BY <1>1, <1>6, ConsoleFields DEF ReceiveStarted, ReceiveEnded, Receiving, Receive
  <2>2. 1 \in DOMAIN wire /\ Head(wire) = wire[1]
    BY <2>1, ReceiveFacts
  <2>3. mode = "replay"
    BY <2>1, <2>2 DEF DeliveryInv, WireFramed
  <2> QED BY <2>1, <2>3, PanelFrame
<1>7. CASE ReceiveHidden
  <2> DEFINE n == Head(wire).id
  <2>1. /\ Receive /\ Head(wire).type = "event" /\ log[n].kind = "hidden"
        /\ UNCHANGED writer /\ console'.last = n /\ console'.pending = console.pending
    BY <1>1, <1>7, ConsoleFields DEF ReceiveHidden, Receiving, Receive
  <2>2. \A r : AnswerTo(r).kind = "outcome"
    BY DEF AnswerTo
  <2>3. PendingAfter(n) = console.pending
    BY <2>1, <2>2 DEF PendingAfter
  <2> QED BY <2>1, <2>3, PanelReceived
<1>8. CASE ReceiveEvent
  <2>1. /\ Receive /\ Head(wire).type = "event" /\ UNCHANGED writer
        /\ console'.last = Head(wire).id
        /\ console'.pending = PendingAfter(Head(wire).id)
    BY <1>1, <1>8, ConsoleFields DEF ReceiveEvent, Receiving, Receive
  <2> QED BY <2>1, PanelReceived
<1> QED
  BY <1>2, <1>3, <1>4, <1>5, <1>6, <1>7, <1>8 DEF Next, Service, Receive

(* Whatever requests are answered by whichever processes, once or twice, the
   panel of a live console (reducer.ts) shows no request whose answer it has
   received, and shows the newest request it has received for as long as it has
   not received the answer to that one. *)
THEOREM PanelShowsOutstanding == Spec => []PendingIsOutstanding
<1>1. TypeInv /\ PanelInv => PendingIsOutstanding
  <2> SUFFICES ASSUME TypeInv, PanelInv, mode = "live"
               PROVE  PendingIsOutstanding
    BY DEF PendingIsOutstanding
  <2>1. PICK r \in Numbers \union {None} :
          /\ IsNewest(r, console.last)
          /\ console.pending = IF AnsweredBy(console.last, r) THEN None ELSE r
    BY DEF PanelInv, PanelShows
  <2>2. \A m \in Numbers : m \in Nat \ {0}
    BY LogLength DEF TypeInv
  <2>3. IsNewest(NewestRequest(console.last), console.last)
    BY <2>1 DEF IsNewest, NewestRequest
  <2>4. RequestsUpTo(console.last) \subseteq Numbers
    BY DEF RequestsUpTo
  <2>5. NewestRequest(console.last) = r
    BY <2>1, <2>2, <2>3, <2>4 DEF IsNewest, None
  <2>6. r # None => r \in RequestsUpTo(console.last)
    BY <2>1 DEF IsNewest
  <2>7. None \notin RequestsUpTo(console.last)
    BY <2>2, <2>4 DEF None
  <2> QED BY <2>1, <2>5, <2>6, <2>7 DEF PendingIsOutstanding
<1> QED
  BY TypeInit, TypeStep, DeliveryInit, DeliveryStep, PanelInit, PanelStep, <1>1, PTL
  DEF Spec

-------------------------------------------------------------------------------
(* The feed. *)

LEMMA FeedShownNumbers ==
  ASSUME TypeInv, DeliveryInv, mode = "live"
  PROVE  Shown = {i \in Due(MaxEvents) : i <= console.last}
<1>1. Shown = Due(console.last)
  BY DEF DeliveryInv, ShownOnceInOrder, Received
<1>2. \A i \in Numbers : i <= MaxEvents
  BY LogLength, StreamAssumption DEF TypeInv
<1> QED BY <1>1, <1>2 DEF Due

LEMMA FeedStutters ==
  ASSUME mode \in {"live", "replay"}, UNCHANGED <<mode, log>>,
         mode = "live" => shown' = shown,
         mode = "live" => (console'.status = "ended" <=> console.status = "ended")
  PROVE  UNCHANGED Feed!vars
<1>1. Due(MaxEvents)' = Due(MaxEvents)
  BY DEF Due, Numbers
<1>2. (IF mode = "live" THEN shown ELSE <<>>)' = IF mode = "live" THEN shown ELSE <<>>
  OBVIOUS
<1>3. (mode = "replay" \/ console.status = "ended")'
        = (mode = "replay" \/ console.status = "ended")
  <2>1. CASE mode = "live"
    BY <2>1
  <2>2. CASE mode = "replay"
    BY <2>2
  <2> QED BY <2>1, <2>2
<1> QED BY <1>1, <1>2, <1>3 DEF Feed!vars

LEMMA FeedInsert ==
  ASSUME TypeInv, NEW w \in Writers, Insert(w)
  PROVE  (\E n \in Number : Feed!Record(n)) \/ UNCHANGED Feed!vars
<1>1. /\ UNCHANGED <<mode, console, shown>> /\ mode \in {"live", "replay"}
      /\ Numbers = 1..LastNumber /\ LastNumber \in 0..MaxEvents
  BY LogLength DEF Insert, history, TypeInv, TypeOK
<1>2. /\ Numbers \subseteq Numbers' /\ \A i \in Numbers : log'[i] = log[i]
      /\ Numbers' # Numbers =>
           Numbers' = 1..(LastNumber + 1) /\ LastNumber + 1 \in Number
  BY InsertFacts
<1>3. /\ (IF mode = "live" THEN shown ELSE <<>>)' = IF mode = "live" THEN shown ELSE <<>>
      /\ (mode = "replay" \/ console.status = "ended")'
           = (mode = "replay" \/ console.status = "ended")
  BY <1>1
<1> DEFINE n == LastNumber + 1
<1>4. \A i \in Numbers : i <= MaxEvents
  BY <1>1, StreamAssumption
<1>5. CASE Numbers' = Numbers
  <2>1. Due(MaxEvents)' = Due(MaxEvents)
    BY <1>2, <1>5 DEF Due
  <2> QED BY <1>3, <2>1 DEF Feed!vars
<1>6. CASE Numbers' # Numbers
  <2>1. /\ n \in Number /\ Numbers' = Numbers \union {n} /\ n \notin Numbers
        /\ n <= MaxEvents /\ \A i \in Numbers : i < n
    BY <1>1, <1>2, <1>6, StreamAssumption DEF Number
  <2> HIDE DEF n
  <2>2. CASE log'[n].kind = "hidden"
    <3>1. Due(MaxEvents)' = Due(MaxEvents)
      BY <1>2, <2>1, <2>2 DEF Due
    <3> QED BY <1>3, <3>1 DEF Feed!vars
  <2>3. CASE log'[n].kind # "hidden"
    <3>1. Due(MaxEvents)' = Due(MaxEvents) \union {n}
      BY <1>2, <2>1, <2>3 DEF Due
    <3>2. \A i \in Due(MaxEvents) : i < n
      BY <2>1 DEF Due
    <3>3. Feed!Record(n)
      BY <1>3, <3>1, <3>2 DEF Feed!Record
    <3> QED BY <2>1, <3>3
  <2> QED BY <2>2, <2>3
<1> QED BY <1>5, <1>6

LEMMA FeedPresent ==
  ASSUME TypeInv, DeliveryInv, ReceiveEvent, mode = "live"
  PROVE  Feed!Present
<1> DEFINE n == Head(wire).id
<1>1. /\ Receive /\ Head(wire).type = "event" /\ log[n].kind # "hidden"
      /\ shown' = Append(shown, n) /\ UNCHANGED <<mode, log>>
  BY DEF Receive, ReceiveEvent, Receiving
<1>2. console.status = "live" /\ console'.status = "live"
  BY <1>1, ReceiveFacts, ConsoleFields DEF ReceiveEvent
<1>3. /\ n \in Numbers /\ console.last < n /\ console.last \in Nat
      /\ \A m \in Numbers : ~(console.last < m /\ m < n)
      /\ \A m \in Numbers : m \in Nat
  BY <1>1, HeadEvent
<1> HIDE DEF n
<1>4. \A i \in Numbers : i <= MaxEvents
  BY LogLength, StreamAssumption DEF TypeInv
<1>5. Shown = {i \in Due(MaxEvents) : i <= console.last}
  BY FeedShownNumbers
<1>6. n \in Due(MaxEvents) \ Shown /\ \A i \in Due(MaxEvents) \ Shown : n <= i
  BY <1>1, <1>3, <1>4, <1>5 DEF Due
<1>7. Feed!Shown = Shown
  BY DEF Feed!Shown, Shown
<1>8. Due(MaxEvents)' = Due(MaxEvents)
  BY <1>1 DEF Due, Numbers
<1>9. /\ ~(mode = "replay" \/ console.status = "ended")
      /\ (mode = "replay" \/ console.status = "ended")'
           = (mode = "replay" \/ console.status = "ended")
  BY <1>1, <1>2
<1>10. (IF mode = "live" THEN shown ELSE <<>>)'
         = Append(IF mode = "live" THEN shown ELSE <<>>, n)
  BY <1>1
<1> QED BY <1>6, <1>7, <1>8, <1>9, <1>10 DEF Feed!Present

LEMMA FeedEnd ==
  ASSUME mode \in {"live", "replay"}, UNCHANGED <<mode, log, shown>>,
         console'.status = "ended"
  PROVE  Feed!End
<1>1. Due(MaxEvents)' = Due(MaxEvents)
  BY DEF Due, Numbers
<1>2. (mode = "replay" \/ console.status = "ended")' = TRUE
  OBVIOUS
<1>3. (IF mode = "live" THEN shown ELSE <<>>)' = IF mode = "live" THEN shown ELSE <<>>
  OBVIOUS
<1> QED BY <1>1, <1>2, <1>3 DEF Feed!End

LEMMA FeedStep ==
  TypeInv /\ DeliveryInv /\ [Next]_vars => [Feed!Next]_(Feed!vars)
<1> SUFFICES ASSUME TypeInv, DeliveryInv, [Next]_vars
             PROVE  Feed!Next \/ UNCHANGED Feed!vars
  OBVIOUS
<1>1. TypeOK /\ mode \in {"live", "replay"}
  BY DEF TypeInv, TypeOK
<1>2. ASSUME NEW w \in Writers, Record(w) \/ Answer(w) \/ AppendAnswer(w)
      PROVE  UNCHANGED Feed!vars
  BY <1>1, <1>2, FeedStutters DEF Record, Answer, AppendAnswer, BeginAppend, history
<1>3. ASSUME NEW w \in Writers, Insert(w)
      PROVE  Feed!Next \/ UNCHANGED Feed!vars
  BY <1>3, FeedInsert DEF Feed!Next
<1>4. CASE FinishJourney \/ UNCHANGED vars
  BY <1>1, <1>4, FeedStutters DEF FinishJourney, vars, history
<1>5. CASE Read \/ Yield \/ Test \/ Close
  BY <1>1, <1>5, FeedStutters DEF Read, Yield, Test, Close, history
<1>6. CASE Connect \/ Break
  <2>1. /\ console.status # "ended" /\ console'.status # "ended"
        /\ UNCHANGED <<mode, log, shown>>
    BY <1>1, <1>6, ConsoleFields DEF Connect, Break, history
  <2> QED BY <1>1, <2>1, FeedStutters
<1>7. CASE Refuse \/ ReceiveClose
  <2>1. console'.status = "ended"
    BY <1>1, <1>7, ConsoleFields DEF Refuse, ReceiveClose
  <2>2. UNCHANGED <<mode, log, shown>>
    BY <1>7 DEF Refuse, ReceiveClose, Receiving, history
  <2> QED BY <1>1, <2>1, <2>2, FeedEnd DEF Feed!Next
<1>8. CASE ReceiveStarted \/ ReceiveEnded
  <2>1. /\ UNCHANGED <<mode, log>> /\ console'.status = console.status
        /\ Receive /\ Head(wire).type \in {"replay_started", "replay_ended"}
    BY <1>1, <1>8, ConsoleFields DEF ReceiveStarted, ReceiveEnded, Receiving, Receive
  <2>2. 1 \in DOMAIN wire /\ Head(wire) = wire[1]
    BY <2>1, ReceiveFacts
  <2>3. mode = "replay"
    BY <2>1, <2>2 DEF DeliveryInv, WireFramed
  <2> QED BY <1>1, <2>1, <2>3, FeedStutters
<1>9. CASE ReceiveHidden
  <2>1. UNCHANGED <<mode, log, shown>> /\ console'.status = console.status
    BY <1>1, <1>9, ConsoleFields DEF ReceiveHidden, Receiving, history
  <2> QED BY <1>1, <2>1, FeedStutters
<1>10. CASE ReceiveEvent
  <2>1. CASE mode = "live"
    BY <1>10, <2>1, FeedPresent DEF Feed!Next
  <2>2. CASE mode = "replay"
    <3>1. UNCHANGED <<mode, log>>
      BY <1>10 DEF ReceiveEvent, Receiving
    <3> QED BY <1>1, <2>2, <3>1, FeedStutters
  <2> QED BY <1>1, <2>1, <2>2
<1> QED
  BY <1>2, <1>3, <1>4, <1>5, <1>6, <1>7, <1>8, <1>9, <1>10
  DEF Next, Service, Receive

(* The polling stream with its connections, cursors and reconnections is, to
   who watches a live console, a feed that shows each event once and in order. *)
THEOREM StreamIsFeed == Spec => Feed!Init /\ [][Feed!Next]_(Feed!vars)
<1>1. Init => Feed!Init
  <2> SUFFICES ASSUME Init PROVE Feed!Init
    OBVIOUS
  <2>1. Due(MaxEvents) = {} /\ (IF mode = "live" THEN shown ELSE <<>>) = <<>>
    BY DEF Init, Due, Numbers
  <2>2. (mode = "replay" \/ console.status = "ended") \in BOOLEAN
    OBVIOUS
  <2> QED BY <2>1, <2>2 DEF Feed!Init
<1> QED BY <1>1, DeliveryAlways, FeedStep, PTL DEF Spec
===============================================================================
