----------------------------- MODULE AmqpDelivery -----------------------------
(***************************************************************************)
(* Deliveries of node-amqp: the parser that takes the stream of octets     *)
(* apart, the messages that the queues of a connection put together from   *)
(* its frames, and their acknowledgement with shift().                     *)
(*                                                                         *)
(* Every queue has a channel of its own, which is open here (AmqpChannel   *)
(* has its life).  The frames of one channel come in order, those of       *)
(* different channels, and heartbeats, between each other.  The parser     *)
(* handles a chunk octet by octet, and the program may act after any of    *)
(* them, where a chunk may end.                                            *)
(***************************************************************************)
EXTENDS Naturals, Sequences, FiniteSets

CONSTANTS
  Queues,         (* the queues of the connection                           *)
  Sizes,          (* the sizes of the messages                              *)
  HeaderOctets,   (* octets of a frame header                               *)
  FrameMax,       (* octets of a body that one frame takes                  *)
  MaxMessages,    (* bound: messages in all                                 *)
  MaxSubscribes,  (* bound: calls of subscribe                              *)
  MaxExtra,       (* bound: calls of shift without a message to acknowledge *)
  MaxBeats        (* bound: heartbeats                                      *)

ASSUME DeliveryAssumption ==
  /\ Sizes \subseteq Nat
  /\ HeaderOctets \in Nat \ {0} /\ FrameMax \in Nat \ {0}
  /\ MaxMessages \in Nat /\ MaxSubscribes \in Nat /\ MaxExtra \in Nat /\ MaxBeats \in Nat

VARIABLES
  parser,     (* AMQPParser: state, octets of the header so far, frame, its payload *)
  current,    (* Queue.currentMessage                                       *)
  last,       (* the delivery tag of Queue._lastMessage, 0 if there is none *)
  consumers,  (* the subscriptions of each queue: "ack" or "noAck"          *)
  given,      (* the messages the listeners were given: [tag, consumer, body] *)
  due,        (* history: the messages given, not yet followed by a shift() *)
  extra,      (* history: calls of shift() that no message has called for   *)
  window,     (* the broker counts its prefetch by "channel" or "consumer"  *)
  ready,      (* the messages of each queue that wait: [id, size]           *)
  unacked,    (* the messages not acknowledged: [tag, consumer, message]    *)
  delivered,  (* history: the deliveries, in order: [consumer, message]     *)
  refused,    (* the queues whose channel the broker closed for an ack      *)
  out,        (* the frames that wait, of each queue                        *)
  wire,       (* the octets of the frame that is coming                     *)
  published,  (* history: number of messages                                *)
  beats       (* history: number of heartbeats                              *)

client == <<parser, current, last, consumers, given, due, extra>>
broker == <<window, ready, unacked, delivered, refused, out, wire, published, beats>>
vars == <<client, broker>>

Least(a, b) == IF a < b THEN a ELSE b

-----------------------------------------------------------------------------
(* Frames                                                                  *)

Frame(type, q, size) ==
  [type |-> type, channel |-> q, size |-> size, tag |-> 0, consumer |-> 0, length |-> 0,
   id |-> 0, from |-> 0]

NoFrame == Frame("none", "none", 0)

\* Octet i of the body of message id.
Datum(id, i) == <<id, i>>

Body(m) == [i \in 1 .. m.size |-> Datum(m.id, i)]

\* The frames of a delivery: the method, the header, and the body, if any.
Frames(q, tag, c, m) ==
  LET parts == (m.size + FrameMax - 1) \div FrameMax
      Part(k) == LET from == (k - 1) * FrameMax
                 IN [Frame("body", q, Least(FrameMax, m.size - from)) EXCEPT !.id = m.id, !.from = from]
  IN <<[Frame("deliver", q, 1) EXCEPT !.tag = tag, !.consumer = c],
       [Frame("header", q, 1) EXCEPT !.length = m.size]>> \o [k \in 1 .. parts |-> Part(k)]

\* The octets of a frame: header, payload, end.
Octets(f) ==
  LET Octet(k, n) == [i \in 1 .. n |-> [kind |-> k, frame |-> f, i |-> i]]
  IN Octet("header", HeaderOctets) \o Octet("payload", f.size) \o Octet("end", 1)

-----------------------------------------------------------------------------
(* The broker                                                              *)

Publish(q, size) ==
  /\ published < MaxMessages
  /\ published' = published + 1
  /\ ready' = [ready EXCEPT ![q] = Append(@, [id |-> published + 1, size |-> size])]
  /\ UNCHANGED <<client, window, unacked, delivered, refused, out, wire, beats>>

\* subscribe with ack asks for one message at a time (basicQos).
MayTake(q, c) ==
  consumers[q][c] = "ack" =>
    \A u \in unacked[q] : window = "consumer" /\ u.consumer # c

\* A queue gives its first message to one of its consumers.
Deliver(q) ==
  /\ q \notin refused
  /\ ready[q] # <<>>
  /\ out[q] = <<>>
  /\ \E c \in DOMAIN consumers[q] :
       LET m == Head(ready[q])
           tag == Len(delivered[q]) + 1
       IN /\ MayTake(q, c)
          /\ ready' = [ready EXCEPT ![q] = Tail(@)]
          /\ delivered' = [delivered EXCEPT ![q] = Append(@, [consumer |-> c, message |-> m])]
          /\ out' = [out EXCEPT ![q] = Frames(q, tag, c, m)]
          /\ unacked' = IF consumers[q][c] = "noAck" THEN unacked
                        ELSE [unacked EXCEPT ![q] = @ \cup {[tag |-> tag, consumer |-> c, message |-> m]}]
  /\ UNCHANGED <<client, window, refused, wire, published, beats>>

\* The next frame comes: of any channel, or a heartbeat.
Send(q) ==
  /\ wire = <<>>
  /\ out[q] # <<>>
  /\ wire' = Octets(Head(out[q]))
  /\ out' = [out EXCEPT ![q] = Tail(@)]
  /\ UNCHANGED <<client, window, ready, unacked, delivered, refused, published, beats>>

Heartbeat ==
  /\ wire = <<>>
  /\ beats < MaxBeats
  /\ beats' = beats + 1
  /\ wire' = Octets(Frame("heartbeat", "none", 0))
  /\ UNCHANGED <<client, window, ready, unacked, delivered, refused, out, published>>

\* basicAck.  A tag that is not to be acknowledged costs the channel, and with it
\* the deliveries of its queue, where this model leaves it.
Acknowledged(q, tag) ==
  IF q \in refused THEN UNCHANGED <<unacked, refused>>
  ELSE /\ unacked' = [unacked EXCEPT ![q] = {u \in @ : u.tag # tag}]
       /\ refused' = IF \E u \in unacked[q] : u.tag = tag THEN refused ELSE refused \cup {q}

-----------------------------------------------------------------------------
(* Calls of the program                                                    *)

\* subscribe, and with it basicQos when it is to acknowledge.
Subscribe(q, kind) ==
  /\ q \notin refused
  /\ Cardinality({x \in Queues \X (1 .. MaxSubscribes) : x[2] \in DOMAIN consumers[x[1]]}) < MaxSubscribes
  /\ consumers' = [consumers EXCEPT ![q] = Append(@, kind)]
  /\ UNCHANGED <<parser, current, last, given, due, extra, broker>>

ShiftLast(q) ==
  /\ IF last[q] = 0 THEN UNCHANGED <<unacked, refused>> ELSE Acknowledged(q, last[q])
  /\ UNCHANGED <<parser, current, last, consumers, given, window, ready, delivered, out, wire,
                 published, beats>>

\* shift(), once for each message a subscription with ack has been given.
Shift(q) ==
  /\ due[q] > 0
  /\ due' = [due EXCEPT ![q] = @ - 1]
  /\ ShiftLast(q)
  /\ UNCHANGED extra

\* shift() at any other time.
ShiftAgain(q) ==
  /\ due[q] = 0
  /\ Cardinality(extra) < MaxExtra
  /\ extra' = extra \cup {q}
  /\ ShiftLast(q)
  /\ UNCHANGED due

-----------------------------------------------------------------------------
(* The messages of a queue                                                 *)

\* Mutants: the message ends with its first frame, or with an octet too many;
\* the last message is the one before this one.
FirstFrame(c) == c.read > 0
PastEnd(c) == c.read > c.size
LastKept(q, c) == IF last[q] = 0 THEN c.tag ELSE last[q]

\* _onContent: whether the message has ended.
Ended(c) == c.read = c.size

\* subscribe: the message that shift acknowledges.
LastMessage(q, c) == c.tag

\* _onMethod: basicDeliver.
BasicDeliver(f) ==
  /\ f.type = "deliver"
  /\ current' = [current EXCEPT ![f.channel] =
                   [tag |-> f.tag, consumer |-> f.consumer, read |-> 0, size |-> 0, body |-> <<>>]]
  /\ UNCHANGED <<last, given, due>>

\* _onContentHeader: the listener of the consumer tag is called.
OnContentHeader(f) ==
  /\ f.type = "header"
  /\ current' = [current EXCEPT ![f.channel].read = 0, ![f.channel].size = f.length]
  /\ last' = [last EXCEPT ![f.channel] = LastMessage(f.channel, current[f.channel])]
  /\ UNCHANGED <<given, due>>

\* _onContent: the octets of a frame; the last ones end the message.
OnContent(f, payload) ==
  LET q == f.channel
      data == [i \in DOMAIN payload |-> Datum(payload[i].frame.id, payload[i].frame.from + payload[i].i)]
      c == [current[q] EXCEPT !.read = @ + Len(data), !.body = @ \o data]
      ack == consumers[q][c.consumer] = "ack"
  IN /\ f.type = "body"
     /\ current' = [current EXCEPT ![q] = c]
     /\ given' = IF Ended(c) THEN [given EXCEPT ![q] = Append(@, [tag |-> c.tag, consumer |-> c.consumer, body |-> c.body])]
                 ELSE given
     /\ due' = IF Ended(c) /\ ack THEN [due EXCEPT ![q] = @ + 1] ELSE due
     /\ UNCHANGED last

OnHeartBeat(f) == f.type = "heartbeat" /\ UNCHANGED <<current, last, given, due>>

OnFrame(f, payload) ==
  BasicDeliver(f) \/ OnContentHeader(f) \/ OnContent(f, payload) \/ OnHeartBeat(f)

-----------------------------------------------------------------------------
(* AMQPParser.execute, for one octet                                       *)

Octet == Head(wire)

Execute(state) ==
  /\ wire # <<>>
  /\ parser.state = state
  /\ wire' = Tail(wire)
  /\ UNCHANGED <<consumers, extra, window, ready, unacked, delivered, refused, out, published, beats>>

HeaderOctet ==
  /\ Execute("frameHeader")
  /\ parser' = IF parser.used + 1 < HeaderOctets THEN [parser EXCEPT !.used = @ + 1]
               ELSE [state |-> "bufferFrame", used |-> 0, frame |-> Octet.frame, payload |-> <<>>]
  /\ UNCHANGED <<current, last, given, due>>

\* The octet that ends a frame; another one is an error that ends the connection.
AtEnd(octet) == [parser EXCEPT !.state = IF octet.kind = "end" THEN "frameHeader" ELSE "error"]

\* Mutant: the octet after an empty payload is taken for a part of it.
EmptyTakes(octet) == [parser EXCEPT !.state = "frameEnd"]

\* The end of an empty payload is the end of the frame: the octet counts twice.
Empty(octet) == AtEnd(octet)

BufferOctet ==
  LET payload == IF parser.frame.size = 0 THEN <<>> ELSE Append(parser.payload, Octet)
  IN /\ Execute("bufferFrame")
     /\ \/ /\ Len(payload) < parser.frame.size
           /\ parser' = [parser EXCEPT !.payload = payload]
           /\ UNCHANGED <<current, last, given, due>>
        \/ /\ Len(payload) = parser.frame.size
           /\ OnFrame(parser.frame, payload)
           /\ parser' = IF payload = <<>> THEN Empty(Octet)
                        ELSE [parser EXCEPT !.state = "frameEnd", !.payload = <<>>]

EndOctet ==
  /\ Execute("frameEnd")
  /\ parser' = AtEnd(Octet)
  /\ UNCHANGED <<current, last, given, due>>

-----------------------------------------------------------------------------
Init ==
  /\ parser = [state |-> "frameHeader", used |-> 0, frame |-> NoFrame, payload |-> <<>>]
  /\ current = [q \in Queues |-> [tag |-> 0, consumer |-> 0, read |-> 0, size |-> 0, body |-> <<>>]]
  /\ last = [q \in Queues |-> 0]
  /\ consumers = [q \in Queues |-> <<>>]
  /\ given = [q \in Queues |-> <<>>]
  /\ due = [q \in Queues |-> 0]
  /\ extra = {}
  /\ window \in {"channel", "consumer"}
  /\ ready = [q \in Queues |-> <<>>]
  /\ unacked = [q \in Queues |-> {}]
  /\ delivered = [q \in Queues |-> <<>>]
  /\ refused = {}
  /\ out = [q \in Queues |-> <<>>]
  /\ wire = <<>>
  /\ published = 0
  /\ beats = 0

Data == HeaderOctet \/ BufferOctet \/ EndOctet

Broker == Heartbeat \/ \E q \in Queues : Deliver(q) \/ Send(q)

Call ==
  \E q \in Queues :
    \/ \E size \in Sizes : Publish(q, size)
    \/ \E kind \in {"ack", "noAck"} : Subscribe(q, kind)
    \/ Shift(q)
    \/ ShiftAgain(q)

Next == Data \/ Broker \/ Call

Spec == Init /\ [][Next]_vars

FairSpec ==
  Spec /\ WF_vars(Data)
       /\ \A q \in Queues : WF_vars(Deliver(q)) /\ WF_vars(Send(q)) /\ WF_vars(Shift(q))

-----------------------------------------------------------------------------
(* Properties                                                              *)

Datums == (1 .. MaxMessages) \X Nat

Message == [id : 1 .. MaxMessages, size : Sizes]

\* Every variable holds a value of its kind; the parser stays in step with the
\* octets, and a delivery that is not acknowledged has a tag of its own.
TypeOK ==
  /\ parser.state \in {"frameHeader", "bufferFrame", "frameEnd"}
  /\ parser.used \in 0 .. HeaderOctets - 1
  /\ Len(parser.payload) <= parser.frame.size
  /\ \A q \in Queues :
       /\ current[q].tag \in 0 .. Len(delivered[q]) /\ last[q] \in 0 .. current[q].tag
       /\ current[q].consumer \in 0 .. Len(consumers[q])
       /\ current[q].body \in Seq(Datums) /\ current[q].read = Len(current[q].body)
       /\ consumers[q] \in Seq({"ack", "noAck"})
       /\ due[q] \in 0 .. Len(given[q])
       /\ ready[q] \in Seq(Message)
       /\ \A u \in unacked[q] : u.message = delivered[q][u.tag].message
  /\ extra \subseteq Queues /\ refused \subseteq Queues
  /\ published \in 0 .. MaxMessages /\ beats \in 0 .. MaxBeats

\* What a listener is to be given of delivery t of queue q.
Whole(q, t) ==
  [tag |-> t, consumer |-> delivered[q][t].consumer, body |-> Body(delivered[q][t].message)]

\* The listeners of a queue are given its deliveries, each once, in order, with
\* its own body, by the subscription it was for, however the stream is cut and
\* the frames of other channels and heartbeats come between; none is passed
\* over but the messages without a body: no frame ends those.
GivenInOrder ==
  \A q \in Queues :
    /\ \A k \in DOMAIN given[q] :
         \E t \in DOMAIN delivered[q] :
           /\ given[q][k] = Whole(q, t)
           /\ delivered[q][t].message.size > 0
           /\ \A s \in 1 .. t - 1 :
                delivered[q][s].message.size > 0 => \E j \in DOMAIN given[q] : given[q][j].tag = s
    /\ \A j, k \in DOMAIN given[q] : j < k => given[q][j].tag < given[q][k].tag

Acks(q) == {c \in DOMAIN consumers[q] : consumers[q][c] = "ack"}

\* Two messages of queue q may wait for an acknowledgement, and shift() knows
\* only the last one.
TwoWindows(q) == window = "consumer" /\ Cardinality(Acks(q)) > 1

\* A program that calls shift() once for each message it is given never has its
\* channel closed for it, unless it has subscribed with and without ack to one
\* queue, or twice with ack at a broker that has a window for each: shift()
\* acknowledges the last message whatever subscription it was for.
ShiftAcknowledges ==
  \A q \in refused : q \in extra \/ Acks(q) # DOMAIN consumers[q] \/ TwoWindows(q)

\* Why a message of queue q may wait for ever: the channel was closed, shift()
\* acknowledged another message in its place, or the one before it has no body,
\* so that the program never learns that there is one to acknowledge.
Excused(q) == q \in refused \/ TwoWindows(q) \/ \E u \in unacked[q] : u.message.size = 0

Outstanding(q) == ready[q] # <<>> \/ unacked[q] # {} \/ out[q] # <<>>

\* Every message of a queue with a subscription is delivered, given and, with
\* ack, acknowledged, if the program shifts when it is given one.
MessagesComplete ==
  \A q \in Queues : (Outstanding(q) /\ consumers[q] # <<>>) ~> (~Outstanding(q) \/ Excused(q))
=============================================================================
