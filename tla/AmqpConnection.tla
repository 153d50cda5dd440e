---------------------------- MODULE AmqpConnection ----------------------------
(***************************************************************************)
(* A connection of node-amqp: its tables of channels, queues and exchanges *)
(* against the objects the program holds, over reconnects.                 *)
(*                                                                         *)
(* AmqpChannel has the tasks and replies of one channel.  Here a channel   *)
(* has what touches the tables: open, declare, bind, destroy, close, and   *)
(* the end of a channel by the broker; every other task is a "request",    *)
(* and the replies that only fire a promise are left out.  The broker      *)
(* handles a frame when it is written; its answers are delayed.            *)
(*                                                                         *)
(* The program makes its calls while the connection is ready, and may hold *)
(* objects for ever.  An object is known by its position in objs.          *)
(***************************************************************************)
EXTENDS Integers, Sequences, FiniteSets

CONSTANTS
  QueueNames,     (* names given to queue(); "" asks for an anonymous queue *)
  ServerNames,    (* the names the broker gives to anonymous queues         *)
  ExchangeNames,  (* names given to exchange()                              *)
  Prebaked,       (* those of exchanges the broker has from the start       *)
  MaxObjects,     (* bound: queues, exchanges and numbers of channels       *)
  MaxConnects,    (* bound: connections                                     *)
  MaxWork         (* bound: objects, calls on them and twice the connections *)

DefaultName == "amq.topic"

ASSUME ConnectionAssumption ==
  /\ MaxObjects \in Nat /\ MaxConnects \in Nat /\ MaxWork \in Nat
  /\ DefaultName \in Prebaked
  /\ QueueNames \cap ServerNames = {} /\ "" \notin ServerNames
  /\ ExchangeNames \cap {""} \subseteq Prebaked

VARIABLES
  conn,           (* down, the stages of the handshake, ready               *)
  gen,            (* number of connections so far                           *)
  channelCounter, (* Connection.channelCounter                              *)
  objs,           (* the Queue and Exchange objects                         *)
  channels,       (* Connection.channels: number -> object                  *)
  queues,         (* Connection.queues: name -> object                      *)
  exchanges,      (* Connection.exchanges: name -> object                   *)
  default,        (* Connection._defaultExchange, 0 when there is none      *)
  calls,          (* history: number of calls on the objects                *)
  misuse,         (* history: what the program did that it should not       *)
  server,         (* the channels the broker has: number -> open or closing *)
  kicked,         (* the broker has closed the connection for an error      *)
  toClient        (* methods on their way: [channel, m, name]               *)

tables == <<channels, queues, exchanges>>
client == <<conn, gen, channelCounter, objs, tables, default, calls, misuse>>
broker == <<server, kicked, toClient>>
vars == <<client, broker>>

Ids == DOMAIN objs

Spent == Len(objs) + calls + 2 * gen

\* Tables: with nothing, with an entry more, with one less.
Empty == [x \in {} |-> 0]
With(f, x, v) == [y \in DOMAIN f \cup {x} |-> IF y = x THEN v ELSE f[y]]
Without(f, x) == [y \in DOMAIN f \ {x} |-> f[y]]

Method(c, m, n) == [channel |-> c, m |-> m, name |-> n]

-----------------------------------------------------------------------------
(* The broker, as amqp.js uses it.  q: what is on its way before it answers *)

Silence(q) == toClient' = q /\ UNCHANGED <<server, kicked>>

\* An error of the connection: all of its channels go.
Kick(q) ==
  /\ kicked' = TRUE
  /\ server' = Empty
  /\ toClient' = Append(q, Method(0, "connectionClose", ""))

\* channelOpen of a new channel; one that is there costs the connection.
ServerOpens(c) ==
  \/ kicked /\ Silence(toClient)
  \/ ~kicked /\ c \in DOMAIN server /\ Kick(toClient)
  \/ /\ ~kicked
     /\ c \notin DOMAIN server
     /\ server' = With(server, c, "open")
     /\ toClient' = Append(toClient, Method(c, "channelOpenOk", ""))
     /\ UNCHANGED kicked

\* Some requests on a channel.  A channel whose request fails is closed by the
\* broker, which then waits for a close and discards what comes before it; a
\* channel that is not open costs the connection.
Requests(c, q) ==
  IF c \notin DOMAIN server /\ ~kicked THEN Kick(q)
  ELSE \/ Silence(q)
       \/ /\ ~kicked
          /\ server[c] = "open"
          /\ server' = [server EXCEPT ![c] = "closing"]
          /\ toClient' = Append(q, Method(c, "channelClose", ""))
          /\ UNCHANGED kicked

\* The names no queue has had.
ServerNamesLeft(q) ==
  ServerNames \ ({objs[i].name : i \in Ids} \cup {q[k].name : k \in DOMAIN q})

\* A declare of the name n; the broker chooses a name for "".
Declares(c, n, q) ==
  IF ~kicked /\ c \in DOMAIN server /\ server[c] = "open"
  THEN \/ /\ n = "" => ServerNamesLeft(q) # {}
          /\ LET given == IF n = "" THEN CHOOSE s \in ServerNamesLeft(q) : TRUE ELSE n
             IN toClient' = Append(q, Method(c, "declareOk", given))
          /\ UNCHANGED <<server, kicked>>
       \/ /\ server' = [server EXCEPT ![c] = "closing"]
          /\ toClient' = Append(q, Method(c, "channelClose", ""))
          /\ UNCHANGED kicked
  ELSE Requests(c, q)

ServerCloses(c) ==
  \/ kicked /\ Silence(toClient)
  \/ ~kicked /\ c \notin DOMAIN server /\ Kick(toClient)
  \/ /\ ~kicked
     /\ c \in DOMAIN server
     /\ server' = Without(server, c)
     /\ toClient' = Append(toClient, Method(c, "channelCloseOk", ""))
     /\ UNCHANGED kicked

-----------------------------------------------------------------------------
(* Calls on the connection                                                 *)

\* Mutants: the number of a channel is free as soon as one is closed; a new
\* queue is in the table once it is declared.
ChannelsPlusOne == Cardinality(DOMAIN channels) + 1
NotRegistered(n, i) == queues

NextChannel == channelCounter + 1
Registered(n, i) == With(queues, n, i)
Tracked(c, i) == With(channels, c, i)

NewObject(k, n) ==
  [kind |-> k, name |-> n, channel |-> NextChannel, gen |-> gen, state |-> "new",
   todo |-> <<>>, binds |-> 0, exchange |-> 0, destroys |-> 0, closes |-> 0, destroyed |-> FALSE,
   refused |-> FALSE]

Room == Len(objs) < MaxObjects /\ channelCounter < MaxObjects

\* The constructor writes channelOpen.
Construct(k, n) ==
  /\ Room
  /\ Spent < MaxWork
  /\ channelCounter' = NextChannel
  /\ objs' = Append(objs, NewObject(k, n))
  /\ channels' = Tracked(NextChannel, Len(objs) + 1)
  /\ ServerOpens(NextChannel)

\* queue() and exchange() return an entry of the table as it is, which changes
\* nothing but, for the empty name of a queue, the counter.
Queue(n) ==
  /\ conn = "ready"
  /\ n \notin DOMAIN queues
  /\ Construct("queue", n)
  /\ queues' = Registered(n, Len(objs) + 1)
  /\ UNCHANGED <<conn, gen, exchanges, default, calls, misuse>>

AnonymousAgain ==
  /\ conn = "ready"
  /\ "" \in DOMAIN queues
  /\ Room
  /\ Spent < MaxWork
  /\ calls' = calls + 1
  /\ channelCounter' = NextChannel
  /\ UNCHANGED <<conn, gen, objs, tables, default, misuse, broker>>

Exchange(n) ==
  /\ conn = "ready"
  /\ n \notin DOMAIN exchanges
  /\ Construct("exchange", n)
  /\ exchanges' = With(exchanges, n, Len(objs) + 1)
  /\ UNCHANGED <<conn, gen, queues, default, calls, misuse>>

-----------------------------------------------------------------------------
(* Tasks of the objects                                                    *)

Destroys(todo) == Cardinality({k \in DOMAIN todo : todo[k] = "destroy"})

\* cleanup
Unused(binds) == binds = 0

\* _tasksFlush of object i, given the objects and the table of queues.  The
\* callback of destroy removes the name from the table, whatever object is
\* there; that of a queue releases its exchange.
TasksFlush(i, os, qs, q) ==
  LET o == os[i]
      k == Destroys(o.todo)
      x == o.exchange
      sent == [os EXCEPT ![i].todo = <<>>, ![i].destroyed = @ \/ k > 0]
  IN IF o.state # "open" \/ o.todo = <<>>
     THEN /\ objs' = os /\ queues' = qs
          /\ Silence(q)
          /\ UNCHANGED exchanges
     ELSE /\ Requests(o.channel, q)
          /\ queues' = IF k > 0 /\ o.kind = "queue" THEN Without(qs, o.name) ELSE qs
          /\ objs' = IF x = 0 THEN sent ELSE [sent EXCEPT ![x].binds = @ - k]
          /\ exchanges' =
               IF k > 0 /\ o.kind = "exchange" THEN Without(exchanges, o.name)
               ELSE IF x # 0 /\ \E j \in 1 .. k : Unused(os[x].binds - j)
                    THEN Without(exchanges, os[x].name) ELSE exchanges

\* How the program may not use object i: op is written at once, or is a task.
Misuse(i, op) ==
  {e \in {"stale", "early", "late"} :
     \/ e = "stale" /\ objs[i].gen # gen
     \/ e = "early" /\ op = "close" /\ objs[i].state \in {"new", "declaring"}
     \/ e = "late" /\ op \in {"bind", "close"} /\ objs[i].closes > 0}

Called(i, op) ==
  /\ conn = "ready"
  /\ Spent < MaxWork
  /\ calls' = calls + 1
  /\ misuse' = misuse \cup Misuse(i, op)
  /\ UNCHANGED <<conn, gen, channelCounter, channels, default>>

\* destroy, or a task that leaves the tables alone.
Task(i, op) ==
  /\ Called(i, op)
  /\ TasksFlush(i, [objs EXCEPT ![i].todo = Append(@, op),
                                ![i].destroys = IF op = "destroy" THEN @ + 1 ELSE @], queues, toClient)

Bound(binds) == binds + 1

\* bind writes at once; the exchange is counted when it is in the table.
Bind(i, n) ==
  /\ objs[i].kind = "queue"
  /\ Called(i, "bind")
  /\ objs' = IF n \notin DOMAIN exchanges THEN objs
             ELSE [objs EXCEPT ![i].exchange = exchanges[n],
                               ![exchanges[n]].binds = Bound(@)]
  /\ Requests(objs[i].channel, toClient)
  /\ UNCHANGED <<queues, exchanges>>

Close(i) ==
  /\ Called(i, "close")
  /\ objs' = [objs EXCEPT ![i].state = "closing", ![i].closes = @ + 1]
  /\ ServerCloses(objs[i].channel)
  /\ UNCHANGED <<queues, exchanges>>

\* Connection.publish: a task of the exchange kept from the first call on.  It
\* is constructed when the table has none of its name.
Publish ==
  /\ conn = "ready"
  /\ Spent < MaxWork
  /\ calls' = calls + 1
  /\ \/ /\ default = 0
        /\ DefaultName \notin DOMAIN exchanges
        /\ Room
        /\ channelCounter' = NextChannel
        /\ objs' = Append(objs, [NewObject("exchange", DefaultName) EXCEPT !.todo = <<"request">>])
        /\ channels' = Tracked(NextChannel, Len(objs) + 1)
        /\ exchanges' = With(exchanges, DefaultName, Len(objs) + 1)
        /\ default' = Len(objs) + 1
        /\ ServerOpens(NextChannel)
        /\ UNCHANGED <<queues, misuse>>
     \/ \E i \in IF default # 0 THEN {default}
                 ELSE {exchanges[n] : n \in DOMAIN exchanges \cap {DefaultName}} :
          /\ TasksFlush(i, [objs EXCEPT ![i].todo = Append(@, "request")], queues, toClient)
          /\ default' = i
          /\ misuse' = IF objs[i].gen # gen THEN misuse \cup {"default"} ELSE misuse
          /\ UNCHANGED <<channelCounter, channels>>
  /\ UNCHANGED <<conn, gen>>

Call ==
  \/ \E n \in QueueNames : Queue(n)
  \/ AnonymousAgain
  \/ \E n \in ExchangeNames : Exchange(n)
  \/ \E i \in Ids, op \in {"destroy", "request"} : Task(i, op)
  \/ \E i \in Ids, n \in ExchangeNames : Bind(i, n)
  \/ \E i \in Ids : Close(i)
  \/ Publish

-----------------------------------------------------------------------------
(* Methods that arrive                                                     *)

Arrived == Head(toClient)

\* _onMethod: a method goes to the object the table has for its channel.
Receive(m) ==
  /\ conn = "ready"
  /\ toClient # <<>>
  /\ Arrived.m = m
  /\ Arrived.channel \in DOMAIN channels \cup {0}
  /\ UNCHANGED <<gen, channelCounter, default, calls, misuse>>

Receiver == channels[Arrived.channel]

ChannelOpenOk ==
  /\ Receive("channelOpenOk")
  /\ LET i == Receiver
         o == objs[i]
         In(st) == [objs EXCEPT ![i].state = st]
     IN IF o.kind = "exchange" /\ o.name \in Prebaked
        THEN TasksFlush(i, In("open"), queues, Tail(toClient))
        ELSE /\ objs' = In("declaring")
             /\ Declares(o.channel, o.name, Tail(toClient))
             /\ UNCHANGED <<queues, exchanges>>
  /\ UNCHANGED <<conn, channels>>

\* Mutant: the state of a declared object.
DeclaredTypo == "opened"
Declared == "open"

\* A queue takes the name the broker says, and registers under it.
DeclareOk ==
  /\ Receive("declareOk")
  /\ LET i == Receiver
         os == [objs EXCEPT ![i].state = Declared, ![i].name = Arrived.name]
         qs == IF objs[i].kind = "queue" THEN With(queues, Arrived.name, i) ELSE queues
     IN TasksFlush(i, os, qs, Tail(toClient))
  /\ UNCHANGED <<conn, channels>>

\* The broker has closed the channel: the object stays in the tables.
ChannelClose ==
  /\ Receive("channelClose")
  /\ objs' = [objs EXCEPT ![Receiver].state = "closed", ![Receiver].refused = TRUE]
  /\ Silence(Tail(toClient))
  /\ UNCHANGED <<conn, tables>>

\* Mutant: the entry of the name stays.
StaysRegistered(f, n) == f

\* The entry of the name goes, whatever object it has.
Deregistered(f, n) == Without(f, n)

ChannelCloseOk ==
  /\ Receive("channelCloseOk")
  /\ objs' = [objs EXCEPT ![Receiver].state = "closed"]
  /\ channels' = Without(channels, Arrived.channel)
  /\ LET o == objs[Receiver]
     IN /\ queues' = IF o.kind = "queue" THEN Deregistered(queues, o.name) ELSE queues
        /\ exchanges' = IF o.kind = "exchange" THEN Deregistered(exchanges, o.name) ELSE exchanges
  /\ Silence(Tail(toClient))
  /\ UNCHANGED conn

\* Channel 0: the socket is destroyed.
ConnectionClose ==
  /\ Receive("connectionClose")
  /\ conn' = "down"
  /\ Silence(<<>>)
  /\ UNCHANGED <<objs, tables>>

Data == ChannelOpenOk \/ DeclareOk \/ ChannelClose \/ ChannelCloseOk \/ ConnectionClose

-----------------------------------------------------------------------------
(* The connection comes and goes                                           *)

\* The network fails, or the program ends the connection.  No object is told.
End ==
  /\ conn # "down"
  /\ conn' = "down"
  /\ server' = Empty
  /\ toClient' = <<>>
  /\ UNCHANGED <<gen, channelCounter, objs, tables, default, calls, misuse, kicked>>

\* Mutant: the counter starts again with every connection.
CounterReset == 0

CounterKept == channelCounter

\* reconnect, and the 'connect' listener: new tables, everything else stays.
Connect ==
  /\ conn = "down"
  /\ gen < MaxConnects
  /\ Spent + 2 <= MaxWork
  /\ gen' = gen + 1
  /\ conn' = "start"
  /\ channels' = Empty
  /\ queues' = Empty
  /\ exchanges' = Empty
  /\ channelCounter' = CounterKept
  /\ kicked' = FALSE
  /\ UNCHANGED <<objs, default, calls, misuse, server, toClient>>

\* connectionStart, connectionTune and connectionOpenOk.
Handshake ==
  /\ conn \in {"start", "tune", "open"}
  /\ conn' = [start |-> "tune", tune |-> "open", open |-> "ready"][conn]
  /\ UNCHANGED <<gen, channelCounter, objs, tables, default, calls, misuse, broker>>

-----------------------------------------------------------------------------
Init ==
  /\ conn = "down"
  /\ gen = 0
  /\ channelCounter = 0
  /\ objs = <<>>
  /\ channels = Empty /\ queues = Empty /\ exchanges = Empty
  /\ default = 0
  /\ calls = 0
  /\ misuse = {}
  /\ server = Empty
  /\ kicked = FALSE
  /\ toClient = <<>>

Next == Call \/ Data \/ End \/ Connect \/ Handshake

Spec == Init /\ [][Next]_vars

-----------------------------------------------------------------------------
(* Properties                                                              *)

Names == QueueNames \cup ServerNames \cup ExchangeNames \cup {DefaultName}

Objects ==
  [kind : {"queue", "exchange"}, name : Names, channel : 1 .. MaxObjects, gen : 1 .. gen,
   state : {"new", "declaring", "open", "closing", "closed"}, todo : Seq({"destroy", "request"}),
   binds : Int, exchange : 0 .. Len(objs), destroys : Nat, closes : Nat,
   destroyed : BOOLEAN, refused : BOOLEAN]

Methods ==
  [channel : 0 .. MaxObjects,
   m : {"channelOpenOk", "declareOk", "channelClose", "channelCloseOk", "connectionClose"},
   name : Names \cup {""}]

Table(f, D) == DOMAIN f \subseteq D /\ \A x \in DOMAIN f : f[x] \in Ids

\* Every variable holds a value of its kind.  The number of queues an exchange
\* counts is any integer: cleanup looks only at zero, and a queue that is
\* destroyed twice is taken off twice.
TypeOK ==
  /\ conn \in {"down", "start", "tune", "open", "ready"}
  /\ gen \in 0 .. MaxConnects
  /\ channelCounter \in 0 .. MaxObjects
  /\ Len(objs) <= MaxObjects
  /\ objs \in Seq(Objects)
  /\ Table(channels, 1 .. MaxObjects) /\ Table(queues, Names) /\ Table(exchanges, Names)
  /\ default \in 0 .. Len(objs)
  /\ misuse \subseteq {"stale", "early", "late", "default"}
  /\ kicked \in BOOLEAN
  /\ server \in [DOMAIN server -> {"open", "closing"}]
  /\ toClient \in Seq(Methods)

\* The number of a channel that the broker has, or answers on, is that of one
\* object of this connection, which the table leads to: no answer is lost on
\* its way, none reaches an object of an earlier connection, and no such
\* object, which still writes to its number, writes to the channel of another.
ChannelHasOneOwner ==
  \A c \in (DOMAIN server \cup {toClient[k].channel : k \in DOMAIN toClient}) \ {0} :
    /\ c \in DOMAIN channels
    /\ objs[channels[c]].gen = gen
    /\ {i \in Ids : objs[i].channel = c} = {channels[c]}

\* How often the program has ended object i.
Ends(i) == objs[i].destroys + objs[i].closes

\* The object is usable, and the program has not ended it.
Live(i) == objs[i].gen = gen /\ objs[i].state = "open" /\ Ends(i) = 0

\* Two queue objects in use never have one name, whose messages they would
\* share, although entries are removed by name: only the second end of an
\* earlier queue of that name (destroy, then close) takes the entry of a newer
\* one away.
OneQueueOfAName ==
  \A i, j \in Ids :
    i < j /\ Live(i) /\ Live(j) /\ objs[i].kind = "queue" /\ objs[j].kind = "queue"
    /\ objs[i].name = objs[j].name
      => \E k \in 1 .. j : objs[k].name = objs[j].name /\ Ends(k) > 1

\* What queue() and exchange() return from the table is an object of this
\* connection, of that name, which is neither destroyed nor closed, unless the
\* broker closed its channel or the name is the empty one of every anonymous
\* queue.  One whose close() has no answer yet is still in the table.
EntryUsable(f, n) ==
  objs[f[n]].gen = gen /\ objs[f[n]].name = n /\ ~objs[f[n]].destroyed
  /\ (objs[f[n]].state = "closed" => objs[f[n]].refused)

\* An exchange object in use to which a queue in use is bound stays in the
\* table, so that exchange() returns it, unless some queue was destroyed twice,
\* the program ended another object of this exchange, or it used an object of an
\* earlier connection: that a queue of then is destroyed can remove the entry.
BoundStaysRegistered(q) ==
  LET x == objs[q].exchange
      Ended(i) == IF objs[i].kind = "queue" THEN objs[i].destroys > 1
                  ELSE objs[i].name = objs[x].name /\ Ends(i) > 0
  IN Live(q) /\ x # 0 /\ Live(x) =>
       \/ objs[x].name \in DOMAIN exchanges /\ exchanges[objs[x].name] = x
       \/ \E i \in Ids : Ended(i)
       \/ "stale" \in misuse

\* The tables of queues and exchanges, from which queue() and exchange() answer,
\* lead to objects that can be used, and keep the exchanges that are.
TablesHold ==
  /\ conn # "down" => \A f \in {queues, exchanges} : \A n \in DOMAIN f \ {""} : EntryUsable(f, n)
  /\ \A q \in Ids : BoundStaysRegistered(q)

\* The broker never closes the whole connection, unless the program uses an
\* object of an earlier connection, closes one that is not open yet or is
\* closed, or publishes with a default exchange of an earlier connection.
ConnectionKept == kicked => misuse # {}
=============================================================================
