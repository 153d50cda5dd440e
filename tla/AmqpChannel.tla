---------------------------- MODULE AmqpChannel -----------------------------
(***************************************************************************)
(* One channel of node-amqp: a Queue or an Exchange with its list of       *)
(* tasks, and the broker at the other end of the channel.                  *)
(*                                                                         *)
(* A task is a request that waits until the channel is open; its promise   *)
(* fires when a reply of the right method arrives.  A reply carries no     *)
(* request id, and some calls write to the channel past the task list.     *)
(*                                                                         *)
(* A call is known by its position in `calls`.  Tasks are pushed at the    *)
(* end of _tasks, so that the order of their ids is their order there.     *)
(***************************************************************************)
EXTENDS Naturals, Sequences, FiniteSets

CONSTANTS
  Kinds,      (* what the channel may be: "queue", "exchange" or "prebaked" *)
  MaxCalls    (* bound: calls made on the channel                           *)

ASSUME AmqpAssumption ==
  /\ Kinds \subseteq {"queue", "exchange", "prebaked"}
  /\ MaxCalls \in Nat

VARIABLES
  kind,       (* a queue, an exchange, or one the broker has from the start *)
  state,      (* Channel.state                                              *)
  calls,      (* history: the operations called, in order                   *)
  tasks,      (* Channel._tasks: the calls that are in the list             *)
  sent,       (* the tasks whose callback has been run                      *)
  fired,      (* the tasks whose promise has emitted success                *)
  called,     (* the open callback has been called                          *)
  uncaught,   (* _onMethod has thrown "Uncaught method"                     *)
  misuse,     (* history: close() before open, or a frame after close()     *)
  broker,     (* the channel at the broker                                  *)
  executed,   (* history: the requests the broker has executed         *)
  toServer,   (* methods on their way: [m, id]                              *)
  toClient    (* methods on their way: their names                          *)

vars == <<kind, state, calls, tasks, sent, fired, called, uncaught, misuse,
          broker, executed, toServer, toClient>>

client == <<kind, state, calls, tasks, sent, fired, called, uncaught, misuse>>

Ids == 1 .. MaxCalls

\* The calls that become a task; bind and close write to the channel at once.
TaskOps(k) == IF k = "queue" THEN {"subscribe", "subscribeAck", "unbind", "bind_headers", "destroy"}
                             ELSE {"publish", "destroy"}
Ops == TaskOps("queue") \cup TaskOps("exchange") \cup {"bind", "close"}

IsTask(op) == op \in TaskOps("queue") \cup TaskOps("exchange")

\* The reply that completes a task; publish expects none.
Reply(op) ==
  CASE op \in {"subscribe", "subscribeAck"} -> "basicConsumeOk"
    [] op = "unbind"                        -> "queueUnbindOk"
    [] op = "bind_headers"                  -> "queueBindOk"
    [] op = "destroy"                       -> "deleteOk"
    [] OTHER                                -> "none"

Methods == {"channelOpenOk", "declareOk", "channelClose", "channelCloseOk", "basicConsumeOk",
            "queueBindOk", "queueUnbindOk", "basicQosOk", "deleteOk", "basicReturn"}

-----------------------------------------------------------------------------
(* The task list                                                           *)

\* The ids of S in ascending order.
Ordered(S) ==
  {s \in [1 .. Cardinality(S) -> S] : \A j, k \in DOMAIN s : j < k => s[j] < s[k]}

Request(op, i) == [m |-> op, id |-> i]

\* Mutant: everything but a channel that is not open yet sends its tasks.
FlushesOpened(st) == st \notin {"new", "declaring"}

\* Mutant: a task is sent when it is pushed.
FlushesAlways(st) == TRUE

\* The guard of _tasksFlush.
Flushes(st) == st = "open"

\* _tasksFlush on list ts in state st after the frames `out`: the tasks that
\* have not been sent are, in order; one that expects no reply leaves the list.
TasksFlush(st, cs, ts, out) ==
  IF Flushes(st)
  THEN \E s \in Ordered(ts \ sent) :
         /\ tasks' = {i \in ts : Reply(cs[i]) # "none"}
         /\ sent' = sent \cup ts
         /\ toServer' = out \o [k \in DOMAIN s |-> Request(cs[s[k]], s[k])]
  ELSE /\ tasks' = ts
       /\ sent' = sent
       /\ toServer' = out

\* The frame of basicQos that subscribe({ack: true}) writes at once.
Written(op, i) == IF op = "subscribeAck" THEN <<Request("qos", i)>> ELSE <<>>

Closed == \E k \in DOMAIN calls : calls[k] = "close"

\* _taskPush, by the call of operation op.
Push(op) ==
  LET i == Len(calls) + 1 IN
  /\ Len(calls) < MaxCalls
  /\ calls' = Append(calls, op)
  /\ TasksFlush(state, calls', tasks \cup {i}, toServer \o Written(op, i))
  /\ misuse' = (misuse \/ (op = "subscribeAck" /\ Closed))
  /\ UNCHANGED <<kind, state, fired, called, uncaught, broker, executed, toClient>>

\* bind and close write to the channel whatever its state.
Write(op, st) ==
  /\ Len(calls) < MaxCalls
  /\ calls' = Append(calls, op)
  /\ toServer' = Append(toServer, Request(op, Len(calls) + 1))
  /\ misuse' = \/ misuse
               \/ op = "close" /\ state \in {"new", "declaring"}
               \/ Closed
  /\ state' = st
  /\ UNCHANGED <<kind, tasks, sent, fired, called, uncaught, broker, executed, toClient>>

Bind == kind = "queue" /\ Write("bind", state)

Close == Write("close", "closing")

-----------------------------------------------------------------------------
(* A method arrives                                                        *)

Method == Head(toClient)

\* The tasks that wait for method m, whether they have been sent or not.
Waiting(m) == {i \in tasks : Reply(calls[i]) = m}

\* Mutant: the task that was pushed last.
MatchesLast(S) == {CHOOSE i \in S : \A j \in S : j <= i}

\* The first of the tasks that match.
Matches(S) == {CHOOSE i \in S : \A j \in S : i <= j}

Receive ==
  /\ toClient # <<>>
  /\ toClient' = Tail(toClient)
  /\ UNCHANGED <<kind, calls, misuse, broker, executed>>

\* _handleTaskReply: the task leaves the list, its promise fires, the list is
\* flushed.
HandleTaskReply ==
  /\ Receive
  /\ Waiting(Method) # {}
  /\ fired' = fired \cup Matches(Waiting(Method))
  /\ TasksFlush(state, calls, tasks \ Matches(Waiting(Method)), toServer)
  /\ UNCHANGED <<state, called, uncaught>>

\* _onMethod of a method no task waits for.  The list is flushed after it.
OnMethod(m, st, cb, out) ==
  /\ Receive
  /\ Waiting(Method) = {}
  /\ Method = m
  /\ state' = st
  /\ called' = (called \/ cb)
  /\ TasksFlush(st, calls, tasks, out)
  /\ UNCHANGED <<fired, uncaught>>

\* A queue or an exchange is declared; one that the broker has is open.
ChannelOpenOk ==
  IF kind = "prebaked"
  THEN OnMethod("channelOpenOk", "open", FALSE, toServer)
  ELSE OnMethod("channelOpenOk", "declaring", FALSE, Append(toServer, Request("declare", 0)))

\* Mutants: an exchange is open when it asks to be declared; the state is set
\* for queues only.
DeclaredQueue(k) == IF k = "queue" THEN "open" ELSE "declaring"
DeclaredTypo(k) == "opened"

\* The state after a declareOk.
Declared(k) == "open"

DeclareOk == OnMethod("declareOk", Declared(kind), TRUE, toServer)

\* The broker has closed the channel because of an error.  No closeOk is sent.
ChannelClose == OnMethod("channelClose", "closed", FALSE, toServer)

CloseOk == OnMethod("channelCloseOk", "closed", FALSE, toServer)

\* The methods _onMethod has an empty case for.
Ignored(k) == IF k = "queue" THEN {"basicConsumeOk", "queueBindOk", "basicQosOk", "deleteOk"}
                             ELSE {"basicReturn"}

\* Any other method: the default of _onMethod throws.
OtherMethod ==
  /\ Receive
  /\ Waiting(Method) = {}
  /\ Method \notin {"channelOpenOk", "declareOk", "channelClose", "channelCloseOk"}
  /\ uncaught' = (uncaught \/ Method \notin Ignored(kind))
  /\ TasksFlush(state, calls, tasks, toServer)
  /\ UNCHANGED <<state, fired, called>>

-----------------------------------------------------------------------------
(* The broker, as amqp.js uses it                                          *)

\* What the broker replies to a request it executes.
Replies(op) ==
  CASE op = "declare" -> {<<"declareOk">>}
    [] op = "bind"    -> {<<"queueBindOk">>}
    [] op = "qos"     -> {<<"basicQosOk">>}
    [] op = "publish" -> {<<>>, <<"basicReturn">>}
    [] OTHER          -> {<<Reply(op)>>}

Serve(phase) ==
  /\ broker = phase
  /\ toServer # <<>>
  /\ toServer' = Tail(toServer)
  /\ UNCHANGED client

Asked == Head(toServer).m

BrokerOpens ==
  /\ Serve("idle")
  /\ broker' = "open"
  /\ toClient' = Append(toClient, "channelOpenOk")
  /\ UNCHANGED executed

BrokerExecutes ==
  /\ Serve("open")
  /\ Asked # "close"
  /\ executed' = Append(executed, Head(toServer))
  /\ \E r \in Replies(Asked) : toClient' = toClient \o r
  /\ UNCHANGED broker

\* A request that fails closes the channel.
BrokerRefuses ==
  /\ Serve("open")
  /\ Asked # "close"
  /\ broker' = "closing"
  /\ toClient' = Append(toClient, "channelClose")
  /\ UNCHANGED executed

\* A channel that waits for a closeOk discards everything but a close.
BrokerDiscards ==
  /\ Serve("closing")
  /\ Asked # "close"
  /\ UNCHANGED <<broker, executed, toClient>>

BrokerCloses ==
  /\ Serve("open") \/ Serve("closing")
  /\ Asked = "close"
  /\ broker' = "closed"
  /\ toClient' = Append(toClient, "channelCloseOk")
  /\ UNCHANGED executed

\* A frame on a channel that is closed is an error of the connection: all of
\* its channels go.
BrokerKicks ==
  /\ Serve("closed")
  /\ broker' = "kicked"
  /\ UNCHANGED <<executed, toClient>>

\* The connection breaks and takes what is on its way with it.  The channel is
\* not told.
Broken == broker \in {"kicked", "gone"}
Break ==
  /\ ~Broken
  /\ broker' = "gone"
  /\ toServer' = <<>>
  /\ toClient' = <<>>
  /\ UNCHANGED <<client, executed>>

-----------------------------------------------------------------------------
\* The constructor writes channelOpen.
Init ==
  /\ kind \in Kinds
  /\ state = "new"
  /\ calls = <<>>
  /\ tasks = {}
  /\ sent = {}
  /\ fired = {}
  /\ called = FALSE
  /\ uncaught = FALSE
  /\ misuse = FALSE
  /\ broker = "idle"
  /\ executed = <<>>
  /\ toServer = <<Request("channelOpen", 0)>>
  /\ toClient = <<>>

Calls == (\E op \in TaskOps(kind) : Push(op)) \/ Bind \/ Close

Data == HandleTaskReply \/ ChannelOpenOk \/ DeclareOk \/ ChannelClose \/ CloseOk
        \/ OtherMethod

Broker == BrokerOpens \/ BrokerExecutes \/ BrokerRefuses \/ BrokerDiscards
          \/ BrokerCloses \/ BrokerKicks

Next == Calls \/ Data \/ Broker \/ Break

Spec == Init /\ [][Next]_vars

FairSpec == Spec /\ WF_vars(Data) /\ WF_vars(Broker)
-----------------------------------------------------------------------------
(* Properties                                                              *)

\* Every variable holds a value of its kind; a call that has been sent or has
\* fired is a task, and one that is sent and waits has a reply to wait for.
TypeOK ==
  /\ kind \in Kinds
  /\ state \in {"new", "declaring", "open", "closing", "closed"}
  /\ calls \in Seq(TaskOps(kind) \cup {"bind", "close"}) /\ Len(calls) <= MaxCalls
  /\ tasks \cup sent \cup fired \subseteq {i \in 1 .. Len(calls) : IsTask(calls[i])}
  /\ \A i \in tasks \cap sent : Reply(calls[i]) # "none"
  /\ {called, uncaught, misuse} \subseteq BOOLEAN
  /\ broker \in {"idle", "open", "closing", "closed", "kicked", "gone"}
  /\ executed \in Seq([m : Ops \cup {"declare", "qos"}, id : 0 .. Len(calls)])
  /\ toServer \in Seq([m : Ops \cup {"channelOpen", "declare", "qos"}, id : 0 .. Len(calls)])
  /\ toClient \in Seq(Methods)

Executed(m, i) == \E k \in DOMAIN executed : executed[k] = Request(m, i)

\* A promise fires only when the broker has executed its own request, although
\* no reply says which request it answers.  bind_headers is the exception: the
\* queueBindOk of an earlier bind, which is no task, completes it.
FiredWasExecuted ==
  \A i \in fired :
    \/ Executed(calls[i], i)
    \/ calls[i] = "bind_headers" /\ \E j \in 1 .. Len(calls) : Executed("bind", j)

\* The broker executes the tasks of a channel in the order in which they were
\* called, each at most once, and none before the queue or exchange has been
\* declared, however early they were called.
IssueOrder ==
  \A k \in DOMAIN executed :
    IsTask(executed[k].m) =>
      /\ \A j \in 1 .. k - 1 : IsTask(executed[j].m) => executed[j].id < executed[k].id
      /\ kind = "prebaked" \/ \E j \in 1 .. k - 1 : executed[j].m = "declare"

\* The client never writes a frame to a channel that the broker has closed,
\* which would cost it the whole connection, unless the program closes the
\* channel before it is open, or binds, subscribes with ack or closes after a
\* close; and no reply the broker sends reaches the default case of _onMethod,
\* which throws into the data listener of the connection.
ConnectionKept ==
  /\ broker = "kicked" => misuse
  /\ ~uncaught

\* What keeps a task from its reply: the channel or the connection is closed.
\* Nobody tells the promise.
Excused == state \in {"closing", "closed"} \/ Broken

\* Every task leaves the list, sent or answered, and the open callback of a
\* queue or exchange that asked to be declared is called.  That of a prebaked
\* exchange, which the broker does not declare, never is.
TasksComplete ==
  /\ \A i \in Ids : i \in tasks ~> (i \notin tasks \/ Excused)
  /\ state = "declaring" ~> (called \/ Excused)
=============================================================================
