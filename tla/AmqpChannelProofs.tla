-------------------------- MODULE AmqpChannelProofs --------------------------
(***************************************************************************)
(* Proofs about AmqpChannel, for every kind of channel and any number of   *)
(* calls.                                                                  *)
(*                                                                         *)
(* No reply carries a request id.  The inductive invariant says why the    *)
(* client's guess is right: the requests of the tasks are executed, on     *)
(* their way and to be sent in the order of the calls, and the replies on  *)
(* their way can be paired, in order, with tasks that have been executed.  *)
(***************************************************************************)
EXTENDS AmqpChannel, FiniteSetTheorems, SequenceTheorems, WellFoundedInduction, TLAPS

-----------------------------------------------------------------------------
(* The inductive invariant                                                 *)

\* Frames that may be on their way, and those the broker may execute.
Frames(n) == [m : Ops \cup {"channelOpen", "declare", "qos"}, id : 0 .. n]
Executable(n) == [m : Ops \cup {"declare", "qos"}, id : 0 .. n]

\* The part of TypeOK that is about the calls cs, the tasks tk of which sn have
\* been sent, the requests ex that have been executed, the frames ts and the
\* methods tc on their way.
Typed(cs, tk, sn, ex, ts, tc) ==
  /\ cs \in Seq(TaskOps(kind) \cup {"bind", "close"}) /\ Len(cs) <= MaxCalls
  /\ tk \cup sn \subseteq {i \in 1 .. Len(cs) : IsTask(cs[i])}
  /\ \A i \in tk \cap sn : Reply(cs[i]) # "none"
  /\ ex \in Seq(Executable(Len(cs)))
  /\ ts \in Seq(Frames(Len(cs)))
  /\ tc \in Seq(Methods)

\* m is one of the frames ts, or of the methods tc.
OnWay(m, ts) == \E i \in DOMAIN ts : ts[i].m = m
Coming(m, tc) == \E i \in DOMAIN tc : tc[i] = m

\* The handshake is at one place at most: channelOpen, its reply, the declare
\* of a queue or exchange the broker does not have, its reply.
Handshake(b, ts, tc) ==
  /\ b = "idle" => tc = <<>> /\ ts # <<>> /\ ts[1].m = "channelOpen" /\ ~OnWay("declare", ts)
  /\ \A i \in DOMAIN ts : ts[i].m = "channelOpen" => i = 1 /\ b = "idle"
  /\ \A i, j \in DOMAIN ts : ts[i].m = "declare" /\ ts[j].m = "declare" => i = j
  /\ \A i \in DOMAIN tc : tc[i] = "channelOpenOk" => i = 1
  /\ \A i, j \in DOMAIN tc : tc[i] = "declareOk" /\ tc[j] = "declareOk" => i = j
  /\ Coming("channelOpenOk", tc) => ~OnWay("declare", ts) /\ ~Coming("declareOk", tc)
  /\ OnWay("declare", ts) => ~Coming("declareOk", tc)
  /\ OnWay("declare", ts) \/ Coming("declareOk", tc) => kind # "prebaked"

\* The tasks that were sent are those executed, then those on their way.
Ascending(cs, tk, sn, ex, ts) ==
  /\ \A k \in DOMAIN ex : IsTask(ex[k].m) => ex[k].id \in sn /\ ex[k].m = cs[ex[k].id]
  /\ \A k \in DOMAIN ts : IsTask(ts[k].m) => ts[k].id \in sn /\ ts[k].m = cs[ts[k].id]
  /\ \A j, k \in DOMAIN ts : j < k /\ IsTask(ts[j].m) /\ IsTask(ts[k].m) => ts[j].id < ts[k].id
  /\ \A j \in DOMAIN ex, k \in DOMAIN ts : IsTask(ex[j].m) /\ IsTask(ts[k].m) => ex[j].id < ts[k].id
  /\ \A i \in sn, j \in tk \ sn : i < j

Among(x, ex) == \E k \in DOMAIN ex : ex[k] = x

\* Replies m complete tasks that wait for them, and come to no other request.
Expected(m, ex) ==
  \/ m \in {"basicConsumeOk", "queueUnbindOk", "deleteOk"}
  \/ m = "queueBindOk" /\ ~OnWay("bind", ex)

\* While the broker executes requests, none that was sent is lost; a task is
\* executed after those called before it that still wait; and a task that waits
\* is in the list until it is executed.
Served(cs, tk, sn, b, ex, ts) ==
  /\ b = "open" => \A i \in sn : Among(Request(cs[i], i), ex) \/ Among(Request(cs[i], i), ts)
  /\ \A i \in sn, j \in tk :
       j < i /\ Among(Request(cs[i], i), ex) => Among(Request(cs[j], j), ex)
  /\ \A i \in sn : Expected(Reply(cs[i]), ex) => i \in tk \/ Among(Request(cs[i], i), ex)

\* w pairs the replies on their way with tasks that they complete.
Pairs(w, cs, tk, ex, tc) ==
  /\ \A k \in DOMAIN tc :
       Expected(tc[k], ex) =>
         w[k] \in tk /\ Reply(cs[w[k]]) = tc[k] /\ Among(Request(cs[w[k]], w[k]), ex)
  /\ \A j, k \in DOMAIN tc : j < k /\ tc[j] = tc[k] /\ Expected(tc[j], ex) => w[j] < w[k]

Paired(cs, tk, ex, tc) == \E w \in [DOMAIN tc -> 0 .. MaxCalls] : Pairs(w, cs, tk, ex, tc)

\* Only a queue has bind, qos and the replies that an exchange would throw at;
\* requests that are no tasks name the call that wrote them.
Plain(cs, ex, ts, tc) ==
  /\ \A k \in DOMAIN tc :
       kind # "queue" => tc[k] \in {"channelOpenOk", "declareOk", "channelClose",
                                    "channelCloseOk", "deleteOk", "basicReturn"}
  /\ \A k \in DOMAIN tc : kind = "queue" => tc[k] # "basicReturn"
  /\ \A k \in DOMAIN ts :
       /\ ts[k].m \in {"bind", "qos"} => kind = "queue"
       /\ ts[k].m \in {"bind", "close"} => ts[k].id \in 1 .. Len(cs)
  /\ \A k \in DOMAIN ex : ex[k].m = "bind" => ex[k].id \in 1 .. Len(cs)

Wire(cs, tk, sn, b, ex, ts, tc) ==
  /\ Typed(cs, tk, sn, ex, ts, tc)
  /\ Handshake(b, ts, tc)
  /\ Ascending(cs, tk, sn, ex, ts)
  /\ Served(cs, tk, sn, b, ex, ts)
  /\ Paired(cs, tk, ex, tc)
  /\ Plain(cs, ex, ts, tc)

\* The channel may be opened yet.
ToOpen(b, ts, tc) ==
  b = "idle" \/ Coming("channelOpenOk", tc) \/ OnWay("declare", ts) \/ Coming("declareOk", tc)

Ready(ex) == kind = "prebaked" \/ OnWay("declare", ex)

\* Until the channel is open no task is sent, and then it has been declared.
Opening(st, sn, b, ex, ts, tc) ==
  /\ ToOpen(b, ts, tc) => sn = {} /\ st # "open"
  /\ st = "open" => Ready(ex)
  /\ sn # {} => Ready(ex)
  /\ Coming("declareOk", tc) => Ready(ex)

AllSent == state = "open" => tasks \subseteq sent

\* The end of the channel: after a channelClose the broker only answers a close.
Ending ==
  /\ \A i \in DOMAIN toClient :
       toClient[i] = "channelClose" =>
         /\ broker \notin {"idle", "open"}
         /\ \A j \in DOMAIN toClient : i < j => toClient[j] = "channelCloseOk"
  /\ ~Closed =>
       /\ ~OnWay("close", toServer)
       /\ broker \notin {"closed", "kicked"}
       /\ state # "closing"
       /\ ~Coming("channelCloseOk", toClient)
       /\ state = "closed" => broker \notin {"idle", "open"} /\ toClient = <<>>

\* Of a program that closes the channel when it is open, and uses it no more.
Orderly ==
  ~misuse =>
    /\ broker # "kicked"
    /\ Closed =>
         /\ state \in {"closing", "closed"}
         /\ broker # "idle"
         /\ ~Coming("channelOpenOk", toClient) /\ ~Coming("declareOk", toClient)
         /\ OnWay("declare", toServer) => broker # "open"
         /\ broker = "closed" => toServer = <<>>
         /\ broker \in {"open", "closing"} =>
              /\ toServer # <<>>
              /\ \A k \in DOMAIN toServer : toServer[k].m = "close" <=> k = Len(toServer)

IInv ==
  /\ TypeOK
  /\ Wire(calls, tasks, sent, broker, executed, toServer, toClient)
  /\ Opening(state, sent, broker, executed, toServer, toClient)
  /\ AllSent
  /\ Ending
  /\ Orderly
  /\ IssueOrder
  /\ FiredWasExecuted
  /\ ~uncaught

-----------------------------------------------------------------------------
(* Sequences                                                               *)

LEMMA AppendIs ==
  ASSUME NEW S, NEW s \in Seq(S), NEW x \in S
  PROVE  /\ Append(s, x) \in Seq(S) /\ Len(Append(s, x)) = Len(s) + 1
         /\ DOMAIN Append(s, x) = 1 .. Len(s) + 1
         /\ DOMAIN s = 1 .. Len(s) /\ Len(s) \in Nat
         /\ \A i \in DOMAIN s : i \in DOMAIN Append(s, x) /\ Append(s, x)[i] = s[i]
         /\ \A i \in DOMAIN Append(s, x) :
              (i \in DOMAIN s /\ Append(s, x)[i] = s[i]) \/ (Append(s, x)[i] = x /\ i = Len(s) + 1)
         /\ Len(s) + 1 \in DOMAIN Append(s, x) /\ Append(s, x)[Len(s) + 1] = x
<1>1. /\ Append(s, x) \in Seq(S) /\ Len(Append(s, x)) = Len(s) + 1 /\ Len(s) \in Nat
      /\ DOMAIN s = 1 .. Len(s) /\ DOMAIN Append(s, x) = 1 .. Len(Append(s, x))
      /\ \A i \in 1 .. Len(s) : Append(s, x)[i] = s[i]
      /\ Append(s, x)[Len(s) + 1] = x
  OBVIOUS
<1>2. QED
  BY <1>1

LEMMA TailIs ==
  ASSUME NEW S, NEW s \in Seq(S), s # <<>>
  PROVE  /\ Head(s) \in S /\ Tail(s) \in Seq(S) /\ Head(s) = s[1]
         /\ Len(s) \in Nat \ {0} /\ DOMAIN s = 1 .. Len(s) /\ 1 \in DOMAIN s
         /\ DOMAIN Tail(s) = 1 .. Len(s) - 1 /\ Len(Tail(s)) = Len(s) - 1
         /\ \A i \in DOMAIN Tail(s) : i + 1 \in DOMAIN s /\ i + 1 # 1 /\ Tail(s)[i] = s[i + 1]
         /\ \A i \in DOMAIN s : i = 1 \/ (i - 1 \in DOMAIN Tail(s) /\ Tail(s)[i - 1] = s[i])
<1>1. /\ Head(s) \in S /\ Tail(s) \in Seq(S) /\ Len(Tail(s)) = Len(s) - 1
      /\ \A i \in 1 .. Len(Tail(s)) : Tail(s)[i] = s[i + 1]
  BY HeadTailProperties
<1>2. Len(s) \in Nat \ {0} /\ DOMAIN s = 1 .. Len(s) /\ Head(s) = s[1]
  BY EmptySeq
<1>3. DOMAIN Tail(s) = 1 .. Len(s) - 1
  BY <1>1, LenProperties
<1>4. QED
  BY <1>1, <1>2, <1>3

LEMMA Constants ==
  /\ MaxCalls \in Nat
  /\ \A x \in Kinds : x \in {"queue", "exchange", "prebaked"}
BY AmqpAssumption DEF AmqpAssumption

-----------------------------------------------------------------------------
(* Operations and their replies                                            *)

LEMMA TasksAre ==
  /\ \A op : IsTask(op) <=> op \in {"subscribe", "subscribeAck", "unbind", "bind_headers",
                                    "destroy", "publish"}
  /\ \A op : op \in Ops <=> IsTask(op) \/ op \in {"bind", "close"}
  /\ \A op : op \in TaskOps(kind) => IsTask(op)
  /\ \A op \in TaskOps(kind) : kind # "queue" => op \in {"publish", "destroy"}
  /\ \A op \in TaskOps(kind) : kind = "queue" => op # "publish"
BY DEF IsTask, TaskOps, Ops

LEMMA ReplyOf ==
  /\ \A op : op \in {"subscribe", "subscribeAck"} => Reply(op) = "basicConsumeOk"
  /\ \A op : op = "unbind" => Reply(op) = "queueUnbindOk"
  /\ \A op : op = "bind_headers" => Reply(op) = "queueBindOk"
  /\ \A op : op = "destroy" => Reply(op) = "deleteOk"
  /\ \A op : op \notin {"subscribe", "subscribeAck", "unbind", "bind_headers", "destroy"}
               => Reply(op) = "none"
BY Zenon DEF Reply

LEMMA ReplyMeans ==
  ASSUME NEW op
  PROVE  /\ Reply(op) \in {"basicConsumeOk", "queueUnbindOk", "queueBindOk", "deleteOk", "none"}
         /\ Reply(op) = "queueBindOk" <=> op = "bind_headers"
         /\ Reply(op) # "none" => IsTask(op)
BY ReplyOf, TasksAre

\* What the broker replies.
LEMMA RepliesOf ==
  ASSUME NEW op, NEW r \in Replies(op)
  PROVE  /\ op = "declare" => r = <<"declareOk">>
         /\ op = "bind" => r = <<"queueBindOk">>
         /\ op = "qos" => r = <<"basicQosOk">>
         /\ op = "publish" => r \in {<<>>, <<"basicReturn">>}
         /\ op \notin {"declare", "bind", "qos", "publish"} => r = <<Reply(op)>>
BY Zenon DEF Replies

LEMMA FramesGrow ==
  ASSUME NEW n \in Nat
  PROVE  Frames(n) \subseteq Frames(n + 1) /\ Executable(n) \subseteq Executable(n + 1)
<1> DEFINE a == 0 .. n
           b == 0 .. n + 1
           F == Ops \cup {"channelOpen", "declare", "qos"}
           E == Ops \cup {"declare", "qos"}
<1>1. a \subseteq b
  OBVIOUS
<1>2. Frames(n) = [m : F, id : a] /\ Frames(n + 1) = [m : F, id : b]
  BY DEF Frames
<1>3. Executable(n) = [m : E, id : a] /\ Executable(n + 1) = [m : E, id : b]
  BY DEF Executable
<1> HIDE DEF a, b, F, E
<1>4. [m : F, id : a] \subseteq [m : F, id : b] /\ [m : E, id : a] \subseteq [m : E, id : b]
  BY <1>1
<1>5. QED
  BY <1>2, <1>3, <1>4

LEMMA FrameIs ==
  ASSUME NEW n \in Nat, NEW x \in Frames(n)
  PROVE  /\ x.m \in Ops \cup {"channelOpen", "declare", "qos"}
         /\ x.id \in Nat /\ x.id <= n
         /\ x = Request(x.m, x.id)
         /\ x.m # "channelOpen" => x \in Executable(n)
BY DEF Frames, Executable, Request

LEMMA ExecutableIs ==
  ASSUME NEW n \in Nat, NEW x \in Executable(n)
  PROVE  /\ x.id \in Nat /\ x.id <= n
         /\ x = Request(x.m, x.id)
         /\ x.m \in Ops \cup {"declare", "qos"}
BY DEF Executable, Request

LEMMA RequestIs ==
  ASSUME NEW op, NEW i
  PROVE  Request(op, i).m = op /\ Request(op, i).id = i
BY DEF Request

-----------------------------------------------------------------------------
(* A call is made                                                          *)

LEMMA CallAdded ==
  ASSUME NEW cs, NEW tk, NEW sn, NEW b, NEW ex, NEW ts, NEW tc, NEW op,
         Wire(cs, tk, sn, b, ex, ts, tc),
         op \in TaskOps(kind) \cup {"bind", "close"}, Len(cs) < MaxCalls
  PROVE  Wire(Append(cs, op), tk, sn, b, ex, ts, tc)
<1> DEFINE S == TaskOps(kind) \cup {"bind", "close"}
           new == Append(cs, op)
<1>1. cs \in Seq(S) /\ op \in S /\ Typed(cs, tk, sn, ex, ts, tc)
  BY DEF Wire, Typed
<1> HIDE DEF S
<1>2. /\ new \in Seq(S) /\ Len(new) = Len(cs) + 1 /\ Len(cs) \in Nat /\ DOMAIN cs = 1 .. Len(cs)
      /\ DOMAIN new = 1 .. Len(cs) + 1
      /\ \A i \in DOMAIN cs : i \in DOMAIN new /\ new[i] = cs[i]
  BY <1>1, AppendIs
<1> HIDE DEF new
<1>3. \A i \in tk \cup sn : i \in DOMAIN cs /\ new[i] = cs[i] /\ IsTask(cs[i]) /\ i \in 1 .. Len(new)
  BY <1>1, <1>2 DEF Typed
<1>4. Typed(new, tk, sn, ex, ts, tc)
  <2>1. new \in Seq(TaskOps(kind) \cup {"bind", "close"}) /\ Len(new) <= MaxCalls
    BY <1>2, Constants DEF S
  <2>2. tk \cup sn \subseteq {i \in 1 .. Len(new) : IsTask(new[i])}
    BY <1>3
  <2>3. \A i \in tk \cap sn : Reply(new[i]) # "none"
    BY <1>1, <1>3 DEF Typed
  <2>4. ex \in Seq(Executable(Len(new))) /\ ts \in Seq(Frames(Len(new)))
    BY <1>1, <1>2, FramesGrow, SeqMonotonic DEF Typed
  <2>5. QED
    BY <1>1, <2>1, <2>2, <2>3, <2>4 DEF Typed
<1>5. Ascending(new, tk, sn, ex, ts)
  BY <1>3 DEF Wire, Ascending
<1>6. Served(new, tk, sn, b, ex, ts)
  BY <1>3 DEF Wire, Served
<1>7. Paired(new, tk, ex, tc)
  <2>1. PICK w \in [DOMAIN tc -> 0 .. MaxCalls] : Pairs(w, cs, tk, ex, tc)
    BY DEF Wire, Paired
  <2>2. Pairs(w, new, tk, ex, tc)
    BY <2>1, <1>3 DEF Pairs
  <2>3. QED
    BY <2>2 DEF Paired
<1>8. Plain(new, ex, ts, tc)
  BY <1>2 DEF Wire, Plain
<1>9. QED
  BY <1>4, <1>5, <1>6, <1>7, <1>8 DEF Wire, new

\* A task that is called last is pushed at the end of the list.
LEMMA TaskAdded ==
  ASSUME NEW cs, NEW tk, NEW sn, NEW b, NEW ex, NEW ts, NEW tc, NEW i,
         Wire(cs, tk, sn, b, ex, ts, tc),
         i \in 1 .. Len(cs), IsTask(cs[i]), \A j \in sn : j < i
  PROVE  Wire(cs, tk \cup {i}, sn, b, ex, ts, tc)
<1>1. i \notin sn /\ i \in Nat /\ \A j \in sn : j \in Nat
  BY DEF Wire, Typed
<1>2. Typed(cs, tk \cup {i}, sn, ex, ts, tc)
  BY <1>1 DEF Wire, Typed
<1>3. Ascending(cs, tk \cup {i}, sn, ex, ts)
  BY <1>1 DEF Wire, Ascending
<1>4. Served(cs, tk \cup {i}, sn, b, ex, ts)
  BY <1>1 DEF Wire, Served
<1>5. Paired(cs, tk \cup {i}, ex, tc)
  BY DEF Wire, Paired, Pairs
<1>6. QED
  BY <1>2, <1>3, <1>4, <1>5 DEF Wire

\* A frame that is no task is written at once.
LEMMA FrameAdded ==
  ASSUME NEW cs, NEW tk, NEW sn, NEW b, NEW ex, NEW ts, NEW tc, NEW x,
         Wire(cs, tk, sn, b, ex, ts, tc),
         x \in Frames(Len(cs)), x.m \in {"bind", "close", "qos"},
         x.m \in {"bind", "qos"} => kind = "queue",
         x.m \in {"bind", "close"} => x.id \in 1 .. Len(cs)
  PROVE  Wire(cs, tk, sn, b, ex, Append(ts, x), tc)
<1> DEFINE F == Frames(Len(cs))
           new == Append(ts, x)
<1>1. ts \in Seq(F) /\ x \in F
  BY DEF Wire, Typed
<1> HIDE DEF F
<1>2. /\ new \in Seq(F) /\ DOMAIN new = 1 .. Len(ts) + 1
      /\ DOMAIN ts = 1 .. Len(ts) /\ Len(ts) \in Nat
      /\ \A i \in DOMAIN ts : i \in DOMAIN new /\ new[i] = ts[i]
      /\ \A i \in DOMAIN new : (i \in DOMAIN ts /\ new[i] = ts[i]) \/ (new[i] = x /\ i = Len(ts) + 1)
  BY <1>1, AppendIs
<1> HIDE DEF new
<1>3. ~IsTask(x.m)
  BY TasksAre
<1>4. Typed(cs, tk, sn, ex, new, tc)
  BY <1>2 DEF Wire, Typed, F
<1>5. Handshake(b, new, tc)
  <2>1. b = "idle" => ts # <<>> /\ 1 \in DOMAIN ts /\ new # <<>>
    BY <1>1, <1>2, EmptySeq DEF Wire, Handshake
  <2>2. OnWay("declare", new) => OnWay("declare", ts)
    BY <1>2 DEF OnWay
  <2>3. \A i \in DOMAIN new : new[i].m \in {"channelOpen", "declare"} => i \in DOMAIN ts /\ new[i] = ts[i]
    BY <1>2
  <2>4. QED
    BY <1>2, <2>1, <2>2, <2>3 DEF Wire, Handshake
<1>6. Ascending(cs, tk, sn, ex, new)
  <2>1. \A i \in DOMAIN new : IsTask(new[i].m) => i \in DOMAIN ts /\ new[i] = ts[i]
    BY <1>2, <1>3
  <2>2. QED
    BY <2>1 DEF Wire, Ascending
<1>7. Served(cs, tk, sn, b, ex, new)
  <2>1. \A y : Among(y, ts) => Among(y, new)
    BY <1>2 DEF Among
  <2>2. QED
    BY <2>1 DEF Wire, Served
<1>8. Plain(cs, ex, new, tc)
  BY <1>2 DEF Wire, Plain
<1>9. QED
  BY <1>4, <1>5, <1>6, <1>7, <1>8 DEF Wire, new


-----------------------------------------------------------------------------
(* A method arrives                                                        *)

\* The methods that follow the first.
LEMMA MethodTaken ==
  ASSUME NEW cs, NEW tk, NEW sn, NEW b, NEW ex, NEW ts, NEW tc,
         Wire(cs, tk, sn, b, ex, ts, tc), tc # <<>>
  PROVE  /\ Wire(cs, tk, sn, b, ex, ts, Tail(tc))
         /\ \A m : Coming(m, Tail(tc)) => Coming(m, tc)
         /\ Coming(Head(tc), tc) /\ Head(tc) \in Methods
         /\ b # "idle"
         /\ Head(tc) \in {"channelOpenOk", "declareOk"} =>
              /\ ~ToOpen(b, ts, Tail(tc))
              /\ ToOpen(b, ts, tc)
         /\ \A i \in DOMAIN Tail(tc) : i + 1 \in DOMAIN tc /\ i + 1 # 1 /\ Tail(tc)[i] = tc[i + 1]
         /\ Head(tc) = tc[1] /\ 1 \in DOMAIN tc
<1> DEFINE new == Tail(tc)
<1>1. /\ Head(tc) \in Methods /\ new \in Seq(Methods) /\ Head(tc) = tc[1]
      /\ Len(tc) \in Nat \ {0} /\ DOMAIN tc = 1 .. Len(tc) /\ 1 \in DOMAIN tc
      /\ DOMAIN new = 1 .. Len(tc) - 1
      /\ \A i \in DOMAIN new : i + 1 \in DOMAIN tc /\ i + 1 # 1 /\ new[i] = tc[i + 1]
  BY TailIs DEF Wire, Typed
<1> HIDE DEF new
<1>2. \A m : Coming(m, new) => Coming(m, tc)
  BY <1>1 DEF Coming
<1>3. b # "idle"
  BY DEF Wire, Handshake
<1>4. Typed(cs, tk, sn, ex, ts, new)
  BY <1>1 DEF Wire, Typed
<1>5. Handshake(b, ts, new)
  <2>1. \A i \in DOMAIN new : new[i] # "channelOpenOk"
    BY <1>1 DEF Wire, Handshake
  <2>2. \A i, j \in DOMAIN new : new[i] = "declareOk" /\ new[j] = "declareOk" => i = j
    <3>1. \A i, j \in DOMAIN tc : tc[i] = "declareOk" /\ tc[j] = "declareOk" => i = j
      BY DEF Wire, Handshake
    <3>2. \A i \in DOMAIN new : i \in Int
      BY <1>1
    <3>3. QED
      BY <1>1, <3>1, <3>2
  <2>3. QED
    BY <1>2, <1>3, <2>1, <2>2 DEF Wire, Handshake
<1>6. Paired(cs, tk, ex, new)
  <2>1. PICK w \in [DOMAIN tc -> 0 .. MaxCalls] : Pairs(w, cs, tk, ex, tc)
    BY DEF Wire, Paired
  <2> DEFINE v == [i \in DOMAIN new |-> w[i + 1]]
  <2>2. v \in [DOMAIN new -> 0 .. MaxCalls]
    BY <1>1, <2>1
  <2>3. \A i \in DOMAIN new : v[i] = w[i + 1] /\ i \in Int
    BY <1>1
  <2> HIDE DEF v
  <2>4. Pairs(v, cs, tk, ex, new)
    <3>1. ASSUME NEW k \in DOMAIN new, Expected(new[k], ex)
          PROVE  v[k] \in tk /\ Reply(cs[v[k]]) = new[k] /\ Among(Request(cs[v[k]], v[k]), ex)
      BY <1>1, <2>1, <2>3, <3>1 DEF Pairs
    <3>2. ASSUME NEW j \in DOMAIN new, NEW k \in DOMAIN new,
                 j < k, new[j] = new[k], Expected(new[j], ex)
          PROVE  v[j] < v[k]
      <4>1. j + 1 < k + 1 /\ tc[j + 1] = tc[k + 1] /\ Expected(tc[j + 1], ex)
        BY <1>1, <2>3, <3>2
      <4>2. QED
        BY <1>1, <2>1, <2>3, <4>1 DEF Pairs
    <3>3. QED
      BY <3>1, <3>2 DEF Pairs
  <2>5. QED
    BY <2>2, <2>4 DEF Paired
<1>7. Plain(cs, ex, ts, new)
  BY <1>1 DEF Wire, Plain
<1>8. Coming(Head(tc), tc)
  BY <1>1 DEF Coming
<1>9. Head(tc) \in {"channelOpenOk", "declareOk"} => ~ToOpen(b, ts, new) /\ ToOpen(b, ts, tc)
  <2>1. CASE Head(tc) = "channelOpenOk"
    <3>1. Coming("channelOpenOk", tc)
      BY <1>8, <2>1
    <3>2. ~OnWay("declare", ts) /\ ~Coming("declareOk", tc)
      BY <3>1 DEF Wire, Handshake
    <3>3. ~Coming("channelOpenOk", new)
      BY <1>1 DEF Wire, Handshake, Coming
    <3>4. QED
      BY <1>2, <1>3, <3>1, <3>2, <3>3 DEF ToOpen
  <2>2. CASE Head(tc) = "declareOk"
    <3>1. Coming("declareOk", tc)
      BY <1>8, <2>2
    <3>2. ~OnWay("declare", ts) /\ ~Coming("channelOpenOk", tc)
      BY <3>1 DEF Wire, Handshake
    <3>3. ~Coming("declareOk", new)
      <4>1. ASSUME NEW i \in DOMAIN new, new[i] = "declareOk" PROVE FALSE
        <5>1. tc[i + 1] = "declareOk" /\ tc[1] = "declareOk" /\ i + 1 # 1 /\ i + 1 \in DOMAIN tc
          BY <1>1, <2>2, <4>1
        <5>2. QED
          BY <1>1, <5>1 DEF Wire, Handshake
      <4>2. QED
        BY <4>1 DEF Coming
    <3>4. QED
      BY <1>2, <1>3, <3>1, <3>2, <3>3 DEF ToOpen
  <2>3. QED
    BY <2>1, <2>2
<1>10. QED
  BY <1>1, <1>2, <1>3, <1>4, <1>5, <1>6, <1>7, <1>8, <1>9 DEF Wire, new

\* The declare is written when channelOpenOk has come.
LEMMA DeclareAdded ==
  ASSUME NEW cs, NEW tk, NEW sn, NEW b, NEW ex, NEW ts, NEW tc,
         Wire(cs, tk, sn, b, ex, ts, tc), ~ToOpen(b, ts, tc), kind # "prebaked"
  PROVE  Wire(cs, tk, sn, b, ex, Append(ts, Request("declare", 0)), tc)
<1> DEFINE F == Frames(Len(cs))
           x == Request("declare", 0)
           new == Append(ts, x)
<1>1. ts \in Seq(F) /\ x \in F /\ x.m = "declare" /\ ~IsTask(x.m)
  <2>1. Len(cs) \in Nat
    BY DEF Wire, Typed
  <2>2. 0 \in 0 .. Len(cs)
    BY <2>1
  <2>3. QED
    BY <2>2, TasksAre, SMTT(60) DEF Wire, Typed, Frames, Request
<1> HIDE DEF F, x
<1>2. /\ new \in Seq(F) /\ DOMAIN new = 1 .. Len(ts) + 1
      /\ DOMAIN ts = 1 .. Len(ts) /\ Len(ts) \in Nat
      /\ \A i \in DOMAIN ts : i \in DOMAIN new /\ new[i] = ts[i]
      /\ \A i \in DOMAIN new : (i \in DOMAIN ts /\ new[i] = ts[i]) \/ (new[i] = x /\ i = Len(ts) + 1)
  BY <1>1, AppendIs
<1> HIDE DEF new
<1>3. Typed(cs, tk, sn, ex, new, tc)
  BY <1>2 DEF Wire, Typed, F
<1>4. Handshake(b, new, tc)
  <2>1. \A i \in DOMAIN ts : ts[i].m # "declare"
    BY DEF ToOpen, OnWay
  <2>2. \A i \in DOMAIN new : new[i].m = "declare" => i = Len(ts) + 1
    BY <1>2, <2>1
  <2>3. \A i \in DOMAIN new : new[i].m = "channelOpen" => i \in DOMAIN ts /\ new[i] = ts[i]
    BY <1>1, <1>2
  <2>4. QED
    BY <2>2, <2>3 DEF Wire, Handshake, ToOpen
<1>5. Ascending(cs, tk, sn, ex, new)
  <2>1. \A i \in DOMAIN new : IsTask(new[i].m) => i \in DOMAIN ts /\ new[i] = ts[i]
    BY <1>1, <1>2
  <2>2. QED
    BY <2>1 DEF Wire, Ascending
<1>6. Served(cs, tk, sn, b, ex, new)
  <2>1. \A y : Among(y, ts) => Among(y, new)
    BY <1>2 DEF Among
  <2>2. QED
    BY <2>1 DEF Wire, Served
<1>7. Plain(cs, ex, new, tc)
  BY <1>1, <1>2 DEF Wire, Plain
<1>8. QED
  BY <1>3, <1>4, <1>5, <1>6, <1>7 DEF Wire, new, x

LEMMA LeastIs ==
  ASSUME NEW S, S \subseteq Nat, S # {}
  PROVE  \E x \in S : \A j \in S : x <= j
<1>1. ASSUME NEW R, IsWellFoundedOn(R, Nat), \A i, j \in Nat : i < j => <<i, j>> \in R
      PROVE  \E x \in S : \A j \in S : x <= j
  <2>1. ASSUME NEW T, T \subseteq Nat, T # {} PROVE \E x \in T : \A j \in T : ~(<<j, x>> \in R)
    BY ONLY <1>1, <2>1, WFMin, ZenonT(60)
  <2>2. PICK x \in S : \A j \in S : ~(<<j, x>> \in R)
    BY <2>1
  <2>3. \A j \in S : ~(j < x)
    BY <1>1, <2>2
  <2>4. QED
    BY <2>3
<1>2. \A i, j \in Nat : i < j => <<i, j>> \in OpToRel(<, Nat)
  BY DEF OpToRel
<1>3. QED
  BY <1>1, <1>2, NatLessThanWellFounded

\* The first task that waits for the method leaves the list.
LEMMA FirstIs ==
  ASSUME NEW cs, NEW tk, NEW m, tk \subseteq Nat, \E i \in tk : Reply(cs[i]) = m
  PROVE  \E x \in tk :
           /\ Reply(cs[x]) = m /\ \A j \in tk : Reply(cs[j]) = m => x <= j
           /\ Matches({i \in tk : Reply(cs[i]) = m}) = {x}
<1> DEFINE S == {i \in tk : Reply(cs[i]) = m}
<1>1. S \subseteq Nat /\ S # {}
  OBVIOUS
<1> HIDE DEF S
<1>5. PICK y \in S : \A j \in S : y <= j
  BY <1>1, LeastIs
<1> DEFINE x == CHOOSE i \in S : \A j \in S : i <= j
<1>6. x \in S /\ \A j \in S : x <= j
  BY <1>5
<1>7. Matches(S) = {x}
  BY DEF Matches
<1> HIDE DEF x
<1>8. QED
  BY <1>6, <1>7 DEF S

LEMMA TaskDone ==
  ASSUME NEW cs, NEW tk, NEW sn, NEW b, NEW ex, NEW ts, NEW tc, NEW x,
         Wire(cs, tk, sn, b, ex, ts, tc), tc # <<>>,
         x \in tk, Reply(cs[x]) = Head(tc),
         \A j \in tk : Reply(cs[j]) = Head(tc) => x <= j
  PROVE  /\ Wire(cs, tk \ {x}, sn, b, ex, ts, Tail(tc))
         /\ Among(Request(cs[x], x), ex) \/ (cs[x] = "bind_headers" /\ OnWay("bind", ex))
<1> DEFINE new == Tail(tc)
           m == Head(tc)
<1>1. /\ new \in Seq(Methods) /\ m = tc[1]
      /\ DOMAIN tc = 1 .. Len(tc) /\ 1 \in DOMAIN tc
      /\ DOMAIN new = 1 .. Len(tc) - 1 /\ Len(tc) \in Nat
      /\ \A i \in DOMAIN new : i + 1 \in DOMAIN tc /\ i + 1 # 1 /\ new[i] = tc[i + 1] /\ 1 < i + 1
  BY TailIs DEF Wire, Typed
<1>2. Wire(cs, tk, sn, b, ex, ts, new)
  BY MethodTaken
<1> HIDE DEF new, m
<1>3. tk \subseteq Nat /\ sn \subseteq Nat
  BY DEF Wire, Typed
<1>4. PICK w \in [DOMAIN tc -> 0 .. MaxCalls] : Pairs(w, cs, tk, ex, tc)
  BY DEF Wire, Paired
<1>5. \A i \in DOMAIN tc : w[i] \in Nat
  BY <1>4, Constants
<1>6. Expected(m, ex) =>
        /\ w[1] \in tk /\ Among(Request(cs[w[1]], w[1]), ex)
        /\ x <= w[1]
  <2>1. Expected(tc[1], ex) =>
          w[1] \in tk /\ Reply(cs[w[1]]) = tc[1] /\ Among(Request(cs[w[1]], w[1]), ex)
    BY <1>1, <1>4 DEF Pairs
  <2>2. QED
    BY <1>1, <2>1 DEF m
<1>7. Among(Request(cs[x], x), ex) \/ (cs[x] = "bind_headers" /\ OnWay("bind", ex))
  <2>1. CASE Expected(m, ex)
    <3>1. w[1] \in sn
      <4>1. PICK k \in DOMAIN ex : ex[k] = Request(cs[w[1]], w[1])
        BY <1>6, <2>1 DEF Among
      <4>2. ex[k].m = cs[w[1]] /\ ex[k].id = w[1] /\ IsTask(cs[w[1]])
        BY <1>6, <2>1, <4>1, RequestIs DEF Wire, Typed
      <4>3. QED
        BY <4>2 DEF Wire, Ascending
    <3>2. CASE x = w[1]
      BY <1>6, <2>1, <3>2
    <3>3. CASE x # w[1]
      <4>1. x < w[1]
        BY <1>1, <1>3, <1>5, <1>6, <2>1, <3>3
      <4>2. QED
        BY <1>6, <2>1, <3>1, <4>1 DEF Wire, Served
    <3>4. QED
      BY <3>2, <3>3
  <2>2. CASE ~Expected(m, ex)
    <3>1. Reply(cs[x]) # "none"
      <4>1. Reply(cs[x]) \in Methods
        BY TailIs DEF Wire, Typed, m
      <4>2. QED
        BY <4>1 DEF Methods
    <3>2. QED
      BY <2>2, <3>1, ReplyMeans DEF Expected, m
  <2>3. QED
    BY <2>1, <2>2
<1>8. Typed(cs, tk \ {x}, sn, ex, ts, new)
  BY <1>2 DEF Wire, Typed
<1>9. Ascending(cs, tk \ {x}, sn, ex, ts)
  BY <1>2 DEF Wire, Ascending
<1>10. Served(cs, tk \ {x}, sn, b, ex, ts)
  <2>1. Expected(Reply(cs[x]), ex) => Among(Request(cs[x], x), ex)
    BY <1>7, ReplyMeans DEF Expected
  <2>2. QED
    BY <1>2, <2>1 DEF Wire, Served
<1>11. Paired(cs, tk \ {x}, ex, new)
  <2> DEFINE v == [i \in DOMAIN new |-> w[i + 1]]
  <2>2. v \in [DOMAIN new -> 0 .. MaxCalls]
    BY <1>1, <1>4
  <2>3. \A i \in DOMAIN new : v[i] = w[i + 1] /\ i \in Int
    BY <1>1
  <2> HIDE DEF v
  <2>4. Pairs(v, cs, tk \ {x}, ex, new)
    <3>1. ASSUME NEW k \in DOMAIN new, Expected(new[k], ex)
          PROVE  v[k] \in tk \ {x} /\ Reply(cs[v[k]]) = new[k] /\ Among(Request(cs[v[k]], v[k]), ex)
      <4>1. v[k] \in tk /\ Reply(cs[v[k]]) = new[k] /\ Among(Request(cs[v[k]], v[k]), ex)
        BY <1>1, <1>4, <2>3, <3>1 DEF Pairs
      <4>2. CASE v[k] = x
        <5>1. tc[1] = tc[k + 1] /\ 1 < k + 1 /\ Expected(tc[1], ex)
          BY <1>1, <3>1, <4>1, <4>2 DEF m
        <5>2. w[1] < w[k + 1]
          BY <1>1, <1>4, <5>1 DEF Pairs
        <5>3. QED
          BY <1>1, <1>3, <1>5, <1>6, <2>3, <4>2, <5>1, <5>2
      <4>3. QED
        BY <4>1, <4>2
    <3>2. ASSUME NEW j \in DOMAIN new, NEW k \in DOMAIN new,
                 j < k, new[j] = new[k], Expected(new[j], ex)
          PROVE  v[j] < v[k]
      <4>1. j + 1 < k + 1 /\ tc[j + 1] = tc[k + 1] /\ Expected(tc[j + 1], ex)
        BY <1>1, <2>3, <3>2
      <4>2. QED
        BY <1>1, <1>4, <2>3, <4>1 DEF Pairs
    <3>3. QED
      BY <3>1, <3>2 DEF Pairs
  <2>5. QED
    BY <2>2, <2>4 DEF Paired
<1>12. QED
  BY <1>2, <1>7, <1>8, <1>9, <1>10, <1>11 DEF Wire, new


-----------------------------------------------------------------------------
(* The task list is flushed                                                *)

LEMMA OrderedAll ==
  ASSUME NEW S, IsFiniteSet(S), S \subseteq Nat, NEW s \in Ordered(S)
  PROVE  /\ DOMAIN s = 1 .. Cardinality(S) /\ Cardinality(S) \in Nat
         /\ \A k \in DOMAIN s : s[k] \in S
         /\ \A j, k \in DOMAIN s : j < k => s[j] < s[k]
         /\ \A i \in S : \E k \in DOMAIN s : s[k] = i
<1> DEFINE n == Cardinality(S)
<1>1. n \in Nat
  BY FS_CardinalityType
<1>2. s \in [1 .. n -> S] /\ \A j, k \in DOMAIN s : j < k => s[j] < s[k]
  BY DEF Ordered
<1>3. IsFiniteSet(1 .. n) /\ Cardinality(1 .. n) = n
  <2>1. Cardinality(1 .. n) = IF 1 <= n THEN n - 1 + 1 ELSE 0
    BY <1>1, FS_Interval
  <2>2. QED
    BY <1>1, <2>1, FS_Interval
<1> HIDE DEF n
<1>4. s \in Injection(1 .. n, S)
  <2>1. ASSUME NEW j \in 1 .. n, NEW k \in 1 .. n, s[j] = s[k] PROVE j = k
    <3>1. s[j] \in S /\ DOMAIN s = 1 .. n
      BY <1>2
    <3>2. s[j] \in Nat
      BY <3>1
    <3>3. j \in Int /\ k \in Int
      BY <1>1
    <3>4. ~(j < k) /\ ~(k < j)
      BY <1>2, <2>1, <3>1, <3>2
    <3>5. QED
      BY <3>3, <3>4
  <2>2. QED
    BY <1>2, <2>1 DEF Injection, IsInjective
<1>5. s \in Surjection(1 .. n, S)
  BY <1>3, <1>4, FS_Injection DEF n
<1>6. QED
  BY <1>1, <1>2, <1>5 DEF Surjection, n

\* What _tasksFlush leaves: tasks tq of which sq are sent, and frames q.
Flush(st, cs, tk, sn, ts, tq, sq, q) ==
  /\ st # "open" => tq = tk /\ sq = sn /\ q = ts
  /\ st = "open" => sq = sn \cup tk
  /\ tq \subseteq tk /\ \A i \in tk \ tq : Reply(cs[i]) = "none"
  /\ \A i \in tq \cap sq : i \in sn \/ Reply(cs[i]) # "none"
  /\ tk \subseteq sn => q = ts
  /\ \A k \in DOMAIN ts : k \in DOMAIN q /\ q[k] = ts[k]
  /\ \A k \in DOMAIN q :
       \/ k \in DOMAIN ts /\ q[k] = ts[k]
       \/ /\ st = "open" /\ k \notin DOMAIN ts
          /\ q[k].id \in tk \ sn /\ q[k] = Request(cs[q[k].id], q[k].id)
          /\ \A j \in DOMAIN q : j < k /\ j \notin DOMAIN ts => q[j].id < q[k].id
  /\ \A k \in DOMAIN q, j \in DOMAIN q : k \in DOMAIN ts /\ j \notin DOMAIN ts => k < j
  /\ \A i \in sq \ sn : Among(Request(cs[i], i), q)

LEMMA Flushed ==
  ASSUME NEW st, NEW cs, NEW tk, NEW ts, NEW F, ts \in Seq(F),
         tk \subseteq 1 .. MaxCalls,
         \A i \in tk : Request(cs[i], i) \in F,
         TasksFlush(st, cs, tk, ts)
  PROVE  /\ Flush(st, cs, tk, sent, ts, tasks', sent', toServer')
         /\ toServer' \in Seq(F)
         /\ st = "open" => \A i \in tasks' : Reply(cs[i]) # "none"
<1>1. CASE st # "open"
  <2>1. tasks' = tk /\ sent' = sent /\ toServer' = ts
    BY <1>1 DEF TasksFlush, Flushes
  <2>2. QED
    BY <1>1, <2>1 DEF Flush
<1>2. CASE st = "open"
  <2>1. PICK s \in Ordered(tk \ sent) :
          /\ tasks' = {i \in tk : Reply(cs[i]) # "none"}
          /\ sent' = sent \cup tk
          /\ toServer' = ts \o [k \in DOMAIN s |-> Request(cs[s[k]], s[k])]
    BY <1>2 DEF TasksFlush, Flushes
  <2> DEFINE S == tk \ sent
             n == Cardinality(S)
             new == [k \in DOMAIN s |-> Request(cs[s[k]], s[k])]
             q == ts \o new
  <2>2. IsFiniteSet(S) /\ S \subseteq Nat
    <3>1. S \subseteq 1 .. MaxCalls
      OBVIOUS
    <3> HIDE DEF S
    <3>2. IsFiniteSet(1 .. MaxCalls)
      BY Constants, FS_Interval
    <3>3. IsFiniteSet(S)
      BY <3>1, <3>2, FS_Subset
    <3>4. QED
      BY <3>1, <3>3, Constants
  <2>3. /\ DOMAIN s = 1 .. n /\ n \in Nat
        /\ \A k \in DOMAIN s : s[k] \in S
        /\ \A j, k \in DOMAIN s : j < k => s[j] < s[k]
        /\ \A i \in S : \E k \in DOMAIN s : s[k] = i
    <3>1. s \in Ordered(S)
      BY <2>1
    <3> HIDE DEF S
    <3>2. QED
      BY <2>2, <3>1, OrderedAll
  <2>4. \A k \in 1 .. n : new[k] = Request(cs[s[k]], s[k]) /\ new[k] \in F /\ new[k].id = s[k]
    BY <2>3, RequestIs
  <2>5. new \in Seq(F) /\ Len(new) = n
    <3>1. new \in [1 .. n -> F] /\ n \in Nat
      BY <2>3, <2>4
    <3> HIDE DEF new, n
    <3>2. QED
      BY <3>1
  <2> HIDE DEF new, S, n
  <2>6. /\ q \in Seq(F) /\ Len(q) = Len(ts) + n /\ Len(ts) \in Nat
        /\ DOMAIN q = 1 .. Len(ts) + n /\ DOMAIN ts = 1 .. Len(ts)
        /\ \A i \in 1 .. Len(ts) + n : q[i] = IF i <= Len(ts) THEN ts[i] ELSE new[i - Len(ts)]
    <3>1. /\ q \in Seq(F) /\ Len(q) = Len(ts) + Len(new)
          /\ \A i \in 1 .. Len(ts) + Len(new) : q[i] = IF i <= Len(ts) THEN ts[i] ELSE new[i - Len(ts)]
      BY <2>5, ConcatProperties
    <3>2. Len(ts) \in Nat /\ DOMAIN ts = 1 .. Len(ts)
      BY LenProperties
    <3> HIDE DEF q
    <3>3. DOMAIN q = 1 .. Len(q)
      BY <3>1, LenProperties
    <3>4. QED
      BY <2>5, <3>1, <3>2, <3>3
  <2>7. toServer' = q
    BY <2>1 DEF new
  <2> HIDE DEF q
  <2>8. \A k \in DOMAIN ts : k \in DOMAIN q /\ q[k] = ts[k]
    BY <2>3, <2>6
  <2>9. \A k \in DOMAIN q : k \notin DOMAIN ts =>
          k - Len(ts) \in 1 .. n /\ q[k] = new[k - Len(ts)]
    BY <2>3, <2>6
  <2>10. \A k \in DOMAIN q : k \notin DOMAIN ts =>
          /\ q[k].id \in S /\ q[k] = Request(cs[q[k].id], q[k].id)
          /\ q[k].id = s[k - Len(ts)]
    BY <2>3, <2>4, <2>9
  <2>11. \A j, k \in DOMAIN q : j < k /\ j \notin DOMAIN ts /\ k \notin DOMAIN ts => q[j].id < q[k].id
    <3>1. ASSUME NEW j \in DOMAIN q, NEW k \in DOMAIN q, j < k, j \notin DOMAIN ts, k \notin DOMAIN ts
          PROVE  q[j].id < q[k].id
      <4>1. j - Len(ts) \in 1 .. n /\ k - Len(ts) \in 1 .. n /\ j - Len(ts) < k - Len(ts)
        BY <2>6, <2>9, <3>1
      <4>2. q[j].id = s[j - Len(ts)] /\ q[k].id = s[k - Len(ts)]
        BY <2>10, <3>1
      <4>3. QED
        BY <2>3, <4>1, <4>2
    <3>2. QED
      BY <3>1
  <2>12. \A k \in DOMAIN q, j \in DOMAIN q : k \in DOMAIN ts /\ j \notin DOMAIN ts => k < j
    BY <2>3, <2>6
  <2>13. \A i \in S : Among(Request(cs[i], i), q)
    <3>1. ASSUME NEW i \in S PROVE Among(Request(cs[i], i), q)
      <4>1. PICK k \in 1 .. n : s[k] = i
        BY <2>3
      <4>2. k + Len(ts) \in DOMAIN q /\ k + Len(ts) \notin DOMAIN ts
        BY <2>3, <2>6
      <4>3. k + Len(ts) - Len(ts) = k
        BY <2>3, <2>6
      <4>4. q[k + Len(ts)] = Request(cs[i], i)
        BY <2>10, <4>1, <4>2, <4>3
      <4>5. QED
        BY <4>2, <4>4 DEF Among
    <3>2. QED
      BY <3>1
  <2>14. tk \subseteq sent => q = ts
    <3>1. ASSUME tk \subseteq sent PROVE n = 0
      <4>1. S = {}
        BY <3>1 DEF S
      <4>2. QED
        BY <4>1, FS_EmptySet DEF n
    <3>2. ASSUME n = 0 PROVE q = ts
      BY <2>6, <3>2, SeqEqual
    <3>3. QED
      BY <3>1, <3>2
  <2>15. sent' \ sent = S
    BY <2>1 DEF S
  <2>16. Flush(st, cs, tk, sent, ts, tasks', sent', q)
    BY <1>2, <2>1, <2>8, <2>10, <2>11, <2>12, <2>13, <2>14, <2>15 DEF Flush, S
  <2>17. QED
    BY <2>1, <2>6, <2>7, <2>16
<1>3. QED
  BY <1>1, <1>2


LEMMA WireFlushed ==
  ASSUME NEW st, NEW cs, NEW tk, NEW sn, NEW b, NEW ex, NEW ts, NEW tc,
         NEW tq, NEW sq, NEW q,
         Wire(cs, tk, sn, b, ex, ts, tc),
         Flush(st, cs, tk, sn, ts, tq, sq, q),
         q \in Seq(Frames(Len(cs))),
         st = "open" => \A i \in tq : Reply(cs[i]) # "none"
  PROVE  /\ Wire(cs, tq, sq, b, ex, q, tc)
         /\ \A m : ~IsTask(m) => (OnWay(m, q) <=> OnWay(m, ts))
<1>1. /\ tk \subseteq 1 .. Len(cs) /\ sn \subseteq 1 .. Len(cs) /\ Len(cs) \in Nat
      /\ \A i \in tk \cup sn : IsTask(cs[i]) /\ i \in Nat
  BY DEF Wire, Typed
<1>2. \A k \in DOMAIN q : ~IsTask(q[k].m) => k \in DOMAIN ts /\ q[k] = ts[k]
  <2>1. ASSUME NEW k \in DOMAIN q, k \notin DOMAIN ts PROVE IsTask(q[k].m)
    <3>1. q[k].id \in tk /\ q[k] = Request(cs[q[k].id], q[k].id)
      BY <2>1 DEF Flush
    <3>2. q[k].m = cs[q[k].id]
      BY <3>1, RequestIs
    <3>3. QED
      BY <1>1, <3>1, <3>2
  <2>2. \A k \in DOMAIN q : k \in DOMAIN ts => q[k] = ts[k]
    BY DEF Flush
  <2>3. QED
    BY <2>1, <2>2
<1>3. \A m : ~IsTask(m) => (OnWay(m, q) <=> OnWay(m, ts))
  BY <1>2 DEF OnWay, Flush
<1>4. Typed(cs, tq, sq, ex, q, tc)
  BY DEF Wire, Typed, Flush
<1>5. Handshake(b, q, tc)
  <2>1. /\ ~IsTask("declare") /\ ~IsTask("channelOpen")
    BY TasksAre
  <2>2. OnWay("declare", q) <=> OnWay("declare", ts)
    BY <1>3, <2>1
  <2>3. b = "idle" => 1 \in DOMAIN ts /\ q # <<>> /\ q[1] = ts[1]
    <3>1. b = "idle" => ts # <<>> /\ ts \in Seq(Frames(Len(cs)))
      BY DEF Wire, Handshake, Typed
    <3>2. b = "idle" => 1 \in DOMAIN ts
      BY <3>1, TailIs
    <3>3. QED
      BY <3>2 DEF Flush
  <2>4. \A k \in DOMAIN q : q[k].m \in {"declare", "channelOpen"} => k \in DOMAIN ts /\ q[k] = ts[k]
    BY <1>2, <2>1
  <2>5. QED
    BY <2>2, <2>3, <2>4 DEF Wire, Handshake
<1>6. Ascending(cs, tq, sq, ex, q)
  <2>1. \A k \in DOMAIN ts : IsTask(ts[k].m) => ts[k].id \in sn /\ ts[k].m = cs[ts[k].id]
    BY DEF Wire, Ascending
  <2>2. \A k \in DOMAIN ex : IsTask(ex[k].m) => ex[k].id \in sn /\ ex[k].m = cs[ex[k].id]
    BY DEF Wire, Ascending
  <2>3. \A k \in DOMAIN q : k \notin DOMAIN ts =>
          q[k].id \in tk \ sn /\ q[k].m = cs[q[k].id] /\ st = "open" /\ sq = sn \cup tk
    BY RequestIs DEF Flush
  <2>4. \A i \in sn, j \in tk \ sn : i < j
    BY DEF Wire, Ascending
  <2>5. sn \subseteq sq
    BY DEF Flush
  <2>6. \A k \in DOMAIN q : IsTask(q[k].m) => q[k].id \in sq /\ q[k].m = cs[q[k].id]
    BY <2>1, <2>3, <2>5 DEF Flush
  <2>7. \A j, k \in DOMAIN q : j < k /\ IsTask(q[j].m) /\ IsTask(q[k].m) => q[j].id < q[k].id
    <3>1. ASSUME NEW j \in DOMAIN q, NEW k \in DOMAIN q, j < k, IsTask(q[j].m), IsTask(q[k].m)
          PROVE  q[j].id < q[k].id
      <4>1. CASE k \in DOMAIN ts
        <5>1. j \in DOMAIN ts
          <6>1. ts \in Seq(Frames(Len(cs)))
            BY DEF Wire, Typed
          <6>2. DOMAIN ts = 1 .. Len(ts) /\ DOMAIN q = 1 .. Len(q) /\ Len(ts) \in Nat /\ Len(q) \in Nat
            BY <6>1, LenProperties
          <6>3. QED
            BY <3>1, <4>1, <6>2
        <5>2. q[j] = ts[j] /\ q[k] = ts[k]
          BY <4>1, <5>1 DEF Flush
        <5>3. QED
          BY <3>1, <4>1, <5>1, <5>2 DEF Wire, Ascending
      <4>2. CASE k \notin DOMAIN ts /\ j \in DOMAIN ts
        <5>1. q[j] = ts[j] /\ q[j].id \in sn
          BY <2>1, <3>1, <4>2 DEF Flush
        <5>2. QED
          BY <2>3, <2>4, <4>2, <5>1
      <4>3. CASE k \notin DOMAIN ts /\ j \notin DOMAIN ts
        BY <3>1, <4>3 DEF Flush
      <4>4. QED
        BY <4>1, <4>2, <4>3
    <3>2. QED
      BY <3>1
  <2>8. \A j \in DOMAIN ex, k \in DOMAIN q : IsTask(ex[j].m) /\ IsTask(q[k].m) => ex[j].id < q[k].id
    <3>1. ASSUME NEW j \in DOMAIN ex, NEW k \in DOMAIN q, IsTask(ex[j].m), IsTask(q[k].m)
          PROVE  ex[j].id < q[k].id
      <4>1. CASE k \in DOMAIN ts
        <5>1. q[k] = ts[k]
          BY <4>1 DEF Flush
        <5>2. QED
          BY <3>1, <4>1, <5>1 DEF Wire, Ascending
      <4>2. CASE k \notin DOMAIN ts
        BY <2>2, <2>3, <2>4, <3>1, <4>2
      <4>3. QED
        BY <4>1, <4>2
    <3>2. QED
      BY <3>1
  <2>9. \A i \in sq, j \in tq \ sq : i < j
    <3>1. CASE st = "open"
      BY <3>1 DEF Flush
    <3>2. CASE st # "open"
      BY <2>4, <3>2 DEF Flush
    <3>3. QED
      BY <3>1, <3>2
  <2>10. QED
    BY <2>2, <2>5, <2>6, <2>7, <2>8, <2>9 DEF Ascending
<1>7. Served(cs, tq, sq, b, ex, q)
  <2>1. \A x : Among(x, ts) => Among(x, q)
    BY DEF Among, Flush
  <2>2. b = "open" => \A i \in sq : Among(Request(cs[i], i), ex) \/ Among(Request(cs[i], i), q)
    BY <2>1 DEF Wire, Served, Flush
  <2>3. ASSUME NEW i \in sq, NEW j \in tq, j < i, Among(Request(cs[i], i), ex)
        PROVE  Among(Request(cs[j], j), ex)
    <3>1. PICK k \in DOMAIN ex : ex[k] = Request(cs[i], i)
      BY <2>3 DEF Among
    <3>2. i \in tk \cup sn
      BY DEF Flush
    <3>3. IsTask(ex[k].m) /\ ex[k].id = i
      BY <1>1, <3>1, <3>2, RequestIs
    <3>4. i \in sn /\ j \in tk
      BY <3>3 DEF Wire, Ascending, Flush
    <3>5. QED
      BY <2>3, <3>4 DEF Wire, Served
  <2>4. ASSUME NEW i \in sq, Expected(Reply(cs[i]), ex)
        PROVE  i \in tq \/ Among(Request(cs[i], i), ex)
    <3>1. Reply(cs[i]) # "none"
      BY <2>4 DEF Expected
    <3>2. i \in tk => i \in tq
      BY <3>1 DEF Flush
    <3>3. i \in sn \/ i \in tk
      BY DEF Flush
    <3>4. QED
      BY <2>4, <3>2, <3>3 DEF Wire, Served
  <2>5. QED
    BY <2>2, <2>3, <2>4 DEF Served
<1>8. Paired(cs, tq, ex, tc)
  <2>1. PICK w \in [DOMAIN tc -> 0 .. MaxCalls] : Pairs(w, cs, tk, ex, tc)
    BY DEF Wire, Paired
  <2>2. \A k \in DOMAIN tc : Expected(tc[k], ex) => tc[k] # "none"
    BY DEF Expected
  <2>3. \A k \in DOMAIN tc : Expected(tc[k], ex) => w[k] \in tq
    BY <2>1, <2>2 DEF Pairs, Flush
  <2>4. Pairs(w, cs, tq, ex, tc)
    BY <2>1, <2>3 DEF Pairs
  <2>5. QED
    BY <2>4 DEF Paired
<1>9. Plain(cs, ex, q, tc)
  <2>1. \A k \in DOMAIN q : q[k].m \in {"bind", "qos", "close"} => k \in DOMAIN ts /\ q[k] = ts[k]
    BY <1>2, TasksAre
  <2>2. QED
    BY <2>1 DEF Wire, Plain
<1>10. QED
  BY <1>3, <1>4, <1>5, <1>6, <1>7, <1>8, <1>9 DEF Wire

\* A flush of the list of a channel that has been declared, or of one whose
\* state keeps it.
LEMMA OpeningFlushed ==
  ASSUME NEW st, NEW cs, NEW tk, NEW sn, NEW b, NEW ex, NEW ts, NEW tc,
         NEW tq, NEW sq, NEW q,
         Opening(st, sn, b, ex, ts, tc),
         Flush(st, cs, tk, sn, ts, tq, sq, q),
         OnWay("declare", q) <=> OnWay("declare", ts)
  PROVE  Opening(st, sq, b, ex, q, tc)
BY DEF Opening, Flush, ToOpen


-----------------------------------------------------------------------------
(* Steps of the client                                                     *)

LEMMA WireNext ==
  ASSUME kind' = kind, Wire(calls', tasks', sent', broker', executed', toServer', toClient')
  PROVE  Wire(calls, tasks, sent, broker, executed, toServer, toClient)'
BY DEF Wire, Typed, Handshake, Ascending, Served, Paired, Plain, TaskOps

LEMMA OpeningNext ==
  ASSUME kind' = kind, Opening(state', sent', broker', executed', toServer', toClient')
  PROVE  Opening(state, sent, broker, executed, toServer, toClient)'
BY DEF Opening, ToOpen, Ready

\* A step of the client that ends with a flush.
LEMMA ClientStep ==
  ASSUME NEW st, NEW cs, NEW tk, NEW ts, NEW tc,
         Wire(cs, tk, sent, broker, executed, ts, tc),
         Opening(st, sent, broker, executed, ts, tc),
         TasksFlush(st, cs, tk, ts)
  PROVE  /\ Wire(cs, tasks', sent', broker, executed, toServer', tc)
         /\ Opening(st, sent', broker, executed, toServer', tc)
         /\ st = "open" => tasks' \subseteq sent'
         /\ st # "open" => toServer' = ts
         /\ \A m : ~IsTask(m) => (OnWay(m, toServer') <=> OnWay(m, ts))
<1> DEFINE F == Frames(Len(cs))
<1>1. /\ ts \in Seq(F) /\ Len(cs) \in Nat /\ Len(cs) <= MaxCalls
      /\ tk \subseteq 1 .. Len(cs) /\ \A i \in tk : IsTask(cs[i])
  BY DEF Wire, Typed
<1>2. \A i \in tk : Request(cs[i], i) \in F
  <2>1. ASSUME NEW i \in tk PROVE Request(cs[i], i) \in F
    <3>1. i \in 0 .. Len(cs) /\ cs[i] \in Ops
      BY <1>1, TasksAre
    <3>2. QED
      BY <3>1 DEF Request, Frames
  <2>2. QED
    BY <2>1
<1> HIDE DEF F
<1>3. tk \subseteq 1 .. MaxCalls
  BY <1>1, Constants
<1>4. /\ Flush(st, cs, tk, sent, ts, tasks', sent', toServer')
      /\ toServer' \in Seq(F)
      /\ st = "open" => \A i \in tasks' : Reply(cs[i]) # "none"
  BY <1>1, <1>2, <1>3, Flushed
<1>5. /\ Wire(cs, tasks', sent', broker, executed, toServer', tc)
      /\ \A m : ~IsTask(m) => (OnWay(m, toServer') <=> OnWay(m, ts))
  BY <1>4, WireFlushed DEF F
<1>6. OnWay("declare", toServer') <=> OnWay("declare", ts)
  BY <1>5, TasksAre
<1>7. Opening(st, sent', broker, executed, toServer', tc)
  BY <1>4, <1>6, OpeningFlushed
<1>8. /\ st = "open" => tasks' \subseteq sent'
      /\ st # "open" => toServer' = ts
  BY <1>4 DEF Flush
<1>9. QED
  BY <1>5, <1>7, <1>8

\* What the rest of TypeOK needs.
LEMMA TypeNext ==
  ASSUME Wire(calls, tasks, sent, broker, executed, toServer, toClient)',
         kind' \in Kinds,
         state' \in {"new", "declaring", "open", "closing", "closed"},
         fired' \subseteq {i \in 1 .. Len(calls') : IsTask(calls'[i])},
         called' \in BOOLEAN, uncaught' \in BOOLEAN, misuse' \in BOOLEAN,
         broker' \in {"idle", "open", "closing", "closed", "kicked", "gone"}
  PROVE  TypeOK'
<1>1. Typed(calls, tasks, sent, executed, toServer, toClient)'
  BY DEF Wire
<1>2. {called', uncaught', misuse'} \subseteq BOOLEAN
  OBVIOUS
<1>3. tasks' \cup sent' \cup fired' \subseteq {i \in 1 .. Len(calls') : IsTask(calls'[i])}
  BY <1>1 DEF Typed
<1>4. QED
  BY <1>1, <1>2, <1>3 DEF TypeOK, Typed, Frames, Executable

\* Requests the broker has executed stay executed.
LEMMA FiredNext ==
  ASSUME FiredWasExecuted, fired \subseteq 1 .. Len(calls), Len(calls) \in Nat, Len(calls') \in Nat,
         Len(calls) <= Len(calls'),
         \A i \in fired : calls'[i] = calls[i],
         \A x : Among(x, executed) => Among(x, executed'),
         \A i \in fired' \ fired :
            \/ Among(Request(calls'[i], i), executed')
            \/ calls'[i] = "bind_headers" /\ \E j \in 1 .. Len(calls') : Among(Request("bind", j), executed')
  PROVE  FiredWasExecuted'
<1>1. ASSUME NEW i \in fired
      PROVE  \/ Among(Request(calls'[i], i), executed')
             \/ calls'[i] = "bind_headers" /\ \E j \in 1 .. Len(calls') : Among(Request("bind", j), executed')
  <2>1. \/ Among(Request(calls[i], i), executed)
        \/ calls[i] = "bind_headers" /\ \E j \in 1 .. Len(calls) : Among(Request("bind", j), executed)
    BY <1>1 DEF FiredWasExecuted, Executed, Among
  <2>2. \A j \in 1 .. Len(calls) : j \in 1 .. Len(calls')
    OBVIOUS
  <2>3. QED
    BY <2>1, <2>2
<1>2. \A i \in fired' :
        \/ Among(Request(calls'[i], i), executed')
        \/ calls'[i] = "bind_headers" /\ \E j \in 1 .. Len(calls') : Among(Request("bind", j), executed')
  BY <1>1
<1>3. QED
  BY <1>2 DEF FiredWasExecuted, Executed, Among

LEMMA OrderNext ==
  ASSUME IssueOrder, executed' = executed, kind' = kind
  PROVE  IssueOrder'
BY DEF IssueOrder


LEMMA CallsAre ==
  ASSUME IInv, NEW op \in TaskOps(kind) \cup {"bind", "close"}, calls' = Append(calls, op)
  PROVE  /\ Len(calls) \in Nat /\ Len(calls') = Len(calls) + 1
         /\ calls'[Len(calls) + 1] = op
         /\ \A i \in 1 .. Len(calls) : calls'[i] = calls[i]
         /\ fired \subseteq 1 .. Len(calls) /\ sent \subseteq 1 .. Len(calls)
         /\ \A i \in fired : IsTask(calls[i])
         /\ Closed' <=> Closed \/ op = "close"
<1> DEFINE S == TaskOps(kind) \cup {"bind", "close"}
<1>1. calls \in Seq(S) /\ op \in S
  BY DEF IInv, TypeOK
<1> HIDE DEF S
<1>2. /\ Len(calls') = Len(calls) + 1 /\ Len(calls) \in Nat
      /\ DOMAIN calls = 1 .. Len(calls) /\ DOMAIN calls' = 1 .. Len(calls) + 1
      /\ \A i \in DOMAIN calls : i \in DOMAIN calls' /\ calls'[i] = calls[i]
      /\ \A i \in DOMAIN calls' :
           (i \in DOMAIN calls /\ calls'[i] = calls[i]) \/ (calls'[i] = op /\ i = Len(calls) + 1)
      /\ Len(calls) + 1 \in DOMAIN calls' /\ calls'[Len(calls) + 1] = op
  BY <1>1, AppendIs
<1>3. Closed' <=> Closed \/ op = "close"
  BY <1>2 DEF Closed
<1>4. /\ fired \subseteq 1 .. Len(calls) /\ sent \subseteq 1 .. Len(calls)
      /\ \A i \in fired : IsTask(calls[i])
  BY DEF IInv, TypeOK
<1>5. QED
  BY <1>2, <1>3, <1>4

\* The frames of a subscribe with ack, and of any other call of a task.
LEMMA WrittenIs ==
  ASSUME NEW op, NEW i, NEW S, NEW ts \in Seq(S)
  PROVE  /\ op = "subscribeAck" => ts \o Written(op, i) = Append(ts, Request("qos", i))
         /\ op # "subscribeAck" => ts \o Written(op, i) = ts
BY DEF Written

LEMMA PushStep ==
  ASSUME IInv, NEW op \in TaskOps(kind), Push(op)
  PROVE  IInv'
<1> DEFINE n == Len(calls) + 1
           out == toServer \o Written(op, n)
           tk == tasks \cup {n}
<1>1. /\ Len(calls) < MaxCalls /\ calls' = Append(calls, op)
      /\ TasksFlush(state, calls', tk, out)
      /\ misuse' = (misuse \/ (op = "subscribeAck" /\ Closed))
      /\ kind' = kind /\ state' = state /\ fired' = fired /\ called' = called
      /\ uncaught' = uncaught /\ broker' = broker /\ executed' = executed /\ toClient' = toClient
  BY DEF Push
<1>2. op \in TaskOps(kind) \cup {"bind", "close"} /\ IsTask(op) /\ op # "close"
  BY TasksAre
<1>3. /\ Len(calls) \in Nat /\ Len(calls') = Len(calls) + 1 /\ calls'[n] = op
      /\ \A i \in 1 .. Len(calls) : calls'[i] = calls[i]
      /\ fired \subseteq 1 .. Len(calls) /\ sent \subseteq 1 .. Len(calls)
      /\ \A i \in fired : IsTask(calls[i])
      /\ Closed' <=> Closed
  BY <1>1, <1>2, CallsAre
<1>4. Wire(calls', tasks, sent, broker, executed, toServer, toClient)
  BY <1>1, <1>2, CallAdded DEF IInv
<1>5. Wire(calls', tk, sent, broker, executed, toServer, toClient)
  <2>1. n \in 1 .. Len(calls') /\ IsTask(calls'[n]) /\ \A j \in sent : j < n
    BY <1>2, <1>3
  <2> HIDE DEF n
  <2>2. QED
    BY <1>4, <2>1, TaskAdded
<1>6. toServer \in Seq(Frames(Len(calls')))
  BY <1>4 DEF Wire, Typed
<1>7. /\ Wire(calls', tk, sent, broker, executed, out, toClient)
      /\ op # "subscribeAck" => out = toServer
      /\ \A m : m # "qos" => (OnWay(m, out) <=> OnWay(m, toServer))
  <2>1. CASE op = "subscribeAck"
    <3> DEFINE x == Request("qos", n)
    <3>1. out = Append(toServer, x)
      BY <1>6, <2>1, WrittenIs
    <3>2. x.m = "qos" /\ x.id = n
      BY RequestIs
    <3>3. kind = "queue"
      BY <2>1 DEF TaskOps
    <3>4. x \in Frames(Len(calls'))
      <4>1. n \in 0 .. Len(calls')
        BY <1>3
      <4>2. QED
        BY <4>1 DEF Frames, Request
    <3> HIDE DEF x
    <3>5. Wire(calls', tk, sent, broker, executed, Append(toServer, x), toClient)
      BY <1>5, <3>2, <3>3, <3>4, FrameAdded
    <3>6. \A m : m # "qos" => (OnWay(m, Append(toServer, x)) <=> OnWay(m, toServer))
      <4>1. /\ DOMAIN toServer \subseteq DOMAIN Append(toServer, x)
            /\ \A i \in DOMAIN toServer : Append(toServer, x)[i] = toServer[i]
            /\ \A i \in DOMAIN Append(toServer, x) :
                 (i \in DOMAIN toServer /\ Append(toServer, x)[i] = toServer[i]) \/ Append(toServer, x)[i] = x
        BY <1>6, <3>4, AppendIs
      <4>2. QED
        BY <3>2, <4>1 DEF OnWay
    <3>7. QED
      BY <2>1, <3>1, <3>5, <3>6
  <2>2. CASE op # "subscribeAck"
    <3>1. out = toServer
      BY <1>6, <2>2, WrittenIs
    <3> HIDE DEF out, tk
    <3>2. QED
      BY <1>5, <2>2, <3>1
  <2>3. QED
    BY <2>1, <2>2
<1>8. Opening(state, sent, broker, executed, out, toClient)
  BY <1>7 DEF IInv, Opening, ToOpen
<1> HIDE DEF tk, out
<1>9. /\ Wire(calls', tasks', sent', broker, executed, toServer', toClient)
      /\ Opening(state, sent', broker, executed, toServer', toClient)
      /\ state = "open" => tasks' \subseteq sent'
      /\ state # "open" => toServer' = out
      /\ \A m : ~IsTask(m) => (OnWay(m, toServer') <=> OnWay(m, out))
  BY <1>1, <1>7, <1>8, ClientStep
<1>10. Wire(calls, tasks, sent, broker, executed, toServer, toClient)'
  BY <1>1, <1>9, WireNext
<1>11. Opening(state, sent, broker, executed, toServer, toClient)'
  BY <1>1, <1>9, OpeningNext
<1>12. AllSent'
  BY <1>1, <1>9 DEF AllSent
<1>13. OnWay("close", toServer') <=> OnWay("close", toServer)
  BY <1>7, <1>9, TasksAre
<1>14. Ending'
  <2>1. Ending' <=> /\ \A i \in DOMAIN toClient :
                         toClient[i] = "channelClose" =>
                           /\ broker \notin {"idle", "open"}
                           /\ \A j \in DOMAIN toClient : i < j => toClient[j] = "channelCloseOk"
                    /\ ~Closed' =>
                         /\ ~OnWay("close", toServer')
                         /\ broker \notin {"closed", "kicked"}
                         /\ state # "closing"
                         /\ ~Coming("channelCloseOk", toClient)
                         /\ state = "closed" => broker \notin {"idle", "open"} /\ toClient = <<>>
    BY <1>1 DEF Ending, Closed, OnWay, Coming
  <2>2. QED
    BY <1>3, <1>13, <2>1 DEF IInv, Ending
<1>15. Orderly'
  <2>1. ~misuse' /\ Closed => ~misuse /\ toServer' = toServer
    BY <1>1, <1>7, <1>9 DEF IInv, Orderly
  <2>2. QED
    BY <1>1, <1>3, <2>1 DEF IInv, Orderly, OnWay, Coming
<1>16. TypeOK'
  <2>1. fired' \subseteq {i \in 1 .. Len(calls') : IsTask(calls'[i])}
    BY <1>1, <1>3
  <2>2. misuse' \in BOOLEAN
    BY <1>1 DEF IInv, TypeOK
  <2>3. QED
    BY <1>1, <1>10, <2>1, <2>2, TypeNext DEF IInv, TypeOK
<1>17. FiredWasExecuted'
  BY <1>1, <1>3, FiredNext DEF IInv
<1>18. QED
  BY <1>1, <1>10, <1>11, <1>12, <1>14, <1>15, <1>16, <1>17, OrderNext DEF IInv


\* bind and close.
LEMMA WriteStep ==
  ASSUME IInv, NEW op, NEW st, Write(op, st),
         \/ op = "bind" /\ kind = "queue" /\ st = state
         \/ op = "close" /\ st = "closing"
  PROVE  IInv'
<1> DEFINE n == Len(calls) + 1
           x == Request(op, n)
<1>1. /\ Len(calls) < MaxCalls /\ calls' = Append(calls, op)
      /\ toServer' = Append(toServer, x)
      /\ misuse' = \/ misuse
                   \/ op = "close" /\ state \in {"new", "declaring"}
                   \/ Closed
      /\ state' = st
      /\ kind' = kind /\ tasks' = tasks /\ sent' = sent /\ fired' = fired /\ called' = called
      /\ uncaught' = uncaught /\ broker' = broker /\ executed' = executed /\ toClient' = toClient
  BY DEF Write
<1>2. op \in TaskOps(kind) \cup {"bind", "close"} /\ op \in {"bind", "close"} /\ ~IsTask(op)
  BY TasksAre
<1>3. /\ Len(calls) \in Nat /\ Len(calls') = Len(calls) + 1
      /\ \A i \in 1 .. Len(calls) : calls'[i] = calls[i]
      /\ fired \subseteq 1 .. Len(calls)
      /\ \A i \in fired : IsTask(calls[i])
      /\ Closed' <=> Closed \/ op = "close"
  BY <1>1, <1>2, CallsAre
<1>4. Wire(calls', tasks, sent, broker, executed, toServer, toClient)
  BY <1>1, <1>2, CallAdded DEF IInv
<1>5. x.m = op /\ x.id = n
  BY RequestIs
<1>6. x \in Frames(Len(calls')) /\ n \in 1 .. Len(calls')
  <2>1. n \in 0 .. Len(calls') /\ n \in 1 .. Len(calls')
    BY <1>3
  <2>2. op \in Ops
    BY <1>2, TasksAre
  <2>3. QED
    BY <2>1, <2>2 DEF Frames, Request
<1> HIDE DEF x, n
<1>7. Wire(calls', tasks, sent, broker, executed, Append(toServer, x), toClient)
  BY <1>2, <1>4, <1>5, <1>6, FrameAdded
<1>8. /\ DOMAIN toServer = 1 .. Len(toServer) /\ Len(toServer) \in Nat
      /\ Len(toServer') = Len(toServer) + 1 /\ DOMAIN toServer' = 1 .. Len(toServer) + 1
      /\ \A i \in DOMAIN toServer : i \in DOMAIN toServer' /\ toServer'[i] = toServer[i]
      /\ \A i \in DOMAIN toServer' :
           (i \in DOMAIN toServer /\ toServer'[i] = toServer[i]) \/ (toServer'[i] = x /\ i = Len(toServer) + 1)
      /\ toServer'[Len(toServer) + 1] = x
  <2>1. toServer \in Seq(Frames(Len(calls')))
    BY <1>4 DEF Wire, Typed
  <2>2. QED
    BY <1>1, <1>6, <2>1, AppendIs
<1>9. \A m : m # op => (OnWay(m, toServer') <=> OnWay(m, toServer))
  BY <1>5, <1>8 DEF OnWay
<1>10. Wire(calls, tasks, sent, broker, executed, toServer, toClient)'
  BY <1>1, <1>7, WireNext
<1>11. Opening(state, sent, broker, executed, toServer, toClient)'
  <2>1. OnWay("declare", toServer') <=> OnWay("declare", toServer)
    BY <1>2, <1>9
  <2>2. Opening(state', sent, broker, executed, toServer', toClient)
    BY <1>1, <2>1 DEF IInv, Opening, ToOpen
  <2>3. QED
    BY <1>1, <2>2, OpeningNext
<1>12. AllSent'
  BY <1>1 DEF IInv, AllSent
<1>13. Ending'
  <2>1. CASE op = "bind"
    <3>1. OnWay("close", toServer') <=> OnWay("close", toServer)
      BY <1>9, <2>1
    <3>2. QED
      BY <1>1, <1>3, <2>1, <3>1 DEF IInv, Ending, Coming
  <2>2. CASE op = "close"
    BY <1>1, <1>3, <2>2 DEF IInv, Ending
  <2>3. QED
    BY <1>2, <2>1, <2>2
<1>14. Orderly'
  <2>1. CASE op = "bind"
    BY <1>1, <1>3, <2>1 DEF IInv, Orderly
  <2>2. CASE op = "close" /\ ~misuse'
    <3>1. ~misuse /\ state \notin {"new", "declaring"} /\ ~Closed /\ broker # "kicked"
      BY <1>1, <2>2 DEF IInv, Orderly
    <3>2. state \in {"open", "closed"}
      BY <3>1 DEF IInv, Ending, TypeOK
    <3>3. /\ broker # "idle"
          /\ ~Coming("channelOpenOk", toClient) /\ ~Coming("declareOk", toClient)
          /\ OnWay("declare", toServer) => broker # "open"
      <4>1. CASE state = "open"
        BY <4>1 DEF IInv, Opening, ToOpen
      <4>2. CASE state = "closed"
        BY <3>1, <4>2 DEF IInv, Ending, Coming
      <4>3. QED
        BY <3>2, <4>1, <4>2
    <3>4. broker # "closed" /\ ~OnWay("close", toServer)
      BY <3>1 DEF IInv, Ending
    <3>5. OnWay("declare", toServer') <=> OnWay("declare", toServer)
      BY <1>9, <2>2
    <3>6. \A k \in DOMAIN toServer' : toServer'[k].m = "close" <=> k = Len(toServer')
      BY <1>5, <1>8, <2>2, <3>4 DEF OnWay
    <3>7. toServer' # <<>>
      BY <1>8
    <3>8. QED
      BY <1>1, <2>2, <3>1, <3>3, <3>4, <3>5, <3>6, <3>7 DEF Orderly, Coming, OnWay
  <2>3. CASE misuse'
    BY <2>3 DEF Orderly
  <2>4. QED
    BY <1>2, <2>1, <2>2, <2>3
<1>15. TypeOK'
  <2>1. fired' \subseteq {i \in 1 .. Len(calls') : IsTask(calls'[i])}
    BY <1>1, <1>3
  <2>2. misuse' \in BOOLEAN
    BY <1>1 DEF IInv, TypeOK
  <2>3. QED
    BY <1>1, <1>10, <2>1, <2>2, TypeNext DEF IInv, TypeOK
<1>16. FiredWasExecuted'
  BY <1>1, <1>3, FiredNext DEF IInv
<1>17. QED
  BY <1>1, <1>10, <1>11, <1>12, <1>13, <1>14, <1>15, <1>16, OrderNext DEF IInv

-----------------------------------------------------------------------------
(* A method arrives: the steps                                             *)

\* What every method does to the end of the channel, if it does not open it.
LEMMA EndingTaken ==
  ASSUME IInv, toClient # <<>>, toClient' = Tail(toClient), calls' = calls, broker' = broker,
         OnWay("close", toServer') => OnWay("close", toServer),
         state' = "closing" => state = "closing",
         state' = "closed" => state = "closed" \/ Head(toClient) \in {"channelClose", "channelCloseOk"}
  PROVE  Ending'
<1>1. /\ Head(toClient) = toClient[1] /\ 1 \in DOMAIN toClient
      /\ \A i \in DOMAIN toClient' : i + 1 \in DOMAIN toClient /\ i + 1 # 1 /\ toClient'[i] = toClient[i + 1]
      /\ \A m : Coming(m, toClient') => Coming(m, toClient)
      /\ DOMAIN toClient = 1 .. Len(toClient) /\ DOMAIN toClient' = 1 .. Len(toClient) - 1
      /\ Len(toClient) \in Nat /\ toClient' \in Seq(Methods) /\ Coming(Head(toClient), toClient)
  <2>1. toClient \in Seq(Methods)
    BY DEF IInv, TypeOK
  <2>2. /\ DOMAIN toClient = 1 .. Len(toClient) /\ DOMAIN Tail(toClient) = 1 .. Len(toClient) - 1
        /\ Len(toClient) \in Nat /\ Tail(toClient) \in Seq(Methods)
    BY <2>1, TailIs
  <2>3. /\ Head(toClient) = toClient[1] /\ 1 \in DOMAIN toClient
        /\ \A i \in DOMAIN Tail(toClient) :
             i + 1 \in DOMAIN toClient /\ i + 1 # 1 /\ Tail(toClient)[i] = toClient[i + 1]
    BY <2>1, TailIs
  <2>4. \A m : Coming(m, Tail(toClient)) => Coming(m, toClient)
    BY <2>3 DEF Coming
  <2>5. Coming(Head(toClient), toClient)
    BY <2>3 DEF Coming
  <2>6. QED
    BY <2>2, <2>3, <2>4, <2>5
<1>2. Closed' <=> Closed
  BY DEF Closed
<1>3. \A i \in DOMAIN toClient' :
        toClient'[i] = "channelClose" =>
          /\ broker \notin {"idle", "open"}
          /\ \A j \in DOMAIN toClient' : i < j => toClient'[j] = "channelCloseOk"
  <2>1. ASSUME NEW i \in DOMAIN toClient', toClient'[i] = "channelClose"
        PROVE  /\ broker \notin {"idle", "open"}
               /\ \A j \in DOMAIN toClient' : i < j => toClient'[j] = "channelCloseOk"
    <3>1. toClient[i + 1] = "channelClose" /\ i + 1 \in DOMAIN toClient
      BY <1>1, <2>1
    <3>2. \A j \in DOMAIN toClient' : i < j => i + 1 < j + 1
      BY <1>1
    <3>3. QED
      BY <1>1, <3>1, <3>2 DEF IInv, Ending
  <2>2. QED
    BY <2>1
<1>4. ~Closed /\ Head(toClient) = "channelClose" =>
        broker \notin {"idle", "open"} /\ toClient' = <<>>
  <2>1. ASSUME ~Closed, Head(toClient) = "channelClose" PROVE toClient' = <<>>
    <3>1. \A j \in DOMAIN toClient' : toClient[j + 1] = "channelCloseOk" /\ j + 1 \in DOMAIN toClient
      <4>1. \A j \in DOMAIN toClient' : 1 < j + 1
        BY <1>1
      <4>2. QED
        BY <1>1, <2>1, <4>1 DEF IInv, Ending
    <3>2. \A j \in DOMAIN toClient : toClient[j] # "channelCloseOk"
      BY <2>1 DEF IInv, Ending, Coming
    <3>3. ~(1 \in DOMAIN toClient')
      BY <3>1, <3>2
    <3>4. QED
      BY <1>1, <3>3, EmptySeq, LenProperties
  <2>2. QED
    BY <1>1, <2>1 DEF IInv, Ending
<1>5. ~Closed =>
        /\ ~OnWay("close", toServer')
        /\ broker \notin {"closed", "kicked"}
        /\ state' # "closing"
        /\ ~Coming("channelCloseOk", toClient')
        /\ state' = "closed" => broker \notin {"idle", "open"} /\ toClient' = <<>>
  <2>1. ~Closed => ~Coming("channelCloseOk", toClient) /\ ~OnWay("close", toServer)
                   /\ broker \notin {"closed", "kicked"} /\ state # "closing"
                   /\ (state = "closed" => toClient = <<>>)
    BY DEF IInv, Ending
  <2>2. QED
    BY <1>1, <1>4, <2>1
<1>6. QED
  BY <1>2, <1>3, <1>5 DEF Ending, OnWay, Coming

\* Methods that come on a channel the program has closed in order do not open it.
LEMMA OrderlyTaken ==
  ASSUME IInv, toClient # <<>>, toClient' = Tail(toClient), calls' = calls, broker' = broker,
         misuse' = misuse,
         Closed /\ Head(toClient) \notin {"channelOpenOk", "declareOk"} =>
           toServer' = toServer /\ state' \in {"closing", "closed"}
  PROVE  Orderly'
<1>1. /\ \A m : Coming(m, toClient') => Coming(m, toClient)
      /\ Coming(Head(toClient), toClient)
  BY MethodTaken DEF IInv
<1>2. Closed' <=> Closed
  BY DEF Closed
<1>3. ASSUME ~misuse, Closed
      PROVE  toServer' = toServer /\ state' \in {"closing", "closed"}
  BY <1>1, <1>3 DEF IInv, Orderly
<1>4. ~misuse => broker # "kicked" /\ (Closed => ~Coming("channelOpenOk", toClient)
                                                 /\ ~Coming("declareOk", toClient))
  BY DEF IInv, Orderly
<1>5. QED
  BY <1>1, <1>2, <1>3, <1>4 DEF IInv, Orderly, OnWay, Coming


LEMMA DataStep ==
  ASSUME IInv, Receive, NEW st, NEW tk, NEW out,
         state' = st, st \in {"new", "declaring", "open", "closing", "closed"},
         called' \in BOOLEAN, uncaught' = FALSE,
         TasksFlush(st, calls, tk, out),
         Wire(calls, tk, sent, broker, executed, out, Tail(toClient)),
         Opening(st, sent, broker, executed, out, Tail(toClient)),
         OnWay("close", out) => OnWay("close", toServer),
         st = "closing" => state = "closing",
         st = "closed" => state = "closed" \/ Method \in {"channelClose", "channelCloseOk"},
         Closed /\ Method \notin {"channelOpenOk", "declareOk"} /\ state \in {"closing", "closed"} =>
           out = toServer /\ st \in {"closing", "closed"},
         \A i \in fired' \ fired :
           /\ i \in tasks
           /\ \/ Among(Request(calls[i], i), executed)
              \/ calls[i] = "bind_headers" /\ OnWay("bind", executed)
  PROVE  IInv'
<1>1. /\ toClient # <<>> /\ toClient' = Tail(toClient)
      /\ kind' = kind /\ calls' = calls /\ misuse' = misuse /\ broker' = broker /\ executed' = executed
  BY DEF Receive
<1>2. /\ Wire(calls, tasks', sent', broker, executed, toServer', Tail(toClient))
      /\ Opening(st, sent', broker, executed, toServer', Tail(toClient))
      /\ st = "open" => tasks' \subseteq sent'
      /\ st # "open" => toServer' = out
      /\ OnWay("close", toServer') <=> OnWay("close", out)
  <2>1. ~IsTask("close")
    BY TasksAre
  <2>2. QED
    BY <2>1, ClientStep
<1>3. Wire(calls, tasks, sent, broker, executed, toServer, toClient)'
  BY <1>1, <1>2, WireNext
<1>4. Opening(state, sent, broker, executed, toServer, toClient)'
  BY <1>1, <1>2, OpeningNext
<1>5. AllSent'
  BY <1>2 DEF AllSent
<1>6. Ending'
  BY <1>1, <1>2, EndingTaken DEF Method
<1>7. Orderly'
  <2>1. CASE misuse
    BY <1>1, <2>1 DEF Orderly
  <2>2. CASE ~misuse
    <3>1. Closed => state \in {"closing", "closed"}
      BY <2>2 DEF IInv, Orderly
    <3>2. Closed /\ Head(toClient) \notin {"channelOpenOk", "declareOk"} =>
            toServer' = toServer /\ state' \in {"closing", "closed"}
      BY <1>2, <3>1 DEF Method
    <3>3. QED
      BY <1>1, <3>2, OrderlyTaken
  <2>3. QED
    BY <2>1, <2>2
<1>8. /\ calls \in Seq(TaskOps(kind) \cup {"bind", "close"}) /\ Len(calls) \in Nat
      /\ fired \subseteq 1 .. Len(calls) /\ tasks \subseteq 1 .. Len(calls)
      /\ \A i \in tasks \cup fired : IsTask(calls[i])
  BY DEF IInv, TypeOK
<1>9. TypeOK'
  <2>1. fired' \subseteq {i \in 1 .. Len(calls') : IsTask(calls'[i])}
    BY <1>1, <1>8
  <2>2. QED
    BY <1>1, <1>3, <2>1, TypeNext DEF IInv, TypeOK
<1>10. FiredWasExecuted'
  <2>1. OnWay("bind", executed) => \E j \in 1 .. Len(calls) : Among(Request("bind", j), executed)
    <3>1. ASSUME NEW k \in DOMAIN executed, executed[k].m = "bind"
          PROVE  executed[k].id \in 1 .. Len(calls) /\ executed[k] = Request("bind", executed[k].id)
      <4>1. executed \in Seq(Executable(Len(calls)))
        BY DEF IInv, Wire, Typed
      <4>2. executed[k] \in Executable(Len(calls))
        BY <4>1, LenProperties, ElementOfSeq
      <4>3. QED
        BY <1>8, <3>1, <4>2, ExecutableIs DEF IInv, Wire, Plain
    <3>2. QED
      BY <3>1 DEF OnWay, Among
  <2>2. \A i \in fired' \ fired :
          \/ Among(Request(calls'[i], i), executed')
          \/ calls'[i] = "bind_headers" /\ \E j \in 1 .. Len(calls') : Among(Request("bind", j), executed')
    BY <1>1, <2>1
  <2>3. QED
    BY <1>1, <1>8, <2>2, FiredNext DEF IInv
<1>11. QED
  BY <1>1, <1>3, <1>4, <1>5, <1>6, <1>7, <1>9, <1>10, OrderNext DEF IInv

\* What is known when a method is at the head.
LEMMA HeadIs ==
  ASSUME IInv, toClient # <<>>
  PROVE  /\ Wire(calls, tasks, sent, broker, executed, toServer, Tail(toClient))
         /\ \A m : Coming(m, Tail(toClient)) => Coming(m, toClient)
         /\ Coming(Method, toClient) /\ Method \in Methods
         /\ Method \in {"channelOpenOk", "declareOk"} =>
              /\ ~ToOpen(broker, toServer, Tail(toClient))
              /\ sent = {} /\ state # "open"
         /\ Opening(state, sent, broker, executed, toServer, Tail(toClient))
         /\ uncaught = FALSE /\ called \in BOOLEAN
         /\ state \in {"new", "declaring", "open", "closing", "closed"}
<1>1. /\ Wire(calls, tasks, sent, broker, executed, toServer, Tail(toClient))
      /\ \A m : Coming(m, Tail(toClient)) => Coming(m, toClient)
      /\ Coming(Method, toClient) /\ Method \in Methods
      /\ Method \in {"channelOpenOk", "declareOk"} =>
           /\ ~ToOpen(broker, toServer, Tail(toClient))
           /\ ToOpen(broker, toServer, toClient)
  BY MethodTaken DEF IInv, Method
<1>2. Opening(state, sent, broker, executed, toServer, Tail(toClient))
  BY <1>1 DEF IInv, Opening, ToOpen
<1>3. QED
  BY <1>1, <1>2 DEF IInv, TypeOK, Opening

LEMMA HandleTaskReplyStep ==
  ASSUME IInv, HandleTaskReply
  PROVE  IInv'
<1>1. /\ Receive /\ Waiting(Method) # {}
      /\ fired' = fired \cup Matches(Waiting(Method))
      /\ TasksFlush(state, calls, tasks \ Matches(Waiting(Method)), toServer)
      /\ state' = state /\ called' = called /\ uncaught' = uncaught
  BY DEF HandleTaskReply
<1>2. toClient # <<>>
  BY <1>1 DEF Receive
<1>3. tasks \subseteq Nat /\ \E i \in tasks : Reply(calls[i]) = Method
  BY <1>1 DEF IInv, TypeOK, Waiting
<1>4. PICK x \in tasks :
        /\ Reply(calls[x]) = Method /\ \A j \in tasks : Reply(calls[j]) = Method => x <= j
        /\ Matches(Waiting(Method)) = {x}
  BY <1>3, FirstIs DEF Waiting
<1>5. /\ Wire(calls, tasks \ {x}, sent, broker, executed, toServer, Tail(toClient))
      /\ \/ Among(Request(calls[x], x), executed)
         \/ calls[x] = "bind_headers" /\ OnWay("bind", executed)
  BY <1>2, <1>4, TaskDone DEF IInv, Method
<1>6. TasksFlush(state, calls, tasks \ {x}, toServer) /\ fired' = fired \cup {x}
  BY <1>1, <1>4
<1>7. /\ Opening(state, sent, broker, executed, toServer, Tail(toClient))
      /\ uncaught = FALSE /\ called \in BOOLEAN
      /\ state \in {"new", "declaring", "open", "closing", "closed"}
  BY <1>2, HeadIs
<1>8. QED
  BY <1>1, <1>5, <1>6, <1>7, DataStep

\* A method no task waits for.
LEMMA OnMethodStep ==
  ASSUME IInv, NEW m, NEW st, NEW cb \in BOOLEAN, NEW out, OnMethod(m, st, cb, out),
         st \in {"new", "declaring", "open", "closing", "closed"},
         Wire(calls, tasks, sent, broker, executed, out, Tail(toClient)),
         Opening(st, sent, broker, executed, out, Tail(toClient)),
         OnWay("close", out) => OnWay("close", toServer),
         st = "closing" => state = "closing",
         st = "closed" => state = "closed" \/ m \in {"channelClose", "channelCloseOk"},
         m \notin {"channelOpenOk", "declareOk"} => out = toServer /\ st \in {"closing", "closed"}
  PROVE  IInv'
<1>1. /\ Receive /\ Method = m /\ state' = st /\ called' = (called \/ cb)
      /\ TasksFlush(st, calls, tasks, out) /\ fired' = fired /\ uncaught' = uncaught
  BY DEF OnMethod
<1>2. uncaught = FALSE /\ called \in BOOLEAN
  BY <1>1, HeadIs DEF Receive
<1>3. called' \in BOOLEAN /\ uncaught' = FALSE /\ fired' \ fired = {}
  BY <1>1, <1>2
<1>4. QED
  BY <1>1, <1>3, DataStep

LEMMA ChannelOpenOkStep ==
  ASSUME IInv, ChannelOpenOk
  PROVE  IInv'
<1>1. toClient # <<>> /\ Method = "channelOpenOk"
  BY Zenon DEF ChannelOpenOk, OnMethod, Receive
<1>2. /\ Wire(calls, tasks, sent, broker, executed, toServer, Tail(toClient))
      /\ ~ToOpen(broker, toServer, Tail(toClient))
      /\ sent = {} /\ state # "open"
      /\ Opening(state, sent, broker, executed, toServer, Tail(toClient))
  BY <1>1, HeadIs
<1>3. CASE kind = "prebaked"
  <2>1. OnMethod("channelOpenOk", "open", FALSE, toServer)
    BY <1>3, Zenon DEF ChannelOpenOk
  <2>2. Opening("open", sent, broker, executed, toServer, Tail(toClient))
    BY <1>2, <1>3 DEF Opening, Ready
  <2>3. QED
    BY <1>2, <2>1, <2>2, OnMethodStep
<1>4. CASE kind # "prebaked"
  <2> DEFINE x == Request("declare", 0)
             out == Append(toServer, x)
  <2>1. OnMethod("channelOpenOk", "declaring", FALSE, out)
    BY <1>4, Zenon DEF ChannelOpenOk
  <2>2. Wire(calls, tasks, sent, broker, executed, out, Tail(toClient))
    BY <1>2, <1>4, DeclareAdded
  <2>3. ~Coming("declareOk", Tail(toClient))
    BY <1>2 DEF ToOpen
  <2>4. Opening("declaring", sent, broker, executed, out, Tail(toClient))
    BY <1>2, <2>3 DEF Opening
  <2>5. OnWay("close", out) => OnWay("close", toServer)
    <3>1. toServer \in Seq(Frames(Len(calls))) /\ out \in Seq(Frames(Len(calls)))
      BY <1>2, <2>2 DEF Wire, Typed
    <3>2. x.m = "declare"
      BY RequestIs
    <3> HIDE DEF x
    <3>3. \A i \in DOMAIN out : (i \in DOMAIN toServer /\ out[i] = toServer[i]) \/ out[i] = x
      <4>1. \A S : toServer \in Seq(S) /\ x \in S =>
              \A i \in DOMAIN out : (i \in DOMAIN toServer /\ out[i] = toServer[i]) \/ out[i] = x
        BY AppendIs
      <4>2. toServer \in Seq(Frames(Len(calls)) \cup {x}) /\ x \in Frames(Len(calls)) \cup {x}
        BY <3>1, SeqMonotonic
      <4>3. QED
        BY <4>1, <4>2
    <3>4. QED
      BY <3>2, <3>3 DEF OnWay
  <2> HIDE DEF out, x
  <2>6. QED
    BY <2>1, <2>2, <2>4, <2>5, OnMethodStep
<1>5. QED
  BY <1>3, <1>4

LEMMA DeclareOkStep ==
  ASSUME IInv, DeclareOk
  PROVE  IInv'
<1>1. OnMethod("declareOk", "open", TRUE, toServer)
  BY DEF DeclareOk, Declared
<1>2. toClient # <<>> /\ Method = "declareOk"
  BY <1>1 DEF OnMethod, Receive
<1>3. /\ Wire(calls, tasks, sent, broker, executed, toServer, Tail(toClient))
      /\ ~ToOpen(broker, toServer, Tail(toClient))
      /\ Coming("declareOk", toClient) /\ sent = {}
      /\ Opening(state, sent, broker, executed, toServer, Tail(toClient))
  BY <1>2, HeadIs
<1>4. Opening("open", sent, broker, executed, toServer, Tail(toClient))
  BY <1>3 DEF IInv, Opening
<1>5. QED
  BY <1>1, <1>3, <1>4, OnMethodStep

LEMMA CloseStep ==
  ASSUME IInv, ChannelClose \/ CloseOk
  PROVE  IInv'
<1>1. PICK m \in {"channelClose", "channelCloseOk"} : OnMethod(m, "closed", FALSE, toServer)
  BY DEF ChannelClose, CloseOk
<1>2. toClient # <<>>
  BY <1>1 DEF OnMethod, Receive
<1>3. /\ Wire(calls, tasks, sent, broker, executed, toServer, Tail(toClient))
      /\ Opening(state, sent, broker, executed, toServer, Tail(toClient))
  BY <1>2, HeadIs
<1>4. Opening("closed", sent, broker, executed, toServer, Tail(toClient))
  BY <1>3 DEF Opening
<1>5. QED
  BY <1>1, <1>3, <1>4, OnMethodStep

\* Every reply that would reach the default case has a task that waits for it.
LEMMA OtherMethodStep ==
  ASSUME IInv, OtherMethod
  PROVE  IInv'
<1>1. /\ Receive /\ Waiting(Method) = {}
      /\ Method \notin {"channelOpenOk", "declareOk", "channelClose", "channelCloseOk"}
      /\ uncaught' = (uncaught \/ Method \notin Ignored(kind))
      /\ TasksFlush(state, calls, tasks, toServer)
      /\ state' = state /\ fired' = fired /\ called' = called
  BY DEF OtherMethod
<1>2. toClient # <<>>
  BY <1>1 DEF Receive
<1>3. /\ Wire(calls, tasks, sent, broker, executed, toServer, Tail(toClient))
      /\ Opening(state, sent, broker, executed, toServer, Tail(toClient))
      /\ uncaught = FALSE /\ called \in BOOLEAN /\ Method \in Methods
      /\ state \in {"new", "declaring", "open", "closing", "closed"}
  BY <1>2, HeadIs
<1>4. 1 \in DOMAIN toClient /\ Method = toClient[1]
  BY <1>2, MethodTaken DEF IInv, Method
<1>5. ~Expected(Method, executed)
  <2>1. PICK w \in [DOMAIN toClient -> 0 .. MaxCalls] : Pairs(w, calls, tasks, executed, toClient)
    BY DEF IInv, Wire, Paired
  <2>2. Expected(Method, executed) => w[1] \in tasks /\ Reply(calls[w[1]]) = Method
    BY <1>4, <2>1 DEF Pairs
  <2>3. QED
    BY <1>1, <2>2 DEF Waiting
<1>6. Method \in Ignored(kind)
  <2>1. kind \in {"queue", "exchange", "prebaked"}
    BY Constants DEF IInv, TypeOK
  <2>2. kind # "queue" => Method \in {"deleteOk", "basicReturn"}
    BY <1>1, <1>4 DEF IInv, Wire, Plain
  <2>3. kind = "queue" => Method # "basicReturn"
    BY <1>4 DEF IInv, Wire, Plain
  <2>4. Method \notin {"basicConsumeOk", "queueUnbindOk", "deleteOk"}
    BY <1>5 DEF Expected
  <2>5. QED
    BY <1>1, <1>3, <2>1, <2>2, <2>3, <2>4 DEF Ignored, Methods
<1>7. uncaught' = FALSE /\ fired' \ fired = {}
  BY <1>1, <1>3, <1>6
<1>8. QED
  BY <1>1, <1>3, <1>7, DataStep


-----------------------------------------------------------------------------
(* Steps of the broker                                                     *)

\* The frames after the first.
LEMMA FrameTaken ==
  ASSUME NEW cs, NEW tk, NEW sn, NEW b, NEW ex, NEW ts, NEW tc,
         Wire(cs, tk, sn, b, ex, ts, tc), ts # <<>>
  PROVE  /\ Head(ts) = ts[1] /\ 1 \in DOMAIN ts /\ Head(ts) \in Frames(Len(cs))
         /\ Tail(ts) \in Seq(Frames(Len(cs)))
         /\ \A i \in DOMAIN Tail(ts) : i + 1 \in DOMAIN ts /\ 1 < i + 1 /\ Tail(ts)[i] = ts[i + 1]
         /\ \A m : OnWay(m, Tail(ts)) => OnWay(m, ts)
         /\ OnWay(Head(ts).m, ts)
         /\ \A i \in DOMAIN Tail(ts) : Tail(ts)[i].m # "channelOpen"
         /\ \A i, j \in DOMAIN Tail(ts) :
              Tail(ts)[i].m = "declare" /\ Tail(ts)[j].m = "declare" => i = j
         /\ Head(ts).m = "declare" => ~OnWay("declare", Tail(ts))
         /\ \A k \in DOMAIN Tail(ts) :
              IsTask(Tail(ts)[k].m) => Tail(ts)[k].id \in sn /\ Tail(ts)[k].m = cs[Tail(ts)[k].id]
         /\ \A j, k \in DOMAIN Tail(ts) :
              j < k /\ IsTask(Tail(ts)[j].m) /\ IsTask(Tail(ts)[k].m) => Tail(ts)[j].id < Tail(ts)[k].id
         /\ \A j \in DOMAIN ex, k \in DOMAIN Tail(ts) :
              IsTask(ex[j].m) /\ IsTask(Tail(ts)[k].m) => ex[j].id < Tail(ts)[k].id
         /\ \A k \in DOMAIN Tail(ts) :
              IsTask(Head(ts).m) /\ IsTask(Tail(ts)[k].m) => Head(ts).id < Tail(ts)[k].id
         /\ \A x : Among(x, ts) => x = Head(ts) \/ Among(x, Tail(ts))
         /\ \A k \in DOMAIN Tail(ts) :
              /\ Tail(ts)[k].m \in {"bind", "qos"} => kind = "queue"
              /\ Tail(ts)[k].m \in {"bind", "close"} => Tail(ts)[k].id \in 1 .. Len(cs)
         /\ DOMAIN ts = 1 .. Len(ts) /\ DOMAIN Tail(ts) = 1 .. Len(ts) - 1 /\ Len(ts) \in Nat
         /\ Len(Tail(ts)) = Len(ts) - 1
<1> DEFINE F == Frames(Len(cs))
           new == Tail(ts)
<1>1. ts \in Seq(F)
  BY DEF Wire, Typed
<1> HIDE DEF F
<1>2. /\ Head(ts) \in F /\ new \in Seq(F) /\ Head(ts) = ts[1]
      /\ Len(ts) \in Nat \ {0} /\ DOMAIN ts = 1 .. Len(ts) /\ 1 \in DOMAIN ts
      /\ DOMAIN new = 1 .. Len(ts) - 1 /\ Len(new) = Len(ts) - 1
      /\ \A i \in DOMAIN new : i + 1 \in DOMAIN ts /\ i + 1 # 1 /\ new[i] = ts[i + 1]
      /\ \A i \in DOMAIN ts : i = 1 \/ (i - 1 \in DOMAIN new /\ new[i - 1] = ts[i])
  BY <1>1, TailIs
<1> HIDE DEF new
<1>3. \A i \in DOMAIN new : 1 < i + 1 /\ i \in Int
  BY <1>2
<1>4. /\ \A m : OnWay(m, new) => OnWay(m, ts)
      /\ OnWay(Head(ts).m, ts)
      /\ \A x : Among(x, ts) => x = Head(ts) \/ Among(x, new)
  BY <1>2 DEF OnWay, Among
<1>5. \A i \in DOMAIN new : new[i].m # "channelOpen"
  BY <1>2 DEF Wire, Handshake
<1>6. /\ \A i, j \in DOMAIN new : new[i].m = "declare" /\ new[j].m = "declare" => i = j
      /\ Head(ts).m = "declare" => ~OnWay("declare", new)
  <2>1. \A i, j \in DOMAIN ts : ts[i].m = "declare" /\ ts[j].m = "declare" => i = j
    BY DEF Wire, Handshake
  <2>2. \A i, j \in DOMAIN new : new[i].m = "declare" /\ new[j].m = "declare" => i + 1 = j + 1
    BY <1>2, <2>1
  <2>3. Head(ts).m = "declare" => ~OnWay("declare", new)
    BY <1>2, <2>1 DEF OnWay
  <2>4. QED
    BY <1>3, <2>2, <2>3
<1>7. \A k \in DOMAIN new : IsTask(new[k].m) => new[k].id \in sn /\ new[k].m = cs[new[k].id]
  BY <1>2 DEF Wire, Ascending
<1>8. \A j, k \in DOMAIN new : j < k /\ IsTask(new[j].m) /\ IsTask(new[k].m) => new[j].id < new[k].id
  <2>1. ASSUME NEW j \in DOMAIN new, NEW k \in DOMAIN new, j < k, IsTask(new[j].m), IsTask(new[k].m)
        PROVE  new[j].id < new[k].id
    <3>1. j + 1 < k + 1 /\ j + 1 \in DOMAIN ts /\ k + 1 \in DOMAIN ts
          /\ new[j] = ts[j + 1] /\ new[k] = ts[k + 1]
      BY <1>2, <1>3, <2>1
    <3>2. QED
      BY <2>1, <3>1 DEF Wire, Ascending
  <2>2. QED
    BY <2>1
<1>9. \A k \in DOMAIN new : IsTask(Head(ts).m) /\ IsTask(new[k].m) => Head(ts).id < new[k].id
  BY <1>2, <1>3 DEF Wire, Ascending
<1>10. \A j \in DOMAIN ex, k \in DOMAIN new : IsTask(ex[j].m) /\ IsTask(new[k].m) => ex[j].id < new[k].id
  BY <1>2 DEF Wire, Ascending
<1>11. \A k \in DOMAIN new :
         /\ new[k].m \in {"bind", "qos"} => kind = "queue"
         /\ new[k].m \in {"bind", "close"} => new[k].id \in 1 .. Len(cs)
  BY <1>2 DEF Wire, Plain
<1>12. QED
  BY <1>2, <1>3, <1>4, <1>5, <1>6, <1>7, <1>8, <1>9, <1>10, <1>11 DEF new, F

\* A frame is taken and nothing is executed for it, by a broker that does not
\* execute requests any more, or that opens the channel.
LEMMA FrameDropped ==
  ASSUME NEW cs, NEW tk, NEW sn, NEW b, NEW c, NEW ex, NEW ts, NEW tc,
         Wire(cs, tk, sn, b, ex, ts, tc), ts # <<>>, c # "idle", c = "open" => sn = {}
  PROVE  Wire(cs, tk, sn, c, ex, Tail(ts), tc)
<1> DEFINE new == Tail(ts)
<1>1. /\ new \in Seq(Frames(Len(cs)))
      /\ \A m : OnWay(m, new) => OnWay(m, ts)
      /\ \A i \in DOMAIN new : new[i].m # "channelOpen"
      /\ \A i, j \in DOMAIN new : new[i].m = "declare" /\ new[j].m = "declare" => i = j
      /\ \A k \in DOMAIN new : IsTask(new[k].m) => new[k].id \in sn /\ new[k].m = cs[new[k].id]
      /\ \A j, k \in DOMAIN new : j < k /\ IsTask(new[j].m) /\ IsTask(new[k].m) => new[j].id < new[k].id
      /\ \A j \in DOMAIN ex, k \in DOMAIN new : IsTask(ex[j].m) /\ IsTask(new[k].m) => ex[j].id < new[k].id
      /\ \A k \in DOMAIN new :
           /\ new[k].m \in {"bind", "qos"} => kind = "queue"
           /\ new[k].m \in {"bind", "close"} => new[k].id \in 1 .. Len(cs)
  BY FrameTaken
<1> HIDE DEF new
<1>2. Typed(cs, tk, sn, ex, new, tc)
  BY <1>1 DEF Wire, Typed
<1>3. Handshake(c, new, tc)
  BY <1>1 DEF Wire, Handshake
<1>4. Ascending(cs, tk, sn, ex, new)
  BY <1>1 DEF Wire, Ascending
<1>5. Served(cs, tk, sn, c, ex, new)
  BY DEF Wire, Served
<1>6. Plain(cs, ex, new, tc)
  BY <1>1 DEF Wire, Plain
<1>7. QED
  BY <1>2, <1>3, <1>4, <1>5, <1>6 DEF Wire, new

\* The broker sends a method that no task waits for.
LEMMA MethodSent ==
  ASSUME NEW cs, NEW tk, NEW sn, NEW b, NEW ex, NEW ts, NEW tc, NEW m \in Methods,
         Wire(cs, tk, sn, b, ex, ts, tc), ~Expected(m, ex), b # "idle",
         m = "channelOpenOk" => ~OnWay("declare", ts) /\ tc = <<>>,
         m = "declareOk" => ~OnWay("declare", ts) /\ ~Coming("declareOk", tc)
                            /\ ~Coming("channelOpenOk", tc) /\ kind # "prebaked",
         m \in {"queueBindOk", "basicConsumeOk", "queueUnbindOk", "basicQosOk"} => kind = "queue",
         m = "basicReturn" => kind # "queue"
  PROVE  Wire(cs, tk, sn, b, ex, ts, Append(tc, m))
<1> DEFINE new == Append(tc, m)
<1>1. /\ new \in Seq(Methods) /\ DOMAIN new = 1 .. Len(tc) + 1
      /\ DOMAIN tc = 1 .. Len(tc) /\ Len(tc) \in Nat
      /\ \A i \in DOMAIN tc : i \in DOMAIN new /\ new[i] = tc[i]
      /\ \A i \in DOMAIN new : (i \in DOMAIN tc /\ new[i] = tc[i]) \/ (new[i] = m /\ i = Len(tc) + 1)
  BY AppendIs DEF Wire, Typed
<1>2. tc = <<>> => Len(tc) = 0
  OBVIOUS
<1> HIDE DEF new
<1>3. \A p : p # m => (Coming(p, new) <=> Coming(p, tc))
  BY <1>1 DEF Coming
<1>4. Typed(cs, tk, sn, ex, ts, new)
  BY <1>1 DEF Wire, Typed
<1>5. Handshake(b, ts, new)
  <2>1. \A i \in DOMAIN new : new[i] = "channelOpenOk" => i = 1
    BY <1>1, <1>2 DEF Wire, Handshake
  <2>2. \A i, j \in DOMAIN new : new[i] = "declareOk" /\ new[j] = "declareOk" => i = j
    BY <1>1 DEF Wire, Handshake, Coming
  <2>3. Coming("channelOpenOk", new) => ~OnWay("declare", ts) /\ ~Coming("declareOk", new)
    <3>1. CASE m = "channelOpenOk"
      BY <1>3, <3>1 DEF Coming
    <3>2. CASE m # "channelOpenOk"
      BY <1>3, <3>2 DEF Wire, Handshake
    <3>3. QED
      BY <3>1, <3>2
  <2>4. OnWay("declare", ts) => ~Coming("declareOk", new)
    BY <1>3 DEF Wire, Handshake
  <2>5. OnWay("declare", ts) \/ Coming("declareOk", new) => kind # "prebaked"
    BY <1>3 DEF Wire, Handshake
  <2>6. QED
    BY <2>1, <2>2, <2>3, <2>4, <2>5 DEF Wire, Handshake
<1>6. Paired(cs, tk, ex, new)
  <2>1. PICK w \in [DOMAIN tc -> 0 .. MaxCalls] : Pairs(w, cs, tk, ex, tc)
    BY DEF Wire, Paired
  <2> DEFINE v == [i \in DOMAIN new |-> IF i \in DOMAIN tc THEN w[i] ELSE 0]
  <2>2. v \in [DOMAIN new -> 0 .. MaxCalls] /\ \A i \in DOMAIN tc : v[i] = w[i]
    BY <1>1, <2>1, Constants
  <2> HIDE DEF v
  <2>3. \A i \in DOMAIN new : Expected(new[i], ex) => i \in DOMAIN tc /\ new[i] = tc[i] /\ v[i] = w[i]
    BY <1>1, <2>2
  <2>4. Pairs(v, cs, tk, ex, new)
    <3>1. \A k \in DOMAIN new : Expected(new[k], ex) =>
            v[k] \in tk /\ Reply(cs[v[k]]) = new[k] /\ Among(Request(cs[v[k]], v[k]), ex)
      BY <2>1, <2>3 DEF Pairs
    <3>2. \A j, k \in DOMAIN new : j < k /\ new[j] = new[k] /\ Expected(new[j], ex) => v[j] < v[k]
      BY <2>1, <2>3 DEF Pairs
    <3>3. QED
      BY <3>1, <3>2 DEF Pairs
  <2>5. QED
    BY <2>2, <2>4 DEF Paired
<1>7. Plain(cs, ex, ts, new)
  BY <1>1 DEF Wire, Plain, Methods
<1>8. QED
  BY <1>4, <1>5, <1>6, <1>7 DEF Wire, new

\* A reply is sent to the task y, which the broker has executed last.  ez are
\* the requests executed before.
LEMMA ReplySent ==
  ASSUME NEW cs, NEW tk, NEW sn, NEW b, NEW ex, NEW ts, NEW tc, NEW m \in Methods, NEW ez, NEW y,
         Wire(cs, tk, sn, b, ex, ts, tc), b # "idle",
         m \notin {"channelOpenOk", "declareOk", "basicReturn"},
         kind # "queue" => m = "deleteOk",
         y \in tk, Reply(cs[y]) = m, Among(Request(cs[y], y), ex),
         Paired(cs, tk, ez, tc),
         \A p : Expected(p, ex) => Expected(p, ez),
         \A z : Among(z, ez) => Among(z, ex),
         \A k \in DOMAIN ez : IsTask(ez[k].m) => ez[k].id < y
  PROVE  Wire(cs, tk, sn, b, ex, ts, Append(tc, m))
<1> DEFINE new == Append(tc, m)
<1>1. /\ new \in Seq(Methods) /\ DOMAIN new = 1 .. Len(tc) + 1
      /\ DOMAIN tc = 1 .. Len(tc) /\ Len(tc) \in Nat
      /\ \A i \in DOMAIN tc : i \in DOMAIN new /\ new[i] = tc[i]
      /\ \A i \in DOMAIN new : (i \in DOMAIN tc /\ new[i] = tc[i]) \/ (new[i] = m /\ i = Len(tc) + 1)
  BY AppendIs DEF Wire, Typed
<1> HIDE DEF new
<1>2. \A p : p # m => (Coming(p, new) <=> Coming(p, tc))
  BY <1>1 DEF Coming
<1>3. Typed(cs, tk, sn, ex, ts, new)
  BY <1>1 DEF Wire, Typed
<1>4. Handshake(b, ts, new)
  <2>1. \A i \in DOMAIN new : new[i] \in {"channelOpenOk", "declareOk"} =>
          i \in DOMAIN tc /\ new[i] = tc[i]
    BY <1>1
  <2>2. /\ Coming("channelOpenOk", new) <=> Coming("channelOpenOk", tc)
        /\ Coming("declareOk", new) <=> Coming("declareOk", tc)
    BY <1>2
  <2>3. QED
    BY <2>1, <2>2 DEF Wire, Handshake
<1>5. Paired(cs, tk, ex, new)
  <2>1. PICK w \in [DOMAIN tc -> 0 .. MaxCalls] : Pairs(w, cs, tk, ez, tc)
    BY DEF Paired
  <2> DEFINE v == [i \in DOMAIN new |-> IF i \in DOMAIN tc THEN w[i] ELSE y]
  <2>2. y \in 0 .. MaxCalls /\ tk \subseteq 1 .. Len(cs) /\ \A i \in tk : IsTask(cs[i])
    BY Constants DEF Wire, Typed
  <2>3. /\ v \in [DOMAIN new -> 0 .. MaxCalls] /\ \A i \in DOMAIN tc : v[i] = w[i]
        /\ \A i \in DOMAIN new : i \notin DOMAIN tc => v[i] = y
    BY <1>1, <2>1, <2>2
  <2> HIDE DEF v
  <2>4. \A k \in DOMAIN tc : Expected(tc[k], ex) =>
          /\ w[k] \in tk /\ Reply(cs[w[k]]) = tc[k]
          /\ Among(Request(cs[w[k]], w[k]), ez) /\ Among(Request(cs[w[k]], w[k]), ex)
    BY <2>1 DEF Pairs
  <2>5. \A k \in DOMAIN tc : Expected(tc[k], ex) => w[k] < y
    <3>1. ASSUME NEW k \in DOMAIN tc, Expected(tc[k], ex) PROVE w[k] < y
      <4>1. PICK i \in DOMAIN ez : ez[i] = Request(cs[w[k]], w[k])
        BY <2>4, <3>1 DEF Among
      <4>2. ez[i].id = w[k] /\ ez[i].m = cs[w[k]] /\ IsTask(cs[w[k]])
        BY <2>2, <2>4, <3>1, <4>1, RequestIs
      <4>3. QED
        BY <4>2
    <3>2. QED
      BY <3>1
  <2>6. ASSUME NEW k \in DOMAIN new, Expected(new[k], ex)
        PROVE  v[k] \in tk /\ Reply(cs[v[k]]) = new[k] /\ Among(Request(cs[v[k]], v[k]), ex)
    <3>1. CASE k \in DOMAIN tc
      BY <1>1, <2>3, <2>4, <2>6, <3>1
    <3>2. CASE k \notin DOMAIN tc
      BY <1>1, <2>3, <3>2
    <3>3. QED
      BY <3>1, <3>2
  <2>7. ASSUME NEW j \in DOMAIN new, NEW k \in DOMAIN new,
               j < k, new[j] = new[k], Expected(new[j], ex)
        PROVE  v[j] < v[k]
    <3>1. j \in DOMAIN tc /\ new[j] = tc[j] /\ v[j] = w[j]
      BY <1>1, <2>3, <2>7
    <3>2. CASE k \in DOMAIN tc
      BY <1>1, <2>1, <2>3, <2>7, <3>1, <3>2 DEF Pairs
    <3>3. CASE k \notin DOMAIN tc
      BY <2>3, <2>5, <2>7, <3>1, <3>3
    <3>4. QED
      BY <3>2, <3>3
  <2>8. Pairs(v, cs, tk, ex, new)
    BY <2>6, <2>7 DEF Pairs
  <2>9. QED
    BY <2>3, <2>8 DEF Paired
<1>6. Plain(cs, ex, ts, new)
  BY <1>1 DEF Wire, Plain
<1>7. QED
  BY <1>3, <1>4, <1>5, <1>6 DEF Wire, new

\* The broker executes the request at the head.
LEMMA RequestExecuted ==
  ASSUME NEW cs, NEW tk, NEW sn, NEW ex, NEW ts, NEW tc,
         Wire(cs, tk, sn, "open", ex, ts, tc), ts # <<>>, Head(ts).m # "close"
  PROVE  /\ Wire(cs, tk, sn, "open", Append(ex, Head(ts)), Tail(ts), tc)
         /\ \A z : Among(z, ex) => Among(z, Append(ex, Head(ts)))
         /\ \A m : OnWay(m, Append(ex, Head(ts))) <=> OnWay(m, ex) \/ m = Head(ts).m
         /\ IsTask(Head(ts).m) =>
              /\ Head(ts).id \in sn /\ Head(ts).m = cs[Head(ts).id]
              /\ \A k \in DOMAIN ex : IsTask(ex[k].m) => ex[k].id < Head(ts).id
              /\ Among(Request(Head(ts).m, Head(ts).id), Append(ex, Head(ts)))
              /\ Expected(Reply(Head(ts).m), ex) => Head(ts).id \in tk
         /\ \A k \in DOMAIN Append(ex, Head(ts)) :
              \/ k \in DOMAIN ex /\ Append(ex, Head(ts))[k] = ex[k]
              \/ Append(ex, Head(ts))[k] = Head(ts) /\ k = Len(ex) + 1
         /\ DOMAIN ex = 1 .. Len(ex) /\ Len(ex) \in Nat
         /\ \A k \in DOMAIN ex : Append(ex, Head(ts))[k] = ex[k]
         /\ Head(ts).m \in Ops \cup {"declare", "qos"}
<1> DEFINE F == Frames(Len(cs))
           E == Executable(Len(cs))
           x == Head(ts)
           new == Tail(ts)
           ey == Append(ex, x)
<1>1. /\ x = ts[1] /\ 1 \in DOMAIN ts /\ x \in F
      /\ new \in Seq(F)
      /\ \A m : OnWay(m, new) => OnWay(m, ts)
      /\ \A i \in DOMAIN new : new[i].m # "channelOpen"
      /\ \A i, j \in DOMAIN new : new[i].m = "declare" /\ new[j].m = "declare" => i = j
      /\ \A k \in DOMAIN new : IsTask(new[k].m) => new[k].id \in sn /\ new[k].m = cs[new[k].id]
      /\ \A j, k \in DOMAIN new : j < k /\ IsTask(new[j].m) /\ IsTask(new[k].m) => new[j].id < new[k].id
      /\ \A j \in DOMAIN ex, k \in DOMAIN new : IsTask(ex[j].m) /\ IsTask(new[k].m) => ex[j].id < new[k].id
      /\ \A k \in DOMAIN new : IsTask(x.m) /\ IsTask(new[k].m) => x.id < new[k].id
      /\ \A z : Among(z, ts) => z = x \/ Among(z, new)
      /\ \A k \in DOMAIN new :
           /\ new[k].m \in {"bind", "qos"} => kind = "queue"
           /\ new[k].m \in {"bind", "close"} => new[k].id \in 1 .. Len(cs)
  BY FrameTaken, SMTT(60)
<1>2. x.m # "channelOpen"
  BY <1>1 DEF Wire, Handshake
<1>3. Len(cs) \in Nat /\ ex \in Seq(E)
  BY DEF Wire, Typed
<1>4. x \in E /\ x = Request(x.m, x.id) /\ x.m \in Ops \cup {"declare", "qos"} /\ x.id \in Nat
  BY <1>1, <1>2, <1>3, FrameIs
<1> HIDE DEF x, new, E, F
<1>5. /\ ey \in Seq(E) /\ DOMAIN ey = 1 .. Len(ex) + 1
      /\ DOMAIN ex = 1 .. Len(ex) /\ Len(ex) \in Nat
      /\ \A i \in DOMAIN ex : i \in DOMAIN ey /\ ey[i] = ex[i]
      /\ \A i \in DOMAIN ey : (i \in DOMAIN ex /\ ey[i] = ex[i]) \/ (ey[i] = x /\ i = Len(ex) + 1)
      /\ Len(ex) + 1 \in DOMAIN ey /\ ey[Len(ex) + 1] = x
  BY <1>3, <1>4, AppendIs
<1> HIDE DEF ey
<1>6. /\ \A z : Among(z, ey) <=> Among(z, ex) \/ z = x
      /\ \A m : OnWay(m, ey) <=> OnWay(m, ex) \/ m = x.m
  BY <1>5 DEF Among, OnWay
<1>7. \A m : Expected(m, ey) => Expected(m, ex)
  BY <1>6 DEF Expected
<1>8. IsTask(x.m) =>
        /\ x.id \in sn /\ x.m = cs[x.id]
        /\ \A k \in DOMAIN ex : IsTask(ex[k].m) => ex[k].id < x.id
  BY <1>1 DEF Wire, Ascending
<1>9. \A k \in DOMAIN ex : IsTask(ex[k].m) => ex[k].id \in sn /\ ex[k].m = cs[ex[k].id]
  BY DEF Wire, Ascending
<1>10. sn \subseteq Nat /\ tk \subseteq Nat /\ \A i \in tk \cup sn : IsTask(cs[i])
  BY DEF Wire, Typed
<1>11. ASSUME IsTask(x.m), Expected(Reply(x.m), ex) PROVE x.id \in tk
  <2>1. x.id \in tk \/ Among(Request(x.m, x.id), ex)
    BY <1>8, <1>11 DEF Wire, Served
  <2>2. ASSUME Among(Request(x.m, x.id), ex) PROVE FALSE
    <3>1. PICK k \in DOMAIN ex : ex[k] = x
      BY <1>4, <2>2 DEF Among
    <3>2. x.id < x.id
      BY <1>8, <1>11, <3>1
    <3>3. QED
      BY <1>4, <3>2
  <2>3. QED
    BY <2>1, <2>2
<1>12. Typed(cs, tk, sn, ey, new, tc)
  BY <1>1, <1>5 DEF Wire, Typed, F, E
<1>13. Handshake("open", new, tc)
  BY <1>1 DEF Wire, Handshake
<1>14. Ascending(cs, tk, sn, ey, new)
  <2>1. \A k \in DOMAIN ey : IsTask(ey[k].m) => ey[k].id \in sn /\ ey[k].m = cs[ey[k].id]
    BY <1>5, <1>8, <1>9
  <2>2. \A j \in DOMAIN ey, k \in DOMAIN new : IsTask(ey[j].m) /\ IsTask(new[k].m) => ey[j].id < new[k].id
    BY <1>1, <1>5
  <2>3. \A i \in sn, j \in tk \ sn : i < j
    BY DEF Wire, Ascending
  <2>4. QED
    BY <1>1, <2>1, <2>2, <2>3 DEF Ascending
<1>15. Served(cs, tk, sn, "open", ey, new)
  <2>1. \A i \in sn : Among(Request(cs[i], i), ey) \/ Among(Request(cs[i], i), new)
    BY <1>1, <1>6 DEF Wire, Served
  <2>2. ASSUME NEW i \in sn, NEW j \in tk, j < i, Among(Request(cs[i], i), ey)
        PROVE  Among(Request(cs[j], j), ey)
    <3>1. CASE Among(Request(cs[i], i), ex)
      BY <1>6, <2>2, <3>1 DEF Wire, Served
    <3>2. CASE Request(cs[i], i) = x
      <4>1. x.m = cs[i] /\ x.id = i /\ IsTask(x.m)
        BY <1>10, <3>2, RequestIs
      <4>2. j \in sn
        BY <1>10, <2>2 DEF Wire, Ascending
      <4>3. Among(Request(cs[j], j), ey) \/ Among(Request(cs[j], j), new)
        BY <2>1, <4>2
      <4>4. ASSUME Among(Request(cs[j], j), new) PROVE FALSE
        <5>1. PICK k \in DOMAIN new : new[k] = Request(cs[j], j)
          BY <4>4 DEF Among
        <5>2. new[k].id = j /\ IsTask(new[k].m)
          BY <1>10, <5>1, RequestIs
        <5>3. i < j
          BY <1>1, <4>1, <5>2
        <5>4. QED
          BY <1>10, <2>2, <5>3
      <4>5. QED
        BY <4>3, <4>4
    <3>3. QED
      BY <1>6, <2>2, <3>1, <3>2
  <2>3. \A i \in sn : Expected(Reply(cs[i]), ey) => i \in tk \/ Among(Request(cs[i], i), ey)
    BY <1>6, <1>7 DEF Wire, Served
  <2>4. QED
    BY <2>1, <2>2, <2>3 DEF Served
<1>16. Paired(cs, tk, ey, tc)
  <2>1. PICK w \in [DOMAIN tc -> 0 .. MaxCalls] : Pairs(w, cs, tk, ex, tc)
    BY DEF Wire, Paired
  <2>2. Pairs(w, cs, tk, ey, tc)
    BY <1>6, <1>7, <2>1 DEF Pairs
  <2>3. QED
    BY <2>2 DEF Paired
<1>17. Plain(cs, ey, new, tc)
  <2>1. \A k \in DOMAIN ey : ey[k].m = "bind" => ey[k].id \in 1 .. Len(cs)
    BY <1>1, <1>5 DEF Wire, Plain
  <2>2. QED
    BY <1>1, <2>1 DEF Wire, Plain
<1>18. Wire(cs, tk, sn, "open", ey, new, tc)
  BY <1>12, <1>13, <1>14, <1>15, <1>16, <1>17 DEF Wire
<1>19. QED
  BY <1>4, <1>5, <1>6, <1>8, <1>11, <1>18 DEF x, new, ey

\* A step of the broker: the client does not move.
LEMMA BrokerStep ==
  ASSUME IInv, UNCHANGED client,
         broker' \in {"idle", "open", "closing", "closed", "kicked", "gone"},
         Wire(calls, tasks, sent, broker', executed', toServer', toClient'),
         Opening(state, sent, broker', executed', toServer', toClient'),
         Ending', Orderly', IssueOrder',
         \A z : Among(z, executed) => Among(z, executed')
  PROVE  IInv'
<1>1. /\ kind' = kind /\ state' = state /\ calls' = calls /\ tasks' = tasks /\ sent' = sent
      /\ fired' = fired /\ called' = called /\ uncaught' = uncaught /\ misuse' = misuse
  BY DEF client
<1>2. Wire(calls, tasks, sent, broker, executed, toServer, toClient)'
  <2>1. Wire(calls', tasks', sent', broker', executed', toServer', toClient')
    BY <1>1
  <2>2. QED
    BY <1>1, <2>1, WireNext
<1>3. Opening(state, sent, broker, executed, toServer, toClient)'
  <2>1. Opening(state', sent', broker', executed', toServer', toClient')
    BY <1>1
  <2>2. QED
    BY <1>1, <2>1, OpeningNext
<1>4. AllSent'
  BY <1>1 DEF IInv, AllSent
<1>5. /\ fired \subseteq 1 .. Len(calls) /\ Len(calls) \in Nat
      /\ fired \subseteq {i \in 1 .. Len(calls) : IsTask(calls[i])}
      /\ kind \in Kinds /\ state \in {"new", "declaring", "open", "closing", "closed"}
      /\ called \in BOOLEAN /\ uncaught = FALSE /\ misuse \in BOOLEAN
  BY DEF IInv, TypeOK
<1>6. TypeOK'
  BY <1>1, <1>2, <1>5, TypeNext
<1>7. FiredWasExecuted'
  BY <1>1, <1>5, FiredNext DEF IInv
<1>8. QED
  BY <1>1, <1>2, <1>3, <1>4, <1>5, <1>6, <1>7 DEF IInv

\* What is known when a frame is at the head.
LEMMA ServeIs ==
  ASSUME IInv, NEW phase, Serve(phase)
  PROVE  /\ UNCHANGED client /\ broker = phase /\ toServer # <<>> /\ toServer' = Tail(toServer)
         /\ Wire(calls, tasks, sent, broker, executed, toServer, toClient)
         /\ Opening(state, sent, broker, executed, toServer, toClient)
         /\ \A m : OnWay(m, toServer') => OnWay(m, toServer)
         /\ OnWay(Asked, toServer)
         /\ Asked = "declare" => ~OnWay("declare", toServer')
         /\ \A i \in DOMAIN toServer' : i + 1 \in DOMAIN toServer /\ 1 < i + 1
                                        /\ toServer'[i] = toServer[i + 1]
         /\ 1 \in DOMAIN toServer /\ Asked = toServer[1].m
         /\ Len(toServer) \in Nat /\ Len(toServer') = Len(toServer) - 1
         /\ DOMAIN toServer = 1 .. Len(toServer) /\ DOMAIN toServer' = 1 .. Len(toServer) - 1
<1>1. /\ UNCHANGED client /\ broker = phase /\ toServer # <<>> /\ toServer' = Tail(toServer)
  BY DEF Serve
<1>2. /\ Wire(calls, tasks, sent, broker, executed, toServer, toClient)
      /\ Opening(state, sent, broker, executed, toServer, toClient)
  BY DEF IInv
<1>3. /\ \A m : OnWay(m, Tail(toServer)) => OnWay(m, toServer)
      /\ OnWay(Head(toServer).m, toServer)
      /\ Head(toServer).m = "declare" => ~OnWay("declare", Tail(toServer))
      /\ \A i \in DOMAIN Tail(toServer) : i + 1 \in DOMAIN toServer /\ 1 < i + 1
                                          /\ Tail(toServer)[i] = toServer[i + 1]
      /\ 1 \in DOMAIN toServer /\ Head(toServer) = toServer[1]
      /\ Len(toServer) \in Nat /\ Len(Tail(toServer)) = Len(toServer) - 1
      /\ DOMAIN toServer = 1 .. Len(toServer) /\ DOMAIN Tail(toServer) = 1 .. Len(toServer) - 1
  BY <1>1, <1>2, FrameTaken
<1>4. QED
  BY <1>1, <1>2, <1>3 DEF Asked

\* A method is added to those on their way.
LEMMA SentIs ==
  ASSUME IInv, NEW m \in Methods, toClient' = Append(toClient, m)
  PROVE  /\ \A p : p # m => (Coming(p, toClient') <=> Coming(p, toClient))
         /\ \A i \in DOMAIN toClient' :
              (i \in DOMAIN toClient /\ toClient'[i] = toClient[i])
              \/ (toClient'[i] = m /\ i = Len(toClient) + 1)
         /\ DOMAIN toClient = 1 .. Len(toClient) /\ Len(toClient) \in Nat
         /\ DOMAIN toClient' = 1 .. Len(toClient) + 1
         /\ \A i \in DOMAIN toClient : i \in DOMAIN toClient' /\ toClient'[i] = toClient[i]
<1>1. toClient \in Seq(Methods)
  BY DEF IInv, TypeOK
<1>2. /\ \A i \in DOMAIN toClient' :
           (i \in DOMAIN toClient /\ toClient'[i] = toClient[i])
           \/ (toClient'[i] = m /\ i = Len(toClient) + 1)
      /\ DOMAIN toClient = 1 .. Len(toClient) /\ Len(toClient) \in Nat
      /\ DOMAIN toClient' = 1 .. Len(toClient) + 1
      /\ \A i \in DOMAIN toClient : i \in DOMAIN toClient' /\ toClient'[i] = toClient[i]
  BY <1>1, AppendIs
<1>3. QED
  BY <1>2 DEF Coming

LEMMA BrokerOpensStep ==
  ASSUME IInv, BrokerOpens
  PROVE  IInv'
<1>1. /\ Serve("idle") /\ broker' = "open" /\ toClient' = Append(toClient, "channelOpenOk")
      /\ executed' = executed
  BY DEF BrokerOpens
<1>2. /\ UNCHANGED client /\ broker = "idle" /\ toServer # <<>> /\ toServer' = Tail(toServer)
      /\ Wire(calls, tasks, sent, broker, executed, toServer, toClient)
      /\ Opening(state, sent, broker, executed, toServer, toClient)
      /\ \A m : OnWay(m, toServer') => OnWay(m, toServer)
  BY <1>1, ServeIs
<1>3. toClient = <<>> /\ ~OnWay("declare", toServer)
  BY <1>2 DEF Wire, Handshake
<1>4. sent = {} /\ state # "open"
  BY <1>2 DEF Opening, ToOpen
<1>5. Wire(calls, tasks, sent, "open", executed, toServer', toClient)
  BY <1>2, <1>4, FrameDropped
<1>6. ~Expected("channelOpenOk", executed) /\ "channelOpenOk" \in Methods
  BY DEF Expected, Methods
<1>7. ~OnWay("declare", toServer')
  BY <1>2, <1>3
<1>8. Wire(calls, tasks, sent, "open", executed, toServer', toClient')
  BY <1>1, <1>3, <1>5, <1>6, <1>7, MethodSent
<1>9. /\ \A p : p # "channelOpenOk" => (Coming(p, toClient') <=> Coming(p, toClient))
      /\ \A i \in DOMAIN toClient' :
           (i \in DOMAIN toClient /\ toClient'[i] = toClient[i]) \/ toClient'[i] = "channelOpenOk"
  BY <1>1, <1>6, SentIs
<1>10. Opening(state, sent, "open", executed, toServer', toClient')
  BY <1>2, <1>4, <1>9 DEF Opening
<1>11. (Closed' <=> Closed) /\ state' = state /\ misuse' = misuse
  BY <1>2 DEF Closed, client
<1>12. Ending'
  <2>1. \A i \in DOMAIN toClient' : toClient'[i] # "channelClose"
    BY <1>3, <1>9
  <2>2. ~Closed => /\ ~OnWay("close", toServer') /\ state # "closing" /\ state # "closed"
                   /\ ~Coming("channelCloseOk", toClient')
    BY <1>2, <1>9 DEF IInv, Ending
  <2>3. QED
    BY <1>1, <1>11, <2>1, <2>2 DEF Ending, OnWay, Coming
<1>13. Orderly'
  BY <1>1, <1>2, <1>11 DEF IInv, Orderly
<1>14. IssueOrder'
  BY <1>1, <1>2, OrderNext DEF IInv, client
<1>15. QED
  BY <1>1, <1>2, <1>8, <1>10, <1>12, <1>13, <1>14, BrokerStep

\* A broker that closes the channel, or has closed it, executes no more.
LEMMA ClosesStep ==
  ASSUME IInv, NEW phase, Serve(phase), NEW c, NEW m, broker' = c, executed' = executed,
         \/ phase = "open" /\ c = "closing" /\ m = "channelClose" /\ Asked # "close"
         \/ phase \in {"open", "closing"} /\ c = "closed" /\ m = "channelCloseOk" /\ Asked = "close",
         toClient' = Append(toClient, m)
  PROVE  IInv'
<1>1. /\ UNCHANGED client /\ broker = phase /\ toServer # <<>> /\ toServer' = Tail(toServer)
      /\ Wire(calls, tasks, sent, broker, executed, toServer, toClient)
      /\ Opening(state, sent, broker, executed, toServer, toClient)
      /\ \A p : OnWay(p, toServer') => OnWay(p, toServer)
      /\ OnWay(Asked, toServer)
      /\ \A i \in DOMAIN toServer' : i + 1 \in DOMAIN toServer /\ 1 < i + 1
                                     /\ toServer'[i] = toServer[i + 1]
      /\ 1 \in DOMAIN toServer /\ Asked = toServer[1].m
      /\ Len(toServer) \in Nat /\ Len(toServer') = Len(toServer) - 1
      /\ DOMAIN toServer = 1 .. Len(toServer) /\ DOMAIN toServer' = 1 .. Len(toServer) - 1
  BY ServeIs
<1>2. c \notin {"idle", "open"}
  OBVIOUS
<1>3. Wire(calls, tasks, sent, c, executed, toServer', toClient)
  BY <1>1, <1>2, FrameDropped
<1>4. ~Expected(m, executed) /\ m \in Methods
  BY DEF Expected, Methods
<1>5. Wire(calls, tasks, sent, c, executed, toServer', toClient')
  BY <1>2, <1>3, <1>4, MethodSent
<1>6. /\ \A p : p # m => (Coming(p, toClient') <=> Coming(p, toClient))
      /\ \A i \in DOMAIN toClient' :
           (i \in DOMAIN toClient /\ toClient'[i] = toClient[i])
           \/ (toClient'[i] = m /\ i = Len(toClient) + 1)
      /\ DOMAIN toClient = 1 .. Len(toClient) /\ Len(toClient) \in Nat
      /\ DOMAIN toClient' = 1 .. Len(toClient) + 1
  BY <1>4, SentIs
<1>7. /\ Coming("channelOpenOk", toClient') <=> Coming("channelOpenOk", toClient)
      /\ Coming("declareOk", toClient') <=> Coming("declareOk", toClient)
  BY <1>6
<1>8. Opening(state, sent, c, executed, toServer', toClient')
  <2>1. ToOpen(c, toServer', toClient') => ToOpen(broker, toServer, toClient)
    BY <1>1, <1>2, <1>7 DEF ToOpen
  <2>2. QED
    BY <1>1, <1>7, <2>1 DEF Opening
<1>9. (Closed' <=> Closed) /\ state' = state /\ misuse' = misuse
  BY <1>1 DEF Closed, client
<1>10. Ending'
  <2>1. \A i \in DOMAIN toClient' :
          toClient'[i] = "channelClose" =>
            \A j \in DOMAIN toClient' : i < j => toClient'[j] = "channelCloseOk"
    <3>1. CASE c = "closing"
      <4>1. \A i \in DOMAIN toClient : toClient[i] # "channelClose"
        BY <1>1, <3>1 DEF IInv, Ending
      <4>2. \A i \in DOMAIN toClient' : toClient'[i] = "channelClose" => i = Len(toClient) + 1
        BY <1>6, <4>1
      <4>3. QED
        BY <1>6, <4>2
    <3>2. CASE c = "closed"
      <4>1. m = "channelCloseOk"
        BY <3>2
      <4>2. \A i, j \in DOMAIN toClient :
              toClient[i] = "channelClose" /\ i < j => toClient[j] = "channelCloseOk"
        BY DEF IInv, Ending
      <4>3. \A i \in DOMAIN toClient' : toClient'[i] = "channelClose" =>
              i \in DOMAIN toClient /\ toClient[i] = "channelClose"
        BY <1>6, <4>1
      <4>4. QED
        BY <1>6, <4>1, <4>2, <4>3
    <3>3. QED
      BY <3>1, <3>2
  <2>2. ~Closed => ~OnWay("close", toServer) /\ broker \notin {"closed", "kicked"}
                   /\ state # "closing" /\ ~Coming("channelCloseOk", toClient)
                   /\ (state = "closed" => broker \notin {"idle", "open"} /\ toClient = <<>>)
    BY DEF IInv, Ending
  <2>3. ~Closed => c = "closing" /\ m = "channelClose" /\ broker = "open" /\ state # "closed"
    BY <1>1, <2>2
  <2>4. ~Closed => /\ ~OnWay("close", toServer') /\ c \notin {"closed", "kicked"}
                   /\ state # "closing" /\ state # "closed" /\ ~Coming("channelCloseOk", toClient')
    BY <1>1, <1>6, <2>2, <2>3
  <2>5. QED
    BY <1>2, <1>9, <2>1, <2>4 DEF Ending, OnWay, Coming
<1>11. Orderly'
  <2>1. ASSUME ~misuse
        PROVE  /\ c # "kicked"
               /\ Closed =>
                    /\ state \in {"closing", "closed"}
                    /\ c # "idle" /\ c # "open"
                    /\ ~Coming("channelOpenOk", toClient') /\ ~Coming("declareOk", toClient')
    BY <1>2, <1>7, <2>1 DEF IInv, Orderly
  <2>2. ASSUME ~misuse, Closed
        PROVE  /\ c = "closed" => toServer' = <<>>
               /\ c = "closing" =>
                    /\ toServer' # <<>>
                    /\ \A k \in DOMAIN toServer' : toServer'[k].m = "close" <=> k = Len(toServer')
    <3>1. \A k \in DOMAIN toServer : toServer[k].m = "close" <=> k = Len(toServer)
      BY <1>1, <2>2 DEF IInv, Orderly
    <3>2. CASE c = "closed"
      <4>1. Len(toServer) = 1
        BY <1>1, <3>1, <3>2
      <4>2. Len(toServer') = 0
        BY <1>1, <4>1
      <4>3. QED
        BY <1>3, <3>2, <4>2, EmptySeq DEF Wire, Typed
    <3>3. CASE c = "closing"
      <4>1. Len(toServer) # 1
        BY <1>1, <3>1, <3>3
      <4>2. toServer' # <<>>
        BY <1>1, <4>1
      <4>3. \A k \in DOMAIN toServer' : toServer'[k].m = "close" <=> k = Len(toServer')
        BY <1>1, <3>1
      <4>4. QED
        BY <3>3, <4>2, <4>3
    <3>4. QED
      BY <3>2, <3>3
  <2>3. QED
    BY <1>9, <2>1, <2>2 DEF Orderly, OnWay, Coming
<1>12. IssueOrder'
  BY <1>1, OrderNext DEF IInv, client
<1>13. c \in {"idle", "open", "closing", "closed", "kicked", "gone"}
  OBVIOUS
<1>14. QED
  BY <1>1, <1>5, <1>8, <1>10, <1>11, <1>12, <1>13, BrokerStep

LEMMA BrokerDiscardsStep ==
  ASSUME IInv, BrokerDiscards
  PROVE  IInv'
<1>1. /\ Serve("closing") /\ Asked # "close"
      /\ broker' = broker /\ executed' = executed /\ toClient' = toClient
  BY DEF BrokerDiscards
<1>2. /\ UNCHANGED client /\ broker = "closing" /\ toServer # <<>> /\ toServer' = Tail(toServer)
      /\ Wire(calls, tasks, sent, broker, executed, toServer, toClient)
      /\ Opening(state, sent, broker, executed, toServer, toClient)
      /\ \A p : OnWay(p, toServer') => OnWay(p, toServer)
      /\ \A i \in DOMAIN toServer' : i + 1 \in DOMAIN toServer /\ 1 < i + 1
                                     /\ toServer'[i] = toServer[i + 1]
      /\ 1 \in DOMAIN toServer /\ Asked = toServer[1].m
      /\ Len(toServer) \in Nat /\ Len(toServer') = Len(toServer) - 1
      /\ DOMAIN toServer = 1 .. Len(toServer) /\ DOMAIN toServer' = 1 .. Len(toServer) - 1
  BY <1>1, ServeIs
<1>3. Wire(calls, tasks, sent, broker', executed', toServer', toClient')
  BY <1>1, <1>2, FrameDropped
<1>4. Opening(state, sent, broker', executed', toServer', toClient')
  BY <1>1, <1>2 DEF Opening, ToOpen
<1>5. (Closed' <=> Closed) /\ state' = state /\ misuse' = misuse
  BY <1>2 DEF Closed, client
<1>6. Ending'
  BY <1>1, <1>2, <1>5 DEF IInv, Ending, OnWay, Coming
<1>7. Orderly'
  <2>1. ASSUME ~misuse, Closed
        PROVE  /\ toServer' # <<>>
               /\ \A k \in DOMAIN toServer' : toServer'[k].m = "close" <=> k = Len(toServer')
    <3>1. \A k \in DOMAIN toServer : toServer[k].m = "close" <=> k = Len(toServer)
      BY <1>2, <2>1 DEF IInv, Orderly
    <3>2. Len(toServer) # 1
      BY <1>1, <1>2, <3>1
    <3>3. Len(toServer') # 0
      BY <1>2, <3>2
    <3>4. toServer' # <<>>
      BY <3>3
    <3>5. QED
      BY <1>2, <3>1, <3>4
  <2>2. QED
    BY <1>1, <1>2, <1>5, <2>1 DEF IInv, Orderly, OnWay, Coming
<1>8. IssueOrder'
  BY <1>1, <1>2, OrderNext DEF IInv, client
<1>9. QED
  BY <1>1, <1>2, <1>3, <1>4, <1>6, <1>7, <1>8, BrokerStep

\* A frame on a closed channel: the program has misused the channel.
LEMMA BrokerKicksStep ==
  ASSUME IInv, BrokerKicks
  PROVE  IInv'
<1>1. Serve("closed") /\ broker' = "kicked" /\ executed' = executed /\ toClient' = toClient
  BY DEF BrokerKicks
<1>2. /\ UNCHANGED client /\ broker = "closed" /\ toServer # <<>> /\ toServer' = Tail(toServer)
      /\ Wire(calls, tasks, sent, broker, executed, toServer, toClient)
      /\ Opening(state, sent, broker, executed, toServer, toClient)
      /\ \A p : OnWay(p, toServer') => OnWay(p, toServer)
  BY <1>1, ServeIs
<1>3. Wire(calls, tasks, sent, broker', executed', toServer', toClient')
  BY <1>1, <1>2, FrameDropped
<1>4. Opening(state, sent, broker', executed', toServer', toClient')
  BY <1>1, <1>2 DEF Opening, ToOpen
<1>5. (Closed' <=> Closed) /\ misuse' = misuse
  BY <1>2 DEF Closed, client
<1>6. Closed
  BY <1>2 DEF IInv, Ending
<1>7. misuse
  BY <1>2, <1>6 DEF IInv, Orderly
<1>8. Ending'
  BY <1>1, <1>2, <1>5, <1>6 DEF IInv, Ending
<1>9. Orderly'
  BY <1>5, <1>7 DEF Orderly
<1>10. IssueOrder'
  BY <1>1, <1>2, OrderNext DEF IInv, client
<1>11. QED
  BY <1>1, <1>2, <1>3, <1>4, <1>8, <1>9, <1>10, BrokerStep

LEMMA BreakStep ==
  ASSUME IInv, Break
  PROVE  IInv'
<1>1. /\ broker' = "gone" /\ toServer' = <<>> /\ toClient' = <<>>
      /\ UNCHANGED client /\ executed' = executed /\ broker # "kicked"
  BY DEF Break, Broken
<1>2. /\ Wire(calls, tasks, sent, broker, executed, toServer, toClient)
      /\ Opening(state, sent, broker, executed, toServer, toClient)
  BY DEF IInv
<1>3. /\ DOMAIN toServer' = {} /\ toServer' \in Seq(Frames(Len(calls)))
      /\ DOMAIN toClient' = {} /\ toClient' \in Seq(Methods)
  BY <1>1
<1>4. (\A m : ~OnWay(m, toServer') /\ ~Coming(m, toClient'))
  BY <1>3 DEF OnWay, Coming
<1>5. Wire(calls, tasks, sent, broker', executed', toServer', toClient')
  <2>1. Typed(calls, tasks, sent, executed', toServer', toClient')
    BY <1>1, <1>2, <1>3 DEF Wire, Typed
  <2>2. Handshake(broker', toServer', toClient')
    BY <1>1, <1>3, <1>4 DEF Handshake
  <2>3. Ascending(calls, tasks, sent, executed', toServer')
    BY <1>1, <1>2, <1>3 DEF Wire, Ascending
  <2>4. Served(calls, tasks, sent, broker', executed', toServer')
    BY <1>1, <1>2 DEF Wire, Served
  <2>5. Paired(calls, tasks, executed', toClient')
    <3> DEFINE w == [i \in DOMAIN toClient' |-> 0]
    <3>1. w \in [DOMAIN toClient' -> 0 .. MaxCalls]
      BY <1>3
    <3>2. Pairs(w, calls, tasks, executed', toClient')
      BY <1>3 DEF Pairs
    <3>3. QED
      BY <3>1, <3>2 DEF Paired
  <2>6. Plain(calls, executed', toServer', toClient')
    BY <1>1, <1>2, <1>3 DEF Wire, Plain
  <2>7. QED
    BY <2>1, <2>2, <2>3, <2>4, <2>5, <2>6 DEF Wire
<1>6. Opening(state, sent, broker', executed', toServer', toClient')
  BY <1>1, <1>2, <1>4 DEF Opening, ToOpen
<1>7. (Closed' <=> Closed) /\ state' = state /\ misuse' = misuse
  BY <1>1 DEF Closed, client
<1>8. Ending'
  <2>1. Ending' <=> /\ \A i \in DOMAIN toClient' :
                         toClient'[i] = "channelClose" =>
                           /\ broker' \notin {"idle", "open"}
                           /\ \A j \in DOMAIN toClient' : i < j => toClient'[j] = "channelCloseOk"
                    /\ ~Closed' =>
                         /\ ~OnWay("close", toServer')
                         /\ broker' \notin {"closed", "kicked"}
                         /\ state' # "closing"
                         /\ ~Coming("channelCloseOk", toClient')
                         /\ state' = "closed" => broker' \notin {"idle", "open"} /\ toClient' = <<>>
    BY DEF Ending, Closed, OnWay, Coming
  <2>2. QED
    BY <1>1, <1>3, <1>4, <1>7, <2>1 DEF IInv, Ending
<1>9. Orderly'
  <2>1. Orderly' <=> (~misuse' =>
            /\ broker' # "kicked"
            /\ Closed' =>
                 /\ state' \in {"closing", "closed"}
                 /\ broker' # "idle"
                 /\ ~Coming("channelOpenOk", toClient') /\ ~Coming("declareOk", toClient')
                 /\ OnWay("declare", toServer') => broker' # "open"
                 /\ broker' = "closed" => toServer' = <<>>
                 /\ broker' \in {"open", "closing"} =>
                      /\ toServer' # <<>>
                      /\ \A k \in DOMAIN toServer' : toServer'[k].m = "close" <=> k = Len(toServer'))
    BY DEF Orderly, Closed, OnWay, Coming
  <2>2. ~misuse /\ Closed => state \in {"closing", "closed"}
    BY DEF IInv, Orderly
  <2>3. QED
    BY <1>1, <1>4, <1>7, <2>1, <2>2
<1>10. IssueOrder'
  BY <1>1, OrderNext DEF IInv, client
<1>11. QED
  BY <1>1, <1>5, <1>6, <1>8, <1>9, <1>10, BrokerStep

\* What a request that has been executed sends to the client.
LEMMA ReplyToExecuted ==
  ASSUME IInv, Serve("open"), Asked # "close", NEW r \in Replies(Asked)
  PROVE  LET ey == Append(executed, Head(toServer)) IN
         /\ Wire(calls, tasks, sent, "open", ey, toServer', toClient \o r)
         /\ toClient \o r \in {toClient, Append(toClient, r[1])}
         /\ toClient \o r # toClient => r[1] \in Methods \ {"channelOpenOk", "channelClose", "channelCloseOk"}
         /\ toClient \o r # toClient /\ r[1] = "declareOk" => Asked = "declare"
<1> DEFINE x == Head(toServer)
           ey == Append(executed, x)
<1>1. /\ toServer # <<>> /\ toServer' = Tail(toServer) /\ broker = "open"
      /\ Wire(calls, tasks, sent, "open", executed, toServer, toClient)
      /\ OnWay(Asked, toServer)
      /\ Asked = "declare" => ~OnWay("declare", toServer')
      /\ 1 \in DOMAIN toServer /\ Asked = toServer[1].m
  BY ServeIs
<1>2. x.m = Asked
  BY DEF Asked
<1>3. /\ Wire(calls, tasks, sent, "open", ey, toServer', toClient)
      /\ \A z : Among(z, executed) => Among(z, ey)
      /\ \A m : OnWay(m, ey) <=> OnWay(m, executed) \/ m = Asked
      /\ IsTask(Asked) =>
           /\ x.id \in sent /\ Asked = calls[x.id]
           /\ \A k \in DOMAIN executed : IsTask(executed[k].m) => executed[k].id < x.id
           /\ Among(Request(Asked, x.id), ey)
           /\ Expected(Reply(Asked), executed) => x.id \in tasks
      /\ Asked \in Ops \cup {"declare", "qos"}
  BY <1>1, <1>2, RequestExecuted
<1> HIDE DEF x, ey
<1>4. toClient \in Seq(Methods)
  BY DEF IInv, TypeOK
<1>5. /\ r = <<>> => toClient \o r = toClient
      /\ \A m : r = <<m>> => toClient \o r = Append(toClient, m) /\ r[1] = m
  <2>1. toClient \o <<>> = toClient
    BY <1>4
  <2>2. ASSUME NEW m PROVE toClient \o <<m>> = Append(toClient, m) /\ <<m>>[1] = m
    BY <1>4
  <2>3. QED
    BY <2>1, <2>2, Zenon
<1>6. IsTask(Asked) => Asked \in TaskOps(kind)
  <2>1. ASSUME IsTask(Asked) PROVE Asked \in TaskOps(kind)
    <3>1. /\ x.id \in 1 .. Len(calls) /\ Asked = calls[x.id]
          /\ calls \in Seq(TaskOps(kind) \cup {"bind", "close"})
      BY <1>3, <2>1 DEF Wire, Typed
    <3>2. calls[x.id] \in TaskOps(kind) \cup {"bind", "close"}
      BY <3>1, ElementOfSeq
    <3>3. QED
      BY <2>1, <3>1, <3>2, TasksAre
  <2>2. QED
    BY <2>1
<1>7. CASE Asked = "declare"
  <2>1. r = <<"declareOk">>
    BY <1>7, RepliesOf
  <2>2. /\ ~OnWay("declare", toServer') /\ ~Coming("declareOk", toClient)
        /\ ~Coming("channelOpenOk", toClient) /\ kind # "prebaked"
    BY <1>1, <1>7 DEF Wire, Handshake
  <2>3. ~Expected("declareOk", ey) /\ "declareOk" \in Methods
    BY DEF Expected, Methods
  <2>4. Wire(calls, tasks, sent, "open", ey, toServer', Append(toClient, "declareOk"))
    BY <1>3, <2>2, <2>3, MethodSent
  <2>5. QED
    BY <1>5, <1>7, <2>1, <2>3, <2>4 DEF ey, x
<1>8. CASE Asked \in {"bind", "qos"}
  <2> DEFINE m == IF Asked = "bind" THEN "queueBindOk" ELSE "basicQosOk"
  <2>1. r = <<m>>
    BY <1>8, RepliesOf
  <2>2. kind = "queue"
    BY <1>1, <1>8 DEF Wire, Plain
  <2>3. ~Expected(m, ey) /\ m \in Methods
    BY <1>3, <1>8 DEF Expected, Methods
  <2>4. m \notin {"channelOpenOk", "declareOk", "basicReturn", "channelClose", "channelCloseOk"}
    OBVIOUS
  <2> HIDE DEF m
  <2>5. Wire(calls, tasks, sent, "open", ey, toServer', Append(toClient, m))
    BY <1>3, <2>2, <2>3, <2>4, MethodSent
  <2>6. QED
    BY <1>5, <2>1, <2>3, <2>4, <2>5 DEF ey, x
<1>9. CASE Asked = "publish"
  <2>1. r \in {<<>>, <<"basicReturn">>}
    BY <1>9, RepliesOf
  <2>2. kind # "queue"
    BY <1>6, <1>9, TasksAre
  <2>3. ~Expected("basicReturn", ey) /\ "basicReturn" \in Methods
    BY DEF Expected, Methods
  <2>4. Wire(calls, tasks, sent, "open", ey, toServer', Append(toClient, "basicReturn"))
    BY <1>3, <2>2, <2>3, MethodSent
  <2>5. CASE r = <<>>
    BY <1>3, <1>5, <2>5 DEF ey, x
  <2>6. CASE r = <<"basicReturn">>
    BY <1>5, <2>3, <2>4, <2>6 DEF ey, x
  <2>7. QED
    BY <2>1, <2>5, <2>6
<1>10. CASE Asked \in {"subscribe", "subscribeAck", "unbind", "bind_headers", "destroy"}
  <2> DEFINE m == Reply(Asked)
  <2>1. r = <<m>>
    BY <1>10, RepliesOf
  <2>2. /\ m \in {"basicConsumeOk", "queueUnbindOk", "queueBindOk", "deleteOk"}
        /\ m = "deleteOk" <=> Asked = "destroy"
    BY <1>10, ReplyOf
  <2>3. m \in Methods
    BY <2>2 DEF Methods
  <2>4. IsTask(Asked) /\ Asked = calls[x.id] /\ Asked \in TaskOps(kind)
    BY <1>3, <1>6, <1>10, TasksAre
  <2>5. kind # "queue" => m = "deleteOk"
    BY <1>10, <2>2, <2>4, TasksAre
  <2>6. \A p : Expected(p, ey) => Expected(p, executed)
    BY <1>3 DEF Expected
  <2>7. Reply(calls[x.id]) = m
    BY <2>4
  <2> HIDE DEF m
  <2>8. CASE Expected(m, ey)
    <3>1. x.id \in tasks /\ Among(Request(calls[x.id], x.id), ey)
          /\ \A k \in DOMAIN executed : IsTask(executed[k].m) => executed[k].id < x.id
      BY <1>3, <2>4, <2>6, <2>8 DEF m
    <3>2. Paired(calls, tasks, executed, toClient)
      BY <1>1 DEF Wire
    <3>3. m \notin {"channelOpenOk", "declareOk", "basicReturn"}
      BY <2>2
    <3>4. Wire(calls, tasks, sent, "open", ey, toServer', Append(toClient, m))
      BY <1>3, <2>3, <2>5, <2>6, <2>7, <3>1, <3>2, <3>3, ReplySent
    <3>5. QED
      BY <1>5, <2>1, <2>2, <2>3, <3>4 DEF ey, x
  <2>9. CASE ~Expected(m, ey)
    <3>1. m = "queueBindOk" /\ kind = "queue"
      BY <2>2, <2>5, <2>9 DEF Expected
    <3>2. Wire(calls, tasks, sent, "open", ey, toServer', Append(toClient, m))
      BY <1>3, <2>3, <2>9, <3>1, MethodSent
    <3>3. QED
      BY <1>5, <2>1, <2>2, <2>3, <3>2 DEF ey, x
  <2>10. QED
    BY <2>8, <2>9
<1>11. QED
  BY <1>3, <1>7, <1>8, <1>9, <1>10, TasksAre

LEMMA BrokerExecutesStep ==
  ASSUME IInv, BrokerExecutes
  PROVE  IInv'
<1> DEFINE x == Head(toServer)
           ey == Append(executed, x)
<1>1. Serve("open") /\ Asked # "close" /\ executed' = ey /\ broker' = broker
  BY DEF BrokerExecutes
<1>2. PICK r \in Replies(Asked) : toClient' = toClient \o r
  BY DEF BrokerExecutes
<1>3. /\ UNCHANGED client /\ broker = "open" /\ toServer # <<>> /\ toServer' = Tail(toServer)
      /\ Wire(calls, tasks, sent, "open", executed, toServer, toClient)
      /\ Opening(state, sent, "open", executed, toServer, toClient)
      /\ \A p : OnWay(p, toServer') => OnWay(p, toServer)
      /\ OnWay(Asked, toServer)
      /\ \A i \in DOMAIN toServer' : i + 1 \in DOMAIN toServer /\ 1 < i + 1
                                     /\ toServer'[i] = toServer[i + 1]
      /\ 1 \in DOMAIN toServer /\ Asked = toServer[1].m
      /\ Len(toServer) \in Nat /\ Len(toServer') = Len(toServer) - 1
      /\ DOMAIN toServer = 1 .. Len(toServer) /\ DOMAIN toServer' = 1 .. Len(toServer) - 1
  BY <1>1, ServeIs
<1>4. x.m = Asked
  BY DEF Asked
<1>5. /\ \A z : Among(z, executed) => Among(z, ey)
      /\ \A m : OnWay(m, ey) <=> OnWay(m, executed) \/ m = Asked
      /\ IsTask(Asked) =>
           /\ x.id \in sent
           /\ \A k \in DOMAIN executed : IsTask(executed[k].m) => executed[k].id < x.id
      /\ \A k \in DOMAIN ey :
           (k \in DOMAIN executed /\ ey[k] = executed[k]) \/ (ey[k] = x /\ k = Len(executed) + 1)
      /\ DOMAIN executed = 1 .. Len(executed) /\ Len(executed) \in Nat
      /\ \A k \in DOMAIN executed : ey[k] = executed[k]
  <2>1. Wire(calls, tasks, sent, "open", executed, toServer, toClient)
        /\ toServer # <<>> /\ Head(toServer).m # "close"
    BY <1>1, <1>3 DEF Asked
  <2>2. /\ \A z : Among(z, executed) => Among(z, ey)
        /\ \A m : OnWay(m, ey) <=> OnWay(m, executed) \/ m = x.m
        /\ IsTask(x.m) =>
             /\ x.id \in sent
             /\ \A k \in DOMAIN executed : IsTask(executed[k].m) => executed[k].id < x.id
    BY <2>1, RequestExecuted
  <2>3. /\ \A k \in DOMAIN ey :
             (k \in DOMAIN executed /\ ey[k] = executed[k]) \/ (ey[k] = x /\ k = Len(executed) + 1)
        /\ DOMAIN executed = 1 .. Len(executed) /\ Len(executed) \in Nat
        /\ \A k \in DOMAIN executed : ey[k] = executed[k]
    BY <2>1, RequestExecuted
  <2> HIDE DEF x, ey
  <2>4. QED
    BY <1>4, <2>2, <2>3
<1>6. /\ Wire(calls, tasks, sent, "open", ey, toServer', toClient')
      /\ toClient' \in {toClient, Append(toClient, r[1])}
      /\ toClient' # toClient => r[1] \in Methods \ {"channelOpenOk", "channelClose", "channelCloseOk"}
      /\ toClient' # toClient /\ r[1] = "declareOk" => Asked = "declare"
  BY <1>1, <1>2, ReplyToExecuted
<1> HIDE DEF x, ey
<1>7. /\ \A p \in {"channelOpenOk", "channelClose", "channelCloseOk"} :
           Coming(p, toClient') <=> Coming(p, toClient)
      /\ Coming("declareOk", toClient') => Coming("declareOk", toClient) \/ Asked = "declare"
  <2>1. CASE toClient' = toClient
    BY <2>1
  <2>2. CASE toClient' # toClient
    <3>1. toClient' = Append(toClient, r[1])
          /\ r[1] \in Methods \ {"channelOpenOk", "channelClose", "channelCloseOk"}
          /\ (r[1] = "declareOk" => Asked = "declare")
      BY <1>6, <2>2
    <3>2. \A p : p # r[1] => (Coming(p, toClient') <=> Coming(p, toClient))
      BY <3>1, SentIs
    <3>3. QED
      BY <3>1, <3>2
  <2>3. QED
    BY <2>1, <2>2
<1>8. Ready(executed) => Ready(ey)
  BY <1>5 DEF Ready
<1>9. Asked = "declare" => Ready(ey)
  BY <1>5 DEF Ready
<1>10. Opening(state, sent, "open", ey, toServer', toClient')
  <2>1. ToOpen("open", toServer', toClient') => ToOpen("open", toServer, toClient)
    BY <1>3, <1>7 DEF ToOpen
  <2>2. Coming("declareOk", toClient') => Ready(ey)
    BY <1>3, <1>7, <1>8, <1>9 DEF Opening
  <2>3. QED
    BY <1>3, <1>8, <2>1, <2>2 DEF Opening
<1>11. (Closed' <=> Closed) /\ state' = state /\ misuse' = misuse /\ kind' = kind
  BY <1>3 DEF Closed, client
<1>12. Ending'
  <2>1. \A i \in DOMAIN toClient' : toClient'[i] # "channelClose"
    <3>1. ~Coming("channelClose", toClient)
      BY <1>3 DEF IInv, Ending, Coming
    <3>2. ~Coming("channelClose", toClient')
      BY <1>7, <3>1
    <3>3. QED
      BY <3>2 DEF Coming
  <2>2. ~Closed => /\ ~OnWay("close", toServer') /\ state # "closing" /\ state # "closed"
                   /\ ~Coming("channelCloseOk", toClient')
    BY <1>3, <1>7 DEF IInv, Ending
  <2>3. QED
    BY <1>1, <1>3, <1>11, <2>1, <2>2 DEF Ending, OnWay, Coming
<1>13. Orderly'
  <2>1. ASSUME ~misuse, Closed
        PROVE  /\ ~Coming("channelOpenOk", toClient') /\ ~Coming("declareOk", toClient')
               /\ ~OnWay("declare", toServer')
               /\ toServer' # <<>>
               /\ \A k \in DOMAIN toServer' : toServer'[k].m = "close" <=> k = Len(toServer')
    <3>1. /\ \A k \in DOMAIN toServer : toServer[k].m = "close" <=> k = Len(toServer)
          /\ ~Coming("channelOpenOk", toClient) /\ ~Coming("declareOk", toClient)
          /\ ~OnWay("declare", toServer)
      BY <1>3, <2>1 DEF IInv, Orderly
    <3>2. Asked # "declare" /\ ~OnWay("declare", toServer')
      BY <1>3, <3>1
    <3>3. Len(toServer) # 1
      BY <1>1, <1>3, <3>1
    <3>4. Len(toServer') # 0
      BY <1>3, <3>3
    <3>5. toServer' # <<>>
      BY <3>4
    <3>6. \A k \in DOMAIN toServer' : toServer'[k].m = "close" <=> k = Len(toServer')
      BY <1>3, <3>1
    <3>7. QED
      BY <1>7, <3>1, <3>2, <3>5, <3>6
  <2>2. ~misuse /\ Closed => state \in {"closing", "closed"}
    BY DEF IInv, Orderly
  <2>3. QED
    BY <1>1, <1>3, <1>11, <2>1, <2>2 DEF Orderly, OnWay, Coming
<1>14. IssueOrder'
  <2>1. ASSUME NEW k \in DOMAIN ey, IsTask(ey[k].m)
        PROVE  /\ \A j \in 1 .. k - 1 : IsTask(ey[j].m) => ey[j].id < ey[k].id
               /\ kind = "prebaked" \/ \E j \in 1 .. k - 1 : ey[j].m = "declare"
    <3>1. CASE k \in DOMAIN executed /\ ey[k] = executed[k]
      <4>1. \A j \in 1 .. k - 1 : j \in DOMAIN executed /\ ey[j] = executed[j]
        BY <1>5, <3>1
      <4>2. /\ \A j \in 1 .. k - 1 : IsTask(executed[j].m) => executed[j].id < executed[k].id
            /\ kind = "prebaked" \/ \E j \in 1 .. k - 1 : executed[j].m = "declare"
        BY <2>1, <3>1 DEF IInv, IssueOrder
      <4>3. QED
        BY <3>1, <4>1, <4>2
    <3>2. CASE ey[k] = x /\ k = Len(executed) + 1
      <4>1. 1 .. k - 1 = DOMAIN executed
        BY <1>5, <3>2
      <4>2. IsTask(Asked) /\ x.id \in sent
        BY <1>4, <1>5, <2>1, <3>2
      <4>3. Ready(executed)
        BY <1>3, <4>2 DEF Opening
      <4>4. kind = "prebaked" \/ \E j \in DOMAIN executed : executed[j].m = "declare"
        BY <4>3 DEF Ready, OnWay
      <4>5. \A j \in DOMAIN executed : IsTask(ey[j].m) => ey[j].id < ey[k].id
        BY <1>5, <3>2, <4>2
      <4>6. QED
        BY <1>5, <4>1, <4>4, <4>5
    <3>3. QED
      BY <1>5, <2>1, <3>1, <3>2
  <2>2. QED
    BY <1>1, <1>11, <2>1 DEF IssueOrder
<1>15. QED
  BY <1>1, <1>3, <1>5, <1>6, <1>10, <1>12, <1>13, <1>14, BrokerStep

-----------------------------------------------------------------------------
(* The theorems                                                            *)

LEMMA InitIInv == Init => IInv
<1> SUFFICES ASSUME Init PROVE IInv
  OBVIOUS
<1> DEFINE x == Request("channelOpen", 0)
<1>1. /\ kind \in Kinds /\ state = "new" /\ calls = <<>> /\ tasks = {} /\ sent = {} /\ fired = {}
      /\ called = FALSE /\ uncaught = FALSE /\ misuse = FALSE /\ broker = "idle"
      /\ executed = <<>> /\ toServer = <<x>> /\ toClient = <<>>
  BY DEF Init
<1>2. x.m = "channelOpen" /\ x.id = 0
  BY RequestIs
<1>3. x \in Frames(0) /\ x \in Frames(Len(calls)) /\ Len(calls) = 0
  <2>1. 0 \in 0 .. 0
    OBVIOUS
  <2>2. x \in Frames(0)
    BY <2>1 DEF Frames, Request
  <2>3. QED
    BY <1>1, <2>2
<1> HIDE DEF x
<1>4. /\ DOMAIN toServer = {1} /\ toServer[1] = x /\ toServer # <<>>
      /\ toServer \in Seq(Frames(Len(calls)))
  BY <1>1, <1>3
<1>5. /\ DOMAIN executed = {} /\ executed \in Seq(Executable(Len(calls)))
      /\ DOMAIN toClient = {} /\ toClient \in Seq(Methods)
      /\ DOMAIN calls = {} /\ calls \in Seq(TaskOps(kind) \cup {"bind", "close"})
  BY <1>1
<1>6. ~IsTask(x.m)
  BY <1>2, TasksAre
<1>7. (\A m : (OnWay(m, toServer) <=> m = "channelOpen") /\ ~Coming(m, toClient)) /\ ~Closed
  BY <1>2, <1>4, <1>5 DEF OnWay, Coming, Closed
<1>8. Typed(calls, tasks, sent, executed, toServer, toClient)
  BY <1>1, <1>3, <1>4, <1>5, Constants DEF Typed
<1>9. Wire(calls, tasks, sent, broker, executed, toServer, toClient)
  <2>1. Handshake(broker, toServer, toClient)
    BY <1>1, <1>2, <1>4, <1>5, <1>7 DEF Handshake
  <2>2. Ascending(calls, tasks, sent, executed, toServer)
    BY <1>1, <1>4, <1>5, <1>6 DEF Ascending
  <2>3. Served(calls, tasks, sent, broker, executed, toServer)
    BY <1>1 DEF Served
  <2>4. Paired(calls, tasks, executed, toClient)
    <3> DEFINE w == [i \in DOMAIN toClient |-> 0]
    <3>1. w \in [DOMAIN toClient -> 0 .. MaxCalls]
      BY <1>5
    <3>2. Pairs(w, calls, tasks, executed, toClient)
      BY <1>5 DEF Pairs
    <3>3. QED
      BY <3>1, <3>2 DEF Paired
  <2>5. Plain(calls, executed, toServer, toClient)
    BY <1>2, <1>4, <1>5 DEF Plain
  <2>6. QED
    BY <1>8, <2>1, <2>2, <2>3, <2>4, <2>5 DEF Wire
<1>10. Opening(state, sent, broker, executed, toServer, toClient)
  BY <1>1, <1>7 DEF Opening
<1>11. TypeOK
  BY <1>1, <1>8 DEF TypeOK, Typed, Frames, Executable
<1>12. AllSent /\ Ending /\ Orderly
  BY <1>1, <1>5, <1>7 DEF AllSent, Ending, Orderly
<1>13. IssueOrder /\ FiredWasExecuted
  BY <1>1, <1>5 DEF IssueOrder, FiredWasExecuted
<1>14. QED
  BY <1>1, <1>9, <1>10, <1>11, <1>12, <1>13 DEF IInv

LEMMA NextIInv == IInv /\ [Next]_vars => IInv'
<1> SUFFICES ASSUME IInv, [Next]_vars PROVE IInv'
  OBVIOUS
<1>1. CASE \E op \in TaskOps(kind) : Push(op)
  BY <1>1, PushStep
<1>2. CASE Bind
  BY <1>2, WriteStep DEF Bind
<1>3. CASE Close
  BY <1>3, WriteStep DEF Close
<1>4. CASE HandleTaskReply
  BY <1>4, HandleTaskReplyStep
<1>5. CASE ChannelOpenOk
  BY <1>5, ChannelOpenOkStep
<1>6. CASE DeclareOk
  BY <1>6, DeclareOkStep
<1>7. CASE ChannelClose \/ CloseOk
  BY <1>7, CloseStep
<1>8. CASE OtherMethod
  BY <1>8, OtherMethodStep
<1>9. CASE BrokerOpens
  BY <1>9, BrokerOpensStep
<1>10. CASE BrokerExecutes
  BY <1>10, BrokerExecutesStep
<1>11. CASE BrokerRefuses
  <2>1. /\ Serve("open") /\ Asked # "close" /\ broker' = "closing" /\ executed' = executed
        /\ toClient' = Append(toClient, "channelClose")
    BY <1>11 DEF BrokerRefuses
  <2>2. QED
    BY <2>1, ClosesStep
<1>12. CASE BrokerDiscards
  BY <1>12, BrokerDiscardsStep
<1>13. CASE BrokerCloses
  <2>1. /\ Asked = "close" /\ broker' = "closed" /\ executed' = executed
        /\ toClient' = Append(toClient, "channelCloseOk")
    BY <1>13 DEF BrokerCloses
  <2>2. CASE Serve("open")
    BY <2>1, <2>2, ClosesStep
  <2>3. CASE Serve("closing")
    BY <2>1, <2>3, ClosesStep
  <2>4. QED
    BY <1>13, <2>2, <2>3 DEF BrokerCloses
<1>14. CASE BrokerKicks
  BY <1>14, BrokerKicksStep
<1>15. CASE Break
  BY <1>15, BreakStep
<1>16. CASE UNCHANGED vars
  <2>1. /\ UNCHANGED client /\ broker' = broker /\ executed' = executed
        /\ toServer' = toServer /\ toClient' = toClient
    BY <1>16 DEF vars, client
  <2>2. kind' = kind /\ state' = state /\ calls' = calls /\ misuse' = misuse
    BY <2>1 DEF client
  <2>3. Ending'
    BY <2>1, <2>2 DEF IInv, Ending, Closed, OnWay, Coming
  <2>4. Orderly'
    BY <2>1, <2>2 DEF IInv, Orderly, Closed, OnWay, Coming
  <2>5. IssueOrder'
    BY <2>1, <2>2, OrderNext DEF IInv
  <2>6. QED
    BY <2>1, <2>3, <2>4, <2>5, BrokerStep DEF IInv, TypeOK
<1>17. QED
  BY <1>1, <1>2, <1>3, <1>4, <1>5, <1>6, <1>7, <1>8, <1>9, <1>10, <1>11, <1>12, <1>13, <1>14,
     <1>15, <1>16 DEF Next, Calls, Data, Broker

\* The inductive invariant holds in every state of every execution.
THEOREM Invariance == Spec => []IInv
<1>1. Init => IInv
  BY InitIInv
<1>2. IInv /\ [Next]_vars => IInv'
  BY NextIInv
<1>3. QED
  BY <1>1, <1>2, PTL DEF Spec

\* Every variable keeps a value of its kind, whatever is called and however the
\* broker answers.
THEOREM ChannelTypeCorrect == Spec => []TypeOK
<1>1. IInv => TypeOK
  BY DEF IInv
<1>2. QED
  BY <1>1, Invariance, PTL

\* A promise fires only when the broker has executed its own request, though no
\* reply says which request it answers: only a bind_headers may be completed by
\* the reply to another call, a bind.
THEOREM FiredRequestsExecuted == Spec => []FiredWasExecuted
<1>1. IInv => FiredWasExecuted
  BY DEF IInv
<1>2. QED
  BY <1>1, Invariance, PTL

\* The broker executes the tasks of a channel in the order of the calls, each
\* at most once, and none before the queue or exchange has been declared.
THEOREM TasksInOrder == Spec => []IssueOrder
<1>1. IInv => IssueOrder
  BY DEF IInv
<1>2. QED
  BY <1>1, Invariance, PTL

\* A program that closes its channel once it is open, and uses it no more, does
\* not lose the connection to a frame on a closed channel, and no method the
\* broker sends makes the client throw.
THEOREM OrderlyKeepsChannel == Spec => []ConnectionKept
<1>1. IInv => ConnectionKept
  BY DEF IInv, Orderly, ConnectionKept
<1>2. QED
  BY <1>1, Invariance, PTL

=============================================================================
