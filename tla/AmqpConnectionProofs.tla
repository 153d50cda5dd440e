------------------------ MODULE AmqpConnectionProofs ------------------------
(***************************************************************************)
(* Proofs about AmqpConnection, for every set of names and every bound.    *)
(*                                                                         *)
(* The inductive invariant has three parts: which channels the broker and  *)
(* the methods on their way may name, which object each channel has, and,  *)
(* for a program that uses its objects as it should, in what state each    *)
(* object is while the broker has its channel.                             *)
(*                                                                         *)
(* The tables of queues and exchanges have an invariant of their own,      *)
(* Tabled: a formula about any objects os and tables rather than about the *)
(* variables.  A step of the connection is made of one or two changes of   *)
(* them (a task or a state, then a flush), and each change has a lemma of  *)
(* its own, before those that find the changes in the actions.             *)
(***************************************************************************)
EXTENDS AmqpConnection, FiniteSetTheorems, SequenceTheorems, TLAPS

-----------------------------------------------------------------------------
(* The inductive invariant                                                 *)

Answer(x) == x.m \in {"channelOpenOk", "declareOk"}

\* The broker names the channels of D only.  It has nothing more to say on a
\* channel whose close it has answered, and says one thing at most on a channel
\* that is not open yet, before it closes it.
Broker(D, s, k, q) ==
  /\ DOMAIN s \subseteq D
  /\ k => s = Empty
  /\ \A i \in DOMAIN q :
       /\ q[i].channel \in D \cup {0}
       /\ q[i].m = "connectionClose" => k
       /\ q[i].m = "channelClose" => q[i].channel \notin DOMAIN s \/ s[q[i].channel] = "closing"
       /\ q[i].m = "channelCloseOk" => q[i].channel \notin DOMAIN s
       /\ q[i].m # "connectionClose" => q[i].channel # 0
       /\ q[i].m = "declareOk" => q[i].name \in Names
  /\ \A i, j \in DOMAIN q :
       i < j /\ q[i].channel = q[j].channel =>
         /\ q[i].m # "channelCloseOk"
         /\ q[i].m \in {"channelOpenOk", "declareOk", "channelClose"} => ~Answer(q[j])

\* Every object has a number of its own, and the table has those of this connection.
Numbered ==
  /\ \A i \in Ids : objs[i].channel <= channelCounter
  /\ \A i, j \in Ids : objs[i].channel = objs[j].channel => i = j
  /\ \A c \in DOMAIN channels : objs[channels[c]].channel = c /\ objs[channels[c]].gen = gen

\* What the broker has yet to say to object i.
StateBefore(m) == IF m = "channelOpenOk" THEN "new" ELSE "declaring"

\* The broker has the channel of an object that is not closed.
ServedAt(i) ==
  objs[i].gen = gen =>
    /\ objs[i].closes = 0 => objs[i].channel \in DOMAIN server
    /\ objs[i].state \in {"new", "declaring", "open"} => objs[i].closes = 0

Served == conn # "down" => \A i \in Ids : ServedAt(i)

\* An object is in the state in which it awaits what is on its way to it.
Awaited ==
  \A k \in DOMAIN toClient :
    Answer(toClient[k]) =>
      objs[channels[toClient[k].channel]].state = StateBefore(toClient[k].m)

\* A program that does not misuse its objects.
Orderly == misuse = {} => ~kicked /\ Served /\ Awaited

Down ==
  /\ conn = "down" => server = Empty /\ toClient = <<>>
  /\ conn # "down" => gen > 0

IInv ==
  /\ TypeOK
  /\ Broker(DOMAIN channels, server, kicked, toClient)
  /\ Numbered
  /\ Orderly
  /\ Down
-----------------------------------------------------------------------------
(* What the broker says                                                    *)

ServerType == kicked \in BOOLEAN /\ server \in [DOMAIN server -> {"open", "closing"}]

\* The answers of p are answers of q.
Answers(p, q) == \A k \in DOMAIN p : Answer(p[k]) => \E j \in DOMAIN q : p[k] = q[j]

\* The answers of p are those of q and an m on channel c.
AnswersAnd(p, q, c, m) ==
  \A k \in DOMAIN p :
    Answer(p[k]) => (\E j \in DOMAIN q : p[k] = q[j]) \/ (p[k].channel = c /\ p[k].m = m)

\* None of the answers of q is on channel c.
NoAnswer(q, c) == \A k \in DOMAIN q : Answer(q[k]) => q[k].channel # c

Said(x, c, m) ==
  x \in Methods /\ x.channel = c /\ x.m = m /\ (m = "declareOk" => x.name \in Names)

LEMMA Says ==
  ASSUME NEW c, c \in 0 .. MaxObjects
  PROVE  /\ Said(Method(c, "channelOpenOk", ""), c, "channelOpenOk")
         /\ Said(Method(c, "channelClose", ""), c, "channelClose")
         /\ Said(Method(c, "channelCloseOk", ""), c, "channelCloseOk")
         /\ Said(Method(c, "connectionClose", ""), c, "connectionClose")
BY DEF Method, Methods, Said

LEMMA SaysName ==
  ASSUME NEW c \in 0 .. MaxObjects, NEW n \in Names
  PROVE  Said(Method(c, "declareOk", n), c, "declareOk")
BY DEF Method, Methods, Said

\* The first method is taken.
Speaks(D, s, k, q) == q \in Seq(Methods) /\ q # <<>> /\ Broker(D, s, k, q)

LEMMA BrokerTail ==
  ASSUME NEW D, NEW s, NEW k, NEW q, Speaks(D, s, k, q)
  PROVE  /\ Tail(q) \in Seq(Methods) /\ Head(q) \in Methods
         /\ Broker(D, s, k, Tail(q)) /\ Answers(Tail(q), q)
         /\ \E i \in DOMAIN q : Head(q) = q[i]
         /\ Head(q).channel \in D \cup {0}
         /\ Head(q).m # "connectionClose" => Head(q).channel # 0
         /\ Head(q).m \in {"channelOpenOk", "declareOk", "channelClose", "channelCloseOk"}
              => NoAnswer(Tail(q), Head(q).channel)
         /\ Head(q).m = "declareOk" => Head(q).name \in Names
         /\ Head(q).m = "channelCloseOk" => Broker(D \ {Head(q).channel}, s, k, Tail(q))
<1> DEFINE r == Tail(q)
           h == Head(q)
<1>0. q \in Seq(Methods) /\ q # <<>> /\ Broker(D, s, k, q)
  BY DEF Speaks
<1>1. /\ r \in Seq(Methods) /\ h \in Methods
      /\ h = q[1] /\ 1 \in DOMAIN q
      /\ DOMAIN r = 1 .. Len(q) - 1 /\ DOMAIN q = 1 .. Len(q) /\ Len(q) \in Nat
      /\ \A i \in DOMAIN r : r[i] = q[i + 1]
  BY <1>0, HeadTailProperties
<1> HIDE DEF r, h
<1>2. \A i \in DOMAIN r : i \in Int /\ i + 1 \in DOMAIN q /\ 1 < i + 1 /\ r[i] = q[i + 1]
  BY <1>1
<1>3. \A i, j \in DOMAIN r : i < j => i + 1 < j + 1
  BY <1>2
<1>4. /\ DOMAIN s \subseteq D
      /\ k => s = Empty
      /\ \A i \in DOMAIN q :
           /\ q[i].channel \in D \cup {0}
           /\ q[i].m = "connectionClose" => k
           /\ q[i].m = "channelClose" => q[i].channel \notin DOMAIN s \/ s[q[i].channel] = "closing"
           /\ q[i].m = "channelCloseOk" => q[i].channel \notin DOMAIN s
           /\ q[i].m # "connectionClose" => q[i].channel # 0
           /\ q[i].m = "declareOk" => q[i].name \in Names
      /\ \A i, j \in DOMAIN q :
           i < j /\ q[i].channel = q[j].channel =>
             /\ q[i].m # "channelCloseOk"
             /\ q[i].m \in {"channelOpenOk", "declareOk", "channelClose"} => ~Answer(q[j])
  BY <1>0 DEF Broker
<1>5. \A i, j \in DOMAIN r :
           i < j /\ r[i].channel = r[j].channel =>
             /\ r[i].m # "channelCloseOk"
             /\ r[i].m \in {"channelOpenOk", "declareOk", "channelClose"} => ~Answer(r[j])
  BY <1>2, <1>3, <1>4
<1>6. Broker(D, s, k, r)
  BY <1>2, <1>4, <1>5 DEF Broker
<1>7. Answers(r, q)
  BY <1>2 DEF Answers
<1>8. /\ h.channel \in D \cup {0}
      /\ h.m = "connectionClose" => k
      /\ h.m # "connectionClose" => h.channel # 0
      /\ h.m = "channelCloseOk" => h.channel \notin DOMAIN s
      /\ h.m = "declareOk" => h.name \in Names
  BY <1>1, <1>4
<1>9. \A i \in DOMAIN r : h.channel = r[i].channel =>
        /\ h.m # "channelCloseOk"
        /\ h.m \in {"channelOpenOk", "declareOk", "channelClose"} => ~Answer(r[i])
  BY <1>1, <1>2, <1>4
<1>10. h.m \in {"channelOpenOk", "declareOk", "channelClose", "channelCloseOk"} => NoAnswer(r, h.channel)
  BY <1>9 DEF NoAnswer
<1>11. h.m = "channelCloseOk" => Broker(D \ {h.channel}, s, k, r)
  BY <1>6, <1>8, <1>9 DEF Broker
<1>12. QED
  BY <1>1, <1>6, <1>7, <1>8, <1>10, <1>11 DEF r, h

\* A method more.
\* x may be said after q.
CanSay(D, s, k, q, x) ==
  /\ q \in Seq(Methods) /\ x \in Methods /\ Broker(D, s, k, q)
  /\ x.channel \in D \cup {0}
  /\ x.m = "connectionClose" => k
  /\ x.m # "connectionClose" => x.channel # 0
  /\ x.m = "declareOk" => x.name \in Names
  /\ x.m = "channelClose" => x.channel \notin DOMAIN s \/ s[x.channel] = "closing"
  /\ x.m = "channelCloseOk" => x.channel \notin DOMAIN s
  /\ \A i \in DOMAIN q : q[i].channel = x.channel =>
       /\ q[i].m # "channelCloseOk"
       /\ q[i].m \in {"channelOpenOk", "declareOk", "channelClose"} => ~Answer(x)

LEMMA BrokerAppend ==
  ASSUME NEW D, NEW s, NEW k, NEW q, NEW x, CanSay(D, s, k, q, x)
  PROVE  /\ Append(q, x) \in Seq(Methods)
         /\ Broker(D, s, k, Append(q, x))
         /\ \A i \in DOMAIN Append(q, x) : Append(q, x)[i] = x \/ \E j \in DOMAIN q : Append(q, x)[i] = q[j]
<1> DEFINE a == Append(q, x)
<1>1. CanSay(D, s, k, q, x)
  OBVIOUS
<1>2. q \in Seq(Methods) /\ x \in Methods /\ Broker(D, s, k, q)
  BY <1>1 DEF CanSay
<1>3. /\ a \in Seq(Methods)
      /\ DOMAIN a = DOMAIN q \cup {Len(q) + 1} /\ a[Len(q) + 1] = x
      /\ \A i \in DOMAIN q : a[i] = q[i] /\ i < Len(q) + 1 /\ i \in Int
  BY <1>2, AppendProperties
<1>4. Len(q) + 1 \in Int /\ ~(Len(q) + 1 < Len(q) + 1)
  BY <1>2
<1> HIDE DEF a
<1>5. ASSUME NEW i \in DOMAIN a
      PROVE  /\ a[i].channel \in D \cup {0}
             /\ a[i].m = "connectionClose" => k
             /\ a[i].m = "channelClose" => a[i].channel \notin DOMAIN s \/ s[a[i].channel] = "closing"
             /\ a[i].m = "channelCloseOk" => a[i].channel \notin DOMAIN s
             /\ a[i].m # "connectionClose" => a[i].channel # 0
             /\ a[i].m = "declareOk" => a[i].name \in Names
  <2>1. CASE i \in DOMAIN q
    BY <1>2, <2>1, <1>3 DEF Broker
  <2>2. CASE i = Len(q) + 1
    BY <1>1, <2>2, <1>3 DEF CanSay
  <2>3. QED
    BY <2>1, <2>2, <1>3
<1>6. ASSUME NEW i \in DOMAIN a, NEW j \in DOMAIN a, i < j, a[i].channel = a[j].channel
      PROVE  /\ a[i].m # "channelCloseOk"
             /\ a[i].m \in {"channelOpenOk", "declareOk", "channelClose"} => ~Answer(a[j])
  <2>1. i \in DOMAIN q /\ a[i] = q[i]
    BY <1>3, <1>4, <1>6
  <2>2. CASE j \in DOMAIN q
    BY <1>2, <2>1, <2>2, <1>3, <1>6 DEF Broker
  <2>3. CASE j = Len(q) + 1
    BY <1>1, <2>1, <2>3, <1>3, <1>6 DEF CanSay
  <2>4. QED
    BY <2>2, <2>3, <1>3
<1>7. Broker(D, s, k, a)
  BY <1>5, <1>6, <1>2 DEF Broker
<1>8. QED
  BY <1>3, <1>7 DEF a

LEMMA KickIs ==
  ASSUME NEW D, NEW q \in Seq(Methods), Broker(D, server, kicked, q), ~kicked, Kick(q),
         MaxObjects \in Nat
  PROVE  /\ toClient' \in Seq(Methods) /\ ServerType'
         /\ Broker(D, server', kicked', toClient')
         /\ Answers(toClient', q)
<1> DEFINE x == Method(0, "connectionClose", "")
<1>1. server' = Empty /\ kicked' = TRUE /\ toClient' = Append(q, x)
  BY DEF Kick
<1>0. 0 \in 0 .. MaxObjects
  OBVIOUS
<1>2. x \in Methods /\ x.channel = 0 /\ x.m = "connectionClose"
  BY <1>0, Says DEF Said
<1> HIDE DEF x
<1>3. Broker(D, server', kicked', q)
  BY <1>1 DEF Broker, Empty
<1>4. ~Answer(x)
  BY <1>2 DEF Answer
<1>5. \A i \in DOMAIN q : q[i].channel = 0 => q[i].m = "connectionClose"
  BY DEF Broker
<1>10. CanSay(D, server', kicked', q, x)
  BY <1>1, <1>2, <1>3, <1>4, <1>5 DEF CanSay
<1>6. /\ Append(q, x) \in Seq(Methods)
      /\ Broker(D, server', kicked', Append(q, x))
      /\ \A i \in DOMAIN Append(q, x) : Append(q, x)[i] = x \/ \E j \in DOMAIN q : Append(q, x)[i] = q[j]
  BY <1>10, BrokerAppend
<1>7. Answers(toClient', q)
  BY <1>1, <1>4, <1>6 DEF Answers
<1>8. ServerType'
  BY <1>1 DEF ServerType, Empty
<1>9. QED
  BY <1>1, <1>6, <1>7, <1>8

\* Requests on channel c.
LEMMA RequestsAre ==
  ASSUME NEW D, NEW q \in Seq(Methods), Broker(D, server, kicked, q), ServerType,
         NEW c \in 1 .. MaxObjects, MaxObjects \in Nat,
         Silence(q) \/ Requests(c, q)
  PROVE  /\ toClient' \in Seq(Methods) /\ ServerType'
         /\ Broker(D, server', kicked', toClient')
         /\ Answers(toClient', q)
         /\ (Silence(q) \/ c \in DOMAIN server) /\ ~kicked => DOMAIN server' = DOMAIN server /\ ~kicked'
<1>1. CASE Silence(q)
  BY <1>1 DEF Silence, ServerType, Answers
<1>2. CASE c \notin DOMAIN server /\ ~kicked /\ Kick(q) /\ ~Silence(q)
  BY <1>2, KickIs
<1>3. CASE /\ ~kicked /\ c \in DOMAIN server /\ server[c] = "open"
           /\ server' = [server EXCEPT ![c] = "closing"]
           /\ toClient' = Append(q, Method(c, "channelClose", ""))
           /\ UNCHANGED kicked
  <2> DEFINE x == Method(c, "channelClose", "")
  <2>0. c \in 0 .. MaxObjects /\ c # 0
    OBVIOUS
  <2>1. x \in Methods /\ x.channel = c /\ x.m = "channelClose" /\ ~Answer(x)
    BY <2>0, Says DEF Said, Answer
  <2>2. DOMAIN server' = DOMAIN server /\ server'[c] = "closing"
        /\ \A d \in DOMAIN server : server'[d] = server[d] \/ server'[d] = "closing"
    BY <1>3
  <2> HIDE DEF x
  <2>3. Broker(D, server', kicked', q)
    BY <1>3, <2>2 DEF Broker
  <2>4. \A i \in DOMAIN q : q[i].channel = c => q[i].m # "channelCloseOk"
    BY <1>3 DEF Broker
  <2>5. c \in D
    BY <1>3 DEF Broker
  <2>6. /\ Append(q, x) \in Seq(Methods)
        /\ Broker(D, server', kicked', Append(q, x))
        /\ \A i \in DOMAIN Append(q, x) : Append(q, x)[i] = x \/ \E j \in DOMAIN q : Append(q, x)[i] = q[j]
    <3>1. CanSay(D, server', kicked', q, x)
      BY <2>0, <2>1, <2>2, <2>3, <2>4, <2>5 DEF CanSay
    <3>2. QED
      BY <3>1, BrokerAppend
  <2>7. toClient' = Append(q, x)
    BY <1>3 DEF x
  <2>8. Answers(toClient', q)
    BY <2>1, <2>6, <2>7 DEF Answers
  <2>9. ServerType'
    BY <1>3, <2>2 DEF ServerType
  <2>10. QED
    BY <1>3, <2>2, <2>6, <2>7, <2>8, <2>9
<1>4. QED
  BY <1>1, <1>2, <1>3 DEF Requests

\* A channel is opened.
LEMMA ServerOpensIs ==
  ASSUME NEW D, toClient \in Seq(Methods), Broker(D, server, kicked, toClient), ServerType,
         NEW c \in 1 .. MaxObjects, c \notin D, MaxObjects \in Nat, ServerOpens(c)
  PROVE  /\ toClient' \in Seq(Methods) /\ ServerType'
         /\ Broker(D \cup {c}, server', kicked', toClient')
         /\ AnswersAnd(toClient', toClient, c, "channelOpenOk")
         /\ ~kicked => DOMAIN server' = DOMAIN server \cup {c} /\ ~kicked'
<1>1. c \notin DOMAIN server /\ \A i \in DOMAIN toClient : toClient[i].channel # c
  BY DEF Broker
<1>2. c \notin DOMAIN server
  BY <1>1
<1>3. CASE kicked /\ Silence(toClient)
  <2>1. toClient' = toClient /\ server' = server /\ kicked' = kicked
    BY <1>3 DEF Silence
  <2>2. Broker(D \cup {c}, server, kicked, toClient)
    BY DEF Broker
  <2>3. AnswersAnd(toClient', toClient, c, "channelOpenOk")
    BY <2>1 DEF AnswersAnd
  <2>4. QED
    BY <1>3, <2>1, <2>2, <2>3 DEF ServerType
<1>4. CASE /\ ~kicked
           /\ server' = With(server, c, "open")
           /\ toClient' = Append(toClient, Method(c, "channelOpenOk", ""))
           /\ UNCHANGED kicked
  <2> DEFINE x == Method(c, "channelOpenOk", "")
  <2>0. c \in 0 .. MaxObjects /\ c # 0
    OBVIOUS
  <2>1. x \in Methods /\ x.channel = c /\ x.m = "channelOpenOk" /\ c # 0
    BY <2>0, Says DEF Said
  <2>2. DOMAIN server' = DOMAIN server \cup {c} /\ server'[c] = "open"
        /\ \A d \in DOMAIN server : server'[d] = server[d]
    BY <1>1, <1>4 DEF With
  <2> HIDE DEF x
  <2>3. Broker(D \cup {c}, server', kicked', toClient)
    BY <1>1, <1>4, <2>2 DEF Broker
  <2>4. /\ Append(toClient, x) \in Seq(Methods)
        /\ Broker(D \cup {c}, server', kicked', Append(toClient, x))
        /\ \A i \in DOMAIN Append(toClient, x) :
             Append(toClient, x)[i] = x \/ \E j \in DOMAIN toClient : Append(toClient, x)[i] = toClient[j]
    <3>1. x.channel \in (D \cup {c}) \cup {0} /\ x.m # "declareOk" /\ x.m # "channelClose"
      BY <2>1
    <3>2. \A i \in DOMAIN toClient : toClient[i].channel # x.channel
      BY <1>1, <2>1
    <3>3. CanSay(D \cup {c}, server', kicked', toClient, x)
      BY <2>1, <2>3, <3>1, <3>2 DEF CanSay
    <3>4. QED
      BY <3>3, BrokerAppend
  <2>5. toClient' = Append(toClient, x)
    BY <1>4 DEF x
  <2>6. ServerType'
    BY <1>4, <2>2 DEF ServerType, With
  <2>7. AnswersAnd(toClient', toClient, c, "channelOpenOk")
    BY <2>1, <2>4, <2>5 DEF AnswersAnd
  <2>8. QED
    BY <1>4, <2>2, <2>4, <2>5, <2>6, <2>7
<1>5. \/ kicked /\ Silence(toClient)
      \/ /\ ~kicked
         /\ server' = With(server, c, "open")
         /\ toClient' = Append(toClient, Method(c, "channelOpenOk", ""))
         /\ UNCHANGED kicked
  BY <1>2 DEF ServerOpens
<1>6. QED
  BY <1>3, <1>4, <1>5, Zenon

\* A channel is closed.
LEMMA ServerClosesIs ==
  ASSUME NEW D, toClient \in Seq(Methods), Broker(D, server, kicked, toClient), ServerType,
         NEW c \in 1 .. MaxObjects, MaxObjects \in Nat, ServerCloses(c)
  PROVE  /\ toClient' \in Seq(Methods) /\ ServerType'
         /\ Broker(D, server', kicked', toClient')
         /\ Answers(toClient', toClient)
         /\ c \in DOMAIN server /\ ~kicked => DOMAIN server' = DOMAIN server \ {c} /\ ~kicked'
<1>1. CASE kicked /\ Silence(toClient)
  BY <1>1 DEF Silence, ServerType, Answers
<1>2. CASE ~kicked /\ c \notin DOMAIN server /\ Kick(toClient)
  BY <1>2, KickIs
<1>3. CASE /\ ~kicked /\ c \in DOMAIN server
           /\ server' = Without(server, c)
           /\ toClient' = Append(toClient, Method(c, "channelCloseOk", ""))
           /\ UNCHANGED kicked
  <2> DEFINE x == Method(c, "channelCloseOk", "")
  <2>0. c \in 0 .. MaxObjects /\ c # 0
    OBVIOUS
  <2>1. x \in Methods /\ x.channel = c /\ x.m = "channelCloseOk" /\ ~Answer(x) /\ c # 0
    BY <2>0, Says DEF Said, Answer
  <2>2. DOMAIN server' = DOMAIN server \ {c} /\ \A d \in DOMAIN server' : server'[d] = server[d]
    BY <1>3 DEF Without
  <2> HIDE DEF x
  <2>3. Broker(D, server', kicked', toClient)
    BY <1>3, <2>2 DEF Broker
  <2>4. c \in D /\ \A i \in DOMAIN toClient : toClient[i].channel = c => toClient[i].m # "channelCloseOk"
    BY <1>3 DEF Broker
  <2>5. /\ Append(toClient, x) \in Seq(Methods)
        /\ Broker(D, server', kicked', Append(toClient, x))
        /\ \A i \in DOMAIN Append(toClient, x) :
             Append(toClient, x)[i] = x \/ \E j \in DOMAIN toClient : Append(toClient, x)[i] = toClient[j]
    <3>1. CanSay(D, server', kicked', toClient, x)
      BY <2>1, <2>2, <2>3, <2>4 DEF CanSay
    <3>2. QED
      BY <3>1, BrokerAppend
  <2>6. toClient' = Append(toClient, x)
    BY <1>3 DEF x
  <2>7. ServerType'
    BY <1>3, <2>2 DEF ServerType, Without
  <2>8. Answers(toClient', toClient)
    BY <2>1, <2>5, <2>6 DEF Answers
  <2>9. QED
    BY <1>3, <2>2, <2>5, <2>6, <2>7, <2>8
<1>4. QED
  BY <1>1, <1>2, <1>3 DEF ServerCloses

\* A queue or an exchange is declared.
LEMMA DeclaresIs ==
  ASSUME NEW D, NEW q \in Seq(Methods), Broker(D, server, kicked, q), ServerType,
         NEW c \in 1 .. MaxObjects, MaxObjects \in Nat,
         NEW n \in Names, NoAnswer(q, c), Declares(c, n, q)
  PROVE  /\ toClient' \in Seq(Methods) /\ ServerType'
         /\ Broker(D, server', kicked', toClient')
         /\ AnswersAnd(toClient', q, c, "declareOk")
         /\ c \in DOMAIN server /\ ~kicked => DOMAIN server' = DOMAIN server /\ ~kicked'
<1>1. CASE Silence(q) \/ Requests(c, q)
  <2>1. Answers(toClient', q) => AnswersAnd(toClient', q, c, "declareOk")
    BY DEF Answers, AnswersAnd
  <2>2. QED
    BY <1>1, <2>1, RequestsAre
<1>2. ASSUME ~kicked, c \in DOMAIN server, server[c] = "open", NEW g \in Names,
             toClient' = Append(q, Method(c, "declareOk", g)), UNCHANGED <<server, kicked>>
      PROVE  /\ toClient' \in Seq(Methods) /\ ServerType'
             /\ Broker(D, server', kicked', toClient')
             /\ AnswersAnd(toClient', q, c, "declareOk")
  <2> DEFINE x == Method(c, "declareOk", g)
  <2>1. x \in Methods /\ x.channel = c /\ x.m = "declareOk" /\ c # 0 /\ x.name \in Names
    BY SaysName DEF Said
  <2> HIDE DEF x
  <2>2. c \in D /\ \A i \in DOMAIN q : q[i].channel = c => q[i].m \notin {"channelCloseOk", "channelClose"}
    BY <1>2 DEF Broker
  <2>3. \A i \in DOMAIN q : q[i].channel = c => q[i].m \notin {"channelOpenOk", "declareOk", "channelClose"}
    BY <2>2 DEF NoAnswer, Answer
  <2>4. /\ Append(q, x) \in Seq(Methods)
        /\ Broker(D, server, kicked, Append(q, x))
        /\ \A i \in DOMAIN Append(q, x) : Append(q, x)[i] = x \/ \E j \in DOMAIN q : Append(q, x)[i] = q[j]
    <3>1. CanSay(D, server, kicked, q, x)
      BY <2>1, <2>2, <2>3 DEF CanSay
    <3>2. QED
      BY <3>1, BrokerAppend
  <2>5. toClient' = Append(q, x)
    BY <1>2 DEF x
  <2>6. AnswersAnd(toClient', q, c, "declareOk")
    BY <2>1, <2>4, <2>5 DEF AnswersAnd
  <2>7. QED
    BY <1>2, <2>4, <2>5, <2>6 DEF ServerType
<1>3. CASE ~kicked /\ c \in DOMAIN server /\ server[c] = "open" /\ ~Requests(c, q)
  <2>1. CASE /\ n = "" => ServerNamesLeft(q) # {}
             /\ LET given == IF n = "" THEN CHOOSE s \in ServerNamesLeft(q) : TRUE ELSE n
                IN toClient' = Append(q, Method(c, "declareOk", given))
             /\ UNCHANGED <<server, kicked>>
    <3> DEFINE given == IF n = "" THEN CHOOSE s \in ServerNamesLeft(q) : TRUE ELSE n
    <3>1. given \in Names
      BY <2>1 DEF ServerNamesLeft, Names
    <3>2. toClient' = Append(q, Method(c, "declareOk", given)) /\ UNCHANGED <<server, kicked>>
      BY <2>1
    <3> HIDE DEF given
    <3>3. QED
      BY <1>2, <1>3, <3>1, <3>2
  <2>2. CASE /\ server' = [server EXCEPT ![c] = "closing"]
             /\ toClient' = Append(q, Method(c, "channelClose", ""))
             /\ UNCHANGED kicked
    BY <2>2, <1>3 DEF Requests
  <2>3. QED
    BY <2>1, <2>2, <1>3 DEF Declares
<1>4. QED
  BY <1>1, <1>3 DEF Declares

-----------------------------------------------------------------------------
(* What a flush does to the objects and the tables                         *)

\* ns: the objects os, of which i alone has another state or more closes.
Recast(os, ns, i) ==
  /\ ns \in Seq(Objects) /\ Len(ns) = Len(os) /\ DOMAIN ns = DOMAIN os
  /\ \A j \in DOMAIN os :
       /\ ns[j].channel = os[j].channel /\ ns[j].gen = os[j].gen
       /\ j # i => ns[j].state = os[j].state /\ ns[j].closes = os[j].closes

Same(o, p) ==
  p.channel = o.channel /\ p.gen = o.gen /\ p.state = o.state /\ p.closes = o.closes

\* ns: the objects os, each with the same channel, state and closes.
Kept(os, ns) ==
  /\ ns \in Seq(Objects) /\ Len(ns) = Len(os) /\ DOMAIN ns = DOMAIN os
  /\ \A j \in DOMAIN os : Same(os[j], ns[j])

LEMMA DestroysType ==
  ASSUME NEW S, NEW todo \in Seq(S)
  PROVE  Destroys(todo) \in Nat
<1>1. IsFiniteSet(1 .. Len(todo))
  BY FS_Interval
<1>2. {k \in DOMAIN todo : todo[k] = "destroy"} \subseteq 1 .. Len(todo)
  OBVIOUS
<1>3. IsFiniteSet({k \in DOMAIN todo : todo[k] = "destroy"})
  BY <1>1, <1>2, FS_Subset
<1>4. QED
  BY <1>3, FS_CardinalityType DEF Destroys

\* An object after its tasks are done.
Sent(o, b) == [o EXCEPT !.todo = <<>>, !.destroyed = b]

LEMMA SentIs ==
  ASSUME NEW o \in Objects, NEW b \in BOOLEAN
  PROVE  Sent(o, b) \in Objects /\ Same(o, Sent(o, b))
<1> DEFINE t == <<>>
<1>0. t \in Seq({"destroy", "request"})
  OBVIOUS
<1> HIDE DEF t
<1>1. [o EXCEPT !.todo = t] \in Objects /\ Same(o, [o EXCEPT !.todo = t])
  BY <1>0 DEF Objects, Same
<1>2. ASSUME NEW p \in Objects
      PROVE  [p EXCEPT !.destroyed = b] \in Objects /\ Same(p, [p EXCEPT !.destroyed = b])
  BY DEF Objects, Same
<1>3. Sent(o, b) = [[o EXCEPT !.todo = t] EXCEPT !.destroyed = b]
  BY DEF Objects, Sent, t
<1>4. QED
  BY <1>1, <1>2, <1>3 DEF Same

LEMMA CountedIs ==
  ASSUME NEW o \in Objects, NEW b \in Int
  PROVE  [o EXCEPT !.binds = b] \in Objects /\ Same(o, [o EXCEPT !.binds = b])
BY DEF Objects, Same

LEMMA KeptAt ==
  ASSUME NEW os \in Seq(Objects), NEW i \in DOMAIN os, NEW o \in Objects, Same(os[i], o)
  PROVE  Kept(os, [os EXCEPT ![i] = o])
<1> DEFINE ns == [os EXCEPT ![i] = o]
<1>1. /\ ns \in Seq(Objects) /\ Len(ns) = Len(os) /\ DOMAIN ns = DOMAIN os
      /\ \A j \in DOMAIN os : ns[j] = IF j = i THEN o ELSE os[j]
  OBVIOUS
<1> HIDE DEF ns
<1>2. \A j \in DOMAIN os : Same(os[j], ns[j])
  BY <1>1 DEF Same
<1>3. Kept(os, ns)
  BY <1>1, <1>2 DEF Kept
<1>4. QED
  BY <1>3 DEF ns

LEMMA KeptTwice ==
  ASSUME NEW os, NEW ms, NEW ns, Kept(os, ms), Kept(ms, ns)
  PROVE  Kept(os, ns)
BY DEF Kept, Same

LEMMA FewerIs ==
  ASSUME NEW f, NEW D, Table(f, D), NEW n
  PROVE  Table(Without(f, n), D)
BY DEF Table, Without

\* The flush of object i of os.
LEMMA FlushIs ==
  ASSUME NEW os \in Seq(Objects), NEW i \in DOMAIN os, Len(os) = Len(objs),
         NEW qs, Table(qs, Names), Table(exchanges, Names), NEW q, TasksFlush(i, os, qs, q)
  PROVE  /\ Kept(os, objs')
         /\ Table(queues', Names) /\ Table(exchanges', Names)
         /\ Silence(q) \/ (os[i].state = "open" /\ Requests(os[i].channel, q))
<1> DEFINE o == os[i]
           k == Destroys(o.todo)
           x == o.exchange
           sent == [os EXCEPT ![i].todo = <<>>, ![i].destroyed = @ \/ k > 0]
<1>1. o \in Objects
  BY ElementOfSeq
<1>2. /\ o.todo \in Seq({"destroy", "request"}) /\ o.destroyed \in BOOLEAN
      /\ x \in 0 .. Len(os)
  BY <1>1 DEF Objects
<1>3. k \in Nat
  BY <1>2, DestroysType
<1>4. CASE o.state # "open" \/ o.todo = <<>>
  <2>1. objs' = os /\ queues' = qs /\ Silence(q) /\ exchanges' = exchanges
    BY <1>4 DEF TasksFlush
  <2>2. Kept(os, os)
    BY DEF Kept, Same
  <2>3. Kept(os, objs')
    BY <2>1, <2>2
  <2>4. QED
    BY <2>1, <2>3
<1>5. CASE ~(o.state # "open" \/ o.todo = <<>>)
  <2>1. /\ Requests(o.channel, q)
        /\ queues' = IF k > 0 /\ o.kind = "queue" THEN Without(qs, o.name) ELSE qs
        /\ objs' = IF x = 0 THEN sent ELSE [sent EXCEPT ![x].binds = @ - k]
        /\ exchanges' =
             IF k > 0 /\ o.kind = "exchange" THEN Without(exchanges, o.name)
             ELSE IF x # 0 /\ \E j \in 1 .. k : Unused(os[x].binds - j)
                  THEN Without(exchanges, os[x].name) ELSE exchanges
    BY <1>5 DEF TasksFlush
  <2>2. Table(queues', Names) /\ Table(exchanges', Names)
    BY <2>1, FewerIs
  <2>3. Kept(os, sent)
    <3>1. PICK b \in BOOLEAN : b = (o.destroyed \/ k > 0)
      OBVIOUS
    <3>2. Sent(o, b) \in Objects /\ Same(o, Sent(o, b))
      BY <1>1, SentIs
    <3>3. PICK p \in Objects : p = Sent(o, b) /\ Same(o, p)
      BY <3>2
    <3>4. sent = [os EXCEPT ![i] = p]
      BY <3>1, <3>3 DEF Sent
    <3>5. QED
      BY <3>3, <3>4, KeptAt
  <2> HIDE DEF sent, k, x
  <2>4. ASSUME x = 0 PROVE Kept(os, objs')
    BY <2>1, <2>3, <2>4
  <2>5. ASSUME x # 0 PROVE Kept(os, objs')
    <3>1. x \in DOMAIN sent /\ sent \in Seq(Objects)
      BY <1>2, <2>3, <2>5 DEF Kept
    <3>0. sent[x] \in Objects
      BY <3>1, ElementOfSeq
    <3>2. sent[x] \in Objects /\ sent[x].binds \in Int
      BY <3>0 DEF Objects
    <3>3. PICK b \in Int : b = sent[x].binds - k
      BY <3>2, <1>3
    <3>4. PICK p : p = [sent[x] EXCEPT !.binds = b]
      OBVIOUS
    <3>5. p \in Objects /\ Same(sent[x], p)
      BY <3>2, <3>4, CountedIs
    <3>6. [sent EXCEPT ![x].binds = @ - k] = [sent EXCEPT ![x] = p]
      BY <3>1, <3>3, <3>4
    <3>7. Kept(sent, objs')
      BY <2>1, <2>5, <3>1, <3>5, <3>6, KeptAt
    <3>8. QED
      BY <2>3, <3>7, KeptTwice
  <2>6. QED
    BY <1>5, <2>1, <2>2, <2>4, <2>5
<1>6. QED
  BY <1>4, <1>5

-----------------------------------------------------------------------------
(* What the actions have in common                                         *)

LEMMA TypeOfChannel ==
  ASSUME TypeOK, NEW i \in Ids
  PROVE  /\ objs[i] \in Objects /\ objs[i].channel \in 1 .. MaxObjects
         /\ objs[i].gen \in 1 .. gen /\ objs[i].closes \in Nat /\ objs[i].name \in Names
         /\ objs[i].exchange \in 0 .. Len(objs) /\ objs[i].binds \in Int
         /\ objs[i].todo \in Seq({"destroy", "request"}) /\ objs[i].destroys \in Nat
         /\ objs[i].state \in {"new", "declaring", "open", "closing", "closed"}
<1>1. objs[i] \in Objects
  BY ElementOfSeq DEF TypeOK, Ids
<1>2. QED
  BY <1>1 DEF Objects

\* A step of the program or of an answer in which no object comes or goes.
LEMMA TypeKept ==
  ASSUME TypeOK, UNCHANGED <<gen, channelCounter>>, conn' \in {conn, "down"},
         default' \in 0 .. Len(objs),
         objs' \in Seq(Objects), Len(objs') = Len(objs),
         Table(channels', 1 .. MaxObjects), Table(queues', Names), Table(exchanges', Names),
         misuse' \subseteq {"stale", "early", "late", "default"},
         ServerType', toClient' \in Seq(Methods)
  PROVE  TypeOK'
<1>1. Ids' = Ids /\ Objects' = Objects
  <2>1. Ids' = Ids
    BY DEF TypeOK, Ids
  <2>2. QED
    BY <2>1 DEF Objects
<1>2. objs' \in Seq(Objects)'
  BY <1>1
<1>3. /\ Table(channels, 1 .. MaxObjects)' /\ Table(queues, Names)' /\ Table(exchanges, Names)'
  BY <1>1 DEF Table
<1>4. QED
  BY <1>2, <1>3 DEF TypeOK, ServerType

LEMMA NumberedKept ==
  ASSUME Numbered, UNCHANGED <<gen, channelCounter>>, Table(channels, 1 .. MaxObjects),
         NEW i, Recast(objs, objs', i),
         channels' = channels \/ \E c : channels' = Without(channels, c)
  PROVE  Numbered'
<1>1. Ids' = Ids /\ \A j \in Ids : objs'[j].channel = objs[j].channel /\ objs'[j].gen = objs[j].gen
  BY DEF Recast, Ids
<1>2. \A c \in DOMAIN channels' : c \in DOMAIN channels /\ channels'[c] = channels[c] /\ channels[c] \in Ids
  BY DEF Without, Table
<1>3. QED
  BY <1>1, <1>2 DEF Numbered

LEMMA KeptIsRecast ==
  ASSUME NEW os, NEW ns, NEW i, Kept(os, ns)
  PROVE  Recast(os, ns, i)
BY DEF Kept, Recast, Same

\* Who a method on channel c is for.
LEMMA OwnerIs ==
  ASSUME TypeOK, Numbered, NEW c \in DOMAIN channels
  PROVE  /\ channels[c] \in Ids /\ objs[channels[c]].channel = c /\ objs[channels[c]].gen = gen
         /\ c \in 1 .. MaxObjects
BY DEF TypeOK, Table, Numbered

LEMMA ServedKept ==
  ASSUME TypeOK, Numbered, Served, conn # "down", UNCHANGED gen,
         NEW i \in Ids, Recast(objs, objs', i),
         DOMAIN server \ {objs[i].channel} \subseteq DOMAIN server', ServedAt(i)'
  PROVE  Served'
<1>1. Ids' = Ids
  BY DEF Recast, Ids
<1>2. ASSUME NEW j \in Ids, j # i PROVE ServedAt(j)'
  <2>1. /\ objs'[j].channel = objs[j].channel /\ objs'[j].gen = objs[j].gen
        /\ objs'[j].state = objs[j].state /\ objs'[j].closes = objs[j].closes
    BY <1>2 DEF Recast, Ids
  <2>2. objs[j].channel # objs[i].channel
    BY <1>2 DEF Numbered
  <2>3. ServedAt(j)
    BY DEF Served
  <2>4. QED
    BY <2>1, <2>2, <2>3 DEF ServedAt
<1>3. QED
  BY <1>1, <1>2 DEF Served

\* The answers on their way are old ones, none of which is for object i when its
\* state changes.
LEMMA AwaitedKept ==
  ASSUME TypeOK, Numbered, Awaited, Broker(DOMAIN channels, server, kicked, toClient),
         NEW i \in Ids, Recast(objs, objs', i),
         NEW q, Answers(q, toClient), Answers(toClient', q),
         objs'[i].state = objs[i].state \/ NoAnswer(q, objs[i].channel),
         \/ channels' = channels
         \/ channels' = Without(channels, objs[i].channel) /\ NoAnswer(q, objs[i].channel)
  PROVE  Awaited'
<1> SUFFICES ASSUME NEW k \in DOMAIN toClient', Answer(toClient'[k])
             PROVE  objs'[channels'[toClient'[k].channel]].state = StateBefore(toClient'[k].m)
  BY DEF Awaited, Answer, StateBefore
<1> DEFINE x == toClient'[k]
           d == x.channel
<1>1. PICK l \in DOMAIN q : x = q[l]
  BY DEF Answers
<1>2. PICK n \in DOMAIN toClient : x = toClient[n]
  BY <1>1 DEF Answers
<1>3. x.m # "connectionClose"
  BY DEF Answer
<1>4. d \in DOMAIN channels /\ objs[channels[d]].state = StateBefore(x.m)
  BY <1>2, <1>3 DEF Broker, Awaited
<1>5. channels[d] \in Ids /\ objs[channels[d]].channel = d
  BY <1>4, OwnerIs
<1>6. NoAnswer(q, objs[i].channel) => d # objs[i].channel
  BY <1>1 DEF NoAnswer
<1> HIDE DEF d, x
<1>7. channels'[d] = channels[d]
  BY <1>4, <1>6 DEF Without
<1>8. objs'[channels[d]].state = objs[channels[d]].state
  BY <1>5, <1>6 DEF Recast, Ids
<1>9. QED
  BY <1>4, <1>7, <1>8 DEF d, x

\* The same with a new answer, for object i.
LEMMA AwaitedOne ==
  ASSUME TypeOK, Numbered, Awaited, Broker(DOMAIN channels, server, kicked, toClient),
         NEW i \in Ids, Recast(objs, objs', i), UNCHANGED channels,
         objs[i].channel \in DOMAIN channels,
         objs'[i].state = "declaring",
         NEW q, Answers(q, toClient), AnswersAnd(toClient', q, objs[i].channel, "declareOk"),
         NoAnswer(q, objs[i].channel)
  PROVE  Awaited'
<1> SUFFICES ASSUME NEW k \in DOMAIN toClient', Answer(toClient'[k])
             PROVE  objs'[channels'[toClient'[k].channel]].state = StateBefore(toClient'[k].m)
  BY DEF Awaited, Answer, StateBefore
<1> DEFINE x == toClient'[k]
           d == x.channel
<1>1. CASE d = objs[i].channel /\ x.m = "declareOk"
  <2>1. channels[d] = i
    BY <1>1, OwnerIs DEF Numbered
  <2>2. QED
    BY <1>1, <2>1 DEF StateBefore
<1>2. CASE \E l \in DOMAIN q : x = q[l]
  <2>1. PICK l \in DOMAIN q : x = q[l]
    BY <1>2
  <2>2. PICK n \in DOMAIN toClient : x = toClient[n]
    BY <2>1 DEF Answers
  <2>3. x.m # "connectionClose"
    BY DEF Answer
  <2>4. d \in DOMAIN channels /\ objs[channels[d]].state = StateBefore(x.m)
    BY <2>2, <2>3 DEF Broker, Awaited
  <2>5. channels[d] \in Ids /\ objs[channels[d]].channel = d
    BY <2>4, OwnerIs
  <2>6. d # objs[i].channel
    BY <2>1 DEF NoAnswer
  <2> HIDE DEF d, x
  <2>7. objs'[channels[d]].state = objs[channels[d]].state
    BY <2>5, <2>6 DEF Recast, Ids
  <2>8. QED
    BY <2>4, <2>7 DEF d, x
<1>3. QED
  BY <1>1, <1>2 DEF AnswersAnd

-----------------------------------------------------------------------------
(* The calls on objects                                                    *)

\* The conjuncts of the invariant but for the type invariant.
Rest == Broker(DOMAIN channels, server, kicked, toClient) /\ Numbered /\ Orderly /\ Down

ServerTyped == ServerType /\ toClient \in Seq(Methods)

LEMMA TypesOf ==
  ASSUME TypeOK
  PROVE  /\ ServerTyped /\ Table(channels, 1 .. MaxObjects)
         /\ Table(queues, Names) /\ Table(exchanges, Names)
         /\ objs \in Seq(Objects) /\ misuse \subseteq {"stale", "early", "late", "default"}
BY DEF TypeOK, ServerTyped, ServerType

\* Requests on the channel of object i.
LEMMA RequestStep ==
  ASSUME IInv, MaxObjects \in Nat, conn = "ready", UNCHANGED <<conn, gen, channelCounter, channels>>,
         NEW i \in Ids, Kept(objs, objs'), misuse \subseteq misuse',
         misuse' = {} => Silence(toClient) \/ (objs[i].gen = gen /\ objs[i].closes = 0),
         Silence(toClient) \/ Requests(objs[i].channel, toClient)
  PROVE  ServerTyped' /\ Rest'
<1> DEFINE c == objs[i].channel
<1>1. c \in 1 .. MaxObjects /\ ServerTyped /\ Table(channels, 1 .. MaxObjects)
  BY TypeOfChannel, TypesOf DEF IInv
<1>2. Recast(objs, objs', i)
  BY KeptIsRecast
<1>3. Numbered'
  BY <1>1, <1>2, NumberedKept DEF IInv
<1>4. /\ toClient' \in Seq(Methods) /\ ServerType'
      /\ Broker(DOMAIN channels, server', kicked', toClient')
      /\ Answers(toClient', toClient)
      /\ (Silence(toClient) \/ c \in DOMAIN server) /\ ~kicked =>
           DOMAIN server' = DOMAIN server /\ ~kicked'
  BY <1>1, RequestsAre DEF IInv, ServerTyped
<1>5. Broker(DOMAIN channels, server, kicked, toClient)'
  BY <1>4
<1>6. Down'
  BY DEF Down, IInv
<1>7. ASSUME misuse' = {} PROVE ~kicked' /\ Served' /\ Awaited'
  <2>1. misuse = {} /\ ~kicked /\ Served /\ Awaited
    BY <1>7 DEF IInv, Orderly
  <2>2. Silence(toClient) \/ c \in DOMAIN server
    BY <1>7, <2>1 DEF Served, ServedAt
  <2>3. DOMAIN server' = DOMAIN server /\ ~kicked'
    BY <1>4, <2>1, <2>2
  <2>4. /\ objs'[i].channel = c /\ objs'[i].gen = objs[i].gen
        /\ objs'[i].state = objs[i].state /\ objs'[i].closes = objs[i].closes
    BY DEF Kept, Same, Ids
  <2>5. ServedAt(i)
    BY <2>1 DEF Served
  <2>6. ServedAt(i)'
    BY <2>3, <2>4, <2>5 DEF ServedAt
  <2>7. Served'
    BY <1>2, <2>1, <2>3, <2>6, ServedKept DEF IInv
  <2>8. Answers(toClient, toClient)
    BY DEF Answers
  <2>9. Awaited'
    BY <1>2, <1>4, <2>1, <2>4, <2>8, AwaitedKept DEF IInv
  <2>10. QED
    BY <2>3, <2>7, <2>9
<1>8. QED
  BY <1>3, <1>4, <1>5, <1>6, <1>7 DEF Orderly, Rest, ServerTyped

LEMMA MisuseIs ==
  ASSUME NEW i, NEW op
  PROVE  /\ Misuse(i, op) \subseteq {"stale", "early", "late"}
         /\ Misuse(i, op) = {} => objs[i].gen = gen
         /\ Misuse(i, "close") = {} => objs[i].state \notin {"new", "declaring"}
         /\ op \in {"bind", "close"} /\ Misuse(i, op) = {} => ~(objs[i].closes > 0)
<1>1. Misuse(i, op) \subseteq {"stale", "early", "late"}
  BY DEF Misuse
<1>2. "stale" \in Misuse(i, op) <=> objs[i].gen # gen
  BY DEF Misuse
<1>3. "early" \in Misuse(i, "close") <=> objs[i].state \in {"new", "declaring"}
  BY DEF Misuse
<1>4. op \in {"bind", "close"} => ("late" \in Misuse(i, op) <=> objs[i].closes > 0)
  BY DEF Misuse
<1>5. QED
  BY <1>1, <1>2, <1>3, <1>4

\* A flush of object i, after os has what was done to its tasks.
LEMMA FlushStep ==
  ASSUME IInv, MaxObjects \in Nat, conn = "ready", UNCHANGED <<conn, gen, channelCounter, channels>>,
         NEW i \in Ids, NEW os, Kept(objs, os), TasksFlush(i, os, queues, toClient),
         default' \in 0 .. Len(objs),
         misuse \subseteq misuse', misuse' \subseteq {"stale", "early", "late", "default"},
         misuse' = {} => objs[i].gen = gen
  PROVE  IInv'
<1>1. TypeOK
  BY DEF IInv
<1>2. os \in Seq(Objects) /\ Len(os) = Len(objs) /\ i \in DOMAIN os /\ Same(objs[i], os[i])
  BY DEF Kept, Ids
<1>3. /\ Kept(os, objs')
      /\ Table(queues', Names) /\ Table(exchanges', Names)
      /\ Silence(toClient) \/ (os[i].state = "open" /\ Requests(os[i].channel, toClient))
  BY <1>1, <1>2, TypesOf, FlushIs
<1>4. Kept(objs, objs')
  BY <1>3, KeptTwice
<1>5. ASSUME misuse' = {} PROVE Silence(toClient) \/ (objs[i].gen = gen /\ objs[i].closes = 0)
  <2>1. ASSUME os[i].state = "open" PROVE objs[i].gen = gen /\ objs[i].closes = 0
    <3>1. misuse = {} /\ objs[i].gen = gen
      BY <1>5
    <3>2. ServedAt(i) /\ objs[i].state = "open"
      BY <1>2, <2>1, <3>1 DEF IInv, Orderly, Served, Same
    <3>3. QED
      BY <3>1, <3>2 DEF ServedAt
  <2>2. QED
    BY <1>3, <2>1
<1>6. Silence(toClient) \/ Requests(objs[i].channel, toClient)
  BY <1>2, <1>3 DEF Same
<1>7. ServerTyped' /\ Rest'
  BY <1>4, <1>5, <1>6, RequestStep
<1>8. objs' \in Seq(Objects) /\ Len(objs') = Len(objs)
  BY <1>4 DEF Kept
<1>9. TypeOK'
  BY <1>1, <1>3, <1>7, <1>8, TypesOf, TypeKept DEF ServerTyped
<1>10. QED
  BY <1>7, <1>9 DEF IInv, Rest

LEMMA TaskKeeps ==
  ASSUME IInv, MaxObjects \in Nat, NEW i \in Ids, NEW op \in {"destroy", "request"}, Task(i, op)
  PROVE  IInv'
<1> DEFINE os == [objs EXCEPT ![i].todo = Append(@, op),
                              ![i].destroys = IF op = "destroy" THEN @ + 1 ELSE @]
<1>1. MaxObjects \in Nat /\ TypeOK /\ Numbered /\ i \in DOMAIN objs
  BY DEF IInv, Ids
<1>2. /\ conn = "ready" /\ UNCHANGED <<conn, gen, channelCounter, channels, default>>
      /\ misuse' = misuse \cup Misuse(i, op)
      /\ TasksFlush(i, os, queues, toClient)
  BY DEF Task, Called
<1>3. os \in Seq(Objects) /\ Kept(objs, os)
  <2>0. objs[i].destroys \in Nat
    BY <1>1, TypeOfChannel
  <2>1. objs[i] \in Objects /\ objs[i].todo \in Seq({"destroy", "request"})
    BY <1>1, TypeOfChannel
  <2>2. PICK d : d = IF op = "destroy" THEN objs[i].destroys + 1 ELSE objs[i].destroys
    OBVIOUS
  <2>3. d \in Nat
    BY <2>0, <2>2
  <2>4. PICK t \in Seq({"destroy", "request"}) : t = Append(objs[i].todo, op)
    BY <2>1, AppendProperties
  <2>5. PICK o : o = [[objs[i] EXCEPT !.todo = t] EXCEPT !.destroys = d]
    OBVIOUS
  <2>6. o \in Objects /\ Same(objs[i], o)
    <3>1. [objs[i] EXCEPT !.todo = t] \in Objects /\ Same(objs[i], [objs[i] EXCEPT !.todo = t])
      BY <2>1 DEF Objects, Same
    <3>2. ASSUME NEW p \in Objects
          PROVE  [p EXCEPT !.destroys = d] \in Objects /\ Same(p, [p EXCEPT !.destroys = d])
      BY <2>3 DEF Objects, Same
    <3>3. QED
      BY <2>5, <3>1, <3>2 DEF Same
  <2>7. os = [objs EXCEPT ![i] = o]
    BY <1>1, <2>2, <2>4, <2>5
  <2>8. Kept(objs, os)
    BY <1>1, <2>6, <2>7, TypesOf, KeptAt
  <2>9. QED
    BY <2>8 DEF Kept
<1> HIDE DEF os
<1>4. misuse \subseteq misuse' /\ misuse' \subseteq {"stale", "early", "late", "default"}
  BY <1>1, <1>2, TypesOf, MisuseIs
<1>5. misuse' = {} => objs[i].gen = gen
  BY <1>2, MisuseIs
<1>6. default' \in 0 .. Len(objs)
  BY <1>1, <1>2 DEF TypeOK
<1>7. QED
  BY <1>2, <1>3, <1>4, <1>5, <1>6, FlushStep

LEMMA BindKeeps ==
  ASSUME IInv, MaxObjects \in Nat, NEW i \in Ids, NEW n, Bind(i, n)
  PROVE  IInv'
<1>1. TypeOK /\ i \in DOMAIN objs
  BY DEF IInv, Ids
<1>2. /\ conn = "ready" /\ UNCHANGED <<conn, gen, channelCounter, channels, default, queues, exchanges>>
      /\ misuse' = misuse \cup Misuse(i, "bind")
      /\ Requests(objs[i].channel, toClient)
  BY DEF Bind, Called
<1>3. Kept(objs, objs')
  <2>1. CASE n \notin DOMAIN exchanges
    <3>1. objs' = objs
      BY <2>1 DEF Bind
    <3>2. Kept(objs, objs)
      BY <1>1, TypesOf DEF Kept, Same
    <3>3. QED
      BY <3>1, <3>2
  <2>2. CASE n \in DOMAIN exchanges
    <3>1. PICK x : x = exchanges[n]
      OBVIOUS
    <3>2. x \in DOMAIN objs /\ x \in 0 .. Len(objs) /\ objs[i] \in Objects /\ objs \in Seq(Objects)
      BY <1>1, <2>2, <3>1, TypesOf, TypeOfChannel DEF Table, Ids
    <3>3. PICK p : p = [objs[i] EXCEPT !.exchange = x]
      OBVIOUS
    <3>4. p \in Objects /\ Same(objs[i], p)
      BY <3>2, <3>3 DEF Objects, Same
    <3>5. PICK os : os = [objs EXCEPT ![i] = p]
      OBVIOUS
    <3>6. Kept(objs, os)
      BY <1>1, <3>2, <3>4, <3>5, KeptAt
    <3>7. os \in Seq(Objects) /\ x \in DOMAIN os
      BY <3>2, <3>6 DEF Kept
    <3>8. os[x] \in Objects
      BY <3>7, ElementOfSeq
    <3>9. os[x].binds \in Int
      BY <3>8 DEF Objects
    <3>10. PICK b \in Int : b = Bound(os[x].binds)
      BY <3>9 DEF Bound
    <3>11. PICK r : r = [os[x] EXCEPT !.binds = b]
      OBVIOUS
    <3>12. r \in Objects /\ Same(os[x], r)
      BY <3>8, <3>11, CountedIs
    <3>13. objs' = [os EXCEPT ![x] = r]
      BY <1>1, <2>2, <3>1, <3>3, <3>5, <3>10, <3>11 DEF Bind
    <3>14. Kept(os, objs')
      BY <3>7, <3>12, <3>13, KeptAt
    <3>15. QED
      BY <3>6, <3>14, KeptTwice
  <2>3. QED
    BY <2>1, <2>2
<1>4. misuse \subseteq misuse' /\ misuse' \subseteq {"stale", "early", "late", "default"}
  BY <1>1, <1>2, TypesOf, MisuseIs
<1>5. misuse' = {} => objs[i].gen = gen /\ objs[i].closes = 0
  <2>1. objs[i].closes \in Nat
    BY <1>1, TypeOfChannel
  <2>2. misuse' = {} => objs[i].gen = gen /\ ~(objs[i].closes > 0)
    BY <1>2, MisuseIs
  <2>3. QED
    BY <2>1, <2>2
<1>6. ServerTyped' /\ Rest'
  BY <1>2, <1>3, <1>4, <1>5, RequestStep
<1>7. objs' \in Seq(Objects) /\ Len(objs') = Len(objs)
  BY <1>3 DEF Kept
<1>8. Table(channels', 1 .. MaxObjects) /\ Table(queues', Names) /\ Table(exchanges', Names)
  BY <1>1, <1>2, TypesOf
<1>9. default' \in 0 .. Len(objs)
  BY <1>1, <1>2 DEF TypeOK
<1>10. TypeOK'
  BY <1>1, <1>2, <1>4, <1>6, <1>7, <1>8, <1>9, TypeKept DEF ServerTyped
<1>11. QED
  BY <1>6, <1>10 DEF IInv, Rest

\* An object in another state.
InState(o, st) == [o EXCEPT !.state = st]

LEMMA InStateIs ==
  ASSUME NEW o \in Objects, NEW st \in {"new", "declaring", "open", "closing", "closed"}
  PROVE  /\ InState(o, st) \in Objects
         /\ InState(o, st).state = st
         /\ InState(o, st).channel = o.channel /\ InState(o, st).gen = o.gen
         /\ InState(o, st).closes = o.closes /\ InState(o, st).name = o.name
BY DEF Objects, InState

LEMMA RecastAt ==
  ASSUME NEW os \in Seq(Objects), NEW i \in DOMAIN os, NEW o \in Objects,
         o.channel = os[i].channel, o.gen = os[i].gen
  PROVE  Recast(os, [os EXCEPT ![i] = o], i) /\ [os EXCEPT ![i] = o][i] = o
<1> DEFINE ns == [os EXCEPT ![i] = o]
<1>1. /\ ns \in Seq(Objects) /\ Len(ns) = Len(os) /\ DOMAIN ns = DOMAIN os
      /\ \A j \in DOMAIN os : ns[j] = IF j = i THEN o ELSE os[j]
  OBVIOUS
<1> HIDE DEF ns
<1>2. Recast(os, ns, i)
  BY <1>1 DEF Recast
<1>3. QED
  BY <1>1, <1>2 DEF ns

LEMMA CloseKeeps ==
  ASSUME IInv, MaxObjects \in Nat, NEW i \in Ids, Close(i)
  PROVE  IInv'
<1> DEFINE c == objs[i].channel
<1>1. /\ TypeOK /\ Numbered /\ i \in DOMAIN objs
      /\ Broker(DOMAIN channels, server, kicked, toClient)
  BY DEF IInv, Ids
<1>2. /\ conn = "ready" /\ UNCHANGED <<conn, gen, channelCounter, channels, default, queues, exchanges>>
      /\ misuse' = misuse \cup Misuse(i, "close")
      /\ ServerCloses(c)
      /\ objs' = [objs EXCEPT ![i].state = "closing", ![i].closes = @ + 1]
  BY DEF Close, Called
<1>3. Recast(objs, objs', i) /\ objs'[i].state = "closing" /\ objs'[i].closes > 0
  <2>1. objs[i] \in Objects /\ objs[i].closes \in Nat /\ objs \in Seq(Objects)
    BY <1>1, TypeOfChannel, TypesOf
  <2>2. PICK n \in Nat : n = objs[i].closes + 1 /\ n > 0
    BY <2>1
  <2>3. PICK p : p = InState(objs[i], "closing")
    OBVIOUS
  <2>4. /\ p \in Objects /\ p.state = "closing"
        /\ p.channel = objs[i].channel /\ p.gen = objs[i].gen /\ p.closes = objs[i].closes
    BY <2>1, <2>3, InStateIs
  <2>5. PICK o : o = [p EXCEPT !.closes = n]
    OBVIOUS
  <2>6. /\ o \in Objects /\ o.state = "closing" /\ o.closes > 0
        /\ o.channel = objs[i].channel /\ o.gen = objs[i].gen
    BY <2>2, <2>4, <2>5 DEF Objects
  <2>7. objs' = [objs EXCEPT ![i] = o]
    BY <1>1, <1>2, <2>2, <2>3, <2>5 DEF InState
  <2>8. Recast(objs, objs', i) /\ objs'[i] = o
    BY <1>1, <2>1, <2>6, <2>7, RecastAt
  <2>9. QED
    BY <2>6, <2>8
<1>4. c \in 1 .. MaxObjects /\ ServerTyped /\ Table(channels, 1 .. MaxObjects)
  BY <1>1, TypeOfChannel, TypesOf
<1>5. /\ toClient' \in Seq(Methods) /\ ServerType'
      /\ Broker(DOMAIN channels, server', kicked', toClient')
      /\ Answers(toClient', toClient)
      /\ c \in DOMAIN server /\ ~kicked => DOMAIN server' = DOMAIN server \ {c} /\ ~kicked'
  BY <1>1, <1>2, <1>4, ServerClosesIs DEF ServerTyped
<1>6. Broker(DOMAIN channels, server, kicked, toClient)'
  BY <1>2, <1>5
<1>7. Numbered'
  BY <1>1, <1>2, <1>3, <1>4, NumberedKept
<1>8. Down'
  BY <1>2 DEF Down, IInv
<1>9. ASSUME misuse' = {} PROVE ~kicked' /\ Served' /\ Awaited'
  <2>1. misuse = {} /\ ~kicked /\ Served /\ Awaited /\ Misuse(i, "close") = {}
    BY <1>2, <1>9 DEF IInv, Orderly
  <2>2. objs[i].gen = gen /\ objs[i].state \notin {"new", "declaring"} /\ objs[i].closes = 0
    BY <1>1, <2>1, MisuseIs, TypeOfChannel, SMTT(60)
  <2>3. c \in DOMAIN server
    BY <1>2, <2>1, <2>2 DEF Served, ServedAt
  <2>4. DOMAIN server' = DOMAIN server \ {c} /\ ~kicked'
    BY <1>5, <2>1, <2>3
  <2>5. ServedAt(i)'
    BY <1>3 DEF ServedAt
  <2>6. Served'
    BY <1>1, <1>2, <1>3, <2>1, <2>4, <2>5, ServedKept
  <2>7. NoAnswer(toClient, c)
    <3>1. c \in DOMAIN channels
      BY <1>1, <2>3 DEF Broker
    <3>2. channels[c] = i
      BY <1>1, <3>1, OwnerIs DEF Numbered
    <3>3. QED
      BY <2>1, <2>2, <3>2 DEF NoAnswer, Awaited, Answer, StateBefore
  <2>8. Answers(toClient, toClient)
    BY DEF Answers
  <2>9. Awaited'
    BY <1>1, <1>2, <1>3, <1>5, <2>1, <2>7, <2>8, AwaitedKept
  <2>10. QED
    BY <2>4, <2>6, <2>9
<1>10. ServerTyped' /\ Rest'
  BY <1>5, <1>6, <1>7, <1>8, <1>9 DEF Orderly, Rest, ServerTyped
<1>11. misuse' \subseteq {"stale", "early", "late", "default"}
  BY <1>1, <1>2, TypesOf, MisuseIs
<1>12. objs' \in Seq(Objects) /\ Len(objs') = Len(objs)
  BY <1>3 DEF Recast
<1>13. Table(channels', 1 .. MaxObjects) /\ Table(queues', Names) /\ Table(exchanges', Names)
  BY <1>1, <1>2, TypesOf
<1>14. default' \in 0 .. Len(objs)
  BY <1>1, <1>2 DEF TypeOK
<1>15. TypeOK'
  BY <1>1, <1>2, <1>10, <1>11, <1>12, <1>13, <1>14, TypeKept DEF ServerTyped
<1>16. QED
  BY <1>10, <1>15 DEF IInv, Rest

-----------------------------------------------------------------------------
(* Publish                                                                 *)

\* Publish when there is an exchange for it.
PublishBy(i) ==
  /\ TasksFlush(i, [objs EXCEPT ![i].todo = Append(@, "request")], queues, toClient)
  /\ default' = i
  /\ misuse' = IF objs[i].gen # gen THEN misuse \cup {"default"} ELSE misuse
  /\ UNCHANGED <<channelCounter, channels>>

LEMMA PublishByKeeps ==
  ASSUME IInv, MaxObjects \in Nat, conn = "ready", UNCHANGED <<conn, gen>>, NEW i \in Ids, PublishBy(i)
  PROVE  IInv'
<1> DEFINE os == [objs EXCEPT ![i].todo = Append(@, "request")]
<1>1. TypeOK /\ i \in DOMAIN objs
  BY DEF IInv, Ids
<1>2. /\ UNCHANGED <<channelCounter, channels>> /\ default' = i
      /\ misuse' = IF objs[i].gen # gen THEN misuse \cup {"default"} ELSE misuse
      /\ TasksFlush(i, os, queues, toClient)
  BY DEF PublishBy
<1>3. Kept(objs, os)
  <2>1. objs[i] \in Objects /\ objs[i].todo \in Seq({"destroy", "request"}) /\ objs \in Seq(Objects)
    BY <1>1, TypeOfChannel, TypesOf
  <2>2. "request" \in {"destroy", "request"}
    OBVIOUS
  <2>3. PICK t \in Seq({"destroy", "request"}) : t = Append(objs[i].todo, "request")
    BY <2>1, <2>2, AppendProperties
  <2>4. PICK o : o = [objs[i] EXCEPT !.todo = t]
    OBVIOUS
  <2>5. o \in Objects /\ Same(objs[i], o)
    BY <2>1, <2>4 DEF Objects, Same
  <2>6. os = [objs EXCEPT ![i] = o]
    BY <1>1, <2>3, <2>4
  <2>7. QED
    BY <1>1, <2>1, <2>5, <2>6, KeptAt
<1> HIDE DEF os
<1>4. misuse \subseteq misuse' /\ misuse' \subseteq {"stale", "early", "late", "default"}
  BY <1>1, <1>2, TypesOf
<1>5. misuse' = {} => objs[i].gen = gen
  BY <1>2
<1>6. default' \in 0 .. Len(objs)
  BY <1>1, <1>2
<1>7. QED
  BY <1>2, <1>3, <1>4, <1>5, <1>6, FlushStep

-----------------------------------------------------------------------------
(* Methods that arrive                                                     *)

\* The object i that the first method, m on channel c, is for; q: the others.
For(m, c, i, q) ==
  /\ c \in DOMAIN channels /\ i \in Ids /\ objs[i].channel = c /\ objs[i].gen = gen
  /\ Receiver = i /\ Arrived.channel = c /\ q = Tail(toClient) /\ channels[c] = i
  /\ q \in Seq(Methods) /\ Broker(DOMAIN channels, server, kicked, q)
  /\ Answers(q, toClient) /\ NoAnswer(q, c)
  /\ m \in {"channelOpenOk", "declareOk"} /\ misuse = {} =>
       objs[i].state = StateBefore(m) /\ objs[i].closes = 0
  /\ m = "declareOk" => Arrived.name \in Names
  /\ m = "channelCloseOk" => Broker(DOMAIN channels \ {c}, server, kicked, q)

LEMMA ReceiveIs ==
  ASSUME IInv, NEW m \in {"channelOpenOk", "declareOk", "channelClose", "channelCloseOk"}, Receive(m)
  PROVE  \E c, i, q : For(m, c, i, q)
<1> DEFINE c == Arrived.channel
           i == Receiver
           q == Tail(toClient)
<1>1. /\ TypeOK /\ Numbered /\ Broker(DOMAIN channels, server, kicked, toClient)
      /\ toClient \in Seq(Methods)
  BY TypesOf DEF IInv, ServerTyped
<1>2. conn = "ready" /\ toClient # <<>> /\ Arrived.m = m /\ m # "connectionClose"
  BY DEF Receive
<1>3. /\ q \in Seq(Methods) /\ Broker(DOMAIN channels, server, kicked, q) /\ Answers(q, toClient)
      /\ \E k \in DOMAIN toClient : Arrived = toClient[k]
      /\ c \in DOMAIN channels \cup {0} /\ c # 0
      /\ NoAnswer(q, c)
      /\ m = "declareOk" => Arrived.name \in Names
      /\ m = "channelCloseOk" => Broker(DOMAIN channels \ {c}, server, kicked, q)
  <2>1. /\ Tail(toClient) \in Seq(Methods) /\ Broker(DOMAIN channels, server, kicked, Tail(toClient))
        /\ Answers(Tail(toClient), toClient)
        /\ \E k \in DOMAIN toClient : Head(toClient) = toClient[k]
        /\ Head(toClient).channel \in DOMAIN channels \cup {0}
        /\ Head(toClient).m # "connectionClose" => Head(toClient).channel # 0
        /\ Head(toClient).m \in {"channelOpenOk", "declareOk", "channelClose", "channelCloseOk"}
              => NoAnswer(Tail(toClient), Head(toClient).channel)
        /\ Head(toClient).m = "declareOk" => Head(toClient).name \in Names
        /\ Head(toClient).m = "channelCloseOk" =>
             Broker(DOMAIN channels \ {Head(toClient).channel}, server, kicked, Tail(toClient))
    <3>1. Speaks(DOMAIN channels, server, kicked, toClient)
      BY <1>1, <1>2 DEF Speaks
    <3>2. QED
      BY <3>1, BrokerTail
  <2>2. QED
    BY <1>2, <2>1 DEF Arrived
<1>4. i \in Ids /\ objs[i].channel = c /\ objs[i].gen = gen /\ channels[c] = i
  BY <1>1, <1>3, OwnerIs DEF Receiver
<1>5. ASSUME m \in {"channelOpenOk", "declareOk"}, misuse = {}
      PROVE  objs[i].state = StateBefore(m) /\ objs[i].closes = 0
  <2>1. Awaited /\ ServedAt(i)
    BY <1>2, <1>4, <1>5 DEF IInv, Orderly, Served
  <2>2. PICK k \in DOMAIN toClient : Arrived = toClient[k]
    BY <1>3
  <2>3. objs[i].state = StateBefore(m)
    BY <1>2, <1>4, <1>5, <2>1, <2>2 DEF Awaited, Answer
  <2>4. StateBefore(m) \in {"new", "declaring"}
    BY DEF StateBefore
  <2>5. QED
    BY <1>4, <2>1, <2>3, <2>4 DEF ServedAt
<1>6. For(m, c, i, q)
  BY <1>3, <1>4, <1>5 DEF For
<1>7. QED
  BY <1>6

\* An answer that object i takes, and requests on its channel.
LEMMA AnswerStep ==
  ASSUME IInv, MaxObjects \in Nat, conn = "ready",
         UNCHANGED <<conn, gen, channelCounter, channels, misuse>>,
         NEW m, NEW c, NEW i, NEW q, For(m, c, i, q),
         Recast(objs, objs', i), objs'[i].closes = objs[i].closes,
         objs'[i].state \in {"open", "closed"},
         misuse = {} /\ objs'[i].state = "open" => objs[i].closes = 0,
         Silence(q) \/ (Requests(c, q) /\ objs'[i].state = "open")
  PROVE  ServerTyped' /\ Rest'
<1>1. /\ TypeOK /\ Numbered /\ Broker(DOMAIN channels, server, kicked, toClient)
      /\ Table(channels, 1 .. MaxObjects) /\ ServerType
  BY TypesOf DEF IInv, ServerTyped
<1>2. /\ c \in DOMAIN channels /\ i \in Ids /\ objs[i].channel = c /\ objs[i].gen = gen
      /\ q \in Seq(Methods) /\ Broker(DOMAIN channels, server, kicked, q)
      /\ Answers(q, toClient) /\ NoAnswer(q, c)
  BY DEF For
<1>3. c \in 1 .. MaxObjects
  BY <1>1, <1>2, OwnerIs
<1>4. Numbered'
  BY <1>1, NumberedKept
<1>5. /\ toClient' \in Seq(Methods) /\ ServerType'
      /\ Broker(DOMAIN channels, server', kicked', toClient')
      /\ Answers(toClient', q)
      /\ (Silence(q) \/ c \in DOMAIN server) /\ ~kicked => DOMAIN server' = DOMAIN server /\ ~kicked'
  BY <1>1, <1>2, <1>3, RequestsAre
<1>6. Broker(DOMAIN channels, server, kicked, toClient)'
  BY <1>5
<1>7. Down'
  BY DEF Down, IInv
<1>8. ASSUME misuse' = {} PROVE ~kicked' /\ Served' /\ Awaited'
  <2>1. misuse = {} /\ ~kicked /\ Served /\ Awaited
    BY <1>8 DEF IInv, Orderly
  <2>2. ServedAt(i)
    BY <1>2, <2>1 DEF Served
  <2>3. Silence(q) \/ c \in DOMAIN server
    BY <1>2, <2>1, <2>2 DEF ServedAt
  <2>4. DOMAIN server' = DOMAIN server /\ ~kicked'
    BY <1>5, <2>1, <2>3
  <2>5. objs'[i].channel = c /\ objs'[i].gen = gen
    BY <1>2 DEF Recast, Ids
  <2>6. ServedAt(i)'
    BY <1>2, <2>1, <2>2, <2>4, <2>5 DEF ServedAt
  <2>7. Served'
    BY <1>1, <1>2, <2>1, <2>4, <2>6, ServedKept
  <2>8. Awaited'
    BY <1>1, <1>2, <1>5, <2>1, AwaitedKept
  <2>9. QED
    BY <2>4, <2>7, <2>8
<1>9. QED
  BY <1>4, <1>5, <1>6, <1>7, <1>8 DEF Orderly, Rest, ServerTyped

\* The type invariant after an answer.
LEMMA AnswerTypes ==
  ASSUME IInv, UNCHANGED <<gen, channelCounter, misuse, default>>, conn' \in {conn, "down"},
         NEW i, Recast(objs, objs', i), ServerTyped',
         Table(channels', 1 .. MaxObjects), Table(queues', Names), Table(exchanges', Names)
  PROVE  TypeOK'
<1>1. TypeOK /\ misuse' \subseteq {"stale", "early", "late", "default"}
  BY TypesOf DEF IInv
<1>2. default' \in 0 .. Len(objs)
  BY <1>1 DEF TypeOK
<1>3. objs' \in Seq(Objects) /\ Len(objs') = Len(objs)
  BY DEF Recast
<1>4. QED
  BY <1>1, <1>2, <1>3, TypeKept DEF ServerTyped

LEMMA FromRest ==
  ASSUME TypeOK', ServerTyped' /\ Rest'
  PROVE  IInv'
BY DEF IInv, Rest

\* A flush after an answer has put object i into state open.
LEMMA AnswerFlush ==
  ASSUME IInv, MaxObjects \in Nat, conn = "ready",
         UNCHANGED <<conn, gen, channelCounter, channels, misuse, default>>,
         NEW m \in {"channelOpenOk", "declareOk"}, NEW c, NEW i, NEW q, For(m, c, i, q),
         NEW os, Recast(objs, os, i), os[i].state = "open", os[i].closes = objs[i].closes,
         NEW qs, Table(qs, Names), TasksFlush(i, os, qs, q)
  PROVE  IInv'
<1>1. /\ TypeOK /\ Table(channels, 1 .. MaxObjects) /\ Table(exchanges, Names)
      /\ i \in DOMAIN objs /\ objs[i].channel = c
  BY TypesOf DEF IInv, For, Ids
<1>2. os \in Seq(Objects) /\ Len(os) = Len(objs) /\ i \in DOMAIN os /\ os[i].channel = c
  BY <1>1 DEF Recast
<1>3. /\ Kept(os, objs')
      /\ Table(queues', Names) /\ Table(exchanges', Names)
      /\ Silence(q) \/ Requests(c, q)
  BY <1>1, <1>2, FlushIs
<1>4. Recast(objs, objs', i) /\ objs'[i].state = "open" /\ objs'[i].closes = objs[i].closes
  BY <1>2, <1>3 DEF Kept, Recast, Same
<1>5. misuse = {} => objs[i].closes = 0
  BY DEF For
<1>6. ServerTyped' /\ Rest'
  BY <1>3, <1>4, <1>5, AnswerStep
<1>7. TypeOK'
  BY <1>1, <1>3, <1>4, <1>6, AnswerTypes
<1>8. QED
  BY <1>6, <1>7, FromRest

\* Object i in another state.
LEMMA StateIs ==
  ASSUME TypeOK, NEW i \in Ids, NEW st \in {"new", "declaring", "open", "closing", "closed"},
         NEW os, os = [objs EXCEPT ![i].state = st]
  PROVE  Recast(objs, os, i) /\ os[i].state = st /\ os[i].closes = objs[i].closes /\ os[i] \in Objects
<1>1. objs[i] \in Objects /\ objs \in Seq(Objects) /\ i \in DOMAIN objs
  BY TypeOfChannel, TypesOf DEF Ids
<1>2. PICK o : o = InState(objs[i], st)
  OBVIOUS
<1>3. /\ o \in Objects /\ o.state = st
      /\ o.channel = objs[i].channel /\ o.gen = objs[i].gen /\ o.closes = objs[i].closes
  BY <1>1, <1>2, InStateIs
<1>4. os = [objs EXCEPT ![i] = o]
  BY <1>1, <1>2 DEF InState
<1>5. Recast(objs, os, i) /\ os[i] = o
  <2>1. Recast(objs, [objs EXCEPT ![i] = o], i) /\ [objs EXCEPT ![i] = o][i] = o
    BY <1>1, <1>3, RecastAt
  <2>2. QED
    BY <1>4, <2>1
<1>6. QED
  BY <1>3, <1>5

LEMMA ChannelOpenOkKeeps ==
  ASSUME IInv, MaxObjects \in Nat, ChannelOpenOk
  PROVE  IInv'
<1>1. Receive("channelOpenOk") /\ UNCHANGED <<conn, channels>>
  BY DEF ChannelOpenOk
<1>2. /\ conn = "ready" /\ UNCHANGED <<gen, channelCounter, default, calls, misuse>>
  BY <1>1 DEF Receive
<1>3. PICK c, i, q : For("channelOpenOk", c, i, q)
  BY <1>1, ReceiveIs
<1>4. /\ TypeOK /\ Numbered /\ Broker(DOMAIN channels, server, kicked, toClient)
      /\ Table(channels, 1 .. MaxObjects) /\ Table(queues, Names) /\ Table(exchanges, Names) /\ ServerType
  BY TypesOf DEF IInv, ServerTyped
<1>5. /\ c \in DOMAIN channels /\ i \in Ids /\ objs[i].channel = c /\ objs[i].gen = gen
      /\ Receiver = i /\ q = Tail(toClient)
      /\ q \in Seq(Methods) /\ Broker(DOMAIN channels, server, kicked, q)
      /\ Answers(q, toClient) /\ NoAnswer(q, c)
      /\ misuse = {} => objs[i].closes = 0
  BY <1>3 DEF For
<1>6. c \in 1 .. MaxObjects /\ objs[i].name \in Names
  BY <1>4, <1>5, OwnerIs, TypeOfChannel
<1>7. ASSUME NEW os, os = [objs EXCEPT ![i].state = "open"], TasksFlush(i, os, queues, q)
      PROVE  IInv'
  <2>1. Recast(objs, os, i) /\ os[i].state = "open" /\ os[i].closes = objs[i].closes
    BY <1>4, <1>5, <1>7, StateIs
  <2>2. QED
    BY <1>1, <1>2, <1>3, <1>4, <1>7, <2>1, AnswerFlush
<1>8. ASSUME objs' = [objs EXCEPT ![i].state = "declaring"], Declares(c, objs[i].name, q),
             UNCHANGED <<queues, exchanges>>
      PROVE  IInv'
  <2>1. Recast(objs, objs', i) /\ objs'[i].state = "declaring" /\ objs'[i].closes = objs[i].closes
    BY <1>4, <1>5, <1>8, StateIs, ZenonT(60)
  <2>2. /\ toClient' \in Seq(Methods) /\ ServerType'
        /\ Broker(DOMAIN channels, server', kicked', toClient')
        /\ AnswersAnd(toClient', q, c, "declareOk")
        /\ c \in DOMAIN server /\ ~kicked => DOMAIN server' = DOMAIN server /\ ~kicked'
    BY <1>4, <1>5, <1>6, <1>8, DeclaresIs
  <2>3. Broker(DOMAIN channels, server, kicked, toClient)'
    BY <1>1, <2>2
  <2>4. Numbered'
    BY <1>1, <1>2, <1>4, <2>1, NumberedKept
  <2>5. Down'
    BY <1>1, <1>2 DEF Down, IInv
  <2>6. ASSUME misuse' = {} PROVE ~kicked' /\ Served' /\ Awaited'
    <3>1. misuse = {} /\ ~kicked /\ Served /\ Awaited /\ objs[i].closes = 0
      BY <1>2, <1>5, <2>6 DEF IInv, Orderly
    <3>2. c \in DOMAIN server
      BY <1>2, <1>5, <3>1 DEF Served, ServedAt
    <3>3. DOMAIN server' = DOMAIN server /\ ~kicked'
      BY <2>2, <3>1, <3>2
    <3>4. objs'[i].channel = c /\ objs'[i].closes = 0
      BY <1>5, <2>1, <3>1 DEF Recast, Ids
    <3>5. ServedAt(i)'
      BY <3>2, <3>3, <3>4 DEF ServedAt
    <3>6. Served'
      BY <1>2, <1>4, <1>5, <2>1, <3>1, <3>3, <3>5, ServedKept
    <3>7. Awaited'
      BY <1>1, <1>4, <1>5, <2>1, <2>2, <3>1, AwaitedOne
    <3>8. QED
      BY <3>3, <3>6, <3>7
  <2>7. ServerTyped' /\ Rest'
    BY <2>2, <2>3, <2>4, <2>5, <2>6 DEF Orderly, Rest, ServerTyped
  <2>8. Table(channels', 1 .. MaxObjects) /\ Table(queues', Names) /\ Table(exchanges', Names)
    BY <1>1, <1>4, <1>8
  <2>9. TypeOK'
    BY <1>1, <1>2, <2>1, <2>7, <2>8, AnswerTypes
  <2>10. QED
    BY <2>7, <2>9, FromRest
<1>9. QED
  BY <1>5, <1>7, <1>8 DEF ChannelOpenOk

LEMMA DeclareOkKeeps ==
  ASSUME IInv, MaxObjects \in Nat, DeclareOk
  PROVE  IInv'
<1>1. Receive("declareOk") /\ UNCHANGED <<conn, channels>>
  BY DEF DeclareOk
<1>2. /\ conn = "ready" /\ UNCHANGED <<gen, channelCounter, default, calls, misuse>>
  BY <1>1 DEF Receive
<1>3. PICK c, i, q : For("declareOk", c, i, q)
  BY <1>1, ReceiveIs
<1>4. /\ TypeOK /\ Table(queues, Names)
  BY TypesOf DEF IInv
<1>5. i \in Ids /\ Receiver = i /\ q = Tail(toClient) /\ Arrived.name \in Names
  BY <1>3 DEF For
<1>6. PICK n \in Names : n = Arrived.name
  BY <1>5
<1>7. PICK os, qs :
        /\ os = [objs EXCEPT ![i].state = "open", ![i].name = n]
        /\ qs = IF objs[i].kind = "queue" THEN With(queues, n, i) ELSE queues
        /\ TasksFlush(i, os, qs, q)
  BY <1>5, <1>6 DEF DeclareOk, Declared
<1>8. Recast(objs, os, i) /\ os[i].state = "open" /\ os[i].closes = objs[i].closes
  <2>1. objs[i] \in Objects /\ objs \in Seq(Objects) /\ i \in DOMAIN objs
    BY <1>4, <1>5, TypeOfChannel, TypesOf DEF Ids
  <2>2. PICK p : p = InState(objs[i], "open")
    OBVIOUS
  <2>3. /\ p \in Objects /\ p.state = "open"
        /\ p.channel = objs[i].channel /\ p.gen = objs[i].gen /\ p.closes = objs[i].closes
    BY <2>1, <2>2, InStateIs
  <2>4. PICK o : o = [p EXCEPT !.name = n]
    OBVIOUS
  <2>5. /\ o \in Objects /\ o.state = "open"
        /\ o.channel = objs[i].channel /\ o.gen = objs[i].gen /\ o.closes = objs[i].closes
    BY <2>3, <2>4 DEF Objects
  <2>6. os = [objs EXCEPT ![i] = o]
    BY <1>7, <2>1, <2>2, <2>4 DEF InState
  <2>7. Recast(objs, os, i) /\ os[i] = o
    <3>1. Recast(objs, [objs EXCEPT ![i] = o], i) /\ [objs EXCEPT ![i] = o][i] = o
      BY <2>1, <2>5, RecastAt
    <3>2. QED
      BY <2>6, <3>1
  <2>8. QED
    BY <2>5, <2>7
<1>9. Table(qs, Names)
  <2>1. Table(With(queues, n, i), Names)
    BY <1>4, <1>5 DEF Table, With
  <2>2. QED
    BY <1>4, <1>7, <2>1
<1>10. QED
  BY <1>1, <1>2, <1>3, <1>7, <1>8, <1>9, AnswerFlush

LEMMA ChannelCloseKeeps ==
  ASSUME IInv, MaxObjects \in Nat, ChannelClose
  PROVE  IInv'
<1>1. Receive("channelClose") /\ UNCHANGED <<conn, channels, queues, exchanges>>
  BY DEF ChannelClose, tables
<1>2. /\ conn = "ready" /\ UNCHANGED <<gen, channelCounter, default, calls, misuse>>
  BY <1>1 DEF Receive
<1>3. PICK c, i, q : For("channelClose", c, i, q)
  BY <1>1, ReceiveIs
<1>4. /\ TypeOK /\ Table(channels, 1 .. MaxObjects) /\ Table(queues, Names) /\ Table(exchanges, Names)
  BY TypesOf DEF IInv
<1>5. i \in Ids /\ Receiver = i /\ q = Tail(toClient)
  BY <1>3 DEF For
<1>6. objs' = [objs EXCEPT ![i].state = "closed", ![i].refused = TRUE] /\ Silence(q)
  BY <1>5 DEF ChannelClose
<1>7. Recast(objs, objs', i) /\ objs'[i].state = "closed" /\ objs'[i].closes = objs[i].closes
  <2>1. objs[i] \in Objects /\ objs \in Seq(Objects) /\ i \in DOMAIN objs
    BY <1>4, <1>5, TypeOfChannel, TypesOf DEF Ids
  <2>2. PICK p : p = InState(objs[i], "closed")
    OBVIOUS
  <2>3. /\ p \in Objects /\ p.state = "closed"
        /\ p.channel = objs[i].channel /\ p.gen = objs[i].gen /\ p.closes = objs[i].closes
    BY <2>1, <2>2, InStateIs
  <2>4. PICK o : o = [p EXCEPT !.refused = TRUE]
    OBVIOUS
  <2>5. /\ o \in Objects /\ o.state = "closed"
        /\ o.channel = objs[i].channel /\ o.gen = objs[i].gen /\ o.closes = objs[i].closes
    BY <2>3, <2>4 DEF Objects
  <2>6. objs' = [objs EXCEPT ![i] = o]
    BY <1>6, <2>1, <2>2, <2>4 DEF InState
  <2>7. Recast(objs, [objs EXCEPT ![i] = o], i) /\ [objs EXCEPT ![i] = o][i] = o
    BY <2>1, <2>5, RecastAt
  <2>8. QED
    BY <2>5, <2>6, <2>7
<1>8. ServerTyped' /\ Rest'
  BY <1>1, <1>2, <1>3, <1>6, <1>7, AnswerStep
<1>9. Table(channels', 1 .. MaxObjects) /\ Table(queues', Names) /\ Table(exchanges', Names)
  BY <1>1, <1>4
<1>10. TypeOK'
  BY <1>1, <1>2, <1>7, <1>8, <1>9, AnswerTypes
<1>11. QED
  BY <1>8, <1>10, FromRest

LEMMA ChannelCloseOkKeeps ==
  ASSUME IInv, MaxObjects \in Nat, ChannelCloseOk
  PROVE  IInv'
<1>1. Receive("channelCloseOk") /\ UNCHANGED conn
  BY DEF ChannelCloseOk
<1>2. /\ conn = "ready" /\ UNCHANGED <<gen, channelCounter, default, calls, misuse>>
  BY <1>1 DEF Receive
<1>3. PICK c, i, q : For("channelCloseOk", c, i, q)
  BY <1>1, ReceiveIs
<1>4. /\ TypeOK /\ Numbered /\ ServerTyped /\ Broker(DOMAIN channels, server, kicked, toClient)
      /\ Table(channels, 1 .. MaxObjects) /\ Table(queues, Names) /\ Table(exchanges, Names)
  BY TypesOf DEF IInv
<1>5. /\ i \in Ids /\ Receiver = i /\ q = Tail(toClient) /\ Arrived.channel = c /\ objs[i].channel = c
      /\ q \in Seq(Methods) /\ Broker(DOMAIN channels \ {c}, server, kicked, q)
      /\ Answers(q, toClient) /\ NoAnswer(q, c)
  BY <1>3 DEF For
<1>6. /\ objs' = [objs EXCEPT ![i].state = "closed"]
      /\ channels' = Without(channels, c)
      /\ queues' = queues \/ \E n : queues' = Without(queues, n)
      /\ exchanges' = exchanges \/ \E n : exchanges' = Without(exchanges, n)
      /\ Silence(q)
  BY <1>5 DEF ChannelCloseOk, Deregistered
<1>7. Recast(objs, objs', i) /\ objs'[i].state = "closed" /\ objs'[i].closes = objs[i].closes
  BY <1>4, <1>5, <1>6, StateIs
<1>8. toClient' = q /\ UNCHANGED <<server, kicked>>
  BY <1>6 DEF Silence
<1>9. Broker(DOMAIN channels, server, kicked, toClient)'
  <2>1. DOMAIN channels' = DOMAIN channels \ {c}
    BY <1>6 DEF Without
  <2>2. QED
    BY <1>5, <1>8, <2>1
<1>10. Numbered'
  BY <1>2, <1>4, <1>6, <1>7, NumberedKept
<1>11. Down'
  BY <1>1, <1>2 DEF Down, IInv
<1>12. ASSUME misuse' = {} PROVE ~kicked' /\ Served' /\ Awaited'
  <2>1. misuse = {} /\ ~kicked /\ Served /\ Awaited
    BY <1>2, <1>12 DEF IInv, Orderly
  <2>2. objs'[i].channel = c /\ objs'[i].gen = objs[i].gen /\ ServedAt(i)
    BY <1>2, <1>5, <1>7, <2>1 DEF Recast, Served, Ids
  <2>3. ServedAt(i)'
    BY <1>2, <1>5, <1>7, <1>8, <2>2 DEF ServedAt
  <2>4. Served'
    BY <1>2, <1>4, <1>5, <1>7, <1>8, <2>1, <2>3, ServedKept
  <2>5. Answers(toClient', q)
    BY <1>8 DEF Answers
  <2>6. Awaited'
    BY <1>4, <1>5, <1>6, <1>7, <2>1, <2>5, AwaitedKept
  <2>7. QED
    BY <1>8, <2>1, <2>4, <2>6
<1>13. ServerTyped' /\ Rest'
  <2>1. ServerTyped'
    BY <1>4, <1>5, <1>8 DEF ServerTyped, ServerType
  <2>2. QED
    BY <1>9, <1>10, <1>11, <1>12, <2>1 DEF Orderly, Rest
<1>14. Table(channels', 1 .. MaxObjects) /\ Table(queues', Names) /\ Table(exchanges', Names)
  BY <1>4, <1>6, FewerIs
<1>15. TypeOK'
  BY <1>1, <1>2, <1>7, <1>13, <1>14, AnswerTypes
<1>16. QED
  BY <1>13, <1>15, FromRest

LEMMA ConnectionCloseKeeps ==
  ASSUME IInv, MaxObjects \in Nat, ConnectionClose
  PROVE  IInv'
<1>1. /\ Receive("connectionClose") /\ conn' = "down" /\ toClient' = <<>>
      /\ UNCHANGED <<objs, channels, queues, exchanges, server, kicked>>
  BY DEF ConnectionClose, tables, Silence
<1>2. /\ UNCHANGED <<gen, channelCounter, default, calls, misuse>>
      /\ toClient # <<>> /\ Head(toClient).m = "connectionClose"
  BY <1>1 DEF Receive, Arrived
<1>3. /\ TypeOK /\ Numbered /\ Orderly /\ ServerTyped /\ Broker(DOMAIN channels, server, kicked, toClient)
  BY TypesOf DEF IInv
<1>4. kicked
  <2>1. 1 \in DOMAIN toClient /\ Head(toClient) = toClient[1]
    BY <1>2, <1>3, HeadTailProperties DEF ServerTyped
  <2>2. QED
    BY <1>2, <1>3, <2>1 DEF Broker
<1>5. server = Empty /\ misuse # {}
  BY <1>3, <1>4 DEF Broker, Orderly
<1>6. Broker(DOMAIN channels, server, kicked, toClient)'
  BY <1>1, <1>3, <1>4, <1>5 DEF Broker
<1>7. Numbered'
  BY <1>1, <1>2, <1>3 DEF Numbered, Ids
<1>8. Orderly' /\ Down'
  BY <1>1, <1>2, <1>5 DEF Orderly, Down
<1>9. TypeOK'
  <2>1. Ids' = Ids /\ Objects' = Objects
    BY <1>1, <1>2 DEF Ids, Objects
  <2>2. /\ Table(channels, 1 .. MaxObjects)' /\ Table(queues, Names)' /\ Table(exchanges, Names)'
    BY <1>1, <1>3, <2>1 DEF TypeOK, Table
  <2>3. toClient' \in Seq(Methods)
    BY <1>1
  <2>4. QED
    BY <1>1, <1>2, <1>3, <2>1, <2>2, <2>3 DEF TypeOK
<1>10. QED
  BY <1>6, <1>7, <1>8, <1>9 DEF IInv

-----------------------------------------------------------------------------
(* The connection comes and goes                                           *)

LEMMA EndKeeps ==
  ASSUME IInv, End
  PROVE  IInv'
<1>1. /\ conn' = "down" /\ server' = Empty /\ toClient' = <<>>
      /\ UNCHANGED <<gen, channelCounter, objs, channels, queues, exchanges, default, calls, misuse, kicked>>
  BY DEF End, tables
<1>2. TypeOK /\ Numbered /\ Orderly
  BY DEF IInv
<1>3. Broker(DOMAIN channels, server, kicked, toClient)'
  BY <1>1 DEF Broker, Empty
<1>4. Numbered'
  BY <1>1, <1>2 DEF Numbered, Ids
<1>5. Orderly' /\ Down'
  BY <1>1, <1>2 DEF Orderly, Down, Served, Awaited
<1>6. TypeOK'
  <2>1. Ids' = Ids /\ Objects' = Objects
    BY <1>1 DEF Ids, Objects
  <2>2. /\ Table(channels, 1 .. MaxObjects)' /\ Table(queues, Names)' /\ Table(exchanges, Names)'
    BY <1>1, <1>2, <2>1 DEF TypeOK, Table
  <2>3. toClient' \in Seq(Methods) /\ server' \in [DOMAIN server' -> {"open", "closing"}]
    BY <1>1 DEF Empty
  <2>4. QED
    BY <1>1, <1>2, <2>1, <2>2, <2>3 DEF TypeOK
<1>7. QED
  BY <1>3, <1>4, <1>5, <1>6 DEF IInv

LEMMA ConnectKeeps ==
  ASSUME IInv, MaxConnects \in Nat, Connect
  PROVE  IInv'
<1>1. /\ conn = "down" /\ gen < MaxConnects /\ gen' = gen + 1 /\ conn' = "start"
      /\ channels' = Empty /\ queues' = Empty /\ exchanges' = Empty
      /\ kicked' = FALSE
      /\ UNCHANGED <<channelCounter, objs, default, calls, misuse, server, toClient>>
  BY DEF Connect, CounterKept
<1>2. TypeOK /\ Numbered /\ server = Empty /\ toClient = <<>>
  BY <1>1 DEF IInv, Down
<1>3. \A i \in Ids : objs[i].gen \in 1 .. gen
  BY <1>2, TypeOfChannel
<1>4. Broker(DOMAIN channels, server, kicked, toClient)'
  BY <1>1, <1>2 DEF Broker, Empty
<1>5. Numbered'
  BY <1>1, <1>2 DEF Numbered, Ids, Empty
<1>6. gen \in Nat
  BY <1>2 DEF TypeOK
<1>7. Orderly' /\ Down'
  <2>1. Served'
    BY <1>1, <1>3, <1>6 DEF Served, ServedAt, Ids
  <2>2. Awaited'
    BY <1>1, <1>2 DEF Awaited
  <2>3. QED
    BY <1>1, <1>6, <2>1, <2>2 DEF Orderly, Down, IInv
<1>8. TypeOK'
  <2>1. Ids' = Ids
    BY <1>1 DEF Ids
  <2>2. /\ Table(channels, 1 .. MaxObjects)' /\ Table(queues, Names)' /\ Table(exchanges, Names)'
    BY <1>1 DEF Table, Empty
  <2>3. objs' \in Seq(Objects)'
    <3>1. \A o \in Objects : o \in Objects'
      <4>1. SUFFICES ASSUME NEW o \in Objects PROVE o \in Objects'
        OBVIOUS
      <4>2. 1 .. gen \subseteq 1 .. gen' /\ 0 .. Len(objs) = 0 .. Len(objs')
        BY <1>1, <1>6
      <4>3. QED
        BY <4>2 DEF Objects
    <3>2. objs \in Seq(Objects)
      BY <1>2, TypesOf
    <3>3. QED
      BY <1>1, <3>1, <3>2
  <2>4. gen' \in 0 .. MaxConnects
    BY <1>1, <1>6
  <2>5. QED
    BY <1>1, <1>2, <2>2, <2>3, <2>4 DEF TypeOK
<1>9. QED
  BY <1>4, <1>5, <1>7, <1>8 DEF IInv

LEMMA StutterKeeps ==
  ASSUME IInv, gen' = gen, channelCounter' = channelCounter, UNCHANGED <<objs, tables, default, misuse, broker>>,
         conn' \in {"down", "start", "tune", "open", "ready"}, conn' = "down" <=> conn = "down"
  PROVE  IInv'
<1>1. UNCHANGED <<objs, channels, queues, exchanges, default, misuse, server, kicked, toClient>>
  BY DEF tables, broker
<1>2. Ids' = Ids /\ Objects' = Objects
  BY <1>1 DEF Ids, Objects
<1>3. TypeOK'
  <2>1. /\ Table(channels, 1 .. MaxObjects)' /\ Table(queues, Names)' /\ Table(exchanges, Names)'
    BY <1>1, <1>2 DEF IInv, TypeOK, Table
  <2>2. QED
    BY <1>1, <1>2, <2>1 DEF IInv, TypeOK
<1>4. Broker(DOMAIN channels, server, kicked, toClient)'
  BY <1>1 DEF IInv
<1>5. Numbered' /\ Down'
  BY <1>1, <1>2 DEF IInv, Numbered, Down
<1>6. Orderly'
  BY <1>1, <1>2 DEF IInv, Orderly, Served, ServedAt, Awaited
<1>7. QED
  BY <1>3, <1>4, <1>5, <1>6 DEF IInv

-----------------------------------------------------------------------------
(* A new object                                                            *)

\* A step that constructs object o.
Constructs(o) ==
  /\ Room
  /\ channelCounter' = NextChannel
  /\ objs' = Append(objs, o)
  /\ channels' = Tracked(NextChannel, Len(objs) + 1)
  /\ ServerOpens(NextChannel)
  /\ UNCHANGED <<conn, gen, misuse>>

Fresh(o) ==
  /\ o \in Objects /\ o.channel = NextChannel /\ o.gen = gen
  /\ o.state = "new" /\ o.closes = 0

LEMMA NewObjectIs ==
  ASSUME TypeOK, MaxObjects \in Nat, Room, gen > 0,
         NEW k \in {"queue", "exchange"}, NEW n \in Names
  PROVE  /\ Fresh(NewObject(k, n))
         /\ Fresh([NewObject(k, n) EXCEPT !.todo = <<"request">>])
<1>1. /\ NextChannel \in 1 .. MaxObjects /\ gen \in 1 .. gen /\ 0 \in 0 .. Len(objs)
      /\ 0 \in Nat /\ 0 \in Int
  BY DEF TypeOK, Room, NextChannel
<1>2. ASSUME NEW t \in Seq({"destroy", "request"}), NEW o,
             o = [kind |-> k, name |-> n, channel |-> NextChannel, gen |-> gen, state |-> "new",
                  todo |-> t, binds |-> 0, exchange |-> 0, destroys |-> 0, closes |-> 0,
                  destroyed |-> FALSE, refused |-> FALSE]
      PROVE  Fresh(o)
  BY <1>1, <1>2 DEF Fresh, Objects
<1>3. Fresh(NewObject(k, n))
  <2>1. <<>> \in Seq({"destroy", "request"})
    OBVIOUS
  <2>2. QED
    BY <1>2, <2>1 DEF NewObject
<1>4. Fresh([NewObject(k, n) EXCEPT !.todo = <<"request">>])
  <2>1. <<"request">> \in Seq({"destroy", "request"})
    OBVIOUS
  <2>2. ASSUME NEW t \in Seq({"destroy", "request"}), NEW p, Fresh(p)
        PROVE  Fresh([p EXCEPT !.todo = t])
    BY <2>2 DEF Fresh, Objects
  <2>3. QED
    BY <1>3, <2>1, <2>2
<1>5. QED
  BY <1>3, <1>4

LEMMA ConstructKeeps ==
  ASSUME IInv, MaxObjects \in Nat, conn = "ready", NEW o, Fresh(o), Constructs(o)
  PROVE  /\ Rest' /\ ServerTyped'
         /\ channelCounter' \in 0 .. MaxObjects /\ Len(objs') \in 0 .. MaxObjects
         /\ Len(objs') = Len(objs) + 1 /\ Ids \subseteq Ids' /\ Len(objs) + 1 \in Ids'
         /\ objs' \in Seq(Objects)' /\ Table(channels, 1 .. MaxObjects)'
<1>0. PICK l, c : l = Len(objs) + 1 /\ c = NextChannel
  OBVIOUS
<1>1. /\ channelCounter' = c /\ objs' = Append(objs, o) /\ channels' = With(channels, c, l)
      /\ ServerOpens(c) /\ UNCHANGED <<conn, gen, misuse>>
      /\ Len(objs) < MaxObjects /\ channelCounter < MaxObjects
  BY <1>0 DEF Constructs, Tracked, Room
<1>2. /\ TypeOK /\ Numbered /\ ServerTyped /\ Broker(DOMAIN channels, server, kicked, toClient)
      /\ Table(channels, 1 .. MaxObjects) /\ objs \in Seq(Objects)
  BY TypesOf DEF IInv
<1>3. channelCounter \in Nat /\ c = channelCounter + 1 /\ c \in 1 .. MaxObjects /\ Len(objs) \in Nat
  BY <1>0, <1>1, <1>2 DEF TypeOK, NextChannel
<1>4. o \in Objects /\ o.channel = c /\ o.gen = gen /\ o.state = "new" /\ o.closes = 0
  BY <1>0 DEF Fresh
<1>5. /\ objs' \in Seq(Objects) /\ Len(objs') = l /\ Ids' = Ids \cup {l}
      /\ objs'[l] = o /\ \A i \in Ids : objs'[i] = objs[i] /\ i # l
  BY <1>0, <1>1, <1>2, <1>4, AppendProperties DEF Ids
<1>6. \A i \in Ids : objs[i].channel # c
  <2>1. \A i \in Ids : objs[i].channel \in 1 .. MaxObjects
    BY <1>2, TypeOfChannel
  <2>2. QED
    BY <1>2, <1>3, <2>1 DEF Numbered
<1>7. \A d \in DOMAIN channels : channels[d] \in Ids /\ objs[channels[d]].channel = d
  BY <1>2, OwnerIs
<1>8. c \notin DOMAIN channels
  BY <1>6, <1>7
<1>9. /\ DOMAIN channels' = DOMAIN channels \cup {c} /\ channels'[c] = l
      /\ \A d \in DOMAIN channels : channels'[d] = channels[d]
  BY <1>1, <1>8 DEF With
<1>10. /\ toClient' \in Seq(Methods) /\ ServerType'
       /\ Broker(DOMAIN channels \cup {c}, server', kicked', toClient')
       /\ AnswersAnd(toClient', toClient, c, "channelOpenOk")
       /\ ~kicked => DOMAIN server' = DOMAIN server \cup {c} /\ ~kicked'
  BY <1>1, <1>2, <1>3, <1>8, ServerOpensIs DEF ServerTyped
<1>11. Broker(DOMAIN channels, server, kicked, toClient)'
  BY <1>9, <1>10
<1>12. Numbered'
  <2>1. \A i \in Ids' : objs'[i].channel <= channelCounter'
    <3>1. ASSUME NEW i \in Ids PROVE objs[i].channel <= c
      <4>1. objs[i].channel \in 1 .. MaxObjects /\ objs[i].channel <= channelCounter
        BY <1>2, TypeOfChannel DEF Numbered
      <4>2. QED
        BY <1>3, <4>1
    <3>2. c <= c
      BY <1>3
    <3>3. QED
      BY <1>1, <1>4, <1>5, <3>1, <3>2
  <2>2. \A i, j \in Ids' : objs'[i].channel = objs'[j].channel => i = j
    BY <1>2, <1>4, <1>5, <1>6 DEF Numbered
  <2>3. \A d \in DOMAIN channels' : objs'[channels'[d]].channel = d /\ objs'[channels'[d]].gen = gen'
    <3>1. ASSUME NEW d \in DOMAIN channels
          PROVE  objs'[channels'[d]].channel = d /\ objs'[channels'[d]].gen = gen'
      <4>1. channels'[d] = channels[d] /\ channels[d] \in Ids
        BY <1>7, <1>9
      <4>2. objs'[channels[d]] = objs[channels[d]]
        BY <1>5, <4>1
      <4>3. objs[channels[d]].channel = d /\ objs[channels[d]].gen = gen
        BY <1>2 DEF Numbered
      <4>4. QED
        BY <1>1, <4>1, <4>2, <4>3
    <3>2. objs'[channels'[c]].channel = c /\ objs'[channels'[c]].gen = gen'
      BY <1>1, <1>4, <1>5, <1>9
    <3>3. QED
      BY <1>9, <3>1, <3>2
  <2>4. QED
    BY <2>1, <2>2, <2>3 DEF Numbered
<1>13. ASSUME misuse' = {} PROVE ~kicked' /\ Served' /\ Awaited'
  <2>1. misuse = {} /\ ~kicked /\ Served /\ Awaited
    BY <1>1, <1>13 DEF IInv, Orderly
  <2>2. DOMAIN server' = DOMAIN server \cup {c} /\ ~kicked'
    BY <1>10, <2>1
  <2>3. ServedAt(l)'
    BY <1>4, <1>5, <2>2 DEF ServedAt
  <2>4. ASSUME NEW i \in Ids PROVE ServedAt(i)'
    <3>1. ServedAt(i) /\ objs'[i] = objs[i]
      BY <1>5, <2>1 DEF Served
    <3>2. QED
      BY <1>1, <2>2, <3>1 DEF ServedAt
  <2>5. Served'
    BY <1>5, <2>3, <2>4 DEF Served
  <2>6. Awaited'
    <3> SUFFICES ASSUME NEW k \in DOMAIN toClient', Answer(toClient'[k])
                 PROVE  objs'[channels'[toClient'[k].channel]].state = StateBefore(toClient'[k].m)
      BY DEF Awaited, Answer, StateBefore
    <3>1. CASE \E j \in DOMAIN toClient : toClient'[k] = toClient[j]
      <4>1. PICK j \in DOMAIN toClient : toClient'[k] = toClient[j]
        BY <3>1
      <4>2. toClient[j].channel \in DOMAIN channels
        BY <1>2, <4>1 DEF Broker, Answer
      <4>3. objs[channels[toClient[j].channel]].state = StateBefore(toClient[j].m)
        BY <2>1, <4>1 DEF Awaited
      <4>4. QED
        BY <1>5, <1>7, <1>9, <4>1, <4>2, <4>3
    <3>2. CASE toClient'[k].channel = c /\ toClient'[k].m = "channelOpenOk"
      BY <1>4, <1>5, <1>9, <3>2 DEF StateBefore
    <3>3. QED
      BY <1>10, <3>1, <3>2 DEF AnswersAnd
  <2>7. QED
    BY <2>2, <2>5, <2>6
<1>14. Rest' /\ ServerTyped'
  <2>1. Down'
    BY <1>1 DEF Down, IInv
  <2>2. QED
    BY <1>10, <1>11, <1>12, <1>13, <2>1 DEF Rest, Orderly, ServerTyped
<1>15. objs' \in Seq(Objects)'
  <2>1. \A p \in Objects : p \in Objects'
    <3>1. SUFFICES ASSUME NEW p \in Objects PROVE p \in Objects'
      OBVIOUS
    <3>2. 1 .. gen = 1 .. gen' /\ 0 .. Len(objs) \subseteq 0 .. Len(objs')
      BY <1>0, <1>1, <1>3, <1>5
    <3>3. QED
      BY <3>2 DEF Objects
  <2>2. QED
    BY <1>5, <2>1
<1>16. Table(channels, 1 .. MaxObjects)'
  BY <1>2, <1>3, <1>5, <1>9 DEF Table
<1>17. channelCounter' \in 0 .. MaxObjects /\ Len(objs') \in 0 .. MaxObjects /\ Len(objs') = Len(objs) + 1
  BY <1>0, <1>1, <1>3, <1>5
<1>18. Ids \subseteq Ids' /\ l \in Ids'
  BY <1>5
<1>19. QED
  BY <1>0, <1>14, <1>15, <1>16, <1>17, <1>18

LEMMA QueueKeeps ==
  ASSUME IInv, MaxObjects \in Nat, NEW n \in QueueNames, Queue(n)
  PROVE  IInv'
<1>1. /\ conn = "ready" /\ Construct("queue", n)
      /\ queues' = With(queues, n, Len(objs) + 1)
      /\ UNCHANGED <<conn, gen, exchanges, default, calls, misuse>>
  BY DEF Queue, Registered
<1>2. /\ TypeOK /\ gen > 0 /\ n \in Names /\ Table(queues, Names) /\ Table(exchanges, Names)
  BY <1>1, TypesOf DEF IInv, Down, Names
<1>3. PICK o : o = NewObject("queue", n)
  OBVIOUS
<1>4. Constructs(o)
  BY <1>1, <1>3 DEF Construct, Constructs
<1>5. Room
  BY <1>1 DEF Construct
<1>6. Fresh(o)
  BY <1>2, <1>3, <1>5, NewObjectIs
<1>7. /\ Rest' /\ ServerTyped'
      /\ channelCounter' \in 0 .. MaxObjects /\ Len(objs') \in 0 .. MaxObjects
      /\ Len(objs') = Len(objs) + 1 /\ Ids \subseteq Ids' /\ Len(objs) + 1 \in Ids'
      /\ objs' \in Seq(Objects)' /\ Table(channels, 1 .. MaxObjects)'
  BY <1>1, <1>4, <1>6, ConstructKeeps
<1>8. Table(queues, Names)' /\ Table(exchanges, Names)'
  BY <1>1, <1>2, <1>7 DEF Table, With
<1>9. default' \in 0 .. Len(objs')
  BY <1>1, <1>2, <1>7 DEF TypeOK
<1>10. TypeOK'
  BY <1>1, <1>2, <1>7, <1>8, <1>9 DEF TypeOK, ServerTyped, ServerType
<1>11. QED
  BY <1>7, <1>10 DEF IInv, Rest

LEMMA ExchangeKeeps ==
  ASSUME IInv, MaxObjects \in Nat, NEW n \in ExchangeNames, Exchange(n)
  PROVE  IInv'
<1>1. /\ conn = "ready" /\ Construct("exchange", n)
      /\ exchanges' = With(exchanges, n, Len(objs) + 1)
      /\ UNCHANGED <<conn, gen, queues, default, calls, misuse>>
  BY DEF Exchange
<1>2. /\ TypeOK /\ gen > 0 /\ n \in Names /\ Table(queues, Names) /\ Table(exchanges, Names)
  BY <1>1, TypesOf DEF IInv, Down, Names
<1>3. PICK o : o = NewObject("exchange", n)
  OBVIOUS
<1>4. Constructs(o)
  BY <1>1, <1>3 DEF Construct, Constructs
<1>5. Room
  BY <1>1 DEF Construct
<1>6. Fresh(o)
  BY <1>2, <1>3, <1>5, NewObjectIs
<1>7. /\ Rest' /\ ServerTyped'
      /\ channelCounter' \in 0 .. MaxObjects /\ Len(objs') \in 0 .. MaxObjects
      /\ Len(objs') = Len(objs) + 1 /\ Ids \subseteq Ids' /\ Len(objs) + 1 \in Ids'
      /\ objs' \in Seq(Objects)' /\ Table(channels, 1 .. MaxObjects)'
  BY <1>1, <1>4, <1>6, ConstructKeeps
<1>8. Table(queues, Names)' /\ Table(exchanges, Names)'
  BY <1>1, <1>2, <1>7 DEF Table, With
<1>9. default' \in 0 .. Len(objs')
  BY <1>1, <1>2, <1>7 DEF TypeOK
<1>10. TypeOK'
  BY <1>1, <1>2, <1>7, <1>8, <1>9 DEF TypeOK, ServerTyped, ServerType
<1>11. QED
  BY <1>7, <1>10 DEF IInv, Rest

LEMMA PublishKeeps ==
  ASSUME IInv, MaxObjects \in Nat, Publish
  PROVE  IInv'
<1>1. conn = "ready" /\ UNCHANGED <<conn, gen>>
  BY DEF Publish
<1>2. /\ TypeOK /\ gen > 0 /\ DefaultName \in Names /\ Table(queues, Names) /\ Table(exchanges, Names)
  BY <1>1, TypesOf DEF IInv, Down, Names
<1>3. ASSUME NEW i \in IF default # 0 THEN {default}
                       ELSE {exchanges[n] : n \in DOMAIN exchanges \cap {DefaultName}},
             PublishBy(i)
      PROVE  IInv'
  <2>1. i \in Ids
    BY <1>2 DEF TypeOK, Table, Ids
  <2>2. QED
    BY <1>1, <1>3, <2>1, PublishByKeeps
<1>4. PICK o : o = [NewObject("exchange", DefaultName) EXCEPT !.todo = <<"request">>]
  OBVIOUS
<1>5. ASSUME Room, channelCounter' = NextChannel, objs' = Append(objs, o),
             channels' = Tracked(NextChannel, Len(objs) + 1),
             exchanges' = With(exchanges, DefaultName, Len(objs) + 1),
             default' = Len(objs) + 1, ServerOpens(NextChannel), UNCHANGED <<queues, misuse>>
      PROVE  IInv'
  <2>1. Constructs(o)
    BY <1>1, <1>5 DEF Constructs
  <2>2. Fresh(o)
    BY <1>2, <1>4, <1>5, NewObjectIs
  <2>3. /\ Rest' /\ ServerTyped'
        /\ channelCounter' \in 0 .. MaxObjects /\ Len(objs') \in 0 .. MaxObjects
        /\ Len(objs') = Len(objs) + 1 /\ Ids \subseteq Ids' /\ Len(objs) + 1 \in Ids'
        /\ objs' \in Seq(Objects)' /\ Table(channels, 1 .. MaxObjects)'
    BY <1>1, <2>1, <2>2, ConstructKeeps
  <2>4. Table(queues, Names)' /\ Table(exchanges, Names)'
    BY <1>2, <1>5, <2>3 DEF Table, With
  <2>5. default' \in 0 .. Len(objs')
    BY <1>5, <2>3
  <2>6. TypeOK'
    BY <1>1, <1>2, <1>5, <2>3, <2>4, <2>5 DEF TypeOK, ServerTyped, ServerType
  <2>7. QED
    BY <2>3, <2>6 DEF IInv, Rest
<1>6. QED
  BY <1>3, <1>4, <1>5 DEF Publish, PublishBy

LEMMA AnonymousKeeps ==
  ASSUME IInv, MaxObjects \in Nat, AnonymousAgain
  PROVE  IInv'
<1>1. /\ conn = "ready" /\ Room /\ channelCounter' = channelCounter + 1
      /\ UNCHANGED <<conn, gen, objs, channels, queues, exchanges, default, misuse, server, kicked, toClient>>
  BY DEF AnonymousAgain, NextChannel, tables, broker
<1>2. channelCounter' \in 0 .. MaxObjects /\ channelCounter \in Nat /\ channelCounter < channelCounter'
  BY <1>1 DEF IInv, TypeOK, Room
<1>3. Ids' = Ids /\ Objects' = Objects
  BY <1>1 DEF Ids, Objects
<1>4. TypeOK'
  <2>1. /\ Table(channels, 1 .. MaxObjects)' /\ Table(queues, Names)' /\ Table(exchanges, Names)'
    BY <1>1, <1>3 DEF IInv, TypeOK, Table
  <2>2. QED
    BY <1>1, <1>2, <1>3, <2>1 DEF IInv, TypeOK
<1>5. Broker(DOMAIN channels, server, kicked, toClient)'
  BY <1>1 DEF IInv
<1>6. Numbered'
  <2>1. ASSUME NEW i \in Ids PROVE objs[i].channel <= channelCounter'
    <3>1. objs[i].channel \in 1 .. MaxObjects /\ objs[i].channel <= channelCounter
      BY TypeOfChannel DEF IInv, Numbered
    <3>2. QED
      BY <1>2, <3>1
  <2>2. QED
    BY <1>1, <1>3, <2>1 DEF IInv, Numbered
<1>7. Down' /\ Orderly'
  BY <1>1, <1>3 DEF IInv, Down, Orderly, Served, ServedAt, Awaited
<1>8. QED
  BY <1>4, <1>5, <1>6, <1>7 DEF IInv

LEMMA HandshakeKeeps ==
  ASSUME IInv, Handshake
  PROVE  IInv'
<1>1. /\ UNCHANGED <<gen, channelCounter, objs, tables, default, misuse, broker>>
      /\ conn' \in {"tune", "open", "ready"} /\ conn \in {"start", "tune", "open"}
  BY DEF Handshake
<1>2. QED
  BY <1>1, StutterKeeps

-----------------------------------------------------------------------------
(* Theorems                                                                *)

LEMMA InitHolds ==
  ASSUME Init
  PROVE  IInv
<1>1. TypeOK
  <2>1. objs \in Seq(Objects) /\ toClient \in Seq(Methods) /\ Len(objs) = 0
    BY DEF Init
  <2>2. MaxObjects \in Nat /\ MaxConnects \in Nat
    BY ConnectionAssumption
  <2>3. Table(channels, 1 .. MaxObjects) /\ Table(queues, Names) /\ Table(exchanges, Names)
    BY DEF Init, Table, Empty
  <2>4. server \in [DOMAIN server -> {"open", "closing"}]
    BY DEF Init, Empty
  <2>5. /\ conn = "down" /\ gen \in 0 .. MaxConnects /\ channelCounter \in 0 .. MaxObjects
        /\ default \in 0 .. Len(objs) /\ Len(objs) <= MaxObjects /\ misuse = {} /\ kicked = FALSE
    BY <2>1, <2>2 DEF Init
  <2>6. QED
    BY <2>1, <2>3, <2>4, <2>5 DEF TypeOK
<1>2. Broker(DOMAIN channels, server, kicked, toClient)
  BY DEF Init, Broker, Empty
<1>3. Numbered /\ Down /\ Orderly
  BY DEF Init, Numbered, Down, Orderly, Served, Awaited, Empty, Ids
<1>4. QED
  BY <1>1, <1>2, <1>3 DEF IInv

LEMMA NextKeeps ==
  ASSUME IInv, [Next]_vars
  PROVE  IInv'
<1>1. MaxObjects \in Nat /\ MaxConnects \in Nat
  BY ConnectionAssumption
<1>2. CASE UNCHANGED vars
  BY <1>2, StutterKeeps DEF vars, client, IInv, TypeOK
<1>3. CASE Call
  BY <1>1, <1>3, QueueKeeps, AnonymousKeeps, ExchangeKeeps, TaskKeeps, BindKeeps, CloseKeeps,
     PublishKeeps DEF Call
<1>4. CASE Data
  BY <1>1, <1>4, ChannelOpenOkKeeps, DeclareOkKeeps, ChannelCloseKeeps, ChannelCloseOkKeeps,
     ConnectionCloseKeeps DEF Data
<1>5. CASE End
  BY <1>5, EndKeeps
<1>6. CASE Connect
  BY <1>1, <1>6, ConnectKeeps
<1>7. CASE Handshake
  BY <1>7, HandshakeKeeps
<1>8. QED
  BY <1>2, <1>3, <1>4, <1>5, <1>6, <1>7 DEF Next

\* In every state the numbers of channels are those up to the counter, each of one
\* object; the broker has, and answers on, only channels of the table; and a program
\* that ends its objects in order finds them in step with the broker.
THEOREM Invariance == Spec => []IInv
<1>1. Init => IInv
  BY InitHolds
<1>2. IInv /\ [Next]_vars => IInv'
  BY NextKeeps
<1>3. QED
  BY <1>1, <1>2, PTL DEF Spec

\* Every variable of a connection holds a value of its kind.
THEOREM ConnectionTypeCorrect == Spec => []TypeOK
<1>1. IInv => TypeOK
  BY DEF IInv
<1>2. QED
  BY <1>1, Invariance, PTL

\* Every channel that the broker has, and every answer on its way, is of one
\* object of this connection, which the table leads to.
THEOREM ChannelsAreOwned == Spec => []ChannelHasOneOwner
<1>1. IInv => ChannelHasOneOwner
  <2> SUFFICES ASSUME IInv,
                      NEW c \in (DOMAIN server \cup {toClient[k].channel : k \in DOMAIN toClient}) \ {0}
               PROVE  /\ c \in DOMAIN channels
                      /\ objs[channels[c]].gen = gen
                      /\ {i \in Ids : objs[i].channel = c} = {channels[c]}
    BY DEF ChannelHasOneOwner
  <2>1. c \in DOMAIN channels
    BY DEF IInv, Broker
  <2>2. channels[c] \in Ids /\ objs[channels[c]].channel = c /\ objs[channels[c]].gen = gen
    BY <2>1, OwnerIs DEF IInv
  <2>3. \A i \in Ids : objs[i].channel = c => i = channels[c]
    BY <2>2 DEF IInv, Numbered
  <2>4. QED
    BY <2>1, <2>2, <2>3
<1>2. QED
  BY <1>1, Invariance, PTL

\* The broker does not close the connection of a program that uses the objects
\* of this connection only, and closes them when they are open.
THEOREM OrderlyKeepsConnection == Spec => []ConnectionKept
<1>1. IInv => ConnectionKept
  BY DEF IInv, Orderly, ConnectionKept
<1>2. QED
  BY <1>1, Invariance, PTL

-----------------------------------------------------------------------------
(* The tables of queues and exchanges.  The invariant is about objects os,  *)
(* of which those of g are of this connection, so that it can also be said  *)
(* of the objects as they are when a flush begins.                          *)

Fields(o) ==
  /\ o.kind \in {"queue", "exchange"}
  /\ o.gen \in Nat /\ o.destroys \in Nat /\ o.closes \in Nat /\ o.binds \in Int
  /\ o.destroyed \in BOOLEAN /\ o.refused \in BOOLEAN

Listed(os) ==
  /\ Len(os) \in Nat /\ DOMAIN os = 1 .. Len(os)
  /\ \A i \in DOMAIN os : Fields(os[i]) /\ os[i].exchange \in 0 .. Len(os)

\* Object i, later: what does not change, and what only grows.
Older(o, p) ==
  /\ p.kind = o.kind /\ p.gen = o.gen /\ p.channel = o.channel
  /\ p.destroys >= o.destroys /\ p.closes >= o.closes
  /\ o.destroyed => p.destroyed

Later(os, ns) ==
  /\ Listed(os) /\ Listed(ns) /\ Len(ns) = Len(os)
  /\ \A i \in DOMAIN os : Older(os[i], ns[i])

\* A queue of this connection that has its channel and is not destroyed.
InUse(g, os, D, i) ==
  os[i].kind = "queue" /\ os[i].gen = g /\ ~os[i].destroyed /\ os[i].channel \in D

\* Some object of the name n among the first j was ended twice.
Lost(os, n, j) == \E k \in 1 .. j : os[k].name = n /\ os[k].destroys + os[k].closes > 1

\* A queue in use has the entry of its name, if none of that name was ended twice.
HasEntry(os, qs, i) ==
  os[i].name # "" /\ ~Lost(os, os[i].name, Len(os)) =>
    os[i].name \in DOMAIN qs /\ qs[os[i].name] = i

QueuesKept(g, os, D, qs) ==
  \A i \in DOMAIN os : InUse(g, os, D, i) => HasEntry(os, qs, i)

\* The queue is declared, or the answer to its declare is on its way.  q: the
\* answers on their way.
Told(os, q, i) ==
  os[i].state = "open" \/ \E x \in q : x.m = "declareOk" /\ x.channel = os[i].channel

Twins(g, os, D, k, q, i, j) ==
  /\ InUse(g, os, D, i) /\ InUse(g, os, D, j)
  /\ os[i].name = os[j].name /\ os[i].name # ""
  /\ k => Told(os, q, i) /\ Told(os, q, j)

OneInUse(g, os, D, k, q) ==
  \A i, j \in DOMAIN os : i < j /\ Twins(g, os, D, k, q, i, j) => Lost(os, os[j].name, j)

QueuePart(g, os, D, qs, k, q) ==
  /\ ~k => QueuesKept(g, os, D, qs)
  /\ OneInUse(g, os, D, k, q)

-----------------------------------------------------------------------------
(* Queues                                                                  *)

LEMMA UpTo ==
  ASSUME NEW l \in Nat
  PROVE  l \in 0 .. l /\ l + 1 \in Nat /\ l <= l + 1
OBVIOUS

LEMMA LaterIs ==
  ASSUME NEW os, NEW ns, Later(os, ns)
  PROVE  /\ DOMAIN ns = DOMAIN os /\ Len(ns) = Len(os) /\ Len(os) \in 0 .. Len(os)
         /\ DOMAIN os = 1 .. Len(os) /\ Len(os) \in Nat
<1>1. /\ DOMAIN ns = 1 .. Len(ns) /\ Len(ns) = Len(os)
      /\ DOMAIN os = 1 .. Len(os) /\ Len(os) \in Nat
  BY DEF Later, Listed
<1>2. QED
  BY <1>1, UpTo

LEMMA LostLater ==
  ASSUME NEW os, NEW ns, Later(os, ns), NEW j \in 0 .. Len(os), NEW n,
         \A i \in DOMAIN os : os[i].name = n => ns[i].name = n,
         Lost(os, n, j)
  PROVE  Lost(ns, n, j)
<1>1. PICK k \in 1 .. j : os[k].name = n /\ os[k].destroys + os[k].closes > 1
  BY DEF Lost
<1>2. k \in DOMAIN os /\ Fields(os[k]) /\ Fields(ns[k]) /\ Older(os[k], ns[k])
  BY DEF Later, Listed
<1>3. ns[k].destroys + ns[k].closes > 1
  BY <1>1, <1>2 DEF Fields, Older
<1>4. ns[k].name = n
  BY <1>1, <1>2
<1>5. QED
  BY <1>3, <1>4 DEF Lost

LEMMA InUseBefore ==
  ASSUME NEW os, NEW ns, Later(os, ns), NEW g, NEW D, NEW E \in SUBSET D,
         NEW i \in DOMAIN os, InUse(g, ns, E, i)
  PROVE  InUse(g, os, D, i)
BY DEF InUse, Later, Older

\* A step that names no queue and takes no entry away.
LEMMA QueuesQuiet ==
  ASSUME NEW os, NEW ns, Later(os, ns), \A i \in DOMAIN os : ns[i].name = os[i].name,
         NEW g, NEW D, NEW E \in SUBSET D, NEW qs,
         QueuesKept(g, os, D, qs)
  PROVE  QueuesKept(g, ns, E, qs)
<1> SUFFICES ASSUME NEW i \in DOMAIN ns, InUse(g, ns, E, i), ns[i].name # "",
                    ~Lost(ns, ns[i].name, Len(ns))
             PROVE  ns[i].name \in DOMAIN qs /\ qs[ns[i].name] = i
  BY DEF QueuesKept, HasEntry
<1>1. i \in DOMAIN os /\ Len(ns) = Len(os) /\ Len(os) \in 0 .. Len(os)
  BY LaterIs
<1>2. ns[i].name = os[i].name
  BY <1>1
<1>3. InUse(g, os, D, i)
  BY <1>1, InUseBefore
<1>4. ~Lost(os, os[i].name, Len(os))
  BY <1>1, <1>2, LostLater
<1>5. QED
  BY <1>1, <1>2, <1>3, <1>4 DEF QueuesKept, HasEntry

\* Once kicked, no queue is told more.
ToldLess(g, os, ns, E, k, p, q) ==
  k => \A i \in DOMAIN os : InUse(g, ns, E, i) /\ Told(ns, p, i) => Told(os, q, i)

LEMMA TwinsQuiet ==
  ASSUME NEW os, NEW ns, Later(os, ns), \A i \in DOMAIN os : ns[i].name = os[i].name,
         NEW g, NEW D, NEW E \in SUBSET D, NEW k, NEW l, k => l, NEW p, NEW q,
         ToldLess(g, os, ns, E, k, p, q),
         OneInUse(g, os, D, k, q)
  PROVE  OneInUse(g, ns, E, l, p)
<1> SUFFICES ASSUME NEW i \in DOMAIN ns, NEW j \in DOMAIN ns, i < j, Twins(g, ns, E, l, p, i, j)
             PROVE  Lost(ns, ns[j].name, j)
  BY DEF OneInUse
<1>1. i \in DOMAIN os /\ j \in DOMAIN os /\ j \in 0 .. Len(os)
  BY DEF Later, Listed
<1>2. ns[i].name = os[i].name /\ ns[j].name = os[j].name
  BY <1>1
<1>3. InUse(g, os, D, i) /\ InUse(g, os, D, j)
  BY <1>1, InUseBefore DEF Twins
<1>4. k => Told(os, q, i) /\ Told(os, q, j)
  BY <1>1 DEF Twins, ToldLess
<1>5. Twins(g, os, D, k, q, i, j)
  BY <1>2, <1>3, <1>4 DEF Twins
<1>6. Lost(os, os[j].name, j)
  BY <1>1, <1>5 DEF OneInUse
<1>7. QED
  BY <1>1, <1>2, <1>6, LostLater

\* Queue i, of the name n, goes out of use, and so does the entry of n.
LEMMA QueueRemoved ==
  ASSUME NEW os, NEW ns, Later(os, ns), \A i \in DOMAIN os : ns[i].name = os[i].name,
         NEW g, NEW D, NEW E \in SUBSET D, NEW qs,
         QueuesKept(g, os, D, qs),
         NEW i \in DOMAIN os, ~InUse(g, ns, E, i),
         ~Lost(ns, os[i].name, Len(ns)) => InUse(g, os, D, i)
  PROVE  QueuesKept(g, ns, E, Without(qs, os[i].name))
<1> SUFFICES ASSUME NEW j \in DOMAIN ns, InUse(g, ns, E, j), ns[j].name # "",
                    ~Lost(ns, ns[j].name, Len(ns))
             PROVE  /\ ns[j].name \in DOMAIN Without(qs, os[i].name)
                    /\ Without(qs, os[i].name)[ns[j].name] = j
  BY DEF QueuesKept, HasEntry
<1>1. QueuesKept(g, ns, E, qs)
  BY QueuesQuiet
<1>2. ns[j].name \in DOMAIN qs /\ qs[ns[j].name] = j
  BY <1>1 DEF QueuesKept, HasEntry
<1>3. ASSUME ns[j].name = os[i].name
      PROVE  FALSE
  <2>1. i \in DOMAIN ns /\ DOMAIN ns = DOMAIN os /\ Len(ns) = Len(os) /\ Len(os) \in 0 .. Len(os)
    BY LaterIs
  <2>2. InUse(g, os, D, i)
    BY <1>3
  <2>3. ~Lost(os, os[i].name, Len(os))
    BY <1>3, <2>1, LostLater
  <2>4. qs[os[i].name] = i
    BY <1>3, <2>2, <2>3 DEF QueuesKept, HasEntry
  <2>5. j = i
    BY <1>2, <1>3, <2>4
  <2>6. QED
    BY <2>5
<1>4. QED
  BY <1>2, <1>3 DEF Without

\* ns: the objects os and o.
More(os, ns, o) ==
  /\ Listed(os) /\ Listed(ns) /\ Len(ns) = Len(os) + 1
  /\ \A i \in DOMAIN os : ns[i] = os[i]
  /\ ns[Len(ns)] = o

LEMMA MoreIs ==
  ASSUME NEW os, NEW ns, NEW o, More(os, ns, o)
  PROVE  /\ DOMAIN ns = DOMAIN os \cup {Len(ns)} /\ Len(ns) \notin DOMAIN os
         /\ Len(os) \in Nat /\ DOMAIN os = 1 .. Len(os) /\ Len(ns) = Len(os) + 1
<1>1. /\ DOMAIN ns = 1 .. Len(ns) /\ Len(ns) = Len(os) + 1
      /\ DOMAIN os = 1 .. Len(os) /\ Len(os) \in Nat
  BY DEF More, Listed
<1>2. \A l \in Nat : 1 .. l + 1 = 1 .. l \cup {l + 1} /\ l + 1 \notin 1 .. l
  OBVIOUS
<1>3. QED
  BY <1>1, <1>2

LEMMA LostMore ==
  ASSUME NEW os, NEW ns, NEW o, More(os, ns, o), NEW n, NEW j \in 0 .. Len(os), NEW m \in Nat, j <= m,
         Lost(os, n, j)
  PROVE  Lost(ns, n, m)
<1>1. PICK k \in 1 .. j : os[k].name = n /\ os[k].destroys + os[k].closes > 1
  BY DEF Lost
<1>2. k \in DOMAIN os /\ ns[k] = os[k]
  BY <1>1, MoreIs DEF More
<1>3. k \in 1 .. m
  BY <1>1, MoreIs
<1>4. QED
  BY <1>1, <1>2, <1>3 DEF Lost

\* The table with an object more: a queue enters it, when it has no such name.
Entered(qs, rs, o, l) ==
  \/ o.kind = "queue" /\ o.name \notin DOMAIN qs /\ rs = With(qs, o.name, l)
  \/ o.kind = "exchange" /\ rs = qs

LEMMA QueueMore ==
  ASSUME NEW os, NEW ns, NEW o, More(os, ns, o), NEW g, NEW D, NEW qs,
         \A i \in DOMAIN os : os[i].channel # o.channel,
         QueuesKept(g, os, D, qs),
         NEW rs, Entered(qs, rs, o, Len(ns))
  PROVE  QueuesKept(g, ns, D \cup {o.channel}, rs)
<1> SUFFICES ASSUME NEW i \in DOMAIN ns, InUse(g, ns, D \cup {o.channel}, i), ns[i].name # "",
                    ~Lost(ns, ns[i].name, Len(ns))
             PROVE  ns[i].name \in DOMAIN rs /\ rs[ns[i].name] = i
  BY DEF QueuesKept, HasEntry
<1>1. /\ DOMAIN ns = DOMAIN os \cup {Len(ns)} /\ Len(ns) \notin DOMAIN os
      /\ Len(os) \in Nat /\ Len(ns) = Len(os) + 1 /\ ns[Len(ns)] = o
  BY MoreIs DEF More
<1>2. CASE i = Len(ns)
  <2>1. ns[i] = o /\ o.kind = "queue"
    BY <1>1, <1>2 DEF InUse
  <2>2. rs = With(qs, o.name, Len(ns))
    BY <2>1 DEF Entered
  <2>3. QED
    BY <1>2, <2>1, <2>2 DEF With
<1>3. CASE i \in DOMAIN os
  <2>1. ns[i] = os[i] /\ os[i].channel # o.channel
    BY <1>3 DEF More
  <2>2. InUse(g, os, D, i)
    BY <2>1 DEF InUse
  <2>3. ~Lost(os, os[i].name, Len(os))
    <3>1. Len(os) \in 0 .. Len(os) /\ Len(ns) \in Nat /\ Len(os) <= Len(ns)
      BY <1>1, UpTo
    <3>2. QED
      BY <2>1, <3>1, LostMore
  <2>4. os[i].name \in DOMAIN qs /\ qs[os[i].name] = i
    BY <1>3, <2>1, <2>2, <2>3 DEF QueuesKept, HasEntry
  <2>5. QED
    BY <2>1, <2>4 DEF Entered, With
<1>4. QED
  BY <1>1, <1>2, <1>3

LEMMA TwinsMore ==
  ASSUME NEW os, NEW ns, NEW o, More(os, ns, o), NEW g, NEW D, NEW qs, NEW k, NEW q, NEW p,
         \A i \in DOMAIN os : os[i].channel # o.channel,
         ~k => QueuesKept(g, os, D, qs),
         OneInUse(g, os, D, k, q),
         NEW rs, Entered(qs, rs, o, Len(ns)),
         k => ~Told(ns, p, Len(ns)) /\ \A i \in DOMAIN os : Told(ns, p, i) => Told(os, q, i)
  PROVE  OneInUse(g, ns, D \cup {o.channel}, k, p)
<1> SUFFICES ASSUME NEW i \in DOMAIN ns, NEW j \in DOMAIN ns, i < j,
                    Twins(g, ns, D \cup {o.channel}, k, p, i, j)
             PROVE  Lost(ns, ns[j].name, j)
  BY DEF OneInUse
<1>1. /\ DOMAIN ns = DOMAIN os \cup {Len(ns)} /\ Len(ns) \notin DOMAIN os
      /\ Len(os) \in Nat /\ Len(ns) = Len(os) + 1 /\ ns[Len(ns)] = o /\ DOMAIN os = 1 .. Len(os)
  BY MoreIs DEF More
<1>2. i \in DOMAIN os
  BY <1>1
<1>3. InUse(g, os, D, i) /\ ns[i] = os[i]
  BY <1>2 DEF More, Twins, InUse
<1>4. CASE j = Len(ns)
  <2>1. ~k /\ ns[j] = o /\ o.kind = "queue" /\ o.name = os[i].name /\ o.name # ""
    BY <1>1, <1>3, <1>4 DEF Twins, InUse
  <2>2. o.name \notin DOMAIN qs
    BY <2>1 DEF Entered
  <2>3. Lost(os, o.name, Len(os))
    BY <1>2, <1>3, <2>1, <2>2 DEF QueuesKept, HasEntry
  <2>4. Len(os) \in 0 .. Len(os) /\ j \in Nat /\ Len(os) <= j
    BY <1>1, <1>4
  <2>5. QED
    BY <2>1, <2>3, <2>4, LostMore
<1>5. CASE j \in DOMAIN os
  <2>1. InUse(g, os, D, j) /\ ns[j] = os[j]
    BY <1>5 DEF More, Twins, InUse
  <2>2. Twins(g, os, D, k, q, i, j)
    BY <1>2, <1>3, <1>5, <2>1 DEF Twins
  <2>3. Lost(os, os[j].name, j)
    BY <1>2, <1>5, <2>2 DEF OneInUse
  <2>4. j \in 0 .. Len(os) /\ j \in Nat /\ j <= j
    BY <1>1, <1>5
  <2>5. QED
    BY <2>1, <2>3, <2>4, LostMore
<1>6. QED
  BY <1>1, <1>4, <1>5

\* Object i is told its name n: its own, or, for an anonymous queue, one that no
\* queue has.
Named(os, ns, i, n) ==
  /\ ns[i].name = n /\ \A j \in DOMAIN os : j # i => ns[j].name = os[j].name
  /\ \/ os[i].name = n
     \/ os[i].name = "" /\ \A j \in DOMAIN os : os[j].kind = "queue" => os[j].name # n

LEMMA NamedName ==
  ASSUME NEW os, NEW ns, Later(os, ns), NEW i \in DOMAIN os, NEW n, Named(os, ns, i, n),
         NEW j \in 0 .. Len(os), NEW m, m # "", Lost(os, m, j)
  PROVE  Lost(ns, m, j)
<1>1. \A e \in DOMAIN os : os[e].name = m => ns[e].name = m
  BY DEF Named
<1>2. QED
  BY <1>1, LostLater

LEMMA QueueNamed ==
  ASSUME NEW os, NEW ns, Later(os, ns), NEW i \in DOMAIN os, NEW n, Named(os, ns, i, n),
         NEW g, NEW D, NEW qs, QueuesKept(g, os, D, qs), InUse(g, os, D, i)
  PROVE  QueuesKept(g, ns, D, With(qs, n, i))
<1> SUFFICES ASSUME NEW j \in DOMAIN ns, InUse(g, ns, D, j), ns[j].name # "",
                    ~Lost(ns, ns[j].name, Len(ns))
             PROVE  /\ ns[j].name \in DOMAIN With(qs, n, i)
                    /\ With(qs, n, i)[ns[j].name] = j
  BY DEF QueuesKept, HasEntry
<1>1. /\ j \in DOMAIN os /\ Len(ns) = Len(os) /\ Len(os) \in 0 .. Len(os)
      /\ InUse(g, os, D, j)
  BY LaterIs, InUseBefore
<1>2. CASE j = i
  BY <1>2 DEF Named, With
<1>3. CASE j # i
  <2>1. ns[j].name = os[j].name
    BY <1>1, <1>3 DEF Named
  <2>2. ~Lost(os, os[j].name, Len(os))
    BY <1>1, <2>1, NamedName
  <2>3. os[j].name \in DOMAIN qs /\ qs[os[j].name] = j
    BY <1>1, <2>1, <2>2 DEF QueuesKept, HasEntry
  <2>4. CASE os[j].name # n
    BY <2>1, <2>3, <2>4 DEF With
  <2>5. CASE os[j].name = n
    <3>1. os[j].kind = "queue"
      BY <1>1 DEF InUse
    <3>2. os[i].name = n
      BY <1>1, <2>5, <3>1 DEF Named
    <3>3. qs[n] = i
      BY <2>1, <2>2, <2>5, <3>2 DEF QueuesKept, HasEntry
    <3>4. QED
      BY <1>3, <2>3, <2>5, <3>3
  <2>6. QED
    BY <2>4, <2>5
<1>4. QED
  BY <1>2, <1>3

LEMMA TwinsNamed ==
  ASSUME NEW os, NEW ns, Later(os, ns), NEW i \in DOMAIN os, NEW n, Named(os, ns, i, n),
         NEW g, NEW D, NEW k, NEW p, NEW q, ToldLess(g, os, ns, D, k, p, q),
         OneInUse(g, os, D, k, q)
  PROVE  OneInUse(g, ns, D, k, p)
<1>1. CASE os[i].name = n
  <2>1. \A j \in DOMAIN os : ns[j].name = os[j].name
    BY <1>1 DEF Named
  <2>2. QED
    BY <2>1, TwinsQuiet
<1>2. CASE \A j \in DOMAIN os : os[j].kind = "queue" => os[j].name # n
  <2> SUFFICES ASSUME NEW a \in DOMAIN ns, NEW b \in DOMAIN ns, a < b, Twins(g, ns, D, k, p, a, b)
               PROVE  Lost(ns, ns[b].name, b)
    BY DEF OneInUse
  <2>1. a \in DOMAIN os /\ b \in DOMAIN os /\ b \in 0 .. Len(os) /\ ~(a < a) /\ a # b
    BY LaterIs
  <2>2. InUse(g, os, D, a) /\ InUse(g, os, D, b)
    BY <2>1, InUseBefore DEF Twins
  <2>3. os[a].name # n /\ os[b].name # n
    BY <1>2, <2>1, <2>2 DEF InUse
  <2>4. a # i /\ b # i
    BY <2>1, <2>3 DEF Twins, Named
  <2>5. ns[a].name = os[a].name /\ ns[b].name = os[b].name
    BY <2>1, <2>4 DEF Named
  <2>6. k => Told(os, q, a) /\ Told(os, q, b)
    BY <2>1 DEF Twins, ToldLess
  <2>7. Twins(g, os, D, k, q, a, b)
    BY <2>2, <2>5, <2>6 DEF Twins
  <2>8. Lost(os, os[b].name, b)
    BY <2>1, <2>7 DEF OneInUse
  <2>9. os[b].name # ""
    BY <2>7 DEF Twins
  <2>10. QED
    BY <2>1, <2>5, <2>8, <2>9, NamedName
<1>3. QED
  BY <1>1, <1>2 DEF Named

-----------------------------------------------------------------------------
(* Exchanges                                                               *)

Once(os) == \A i \in DOMAIN os : os[i].kind = "queue" => os[i].destroys <= 1

\* The queues bound to x that are not destroyed.
BoundTo(os, x) == {i \in DOMAIN os : os[i].exchange = x /\ ~os[i].destroyed}

\* x counts them.
Enough(os, x) == os[x].binds >= Cardinality(BoundTo(os, x))

NotEnded(os, n) ==
  \A i \in DOMAIN os : os[i].kind = "exchange" /\ os[i].name = n => os[i].destroys + os[i].closes = 0

Holds(os, xs, x) == os[x].name \in DOMAIN xs /\ xs[os[x].name] = x

\* The exchange of this connection that queue i is bound to, still in use.
BoundNow(g, os, i) ==
  /\ os[i].gen = g /\ ~os[i].destroyed /\ os[i].exchange # 0
  /\ os[os[i].exchange].gen = g
  /\ NotEnded(os, os[os[i].exchange].name)

ExchangesKept(g, os, xs) ==
  \A i \in DOMAIN os : BoundNow(g, os, i) => Holds(os, xs, os[i].exchange)

\* Unless a queue is destroyed twice, or an object of an earlier connection used.
ExchangePart(g, os, xs, stale) ==
  Once(os) =>
    /\ \A x \in DOMAIN os : Enough(os, x)
    /\ ~stale => ExchangesKept(g, os, xs)

\* What a queue is bound to.
Bindings(g, os) ==
  \A i \in DOMAIN os :
    /\ os[i].kind = "exchange" => os[i].exchange = 0
    /\ os[i].exchange # 0 =>
         /\ os[i].exchange \in DOMAIN os
         /\ os[os[i].exchange].kind = "exchange"
         /\ os[os[i].exchange].gen \in os[i].gen .. g

LEMMA BoundFinite ==
  ASSUME NEW os, Listed(os), NEW x
  PROVE  IsFiniteSet(BoundTo(os, x)) /\ Cardinality(BoundTo(os, x)) \in Nat
<1>1. DOMAIN os = 1 .. Len(os) /\ Len(os) \in Nat
  BY DEF Listed
<1>2. IsFiniteSet(1 .. Len(os))
  BY <1>1, FS_Interval
<1>3. BoundTo(os, x) \subseteq 1 .. Len(os)
  BY <1>1 DEF BoundTo
<1>4. QED
  BY <1>2, <1>3, FS_Subset, FS_CardinalityType

LEMMA FewerBound ==
  ASSUME NEW os, Listed(os), NEW ns, Listed(ns), NEW x,
         BoundTo(ns, x) \subseteq BoundTo(os, x),
         Fields(ns[x]), Fields(os[x]), ns[x].binds >= os[x].binds, Enough(os, x)
  PROVE  Enough(ns, x)
<1>1. /\ IsFiniteSet(BoundTo(os, x)) /\ Cardinality(BoundTo(os, x)) \in Nat
      /\ Cardinality(BoundTo(ns, x)) \in Nat
  BY BoundFinite
<1>2. Cardinality(BoundTo(ns, x)) <= Cardinality(BoundTo(os, x))
  BY <1>1, FS_Subset
<1>3. QED
  BY <1>1, <1>2 DEF Enough, Fields

LEMMA EndedLater ==
  ASSUME NEW os, NEW ns, Later(os, ns),
         \A i \in DOMAIN os : os[i].kind = "exchange" => ns[i].name = os[i].name,
         NEW n, NotEnded(ns, n)
  PROVE  NotEnded(os, n)
<1> SUFFICES ASSUME NEW i \in DOMAIN os, os[i].kind = "exchange", os[i].name = n
             PROVE  os[i].destroys + os[i].closes = 0
  BY DEF NotEnded
<1>1. i \in DOMAIN ns /\ Fields(os[i]) /\ Fields(ns[i]) /\ Older(os[i], ns[i])
  BY LaterIs DEF Later, Listed
<1>2. ns[i].kind = "exchange" /\ ns[i].name = n
  BY <1>1 DEF Older
<1>3. ns[i].destroys + ns[i].closes = 0
  BY <1>1, <1>2 DEF NotEnded
<1>4. QED
  BY <1>1, <1>3 DEF Fields, Older

LEMMA OnceBefore ==
  ASSUME NEW os, NEW ns, Later(os, ns), Once(ns)
  PROVE  Once(os)
<1> SUFFICES ASSUME NEW i \in DOMAIN os, os[i].kind = "queue" PROVE os[i].destroys <= 1
  BY DEF Once
<1>1. i \in DOMAIN ns /\ Fields(os[i]) /\ Fields(ns[i]) /\ Older(os[i], ns[i])
  BY LaterIs DEF Later, Listed
<1>2. ns[i].destroys <= 1
  BY <1>1 DEF Once, Older
<1>3. QED
  BY <1>1, <1>2 DEF Fields, Older

\* A step that binds nothing and takes no entry away.
LEMMA ExchangesQuiet ==
  ASSUME NEW os, NEW ns, Later(os, ns), NEW g, Bindings(g, os),
         \A i \in DOMAIN os : os[i].kind = "exchange" => ns[i].name = os[i].name,
         \A i \in DOMAIN os : ns[i].exchange = os[i].exchange,
         NEW xs, ExchangesKept(g, os, xs)
  PROVE  ExchangesKept(g, ns, xs)
<1> SUFFICES ASSUME NEW i \in DOMAIN ns, BoundNow(g, ns, i)
             PROVE  Holds(ns, xs, ns[i].exchange)
  BY DEF ExchangesKept
<1> DEFINE x == os[i].exchange
<1>1. i \in DOMAIN os /\ ns[i].exchange = x
  BY LaterIs
<1>2. x # 0 /\ x \in DOMAIN os /\ os[x].kind = "exchange"
  BY <1>1 DEF BoundNow, Bindings
<1>3. ns[x].name = os[x].name
  BY <1>2
<1>4. Older(os[i], ns[i]) /\ Older(os[x], ns[x])
  BY <1>1, <1>2 DEF Later
<1>5. NotEnded(os, os[x].name)
  BY <1>1, <1>3, EndedLater DEF BoundNow
<1>6. os[i].gen = g /\ os[x].gen = g /\ ~os[i].destroyed
  BY <1>1, <1>4 DEF BoundNow, Older
<1>7. BoundNow(g, os, i)
  BY <1>2, <1>5, <1>6 DEF BoundNow
<1>8. QED
  BY <1>1, <1>3, <1>7 DEF ExchangesKept, Holds

LEMMA ExchangePartQuiet ==
  ASSUME NEW os, NEW ns, Later(os, ns), NEW g, Bindings(g, os),
         \A i \in DOMAIN os : os[i].kind = "exchange" => ns[i].name = os[i].name,
         \A i \in DOMAIN os : ns[i].exchange = os[i].exchange /\ ns[i].binds = os[i].binds,
         NEW xs, NEW stale, NEW stale2, stale => stale2, ExchangePart(g, os, xs, stale)
  PROVE  ExchangePart(g, ns, xs, stale2)
<1> SUFFICES ASSUME Once(ns)
             PROVE  /\ \A x \in DOMAIN ns : Enough(ns, x)
                    /\ ~stale2 => ExchangesKept(g, ns, xs)
  BY DEF ExchangePart
<1>1. Once(os)
  BY OnceBefore
<1>2. ASSUME NEW x \in DOMAIN ns
      PROVE  Enough(ns, x)
  <2>1. x \in DOMAIN os /\ DOMAIN ns = DOMAIN os /\ Listed(os) /\ Listed(ns)
    BY LaterIs DEF Later
  <2>2. Fields(os[x]) /\ Fields(ns[x]) /\ ns[x].binds >= os[x].binds
    BY <2>1 DEF Listed, Fields
  <2>3. BoundTo(ns, x) \subseteq BoundTo(os, x)
    BY <2>1 DEF BoundTo, Later, Older
  <2>4. Enough(os, x)
    BY <1>1, <2>1 DEF ExchangePart
  <2>5. QED
    BY <2>1, <2>2, <2>3, <2>4, FewerBound
<1>3. ~stale2 => ExchangesKept(g, ns, xs)
  <2>1. \A i \in DOMAIN os : ns[i].exchange = os[i].exchange
    OBVIOUS
  <2>2. ~stale2 => ExchangesKept(g, os, xs)
    BY <1>1 DEF ExchangePart
  <2>3. QED
    BY <2>1, <2>2, ExchangesQuiet
<1>4. QED
  BY <1>2, <1>3

\* The table with an object more.
LEMMA ExchangePartMore ==
  ASSUME NEW os, NEW ns, NEW o, More(os, ns, o), NEW g, Bindings(g, os),
         o.exchange = 0, o.binds = 0, o.destroys = 0, o.closes = 0,
         NEW xs, NEW ys, ys = xs \/ (o.name \notin DOMAIN xs /\ ys = With(xs, o.name, Len(ns))),
         NEW stale, ExchangePart(g, os, xs, stale)
  PROVE  ExchangePart(g, ns, ys, stale)
<1> SUFFICES ASSUME Once(ns)
             PROVE  /\ \A x \in DOMAIN ns : Enough(ns, x)
                    /\ ~stale => ExchangesKept(g, ns, ys)
  BY DEF ExchangePart
<1> DEFINE l == Len(ns)
<1>1. /\ DOMAIN ns = DOMAIN os \cup {l} /\ l \notin DOMAIN os
      /\ Len(os) \in Nat /\ l = Len(os) + 1 /\ ns[l] = o /\ DOMAIN os = 1 .. Len(os)
      /\ \A i \in DOMAIN os : ns[i] = os[i]
      /\ Listed(os) /\ Listed(ns)
  BY MoreIs DEF More
<1>2. Once(os)
  BY <1>1 DEF Once
<1> HIDE DEF l
<1>3. ASSUME NEW x \in DOMAIN ns
      PROVE  Enough(ns, x)
  <2>1. CASE x \in DOMAIN os
    <3>1. x # 0
      BY <1>1, <2>1
    <3>2. BoundTo(ns, x) = BoundTo(os, x)
      BY <1>1, <3>1 DEF BoundTo
    <3>3. Enough(os, x)
      BY <1>2, <2>1 DEF ExchangePart
    <3>4. QED
      BY <1>1, <2>1, <3>2, <3>3 DEF Enough
  <2>2. CASE x = l
    <3>1. x # 0
      BY <1>1, <2>2
    <3>2. \A i \in DOMAIN os : os[i].exchange # l
      BY <1>1 DEF Listed
    <3>3. BoundTo(ns, x) = {}
      BY <1>1, <2>2, <3>1, <3>2 DEF BoundTo
    <3>4. Cardinality(BoundTo(ns, x)) = 0
      BY <3>3, FS_EmptySet
    <3>5. QED
      BY <1>1, <2>2, <3>4 DEF Enough
  <2>3. QED
    BY <1>1, <2>1, <2>2
<1>4. ASSUME ~stale, NEW i \in DOMAIN ns, BoundNow(g, ns, i)
      PROVE  Holds(ns, ys, ns[i].exchange)
  <2>1. i \in DOMAIN os /\ ns[i] = os[i]
    BY <1>1, <1>4 DEF BoundNow
  <2> DEFINE x == os[i].exchange
  <2>2. x \in DOMAIN os /\ ns[x] = os[x]
    BY <1>1, <1>4, <2>1 DEF BoundNow, Bindings
  <2>3. NotEnded(os, os[x].name)
    BY <1>1, <1>4, <2>1, <2>2 DEF BoundNow, NotEnded
  <2>4. BoundNow(g, os, i)
    BY <1>4, <2>1, <2>2, <2>3 DEF BoundNow
  <2>5. Holds(os, xs, x)
    BY <1>2, <1>4, <2>1, <2>4 DEF ExchangePart, ExchangesKept
  <2>6. QED
    BY <2>1, <2>2, <2>5 DEF Holds, With
<1>5. QED
  BY <1>3, <1>4 DEF ExchangesKept

\* Queue i is bound to exchange x of the table.
LEMMA ExchangePartBound ==
  ASSUME NEW os, NEW ns, Later(os, ns), NEW g, Bindings(g, os),
         \A j \in DOMAIN os : ns[j].name = os[j].name,
         NEW i \in DOMAIN os, NEW x \in DOMAIN os,
         \A j \in DOMAIN os : ns[j].exchange = (IF j = i THEN x ELSE os[j].exchange),
         \A j \in DOMAIN os : ns[j].binds = (IF j = x THEN os[j].binds + 1 ELSE os[j].binds),
         \A j \in DOMAIN os : ns[j].destroyed = os[j].destroyed,
         NEW xs, Holds(os, xs, x), os[x].kind = "exchange",
         NEW stale, NEW stale2, stale => stale2, ExchangePart(g, os, xs, stale)
  PROVE  ExchangePart(g, ns, xs, stale2)
<1> SUFFICES ASSUME Once(ns)
             PROVE  /\ \A y \in DOMAIN ns : Enough(ns, y)
                    /\ ~stale2 => ExchangesKept(g, ns, xs)
  BY DEF ExchangePart
<1>1. Listed(os) /\ Listed(ns) /\ DOMAIN ns = DOMAIN os
  BY LaterIs DEF Later
<1>2. Once(os)
  BY OnceBefore
<1>3. ASSUME NEW y \in DOMAIN ns
      PROVE  Enough(ns, y)
  <2>1. y \in DOMAIN os /\ Fields(os[y]) /\ Fields(ns[y]) /\ Enough(os, y)
    BY <1>1, <1>2 DEF Listed, ExchangePart
  <2>2. CASE y # x
    <3>1. BoundTo(ns, y) \subseteq BoundTo(os, y)
      BY <1>1, <2>2 DEF BoundTo
    <3>2. ns[y].binds >= os[y].binds
      BY <2>1, <2>2 DEF Fields
    <3>3. QED
      BY <1>1, <2>1, <3>1, <3>2, FewerBound
  <2>3. CASE y = x
    <3>1. BoundTo(ns, x) \subseteq BoundTo(os, x) \cup {i}
      BY <1>1 DEF BoundTo
    <3>2. /\ IsFiniteSet(BoundTo(os, x)) /\ Cardinality(BoundTo(os, x)) \in Nat
          /\ Cardinality(BoundTo(ns, x)) \in Nat
      BY <1>1, BoundFinite
    <3>3. /\ IsFiniteSet(BoundTo(os, x) \cup {i})
          /\ Cardinality(BoundTo(os, x) \cup {i}) =
               IF i \in BoundTo(os, x) THEN Cardinality(BoundTo(os, x))
               ELSE Cardinality(BoundTo(os, x)) + 1
      BY <3>2, FS_AddElement
    <3>4. Cardinality(BoundTo(ns, x)) <= Cardinality(BoundTo(os, x) \cup {i})
      BY <3>1, <3>3, FS_Subset
    <3>5. Cardinality(BoundTo(ns, x)) <= Cardinality(BoundTo(os, x)) + 1
      BY <3>2, <3>3, <3>4
    <3>6. ns[x].binds = os[x].binds + 1
      BY <2>1, <2>3
    <3>7. QED
      BY <2>1, <2>3, <3>2, <3>5, <3>6 DEF Enough, Fields
  <2>4. QED
    BY <2>2, <2>3
<1>4. ASSUME ~stale2, NEW j \in DOMAIN ns, BoundNow(g, ns, j)
      PROVE  Holds(ns, xs, ns[j].exchange)
  <2>1. j \in DOMAIN os
    BY <1>1
  <2>2. CASE j = i
    BY <2>1, <2>2 DEF Holds
  <2>3. CASE j # i
    <3> DEFINE y == os[j].exchange
    <3>1. ns[j].exchange = y /\ y # 0 /\ y \in DOMAIN os
      BY <1>4, <2>1, <2>3 DEF BoundNow, Bindings
    <3>2. NotEnded(ns, os[y].name)
      BY <1>4, <3>1 DEF BoundNow
    <3>3. NotEnded(os, os[y].name)
      BY <3>2, EndedLater
    <3>4. Older(os[j], ns[j]) /\ Older(os[y], ns[y])
      BY <2>1, <3>1 DEF Later
    <3>5. BoundNow(g, os, j)
      BY <1>4, <2>1, <3>1, <3>3, <3>4 DEF BoundNow, Older
    <3>6. Holds(os, xs, y)
      BY <1>2, <1>4, <2>1, <3>5 DEF ExchangePart, ExchangesKept
    <3>7. QED
      BY <3>1, <3>6 DEF Holds
  <2>4. QED
    BY <2>2, <2>3
<1>5. QED
  BY <1>3, <1>4 DEF ExchangesKept

-----------------------------------------------------------------------------
(* A flush                                                                 *)

\* ns: the objects os after object i has done its tasks, k of which destroy it.
Flushed(os, ns, i, k) ==
  /\ \A j \in DOMAIN os :
       /\ ns[j].name = os[j].name /\ ns[j].exchange = os[j].exchange
       /\ ns[j].state = os[j].state /\ ns[j].refused = os[j].refused
       /\ ns[j].destroys = os[j].destroys /\ ns[j].closes = os[j].closes
       /\ ns[j].binds = IF j = os[i].exchange THEN os[j].binds - k ELSE os[j].binds
       /\ j # i => ns[j].destroyed = os[j].destroyed /\ ns[j].todo = os[j].todo
  /\ ns[i].destroyed = (os[i].destroyed \/ k > 0) /\ ns[i].todo = <<>>

\* How often the program has said to destroy it.
Ordered(os, i, k) ==
  /\ k \in Nat /\ k <= os[i].destroys
  /\ os[i].destroyed => k < os[i].destroys

\* What is left in the table of exchanges.
Left(os, i, k, xs, ys) ==
  \/ k > 0 /\ os[i].kind = "exchange" /\ ys = Without(xs, os[i].name)
  \/ /\ os[i].exchange # 0
     /\ \E j \in 1 .. k : os[os[i].exchange].binds - j = 0
     /\ ys = Without(xs, os[os[i].exchange].name)
  \/ ys = xs

LEMMA EnoughFlushed ==
  ASSUME NEW os, NEW ns, Later(os, ns), NEW g, Bindings(g, os), Once(os),
         NEW i \in DOMAIN os, NEW k, Ordered(os, i, k), Flushed(os, ns, i, k),
         NEW x \in DOMAIN os, Enough(os, x)
  PROVE  Enough(ns, x)
<1>1. /\ Listed(os) /\ Listed(ns) /\ DOMAIN ns = DOMAIN os
      /\ Fields(os[x]) /\ Fields(ns[x]) /\ Fields(os[i])
  BY LaterIs DEF Later, Listed
<1>2. BoundTo(ns, x) \subseteq BoundTo(os, x)
  BY <1>1 DEF BoundTo, Flushed
<1>3. CASE x # os[i].exchange \/ k = 0
  <2>1. ns[x].binds = os[x].binds
    BY <1>1, <1>3 DEF Flushed, Fields
  <2>2. ns[x].binds >= os[x].binds
    BY <1>1, <2>1 DEF Fields
  <2>3. QED
    BY <1>1, <1>2, <2>2, FewerBound
<1>4. CASE x = os[i].exchange /\ k # 0
  <2>1. os[i].kind = "queue"
    <3>1. x # 0 \/ x = 0
      OBVIOUS
    <3>2. os[i].kind = "exchange" => x = 0
      BY <1>4 DEF Bindings
    <3>3. 0 \notin DOMAIN os
      BY <1>1 DEF Listed
    <3>4. QED
      BY <1>1, <3>2, <3>3 DEF Fields
  <2>2. k = 1 /\ ~os[i].destroyed
    BY <1>1, <1>4, <2>1 DEF Once, Ordered, Fields
  <2>3. i \in BoundTo(os, x) /\ BoundTo(ns, x) = BoundTo(os, x) \ {i}
    <3>1. i \in BoundTo(os, x)
      BY <1>4, <2>2 DEF BoundTo
    <3>2. k > 0
      BY <2>2
    <3>3. ns[i].destroyed
      BY <3>2 DEF Flushed
    <3>4. \A j \in DOMAIN os : ns[j].exchange = os[j].exchange /\ (j # i => ns[j].destroyed = os[j].destroyed)
      BY DEF Flushed
    <3>5. QED
      BY <1>1, <3>1, <3>3, <3>4 DEF BoundTo
  <2>4. /\ IsFiniteSet(BoundTo(os, x)) /\ Cardinality(BoundTo(os, x)) \in Nat
        /\ Cardinality(BoundTo(ns, x)) \in Nat
    BY <1>1, BoundFinite
  <2>5. Cardinality(BoundTo(ns, x)) = Cardinality(BoundTo(os, x)) - 1
    BY <2>3, <2>4, FS_RemoveElement
  <2>6. ns[x].binds = os[x].binds - 1
    BY <1>4, <2>2 DEF Flushed
  <2>7. QED
    BY <1>1, <2>4, <2>5, <2>6 DEF Enough, Fields
<1>5. QED
  BY <1>3, <1>4

\* The entry of the exchange goes with the last queue bound to it.
LEMMA ExchangesFlushed ==
  ASSUME NEW os, NEW ns, Later(os, ns), NEW g, Bindings(g, os), Once(os),
         \A x \in DOMAIN os : Enough(os, x),
         NEW i \in DOMAIN os, NEW k, Ordered(os, i, k), Flushed(os, ns, i, k),
         NEW xs, NEW ys, Left(os, i, k, xs, ys), ExchangesKept(g, os, xs),
         k > 0 /\ os[i].kind = "queue" => os[i].gen = g
  PROVE  ExchangesKept(g, ns, ys)
<1> SUFFICES ASSUME NEW j \in DOMAIN ns, BoundNow(g, ns, j)
             PROVE  Holds(ns, ys, ns[j].exchange)
  BY DEF ExchangesKept
<1> DEFINE y == os[j].exchange
           x == os[i].exchange
<1>1. /\ Listed(os) /\ Listed(ns) /\ DOMAIN ns = DOMAIN os /\ j \in DOMAIN os
      /\ Fields(os[i]) /\ Fields(os[j])
  BY LaterIs DEF Later, Listed
<1>2. ns[j].exchange = y /\ y # 0 /\ y \in DOMAIN os /\ os[y].kind = "exchange"
  BY <1>1 DEF BoundNow, Bindings, Flushed
<1>3. ns[y].name = os[y].name /\ Older(os[j], ns[j]) /\ Older(os[y], ns[y])
  BY <1>1, <1>2 DEF Flushed, Later
<1>4. NotEnded(ns, os[y].name)
  BY <1>2, <1>3 DEF BoundNow
<1>5. NotEnded(os, os[y].name)
  BY <1>4, EndedLater DEF Flushed
<1>6. BoundNow(g, os, j)
  BY <1>2, <1>3, <1>5 DEF BoundNow, Older
<1>7. Holds(os, xs, y)
  BY <1>1, <1>6 DEF ExchangesKept
<1>8. CASE k > 0 /\ os[i].kind = "exchange" /\ ys = Without(xs, os[i].name)
  <2>1. os[i].destroys + os[i].closes # 0
    BY <1>1, <1>8 DEF Ordered, Fields
  <2>2. os[i].name # os[y].name
    BY <1>5, <1>8, <2>1 DEF NotEnded
  <2>3. QED
    BY <1>2, <1>3, <1>7, <1>8, <2>2 DEF Holds, Without
<1>9. CASE /\ x # 0
           /\ \E e \in 1 .. k : os[x].binds - e = 0
           /\ ys = Without(xs, os[x].name)
  <2>1. ASSUME os[x].name = os[y].name
        PROVE  FALSE
    <3>1. os[i].kind = "queue"
      BY <1>1, <1>9 DEF Bindings, Fields
    <3>2. k > 0
      BY <1>9 DEF Ordered
    <3>3. k = 1 /\ ~os[i].destroyed
      BY <1>1, <3>1, <3>2 DEF Once, Ordered, Fields
    <3>4. x \in DOMAIN os /\ os[x].kind = "exchange" /\ os[x].gen \in os[i].gen .. g
      BY <1>9 DEF Bindings
    <3>5. os[i].gen = g /\ os[x].gen = g
      BY <1>1, <3>1, <3>2, <3>4 DEF Fields
    <3>6. NotEnded(os, os[x].name)
      BY <1>5, <2>1
    <3>7. BoundNow(g, os, i)
      BY <1>9, <3>3, <3>5, <3>6 DEF BoundNow
    <3>8. Holds(os, xs, x)
      BY <3>7 DEF ExchangesKept
    <3>9. x = y
      BY <1>7, <2>1, <3>8 DEF Holds
    <3>10. i # j
      BY <3>2 DEF Flushed, BoundNow
    <3>11. i \in BoundTo(os, x) /\ j \in BoundTo(os, x)
      BY <1>1, <1>6, <3>3, <3>9 DEF BoundTo, BoundNow
    <3>12. IsFiniteSet(BoundTo(os, x)) /\ Cardinality(BoundTo(os, x)) \in Nat
      BY <1>1, BoundFinite
    <3>13. Cardinality({i, j}) = 2
      <4>1. IsFiniteSet({j}) /\ Cardinality({j}) = 1
        BY FS_Singleton
      <4>2. Cardinality({j} \cup {i}) = 2
        <5>1. i \notin {j}
          BY <3>10
        <5>2. Cardinality({j} \cup {i}) = Cardinality({j}) + 1
          BY <4>1, <5>1, FS_AddElement
        <5>3. QED
          BY <4>1, <5>2
      <4>3. {j} \cup {i} = {i, j}
        OBVIOUS
      <4>4. QED
        BY <4>2, <4>3
    <3>14. 2 <= Cardinality(BoundTo(os, x))
      BY <3>11, <3>12, <3>13, FS_Subset
    <3>15. os[x].binds >= 2
      <4>1. os[x].binds \in Int
        BY <1>1, <3>4 DEF Listed, Fields
      <4>2. QED
        BY <3>4, <3>12, <3>14, <4>1 DEF Enough
    <3>16. os[x].binds = 1
      BY <1>9, <3>3, <3>15
    <3>17. QED
      BY <3>15, <3>16
  <2>2. QED
    BY <1>2, <1>3, <1>7, <1>9, <2>1 DEF Holds, Without
<1>10. CASE ys = xs
  BY <1>2, <1>3, <1>7, <1>10 DEF Holds
<1>11. QED
  BY <1>8, <1>9, <1>10 DEF Left

LEMMA ExchangePartFlushed ==
  ASSUME NEW os, NEW ns, Later(os, ns), NEW g, Bindings(g, os),
         NEW i \in DOMAIN os, NEW k, Ordered(os, i, k), Flushed(os, ns, i, k),
         NEW xs, NEW ys, Left(os, i, k, xs, ys),
         NEW stale, ExchangePart(g, os, xs, stale),
         ~stale /\ k > 0 /\ os[i].kind = "queue" => os[i].gen = g
  PROVE  ExchangePart(g, ns, ys, stale)
<1>1. DOMAIN ns = DOMAIN os
  BY LaterIs
<1>2. ASSUME Once(ns)
      PROVE  Once(os) /\ \A x \in DOMAIN ns : Enough(ns, x)
  <2>1. Once(os)
    BY <1>2, OnceBefore
  <2>2. QED
    BY <1>1, <2>1, EnoughFlushed DEF ExchangePart
<1>3. ASSUME Once(ns), ~stale
      PROVE  ExchangesKept(g, ns, ys)
  <2>1. Once(os)
    BY <1>3, OnceBefore
  <2>2. ExchangesKept(g, os, xs) /\ \A x \in DOMAIN os : Enough(os, x)
    BY <1>3, <2>1 DEF ExchangePart
  <2>3. k > 0 /\ os[i].kind = "queue" => os[i].gen = g
    BY <1>3
  <2>4. QED
    BY <2>1, <2>2, <2>3, ExchangesFlushed
<1>4. QED
  BY <1>2, <1>3 DEF ExchangePart

\* A queue that is destroyed goes out of use with its entry.
LEMMA QueuesFlushed ==
  ASSUME NEW os, NEW ns, Later(os, ns), NEW g, NEW D, NEW qs, QueuesKept(g, os, D, qs),
         NEW i \in DOMAIN os, NEW k, Ordered(os, i, k), Flushed(os, ns, i, k), k > 0,
         os[i].gen = g, os[i].closes = 0 => os[i].channel \in D, os[i].kind = "queue"
  PROVE  QueuesKept(g, ns, D, Without(qs, os[i].name))
<1>1. \A j \in DOMAIN os : ns[j].name = os[j].name
  BY DEF Flushed
<1>2. ~InUse(g, ns, D, i)
  BY DEF InUse, Flushed
<1>3. ASSUME ~Lost(ns, os[i].name, Len(ns))
      PROVE  InUse(g, os, D, i)
  <2>1. /\ i \in 1 .. Len(ns) /\ ns[i].name = os[i].name
        /\ ns[i].destroys = os[i].destroys /\ ns[i].closes = os[i].closes
    BY LaterIs DEF Flushed
  <2>2. ~(os[i].destroys + os[i].closes > 1)
    BY <1>3, <2>1 DEF Lost
  <2>3. Fields(os[i])
    BY DEF Later, Listed
  <2>4. os[i].closes = 0 /\ ~os[i].destroyed
    BY <2>2, <2>3 DEF Ordered, Fields
  <2>5. QED
    BY <2>4 DEF InUse
<1>4. QED
  BY <1>1, <1>2, <1>3, QueueRemoved

-----------------------------------------------------------------------------
(* The entries, the objects, and the answers they await                    *)

\* Entry n may lead to object i.
EntryAt(g, os, kd, n, i) ==
  /\ i \in DOMAIN os /\ os[i].kind = kd /\ os[i].gen = g
  /\ n # "" \/ kd = "exchange" =>
       /\ os[i].name = n /\ ~os[i].destroyed
       /\ os[i].state = "closed" => os[i].refused

Entries(g, os, f, kd) == \A n \in DOMAIN f : EntryAt(g, os, kd, n, f[n])

SoundAt(g, os, D, i) ==
  /\ os[i].kind = "exchange" => os[i].name \in ExchangeNames \cup {DefaultName}
  /\ os[i].kind = "queue" => os[i].name \in QueueNames \cup ServerNames
  /\ Ordered(os, i, Destroys(os[i].todo))
  /\ os[i].gen <= g
  /\ os[i].gen = g /\ os[i].closes = 0 => os[i].channel \in D
  /\ os[i].kind = "queue" /\ os[i].state = "open" => os[i].name # ""

Sound(g, os, D) == Bindings(g, os) /\ \A i \in DOMAIN os : SoundAt(g, os, D, i)

\* The name a declare of object i is answered with: a new one when it has none.
NameFor(os, i, n) ==
  \/ os[i].name # "" /\ n = os[i].name
  \/ /\ os[i].name = "" /\ os[i].kind = "queue" /\ n \in ServerNames
     /\ \A j \in DOMAIN os : os[j].kind = "queue" => os[j].name # n

\* Object i awaits the answer x.
Awaits(os, i, x) ==
  /\ i \in DOMAIN os /\ os[i].channel = x.channel
  /\ Answer(x) => os[i].state # "open" /\ ~os[i].destroyed
  /\ x.m = "channelCloseOk" => os[i].closes > 0
  /\ x.m = "declareOk" => NameFor(os, i, x.name)

Anonymous(os, chs, x) == x.m = "declareOk" /\ os[chs[x.channel]].name = ""

Expected(os, chs, q) ==
  /\ \A x \in q : x.channel \in DOMAIN chs /\ Awaits(os, chs[x.channel], x)
  /\ \A x, y \in q :
       Anonymous(os, chs, x) /\ Anonymous(os, chs, y) /\ x.channel # y.channel => x.name # y.name

\* All of it: q, the answers on their way; k, kicked; stale, an object of an
\* earlier connection was used.
Tabled(g, os, chs, qs, xs, k, q, stale) ==
  /\ Listed(os)
  /\ Sound(g, os, DOMAIN chs)
  /\ Expected(os, chs, q)
  /\ Entries(g, os, qs, "queue") /\ Entries(g, os, xs, "exchange")
  /\ QueuePart(g, os, DOMAIN chs, qs, k, q)
  /\ ExchangePart(g, os, xs, stale)

\* A table with some of the entries of f.
Some(f, h) == \A n \in DOMAIN h : n \in DOMAIN f /\ h[n] = f[n]

LEMMA WithoutIs ==
  ASSUME NEW f, NEW n
  PROVE  Some(f, Without(f, n)) /\ n \notin DOMAIN Without(f, n) /\ Some(f, f)
BY DEF Some, Without

LEMMA EntriesFlushed ==
  ASSUME NEW os, NEW ns, Later(os, ns), NEW g, NEW f, NEW kd, Entries(g, os, f, kd),
         NEW i \in DOMAIN os, NEW k \in Nat, Flushed(os, ns, i, k),
         NEW h, Some(f, h), k > 0 /\ os[i].kind = kd => os[i].name \notin DOMAIN h
  PROVE  Entries(g, ns, h, kd)
<1> SUFFICES ASSUME NEW n \in DOMAIN h PROVE EntryAt(g, ns, kd, n, h[n])
  BY DEF Entries
<1> DEFINE e == f[n]
<1>1. n \in DOMAIN f /\ h[n] = e
  BY DEF Some
<1>2. EntryAt(g, os, kd, n, e)
  BY <1>1 DEF Entries
<1>3. e \in DOMAIN os /\ e \in DOMAIN ns /\ Older(os[e], ns[e])
  BY <1>2, LaterIs DEF EntryAt, Later
<1>4. /\ ns[e].name = os[e].name /\ ns[e].state = os[e].state /\ ns[e].refused = os[e].refused
      /\ e # i => ns[e].destroyed = os[e].destroyed
  BY <1>3 DEF Flushed
<1>5. CASE e # i
  BY <1>1, <1>2, <1>3, <1>4, <1>5 DEF EntryAt, Older
<1>6. CASE e = i
  <2>1. CASE k > 0
    <3>1. os[i].name \notin DOMAIN h
      BY <1>2, <1>6, <2>1 DEF EntryAt
    <3>2. ~(n # "" \/ kd = "exchange")
      BY <1>2, <1>6, <3>1 DEF EntryAt
    <3>3. QED
      BY <1>1, <1>2, <1>3, <3>2 DEF EntryAt, Older
  <2>2. CASE ~(k > 0)
    <3>1. ns[e].destroyed = os[e].destroyed
      <4>1. ns[i].destroyed <=> os[i].destroyed
        BY <2>2 DEF Flushed
      <4>2. Fields(ns[i]) /\ Fields(os[i])
        BY LaterIs DEF Later, Listed
      <4>3. QED
        BY <1>6, <4>1, <4>2 DEF Fields
    <3>2. QED
      BY <1>1, <1>2, <1>3, <1>4, <3>1 DEF EntryAt, Older
  <2>3. QED
    BY <2>1, <2>2
<1>7. QED
  BY <1>5, <1>6

LEMMA NoDestroys == Destroys(<<>>) = 0
<1>1. {k \in DOMAIN <<>> : <<>>[k] = "destroy"} = {}
  OBVIOUS
<1>2. QED
  BY <1>1, FS_EmptySet DEF Destroys

LEMMA SoundFlushed ==
  ASSUME NEW os, NEW ns, Later(os, ns), NEW g, NEW D, Sound(g, os, D),
         NEW i \in DOMAIN os, Flushed(os, ns, i, Destroys(os[i].todo))
  PROVE  Sound(g, ns, D)
<1> DEFINE k == Destroys(os[i].todo)
<1>1. DOMAIN ns = DOMAIN os /\ \A j \in DOMAIN os : Older(os[j], ns[j])
  BY LaterIs DEF Later
<1>2. Bindings(g, ns)
  <2>1. \A j \in DOMAIN os : ns[j].exchange = os[j].exchange /\ ns[j].kind = os[j].kind /\ ns[j].gen = os[j].gen
    BY <1>1 DEF Flushed, Older
  <2>2. Bindings(g, os)
    BY DEF Sound
  <2>3. QED
    BY <1>1, <2>1, <2>2 DEF Bindings
<1>3. ASSUME NEW j \in DOMAIN ns
      PROVE  SoundAt(g, ns, D, j)
  <2>1. /\ SoundAt(g, os, D, j) /\ SoundAt(g, os, D, i) /\ Older(os[j], ns[j]) /\ j \in DOMAIN os
        /\ Fields(os[i])
    BY <1>1 DEF Sound, Later, Listed
  <2>2. Ordered(ns, j, Destroys(ns[j].todo))
    <3>1. CASE j # i
      <4>1. ns[j].todo = os[j].todo /\ ns[j].destroyed = os[j].destroyed /\ ns[j].destroys = os[j].destroys
        BY <2>1, <3>1 DEF Flushed
      <4>2. QED
        BY <2>1, <4>1 DEF SoundAt, Ordered
    <3>2. CASE j = i
      <4>1. Destroys(ns[i].todo) = 0
        BY NoDestroys DEF Flushed
      <4>2. k \in Nat /\ k <= os[i].destroys /\ (os[i].destroyed => k < os[i].destroys)
        BY <2>1 DEF SoundAt, Ordered
      <4>3. ns[i].destroys = os[i].destroys /\ os[i].destroys \in Nat
        BY <2>1 DEF Flushed, Fields
      <4>4. ns[i].destroyed => os[i].destroyed \/ k > 0
        BY DEF Flushed
      <4>5. ns[i].destroyed => 0 < os[i].destroys
        BY <4>2, <4>3, <4>4
      <4>6. QED
        BY <3>2, <4>1, <4>3, <4>5 DEF Ordered
    <3>3. QED
      BY <3>1, <3>2
  <2>3. /\ ns[j].name = os[j].name /\ ns[j].closes = os[j].closes /\ ns[j].state = os[j].state
        /\ ns[j].kind = os[j].kind
    BY <2>1 DEF Flushed, Older
  <2>4. QED
    BY <2>1, <2>2, <2>3 DEF SoundAt, Older
<1>4. QED
  BY <1>2, <1>3 DEF Sound

\* Objects that keep their names go on awaiting the answers.
LEMMA ExpectedKept ==
  ASSUME NEW os, NEW ns, Later(os, ns), NEW chs, NEW q, Expected(os, chs, q),
         \A j \in DOMAIN os : ns[j].name = os[j].name,
         NEW i \in DOMAIN os,
         \A j \in DOMAIN os : j # i => ns[j].state = os[j].state /\ ns[j].destroyed = os[j].destroyed,
         NEW p \in SUBSET q,
         \/ ns[i].state = os[i].state /\ (os[i].state = "open" \/ ns[i].destroyed = os[i].destroyed)
         \/ ns[i].state # "open" /\ ns[i].destroyed = os[i].destroyed
         \/ \A x \in p : x.channel = os[i].channel => ~Answer(x)
  PROVE  Expected(ns, chs, p)
<1>1. DOMAIN ns = DOMAIN os
  BY LaterIs
<1>2. ASSUME NEW x \in p
      PROVE  x.channel \in DOMAIN chs /\ Awaits(ns, chs[x.channel], x) /\ chs[x.channel] \in DOMAIN os
  <2> DEFINE e == chs[x.channel]
  <2>1. x.channel \in DOMAIN chs /\ Awaits(os, e, x)
    BY DEF Expected
  <2>2. e \in DOMAIN os /\ os[e].channel = x.channel /\ Older(os[e], ns[e]) /\ ns[e].name = os[e].name
        /\ Fields(os[e]) /\ Fields(ns[e])
    BY <1>1, <2>1 DEF Awaits, Later, Listed
  <2>3. Answer(x) => ns[e].state # "open" /\ ~ns[e].destroyed
    <3>1. CASE e # i
      BY <2>1, <2>2, <3>1 DEF Awaits
    <3>2. CASE e = i
      BY <2>1, <2>2, <3>2 DEF Awaits
    <3>3. QED
      BY <3>1, <3>2
  <2>4. x.m = "channelCloseOk" => ns[e].closes > 0
    <3>1. ns[e].closes >= os[e].closes /\ ns[e].closes \in Nat /\ os[e].closes \in Nat
      BY <2>2 DEF Older, Fields
    <3>2. x.m = "channelCloseOk" => os[e].closes > 0
      BY <2>1 DEF Awaits
    <3>3. QED
      BY <3>1, <3>2
  <2>5. x.m = "declareOk" => NameFor(ns, e, x.name)
    <3>1. \A j \in DOMAIN os : ns[j].kind = os[j].kind
      BY DEF Later, Older
    <3>2. x.m = "declareOk" => NameFor(os, e, x.name)
      BY <2>1 DEF Awaits
    <3>3. QED
      BY <1>1, <2>2, <3>1, <3>2 DEF NameFor
  <2>6. ns[e].channel = x.channel
    BY <2>2 DEF Older
  <2>7. QED
    BY <1>1, <2>1, <2>2, <2>3, <2>4, <2>5, <2>6 DEF Awaits
<1>3. ASSUME NEW x \in p, NEW y \in p, Anonymous(ns, chs, x), Anonymous(ns, chs, y), x.channel # y.channel
      PROVE  x.name # y.name
  <2>1. Anonymous(os, chs, x) /\ Anonymous(os, chs, y)
    BY <1>2, <1>3 DEF Anonymous
  <2>2. QED
    BY <1>3, <2>1 DEF Expected
<1>4. QED
  BY <1>2, <1>3 DEF Expected

-----------------------------------------------------------------------------
(* Steps of the whole                                                      *)

\* What a flush leaves in the table of exchanges.
Gone(os, i, k, xs, ys) ==
  ys = IF k > 0 /\ os[i].kind = "exchange" THEN Without(xs, os[i].name)
       ELSE IF os[i].exchange # 0 /\ \E j \in 1 .. k : os[os[i].exchange].binds - j = 0
            THEN Without(xs, os[os[i].exchange].name) ELSE xs

LEMMA GoneIs ==
  ASSUME NEW os, NEW i, NEW k, NEW xs, NEW ys, Gone(os, i, k, xs, ys)
  PROVE  /\ Left(os, i, k, xs, ys) /\ Some(xs, ys)
         /\ k > 0 /\ os[i].kind = "exchange" => os[i].name \notin DOMAIN ys
<1>1. CASE k > 0 /\ os[i].kind = "exchange"
  <2>1. ys = Without(xs, os[i].name)
    BY <1>1 DEF Gone
  <2>2. QED
    BY <1>1, <2>1, WithoutIs DEF Left
<1>2. CASE ~(k > 0 /\ os[i].kind = "exchange")
  <2>1. CASE os[i].exchange # 0 /\ \E j \in 1 .. k : os[os[i].exchange].binds - j = 0
    <3>1. ys = Without(xs, os[os[i].exchange].name)
      BY <1>2, <2>1 DEF Gone
    <3>2. QED
      BY <1>2, <2>1, <3>1, WithoutIs DEF Left
  <2>2. CASE ~(os[i].exchange # 0 /\ \E j \in 1 .. k : os[os[i].exchange].binds - j = 0)
    <3>1. ys = xs
      BY <1>2, <2>2 DEF Gone
    <3>2. QED
      BY <1>2, <3>1, WithoutIs DEF Left
  <2>3. QED
    BY <2>1, <2>2
<1>3. QED
  BY <1>1, <1>2

\* A flush of object i, as a step of the objects and the tables.
FlushOf(os, ns, i, qs, rs, xs, ys) ==
  LET d == Destroys(os[i].todo)
  IN /\ i \in DOMAIN os /\ os[i].state = "open" /\ Later(os, ns) /\ Flushed(os, ns, i, d)
     /\ rs = (IF d > 0 /\ os[i].kind = "queue" THEN Without(qs, os[i].name) ELSE qs)
     /\ Gone(os, i, d, xs, ys)

LEMMA TabledFlush ==
  ASSUME NEW os, NEW ns, NEW g, NEW chs, NEW qs, NEW xs, NEW k, NEW q, NEW stale,
         Tabled(g, os, chs, qs, xs, k, q, stale),
         NEW i, NEW rs, NEW ys, FlushOf(os, ns, i, qs, rs, xs, ys),
         NEW l, k => l, l \/ os[i].gen = g, NEW p \in SUBSET q,
         stale \/ os[i].kind # "queue" \/ os[i].gen = g
  PROVE  Tabled(g, ns, chs, rs, ys, l, p, stale)
<1> DEFINE d == Destroys(os[i].todo)
<1>1. /\ i \in DOMAIN os /\ os[i].state = "open" /\ Later(os, ns) /\ Flushed(os, ns, i, d)
      /\ rs = (IF d > 0 /\ os[i].kind = "queue" THEN Without(qs, os[i].name) ELSE qs)
      /\ Gone(os, i, d, xs, ys)
  BY DEF FlushOf
<1>2. d = Destroys(os[i].todo)
  OBVIOUS
<1> HIDE DEF d
<1> DEFINE D == DOMAIN chs
<1>3. /\ Listed(os) /\ Sound(g, os, D) /\ Expected(os, chs, q)
      /\ Entries(g, os, qs, "queue") /\ Entries(g, os, xs, "exchange")
      /\ QueuePart(g, os, D, qs, k, q)
      /\ ExchangePart(g, os, xs, stale) /\ Bindings(g, os)
  BY <1>1 DEF Tabled, Sound
<1>4. Ordered(os, i, d) /\ (os[i].gen = g /\ os[i].closes = 0 => os[i].channel \in D)
  BY <1>1, <1>2, <1>3 DEF Sound, SoundAt
<1>5. d \in Nat
  BY <1>1, <1>4 DEF Ordered
<1>6. Listed(ns) /\ Sound(g, ns, D)
  BY <1>1, <1>2, <1>3, SoundFlushed DEF Later
<1>7. \A j \in DOMAIN os : ns[j].name = os[j].name /\ ns[j].state = os[j].state
  BY <1>1 DEF Flushed
<1>8. Expected(ns, chs, p)
  <2>1. \A j \in DOMAIN os : j # i => ns[j].state = os[j].state /\ ns[j].destroyed = os[j].destroyed
    BY <1>1 DEF Flushed
  <2>2. ns[i].state = os[i].state
    BY <1>1, <1>7
  <2>3. QED
    BY <1>1, <1>3, <1>7, <2>1, <2>2, ExpectedKept
<1>9. Some(qs, rs) /\ (d > 0 /\ os[i].kind = "queue" => os[i].name \notin DOMAIN rs)
  BY <1>1, WithoutIs
<1>10. Entries(g, ns, rs, "queue")
  BY <1>1, <1>3, <1>5, <1>9, EntriesFlushed
<1>11. /\ Left(os, i, d, xs, ys) /\ Some(xs, ys)
       /\ d > 0 /\ os[i].kind = "exchange" => os[i].name \notin DOMAIN ys
  BY <1>1, GoneIs
<1>12. Entries(g, ns, ys, "exchange")
  BY <1>1, <1>3, <1>5, <1>11, EntriesFlushed
<1>13. ExchangePart(g, ns, ys, stale)
  BY <1>1, <1>3, <1>4, <1>11, ExchangePartFlushed
<1>14. ASSUME ~l
       PROVE  QueuesKept(g, ns, D, rs)
  <2>1. QueuesKept(g, os, D, qs)
    BY <1>1, <1>3, <1>14 DEF QueuePart
  <2>2. CASE d > 0 /\ os[i].kind = "queue"
    <3>1. rs = Without(qs, os[i].name) /\ os[i].gen = g
      BY <1>1, <1>14, <2>2
    <3>2. os[i].closes = 0 => os[i].channel \in D
      BY <1>1, <1>4, <3>1
    <3>3. QED
      BY <1>1, <1>4, <2>1, <2>2, <3>1, <3>2, QueuesFlushed
  <2>3. CASE ~(d > 0 /\ os[i].kind = "queue")
    <3>1. rs = qs
      BY <1>1, <2>3
    <3>2. QED
      BY <1>1, <1>7, <2>1, <3>1, QueuesQuiet
  <2>4. QED
    BY <1>1, <2>2, <2>3
<1>15. OneInUse(g, ns, D, l, p)
  <2>1. OneInUse(g, os, D, k, q)
    BY <1>1, <1>3 DEF QueuePart
  <2>2. \A j \in DOMAIN os : ns[j].channel = os[j].channel
    BY <1>1 DEF Later, Older
  <2>3. ToldLess(g, os, ns, D, k, p, q)
    BY <1>1, <1>7, <2>2 DEF ToldLess, Told
  <2>4. QED
    BY <1>1, <1>7, <2>1, <2>3, TwinsQuiet
<1>16. QED
  BY <1>1, <1>6, <1>8, <1>10, <1>12, <1>13, <1>14, <1>15 DEF Tabled, QueuePart

\* Object i changes its state or gets a task, and no table changes.
Quiet(os, ns, i, p) ==
  /\ \A j \in DOMAIN os :
       /\ ns[j].name = os[j].name /\ ns[j].exchange = os[j].exchange /\ ns[j].binds = os[j].binds
       /\ ns[j].destroyed = os[j].destroyed
       /\ j # i => ns[j].state = os[j].state /\ ns[j].todo = os[j].todo
                   /\ ns[j].refused = os[j].refused /\ ns[j].destroys = os[j].destroys
  /\ Ordered(os, i, Destroys(os[i].todo)) => Ordered(ns, i, Destroys(ns[i].todo))
  /\ os[i].refused => ns[i].refused
  /\ ns[i].state = "closed" => os[i].state = "closed" \/ ns[i].refused
  /\ ns[i].state = "open" => os[i].state = "open" \/ os[i].kind = "exchange"
  /\ \/ ns[i].state = os[i].state \/ ns[i].state # "open"
     \/ \A x \in p : x.channel = os[i].channel => ~Answer(x)

LEMMA TabledQuiet ==
  ASSUME NEW os, NEW ns, NEW g, NEW chs, NEW qs, NEW xs, NEW k, NEW q, NEW stale,
         Tabled(g, os, chs, qs, xs, k, q, stale),
         Later(os, ns), NEW i \in DOMAIN os, NEW p \in SUBSET q, Quiet(os, ns, i, p),
         NEW l, k => l, NEW stale2, stale => stale2
  PROVE  Tabled(g, ns, chs, qs, xs, l, p, stale2)
<1> DEFINE D == DOMAIN chs
<1>1. /\ Listed(os) /\ Sound(g, os, D) /\ Expected(os, chs, q)
      /\ Entries(g, os, qs, "queue") /\ Entries(g, os, xs, "exchange")
      /\ QueuePart(g, os, D, qs, k, q)
      /\ ExchangePart(g, os, xs, stale) /\ Bindings(g, os)
  BY DEF Tabled, Sound
<1>2. DOMAIN ns = DOMAIN os /\ Listed(ns)
  BY LaterIs DEF Later
<1>3. \A j \in DOMAIN os :
        /\ ns[j].name = os[j].name /\ ns[j].exchange = os[j].exchange /\ ns[j].binds = os[j].binds
        /\ ns[j].destroyed = os[j].destroyed
        /\ j # i => ns[j].state = os[j].state /\ ns[j].todo = os[j].todo
                    /\ ns[j].refused = os[j].refused /\ ns[j].destroys = os[j].destroys
  BY DEF Quiet
<1>4. \A j \in DOMAIN os : Older(os[j], ns[j])
  BY DEF Later
<1>5. Sound(g, ns, D)
  <2>1. Bindings(g, ns)
    BY <1>1, <1>2, <1>3, <1>4 DEF Bindings, Older
  <2>2. ASSUME NEW j \in DOMAIN ns
        PROVE  SoundAt(g, ns, D, j)
    <3>1. /\ SoundAt(g, os, D, j) /\ Older(os[j], ns[j]) /\ ns[j].name = os[j].name
          /\ Fields(os[j]) /\ Fields(ns[j])
      BY <1>1, <1>2, <1>3, <1>4 DEF Sound, Listed
    <3>2. Ordered(ns, j, Destroys(ns[j].todo))
      <4>1. CASE j # i
        <5>1. ns[j].todo = os[j].todo /\ ns[j].destroyed = os[j].destroyed /\ ns[j].destroys = os[j].destroys
          BY <1>2, <1>3, <4>1
        <5>2. QED
          BY <3>1, <5>1 DEF SoundAt, Ordered
      <4>2. CASE j = i
        BY <3>1, <4>2 DEF SoundAt, Quiet
      <4>3. QED
        BY <4>1, <4>2
    <3>3. ns[j].closes = 0 => os[j].closes = 0
      BY <3>1 DEF Older, Fields
    <3>4. ns[j].kind = "queue" /\ ns[j].state = "open" => ns[j].name # ""
      <4>1. ns[j].kind = "queue" => os[j].kind = "queue" /\ os[j].kind # "exchange"
        BY <3>1 DEF Older
      <4>2. ns[j].kind = "queue" /\ ns[j].state = "open" => os[j].state = "open"
        <5>1. CASE j = i
          BY <4>1, <5>1 DEF Quiet
        <5>2. CASE j # i
          BY <1>2, <1>3, <5>2
        <5>3. QED
          BY <5>1, <5>2
      <4>3. QED
        BY <1>3, <3>1, <4>1, <4>2 DEF SoundAt
    <3>5. QED
      BY <3>1, <3>2, <3>3, <3>4 DEF SoundAt, Older
  <2>3. QED
    BY <2>1, <2>2 DEF Sound
<1>6. Expected(ns, chs, p)
  <2>1. \/ ns[i].state = os[i].state /\ ns[i].destroyed = os[i].destroyed
        \/ ns[i].state # "open" /\ ns[i].destroyed = os[i].destroyed
        \/ \A x \in p : x.channel = os[i].channel => ~Answer(x)
    BY <1>3 DEF Quiet
  <2>2. QED
    BY <1>1, <1>3, <2>1, ExpectedKept
<1>7. ASSUME NEW f, NEW kd, Entries(g, os, f, kd)
      PROVE  Entries(g, ns, f, kd)
  <2> SUFFICES ASSUME NEW n \in DOMAIN f PROVE EntryAt(g, ns, kd, n, f[n])
    BY DEF Entries
  <2> DEFINE e == f[n]
  <2>1. EntryAt(g, os, kd, n, e)
    BY <1>7 DEF Entries
  <2>2. e \in DOMAIN os /\ Older(os[e], ns[e]) /\ ns[e].name = os[e].name /\ ns[e].destroyed = os[e].destroyed
    BY <1>3, <1>4, <2>1 DEF EntryAt
  <2>3. (os[e].state = "closed" => os[e].refused) => (ns[e].state = "closed" => ns[e].refused)
    <3>1. CASE e # i
      BY <1>3, <2>2, <3>1
    <3>2. CASE e = i
      BY <3>2 DEF Quiet
    <3>3. QED
      BY <3>1, <3>2
  <2>4. QED
    BY <1>2, <2>1, <2>2, <2>3 DEF EntryAt, Older
<1>8. ExchangePart(g, ns, xs, stale2)
  BY <1>1, <1>3, ExchangePartQuiet
<1>9. ASSUME ~l
      PROVE  QueuesKept(g, ns, D, qs)
  BY <1>1, <1>3, <1>9, QueuesQuiet DEF QueuePart
<1>10. OneInUse(g, ns, D, l, p)
  <2>1. OneInUse(g, os, D, k, q)
    BY <1>1 DEF QueuePart
  <2>2. ASSUME NEW j \in DOMAIN os, InUse(g, ns, D, j), Told(ns, p, j)
        PROVE  Told(os, q, j)
    <3>1. ns[j].channel = os[j].channel /\ os[j].kind = "queue"
      BY <1>4, <2>2 DEF Older, InUse
    <3>2. ns[j].state = "open" => os[j].state = "open"
      BY <1>3, <3>1 DEF Quiet
    <3>3. QED
      BY <2>2, <3>1, <3>2 DEF Told
  <2>3. ToldLess(g, os, ns, D, k, p, q)
    BY <2>2 DEF ToldLess
  <2>4. QED
    BY <1>3, <2>1, <2>3, TwinsQuiet
<1>11. QED
  BY <1>1, <1>2, <1>5, <1>6, <1>7, <1>8, <1>9, <1>10 DEF Tabled, QueuePart

LEMMA LaterSelf ==
  ASSUME NEW os, Listed(os)
  PROVE  Later(os, os)
BY DEF Later, Listed, Older, Fields

\* Answers are lost, or the broker says something else.
LEMMA TabledLess ==
  ASSUME NEW os, NEW g, NEW chs, NEW qs, NEW xs, NEW k, NEW q, NEW stale,
         Tabled(g, os, chs, qs, xs, k, q, stale),
         NEW p \in SUBSET q, NEW l, k => l, NEW stale2, stale => stale2
  PROVE  Tabled(g, os, chs, qs, xs, l, p, stale2)
<1> DEFINE D == DOMAIN chs
<1>1. /\ Listed(os) /\ Sound(g, os, D) /\ Expected(os, chs, q)
      /\ Entries(g, os, qs, "queue") /\ Entries(g, os, xs, "exchange")
      /\ QueuePart(g, os, D, qs, k, q)
      /\ ExchangePart(g, os, xs, stale)
  BY DEF Tabled
<1>2. Expected(os, chs, p)
  BY <1>1 DEF Expected
<1>3. Later(os, os)
  BY <1>1, LaterSelf
<1>4. OneInUse(g, os, D, l, p)
  <2>1. ToldLess(g, os, os, D, k, p, q)
    BY DEF ToldLess, Told
  <2>2. OneInUse(g, os, D, k, q) /\ D \in SUBSET D
    BY <1>1 DEF QueuePart
  <2>3. QED
    BY <1>3, <2>1, <2>2, TwinsQuiet
<1>5. QueuePart(g, os, D, qs, l, p)
  BY <1>1, <1>4 DEF QueuePart
<1>6. ExchangePart(g, os, xs, stale2)
  BY <1>1 DEF ExchangePart
<1>7. QED
  BY <1>1, <1>2, <1>5, <1>6 DEF Tabled

\* An answer more, with a name that nobody else has been given.
LEMMA TabledAnswer ==
  ASSUME NEW os, NEW g, NEW chs, NEW qs, NEW xs, NEW k, NEW q, NEW stale,
         Tabled(g, os, chs, qs, xs, k, q, stale),
         NEW x, x.channel \in DOMAIN chs, Awaits(os, chs[x.channel], x),
         x.m = "declareOk" => ~k,
         x.m = "declareOk" => \A y \in q : y.name # x.name \/ os[chs[x.channel]].name # "",
         NEW p \in SUBSET (q \cup {x})
  PROVE  Tabled(g, os, chs, qs, xs, k, p, stale)
<1> DEFINE D == DOMAIN chs
<1>1. /\ Listed(os) /\ Sound(g, os, D) /\ Expected(os, chs, q)
      /\ Entries(g, os, qs, "queue") /\ Entries(g, os, xs, "exchange")
      /\ QueuePart(g, os, D, qs, k, q)
      /\ ExchangePart(g, os, xs, stale)
  BY DEF Tabled
<1>2. \A y \in p : y.channel \in D /\ Awaits(os, chs[y.channel], y)
  BY <1>1 DEF Expected
<1>3. ASSUME NEW y \in p, NEW z \in p, Anonymous(os, chs, y), Anonymous(os, chs, z), y.channel # z.channel
      PROVE  y.name # z.name
  <2>1. CASE y \in q /\ z \in q
    BY <1>1, <1>3, <2>1 DEF Expected
  <2>2. CASE y = x /\ z \in q
    BY <1>3, <2>2 DEF Anonymous
  <2>3. CASE z = x /\ y \in q
    BY <1>3, <2>3 DEF Anonymous
  <2>4. CASE y = x /\ z = x
    BY <1>3, <2>4
  <2>5. QED
    BY <2>1, <2>2, <2>3, <2>4
<1>4. Expected(os, chs, p)
  BY <1>2, <1>3 DEF Expected
<1>5. OneInUse(g, os, D, k, p)
  <2>1. Later(os, os)
    BY <1>1, LaterSelf
  <2>2. ToldLess(g, os, os, D, k, p, q)
    BY DEF ToldLess, Told
  <2>3. OneInUse(g, os, D, k, q) /\ D \in SUBSET D
    BY <1>1 DEF QueuePart
  <2>4. QED
    BY <2>1, <2>2, <2>3, TwinsQuiet
<1>6. QED
  BY <1>1, <1>4, <1>5 DEF Tabled, QueuePart

\* A new object o, of channel c.
NewOne(g, o, c) ==
  /\ o.gen = g /\ o.channel = c /\ o.state = "new" /\ ~o.destroyed
  /\ o.exchange = 0 /\ o.binds = 0 /\ o.destroys = 0 /\ o.closes = 0
  /\ Destroys(o.todo) = 0
  /\ o.kind = "exchange" => o.name \in ExchangeNames \cup {DefaultName}
  /\ o.kind = "queue" => o.name \in QueueNames

LEMMA ExpectedMore ==
  ASSUME NEW os, NEW ns, NEW o, More(os, ns, o), NEW g, NEW c, NewOne(g, o, c),
         QueueNames \cap ServerNames = {},
         NEW chs, c \notin DOMAIN chs, NEW q, Expected(os, chs, q),
         NEW p, \A y \in p : y \in q \/ (y.m = "channelOpenOk" /\ y.channel = c)
  PROVE  Expected(ns, With(chs, c, Len(ns)), p)
<1> DEFINE l == Len(ns)
           fs == With(chs, c, l)
<1>1. /\ DOMAIN ns = DOMAIN os \cup {l} /\ ns[l] = o /\ \A i \in DOMAIN os : ns[i] = os[i]
  BY MoreIs DEF More
<1>2. DOMAIN fs = DOMAIN chs \cup {c} /\ fs[c] = l /\ \A y \in DOMAIN chs : fs[y] = chs[y]
  BY DEF With
<1> HIDE DEF l, fs
<1>3. ASSUME NEW y \in q
      PROVE  /\ y.channel \in DOMAIN chs /\ fs[y.channel] = chs[y.channel] /\ chs[y.channel] \in DOMAIN os
             /\ Awaits(ns, fs[y.channel], y)
  <2> DEFINE e == chs[y.channel]
  <2>1. y.channel \in DOMAIN chs /\ Awaits(os, e, y)
    BY DEF Expected
  <2>2. fs[y.channel] = e /\ e \in DOMAIN os /\ ns[e] = os[e]
    BY <1>1, <1>2, <2>1 DEF Awaits
  <2>3. y.m = "declareOk" => NameFor(ns, e, y.name)
    <3>1. y.m = "declareOk" => NameFor(os, e, y.name)
      BY <2>1 DEF Awaits
    <3>2. y.name \in ServerNames /\ o.kind = "queue" => o.name # y.name
      BY DEF NewOne
    <3>3. QED
      BY <1>1, <2>2, <3>1, <3>2 DEF NameFor
  <2>4. QED
    BY <1>1, <2>1, <2>2, <2>3 DEF Awaits
<1>4. ASSUME NEW y \in p, y \notin q
      PROVE  y.channel \in DOMAIN fs /\ Awaits(ns, fs[y.channel], y) /\ y.m # "declareOk"
  <2>1. y.m = "channelOpenOk" /\ y.channel = c
    BY <1>4
  <2>2. QED
    BY <1>1, <1>2, <2>1 DEF Awaits, NewOne
<1>5. ASSUME NEW y \in p, NEW z \in p, Anonymous(ns, fs, y), Anonymous(ns, fs, z), y.channel # z.channel
      PROVE  y.name # z.name
  <2>1. y \in q /\ z \in q
    BY <1>4, <1>5 DEF Anonymous
  <2>2. Anonymous(os, chs, y) /\ Anonymous(os, chs, z)
    BY <1>1, <1>3, <1>5, <2>1 DEF Anonymous
  <2>3. QED
    BY <1>5, <2>1, <2>2 DEF Expected
<1>6. \A y \in p : y.channel \in DOMAIN fs /\ Awaits(ns, fs[y.channel], y)
  BY <1>2, <1>3, <1>4
<1>7. Expected(ns, fs, p)
  BY <1>5, <1>6 DEF Expected
<1>8. QED
  BY <1>7 DEF fs, l

LEMMA SoundMore ==
  ASSUME NEW os, NEW ns, NEW o, More(os, ns, o), NEW g \in Nat, NEW c, NewOne(g, o, c),
         NEW D, Sound(g, os, D)
  PROVE  Sound(g, ns, D \cup {c})
<1>1. /\ DOMAIN ns = DOMAIN os \cup {Len(ns)} /\ ns[Len(ns)] = o /\ \A i \in DOMAIN os : ns[i] = os[i]
  BY MoreIs DEF More
<1>2. Bindings(g, ns)
  <2>1. Bindings(g, os)
    BY DEF Sound
  <2> SUFFICES ASSUME NEW i \in DOMAIN ns
               PROVE  /\ ns[i].kind = "exchange" => ns[i].exchange = 0
                      /\ ns[i].exchange # 0 =>
                           /\ ns[i].exchange \in DOMAIN ns
                           /\ ns[ns[i].exchange].kind = "exchange"
                           /\ ns[ns[i].exchange].gen \in ns[i].gen .. g
    BY DEF Bindings
  <2>2. CASE i \in DOMAIN os
    <3>1. ns[i] = os[i] /\ (os[i].exchange # 0 => os[i].exchange \in DOMAIN os)
      BY <1>1, <2>1, <2>2 DEF Bindings
    <3>2. QED
      BY <1>1, <2>1, <2>2, <3>1 DEF Bindings
  <2>3. CASE i = Len(ns)
    BY <1>1, <2>3 DEF NewOne
  <2>4. QED
    BY <1>1, <2>2, <2>3
<1>3. ASSUME NEW i \in DOMAIN os
      PROVE  SoundAt(g, ns, D \cup {c}, i)
  <2>1. SoundAt(g, os, D, i) /\ ns[i] = os[i]
    BY <1>1 DEF Sound
  <2>2. QED
    BY <2>1 DEF SoundAt, Ordered
<1>4. SoundAt(g, ns, D \cup {c}, Len(ns))
  <2>1. Ordered(ns, Len(ns), Destroys(o.todo))
    BY <1>1 DEF Ordered, NewOne
  <2>2. o.state = "new" /\ ns[Len(ns)] = o
    BY <1>1 DEF NewOne
  <2>3. ns[Len(ns)].state # "open"
    BY <2>2
  <2>4. /\ o.kind = "exchange" => o.name \in ExchangeNames \cup {DefaultName}
        /\ o.kind = "queue" => o.name \in QueueNames
        /\ o.gen = g /\ o.channel = c
    BY DEF NewOne
  <2>5. QED
    BY <1>1, <2>1, <2>2, <2>3, <2>4 DEF SoundAt
<1>5. QED
  BY <1>1, <1>2, <1>3, <1>4 DEF Sound

LEMMA TabledMore ==
  ASSUME NEW os, NEW ns, NEW o, More(os, ns, o), NEW g \in Nat, NEW c, NewOne(g, o, c),
         QueueNames \cap ServerNames = {},
         NEW chs, NEW qs, NEW xs, NEW k, NEW q, NEW stale,
         Tabled(g, os, chs, qs, xs, k, q, stale),
         c \notin DOMAIN chs, \A i \in DOMAIN os : os[i].channel # c,
         NEW p, \A y \in p : y \in q \/ (y.m = "channelOpenOk" /\ y.channel = c),
         NEW rs, Entered(qs, rs, o, Len(ns)),
         NEW ys,
         \/ o.kind = "queue" /\ ys = xs
         \/ o.kind = "exchange" /\ o.name \notin DOMAIN xs /\ ys = With(xs, o.name, Len(ns))
  PROVE  Tabled(g, ns, With(chs, c, Len(ns)), rs, ys, k, p, stale)
<1> DEFINE D == DOMAIN chs
           l == Len(ns)
<1>1. /\ Listed(os) /\ Sound(g, os, D) /\ Expected(os, chs, q)
      /\ Entries(g, os, qs, "queue") /\ Entries(g, os, xs, "exchange")
      /\ QueuePart(g, os, D, qs, k, q)
      /\ ExchangePart(g, os, xs, stale) /\ Bindings(g, os)
  BY DEF Tabled, Sound
<1>2. /\ DOMAIN ns = DOMAIN os \cup {l} /\ ns[l] = o /\ \A i \in DOMAIN os : ns[i] = os[i]
      /\ Listed(ns)
  BY MoreIs DEF More
<1>3. DOMAIN With(chs, c, l) = D \cup {c} /\ o.channel = c
  BY DEF With, NewOne
<1>4. Sound(g, ns, D \cup {c})
  BY <1>1, SoundMore
<1>5. Expected(ns, With(chs, c, l), p)
  BY <1>1, ExpectedMore
<1>6. ASSUME NEW f, NEW kd, Entries(g, os, f, kd), NEW h,
             h = f \/ (o.kind = kd /\ h = With(f, o.name, l))
      PROVE  Entries(g, ns, h, kd)
  <2> SUFFICES ASSUME NEW n \in DOMAIN h PROVE EntryAt(g, ns, kd, n, h[n])
    BY DEF Entries
  <2>1. CASE n \in DOMAIN f /\ h[n] = f[n]
    <3>1. EntryAt(g, os, kd, n, f[n])
      BY <1>6, <2>1 DEF Entries
    <3>2. f[n] \in DOMAIN os
      BY <3>1 DEF EntryAt
    <3>3. QED
      BY <1>2, <2>1, <3>1, <3>2 DEF EntryAt
  <2>2. CASE o.kind = kd /\ n = o.name /\ h[n] = l
    BY <1>2, <2>2 DEF EntryAt, NewOne
  <2>3. QED
    BY <1>6, <2>1, <2>2 DEF With
<1>7. Entries(g, ns, rs, "queue")
  BY <1>1, <1>6 DEF Entered
<1>8. Entries(g, ns, ys, "exchange")
  BY <1>1, <1>6
<1>9. ExchangePart(g, ns, ys, stale)
  <2>1. ys = xs \/ (o.name \notin DOMAIN xs /\ ys = With(xs, o.name, Len(ns)))
    OBVIOUS
  <2>2. o.exchange = 0 /\ o.binds = 0 /\ o.destroys = 0 /\ o.closes = 0
    BY DEF NewOne
  <2>3. QED
    BY <1>1, <2>1, <2>2, ExchangePartMore
<1>10. QueuePart(g, ns, D \cup {c}, rs, k, p)
  <2>1. \A i \in DOMAIN os : os[i].channel # o.channel
    BY <1>3
  <2>2. ~k => QueuesKept(g, ns, D \cup {o.channel}, rs)
    BY <1>1, <2>1, QueueMore DEF QueuePart
  <2>3. ASSUME NEW i \in DOMAIN os, Told(ns, p, i)
        PROVE  Told(os, q, i)
    <3>1. ns[i] = os[i] /\ os[i].channel # c
      BY <1>2
    <3>2. \A y \in p : y.m = "declareOk" => y \in q
      OBVIOUS
    <3>3. QED
      BY <2>3, <3>1, <3>2 DEF Told
  <2>4. ~Told(ns, p, l)
    <3>1. \A y \in p : y.m = "declareOk" => y.channel # c
      BY <1>1 DEF Expected
    <3>2. QED
      BY <1>2, <1>3, <3>1 DEF Told, NewOne
  <2>5. OneInUse(g, ns, D \cup {o.channel}, k, p)
    <3>1. ~k => QueuesKept(g, os, D, qs)
      BY <1>1 DEF QueuePart
    <3>2. OneInUse(g, os, D, k, q)
      BY <1>1 DEF QueuePart
    <3>3. k => ~Told(ns, p, Len(ns)) /\ \A i \in DOMAIN os : Told(ns, p, i) => Told(os, q, i)
      BY <2>3, <2>4
    <3>4. QED
      BY <2>1, <3>1, <3>2, <3>3, TwinsMore
  <2>6. QED
    BY <1>3, <2>2, <2>5 DEF QueuePart
<1>11. QED
  BY <1>2, <1>3, <1>4, <1>5, <1>7, <1>8, <1>9, <1>10 DEF Tabled

\* Queue i is bound to exchange x, which the table has.
LEMMA TabledBound ==
  ASSUME NEW os, NEW ns, NEW g, NEW chs, NEW qs, NEW xs, NEW k, NEW q, NEW stale,
         Tabled(g, os, chs, qs, xs, k, q, stale),
         Later(os, ns), NEW i \in DOMAIN os, os[i].kind = "queue", NEW n \in DOMAIN xs,
         \A j \in DOMAIN os :
           /\ ns[j].name = os[j].name /\ ns[j].state = os[j].state /\ ns[j].todo = os[j].todo
           /\ ns[j].refused = os[j].refused /\ ns[j].destroyed = os[j].destroyed
           /\ ns[j].destroys = os[j].destroys /\ ns[j].closes = os[j].closes
           /\ ns[j].exchange = (IF j = i THEN xs[n] ELSE os[j].exchange)
           /\ ns[j].binds = (IF j = xs[n] THEN os[j].binds + 1 ELSE os[j].binds),
         NEW p \in SUBSET q, NEW l, k => l, NEW stale2, stale => stale2
  PROVE  Tabled(g, ns, chs, qs, xs, l, p, stale2)
<1> DEFINE D == DOMAIN chs
           x == xs[n]
<1>1. /\ Listed(os) /\ Sound(g, os, D) /\ Expected(os, chs, q)
      /\ Entries(g, os, qs, "queue") /\ Entries(g, os, xs, "exchange")
      /\ QueuePart(g, os, D, qs, k, q)
      /\ ExchangePart(g, os, xs, stale) /\ Bindings(g, os)
  BY DEF Tabled, Sound
<1>2. DOMAIN ns = DOMAIN os /\ Listed(ns) /\ \A j \in DOMAIN os : Older(os[j], ns[j])
  BY LaterIs DEF Later
<1>3. EntryAt(g, os, "exchange", n, x)
  BY <1>1 DEF Entries
<1>4. x \in DOMAIN os /\ os[x].kind = "exchange" /\ os[x].gen = g /\ Holds(os, xs, x)
  BY <1>3 DEF EntryAt, Holds
<1>5. \A j \in DOMAIN os :
        /\ ns[j].name = os[j].name /\ ns[j].state = os[j].state /\ ns[j].todo = os[j].todo
        /\ ns[j].refused = os[j].refused /\ ns[j].destroyed = os[j].destroyed
        /\ ns[j].destroys = os[j].destroys /\ ns[j].closes = os[j].closes
  OBVIOUS
<1>6. \A j \in DOMAIN os :
        /\ ns[j].exchange = (IF j = i THEN x ELSE os[j].exchange)
        /\ ns[j].binds = (IF j = x THEN os[j].binds + 1 ELSE os[j].binds)
  OBVIOUS
<1> HIDE DEF x
<1>7. Bindings(g, ns)
  <2> SUFFICES ASSUME NEW j \in DOMAIN ns
               PROVE  /\ ns[j].kind = "exchange" => ns[j].exchange = 0
                      /\ ns[j].exchange # 0 =>
                           /\ ns[j].exchange \in DOMAIN ns
                           /\ ns[ns[j].exchange].kind = "exchange"
                           /\ ns[ns[j].exchange].gen \in ns[j].gen .. g
    BY DEF Bindings
  <2>1. CASE j = i
    <3>1. ns[j].exchange = x /\ ns[j].kind = "queue"
      BY <1>2, <1>6, <2>1 DEF Older
    <3>2. ns[x].kind = "exchange" /\ ns[x].gen = g /\ ns[j].gen = os[i].gen
      BY <1>2, <1>4, <2>1 DEF Older
    <3>3. os[i].gen <= g /\ os[i].gen \in Nat /\ g \in Nat
      BY <1>1, <1>4 DEF Sound, SoundAt, Listed, Fields
    <3>4. QED
      BY <1>2, <1>4, <3>1, <3>2, <3>3
  <2>2. CASE j # i
    <3>1. ns[j].exchange = os[j].exchange /\ ns[j].kind = os[j].kind /\ ns[j].gen = os[j].gen
      BY <1>2, <1>6, <2>2 DEF Older
    <3>2. os[j].exchange # 0 => /\ os[j].exchange \in DOMAIN os
                                /\ ns[os[j].exchange].kind = os[os[j].exchange].kind
                                /\ ns[os[j].exchange].gen = os[os[j].exchange].gen
      BY <1>1, <1>2 DEF Bindings, Older
    <3>3. QED
      BY <1>1, <1>2, <3>1, <3>2 DEF Bindings
  <2>3. QED
    BY <2>1, <2>2
<1>8. Sound(g, ns, D)
  <2>1. ASSUME NEW j \in DOMAIN ns
        PROVE  SoundAt(g, ns, D, j)
    <3>1. SoundAt(g, os, D, j) /\ Older(os[j], ns[j])
      BY <1>1, <1>2 DEF Sound
    <3>2. /\ ns[j].name = os[j].name /\ ns[j].todo = os[j].todo /\ ns[j].destroyed = os[j].destroyed
          /\ ns[j].destroys = os[j].destroys /\ ns[j].closes = os[j].closes
          /\ ns[j].state = os[j].state
      BY <1>2, <1>5
    <3>3. QED
      BY <3>1, <3>2 DEF SoundAt, Ordered, Older
  <2>2. QED
    BY <1>7, <2>1 DEF Sound
<1>9. Expected(ns, chs, p)
  <2>1. ns[i].state = os[i].state /\ ns[i].destroyed = os[i].destroyed
    BY <1>5
  <2>2. QED
    BY <1>1, <1>5, <2>1, ExpectedKept
<1>10. ASSUME NEW f, NEW kd, Entries(g, os, f, kd)
       PROVE  Entries(g, ns, f, kd)
  <2> SUFFICES ASSUME NEW m \in DOMAIN f PROVE EntryAt(g, ns, kd, m, f[m])
    BY DEF Entries
  <2> DEFINE e == f[m]
  <2>1. EntryAt(g, os, kd, m, e)
    BY <1>10 DEF Entries
  <2>2. e \in DOMAIN os /\ Older(os[e], ns[e])
    BY <1>2, <2>1 DEF EntryAt
  <2>3. /\ ns[e].name = os[e].name /\ ns[e].destroyed = os[e].destroyed
        /\ ns[e].state = os[e].state /\ ns[e].refused = os[e].refused
    BY <1>5, <2>2
  <2>4. QED
    BY <1>2, <2>1, <2>2, <2>3 DEF EntryAt, Older
<1>11. ExchangePart(g, ns, xs, stale2)
  BY <1>1, <1>4, <1>5, <1>6, ExchangePartBound
<1>12. QueuePart(g, ns, D, qs, l, p)
  <2>1. ~l => QueuesKept(g, ns, D, qs)
    BY <1>1, <1>5, QueuesQuiet DEF QueuePart
  <2>2. ToldLess(g, os, ns, D, k, p, q)
    BY <1>2, <1>5 DEF ToldLess, Told, Older
  <2>3. OneInUse(g, os, D, k, q)
    BY <1>1 DEF QueuePart
  <2>4. OneInUse(g, ns, D, l, p)
    BY <1>5, <2>2, <2>3, TwinsQuiet
  <2>5. QED
    BY <2>1, <2>4 DEF QueuePart
<1>13. QED
  BY <1>1, <1>2, <1>8, <1>9, <1>10, <1>11, <1>12 DEF Tabled

\* Object i is told its name, and is open.
\* The broker gives no empty name.
SomeNames == "" \notin ServerNames

\* Object i is open, under the name n.
DeclaredAs(os, ns, i, n) ==
  /\ ns[i].name = n /\ ns[i].state = "open"
  /\ \A j \in DOMAIN os :
       /\ ns[j].todo = os[j].todo /\ ns[j].destroyed = os[j].destroyed
       /\ ns[j].destroys = os[j].destroys /\ ns[j].closes = os[j].closes
       /\ ns[j].exchange = os[j].exchange /\ ns[j].binds = os[j].binds
       /\ ns[j].refused = os[j].refused
       /\ j # i => ns[j].name = os[j].name /\ ns[j].state = os[j].state

\* A queue registers under it.
Registers(os, i, n, qs, rs) == rs = IF os[i].kind = "queue" THEN With(qs, n, i) ELSE qs

LEMMA TabledNamed ==
  ASSUME NEW os, NEW ns, NEW g, NEW chs, NEW qs, NEW xs, NEW k, NEW q, NEW stale,
         Tabled(g, os, chs, qs, xs, k, q, stale),
         SomeNames, Later(os, ns), NEW x \in q, x.m = "declareOk",
         NEW i, i = chs[x.channel], os[i].gen = g, DeclaredAs(os, ns, i, x.name),
         NEW p \in SUBSET q, \A y \in p : y.channel = x.channel => ~Answer(y),
         NEW rs, Registers(os, i, x.name, qs, rs)
  PROVE  Tabled(g, ns, chs, rs, xs, k, p, stale)
<1> DEFINE D == DOMAIN chs
           n == x.name
<1>1. /\ Listed(os) /\ Sound(g, os, D) /\ Expected(os, chs, q)
      /\ Entries(g, os, qs, "queue") /\ Entries(g, os, xs, "exchange")
      /\ QueuePart(g, os, D, qs, k, q)
      /\ ExchangePart(g, os, xs, stale) /\ Bindings(g, os)
  BY DEF Tabled, Sound
<1>2. DOMAIN ns = DOMAIN os /\ Listed(ns) /\ \A j \in DOMAIN os : Older(os[j], ns[j])
  BY LaterIs DEF Later
<1>3. x.channel \in D /\ Awaits(os, i, x)
  BY <1>1 DEF Expected
<1>4. /\ i \in DOMAIN os /\ os[i].channel = x.channel /\ ~os[i].destroyed
      /\ NameFor(os, i, n)
  BY <1>3 DEF Awaits, Answer
<1>5. \A j \in DOMAIN os :
           /\ ns[j].todo = os[j].todo /\ ns[j].destroyed = os[j].destroyed
           /\ ns[j].destroys = os[j].destroys /\ ns[j].closes = os[j].closes
           /\ ns[j].exchange = os[j].exchange /\ ns[j].binds = os[j].binds
           /\ ns[j].refused = os[j].refused
           /\ j # i => ns[j].name = os[j].name /\ ns[j].state = os[j].state
  BY DEF DeclaredAs
<1>6. ns[i].name = n /\ ns[i].state = "open"
  BY DEF DeclaredAs
<1>7. rs = IF os[i].kind = "queue" THEN With(qs, n, i) ELSE qs
  BY DEF Registers
<1>8. Named(os, ns, i, n)
  BY <1>4, <1>5, <1>6 DEF Named, NameFor
<1>9. \A j \in DOMAIN os : os[j].kind = "exchange" => ns[j].name = os[j].name
  BY <1>4, <1>5, <1>6 DEF NameFor
<1> HIDE DEF n
<1>10. ns[i].name = n /\ (os[i].name = n \/ os[i].name = "")
  BY <1>8 DEF Named
<1>11. Sound(g, ns, D)
  <2>1. Bindings(g, ns)
    BY <1>1, <1>2, <1>5 DEF Bindings, Older
  <2>2. ASSUME NEW j \in DOMAIN ns
        PROVE  SoundAt(g, ns, D, j)
    <3>1. /\ SoundAt(g, os, D, j) /\ Older(os[j], ns[j])
          /\ ns[j].todo = os[j].todo /\ ns[j].destroyed = os[j].destroyed
          /\ ns[j].destroys = os[j].destroys /\ ns[j].closes = os[j].closes
      BY <1>1, <1>2, <1>5 DEF Sound
    <3>2. ns[j].name = os[j].name \/ (os[j].kind = "queue" /\ ns[j].name \in ServerNames)
      BY <1>2, <1>4, <1>5, <1>10 DEF NameFor
    <3>3. ns[j].kind = "queue" /\ ns[j].state = "open" => ns[j].name # ""
      <4>1. CASE j = i
        BY <1>4, <1>10, <4>1 DEF NameFor, SomeNames
      <4>2. CASE j # i
        BY <1>2, <1>5, <3>1, <4>2 DEF SoundAt, Older
      <4>3. QED
        BY <4>1, <4>2
    <3>4. QED
      BY <3>1, <3>2, <3>3 DEF SoundAt, Ordered, Older
  <2>3. QED
    BY <2>1, <2>2 DEF Sound
<1>12. Expected(ns, chs, p)
  <2>1. ASSUME NEW y \in p
        PROVE  /\ y.channel \in D /\ Awaits(ns, chs[y.channel], y)
               /\ Anonymous(ns, chs, y) => Anonymous(os, chs, y)
    <3> DEFINE e == chs[y.channel]
    <3>1. y.channel \in D /\ Awaits(os, e, y)
      BY <1>1 DEF Expected
    <3>2. e \in DOMAIN os /\ Older(os[e], ns[e]) /\ os[e].channel = y.channel
          /\ ns[e].destroyed = os[e].destroyed /\ ns[e].closes = os[e].closes
      BY <1>2, <1>5, <3>1 DEF Awaits
    <3>3. CASE e = i
      <4>1. ~Answer(y) /\ y.m # "declareOk"
        BY <1>4, <3>2, <3>3 DEF Answer
      <4>2. QED
        BY <1>2, <3>1, <3>2, <4>1 DEF Awaits, Older, Anonymous
    <3>4. CASE e # i
      <4>1. ns[e].name = os[e].name /\ ns[e].state = os[e].state
        BY <1>5, <3>2, <3>4
      <4>2. y.m = "declareOk" => NameFor(ns, e, y.name)
        <5>1. CASE y.m = "declareOk" /\ os[e].name = ""
          <6>1. /\ os[e].kind = "queue" /\ y.name \in ServerNames
                /\ \A j \in DOMAIN os : os[j].kind = "queue" => os[j].name # y.name
            BY <3>1, <5>1 DEF Awaits, NameFor
          <6>2. os[i].kind = "queue" => n # y.name
            <7>1. CASE os[i].name = n
              BY <1>4, <6>1, <7>1
            <7>2. CASE os[i].name = ""
              <8>1. Anonymous(os, chs, x) /\ Anonymous(os, chs, y) /\ x.channel # y.channel
                BY <1>4, <3>2, <3>4, <5>1, <7>2 DEF Anonymous
              <8>2. QED
                BY <1>1, <8>1 DEF Expected, n
            <7>3. QED
              BY <1>10, <7>1, <7>2
          <6>3. \A j \in DOMAIN os : ns[j].kind = os[j].kind
            BY <1>2 DEF Older
          <6>4. \A j \in DOMAIN ns : ns[j].kind = "queue" => ns[j].name # y.name
            <7> SUFFICES ASSUME NEW j \in DOMAIN ns, ns[j].kind = "queue" PROVE ns[j].name # y.name
              OBVIOUS
            <7>1. j \in DOMAIN os /\ os[j].kind = "queue" /\ os[j].name # y.name
              BY <1>2, <6>1, <6>3
            <7>2. CASE j = i
              BY <1>10, <6>2, <7>1, <7>2
            <7>3. CASE j # i
              BY <1>5, <7>1, <7>3
            <7>4. QED
              BY <7>2, <7>3
          <6>5. QED
            BY <3>2, <4>1, <5>1, <6>1, <6>3, <6>4 DEF NameFor
        <5>2. CASE y.m = "declareOk" /\ os[e].name # ""
          BY <3>1, <4>1, <5>2 DEF Awaits, NameFor
        <5>3. QED
          BY <5>1, <5>2
      <4>3. QED
        BY <1>2, <3>1, <3>2, <4>1, <4>2 DEF Awaits, Older, Anonymous
    <3>5. QED
      BY <3>3, <3>4
  <2>2. \A y, z \in p :
          Anonymous(ns, chs, y) /\ Anonymous(ns, chs, z) /\ y.channel # z.channel => y.name # z.name
    BY <1>1, <2>1 DEF Expected
  <2>3. QED
    BY <2>1, <2>2 DEF Expected
<1>13. ASSUME NEW f, NEW kd, Entries(g, os, f, kd)
       PROVE  Entries(g, ns, f, kd)
  <2> SUFFICES ASSUME NEW m \in DOMAIN f PROVE EntryAt(g, ns, kd, m, f[m])
    BY DEF Entries
  <2> DEFINE e == f[m]
  <2>1. EntryAt(g, os, kd, m, e)
    BY <1>13 DEF Entries
  <2>2. e \in DOMAIN os /\ Older(os[e], ns[e]) /\ ns[e].destroyed = os[e].destroyed
        /\ ns[e].refused = os[e].refused
    BY <1>2, <1>5, <2>1 DEF EntryAt
  <2>3. CASE e # i
    BY <1>2, <1>5, <2>1, <2>2, <2>3 DEF EntryAt, Older
  <2>4. CASE e = i
    <3>1. (m # "" \/ kd = "exchange") => ns[e].name = m
      BY <1>9, <1>10, <2>1, <2>2, <2>4 DEF EntryAt
    <3>2. ns[e].state = "open"
      BY <1>6, <2>4
    <3>3. QED
      BY <1>2, <2>1, <2>2, <3>1, <3>2 DEF EntryAt, Older
  <2>5. QED
    BY <2>3, <2>4
<1>14. Entries(g, ns, rs, "queue")
  <2>1. Entries(g, ns, qs, "queue")
    BY <1>1, <1>13
  <2>2. CASE os[i].kind = "queue"
    <3>1. rs = With(qs, n, i)
      BY <1>7, <2>2
    <3>2. EntryAt(g, ns, "queue", n, i)
      BY <1>2, <1>4, <1>5, <1>10, <1>6, <2>2 DEF EntryAt, Older
    <3>3. QED
      BY <2>1, <3>1, <3>2 DEF Entries, With
  <2>3. CASE os[i].kind # "queue"
    BY <1>7, <2>1, <2>3
  <2>4. QED
    BY <2>2, <2>3
<1>15. Entries(g, ns, xs, "exchange")
  BY <1>1, <1>13
<1>16. ExchangePart(g, ns, xs, stale)
  BY <1>1, <1>5, <1>9, ExchangePartQuiet
<1>17. ASSUME ~k
       PROVE  QueuesKept(g, ns, D, rs)
  <2>1. QueuesKept(g, os, D, qs)
    BY <1>1, <1>17 DEF QueuePart
  <2>2. CASE os[i].kind = "queue"
    <3>1. rs = With(qs, n, i)
      BY <1>7, <2>2
    <3>2. InUse(g, os, D, i)
      BY <1>3, <1>4, <2>2 DEF InUse
    <3>3. QED
      BY <1>4, <1>8, <2>1, <3>1, <3>2, QueueNamed
  <2>3. CASE os[i].kind # "queue"
    <3>1. \A j \in DOMAIN os : ns[j].name = os[j].name
      <4>1. os[i].kind = "exchange"
        BY <1>1, <1>4, <2>3 DEF Listed, Fields
      <4>2. QED
        BY <1>4, <1>5, <1>9, <4>1
    <3>2. rs = qs
      BY <1>7, <2>3
    <3>3. QED
      BY <2>1, <3>1, <3>2, QueuesQuiet
  <2>4. QED
    BY <2>2, <2>3
<1>18. OneInUse(g, ns, D, k, p)
  <2>1. ASSUME NEW j \in DOMAIN os, Told(ns, p, j)
        PROVE  Told(os, q, j)
    <3>1. CASE j = i
      BY <1>4, <3>1 DEF Told
    <3>2. CASE j # i
      BY <1>2, <1>5, <2>1, <3>2 DEF Told, Older
    <3>3. QED
      BY <3>1, <3>2
  <2>2. ToldLess(g, os, ns, D, k, p, q)
    BY <2>1 DEF ToldLess
  <2>3. OneInUse(g, os, D, k, q)
    BY <1>1 DEF QueuePart
  <2>4. QED
    BY <1>4, <1>8, <2>2, <2>3, TwinsNamed
<1>19. QED
  BY <1>2, <1>11, <1>12, <1>14, <1>15, <1>16, <1>17, <1>18 DEF Tabled, QueuePart

\* The channel c of object i is closed: the entry of its name goes.
Closes(os, ns, i, c) ==
  /\ i \in DOMAIN os /\ os[i].channel = c /\ ns[i].state = "closed"
  /\ \A j \in DOMAIN os :
       /\ ns[j].name = os[j].name /\ ns[j].todo = os[j].todo /\ ns[j].destroyed = os[j].destroyed
       /\ ns[j].destroys = os[j].destroys /\ ns[j].closes = os[j].closes
       /\ ns[j].exchange = os[j].exchange /\ ns[j].binds = os[j].binds
       /\ ns[j].refused = os[j].refused
       /\ j # i => ns[j].state = os[j].state /\ os[j].channel # c

LEMMA ExpectedClosed ==
  ASSUME NEW os, NEW ns, Later(os, ns), NEW i, NEW c, Closes(os, ns, i, c),
         NEW chs, NEW q, Expected(os, chs, q),
         NEW p \in SUBSET q, \A y \in p : y.channel # c
  PROVE  Expected(ns, Without(chs, c), p)
<1>1. Expected(ns, chs, p)
  <2>1. /\ i \in DOMAIN os /\ ns[i].state = "closed" /\ ns[i].destroyed = os[i].destroyed
        /\ \A j \in DOMAIN os : ns[j].name = os[j].name
        /\ \A j \in DOMAIN os : j # i => ns[j].state = os[j].state /\ ns[j].destroyed = os[j].destroyed
    BY DEF Closes
  <2>2. ns[i].state # "open"
    BY <2>1
  <2>3. QED
    BY <2>1, <2>2, ExpectedKept
<1>2. \A y \in p : y.channel \in DOMAIN Without(chs, c) /\ Without(chs, c)[y.channel] = chs[y.channel]
  BY <1>1 DEF Expected, Without
<1>3. QED
  BY <1>1, <1>2 DEF Expected, Anonymous

LEMMA EntriesClosed ==
  ASSUME NEW os, NEW ns, Later(os, ns), NEW i, NEW c, Closes(os, ns, i, c),
         NEW g, NEW f, NEW kd, Entries(g, os, f, kd),
         NEW h, h = IF os[i].kind = kd THEN Without(f, os[i].name) ELSE f
  PROVE  Entries(g, ns, h, kd)
<1> SUFFICES ASSUME NEW n \in DOMAIN h PROVE EntryAt(g, ns, kd, n, h[n])
  BY DEF Entries
<1> DEFINE e == f[n]
<1>1. n \in DOMAIN f /\ h[n] = e /\ (os[i].kind = kd => n # os[i].name)
  BY DEF Without
<1>2. EntryAt(g, os, kd, n, e)
  BY <1>1 DEF Entries
<1>3. e \in DOMAIN os /\ e \in DOMAIN ns /\ Older(os[e], ns[e])
  BY <1>2, LaterIs DEF EntryAt, Later
<1>4. /\ ns[e].name = os[e].name /\ ns[e].destroyed = os[e].destroyed /\ ns[e].refused = os[e].refused
      /\ e # i => ns[e].state = os[e].state
  BY <1>3 DEF Closes
<1>5. CASE e # i
  BY <1>1, <1>2, <1>3, <1>4, <1>5 DEF EntryAt, Older
<1>6. CASE e = i
  <2>1. ~(n # "" \/ kd = "exchange")
    BY <1>1, <1>2, <1>6 DEF EntryAt
  <2>2. QED
    BY <1>1, <1>2, <1>3, <2>1 DEF EntryAt, Older
<1>7. QED
  BY <1>5, <1>6

LEMMA ExchangePartClosed ==
  ASSUME NEW os, NEW ns, Later(os, ns), NEW i, NEW c, Closes(os, ns, i, c), os[i].closes > 0,
         NEW g, Bindings(g, os), NEW xs, NEW stale, ExchangePart(g, os, xs, stale),
         NEW ys, ys = IF os[i].kind = "exchange" THEN Without(xs, os[i].name) ELSE xs
  PROVE  ExchangePart(g, ns, ys, stale)
<1>1. ExchangePart(g, ns, xs, stale)
  <2>1. /\ \A j \in DOMAIN os : os[j].kind = "exchange" => ns[j].name = os[j].name
        /\ \A j \in DOMAIN os : ns[j].exchange = os[j].exchange /\ ns[j].binds = os[j].binds
    BY DEF Closes
  <2>2. QED
    BY <2>1, ExchangePartQuiet
<1>2. CASE os[i].kind # "exchange"
  BY <1>1, <1>2
<1>3. CASE os[i].kind = "exchange"
  <2>1. /\ i \in DOMAIN ns /\ ns[i].kind = "exchange" /\ ns[i].name = os[i].name
        /\ Fields(ns[i]) /\ ns[i].closes > 0
    BY <1>3, LaterIs DEF Closes, Later, Older, Listed
  <2>2. ns[i].destroys + ns[i].closes # 0
    BY <2>1 DEF Fields
  <2>3. ASSUME NEW j \in DOMAIN ns, BoundNow(g, ns, j), Holds(ns, xs, ns[j].exchange)
        PROVE  Holds(ns, ys, ns[j].exchange)
    <3>1. ns[ns[j].exchange].name # os[i].name
      BY <2>1, <2>2, <2>3 DEF BoundNow, NotEnded
    <3>2. QED
      BY <1>3, <2>3, <3>1 DEF Holds, Without
  <2>4. ExchangesKept(g, ns, xs) => ExchangesKept(g, ns, ys)
    BY <2>3 DEF ExchangesKept
  <2>5. QED
    BY <1>1, <2>4 DEF ExchangePart
<1>4. QED
  BY <1>2, <1>3

\* An object of the kind kd leaves its table.
Leaves(os, i, kd, qs, rs) == rs = IF os[i].kind = kd THEN Without(qs, os[i].name) ELSE qs

LEMMA TabledClosed ==
  ASSUME NEW os, NEW ns, NEW g, NEW chs, NEW qs, NEW xs, NEW k, NEW q, NEW stale,
         Tabled(g, os, chs, qs, xs, k, q, stale),
         Later(os, ns), NEW x \in q, x.m = "channelCloseOk",
         NEW i, i = chs[x.channel], os[i].gen = g, Closes(os, ns, i, x.channel),
         NEW p \in SUBSET q, \A y \in p : y.channel # x.channel,
         NEW rs, Leaves(os, i, "queue", qs, rs), NEW ys, Leaves(os, i, "exchange", xs, ys)
  PROVE  Tabled(g, ns, Without(chs, x.channel), rs, ys, k, p, stale)
<1> DEFINE D == DOMAIN chs
           c == x.channel
           E == DOMAIN Without(chs, x.channel)
<1>1. /\ Listed(os) /\ Sound(g, os, D) /\ Expected(os, chs, q)
      /\ Entries(g, os, qs, "queue") /\ Entries(g, os, xs, "exchange")
      /\ QueuePart(g, os, D, qs, k, q)
      /\ ExchangePart(g, os, xs, stale) /\ Bindings(g, os)
  BY DEF Tabled, Sound
<1>2. /\ rs = IF os[i].kind = "queue" THEN Without(qs, os[i].name) ELSE qs
      /\ ys = IF os[i].kind = "exchange" THEN Without(xs, os[i].name) ELSE xs
  BY DEF Leaves
<1>3. DOMAIN ns = DOMAIN os /\ Listed(ns) /\ \A j \in DOMAIN os : Older(os[j], ns[j])
  BY LaterIs DEF Later
<1>4. c \in D /\ Awaits(os, i, x)
  BY <1>1 DEF Expected
<1>5. i \in DOMAIN os /\ os[i].channel = c /\ os[i].closes > 0 /\ Fields(os[i]) /\ SoundAt(g, os, D, i)
  BY <1>1, <1>4 DEF Awaits, Listed, Sound
<1>6. E = D \ {c}
  BY DEF Without
<1> HIDE DEF E
<1>7. /\ \A j \in DOMAIN os : ns[j].name = os[j].name /\ ns[j].exchange = os[j].exchange
      /\ ns[i].state = "closed" /\ \A j \in DOMAIN os : j # i => ns[j].state = os[j].state
  BY DEF Closes
<1>8. Sound(g, ns, E)
  <2>1. Bindings(g, ns)
    BY <1>1, <1>3, <1>7 DEF Bindings, Older
  <2>2. ASSUME NEW j \in DOMAIN ns
        PROVE  SoundAt(g, ns, E, j)
    <3>1. /\ SoundAt(g, os, D, j) /\ Older(os[j], ns[j]) /\ ns[j].name = os[j].name
          /\ ns[j].todo = os[j].todo /\ ns[j].destroyed = os[j].destroyed
          /\ ns[j].destroys = os[j].destroys /\ ns[j].closes = os[j].closes
      BY <1>1, <1>3 DEF Sound, Closes
    <3>2. os[j].gen = g /\ os[j].closes = 0 => os[j].channel \in E
      <4>1. CASE j = i
        BY <1>5, <4>1
      <4>2. CASE j # i
        BY <1>3, <1>6, <3>1, <4>2 DEF SoundAt, Closes
      <4>3. QED
        BY <4>1, <4>2
    <3>3. ns[j].state = "open" => os[j].state = "open"
      BY <1>3, <1>7, <2>2
    <3>4. QED
      BY <3>1, <3>2, <3>3 DEF SoundAt, Ordered, Older
  <2>3. QED
    BY <2>1, <2>2 DEF Sound
<1>9. Expected(ns, Without(chs, c), p)
  BY <1>1, ExpectedClosed
<1>10. Entries(g, ns, rs, "queue") /\ Entries(g, ns, ys, "exchange")
  BY <1>1, <1>2, EntriesClosed
<1>11. ExchangePart(g, ns, ys, stale)
  BY <1>1, <1>5, <1>2, ExchangePartClosed
<1>12. ASSUME ~k
       PROVE  QueuesKept(g, ns, E, rs)
  <2>1. QueuesKept(g, os, D, qs) /\ E \in SUBSET D
    BY <1>1, <1>6, <1>12 DEF QueuePart
  <2>2. CASE os[i].kind = "queue"
    <3>1. rs = Without(qs, os[i].name)
      BY <1>2, <2>2
    <3>2. ~InUse(g, ns, E, i)
      BY <1>3, <1>5, <1>6 DEF InUse, Older
    <3>3. ASSUME ~Lost(ns, os[i].name, Len(ns))
          PROVE  InUse(g, os, D, i)
      <4>1. /\ i \in 1 .. Len(ns) /\ ns[i].name = os[i].name
            /\ ns[i].destroys = os[i].destroys /\ ns[i].closes = os[i].closes
        BY <1>5, LaterIs DEF Closes
      <4>2. ~(os[i].destroys + os[i].closes > 1)
        BY <3>3, <4>1 DEF Lost
      <4>3. ~os[i].destroyed
        <5>1. Ordered(os, i, Destroys(os[i].todo))
          BY <1>5 DEF SoundAt
        <5>2. QED
          BY <1>5, <4>2, <5>1 DEF Ordered, Fields
      <4>4. QED
        BY <1>4, <1>5, <2>2, <4>3 DEF InUse
    <3>4. QED
      BY <1>5, <1>7, <2>1, <3>1, <3>2, <3>3, QueueRemoved
  <2>3. CASE os[i].kind # "queue"
    <3>1. rs = qs
      BY <1>2, <2>3
    <3>2. QED
      BY <1>7, <2>1, <3>1, QueuesQuiet
  <2>4. QED
    BY <2>2, <2>3
<1>13. OneInUse(g, ns, E, k, p)
  <2>1. ASSUME NEW j \in DOMAIN os, Told(ns, p, j)
        PROVE  Told(os, q, j)
    <3>1. ns[j].state = "open" => os[j].state = "open"
      BY <1>7
    <3>2. QED
      BY <1>3, <2>1, <3>1 DEF Told, Older
  <2>2. ToldLess(g, os, ns, E, k, p, q)
    BY <2>1 DEF ToldLess
  <2>3. OneInUse(g, os, D, k, q) /\ E \in SUBSET D
    BY <1>1, <1>6 DEF QueuePart
  <2>4. QED
    BY <1>7, <2>2, <2>3, TwinsQuiet
<1>14. QED
  BY <1>3, <1>8, <1>9, <1>10, <1>11, <1>12, <1>13 DEF Tabled, QueuePart, E

-----------------------------------------------------------------------------
(* The state: what of the above holds of it                                *)

\* The answers in q that the invariant is about.
Heard(q) == {q[k] : k \in {k \in DOMAIN q : q[k].m \in {"channelOpenOk", "declareOk", "channelCloseOk"}}}

Stale == "stale" \in misuse

Tables == Tabled(gen, objs, channels, queues, exchanges, kicked, Heard(toClient), Stale)

DefaultIsExchange == default # 0 => objs[default].kind = "exchange"

TInv == IInv /\ Tables /\ DefaultIsExchange

LEMMA HeardTail ==
  ASSUME NEW q \in Seq(Methods), q # <<>>
  PROVE  /\ Heard(Tail(q)) \in SUBSET Heard(q)
         /\ Head(q).m \in {"channelOpenOk", "declareOk", "channelCloseOk"} => Head(q) \in Heard(q)
<1>1. /\ Head(q) = q[1] /\ 1 \in DOMAIN q
      /\ DOMAIN Tail(q) = 1 .. Len(q) - 1 /\ DOMAIN q = 1 .. Len(q) /\ Len(q) \in Nat
      /\ \A i \in DOMAIN Tail(q) : Tail(q)[i] = q[i + 1]
  BY HeadTailProperties
<1>2. \A i \in DOMAIN Tail(q) : i + 1 \in DOMAIN q
  BY <1>1
<1>3. QED
  BY <1>1, <1>2 DEF Heard

LEMMA HeardAppend ==
  ASSUME NEW q \in Seq(Methods), NEW x
  PROVE  /\ Heard(Append(q, x)) \in SUBSET (Heard(q) \cup {x})
         /\ x.m \notin {"channelOpenOk", "declareOk", "channelCloseOk"} =>
              Heard(Append(q, x)) \in SUBSET Heard(q)
<1>1. /\ DOMAIN Append(q, x) = DOMAIN q \cup {Len(q) + 1} /\ Append(q, x)[Len(q) + 1] = x
      /\ \A i \in DOMAIN q : Append(q, x)[i] = q[i]
  BY AppendProperties
<1>2. QED
  BY <1>1 DEF Heard

LEMMA HeardOf ==
  ASSUME NEW q, NEW y \in Heard(q)
  PROVE  /\ y.m \in {"channelOpenOk", "declareOk", "channelCloseOk"}
         /\ \E k \in DOMAIN q : y = q[k]
BY DEF Heard

LEMMA HeardNoAnswer ==
  ASSUME NEW q, NEW c, NoAnswer(q, c)
  PROVE  \A y \in Heard(q) : y.channel = c => ~Answer(y)
BY HeardOf DEF NoAnswer

LEMMA KickHeard ==
  ASSUME NEW q \in Seq(Methods), Kick(q)
  PROVE  Heard(toClient') \in SUBSET Heard(q) /\ kicked'
<1> DEFINE x == Method(0, "connectionClose", "")
<1>1. x.m \notin {"channelOpenOk", "declareOk", "channelCloseOk"}
  BY DEF Method
<1>2. toClient' = Append(q, x) /\ kicked'
  BY DEF Kick
<1> HIDE DEF x
<1>3. QED
  BY <1>1, <1>2, HeardAppend

LEMMA RequestsHeard ==
  ASSUME NEW q \in Seq(Methods), NEW c, Requests(c, q)
  PROVE  /\ Heard(toClient') \in SUBSET Heard(q) /\ (kicked => kicked')
         /\ c \notin DOMAIN server => kicked'
<1>1. CASE c \notin DOMAIN server /\ ~kicked /\ Kick(q)
  BY <1>1, KickHeard
<1>2. CASE (c \in DOMAIN server \/ kicked) /\ Silence(q)
  BY <1>2 DEF Silence
<1>3. CASE /\ c \in DOMAIN server
           /\ toClient' = Append(q, Method(c, "channelClose", ""))
           /\ UNCHANGED kicked
  <2> DEFINE x == Method(c, "channelClose", "")
  <2>1. x.m \notin {"channelOpenOk", "declareOk", "channelCloseOk"}
    BY DEF Method
  <2>2. toClient' = Append(q, x)
    BY <1>3
  <2> HIDE DEF x
  <2>3. QED
    BY <1>3, <2>1, <2>2, HeardAppend
<1>4. QED
  BY <1>1, <1>2, <1>3 DEF Requests

LEMMA OpensHeard ==
  ASSUME toClient \in Seq(Methods), NEW c, c \notin DOMAIN server, ServerOpens(c)
  PROVE  /\ \A y \in Heard(toClient') :
              y \in Heard(toClient) \/ (y.m = "channelOpenOk" /\ y.channel = c)
         /\ kicked' = kicked
<1>1. CASE Silence(toClient)
  BY <1>1 DEF Silence
<1>2. CASE /\ toClient' = Append(toClient, Method(c, "channelOpenOk", ""))
           /\ UNCHANGED kicked
  <2> DEFINE x == Method(c, "channelOpenOk", "")
  <2>1. x.m = "channelOpenOk" /\ x.channel = c
    BY DEF Method
  <2>2. toClient' = Append(toClient, x)
    BY <1>2
  <2> HIDE DEF x
  <2>3. Heard(toClient') \in SUBSET (Heard(toClient) \cup {x})
    BY <2>2, HeardAppend
  <2>4. QED
    BY <1>2, <2>1, <2>3
<1>3. QED
  BY <1>1, <1>2 DEF ServerOpens

LEMMA ClosesHeard ==
  ASSUME toClient \in Seq(Methods), NEW c, ServerCloses(c)
  PROVE  \/ Heard(toClient') \in SUBSET Heard(toClient) /\ (kicked => kicked')
         \/ /\ c \in DOMAIN server /\ UNCHANGED kicked
            /\ \E x : x.m = "channelCloseOk" /\ x.channel = c
                      /\ Heard(toClient') \in SUBSET (Heard(toClient) \cup {x})
<1>1. CASE Silence(toClient)
  BY <1>1 DEF Silence
<1>2. CASE Kick(toClient)
  BY <1>2, KickHeard
<1>3. CASE /\ c \in DOMAIN server /\ UNCHANGED kicked
           /\ toClient' = Append(toClient, Method(c, "channelCloseOk", ""))
  <2> DEFINE x == Method(c, "channelCloseOk", "")
  <2>1. x.m = "channelCloseOk" /\ x.channel = c
    BY DEF Method
  <2>2. toClient' = Append(toClient, x)
    BY <1>3
  <2> HIDE DEF x
  <2>3. Heard(toClient') \in SUBSET (Heard(toClient) \cup {x})
    BY <2>2, HeardAppend
  <2>4. QED
    BY <1>3, <2>1, <2>3
<1>4. QED
  BY <1>1, <1>2, <1>3 DEF ServerCloses

\* The name the broker gives to a declare of n.
GivenName(n, q, g) == IF n = "" THEN g \in ServerNamesLeft(q) ELSE g = n

LEMMA DeclaresHeard ==
  ASSUME NEW q \in Seq(Methods), NEW c, NEW n, Declares(c, n, q)
  PROVE  \/ Heard(toClient') \in SUBSET Heard(q) /\ (kicked => kicked')
         \/ /\ ~kicked /\ c \in DOMAIN server /\ UNCHANGED kicked
            /\ \E x : /\ x.m = "declareOk" /\ x.channel = c /\ GivenName(n, q, x.name)
                      /\ Heard(toClient') \in SUBSET (Heard(q) \cup {x})
<1>1. CASE Requests(c, q)
  BY <1>1, RequestsHeard
<1>2. CASE ~kicked /\ c \in DOMAIN server /\ server[c] = "open" /\ ~Requests(c, q)
  <2>1. CASE /\ n = "" => ServerNamesLeft(q) # {}
             /\ LET given == IF n = "" THEN CHOOSE s \in ServerNamesLeft(q) : TRUE ELSE n
                IN toClient' = Append(q, Method(c, "declareOk", given))
             /\ UNCHANGED <<server, kicked>>
    <3> DEFINE given == IF n = "" THEN CHOOSE s \in ServerNamesLeft(q) : TRUE ELSE n
    <3>1. GivenName(n, q, given)
      BY <2>1 DEF GivenName
    <3>2. toClient' = Append(q, Method(c, "declareOk", given)) /\ UNCHANGED kicked
      BY <2>1
    <3> HIDE DEF given
    <3> DEFINE x == Method(c, "declareOk", given)
    <3>3. x.m = "declareOk" /\ x.channel = c /\ x.name = given
      BY DEF Method
    <3>4. toClient' = Append(q, x)
      BY <3>2
    <3> HIDE DEF x
    <3>5. Heard(toClient') \in SUBSET (Heard(q) \cup {x})
      BY <3>4, HeardAppend
    <3>6. QED
      BY <1>2, <3>1, <3>2, <3>3, <3>5
  <2>2. CASE /\ server' = [server EXCEPT ![c] = "closing"]
             /\ toClient' = Append(q, Method(c, "channelClose", ""))
             /\ UNCHANGED kicked
    BY <2>2, <1>2 DEF Requests
  <2>3. QED
    BY <2>1, <2>2, <1>2 DEF Declares
<1>3. QED
  BY <1>1, <1>2 DEF Declares

LEMMA DestroysMore ==
  ASSUME NEW S, NEW todo \in Seq(S), NEW op
  PROVE  /\ op = "destroy" => Destroys(Append(todo, op)) = Destroys(todo) + 1
         /\ op # "destroy" => Destroys(Append(todo, op)) = Destroys(todo)
<1> DEFINE s == Append(todo, op)
           T == {k \in DOMAIN todo : todo[k] = "destroy"}
           U == {k \in DOMAIN s : s[k] = "destroy"}
           l == Len(todo) + 1
<1>1. /\ DOMAIN s = DOMAIN todo \cup {l} /\ s[l] = op /\ l \notin DOMAIN todo
      /\ \A i \in DOMAIN todo : s[i] = todo[i]
  BY AppendProperties
<1>2. IsFiniteSet(T)
  <2>1. IsFiniteSet(1 .. Len(todo))
    BY FS_Interval
  <2>2. T \subseteq 1 .. Len(todo)
    OBVIOUS
  <2>3. QED
    BY <2>1, <2>2, FS_Subset
<1>3. CASE op = "destroy"
  <2>1. U = T \cup {l} /\ l \notin T
    BY <1>1, <1>3
  <2>2. Cardinality(U) = Cardinality(T) + 1
    BY <1>2, <2>1, FS_AddElement
  <2>3. QED
    BY <1>3, <2>2 DEF Destroys
<1>4. CASE op # "destroy"
  <2>1. U = T
    BY <1>1, <1>4
  <2>2. Cardinality(T) \in Nat
    BY <1>2, FS_CardinalityType
  <2>3. QED
    BY <1>4, <2>1, <2>2 DEF Destroys
<1>5. QED
  BY <1>3, <1>4

\* Sequences of objects have what the invariant needs of them.
LEMMA ObjectIs ==
  ASSUME NEW o \in Objects
  PROVE  Fields(o) /\ o.exchange \in 0 .. Len(objs) /\ o.todo \in Seq({"destroy", "request"})
BY DEF Objects, Fields

LEMMA ObjectsListed ==
  ASSUME NEW os \in Seq(Objects), Len(os) = Len(objs)
  PROVE  Listed(os)
<1>1. Len(os) \in Nat /\ DOMAIN os = 1 .. Len(os)
  OBVIOUS
<1>2. ASSUME NEW i \in DOMAIN os
      PROVE  Fields(os[i]) /\ os[i].exchange \in 0 .. Len(os)
  BY ElementOfSeq, ObjectIs
<1>3. QED
  BY <1>1, <1>2 DEF Listed

\* A flush, as a step of the objects.
LEMMA SentFields ==
  ASSUME NEW o \in Objects, NEW b \in BOOLEAN
  PROVE  /\ Sent(o, b).todo = <<>> /\ Sent(o, b).destroyed = b
         /\ Sent(o, b).name = o.name /\ Sent(o, b).exchange = o.exchange /\ Sent(o, b).kind = o.kind
         /\ Sent(o, b).state = o.state /\ Sent(o, b).refused = o.refused
         /\ Sent(o, b).destroys = o.destroys /\ Sent(o, b).closes = o.closes
         /\ Sent(o, b).binds = o.binds /\ Sent(o, b).gen = o.gen /\ Sent(o, b).channel = o.channel
BY DEF Objects, Sent

LEMMA CountedFields ==
  ASSUME NEW o \in Objects, NEW b
  PROVE  /\ [o EXCEPT !.binds = b].binds = b
         /\ [o EXCEPT !.binds = b].todo = o.todo /\ [o EXCEPT !.binds = b].destroyed = o.destroyed
         /\ [o EXCEPT !.binds = b].name = o.name /\ [o EXCEPT !.binds = b].exchange = o.exchange
         /\ [o EXCEPT !.binds = b].kind = o.kind
         /\ [o EXCEPT !.binds = b].state = o.state /\ [o EXCEPT !.binds = b].refused = o.refused
         /\ [o EXCEPT !.binds = b].destroys = o.destroys /\ [o EXCEPT !.binds = b].closes = o.closes
         /\ [o EXCEPT !.binds = b].gen = o.gen /\ [o EXCEPT !.binds = b].channel = o.channel
BY DEF Objects

LEMMA FlushMoves ==
  ASSUME NEW os \in Seq(Objects), NEW i \in DOMAIN os, Len(os) = Len(objs),
         NEW qs, Table(qs, Names), Table(exchanges, Names), NEW q, TasksFlush(i, os, qs, q)
  PROVE  \/ objs' = os /\ queues' = qs /\ exchanges' = exchanges /\ Silence(q)
         \/ Requests(os[i].channel, q) /\ FlushOf(os, objs', i, qs, queues', exchanges, exchanges')
<1> DEFINE o == os[i]
           k == Destroys(o.todo)
           x == o.exchange
           sent == [os EXCEPT ![i].todo = <<>>, ![i].destroyed = @ \/ k > 0]
<1>1. o \in Objects
  BY ElementOfSeq
<1>2. /\ o.todo \in Seq({"destroy", "request"}) /\ o.destroyed \in BOOLEAN
      /\ x \in 0 .. Len(os)
  BY <1>1 DEF Objects
<1>3. k \in Nat
  BY <1>2, DestroysType
<1>4. CASE o.state # "open" \/ o.todo = <<>>
  <2>1. objs' = os /\ queues' = qs /\ Silence(q) /\ exchanges' = exchanges
    BY <1>4 DEF TasksFlush
  <2>2. QED
    BY <2>1
<1>5. CASE ~(o.state # "open" \/ o.todo = <<>>)
  <2>1. /\ Requests(o.channel, q)
        /\ queues' = IF k > 0 /\ o.kind = "queue" THEN Without(qs, o.name) ELSE qs
        /\ objs' = IF x = 0 THEN sent ELSE [sent EXCEPT ![x].binds = @ - k]
        /\ exchanges' =
             IF k > 0 /\ o.kind = "exchange" THEN Without(exchanges, o.name)
             ELSE IF x # 0 /\ \E j \in 1 .. k : Unused(os[x].binds - j)
                  THEN Without(exchanges, os[x].name) ELSE exchanges
    BY <1>5 DEF TasksFlush
  <2>2. Gone(os, i, k, exchanges, exchanges')
    BY <2>1 DEF Gone, Unused
  <2>3. PICK b \in BOOLEAN : b = (o.destroyed \/ k > 0)
    OBVIOUS
  <2>4. PICK p : p = Sent(o, b)
    OBVIOUS
  <2>5. /\ p \in Objects
        /\ p.todo = <<>> /\ p.destroyed = b
        /\ p.name = o.name /\ p.exchange = o.exchange /\ p.kind = o.kind
        /\ p.state = o.state /\ p.refused = o.refused
        /\ p.destroys = o.destroys /\ p.closes = o.closes
        /\ p.binds = o.binds /\ p.gen = o.gen /\ p.channel = o.channel
    BY <1>1, <2>4, SentIs, SentFields
  <2>6. sent = [os EXCEPT ![i] = p]
    BY <2>3, <2>4 DEF Sent
  <2> HIDE DEF sent
  <2>7. /\ sent \in Seq(Objects) /\ DOMAIN sent = DOMAIN os /\ Len(sent) = Len(os)
        /\ \A j \in DOMAIN os : sent[j] = IF j = i THEN p ELSE os[j]
    BY <2>5, <2>6
  <2>8. /\ objs' \in Seq(Objects) /\ DOMAIN objs' = DOMAIN os /\ Len(objs') = Len(os)
        /\ \A j \in DOMAIN os :
             /\ objs'[j].todo = sent[j].todo /\ objs'[j].destroyed = sent[j].destroyed
             /\ objs'[j].name = sent[j].name /\ objs'[j].exchange = sent[j].exchange
             /\ objs'[j].kind = sent[j].kind
             /\ objs'[j].state = sent[j].state /\ objs'[j].refused = sent[j].refused
             /\ objs'[j].destroys = sent[j].destroys /\ objs'[j].closes = sent[j].closes
             /\ objs'[j].gen = sent[j].gen /\ objs'[j].channel = sent[j].channel
             /\ objs'[j].binds = IF j = x THEN sent[j].binds - k ELSE sent[j].binds
    <3>1. CASE x = 0
      <4>1. objs' = sent /\ 0 \notin DOMAIN os
        BY <2>1, <3>1
      <4>2. QED
        BY <2>7, <3>1, <4>1
    <3>2. CASE x # 0
      <4>1. x \in DOMAIN sent
        BY <1>2, <2>7, <3>2
      <4>2. sent[x] \in Objects
        BY <2>7, <4>1, ElementOfSeq
      <4>3. sent[x].binds \in Int
        BY <4>2 DEF Objects
      <4>4. PICK e \in Int : e = sent[x].binds - k
        BY <1>3, <4>3
      <4>5. PICK r : r = [sent[x] EXCEPT !.binds = e]
        OBVIOUS
      <4>6. /\ r \in Objects /\ r.binds = e
            /\ r.todo = sent[x].todo /\ r.destroyed = sent[x].destroyed
            /\ r.name = sent[x].name /\ r.exchange = sent[x].exchange /\ r.kind = sent[x].kind
            /\ r.state = sent[x].state /\ r.refused = sent[x].refused
            /\ r.destroys = sent[x].destroys /\ r.closes = sent[x].closes
            /\ r.gen = sent[x].gen /\ r.channel = sent[x].channel
        BY <4>2, <4>5, CountedIs, CountedFields
      <4>7. objs' = [sent EXCEPT ![x] = r]
        BY <2>1, <3>2, <4>1, <4>4, <4>5
      <4>8. /\ objs' \in Seq(Objects) /\ DOMAIN objs' = DOMAIN os /\ Len(objs') = Len(os)
            /\ \A j \in DOMAIN os : objs'[j] = IF j = x THEN r ELSE sent[j]
        BY <2>7, <4>1, <4>6, <4>7
      <4>9. ASSUME NEW j \in DOMAIN os
            PROVE  /\ objs'[j].todo = sent[j].todo /\ objs'[j].destroyed = sent[j].destroyed
                   /\ objs'[j].name = sent[j].name /\ objs'[j].exchange = sent[j].exchange
                   /\ objs'[j].kind = sent[j].kind
                   /\ objs'[j].state = sent[j].state /\ objs'[j].refused = sent[j].refused
                   /\ objs'[j].destroys = sent[j].destroys /\ objs'[j].closes = sent[j].closes
                   /\ objs'[j].gen = sent[j].gen /\ objs'[j].channel = sent[j].channel
                   /\ objs'[j].binds = IF j = x THEN sent[j].binds - k ELSE sent[j].binds
        <5>1. CASE j = x
          BY <4>4, <4>6, <4>8, <5>1
        <5>2. CASE j # x
          BY <4>8, <5>2
        <5>3. QED
          BY <5>1, <5>2
      <4>10. QED
        BY <4>8, <4>9
    <3>3. QED
      BY <3>1, <3>2
  <2>9. Listed(os) /\ Listed(objs')
    BY <2>8, ObjectsListed
  <2> HIDE DEF x, k
  <2>10. ASSUME NEW j \in DOMAIN os
         PROVE  /\ objs'[j].name = os[j].name /\ objs'[j].exchange = os[j].exchange
                /\ objs'[j].kind = os[j].kind
                /\ objs'[j].state = os[j].state /\ objs'[j].refused = os[j].refused
                /\ objs'[j].destroys = os[j].destroys /\ objs'[j].closes = os[j].closes
                /\ objs'[j].gen = os[j].gen /\ objs'[j].channel = os[j].channel
                /\ objs'[j].binds = (IF j = x THEN os[j].binds - k ELSE os[j].binds)
                /\ j # i => objs'[j].destroyed = os[j].destroyed /\ objs'[j].todo = os[j].todo
                /\ j = i => objs'[j].destroyed = b /\ objs'[j].todo = <<>>
    <3>1. CASE j = i
      BY <2>5, <2>7, <2>8, <3>1
    <3>2. CASE j # i
      BY <2>7, <2>8, <3>2
    <3>3. QED
      BY <3>1, <3>2
  <2>11. Later(os, objs')
    <3>1. ASSUME NEW j \in DOMAIN os
          PROVE  Older(os[j], objs'[j])
      <4>1. Fields(os[j])
        BY <2>9 DEF Listed
      <4>2. os[j].destroyed => objs'[j].destroyed
        BY <2>3, <2>10
      <4>3. QED
        BY <2>10, <4>1, <4>2 DEF Older, Fields
    <3>2. QED
      BY <2>8, <2>9, <3>1 DEF Later
  <2>12. Flushed(os, objs', i, k)
    <3>1. os[i].exchange = x
      BY DEF x
    <3>2. objs'[i].destroyed = (os[i].destroyed \/ k > 0) /\ objs'[i].todo = <<>>
      BY <2>3, <2>10
    <3>3. QED
      BY <2>10, <3>1, <3>2 DEF Flushed
  <2>13. os[i].state = "open"
    BY <1>5
  <2>14. FlushOf(os, objs', i, qs, queues', exchanges, exchanges')
    BY <2>1, <2>2, <2>11, <2>12, <2>13 DEF FlushOf, k
  <2>15. QED
    BY <2>1, <2>14
<1>6. QED
  BY <1>4, <1>5

\* What a flush keeps.
LEMMA TabledFlushed ==
  ASSUME NEW os \in Seq(Objects), NEW i \in DOMAIN os, Len(os) = Len(objs),
         NEW qs, Table(qs, Names), Table(exchanges, Names),
         NEW q \in Seq(Methods), TasksFlush(i, os, qs, q), NEW s,
         Tabled(gen, os, channels, qs, exchanges, kicked, Heard(q), s),
         os[i].gen # gen => os[i].channel \notin DOMAIN server,
         ~s /\ os[i].kind = "queue" => os[i].gen = gen
  PROVE  /\ Tabled(gen, objs', channels, queues', exchanges', kicked', Heard(toClient'), s)
         /\ Later(os, objs')
<1>1. Listed(os)
  BY ObjectsListed
<1>2. CASE objs' = os /\ queues' = qs /\ exchanges' = exchanges /\ Silence(q)
  BY <1>1, <1>2, LaterSelf DEF Silence
<1>3. CASE /\ Requests(os[i].channel, q)
           /\ FlushOf(os, objs', i, qs, queues', exchanges, exchanges')
  <2>1. /\ Heard(toClient') \in SUBSET Heard(q) /\ (kicked => kicked')
        /\ os[i].channel \notin DOMAIN server => kicked'
    BY <1>3, RequestsHeard
  <2>2. kicked' \/ os[i].gen = gen
    BY <2>1
  <2>3. s \/ os[i].kind # "queue" \/ os[i].gen = gen
    OBVIOUS
  <2>4. Later(os, objs')
    BY <1>3 DEF FlushOf
  <2>5. QED
    BY <1>3, <2>1, <2>2, <2>3, <2>4, TabledFlush
<1>4. QED
  BY <1>2, <1>3, FlushMoves

LEMMA LaterTwice ==
  ASSUME NEW os, NEW ms, NEW ns, Later(os, ms), Later(ms, ns)
  PROVE  Later(os, ns)
<1>1. /\ Listed(os) /\ Listed(ms) /\ Listed(ns) /\ Len(ns) = Len(os) /\ DOMAIN ms = DOMAIN os
      /\ \A i \in DOMAIN os : Older(os[i], ms[i])
      /\ \A i \in DOMAIN ms : Older(ms[i], ns[i])
  BY LaterIs DEF Later
<1>2. DOMAIN ns = DOMAIN os
  BY LaterIs
<1>3. ASSUME NEW i \in DOMAIN os
      PROVE  Older(os[i], ns[i])
  <2>1. Older(os[i], ms[i]) /\ Older(ms[i], ns[i]) /\ Fields(os[i]) /\ Fields(ms[i]) /\ Fields(ns[i])
    BY <1>1, <1>2 DEF Listed
  <2>2. QED
    BY <2>1 DEF Older, Fields
<1>4. QED
  BY <1>1, <1>3 DEF Later

LEMMA TypeListed ==
  ASSUME TypeOK
  PROVE  objs \in Seq(Objects) /\ Listed(objs) /\ Ids = DOMAIN objs /\ Ids = 1 .. Len(objs)
<1>1. objs \in Seq(Objects)
  BY DEF TypeOK
<1>2. Listed(objs)
  BY <1>1, ObjectsListed
<1>3. QED
  BY <1>1, <1>2 DEF Ids, Listed

LEMMA TypeListedNext ==
  ASSUME TypeOK'
  PROVE  Listed(objs')
<1>1. objs' \in Seq(Objects') /\ Len(objs') \in Nat /\ DOMAIN objs' = 1 .. Len(objs')
  BY DEF TypeOK
<1>2. ASSUME NEW i \in DOMAIN objs'
      PROVE  Fields(objs'[i]) /\ objs'[i].exchange \in 0 .. Len(objs')
  <2>1. objs'[i] \in Objects'
    BY <1>1, ElementOfSeq
  <2>2. QED
    BY <2>1 DEF Objects, Fields
<1>3. QED
  BY <1>1, <1>2 DEF Listed

\* Whose the channels are.
LEMMA OwnChannels ==
  ASSUME IInv, NEW i \in Ids
  PROVE  /\ objs[i].gen # gen => objs[i].channel \notin DOMAIN server
         /\ objs[i].channel \in DOMAIN channels => channels[objs[i].channel] = i /\ objs[i].gen = gen
         /\ DOMAIN server \subseteq DOMAIN channels
<1>1. DOMAIN server \subseteq DOMAIN channels
  BY DEF IInv, Broker
<1>2. ASSUME objs[i].channel \in DOMAIN channels
      PROVE  channels[objs[i].channel] = i /\ objs[i].gen = gen
  BY <1>2, OwnerIs DEF IInv, Numbered
<1>3. QED
  BY <1>1, <1>2

\* o: the object p with a task op more.
Tasked(p, o, op) ==
  /\ o.kind = p.kind /\ o.gen = p.gen /\ o.channel = p.channel /\ o.name = p.name
  /\ o.state = p.state /\ o.refused = p.refused /\ o.destroyed = p.destroyed
  /\ o.closes = p.closes /\ o.exchange = p.exchange /\ o.binds = p.binds
  /\ o.todo = Append(p.todo, op)
  /\ op = "destroy" => o.destroys = p.destroys + 1
  /\ op # "destroy" => o.destroys = p.destroys

LEMMA TaskQuiet ==
  ASSUME TypeOK, NEW i \in Ids, NEW op, NEW o \in Objects, Tasked(objs[i], o, op),
         NEW os, os = [objs EXCEPT ![i] = o], NEW p
  PROVE  /\ os \in Seq(Objects) /\ Len(os) = Len(objs) /\ i \in DOMAIN os /\ os[i] = o
         /\ Later(objs, os) /\ Quiet(objs, os, i, p)
<1>1. /\ objs \in Seq(Objects) /\ Listed(objs) /\ i \in DOMAIN objs /\ Fields(objs[i])
      /\ objs[i].todo \in Seq({"destroy", "request"}) /\ objs[i].destroys \in Nat
  BY TypeListed, TypeOfChannel DEF Listed
<1>2. /\ os \in Seq(Objects) /\ Len(os) = Len(objs) /\ DOMAIN os = DOMAIN objs
      /\ \A j \in DOMAIN objs : os[j] = IF j = i THEN o ELSE objs[j]
  BY <1>1
<1>3. Listed(os)
  BY <1>2, ObjectsListed
<1>4. Later(objs, os)
  <2>1. ASSUME NEW j \in DOMAIN objs
        PROVE  Older(objs[j], os[j])
    <3>1. CASE j = i
      BY <1>1, <1>2, <3>1 DEF Older, Tasked, Fields
    <3>2. CASE j # i
      <4>1. os[j] = objs[j] /\ Fields(objs[j])
        BY <1>1, <1>2, <3>2 DEF Listed
      <4>2. QED
        BY <4>1 DEF Older, Fields
    <3>3. QED
      BY <3>1, <3>2
  <2>2. QED
    BY <1>1, <1>2, <1>3, <2>1 DEF Later
<1>5. ASSUME Ordered(objs, i, Destroys(objs[i].todo))
      PROVE  Ordered(os, i, Destroys(os[i].todo))
  <2>1. /\ Destroys(objs[i].todo) \in Nat /\ Destroys(objs[i].todo) <= objs[i].destroys
        /\ objs[i].destroyed => Destroys(objs[i].todo) < objs[i].destroys
    BY <1>5 DEF Ordered
  <2>2. os[i] = o /\ os[i].todo = Append(objs[i].todo, op) /\ os[i].destroyed = objs[i].destroyed
    BY <1>1, <1>2 DEF Tasked
  <2>3. /\ op = "destroy" => Destroys(Append(objs[i].todo, op)) = Destroys(objs[i].todo) + 1
        /\ op # "destroy" => Destroys(Append(objs[i].todo, op)) = Destroys(objs[i].todo)
    BY <1>1, DestroysMore
  <2>4. CASE op = "destroy"
    <3>1. Destroys(os[i].todo) = Destroys(objs[i].todo) + 1 /\ os[i].destroys = objs[i].destroys + 1
      BY <2>2, <2>4, <2>3 DEF Tasked
    <3>2. QED
      BY <1>1, <2>1, <2>2, <3>1 DEF Ordered
  <2>5. CASE op # "destroy"
    <3>1. Destroys(os[i].todo) = Destroys(objs[i].todo) /\ os[i].destroys = objs[i].destroys
      BY <2>2, <2>5, <2>3 DEF Tasked
    <3>2. QED
      BY <1>1, <2>1, <2>2, <3>1 DEF Ordered
  <2>6. QED
    BY <2>4, <2>5
<1>6. Quiet(objs, os, i, p)
  <2>1. ASSUME NEW j \in DOMAIN objs
        PROVE  /\ os[j].name = objs[j].name /\ os[j].exchange = objs[j].exchange /\ os[j].binds = objs[j].binds
               /\ os[j].destroyed = objs[j].destroyed
               /\ j # i => os[j].state = objs[j].state /\ os[j].todo = objs[j].todo
                   /\ os[j].refused = objs[j].refused /\ os[j].destroys = objs[j].destroys
    <3>1. CASE j = i
      BY <1>2, <3>1 DEF Tasked
    <3>2. CASE j # i
      BY <1>2, <3>2
    <3>3. QED
      BY <3>1, <3>2
  <2>2. os[i].state = objs[i].state /\ os[i].refused = objs[i].refused
    BY <1>1, <1>2 DEF Tasked
  <2>3. QED
    BY <1>5, <2>1, <2>2 DEF Quiet
<1>7. QED
  BY <1>1, <1>2, <1>4, <1>6

\* As many objects.
AsMany(os) == os \in Seq(Objects) /\ Len(os) = Len(objs)
Spoken(q) == q \in Seq(Methods)

\* Object i changes, or gets a task, and is flushed.  It is an exchange, or of
\* this connection, unless that is noted.
LEMMA QuietFlush ==
  ASSUME IInv, Tables, NEW i \in Ids, NEW os, AsMany(os), Later(objs, os),
         NEW q, Spoken(q), Heard(q) \in SUBSET Heard(toClient), Quiet(objs, os, i, Heard(q)),
         TasksFlush(i, os, queues, q),
         UNCHANGED <<gen, channels>>, misuse \subseteq misuse',
         Stale' \/ objs[i].kind # "queue" \/ objs[i].gen = gen
  PROVE  Tables' /\ Later(objs, objs')
<1>1. (Stale => Stale') /\ i \in DOMAIN objs /\ i \in DOMAIN os
  BY LaterIs DEF Stale, Ids
<1>2. Tabled(gen, objs, channels, queues, exchanges, kicked, Heard(toClient), Stale)
  BY DEF Tables
<1>3. PICK s : s = Stale'
  OBVIOUS
<1>4. Tabled(gen, os, channels, queues, exchanges, kicked, Heard(q), s)
  <2>1. Stale => s
    BY <1>1, <1>3
  <2>2. QED
    BY <1>1, <1>2, <2>1, TabledQuiet
<1>5. Older(objs[i], os[i])
  BY <1>1 DEF Later
<1>6. os[i].gen # gen => os[i].channel \notin DOMAIN server
  BY <1>5, OwnChannels DEF Older
<1>7. ~s /\ os[i].kind = "queue" => os[i].gen = gen
  BY <1>3, <1>5 DEF Older
<1>8. Table(queues, Names) /\ Table(exchanges, Names)
  BY TypesOf DEF IInv
<1>9. /\ Tabled(gen, objs', channels, queues', exchanges', kicked', Heard(toClient'), s)
      /\ Later(os, objs')
  BY <1>1, <1>4, <1>6, <1>7, <1>8, TabledFlushed DEF AsMany, Spoken
<1>10. QED
  BY <1>3, <1>9, LaterTwice DEF Tables

LEMMA TaskTables ==
  ASSUME IInv, Tables, NEW i \in Ids, NEW op \in {"destroy", "request"}, Task(i, op)
  PROVE  Tables' /\ Later(objs, objs')
<1>1. TypeOK /\ i \in DOMAIN objs
  BY DEF IInv, Ids
<1>2. /\ UNCHANGED <<gen, channels>> /\ misuse' = misuse \cup Misuse(i, op)
      /\ TasksFlush(i, [objs EXCEPT ![i].todo = Append(@, op),
                                    ![i].destroys = IF op = "destroy" THEN @ + 1 ELSE @], queues, toClient)
  BY DEF Task, Called
<1>3. PICK d : d = IF op = "destroy" THEN objs[i].destroys + 1 ELSE objs[i].destroys
  OBVIOUS
<1>4. PICK t \in Seq({"destroy", "request"}) : t = Append(objs[i].todo, op)
  BY <1>1, TypeOfChannel, AppendProperties
<1>5. PICK o : o = [[objs[i] EXCEPT !.todo = t] EXCEPT !.destroys = d]
  OBVIOUS
<1>6. o \in Objects /\ Tasked(objs[i], o, op)
  <2>1. objs[i] \in Objects /\ objs[i].destroys \in Nat
    BY <1>1, TypeOfChannel
  <2>2. d \in Nat
    BY <1>3, <2>1
  <2>3. o \in Objects
    BY <1>5, <2>1, <2>2 DEF Objects
  <2>4. /\ o.kind = objs[i].kind /\ o.gen = objs[i].gen /\ o.channel = objs[i].channel
        /\ o.name = objs[i].name
        /\ o.state = objs[i].state /\ o.refused = objs[i].refused /\ o.destroyed = objs[i].destroyed
        /\ o.closes = objs[i].closes /\ o.exchange = objs[i].exchange /\ o.binds = objs[i].binds
        /\ o.todo = t /\ o.destroys = d
    BY <1>5, <2>1 DEF Objects
  <2>5. QED
    BY <1>3, <1>4, <2>3, <2>4 DEF Tasked
<1>7. PICK os : os = [objs EXCEPT ![i] = o]
  OBVIOUS
<1>8. TasksFlush(i, os, queues, toClient)
  <2>1. os = [objs EXCEPT ![i].todo = Append(@, op),
                          ![i].destroys = IF op = "destroy" THEN @ + 1 ELSE @]
    BY <1>1, <1>3, <1>4, <1>5, <1>7
  <2>2. QED
    BY <1>2, <2>1
<1>9. AsMany(os) /\ Later(objs, os) /\ Quiet(objs, os, i, Heard(toClient))
  BY <1>1, <1>6, <1>7, TaskQuiet DEF AsMany
<1>10. Stale' \/ objs[i].gen = gen
  BY <1>2 DEF Stale, Misuse
<1>11. Spoken(toClient)
  BY <1>1, TypesOf DEF Spoken, ServerTyped
<1>12. misuse \subseteq misuse'
  BY <1>2
<1>13. QED
  BY <1>2, <1>8, <1>9, <1>10, <1>11, <1>12, QuietFlush

LEMMA PublishByTables ==
  ASSUME IInv, Tables, NEW i \in Ids, objs[i].kind = "exchange", UNCHANGED gen, PublishBy(i)
  PROVE  Tables' /\ Later(objs, objs')
<1>1. TypeOK /\ i \in DOMAIN objs
  BY DEF IInv, Ids
<1>2. /\ UNCHANGED <<gen, channels>> /\ misuse \subseteq misuse'
      /\ TasksFlush(i, [objs EXCEPT ![i].todo = Append(@, "request")], queues, toClient)
  BY DEF PublishBy
<1>3. "request" \in {"destroy", "request"}
  OBVIOUS
<1>4. PICK t \in Seq({"destroy", "request"}) : t = Append(objs[i].todo, "request")
  BY <1>1, <1>3, TypeOfChannel, AppendProperties
<1>5. PICK o : o = [objs[i] EXCEPT !.todo = t]
  OBVIOUS
<1>6. o \in Objects /\ Tasked(objs[i], o, "request")
  <2>1. objs[i] \in Objects
    BY <1>1, TypeOfChannel
  <2>2. o \in Objects
    BY <1>5, <2>1 DEF Objects
  <2>3. /\ o.kind = objs[i].kind /\ o.gen = objs[i].gen /\ o.channel = objs[i].channel
        /\ o.name = objs[i].name
        /\ o.state = objs[i].state /\ o.refused = objs[i].refused /\ o.destroyed = objs[i].destroyed
        /\ o.closes = objs[i].closes /\ o.exchange = objs[i].exchange /\ o.binds = objs[i].binds
        /\ o.todo = t /\ o.destroys = objs[i].destroys
    BY <1>5, <2>1 DEF Objects
  <2>4. QED
    BY <1>4, <2>2, <2>3 DEF Tasked
<1>7. PICK os : os = [objs EXCEPT ![i] = o]
  OBVIOUS
<1>8. TasksFlush(i, os, queues, toClient)
  <2>1. os = [objs EXCEPT ![i].todo = Append(@, "request")]
    BY <1>1, <1>4, <1>5, <1>7
  <2>2. QED
    BY <1>2, <2>1
<1>9. AsMany(os) /\ Later(objs, os) /\ Quiet(objs, os, i, Heard(toClient))
  BY <1>1, <1>6, <1>7, TaskQuiet DEF AsMany
<1>10. Spoken(toClient)
  BY <1>1, TypesOf DEF Spoken, ServerTyped
<1>11. QED
  BY <1>2, <1>8, <1>9, <1>10, QuietFlush

\* o: the object p in the state st, with closes c and refused or not.
Moved(p, o, st) ==
  /\ o.kind = p.kind /\ o.gen = p.gen /\ o.channel = p.channel /\ o.name = p.name
  /\ o.state = st /\ o.destroyed = p.destroyed
  /\ o.exchange = p.exchange /\ o.binds = p.binds
  /\ o.todo = p.todo /\ o.destroys = p.destroys
  /\ o.closes >= p.closes /\ (p.refused => o.refused)

\* What is required of the state it goes into, with p on its way.
MayMove(i, o, st, p) ==
  /\ st = "closed" => o.refused
  /\ st = "open" => objs[i].kind = "exchange" /\ \A x \in p : x.channel = objs[i].channel => ~Answer(x)

\* The state of object i changes.
LEMMA MoveLater ==
  ASSUME TypeOK, NEW i \in Ids, NEW st, NEW o \in Objects, Moved(objs[i], o, st),
         NEW os, os = [objs EXCEPT ![i] = o]
  PROVE  /\ AsMany(os) /\ Later(objs, os) /\ i \in DOMAIN objs /\ i \in DOMAIN os /\ os[i] = o
         /\ \A j \in DOMAIN objs : j # i => os[j] = objs[j]
<1>1. /\ objs \in Seq(Objects) /\ Listed(objs) /\ i \in DOMAIN objs /\ Fields(objs[i])
  BY TypeListed DEF Listed
<1>2. /\ os \in Seq(Objects) /\ Len(os) = Len(objs) /\ DOMAIN os = DOMAIN objs
      /\ \A j \in DOMAIN objs : os[j] = IF j = i THEN o ELSE objs[j]
  BY <1>1
<1>3. Listed(os) /\ Fields(o)
  BY <1>2, ObjectsListed, ObjectIs
<1>4. Later(objs, os)
  <2>1. ASSUME NEW j \in DOMAIN objs
        PROVE  Older(objs[j], os[j])
    <3>1. CASE j = i
      BY <1>1, <1>2, <1>3, <3>1 DEF Older, Moved, Fields
    <3>2. CASE j # i
      <4>1. os[j] = objs[j] /\ Fields(objs[j])
        BY <1>1, <1>2, <3>2 DEF Listed
      <4>2. QED
        BY <4>1 DEF Older, Fields
    <3>3. QED
      BY <3>1, <3>2
  <2>2. QED
    BY <1>1, <1>2, <1>3, <2>1 DEF Later
<1>5. QED
  BY <1>1, <1>2, <1>4 DEF AsMany

\* The state of an object changes, while no answer is on its way that it has to
\* be in another state for.
LEMMA MoveQuiet ==
  ASSUME TypeOK, NEW i \in Ids, NEW st, NEW o \in Objects, Moved(objs[i], o, st),
         NEW os, os = [objs EXCEPT ![i] = o], NEW p, MayMove(i, o, st, p)
  PROVE  AsMany(os) /\ i \in DOMAIN os /\ os[i] = o /\ Later(objs, os) /\ Quiet(objs, os, i, p)
<1>1. /\ AsMany(os) /\ Later(objs, os) /\ i \in DOMAIN objs /\ i \in DOMAIN os /\ os[i] = o
      /\ \A j \in DOMAIN objs : j # i => os[j] = objs[j]
  BY MoveLater
<1>2. Quiet(objs, os, i, p)
  <2>1. ASSUME NEW j \in DOMAIN objs
        PROVE  /\ os[j].name = objs[j].name /\ os[j].exchange = objs[j].exchange /\ os[j].binds = objs[j].binds
               /\ os[j].destroyed = objs[j].destroyed
               /\ j # i => os[j].state = objs[j].state /\ os[j].todo = objs[j].todo
                   /\ os[j].refused = objs[j].refused /\ os[j].destroys = objs[j].destroys
    <3>1. CASE j = i
      BY <1>1, <3>1 DEF Moved
    <3>2. CASE j # i
      BY <1>1, <3>2
    <3>3. QED
      BY <3>1, <3>2
  <2>2. /\ os[i].state = st /\ (objs[i].refused => os[i].refused) /\ os[i].refused = o.refused
        /\ os[i].todo = objs[i].todo /\ os[i].destroys = objs[i].destroys
        /\ os[i].destroyed = objs[i].destroyed
    BY <1>1 DEF Moved
  <2>3. Ordered(objs, i, Destroys(objs[i].todo)) => Ordered(os, i, Destroys(os[i].todo))
    BY <2>2 DEF Ordered
  <2>4. QED
    BY <2>1, <2>2, <2>3 DEF Quiet, MayMove
<1>3. QED
  BY <1>1, <1>2

\* The objects change as above, and the broker says nothing that is an answer.
LEMMA QuietStep ==
  ASSUME IInv, Tables, NEW i, i \in DOMAIN objs, Later(objs, objs'),
         NEW p, p \in SUBSET Heard(toClient), Quiet(objs, objs', i, p),
         UNCHANGED gen, misuse \subseteq misuse'
  PROVE  Tabled(gen', objs', channels, queues, exchanges, kicked, p, Stale')
<1>1. Tabled(gen, objs, channels, queues, exchanges, kicked, Heard(toClient), Stale)
  BY DEF Tables
<1>2. PICK s : s = Stale'
  OBVIOUS
<1>3. Stale => s
  BY <1>2 DEF Stale
<1>4. PICK ns : ns = objs'
  OBVIOUS
<1>5. Later(objs, ns) /\ Quiet(objs, ns, i, p)
  BY <1>4
<1>6. Tabled(gen, ns, channels, queues, exchanges, kicked, p, s)
  BY <1>1, <1>3, <1>5, TabledQuiet
<1>7. QED
  BY <1>2, <1>4, <1>6

LEMMA CloseTables ==
  ASSUME IInv, Tables, NEW i \in Ids, Close(i)
  PROVE  Tables' /\ Later(objs, objs')
<1> DEFINE c == objs[i].channel
<1>1. TypeOK /\ i \in DOMAIN objs /\ Numbered
  BY DEF IInv, Ids
<1>2. /\ UNCHANGED <<gen, channels, queues, exchanges>>
      /\ misuse \subseteq misuse'
      /\ ServerCloses(c)
      /\ objs' = [objs EXCEPT ![i].state = "closing", ![i].closes = @ + 1]
  BY DEF Close, Called
<1>3. objs[i] \in Objects /\ objs[i].closes \in Nat
  BY <1>1, TypeOfChannel
<1>4. PICK n \in Nat : n = objs[i].closes + 1 /\ n > 0 /\ n >= objs[i].closes
  BY <1>3
<1>5. PICK o : o = [[objs[i] EXCEPT !.state = "closing"] EXCEPT !.closes = n]
  OBVIOUS
<1>6. o \in Objects /\ Moved(objs[i], o, "closing") /\ o.closes > 0
  <2>1. o \in Objects
    BY <1>3, <1>4, <1>5 DEF Objects
  <2>2. /\ o.kind = objs[i].kind /\ o.gen = objs[i].gen /\ o.channel = objs[i].channel
        /\ o.name = objs[i].name
        /\ o.state = "closing" /\ o.refused = objs[i].refused /\ o.destroyed = objs[i].destroyed
        /\ o.exchange = objs[i].exchange /\ o.binds = objs[i].binds
        /\ o.todo = objs[i].todo /\ o.destroys = objs[i].destroys /\ o.closes = n
    BY <1>3, <1>5 DEF Objects
  <2>3. QED
    BY <1>4, <2>1, <2>2 DEF Moved
<1>7. objs' = [objs EXCEPT ![i] = o]
  BY <1>1, <1>2, <1>4, <1>5
<1>8. PICK ns : ns = objs'
  OBVIOUS
<1>9. /\ i \in DOMAIN objs' /\ objs'[i] = o
      /\ Later(objs, objs') /\ Quiet(objs, objs', i, Heard(toClient))
  <2>1. ns = [objs EXCEPT ![i] = o]
    BY <1>7, <1>8
  <2>2. MayMove(i, o, "closing", Heard(toClient))
    BY DEF MayMove
  <2>3. /\ i \in DOMAIN ns /\ ns[i] = o
        /\ Later(objs, ns) /\ Quiet(objs, ns, i, Heard(toClient))
    BY <1>1, <1>6, <2>1, <2>2, MoveQuiet
  <2>4. QED
    BY <1>8, <2>3
<1>10. Tabled(gen', objs', channels, queues, exchanges, kicked, Heard(toClient), Stale')
  BY <1>1, <1>2, <1>9, QuietStep
<1>11. Tabled(gen', ns, channels', queues', exchanges', kicked, Heard(toClient), Stale')
  BY <1>2, <1>8, <1>10
<1>12. toClient \in Seq(Methods)
  BY <1>1, TypesOf DEF ServerTyped
<1>13. CASE Heard(toClient') \in SUBSET Heard(toClient) /\ (kicked => kicked')
  <2>1. Tabled(gen', ns, channels', queues', exchanges', kicked', Heard(toClient'), Stale')
    BY <1>11, <1>13, TabledLess
  <2>2. QED
    BY <1>8, <1>9, <2>1 DEF Tables
<1>14. ASSUME c \in DOMAIN server, UNCHANGED kicked,
              NEW x, x.m = "channelCloseOk", x.channel = c,
              Heard(toClient') \in SUBSET (Heard(toClient) \cup {x})
       PROVE  Tables'
  <2>1. c \in DOMAIN channels' /\ channels'[c] = i
    BY <1>2, <1>14, OwnChannels
  <2>2. Awaits(ns, channels'[x.channel], x)
    BY <1>6, <1>8, <1>9, <1>14, <2>1 DEF Awaits, Answer, Moved
  <2>3. Tabled(gen', ns, channels', queues', exchanges', kicked, Heard(toClient'), Stale')
    BY <1>11, <1>14, <2>1, <2>2, TabledAnswer
  <2>4. QED
    BY <1>8, <1>14, <2>3 DEF Tables
<1>15. QED
  BY <1>2, <1>9, <1>12, <1>13, <1>14, ClosesHeard

LEMMA ChannelCloseTables ==
  ASSUME IInv, Tables, ChannelClose
  PROVE  Tables' /\ Later(objs, objs')
<1>1. /\ UNCHANGED <<gen, channels, queues, exchanges, kicked>> /\ misuse \subseteq misuse'
      /\ toClient' = Tail(toClient) /\ toClient # <<>> /\ Arrived.m = "channelClose"
      /\ objs' = [objs EXCEPT ![Receiver].state = "closed", ![Receiver].refused = TRUE]
  BY DEF ChannelClose, Receive, Silence, tables
<1>2. TypeOK /\ toClient \in Seq(Methods) /\ objs \in Seq(Objects)
  BY TypesOf DEF IInv, ServerTyped
<1>3. Receiver \in Ids /\ Receiver \in DOMAIN objs
  <2>1. Arrived.channel \in DOMAIN channels
    BY <1>1, <1>2, BrokerTail DEF IInv, Speaks, Arrived
  <2>2. QED
    BY <2>1, OwnerIs DEF Receiver, IInv, Ids
<1>4. PICK i \in Ids : i = Receiver /\ i \in DOMAIN objs
  BY <1>3
<1>5. objs[i] \in Objects
  BY <1>2, TypeOfChannel
<1>6. PICK o : o = [[objs[i] EXCEPT !.state = "closed"] EXCEPT !.refused = TRUE]
  OBVIOUS
<1>7. o \in Objects /\ Moved(objs[i], o, "closed") /\ o.refused
  <2>1. o \in Objects
    BY <1>5, <1>6 DEF Objects
  <2>2. /\ o.kind = objs[i].kind /\ o.gen = objs[i].gen /\ o.channel = objs[i].channel
        /\ o.name = objs[i].name
        /\ o.state = "closed" /\ o.refused = TRUE /\ o.destroyed = objs[i].destroyed
        /\ o.exchange = objs[i].exchange /\ o.binds = objs[i].binds
        /\ o.todo = objs[i].todo /\ o.destroys = objs[i].destroys /\ o.closes = objs[i].closes
    BY <1>5, <1>6 DEF Objects
  <2>3. objs[i].closes \in Nat
    BY <1>5 DEF Objects
  <2>4. QED
    BY <2>1, <2>2, <2>3 DEF Moved
<1>8. objs' = [objs EXCEPT ![i] = o]
  BY <1>1, <1>4, <1>6
<1>9. Heard(toClient') \in SUBSET Heard(toClient)
  BY <1>1, <1>2, HeardTail
<1>10. Later(objs, objs') /\ Quiet(objs, objs', i, Heard(toClient'))
  <2>1. PICK ns : ns = objs'
    OBVIOUS
  <2>2. MayMove(i, o, "closed", Heard(toClient'))
    BY <1>7 DEF MayMove
  <2>3. Later(objs, ns) /\ Quiet(objs, ns, i, Heard(toClient'))
    BY <1>2, <1>7, <1>8, <2>1, <2>2, MoveQuiet
  <2>4. QED
    BY <2>1, <2>3
<1>11. Tabled(gen', objs', channels, queues, exchanges, kicked, Heard(toClient'), Stale')
  BY <1>1, <1>4, <1>9, <1>10, QuietStep
<1>12. QED
  BY <1>1, <1>10, <1>11 DEF Tables

\* ns: the objects os, of which queue i is bound to x.
BoundStep(os, ns, i, x) ==
  /\ DOMAIN ns = DOMAIN os /\ Len(ns) = Len(os)
  /\ \A j \in DOMAIN os :
       /\ ns[j].kind = os[j].kind /\ ns[j].gen = os[j].gen /\ ns[j].channel = os[j].channel
       /\ ns[j].name = os[j].name /\ ns[j].state = os[j].state /\ ns[j].todo = os[j].todo
       /\ ns[j].refused = os[j].refused /\ ns[j].destroyed = os[j].destroyed
       /\ ns[j].destroys = os[j].destroys /\ ns[j].closes = os[j].closes
       /\ ns[j].exchange = (IF j = i THEN x ELSE os[j].exchange)
       /\ ns[j].binds = (IF j = x THEN os[j].binds + 1 ELSE os[j].binds)

LEMMA ReplacedAt ==
  ASSUME NEW S, NEW os \in Seq(S), NEW i \in DOMAIN os, NEW o \in S, NEW ns, ns = [os EXCEPT ![i] = o]
  PROVE  /\ ns \in Seq(S) /\ Len(ns) = Len(os) /\ DOMAIN ns = DOMAIN os
         /\ \A j \in DOMAIN os : ns[j] = IF j = i THEN o ELSE os[j]
OBVIOUS

LEMMA BoundStepIs ==
  ASSUME TypeOK, NEW i \in Ids, NEW x \in Ids, i # x,
         NEW ns, ns = [objs EXCEPT ![i].exchange = x, ![x].binds = Bound(@)]
  PROVE  AsMany(ns) /\ BoundStep(objs, ns, i, x)
<1>1. /\ i \in DOMAIN objs /\ x \in DOMAIN objs /\ objs[i] \in Objects /\ objs[x] \in Objects
      /\ objs \in Seq(Objects) /\ x \in 0 .. Len(objs) /\ objs[x].binds \in Int
  BY TypesOf, TypeOfChannel, TypeListed
<1>2. PICK p : p = [objs[i] EXCEPT !.exchange = x]
  OBVIOUS
<1>3. /\ p \in Objects /\ p.exchange = x /\ p.binds = objs[i].binds
      /\ p.kind = objs[i].kind /\ p.gen = objs[i].gen /\ p.channel = objs[i].channel
      /\ p.name = objs[i].name /\ p.state = objs[i].state /\ p.todo = objs[i].todo
      /\ p.refused = objs[i].refused /\ p.destroyed = objs[i].destroyed
      /\ p.destroys = objs[i].destroys /\ p.closes = objs[i].closes
  BY <1>1, <1>2 DEF Objects
<1>4. PICK b \in Int : b = objs[x].binds + 1
  BY <1>1
<1>5. PICK r : r = [objs[x] EXCEPT !.binds = b]
  OBVIOUS
<1>6. /\ r \in Objects /\ r.binds = b
      /\ r.todo = objs[x].todo /\ r.destroyed = objs[x].destroyed
      /\ r.name = objs[x].name /\ r.exchange = objs[x].exchange /\ r.kind = objs[x].kind
      /\ r.state = objs[x].state /\ r.refused = objs[x].refused
      /\ r.destroys = objs[x].destroys /\ r.closes = objs[x].closes
      /\ r.gen = objs[x].gen /\ r.channel = objs[x].channel
  BY <1>1, <1>5, CountedIs, CountedFields
<1>7. ns = [[objs EXCEPT ![i] = p] EXCEPT ![x] = r]
  BY <1>1, <1>2, <1>4, <1>5 DEF Bound
<1>8. /\ ns \in Seq(Objects) /\ Len(ns) = Len(objs) /\ DOMAIN ns = DOMAIN objs
      /\ \A j \in DOMAIN objs : ns[j] = IF j = x THEN r ELSE IF j = i THEN p ELSE objs[j]
  <2>1. PICK ms : ms = [objs EXCEPT ![i] = p]
    OBVIOUS
  <2>2. /\ ms \in Seq(Objects) /\ Len(ms) = Len(objs) /\ DOMAIN ms = DOMAIN objs
        /\ \A j \in DOMAIN objs : ms[j] = IF j = i THEN p ELSE objs[j]
    BY <1>1, <1>3, <2>1
  <2>3. ns = [ms EXCEPT ![x] = r]
    BY <1>7, <2>1
  <2>4. /\ ns \in Seq(Objects) /\ Len(ns) = Len(ms) /\ DOMAIN ns = DOMAIN ms
        /\ \A j \in DOMAIN ms : ns[j] = IF j = x THEN r ELSE ms[j]
    <3>1. x \in DOMAIN ms /\ ms \in Seq(Objects) /\ r \in Objects
      BY <1>1, <1>6, <2>2
    <3>2. \A ls : ls = [ms EXCEPT ![x] = r] =>
            /\ ls \in Seq(Objects) /\ Len(ls) = Len(ms) /\ DOMAIN ls = DOMAIN ms
            /\ \A j \in DOMAIN ms : ls[j] = IF j = x THEN r ELSE ms[j]
      BY <3>1, ReplacedAt
    <3>3. QED
      BY <2>3, <3>2
  <2>5. QED
    BY <2>2, <2>4
<1>9. ASSUME NEW j \in DOMAIN objs
      PROVE /\ ns[j].kind = objs[j].kind /\ ns[j].gen = objs[j].gen /\ ns[j].channel = objs[j].channel
            /\ ns[j].name = objs[j].name /\ ns[j].state = objs[j].state /\ ns[j].todo = objs[j].todo
            /\ ns[j].refused = objs[j].refused /\ ns[j].destroyed = objs[j].destroyed
            /\ ns[j].destroys = objs[j].destroys /\ ns[j].closes = objs[j].closes
            /\ ns[j].exchange = (IF j = i THEN x ELSE objs[j].exchange)
            /\ ns[j].binds = (IF j = x THEN objs[j].binds + 1 ELSE objs[j].binds)
  <2>1. CASE j = x
    <3>1. ns[j] = r /\ j # i
      BY <1>8, <2>1
    <3>2. QED
      BY <1>4, <1>6, <2>1, <3>1
  <2>2. CASE j = i
    <3>1. ns[j] = p /\ j # x
      BY <1>8, <2>2
    <3>2. QED
      BY <1>3, <2>2, <3>1
  <2>3. CASE j # x /\ j # i
    BY <1>8, <2>3
  <2>4. QED
    BY <2>1, <2>2, <2>3
<1>10. QED
  BY <1>8, <1>9 DEF AsMany, BoundStep

LEMMA BoundLater ==
  ASSUME TypeOK, NEW i, NEW x, NEW ns, AsMany(ns), BoundStep(objs, ns, i, x)
  PROVE  Later(objs, ns)
<1>1. Listed(objs) /\ Listed(ns)
  BY TypeListed, ObjectsListed DEF AsMany
<1>2. ASSUME NEW j \in DOMAIN objs
      PROVE  Older(objs[j], ns[j])
  <2>1. Fields(objs[j])
    BY <1>1 DEF Listed
  <2>2. QED
    BY <2>1 DEF Older, Fields, BoundStep
<1>3. QED
  BY <1>1, <1>2 DEF Later, BoundStep

LEMMA BindTables ==
  ASSUME IInv, Tables, NEW i \in Ids, NEW n, Bind(i, n)
  PROVE  Tables' /\ Later(objs, objs')
<1>1. /\ UNCHANGED <<gen, channels, queues, exchanges>> /\ misuse \subseteq misuse'
      /\ Requests(objs[i].channel, toClient) /\ objs[i].kind = "queue"
      /\ objs' = IF n \notin DOMAIN exchanges THEN objs
                 ELSE [objs EXCEPT ![i].exchange = exchanges[n],
                                   ![exchanges[n]].binds = Bound(@)]
  BY DEF Bind, Called
<1>2. Heard(toClient') \in SUBSET Heard(toClient) /\ (kicked => kicked')
  <2>1. toClient \in Seq(Methods)
    BY TypesOf DEF IInv, ServerTyped
  <2>2. QED
    BY <1>1, <2>1, RequestsHeard
<1>3. Tabled(gen, objs, channels, queues, exchanges, kicked, Heard(toClient), Stale)
  BY DEF Tables
<1>4. PICK s : s = Stale'
  OBVIOUS
<1>5. Stale => s
  BY <1>1, <1>4 DEF Stale
<1>6. CASE n \notin DOMAIN exchanges
  <2>1. objs' = objs
    BY <1>1, <1>6
  <2>2. Tabled(gen, objs, channels, queues, exchanges, kicked', Heard(toClient'), s)
    BY <1>2, <1>3, <1>5, TabledLess
  <2>3. Later(objs, objs)
    BY TypeListed, LaterSelf DEF IInv
  <2>4. QED
    BY <1>1, <1>4, <2>1, <2>2, <2>3 DEF Tables
<1>7. CASE n \in DOMAIN exchanges
  <2>1. PICK x : x = exchanges[n]
    OBVIOUS
  <2>2. x \in DOMAIN objs /\ objs[x].kind = "exchange"
    BY <1>3, <1>7, <2>1 DEF Tabled, Entries, EntryAt
  <2>3. PICK ns : ns = objs'
    OBVIOUS
  <2>4. AsMany(ns) /\ BoundStep(objs, ns, i, x)
    <3>1. ns = [objs EXCEPT ![i].exchange = x, ![x].binds = Bound(@)]
      BY <1>1, <1>7, <2>1, <2>3
    <3>2. i # x /\ x \in Ids
      BY <1>1, <2>2 DEF Ids
    <3>3. QED
      BY <3>1, <3>2, BoundStepIs DEF IInv
  <2>5. Later(objs, ns) /\ i \in DOMAIN objs
    BY <2>4, BoundLater DEF IInv, Ids
  <2>6. \A j \in DOMAIN objs :
           /\ ns[j].name = objs[j].name /\ ns[j].state = objs[j].state /\ ns[j].todo = objs[j].todo
           /\ ns[j].refused = objs[j].refused /\ ns[j].destroyed = objs[j].destroyed
           /\ ns[j].destroys = objs[j].destroys /\ ns[j].closes = objs[j].closes
           /\ ns[j].exchange = (IF j = i THEN exchanges[n] ELSE objs[j].exchange)
           /\ ns[j].binds = (IF j = exchanges[n] THEN objs[j].binds + 1 ELSE objs[j].binds)
    BY <2>1, <2>4 DEF BoundStep
  <2>7. Tabled(gen, ns, channels, queues, exchanges, kicked', Heard(toClient'), s)
    BY <1>1, <1>2, <1>3, <1>5, <1>7, <2>5, <2>6, TabledBound
  <2>8. QED
    BY <1>1, <1>4, <2>3, <2>5, <2>7 DEF Tables
<1>8. QED
  BY <1>6, <1>7

\* A new object enters the tables.
Enters(o) ==
  /\ objs' = Append(objs, o)
  /\ channels' = With(channels, NextChannel, Len(objs) + 1)
  /\ ServerOpens(NextChannel)
  /\ UNCHANGED <<gen, misuse>>
  /\ Entered(queues, queues', o, Len(objs) + 1)
  /\ \/ o.kind = "queue" /\ exchanges' = exchanges
     \/ /\ o.kind = "exchange" /\ o.name \notin DOMAIN exchanges
        /\ exchanges' = With(exchanges, o.name, Len(objs) + 1)

LEMMA EnterTables ==
  ASSUME IInv, Tables, TypeOK', QueueNames \cap ServerNames = {},
         NEW o, NewOne(gen, o, NextChannel), Enters(o)
  PROVE  Tables' /\ More(objs, objs', o)
<1> DEFINE c == NextChannel
<1>1. /\ objs' = Append(objs, o) /\ channels' = With(channels, c, Len(objs) + 1)
      /\ ServerOpens(c) /\ UNCHANGED <<gen, misuse>>
      /\ Entered(queues, queues', o, Len(objs) + 1)
      /\ \/ o.kind = "queue" /\ exchanges' = exchanges
         \/ /\ o.kind = "exchange" /\ o.name \notin DOMAIN exchanges
            /\ exchanges' = With(exchanges, o.name, Len(objs) + 1)
  BY DEF Enters
<1>2. More(objs, objs', o) /\ Len(objs') = Len(objs) + 1
  <2>1. objs \in Seq(Objects) /\ Listed(objs) /\ Listed(objs')
    BY TypeListed, TypeListedNext DEF IInv
  <2>2. /\ Len(objs') = Len(objs) + 1 /\ objs'[Len(objs) + 1] = o
        /\ \A i \in DOMAIN objs : objs'[i] = objs[i]
    BY <1>1, <2>1, AppendProperties
  <2>3. QED
    BY <2>1, <2>2 DEF More
<1>3. /\ c \notin DOMAIN channels /\ c \notin DOMAIN server
      /\ \A i \in DOMAIN objs : objs[i].channel # c
  <2>1. channelCounter \in Nat
    BY DEF IInv, TypeOK
  <2>2. \A i \in Ids : objs[i].channel <= channelCounter /\ objs[i].channel \in 1 .. MaxObjects
    BY TypeOfChannel DEF IInv, Numbered
  <2>3. \A i \in Ids : objs[i].channel # c
    BY <2>1, <2>2 DEF NextChannel
  <2>4. c \notin DOMAIN channels
    BY <2>3, OwnerIs DEF IInv
  <2>5. DOMAIN server \subseteq DOMAIN channels
    BY DEF IInv, Broker
  <2>6. QED
    BY <2>3, <2>4, <2>5 DEF Ids
<1>4. toClient \in Seq(Methods) /\ gen \in Nat
  BY TypesOf DEF IInv, ServerTyped, TypeOK
<1>5. /\ \A y \in Heard(toClient') :
           y \in Heard(toClient) \/ (y.m = "channelOpenOk" /\ y.channel = c)
      /\ kicked' = kicked
  BY <1>1, <1>3, <1>4, OpensHeard
<1> HIDE DEF c
<1>6. PICK ns : ns = objs'
  OBVIOUS
<1>7. /\ More(objs, ns, o) /\ Len(ns) = Len(objs) + 1
      /\ Entered(queues, queues', o, Len(ns))
      /\ \/ o.kind = "queue" /\ exchanges' = exchanges
         \/ o.kind = "exchange" /\ o.name \notin DOMAIN exchanges /\ exchanges' = With(exchanges, o.name, Len(ns))
      /\ channels' = With(channels, c, Len(ns))
  BY <1>1, <1>2, <1>6
<1>8. NewOne(gen, o, c)
  BY DEF c
<1>9. Tabled(gen, objs, channels, queues, exchanges, kicked, Heard(toClient), Stale)
  BY DEF Tables
<1>10. gen \in Nat
  BY <1>4
<1>11. Tabled(gen, ns, With(channels, c, Len(ns)), queues', exchanges', kicked, Heard(toClient'), Stale)
  BY <1>3, <1>5, <1>7, <1>8, <1>9, <1>10, TabledMore
<1>12. Stale' = Stale /\ gen' = gen
  BY <1>1 DEF Stale
<1>13. QED
  BY <1>2, <1>5, <1>6, <1>7, <1>11, <1>12 DEF Tables

LEMMA NoTasks == Destroys(<<>>) = 0 /\ Destroys(<<"request">>) = 0
<1>1. Destroys(<<>>) = 0
  BY NoDestroys
<1>2. {k \in DOMAIN <<"request">> : <<"request">>[k] = "destroy"} = {}
  OBVIOUS
<1>3. QED
  BY <1>1, <1>2, FS_EmptySet DEF Destroys

LEMMA NewIs ==
  ASSUME NEW k \in {"queue", "exchange"}, NEW n,
         k = "exchange" => n \in ExchangeNames \cup {DefaultName},
         k = "queue" => n \in QueueNames
  PROVE  /\ NewOne(gen, NewObject(k, n), NextChannel)
         /\ NewObject(k, n).kind = k /\ NewObject(k, n).name = n
BY NoTasks DEF NewOne, NewObject

LEMMA QueueTables ==
  ASSUME IInv, Tables, TypeOK', ConnectionAssumption, NEW n \in QueueNames, Queue(n)
  PROVE  Tables' /\ \E o : More(objs, objs', o)
<1>1. QueueNames \cap ServerNames = {}
  BY DEF ConnectionAssumption
<1>2. PICK o : o = NewObject("queue", n)
  OBVIOUS
<1>3. NewOne(gen, o, NextChannel) /\ o.kind = "queue" /\ o.name = n
  BY <1>2, NewIs
<1>4. Enters(o)
  BY <1>2, <1>3 DEF Queue, Construct, Enters, Entered, Registered, Tracked
<1>5. QED
  BY <1>1, <1>3, <1>4, EnterTables

LEMMA ExchangeTables ==
  ASSUME IInv, Tables, TypeOK', ConnectionAssumption, NEW n \in ExchangeNames, Exchange(n)
  PROVE  Tables' /\ \E o : More(objs, objs', o)
<1>1. QueueNames \cap ServerNames = {}
  BY DEF ConnectionAssumption
<1>2. PICK o : o = NewObject("exchange", n)
  OBVIOUS
<1>3. NewOne(gen, o, NextChannel) /\ o.kind = "exchange" /\ o.name = n
  BY <1>2, NewIs
<1>4. Enters(o)
  BY <1>2, <1>3 DEF Exchange, Construct, Enters, Entered, Tracked
<1>5. QED
  BY <1>1, <1>3, <1>4, EnterTables

\* publish, when there is no exchange for it.
LEMMA PublishNewTables ==
  ASSUME IInv, Tables, TypeOK', ConnectionAssumption,
         DefaultName \notin DOMAIN exchanges, UNCHANGED <<gen, queues, misuse>>,
         objs' = Append(objs, [NewObject("exchange", DefaultName) EXCEPT !.todo = <<"request">>]),
         channels' = Tracked(NextChannel, Len(objs) + 1),
         exchanges' = With(exchanges, DefaultName, Len(objs) + 1),
         ServerOpens(NextChannel)
  PROVE  Tables' /\ \E o : More(objs, objs', o) /\ o.kind = "exchange"
<1>1. QueueNames \cap ServerNames = {}
  BY DEF ConnectionAssumption
<1>2. PICK o : o = [NewObject("exchange", DefaultName) EXCEPT !.todo = <<"request">>]
  OBVIOUS
<1>3. NewOne(gen, o, NextChannel) /\ o.kind = "exchange" /\ o.name = DefaultName
  BY <1>2, NoTasks DEF NewOne, NewObject
<1>4. Enters(o)
  BY <1>2, <1>3 DEF Enters, Entered, Tracked
<1>5. QED
  BY <1>1, <1>3, <1>4, EnterTables

\* What is known of the method m that arrives on channel c for object i; q: the rest.
Got(m, c, i, q) ==
  /\ For(m, c, i, q) /\ Spoken(q)
  /\ Arrived \in Heard(toClient) /\ Arrived.m = m
  /\ Heard(q) \in SUBSET Heard(toClient)

LEMMA GotIs ==
  ASSUME IInv, NEW m \in {"channelOpenOk", "declareOk", "channelCloseOk"}, Receive(m)
  PROVE  \E c, i, q : Got(m, c, i, q)
<1>1. PICK c, i, q : For(m, c, i, q)
  BY ReceiveIs
<1>2. toClient \in Seq(Methods) /\ toClient # <<>> /\ Arrived.m = m
  BY TypesOf DEF IInv, ServerTyped, Receive
<1>3. q = Tail(toClient) /\ q \in Seq(Methods)
  BY <1>1 DEF For
<1>4. Heard(q) \in SUBSET Heard(toClient) /\ Arrived \in Heard(toClient)
  BY <1>2, <1>3, HeardTail DEF Arrived
<1>5. QED
  BY <1>1, <1>2, <1>3, <1>4 DEF Got, Spoken

\* The object it is for, and that it awaits it.
LEMMA GotFor ==
  ASSUME Tables, NEW m, NEW c, NEW i, NEW q, Got(m, c, i, q)
  PROVE  /\ i \in Ids /\ i \in DOMAIN objs /\ objs[i].channel = c /\ objs[i].gen = gen
         /\ c \in DOMAIN channels /\ channels[c] = i
         /\ Receiver = i /\ q = Tail(toClient) /\ Arrived.channel = c
         /\ Awaits(objs, i, Arrived)
         /\ NoAnswer(q, c)
<1>1. For(m, c, i, q) /\ Arrived \in Heard(toClient)
  BY DEF Got
<1>2. Expected(objs, channels, Heard(toClient))
  BY DEF Tables, Tabled
<1>3. Arrived.channel \in DOMAIN channels /\ Awaits(objs, channels[Arrived.channel], Arrived)
  BY <1>1, <1>2 DEF Expected
<1>4. QED
  BY <1>1, <1>3 DEF For, Ids

\* Object i goes into the state st.
LEMMA StateMoved ==
  ASSUME TypeOK, NEW i \in Ids, NEW st \in {"new", "declaring", "open", "closing", "closed"}
  PROVE  \E o \in Objects : /\ Moved(objs[i], o, st)
                            /\ o.closes = objs[i].closes /\ o.refused = objs[i].refused
                            /\ [objs EXCEPT ![i].state = st] = [objs EXCEPT ![i] = o]
<1>1. objs[i] \in Objects /\ objs[i].closes \in Nat
  BY TypeOfChannel
<1>2. PICK o : o = [objs[i] EXCEPT !.state = st]
  OBVIOUS
<1>3. o \in Objects
  BY <1>1, <1>2 DEF Objects
<1>4. /\ o.kind = objs[i].kind /\ o.gen = objs[i].gen /\ o.channel = objs[i].channel
      /\ o.name = objs[i].name
      /\ o.state = st /\ o.refused = objs[i].refused /\ o.destroyed = objs[i].destroyed
      /\ o.exchange = objs[i].exchange /\ o.binds = objs[i].binds
      /\ o.todo = objs[i].todo /\ o.destroys = objs[i].destroys /\ o.closes = objs[i].closes
  BY <1>1, <1>2 DEF Objects
<1>5. Moved(objs[i], o, st)
  BY <1>1, <1>4 DEF Moved
<1>6. [objs EXCEPT ![i].state = st] = [objs EXCEPT ![i] = o]
  BY <1>2
<1>7. QED
  BY <1>3, <1>4, <1>5, <1>6

\* An object that is declared has a name, or is a queue.
LEMMA NamelessIsQueue ==
  ASSUME ConnectionAssumption, Tables, NEW i \in DOMAIN objs, objs[i].name = "", "" \notin Prebaked
  PROVE  objs[i].kind = "queue"
<1>1. SoundAt(gen, objs, DOMAIN channels, i) /\ Listed(objs)
  BY DEF Tables, Tabled, Sound
<1>2. objs[i].kind \in {"queue", "exchange"}
  BY <1>1 DEF Listed, Fields
<1>3. "" \notin ExchangeNames \cup {DefaultName}
  BY DEF ConnectionAssumption, DefaultName
<1>4. QED
  BY <1>1, <1>2, <1>3 DEF SoundAt

\* The answer to the declare of object i, which is in the state for it.
LEMMA DeclareAnswered ==
  ASSUME NEW os, NEW ns, NEW i \in DOMAIN os, NEW c, NEW q, NEW x,
         i \in DOMAIN ns, ns[i].channel = c, ns[i].state = "declaring", ~ns[i].destroyed,
         ns[i].name = os[i].name, ns[i].kind = os[i].kind,
         \A j \in DOMAIN ns : j \in DOMAIN os /\ ns[j].name = os[j].name,
         x.m = "declareOk", x.channel = c,
         os[i].name # "" => x.name = os[i].name,
         os[i].name = "" => /\ os[i].kind = "queue" /\ x.name \in ServerNames
                            /\ \A j \in DOMAIN os : os[j].name # x.name
  PROVE  Awaits(ns, i, x)
<1>1. NameFor(ns, i, x.name)
  BY DEF NameFor
<1>2. QED
  BY <1>1 DEF Awaits, Answer

\* Nobody has a name the broker gives to an anonymous queue.
LEMMA GivenIsNew ==
  ASSUME NEW q, NEW n, n \in ServerNamesLeft(q)
  PROVE  /\ n \in ServerNames
         /\ \A j \in DOMAIN objs : objs[j].name # n
         /\ \A y \in Heard(q) : y.name # n
BY DEF ServerNamesLeft, Heard, Ids

\* The broker says less, or something that is no answer.
LEMMA LessSaid ==
  ASSUME NEW ns, NEW p, Tabled(gen', ns, channels', queues', exchanges', kicked, p, Stale'),
         Heard(toClient') \in SUBSET p, kicked => kicked'
  PROVE  Tabled(gen', ns, channels', queues', exchanges', kicked', Heard(toClient'), Stale')
BY TabledLess

LEMMA ChannelOpenOkTables ==
  ASSUME IInv, Tables, ConnectionAssumption, ChannelOpenOk
  PROVE  Tables' /\ Later(objs, objs')
<1>1. Receive("channelOpenOk") /\ UNCHANGED channels
  BY DEF ChannelOpenOk
<1>2. /\ UNCHANGED <<gen, channels, misuse>> /\ misuse \subseteq misuse'
  BY <1>1 DEF Receive
<1>3. PICK c, i, q : Got("channelOpenOk", c, i, q)
  BY <1>1, GotIs
<1>4. /\ i \in Ids /\ i \in DOMAIN objs /\ objs[i].channel = c /\ objs[i].gen = gen
      /\ c \in DOMAIN channels /\ channels[c] = i
      /\ Receiver = i /\ q = Tail(toClient) /\ Arrived.channel = c
      /\ Awaits(objs, i, Arrived) /\ NoAnswer(q, c)
  BY <1>3, GotFor
<1>5. TypeOK /\ Spoken(q) /\ Heard(q) \in SUBSET Heard(toClient) /\ Arrived.m = "channelOpenOk"
  BY <1>3 DEF IInv, Got
<1>6. \A y \in Heard(q) : y.channel = c => ~Answer(y)
  BY <1>4, HeardNoAnswer
<1>7. CASE /\ objs[i].kind = "exchange"
           /\ TasksFlush(i, [objs EXCEPT ![i].state = "open"], queues, q)
  <2>1. PICK o \in Objects : /\ Moved(objs[i], o, "open")
                             /\ [objs EXCEPT ![i].state = "open"] = [objs EXCEPT ![i] = o]
    BY <1>4, <1>5, StateMoved
  <2>2. PICK os : os = [objs EXCEPT ![i] = o]
    OBVIOUS
  <2>3. TasksFlush(i, os, queues, q)
    BY <1>7, <2>1, <2>2
  <2>4. MayMove(i, o, "open", Heard(q))
    BY <1>4, <1>6, <1>7 DEF MayMove
  <2>5. AsMany(os) /\ Later(objs, os) /\ Quiet(objs, os, i, Heard(q))
    BY <1>4, <1>5, <2>1, <2>2, <2>4, MoveQuiet
  <2>6. QED
    BY <1>2, <1>4, <1>5, <2>3, <2>5, QuietFlush
<1>8. CASE /\ ~(objs[i].kind = "exchange" /\ objs[i].name \in Prebaked)
           /\ objs' = [objs EXCEPT ![i].state = "declaring"]
           /\ Declares(c, objs[i].name, q)
           /\ UNCHANGED <<queues, exchanges>>
  <2>1. PICK o \in Objects : /\ Moved(objs[i], o, "declaring")
                             /\ [objs EXCEPT ![i].state = "declaring"] = [objs EXCEPT ![i] = o]
    BY <1>4, <1>5, StateMoved
  <2>2. PICK ns : ns = objs'
    OBVIOUS
  <2>3. ns = [objs EXCEPT ![i] = o]
    BY <1>8, <2>1, <2>2
  <2>4. MayMove(i, o, "declaring", Heard(q))
    BY DEF MayMove
  <2>5. i \in DOMAIN ns /\ ns[i] = o /\ Later(objs, ns) /\ Quiet(objs, ns, i, Heard(q))
    BY <1>4, <1>5, <2>1, <2>3, <2>4, MoveQuiet
  <2>6. Tabled(gen', objs', channels, queues, exchanges, kicked, Heard(q), Stale')
    BY <1>2, <1>4, <1>5, <2>2, <2>5, QuietStep
  <2>7. Tabled(gen', ns, channels', queues', exchanges', kicked, Heard(q), Stale')
    BY <1>2, <1>8, <2>2, <2>6
  <2>8. CASE Heard(toClient') \in SUBSET Heard(q) /\ (kicked => kicked')
    <3>1. Tabled(gen', ns, channels', queues', exchanges', kicked', Heard(toClient'), Stale')
      BY <2>7, <2>8, LessSaid
    <3>2. QED
      BY <2>2, <2>5, <3>1 DEF Tables
  <2>9. ASSUME ~kicked, UNCHANGED kicked,
               NEW x, x.m = "declareOk", x.channel = c, GivenName(objs[i].name, q, x.name),
               Heard(toClient') \in SUBSET (Heard(q) \cup {x})
        PROVE  Tables'
    <3>1. objs[i].name = "" => objs[i].kind = "queue"
      BY <1>4, <1>8, NamelessIsQueue, TypeListed, <1>5 DEF Tables, Tabled, Listed, Fields
    <3>2. objs[i].name # "" => x.name = objs[i].name
      BY <2>9 DEF GivenName
    <3>3. objs[i].name = "" => /\ x.name \in ServerNames
                               /\ \A j \in DOMAIN objs : objs[j].name # x.name
                               /\ \A y \in Heard(q) : y.name # x.name
      BY <2>9, GivenIsNew DEF GivenName
    <3>4. /\ ns[i].channel = c /\ ns[i].state = "declaring" /\ ~ns[i].destroyed
          /\ ns[i].name = objs[i].name /\ ns[i].kind = objs[i].kind
      BY <1>4, <1>5, <2>1, <2>5 DEF Moved, Awaits, Answer
    <3>5. \A j \in DOMAIN ns : j \in DOMAIN objs /\ ns[j].name = objs[j].name
      BY <2>5, LaterIs DEF Quiet
    <3>6. Awaits(ns, i, x)
      BY <1>4, <2>5, <2>9, <3>1, <3>2, <3>3, <3>4, <3>5, DeclareAnswered
    <3>7. x.channel \in DOMAIN channels' /\ channels'[x.channel] = i
      BY <1>2, <1>4, <2>9
    <3>8. \A y \in Heard(q) : y.name # x.name \/ ns[channels'[x.channel]].name # ""
      BY <3>3, <3>4, <3>7
    <3>9. Awaits(ns, channels'[x.channel], x)
      BY <3>6, <3>7
    <3>10. Tabled(gen', ns, channels', queues', exchanges', kicked, Heard(toClient'), Stale')
      BY <2>7, <2>9, <3>7, <3>8, <3>9, TabledAnswer
    <3>11. QED
      BY <2>2, <2>9, <3>10 DEF Tables
  <2>10. Later(objs, objs')
    BY <2>2, <2>5
  <2>11. \/ Heard(toClient') \in SUBSET Heard(q) /\ (kicked => kicked')
         \/ /\ ~kicked /\ c \in DOMAIN server /\ UNCHANGED kicked
            /\ \E x : /\ x.m = "declareOk" /\ x.channel = c /\ GivenName(objs[i].name, q, x.name)
                      /\ Heard(toClient') \in SUBSET (Heard(q) \cup {x})
    BY <1>5, <1>8, DeclaresHeard DEF Spoken
  <2>12. QED
    BY <2>8, <2>9, <2>10, <2>11
<1>9. CASE objs[i].kind = "exchange" /\ objs[i].name \in Prebaked
  BY <1>4, <1>7, <1>9 DEF ChannelOpenOk
<1>10. CASE ~(objs[i].kind = "exchange" /\ objs[i].name \in Prebaked)
  <2>1. /\ objs' = [objs EXCEPT ![i].state = "declaring"]
        /\ Declares(objs[i].channel, objs[i].name, q)
        /\ UNCHANGED <<queues, exchanges>>
    BY <1>4, <1>10 DEF ChannelOpenOk
  <2>2. Declares(c, objs[i].name, q)
    BY <1>4, <2>1
  <2>3. QED
    BY <1>8, <1>10, <2>1, <2>2
<1>11. QED
  BY <1>9, <1>10

\* Object i is declared, under the name n.
Declaring(i, n, os) == os = [objs EXCEPT ![i].state = "open", ![i].name = n]

LEMMA NamedMoves ==
  ASSUME TypeOK, NEW i \in Ids, NEW n \in Names, NEW os, Declaring(i, n, os)
  PROVE  AsMany(os) /\ i \in DOMAIN os /\ Later(objs, os) /\ DeclaredAs(objs, os, i, n)
<1>1. /\ objs \in Seq(Objects) /\ Listed(objs) /\ i \in DOMAIN objs /\ objs[i] \in Objects
  BY TypeListed, TypeOfChannel
<1>2. PICK o : o = [[objs[i] EXCEPT !.state = "open"] EXCEPT !.name = n]
  OBVIOUS
<1>3. o \in Objects
  BY <1>1, <1>2 DEF Objects
<1>4. /\ o.kind = objs[i].kind /\ o.gen = objs[i].gen /\ o.channel = objs[i].channel
      /\ o.name = n /\ o.state = "open"
      /\ o.refused = objs[i].refused /\ o.destroyed = objs[i].destroyed
      /\ o.exchange = objs[i].exchange /\ o.binds = objs[i].binds
      /\ o.todo = objs[i].todo /\ o.destroys = objs[i].destroys /\ o.closes = objs[i].closes
  BY <1>1, <1>2 DEF Objects
<1>5. os = [objs EXCEPT ![i] = o]
  BY <1>1, <1>2 DEF Declaring
<1>6. /\ os \in Seq(Objects) /\ Len(os) = Len(objs) /\ DOMAIN os = DOMAIN objs
      /\ \A j \in DOMAIN objs : os[j] = IF j = i THEN o ELSE objs[j]
  BY <1>1, <1>3, <1>5
<1>7. Listed(os) /\ Fields(o) /\ Fields(objs[i])
  BY <1>1, <1>3, <1>6, ObjectsListed, ObjectIs
<1>8. Later(objs, os)
  <2>1. ASSUME NEW j \in DOMAIN objs
        PROVE  Older(objs[j], os[j])
    <3>1. CASE j = i
      BY <1>4, <1>6, <1>7, <3>1 DEF Older, Fields
    <3>2. CASE j # i
      <4>1. os[j] = objs[j] /\ Fields(objs[j])
        BY <1>1, <1>6, <3>2 DEF Listed
      <4>2. QED
        BY <4>1 DEF Older, Fields
    <3>3. QED
      BY <3>1, <3>2
  <2>2. QED
    BY <1>1, <1>6, <1>7, <2>1 DEF Later
<1>9. ASSUME NEW j \in DOMAIN objs
      PROVE  /\ os[j].todo = objs[j].todo /\ os[j].destroyed = objs[j].destroyed
             /\ os[j].destroys = objs[j].destroys /\ os[j].closes = objs[j].closes
             /\ os[j].exchange = objs[j].exchange /\ os[j].binds = objs[j].binds
             /\ os[j].refused = objs[j].refused
             /\ j # i => os[j].name = objs[j].name /\ os[j].state = objs[j].state
  <2>1. CASE j = i
    BY <1>4, <1>6, <2>1
  <2>2. CASE j # i
    BY <1>6, <2>2
  <2>3. QED
    BY <2>1, <2>2
<1>10. os[i].name = n /\ os[i].state = "open" /\ i \in DOMAIN os
  BY <1>1, <1>4, <1>6
<1>11. QED
  BY <1>6, <1>8, <1>9, <1>10 DEF AsMany, DeclaredAs

LEMMA DeclareOkTables ==
  ASSUME IInv, Tables, ConnectionAssumption, DeclareOk
  PROVE  Tables' /\ Later(objs, objs')
<1>1. Receive("declareOk") /\ UNCHANGED channels
  BY DEF DeclareOk
<1>2. UNCHANGED <<gen, channels, misuse>>
  BY <1>1 DEF Receive
<1>3. PICK c, i, q : Got("declareOk", c, i, q)
  BY <1>1, GotIs
<1>4. /\ i \in Ids /\ i \in DOMAIN objs /\ objs[i].channel = c /\ objs[i].gen = gen
      /\ c \in DOMAIN channels /\ channels[c] = i
      /\ Receiver = i /\ q = Tail(toClient) /\ Arrived.channel = c
      /\ Awaits(objs, i, Arrived) /\ NoAnswer(q, c)
  BY <1>3, GotFor
<1>5. /\ TypeOK /\ Spoken(q) /\ Heard(q) \in SUBSET Heard(toClient)
      /\ Arrived \in Heard(toClient) /\ Arrived.m = "declareOk"
  BY <1>3 DEF IInv, Got
<1>6. \A y \in Heard(q) : y.channel = Arrived.channel => ~Answer(y)
  BY <1>4, HeardNoAnswer
<1>7. PICK x : x = Arrived
  OBVIOUS
<1>8. x.name \in Names
  BY <1>3, <1>7 DEF Got, For
<1>9. PICK os, qs :
        /\ Declaring(i, x.name, os)
        /\ qs = IF objs[i].kind = "queue" THEN With(queues, x.name, i) ELSE queues
        /\ TasksFlush(i, os, qs, q)
  BY <1>4, <1>7 DEF DeclareOk, Declared, Declaring
<1>10. AsMany(os) /\ i \in DOMAIN os /\ Later(objs, os) /\ DeclaredAs(objs, os, i, x.name)
  BY <1>4, <1>5, <1>8, <1>9, NamedMoves
<1>11. SomeNames
  BY DEF ConnectionAssumption, SomeNames
<1>12. Tabled(gen, objs, channels, queues, exchanges, kicked, Heard(toClient), Stale)
  BY DEF Tables
<1>13. Tabled(gen, os, channels, qs, exchanges, kicked, Heard(q), Stale)
  <2>1. i = channels[x.channel] /\ x \in Heard(toClient) /\ x.m = "declareOk"
    BY <1>4, <1>5, <1>7
  <2>2. PICK p, h : p = Heard(q) /\ h = Heard(toClient)
    OBVIOUS
  <2>3. p \in SUBSET h /\ x \in h /\ \A y \in p : y.channel = x.channel => ~Answer(y)
    BY <1>5, <1>6, <1>7, <2>2
  <2>4. Tabled(gen, objs, channels, queues, exchanges, kicked, h, Stale)
    BY <1>12, <2>2
  <2>5. Registers(objs, i, x.name, queues, qs)
    BY <1>9 DEF Registers
  <2>6. Later(objs, os) /\ DeclaredAs(objs, os, i, x.name) /\ objs[i].gen = gen
    BY <1>4, <1>10
  <2>7. Tabled(gen, os, channels, qs, exchanges, kicked, p, Stale)
    BY <1>11, <2>1, <2>3, <2>4, <2>5, <2>6, TabledNamed
  <2>8. QED
    BY <2>2, <2>7
<1>14. Table(qs, Names) /\ Table(exchanges, Names)
  <2>1. Table(queues, Names) /\ Table(exchanges, Names)
    BY TypesOf DEF IInv
  <2>2. Table(With(queues, x.name, i), Names)
    BY <1>4, <1>8, <2>1 DEF Table, With
  <2>3. QED
    BY <1>9, <2>1, <2>2
<1>15. os[i].gen = gen
  BY <1>4, <1>10 DEF Later, Older
<1>16. /\ Tabled(gen, objs', channels, queues', exchanges', kicked', Heard(toClient'), Stale)
       /\ Later(os, objs')
  <2>1. os[i].gen # gen => os[i].channel \notin DOMAIN server
    BY <1>15
  <2>2. ~Stale /\ os[i].kind = "queue" => os[i].gen = gen
    BY <1>15
  <2>3. os \in Seq(Objects) /\ Len(os) = Len(objs) /\ q \in Seq(Methods) /\ TasksFlush(i, os, qs, q)
    BY <1>5, <1>9, <1>10 DEF AsMany, Spoken
  <2>4. QED
    BY <1>10, <1>13, <1>14, <2>1, <2>2, <2>3, TabledFlushed
<1>17. Stale' = Stale
  BY <1>2 DEF Stale
<1>18. QED
  BY <1>2, <1>10, <1>16, <1>17, LaterTwice DEF Tables

LEMMA ChannelCloseOkTables ==
  ASSUME IInv, Tables, ChannelCloseOk
  PROVE  Tables' /\ Later(objs, objs')
<1>1. Receive("channelCloseOk")
  BY DEF ChannelCloseOk
<1>2. UNCHANGED <<gen, misuse>>
  BY <1>1 DEF Receive
<1>3. PICK c, i, q : Got("channelCloseOk", c, i, q)
  BY <1>1, GotIs
<1>4. /\ i \in Ids /\ i \in DOMAIN objs /\ objs[i].channel = c /\ objs[i].gen = gen
      /\ c \in DOMAIN channels /\ channels[c] = i
      /\ Receiver = i /\ q = Tail(toClient) /\ Arrived.channel = c
      /\ Awaits(objs, i, Arrived) /\ NoAnswer(q, c)
  BY <1>3, GotFor
<1>5. /\ TypeOK /\ Numbered /\ Heard(q) \in SUBSET Heard(toClient)
      /\ Arrived \in Heard(toClient) /\ Arrived.m = "channelCloseOk"
  BY <1>3 DEF IInv, Got
<1>6. /\ objs' = [objs EXCEPT ![i].state = "closed"] /\ channels' = Without(channels, c)
      /\ Leaves(objs, i, "queue", queues, queues') /\ Leaves(objs, i, "exchange", exchanges, exchanges')
      /\ toClient' = q /\ UNCHANGED kicked
  BY <1>4 DEF ChannelCloseOk, Deregistered, Leaves, Silence
<1>7. PICK o \in Objects : /\ Moved(objs[i], o, "closed")
                           /\ o.closes = objs[i].closes /\ o.refused = objs[i].refused
                           /\ [objs EXCEPT ![i].state = "closed"] = [objs EXCEPT ![i] = o]
  BY <1>4, <1>5, StateMoved
<1>8. PICK ns : ns = [objs EXCEPT ![i] = o]
  OBVIOUS
<1>9. /\ Later(objs, ns) /\ ns[i] = o /\ \A j \in DOMAIN objs : j # i => ns[j] = objs[j]
  BY <1>4, <1>5, <1>7, <1>8, MoveLater
<1>10. \A y \in Heard(q) : y.channel # c
  <2>1. Broker(DOMAIN channels \ {c}, server, kicked, q)
    BY <1>3 DEF Got, For
  <2>2. c # 0
    BY <1>4, <1>5, OwnerIs
  <2>3. QED
    BY <2>1, <2>2, HeardOf DEF Broker
<1>11. PICK x : x = Arrived
  OBVIOUS
<1>12. Tabled(gen, ns, Without(channels, c), queues', exchanges', kicked, Heard(q), Stale)
  <2>1. PICK p, h : p = Heard(q) /\ h = Heard(toClient)
    OBVIOUS
  <2>2. p \in SUBSET h /\ x \in h /\ x.m = "channelCloseOk" /\ x.channel = c
    BY <1>4, <1>5, <1>11, <2>1
  <2>3. \A y \in p : y.channel # x.channel
    BY <1>10, <2>1, <2>2
  <2>4. i = channels[x.channel] /\ objs[i].gen = gen
    BY <1>4, <2>2
  <2>5. Closes(objs, ns, i, x.channel)
    <3>1. \A j \in DOMAIN objs : j # i => objs[j].channel # c
      BY <1>4, <1>5 DEF Numbered, Ids
    <3>2. ASSUME NEW j \in DOMAIN objs
          PROVE  /\ ns[j].name = objs[j].name /\ ns[j].todo = objs[j].todo
                 /\ ns[j].destroyed = objs[j].destroyed
                 /\ ns[j].destroys = objs[j].destroys /\ ns[j].closes = objs[j].closes
                 /\ ns[j].exchange = objs[j].exchange /\ ns[j].binds = objs[j].binds
                 /\ ns[j].refused = objs[j].refused
                 /\ j # i => ns[j].state = objs[j].state
      <4>1. CASE j = i
        BY <1>7, <1>9, <4>1 DEF Moved
      <4>2. CASE j # i
        BY <1>9, <4>2
      <4>3. QED
        BY <4>1, <4>2
    <3>3. QED
      BY <1>4, <1>7, <1>9, <2>2, <3>1, <3>2 DEF Closes, Moved
  <2>6. Tabled(gen, objs, channels, queues, exchanges, kicked, h, Stale)
    BY <2>1 DEF Tables
  <2>7. Tabled(gen, ns, Without(channels, x.channel), queues', exchanges', kicked, p, Stale)
    BY <1>6, <1>9, <2>2, <2>3, <2>4, <2>5, <2>6, TabledClosed
  <2>8. QED
    BY <2>1, <2>2, <2>7
<1>13. Stale' = Stale
  BY <1>2 DEF Stale
<1>14. QED
  BY <1>2, <1>6, <1>7, <1>8, <1>9, <1>12, <1>13 DEF Tables

-----------------------------------------------------------------------------
(* The tables, as the connection comes and goes                            *)

\* A new connection has none of the objects.
LEMMA TabledAnew ==
  ASSUME NEW os, NEW g \in Nat, NEW chs, NEW qs, NEW xs, NEW k, NEW q, NEW stale,
         Tabled(g, os, chs, qs, xs, k, q, stale), NEW l
  PROVE  Tabled(g + 1, os, Empty, Empty, Empty, l, {}, stale)
<1>1. /\ Listed(os) /\ Sound(g, os, DOMAIN chs) /\ Bindings(g, os) /\ ExchangePart(g, os, xs, stale)
  BY DEF Tabled, Sound
<1>2. \A i \in DOMAIN os : os[i].gen \in Nat /\ os[i].gen <= g
  BY <1>1 DEF Listed, Fields, Sound, SoundAt
<1>3. \A i \in DOMAIN os : os[i].gen # g + 1 /\ os[i].gen <= g + 1
  BY <1>2
<1>4. Bindings(g + 1, os)
  <2>1. ASSUME NEW i \in DOMAIN os, os[i].exchange # 0
        PROVE  /\ os[i].exchange \in DOMAIN os /\ os[os[i].exchange].kind = "exchange"
               /\ os[os[i].exchange].gen \in os[i].gen .. g + 1
    <3>1. /\ os[i].exchange \in DOMAIN os /\ os[os[i].exchange].kind = "exchange"
          /\ os[os[i].exchange].gen \in os[i].gen .. g
      BY <1>1, <2>1 DEF Bindings
    <3>2. os[i].gen \in Nat /\ os[os[i].exchange].gen \in Nat
      BY <1>2, <3>1
    <3>3. QED
      BY <3>1, <3>2
  <2>2. \A i \in DOMAIN os : os[i].kind = "exchange" => os[i].exchange = 0
    BY <1>1 DEF Bindings
  <2>3. QED
    BY <2>1, <2>2 DEF Bindings
<1>5. Sound(g + 1, os, DOMAIN Empty)
  <2>1. ASSUME NEW i \in DOMAIN os
        PROVE  SoundAt(g + 1, os, DOMAIN Empty, i)
    <3>1. SoundAt(g, os, DOMAIN chs, i)
      BY <1>1 DEF Sound
    <3>2. QED
      BY <1>3, <3>1 DEF SoundAt
  <2>2. QED
    BY <1>4, <2>1 DEF Sound
<1>6. Expected(os, Empty, {})
  BY DEF Expected
<1>7. Entries(g + 1, os, Empty, "queue") /\ Entries(g + 1, os, Empty, "exchange")
  BY DEF Entries, Empty
<1>8. QueuePart(g + 1, os, DOMAIN Empty, Empty, l, {})
  <2>1. \A i \in DOMAIN os : ~InUse(g + 1, os, DOMAIN Empty, i)
    BY <1>3 DEF InUse
  <2>2. QED
    BY <2>1 DEF QueuePart, QueuesKept, OneInUse, Twins
<1>9. ExchangePart(g + 1, os, Empty, stale)
  <2>1. ExchangesKept(g + 1, os, Empty)
    BY <1>3 DEF ExchangesKept, BoundNow
  <2>2. QED
    BY <1>1, <2>1 DEF ExchangePart
<1>10. QED
  BY <1>1, <1>5, <1>6, <1>7, <1>8, <1>9 DEF Tabled

LEMMA HeardNothing == Heard(<<>>) = {}
BY DEF Heard

LEMMA ConnectTables ==
  ASSUME IInv, Tables, Connect
  PROVE  Tables' /\ Later(objs, objs')
<1>1. /\ conn = "down" /\ gen' = gen + 1
      /\ channels' = Empty /\ queues' = Empty /\ exchanges' = Empty
      /\ UNCHANGED <<objs, misuse, toClient>>
  BY DEF Connect
<1>2. gen \in Nat /\ toClient = <<>>
  BY <1>1 DEF IInv, TypeOK, Down
<1>3. Tabled(gen, objs, channels, queues, exchanges, kicked, Heard(toClient), Stale)
  BY DEF Tables
<1>4. Tabled(gen + 1, objs, Empty, Empty, Empty, kicked', {}, Stale)
  BY <1>2, <1>3, TabledAnew
<1>5. Listed(objs)
  BY <1>3 DEF Tabled
<1>6. Later(objs, objs')
  BY <1>1, <1>5, LaterSelf
<1>7. Stale' = Stale /\ Heard(toClient') = {}
  BY <1>1, <1>2, HeardNothing DEF Stale
<1>8. QED
  BY <1>1, <1>4, <1>6, <1>7 DEF Tables

\* The answers on their way are lost, and no object is told.
LEMMA LostTables ==
  ASSUME IInv, Tables, toClient' = <<>>, UNCHANGED <<gen, objs, tables, misuse, kicked>>
  PROVE  Tables' /\ Later(objs, objs')
<1>1. Tabled(gen, objs, channels, queues, exchanges, kicked, Heard(toClient), Stale)
  BY DEF Tables
<1>2. Tabled(gen, objs, channels, queues, exchanges, kicked, {}, Stale)
  <2>1. {} \in SUBSET Heard(toClient)
    OBVIOUS
  <2>2. QED
    BY <1>1, <2>1, TabledLess
<1>3. Listed(objs)
  BY <1>1 DEF Tabled
<1>4. Later(objs, objs')
  BY <1>3, LaterSelf
<1>5. Stale' = Stale /\ Heard(toClient') = {}
  BY HeardNothing DEF Stale
<1>6. QED
  BY <1>2, <1>4, <1>5 DEF Tables, tables

LEMMA SameTables ==
  ASSUME Tables, UNCHANGED <<gen, objs, tables, misuse, kicked, toClient>>
  PROVE  Tables' /\ Later(objs, objs')
<1>1. Listed(objs)
  BY DEF Tables, Tabled
<1>2. Later(objs, objs')
  BY <1>1, LaterSelf
<1>3. QED
  BY <1>2 DEF Tables, tables, Stale

-----------------------------------------------------------------------------
(* Every step keeps them                                                   *)

\* The objects stay what they are, or are one more.
Grow == Later(objs, objs') \/ \E o : More(objs, objs', o)

LEMMA DefaultKept ==
  ASSUME TypeOK, DefaultIsExchange, Grow, default' = default
  PROVE  DefaultIsExchange'
<1>1. default \in 0 .. Len(objs) /\ DOMAIN objs = 1 .. Len(objs) /\ Len(objs) \in Nat
  BY TypeListed DEF TypeOK, Listed
<1>2. ASSUME default # 0
      PROVE  default \in DOMAIN objs /\ objs[default].kind = "exchange"
  BY <1>1, <1>2 DEF DefaultIsExchange
<1>3. \A i \in DOMAIN objs : objs'[i].kind = objs[i].kind
  BY DEF Grow, Later, Older, More
<1>4. QED
  BY <1>2, <1>3 DEF DefaultIsExchange

LEMMA PublishTables ==
  ASSUME IInv, Tables, DefaultIsExchange, TypeOK', Publish
  PROVE  Tables' /\ DefaultIsExchange'
<1>1. UNCHANGED gen /\ TypeOK /\ Table(exchanges, Names)
  BY TypesOf DEF Publish, IInv
<1>2. ASSUME NEW i \in IF default # 0 THEN {default}
                       ELSE {exchanges[n] : n \in DOMAIN exchanges \cap {DefaultName}},
             PublishBy(i), default' = i
      PROVE  Tables' /\ DefaultIsExchange'
  <2>1. i \in Ids
    BY <1>1, <1>2 DEF TypeOK, Table, Ids
  <2>2. objs[i].kind = "exchange"
    <3>1. Entries(gen, objs, exchanges, "exchange")
      BY DEF Tables, Tabled
    <3>2. QED
      BY <1>2, <3>1 DEF Entries, EntryAt, DefaultIsExchange
  <2>3. Tables' /\ Later(objs, objs')
    BY <1>1, <1>2, <2>1, <2>2, PublishByTables
  <2>4. objs'[i].kind = "exchange"
    BY <2>1, <2>2, <2>3 DEF Later, Older, Ids
  <2>5. QED
    BY <1>2, <2>3, <2>4 DEF DefaultIsExchange
<1>3. ASSUME DefaultName \notin DOMAIN exchanges, UNCHANGED <<queues, misuse>>,
             objs' = Append(objs, [NewObject("exchange", DefaultName) EXCEPT !.todo = <<"request">>]),
             channels' = Tracked(NextChannel, Len(objs) + 1),
             exchanges' = With(exchanges, DefaultName, Len(objs) + 1),
             ServerOpens(NextChannel), default' = Len(objs) + 1
      PROVE  Tables' /\ DefaultIsExchange'
  <2>1. Tables' /\ \E o : More(objs, objs', o) /\ o.kind = "exchange"
    BY <1>1, <1>3, ConnectionAssumption, PublishNewTables DEF IInv
  <2>2. objs'[Len(objs) + 1].kind = "exchange"
    BY <2>1 DEF More
  <2>3. QED
    BY <1>3, <2>1, <2>2 DEF DefaultIsExchange
<1>4. QED
  BY <1>2, <1>3 DEF Publish, PublishBy

LEMMA CallTables ==
  ASSUME TInv, TypeOK', Call
  PROVE  Tables' /\ DefaultIsExchange'
<1>1. IInv /\ Tables /\ DefaultIsExchange /\ TypeOK /\ ConnectionAssumption
  BY ConnectionAssumption DEF TInv, IInv
<1>2. ASSUME NEW n \in QueueNames, Queue(n)
      PROVE  Tables' /\ DefaultIsExchange'
  <2>1. default' = default
    BY <1>2 DEF Queue
  <2>2. QED
    BY <1>1, <1>2, <2>1, QueueTables, DefaultKept DEF Grow
<1>3. CASE AnonymousAgain
  <2>1. /\ default' = default /\ UNCHANGED <<gen, objs, tables, misuse, kicked, toClient>>
    BY <1>3 DEF AnonymousAgain, broker
  <2>2. QED
    BY <1>1, <2>1, SameTables, DefaultKept DEF Grow
<1>4. ASSUME NEW n \in ExchangeNames, Exchange(n)
      PROVE  Tables' /\ DefaultIsExchange'
  <2>1. default' = default
    BY <1>4 DEF Exchange
  <2>2. QED
    BY <1>1, <1>4, <2>1, ExchangeTables, DefaultKept DEF Grow
<1>5. ASSUME NEW i \in Ids, NEW op \in {"destroy", "request"}, Task(i, op)
      PROVE  Tables' /\ DefaultIsExchange'
  <2>1. default' = default
    BY <1>5 DEF Task, Called
  <2>2. QED
    BY <1>1, <1>5, <2>1, TaskTables, DefaultKept DEF Grow
<1>6. ASSUME NEW i \in Ids, NEW n \in ExchangeNames, Bind(i, n)
      PROVE  Tables' /\ DefaultIsExchange'
  <2>1. default' = default
    BY <1>6 DEF Bind, Called
  <2>2. QED
    BY <1>1, <1>6, <2>1, BindTables, DefaultKept DEF Grow
<1>7. ASSUME NEW i \in Ids, Close(i)
      PROVE  Tables' /\ DefaultIsExchange'
  <2>1. default' = default
    BY <1>7 DEF Close, Called
  <2>2. QED
    BY <1>1, <1>7, <2>1, CloseTables, DefaultKept DEF Grow
<1>8. CASE Publish
  BY <1>1, <1>8, PublishTables
<1>9. QED
  BY <1>2, <1>3, <1>4, <1>5, <1>6, <1>7, <1>8 DEF Call

LEMMA DataTables ==
  ASSUME TInv, Data
  PROVE  Tables' /\ DefaultIsExchange'
<1>1. IInv /\ Tables /\ DefaultIsExchange /\ TypeOK /\ ConnectionAssumption
  BY ConnectionAssumption DEF TInv, IInv
<1>2. default' = default
  BY DEF Data, ChannelOpenOk, DeclareOk, ChannelClose, ChannelCloseOk, ConnectionClose, Receive
<1>3. CASE ChannelOpenOk
  BY <1>1, <1>2, <1>3, ChannelOpenOkTables, DefaultKept DEF Grow
<1>4. CASE DeclareOk
  BY <1>1, <1>2, <1>4, DeclareOkTables, DefaultKept DEF Grow
<1>5. CASE ChannelClose
  BY <1>1, <1>2, <1>5, ChannelCloseTables, DefaultKept DEF Grow
<1>6. CASE ChannelCloseOk
  BY <1>1, <1>2, <1>6, ChannelCloseOkTables, DefaultKept DEF Grow
<1>7. CASE ConnectionClose
  <2>1. toClient' = <<>> /\ UNCHANGED <<gen, objs, tables, misuse, kicked>>
    BY <1>7 DEF ConnectionClose, Receive, Silence
  <2>2. QED
    BY <1>1, <1>2, <2>1, LostTables, DefaultKept DEF Grow
<1>8. QED
  BY <1>3, <1>4, <1>5, <1>6, <1>7 DEF Data

LEMMA NextTables ==
  ASSUME TInv, [Next]_vars
  PROVE  TInv'
<1>1. IInv /\ Tables /\ DefaultIsExchange /\ TypeOK
  BY DEF TInv, IInv
<1>2. IInv' /\ TypeOK'
  BY <1>1, NextKeeps DEF IInv
<1>3. Tables' /\ DefaultIsExchange'
  <2>1. CASE UNCHANGED vars
    <3>1. default' = default /\ UNCHANGED <<gen, objs, tables, misuse, kicked, toClient>>
      BY <2>1 DEF vars, client, broker
    <3>2. QED
      BY <1>1, <3>1, SameTables, DefaultKept DEF Grow
  <2>2. CASE Call
    BY <1>2, <2>2, CallTables
  <2>3. CASE Data
    BY <2>3, DataTables
  <2>4. CASE End
    <3>1. default' = default /\ toClient' = <<>> /\ UNCHANGED <<gen, objs, tables, misuse, kicked>>
      BY <2>4 DEF End
    <3>2. QED
      BY <1>1, <3>1, LostTables, DefaultKept DEF Grow
  <2>5. CASE Connect
    <3>1. default' = default
      BY <2>5 DEF Connect
    <3>2. QED
      BY <1>1, <2>5, <3>1, ConnectTables, DefaultKept DEF Grow
  <2>6. CASE Handshake
    <3>1. default' = default /\ UNCHANGED <<gen, objs, tables, misuse, kicked, toClient>>
      BY <2>6 DEF Handshake, broker
    <3>2. QED
      BY <1>1, <3>1, SameTables, DefaultKept DEF Grow
  <2>7. QED
    BY <2>1, <2>2, <2>3, <2>4, <2>5, <2>6 DEF Next
<1>4. QED
  BY <1>2, <1>3 DEF TInv

LEMMA InitTables ==
  ASSUME Init
  PROVE  TInv
<1>1. /\ gen = 0 /\ objs = <<>> /\ channels = Empty /\ queues = Empty /\ exchanges = Empty
      /\ toClient = <<>> /\ default = 0
  BY DEF Init
<1>2. Listed(objs) /\ DOMAIN objs = {}
  BY <1>1 DEF Listed
<1>3. Sound(gen, objs, DOMAIN channels) /\ QueuePart(gen, objs, DOMAIN channels, queues, kicked, {})
  BY <1>2 DEF Sound, Bindings, QueuePart, QueuesKept, OneInUse
<1>4. Entries(gen, objs, queues, "queue") /\ Entries(gen, objs, exchanges, "exchange")
  BY <1>1 DEF Entries, Empty
<1>5. Expected(objs, channels, {}) /\ ExchangePart(gen, objs, exchanges, Stale)
  BY <1>2 DEF Expected, ExchangePart, ExchangesKept
<1>6. Heard(toClient) = {}
  BY <1>1, HeardNothing
<1>7. Tables
  BY <1>2, <1>3, <1>4, <1>5, <1>6 DEF Tables, Tabled
<1>8. IInv /\ DefaultIsExchange
  BY <1>1, InitHolds DEF DefaultIsExchange
<1>9. QED
  BY <1>7, <1>8 DEF TInv

\* In every state the tables lead to objects of this connection, and the objects
\* await what is on its way to them.
THEOREM TablesInvariant == Spec => []TInv
<1>1. Init => TInv
  BY InitTables
<1>2. TInv /\ [Next]_vars => TInv'
  BY NextTables
<1>3. QED
  BY <1>1, <1>2, PTL DEF Spec

\* Two queue objects in use have two names, unless an earlier one of that name
\* was ended twice.
THEOREM QueuesAreOne == Spec => []OneQueueOfAName
<1>1. TInv => OneQueueOfAName
  <2> SUFFICES ASSUME TInv, NEW i \in Ids, NEW j \in Ids, i < j, Live(i), Live(j),
                      objs[i].kind = "queue", objs[j].kind = "queue", objs[i].name = objs[j].name
               PROVE  \E k \in 1 .. j : objs[k].name = objs[j].name /\ Ends(k) > 1
    BY DEF OneQueueOfAName
  <2> DEFINE D == DOMAIN channels
  <2>1. /\ Listed(objs) /\ Sound(gen, objs, D) /\ OneInUse(gen, objs, D, kicked, Heard(toClient))
    BY DEF TInv, Tables, Tabled, QueuePart
  <2>2. ASSUME NEW l \in Ids, Live(l), objs[l].kind = "queue"
        PROVE  InUse(gen, objs, D, l) /\ Told(objs, Heard(toClient), l) /\ objs[l].name # ""
    <3>1. l \in DOMAIN objs /\ objs[l].gen = gen /\ objs[l].state = "open" /\ Ends(l) = 0
      BY <2>2 DEF Live, Ids
    <3>2. SoundAt(gen, objs, D, l) /\ Fields(objs[l])
      BY <2>1, <3>1 DEF Sound, Listed
    <3>3. objs[l].closes = 0 /\ objs[l].destroys = 0
      BY <3>1, <3>2 DEF Ends, Fields
    <3>4. ~objs[l].destroyed
      <4>1. Ordered(objs, l, Destroys(objs[l].todo))
        BY <3>2 DEF SoundAt
      <4>2. QED
        BY <3>2, <3>3, <4>1 DEF Ordered, Fields
    <3>5. QED
      BY <2>2, <3>1, <3>2, <3>3, <3>4 DEF InUse, Told, SoundAt
  <2>3. Twins(gen, objs, D, kicked, Heard(toClient), i, j)
    BY <2>2 DEF Twins
  <2>4. Lost(objs, objs[j].name, j)
    BY <2>1, <2>3 DEF OneInUse, Ids
  <2>5. QED
    BY <2>4 DEF Lost, Ends
<1>2. QED
  BY <1>1, TablesInvariant, PTL

\* The tables lead to objects that can be used, and keep the exchanges in use
\* that a queue in use is bound to.
THEOREM TablesAreTrue == Spec => []TablesHold
<1>1. TInv => TablesHold
  <2> SUFFICES ASSUME TInv
               PROVE  TablesHold
    OBVIOUS
  <2> DEFINE D == DOMAIN channels
  <2>1. /\ Listed(objs) /\ Sound(gen, objs, D)
        /\ Entries(gen, objs, queues, "queue") /\ Entries(gen, objs, exchanges, "exchange")
        /\ ExchangePart(gen, objs, exchanges, Stale)
    BY DEF TInv, Tables, Tabled
  <2>2. ASSUME NEW f \in {queues, exchanges}, NEW n \in DOMAIN f \ {""}
        PROVE  EntryUsable(f, n)
    <3>1. PICK kd : EntryAt(gen, objs, kd, n, f[n])
      BY <2>1 DEF Entries
    <3>2. QED
      BY <3>1 DEF EntryAt, EntryUsable
  <2>3. ASSUME NEW q \in Ids
        PROVE  BoundStaysRegistered(q)
    <3> DEFINE x == objs[q].exchange
    <3>1. SUFFICES ASSUME Live(q), x # 0, Live(x), ~Stale,
                          \A i \in Ids : objs[i].kind = "queue" => ~(objs[i].destroys > 1),
                          \A i \in Ids : objs[i].kind # "queue" /\ objs[i].name = objs[x].name => ~(Ends(i) > 0)
                   PROVE  Holds(objs, exchanges, x)
      BY DEF BoundStaysRegistered, Holds, Stale
    <3>2. \A i \in Ids : i \in DOMAIN objs /\ Fields(objs[i]) /\ SoundAt(gen, objs, D, i)
      BY <2>1 DEF Listed, Sound, Ids
    <3>3. Once(objs)
      BY <3>1, <3>2 DEF Once, Fields, Ids
    <3>4. NotEnded(objs, objs[x].name)
      <4>1. ASSUME NEW i \in DOMAIN objs, objs[i].kind = "exchange", objs[i].name = objs[x].name
            PROVE  objs[i].destroys + objs[i].closes = 0
        <5>1. ~(Ends(i) > 0) /\ Fields(objs[i])
          BY <3>1, <3>2, <4>1 DEF Ids
        <5>2. QED
          BY <5>1 DEF Ends, Fields
      <4>2. QED
        BY <4>1 DEF NotEnded
    <3>5. ~objs[q].destroyed /\ objs[q].gen = gen
      <4>1. objs[q].gen = gen /\ Ends(q) = 0 /\ Fields(objs[q])
        BY <3>1, <3>2 DEF Live
      <4>2. objs[q].destroys = 0
        BY <4>1 DEF Ends, Fields
      <4>3. Ordered(objs, q, Destroys(objs[q].todo))
        BY <3>2 DEF SoundAt
      <4>4. QED
        BY <4>1, <4>2, <4>3 DEF Ordered
    <3>6. BoundNow(gen, objs, q)
      BY <3>1, <3>4, <3>5 DEF BoundNow, Live
    <3>7. ExchangesKept(gen, objs, exchanges)
      BY <2>1, <3>1, <3>3 DEF ExchangePart
    <3>8. QED
      BY <3>6, <3>7 DEF ExchangesKept, Ids
  <2>4. QED
    BY <2>2, <2>3 DEF TablesHold
<1>2. QED
  BY <1>1, TablesInvariant, PTL

=============================================================================
