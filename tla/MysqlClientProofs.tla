------------------------- MODULE MysqlClientProofs --------------------------
(***************************************************************************)
(* For every set of statements and every number of commands: the client of *)
(* node-mysql-native is type correct, hands every packet to the command it *)
(* answers, has one request out at a time, and implements MysqlSession.    *)
(***************************************************************************)
EXTENDS MysqlClient, SequenceTheorems, TLAPS

-----------------------------------------------------------------------------
(* The inductive invariant                                                 *)

\* Commands finish in the order of their ids, and those in the queue follow.
Consecutive(base, q) == \A k \in 1 .. Len(q) : q[k] = base + k

InOrder ==
  /\ Consecutive(0, finished)
  /\ Consecutive(Len(finished), queued_cmds)
  /\ Len(finished) + Len(queued_cmds) = Len(commands)

\* The first command, and no other, is auth; a prepare that an execute brought
\* along is followed by that execute.
CallsWellFormed ==
  \A i \in 1 .. Len(commands) :
    /\ (i = 1) <=> (commands[i].kind = "auth")
    /\ commands[i].auto =>
         /\ i + 1 <= Len(commands)
         /\ commands[i].kind = "prepare"

\* The command at the head has been started exactly when bytes have arrived,
\* unless it has thrown.
HeadStarted == (state = "start") <=> (queued_cmds = <<>> \/ ~connected \/ Stalled)

\* Only a prepare waits for a ps_ok.
HeadPrepares == state = "ps_ok" => queued_cmds # <<>> /\ commands[Top].kind = "prepare"

\* The statement of a command as its own response describes it.
Known(c) == [params |-> c.sql \in WithParams, fields |-> c.sql \in WithFields]

\* What process_packet does with a packet of the command's own response, as a
\* step from state to state: "cut" stands for the state of no command, in which
\* a response goes on after the ok that has ended its query.
AfterPacket(c, s, p) ==
  IF s = "cut" \/ (s = "rs_ok" /\ p = "okmore") THEN "cut"
  ELSE IF p = "err" THEN "done" ELSE Handle(c, s, p, Known(c))

Places == States \cup {"done", "cut"}

\* The states through which the packets on the way take command c, the first of
\* them s: the command is never done before the last packet, unless it is cut.
Chain(c, s, packets) ==
  \E st \in [1 .. Len(packets) + 1 -> Places] :
    /\ st[1] = s
    /\ \A k \in 1 .. Len(packets) :
         /\ st[k] # "done"
         /\ st[k + 1] = AfterPacket(c, st[k], packets[k].kind)

\* The client is ahead of the greeting.
Greeting ==
  /\ toClient = <<[owner |-> 1, kind |-> "greeting"]>>
  /\ toServer = <<>>
  /\ finished = <<>>
  /\ state \in {"start", "read_status"}
  /\ connected /\ queued_cmds # <<>> => state = "read_status"
  /\ server \in {"handshake", "gone"}

\* The state in which a command awaits the first packet of its response.
Asked(c) == IF c.kind = "auth" THEN "check_auth_ok" ELSE Started(c)

\* The request of the command at the head is on its way.
Requested ==
  /\ connected
  /\ queued_cmds # <<>>
  /\ toServer = <<Top>>
  /\ toClient = <<>>
  /\ state = Asked(commands[Top])
  /\ commands[Top].kind = "execute" => commands[Top].sql \in pscache /\ Top \notin failed

\* Packets of the response to the command at the head are on their way.
Responding ==
  /\ connected
  /\ queued_cmds # <<>>
  /\ toServer = <<>>
  /\ toClient # <<>>
  /\ \A k \in 1 .. Len(toClient) : toClient[k].owner = Top /\ toClient[k].kind # "greeting"
  /\ state # "read_status"
  /\ Chain(commands[Top], state, toClient)
  /\ state = "ps_ok" =>
       /\ commands[Top].kind = "prepare"
       /\ toClient[1].kind = "err" \/ commands[Top].sql \in prepared

\* Nothing is on its way: nobody waits, or what was awaited is lost.
Quiet == toServer = <<>> /\ toClient = <<>>

Wire == Greeting \/ Requested \/ Responding \/ Quiet

OnWire == Wire /\ pscache \subseteq prepared

Reported == \A k \in 1 .. Len(finished) : \E e \in {"end", "error"} : <<finished[k], e>> \in events

IInv ==
  /\ TypeOK
  /\ InOrder
  /\ CallsWellFormed
  /\ HeadStarted
  /\ HeadPrepares
  /\ Reported
  /\ ~cut => OnWire

-----------------------------------------------------------------------------
(* Sequences                                                               *)

\* What is left of a sequence without its first n elements.
LEMMA DropSeq ==
  ASSUME NEW S, NEW q \in Seq(S), NEW n \in 0 .. Len(q)
  PROVE  /\ SubSeq(q, n + 1, Len(q)) \in Seq(S)
         /\ Len(SubSeq(q, n + 1, Len(q))) = Len(q) - n
         /\ \A k \in 1 .. Len(q) - n : SubSeq(q, n + 1, Len(q))[k] = q[n + k]
  <1>1. Len(q) \in Nat /\ \A k \in n + 1 .. Len(q) : q[k] \in S
    BY LenProperties, ElementOfSeq
  <1>2. /\ SubSeq(q, n + 1, Len(q)) \in Seq(S)
        /\ Len(SubSeq(q, n + 1, Len(q))) = IF n + 1 <= Len(q) THEN Len(q) - (n + 1) + 1 ELSE 0
        /\ \A k \in 1 .. Len(q) - (n + 1) + 1 : SubSeq(q, n + 1, Len(q))[k] = q[n + 1 + k - 1]
    BY <1>1, SubSeqProperties
  <1>. QED  BY <1>1, <1>2

\* The first n elements of a sequence.
LEMMA TakeSeq ==
  ASSUME NEW S, NEW q \in Seq(S), NEW n \in 0 .. Len(q)
  PROVE  /\ SubSeq(q, 1, n) \in Seq(S)
         /\ Len(SubSeq(q, 1, n)) = n
         /\ \A k \in 1 .. n : SubSeq(q, 1, n)[k] = q[k]
  <1>1. Len(q) \in Nat /\ \A k \in 1 .. n : q[k] \in S
    BY LenProperties, ElementOfSeq
  <1>2. /\ SubSeq(q, 1, n) \in Seq(S)
        /\ Len(SubSeq(q, 1, n)) = IF 1 <= n THEN n - 1 + 1 ELSE 0
        /\ \A k \in 1 .. n - 1 + 1 : SubSeq(q, 1, n)[k] = q[1 + k - 1]
    BY <1>1, SubSeqProperties
  <1>. QED  BY <1>1, <1>2

\* A sequence that is not empty begins with its head.
LEMMA HeadIsFirst ==
  ASSUME NEW S, NEW q \in Seq(S), q # <<>>
  PROVE  Head(q) = q[1] /\ Len(q) >= 1 /\ Len(q) \in Nat
  BY EmptySeq

\* A sequence is empty when its length is 0.
LEMMA EmptyIsZero ==
  ASSUME NEW S, NEW q \in Seq(S)
  PROVE  (q = <<>>) <=> (Len(q) = 0)
  BY EmptySeq

\* The first n elements of the queue q have moved to the end of `past`, which
\* is now f; r is left.
Moved(S, past, q, n, f, r) ==
  /\ f \in Seq(S) /\ r \in Seq(S)
  /\ Len(f) = Len(past) + n
  /\ Len(r) = Len(q) - n
  /\ Consecutive(0, f)
  /\ Consecutive(Len(f), r)
  /\ \A k \in 1 .. Len(past) : f[k] = past[k]
  /\ \A k \in 1 .. n : f[Len(past) + k] = q[k]
  /\ \A k \in 1 .. Len(r) : r[k] = q[n + k]

\* Moving elements keeps both sequences numbered consecutively.
LEMMA MoveSeq ==
  ASSUME NEW S, NEW past \in Seq(S), NEW q \in Seq(S), NEW n \in 0 .. Len(q),
         NEW f, f = past \o SubSeq(q, 1, n),
         NEW r, r = SubSeq(q, n + 1, Len(q)),
         Consecutive(0, past), Consecutive(Len(past), q)
  PROVE  Moved(S, past, q, n, f, r)
  <1>. DEFINE now == SubSeq(q, 1, n)
  <1>1. Len(past) \in Nat /\ Len(q) \in Nat
    BY LenProperties
  <1>2. r \in Seq(S) /\ Len(r) = Len(q) - n /\ \A k \in 1 .. Len(q) - n : r[k] = q[n + k]
    BY DropSeq
  <1>3. now \in Seq(S) /\ Len(now) = n /\ \A k \in 1 .. n : now[k] = q[k]
    BY TakeSeq
  <1>. HIDE DEF now
  <1>4. /\ f \in Seq(S)
        /\ Len(f) = Len(past) + n
        /\ \A k \in 1 .. Len(past) + n :
             f[k] = IF k <= Len(past) THEN past[k] ELSE now[k - Len(past)]
    <2>1. f = past \o now
      BY DEF now
    <2>2. /\ past \o now \in Seq(S)
          /\ Len(past \o now) = Len(past) + Len(now)
          /\ \A k \in 1 .. Len(past) + Len(now) :
               (past \o now)[k] = IF k <= Len(past) THEN past[k] ELSE now[k - Len(past)]
      BY <1>3, ConcatProperties
    <2>. QED  BY <2>1, <2>2, <1>3
  <1>5. \A k \in 1 .. Len(past) : f[k] = past[k]
    BY <1>1, <1>4
  <1>6. ASSUME NEW k \in 1 .. n
        PROVE  f[Len(past) + k] = q[k]
    <2>1. /\ Len(past) + k \in 1 .. Len(past) + n
          /\ ~(Len(past) + k <= Len(past))
          /\ (Len(past) + k) - Len(past) = k
      BY <1>1
    <2>. QED  BY <2>1, <1>3, <1>4
  <1>7. Consecutive(0, f)
    <2>1. SUFFICES ASSUME NEW k \in 1 .. Len(past) + n
                   PROVE  f[k] = k
      BY <1>1, <1>4 DEF Consecutive
    <2>2. CASE k <= Len(past)
      BY <1>1, <1>5, <2>2 DEF Consecutive
    <2>3. CASE ~(k <= Len(past))
      <3>1. k - Len(past) \in 1 .. n /\ Len(past) + (k - Len(past)) = k
        BY <1>1, <2>3
      <3>2. f[k] = q[k - Len(past)]
        BY <1>6, <3>1
      <3>3. q[k - Len(past)] = Len(past) + (k - Len(past))
        BY <1>1, <3>1 DEF Consecutive
      <3>. QED  BY <3>1, <3>2, <3>3
    <2>. QED  BY <2>2, <2>3
  <1>8. Consecutive(Len(f), r)
    BY <1>1, <1>2, <1>4, SMTT(60) DEF Consecutive
  <1>. QED  BY <1>2, <1>4, <1>5, <1>6, <1>7, <1>8 DEF Moved

-----------------------------------------------------------------------------
(* The queue                                                               *)

\* The state a command is in once it has been started tells the kinds apart.
LEMMA StartedIs ==
  ASSUME NEW c
  PROVE  /\ Started(c) \in States \ {"start", "check_auth_ok"}
         /\ c.kind = "auth" <=> Started(c) = "read_status"
         /\ c.kind = "prepare" <=> Started(c) = "ps_ok"
         /\ c.kind = "query" <=> Started(c) = "rs_ok"
  <1>1. CASE c.kind = "auth"
    <2>1. Started(c) = "read_status"
      BY <1>1, Zenon DEF Started
    <2>. QED  BY <1>1, <2>1 DEF States
  <1>2. CASE c.kind = "query"
    <2>1. Started(c) = "rs_ok"
      BY <1>2, Zenon DEF Started
    <2>. QED  BY <1>2, <2>1 DEF States
  <1>3. CASE c.kind = "prepare"
    <2>1. Started(c) = "ps_ok"
      BY <1>3, Zenon DEF Started
    <2>. QED  BY <1>3, <2>1 DEF States
  <1>4. CASE c.kind \notin {"auth", "query", "prepare"}
    <2>1. Started(c) = "execute_ok"
      BY <1>4, Zenon DEF Started
    <2>. QED  BY <1>4, <2>1 DEF States
  <1>. QED  BY <1>1, <1>2, <1>3, <1>4

\* The types that dispatch_packet() keeps.
DispatchTyped(cmds, emitted) ==
  /\ queued_cmds' \in Seq(1 .. Len(cmds))
  /\ state' \in States
  /\ ended' \in BOOLEAN
  /\ finished' \in Seq(1 .. Len(cmds))
  /\ toServer' \in Seq(1 .. Len(cmds))
  /\ events' \subseteq (1 .. Len(cmds)) \X {"end", "error"}
  /\ emitted \subseteq events'

\* The commands that it finishes.
DispatchMoves(done, q) ==
  /\ Consecutive(0, finished')
  /\ Consecutive(Len(finished'), queued_cmds')
  /\ Len(finished') >= Len(finished) + Len(done)
  /\ Len(finished') + Len(queued_cmds') = Len(finished) + Len(done) + Len(q)
  /\ \A k \in Len(finished) + Len(done) + 1 .. Len(finished') :
       \E e \in {"end", "error"} : <<k, e>> \in events'

\* The command that it starts.
StartsNext(cmds, cache, fail) ==
  /\ queued_cmds' = <<>> => state' = "start" /\ toServer' = toServer
  /\ queued_cmds' # <<>> =>
       LET i == queued_cmds'[1] IN
         /\ ~AtOnce(cmds[i], i, cache, fail)
         /\ state' = Started(cmds[i])
         /\ \/ toServer' = toServer
            \/ toServer' = Append(toServer, i) /\ cmds[i].kind # "auth"

\* What dispatch_packet() without a packet does, in these terms; a command at
\* the head that has to wait stays where it is.
LEMMA Dispatched ==
  ASSUME NEW cmds \in Seq(Command),
         NEW done \in Seq(1 .. Len(cmds)),
         NEW q \in Seq(1 .. Len(cmds)),
         NEW cache, NEW fail,
         NEW emitted \in SUBSET ((1 .. Len(cmds)) \X {"end", "error"}),
         finished \in Seq(1 .. Len(cmds)),
         toServer \in Seq(1 .. Len(cmds)),
         ended \in BOOLEAN,
         Consecutive(0, finished \o done),
         Consecutive(Len(finished) + Len(done), q),
         DispatchPacket(cmds, done, q, cache, fail, emitted)
  PROVE  /\ DispatchTyped(cmds, emitted)
         /\ DispatchMoves(done, q)
         /\ StartsNext(cmds, cache, fail)
         /\ (q = <<>> \/ ~AtOnce(cmds[q[1]], q[1], cache, fail)) =>
              queued_cmds' = q /\ finished' = finished \o done
  <1>. DEFINE Dom == 1 .. Len(cmds)
              past == finished \o done
              rest(n) == SubSeq(q, n + 1, Len(q))
  <1>1. PICK n \in 0 .. Len(q) :
          /\ \A k \in 1 .. n : AtOnce(cmds[q[k]], q[k], cache, fail)
          /\ n < Len(q) => ~AtOnce(cmds[q[n + 1]], q[n + 1], cache, fail)
          /\ queued_cmds' = rest(n)
          /\ finished' = past \o SubSeq(q, 1, n)
          /\ events' = emitted \cup
                       {<<q[k], AtOnceEvent(cmds[q[k]], q[k], fail)>> : k \in 1 .. n}
          /\ ended' \in BOOLEAN
          /\ state' = IF rest(n) = <<>> THEN "start" ELSE Started(cmds[Head(rest(n))])
          /\ toServer' = IF rest(n) = <<>> \/ ended' \/ cmds[Head(rest(n))].kind = "auth"
                         THEN toServer
                         ELSE Append(toServer, Head(rest(n)))
    BY DEF DispatchPacket
  <1>2. /\ past \in Seq(Dom)
        /\ Len(past) = Len(finished) + Len(done)
        /\ Len(past) \in Nat /\ Len(q) \in Nat
    BY ConcatProperties, LenProperties
  <1>3. /\ finished' \in Seq(Dom) /\ queued_cmds' \in Seq(Dom)
        /\ Len(finished') = Len(past) + n
        /\ Len(queued_cmds') = Len(q) - n
        /\ Consecutive(0, finished')
        /\ Consecutive(Len(finished'), queued_cmds')
        /\ \A k \in 1 .. n : finished'[Len(past) + k] = q[k]
        /\ \A k \in 1 .. Len(queued_cmds') : queued_cmds'[k] = q[n + k]
    <2>1. Consecutive(0, past) /\ Consecutive(Len(past), q)
      BY <1>2
    <2>2. finished' = past \o SubSeq(q, 1, n) /\ queued_cmds' = SubSeq(q, n + 1, Len(q))
      BY <1>1
    <2>3. past \in Seq(Dom) /\ q \in Seq(Dom) /\ n \in 0 .. Len(q)
      BY <1>2
    <2>. HIDE DEF past, Dom
    <2>4. Moved(Dom, past, q, n, finished', queued_cmds')
      BY <2>1, <2>2, <2>3, MoveSeq
    <2>. QED  BY <2>4 DEF Moved
  <1>4. \A k \in 1 .. n : q[k] \in Dom /\ q[k] = Len(past) + k
    <2>1. \A k \in 1 .. n : k \in 1 .. Len(q) /\ q[k] \in Dom
      BY <1>2, ElementOfSeq
    <2>. QED  BY <1>2, <2>1 DEF Consecutive
  <1>5. \A i, c : AtOnceEvent(c, i, fail) \in {"end", "error"}
    BY DEF AtOnceEvent
  <1>6. events' \subseteq Dom \X {"end", "error"} /\ emitted \subseteq events'
    <2>1. ASSUME NEW k \in 1 .. n
          PROVE  <<q[k], AtOnceEvent(cmds[q[k]], q[k], fail)>> \in Dom \X {"end", "error"}
      BY <1>4, <1>5
    <2>. QED  BY <1>1, <2>1
  <1>7. state' \in States
    BY <1>1, StartedIs DEF States
  <1>8. ASSUME NEW k \in Len(past) + 1 .. Len(finished')
        PROVE  \E e \in {"end", "error"} : <<k, e>> \in events'
    <2>. DEFINE j == k - Len(past)
    <2>1. j \in 1 .. n /\ Len(past) + j = k
      BY <1>2, <1>3
    <2>2. q[j] = k
      BY <1>4, <2>1
    <2>3. <<q[j], AtOnceEvent(cmds[q[j]], q[j], fail)>> \in events'
      BY <1>1, <2>1
    <2>. QED  BY <2>2, <2>3, <1>5
  <1>9. ASSUME queued_cmds' # <<>>
        PROVE  /\ ~AtOnce(cmds[queued_cmds'[1]], queued_cmds'[1], cache, fail)
               /\ state' = Started(cmds[queued_cmds'[1]])
               /\ \/ toServer' = toServer
                  \/ /\ toServer' = Append(toServer, queued_cmds'[1])
                     /\ cmds[queued_cmds'[1]].kind # "auth"
    <2>1. rest(n) # <<>> /\ rest(n) = queued_cmds'
      BY <1>1, <1>9
    <2>2. Len(queued_cmds') >= 1 /\ Head(queued_cmds') = queued_cmds'[1]
      BY <1>3, <1>9, HeadIsFirst
    <2>3. n < Len(q) /\ queued_cmds'[1] = q[n + 1]
      <3>1. Len(queued_cmds') = Len(q) - n
        BY <1>3
      <3>2. n < Len(q) /\ 1 \in 1 .. Len(queued_cmds')
        BY <1>2, <2>2, <3>1
      <3>. QED  BY <1>3, <3>2
    <2>. QED  BY <1>1, <2>1, <2>2, <2>3
  <1>10. queued_cmds' = <<>> => state' = "start" /\ toServer' = toServer
    BY <1>1
  <1>11. /\ Len(finished') >= Len(finished) + Len(done)
         /\ Len(finished') + Len(queued_cmds') = Len(finished) + Len(done) + Len(q)
    BY <1>2, <1>3
  <1>12. \A k \in Len(finished) + Len(done) + 1 .. Len(finished') :
           \E e \in {"end", "error"} : <<k, e>> \in events'
    BY <1>2, <1>8
  <1>13. ASSUME q = <<>> \/ ~AtOnce(cmds[q[1]], q[1], cache, fail)
         PROVE  queued_cmds' = q /\ finished' = past
    <2>1. n = 0
      BY <1>1, <1>2, <1>13
    <2>2. SubSeq(q, n + 1, Len(q)) = q
      BY <2>1, SubSeqFull
    <2>3. SubSeq(q, 1, n) = <<>>
      BY <2>1, SubSeqEmpty
    <2>4. past \o <<>> = past
      BY <1>2, ConcatEmptySeq
    <2>5. queued_cmds' = SubSeq(q, n + 1, Len(q)) /\ finished' = past \o SubSeq(q, 1, n)
      BY <1>1
    <2>. QED  BY <2>2, <2>3, <2>4, <2>5, Zenon
  <1>14. DispatchTyped(cmds, emitted)
    <2>1. CASE queued_cmds' = <<>>
      BY <1>1, <1>3, <1>6, <1>7, <1>10, <2>1 DEF DispatchTyped
    <2>2. CASE queued_cmds' # <<>>
      <3>1. queued_cmds' \in Seq(Dom)
        BY <1>3
      <3>2. 1 \in 1 .. Len(queued_cmds')
        BY <2>2, <3>1, HeadIsFirst
      <3>3. queued_cmds'[1] \in Dom
        BY <3>1, <3>2, ElementOfSeq
      <3>4. Append(toServer, queued_cmds'[1]) \in Seq(Dom)
        BY <3>3, AppendProperties
      <3>5. toServer' \in Seq(Dom)
        BY <1>9, <2>2, <3>4
      <3>. QED  BY <1>1, <1>3, <1>6, <1>7, <3>5 DEF DispatchTyped
    <2>. QED  BY <2>1, <2>2
  <1>15. DispatchMoves(done, q)
    BY <1>3, <1>11, <1>12 DEF DispatchMoves
  <1>16. StartsNext(cmds, cache, fail)
    BY <1>9, <1>10 DEF StartsNext
  <1>. QED  BY <1>13, <1>14, <1>15, <1>16

-----------------------------------------------------------------------------
(* The initial state                                                       *)

LEMMA InitInv == Init => IInv
  <1>1. SUFFICES ASSUME Init
                 PROVE  IInv
    OBVIOUS
  <1>. USE <1>1 DEF Init
  <1>2. \A S : <<>> \in Seq(S) /\ Len(<<>>) = 0
    BY EmptySeq
  <1>3. toClient \in Seq([owner : Ids \cup {1}, kind : Packets])
    <2>1. [owner |-> 1, kind |-> "greeting"] \in [owner : Ids \cup {1}, kind : Packets]
      BY DEF Packets
    <2>. QED  BY <2>1
  <1>4. TypeOK
    <2>1. /\ commands \in Seq(Command) /\ queued_cmds \in Seq(1 .. Len(commands))
          /\ finished \in Seq(1 .. Len(commands)) /\ toServer \in Seq(1 .. Len(commands))
      BY <1>2, Zenon
    <2>2. Len(commands) = 0 /\ Len(commands) <= MaxCommands
      BY MysqlAssumption
    <2>3. state \in States /\ server \in {"handshake", "ready", "gone"}
      BY DEF States
    <2>. QED  BY <1>3, <2>1, <2>2, <2>3 DEF TypeOK
  <1>5. InOrder /\ CallsWellFormed /\ HeadStarted /\ HeadPrepares /\ Reported
    BY <1>2 DEF InOrder, Consecutive, CallsWellFormed, HeadStarted, HeadPrepares, Reported
  <1>6. OnWire
    BY DEF OnWire, Wire, Greeting
  <1>. QED  BY <1>4, <1>5, <1>6 DEF IInv

-----------------------------------------------------------------------------
(* What is on the wire after the queue has moved on                        *)

\* After dispatch_packet() the command at the head is waiting for a packet.
LEMMA HeadAfterDispatch ==
  ASSUME NEW cmds \in Seq(Command), commands' = cmds,
         queued_cmds' \in Seq(1 .. Len(cmds)),
         connected',
         NEW cache, NEW fail, StartsNext(cmds, cache, fail)
  PROVE  HeadStarted' /\ HeadPrepares'
  <1>1. CASE queued_cmds' = <<>>
    <2>1. state' = "start"
      BY <1>1 DEF StartsNext
    <2>. QED  BY <1>1, <2>1 DEF HeadStarted, HeadPrepares
  <1>2. CASE queued_cmds' # <<>>
    <2>1. state' = Started(cmds[queued_cmds'[1]])
      BY <1>2 DEF StartsNext
    <2>2. commands'[Top'] = cmds[queued_cmds'[1]]
      BY <1>2, HeadIsFirst DEF Top
    <2>. QED  BY <1>2, <2>1, <2>2, StartedIs DEF HeadStarted, HeadPrepares, Stalled
  <1>. QED  BY <1>1, <1>2

\* A client that had nothing on its way has, after dispatch_packet(), the
\* request of the next command on its way or nothing.
LEMMA WireAfterDispatch ==
  ASSUME NEW cmds \in Seq(Command), commands' = cmds,
         queued_cmds' \in Seq(1 .. Len(cmds)),
         connected', toServer = <<>>, toClient' = <<>>,
         StartsNext(cmds, pscache', failed')
  PROVE  Wire'
  <1>1. CASE queued_cmds' = <<>>
    <2>1. toServer' = <<>>
      BY <1>1 DEF StartsNext
    <2>. QED  BY <2>1 DEF Wire, Quiet
  <1>2. CASE queued_cmds' # <<>>
    <2>. DEFINE i == queued_cmds'[1]
    <2>1. /\ ~AtOnce(cmds[i], i, pscache', failed')
          /\ state' = Started(cmds[i])
          /\ \/ toServer' = toServer
             \/ toServer' = Append(toServer, i) /\ cmds[i].kind # "auth"
      BY <1>2 DEF StartsNext
    <2>2. Top' = i /\ commands'[Top'] = cmds[i]
      BY <1>2, HeadIsFirst DEF Top
    <2>3. CASE toServer' = toServer
      BY <2>3 DEF Wire, Quiet
    <2>4. CASE toServer' = Append(toServer, i) /\ cmds[i].kind # "auth"
      <3>1. toServer' = <<i>>
        BY <2>4
      <3>2. state' = Asked(cmds[i])
        BY <2>1, <2>4 DEF Asked
      <3>3. cmds[i].kind = "execute" => cmds[i].sql \in pscache' /\ i \notin failed'
        BY <2>1 DEF AtOnce
      <3>4. Requested'
        BY <1>2, <2>2, <3>1, <3>2, <3>3 DEF Requested
      <3>. QED  BY <3>4 DEF Wire
    <2>. QED  BY <2>1, <2>3, <2>4
  <1>. QED  BY <1>1, <1>2

-----------------------------------------------------------------------------
(* Calls                                                                   *)

\* The commands that one call hands to add().
NewCommands(new) ==
  /\ new \in Seq(Command)
  /\ Len(new) \in {1, 2}
  /\ \A k \in 1 .. Len(new) :
       /\ new[k].kind = "auth" <=> (k = 1 /\ commands = <<>>)
       /\ new[k].auto => k < Len(new) /\ new[k].kind = "prepare"

LEMMA CallStep ==
  ASSUME IInv, NEW new, NewCommands(new), Add(new)
  PROVE  IInv'
  <1>. DEFINE C   == Len(commands)
              all == commands \o new
              ids == [k \in 1 .. Len(new) |-> C + k]
              q   == queued_cmds \o ids
              Dom == 1 .. Len(all)
  <1>1. /\ commands \in Seq(Command) /\ queued_cmds \in Seq(1 .. C)
        /\ finished \in Seq(1 .. C) /\ toServer \in Seq(1 .. C)
        /\ failed \subseteq 1 .. C /\ ended \in BOOLEAN /\ connected \in BOOLEAN
        /\ events \subseteq (1 .. C) \X {"end", "error"}
    BY DEF IInv, TypeOK
  <1>2. C \in Nat /\ Len(queued_cmds) \in Nat /\ Len(finished) \in Nat /\ Len(new) \in Nat
    BY <1>1, LenProperties DEF NewCommands
  <1>3. /\ all \in Seq(Command)
        /\ Len(all) = C + Len(new)
        /\ \A k \in 1 .. C : all[k] = commands[k]
        /\ \A k \in 1 .. Len(new) : all[C + k] = new[k]
    <2>1. /\ all \in Seq(Command)
          /\ Len(all) = C + Len(new)
          /\ \A k \in 1 .. C + Len(new) : all[k] = IF k <= C THEN commands[k] ELSE new[k - C]
      BY <1>1, ConcatProperties DEF NewCommands
    <2>2. \A k \in 1 .. C : all[k] = commands[k]
      BY <1>2, <2>1
    <2>3. ASSUME NEW k \in 1 .. Len(new)
          PROVE  all[C + k] = new[k]
      <3>1. C + k \in 1 .. C + Len(new) /\ ~(C + k <= C) /\ (C + k) - C = k
        BY <1>2
      <3>. QED  BY <2>1, <3>1
    <2>. QED  BY <2>1, <2>2, <2>3
  <1>4. /\ Len(all) <= MaxCommands
        /\ commands' = all
        /\ UNCHANGED <<pscache, failed, connected, cut, server, prepared, toClient>>
        /\ NeedStart /\ ~Throws(new) => DispatchPacket(all, <<>>, q, pscache, failed, events)
        /\ ~NeedStart \/ Throws(new) =>
             queued_cmds' = q /\ UNCHANGED <<state, ended, finished, events, toServer>>
    BY DEF Add, Push
  <1>5. C <= Len(all) /\ Len(all) \in Nat /\ 1 .. C \subseteq Dom
    BY <1>2, <1>3 DEF NewCommands
  <1>. HIDE DEF all
  <1>6. /\ ids \in Seq(Dom)
        /\ Len(ids) = Len(new)
        /\ \A k \in 1 .. Len(new) : ids[k] = C + k
    BY <1>2, <1>3, <1>5
  <1>. HIDE DEF ids
  <1>7. /\ finished \in Seq(Dom) /\ queued_cmds \in Seq(Dom) /\ toServer \in Seq(Dom)
        /\ failed \subseteq Dom /\ events \subseteq Dom \X {"end", "error"}
    <2>1. finished \in Seq(Dom) /\ queued_cmds \in Seq(Dom) /\ toServer \in Seq(Dom)
      BY <1>1, <1>5, SeqMonotonic
    <2>. QED  BY <1>1, <1>5, <2>1
  <1>8. /\ q \in Seq(Dom)
        /\ Len(q) = Len(queued_cmds) + Len(new)
        /\ q # <<>>
        /\ \A k \in 1 .. Len(queued_cmds) : q[k] = queued_cmds[k]
        /\ Consecutive(Len(finished), q)
    <2>1. /\ q \in Seq(Dom)
          /\ Len(q) = Len(queued_cmds) + Len(ids)
          /\ \A k \in 1 .. Len(queued_cmds) + Len(ids) :
               q[k] = IF k <= Len(queued_cmds) THEN queued_cmds[k] ELSE ids[k - Len(queued_cmds)]
      BY <1>6, <1>7, ConcatProperties
    <2>2. \A k \in 1 .. Len(queued_cmds) : q[k] = queued_cmds[k]
      BY <1>2, <1>6, <2>1
    <2>3. /\ \A k \in 1 .. Len(queued_cmds) : queued_cmds[k] = Len(finished) + k
          /\ Len(finished) + Len(queued_cmds) = C
      BY DEF IInv, InOrder, Consecutive
    <2>4. ASSUME NEW k \in 1 .. Len(q)
          PROVE  q[k] = Len(finished) + k
      <3>1. CASE k <= Len(queued_cmds)
        BY <1>2, <2>2, <2>3, <3>1
      <3>2. CASE ~(k <= Len(queued_cmds))
        <4>. DEFINE j == k - Len(queued_cmds)
        <4>1. j \in 1 .. Len(new) /\ C + j = Len(finished) + k
          <5>1. Len(q) = Len(queued_cmds) + Len(new) /\ Len(finished) + Len(queued_cmds) = C
            BY <1>6, <2>1, <2>3
          <5>. QED  BY <1>2, <3>2, <5>1
        <4>2. q[k] = ids[j]
          BY <1>2, <2>1, <3>2
        <4>. QED  BY <1>6, <4>1, <4>2
      <3>. QED  BY <3>1, <3>2
    <2>5. q # <<>>
      BY <1>2, <1>6, <2>1, EmptyIsZero DEF NewCommands
    <2>. QED  BY <1>6, <2>1, <2>2, <2>4, <2>5 DEF Consecutive
  <1>. HIDE DEF q
  <1>9. CallsWellFormed'
    <2>1. SUFFICES ASSUME NEW i \in 1 .. Len(all)
                   PROVE  /\ (i = 1) <=> (all[i].kind = "auth")
                          /\ all[i].auto => i + 1 <= Len(all) /\ all[i].kind = "prepare"
      BY <1>4 DEF CallsWellFormed
    <2>2. CASE i <= C
      <3>1. i \in 1 .. C /\ all[i] = commands[i]
        BY <1>2, <1>3, <2>2
      <3>. QED  BY <1>2, <1>5, <3>1 DEF IInv, CallsWellFormed
    <2>3. CASE ~(i <= C)
      <3>. DEFINE k == i - C
      <3>1. k \in 1 .. Len(new) /\ C + k = i
        BY <1>2, <1>3, <2>3
      <3>2. all[i] = new[k]
        BY <1>3, <3>1
      <3>3. (i = 1) <=> (k = 1 /\ commands = <<>>)
        BY <1>1, <1>2, <3>1, EmptyIsZero
      <3>4. /\ new[k].kind = "auth" <=> (k = 1 /\ commands = <<>>)
            /\ new[k].auto => k < Len(new) /\ new[k].kind = "prepare"
        BY <3>1 DEF NewCommands
      <3>5. k < Len(new) => i + 1 <= Len(all)
        BY <1>2, <1>3, <3>1
      <3>. QED  BY <3>2, <3>3, <3>4, <3>5
    <2>. QED  BY <2>2, <2>3
  <1>10. toClient' \in Seq([owner : Ids \cup {1}, kind : Packets])
    BY <1>4 DEF IInv, TypeOK
  <1>11. pscache' \subseteq Statements /\ prepared' \subseteq Statements /\ cut' \in BOOLEAN
    BY <1>4 DEF IInv, TypeOK
  <1>12. CASE ~NeedStart \/ Throws(new)
    <2>1. /\ commands' = all /\ queued_cmds' = q
          /\ UNCHANGED <<pscache, failed, connected, cut, server, prepared, toClient,
                         state, ended, finished, events, toServer>>
      BY <1>4, <1>12
    <2>2. TypeOK'
      BY <1>3, <1>4, <1>7, <1>8, <1>10, <1>11, <2>1 DEF IInv, TypeOK
    <2>3. InOrder' /\ Reported'
      <3>1. Len(finished) + Len(q) = Len(all)
        <4>1. Len(finished) + Len(queued_cmds) = C
          BY DEF IInv, InOrder
        <4>2. Len(q) = Len(queued_cmds) + Len(new) /\ Len(all) = C + Len(new)
          BY <1>3, <1>8
        <4>. QED  BY <1>2, <4>1, <4>2
      <3>2. Consecutive(0, finished') /\ Consecutive(Len(finished'), queued_cmds')
        BY <1>8, <2>1 DEF IInv, InOrder
      <3>. QED  BY <2>1, <3>1, <3>2 DEF IInv, InOrder, Reported
    <2>5. ASSUME queued_cmds # <<>>
          PROVE  Top' = Top /\ commands'[Top'] = commands[Top]
      <3>1. /\ 1 \in 1 .. Len(queued_cmds)
            /\ Head(queued_cmds) = queued_cmds[1]
            /\ Head(q) = q[1]
        BY <1>1, <1>8, <2>5, HeadIsFirst
      <3>2. q[1] = queued_cmds[1] /\ queued_cmds[1] \in 1 .. C
        BY <1>1, <1>8, <3>1, ElementOfSeq
      <3>3. Top' = Top /\ Top \in 1 .. C
        BY <2>1, <3>1, <3>2 DEF Top
      <3>. QED  BY <1>3, <2>1, <3>3
    <2>4. HeadStarted' /\ HeadPrepares'
      <3>1. CASE queued_cmds # <<>>
        <4>1. queued_cmds' # <<>> /\ Top' = Top /\ commands'[Top'] = commands[Top]
          BY <1>8, <2>1, <2>5, <3>1
        <4>2. Stalled' <=> Stalled
          BY <2>1, <3>1, <4>1 DEF Stalled
        <4>. QED  BY <2>1, <3>1, <4>1, <4>2 DEF IInv, HeadStarted, HeadPrepares
      <3>2. CASE queued_cmds = <<>> /\ ~connected
        BY <2>1, <3>2 DEF IInv, HeadStarted, HeadPrepares
      <3>3. CASE queued_cmds = <<>> /\ Throws(new)
        <4>1. state' = "start" /\ connected'
          BY <2>1, <3>3 DEF IInv, HeadStarted, Throws, NeedStart
        <4>2. Top' = C + 1
          <5>1. Head(q) = q[1] /\ 1 \in 1 .. Len(q)
            BY <1>8, HeadIsFirst
          <5>2. q[1] = Len(finished) + 1
            BY <1>8, <5>1 DEF Consecutive
          <5>3. Len(finished) = C
            BY <1>1, <1>2, <3>3, EmptyIsZero DEF IInv, InOrder
          <5>. QED  BY <2>1, <5>1, <5>2, <5>3 DEF Top
        <4>3. commands'[Top'] = new[1]
          BY <1>2, <1>3, <2>1, <4>2, SMTT(60) DEF NewCommands
        <4>4. Stalled'
          BY <1>8, <2>1, <3>3, <4>1, <4>3 DEF Stalled, Throws
        <4>. QED  BY <4>1, <4>4 DEF HeadStarted, HeadPrepares
      <3>. QED  BY <1>1, <1>12, <3>1, <3>2, <3>3 DEF NeedStart
    <2>6. ASSUME ~cut'
          PROVE  OnWire'
      <3>0. ~cut /\ OnWire /\ pscache' \subseteq prepared'
        BY <2>1, <2>6 DEF IInv, OnWire
      <3>1. CASE Greeting
        <4>1. state' = state /\ connected' = connected /\ q # <<>>
          BY <1>8, <2>1
        <4>2. ~Throws(new)
          <5>1. SUFFICES ASSUME Throws(new)
                         PROVE  FALSE
            OBVIOUS
          <5>2. queued_cmds = <<>> /\ finished = <<>> /\ new[1].kind = "execute"
            BY <3>1, <5>1 DEF Throws, NeedStart, Greeting
          <5>3. commands = <<>>
            BY <1>1, <1>2, <5>2, EmptyIsZero DEF IInv, InOrder
          <5>. QED  BY <1>2, <5>2, <5>3 DEF NewCommands
        <4>3. Greeting'
          BY <1>12, <2>1, <3>1, <4>1, <4>2 DEF Greeting, NeedStart
        <4>. QED  BY <3>0, <4>3 DEF OnWire, Wire
      <3>2. CASE Requested
        <4>1. Requested'
          BY <1>8, <2>1, <2>5, <3>2 DEF Requested
        <4>. QED  BY <3>0, <4>1 DEF OnWire, Wire
      <3>3. CASE Responding
        <4>1. Chain(commands[Top], state, toClient)'
          BY <2>1, <2>5, <3>3 DEF Responding, Chain
        <4>2. Responding'
          BY <1>8, <2>1, <2>5, <3>3, <4>1 DEF Responding
        <4>. QED  BY <3>0, <4>2 DEF OnWire, Wire
      <3>4. CASE Quiet
        BY <2>1, <3>0, <3>4 DEF OnWire, Wire, Quiet
      <3>. QED  BY <3>0, <3>1, <3>2, <3>3, <3>4 DEF OnWire, Wire
    <2>. QED  BY <1>9, <2>2, <2>3, <2>4, <2>6 DEF IInv
  <1>13. CASE NeedStart /\ ~Throws(new)
    <2>1. connected /\ queued_cmds = <<>> /\ DispatchPacket(all, <<>>, q, pscache, failed, events)
      BY <1>4, <1>13 DEF NeedStart
    <2>2. finished \o <<>> = finished /\ Len(<<>>) = 0 /\ <<>> \in Seq(Dom)
      BY <1>7, ConcatEmptySeq, EmptySeq
    <2>3. Consecutive(0, finished \o <<>>) /\ Consecutive(Len(finished) + Len(<<>>), q)
      BY <1>2, <1>8, <2>2 DEF IInv, InOrder
    <2>4. /\ DispatchTyped(all, events)
          /\ DispatchMoves(<<>>, q)
          /\ StartsNext(all, pscache, failed)
          /\ ~AtOnce(all[q[1]], q[1], pscache, failed) => queued_cmds' = q /\ finished' = finished
      BY <1>1, <1>3, <1>7, <1>8, <2>1, <2>2, <2>3, Dispatched
    <2>5. TypeOK'
      <3>1. /\ commands' \in Seq(Command) /\ Len(commands') <= MaxCommands
            /\ connected' \in BOOLEAN /\ failed' \subseteq 1 .. Len(commands')
            /\ server' \in {"handshake", "ready", "gone"}
        BY <1>3, <1>4, <1>7 DEF IInv, TypeOK
      <3>. QED  BY <1>4, <1>10, <1>11, <2>4, <3>1 DEF TypeOK, DispatchTyped
    <2>6. InOrder'
      <3>1. /\ Consecutive(0, finished') /\ Consecutive(Len(finished'), queued_cmds')
            /\ Len(finished') + Len(queued_cmds') = Len(finished) + Len(<<>>) + Len(q)
        BY <2>4 DEF DispatchMoves
      <3>2. Len(finished) + Len(queued_cmds) = C
        BY DEF IInv, InOrder
      <3>3. Len(q) = Len(queued_cmds) + Len(new) /\ Len(all) = C + Len(new) /\ Len(<<>>) = 0
        BY <1>3, <1>8, <2>2
      <3>4. Len(finished') + Len(queued_cmds') = Len(commands')
        BY <1>2, <1>4, <3>1, <3>2, <3>3
      <3>. QED  BY <3>1, <3>4 DEF InOrder
    <2>7. Reported'
      <3>1. SUFFICES ASSUME NEW k \in 1 .. Len(finished')
                     PROVE  \E e \in {"end", "error"} : <<k, e>> \in events'
        BY <2>6 DEF InOrder, Consecutive, Reported
      <3>2. CASE k <= Len(finished)
        <4>1. k \in 1 .. Len(finished) /\ finished[k] = k
          BY <1>2, <3>2 DEF IInv, InOrder, Consecutive
        <4>2. \E e \in {"end", "error"} : <<k, e>> \in events
          BY <4>1 DEF IInv, Reported
        <4>. QED  BY <2>4, <4>2 DEF DispatchTyped
      <3>3. CASE ~(k <= Len(finished))
        <4>1. Len(finished') \in Nat /\ k \in Len(finished) + Len(<<>>) + 1 .. Len(finished')
          BY <1>2, <2>2, <2>5, <3>3, LenProperties DEF TypeOK
        <4>. QED  BY <2>4, <4>1 DEF DispatchMoves
      <3>. QED  BY <3>2, <3>3
    <2>8. HeadStarted' /\ HeadPrepares'
      <3>1. queued_cmds' \in Seq(Dom) /\ connected'
        BY <1>4, <2>1, <2>4 DEF DispatchTyped
      <3>. QED  BY <1>3, <1>4, <2>4, <3>1, HeadAfterDispatch
    <2>9. ASSUME ~cut'
          PROVE  OnWire'
      <3>0. OnWire /\ pscache' \subseteq prepared'
        BY <1>4, <2>9 DEF IInv, OnWire
      <3>1. queued_cmds' \in Seq(Dom)
        BY <2>4 DEF DispatchTyped
      <3>2. CASE Quiet
        <4>1. connected' /\ toServer = <<>> /\ toClient' = <<>>
          BY <1>4, <2>1, <3>2 DEF Quiet
        <4>2. StartsNext(all, pscache', failed')
          BY <1>4, <2>4
        <4>. QED  BY <1>3, <1>4, <3>0, <3>1, <4>1, <4>2, WireAfterDispatch DEF OnWire
      <3>3. CASE Greeting
        <4>1. C = 0 /\ Len(finished) = 0 /\ commands = <<>>
          BY <1>1, <1>2, <2>1, <3>3, EmptySeq, EmptyIsZero DEF IInv, InOrder, Greeting
        <4>2. q[1] = 1 /\ all[1] = new[1] /\ new[1].kind = "auth"
          BY <1>2, <1>3, <1>8, <4>1 DEF NewCommands, Consecutive
        <4>3. ~AtOnce(all[q[1]], q[1], pscache, failed)
          BY <4>2 DEF AtOnce
        <4>4. queued_cmds' = q /\ finished' = <<>>
          BY <2>4, <3>3, <4>3 DEF Greeting
        <4>5. state' = "read_status" /\ toServer' = toServer
          BY <1>8, <2>4, <4>2, <4>4, StartedIs DEF StartsNext
        <4>. QED  BY <1>4, <1>8, <2>1, <3>0, <3>3, <4>4, <4>5 DEF OnWire, Wire, Greeting
      <3>. QED  BY <2>1, <3>0, <3>2, <3>3 DEF OnWire, Wire, Requested, Responding
    <2>. QED  BY <1>9, <2>5, <2>6, <2>7, <2>8, <2>9 DEF IInv
  <1>. QED  BY <1>12, <1>13

-----------------------------------------------------------------------------
(* The handlers, packet by packet                                          *)

\* Handle, one state at a time.
LEMMA HandleIs ==
  ASSUME NEW c, NEW p, NEW ps
  PROVE  /\ Handle(c, "read_status", p, ps) = "check_auth_ok"
         /\ Handle(c, "check_auth_ok", p, ps) = "done"
         /\ Handle(c, "rs_ok", p, ps) = IF p \in {"ok", "okmore", "psok"} THEN "done" ELSE "handle_fields"
         /\ Handle(c, "handle_fields", p, ps) = IF IsEOF(p) THEN "data" ELSE "handle_fields"
         /\ Handle(c, "data", p, ps) =
              IF p = "more" THEN "rs_ok" ELSE IF p = "eof" THEN "done" ELSE "data"
         /\ Handle(c, "ps_ok", p, ps) = IF ps.params THEN "params" ELSE AfterParams(ps)
         /\ Handle(c, "params", p, ps) = IF IsEOF(p) THEN AfterParams(ps) ELSE "params"
         /\ Handle(c, "fields", p, ps) =
              IF ~IsEOF(p) THEN "fields" ELSE IF c.kind = "prepare" THEN "done" ELSE "binrow"
         /\ Handle(c, "execute_ok", p, ps) = IF ps.fields THEN "fields" ELSE "done"
         /\ Handle(c, "binrow", p, ps) =
              IF p = "more" THEN "execute_ok" ELSE IF p = "eof" THEN "done" ELSE "binrow"
  <1>1. Handle(c, "read_status", p, ps) = "check_auth_ok"
    BY Zenon DEF Handle
  <1>2. Handle(c, "check_auth_ok", p, ps) = "done"
    BY Zenon DEF Handle
  <1>3. Handle(c, "rs_ok", p, ps) = IF p \in {"ok", "okmore", "psok"} THEN "done" ELSE "handle_fields"
    BY Zenon DEF Handle
  <1>4. Handle(c, "handle_fields", p, ps) = IF IsEOF(p) THEN "data" ELSE "handle_fields"
    BY Zenon DEF Handle
  <1>5. Handle(c, "data", p, ps) =
          IF p = "more" THEN "rs_ok" ELSE IF p = "eof" THEN "done" ELSE "data"
    BY Zenon DEF Handle
  <1>6. Handle(c, "ps_ok", p, ps) = IF ps.params THEN "params" ELSE AfterParams(ps)
    BY Zenon DEF Handle
  <1>7. Handle(c, "params", p, ps) = IF IsEOF(p) THEN AfterParams(ps) ELSE "params"
    BY Zenon DEF Handle
  <1>8. Handle(c, "fields", p, ps) =
          IF ~IsEOF(p) THEN "fields" ELSE IF c.kind = "prepare" THEN "done" ELSE "binrow"
    BY Zenon DEF Handle
  <1>9. Handle(c, "execute_ok", p, ps) = IF ps.fields THEN "fields" ELSE "done"
    BY Zenon DEF Handle, HandleExecute
  <1>10. Handle(c, "binrow", p, ps) =
           IF p = "more" THEN "execute_ok" ELSE IF p = "eof" THEN "done" ELSE "binrow"
    BY Zenon DEF Handle, HandleExecute
  <1>. QED  BY <1>1, <1>2, <1>3, <1>4, <1>5, <1>6, <1>7, <1>8, <1>9, <1>10

\* No handler goes back to the states in which a request is prepared.
LEMMA HandleRange ==
  ASSUME NEW c, NEW p, NEW ps, NEW s \in States \ {"start"}
  PROVE  Handle(c, s, p, ps) \in (States \ {"start", "read_status", "ps_ok"}) \cup {"done"}
  BY HandleIs DEF States, AfterParams

\* What a command's own response says of its statement.
LEMMA KnownIs ==
  ASSUME NEW c
  PROVE  /\ Known(c).params <=> c.sql \in WithParams
         /\ Known(c).fields <=> c.sql \in WithFields
  BY DEF Known

\* The packets of kinds r take command c from state s to state t, and c is not
\* done before the last of them.
Takes(c, s, r, t) ==
  \E st \in [1 .. Len(r) + 1 -> Places] :
    /\ st[1] = s
    /\ st[Len(r) + 1] = t
    /\ \A k \in 1 .. Len(r) : st[k] # "done" /\ st[k + 1] = AfterPacket(c, st[k], r[k])

LEMMA TakesOne ==
  ASSUME NEW c, NEW s \in Places \ {"done"}, NEW p, NEW t \in Places,
         t = AfterPacket(c, s, p)
  PROVE  Takes(c, s, <<p>>, t)
  <1>. DEFINE st == [k \in 1 .. 2 |-> IF k = 1 THEN s ELSE t]
  <1>1. Len(<<p>>) = 1 /\ <<p>>[1] = p
    OBVIOUS
  <1>2. st \in [1 .. 2 -> Places] /\ st[1] = s /\ st[2] = t
    OBVIOUS
  <1>. HIDE DEF st
  <1>. QED  BY <1>1, <1>2 DEF Takes

\* What is left of a response after the cut.
LEMMA CutTakes ==
  ASSUME NEW S, NEW r \in Seq(S), NEW c
  PROVE  Takes(c, "cut", r, "cut")
  <1>. DEFINE st == [k \in 1 .. Len(r) + 1 |-> "cut"]
  <1>1. Len(r) \in Nat
    BY LenProperties
  <1>2. /\ st \in [1 .. Len(r) + 1 -> Places]
        /\ \A k \in 1 .. Len(r) + 1 : st[k] = "cut"
    BY DEF Places
  <1>3. \A k \in 1 .. Len(r) : k \in 1 .. Len(r) + 1 /\ k + 1 \in 1 .. Len(r) + 1
    BY <1>1
  <1>4. 1 \in 1 .. Len(r) + 1 /\ Len(r) + 1 \in 1 .. Len(r) + 1
    BY <1>1
  <1>5. \A p : AfterPacket(c, "cut", p) = "cut"
    BY DEF AfterPacket
  <1>. HIDE DEF st
  <1>. QED  BY <1>2, <1>3, <1>4, <1>5 DEF Takes

LEMMA TakesNone ==
  ASSUME NEW c, NEW s \in Places
  PROVE  Takes(c, s, <<>>, s)
  <1>. DEFINE st == [k \in 1 .. 1 |-> s]
  <1>1. st \in [1 .. 1 -> Places] /\ st[1] = s /\ Len(<<>>) = 0
    OBVIOUS
  <1>. HIDE DEF st
  <1>. QED  BY <1>1 DEF Takes

\* One stretch of packets after another.
LEMMA TakesConcat ==
  ASSUME NEW S, NEW r1 \in Seq(S), NEW r2 \in Seq(S), NEW c, NEW s, NEW t, NEW u,
         Takes(c, s, r1, t), Takes(c, t, r2, u)
  PROVE  Takes(c, s, r1 \o r2, u)
  <1>1. PICK a \in [1 .. Len(r1) + 1 -> Places] :
          /\ a[1] = s
          /\ a[Len(r1) + 1] = t
          /\ \A k \in 1 .. Len(r1) : a[k] # "done" /\ a[k + 1] = AfterPacket(c, a[k], r1[k])
    BY DEF Takes
  <1>2. PICK b \in [1 .. Len(r2) + 1 -> Places] :
          /\ b[1] = t
          /\ b[Len(r2) + 1] = u
          /\ \A k \in 1 .. Len(r2) : b[k] # "done" /\ b[k + 1] = AfterPacket(c, b[k], r2[k])
    BY DEF Takes
  <1>. DEFINE m  == Len(r1)
              n  == Len(r2)
              r  == r1 \o r2
              st == [k \in 1 .. m + n + 1 |-> IF k <= m THEN a[k] ELSE b[k - m]]
  <1>3. m \in Nat /\ n \in Nat
    BY LenProperties
  <1>4. Len(r) = m + n /\ \A k \in 1 .. m + n : r[k] = IF k <= m THEN r1[k] ELSE r2[k - m]
    BY ConcatProperties
  <1>. HIDE DEF r
  <1>5. ASSUME NEW k \in 1 .. m + n + 1
        PROVE  st[k] \in Places
    <2>1. CASE k <= m
      <3>1. k \in 1 .. m + 1 /\ st[k] = a[k]
        BY <1>3, <2>1
      <3>. QED  BY <1>1, <3>1
    <2>2. CASE ~(k <= m)
      <3>1. k - m \in 1 .. n + 1 /\ st[k] = b[k - m]
        BY <1>3, <2>2
      <3>. QED  BY <1>2, <3>1
    <2>. QED  BY <2>1, <2>2
  <1>6. st \in [1 .. Len(r) + 1 -> Places]
    BY <1>4, <1>5
  <1>7. st[1] = s
    BY <1>1, <1>2, <1>3
  <1>8. st[Len(r) + 1] = u
    <2>1. /\ m + n + 1 \in 1 .. m + n + 1
          /\ ~(m + n + 1 <= m)
          /\ (m + n + 1) - m = n + 1
      BY <1>3
    <2>. QED  BY <1>2, <1>4, <2>1
  <1>9. ASSUME NEW k \in 1 .. Len(r)
        PROVE  st[k] # "done" /\ st[k + 1] = AfterPacket(c, st[k], r[k])
    <2>0. k \in 1 .. m + n /\ k \in 1 .. m + n + 1 /\ k + 1 \in 1 .. m + n + 1
      BY <1>3, <1>4
    <2>1. CASE k <= m
      <3>1. k \in 1 .. m /\ st[k] = a[k] /\ r[k] = r1[k]
        BY <1>3, <1>4, <2>0, <2>1
      <3>2. st[k + 1] = a[k + 1]
        <4>1. CASE k + 1 <= m
          BY <2>0, <4>1
        <4>2. CASE ~(k + 1 <= m)
          <5>1. k = m /\ (k + 1) - m = 1
            BY <1>3, <2>1, <4>2
          <5>2. st[k + 1] = b[1]
            BY <2>0, <4>2, <5>1
          <5>. QED  BY <1>1, <1>2, <5>1, <5>2
        <4>. QED  BY <4>1, <4>2
      <3>. QED  BY <1>1, <3>1, <3>2
    <2>2. CASE ~(k <= m)
      <3>1. /\ k - m \in 1 .. n /\ (k + 1) - m = (k - m) + 1
            /\ ~(k + 1 <= m)
        BY <1>3, <2>0, <2>2
      <3>2. st[k] = b[k - m] /\ st[k + 1] = b[(k - m) + 1] /\ r[k] = r2[k - m]
        BY <1>4, <2>0, <2>2, <3>1
      <3>. QED  BY <1>2, <3>1, <3>2
    <2>. QED  BY <2>1, <2>2
  <1>. HIDE DEF st
  <1>. QED  BY <1>6, <1>7, <1>8, <1>9 DEF Takes, r

LEMMA TakesTwo ==
  ASSUME NEW c, NEW p1, NEW p2, NEW s0 \in Places \ {"done"},
         NEW s1 \in Places \ {"done"}, NEW s2 \in Places,
         s1 = AfterPacket(c, s0, p1), s2 = AfterPacket(c, s1, p2)
  PROVE  Takes(c, s0, <<p1, p2>>, s2)
  <1>. DEFINE r  == <<p1, p2>>
              st == <<s0, s1, s2>>
  <1>1. Len(r) = 2 /\ r[1] = p1 /\ r[2] = p2
    OBVIOUS
  <1>2. st \in [1 .. 3 -> Places] /\ st[1] = s0 /\ st[2] = s1 /\ st[3] = s2
    OBVIOUS
  <1>. HIDE DEF r, st
  <1>4. ASSUME NEW k \in 1 .. 2
        PROVE  st[k] # "done" /\ st[k + 1] = AfterPacket(c, st[k], r[k])
    <2>1. k = 1 \/ k = 2
      OBVIOUS
    <2>. QED  BY <1>1, <1>2, <2>1
  <1>5. Takes(c, s0, r, s2)
    BY <1>1, <1>2, <1>4 DEF Takes
  <1>. QED  BY <1>5 DEF r

LEMMA TakesFive ==
  ASSUME NEW c, NEW p1, NEW p2, NEW p3, NEW p4, NEW p5,
         NEW s0 \in Places \ {"done"}, NEW s1 \in Places \ {"done"},
         NEW s2 \in Places \ {"done"}, NEW s3 \in Places \ {"done"},
         NEW s4 \in Places \ {"done"}, NEW s5 \in Places,
         s1 = AfterPacket(c, s0, p1), s2 = AfterPacket(c, s1, p2),
         s3 = AfterPacket(c, s2, p3), s4 = AfterPacket(c, s3, p4),
         s5 = AfterPacket(c, s4, p5)
  PROVE  Takes(c, s0, <<p1, p2, p3, p4, p5>>, s5)
  <1>. DEFINE r  == <<p1, p2, p3, p4, p5>>
              st == <<s0, s1, s2, s3, s4, s5>>
  <1>1. Len(r) = 5 /\ r[1] = p1 /\ r[2] = p2 /\ r[3] = p3 /\ r[4] = p4 /\ r[5] = p5
    OBVIOUS
  <1>2. /\ st \in [1 .. 6 -> Places]
        /\ st[1] = s0 /\ st[2] = s1 /\ st[3] = s2 /\ st[4] = s3 /\ st[5] = s4 /\ st[6] = s5
    OBVIOUS
  <1>. HIDE DEF r, st
  <1>4. ASSUME NEW k \in 1 .. 5
        PROVE  st[k] # "done" /\ st[k + 1] = AfterPacket(c, st[k], r[k])
    <2>1. k = 1 \/ k = 2 \/ k = 3 \/ k = 4 \/ k = 5
      OBVIOUS
    <2>2. CASE k = 1
      BY <1>1, <1>2, <2>2
    <2>3. CASE k = 2
      BY <1>1, <1>2, <2>3
    <2>4. CASE k = 3
      BY <1>1, <1>2, <2>4
    <2>5. CASE k = 4
      BY <1>1, <1>2, <2>5
    <2>6. CASE k = 5
      BY <1>1, <1>2, <2>6
    <2>. QED  BY <2>1, <2>2, <2>3, <2>4, <2>5, <2>6
  <1>5. Takes(c, s0, r, s5)
    BY <1>1, <1>2, <1>4 DEF Takes
  <1>. QED  BY <1>5 DEF r

-----------------------------------------------------------------------------
(* The responses                                                           *)

\* The packets of a response.
Answers == Packets \ {"greeting"}

\* A result set takes query and execute alike through its packets.
LEMMA ResultSetTakes ==
  ASSUME NEW c, NEW s, NEW last \in {"eof", "more", "err"}, NEW t,
         \/ s = "rs_ok"
         \/ s = "execute_ok" /\ c.sql \in WithFields /\ c.kind # "prepare",
         t = IF last = "more" THEN s ELSE "done"
  PROVE  Takes(c, s, ResultSet(last), t) /\ ResultSet(last) \in Seq(Answers)
  <1>1. ResultSet(last) = <<"header", "field", "eof", "row", last>>
    BY DEF ResultSet
  <1>2. ResultSet(last) \in Seq(Answers)
    BY <1>1 DEF Answers, Packets
  <1>3. CASE s = "rs_ok"
    <2>1. /\ AfterPacket(c, "rs_ok", "header") = "handle_fields"
          /\ AfterPacket(c, "handle_fields", "field") = "handle_fields"
          /\ AfterPacket(c, "handle_fields", "eof") = "data"
          /\ AfterPacket(c, "data", "row") = "data"
          /\ AfterPacket(c, "data", last) = t
      BY <1>3, HandleIs, KnownIs DEF AfterPacket, IsEOF
    <2>2. /\ {"rs_ok", "handle_fields", "data"} \subseteq Places \ {"done"}
          /\ t \in Places
      BY <1>3 DEF Places, States
    <2>3. Takes(c, "rs_ok", <<"header", "field", "eof", "row", last>>, t)
      BY <2>1, <2>2, TakesFive
    <2>. QED  BY <1>1, <1>2, <1>3, <2>3, Zenon
  <1>4. CASE s = "execute_ok" /\ c.sql \in WithFields /\ c.kind # "prepare"
    <2>1. /\ AfterPacket(c, "execute_ok", "header") = "fields"
          /\ AfterPacket(c, "fields", "field") = "fields"
          /\ AfterPacket(c, "fields", "eof") = "binrow"
          /\ AfterPacket(c, "binrow", "row") = "binrow"
          /\ AfterPacket(c, "binrow", last) = t
      BY <1>4, HandleIs, KnownIs DEF AfterPacket, IsEOF
    <2>2. /\ {"execute_ok", "fields", "binrow"} \subseteq Places \ {"done"}
          /\ t \in Places
      BY <1>4 DEF Places, States
    <2>3. Takes(c, "execute_ok", <<"header", "field", "eof", "row", last>>, t)
      BY <2>1, <2>2, TakesFive
    <2>. QED  BY <1>1, <1>2, <1>4, <2>3, Zenon
  <1>. QED  BY <1>3, <1>4

\* Every response takes the command it answers from the state in which it
\* waits to its end, and not before its last packet, unless it is cut.
LEMMA ResponseTakes ==
  ASSUME NEW c \in Command, NEW r \in Responses(c)
  PROVE  /\ \E t \in {"done", "cut"} : Takes(c, Asked(c), r, t)
         /\ r \in Seq(Answers) /\ r # <<>>
  <1>1. <<"err">> \in Seq(Answers) /\ <<"ok">> \in Seq(Answers) /\ <<"psok">> \in Seq(Answers)
        /\ <<"field", "eof">> \in Seq(Answers) /\ <<>> \in Seq(Answers)
    BY DEF Answers, Packets
  <1>2. Asked(c) \in Places \ {"done"} /\ AfterPacket(c, Asked(c), "err") = "done"
    BY StartedIs DEF Asked, Places, States, AfterPacket
  <1>3. CASE r = <<"err">>
    BY <1>1, <1>2, <1>3, TakesOne DEF Places
  <1>4. CASE c.kind = "auth" /\ r # <<"err">>
    <2>1. r = <<"ok">>
      <3>1. Responses(c) = {<<"ok">>, <<"err">>}
        BY <1>4, Zenon DEF Responses
      <3>. QED  BY <1>4, <3>1
    <2>2. AfterPacket(c, Asked(c), "ok") = "done"
      BY <1>4, HandleIs DEF Asked, AfterPacket
    <2>3. Takes(c, Asked(c), <<"ok">>, "done")
      BY <1>2, <2>2, TakesOne DEF Places
    <2>4. <<"ok">> # <<>>
      OBVIOUS
    <2>. QED  BY <1>1, <2>1, <2>3, <2>4, Zenon
  <1>5. CASE c.kind = "query" /\ r # <<"err">>
    <2>1. Asked(c) = "rs_ok"
      BY <1>5, StartedIs DEF Asked
    <2>2. \/ r \in Results
          \/ \E first \in {<<"okmore">>, ResultSet("more")}, last \in Results : r = first \o last
      <3>1. Responses(c) = QueryResults
        BY <1>5, Zenon DEF Responses
      <3>. QED  BY <3>1 DEF QueryResults
    <2>3. \A l \in Results : Takes(c, "rs_ok", l, "done") /\ l \in Seq(Answers) /\ l # <<>>
      <3>1. AfterPacket(c, "rs_ok", "ok") = "done" /\ AfterPacket(c, "rs_ok", "err") = "done"
        BY HandleIs, KnownIs DEF AfterPacket
      <3>2. Takes(c, "rs_ok", <<"ok">>, "done") /\ Takes(c, "rs_ok", <<"err">>, "done")
        BY <3>1, TakesOne DEF Places, States
      <3>3. /\ Takes(c, "rs_ok", ResultSet("eof"), "done") /\ ResultSet("eof") \in Seq(Answers)
            /\ Takes(c, "rs_ok", ResultSet("err"), "done") /\ ResultSet("err") \in Seq(Answers)
        BY ResultSetTakes
      <3>4. <<"ok">> # <<>> /\ <<"err">> # <<>> /\ \A l : ResultSet(l) # <<>>
        BY DEF ResultSet
      <3>. QED  BY <1>1, <3>2, <3>3, <3>4, Zenon DEF Results
    <2>4. CASE r \in Results
      BY <2>1, <2>3, <2>4, Zenon
    <2>5. ASSUME NEW last \in Results, r = ResultSet("more") \o last
          PROVE  Takes(c, "rs_ok", r, "done") /\ r \in Seq(Answers) /\ r # <<>>
      <3>1. Takes(c, "rs_ok", ResultSet("more"), "rs_ok") /\ ResultSet("more") \in Seq(Answers)
        BY ResultSetTakes
      <3>. QED  BY <2>3, <2>5, <3>1, TakesConcat, ConcatProperties, ConcatEqualIffEmpty
    <2>6. ASSUME NEW last \in Results, r = <<"okmore">> \o last
          PROVE  Takes(c, "rs_ok", r, "cut") /\ r \in Seq(Answers) /\ r # <<>>
      <3>1. <<"okmore">> \in Seq(Answers)
        BY DEF Answers, Packets
      <3>2. Takes(c, "rs_ok", <<"okmore">>, "cut")
        BY TakesOne DEF AfterPacket, Places, States
      <3>3. Takes(c, "cut", last, "cut")
        BY <2>3, CutTakes
      <3>4. last \in Seq(Answers) /\ last # <<>>
        BY <2>3
      <3>5. Takes(c, "rs_ok", r, "cut")
        BY <2>6, <3>1, <3>2, <3>3, <3>4, TakesConcat, Zenon
      <3>6. r \in Seq(Answers) /\ r # <<>>
        BY <2>6, <3>1, <3>4, ConcatProperties, ConcatEqualIffEmpty
      <3>. QED  BY <3>5, <3>6
    <2>. QED  BY <2>1, <2>2, <2>4, <2>5, <2>6, Zenon
  <1>6. CASE c.kind = "prepare" /\ r # <<"err">>
    <2>. DEFINE params == IF c.sql \in WithParams THEN <<"field", "eof">> ELSE <<>>
                fields == IF c.sql \in WithFields THEN <<"field", "eof">> ELSE <<>>
    <2>1. Asked(c) = "ps_ok"
      BY <1>6, StartedIs DEF Asked
    <2>2. r = (<<"psok">> \o params) \o fields
      <3>1. Responses(c) = {<<"err">>, <<"psok">> \o params \o fields}
        BY <1>6, Zenon DEF Responses
      <3>. QED  BY <1>6, <3>1
    <2>3. params \in Seq(Answers) /\ fields \in Seq(Answers)
      BY <1>1
    <2>4. <<"psok">> \o params \in Seq(Answers) /\ r \in Seq(Answers) /\ r # <<>>
      BY <1>1, <2>2, <2>3, ConcatProperties, ConcatEqualIffEmpty
    <2>. DEFINE after1 == IF c.sql \in WithParams THEN "params" ELSE AfterParams(Known(c))
    <2>5. after1 \in Places /\ AfterParams(Known(c)) \in Places
      BY DEF AfterParams, Places, States
    <2>6. Takes(c, "ps_ok", <<"psok">>, after1)
      <3>1. AfterPacket(c, "ps_ok", "psok") = after1
        BY HandleIs, KnownIs DEF AfterPacket, Known
      <3>. QED  BY <2>5, <3>1, TakesOne DEF Places, States
    <2>7. Takes(c, after1, params, AfterParams(Known(c)))
      <3>1. CASE c.sql \in WithParams
        <4>1. /\ AfterPacket(c, "params", "field") = "params"
              /\ AfterPacket(c, "params", "eof") = AfterParams(Known(c))
          BY HandleIs, KnownIs DEF AfterPacket, IsEOF
        <4>. QED  BY <2>5, <3>1, <4>1, TakesTwo DEF Places, States
      <3>2. CASE c.sql \notin WithParams
        BY <2>5, <3>2, TakesNone
      <3>. QED  BY <3>1, <3>2
    <2>8. Takes(c, AfterParams(Known(c)), fields, "done")
      <3>1. CASE c.sql \in WithFields
        <4>1. /\ AfterPacket(c, "fields", "field") = "fields"
              /\ AfterPacket(c, "fields", "eof") = "done"
          BY <1>6, HandleIs, KnownIs DEF AfterPacket, IsEOF
        <4>. QED  BY <3>1, <4>1, KnownIs, TakesTwo DEF Places, States, AfterParams
      <3>2. CASE c.sql \notin WithFields
        BY <3>2, KnownIs, TakesNone DEF AfterParams, Places
      <3>. QED  BY <3>1, <3>2
    <2>. HIDE DEF params, fields, after1
    <2>9. Takes(c, "ps_ok", <<"psok">> \o params, AfterParams(Known(c)))
      BY <1>1, <2>3, <2>6, <2>7, TakesConcat
    <2>10. Takes(c, "ps_ok", r, "done")
      BY <2>2, <2>3, <2>4, <2>8, <2>9, TakesConcat
    <2>. QED  BY <2>1, <2>4, <2>10
  <1>7. CASE c.kind \notin {"auth", "query", "prepare"} /\ r # <<"err">>
    <2>1. Asked(c) = "execute_ok"
      BY <1>7, Zenon DEF Asked, Started
    <2>2. r \in IF c.sql \in WithFields
                THEN {ResultSet("eof"), ResultSet("err"), ResultSet("more") \o ResultSet("eof")}
                ELSE {<<"ok">>}
      <3>1. Responses(c) = {<<"err">>} \cup
               (IF c.sql \in WithFields
                THEN {ResultSet("eof"), ResultSet("err"), ResultSet("more") \o ResultSet("eof")}
                ELSE {<<"ok">>})
        BY <1>7, Zenon DEF Responses
      <3>. QED  BY <1>7, <3>1
    <2>3. CASE c.sql \notin WithFields
      <3>1. AfterPacket(c, "execute_ok", "ok") = "done"
        BY <2>3, HandleIs, KnownIs DEF AfterPacket, Known
      <3>2. Takes(c, "execute_ok", <<"ok">>, "done")
        BY <3>1, TakesOne DEF Places, States
      <3>3. r = <<"ok">> /\ <<"ok">> # <<>>
        BY <2>2, <2>3
      <3>. QED  BY <1>1, <2>1, <3>2, <3>3, Zenon
    <2>4. CASE c.sql \in WithFields
      <3>1. /\ Takes(c, "execute_ok", ResultSet("eof"), "done") /\ ResultSet("eof") \in Seq(Answers)
            /\ Takes(c, "execute_ok", ResultSet("err"), "done") /\ ResultSet("err") \in Seq(Answers)
            /\ Takes(c, "execute_ok", ResultSet("more"), "execute_ok")
            /\ ResultSet("more") \in Seq(Answers)
        BY <1>7, <2>4, ResultSetTakes
      <3>2. /\ Takes(c, "execute_ok", ResultSet("more") \o ResultSet("eof"), "done")
            /\ ResultSet("more") \o ResultSet("eof") \in Seq(Answers)
        BY <3>1, TakesConcat, ConcatProperties
      <3>3. ResultSet("more") \o ResultSet("eof") # <<>> /\ \A l : ResultSet(l) # <<>>
        BY <3>1, ConcatEqualIffEmpty DEF ResultSet
      <3>4. r \in {ResultSet("eof"), ResultSet("err"), ResultSet("more") \o ResultSet("eof")}
        BY <2>2, <2>4
      <3>. QED  BY <2>1, <3>1, <3>2, <3>3, <3>4, Zenon
    <2>. QED  BY <2>3, <2>4
  <1>. QED  BY <1>3, <1>4, <1>5, <1>6, <1>7

-----------------------------------------------------------------------------
(* What is on its way                                                      *)

\* A packet takes the command one state further along its chain; one that
\* completes the command is the last.
LEMMA ChainStep ==
  ASSUME NEW S, NEW packets \in Seq(S), packets # <<>>, NEW c, NEW s,
         Chain(c, s, packets),
         NEW t, t = AfterPacket(c, s, packets[1].kind)
  PROVE  /\ s # "done"
         /\ t = "done" => Tail(packets) = <<>>
         /\ Chain(c, t, Tail(packets))
  <1>. DEFINE n    == Len(packets)
              rest == Tail(packets)
  <1>1. PICK st \in [1 .. n + 1 -> Places] :
          /\ st[1] = s
          /\ \A k \in 1 .. n : st[k] # "done" /\ st[k + 1] = AfterPacket(c, st[k], packets[k].kind)
    BY DEF Chain
  <1>2. n \in Nat /\ n >= 1
    BY HeadIsFirst
  <1>3. /\ rest \in Seq(S)
        /\ Len(rest) = n - 1
        /\ \A k \in 1 .. n - 1 : rest[k] = packets[k + 1]
    BY HeadTailProperties
  <1>. HIDE DEF rest
  <1>4. s # "done" /\ st[2] = t
    <2>1. 1 \in 1 .. n
      BY <1>2
    <2>. QED  BY <1>1, <2>1
  <1>5. t = "done" => rest = <<>>
    <2>1. SUFFICES ASSUME n >= 2
                   PROVE  st[2] # "done"
      BY <1>2, <1>3, <1>4, EmptyIsZero
    <2>2. 2 \in 1 .. n
      BY <1>2, <2>1
    <2>. QED  BY <1>1, <2>2
  <1>6. Chain(c, t, rest)
    <2>. DEFINE su == [k \in 1 .. n |-> st[k + 1]]
    <2>1. su \in [1 .. Len(rest) + 1 -> Places]
      BY <1>1, <1>2, <1>3
    <2>2. su[1] = t
      BY <1>2, <1>4
    <2>3. ASSUME NEW k \in 1 .. Len(rest)
          PROVE  su[k] # "done" /\ su[k + 1] = AfterPacket(c, su[k], rest[k].kind)
      <3>1. /\ k \in 1 .. n - 1 /\ k \in 1 .. n /\ k + 1 \in 1 .. n
            /\ rest[k] = packets[k + 1]
        BY <1>2, <1>3
      <3>2. su[k] = st[k + 1] /\ su[k + 1] = st[(k + 1) + 1]
        BY <3>1
      <3>. QED  BY <1>1, <3>1, <3>2
    <2>. HIDE DEF su
    <2>. QED  BY <2>1, <2>2, <2>3 DEF Chain
  <1>. QED  BY <1>4, <1>5, <1>6 DEF rest

\* A chain that is cut short is a chain.
LEMMA ChainPrefix ==
  ASSUME NEW S, NEW packets \in Seq(S), NEW c, NEW s, Chain(c, s, packets),
         NEW n \in 0 .. Len(packets)
  PROVE  Chain(c, s, SubSeq(packets, 1, n))
  <1>. DEFINE pre == SubSeq(packets, 1, n)
  <1>1. PICK st \in [1 .. Len(packets) + 1 -> Places] :
          /\ st[1] = s
          /\ \A k \in 1 .. Len(packets) :
               st[k] # "done" /\ st[k + 1] = AfterPacket(c, st[k], packets[k].kind)
    BY DEF Chain
  <1>2. Len(packets) \in Nat /\ n \in Nat /\ n <= Len(packets)
    BY LenProperties
  <1>3. Len(pre) = n /\ \A k \in 1 .. n : pre[k] = packets[k]
    BY TakeSeq
  <1>. HIDE DEF pre
  <1>. DEFINE su == [k \in 1 .. n + 1 |-> st[k]]
  <1>4. su \in [1 .. Len(pre) + 1 -> Places] /\ su[1] = s
    <2>1. ASSUME NEW k \in 1 .. n + 1
          PROVE  st[k] \in Places
      <3>1. k \in 1 .. Len(packets) + 1
        BY <1>2
      <3>. QED  BY <1>1, <3>1
    <2>2. 1 \in 1 .. n + 1 /\ Len(pre) + 1 = n + 1
      BY <1>2, <1>3
    <2>. QED  BY <1>1, <2>1, <2>2
  <1>5. ASSUME NEW k \in 1 .. Len(pre)
        PROVE  su[k] # "done" /\ su[k + 1] = AfterPacket(c, su[k], pre[k].kind)
    <2>1. k \in 1 .. Len(packets) /\ k \in 1 .. n + 1 /\ k + 1 \in 1 .. n + 1
      BY <1>2, <1>3
    <2>2. pre[k] = packets[k]
      BY <1>3
    <2>. QED  BY <1>1, <2>1, <2>2
  <1>. HIDE DEF su
  <1>6. Chain(c, s, pre)
    BY <1>4, <1>5 DEF Chain
  <1>. QED  BY <1>6 DEF pre

\* Packets of the kinds r, whoever owns them, form the chain that r describes.
LEMMA TakesChain ==
  ASSUME NEW r, NEW packets, Len(packets) = Len(r),
         \A k \in 1 .. Len(r) : packets[k].kind = r[k],
         NEW c, NEW s, NEW t, Takes(c, s, r, t)
  PROVE  Chain(c, s, packets)
  BY DEF Takes, Chain

-----------------------------------------------------------------------------
(* The queue moves on while no command is created                          *)

\* The arguments with which dispatch_packet() is called on the queue: nothing
\* finished, or the command at the head did and has been reported.
QueueArguments(done, q, emitted) ==
  /\ emitted \subseteq (1 .. Len(commands)) \X {"end", "error"}
  /\ events \subseteq emitted
  /\ \/ done = <<>> /\ q = queued_cmds
     \/ /\ queued_cmds # <<>>
        /\ done = <<Top>>
        /\ q = Tail(queued_cmds)
        /\ \E e \in {"end", "error"} : <<Top, e>> \in emitted

LEMMA QueueStep ==
  ASSUME IInv, commands' = commands, NEW done, NEW q, NEW cache, NEW fail, NEW emitted,
         QueueArguments(done, q, emitted),
         DispatchPacket(commands, done, q, cache, fail, emitted)
  PROVE  /\ DispatchTyped(commands, emitted)
         /\ InOrder'
         /\ Reported'
         /\ StartsNext(commands, cache, fail)
         /\ done = <<>> /\ (q = <<>> \/ ~AtOnce(commands[q[1]], q[1], cache, fail)) =>
              queued_cmds' = q /\ finished' = finished
         /\ finished' # <<>> \/ done = <<>>
  <1>. DEFINE C   == Len(commands)
              Dom == 1 .. C
  <1>1. /\ commands \in Seq(Command) /\ queued_cmds \in Seq(Dom)
        /\ finished \in Seq(Dom) /\ toServer \in Seq(Dom) /\ ended \in BOOLEAN
        /\ C \in Nat /\ Len(queued_cmds) \in Nat /\ Len(finished) \in Nat
    BY LenProperties DEF IInv, TypeOK
  <1>2. /\ \A k \in 1 .. Len(finished) : finished[k] = k
        /\ \A k \in 1 .. Len(queued_cmds) : queued_cmds[k] = Len(finished) + k
        /\ Len(finished) + Len(queued_cmds) = C
    BY <1>1 DEF IInv, InOrder, Consecutive
  <1>3. /\ done \in Seq(Dom) /\ q \in Seq(Dom)
        /\ Consecutive(0, finished \o done)
        /\ Consecutive(Len(finished) + Len(done), q)
        /\ Len(finished) + Len(done) + Len(q) = C
        /\ Len(done) \in Nat /\ Len(q) \in Nat
        /\ \A k \in 1 .. Len(finished) + Len(done) :
             \E e \in {"end", "error"} : <<k, e>> \in emitted
    <2>1. CASE done = <<>> /\ q = queued_cmds
      <3>1. finished \o done = finished /\ Len(done) = 0 /\ done \in Seq(Dom)
        BY <1>1, <2>1, ConcatEmptySeq, EmptySeq
      <3>2. ASSUME NEW k \in 1 .. Len(finished)
            PROVE  \E e \in {"end", "error"} : <<k, e>> \in emitted
        <4>1. \E e \in {"end", "error"} : <<finished[k], e>> \in events
          BY DEF IInv, Reported
        <4>. QED  BY <1>2, <4>1 DEF QueueArguments
      <3>3. Len(finished) + Len(done) = Len(finished)
        BY <1>1, <3>1
      <3>4. Consecutive(0, finished) /\ Consecutive(Len(finished), queued_cmds)
        BY DEF IInv, InOrder
      <3>. QED  BY <1>1, <1>2, <2>1, <3>1, <3>2, <3>3, <3>4
    <2>2. CASE /\ queued_cmds # <<>>
               /\ done = <<Top>>
               /\ q = Tail(queued_cmds)
               /\ \E e \in {"end", "error"} : <<Top, e>> \in emitted
      <3>1. /\ 1 \in 1 .. Len(queued_cmds)
            /\ Top = Len(finished) + 1
            /\ Top \in Dom
        <4>1. 1 \in 1 .. Len(queued_cmds) /\ Top = queued_cmds[1]
          BY <1>1, <2>2, HeadIsFirst DEF Top
        <4>. QED  BY <1>1, <1>2, <4>1, ElementOfSeq
      <3>2. done \in Seq(Dom) /\ Len(done) = 1 /\ done[1] = Top
        BY <2>2, <3>1
      <3>3. /\ q \in Seq(Dom)
            /\ Len(q) = Len(queued_cmds) - 1
            /\ \A k \in 1 .. Len(q) : q[k] = queued_cmds[k + 1]
        BY <1>1, <2>2, HeadTailProperties
      <3>4. /\ Len(finished \o done) = Len(finished) + Len(done)
            /\ \A k \in 1 .. Len(finished) + Len(done) :
                 (finished \o done)[k] = IF k <= Len(finished) THEN finished[k]
                                         ELSE done[k - Len(finished)]
        BY <1>1, <3>2, ConcatProperties
      <3>5. ASSUME NEW k \in 1 .. Len(finished) + 1
            PROVE  (finished \o done)[k] = k
        <4>1. CASE k <= Len(finished)
          BY <1>1, <1>2, <3>2, <3>4, <4>1
        <4>2. CASE ~(k <= Len(finished))
          <5>1. k = Len(finished) + 1 /\ k - Len(finished) = 1
            BY <1>1, <4>2
          <5>2. (finished \o done)[k] = done[1]
            BY <3>2, <3>4, <4>2, <5>1
          <5>. QED  BY <3>1, <3>2, <5>1, <5>2
        <4>. QED  BY <4>1, <4>2
      <3>6. Consecutive(0, finished \o done)
        <4>1. Len(finished \o done) = Len(finished) + 1
          BY <3>2, <3>4
        <4>2. \A k \in 1 .. Len(finished \o done) : (finished \o done)[k] = 0 + k
          BY <1>1, <3>5, <4>1
        <4>. QED  BY <4>2 DEF Consecutive
      <3>7. Consecutive(Len(finished) + Len(done), q)
        <4>1. ASSUME NEW k \in 1 .. Len(q)
              PROVE  q[k] = Len(finished) + Len(done) + k
          <5>1. k + 1 \in 1 .. Len(queued_cmds)
            BY <1>1, <3>3
          <5>2. q[k] = Len(finished) + (k + 1)
            BY <1>2, <3>3, <5>1
          <5>. QED  BY <1>1, <3>2, <5>2
        <4>. QED  BY <4>1 DEF Consecutive
      <3>8. ASSUME NEW k \in 1 .. Len(finished) + 1
            PROVE  \E e \in {"end", "error"} : <<k, e>> \in emitted
        <4>1. CASE k <= Len(finished)
          <5>1. \E e \in {"end", "error"} : <<finished[k], e>> \in events
            BY <1>1, <4>1 DEF IInv, Reported
          <5>2. finished[k] = k
            BY <1>1, <1>2, <4>1
          <5>. QED  BY <5>1, <5>2 DEF QueueArguments
        <4>2. CASE ~(k <= Len(finished))
          <5>1. k = Top
            BY <1>1, <3>1, <4>2
          <5>. QED  BY <2>2, <5>1
        <4>. QED  BY <4>1, <4>2
      <3>9. /\ Len(q) \in Nat /\ Len(done) \in Nat
            /\ Len(finished) + Len(done) + Len(q) = C
        <4>1. Len(done) = 1 /\ Len(q) = Len(queued_cmds) - 1 /\ Len(queued_cmds) >= 1
          BY <1>1, <3>1, <3>2, <3>3
        <4>2. Len(finished) + Len(queued_cmds) = C
          BY <1>2
        <4>. QED  BY <1>1, <4>1, <4>2
      <3>. QED  BY <3>2, <3>3, <3>6, <3>7, <3>8, <3>9
    <2>. QED  BY <2>1, <2>2 DEF QueueArguments
  <1>4. emitted \in SUBSET (Dom \X {"end", "error"})
    BY DEF QueueArguments
  <1>. HIDE DEF Dom
  <1>5. /\ DispatchTyped(commands, emitted)
        /\ DispatchMoves(done, q)
        /\ StartsNext(commands, cache, fail)
        /\ (q = <<>> \/ ~AtOnce(commands[q[1]], q[1], cache, fail)) =>
             queued_cmds' = q /\ finished' = finished \o done
    BY <1>1, <1>3, <1>4, Dispatched DEF Dom
  <1>6. InOrder'
    BY <1>3, <1>5 DEF DispatchMoves, InOrder
  <1>7. finished' \in Seq(Dom) /\ Len(finished') \in Nat
    BY <1>5, LenProperties DEF DispatchTyped, Dom
  <1>8. Reported'
    <2>1. SUFFICES ASSUME NEW k \in 1 .. Len(finished')
                   PROVE  \E e \in {"end", "error"} : <<k, e>> \in events'
      BY <1>6 DEF InOrder, Consecutive, Reported
    <2>2. CASE k <= Len(finished) + Len(done)
      <3>1. k \in 1 .. Len(finished) + Len(done)
        BY <1>1, <1>3, <1>7, <2>2
      <3>2. emitted \subseteq events'
        BY <1>5 DEF DispatchTyped
      <3>. QED  BY <1>3, <3>1, <3>2
    <2>3. CASE ~(k <= Len(finished) + Len(done))
      <3>1. k \in Len(finished) + Len(done) + 1 .. Len(finished')
        BY <1>1, <1>3, <1>7, <2>3
      <3>. QED  BY <1>5, <3>1 DEF DispatchMoves
    <2>. QED  BY <2>2, <2>3
  <1>9. finished' # <<>> \/ done = <<>>
    <2>1. ASSUME done # <<>>
          PROVE  finished' # <<>>
      <3>1. Len(done) >= 1
        BY <1>3, <2>1, EmptyIsZero
      <3>2. Len(finished') >= Len(finished) + Len(done)
        BY <1>5 DEF DispatchMoves
      <3>3. Len(finished') # 0
        BY <1>1, <1>3, <1>7, <3>1, <3>2
      <3>. QED  BY <1>7, <3>3, EmptyIsZero
    <2>. QED  BY <2>1
  <1>10. done = <<>> => finished \o done = finished
    BY <1>1, ConcatEmptySeq
  <1>. QED  BY <1>5, <1>6, <1>8, <1>9, <1>10

-----------------------------------------------------------------------------
(* The steps                                                               *)

LEMMA FirstDataStep ==
  ASSUME IInv, FirstData
  PROVE  IInv'
  <1>1. /\ ~connected /\ toClient # <<>> /\ connected'
        /\ DispatchPacket(commands, <<>>, queued_cmds, pscache, failed, events)
        /\ UNCHANGED <<commands, pscache, failed, cut, server, prepared, toClient>>
    BY DEF FirstData
  <1>2. QueueArguments(<<>>, queued_cmds, events)
    BY DEF QueueArguments, IInv, TypeOK
  <1>3. /\ DispatchTyped(commands, events)
        /\ InOrder'
        /\ Reported'
        /\ StartsNext(commands, pscache, failed)
        /\ (queued_cmds = <<>> \/ ~AtOnce(commands[queued_cmds[1]], queued_cmds[1], pscache, failed)) =>
             queued_cmds' = queued_cmds /\ finished' = finished
    BY <1>1, <1>2, QueueStep
  <1>4. TypeOK'
    BY <1>1, <1>3 DEF IInv, TypeOK, DispatchTyped
  <1>5. CallsWellFormed'
    BY <1>1 DEF IInv, CallsWellFormed
  <1>6. HeadStarted' /\ HeadPrepares'
    <2>1. commands \in Seq(Command) /\ queued_cmds' \in Seq(1 .. Len(commands))
      BY <1>3 DEF IInv, TypeOK, DispatchTyped
    <2>. QED  BY <1>1, <1>3, <2>1, HeadAfterDispatch
  <1>7. ASSUME ~cut'
        PROVE  OnWire'
    <2>1. Greeting /\ pscache' \subseteq prepared'
      BY <1>1, <1>7 DEF IInv, OnWire, Wire, Requested, Responding, Quiet
    <2>2. ASSUME queued_cmds # <<>>
          PROVE  commands[queued_cmds[1]].kind = "auth"
      <3>1. 1 \in 1 .. Len(queued_cmds) /\ Len(finished) = 0
        BY <2>1, <2>2, HeadIsFirst, EmptySeq DEF IInv, TypeOK, Greeting
      <3>2. queued_cmds[1] = 1 /\ 1 \in 1 .. Len(commands)
        <4>1. queued_cmds[1] \in 1 .. Len(commands)
          BY <3>1, ElementOfSeq DEF IInv, TypeOK
        <4>2. queued_cmds[1] = 1
          BY <3>1 DEF IInv, InOrder, Consecutive
        <4>. QED  BY <4>1, <4>2
      <3>. QED  BY <3>2 DEF IInv, CallsWellFormed
    <2>3. queued_cmds' = queued_cmds /\ finished' = finished
      BY <1>3, <2>2 DEF AtOnce
    <2>4. toServer' = toServer /\ state' = IF queued_cmds = <<>> THEN "start" ELSE "read_status"
      BY <1>3, <2>2, <2>3, StartedIs DEF StartsNext
    <2>. QED  BY <1>1, <2>1, <2>3, <2>4 DEF Greeting, OnWire, Wire
  <1>. QED  BY <1>3, <1>4, <1>5, <1>6, <1>7 DEF IInv

\* What is known when a packet is handed to the command at the head.
LEMMA PacketFacts ==
  ASSUME IInv, Receive, queued_cmds # <<>>
  PROVE  /\ Top \in 1 .. Len(commands) /\ commands[Top] \in Command
         /\ Top = Len(finished) + 1
         /\ state \in States \ {"start"}
         /\ Packet = toClient[1].kind
         /\ toClient' \in Seq([owner : Ids \cup {1}, kind : Packets])
         /\ ~cut =>
              \/ /\ Greeting /\ state = "read_status" /\ Packet = "greeting"
                 /\ toClient' = <<>> /\ commands[Top].kind = "auth"
              \/ /\ Responding
                 /\ AfterPacket(commands[Top], state, Packet) = "done" => toClient' = <<>>
                 /\ Chain(commands[Top], AfterPacket(commands[Top], state, Packet), toClient')
  <1>1. connected /\ toClient # <<>> /\ toClient' = Tail(toClient) /\ ~Stalled
    BY DEF Receive
  <1>2. toClient \in Seq([owner : Ids \cup {1}, kind : Packets])
    BY DEF IInv, TypeOK
  <1>3. Packet = toClient[1].kind /\ toClient' \in Seq([owner : Ids \cup {1}, kind : Packets])
    BY <1>1, <1>2, HeadIsFirst, HeadTailProperties DEF Packet
  <1>4. 1 \in 1 .. Len(queued_cmds) /\ Top = queued_cmds[1]
    BY HeadIsFirst DEF IInv, TypeOK, Top
  <1>5. /\ Top \in 1 .. Len(commands) /\ commands[Top] \in Command
        /\ Top = Len(finished) + 1
    <2>1. Top \in 1 .. Len(commands)
      BY <1>4, ElementOfSeq DEF IInv, TypeOK
    <2>2. commands[Top] \in Command
      BY <2>1, ElementOfSeq DEF IInv, TypeOK
    <2>3. Top = Len(finished) + 1
      BY <1>4 DEF IInv, InOrder, Consecutive
    <2>. QED  BY <2>1, <2>2, <2>3
  <1>6. state \in States \ {"start"}
    BY <1>1 DEF IInv, TypeOK, HeadStarted
  <1>7. CASE Greeting
    <2>1. Packet = "greeting" /\ toClient' = <<>>
      BY <1>1, <1>7 DEF Greeting, Packet
    <2>2. Top = 1
      BY <1>5, <1>7, EmptySeq DEF Greeting
    <2>3. commands[Top].kind = "auth"
      BY <1>5, <2>2 DEF IInv, CallsWellFormed
    <2>4. state = "read_status"
      BY <1>1, <1>7 DEF Greeting
    <2>. QED  BY <1>3, <1>5, <1>6, <1>7, <2>1, <2>3, <2>4
  <1>8. CASE Responding
    <2>1. Chain(commands[Top], state, toClient)
      BY <1>8 DEF Responding
    <2>2. /\ AfterPacket(commands[Top], state, Packet) = "done" => toClient' = <<>>
          /\ Chain(commands[Top], AfterPacket(commands[Top], state, Packet), toClient')
      BY <1>1, <1>2, <1>3, <2>1, ChainStep
    <2>. QED  BY <1>3, <1>5, <1>6, <1>8, <2>2
  <1>9. ~cut => Greeting \/ Responding
    BY <1>1 DEF IInv, OnWire, Wire, Requested, Quiet
  <1>. QED  BY <1>3, <1>5, <1>6, <1>7, <1>8, <1>9

\* A handler leaves its command in a state of its own, or done with it.
LEMMA NextRange ==
  ASSUME state \in States \ {"start"}
  PROVE  NextStates \subseteq (States \ {"start", "read_status", "ps_ok"}) \cup {"done"}
  BY HandleRange DEF NextStates, Outcomes

\* Unless a response has been cut, what a handler does is known.
LEMMA NextKnown ==
  ASSUME ~cut
  PROVE  NextStates = {Handle(commands[Top], state, Packet, Known(commands[Top]))}
  BY DEF NextStates, Outcomes, Read, Known

\* A packet that completes the command at the head, with "end" or "error".
LEMMA CompletionStep ==
  ASSUME IInv, Receive, queued_cmds # <<>>,
         NEW emitted, QueueArguments(<<Top>>, Tail(queued_cmds), emitted),
         DispatchPacket(commands, <<Top>>, Tail(queued_cmds), pscache', failed', emitted),
         pscache' \subseteq Statements,
         failed' \subseteq 1 .. Len(commands),
         cut' \in BOOLEAN,
         ~cut' => /\ ~cut
                  /\ Responding
                  /\ AfterPacket(commands[Top], state, Packet) = "done"
                  /\ pscache' \subseteq prepared
  PROVE  IInv'
  <1>1. connected' = connected /\ connected /\ UNCHANGED <<commands, server, prepared>>
    BY DEF Receive
  <1>2. toClient' \in Seq([owner : Ids \cup {1}, kind : Packets])
    BY PacketFacts
  <1>3. /\ DispatchTyped(commands, emitted)
        /\ InOrder'
        /\ Reported'
        /\ StartsNext(commands, pscache', failed')
    BY <1>1, QueueStep
  <1>4. TypeOK'
    BY <1>1, <1>2, <1>3 DEF IInv, TypeOK, DispatchTyped
  <1>5. commands \in Seq(Command) /\ queued_cmds' \in Seq(1 .. Len(commands))
    BY <1>3 DEF IInv, TypeOK, DispatchTyped
  <1>6. HeadStarted' /\ HeadPrepares'
    BY <1>1, <1>3, <1>5, HeadAfterDispatch
  <1>7. ASSUME ~cut'
        PROVE  OnWire'
    <2>1. toServer = <<>> /\ pscache' \subseteq prepared'
      BY <1>1, <1>7 DEF Responding
    <2>2. toClient' = <<>>
      BY <1>7, PacketFacts
    <2>3. Wire'
      BY <1>1, <1>3, <1>5, <2>1, <2>2, WireAfterDispatch
    <2>. QED  BY <2>1, <2>3 DEF OnWire
  <1>8. CallsWellFormed'
    BY <1>1 DEF IInv, CallsWellFormed
  <1>. QED  BY <1>3, <1>4, <1>6, <1>7, <1>8 DEF IInv

LEMMA ErrorStep ==
  ASSUME IInv, ErrorPacket
  PROVE  IInv'
  <1>. DEFINE hit == IF commands[Top].auto THEN {Top + 1} ELSE {}
              emitted == events \cup ({Top} \cup hit) \X {"error"}
  <1>1. /\ Receive /\ queued_cmds # <<>> /\ Packet = "err"
        /\ failed' = failed \cup hit
        /\ DispatchPacket(commands, <<Top>>, Tail(queued_cmds), pscache, failed', emitted)
        /\ pscache' = pscache /\ cut' = cut
    BY DEF ErrorPacket
  <1>2. Top \in 1 .. Len(commands) /\ state \in States
    BY <1>1, PacketFacts
  <1>3. hit \subseteq 1 .. Len(commands)
    BY <1>2 DEF IInv, CallsWellFormed
  <1>4. QueueArguments(<<Top>>, Tail(queued_cmds), emitted)
    <2>1. emitted \subseteq (1 .. Len(commands)) \X {"end", "error"}
      BY <1>2, <1>3 DEF IInv, TypeOK
    <2>2. <<Top, "error">> \in emitted
      OBVIOUS
    <2>. QED  BY <1>1, <2>1, <2>2 DEF QueueArguments
  <1>5. /\ failed' \subseteq 1 .. Len(commands) /\ pscache' \subseteq Statements
        /\ cut' \in BOOLEAN
    BY <1>1, <1>3 DEF IInv, TypeOK
  <1>6. ASSUME ~cut'
        PROVE  /\ ~cut
               /\ Responding
               /\ AfterPacket(commands[Top], state, Packet) = "done"
               /\ pscache' \subseteq prepared
    <2>1. ~cut /\ pscache' \subseteq prepared
      BY <1>1, <1>6 DEF IInv, OnWire
    <2>2. Responding
      BY <1>1, <2>1, PacketFacts
    <2>3. AfterPacket(commands[Top], state, Packet) = "done"
      BY <1>1, <1>2 DEF AfterPacket, States
    <2>. QED  BY <2>1, <2>2, <2>3
  <1>7. DispatchPacket(commands, <<Top>>, Tail(queued_cmds), pscache', failed', emitted)
    BY <1>1
  <1>. HIDE DEF emitted, hit
  <1>. QED  BY <1>1, <1>4, <1>5, <1>6, <1>7, CompletionStep

\* The cache holds texts that were prepared, and, as long as no response has been
\* cut, only statements of the server.
LEMMA CacheStep ==
  ASSUME IInv, Receive, queued_cmds # <<>>, Packet # "err", pscache' = CacheAfter
  PROVE  pscache' \subseteq Statements /\ (~cut => pscache' \subseteq prepared)
  <1>1. CASE state = "ps_ok"
    <2>1. commands[Top].kind = "prepare" /\ commands[Top] \in Command
      BY <1>1, PacketFacts DEF IInv, HeadPrepares
    <2>2. commands[Top].sql \in Statements
      BY <2>1 DEF Command
    <2>3. ASSUME ~cut
          PROVE  commands[Top].sql \in prepared /\ pscache \subseteq prepared
      <3>1. Responding /\ Packet = toClient[1].kind
        BY <1>1, <2>3, PacketFacts
      <3>. QED  BY <1>1, <2>3, <3>1 DEF Responding, IInv, OnWire
    <2>. QED  BY <1>1, <2>2, <2>3 DEF CacheAfter, IInv, TypeOK
  <1>2. CASE state # "ps_ok"
    BY <1>2 DEF CacheAfter, IInv, TypeOK, OnWire
  <1>. QED  BY <1>1, <1>2

LEMMA LastStep ==
  ASSUME IInv, LastPacket
  PROVE  IInv'
  <1>. DEFINE c == commands[Top]
              emitted == events \cup {<<Top, "end">>}
  <1>1. /\ Receive /\ queued_cmds # <<>> /\ Packet # "err" /\ "done" \in NextStates
        /\ pscache' = CacheAfter /\ failed' = failed /\ cut' = (cut \/ Packet = "okmore")
        /\ DispatchPacket(commands, <<Top>>, Tail(queued_cmds), CacheAfter, failed, emitted)
    BY DEF LastPacket
  <1>2. Top \in 1 .. Len(commands) /\ state \in States
    BY <1>1, PacketFacts
  <1>3. QueueArguments(<<Top>>, Tail(queued_cmds), emitted)
    <2>1. emitted \subseteq (1 .. Len(commands)) \X {"end", "error"}
      BY <1>2 DEF IInv, TypeOK
    <2>. QED  BY <1>1, <2>1 DEF QueueArguments
  <1>4. /\ failed' \subseteq 1 .. Len(commands) /\ pscache' \subseteq Statements
        /\ cut' \in BOOLEAN
    BY <1>1, CacheStep DEF IInv, TypeOK
  <1>5. ASSUME ~cut'
        PROVE  /\ ~cut
               /\ Responding
               /\ AfterPacket(c, state, Packet) = "done"
               /\ pscache' \subseteq prepared
    <2>1. ~cut /\ Packet # "okmore" /\ pscache' \subseteq prepared
      BY <1>1, <1>5, CacheStep
    <2>2. Handle(c, state, Packet, Known(c)) = "done"
      BY <1>1, <2>1, NextKnown
    <2>3. state # "read_status"
      BY <2>2, HandleIs
    <2>4. Responding
      BY <1>1, <2>1, <2>3, PacketFacts
    <2>5. AfterPacket(c, state, Packet) = "done"
      BY <1>1, <1>2, <2>1, <2>2 DEF AfterPacket, States
    <2>. QED  BY <2>1, <2>4, <2>5
  <1>6. DispatchPacket(commands, <<Top>>, Tail(queued_cmds), pscache', failed', emitted)
    BY <1>1
  <1>. HIDE DEF emitted
  <1>. QED  BY <1>1, <1>3, <1>4, <1>5, <1>6, CompletionStep

LEMMA ProgressStep ==
  ASSUME IInv, ProgressPacket
  PROVE  IInv'
  <1>. DEFINE c == commands[Top]
  <1>1. /\ Receive /\ queued_cmds # <<>> /\ Packet # "err"
        /\ state' \in NextStates \ {"done"} /\ pscache' = CacheAfter
        /\ toServer' = IF state = "read_status" /\ ~ended THEN Append(toServer, Top) ELSE toServer
        /\ UNCHANGED <<queued_cmds, failed, ended, cut, finished, events>>
        /\ UNCHANGED <<commands, connected, server, prepared>> /\ connected
        /\ toClient' = Tail(toClient)
    BY DEF ProgressPacket, Receive
  <1>2. /\ Top \in 1 .. Len(commands) /\ state \in States \ {"start"}
        /\ toClient' \in Seq([owner : Ids \cup {1}, kind : Packets])
    BY <1>1, PacketFacts
  <1>3. Top' = Top /\ commands'[Top'] = c
    BY <1>1 DEF Top
  <1>4. state' \in States \ {"start", "read_status", "ps_ok"}
    BY <1>1, <1>2, NextRange
  <1>5. toServer' \in Seq(1 .. Len(commands))
    BY <1>1, <1>2, AppendProperties DEF IInv, TypeOK
  <1>6. pscache' \subseteq Statements /\ (~cut => pscache' \subseteq prepared)
    BY <1>1, CacheStep
  <1>7. TypeOK'
    BY <1>1, <1>2, <1>4, <1>5, <1>6 DEF IInv, TypeOK
  <1>8. InOrder' /\ CallsWellFormed' /\ Reported' /\ HeadStarted' /\ HeadPrepares'
    BY <1>1, <1>4 DEF IInv, InOrder, CallsWellFormed, Reported, HeadStarted, HeadPrepares, Stalled
  <1>9. ASSUME ~cut'
        PROVE  Wire'
    <2>0. ~cut /\ state' = Handle(c, state, Packet, Known(c))
      BY <1>1, <1>9, NextKnown
    <2>1. CASE Greeting /\ state = "read_status" /\ toClient' = <<>> /\ c.kind = "auth"
      <3>1. state' = "check_auth_ok"
        BY <2>0, <2>1, HandleIs
      <3>2. CASE ended
        BY <1>1, <2>1, <3>2 DEF Greeting, Wire, Quiet
      <3>3. CASE ~ended
        <4>1. toServer' = <<Top>>
          BY <1>1, <2>1, <3>3 DEF Greeting
        <4>2. Requested'
          BY <1>1, <1>3, <2>1, <3>1, <4>1 DEF Requested, Asked
        <4>. QED  BY <4>2 DEF Wire
      <3>. QED  BY <1>2, <3>2, <3>3 DEF IInv, TypeOK
    <2>2. CASE Responding /\ Chain(c, AfterPacket(c, state, Packet), toClient')
      <3>1. toServer' = <<>>
        BY <1>1, <2>2 DEF Responding
      <3>2. CASE toClient' = <<>>
        BY <3>1, <3>2 DEF Wire, Quiet
      <3>3. CASE toClient' # <<>>
        <4>1. AfterPacket(c, state, Packet) = state'
          <5>1. ~(state = "rs_ok" /\ Packet = "okmore")
            BY <1>1, <2>0, HandleIs
          <5>. QED  BY <1>1, <1>2, <2>0, <5>1 DEF AfterPacket, States
        <4>2. \A k \in 1 .. Len(toClient') : toClient'[k].owner = Top /\ toClient'[k].kind # "greeting"
          <5>1. /\ Len(toClient') = Len(toClient) - 1 /\ Len(toClient) \in Nat
                /\ \A k \in 1 .. Len(toClient') : toClient'[k] = toClient[k + 1]
            BY <1>1, HeadTailProperties, LenProperties DEF IInv, TypeOK, Responding, Receive
          <5>2. \A k \in 1 .. Len(toClient') : k + 1 \in 1 .. Len(toClient)
            BY <5>1
          <5>. QED  BY <2>2, <5>1, <5>2 DEF Responding
        <4>3. Chain(commands[Top], state, toClient)'
          BY <1>3, <2>2, <4>1 DEF Chain
        <4>4. Responding'
          BY <1>1, <1>3, <1>4, <3>1, <3>3, <4>2, <4>3 DEF Responding
        <4>. QED  BY <4>4 DEF Wire
      <3>. QED  BY <3>2, <3>3
    <2>. QED  BY <1>1, <2>0, <2>1, <2>2, PacketFacts
  <1>10. ~cut' => OnWire'
    BY <1>1, <1>6, <1>9 DEF OnWire
  <1>. QED  BY <1>7, <1>8, <1>10 DEF IInv

LEMMA DropStep ==
  ASSUME IInv, DropPacket
  PROVE  IInv'
  <1>1. /\ connected /\ toClient # <<>> /\ toClient' = Tail(toClient) /\ queued_cmds = <<>>
        /\ UNCHANGED <<commands, connected, server, prepared>>
        /\ UNCHANGED <<queued_cmds, state, pscache, failed, ended, cut, finished, events,
                       toServer>>
    BY DEF DropPacket, Receive
  <1>2. toClient' \in Seq([owner : Ids \cup {1}, kind : Packets])
    BY <1>1, HeadTailProperties DEF IInv, TypeOK
  <1>3. TypeOK'
    BY <1>1, <1>2 DEF IInv, TypeOK
  <1>4. InOrder' /\ CallsWellFormed' /\ HeadStarted' /\ HeadPrepares' /\ Reported'
    BY <1>1 DEF IInv, InOrder, CallsWellFormed, HeadStarted, HeadPrepares, Reported
  <1>5. ASSUME ~cut'
        PROVE  OnWire'
    <2>1. Greeting /\ pscache' \subseteq prepared'
      BY <1>1, <1>5 DEF IInv, OnWire, Wire, Requested, Responding, Quiet
    <2>2. toClient' = <<>> /\ toServer' = <<>>
      BY <1>1, <2>1 DEF Greeting
    <2>. QED  BY <2>1, <2>2 DEF OnWire, Wire, Quiet
  <1>. QED  BY <1>3, <1>4, <1>5 DEF IInv

LEMMA AnswerStep ==
  ASSUME IInv, ServerAnswers
  PROVE  IInv'
  <1>. DEFINE i == Head(toServer)
  <1>1. PICK c \in Understood(commands[i]) : \E r \in Responses(c) :
          /\ toClient' = toClient \o [k \in 1 .. Len(r) |-> [owner |-> i, kind |-> r[k]]]
          /\ prepared' = IF c.kind = "prepare" /\ r # <<"err">>
                         THEN prepared \cup {c.sql} ELSE prepared
          /\ server' = IF c.kind # "auth" THEN server
                       ELSE IF r = <<"err">> THEN "gone" ELSE "ready"
    BY DEF ServerAnswers
  <1>2. PICK r \in Responses(c) :
          /\ toClient' = toClient \o [k \in 1 .. Len(r) |-> [owner |-> i, kind |-> r[k]]]
          /\ prepared' = IF c.kind = "prepare" /\ r # <<"err">>
                         THEN prepared \cup {c.sql} ELSE prepared
          /\ server' = IF c.kind # "auth" THEN server
                       ELSE IF r = <<"err">> THEN "gone" ELSE "ready"
    BY <1>1
  <1>3. /\ toServer # <<>> /\ toServer' = Tail(toServer)
        /\ UNCHANGED <<commands, queued_cmds, state, pscache, failed, connected, ended, cut,
                       finished, events>>
    BY DEF ServerAnswers
  <1>4. i \in 1 .. Len(commands) /\ commands[i] \in Command /\ i \in Ids
    <2>1. i \in 1 .. Len(commands)
      BY <1>3, HeadTailProperties DEF IInv, TypeOK
    <2>2. commands[i] \in Command
      BY <2>1, ElementOfSeq DEF IInv, TypeOK
    <2>3. Len(commands) \in Nat /\ Len(commands) <= MaxCommands
      BY LenProperties DEF IInv, TypeOK
    <2>. QED  BY <2>1, <2>2, <2>3, MysqlAssumption DEF Ids
  <1>5. c \in Command /\ (~cut => c = commands[i])
    <2>1. CASE cut /\ commands[i].kind = "execute"
      <3>1. PICK s \in Statements : c = [commands[i] EXCEPT !.sql = s]
        BY <1>1, <2>1 DEF Understood
      <3>2. commands[i] \in [kind : {"prepare", "execute"}, sql : Statements, auto : BOOLEAN]
        BY <1>4, <2>1 DEF Command
      <3>3. c \in [kind : {"prepare", "execute"}, sql : Statements, auto : BOOLEAN]
        BY <3>1, <3>2
      <3>. QED  BY <2>1, <3>3 DEF Command
    <2>2. CASE ~(cut /\ commands[i].kind = "execute")
      <3>1. c = commands[i]
        BY <1>1, <2>2 DEF Understood
      <3>. QED  BY <1>4, <3>1
    <2>. QED  BY <2>1, <2>2
  <1>. HIDE DEF i
  <1>6. /\ \E t \in {"done", "cut"} : Takes(c, Asked(c), r, t)
        /\ r \in Seq(Answers) /\ r # <<>>
    BY <1>5, ResponseTakes
  <1>. DEFINE sent == [k \in 1 .. Len(r) |-> [owner |-> i, kind |-> r[k]]]
  <1>7. Len(r) \in Nat /\ Len(r) >= 1 /\ \A k \in 1 .. Len(r) : r[k] \in Answers
    BY <1>6, HeadIsFirst, ElementOfSeq
  <1>8. /\ sent \in Seq([owner : Ids \cup {1}, kind : Packets])
        /\ Len(sent) = Len(r)
        /\ \A k \in 1 .. Len(r) : sent[k].owner = i /\ sent[k].kind = r[k]
    <2>1. \A k \in 1 .. Len(r) : [owner |-> i, kind |-> r[k]] \in [owner : Ids \cup {1}, kind : Packets]
      BY <1>4, <1>7 DEF Answers
    <2>. QED  BY <1>7, <2>1
  <1>9. toClient' = toClient \o sent
    BY <1>2
  <1>. HIDE DEF sent
  <1>10. TypeOK'
    <2>1. prepared' \subseteq Statements
      BY <1>2, <1>5 DEF IInv, TypeOK, Command
    <2>2. server' \in {"handshake", "ready", "gone"}
      BY <1>2 DEF IInv, TypeOK
    <2>3. toServer' \in Seq(1 .. Len(commands))
      BY <1>3, HeadTailProperties DEF IInv, TypeOK
    <2>4. toClient' \in Seq([owner : Ids \cup {1}, kind : Packets])
      BY <1>8, <1>9, ConcatProperties DEF IInv, TypeOK
    <2>. QED  BY <1>3, <2>1, <2>2, <2>3, <2>4 DEF IInv, TypeOK
  <1>11. InOrder' /\ CallsWellFormed' /\ HeadStarted' /\ HeadPrepares' /\ Reported'
    BY <1>3 DEF IInv, InOrder, CallsWellFormed, HeadStarted, HeadPrepares, Reported, Stalled, Top
  <1>12. ASSUME ~cut'
         PROVE  Responding'
    <2>1. OnWire /\ ~cut /\ c = commands[i]
      BY <1>3, <1>5, <1>12 DEF IInv
    <2>2. Requested
      BY <1>3, <2>1 DEF OnWire, Wire, Greeting, Responding, Quiet
    <2>3. /\ i = Top /\ toServer' = <<>> /\ toClient = <<>> /\ state = Asked(c)
          /\ connected /\ queued_cmds # <<>>
      BY <1>3, <2>1, <2>2 DEF Requested, i
    <2>4. toClient' = sent
      BY <1>8, <1>9, <2>3, ConcatEmptySeq
    <2>5. Top' = i /\ commands'[Top'] = c /\ connected' /\ queued_cmds' # <<>> /\ state' = Asked(c)
      BY <1>3, <2>1, <2>3 DEF Top
    <2>6. toClient' # <<>>
      BY <1>7, <1>8, <2>4, EmptySeq
    <2>7. \A k \in 1 .. Len(toClient') : toClient'[k].owner = i /\ toClient'[k].kind # "greeting"
      <3>1. \A k \in 1 .. Len(r) : sent[k].owner = i /\ sent[k].kind # "greeting"
        BY <1>7, <1>8 DEF Answers
      <3>. QED  BY <1>8, <2>4, <3>1
    <2>8. Asked(c) # "read_status" /\ (Asked(c) = "ps_ok" => c.kind = "prepare")
      BY StartedIs DEF Asked
    <2>9. c.kind = "prepare" => toClient'[1].kind = "err" \/ c.sql \in prepared'
      <3>1. CASE r = <<"err">>
        <4>1. 1 \in 1 .. Len(r) /\ r[1] = "err"
          BY <1>7, <3>1
        <4>. QED  BY <1>8, <2>4, <4>1
      <3>2. CASE r # <<"err">>
        BY <1>2, <3>2
      <3>. QED  BY <3>1, <3>2
    <2>10. Chain(c, Asked(c), sent)
      <3>1. Len(sent) = Len(r) /\ \A k \in 1 .. Len(r) : sent[k].kind = r[k]
        BY <1>8
      <3>. QED  BY <1>6, <3>1, TakesChain
    <2>11. Chain(commands[Top], state, toClient)'
      BY <2>4, <2>5, <2>10 DEF Chain
    <2>. QED  BY <2>3, <2>5, <2>6, <2>7, <2>8, <2>9, <2>11 DEF Responding
  <1>13. ~cut' => pscache' \subseteq prepared'
    BY <1>2, <1>3 DEF IInv, OnWire
  <1>. QED  BY <1>10, <1>11, <1>12, <1>13 DEF IInv, OnWire, Wire

LEMMA LostStep ==
  ASSUME IInv, ServerLost
  PROVE  IInv'
  <1>1. PICK n \in 0 .. Len(toClient) : toClient' = SubSeq(toClient, 1, n)
    BY DEF ServerLost
  <1>2. /\ server' = "gone" /\ toServer' = <<>>
        /\ UNCHANGED <<commands, queued_cmds, state, pscache, failed, connected, ended, cut,
                       finished, events, prepared>>
    BY DEF ServerLost
  <1>3. toClient \in Seq([owner : Ids \cup {1}, kind : Packets]) /\ Len(toClient) \in Nat
    BY LenProperties DEF IInv, TypeOK
  <1>4. /\ toClient' \in Seq([owner : Ids \cup {1}, kind : Packets])
        /\ Len(toClient') = n
        /\ \A k \in 1 .. n : toClient'[k] = toClient[k]
    BY <1>1, <1>3, TakeSeq
  <1>5. TypeOK'
    BY <1>2, <1>4, EmptySeq DEF IInv, TypeOK
  <1>6. InOrder' /\ CallsWellFormed' /\ HeadStarted' /\ HeadPrepares' /\ Reported'
    BY <1>2 DEF IInv, InOrder, CallsWellFormed, HeadStarted, HeadPrepares, Reported, Stalled, Top
  <1>7. ASSUME ~cut'
        PROVE  Wire'
    <2>0. OnWire
      BY <1>2, <1>7 DEF IInv
    <2>1. CASE toClient' = <<>>
      BY <1>2, <2>1 DEF Wire, Quiet
    <2>2. CASE toClient' # <<>>
      <3>1. n >= 1 /\ toClient # <<>>
        BY <1>3, <1>4, <2>2, EmptyIsZero
      <3>2. CASE Greeting
        <4>1. Len(toClient) = 1
          BY <3>2 DEF Greeting
        <4>2. n = Len(toClient)
          BY <3>1, <4>1
        <4>3. toClient' = toClient
          BY <1>1, <1>3, <4>2, SubSeqFull
        <4>4. Greeting'
          BY <1>2, <3>2, <4>3 DEF Greeting
        <4>. QED  BY <4>4 DEF Wire
      <3>3. CASE Responding
        <4>1. Top' = Top /\ commands'[Top'] = commands[Top]
          BY <1>2 DEF Top
        <4>2. Chain(commands[Top], state, toClient')
          BY <1>1, <1>3, <3>3, ChainPrefix DEF Responding
        <4>3. Chain(commands[Top], state, toClient)'
          BY <1>2, <4>1, <4>2 DEF Chain
        <4>4. \A k \in 1 .. Len(toClient') : toClient'[k].owner = Top /\ toClient'[k].kind # "greeting"
          BY <1>3, <1>4, <3>3 DEF Responding
        <4>5. 1 \in 1 .. n /\ toClient'[1] = toClient[1]
          BY <1>3, <1>4, <3>1
        <4>6. Responding'
          BY <1>2, <2>2, <3>3, <4>1, <4>3, <4>4, <4>5 DEF Responding
        <4>. QED  BY <4>6 DEF Wire
      <3>. QED  BY <2>0, <3>1, <3>2, <3>3 DEF OnWire, Wire, Requested, Quiet
    <2>. QED  BY <2>1, <2>2
  <1>8. ~cut' => pscache' \subseteq prepared'
    BY <1>2 DEF IInv, OnWire
  <1>. QED  BY <1>5, <1>6, <1>7, <1>8 DEF IInv, OnWire

\* A step that touches neither the queue, the wire nor what the commands are.
LEMMA IdleStep ==
  ASSUME IInv, ended' \in BOOLEAN,
         UNCHANGED <<commands, queued_cmds, state, pscache, failed, connected, cut,
                     finished, events, server, prepared, toServer, toClient>>
  PROVE  IInv'
  <1>1. TypeOK'
    BY DEF IInv, TypeOK
  <1>2. InOrder' /\ CallsWellFormed' /\ HeadStarted' /\ HeadPrepares' /\ Reported'
    BY DEF IInv, InOrder, CallsWellFormed, HeadStarted, HeadPrepares, Reported, Stalled, Top
  <1>3. Top' = Top
    BY DEF Top
  <1>4. (Greeting => Greeting') /\ (Requested => Requested') /\ (Quiet => Quiet')
    BY <1>3 DEF Greeting, Requested, Quiet
  <1>5. ASSUME Responding
        PROVE  Responding'
    <2>1. Chain(commands[Top], state, toClient)'
      BY <1>3, <1>5 DEF Responding, Chain
    <2>. QED  BY <1>3, <1>5, <2>1 DEF Responding
  <1>. QED  BY <1>1, <1>2, <1>4, <1>5 DEF IInv, OnWire, Wire

\* Every call is a call of add() with new commands, or terminate().
LEMMA CallsStep ==
  ASSUME IInv, Calls
  PROVE  \/ \E new : NewCommands(new) /\ Add(new)
         \/ Terminate
  <1>1. CASE Auth
    <2>. DEFINE new == <<Plain("auth")>>
    <2>1. commands = <<>> /\ Add(new)
      BY <1>1 DEF Auth
    <2>2. NewCommands(new)
      BY <2>1 DEF NewCommands, Plain, Command
    <2>. QED  BY <2>1, <2>2
  <1>2. ASSUME NEW k \in {"query", "close", "debug"}, commands # <<>>, Add(<<Plain(k)>>)
        PROVE  \E new : NewCommands(new) /\ Add(new)
    <2>1. NewCommands(<<Plain(k)>>)
      BY <1>2 DEF NewCommands, Plain, Command
    <2>. QED  BY <1>2, <2>1
  <1>3. ASSUME NEW k \in {"prepare", "execute"}, NEW s \in Statements, commands # <<>>,
               Add(<<OnStatement(k, s, FALSE)>>)
        PROVE  \E new : NewCommands(new) /\ Add(new)
    <2>1. NewCommands(<<OnStatement(k, s, FALSE)>>)
      BY <1>3 DEF NewCommands, OnStatement, Command
    <2>. QED  BY <1>3, <2>1
  <1>4. ASSUME NEW s \in Statements, NEW auto_prepare \in BOOLEAN, Execute(s, auto_prepare)
        PROVE  \E new : NewCommands(new) /\ Add(new)
    <2>1. CASE auto_prepare /\ s \notin pscache
      <3>. DEFINE p   == OnStatement("prepare", s, TRUE)
                  e   == OnStatement("execute", s, FALSE)
                  new == <<p, e>>
      <3>1. Add(new) /\ commands # <<>>
        BY <1>4, <2>1 DEF Execute
      <3>2. p \in Command /\ e \in Command
        BY DEF OnStatement, Command
      <3>3. p.kind = "prepare" /\ p.auto = TRUE /\ e.kind = "execute" /\ e.auto = FALSE
        BY DEF OnStatement
      <3>. HIDE DEF p, e
      <3>4. NewCommands(new)
        BY <3>1, <3>2, <3>3 DEF NewCommands
      <3>. QED  BY <3>1, <3>4
    <2>2. CASE ~(auto_prepare /\ s \notin pscache)
      BY <1>3, <1>4, <2>2 DEF Execute
    <2>. QED  BY <2>1, <2>2
  <1>. QED  BY <1>1, <1>2, <1>3, <1>4 DEF Calls, Query, Close, Debug, Prepare

LEMMA NextInv ==
  ASSUME IInv, [Next]_vars
  PROVE  IInv'
  <1>1. CASE Calls
    <2>1. ASSUME Terminate
          PROVE  IInv'
      BY <2>1, IdleStep DEF Terminate
    <2>. QED  BY <1>1, <2>1, CallsStep, CallStep
  <1>2. CASE FirstData
    BY <1>2, FirstDataStep
  <1>3. CASE DropPacket
    BY <1>3, DropStep
  <1>4. CASE ErrorPacket
    BY <1>4, ErrorStep
  <1>5. CASE ProgressPacket
    BY <1>5, ProgressStep
  <1>6. CASE LastPacket
    BY <1>6, LastStep
  <1>7. CASE ServerAnswers
    BY <1>7, AnswerStep
  <1>8. CASE ServerLost
    BY <1>8, LostStep
  <1>9. CASE UNCHANGED vars
    <2>1. ended' \in BOOLEAN
      BY <1>9 DEF vars, IInv, TypeOK
    <2>. QED  BY <1>9, <2>1, IdleStep DEF vars
  <1>. QED  BY <1>1, <1>2, <1>3, <1>4, <1>5, <1>6, <1>7, <1>8, <1>9 DEF Next, Data

THEOREM Invariance == Spec => []IInv
  <1>1. Init => IInv
    BY InitInv
  <1>2. IInv /\ [Next]_vars => IInv'
    BY NextInv
  <1>. QED  BY <1>1, <1>2, PTL DEF Spec

-----------------------------------------------------------------------------
(* The theorems                                                            *)

\* Every variable holds a value of its kind.
THEOREM TypeCorrect == Spec => []TypeOK
  <1>1. IInv => TypeOK
    BY DEF IInv
  <1>. QED  BY <1>1, Invariance, PTL

\* Every packet is handed to the command it answers, however calls, answers,
\* errors, cached statements and failures interleave, until a query ends before
\* its response: process_packet() finds the right command by counting alone.
THEOREM PacketsRouted == Spec => []Routed
  <1>1. IInv => Routed
    <2>1. SUFFICES ASSUME IInv, connected, toClient # <<>>, ~cut
                   PROVE  IF queued_cmds = <<>> THEN Packet = "greeting"
                                                ELSE Head(toClient).owner = Top
      BY DEF Routed
    <2>2. CASE Greeting
      <3>1. Packet = "greeting" /\ Head(toClient).owner = 1
        BY <2>2 DEF Greeting, Packet
      <3>2. queued_cmds # <<>> => Top = 1
        <4>1. SUFFICES ASSUME queued_cmds # <<>>
                       PROVE  Top = 1
          OBVIOUS
        <4>2. 1 \in 1 .. Len(queued_cmds) /\ Top = queued_cmds[1]
          BY <2>1, <4>1, HeadIsFirst DEF IInv, TypeOK, Top
        <4>3. Len(finished) = 0
          BY <2>2, EmptySeq DEF Greeting
        <4>. QED  BY <2>1, <4>2, <4>3 DEF IInv, InOrder, Consecutive
      <3>. QED  BY <3>1, <3>2
    <2>3. CASE Responding
      <3>1. 1 \in 1 .. Len(toClient) /\ Head(toClient) = toClient[1]
        BY <2>1, HeadIsFirst DEF IInv, TypeOK
      <3>. QED  BY <2>3, <3>1 DEF Responding
    <2>. QED  BY <2>1, <2>2, <2>3 DEF IInv, OnWire, Wire, Requested, Quiet
  <1>. QED  BY <1>1, Invariance, PTL

\* One request is on its way at a time, that of the command at the head, and
\* nothing of an earlier response is left, as long as none has been cut.
THEOREM OneRequestAtATime == Spec => []OneRequest
  <1>1. IInv => OneRequest
    <2>1. ASSUME IInv, toServer # <<>>, ~cut
          PROVE  Requested
      BY <2>1 DEF IInv, OnWire, Wire, Greeting, Responding, Quiet
    <2>2. Requested => Len(toServer) = 1 /\ Head(toServer) = Top
      BY DEF Requested
    <2>. QED  BY <2>1, <2>2 DEF OneRequest, Requested
  <1>. QED  BY <1>1, Invariance, PTL

\* What the client takes for prepared is prepared, and an execute is only sent
\* for such a statement, as long as no response has been cut.
THEOREM ExecutesArePrepared == Spec => []ExecutesPrepared
  <1>1. IInv => ExecutesPrepared
    <2>1. SUFFICES ASSUME IInv, ~cut, NEW k \in DOMAIN toServer,
                          commands[toServer[k]].kind = "execute"
                   PROVE  commands[toServer[k]].sql \in prepared /\ toServer[k] \notin failed
      BY DEF ExecutesPrepared, IInv, OnWire
    <2>2. toServer # <<>>
      BY <2>1
    <2>3. Requested
      BY <2>1, <2>2 DEF IInv, OnWire, Wire, Greeting, Responding, Quiet
    <2>4. toServer[k] = Top
      BY <2>1, <2>3 DEF Requested
    <2>. QED  BY <2>1, <2>3, <2>4 DEF Requested, IInv, OnWire
  <1>. QED  BY <1>1, Invariance, PTL

\* No command leaves the queue unreported.
THEOREM FinishesReported == Spec => []NoSilentFinish
  <1>1. IInv => NoSilentFinish
    BY LenProperties DEF IInv, TypeOK, Reported, NoSilentFinish
  <1>. QED  BY <1>1, Invariance, PTL

-----------------------------------------------------------------------------
(* The session                                                             *)

\* The history only grows, and a call creates at most two commands.
LEMMA DispatchGrows ==
  ASSUME NEW S, finished \in Seq(S), NEW done \in Seq(S), NEW q \in Seq(S),
         NEW cmds, NEW cache, NEW fail, NEW emitted,
         DispatchPacket(cmds, done, q, cache, fail, emitted)
  PROVE  Len(finished') >= Len(finished) + Len(done)
  <1>1. PICK n \in 0 .. Len(q) : finished' = finished \o done \o SubSeq(q, 1, n)
    BY DEF DispatchPacket
  <1>. DEFINE past == finished \o done
              now  == SubSeq(q, 1, n)
  <1>2. past \in Seq(S) /\ Len(past) = Len(finished) + Len(done)
    BY ConcatProperties
  <1>3. now \in Seq(S) /\ Len(now) = n
    BY TakeSeq
  <1>4. finished' = past \o now
    BY <1>1
  <1>5. Len(finished) \in Nat /\ Len(done) \in Nat /\ n \in Nat
    BY LenProperties
  <1>. HIDE DEF past, now
  <1>6. Len(finished') = Len(past) + Len(now)
    BY <1>2, <1>3, <1>4, ConcatProperties
  <1>. QED  BY <1>2, <1>3, <1>5, <1>6

LEMMA AddGrows ==
  ASSUME IInv, NEW new, NewCommands(new), Add(new)
  PROVE  /\ connected' = connected
         /\ Len(finished') >= Len(finished)
         /\ Len(commands') = Len(commands) + Len(new)
  <1>. DEFINE ids == [k \in 1 .. Len(new) |-> Len(commands) + k]
  <1>1. /\ commands \in Seq(Command) /\ finished \in Seq(Nat) /\ queued_cmds \in Seq(Nat)
        /\ Len(commands) \in Nat /\ Len(finished) \in Nat
    <2>1. 1 .. Len(commands) \subseteq Nat
      BY LenProperties DEF IInv, TypeOK
    <2>. QED  BY <2>1, LenProperties, SeqMonotonic DEF IInv, TypeOK
  <1>2. ids \in Seq(Nat) /\ <<>> \in Seq(Nat)
    BY <1>1 DEF NewCommands
  <1>. HIDE DEF ids
  <1>3. queued_cmds \o ids \in Seq(Nat)
    BY <1>1, <1>2, ConcatProperties
  <1>4. /\ connected' = connected /\ commands' = commands \o new
        /\ \/ finished' = finished
           \/ DispatchPacket(commands \o new, <<>>, queued_cmds \o ids, pscache, failed, events)
    BY DEF Add, Push, ids
  <1>5. Len(finished') >= Len(finished)
    <2>1. CASE finished' = finished
      BY <1>1, <2>1
    <2>2. CASE DispatchPacket(commands \o new, <<>>, queued_cmds \o ids, pscache, failed, events)
      <3>1. Len(finished') >= Len(finished) + Len(<<>>)
        BY <1>1, <1>2, <1>3, <2>2, DispatchGrows
      <3>2. Len(<<>>) = 0
        BY EmptySeq
      <3>. QED  BY <1>1, <3>1, <3>2
    <2>. QED  BY <1>4, <2>1, <2>2
  <1>. QED  BY <1>1, <1>4, <1>5, ConcatProperties DEF NewCommands

LEMMA Grows ==
  ASSUME IInv, IInv', Next
  PROVE  /\ connected => connected'
         /\ Len(finished') >= Len(finished)
         /\ Len(commands') - Len(commands) \in {0, 1, 2}
         /\ state # "start" /\ Len(finished') = Len(finished) => state' # "start"
  <1>1. /\ finished \in Seq(Nat) /\ queued_cmds \in Seq(Nat) /\ <<>> \in Seq(Nat)
        /\ Len(commands) \in Nat /\ Len(finished) \in Nat
    <2>1. 1 .. Len(commands) \subseteq Nat
      BY LenProperties DEF IInv, TypeOK
    <2>. QED  BY <2>1, LenProperties, SeqMonotonic, EmptySeq DEF IInv, TypeOK
  <1>2. ASSUME NEW new, NewCommands(new), Add(new)
        PROVE  /\ connected => connected'
               /\ Len(finished') >= Len(finished)
               /\ Len(commands') - Len(commands) \in {0, 1, 2}
               /\ state # "start" => state' # "start"
    <2>1. Len(commands') = Len(commands) + Len(new) /\ Len(new) \in {1, 2}
      BY <1>2, AddGrows DEF NewCommands
    <2>2. Len(commands') - Len(commands) = Len(new)
      BY <1>1, <2>1
    <2>3. state # "start" => state' # "start"
      BY <1>2 DEF IInv, HeadStarted, Add, NeedStart
    <2>. QED  BY <1>2, <2>1, <2>2, <2>3, AddGrows
  <1>3. CASE Terminate \/ DropPacket \/ ProgressPacket \/ ServerAnswers \/ ServerLost
    <2>1. connected' = connected /\ finished' = finished /\ commands' = commands
      BY <1>3 DEF Terminate, DropPacket, ProgressPacket, ServerAnswers, ServerLost, Receive
    <2>2. state # "start" => state' # "start"
      <3>1. CASE ProgressPacket
        BY <3>1, NextRange DEF ProgressPacket, IInv, TypeOK
      <3>2. CASE Terminate \/ DropPacket \/ ServerAnswers \/ ServerLost
        BY <3>2 DEF Terminate, DropPacket, ServerAnswers, ServerLost
      <3>. QED  BY <1>3, <3>1, <3>2
    <2>. QED  BY <1>1, <2>1, <2>2
  <1>4. CASE FirstData
    <2>1. /\ connected' /\ commands' = commands
          /\ DispatchPacket(commands, <<>>, queued_cmds, pscache, failed, events)
      BY <1>4 DEF FirstData
    <2>2. Len(finished') >= Len(finished)
      <3>1. Len(finished') >= Len(finished) + Len(<<>>)
        BY <1>1, <2>1, DispatchGrows
      <3>2. Len(<<>>) = 0
        BY EmptySeq
      <3>. QED  BY <1>1, <3>1, <3>2
    <2>3. Len(commands') - Len(commands) = 0
      BY <1>1, <2>1
    <2>4. state = "start"
      BY <1>4 DEF FirstData, IInv, HeadStarted
    <2>. QED  BY <2>1, <2>2, <2>3, <2>4
  <1>5. CASE ErrorPacket \/ LastPacket
    <2>1. /\ connected' = connected /\ commands' = commands /\ queued_cmds # <<>>
          /\ \E cache, fail, emitted :
               DispatchPacket(commands, <<Top>>, Tail(queued_cmds), cache, fail, emitted)
      BY <1>5 DEF ErrorPacket, LastPacket, Receive
    <2>2. <<Top>> \in Seq(Nat) /\ Tail(queued_cmds) \in Seq(Nat)
      BY <1>1, <2>1, HeadTailProperties DEF Top
    <2>3. Len(finished') >= Len(finished) + Len(<<Top>>)
      BY <1>1, <2>1, <2>2, DispatchGrows
    <2>4. Len(finished') >= Len(finished) + 1
      <3>1. Len(<<Top>>) = 1
        OBVIOUS
      <3>. QED  BY <1>1, <2>3, <3>1
    <2>5. Len(finished') \in Nat /\ Len(finished') # Len(finished) /\ Len(finished') >= Len(finished)
      <3>1. Len(finished') \in Nat
        BY LenProperties DEF IInv, TypeOK
      <3>. QED  BY <1>1, <2>4, <3>1
    <2>6. Len(commands') - Len(commands) = 0
      BY <1>1, <2>1
    <2>. QED  BY <2>1, <2>5, <2>6
  <1>6. CASE Calls
    BY <1>2, <1>3, <1>6, CallsStep
  <1>. QED  BY <1>3, <1>4, <1>5, <1>6 DEF Next, Data

\* The state "start" tells the session that no command is active.
Active == IF state = "start" THEN 0 ELSE Top

\* A step of the client is a turn of the session: the numbering of the
\* commands leaves no choice of what joined the queue and what left it.
LEMMA SessionStep ==
  ASSUME IInv, IInv', Next
  PROVE  Session!SessionNext
  <1>. DEFINE i   == Len(queued_cmds) + Len(finished) + 1
              d   == Len(commands') - Len(commands)
              new == IF d = 0 THEN <<>> ELSE IF d = 1 THEN <<i>> ELSE <<i, i + 1>>
              n   == Len(finished') - Len(finished)
              q   == queued_cmds \o new
  <1>1. /\ queued_cmds \in Seq(Nat) /\ finished \in Seq(Nat)
        /\ queued_cmds' \in Seq(Nat) /\ finished' \in Seq(Nat)
        /\ Len(commands) \in Nat /\ Len(commands') \in Nat
    <2>1. 1 .. Len(commands) \subseteq Nat /\ 1 .. Len(commands') \subseteq Nat
      BY LenProperties DEF IInv, TypeOK
    <2>. QED  BY <2>1, LenProperties, SeqMonotonic DEF IInv, TypeOK
  <1>2. /\ Len(queued_cmds) \in Nat /\ Len(finished) \in Nat
        /\ Len(queued_cmds') \in Nat /\ Len(finished') \in Nat
    BY <1>1, LenProperties
  <1>3. /\ connected => connected'
        /\ Len(finished') >= Len(finished)
        /\ d \in {0, 1, 2}
    BY Grows
  <1>4. /\ \A k \in 1 .. Len(finished) : finished[k] = k
        /\ \A k \in 1 .. Len(queued_cmds) : queued_cmds[k] = Len(finished) + k
        /\ Len(finished) + Len(queued_cmds) = Len(commands)
        /\ \A k \in 1 .. Len(finished') : finished'[k] = k
        /\ \A k \in 1 .. Len(queued_cmds') : queued_cmds'[k] = Len(finished') + k
        /\ Len(finished') + Len(queued_cmds') = Len(commands')
    BY <1>2 DEF IInv, InOrder, Consecutive
  <1>5. /\ new \in {<<>>, <<i>>, <<i, i + 1>>} /\ new \in Seq(Nat)
        /\ Len(new) = d
        /\ \A k \in 1 .. d : new[k] = Len(commands) + k
    <2>1. i \in Nat /\ i = Len(commands) + 1 /\ i + 1 = Len(commands) + 2
      BY <1>2, <1>4
    <2>. HIDE DEF i, d
    <2>2. CASE d = 0
      BY <2>2
    <2>3. CASE d = 1
      BY <2>1, <2>3
    <2>4. CASE d = 2
      <3>1. \A k \in 1 .. 2 : k = 1 \/ k = 2
        OBVIOUS
      <3>. QED  BY <2>1, <2>4, <3>1
    <2>. QED  BY <1>3, <2>2, <2>3, <2>4
  <1>. HIDE DEF new, i
  <1>6. /\ q \in Seq(Nat)
        /\ Len(q) = Len(queued_cmds) + d
        /\ \A k \in 1 .. Len(q) : q[k] = Len(finished) + k
    <2>1. /\ q \in Seq(Nat)
          /\ Len(q) = Len(queued_cmds) + Len(new)
          /\ \A k \in 1 .. Len(queued_cmds) + Len(new) :
               q[k] = IF k <= Len(queued_cmds) THEN queued_cmds[k] ELSE new[k - Len(queued_cmds)]
      BY <1>1, <1>5, ConcatProperties
    <2>2. Len(q) = Len(queued_cmds) + d
      BY <1>5, <2>1
    <2>3. ASSUME NEW k \in 1 .. Len(q)
          PROVE  q[k] = Len(finished) + k
      <3>1. CASE k <= Len(queued_cmds)
        BY <1>2, <1>4, <2>1, <3>1
      <3>2. CASE ~(k <= Len(queued_cmds))
        <4>1. k - Len(queued_cmds) \in 1 .. d
          BY <1>2, <1>3, <2>2, <3>2
        <4>2. q[k] = new[k - Len(queued_cmds)]
          BY <2>1, <3>2
        <4>3. new[k - Len(queued_cmds)] = Len(commands) + (k - Len(queued_cmds))
          BY <1>5, <4>1
        <4>4. Len(commands) = Len(finished) + Len(queued_cmds)
          BY <1>4
        <4>. QED  BY <1>2, <4>2, <4>3, <4>4
      <3>. QED  BY <3>1, <3>2
    <2>. QED  BY <2>1, <2>2, <2>3
  <1>. HIDE DEF q
  <1>7. n \in 0 .. Len(q) /\ n \in Nat /\ Len(q) \in Nat /\ Len(queued_cmds') = Len(q) - n
    <2>1. /\ Len(finished) + Len(queued_cmds) = Len(commands)
          /\ Len(finished') + Len(queued_cmds') = Len(commands')
          /\ Len(q) = Len(queued_cmds) + (Len(commands') - Len(commands))
      BY <1>4, <1>6
    <2>2. n \in Nat /\ Len(q) \in Nat
      <3>1. Len(finished') >= Len(finished)
        BY <1>3
      <3>2. Len(q) \in Nat
        BY <1>6, LenProperties
      <3>. QED  BY <1>2, <3>1, <3>2
    <2>3. Len(queued_cmds') = Len(q) - n
      <3>. DEFINE a == Len(finished)
                  b == Len(queued_cmds)
                  c == Len(commands)
                  x == Len(finished')
                  y == Len(queued_cmds')
                  z == Len(commands')
                  l == Len(q)
      <3>1. /\ a \in Int /\ b \in Int /\ c \in Int /\ x \in Int /\ y \in Int /\ z \in Int
            /\ l \in Int
        BY <1>1, <1>2, <2>2
      <3>2. a + b = c /\ x + y = z /\ l = b + (z - c)
        BY <2>1
      <3>. HIDE DEF a, b, c, x, y, z, l
      <3>3. y = l - (x - a)
        BY <3>1, <3>2
      <3>. QED  BY <3>3 DEF a, l, x, y
    <2>. QED  BY <1>2, <2>2, <2>3
  <1>8. queued_cmds' = SubSeq(q, n + 1, Len(q))
    <2>. DEFINE rest == SubSeq(q, n + 1, Len(q))
    <2>1. /\ rest \in Seq(Nat) /\ Len(rest) = Len(q) - n
          /\ \A k \in 1 .. Len(q) - n : rest[k] = q[n + k]
      BY <1>6, <1>7, DropSeq
    <2>. HIDE DEF rest
    <2>2. ASSUME NEW k \in 1 .. Len(queued_cmds')
          PROVE  queued_cmds'[k] = rest[k]
      <3>1. n + k \in 1 .. Len(q) /\ Len(finished) + (n + k) = Len(finished') + k
        BY <1>2, <1>7
      <3>2. rest[k] = q[n + k]
        BY <1>7, <2>1
      <3>. QED  BY <1>4, <1>6, <3>1, <3>2
    <2>3. queued_cmds' = rest
      BY <1>1, <1>7, <2>1, <2>2, SeqEqual
    <2>. QED  BY <2>3 DEF rest
  <1>9. finished' = finished \o SubSeq(q, 1, n)
    <2>. DEFINE now == SubSeq(q, 1, n)
                f   == finished \o now
    <2>1. now \in Seq(Nat) /\ Len(now) = n /\ \A k \in 1 .. n : now[k] = q[k]
      BY <1>6, <1>7, TakeSeq
    <2>. HIDE DEF now
    <2>2. /\ f \in Seq(Nat) /\ Len(f) = Len(finished) + Len(now)
          /\ \A k \in 1 .. Len(finished) + Len(now) :
               f[k] = IF k <= Len(finished) THEN finished[k] ELSE now[k - Len(finished)]
      BY <1>1, <2>1, ConcatProperties
    <2>. HIDE DEF f
    <2>3. Len(f) = Len(finished')
      BY <1>2, <2>1, <2>2
    <2>4. ASSUME NEW k \in 1 .. Len(finished')
          PROVE  finished'[k] = f[k]
      <3>0. k \in 1 .. Len(finished) + Len(now)
        BY <2>2, <2>3
      <3>1. CASE k <= Len(finished)
        <4>1. f[k] = finished[k] /\ finished[k] = k
          BY <1>2, <1>4, <2>2, <3>0, <3>1
        <4>. QED  BY <1>4, <4>1
      <3>2. CASE ~(k <= Len(finished))
        <4>1. /\ k - Len(finished) \in 1 .. n /\ k - Len(finished) \in 1 .. Len(q)
              /\ Len(finished) + (k - Len(finished)) = k
          BY <1>2, <1>7, <3>2
        <4>2. f[k] = now[k - Len(finished)]
          BY <2>2, <3>0, <3>2
        <4>3. f[k] = k
          BY <1>6, <2>1, <4>1, <4>2
        <4>. QED  BY <1>4, <4>3
      <3>. QED  BY <3>1, <3>2
    <2>5. finished' = f
      BY <1>1, <2>2, <2>3, <2>4, SeqEqual
    <2>. QED  BY <2>5 DEF f, now
  <1>10. ASSUME state' # "start"
         PROVE  queued_cmds' # <<>> /\ Active' = Head(queued_cmds') /\ Top' = Len(finished') + 1
    <2>1. queued_cmds' # <<>>
      BY <1>10 DEF IInv, HeadStarted
    <2>2. 1 \in 1 .. Len(queued_cmds') /\ Head(queued_cmds') = queued_cmds'[1]
      BY <1>1, <2>1, HeadIsFirst
    <2>3. Top' = Head(queued_cmds')
      BY DEF Top
    <2>. QED  BY <1>4, <1>10, <2>1, <2>2, <2>3 DEF Active
  <1>11. Active' = 0 \/ (queued_cmds' # <<>> /\ Active' = Head(queued_cmds'))
    BY <1>10 DEF Active
  <1>12. ASSUME Active # 0, n = 0
         PROVE  Active' = Active
    <2>1. state # "start" /\ connected /\ queued_cmds # <<>> /\ Active = Top
      BY <1>12 DEF Active, IInv, HeadStarted, TypeOK
    <2>2. Top = Len(finished) + 1
      <3>1. 1 \in 1 .. Len(queued_cmds) /\ Head(queued_cmds) = queued_cmds[1]
        BY <1>1, <2>1, HeadIsFirst
      <3>. QED  BY <1>4, <3>1 DEF Top
    <2>3. Len(finished') = Len(finished) /\ Len(queued_cmds') >= 1
      <3>1. Len(queued_cmds) >= 1
        BY <1>1, <2>1, HeadIsFirst
      <3>. QED  BY <1>2, <1>3, <1>6, <1>7, <1>12, <3>1
    <2>4. queued_cmds' # <<>> /\ connected'
      BY <1>1, <1>3, <2>1, <2>3, EmptyIsZero
    <2>5. state' # "start"
      BY <2>1, <2>3, Grows
    <2>. QED  BY <1>10, <2>1, <2>2, <2>3, <2>5 DEF Active
  <1>13. Session!Turn(new, n)
    <2>1. n <= Len(queued_cmds \o new)
      BY <1>7 DEF q
    <2>2. /\ queued_cmds' = SubSeq(queued_cmds \o new, n + 1, Len(queued_cmds \o new))
          /\ finished' = finished \o SubSeq(queued_cmds \o new, 1, n)
      BY <1>8, <1>9 DEF q
    <2>. HIDE DEF n
    <2>. QED  BY <1>11, <1>12, <2>1, <2>2 DEF Session!Turn, Active
  <1>14. n \in 0 .. Len(queued_cmds) + Len(new)
    BY <1>5, <1>6, <1>7
  <1>. QED  BY <1>5, <1>13, <1>14 DEF Session!SessionNext, i

\* The client serves its callers in the order of their calls, one at a time,
\* and finishes every command once.
THEOREM SessionImplemented == Spec => ImplementsSession
  <1>1. Init => Session!SessionInit
    BY DEF Init, Session!SessionInit
  <1>2. IInv /\ IInv' /\ [Next]_vars => [Session!SessionNext]_(Session!svars)
    <2>1. ASSUME UNCHANGED vars
          PROVE  UNCHANGED Session!svars
      BY <2>1 DEF vars, Session!svars, Top
    <2>. QED  BY <2>1, SessionStep
  <1>. QED  BY <1>1, <1>2, Invariance, PTL DEF Spec, ImplementsSession, Session!SessionSpec
=============================================================================
