--------------------------- MODULE MongoPoolProofs ---------------------------
(***************************************************************************)
(* Proofs about MongoPool, for every size of the pool and every bound.     *)
(*                                                                         *)
(* The safety properties of the runs follow from an inductive invariant    *)
(* that follows each request, and the authentication of each socket,       *)
(* through the queues: it is at one place at most, and where it is tells   *)
(* what has been done about it.                                            *)
(***************************************************************************)
EXTENDS MongoPool, FiniteSetTheorems, SequenceTheorems, TLAPS

-----------------------------------------------------------------------------
(* The inductive invariant                                                 *)

\* What an item is about: a request, or the authentication of a socket.
Token(item) == IF item.kind = "op" THEN item.id ELSE -item.id
Tokens(q) == {Token(q[k]) : k \in DOMAIN q}
Distinct(q) == \A j, k \in DOMAIN q : Token(q[j]) = Token(q[k]) => j = k

\* The pool is what was made last.
Shape ==
  /\ pool = [i \in 1 .. PoolSize |-> made - PoolSize + i]
  /\ made >= PoolSize
  /\ \A s \in Sockets : status[s] = "new" <=> s > made

\* The counters of a reconnect count the sockets of the pool, each of them once.
Reached == {i \in 1 .. PoolSize : status[pool[i]] \in {"open", "closed"}}
Failed == {i \in 1 .. PoolSize : status[pool[i]] = "closed"}
Counted == settingUp => connectedTo <= Cardinality(Reached) /\ errors <= Cardinality(Failed)

\* The token x is not in the queues m, ts and tc.
Nowhere(x, m, ts, tc) ==
  x \notin Tokens(m) /\ \A s \in Sockets : x \notin Tokens(ts[s]) /\ x \notin Tokens(tc[s])

\* No token is at two places.
Apart(m, ts, tc) ==
  /\ Distinct(m)
  /\ \A s \in Sockets :
       /\ Distinct(ts[s]) /\ Distinct(tc[s])
       /\ Tokens(m) \cap Tokens(ts[s]) = {}
       /\ Tokens(m) \cap Tokens(tc[s]) = {}
       /\ \A t \in Sockets :
            /\ Tokens(ts[s]) \cap Tokens(tc[t]) = {}
            /\ s # t => Tokens(ts[s]) \cap Tokens(ts[t]) = {}
            /\ s # t => Tokens(tc[s]) \cap Tokens(tc[t]) = {}

\* An authentication is on its own socket, and one that is to return.
Handshakes(m, ts, tc, a) ==
  /\ \A x \in Tokens(m) : x < 0 => -x \in a
  /\ \A s \in Sockets :
       \A x \in Int : x \in Tokens(ts[s]) \/ x \in Tokens(tc[s]) => (x < 0 => x = -s /\ s \in a)

Authorised(tc, a) == \A s \in Sockets : \A k \in DOMAIN tc[s] : tc[s][k].kind = "auth" => s \in a

\* Between two reconnects, and while the authentication runs, every socket of the
\* pool is authenticated or is to be.
Admitted == auths /\ ~settingUp => \A i \in 1 .. PoolSize : pool[i] \in authed \cup authing

\* A request that is queued or on its way to the server has neither been executed
\* nor answered, and one whose reply is on its way has not been answered.
Fresh(r) == executed[r] = 0 /\ answered[r] = 0

Counts ==
  \A r \in Requests :
    /\ r > asked => Fresh(r)
    /\ r \in Tokens(messages) => Fresh(r)
    /\ \A s \in Sockets : r \in Tokens(toServer[s]) => Fresh(r)
    /\ \A s \in Sockets : r \in Tokens(toClient[s]) => answered[r] = 0
    /\ executed[r] <= 1 /\ answered[r] <= 1

IInv ==
  /\ TypeOK
  /\ Shape
  /\ Counted
  /\ Apart(messages, toServer, toClient)
  /\ Handshakes(messages, toServer, toClient, authing)
  /\ Authorised(toClient, authed)
  /\ Admitted
  /\ Counts
  /\ ReconnectWhole

-----------------------------------------------------------------------------
(* Tokens of a queue                                                       *)

AnyItem == [kind : {"op", "nonce", "auth"}, id : Nat \ {0}]

LEMMA TokenOf ==
  ASSUME NEW x \in AnyItem
  PROVE  /\ Token(x) \in Int /\ Token(x) # 0
         /\ Token(x) > 0 <=> x.kind = "op"
         /\ Token(x) > 0 => Token(x) = x.id
         /\ Token(x) < 0 => Token(x) = -x.id
BY DEF Token, AnyItem

LEMMA NoTokens == Tokens(<<>>) = {} /\ Distinct(<<>>)
BY DEF Tokens, Distinct

LEMMA AppendTokens ==
  ASSUME NEW S, NEW q \in Seq(S), NEW x \in S
  PROVE  /\ Tokens(Append(q, x)) = Tokens(q) \cup {Token(x)}
         /\ Distinct(q) /\ Token(x) \notin Tokens(q) => Distinct(Append(q, x))
<1>1. /\ DOMAIN Append(q, x) = DOMAIN q \cup {Len(q) + 1}
      /\ Append(q, x)[Len(q) + 1] = x
      /\ \A k \in DOMAIN q : Append(q, x)[k] = q[k] /\ k # Len(q) + 1
  BY AppendProperties
<1>2. Tokens(Append(q, x)) = Tokens(q) \cup {Token(x)}
  BY <1>1 DEF Tokens
<1>3. Distinct(q) /\ Token(x) \notin Tokens(q) => Distinct(Append(q, x))
  BY <1>1 DEF Tokens, Distinct
<1>4. QED
  BY <1>2, <1>3

LEMMA TailTokens ==
  ASSUME NEW S, NEW q \in Seq(S), q # <<>>
  PROVE  /\ Head(q) \in S /\ Tail(q) \in Seq(S)
         /\ Tokens(q) = Tokens(Tail(q)) \cup {Token(Head(q))}
         /\ Distinct(q) => Distinct(Tail(q)) /\ Token(Head(q)) \notin Tokens(Tail(q))
         /\ \A k \in DOMAIN Tail(q) : \E j \in DOMAIN q : Tail(q)[k] = q[j]
<1>1. /\ Head(q) = q[1] /\ 1 \in DOMAIN q
      /\ DOMAIN Tail(q) = 1 .. Len(q) - 1
      /\ DOMAIN q = 1 .. Len(q) /\ Len(q) \in Nat
      /\ \A k \in DOMAIN Tail(q) : Tail(q)[k] = q[k + 1] /\ k + 1 \in DOMAIN q
      /\ Head(q) \in S /\ Tail(q) \in Seq(S)
  BY HeadTailProperties
<1>2. \A k \in DOMAIN q : k = 1 \/ (k - 1 \in DOMAIN Tail(q) /\ Tail(q)[k - 1] = q[k])
  BY <1>1
<1>3. Tokens(q) = Tokens(Tail(q)) \cup {Token(Head(q))}
  <2>1. ASSUME NEW y \in Tokens(q) PROVE y \in Tokens(Tail(q)) \cup {Token(Head(q))}
    <3>1. PICK k \in DOMAIN q : y = Token(q[k])
      BY <2>1 DEF Tokens
    <3>2. QED
      BY <3>1, <1>1, <1>2 DEF Tokens
  <2>2. ASSUME NEW y \in Tokens(Tail(q)) \cup {Token(Head(q))} PROVE y \in Tokens(q)
    BY <2>2, <1>1 DEF Tokens
  <2>3. QED
    BY <2>1, <2>2
<1>4. ASSUME Distinct(q) PROVE Distinct(Tail(q)) /\ Token(Head(q)) \notin Tokens(Tail(q))
  BY <1>1, <1>4 DEF Distinct, Tokens
<1>5. QED
  BY <1>1, <1>3, <1>4

LEMMA ConcatTokens ==
  ASSUME NEW S, NEW p \in Seq(S), NEW q \in Seq(S)
  PROVE  /\ p \o q \in Seq(S)
         /\ Tokens(p \o q) = Tokens(p) \cup Tokens(q)
         /\ Distinct(p) /\ Distinct(q) /\ Tokens(p) \cap Tokens(q) = {} => Distinct(p \o q)
<1>1. /\ p \o q \in Seq(S)
      /\ Len(p \o q) = Len(p) + Len(q)
      /\ DOMAIN (p \o q) = 1 .. Len(p) + Len(q)
      /\ \A k \in 1 .. Len(p) : (p \o q)[k] = p[k]
      /\ \A k \in 1 .. Len(q) : (p \o q)[Len(p) + k] = q[k]
      /\ DOMAIN p = 1 .. Len(p) /\ DOMAIN q = 1 .. Len(q)
      /\ Len(p) \in Nat /\ Len(q) \in Nat
  BY ConcatProperties
<1> DEFINE c == p \o q
           m == Len(p)
           n == Len(q)
<1>2. /\ \A k \in 1 .. m : c[k] = p[k]
      /\ \A k \in m + 1 .. m + n : c[k] = q[k - m] /\ k - m \in 1 .. n
      /\ \A k \in 1 .. n : c[m + k] = q[k] /\ m + k \in 1 .. m + n
      /\ \A k \in 1 .. m : k \in 1 .. m + n
      /\ DOMAIN c = 1 .. m + n /\ DOMAIN p = 1 .. m /\ DOMAIN q = 1 .. n /\ m \in Nat /\ n \in Nat
  <2> HIDE DEF c
  <2>1. \A k \in m + 1 .. m + n : k - m \in 1 .. n /\ m + (k - m) = k
    BY <1>1
  <2>2. \A k \in 1 .. n : c[m + k] = q[k]
    BY <1>1 DEF c
  <2>3. \A k \in m + 1 .. m + n : c[k] = q[k - m]
    BY <2>1, <2>2
  <2>4. QED
    BY <2>1, <2>2, <2>3, <1>1 DEF c
<1> HIDE DEF c, m, n
<1>3. Tokens(c) = Tokens(p) \cup Tokens(q)
  <2>1. ASSUME NEW y \in Tokens(c) PROVE y \in Tokens(p) \cup Tokens(q)
    <3>1. PICK k \in 1 .. m + n : y = Token(c[k])
      BY <2>1, <1>2 DEF Tokens
    <3>2. k \in 1 .. m \/ k \in m + 1 .. m + n
      BY <1>2
    <3>3. QED
      BY <3>1, <3>2, <1>2 DEF Tokens
  <2>2. ASSUME NEW y \in Tokens(p) \cup Tokens(q) PROVE y \in Tokens(c)
    BY <2>2, <1>2 DEF Tokens
  <2>3. QED
    BY <2>1, <2>2
<1>4. ASSUME Distinct(p), Distinct(q), Tokens(p) \cap Tokens(q) = {},
             NEW j \in 1 .. m + n, NEW k \in 1 .. m + n, Token(c[j]) = Token(c[k])
      PROVE  j = k
  <2>1. \A i \in 1 .. m : Token(c[i]) \in Tokens(p)
    BY <1>2 DEF Tokens
  <2>2. \A i \in m + 1 .. m + n : Token(c[i]) \in Tokens(q)
    BY <1>2 DEF Tokens
  <2>3. CASE j \in 1 .. m /\ k \in 1 .. m
    BY <2>3, <1>4, <1>2 DEF Distinct
  <2>4. CASE j \in m + 1 .. m + n /\ k \in m + 1 .. m + n
    <3>1. /\ j - m \in DOMAIN q /\ c[j] = q[j - m]
          /\ k - m \in DOMAIN q /\ c[k] = q[k - m]
      BY <2>4, <1>2
    <3>2. j - m = k - m
      BY <3>1, <1>4 DEF Distinct
    <3>3. QED
      BY <3>2, <1>2
  <2>5. CASE j \in 1 .. m /\ k \in m + 1 .. m + n
    BY <2>5, <2>1, <2>2, <1>4
  <2>6. CASE k \in 1 .. m /\ j \in m + 1 .. m + n
    BY <2>6, <2>1, <2>2, <1>4
  <2>7. QED
    BY <2>3, <2>4, <2>5, <2>6, <1>2
<1>5. QED
  BY <1>1, <1>2, <1>3, <1>4 DEF c, Distinct

\* What is left of a queue when its first i items are gone.
LEMMA RestTokens ==
  ASSUME NEW S, NEW q \in Seq(S), NEW i \in 0 .. Len(q)
  PROVE  /\ SubSeq(q, i + 1, Len(q)) \in Seq(S)
         /\ Tokens(SubSeq(q, i + 1, Len(q))) = {Token(q[k]) : k \in i + 1 .. Len(q)}
         /\ Distinct(q) => Distinct(SubSeq(q, i + 1, Len(q)))
<1> DEFINE n == Len(q)
           r == SubSeq(q, i + 1, n)
<1>1. n \in Nat /\ DOMAIN q = 1 .. n
  OBVIOUS
<1>2. r = [k \in 1 .. n - i |-> q[i + k]] /\ r \in Seq(S)
  <2> HIDE DEF n
  <2>1. \A k \in i + 1 .. n : q[k] \in S
    BY <1>1, ElementOfSeq DEF n
  <2>2. r = [k \in 1 .. (n - (i + 1) + 1) |-> q[(i + 1) + k - 1]]
    BY <1>1 DEF n
  <2>3. n - (i + 1) + 1 = n - i /\ \A k \in 1 .. n - i : (i + 1) + k - 1 = i + k /\ i + k \in i + 1 .. n
    BY <1>1 DEF n
  <2>4. r = [k \in 1 .. n - i |-> q[i + k]]
    BY <2>2, <2>3
  <2>5. n - i \in Nat
    BY <1>1 DEF n
  <2>6. [k \in 1 .. n - i |-> q[i + k]] \in Seq(S)
    BY <2>1, <2>3, <2>5
  <2>7. QED
    BY <2>4, <2>6
<1> HIDE DEF r
<1>3. DOMAIN r = 1 .. n - i /\ \A k \in 1 .. n - i : r[k] = q[i + k] /\ i + k \in i + 1 .. n
  BY <1>1, <1>2
<1>4. \A k \in i + 1 .. n : k - i \in 1 .. n - i /\ r[k - i] = q[k] /\ k \in DOMAIN q
  BY <1>1, <1>3
<1> HIDE DEF n
<1>5. Tokens(r) = {Token(q[k]) : k \in i + 1 .. n}
  <2>1. ASSUME NEW y \in Tokens(r) PROVE y \in {Token(q[k]) : k \in i + 1 .. n}
    BY <2>1, <1>3 DEF Tokens
  <2>2. ASSUME NEW y \in {Token(q[k]) : k \in i + 1 .. n} PROVE y \in Tokens(r)
    BY <2>2, <1>3, <1>4 DEF Tokens
  <2>3. QED
    BY <2>1, <2>2
<1>6. ASSUME Distinct(q) PROVE Distinct(r)
  BY <1>6, <1>1, <1>3 DEF Distinct
<1>7. QED
  BY <1>2, <1>5, <1>6 DEF r, n

-----------------------------------------------------------------------------
(* One item moves                                                          *)

Queues == [Sockets -> Seq(AnyItem)]

\* ns are the queues ts when the first item of that of s has left, and when x has
\* come to its end.
Shifted(ns, m, ts, tc, s) ==
  /\ ts \in Queues /\ Apart(m, ts, tc) /\ s \in Sockets /\ ts[s] # <<>>
  /\ ns = [ts EXCEPT ![s] = Tail(@)]
Pushed(ns, m, ts, tc, s, x) ==
  /\ ts \in Queues /\ Apart(m, ts, tc) /\ s \in Sockets
  /\ x \in AnyItem /\ Nowhere(Token(x), m, ts, tc)
  /\ ns = [ts EXCEPT ![s] = Append(@, x)]

LEMMA QueuesSwap ==
  ASSUME NEW m, NEW ts, NEW tc
  PROVE  /\ Apart(m, ts, tc) => Apart(m, tc, ts)
         /\ \A x : Nowhere(x, m, ts, tc) => Nowhere(x, m, tc, ts)
         /\ \A a : Handshakes(m, ts, tc, a) => Handshakes(m, tc, ts, a)
BY DEF Apart, Nowhere, Handshakes

\* The first item of a queue leaves it.
LEMMA Dropped ==
  ASSUME NEW m, NEW ts, NEW tc, NEW s, NEW ns, Shifted(ns, m, ts, tc, s)
  PROVE  /\ ns \in Queues
         /\ Apart(m, ns, tc)
         /\ Nowhere(Token(Head(ts[s])), m, ns, tc)
         /\ \A t \in Sockets : Tokens(ns[t]) \subseteq Tokens(ts[t])
         /\ Head(ts[s]) \in AnyItem
         /\ Token(Head(ts[s])) \in Tokens(ts[s])
<1>0. ts \in Queues /\ Apart(m, ts, tc) /\ s \in Sockets /\ ts[s] # <<>>
  BY DEF Shifted
<1>1. /\ Head(ts[s]) \in AnyItem /\ Tail(ts[s]) \in Seq(AnyItem)
      /\ Tokens(ts[s]) = Tokens(Tail(ts[s])) \cup {Token(Head(ts[s]))}
      /\ Distinct(ts[s]) => Distinct(Tail(ts[s])) /\ Token(Head(ts[s])) \notin Tokens(Tail(ts[s]))
  BY <1>0, TailTokens DEF Queues
<1>2. ns[s] = Tail(ts[s]) /\ \A t \in Sockets \ {s} : ns[t] = ts[t]
  BY DEF Queues, Shifted
<1>3. ns \in Queues
  BY <1>1 DEF Queues, Shifted
<1>4. QED
  BY <1>0, <1>1, <1>2, <1>3 DEF Apart, Nowhere

\* An item comes to the end of a queue.
LEMMA Appended ==
  ASSUME NEW m, NEW ts, NEW tc, NEW s, NEW x, NEW ns, Pushed(ns, m, ts, tc, s, x)
  PROVE  /\ ns \in Queues
         /\ Apart(m, ns, tc)
         /\ Tokens(ns[s]) = Tokens(ts[s]) \cup {Token(x)}
         /\ \A t \in Sockets \ {s} : ns[t] = ts[t]
<1>0. /\ ts \in Queues /\ Apart(m, ts, tc) /\ s \in Sockets
      /\ x \in AnyItem /\ Nowhere(Token(x), m, ts, tc)
  BY DEF Pushed
<1>1. /\ Tokens(Append(ts[s], x)) = Tokens(ts[s]) \cup {Token(x)}
      /\ Distinct(ts[s]) /\ Token(x) \notin Tokens(ts[s]) => Distinct(Append(ts[s], x))
  BY <1>0, AppendTokens DEF Queues
<1>2. ns[s] = Append(ts[s], x) /\ \A t \in Sockets \ {s} : ns[t] = ts[t]
  BY DEF Queues, Pushed
<1>3. ns \in Queues
  BY DEF Queues, Pushed
<1>4. Distinct(ns[s]) /\ Tokens(ns[s]) = Tokens(ts[s]) \cup {Token(x)}
  BY <1>0, <1>1, <1>2 DEF Apart, Nowhere
<1>5. ASSUME NEW u \in Sockets
      PROVE  /\ Distinct(ns[u]) /\ Distinct(tc[u]) /\ Tokens(m) \cap Tokens(ns[u]) = {}
             /\ \A t \in Sockets : Tokens(ns[u]) \cap Tokens(tc[t]) = {}
  <2>1. CASE u = s
    <3>1. /\ Distinct(tc[s]) /\ Tokens(m) \cap Tokens(ts[s]) = {}
          /\ \A t \in Sockets : Tokens(ts[s]) \cap Tokens(tc[t]) = {}
      BY <1>0 DEF Apart
    <3>2. Token(x) \notin Tokens(m) /\ \A t \in Sockets : Token(x) \notin Tokens(tc[t])
      BY <1>0 DEF Nowhere
    <3>3. QED
      BY <2>1, <1>4, <3>1, <3>2
  <2>2. CASE u # s
    BY <1>0, <2>2, <1>2 DEF Apart
  <2>3. QED
    BY <2>1, <2>2
<1>6. ASSUME NEW u \in Sockets, NEW t \in Sockets, u # t
      PROVE  Tokens(ns[u]) \cap Tokens(ns[t]) = {}
  <2>1. CASE u = s
    BY <1>0, <2>1, <1>2, <1>4, <1>6 DEF Apart, Nowhere
  <2>2. CASE t = s
    BY <1>0, <2>2, <1>2, <1>4, <1>6 DEF Apart, Nowhere
  <2>3. CASE u # s /\ t # s
    BY <1>0, <2>3, <1>2, <1>6 DEF Apart
  <2>4. QED
    BY <2>1, <2>2, <2>3
<1>7. Apart(m, ns, tc)
  BY <1>0, <1>5, <1>6 DEF Apart
<1>8. QED
  BY <1>2, <1>3, <1>4, <1>7

\* An item comes to the end of the queue of the connection.
LEMMA Queued ==
  ASSUME NEW m \in Seq(AnyItem), NEW ts, NEW tc, Apart(m, ts, tc),
         NEW x \in AnyItem, Nowhere(Token(x), m, ts, tc)
  PROVE  /\ Append(m, x) \in Seq(AnyItem)
         /\ Apart(Append(m, x), ts, tc)
         /\ Tokens(Append(m, x)) = Tokens(m) \cup {Token(x)}
<1>1. /\ Tokens(Append(m, x)) = Tokens(m) \cup {Token(x)}
      /\ Distinct(m) /\ Token(x) \notin Tokens(m) => Distinct(Append(m, x))
  BY AppendTokens
<1>2. Distinct(Append(m, x)) /\ Tokens(Append(m, x)) = Tokens(m) \cup {Token(x)}
  BY <1>1 DEF Apart, Nowhere
<1> DEFINE a == Append(m, x)
<1>3. a \in Seq(AnyItem)
  OBVIOUS
<1> HIDE DEF a
<1>4. Distinct(a) /\ Tokens(a) = Tokens(m) \cup {Token(x)}
  BY <1>2 DEF a
<1>5. Apart(a, ts, tc)
  BY <1>4 DEF Apart, Nowhere
<1>6. QED
  BY <1>3, <1>4, <1>5 DEF a

\* A queue is emptied.
LEMMA Emptied ==
  ASSUME NEW m, NEW ts \in Queues, NEW tc, Apart(m, ts, tc),
         NEW s \in Sockets, NEW ns, ns = [ts EXCEPT ![s] = <<>>]
  PROVE  /\ ns \in Queues
         /\ Apart(m, ns, tc)
         /\ \A t \in Sockets : Tokens(ns[t]) \subseteq Tokens(ts[t])
<1>1. ns[s] = <<>> /\ \A t \in Sockets \ {s} : ns[t] = ts[t]
  BY DEF Queues
<1>2. ns \in Queues
  BY DEF Queues
<1>3. QED
  BY <1>1, <1>2, NoTokens DEF Apart

-----------------------------------------------------------------------------
(* The messages that are sent again                                        *)

LEMMA ItemsAreItems ==
  ASSUME TypeOK
  PROVE  /\ Items \subseteq AnyItem /\ Seq(Items) \subseteq Seq(AnyItem)
         /\ messages \in Seq(AnyItem) /\ toServer \in Queues /\ toClient \in Queues
<1>1. Items \subseteq AnyItem
  BY DEF Items, AnyItem, TypeOK
<1>2. Seq(Items) \subseteq Seq(AnyItem)
  BY <1>1
<1>3. QED
  BY <1>1, <1>2 DEF TypeOK, Queues

\* The positions of the messages for one socket, and for two.
LEMMA TurnsInside ==
  ASSUME NEW P \in Nat \ {0}, NEW f \in 1 .. P, NEW stop \in Nat,
         NEW n, n = IF f > stop THEN 0 ELSE (stop - f) \div P + 1
  PROVE  n \in Nat /\ \A j \in 1 .. n : f + (j - 1) * P \in 1 .. stop
<1>1. CASE f > stop
  BY <1>1
<1>2. CASE f <= stop
  <2> DEFINE d == stop - f
             q == d \div P
  <2>1. d \in Nat
    BY <1>2
  <2> HIDE DEF d
  <2>2. q \in Nat /\ q * P <= d
    BY <2>1
  <2>3. n = q + 1
    BY <1>2 DEF d
  <2> HIDE DEF q
  <2>4. ASSUME NEW j \in 1 .. n PROVE f + (j - 1) * P \in 1 .. stop
    <3> DEFINE i == j - 1
    <3>1. i \in 0 .. q
      BY <2>2, <2>3
    <3> HIDE DEF i
    <3>2. i * P <= q * P /\ i * P \in Nat /\ q * P \in Nat
      BY <3>1, <2>2
    <3>3. QED
      BY <3>2, <2>2 DEF i, d
  <2>5. QED
    BY <2>2, <2>3, <2>4
<1>3. QED
  BY <1>1, <1>2

LEMMA TurnsApart ==
  ASSUME NEW P \in Nat \ {0}, NEW f \in 1 .. P, NEW g \in 1 .. P, NEW j \in Nat, NEW k \in Nat,
         f + j * P = g + k * P
  PROVE  f = g /\ j = k
<1>1. j * P \in Nat /\ k * P \in Nat
  OBVIOUS
<1>2. ~(j < k)
  <2>1. j < k => j * P + P <= k * P
    OBVIOUS
  <2>2. QED
    BY <2>1, <1>1
<1>3. ~(k < j)
  <2>1. k < j => k * P + P <= j * P
    OBVIOUS
  <2>2. QED
    BY <2>1, <1>1
<1>4. QED
  BY <1>1, <1>2, <1>3

LEMMA FirstTurn ==
  ASSUME TypeOK, NEW s, InPool(s)
  PROVE  First(s) \in 1 .. PoolSize /\ Turn(First(s)) = s
<1>1. PICK i \in 1 .. PoolSize : pool[i] = s
  BY DEF InPool
<1>2. index \in 0 .. PoolSize - 1 /\ PoolSize \in Nat \ {0}
  BY PoolAssumption DEF TypeOK
<1> DEFINE k == IF i - 1 >= index THEN i - index ELSE i - index + PoolSize
<1>3. k \in 1 .. PoolSize
  BY <1>2
<1>4. ((index + k - 1) % PoolSize) + 1 = i
  <2>1. CASE i - 1 >= index
    <3>1. index + k - 1 = i - 1 /\ i - 1 \in 0 .. PoolSize - 1
      BY <1>2, <2>1
    <3>2. (i - 1) % PoolSize = i - 1
      BY <3>1, <1>2
    <3>3. QED
      BY <3>1, <3>2
  <2>2. CASE i - 1 < index
    <3>1. index + k - 1 = (i - 1) + PoolSize /\ i - 1 \in 0 .. PoolSize - 1
      BY <1>2, <2>2
    <3>2. ((i - 1) + PoolSize) % PoolSize = i - 1
      BY <3>1, <1>2
    <3>3. QED
      BY <3>1, <3>2
  <2>3. QED
    BY <2>1, <2>2, <1>2
<1>5. Turn(k) = s
  BY <1>1, <1>4 DEF Turn
<1> HIDE DEF k
<1>6. QED
  BY <1>3, <1>5 DEF First

LEMMA FirstApart ==
  ASSUME TypeOK, NEW s, NEW t, InPool(s), InPool(t), First(s) = First(t)
  PROVE  s = t
BY FirstTurn

\* What Share is.
LEMMA ShareIs ==
  ASSUME TypeOK, NEW s, InPool(s), NEW stop \in 0 .. Len(messages)
  PROVE  \E n \in Nat :
           /\ DOMAIN Share(s, stop) = 1 .. n
           /\ Share(s, stop) \in Seq(Items)
           /\ \A j \in 1 .. n : /\ Share(s, stop)[j] = messages[First(s) + (j - 1) * PoolSize]
                                /\ First(s) + (j - 1) * PoolSize \in 1 .. stop
<1> DEFINE f == First(s)
           n == IF f > stop THEN 0 ELSE (stop - f) \div PoolSize + 1
           sh == [j \in 1 .. n |-> messages[f + (j - 1) * PoolSize]]
<1>1. Share(s, stop) = sh
  BY DEF Share
<1>2. f \in 1 .. PoolSize /\ PoolSize \in Nat \ {0} /\ stop \in Nat
  BY FirstTurn, PoolAssumption, SMTT(60) DEF TypeOK
<1> HIDE DEF f
<1>3. n \in Nat /\ \A j \in 1 .. n : f + (j - 1) * PoolSize \in 1 .. stop
  BY <1>2, TurnsInside
<1> HIDE DEF n
<1>4. \A k \in 1 .. stop : messages[k] \in Items
  BY ElementOfSeq DEF TypeOK
<1>5. sh \in Seq(Items)
  BY <1>3, <1>4
<1>6. DOMAIN sh = 1 .. n /\ \A j \in 1 .. n : sh[j] = messages[f + (j - 1) * PoolSize]
  OBVIOUS
<1> HIDE DEF sh
<1>7. QED
  BY <1>1, <1>3, <1>5, <1>6 DEF f

LEMMA ShareTokens ==
  ASSUME TypeOK, Distinct(messages), NEW s, InPool(s), NEW stop \in 0 .. Len(messages)
  PROVE  /\ Share(s, stop) \in Seq(Items)
         /\ Tokens(Share(s, stop)) \subseteq {Token(messages[k]) : k \in 1 .. stop}
         /\ Distinct(Share(s, stop))
<1>1. PICK n \in Nat :
           /\ DOMAIN Share(s, stop) = 1 .. n
           /\ Share(s, stop) \in Seq(Items)
           /\ \A j \in 1 .. n : /\ Share(s, stop)[j] = messages[First(s) + (j - 1) * PoolSize]
                                /\ First(s) + (j - 1) * PoolSize \in 1 .. stop
  BY ShareIs
<1>2. Tokens(Share(s, stop)) \subseteq {Token(messages[k]) : k \in 1 .. stop}
  BY <1>1 DEF Tokens
<1>3. ASSUME NEW j \in 1 .. n, NEW k \in 1 .. n,
             Token(Share(s, stop)[j]) = Token(Share(s, stop)[k])
      PROVE  j = k
  <2>1. First(s) + (j - 1) * PoolSize = First(s) + (k - 1) * PoolSize
    <3>1. 1 .. stop \subseteq DOMAIN messages
      BY DEF TypeOK
    <3>2. QED
      BY <1>1, <1>3, <3>1 DEF Distinct
  <2>2. First(s) \in 1 .. PoolSize /\ PoolSize \in Nat \ {0} /\ j - 1 \in Nat /\ k - 1 \in Nat
    BY FirstTurn, PoolAssumption
  <2>3. j - 1 = k - 1
    BY <2>1, <2>2, TurnsApart
  <2>4. QED
    BY <2>3
<1>4. Distinct(Share(s, stop))
  BY <1>1, <1>3 DEF Distinct
<1>5. QED
  BY <1>1, <1>2, <1>4

LEMMA SharesApart ==
  ASSUME TypeOK, Distinct(messages), NEW stop \in 0 .. Len(messages),
         NEW s, NEW t, InPool(s), InPool(t), s # t
  PROVE  Tokens(Share(s, stop)) \cap Tokens(Share(t, stop)) = {}
<1> SUFFICES ASSUME NEW x, x \in Tokens(Share(s, stop)), x \in Tokens(Share(t, stop))
             PROVE  FALSE
  OBVIOUS
<1>1. PICK n \in Nat :
           /\ DOMAIN Share(s, stop) = 1 .. n
           /\ \A j \in 1 .. n : /\ Share(s, stop)[j] = messages[First(s) + (j - 1) * PoolSize]
                                /\ First(s) + (j - 1) * PoolSize \in 1 .. stop
  BY ShareIs
<1>2. PICK m \in Nat :
           /\ DOMAIN Share(t, stop) = 1 .. m
           /\ \A j \in 1 .. m : /\ Share(t, stop)[j] = messages[First(t) + (j - 1) * PoolSize]
                                /\ First(t) + (j - 1) * PoolSize \in 1 .. stop
  BY ShareIs
<1>3. PICK j \in 1 .. n : x = Token(messages[First(s) + (j - 1) * PoolSize])
  BY <1>1 DEF Tokens
<1>4. PICK k \in 1 .. m : x = Token(messages[First(t) + (k - 1) * PoolSize])
  BY <1>2 DEF Tokens
<1>5. First(s) + (j - 1) * PoolSize = First(t) + (k - 1) * PoolSize
  <2>1. 1 .. stop \subseteq DOMAIN messages
    BY DEF TypeOK
  <2>2. QED
    BY <1>1, <1>2, <1>3, <1>4, <2>1, ZenonT(60) DEF Distinct
<1>6. /\ First(s) \in 1 .. PoolSize /\ First(t) \in 1 .. PoolSize /\ PoolSize \in Nat \ {0}
      /\ j - 1 \in Nat /\ k - 1 \in Nat
  BY FirstTurn, PoolAssumption
<1>7. First(s) = First(t)
  BY <1>5, <1>6, TurnsApart
<1>8. QED
  BY <1>7, FirstApart

\* Where the loop of the resend listener stops, and what each socket gets.
LEMMA ResendStops ==
  ASSUME TypeOK, Resend
  PROVE  \E stop \in 0 .. Len(messages) :
           /\ index' = (index + stop) % PoolSize
           /\ messages' = SubSeq(messages, stop + 1, Len(messages))
           /\ toServer' = [s \in Sockets |->
                IF InPool(s) /\ status[s] # "closed" THEN toServer[s] \o Share(s, stop)
                ELSE toServer[s]]
           /\ \E K \in SUBSET (1 .. stop) : lost' = lost \cup OpsIn([k \in K |-> messages[k]])
<1> DEFINE n == Len(messages)
           dead == {k \in 1 .. n : status[Turn(k)] = "closed"}
           stops == {k \in dead : throws /\ \A j \in dead : k <= j}
           stop == IF stops = {} THEN n ELSE CHOOSE k \in stops : TRUE
<1>1. stop \in 0 .. n
  <2>1. n \in Nat
    BY DEF TypeOK
  <2>2. stops # {} => (CHOOSE k \in stops : TRUE) \in stops
    OBVIOUS
  <2>3. stops \subseteq 0 .. n
    OBVIOUS
  <2>4. QED
    BY <2>1, <2>2, <2>3
<1>2. /\ index' = (index + stop) % PoolSize
      /\ messages' = Unsent(stop)
      /\ toServer' = [s \in Sockets |->
           IF InPool(s) /\ status[s] # "closed" THEN toServer[s] \o Share(s, stop) ELSE toServer[s]]
      /\ lost' = lost \cup OpsIn([k \in dead \cap 1 .. stop |-> messages[k]])
  BY Zenon DEF Resend, Advance
<1>3. dead \cap 1 .. stop \in SUBSET (1 .. stop)
  OBVIOUS
<1> HIDE DEF dead, stop
<1>4. QED
  BY <1>1, <1>2, <1>3 DEF Unsent

LEMMA ResendMoves ==
  ASSUME TypeOK, Shape, Apart(messages, toServer, toClient), Resend
  PROVE  /\ index' \in 0 .. PoolSize - 1
         /\ messages' \in Seq(Items) /\ toServer' \in [Sockets -> Seq(Items)]
         /\ lost' \subseteq 1 .. asked
         /\ Apart(messages', toServer', toClient)
         /\ Tokens(messages') \subseteq Tokens(messages)
         /\ \A s \in Sockets : Tokens(toServer'[s]) \subseteq Tokens(toServer[s]) \cup Tokens(messages)
         /\ \A s \in Sockets : status[s] \in {"new", "closed"} => toServer'[s] = toServer[s]
<1>1. PICK stop \in 0 .. Len(messages) :
           /\ index' = (index + stop) % PoolSize
           /\ messages' = SubSeq(messages, stop + 1, Len(messages))
           /\ toServer' = [s \in Sockets |->
                IF InPool(s) /\ status[s] # "closed" THEN toServer[s] \o Share(s, stop)
                ELSE toServer[s]]
           /\ \E K \in SUBSET (1 .. stop) : lost' = lost \cup OpsIn([k \in K |-> messages[k]])
  BY ResendStops
<1>2. /\ Distinct(messages) /\ messages \in Seq(Items) /\ toServer \in [Sockets -> Seq(Items)]
      /\ DOMAIN messages = 1 .. Len(messages) /\ Len(messages) \in Nat
  BY DEF Apart, TypeOK
<1> DEFINE sent == {Token(messages[k]) : k \in 1 .. stop}
           rest == {Token(messages[k]) : k \in stop + 1 .. Len(messages)}
<1>3. /\ sent \cap rest = {}
      /\ sent \subseteq Tokens(messages) /\ rest \subseteq Tokens(messages)
  <2>1. /\ 1 .. stop \subseteq DOMAIN messages /\ stop + 1 .. Len(messages) \subseteq DOMAIN messages
        /\ \A j \in 1 .. stop, k \in stop + 1 .. Len(messages) : j # k
    BY <1>2
  <2>2. \A j \in 1 .. stop, k \in stop + 1 .. Len(messages) : Token(messages[j]) # Token(messages[k])
    BY <2>1, <1>2 DEF Distinct
  <2>3. sent \cap rest = {}
    BY <2>2
  <2>4. sent \subseteq Tokens(messages) /\ rest \subseteq Tokens(messages)
    BY <2>1 DEF Tokens
  <2>5. QED
    BY <2>3, <2>4
<1>4. messages' \in Seq(Items) /\ Tokens(messages') = rest /\ Distinct(messages')
  BY <1>1, <1>2, RestTokens
<1> HIDE DEF sent, rest
<1>5. index' \in 0 .. PoolSize - 1
  <2>1. index + stop \in Nat /\ PoolSize \in Nat \ {0}
    BY PoolAssumption DEF TypeOK
  <2>2. QED
    BY <2>1, <1>1
<1>6. lost' \subseteq 1 .. asked
  <2>1. PICK K \in SUBSET (1 .. stop) : lost' = lost \cup OpsIn([k \in K |-> messages[k]])
    BY <1>1
  <2>2. \A k \in K : messages[k] \in Items
    BY <1>2
  <2>3. OpsIn([k \in K |-> messages[k]]) \subseteq 1 .. asked
    BY <2>2 DEF OpsIn, Items
  <2>4. QED
    BY <2>1, <2>3 DEF TypeOK
<1> DEFINE Gets(s) == InPool(s) /\ status[s] # "closed"
<1>7. \A s \in Sockets : Gets(s) => /\ Share(s, stop) \in Seq(Items)
                                    /\ Tokens(Share(s, stop)) \subseteq sent
                                    /\ Distinct(Share(s, stop))
  BY <1>2, ShareTokens DEF sent
<1>8. \A s, t \in Sockets : Gets(s) /\ Gets(t) /\ s # t
        => Tokens(Share(s, stop)) \cap Tokens(Share(t, stop)) = {}
  BY <1>2, SharesApart
<1> DEFINE More(s) == IF Gets(s) THEN Tokens(Share(s, stop)) ELSE {}
<1>9. \A s \in Sockets : More(s) \subseteq sent
  BY <1>7
<1>10. \A s, t \in Sockets : s # t => More(s) \cap More(t) = {}
  BY <1>8
<1>11. ASSUME NEW s \in Sockets
       PROVE  /\ toServer'[s] \in Seq(Items)
              /\ Tokens(toServer'[s]) = Tokens(toServer[s]) \cup More(s)
              /\ Distinct(toServer'[s])
  <2>1. CASE Gets(s)
    <3>1. toServer'[s] = toServer[s] \o Share(s, stop)
      BY <1>1, <2>1
    <3>2. Distinct(toServer[s]) /\ Tokens(messages) \cap Tokens(toServer[s]) = {}
      BY DEF Apart
    <3>3. Tokens(toServer[s]) \cap Tokens(Share(s, stop)) = {}
      BY <3>2, <1>3, <1>7, <2>1
    <3>4. toServer[s] \in Seq(Items) /\ Share(s, stop) \in Seq(Items)
      BY <1>2, <1>7, <2>1
    <3>5. /\ toServer'[s] \in Seq(Items)
          /\ Tokens(toServer'[s]) = Tokens(toServer[s]) \cup Tokens(Share(s, stop))
          /\ Distinct(toServer'[s])
      BY <3>1, <3>2, <3>3, <3>4, <1>7, <2>1, ConcatTokens
    <3>6. QED
      BY <3>5, <2>1
  <2>2. CASE ~Gets(s)
    <3>1. toServer'[s] = toServer[s]
      BY <1>1, <2>2
    <3>2. QED
      BY <3>1, <2>2, <1>2 DEF Apart
  <2>3. QED
    BY <2>1, <2>2
<1>12. toServer' \in [Sockets -> Seq(Items)]
  BY <1>1, <1>11
<1>13. ASSUME NEW s \in Sockets, status[s] \in {"new", "closed"} PROVE toServer'[s] = toServer[s]
  <2>1. ~Gets(s)
    BY <1>13, PoolAssumption DEF InPool, Shape, TypeOK, Sockets
  <2>2. QED
    BY <1>1, <2>1
<1> HIDE DEF More, Gets
<1>14. Apart(messages', toServer', toClient)
  <2>1. ASSUME NEW s \in Sockets
        PROVE  /\ Tokens(messages') \cap Tokens(toServer'[s]) = {}
               /\ Tokens(messages') \cap Tokens(toClient[s]) = {}
               /\ Distinct(toClient[s])
    <3>1. /\ Tokens(messages) \cap Tokens(toServer[s]) = {}
          /\ Tokens(messages) \cap Tokens(toClient[s]) = {}
          /\ Distinct(toClient[s])
      BY DEF Apart
    <3>2. QED
      BY <3>1, <1>3, <1>4, <1>9, <1>11
  <2>2. ASSUME NEW s \in Sockets, NEW t \in Sockets
        PROVE  /\ Tokens(toServer'[s]) \cap Tokens(toClient[t]) = {}
               /\ s # t => Tokens(toServer'[s]) \cap Tokens(toServer'[t]) = {}
               /\ s # t => Tokens(toClient[s]) \cap Tokens(toClient[t]) = {}
    <3>1. /\ Tokens(toServer[s]) \cap Tokens(toClient[t]) = {}
          /\ Tokens(messages) \cap Tokens(toClient[t]) = {}
          /\ Tokens(messages) \cap Tokens(toServer[s]) = {}
          /\ Tokens(messages) \cap Tokens(toServer[t]) = {}
          /\ s # t => Tokens(toServer[s]) \cap Tokens(toServer[t]) = {}
          /\ s # t => Tokens(toClient[s]) \cap Tokens(toClient[t]) = {}
      BY DEF Apart
    <3>2. QED
      BY <3>1, <1>3, <1>9, <1>10, <1>11
  <2>3. QED
    BY <1>4, <1>11, <2>1, <2>2 DEF Apart
<1>15. \A s \in Sockets : Tokens(toServer'[s]) \subseteq Tokens(toServer[s]) \cup Tokens(messages)
  BY <1>3, <1>9, <1>11
<1>16. QED
  BY <1>3, <1>4, <1>5, <1>6, <1>12, <1>13, <1>14, <1>15

\* The authentication that is replayed, when none is going on.
LEMMA AuthenticateMoves ==
  ASSUME TypeOK, Shape, Apart(messages, toServer, toClient),
         Handshakes(messages, toServer, toClient, {}), Authenticate
  PROVE  /\ messages' \in Seq(Items) /\ toServer' \in [Sockets -> Seq(Items)]
         /\ Apart(messages', toServer', toClient)
         /\ Handshakes(messages', toServer', toClient, authing')
         /\ \A x \in Nat : x \in Tokens(messages') => x \in Tokens(messages)
         /\ \A s \in Sockets, x \in Nat : x \in Tokens(toServer'[s]) => x \in Tokens(toServer[s])
         /\ \A s \in Sockets : status[s] \in {"new", "closed"} => toServer'[s] = toServer[s]
         /\ authing' = {pool[i] : i \in 1 .. PoolSize}
<1> DEFINE shut == {i \in 1 .. PoolSize : status[pool[i]] # "open"}
           open == {pool[i] : i \in 1 .. PoolSize} \ {pool[i] : i \in shut}
<1>1. PICK q \in Ordered(shut) : messages' = messages \o [k \in DOMAIN q |-> Nonce(pool[q[k]])]
  BY DEF Authenticate
<1>2. /\ authing' = {pool[i] : i \in 1 .. PoolSize}
      /\ toServer' = [s \in Sockets |->
           IF InPool(s) /\ status[s] = "open" THEN Append(toServer[s], Nonce(s)) ELSE toServer[s]]
  BY DEF Authenticate
<1>3. /\ pool \in [1 .. PoolSize -> 1 .. made] /\ made \in Nat /\ 1 .. made \subseteq Sockets
      /\ \A i, j \in 1 .. PoolSize : pool[i] = pool[j] => i = j
  BY PoolAssumption DEF TypeOK, Shape, Sockets
<1>4. \A s \in 1 .. made : Nonce(s) \in Items /\ Nonce(s) \in AnyItem /\ Token(Nonce(s)) = -s
  BY <1>3 DEF Nonce, Items, AnyItem, Token
<1> DEFINE nonces == [k \in DOMAIN q |-> Nonce(pool[q[k]])]
<1>5. /\ nonces \in Seq(Items)
      /\ Tokens(nonces) \subseteq {-pool[i] : i \in shut}
      /\ Distinct(nonces)
  <2> DEFINE n == Cardinality(shut)
  <2>1. n \in Nat
    <3>1. IsFiniteSet(1 .. PoolSize)
      BY FS_Interval, PoolAssumption
    <3>2. IsFiniteSet(shut)
      BY <3>1, FS_Subset
    <3>3. QED
      BY <3>2, FS_CardinalityType
  <2>2. /\ q \in [1 .. n -> shut]
        /\ \A j, k \in DOMAIN q : j < k => q[j] < q[k]
    BY DEF Ordered
  <2> HIDE DEF n
  <2>3. \A k \in 1 .. n : q[k] \in shut /\ q[k] \in 1 .. PoolSize /\ pool[q[k]] \in 1 .. made
    BY <2>2, <1>3
  <2> HIDE DEF shut
  <2>4. \A k \in 1 .. n : /\ nonces[k] = Nonce(pool[q[k]])
                          /\ nonces[k] \in Items
                          /\ Token(nonces[k]) = -pool[q[k]]
    BY <2>2, <2>3, <1>4
  <2>5. nonces \in Seq(Items)
    BY <2>1, <2>2, <2>4
  <2>6. \A j, k \in 1 .. n : q[j] = q[k] => j = k
    BY <2>1, <2>2, <2>3
  <2>7. DOMAIN nonces = 1 .. n
    BY <2>2
  <2> HIDE DEF nonces
  <2>8. Tokens(nonces) \subseteq {-pool[i] : i \in shut}
    BY <2>3, <2>4, <2>7 DEF Tokens
  <2>9. Distinct(nonces)
    <3> SUFFICES ASSUME NEW j \in 1 .. n, NEW k \in 1 .. n, Token(nonces[j]) = Token(nonces[k])
                 PROVE  j = k
      BY <2>7 DEF Distinct
    <3>1. pool[q[j]] = pool[q[k]]
      BY <2>3, <2>4, <1>3
    <3>2. QED
      BY <3>1, <2>3, <2>6, <1>3
  <2>10. QED
    BY <2>5, <2>8, <2>9
<1>6. \A x \in Int : x <= 0 => Nowhere(x, messages, toServer, toClient)
  <2>1. \A s \in 1 .. made : Nonce(s) \in AnyItem
    BY <1>4
  <2>2. \A k \in DOMAIN messages : Token(messages[k]) > 0
    <3> SUFFICES ASSUME NEW k \in DOMAIN messages PROVE Token(messages[k]) > 0
      OBVIOUS
    <3>1. messages[k] \in AnyItem
      BY ItemsAreItems, ElementOfSeq
    <3>2. Token(messages[k]) \in Tokens(messages)
      BY DEF Tokens
    <3>3. QED
      BY <3>1, <3>2, TokenOf DEF Handshakes
  <2>3. ASSUME NEW s \in Sockets
        PROVE  /\ \A k \in DOMAIN toServer[s] : Token(toServer[s][k]) > 0
               /\ \A k \in DOMAIN toClient[s] : Token(toClient[s][k]) > 0
    <3>1. ASSUME NEW k \in DOMAIN toServer[s] PROVE Token(toServer[s][k]) > 0
      <4>1. toServer[s][k] \in AnyItem
        BY ItemsAreItems, ElementOfSeq DEF Queues
      <4>2. Token(toServer[s][k]) \in Tokens(toServer[s])
        BY DEF Tokens
      <4>3. QED
        BY <4>1, <4>2, TokenOf DEF Handshakes
    <3>2. ASSUME NEW k \in DOMAIN toClient[s] PROVE Token(toClient[s][k]) > 0
      <4>1. toClient[s][k] \in AnyItem
        BY ItemsAreItems, ElementOfSeq DEF Queues
      <4>2. Token(toClient[s][k]) \in Tokens(toClient[s])
        BY DEF Tokens
      <4>3. QED
        BY <4>1, <4>2, TokenOf DEF Handshakes
    <3>3. QED
      BY <3>1, <3>2
  <2>4. QED
    BY <2>2, <2>3 DEF Nowhere, Tokens
<1> DEFINE Gets(s) == InPool(s) /\ status[s] = "open"
           More(s) == IF Gets(s) THEN {-s} ELSE {}
           T == {-pool[i] : i \in shut}
<1>7. /\ \A s \in Sockets : More(s) \cap T = {}
      /\ \A x \in T : x \in Int /\ x < 0 /\ -x \in authing'
      /\ \A s \in Sockets : \A x \in More(s) : x = -s /\ x \in Int /\ x < 0 /\ s \in authing'
  <2>1. \A i \in shut : pool[i] \in 1 .. made /\ status[pool[i]] # "open" /\ i \in 1 .. PoolSize
    BY <1>3
  <2>2. \A s \in Sockets : Gets(s) => s \in 1 .. made /\ status[s] = "open" /\ s \in authing'
    BY <1>2, <1>3 DEF InPool
  <2>3. Sockets \subseteq Int
    BY DEF Sockets
  <2> HIDE DEF shut, Gets
  <2>4. \A x \in T : x \in Int /\ x < 0 /\ -x \in authing' /\ status[-x] # "open"
    <3> SUFFICES ASSUME NEW i \in shut
                 PROVE  -pool[i] \in Int /\ -pool[i] < 0 /\ -(-pool[i]) \in authing' /\ status[-(-pool[i])] # "open"
      OBVIOUS
    <3>1. -(-pool[i]) = pool[i] /\ pool[i] \in 1 .. made
      BY <2>1, <1>3
    <3>2. QED
      BY <3>1, <2>1, <1>2
  <2> HIDE DEF T
  <2>5. \A s \in Sockets : \A x \in More(s) : x = -s /\ x \in Int /\ x < 0 /\ s \in authing' /\ status[s] = "open"
    BY <2>2, <2>3
  <2>6. \A s \in Sockets : -(-s) = s
    BY <2>3
  <2>7. QED
    BY <2>4, <2>5, <2>6
<1>8. ASSUME NEW s \in Sockets
      PROVE  /\ toServer'[s] \in Seq(Items)
             /\ Tokens(toServer'[s]) = Tokens(toServer[s]) \cup More(s)
             /\ Distinct(toServer'[s])
             /\ status[s] \in {"new", "closed"} => toServer'[s] = toServer[s]
  <2>0. toServer[s] \in Seq(Items) /\ Distinct(toServer[s])
    BY DEF TypeOK, Apart
  <2>1. CASE Gets(s)
    <3>1. s \in 1 .. made
      BY <2>1, <1>3 DEF InPool
    <3>2. Nonce(s) \in Items /\ Token(Nonce(s)) = -s
      BY <3>1, <1>4
    <3>3. Token(Nonce(s)) \notin Tokens(toServer[s])
      BY <3>1, <3>2, <1>3, <1>6 DEF Nowhere
    <3>4. toServer'[s] = Append(toServer[s], Nonce(s))
      BY <1>2, <2>1
    <3>5. QED
      BY <2>0, <2>1, <3>2, <3>3, <3>4, AppendTokens
  <2>2. CASE ~Gets(s)
    BY <1>2, <2>0, <2>2
  <2>3. QED
    BY <2>1, <2>2
<1> HIDE DEF T, nonces
<1>9. /\ messages' \in Seq(Items)
      /\ Tokens(messages') \subseteq Tokens(messages) \cup T
      /\ Distinct(messages')
  <2>1. messages \in Seq(Items) /\ Distinct(messages)
    BY DEF TypeOK, Apart
  <2>2. Tokens(nonces) \subseteq T
    BY <1>5 DEF T
  <2>3. Tokens(messages) \cap Tokens(nonces) = {}
    BY <2>2, <1>6, <1>7 DEF Nowhere
  <2>4. messages' = messages \o nonces
    BY <1>1 DEF nonces
  <2>5. /\ messages' \in Seq(Items)
        /\ Tokens(messages') = Tokens(messages) \cup Tokens(nonces)
        /\ Distinct(messages')
    BY <2>1, <2>3, <2>4, <1>5, ConcatTokens
  <2>6. QED
    BY <2>2, <2>5
<1> HIDE DEF shut, Gets, More
<1>10. \A x \in T : Nowhere(x, messages, toServer, toClient)
  BY <1>6, <1>7
<1>11. \A s \in Sockets : \A x \in More(s) : Nowhere(x, messages, toServer, toClient)
  BY <1>6, <1>7
<1>12. Apart(messages', toServer', toClient)
  <2>1. ASSUME NEW s \in Sockets
        PROVE  /\ Tokens(messages') \cap Tokens(toServer'[s]) = {}
               /\ Tokens(messages') \cap Tokens(toClient[s]) = {}
               /\ Distinct(toClient[s])
    <3>1. /\ Tokens(messages) \cap Tokens(toServer[s]) = {}
          /\ Tokens(messages) \cap Tokens(toClient[s]) = {}
          /\ Distinct(toClient[s])
      BY DEF Apart
    <3>2. \A x \in T : x \notin Tokens(toServer[s]) /\ x \notin Tokens(toClient[s])
      BY <1>10 DEF Nowhere
    <3>3. \A x \in More(s) : x \notin Tokens(messages) /\ x \notin T
      BY <1>11, <1>7 DEF Nowhere
    <3>4. QED
      BY <3>1, <3>2, <3>3, <1>8, <1>9
  <2>2. ASSUME NEW s \in Sockets, NEW t \in Sockets
        PROVE  /\ Tokens(toServer'[s]) \cap Tokens(toClient[t]) = {}
               /\ s # t => Tokens(toServer'[s]) \cap Tokens(toServer'[t]) = {}
               /\ s # t => Tokens(toClient[s]) \cap Tokens(toClient[t]) = {}
    <3>1. /\ Tokens(toServer[s]) \cap Tokens(toClient[t]) = {}
          /\ s # t => Tokens(toServer[s]) \cap Tokens(toServer[t]) = {}
          /\ s # t => Tokens(toClient[s]) \cap Tokens(toClient[t]) = {}
      BY DEF Apart
    <3>2. \A x \in More(s) : x \notin Tokens(toClient[t]) /\ x \notin Tokens(toServer[t])
      BY <1>11 DEF Nowhere
    <3>3. \A x \in More(t) : x \notin Tokens(toServer[s])
      BY <1>11 DEF Nowhere
    <3>4. s # t => More(s) \cap More(t) = {}
      <4>1. s \in Int /\ t \in Int
        BY DEF Sockets
      <4>2. QED
        BY <4>1, <1>7
    <3>5. QED
      BY <3>1, <3>2, <3>3, <3>4, <1>8
  <2>3. QED
    BY <1>8, <1>9, <2>1, <2>2 DEF Apart
<1>13. Handshakes(messages', toServer', toClient, authing')
  <2>1. ASSUME NEW x \in Tokens(messages'), x < 0 PROVE -x \in authing'
    BY <2>1, <1>7, <1>9 DEF Handshakes
  <2>2. ASSUME NEW s \in Sockets, NEW x \in Int, x \in Tokens(toServer'[s]), x < 0
        PROVE  x = -s /\ s \in authing'
    BY <2>2, <1>7, <1>8 DEF Handshakes
  <2>3. ASSUME NEW s \in Sockets, NEW x \in Int, x \in Tokens(toClient[s]), x < 0 PROVE FALSE
    BY <2>3 DEF Handshakes
  <2>4. QED
    BY <2>1, <2>2, <2>3 DEF Handshakes
<1>14. /\ \A x \in Nat : x \in Tokens(messages') => x \in Tokens(messages)
       /\ \A s \in Sockets, x \in Nat : x \in Tokens(toServer'[s]) => x \in Tokens(toServer[s])
  BY <1>7, <1>8, <1>9
<1>15. toServer' \in [Sockets -> Seq(Items)]
  BY <1>2, <1>8
<1>16. QED
  BY <1>2, <1>8, <1>9, <1>12, <1>13, <1>14, <1>15

-----------------------------------------------------------------------------
(* What the steps share                                                    *)

LEMMA ItemsGrow ==
  ASSUME TypeOK, asked' \in Nat, asked' >= asked, made' \in Nat, made' >= made
  PROVE  Items \subseteq Items' /\ Seq(Items) \subseteq Seq(Items')
<1>1. Items \subseteq Items'
  BY DEF Items, TypeOK
<1>2. QED
  BY <1>1

\* The tokens of requests are requests that have been made.
LEMMA RequestTokens ==
  ASSUME TypeOK, NEW x \in Nat
  PROVE  /\ x \in Tokens(messages) => x \in 1 .. asked
         /\ \A s \in Sockets : x \in Tokens(toServer[s]) \cup Tokens(toClient[s]) => x \in 1 .. asked
<1>1. \A i \in Items : Token(i) \in Nat => Token(i) \in 1 .. asked
  BY DEF Items, Token, TypeOK
<1>2. ASSUME NEW q \in Seq(Items), x \in Tokens(q) PROVE x \in 1 .. asked
  <2>1. PICK k \in DOMAIN q : x = Token(q[k])
    BY <1>2 DEF Tokens
  <2>2. q[k] \in Items
    BY ElementOfSeq
  <2>3. QED
    BY <2>1, <2>2, <1>1
<1>3. QED
  BY <1>2 DEF TypeOK

LEMMA NewRequest ==
  ASSUME TypeOK
  PROVE  Nowhere(asked + 1, messages, toServer, toClient)
<1>1. asked + 1 \in Nat /\ asked + 1 \notin 1 .. asked
  BY DEF TypeOK
<1>2. QED
  BY <1>1, RequestTokens DEF Nowhere

LEMMA PoolFacts ==
  ASSUME TypeOK, Shape
  PROVE  /\ \A i \in 1 .. PoolSize : pool[i] \in 1 .. made /\ pool[i] \in Sockets
         /\ \A i, j \in 1 .. PoolSize : pool[i] = pool[j] => i = j
         /\ \A s \in Sockets : InPool(s) => s \in 1 .. made /\ status[s] # "new"
         /\ \A k \in Nat \ {0} : InPool(Turn(k)) /\ Turn(k) \in Sockets
         /\ \A k \in Nat : (index + k) % PoolSize \in 0 .. PoolSize - 1
         /\ PoolSize \in Nat \ {0} /\ made \in Nat /\ MaxSockets \in Nat
<1>1. PoolSize \in Nat \ {0} /\ made \in Nat /\ MaxSockets \in Nat /\ index \in Nat
  BY PoolAssumption DEF TypeOK
<1>2. \A i \in 1 .. PoolSize : pool[i] \in 1 .. made /\ pool[i] \in Sockets
  BY <1>1 DEF TypeOK, Sockets
<1>3. \A i, j \in 1 .. PoolSize : pool[i] = pool[j] => i = j
  BY <1>1 DEF Shape
<1>4. \A s \in Sockets : InPool(s) => s \in 1 .. made /\ status[s] # "new"
  BY <1>1, <1>2 DEF Shape, InPool
<1>5. ASSUME NEW k \in Nat \ {0} PROVE InPool(Turn(k)) /\ Turn(k) \in Sockets
  <2>1. index + k - 1 \in Nat
    BY <1>1
  <2>2. ((index + k - 1) % PoolSize) + 1 \in 1 .. PoolSize
    BY <2>1, <1>1
  <2>3. QED
    BY <2>2, <1>2 DEF InPool, Turn
<1>6. ASSUME NEW k \in Nat PROVE (index + k) % PoolSize \in 0 .. PoolSize - 1
  BY <1>1
<1>7. QED
  BY <1>1, <1>2, <1>3, <1>4, <1>5, <1>6

\* Sets of positions in the pool.
LEMMA PositionSets ==
  /\ \A S \in SUBSET (1 .. PoolSize) : IsFiniteSet(S) /\ Cardinality(S) \in 0 .. PoolSize
  /\ \A S \in SUBSET (1 .. PoolSize), T \in SUBSET (1 .. PoolSize) :
       S \subseteq T => Cardinality(S) <= Cardinality(T)
  /\ \A S \in SUBSET (1 .. PoolSize), T \in SUBSET (1 .. PoolSize), i \in 1 .. PoolSize :
       i \in T /\ i \notin S /\ S \subseteq T => Cardinality(S) + 1 <= Cardinality(T)
<1>1. IsFiniteSet(1 .. PoolSize) /\ Cardinality(1 .. PoolSize) = PoolSize
  BY FS_Interval, PoolAssumption
<1>2. \A S \in SUBSET (1 .. PoolSize) : IsFiniteSet(S) /\ Cardinality(S) \in Nat
  BY <1>1, FS_Subset, FS_CardinalityType
<1>3. \A S \in SUBSET (1 .. PoolSize), T \in SUBSET (1 .. PoolSize) :
        S \subseteq T => Cardinality(S) <= Cardinality(T)
  BY <1>2, FS_Subset
<1>4. \A S \in SUBSET (1 .. PoolSize) : Cardinality(S) <= PoolSize
  BY <1>1, FS_Subset
<1>5. ASSUME NEW S \in SUBSET (1 .. PoolSize), NEW T \in SUBSET (1 .. PoolSize), NEW i \in 1 .. PoolSize,
             i \in T, i \notin S, S \subseteq T
      PROVE  Cardinality(S) + 1 <= Cardinality(T)
  <2>1. Cardinality(S \cup {i}) = Cardinality(S) + 1
    BY <1>2, <1>5, FS_AddElement
  <2>2. S \cup {i} \subseteq T /\ S \cup {i} \in SUBSET (1 .. PoolSize)
    BY <1>5
  <2>3. QED
    BY <2>1, <2>2, <1>3
<1>6. QED
  BY <1>2, <1>3, <1>4, <1>5, PoolAssumption

-----------------------------------------------------------------------------
(* The initial states                                                      *)

LEMMA InitIInv == Init => IInv
<1> SUFFICES ASSUME Init PROVE IInv
  OBVIOUS
<1>1. \A S : <<>> \in Seq(S)
  OBVIOUS
<1>2. TypeOK
  <2>1. /\ pool \in [1 .. PoolSize -> 1 .. made] /\ made \in 0 .. MaxSockets
        /\ connectedTo \in 0 .. PoolSize /\ errors \in 0 .. PoolSize
    BY PoolAssumption DEF Init
  <2>2. /\ {autoReconnect, auths, throws, reconnecting, settingUp} \subseteq BOOLEAN
        /\ index \in 0 .. PoolSize - 1
        /\ authing \subseteq 1 .. made /\ authed \subseteq 1 .. made /\ lost \subseteq 1 .. asked
    BY DEF Init
  <2>3. /\ asked \in 0 .. MaxRequests
        /\ answered \in [Requests -> Nat] /\ executed \in [Requests -> Nat]
        /\ status \in [Sockets -> {"new", "opening", "open", "closed"}]
    BY PoolAssumption DEF Init
  <2>4. messages \in Seq(Items) /\ {toServer, toClient} \subseteq [Sockets -> Seq(Items)]
    BY <1>1 DEF Init
  <2>5. \A s \in Sockets : toServer[s] = <<>> /\ toClient[s] = <<>>
    BY DEF Init
  <2>6. QED
    BY <2>1, <2>2, <2>3, <2>4, <2>5 DEF TypeOK
<1>3. Shape
  BY PoolAssumption DEF Init, Shape, Sockets
<1>4. Apart(messages, toServer, toClient)
  BY NoTokens DEF Init, Apart
<1>5. Handshakes(messages, toServer, toClient, authing)
  BY NoTokens DEF Init, Handshakes
<1>6. Authorised(toClient, authed)
  BY DEF Init, Authorised
<1>7. Admitted
  BY DEF Init, Admitted
<1>8. Counts
  BY NoTokens DEF Init, Counts, Fresh
<1>9. ReconnectWhole
  BY DEF Init, ReconnectWhole, InPool
<1>10. QED
  BY <1>2, <1>3, <1>4, <1>5, <1>6, <1>7, <1>8, <1>9 DEF IInv, Counted, Init

-----------------------------------------------------------------------------
(* The steps                                                               *)

LEMMA ConnectsStep ==
  ASSUME IInv, NEW s \in Sockets, Connects(s)
  PROVE  IInv'
<1> USE DEF IInv
<1>1. TypeOK /\ Shape
  OBVIOUS
<1>2. /\ status[s] = "opening"
      /\ status' = [status EXCEPT ![s] = "open"]
      /\ connectedTo' = Count(connectedTo, s)
      /\ UNCHANGED <<autoReconnect, auths, throws, pool, index, messages, reconnecting, settingUp,
                     errors, authing, made, asked, answered, executed, lost, authed, toServer, toClient>>
  BY DEF Connects, config, caller
<1>3. Counted' /\ connectedTo' \in 0 .. PoolSize
  <2>1. CASE InPool(s) /\ settingUp
    <3>1. PICK i \in 1 .. PoolSize : pool[i] = s
      BY <2>1 DEF InPool
    <3>2. i \notin Reached /\ i \in Reached' /\ Reached \subseteq Reached' /\ Failed \subseteq Failed'
      BY <1>1, <1>2, <3>1, PoolFacts DEF Reached, Failed, TypeOK
    <3>3. Reached' \in SUBSET (1 .. PoolSize) /\ Reached \in SUBSET (1 .. PoolSize)
          /\ Failed' \in SUBSET (1 .. PoolSize) /\ Failed \in SUBSET (1 .. PoolSize)
      BY DEF Reached, Failed
    <3>4. /\ Cardinality(Reached) + 1 <= Cardinality(Reached')
          /\ Cardinality(Failed) <= Cardinality(Failed')
          /\ Cardinality(Reached') \in 0 .. PoolSize /\ Cardinality(Reached) \in 0 .. PoolSize
          /\ Cardinality(Failed') \in 0 .. PoolSize /\ Cardinality(Failed) \in 0 .. PoolSize
      BY <3>2, <3>3, PositionSets
    <3>5. connectedTo' = connectedTo + 1
      BY <1>2, <2>1 DEF Count
    <3>6. connectedTo <= Cardinality(Reached) /\ errors <= Cardinality(Failed)
      BY <2>1 DEF Counted
    <3>7. QED
      BY <1>1, <1>2, <3>4, <3>5, <3>6, PoolAssumption, SMTT(60) DEF Counted, TypeOK
  <2>2. CASE ~(InPool(s) /\ settingUp)
    <3>1. connectedTo' = connectedTo
      BY <1>2, <2>2 DEF Count
    <3>2. settingUp => Reached' = Reached /\ Failed' = Failed
      BY <1>1, <1>2, <2>2, PoolFacts DEF Reached, Failed, InPool, TypeOK
    <3>3. QED
      BY <1>1, <1>2, <3>1, <3>2 DEF Counted, TypeOK
  <2>3. QED
    BY <2>1, <2>2
<1>4. TypeOK'
  <2>1. Items' = Items
    BY <1>2 DEF Items
  <2>2. QED
    BY <1>1, <1>2, <1>3, <2>1 DEF TypeOK
<1>5. Shape'
  BY <1>1, <1>2 DEF Shape, TypeOK
<1>6. /\ Apart(messages', toServer', toClient')
      /\ Handshakes(messages', toServer', toClient', authing')
      /\ Authorised(toClient', authed')
  BY <1>2
<1>7. Admitted'
  BY <1>2 DEF Admitted
<1>8. Counts'
  BY <1>2 DEF Counts, Fresh
<1>9. ReconnectWhole'
  BY <1>1, <1>2, PoolFacts DEF ReconnectWhole, InPool, Admitted
<1>10. QED
  BY <1>3, <1>4, <1>5, <1>6, <1>7, <1>8, <1>9

LEMMA OpsOf ==
  ASSUME TypeOK, NEW q \in Seq(Items)
  PROVE  OpsIn(q) \subseteq 1 .. asked
<1>1. \A k \in DOMAIN q : q[k] \in Items
  BY ElementOfSeq
<1>2. QED
  BY <1>1 DEF OpsIn, Items

LEMMA ClosesStep ==
  ASSUME IInv, NEW s \in Sockets, NEW error \in BOOLEAN, status[s] \in {"opening", "open"},
         Closes(s, error)
  PROVE  IInv'
<1> USE DEF IInv
<1>1. TypeOK /\ Shape
  OBVIOUS
<1>2. /\ status' = [status EXCEPT ![s] = "closed"]
      /\ errors' = IF error THEN Count(errors, s) ELSE errors
      /\ lost' = lost \cup OpsIn(toServer[s]) \cup OpsIn(toClient[s])
      /\ toServer' = [toServer EXCEPT ![s] = <<>>]
      /\ toClient' = [toClient EXCEPT ![s] = <<>>]
      /\ UNCHANGED <<autoReconnect, auths, throws, pool, index, messages, reconnecting, settingUp,
                     connectedTo, authing, made, asked, answered, executed, authed>>
  BY DEF Closes, config, caller
<1>3. Counted' /\ errors' \in 0 .. PoolSize
  <2>1. CASE InPool(s) /\ settingUp
    <3>1. PICK i \in 1 .. PoolSize : pool[i] = s
      BY <2>1 DEF InPool
    <3>2. i \notin Failed /\ i \in Failed' /\ Reached \subseteq Reached' /\ Failed \subseteq Failed'
      BY <1>1, <1>2, <3>1, PoolFacts DEF Reached, Failed, TypeOK
    <3>3. Reached' \in SUBSET (1 .. PoolSize) /\ Reached \in SUBSET (1 .. PoolSize)
          /\ Failed' \in SUBSET (1 .. PoolSize) /\ Failed \in SUBSET (1 .. PoolSize)
      BY DEF Reached, Failed
    <3>4. /\ Cardinality(Reached) <= Cardinality(Reached')
          /\ Cardinality(Failed) + 1 <= Cardinality(Failed')
          /\ Cardinality(Reached') \in 0 .. PoolSize /\ Cardinality(Reached) \in 0 .. PoolSize
          /\ Cardinality(Failed') \in 0 .. PoolSize /\ Cardinality(Failed) \in 0 .. PoolSize
      BY <3>2, <3>3, PositionSets
    <3>5. errors' \in {errors, errors + 1}
      BY <1>2, <2>1 DEF Count
    <3>6. connectedTo <= Cardinality(Reached) /\ errors <= Cardinality(Failed)
      BY <2>1 DEF Counted
    <3>7. connectedTo \in Nat /\ errors \in Nat /\ PoolSize \in Nat
      BY <1>1, PoolAssumption DEF TypeOK
    <3>8. connectedTo <= Cardinality(Reached') /\ errors' <= Cardinality(Failed')
      BY <3>4, <3>5, <3>6, <3>7
    <3>9. errors' \in 0 .. PoolSize
      BY <3>4, <3>5, <3>7, <3>8
    <3>10. QED
      BY <1>2, <3>8, <3>9 DEF Counted
  <2>2. CASE ~(InPool(s) /\ settingUp)
    <3>1. errors' = errors
      BY <1>2, <2>2 DEF Count
    <3>2. settingUp => Reached' = Reached /\ Failed' = Failed
      BY <1>1, <1>2, <2>2, PoolFacts DEF Reached, Failed, InPool, TypeOK
    <3>3. QED
      BY <1>1, <1>2, <3>1, <3>2 DEF Counted, TypeOK
  <2>3. QED
    BY <2>1, <2>2
<1>4. /\ Apart(messages', toServer', toClient')
      /\ \A t \in Sockets : /\ Tokens(toServer'[t]) \subseteq Tokens(toServer[t])
                            /\ Tokens(toClient'[t]) \subseteq Tokens(toClient[t])
  <2>1. /\ Apart(messages, toServer', toClient)
        /\ \A t \in Sockets : Tokens(toServer'[t]) \subseteq Tokens(toServer[t])
    BY <1>1, <1>2, ItemsAreItems, Emptied
  <2>2. /\ Apart(messages, toClient', toServer')
        /\ \A t \in Sockets : Tokens(toClient'[t]) \subseteq Tokens(toClient[t])
    <3>1. Apart(messages, toClient, toServer')
      BY <2>1, QueuesSwap
    <3>2. QED
      BY <3>1, <1>1, <1>2, ItemsAreItems, Emptied
  <2>3. QED
    BY <1>2, <2>1, <2>2, QueuesSwap
<1>5. TypeOK'
  <2>1. Items' = Items
    BY <1>2 DEF Items
  <2>2. lost' \subseteq 1 .. asked
    BY <1>1, <1>2, OpsOf DEF TypeOK
  <2>3. \A S : <<>> \in Seq(S)
    OBVIOUS
  <2>4. {toServer', toClient'} \subseteq [Sockets -> Seq(Items)]
    BY <1>1, <1>2, <2>3 DEF TypeOK
  <2>5. \A t \in Sockets : status'[t] \in {"new", "closed"} => toServer'[t] = <<>> /\ toClient'[t] = <<>>
    BY <1>1, <1>2 DEF TypeOK
  <2>6. status' \in [Sockets -> {"new", "opening", "open", "closed"}]
    BY <1>1, <1>2 DEF TypeOK
  <2>7. QED
    BY <1>1, <1>2, <1>3, <2>1, <2>2, <2>4, <2>5, <2>6 DEF TypeOK
<1>6. Shape'
  BY <1>1, <1>2 DEF Shape, TypeOK
<1>7. Handshakes(messages', toServer', toClient', authing')
  BY <1>2, <1>4 DEF Handshakes
<1>8. Authorised(toClient', authed')
  BY <1>1, <1>2 DEF Authorised, TypeOK
<1>9. Admitted'
  BY <1>2 DEF Admitted
<1>10. Counts'
  BY <1>2, <1>4 DEF Counts, Fresh
<1>11. ReconnectWhole'
  BY <1>1, <1>2 DEF ReconnectWhole, InPool, TypeOK
<1>12. QED
  BY <1>3, <1>4, <1>5, <1>6, <1>7, <1>8, <1>9, <1>10, <1>11

LEMMA ServeStep ==
  ASSUME IInv, NEW s \in Sockets, Serve(s)
  PROVE  IInv'
<1> USE DEF IInv
<1>a. PICK item : item = Head(toServer[s])
  OBVIOUS
<1>b. PICK x : x = Token(item)
  OBVIOUS
<1> DEFINE runs == item.kind = "op" /\ (auths => s \in authed)
<1>1. TypeOK /\ Shape
  OBVIOUS
<1>2. /\ status[s] = "open"
      /\ toServer[s] # <<>>
      /\ toServer' = [toServer EXCEPT ![s] = Tail(@)]
      /\ toClient' = [toClient EXCEPT ![s] = Append(@, item)]
      /\ authed' = IF item.kind = "auth" THEN authed \cup {s} ELSE authed
      /\ executed' = IF runs THEN [executed EXCEPT ![item.id] = @ + 1] ELSE executed
      /\ UNCHANGED <<autoReconnect, auths, throws, pool, index, messages, reconnecting, settingUp,
                     connectedTo, errors, authing, status, made, asked, answered, lost>>
  BY <1>a DEF Serve, config, setup, sockets, caller
<1>3. /\ item \in Items /\ item \in AnyItem
      /\ x \in Tokens(toServer[s]) /\ x \in Int
      /\ item.kind = "op" => item.id = x /\ x \in 1 .. asked
      /\ s \in 1 .. made
  <2>1. toServer[s] \in Seq(Items)
    BY <1>1 DEF TypeOK
  <2>2. item \in Items /\ x \in Tokens(toServer[s])
    BY <1>a, <1>b, <1>2, <2>1, TailTokens
  <2>3. item \in AnyItem
    BY <1>1, <2>2, ItemsAreItems
  <2>4. s \in 1 .. made
    BY <1>1, <1>2 DEF Shape, TypeOK, Sockets
  <2>5. QED
    BY <1>b, <1>1, <2>2, <2>3, <2>4, TokenOf, RequestTokens
<1>4. /\ Apart(messages', toServer', toClient')
      /\ x \notin Tokens(messages')
      /\ \A t \in Sockets : /\ Tokens(toServer'[t]) \subseteq Tokens(toServer[t])
                            /\ x \notin Tokens(toServer'[t])
                            /\ t # s => toClient'[t] = toClient[t]
      /\ Tokens(toClient'[s]) = Tokens(toClient[s]) \cup {x}
  <2>1. /\ toServer' \in Queues /\ Apart(messages, toServer', toClient)
        /\ Nowhere(x, messages, toServer', toClient)
        /\ \A t \in Sockets : Tokens(toServer'[t]) \subseteq Tokens(toServer[t])
    <3>1. Shifted(toServer', messages, toServer, toClient, s)
      BY <1>1, <1>2, ItemsAreItems DEF Shifted
    <3>2. QED
      BY <3>1, <1>a, <1>b, Dropped
  <2>2. Apart(messages, toClient, toServer') /\ Nowhere(x, messages, toClient, toServer')
    BY <2>1, QueuesSwap
  <2>3. /\ Apart(messages, toClient', toServer')
        /\ Tokens(toClient'[s]) = Tokens(toClient[s]) \cup {x}
        /\ \A t \in Sockets \ {s} : toClient'[t] = toClient[t]
    <3>1. toClient \in Queues /\ Nowhere(Token(item), messages, toClient, toServer')
      BY <1>b, <1>1, <2>2, ItemsAreItems
    <3>2. QED
      <4>1. Pushed(toClient', messages, toClient, toServer', s, item)
        BY <1>2, <1>3, <2>2, <3>1 DEF Pushed
      <4>2. QED
        BY <1>b, <4>1, Appended
  <2>4. QED
    <3>1. Apart(messages, toServer', toClient')
      BY <2>3, QueuesSwap
    <3>2. QED
      BY <1>2, <2>1, <2>3, <3>1 DEF Nowhere
<1>5. Authorised(toClient', authed')
  <2>1. ASSUME NEW t \in Sockets, NEW k \in DOMAIN toClient'[t], toClient'[t][k].kind = "auth"
        PROVE  t \in authed'
    <3>1. authed \subseteq authed'
      BY <1>2
    <3>2. CASE t # s
      BY <3>1, <3>2, <1>4, <2>1 DEF Authorised
    <3>3. CASE t = s /\ k \in DOMAIN toClient[s]
      <4>1. toClient[s] \in Seq(Items) /\ toClient'[s] = Append(toClient[s], item)
        BY <1>1, <1>2 DEF TypeOK
      <4>2. toClient'[s][k] = toClient[s][k]
        BY <4>1, <3>3, <1>3, AppendProperties
      <4>3. QED
        BY <3>1, <3>3, <4>2, <2>1 DEF Authorised
    <3>4. CASE t = s /\ k \notin DOMAIN toClient[s]
      <4>1. toClient[s] \in Seq(Items) /\ toClient'[s] = Append(toClient[s], item)
        BY <1>1, <1>2 DEF TypeOK
      <4>2. toClient'[s][k] = item
        BY <4>1, <3>4, <1>3, <2>1, AppendProperties
      <4>3. QED
        BY <3>4, <4>2, <2>1, <1>2
    <3>5. QED
      BY <3>2, <3>3, <3>4
  <2>2. QED
    BY <2>1 DEF Authorised
<1>6. Handshakes(messages', toServer', toClient', authing')
  BY <1>2, <1>3, <1>4, ZenonT(60) DEF Handshakes
<1>7. Counts'
  <2>1. ASSUME NEW r \in Requests
        PROVE  /\ executed'[r] # executed[r] => r = x /\ executed[r] = 0 /\ executed'[r] = 1
               /\ answered'[r] = answered[r]
    <3>1. item.kind = "op" => Fresh(item.id) /\ item.id = x /\ item.id \in Requests
      <4>1. item.kind = "op" => item.id = x /\ item.id \in Requests
        BY <1>1, <1>3, PoolAssumption DEF TypeOK, Requests
      <4>2. QED
        BY <4>1, <1>3 DEF Counts
    <3>2. QED
      BY <1>1, <1>2, <3>1 DEF Fresh, TypeOK
  <2>2. Requests \subseteq Nat
    BY DEF Requests
  <2>3. \A r \in Requests : r = x => r \in Tokens(toServer[s])
    BY <1>3
  <2>4. ASSUME NEW r \in Requests
        PROVE  /\ r > asked' => Fresh(r)'
               /\ r \in Tokens(messages') => Fresh(r)'
               /\ \A t \in Sockets : r \in Tokens(toServer'[t]) => Fresh(r)'
               /\ \A t \in Sockets : r \in Tokens(toClient'[t]) => answered'[r] = 0
               /\ executed'[r] <= 1 /\ answered'[r] <= 1
    <3>1. CASE r = x
      <4>1. r \in Tokens(toServer[s]) /\ r \in Nat
        BY <3>1, <1>3, <2>2
      <4>2. r \in 1 .. asked /\ Fresh(r)
        BY <4>1, <1>1, RequestTokens DEF Counts
      <4>3. r <= asked' /\ answered'[r] = 0 /\ executed'[r] <= 1
        BY <4>1, <4>2, <1>2, <2>1 DEF Fresh
      <4>4. QED
        <5>1. ~(r > asked')
          BY <4>2, <1>1, <1>2 DEF TypeOK
        <5>2. r \notin Tokens(messages') /\ \A t \in Sockets : r \notin Tokens(toServer'[t])
          BY <3>1, <1>4
        <5>3. QED
          BY <5>1, <5>2, <4>3
    <3>2. CASE r # x
      <4>1. executed'[r] = executed[r] /\ answered'[r] = answered[r]
        BY <2>1, <3>2
      <4>2. /\ r \in Tokens(messages') => r \in Tokens(messages)
            /\ \A t \in Sockets : r \in Tokens(toServer'[t]) => r \in Tokens(toServer[t])
            /\ \A t \in Sockets : r \in Tokens(toClient'[t]) => r \in Tokens(toClient[t])
        BY <1>2, <1>4, <3>2
      <4>3. QED
        BY <4>1, <4>2, <1>2 DEF Counts, Fresh
    <3>3. QED
      BY <3>1, <3>2
  <2>5. QED
    BY <2>4 DEF Counts
<1>8. TypeOK'
  <2>1. Items' = Items
    BY <1>2 DEF Items
  <2>2. executed' \in [Requests -> Nat]
    <3>1. executed \in [Requests -> Nat]
      BY <1>1 DEF TypeOK
    <3>2. CASE ~runs
      BY <1>2, <3>1, <3>2
    <3>3. CASE runs
      <4>1. item.id \in Requests /\ executed' = [executed EXCEPT ![item.id] = @ + 1]
        BY <1>1, <1>2, <1>3, <3>3, PoolAssumption DEF TypeOK, Requests
      <4>2. QED
        BY <3>1, <4>1
    <3>4. QED
      BY <3>2, <3>3
  <2>3. authed' \subseteq 1 .. made
    BY <1>1, <1>2, <1>3 DEF TypeOK
  <2>4. toServer' \in [Sockets -> Seq(Items)]
    <3>1. toServer[s] \in Seq(Items) /\ toServer \in [Sockets -> Seq(Items)]
      BY <1>1 DEF TypeOK
    <3>2. Tail(toServer[s]) \in Seq(Items)
      BY <3>1, <1>2
    <3>3. QED
      BY <3>1, <3>2, <1>2
  <2>5. toClient' \in [Sockets -> Seq(Items)]
    <3>1. toClient[s] \in Seq(Items) /\ toClient \in [Sockets -> Seq(Items)]
      BY <1>1 DEF TypeOK
    <3>2. Append(toClient[s], item) \in Seq(Items)
      BY <3>1, <1>3
    <3>3. QED
      BY <3>1, <3>2, <1>2
  <2>6. \A t \in Sockets : status'[t] \in {"new", "closed"} => toServer'[t] = <<>> /\ toClient'[t] = <<>>
    BY <1>1, <1>2 DEF TypeOK
  <2>7. QED
    BY <1>1, <1>2, <2>1, <2>2, <2>3, <2>4, <2>5, <2>6 DEF TypeOK
<1>9. Shape'
  BY <1>1, <1>2 DEF Shape, TypeOK
<1>10. authed \subseteq authed'
  BY <1>2
<1>11. Counted' /\ Admitted'
  BY <1>2, <1>10 DEF Counted, Admitted, Reached, Failed
<1>12. ReconnectWhole'
  BY <1>2, <1>10 DEF ReconnectWhole, InPool
<1>13. QED
  BY <1>4, <1>5, <1>6, <1>7, <1>8, <1>9, <1>11, <1>12

\* A reply is taken: what the queues then are.
LEMMA ReplyGone ==
  ASSUME IInv, NEW s \in Sockets, toClient[s] # <<>>,
         toClient' = [toClient EXCEPT ![s] = Tail(@)]
  PROVE  /\ Reply(s) \in Items /\ Reply(s) \in AnyItem
         /\ Token(Reply(s)) \in Tokens(toClient[s])
         /\ Token(Reply(s)) \in Int
         /\ Reply(s).kind = "op" =>
              /\ Token(Reply(s)) = Reply(s).id
              /\ Reply(s).id \in 1 .. asked /\ Reply(s).id \in Requests
         /\ Reply(s).kind # "op" => Token(Reply(s)) = -s /\ Token(Reply(s)) < 0 /\ s \in authing
         /\ Reply(s).kind = "auth" => s \in authed
         /\ status[s] \notin {"new", "closed"}
         /\ toClient' \in [Sockets -> Seq(Items)] /\ toClient' \in Queues
         /\ Apart(messages, toServer, toClient')
         /\ Nowhere(Token(Reply(s)), messages, toServer, toClient')
         /\ \A t \in Sockets : Tokens(toClient'[t]) \subseteq Tokens(toClient[t])
         /\ \A a : authed \subseteq a => Authorised(toClient', a)
<1> USE DEF IInv
<1>1. TypeOK /\ Shape
  OBVIOUS
<1>2. PICK item : item = Head(toClient[s])
  OBVIOUS
<1>3. Reply(s) = item
  BY <1>2 DEF Reply
<1>4. /\ toClient[s] \in Seq(Items) /\ toClient \in [Sockets -> Seq(Items)]
      /\ status[s] \notin {"new", "closed"}
  BY <1>1 DEF TypeOK
<1>5. item \in Items /\ Token(item) \in Tokens(toClient[s]) /\ item = toClient[s][1] /\ 1 \in DOMAIN toClient[s]
  <2>1. item \in Items /\ Token(item) \in Tokens(toClient[s])
    BY <1>2, <1>4, TailTokens
  <2>2. item = toClient[s][1] /\ 1 \in DOMAIN toClient[s]
    BY <1>2, <1>4, HeadTailProperties
  <2>3. QED
    BY <2>1, <2>2
<1>6. item \in AnyItem
  BY <1>1, <1>5, ItemsAreItems
<1>7. Token(item) \in Int
  BY <1>6, TokenOf
<1>8. item.kind = "op" => Token(item) = item.id /\ item.id \in 1 .. asked /\ item.id \in Requests
  <2>1. item.kind = "op" => Token(item) = item.id /\ Token(item) \in Nat
    BY <1>6, TokenOf
  <2>2. item.kind = "op" => item.id \in 1 .. asked
    BY <2>1, <1>1, <1>5, RequestTokens
  <2>3. QED
    BY <2>1, <2>2, <1>1, PoolAssumption DEF TypeOK, Requests
<1>9. item.kind # "op" => Token(item) = -s /\ Token(item) < 0 /\ s \in authing
  <2>1. item.kind # "op" => Token(item) < 0
    BY <1>6, TokenOf
  <2>2. QED
    BY <2>1, <1>5, <1>7 DEF Handshakes
<1>10. item.kind = "auth" => s \in authed
  BY <1>5 DEF Authorised
<1>11. Apart(messages, toClient, toServer)
  BY QueuesSwap
<1>12. /\ Apart(messages, toClient', toServer)
       /\ Nowhere(Token(item), messages, toClient', toServer)
       /\ \A t \in Sockets : Tokens(toClient'[t]) \subseteq Tokens(toClient[t])
  <2>1. toClient \in Queues /\ toClient[s] # <<>>
    BY <1>1, ItemsAreItems
  <2>2. Shifted(toClient', messages, toClient, toServer, s)
    BY <1>11, <2>1 DEF Shifted
  <2>3. Apart(messages, toClient', toServer)
    BY <2>2, Dropped
  <2>4. Nowhere(Token(item), messages, toClient', toServer)
    BY <2>2, <1>2, Dropped
  <2>5. \A t \in Sockets : Tokens(toClient'[t]) \subseteq Tokens(toClient[t])
    <3> DEFINE new == toClient'
    <3>1. Shifted(new, messages, toClient, toServer, s)
      BY <2>2
    <3> HIDE DEF new
    <3>2. \A t \in Sockets : Tokens(new[t]) \subseteq Tokens(toClient[t])
      BY Zenon, <3>1, Dropped
    <3>3. QED
      BY <3>2 DEF new
  <2>6. QED
    BY <2>3, <2>4, <2>5
<1>13. Apart(messages, toServer, toClient')
  BY <1>12, QueuesSwap
<1>14. Nowhere(Token(item), messages, toServer, toClient')
  BY <1>12 DEF Nowhere
<1>15. toClient' \in [Sockets -> Seq(Items)]
  <2>1. Tail(toClient[s]) \in Seq(Items)
    BY <1>4
  <2>2. QED
    BY <2>1, <1>4
<1>16. toClient' \in Queues
  BY <1>15, <1>1, ItemsAreItems DEF Queues
<1>17. ASSUME NEW a, authed \subseteq a PROVE Authorised(toClient', a)
  <2>1. ASSUME NEW t \in Sockets, NEW k \in DOMAIN toClient'[t], toClient'[t][k].kind = "auth"
        PROVE  t \in a
    <3>1. CASE t # s
      BY <3>1, <2>1, <1>4, <1>17 DEF Authorised
    <3>2. CASE t = s
      <4>1. toClient'[s] = Tail(toClient[s])
        BY <1>4
      <4>2. PICK j \in DOMAIN toClient[s] : toClient'[s][k] = toClient[s][j]
        BY <4>1, <3>2, <2>1, <1>4, TailTokens
      <4>3. QED
        BY <4>2, <3>2, <2>1, <1>17 DEF Authorised
    <3>3. QED
      BY <3>1, <3>2
  <2>2. QED
    BY <2>1 DEF Authorised
<1>18. QED
  BY <1>3, <1>4, <1>5, <1>6, <1>7, <1>8, <1>9, <1>10, <1>12, <1>13, <1>14, <1>15, <1>16, <1>17

LEMMA ReceiveOpStep ==
  ASSUME IInv, NEW s \in Sockets, ReceiveOp(s)
  PROVE  IInv'
<1> USE DEF IInv
<1>1. TypeOK /\ Shape
  OBVIOUS
<1>a. PICK item : item = Reply(s)
  OBVIOUS
<1>b. PICK x : x = Token(item)
  OBVIOUS
<1>2. /\ toClient[s] # <<>> /\ InPool(s) /\ item.kind = "op"
      /\ toClient' = [toClient EXCEPT ![s] = Tail(@)]
      /\ answered' = [answered EXCEPT ![item.id] = @ + 1]
      /\ UNCHANGED <<autoReconnect, auths, throws, pool, index, messages, reconnecting, settingUp,
                     connectedTo, errors, authing, status, made, asked, executed, lost, authed, toServer>>
  BY <1>a DEF ReceiveOp, Receive, config, setup, sockets
<1>3. /\ x = item.id /\ x \in 1 .. asked /\ x \in Requests /\ x \in Tokens(toClient[s])
      /\ toClient' \in [Sockets -> Seq(Items)]
      /\ Apart(messages, toServer, toClient')
      /\ Nowhere(x, messages, toServer, toClient')
      /\ \A t \in Sockets : Tokens(toClient'[t]) \subseteq Tokens(toClient[t])
      /\ \A a : authed \subseteq a => Authorised(toClient', a)
      /\ status[s] \notin {"new", "closed"}
  BY <1>a, <1>b, <1>2, ReplyGone
<1>4. Counts'
  <2>1. answered[x] = 0 /\ executed[x] <= 1
    BY <1>3 DEF Counts
  <2>2. answered'[x] = 1 /\ \A r \in Requests : r # x => answered'[r] = answered[r]
    BY <1>1, <1>2, <1>3, <2>1 DEF TypeOK
  <2>3. ASSUME NEW r \in Requests
        PROVE  /\ r > asked' => Fresh(r)'
               /\ r \in Tokens(messages') => Fresh(r)'
               /\ \A t \in Sockets : r \in Tokens(toServer'[t]) => Fresh(r)'
               /\ \A t \in Sockets : r \in Tokens(toClient'[t]) => answered'[r] = 0
               /\ executed'[r] <= 1 /\ answered'[r] <= 1
    <3>1. CASE r = x
      <4>1. ~(r > asked')
        BY <3>1, <1>1, <1>2, <1>3 DEF TypeOK
      <4>2. Nowhere(r, messages', toServer', toClient')
        BY <3>1, <1>2, <1>3
      <4>3. QED
        BY <3>1, <4>1, <4>2, <2>1, <2>2, <1>2 DEF Nowhere
    <3>2. CASE r # x
      <4>1. answered'[r] = answered[r] /\ executed'[r] = executed[r]
        BY <2>2, <3>2, <1>2
      <4>2. \A t \in Sockets : r \in Tokens(toClient'[t]) => r \in Tokens(toClient[t])
        BY <1>3
      <4>3. QED
        BY <4>1, <4>2, <1>2 DEF Counts, Fresh
    <3>3. QED
      BY <3>1, <3>2
  <2>4. QED
    BY <2>3 DEF Counts
<1>5. TypeOK'
  <2>1. Items' = Items
    BY <1>2 DEF Items
  <2>2. answered' \in [Requests -> Nat]
    BY <1>1, <1>2, <1>3 DEF TypeOK
  <2>3. \A t \in Sockets : status'[t] \in {"new", "closed"} => toServer'[t] = <<>> /\ toClient'[t] = <<>>
    BY <1>1, <1>2, <1>3 DEF TypeOK
  <2>4. QED
    BY <1>1, <1>2, <1>3, <2>1, <2>2, <2>3, ZenonT(60) DEF TypeOK
<1>6. Shape' /\ Counted' /\ Admitted' /\ ReconnectWhole'
  BY <1>2 DEF Shape, Counted, Admitted, ReconnectWhole, Reached, Failed, InPool
<1>7. Handshakes(messages', toServer', toClient', authing')
  BY <1>2, <1>3 DEF Handshakes
<1>8. Apart(messages', toServer', toClient') /\ Authorised(toClient', authed')
  BY <1>2, <1>3
<1>9. QED
  BY <1>4, <1>5, <1>6, <1>7, <1>8

LEMMA DropReplyStep ==
  ASSUME IInv, NEW s \in Sockets, DropReply(s)
  PROVE  IInv'
<1> USE DEF IInv
<1>1. TypeOK /\ Shape
  OBVIOUS
<1>2. /\ toClient[s] # <<>>
      /\ toClient' = [toClient EXCEPT ![s] = Tail(@)]
      /\ lost' = lost \cup OpsIn(<<Reply(s)>>)
      /\ UNCHANGED <<autoReconnect, auths, throws, pool, index, messages, reconnecting, settingUp,
                     connectedTo, errors, authing, status, made, asked, answered, executed, authed, toServer>>
  BY DEF DropReply, config, setup, sockets, caller
<1>3. /\ Reply(s) \in Items
      /\ toClient' \in [Sockets -> Seq(Items)]
      /\ Apart(messages, toServer, toClient')
      /\ \A t \in Sockets : Tokens(toClient'[t]) \subseteq Tokens(toClient[t])
      /\ \A a : authed \subseteq a => Authorised(toClient', a)
      /\ status[s] \notin {"new", "closed"}
  BY <1>2, ReplyGone
<1>4. Counts'
  BY <1>2, <1>3 DEF Counts, Fresh
<1>5. TypeOK'
  <2>1. Items' = Items
    BY <1>2 DEF Items
  <2>2. lost' \subseteq 1 .. asked
    <3>1. <<Reply(s)>> \in Seq(Items)
      BY <1>3
    <3>2. QED
      BY <3>1, <1>1, <1>2, OpsOf DEF TypeOK
  <2>3. \A t \in Sockets : status'[t] \in {"new", "closed"} => toServer'[t] = <<>> /\ toClient'[t] = <<>>
    BY <1>1, <1>2, <1>3 DEF TypeOK
  <2>4. QED
    BY <1>1, <1>2, <1>3, <2>1, <2>2, <2>3 DEF TypeOK
<1>6. Shape' /\ Counted' /\ Admitted' /\ ReconnectWhole'
  BY <1>2 DEF Shape, Counted, Admitted, ReconnectWhole, Reached, Failed, InPool
<1>7. Handshakes(messages', toServer', toClient', authing')
  BY <1>2, <1>3 DEF Handshakes
<1>8. Apart(messages', toServer', toClient') /\ Authorised(toClient', authed')
  BY <1>2, <1>3
<1>9. QED
  BY <1>4, <1>5, <1>6, <1>7, <1>8

LEMMA ReceiveNonceStep ==
  ASSUME IInv, NEW s \in Sockets, ReceiveNonce(s)
  PROVE  IInv'
<1> USE DEF IInv
<1>1. TypeOK /\ Shape
  OBVIOUS
<1>a. PICK item : item = Auth(s)
  OBVIOUS
<1>2. /\ toClient[s] # <<>> /\ InPool(s) /\ Reply(s).kind = "nonce"
      /\ toClient' = [toClient EXCEPT ![s] = Tail(@)]
      /\ toServer' = [toServer EXCEPT ![s] = Append(@, item)]
      /\ UNCHANGED <<autoReconnect, auths, throws, pool, index, messages, reconnecting, settingUp,
                     connectedTo, errors, authing, status, made, asked, answered, executed, lost, authed>>
  BY <1>a DEF ReceiveNonce, Receive, Write, config, setup, sockets
<1>3. /\ Token(Reply(s)) = -s /\ s \in authing
      /\ toClient' \in [Sockets -> Seq(Items)] /\ toClient' \in Queues
      /\ Apart(messages, toServer, toClient')
      /\ Nowhere(-s, messages, toServer, toClient')
      /\ \A t \in Sockets : Tokens(toClient'[t]) \subseteq Tokens(toClient[t])
      /\ \A a : authed \subseteq a => Authorised(toClient', a)
      /\ status[s] \notin {"new", "closed"}
  <2>1. Reply(s).kind # "op"
    BY <1>2
  <2>2. QED
    BY <1>2, <2>1, ReplyGone
<1>4. item \in Items /\ item \in AnyItem /\ Token(item) = -s /\ s \in 1 .. made
  <2>1. s \in 1 .. made
    BY <1>1, <1>3 DEF TypeOK
  <2>2. item \in Items /\ Token(item) = -s
    BY <1>a, <2>1 DEF Auth, Items, Token
  <2>3. QED
    BY <1>1, <2>1, <2>2, ItemsAreItems
<1>5. Apart(messages, toServer', toClient')
  <2>1. Nowhere(Token(item), messages, toServer, toClient')
    BY <1>3, <1>4
  <2>2. toServer \in Queues
    BY <1>1, ItemsAreItems
  <2>3. Pushed(toServer', messages, toServer, toClient', s, item)
    BY <1>2, <1>3, <1>4, <2>1, <2>2 DEF Pushed
  <2>4. QED
    BY <2>3, Appended
<1>6. /\ Tokens(toServer'[s]) = Tokens(toServer[s]) \cup {-s}
      /\ \A t \in Sockets \ {s} : toServer'[t] = toServer[t]
  <2>1. Nowhere(Token(item), messages, toServer, toClient')
    BY <1>3, <1>4
  <2>2. /\ Tokens(toServer'[s]) = Tokens(toServer[s]) \cup {Token(item)}
        /\ \A t \in Sockets \ {s} : toServer'[t] = toServer[t]
    <3>1. toServer \in Queues
      BY <1>1, ItemsAreItems
    <3>2. Pushed(toServer', messages, toServer, toClient', s, item)
      BY <1>2, <1>3, <1>4, <2>1, <3>1 DEF Pushed
    <3>3. QED
      BY <3>2, Appended
  <2>3. QED
    BY <2>2, <1>4
<1>7. ASSUME NEW x \in Nat, NEW t \in Sockets, x \in Tokens(toServer'[t]) PROVE x \in Tokens(toServer[t])
  <2>1. x # -s
    BY <1>4, <1>1 DEF TypeOK
  <2>2. QED
    BY <2>1, <1>6, <1>7
<1>8. Counts'
  <2>1. Requests \subseteq Nat
    BY DEF Requests
  <2>2. QED
    BY <1>2, <1>3, <1>7, <2>1 DEF Counts, Fresh
<1>9. TypeOK'
  <2>1. Items' = Items
    BY <1>2 DEF Items
  <2>2. toServer' \in [Sockets -> Seq(Items)]
    <3>1. toServer \in [Sockets -> Seq(Items)] /\ toServer[s] \in Seq(Items)
      BY <1>1 DEF TypeOK
    <3>2. Append(toServer[s], item) \in Seq(Items)
      BY <3>1, <1>4
    <3>3. QED
      BY <3>1, <3>2, <1>2
  <2>3. \A t \in Sockets : status'[t] \in {"new", "closed"} => toServer'[t] = <<>> /\ toClient'[t] = <<>>
    BY <1>1, <1>2, <1>3 DEF TypeOK
  <2>4. QED
    BY <1>1, <1>2, <1>3, <2>1, <2>2, <2>3 DEF TypeOK
<1>10. Shape' /\ Counted' /\ Admitted' /\ ReconnectWhole'
  BY <1>2 DEF Shape, Counted, Admitted, ReconnectWhole, Reached, Failed, InPool
<1>11. Handshakes(messages', toServer', toClient', authing')
  <2>1. ASSUME NEW t \in Sockets, NEW x \in Int, x \in Tokens(toServer'[t]), x < 0
        PROVE  x = -t /\ t \in authing
    <3>1. CASE t = s /\ x = -s
      BY <3>1, <1>3
    <3>2. CASE ~(t = s /\ x = -s)
      BY <3>2, <2>1, <1>6 DEF Handshakes
    <3>3. QED
      BY <3>1, <3>2
  <2>2. ASSUME NEW t \in Sockets, NEW x \in Int, x \in Tokens(toClient'[t]), x < 0
        PROVE  x = -t /\ t \in authing
    BY <2>2, <1>3 DEF Handshakes
  <2>3. \A x \in Tokens(messages) : x < 0 => -x \in authing
    BY DEF Handshakes
  <2>4. QED
    BY <1>2, <2>1, <2>2, <2>3 DEF Handshakes
<1>12. Apart(messages', toServer', toClient') /\ Authorised(toClient', authed')
  BY <1>2, <1>3, <1>5
<1>13. QED
  BY <1>8, <1>9, <1>10, <1>11, <1>12

LEMMA ReceiveAuthStep ==
  ASSUME IInv, NEW s \in Sockets, ReceiveAuth(s)
  PROVE  IInv'
<1> USE DEF IInv
<1>1. TypeOK /\ Shape
  OBVIOUS
<1>2. /\ toClient[s] # <<>> /\ InPool(s) /\ Reply(s).kind = "auth"
      /\ toClient' = [toClient EXCEPT ![s] = Tail(@)]
      /\ authing' = authing \ {s}
      /\ UNCHANGED <<autoReconnect, auths, throws, pool, settingUp,
                     connectedTo, errors, status, made, asked, answered, executed, authed>>
  BY DEF ReceiveAuth, Receive, config, setup, sockets
<1>3. /\ Token(Reply(s)) = -s /\ s \in authing /\ s \in authed
      /\ toClient' \in [Sockets -> Seq(Items)] /\ toClient' \in Queues
      /\ Apart(messages, toServer, toClient')
      /\ Nowhere(-s, messages, toServer, toClient')
      /\ \A t \in Sockets : Tokens(toClient'[t]) \subseteq Tokens(toClient[t])
      /\ \A a : authed \subseteq a => Authorised(toClient', a)
      /\ status[s] \notin {"new", "closed"}
  <2>1. Reply(s).kind # "op"
    BY <1>2
  <2>2. QED
    BY <1>2, <2>1, ReplyGone
<1>4. ~settingUp /\ reconnecting
  BY <1>3 DEF ReconnectWhole
<1>5. Handshakes(messages, toServer, toClient', authing')
  <2>1. ASSUME NEW x \in Tokens(messages), x < 0 PROVE -x \in authing'
    <3>1. -x \in authing /\ x # -s
      BY <2>1, <1>3 DEF Handshakes, Nowhere
    <3>2. x \in Int /\ s \in Int
      <4>1. \A i \in AnyItem : Token(i) \in Int
        BY TokenOf
      <4>2. messages \in Seq(AnyItem)
        BY <1>1, ItemsAreItems
      <4>3. \A k \in DOMAIN messages : messages[k] \in AnyItem
        BY <4>2, ElementOfSeq
      <4>4. QED
        BY <4>1, <4>3, <2>1 DEF Tokens, Sockets
    <3>3. QED
      BY <3>1, <3>2, <1>2
  <2>2. ASSUME NEW t \in Sockets, NEW x \in Int, x \in Tokens(toServer[t]) \/ x \in Tokens(toClient'[t]), x < 0
        PROVE  x = -t /\ t \in authing'
    <3>1. x = -t /\ t \in authing /\ x # -s
      BY <2>2, <1>3 DEF Handshakes, Nowhere
    <3>2. QED
      BY <3>1, <1>2
  <2>3. QED
    BY <2>1, <2>2 DEF Handshakes
<1>6. Admitted' /\ Shape' /\ Counted'
  BY <1>2, <1>3 DEF Admitted, Shape, Counted, Reached, Failed
<1>7. Authorised(toClient', authed')
  BY <1>2, <1>3
<1>8. /\ Items' = Items
      /\ authing' \subseteq 1 .. made
      /\ {autoReconnect, auths, throws, settingUp}' \subseteq BOOLEAN
  BY <1>1, <1>2 DEF Items, TypeOK
<1>9. CASE AllReturned(authing') /\ Resend
  <2>1. /\ index' \in 0 .. PoolSize - 1
        /\ messages' \in Seq(Items) /\ toServer' \in [Sockets -> Seq(Items)]
        /\ lost' \subseteq 1 .. asked
        /\ Apart(messages', toServer', toClient)
        /\ Tokens(messages') \subseteq Tokens(messages)
        /\ \A t \in Sockets : Tokens(toServer'[t]) \subseteq Tokens(toServer[t]) \cup Tokens(messages)
        /\ \A t \in Sockets : status[t] \in {"new", "closed"} => toServer'[t] = toServer[t]
    BY <1>1, <1>9, ResendMoves
  <2>2. reconnecting' = FALSE /\ authing' = {}
    BY <1>9 DEF Resend, AllReturned
  <2>3. Apart(messages', toServer', toClient')
    <3>1. toClient \in Queues
      BY <1>1, ItemsAreItems
    <3>2. Apart(messages', toClient, toServer')
      BY <2>1, QueuesSwap
    <3>3. Shifted(toClient', messages', toClient, toServer', s)
      BY <1>2, <3>1, <3>2 DEF Shifted
    <3>4. Apart(messages', toClient', toServer')
      BY <3>3, Dropped
    <3>5. QED
      BY <3>4, QueuesSwap
  <2>4. Handshakes(messages', toServer', toClient', authing')
    <3>1. ASSUME NEW x \in Tokens(messages), x < 0 PROVE FALSE
      BY <3>1, <1>5, <2>2 DEF Handshakes
    <3>2. ASSUME NEW t \in Sockets, NEW x \in Int, x \in Tokens(toServer'[t]), x < 0 PROVE FALSE
      BY <3>1, <3>2, <1>5, <2>1, <2>2 DEF Handshakes
    <3>3. ASSUME NEW t \in Sockets, NEW x \in Int, x \in Tokens(toClient'[t]), x < 0 PROVE FALSE
      BY <3>3, <1>5, <2>2 DEF Handshakes
    <3>4. QED
      BY <3>1, <3>2, <3>3, <2>1 DEF Handshakes
  <2>5. Counts'
    BY <1>2, <1>3, <2>1 DEF Counts, Fresh
  <2>6. TypeOK'
    <3>1. \A t \in Sockets : status'[t] \in {"new", "closed"} => toServer'[t] = <<>> /\ toClient'[t] = <<>>
      BY <1>1, <1>2, <1>3, <2>1 DEF TypeOK
    <3>2. QED
      BY <1>1, <1>2, <1>3, <1>8, <2>1, <2>2, <3>1 DEF TypeOK
  <2>7. ReconnectWhole'
    <3>1. auths => \A i \in 1 .. PoolSize : pool[i] \in authed
      BY <1>2, <1>4, <1>6, <2>2 DEF Admitted
    <3>2. QED
      BY <1>2, <1>4, <2>2, <3>1 DEF ReconnectWhole, InPool
  <2>8. QED
    BY <1>6, <1>7, <2>3, <2>4, <2>5, <2>6, <2>7
<1>10. CASE ~AllReturned(authing') /\ UNCHANGED <<index, messages, reconnecting, lost, toServer>>
  <2>1. TypeOK'
    <3>1. \A t \in Sockets : status'[t] \in {"new", "closed"} => toServer'[t] = <<>> /\ toClient'[t] = <<>>
      BY <1>1, <1>2, <1>3, <1>10 DEF TypeOK
    <3>2. QED
      BY <1>1, <1>2, <1>3, <1>8, <1>10, <3>1 DEF TypeOK
  <2>2. ReconnectWhole'
    BY <1>2, <1>4, <1>10 DEF ReconnectWhole, InPool
  <2>3. Counts'
    BY <1>2, <1>3, <1>10 DEF Counts, Fresh
  <2>4. Apart(messages', toServer', toClient') /\ Handshakes(messages', toServer', toClient', authing')
    BY <1>3, <1>5, <1>10
  <2>5. QED
    BY <1>6, <1>7, <2>1, <2>2, <2>3, <2>4
<1>11. QED
  BY <1>9, <1>10 DEF ReceiveAuth

\* What send does to the pool when it sets it up again.
LEMMA SetUpMakes ==
  ASSUME IInv, ~reconnecting, SetUp, UNCHANGED <<authing, auths, authed>>
  PROVE  /\ Shape' /\ Counted' /\ Admitted' /\ ReconnectWhole'
         /\ pool' \in [1 .. PoolSize -> 1 .. made'] /\ made' \in 0 .. MaxSockets /\ made' >= made
         /\ status' \in [Sockets -> {"new", "opening", "open", "closed"}]
         /\ connectedTo' \in 0 .. PoolSize /\ errors' \in 0 .. PoolSize
         /\ reconnecting' = TRUE /\ settingUp' = TRUE
         /\ \A s \in Sockets : status'[s] \in {"new", "closed"} => status[s] \in {"new", "closed"}
<1> USE DEF IInv
<1>1. TypeOK /\ Shape /\ authing = {}
  BY DEF ReconnectWhole
<1>2. PoolSize \in Nat \ {0} /\ made \in Nat /\ MaxSockets \in Nat
  BY <1>1, PoolAssumption DEF TypeOK
<1>3. /\ made + PoolSize <= MaxSockets /\ made' = made + PoolSize
      /\ pool' = [i \in 1 .. PoolSize |-> made + i]
      /\ status' = [s \in Sockets |-> IF s \in made + 1 .. made' THEN "opening" ELSE status[s]]
      /\ reconnecting' = TRUE /\ settingUp' = TRUE /\ connectedTo' = 0 /\ errors' = 0
      /\ authing' = authing /\ auths' = auths /\ authed' = authed
  BY DEF SetUp
<1>4. pool' \in [1 .. PoolSize -> 1 .. made'] /\ made' \in 0 .. MaxSockets /\ made' >= made
  BY <1>2, <1>3
<1>5. \A s \in Sockets : status[s] = "new" <=> s > made
  BY DEF Shape
<1>6. status' \in [Sockets -> {"new", "opening", "open", "closed"}]
  BY <1>1, <1>3 DEF TypeOK
<1>7. Shape'
  <2>1. made' >= PoolSize /\ \A i \in 1 .. PoolSize : made + i = made' - PoolSize + i
    BY <1>2, <1>3
  <2>2. pool' = [i \in 1 .. PoolSize |-> made' - PoolSize + i]
    BY <1>3, <2>1
  <2>3. \A s \in Sockets : status'[s] = "new" <=> s > made'
    BY <1>2, <1>3, <1>5 DEF Sockets
  <2>4. QED
    BY <2>1, <2>2, <2>3 DEF Shape
<1>8. Counted'
  <2>1. Reached' \in SUBSET (1 .. PoolSize) /\ Failed' \in SUBSET (1 .. PoolSize)
    BY DEF Reached, Failed
  <2>2. Cardinality(Reached') \in 0 .. PoolSize /\ Cardinality(Failed') \in 0 .. PoolSize
    BY <2>1, PositionSets
  <2>3. QED
    BY <1>2, <1>3, <2>2 DEF Counted
<1>9. Admitted' /\ ReconnectWhole'
  BY <1>1, <1>3 DEF Admitted, ReconnectWhole
<1>10. \A s \in Sockets : status'[s] \in {"new", "closed"} => status[s] \in {"new", "closed"}
  BY <1>3
<1>11. QED
  BY <1>2, <1>3, <1>4, <1>6, <1>7, <1>8, <1>9, <1>10

LEMMA SendStep ==
  ASSUME IInv, Send
  PROVE  IInv'
<1> USE DEF IInv
<1>1. TypeOK /\ Shape
  OBVIOUS
<1>a. PICK r : r = asked + 1
  OBVIOUS
<1>b. PICK s : s = Turn(1)
  OBVIOUS
<1>2. /\ asked < MaxRequests /\ asked' = r /\ index' = (index + 1) % PoolSize
      /\ UNCHANGED <<autoReconnect, auths, throws, authing, executed, lost, authed, toClient>>
      /\ \/ /\ CanWrite(s)
            /\ Write(s, Op(r))
            /\ UNCHANGED <<answered, messages, pool, reconnecting, setup, sockets>>
         \/ /\ ~CanWrite(s) /\ autoReconnect
            /\ messages' = Append(messages, Op(r))
            /\ \/ StartsReconnect /\ SetUp
               \/ ~StartsReconnect /\ UNCHANGED <<pool, reconnecting, setup, sockets>>
            /\ UNCHANGED <<answered, toServer>>
         \/ /\ ~CanWrite(s) /\ ~autoReconnect
            /\ answered' = [answered EXCEPT ![r] = @ + 1]
            /\ UNCHANGED <<messages, pool, reconnecting, setup, sockets, toServer>>
  BY Zenon, <1>a, <1>b DEF Send, config, Advance
<1>3. /\ r \in Nat \ {0} /\ r \in Requests /\ asked \in Nat /\ MaxRequests \in Nat /\ made \in Nat
      /\ asked' = asked + 1 /\ asked' \in 0 .. MaxRequests /\ r > asked
  BY <1>1, <1>2, <1>a, PoolAssumption DEF TypeOK, Requests
<1>4. index' \in 0 .. PoolSize - 1 /\ s \in Sockets /\ InPool(s)
  BY <1>1, <1>2, <1>b, PoolFacts
<1>5. Op(r) \in AnyItem /\ Token(Op(r)) = r
  BY <1>3 DEF Op, AnyItem, Token
<1>6. Nowhere(r, messages, toServer, toClient) /\ Fresh(r)
  BY <1>1, <1>3, <1>a, NewRequest DEF Counts
<1>7. ASSUME made' \in 0 .. MaxSockets, made' >= made
      PROVE  /\ Items \subseteq Items' /\ Seq(Items) \subseteq Seq(Items')
             /\ Op(r) \in Items' /\ lost' \subseteq 1 .. asked'
             /\ authing' \subseteq 1 .. made' /\ authed' \subseteq 1 .. made'
             /\ messages \in Seq(Items') /\ toServer \in [Sockets -> Seq(Items')]
             /\ toClient' \in [Sockets -> Seq(Items')]
  <2>1. made' \in Nat
    BY <1>7, PoolAssumption
  <2>2. Items \subseteq Items' /\ Seq(Items) \subseteq Seq(Items')
    BY <1>1, <1>3, <1>7, <2>1, ItemsGrow
  <2>3. Op(r) \in Items'
    BY <1>2, <1>3 DEF Op, Items
  <2>4. lost' \subseteq 1 .. asked' /\ authing' \subseteq 1 .. made' /\ authed' \subseteq 1 .. made'
    BY <1>1, <1>2, <1>3, <1>7, <2>1 DEF TypeOK
  <2>5. /\ messages \in Seq(Items') /\ toServer \in [Sockets -> Seq(Items')]
        /\ toClient' \in [Sockets -> Seq(Items')]
    BY <1>1, <1>2, <2>2 DEF TypeOK
  <2>6. QED
    BY <2>2, <2>3, <2>4, <2>5
<1>8. CASE CanWrite(s) /\ Write(s, Op(r))
           /\ UNCHANGED <<answered, messages, pool, reconnecting, setup, sockets>>
  <2>1. /\ status[s] = "open"
        /\ toServer' = [toServer EXCEPT ![s] = Append(@, Op(r))]
        /\ UNCHANGED <<answered, messages, pool, reconnecting, settingUp, connectedTo, errors, status, made>>
    BY <1>8 DEF CanWrite, Write, setup, sockets
  <2>2. /\ Apart(messages, toServer', toClient)
        /\ Tokens(toServer'[s]) = Tokens(toServer[s]) \cup {Token(Op(r))}
        /\ \A t \in Sockets \ {s} : toServer'[t] = toServer[t]
    <3>1. toServer \in Queues
      BY <1>1, ItemsAreItems
    <3>2. Pushed(toServer', messages, toServer, toClient, s, Op(r))
      BY <1>4, <1>5, <1>6, <2>1, <3>1 DEF Pushed
    <3>3. QED
      BY <3>2, Appended
  <2>3. made' \in 0 .. MaxSockets /\ made' >= made
    BY <1>1, <1>3, <2>1 DEF TypeOK
  <2>4. toServer' \in [Sockets -> Seq(Items')]
    <3>1. toServer[s] \in Seq(Items') /\ Op(r) \in Items' /\ toServer \in [Sockets -> Seq(Items')]
      BY <1>4, <1>7, <2>3
    <3>2. Append(toServer[s], Op(r)) \in Seq(Items')
      BY <3>1
    <3>3. QED
      BY <2>1, <3>1, <3>2
  <2>5. TypeOK'
    <3>1. \A t \in Sockets : status'[t] \in {"new", "closed"} => toServer'[t] = <<>> /\ toClient'[t] = <<>>
      BY <1>1, <1>2, <2>1, <2>2 DEF TypeOK
    <3>2. QED
      BY <1>1, <1>2, <1>3, <1>4, <1>7, <2>1, <2>3, <2>4, <3>1 DEF TypeOK
  <2>6. Counts'
    <3>1. Fresh(r)' /\ executed'[r] <= 1 /\ answered'[r] <= 1 /\ ~(r > asked')
      BY <1>2, <1>3, <1>6, <2>1, <1>a DEF Fresh
    <3>2. \A t \in Sockets, q \in Requests \ {r} :
            q \in Tokens(toServer'[t]) => q \in Tokens(toServer[t])
      BY <2>2, <1>4, <1>5
    <3>3. \A q \in Requests \ {r} : q > asked' => q > asked
      BY <1>3 DEF Requests
    <3>4. QED
      BY <1>2, <2>1, <3>1, <3>2, <3>3 DEF Counts, Fresh
  <2>7. Handshakes(messages', toServer', toClient', authing')
    BY <1>2, <1>3, <1>5, <2>1, <2>2 DEF Handshakes
  <2>8. Shape' /\ Counted' /\ Admitted' /\ ReconnectWhole'
    BY <1>2, <2>1 DEF Shape, Counted, Admitted, ReconnectWhole, Reached, Failed, InPool
  <2>9. QED
    BY <1>2, <2>1, <2>2, <2>5, <2>6, <2>7, <2>8
<1>9. CASE /\ ~CanWrite(s) /\ autoReconnect
           /\ messages' = Append(messages, Op(r))
           /\ \/ StartsReconnect /\ SetUp
              \/ ~StartsReconnect /\ UNCHANGED <<pool, reconnecting, setup, sockets>>
           /\ UNCHANGED <<answered, toServer>>
  <2>1. /\ Apart(messages', toServer, toClient)
        /\ Tokens(messages') = Tokens(messages) \cup {r}
    <3>1. messages \in Seq(AnyItem)
      BY <1>1, ItemsAreItems
    <3>2. Nowhere(Token(Op(r)), messages, toServer, toClient)
      BY <1>5, <1>6
    <3>3. /\ Apart(Append(messages, Op(r)), toServer, toClient)
          /\ Tokens(Append(messages, Op(r))) = Tokens(messages) \cup {Token(Op(r))}
      BY <1>5, <3>1, <3>2, Queued
    <3>4. QED
      BY <1>5, <1>9, <3>3
  <2>2. /\ Shape' /\ Counted' /\ Admitted' /\ ReconnectWhole'
        /\ pool' \in [1 .. PoolSize -> 1 .. made'] /\ made' \in 0 .. MaxSockets /\ made' >= made
        /\ status' \in [Sockets -> {"new", "opening", "open", "closed"}]
        /\ connectedTo' \in 0 .. PoolSize /\ errors' \in 0 .. PoolSize
        /\ reconnecting' \in BOOLEAN /\ settingUp' \in BOOLEAN
        /\ \A t \in Sockets : status'[t] \in {"new", "closed"} => status[t] \in {"new", "closed"}
    <3>1. CASE StartsReconnect /\ SetUp
      BY <3>1, <1>2, SetUpMakes DEF StartsReconnect
    <3>2. CASE UNCHANGED <<pool, reconnecting, setup, sockets>>
      <4>1. UNCHANGED <<pool, reconnecting, settingUp, connectedTo, errors, status, made, auths, authed, authing>>
        BY <3>2, <1>2 DEF setup, sockets
      <4>2. Shape' /\ Counted' /\ Admitted' /\ ReconnectWhole'
        BY <4>1 DEF Shape, Counted, Admitted, ReconnectWhole, Reached, Failed, InPool
      <4>3. QED
        BY <4>1, <4>2, <1>1, <1>3 DEF TypeOK
    <3>3. QED
      BY <3>1, <3>2, <1>9
  <2>3. messages' \in Seq(Items')
    <3>1. messages \in Seq(Items') /\ Op(r) \in Items'
      BY <1>7, <2>2
    <3>2. QED
      BY <3>1, <1>9
  <2>4. TypeOK'
    <3>1. \A t \in Sockets : status'[t] \in {"new", "closed"} => toServer'[t] = <<>> /\ toClient'[t] = <<>>
      BY <1>1, <1>2, <1>9, <2>2 DEF TypeOK
    <3>2. {autoReconnect', auths', throws'} \subseteq BOOLEAN /\ answered' \in [Requests -> Nat]
          /\ executed' \in [Requests -> Nat]
      BY <1>1, <1>2, <1>9 DEF TypeOK
    <3>3. QED
      BY <1>2, <1>3, <1>4, <1>7, <1>9, <2>2, <2>3, <3>1, <3>2 DEF TypeOK
  <2>5. Counts'
    <3>1. Fresh(r)' /\ executed'[r] <= 1 /\ answered'[r] <= 1 /\ ~(r > asked')
      BY <1>2, <1>3, <1>6, <1>9, <1>a DEF Fresh
    <3>2. \A q \in Requests \ {r} : /\ q > asked' => q > asked
                                    /\ q \in Tokens(messages') => q \in Tokens(messages)
      BY <1>3, <2>1 DEF Requests
    <3>3. QED
      BY <1>2, <1>9, <3>1, <3>2 DEF Counts, Fresh
  <2>6. Handshakes(messages', toServer', toClient', authing')
    <3>1. \A x \in Tokens(messages') : x < 0 => x \in Tokens(messages)
      BY <1>3, <2>1
    <3>2. QED
      BY <1>2, <1>9, <3>1 DEF Handshakes
  <2>7. Apart(messages', toServer', toClient') /\ Authorised(toClient', authed')
    BY <1>2, <1>9, <2>1
  <2>8. QED
    BY <2>2, <2>4, <2>5, <2>6, <2>7
<1>10. CASE /\ ~CanWrite(s) /\ ~autoReconnect
            /\ answered' = [answered EXCEPT ![r] = @ + 1]
            /\ UNCHANGED <<messages, pool, reconnecting, setup, sockets, toServer>>
  <2>1. UNCHANGED <<messages, pool, reconnecting, settingUp, connectedTo, errors, status, made, toServer>>
    BY <1>10 DEF setup, sockets
  <2>2. answered' \in [Requests -> Nat] /\ answered'[r] = 1 /\ \A q \in Requests \ {r} : answered'[q] = answered[q]
    BY <1>1, <1>3, <1>6, <1>10 DEF TypeOK, Fresh
  <2>3. made' \in 0 .. MaxSockets /\ made' >= made
    BY <1>1, <1>3, <2>1 DEF TypeOK
  <2>4. TypeOK'
    <3>1. \A t \in Sockets : status'[t] \in {"new", "closed"} => toServer'[t] = <<>> /\ toClient'[t] = <<>>
      BY <1>1, <1>2, <2>1 DEF TypeOK
    <3>2. messages' \in Seq(Items') /\ toServer' \in [Sockets -> Seq(Items')]
      BY <1>7, <2>1, <2>3
    <3>3. QED
      BY <1>1, <1>2, <1>3, <1>4, <1>7, <2>1, <2>2, <2>3, <3>1, <3>2 DEF TypeOK
  <2>5. Counts'
    <3>1. executed'[r] <= 1 /\ answered'[r] <= 1 /\ ~(r > asked')
      BY <1>2, <1>3, <1>6, <1>a, <2>2 DEF Fresh
    <3>2. Nowhere(r, messages', toServer', toClient')
      BY <1>2, <1>6, <2>1
    <3>3. \A q \in Requests \ {r} : q > asked' => q > asked
      BY <1>3 DEF Requests
    <3>4. QED
      BY <1>2, <2>1, <2>2, <3>1, <3>2, <3>3 DEF Counts, Fresh, Nowhere
  <2>6. /\ Handshakes(messages', toServer', toClient', authing')
        /\ Apart(messages', toServer', toClient') /\ Authorised(toClient', authed')
    BY <1>2, <2>1
  <2>7. Shape' /\ Counted' /\ Admitted' /\ ReconnectWhole'
    BY <1>2, <2>1 DEF Shape, Counted, Admitted, ReconnectWhole, Reached, Failed, InPool
  <2>8. QED
    BY <2>4, <2>5, <2>6, <2>7
<1>11. QED
  BY Zenon, <1>2, <1>8, <1>9, <1>10

LEMMA WaitForConnectionsStep ==
  ASSUME IInv, WaitForConnections
  PROVE  IInv'
<1> USE DEF IInv
<1>1. TypeOK /\ Shape /\ settingUp /\ reconnecting /\ authing = {}
  BY DEF WaitForConnections, ReconnectWhole
<1>2. /\ settingUp' = FALSE
      /\ UNCHANGED <<autoReconnect, auths, throws, pool, connectedTo, errors, status, made,
                     asked, answered, executed, authed, toClient>>
  BY DEF WaitForConnections, config, sockets, caller
<1>3. Items' = Items /\ Shape' /\ Counted'
  BY <1>2 DEF Items, Shape, Counted
<1>4. CASE auths /\ Authenticate
  <2>1. /\ messages' \in Seq(Items) /\ toServer' \in [Sockets -> Seq(Items)]
        /\ Apart(messages', toServer', toClient)
        /\ Handshakes(messages', toServer', toClient, authing')
        /\ \A x \in Nat : x \in Tokens(messages') => x \in Tokens(messages)
        /\ \A s \in Sockets, x \in Nat : x \in Tokens(toServer'[s]) => x \in Tokens(toServer[s])
        /\ \A s \in Sockets : status[s] \in {"new", "closed"} => toServer'[s] = toServer[s]
        /\ authing' = {pool[i] : i \in 1 .. PoolSize}
    BY <1>1, <1>4, AuthenticateMoves
  <2>2. UNCHANGED <<index, reconnecting, lost>>
    BY <1>4 DEF Authenticate
  <2>3. TypeOK'
    <3>1. \A t \in Sockets : status'[t] \in {"new", "closed"} => toServer'[t] = <<>> /\ toClient'[t] = <<>>
      BY <1>1, <1>2, <2>1 DEF TypeOK
    <3>2. authing' \subseteq 1 .. made
      BY <1>1, <2>1, PoolFacts
    <3>3. QED
      BY <1>1, <1>2, <1>3, <2>1, <2>2, <3>1, <3>2 DEF TypeOK
  <2>4. Counts'
    <3>1. Requests \subseteq Nat
      BY DEF Requests
    <3>2. QED
      BY <1>2, <2>1, <3>1 DEF Counts, Fresh
  <2>5. Admitted'
    BY <1>2, <2>1 DEF Admitted
  <2>6. ReconnectWhole'
    BY <1>1, <1>2, <2>1, <2>2 DEF ReconnectWhole, InPool
  <2>7. /\ Apart(messages', toServer', toClient') /\ Authorised(toClient', authed')
        /\ Handshakes(messages', toServer', toClient', authing')
    BY <1>2, <2>1
  <2>8. QED
    BY <1>3, <2>3, <2>4, <2>5, <2>6, <2>7
<1>5. CASE ~auths /\ Resend /\ UNCHANGED authing
  <2>1. /\ index' \in 0 .. PoolSize - 1
        /\ messages' \in Seq(Items) /\ toServer' \in [Sockets -> Seq(Items)]
        /\ lost' \subseteq 1 .. asked
        /\ Apart(messages', toServer', toClient)
        /\ Tokens(messages') \subseteq Tokens(messages)
        /\ \A t \in Sockets : Tokens(toServer'[t]) \subseteq Tokens(toServer[t]) \cup Tokens(messages)
        /\ \A t \in Sockets : status[t] \in {"new", "closed"} => toServer'[t] = toServer[t]
    BY <1>1, <1>5, ResendMoves
  <2>2. reconnecting' = FALSE
    BY <1>5 DEF Resend
  <2>3. TypeOK'
    <3>1. \A t \in Sockets : status'[t] \in {"new", "closed"} => toServer'[t] = <<>> /\ toClient'[t] = <<>>
      BY <1>1, <1>2, <2>1 DEF TypeOK
    <3>2. QED
      BY <1>1, <1>2, <1>3, <1>5, <2>1, <2>2, <3>1 DEF TypeOK
  <2>4. Counts'
    BY <1>2, <2>1 DEF Counts, Fresh
  <2>5. Handshakes(messages', toServer', toClient', authing')
    <3>1. ASSUME NEW x \in Tokens(messages), x < 0 PROVE FALSE
      BY <3>1, <1>1 DEF Handshakes
    <3>2. ASSUME NEW t \in Sockets, NEW x \in Int, x \in Tokens(toServer'[t]), x < 0 PROVE FALSE
      BY <3>1, <3>2, <1>1, <2>1 DEF Handshakes
    <3>3. ASSUME NEW t \in Sockets, NEW x \in Int, x \in Tokens(toClient'[t]), x < 0 PROVE FALSE
      BY <3>3, <1>1, <1>2 DEF Handshakes
    <3>4. QED
      BY <3>1, <3>2, <3>3, <2>1 DEF Handshakes
  <2>6. Admitted' /\ ReconnectWhole'
    BY <1>1, <1>2, <1>5, <2>2 DEF Admitted, ReconnectWhole
  <2>7. Apart(messages', toServer', toClient') /\ Authorised(toClient', authed')
    BY <1>2, <2>1
  <2>8. QED
    BY <1>3, <2>3, <2>4, <2>5, <2>6, <2>7
<1>6. QED
  BY <1>4, <1>5 DEF WaitForConnections

-----------------------------------------------------------------------------
(* The theorems                                                            *)

LEMMA NextIInv == IInv /\ [Next]_vars => IInv'
<1> SUFFICES ASSUME IInv, [Next]_vars PROVE IInv'
  OBVIOUS
<1>1. CASE Send
  BY <1>1, SendStep
<1>2. CASE WaitForConnections
  BY <1>2, WaitForConnectionsStep
<1>3. ASSUME NEW s \in Sockets, Attempt(s) PROVE IInv'
  <2>1. CASE Connects(s)
    BY <2>1, ConnectsStep
  <2>2. CASE ConnectFails(s)
    BY <2>2, ClosesStep DEF ConnectFails
  <2>3. QED
    BY <1>3, <2>1, <2>2 DEF Attempt
<1>4. ASSUME NEW s \in Sockets, Data(s) PROVE IInv'
  BY <1>4, ReceiveOpStep, ReceiveNonceStep, ReceiveAuthStep, DropReplyStep DEF Data
<1>5. ASSUME NEW s \in Sockets, Serve(s) PROVE IInv'
  BY <1>5, ServeStep
<1>6. ASSUME NEW s \in Sockets, Breaks(s) PROVE IInv'
  BY <1>6, ClosesStep DEF Breaks
<1>7. CASE UNCHANGED vars
  <2>1. UNCHANGED <<autoReconnect, auths, throws, pool, index, messages, reconnecting, settingUp,
                    connectedTo, errors, authing, status, made, asked, answered, executed, lost,
                    authed, toServer, toClient>>
    BY <1>7 DEF vars
  <2>2. TypeOK' /\ Shape' /\ Counted' /\ Admitted' /\ Counts' /\ ReconnectWhole'
    BY <2>1 DEF IInv, TypeOK, Items, Shape, Counted, Reached, Failed, Admitted, Counts, Fresh,
                ReconnectWhole, InPool
  <2>3. QED
    BY <2>1, <2>2 DEF IInv
<1>8. QED
  BY <1>1, <1>2, <1>3, <1>4, <1>5, <1>6, <1>7 DEF Next

LEMMA Invariance == Spec => []IInv
BY InitIInv, NextIInv, PTL DEF Spec

\* Every variable of a pool holds a value of its kind, whatever its size: a counter
\* of setupConnectionPool never passes it, and nothing is on its way on a socket that
\* is closed or not yet made.
THEOREM PoolTypeCorrect == Spec => []TypeOK
BY Invariance, PTL DEF IInv

\* However often send and the resend listener move a request from one pool to the
\* next, the server executes it at most once, and its callback is run at most once.
THEOREM RequestsAtMostOnce == Spec => []AtMostOnce
<1>1. IInv => AtMostOnce
  BY DEF IInv, Counts, AtMostOnce
<1>2. QED
  BY <1>1, Invariance, PTL

\* At most one reconnect is going on, and it is over (the resend listener clears
\* currently_reconnecting) when, and not before, every socket of the pool is
\* authenticated.
THEOREM ReconnectsWhole == Spec => []ReconnectWhole
BY Invariance, PTL DEF IInv

=============================================================================
