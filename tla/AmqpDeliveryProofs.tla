-------------------------- MODULE AmqpDeliveryProofs --------------------------
(***************************************************************************)
(* Proofs about AmqpDelivery: the parser stays in step with the octets,    *)
(* the listeners are given the deliveries in order, and shift() once for   *)
(* each message costs no channel.                                          *)
(*                                                                         *)
(* The first part is about lists and the frames of a delivery, the second  *)
(* about the parser and the octets that are coming, the third about what a *)
(* queue has handled of its deliveries and the frames of it that are still *)
(* to come.  All of these are formulas about values.  The last part finds  *)
(* the values in the actions, and has the theorems.                        *)
(***************************************************************************)
EXTENDS AmqpDelivery, SequenceTheorems, FiniteSetTheorems, TLAPS

-----------------------------------------------------------------------------
(* Lists                                                                   *)

IsList(s) == Len(s) \in Nat /\ s = [i \in 1 .. Len(s) |-> s[i]]

LEMMA ListIsSeq ==
  ASSUME NEW s, IsList(s)
  PROVE  /\ s \in Seq({s[i] : i \in 1 .. Len(s)}) /\ Len(s) \in Nat
         /\ DOMAIN s = 1 .. Len(s)
BY DEF IsList

LEMMA SeqIsList ==
  ASSUME NEW S, NEW s \in Seq(S)
  PROVE  IsList(s)
BY DEF IsList

LEMMA EmptyList ==
  /\ IsList(<<>>) /\ Len(<<>>) = 0
  /\ \A s : IsList(s) => (s = <<>> <=> Len(s) = 0)
<1>1. IsList(<<>>) /\ Len(<<>>) = 0
  BY DEF IsList
<1>2. ASSUME NEW s, IsList(s)
      PROVE  s = <<>> <=> Len(s) = 0
  BY <1>2, ListIsSeq
<1> QED BY <1>1, <1>2

LEMMA AppendList ==
  ASSUME NEW s, NEW e, IsList(s)
  PROVE  /\ IsList(Append(s, e)) /\ Len(Append(s, e)) = Len(s) + 1
         /\ \A i \in 1 .. Len(s) : Append(s, e)[i] = s[i]
         /\ Append(s, e)[Len(s) + 1] = e
         /\ DOMAIN s = 1 .. Len(s) /\ Len(s) \in Nat
         /\ DOMAIN Append(s, e) = 1 .. Len(s) + 1
<1> DEFINE S == {s[i] : i \in 1 .. Len(s)} \cup {e}
<1>1. s \in Seq(S) /\ e \in S /\ DOMAIN s = 1 .. Len(s) /\ Len(s) \in Nat
  BY DEF IsList
<1> HIDE DEF S
<1>2. /\ Append(s, e) \in Seq(S) /\ Len(Append(s, e)) = Len(s) + 1
      /\ \A i \in 1 .. Len(s) : Append(s, e)[i] = s[i]
      /\ Append(s, e)[Len(s) + 1] = e
  BY <1>1, AppendProperties
<1>3. IsList(Append(s, e))
  BY <1>2, SeqIsList
<1> QED BY <1>1, <1>2, <1>3, ListIsSeq

LEMMA TailList ==
  ASSUME NEW s, IsList(s), s # <<>>
  PROVE  /\ Head(s) = s[1] /\ IsList(Tail(s)) /\ Len(Tail(s)) = Len(s) - 1
         /\ \A i \in 1 .. Len(s) - 1 : Tail(s)[i] = s[i + 1]
         /\ Len(s) \in Nat \ {0} /\ Len(Tail(s)) \in Nat
<1> DEFINE S == {s[i] : i \in 1 .. Len(s)}
<1>1. s \in Seq(S) /\ Len(s) \in Nat \ {0}
  BY ListIsSeq, EmptyList
<1> HIDE DEF S
<1>2. /\ Tail(s) \in Seq(S) /\ Len(Tail(s)) = Len(s) - 1
      /\ \A i \in 1 .. Len(Tail(s)) : Tail(s)[i] = s[i + 1]
  BY <1>1, HeadTailProperties
<1>3. Head(s) = s[1]
  BY <1>1
<1>4. IsList(Tail(s))
  BY <1>2, SeqIsList
<1> QED BY <1>1, <1>2, <1>3, <1>4

LEMMA ConcatList ==
  ASSUME NEW u, NEW v, IsList(u), IsList(v)
  PROVE  /\ IsList(u \o v) /\ Len(u \o v) = Len(u) + Len(v)
         /\ \A i \in 1 .. Len(u) : (u \o v)[i] = u[i]
         /\ \A i \in 1 .. Len(v) : (u \o v)[Len(u) + i] = v[i]
         /\ Len(u) \in Nat /\ Len(v) \in Nat
<1> DEFINE S == {u[i] : i \in 1 .. Len(u)} \cup {v[i] : i \in 1 .. Len(v)}
<1>1. u \in Seq(S) /\ v \in Seq(S) /\ Len(u) \in Nat /\ Len(v) \in Nat
  BY DEF IsList
<1> HIDE DEF S
<1>2. /\ u \o v \in Seq(S) /\ Len(u \o v) = Len(u) + Len(v)
      /\ \A i \in 1 .. Len(u) + Len(v) :
           (u \o v)[i] = IF i <= Len(u) THEN u[i] ELSE v[i - Len(u)]
  BY <1>1, ConcatProperties
<1>3. IsList(u \o v)
  BY <1>2, SeqIsList
<1>4. \A i \in 1 .. Len(u) : (u \o v)[i] = u[i]
  BY <1>1, <1>2
<1>5. ASSUME NEW i \in 1 .. Len(v)
      PROVE  (u \o v)[Len(u) + i] = v[i]
  <2>1. Len(u) + i \in 1 .. Len(u) + Len(v) /\ ~(Len(u) + i <= Len(u)) /\ Len(u) + i - Len(u) = i
    BY <1>1
  <2> QED BY <1>2, <2>1
<1> QED BY <1>1, <1>2, <1>3, <1>4, <1>5

LEMMA ListOf ==
  ASSUME NEW s, NEW S, IsList(s), \A i \in 1 .. Len(s) : s[i] \in S
  PROVE  s \in Seq(S)
BY DEF IsList

-----------------------------------------------------------------------------
(* The frames of a delivery                                                *)

\* fs are the frames of delivery t of queue q, of message m to consumer c.
FrameList(fs, q, t, c, m) ==
  /\ IsList(fs) /\ Len(fs) >= 2
  /\ m.size = 0 <=> Len(fs) = 2
  /\ fs[1].type = "deliver" /\ fs[1].tag = t /\ fs[1].consumer = c
  /\ fs[2].type = "header" /\ fs[2].length = m.size
  /\ \A j \in 1 .. Len(fs) : fs[j].channel = q /\ fs[j].size \in Nat
  /\ \A j \in 3 .. Len(fs) :
       /\ fs[j].type = "body" /\ fs[j].id = m.id /\ fs[j].from \in Nat
       /\ j = 3 => fs[j].from = 0
       /\ j < Len(fs) => fs[j + 1].from = fs[j].from + fs[j].size /\ fs[j].from + fs[j].size < m.size
       /\ j = Len(fs) => fs[j].from + fs[j].size = m.size

\* How many parts a body has.
LEMMA Parts ==
  ASSUME NEW n \in Nat, NEW M \in Nat \ {0}, NEW p, p = (n + M - 1) \div M
  PROVE  /\ p \in Nat /\ (p = 0 <=> n = 0)
         /\ p # 0 => (p - 1) * M < n
         /\ n <= p * M
<1>1. p \in Int /\ M * p <= n + M - 1 /\ n + M - 1 < M * p + M
  BY SMTT(60)
<1> QED BY <1>1, SMTT(60)

LEMMA Times ==
  ASSUME NEW k \in Nat, NEW M \in Nat
  PROVE  (k + 1 - 1) * M = k * M /\ k * M \in Nat /\ (k + 1) * M = k * M + M
  BY SMTT(30)

LEMMA Fewer ==
  ASSUME NEW k \in Nat, NEW p \in Nat, NEW M \in Nat, k <= p
  PROVE  k * M <= p * M
  BY SMTT(30)

LEMMA FramesAre ==
  ASSUME NEW q, NEW t, NEW c, NEW m, m.size \in Nat
  PROVE  FrameList(Frames(q, t, c, m), q, t, c, m)
<1> DEFINE p == (m.size + FrameMax - 1) \div FrameMax
           Part(k) == LET from == (k - 1) * FrameMax
                      IN [Frame("body", q, Least(FrameMax, m.size - from))
                            EXCEPT !.id = m.id, !.from = from]
           a == <<[Frame("deliver", q, 1) EXCEPT !.tag = t, !.consumer = c],
                  [Frame("header", q, 1) EXCEPT !.length = m.size]>>
           b == [k \in 1 .. p |-> Part(k)]
           fs == a \o b
<1>1. Frames(q, t, c, m) = fs
  BY DEF Frames
<1>2. FrameMax \in Nat \ {0}
  BY DeliveryAssumption
<1>3. /\ p \in Nat /\ (p = 0 <=> m.size = 0)
      /\ p # 0 => (p - 1) * FrameMax < m.size
      /\ m.size <= p * FrameMax
  BY <1>2, Parts
<1> HIDE DEF p
<1>4. IsList(a) /\ Len(a) = 2
  BY DEF IsList
<1>5. /\ a[1].type = "deliver" /\ a[1].tag = t /\ a[1].consumer = c
      /\ a[2].type = "header" /\ a[2].length = m.size
      /\ a[1].channel = q /\ a[1].size = 1 /\ a[2].channel = q /\ a[2].size = 1
  BY DEF Frame
<1>6. IsList(b) /\ Len(b) = p
  BY <1>3 DEF IsList
<1>7. ASSUME NEW k \in 1 .. p
      PROVE  /\ b[k].type = "body" /\ b[k].id = m.id /\ b[k].channel = q
             /\ b[k].from = (k - 1) * FrameMax
             /\ b[k].size = Least(FrameMax, m.size - (k - 1) * FrameMax)
  BY DEF Frame
<1> HIDE DEF a, b
<1>8. ASSUME NEW k \in 1 .. p
      PROVE  /\ b[k].from \in Nat /\ b[k].size \in Nat
             /\ k = 1 => b[k].from = 0
             /\ k < p => /\ b[k + 1].from = b[k].from + b[k].size
                         /\ b[k].from + b[k].size < m.size
             /\ k = p => b[k].from + b[k].size = m.size
  <2> DEFINE x == (k - 1) * FrameMax
             y == k * FrameMax
             z == (p - 1) * FrameMax
             w == p * FrameMax
  <2>1. /\ x \in Nat /\ y = x + FrameMax /\ z \in Nat /\ w = z + FrameMax
        /\ k = 1 => x = 0
    <3>1. k - 1 \in Nat /\ p - 1 \in Nat /\ k - 1 + 1 = k /\ p - 1 + 1 = p
      BY <1>3
    <3>2. x \in Nat /\ (k - 1 + 1) * FrameMax = x + FrameMax
      BY <1>2, <3>1, Times
    <3>3. z \in Nat /\ (p - 1 + 1) * FrameMax = z + FrameMax
      BY <1>2, <3>1, Times
    <3>4. k = 1 => x = 0
      BY <1>2
    <3> QED BY <3>1, <3>2, <3>3, <3>4
  <2>2. x <= z /\ (k < p => y <= z) /\ (k = p => x = z)
    <3>1. k - 1 \in Nat /\ p - 1 \in Nat /\ k - 1 <= p - 1 /\ k \in Nat /\ (k < p => k <= p - 1)
      BY <1>3
    <3> QED BY <1>2, <3>1, Fewer
  <2>3. z < m.size /\ m.size <= w
    BY <1>3
  <2>4. b[k].from = x /\ b[k].size = Least(FrameMax, m.size - x)
    BY <1>7
  <2>5. k < p => b[k + 1].from = y
    <3>1. k < p => k + 1 \in 1 .. p /\ k + 1 - 1 = k
      BY <1>3
    <3> QED BY <1>7, <3>1
  <2> HIDE DEF x, y, z, w
  <2>6. /\ k < p => Least(FrameMax, m.size - x) = FrameMax
        /\ k = p => Least(FrameMax, m.size - x) = m.size - x
        /\ Least(FrameMax, m.size - x) \in Nat
    BY <1>2, <2>1, <2>2, <2>3 DEF Least
  <2> QED BY <1>2, <1>3, <2>1, <2>2, <2>3, <2>4, <2>5, <2>6
<1>9. /\ IsList(fs) /\ Len(fs) = 2 + p
      /\ \A i \in 1 .. 2 : fs[i] = a[i]
      /\ \A i \in 1 .. p : fs[2 + i] = b[i]
  <2>1. /\ IsList(a \o b) /\ Len(a \o b) = Len(a) + Len(b)
        /\ \A i \in 1 .. Len(a) : (a \o b)[i] = a[i]
        /\ \A i \in 1 .. Len(b) : (a \o b)[Len(a) + i] = b[i]
    <3>1. IsList(a) /\ IsList(b)
      BY <1>4, <1>6
    <3>2. IsList(a \o b)
      BY <3>1, ConcatList
    <3>3. Len(a \o b) = Len(a) + Len(b)
      BY <3>1, ConcatList
    <3>4. \A i \in 1 .. Len(a) : (a \o b)[i] = a[i]
      BY <3>1, ConcatList
    <3>5. \A i \in 1 .. Len(b) : (a \o b)[Len(a) + i] = b[i]
      BY <3>1, ConcatList
    <3> QED BY <3>2, <3>3, <3>4, <3>5
  <2> QED BY <1>4, <1>6, <2>1
<1> HIDE DEF fs
<1>10. fs[1] = a[1] /\ fs[2] = a[2]
  BY <1>9
<1>11. \A j \in 1 .. Len(fs) : fs[j].channel = q /\ fs[j].size \in Nat
  <2> TAKE j \in 1 .. Len(fs)
  <2>1. CASE j \in 1 .. 2
    BY <1>5, <1>10, <2>1
  <2>2. CASE j - 2 \in 1 .. p
    <3>1. fs[2 + (j - 2)] = b[j - 2] /\ 2 + (j - 2) = j
      BY <1>9, <2>2
    <3> QED BY <1>7, <1>8, <2>2, <3>1
  <2> QED BY <1>3, <1>9, <2>1, <2>2
<1>12. \A j \in 3 .. Len(fs) :
         /\ fs[j].type = "body" /\ fs[j].id = m.id /\ fs[j].from \in Nat
         /\ j = 3 => fs[j].from = 0
         /\ j < Len(fs) => /\ fs[j + 1].from = fs[j].from + fs[j].size
                           /\ fs[j].from + fs[j].size < m.size
         /\ j = Len(fs) => fs[j].from + fs[j].size = m.size
  <2> TAKE j \in 3 .. Len(fs)
  <2> DEFINE k == j - 2
  <2>1. k \in 1 .. p /\ 2 + k = j /\ (j = 3 => k = 1) /\ (j < Len(fs) <=> k < p) /\ (j = Len(fs) <=> k = p)
    BY <1>3, <1>9
  <2>2. fs[j] = b[k]
    BY <1>9, <2>1
  <2>3. j < Len(fs) => fs[j + 1] = b[k + 1]
    <3>1. j < Len(fs) => k + 1 \in 1 .. p /\ 2 + (k + 1) = j + 1
      BY <1>3, <2>1
    <3> QED BY <1>9, <3>1
  <2> HIDE DEF k
  <2> QED BY <1>7, <1>8, <2>1, <2>2, <2>3
<1>13. Len(fs) >= 2 /\ (m.size = 0 <=> Len(fs) = 2)
  BY <1>3, <1>9
<1> QED BY <1>1, <1>5, <1>9, <1>10, <1>11, <1>12, <1>13 DEF FrameList

-----------------------------------------------------------------------------
(* The parser and the octets that are coming.  p: the parser; w: the wire. *)

Total(f) == HeaderOctets + f.size + 1

\* Octet j of frame f.
OctetAt(f, j) ==
  [kind |-> IF j <= HeaderOctets THEN "header"
            ELSE IF j <= HeaderOctets + f.size THEN "payload" ELSE "end",
   frame |-> f,
   i |-> IF j <= HeaderOctets THEN j
         ELSE IF j <= HeaderOctets + f.size THEN j - HeaderOctets ELSE 1]

\* The octets that are coming are those of f but the first k.
Comes(w, f, k) ==
  /\ f.size \in Nat
  /\ IsList(w) /\ Len(w) = Total(f) - k
  /\ \A i \in 1 .. Len(w) : w[i] = OctetAt(f, k + i)

\* s is the payload of f as far as it has come.
Payload(s, f) ==
  IsList(s) /\ \A i \in 1 .. Len(s) : s[i] = OctetAt(f, HeaderOctets + i)

InHeader(p, w) ==
  /\ p.payload = <<>> /\ p.used \in 0 .. HeaderOctets - 1
  /\ w = <<>> => p.used = 0
  /\ w # <<>> => Comes(w, w[1].frame, p.used)

InPayload(p, w) ==
  /\ p.used = 0 /\ Payload(p.payload, p.frame)
  /\ Comes(w, p.frame, HeaderOctets + Len(p.payload))
  /\ Len(p.payload) < p.frame.size \/ (p.frame.size = 0 /\ p.payload = <<>>)

AfterPayload(p, w) ==
  p.used = 0 /\ p.payload = <<>> /\ Comes(w, p.frame, HeaderOctets + p.frame.size)

Fields(p) ==
  p = [state |-> p.state, used |-> p.used, frame |-> p.frame, payload |-> p.payload]

InStep(p, w) ==
  /\ Fields(p) /\ p.frame.size \in Nat
  /\ \/ p.state = "frameHeader" /\ InHeader(p, w)
     \/ p.state = "bufferFrame" /\ InPayload(p, w)
     \/ p.state = "frameEnd" /\ AfterPayload(p, w)

\* The frame that has begun to come and is not handled, if any.
Waiting(p, w) ==
  IF p.state = "bufferFrame" THEN {p.frame}
  ELSE IF p.state = "frameHeader" /\ w # <<>> THEN {w[1].frame} ELSE {}

LEMMA OctetsAre ==
  ASSUME NEW f, f.size \in Nat
  PROVE  Comes(Octets(f), f, 0)
<1> DEFINE a == [i \in 1 .. HeaderOctets |-> [kind |-> "header", frame |-> f, i |-> i]]
           b == [i \in 1 .. f.size |-> [kind |-> "payload", frame |-> f, i |-> i]]
           c == [i \in 1 .. 1 |-> [kind |-> "end", frame |-> f, i |-> i]]
           ab == a \o b
           w == ab \o c
<1>1. Octets(f) = w
  BY DEF Octets
<1>2. HeaderOctets \in Nat /\ f.size \in Nat
  BY DeliveryAssumption
<1>3. IsList(a) /\ Len(a) = HeaderOctets
  BY <1>2 DEF IsList
<1>4. IsList(b) /\ Len(b) = f.size
  BY <1>2 DEF IsList
<1>5. IsList(c) /\ Len(c) = 1
  BY DEF IsList
<1>6. /\ \A i \in 1 .. HeaderOctets : a[i] = OctetAt(f, i)
      /\ \A i \in 1 .. f.size : b[i] = OctetAt(f, HeaderOctets + i)
      /\ c[1] = OctetAt(f, HeaderOctets + f.size + 1)
  BY <1>2 DEF OctetAt
<1> HIDE DEF a, b, c
<1>7. /\ IsList(ab) /\ Len(ab) = HeaderOctets + f.size
      /\ \A i \in 1 .. HeaderOctets : ab[i] = OctetAt(f, i)
      /\ \A i \in 1 .. f.size : ab[HeaderOctets + i] = OctetAt(f, HeaderOctets + i)
  <2>1. IsList(a \o b)
    BY <1>3, <1>4, ConcatList
  <2>2. Len(a \o b) = Len(a) + Len(b)
    BY <1>3, <1>4, ConcatList
  <2>3. \A i \in 1 .. Len(a) : (a \o b)[i] = a[i]
    BY <1>3, <1>4, ConcatList
  <2>4. \A i \in 1 .. Len(b) : (a \o b)[Len(a) + i] = b[i]
    BY <1>3, <1>4, ConcatList
  <2> QED BY <1>3, <1>4, <1>6, <2>1, <2>2, <2>3, <2>4
<1> HIDE DEF ab
<1>8. \A i \in 1 .. Len(ab) : ab[i] = OctetAt(f, i)
  <2> TAKE i \in 1 .. Len(ab)
  <2>1. CASE i <= HeaderOctets
    BY <1>2, <1>7, <2>1
  <2>2. CASE ~(i <= HeaderOctets)
    <3>1. i - HeaderOctets \in 1 .. f.size /\ HeaderOctets + (i - HeaderOctets) = i
      BY <1>2, <1>7, <2>2
    <3> QED BY <1>7, <3>1
  <2> QED BY <2>1, <2>2
<1>9. /\ IsList(w) /\ Len(w) = Len(ab) + 1
      /\ \A i \in 1 .. Len(ab) : w[i] = ab[i]
      /\ w[Len(ab) + 1] = c[1]
  <2>1. IsList(ab) /\ IsList(c)
    BY <1>5, <1>7
  <2>2. IsList(ab \o c)
    BY <2>1, ConcatList
  <2>3. Len(ab \o c) = Len(ab) + Len(c)
    BY <2>1, ConcatList
  <2>4. \A i \in 1 .. Len(ab) : (ab \o c)[i] = ab[i]
    BY <2>1, ConcatList
  <2>5. \A i \in 1 .. Len(c) : (ab \o c)[Len(ab) + i] = c[i]
    BY <2>1, ConcatList
  <2> QED BY <1>5, <2>2, <2>3, <2>4, <2>5
<1> HIDE DEF w
<1>10. \A i \in 1 .. Len(w) : w[i] = OctetAt(f, i)
  <2> TAKE i \in 1 .. Len(w)
  <2>1. CASE i \in 1 .. Len(ab)
    BY <1>8, <1>9, <2>1
  <2>2. CASE i = HeaderOctets + f.size + 1
    BY <1>6, <1>7, <1>9, <2>2
  <2> QED BY <1>2, <1>7, <1>9, <2>1, <2>2
<1>11. \A i \in 1 .. Len(w) : w[i] = OctetAt(f, 0 + i)
  <2> TAKE i \in 1 .. Len(w)
  <2>1. 0 + i = i
    OBVIOUS
  <2> QED BY <1>10, <2>1
<1>12. Len(w) = Total(f) - 0
  BY <1>2, <1>7, <1>9 DEF Total
<1> QED BY <1>1, <1>2, <1>9, <1>11, <1>12 DEF Comes

LEMMA ComesFirst ==
  ASSUME NEW w, NEW f, NEW k \in Nat, Comes(w, f, k), w # <<>>
  PROVE  /\ Head(w) = w[1] /\ w[1] = OctetAt(f, k + 1) /\ w[1].frame = f /\ Head(w).frame = f
         /\ k + 1 <= Total(f) /\ IsList(w)
<1>1. IsList(w) /\ Len(w) \in Nat \ {0} /\ Head(w) = w[1]
  BY TailList DEF Comes
<1>2. w[1] = OctetAt(f, k + 1)
  BY <1>1 DEF Comes
<1>3. w[1].frame = f
  BY <1>2 DEF OctetAt
<1>4. f.size \in Nat /\ HeaderOctets \in Nat /\ Len(w) = Total(f) - k
  BY DeliveryAssumption DEF Comes
<1> QED BY <1>1, <1>2, <1>3, <1>4 DEF Total

LEMMA ComesOn ==
  ASSUME NEW w, NEW f, NEW k \in Nat, Comes(w, f, k), w # <<>>
  PROVE  Comes(Tail(w), f, k + 1) /\ (Tail(w) = <<>> <=> k + 1 = Total(f))
<1>1. IsList(w) /\ Len(w) = Total(f) - k /\ f.size \in Nat /\ HeaderOctets \in Nat
  BY DeliveryAssumption DEF Comes
<1>2. /\ IsList(Tail(w)) /\ Len(Tail(w)) = Len(w) - 1 /\ Len(Tail(w)) \in Nat
      /\ \A i \in 1 .. Len(w) - 1 : Tail(w)[i] = w[i + 1]
  BY <1>1, TailList
<1>3. ASSUME NEW i \in 1 .. Len(w) - 1
      PROVE  Tail(w)[i] = OctetAt(f, k + 1 + i)
  <2>1. i + 1 \in 1 .. Len(w) /\ k + (i + 1) = k + 1 + i /\ Len(w) \in Int
    BY <1>2
  <2>2. w[i + 1] = OctetAt(f, k + (i + 1))
    BY <2>1 DEF Comes
  <2> QED BY <1>2, <2>1, <2>2
<1>4. Total(f) \in Nat /\ Len(Tail(w)) = Total(f) - (k + 1)
  BY <1>1, <1>2, SMTT(60) DEF Total
<1>5. Tail(w) = <<>> <=> k + 1 = Total(f)
  BY <1>2, <1>4, EmptyList
<1> QED BY <1>1, <1>2, <1>3, <1>4, <1>5 DEF Comes

\* An octet of a header, but the last.
LEMMA OneOfHeader ==
  ASSUME NEW p, NEW w, InStep(p, w), p.state = "frameHeader", w # <<>>,
         p.used + 1 < HeaderOctets
  PROVE  /\ InStep([p EXCEPT !.used = @ + 1], Tail(w))
         /\ Waiting([p EXCEPT !.used = @ + 1], Tail(w)) = Waiting(p, w)
<1> DEFINE n == [p EXCEPT !.used = @ + 1]
           f == w[1].frame
<1>1. /\ HeaderOctets \in Nat /\ p.used \in 0 .. HeaderOctets - 1 /\ p.used \in Nat
      /\ p.payload = <<>> /\ Comes(w, f, p.used) /\ Fields(p) /\ p.frame.size \in Nat
  BY DeliveryAssumption DEF InStep, InHeader
<1>2. /\ Comes(Tail(w), f, p.used + 1) /\ (Tail(w) = <<>> <=> p.used + 1 = Total(f))
  BY <1>1, ComesOn
<1>3. Tail(w) # <<>>
  BY <1>1, <1>2 DEF Total, Comes
<1>4. Tail(w)[1].frame = f
  <2>1. p.used + 1 \in Nat
    BY <1>1
  <2> HIDE DEF f
  <2> QED BY <1>2, <1>3, <2>1, ComesFirst
<1>5. /\ n.state = "frameHeader" /\ n.used = p.used + 1 /\ n.frame = p.frame
      /\ n.payload = p.payload /\ Fields(n)
  BY <1>1 DEF Fields
<1> HIDE DEF n, f
<1>6. InHeader(n, Tail(w))
  BY <1>1, <1>2, <1>3, <1>4, <1>5 DEF InHeader
<1>7. InStep(n, Tail(w))
  BY <1>1, <1>5, <1>6 DEF InStep
<1>8. Waiting(n, Tail(w)) = {f} /\ Waiting(p, w) = {f}
  BY <1>3, <1>4, <1>5 DEF Waiting, f
<1> QED BY <1>7, <1>8 DEF n

\* The last octet of a header.
LEMMA LastOfHeader ==
  ASSUME NEW p, NEW w, InStep(p, w), p.state = "frameHeader", w # <<>>,
         ~(p.used + 1 < HeaderOctets), NEW n,
         n = [state |-> "bufferFrame", used |-> 0, frame |-> Head(w).frame, payload |-> <<>>]
  PROVE  InStep(n, Tail(w)) /\ Waiting(n, Tail(w)) = Waiting(p, w)
<1> DEFINE f == w[1].frame
<1>1. /\ HeaderOctets \in Nat \ {0} /\ p.used \in 0 .. HeaderOctets - 1 /\ p.used \in Nat
      /\ Comes(w, f, p.used) /\ Fields(p)
  BY DeliveryAssumption DEF InStep, InHeader
<1>2. Comes(Tail(w), f, p.used + 1) /\ p.used + 1 = HeaderOctets
  BY <1>1, ComesOn
<1>3. Head(w).frame = f
  BY <1>1, ComesFirst
<1>4. /\ n.state = "bufferFrame" /\ n.used = 0 /\ n.frame = f /\ n.payload = <<>> /\ Fields(n)
  BY <1>3 DEF Fields
<1> HIDE DEF f
<1>5. f.size \in Nat
  BY <1>1 DEF Comes
<1>6. /\ Payload(<<>>, f) /\ Len(<<>>) = 0 /\ HeaderOctets + Len(<<>>) = HeaderOctets
      /\ Len(<<>>) < f.size \/ f.size = 0
  BY <1>1, <1>5, EmptyList DEF Payload
<1>7. InPayload(n, Tail(w))
  BY <1>2, <1>4, <1>6 DEF InPayload
<1>8. InStep(n, Tail(w))
  BY <1>4, <1>5, <1>7 DEF InStep
<1>9. Waiting(n, Tail(w)) = {f} /\ Waiting(p, w) = {f}
  BY <1>4 DEF Waiting, f
<1> QED BY <1>8, <1>9

\* An octet of a payload that is kept.
LEMMA Kept ==
  ASSUME NEW s, NEW w, NEW f, Payload(s, f), Comes(w, f, HeaderOctets + Len(s)), w # <<>>,
         Len(s) < f.size, f.size \in Nat
  PROVE  /\ Payload(Append(s, Head(w)), f) /\ Len(Append(s, Head(w))) = Len(s) + 1
         /\ Len(s) + 1 \in Nat
         /\ Comes(Tail(w), f, HeaderOctets + (Len(s) + 1)) /\ Tail(w) # <<>>
<1>1. HeaderOctets \in Nat /\ IsList(s) /\ Len(s) \in Nat /\ HeaderOctets + Len(s) \in Nat
  BY DeliveryAssumption, ListIsSeq DEF Payload
<1>2. Head(w) = OctetAt(f, HeaderOctets + Len(s) + 1)
  BY <1>1, ComesFirst
<1>3. /\ Comes(Tail(w), f, HeaderOctets + Len(s) + 1)
      /\ Tail(w) = <<>> <=> HeaderOctets + Len(s) + 1 = Total(f)
  BY <1>1, ComesOn
<1>4. HeaderOctets + Len(s) + 1 = HeaderOctets + (Len(s) + 1)
  BY <1>1
<1>5. Tail(w) # <<>>
  BY <1>1, <1>3 DEF Total
<1>6. PICK e : e = Head(w)
  OBVIOUS
<1>7. /\ IsList(Append(s, e)) /\ Len(Append(s, e)) = Len(s) + 1
      /\ \A i \in 1 .. Len(s) : Append(s, e)[i] = s[i]
      /\ Append(s, e)[Len(s) + 1] = e
  BY <1>1, AppendList
<1>8. \A i \in 1 .. Len(s) + 1 : Append(s, e)[i] = OctetAt(f, HeaderOctets + i)
  <2> TAKE i \in 1 .. Len(s) + 1
  <2>1. CASE i \in 1 .. Len(s)
    BY <1>7, <2>1 DEF Payload
  <2>2. CASE i = Len(s) + 1
    BY <1>2, <1>4, <1>6, <1>7, <2>2
  <2> QED BY <1>1, <2>1, <2>2
<1>9. Payload(Append(s, e), f)
  BY <1>7, <1>8 DEF Payload
<1> QED BY <1>1, <1>3, <1>4, <1>5, <1>6, <1>7, <1>9

LEMMA MoreOfPayload ==
  ASSUME NEW p, NEW w, InStep(p, w), p.state = "bufferFrame", w # <<>>,
         NEW s, s = Append(p.payload, Head(w)), p.frame.size # 0, Len(s) < p.frame.size,
         NEW n, n = [p EXCEPT !.payload = s]
  PROVE  InStep(n, Tail(w)) /\ Waiting(n, Tail(w)) = Waiting(p, w)
<1> DEFINE f == p.frame
<1>1. /\ p.used = 0 /\ Payload(p.payload, f) /\ Comes(w, f, HeaderOctets + Len(p.payload))
      /\ Len(p.payload) < f.size /\ f.size \in Nat /\ Fields(p)
  BY DEF InStep, InPayload
<1>2. Payload(s, f) /\ Len(s) = Len(p.payload) + 1 /\ Comes(Tail(w), f, HeaderOctets + Len(s))
  BY <1>1, Kept
<1>3. /\ n.state = "bufferFrame" /\ n.used = 0 /\ n.frame = f /\ n.payload = s /\ Fields(n)
  <2> HIDE DEF f
  <2>1. \A x : n = [p EXCEPT !.payload = x] => n.payload = x
    BY <1>1 DEF Fields
  <2>2. n.state = "bufferFrame" /\ n.used = 0 /\ n.frame = p.frame /\ Fields(n)
    BY <1>1 DEF Fields
  <2> QED BY <2>1, <2>2 DEF f
<1>4. InPayload(n, Tail(w))
  BY <1>2, <1>3 DEF InPayload
<1>5. InStep(n, Tail(w))
  BY <1>1, <1>3, <1>4 DEF InStep
<1>6. Waiting(n, Tail(w)) = {f} /\ Waiting(p, w) = {f}
  BY <1>3 DEF Waiting
<1> QED BY <1>5, <1>6

\* The last octet of a payload.
LEMMA LastOfPayload ==
  ASSUME NEW p, NEW w, InStep(p, w), p.state = "bufferFrame", w # <<>>,
         NEW s, s = Append(p.payload, Head(w)), p.frame.size # 0, Len(s) = p.frame.size, NEW n,
         n = [p EXCEPT !.state = "frameEnd", !.payload = <<>>]
  PROVE  InStep(n, Tail(w)) /\ Waiting(n, Tail(w)) = {} /\ Payload(s, p.frame)
<1> DEFINE f == p.frame
<1>1. /\ p.used = 0 /\ Payload(p.payload, f) /\ Comes(w, f, HeaderOctets + Len(p.payload))
      /\ Len(p.payload) < f.size /\ f.size \in Nat /\ Fields(p)
  BY DEF InStep, InPayload
<1>2. Payload(s, f) /\ Len(s) = Len(p.payload) + 1 /\ Comes(Tail(w), f, HeaderOctets + Len(s))
  BY <1>1, Kept
<1>3. /\ n.state = "frameEnd" /\ n.used = 0 /\ n.frame = f /\ n.payload = <<>> /\ Fields(n)
  BY <1>1 DEF Fields
<1>4. AfterPayload(n, Tail(w))
  BY <1>2, <1>3 DEF AfterPayload
<1>5. InStep(n, Tail(w))
  BY <1>1, <1>3, <1>4 DEF InStep
<1>6. Waiting(n, Tail(w)) = {}
  BY <1>3 DEF Waiting
<1> QED BY <1>2, <1>5, <1>6

\* The octet that ends a frame.
LEMMA AtEndOf ==
  ASSUME NEW p, NEW w, Fields(p), NEW f, f.size \in Nat, f = p.frame, p.used = 0, p.payload = <<>>,
         Comes(w, f, HeaderOctets + f.size), w # <<>>, NEW n,
         n = [p EXCEPT !.state = IF Head(w).kind = "end" THEN "frameHeader" ELSE "error"]
  PROVE  InStep(n, Tail(w)) /\ Waiting(n, Tail(w)) = {}
<1>1. HeaderOctets \in Nat \ {0} /\ HeaderOctets + f.size \in Nat
  BY DeliveryAssumption
<1>2. Head(w) = OctetAt(f, HeaderOctets + f.size + 1)
  BY <1>1, ComesFirst
<1>3. Head(w).kind = "end"
  BY <1>1, <1>2 DEF OctetAt
<1>4. Tail(w) = <<>>
  BY <1>1, ComesOn DEF Total
<1>5. /\ n.state = "frameHeader" /\ n.used = 0 /\ n.frame = f /\ n.payload = <<>> /\ Fields(n)
  BY <1>3 DEF Fields
<1>6. InHeader(n, Tail(w))
  BY <1>1, <1>4, <1>5 DEF InHeader
<1>7. InStep(n, Tail(w))
  BY <1>5, <1>6 DEF InStep
<1>8. Waiting(n, Tail(w)) = {}
  BY <1>4, <1>5 DEF Waiting
<1> QED BY <1>7, <1>8

\* While nothing is coming the parser waits for a header.
LEMMA Rests ==
  ASSUME NEW p, NEW w, InStep(p, w), w = <<>>
  PROVE  p.state = "frameHeader" /\ p.used = 0 /\ p.payload = <<>> /\ Waiting(p, w) = {}
<1>1. HeaderOctets \in Nat /\ p.frame.size \in Nat /\ Len(<<>>) = 0
  BY DeliveryAssumption, EmptyList DEF InStep
<1>2. ~InPayload(p, w)
  <2> SUFFICES ASSUME InPayload(p, w)
               PROVE  FALSE
    OBVIOUS
  <2>1. Len(p.payload) \in Nat /\ Len(p.payload) <= p.frame.size
    BY <1>1 DEF InPayload, Payload, IsList
  <2>2. 0 = Total(p.frame) - (HeaderOctets + Len(p.payload))
    BY <1>1 DEF InPayload, Comes
  <2> QED BY <1>1, <2>1, <2>2 DEF Total
<1>3. ~AfterPayload(p, w)
  <2> SUFFICES ASSUME AfterPayload(p, w)
               PROVE  FALSE
    OBVIOUS
  <2>1. 0 = Total(p.frame) - (HeaderOctets + p.frame.size)
    BY <1>1 DEF AfterPayload, Comes
  <2> QED BY <1>1, <2>1 DEF Total
<1>4. p.state = "frameHeader" /\ InHeader(p, w)
  BY <1>2, <1>3 DEF InStep
<1> QED BY <1>4 DEF InHeader, Waiting

\* A frame begins to come.
LEMMA Starts ==
  ASSUME NEW p, NEW w, InStep(p, w), w = <<>>, NEW f, f.size \in Nat
  PROVE  /\ InStep(p, Octets(f)) /\ Waiting(p, Octets(f)) = {f}
         /\ Waiting(p, w) = {}
<1>1. p.state = "frameHeader" /\ p.used = 0 /\ p.payload = <<>> /\ Waiting(p, w) = {}
  BY Rests
<1>2. Comes(Octets(f), f, 0)
  BY OctetsAre
<1>3. HeaderOctets \in Nat \ {0} /\ Len(<<>>) = 0
  BY DeliveryAssumption, EmptyList
<1>4. PICK o : o = Octets(f)
  OBVIOUS
<1>5. o # <<>>
  <2>1. Len(o) = Total(f) - 0
    BY <1>2, <1>4 DEF Comes
  <2>2. Len(o) # 0
    BY <1>3, <2>1 DEF Total
  <2> QED BY <1>3, <2>2
<1>6. o[1].frame = f
  BY <1>2, <1>4, <1>5, ComesFirst
<1>7. InHeader(p, o)
  BY <1>1, <1>2, <1>3, <1>4, <1>5, <1>6 DEF InHeader
<1>8. InStep(p, o)
  BY <1>1, <1>7 DEF InStep
<1>9. Waiting(p, o) = {f}
  BY <1>1, <1>5, <1>6 DEF Waiting
<1> QED BY <1>1, <1>4, <1>8, <1>9

-----------------------------------------------------------------------------
(* What a queue q has handled.  d: its deliveries; o: its frames that wait; *)
(* u: the message it puts together; l: the tag of its last one; g: what its *)
(* listeners were given.  It has handled n deliveries and j frames more.    *)

FramesOf(q, d, t) == Frames(q, t, d[t].consumer, d[t].message)

Delivered(d) ==
  IsList(d) /\ \A t \in 1 .. Len(d) : d[t].message.size \in Nat

\* What a listener is given of delivery t.
WholeOf(d, t) == [tag |-> t, consumer |-> d[t].consumer, body |-> Body(d[t].message)]

\* The listeners were given the first n deliveries.
GivenAre(d, g, n) ==
  /\ IsList(g)
  /\ \A k \in DOMAIN g : \E t \in 1 .. n : g[k] = WholeOf(d, t) /\ d[t].message.size > 0
  /\ \A t \in 1 .. n : d[t].message.size > 0 => \E k \in DOMAIN g : g[k].tag = t
  /\ \A j, k \in DOMAIN g : j < k => g[j].tag < g[k].tag

\* Message u is that of its delivery, as far as it has been read.
Carries(d, u) ==
  /\ u = [tag |-> u.tag, consumer |-> u.consumer, read |-> u.read, size |-> u.size, body |-> u.body]
  /\ u.tag \in 0 .. Len(d) /\ IsList(u.body) /\ u.read = Len(u.body)
  /\ u.tag = 0 => u.consumer = 0 /\ u.body = <<>>
  /\ u.tag > 0 => /\ u.consumer = d[u.tag].consumer
                  /\ \A i \in 1 .. Len(u.body) : u.body[i] = Datum(d[u.tag].message.id, i)

\* n deliveries and j frames: less than the delivery after the n has.
Counted(q, d, n, j) ==
  /\ n \in 0 .. Len(d) /\ j \in Nat
  /\ n = Len(d) => j = 0
  /\ n < Len(d) => j < Len(FramesOf(q, d, n + 1))

Tagged(u, l, n, j) ==
  /\ j = 0 => u.tag = n
  /\ j > 0 => u.tag = n + 1
  /\ j < 2 => l = n
  /\ j >= 2 => l = n + 1

Read(q, d, u, n, j) ==
  /\ j = 1 => u.read = 0
  /\ j >= 2 => u.size = d[n + 1].message.size /\ u.read = FramesOf(q, d, n + 1)[j + 1].from

Handled(q, d, u, l, g, n, j) ==
  /\ Counted(q, d, n, j) /\ GivenAre(d, g, n) /\ Carries(d, u)
  /\ Tagged(u, l, n, j) /\ Read(q, d, u, n, j)

\* o is fs but its first k.
Rest(o, fs, k) ==
  IsList(o) /\ Len(o) = Len(fs) - k /\ \A i \in 1 .. Len(o) : o[i] = fs[k + i]

\* The frames of q that have begun to come, of the frames fs.
Of(q, fs) == {f \in fs : f.type # "heartbeat" /\ f.channel = q}

\* The frames that are still to come: x has begun to, and o waits.
Coming(q, d, o, x, n, j) ==
  \/ /\ x = {}
     /\ \/ n = Len(d) /\ o = <<>>
        \/ n + 1 = Len(d) /\ Rest(o, FramesOf(q, d, n + 1), j)
  \/ /\ n < Len(d) /\ x = {FramesOf(q, d, n + 1)[j + 1]}
     /\ \/ n + 1 = Len(d) /\ Rest(o, FramesOf(q, d, n + 1), j + 1)
        \/ /\ n + 2 = Len(d) /\ j + 1 = Len(FramesOf(q, d, n + 1))
           /\ Rest(o, FramesOf(q, d, n + 2), 0)

\* f is the next frame, and whether it is the last one of its delivery.
IsNext(q, d, n, j, f) == f = FramesOf(q, d, n + 1)[j + 1]

IsLast(q, d, n, j) == j + 1 = Len(FramesOf(q, d, n + 1))

\* The counts after the next frame.
After(q, d, n, j) == IF IsLast(q, d, n, j) THEN <<n + 1, 0>> ELSE <<n, j + 1>>

LEMMA AtLeastTwo ==
  ASSUME NEW k \in Nat, k >= 2
  PROVE  k > 1 /\ 0 < k /\ 0 + 1 # k /\ (k # 2 => k > 2)
OBVIOUS

LEMMA FramesOfAre ==
  ASSUME NEW q, NEW d, Delivered(d), NEW t \in 1 .. Len(d)
  PROVE  FrameList(FramesOf(q, d, t), q, t, d[t].consumer, d[t].message)
BY FramesAre DEF Delivered, FramesOf

\* The next frame of a queue, while one is to come.
LEMMA NextFrame ==
  ASSUME NEW q, NEW d, Delivered(d), NEW n, NEW j, Counted(q, d, n, j), n < Len(d),
         NEW fs, fs = FramesOf(q, d, n + 1), NEW m, m = d[n + 1].message
  PROVE  /\ FrameList(fs, q, n + 1, d[n + 1].consumer, m) /\ n + 1 \in 1 .. Len(d)
         /\ n \in Nat /\ Len(d) \in Nat /\ j \in Nat /\ j + 1 \in 1 .. Len(fs) /\ Len(fs) \in Nat
         /\ fs[j + 1].type # "heartbeat" /\ fs[j + 1].channel = q
         /\ fs[j + 1].type = "deliver" <=> j = 0
         /\ fs[j + 1].type = "header" <=> j = 1
         /\ fs[j + 1].type = "body" <=> j >= 2
         /\ m.size \in Nat
<1>1. n + 1 \in 1 .. Len(d) /\ n \in Nat /\ Len(d) \in Nat /\ j \in Nat /\ j < Len(fs)
  BY DEF Counted, Delivered, IsList
<1>2. FrameList(fs, q, n + 1, d[n + 1].consumer, m)
  BY <1>1, FramesOfAre
<1>3. m.size \in Nat
  BY <1>1 DEF Delivered
<1>4. Len(fs) \in Nat /\ j + 1 \in 1 .. Len(fs)
  BY <1>1, <1>2 DEF FrameList, IsList
<1>5. j = 0 => fs[j + 1].type = "deliver"
  BY <1>2 DEF FrameList
<1>6. j = 1 => fs[j + 1].type = "header"
  BY <1>2 DEF FrameList
<1>7. j >= 2 => fs[j + 1].type = "body"
  <2>1. j >= 2 => j + 1 \in 3 .. Len(fs)
    BY <1>1, <1>4
  <2> QED BY <1>2, <2>1 DEF FrameList
<1>8. fs[j + 1].channel = q
  BY <1>2, <1>4 DEF FrameList
<1>9. j = 0 \/ j = 1 \/ j >= 2
  BY <1>1
<1>10. ~(j >= 2 /\ j = 0) /\ ~(j >= 2 /\ j = 1) /\ ~(j = 0 /\ j = 1)
  OBVIOUS
<1>11. /\ fs[j + 1].type # "heartbeat"
       /\ fs[j + 1].type = "deliver" <=> j = 0
       /\ fs[j + 1].type = "header" <=> j = 1
       /\ fs[j + 1].type = "body" <=> j >= 2
  <2>1. PICK x : x = fs[j + 1].type
    OBVIOUS
  <2> QED BY <1>5, <1>6, <1>7, <1>9, <1>10, <2>1
<1> QED BY <1>1, <1>2, <1>3, <1>4, <1>8, <1>11

LEMMA NothingMore ==
  ASSUME NEW q, NEW d, Delivered(d), NEW n \in 0 .. Len(d)
  PROVE  Counted(q, d, n, 0)
<1>1. Len(d) \in Nat
  BY DEF Delivered, IsList
<1>2. ASSUME n < Len(d)
      PROVE  0 < Len(FramesOf(q, d, n + 1))
  <2>1. n + 1 \in 1 .. Len(d)
    BY <1>1, <1>2
  <2>2. PICK e : e = FramesOf(q, d, n + 1)
    OBVIOUS
  <2>3. FrameList(e, q, n + 1, d[n + 1].consumer, d[n + 1].message)
    BY <2>1, <2>2, FramesOfAre
  <2>4. Len(e) \in Nat /\ Len(e) >= 2
    BY <2>3 DEF FrameList, IsList
  <2> QED BY <2>2, <2>4, AtLeastTwo
<1> QED BY <1>1, <1>2 DEF Counted

\* The method of a delivery.
LEMMA MethodHandled ==
  ASSUME NEW q, NEW d, Delivered(d), NEW u, NEW l, NEW g, NEW n, NEW j,
         Handled(q, d, u, l, g, n, j), n < Len(d),
         NEW f, f = FramesOf(q, d, n + 1)[j + 1], f.type = "deliver", NEW v,
         v = [tag |-> f.tag, consumer |-> f.consumer, read |-> 0, size |-> 0, body |-> <<>>]
  PROVE  Handled(q, d, v, l, g, n, 1) /\ After(q, d, n, j) = <<n, 1>>
<1> DEFINE fs == FramesOf(q, d, n + 1)
           m == d[n + 1].message
<1>1. /\ Counted(q, d, n, j) /\ GivenAre(d, g, n) /\ Tagged(u, l, n, j)
  BY DEF Handled
<1>2. /\ FrameList(fs, q, n + 1, d[n + 1].consumer, m) /\ n + 1 \in 1 .. Len(d)
      /\ n \in Nat /\ Len(d) \in Nat /\ j = 0
  BY <1>1, NextFrame
<1>3. Len(fs) \in Nat /\ Len(fs) >= 2 /\ f.tag = n + 1 /\ f.consumer = d[n + 1].consumer
  BY <1>2 DEF FrameList, IsList
<1>4. Counted(q, d, n, 1) /\ After(q, d, n, j) = <<n, 1>>
  <2> HIDE DEF fs
  <2>1. Len(fs) > 1 /\ 0 + 1 # Len(fs)
    BY <1>3, AtLeastTwo
  <2>2. Counted(q, d, n, 1)
    BY <1>1, <1>2, <2>1 DEF Counted, fs
  <2> QED BY <1>2, <2>1, <2>2 DEF After, IsLast, fs
<1>5. Carries(d, v)
  <2>1. /\ v.tag = n + 1 /\ v.consumer = d[n + 1].consumer /\ v.read = 0 /\ v.body = <<>>
        /\ v = [tag |-> v.tag, consumer |-> v.consumer, read |-> v.read, size |-> v.size,
                body |-> v.body]
    BY <1>3
  <2>2. v.tag \in 0 .. Len(d) /\ v.tag > 0
    BY <1>2, <2>1
  <2> QED BY <2>1, <2>2, EmptyList DEF Carries
<1>6. Tagged(v, l, n, 1)
  BY <1>1, <1>2, <1>3 DEF Tagged
<1>7. Read(q, d, v, n, 1)
  BY DEF Read
<1> QED BY <1>1, <1>4, <1>5, <1>6, <1>7 DEF Handled

LEMMA PassedOver ==
  ASSUME NEW d, NEW g, NEW n \in Nat, GivenAre(d, g, n), ~(d[n + 1].message.size > 0)
  PROVE  GivenAre(d, g, n + 1)
<1>1. \A t \in 1 .. n + 1 : t \in 1 .. n \/ t = n + 1
  OBVIOUS
<1>2. \A t \in 1 .. n : t \in 1 .. n + 1
  OBVIOUS
<1> QED BY <1>1, <1>2 DEF GivenAre

\* The header of a message.
LEMMA HeaderHandled ==
  ASSUME NEW q, NEW d, Delivered(d), NEW u, NEW l, NEW g, NEW n, NEW j,
         Handled(q, d, u, l, g, n, j), n < Len(d),
         NEW f, f = FramesOf(q, d, n + 1)[j + 1], f.type = "header", NEW v,
         v = [tag |-> u.tag, consumer |-> u.consumer, read |-> 0, size |-> f.length, body |-> u.body]
  PROVE  Handled(q, d, v, u.tag, g, After(q, d, n, j)[1], After(q, d, n, j)[2])
<1> DEFINE fs == FramesOf(q, d, n + 1)
           m == d[n + 1].message
<1>1. /\ Counted(q, d, n, j) /\ GivenAre(d, g, n) /\ Carries(d, u) /\ Tagged(u, l, n, j)
      /\ Read(q, d, u, n, j)
  BY DEF Handled
<1>2. /\ FrameList(fs, q, n + 1, d[n + 1].consumer, m) /\ n + 1 \in 1 .. Len(d)
      /\ n \in Nat /\ Len(d) \in Nat /\ j = 1 /\ m.size \in Nat /\ Len(fs) \in Nat
  BY <1>1, NextFrame
<1>3. /\ Len(fs) >= 2 /\ f.length = m.size /\ (m.size = 0 <=> Len(fs) = 2)
      /\ Len(fs) > 2 => fs[3].from = 0
  BY <1>2 DEF FrameList
<1>4. u.tag = n + 1 /\ u.read = 0
  BY <1>1, <1>2 DEF Tagged, Read
<1>5. Carries(d, v)
  BY <1>1, <1>4 DEF Carries
<1> HIDE DEF m, fs
<1>6. CASE Len(fs) = 2
  <2>1. After(q, d, n, j) = <<n + 1, 0>>
    BY <1>2, <1>6 DEF After, IsLast, fs
  <2>2. GivenAre(d, g, n + 1)
    <3>1. ~(m.size > 0)
      BY <1>2, <1>3, <1>6
    <3> QED BY <1>1, <1>2, <3>1, PassedOver DEF m
  <2>3. Counted(q, d, n + 1, 0)
    BY <1>2, NothingMore
  <2>4. Tagged(v, u.tag, n + 1, 0)
    BY <1>2, <1>4 DEF Tagged
  <2>5. Read(q, d, v, n + 1, 0)
    BY DEF Read
  <2>6. Handled(q, d, v, u.tag, g, n + 1, 0)
    BY <1>5, <2>2, <2>3, <2>4, <2>5 DEF Handled
  <2> QED BY <2>1, <2>6
<1>7. CASE Len(fs) # 2
  <2>1. Len(fs) > 2
    BY <1>2, <1>3, <1>7, AtLeastTwo
  <2>2. After(q, d, n, j) = <<n, 2>>
    BY <1>2, <1>7 DEF After, IsLast, fs
  <2>3. Counted(q, d, n, 2)
    BY <1>1, <1>2, <2>1 DEF Counted, fs
  <2>4. Tagged(v, u.tag, n, 2)
    BY <1>2, <1>4 DEF Tagged
  <2>5. Read(q, d, v, n, 2)
    BY <1>3, <2>1 DEF Read, fs, m
  <2>6. Handled(q, d, v, u.tag, g, n, 2)
    BY <1>1, <1>5, <2>3, <2>4, <2>5 DEF Handled
  <2> QED BY <2>2, <2>6
<1> QED BY <1>6, <1>7

\* The octets of a body that a frame brings.
Brings(data, f) ==
  IsList(data) /\ Len(data) = f.size /\ \A i \in 1 .. Len(data) : data[i] = Datum(f.id, f.from + i)

LEMMA InPayloadAt ==
  ASSUME NEW f, NEW k, ~(k <= HeaderOctets), k <= HeaderOctets + f.size
  PROVE  OctetAt(f, k).i = k - HeaderOctets
<1>1. OctetAt(f, k) = [kind |-> "payload", frame |-> f, i |-> k - HeaderOctets]
  BY Zenon DEF OctetAt
<1> QED BY <1>1

LEMMA Brought ==
  ASSUME NEW s, NEW f, Payload(s, f), Len(s) = f.size, NEW data,
         data = [i \in DOMAIN s |-> Datum(s[i].frame.id, s[i].frame.from + s[i].i)]
  PROVE  Brings(data, f)
<1>1. /\ IsList(s) /\ HeaderOctets \in Nat /\ Len(s) \in Nat /\ DOMAIN s = 1 .. Len(s)
      /\ \A i \in 1 .. Len(s) : s[i] = OctetAt(f, HeaderOctets + i)
  BY DeliveryAssumption, ListIsSeq DEF Payload
<1>2. ASSUME NEW i \in 1 .. Len(s)
      PROVE  s[i].frame = f /\ s[i].i = i
  <2>1. PICK k : k = HeaderOctets + i
    OBVIOUS
  <2>2. ~(k <= HeaderOctets) /\ k <= HeaderOctets + f.size /\ k - HeaderOctets = i
    BY <1>1, <2>1
  <2>3. s[i] = OctetAt(f, k)
    BY <1>1, <2>1
  <2>4. OctetAt(f, k).frame = f
    BY DEF OctetAt
  <2>5. OctetAt(f, k).i = k - HeaderOctets
    BY <2>2, InPayloadAt
  <2> QED BY <2>2, <2>3, <2>4, <2>5
<1>3. data = [i \in 1 .. Len(s) |-> Datum(f.id, f.from + i)]
  BY <1>1, <1>2
<1>4. IsList(data) /\ Len(data) = Len(s)
  BY <1>1, <1>3 DEF IsList
<1>5. \A i \in 1 .. Len(data) : data[i] = Datum(f.id, f.from + i)
  BY <1>3, <1>4
<1> QED BY <1>4, <1>5 DEF Brings

\* A part of the body is put behind the others.
Longer(u, data, v) ==
  v = [tag |-> u.tag, consumer |-> u.consumer, read |-> u.read + Len(data), size |-> u.size,
       body |-> u.body \o data]

LEMMA CarriesOn ==
  ASSUME NEW d, NEW u, Carries(d, u), u.tag > 0, NEW f, NEW data, Brings(data, f),
         f.id = d[u.tag].message.id, f.from = u.read, NEW v, Longer(u, data, v)
  PROVE  Carries(d, v) /\ v.read = f.from + f.size
<1>1. /\ IsList(u.body) /\ u.read = Len(u.body) /\ u.tag \in 0 .. Len(d)
      /\ u.consumer = d[u.tag].consumer
      /\ \A i \in 1 .. Len(u.body) : u.body[i] = Datum(d[u.tag].message.id, i)
  BY DEF Carries
<1>2. IsList(data) /\ Len(data) = f.size
  BY DEF Brings
<1>3. PICK b : b = u.body
  OBVIOUS
<1>4. IsList(b \o data)
  BY <1>1, <1>2, <1>3, ConcatList
<1>5. Len(b \o data) = Len(b) + Len(data)
  BY <1>1, <1>2, <1>3, ConcatList
<1>6. \A i \in 1 .. Len(b) : (b \o data)[i] = b[i]
  BY <1>1, <1>2, <1>3, ConcatList
<1>7. \A i \in 1 .. Len(data) : (b \o data)[Len(b) + i] = data[i]
  BY <1>1, <1>2, <1>3, ConcatList
<1>8. PICK x : x = b \o data
  OBVIOUS
<1>9. Len(b) \in Nat /\ Len(data) \in Nat /\ Len(x) = Len(b) + Len(data)
  BY <1>1, <1>2, <1>3, <1>5, <1>8 DEF IsList
<1>10. ASSUME NEW i \in 1 .. Len(x)
       PROVE  x[i] = Datum(d[u.tag].message.id, i)
  <2>1. CASE i \in 1 .. Len(b)
    BY <1>1, <1>3, <1>6, <1>8, <2>1
  <2>2. CASE i - Len(b) \in 1 .. Len(data)
    <3>1. Len(b) + (i - Len(b)) = i
      BY <1>9
    <3>2. x[i] = data[i - Len(b)]
      BY <1>7, <1>8, <2>2, <3>1
    <3>3. data[i - Len(b)] = Datum(f.id, f.from + (i - Len(b)))
      BY <2>2 DEF Brings
    <3>4. f.from + (i - Len(b)) = i
      BY <1>1, <1>3, <3>1
    <3> QED BY <3>2, <3>3, <3>4
  <2> QED BY <1>9, <2>1, <2>2
<1>11. /\ v.tag = u.tag /\ v.consumer = u.consumer /\ v.read = u.read + Len(data) /\ v.body = x
       /\ v = [tag |-> v.tag, consumer |-> v.consumer, read |-> v.read, size |-> v.size,
               body |-> v.body]
  BY <1>3, <1>8 DEF Longer
<1>12. v.read = Len(x) /\ IsList(x) /\ v.read = f.from + f.size
  BY <1>1, <1>2, <1>3, <1>4, <1>8, <1>9, <1>11
<1>13. v.tag \in 0 .. Len(d) /\ v.tag > 0 /\ v.tag # 0
  BY <1>1, <1>11
<1>14. \A i \in 1 .. Len(v.body) : v.body[i] = Datum(d[v.tag].message.id, i)
  BY <1>10, <1>11
<1>15. IsList(v.body) /\ v.read = Len(v.body) /\ v.consumer = d[v.tag].consumer
  BY <1>1, <1>11, <1>12
<1> QED BY <1>11, <1>12, <1>13, <1>14, <1>15 DEF Carries

\* The last part of a body: its message is given.
LEMMA GivenNext ==
  ASSUME NEW d, NEW g, NEW n \in Nat, GivenAre(d, g, n), d[n + 1].message.size > 0,
         NEW x, x = WholeOf(d, n + 1)
  PROVE  GivenAre(d, Append(g, x), n + 1)
<1>1. IsList(g) /\ x.tag = n + 1
  BY DEF GivenAre, WholeOf
<1>2. PICK h : h = Append(g, x)
  OBVIOUS
<1>3. /\ IsList(h) /\ \A i \in 1 .. Len(g) : h[i] = g[i]
      /\ h[Len(g) + 1] = x /\ DOMAIN g = 1 .. Len(g) /\ Len(g) \in Nat
      /\ DOMAIN h = 1 .. Len(g) + 1
  BY <1>1, <1>2, AppendList
<1>4. \A k \in DOMAIN g : \E t \in 1 .. n : g[k] = WholeOf(d, t) /\ d[t].message.size > 0
  BY DEF GivenAre
<1>5. \A k \in DOMAIN h : \E t \in 1 .. n + 1 : h[k] = WholeOf(d, t) /\ d[t].message.size > 0
  <2> TAKE k \in DOMAIN h
  <2>1. CASE k \in DOMAIN g
    <3>1. PICK t \in 1 .. n : g[k] = WholeOf(d, t) /\ d[t].message.size > 0
      BY <1>4, <2>1
    <3>2. t \in 1 .. n + 1 /\ h[k] = g[k]
      BY <1>3, <2>1
    <3> QED BY <3>1, <3>2
  <2>2. CASE k = Len(g) + 1
    <3>1. n + 1 \in 1 .. n + 1 /\ h[k] = x
      BY <1>3, <2>2
    <3> QED BY <3>1
  <2> QED BY <1>3, <2>1, <2>2
<1>6. \A t \in 1 .. n + 1 : d[t].message.size > 0 => \E k \in DOMAIN h : h[k].tag = t
  <2> SUFFICES ASSUME NEW t \in 1 .. n + 1, d[t].message.size > 0
               PROVE  \E k \in DOMAIN h : h[k].tag = t
    OBVIOUS
  <2>1. CASE t \in 1 .. n
    <3>1. PICK k \in DOMAIN g : g[k].tag = t
      BY <2>1 DEF GivenAre
    <3>2. k \in DOMAIN h /\ h[k] = g[k]
      BY <1>3
    <3> QED BY <3>1, <3>2
  <2>2. CASE t = n + 1
    <3>1. Len(g) + 1 \in DOMAIN h
      BY <1>3
    <3> QED BY <1>1, <1>3, <2>2, <3>1
  <2> QED BY <2>1, <2>2
<1>7. \A k \in DOMAIN g : g[k].tag \in 1 .. n
  BY <1>4 DEF WholeOf
<1>8. \A j, k \in DOMAIN h : j < k => h[j].tag < h[k].tag
  <2> SUFFICES ASSUME NEW j \in DOMAIN h, NEW k \in DOMAIN h, j < k
               PROVE  h[j].tag < h[k].tag
    OBVIOUS
  <2>1. j \in DOMAIN g /\ h[j] = g[j]
    BY <1>3
  <2>2. CASE k \in DOMAIN g
    <3>1. h[k] = g[k]
      BY <1>3, <2>2
    <3> QED BY <2>1, <2>2, <3>1 DEF GivenAre
  <2>3. CASE k = Len(g) + 1
    <3>1. h[k].tag = n + 1
      BY <1>1, <1>3, <2>3
    <3>2. h[j].tag \in 1 .. n
      BY <1>7, <2>1
    <3> QED BY <3>1, <3>2
  <2> QED BY <1>3, <2>2, <2>3
<1> QED BY <1>2, <1>3, <1>5, <1>6, <1>8 DEF GivenAre

\* A message that has been read to its end is that of its delivery.
LEMMA CarriesAll ==
  ASSUME NEW d, NEW u, Carries(d, u), u.tag > 0, u.read = d[u.tag].message.size
  PROVE  [tag |-> u.tag, consumer |-> u.consumer, body |-> u.body] = WholeOf(d, u.tag)
<1>1. /\ IsList(u.body) /\ Len(u.body) = d[u.tag].message.size
      /\ u.consumer = d[u.tag].consumer
      /\ \A i \in 1 .. Len(u.body) : u.body[i] = Datum(d[u.tag].message.id, i)
  BY DEF Carries
<1>2. u.body = Body(d[u.tag].message)
  BY <1>1 DEF IsList, Body
<1> QED BY <1>1, <1>2 DEF WholeOf

\* What the listener of message v is given.
Listens(v, x) == x = [tag |-> v.tag, consumer |-> v.consumer, body |-> v.body]

\* A part of a body.
LEMMA BodyHandled ==
  ASSUME NEW q, NEW d, Delivered(d), NEW u, NEW l, NEW g, NEW n, NEW j,
         Handled(q, d, u, l, g, n, j), n < Len(d),
         NEW f, IsNext(q, d, n, j, f), f.type = "body", NEW data, Brings(data, f), NEW v,
         Longer(u, data, v), NEW x, Listens(v, x)
  PROVE  /\ v.read = v.size <=> IsLast(q, d, n, j)
         /\ v.read = v.size => Handled(q, d, v, l, Append(g, x), n + 1, 0)
         /\ v.read # v.size => Handled(q, d, v, l, g, n, j + 1)
<1> DEFINE fs == FramesOf(q, d, n + 1)
           m == d[n + 1].message
<1>1. f = fs[j + 1]
  BY DEF IsNext
<1>2. /\ Counted(q, d, n, j) /\ GivenAre(d, g, n) /\ Carries(d, u) /\ Tagged(u, l, n, j)
      /\ Read(q, d, u, n, j)
  BY DEF Handled
<1>3. /\ FrameList(fs, q, n + 1, d[n + 1].consumer, m) /\ n + 1 \in 1 .. Len(d)
      /\ n \in Nat /\ Len(d) \in Nat /\ j \in Nat /\ j >= 2 /\ m.size \in Nat
      /\ j + 1 \in 1 .. Len(fs) /\ Len(fs) \in Nat
  BY <1>1, <1>2, NextFrame
<1>4. u.tag = n + 1 /\ u.tag > 0 /\ l = n + 1 /\ u.size = m.size /\ u.read = f.from
  BY <1>1, <1>2, <1>3 DEF Tagged, Read
<1>5. j + 1 \in 3 .. Len(fs)
  BY <1>3
<1>6. /\ f.id = m.id /\ f.from \in Nat /\ f.size \in Nat
      /\ j + 1 < Len(fs) => fs[j + 1 + 1].from = f.from + f.size /\ f.from + f.size < m.size
      /\ j + 1 = Len(fs) => f.from + f.size = m.size
  BY <1>1, <1>3, <1>5 DEF FrameList
<1>7. Carries(d, v) /\ v.read = f.from + f.size
  <2>1. f.id = d[u.tag].message.id /\ f.from = u.read
    BY <1>4, <1>6
  <2>2. Carries(d, u) /\ u.tag > 0
    BY <1>2, <1>4
  <2> QED BY <2>1, <2>2, CarriesOn
<1>8. v.tag = n + 1 /\ v.size = m.size
  BY <1>4 DEF Longer
<1> HIDE DEF fs, m
<1>9. v.read = v.size <=> j + 1 = Len(fs)
  BY <1>3, <1>5, <1>6, <1>7, <1>8
<1>10. CASE j + 1 = Len(fs)
  <2>1. x = WholeOf(d, n + 1)
    <3>1. v.read = d[v.tag].message.size /\ v.tag > 0
      BY <1>3, <1>8, <1>9, <1>10 DEF m
    <3>2. PICK y : y = [tag |-> v.tag, consumer |-> v.consumer, body |-> v.body]
      OBVIOUS
    <3>3. y = WholeOf(d, v.tag)
      BY <1>7, <3>1, <3>2, CarriesAll
    <3>4. x = y
      BY <3>2 DEF Listens
    <3> QED BY <1>8, <3>3, <3>4
  <2>2. m.size > 0
    <3>1. Len(fs) # 2
      <4>1. \A k \in Nat : \A i \in 3 .. k : k # 2
        OBVIOUS
      <4> QED BY <1>3, <1>5, <4>1
    <3>2. m.size # 0
      BY <1>3, <3>1 DEF FrameList
    <3> QED BY <1>3, <3>2
  <2>3. GivenAre(d, Append(g, x), n + 1)
    BY <1>2, <1>3, <2>1, <2>2, GivenNext DEF m
  <2>4. Counted(q, d, n + 1, 0)
    BY <1>3, NothingMore
  <2>5. Tagged(v, l, n + 1, 0)
    BY <1>3, <1>4, <1>8 DEF Tagged
  <2>6. Read(q, d, v, n + 1, 0)
    BY DEF Read
  <2>7. Handled(q, d, v, l, Append(g, x), n + 1, 0)
    BY <1>7, <2>3, <2>4, <2>5, <2>6 DEF Handled
  <2> QED BY <1>9, <1>10, <2>7 DEF fs, IsLast
<1>11. CASE j + 1 # Len(fs)
  <2>1. j + 1 < Len(fs)
    BY <1>3, <1>11
  <2>2. Counted(q, d, n, j + 1)
    BY <1>2, <1>3, <2>1 DEF Counted, fs
  <2>3. Tagged(v, l, n, j + 1)
    BY <1>3, <1>4, <1>8 DEF Tagged
  <2>4. Read(q, d, v, n, j + 1)
    BY <1>3, <1>6, <1>7, <1>8, <2>1 DEF Read, fs, m
  <2>5. Handled(q, d, v, l, g, n, j + 1)
    BY <1>2, <1>7, <2>2, <2>3, <2>4 DEF Handled
  <2> QED BY <1>9, <1>11, <2>5 DEF fs, IsLast
<1> QED BY <1>10, <1>11

-----------------------------------------------------------------------------
(* The frames that are coming                                              *)

\* A frame that has come is handled.
LEMMA FrameGone ==
  ASSUME NEW q, NEW d, Delivered(d), NEW o, NEW f, NEW n, NEW j, Counted(q, d, n, j),
         Coming(q, d, o, {f}, n, j)
  PROVE  /\ n < Len(d) /\ f = FramesOf(q, d, n + 1)[j + 1]
         /\ Coming(q, d, o, {}, After(q, d, n, j)[1], After(q, d, n, j)[2])
<1> DEFINE fs == FramesOf(q, d, n + 1)
<1>1. /\ n < Len(d) /\ f = fs[j + 1]
      /\ \/ n + 1 = Len(d) /\ Rest(o, fs, j + 1)
         \/ n + 2 = Len(d) /\ j + 1 = Len(fs) /\ Rest(o, FramesOf(q, d, n + 2), 0)
  BY DEF Coming
<1>2. n \in Nat /\ j \in Nat /\ Len(d) \in Nat /\ Len(fs) \in Nat
  BY <1>1, NextFrame
<1> HIDE DEF fs
<1>3. CASE n + 1 = Len(d) /\ Rest(o, fs, j + 1) /\ j + 1 = Len(fs)
  <2>1. IsList(o) /\ Len(o) = Len(fs) - (j + 1)
    BY <1>3 DEF Rest
  <2>2. Len(o) = 0
    BY <1>2, <1>3, <2>1
  <2>3. o = <<>>
    BY <2>1, <2>2, EmptyList
  <2>4. Coming(q, d, o, {}, n + 1, 0)
    BY <1>3, <2>3 DEF Coming
  <2>5. After(q, d, n, j) = <<n + 1, 0>>
    BY <1>3 DEF After, IsLast, fs
  <2> QED BY <1>1, <2>4, <2>5 DEF fs
<1>4. CASE n + 1 = Len(d) /\ Rest(o, fs, j + 1) /\ j + 1 # Len(fs)
  <2>1. Coming(q, d, o, {}, n, j + 1)
    BY <1>4 DEF Coming, fs
  <2>2. After(q, d, n, j) = <<n, j + 1>>
    BY <1>4 DEF After, IsLast, fs
  <2> QED BY <1>1, <2>1, <2>2 DEF fs
<1>5. CASE n + 2 = Len(d) /\ j + 1 = Len(fs) /\ Rest(o, FramesOf(q, d, n + 2), 0)
  <2>1. n + 1 + 1 = n + 2
    BY <1>2
  <2>2. Coming(q, d, o, {}, n + 1, 0)
    BY <1>5, <2>1 DEF Coming
  <2>3. After(q, d, n, j) = <<n + 1, 0>>
    BY <1>5 DEF After, IsLast, fs
  <2> QED BY <1>1, <2>2, <2>3 DEF fs
<1> QED BY <1>1, <1>3, <1>4, <1>5

\* The next frame of a queue begins to come.
LEMMA FrameSent ==
  ASSUME NEW q, NEW d, Delivered(d), NEW o, NEW n, NEW j, Counted(q, d, n, j),
         Coming(q, d, o, {}, n, j), o # <<>>
  PROVE  /\ Coming(q, d, Tail(o), {Head(o)}, n, j)
         /\ Head(o).type # "heartbeat" /\ Head(o).channel = q /\ Head(o).size \in Nat
<1> DEFINE fs == FramesOf(q, d, n + 1)
           m == d[n + 1].message
<1>1. n + 1 = Len(d) /\ Rest(o, fs, j)
  BY DEF Coming
<1>2. n < Len(d)
  BY <1>1 DEF Counted
<1>3. /\ n \in Nat /\ j \in Nat /\ Len(fs) \in Nat /\ j + 1 \in 1 .. Len(fs)
      /\ fs[j + 1].type # "heartbeat" /\ fs[j + 1].channel = q
      /\ FrameList(fs, q, n + 1, d[n + 1].consumer, m)
  BY <1>2, NextFrame
<1> HIDE DEF fs, m
<1>4. fs[j + 1].size \in Nat
  BY <1>3 DEF FrameList
<1>5. /\ IsList(o) /\ Len(o) = Len(fs) - j
      /\ \A i \in 1 .. Len(o) : o[i] = fs[j + i]
  BY <1>1 DEF Rest
<1>6. /\ Head(o) = o[1] /\ IsList(Tail(o)) /\ Len(Tail(o)) = Len(o) - 1
      /\ \A i \in 1 .. Len(o) - 1 : Tail(o)[i] = o[i + 1]
      /\ Len(o) \in Nat \ {0}
  BY <1>5, TailList
<1>7. Head(o) = fs[j + 1]
  <2>1. 1 \in 1 .. Len(o)
    BY <1>6
  <2> QED BY <1>5, <1>6, <2>1
<1>8. ASSUME NEW i \in 1 .. Len(Tail(o))
      PROVE  Tail(o)[i] = fs[j + 1 + i]
  <2>1. i \in 1 .. Len(o) - 1 /\ i + 1 \in 1 .. Len(o) /\ j + (i + 1) = j + 1 + i
    BY <1>3, <1>6
  <2> QED BY <1>5, <1>6, <2>1
<1>9. Len(Tail(o)) = Len(fs) - (j + 1)
  BY <1>3, <1>5, <1>6
<1>10. Rest(Tail(o), fs, j + 1)
  BY <1>6, <1>8, <1>9 DEF Rest
<1>11. Coming(q, d, Tail(o), {fs[j + 1]}, n, j)
  BY <1>1, <1>2, <1>10 DEF Coming, fs
<1>12. Coming(q, d, Tail(o), {Head(o)}, n, j)
  <2>1. {Head(o)} = {fs[j + 1]}
    BY <1>7
  <2> QED BY <1>11, <2>1, Zenon
<1>13. Head(o).type # "heartbeat" /\ Head(o).channel = q /\ Head(o).size \in Nat
  BY <1>3, <1>4, <1>7
<1> QED BY <1>12, <1>13

\* A delivery is put behind the others.
Appended(d, e, c) == c = Append(d, e)

LEMMA DeliveredMore ==
  ASSUME NEW d, Delivered(d), NEW e, e.message.size \in Nat, NEW c, Appended(d, e, c)
  PROVE  /\ Delivered(c) /\ Len(c) = Len(d) + 1 /\ Len(d) \in Nat /\ c[Len(d) + 1] = e
         /\ \A t \in 1 .. Len(d) : c[t] = d[t]
<1>1. IsList(d)
  BY DEF Delivered
<1>2. /\ IsList(c) /\ Len(c) = Len(d) + 1 /\ Len(d) \in Nat
      /\ \A t \in 1 .. Len(d) : c[t] = d[t]
      /\ c[Len(d) + 1] = e
  BY <1>1, AppendList DEF Appended
<1>3. \A t \in 1 .. Len(c) : c[t].message.size \in Nat
  <2> TAKE t \in 1 .. Len(c)
  <2>1. CASE t \in 1 .. Len(d)
    BY <1>2, <2>1 DEF Delivered
  <2>2. CASE t = Len(d) + 1
    BY <1>2, <2>2
  <2> QED BY <1>2, <2>1, <2>2
<1> QED BY <1>2, <1>3 DEF Delivered

LEMMA GivenStill ==
  ASSUME NEW d, NEW c, NEW g, NEW n \in Nat, GivenAre(d, g, n), \A t \in 1 .. n : c[t] = d[t]
  PROVE  GivenAre(c, g, n)
<1>1. \A t \in 1 .. n : WholeOf(c, t) = WholeOf(d, t)
  BY DEF WholeOf
<1> QED BY <1>1 DEF GivenAre

LEMMA HandledStill ==
  ASSUME NEW q, NEW d, Delivered(d), NEW e, e.message.size \in Nat, NEW c, Appended(d, e, c),
         NEW u, NEW l, NEW g, NEW n, NEW j, Handled(q, d, u, l, g, n, j)
  PROVE  Handled(q, c, u, l, g, n, j)
<1>1. /\ Counted(q, d, n, j) /\ GivenAre(d, g, n) /\ Carries(d, u) /\ Tagged(u, l, n, j)
      /\ Read(q, d, u, n, j)
  BY DEF Handled
<1>2. /\ Delivered(c) /\ Len(c) = Len(d) + 1 /\ Len(d) \in Nat
      /\ \A t \in 1 .. Len(d) : c[t] = d[t]
  BY DeliveredMore
<1>3. n \in 0 .. Len(d) /\ n \in Nat /\ j \in Nat /\ (n = Len(d) => j = 0)
  BY <1>1, <1>2 DEF Counted
<1>4. GivenAre(c, g, n)
  <2>1. \A t \in 1 .. n : c[t] = d[t]
    BY <1>2, <1>3
  <2> QED BY <1>1, <1>3, <2>1, GivenStill
<1>5. Carries(c, u)
  <2>1. u.tag \in 0 .. Len(d)
    BY <1>1 DEF Carries
  <2>2. u.tag \in 0 .. Len(c) /\ (u.tag > 0 => c[u.tag] = d[u.tag])
    BY <1>2, <2>1
  <2> QED BY <1>1, <2>2 DEF Carries
<1>6. CASE n = Len(d)
  <2>1. Counted(q, c, n, j)
    <3>1. n \in 0 .. Len(c) /\ j = 0
      BY <1>2, <1>3, <1>6
    <3> QED BY <1>2, <3>1, NothingMore
  <2>2. Read(q, c, u, n, j)
    BY <1>3, <1>6 DEF Read
  <2> QED BY <1>1, <1>4, <1>5, <2>1, <2>2 DEF Handled
<1>7. CASE n < Len(d)
  <2>1. n + 1 \in 1 .. Len(d) /\ n \in 0 .. Len(c) /\ n < Len(c) /\ n # Len(c)
    BY <1>2, <1>3, <1>7
  <2>2. c[n + 1] = d[n + 1]
    BY <1>2, <2>1
  <2>3. FramesOf(q, c, n + 1) = FramesOf(q, d, n + 1)
    BY <2>2 DEF FramesOf
  <2>4. Counted(q, c, n, j)
    BY <1>1, <1>7, <2>1, <2>3 DEF Counted
  <2>5. Read(q, c, u, n, j)
    BY <1>1, <2>2, <2>3 DEF Read
  <2> QED BY <1>1, <1>4, <1>5, <2>4, <2>5 DEF Handled
<1> QED BY <1>2, <1>3, <1>6, <1>7

LEMMA ComingStill ==
  ASSUME NEW q, NEW d, Delivered(d), NEW e, e.message.size \in Nat, NEW c, Appended(d, e, c),
         NEW x, NEW n, NEW j, Counted(q, d, n, j), Coming(q, d, <<>>, x, n, j), NEW o,
         o = FramesOf(q, c, Len(c))
  PROVE  Coming(q, c, o, x, n, j) /\ (x = {} => n = Len(d))
<1>1. /\ Delivered(c) /\ Len(c) = Len(d) + 1 /\ Len(d) \in Nat
      /\ \A t \in 1 .. Len(d) : c[t] = d[t]
  BY DeliveredMore
<1>2. n \in Nat /\ j \in Nat /\ n \in 0 .. Len(d)
  BY <1>1 DEF Counted
<1>3. Rest(o, o, 0)
  <2>1. Len(c) \in 1 .. Len(c)
    BY <1>1
  <2>2. IsList(o)
    BY <1>1, <2>1, FramesOfAre DEF FrameList
  <2>3. Len(o) \in Nat /\ Len(o) = Len(o) - 0
    BY <2>2 DEF IsList
  <2>4. \A i \in 1 .. Len(o) : o[i] = o[0 + i]
    OBVIOUS
  <2> QED BY <2>2, <2>3, <2>4 DEF Rest
<1>4. \A fs : \A k \in Nat : Len(fs) \in Nat /\ Rest(<<>>, fs, k) => k = Len(fs)
  BY EmptyList DEF Rest
<1>5. n < Len(d) => Len(FramesOf(q, d, n + 1)) \in Nat /\ j < Len(FramesOf(q, d, n + 1))
  BY NextFrame DEF Counted
<1>6. CASE x = {}
  <2>1. n = Len(d)
    <3>1. ASSUME n + 1 = Len(d), Rest(<<>>, FramesOf(q, d, n + 1), j)
          PROVE  FALSE
      <4>1. n < Len(d)
        BY <1>2, <3>1
      <4>2. j = Len(FramesOf(q, d, n + 1))
        BY <1>2, <1>4, <1>5, <3>1, <4>1
      <4> QED BY <1>2, <1>5, <4>1, <4>2
    <3> QED BY <1>6, <3>1 DEF Coming
  <2>2. n + 1 = Len(c) /\ j = 0 /\ o = FramesOf(q, c, n + 1)
    BY <1>1, <2>1 DEF Counted
  <2>3. Coming(q, c, o, x, n, j)
    BY <1>3, <1>6, <2>2 DEF Coming
  <2> QED BY <2>1, <2>3
<1>7. CASE x # {}
  <2>1. /\ n < Len(d) /\ x = {FramesOf(q, d, n + 1)[j + 1]}
        /\ \/ n + 1 = Len(d) /\ Rest(<<>>, FramesOf(q, d, n + 1), j + 1)
           \/ Rest(<<>>, FramesOf(q, d, n + 2), 0) /\ n + 2 = Len(d)
    BY <1>7 DEF Coming
  <2>2. ASSUME Rest(<<>>, FramesOf(q, d, n + 2), 0), n + 2 = Len(d)
        PROVE  FALSE
    <3>1. n + 2 \in 1 .. Len(d)
      BY <1>2, <2>2
    <3>2. PICK fs : fs = FramesOf(q, d, n + 2)
      OBVIOUS
    <3>3. FrameList(fs, q, n + 2, d[n + 2].consumer, d[n + 2].message)
      BY <3>1, <3>2, FramesOfAre
    <3>4. Len(fs) \in Nat /\ Len(fs) >= 2
      BY <3>3 DEF FrameList, IsList
    <3>5. Len(fs) = 0
      BY <1>4, <2>2, <3>2, <3>4
    <3> QED BY <3>4, <3>5
  <2>3. n + 1 = Len(d) /\ j + 1 = Len(FramesOf(q, d, n + 1))
    <3>1. n + 1 = Len(d) /\ Rest(<<>>, FramesOf(q, d, n + 1), j + 1)
      BY <2>1, <2>2
    <3>2. j + 1 \in Nat
      BY <1>2
    <3> QED BY <1>4, <1>5, <2>1, <3>1, <3>2
  <2>4. n + 1 \in 1 .. Len(d) /\ n + 2 = Len(c) /\ n < Len(c)
    BY <1>1, <1>2, <2>3
  <2>5. FramesOf(q, c, n + 1) = FramesOf(q, d, n + 1)
    BY <1>1, <2>4 DEF FramesOf
  <2>6. o = FramesOf(q, c, n + 2)
    BY <2>4
  <2>7. Coming(q, c, o, x, n, j)
    BY <1>3, <2>1, <2>3, <2>4, <2>5, <2>6 DEF Coming
  <2> QED BY <1>7, <2>7
<1> QED BY <1>6, <1>7

-----------------------------------------------------------------------------
(* The invariant                                                           *)

\* A program that has called shift() for queue q only when it was given a
\* message, and whose messages are to be acknowledged one after the other.
Good(q) == q \notin extra /\ Acks(q) = DOMAIN consumers[q] /\ ~TwoWindows(q)

\* Of the L deliveries only the last one, if any, waits for its acknowledgement:
\* until it has been handled, or k calls of shift() are due.
Alone(L, a, k, n) ==
  /\ L <= n + 1 /\ (n < L => k = 0 /\ a # {})
  /\ k \in 0 .. 1 /\ (k = 1 => a # {})
  /\ \A x \in a : x.tag = L

Shifting(q, n) ==
  Good(q) => q \notin refused /\ Alone(Len(delivered[q]), unacked[q], due[q], n)

\* The frames of queue q that have begun to come.
Begun(q) == Of(q, Waiting(parser, wire))

QueueIn(q) ==
  \E n, j \in Nat :
    /\ Handled(q, delivered[q], current[q], last[q], given[q], n, j)
    /\ Coming(q, delivered[q], out[q], Begun(q), n, j)
    /\ Shifting(q, n)

Deliveries(q) ==
  /\ Delivered(delivered[q])
  /\ \A t \in 1 .. Len(delivered[q]) :
       delivered[q][t].message \in Message /\ delivered[q][t].consumer \in DOMAIN consumers[q]

Waits(q) ==
  \A a \in unacked[q] :
    /\ a.tag \in 1 .. Len(delivered[q])
    /\ a.message = delivered[q][a.tag].message /\ a.consumer = delivered[q][a.tag].consumer

Subscribed(q) ==
  IsList(consumers[q]) /\ \A c \in DOMAIN consumers[q] : consumers[q][c] \in {"ack", "noAck"}

Stored(q) == IsList(ready[q]) /\ \A i \in 1 .. Len(ready[q]) : ready[q][i] \in Message

Listened(q) == due[q] \in 0 .. Len(given[q])

QueueTyped(q) == Deliveries(q) /\ Waits(q) /\ Subscribed(q) /\ Stored(q) /\ Listened(q)

Known == \A f \in Waiting(parser, wire) : f.type = "heartbeat" \/ f.channel \in Queues

Tables ==
  /\ current = [q \in Queues |-> current[q]] /\ last = [q \in Queues |-> last[q]]
  /\ consumers = [q \in Queues |-> consumers[q]] /\ given = [q \in Queues |-> given[q]]
  /\ due = [q \in Queues |-> due[q]] /\ ready = [q \in Queues |-> ready[q]]
  /\ unacked = [q \in Queues |-> unacked[q]] /\ delivered = [q \in Queues |-> delivered[q]]
  /\ out = [q \in Queues |-> out[q]]

Counts ==
  /\ extra \subseteq Queues /\ refused \subseteq Queues
  /\ published \in 0 .. MaxMessages /\ beats \in 0 .. MaxBeats

IInv ==
  /\ InStep(parser, wire) /\ Known /\ Tables /\ Counts
  /\ \A q \in Queues : QueueTyped(q) /\ QueueIn(q)

-----------------------------------------------------------------------------
(* What a step leaves alone                                                *)

SameQueue(q) ==
  /\ current'[q] = current[q] /\ last'[q] = last[q] /\ given'[q] = given[q]
  /\ delivered'[q] = delivered[q] /\ out'[q] = out[q]

SameAcks(q) ==
  /\ consumers'[q] = consumers[q] /\ unacked'[q] = unacked[q] /\ due'[q] = due[q]
  /\ (q \in extra' <=> q \in extra) /\ (q \in refused' <=> q \in refused) /\ window' = window

SameTyped(q) ==
  /\ delivered'[q] = delivered[q] /\ consumers'[q] = consumers[q] /\ unacked'[q] = unacked[q]
  /\ given'[q] = given[q] /\ due'[q] = due[q] /\ ready'[q] = ready[q]

LEMMA ShiftingSame ==
  ASSUME NEW q, NEW n, Shifting(q, n), SameAcks(q), delivered'[q] = delivered[q]
  PROVE  Shifting(q, n)'
<1>1. Good(q)' => Good(q)
  BY DEF Good, Acks, TwoWindows, SameAcks
<1> QED BY <1>1 DEF Shifting, SameAcks, Alone

LEMMA QueueSame ==
  ASSUME NEW q, QueueIn(q), SameQueue(q), SameAcks(q), Begun(q)' = Begun(q)
  PROVE  QueueIn(q)'
<1>1. PICK n, j \in Nat :
        /\ Handled(q, delivered[q], current[q], last[q], given[q], n, j)
        /\ Coming(q, delivered[q], out[q], Begun(q), n, j)
        /\ Shifting(q, n)
  BY DEF QueueIn
<1>2. Shifting(q, n)'
  BY <1>1, ShiftingSame DEF SameQueue
<1>3. Handled(q, delivered'[q], current'[q], last'[q], given'[q], n, j)
  BY <1>1 DEF SameQueue
<1>4. Coming(q, delivered'[q], out'[q], Begun(q)', n, j)
  BY <1>1 DEF SameQueue
<1> QED BY <1>2, <1>3, <1>4 DEF QueueIn

LEMMA TypedSame ==
  ASSUME NEW q, QueueTyped(q), SameTyped(q)
  PROVE  QueueTyped(q)'
BY DEF QueueTyped, SameTyped, Deliveries, Waits, Subscribed, Stored, Listened

\* A step of the broker or of the program leaves the parser and the wire alone.
LEMMA BegunSame ==
  ASSUME parser' = parser, wire' = wire, InStep(parser, wire), Known
  PROVE  /\ InStep(parser, wire)' /\ Known' /\ \A q : Begun(q)' = Begun(q)
BY DEF Known, Begun

LEMMA PublishKeeps ==
  ASSUME IInv, NEW q \in Queues, NEW size \in Sizes, Publish(q, size)
  PROVE  IInv'
<1>1. /\ published < MaxMessages /\ published' = published + 1
      /\ ready' = [ready EXCEPT ![q] = Append(@, [id |-> published + 1, size |-> size])]
      /\ UNCHANGED <<parser, current, last, consumers, given, due, extra, window, unacked,
                     delivered, refused, out, wire, beats>>
  BY DEF Publish, client
<1>2. /\ InStep(parser, wire) /\ Known /\ Tables /\ Counts
      /\ \A p \in Queues : QueueTyped(p) /\ QueueIn(p)
  BY DEF IInv
<1>3. /\ InStep(parser, wire)' /\ Known' /\ \A p : Begun(p)' = Begun(p)
  BY <1>1, <1>2, BegunSame
<1>4. PICK e : e = [id |-> published + 1, size |-> size]
  OBVIOUS
<1>5. e \in Message /\ Counts'
  <2>1. published + 1 \in 1 .. MaxMessages /\ published + 1 \in 0 .. MaxMessages
    BY <1>1, <1>2, DeliveryAssumption DEF Counts
  <2>2. e \in Message
    BY <1>4, <2>1 DEF Message
  <2>3. Counts'
    BY <1>1, <1>2, <2>1 DEF Counts
  <2> QED BY <2>2, <2>3
<1>6. Tables' /\ ready'[q] = Append(ready[q], e) /\ \A p \in Queues : p # q => ready'[p] = ready[p]
  <2>1. ready' = [p \in Queues |-> ready'[p]]
    BY <1>1, <1>2 DEF Tables
  <2>2. Tables'
    BY <1>1, <1>2, <2>1 DEF Tables
  <2>3. \A p \in Queues : ready'[p] = IF p = q THEN Append(ready[q], e) ELSE ready[p]
    BY <1>1, <1>2, <1>4 DEF Tables
  <2> QED BY <2>2, <2>3
<1>7. ASSUME NEW p \in Queues
      PROVE  QueueTyped(p)'
  <2>1. CASE p # q
    <3>1. SameTyped(p)
      BY <1>1, <1>6, <2>1 DEF SameTyped
    <3> QED BY <1>2, <3>1, TypedSame
  <2>2. CASE p = q
    <3>1. Deliveries(q)' /\ Waits(q)' /\ Subscribed(q)' /\ Listened(q)'
      BY <1>1, <1>2 DEF QueueTyped, Deliveries, Waits, Subscribed, Listened
    <3>2. IsList(ready[q]) /\ \A i \in 1 .. Len(ready[q]) : ready[q][i] \in Message
      BY <1>2 DEF QueueTyped, Stored
    <3>3. /\ IsList(ready'[q]) /\ Len(ready'[q]) = Len(ready[q]) + 1 /\ Len(ready[q]) \in Nat
          /\ \A i \in 1 .. Len(ready[q]) : ready'[q][i] = ready[q][i]
          /\ ready'[q][Len(ready[q]) + 1] = e
      BY <1>6, <3>2, AppendList
    <3>4. \A i \in 1 .. Len(ready'[q]) : ready'[q][i] \in Message
      BY <1>5, <3>2, <3>3
    <3>5. Stored(q)'
      BY <3>3, <3>4 DEF Stored
    <3> QED BY <2>2, <3>1, <3>5 DEF QueueTyped
  <2> QED BY <2>1, <2>2
<1>8. ASSUME NEW p \in Queues
      PROVE  QueueIn(p)'
  <2>1. SameQueue(p) /\ SameAcks(p)
    BY <1>1 DEF SameQueue, SameAcks
  <2> QED BY <1>2, <1>3, <2>1, QueueSame
<1> QED BY <1>3, <1>5, <1>6, <1>7, <1>8 DEF IInv

LEMMA HeartbeatKeeps ==
  ASSUME IInv, Heartbeat
  PROVE  IInv'
<1> DEFINE f == Frame("heartbeat", "none", 0)
<1>1. /\ wire = <<>> /\ beats < MaxBeats /\ beats' = beats + 1 /\ wire' = Octets(f)
      /\ UNCHANGED <<parser, current, last, consumers, given, due, extra, window, ready, unacked,
                     delivered, refused, out, published>>
  BY DEF Heartbeat, client
<1>2. /\ InStep(parser, wire) /\ Known /\ Tables /\ Counts
      /\ \A p \in Queues : QueueTyped(p) /\ QueueIn(p)
  BY DEF IInv
<1>3. f.size \in Nat /\ f.type = "heartbeat"
  BY DEF Frame
<1> HIDE DEF f
<1>4. /\ InStep(parser, Octets(f)) /\ Waiting(parser, Octets(f)) = {f}
      /\ Waiting(parser, wire) = {}
  BY <1>1, <1>2, <1>3, Starts
<1>5. InStep(parser, wire)' /\ Known'
  BY <1>1, <1>3, <1>4 DEF Known
<1>6. \A p : Begun(p)' = Begun(p)
  BY <1>1, <1>3, <1>4 DEF Begun, Of
<1>7. Tables' /\ Counts'
  <2>1. beats + 1 \in 0 .. MaxBeats
    BY <1>1, <1>2, DeliveryAssumption DEF Counts
  <2> QED BY <1>1, <1>2, <2>1 DEF Tables, Counts
<1>8. ASSUME NEW p \in Queues
      PROVE  QueueTyped(p)' /\ QueueIn(p)'
  <2>1. SameTyped(p) /\ SameQueue(p) /\ SameAcks(p)
    BY <1>1 DEF SameTyped, SameQueue, SameAcks
  <2> QED BY <1>2, <1>6, <2>1, TypedSame, QueueSame
<1> QED BY <1>5, <1>7, <1>8 DEF IInv

LEMMA SendKeeps ==
  ASSUME IInv, NEW q \in Queues, Send(q)
  PROVE  IInv'
<1> DEFINE f == Head(out[q])
<1>1. /\ wire = <<>> /\ out[q] # <<>> /\ wire' = Octets(f) /\ out' = [out EXCEPT ![q] = Tail(@)]
      /\ UNCHANGED <<parser, current, last, consumers, given, due, extra, window, ready, unacked,
                     delivered, refused, published, beats>>
  BY DEF Send, client
<1>2. /\ InStep(parser, wire) /\ Known /\ Tables /\ Counts
      /\ \A p \in Queues : QueueTyped(p) /\ QueueIn(p)
  BY DEF IInv
<1>3. PICK n, j \in Nat :
        /\ Handled(q, delivered[q], current[q], last[q], given[q], n, j)
        /\ Coming(q, delivered[q], out[q], Begun(q), n, j)
        /\ Shifting(q, n)
  BY <1>2 DEF QueueIn
<1>4. Waiting(parser, wire) = {} /\ \A p : Begun(p) = {}
  BY <1>1, <1>2, Rests DEF Begun, Of
<1>5. /\ Coming(q, delivered[q], Tail(out[q]), {f}, n, j)
      /\ f.type # "heartbeat" /\ f.channel = q /\ f.size \in Nat
  <2>1. Coming(q, delivered[q], out[q], {}, n, j)
    BY <1>3, <1>4
  <2>2. Delivered(delivered[q]) /\ Counted(q, delivered[q], n, j)
    BY <1>2, <1>3 DEF QueueTyped, Deliveries, Handled
  <2> QED BY <1>1, <2>1, <2>2, FrameSent
<1> HIDE DEF f
<1>6. InStep(parser, Octets(f)) /\ Waiting(parser, Octets(f)) = {f}
  BY <1>1, <1>2, <1>5, Starts
<1>7. InStep(parser, wire)' /\ Known'
  BY <1>1, <1>5, <1>6 DEF Known
<1>8. Begun(q)' = {f} /\ \A p : p # q => Begun(p)' = {}
  BY <1>1, <1>5, <1>6 DEF Begun, Of
<1>9. Tables' /\ Counts' /\ out'[q] = Tail(out[q]) /\ \A p \in Queues : p # q => out'[p] = out[p]
  <2>1. out' = [p \in Queues |-> out'[p]]
    BY <1>1, <1>2 DEF Tables
  <2>2. Tables'
    BY <1>1, <1>2, <2>1 DEF Tables
  <2>3. \A p \in Queues : out'[p] = IF p = q THEN Tail(out[q]) ELSE out[p]
    BY <1>1, <1>2 DEF Tables
  <2>4. Counts'
    BY <1>1, <1>2 DEF Counts
  <2> QED BY <2>2, <2>3, <2>4
<1>10. ASSUME NEW p \in Queues
       PROVE  QueueTyped(p)'
  <2>1. SameTyped(p)
    BY <1>1 DEF SameTyped
  <2> QED BY <1>2, <2>1, TypedSame
<1>11. ASSUME NEW p \in Queues
       PROVE  QueueIn(p)'
  <2>1. SameAcks(p)
    BY <1>1 DEF SameAcks
  <2>2. CASE p # q
    <3>1. SameQueue(p)
      BY <1>1, <1>9, <2>2 DEF SameQueue
    <3>2. Begun(p)' = Begun(p)
      BY <1>4, <1>8, <2>2
    <3> QED BY <1>2, <2>1, <3>1, <3>2, QueueSame
  <2>3. CASE p = q
    <3>1. Handled(q, delivered'[q], current'[q], last'[q], given'[q], n, j)
      BY <1>1, <1>3
    <3>2. Coming(q, delivered'[q], out'[q], Begun(q)', n, j)
      BY <1>1, <1>5, <1>8, <1>9
    <3>3. Shifting(q, n)'
      BY <1>1, <1>3, <2>1, <2>3, ShiftingSame
    <3> QED BY <2>3, <3>1, <3>2, <3>3 DEF QueueIn
  <2> QED BY <2>2, <2>3
<1> QED BY <1>7, <1>9, <1>10, <1>11 DEF IInv

LEMMA SubscribeKeeps ==
  ASSUME IInv, NEW q \in Queues, NEW kind \in {"ack", "noAck"}, Subscribe(q, kind)
  PROVE  IInv'
<1>1. /\ consumers' = [consumers EXCEPT ![q] = Append(@, kind)]
      /\ UNCHANGED <<parser, current, last, given, due, extra, window, ready, unacked,
                     delivered, refused, out, wire, published, beats>>
  BY DEF Subscribe, broker
<1>2. /\ InStep(parser, wire) /\ Known /\ Tables /\ Counts
      /\ \A p \in Queues : QueueTyped(p) /\ QueueIn(p)
  BY DEF IInv
<1>3. /\ InStep(parser, wire)' /\ Known' /\ \A p : Begun(p)' = Begun(p)
  BY <1>1, <1>2, BegunSame
<1>4. /\ Tables' /\ Counts' /\ consumers'[q] = Append(consumers[q], kind)
      /\ \A p \in Queues : p # q => consumers'[p] = consumers[p]
  <2>1. consumers' = [p \in Queues |-> consumers'[p]]
    BY <1>1, <1>2 DEF Tables
  <2>2. Tables'
    BY <1>1, <1>2, <2>1 DEF Tables
  <2>3. \A p \in Queues : consumers'[p] = IF p = q THEN Append(consumers[q], kind) ELSE consumers[p]
    BY <1>1, <1>2 DEF Tables
  <2>4. Counts'
    BY <1>1, <1>2 DEF Counts
  <2> QED BY <2>2, <2>3, <2>4
<1>5. IsList(consumers[q]) /\ \A c \in DOMAIN consumers[q] : consumers[q][c] \in {"ack", "noAck"}
  BY <1>2 DEF QueueTyped, Subscribed
<1>6. /\ IsList(consumers'[q]) /\ Len(consumers[q]) \in Nat
      /\ \A i \in 1 .. Len(consumers[q]) : consumers'[q][i] = consumers[q][i]
      /\ consumers'[q][Len(consumers[q]) + 1] = kind
      /\ DOMAIN consumers[q] = 1 .. Len(consumers[q])
      /\ DOMAIN consumers'[q] = 1 .. Len(consumers[q]) + 1
  BY <1>4, <1>5, AppendList
<1>7. /\ DOMAIN consumers[q] \subseteq DOMAIN consumers'[q]
      /\ \A c \in DOMAIN consumers[q] : consumers'[q][c] = consumers[q][c]
      /\ \A c \in DOMAIN consumers'[q] : consumers'[q][c] \in {"ack", "noAck"}
  BY <1>5, <1>6
<1>8. Subscribed(q)'
  BY <1>6, <1>7 DEF Subscribed
<1>9. ASSUME NEW p \in Queues
      PROVE  QueueTyped(p)'
  <2>1. CASE p # q
    <3>1. SameTyped(p)
      BY <1>1, <1>4, <2>1 DEF SameTyped
    <3> QED BY <1>2, <3>1, TypedSame
  <2>2. CASE p = q
    <3>1. Waits(q)' /\ Stored(q)' /\ Listened(q)'
      BY <1>1, <1>2 DEF QueueTyped, Waits, Stored, Listened
    <3>2. Deliveries(q)'
      BY <1>1, <1>2, <1>7 DEF QueueTyped, Deliveries
    <3> QED BY <1>8, <2>2, <3>1, <3>2 DEF QueueTyped
  <2> QED BY <2>1, <2>2
<1>10. Good(q)' => Good(q)
  <2> SUFFICES ASSUME Good(q)'
               PROVE  Good(q)
    OBVIOUS
  <2>1. q \notin extra /\ Acks(q)' = DOMAIN consumers'[q] /\ ~TwoWindows(q)'
    BY <1>1 DEF Good
  <2>2. Acks(q) = DOMAIN consumers[q]
    BY <1>7, <2>1 DEF Acks
  <2>3. Acks(q) \subseteq Acks(q)'
    BY <1>7 DEF Acks
  <2>4. IsFiniteSet(Acks(q)')
    <3>1. IsFiniteSet(1 .. Len(consumers[q]) + 1)
      BY <1>6, FS_Interval
    <3> QED BY <1>6, <2>1, <3>1
  <2>5. /\ Cardinality(Acks(q)) <= Cardinality(Acks(q)')
        /\ Cardinality(Acks(q)) \in Nat /\ Cardinality(Acks(q)') \in Nat
    BY <2>3, <2>4, FS_Subset, FS_CardinalityType
  <2>6. ~TwoWindows(q)
    BY <1>1, <2>1, <2>5 DEF TwoWindows
  <2> QED BY <2>1, <2>2, <2>6 DEF Good
<1>11. ASSUME NEW p \in Queues
       PROVE  QueueIn(p)'
  <2>1. SameQueue(p)
    BY <1>1 DEF SameQueue
  <2>2. CASE p # q
    <3>1. SameAcks(p)
      BY <1>1, <1>4, <2>2 DEF SameAcks
    <3> QED BY <1>2, <1>3, <2>1, <3>1, QueueSame
  <2>3. CASE p = q
    <3>1. PICK n, j \in Nat :
            /\ Handled(q, delivered[q], current[q], last[q], given[q], n, j)
            /\ Coming(q, delivered[q], out[q], Begun(q), n, j)
            /\ Shifting(q, n)
      BY <1>2 DEF QueueIn
    <3>2. Shifting(q, n)'
      BY <1>1, <1>10, <3>1 DEF Shifting, Alone
    <3>3. Handled(q, delivered'[q], current'[q], last'[q], given'[q], n, j)
      BY <1>1, <3>1
    <3>4. Coming(q, delivered'[q], out'[q], Begun(q)', n, j)
      BY <1>1, <1>3, <3>1
    <3> QED BY <2>3, <3>2, <3>3, <3>4 DEF QueueIn
  <2> QED BY <2>2, <2>3
<1> QED BY <1>3, <1>4, <1>9, <1>11 DEF IInv

\* Two subscriptions that acknowledge, each with a window of its own.
LEMMA TwoAreTwo ==
  ASSUME NEW q, Subscribed(q), window = "consumer",
         NEW b \in Acks(q), NEW c \in Acks(q), b # c
  PROVE  TwoWindows(q)
<1>1. IsFiniteSet(Acks(q))
  <2>1. Len(consumers[q]) \in Nat /\ DOMAIN consumers[q] = 1 .. Len(consumers[q])
    BY ListIsSeq DEF Subscribed
  <2>2. IsFiniteSet(1 .. Len(consumers[q]))
    BY <2>1, FS_Interval
  <2>3. Acks(q) \subseteq 1 .. Len(consumers[q])
    BY <2>1 DEF Acks
  <2> QED BY <2>2, <2>3, FS_Subset
<1>2. Cardinality({b, c}) = 2
  <2>1. IsFiniteSet({c}) /\ Cardinality({c}) = 1
    BY FS_Singleton
  <2>2. Cardinality({c} \cup {b}) = Cardinality({c}) + 1
    <3>1. b \notin {c}
      OBVIOUS
    <3> QED BY <2>1, <3>1, FS_AddElement
  <2>3. {c} \cup {b} = {b, c}
    OBVIOUS
  <2> QED BY <2>1, <2>2, <2>3
<1>3. {b, c} \subseteq Acks(q)
  OBVIOUS
<1>4. Cardinality({b, c}) <= Cardinality(Acks(q)) /\ Cardinality(Acks(q)) \in Nat
  BY <1>1, <1>3, FS_Subset, FS_CardinalityType
<1> QED BY <1>2, <1>4 DEF TwoWindows

LEMMA DeliverKeeps ==
  ASSUME IInv, NEW q \in Queues, Deliver(q)
  PROVE  IInv'
<1> DEFINE m == Head(ready[q])
           L == Len(delivered[q])
           t == L + 1
<1>1. PICK c \in DOMAIN consumers[q] :
        /\ MayTake(q, c)
        /\ ready' = [ready EXCEPT ![q] = Tail(@)]
        /\ delivered' = [delivered EXCEPT ![q] = Append(@, [consumer |-> c, message |-> m])]
        /\ out' = [out EXCEPT ![q] = Frames(q, t, c, m)]
        /\ unacked' = IF consumers[q][c] = "noAck" THEN unacked
                      ELSE [unacked EXCEPT ![q] =
                              @ \cup {[tag |-> t, consumer |-> c, message |-> m]}]
  BY DEF Deliver
<1>2. /\ q \notin refused /\ ready[q] # <<>> /\ out[q] = <<>>
      /\ UNCHANGED <<parser, current, last, consumers, given, due, extra, window,
                     refused, wire, published, beats>>
  BY DEF Deliver, client
<1>3. /\ InStep(parser, wire) /\ Known /\ Tables /\ Counts
      /\ \A p \in Queues : QueueTyped(p) /\ QueueIn(p)
  BY DEF IInv
<1>4. /\ InStep(parser, wire)' /\ Known' /\ \A p : Begun(p)' = Begun(p)
  BY <1>2, <1>3, BegunSame
<1>5. PICK e : e = [consumer |-> c, message |-> m]
  OBVIOUS
<1>6. PICK x : x = [tag |-> t, consumer |-> c, message |-> m]
  OBVIOUS
<1>7. IsList(ready[q]) /\ \A i \in 1 .. Len(ready[q]) : ready[q][i] \in Message
  BY <1>3 DEF QueueTyped, Stored
<1>8. /\ m = ready[q][1] /\ IsList(Tail(ready[q])) /\ Len(Tail(ready[q])) = Len(ready[q]) - 1
      /\ \A i \in 1 .. Len(ready[q]) - 1 : Tail(ready[q])[i] = ready[q][i + 1]
      /\ Len(ready[q]) \in Nat \ {0} /\ Len(Tail(ready[q])) \in Nat
  BY <1>2, <1>7, TailList
<1>9. m \in Message /\ m.size \in Nat
  <2>1. 1 \in 1 .. Len(ready[q])
    BY <1>8
  <2>2. m \in Message
    BY <1>7, <1>8, <2>1
  <2>3. m.size \in Sizes
    BY <2>2 DEF Message
  <2> QED BY <2>2, <2>3, DeliveryAssumption
<1>10. e.message = m /\ e.consumer = c /\ e.message.size \in Nat
  BY <1>5, <1>9
<1>11. x.tag = t /\ x.consumer = c /\ x.message = m
  BY <1>6
<1>12. /\ delivered'[q] = Append(delivered[q], e)
       /\ \A p \in Queues : p # q => delivered'[p] = delivered[p]
       /\ delivered' = [p \in Queues |-> delivered'[p]]
  BY <1>1, <1>3, <1>5 DEF Tables
<1>13. /\ out'[q] = Frames(q, t, c, m) /\ \A p \in Queues : p # q => out'[p] = out[p]
       /\ out' = [p \in Queues |-> out'[p]]
  BY <1>1, <1>3 DEF Tables
<1>14. /\ ready'[q] = Tail(ready[q]) /\ \A p \in Queues : p # q => ready'[p] = ready[p]
       /\ ready' = [p \in Queues |-> ready'[p]]
  BY <1>1, <1>3 DEF Tables
<1>15. /\ consumers[q][c] = "noAck" => unacked'[q] = unacked[q]
       /\ consumers[q][c] # "noAck" => unacked'[q] = unacked[q] \cup {x}
       /\ \A p \in Queues : p # q => unacked'[p] = unacked[p]
       /\ unacked' = [p \in Queues |-> unacked'[p]]
  <2>1. CASE consumers[q][c] = "noAck"
    BY <1>1, <1>3, <2>1 DEF Tables
  <2>2. CASE consumers[q][c] # "noAck"
    <3>1. unacked' = [unacked EXCEPT ![q] = @ \cup {x}]
      BY <1>1, <1>6, <2>2
    <3> QED BY <1>3, <2>2, <3>1 DEF Tables
  <2> QED BY <2>1, <2>2
<1>16. Tables' /\ Counts'
  <2>1. Tables'
    BY <1>2, <1>3, <1>12, <1>13, <1>14, <1>15 DEF Tables
  <2>2. Counts'
    BY <1>2, <1>3 DEF Counts
  <2> QED BY <2>1, <2>2
<1>17. Deliveries(q) /\ Waits(q) /\ Subscribed(q) /\ Listened(q)
  BY <1>3 DEF QueueTyped
<1>18. PICK d : d = delivered[q] /\ Delivered(d)
  BY <1>17 DEF Deliveries
<1>19. PICK dd : dd = delivered'[q] /\ Appended(d, e, dd)
  BY <1>12, <1>18 DEF Appended
<1>20. /\ Delivered(dd) /\ Len(dd) = Len(d) + 1 /\ Len(d) \in Nat /\ dd[Len(d) + 1] = e
       /\ \A s \in 1 .. Len(d) : dd[s] = d[s]
  BY <1>10, <1>18, <1>19, DeliveredMore
<1>21. L = Len(d) /\ t = Len(dd) /\ L \in Nat /\ t = L + 1 /\ L < t
  BY <1>18, <1>20
<1> HIDE DEF m, L, t
<1>22. Deliveries(q)'
  <2>1. \A s \in 1 .. Len(dd) : dd[s].message \in Message /\ dd[s].consumer \in DOMAIN consumers[q]
    <3> TAKE s \in 1 .. Len(dd)
    <3>1. CASE s \in 1 .. Len(d)
      BY <1>17, <1>18, <1>20, <3>1 DEF Deliveries
    <3>2. CASE s = Len(d) + 1
      BY <1>9, <1>10, <1>20, <3>2
    <3> QED BY <1>20, <3>1, <3>2
  <2> QED BY <1>2, <1>19, <1>20, <2>1 DEF Deliveries
<1>23. Waits(q)'
  <2> SUFFICES ASSUME NEW a \in unacked'[q]
               PROVE  /\ a.tag \in 1 .. Len(dd)
                      /\ a.message = dd[a.tag].message /\ a.consumer = dd[a.tag].consumer
    BY <1>19 DEF Waits
  <2>1. CASE a \in unacked[q]
    <3>1. a.tag \in 1 .. Len(d) /\ a.message = d[a.tag].message /\ a.consumer = d[a.tag].consumer
      BY <1>17, <1>18, <2>1 DEF Waits
    <3> QED BY <1>20, <3>1
  <2>2. CASE a = x
    <3>1. dd[t] = e /\ t \in 1 .. Len(dd)
      BY <1>20, <1>21
    <3> QED BY <1>10, <1>11, <2>2, <3>1
  <2> QED BY <1>15, <2>1, <2>2
<1>24. Stored(q)'
  <2>1. \A i \in 1 .. Len(Tail(ready[q])) : Tail(ready[q])[i] \in Message
    <3> TAKE i \in 1 .. Len(Tail(ready[q]))
    <3>1. i \in 1 .. Len(ready[q]) - 1 /\ i + 1 \in 1 .. Len(ready[q])
      BY <1>8
    <3> QED BY <1>7, <1>8, <3>1
  <2> QED BY <1>8, <1>14, <2>1 DEF Stored
<1>25. ASSUME NEW p \in Queues
       PROVE  QueueTyped(p)'
  <2>1. CASE p # q
    <3>1. SameTyped(p)
      BY <1>2, <1>12, <1>14, <1>15, <2>1 DEF SameTyped
    <3> QED BY <1>3, <3>1, TypedSame
  <2>2. CASE p = q
    <3>1. Subscribed(q)' /\ Listened(q)'
      BY <1>2, <1>17 DEF Subscribed, Listened
    <3> QED BY <1>22, <1>23, <1>24, <2>2, <3>1 DEF QueueTyped
  <2> QED BY <2>1, <2>2
<1>26. PICK n, j \in Nat :
         /\ Handled(q, d, current[q], last[q], given[q], n, j)
         /\ Coming(q, d, <<>>, Begun(q), n, j)
         /\ Shifting(q, n)
  BY <1>2, <1>3, <1>18 DEF QueueIn
<1>27. Counted(q, d, n, j) /\ n \in 0 .. Len(d)
  BY <1>26 DEF Handled, Counted
<1>28. Handled(q, dd, current[q], last[q], given[q], n, j)
  BY <1>10, <1>18, <1>19, <1>26, HandledStill
<1>29. Coming(q, dd, out'[q], Begun(q), n, j)
  <2>1. dd[Len(dd)] = e
    BY <1>20
  <2>2. out'[q] = FramesOf(q, dd, Len(dd))
    BY <1>10, <1>13, <1>21, <2>1 DEF FramesOf
  <2> QED BY <1>10, <1>18, <1>19, <1>26, <1>27, <2>2, ComingStill
<1>30. Shifting(q, n)'
  <2> SUFFICES ASSUME Good(q)'
               PROVE  q \notin refused' /\ Alone(Len(delivered'[q]), unacked'[q], due'[q], n)
    BY DEF Shifting
  <2>1. Good(q)
    BY <1>2 DEF Good, Acks, TwoWindows
  <2>2. q \notin refused /\ Alone(L, unacked[q], due[q], n)
    BY <1>18, <1>21, <1>26, <2>1 DEF Shifting
  <2>3. c \in Acks(q) /\ consumers[q][c] # "noAck" /\ Acks(q) = DOMAIN consumers[q]
    BY <2>1 DEF Good, Acks
  <2>4. unacked[q] = {}
    <3> SUFFICES ASSUME NEW a \in unacked[q]
                 PROVE  FALSE
      OBVIOUS
    <3>1. window = "consumer" /\ a.consumer # c
      <4>1. MayTake(q, c)
        BY <1>1
      <4>2. consumers[q][c] = "ack"
        BY <2>3 DEF Acks
      <4> QED BY <4>1, <4>2 DEF MayTake
    <3>2. a.consumer \in DOMAIN consumers[q]
      <4>1. a.tag \in 1 .. Len(d) /\ a.consumer = d[a.tag].consumer
        BY <1>17, <1>18 DEF Waits
      <4> QED BY <1>17, <1>18, <4>1 DEF Deliveries
    <3>3. TwoWindows(q)
      BY <1>17, <2>3, <3>1, <3>2, TwoAreTwo
    <3> QED BY <2>1, <3>3 DEF Good
  <2>5. due[q] = 0
    BY <2>2, <2>4 DEF Alone
  <2>6. unacked'[q] = {x}
    BY <1>15, <2>3, <2>4
  <2>7. Alone(t, {x}, 0, n)
    <3>1. ~(n < L)
      BY <2>2, <2>4 DEF Alone
    <3>2. t <= n + 1
      BY <1>21, <1>27, <3>1
    <3> QED BY <1>11, <3>2 DEF Alone
  <2> QED BY <1>2, <1>19, <1>21, <2>5, <2>6, <2>7
<1>31. ASSUME NEW p \in Queues
       PROVE  QueueIn(p)'
  <2>1. CASE p # q
    <3>1. SameQueue(p) /\ SameAcks(p)
      BY <1>2, <1>12, <1>13, <1>15, <2>1 DEF SameQueue, SameAcks
    <3> QED BY <1>3, <1>4, <3>1, QueueSame
  <2>2. CASE p = q
    <3>1. Handled(q, delivered'[q], current'[q], last'[q], given'[q], n, j)
      BY <1>2, <1>19, <1>28
    <3>2. Coming(q, delivered'[q], out'[q], Begun(q)', n, j)
      BY <1>4, <1>19, <1>29
    <3> QED BY <1>30, <2>2, <3>1, <3>2 DEF QueueIn
  <2> QED BY <2>1, <2>2
<1> QED BY <1>4, <1>16, <1>25, <1>31 DEF IInv

\* shift() leaves at most fewer messages without an acknowledgement.
LEMMA ShiftLastSpares ==
  ASSUME Tables, Counts, NEW q \in Queues, ShiftLast(q)
  PROVE  /\ unacked' = [p \in Queues |-> unacked'[p]] /\ refused' \subseteq Queues
         /\ unacked'[q] \subseteq unacked[q]
         /\ \A p \in Queues :
              p # q => unacked'[p] = unacked[p] /\ (p \in refused' <=> p \in refused)
         /\ q \notin refused /\ last[q] # 0 =>
              /\ unacked'[q] = {a \in unacked[q] : a.tag # last[q]}
              /\ (\E a \in unacked[q] : a.tag = last[q]) => refused' = refused
<1>1. unacked = [p \in Queues |-> unacked[p]] /\ refused \subseteq Queues
  BY DEF Tables, Counts
<1>2. CASE last[q] = 0 \/ q \in refused
  <2>1. unacked' = unacked /\ refused' = refused
    <3>1. CASE last[q] = 0
      BY <3>1 DEF ShiftLast
    <3>2. CASE last[q] # 0 /\ q \in refused
      <4>1. Acknowledged(q, last[q])
        BY <3>2 DEF ShiftLast
      <4> QED BY <3>2, <4>1 DEF Acknowledged
    <3> QED BY <1>2, <3>1, <3>2
  <2> QED BY <1>1, <1>2, <2>1
<1>3. CASE last[q] # 0 /\ q \notin refused
  <2>1. Acknowledged(q, last[q])
    BY <1>3 DEF ShiftLast
  <2>2. /\ unacked' = [unacked EXCEPT ![q] = {a \in @ : a.tag # last[q]}]
        /\ (\E a \in unacked[q] : a.tag = last[q]) => refused' = refused
        /\ refused' = refused \/ refused' = refused \cup {q}
    BY <1>3, <2>1 DEF Acknowledged
  <2>3. \A p \in Queues : p # q => (p \in refused' <=> p \in refused)
    BY <2>2
  <2>4. refused' \subseteq Queues
    BY <1>1, <2>2
  <2>5. /\ unacked'[q] = {a \in unacked[q] : a.tag # last[q]}
        /\ \A p \in Queues : p # q => unacked'[p] = unacked[p]
        /\ unacked' = [p \in Queues |-> unacked'[p]]
    BY <1>1, <2>2
  <2> QED BY <2>2, <2>3, <2>4, <2>5
<1> QED BY <1>2, <1>3

\* A call of shift() for q, which may have been due.
LEMMA ShiftLastKeeps ==
  ASSUME IInv, NEW q \in Queues, ShiftLast(q), due' = [due EXCEPT ![q] = due'[q]],
         due'[q] \in 0 .. due[q], extra' \in {extra, extra \cup {q}},
         q \notin extra' => due[q] > 0 /\ due'[q] = due[q] - 1
  PROVE  IInv'
<1>1. UNCHANGED <<parser, current, last, consumers, given, window, ready, delivered, out, wire,
                  published, beats>>
  BY DEF ShiftLast
<1>2. /\ InStep(parser, wire) /\ Known /\ Tables /\ Counts
      /\ \A p \in Queues : QueueTyped(p) /\ QueueIn(p)
  BY DEF IInv
<1>3. /\ InStep(parser, wire)' /\ Known' /\ \A p : Begun(p)' = Begun(p)
  BY <1>1, <1>2, BegunSame
<1>4. /\ unacked' = [p \in Queues |-> unacked'[p]] /\ refused' \subseteq Queues
      /\ unacked'[q] \subseteq unacked[q]
      /\ \A p \in Queues : p # q => unacked'[p] = unacked[p] /\ (p \in refused' <=> p \in refused)
      /\ q \notin refused /\ last[q] # 0 =>
           /\ unacked'[q] = {a \in unacked[q] : a.tag # last[q]}
           /\ (\E a \in unacked[q] : a.tag = last[q]) => refused' = refused
  BY <1>2, ShiftLastSpares
<1>5. /\ due' = [p \in Queues |-> due'[p]]
      /\ \A p \in Queues : p # q => due'[p] = due[p]
  BY <1>2 DEF Tables
<1>6. extra' \subseteq Queues /\ \A p \in Queues : p # q => (p \in extra' <=> p \in extra)
  BY <1>2 DEF Counts
<1>7. Tables' /\ Counts'
  <2>1. Tables'
    BY <1>1, <1>2, <1>4, <1>5 DEF Tables
  <2>2. Counts'
    BY <1>1, <1>2, <1>4, <1>6 DEF Counts
  <2> QED BY <2>1, <2>2
<1>8. ASSUME NEW p \in Queues
      PROVE  QueueTyped(p)'
  <2>1. CASE p # q
    <3>1. SameTyped(p)
      BY <1>1, <1>4, <1>5, <2>1 DEF SameTyped
    <3> QED BY <1>2, <3>1, TypedSame
  <2>2. CASE p = q
    <3>1. Deliveries(q) /\ Waits(q) /\ Subscribed(q) /\ Stored(q) /\ Listened(q)
      BY <1>2 DEF QueueTyped
    <3>2. Deliveries(q)' /\ Subscribed(q)' /\ Stored(q)'
      BY <1>1, <3>1 DEF Deliveries, Subscribed, Stored
    <3>3. Waits(q)'
      BY <1>1, <1>4, <3>1 DEF Waits
    <3>4. Listened(q)'
      <4>1. due[q] \in 0 .. Len(given[q]) /\ Len(given[q]) \in Nat
        <5>1. PICK n, j \in Nat : Handled(q, delivered[q], current[q], last[q], given[q], n, j)
          BY <1>2 DEF QueueIn
        <5> QED BY <3>1, <5>1 DEF Listened, Handled, GivenAre, IsList
      <4> QED BY <1>1, <4>1 DEF Listened
    <3> QED BY <2>2, <3>2, <3>3, <3>4 DEF QueueTyped
  <2> QED BY <2>1, <2>2
<1>9. ASSUME NEW p \in Queues
      PROVE  QueueIn(p)'
  <2>1. CASE p # q
    <3>1. SameQueue(p) /\ SameAcks(p)
      BY <1>1, <1>4, <1>5, <1>6, <2>1 DEF SameQueue, SameAcks
    <3> QED BY <1>2, <1>3, <3>1, QueueSame
  <2>2. CASE p = q
    <3>1. PICK n, j \in Nat :
            /\ Handled(q, delivered[q], current[q], last[q], given[q], n, j)
            /\ Coming(q, delivered[q], out[q], Begun(q), n, j)
            /\ Shifting(q, n)
      BY <1>2 DEF QueueIn
    <3>2. Handled(q, delivered'[q], current'[q], last'[q], given'[q], n, j)
      BY <1>1, <3>1
    <3>3. Coming(q, delivered'[q], out'[q], Begun(q)', n, j)
      BY <1>1, <1>3, <3>1
    <3>4. Shifting(q, n)'
      <4> SUFFICES ASSUME Good(q)'
                   PROVE  q \notin refused' /\ Alone(Len(delivered[q]), unacked'[q], due'[q], n)
        BY <1>1 DEF Shifting
      <4>1. Good(q) /\ q \notin extra'
        BY <1>1 DEF Good, Acks, TwoWindows
      <4>2. q \notin refused /\ Alone(Len(delivered[q]), unacked[q], due[q], n)
        BY <3>1, <4>1 DEF Shifting
      <4>3. due[q] = 1 /\ due'[q] = 0 /\ unacked[q] # {} /\ ~(n < Len(delivered[q]))
        BY <4>1, <4>2 DEF Alone
      <4>4. \A a \in unacked[q] : a.tag = Len(delivered[q])
        BY <4>2 DEF Alone
      <4>5. PICK a \in unacked[q] : a.tag = Len(delivered[q])
        BY <4>3, <4>4
      <4>6. Len(delivered[q]) \in Nat \ {0}
        <5>1. a.tag \in 1 .. Len(delivered[q])
          BY <1>2 DEF QueueTyped, Waits
        <5>2. Len(delivered[q]) \in Nat
          BY <1>2 DEF QueueTyped, Deliveries, Delivered, IsList
        <5> QED BY <5>1, <5>2
      <4>7. last[q] = Len(delivered[q])
        <5>1. Counted(q, delivered[q], n, j) /\ Tagged(current[q], last[q], n, j)
          BY <3>1 DEF Handled
        <5>2. n = Len(delivered[q]) /\ j = 0
          BY <4>3, <4>6, <5>1 DEF Counted
        <5> QED BY <5>1, <5>2 DEF Tagged
      <4>8. /\ unacked'[q] = {b \in unacked[q] : b.tag # last[q]}
            /\ refused' = refused
        BY <1>4, <4>2, <4>5, <4>6, <4>7
      <4>9. unacked'[q] = {}
        BY <4>4, <4>7, <4>8
      <4> QED BY <4>2, <4>3, <4>8, <4>9 DEF Alone
    <3> QED BY <2>2, <3>2, <3>3, <3>4 DEF QueueIn
  <2> QED BY <2>1, <2>2
<1> QED BY <1>3, <1>7, <1>8, <1>9 DEF IInv

LEMMA ShiftKeeps ==
  ASSUME IInv, NEW q \in Queues, Shift(q) \/ ShiftAgain(q)
  PROVE  IInv'
<1>1. due = [p \in Queues |-> due[p]] /\ due[q] \in 0 .. Len(given[q])
  BY DEF IInv, Tables, QueueTyped, Listened
<1>2. CASE Shift(q)
  <2>1. due[q] > 0 /\ due' = [due EXCEPT ![q] = @ - 1] /\ extra' = extra /\ ShiftLast(q)
    BY <1>2 DEF Shift
  <2>2. due'[q] = due[q] - 1 /\ due' = [due EXCEPT ![q] = due'[q]]
    BY <1>1, <2>1
  <2>3. due'[q] \in 0 .. due[q]
    BY <1>1, <2>1, <2>2
  <2> QED BY <2>1, <2>2, <2>3, ShiftLastKeeps
<1>3. CASE ShiftAgain(q)
  <2>1. due[q] = 0 /\ due' = due /\ extra' = extra \cup {q} /\ ShiftLast(q)
    BY <1>3 DEF ShiftAgain
  <2>2. due' = [due EXCEPT ![q] = due'[q]]
    BY <1>1, <2>1
  <2>3. due'[q] \in 0 .. due[q]
    BY <2>1
  <2> QED BY <2>1, <2>2, <2>3, ShiftLastKeeps
<1> QED BY <1>2, <1>3

\* What a step of the parser leaves alone.
Elsewhere ==
  UNCHANGED <<consumers, extra, window, ready, unacked, delivered, refused, out, published, beats>>

\* An octet that ends no frame.
LEMMA OctetKeeps ==
  ASSUME IInv, Elsewhere, UNCHANGED <<current, last, given, due>>,
         InStep(parser', wire'), Waiting(parser', wire') = Waiting(parser, wire)
  PROVE  IInv'
<1>1. /\ InStep(parser, wire) /\ Known /\ Tables /\ Counts
      /\ \A p \in Queues : QueueTyped(p) /\ QueueIn(p)
  BY DEF IInv
<1>2. InStep(parser, wire)' /\ Known' /\ \A p : Begun(p)' = Begun(p)
  BY <1>1 DEF Known, Begun
<1>3. Tables' /\ Counts'
  BY <1>1 DEF Tables, Counts, Elsewhere
<1>4. ASSUME NEW p \in Queues
      PROVE  QueueTyped(p)' /\ QueueIn(p)'
  <2>1. SameTyped(p) /\ SameQueue(p) /\ SameAcks(p)
    BY DEF SameTyped, SameQueue, SameAcks, Elsewhere
  <2> QED BY <1>1, <1>2, <2>1, TypedSame, QueueSame
<1> QED BY <1>2, <1>3, <1>4 DEF IInv

\* What a frame of queue q may change: what is kept of that queue.
LEMMA HandlingKeeps ==
  ASSUME IInv, NEW q \in Queues, Elsewhere,
         InStep(parser', wire'), Waiting(parser', wire') = {},
         \A p \in Queues : p # q => Begun(p) = {},
         current' = [current EXCEPT ![q] = current'[q]], last' = [last EXCEPT ![q] = last'[q]],
         given' = [given EXCEPT ![q] = given'[q]], due' = [due EXCEPT ![q] = due'[q]],
         Listened(q)', QueueIn(q)'
  PROVE  IInv'
<1>1. /\ InStep(parser, wire) /\ Known /\ Tables /\ Counts
      /\ \A p \in Queues : QueueTyped(p) /\ QueueIn(p)
  BY DEF IInv
<1>2. InStep(parser, wire)' /\ Known' /\ \A p : Begun(p)' = {}
  BY DEF Known, Begun, Of
<1>3. /\ current' = [p \in Queues |-> current'[p]] /\ last' = [p \in Queues |-> last'[p]]
      /\ given' = [p \in Queues |-> given'[p]] /\ due' = [p \in Queues |-> due'[p]]
      /\ \A p \in Queues : p # q => /\ current'[p] = current[p] /\ last'[p] = last[p]
                                    /\ given'[p] = given[p] /\ due'[p] = due[p]
  BY <1>1 DEF Tables
<1>4. Tables' /\ Counts'
  BY <1>1, <1>3 DEF Tables, Counts, Elsewhere
<1>5. ASSUME NEW p \in Queues
      PROVE  QueueTyped(p)' /\ QueueIn(p)'
  <2>1. CASE p # q
    <3>1. SameTyped(p) /\ SameQueue(p) /\ SameAcks(p) /\ Begun(p)' = Begun(p)
      BY <1>2, <1>3, <2>1 DEF SameTyped, SameQueue, SameAcks, Elsewhere
    <3> QED BY <1>1, <3>1, TypedSame, QueueSame
  <2>2. CASE p = q
    <3>1. Deliveries(q)' /\ Waits(q)' /\ Subscribed(q)' /\ Stored(q)'
      BY <1>1 DEF QueueTyped, Deliveries, Waits, Subscribed, Stored, Elsewhere
    <3> QED BY <2>2, <3>1 DEF QueueTyped
  <2> QED BY <2>1, <2>2
<1> QED BY <1>2, <1>4, <1>5 DEF IInv

\* How far queue q is, after its frame.
LEMMA QueueOn ==
  ASSUME NEW q, Elsewhere, Waiting(parser', wire') = {}, NEW n \in Nat, NEW j \in Nat,
         Handled(q, delivered[q], current'[q], last'[q], given'[q], n, j),
         Coming(q, delivered[q], out[q], {}, n, j),
         Good(q) => q \notin refused /\ Alone(Len(delivered[q]), unacked[q], due'[q], n)
  PROVE  QueueIn(q)'
<1>1. Begun(q)' = {}
  BY DEF Begun, Of
<1>2. Good(q)' => Good(q)
  BY DEF Good, Acks, TwoWindows, Elsewhere
<1>3. Shifting(q, n)'
  BY <1>2 DEF Shifting, Elsewhere
<1>4. Handled(q, delivered'[q], current'[q], last'[q], given'[q], n, j)
  BY DEF Elsewhere
<1>5. Coming(q, delivered'[q], out'[q], Begun(q)', n, j)
  BY <1>1 DEF Elsewhere
<1> QED BY <1>3, <1>4, <1>5 DEF QueueIn

LEMMA AloneOn ==
  ASSUME NEW L, NEW a, NEW k, NEW n \in Nat, L \in Nat, Alone(L, a, k, n)
  PROVE  Alone(L, a, k, n + 1)
<1>1. L <= n + 1 + 1 /\ (n + 1 < L => n < L)
  BY DEF Alone
<1> QED BY <1>1 DEF Alone

\* The frame f of queue q that has come: what is known of it.
Arrived(q, f, n, j) ==
  /\ Delivered(delivered[q]) /\ n \in Nat /\ Len(delivered[q]) \in Nat
  /\ n < Len(delivered[q]) /\ f = FramesOf(q, delivered[q], n + 1)[j + 1]
  /\ Handled(q, delivered[q], current[q], last[q], given[q], n, j)
  /\ Shifting(q, n)
  /\ Coming(q, delivered[q], out[q], {}, After(q, delivered[q], n, j)[1],
            After(q, delivered[q], n, j)[2])

LEMMA FrameArrives ==
  ASSUME IInv, NEW f, Waiting(parser, wire) = {f}, f.type # "heartbeat", NEW q, q = f.channel
  PROVE  /\ q \in Queues /\ \A p \in Queues : p # q => Begun(p) = {}
         /\ \E n, j \in Nat : Arrived(q, f, n, j)
<1>1. Known /\ \A p \in Queues : QueueTyped(p) /\ QueueIn(p)
  BY DEF IInv
<1>2. q \in Queues
  BY <1>1 DEF Known
<1>3. Begun(q) = {f} /\ \A p \in Queues : p # q => Begun(p) = {}
  BY DEF Begun, Of
<1>4. PICK n, j \in Nat :
        /\ Handled(q, delivered[q], current[q], last[q], given[q], n, j)
        /\ Coming(q, delivered[q], out[q], {f}, n, j)
        /\ Shifting(q, n)
  BY <1>1, <1>2, <1>3 DEF QueueIn
<1>5. Delivered(delivered[q]) /\ Len(delivered[q]) \in Nat /\ Counted(q, delivered[q], n, j)
  BY <1>1, <1>2, <1>4 DEF QueueTyped, Deliveries, Delivered, IsList, Handled
<1>6. /\ n < Len(delivered[q]) /\ f = FramesOf(q, delivered[q], n + 1)[j + 1]
      /\ Coming(q, delivered[q], out[q], {}, After(q, delivered[q], n, j)[1],
                After(q, delivered[q], n, j)[2])
  <2>1. PICK d, o : d = delivered[q] /\ o = out[q]
    OBVIOUS
  <2>2. Delivered(d) /\ Counted(q, d, n, j) /\ Coming(q, d, o, {f}, n, j)
    BY <1>4, <1>5, <2>1
  <2>3. n < Len(d)
    BY <2>2, FrameGone
  <2>4. f = FramesOf(q, d, n + 1)[j + 1]
    BY <2>2 DEF Coming
  <2>5. Coming(q, d, o, {}, After(q, d, n, j)[1], After(q, d, n, j)[2])
    BY <2>2, FrameGone
  <2> QED BY <2>1, <2>3, <2>4, <2>5
<1>7. Arrived(q, f, n, j)
  BY <1>4, <1>5, <1>6 DEF Arrived
<1> QED BY <1>2, <1>3, <1>7

\* What handling a frame leaves of the messages that wait for an acknowledgement.
LEMMA StillAlone ==
  ASSUME NEW q, NEW f, NEW n, NEW j, Arrived(q, f, n, j)
  PROVE  /\ Good(q) => q \notin refused /\ Alone(Len(delivered[q]), unacked[q], due[q], n)
         /\ Good(q) => q \notin refused /\ Alone(Len(delivered[q]), unacked[q], due[q], n + 1)
         /\ Good(q) => Alone(Len(delivered[q]), unacked[q], due[q] + 1, n + 1)
         /\ Len(delivered[q]) \in Nat /\ n \in Nat
<1>1. Len(delivered[q]) \in Nat /\ n \in Nat /\ n < Len(delivered[q]) /\ Shifting(q, n)
  BY DEF Arrived
<1>2. ASSUME Good(q)
      PROVE  /\ q \notin refused /\ Alone(Len(delivered[q]), unacked[q], due[q], n)
             /\ Alone(Len(delivered[q]), unacked[q], due[q], n + 1)
             /\ Alone(Len(delivered[q]), unacked[q], due[q] + 1, n + 1)
  <2>1. q \notin refused /\ Alone(Len(delivered[q]), unacked[q], due[q], n)
    BY <1>1, <1>2 DEF Shifting
  <2>2. Alone(Len(delivered[q]), unacked[q], due[q], n + 1)
    BY <1>1, <2>1, AloneOn
  <2>3. due[q] = 0 /\ unacked[q] # {} /\ ~(n + 1 < Len(delivered[q]))
    BY <1>1, <2>1 DEF Alone
  <2>4. Alone(Len(delivered[q]), unacked[q], 0 + 1, n + 1)
    BY <2>2, <2>3 DEF Alone
  <2> QED BY <2>1, <2>2, <2>3, <2>4
<1> QED BY <1>1, <1>2

\* The method of a delivery.
LEMMA DeliverFrameKeeps ==
  ASSUME IInv, NEW f, Waiting(parser, wire) = {f}, BasicDeliver(f), Elsewhere,
         InStep(parser', wire'), Waiting(parser', wire') = {}
  PROVE  IInv'
<1> DEFINE q == f.channel
           v == [tag |-> f.tag, consumer |-> f.consumer, read |-> 0, size |-> 0, body |-> <<>>]
<1>1. /\ f.type = "deliver" /\ current' = [current EXCEPT ![q] = v]
      /\ UNCHANGED <<last, given, due>>
  BY DEF BasicDeliver
<1>2. f.type # "heartbeat"
  BY <1>1
<1>3. PICK p : p = q
  OBVIOUS
<1>4. p \in Queues /\ \A r \in Queues : r # p => Begun(r) = {}
  BY <1>2, <1>3, FrameArrives
<1>5. PICK n, j \in Nat : Arrived(p, f, n, j)
  BY <1>2, <1>3, FrameArrives
<1>6. Tables /\ QueueTyped(p)
  BY <1>4 DEF IInv
<1>7. current'[p] = v /\ current' = [current EXCEPT ![p] = current'[p]]
  BY <1>1, <1>3, <1>4, <1>6 DEF Tables
<1>8. /\ last' = [last EXCEPT ![p] = last'[p]] /\ given' = [given EXCEPT ![p] = given'[p]]
      /\ due' = [due EXCEPT ![p] = due'[p]]
  BY <1>1, <1>4, <1>6 DEF Tables
<1>9. Listened(p)'
  BY <1>1, <1>6 DEF QueueTyped, Listened
<1>10. PICK w : w = v
  OBVIOUS
<1>11. /\ Handled(p, delivered[p], w, last[p], given[p], n, 1)
       /\ After(p, delivered[p], n, j) = <<n, 1>>
  <2>1. /\ Delivered(delivered[p]) /\ n < Len(delivered[p])
        /\ Handled(p, delivered[p], current[p], last[p], given[p], n, j)
        /\ f = FramesOf(p, delivered[p], n + 1)[j + 1]
    BY <1>5 DEF Arrived
  <2> QED BY <1>1, <1>10, <2>1, MethodHandled
<1>12. Coming(p, delivered[p], out[p], {}, n, 1)
  BY <1>5, <1>11 DEF Arrived
<1>13. QueueIn(p)'
  <2>1. Good(p) => p \notin refused /\ Alone(Len(delivered[p]), unacked[p], due'[p], n)
    BY <1>1, <1>5, StillAlone
  <2>2. Handled(p, delivered[p], current'[p], last'[p], given'[p], n, 1)
    BY <1>1, <1>7, <1>10, <1>11
  <2> QED BY <1>12, <2>1, <2>2, QueueOn
<1> QED BY <1>4, <1>7, <1>8, <1>9, <1>13, HandlingKeeps

LEMMA NewSize ==
  ASSUME NEW u, NEW s,
         u = [tag |-> u.tag, consumer |-> u.consumer, read |-> u.read, size |-> u.size,
              body |-> u.body], NEW w,
         w = [tag |-> u.tag, consumer |-> u.consumer, read |-> 0, size |-> s, body |-> u.body]
  PROVE  w = [[u EXCEPT !.read = 0] EXCEPT !.size = s]
<1>1. PICK a, b, c, d, e :
        u.tag = a /\ u.consumer = b /\ u.read = c /\ u.size = d /\ u.body = e
  OBVIOUS
<1>2. u = [tag |-> a, consumer |-> b, read |-> c, size |-> d, body |-> e]
  BY <1>1
<1>3. w = [tag |-> a, consumer |-> b, read |-> 0, size |-> s, body |-> e]
  BY <1>1
<1>4. [u EXCEPT !.read = 0] = [tag |-> a, consumer |-> b, read |-> 0, size |-> d, body |-> e]
  BY <1>2
<1>5. [[u EXCEPT !.read = 0] EXCEPT !.size = s]
        = [tag |-> a, consumer |-> b, read |-> 0, size |-> s, body |-> e]
  <2>1. PICK y : y = [u EXCEPT !.read = 0]
    OBVIOUS
  <2>2. y = [tag |-> a, consumer |-> b, read |-> 0, size |-> d, body |-> e]
    BY <1>4, <2>1
  <2>3. [y EXCEPT !.size = s] = [tag |-> a, consumer |-> b, read |-> 0, size |-> s, body |-> e]
    BY <2>2
  <2> QED BY <2>1, <2>3
<1> QED BY <1>3, <1>5

\* The header of a message.
LEMMA HeaderFrameKeeps ==
  ASSUME IInv, NEW f, Waiting(parser, wire) = {f}, OnContentHeader(f), Elsewhere,
         InStep(parser', wire'), Waiting(parser', wire') = {}
  PROVE  IInv'
<1> DEFINE q == f.channel
<1>1. /\ f.type = "header"
      /\ current' = [current EXCEPT ![q].read = 0, ![q].size = f.length]
      /\ last' = [last EXCEPT ![q] = current[q].tag]
      /\ UNCHANGED <<given, due>>
  BY DEF OnContentHeader, LastMessage
<1>2. f.type # "heartbeat"
  BY <1>1
<1>3. PICK p : p = q
  OBVIOUS
<1>4. p \in Queues /\ \A r \in Queues : r # p => Begun(r) = {}
  BY <1>2, <1>3, FrameArrives
<1>5. PICK n, j \in Nat : Arrived(p, f, n, j)
  BY <1>2, <1>3, FrameArrives
<1>6. Tables /\ QueueTyped(p)
  BY <1>4 DEF IInv
<1>7. PICK u : u = current[p]
  OBVIOUS
<1>8. PICK w : w = [tag |-> u.tag, consumer |-> u.consumer, read |-> 0, size |-> f.length,
                    body |-> u.body]
  OBVIOUS
<1>9. /\ Delivered(delivered[p]) /\ n < Len(delivered[p])
      /\ Handled(p, delivered[p], u, last[p], given[p], n, j)
      /\ f = FramesOf(p, delivered[p], n + 1)[j + 1]
      /\ Coming(p, delivered[p], out[p], {}, After(p, delivered[p], n, j)[1],
                After(p, delivered[p], n, j)[2])
  BY <1>5, <1>7 DEF Arrived
<1>10. current'[p] = w /\ current' = [current EXCEPT ![p] = current'[p]]
  <2>1. u = [tag |-> u.tag, consumer |-> u.consumer, read |-> u.read, size |-> u.size,
             body |-> u.body]
    BY <1>9 DEF Handled, Carries
  <2>2. w = [[u EXCEPT !.read = 0] EXCEPT !.size = f.length]
    BY <1>8, <2>1, NewSize
  <2>3. current' = [current EXCEPT ![p] = [[current[p] EXCEPT !.read = 0] EXCEPT !.size = f.length]]
    BY <1>1, <1>3, <1>4, <1>6 DEF Tables
  <2>4. current' = [current EXCEPT ![p] = w]
    BY <1>7, <2>2, <2>3
  <2> QED BY <1>4, <1>6, <2>4 DEF Tables
<1>11. /\ last'[p] = u.tag /\ last' = [last EXCEPT ![p] = last'[p]]
       /\ given' = [given EXCEPT ![p] = given'[p]] /\ due' = [due EXCEPT ![p] = due'[p]]
  BY <1>1, <1>3, <1>4, <1>6, <1>7 DEF Tables
<1>12. Listened(p)'
  BY <1>1, <1>6 DEF QueueTyped, Listened
<1>13. PICK x, y \in Nat : x = After(p, delivered[p], n, j)[1] /\ y = After(p, delivered[p], n, j)[2]
                          /\ x \in {n, n + 1}
  <2>1. \/ After(p, delivered[p], n, j) = <<n + 1, 0>>
        \/ After(p, delivered[p], n, j) = <<n, j + 1>>
    BY DEF After
  <2> QED BY <2>1
<1>14. Handled(p, delivered[p], w, u.tag, given[p], x, y)
  BY <1>1, <1>8, <1>9, <1>13, HeaderHandled
<1>15. QueueIn(p)'
  <2>1. Good(p) => p \notin refused /\ Alone(Len(delivered[p]), unacked[p], due'[p], x)
    BY <1>1, <1>5, <1>13, StillAlone
  <2>2. Handled(p, delivered[p], current'[p], last'[p], given'[p], x, y)
    BY <1>1, <1>10, <1>11, <1>14
  <2>3. Coming(p, delivered[p], out[p], {}, x, y)
    BY <1>9, <1>13
  <2> QED BY <2>1, <2>2, <2>3, QueueOn
<1> QED BY <1>4, <1>10, <1>11, <1>12, <1>15, HandlingKeeps

LEMMA NewBody ==
  ASSUME NEW u, NEW r, NEW x,
         u = [tag |-> u.tag, consumer |-> u.consumer, read |-> u.read, size |-> u.size,
              body |-> u.body], NEW w,
         w = [u EXCEPT !.read = r, !.body = x]
  PROVE  w = [tag |-> u.tag, consumer |-> u.consumer, read |-> r, size |-> u.size, body |-> x]
<1>1. PICK a, b, c, d, e :
        u.tag = a /\ u.consumer = b /\ u.read = c /\ u.size = d /\ u.body = e
  OBVIOUS
<1>2. u = [tag |-> a, consumer |-> b, read |-> c, size |-> d, body |-> e]
  BY <1>1
<1>3. w = [tag |-> a, consumer |-> b, read |-> r, size |-> d, body |-> x]
  BY <1>2
<1> QED BY <1>1, <1>3

\* A part of a body.
LEMMA BodyFrameKeeps ==
  ASSUME IInv, NEW f, Waiting(parser, wire) = {f}, NEW s, Payload(s, f), Len(s) = f.size,
         OnContent(f, s), Elsewhere, InStep(parser', wire'), Waiting(parser', wire') = {}
  PROVE  IInv'
<1> DEFINE q == f.channel
           data == [i \in DOMAIN s |-> Datum(s[i].frame.id, s[i].frame.from + s[i].i)]
           c == [current[q] EXCEPT !.read = @ + Len(data), !.body = @ \o data]
           x == [tag |-> c.tag, consumer |-> c.consumer, body |-> c.body]
           ack == consumers[q][c.consumer] = "ack"
<1>1. /\ f.type = "body" /\ current' = [current EXCEPT ![q] = c]
      /\ given' = IF Ended(c) THEN [given EXCEPT ![q] = Append(@, x)] ELSE given
      /\ due' = IF Ended(c) /\ ack THEN [due EXCEPT ![q] = @ + 1] ELSE due
      /\ last' = last
  BY DEF OnContent
<1>2. f.type # "heartbeat"
  BY <1>1
<1>3. PICK p : p = q
  OBVIOUS
<1>4. p \in Queues /\ \A r \in Queues : r # p => Begun(r) = {}
  BY <1>2, <1>3, FrameArrives
<1>5. PICK n, j \in Nat : Arrived(p, f, n, j)
  BY <1>2, <1>3, FrameArrives
<1>6. Tables /\ QueueTyped(p)
  BY <1>4 DEF IInv
<1>7. PICK u : u = current[p]
  OBVIOUS
<1>8. PICK b : b = data /\ Brings(b, f)
  BY Brought
<1>9. PICK w : w = c
  OBVIOUS
<1>10. /\ Delivered(delivered[p]) /\ n < Len(delivered[p])
       /\ Handled(p, delivered[p], u, last[p], given[p], n, j)
       /\ f = FramesOf(p, delivered[p], n + 1)[j + 1]
       /\ Coming(p, delivered[p], out[p], {}, After(p, delivered[p], n, j)[1],
                 After(p, delivered[p], n, j)[2])
  BY <1>5, <1>7 DEF Arrived
<1>11. Longer(u, b, w)
  <2>1. u = [tag |-> u.tag, consumer |-> u.consumer, read |-> u.read, size |-> u.size,
             body |-> u.body]
    BY <1>10 DEF Handled, Carries
  <2>2. w = [u EXCEPT !.read = u.read + Len(b), !.body = u.body \o b]
    BY <1>3, <1>7, <1>8, <1>9
  <2> QED BY <2>1, <2>2, NewBody DEF Longer
<1>12. PICK y : y = x /\ y = [tag |-> w.tag, consumer |-> w.consumer, body |-> w.body]
  BY <1>9
<1> HIDE DEF q, data, c, x
<1>13. /\ w.read = w.size =>
            /\ Handled(p, delivered[p], w, last[p], Append(given[p], y), n + 1, 0)
            /\ After(p, delivered[p], n, j) = <<n + 1, 0>>
       /\ w.read # w.size =>
            /\ Handled(p, delivered[p], w, last[p], given[p], n, j + 1)
            /\ After(p, delivered[p], n, j) = <<n, j + 1>>
  <2>1. PICK d, l, g : d = delivered[p] /\ l = last[p] /\ g = given[p]
    OBVIOUS
  <2>2. /\ Delivered(d) /\ n < Len(d) /\ Handled(p, d, u, l, g, n, j)
        /\ IsNext(p, d, n, j, f) /\ f.type = "body" /\ Brings(b, f) /\ Longer(u, b, w)
        /\ Listens(w, y)
    BY <1>1, <1>8, <1>10, <1>11, <1>12, <2>1 DEF Listens, IsNext
  <2>3. w.read = w.size => Handled(p, d, w, l, Append(g, y), n + 1, 0)
    BY <2>2, BodyHandled
  <2>4. w.read # w.size => Handled(p, d, w, l, g, n, j + 1)
    BY <2>2, BodyHandled
  <2>5. w.read = w.size <=> IsLast(p, d, n, j)
    BY <2>2, BodyHandled
  <2>6. /\ w.read = w.size => After(p, d, n, j) = <<n + 1, 0>>
        /\ w.read # w.size => After(p, d, n, j) = <<n, j + 1>>
    BY <2>5 DEF After
  <2> QED BY <2>1, <2>3, <2>4, <2>5, <2>6
<1>14. current'[p] = w /\ current' = [current EXCEPT ![p] = current'[p]]
  BY <1>1, <1>3, <1>4, <1>6, <1>9 DEF Tables
<1>15. last'[p] = last[p] /\ last' = [last EXCEPT ![p] = last'[p]]
  BY <1>1, <1>4, <1>6 DEF Tables
<1>16. due[p] \in 0 .. Len(given[p]) /\ IsList(given[p])
  BY <1>6, <1>10 DEF QueueTyped, Listened, Handled, GivenAre
<1>17. CASE w.read = w.size
  <2>1. Ended(c)
    BY <1>9, <1>17 DEF Ended
  <2>2. given' = [given EXCEPT ![p] = Append(given[p], y)]
    BY <1>1, <1>3, <1>12, <2>1
  <2>3. given'[p] = Append(given[p], y) /\ given' = [given EXCEPT ![p] = given'[p]]
    BY <1>4, <1>6, <2>2 DEF Tables
  <2>4. due' = [due EXCEPT ![p] = due[p] + 1] \/ due' = due
    BY <1>1, <1>3
  <2>5. due'[p] \in {due[p], due[p] + 1} /\ due' = [due EXCEPT ![p] = due'[p]]
    BY <1>4, <1>6, <2>4 DEF Tables
  <2>6. Len(given'[p]) = Len(given[p]) + 1 /\ Len(given[p]) \in Nat
    BY <1>16, <2>3, AppendList
  <2>7. Listened(p)'
    BY <1>16, <2>5, <2>6 DEF Listened
  <2>8. QueueIn(p)'
    <3>1. Good(p) => p \notin refused /\ Alone(Len(delivered[p]), unacked[p], due'[p], n + 1)
      BY <1>5, <2>5, StillAlone
    <3>2. Handled(p, delivered[p], current'[p], last'[p], given'[p], n + 1, 0)
      BY <1>13, <1>14, <1>15, <1>17, <2>3
    <3>3. Coming(p, delivered[p], out[p], {}, n + 1, 0)
      BY <1>10, <1>13, <1>17
    <3>4. n + 1 \in Nat
      OBVIOUS
    <3> QED BY <3>1, <3>2, <3>3, <3>4, QueueOn
  <2> QED BY <1>4, <1>14, <1>15, <2>3, <2>5, <2>7, <2>8, HandlingKeeps
<1>18. CASE w.read # w.size
  <2>1. ~Ended(c)
    BY <1>9, <1>18 DEF Ended
  <2>2. given' = given /\ due' = due
    BY <1>1, <2>1
  <2>3. given' = [given EXCEPT ![p] = given'[p]] /\ due' = [due EXCEPT ![p] = due'[p]]
    BY <1>4, <1>6, <2>2 DEF Tables
  <2>4. Listened(p)'
    BY <1>16, <2>2 DEF Listened
  <2>5. QueueIn(p)'
    <3>1. Good(p) => p \notin refused /\ Alone(Len(delivered[p]), unacked[p], due'[p], n)
      BY <1>5, <2>2, StillAlone
    <3>2. Handled(p, delivered[p], current'[p], last'[p], given'[p], n, j + 1)
      BY <1>13, <1>14, <1>15, <1>18, <2>2
    <3>3. Coming(p, delivered[p], out[p], {}, n, j + 1)
      BY <1>10, <1>13, <1>18
    <3>4. j + 1 \in Nat
      OBVIOUS
    <3> QED BY <3>1, <3>2, <3>3, <3>4, QueueOn
  <2> QED BY <1>4, <1>14, <1>15, <2>3, <2>4, <2>5, HandlingKeeps
<1> QED BY <1>17, <1>18

LEMMA FrameKeeps ==
  ASSUME IInv, NEW f, Waiting(parser, wire) = {f}, NEW s, Payload(s, f), Len(s) = f.size,
         OnFrame(f, s), Elsewhere, InStep(parser', wire'), Waiting(parser', wire') = {}
  PROVE  IInv'
<1>1. CASE BasicDeliver(f)
  BY <1>1, DeliverFrameKeeps
<1>2. CASE OnContentHeader(f)
  BY <1>2, HeaderFrameKeeps
<1>3. CASE OnContent(f, s)
  BY <1>3, BodyFrameKeeps
<1>4. CASE OnHeartBeat(f)
  <2>1. f.type = "heartbeat" /\ UNCHANGED <<current, last, given, due>>
    BY <1>4 DEF OnHeartBeat
  <2>2. /\ InStep(parser, wire) /\ Known /\ Tables /\ Counts
        /\ \A p \in Queues : QueueTyped(p) /\ QueueIn(p)
    BY DEF IInv
  <2>3. InStep(parser, wire)' /\ Known' /\ \A p : Begun(p)' = {} /\ Begun(p) = {}
    BY <2>1 DEF Known, Begun, Of
  <2>4. Tables' /\ Counts'
    BY <2>1, <2>2 DEF Tables, Counts, Elsewhere
  <2>5. ASSUME NEW p \in Queues
        PROVE  QueueTyped(p)' /\ QueueIn(p)'
    <3>1. SameTyped(p) /\ SameQueue(p) /\ SameAcks(p)
      BY <2>1 DEF SameTyped, SameQueue, SameAcks, Elsewhere
    <3> QED BY <2>2, <2>3, <3>1, TypedSame, QueueSame
  <2> QED BY <2>3, <2>4, <2>5 DEF IInv
<1> QED BY <1>1, <1>2, <1>3, <1>4 DEF OnFrame

-----------------------------------------------------------------------------
(* The parser                                                              *)

LEMMA ExecuteIs ==
  ASSUME NEW state, Execute(state)
  PROVE  /\ wire # <<>> /\ parser.state = state /\ wire' = Tail(wire) /\ Elsewhere
BY DEF Execute, Elsewhere

LEMMA HeaderOctetKeeps ==
  ASSUME IInv, HeaderOctet
  PROVE  IInv'
<1>1. /\ wire # <<>> /\ parser.state = "frameHeader" /\ wire' = Tail(wire) /\ Elsewhere
      /\ UNCHANGED <<current, last, given, due>>
  BY ExecuteIs DEF HeaderOctet
<1>2. InStep(parser, wire)
  BY DEF IInv
<1>3. CASE parser.used + 1 < HeaderOctets
  <2>1. parser' = [parser EXCEPT !.used = @ + 1]
    BY <1>3 DEF HeaderOctet
  <2>2. InStep(parser', wire') /\ Waiting(parser', wire') = Waiting(parser, wire)
    BY <1>1, <1>2, <1>3, <2>1, OneOfHeader
  <2> QED BY <1>1, <2>2, OctetKeeps
<1>4. CASE ~(parser.used + 1 < HeaderOctets)
  <2>1. parser' = [state |-> "bufferFrame", used |-> 0, frame |-> Head(wire).frame,
                   payload |-> <<>>]
    BY <1>4 DEF HeaderOctet, Octet
  <2>2. InStep(parser', wire') /\ Waiting(parser', wire') = Waiting(parser, wire)
    BY <1>1, <1>2, <1>4, <2>1, LastOfHeader
  <2> QED BY <1>1, <2>2, OctetKeeps
<1> QED BY <1>3, <1>4

LEMMA BufferOctetKeeps ==
  ASSUME IInv, BufferOctet
  PROVE  IInv'
<1> DEFINE f == parser.frame
           s == Append(parser.payload, Head(wire))
<1>1. wire # <<>> /\ parser.state = "bufferFrame" /\ wire' = Tail(wire) /\ Elsewhere
  BY ExecuteIs DEF BufferOctet
<1>2. InStep(parser, wire) /\ InPayload(parser, wire) /\ Fields(parser) /\ f.size \in Nat
  BY <1>1 DEF IInv, InStep
<1>3. Waiting(parser, wire) = {f}
  BY <1>1 DEF Waiting
<1>4. CASE f.size = 0
  <2>1. parser.payload = <<>> /\ parser.used = 0 /\ Comes(wire, f, HeaderOctets + f.size)
    <3>1. Len(<<>>) = 0 /\ ~(Len(parser.payload) < 0)
      BY <1>2, EmptyList DEF InPayload, Payload, IsList
    <3>2. parser.payload = <<>>
      BY <1>2, <1>4, <3>1 DEF InPayload
    <3> QED BY <1>2, <1>4, <3>1, <3>2 DEF InPayload
  <2>2. OnFrame(f, <<>>) /\ parser' = AtEnd(Head(wire))
    <3>1. Len(<<>>) = 0 /\ ~(0 < f.size)
      BY <1>4, EmptyList
    <3> QED BY <1>4, <3>1 DEF BufferOctet, Empty, Octet
  <2>3. InStep(parser', wire') /\ Waiting(parser', wire') = {}
    <3>1. parser' = [parser EXCEPT !.state = IF Head(wire).kind = "end" THEN "frameHeader"
                                             ELSE "error"]
      BY <2>2 DEF AtEnd
    <3> QED BY <1>1, <1>2, <2>1, <3>1, AtEndOf
  <2>4. Payload(<<>>, f) /\ Len(<<>>) = f.size
    BY <1>4, EmptyList DEF Payload
  <2> QED BY <1>1, <1>3, <2>2, <2>3, <2>4, FrameKeeps
<1>5. CASE f.size # 0 /\ Len(s) < f.size
  <2>1. parser' = [parser EXCEPT !.payload = s] /\ UNCHANGED <<current, last, given, due>>
    BY <1>2, <1>5 DEF BufferOctet, Octet
  <2>2. PICK e : e = s
    OBVIOUS
  <2>3. InStep(parser', wire') /\ Waiting(parser', wire') = Waiting(parser, wire)
    BY <1>1, <1>2, <1>5, <2>1, <2>2, MoreOfPayload
  <2> QED BY <1>1, <2>1, <2>3, OctetKeeps
<1>6. CASE f.size # 0 /\ Len(s) = f.size
  <2>1. OnFrame(f, s) /\ s # <<>>
    <3>1. s # <<>>
      BY <1>2, <1>6, EmptyList
    <3>2. ~(Len(s) < f.size)
      BY <1>2, <1>6
    <3> QED BY <1>6, <3>1, <3>2 DEF BufferOctet, Octet
  <2>2. parser' = [parser EXCEPT !.state = "frameEnd", !.payload = <<>>]
    <3>1. ~(Len(s) < f.size)
      BY <1>2, <1>6
    <3> QED BY <1>6, <2>1, <3>1 DEF BufferOctet, Octet
  <2>3. InStep(parser', wire') /\ Waiting(parser', wire') = {} /\ Payload(s, f)
    BY <1>1, <1>2, <1>6, <2>2, LastOfPayload
  <2> QED BY <1>1, <1>3, <1>6, <2>1, <2>3, FrameKeeps
<1>7. f.size = 0 \/ Len(s) < f.size \/ Len(s) = f.size
  BY <1>4 DEF BufferOctet, Octet
<1> QED BY <1>4, <1>5, <1>6, <1>7

LEMMA EndOctetKeeps ==
  ASSUME IInv, EndOctet
  PROVE  IInv'
<1>1. /\ wire # <<>> /\ parser.state = "frameEnd" /\ wire' = Tail(wire) /\ Elsewhere
      /\ UNCHANGED <<current, last, given, due>>
  BY ExecuteIs DEF EndOctet
<1>2. AfterPayload(parser, wire) /\ Fields(parser) /\ parser.frame.size \in Nat
  BY <1>1 DEF IInv, InStep
<1>3. parser' = [parser EXCEPT !.state = IF Head(wire).kind = "end" THEN "frameHeader" ELSE "error"]
  BY DEF EndOctet, AtEnd, Octet
<1>4. InStep(parser', wire') /\ Waiting(parser', wire') = {}
  BY <1>1, <1>2, <1>3, AtEndOf DEF AfterPayload
<1>5. Waiting(parser, wire) = {}
  BY <1>1 DEF Waiting
<1> QED BY <1>1, <1>4, <1>5, OctetKeeps

-----------------------------------------------------------------------------
(* The theorems                                                            *)

LEMMA InitHolds ==
  ASSUME Init
  PROVE  IInv
<1>1. HeaderOctets \in Nat \ {0} /\ MaxMessages \in Nat /\ MaxBeats \in Nat
  BY DeliveryAssumption
<1>2. InStep(parser, wire) /\ Waiting(parser, wire) = {}
  <2>1. Fields(parser) /\ parser.frame.size \in Nat /\ parser.state = "frameHeader"
    BY DEF Init, Fields, NoFrame, Frame
  <2>2. InHeader(parser, wire)
    BY <1>1 DEF Init, InHeader
  <2> QED BY <2>1, <2>2 DEF Init, InStep, Waiting
<1>3. Known /\ \A q : Begun(q) = {}
  BY <1>2 DEF Known, Begun, Of
<1>4. Tables
  BY DEF Init, Tables
<1>5. Counts
  BY <1>1 DEF Init, Counts
<1>6. ASSUME NEW q \in Queues
      PROVE  QueueTyped(q) /\ QueueIn(q)
  <2>1. /\ current[q] = [tag |-> 0, consumer |-> 0, read |-> 0, size |-> 0, body |-> <<>>]
        /\ last[q] = 0 /\ consumers[q] = <<>> /\ given[q] = <<>> /\ due[q] = 0
        /\ ready[q] = <<>> /\ unacked[q] = {} /\ delivered[q] = <<>> /\ out[q] = <<>>
        /\ refused = {}
    BY DEF Init
  <2>2. IsList(<<>>) /\ Len(<<>>) = 0 /\ DOMAIN <<>> = {}
    BY EmptyList
  <2>3. QueueTyped(q)
    <3>1. Deliveries(q) /\ Waits(q)
      BY <2>1, <2>2 DEF Deliveries, Delivered, Waits
    <3>2. Subscribed(q) /\ Stored(q) /\ Listened(q)
      BY <2>1, <2>2 DEF Subscribed, Stored, Listened
    <3> QED BY <3>1, <3>2 DEF QueueTyped
  <2>4. Handled(q, delivered[q], current[q], last[q], given[q], 0, 0)
    <3>1. Counted(q, delivered[q], 0, 0) /\ Tagged(current[q], last[q], 0, 0)
          /\ Read(q, delivered[q], current[q], 0, 0)
      BY <2>1, <2>2 DEF Counted, Tagged, Read
    <3>2. GivenAre(delivered[q], given[q], 0)
      BY <2>1, <2>2 DEF GivenAre
    <3>3. Carries(delivered[q], current[q])
      BY <2>1, <2>2 DEF Carries
    <3> QED BY <3>1, <3>2, <3>3 DEF Handled
  <2>5. Coming(q, delivered[q], out[q], Begun(q), 0, 0)
    BY <1>3, <2>1, <2>2 DEF Coming
  <2>6. Shifting(q, 0)
    BY <2>1, <2>2 DEF Shifting, Alone
  <2> QED BY <2>3, <2>4, <2>5, <2>6 DEF QueueIn
<1> QED BY <1>2, <1>3, <1>4, <1>5, <1>6 DEF IInv

LEMMA NextKeeps ==
  ASSUME IInv, [Next]_vars
  PROVE  IInv'
<1>1. CASE Data
  BY <1>1, HeaderOctetKeeps, BufferOctetKeeps, EndOctetKeeps DEF Data
<1>2. CASE Broker
  BY <1>2, HeartbeatKeeps, DeliverKeeps, SendKeeps DEF Broker
<1>3. CASE Call
  BY <1>3, PublishKeeps, SubscribeKeeps, ShiftKeeps DEF Call
<1>4. CASE UNCHANGED vars
  <2>1. Elsewhere /\ UNCHANGED <<parser, wire, current, last, given, due>>
    BY <1>4 DEF vars, client, broker, Elsewhere
  <2>2. InStep(parser', wire') /\ Waiting(parser', wire') = Waiting(parser, wire)
    BY <2>1 DEF IInv
  <2> QED BY <2>1, <2>2, OctetKeeps
<1> QED BY <1>1, <1>2, <1>3, <1>4 DEF Next

LEMMA QueueHasType ==
  ASSUME IInv, NEW q \in Queues
  PROVE  /\ current[q].tag \in 0 .. Len(delivered[q]) /\ last[q] \in 0 .. current[q].tag
         /\ current[q].consumer \in 0 .. Len(consumers[q])
         /\ current[q].body \in Seq(Datums) /\ current[q].read = Len(current[q].body)
         /\ consumers[q] \in Seq({"ack", "noAck"})
         /\ due[q] \in 0 .. Len(given[q])
         /\ ready[q] \in Seq(Message)
         /\ \A u \in unacked[q] : u.message = delivered[q][u.tag].message
<1>1. QueueTyped(q)
  BY DEF IInv
<1>2. PICK n, j \in Nat : Handled(q, delivered[q], current[q], last[q], given[q], n, j)
  BY DEF IInv, QueueIn
<1>3. PICK u : u = current[q]
  OBVIOUS
<1>4. PICK d : d = delivered[q]
  OBVIOUS
<1>5. Counted(q, d, n, j) /\ Carries(d, u) /\ Tagged(u, last[q], n, j)
  BY <1>2, <1>3, <1>4 DEF Handled
<1>6. Delivered(d) /\ \A t \in 1 .. Len(d) : d[t].message \in Message /\ d[t].consumer \in DOMAIN consumers[q]
  BY <1>1, <1>4 DEF QueueTyped, Deliveries
<1>7. IsList(d) /\ Len(d) \in Nat
  BY <1>6 DEF Delivered, IsList
<1>8. u.tag \in 0 .. Len(d) /\ IsList(u.body) /\ u.read = Len(u.body) /\ Len(u.body) \in Nat
  BY <1>5 DEF Carries, IsList
<1>9. last[q] \in 0 .. u.tag
  BY <1>2, <1>5, <1>7 DEF Tagged, Counted
<1>10. IsList(consumers[q]) /\ \A c \in DOMAIN consumers[q] : consumers[q][c] \in {"ack", "noAck"}
  BY <1>1 DEF QueueTyped, Subscribed
<1>11. DOMAIN consumers[q] = 1 .. Len(consumers[q]) /\ Len(consumers[q]) \in Nat
  BY <1>10, ListIsSeq
<1>12. consumers[q] \in Seq({"ack", "noAck"})
  BY <1>10, <1>11, ListOf
<1>13. u.consumer \in 0 .. Len(consumers[q])
  <2>1. CASE u.tag = 0
    BY <1>5, <1>11, <2>1 DEF Carries
  <2>2. CASE u.tag > 0
    BY <1>5, <1>6, <1>7, <1>8, <1>11, <2>2 DEF Carries
  <2> QED BY <1>7, <1>8, <2>1, <2>2
<1>14. \A i \in 1 .. Len(u.body) : u.body[i] \in Datums
  <2> TAKE i \in 1 .. Len(u.body)
  <2>1. CASE u.tag = 0
    BY <1>5, <2>1, EmptyList DEF Carries
  <2>2. CASE u.tag > 0
    <3>1. u.tag \in 1 .. Len(d) /\ i \in Nat
      BY <1>7, <1>8, <2>2
    <3>2. d[u.tag].message.id \in 1 .. MaxMessages
      BY <1>6, <3>1 DEF Message
    <3>3. u.body[i] = <<d[u.tag].message.id, i>>
      BY <1>5, <2>2 DEF Carries, Datum
    <3> QED BY <3>1, <3>2, <3>3 DEF Datums
  <2> QED BY <1>7, <1>8, <2>1, <2>2
<1>15. u.body \in Seq(Datums)
  BY <1>8, <1>14, ListOf
<1>16. ready[q] \in Seq(Message)
  BY <1>1, ListOf DEF QueueTyped, Stored
<1>17. due[q] \in 0 .. Len(given[q]) /\ \A a \in unacked[q] : a.message = delivered[q][a.tag].message
  BY <1>1 DEF QueueTyped, Listened, Waits
<1> QED BY <1>3, <1>4, <1>8, <1>9, <1>12, <1>13, <1>15, <1>16, <1>17

LEMMA HasType ==
  ASSUME IInv
  PROVE  TypeOK
<1>1. HeaderOctets \in Nat \ {0}
  BY DeliveryAssumption
<1>2. parser.state \in {"frameHeader", "bufferFrame", "frameEnd"}
  BY DEF IInv, InStep
<1>3. parser.used \in 0 .. HeaderOctets - 1
  BY <1>1 DEF IInv, InStep, InHeader, InPayload, AfterPayload
<1>4. Len(parser.payload) <= parser.frame.size
  <2>1. parser.frame.size \in Nat
    BY DEF IInv, InStep
  <2>2. \/ parser.payload = <<>>
        \/ Len(parser.payload) < parser.frame.size /\ IsList(parser.payload)
    BY DEF IInv, InStep, InHeader, InPayload, AfterPayload, Payload
  <2>3. Len(<<>>) = 0
    OBVIOUS
  <2> QED BY <2>1, <2>2, <2>3 DEF IsList
<1>5. Counts
  BY DEF IInv
<1> QED BY <1>2, <1>3, <1>4, <1>5, QueueHasType DEF TypeOK, Counts

LEMMA HasGivenInOrder ==
  ASSUME IInv
  PROVE  GivenInOrder
<1> SUFFICES ASSUME NEW q \in Queues
             PROVE  /\ \A k \in DOMAIN given[q] :
                         \E t \in DOMAIN delivered[q] :
                           /\ given[q][k] = Whole(q, t)
                           /\ delivered[q][t].message.size > 0
                           /\ \A s \in 1 .. t - 1 :
                                delivered[q][s].message.size > 0
                                  => \E i \in DOMAIN given[q] : given[q][i].tag = s
                    /\ \A i, k \in DOMAIN given[q] : i < k => given[q][i].tag < given[q][k].tag
  BY DEF GivenInOrder
<1>1. PICK n, j \in Nat : Handled(q, delivered[q], current[q], last[q], given[q], n, j)
  BY DEF IInv, QueueIn
<1>2. GivenAre(delivered[q], given[q], n) /\ Counted(q, delivered[q], n, j)
  BY <1>1 DEF Handled
<1>3. IsList(delivered[q])
  BY DEF IInv, QueueTyped, Deliveries, Delivered
<1>4. DOMAIN delivered[q] = 1 .. Len(delivered[q]) /\ Len(delivered[q]) \in Nat
  BY <1>3, ListIsSeq
<1>5. n \in 0 .. Len(delivered[q])
  BY <1>2 DEF Counted
<1>6. ASSUME NEW k \in DOMAIN given[q]
      PROVE  \E t \in DOMAIN delivered[q] :
               /\ given[q][k] = Whole(q, t)
               /\ delivered[q][t].message.size > 0
               /\ \A s \in 1 .. t - 1 :
                    delivered[q][s].message.size > 0
                      => \E i \in DOMAIN given[q] : given[q][i].tag = s
  <2>1. PICK t \in 1 .. n : given[q][k] = WholeOf(delivered[q], t) /\ delivered[q][t].message.size > 0
    BY <1>2 DEF GivenAre
  <2>2. t \in DOMAIN delivered[q] /\ \A s \in 1 .. t - 1 : s \in 1 .. n
    BY <1>4, <1>5
  <2>3. \A s \in 1 .. t - 1 :
          delivered[q][s].message.size > 0 => \E i \in DOMAIN given[q] : given[q][i].tag = s
    BY <1>2, <2>2 DEF GivenAre
  <2> QED BY <2>1, <2>2, <2>3 DEF Whole, WholeOf
<1>7. \A i, k \in DOMAIN given[q] : i < k => given[q][i].tag < given[q][k].tag
  BY <1>2 DEF GivenAre
<1> QED BY <1>6, <1>7

LEMMA HasShiftAcknowledges ==
  ASSUME IInv
  PROVE  ShiftAcknowledges
<1> SUFFICES ASSUME NEW q \in refused
             PROVE  q \in extra \/ Acks(q) # DOMAIN consumers[q] \/ TwoWindows(q)
  BY DEF ShiftAcknowledges
<1>1. q \in Queues
  BY DEF IInv, Counts
<1>2. PICK n \in Nat : Shifting(q, n)
  BY <1>1 DEF IInv, QueueIn
<1> QED BY <1>2 DEF Shifting, Good

\* In every state the parser is in step with the octets that are coming; of each
\* queue a number of deliveries and of frames of the next one are handled, the
\* frames still to come are the rest, and where a program shifts once for each
\* message only the last delivery waits for an acknowledgement (AMQPParser.execute,
\* Queue._onMethod, _onContentHeader, _onContent and shift).
THEOREM DeliveryInvariant == Spec => []IInv
<1>1. Init => IInv
  BY InitHolds
<1>2. IInv /\ [Next]_vars => IInv'
  BY NextKeeps
<1> QED BY <1>1, <1>2, PTL DEF Spec

\* Every variable holds a value of its kind: the parser never meets an octet that
\* is not the end of a frame where it expects one, and the message a queue puts
\* together never has a datum of another one.
THEOREM DeliveryTyped == Spec => []TypeOK
<1>1. IInv => TypeOK
  BY HasType
<1> QED BY <1>1, DeliveryInvariant, PTL

\* The listeners of a queue are given its deliveries, each once, in order, with
\* its own body, and none is passed over but those without a body (onContent ends
\* a message when it has read as many octets as the header said).
THEOREM DeliveriesInOrder == Spec => []GivenInOrder
<1>1. IInv => GivenInOrder
  BY HasGivenInOrder
<1> QED BY <1>1, DeliveryInvariant, PTL

\* A program that calls shift() once for each message it is given never has its
\* channel closed for it, where the subscriptions of a queue all are with ack and
\* share one window (shift acknowledges _lastMessage).
THEOREM ShiftCostsNothing == Spec => []ShiftAcknowledges
<1>1. IInv => ShiftAcknowledges
  BY HasShiftAcknowledges
<1> QED BY <1>1, DeliveryInvariant, PTL

=============================================================================
