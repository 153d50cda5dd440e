-------------------------- MODULE MongoCursorProofs ---------------------------
(***************************************************************************)
(* Proofs about MongoCursor, for every number of documents and every bound.*)
(*                                                                         *)
(* The inductive invariant has two parts.  A call waits for one message at *)
(* most (Posted).  A caller that makes one call at a time (Calm) has one  *)
(* message on its way, and what it has been given, what the cursor holds,  *)
(* what the message brings and where the server is make one row.           *)
(***************************************************************************)
EXTENDS MongoCursor, FiniteSetTheorems, SequenceTheorems, TLAPS

-----------------------------------------------------------------------------
(* The inductive invariant                                                 *)

\* Call c has been made and is not answered.
Waits(c, n, ans) == c \in 1 .. n /\ ans[c] = 0

\* The messages on their way, after n calls, the server having created k
\* cursors: each call they are for waits, for that message only.
Mail(ts, tc, n, k, ans) ==
  /\ n \in 0 .. MaxCalls /\ k \in Nat
  /\ ts \in Seq(Requests(n, k)) /\ tc \in Seq(Replies(n, k))
  /\ ans \in [Calls -> 0 .. 2]
  /\ \A c \in Calls : c > n => ans[c] = 0
  /\ \A i \in DOMAIN ts : ts[i].op # "kill" => Waits(ts[i].call, n, ans)
  /\ \A i \in DOMAIN tc : Waits(tc[i].call, n, ans)
  /\ \A i, j \in DOMAIN ts : ts[i].op # "kill" /\ ts[j].op # "kill" /\ ts[i].call = ts[j].call => i = j
  /\ \A i, j \in DOMAIN tc : tc[i].call = tc[j].call => i = j
  /\ \A i \in DOMAIN ts, j \in DOMAIN tc : ts[i].op # "kill" => ts[i].call # tc[j].call

Posted == Mail(toServer, toClient, asked, made, answered)

\* The server's cursors have ids of their own.
Distinct == \A a, b \in open : a.id = b.id => a = b

OneAtATime == \A c, d \in 1 .. asked : answered[c] = 0 /\ answered[d] = 0 => c = d

\* Of t documents, what the limit leaves.
Cut(t) == IF limit > 0 THEN Least(t, limit) ELSE t

\* Nothing is left after t documents.
Done(t) == t >= NDocs \/ (limit > 0 /\ t >= limit)

\* The documents are given and held in their order.
Row ==
  /\ \A k \in DOMAIN given : given[k] = k
  /\ \A k \in DOMAIN items : items[k] = Len(given) + k
  /\ Len(given) + Len(items) <= Wanted

\* The states of a cursor.
StateOf ==
  /\ state = "INIT" =>
       given = <<>> /\ items = <<>> /\ total = 0 /\ cursorId = 0 /\ ~nulled /\ ~closing /\ ~ended
  /\ state = "OPEN" =>
       /\ ~nulled /\ ~closing /\ ~ended
       /\ Len(given) + Len(items) = Cut(total) /\ total <= NDocs
       /\ cursorId = 0 /\ ~timedOut => Done(total)
  /\ state = "CLOSED" => cursorId = 0 /\ (nulled \/ closing \/ userClosed)

\* A request for more comes from a cursor that has no items left.
Fetching == state = "OPEN" /\ items = <<>> /\ ~LimitReached(total)

Request(x) ==
  /\ x.op # "kill" => x.n = LimitRequest
  /\ x.op = "query" => state = "INIT"
  /\ x.op = "more" => Fetching /\ x.cursor = cursorId /\ cursorId > 0
  /\ x.op = "kill" => x.cursor > 0 /\ x.cursor # cursorId

\* The documents of a reply follow those received, and the server is behind them.
Answers(r) ==
  /\ r.op = "query" => state = "INIT" /\ (limit > 0 => Len(r.docs) <= limit)
  /\ r.op = "more" => Fetching /\ r.cursor \in {0, cursorId} /\ cursorId > 0 /\ ~r.err
  /\ \A k \in DOMAIN r.docs : r.docs[k] = total + k
  /\ total + Len(r.docs) <= NDocs
  /\ \A cur \in open : cur.id = r.cursor => cur.next = total + Len(r.docs) + 1
  /\ r.cursor = 0 => \A cur \in open : cur.id # cursorId
  /\ r.cursor = 0 /\ ~r.err /\ ~timedOut => Done(total + Len(r.docs))
  /\ r.op = "more" /\ r.docs = <<>> /\ r.cursor > 0 => total >= NDocs
  /\ r.cursor > 0 /\ ~timedOut => \E cur \in open : cur.id = r.cursor
  /\ r.err => r.cursor = 0

\* When no reply is on its way the server is behind what has been received.
Behind ==
  state = "OPEN" /\ cursorId > 0 /\ up /\ toClient = <<>> =>
    /\ \A cur \in open : cur.id = cursorId => cur.next = total + 1
    /\ ~timedOut => \E cur \in open : cur.id = cursorId

\* Of a caller that makes one call at a time.
WellOrdered ==
  /\ Row /\ StateOf /\ Behind /\ NoLeak /\ EndMeansAll
  /\ \A i \in DOMAIN toServer : Request(toServer[i])
  /\ \A i \in DOMAIN toClient : Answers(toClient[i])
  /\ \A i \in DOMAIN toServer, j \in DOMAIN toClient :
       toServer[i].op = "kill" => toServer[i].cursor # toClient[j].cursor

Calm == ~disturbed => OneAtATime /\ WellOrdered

IInv == TypeOK /\ Posted /\ Distinct /\ Calm

-----------------------------------------------------------------------------
(* Messages on their way                                                   *)

LEMMA Constants ==
  /\ MaxCalls \in Nat /\ NDocs \in Nat /\ MaxCloses \in Nat
  /\ DefaultBatch \in Nat /\ DefaultBatch > 1
  /\ \A l \in Limits : l \in Nat
  /\ \A b \in Batches : b \in Nat /\ b # 1
BY CursorAssumption DEF CursorAssumption

\* Call c waits for a message that is not on its way.
Held(c, ts, tc, n, ans) ==
  /\ Waits(c, n, ans)
  /\ \A i \in DOMAIN ts : ts[i].op # "kill" => ts[i].call # c
  /\ \A i \in DOMAIN tc : tc[i].call # c

LEMMA RequestsGrow ==
  ASSUME NEW n \in Nat, NEW k \in Nat, NEW m \in Nat, NEW l \in Nat, n <= m, k <= l
  PROVE  Requests(n, k) \subseteq Requests(m, l) /\ Replies(n, k) \subseteq Replies(m, l)
<1>1. 0 .. n \subseteq 0 .. m /\ 0 .. k \subseteq 0 .. l /\ 1 .. n \subseteq 1 .. m
  OBVIOUS
<1> DEFINE a == 0 .. n
           b == 0 .. m
           c == 0 .. k
           d == 0 .. l
           e == 1 .. n
           f == 1 .. m
           g == Seq(1 .. NDocs)
<1>2. a \subseteq b /\ c \subseteq d /\ e \subseteq f
  BY <1>1
<1> HIDE DEF a, b, c, d, e, f, g
<1>3. [op : {"query", "more", "kill"}, call : a, n : Nat, cursor : c]
        \subseteq [op : {"query", "more", "kill"}, call : b, n : Nat, cursor : d]
  BY <1>2
<1>4. [op : {"query", "more"}, call : e, docs : g, cursor : c, err : BOOLEAN]
        \subseteq [op : {"query", "more"}, call : f, docs : g, cursor : d, err : BOOLEAN]
  BY <1>2
<1> QED BY <1>3, <1>4 DEF Requests, Replies, a, b, c, d, e, f, g

\* The callback of a call that waits for nothing on its way may be run.
LEMMA AnswerHeld ==
  ASSUME NEW ts, NEW tc, NEW n, NEW k, NEW ans, NEW c, NEW t \in 1 .. 2,
         Mail(ts, tc, n, k, ans), Held(c, ts, tc, n, ans)
  PROVE  Mail(ts, tc, n, k, [ans EXCEPT ![c] = @ + t])
<1> DEFINE new == [ans EXCEPT ![c] = @ + t]
<1>1. c \in Calls /\ c \in 1 .. n /\ ans[c] = 0 /\ n \in 0 .. MaxCalls /\ ans \in [Calls -> 0 .. 2]
  BY Constants DEF Mail, Held, Waits, Calls
<1>2. new \in [Calls -> 0 .. 2] /\ \A d \in Calls : d # c => new[d] = ans[d]
  BY <1>1
<1>3. 1 .. n \subseteq Calls
  BY <1>1, Constants DEF Calls
<1> HIDE DEF new
<1>4. \A d \in Calls : d > n => new[d] = 0
  BY <1>1, <1>2, Constants DEF Mail, Calls
<1>5. \A d : d # c /\ Waits(d, n, ans) => Waits(d, n, new)
  BY <1>2, <1>3 DEF Waits
<1>6. \A i \in DOMAIN ts : ts[i].op # "kill" => Waits(ts[i].call, n, new)
  BY <1>5 DEF Mail, Held
<1>7. \A i \in DOMAIN tc : Waits(tc[i].call, n, new)
  BY <1>5 DEF Mail, Held
<1>8. Mail(ts, tc, n, k, new)
  BY <1>2, <1>4, <1>6, <1>7 DEF Mail
<1> QED BY <1>8 DEF new

LEMMA AppendIs ==
  ASSUME NEW S, NEW s \in Seq(S), NEW x \in S
  PROVE  /\ Append(s, x) \in Seq(S)
         /\ DOMAIN Append(s, x) = 1 .. Len(s) + 1
         /\ DOMAIN s = 1 .. Len(s) /\ Len(s) \in Nat
         /\ \A i \in DOMAIN s : Append(s, x)[i] = s[i]
         /\ \A i \in DOMAIN Append(s, x) : i \in DOMAIN s \/ (Append(s, x)[i] = x /\ i = Len(s) + 1)
<1>1. /\ Append(s, x) \in Seq(S) /\ Len(Append(s, x)) = Len(s) + 1 /\ Len(s) \in Nat
      /\ DOMAIN s = 1 .. Len(s) /\ DOMAIN Append(s, x) = 1 .. Len(Append(s, x))
      /\ \A i \in 1 .. Len(s) : Append(s, x)[i] = s[i]
      /\ Append(s, x)[Len(s) + 1] = x
  BY AppendProperties
<1> QED BY <1>1

LEMMA AppendAny ==
  ASSUME NEW S, NEW s \in Seq(S), NEW x
  PROVE  /\ DOMAIN Append(s, x) = 1 .. Len(s) + 1
         /\ DOMAIN s = 1 .. Len(s) /\ Len(s) \in Nat
         /\ \A i \in DOMAIN s : i \in DOMAIN Append(s, x) /\ Append(s, x)[i] = s[i]
         /\ \A i \in DOMAIN Append(s, x) : (i \in DOMAIN s /\ Append(s, x)[i] = s[i]) \/ (Append(s, x)[i] = x /\ i = Len(s) + 1)
<1> DEFINE T == S \cup {x}
<1>1. S \subseteq T /\ x \in T
  OBVIOUS
<1> HIDE DEF T
<1>2. s \in Seq(T)
  BY <1>1, SeqMonotonic
<1> QED BY <1>1, <1>2, AppendIs

LEMMA TailIs ==
  ASSUME NEW S, NEW s \in Seq(S), s # <<>>
  PROVE  /\ Head(s) \in S /\ Tail(s) \in Seq(S) /\ Head(s) = s[1]
         /\ Len(s) \in Nat \ {0} /\ DOMAIN s = 1 .. Len(s) /\ 1 \in DOMAIN s
         /\ DOMAIN Tail(s) = 1 .. Len(s) - 1
         /\ \A i \in DOMAIN Tail(s) : i + 1 \in DOMAIN s /\ i + 1 # 1 /\ Tail(s)[i] = s[i + 1]
<1>1. /\ Head(s) \in S /\ Tail(s) \in Seq(S) /\ Len(Tail(s)) = Len(s) - 1
      /\ \A i \in 1 .. Len(Tail(s)) : Tail(s)[i] = s[i + 1]
  BY HeadTailProperties
<1>2. Len(s) \in Nat \ {0} /\ Head(s) = s[1]
  BY EmptySeq
<1>3. DOMAIN s = 1 .. Len(s) /\ DOMAIN Tail(s) = 1 .. Len(Tail(s))
  BY <1>1, LenProperties
<1> QED BY <1>1, <1>2, <1>3

\* A call that waits for nothing on its way sends a request.
LEMMA SendHeld ==
  ASSUME NEW ts, NEW tc, NEW n, NEW k, NEW ans, NEW x,
         Mail(ts, tc, n, k, ans), x \in Requests(n, k),
         x.op # "kill" => Held(x.call, ts, tc, n, ans)
  PROVE  Mail(Append(ts, x), tc, n, k, ans)
<1> DEFINE new == Append(ts, x)
           R == Requests(n, k)
<1>1. ts \in Seq(R) /\ x \in R
  BY DEF Mail
<1> HIDE DEF R
<1>2. /\ new \in Seq(R)
      /\ DOMAIN new = 1 .. Len(ts) + 1 /\ DOMAIN ts = 1 .. Len(ts) /\ Len(ts) \in Nat
      /\ \A i \in DOMAIN ts : new[i] = ts[i]
      /\ \A i \in DOMAIN new : i \in DOMAIN ts \/ (new[i] = x /\ i = Len(ts) + 1)
  BY <1>1, AppendIs
<1> HIDE DEF new
<1>3. \A i \in DOMAIN new : new[i].op # "kill" => Waits(new[i].call, n, ans)
  <2> SUFFICES ASSUME NEW i \in DOMAIN new, new[i].op # "kill" PROVE Waits(new[i].call, n, ans)
    OBVIOUS
  <2>1. CASE i \in DOMAIN ts
    BY <2>1, <1>2 DEF Mail
  <2>2. CASE new[i] = x
    BY <2>2 DEF Held
  <2> QED BY <2>1, <2>2, <1>2
<1>4. ASSUME NEW i \in DOMAIN new, NEW j \in DOMAIN new,
             new[i].op # "kill", new[j].op # "kill", new[i].call = new[j].call
      PROVE  i = j
  <2>1. CASE i \in DOMAIN ts /\ j \in DOMAIN ts
    BY <2>1, <1>2, <1>4 DEF Mail
  <2>2. CASE i \in DOMAIN ts /\ new[j] = x
    BY <2>2, <1>2, <1>4 DEF Held
  <2>3. CASE new[i] = x /\ j \in DOMAIN ts
    BY <2>3, <1>2, <1>4 DEF Held
  <2> QED BY <2>1, <2>2, <2>3, <1>2
<1>5. ASSUME NEW i \in DOMAIN new, NEW j \in DOMAIN tc, new[i].op # "kill"
      PROVE  new[i].call # tc[j].call
  <2>1. CASE i \in DOMAIN ts
    BY <2>1, <1>2, <1>5 DEF Mail
  <2>2. CASE new[i] = x
    BY <2>2, <1>5 DEF Held
  <2> QED BY <2>1, <2>2, <1>2
<1>6. Mail(new, tc, n, k, ans)
  BY <1>2, <1>3, <1>4, <1>5 DEF Mail, R
<1> QED BY <1>6 DEF new

\* The server answers a call that waits for nothing on its way.
LEMMA ReplyHeld ==
  ASSUME NEW ts, NEW tc, NEW n, NEW k, NEW ans, NEW x,
         Mail(ts, tc, n, k, ans), x \in Replies(n, k), Held(x.call, ts, tc, n, ans)
  PROVE  Mail(ts, Append(tc, x), n, k, ans)
<1> DEFINE new == Append(tc, x)
           R == Replies(n, k)
<1>1. tc \in Seq(R) /\ x \in R
  BY DEF Mail
<1> HIDE DEF R
<1>2. /\ new \in Seq(R)
      /\ DOMAIN new = 1 .. Len(tc) + 1 /\ DOMAIN tc = 1 .. Len(tc) /\ Len(tc) \in Nat
      /\ \A i \in DOMAIN tc : new[i] = tc[i]
      /\ \A i \in DOMAIN new : i \in DOMAIN tc \/ (new[i] = x /\ i = Len(tc) + 1)
  BY <1>1, AppendIs
<1> HIDE DEF new
<1>3. \A i \in DOMAIN new : Waits(new[i].call, n, ans)
  BY <1>2 DEF Mail, Held
<1>4. ASSUME NEW i \in DOMAIN new, NEW j \in DOMAIN new, new[i].call = new[j].call
      PROVE  i = j
  <2>1. CASE i \in DOMAIN tc /\ j \in DOMAIN tc
    BY <2>1, <1>2, <1>4 DEF Mail
  <2>2. CASE i \in DOMAIN tc /\ new[j] = x
    BY <2>2, <1>2, <1>4 DEF Held
  <2>3. CASE new[i] = x /\ j \in DOMAIN tc
    BY <2>3, <1>2, <1>4 DEF Held
  <2> QED BY <2>1, <2>2, <2>3, <1>2
<1>5. ASSUME NEW i \in DOMAIN ts, NEW j \in DOMAIN new, ts[i].op # "kill"
      PROVE  ts[i].call # new[j].call
  BY <1>2, <1>5 DEF Mail, Held
<1>6. Mail(ts, new, n, k, ans)
  BY <1>2, <1>3, <1>4, <1>5 DEF Mail, R
<1> QED BY <1>6 DEF new

LEMMA KillIs ==
  ASSUME NEW S, NEW ts \in Seq(S), NEW cid,
         Kill(cid) # <<>> => [op |-> "kill", call |-> 0, n |-> 0, cursor |-> cid] \in S
  PROVE  \/ ts \o Kill(cid) = ts /\ Kill(cid) = <<>>
         \/ /\ cid > 0 /\ up
            /\ ts \o Kill(cid) = Append(ts, [op |-> "kill", call |-> 0, n |-> 0, cursor |-> cid])
<1> DEFINE x == [op |-> "kill", call |-> 0, n |-> 0, cursor |-> cid]
<1> HIDE DEF x
<1>1. CASE cid > 0 /\ up
  <2>1. Kill(cid) = <<x>>
    BY <1>1 DEF Kill, x
  <2>2. x \in S
    BY <2>1 DEF x
  <2>3. Append(ts, x) = ts \o <<x>>
    BY <2>2, AppendIsConcat
  <2> QED BY <1>1, <2>1, <2>3 DEF x
<1>2. CASE ~(cid > 0 /\ up)
  <2>1. Kill(cid) = <<>>
    BY <1>2 DEF Kill
  <2> QED BY <2>1, ConcatEmptySeq
<1> QED BY <1>1, <1>2

\* close() may send a kill.
LEMMA KillHeld ==
  ASSUME NEW ts, NEW tc, NEW n, NEW k, NEW ans, NEW cid \in 0 .. k,
         Mail(ts, tc, n, k, ans)
  PROVE  /\ Mail(ts \o Kill(cid), tc, n, k, ans)
         /\ \A c : Held(c, ts, tc, n, ans) => Held(c, ts \o Kill(cid), tc, n, ans)
<1> DEFINE x == [op |-> "kill", call |-> 0, n |-> 0, cursor |-> cid]
           R == Requests(n, k)
<1>1. x.op = "kill" /\ x \in R /\ ts \in Seq(R)
  BY DEF Requests, Mail
<1>2. ts \o Kill(cid) = ts \/ ts \o Kill(cid) = Append(ts, x)
  <2> HIDE DEF R
  <2> QED BY <1>1, KillIs
<1>3. Mail(Append(ts, x), tc, n, k, ans)
  <2> HIDE DEF x
  <2> QED BY <1>1, SendHeld
<1>4. ASSUME NEW c, Held(c, ts, tc, n, ans) PROVE Held(c, Append(ts, x), tc, n, ans)
  <2> HIDE DEF x, R
  <2>1. \A i \in DOMAIN Append(ts, x) :
          (i \in DOMAIN ts /\ Append(ts, x)[i] = ts[i]) \/ Append(ts, x)[i] = x
    BY <1>1, AppendIs
  <2> QED BY <2>1, <1>1, <1>4 DEF Held
<1> HIDE DEF x
<1> QED BY <1>2, <1>3, <1>4

\* A reply is handled: nothing else is on its way for its call.
LEMMA ReceiveHeld ==
  ASSUME NEW ts, NEW tc, NEW n, NEW k, NEW ans, Mail(ts, tc, n, k, ans), tc # <<>>
  PROVE  /\ Mail(ts, Tail(tc), n, k, ans)
         /\ Head(tc) \in Replies(n, k) /\ Head(tc) = tc[1] /\ 1 \in DOMAIN tc
         /\ Held(Head(tc).call, ts, Tail(tc), n, ans)
<1> DEFINE R == Replies(n, k)
           new == Tail(tc)
<1>1. tc \in Seq(R)
  BY DEF Mail
<1> HIDE DEF R
<1>2. /\ Head(tc) \in R /\ new \in Seq(R) /\ Head(tc) = tc[1] /\ 1 \in DOMAIN tc
      /\ \A i \in DOMAIN new : i + 1 \in DOMAIN tc /\ i + 1 # 1 /\ new[i] = tc[i + 1]
      /\ DOMAIN new \subseteq Int
  BY <1>1, TailIs
<1> HIDE DEF new
<1>3. Held(tc[1].call, ts, new, n, ans)
  BY <1>2 DEF Mail, Held
<1>4. ASSUME NEW i \in DOMAIN new, NEW j \in DOMAIN new, new[i].call = new[j].call
      PROVE  i = j
  <2>1. i + 1 = j + 1
    BY <1>4, <1>2, SMTT(60) DEF Mail
  <2> QED BY <2>1, <1>2
<1>5. /\ \A i \in DOMAIN new : Waits(new[i].call, n, ans)
      /\ \A i \in DOMAIN ts, j \in DOMAIN new : ts[i].op # "kill" => ts[i].call # new[j].call
  BY <1>2 DEF Mail
<1>6. Mail(ts, new, n, k, ans)
  BY <1>2, <1>4, <1>5 DEF Mail, R
<1> QED BY <1>2, <1>3, <1>6 DEF new, R

\* The server takes a request: nothing else is on its way for its call.
LEMMA ServeHeld ==
  ASSUME NEW ts, NEW tc, NEW n, NEW k, NEW ans, Mail(ts, tc, n, k, ans), ts # <<>>
  PROVE  /\ Mail(Tail(ts), tc, n, k, ans)
         /\ Head(ts) \in Requests(n, k) /\ Head(ts) = ts[1] /\ 1 \in DOMAIN ts
         /\ Head(ts).op # "kill" => Held(Head(ts).call, Tail(ts), tc, n, ans)
<1> DEFINE R == Requests(n, k)
           new == Tail(ts)
<1>1. ts \in Seq(R)
  BY DEF Mail
<1> HIDE DEF R
<1>2. /\ Head(ts) \in R /\ new \in Seq(R) /\ Head(ts) = ts[1] /\ 1 \in DOMAIN ts
      /\ \A i \in DOMAIN new : i + 1 \in DOMAIN ts /\ i + 1 # 1 /\ new[i] = ts[i + 1]
      /\ DOMAIN new \subseteq Int
  BY <1>1, TailIs
<1> HIDE DEF new
<1>3. ts[1].op # "kill" => Held(ts[1].call, new, tc, n, ans)
  BY <1>2 DEF Mail, Held
<1>4. ASSUME NEW i \in DOMAIN new, NEW j \in DOMAIN new,
             new[i].op # "kill", new[j].op # "kill", new[i].call = new[j].call
      PROVE  i = j
  <2>1. i + 1 = j + 1
    BY <1>4, <1>2, SMTT(60) DEF Mail
  <2> QED BY <2>1, <1>2
<1>5. /\ \A i \in DOMAIN new : new[i].op # "kill" => Waits(new[i].call, n, ans)
      /\ \A i \in DOMAIN new, j \in DOMAIN tc : new[i].op # "kill" => new[i].call # tc[j].call
  BY <1>2 DEF Mail
<1>6. Mail(new, tc, n, k, ans)
  BY <1>2, <1>4, <1>5 DEF Mail, R
<1> QED BY <1>2, <1>3, <1>6 DEF new, R

\* nextObject is called: nothing is on its way for the call.
LEMMA CallHeld ==
  ASSUME NEW ts, NEW tc, NEW n, NEW k, NEW ans, Mail(ts, tc, n, k, ans), n < MaxCalls
  PROVE  /\ Mail(ts, tc, n + 1, k, ans)
         /\ Held(n + 1, ts, tc, n + 1, ans)
<1>1. n \in Nat /\ k \in Nat /\ n + 1 \in 0 .. MaxCalls /\ n + 1 \in Calls
  BY Constants DEF Mail, Calls
<1>2. Requests(n, k) \subseteq Requests(n + 1, k) /\ Replies(n, k) \subseteq Replies(n + 1, k)
  BY <1>1, RequestsGrow
<1>3. ts \in Seq(Requests(n + 1, k)) /\ tc \in Seq(Replies(n + 1, k))
  BY <1>2, SeqMonotonic DEF Mail
<1>4. \A c : Waits(c, n, ans) => Waits(c, n + 1, ans) /\ c # n + 1
  BY <1>1 DEF Waits
<1>5. Waits(n + 1, n + 1, ans)
  BY <1>1 DEF Mail, Waits
<1>6. Mail(ts, tc, n + 1, k, ans)
  BY <1>1, <1>3, <1>4 DEF Mail, Calls
<1>7. Held(n + 1, ts, tc, n + 1, ans)
  BY <1>4, <1>5 DEF Mail, Held
<1> QED BY <1>6, <1>7

\* The server creates a cursor.
LEMMA CreateHeld ==
  ASSUME NEW ts, NEW tc, NEW n, NEW k, NEW ans, Mail(ts, tc, n, k, ans)
  PROVE  Mail(ts, tc, n, k + 1, ans)
<1>1. n \in Nat /\ k \in Nat /\ k + 1 \in Nat
  BY Constants DEF Mail
<1>2. Requests(n, k) \subseteq Requests(n, k + 1) /\ Replies(n, k) \subseteq Replies(n, k + 1)
  BY <1>1, RequestsGrow
<1>3. ts \in Seq(Requests(n, k + 1)) /\ tc \in Seq(Replies(n, k + 1))
  BY <1>2, SeqMonotonic DEF Mail
<1> QED BY <1>1, <1>3 DEF Mail

\* The connection breaks.
LEMMA BreakHeld ==
  ASSUME NEW ts, NEW tc, NEW n, NEW k, NEW ans, Mail(ts, tc, n, k, ans)
  PROVE  Mail(<<>>, <<>>, n, k, ans)
<1>1. <<>> \in Seq(Requests(n, k)) /\ <<>> \in Seq(Replies(n, k))
  BY EmptySeq
<1> QED BY <1>1 DEF Mail

-----------------------------------------------------------------------------
(* Types                                                                   *)

\* TypeOK, without the messages and the answers, which Mail types.
Docs == Seq(1 .. NDocs)

Cursors(k) == 0 .. k

ClientTyped ==
  /\ state \in {"INIT", "OPEN", "CLOSED"}
  /\ items \in Docs
  /\ nulled \in BOOLEAN /\ (nulled => items = <<>>)
  /\ cursorId \in Cursors(made)
  /\ total \in Nat
  /\ closing \in BOOLEAN /\ ended \in BOOLEAN
  /\ given \in Docs

CallerTyped ==
  /\ limit \in Limits /\ batch \in Batches
  /\ userClosed \in BOOLEAN /\ disturbed \in BOOLEAN
  /\ closes \in 0 .. MaxCloses

ServerTyped ==
  /\ up \in BOOLEAN /\ timedOut \in BOOLEAN
  /\ open \subseteq [id : 1 .. made, next : 1 .. NDocs + 1]
  /\ Distinct

Typed == ClientTyped /\ CallerTyped /\ ServerTyped /\ Posted

LEMMA TypedIs == Typed <=> TypeOK /\ Posted /\ Distinct
<1>1. Posted => /\ made \in Nat /\ asked \in 0 .. MaxCalls /\ answered \in [Calls -> 0 .. 2]
                /\ toServer \in Seq(Requests(asked, made)) /\ toClient \in Seq(Replies(asked, made))
  BY DEF Posted, Mail
<1>2. {nulled, closing, ended, userClosed, disturbed, up, timedOut} \subseteq BOOLEAN
      <=> /\ nulled \in BOOLEAN /\ closing \in BOOLEAN /\ ended \in BOOLEAN /\ userClosed \in BOOLEAN
          /\ disturbed \in BOOLEAN /\ up \in BOOLEAN /\ timedOut \in BOOLEAN
  OBVIOUS
<1> DEFINE A == toServer \in Seq(Requests(asked, made))
           B == toClient \in Seq(Replies(asked, made))
           C == answered \in [Calls -> 0 .. 2]
           D == open \subseteq [id : 1 .. made, next : 1 .. NDocs + 1]
           E == items \in Docs
           F == given \in Docs
           G == {nulled, closing, ended, userClosed, disturbed, up, timedOut} \subseteq BOOLEAN
           P == Posted
<1>3. P => /\ made \in Nat /\ asked \in 0 .. MaxCalls /\ A /\ B /\ C
  BY <1>1
<1>4. TypeOK <=>
        /\ limit \in Limits /\ batch \in Batches
        /\ state \in {"INIT", "OPEN", "CLOSED"}
        /\ E /\ (nulled => items = <<>>)
        /\ made \in Nat /\ cursorId \in 0 .. made
        /\ total \in Nat
        /\ G
        /\ closes \in 0 .. MaxCloses
        /\ asked \in 0 .. MaxCalls
        /\ C /\ F /\ D /\ A /\ B
  BY DEF TypeOK, Docs
<1>5. Typed <=>
        /\ state \in {"INIT", "OPEN", "CLOSED"}
        /\ E
        /\ nulled \in BOOLEAN /\ (nulled => items = <<>>)
        /\ cursorId \in 0 .. made
        /\ total \in Nat
        /\ closing \in BOOLEAN /\ ended \in BOOLEAN
        /\ F
        /\ limit \in Limits /\ batch \in Batches
        /\ userClosed \in BOOLEAN /\ disturbed \in BOOLEAN
        /\ closes \in 0 .. MaxCloses
        /\ up \in BOOLEAN /\ timedOut \in BOOLEAN
        /\ D
        /\ Distinct
        /\ P
  BY DEF Typed, ClientTyped, CallerTyped, ServerTyped, Cursors
<1>6. G <=> /\ nulled \in BOOLEAN /\ closing \in BOOLEAN /\ ended \in BOOLEAN /\ userClosed \in BOOLEAN
            /\ disturbed \in BOOLEAN /\ up \in BOOLEAN /\ timedOut \in BOOLEAN
  BY <1>2
<1> HIDE DEF A, B, C, D, E, F, G, P
<1>7. Typed <=> TypeOK /\ P /\ Distinct
  BY <1>3, <1>4, <1>5, <1>6
<1> QED BY <1>7 DEF P

LEMMA LimitRequestType == ASSUME CallerTyped PROVE LimitRequest \in Nat
BY Constants DEF CallerTyped, LimitRequest, Least

\* The steps of a call that is handled with the messages of ts and tc on their way.
At(c, ts, tc, n, k, ans) == Mail(ts, tc, n, k, ans) /\ Held(c, ts, tc, n, ans)

LEMMA AnswerAt ==
  ASSUME NEW c, NEW t \in 1 .. 2, At(c, toServer, toClient', asked', made, answered), Answer(c, t)
  PROVE  Mail(toServer, toClient', asked', made, answered')
<1>1. Mail(toServer, toClient', asked', made, [answered EXCEPT ![c] = @ + t])
  BY AnswerHeld DEF At
<1> QED BY <1>1 DEF Answer

LEMMA KillAt ==
  ASSUME NEW c, NEW cid \in Cursors(made), At(c, toServer, toClient', asked', made, answered)
  PROVE  At(c, toServer \o Kill(cid), toClient', asked', made, answered)
BY KillHeld DEF At, Cursors

LEMMA EndAt ==
  ASSUME NEW c, NEW cid \in Cursors(made), At(c, toServer, toClient', asked', made, answered), End(c, cid)
  PROVE  Mail(toServer', toClient', asked', made, answered')
<1>1. At(c, toServer \o Kill(cid), toClient', asked', made, answered)
  BY KillAt
<1>2. At(c, toServer', toClient', asked', made, answered) /\ Answer(c, 1)
  BY <1>1 DEF End
<1>3. \A t \in 1 .. 2 : Mail(toServer', toClient', asked', made, [answered EXCEPT ![c] = @ + t])
  BY <1>2, AnswerHeld DEF At
<1> QED BY <1>2, <1>3 DEF Answer

LEMMA SendAt ==
  ASSUME NEW c, NEW x, At(c, toServer, toClient', asked', made, answered),
         x \in Requests(asked', made), x.call = c,
         toServer' = Append(toServer, x), answered' = answered
  PROVE  Mail(toServer', toClient', asked', made, answered')
<1>1. Mail(Append(toServer, x), toClient', asked', made, answered)
  BY SendHeld DEF At
<1> QED BY <1>1

LEMMA AtIs ==
  ASSUME NEW c, NEW ts, NEW tc, NEW n, NEW k, NEW ans, At(c, ts, tc, n, k, ans)
  PROVE  /\ n \in Nat /\ k \in Nat /\ c \in 1 .. n /\ c \in Calls /\ ans[c] = 0 /\ ans \in [Calls -> 0 .. 2]
BY Constants DEF At, Mail, Held, Waits, Calls

LEMMA QueryType ==
  ASSUME NEW n \in Nat, NEW k \in Nat, NEW c \in 1 .. n, NEW cid \in Cursors(k), LimitRequest \in Nat
  PROVE  /\ Query(c) \in Requests(n, k) /\ Query(c).call = c
         /\ More(c, cid) \in Requests(n, k) /\ More(c, cid).call = c
BY DEF Query, More, Requests, Cursors

LEMMA TailDocs ==
  ASSUME NEW its \in Docs, its # <<>>
  PROVE  /\ Tail(its) \in Docs /\ Head(its) \in 1 .. NDocs
         /\ \A s \in Docs : Append(s, Head(its)) \in Docs
<1> DEFINE S == 1 .. NDocs
<1>1. its \in Seq(S)
  BY DEF Docs
<1> HIDE DEF S
<1>2. Tail(its) \in Seq(S) /\ Head(its) \in S /\ \A s \in Seq(S) : Append(s, Head(its)) \in Seq(S)
  BY <1>1, HeadTailProperties, AppendProperties
<1> QED BY <1>2 DEF S, Docs

\* nextObject in a state that is not INIT, and the steps like it.
LEMMA AdvanceTyped ==
  ASSUME NEW c, NEW st \in {"OPEN", "CLOSED"}, NEW its \in Docs, NEW cid \in Cursors(made), NEW tot \in Nat,
         ClientTyped, CallerTyped, ~nulled, made' = made,
         At(c, toServer, toClient', asked', made, answered),
         Advance(c, st, its, cid, tot)
  PROVE  ClientTyped' /\ Posted'
<1>1. made \in Nat /\ 0 \in Cursors(made) /\ <<>> \in Docs
  BY AtIs, EmptySeq DEF Cursors, Docs
<1>2. CASE its # <<>> /\ state' = st /\ cursorId' = cid /\ GiveItem(c, its)
  <2>1. Mail(toServer, toClient', asked', made, answered')
    BY <1>2, AnswerAt DEF GiveItem
  <2>2. items' \in Docs /\ given' \in Docs
    BY <1>2, TailDocs DEF GiveItem, ClientTyped
  <2>3. ClientTyped'
    BY <1>1, <1>2, <2>2 DEF ClientTyped, GiveItem, Advance
  <2> QED BY <2>1, <2>3, <1>2 DEF Posted, GiveItem
<1>3. ASSUME End(c, cid), items' = <<>> PROVE ClientTyped' /\ Posted'
  <2>1. Mail(toServer', toClient', asked', made, answered')
    BY <1>3, EndAt
  <2>2. ClientTyped'
    BY <1>1, <1>3 DEF ClientTyped, End, Advance
  <2> QED BY <2>1, <2>2 DEF Posted
<1>4. CASE its = <<>> /\ cid > 0 /\ GetMore(c, st, cid, tot) /\ ~LimitReached(tot)
  <2>1. /\ state' = st /\ cursorId' = cid /\ items' = <<>>
        /\ UNCHANGED <<nulled, closing, given, ended>>
        /\ \/ toServer' = Append(toServer, More(c, cid)) /\ UNCHANGED answered
           \/ Answer(c, 2) /\ UNCHANGED toServer
    BY <1>4 DEF GetMore
  <2>2. ASSUME toServer' = Append(toServer, More(c, cid)) /\ UNCHANGED answered
        PROVE  Mail(toServer', toClient', asked', made, answered')
    <3>1. More(c, cid) \in Requests(asked', made) /\ More(c, cid).call = c
      BY AtIs, LimitRequestType, QueryType
    <3> QED BY <3>1, <2>2, SendAt
  <2>3. ASSUME Answer(c, 2), UNCHANGED toServer
        PROVE  Mail(toServer', toClient', asked', made, answered')
    BY <2>3, AnswerAt
  <2>4. ClientTyped'
    BY <1>1, <2>1 DEF ClientTyped, Advance
  <2> QED BY <2>1, <2>2, <2>3, <2>4, AtIs DEF Posted
<1>5. CASE its = <<>> /\ cid > 0 /\ GetMore(c, st, cid, tot) /\ LimitReached(tot)
  BY <1>3, <1>5, Zenon DEF GetMore
<1>6. CASE its = <<>> /\ cid = 0 /\ End(c, cid) /\ items' = <<>>
  BY <1>3, <1>6
<1> QED BY <1>2, <1>4, <1>5, <1>6, Zenon DEF Advance

-----------------------------------------------------------------------------
(* Every step keeps the types                                              *)

LEMMA ReceiveAt ==
  ASSUME NEW op, Posted, Receive(op)
  PROVE  /\ At(Reply.call, toServer, toClient', asked', made, answered)
         /\ Reply.docs \in Docs /\ Len(Reply.docs) \in Nat
         /\ Reply.cursor \in Cursors(made) /\ Reply.err \in BOOLEAN
         /\ UNCHANGED <<config, closes, asked, userClosed, disturbed, server>>
<1>1. /\ Mail(toServer, toClient, asked, made, answered)
      /\ toClient # <<>> /\ toClient' = Tail(toClient) /\ asked' = asked
      /\ UNCHANGED <<config, closes, asked, userClosed, disturbed, server>>
  BY DEF Posted, Receive
<1>2. /\ At(Reply.call, toServer, toClient', asked', made, answered)
      /\ Reply \in Replies(asked, made)
  BY <1>1, ReceiveHeld DEF At, Reply
<1>3. Reply.docs \in Docs /\ Reply.cursor \in Cursors(made) /\ Reply.err \in BOOLEAN
  BY <1>2 DEF Replies, Docs, Cursors
<1>4. Len(Reply.docs) \in Nat
  BY <1>3, LenProperties DEF Docs
<1> QED BY <1>1, <1>2, <1>3, <1>4

LEMMA ServerStays ==
  ASSUME ServerTyped, UNCHANGED server PROVE ServerTyped'
BY DEF ServerTyped, Distinct, server

LEMMA NextObjectTyped == ASSUME Typed, NextObject PROVE Typed'
<1> DEFINE c == asked + 1
<1>1. /\ asked < MaxCalls /\ asked' = c
      /\ UNCHANGED <<limit, batch, closes, userClosed, toClient>> /\ UNCHANGED server
      /\ made' = made /\ up' = up
      /\ disturbed' \in BOOLEAN
      /\ \/ /\ IF up THEN toServer' = Append(toServer, Query(c)) /\ UNCHANGED answered
                     ELSE Answer(c, 1) /\ UNCHANGED toServer
            /\ UNCHANGED <<state, items, nulled, cursorId, total, closing, given, ended>>
         \/ /\ nulled /\ Fail(c)
            /\ UNCHANGED <<state, cursorId, total>>
         \/ /\ state # "INIT" /\ ~nulled
            /\ Advance(c, state, items, cursorId, total)
  BY DEF NextObject, config, server
<1>2. /\ At(c, toServer, toClient', asked', made, answered)
      /\ ClientTyped /\ CallerTyped /\ ServerTyped
  BY <1>1, CallHeld DEF Typed, Posted, At
<1> HIDE DEF c
<1>3. ServerTyped' /\ CallerTyped'
  BY <1>1, <1>2, ServerStays DEF CallerTyped
<1>4. ASSUME toServer' = Append(toServer, Query(c)) /\ UNCHANGED answered
      PROVE  Posted'
  <2>1. Query(c) \in Requests(asked', made) /\ Query(c).call = c
    BY <1>2, AtIs, LimitRequestType, QueryType DEF Cursors
  <2>2. Mail(toServer', toClient', asked', made, answered')
    BY <2>1, <1>2, <1>4, SendAt
  <2> QED BY <2>2, <1>1 DEF Posted
<1>5. ASSUME Answer(c, 1) /\ UNCHANGED toServer PROVE Posted'
  <2>1. Mail(toServer, toClient', asked', made, answered')
    BY <1>2, <1>5, AnswerAt
  <2> QED BY <2>1, <1>1, <1>5 DEF Posted
<1>6. ASSUME UNCHANGED <<state, items, nulled, cursorId, total, closing, given, ended>>
      PROVE  ClientTyped'
  BY <1>1, <1>2, <1>6 DEF ClientTyped
<1>7. ASSUME nulled, Fail(c), UNCHANGED <<state, cursorId, total>>
      PROVE  ClientTyped' /\ Posted'
  BY <1>5, <1>6, <1>7 DEF Fail
<1>8. ASSUME state # "INIT", ~nulled, Advance(c, state, items, cursorId, total)
      PROVE  ClientTyped' /\ Posted'
  BY <1>1, <1>2, <1>8, AdvanceTyped DEF ClientTyped
<1>9. ClientTyped' /\ Posted'
  BY <1>1, <1>4, <1>5, <1>6, <1>7, <1>8, Zenon
<1> QED BY <1>3, <1>9 DEF Typed

LEMMA CloseTyped ==
  ASSUME Typed, NEW callback \in BOOLEAN, Close(callback) PROVE Typed'
<1>1. /\ UNCHANGED <<limit, batch, items, nulled, total, asked, answered, given, ended, toClient>>
      /\ UNCHANGED server /\ made' = made
      /\ toServer' = toServer \o Kill(cursorId)
      /\ state' = "CLOSED" /\ cursorId' = 0 /\ closing' \in BOOLEAN
      /\ closes' = closes + 1 /\ closes < MaxCloses
      /\ userClosed' \in BOOLEAN /\ disturbed' \in BOOLEAN
  BY DEF Close, config, server
<1>2. Mail(toServer, toClient, asked, made, answered) /\ ClientTyped /\ CallerTyped /\ ServerTyped
  BY DEF Typed, Posted
<1>3. made \in Nat /\ cursorId \in 0 .. made
  BY <1>2 DEF Mail, ClientTyped, Cursors
<1>4. Posted'
  <2>1. Mail(toServer \o Kill(cursorId), toClient, asked, made, answered)
    BY <1>2, <1>3, KillHeld
  <2> QED BY <2>1, <1>1 DEF Posted
<1>5. ClientTyped'
  BY <1>1, <1>2, <1>3 DEF ClientTyped, Cursors
<1>6. CallerTyped'
  BY <1>1, <1>2, Constants DEF CallerTyped
<1> QED BY <1>1, <1>2, <1>4, <1>5, <1>6, ServerStays DEF Typed

LEMMA CloseReturnsTyped == ASSUME Typed, CloseReturns PROVE Typed'
<1>1. /\ UNCHANGED <<limit, batch, state, cursorId, total, closes, asked, answered, given, ended,
                     userClosed, disturbed, toServer, toClient>>
      /\ UNCHANGED server /\ made' = made
      /\ closing' = FALSE /\ nulled' = TRUE /\ items' = <<>>
  BY DEF CloseReturns, config, server
<1>2. <<>> \in Docs
  BY EmptySeq DEF Docs
<1>3. ClientTyped' /\ CallerTyped'
  BY <1>1, <1>2 DEF Typed, ClientTyped, CallerTyped
<1>4. Posted'
  BY <1>1 DEF Typed, Posted
<1> QED BY <1>1, <1>3, <1>4, ServerStays DEF Typed

LEMMA RewindTyped == ASSUME Typed, Rewind PROVE Typed'
<1>1. /\ UNCHANGED <<limit, batch, closing, asked, answered, toClient>>
      /\ UNCHANGED server /\ made' = made
      /\ state' = "INIT" /\ items' = <<>> /\ nulled' = FALSE /\ cursorId' = 0 /\ total' = 0
      /\ given' = <<>> /\ ended' = FALSE /\ userClosed' = FALSE
      /\ closes' = closes + 1 /\ closes < MaxCloses
      /\ disturbed' \in BOOLEAN
  BY DEF Rewind, config, server
<1>0. toServer' = toServer \o (IF state = "CLOSED" THEN <<>> ELSE Kill(cursorId))
  BY DEF Rewind
<1>2. Mail(toServer, toClient, asked, made, answered) /\ ClientTyped /\ CallerTyped /\ ServerTyped
  BY DEF Typed, Posted
<1>3. made \in Nat /\ cursorId \in 0 .. made /\ <<>> \in Docs
  BY <1>2, EmptySeq DEF Mail, ClientTyped, Cursors, Docs
<1>4. Posted'
  <2> DEFINE R == Requests(asked, made)
  <2>1. Mail(toServer \o Kill(cursorId), toClient, asked, made, answered)
    BY <1>2, <1>3, KillHeld
  <2>2. toServer \in Seq(R)
    BY <1>2 DEF Mail
  <2> HIDE DEF R
  <2>3. toServer \o <<>> = toServer
    BY <2>2, ConcatEmptySeq
  <2>4. toServer' = toServer \/ toServer' = toServer \o Kill(cursorId)
    BY <1>0, <2>3
  <2> QED BY <2>1, <2>4, <1>1, <1>2 DEF Posted
<1>5. ClientTyped'
  <2>1. /\ state' \in {"INIT", "OPEN", "CLOSED"}
        /\ nulled' \in BOOLEAN /\ closing' \in BOOLEAN /\ ended' \in BOOLEAN
        /\ total' \in Nat /\ cursorId' \in Cursors(made')
    <3>1. closing \in BOOLEAN /\ 0 \in Cursors(made)
      BY <1>2, <1>3 DEF ClientTyped, Cursors
    <3>2. /\ state' = "INIT" /\ nulled' = FALSE /\ ended' = FALSE /\ closing' = closing
          /\ total' = 0 /\ cursorId' = 0 /\ made' = made
      BY <1>1
    <3> QED BY <3>1, <3>2
  <2>2. items' \in Docs /\ given' \in Docs /\ items' = <<>>
    BY <1>1, <1>3
  <2> QED BY <2>1, <2>2 DEF ClientTyped
<1>6. CallerTyped'
  <2>1. closes' \in 0 .. MaxCloses
    BY <1>1, <1>2, Constants DEF CallerTyped
  <2>2. userClosed' \in BOOLEAN /\ disturbed' \in BOOLEAN /\ limit' = limit /\ batch' = batch
    BY <1>1
  <2> QED BY <2>1, <2>2, <1>2 DEF CallerTyped
<1> QED BY <1>1, <1>2, <1>4, <1>5, <1>6, ServerStays DEF Typed

LEMMA CallerStays ==
  ASSUME CallerTyped, UNCHANGED <<config, closes, userClosed, disturbed>> PROVE CallerTyped'
BY DEF CallerTyped, config

LEMMA ReceiveStays ==
  ASSUME Typed, NEW op, Receive(op)
  PROVE  /\ CallerTyped' /\ ServerTyped' /\ made' = made /\ up' = up
         /\ ClientTyped /\ CallerTyped
         /\ At(Reply.call, toServer, toClient', asked', made, answered)
         /\ Reply.docs \in Docs /\ Len(Reply.docs) \in Nat
         /\ Reply.cursor \in Cursors(made) /\ Reply.err \in BOOLEAN
<1>1. Posted /\ ClientTyped /\ CallerTyped /\ ServerTyped
  BY DEF Typed
<1>2. /\ At(Reply.call, toServer, toClient', asked', made, answered)
      /\ Reply.docs \in Docs /\ Len(Reply.docs) \in Nat
      /\ Reply.cursor \in Cursors(made) /\ Reply.err \in BOOLEAN
      /\ UNCHANGED <<config, closes, userClosed, disturbed, server>>
  BY <1>1, ReceiveAt
<1>3. made' = made /\ up' = up
  BY <1>2 DEF server
<1> QED BY <1>1, <1>2, <1>3, CallerStays, ServerStays

LEMMA QueryErrorTyped == ASSUME Typed, QueryError PROVE Typed'
<1>1. /\ Receive("query")
      /\ state' = "CLOSED" /\ cursorId' = 0 /\ closing' = TRUE
      /\ toServer' = toServer \o Kill(cursorId)
      /\ Answer(Reply.call, 1)
      /\ UNCHANGED <<items, nulled, total, given, ended>>
  BY DEF QueryError
<1>2. /\ CallerTyped' /\ ServerTyped' /\ made' = made
      /\ ClientTyped
      /\ At(Reply.call, toServer, toClient', asked', made, answered)
  BY <1>1, ReceiveStays
<1> DEFINE c == Reply.call
<1> HIDE DEF c
<1>3. At(c, toServer, toClient', asked', made, answered) /\ cursorId \in Cursors(made) /\ 0 \in Cursors(made)
  BY <1>2, AtIs DEF c, ClientTyped, Cursors
<1>4. At(c, toServer', toClient', asked', made, answered)
  BY <1>1, <1>3, KillAt
<1>5. \A t \in 1 .. 2 : Mail(toServer', toClient', asked', made, [answered EXCEPT ![c] = @ + t])
  BY <1>4, AnswerHeld DEF At
<1>6. Posted'
  BY <1>1, <1>2, <1>5 DEF Answer, Posted, c
<1>7. ClientTyped'
  BY <1>1, <1>2, <1>3 DEF ClientTyped
<1> QED BY <1>2, <1>6, <1>7 DEF Typed

LEMMA JoinDocs ==
  ASSUME NEW s \in Docs, NEW t \in Docs
  PROVE  /\ s \o t \in Docs /\ Len(s \o t) = Len(s) + Len(t) /\ Len(s) \in Nat /\ Len(t) \in Nat
         /\ \A i \in 1 .. Len(s) + Len(t) : (s \o t)[i] = IF i <= Len(s) THEN s[i] ELSE t[i - Len(s)]
         /\ s = <<>> => s \o t = t
<1> DEFINE S == 1 .. NDocs
<1> HIDE DEF S
<1>1. s \in Seq(S) /\ t \in Seq(S)
  BY DEF Docs, S
<1>2. /\ s \o t \in Seq(S) /\ Len(s \o t) = Len(s) + Len(t) /\ Len(s) \in Nat /\ Len(t) \in Nat
      /\ \A i \in 1 .. Len(s) + Len(t) : (s \o t)[i] = IF i <= Len(s) THEN s[i] ELSE t[i - Len(s)]
  BY <1>1, ConcatProperties, LenProperties
<1>3. <<>> \o t = t
  BY <1>1, ConcatEmptySeq
<1> QED BY <1>2, <1>3 DEF S, Docs

LEMMA QueryReplyTyped == ASSUME Typed, QueryReply PROVE Typed'
<1> DEFINE c == Reply.call
           its == items \o Reply.docs
           cid == Reply.cursor
           tot == Len(Reply.docs)
<1>1. /\ Receive("query")
      /\ \/ /\ nulled
            /\ state' = "OPEN" /\ cursorId' = cid /\ total' = tot
            /\ Fail(c)
         \/ ~nulled /\ Advance(c, "OPEN", its, cid, tot)
  BY DEF QueryReply
<1>2. /\ CallerTyped' /\ ServerTyped' /\ made' = made
      /\ ClientTyped /\ CallerTyped
      /\ At(c, toServer, toClient', asked', made, answered)
      /\ Reply.docs \in Docs /\ tot \in Nat
      /\ cid \in Cursors(made)
  BY <1>1, ReceiveStays
<1>3. its \in Docs
  BY <1>2, JoinDocs DEF ClientTyped
<1> HIDE DEF c, its, cid, tot
<1>4. CASE nulled /\ state' = "OPEN" /\ cursorId' = cid /\ total' = tot /\ Fail(c)
  <2>1. Mail(toServer, toClient', asked', made, answered')
    BY <1>2, <1>4, AnswerAt DEF Fail
  <2>2. Posted'
    BY <2>1, <1>2, <1>4 DEF Fail, Posted
  <2>3. ClientTyped'
    BY <1>2, <1>4 DEF ClientTyped, Fail
  <2> QED BY <1>2, <2>2, <2>3 DEF Typed
<1>5. CASE ~nulled /\ Advance(c, "OPEN", its, cid, tot)
  <2>1. ClientTyped' /\ Posted'
    BY <1>2, <1>3, <1>5, AdvanceTyped
  <2> QED BY <1>2, <2>1 DEF Typed
<1> QED BY <1>1, <1>4, <1>5

LEMMA TrimIs ==
  ASSUME NEW docs \in Docs, NEW tot \in Nat, limit \in Nat
  PROVE  /\ Trim(docs, tot) \in Docs
         /\ Len(Trim(docs, tot)) = IF limit > 0 /\ tot > limit
                                   THEN Len(docs) - Least(tot - limit, Len(docs)) ELSE Len(docs)
         /\ \A i \in 1 .. Len(Trim(docs, tot)) : Trim(docs, tot)[i] = docs[i]
<1> DEFINE S == 1 .. NDocs
           n == Len(docs) - Least(tot - limit, Len(docs))
<1>1. Len(docs) \in Nat /\ docs \in Seq(S)
  BY LenProperties DEF Docs
<1>2. CASE limit > 0 /\ tot > limit
  <2>1. n \in Nat /\ n <= Len(docs)
    BY <1>1, <1>2 DEF Least
  <2>2. Trim(docs, tot) = SubSeq(docs, 1, n)
    BY <1>2 DEF Trim
  <2> HIDE DEF n, S
  <2>3. \A i \in 1 .. n : docs[i] \in S
    BY <1>1, <2>1, ElementOfSeq
  <2>4. /\ SubSeq(docs, 1, n) \in Seq(S)
        /\ Len(SubSeq(docs, 1, n)) = IF 1 <= n THEN n - 1 + 1 ELSE 0
        /\ \A i \in 1 .. n - 1 + 1 : SubSeq(docs, 1, n)[i] = docs[1 + i - 1]
    BY <2>1, <2>3, SubSeqProperties
  <2>5. Len(SubSeq(docs, 1, n)) = n /\ \A i \in 1 .. n : SubSeq(docs, 1, n)[i] = docs[i]
    BY <2>1, <2>4
  <2> QED BY <1>2, <2>2, <2>4, <2>5 DEF n, S, Docs
<1>3. CASE ~(limit > 0 /\ tot > limit)
  BY <1>1, <1>3 DEF Trim
<1> QED BY <1>2, <1>3

LEMMA MoreReplyTyped == ASSUME Typed, MoreReply PROVE Typed'
<1> DEFINE c == Reply.call
           cid == Reply.cursor
           tot == total + Len(Reply.docs)
           its == items \o Trim(Reply.docs, tot)
<1>1. /\ Receive("more")
      /\ cursorId' = cid /\ total' = tot /\ state' = state
      /\ \/ nulled /\ Fail(c)
         \/ ~nulled /\ its # <<>> /\ GiveItem(c, its)
         \/ /\ ~nulled /\ its = <<>>
            /\ Answer(c, 1)
            /\ ended' = TRUE
            /\ UNCHANGED <<items, nulled, closing, given, toServer>>
  BY DEF MoreReply
<1>2. /\ CallerTyped' /\ ServerTyped' /\ made' = made
      /\ ClientTyped /\ CallerTyped
      /\ At(c, toServer, toClient', asked', made, answered)
      /\ Reply.docs \in Docs /\ tot \in Nat
      /\ cid \in Cursors(made)
  BY <1>1, ReceiveStays DEF ClientTyped
<1>3. its \in Docs
  <2>1. limit \in Nat
    BY <1>2, Constants DEF CallerTyped
  <2>2. Trim(Reply.docs, tot) \in Docs
    BY <1>2, <2>1, TrimIs
  <2> QED BY <1>2, <2>2, JoinDocs DEF ClientTyped
<1> HIDE DEF c, its, cid, tot
<1>4. Answer(c, 1) /\ toServer' = toServer
  BY <1>1 DEF Fail, GiveItem
<1>5. Posted'
  <2>1. Mail(toServer, toClient', asked', made, answered')
    BY <1>2, <1>4, AnswerAt
  <2> QED BY <2>1, <1>2, <1>4 DEF Posted
<1>6. ClientTyped'
  <2>1. CASE nulled /\ Fail(c)
    BY <1>1, <1>2, <2>1 DEF ClientTyped, Fail
  <2>2. CASE ~nulled /\ its # <<>> /\ GiveItem(c, its)
    <3>1. items' \in Docs /\ given' \in Docs
      BY <1>2, <1>3, <2>2, TailDocs DEF GiveItem, ClientTyped
    <3> QED BY <1>1, <1>2, <2>2, <3>1 DEF ClientTyped, GiveItem
  <2>3. CASE ~nulled /\ ended' = TRUE /\ UNCHANGED <<items, nulled, closing, given, toServer>>
    BY <1>1, <1>2, <2>3 DEF ClientTyped
  <2> QED BY <1>1, <2>1, <2>2, <2>3
<1> QED BY <1>2, <1>5, <1>6 DEF Typed

LEMMA NoMoreReplyTyped == ASSUME Typed, NoMoreReply PROVE Typed'
<1> DEFINE c == Reply.call
           cid == Reply.cursor
<1>1. /\ Receive("more") /\ total' = total /\ items' = items /\ End(c, cid)
  BY DEF NoMoreReply
<1>2. /\ CallerTyped' /\ ServerTyped' /\ made' = made
      /\ ClientTyped
      /\ At(c, toServer, toClient', asked', made, answered)
      /\ cid \in Cursors(made)
  BY <1>1, ReceiveStays
<1> HIDE DEF c, cid
<1>3. Posted'
  BY <1>1, <1>2, EndAt DEF Posted
<1>4. ClientTyped'
  <2>1. 0 \in Cursors(made)
    BY <1>2, AtIs DEF Cursors
  <2> QED BY <2>1, <1>1, <1>2 DEF ClientTyped, End
<1> QED BY <1>2, <1>3, <1>4 DEF Typed

\* The server takes a request: the client stays as it is.
LEMMA ServeStays ==
  ASSUME Typed, NEW op, Serve(op)
  PROVE  /\ CallerTyped' /\ CallerTyped /\ ServerTyped /\ ClientTyped
         /\ UNCHANGED <<asked, answered, up, timedOut>> /\ UNCHANGED client
         /\ made \in Nat /\ (made' \in Nat /\ made <= made' => ClientTyped')
         /\ Mail(toServer', toClient, asked, made, answered)
         /\ Asked \in Requests(asked, made) /\ Asked.op = op /\ Asked = toServer[1] /\ 1 \in DOMAIN toServer
         /\ op # "kill" => Held(Asked.call, toServer', toClient, asked, answered)
<1>1. /\ toServer # <<>> /\ Asked.op = op /\ toServer' = Tail(toServer)
      /\ UNCHANGED client /\ UNCHANGED <<up, timedOut>>
  BY DEF Serve
<1>2. /\ UNCHANGED <<limit, batch, state, items, nulled, cursorId, total, closing, closes, asked, answered, given, ended>>
      /\ UNCHANGED <<userClosed, disturbed>>
  BY <1>1 DEF client
<1>3. ClientTyped /\ CallerTyped /\ ServerTyped /\ Mail(toServer, toClient, asked, made, answered)
  BY DEF Typed, Posted
<1>4. /\ Mail(toServer', toClient, asked, made, answered)
      /\ Asked \in Requests(asked, made) /\ Asked = toServer[1] /\ 1 \in DOMAIN toServer
      /\ op # "kill" => Held(Asked.call, toServer', toClient, asked, answered)
  BY <1>1, <1>3, ServeHeld DEF Asked
<1>5. CallerTyped'
  BY <1>2, <1>3 DEF CallerTyped
<1>6. made \in Nat
  BY <1>3 DEF Mail
<1>7. ASSUME made' \in Nat, made <= made' PROVE ClientTyped'
  <2>1. Cursors(made) \subseteq Cursors(made')
    BY <1>6, <1>7 DEF Cursors
  <2> QED BY <2>1, <1>2, <1>3 DEF ClientTyped
<1> QED BY <1>1, <1>2, <1>3, <1>4, <1>5, <1>6, <1>7

LEMMA BatchIs ==
  ASSUME NEW first \in 1 .. NDocs + 1, NEW n \in Nat
  PROVE  /\ Batch(first, n) \in Docs
         /\ Len(Batch(first, n)) = Least(IF n = 0 THEN DefaultBatch ELSE n, NDocs - first + 1)
         /\ Len(Batch(first, n)) \in 0 .. NDocs - first + 1
         /\ Len(Batch(first, n)) = 0 => first = NDocs + 1
         /\ n > 0 => Len(Batch(first, n)) <= n
         /\ \A j \in DOMAIN Batch(first, n) : Batch(first, n)[j] = first + j - 1
<1> DEFINE k == IF n = 0 THEN DefaultBatch ELSE n
           m == Least(k, NDocs - first + 1)
           s == [j \in 1 .. m |-> first + j - 1]
<1>1. Batch(first, n) = s
  BY DEF Batch
<1>2. NDocs \in Nat /\ k \in Nat /\ k > 0
  BY Constants
<1>3. /\ m \in 0 .. NDocs - first + 1 /\ m \in Nat
      /\ (m = 0 => first = NDocs + 1) /\ (n > 0 => m <= n)
  BY <1>2 DEF Least
<1>4. \A j \in 1 .. m : first + j - 1 \in 1 .. NDocs
  BY <1>2, <1>3
<1>5. s \in Seq(1 .. NDocs) /\ Len(s) = m /\ DOMAIN s = 1 .. m
  <2> HIDE DEF m
  <2> QED BY <1>3, <1>4
<1>6. \A j \in DOMAIN s : s[j] = first + j - 1
  OBVIOUS
<1> HIDE DEF s
<1>7. s \in Docs
  BY <1>5 DEF Docs
<1> QED BY <1>1, <1>3, <1>5, <1>6, <1>7

\* The server answers what it has taken.
LEMMA AnsweringTyped ==
  ASSUME Typed, NEW op \in {"query", "more"}, Serve(op), made' \in Nat,
         made' = made \/ made' = made + 1,
         NEW docs \in Docs, NEW cid \in Cursors(made'), NEW err \in BOOLEAN,
         Answering(docs, cid, err)
  PROVE  ClientTyped' /\ CallerTyped' /\ Posted'
<1> DEFINE x == [op |-> Asked.op, call |-> Asked.call, docs |-> docs, cursor |-> cid, err |-> err]
<1>1. /\ CallerTyped' /\ UNCHANGED <<asked, answered>> /\ made \in Nat
      /\ made' \in Nat /\ made <= made' => ClientTyped'
      /\ Mail(toServer', toClient, asked, made, answered)
      /\ Asked \in Requests(asked, made) /\ Asked.op = op
      /\ op # "kill" => Held(Asked.call, toServer', toClient, asked, answered)
  BY ServeStays
<1>2. CallerTyped' /\ ClientTyped'
  BY <1>1
<1>3. Mail(toServer', toClient, asked, made', answered)
  BY <1>1, CreateHeld
<1>4. Held(Asked.call, toServer', toClient, asked, answered)
  BY <1>1
<1>5. Asked.call \in 1 .. asked
  BY <1>4 DEF Held, Waits
<1>6. x \in Replies(asked, made')
  BY <1>1, <1>5 DEF Replies, Docs, Cursors
<1>7. x.call = Asked.call /\ toClient' = Append(toClient, x)
  BY DEF Answering
<1> HIDE DEF x
<1>8. Mail(toServer', toClient', asked, made', answered)
  BY <1>3, <1>4, <1>6, <1>7, ReplyHeld
<1>9. Posted'
  BY <1>1, <1>8 DEF Posted
<1> QED BY <1>2, <1>9

LEMMA OpenGrows ==
  ASSUME ServerTyped, made \in Nat, made' = made + 1,
         NEW next \in 1 .. NDocs + 1,
         open' = open \cup {[id |-> made + 1, next |-> next]}
  PROVE  open' \subseteq [id : 1 .. made', next : 1 .. NDocs + 1] /\ Distinct'
<1>1. /\ \A cur \in open : cur \in [id : 1 .. made, next : 1 .. NDocs + 1]
      /\ \A a, b \in open : a.id = b.id => a = b
  BY DEF ServerTyped, Distinct
<1>2. \A cur \in open : cur \in [id : 1 .. made', next : 1 .. NDocs + 1] /\ cur.id # made + 1
  BY <1>1
<1> DEFINE x == [id |-> made + 1, next |-> next]
<1>3. x \in [id : 1 .. made', next : 1 .. NDocs + 1] /\ x.id = made + 1
  OBVIOUS
<1> HIDE DEF x
<1>4. open' = open \cup {x}
  BY DEF x
<1>5. Distinct'
  BY <1>1, <1>2, <1>3, <1>4 DEF Distinct
<1> QED BY <1>2, <1>3, <1>4, <1>5

LEMMA ServeQueryTyped == ASSUME Typed, ServeQuery PROVE Typed'
<1> DEFINE docs == Batch(1, Asked.n)
<1>1. /\ Serve("query")
      /\ \E stays \in IF Asked.n = 1 THEN {FALSE} ELSE Stays(Len(docs) + 1) :
           /\ made' = IF stays THEN made + 1 ELSE made
           /\ open' = IF stays THEN open \cup {[id |-> made', next |-> Len(docs) + 1]} ELSE open
           /\ Answering(docs, IF stays THEN made' ELSE 0, FALSE)
  BY DEF ServeQuery
<1>2. /\ ServerTyped /\ made \in Nat /\ UNCHANGED <<up, timedOut>>
      /\ Asked \in Requests(asked, made)
  BY <1>1, ServeStays
<1>3. docs \in Docs /\ Len(docs) + 1 \in 1 .. NDocs + 1
  <2>1. Asked.n \in Nat /\ 1 \in 1 .. NDocs + 1
    BY <1>2, Constants DEF Requests
  <2>2. docs \in Docs /\ Len(docs) \in 0 .. NDocs - 1 + 1
    BY <2>1, BatchIs
  <2> QED BY <2>2, Constants
<1> DEFINE last == Len(docs) + 1
<1> HIDE DEF docs, last
<1>4. PICK stays \in BOOLEAN :
           /\ made' = IF stays THEN made + 1 ELSE made
           /\ open' = IF stays THEN open \cup {[id |-> made', next |-> last]} ELSE open
           /\ Answering(docs, IF stays THEN made' ELSE 0, FALSE)
  BY <1>1 DEF Stays, last
<1>5. (IF stays THEN made' ELSE 0) \in Cursors(made')
  BY <1>2, <1>4 DEF Cursors
<1>6. ClientTyped' /\ CallerTyped' /\ Posted'
  <2>1. "query" \in {"query", "more"} /\ FALSE \in BOOLEAN
    OBVIOUS
  <2>2. PICK cid \in Cursors(made') : Answering(docs, cid, FALSE)
    BY <1>4, <1>5
  <2>3. made' \in Nat /\ (made' = made \/ made' = made + 1)
    BY <1>2, <1>4
  <2> QED BY <1>1, <1>3, <2>1, <2>2, <2>3, AnsweringTyped
<1>7. ServerTyped'
  <2>1. CASE stays
    <3>1. made' = made + 1 /\ open' = open \cup {[id |-> made + 1, next |-> last]}
      BY <1>4, <2>1
    <3>2. open' \subseteq [id : 1 .. made', next : 1 .. NDocs + 1] /\ Distinct'
      BY <3>1, <1>2, <1>3, OpenGrows DEF last
    <3> QED BY <3>2, <1>2 DEF ServerTyped
  <2>2. CASE ~stays
    BY <1>2, <1>4, <2>2 DEF ServerTyped, Distinct
  <2> QED BY <2>1, <2>2
<1> QED BY <1>6, <1>7 DEF Typed

LEMMA ServeNothingTyped ==
  ASSUME Typed, NEW op \in {"query", "more"}, Serve(op), NEW err \in BOOLEAN,
         Answering(<<>>, 0, err), UNCHANGED <<open, made>>
  PROVE  Typed'
<1>1. ServerTyped /\ made \in Nat /\ UNCHANGED <<up, timedOut>>
  BY ServeStays
<1>2. <<>> \in Docs /\ 0 \in Cursors(made') /\ made' \in Nat
  BY <1>1, EmptySeq DEF Docs, Cursors
<1>3. ClientTyped' /\ CallerTyped' /\ Posted'
  BY <1>2, AnsweringTyped
<1>4. ServerTyped'
  BY <1>1 DEF ServerTyped, Distinct
<1> QED BY <1>3, <1>4 DEF Typed

LEMMA ServeMoreTyped == ASSUME Typed, ServeMore PROVE Typed'
<1>1. /\ Serve("more") /\ UNCHANGED made
      /\ \E cur \in open :
           /\ cur.id = Asked.cursor
           /\ \E stays \in BOOLEAN :
                /\ open' = (open \ {cur}) \cup
                           (IF stays THEN {[id |-> cur.id, next |-> cur.next + Len(Batch(cur.next, Asked.n))]}
                                     ELSE {})
                /\ Answering(Batch(cur.next, Asked.n), IF stays THEN cur.id ELSE 0, FALSE)
  BY DEF ServeMore, Stays
<1>2. /\ ServerTyped /\ made \in Nat /\ UNCHANGED <<up, timedOut>>
      /\ Asked \in Requests(asked, made)
  BY <1>1, ServeStays
<1>3. PICK cur \in open, stays \in BOOLEAN :
           /\ cur.id = Asked.cursor
           /\ open' = (open \ {cur}) \cup
                           (IF stays THEN {[id |-> cur.id, next |-> cur.next + Len(Batch(cur.next, Asked.n))]}
                                     ELSE {})
           /\ Answering(Batch(cur.next, Asked.n), IF stays THEN cur.id ELSE 0, FALSE)
  BY <1>1
<1>4. cur \in [id : 1 .. made, next : 1 .. NDocs + 1]
  BY <1>2 DEF ServerTyped
<1> DEFINE docs == Batch(cur.next, Asked.n)
           next == cur.next + Len(docs)
<1>5. docs \in Docs /\ next \in 1 .. NDocs + 1
  <2>1. Asked.n \in Nat /\ cur.next \in 1 .. NDocs + 1
    BY <1>2, <1>4 DEF Requests
  <2>2. docs \in Docs /\ Len(docs) \in 0 .. NDocs - cur.next + 1
    BY <2>1, BatchIs
  <2> QED BY <2>1, <2>2, Constants
<1>6. /\ open' = (open \ {cur}) \cup (IF stays THEN {[id |-> cur.id, next |-> next]} ELSE {})
      /\ Answering(docs, IF stays THEN cur.id ELSE 0, FALSE)
  BY <1>3
<1> HIDE DEF docs, next
<1>7. ClientTyped' /\ CallerTyped' /\ Posted'
  <2>1. "more" \in {"query", "more"} /\ FALSE \in BOOLEAN /\ made' \in Nat /\ (made' = made \/ made' = made + 1)
    BY <1>1, <1>2
  <2>2. (IF stays THEN cur.id ELSE 0) \in Cursors(made')
    BY <1>1, <1>2, <1>4 DEF Cursors
  <2>3. PICK cid \in Cursors(made') : Answering(docs, cid, FALSE)
    BY <1>6, <2>2
  <2> QED BY <1>1, <1>5, <2>1, <2>3, AnsweringTyped
<1>8. ServerTyped'
  <2>1. /\ \A c \in open : c \in [id : 1 .. made, next : 1 .. NDocs + 1]
        /\ \A a, b \in open : a.id = b.id => a = b
    BY <1>2 DEF ServerTyped, Distinct
  <2> DEFINE x == [id |-> cur.id, next |-> next]
  <2>2. x \in [id : 1 .. made, next : 1 .. NDocs + 1] /\ x.id = cur.id
    BY <1>4, <1>5
  <2> HIDE DEF x
  <2>3. \A c \in open' : (c \in open /\ c # cur) \/ c = x
    BY <1>6 DEF x
  <2>4. Distinct'
    <3> SUFFICES ASSUME NEW a \in open', NEW b \in open', a.id = b.id PROVE a = b
      BY DEF Distinct
    <3> QED BY <2>1, <2>2, <2>3
  <2>5. open' \subseteq [id : 1 .. made', next : 1 .. NDocs + 1]
    BY <2>1, <2>2, <2>3, <1>1
  <2> QED BY <2>4, <2>5, <1>2 DEF ServerTyped
<1> QED BY <1>7, <1>8 DEF Typed

LEMMA OpenShrinks ==
  ASSUME ServerTyped, open' \subseteq open, made' = made, up' \in BOOLEAN, timedOut' \in BOOLEAN
  PROVE  ServerTyped'
BY DEF ServerTyped, Distinct

LEMMA ServeKillTyped == ASSUME Typed, ServeKill PROVE Typed'
<1>1. /\ Serve("kill") /\ UNCHANGED <<made, toClient>> /\ open' \subseteq open
  BY DEF ServeKill
<1>2. /\ CallerTyped' /\ ServerTyped
      /\ UNCHANGED <<asked, answered, up, timedOut>>
      /\ made \in Nat /\ (made' \in Nat /\ made <= made' => ClientTyped')
      /\ Mail(toServer', toClient, asked, made, answered)
  BY <1>1, ServeStays
<1>3. ClientTyped' /\ Posted'
  BY <1>1, <1>2 DEF Posted
<1>4. ServerTyped'
  BY <1>1, <1>2, OpenShrinks DEF ServerTyped
<1> QED BY <1>2, <1>3, <1>4 DEF Typed

LEMMA ClientStays ==
  ASSUME Typed, UNCHANGED client, UNCHANGED made
  PROVE  ClientTyped' /\ CallerTyped' /\ UNCHANGED <<asked, answered>>
BY DEF client, Typed, ClientTyped, CallerTyped

LEMMA TimeOutTyped == ASSUME Typed, TimeOut PROVE Typed'
<1>1. UNCHANGED client /\ UNCHANGED <<up, made, toServer, toClient>> /\ open' \subseteq open /\ timedOut' \in BOOLEAN
  BY DEF TimeOut
<1>2. ClientTyped' /\ CallerTyped' /\ UNCHANGED <<asked, answered>>
  BY <1>1, ClientStays
<1>3. ServerTyped' /\ Posted'
  BY <1>1, <1>2, OpenShrinks DEF Typed, Posted, ServerTyped
<1> QED BY <1>2, <1>3 DEF Typed

LEMMA BreakTyped == ASSUME Typed, Break PROVE Typed'
<1>1. /\ UNCHANGED client /\ UNCHANGED <<open, made, timedOut>>
      /\ up' = FALSE /\ toServer' = <<>> /\ toClient' = <<>>
  BY DEF Break
<1>2. ClientTyped' /\ CallerTyped' /\ UNCHANGED <<asked, answered>>
  BY <1>1, ClientStays
<1>3. ServerTyped'
  BY <1>1, OpenShrinks DEF Typed, ServerTyped
<1>4. Posted'
  BY <1>1, <1>2, BreakHeld DEF Typed, Posted
<1> QED BY <1>2, <1>3, <1>4 DEF Typed

LEMMA InitTyped == ASSUME Init PROVE Typed
<1>1. <<>> \in Docs /\ <<>> \in Seq(Requests(0, 0)) /\ <<>> \in Seq(Replies(0, 0))
  BY EmptySeq DEF Docs
<1>2. /\ asked = 0 /\ made = 0 /\ toServer = <<>> /\ toClient = <<>>
      /\ answered = [c \in Calls |-> 0]
  BY DEF Init
<1>3. Mail(<<>>, <<>>, 0, 0, [c \in Calls |-> 0])
  BY <1>1, Constants DEF Mail, Calls
<1>4. Posted
  BY <1>2, <1>3 DEF Posted
<1>5. CallerTyped /\ ServerTyped
  <2>1. limit \in Limits /\ batch \in Batches /\ closes = 0 /\ userClosed = FALSE /\ disturbed = FALSE
    BY DEF Init
  <2>2. up = TRUE /\ timedOut = FALSE /\ open = {}
    BY DEF Init
  <2>3. CallerTyped
    <3>1. closes \in 0 .. MaxCloses
      BY <2>1, Constants
    <3> QED BY <2>1, <3>1 DEF CallerTyped
  <2>4. ServerTyped
    BY <2>2 DEF ServerTyped, Distinct
  <2> QED BY <2>3, <2>4
<1>6. ClientTyped
  <2>1. 0 \in Cursors(0)
    BY DEF Cursors
  <2> QED BY <1>1, <2>1 DEF Init, ClientTyped
<1> QED BY <1>4, <1>5, <1>6 DEF Typed

LEMMA StutterTyped == ASSUME Typed, UNCHANGED vars PROVE Typed'
<1>1. UNCHANGED client /\ UNCHANGED <<up, open, made, timedOut, toServer, toClient>>
  BY DEF vars, client
<1>2. ClientTyped' /\ CallerTyped' /\ UNCHANGED <<asked, answered>>
  BY <1>1, ClientStays
<1>3. ServerTyped' /\ Posted'
  BY <1>1, <1>2, OpenShrinks DEF Typed, Posted, ServerTyped
<1> QED BY <1>2, <1>3 DEF Typed

LEMMA NextTyped == ASSUME Typed, Next PROVE Typed'
<1>1. CASE NextObject BY <1>1, NextObjectTyped
<1>2. CASE \E callback \in BOOLEAN : Close(callback) BY <1>2, CloseTyped
<1>3. CASE Rewind BY <1>3, RewindTyped
<1>4. CASE CloseReturns BY <1>4, CloseReturnsTyped
<1>5. CASE QueryError BY <1>5, QueryErrorTyped
<1>6. CASE QueryReply BY <1>6, QueryReplyTyped
<1>7. CASE MoreReply BY <1>7, MoreReplyTyped
<1>8. CASE NoMoreReply BY <1>8, NoMoreReplyTyped
<1>9. CASE ServeQuery BY <1>9, ServeQueryTyped
<1>10. CASE RefuseQuery
  BY <1>10, ServeNothingTyped DEF RefuseQuery
<1>11. CASE ServeMore BY <1>11, ServeMoreTyped
<1>12. CASE NoSuchCursor
  BY <1>12, ServeNothingTyped DEF NoSuchCursor
<1>13. CASE ServeKill BY <1>13, ServeKillTyped
<1>14. CASE TimeOut BY <1>14, TimeOutTyped
<1>15. CASE Break BY <1>15, BreakTyped
<1> QED
  BY <1>1, <1>2, <1>3, <1>4, <1>5, <1>6, <1>7, <1>8, <1>9, <1>10, <1>11, <1>12, <1>13, <1>14, <1>15
  DEF Next, Caller, Data, Server

-----------------------------------------------------------------------------
(* One call at a time                                                      *)

Quiet(ts, tc) == tc = <<>> /\ \A i \in DOMAIN ts : ts[i].op = "kill"

LEMMA EmptyOrFirst ==
  ASSUME NEW S, NEW s \in Seq(S)
  PROVE  /\ s = <<>> \/ 1 \in DOMAIN s
         /\ DOMAIN s = 1 .. Len(s) /\ Len(s) \in Nat
         /\ s = <<>> <=> Len(s) = 0
BY EmptySeq, LenProperties

\* With no call waiting, nothing but kills is on its way.
LEMMA QuietMail ==
  ASSUME NEW ts, NEW tc, NEW n, NEW k, NEW ans, Mail(ts, tc, n, k, ans), ~\E c : Waits(c, n, ans)
  PROVE  Quiet(ts, tc)
<1> DEFINE R == Replies(n, k)
<1>1. /\ tc \in Seq(R)
      /\ \A i \in DOMAIN ts : ts[i].op = "kill"
      /\ \A i \in DOMAIN tc : FALSE
  BY DEF Mail
<1> HIDE DEF R
<1>2. tc = <<>>
  BY <1>1, EmptyOrFirst
<1> QED BY <1>1, <1>2 DEF Quiet

\* With one call waiting, and nothing on its way for it, neither.
LEMMA QuietHeld ==
  ASSUME NEW ts, NEW tc, NEW n, NEW k, NEW ans, NEW c, Mail(ts, tc, n, k, ans), Held(c, ts, tc, n, ans),
         \A d : Waits(d, n, ans) => d = c
  PROVE  Quiet(ts, tc)
<1> DEFINE R == Replies(n, k)
<1>1. /\ tc \in Seq(R)
      /\ \A i \in DOMAIN ts : ts[i].op # "kill" => Waits(ts[i].call, n, ans)
      /\ \A i \in DOMAIN tc : Waits(tc[i].call, n, ans)
  BY DEF Mail
<1> HIDE DEF R
<1>2. /\ \A i \in DOMAIN ts : ts[i].op # "kill" => ts[i].call # c
      /\ \A i \in DOMAIN tc : tc[i].call # c
  BY DEF Held
<1>3. /\ \A i \in DOMAIN tc : FALSE
      /\ \A i \in DOMAIN ts : ts[i].op = "kill"
  BY <1>1, <1>2
<1>4. tc = <<>>
  BY <1>1, <1>3, EmptyOrFirst
<1> QED BY <1>3, <1>4 DEF Quiet

LEMMA NoneWaits == ~Outstanding <=> ~\E c : Waits(c, asked, answered)
BY DEF Outstanding, Unanswered, Waits

LEMMA OneWaits == OneAtATime <=> \A c, d : Waits(c, asked, answered) /\ Waits(d, asked, answered) => c = d
BY DEF OneAtATime, Waits

LEMMA QuietCaller == ASSUME Typed, ~Outstanding PROVE Quiet(toServer, toClient)
BY QuietMail, NoneWaits DEF Typed, Posted

LEMMA QuietReceive ==
  ASSUME Typed, OneAtATime, NEW op, Receive(op)
  PROVE  /\ Quiet(toServer, toClient')
         /\ Reply = toClient[1] /\ 1 \in DOMAIN toClient /\ Reply.op = op
         /\ \A j \in DOMAIN toClient : j = 1
<1>1. /\ Mail(toServer, toClient, asked, made, answered)
      /\ toClient # <<>> /\ toClient' = Tail(toClient) /\ Reply.op = op
  BY DEF Typed, Posted, Receive
<1>2. /\ Mail(toServer, toClient', asked, made, answered)
      /\ Held(Reply.call, toServer, toClient', asked, answered)
      /\ Reply = toClient[1] /\ 1 \in DOMAIN toClient
  BY <1>1, ReceiveHeld DEF Reply
<1>3. \A d : Waits(d, asked, answered) => d = Reply.call
  BY <1>2, OneWaits DEF Held
<1>4. Quiet(toServer, toClient')
  BY <1>2, <1>3, QuietHeld
<1>5. \A j \in DOMAIN toClient : j = 1
  <2> SUFFICES ASSUME NEW j \in DOMAIN toClient PROVE j = 1
    OBVIOUS
  <2>1. Waits(toClient[j].call, asked, answered)
    BY <1>1 DEF Mail
  <2>2. toClient[j].call = toClient[1].call
    BY <2>1, <1>2, <1>3
  <2> QED BY <2>2, <1>1, <1>2 DEF Mail
<1> QED BY <1>1, <1>2, <1>4, <1>5

LEMMA QuietServe ==
  ASSUME Typed, OneAtATime, NEW op, op # "kill", Serve(op)
  PROVE  Quiet(toServer', toClient)
<1>1. /\ Mail(toServer', toClient, asked, made, answered)
      /\ Held(Asked.call, toServer', toClient, asked, answered)
  BY ServeStays
<1>2. \A d : Waits(d, asked, answered) => d = Asked.call
  BY <1>1, OneWaits DEF Held
<1> QED BY <1>1, <1>2, QuietHeld

\* A call of nextObject is the only one that waits.
LEMMA OneCalled ==
  ASSUME Typed, ~Outstanding, asked' = asked + 1,
         answered' = answered \/ \E t \in 1 .. 2 : answered' = [answered EXCEPT ![asked + 1] = @ + t]
  PROVE  OneAtATime'
<1>1. ~\E c : Waits(c, asked, answered)
  BY NoneWaits
<1>2. answered \in [Calls -> 0 .. 2] /\ asked \in 0 .. MaxCalls /\ MaxCalls \in Nat
  BY Constants DEF Typed, Posted, Mail
<1>3. \A c \in 1 .. asked' : answered'[c] = 0 => c = asked + 1
  <2> SUFFICES ASSUME NEW c \in 1 .. asked', answered'[c] = 0, c # asked + 1 PROVE FALSE
    OBVIOUS
  <2>1. c \in 1 .. asked
    BY <1>2
  <2>2. c \in Calls /\ answered[c] \in 0 .. 2
    BY <2>1, <1>2 DEF Calls, Typed, Posted, Mail
  <2>3. CASE \E t \in 1 .. 2 : answered' = [answered EXCEPT ![asked + 1] = @ + t]
    <3>1. PICK t \in 1 .. 2 : answered' = [answered EXCEPT ![asked + 1] = @ + t]
      BY <2>3
    <3> QED BY <3>1, <2>1, <2>2, <1>1, <1>2 DEF Waits
  <2> QED BY <2>1, <2>3, <1>1 DEF Waits
<1> QED BY <1>3 DEF OneAtATime

LEMMA OneAnswered ==
  ASSUME Typed, OneAtATime, asked' = asked, NEW c,
         answered' = answered \/ \E t \in 1 .. 2 : answered' = [answered EXCEPT ![c] = @ + t]
  PROVE  OneAtATime'
<1>1. answered \in [Calls -> 0 .. 2] /\ asked \in 0 .. MaxCalls
  BY DEF Typed, Posted, Mail
<1>2. \A d \in 1 .. asked : answered'[d] = 0 => answered[d] = 0
  <2> SUFFICES ASSUME NEW d \in 1 .. asked, answered'[d] = 0 PROVE answered[d] = 0
    OBVIOUS
  <2>1. d \in Calls /\ answered[d] \in 0 .. 2
    BY <1>1, Constants DEF Calls
  <2>2. CASE answered' = answered
    BY <2>2
  <2>3. CASE \E t \in 1 .. 2 : answered' = [answered EXCEPT ![c] = @ + t]
    BY <2>1, <2>3, <1>1
  <2> QED BY <2>2, <2>3
<1> QED BY <1>2 DEF OneAtATime

-----------------------------------------------------------------------------
(* Going on to the next document                                           *)

Killed(ts, cid) == \E i \in DOMAIN ts : ts[i].op = "kill" /\ ts[i].cursor = cid

\* The messages of ts are kills, and none is of cid.
Kills(ts, cid) == \A i \in DOMAIN ts : ts[i].op = "kill" /\ ts[i].cursor > 0 /\ ts[i].cursor # cid

LEMMA KillAdds ==
  ASSUME NEW n \in Nat, NEW k \in Nat, NEW ts \in Seq(Requests(n, k)), NEW cid \in Cursors(k)
  PROVE  /\ \A i \in DOMAIN ts : i \in DOMAIN (ts \o Kill(cid)) /\ (ts \o Kill(cid))[i] = ts[i]
         /\ \A i \in DOMAIN (ts \o Kill(cid)) :
              \/ i \in DOMAIN ts /\ (ts \o Kill(cid))[i] = ts[i]
              \/ /\ (ts \o Kill(cid))[i].op = "kill" /\ (ts \o Kill(cid))[i].cursor = cid
                 /\ cid > 0 /\ up
         /\ cid > 0 /\ up => Killed(ts \o Kill(cid), cid)
         /\ cid = 0 => ts \o Kill(cid) = ts
<1> DEFINE x == [op |-> "kill", call |-> 0, n |-> 0, cursor |-> cid]
           R == Requests(n, k)
           new == ts \o Kill(cid)
<1>1. x.op = "kill" /\ x.cursor = cid /\ x \in R /\ cid \in Nat
  BY DEF Requests, Cursors
<1>2. ts \in Seq(R)
  OBVIOUS
<1> HIDE DEF R
<1>3. \/ new = ts /\ Kill(cid) = <<>>
      \/ cid > 0 /\ up /\ new = Append(ts, x)
  BY <1>1, <1>2, KillIs
<1>4. cid > 0 /\ up => Kill(cid) # <<>>
  BY DEF Kill
<1> HIDE DEF x
<1>5. /\ DOMAIN Append(ts, x) = 1 .. Len(ts) + 1 /\ DOMAIN ts = 1 .. Len(ts) /\ Len(ts) \in Nat
      /\ \A i \in DOMAIN ts : Append(ts, x)[i] = ts[i]
      /\ \A i \in DOMAIN Append(ts, x) : i \in DOMAIN ts \/ (Append(ts, x)[i] = x /\ i = Len(ts) + 1)
      /\ Append(ts, x)[Len(ts) + 1] = x
  BY <1>1, <1>2, AppendIs, AppendProperties
<1> HIDE DEF new
<1>6. CASE cid > 0 /\ up
  <2>1. new = Append(ts, x)
    BY <1>3, <1>4, <1>6
  <2>2. Killed(new, cid)
    BY <1>1, <1>5, <2>1 DEF Killed
  <2>3. \A i \in DOMAIN ts : i \in DOMAIN new /\ new[i] = ts[i]
    BY <1>5, <2>1
  <2>4. \A i \in DOMAIN new : (i \in DOMAIN ts /\ new[i] = ts[i]) \/ new[i] = x
    BY <1>5, <2>1
  <2>5. \A i \in DOMAIN new : (i \in DOMAIN ts /\ new[i] = ts[i]) \/ (new[i].op = "kill" /\ new[i].cursor = cid)
    BY <1>1, <2>4
  <2>6. cid # 0
    BY <1>1, <1>6
  <2> QED BY <1>6, <2>2, <2>3, <2>5, <2>6 DEF new
<1>7. CASE ~(cid > 0 /\ up)
  <2>1. new = ts
    BY <1>3, <1>7
  <2> QED BY <1>7, <2>1 DEF new
<1> QED BY <1>6, <1>7

\* What a caller who waits for each answer may rely on when nothing is on its
\* way: the cursor is in state st, with items its, at cid on the server, which
\* has returned tot documents.
Ready(st, its, cid, tot) ==
  /\ \A i \in DOMAIN given : given[i] = i
  /\ \A i \in DOMAIN its : its[i] = Len(given) + i
  /\ Len(given) + Len(its) <= Wanted
  /\ ~nulled /\ ~closing
  /\ st = "OPEN" =>
       /\ ~ended /\ tot <= NDocs
       /\ Len(given) + Len(its) = Cut(tot)
       /\ cid = 0 /\ ~timedOut => Done(tot)
  /\ st = "CLOSED" => cid = 0 /\ userClosed
  /\ cid > 0 /\ up =>
       /\ \A cur \in open : cur.id = cid => cur.next = tot + 1
       /\ ~timedOut => \E cur \in open : cur.id = cid
  /\ up => \A cur \in open : cur.id = cid \/ Killed(toServer, cur.id)
  /\ Kills(toServer, cid)
  /\ ended /\ ~userClosed /\ ~timedOut => Len(given) = Wanted

LEMMA Numbers ==
  ASSUME CallerTyped, NEW tot \in Nat
  PROVE  /\ limit \in Nat /\ Wanted \in Nat /\ NDocs \in Nat
         /\ tot <= NDocs /\ Done(tot) => Cut(tot) = Wanted
         /\ LimitReached(tot) <=> limit > 0 /\ tot >= limit
         /\ LimitReached(tot) => Done(tot)
         /\ ~LimitReached(tot) => Cut(tot) = tot
BY Constants DEF CallerTyped, Wanted, Done, Cut, LimitReached, Least

LEMMA NoLeakIs ==
  /\ NoLeak <=>
       (up /\ ~disturbed =>
          \A cur \in open : \/ cur.id = cursorId \/ Killed(toServer, cur.id)
                            \/ \E k \in DOMAIN toClient : toClient[k].cursor = cur.id)
  /\ NoLeak' <=>
       (up' /\ ~disturbed' =>
          \A cur \in open' : \/ cur.id = cursorId' \/ Killed(toServer', cur.id)
                             \/ \E k \in DOMAIN toClient' : toClient'[k].cursor = cur.id)
BY DEF NoLeak, Killed

\* Nothing but kills is on its way after a step.
LEMMA LinksQuiet ==
  ASSUME toClient' = <<>>, Kills(toServer', cursorId'),
         up' => \A cur \in open' : cur.id = cursorId' \/ Killed(toServer', cur.id)
  PROVE  /\ NoLeak'
         /\ \A i \in DOMAIN toServer' : Request(toServer[i])'
         /\ \A i \in DOMAIN toClient' : Answers(toClient[i])'
         /\ \A i \in DOMAIN toServer', j \in DOMAIN toClient' :
              toServer'[i].op = "kill" => toServer'[i].cursor # toClient'[j].cursor
<1>1. NoLeak'
  BY NoLeakIs
<1>2. \A i \in DOMAIN toServer' : Request(toServer[i])'
  BY DEF Kills, Request
<1>3. \A i : i \notin DOMAIN toClient'
  OBVIOUS
<1> QED BY <1>1, <1>2, <1>3

LEMMA ItemInOrder ==
  ASSUME NEW s \in Docs, NEW its \in Docs, its # <<>>,
         \A i \in DOMAIN s : s[i] = i,
         \A i \in DOMAIN its : its[i] = Len(s) + i
  PROVE  /\ \A i \in DOMAIN Append(s, Head(its)) : Append(s, Head(its))[i] = i
         /\ \A i \in DOMAIN Tail(its) : Tail(its)[i] = Len(Append(s, Head(its))) + i
         /\ Len(Append(s, Head(its))) + Len(Tail(its)) = Len(s) + Len(its)
<1> DEFINE S == 1 .. NDocs
           g == Append(s, Head(its))
           r == Tail(its)
<1>1. s \in Seq(S) /\ its \in Seq(S)
  BY DEF Docs
<1> HIDE DEF S
<1>2. /\ Head(its) \in S /\ r \in Seq(S) /\ Head(its) = its[1]
      /\ Len(its) \in Nat \ {0} /\ 1 \in DOMAIN its
      /\ \A i \in DOMAIN r : i + 1 \in DOMAIN its /\ r[i] = its[i + 1]
      /\ Len(r) = Len(its) - 1 /\ DOMAIN r = 1 .. Len(its) - 1
  BY <1>1, TailIs, HeadTailProperties
<1>3. /\ \A i \in DOMAIN s : g[i] = s[i]
      /\ \A i \in DOMAIN g : i \in DOMAIN s \/ (g[i] = Head(its) /\ i = Len(s) + 1)
      /\ Len(g) = Len(s) + 1 /\ Len(s) \in Nat
  BY <1>1, <1>2, AppendIs, AppendProperties
<1> HIDE DEF g, r
<1>4. \A i \in DOMAIN g : g[i] = i
  BY <1>2, <1>3
<1>5. \A i \in DOMAIN r : r[i] = Len(g) + i
  BY <1>2, <1>3
<1>6. Len(g) + Len(r) = Len(s) + Len(its)
  BY <1>2, <1>3
<1> QED BY <1>4, <1>5, <1>6 DEF g, r

\* The constants of the query, and what the server has not done.
Steady == UNCHANGED <<limit, batch, userClosed, up, open, timedOut>>

LEMMA SteadyIs ==
  ASSUME Steady
  PROVE  /\ Wanted' = Wanted
         /\ \A t : /\ Cut(t)' = Cut(t) /\ Done(t)' = Done(t) /\ LimitReached(t)' = LimitReached(t)
         /\ LimitRequest' = LimitRequest
BY DEF Steady, Wanted, Cut, Done, LimitReached, LimitRequest

\* A document is given.
LEMMA GiveInOrder ==
  ASSUME Typed, NEW c, NEW st \in {"OPEN", "CLOSED"}, NEW its \in Docs, NEW cid \in Cursors(made), NEW tot \in Nat,
         Ready(st, its, cid, tot), Steady, toClient' = <<>>,
         total' = tot, its # <<>>, state' = st, cursorId' = cid, GiveItem(c, its)
  PROVE  WellOrdered'
<1>1. /\ items' = Tail(its) /\ given' = Append(given, Head(its))
      /\ nulled' = nulled /\ closing' = closing /\ ended' = ended /\ toServer' = toServer
  BY DEF GiveItem
<1>2. given \in Docs
  BY DEF Typed, ClientTyped
<1>3. /\ \A i \in DOMAIN given' : given'[i] = i
      /\ \A i \in DOMAIN items' : items'[i] = Len(given') + i
      /\ Len(given') + Len(items') = Len(given) + Len(its)
  BY <1>1, <1>2, ItemInOrder DEF Ready
<1>4. /\ Wanted' = Wanted /\ \A t : Cut(t)' = Cut(t) /\ Done(t)' = Done(t)
      /\ userClosed' = userClosed /\ up' = up /\ open' = open /\ timedOut' = timedOut
  BY SteadyIs DEF Steady
<1>5. Row'
  BY <1>3, <1>4 DEF Row, Ready
<1>6. StateOf'
  <2>1. Cut(total)' = Cut(tot) /\ Done(total)' = Done(tot) /\ NDocs' = NDocs
    BY <1>4
  <2>2. state' = "OPEN" => /\ ~nulled' /\ ~closing' /\ ~ended'
                           /\ Len(given') + Len(items') = Cut(tot) /\ tot <= NDocs
                           /\ cursorId' = 0 /\ ~timedOut' => Done(tot)
    BY <1>1, <1>3, <1>4 DEF Ready
  <2>3. state' = "CLOSED" => cursorId' = 0 /\ userClosed'
    BY <1>4 DEF Ready
  <2> QED BY <2>1, <2>2, <2>3 DEF StateOf
<1>7. Behind'
  BY <1>4 DEF Behind, Ready
<1>8. EndMeansAll'
  <2>1. ended /\ ~userClosed /\ ~timedOut => FALSE
    BY <1>3 DEF Ready
  <2> QED BY <2>1, <1>1, <1>4 DEF EndMeansAll
<1>9. Kills(toServer', cursorId') /\ (up' => \A cur \in open' : cur.id = cursorId' \/ Killed(toServer', cur.id))
  BY <1>1, <1>4 DEF Ready
<1> QED BY <1>5, <1>6, <1>7, <1>8, <1>9, LinksQuiet DEF WellOrdered

\* close() kills the cursor that the client had.
LEMMA KillQuiet ==
  ASSUME Posted, NEW cid \in Cursors(made), Kills(toServer, cid), UNCHANGED <<up, open>>,
         up => \A cur \in open : cur.id = cid \/ Killed(toServer, cur.id),
         ServerTyped,
         toClient' = <<>>, cursorId' = 0, toServer' = toServer \o Kill(cid)
  PROVE  /\ Kills(toServer', cursorId')
         /\ up' => \A cur \in open' : cur.id = cursorId' \/ Killed(toServer', cur.id)
<1> DEFINE new == toServer \o Kill(cid)
<1>1. asked \in Nat /\ made \in Nat /\ toServer \in Seq(Requests(asked, made))
  BY Constants DEF Posted, Mail
<1>2. /\ \A i \in DOMAIN toServer : i \in DOMAIN new /\ new[i] = toServer[i]
      /\ \A i \in DOMAIN new :
           \/ i \in DOMAIN toServer /\ new[i] = toServer[i]
           \/ new[i].op = "kill" /\ new[i].cursor = cid /\ cid > 0 /\ up
      /\ cid > 0 /\ up => Killed(new, cid)
      /\ cid = 0 => new = toServer
  BY <1>1, KillAdds
<1> HIDE DEF new
<1>3. \A cur \in open : cur.id > 0
  BY <1>1 DEF ServerTyped
<1>4. cid \in Nat
  BY <1>1 DEF Cursors
<1>5. Kills(new, 0)
  BY <1>2, <1>4 DEF Kills
<1>6. up => \A cur \in open : Killed(new, cur.id)
  <2> SUFFICES ASSUME up, NEW cur \in open PROVE Killed(new, cur.id)
    OBVIOUS
  <2>1. CASE cur.id = cid
    BY <2>1, <1>2, <1>3
  <2>2. CASE Killed(toServer, cur.id)
    BY <2>2, <1>2 DEF Killed
  <2> QED BY <2>1, <2>2
<1>7. toServer' = new /\ up' = up /\ open' = open
  BY DEF new
<1> QED BY <1>5, <1>6, <1>7

\* The caller is told that there are no more.
LEMMA EndInOrder ==
  ASSUME Typed, NEW c, NEW st \in {"OPEN", "CLOSED"}, NEW cid \in Cursors(made), NEW tot \in Nat,
         Ready(st, <<>>, cid, tot), Steady, toClient' = <<>>,
         total' = tot, items' = <<>>, End(c, cid), cid > 0 => Done(tot)
  PROVE  WellOrdered'
<1>1. /\ state' = "CLOSED" /\ cursorId' = 0 /\ toServer' = toServer \o Kill(cid)
      /\ closing' /\ ended' /\ nulled' = nulled /\ given' = given
  BY DEF End
<1>2. /\ given \in Docs /\ Len(given) \in Nat /\ CallerTyped /\ ServerTyped /\ Posted /\ cid \in Nat
      /\ made \in Nat
  BY LenProperties DEF Typed, ClientTyped, Docs, Cursors, Posted, Mail
<1>3. /\ Wanted' = Wanted
      /\ userClosed' = userClosed /\ up' = up /\ open' = open /\ timedOut' = timedOut
  BY SteadyIs DEF Steady
<1>4. Len(<<>>) = 0 /\ \A i : i \notin DOMAIN items'
  BY EmptySeq
<1>5. Row'
  BY <1>1, <1>2, <1>3, <1>4 DEF Row, Ready
<1>6. StateOf'
  BY <1>1 DEF StateOf
<1>7. Behind'
  BY <1>1 DEF Behind
<1>8. EndMeansAll'
  <2>1. st = "OPEN" /\ ~timedOut => Done(tot) /\ tot <= NDocs /\ Len(given) = Cut(tot)
    BY <1>2, <1>4, Numbers DEF Ready
  <2>2. st = "OPEN" /\ ~timedOut => Len(given) = Wanted
    BY <2>1, <1>2, Numbers
  <2>3. st = "CLOSED" => userClosed
    BY DEF Ready
  <2> QED BY <2>2, <2>3, <1>1, <1>3 DEF EndMeansAll
<1>9. Kills(toServer', cursorId') /\ (up' => \A cur \in open' : cur.id = cursorId' \/ Killed(toServer', cur.id))
  BY <1>1, <1>2, <1>3, KillQuiet DEF Ready
<1> QED BY <1>5, <1>6, <1>7, <1>8, <1>9, LinksQuiet DEF WellOrdered

\* More is asked for.
LEMMA MoreInOrder ==
  ASSUME Typed, NEW c, NEW st \in {"OPEN", "CLOSED"}, NEW cid \in Cursors(made), NEW tot \in Nat,
         Ready(st, <<>>, cid, tot), Steady, toClient' = <<>>,
         total' = tot, cid > 0, GetMore(c, st, cid, tot), ~LimitReached(tot)
  PROVE  WellOrdered'
<1>1. /\ state' = st /\ cursorId' = cid /\ items' = <<>>
      /\ UNCHANGED <<nulled, closing, given, ended>>
      /\ \/ toServer' = Append(toServer, More(c, cid))
         \/ UNCHANGED toServer
  BY DEF GetMore
<1>2. /\ given \in Docs /\ Len(given) \in Nat /\ CallerTyped /\ ServerTyped /\ cid \in Nat
      /\ made \in Nat /\ asked \in Nat /\ toServer \in Seq(Requests(asked, made))
  BY LenProperties, Constants DEF Typed, ClientTyped, Docs, Cursors, Posted, Mail
<1>3. /\ Wanted' = Wanted /\ \A t : Cut(t)' = Cut(t) /\ Done(t)' = Done(t)
      /\ userClosed' = userClosed /\ up' = up /\ open' = open /\ timedOut' = timedOut
      /\ LimitReached(tot)' = LimitReached(tot) /\ LimitRequest' = LimitRequest
  BY SteadyIs DEF Steady
<1>4. Len(<<>>) = 0 /\ \A i : i \notin DOMAIN items'
  BY <1>1, EmptySeq
<1>5. st = "OPEN"
  BY DEF Ready
<1>6. Row'
  BY <1>1, <1>2, <1>3, <1>4 DEF Row, Ready
<1>7. StateOf'
  <2>1. Cut(total)' = Cut(tot) /\ Done(total)' = Done(tot)
    BY <1>3
  <2>2. /\ ~nulled' /\ ~closing' /\ ~ended'
        /\ Len(given') + Len(items') = Cut(tot) /\ tot <= NDocs
        /\ cursorId' = 0 /\ ~timedOut' => Done(tot)
    BY <1>1, <1>2, <1>3, <1>4, <1>5 DEF Ready
  <2> QED BY <2>1, <2>2, <1>1, <1>5 DEF StateOf
<1>8. Behind'
  BY <1>1, <1>3 DEF Behind, Ready
<1>9. EndMeansAll'
  BY <1>1, <1>3, <1>5 DEF EndMeansAll, Ready
<1>10. \A i \in DOMAIN toServer' : (i \in DOMAIN toServer /\ toServer'[i] = toServer[i]) \/ toServer'[i] = More(c, cid)
  <2>1. CASE toServer' = toServer
    BY <2>1
  <2>2. CASE toServer' = Append(toServer, More(c, cid))
    BY <2>2, <1>2, AppendAny
  <2> QED BY <1>1, <2>1, <2>2
<1>11. \A i \in DOMAIN toServer : i \in DOMAIN toServer' /\ toServer'[i] = toServer[i]
  <2>1. CASE toServer' = toServer
    BY <2>1
  <2>2. CASE toServer' = Append(toServer, More(c, cid))
    BY <2>2, <1>2, AppendAny
  <2> QED BY <1>1, <2>1, <2>2
<1>12. /\ More(c, cid).op = "more" /\ More(c, cid).n = LimitRequest /\ More(c, cid).cursor = cid
  BY DEF More
<1>13. Fetching'
  BY <1>1, <1>3, <1>5 DEF Fetching
<1>14. \A i \in DOMAIN toServer' : Request(toServer[i])'
  <2> SUFFICES ASSUME NEW i \in DOMAIN toServer' PROVE Request(toServer[i])'
    OBVIOUS
  <2>1. CASE toServer'[i] = More(c, cid)
    BY <2>1, <1>1, <1>3, <1>12, <1>13 DEF Request
  <2>2. CASE i \in DOMAIN toServer /\ toServer'[i] = toServer[i]
    BY <2>2, <1>1 DEF Request, Ready, Kills
  <2> QED BY <2>1, <2>2, <1>10
<1>15. \A i : i \notin DOMAIN toClient'
  OBVIOUS
<1>16. NoLeak'
  BY <1>1, <1>3, <1>11, NoLeakIs DEF Ready, Killed
<1> QED BY <1>6, <1>7, <1>8, <1>9, <1>14, <1>15, <1>16 DEF WellOrdered

\* The steps of Advance leave the cursor and its caller in order.
LEMMA AdvanceInOrder ==
  ASSUME Typed, NEW c, NEW st \in {"OPEN", "CLOSED"}, NEW its \in Docs, NEW cid \in Cursors(made), NEW tot \in Nat,
         Ready(st, its, cid, tot), Steady, toClient' = <<>>,
         Advance(c, st, its, cid, tot)
  PROVE  WellOrdered'
<1>1. total' = tot
  BY DEF Advance
<1>2. CASE its # <<>> /\ state' = st /\ cursorId' = cid /\ GiveItem(c, its)
  BY <1>1, <1>2, GiveInOrder
<1>3. CASE its = <<>> /\ cid > 0 /\ GetMore(c, st, cid, tot)
  <2>1. Ready(st, <<>>, cid, tot)
    BY <1>3
  <2>2. CASE LimitReached(tot)
    <3>1. End(c, cid) /\ items' = <<>>
      BY <1>3, <2>2, Zenon DEF GetMore
    <3>2. Done(tot)
      BY <2>2, Constants DEF LimitReached, Done, Typed, CallerTyped
    <3> QED BY <1>1, <2>1, <3>1, <3>2, EndInOrder
  <2>3. CASE ~LimitReached(tot)
    BY <1>1, <1>3, <2>1, <2>3, MoreInOrder
  <2> QED BY <2>2, <2>3
<1>4. CASE its = <<>> /\ cid = 0 /\ End(c, cid) /\ items' = <<>>
  <2>1. Ready(st, <<>>, cid, tot)
    BY <1>4
  <2>2. cid > 0 => Done(tot)
    BY <1>4
  <2> QED BY <1>1, <1>4, <2>1, <2>2, EndInOrder
<1> QED BY <1>2, <1>3, <1>4, Zenon DEF Advance

-----------------------------------------------------------------------------
(* Every step leaves a caller who makes one call at a time in order         *)

LEMMA ReadyCaller ==
  ASSUME Typed, WellOrdered, Quiet(toServer, toClient), ~disturbed, state # "INIT", ~nulled, ~closing
  PROVE  Ready(state, items, cursorId, total)
<1>1. /\ Row /\ StateOf /\ Behind /\ NoLeak /\ EndMeansAll
      /\ \A i \in DOMAIN toServer : Request(toServer[i])
  BY DEF WellOrdered
<1>2. toClient = <<>> /\ \A i \in DOMAIN toServer : toServer[i].op = "kill"
  BY DEF Quiet
<1>3. Kills(toServer, cursorId)
  BY <1>1, <1>2 DEF Kills, Request
<1>4. \A i : i \notin DOMAIN toClient
  BY <1>2
<1>5. up => \A cur \in open : cur.id = cursorId \/ Killed(toServer, cur.id)
  BY <1>1, <1>4, NoLeakIs
<1>6. /\ \A i \in DOMAIN given : given[i] = i
      /\ \A i \in DOMAIN items : items[i] = Len(given) + i
      /\ Len(given) + Len(items) <= Wanted
  BY <1>1 DEF Row
<1>7. state \in {"OPEN", "CLOSED"} /\ cursorId \in Nat
  BY DEF Typed, ClientTyped, Cursors, Posted, Mail
<1>8. state = "OPEN" =>
       /\ ~ended /\ total <= NDocs
       /\ Len(given) + Len(items) = Cut(total)
       /\ cursorId = 0 /\ ~timedOut => Done(total)
  BY <1>1 DEF StateOf
<1>9. state = "CLOSED" => cursorId = 0 /\ userClosed
  BY <1>1 DEF StateOf
<1>10. cursorId > 0 /\ up =>
       /\ \A cur \in open : cur.id = cursorId => cur.next = total + 1
       /\ ~timedOut => \E cur \in open : cur.id = cursorId
  BY <1>1, <1>2, <1>7, <1>9 DEF Behind
<1>11. ended /\ ~userClosed /\ ~timedOut => Len(given) = Wanted
  BY <1>1 DEF EndMeansAll
<1> QED BY <1>3, <1>5, <1>6, <1>8, <1>9, <1>10, <1>11 DEF Ready

\* Steps that change nothing of this, or only whether the connection is up.
LEMMA OrderStays ==
  ASSUME WellOrdered,
         UNCHANGED <<limit, batch, state, items, nulled, cursorId, total, closing, given, ended, userClosed, disturbed>>,
         UNCHANGED <<up, open, timedOut, toServer, toClient>>
  PROVE  WellOrdered'
<1>1. Row' /\ StateOf' /\ Behind'
  BY DEF WellOrdered, Row, StateOf, Behind, Wanted, Cut, Done
<1>2. NoLeak' /\ EndMeansAll'
  BY DEF WellOrdered, NoLeak, EndMeansAll, Wanted
<1>3. \A i \in DOMAIN toServer' : Request(toServer[i])'
  BY DEF WellOrdered, Request, Fetching, LimitReached, LimitRequest
<1>4. \A i \in DOMAIN toClient' : Answers(toClient[i])'
  BY DEF WellOrdered, Answers, Fetching, LimitReached, Done
<1>5. \A i \in DOMAIN toServer', j \in DOMAIN toClient' :
              toServer'[i].op = "kill" => toServer'[i].cursor # toClient'[j].cursor
  BY DEF WellOrdered
<1> QED BY <1>1, <1>2, <1>3, <1>4, <1>5 DEF WellOrdered

\* The callback of a call is run, or not.
Answered(c) == answered' = answered \/ \E t \in 1 .. 2 : answered' = [answered EXCEPT ![c] = @ + t]

LEMMA AnswersAre ==
  ASSUME NEW c
  PROVE  /\ Answer(c, 1) => Answered(c)
         /\ Answer(c, 2) => Answered(c)
         /\ UNCHANGED answered => Answered(c)
<1>1. 1 \in 1 .. 2 /\ 2 \in 1 .. 2
  OBVIOUS
<1> QED BY <1>1, Zenon DEF Answer, Answered

LEMMA AdvanceAnswers ==
  ASSUME NEW c, NEW st, NEW its, NEW cid, NEW tot, Advance(c, st, its, cid, tot)
  PROVE  Answered(c)
<1>1. End(c, cid) => Answer(c, 1)
  BY DEF End
<1>2. GetMore(c, st, cid, tot) => UNCHANGED answered \/ End(c, cid) \/ Answer(c, 2)
  <2>1. CASE LimitReached(tot)
    BY <2>1, Zenon DEF GetMore
  <2>2. CASE ~LimitReached(tot)
    BY <2>2, Zenon DEF GetMore
  <2> QED BY <2>1, <2>2
<1>3. GiveItem(c, its) => Answer(c, 1)
  BY DEF GiveItem
<1> QED BY <1>1, <1>2, <1>3, AnswersAre, Zenon DEF Advance

LEMMA NextObjectCalm == ASSUME Typed, Calm, NextObject PROVE Calm'
<1> SUFFICES ASSUME ~disturbed' PROVE OneAtATime' /\ WellOrdered'
  BY DEF Calm
<1> DEFINE c == asked + 1
<1>1. /\ asked < MaxCalls /\ asked' = c
      /\ closing => state = "INIT"
      /\ disturbed' = (disturbed \/ Outstanding)
      /\ UNCHANGED <<limit, batch, userClosed, toClient>> /\ UNCHANGED <<up, open, timedOut>>
      /\ \/ /\ state = "INIT"
            /\ IF up THEN toServer' = Append(toServer, Query(c)) /\ UNCHANGED answered
                     ELSE Answer(c, 1) /\ UNCHANGED toServer
            /\ UNCHANGED <<state, items, nulled, cursorId, total, closing, given, ended>>
         \/ /\ nulled /\ Fail(c)
            /\ UNCHANGED <<state, cursorId, total>>
         \/ /\ state # "INIT" /\ ~nulled
            /\ Advance(c, state, items, cursorId, total)
  BY DEF NextObject, config, server
<1>2. ~disturbed /\ ~Outstanding
  BY <1>1
<1>3. WellOrdered /\ Quiet(toServer, toClient)
  BY <1>2, QuietCaller DEF Calm
<1>4. toClient' = <<>> /\ Steady
  BY <1>1, <1>3 DEF Quiet, Steady
<1>5. UNCHANGED disturbed
  <2>1. disturbed \in BOOLEAN /\ disturbed' = disturbed
    BY <1>1, <1>2 DEF Typed, CallerTyped
  <2> QED BY <2>1
<1> HIDE DEF c
<1>6. Answered(c)
  <2>1. ASSUME Fail(c) PROVE Answer(c, 1)
    BY <2>1 DEF Fail
  <2> QED BY <1>1, <2>1, AnswersAre, AdvanceAnswers, Zenon
<1>7. OneAtATime'
  BY <1>1, <1>2, <1>6, OneCalled DEF c, Answered
<1>8. CASE /\ state = "INIT" /\ up /\ toServer' = Append(toServer, Query(c))
           /\ UNCHANGED <<state, items, nulled, cursorId, total, closing, given, ended>>
  <2>1. /\ Wanted' = Wanted /\ \A t : Cut(t)' = Cut(t) /\ Done(t)' = Done(t)
        /\ LimitRequest' = LimitRequest
    BY <1>4, SteadyIs
  <2>2. Row'
    BY <1>3, <1>8, <2>1 DEF WellOrdered, Row
  <2>3. StateOf' /\ Behind'
    BY <1>3, <1>8 DEF WellOrdered, StateOf, Behind
  <2>4. EndMeansAll'
    BY <1>1, <1>3, <1>5, <1>8, <2>1 DEF WellOrdered, EndMeansAll
  <2>5. Query(c).op = "query" /\ Query(c).n = LimitRequest
    BY DEF Query
  <2>6. /\ \A i \in DOMAIN toServer : i \in DOMAIN toServer' /\ toServer'[i] = toServer[i]
        /\ \A i \in DOMAIN toServer' : (i \in DOMAIN toServer /\ toServer'[i] = toServer[i]) \/ toServer'[i] = Query(c)
    BY <1>8, AppendAny DEF Typed, Posted, Mail
  <2>7. \A i \in DOMAIN toServer' : Request(toServer[i])'
    <3> SUFFICES ASSUME NEW i \in DOMAIN toServer' PROVE Request(toServer[i])'
      OBVIOUS
    <3>1. CASE toServer'[i] = Query(c)
      BY <3>1, <2>1, <2>5, <1>8 DEF Request
    <3>2. CASE i \in DOMAIN toServer /\ toServer'[i] = toServer[i]
      BY <3>2, <1>3, <1>8 DEF Request, WellOrdered, Quiet
    <3> QED BY <3>1, <3>2, <2>6
  <2>8. NoLeak'
    BY <1>1, <1>2, <1>3, <1>8, <2>6, NoLeakIs DEF WellOrdered, Killed, Quiet
  <2>9. \A i : i \notin DOMAIN toClient'
    BY <1>4
  <2> QED BY <1>7, <2>2, <2>3, <2>4, <2>7, <2>8, <2>9 DEF WellOrdered
<1>9. CASE /\ UNCHANGED toServer
           /\ UNCHANGED <<state, items, nulled, cursorId, total, closing, given, ended>>
  BY <1>1, <1>3, <1>5, <1>7, <1>9, OrderStays
<1>10. CASE nulled /\ Fail(c) /\ UNCHANGED <<state, cursorId, total>>
  BY <1>9, <1>10 DEF Fail
<1>11. CASE state # "INIT" /\ ~nulled /\ Advance(c, state, items, cursorId, total)
  <2>1. Ready(state, items, cursorId, total)
    BY <1>1, <1>2, <1>3, <1>11, ReadyCaller
  <2>2. state \in {"OPEN", "CLOSED"} /\ items \in Docs /\ cursorId \in Cursors(made) /\ total \in Nat
    BY <1>11 DEF Typed, ClientTyped
  <2> QED BY <1>4, <1>7, <1>11, <2>1, <2>2, AdvanceInOrder
<1> QED BY <1>1, <1>7, <1>8, <1>9, <1>10, <1>11, Zenon

LEMMA SameDisturbed ==
  ASSUME CallerTyped, CallerTyped', ~disturbed, ~disturbed' PROVE disturbed' = disturbed
BY DEF CallerTyped

\* Nothing but kills is on its way, of no cursor that the client has.
LEMMA QuietKills ==
  ASSUME WellOrdered, ~disturbed, NEW tc, Quiet(toServer, tc)
  PROVE  Kills(toServer, cursorId)
BY DEF WellOrdered, Quiet, Kills, Request

LEMMA QuietKnown ==
  ASSUME WellOrdered, ~disturbed, toClient = <<>>, up
  PROVE  \A cur \in open : cur.id = cursorId \/ Killed(toServer, cur.id)
<1>1. \A i : i \notin DOMAIN toClient
  OBVIOUS
<1> QED BY <1>1, NoLeakIs DEF WellOrdered

LEMMA Messages ==
  ASSUME Typed
  PROVE  /\ \A i \in DOMAIN toServer : toServer[i] \in Requests(asked, made)
         /\ \A i \in DOMAIN toClient : toClient[i] \in Replies(asked, made)
         /\ toServer \in Seq(Requests(asked, made)) /\ toClient \in Seq(Replies(asked, made))
<1> DEFINE R == Requests(asked, made)
           A == Replies(asked, made)
<1>1. toServer \in Seq(R) /\ toClient \in Seq(A)
  BY DEF Typed, Posted, Mail
<1> HIDE DEF R, A
<1>2. (\A i \in DOMAIN toServer : toServer[i] \in R) /\ (\A i \in DOMAIN toClient : toClient[i] \in A)
  BY <1>1, EmptyOrFirst, ElementOfSeq
<1> QED BY <1>1, <1>2 DEF R, A

LEMMA CloseCalm ==
  ASSUME Typed, Calm, NEW callback \in BOOLEAN, Close(callback) PROVE Calm'
<1> SUFFICES ASSUME ~disturbed' PROVE OneAtATime' /\ WellOrdered'
  BY DEF Calm
<1>1. /\ UNCHANGED <<limit, batch, items, nulled, total, asked, answered, given, ended, toClient>>
      /\ UNCHANGED <<up, open, timedOut>>
      /\ toServer' = toServer \o Kill(cursorId)
      /\ state' = "CLOSED" /\ cursorId' = 0 /\ userClosed' = TRUE
      /\ disturbed' = (disturbed \/ Outstanding)
  BY DEF Close, config, server
<1>2. ~disturbed /\ ~Outstanding
  BY <1>1
<1>3. /\ OneAtATime /\ WellOrdered /\ Quiet(toServer, toClient) /\ toClient = <<>> /\ toClient' = <<>>
      /\ Posted /\ ServerTyped /\ cursorId \in Cursors(made)
  BY <1>1, <1>2, QuietCaller DEF Calm, Quiet, Typed, ClientTyped
<1>4. OneAtATime'
  BY <1>1, <1>3, OneAnswered
<1>5. Kills(toServer, cursorId) /\ (up => \A cur \in open : cur.id = cursorId \/ Killed(toServer, cur.id))
  BY <1>2, <1>3, QuietKills, QuietKnown
<1>6. Wanted' = Wanted
  BY <1>1 DEF Wanted
<1>7. Row' /\ StateOf' /\ Behind' /\ EndMeansAll'
  BY <1>1, <1>3, <1>6 DEF WellOrdered, Row, StateOf, Behind, EndMeansAll
<1>8. /\ Kills(toServer', cursorId')
      /\ up' => \A cur \in open' : cur.id = cursorId' \/ Killed(toServer', cur.id)
  <2> DEFINE cid == cursorId
  <2>1. /\ Kills(toServer, cid) /\ cid \in Cursors(made)
        /\ up => \A cur \in open : cur.id = cid \/ Killed(toServer, cur.id)
        /\ toServer' = toServer \o Kill(cid)
    BY <1>1, <1>3, <1>5
  <2>2. /\ UNCHANGED <<up, open>>
        /\ Posted /\ ServerTyped /\ toClient' = <<>> /\ cursorId' = 0
    BY <1>1, <1>3
  <2> HIDE DEF cid
  <2> QED BY <2>1, <2>2, KillQuiet
<1> QED BY <1>3, <1>4, <1>7, <1>8, LinksQuiet DEF WellOrdered

LEMMA CloseReturnsCalm == ASSUME Typed, Calm, CloseReturns PROVE Calm'
<1> SUFFICES ASSUME ~disturbed' PROVE OneAtATime' /\ WellOrdered'
  BY DEF Calm
<1>1. /\ UNCHANGED <<limit, batch, state, cursorId, total, asked, answered, given, ended,
                     userClosed, disturbed, toServer, toClient>>
      /\ UNCHANGED <<up, open, timedOut>>
      /\ closing /\ closing' = FALSE /\ nulled' = TRUE /\ items' = <<>>
  BY DEF CloseReturns, config, server
<1>2. ~disturbed /\ OneAtATime /\ WellOrdered
  BY <1>1 DEF Calm
<1>3. OneAtATime'
  BY <1>1, <1>2, OneAnswered
<1>4. state = "CLOSED"
  BY <1>1, <1>2 DEF WellOrdered, StateOf, Typed, ClientTyped
<1>5. /\ \A i \in DOMAIN toServer : toServer[i].op = "kill" /\ toServer[i].cursor > 0 /\ toServer[i].cursor # cursorId
      /\ \A i \in DOMAIN toClient : FALSE
  <2>1. \A i \in DOMAIN toServer : toServer[i].op \in {"query", "more", "kill"}
    BY Messages DEF Requests
  <2>2. \A i \in DOMAIN toClient : toClient[i].op \in {"query", "more"}
    BY Messages DEF Replies
  <2>3. \A i \in DOMAIN toServer : toServer[i].op = "kill" /\ toServer[i].cursor > 0 /\ toServer[i].cursor # cursorId
    BY <1>2, <1>4, <2>1 DEF WellOrdered, Request, Fetching
  <2>4. \A i \in DOMAIN toClient : FALSE
    BY <1>2, <1>4, <2>2 DEF WellOrdered, Answers, Fetching
  <2> QED BY <2>3, <2>4
<1>6. toClient = <<>>
  <2> DEFINE R == Replies(asked, made)
  <2>1. toClient \in Seq(R)
    BY DEF Typed, Posted, Mail
  <2> HIDE DEF R
  <2> QED BY <2>1, <1>5, EmptyOrFirst
<1>7. Kills(toServer', cursorId') /\ toClient' = <<>>
  BY <1>1, <1>5, <1>6 DEF Kills
<1>8. up' => \A cur \in open' : cur.id = cursorId' \/ Killed(toServer', cur.id)
  BY <1>1, <1>2, <1>6, QuietKnown
<1>9. Wanted' = Wanted /\ Len(items') = 0 /\ \A i : i \notin DOMAIN items'
  BY <1>1, EmptySeq DEF Wanted
<1>10. Row'
  <2>1. Len(given) \in Nat /\ Len(items) \in Nat
    BY LenProperties DEF Typed, ClientTyped, Docs
  <2>2. Wanted \in Nat
    BY Numbers DEF Typed, ClientTyped
  <2>3. given' = given /\ (\A k \in DOMAIN given : given[k] = k) /\ Len(given) + Len(items) <= Wanted
    BY <1>1, <1>2 DEF WellOrdered, Row
  <2> QED BY <1>9, <2>1, <2>2, <2>3 DEF Row
<1>11. StateOf' /\ Behind' /\ EndMeansAll'
  BY <1>1, <1>2, <1>4, <1>9 DEF WellOrdered, StateOf, Behind, EndMeansAll
<1> QED BY <1>3, <1>7, <1>8, <1>10, <1>11, LinksQuiet DEF WellOrdered

LEMMA RewindCalm == ASSUME Typed, Calm, Rewind PROVE Calm'
<1> SUFFICES ASSUME ~disturbed' PROVE OneAtATime' /\ WellOrdered'
  BY DEF Calm
<1>1. /\ UNCHANGED <<limit, batch, closing, asked, answered, toClient>>
      /\ UNCHANGED <<up, open, timedOut>>
      /\ state' = "INIT" /\ items' = <<>> /\ nulled' = FALSE /\ cursorId' = 0 /\ total' = 0
      /\ given' = <<>> /\ ended' = FALSE /\ state # "INIT"
      /\ disturbed' = (disturbed \/ Outstanding \/ closing)
  BY DEF Rewind, config, server
<1>0. toServer' = toServer \o (IF state = "CLOSED" THEN <<>> ELSE Kill(cursorId))
  BY DEF Rewind
<1>2. ~disturbed /\ ~Outstanding /\ ~closing
  BY <1>1
<1>3. /\ OneAtATime /\ WellOrdered /\ Quiet(toServer, toClient) /\ toClient = <<>> /\ toClient' = <<>>
      /\ Posted /\ ServerTyped /\ cursorId \in Cursors(made)
  BY <1>1, <1>2, QuietCaller DEF Calm, Quiet, Typed, ClientTyped
<1>4. OneAtATime'
  BY <1>1, <1>3, OneAnswered
<1>5. Kills(toServer, cursorId) /\ (up => \A cur \in open : cur.id = cursorId \/ Killed(toServer, cur.id))
  BY <1>2, <1>3, QuietKills, QuietKnown
<1>6. toServer' = toServer \o Kill(cursorId)
  <2>1. CASE state = "CLOSED"
    <3>1. cursorId = 0
      BY <1>3, <2>1 DEF WellOrdered, StateOf
    <3>2. Kill(cursorId) = <<>>
      BY <3>1 DEF Kill
    <3> QED BY <1>0, <2>1, <3>2
  <2>2. CASE state # "CLOSED"
    BY <1>0, <2>2
  <2> QED BY <2>1, <2>2
<1>7. /\ Kills(toServer', cursorId')
      /\ up' => \A cur \in open' : cur.id = cursorId' \/ Killed(toServer', cur.id)
  <2> DEFINE cid == cursorId
  <2>1. /\ Kills(toServer, cid) /\ cid \in Cursors(made)
        /\ up => \A cur \in open : cur.id = cid \/ Killed(toServer, cur.id)
        /\ toServer' = toServer \o Kill(cid)
    BY <1>3, <1>5, <1>6
  <2>2. /\ UNCHANGED <<up, open>>
        /\ Posted /\ ServerTyped /\ toClient' = <<>> /\ cursorId' = 0
    BY <1>1, <1>3
  <2> HIDE DEF cid
  <2> QED BY <2>1, <2>2, KillQuiet
<1>8. Wanted' = Wanted /\ Wanted \in Nat
  BY <1>1, Numbers DEF Wanted, Typed, ClientTyped
<1>9. Len(<<>>) = 0 /\ (\A i : i \notin DOMAIN given') /\ (\A i : i \notin DOMAIN items')
  BY <1>1, EmptySeq
<1>10. Row'
  BY <1>1, <1>8, <1>9 DEF Row
<1>11. ~nulled' /\ ~closing' /\ ~ended'
  BY <1>1, <1>2
<1>12. StateOf'
  <2>1. state' = "INIT" /\ given' = <<>> /\ items' = <<>> /\ total' = 0 /\ cursorId' = 0
    BY <1>1
  <2> QED BY <2>1, <1>11 DEF StateOf
<1>13. Behind' /\ EndMeansAll'
  BY <1>1, <1>11 DEF Behind, EndMeansAll
<1> QED BY <1>3, <1>4, <1>7, <1>10, <1>12, <1>13, LinksQuiet DEF WellOrdered

\* A reply arrives at a caller who makes one call at a time.
LEMMA ReceiveCalm ==
  ASSUME Typed, Calm, ~disturbed', NEW op, Receive(op)
  PROVE  /\ ~disturbed /\ disturbed' = disturbed /\ OneAtATime /\ WellOrdered /\ Steady
         /\ asked' = asked /\ toClient' = <<>>
         /\ Reply.op = op /\ Answers(Reply)
         /\ Kills(toServer, cursorId) /\ Kills(toServer, Reply.cursor)
         /\ up => \A cur \in open : \/ cur.id = cursorId \/ cur.id = Reply.cursor
                                    \/ Killed(toServer, cur.id)
         /\ \A cur \in open : cur.id \in Nat /\ cur.id > 0
<1>1. UNCHANGED <<limit, batch, asked, userClosed, disturbed>> /\ UNCHANGED <<up, open, timedOut>>
  BY DEF Receive, config, server
<1>2. ~disturbed /\ OneAtATime /\ WellOrdered /\ Steady
  BY <1>1 DEF Calm, Steady
<1>3. /\ Quiet(toServer, toClient')
      /\ Reply = toClient[1] /\ 1 \in DOMAIN toClient /\ Reply.op = op
      /\ \A j \in DOMAIN toClient : j = 1
  BY <1>2, QuietReceive
<1>4. Answers(Reply)
  BY <1>2, <1>3 DEF WellOrdered
<1>5. Kills(toServer, cursorId)
  BY <1>2, <1>3, QuietKills
<1>6. \A i \in DOMAIN toServer : toServer[i].op = "kill"
  BY <1>3 DEF Quiet
<1>7. \A i \in DOMAIN toServer : toServer[i].cursor # Reply.cursor
  BY <1>2, <1>3, <1>6 DEF WellOrdered
<1>8. Kills(toServer, Reply.cursor)
  BY <1>5, <1>7 DEF Kills
<1>9. up => \A cur \in open : \/ cur.id = cursorId \/ cur.id = Reply.cursor
                              \/ Killed(toServer, cur.id)
  BY <1>2, <1>3, NoLeakIs DEF WellOrdered
<1>10. \A cur \in open : cur.id \in Nat /\ cur.id > 0
  BY DEF Typed, ServerTyped, Posted, Mail
<1> QED BY <1>1, <1>2, <1>3, <1>4, <1>5, <1>8, <1>9, <1>10 DEF Quiet

LEMMA QueryErrorCalm == ASSUME Typed, Calm, QueryError PROVE Calm'
<1> SUFFICES ASSUME ~disturbed' PROVE OneAtATime' /\ WellOrdered'
  BY DEF Calm
<1>1. /\ Receive("query") /\ Reply.err
      /\ state' = "CLOSED" /\ cursorId' = 0 /\ closing' = TRUE
      /\ toServer' = toServer \o Kill(cursorId)
      /\ Answer(Reply.call, 1)
      /\ UNCHANGED <<items, nulled, total, given, ended>>
  BY DEF QueryError
<1>2. /\ ~disturbed /\ disturbed' = disturbed /\ OneAtATime /\ WellOrdered /\ Steady
      /\ asked' = asked /\ toClient' = <<>>
      /\ Reply.op = "query" /\ Answers(Reply)
      /\ Kills(toServer, cursorId)
      /\ up => \A cur \in open : \/ cur.id = cursorId \/ cur.id = Reply.cursor
                                 \/ Killed(toServer, cur.id)
      /\ \A cur \in open : cur.id \in Nat /\ cur.id > 0
  BY <1>1, ReceiveCalm
<1>3. OneAtATime'
  BY <1>1, <1>2, AnswersAre, OneAnswered DEF Answered
<1>4. state = "INIT" /\ Reply.cursor = 0
  BY <1>1, <1>2 DEF Answers
<1>5. cursorId = 0 /\ ~ended
  BY <1>2, <1>4 DEF WellOrdered, StateOf
<1>6. toServer' = toServer
  <2>1. /\ asked \in Nat /\ made \in Nat /\ 0 \in Cursors(made)
        /\ toServer \in Seq(Requests(asked, made))
    BY Constants DEF Typed, Posted, Mail, Cursors
  <2>2. toServer \o Kill(0) = toServer
    BY <2>1, KillAdds
  <2> QED BY <2>2, <1>1, <1>5
<1>7. Kills(toServer', cursorId') /\ (up' => \A cur \in open' : cur.id = cursorId' \/ Killed(toServer', cur.id))
  BY <1>1, <1>2, <1>4, <1>5, <1>6 DEF Steady
<1>8. Wanted' = Wanted
  BY <1>2, SteadyIs
<1>9. Row' /\ StateOf' /\ Behind' /\ EndMeansAll'
  BY <1>1, <1>2, <1>5, <1>8 DEF WellOrdered, Row, StateOf, Behind, EndMeansAll
<1> QED BY <1>2, <1>3, <1>7, <1>9, LinksQuiet DEF WellOrdered

LEMMA QueryReplyCalm == ASSUME Typed, Calm, QueryReply PROVE Calm'
<1> SUFFICES ASSUME ~disturbed' PROVE OneAtATime' /\ WellOrdered'
  BY DEF Calm
<1> DEFINE c == Reply.call
           docs == Reply.docs
           its == items \o docs
           cid == Reply.cursor
           tot == Len(docs)
<1>1. /\ Receive("query") /\ ~Reply.err
      /\ nulled \/ Advance(c, "OPEN", its, cid, tot)
  BY DEF QueryReply
<1>2. /\ ~disturbed /\ disturbed' = disturbed /\ OneAtATime /\ WellOrdered /\ Steady
      /\ asked' = asked /\ toClient' = <<>>
      /\ Reply.op = "query" /\ Answers(Reply)
      /\ Kills(toServer, cid)
      /\ up => \A cur \in open : \/ cur.id = cursorId \/ cur.id = cid
                                 \/ Killed(toServer, cur.id)
      /\ \A cur \in open : cur.id \in Nat /\ cur.id > 0
  BY <1>1, ReceiveCalm
<1>3. /\ docs \in Docs /\ tot \in Nat /\ cid \in Cursors(made) /\ CallerTyped /\ ClientTyped /\ made \in Nat
  BY <1>1, ReceiveStays, AtIs DEF Typed, Posted, Mail
<1>4. state = "INIT"
  BY <1>2 DEF Answers
<1>5. given = <<>> /\ items = <<>> /\ total = 0 /\ cursorId = 0 /\ ~nulled /\ ~closing /\ ~ended
  BY <1>2, <1>4 DEF WellOrdered, StateOf
<1>6. its = docs
  BY <1>3, <1>5, JoinDocs DEF ClientTyped
<1>7. /\ limit > 0 => tot <= limit
      /\ \A k \in DOMAIN docs : docs[k] = total + k
      /\ total + tot <= NDocs
      /\ \A cur \in open : cur.id = cid => cur.next = total + tot + 1
      /\ cid = 0 /\ ~Reply.err /\ ~timedOut => Done(total + tot)
      /\ cid > 0 /\ ~timedOut => \E cur \in open : cur.id = cid
  BY <1>2 DEF Answers
<1>8. /\ limit \in Nat /\ NDocs \in Nat /\ DOMAIN docs = 1 .. tot /\ Len(given) = 0
      /\ \A i : i \notin DOMAIN given
  BY <1>3, <1>5, Constants, LenProperties, EmptySeq DEF CallerTyped, Docs
<1> HIDE DEF c, docs, its, cid, tot
<1>9. Ready("OPEN", docs, cid, tot)
  <2>1. /\ \A i \in DOMAIN given : given[i] = i
        /\ \A i \in DOMAIN docs : docs[i] = Len(given) + i
    BY <1>3, <1>5, <1>7, <1>8
  <2>2. tot <= NDocs /\ Len(given) + Len(docs) = Cut(tot) /\ Len(given) + Len(docs) <= Wanted
    <3>1. total = 0 /\ Len(docs) = tot
      BY <1>5 DEF tot
    <3>2. tot <= NDocs
      BY <3>1, <1>3, <1>7, <1>8
    <3>3. Cut(tot) = tot
      BY <1>3, <1>7, <1>8 DEF Cut, Least
    <3>4. tot <= Wanted
      BY <3>2, <1>3, <1>7, <1>8 DEF Wanted, Least
    <3> QED BY <3>1, <3>2, <3>3, <3>4, <1>3, <1>8
  <2>3. cid = 0 /\ ~timedOut => Done(tot)
    BY <1>1, <1>3, <1>5, <1>7
  <2>4. /\ \A cur \in open : cur.id = cid => cur.next = tot + 1
        /\ cid > 0 /\ ~timedOut => \E cur \in open : cur.id = cid
    BY <1>3, <1>5, <1>7
  <2>5. up => \A cur \in open : cur.id = cid \/ Killed(toServer, cur.id)
    BY <1>2, <1>5
  <2> QED BY <2>1, <2>2, <2>3, <2>4, <2>5, <1>2, <1>5 DEF Ready
<1>10. Advance(c, "OPEN", docs, cid, tot)
  BY <1>1, <1>5, <1>6
<1>11. WellOrdered'
  BY <1>2, <1>3, <1>9, <1>10, AdvanceInOrder
<1>12. OneAtATime'
  BY <1>2, <1>10, AdvanceAnswers, OneAnswered DEF Answered
<1> QED BY <1>11, <1>12

LEMMA MoreReplyReady ==
  ASSUME Typed, Calm, ~disturbed', Receive("more")
  PROVE  LET tot == total + Len(Reply.docs)
             its == Trim(Reply.docs, tot)
         IN /\ Ready("OPEN", its, Reply.cursor, tot)
            /\ state = "OPEN" /\ items = <<>> /\ ~nulled
            /\ its \in Docs /\ tot \in Nat /\ Reply.cursor \in Cursors(made)
            /\ its = <<>> <=> Reply.docs = <<>>
            /\ items \o its = its
            /\ Reply.docs = <<>> /\ Reply.cursor > 0 => total >= NDocs
<1> DEFINE docs == Reply.docs
           cid == Reply.cursor
           tot == total + Len(docs)
           its == Trim(docs, tot)
<1>2. /\ ~disturbed /\ OneAtATime /\ WellOrdered /\ Steady
      /\ Reply.op = "more" /\ Answers(Reply)
      /\ Kills(toServer, cid)
      /\ up => \A cur \in open : \/ cur.id = cursorId \/ cur.id = cid
                                 \/ Killed(toServer, cur.id)
  BY ReceiveCalm
<1>3. /\ docs \in Docs /\ Len(docs) \in Nat /\ cid \in Cursors(made) /\ CallerTyped /\ ClientTyped
  BY ReceiveStays
<1>4. /\ state = "OPEN" /\ items = <<>> /\ ~LimitReached(total)
      /\ cid \in {0, cursorId} /\ ~Reply.err
      /\ \A k \in DOMAIN docs : docs[k] = total + k
      /\ total + Len(docs) <= NDocs
      /\ \A cur \in open : cur.id = cid => cur.next = total + Len(docs) + 1
      /\ cid = 0 => \A cur \in open : cur.id # cursorId
      /\ cid = 0 /\ ~timedOut => Done(total + Len(docs))
      /\ docs = <<>> /\ cid > 0 => total >= NDocs
      /\ cid > 0 /\ ~timedOut => \E cur \in open : cur.id = cid
  BY <1>2 DEF Answers, Fetching
<1>5. /\ ~nulled /\ ~closing /\ ~ended
      /\ Len(given) + Len(items) = Cut(total)
      /\ \A i \in DOMAIN given : given[i] = i
  BY <1>2, <1>4 DEF WellOrdered, StateOf, Row
<1>6. /\ limit \in Nat /\ NDocs \in Nat /\ total \in Nat /\ tot \in Nat /\ Len(given) \in Nat
      /\ DOMAIN docs = 1 .. Len(docs) /\ Len(items) = 0 /\ (docs = <<>> <=> Len(docs) = 0)
  <2>1. limit \in Nat /\ NDocs \in Nat /\ total \in Nat /\ given \in Docs
    BY <1>3, Constants DEF CallerTyped, ClientTyped
  <2>2. Len(given) \in Nat /\ DOMAIN docs = 1 .. Len(docs) /\ (docs = <<>> <=> Len(docs) = 0)
    BY <2>1, <1>3, EmptyOrFirst DEF Docs
  <2> QED BY <2>1, <2>2, <1>3, <1>4, EmptySeq
<1>7. Len(given) = total /\ (limit > 0 => total < limit)
  <2>1. Cut(total) = total
    BY <1>3, <1>4, <1>6, Numbers
  <2> QED BY <2>1, <1>4, <1>5, <1>6 DEF LimitReached
<1>8. /\ its \in Docs
      /\ Len(its) = IF limit > 0 /\ tot > limit
                    THEN Len(docs) - Least(tot - limit, Len(docs)) ELSE Len(docs)
      /\ \A i \in 1 .. Len(its) : its[i] = docs[i]
  <2> HIDE DEF docs, tot
  <2> QED BY <1>3, <1>6, TrimIs
<1>9. Len(its) \in Nat /\ DOMAIN its = 1 .. Len(its) /\ (its = <<>> <=> Len(its) = 0) /\ items \o its = its
  <2> HIDE DEF its
  <2> QED BY <1>3, <1>4, <1>8, EmptyOrFirst, JoinDocs DEF Docs, ClientTyped
<1> HIDE DEF its, docs, cid
<1>10. Len(its) <= Len(docs) /\ (Len(its) = 0 <=> Len(docs) = 0)
  BY <1>3, <1>6, <1>7, <1>8 DEF Least
<1>11. Len(given) + Len(its) = Cut(tot) /\ Len(given) + Len(its) <= Wanted
  BY <1>3, <1>4, <1>6, <1>7, <1>8 DEF Least, Cut, Wanted
<1>12. \A i \in DOMAIN its : its[i] = Len(given) + i
  BY <1>3, <1>4, <1>6, <1>7, <1>8, <1>9, <1>10
<1>13. up => \A cur \in open : cur.id = cid \/ Killed(toServer, cur.id)
  BY <1>2, <1>4
<1>14. Ready("OPEN", its, cid, tot)
  BY <1>2, <1>4, <1>5, <1>11, <1>12, <1>13 DEF Ready
<1> QED BY <1>3, <1>4, <1>5, <1>6, <1>8, <1>9, <1>10, <1>14 DEF its, docs, cid

LEMMA MoreReplyCalm == ASSUME Typed, Calm, MoreReply PROVE Calm'
<1> SUFFICES ASSUME ~disturbed' PROVE OneAtATime' /\ WellOrdered'
  BY DEF Calm
<1> DEFINE c == Reply.call
           cid == Reply.cursor
           tot == total + Len(Reply.docs)
           its == Trim(Reply.docs, tot)
<1>1. /\ Receive("more") /\ Reply.docs # <<>>
      /\ cursorId' = cid /\ total' = tot /\ state' = state
      /\ nulled \/ items \o its = <<>> \/ GiveItem(c, items \o its)
  BY DEF MoreReply
<1>2. /\ OneAtATime /\ Steady /\ asked' = asked /\ toClient' = <<>>
  BY <1>1, ReceiveCalm
<1>3. /\ Ready("OPEN", its, cid, tot)
      /\ state = "OPEN" /\ items = <<>> /\ ~nulled
      /\ its \in Docs /\ tot \in Nat /\ cid \in Cursors(made)
      /\ its = <<>> <=> Reply.docs = <<>>
      /\ items \o its = its
  BY <1>1, MoreReplyReady
<1>4. its # <<>>
  BY <1>1, <1>3
<1>5. GiveItem(c, its)
  <2> HIDE DEF its, c
  <2> QED BY <1>1, <1>3, <1>4
<1> HIDE DEF its, c, cid, tot
<1>6. WellOrdered'
  BY <1>1, <1>2, <1>3, <1>4, <1>5, GiveInOrder
<1>7. Answered(c)
  BY <1>5, AnswersAre DEF GiveItem
<1>8. OneAtATime'
  BY <1>2, <1>7, OneAnswered DEF Answered
<1> QED BY <1>6, <1>8

LEMMA NoMoreReplyCalm == ASSUME Typed, Calm, NoMoreReply PROVE Calm'
<1> SUFFICES ASSUME ~disturbed' PROVE OneAtATime' /\ WellOrdered'
  BY DEF Calm
<1> DEFINE c == Reply.call
           cid == Reply.cursor
           tot == total + Len(Reply.docs)
           its == Trim(Reply.docs, tot)
<1>1. /\ Receive("more") /\ Reply.docs = <<>>
      /\ total' = total /\ items' = items /\ End(c, cid)
  BY DEF NoMoreReply
<1>2. /\ OneAtATime /\ Steady /\ asked' = asked /\ toClient' = <<>>
  BY <1>1, ReceiveCalm
<1>3. /\ Ready("OPEN", its, cid, tot)
      /\ items = <<>> /\ tot \in Nat /\ cid \in Cursors(made)
      /\ its = <<>> /\ (cid > 0 => total >= NDocs)
  BY <1>1, MoreReplyReady
<1>4. tot = total
  BY <1>1, EmptySeq DEF Typed, ClientTyped
<1>5. Ready("OPEN", <<>>, cid, tot) /\ (cid > 0 => Done(tot)) /\ items' = <<>> /\ total' = tot
  BY <1>1, <1>3, <1>4 DEF Done
<1> HIDE DEF its, c, cid, tot
<1>6. WellOrdered'
  BY <1>1, <1>2, <1>3, <1>5, EndInOrder
<1>7. Answered(c)
  BY <1>1, AnswersAre DEF End
<1>8. OneAtATime'
  BY <1>2, <1>7, OneAnswered DEF Answered
<1> QED BY <1>6, <1>8

\* The server takes a request.
LEMMA ServeCalm ==
  ASSUME Typed, Calm, ~disturbed', NEW op, Serve(op)
  PROVE  /\ ~disturbed /\ OneAtATime /\ WellOrdered /\ up /\ up' /\ timedOut' = timedOut
         /\ UNCHANGED <<limit, batch, state, items, nulled, cursorId, total, closing, asked, answered,
                        given, ended, userClosed, disturbed>>
         /\ Asked.op = op /\ Request(Asked) /\ Asked \in Requests(asked, made)
         /\ Asked = toServer[1] /\ 1 \in DOMAIN toServer
         /\ \A i \in DOMAIN toServer' : i + 1 \in DOMAIN toServer /\ toServer'[i] = toServer[i + 1]
         /\ \A i \in DOMAIN toServer : i # 1 => i - 1 \in DOMAIN toServer' /\ toServer'[i - 1] = toServer[i]
         /\ \A cid : Killed(toServer, cid) /\ ~(op = "kill" /\ cid = Asked.cursor) => Killed(toServer', cid)
         /\ op # "kill" => toClient = <<>> /\ Kills(toServer', cursorId)
<1>1. /\ up /\ toServer # <<>> /\ Asked.op = op /\ toServer' = Tail(toServer)
      /\ UNCHANGED <<up, timedOut>>
      /\ UNCHANGED <<limit, batch, state, items, nulled, cursorId, total, closing, asked, answered,
                        given, ended, userClosed, disturbed>>
  BY DEF Serve, client
<1>2. ~disturbed /\ OneAtATime /\ WellOrdered
  BY <1>1 DEF Calm
<1>3. Asked = toServer[1] /\ 1 \in DOMAIN toServer /\ Asked \in Requests(asked, made)
  BY ServeStays
<1>4. Request(Asked)
  BY <1>2, <1>3 DEF WellOrdered
<1>5. /\ \A i \in DOMAIN toServer' : i + 1 \in DOMAIN toServer /\ toServer'[i] = toServer[i + 1]
      /\ \A i \in DOMAIN toServer : i # 1 => i - 1 \in DOMAIN toServer' /\ toServer'[i - 1] = toServer[i]
  <2> DEFINE R == Requests(asked, made)
  <2>1. toServer \in Seq(R)
    BY Messages
  <2> HIDE DEF R
  <2>2. /\ Len(toServer) \in Nat \ {0} /\ DOMAIN toServer = 1 .. Len(toServer)
        /\ DOMAIN toServer' = 1 .. Len(toServer) - 1
        /\ \A i \in DOMAIN toServer' : i + 1 \in DOMAIN toServer /\ i + 1 # 1 /\ toServer'[i] = toServer[i + 1]
    BY <1>1, <2>1, TailIs
  <2>3. \A i \in DOMAIN toServer : i # 1 => i - 1 \in DOMAIN toServer'
    BY <2>2
  <2>4. \A i \in DOMAIN toServer : i # 1 => toServer'[i - 1] = toServer[i]
    <3> SUFFICES ASSUME NEW i \in DOMAIN toServer, i # 1 PROVE toServer'[i - 1] = toServer[i]
      OBVIOUS
    <3>1. i - 1 \in DOMAIN toServer' /\ (i - 1) + 1 = i
      BY <2>2, <2>3
    <3> QED BY <2>2, <3>1
  <2> QED BY <2>2, <2>3, <2>4
<1>6. ASSUME NEW cid, Killed(toServer, cid), ~(op = "kill" /\ cid = Asked.cursor)
      PROVE  Killed(toServer', cid)
  <2>1. PICK i \in DOMAIN toServer : toServer[i].op = "kill" /\ toServer[i].cursor = cid
    BY <1>6 DEF Killed
  <2>2. i # 1
    BY <1>1, <1>3, <1>6, <2>1
  <2> QED BY <1>5, <2>1, <2>2 DEF Killed
<1>7. ASSUME op # "kill" PROVE toClient = <<>> /\ Kills(toServer', cursorId)
  <2>1. Quiet(toServer', toClient)
    BY <1>2, <1>7, QuietServe
  <2>2. \A i \in DOMAIN toServer' : Request(toServer'[i])
    BY <1>2, <1>5 DEF WellOrdered
  <2> QED BY <2>1, <2>2 DEF Quiet, Kills, Request
<1> QED BY <1>1, <1>2, <1>3, <1>4, <1>5, <1>6, <1>7

\* What the server answers fits what the client waits for.
Fits(op, docs, cid, err, x) ==
  /\ op # "kill" /\ Serve(op)
  /\ x = [op |-> op, call |-> Asked.call, docs |-> docs, cursor |-> cid, err |-> err]
  /\ Answering(docs, cid, err)
  /\ Answers(x)'
  /\ \A cur \in open' : cur.id = cursorId \/ cur.id = cid \/ Killed(toServer', cur.id)
  /\ Kills(toServer', cid)

\* The server answers a caller who makes one call at a time.
LEMMA AnsweringCalm ==
  ASSUME Typed, Calm, ~disturbed', NEW op, NEW docs, NEW cid, NEW err, NEW x,
         Fits(op, docs, cid, err, x)
  PROVE  OneAtATime' /\ WellOrdered'
<1>0. /\ op # "kill" /\ Serve(op)
      /\ x = [op |-> op, call |-> Asked.call, docs |-> docs, cursor |-> cid, err |-> err]
      /\ Answering(docs, cid, err)
      /\ Answers(x)'
      /\ \A cur \in open' : cur.id = cursorId \/ cur.id = cid \/ Killed(toServer', cur.id)
      /\ Kills(toServer', cid)
  BY DEF Fits
<1>1. /\ OneAtATime /\ WellOrdered
      /\ UNCHANGED <<limit, batch, state, items, nulled, cursorId, total, closing, asked, answered,
                        given, ended, userClosed, disturbed>>
      /\ timedOut' = timedOut /\ Asked.op = op
      /\ toClient = <<>> /\ Kills(toServer', cursorId)
  BY <1>0, ServeCalm
<1>2. OneAtATime'
  BY <1>1, OneAnswered
<1>3. toClient' = Append(toClient, x)
  BY <1>0, <1>1 DEF Answering
<1>4. DOMAIN toClient' = {1} /\ toClient'[1] = x /\ toClient' # <<>>
  <2>1. Len(toClient) = 0 /\ toClient \in Seq({x})
    BY <1>1, EmptySeq
  <2> QED BY <1>3, <2>1, AppendProperties, AppendIs
<1>5. Row' /\ StateOf' /\ EndMeansAll'
  <2>1. Wanted' = Wanted /\ \A t : Cut(t)' = Cut(t) /\ Done(t)' = Done(t)
    BY <1>1 DEF Wanted, Cut, Done
  <2> QED BY <1>1, <2>1 DEF WellOrdered, Row, StateOf, EndMeansAll
<1>6. Behind'
  BY <1>4 DEF Behind
<1>7. x.cursor = cid
  BY <1>0
<1>8. NoLeak'
  BY <1>0, <1>1, <1>4, <1>7, NoLeakIs
<1>9. \A i \in DOMAIN toServer' : Request(toServer[i])'
  BY <1>1 DEF Kills, Request
<1>10. \A i \in DOMAIN toClient' : Answers(toClient[i])'
  BY <1>0, <1>4 DEF Answers
<1>11. \A i \in DOMAIN toServer', j \in DOMAIN toClient' :
              toServer'[i].op = "kill" => toServer'[i].cursor # toClient'[j].cursor
  BY <1>0, <1>4, <1>7 DEF Kills
<1> QED BY <1>2, <1>5, <1>6, <1>8, <1>9, <1>10, <1>11 DEF WellOrdered

\* What the server knows of a query, of the cursor and of its own.
LEMMA ServeQueryFacts ==
  ASSUME Typed, Calm, ~disturbed', Serve("query")
  PROVE  /\ state = "INIT" /\ total = 0 /\ cursorId = 0
         /\ Asked.n = LimitRequest /\ Asked.n \in Nat
         /\ \A cur \in open : cur.id \in 1 .. made /\ Killed(toServer', cur.id)
         /\ Kills(toServer', 0)
         /\ \A i \in DOMAIN toServer' : toServer'[i].cursor \in 0 .. made
         /\ made \in Nat
<1>1. /\ ~disturbed /\ WellOrdered /\ up
      /\ Asked.op = "query" /\ Request(Asked) /\ Asked \in Requests(asked, made)
      /\ \A i \in DOMAIN toServer' : i + 1 \in DOMAIN toServer /\ toServer'[i] = toServer[i + 1]
      /\ \A cid : Killed(toServer, cid) => Killed(toServer', cid)
      /\ toClient = <<>> /\ Kills(toServer', cursorId)
  BY ServeCalm
<1>2. state = "INIT" /\ Asked.n = LimitRequest
  BY <1>1 DEF Request
<1>3. total = 0 /\ cursorId = 0
  BY <1>1, <1>2 DEF WellOrdered, StateOf
<1>4. Asked.n \in Nat
  BY <1>1 DEF Requests
<1>5. \A i \in DOMAIN toServer' : toServer'[i].cursor \in 0 .. made
  <2>1. \A i \in DOMAIN toServer' : toServer'[i] \in Requests(asked, made)
    BY <1>1, Messages
  <2> QED BY <2>1 DEF Requests
<1>6. made \in Nat
  BY DEF Typed, Posted, Mail
<1>7. \A cur \in open : cur.id \in 1 .. made
  BY DEF Typed, ServerTyped
<1>8. \A cur \in open : cur.id = cursorId \/ Killed(toServer, cur.id)
  BY <1>1, QuietKnown
<1>9. \A cur \in open : Killed(toServer', cur.id)
  BY <1>1, <1>3, <1>6, <1>7, <1>8
<1> QED BY <1>1, <1>2, <1>3, <1>4, <1>5, <1>6, <1>7, <1>9

LEMMA LimitRequestIs ==
  ASSUME CallerTyped
  PROVE  /\ limit > 0 => LimitRequest > 0 /\ LimitRequest <= limit
         /\ LimitRequest = 1 => limit = 1
         /\ limit \in Nat /\ NDocs \in Nat
BY Constants DEF CallerTyped, LimitRequest, Least

LEMMA ServeQueryCalm == ASSUME Typed, Calm, ServeQuery PROVE Calm'
<1> SUFFICES ASSUME ~disturbed' PROVE OneAtATime' /\ WellOrdered'
  BY DEF Calm
<1>0. PICK docs : docs = Batch(1, Asked.n)
  OBVIOUS
<1>1. /\ Serve("query")
      /\ \E stays \in IF Asked.n = 1 THEN {FALSE} ELSE Stays(Len(docs) + 1) :
           /\ made' = IF stays THEN made + 1 ELSE made
           /\ open' = IF stays THEN open \cup {[id |-> made', next |-> Len(docs) + 1]} ELSE open
           /\ Answering(docs, IF stays THEN made' ELSE 0, FALSE)
  BY <1>0 DEF ServeQuery
<1>2. /\ state = "INIT" /\ total = 0 /\ cursorId = 0
      /\ Asked.n = LimitRequest /\ Asked.n \in Nat
      /\ \A cur \in open : cur.id \in 1 .. made /\ Killed(toServer', cur.id)
      /\ Kills(toServer', 0)
      /\ \A i \in DOMAIN toServer' : toServer'[i].cursor \in 0 .. made
      /\ made \in Nat
  BY <1>1, ServeQueryFacts
<1>3. /\ UNCHANGED <<limit, batch, state, items, total, cursorId>> /\ timedOut' = timedOut
  BY <1>1, ServeCalm
<1>4. /\ limit > 0 => Asked.n > 0 /\ Asked.n <= limit
      /\ Asked.n = 1 => limit = 1
      /\ limit \in Nat /\ NDocs \in Nat
  BY <1>2, LimitRequestIs DEF Typed
<1>5. /\ docs \in Docs /\ Len(docs) \in 0 .. NDocs /\ Len(docs) \in Nat /\ Len(docs) <= NDocs
      /\ Asked.n > 0 => Len(docs) <= Asked.n
      /\ \A j \in DOMAIN docs : docs[j] = 0 + j
      /\ Asked.n = 1 => Len(docs) = Least(1, NDocs)
  <2>1. 1 \in 1 .. NDocs + 1
    BY <1>4
  <2>2. /\ docs \in Docs
        /\ Len(docs) = Least(IF Asked.n = 0 THEN DefaultBatch ELSE Asked.n, NDocs - 1 + 1)
        /\ Len(docs) \in 0 .. NDocs - 1 + 1
        /\ Asked.n > 0 => Len(docs) <= Asked.n
        /\ \A j \in DOMAIN docs : docs[j] = 1 + j - 1
    BY <1>0, <1>2, <2>1, BatchIs
  <2>3. \A j \in DOMAIN docs : docs[j] = 0 + j
    <3>1. DOMAIN docs = 1 .. Len(docs)
      BY <2>2, LenProperties DEF Docs
    <3> QED BY <2>2, <3>1
  <2>4. NDocs - 1 + 1 = NDocs
    BY <1>4
  <2> QED BY <2>2, <2>3, <2>4, <1>4
<1>6. PICK last : last = Len(docs) + 1
  OBVIOUS
<1>7. PICK stays \in IF Asked.n = 1 THEN {FALSE} ELSE Stays(last) :
           /\ made' = IF stays THEN made + 1 ELSE made
           /\ open' = IF stays THEN open \cup {[id |-> made', next |-> last]} ELSE open
           /\ Answering(docs, IF stays THEN made' ELSE 0, FALSE)
  BY <1>1, <1>6
<1>8. stays \in BOOLEAN
  BY DEF Stays
<1>9. PICK cid : cid = IF stays THEN made + 1 ELSE 0
  OBVIOUS
<1>10. /\ stays => made' = cid /\ cid = made + 1 /\ open' = open \cup {[id |-> cid, next |-> last]}
       /\ ~stays => cid = 0 /\ open' = open
       /\ Answering(docs, cid, FALSE)
       /\ cid \in Nat /\ (cid = 0 <=> ~stays)
  <2>1. CASE stays
    <3>1. made' = made + 1 /\ cid = made + 1 /\ open' = open \cup {[id |-> made', next |-> last]}
      BY <1>7, <1>9, <2>1
    <3>2. Answering(docs, made', FALSE)
      BY <1>7, <2>1
    <3>3. cid \in Nat /\ cid # 0 /\ cid = made'
      BY <1>2, <3>1
    <3> QED BY <2>1, <3>1, <3>2, <3>3
  <2>2. CASE ~stays
    <3>1. cid = 0 /\ open' = open
      BY <1>7, <1>9, <2>2
    <3>2. Answering(docs, 0, FALSE)
      BY <1>7, <2>2
    <3> QED BY <2>2, <3>1, <3>2
  <2> QED BY <2>1, <2>2
<1>11. ASSUME ~stays PROVE Done(Len(docs))'
  <2>1. Asked.n = 1 \/ ~(last <= NDocs)
    BY <1>11 DEF Stays
  <2>2. CASE Asked.n = 1
    BY <2>2, <1>3, <1>4, <1>5 DEF Done, Least
  <2>3. CASE ~(last <= NDocs)
    BY <2>3, <1>4, <1>5, <1>6 DEF Done
  <2> QED BY <2>1, <2>2, <2>3
<1>12. PICK x : x = [op |-> "query", call |-> Asked.call, docs |-> docs, cursor |-> cid, err |-> FALSE]
  OBVIOUS
<1>13. x.op = "query" /\ x.docs = docs /\ x.cursor = cid /\ x.err = FALSE
  BY <1>12
<1>14. /\ \A cur \in open' : cur \in open \/ (cur.id = cid /\ cur.next = last /\ stays)
       /\ stays => \E cur \in open' : cur.id = cid
  <2> DEFINE new == [id |-> cid, next |-> last]
  <2>1. new.id = cid /\ new.next = last
    OBVIOUS
  <2>2. (stays => open' = open \cup {new}) /\ (~stays => open' = open)
    BY <1>10
  <2> HIDE DEF new
  <2> QED BY <2>1, <2>2
<1>15. \A cur \in open' : cur.id = cid => cur.next = 0 + Len(docs) + 1
  <2>1. \A cur \in open : cur.id # cid
    BY <1>2, <1>10
  <2>2. last = 0 + Len(docs) + 1
    BY <1>5, <1>6
  <2> QED BY <2>1, <2>2, <1>14
<1>16. \A cur \in open' : cid = 0 => cur.id # 0
  BY <1>2, <1>10
<1>17. limit > 0 => Len(docs) <= limit
  BY <1>2, <1>4, <1>5
<1>18. 0 + Len(docs) = Len(docs)
  BY <1>5
<1>19. Answers(x)'
  <2>1. /\ state' = "INIT" /\ total' = 0 /\ cursorId' = 0 /\ limit' = limit
    BY <1>2, <1>3
  <2>2. cid > 0 => \E cur \in open' : cur.id = cid
    BY <1>10, <1>14
  <2>3. cid = 0 => Done(Len(docs))'
    BY <1>10, <1>11
  <2> QED BY <2>1, <2>2, <2>3, <1>5, <1>13, <1>15, <1>16, <1>17, <1>18 DEF Answers
<1>20. \A cur \in open' : cur.id = cursorId \/ cur.id = cid \/ Killed(toServer', cur.id)
  BY <1>2, <1>14
<1>21. Kills(toServer', cid)
  BY <1>2, <1>10 DEF Kills
<1>22. Fits("query", docs, cid, FALSE, x)
  BY <1>1, <1>10, <1>12, <1>19, <1>20, <1>21 DEF Fits
<1> QED BY <1>22, AnsweringCalm

LEMMA RefuseQueryCalm == ASSUME Typed, Calm, RefuseQuery PROVE Calm'
<1> SUFFICES ASSUME ~disturbed' PROVE OneAtATime' /\ WellOrdered'
  BY DEF Calm
<1>1. Serve("query") /\ Answering(<<>>, 0, TRUE) /\ UNCHANGED <<open, made>>
  BY DEF RefuseQuery
<1>2. /\ state = "INIT" /\ total = 0 /\ cursorId = 0
      /\ \A cur \in open : cur.id \in 1 .. made /\ Killed(toServer', cur.id)
      /\ Kills(toServer', 0) /\ made \in Nat
  BY <1>1, ServeQueryFacts
<1>3. /\ UNCHANGED <<limit, batch, state, items, total, cursorId>> /\ timedOut' = timedOut
  BY <1>1, ServeCalm
<1>4. PICK x : x = [op |-> "query", call |-> Asked.call, docs |-> <<>>, cursor |-> 0, err |-> TRUE]
  OBVIOUS
<1>5. /\ x.op = "query" /\ x.docs = <<>> /\ x.cursor = 0 /\ x.err = TRUE
  BY <1>4
<1>6. /\ Len(x.docs) = 0 /\ (\A k : k \notin DOMAIN x.docs) /\ NDocs \in Nat /\ limit \in Nat
  BY <1>5, EmptySeq, Constants DEF Typed, CallerTyped
<1>7. \A cur \in open' : cur.id # 0
  BY <1>1, <1>2
<1>8. Answers(x)'
  <2>1. state' = "INIT" /\ total' = 0 /\ cursorId' = 0 /\ limit' = limit
    BY <1>2, <1>3
  <2> QED BY <2>1, <1>5, <1>6, <1>7 DEF Answers
<1>9. \A cur \in open' : cur.id = cursorId \/ cur.id = 0 \/ Killed(toServer', cur.id)
  BY <1>1, <1>2
<1>10. Fits("query", <<>>, 0, TRUE, x)
  BY <1>1, <1>2, <1>4, <1>8, <1>9 DEF Fits
<1> QED BY <1>10, AnsweringCalm

\* What the server knows of a get-more, of the cursor and of its own.
LEMMA ServeMoreFacts ==
  ASSUME Typed, Calm, ~disturbed', Serve("more")
  PROVE  /\ Fetching /\ Fetching' /\ cursorId' = cursorId /\ total' = total
         /\ Asked.cursor = cursorId /\ cursorId > 0 /\ cursorId \in Nat
         /\ Asked.n \in Nat /\ total \in Nat /\ total <= NDocs
         /\ \A cur \in open : cur.id = cursorId \/ Killed(toServer', cur.id)
         /\ \A cur \in open : cur.id = cursorId => cur.next = total + 1
         /\ ~timedOut => \E cur \in open : cur.id = cursorId
         /\ Kills(toServer', cursorId) /\ Kills(toServer', 0)
         /\ \A cur \in open : cur.id \in Nat /\ cur.id > 0 /\ cur.next \in 1 .. NDocs + 1
         /\ \A a, b \in open : a.id = b.id => a = b
         /\ timedOut' = timedOut
<1>1. /\ ~disturbed /\ WellOrdered /\ up /\ timedOut' = timedOut
      /\ UNCHANGED <<limit, state, items, cursorId, total>>
      /\ Asked.op = "more" /\ Request(Asked) /\ Asked \in Requests(asked, made)
      /\ \A cid : Killed(toServer, cid) => Killed(toServer', cid)
      /\ toClient = <<>> /\ Kills(toServer', cursorId)
  BY ServeCalm
<1>2. Fetching /\ Asked.cursor = cursorId /\ cursorId > 0
  BY <1>1 DEF Request
<1>3. Fetching'
  BY <1>1, <1>2 DEF Fetching, LimitReached
<1>4. Asked.n \in Nat /\ made \in Nat
  BY <1>1 DEF Requests, Typed, Posted, Mail
<1>5. total \in Nat /\ cursorId \in Nat
  BY <1>4 DEF Typed, ClientTyped, Cursors
<1>6. total <= NDocs
  BY <1>1, <1>2 DEF WellOrdered, StateOf, Fetching
<1>7. \A cur \in open : cur.id = cursorId \/ Killed(toServer', cur.id)
  BY <1>1, QuietKnown
<1>8. /\ \A cur \in open : cur.id = cursorId => cur.next = total + 1
      /\ ~timedOut => \E cur \in open : cur.id = cursorId
  BY <1>1, <1>2 DEF WellOrdered, Behind, Fetching
<1>9. Kills(toServer', 0)
  <2>1. \A i \in DOMAIN toServer' : toServer'[i] \in Requests(asked, made)
    BY <1>1, ServeCalm, Messages
  <2>2. \A i \in DOMAIN toServer' : toServer'[i].cursor \in Nat
    BY <2>1, <1>4 DEF Requests
  <2> QED BY <2>2, <1>1 DEF Kills
<1>10. \A cur \in open : cur \in [id : 1 .. made, next : 1 .. NDocs + 1]
  BY DEF Typed, ServerTyped
<1>11. \A a, b \in open : a.id = b.id => a = b
  BY DEF Typed, ServerTyped, Distinct
<1>12. \A cur \in open : cur.id \in Nat /\ cur.id > 0 /\ cur.next \in 1 .. NDocs + 1
  BY <1>4, <1>10
<1> QED BY <1>1, <1>2, <1>3, <1>4, <1>5, <1>6, <1>7, <1>8, <1>9, <1>11, <1>12

LEMMA ServeMoreCalm == ASSUME Typed, Calm, ServeMore PROVE Calm'
<1> SUFFICES ASSUME ~disturbed' PROVE OneAtATime' /\ WellOrdered'
  BY DEF Calm
<1>1. /\ Serve("more")
      /\ \E cur \in open :
           /\ cur.id = Asked.cursor
           /\ \E stays \in Stays(cur.next + Len(Batch(cur.next, Asked.n))) :
                /\ open' = (open \ {cur}) \cup
                           (IF stays THEN {[id |-> cur.id, next |-> cur.next + Len(Batch(cur.next, Asked.n))]}
                                     ELSE {})
                /\ Answering(Batch(cur.next, Asked.n), IF stays THEN cur.id ELSE 0, FALSE)
  BY DEF ServeMore
<1>2. /\ Fetching /\ Fetching' /\ cursorId' = cursorId /\ total' = total
      /\ Asked.cursor = cursorId /\ cursorId > 0 /\ cursorId \in Nat
      /\ Asked.n \in Nat /\ total \in Nat /\ total <= NDocs
      /\ \A cur \in open : cur.id = cursorId \/ Killed(toServer', cur.id)
      /\ \A cur \in open : cur.id = cursorId => cur.next = total + 1
      /\ Kills(toServer', cursorId) /\ Kills(toServer', 0)
      /\ \A cur \in open : cur.id \in Nat /\ cur.id > 0 /\ cur.next \in 1 .. NDocs + 1
      /\ \A a, b \in open : a.id = b.id => a = b
      /\ timedOut' = timedOut
  BY <1>1, ServeMoreFacts
<1>3. PICK cur \in open :
           /\ cur.id = Asked.cursor
           /\ \E stays \in Stays(cur.next + Len(Batch(cur.next, Asked.n))) :
                /\ open' = (open \ {cur}) \cup
                           (IF stays THEN {[id |-> cur.id, next |-> cur.next + Len(Batch(cur.next, Asked.n))]}
                                     ELSE {})
                /\ Answering(Batch(cur.next, Asked.n), IF stays THEN cur.id ELSE 0, FALSE)
  BY <1>1
<1>4. cur.id = cursorId /\ cur.next = total + 1 /\ cur.next \in 1 .. NDocs + 1
  BY <1>2, <1>3
<1>5. PICK docs : docs = Batch(cur.next, Asked.n)
  OBVIOUS
<1>6. /\ docs \in Docs /\ Len(docs) \in Nat /\ total + Len(docs) <= NDocs
      /\ Len(docs) = 0 => total = NDocs
      /\ \A k \in DOMAIN docs : docs[k] = total + k
  <2>1. /\ docs \in Docs /\ Len(docs) \in 0 .. NDocs - cur.next + 1
        /\ Len(docs) = 0 => cur.next = NDocs + 1
        /\ \A j \in DOMAIN docs : docs[j] = cur.next + j - 1
    BY <1>2, <1>4, <1>5, BatchIs
  <2>2. DOMAIN docs = 1 .. Len(docs) /\ NDocs \in Nat
    BY <2>1, LenProperties, Constants DEF Docs
  <2>3. Len(docs) \in Nat /\ total + Len(docs) <= NDocs /\ (Len(docs) = 0 => total = NDocs)
    BY <1>2, <1>4, <2>1, <2>2
  <2>4. \A k \in DOMAIN docs : docs[k] = total + k
    BY <1>2, <1>4, <2>1, <2>2
  <2> QED BY <2>1, <2>3, <2>4
<1>7. PICK last : last = cur.next + Len(docs)
  OBVIOUS
<1>8. last = total + Len(docs) + 1 /\ last \in Nat
  BY <1>2, <1>4, <1>6, <1>7
<1>9. PICK stays \in Stays(last) :
        /\ open' = (open \ {cur}) \cup (IF stays THEN {[id |-> cur.id, next |-> last]} ELSE {})
        /\ Answering(docs, IF stays THEN cur.id ELSE 0, FALSE)
  BY <1>3, <1>5, <1>7
<1>10. stays \in BOOLEAN /\ (~stays => ~(last <= NDocs))
  <2>1. CASE last <= NDocs
    BY <2>1 DEF Stays
  <2>2. CASE ~(last <= NDocs)
    BY <2>2 DEF Stays
  <2> QED BY <2>1, <2>2
<1>11. PICK cid : cid = IF stays THEN cursorId ELSE 0
  OBVIOUS
<1>12. PICK new : new = [id |-> cursorId, next |-> last]
  OBVIOUS
<1>13. new.id = cursorId /\ new.next = last
  BY <1>12
<1>14. /\ stays => cid = cursorId /\ open' = (open \ {cur}) \cup {new}
       /\ ~stays => cid = 0 /\ open' = open \ {cur}
       /\ Answering(docs, cid, FALSE)
       /\ cid \in Nat /\ (cid = 0 <=> ~stays)
  <2>1. CASE stays
    <3>1. open' = (open \ {cur}) \cup {new} /\ cid = cursorId
      BY <1>4, <1>9, <1>11, <1>12, <2>1
    <3>2. Answering(docs, cursorId, FALSE)
      BY <1>4, <1>9, <2>1
    <3>3. cid \in Nat /\ cid # 0
      BY <1>2, <3>1
    <3>4. Answering(docs, cid, FALSE)
      BY <3>1, <3>2
    <3> QED BY <2>1, <3>1, <3>3, <3>4
  <2>2. CASE ~stays
    <3>1. cid = 0 /\ open' = open \ {cur}
      BY <1>9, <1>11, <2>2
    <3>2. Answering(docs, 0, FALSE)
      BY <1>9, <2>2
    <3>3. cid \in Nat /\ Answering(docs, cid, FALSE)
      BY <3>1, <3>2
    <3> QED BY <2>2, <3>1, <3>3
  <2> QED BY <2>1, <2>2
<1>15. \A c \in open' : (c \in open /\ c.id # cursorId) \/ (c = new /\ stays)
  BY <1>2, <1>4, <1>14
<1>16. stays => new \in open'
  BY <1>14
<1>17. PICK x : x = [op |-> "more", call |-> Asked.call, docs |-> docs, cursor |-> cid, err |-> FALSE]
  OBVIOUS
<1>18. x.op = "more" /\ x.docs = docs /\ x.cursor = cid /\ x.err = FALSE
  BY <1>17
<1>19. Answers(x)'
  <2>1. \A c \in open' : c.id = cid => c.next = total + Len(docs) + 1
    BY <1>2, <1>8, <1>13, <1>14, <1>15
  <2>2. cid = 0 => \A c \in open' : c.id # cursorId
    BY <1>14, <1>15
  <2>3. cid = 0 => Done(total + Len(docs))'
    <3>1. cid = 0 => ~(last <= NDocs)
      BY <1>10, <1>14
    <3>2. NDocs \in Nat
      BY Constants
    <3>3. cid = 0 => total + Len(docs) >= NDocs
      BY <3>1, <3>2, <1>2, <1>6, <1>8
    <3> QED BY <1>2, <3>3 DEF Done
  <2>4. docs = <<>> => total >= NDocs
    <3>1. docs = <<>> => total = NDocs
      BY <1>6, EmptySeq
    <3> QED BY <3>1, Constants
  <2>5. cid > 0 => \E c \in open' : c.id = cid
    BY <1>13, <1>14, <1>16
  <2>6. cid \in {0, cursorId}
    BY <1>10, <1>14
  <2> QED BY <2>1, <2>2, <2>3, <2>4, <2>5, <2>6, <1>2, <1>6, <1>18 DEF Answers
<1>20. \A c \in open' : c.id = cursorId \/ c.id = cid \/ Killed(toServer', c.id)
  BY <1>2, <1>13, <1>15
<1>21. Kills(toServer', cid)
  BY <1>2, <1>10, <1>14
<1>22. Fits("more", docs, cid, FALSE, x)
  BY <1>1, <1>14, <1>17, <1>19, <1>20, <1>21 DEF Fits
<1> QED BY <1>22, AnsweringCalm

LEMMA NoSuchCursorCalm == ASSUME Typed, Calm, NoSuchCursor PROVE Calm'
<1> SUFFICES ASSUME ~disturbed' PROVE OneAtATime' /\ WellOrdered'
  BY DEF Calm
<1>1. /\ Serve("more") /\ Answering(<<>>, 0, FALSE) /\ UNCHANGED <<open, made>>
      /\ \A cur \in open : cur.id # Asked.cursor
  BY DEF NoSuchCursor
<1>2. /\ Fetching /\ Fetching' /\ cursorId' = cursorId /\ total' = total
      /\ Asked.cursor = cursorId /\ cursorId > 0 /\ cursorId \in Nat
      /\ Asked.n \in Nat /\ total \in Nat /\ total <= NDocs
      /\ \A cur \in open : cur.id = cursorId \/ Killed(toServer', cur.id)
      /\ ~timedOut => \E cur \in open : cur.id = cursorId
      /\ Kills(toServer', 0)
      /\ \A cur \in open : cur.id \in Nat /\ cur.id > 0 /\ cur.next \in 1 .. NDocs + 1
      /\ timedOut' = timedOut
  BY <1>1, ServeMoreFacts
<1>3. timedOut'
  BY <1>1, <1>2
<1>4. PICK x : x = [op |-> "more", call |-> Asked.call, docs |-> <<>>, cursor |-> 0, err |-> FALSE]
  OBVIOUS
<1>5. /\ x.op = "more" /\ x.docs = <<>> /\ x.cursor = 0 /\ x.err = FALSE
  BY <1>4
<1>6. Len(x.docs) = 0 /\ (\A k : k \notin DOMAIN x.docs) /\ total + 0 = total
  BY <1>2, <1>5, EmptySeq
<1>7. \A cur \in open' : cur.id # 0 /\ cur.id # cursorId
  BY <1>1, <1>2
<1>8. Answers(x)'
  BY <1>2, <1>3, <1>5, <1>6, <1>7 DEF Answers
<1>9. \A cur \in open' : cur.id = cursorId \/ cur.id = 0 \/ Killed(toServer', cur.id)
  BY <1>1, <1>2
<1>10. Fits("more", <<>>, 0, FALSE, x)
  BY <1>1, <1>2, <1>4, <1>8, <1>9 DEF Fits
<1> QED BY <1>10, AnsweringCalm

LEMMA ServeKillCalm == ASSUME Typed, Calm, ServeKill PROVE Calm'
<1> SUFFICES ASSUME ~disturbed' PROVE OneAtATime' /\ WellOrdered'
  BY DEF Calm
<1>1. /\ Serve("kill") /\ UNCHANGED <<made, toClient>>
      /\ open' = {cur \in open : cur.id # Asked.cursor}
  BY DEF ServeKill
<1>2. /\ ~disturbed /\ OneAtATime /\ WellOrdered /\ up /\ up' /\ timedOut' = timedOut
      /\ UNCHANGED <<limit, batch, state, items, nulled, cursorId, total, closing, asked, answered,
                        given, ended, userClosed, disturbed>>
      /\ Asked.op = "kill" /\ Request(Asked)
      /\ Asked = toServer[1] /\ 1 \in DOMAIN toServer
      /\ \A i \in DOMAIN toServer' : i + 1 \in DOMAIN toServer /\ toServer'[i] = toServer[i + 1]
      /\ \A cid : Killed(toServer, cid) /\ cid # Asked.cursor => Killed(toServer', cid)
  BY <1>1, ServeCalm
<1>3. OneAtATime'
  BY <1>2, OneAnswered
<1>4. Asked.cursor # cursorId /\ \A j \in DOMAIN toClient : toClient[j].cursor # Asked.cursor
  BY <1>2 DEF Request, WellOrdered
<1>5. /\ Wanted' = Wanted /\ \A t : Cut(t)' = Cut(t) /\ Done(t)' = Done(t)
      /\ LimitRequest' = LimitRequest /\ Fetching' = Fetching
  BY <1>2 DEF Wanted, Cut, Done, LimitRequest, Fetching, LimitReached
<1>6. Row' /\ StateOf' /\ EndMeansAll'
  BY <1>2, <1>5 DEF WellOrdered, Row, StateOf, EndMeansAll
<1>7. \A cur \in open' : cur \in open /\ cur.id # Asked.cursor
  BY <1>1
<1>8. \A cur \in open : cur.id # Asked.cursor => cur \in open'
  BY <1>1
<1>9. Behind'
  BY <1>1, <1>2, <1>4, <1>7, <1>8 DEF WellOrdered, Behind
<1>10. NoLeak'
  <2>1. \A cur \in open' : \/ cur.id = cursorId \/ Killed(toServer, cur.id)
                           \/ \E k \in DOMAIN toClient : toClient[k].cursor = cur.id
    BY <1>2, <1>7, NoLeakIs DEF WellOrdered
  <2>2. \A cur \in open' : \/ cur.id = cursorId' \/ Killed(toServer', cur.id)
                           \/ \E k \in DOMAIN toClient' : toClient'[k].cursor = cur.id
    BY <1>1, <1>2, <1>7, <2>1
  <2> QED BY <2>2, NoLeakIs
<1>11. \A i \in DOMAIN toServer' : Request(toServer[i])'
  <2>1. \A i \in DOMAIN toServer' : Request(toServer'[i])
    BY <1>2 DEF WellOrdered
  <2> QED BY <2>1, <1>2, <1>5 DEF Request
<1>12. \A i \in DOMAIN toClient' : Answers(toClient[i])'
  <2> SUFFICES ASSUME NEW i \in DOMAIN toClient PROVE Answers(toClient[i])'
    BY <1>1
  <2>1. PICK r : r = toClient[i]
    OBVIOUS
  <2>2. Answers(r) /\ r.cursor # Asked.cursor
    BY <1>2, <1>4, <2>1 DEF WellOrdered
  <2>3. Done(total + Len(r.docs))' = Done(total + Len(r.docs))
    BY <1>2 DEF Done
  <2>4. Answers(r)'
    BY <2>2, <2>3, <1>2, <1>5, <1>7, <1>8 DEF Answers
  <2> QED BY <2>1, <2>4, <1>1 DEF Answers
<1>13. \A i \in DOMAIN toServer', j \in DOMAIN toClient' :
              toServer'[i].op = "kill" => toServer'[i].cursor # toClient'[j].cursor
  BY <1>1, <1>2 DEF WellOrdered
<1> QED BY <1>3, <1>6, <1>9, <1>10, <1>11, <1>12, <1>13 DEF WellOrdered

LEMMA TimeOutCalm == ASSUME Typed, Calm, TimeOut PROVE Calm'
<1> SUFFICES ASSUME ~disturbed' PROVE OneAtATime' /\ WellOrdered'
  BY DEF Calm
<1>1. /\ UNCHANGED <<limit, batch, state, items, nulled, cursorId, total, closing, asked, answered,
                        given, ended, userClosed, disturbed>>
      /\ UNCHANGED <<up, toServer, toClient>> /\ open' \subseteq open /\ timedOut' = TRUE
  BY DEF TimeOut, client
<1>2. ~disturbed /\ OneAtATime /\ WellOrdered
  BY <1>1 DEF Calm
<1>3. OneAtATime'
  BY <1>1, <1>2, OneAnswered
<1>4. /\ Wanted' = Wanted /\ \A t : Cut(t)' = Cut(t) /\ Done(t)' = Done(t)
      /\ LimitRequest' = LimitRequest /\ Fetching' = Fetching
  BY <1>1 DEF Wanted, Cut, Done, LimitRequest, Fetching, LimitReached
<1>5. Row' /\ EndMeansAll' /\ Behind'
  BY <1>1, <1>2, <1>4 DEF WellOrdered, Row, EndMeansAll, Behind
<1>6. StateOf'
  BY <1>1, <1>2, <1>4 DEF WellOrdered, StateOf
<1>7. NoLeak'
  BY <1>1, <1>2 DEF WellOrdered, NoLeak
<1>8. \A i \in DOMAIN toServer' : Request(toServer[i])'
  BY <1>1, <1>2, <1>4 DEF WellOrdered, Request
<1>9. \A i \in DOMAIN toClient' : Answers(toClient[i])'
  <2> SUFFICES ASSUME NEW i \in DOMAIN toClient PROVE Answers(toClient[i])'
    BY <1>1
  <2>1. PICK r : r = toClient[i]
    OBVIOUS
  <2>2. Answers(r)
    BY <1>2, <2>1 DEF WellOrdered
  <2>3. Answers(r)'
    BY <2>2, <1>1, <1>4 DEF Answers
  <2> QED BY <2>1, <2>3, <1>1 DEF Answers
<1>10. \A i \in DOMAIN toServer', j \in DOMAIN toClient' :
              toServer'[i].op = "kill" => toServer'[i].cursor # toClient'[j].cursor
  BY <1>1, <1>2 DEF WellOrdered
<1> QED BY <1>3, <1>5, <1>6, <1>7, <1>8, <1>9, <1>10 DEF WellOrdered

LEMMA BreakCalm == ASSUME Typed, Calm, Break PROVE Calm'
<1> SUFFICES ASSUME ~disturbed' PROVE OneAtATime' /\ WellOrdered'
  BY DEF Calm
<1>1. /\ UNCHANGED <<limit, batch, state, items, nulled, cursorId, total, closing, asked, answered,
                        given, ended, userClosed, disturbed>>
      /\ UNCHANGED <<open, timedOut>> /\ up' = FALSE
  BY DEF Break, client
<1>2. ~disturbed /\ OneAtATime /\ WellOrdered
  BY <1>1 DEF Calm
<1>3. OneAtATime'
  BY <1>1, <1>2, OneAnswered
<1>4. Wanted' = Wanted /\ \A t : Cut(t)' = Cut(t) /\ Done(t)' = Done(t)
  BY <1>1 DEF Wanted, Cut, Done
<1>5. Row' /\ EndMeansAll' /\ Behind' /\ StateOf'
  BY <1>1, <1>2, <1>4 DEF WellOrdered, Row, EndMeansAll, Behind, StateOf
<1>6. (\A i : i \notin DOMAIN toServer') /\ (\A i : i \notin DOMAIN toClient')
  BY DEF Break
<1>7. NoLeak'
  BY <1>1 DEF NoLeak
<1> QED BY <1>3, <1>5, <1>6, <1>7 DEF WellOrdered

LEMMA StutterCalm == ASSUME Typed, Calm, UNCHANGED vars PROVE Calm'
<1>1. /\ UNCHANGED <<limit, batch, state, items, nulled, cursorId, total, closing, given, ended, userClosed, disturbed>>
      /\ UNCHANGED <<up, open, timedOut, toServer, toClient>> /\ UNCHANGED <<asked, answered>>
  BY DEF vars
<1> QED BY <1>1, OrderStays, OneAnswered DEF Calm

LEMMA NextCalm == ASSUME Typed, Calm, Next PROVE Calm'
<1>1. CASE NextObject BY <1>1, NextObjectCalm
<1>2. CASE \E callback \in BOOLEAN : Close(callback) BY <1>2, CloseCalm
<1>3. CASE Rewind BY <1>3, RewindCalm
<1>4. CASE CloseReturns BY <1>4, CloseReturnsCalm
<1>5. CASE QueryError BY <1>5, QueryErrorCalm
<1>6. CASE QueryReply BY <1>6, QueryReplyCalm
<1>7. CASE MoreReply BY <1>7, MoreReplyCalm
<1>8. CASE NoMoreReply BY <1>8, NoMoreReplyCalm
<1>9. CASE ServeQuery BY <1>9, ServeQueryCalm
<1>10. CASE RefuseQuery BY <1>10, RefuseQueryCalm
<1>11. CASE ServeMore BY <1>11, ServeMoreCalm
<1>12. CASE NoSuchCursor BY <1>12, NoSuchCursorCalm
<1>13. CASE ServeKill BY <1>13, ServeKillCalm
<1>14. CASE TimeOut BY <1>14, TimeOutCalm
<1>15. CASE Break BY <1>15, BreakCalm
<1> QED
  BY <1>1, <1>2, <1>3, <1>4, <1>5, <1>6, <1>7, <1>8, <1>9, <1>10, <1>11, <1>12, <1>13, <1>14, <1>15
  DEF Next, Caller, Data, Server

LEMMA InitCalm == ASSUME Init PROVE Calm
<1>1. /\ state = "INIT" /\ items = <<>> /\ given = <<>> /\ total = 0 /\ cursorId = 0
      /\ toServer = <<>> /\ toClient = <<>> /\ open = {} /\ asked = 0
  BY DEF Init
<1>2. ~nulled /\ ~closing /\ ~ended
  BY DEF Init
<1>3. Len(given) = 0 /\ Len(items) = 0 /\ (\A i : i \notin DOMAIN given /\ i \notin DOMAIN items)
  BY <1>1, EmptySeq
<1>4. Wanted \in Nat
  BY Constants DEF Init, Wanted, Least
<1>5. OneAtATime
  BY <1>1 DEF OneAtATime
<1>6. Row
  BY <1>3, <1>4 DEF Row
<1>7. StateOf
  BY <1>1, <1>2 DEF StateOf
<1>8. Behind /\ EndMeansAll /\ NoLeak
  BY <1>1, <1>2 DEF Behind, EndMeansAll, NoLeak
<1>9. \A i : i \notin DOMAIN toServer /\ i \notin DOMAIN toClient
  BY <1>1
<1> QED BY <1>5, <1>6, <1>7, <1>8, <1>9 DEF Calm, WellOrdered

-----------------------------------------------------------------------------
(* Theorems                                                                *)

\* In every state each message on its way is the one its call waits for, and
\* for a caller of nextObject, close and rewind that makes one call at a time
\* the documents given, the items held, the reply on its way and the cursor on
\* the server make one row, whatever the batches and the limit.
THEOREM Invariance == Spec => []IInv
<1>1. Init => Typed /\ Calm
  BY InitTyped, InitCalm
<1>2. Typed /\ Calm /\ [Next]_vars => Typed' /\ Calm'
  BY NextTyped, NextCalm, StutterTyped, StutterCalm
<1>3. Typed /\ Calm => IInv
  BY TypedIs DEF IInv
<1> QED BY <1>1, <1>2, <1>3, PTL DEF Spec

\* The cursor, the messages and the cursors of the server are what the code
\* takes them for: no callback is run for a call that was not made, no reply
\* names a cursor that the server never created, and items that close() has
\* nulled are not read as a list.
THEOREM CursorTypeCorrect == Spec => []TypeOK
<1>1. IInv => TypeOK
  BY DEF IInv
<1> QED BY <1>1, Invariance, PTL

\* nextObject gives the documents in their order, each once and never more
\* than the limit, to a caller that waits for each answer.
THEOREM DocumentsInOrder == Spec => []InOrder
<1>1. IInv => InOrder
  <2> SUFFICES ASSUME IInv, ~disturbed PROVE Len(given) <= Wanted /\ \A k \in DOMAIN given : given[k] = k
    BY DEF InOrder
  <2>1. Row
    BY DEF IInv, Calm, WellOrdered
  <2>2. items \in Docs /\ given \in Docs /\ CallerTyped /\ total \in Nat
    BY TypedIs DEF IInv, Typed, ClientTyped
  <2>3. Len(items) \in Nat /\ Len(given) \in Nat /\ Wanted \in Nat
    BY <2>2, LenProperties, Numbers DEF Docs
  <2> QED BY <2>1, <2>3 DEF Row
<1> QED BY <1>1, Invariance, PTL

\* nextObject says that there are no more documents when all have been given,
\* up to the limit, unless close() or the server ended the cursor.
THEOREM EndAfterAll == Spec => []EndMeansAll
<1>1. IInv => EndMeansAll
  BY DEF IInv, Calm, WellOrdered, EndMeansAll
<1> QED BY <1>1, Invariance, PTL

\* close() and getMore leave no cursor behind on the server: the client has
\* it, a kill of it is on its way, or a reply that names it.
THEOREM CursorsAreKnown == Spec => []NoLeak
<1>1. IInv => NoLeak
  BY DEF IInv, Calm, WellOrdered, NoLeak
<1> QED BY <1>1, Invariance, PTL

=============================================================================
