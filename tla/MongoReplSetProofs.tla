-------------------------- MODULE MongoReplSetProofs --------------------------
(***************************************************************************)
(* Proofs about MongoReplSet, for every replica set and any number of      *)
(* operations, retries and events.                                         *)
(*                                                                         *)
(* A connect counts servers.  The inductive invariant relates its counters *)
(* to the sockets it has opened: what it has counted has ended its wait,   *)
(* and nothing ends its wait uncounted unless a reply was lost.  So the    *)
(* count is complete once, when the connect waits for no server any more.  *)
(***************************************************************************)
EXTENDS MongoReplSet, FiniteSetTheorems, SequenceTheorems, TLAPS

-----------------------------------------------------------------------------
(* The inductive invariant.  As in MongoReplSet, r, cs and ss stand for the *)
(* object, the connects and the sockets.                                   *)

Objects ==
  [servers : SUBSET Servers, addresses : SUBSET Servers, master : SUBSET Servers,
   live : SUBSET Servers, secondaries : SUBSET Servers, target : Servers \cup {None},
   otherErrors : BOOLEAN, setName : {"none", "set", "otherset"}, latest : [Servers -> Nat]]

Troubles == {"lost", "met", "uncounted", "replaced", "error"}
Losses == {"lost", "replaced"}

ConnectCalls ==
  [owner : Callers, connected : SUBSET Servers, errors : Nat,
   pool : [Servers -> Pools], trouble : SUBSET Troubles]

Typed(r, cs, ss) ==
  /\ r \in Objects
  /\ cs \in Seq(ConnectCalls)
  /\ ss \in Seq([Servers -> Phases]) /\ Len(ss) = Len(cs)
  /\ Seeds \subseteq r.servers
  /\ cs # <<>> => r.addresses = r.servers
  /\ r.master \cup r.live \cup r.secondaries \subseteq r.servers
  /\ r.target \in r.servers \cup {None}

\* The servers that a connect with sockets st waits for, and those it does not
\* wait for any more.
Asking(st) == {s \in Servers : st[s] \in Waiting}
Heard(st) == {s \in Servers : st[s] \notin Waiting \cup {"none"}}
Asked(st) == {s \in Servers : st[s] # "none"}

\* The servers a connect has counted have ended their wait.
Counted(r, cs, ss) ==
  \A c \in DOMAIN cs :
    /\ cs[c].connected \subseteq Heard(ss[c])
    /\ Cardinality(cs[c].connected) + cs[c].errors <= Cardinality(Heard(ss[c]))
    /\ Asked(ss[c]) \subseteq r.servers

\* Two connects that wait have met, and so has one that is not the last.
Meetings(cs, ss) ==
  \A c, e \in DOMAIN cs :
    Asking(ss[c]) # {} /\ c # e /\ (Asking(ss[e]) # {} \/ c < e) => "met" \in cs[c].trouble

NoneMet(cs) == \A c \in DOMAIN cs : "met" \notin cs[c].trouble

\* The target has answered the last connect.
Targeted(r, cs, ss) ==
  r.target # None /\ NoneMet(cs) =>
    /\ r.target \in r.live => r.target \in r.master
    /\ cs # <<>> /\ r.target \in Heard(ss[Len(ss)])

Good(r, cs, ss) ==
  /\ Typed(r, cs, ss)
  /\ Counted(r, cs, ss)
  /\ Meetings(cs, ss)
  /\ Targeted(r, cs, ss)

\* No server has answered for another set, or with an error.
Clean(r, cs) == ~r.otherErrors /\ \A c \in DOMAIN cs : "error" \notin cs[c].trouble

\* A caller has one connect at most that waits, and is answered at most once.
Once(r, cs, ss, op) ==
  Clean(r, cs) =>
    /\ \A o \in Callers :
         /\ op[o].answers <= 1
         /\ op[o].pc \notin {"sent", "error"} => op[o].answers = 0
    /\ \A c \in DOMAIN cs : Asking(ss[c]) # {} => op[cs[c].owner].pc = "connecting"
    /\ \A c, e \in DOMAIN cs :
         c # e /\ Asking(ss[c]) # {} /\ Asking(ss[e]) # {} => cs[c].owner # cs[e].owner

Spared(o, r, cs) ==
  /\ ~r.otherErrors
  /\ \A c \in DOMAIN cs : cs[c].owner = o => cs[c].trouble \cap {"lost", "met", "uncounted", "replaced"} = {}

\* A connect that nothing has disturbed has counted all it does not wait for.
Pending(o, r, cs, ss) ==
  \E c \in DOMAIN cs :
    /\ cs[c].owner = o
    /\ Asking(ss[c]) # {}
    /\ Cardinality(cs[c].connected) + cs[c].errors = Cardinality(Heard(ss[c]))
    /\ Asked(ss[c]) = r.servers

Awaited(r, cs, ss, op) ==
  \A o \in Callers : op[o].pc = "connecting" /\ Spared(o, r, cs) => Pending(o, r, cs, ss)

Databases == [state : {"notConnected", "connected"}, initializing : BOOLEAN]

Operations ==
  [Callers -> [pc : {"none", "wait", "connecting", "queued", "sent", "error"},
               retries : 0 .. Retries, answers : Nat]]

IInv ==
  /\ db \in Databases
  /\ ops \in Operations
  /\ Good(rs, connects, sockets)
  /\ Once(rs, connects, sockets, ops)
  /\ Awaited(rs, connects, sockets, ops)

-----------------------------------------------------------------------------
(* Sets of servers, and sequences                                          *)

LEMMA Constants ==
  /\ IsFiniteSet(Servers) /\ Seeds \subseteq Servers /\ Seeds # {}
  /\ None \notin Servers /\ "open" \notin Ops /\ Retries \in Nat \ {0}
  /\ \A x \in Roles : x \in {"primary", "secondary", "other", "alone", "error"}
  /\ SetName \in {"none", "set"} /\ ReadSecondary \in BOOLEAN /\ MaxEvents \in Nat
BY ReplSetAssumption DEF ReplSetAssumption

LEMMA Sizes ==
  /\ \A S \in SUBSET Servers : Cardinality(S) \in Nat
  /\ \A S, T \in SUBSET Servers :
       S \subseteq T => Cardinality(S) <= Cardinality(T) /\ (Cardinality(S) = Cardinality(T) => S = T)
  /\ \A S \in SUBSET Servers, x \in Servers :
       x \notin S => Cardinality(S \cup {x}) = Cardinality(S) + 1
  /\ Cardinality({}) = 0
<1>1. \A S \in SUBSET Servers : IsFiniteSet(S)
  BY Constants, FS_Subset
<1>2. \A S \in SUBSET Servers : Cardinality(S) \in Nat
  BY <1>1, FS_CardinalityType
<1>3. \A S, T \in SUBSET Servers :
        S \subseteq T => Cardinality(S) <= Cardinality(T) /\ (Cardinality(S) = Cardinality(T) => S = T)
  <2>1. ASSUME NEW S \in SUBSET Servers, NEW T \in SUBSET Servers, S \subseteq T
        PROVE  Cardinality(S) <= Cardinality(T) /\ (Cardinality(S) = Cardinality(T) => S = T)
    <3>1. IsFiniteSet(T) /\ S \in SUBSET T
      BY <1>1, <2>1
    <3>2. QED
      BY <3>1, FS_Subset
  <2>2. QED
    BY <2>1
<1>4. \A S \in SUBSET Servers, x \in Servers :
        x \notin S => Cardinality(S \cup {x}) = Cardinality(S) + 1
  BY <1>1, FS_AddElement
<1>5. QED
  BY <1>2, <1>3, <1>4, FS_EmptySet

\* A sequence whose elements are replaced.
LEMMA SeqLike ==
  ASSUME NEW S, NEW T, NEW s \in Seq(S), NEW Op(_)
  PROVE  LET t == [i \in DOMAIN s |-> Op(i)] IN
         /\ DOMAIN s = 1 .. Len(s) /\ Len(s) \in Nat /\ \A i \in DOMAIN s : s[i] \in S
         /\ DOMAIN t = DOMAIN s
         /\ (\A i \in DOMAIN s : Op(i) \in T) => t \in Seq(T) /\ Len(t) = Len(s)
<1> DEFINE t == [i \in DOMAIN s |-> Op(i)]
           n == Len(s)
<1>1. DOMAIN s = 1 .. n /\ n \in Nat /\ \A i \in DOMAIN s : s[i] \in S
  BY LenProperties, ElementOfSeq
<1>2. DOMAIN t = DOMAIN s
  OBVIOUS
<1>3. ASSUME \A i \in DOMAIN s : Op(i) \in T PROVE t \in Seq(T) /\ Len(t) = n
  <2>1. t \in [1 .. n -> T] /\ n \in Nat
    BY <1>1, <1>3
  <2> HIDE DEF t, n
  <2>2. QED
    BY <2>1
<1>4. QED
  BY <1>1, <1>2, <1>3

\* An element of a sequence is replaced.
LEMMA SeqExcept ==
  ASSUME NEW S, NEW s \in Seq(S), NEW t, NEW k \in DOMAIN s, NEW x \in S, t = [s EXCEPT ![k] = x]
  PROVE  /\ t \in Seq(S) /\ Len(t) = Len(s) /\ DOMAIN t = DOMAIN s
         /\ t[k] = x /\ \A i \in DOMAIN s : i # k => t[i] = s[i]
         /\ DOMAIN s = 1 .. Len(s) /\ Len(s) \in Nat
<1> DEFINE n == Len(s)
<1>1. DOMAIN s = 1 .. n /\ n \in Nat /\ s \in [1 .. n -> S]
  BY LenProperties
<1> HIDE DEF n
<1>2. t \in [1 .. n -> S] /\ DOMAIN t = 1 .. n
  BY <1>1
<1>3. t \in Seq(S) /\ Len(t) = n
  BY <1>1, <1>2
<1>4. QED
  BY <1>1, <1>2, <1>3 DEF n

-----------------------------------------------------------------------------
(* Steps in which connects lose replies and count none                     *)

\* No socket begins to wait, and none opens that was not there.
Fades(ss, tt) ==
  /\ tt \in Seq([Servers -> Phases]) /\ Len(tt) = Len(ss)
  /\ \A c \in DOMAIN ss, s \in Servers :
       /\ tt[c][s] = "none" <=> ss[c][s] = "none"
       /\ tt[c][s] \in Waiting => ss[c][s] \in Waiting

\* The connects are what they were, but for their pools and for lost replies.
Kept(cs, ds) ==
  /\ ds \in Seq(ConnectCalls) /\ Len(ds) = Len(cs)
  /\ \A c \in DOMAIN cs :
       /\ ds[c].owner = cs[c].owner
       /\ ds[c].connected = cs[c].connected
       /\ ds[c].errors = cs[c].errors
       /\ cs[c].trouble \subseteq ds[c].trouble
       /\ ds[c].trouble \subseteq cs[c].trouble \cup Losses

\* A connect that waits for a server no more has lost its reply.
Disturbs(cs, ds, ss, tt) ==
  /\ Kept(cs, ds)
  /\ \A c \in DOMAIN cs, s \in Servers :
       ss[c][s] \in Waiting /\ tt[c][s] \notin Waiting => ds[c].trouble \cap Losses # {}

\* The servers may all be disconnected.
Emptied(r, q) ==
  /\ q \in Objects
  /\ q.servers = r.servers /\ q.addresses = r.addresses
  /\ q.target = r.target /\ q.otherErrors = r.otherErrors
  /\ q.master \cup q.live \cup q.secondaries \subseteq r.servers
  /\ q.live = {} \/ (q.live = r.live /\ q.master = r.master)

Faded(r, cs, ss, q, ds, tt) ==
  Emptied(r, q) /\ Fades(ss, tt) /\ Disturbs(cs, ds, ss, tt)

LEMMA EndedIs ==
  \A phase \in Phases, pool \in Pools : \A s, K :
    /\ Ended(phase, pool, s \in K) \in Phases
    /\ Ended(phase, pool, s \in K) = "none" <=> phase = "none"
    /\ Ended(phase, pool, s \in K) \in Waiting => phase \in Waiting
    /\ phase \in Waiting /\ Ended(phase, pool, s \in K) \notin Waiting
         => Ended(phase, pool, s \in K) = "broken"
<1> SUFFICES ASSUME NEW phase \in Phases, NEW pool \in Pools, NEW s, NEW K
             PROVE  /\ Ended(phase, pool, s \in K) \in Phases
                    /\ Ended(phase, pool, s \in K) = "none" <=> phase = "none"
                    /\ Ended(phase, pool, s \in K) \in Waiting => phase \in Waiting
                    /\ phase \in Waiting /\ Ended(phase, pool, s \in K) \notin Waiting
                         => Ended(phase, pool, s \in K) = "broken"
  OBVIOUS
<1>1. CASE phase \in {"opening", "unopened"} /\ pool # "first"
  <2>1. Ended(phase, pool, s \in K) = phase
    BY <1>1 DEF Ended
  <2>2. QED
    BY <1>1, <2>1 DEF Phases, Waiting
<1>2. CASE ~(phase \in {"opening", "unopened"} /\ pool # "first")
  <2>1. /\ phase = "ready" => Ended(phase, pool, s \in K) = "broken"
        /\ phase \in Waiting /\ s \notin K => Ended(phase, pool, s \in K) = "broken"
        /\ phase = "asked" /\ s \in K => Ended(phase, pool, s \in K) = "ending"
        /\ phase = "opening" /\ s \in K => Ended(phase, pool, s \in K) = "unopened"
        /\ phase \in {"ending", "unopened"} /\ s \in K => Ended(phase, pool, s \in K) = phase
        /\ phase \in {"none", "failed", "broken", "unheard"} => Ended(phase, pool, s \in K) = phase
    BY <1>2, Zenon DEF Ended, Waiting
  <2>2. \/ phase \in {"ready"} \/ phase = "asked" \/ phase = "opening"
        \/ phase \in {"ending", "unopened"} \/ phase \in {"none", "failed", "broken", "unheard"}
    BY DEF Phases
  <2>3. QED
    BY <2>1, <2>2 DEF Phases, Waiting
<1>3. QED
  BY <1>1, <1>2

\* A socket that ends its wait is broken.
Breaks(ss, tt) ==
  \A c \in DOMAIN ss, s \in Servers : ss[c][s] \in Waiting /\ tt[c][s] \notin Waiting => tt[c][s] = "broken"

LEMMA ClosedFades ==
  ASSUME NEW r, NEW ss \in Seq([Servers -> Phases]), NEW K, NEW cs \in Seq(ConnectCalls), DOMAIN cs = DOMAIN ss
  PROVE  Fades(ss, Closed(r, cs, ss, K)) /\ Breaks(ss, Closed(r, cs, ss, K))
<1> DEFINE Socket(c, s) == IF r.latest[s] = c THEN Ended(ss[c][s], cs[c].pool[s], s \in K) ELSE ss[c][s]
           Row(c) == [s \in Servers |-> Socket(c, s)]
           tt == Closed(r, cs, ss, K)
<1>1. \A c \in DOMAIN ss, s \in Servers : ss[c][s] \in Phases /\ cs[c].pool[s] \in Pools
  <2>1. \A c \in DOMAIN ss, s \in Servers : ss[c][s] \in Phases
    BY ElementOfSeq, LenProperties
  <2>2. \A c \in DOMAIN cs : cs[c] \in ConnectCalls
    BY ElementOfSeq, LenProperties
  <2>3. QED
    BY <2>1, <2>2 DEF ConnectCalls
<1>2. \A c \in DOMAIN ss, s \in Servers :
        /\ Socket(c, s) \in Phases
        /\ Socket(c, s) = "none" <=> ss[c][s] = "none"
        /\ Socket(c, s) \in Waiting => ss[c][s] \in Waiting
        /\ ss[c][s] \in Waiting /\ Socket(c, s) \notin Waiting => Socket(c, s) = "broken"
  <2>1. SUFFICES ASSUME NEW c \in DOMAIN ss, NEW s \in Servers
                 PROVE  /\ Socket(c, s) \in Phases
                        /\ Socket(c, s) = "none" <=> ss[c][s] = "none"
                        /\ Socket(c, s) \in Waiting => ss[c][s] \in Waiting
                        /\ ss[c][s] \in Waiting /\ Socket(c, s) \notin Waiting => Socket(c, s) = "broken"
    OBVIOUS
  <2>2. ss[c][s] \in Phases /\ cs[c].pool[s] \in Pools
    BY <1>1
  <2>3. CASE r.latest[s] = c
    <3>1. Socket(c, s) = Ended(ss[c][s], cs[c].pool[s], s \in K)
      BY <2>3
    <3>2. QED
      BY <2>2, <3>1, EndedIs, SMTT(60)
  <2>4. CASE r.latest[s] # c
    BY <2>2, <2>4
  <2>5. QED
    BY <2>3, <2>4
<1>3. tt = [c \in DOMAIN ss |-> Row(c)]
  BY DEF Closed
<1> HIDE DEF tt, Socket
<1>4. \A c \in DOMAIN ss : Row(c) \in [Servers -> Phases]
  BY <1>2
<1>5. tt \in Seq([Servers -> Phases]) /\ Len(tt) = Len(ss)
  <2> DEFINE PP == [Servers -> Phases]
  <2> HIDE DEF Row, PP
  <2>1. [c \in DOMAIN ss |-> Row(c)] \in Seq(PP) /\ Len([c \in DOMAIN ss |-> Row(c)]) = Len(ss)
    BY <1>4, SeqLike DEF PP
  <2>2. QED
    BY <1>3, <2>1 DEF PP
<1>6. \A c \in DOMAIN ss, s \in Servers : tt[c][s] = Socket(c, s)
  BY <1>3
<1>7. Fades(ss, tt) /\ Breaks(ss, tt)
  BY <1>2, <1>5, <1>6 DEF Fades, Breaks
<1>8. QED
  BY <1>7 DEF tt

LEMMA LosingDisturbs ==
  ASSUME NEW cs \in Seq(ConnectCalls), NEW ss, NEW tt, Len(ss) = Len(cs), DOMAIN ss = DOMAIN cs,
         Breaks(ss, tt)
  PROVE  Disturbs(cs, Losing(cs, ss, tt), ss, tt)
<1> DEFINE Lost(c) == \E s \in Servers : ss[c][s] \in Waiting /\ tt[c][s] = "broken"
           Call1(c) == IF Lost(c) THEN [cs[c] EXCEPT !.trouble = @ \cup {"lost"}] ELSE cs[c]
           ds == Losing(cs, ss, tt)
<1>1. \A c \in DOMAIN cs : cs[c] \in ConnectCalls
  BY ElementOfSeq, LenProperties
<1>2. \A c \in DOMAIN cs : \A s \in Servers : ss[c][s] \in Waiting /\ tt[c][s] \notin Waiting => Lost(c)
  BY DEF Breaks
<1>3. ds = [c \in DOMAIN cs |-> Call1(c)]
  BY DEF Losing
<1> HIDE DEF ds, Lost
<1>4. \A c \in DOMAIN cs :
        /\ Call1(c) \in ConnectCalls
        /\ Call1(c).owner = cs[c].owner
        /\ Call1(c).connected = cs[c].connected
        /\ Call1(c).errors = cs[c].errors
        /\ cs[c].trouble \subseteq Call1(c).trouble
        /\ Call1(c).trouble \subseteq cs[c].trouble \cup Losses
        /\ Lost(c) => "lost" \in Call1(c).trouble
  BY <1>1 DEF ConnectCalls, Troubles, Losses
<1> HIDE DEF Call1
<1>5. ds \in Seq(ConnectCalls) /\ Len(ds) = Len(cs)
  <2> DEFINE CC == ConnectCalls
  <2> HIDE DEF CC
  <2>1. [c \in DOMAIN cs |-> Call1(c)] \in Seq(CC) /\ Len([c \in DOMAIN cs |-> Call1(c)]) = Len(cs)
    BY <1>4, SeqLike DEF CC
  <2>2. QED
    BY <1>3, <2>1 DEF CC
<1>6. \A c \in DOMAIN cs : ds[c] = Call1(c)
  BY <1>3
<1>7. Disturbs(cs, ds, ss, tt)
  BY <1>2, <1>4, <1>5, <1>6 DEF Disturbs, Kept, Losses
<1>8. QED
  BY <1>7 DEF ds

LEMMA KeptIn ==
  ASSUME NEW cs \in Seq(ConnectCalls), NEW bs, NEW ds, NEW ss, NEW tt
  PROVE  /\ Kept(cs, cs)
         /\ Kept(cs, bs) => bs \in Seq(ConnectCalls) /\ DOMAIN bs = DOMAIN cs /\ Len(bs) = Len(cs)
         /\ Kept(cs, bs) /\ Kept(bs, ds) => Kept(cs, ds)
         /\ Kept(cs, bs) /\ Disturbs(bs, ds, ss, tt) => Disturbs(cs, ds, ss, tt)
         /\ Disturbs(cs, bs, ss, tt) /\ Kept(bs, ds) => Disturbs(cs, ds, ss, tt)
<1>1. ASSUME Kept(cs, bs) PROVE bs \in Seq(ConnectCalls) /\ DOMAIN bs = DOMAIN cs /\ Len(bs) = Len(cs)
  <2>1. bs \in Seq(ConnectCalls) /\ Len(bs) = Len(cs)
    BY <1>1 DEF Kept
  <2>2. DOMAIN bs = 1 .. Len(bs) /\ DOMAIN cs = 1 .. Len(cs)
    BY <2>1, LenProperties
  <2>3. QED
    BY <2>1, <2>2
<1>2. Kept(cs, bs) /\ Kept(bs, ds) => Kept(cs, ds)
  BY <1>1 DEF Kept
<1>3. Kept(cs, bs) /\ Disturbs(bs, ds, ss, tt) => Disturbs(cs, ds, ss, tt)
  BY <1>1, <1>2 DEF Disturbs
<1>4. Disturbs(cs, bs, ss, tt) /\ Kept(bs, ds) => Disturbs(cs, ds, ss, tt)
  <2>1. SUFFICES ASSUME Disturbs(cs, bs, ss, tt), Kept(bs, ds) PROVE Disturbs(cs, ds, ss, tt)
    OBVIOUS
  <2>2. Kept(cs, bs) /\ Kept(cs, ds) /\ DOMAIN bs = DOMAIN cs
    BY <1>1, <1>2, <2>1 DEF Disturbs
  <2>3. \A c \in DOMAIN cs : bs[c].trouble \subseteq ds[c].trouble
    BY <2>1, <2>2 DEF Kept
  <2>4. QED
    BY <2>1, <2>2, <2>3 DEF Disturbs
<1>5. Kept(cs, cs)
  BY DEF Kept
<1>6. QED
  BY <1>1, <1>2, <1>3, <1>4, <1>5

\* One connect changes its pools, or loses a reply.
LEMMA CallKept ==
  ASSUME NEW cs \in Seq(ConnectCalls), NEW c \in DOMAIN cs, NEW x \in ConnectCalls,
         x.owner = cs[c].owner, x.connected = cs[c].connected, x.errors = cs[c].errors,
         cs[c].trouble \subseteq x.trouble, x.trouble \subseteq cs[c].trouble \cup Losses,
         NEW ds, ds = [cs EXCEPT ![c] = x]
  PROVE  Kept(cs, ds) /\ ds[c] = x
<1> DEFINE CC == ConnectCalls
<1> HIDE DEF CC
<1>1. /\ ds \in Seq(CC) /\ Len(ds) = Len(cs) /\ DOMAIN ds = DOMAIN cs
      /\ ds[c] = x /\ \A i \in DOMAIN cs : i # c => ds[i] = cs[i]
  <2>1. cs \in Seq(CC) /\ x \in CC
    BY DEF CC
  <2>2. QED
    BY <2>1, SeqExcept
<1>2. QED
  BY <1>1 DEF Kept, CC

LEMMA HungKept ==
  ASSUME NEW cs \in Seq(ConnectCalls), NEW r
  PROVE  Kept(cs, Hung(r, cs))
<1> DEFINE pools(c) == [s \in Servers |-> IF r.latest[s] = c /\ cs[c].pool[s] # "first" THEN "gone" ELSE cs[c].pool[s]]
           Call1(c) == [cs[c] EXCEPT !.pool = pools(c)]
           ds == Hung(r, cs)
<1>1. \A c \in DOMAIN cs : cs[c] \in ConnectCalls
  BY ElementOfSeq, LenProperties
<1>2. ds = [c \in DOMAIN cs |-> Call1(c)]
  BY DEF Hung
<1>3. \A c \in DOMAIN cs : pools(c) \in [Servers -> Pools]
  BY <1>1 DEF ConnectCalls, Pools
<1> HIDE DEF pools, ds
<1>4. \A c \in DOMAIN cs :
        /\ Call1(c) \in ConnectCalls
        /\ Call1(c).owner = cs[c].owner
        /\ Call1(c).connected = cs[c].connected
        /\ Call1(c).errors = cs[c].errors
        /\ Call1(c).trouble = cs[c].trouble
  BY <1>1, <1>3 DEF ConnectCalls
<1> HIDE DEF Call1
<1>5. ds \in Seq(ConnectCalls) /\ Len(ds) = Len(cs)
  <2> DEFINE CC == ConnectCalls
  <2> HIDE DEF CC
  <2>1. [c \in DOMAIN cs |-> Call1(c)] \in Seq(CC) /\ Len([c \in DOMAIN cs |-> Call1(c)]) = Len(cs)
    BY <1>4, SeqLike DEF CC
  <2>2. QED
    BY <1>2, <2>1 DEF CC
<1>6. \A c \in DOMAIN cs : ds[c] = Call1(c)
  BY <1>2
<1>7. Kept(cs, ds)
  BY <1>4, <1>5, <1>6 DEF Kept
<1>8. QED
  BY <1>7 DEF ds

\* What the types say of single connects and sockets.
LEMMA Shape ==
  ASSUME NEW r, NEW cs, NEW ss, Typed(r, cs, ss)
  PROVE  /\ DOMAIN cs = 1 .. Len(cs) /\ DOMAIN ss = 1 .. Len(cs) /\ Len(cs) \in Nat /\ Len(ss) = Len(cs)
         /\ \A c \in DOMAIN cs :
              /\ cs[c].owner \in Callers /\ cs[c].connected \subseteq Servers
              /\ cs[c].errors \in Nat /\ cs[c].trouble \subseteq Troubles
              /\ cs[c].pool \in [Servers -> Pools]
         /\ \A c \in DOMAIN ss : ss[c] \in [Servers -> Phases]
<1>1. cs \in Seq(ConnectCalls) /\ ss \in Seq([Servers -> Phases]) /\ Len(ss) = Len(cs)
  BY DEF Typed
<1>2. DOMAIN cs = 1 .. Len(cs) /\ DOMAIN ss = 1 .. Len(ss) /\ Len(cs) \in Nat
  BY <1>1, LenProperties
<1>3. \A c \in DOMAIN cs : cs[c] \in ConnectCalls
  BY <1>1, <1>2, ElementOfSeq
<1>4. \A c \in DOMAIN ss : ss[c] \in [Servers -> Phases]
  <2> DEFINE PP == [Servers -> Phases]
  <2> HIDE DEF PP
  <2>1. ss \in Seq(PP)
    BY <1>1 DEF PP
  <2>2. \A c \in DOMAIN ss : ss[c] \in PP
    BY <2>1, <1>2, ElementOfSeq
  <2>3. QED
    BY <2>2 DEF PP
<1>5. QED
  BY <1>1, <1>2, <1>3, <1>4 DEF ConnectCalls

\* The sets of servers of a connect when its sockets fade.
LEMMA SetsFade ==
  ASSUME NEW ss, NEW tt, Fades(ss, tt), NEW c \in DOMAIN ss
  PROVE  /\ Asking(tt[c]) \subseteq Asking(ss[c])
         /\ Heard(ss[c]) \subseteq Heard(tt[c])
         /\ Asked(tt[c]) = Asked(ss[c])
         /\ Asking(tt[c]) = Asking(ss[c]) => Heard(tt[c]) = Heard(ss[c])
BY DEF Fades, Asking, Heard, Asked

LEMMA TypedFaded ==
  ASSUME NEW r, NEW cs, NEW ss, NEW q, NEW ds, NEW tt, Typed(r, cs, ss), Faded(r, cs, ss, q, ds, tt)
  PROVE  Typed(q, ds, tt)
<1>1. /\ q \in Objects /\ q.servers = r.servers /\ q.addresses = r.addresses /\ q.target = r.target
      /\ q.master \cup q.live \cup q.secondaries \subseteq r.servers
  BY DEF Faded, Emptied
<1>2. tt \in Seq([Servers -> Phases]) /\ Len(tt) = Len(ss) /\ ds \in Seq(ConnectCalls) /\ Len(ds) = Len(cs)
  BY DEF Faded, Fades, Disturbs, Kept
<1>3. Len(ss) = Len(cs) /\ (cs # <<>> => r.addresses = r.servers) /\ Seeds \subseteq r.servers
      /\ r.target \in r.servers \cup {None} /\ cs \in Seq(ConnectCalls)
  BY DEF Typed
<1>4. ds # <<>> => cs # <<>>
  BY <1>2, <1>3, EmptySeq
<1>5. QED
  BY <1>1, <1>2, <1>3, <1>4 DEF Typed

LEMMA GoodFaded ==
  ASSUME NEW r, NEW cs, NEW ss, NEW q, NEW ds, NEW tt, Good(r, cs, ss), Faded(r, cs, ss, q, ds, tt)
  PROVE  Good(q, ds, tt)
<1>1. Typed(r, cs, ss) /\ Typed(q, ds, tt)
  BY TypedFaded DEF Good
<1>2. /\ DOMAIN cs = 1 .. Len(cs) /\ DOMAIN ss = 1 .. Len(cs) /\ Len(cs) \in Nat /\ Len(ss) = Len(cs)
      /\ DOMAIN ds = 1 .. Len(cs) /\ DOMAIN tt = 1 .. Len(cs) /\ Len(tt) = Len(cs) /\ Len(ds) = Len(cs)
  <2>1. Len(ds) = Len(cs)
    BY DEF Faded, Disturbs, Kept
  <2>2. QED
    BY <1>1, <2>1, Shape
<1>3. Fades(ss, tt) /\ Disturbs(cs, ds, ss, tt) /\ Emptied(r, q)
  BY DEF Faded
<1>4. \A c \in DOMAIN ss :
         /\ Asking(tt[c]) \subseteq Asking(ss[c])
         /\ Heard(ss[c]) \subseteq Heard(tt[c])
         /\ Asked(tt[c]) = Asked(ss[c])
  BY <1>3, SetsFade
<1>5. Counted(q, ds, tt)
  <2>1. SUFFICES ASSUME NEW c \in DOMAIN ds
                 PROVE  /\ ds[c].connected \subseteq Heard(tt[c])
                        /\ Cardinality(ds[c].connected) + ds[c].errors <= Cardinality(Heard(tt[c]))
                        /\ Asked(tt[c]) \subseteq q.servers
    BY DEF Counted
  <2>2. c \in DOMAIN cs /\ c \in DOMAIN ss
    BY <1>2
  <2>3. /\ cs[c].connected \subseteq Heard(ss[c])
        /\ Cardinality(cs[c].connected) + cs[c].errors <= Cardinality(Heard(ss[c]))
        /\ Asked(ss[c]) \subseteq r.servers
    BY <2>2 DEF Good, Counted
  <2>4. ds[c].connected = cs[c].connected /\ ds[c].errors = cs[c].errors /\ q.servers = r.servers
    BY <1>3, <2>2 DEF Disturbs, Kept, Emptied
  <2>5. Cardinality(Heard(ss[c])) <= Cardinality(Heard(tt[c]))
        /\ Cardinality(Heard(ss[c])) \in Nat /\ Cardinality(Heard(tt[c])) \in Nat
    <3>1. Heard(ss[c]) \in SUBSET Servers /\ Heard(tt[c]) \in SUBSET Servers
      BY DEF Heard
    <3>2. QED
      BY <1>4, <2>2, <3>1, Sizes
  <2>6. Cardinality(cs[c].connected) \in Nat /\ cs[c].errors \in Nat
    BY <1>1, <2>2, Shape, Sizes
  <2>7. Cardinality(ds[c].connected) + ds[c].errors <= Cardinality(Heard(tt[c]))
    BY <2>3, <2>4, <2>5, <2>6
  <2>8. ds[c].connected \subseteq Heard(tt[c]) /\ Asked(tt[c]) \subseteq q.servers
    BY <1>4, <2>2, <2>3, <2>4
  <2>9. QED
    BY <2>7, <2>8
<1>6. \A c \in DOMAIN cs : cs[c].trouble \subseteq ds[c].trouble
  BY <1>3 DEF Disturbs, Kept
<1>7. Meetings(ds, tt)
  BY <1>2, <1>4, <1>6 DEF Good, Meetings
<1>8. Targeted(q, ds, tt)
  <2>1. SUFFICES ASSUME q.target # None, NoneMet(ds)
                 PROVE  (q.target \in q.live => q.target \in q.master)
                        /\ ds # <<>> /\ q.target \in Heard(tt[Len(tt)])
    BY DEF Targeted
  <2>2. r.target # None /\ NoneMet(cs) /\ q.target = r.target
    BY <1>2, <1>3, <1>6, <2>1 DEF NoneMet, Emptied
  <2>3. (r.target \in r.live => r.target \in r.master) /\ cs # <<>> /\ r.target \in Heard(ss[Len(ss)])
    BY <2>2 DEF Good, Targeted
  <2>4. q.target \in q.live => q.target \in q.master
    BY <1>3, <2>2, <2>3 DEF Emptied
  <2>5. cs \in Seq(ConnectCalls) /\ ds \in Seq(ConnectCalls)
    BY <1>1 DEF Typed
  <2>6. Len(cs) # 0 /\ ds # <<>>
    BY <1>2, <2>3, <2>5, EmptySeq
  <2>7. Len(ss) \in DOMAIN ss /\ Len(tt) = Len(ss)
    BY <1>2, <2>6
  <2>8. QED
    BY <1>4, <2>2, <2>3, <2>4, <2>6, <2>7
<1>9. QED
  BY <1>1, <1>5, <1>7, <1>8 DEF Good

LEMMA OwnersFaded ==
  ASSUME NEW r, NEW cs, NEW ss, NEW q, NEW ds, NEW tt, NEW op,
         Good(r, cs, ss), Faded(r, cs, ss, q, ds, tt)
  PROVE  /\ Once(r, cs, ss, op) => Once(q, ds, tt, op)
         /\ Awaited(r, cs, ss, op) => Awaited(q, ds, tt, op)
<1>1. Typed(r, cs, ss)
  BY DEF Good
<1>2. Fades(ss, tt) /\ Disturbs(cs, ds, ss, tt) /\ Emptied(r, q)
  BY DEF Faded
<1>3. DOMAIN ss = DOMAIN cs /\ DOMAIN ds = DOMAIN cs
  <2>1. Typed(q, ds, tt)
    BY TypedFaded, <1>1
  <2>2. Len(ds) = Len(cs)
    BY <1>2 DEF Disturbs, Kept
  <2>3. QED
    BY <1>1, <2>1, <2>2, Shape
<1>4. \A c \in DOMAIN cs :
        /\ cs[c].trouble \subseteq ds[c].trouble /\ ds[c].owner = cs[c].owner
        /\ ds[c].connected = cs[c].connected /\ ds[c].errors = cs[c].errors
        /\ \A s \in Servers : ss[c][s] \in Waiting /\ tt[c][s] \notin Waiting => ds[c].trouble \cap Losses # {}
  BY <1>2 DEF Disturbs, Kept
<1>5. q.servers = r.servers /\ q.otherErrors = r.otherErrors
  BY <1>2 DEF Emptied
<1>6. \A c \in DOMAIN cs :
         /\ Asking(tt[c]) \subseteq Asking(ss[c])
         /\ Asked(tt[c]) = Asked(ss[c])
         /\ Asking(tt[c]) = Asking(ss[c]) => Heard(tt[c]) = Heard(ss[c])
  BY <1>2, <1>3, SetsFade
<1>7. Clean(q, ds) => Clean(r, cs)
  BY <1>3, <1>4, <1>5 DEF Clean
<1>8. ASSUME Once(r, cs, ss, op) PROVE Once(q, ds, tt, op)
  BY <1>3, <1>4, <1>6, <1>7, <1>8, ZenonT(60) DEF Once
<1>9. ASSUME Awaited(r, cs, ss, op) PROVE Awaited(q, ds, tt, op)
  <2>1. SUFFICES ASSUME NEW o \in Callers, op[o].pc = "connecting", Spared(o, q, ds)
                 PROVE  Pending(o, q, ds, tt)
    BY DEF Awaited
  <2>2. Spared(o, r, cs)
    BY <1>3, <1>4, <1>5, <2>1 DEF Spared
  <2>3. PICK c \in DOMAIN cs :
          /\ cs[c].owner = o
          /\ Asking(ss[c]) # {}
          /\ Cardinality(cs[c].connected) + cs[c].errors = Cardinality(Heard(ss[c]))
          /\ Asked(ss[c]) = r.servers
    BY <1>9, <2>1, <2>2 DEF Awaited, Pending
  <2>4. ds[c].trouble \cap Losses = {}
    BY <1>3, <1>4, <2>1, <2>3 DEF Spared, Losses
  <2>5. Asking(tt[c]) = Asking(ss[c])
    BY <1>4, <1>6, <2>4 DEF Asking
  <2>6. c \in DOMAIN ds /\ ds[c].owner = o /\ Asking(tt[c]) # {} /\ Asked(tt[c]) = q.servers
        /\ Cardinality(ds[c].connected) + ds[c].errors = Cardinality(Heard(tt[c]))
    BY <1>3, <1>4, <1>5, <1>6, <2>3, <2>5
  <2>7. QED
    BY <2>6 DEF Pending
<1>10. QED
  BY <1>8, <1>9

-----------------------------------------------------------------------------
(* Callers that are called back                                            *)

\* Caller o is answered, or waits for its operation or its next connect.
Called(o, op, oq) ==
  /\ oq \in Operations
  /\ \A p \in Callers : p # o => oq[p] = op[p]
  /\ \/ oq[o].pc \in {"sent", "error"} /\ oq[o].answers = op[o].answers + 1
     \/ oq[o].pc \in {"queued", "wait"} /\ oq[o].answers = op[o].answers

\* No connect of o waits, and o has not been answered.
Idle(o, r, cs, ss, op) ==
  Clean(r, cs) =>
    /\ op[o].pc \notin {"sent", "error"}
    /\ \A c \in DOMAIN cs : Asking(ss[c]) # {} => cs[c].owner # o

AwaitedBy(O, r, cs, ss, op) ==
  \A o \in O : op[o].pc = "connecting" /\ Spared(o, r, cs) => Pending(o, r, cs, ss)

LEMMA OwnersCalled ==
  ASSUME NEW r, NEW cs, NEW ss, NEW op \in Operations, NEW oq, NEW o \in Callers,
         Typed(r, cs, ss), Called(o, op, oq)
  PROVE  /\ Once(r, cs, ss, op) /\ Idle(o, r, cs, ss, op) => Once(r, cs, ss, oq)
         /\ AwaitedBy(Callers \ {o}, r, cs, ss, op) => Awaited(r, cs, ss, oq)
<1>1. \A c \in DOMAIN cs : cs[c].owner \in Callers
  BY Shape
<1>2. ASSUME Once(r, cs, ss, op), Idle(o, r, cs, ss, op), Clean(r, cs)
      PROVE  /\ \A p \in Callers :
                  /\ oq[p].answers <= 1
                  /\ oq[p].pc \notin {"sent", "error"} => oq[p].answers = 0
             /\ \A c \in DOMAIN cs : Asking(ss[c]) # {} => oq[cs[c].owner].pc = "connecting"
             /\ \A c, e \in DOMAIN cs :
                  c # e /\ Asking(ss[c]) # {} /\ Asking(ss[e]) # {} => cs[c].owner # cs[e].owner
  <2>1. op[o].answers = 0 /\ \A c \in DOMAIN cs : Asking(ss[c]) # {} => cs[c].owner # o
    BY <1>2 DEF Once, Idle
  <2>2. oq[o].answers <= 1 /\ (oq[o].pc \notin {"sent", "error"} => oq[o].answers = 0)
    BY <2>1 DEF Called
  <2>3. \A p \in Callers : /\ oq[p].answers <= 1
                           /\ oq[p].pc \notin {"sent", "error"} => oq[p].answers = 0
    BY <1>2, <2>2 DEF Once, Called
  <2>4. \A c \in DOMAIN cs : Asking(ss[c]) # {} => oq[cs[c].owner].pc = "connecting"
    BY <1>1, <1>2, <2>1 DEF Once, Called
  <2>5. QED
    BY <1>2, <2>3, <2>4 DEF Once
<1>3. ASSUME AwaitedBy(Callers \ {o}, r, cs, ss, op) PROVE Awaited(r, cs, ss, oq)
  BY <1>3 DEF AwaitedBy, Awaited, Called
<1>4. Once(r, cs, ss, op) /\ Idle(o, r, cs, ss, op) => Once(r, cs, ss, oq)
  BY <1>2 DEF Once
<1>5. QED
  BY <1>3, <1>4

-----------------------------------------------------------------------------
(* What the operators of MongoReplSet do                                   *)

\* One socket changes; it does not begin to wait.
Changed(ss, c, s, phase) == [ss EXCEPT ![c][s] = phase]

Fading(old, phase) ==
  phase \in Phases /\ (phase = "none" <=> old = "none") /\ (phase \in Waiting => old \in Waiting)

LEMMA SocketFades ==
  ASSUME NEW ss \in Seq([Servers -> Phases]), NEW c \in DOMAIN ss, NEW s \in Servers, NEW phase,
         Fading(ss[c][s], phase)
  PROVE  /\ Fades(ss, Changed(ss, c, s, phase))
         /\ \A e \in DOMAIN ss, x \in Servers :
              Changed(ss, c, s, phase)[e][x] = IF e = c /\ x = s THEN phase ELSE ss[e][x]
<1> DEFINE PP == [Servers -> Phases]
           row == [ss[c] EXCEPT ![s] = phase]
           tt == [ss EXCEPT ![c] = row]
<1>1. ss[c] \in PP /\ phase \in Phases
  <2>1. phase \in Phases
    BY DEF Fading
  <2> HIDE DEF PP
  <2>2. ss \in Seq(PP)
    BY DEF PP
  <2>3. QED
    BY <2>1, <2>2, ElementOfSeq, LenProperties
<1>2. row \in PP /\ \A x \in Servers : row[x] = IF x = s THEN phase ELSE ss[c][x]
  BY <1>1
<1> HIDE DEF row
<1>3. /\ tt \in Seq(PP) /\ Len(tt) = Len(ss) /\ DOMAIN tt = DOMAIN ss
      /\ tt[c] = row /\ \A i \in DOMAIN ss : i # c => tt[i] = ss[i]
  <2>1. ss \in Seq(PP) /\ row \in PP /\ tt = [ss EXCEPT ![c] = row]
    BY <1>2
  <2> HIDE DEF PP, tt
  <2>2. QED
    BY <2>1, SeqExcept
<1>4. tt = Changed(ss, c, s, phase)
  BY DEF row, Changed
<1> HIDE DEF tt
<1>5. \A e \in DOMAIN ss, x \in Servers : tt[e][x] = IF e = c /\ x = s THEN phase ELSE ss[e][x]
  BY <1>2, <1>3
<1>6. Fades(ss, tt)
  BY <1>3, <1>5 DEF Fades, Fading
<1>7. QED
  BY <1>4, <1>5, <1>6

\* No connect stops to wait.
LEMMA Undisturbed ==
  ASSUME NEW cs \in Seq(ConnectCalls), NEW ss, NEW tt,
         \A c \in DOMAIN cs, s \in Servers : ss[c][s] \in Waiting => tt[c][s] \in Waiting
  PROVE  Disturbs(cs, cs, ss, tt)
BY DEF Disturbs, Kept

LEMMA FadedSame ==
  ASSUME NEW r, NEW cs, NEW ss, Typed(r, cs, ss)
  PROVE  Faded(r, cs, ss, r, cs, ss)
<1>1. cs \in Seq(ConnectCalls) /\ ss \in Seq([Servers -> Phases]) /\ Emptied(r, r)
  BY DEF Typed, Emptied
<1>2. Fades(ss, ss)
  BY <1>1 DEF Fades
<1>3. QED
  BY <1>1, <1>2, Undisturbed DEF Faded

\* A connection gets another pool.
LEMMA ReplacedFaded ==
  ASSUME NEW r, NEW cs, NEW ss, Typed(r, cs, ss), NEW k, NEW p \in Servers
  PROVE  Faded(r, cs, ss, r, Replaced(cs, ss, k, p),
               [ss EXCEPT ![k][p] = IF @ = "ending" THEN "unheard" ELSE @])
<1>1. /\ cs \in Seq(ConnectCalls) /\ ss \in Seq([Servers -> Phases]) /\ Emptied(r, r)
      /\ DOMAIN cs = DOMAIN ss /\ \A c \in DOMAIN ss : ss[c] \in [Servers -> Phases]
  BY Shape DEF Typed, Emptied
<1>2. CASE k \in DOMAIN cs
  <2> DEFINE phase == IF ss[k][p] = "ending" THEN "unheard" ELSE ss[k][p]
             tt == Changed(ss, k, p, phase)
             pool == [cs[k].pool EXCEPT ![p] = "opening"]
             T == IF ss[k][p] = "ending" THEN cs[k].trouble \cup {"replaced"} ELSE cs[k].trouble
             ds == Replaced(cs, ss, k, p)
  <2>1. [ss EXCEPT ![k][p] = IF @ = "ending" THEN "unheard" ELSE @] = tt
    BY DEF Changed
  <2>2. ss[k][p] \in Phases
    BY <1>1, <1>2
  <2>3. Fading(ss[k][p], phase) /\ (ss[k][p] # "ending" /\ ss[k][p] \in Waiting => phase \in Waiting)
    BY <2>2 DEF Phases, Waiting, Fading
  <2>4. pool \in [Servers -> Pools]
    <3>1. cs[k] \in ConnectCalls
      BY <1>1, <1>2, ElementOfSeq, LenProperties
    <3>2. QED
      BY <3>1 DEF ConnectCalls, Pools
  <2> DEFINE x == [cs[k] EXCEPT !.pool = pool, !.trouble = T]
  <2>5. ds = [cs EXCEPT ![k] = x]
    BY DEF Replaced
  <2>6. cs[k].trouble \subseteq T /\ T \subseteq cs[k].trouble \cup {"replaced"} /\ cs[k] \in ConnectCalls
    BY <1>1, <1>2, ElementOfSeq, LenProperties
  <2> HIDE DEF pool, T
  <2>7. /\ x \in ConnectCalls /\ x.owner = cs[k].owner /\ x.connected = cs[k].connected
        /\ x.errors = cs[k].errors /\ x.trouble = T
        /\ cs[k].trouble \subseteq x.trouble /\ x.trouble \subseteq cs[k].trouble \cup Losses
    BY <2>4, <2>6 DEF ConnectCalls, Troubles, Losses
  <2> HIDE DEF x, ds
  <2>8. Kept(cs, ds) /\ ds[k].trouble = T
    BY <1>1, <1>2, <2>5, <2>7, CallKept
  <2>9. ss[k][p] = "ending" => "replaced" \in ds[k].trouble
    BY <2>8 DEF T
  <2> HIDE DEF phase
  <2>10. Fades(ss, tt) /\ \A e \in DOMAIN ss, s \in Servers :
                              tt[e][s] = IF e = k /\ s = p THEN phase ELSE ss[e][s]
    BY <1>1, <1>2, <2>3, SocketFades
  <2> HIDE DEF tt
  <2>11. \A c \in DOMAIN cs, s \in Servers :
           ss[c][s] \in Waiting /\ tt[c][s] \notin Waiting => ds[c].trouble \cap Losses # {}
    BY <1>1, <2>3, <2>9, <2>10 DEF Losses
  <2>12. Faded(r, cs, ss, r, ds, tt)
    BY <1>1, <2>8, <2>10, <2>11 DEF Faded, Disturbs
  <2>13. QED
    BY <2>1, <2>12 DEF ds
<1>3. CASE k \notin DOMAIN cs
  <2>1. Replaced(cs, ss, k, p) = cs
    BY <1>1, <1>3 DEF Replaced
  <2>2. [ss EXCEPT ![k][p] = IF @ = "ending" THEN "unheard" ELSE @] = ss
    BY <1>1, <1>3
  <2>3. QED
    BY <2>1, <2>2, FadedSame
<1>4. QED
  BY <1>2, <1>3

LEMMA AnsweredCalls ==
  ASSUME ops \in Operations, NEW o \in Callers, NEW p \in {"sent", "error"}
  PROVE  Called(o, ops, Answered(o, p))
<1> DEFINE one == [ops[o] EXCEPT !.pc = p, !.answers = @ + 1]
           oq == Answered(o, p)
<1>1. oq = [ops EXCEPT ![o] = one]
  BY DEF Answered, Operations
<1> DEFINE Kinds == {"none", "wait", "connecting", "queued", "sent", "error"}
           Lives == 0 .. Retries
<1>2. /\ one.pc = p /\ one.answers = ops[o].answers + 1
      /\ one \in [pc : Kinds, retries : Lives, answers : Nat]
  <2>1. ops[o] \in [pc : Kinds, retries : Lives, answers : Nat]
    BY DEF Operations
  <2>2. p \in Kinds
    OBVIOUS
  <2> HIDE DEF Kinds, Lives
  <2>3. ops[o].answers + 1 \in Nat
    BY <2>1
  <2> DEFINE a == ops[o].answers + 1
  <2>4. one = [[ops[o] EXCEPT !.pc = p] EXCEPT !.answers = a]
    BY <2>1
  <2> HIDE DEF a
  <2>5. a \in Nat
    BY <2>3 DEF a
  <2>6. one.pc = p /\ one.answers = a /\ one \in [pc : Kinds, retries : Lives, answers : Nat]
    BY <2>1, <2>2, <2>4, <2>5
  <2>7. QED
    BY <2>6 DEF a
<1> HIDE DEF one, oq
<1>3. oq[o] = one /\ (\A x \in Callers : x # o => oq[x] = ops[x]) /\ oq \in Operations
  BY <1>1, <1>2 DEF Operations
<1>4. Called(o, ops, oq)
  BY <1>2, <1>3 DEF Called
<1>5. QED
  BY <1>4 DEF oq

LEMMA WaitingCalls ==
  ASSUME ops \in Operations, NEW o \in Callers, NEW left \in 0 .. Retries
  PROVE  /\ Called(o, ops, [ops EXCEPT ![o].pc = "wait", ![o].retries = left])
         /\ Called(o, ops, [ops EXCEPT ![o].pc = "wait"])
         /\ Called(o, ops, [ops EXCEPT ![o].pc = "queued"])
BY DEF Called, Operations

LEMMA PrimaryIs ==
  ASSUME NEW r \in Objects
  PROVE  Primary(r) \subseteq Servers
BY DEF Primary, Objects

LEMMA ClosedDisturbs ==
  ASSUME NEW r, NEW cs \in Seq(ConnectCalls), NEW ss, NEW tt, Len(ss) = Len(cs), DOMAIN ss = DOMAIN cs,
         Breaks(ss, tt)
  PROVE  Disturbs(cs, Losing(Hung(r, cs), ss, tt), ss, tt)
<1> DEFINE bs == Hung(r, cs)
<1>1. Kept(cs, bs)
  BY HungKept
<1> HIDE DEF bs
<1>2. bs \in Seq(ConnectCalls) /\ DOMAIN bs = DOMAIN cs /\ Len(bs) = Len(cs)
  BY <1>1, KeptIn
<1>3. Disturbs(bs, Losing(bs, ss, tt), ss, tt)
  BY <1>2, LosingDisturbs
<1>4. Disturbs(cs, Losing(bs, ss, tt), ss, tt)
  BY <1>1, <1>3, KeptIn
<1>5. QED
  BY <1>4 DEF bs

LEMMA DispatchIs ==
  ASSUME ops \in Operations, NEW o \in Callers, NEW r, NEW d, NEW cs, NEW ss,
         Typed(r, cs, ss), Dispatch(o, r, d, cs, ss)
  PROVE  db' = d /\ Faded(r, cs, ss, rs', connects', sockets') /\ Called(o, ops, ops')
<1>1. Faded(r, cs, ss, r, cs, ss)
  BY FadedSame
<1>2. r \in Objects /\ cs \in Seq(ConnectCalls) /\ ss \in Seq([Servers -> Phases]) /\ Len(ss) = Len(cs)
      /\ DOMAIN ss = DOMAIN cs
  BY Shape DEF Typed
<1>3. CASE Primary(r) = {} /\ ops' = Answered(o, "error") /\ Set(r, d, cs, ss)
  BY <1>1, <1>3, AnsweredCalls DEF Set
<1>4. ASSUME NEW p \in Primary(r), Writable(p, r, cs, ss), ops' = Answered(o, "sent"), Set(r, d, cs, ss)
      PROVE  db' = d /\ Faded(r, cs, ss, rs', connects', sockets') /\ Called(o, ops, ops')
  BY <1>1, <1>4, AnsweredCalls DEF Set
<1>5. ASSUME NEW p \in Primary(r), ops' = Answered(o, "error"), NEW K \in SUBSET Undecided(r, ss),
             Set([r EXCEPT !.master = {}, !.live = {}, !.secondaries = {}],
                 d, Losing(Hung(r, cs), ss, Closed(r, cs, ss, K)), Closed(r, cs, ss, K))
      PROVE  db' = d /\ Faded(r, cs, ss, rs', connects', sockets') /\ Called(o, ops, ops')
  <2>1. Fades(ss, Closed(r, cs, ss, K)) /\ Breaks(ss, Closed(r, cs, ss, K))
    BY <1>2, ClosedFades
  <2>2. Disturbs(cs, Losing(Hung(r, cs), ss, Closed(r, cs, ss, K)), ss, Closed(r, cs, ss, K))
    BY <1>2, <2>1, ClosedDisturbs
  <2>3. Emptied(r, [r EXCEPT !.master = {}, !.live = {}, !.secondaries = {}])
    BY <1>2 DEF Emptied, Objects
  <2>4. Faded(r, cs, ss, rs', connects', sockets') /\ db' = d
    BY <1>5, <2>1, <2>2, <2>3 DEF Faded, Set
  <2>5. QED
    BY <1>5, <2>4, AnsweredCalls
<1>6. ASSUME NEW p \in Primary(r), ops' = [ops EXCEPT ![o].pc = "queued"],
             \/ Set(r, d, Replaced(cs, ss, r.latest[p], p),
                    [ss EXCEPT ![r.latest[p]][p] = IF @ = "ending" THEN "unheard" ELSE @])
             \/ Set(r, d, cs, ss)
      PROVE  db' = d /\ Faded(r, cs, ss, rs', connects', sockets') /\ Called(o, ops, ops')
  <2>1. p \in Servers
    BY <1>2, PrimaryIs
  <2>2. Faded(r, cs, ss, rs', connects', sockets') /\ db' = d
    BY <1>1, <1>6, <2>1, ReplacedFaded DEF Set
  <2>3. 0 \in 0 .. Retries
    BY Constants
  <2>4. QED
    BY <1>6, <2>2, <2>3, WaitingCalls
<1>7. QED
  BY <1>3, <1>4, <1>5, <1>6 DEF Dispatch

LEMMA CallbackIs ==
  ASSUME ops \in Operations, NEW o \in Callers, NEW ok, NEW r, NEW d \in Databases, NEW cs, NEW ss,
         Typed(r, cs, ss), Callback(o, ok, r, d, cs, ss)
  PROVE  db' \in Databases /\ Faded(r, cs, ss, rs', connects', sockets') /\ Called(o, ops, ops')
<1> DEFINE di == [d EXCEPT !.initializing = TRUE]
           left == ops[o].retries - 1
<1>1. Faded(r, cs, ss, r, cs, ss)
  BY FadedSame
<1>2. di \in Databases
  BY DEF Databases
<1> HIDE DEF di
<1>3. CASE ops' = Answered(o, IF ok THEN "sent" ELSE "error") /\ Set(r, d, cs, ss)
  <2>1. (IF ok THEN "sent" ELSE "error") \in {"sent", "error"}
    OBVIOUS
  <2>2. Called(o, ops, ops')
    BY <1>3, <2>1, AnsweredCalls
  <2>3. QED
    BY <1>1, <1>3, <2>2 DEF Set
<1>4. CASE Dispatch(o, r, di, cs, ss)
  BY <1>2, <1>4, DispatchIs
<1>5. CASE /\ ops' = IF left > 0 THEN [ops EXCEPT ![o].pc = "wait", ![o].retries = left]
                      ELSE Answered(o, "error")
           /\ Set(r, di, cs, ss)
  <2>1. Called(o, ops, ops')
    <3>1. CASE left > 0
      <4>1. left \in 0 .. Retries
        <5>1. ops[o].retries \in 0 .. Retries
          BY DEF Operations
        <5>2. QED
          BY <3>1, <5>1, Constants
      <4>2. ops' = [ops EXCEPT ![o].pc = "wait", ![o].retries = left]
        BY <1>5, <3>1
      <4> HIDE DEF left
      <4>3. QED
        BY <4>1, <4>2, WaitingCalls
    <3>2. CASE ~(left > 0)
      BY <1>5, <3>2, AnsweredCalls
    <3>3. QED
      BY <3>1, <3>2
  <2>2. QED
    BY <1>1, <1>2, <1>5, <2>1 DEF Set
<1>6. QED
  BY <1>3, <1>4, <1>5, Zenon DEF Callback, di, left

-----------------------------------------------------------------------------
(* Steps in which a connect hears of a server                              *)

\* The connect counts server s: its reply or its error.
CountsOne(s, call, called) ==
  \/ called.connected = call.connected \cup {s} /\ called.errors = call.errors
  \/ called.connected = call.connected /\ called.errors = call.errors + 1

CountsNone(call, called) ==
  called.connected = call.connected /\ called.errors = call.errors

Count(call) == Cardinality(call.connected) + call.errors

\* The socket of s in connect c ends its wait; the sockets of the servers that
\* are new begin one.
HearsSockets(c, s, new, ss, tt) ==
  /\ tt \in Seq([Servers -> Phases]) /\ Len(tt) = Len(ss)
  /\ \A e \in DOMAIN ss : e # c => tt[e] = ss[e]
  /\ tt[c][s] \notin Waiting \cup {"none"}
  /\ \A x \in Servers \ {s} : tt[c][x] = IF x \in new THEN "opening" ELSE ss[c][x]

HearsCalls(c, s, cs, q, ds) ==
  /\ ds \in Seq(ConnectCalls) /\ Len(ds) = Len(cs)
  /\ \A e \in DOMAIN cs : e # c => ds[e] = cs[e]
  /\ ds[c].owner = cs[c].owner /\ cs[c].trouble \subseteq ds[c].trouble
  /\ "met" \in ds[c].trouble => "met" \in cs[c].trouble
  /\ \/ CountsOne(s, cs[c], ds[c])
     \/ CountsNone(cs[c], ds[c]) /\ ("uncounted" \in ds[c].trouble \/ q.otherErrors)

HearsObject(s, new, r, q) ==
  /\ q \in Objects
  /\ q.servers = r.servers \cup new /\ q.addresses = r.addresses \cup new
  /\ r.otherErrors => q.otherErrors
  /\ q.master \cup q.live \cup q.secondaries \subseteq q.servers
  /\ \/ /\ q.target = r.target
        /\ \A x \in Servers \ {s} : (x \in q.live <=> x \in r.live) /\ (x \in q.master <=> x \in r.master)
     \/ q.target = s /\ s \in q.master

Hears(c, s, new, r, cs, ss, q, ds, tt) ==
  /\ c \in DOMAIN ss /\ s \in Asking(ss[c])
  /\ new \subseteq Servers /\ new \cap r.servers = {}
  /\ HearsSockets(c, s, new, ss, tt)
  /\ HearsCalls(c, s, cs, q, ds)
  /\ HearsObject(s, new, r, q)

LEMMA HearsSets ==
  ASSUME NEW r, NEW cs, NEW ss, NEW q, NEW ds, NEW tt, NEW c, NEW s, NEW new,
         Good(r, cs, ss), Hears(c, s, new, r, cs, ss, q, ds, tt)
  PROVE  /\ c \in DOMAIN cs /\ s \in Servers /\ s \in r.servers
         /\ s \notin Heard(ss[c]) /\ Heard(tt[c]) = Heard(ss[c]) \cup {s}
         /\ Cardinality(Heard(tt[c])) = Cardinality(Heard(ss[c])) + 1
         /\ Cardinality(Heard(ss[c])) \in Nat
         /\ Asked(tt[c]) = Asked(ss[c]) \cup new
         /\ Heard(tt[c]) \subseteq Asked(tt[c]) /\ (Heard(tt[c]) = Asked(tt[c]) => Asking(tt[c]) = {})
         /\ cs[c].connected \subseteq Heard(ss[c])
<1>1. Typed(r, cs, ss) /\ Counted(r, cs, ss)
  BY DEF Good
<1>2. c \in DOMAIN cs /\ c \in DOMAIN ss /\ s \in Servers /\ s \in Asking(ss[c]) /\ new \cap r.servers = {}
      /\ new \subseteq Servers
  BY <1>1, Shape DEF Hears, Asking
<1>3. /\ tt[c][s] \notin Waiting \cup {"none"}
      /\ \A x \in Servers \ {s} : tt[c][x] = IF x \in new THEN "opening" ELSE ss[c][x]
  BY DEF Hears, HearsSockets
<1>4. Asked(ss[c]) \subseteq r.servers /\ cs[c].connected \subseteq Heard(ss[c])
  BY <1>1, <1>2 DEF Counted
<1>5. s \in Asked(ss[c]) /\ s \notin Heard(ss[c])
  BY <1>2 DEF Asking, Asked, Heard, Waiting
<1>6. s \in r.servers /\ s \notin new
  BY <1>2, <1>4, <1>5
<1>7. \A x \in new : ss[c][x] = "none" /\ tt[c][x] = "opening"
  BY <1>2, <1>3, <1>4, <1>6 DEF Asked
<1>8. Heard(tt[c]) = Heard(ss[c]) \cup {s}
  BY <1>2, <1>3, <1>7 DEF Heard, Waiting
<1>9. Asked(tt[c]) = Asked(ss[c]) \cup new
  BY <1>2, <1>3, <1>5, <1>7 DEF Asked, Waiting
<1>10. Heard(tt[c]) \subseteq Asked(tt[c]) /\ (Heard(tt[c]) = Asked(tt[c]) => Asking(tt[c]) = {})
  BY DEF Heard, Asked, Asking, Waiting
<1>11. Cardinality(Heard(tt[c])) = Cardinality(Heard(ss[c])) + 1 /\ Cardinality(Heard(ss[c])) \in Nat
  <2>1. Heard(ss[c]) \in SUBSET Servers
    BY DEF Heard
  <2>2. QED
    BY <1>2, <1>5, <1>8, <2>1, Sizes
<1>12. QED
  BY <1>2, <1>4, <1>5, <1>6, <1>8, <1>9, <1>10, <1>11

\* What a connect has counted, before and after.
LEMMA HearsCount ==
  ASSUME NEW r, NEW cs, NEW ss, NEW q, NEW ds, NEW tt, NEW c, NEW s, NEW new,
         Good(r, cs, ss), Hears(c, s, new, r, cs, ss, q, ds, tt)
  PROVE  /\ Count(cs[c]) \in Nat /\ Count(ds[c]) \in Nat
         /\ ds[c].connected \subseteq Heard(tt[c])
         /\ CountsOne(s, cs[c], ds[c]) => Count(ds[c]) = Count(cs[c]) + 1
         /\ Count(ds[c]) <= Cardinality(Heard(tt[c]))
<1>1. /\ c \in DOMAIN cs /\ s \in Servers
      /\ s \notin Heard(ss[c]) /\ Heard(tt[c]) = Heard(ss[c]) \cup {s}
      /\ Cardinality(Heard(tt[c])) = Cardinality(Heard(ss[c])) + 1
      /\ Cardinality(Heard(ss[c])) \in Nat
      /\ cs[c].connected \subseteq Heard(ss[c])
  BY HearsSets
<1>2. Cardinality(cs[c].connected) + cs[c].errors <= Cardinality(Heard(ss[c]))
  BY <1>1 DEF Good, Counted
<1>3. cs[c].connected \in SUBSET Servers /\ cs[c].errors \in Nat
  BY <1>1, Shape DEF Good
<1>4. Cardinality(cs[c].connected) \in Nat
      /\ Cardinality(cs[c].connected \cup {s}) = Cardinality(cs[c].connected) + 1
  BY <1>1, <1>3, Sizes
<1>5. CASE CountsOne(s, cs[c], ds[c])
  <2>1. CASE ds[c].connected = cs[c].connected \cup {s} /\ ds[c].errors = cs[c].errors
    <3>1. Count(ds[c]) = Cardinality(cs[c].connected) + 1 + cs[c].errors
      BY <1>4, <2>1 DEF Count
    <3>2. Count(ds[c]) = Count(cs[c]) + 1 /\ Count(cs[c]) \in Nat
      BY <1>3, <1>4, <3>1 DEF Count
    <3>3. QED
      BY <1>1, <1>2, <2>1, <3>2 DEF Count
  <2>2. CASE ds[c].connected = cs[c].connected /\ ds[c].errors = cs[c].errors + 1
    <3>1. Count(ds[c]) = Count(cs[c]) + 1 /\ Count(cs[c]) \in Nat
      BY <1>3, <1>4, <2>2 DEF Count
    <3>2. QED
      BY <1>1, <1>2, <2>2, <3>1 DEF Count
  <2>3. QED
    BY <1>5, <2>1, <2>2 DEF CountsOne
<1>6. CASE ~CountsOne(s, cs[c], ds[c]) /\ CountsNone(cs[c], ds[c])
  BY <1>1, <1>2, <1>3, <1>4, <1>6 DEF CountsNone, Count
<1>7. CountsOne(s, cs[c], ds[c]) \/ CountsNone(cs[c], ds[c])
  BY DEF Hears, HearsCalls
<1>8. QED
  BY <1>5, <1>6, <1>7

LEMMA GoodHears ==
  ASSUME NEW r, NEW cs, NEW ss, NEW q, NEW ds, NEW tt, NEW c, NEW s, NEW new,
         Good(r, cs, ss), Hears(c, s, new, r, cs, ss, q, ds, tt)
  PROVE  Good(q, ds, tt)
<1>1. Typed(r, cs, ss) /\ Counted(r, cs, ss) /\ Meetings(cs, ss) /\ Targeted(r, cs, ss)
  BY DEF Good
<1>2. HearsSockets(c, s, new, ss, tt) /\ HearsCalls(c, s, cs, q, ds) /\ HearsObject(s, new, r, q)
      /\ c \in DOMAIN ss /\ s \in Asking(ss[c])
  BY DEF Hears
<1>3. /\ c \in DOMAIN cs /\ s \in Servers /\ s \in r.servers
      /\ s \notin Heard(ss[c]) /\ Heard(tt[c]) = Heard(ss[c]) \cup {s}
      /\ Asked(tt[c]) = Asked(ss[c]) \cup new
  BY HearsSets
<1>4. Typed(q, ds, tt)
  <2>1. q \in Objects /\ ds \in Seq(ConnectCalls) /\ tt \in Seq([Servers -> Phases])
        /\ Len(tt) = Len(ss) /\ Len(ds) = Len(cs)
    BY <1>2 DEF HearsSockets, HearsCalls, HearsObject
  <2>2. Len(ss) = Len(cs) /\ Seeds \subseteq r.servers /\ (cs # <<>> => r.addresses = r.servers)
        /\ r.target \in r.servers \cup {None}
    BY <1>1 DEF Typed
  <2>3. cs # <<>>
    BY <1>3
  <2>4. q.addresses = q.servers /\ Seeds \subseteq q.servers /\ q.target \in q.servers \cup {None}
        /\ q.master \cup q.live \cup q.secondaries \subseteq q.servers
    BY <1>2, <1>3, <2>2, <2>3 DEF HearsObject
  <2>5. QED
    BY <2>1, <2>2, <2>4 DEF Typed
<1>5. /\ DOMAIN cs = 1 .. Len(cs) /\ DOMAIN ss = 1 .. Len(cs) /\ Len(cs) \in Nat /\ Len(ss) = Len(cs)
      /\ DOMAIN ds = 1 .. Len(cs) /\ DOMAIN tt = 1 .. Len(cs) /\ Len(tt) = Len(cs) /\ Len(ds) = Len(cs)
  <2>1. Len(ds) = Len(cs)
    BY <1>2 DEF HearsCalls
  <2>2. QED
    BY <1>1, <1>4, <2>1, Shape
<1>6. \A e \in DOMAIN cs : e # c => tt[e] = ss[e] /\ ds[e] = cs[e]
  BY <1>2, <1>5 DEF HearsSockets, HearsCalls
<1>7. Counted(q, ds, tt)
  <2>1. SUFFICES ASSUME NEW e \in DOMAIN ds
                 PROVE  /\ ds[e].connected \subseteq Heard(tt[e])
                        /\ Cardinality(ds[e].connected) + ds[e].errors <= Cardinality(Heard(tt[e]))
                        /\ Asked(tt[e]) \subseteq q.servers
    BY DEF Counted
  <2>2. e \in DOMAIN cs /\ r.servers \subseteq q.servers /\ q.servers = r.servers \cup new
    BY <1>2, <1>5 DEF HearsObject
  <2>3. CASE e = c
    <3>1. ds[c].connected \subseteq Heard(tt[c]) /\ Count(ds[c]) <= Cardinality(Heard(tt[c]))
      BY HearsCount
    <3>2. Asked(tt[c]) \subseteq q.servers
      BY <1>1, <1>3, <2>2 DEF Counted
    <3>3. QED
      BY <2>3, <3>1, <3>2 DEF Count
  <2>4. CASE e # c
    BY <1>1, <1>6, <2>2, <2>4 DEF Counted
  <2>5. QED
    BY <2>3, <2>4
<1>8. \A e \in DOMAIN cs : /\ Asking(tt[e]) # {} => Asking(ss[e]) # {}
                           /\ "met" \in cs[e].trouble <=> "met" \in ds[e].trouble
  <2>1. Asking(ss[c]) # {} /\ ("met" \in cs[c].trouble <=> "met" \in ds[c].trouble)
    BY <1>2 DEF HearsCalls
  <2>2. QED
    BY <1>6, <2>1
<1>9. Meetings(ds, tt)
  BY <1>1, <1>5, <1>8 DEF Meetings
<1>10. Targeted(q, ds, tt)
  <2>1. SUFFICES ASSUME q.target # None, NoneMet(ds)
                 PROVE  (q.target \in q.live => q.target \in q.master)
                        /\ ds # <<>> /\ q.target \in Heard(tt[Len(tt)])
    BY DEF Targeted
  <2>2. NoneMet(cs)
    BY <1>5, <1>8, <2>1 DEF NoneMet
  <2>3. c = Len(tt) /\ c = Len(ss)
    <3>1. ASSUME c < Len(cs) PROVE FALSE
      <4>1. Len(cs) \in DOMAIN cs
        BY <1>3, <1>5
      <4>2. "met" \in cs[c].trouble
        BY <1>1, <1>2, <1>3, <1>5, <3>1, <4>1 DEF Meetings
      <4>3. QED
        BY <1>3, <2>2, <4>2 DEF NoneMet
    <3>2. c \in 1 .. Len(cs) /\ Len(cs) \in Nat
      BY <1>3, <1>5
    <3>3. c = Len(cs)
      BY <3>1, <3>2
    <3>4. QED
      BY <1>5, <3>3
  <2>4. ds # <<>>
    BY <1>3, <1>5
  <2>5. CASE q.target = s /\ s \in q.master
    BY <1>3, <2>3, <2>4, <2>5
  <2>6. CASE /\ q.target = r.target
             /\ \A x \in Servers \ {s} :
                  (x \in q.live <=> x \in r.live) /\ (x \in q.master <=> x \in r.master)
    <3>1. (r.target \in r.live => r.target \in r.master) /\ r.target \in Heard(ss[c])
      BY <1>1, <2>1, <2>2, <2>3, <2>6 DEF Targeted
    <3>2. r.target \in Servers \ {s}
      BY <1>3, <3>1 DEF Heard
    <3>3. q.target \in q.live => q.target \in q.master
      BY <2>6, <3>1, <3>2
    <3>4. q.target \in Heard(tt[c])
      BY <1>3, <2>6, <3>1
    <3>5. QED
      BY <2>3, <2>4, <3>3, <3>4
  <2>7. QED
    BY <1>2, <2>5, <2>6 DEF HearsObject
<1>11. QED
  BY <1>4, <1>7, <1>9, <1>10 DEF Good

\* A connect that waits has met every other that waits: nobody else waits
\* undisturbed.
LEMMA OthersMet ==
  ASSUME NEW r, NEW cs, NEW ss, NEW op, NEW c \in DOMAIN cs, NEW o \in Callers,
         Good(r, cs, ss), Awaited(r, cs, ss, op), Asking(ss[c]) # {},
         op[o].pc = "connecting", Spared(o, r, cs)
  PROVE  /\ o = cs[c].owner
         /\ Cardinality(cs[c].connected) + cs[c].errors = Cardinality(Heard(ss[c]))
         /\ Asked(ss[c]) = r.servers
<1>1. op[o].pc = "connecting" /\ Spared(o, r, cs)
  OBVIOUS
<1>2. PICK e \in DOMAIN cs :
        /\ cs[e].owner = o
        /\ Asking(ss[e]) # {}
        /\ Cardinality(cs[e].connected) + cs[e].errors = Cardinality(Heard(ss[e]))
        /\ Asked(ss[e]) = r.servers
  BY <1>1 DEF Awaited, Pending
<1>3. "met" \notin cs[e].trouble
  BY <1>1, <1>2 DEF Spared
<1>4. e = c
  BY <1>2, <1>3 DEF Good, Meetings
<1>5. QED
  BY <1>2, <1>4

LEMMA OwnersHears ==
  ASSUME NEW r, NEW cs, NEW ss, NEW q, NEW ds, NEW tt, NEW c, NEW s, NEW new, NEW op,
         Good(r, cs, ss), Hears(c, s, new, r, cs, ss, q, ds, tt),
         Once(r, cs, ss, op), Awaited(r, cs, ss, op)
  PROVE  /\ Once(q, ds, tt, op)
         /\ AwaitedBy(Callers \ {cs[c].owner}, q, ds, tt, op)
         /\ Count(ds[c]) < Cardinality(q.servers) \/ CountsNone(cs[c], ds[c]) => Awaited(q, ds, tt, op)
         /\ (Clean(q, ds) => Count(ds[c]) >= Cardinality(q.servers)) => Idle(cs[c].owner, q, ds, tt, op)
<1>1. Typed(r, cs, ss) /\ Counted(r, cs, ss) /\ Typed(q, ds, tt) /\ Counted(q, ds, tt)
  BY GoodHears DEF Good
<1>2. HearsSockets(c, s, new, ss, tt) /\ HearsCalls(c, s, cs, q, ds) /\ HearsObject(s, new, r, q)
      /\ c \in DOMAIN ss /\ s \in Asking(ss[c])
  BY DEF Hears
<1>3. /\ c \in DOMAIN cs /\ s \in Servers
      /\ Cardinality(Heard(tt[c])) = Cardinality(Heard(ss[c])) + 1
      /\ Cardinality(Heard(ss[c])) \in Nat
      /\ Asked(tt[c]) = Asked(ss[c]) \cup new
      /\ Heard(tt[c]) \subseteq Asked(tt[c]) /\ (Heard(tt[c]) = Asked(tt[c]) => Asking(tt[c]) = {})
  BY HearsSets
<1>4. DOMAIN ds = DOMAIN cs /\ DOMAIN ss = DOMAIN cs /\ DOMAIN tt = DOMAIN cs
  <2>1. Len(ds) = Len(cs)
    BY <1>2 DEF HearsCalls
  <2>2. QED
    BY <1>1, <2>1, Shape
<1>5. \A e \in DOMAIN cs : e # c => tt[e] = ss[e] /\ ds[e] = cs[e]
  BY <1>2, <1>4 DEF HearsSockets, HearsCalls
<1>6. ds[c].owner = cs[c].owner /\ cs[c].trouble \subseteq ds[c].trouble /\ Asking(ss[c]) # {}
  BY <1>2 DEF HearsCalls
<1>7. \A e \in DOMAIN cs : /\ Asking(tt[e]) # {} => Asking(ss[e]) # {}
                           /\ cs[e].trouble \subseteq ds[e].trouble /\ ds[e].owner = cs[e].owner
  BY <1>5, <1>6
<1>8. (Clean(q, ds) => Clean(r, cs)) /\ \A o \in Callers : Spared(o, q, ds) => Spared(o, r, cs)
  <2>1. r.otherErrors => q.otherErrors
    BY <1>2 DEF HearsObject
  <2>2. QED
    BY <1>4, <1>7, <2>1 DEF Clean, Spared
<1>9. Once(q, ds, tt, op)
  BY <1>4, <1>7, <1>8 DEF Once
<1>10. \A o \in Callers : op[o].pc = "connecting" /\ Spared(o, q, ds) =>
         /\ o = cs[c].owner
         /\ Cardinality(cs[c].connected) + cs[c].errors = Cardinality(Heard(ss[c]))
         /\ Asked(ss[c]) = r.servers
  <2>1. SUFFICES ASSUME NEW o \in Callers, op[o].pc = "connecting", Spared(o, q, ds)
                 PROVE  /\ o = cs[c].owner
                        /\ Cardinality(cs[c].connected) + cs[c].errors = Cardinality(Heard(ss[c]))
                        /\ Asked(ss[c]) = r.servers
    OBVIOUS
  <2>2. Good(r, cs, ss) /\ Awaited(r, cs, ss, op) /\ Spared(o, r, cs) /\ op[o].pc = "connecting"
    BY <1>8, <2>1
  <2>3. c \in DOMAIN cs /\ Asking(ss[c]) # {}
    BY <1>3, <1>6
  <2>4. QED
    BY <2>2, <2>3, OthersMet
<1>11. AwaitedBy(Callers \ {cs[c].owner}, q, ds, tt, op)
  BY <1>10 DEF AwaitedBy
<1>12. Count(ds[c]) \in Nat /\ Count(ds[c]) <= Cardinality(Heard(tt[c]))
       /\ (CountsOne(s, cs[c], ds[c]) => Count(ds[c]) = Count(cs[c]) + 1)
  BY HearsCount
<1>13. Heard(tt[c]) \subseteq q.servers /\ Asked(tt[c]) \subseteq q.servers
       /\ Heard(tt[c]) \in SUBSET Servers /\ q.servers \in SUBSET Servers
  BY <1>1, <1>3, <1>4 DEF Counted, Typed, Objects, Heard
<1>14. ASSUME Count(ds[c]) < Cardinality(q.servers) \/ CountsNone(cs[c], ds[c])
       PROVE  Awaited(q, ds, tt, op)
  <2>1. SUFFICES ASSUME NEW o \in Callers, op[o].pc = "connecting", Spared(o, q, ds)
                 PROVE  Pending(o, q, ds, tt)
    BY DEF Awaited
  <2>2. o = cs[c].owner /\ Count(cs[c]) = Cardinality(Heard(ss[c])) /\ Asked(ss[c]) = r.servers
    BY <1>10, <2>1 DEF Count
  <2>3. CountsOne(s, cs[c], ds[c])
    <3>1. "uncounted" \notin ds[c].trouble /\ ~q.otherErrors
      BY <1>3, <1>4, <1>6, <2>1, <2>2 DEF Spared
    <3>2. QED
      BY <1>2, <3>1 DEF HearsCalls
  <2>4. Count(ds[c]) = Cardinality(Heard(tt[c]))
    BY <1>3, <1>12, <2>2, <2>3
  <2>5. Asked(tt[c]) = q.servers
    BY <1>2, <1>3, <2>2 DEF HearsObject
  <2>6. ~CountsNone(cs[c], ds[c])
    <3>1. ASSUME CountsNone(cs[c], ds[c]) PROVE FALSE
      <4>1. Count(ds[c]) = Count(cs[c])
        BY <3>1 DEF CountsNone, Count
      <4>2. Count(ds[c]) = Count(cs[c]) + 1 /\ Count(cs[c]) \in Nat
        BY <1>3, <1>12, <2>2, <2>3
      <4>3. QED
        BY <4>1, <4>2
    <3>2. QED
      BY <3>1
  <2>7. Asking(tt[c]) # {}
    <3>1. Cardinality(Heard(tt[c])) # Cardinality(q.servers)
      BY <1>12, <1>13, <1>14, <2>4, <2>6, Sizes
    <3>2. Heard(tt[c]) # Asked(tt[c])
      BY <2>5, <3>1
    <3>3. PICK x \in Asked(tt[c]) : x \notin Heard(tt[c])
      BY <1>3, <3>2
    <3>4. QED
      BY <3>3 DEF Asked, Heard, Asking
  <2>8. QED
    BY <1>3, <1>4, <1>6, <2>2, <2>4, <2>5, <2>7 DEF Pending, Count
<1>15. ASSUME Clean(q, ds) => Count(ds[c]) >= Cardinality(q.servers)
       PROVE  Idle(cs[c].owner, q, ds, tt, op)
  <2>1. SUFFICES ASSUME Clean(q, ds)
                 PROVE  /\ op[cs[c].owner].pc \notin {"sent", "error"}
                        /\ \A e \in DOMAIN ds : Asking(tt[e]) # {} => ds[e].owner # cs[c].owner
    BY DEF Idle
  <2>2. op[cs[c].owner].pc = "connecting"
    BY <1>3, <1>6, <1>8, <2>1 DEF Once
  <2>3. Cardinality(Heard(tt[c])) >= Cardinality(q.servers)
        /\ Cardinality(Heard(tt[c])) <= Cardinality(q.servers)
    <3>1. Cardinality(Heard(tt[c])) \in Nat /\ Cardinality(q.servers) \in Nat
          /\ Cardinality(Heard(tt[c])) <= Cardinality(q.servers)
      BY <1>13, Sizes
    <3>2. Count(ds[c]) >= Cardinality(q.servers)
      BY <1>15, <2>1
    <3>3. QED
      BY <1>12, <3>1, <3>2
  <2>4. Heard(tt[c]) = q.servers
    <3>1. Cardinality(Heard(tt[c])) \in Nat /\ Cardinality(q.servers) \in Nat
      BY <1>13, Sizes
    <3>2. Cardinality(Heard(tt[c])) = Cardinality(q.servers)
      BY <2>3, <3>1
    <3>3. QED
      BY <1>13, <3>2, Sizes
  <2>5. Asking(tt[c]) = {}
    BY <1>3, <1>13, <2>4
  <2>6. \A e \in DOMAIN ds : Asking(tt[e]) # {} => ds[e].owner # cs[c].owner
    BY <1>3, <1>4, <1>5, <1>6, <1>7, <1>8, <2>1, <2>5 DEF Once
  <2>7. QED
    BY <2>2, <2>6
<1>16. QED
  BY <1>9, <1>11, <1>14, <1>15

-----------------------------------------------------------------------------
(* The steps                                                               *)

LEMMA NextState ==
  ASSUME db' \in Databases, ops' \in Operations,
         Good(rs', connects', sockets'),
         Once(rs', connects', sockets', ops'),
         Awaited(rs', connects', sockets', ops')
  PROVE  IInv'
BY DEF IInv, Databases, Operations, Good, Typed, Counted, Meetings, Targeted, NoneMet, Once, Clean,
       Awaited, Spared, Pending, Asking, Heard, Asked, Objects, ConnectCalls, Troubles, Callers

\* Connects lose replies; nobody is called back.
LEMMA FadedStep ==
  ASSUME IInv, Faded(rs, connects, sockets, rs', connects', sockets'), db' = db, ops' = ops
  PROVE  IInv'
<1>1. /\ db \in Databases /\ ops \in Operations /\ Good(rs, connects, sockets)
      /\ Once(rs, connects, sockets, ops) /\ Awaited(rs, connects, sockets, ops)
  BY DEF IInv
<1>2. Good(rs', connects', sockets')
  BY <1>1, GoodFaded
<1>3. Once(rs', connects', sockets', ops) /\ Awaited(rs', connects', sockets', ops)
  BY <1>1, OwnersFaded
<1>4. QED
  BY <1>1, <1>2, <1>3, NextState

\* Caller o is called back, and connects may lose replies.
LEMMA CalledStep ==
  ASSUME NEW r, NEW cs, NEW ss, NEW o \in Callers,
         ops \in Operations, Good(r, cs, ss), Once(r, cs, ss, ops),
         AwaitedBy(Callers \ {o}, r, cs, ss, ops), Idle(o, r, cs, ss, ops),
         db' \in Databases, Faded(r, cs, ss, rs', connects', sockets'), Called(o, ops, ops')
  PROVE  IInv'
<1>1. Once(r, cs, ss, ops') /\ Awaited(r, cs, ss, ops')
  BY OwnersCalled DEF Good
<1>2. Good(rs', connects', sockets')
  BY GoodFaded
<1>3. Once(rs', connects', sockets', ops') /\ Awaited(rs', connects', sockets', ops')
  BY <1>1, OwnersFaded
<1>4. ops' \in Operations
  BY DEF Called
<1>5. QED
  BY <1>2, <1>3, <1>4, NextState

\* A server of another set has answered: of the callers nothing is promised.
LEMMA OtherSet ==
  ASSUME NEW r, NEW cs, NEW ss, NEW op, NEW O, NEW o, r.otherErrors
  PROVE  Once(r, cs, ss, op) /\ AwaitedBy(O, r, cs, ss, op) /\ Idle(o, r, cs, ss, op)
BY DEF Once, AwaitedBy, Idle, Clean, Spared

\* A connect hears of a server, and does not end.
LEMMA QuietStep ==
  ASSUME IInv, NEW c, NEW s, NEW new,
         Hears(c, s, new, rs, connects, sockets, rs', connects', sockets'),
         Count(connects'[c]) < Cardinality(rs'.servers) \/ CountsNone(connects[c], connects'[c]),
         ops' = ops, db' \in Databases
  PROVE  IInv'
<1>1. /\ ops \in Operations /\ Good(rs, connects, sockets)
      /\ Once(rs, connects, sockets, ops) /\ Awaited(rs, connects, sockets, ops)
  BY DEF IInv
<1>2. Good(rs', connects', sockets')
  BY <1>1, GoodHears
<1>3. Once(rs', connects', sockets', ops) /\ Awaited(rs', connects', sockets', ops)
  BY <1>1, OwnersHears
<1>4. QED
  BY <1>1, <1>2, <1>3, NextState

\* A connect hears of a server, and its owner is called back.
LEMMA CallbackStep ==
  ASSUME IInv, NEW c, NEW s, NEW new, NEW q, NEW ds, NEW tt, NEW ok, NEW d \in Databases,
         Hears(c, s, new, rs, connects, sockets, q, ds, tt),
         Clean(q, ds) => Count(ds[c]) >= Cardinality(q.servers),
         Callback(connects[c].owner, ok, q, d, ds, tt)
  PROVE  IInv'
<1> DEFINE o == connects[c].owner
<1>1. /\ ops \in Operations /\ Good(rs, connects, sockets)
      /\ Once(rs, connects, sockets, ops) /\ Awaited(rs, connects, sockets, ops)
  BY DEF IInv
<1>2. Good(q, ds, tt) /\ Typed(q, ds, tt)
  BY <1>1, GoodHears DEF Good
<1>3. c \in DOMAIN connects
  BY <1>1, HearsSets
<1>4. o \in Callers
  BY <1>1, <1>3, Shape DEF Good
<1>5. Once(q, ds, tt, ops) /\ AwaitedBy(Callers \ {o}, q, ds, tt, ops) /\ Idle(o, q, ds, tt, ops)
  BY <1>1, OwnersHears
<1>6. Callback(o, ok, q, d, ds, tt)
  OBVIOUS
<1> HIDE DEF o
<1>7. db' \in Databases /\ Faded(q, ds, tt, rs', connects', sockets') /\ Called(o, ops, ops')
  BY <1>1, <1>2, <1>4, <1>6, CallbackIs
<1>8. QED
  BY <1>1, <1>2, <1>4, <1>5, <1>7, CalledStep

\* A connect of the list, and what its sockets are.
LEMMA Inside ==
  ASSUME IInv, NEW c \in DOMAIN connects, NEW s \in Servers
  PROVE  /\ rs \in Objects /\ connects \in Seq(ConnectCalls) /\ sockets \in Seq([Servers -> Phases])
         /\ Len(sockets) = Len(connects) /\ DOMAIN sockets = DOMAIN connects
         /\ c \in Nat /\ c \in DOMAIN sockets /\ connects[c] \in ConnectCalls /\ sockets[c] \in [Servers -> Phases]
         /\ rs.addresses = rs.servers
         /\ rs.master \cup rs.live \cup rs.secondaries \subseteq rs.servers
         /\ sockets[c][s] # "none" => s \in rs.servers
         /\ connects[c].owner \in Callers
<1>1. Typed(rs, connects, sockets) /\ Counted(rs, connects, sockets)
  BY DEF IInv, Good
<1>2. /\ rs \in Objects /\ connects \in Seq(ConnectCalls) /\ sockets \in Seq([Servers -> Phases])
      /\ Len(sockets) = Len(connects)
      /\ rs.master \cup rs.live \cup rs.secondaries \subseteq rs.servers
      /\ connects # <<>> => rs.addresses = rs.servers
  BY <1>1 DEF Typed
<1>3. /\ DOMAIN sockets = 1 .. Len(connects) /\ DOMAIN connects = 1 .. Len(connects)
      /\ sockets[c] \in [Servers -> Phases] /\ connects[c].owner \in Callers
  BY <1>1, Shape
<1>4. connects[c] \in ConnectCalls
  BY <1>2, <1>3, ElementOfSeq
<1>5. connects # <<>>
  BY <1>3
<1>6. sockets[c][s] # "none" => s \in rs.servers
  BY <1>1 DEF Counted, Asked
<1>7. c \in Nat
  BY <1>3
<1>8. QED
  BY <1>2, <1>3, <1>4, <1>5, <1>6, <1>7

LEMMA InsideSockets ==
  ASSUME IInv
  PROVE  \A e \in DOMAIN sockets : sockets[e] \in [Servers -> Phases]
BY Shape DEF IInv, Good

LEMMA SocketChanges ==
  ASSUME IInv, NEW c \in DOMAIN connects, NEW s \in Servers, NEW phase \in Phases \ {"none"},
         sockets[c][s] # "none", phase \in Waiting => sockets[c][s] \in Waiting
  PROVE  /\ Fades(sockets, Changed(sockets, c, s, phase))
         /\ \A e \in DOMAIN sockets, x \in Servers :
              Changed(sockets, c, s, phase)[e][x] = IF e = c /\ x = s THEN phase ELSE sockets[e][x]
<1>1. sockets \in Seq([Servers -> Phases]) /\ c \in DOMAIN sockets
      /\ \A e \in DOMAIN sockets : sockets[e] \in [Servers -> Phases]
  BY Inside, InsideSockets
<1>2. Fading(sockets[c][s], phase)
  BY DEF Fading
<1>3. QED
  BY <1>1, <1>2, SocketFades

\* The socket of connect c changes, and so do its pools and disturbances.
LEMMA CallStep ==
  ASSUME IInv, NEW c \in DOMAIN connects, NEW s \in Servers, NEW phase \in Phases \ {"none"},
         sockets[c][s] # "none", phase \in Waiting => sockets[c][s] \in Waiting,
         NEW pool \in [Servers -> Pools], NEW T,
         connects[c].trouble \subseteq T, T \subseteq connects[c].trouble \cup {"replaced"},
         phase \notin Waiting => "replaced" \in T,
         sockets' = Becomes(c, s, phase), UNCHANGED <<rs, db, ops>>,
         connects' = [connects EXCEPT ![c] = [connects[c] EXCEPT !.pool = pool, !.trouble = T]]
  PROVE  IInv'
<1> DEFINE y == [connects[c] EXCEPT !.pool = pool, !.trouble = T]
<1>1. /\ rs \in Objects /\ connects \in Seq(ConnectCalls) /\ sockets \in Seq([Servers -> Phases])
      /\ DOMAIN sockets = DOMAIN connects /\ c \in DOMAIN sockets
      /\ rs.master \cup rs.live \cup rs.secondaries \subseteq rs.servers
  BY Inside
<1> DEFINE tt == Changed(sockets, c, s, phase)
<1>2. Fades(sockets, tt)
      /\ \A e \in DOMAIN sockets, x \in Servers : tt[e][x] = IF e = c /\ x = s THEN phase ELSE sockets[e][x]
  BY SocketChanges
<1>3. sockets' = tt
  BY DEF Becomes, Changed
<1> HIDE DEF tt
<1>4. Kept(connects, connects') /\ connects'[c].trouble = T
  <2>1. connects[c] \in ConnectCalls /\ connects' = [connects EXCEPT ![c] = y]
    BY Inside
  <2>2. /\ y \in ConnectCalls /\ y.owner = connects[c].owner /\ y.connected = connects[c].connected
        /\ y.errors = connects[c].errors /\ y.trouble = T
        /\ connects[c].trouble \subseteq y.trouble /\ y.trouble \subseteq connects[c].trouble \cup Losses
    BY <2>1 DEF ConnectCalls, Troubles, Losses
  <2> HIDE DEF y
  <2>3. QED
    BY <1>1, <2>1, <2>2, CallKept
<1>5. \A e \in DOMAIN connects, x \in Servers :
        sockets[e][x] \in Waiting /\ tt[e][x] \notin Waiting => connects'[e].trouble \cap Losses # {}
  BY <1>1, <1>2, <1>4 DEF Losses
<1>6. Disturbs(connects, connects', sockets, tt)
  BY <1>4, <1>5 DEF Disturbs
<1>7. Emptied(rs, rs)
  BY <1>1 DEF Emptied
<1>8. Faded(rs, connects, sockets, rs', connects', sockets')
  BY <1>2, <1>3, <1>6, <1>7 DEF Faded
<1>9. QED
  BY <1>8, FadedStep

LEMMA SocketOpenStep ==
  ASSUME IInv, NEW c \in DOMAIN connects, NEW s \in Servers, SocketOpen(c, s)
  PROVE  IInv'
<1> DEFINE heard == rs.latest[s] = c /\ connects[c].pool[s] \in {"first", "open"}
           phase == IF heard THEN "asked" ELSE "unheard"
           T == IF heard THEN connects[c].trouble ELSE connects[c].trouble \cup {"replaced"}
<1>1. connects[c] \in ConnectCalls
  BY Inside
<1>2. connects[c].pool \in [Servers -> Pools] /\ connects[c] = [connects[c] EXCEPT !.pool = connects[c].pool]
  BY <1>1 DEF ConnectCalls
<1>3. sockets' = Becomes(c, s, phase) /\ UNCHANGED <<rs, db, ops>>
      /\ connects' = [connects EXCEPT ![c] = [connects[c] EXCEPT !.pool = connects[c].pool, !.trouble = T]]
  BY <1>2 DEF SocketOpen
<1>4. /\ phase \in Phases \ {"none"} /\ sockets[c][s] # "none"
      /\ phase \in Waiting => sockets[c][s] \in Waiting
      /\ phase \notin Waiting => "replaced" \in T
      /\ connects[c].trouble \subseteq T /\ T \subseteq connects[c].trouble \cup {"replaced"}
  BY DEF SocketOpen, Phases, Waiting
<1> HIDE DEF phase, T
<1>5. QED
  BY <1>2, <1>3, <1>4, CallStep

\* The pools of connects change, and nothing else.
LEMMA ReopenStep ==
  ASSUME IInv, NEW c \in DOMAIN connects, NEW s \in Servers, Reopen(c, s)
  PROVE  IInv'
<1>1. PICK v \in {"open", "gone"} : connects' = [connects EXCEPT ![c].pool[s] = v]
  BY DEF Reopen
<1> DEFINE pool == [connects[c].pool EXCEPT ![s] = v]
           T == connects[c].trouble
<1>2. /\ rs \in Objects /\ connects \in Seq(ConnectCalls) /\ sockets \in Seq([Servers -> Phases])
      /\ DOMAIN sockets = DOMAIN connects /\ connects[c] \in ConnectCalls
      /\ rs.master \cup rs.live \cup rs.secondaries \subseteq rs.servers
  BY Inside
<1>3. pool \in [Servers -> Pools]
  BY <1>2 DEF ConnectCalls, Pools
<1>4. connects' = [connects EXCEPT ![c] = [connects[c] EXCEPT !.pool = pool, !.trouble = T]]
  BY <1>1, <1>2 DEF ConnectCalls
<1>5. Kept(connects, connects')
  <2> DEFINE y == [connects[c] EXCEPT !.pool = pool, !.trouble = T]
  <2> HIDE DEF pool
  <2>1. connects' = [connects EXCEPT ![c] = y]
    BY <1>4
  <2>2. /\ y \in ConnectCalls /\ y.owner = connects[c].owner /\ y.connected = connects[c].connected
        /\ y.errors = connects[c].errors
        /\ connects[c].trouble \subseteq y.trouble /\ y.trouble \subseteq connects[c].trouble \cup Losses
    BY <1>2, <1>3 DEF ConnectCalls, Troubles, Losses
  <2> HIDE DEF y
  <2>3. QED
    BY <1>2, <2>1, <2>2, CallKept
<1> HIDE DEF pool
<1>6. UNCHANGED <<rs, db, sockets, ops>>
  BY DEF Reopen
<1>7. Fades(sockets, sockets) /\ Disturbs(connects, connects', sockets, sockets) /\ Emptied(rs, rs)
  BY <1>2, <1>5 DEF Fades, Disturbs, Emptied
<1>8. Faded(rs, connects, sockets, rs', connects', sockets')
  BY <1>6, <1>7 DEF Faded
<1>9. QED
  BY <1>6, <1>8, FadedStep

LEMMA BreakStep ==
  ASSUME IInv, NEW c \in DOMAIN connects, NEW s \in Servers, Break(c, s)
  PROVE  IInv'
<1>1. /\ rs \in Objects /\ connects \in Seq(ConnectCalls) /\ sockets \in Seq([Servers -> Phases])
      /\ DOMAIN sockets = DOMAIN connects /\ c \in DOMAIN sockets /\ Len(sockets) = Len(connects)
      /\ rs.master \cup rs.live \cup rs.secondaries \subseteq rs.servers
  BY Inside
<1> DEFINE phase == IF sockets[c][s] \in {"asked", "ending", "ready"} THEN "broken" ELSE sockets[c][s]
           tt == Changed(sockets, c, s, phase)
           bs == Losing(connects, sockets, tt)
           pool == [bs[c].pool EXCEPT ![s] = IF @ = "open" THEN "gone" ELSE @]
<1>2. sockets[c][s] \in Phases
  BY <1>1, InsideSockets
<1>3. Fading(sockets[c][s], phase) /\ (phase = sockets[c][s] \/ phase = "broken")
  BY <1>2 DEF Fading, Phases, Waiting
<1>4. Fades(sockets, tt)
      /\ \A e \in DOMAIN sockets, x \in Servers : tt[e][x] = IF e = c /\ x = s THEN phase ELSE sockets[e][x]
  <2>1. Fading(sockets[c][s], phase)
    BY <1>3
  <2>2. sockets \in Seq([Servers -> Phases]) /\ c \in DOMAIN sockets
    BY <1>1
  <2> HIDE DEF phase, bs, pool
  <2>3. /\ Fades(sockets, Changed(sockets, c, s, phase))
        /\ \A e \in DOMAIN sockets, x \in Servers :
             Changed(sockets, c, s, phase)[e][x] = IF e = c /\ x = s THEN phase ELSE sockets[e][x]
    BY <2>1, <2>2, SocketFades
  <2>4. QED
    BY <2>3
<1>5. /\ sockets' = tt /\ UNCHANGED <<rs, db, ops>>
      /\ connects' = [Losing(connects, sockets, sockets') EXCEPT ![c].pool[s] = IF @ = "open" THEN "gone" ELSE @]
  BY DEF Break, Changed
<1>6. connects' = [bs EXCEPT ![c].pool = pool]
  BY <1>5
<1> HIDE DEF tt, phase
<1>7. Breaks(sockets, tt)
  BY <1>3, <1>4 DEF Breaks
<1>8. Disturbs(connects, bs, sockets, tt)
  BY <1>1, <1>7, LosingDisturbs
<1>9. bs \in Seq(ConnectCalls) /\ c \in DOMAIN bs
  <2> HIDE DEF bs
  <2>1. Kept(connects, bs)
    BY <1>8 DEF Disturbs
  <2>2. QED
    BY <1>1, <2>1, KeptIn
<1> HIDE DEF bs
<1>10. bs[c] \in ConnectCalls
  BY <1>9, ElementOfSeq, LenProperties
<1>11. pool \in [Servers -> Pools]
  BY <1>10 DEF ConnectCalls, Pools
<1> DEFINE T == bs[c].trouble
<1>12. connects' = [bs EXCEPT ![c] = [bs[c] EXCEPT !.pool = pool, !.trouble = T]]
  <2> HIDE DEF pool
  <2>1. [bs[c] EXCEPT !.pool = pool] = [bs[c] EXCEPT !.pool = pool, !.trouble = T]
    BY <1>10 DEF ConnectCalls
  <2>2. QED
    BY <1>6, <2>1
<1> HIDE DEF pool
<1>13. Kept(bs, connects')
  <2> DEFINE y == [bs[c] EXCEPT !.pool = pool, !.trouble = T]
  <2>1. connects' = [bs EXCEPT ![c] = y]
    BY <1>12
  <2>2. /\ y \in ConnectCalls /\ y.owner = bs[c].owner /\ y.connected = bs[c].connected
        /\ y.errors = bs[c].errors
        /\ bs[c].trouble \subseteq y.trouble /\ y.trouble \subseteq bs[c].trouble \cup Losses
    BY <1>10, <1>11 DEF ConnectCalls, Troubles, Losses
  <2> HIDE DEF y
  <2>3. QED
    BY <1>9, <2>1, <2>2, CallKept
<1>14. Disturbs(connects, connects', sockets, tt)
  BY <1>1, <1>8, <1>13, KeptIn
<1>15. Emptied(rs, rs)
  BY <1>1 DEF Emptied
<1>16. Faded(rs, connects, sockets, rs', connects', sockets')
  BY <1>4, <1>5, <1>14, <1>15 DEF Faded
<1>17. QED
  BY <1>5, <1>16, FadedStep

\* What a connect that hears of s becomes; nothing happens to the others.
LEMMA CallHears ==
  ASSUME IInv, NEW c \in DOMAIN connects, NEW s \in Servers, NEW q, NEW ds, NEW x \in ConnectCalls,
         ds = [connects EXCEPT ![c] = x],
         x.owner = connects[c].owner, connects[c].trouble \subseteq x.trouble,
         "met" \in x.trouble => "met" \in connects[c].trouble,
         CountsOne(s, connects[c], x) \/ (CountsNone(connects[c], x) /\ ("uncounted" \in x.trouble \/ q.otherErrors))
  PROVE  HearsCalls(c, s, connects, q, ds) /\ ds[c] = x
<1> DEFINE CC == ConnectCalls
<1> HIDE DEF CC
<1>1. connects \in Seq(CC) /\ x \in CC
  BY Inside DEF CC
<1>2. /\ ds \in Seq(CC) /\ Len(ds) = Len(connects)
      /\ ds[c] = x /\ \A i \in DOMAIN connects : i # c => ds[i] = connects[i]
  BY <1>1, SeqExcept
<1>3. QED
  BY <1>2 DEF HearsCalls, CC

\* The socket of s ends its wait, and those of the new servers begin one.
LEMMA SocketHears ==
  ASSUME IInv, NEW c \in DOMAIN connects, NEW s \in Servers, NEW phase \in {"failed", "ready", "broken"},
         NEW new \in SUBSET Servers, s \notin new
  PROVE  /\ HearsSockets(c, s, {}, sockets, Becomes(c, s, phase))
         /\ HearsSockets(c, s, new, sockets,
              [Becomes(c, s, phase) EXCEPT ![c] = [x \in Servers |-> IF x \in new THEN "opening" ELSE @[x]]])
<1> DEFINE PP == [Servers -> Phases]
           row == [sockets[c] EXCEPT ![s] = phase]
           wide == [x \in Servers |-> IF x \in new THEN "opening" ELSE row[x]]
           ss == Becomes(c, s, phase)
           tt == [ss EXCEPT ![c] = [x \in Servers |-> IF x \in new THEN "opening" ELSE @[x]]]
<1>1. /\ sockets \in Seq(PP) /\ c \in DOMAIN sockets /\ sockets[c] \in PP
  BY Inside
<1>2. row \in PP /\ \A x \in Servers : row[x] = IF x = s THEN phase ELSE sockets[c][x]
  BY <1>1 DEF Phases
<1>3. ss = [sockets EXCEPT ![c] = row]
  BY DEF Becomes
<1>4. wide \in PP /\ \A x \in Servers : wide[x] = IF x \in new THEN "opening" ELSE row[x]
  BY <1>2 DEF Phases
<1> HIDE DEF row, ss, PP
<1>5. ss \in Seq(PP) /\ Len(ss) = Len(sockets) /\ DOMAIN ss = DOMAIN sockets /\ ss[c] = row
      /\ \A i \in DOMAIN sockets : i # c => ss[i] = sockets[i]
  BY <1>1, <1>2, <1>3, SeqExcept
<1>6. tt = [ss EXCEPT ![c] = wide]
  BY <1>1, <1>5
<1> HIDE DEF tt, wide
<1>7. tt \in Seq(PP) /\ Len(tt) = Len(ss) /\ tt[c] = wide
      /\ \A i \in DOMAIN ss : i # c => tt[i] = ss[i]
  BY <1>1, <1>4, <1>5, <1>6, SeqExcept
<1>8. phase \notin Waiting \cup {"none"}
  BY DEF Waiting
<1>9. HearsSockets(c, s, {}, sockets, ss)
  BY <1>2, <1>5, <1>8 DEF HearsSockets, PP
<1>10. HearsSockets(c, s, new, sockets, tt)
  BY <1>2, <1>4, <1>5, <1>7, <1>8 DEF HearsSockets, PP
<1>11. QED
  BY <1>9, <1>10 DEF ss, tt

LEMMA SocketHeard ==
  ASSUME IInv, NEW c \in DOMAIN connects, NEW s \in Servers, NEW phase \in {"failed", "ready", "broken"}
  PROVE  HearsSockets(c, s, {}, sockets, Becomes(c, s, phase))
<1>1. PICK new \in SUBSET Servers : s \notin new
  <2>1. {} \in SUBSET Servers /\ s \notin {}
    OBVIOUS
  <2>2. QED
    BY <2>1
<1>2. QED
  BY <1>1, SocketHears

LEMMA HearsBound ==
  ASSUME NEW r, NEW cs, NEW ss, NEW q, NEW ds, NEW tt, NEW c, NEW s, NEW new,
         Good(r, cs, ss), Hears(c, s, new, r, cs, ss, q, ds, tt)
  PROVE  Count(ds[c]) \in Nat /\ Cardinality(q.servers) \in Nat /\ Count(ds[c]) <= Cardinality(q.servers)
<1>1. Typed(q, ds, tt) /\ Counted(q, ds, tt) /\ Typed(r, cs, ss)
  BY GoodHears DEF Good
<1>2. c \in DOMAIN ds
  <2>1. Len(ds) = Len(cs)
    BY DEF Hears, HearsCalls
  <2>2. c \in DOMAIN cs
    BY HearsSets
  <2>3. QED
    BY <1>1, <2>1, <2>2, Shape
<1>3. Heard(tt[c]) \subseteq Asked(tt[c]) /\ Asked(tt[c]) \subseteq q.servers /\ q.servers \in SUBSET Servers
  BY <1>1, <1>2, HearsSets DEF Counted, Typed, Objects
<1>4. Heard(tt[c]) \in SUBSET Servers /\ Heard(tt[c]) \subseteq q.servers
  BY <1>3 DEF Heard
<1>5. /\ Cardinality(Heard(tt[c])) \in Nat /\ Cardinality(q.servers) \in Nat
      /\ Cardinality(Heard(tt[c])) <= Cardinality(q.servers)
  BY <1>3, <1>4, Sizes
<1>6. Count(ds[c]) \in Nat /\ Count(ds[c]) <= Cardinality(Heard(tt[c]))
  BY HearsCount
<1>7. QED
  BY <1>5, <1>6

LEMMA ObjectSame ==
  ASSUME IInv, NEW c \in DOMAIN connects, NEW s \in Servers
  PROVE  HearsObject(s, {}, rs, rs)
<1>1. rs \in Objects /\ rs.master \cup rs.live \cup rs.secondaries \subseteq rs.servers
  BY Inside
<1>2. QED
  BY <1>1 DEF HearsObject

LEMMA ConnectErrorStep ==
  ASSUME IInv, NEW c \in DOMAIN connects, NEW s \in Servers, ConnectError(c, s)
  PROVE  IInv'
<1> DEFINE errors == connects[c].errors + 1
           x == [connects[c] EXCEPT !.errors = errors]
           y == [connects[c] EXCEPT !.trouble = @ \cup {"uncounted"}]
           cs == [connects EXCEPT ![c] = x]
           ds == [connects EXCEPT ![c] = y]
           ss == Becomes(c, s, "failed")
           d == [db EXCEPT !.initializing = FALSE]
           ok == db.state = "connected"
<1>1. /\ connects[c] \in ConnectCalls /\ c \in DOMAIN sockets
      /\ s \in Asking(sockets[c])
  BY Inside DEF ConnectError, Asking, Waiting
<1>2. /\ x \in ConnectCalls /\ x.owner = connects[c].owner /\ x.trouble = connects[c].trouble
      /\ CountsOne(s, connects[c], x)
  BY <1>1 DEF ConnectCalls, CountsOne
<1>3. /\ y \in ConnectCalls /\ y.owner = connects[c].owner /\ CountsNone(connects[c], y)
      /\ y.trouble = connects[c].trouble \cup {"uncounted"}
  BY <1>1 DEF ConnectCalls, CountsNone, Troubles
<1>4. Good(rs, connects, sockets) /\ db \in Databases
  BY DEF IInv
<1>5. d \in Databases
  BY <1>4 DEF Databases
<1>6. \/ /\ sockets' = ss /\ connects' = ds /\ UNCHANGED <<rs, db, ops>>
      \/ /\ Cardinality(connects[c].connected) + errors # Cardinality(rs.servers)
         /\ sockets' = ss /\ connects' = cs /\ UNCHANGED <<rs, db, ops>>
      \/ /\ Cardinality(connects[c].connected) + errors = Cardinality(rs.servers)
         /\ Callback(connects[c].owner, ok, rs, d, cs, ss)
  BY Zenon DEF ConnectError
<1> HIDE DEF x, y, d, ok
<1>7. HearsSockets(c, s, {}, sockets, ss)
  BY SocketHeard
<1>8. HearsCalls(c, s, connects, rs, cs) /\ cs[c] = x
  BY <1>2, CallHears
<1>9. HearsCalls(c, s, connects, rs, ds) /\ ds[c] = y
  BY <1>3, CallHears
<1> HIDE DEF cs, ds, ss
<1>10. HearsObject(s, {}, rs, rs)
  BY ObjectSame
<1>11. /\ Hears(c, s, {}, rs, connects, sockets, rs, cs, ss)
       /\ Hears(c, s, {}, rs, connects, sockets, rs, ds, ss)
  BY <1>1, <1>7, <1>8, <1>9, <1>10 DEF Hears
<1>12. Count(cs[c]) \in Nat /\ Cardinality(rs.servers) \in Nat /\ Count(cs[c]) <= Cardinality(rs.servers)
  BY <1>4, <1>11, HearsBound
<1>13. Count(cs[c]) = Cardinality(connects[c].connected) + errors
  BY <1>1, <1>8 DEF Count, x, ConnectCalls
<1> HIDE DEF errors
<1>14. CASE sockets' = ss /\ connects' = ds /\ UNCHANGED <<rs, db, ops>>
  BY <1>3, <1>4, <1>9, <1>11, <1>14, QuietStep
<1>15. CASE /\ Cardinality(connects[c].connected) + errors # Cardinality(rs.servers)
            /\ sockets' = ss /\ connects' = cs /\ UNCHANGED <<rs, db, ops>>
  <2>1. Count(connects'[c]) < Cardinality(rs'.servers)
    BY <1>12, <1>13, <1>15
  <2>2. Hears(c, s, {}, rs, connects, sockets, rs', connects', sockets')
    BY <1>11, <1>15
  <2>3. ops' = ops /\ db' \in Databases
    BY <1>4, <1>15
  <2>4. QED
    BY <2>1, <2>2, <2>3, QuietStep
<1>16. CASE /\ Cardinality(connects[c].connected) + errors = Cardinality(rs.servers)
            /\ Callback(connects[c].owner, ok, rs, d, cs, ss)
  <2>1. Count(cs[c]) >= Cardinality(rs.servers)
    BY <1>12, <1>13, <1>16
  <2>2. QED
    BY <1>5, <1>11, <1>16, <2>1, CallbackStep
<1>17. QED
  BY <1>6, <1>14, <1>15, <1>16

\* What the object learns from a reply.
LEMMA KnownIs ==
  ASSUME IInv, NEW c \in DOMAIN connects, NEW s \in Servers, s \in rs.servers, NEW rep \in Reports
  PROVE  /\ Known(rs, s, rep) \in Objects
         /\ HearsObject(s, {}, rs, Known(rs, s, rep))
         /\ Known(rs, s, rep).addresses = rs.servers /\ Known(rs, s, rep).servers = rs.servers
<1> DEFINE k == Known(rs, s, rep)
           master == IF rep.role \in {"primary", "alone"} THEN rs.master \cup {s} ELSE rs.master \ {s}
           secondaries == IF rep.role = "secondary" THEN rs.secondaries \cup {s} ELSE rs.secondaries
           target == IF rep.role = "primary" THEN s ELSE rs.target
           setName == IF rep.role = "primary" /\ rs.setName = "none" THEN rep.set ELSE rs.setName
           live == rs.live \cup {s}
<1>1. /\ rs \in Objects /\ rs.addresses = rs.servers
      /\ rs.master \cup rs.live \cup rs.secondaries \subseteq rs.servers
  BY Inside
<1>2. k = [rs EXCEPT !.live = live, !.master = master, !.secondaries = secondaries,
                     !.target = target, !.setName = setName]
  BY <1>1 DEF Known, Objects
<1>3. /\ master \in SUBSET Servers /\ secondaries \in SUBSET Servers /\ live \in SUBSET Servers
      /\ target \in Servers \cup {None}
      /\ master \cup live \cup secondaries \subseteq rs.servers
  BY <1>1 DEF Objects
<1>4. setName \in {"none", "set", "otherset"}
  BY <1>1 DEF Objects, Reports
<1>5. /\ \A y \in Servers \ {s} : (y \in live <=> y \in rs.live) /\ (y \in master <=> y \in rs.master)
      /\ target = rs.target \/ (target = s /\ s \in master)
  OBVIOUS
<1> HIDE DEF k, live, master, secondaries, target, setName
<1>6. /\ k \in Objects /\ k.servers = rs.servers /\ k.addresses = rs.addresses /\ k.live = live
      /\ k.master = master /\ k.secondaries = secondaries /\ k.target = target
      /\ k.otherErrors = rs.otherErrors
  BY <1>1, <1>2, <1>3, <1>4 DEF Objects
<1>7. HearsObject(s, {}, rs, k)
  BY <1>1, <1>3, <1>5, <1>6 DEF HearsObject
<1>8. QED
  BY <1>1, <1>6, <1>7 DEF k

LEMMA DiscoveredIs ==
  ASSUME IInv, NEW c \in DOMAIN connects, NEW s \in Servers, s \in rs.servers, NEW rep \in Reports,
         NEW k, k = Known(rs, s, rep), NEW new, new = Found(k, rep),
         NEW r, r = Discovered(k, c, new)
  PROVE  /\ new \in SUBSET Servers /\ new \cap rs.servers = {} /\ s \notin new
         /\ HearsObject(s, new, rs, r)
         /\ r.servers = rs.servers \cup new
         /\ s \in r.master => HearsObject(s, new, rs, [r EXCEPT !.target = s])
                              /\ [r EXCEPT !.target = s].servers = r.servers
<1>1. /\ k \in Objects /\ k.addresses = rs.servers /\ k.servers = rs.servers
      /\ HearsObject(s, {}, rs, k)
  BY KnownIs
<1>2. new \in SUBSET Servers /\ new \cap rs.servers = {} /\ s \notin new
  BY <1>1 DEF Found
<1>3. c \in Nat /\ rs.addresses = rs.servers
  BY Inside
<1> DEFINE latest == [x \in Servers |-> IF x \in new THEN c ELSE k.latest[x]]
<1>4. latest \in [Servers -> Nat]
  BY <1>1, <1>3 DEF Objects
<1> DEFINE list == rs.servers \cup new
<1>5. r = [k EXCEPT !.servers = list, !.addresses = list, !.latest = latest] /\ list \in SUBSET Servers
  BY <1>1, <1>2 DEF Discovered, Objects
<1> HIDE DEF latest, list
<1>6. /\ r \in Objects /\ r.servers = list /\ r.addresses = list
      /\ r.live = k.live /\ r.master = k.master /\ r.secondaries = k.secondaries
      /\ r.target = k.target /\ r.otherErrors = k.otherErrors
  BY <1>1, <1>2, <1>4, <1>5 DEF Objects
<1>7. HearsObject(s, new, rs, r)
  BY <1>1, <1>3, <1>6 DEF HearsObject, list
<1>8. ASSUME s \in r.master
      PROVE  HearsObject(s, new, rs, [r EXCEPT !.target = s]) /\ [r EXCEPT !.target = s].servers = r.servers
  <2> DEFINE w == [r EXCEPT !.target = s]
  <2>1. /\ w \in Objects /\ w.servers = r.servers /\ w.addresses = r.addresses /\ w.live = r.live
        /\ w.master = r.master /\ w.secondaries = r.secondaries /\ w.target = s
        /\ w.otherErrors = r.otherErrors
    BY <1>6 DEF Objects
  <2> HIDE DEF w
  <2>2. HearsObject(s, new, rs, w)
    BY <1>7, <1>8, <2>1 DEF HearsObject
  <2>3. QED
    BY <2>1, <2>2 DEF w
<1>9. QED
  BY <1>2, <1>6, <1>7, <1>8 DEF list

\* The object once a server of another set has answered.
LEMMA OtherSetIs ==
  ASSUME IInv, NEW c \in DOMAIN connects, NEW s \in Servers, s \in rs.servers, NEW rep \in Reports,
         NEW k, k = [Known(rs, s, rep) EXCEPT !.otherErrors = TRUE],
         NEW q, q = [k EXCEPT !.live = {}, !.master = {}]
  PROVE  HearsObject(s, {}, rs, k) /\ Emptied(k, q) /\ q.otherErrors
<1> DEFINE j == Known(rs, s, rep)
<1>1. /\ j \in Objects /\ HearsObject(s, {}, rs, j)
  BY KnownIs
<1> HIDE DEF j
<1>2. k = [j EXCEPT !.otherErrors = TRUE]
  BY DEF j
<1>3. /\ k \in Objects /\ k.servers = j.servers /\ k.addresses = j.addresses /\ k.live = j.live
      /\ k.master = j.master /\ k.secondaries = j.secondaries /\ k.target = j.target
      /\ k.otherErrors
  BY <1>1, <1>2 DEF Objects
<1>4. HearsObject(s, {}, rs, k)
  BY <1>1, <1>3 DEF HearsObject
<1>5. /\ q \in Objects /\ q.servers = k.servers /\ q.addresses = k.addresses /\ q.live = {}
      /\ q.master = {} /\ q.secondaries = k.secondaries /\ q.target = k.target
      /\ q.otherErrors = k.otherErrors
  BY <1>3 DEF Objects
<1>6. k.secondaries \subseteq k.servers
  BY <1>4 DEF HearsObject
<1>7. QED
  BY <1>3, <1>4, <1>5, <1>6 DEF Emptied

LEMMA ReplyStep ==
  ASSUME IInv, NEW c \in DOMAIN connects, NEW s \in Servers, NEW rep \in Reports, Reply(c, s, rep)
  PROVE  IInv'
<1> DEFINE o == connects[c].owner
           trouble == IF rep.role = "error" THEN connects[c].trouble \cup {"error"} ELSE connects[c].trouble
           x == [connects[c] EXCEPT !.connected = @ \cup {s}, !.trouble = trouble]
           cs == [connects EXCEPT ![c].connected = @ \cup {s},
                                  ![c].trouble = IF rep.role = "error" THEN @ \cup {"error"} ELSE @]
           phase == IF sockets[c][s] = "asked" THEN "ready" ELSE "broken"
           ss == Becomes(c, s, phase)
           known == Known(rs, s, rep)
           new == Found(known, rep)
           r == Discovered(known, c, new)
           tt == [ss EXCEPT ![c] = [y \in Servers |-> IF y \in new THEN "opening" ELSE @[y]]]
           n == Cardinality(cs[c].connected)
           ended == [db EXCEPT !.initializing = FALSE]
           opened == [ended EXCEPT !.state = "connected"]
           withMaster == IF s \in r.master THEN [r EXCEPT !.target = s] ELSE r
           state == IF s \in r.master THEN "connected" ELSE db.state
           moved == [db EXCEPT !.state = state]
           settled == [ended EXCEPT !.state = state]
           other == [known EXCEPT !.otherErrors = TRUE]
           gone == [other EXCEPT !.live = {}, !.master = {}]
<1>1. Good(rs, connects, sockets) /\ db \in Databases /\ ops \in Operations
  BY DEF IInv
<1>2. /\ connects[c] \in ConnectCalls /\ c \in DOMAIN sockets /\ connects \in Seq(ConnectCalls)
      /\ s \in Asking(sockets[c]) /\ s \in rs.servers /\ connects[c].owner \in Callers
  <2>1. sockets[c][s] \in {"asked", "ending"}
    BY DEF Reply
  <2>2. s \in Asking(sockets[c]) /\ sockets[c][s] # "none"
    BY <2>1 DEF Asking, Waiting
  <2>3. QED
    BY <2>2, Inside
<1>3. ended \in Databases /\ opened \in Databases /\ moved \in Databases /\ settled \in Databases
  BY <1>1 DEF Databases
<1>4. \/ /\ rs.otherErrors
         /\ sockets' = ss
         /\ UNCHANGED <<rs, db, connects, ops>>
      \/ /\ rep.role = "error"
         /\ Callback(o, FALSE, rs, db, cs, ss)
      \/ \E K \in SUBSET Undecided(rs, ss) :
           LET uu == Closed(rs, cs, ss, K)
           IN Callback(o, FALSE, [known EXCEPT !.otherErrors = TRUE, !.live = {}, !.master = {}],
                       db, Losing(Hung(rs, cs), ss, uu), uu)
      \/ /\ AllAnswered(n, r)
         /\ Callback(o, ~NoMaster(r), r, IF NoMaster(r) THEN ended ELSE opened, cs, tt)
      \/ /\ AllCounted(n + connects[c].errors, r)
         /\ Callback(o, ~NoMaster(withMaster) /\ state = "connected", withMaster, settled, cs, tt)
      \/ /\ ~AllCounted(n + connects[c].errors, r)
         /\ Set(withMaster, moved, cs, tt)
         /\ UNCHANGED ops
  BY Zenon DEF Reply
<1>5. cs = [connects EXCEPT ![c] = x]
  BY <1>2 DEF ConnectCalls
<1>6. /\ x \in ConnectCalls /\ x.owner = connects[c].owner /\ connects[c].trouble \subseteq x.trouble
      /\ "met" \in x.trouble => "met" \in connects[c].trouble
      /\ CountsOne(s, connects[c], x) /\ x.errors = connects[c].errors
      /\ rep.role = "error" => "error" \in x.trouble
  <2>1. trouble \in SUBSET Troubles /\ connects[c].trouble \subseteq trouble
        /\ ("met" \in trouble => "met" \in connects[c].trouble)
        /\ (rep.role = "error" => "error" \in trouble)
    BY <1>2 DEF ConnectCalls, Troubles
  <2> HIDE DEF trouble
  <2>2. x \in ConnectCalls /\ x.owner = connects[c].owner /\ x.trouble = trouble
        /\ x.errors = connects[c].errors /\ x.connected = connects[c].connected \cup {s}
    BY <1>2, <2>1 DEF ConnectCalls
  <2> HIDE DEF x
  <2>3. QED
    BY <2>1, <2>2 DEF CountsOne
<1>7. phase \in {"failed", "ready", "broken"}
  OBVIOUS
<1> HIDE DEF phase, x
<1>8. /\ new \in SUBSET Servers /\ new \cap rs.servers = {} /\ s \notin new
      /\ HearsObject(s, new, rs, r)
      /\ s \in r.master => HearsObject(s, new, rs, [r EXCEPT !.target = s])
                           /\ [r EXCEPT !.target = s].servers = r.servers
  BY <1>2, DiscoveredIs
<1>9. HearsObject(s, new, rs, withMaster) /\ withMaster.servers = r.servers
  BY <1>8
<1>10. HearsObject(s, {}, rs, rs)
  BY ObjectSame
<1>11. HearsObject(s, {}, rs, other) /\ Emptied(other, gone) /\ gone.otherErrors
  BY <1>2, OtherSetIs
<1>12. HearsSockets(c, s, {}, sockets, ss) /\ HearsSockets(c, s, new, sockets, tt)
  BY <1>7, <1>8, SocketHears, SMTT(60)
<1> HIDE DEF new, r, withMaster, known, tt, cs
<1>13. /\ HearsCalls(c, s, connects, r, cs) /\ HearsCalls(c, s, connects, withMaster, cs)
       /\ HearsCalls(c, s, connects, rs, cs) /\ HearsCalls(c, s, connects, other, cs)
       /\ cs[c] = x
  <2> HIDE DEF other
  <2>1. \A q : HearsCalls(c, s, connects, q, cs) /\ cs[c] = x
    BY <1>5, <1>6, CallHears
  <2>2. QED
    BY <2>1
<1> HIDE DEF ss
<1>14. /\ Hears(c, s, new, rs, connects, sockets, r, cs, tt)
       /\ Hears(c, s, new, rs, connects, sockets, withMaster, cs, tt)
       /\ Hears(c, s, {}, rs, connects, sockets, rs, cs, ss)
       /\ Hears(c, s, {}, rs, connects, sockets, other, cs, ss)
  <2> HIDE DEF other, o, gone
  <2>1. new \subseteq Servers /\ new \cap rs.servers = {} /\ {} \subseteq Servers /\ {} \cap rs.servers = {}
        /\ c \in DOMAIN sockets /\ s \in Asking(sockets[c])
    BY <1>2, <1>8
  <2>2. QED
    BY <2>1, <1>8, <1>9, <1>10, <1>11, <1>12, <1>13 DEF Hears
<1>15. /\ Count(cs[c]) = n + connects[c].errors /\ Count(cs[c]) \in Nat /\ connects[c].errors \in Nat
       /\ Cardinality(r.servers) \in Nat /\ n \in Nat
  <2>1. Count(cs[c]) \in Nat /\ Cardinality(r.servers) \in Nat
    BY <1>1, <1>14, HearsBound
  <2>2. Count(cs[c]) = n + connects[c].errors
    BY <1>6, <1>13 DEF Count
  <2>3. connects[c].errors \in Nat
    BY <1>2 DEF ConnectCalls
  <2>4. n \in Nat
    <3>1. cs[c] \in ConnectCalls
      BY <1>6, <1>13
    <3>2. cs[c].connected \in SUBSET Servers
      BY <3>1 DEF ConnectCalls
    <3>3. QED
      BY <3>2, Sizes
  <2>5. QED
    BY <2>1, <2>2, <2>3, <2>4
<1> HIDE DEF o, n, ended, opened, state, moved, settled, other, gone
<1>16. CASE /\ rs.otherErrors
            /\ sockets' = ss
            /\ UNCHANGED <<rs, db, connects, ops>>
  <2>1. CountsNone(connects[c], connects[c])
    BY DEF CountsNone
  <2>2. HearsCalls(c, s, connects, rs, connects)
    BY <1>2, <1>16, <2>1 DEF HearsCalls
  <2>3. Hears(c, s, {}, rs, connects, sockets, rs', connects', sockets')
    BY <1>14, <1>16, <2>2 DEF Hears
  <2>4. QED
    BY <1>1, <1>16, <2>1, <2>3, QuietStep
<1>17. CASE rep.role = "error" /\ Callback(o, FALSE, rs, db, cs, ss)
  <2>1. ~Clean(rs, cs)
    <3>1. Len(cs) = Len(connects) /\ cs \in Seq(ConnectCalls)
      BY <1>13 DEF HearsCalls
    <3>2. c \in DOMAIN cs
      BY <1>2, <3>1, LenProperties
    <3>3. QED
      BY <1>6, <1>13, <1>17, <3>2 DEF Clean
  <2>2. QED
    BY <1>1, <1>14, <1>17, <2>1, CallbackStep DEF o
<1>18. ASSUME NEW K \in SUBSET Undecided(rs, ss),
              Callback(o, FALSE, [known EXCEPT !.otherErrors = TRUE, !.live = {}, !.master = {}],
                       db, Losing(Hung(rs, cs), ss, Closed(rs, cs, ss, K)), Closed(rs, cs, ss, K))
       PROVE  IInv'
  <2> DEFINE uu == Closed(rs, cs, ss, K)
             ds == Losing(Hung(rs, cs), ss, uu)
  <2>1. gone = [known EXCEPT !.otherErrors = TRUE, !.live = {}, !.master = {}]
    BY DEF gone, other
  <2>2. Good(other, cs, ss)
    BY <1>1, <1>14, GoodHears
  <2>3. /\ cs \in Seq(ConnectCalls) /\ ss \in Seq([Servers -> Phases]) /\ Len(ss) = Len(cs)
        /\ DOMAIN ss = DOMAIN cs
    BY <2>2, Shape DEF Good, Typed
  <2>4. Fades(ss, uu) /\ Breaks(ss, uu)
    BY <2>3, ClosedFades
  <2>5. Disturbs(cs, ds, ss, uu)
    BY <2>3, <2>4, ClosedDisturbs
  <2>6. Callback(o, FALSE, gone, db, ds, uu)
    BY <1>18, <2>1
  <2> HIDE DEF uu, ds
  <2>7. Faded(other, cs, ss, gone, ds, uu)
    BY <1>11, <2>4, <2>5 DEF Faded
  <2>8. Good(gone, ds, uu)
    BY <2>2, <2>7, GoodFaded
  <2>9. Once(gone, ds, uu, ops) /\ AwaitedBy(Callers \ {o}, gone, ds, uu, ops) /\ Idle(o, gone, ds, uu, ops)
    BY <1>11, OtherSet
  <2>10. o \in Callers
    BY <1>2 DEF o
  <2>11. db' \in Databases /\ Faded(gone, ds, uu, rs', connects', sockets') /\ Called(o, ops, ops')
    BY <1>1, <2>6, <2>8, <2>10, CallbackIs DEF Good
  <2>12. QED
    BY <1>1, <2>8, <2>9, <2>10, <2>11, CalledStep
<1>19. CASE /\ AllAnswered(n, r)
            /\ Callback(o, ~NoMaster(r), r, IF NoMaster(r) THEN ended ELSE opened, cs, tt)
  <2>1. Count(cs[c]) >= Cardinality(r.servers)
    BY <1>15, <1>19 DEF AllAnswered
  <2> DEFINE d == IF NoMaster(r) THEN ended ELSE opened
             ok == ~NoMaster(r)
  <2>2. d \in Databases /\ Callback(connects[c].owner, ok, r, d, cs, tt)
    BY <1>3, <1>19 DEF o
  <2> HIDE DEF d, ok
  <2>3. QED
    BY <1>14, <2>1, <2>2, CallbackStep
<1>20. CASE /\ AllCounted(n + connects[c].errors, r)
            /\ Callback(o, ~NoMaster(withMaster) /\ state = "connected", withMaster, settled, cs, tt)
  <2>1. Count(cs[c]) >= Cardinality(withMaster.servers)
    BY <1>9, <1>15, <1>20 DEF AllCounted
  <2> DEFINE ok == ~NoMaster(withMaster) /\ state = "connected"
  <2>2. Callback(connects[c].owner, ok, withMaster, settled, cs, tt)
    BY <1>20 DEF o
  <2> HIDE DEF ok
  <2>3. QED
    BY <1>3, <1>14, <2>1, <2>2, CallbackStep
<1>21. CASE /\ ~AllCounted(n + connects[c].errors, r)
            /\ Set(withMaster, moved, cs, tt)
            /\ UNCHANGED ops
  <2>1. rs' = withMaster /\ db' = moved /\ connects' = cs /\ sockets' = tt /\ ops' = ops
    BY <1>21 DEF Set
  <2>2. Count(connects'[c]) < Cardinality(rs'.servers)
    BY <1>9, <1>15, <1>21, <2>1 DEF AllCounted
  <2>3. Hears(c, s, new, rs, connects, sockets, rs', connects', sockets')
    BY <1>14, <2>1
  <2>4. QED
    BY <1>3, <2>1, <2>2, <2>3, QuietStep
<1>22. QED
  BY <1>4, <1>16, <1>17, <1>18, <1>19, <1>20, <1>21

\* A new connect: it meets those that wait, and they meet it.
LEMMA ConnectStep ==
  ASSUME IInv, NEW o \in Callers, ops[o].pc \in {"none", "wait"}, Connect(o)
  PROVE  IInv'
<1> DEFINE N == Len(connects)
           c == N + 1
           others == {e \in DOMAIN connects : \E s \in Servers : sockets[e][s] \in Waiting}
           Meeting(met) == IF met THEN {"met"} ELSE {}
           Meet(e) == [connects[e] EXCEPT !.trouble = @ \cup Meeting(e \in others)]
           met == [e \in DOMAIN connects |-> Meet(e)]
           call == [owner |-> o, connected |-> {}, errors |-> 0,
                    pool |-> [s \in Servers |-> "first"], trouble |-> Meeting(others # {})]
           row == [s \in Servers |-> IF s \in rs.servers THEN "opening" ELSE "none"]
           latest == [s \in Servers |-> IF s \in rs.servers THEN c ELSE rs.latest[s]]
           cs == Append(met, call)
           ss == Append(sockets, row)
           r == [rs EXCEPT !.addresses = rs.servers, !.target = None, !.latest = latest]
           oq == [ops EXCEPT ![o].pc = "connecting"]
<1>1. /\ Good(rs, connects, sockets) /\ db \in Databases /\ ops \in Operations
      /\ Once(rs, connects, sockets, ops) /\ Awaited(rs, connects, sockets, ops)
      /\ Typed(rs, connects, sockets) /\ Counted(rs, connects, sockets) /\ Meetings(connects, sockets)
  BY DEF IInv, Good
<1>2. /\ DOMAIN connects = 1 .. N /\ DOMAIN sockets = 1 .. N /\ N \in Nat /\ Len(sockets) = N
      /\ connects \in Seq(ConnectCalls) /\ sockets \in Seq([Servers -> Phases])
      /\ rs \in Objects /\ Seeds \subseteq rs.servers
      /\ rs.master \cup rs.live \cup rs.secondaries \subseteq rs.servers
  BY <1>1, Shape DEF Typed
<1>3. connects' = cs /\ sockets' = ss /\ rs' = r /\ ops' = oq /\ db' = db
  BY <1>2 DEF Connect, TargetForgotten, Objects
<1>4. others = {e \in DOMAIN connects : Asking(sockets[e]) # {}}
  BY DEF Asking
<1>5. \A e \in DOMAIN connects :
        /\ Meet(e) \in ConnectCalls
        /\ Meet(e).owner = connects[e].owner
        /\ Meet(e).connected = connects[e].connected
        /\ Meet(e).errors = connects[e].errors
        /\ connects[e].trouble \subseteq Meet(e).trouble
        /\ Meet(e).trouble \subseteq connects[e].trouble \cup {"met"}
        /\ e \in others => "met" \in Meet(e).trouble
  <2>1. \A e \in DOMAIN connects : connects[e] \in ConnectCalls
    BY <1>2, ElementOfSeq
  <2> HIDE DEF others
  <2>2. QED
    BY <2>1 DEF ConnectCalls, Troubles
<1>6. /\ call \in ConnectCalls /\ call.owner = o /\ call.connected = {} /\ call.errors = 0
      /\ call.trouble \subseteq {"met"} /\ (others # {} => "met" \in call.trouble)
  BY DEF ConnectCalls, Troubles, Pools
<1>7. row \in [Servers -> Phases] /\ Asking(row) = rs.servers /\ Heard(row) = {} /\ Asked(row) = rs.servers
  BY <1>2 DEF Phases, Asking, Heard, Asked, Waiting, Objects
<1>8. latest \in [Servers -> Nat]
  BY <1>2 DEF Objects
<1> HIDE DEF Meet, call, row, latest, others
<1>9. met \in Seq(ConnectCalls) /\ Len(met) = N /\ \A e \in 1 .. N : met[e] = Meet(e)
  <2> DEFINE CC == ConnectCalls
  <2> HIDE DEF CC
  <2>1. connects \in Seq(CC) /\ \A e \in DOMAIN connects : Meet(e) \in CC
    BY <1>2, <1>5 DEF CC
  <2>2. [e \in DOMAIN connects |-> Meet(e)] \in Seq(CC)
        /\ Len([e \in DOMAIN connects |-> Meet(e)]) = Len(connects)
    BY <2>1, SeqLike
  <2>3. QED
    BY <1>2, <2>2 DEF CC
<1> HIDE DEF met
<1>10. /\ cs \in Seq(ConnectCalls) /\ Len(cs) = N + 1 /\ cs[N + 1] = call
       /\ \A e \in 1 .. N : cs[e] = Meet(e)
  <2> DEFINE CC == ConnectCalls
  <2> HIDE DEF CC
  <2>1. met \in Seq(CC) /\ call \in CC
    BY <1>6, <1>9 DEF CC
  <2> HIDE DEF N
  <2>2. Append(met, call) \in Seq(CC) /\ Len(Append(met, call)) = Len(met) + 1
        /\ Append(met, call)[Len(met) + 1] = call
        /\ \A e \in 1 .. Len(met) : Append(met, call)[e] = met[e]
    BY <2>1, AppendProperties
  <2>3. QED
    BY <1>9, <2>2 DEF CC
<1>11. /\ ss \in Seq([Servers -> Phases]) /\ Len(ss) = N + 1 /\ ss[N + 1] = row
       /\ \A e \in 1 .. N : ss[e] = sockets[e]
  <2> DEFINE PP == [Servers -> Phases]
  <2> HIDE DEF PP
  <2>1. sockets \in Seq(PP) /\ row \in PP
    BY <1>2, <1>7 DEF PP
  <2> HIDE DEF N
  <2>2. Append(sockets, row) \in Seq(PP) /\ Len(Append(sockets, row)) = Len(sockets) + 1
        /\ Append(sockets, row)[Len(sockets) + 1] = row
        /\ \A e \in 1 .. Len(sockets) : Append(sockets, row)[e] = sockets[e]
    BY <2>1, AppendProperties
  <2>3. QED
    BY <1>2, <2>2 DEF PP
<1>12. /\ r \in Objects /\ r.servers = rs.servers /\ r.addresses = rs.servers /\ r.live = rs.live
       /\ r.master = rs.master /\ r.secondaries = rs.secondaries /\ r.target = None
       /\ r.otherErrors = rs.otherErrors
  BY <1>2, <1>8 DEF Objects
<1> HIDE DEF r, cs, ss
<1>13. DOMAIN cs = 1 .. N + 1 /\ DOMAIN ss = 1 .. N + 1
  BY <1>10, <1>11, LenProperties
<1> HIDE DEF N
<1>14. Typed(r, cs, ss)
  BY <1>2, <1>10, <1>11, <1>12 DEF Typed
<1>15. \A e \in 1 .. N + 1 : e # N + 1 => e \in 1 .. N
  BY <1>2
<1>16. N + 1 \in 1 .. N + 1 /\ \A e \in 1 .. N : e \in 1 .. N + 1 /\ e # N + 1
  BY <1>2
<1>17. Counted(r, cs, ss)
  <2>1. SUFFICES ASSUME NEW e \in DOMAIN cs
                 PROVE  /\ cs[e].connected \subseteq Heard(ss[e])
                        /\ Cardinality(cs[e].connected) + cs[e].errors <= Cardinality(Heard(ss[e]))
                        /\ Asked(ss[e]) \subseteq r.servers
    BY DEF Counted
  <2>2. CASE e = N + 1
    BY <1>6, <1>7, <1>10, <1>11, <1>12, <2>2, Sizes
  <2>3. CASE e # N + 1
    <3>1. e \in 1 .. N /\ e \in DOMAIN connects
      BY <1>2, <1>13, <1>15, <2>3
    <3>2. cs[e].connected = connects[e].connected /\ cs[e].errors = connects[e].errors /\ ss[e] = sockets[e]
      BY <1>5, <1>10, <1>11, <3>1
    <3>3. QED
      BY <1>1, <1>12, <3>1, <3>2 DEF Counted
  <2>4. QED
    BY <2>2, <2>3
<1>18. Meetings(cs, ss)
  <2>1. SUFFICES ASSUME NEW e \in DOMAIN cs, NEW f \in DOMAIN cs,
                        Asking(ss[e]) # {}, e # f, Asking(ss[f]) # {} \/ e < f
                 PROVE  "met" \in cs[e].trouble
    BY DEF Meetings
  <2>2. CASE e = N + 1
    <3>1. f \in 1 .. N /\ ~(e < f)
      BY <1>2, <1>13, <1>15, <2>1, <2>2
    <3>2. f \in others
      BY <1>2, <1>4, <1>11, <2>1, <3>1
    <3>3. QED
      BY <1>6, <1>10, <2>2, <3>2
  <2>3. CASE e # N + 1
    <3>1. e \in 1 .. N
      BY <1>13, <1>15, <2>3
    <3>2. e \in others
      BY <1>2, <1>4, <1>11, <2>1, <3>1
    <3>3. QED
      BY <1>2, <1>5, <1>10, <3>1, <3>2
  <2>4. QED
    BY <2>2, <2>3
<1>19. Targeted(r, cs, ss)
  BY <1>12 DEF Targeted
<1>20. Good(r, cs, ss)
  BY <1>14, <1>17, <1>18, <1>19 DEF Good
<1>21. /\ oq \in Operations /\ oq[o].pc = "connecting" /\ oq[o].answers = ops[o].answers
       /\ \A p \in Callers : p # o => oq[p] = ops[p]
  BY <1>1 DEF Operations
<1> HIDE DEF oq
<1>22. Clean(r, cs) => Clean(rs, connects)
  BY <1>2, <1>5, <1>10, <1>12, <1>13, <1>16 DEF Clean
<1>23. Once(r, cs, ss, oq)
  <2>1. SUFFICES ASSUME Clean(r, cs)
                 PROVE  /\ \A p \in Callers :
                             /\ oq[p].answers <= 1
                             /\ oq[p].pc \notin {"sent", "error"} => oq[p].answers = 0
                        /\ \A e \in DOMAIN cs : Asking(ss[e]) # {} => oq[cs[e].owner].pc = "connecting"
                        /\ \A e, f \in DOMAIN cs :
                             e # f /\ Asking(ss[e]) # {} /\ Asking(ss[f]) # {} => cs[e].owner # cs[f].owner
    BY DEF Once
  <2>2. /\ \A p \in Callers :
             /\ ops[p].answers <= 1
             /\ ops[p].pc \notin {"sent", "error"} => ops[p].answers = 0
        /\ \A e \in 1 .. N : Asking(sockets[e]) # {} => ops[connects[e].owner].pc = "connecting"
        /\ \A e, f \in 1 .. N :
             e # f /\ Asking(sockets[e]) # {} /\ Asking(sockets[f]) # {} => connects[e].owner # connects[f].owner
    BY <1>1, <1>2, <1>22, <2>1 DEF Once
  <2>3. \A e \in 1 .. N : cs[e].owner = connects[e].owner /\ ss[e] = sockets[e]
    BY <1>2, <1>5, <1>10, <1>11
  <2>4. \A p \in Callers : /\ oq[p].answers <= 1
                           /\ oq[p].pc \notin {"sent", "error"} => oq[p].answers = 0
    BY <1>21, <2>2
  <2>5. \A e \in 1 .. N : Asking(ss[e]) # {} => cs[e].owner # o /\ ops[cs[e].owner].pc = "connecting"
    BY <2>2, <2>3
  <2>6. \A e \in 1 .. N : cs[e].owner \in Callers
    BY <1>1, <1>2, <2>3, Shape
  <2>7. cs[N + 1].owner = o
    BY <1>6, <1>10
  <2>8. \A e \in DOMAIN cs : Asking(ss[e]) # {} => oq[cs[e].owner].pc = "connecting"
    BY <1>13, <1>15, <1>21, <2>5, <2>6, <2>7
  <2>9. \A e, f \in DOMAIN cs :
          e # f /\ Asking(ss[e]) # {} /\ Asking(ss[f]) # {} => cs[e].owner # cs[f].owner
    <3>1. SUFFICES ASSUME NEW e \in DOMAIN cs, NEW f \in DOMAIN cs,
                          e # f, Asking(ss[e]) # {}, Asking(ss[f]) # {}
                   PROVE  cs[e].owner # cs[f].owner
      OBVIOUS
    <3>2. (e = N + 1 \/ e \in 1 .. N) /\ (f = N + 1 \/ f \in 1 .. N)
      BY <1>13, <1>15
    <3>3. CASE e = N + 1 /\ f \in 1 .. N
      BY <2>5, <2>7, <3>1, <3>3
    <3>4. CASE f = N + 1 /\ e \in 1 .. N
      BY <2>5, <2>7, <3>1, <3>4
    <3>5. CASE e \in 1 .. N /\ f \in 1 .. N
      <4>1. Asking(sockets[e]) # {} /\ Asking(sockets[f]) # {}
        BY <2>3, <3>1, <3>5
      <4>2. connects[e].owner # connects[f].owner
        BY <2>2, <3>1, <3>5, <4>1
      <4>3. QED
        BY <2>3, <3>5, <4>2
    <3>6. QED
      BY <3>1, <3>2, <3>3, <3>4, <3>5
  <2>10. QED
    BY <2>4, <2>8, <2>9
<1>24. Awaited(r, cs, ss, oq)
  <2>1. SUFFICES ASSUME NEW p \in Callers, oq[p].pc = "connecting", Spared(p, r, cs)
                 PROVE  Pending(p, r, cs, ss)
    BY DEF Awaited
  <2>2. CASE p = o
    <3>1. N + 1 \in DOMAIN cs /\ cs[N + 1].owner = o /\ Asked(ss[N + 1]) = r.servers
      BY <1>6, <1>7, <1>10, <1>11, <1>12, <1>13, <1>16
    <3>2. Asking(ss[N + 1]) # {}
      BY <1>2, <1>7, <1>11, Constants
    <3>3. Cardinality(cs[N + 1].connected) + cs[N + 1].errors = Cardinality(Heard(ss[N + 1]))
      BY <1>6, <1>7, <1>10, <1>11, Sizes
    <3>4. QED
      BY <2>2, <3>1, <3>2, <3>3 DEF Pending
  <2>3. CASE p # o
    <3>1. ops[p].pc = "connecting" /\ Spared(p, rs, connects)
      <4>1. ops[p].pc = "connecting"
        BY <1>21, <2>1, <2>3
      <4>2. \A e \in DOMAIN connects :
              e \in DOMAIN cs /\ cs[e].owner = connects[e].owner /\ connects[e].trouble \subseteq cs[e].trouble
        BY <1>2, <1>5, <1>10, <1>13, <1>16
      <4>3. Spared(p, rs, connects)
        BY <1>12, <2>1, <4>2 DEF Spared
      <4>4. QED
        BY <4>1, <4>3
    <3>2. PICK e \in DOMAIN connects : connects[e].owner = p /\ Asking(sockets[e]) # {}
      BY <1>1, <3>1 DEF Awaited, Pending
    <3>3. "met" \in cs[e].trouble /\ cs[e].owner = p /\ e \in DOMAIN cs
      BY <1>2, <1>4, <1>5, <1>10, <1>13, <1>16, <3>2
    <3>4. QED
      BY <2>1, <3>3 DEF Spared
  <2>4. QED
    BY <2>2, <2>3
<1>25. QED
  BY <1>1, <1>3, <1>20, <1>21, <1>23, <1>24, NextState

LEMMA ExecuteStep ==
  ASSUME IInv, NEW o \in Ops, Execute(o)
  PROVE  IInv'
<1>1. /\ Good(rs, connects, sockets) /\ db \in Databases /\ ops \in Operations
      /\ Once(rs, connects, sockets, ops) /\ Awaited(rs, connects, sockets, ops)
      /\ Typed(rs, connects, sockets)
  BY DEF IInv, Good
<1>2. o \in Callers
  BY DEF Callers
<1>3. ops[o].pc = "none"
  BY DEF Execute
<1>4. Idle(o, rs, connects, sockets, ops)
  BY <1>1, <1>3 DEF Idle, Once
<1>5. AwaitedBy(Callers \ {o}, rs, connects, sockets, ops)
  BY <1>1 DEF AwaitedBy, Awaited
<1>6. \/ Dispatch(o, rs, db, connects, sockets)
      \/ /\ db' = [db EXCEPT !.initializing = TRUE]
         /\ ops' = [ops EXCEPT ![o].pc = "wait"]
         /\ UNCHANGED <<rs, connects, sockets>>
  BY Zenon DEF Execute
<1>7. db' \in Databases /\ Faded(rs, connects, sockets, rs', connects', sockets') /\ Called(o, ops, ops')
  <2>1. CASE Dispatch(o, rs, db, connects, sockets)
    BY <1>1, <1>2, <2>1, DispatchIs
  <2>2. CASE /\ db' = [db EXCEPT !.initializing = TRUE]
             /\ ops' = [ops EXCEPT ![o].pc = "wait"]
             /\ UNCHANGED <<rs, connects, sockets>>
    <3>1. db' \in Databases
      BY <1>1, <2>2 DEF Databases
    <3>2. Faded(rs, connects, sockets, rs', connects', sockets')
      BY <1>1, <2>2, FadedSame
    <3>3. 0 \in 0 .. Retries
      BY Constants
    <3>4. Called(o, ops, ops')
      BY <1>1, <1>2, <2>2, <3>3, WaitingCalls
    <3>5. QED
      BY <3>1, <3>2, <3>4
  <2>3. QED
    BY <1>6, <2>1, <2>2
<1>8. QED
  BY <1>1, <1>2, <1>4, <1>5, <1>7, CalledStep

-----------------------------------------------------------------------------
(* The specification                                                       *)

LEMMA InitIInv == Init => IInv
<1> SUFFICES ASSUME Init PROVE IInv
  OBVIOUS
<1>1. /\ connects = <<>> /\ sockets = <<>> /\ rs.target = None /\ rs.servers = Seeds
      /\ rs.master = {} /\ rs.live = {} /\ rs.secondaries = {}
  BY DEF Init
<1>2. connects \in Seq(ConnectCalls) /\ sockets \in Seq([Servers -> Phases])
      /\ DOMAIN connects = {} /\ DOMAIN sockets = {} /\ Len(sockets) = Len(connects)
  BY <1>1
<1>3. rs \in Objects
  BY Constants DEF Init, Objects
<1>4. Typed(rs, connects, sockets)
  BY <1>1, <1>2, <1>3 DEF Typed
<1>5. Counted(rs, connects, sockets) /\ Meetings(connects, sockets) /\ Targeted(rs, connects, sockets)
  BY <1>1, <1>2 DEF Counted, Meetings, Targeted
<1>6. db \in Databases /\ ops \in Operations
  <2>1. Retries \in 0 .. Retries
    BY Constants
  <2>2. QED
    BY <2>1 DEF Init, Databases, Operations
<1>7. \A o \in Callers : ops[o].answers = 0 /\ ops[o].pc = "none"
  BY DEF Init
<1>8. Once(rs, connects, sockets, ops) /\ Awaited(rs, connects, sockets, ops)
  BY <1>2, <1>7 DEF Once, Awaited
<1>9. QED
  BY <1>4, <1>5, <1>6, <1>8 DEF IInv, Good

LEMMA NextIInv == IInv /\ [Next]_vars => IInv'
<1> SUFFICES ASSUME IInv, [Next]_vars PROVE IInv'
  OBVIOUS
<1>1. CASE Open
  <2>1. ops["open"].pc \in {"none", "wait"} /\ Connect("open") /\ "open" \in Callers
    BY <1>1 DEF Open, Callers
  <2>2. QED
    BY <2>1, ConnectStep
<1>2. ASSUME NEW o \in Ops, Execute(o) PROVE IInv'
  BY <1>2, ExecuteStep
<1>3. ASSUME NEW o \in Ops, ReconnectAttempt(o) PROVE IInv'
  <2>1. ops[o].pc \in {"none", "wait"} /\ Connect(o) /\ o \in Callers
    BY <1>3 DEF ReconnectAttempt, Callers
  <2>2. QED
    BY <2>1, ConnectStep
<1>4. ASSUME NEW c \in DOMAIN connects, NEW s \in Servers,
             \/ SocketOpen(c, s) \/ ConnectError(c, s) \/ Reopen(c, s) \/ Break(c, s)
             \/ \E rep \in Reports : Reply(c, s, rep)
      PROVE  IInv'
  <2>1. CASE SocketOpen(c, s)
    BY <2>1, SocketOpenStep
  <2>2. CASE ConnectError(c, s)
    BY <2>2, ConnectErrorStep
  <2>3. CASE Reopen(c, s)
    BY <2>3, ReopenStep
  <2>4. CASE Break(c, s)
    BY <2>4, BreakStep
  <2>5. ASSUME NEW rep \in Reports, Reply(c, s, rep) PROVE IInv'
    BY <2>5, ReplyStep
  <2>6. QED
    BY <1>4, <2>1, <2>2, <2>3, <2>4, <2>5
<1>5. CASE UNCHANGED vars
  BY <1>5, NextState DEF vars, IInv
<1>6. QED
  BY <1>1, <1>2, <1>3, <1>4, <1>5 DEF Next, Call, Event, Fail

\* The inductive invariant holds of every replica set, whatever number of
\* operations connect again and however often, and however many sockets break.
THEOREM Invariance == Spec => []IInv
<1>1. Init => IInv
  BY InitIInv
<1>2. IInv /\ [Next]_vars => IInv'
  BY NextIInv
<1>3. QED
  BY <1>1, <1>2, PTL DEF Spec

\* The addresses of a ReplSetServers object are those of its list of servers,
\* and no connect counts more replies and errors than it has servers.
THEOREM ReplSetTypeCorrect == Spec => []TypeOK
<1>1. IInv => TypeOK
  <2> SUFFICES ASSUME IInv PROVE TypeOK
    OBVIOUS
  <2>1. Typed(rs, connects, sockets) /\ Counted(rs, connects, sockets)
    BY DEF IInv, Good
  <2>2. ASSUME NEW c \in DOMAIN connects
        PROVE  /\ connects[c].owner \in Callers /\ connects[c].pool \in [Servers -> Pools]
               /\ connects[c].connected \subseteq {s \in rs.servers : sockets[c][s] \notin Waiting \cup {"none"}}
               /\ Cardinality(connects[c].connected) + connects[c].errors <= Cardinality(rs.servers)
    <3>1. /\ connects[c].connected \subseteq Heard(sockets[c])
          /\ Cardinality(connects[c].connected) + connects[c].errors <= Cardinality(Heard(sockets[c]))
          /\ Asked(sockets[c]) \subseteq rs.servers
      BY <2>1 DEF Counted
    <3>2. connects[c].owner \in Callers /\ connects[c].pool \in [Servers -> Pools]
          /\ connects[c].connected \in SUBSET Servers /\ connects[c].errors \in Nat
      BY <2>1, Shape
    <3>3. Heard(sockets[c]) \subseteq rs.servers /\ Heard(sockets[c]) \in SUBSET Servers
          /\ rs.servers \in SUBSET Servers
      BY <2>1, <3>1 DEF Heard, Asked, Typed, Objects
    <3>4. /\ Cardinality(Heard(sockets[c])) <= Cardinality(rs.servers)
          /\ Cardinality(Heard(sockets[c])) \in Nat /\ Cardinality(rs.servers) \in Nat
          /\ Cardinality(connects[c].connected) \in Nat
      BY <3>2, <3>3, Sizes
    <3>5. Cardinality(connects[c].connected) + connects[c].errors <= Cardinality(rs.servers)
      BY <3>1, <3>2, <3>4
    <3>6. connects[c].connected \subseteq {s \in rs.servers : sockets[c][s] \notin Waiting \cup {"none"}}
      BY <3>1, <3>3 DEF Heard
    <3>7. QED
      BY <3>2, <3>5, <3>6
  <2>3. /\ db \in Databases /\ ops \in Operations
    BY DEF IInv
  <2>4. /\ rs.servers \subseteq Servers /\ rs.setName \in {"none", "set", "otherset"}
    BY <2>1 DEF Typed, Objects
  <2>5. QED
    BY <2>1, <2>2, <2>3, <2>4 DEF TypeOK, Typed, Databases, Operations
<1>2. QED
  BY Invariance, <1>1, PTL

\* No caller of Db.open or of an operation is answered twice, although each
\* reply and each error may be the one that ends its connect; and a caller whose
\* connect has heard of every server has been called back.
THEOREM CallersAnsweredOnce == Spec => []AnsweredOnce
<1>1. IInv => AnsweredOnce
  <2> SUFFICES ASSUME IInv, NEW o \in Callers
               PROVE  /\ ops[o].answers > 1 =>
                           \/ rs.otherErrors
                           \/ \E c \in DOMAIN connects : "error" \in connects[c].trouble
                      /\ ops[o].pc = "connecting" =>
                           \/ \E c \in DOMAIN connects, s \in Servers :
                                connects[c].owner = o /\ sockets[c][s] \in Waiting
                           \/ Excused(o)
    BY DEF AnsweredOnce
  <2>1. Once(rs, connects, sockets, ops) /\ Awaited(rs, connects, sockets, ops) /\ ops \in Operations
    BY DEF IInv
  <2>2. ASSUME ops[o].answers > 1, Clean(rs, connects) PROVE FALSE
    <3>1. ops[o].answers <= 1 /\ ops[o].answers \in Nat
      BY <2>1, <2>2 DEF Once, Operations
    <3>2. QED
      BY <2>2, <3>1
  <2>3. ASSUME ops[o].pc = "connecting", ~Excused(o)
        PROVE  \E c \in DOMAIN connects, s \in Servers : connects[c].owner = o /\ sockets[c][s] \in Waiting
    <3>1. Spared(o, rs, connects)
      BY <2>3 DEF Excused, Spared
    <3>2. PICK c \in DOMAIN connects : connects[c].owner = o /\ Asking(sockets[c]) # {}
      BY <2>1, <2>3, <3>1 DEF Awaited, Pending
    <3>3. QED
      BY <3>2 DEF Asking
  <2>4. QED
    BY <2>2, <2>3 DEF Clean
<1>2. QED
  BY Invariance, <1>1, PTL

\* The server operations are written to said that it is the master when it was
\* last asked, unless connects have met.
THEOREM TargetsAreMasters == Spec => []TargetIsMaster
<1>1. IInv => TargetIsMaster
  <2> SUFFICES ASSUME IInv, rs.target \in rs.live
               PROVE  \/ rs.target \in rs.master
                      \/ \E c \in DOMAIN connects : "met" \in connects[c].trouble
    BY DEF TargetIsMaster
  <2>1. Typed(rs, connects, sockets) /\ Targeted(rs, connects, sockets)
    BY DEF IInv, Good
  <2>2. rs.target # None
    BY <2>1, Constants DEF Typed, Objects
  <2>3. QED
    BY <2>1, <2>2 DEF Targeted, NoneMet
<1>2. QED
  BY Invariance, <1>1, PTL
=============================================================================
