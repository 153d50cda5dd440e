----------------------------- MODULE MongoReplSet -----------------------------
(***************************************************************************)
(* ReplSetServers of node-mongodb-native: the connect that asks every      *)
(* server of a replica set who it is, discovers the others, and calls back *)
(* when it has counted them all; and the operations of a Db on it, which   *)
(* connect again, up to a number of retries, when there is no primary.     *)
(*                                                                         *)
(* Every operation that finds no primary connects for itself: connects may *)
(* overlap, each with counters of its own and the list of servers shared.  *)
(* A server has one socket for every connect; the operations use the last, *)
(* and a server that was discovered puts another in its place.             *)
(*                                                                         *)
(* A server may be anything each time it is asked: a set elects a primary  *)
(* at any moment, and an address may be that of a server of another set.   *)
(***************************************************************************)
EXTENDS Integers, Sequences, FiniteSets

CONSTANTS
  Servers,      (* the members of the replica set                           *)
  Seeds,        (* those the program names; the others are discovered       *)
  Ops,          (* the operations of the program                            *)
  Retries,      (* ReplSetServers.retries                                   *)
  Roles,        (* what a server may turn out to be                         *)
  ReadSecondary, (* ReplSetServers.readSecondary                            *)
  SetName,      (* ReplSetServers.replicaSet, "none" when it is not given   *)
  MaxEvents,    (* bound: connects and broken sockets                       *)
  None

ASSUME ReplSetAssumption ==
  /\ IsFiniteSet(Servers) /\ Seeds \subseteq Servers /\ Seeds # {}
  /\ None \notin Servers
  /\ "open" \notin Ops
  /\ Roles \subseteq {"primary", "secondary", "other", "alone", "error"}
  /\ Retries \in Nat \ {0} /\ ReadSecondary \in BOOLEAN /\ SetName \in {"none", "set"}
  /\ MaxEvents \in Nat

VARIABLES
  rs,           (* the ReplSetServers object                                *)
  db,           (* Db.state and Db.isInitializing                           *)
  connects,     (* the calls of connect: owner, the servers that replied,   *)
                (* the number of errors, the pools its connections send on, *)
                (* and (history) what disturbed it                          *)
  sockets,      (* the socket of each server, for every call of connect     *)
  ops,          (* the callers: Db.open and the operations                  *)
  breaks        (* history: sockets that have broken                        *)

vars == <<rs, db, connects, sockets, ops, breaks>>

Callers == {"open"} \cup Ops

\* What a server answers to isMaster.  "alone" is a master of no set, "other"
\* an arbiter or a member that recovers, "error" a reply with an error.  "set"
\* is the set of the name that was given, or else of the first primary.
Reports == [role : Roles \cap {"primary"}, set : {"set", "otherset"}]
           \cup [role : Roles \ {"primary"}, set : {"none"}]

-----------------------------------------------------------------------------
(* The primary                                                             *)

\* The getter `primary`; without a target any server that was a master.
Primary(r) ==
  IF r.target # None THEN {r.target} ELSE r.servers \cap r.master \cap r.live

IsConnected(r) == Primary(r) # {} /\ Primary(r) \subseteq r.live

\* No master, although there are secondaries and they are not to be read.
NoMaster(r) == Primary(r) = {} /\ ~ReadSecondary /\ r.secondaries # {}

\* The pool a connection sends on: the socket connect opened, or another that
\* send has put in its place once and for all.
Pools == {"first", "opening", "open", "gone"}

\* Server p can be written to.
Writable(p, r, cs, ss) ==
  LET c == r.latest[p]
  IN /\ c # 0
     /\ \/ cs[c].pool[p] = "first" /\ ss[c][p] \in {"asked", "ready"}
        \/ cs[c].pool[p] = "open"

\* A socket whose reply to isMaster, or error, may still come; "ending" and
\* "unopened" are those that have been closed meanwhile.
Waiting == {"opening", "asked", "ending", "unopened"}

\* A socket that is closed; kept: its reply or error will come all the same.
\* One that is closed before it opened never asks, and one that opens beside
\* the pool in its place is not closed.
Ended(phase, pool, kept) ==
  IF phase \in {"opening", "unopened"} /\ pool # "first" THEN phase
  ELSE CASE phase = "ready" \/ (phase \in Waiting /\ ~kept) -> "broken"
         [] phase = "asked" /\ kept   -> "ending"
         [] phase = "opening" /\ kept -> "unopened"
         [] OTHER -> phase

\* Every server is closed; the sockets of K will still bring their reply or
\* error.
Closed(r, cs, ss, K) ==
  [c \in DOMAIN ss |-> [s \in Servers |->
     IF r.latest[s] = c THEN Ended(ss[c][s], cs[c].pool[s], s \in K) ELSE ss[c][s]]]

\* And so are the pools that send has put in.
Hung(r, cs) ==
  [c \in DOMAIN cs |-> [cs[c] EXCEPT !.pool = [s \in Servers |->
     IF r.latest[s] = c /\ @[s] # "first" THEN "gone" ELSE @[s]]]]

Undecided(r, ss) == {s \in r.servers : r.latest[s] # 0 /\ ss[r.latest[s]][s] \in Waiting}

\* The connects, when the sockets ss become those of tt.
Losing(cs, ss, tt) ==
  [c \in DOMAIN cs |->
     IF \E s \in Servers : ss[c][s] \in Waiting /\ tt[c][s] = "broken"
     THEN [cs[c] EXCEPT !.trouble = @ \cup {"lost"}] ELSE cs[c]]

-----------------------------------------------------------------------------
(* Callers.  r, d, cs, ss: the object, the Db, the connects and the sockets *)

Set(r, d, cs, ss) == rs' = r /\ db' = d /\ connects' = cs /\ sockets' = ss

Answered(o, p) == [ops EXCEPT ![o].pc = p, ![o].answers = @ + 1]

\* A discovered server that cannot be written to gets another pool, once.  The
\* reply on the old socket will not be heard.
Replaced(cs, ss, c, p) ==
  [cs EXCEPT ![c].pool[p] = "opening",
             ![c].trouble = IF ss[c][p] = "ending" THEN @ \cup {"replaced"} ELSE @]

\* The operation is written to the primary.  No primary is an error; when the
\* socket of a seed is closed everything is disconnected; a server that has been
\* discovered keeps what it was to send for a pool that nothing resends it on.
Dispatch(o, r, d, cs, ss) ==
  \/ /\ Primary(r) = {}
     /\ ops' = Answered(o, "error")
     /\ Set(r, d, cs, ss)
  \/ \E p \in Primary(r) :
       \/ /\ Writable(p, r, cs, ss)
          /\ ops' = Answered(o, "sent")
          /\ Set(r, d, cs, ss)
       \/ /\ ~Writable(p, r, cs, ss) /\ p \in Seeds
          /\ ops' = Answered(o, "error")
          /\ \E K \in SUBSET Undecided(r, ss) :
               LET tt == Closed(r, cs, ss, K)
               IN Set([r EXCEPT !.master = {}, !.live = {}, !.secondaries = {}],
                      d, Losing(Hung(r, cs), ss, tt), tt)
       \/ /\ ~Writable(p, r, cs, ss) /\ p \notin Seeds
          /\ ops' = [ops EXCEPT ![o].pc = "queued"]
          /\ LET c == r.latest[p]
             IN IF cs[c].pool[p] = "first"
                THEN Set(r, d, Replaced(cs, ss, c, p),
                         [ss EXCEPT ![c][p] = IF @ = "ending" THEN "unheard" ELSE @])
                ELSE Set(r, d, cs, ss)

\* The callback of connect: that of Db.open, or that of an operation, which
\* tries again after an error while it has retries left.
Callback(o, ok, r, d, cs, ss) ==
  LET di == [d EXCEPT !.initializing = TRUE]
      left == ops[o].retries - 1
  IN \/ /\ o = "open"
        /\ ops' = Answered(o, IF ok THEN "sent" ELSE "error")
        /\ Set(r, d, cs, ss)
     \/ /\ o # "open" /\ ok
        /\ Dispatch(o, r, di, cs, ss)
     \/ /\ o # "open" /\ ~ok
        /\ ops' = IF left > 0 THEN [ops EXCEPT ![o].pc = "wait", ![o].retries = left]
                  ELSE Answered(o, "error")
        /\ Set(r, di, cs, ss)

-----------------------------------------------------------------------------
(* connect                                                                 *)

\* Mutant: the target stays.
TargetKept == rs.target

TargetForgotten == None

\* Every server of the list gets a new socket, and the target is forgotten.
Connect(o) ==
  LET c == Len(connects) + 1
      others == {e \in DOMAIN connects : \E s \in Servers : sockets[e][s] \in Waiting}
      Meeting(met) == IF met THEN {"met"} ELSE {}
  IN /\ c + breaks <= MaxEvents
     /\ connects' =
          Append([e \in DOMAIN connects |-> [connects[e] EXCEPT !.trouble = @ \cup Meeting(e \in others)]],
                 [owner |-> o, connected |-> {}, errors |-> 0,
                  pool |-> [s \in Servers |-> "first"], trouble |-> Meeting(others # {})])
     /\ sockets' = Append(sockets, [s \in Servers |-> IF s \in rs.servers THEN "opening" ELSE "none"])
     /\ rs' = [rs EXCEPT !.addresses = rs.servers, !.target = TargetForgotten,
                         !.latest = [s \in Servers |-> IF s \in rs.servers THEN c ELSE @[s]]]
     /\ ops' = [ops EXCEPT ![o].pc = "connecting"]
     /\ UNCHANGED <<db, breaks>>

\* Db.open.
Open == ops["open"].pc = "none" /\ Connect("open")

\* An operation, after Db.open has been called.
Execute(o) ==
  /\ ops["open"].pc # "none"
  /\ ops[o].pc = "none"
  /\ IF IsConnected(rs) THEN Dispatch(o, rs, db, connects, sockets)
     ELSE /\ db' = [db EXCEPT !.initializing = TRUE]
          /\ ops' = [ops EXCEPT ![o].pc = "wait"]
          /\ UNCHANGED <<rs, connects, sockets>>
  /\ UNCHANGED breaks

\* reconnectWait is over.
ReconnectAttempt(o) == ops[o].pc = "wait" /\ Connect(o)

-----------------------------------------------------------------------------
(* Sockets                                                                 *)

Becomes(c, s, phase) == [sockets EXCEPT ![c][s] = phase]

\* The socket is open: isMaster is sent on the pool, and the last connection of
\* the server listens for the reply.  It is not heard when the pool is another
\* that is not open, or the connection is not the last.
SocketOpen(c, s) ==
  LET heard == rs.latest[s] = c /\ connects[c].pool[s] \in {"first", "open"}
  IN /\ sockets[c][s] = "opening"
     /\ sockets' = Becomes(c, s, IF heard THEN "asked" ELSE "unheard")
     /\ connects' = [connects EXCEPT ![c].trouble = IF heard THEN @ ELSE @ \cup {"replaced"}]
     /\ UNCHANGED <<rs, db, ops, breaks>>

\* The error listener of a socket that could not be opened.  An error does not
\* count when another connect has just ended.
ConnectError(c, s) ==
  LET errors == connects[c].errors + 1
      cs == [connects EXCEPT ![c].errors = errors]
      ss == Becomes(c, s, "failed")
      all == Cardinality(connects[c].connected) + errors = Cardinality(rs.servers)
  IN /\ sockets[c][s] \in {"opening", "unopened"}
     /\ \/ /\ ~db.initializing
           /\ sockets' = ss
           /\ connects' = [connects EXCEPT ![c].trouble = @ \cup {"uncounted"}]
           /\ UNCHANGED <<rs, db, ops>>
        \/ /\ db.initializing /\ ~all
           /\ sockets' = ss /\ connects' = cs
           /\ UNCHANGED <<rs, db, ops>>
        \/ /\ db.initializing /\ all
           /\ Callback(connects[c].owner, db.state = "connected",
                       rs, [db EXCEPT !.initializing = FALSE], cs, ss)
     /\ UNCHANGED breaks

\* The socket of a connection breaks; only the writes to it will notice, and
\* nobody when its reply has come and a later connect has opened another.
Break(c, s) ==
  /\ breaks + Len(connects) < MaxEvents
  /\ breaks' = breaks + 1
  /\ \/ sockets[c][s] \in {"asked", "ending"}
     \/ rs.latest[s] = c /\ (sockets[c][s] = "ready" \/ connects[c].pool[s] = "open")
  /\ sockets' = [sockets EXCEPT ![c][s] = IF @ \in {"asked", "ending", "ready"} THEN "broken" ELSE @]
  /\ connects' = [Losing(connects, sockets, sockets') EXCEPT
                    ![c].pool[s] = IF @ = "open" THEN "gone" ELSE @]
  /\ UNCHANGED <<rs, db, ops>>

\* The pool that was put in opens, or fails to.
Reopen(c, s) ==
  /\ connects[c].pool[s] = "opening"
  /\ \E pool \in {"open", "gone"} : connects' = [connects EXCEPT ![c].pool[s] = pool]
  /\ UNCHANGED <<rs, db, sockets, ops, breaks>>

-----------------------------------------------------------------------------
(* The reply to isMaster                                                   *)

\* The server has said who it is.
Known(r, s, rep) ==
  [r EXCEPT !.live = @ \cup {s},
            !.master = IF rep.role \in {"primary", "alone"} THEN @ \cup {s} ELSE @ \ {s},
            !.secondaries = IF rep.role = "secondary" THEN @ \cup {s} ELSE @,
            !.target = IF rep.role = "primary" THEN s ELSE @,
            !.setName = IF rep.role = "primary" /\ @ = "none" THEN rep.set ELSE @]

WrongSet(rep) == rep.role = "primary" /\ rs.setName \notin {"none", rep.set}

\* Mutant: a server that has been discovered is so again.
FoundAgain(r, rep) == IF rep.role = "alone" THEN {} ELSE Servers \ Seeds

\* The members the reply names and that have no address yet.
Found(r, rep) == IF rep.role = "alone" THEN {} ELSE Servers \ r.addresses

\* They join the list, and this connect opens their sockets.
Discovered(r, c, new) ==
  [r EXCEPT !.servers = @ \cup new, !.addresses = @ \cup new,
            !.latest = [s \in Servers |-> IF s \in new THEN c ELSE @[s]]]

\* Mutant: connect ends with the master.
MasterAnswered(n, r) == n >= Cardinality(r.servers) \/ r.target # None

\* What ends a connect: every server of the list has replied, or has replied
\* or failed.
AllAnswered(n, r) == n >= Cardinality(r.servers)
AllCounted(n, r) == n >= Cardinality(r.servers)

Reply(c, s, rep) ==
  LET o == connects[c].owner
      cs == [connects EXCEPT ![c].connected = @ \cup {s},
                             ![c].trouble = IF rep.role = "error" THEN @ \cup {"error"} ELSE @]
      ss == Becomes(c, s, IF sockets[c][s] = "asked" THEN "ready" ELSE "broken")
      known == Known(rs, s, rep)
      new == Found(known, rep)
      r == Discovered(known, c, new)
      tt == [ss EXCEPT ![c] = [x \in Servers |-> IF x \in new THEN "opening" ELSE @[x]]]
      n == Cardinality(cs[c].connected)
      ended == [db EXCEPT !.initializing = FALSE]
      allAnswered == AllAnswered(n, r) /\ db.state = "notConnected"
      \* we have the master, the others may connect later
      withMaster == IF s \in r.master THEN [r EXCEPT !.target = s] ELSE r
      state == IF s \in r.master THEN "connected" ELSE db.state
      allCounted == AllCounted(n + connects[c].errors, r)
  IN /\ sockets[c][s] \in {"asked", "ending"}
     /\ rs.setName = "none" => rep.set # "otherset"
     /\ \/ /\ rs.otherErrors
           /\ sockets' = ss
           /\ UNCHANGED <<rs, db, connects, ops>>
        \/ /\ ~rs.otherErrors /\ rep.role = "error"
           /\ Callback(o, FALSE, rs, db, cs, ss)
        \/ /\ ~rs.otherErrors /\ WrongSet(rep)
           /\ \E K \in SUBSET Undecided(rs, ss) :
                LET uu == Closed(rs, cs, ss, K)
                IN Callback(o, FALSE,
                            [known EXCEPT !.otherErrors = TRUE, !.live = {}, !.master = {}],
                            db, Losing(Hung(rs, cs), ss, uu), uu)
        \/ /\ ~rs.otherErrors /\ rep.role # "error" /\ ~WrongSet(rep)
           /\ \/ /\ allAnswered
                 /\ Callback(o, ~NoMaster(r), r,
                             IF NoMaster(r) THEN ended ELSE [ended EXCEPT !.state = "connected"], cs, tt)
              \/ /\ ~allAnswered /\ allCounted
                 /\ Callback(o, ~NoMaster(withMaster) /\ state = "connected", withMaster,
                             [ended EXCEPT !.state = state], cs, tt)
              \/ /\ ~allAnswered /\ ~allCounted
                 /\ Set(withMaster, [db EXCEPT !.state = state], cs, tt)
                 /\ UNCHANGED ops
     /\ UNCHANGED breaks

-----------------------------------------------------------------------------
Init ==
  /\ rs = [servers |-> Seeds, addresses |-> {}, master |-> {}, live |-> {}, secondaries |-> {},
           target |-> None, otherErrors |-> FALSE, setName |-> SetName,
           latest |-> [s \in Servers |-> 0]]
  /\ db = [state |-> "notConnected", initializing |-> TRUE]
  /\ connects = <<>>
  /\ sockets = <<>>
  /\ ops = [o \in Callers |-> [pc |-> "none", retries |-> Retries, answers |-> 0]]
  /\ breaks = 0

Call == Open \/ \E o \in Ops : Execute(o)

Event ==
  \/ \E o \in Ops : ReconnectAttempt(o)
  \/ \E c \in DOMAIN connects, s \in Servers :
       SocketOpen(c, s) \/ ConnectError(c, s) \/ Reopen(c, s) \/ \E rep \in Reports : Reply(c, s, rep)

Fail == \E c \in DOMAIN connects, s \in Servers : Break(c, s)

Next == Call \/ Event \/ Fail

Spec == Init /\ [][Next]_vars

-----------------------------------------------------------------------------
(* Properties                                                              *)

Phases == {"none", "opening", "asked", "ready", "failed", "broken", "ending", "unopened", "unheard"}

\* Every variable holds a value of its kind; the addresses are those of the
\* list; a connect counts a server once, and only servers of the list.
TypeOK ==
  /\ rs.servers \subseteq Servers /\ Seeds \subseteq rs.servers
  /\ connects # <<>> => rs.addresses = rs.servers
  /\ rs.master \cup rs.live \cup rs.secondaries \subseteq rs.servers
  /\ rs.target \in rs.servers \cup {None}
  /\ rs.setName \in {"none", "set", "otherset"}
  /\ db \in [state : {"notConnected", "connected"}, initializing : BOOLEAN]
  /\ \A c \in DOMAIN connects :
       /\ connects[c].owner \in Callers /\ connects[c].pool \in [Servers -> Pools]
       /\ connects[c].connected \subseteq {s \in rs.servers : sockets[c][s] \notin Waiting \cup {"none"}}
       /\ Cardinality(connects[c].connected) + connects[c].errors <= Cardinality(rs.servers)
  /\ sockets \in Seq([Servers -> Phases]) /\ Len(sockets) = Len(connects)
  /\ ops \in [Callers -> [pc : {"none", "wait", "connecting", "queued", "sent", "error"},
                         retries : 0 .. Retries, answers : Nat]]

\* The server that operations are written to said it is the master when it was
\* last asked, however often the master has changed and in whatever order the
\* servers answer, unless connects have met.
TargetIsMaster ==
  rs.target \in rs.live =>
    \/ rs.target \in rs.master
    \/ \E c \in DOMAIN connects : "met" \in connects[c].trouble

\* Why caller o may wait for ever: one of its connects has lost a reply, has met
\* another, or met an error after another one ended; an operation, or another
\* connect, has replaced the connection it asks on; or a server has answered for
\* another set.
Excused(o) ==
  \/ rs.otherErrors
  \/ \E c \in DOMAIN connects :
       connects[c].owner = o /\ connects[c].trouble \cap {"lost", "met", "uncounted", "replaced"} # {}

\* No caller is answered twice, so that no operation is executed twice,
\* although every reply and every error may be the one that ends a connect and
\* connects overlap, unless a server answered for another set or with an error.
\* And a caller whose connect has heard of every server it will hear of has been
\* called back: the counting comes to its end in whatever order servers reply,
\* fail, and are discovered.
AnsweredOnce ==
  \A o \in Callers :
    /\ ops[o].answers > 1 =>
         \/ rs.otherErrors
         \/ \E c \in DOMAIN connects : "error" \in connects[c].trouble
    /\ ops[o].pc = "connecting" =>
         \/ \E c \in DOMAIN connects, s \in Servers : connects[c].owner = o /\ sockets[c][s] \in Waiting
         \/ Excused(o)
=============================================================================
