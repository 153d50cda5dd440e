------------------------------ MODULE MongoPool ------------------------------
(***************************************************************************)
(* The connection pool of node-mongodb-native: Connection.send, the pool   *)
(* that is set up again when a socket is found closed, the authentication  *)
(* that is replayed on it, and the requests that wait for all this.        *)
(*                                                                         *)
(* The module begins when the callback of Db.open has run, on a pool whose *)
(* sockets are open and, when the caller has authenticated, authenticated. *)
(***************************************************************************)
EXTENDS Integers, Sequences, FiniteSets

CONSTANTS
  PoolSize,      (* Connection.poolSize                                     *)
  MaxSockets,    (* bound: sockets ever created                             *)
  MaxRequests    (* bound: requests of the caller                           *)

ASSUME PoolAssumption ==
  /\ PoolSize \in Nat \ {0}
  /\ MaxSockets \in Nat /\ MaxSockets >= PoolSize
  /\ MaxRequests \in Nat

VARIABLES
  autoReconnect, (* Connection.autoReconnect                                *)
  auths,         (* Db.auths is not empty: one user has authenticated       *)
  throws,        (* a write to a closed socket throws; else it is lost      *)
  pool,          (* Connection.pool, and the keys of poolByReference        *)
  index,         (* Connection.poolIndex, modulo the size of the pool       *)
  messages,      (* Connection.messages                                     *)
  reconnecting,  (* Connection.currently_reconnecting                       *)
  settingUp,     (* waitForConnections polls                                *)
  connectedTo,   (* the counters of setupConnectionPool                     *)
  errors,
  authing,       (* sockets whose authentication is to return: their number *)
                 (* is numberOfExpectedReturns of Db.authenticate           *)
  status,        (* of each socket                                          *)
  made,          (* sockets created                                         *)
  asked,         (* requests made: their ids are 1 .. asked                 *)
  answered,      (* how often the callback of each request has been run     *)
  executed,      (* how often the server has executed each request          *)
  lost,          (* history: requests that were on a socket that closed, or *)
                 (* whose reply came on a socket that is out of the pool    *)
  authed,        (* sockets that the server has authenticated               *)
  toServer,      (* what is on its way on each socket, and in its buffers   *)
  toClient

vars == <<autoReconnect, auths, throws, pool, index, messages, reconnecting, settingUp,
          connectedTo, errors, authing, status, made, asked, answered, executed, lost,
          authed, toServer, toClient>>

config == <<autoReconnect, auths, throws>>
setup == <<settingUp, connectedTo, errors>>
sockets == <<status, made>>
caller == <<asked, answered>>

Sockets == 1 .. MaxSockets
Requests == 1 .. MaxRequests
InPool(s) == \E i \in 1 .. PoolSize : pool[i] = s

Op(r) == [kind |-> "op", id |-> r]
Nonce(s) == [kind |-> "nonce", id |-> s]
Auth(s) == [kind |-> "auth", id |-> s]

OpsIn(q) == {q[j].id : j \in {k \in DOMAIN q : q[k].kind = "op"}}

-----------------------------------------------------------------------------
(* send                                                                    *)

\* getConnection: the sockets of the pool in turn; the k-th from now on.
Turn(k) == pool[((index + k - 1) % PoolSize) + 1]
Advance(k) == index' = (index + k) % PoolSize

\* The turn in which a socket of the pool is taken first.
First(s) == CHOOSE k \in 1 .. PoolSize : Turn(k) = s

Write(s, item) == toServer' = [toServer EXCEPT ![s] = Append(@, item)]

StartsReconnect == ~reconnecting

\* setupConnectionPool, for a reconnect.
SetUp ==
  /\ made + PoolSize <= MaxSockets
  /\ made' = made + PoolSize
  /\ pool' = [i \in 1 .. PoolSize |-> made + i]
  /\ status' = [s \in Sockets |-> IF s \in made + 1 .. made' THEN "opening" ELSE status[s]]
  /\ reconnecting' = TRUE
  /\ settingUp' = TRUE
  /\ connectedTo' = 0
  /\ errors' = 0

\* Mutant: the state of the socket is not looked at.
CanWriteAlways(s) == TRUE

CanWrite(s) == status[s] = "open"

\* A request of the caller: send, with the error of send given to the callback.
Send ==
  LET r == asked + 1
      s == Turn(1)
  IN /\ asked < MaxRequests
     /\ asked' = r
     /\ Advance(1)
     /\ \/ /\ CanWrite(s)
           /\ Write(s, Op(r))
           /\ UNCHANGED <<answered, messages, pool, reconnecting, setup, sockets>>
        \/ /\ ~CanWrite(s) /\ autoReconnect
           /\ messages' = Append(messages, Op(r))
           /\ \/ StartsReconnect /\ SetUp
              \/ ~StartsReconnect /\ UNCHANGED <<pool, reconnecting, setup, sockets>>
           /\ UNCHANGED <<answered, toServer>>
        \/ /\ ~CanWrite(s) /\ ~autoReconnect
           /\ answered' = [answered EXCEPT ![r] = @ + 1]
           /\ UNCHANGED <<messages, pool, reconnecting, setup, sockets, toServer>>
     /\ UNCHANGED <<config, authing, executed, lost, authed, toClient>>

-----------------------------------------------------------------------------
(* The end of a reconnect                                                  *)

\* Mutant: the message is sent, and stays in the queue.
UnsentAll(stop) == messages

\* What the loop of the resend listener leaves in the queue when it stops at
\* message `stop`: that message is gone.
Unsent(stop) == SubSeq(messages, stop + 1, Len(messages))

\* The messages, of the first `stop`, whose turn is that of socket s.
Share(s, stop) ==
  LET n == IF First(s) > stop THEN 0 ELSE (stop - First(s)) \div PoolSize + 1
  IN [j \in 1 .. n |-> messages[First(s) + (j - 1) * PoolSize]]

\* The resend listener: every message to the next socket of the pool, whatever
\* its state.  Listeners of earlier reconnects find the queue empty.
Resend ==
  LET n == Len(messages)
      dead == {k \in 1 .. n : status[Turn(k)] = "closed"}
      stops == {k \in dead : throws /\ \A j \in dead : k <= j}
      stop == IF stops = {} THEN n ELSE CHOOSE k \in stops : TRUE
  IN /\ reconnecting' = FALSE
     /\ Advance(stop)
     /\ messages' = Unsent(stop)
     /\ toServer' = [s \in Sockets |->
          IF InPool(s) /\ status[s] # "closed" THEN toServer[s] \o Share(s, stop) ELSE toServer[s]]
     /\ lost' = lost \cup OpsIn([k \in dead \cap 1 .. stop |-> messages[k]])

\* The numbers of S in ascending order.
Ordered(S) ==
  {s \in [1 .. Cardinality(S) -> S] : \A j, k \in DOMAIN s : j < k => s[j] < s[k]}

\* The listener of Db to "reconnect", with auths: getnonce on every socket of the
\* pool; on a closed one the message is queued, as a reconnect is going on.
Authenticate ==
  /\ authing' = {pool[i] : i \in 1 .. PoolSize}
  /\ toServer' = [s \in Sockets |->
       IF InPool(s) /\ status[s] = "open" THEN Append(toServer[s], Nonce(s)) ELSE toServer[s]]
  /\ \E q \in Ordered({i \in 1 .. PoolSize : status[pool[i]] # "open"}) :
       messages' = messages \o [k \in DOMAIN q |-> Nonce(pool[q[k]])]
  /\ UNCHANGED <<index, reconnecting, lost>>

\* waitForConnections.
WaitForConnections ==
  /\ settingUp
  /\ connectedTo = PoolSize \/ errors + connectedTo = PoolSize
  /\ settingUp' = FALSE
  /\ \/ auths /\ Authenticate
     \/ ~auths /\ Resend /\ UNCHANGED authing
  /\ UNCHANGED <<config, pool, connectedTo, errors, sockets, caller, executed, authed, toClient>>

-----------------------------------------------------------------------------
(* The sockets                                                             *)

\* Mutant: nobody counts.
CountNone(counter, s) == counter

\* The counters are those of the pool: a socket that left it has its own.
Count(counter, s) == IF InPool(s) /\ settingUp THEN counter + 1 ELSE counter

Connects(s) ==
  /\ status[s] = "opening"
  /\ status' = [status EXCEPT ![s] = "open"]
  /\ connectedTo' = Count(connectedTo, s)
  /\ UNCHANGED <<config, pool, index, messages, reconnecting, settingUp, errors, authing, made,
                 caller, executed, lost, authed, toServer, toClient>>

\* A socket closes, with what is on it; `error` says whether it reports an error.
Closes(s, error) ==
  /\ status' = [status EXCEPT ![s] = "closed"]
  /\ errors' = IF error THEN Count(errors, s) ELSE errors
  /\ lost' = lost \cup OpsIn(toServer[s]) \cup OpsIn(toClient[s])
  /\ toServer' = [toServer EXCEPT ![s] = <<>>]
  /\ toClient' = [toClient EXCEPT ![s] = <<>>]
  /\ UNCHANGED <<config, pool, index, messages, reconnecting, settingUp, connectedTo, authing,
                 made, caller, executed, authed>>

ConnectFails(s) == status[s] = "opening" /\ Closes(s, TRUE)

Breaks(s) == status[s] = "open" /\ \E error \in BOOLEAN : Closes(s, error)

-----------------------------------------------------------------------------
(* Replies                                                                 *)

Reply(s) == Head(toClient[s])

Receive(s, kind) ==
  /\ toClient[s] # <<>>
  /\ InPool(s)
  /\ Reply(s).kind = kind
  /\ toClient' = [toClient EXCEPT ![s] = Tail(@)]
  /\ UNCHANGED <<config, pool, setup, sockets, asked, executed, authed>>

\* The reply runs the callback of its request.
ReceiveOp(s) ==
  /\ Receive(s, "op")
  /\ answered' = [answered EXCEPT ![Reply(s).id] = @ + 1]
  /\ UNCHANGED <<index, messages, reconnecting, authing, lost, toServer>>

\* The nonce is here: authenticate on the same socket.
ReceiveNonce(s) ==
  /\ Receive(s, "nonce")
  /\ Write(s, Auth(s))
  /\ UNCHANGED <<index, messages, reconnecting, authing, lost, answered>>

\* Mutant: the first authentication that returns is taken for all.
AllReturnedEarly(left) == TRUE

AllReturned(left) == left = {}

\* Authenticated.  The last one resends what is queued.
ReceiveAuth(s) ==
  /\ Receive(s, "auth")
  /\ authing' = authing \ {s}
  /\ \/ AllReturned(authing') /\ Resend
     \/ ~AllReturned(authing') /\ UNCHANGED <<index, messages, reconnecting, lost, toServer>>
  /\ UNCHANGED answered

\* poolByReference does not know the socket: the data is dropped.
DropReply(s) ==
  /\ toClient[s] # <<>>
  /\ ~InPool(s)
  /\ toClient' = [toClient EXCEPT ![s] = Tail(@)]
  /\ lost' = lost \cup OpsIn(<<Reply(s)>>)
  /\ UNCHANGED <<config, pool, index, messages, reconnecting, setup, authing, sockets, caller,
                 executed, authed, toServer>>

-----------------------------------------------------------------------------
(* The server                                                              *)

Serve(s) ==
  LET item == Head(toServer[s])
      runs == item.kind = "op" /\ (auths => s \in authed)
  IN /\ status[s] = "open"
     /\ toServer[s] # <<>>
     /\ toServer' = [toServer EXCEPT ![s] = Tail(@)]
     /\ toClient' = [toClient EXCEPT ![s] = Append(@, item)]
     /\ authed' = IF item.kind = "auth" THEN authed \cup {s} ELSE authed
     /\ executed' = IF runs THEN [executed EXCEPT ![item.id] = @ + 1] ELSE executed
     /\ UNCHANGED <<config, pool, index, messages, reconnecting, setup, authing, sockets, caller,
                    lost>>

-----------------------------------------------------------------------------
Init ==
  /\ autoReconnect \in BOOLEAN
  /\ auths \in BOOLEAN
  /\ throws \in BOOLEAN
  /\ pool = [i \in 1 .. PoolSize |-> i]
  /\ index \in 0 .. PoolSize - 1
  /\ messages = <<>>
  /\ reconnecting = FALSE
  /\ settingUp = FALSE
  /\ connectedTo = PoolSize
  /\ errors = 0
  /\ authing = {}
  /\ status = [s \in Sockets |-> IF s <= PoolSize THEN "open" ELSE "new"]
  /\ made = PoolSize
  /\ asked = 0
  /\ answered = [r \in Requests |-> 0]
  /\ executed = [r \in Requests |-> 0]
  /\ lost = {}
  /\ authed = IF auths THEN 1 .. PoolSize ELSE {}
  /\ toServer = [s \in Sockets |-> <<>>]
  /\ toClient = [s \in Sockets |-> <<>>]

Attempt(s) == Connects(s) \/ ConnectFails(s)

Data(s) == ReceiveOp(s) \/ ReceiveNonce(s) \/ ReceiveAuth(s) \/ DropReply(s)

Next ==
  \/ Send \/ WaitForConnections
  \/ \E s \in Sockets : Attempt(s) \/ Data(s) \/ Serve(s) \/ Breaks(s)

Spec == Init /\ [][Next]_vars

\* The event loop polls and handles data, a connection attempt ends one way or
\* the other, and the server answers on the sockets that are open.
FairSpec ==
  /\ Spec
  /\ WF_vars(WaitForConnections)
  /\ \A s \in Sockets : WF_vars(Attempt(s)) /\ WF_vars(Data(s)) /\ WF_vars(Serve(s))
-----------------------------------------------------------------------------
(* Properties                                                              *)

Items == [kind : {"op"}, id : 1 .. asked] \cup [kind : {"nonce", "auth"}, id : 1 .. made]

\* Every variable holds a value of its kind; nothing is on its way on a socket
\* that is closed or not yet made.
TypeOK ==
  /\ {autoReconnect, auths, throws, reconnecting, settingUp} \subseteq BOOLEAN
  /\ pool \in [1 .. PoolSize -> 1 .. made]
  /\ index \in 0 .. PoolSize - 1
  /\ messages \in Seq(Items)
  /\ connectedTo \in 0 .. PoolSize
  /\ errors \in 0 .. PoolSize
  /\ authing \subseteq 1 .. made
  /\ made \in 0 .. MaxSockets
  /\ status \in [Sockets -> {"new", "opening", "open", "closed"}]
  /\ asked \in 0 .. MaxRequests
  /\ answered \in [Requests -> Nat]
  /\ executed \in [Requests -> Nat]
  /\ lost \subseteq 1 .. asked
  /\ authed \subseteq 1 .. made
  /\ {toServer, toClient} \subseteq [Sockets -> Seq(Items)]
  /\ \A s \in Sockets : status[s] \in {"new", "closed"} => toServer[s] = <<>> /\ toClient[s] = <<>>

\* However often the pool is set up again, no request is executed twice by the
\* server and no callback is run twice.
AtMostOnce == \A r \in Requests : executed[r] <= 1 /\ answered[r] <= 1

\* At most one reconnect is going on: either its sockets are being counted or its
\* authentication runs, on the sockets of the pool and under the flag that keeps
\* send from setting up another pool.
\* When it is over the whole pool is authenticated, as it was before: a request
\* can then go to any of its sockets.
ReconnectWhole ==
  /\ settingUp => reconnecting /\ authing = {}
  /\ authing # {} => reconnecting /\ \A s \in authing : InPool(s)
  /\ auths /\ ~reconnecting => \A s \in Sockets : InPool(s) /\ status[s] = "open" => s \in authed

\* The reconnect can no longer end: a socket has reported an error after it was
\* counted as connected, so that the counters have passed the size of the pool,
\* or a socket has closed before its authentication returned.
Stuck ==
  \/ settingUp /\ connectedTo < PoolSize /\ errors + connectedTo > PoolSize
  \/ \E s \in authing : status[s] = "closed"

\* Every request is answered, unless its socket has closed or left the pool, the
\* reconnect it waits for is stuck, or that reconnect was over before it was sent.
EveryRequestEnds ==
  \A r \in Requests :
    (r <= asked /\ answered[r] = 0)
      ~> (answered[r] > 0 \/ r \in lost \/ Stuck \/ (r \in OpsIn(messages) /\ ~reconnecting))

\* docs/database.md:67: with auto_reconnect "the connection will be automatically
\* reopened on next database operation": an operation that finds every socket of
\* the pool closed, and no attempt going on, starts one.
ReopenedOnNextOperation ==
  [][asked' # asked /\ autoReconnect /\ ~settingUp
     /\ (\A s \in Sockets : InPool(s) => status[s] = "closed") => settingUp']_vars
=============================================================================
