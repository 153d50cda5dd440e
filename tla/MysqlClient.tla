---------------------------- MODULE MysqlClient -----------------------------
(***************************************************************************)
(* The client of node-mysql-native: the queue of commands of SocketClient, *)
(* the state machine of every command, the cache of prepared statements,   *)
(* and a MySQL server at the other end of the socket.                      *)
(*                                                                         *)
(* Nothing in a MySQL packet says which command it answers.  The client    *)
(* gives every packet to the command at the head of its queue, so that a   *)
(* single packet too many or too few shifts all later answers.             *)
(***************************************************************************)
EXTENDS Naturals, Sequences

CONSTANTS
  Statements,   (* the SQL texts that are prepared and executed             *)
  WithParams,   (* those that have parameters                               *)
  WithFields,   (* those that return a result set                           *)
  MaxCommands   (* bound: commands created over the life of the client      *)

ASSUME MysqlAssumption ==
  /\ WithParams \subseteq Statements
  /\ WithFields \subseteq Statements
  /\ MaxCommands \in Nat

VARIABLES
  commands,     (* every command created, in order; its index is its id     *)
  queued_cmds,  (* SocketClient.queued_cmds                                 *)
  state,        (* state of the command at the head of the queue            *)
  pscache,      (* connection.pscache: the statements the client has cached *)
  failed,       (* executes whose prepare_failed is set                     *)
  connected,    (* connection.connected: some bytes have arrived            *)
  ended,        (* connection.end() has been called                         *)
  cut,          (* history: a query has ended before its response had       *)
  finished,     (* history: the commands shifted off the queue, in order    *)
  events,       (* history: the pairs <<command, "end" or "error">> emitted *)
  server,       (* the server: "handshake", "ready" or "gone"               *)
  prepared,     (* statements the server holds                              *)
  toServer,     (* requests on their way: the ids of their commands         *)
  toClient      (* packets on their way: [owner, kind]                      *)

vars == <<commands, queued_cmds, state, pscache, failed, connected, ended, cut,
          finished, events, server, prepared, toServer, toClient>>

Ids == 1 .. MaxCommands

\* `auto` marks the prepare that an execute brought along: the next command is
\* that execute.  `sql` matters to prepare and execute only.
Command ==
  [kind : {"auth", "query", "close", "debug"}, sql : {"-"}, auto : {FALSE}]
  \cup [kind : {"prepare", "execute"}, sql : Statements, auto : BOOLEAN]

Plain(k) == [kind |-> k, sql |-> "-", auto |-> FALSE]
OnStatement(k, s, a) == [kind |-> k, sql |-> s, auto |-> a]

States == {"start", "read_status", "check_auth_ok", "rs_ok", "handle_fields",
           "data", "ps_ok", "params", "fields", "execute_ok", "binrow"}

\* "more" is an eof, and "okmore" an ok, whose status says that another result
\* follows.
Packets == {"greeting", "ok", "okmore", "header", "psok", "field", "row", "eof", "more", "err"}

-----------------------------------------------------------------------------
(* The commands' handlers                                                  *)

\* Mutant: execute does not look whether the statement was found.
AtOnceNoLookup(c, i, cache, fail) ==
  \/ c.kind \in {"close", "debug"}
  \/ c.kind = "prepare" /\ c.sql \in cache
  \/ c.kind = "execute" /\ i \in fail

\* A command that ends in its start handler, without a word to the server:
\* close and debug, a prepare of a cached statement, an execute whose prepare
\* failed and an execute of a statement that is not cached.
AtOnce(c, i, cache, fail) ==
  \/ c.kind \in {"close", "debug"}
  \/ c.kind = "prepare" /\ c.sql \in cache
  \/ c.kind = "execute" /\ (i \in fail \/ c.sql \notin cache)

\* Mutant: a statement that is not found is not reported.
AtOnceEventQuiet(c, i, fail) ==
  IF c.kind = "execute" /\ i \notin fail THEN "nothing" ELSE "end"

\* What such a command emits: only the statement that is not found is an error.
AtOnceEvent(c, i, fail) ==
  IF c.kind = "execute" /\ i \notin fail THEN "error" ELSE "end"

\* The state after the start handler of a command that has to wait.
Started(c) ==
  CASE c.kind = "auth"    -> "read_status"
    [] c.kind = "query"   -> "rs_ok"
    [] c.kind = "prepare" -> "ps_ok"
    [] OTHER              -> "execute_ok"

IsEOF(p) == p \in {"eof", "more"}

\* Mutants: a name no handler has; the definitions of the fields forgotten.
AfterParamsTypo(ps) == IF ps.fields THEN "field" ELSE "done"
AfterParamsNoFields(ps) == "done"

\* What prepare waits for after its parameters, if it has any.
AfterParams(ps) == IF ps.fields THEN "fields" ELSE "done"

\* The handlers of an execute alone.
HandleExecute(s, p, ps) ==
  CASE s = "execute_ok" -> IF ps.fields THEN "fields" ELSE "done"
    [] OTHER            -> IF p = "more" THEN "execute_ok"
                           ELSE IF p = "eof" THEN "done" ELSE s

\* The handler of state s of command c applied to a packet that is no error.
\* ps is what the client has read of the statement: whether it has parameters,
\* and whether it has fields.  Only an eof is asked whether a result follows.
Handle(c, s, p, ps) ==
  CASE s = "read_status"   -> "check_auth_ok"
    [] s = "check_auth_ok" -> "done"
    [] s = "rs_ok"         -> IF p \in {"ok", "okmore", "psok"} THEN "done" ELSE "handle_fields"
    [] s = "handle_fields" -> IF IsEOF(p) THEN "data" ELSE s
    [] s = "data"          -> IF p = "more" THEN "rs_ok"
                              ELSE IF p = "eof" THEN "done" ELSE s
    [] s = "ps_ok"         -> IF ps.params THEN "params" ELSE AfterParams(ps)
    [] s = "params"        -> IF IsEOF(p) THEN AfterParams(ps) ELSE s
    [] s = "fields"        -> IF ~IsEOF(p) THEN s
                              ELSE IF c.kind = "prepare" THEN "done" ELSE "binrow"
    [] s = "execute_ok"    -> HandleExecute(s, p, ps)
    [] s = "binrow"        -> HandleExecute(s, p, ps)
    [] OTHER               -> s

\* Once a response has been cut, packets come to commands they do not answer,
\* and what is read of a statement may be any bytes.
Read(c) ==
  IF cut THEN [params : BOOLEAN, fields : BOOLEAN]
  ELSE {[params |-> c.sql \in WithParams, fields |-> c.sql \in WithFields]}

\* A row that begins with an empty value looks to a query like an ok.
Outcomes(c, s, p) ==
  {Handle(c, s, p, ps) : ps \in Read(c)}
  \cup (IF cut /\ s = "rs_ok" /\ p = "row" THEN {"done"} ELSE {})

-----------------------------------------------------------------------------
(* The queue                                                               *)

\* dispatch_packet() without a packet on queue q, after the commands in `done`
\* have finished: the n commands at its head end at once, and the next one is
\* started and writes its request (auth has nothing to write yet).  What is
\* written to a socket that has been ended goes nowhere.
DispatchPacket(cmds, done, q, cache, fail, emitted) ==
  \E n \in 0 .. Len(q) :
    LET rest == SubSeq(q, n + 1, Len(q))
        closing == \E k \in 1 .. n : cmds[q[k]].kind = "close"
    IN /\ \A k \in 1 .. n : AtOnce(cmds[q[k]], q[k], cache, fail)
       /\ n < Len(q) => ~AtOnce(cmds[q[n + 1]], q[n + 1], cache, fail)
       /\ queued_cmds' = rest
       /\ finished' = finished \o done \o SubSeq(q, 1, n)
       /\ events' = emitted \cup
                    {<<q[k], AtOnceEvent(cmds[q[k]], q[k], fail)>> : k \in 1 .. n}
       /\ ended' = (ended \/ closing)
       /\ state' = IF rest = <<>> THEN "start" ELSE Started(cmds[Head(rest)])
       /\ toServer' = IF rest = <<>> \/ ended' \/ cmds[Head(rest)].kind = "auth"
                      THEN toServer
                      ELSE Append(toServer, Head(rest))

\* Mutants: the caller's command starts the queue although another command is
\* being served; it starts the queue only before the first bytes have arrived.
NeedStartAlways == connected
NeedStartNever == ~connected /\ queued_cmds = <<>>

\* add() starts the queue itself when bytes have arrived and it was empty.
NeedStart == connected /\ queued_cmds = <<>>

\* Mutant: a stack.
PushFront(q, ids) == ids \o q

\* deque.push.
Push(q, ids) == q \o ids

\* An execute that add() itself starts, and that does not find its statement,
\* emits its "error" before its caller has it to listen to, so that the error is
\* thrown at the caller.  Nothing shifts the command, and since the queue is not
\* empty no later call starts it.
Throws(new) ==
  NeedStart /\ Len(new) = 1 /\ new[1].kind = "execute" /\ new[1].sql \notin pscache

\* SocketClient.add for each of the commands in `new`.
Add(new) ==
  LET ids == [k \in 1 .. Len(new) |-> Len(commands) + k]
      all == commands \o new
  IN /\ Len(all) <= MaxCommands
     /\ commands' = all
     /\ IF NeedStart /\ ~Throws(new)
        THEN DispatchPacket(all, <<>>, Push(queued_cmds, ids), pscache, failed, events)
        ELSE /\ queued_cmds' = Push(queued_cmds, ids)
             /\ UNCHANGED <<state, ended, finished, events, toServer>>
     /\ UNCHANGED <<pscache, failed, connected, cut, server, prepared, toClient>>

\* auth is the first command of a client, and the only auth.
Auth == commands = <<>> /\ Add(<<Plain("auth")>>)

Query == commands # <<>> /\ Add(<<Plain("query")>>)

Close == commands # <<>> /\ Add(<<Plain("close")>>)

Debug == commands # <<>> /\ Add(<<Plain("debug")>>)

Prepare(s) == commands # <<>> /\ Add(<<OnStatement("prepare", s, FALSE)>>)

\* execute, with the client's auto_prepare setting on or off: it is preceded by
\* a prepare when the setting is on and the statement is not cached now.
Execute(s, auto_prepare) ==
  /\ commands # <<>>
  /\ LET execute == OnStatement("execute", s, FALSE)
     IN Add(IF auto_prepare /\ s \notin pscache
            THEN <<OnStatement("prepare", s, TRUE), execute>>
            ELSE <<execute>>)

\* terminate(): the socket is ended whatever is queued.
Terminate ==
  /\ ~ended
  /\ ended' = TRUE
  /\ UNCHANGED <<commands, queued_cmds, state, pscache, failed, connected, cut,
                 finished, events, server, prepared, toServer, toClient>>

\* The first bytes of the greeting start the queue.  The rest of the packet may
\* come later.
FirstData ==
  /\ ~connected
  /\ toClient # <<>>
  /\ connected' = TRUE
  /\ DispatchPacket(commands, <<>>, queued_cmds, pscache, failed, events)
  /\ UNCHANGED <<commands, pscache, failed, cut, server, prepared, toClient>>

-----------------------------------------------------------------------------
(* A packet is complete: dispatch_packet(packet), process_packet(packet)   *)

Packet == Head(toClient).kind
Top == Head(queued_cmds)
NextStates == Outcomes(commands[Top], state, Packet)

\* The head of the queue is an execute that has thrown out of add().
Stalled ==
  /\ connected
  /\ queued_cmds # <<>>
  /\ state = "start"
  /\ commands[Top].kind = "execute" /\ commands[Top].sql \notin pscache

\* On a packet such an execute throws again, and the packet stays in the buffer.
Receive ==
  /\ connected
  /\ toClient # <<>>
  /\ ~Stalled
  /\ toClient' = Tail(toClient)
  /\ UNCHANGED <<commands, connected, server, prepared>>

\* Nobody is waiting: the packet is dropped.
DropPacket ==
  /\ Receive
  /\ queued_cmds = <<>>
  /\ UNCHANGED <<queued_cmds, state, pscache, failed, ended, cut, finished, events, toServer>>

\* An error packet ends the command with "error".  The error of a prepare that
\* an execute brought along is that execute's error too.
ErrorPacket ==
  /\ Receive
  /\ queued_cmds # <<>>
  /\ Packet = "err"
  /\ LET hit == IF commands[Top].auto THEN {Top + 1} ELSE {}
     IN /\ failed' = failed \cup hit
        /\ DispatchPacket(commands, <<Top>>, Tail(queued_cmds), pscache, failed',
                          events \cup ({Top} \cup hit) \X {"error"})
  /\ UNCHANGED <<pscache, cut>>

\* ps_ok puts the statement in the cache, whatever the command waits for next.
CacheAfter ==
  IF state = "ps_ok" THEN pscache \cup {commands[Top].sql} ELSE pscache

\* A packet the command goes on from; auth answers the greeting.
ProgressPacket ==
  /\ Receive
  /\ queued_cmds # <<>>
  /\ Packet # "err"
  /\ state' \in NextStates \ {"done"}
  /\ pscache' = CacheAfter
  /\ toServer' = IF state = "read_status" /\ ~ended THEN Append(toServer, Top) ELSE toServer
  /\ UNCHANGED <<queued_cmds, failed, ended, cut, finished, events>>

\* A packet that completes the command: "end" is emitted, the command leaves
\* the queue and the next one is started.  A query that ends with an ok does so
\* whether the ok says that another result follows or not.
LastPacket ==
  /\ Receive
  /\ queued_cmds # <<>>
  /\ Packet # "err"
  /\ "done" \in NextStates
  /\ pscache' = CacheAfter
  /\ cut' = (cut \/ Packet = "okmore")
  /\ DispatchPacket(commands, <<Top>>, Tail(queued_cmds), CacheAfter, failed,
                    events \cup {<<Top, "end">>})
  /\ UNCHANGED failed

-----------------------------------------------------------------------------
(* The server, as the client's handlers expect it                          *)

ResultSet(last) == <<"header", "field", "eof", "row", last>>

\* The result of one statement, the last of a query.
Results == {<<"ok">>, <<"err">>, ResultSet("eof"), ResultSet("err")}

\* Bound: a query has two statements at most.
QueryResults ==
  Results \cup {first \o last : first \in {<<"okmore">>, ResultSet("more")}, last \in Results}

Responses(c) ==
  CASE c.kind = "auth"    -> {<<"ok">>, <<"err">>}
    [] c.kind = "query"   -> QueryResults
    [] c.kind = "prepare" ->
         {<<"err">>,
          <<"psok">> \o (IF c.sql \in WithParams THEN <<"field", "eof">> ELSE <<>>)
                     \o (IF c.sql \in WithFields THEN <<"field", "eof">> ELSE <<>>)}
    [] OTHER              ->
         {<<"err">>} \cup (IF c.sql \in WithFields
                           THEN {ResultSet("eof"), ResultSet("err"),
                                 ResultSet("more") \o ResultSet("eof")}
                           ELSE {<<"ok">>})

\* The command that the server understands.  An execute names its statement by a
\* number, which after a cut may be that of another one.
Understood(c) ==
  IF cut /\ c.kind = "execute" THEN {[c EXCEPT !.sql = s] : s \in Statements} ELSE {c}

\* The server takes one request and answers it with a whole response.
ServerAnswers ==
  /\ toServer # <<>>
  /\ server # "gone"
  /\ LET i == Head(toServer)
     IN \E c \in Understood(commands[i]) : \E r \in Responses(c) :
          /\ c.kind = "execute" /\ c.sql \notin prepared => r = <<"err">>
          /\ toClient' = toClient \o [k \in 1 .. Len(r) |-> [owner |-> i, kind |-> r[k]]]
          /\ prepared' = IF c.kind = "prepare" /\ r # <<"err">>
                         THEN prepared \cup {c.sql} ELSE prepared
          /\ server' = IF c.kind # "auth" THEN server
                       ELSE IF r = <<"err">> THEN "gone" ELSE "ready"
  /\ toServer' = Tail(toServer)
  /\ UNCHANGED <<commands, queued_cmds, state, pscache, failed, connected, ended, cut,
                 finished, events>>

\* The connection breaks: what the server has sent may be cut short, and the
\* client listens for no event that would tell it.
ServerLost ==
  /\ server # "gone"
  /\ server' = "gone"
  /\ toServer' = <<>>
  /\ \E n \in 0 .. Len(toClient) : toClient' = SubSeq(toClient, 1, n)
  /\ UNCHANGED <<commands, queued_cmds, state, pscache, failed, connected, ended, cut,
                 finished, events, prepared>>

-----------------------------------------------------------------------------
Init ==
  /\ commands = <<>>
  /\ queued_cmds = <<>>
  /\ state = "start"
  /\ pscache = {}
  /\ failed = {}
  /\ connected = FALSE
  /\ ended = FALSE
  /\ cut = FALSE
  /\ finished = <<>>
  /\ events = {}
  /\ server = "handshake"
  /\ prepared = {}
  /\ toServer = <<>>
  /\ toClient = <<[owner |-> 1, kind |-> "greeting"]>>

Calls ==
  \/ Auth
  \/ Query
  \/ Close
  \/ Debug
  \/ \E s \in Statements : Prepare(s)
  \/ \E s \in Statements : \E auto_prepare \in BOOLEAN : Execute(s, auto_prepare)
  \/ Terminate

\* The socket's data listener.
Data ==
  \/ FirstData
  \/ DropPacket
  \/ ErrorPacket
  \/ ProgressPacket
  \/ LastPacket

Next == Calls \/ Data \/ ServerAnswers \/ ServerLost

Spec == Init /\ [][Next]_vars

\* The event loop runs the data listener as long as there is data, and a server
\* that has not failed answers.  Nobody is obliged to make a call, and nothing
\* has to break.
FairSpec == Spec /\ WF_vars(Data) /\ WF_vars(ServerAnswers)
-----------------------------------------------------------------------------
(* Properties                                                              *)

\* Every variable holds a value of its kind, the ids in the queue and on the
\* wire are ids of commands, and a queue that is empty is in no state.
TypeOK ==
  /\ commands \in Seq(Command) /\ Len(commands) <= MaxCommands
  /\ queued_cmds \in Seq(1 .. Len(commands))
  /\ state \in States
  /\ pscache \subseteq Statements
  /\ failed \subseteq 1 .. Len(commands)
  /\ connected \in BOOLEAN
  /\ ended \in BOOLEAN
  /\ cut \in BOOLEAN
  /\ finished \in Seq(1 .. Len(commands))
  /\ events \subseteq (1 .. Len(commands)) \X {"end", "error"}
  /\ server \in {"handshake", "ready", "gone"}
  /\ prepared \subseteq Statements
  /\ toServer \in Seq(1 .. Len(commands))
  /\ toClient \in Seq([owner : Ids \cup {1}, kind : Packets])

\* Every packet the client hands to a command answers that command: nothing in
\* the packet says so, only the counting of the handlers does.  Nothing but an
\* early greeting is ever dropped.  Excused: a query has ended with an ok after
\* which the server had another result to send.
Routed ==
  connected /\ toClient # <<>> /\ ~cut =>
    IF queued_cmds = <<>> THEN Packet = "greeting" ELSE Head(toClient).owner = Top

\* One request is out at a time, it is that of the command at the head of the
\* queue, and nothing of an earlier response is left when it is written, unless
\* a response was cut.
OneRequest ==
  toServer # <<>> /\ ~cut =>
                     /\ Len(toServer) = 1
                     /\ queued_cmds # <<>> /\ Head(toServer) = Top
                     /\ toClient = <<>>

\* A statement in the client's cache is prepared on the server, and an execute
\* on the wire is that of a prepared statement, however the prepares that were
\* queued before it came out.  Excused: after a cut, a prepare may be given the
\* packet of a query.
ExecutesPrepared ==
  ~cut =>
    /\ pscache \subseteq prepared
    /\ \A k \in DOMAIN toServer :
         commands[toServer[k]].kind = "execute" =>
           commands[toServer[k]].sql \in prepared /\ toServer[k] \notin failed

\* No command leaves the queue without having emitted an "end" or an "error",
\* whatever the packets were that it was given.  One that ends inside add() has
\* done so before its caller can listen.
NoSilentFinish ==
  \A k \in DOMAIN finished : \E e \in {"end", "error"} : <<finished[k], e>> \in events

\* The excuses of a command that never finishes: the server is gone or the
\* socket has been ended, which no listener notices; auth was called after the
\* greeting had come and had been dropped; a command is given the packets of
\* another one; an execute has thrown and blocks the queue.
GreetingDropped ==
  server = "handshake" /\ connected /\ toClient = <<>> /\ toServer = <<>>
Excused == server = "gone" \/ ended \/ GreetingDropped \/ cut \/ Stalled

InQueue(i) == \E k \in DOMAIN queued_cmds : queued_cmds[k] = i

\* Every command that is queued leaves the queue.
EveryCommandFinishes ==
  \A i \in Ids : InQueue(i) ~> (~InQueue(i) \/ Excused)

\* The client implements the session its callers see: in order, one at a time,
\* each command once.
Session ==
  INSTANCE MysqlSession WITH
    pending <- queued_cmds,
    active <- IF state = "start" THEN 0 ELSE Top

ImplementsSession == Session!SessionSpec

\* test/errors.test.js:64-66 on the listener for "end" of an execute that fails:
\* "this shouldn't be called in the event of an error".  No command emits both.
NoEndAfterError ==
  \A i \in Ids : <<i, "error">> \in events => <<i, "end">> \notin events
=============================================================================
