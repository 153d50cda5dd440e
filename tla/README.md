# A verification project for ysl

`ysl` is a Maven web framework (Java, `ysl-framework`) with a Node.js side
(`ysl-node`). The Java modules are thin wrappers around Struts, Spring and
Hibernate; the program's own stateful logic is in the network drivers and the
servers under `ysl-node/module/`: event-driven code whose correctness depends
on the order in which calls, packets, callbacks and failures come. That is what
the TLA+ modules here model, what TLC checks and what TLAPS proves.

Paths below are relative to `src/`; `mysql/` stands for
`ysl-node/module/node-mysql-native/lib/mysql-native/`, `amqp.js` for
`ysl-node/module/node-amqp/amqp.js`, `mongodb/` for
`ysl-node/module/node-mongodb-native/lib/mongodb/`.

## 1. Inventory

| Component | State it keeps | Operations | What makes it correct |
|---|---|---|---|
| MySQL client, `mysql/socketclient.js`, `mysql/command.js`, `mysql/commands/*` | queue of commands, state of each command, statement cache, `connected` | `auth`, `query`, `prepare`, `execute`, `close`, `debug`, `terminate`; data listener | every packet goes to the command it answers; one request on the wire; every command finishes and says so |
| AMQP channel, `amqp.js` `Channel`, `Queue`, `Exchange` | `state`, `_tasks`, promises, open callback | `subscribe`, `unbind`, `bind_headers`, `destroy`, `publish`, `bind`, `close`; methods from the broker | nothing is sent before the declaration or after the close; a promise fires for its own request |
| AMQP connection, `amqp.js` `Connection` | `channels`, `queues`, `exchanges`, `channelCounter`, bind counts | `queue`, `exchange`, `publish`, `reconnect`, close and destroy of their objects | the registry maps a name to the live object; nothing survives a reconnect that should not |
| AMQP deliveries, `amqp.js` `Message`, `subscribe`, `shift` | current message, bytes read, last message | header and body frames, `shift`, `acknowledge` | every delivery is completed and acknowledged once |
| AMQP parser, `amqp.js` `AMQPParser` | parser state, frame buffer | `execute` on each chunk | the same frames however the stream is cut |
| MongoDB cursor, `mongodb/cursor.js` | state, items, cursor id, `totalNumberOfRecords` | `nextObject`, `each`, `toArray`, `rewind`, `close`, `streamRecords` | each document once, in order; cursors are killed |
| MongoDB pool and server, `mongodb/connection.js`, `mongodb/connections/server.js` | pool, message queue, reconnect flags | `connect`, `send`, `close`, receive, reconnect and resend | no request lost or duplicated silently; callbacks once |
| MongoDB replica sets, `mongodb/connections/repl_set_servers.js` | addresses, primary, secondaries, pending checks | `connect`, `isMaster` replies, read preference | one primary; `connect` calls back once |
| MongoDB `Db`, `mongodb/db.js` | callback table, auths | `executeCommand`, `authenticate`, `logout`, `lastError` | a reply runs its own callback once |
| GridFS, `mongodb/gridfs/*` | current chunk, position, length, mode | `open`, `write`, `close`, `read`, `seek`, `ReadStream` | what is read is what was written |
| Static file server, `node-static/lib/node-static.js` | file cache | `serve`, `respond`, `stream` | one response per request, consistent with its headers |
| LevelDB binding and memcached adapter, `node-leveldb/` | handles, pending worker jobs; protocol parser | `open`, `put`, `get`, `close`; `set`, `get`, `delete` | no use after close; replies in order |
| Properties, `node-properties/lib/*` | line buffer | `readLine` | all lines |
| Java framework, `ysl-framework` | `Flash` scope in the session; page fragments | `save`, `restore`, `keep`, `discard`; includes | a flash attribute lives for exactly one request |
| Vendored or generated: `ysl-framework` webapp JS, LevelDB, nodeunit, BSON, `ysl-cas`, `ysl-oauth`, `ysl-spider` stubs | - | - | not modelled |

How they interact: each driver talks to its server over one TCP stream or a
pool of them, and to its caller through callbacks, events or promises that run
inside the data listener. JavaScript runs one handler at a time; what
interleaves is handlers: a call may be made between any two packets, from any
callback, and a decision taken when a call is made may be stale when its turn
comes. Neither MySQL packets nor AMQP replies carry a request id, so both
drivers depend on counting and on order. None of the drivers listens for the
end of the connection in a way that tells every pending caller.

`PROJECT.json` lists the hazards of this code, each at its line, with the
properties that cover it and, where a property excuses a case that really goes
wrong, the name of the excuse.

## 2. Modules

| Module | Models |
|---|---|
| `MysqlSession` | what the MySQL client promises: calls served in order, one at a time, each finished once |
| `MysqlClient` | the client with its queue, its commands, its statement cache, and the server |
| `MCMysql` | instances of the statements for TLC |
| `MysqlClientProofs` | the inductive invariant, the theorems and the refinement |
| `AmqpChannel` | one channel, its tasks and promises, and the broker's side of it |
| `AmqpChannelProofs` | its inductive invariant and theorems |
| `AmqpDelivery` | the parser over the stream of octets, the messages put together from it, and `shift` |
| `AmqpDeliveryProofs` | its inductive invariant and theorems |
| `MongoCursor` | one cursor, its caller, and the server that holds the rest of the result |
| `MongoCursorProofs` | its inductive invariant and theorems |
| `AmqpConnection` | the tables of a connection against the objects the program holds, over reconnects |
| `AmqpConnectionProofs` | its inductive invariants, of the channels and of the tables of queues and exchanges, and theorems |
| `MongoPool` | the pool of connections, its reconnect with the authentication replayed, and the server |
| `MongoPoolProofs` | its inductive invariant and theorems |
| `MongoReplSet` | the connect of a replica set, its primary, and the operations that connect again |
| `MCReplSet` | the symmetry of its operations for TLC, and its bound on connects that overlap |
| `MongoReplSetProofs` | its inductive invariant and theorems |
| `MongoGridStore` | the objects that write a GridFS file, over crashes and failures, and the two collections |
| `MongoGridRead` | the objects and streams that read it; extends `MongoGridStore` |
| `MongoGridProofs` | the inductive invariants and theorems of both |

### MysqlClient

One id per command, in the order of creation. `queued_cmds` is the queue of
`socketclient.js`, `state` the state of the command at its head (no other
command has left `start`), `pscache` and `failed` the statement cache and the
`prepare_failed` flags. Calls are `Auth`, `Query`, `Prepare`, `Execute` (with
automatic preparation on or off), `Close`, `Debug` and `Terminate`; each runs
`Add`, and with it the whole of `dispatch_packet` when the queue was empty.
The data listener is `FirstData` (the `connected` branch) and, for each packet,
one of `DropPacket`, `ErrorPacket`, `ProgressPacket`, `LastPacket`. `Handle` is
the table of the commands' handlers. `DispatchPacket` is the recursion of
`dispatch_packet`: a finished command starts the next one, and a command that
ends in its start handler is finished in the same turn.

A packet is its kind and, as a history variable no handler reads, the command
it answers: `owner`. That makes "the right command gets the packet" a statement
about state, `Routed`. The server is external: one whole response to each
request, cut short when the connection breaks. The client negotiates
multi-statements and multi-results (`auth.js:75`), so a query may be answered
with two results (`QueryResults`; two is a bound), the first of them a result set
or an OK whose status says that more follows. A query that ends on such an OK
(`query.js:117` does not look at the status) leaves the rest of its response to
the next command: `cut` records it. From then on a handler may be given a packet
of any kind that is on the wire. What it reads of a prepared statement may then
be anything (`Read`), a row that begins with an empty value looks like an OK
(`Outcomes`), and the number an execute sends may be that of another statement
(`Understood`).

An execute without automatic preparation whose statement is not cached, called on
an idle client, is started by `add` itself (`socketclient.js:123`): it emits
`error` before its caller holds it, which throws out of the call
(`execute.js:63`). The shift at `socketclient.js:107` is skipped, and the queue
stays as it is for ever, with that execute at its head (`Throws`, `Stalled`): a
later packet would only make it throw again. In all other cases callers are
assumed to listen to `error`; a command that ends inside `add` with `end` has
emitted it before they can listen.

### AmqpChannel

A call's id is its position in `calls`. `tasks` is `_tasks`, whose order is the
order of ids because `_taskPush` pushes at the end; `sent` is the `sent` flag.
`TasksFlush` is `_tasksFlush`, `HandleTaskReply` is `_handleTaskReply`, the
other actions under "A method arrives" are the cases of the two `_onMethod`
functions, each followed by the flush the code ends with. `bind`, `close` and
the `basicQos` of `subscribe({ack: true})` write past the task list, as in the
code. The broker executes or refuses each request, and a refusal closes the
channel; the client sends no `closeOk`, so the broker then discards requests
until a close; a frame on a closed channel costs the connection (`kicked`).

The registry of the connection and bind counts are in `AmqpConnection`,
deliveries in `AmqpDelivery`.

### AmqpConnection

`channels`, `queues` and `exchanges` are the three tables, `objs` the objects
the program has been given and may hold for ever; `default` is
`_defaultExchange`. `Queue`, `Exchange`, `AnonymousAgain` and `Publish` are the
calls on the connection, `Task`, `Bind` and `Close` those on an object, the
actions under "Methods that arrive" the cases of the `_onMethod` functions that
touch the tables, each with its flush. `Connect` is the `connect` listener: new
tables, while the counter, the objects and the default exchange stay. A channel
has here what touches the tables: every other task is a `request`, and replies
that only fire a promise are left out, since `AmqpChannel` has them. So the
broker handles a frame when it is written and only its answers are delayed. The
history variable `misuse` says what a program did that the driver does not
support: used an object of an earlier connection (`stale`), closed one that was
not open yet (`early`), wrote to one it had closed (`late`), or published
through a default exchange of an earlier connection (`default`), which the
driver does by itself.

### AmqpDelivery

`parser` is the `AMQPParser` with its `state`, the header octets so far, the frame
they announce and its payload. `HeaderOctet`, `BufferOctet` and `EndOctet` are one
turn of the loop of `execute` each; a chunk may end after any octet, so every
step of the program may come between two of them. The octet that ends an empty
frame is met in `bufferFrame` and handled twice (`i--`): one action here. A frame
carries what the code parses out of it; the octets of a body carry their origin,
so that a listener's bytes can be compared with what the broker sent.
`BasicDeliver`, `OnContentHeader` and `OnContent` are the handlers of a queue,
`current` and `last` its `currentMessage` and `_lastMessage`. `due` counts the
messages a program has been given and not yet followed by `shift()`; `Shift` is
the call it owes, `ShiftAgain` any other. The broker delivers one message at a
time to a subscription with ack, for the whole channel or for each consumer
(`window`): AMQP 0-9-1 says the first, RabbitMQ does the second. An
acknowledgement it does not expect closes the channel (`refused`), which is where
this model leaves that queue.

### MongoCursor

A call of `nextObject` has its number as id. `limit`, `batch`, `state`, `items`
(with `nulled` for an `items` that is null), `cursorId` and `total` are the
fields of `cursor.js`. `NextObject` is the whole of `nextObject`, with `getMore`
(`GetMore`) and `close` (`End`, `Kill`) where it reaches them; a reply is handled
by `QueryError`, `QueryReply`, `MoreReply` or `NoMoreReply`, with whatever the
cursor is by then. `close` runs its callback in its middle and nulls the items
afterwards: `closing` is true between, and there only `rewind`, and a
`nextObject` after it, are modelled, because the rest of what a callback may do
changes nothing that `close` does not overwrite. The server keeps a cursor
until it is exhausted, killed or idle for too long; whether it keeps one that
has returned its last document is its choice (`Stays`), after the query as after
each get-more.

`each` and `toArray` are loops over `nextObject` and are not modelled, nor are
`streamRecords`, `explain`, tailable cursors and the setters of options.

### MongoPool

A socket is a number, in the order of creation; `pool` holds those of
`Connection.pool`, which are also the keys of `poolByReference`, since `send`
sets both together (for a host given by its address, whose sockets have their
descriptor at once). `Send` is `executeCommand` with `Connection.send` in it:
write, queue and perhaps `SetUp` a new pool, or report the error.
`WaitForConnections` is the poll of `setupConnectionPool` with what its event
runs: `Authenticate` when a user has authenticated, `Resend` otherwise. The
last `ReceiveAuth` runs `Resend`. `authing` is the set of sockets whose
authentication is to return; the code keeps its size. A write to a closed
socket throws in node 0.4 and is lost in later versions: `throws` chooses. A
reply on a socket that is not in the pool is dropped (`DropReply`), as the
receive listener does.

The module starts when `Db.open` has called back. The first connection, `close`,
`logout`, several users, and the cutting of the stream into messages are not in
it.

### MongoReplSet

`rs` is the `ReplSetServers` object, with the sets of servers whose `master` and
`connected` are true (`master`, `live`), and `db` the two fields of `Db` that
connects share. `connects` has one record for every call of `connect`, with the
closure's two counters: the servers that replied (as a set, since each replies
once) and the number of errors. `sockets[c][s]` is the socket that connect `c`
opened to server `s`; `rs.latest` is `server.connection`, the socket of the last
connect. `Reply` is the whole of `connectCallback`: `Known`, `WrongSet`,
`Discovered`, the two places where a connect ends, and the callback itself,
which is that of `Db.open` or the one in `executeCommand` that dispatches the
operation or tries again (`Callback`, `Dispatch`). `ConnectError` is the error
listener. Closing a server that has not answered yet leaves a choice: its reply
or error may still come, or not (`Closed`).

A server may answer anything each time: that it is the primary, of this or
another set, a secondary, something else, or with an error. When the program gives no name
of the set, that of the first primary is called `set`, and any other `otherset`. Each
operation
retries on its own, so that connects overlap; `trouble` is a history variable
that says what has disturbed a connect (`met` another one, `lost` a reply,
`uncounted` error after another one ended, an `error` for a reply, a connection
that was `replaced`).

The `pool` of a connect says, for each server, what its connection sends on. It
is the socket that connect opened, until an operation is sent to a discovered
server (`auto_reconnect`) whose socket is not open: `send` then puts another pool
in its place (`Replaced`), once, since `currently_reconnecting` stays true. That
pool opens or not (`Reopen`); what was queued stays there, since nothing emits
`resend` for a replica set. When the socket of the connect opens after that,
`isMaster` is sent on the new pool, or is queued with the rest if it is not open;
and a reply on the socket that was replaced is dropped. Also, the `data` listener
goes to `server.connection`, which may belong to a later connect by then. In all
three cases the server is `unheard` (`SocketOpen`, `Replaced`).

### MongoGridStore, MongoGridRead

The documents of the two collections are `chunks` and `files`, of one file name;
a byte is its number, so that "what was written" is a sequence that can be
compared. `w` is the `GridStore` that writes: `pc` names the database operation
under way, and each operation is a step of its own, so that `Die` may come
between any two. `Written`, `Closing`, `FileChunk` and `AfterSave` are what the
code does between two operations; `next` is the continuation that was passed to
`Chunk.save`. A `Chunk` is a record with its read/write head `p`; `ChunkWrite`
is `Binary.write` with its offset of 0 that appends and its cut of what follows.
`Store` is an operation on the chunks whose failure the callback does not
report. `writeFile` is `Open` in mode `file`, for an object of mode `w`, or
`file+`, for one of mode `w+`, which deletes nothing before its chunks 0, 1, ...
are inserted (`gridstore.js:206-237`); for an object of mode `r` it is not
modelled. `Close` also stands for the close that `write` and `writeBuffer` make
when they are asked to. `want` and `excuse` are history: what the file should
hold, and why it may not (a set, empty as long as nothing has happened):

| In `excuse` | Why |
|---|---|
| `seek` | the program moved the head |
| `failure` | an operation on the chunks failed, which the callback does not say (`chunk.js:150`) |
| `unreported` | saving the document of the file failed, and the callback of `writeFile`, `write(.., true)` or `writeBuffer(.., true)` was given no error |
| `base` | the file that was opened to append was damaged |
| `boundary` | the file that was opened to append ends at the end of a chunk |
| `doubled` | `writeFile` of an object of mode `w+` wrote a file that had chunks |

`MongoGridRead` adds an object that reads a stored file with `read`,
`readBuffer`, `getc`, `seek` and `rewind`, and a `ReadStream` with `pause` and
`resume`. Its files are those that the writing object has left; `calm` is a
history variable that says the file was intact and no writer has touched it
since, which is when the properties speak. A call is `exact` when it starts where
the position of the object says, inside a chunk of the file: a call that finds no
chunk leaves the object with the empty chunk number 0 that `nthChunk` makes
(`gridfs/gridstore.js:492`), whose head is not that of the file, and a further call
starts from there. `MaxBytes > 0` is assumed because `getc` asks for a byte.

## 3. Runs

| Run | Checks | Shows |
|---|---|---|
| `mysql_client` | `TypeOK`, `Routed`, `OneRequest`, `ExecutesPrepared`, `NoSilentFinish`, `ImplementsSession`, `EveryCommandFinishes` | the client keeps packets and commands together, whatever the interleaving of calls, packets and failures, until a query leaves a second result to the next command; commands finish in order, each with an event, and unless an execute has thrown each does |
| `mysql_end_after_error` | `NoEndAfterError` (violated) | an `execute` whose preparation fails emits `error` and later `end`, against `test/errors.test.js:65` |
| `amqp_channel` | `TypeOK`, `FiredWasExecuted`, `IssueOrder`, `ConnectionKept`, `TasksComplete` | the task list keeps promises and requests together |
| `amqp_connection` | `TypeOK`, `ChannelHasOneOwner`, `OneQueueOfAName`, `TablesHold`, `ConnectionKept` | the tables lead to the live object of this connection, whatever is destroyed, closed, refused or left over from an earlier connection |
| `amqp_delivery` | `TypeOK`, `GivenInOrder`, `ShiftAcknowledges`, `MessagesComplete` | listeners get every message with a body once, in order, whole, however the stream is cut; one `shift` for each keeps the queue going |
| `mongo_cursor` | `TypeOK`, `InOrder`, `EndMeansAll`, `NoLeak`, `EveryCallAnswered` | a caller that waits for its answers gets every document once, in order, to the limit; cursors of the server are killed or exhausted; every call is answered |
| `mongo_pool` | `TypeOK`, `AtMostOnce`, `ReconnectWhole`, `EveryRequestEnds` | reconnects do not mix, duplicate requests or leave sockets unauthenticated |
| `mongo_pool_stuck` | `ReopenedOnNextOperation` (violated) | with a user, one failed reconnect is the last, against `docs/database.md:67` of the driver |
| `mongo_replset` | `TypeOK`, `AnsweredOnce`, `TargetIsMaster` | connects count their servers to the end in any order of replies, errors and discoveries, answer each caller once, and write to a server that said it is the master |
| `mongo_gridstore` | `GridTypeOK`, `ClosedHoldsWritten`, `NoStrayChunks`, `WritesComplete` | a file that is closed holds what was written, in the right chunks, whatever a dead writer has left; an unlinked file leaves nothing |
| `mongo_gridstore_append` | `AppendKeepsContent` (violated) | appending to a file whose length is a multiple of the chunk size loses its content, against `docs/gridfs.md:20` |
| `mongo_gridread` | `TypeOK`, `ReadExact`, `ReadsComplete` | reading calls and streams give the bytes of the file across chunks, paused and resumed as they may be |

Bounds. `MaxCommands = 4` commands on one MySQL client: authentication, an
execute with its automatic prepare, and one more command, which is the shortest
run in which a failed prepare, its execute and a bystander meet; with three
commands after `auth` every pair of kinds is in the queue at the same time. Two
statements cover the two ways a prepare can go (with parameters, with fields);
a result set has one field and one row, with every kind of packet and boundary
in it. `MaxCalls = 3` calls on an AMQP channel: two tasks of the same method
and one call past the task list are enough to confuse replies, if anything is.
Four documents with limits 0, 1 and 3, batches of 2 and a default of 3 give the
cursor batches that divide the limit, exceed it, and do not divide it, and
results that end with a batch or inside one; five calls read all documents and
the end after them, two closes or rewinds meet each other and the callbacks, and
two calls may be outstanding. A pool of two sockets, six sockets in all, is two
reconnects: the second meets the listener, the queue and the sockets that the
first left. Two requests are enough to queue one behind the other, or to send
one past the other. The run that ends in a stuck pool has one socket, the
default, where the poll cannot miscount.

Three queues and exchanges on an AMQP connection, with at most eight objects,
calls and connections (a connection counts for two): an old queue, its successor
of the same name and an exchange to which both are bound meet, or two objects
over a reconnect. Binding to an exchange, destroying it and declaring it again
with two queues needs more than that bound, and is not reached. Two
messages of no or three octets, in frames of at most two, on two queues with two
subscriptions in all: empty frames and bodies, a body of two frames with another
channel's frame or a heartbeat between them, and two messages whose
acknowledgements may be confused. Frame headers have two octets, so that one can
be cut. A set of a seed
and a server it discovers, three connects and broken sockets in all, and two
operations of two attempts: overlapping connects, a retry after an error, and a
discovery under another connect all happen; with two servers the primary can
move. What follows three connects that ask at the same time is not explored
(`TwoAsk`): each of them has met another by then, which is what the properties
excuse. The theorems of section 4 have no such bound. The operations are alike, and TLC treats them so (`OpsAlike`): the
constant `Ops` is used in no other way than by membership. Chunks of two bytes
and writes of one to three, five bytes in all by three objects, give writes that
end inside, at and beyond a chunk, files of up to three chunks, and a third
object that finds what two have left. The reader's chunks have three bytes, so
that a last chunk of one byte differs from a chunk that lacks one; files of up to
three chunks, and three calls, each of which starts where the one before it has
left the head, at the end of the file or past a chunk that was not there.

Deadlock checking is off: these systems rightly stop when no calls are left.

Fairness. `WF_vars(Data)`: the event loop runs the data listener while there is
data. `WF_vars(ServerAnswers)` and `WF_vars(Broker)`: a server that is up
answers; a server may fail at any time, and nothing obliges it to. In `MongoCursor`
a callback returns (`CloseReturns`), replies that are there are handled and a
server that is up answers; `MaxCloses` keeps a caller from rewinding for ever.
In `AmqpDelivery` the
parser goes on while there are octets, the broker delivers and sends what it may,
and the program calls `shift` once for each message it is given: the last is what
`node-amqp/README.md` asks of it. In `MongoPool` the poll runs again and again (`process.nextTick`), each
connection attempt succeeds or fails, and per socket data is handled and
requests are served. No fairness
is put on calls or on failures. The liveness properties name what excuses them
(`Excused`): the server or the connection is gone, the socket or the channel was
closed, `auth` came after the greeting, an execute has thrown and blocks the
queue (`Stalled`), or a response was `cut`, after which a command may wait for
packets that another one was given. These are real gaps of the code: in
none of these cases is the pending caller told. In `MongoPool` the excuses are
in the property: the request was on a socket that closed or left the pool
(`lost`), the reconnect cannot end (`Stuck`), or it ended before the request was
taken from the queue.

In `MongoGridStore` and `MongoGridRead` the database answers (`WF` on `Reply` and
`ReaderReply`, which also stand for the ticks of the event loop); nothing makes
the program call. `AmqpConnection` and `MongoReplSet` state no fairness:
their specifications are about safety, and `AnsweredOnce` says also of every state
in which a connect has nothing left to wait for that its caller has been called
back, which needs no assumption on when sockets answer.

The safety properties of `MongoCursor` speak of callers that wait for the answer
to one call before the next and do not rewind a cursor inside its own close:
`disturbed` records the others. For those the code gives documents twice or
leaks the server's cursor, which TLC shows as soon as the condition is dropped.

## 4. Proofs

Each module of proofs extends the module it is about, states an inductive
invariant `IInv` (two modules have a second one, which rests on the first), proves
that every action keeps it, and draws the theorems from it. The only assumptions are those on the constants, which the
module of the model states and TLC evaluates on every run: bounds are natural
numbers, sets of kinds are among the kinds the code has, and what each section
below adds. Every theorem holds for all values of the constants, so for queues,
pools, sets and results of any size, and any number of calls and failures.

### MysqlClientProofs

`MysqlClientProofs` proves, for every set of statements and every number of
commands, with no assumption but `MysqlAssumption` (the statements with
parameters and with fields are statements, the bound is a natural number):

| Theorem | Statement |
|---|---|
| `TypeCorrect` | `Spec => []TypeOK` |
| `PacketsRouted` | `Spec => []Routed` |
| `OneRequestAtATime` | `Spec => []OneRequest` |
| `ExecutesArePrepared` | `Spec => []ExecutesPrepared` |
| `FinishesReported` | `Spec => []NoSilentFinish` |
| `SessionImplemented` | `Spec => ImplementsSession` |

The argument. `Routed` says something about one packet, and to keep it one must
know what every packet on the wire will do to the state of the command at the
head of the queue. The inductive invariant `IInv` therefore says in which of
four situations the wire is: only the greeting is on it, a request is, a
response is, or nothing. For a response it claims a `Chain`: a sequence of
states through which the remaining packets take the head command, which reaches
`done` exactly at the last packet. A server answer creates a chain
(`ResponseTakes`, by cases on the response), a packet consumes its first link
(`ChainStep`), a broken connection cuts its end (`ChainPrefix`), and at `done`
the wire is empty, so the next command meets its own response. The rest of
`IInv` is what this needs: the queue and the finished commands together are all
commands in order, a non-empty queue on a connected client has been started
unless it is stalled by an execute that threw (`HeadStarted`), the cache holds only prepared statements, and every finished command has an
event. What is said of the wire (`OnWire`) holds until a response is cut: the
chain of a query with a second result after an OK has a place of its own, `cut`,
after that OK, from which nothing is claimed. Type correctness, the order of
the commands, their events and the refinement do not depend on it. `Dispatched` states once what `DispatchPacket` does, and every action
that starts commands uses it. For the refinement, each step is a `Turn` of
`MysqlSession` with the commands it adds and the number it finishes, or a
stutter.

### AmqpChannelProofs

| Theorem | Statement |
|---|---|
| `ChannelTypeCorrect` | `Spec => []TypeOK` |
| `FiredRequestsExecuted` | `Spec => []FiredWasExecuted` |
| `TasksInOrder` | `Spec => []IssueOrder` |
| `OrderlyKeepsChannel` | `Spec => []ConnectionKept` |

A promise is fired for the first task of the list that waits for a method of this
name, and nothing in the method says which request it answers. `IInv` therefore
follows each request over four places: a task is executed by the broker, or on
its way to it, or in the list and not sent, and in this order its ids ascend
(`Ascending`); the replies on their way answer, one by one, the executed tasks that
still wait (`Paired`). The handshake is a single token (`Handshake`): exactly one of
its methods is under way until the object is declared, and no task has been sent
before that (`Opening`). `Ending` and `Orderly` say what can still be on the wire
once `close` was called: a program that does not misuse the object has its
`close` as the last frame, so the broker never sees a frame on a closed channel.

### AmqpConnectionProofs

| Theorem | Statement |
|---|---|
| `ConnectionTypeCorrect` | `Spec => []TypeOK` |
| `ChannelsAreOwned` | `Spec => []ChannelHasOneOwner` |
| `OrderlyKeepsConnection` | `Spec => []ConnectionKept` |
| `QueuesAreOne` | `Spec => []OneQueueOfAName` |
| `TablesAreTrue` | `Spec => []TablesHold` |

`ConnectionAssumption` says that the default exchange is prebaked and that the
names the broker generates are not names the program uses. `Numbered` says that
no two objects ever have the same channel number, over any number of connections
(the counter is not reset), and that the table leads from a number to the object
of this connection that has it. `Broker` describes what the broker has on its
way: nothing follows a `channelCloseOk` on its channel, and a `channelOpenOk`, a
`declareOk` or a `channelClose` is the only answer on its channel. `Orderly`
gives, for a program that used its objects as the driver supports, the state of
each object against the state of its channel at the broker, which is what makes
every frame written one that the broker expects.

The last two theorems need an invariant of their own, which rests on the first: an
answer reaches the object it is for, and no two objects have one channel. For it
`ConnectionAssumption` adds that the broker's names and the program's are apart, that
the broker gives no empty name, and that an exchange without a name is one the broker
has (the driver takes every name that matches `/^$|(amq\.)/` for prebaked, `amqp.js:1740`).

Neither property is inductive, because of what is on its way. A queue's entry is
written twice, when it is constructed and when the broker has answered its declare,
so that between the two another object may come under the same name; an anonymous
queue has no name at all until then; and a destroy or a close that is still waiting
will remove an entry by its name. `Tabled` therefore says, besides what the entries
lead to (`Entries`):

- a queue of this connection with its channel, not destroyed, has the entry of its
  name (`HasEntry`), unless some object of that name has been ended twice (`Lost`):
  the first end removes its own entry, and only a second can remove that of another;
- at most one queue of a name is in use (`OneInUse`), with the same exception; once
  the broker has closed the connection this is said only of queues that are told
  their names, since what is declared after that is never answered;
- an answer on its way is awaited by an object that is not open yet, with the name
  it asked for or one that no queue has (`Expected`), and no two anonymous queues
  are given one name;
- an exchange counts at least the queues bound to it that are not destroyed
  (`Enough`), so that the count comes to nothing, and `cleanup` removes the entry,
  only when none is left; and the tasks of an object hold no more destroys than the
  program called (`Ordered`).

`Tabled` is a formula about any objects and tables, with a lemma for each way in
which they change: a task or a state (`TabledQuiet`), a flush (`TabledFlush`), a new
object (`TabledMore`), a bind (`TabledBound`), a declare (`TabledNamed`), a close
(`TabledClosed`), answers lost or added (`TabledLess`, `TabledAnswer`), a new
connection (`TabledAnew`). An action such as `DeclareOk` is two of these changes,
and the tables between them are no state of the system, which is why the formula is
not about the variables.

### AmqpDeliveryProofs

| Theorem | Statement |
|---|---|
| `DeliveryInvariant` | `Spec => []IInv` |
| `DeliveryTyped` | `Spec => []TypeOK` |
| `DeliveriesInOrder` | `Spec => []GivenInOrder` |
| `ShiftCostsNothing` | `Spec => []ShiftAcknowledges` |

`DeliveryAssumption`: a frame header has an octet at least, and so has the part of a
body that a frame takes; sizes of messages are natural numbers, 0 among them or not.

The theorems hold for any sizes of headers, frames and messages, so the proof
cannot look at the frames of a delivery one by one. `FramesAre` says what `Frames`
makes of a message: a method, a header, and as many body frames as the size calls
for, each starting where the one before it ends, the last one ending at the size.
`InStep` says of the parser and the octets on the wire that what it has taken and
what is coming are together one whole frame (`Comes` is "frame `f` but its first
`k` octets"); the octet that ends an empty frame, which the code handles twice, is
the case that needs `InPayload` to allow a size of 0. For each queue there are two
numbers `n` and `j` (`QueueIn`): it has handled `n` deliveries and `j` frames of the
next one (`Handled`), the frame that has begun to come, if it is one of this queue,
is frame `j + 1`, and the frames that wait are those after it (`Coming`). From
`Handled` the message in the making, its tag, its octets and how many of them have
been read follow, and with `GivenAre` what the listeners were given.

`ShiftAcknowledges` needs more than the order: while the subscriptions of a queue
share one window and the program has shifted only when it was to (`Good`), the
delivery that waits for an acknowledgement is the last one, and the broker sends
no other one before it is acknowledged (`Alone`), so that `_lastMessage` is the
message to acknowledge at every `shift()` that is due.

An octet or a call changes little of this: `OctetKeeps` reduces the steps of the
parser to what they do to the queue of their frame, and `QueueSame` and `TypedSame`
carry the rest over.

### MongoCursorProofs

| Theorem | Statement |
|---|---|
| `CursorTypeCorrect` | `Spec => []TypeOK` |
| `DocumentsInOrder` | `Spec => []InOrder` |
| `EndAfterAll` | `Spec => []EndMeansAll` |
| `CursorsAreKnown` | `Spec => []NoLeak` |

`CursorAssumption` keeps 1 out of the batch sizes, which to the server means "one
document and no cursor", and asks that the server's own batch be two at least.
`Posted` holds of every caller: each call has one place, in the requests, the
replies or among the answered ones. The rest, `Calm`, is about callers that wait
for their answers: at most one request or reply is under way (`OneAtATime`), and
`WellOrdered` then says that the documents given, those in `items`, those in the
reply and those the server still has are one ascending row without a gap (`Row`),
that the state of the cursor, its id and the server's cursor agree (`StateOf`),
and how far the count of the client is behind the server's (`Behind`), from which
the size of the next request follows and with it that a limit is met exactly.

### MongoPoolProofs

| Theorem | Statement |
|---|---|
| `PoolTypeCorrect` | `Spec => []TypeOK` |
| `RequestsAtMostOnce` | `Spec => []AtMostOnce` |
| `ReconnectsWhole` | `Spec => []ReconnectWhole` |

`PoolAssumption`: a pool has one socket or more, and the bound on sockets allows
one pool. A request is a token that is at one place at most, the queue, one
direction of one socket, or none (`Apart`), and a token that is in the queue or on
its way to the server has neither been executed nor answered (`Counts`). This is
kept although `send` can put a request in the queue while others are on sockets,
and `Resend` moves the whole queue, because the sockets of a pool are distinct
and a socket that has closed delivers nothing. `Handshakes`, `Authorised` and
`Admitted` do the same for the authentications: each is under way for the socket
it is meant for, its answer is only handled by that socket, and once the reconnect
has ended every socket of the pool is authenticated or waits for its answer;
`Counted` bounds the two counters of the poll by the sockets they count.

### MongoReplSetProofs

| Theorem | Statement |
|---|---|
| `ReplSetTypeCorrect` | `Spec => []TypeOK` |
| `CallersAnsweredOnce` | `Spec => []AnsweredOnce` |
| `TargetsAreMasters` | `Spec => []TargetIsMaster` |

`ReplSetAssumption`: servers are finitely many, and a connect has a seed. A connect
ends when its two counters reach the number of servers it knows. `Counted` bounds
their sum by the servers that have replied or failed, so that a connect that has
a server left to hear from has not ended (and by `Awaited` a caller that has not
been called back has such a server, unless something it is excused by has
happened: a reply lost or a connection replaced, a connect met, an error that was
not counted); `Meetings` says that of two connects under way each knows that it met
another. `Once` is the bookkeeping of the callers: while a connect asks, its owner
waits for it, and for no other one. Each action is one of four: replies are lost
and nothing is counted (`Faded`), one server is counted and new ones are perhaps
discovered (`Hears`), a caller is called back (`Called`), or a connect starts.

### MongoGridProofs

| Theorem | Statement |
|---|---|
| `GridInvariant` | `GridSpec => []IInv` |
| `GridTypes` | `GridSpec => []GridTypeOK` |
| `NoStrays` | `GridSpec => []NoStrayChunks` |
| `HoldsWritten` | `GridSpec => []ClosedHoldsWritten` |
| `ReadInvariant` | `Spec => []ReadInv` |
| `ReadTypes` | `Spec => []TypeOK` |
| `ReadsExactly` | `Spec => []ReadExact` |

`GridAssumption` says that a chunk has a byte or more and that the bounds are natural
numbers. The theorems hold for every size of chunk and of file, and any number of
objects that write one after the other, each of which may die between any two of its
database operations. The proof cannot look at a file chunk by chunk; it is about the
numbers of chunks and the positions of bytes (`Piece`: chunk `n` has the bytes of the
content that begin at `n * ChunkSize`), with the few facts on products and remainders
that this needs at the start of the module.

Writing. What holds whatever has happened: a chunk and what is still to be written
after it end within the bytes that were ever written (`Fits`), which bounds every
length; a chunk is saved to make way for the next one only when it is full (`Steps`);
no two documents have one id, and the id of a new chunk is that of none of them
(`Documents`, `Identified`); there is at most one document of a file, and it is that
of the object that is open (`Files`, `Owner`). What holds as long as nothing excuses
the object (`excuse` is empty: no failed operation, no seek, no damaged file or full
last chunk to append to, and no `writeFile` beside the chunks of an earlier file) is `Calm`: the documents of the file are exactly the chunks before
the current one, each once and full; those, the current chunk and the bytes that wait
make up `want`; and there is no other document but the one that a save of the current
chunk replaces (`Laid`). `Kept` says this for each place `pc` an object may be in,
between the removal of a chunk and its insertion, between the removal of the file's
document and its insertion, and before the last chunk is loaded to append to.
When the object has closed the file, `Laid` with the last chunk saved is `Stored`,
from which `ClosedHoldsWritten` follows byte by byte. `NoStrayChunks` holds because
every document is one of those that `Stored` counts, or the file was unlinked and all
its documents were removed before its own (`Purged`).

Reading. While nobody changes the file (`calm`), it is stored as the first half says,
and the chunk in hand is one of its chunks or the empty one that `nthChunk` makes for
a missing one (`Known`). `Right` is what a call has done at each place it may be. For
`read` and a stream it is `Ready`: what was taken are the bytes from the start on, and
the head is where they continue. The code compares `Len(data) + 1` with what is left,
so that it may pass one byte too many; `Ready` carries along that what is left does not
go wrong by a byte (`Fair`), which at the first chunk is the complement of `OffByOne`
and then has to be kept: after a whole chunk the remainder has changed by `ChunkSize`,
so it is never of the form `j * ChunkSize + 1` (`Even`), and a call that waits has used
up exactly its chunk (`Spent`). For `readBuffer` it is `Buffers`, which relates the
position, the bytes taken and the end; `getc` is one byte. A stream has given
`completed` bytes and has one chunk on its way, the next of a spent one, or none
(`Streams`); pauses and resumes change only what starts the next tick, unless they start a
second reading (`overlap`), which `ReadExact` excuses.

This proof found a case the run had not reached: with one more call than the bound then
allowed, a call after the end starts from the empty chunk that stands for a missing
one, and with chunks of one byte the remainder 1 is 0. `exact` and `OffByOne` now say so,
and the run has three calls.

### What is only model-checked

The liveness properties (`EveryCommandFinishes`, `TasksComplete`,
`MessagesComplete`, `EveryCallAnswered`, `EveryRequestEnds`, `WritesComplete`,
`ReadsComplete`), since TLAPS does not do liveness under fairness, and the properties
of the runs that expect a violation, which are false. Every safety property of every
run, the refinement `ImplementsSession` with them, is a theorem.

## 5. Plan

In the order of importance; every module is written for TLC first and then
proved about where its invariants are not bound to data.

1. The models, `MysqlClient`, `AmqpChannel`, `AmqpConnection`, `AmqpDelivery`,
   `MongoCursor`, `MongoPool`, `MongoReplSet`, `MongoGridStore` and
   `MongoGridRead`, and the proofs of section 4 (done).
2. `MongoFraming`: the data listener over any cutting of the stream.
3. `NodeStatic`, `Memcached`, `Flash`: small modules on completion, caching and
   lifetimes.

## 6. What is not modelled

Byte formats (MySQL readers and writers, AMQP fields, BSON), values of columns,
logging, `set`/`get`/`escape`, and events that are only forwarded. The MySQL
`websql` wrapper and the components of the plan that have no module yet, listed
in `PROJECT.json`. In `MysqlClient`, CALL statements that return result sets
the prepare did not announce, and a client whose `auth` is called twice, are
left out, and so are queries of more than two results and errors thrown by the
caller's own listeners. In
`AmqpConnection`, heartbeats and a broker of another version. In `AmqpDelivery`,
listeners of `subscribeRaw`, JSON bodies, and malformed frames. In `MongoReplSet`,
reads from secondaries, `close` by the program, and two addresses of one server.
In GridFS, `exist`, `list`, `readlines` and metadata, which do not change a file;
writers that write at the same time, and calls made before the one before them
has called back, nor `writeFile` of an object opened to read. A byte nobody wrote is one value, whatever memory it is.

Most of the repository's lines are vendored or pages: jQuery and its plugins,
KindEditor, jshash, LevelDB, nodeunit. They are other projects' code, and the map
covers none of them.

What the models show of the code beyond the runs that expect a violation, and the
properties therefore exclude or excuse by name:

- a query that is answered with an OK after which more results follow ends on that OK
  (`mysql-native/commands/query.js:117`), although the client negotiates
  multi-statements (`auth.js:75`): all later commands are given each other's packets;
- an execute of a statement that is not cached, with automatic preparation off,
  throws out of the call when the queue is empty (`execute.js:63`), and blocks
  the queue for good, since `socketclient.js:107` is not reached;
- the callback given to `connection.exchange()` never runs for a prebaked exchange
  (`amqp.js:1740`), against `node-amqp/README.md:196`;
- the second anonymous queue of an AMQP connection is the first one, even when it
  is closed (`amqp.js:1175`);
- `_defaultExchange` outlives a reconnect: `connection.publish` then writes to a
  channel the broker never opened, which costs the new connection
  (`amqp.js:1226`);
- `destroy` and then `close` of a queue remove the entry of a newer queue of its
  name (`amqp.js:1683`), and a queue destroyed twice takes two bindings off its
  exchange (`amqp.js:1613`); a queue of an earlier connection that is destroyed
  takes one off the exchange it was bound to, whose entry may be a newer exchange's;
- an AMQP message without a body never ends, so that its listener is not called
  and a subscription with ack stops (`amqp.js:1714`);
- `shift` acknowledges the last message of the queue whatever subscription it was
  for: with two, the channel may be closed or stop (`amqp.js:1501`);
- a cursor that the server has dropped ends like a complete result
  (`mongodb/cursor.js:538`), against the comment at `:447`, and `getMore` on a
  connection that is down calls back twice (`:519`);
- a `rewind` in the callback of a cursor's `close` is undone when the callback
  returns (`mongodb/cursor.js:668`);
- a server of another replica set makes `connect` call back more than once, and
  every later connect of this object not at all, since `otherErrors` is never
  emptied (`mongodb/connections/repl_set_servers.js:135`, `:181`);
- a connect that meets another one, or whose socket breaks before the reply to
  `isMaster`, may never call back (`repl_set_servers.js:213`, `:234`, `:273`);
- after a first success `Db.state` stays `connected`, so that a later connect in
  which every server fails is a success, and the retries are not used
  (`repl_set_servers.js:279`);
- an operation to a discovered server whose socket is not open waits in the queue
  for ever (`mongodb/connection.js:231`), and so may the `isMaster` of a connect
  that was opening that socket, which then never calls back (`:237`);
- `writeFile` of an object of mode `w+` inserts its chunks beside those of the file
  (`gridfs/gridstore.js:206`), so that the closed file has two chunks of a number;
- GridFS drops the errors of operations on chunks (`gridfs/chunk.js:150`), and those of
  the close that `writeFile` and `write(.., true)` make (`gridstore.js:228`, `:302`), keeps
  the first chunk on `rewind` (`gridstore.js:646`), reads a byte too many or too
  few where one byte is left for the last chunk (`chunk.js:78`), and never returns
  from a `seek` into another chunk while reading (`gridstore.js:802`), from a
  `readBuffer` at the end, or from a stream paused before its first tick.
