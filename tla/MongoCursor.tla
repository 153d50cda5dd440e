---------------------------- MODULE MongoCursor -----------------------------
(***************************************************************************)
(* A Cursor of node-mongodb-native, its caller, and the server that holds  *)
(* the rest of the result.                                                 *)
(*                                                                         *)
(* nextObject, close and rewind may be called at any time: also while the  *)
(* reply to an earlier call is on its way, and inside a callback.  A reply *)
(* is handled with the state the cursor has by then.                       *)
(***************************************************************************)
EXTENDS Integers, Sequences, FiniteSets

CONSTANTS
  Limits,         (* values of limitValue; 0 is no limit                    *)
  Batches,        (* values of batchSizeValue; 0 leaves it to the server    *)
  NDocs,          (* the query matches the documents 1 .. NDocs             *)
  DefaultBatch,   (* documents the server returns when it is left to it     *)
  MaxCalls,       (* bound: calls of nextObject                             *)
  MaxOutstanding, (* bound: calls of nextObject without an answer           *)
  MaxCloses       (* bound: calls of close and rewind                       *)

ASSUME CursorAssumption ==
  /\ Limits \subseteq Nat
  /\ Batches \subseteq Nat \ {1}
  /\ {NDocs, MaxCalls, MaxOutstanding, MaxCloses} \subseteq Nat
  /\ DefaultBatch \in Nat \ {0, 1}

VARIABLES
  limit,        (* Cursor.limitValue                                        *)
  batch,        (* Cursor.batchSizeValue                                    *)
  state,        (* Cursor.state                                             *)
  items,        (* Cursor.items, or <<>> when it is null                    *)
  nulled,       (* Cursor.items is null                                     *)
  cursorId,     (* Cursor.cursorId: 0, or a cursor of the server            *)
  total,        (* Cursor.totalNumberOfRecords                              *)
  closing,      (* the callback of a close() runs: it will null the items   *)
  closes,       (* calls of close and rewind made                           *)
  asked,        (* calls of nextObject made: their ids are 1 .. asked       *)
  answered,     (* how often the callback of each call has been run         *)
  given,        (* history: documents given since the last rewind           *)
  ended,        (* history: the caller has been told that there are no more *)
  userClosed,   (* history: close() was called since the last rewind        *)
  disturbed,    (* history: a call was made while another was outstanding,  *)
                (* or a rewind inside the callback of a close               *)
  up,           (* the connection to the server is open                     *)
  open,         (* cursors of the server: [id, next]                        *)
  made,         (* cursors the server has created                           *)
  timedOut,     (* history: the server has dropped an idle cursor           *)
  toServer,     (* requests: [op, call, n, cursor]                          *)
  toClient      (* replies: [op, call, docs, cursor, err]                   *)

vars == <<limit, batch, state, items, nulled, cursorId, total, closing, closes, asked,
          answered, given, ended, userClosed, disturbed, up, open, made, timedOut, toServer, toClient>>

server == <<up, open, made, timedOut>>
config == <<limit, batch>>
client == <<limit, batch, state, items, nulled, cursorId, total, closing, closes, asked,
            answered, given, ended, userClosed, disturbed>>

Calls == 1 .. MaxCalls

Least(a, b) == IF a < b THEN a ELSE b

-----------------------------------------------------------------------------
(* Steps the handlers share                                                *)

\* limitRequest: what a query or a get-more asks for.
LimitRequest ==
  IF limit > 0 THEN IF batch > 0 THEN Least(limit, batch) ELSE limit ELSE batch

Query(c) == [op |-> "query", call |-> c, n |-> LimitRequest, cursor |-> 0]
More(c, cid) == [op |-> "more", call |-> c, n |-> LimitRequest, cursor |-> cid]

\* Mutant: the cursor of the server is left alone.
KillNot(cid) == <<>>

\* close() kills the cursor of the server, if there is one and it can be told.
Kill(cid) ==
  IF cid > 0 /\ up THEN <<[op |-> "kill", call |-> 0, n |-> 0, cursor |-> cid]>> ELSE <<>>

\* Mutant: the callback is run once too often.
AnswerAgain(c, times) == answered' = [answered EXCEPT ![c] = @ + times + 1]

Answer(c, times) == answered' = [answered EXCEPT ![c] = @ + times]

\* The callback gets the first of `its`.
GiveItem(c, its) ==
  /\ items' = Tail(its)
  /\ given' = Append(given, Head(its))
  /\ Answer(c, 1)
  /\ UNCHANGED <<nulled, closing, ended, toServer>>

\* close(callback(null, null)) of a cursor that is at cid on the server.  The
\* items are dropped when the callback has returned, in CloseReturns.
End(c, cid) ==
  /\ state' = "CLOSED"
  /\ cursorId' = 0
  /\ toServer' = toServer \o Kill(cid)
  /\ closing' = TRUE
  /\ ended' = TRUE
  /\ Answer(c, 1)
  /\ UNCHANGED <<nulled, given>>

\* Mutant: off by one.
LimitReachedEarly(tot) == limit > 0 /\ limit - tot < 2

\* getMore sends nothing when the limit has been reached.
LimitReached(tot) == limit > 0 /\ limit - tot < 1

\* getMore.  A connection that is down runs the callback with the error, goes
\* on, and runs it again with the error of going on.
GetMore(c, st, cid, tot) ==
  IF LimitReached(tot)
  THEN End(c, cid) /\ items' = <<>>
  ELSE /\ state' = st
       /\ cursorId' = cid
       /\ items' = <<>>
       /\ IF up THEN toServer' = Append(toServer, More(c, cid)) /\ UNCHANGED answered
                ELSE Answer(c, 2) /\ UNCHANGED toServer
       /\ UNCHANGED <<nulled, closing, given, ended>>

\* nextObject in a state st that is not INIT, with items its.
Advance(c, st, its, cid, tot) ==
  /\ total' = tot
  /\ \/ its # <<>> /\ state' = st /\ cursorId' = cid /\ GiveItem(c, its)
     \/ its = <<>> /\ cid > 0 /\ GetMore(c, st, cid, tot)
     \/ its = <<>> /\ cid = 0 /\ End(c, cid) /\ items' = <<>>

\* Mutant: the handler swallows the exception.
FailSilently(c) == UNCHANGED <<items, nulled, closing, answered, given, ended, toServer>>

\* The items are null: the call throws, or the handler catches and reports.
Fail(c) ==
  /\ Answer(c, 1)
  /\ UNCHANGED <<items, nulled, closing, given, ended, toServer>>

-----------------------------------------------------------------------------
(* The caller                                                              *)

Unanswered == {c \in 1 .. asked : answered[c] = 0}
Outstanding == Unanswered # {}

\* nextObject.  Inside the callback of a close it is called after a rewind only.
NextObject ==
  LET c == asked + 1 IN
  /\ asked < MaxCalls /\ Cardinality(Unanswered) < MaxOutstanding
  /\ closing => state = "INIT"
  /\ asked' = c
  /\ disturbed' = (disturbed \/ Outstanding)
  /\ \/ /\ state = "INIT"
        /\ IF up THEN toServer' = Append(toServer, Query(c)) /\ UNCHANGED answered
                 ELSE Answer(c, 1) /\ UNCHANGED toServer
        /\ UNCHANGED <<state, items, nulled, cursorId, total, closing, given, ended>>
     \/ /\ state # "INIT" /\ nulled
        /\ Fail(c)
        /\ UNCHANGED <<state, cursorId, total>>
     \/ /\ state # "INIT" /\ ~nulled
        /\ Advance(c, state, items, cursorId, total)
  /\ UNCHANGED <<config, closes, userClosed, server, toClient>>

\* close(), with or without a callback: without one the items are kept.
Close(callback) ==
  /\ ~closing
  /\ closes < MaxCloses
  /\ closes' = closes + 1
  /\ state' = "CLOSED"
  /\ cursorId' = 0
  /\ toServer' = toServer \o Kill(cursorId)
  /\ closing' = callback
  /\ userClosed' = TRUE
  /\ disturbed' = (disturbed \/ Outstanding)
  /\ UNCHANGED <<config, items, nulled, total, asked, answered, given, ended, server, toClient>>

\* The callback of close() has returned.
CloseReturns ==
  /\ closing
  /\ closing' = FALSE
  /\ nulled' = TRUE
  /\ items' = <<>>
  /\ UNCHANGED <<config, state, cursorId, total, closes, asked, answered, given, ended,
                 userClosed, disturbed, server, toServer, toClient>>

\* rewind() closes a cursor that is open and starts again.
Rewind ==
  /\ state # "INIT"
  /\ closes < MaxCloses
  /\ closes' = closes + 1
  /\ state' = "INIT"
  /\ items' = <<>>
  /\ nulled' = FALSE
  /\ cursorId' = 0
  /\ total' = 0
  /\ toServer' = toServer \o (IF state = "CLOSED" THEN <<>> ELSE Kill(cursorId))
  /\ given' = <<>>
  /\ ended' = FALSE
  /\ userClosed' = FALSE
  /\ disturbed' = (disturbed \/ Outstanding \/ closing)
  /\ UNCHANGED <<config, closing, asked, answered, server, toClient>>

-----------------------------------------------------------------------------
(* A reply arrives                                                         *)

Reply == Head(toClient)

Receive(op) ==
  /\ ~closing
  /\ toClient # <<>>
  /\ Reply.op = op
  /\ toClient' = Tail(toClient)
  /\ UNCHANGED <<config, closes, asked, userClosed, disturbed, server>>

\* The query has failed: close, and hand the error over.
QueryError ==
  /\ Receive("query")
  /\ Reply.err
  /\ state' = "CLOSED"
  /\ cursorId' = 0
  /\ toServer' = toServer \o Kill(cursorId)
  /\ closing' = TRUE
  /\ Answer(Reply.call, 1)
  /\ UNCHANGED <<items, nulled, total, given, ended>>

\* The first batch: the cursor is open, whatever it was before.
QueryReply ==
  /\ Receive("query")
  /\ ~Reply.err
  /\ \/ /\ nulled
        /\ state' = "OPEN"
        /\ cursorId' = Reply.cursor
        /\ total' = Len(Reply.docs)
        /\ Fail(Reply.call)
     \/ /\ ~nulled
        /\ Advance(Reply.call, "OPEN", items \o Reply.docs, Reply.cursor, Len(Reply.docs))

\* Mutant: what is over the limit is not cut off.
TrimNot(docs, tot) == docs

\* The documents of a batch that the limit leaves, when tot have been returned.
Trim(docs, tot) ==
  IF limit > 0 /\ tot > limit
  THEN SubSeq(docs, 1, Len(docs) - Least(tot - limit, Len(docs)))
  ELSE docs

\* A batch, with documents in it.
MoreReply ==
  LET tot == total + Len(Reply.docs)
      its == items \o Trim(Reply.docs, tot)
  IN /\ Receive("more")
     /\ Reply.docs # <<>>
     /\ cursorId' = Reply.cursor
     /\ total' = tot
     /\ UNCHANGED state
     /\ \/ nulled /\ Fail(Reply.call)
        \/ ~nulled /\ its # <<>> /\ GiveItem(Reply.call, its)
        \/ /\ ~nulled /\ its = <<>>
           /\ Answer(Reply.call, 1)
           /\ ended' = TRUE
           /\ UNCHANGED <<items, nulled, closing, given, toServer>>

\* No documents: the cursor was exhausted, or the server has no such cursor.
NoMoreReply ==
  /\ Receive("more")
  /\ Reply.docs = <<>>
  /\ total' = total
  /\ End(Reply.call, Reply.cursor)
  /\ UNCHANGED items

-----------------------------------------------------------------------------
(* The server                                                              *)

Asked == Head(toServer)

Serve(op) ==
  /\ up
  /\ toServer # <<>>
  /\ Asked.op = op
  /\ toServer' = Tail(toServer)
  /\ UNCHANGED <<client, up, timedOut>>

Answering(docs, cid, err) ==
  toClient' = Append(toClient, [op |-> Asked.op, call |-> Asked.call, docs |-> docs,
                                cursor |-> cid, err |-> err])

\* At most n documents from `first` on.
Batch(first, n) ==
  LET k == IF n = 0 THEN DefaultBatch ELSE n
  IN [j \in 1 .. Least(k, NDocs - first + 1) |-> first + j - 1]

\* Whether the server keeps a cursor that is at next: one that has returned all
\* documents may still be there.
Stays(next) == IF next <= NDocs THEN {TRUE} ELSE BOOLEAN

ServeQuery ==
  LET docs == Batch(1, Asked.n) IN
  /\ Serve("query")
  /\ \E stays \in IF Asked.n = 1 THEN {FALSE} ELSE Stays(Len(docs) + 1) :
       /\ made' = IF stays THEN made + 1 ELSE made
       /\ open' = IF stays THEN open \cup {[id |-> made', next |-> Len(docs) + 1]} ELSE open
       /\ Answering(docs, IF stays THEN made' ELSE 0, FALSE)

RefuseQuery ==
  /\ Serve("query")
  /\ Answering(<<>>, 0, TRUE)
  /\ UNCHANGED <<open, made>>

ServeMore ==
  /\ Serve("more")
  /\ \E cur \in open :
       LET docs == Batch(cur.next, Asked.n)
           next == cur.next + Len(docs)
       IN /\ cur.id = Asked.cursor
          /\ \E stays \in Stays(next) :
               /\ open' = (open \ {cur}) \cup
                          (IF stays THEN {[id |-> cur.id, next |-> next]} ELSE {})
               /\ Answering(docs, IF stays THEN cur.id ELSE 0, FALSE)
  /\ UNCHANGED made

\* The server does not know the cursor: an empty batch.
NoSuchCursor ==
  /\ Serve("more")
  /\ \A cur \in open : cur.id # Asked.cursor
  /\ Answering(<<>>, 0, FALSE)
  /\ UNCHANGED <<open, made>>

ServeKill ==
  /\ Serve("kill")
  /\ open' = {cur \in open : cur.id # Asked.cursor}
  /\ UNCHANGED <<made, toClient>>

\* An idle cursor is dropped.
TimeOut ==
  /\ \E cur \in open : open' = open \ {cur}
  /\ timedOut' = TRUE
  /\ UNCHANGED <<client, up, made, toServer, toClient>>

\* The connection breaks, with what is on its way.
Break ==
  /\ up
  /\ up' = FALSE
  /\ toServer' = <<>>
  /\ toClient' = <<>>
  /\ UNCHANGED <<client, open, made, timedOut>>

-----------------------------------------------------------------------------
Init ==
  /\ limit \in Limits
  /\ batch \in Batches
  /\ state = "INIT"
  /\ items = <<>>
  /\ nulled = FALSE
  /\ cursorId = 0
  /\ total = 0
  /\ closing = FALSE
  /\ closes = 0
  /\ asked = 0
  /\ answered = [c \in Calls |-> 0]
  /\ given = <<>>
  /\ ended = FALSE
  /\ userClosed = FALSE
  /\ disturbed = FALSE
  /\ up = TRUE
  /\ open = {}
  /\ made = 0
  /\ timedOut = FALSE
  /\ toServer = <<>>
  /\ toClient = <<>>

Caller == NextObject \/ (\E callback \in BOOLEAN : Close(callback)) \/ Rewind

Data == QueryError \/ QueryReply \/ MoreReply \/ NoMoreReply

Server == ServeQuery \/ RefuseQuery \/ ServeMore \/ NoSuchCursor \/ ServeKill

Next == Caller \/ CloseReturns \/ Data \/ Server \/ TimeOut \/ Break

Spec == Init /\ [][Next]_vars

\* A callback returns, the event loop handles the replies that are there, and a
\* server that is up answers.
FairSpec == Spec /\ WF_vars(CloseReturns) /\ WF_vars(Data) /\ WF_vars(Server)
-----------------------------------------------------------------------------
(* Properties                                                              *)

\* What is sent after n calls, when the server has created m cursors.
Requests(n, m) == [op : {"query", "more", "kill"}, call : 0 .. n, n : Nat, cursor : 0 .. m]
Replies(n, m) == [op : {"query", "more"}, call : 1 .. n, docs : Seq(1 .. NDocs),
                  cursor : 0 .. m, err : BOOLEAN]

\* Every variable holds a value of its kind; items that are null hold nothing,
\* and the cursor refers to cursors the server has made.
TypeOK ==
  /\ limit \in Limits /\ batch \in Batches
  /\ state \in {"INIT", "OPEN", "CLOSED"}
  /\ items \in Seq(1 .. NDocs)
  /\ nulled => items = <<>>
  /\ made \in Nat /\ cursorId \in 0 .. made
  /\ total \in Nat
  /\ {nulled, closing, ended, userClosed, disturbed, up, timedOut} \subseteq BOOLEAN
  /\ closes \in 0 .. MaxCloses
  /\ asked \in 0 .. MaxCalls
  /\ answered \in [Calls -> 0 .. 2]
  /\ given \in Seq(1 .. NDocs)
  /\ open \subseteq [id : 1 .. made, next : 1 .. NDocs + 1]
  /\ toServer \in Seq(Requests(asked, made))
  /\ toClient \in Seq(Replies(asked, made))

Wanted == IF limit > 0 THEN Least(limit, NDocs) ELSE NDocs

\* A caller that waits for each answer gets the documents in their order, each
\* once, and never more than the limit, whatever the batches are.
InOrder ==
  ~disturbed => Len(given) <= Wanted /\ \A k \in DOMAIN given : given[k] = k

\* "No more" is said only when all documents have been given, up to the limit,
\* unless the caller closed the cursor or the server dropped it.
EndMeansAll ==
  ended /\ ~disturbed /\ ~userClosed /\ ~timedOut => Len(given) = Wanted

\* Every cursor of the server is known to somebody who will kill or exhaust it:
\* the client's cursor, a kill, or a reply on its way.
NoLeak ==
  up /\ ~disturbed =>
    \A cur \in open :
      \/ cur.id = cursorId
      \/ \E k \in DOMAIN toServer : toServer[k].op = "kill" /\ toServer[k].cursor = cur.id
      \/ \E k \in DOMAIN toClient : toClient[k].cursor = cur.id

\* Every call of nextObject is answered while the connection is up, even when
\* the cursor has been closed or rewound under it.
EveryCallAnswered ==
  \A c \in Calls : (c <= asked /\ answered[c] = 0) ~> (answered[c] > 0 \/ ~up)
=============================================================================
