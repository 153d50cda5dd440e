----------------------------- MODULE MongoGridRead -----------------------------
(***************************************************************************)
(* A GridStore object that reads a file while another may write it, and    *)
(* the ReadStream made of it.                                              *)
(*                                                                         *)
(* A reading call takes what the current chunk holds and fetches the next  *)
(* one with a database operation, until it has enough.                     *)
(***************************************************************************)
EXTENDS MongoGridStore

CONSTANTS
  MaxReads,   (* bound: reading calls and seeks *)
  MaxPauses   (* bound: pauses of the stream    *)

ASSUME ReadAssumption == MaxReads \in Nat /\ MaxPauses \in Nat /\ MaxBytes > 0

VARIABLES
  r,          (* the GridStore that reads, and the call under way           *)
  s,          (* its ReadStream                                             *)
  got,        (* the bytes the last call has returned, or the stream        *)
  image,      (* history: the content of the file when r was opened         *)
  calm,       (* history: the file was intact, and no writer has touched it *)
  reads       (* history: number of calls                                   *)

readVars == <<r, s, got, image, calm, reads>>

vars == <<gridVars, readVars>>

NoReader == [pc |-> "none", fid |-> 0, length |-> 0, position |-> 0,
             chunk |-> [id |-> 0, n |-> 0, data |-> <<>>, p |-> 0],
             op |-> "none", from |-> 0, start |-> 0, asked |-> 0, need |-> 0, exact |-> TRUE]

NoStream == [final |-> 0, completed |-> 0, paused |-> FALSE, readable |-> TRUE,
             pending |-> FALSE, loads |-> <<>>, ticks |-> 0, pauses |-> 0, overlap |-> FALSE]

\* What nthChunk finds for the reader.
Fetched(k) == {[c EXCEPT !.id = 0] : c \in Nth(r.fid, k)}

\* Where the head is in the file; the position may say otherwise.
HeadAt(h) == h.chunk.n * ChunkSize + h.chunk.p

\* Mutant: the chunk that has just been read.
SameAgain(c) == c.n

\* The number of the chunk that is fetched after c.
NextNumber(c) == c.n + 1

-----------------------------------------------------------------------------
(* Bytes of a chunk                                                        *)

\* The test of read and readSlice, which lets one byte pass too many.
Holds(c, k) == c.p + k <= Len(c.data) + 1

\* k bytes of chunk c from its head.  Past the end of the buffer there is
\* nothing, or memory nobody has written.
Bytes(c, k) ==
  LET have == SubSeq(c.data, c.p + 1, Least(c.p + k, Len(c.data)))
  IN {have, have \o [i \in 1 .. k - Len(have) |-> 0]}

\* Chunk.read: what it may return.  A length of 0 is taken for all the data.
ChunkRead(c, k) ==
  IF Holds(c, k) THEN Bytes(c, IF k > 0 THEN k ELSE Len(c.data)) ELSE {<<>>}

\* The head after it.
Advance(c, k) == IF Holds(c, k) THEN [c EXCEPT !.p = @ + k] ELSE c

-----------------------------------------------------------------------------
(* Reading calls                                                           *)

\* read: one step of it, with the bytes read so far.
ReadStep(h, buf) ==
  IF Len(h.chunk.data) + 1 + Len(buf) >= h.need + h.chunk.p
  THEN \E b \in ChunkRead(h.chunk, h.need - Len(buf)) :
         /\ got' = buf \o b
         /\ r' = [h EXCEPT !.pc = "idle", !.position = Len(buf \o b),
                           !.chunk = Advance(@, h.need - Len(buf))]
  ELSE \E b \in ChunkRead(h.chunk, Len(h.chunk.data)) :
         /\ got' = buf \o b
         /\ r' = [h EXCEPT !.pc = "fetch", !.chunk = Advance(@, Len(@.data))]

\* readBuffer: one step of it; need is what is left to read.
BufferStep(h, buf) ==
  LET left == Least(h.length - h.position, h.need)
      here == Len(h.chunk.data) - h.chunk.p
  IN IF here >= left /\ here # 0
     THEN /\ got' = buf \o SubSeq(h.chunk.data, h.chunk.p + 1, h.chunk.p + left)
          /\ r' = [h EXCEPT !.pc = "idle", !.position = @ + left, !.chunk.p = @ + left]
     ELSE /\ got' = buf \o SubSeq(h.chunk.data, h.chunk.p + 1, Len(h.chunk.data))
          /\ r' = [h EXCEPT !.pc = "fetch", !.position = @ + here, !.need = left - here,
                            !.chunk.p = Len(h.chunk.data)]

\* getc of the current chunk.
CharStep(h) ==
  /\ r' = [h EXCEPT !.pc = "idle", !.position = @ + 1, !.chunk = Advance(@, 1)]
  /\ got' \in ChunkRead(h.chunk, 1)

\* A call of operation op for k bytes begins.  It is exact when the position
\* is that of the head, the head is in the chunk, and the chunk is one of the
\* file, not the empty one that stands for a missing one.
Begin(op, k) == [r EXCEPT !.op = op, !.from = HeadAt(r), !.start = r.chunk.p,
                          !.asked = k, !.need = k,
                          !.exact = /\ r.position = HeadAt(r) /\ r.chunk.p <= Len(r.chunk.data)
                                    /\ r.chunk.data # <<>> \/ r.length = 0]

\* Bound: the program makes no more calls once a writer has changed the file.
Calling ==
  /\ r.pc = "idle"
  /\ calm
  /\ reads < MaxReads
  /\ reads' = reads + 1
  /\ UNCHANGED <<gridVars, image, calm>>

\* The static GridStore.read refuses more than the file has.
Read(k) ==
  /\ Calling
  /\ r.position + k <= r.length
  /\ ReadStep(Begin("read", k), <<>>)
  /\ UNCHANGED s

ReadAll ==
  /\ Calling
  /\ r.position <= r.length
  /\ ReadStep(Begin("read", r.length - r.position), <<>>)
  /\ UNCHANGED s

\* Bound: not with the head past its chunk, where a read may have left it.
ReadBuffer(k) ==
  /\ Calling
  /\ r.chunk.p <= Len(r.chunk.data)
  /\ r.position <= r.length
  /\ BufferStep(Begin("readBuffer", k), <<>>)
  /\ UNCHANGED s

Getc ==
  /\ Calling
  /\ IF r.position = r.length THEN r' = Begin("getc", 0) /\ got' = <<>>
     ELSE IF r.chunk.p = Len(r.chunk.data)
     THEN r' = [Begin("getc", 1) EXCEPT !.pc = "fetch"] /\ got' = <<>>
     ELSE CharStep(Begin("getc", 1))
  /\ UNCHANGED s

\* seek of an object that reads: in another chunk it never calls back.
SeekRead(to) ==
  /\ Calling
  /\ r' = IF to \div ChunkSize # r.chunk.n THEN [r EXCEPT !.pc = "stuck"]
          ELSE [r EXCEPT !.op = "none", !.position = to, !.chunk.p = to % ChunkSize]
  /\ UNCHANGED <<s, got>>

\* rewind of an object that reads: it clears the first chunk, and throws in
\* another one, where it calls the chunk as a function.
RewindRead ==
  /\ r.pc = "idle"
  /\ calm
  /\ reads < MaxReads
  /\ reads' = reads + 1
  /\ r' = IF r.chunk.n # 0 THEN [r EXCEPT !.pc = "thrown"]
          ELSE [r EXCEPT !.op = "none", !.position = 0, !.chunk.p = 0, !.chunk.data = <<>>]
  /\ calm' = FALSE
  /\ UNCHANGED <<gridVars, s, got, image>>

\* The callback of nthChunk, which every reading call waits for.
Fetch ==
  /\ r.pc = "fetch"
  /\ \E c \in Fetched(NextNumber(r.chunk)) :
       LET h == [r EXCEPT !.chunk = c]
       IN CASE r.op = "read"       -> ReadStep(h, got)
            [] r.op = "readBuffer" -> BufferStep(h, got)
            [] r.op = "getc"       -> CharStep(h)
  /\ UNCHANGED <<gridVars, s, image, calm, reads>>

-----------------------------------------------------------------------------
(* Opening                                                                 *)

\* Bound: the file has been stored and is intact; of a damaged one nothing is
\* promised.
OpenRead ==
  /\ r.pc = "none"
  /\ files # {}
  /\ \A f \in files : Intact(f)
  /\ r' = [r EXCEPT !.pc = "find"]
  /\ UNCHANGED <<gridVars, s, got, image, calm, reads>>

\* _open in mode "r": a name that is not there makes an empty file.
FindRead ==
  /\ r.pc = "find"
  /\ \E f \in IF files = {} THEN {[fid |-> 0, length |-> 0]} ELSE files :
       /\ r' = [r EXCEPT !.pc = "first", !.fid = f.fid, !.length = f.length]
       /\ image' = Content(f)
       /\ calm' = Intact(f)
  /\ UNCHANGED <<gridVars, s, got, reads>>

FirstChunk ==
  /\ r.pc = "first"
  /\ \E c \in Fetched(0) : r' = [r EXCEPT !.pc = "idle", !.chunk = c]
  /\ UNCHANGED <<gridVars, s, got, image, calm, reads>>

-----------------------------------------------------------------------------
(* ReadStream                                                              *)

\* stream(): the first _execute is left to the next tick.
Stream ==
  /\ Calling
  /\ r.position <= r.length
  /\ r' = [Begin("stream", r.length - r.position) EXCEPT !.pc = "stream"]
  /\ s' = [s EXCEPT !.final = r.length - r.position, !.ticks = 1]
  /\ got' = <<>>

\* The guard of _execute.
Executes(v) == ~v.paused /\ v.readable

Remaining(v) == IF v.completed > v.final THEN 0 ELSE v.final - v.completed

\* _execute of stream v with current chunk c: a piece of data, and the end or
\* the next chunk.
Execute(v, c) ==
  LET last == Len(c.data) + 1 + v.completed >= v.final + c.p
      k == IF last THEN Remaining(v) ELSE Len(c.data)
  IN IF ~Executes(v) THEN s' = v /\ r' = [r EXCEPT !.chunk = c] /\ UNCHANGED got
     ELSE \E b \in IF Holds(c, k) THEN Bytes(c, k) ELSE {<<>>} :
            /\ got' = got \o b
            /\ r' = [r EXCEPT !.chunk = Advance(c, k)]
            /\ s' = [v EXCEPT !.completed = @ + Len(b), !.readable = ~last,
                              !.pending = @ /\ ~Holds(c, k),
                              !.loads = IF last THEN @ ELSE Append(@, NextNumber(c)),
                              !.overlap = @ \/ (~last /\ v.loads # <<>>)]

\* The next tick.
Tick ==
  /\ s.ticks > 0
  /\ Execute([s EXCEPT !.ticks = @ - 1], r.chunk)
  /\ UNCHANGED <<gridVars, image, calm, reads>>

\* The callback of nthChunk.
Loaded ==
  /\ s.loads # <<>>
  /\ \E c \in Fetched(s.loads[1]) :
       LET v == [s EXCEPT !.pending = TRUE, !.loads = Tail(@)]
       IN IF v.paused THEN s' = v /\ UNCHANGED <<r, got>> ELSE Execute(v, c)
  /\ UNCHANGED <<gridVars, image, calm, reads>>

Pause ==
  /\ r.pc = "stream"
  /\ ~s.paused
  /\ s.pauses < MaxPauses
  /\ s' = [s EXCEPT !.paused = TRUE, !.pauses = @ + 1]
  /\ UNCHANGED <<gridVars, r, got, image, calm, reads>>

\* Mutant: resume forgets to execute.
NoTick(v) == v.ticks

\* The ticks after a resume: one more when a chunk has come.
Ticks(v) == IF v.pending THEN v.ticks + 1 ELSE v.ticks

\* resume: the chunk that came during the pause is put into the stream, not
\* into the file that _execute reads; _execute fetches it again.
Resume ==
  /\ s.paused
  /\ s' = [s EXCEPT !.paused = FALSE, !.ticks = Ticks(s)]
  /\ UNCHANGED <<gridVars, r, got, image, calm, reads>>

-----------------------------------------------------------------------------
Init ==
  /\ GridInit
  /\ r = NoReader
  /\ s = NoStream
  /\ got = <<>>
  /\ image = <<>>
  /\ calm = TRUE
  /\ reads = 0

\* What the writing object changes is noted.  Bound: it stops when it has
\* changed the file that r has open.
Noted ==
  /\ calm \/ r.pc = "none"
  /\ calm' = (calm /\ chunks' = chunks /\ files' = files)
  /\ UNCHANGED <<r, s, got, image, reads>>

WriterCall == Call /\ Noted
WriterReply == Reply /\ Noted
WriterDies == Die /\ Noted

ReaderCall ==
  \/ OpenRead \/ ReadAll \/ Getc \/ RewindRead \/ Stream \/ Pause \/ Resume
  \/ \E k \in 1 .. MaxBytes : Read(k) \/ ReadBuffer(k)
  \/ \E to \in 0 .. r.length : SeekRead(to)

ReaderReply == Fetch \/ FindRead \/ FirstChunk \/ Tick \/ Loaded

Next == WriterCall \/ WriterReply \/ WriterDies \/ ReaderCall \/ ReaderReply

Spec == Init /\ [][Next]_vars /\ WF_vars(WriterReply) /\ WF_vars(ReaderReply)

-----------------------------------------------------------------------------
(* Properties                                                              *)

\* Every variable holds a value of its kind.
TypeOK ==
  /\ GridTypeOK
  /\ r \in [pc : {"none", "find", "first", "idle", "fetch", "stream", "stuck", "thrown"},
            fid : 0 .. MaxOpens, length : 0 .. MaxBytes, position : Nat, chunk : ChunkObject,
            op : {"none", "read", "readBuffer", "getc", "stream"}, from : Nat,
            start : Nat, asked : 0 .. MaxBytes, need : 0 .. MaxBytes, exact : BOOLEAN]
  /\ s \in [final : 0 .. MaxBytes, completed : Nat, paused : BOOLEAN, readable : BOOLEAN,
            pending : BOOLEAN, loads : Seq(Nat), ticks : Nat, pauses : 0 .. MaxPauses,
            overlap : BOOLEAN]
  /\ got \in Seq(Byte) /\ image \in Seq(Byte)
  /\ calm \in BOOLEAN
  /\ reads \in 0 .. MaxReads

\* A call that asks for bytes has returned, or the stream has ended.
Returned == \/ r.pc = "idle" /\ r.op # "none"
            \/ r.pc = "stream" /\ ~s.readable

\* read and stream go wrong by one byte, though the file is whole: when what is
\* left for a chunk is one byte more than the chunk before it had; when they
\* leave a chunk from the middle; and a read of nothing returns something.
OffByOne ==
  /\ r.op \in {"read", "stream"}
  /\ \/ /\ r.start + r.asked > ChunkSize
        /\ r.start \notin {0, ChunkSize} \/ r.asked % ChunkSize = 1 % ChunkSize
     \/ r.op = "read" /\ r.asked = 0 /\ r.start > 0

\* Nothing is wrong with the call: nobody has changed the file, the position
\* of the object is that of its head, which no read has put past its chunk, the
\* chunk is not the empty one that a call finds after the last, and a stream
\* has one chunk under way.
Sound == calm /\ r.exact /\ ~s.overlap /\ ~OffByOne

\* A call returns the bytes of the file from the head on, across chunks, as
\* many as were asked for or are left; so does a stream until it ends, paused
\* and resumed as it may be.
ReadExact ==
  Returned /\ Sound => got = SubSeq(image, r.from + 1, Least(r.from + r.asked, Len(image)))

\* A readBuffer with nothing left to read looks for a next chunk for ever, and
\* a stream that is paused before its first tick does not start again.
NeverReturns == \/ r.op = "readBuffer" /\ r.from >= r.length
                \/ r.op = "stream" /\ s.completed = 0 /\ s.pauses > 0

Busy == r.pc = "fetch" \/ (r.pc = "stream" /\ s.readable)

\* Every reading call returns and every stream that is not left paused ends.
ReadsComplete == Busy ~> (~Busy \/ s.paused \/ ~Sound \/ NeverReturns)
=============================================================================
