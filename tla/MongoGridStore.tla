---------------------------- MODULE MongoGridStore ----------------------------
(***************************************************************************)
(* A GridFS file of node-mongodb-native that is written: the documents in  *)
(* the two collections, and the GridStore object that writes them.         *)
(*                                                                         *)
(* Every database operation is a step of its own.  Between two of them the *)
(* program may die, and an operation on the chunks may fail, which the     *)
(* code does not look at.  A program uses one writing object at a time,    *)
(* with one call under way; the next one may find what a dead one left.    *)
(*                                                                         *)
(* The bytes written are numbered 1, 2, ...; 0 is a byte nobody wrote.     *)
(***************************************************************************)
EXTENDS Naturals, Sequences, FiniteSets

CONSTANTS
  ChunkSize,  (* bytes of a chunk                     *)
  MaxBytes,   (* bound: bytes written in all          *)
  MaxWrite,   (* bound: bytes of one write            *)
  MaxOpens    (* bound: objects opened to write       *)

ASSUME GridAssumption ==
  /\ ChunkSize \in Nat \ {0}
  /\ MaxBytes \in Nat /\ MaxWrite \in Nat /\ MaxOpens \in Nat

VARIABLES
  chunks,     (* the collection of the chunks: [id, fid, n, data]           *)
  files,      (* the collection of the files, of one name: [fid, length]    *)
  w,          (* the GridStore that writes, and the call under way          *)
  want,       (* history: the bytes the file should hold once w is closed   *)
  excuse,     (* history: why w may fail to store them                      *)
  bytes,      (* history: number of bytes written                           *)
  opens       (* history: number of objects opened                          *)

gridVars == <<chunks, files, w, want, excuse, bytes, opens>>

Least(a, b) == IF a < b THEN a ELSE b

-----------------------------------------------------------------------------
(* Chunks                                                                  *)

\* An object id no document and no object has.
FreshId ==
  LET used == {c.id : c \in chunks} \cup {w.chunk.id}
  IN CHOOSE i \in 1 .. Cardinality(used) + 1 : i \notin used

\* A Chunk object, with its read/write head.
NewChunk(k) == [id |-> FreshId, n |-> k, data |-> <<>>, p |-> 0]

\* Chunk.write: Binary.write takes an offset of 0 for the end of the data, and
\* cuts what comes after the bytes written.
ChunkWrite(c, s) ==
  LET at == IF c.p = 0 THEN Len(c.data) ELSE c.p
      kept == [i \in 1 .. at |-> IF i <= Len(c.data) THEN c.data[i] ELSE 0]
  IN [c EXCEPT !.data = kept \o s, !.p = at + Len(s)]

Docs(fid) == {c \in chunks : c.fid = fid}

\* What nthChunk may find.  A missing chunk makes an empty one, of number 0.
Nth(fid, k) ==
  LET found == {c \in Docs(fid) : c.n = k}
  IN IF found = {} THEN {NewChunk(0)}
     ELSE {[id |-> c.id, n |-> c.n, data |-> c.data, p |-> 0] : c \in found}

\* lastChunkNumber
LastChunkNumber(length) == length \div ChunkSize

-----------------------------------------------------------------------------
(* The content of a stored file                                            *)

\* The bytes at position i of file f: one, unless chunks are missing or double.
At(f, i) ==
  {c.data[((i - 1) % ChunkSize) + 1] :
     c \in {d \in Docs(f.fid) : d.n = (i - 1) \div ChunkSize /\ (i - 1) % ChunkSize < Len(d.data)}}

Content(f) ==
  [i \in 1 .. f.length |-> IF Cardinality(At(f, i)) = 1 THEN CHOOSE b \in At(f, i) : TRUE ELSE 0]

\* The chunks of f are those its length calls for, each once and no other.
Intact(f) ==
  /\ \A c \in Docs(f.fid) :
       /\ c.n * ChunkSize < f.length
       /\ Len(c.data) = Least(ChunkSize, f.length - c.n * ChunkSize)
  /\ \A c, d \in Docs(f.fid) : c.n = d.n => c = d
  /\ \A i \in 1 .. f.length : At(f, i) # {}

-----------------------------------------------------------------------------
(* The handle                                                              *)

NoHandle == [pc |-> "none", mode |-> "w", fid |-> 0, length |-> 0, date |-> FALSE,
             position |-> 0, chunk |-> [id |-> 0, n |-> 0, data |-> <<>>, p |-> 0],
             rest |-> <<>>, next |-> "write", target |-> 0]

\* The object after its last call, which has ended as pc says.
Left(pc) == [NoHandle EXCEPT !.pc = pc, !.fid = w.fid]

Resting == {"none", "idle", "closed", "failed", "unlinked"}

\* The k bytes that are written next.
Input(k) == [i \in 1 .. k |-> bytes + i]

Prefix(s, k) == SubSeq(s, 1, k)
Suffix(s, k) == SubSeq(s, k + 1, Len(s))

\* Mutants: the rest of a write keeps the number of the chunk, or goes to the
\* chunk that is full.
SameNumber(c) == NewChunk(c.n)
FullChunk(c) == [c EXCEPT !.p = ChunkSize]

\* The chunk that the rest of a write goes to.
Following(c) == NewChunk(c.n + 1)

\* The bytes that still go into the current chunk.
LeftOverDataSize(h) == ChunkSize - h.chunk.p

\* write, up to its first database operation.
Written(h, s) ==
  IF h.chunk.p + Len(s) > ChunkSize
  THEN [h EXCEPT !.chunk = ChunkWrite(@, Prefix(s, LeftOverDataSize(h))),
                 !.position = @ + LeftOverDataSize(h),
                 !.rest = Suffix(s, LeftOverDataSize(h)), !.pc = "remove", !.next = "write"]
  ELSE [h EXCEPT !.chunk = ChunkWrite(@, s), !.position = @ + Len(s),
                 !.rest = <<>>, !.pc = "idle"]

\* close, up to its first database operation.
Closing(h) ==
  IF h.chunk.p > 0 THEN [h EXCEPT !.pc = "remove", !.next = "close"]
  ELSE [h EXCEPT !.pc = "file", !.date = TRUE]

\* writeFile: chunk k with the next bytes of the file, or close.
FileChunk(h, k) ==
  LET s == Prefix(h.rest, Least(ChunkSize, Len(h.rest)))
  IN [h EXCEPT !.chunk = ChunkWrite(NewChunk(k), s),
               !.rest = Suffix(@, Len(s)), !.pc = "remove", !.next = "whole"]

\* What follows the save of the current chunk.
AfterSave(h) ==
  CASE h.next = "write" -> Written([h EXCEPT !.chunk = Following(@)], h.rest)
    [] h.next = "whole" -> IF h.rest = <<>> THEN Closing(h) ELSE FileChunk(h, h.chunk.n + 1)
    [] h.next = "seek"  -> [h EXCEPT !.pc = "reload"]
    [] h.next = "close" -> [h EXCEPT !.pc = IF h.date THEN "unfile" ELSE "file", !.date = TRUE]

-----------------------------------------------------------------------------
(* Calls of the program                                                    *)

\* A new object; the one before it is closed, or its process has died.  With
\* mode "file" or "file+" it is one of mode "w" or "w+" that is given k bytes to
\* store with writeFile, with mode "unlink" the one GridStore.unlink opens.
Open(m, k) ==
  /\ opens < MaxOpens
  /\ opens' = opens + 1
  /\ w.pc \in {"none", "closed", "failed", "unlinked"}
  /\ bytes + k <= MaxBytes
  /\ (m \notin {"file", "file+"} => k = 0)
  /\ w' = [NoHandle EXCEPT !.pc = "find", !.mode = m, !.rest = Input(k)]
  /\ bytes' = bytes + k
  /\ want' = <<>>
  /\ excuse' = {}
  /\ UNCHANGED <<chunks, files>>

\* The process that writes dies; what it has stored stays.
Die ==
  /\ w.pc \notin {"none", "closed", "failed", "unlinked"}
  /\ w' = NoHandle
  /\ want' = <<>>
  /\ excuse' = {}
  /\ UNCHANGED <<chunks, files, bytes, opens>>

\* write and writeBuffer.  The model stops at a chunk that has overflowed.
Write(k) ==
  /\ w.pc = "idle"
  /\ w.chunk.p <= ChunkSize
  /\ bytes + k <= MaxBytes
  /\ w' = Written(w, Input(k))
  /\ want' = want \o Input(k)
  /\ bytes' = bytes + k
  /\ UNCHANGED <<chunks, files, excuse, opens>>

\* Bound: an object seeks once.
Seek(to) ==
  /\ w.pc = "idle"
  /\ "seek" \notin excuse
  /\ w' = IF to \div ChunkSize # w.chunk.n
          THEN [w EXCEPT !.pc = "remove", !.next = "seek", !.target = to]
          ELSE [w EXCEPT !.position = to, !.chunk.p = to % ChunkSize]
  /\ excuse' = excuse \cup {"seek"}
  /\ UNCHANGED <<chunks, files, want, bytes, opens>>

\* rewind: the chunks are deleted, except when the current one is the first.
Rewind ==
  /\ w.pc = "idle"
  /\ w' = IF w.chunk.n # 0 THEN [w EXCEPT !.pc = "truncate"]
          ELSE [w EXCEPT !.position = 0, !.chunk.p = 0, !.chunk.data = <<>>]
  /\ want' = <<>>
  /\ UNCHANGED <<chunks, files, excuse, bytes, opens>>

\* close, and what write and writeBuffer end with when they are asked to close.
Close ==
  /\ w.pc = "idle"
  /\ w' = Closing(w)
  /\ UNCHANGED <<chunks, files, want, excuse, bytes, opens>>

\* unlink of an open object.
Unlink ==
  /\ w.pc = "idle"
  /\ w' = [w EXCEPT !.pc = "purge"]
  /\ UNCHANGED <<chunks, files, want, excuse, bytes, opens>>

Call ==
  \/ \E m \in {"w", "w+", "file", "file+", "unlink"}, k \in 0 .. MaxWrite : Open(m, k)
  \/ \E k \in 1 .. MaxWrite : Write(k)
  \/ \E to \in 0 .. w.position : Seek(to)
  \/ Rewind
  \/ Close
  \/ Unlink

-----------------------------------------------------------------------------
(* Database operations and their callbacks                                 *)

\* An operation on the chunks.  When it fails, the callback does not say so.
\* Bound: one fails for an object.
Store(new) ==
  \/ chunks' = new /\ UNCHANGED excuse
  \/ /\ "failure" \notin excuse
     /\ chunks' = chunks
     /\ excuse' = excuse \cup {"failure"}

\* Why an object that opens file f may fail to store what it is given: it
\* appends to a file that is damaged or ends with a full chunk, or writeFile
\* stores its chunks beside those of the file.
Excused(f) ==
  {e \in {"base", "boundary", "doubled"} :
     \/ e = "base" /\ w.mode = "w+" /\ ~Intact(f)
     \/ e = "boundary" /\ w.mode = "w+" /\ f.length > 0 /\ f.length % ChunkSize = 0
     \/ e = "doubled" /\ w.mode = "file+" /\ Docs(f.fid) # {}}

\* _open: the document of the name, or a new file.
FindFile ==
  /\ w.pc = "find"
  /\ \E f \in IF files = {} THEN {[fid |-> opens, length |-> 0]} ELSE files :
       /\ w' = [w EXCEPT !.fid = f.fid, !.length = f.length, !.date = files # {},
                         !.pc = IF w.mode \in {"w+", "file+"} THEN "load" ELSE "delete"]
       /\ want' = IF w.mode = "w+" THEN Content(f) ELSE w.rest
       /\ excuse' = Excused(f)
  /\ UNCHANGED <<chunks, files, bytes, opens>>

\* _open in mode "w+": the last chunk, its head at the end of it.  writeFile
\* uses neither that chunk nor the position: it begins a chunk 0 of its own.
LoadLast ==
  /\ w.pc = "load"
  /\ \/ /\ w.mode = "w+"
        /\ \E c \in Nth(w.fid, LastChunkNumber(w.length)) :
             w' = [w EXCEPT !.pc = "idle", !.chunk = [c EXCEPT !.p = Len(c.data)],
                            !.position = w.length]
     \/ w.mode = "file+" /\ w' = FileChunk(w, 0)
  /\ UNCHANGED <<chunks, files, want, excuse, bytes, opens>>

\* The documents deleteChunks removes.
Deleted(fid) == Docs(fid)

\* _open in mode "w": deleteChunks has called back.
DeleteChunks ==
  /\ w.pc = "delete"
  /\ Store(chunks \ Deleted(w.fid))
  /\ w' = LET h == [w EXCEPT !.chunk = NewChunk(0), !.position = 0]
          IN CASE w.mode = "w"      -> [h EXCEPT !.pc = "idle"]
               [] w.mode = "file"   -> FileChunk(h, 0)
               [] w.mode = "unlink" -> [h EXCEPT !.pc = "purge"]
  /\ UNCHANGED <<files, want, bytes, opens>>

\* Mutant: save inserts without removing the document it replaces.
KeepsSaved(c) == {}

\* The document that Chunk.save replaces.
Saved(c) == {d \in chunks : d.id = c.id}

\* Chunk.save: remove the document of this chunk, insert the new one.
SaveRemove ==
  /\ w.pc = "remove"
  /\ chunks' = chunks \ Saved(w.chunk)
  /\ w' = IF w.chunk.data # <<>> THEN [w EXCEPT !.pc = "insert"] ELSE AfterSave(w)
  /\ UNCHANGED <<files, want, excuse, bytes, opens>>

SaveInsert ==
  /\ w.pc = "insert"
  /\ Store(chunks \cup {[id |-> w.chunk.id, fid |-> w.fid, n |-> w.chunk.n, data |-> w.chunk.data]})
  /\ w' = AfterSave(w)
  /\ UNCHANGED <<files, want, bytes, opens>>

\* seek: the chunk of the new position.
Reload ==
  /\ w.pc = "reload"
  /\ \E c \in Nth(w.fid, w.target \div ChunkSize) :
       w' = [w EXCEPT !.pc = "idle", !.position = w.target,
                      !.chunk = [c EXCEPT !.p = w.target % ChunkSize]]
  /\ UNCHANGED <<chunks, files, want, excuse, bytes, opens>>

Truncate ==
  /\ w.pc = "truncate"
  /\ Store(chunks \ Deleted(w.fid))
  /\ w' = [w EXCEPT !.pc = "idle", !.chunk = NewChunk(0), !.position = 0]
  /\ UNCHANGED <<files, want, bytes, opens>>

\* close of a file that was there: its document is removed first.
RemoveFile ==
  /\ w.pc = "unfile"
  /\ files' = {f \in files : f.fid # w.fid}
  /\ w' = [w EXCEPT !.pc = "file"]
  /\ UNCHANGED <<chunks, want, excuse, bytes, opens>>

\* Mutant: the length is the position of the object.
PositionLength(h) == h.length

\* The length that buildMongoObject gives the file.
FileLength(h) == h.chunk.n * ChunkSize + h.chunk.p

\* close: the document of the file is saved.  The callback of close is told of a
\* failure; that of writeFile, and of a write that was asked to close, is not.
SaveFile ==
  /\ w.pc = "file"
  /\ \/ /\ files' = {f \in files : f.fid # w.fid} \cup {[fid |-> w.fid, length |-> FileLength(w)]}
        /\ w' = Left("closed")
        /\ UNCHANGED excuse
     \/ /\ w.mode \in {"w", "w+"}
        /\ w' = Left("failed")
        /\ UNCHANGED <<files, excuse>>
     \/ /\ w' = Left("closed")
        /\ excuse' = excuse \cup {"unreported"}
        /\ UNCHANGED files
  /\ UNCHANGED <<chunks, want, bytes, opens>>

\* unlink: the chunks, then the document of the file.
Purge ==
  /\ w.pc = "purge"
  /\ Store(chunks \ Deleted(w.fid))
  /\ w' = [w EXCEPT !.pc = "erase"]
  /\ UNCHANGED <<files, want, bytes, opens>>

Erase ==
  /\ w.pc = "erase"
  /\ files' = {f \in files : f.fid # w.fid}
  /\ w' = Left("unlinked")
  /\ UNCHANGED <<chunks, want, excuse, bytes, opens>>

Reply ==
  FindFile \/ LoadLast \/ DeleteChunks \/ SaveRemove \/ SaveInsert \/ Reload \/ Truncate
  \/ RemoveFile \/ SaveFile \/ Purge \/ Erase

-----------------------------------------------------------------------------
GridInit ==
  /\ chunks = {}
  /\ files = {}
  /\ w = NoHandle
  /\ want = <<>>
  /\ excuse = {}
  /\ bytes = 0
  /\ opens = 0

GridNext == Call \/ Reply \/ Die

GridSpec == GridInit /\ [][GridNext]_gridVars /\ WF_gridVars(Reply)

-----------------------------------------------------------------------------
(* Properties                                                              *)

Byte == 0 .. MaxBytes

ChunkObject == [id : Nat, n : Nat, data : Seq(Byte), p : Nat]

\* Every variable holds a value of its kind, and no two documents have one id.
GridTypeOK ==
  /\ \A c \in chunks : c \in [id : Nat, fid : 1 .. MaxOpens, n : Nat, data : Seq(Byte) \ {<<>>}]
  /\ \A c, d \in chunks : c.id = d.id => c = d
  /\ \A f \in files : f \in [fid : 1 .. MaxOpens, length : 0 .. MaxBytes]
  /\ Cardinality(files) <= 1
  /\ w \in [pc : Resting \cup {"find", "load", "delete", "remove", "insert", "reload", "truncate",
                               "unfile", "file", "purge", "erase"},
            mode : {"w", "w+", "file", "file+", "unlink"}, fid : 0 .. MaxOpens, length : 0 .. MaxBytes,
            date : BOOLEAN, position : 0 .. MaxBytes, chunk : ChunkObject,
            rest : Seq(Byte), next : {"write", "whole", "seek", "close"}, target : 0 .. MaxBytes]
  /\ want \in Seq(Byte)
  /\ excuse \subseteq {"seek", "failure", "base", "boundary", "doubled", "unreported"}
  /\ bytes \in 0 .. MaxBytes
  /\ opens \in 0 .. MaxOpens

\* A file that has been written and closed holds the bytes that were written,
\* in order, whatever the sizes of the writes, after what it held before when
\* it was opened to append, and whatever dead writers have left, unless an
\* operation failed, seek was called, the file to append to was damaged or
\* ended with a full chunk, or writeFile in mode "w+" found chunks of the file.
ClosedHoldsWritten ==
  w.pc = "closed" /\ excuse = {} => {Content(f) : f \in files} = {want}

\* Such a file has the chunks its length calls for, each once, and no other,
\* so that a later object may append to it; and when unlink calls back nothing
\* of the file is left, unless an operation failed.  A file that is empty may
\* keep its first chunk: rewind does not delete that one, and close does not
\* save it.
NoStrayChunks ==
  /\ w.pc = "closed" /\ excuse = {} /\ want # <<>> => \A f \in files : Intact(f)
  /\ w.pc = "unlinked" /\ "failure" \notin excuse => files = {} /\ Docs(w.fid) = {}

\* Every call on the object that writes calls back, unless its process dies.
WritesComplete == w.pc \notin Resting ~> w.pc \in Resting

\* docs/gridfs.md:20: the mode is for a "read (value `"r"`), write (`"w"`) or
\* append (`"w+"`) operation".
AppendKeepsContent ==
  w.pc = "closed" /\ excuse \subseteq {"boundary"} => {Content(f) : f \in files} = {want}
=============================================================================
