---------------------------- MODULE MongoGridProofs ----------------------------
(***************************************************************************)
(* Proofs about MongoGridStore: what the collections hold between any two  *)
(* database operations of the objects that write a file, whichever of them *)
(* die or fail, and what they hold once one of them has closed it.         *)
(*                                                                         *)
(* The second half is about MongoGridRead: what an object that reads the   *)
(* file, and its stream, have taken of it.                                 *)
(*                                                                         *)
(* In each half, the first part is about numbers, bytes, chunks and the    *)
(* documents of one file, as formulas about values; the last part finds    *)
(* the values in the actions, and has the theorems.                        *)
(***************************************************************************)
EXTENDS MongoGridRead, SequenceTheorems, FiniteSetTheorems, TLAPS

-----------------------------------------------------------------------------
(* Numbers                                                                 *)

LEMMA Constants ==
  ChunkSize \in Nat \ {0} /\ MaxBytes \in Nat /\ MaxWrite \in Nat /\ MaxOpens \in Nat
BY GridAssumption

LEMMA Times ==
  ASSUME NEW k \in Nat, NEW M \in Nat
  PROVE  k * M \in Nat /\ (k + 1) * M = k * M + M /\ 0 * M = 0
  BY SMTT(30)

LEMMA Fewer ==
  ASSUME NEW k \in Nat, NEW p \in Nat, NEW M \in Nat, k <= p
  PROVE  k * M <= p * M
  BY SMTT(30)

\* n chunks end before the next one does.
LEMMA Later ==
  ASSUME NEW k \in Nat, NEW p \in Nat, NEW M \in Nat, k < p
  PROVE  k * M + M <= p * M
<1>1. k + 1 \in Nat /\ k + 1 <= p
  OBVIOUS
<1>2. (k + 1) * M <= p * M
  BY <1>1, Fewer
<1> QED BY <1>2, Times

LEMMA Division ==
  ASSUME NEW i \in Nat, NEW M \in Nat \ {0}
  PROVE  /\ i \div M \in Nat /\ i % M \in 0 .. M - 1
         /\ i = (i \div M) * M + (i % M)
         /\ (i \div M) * M \in Nat /\ (i \div M) * M <= i
<1> DEFINE q == i \div M
           rem == i % M
<1>1. q \in Int /\ M * q <= i /\ i < M * q + M
  BY SMTT(60)
<1>2. q \in Nat
  BY <1>1, SMTT(60)
<1>3. rem = i - M * q
  BY <1>1, SMTT(60)
<1>4. q * M = M * q /\ q * M \in Nat
  BY <1>2, SMTT(30)
<1> HIDE DEF q, rem
<1>5. rem \in 0 .. M - 1 /\ i = q * M + rem /\ q * M <= i
  BY <1>1, <1>2, <1>3, <1>4
<1> QED BY <1>2, <1>4, <1>5 DEF q, rem

\* A position is in one chunk.
LEMMA OneChunk ==
  ASSUME NEW M \in Nat \ {0}, NEW n \in Nat, NEW k \in Nat, NEW i \in Nat,
         n * M <= i, i < n * M + M, k * M <= i, i < k * M + M
  PROVE  n = k
<1>1. n * M \in Nat /\ k * M \in Nat
  BY Times
<1>2. ~(n < k)
  BY <1>1, Later
<1>3. ~(k < n)
  BY <1>1, Later
<1> QED BY <1>2, <1>3

LEMMA Quotient ==
  ASSUME NEW M \in Nat \ {0}, NEW n \in Nat, NEW rem \in 0 .. M - 1
  PROVE  /\ (n * M + rem) \div M = n /\ (n * M + rem) % M = rem
         /\ n * M + rem \in Nat
<1> DEFINE i == n * M + rem
<1>1. n * M \in Nat /\ i \in Nat /\ n * M <= i /\ i < n * M + M
  BY Times
<1>2. /\ i \div M \in Nat /\ i % M \in 0 .. M - 1 /\ i = (i \div M) * M + (i % M)
      /\ (i \div M) * M \in Nat
  BY <1>1, Division
<1>3. (i \div M) * M <= i /\ i < (i \div M) * M + M
  BY <1>1, <1>2
<1> HIDE DEF i
<1>4. i \div M = n
  BY <1>1, <1>2, <1>3, OneChunk
<1>5. i % M = rem
  BY <1>1, <1>2, <1>4 DEF i
<1> QED BY <1>1, <1>4, <1>5 DEF i

-----------------------------------------------------------------------------
(* Bytes                                                                   *)

LEMMA BytesAre ==
  ASSUME NEW bs \in Seq(Byte)
  PROVE  Len(bs) \in Nat /\ (bs = <<>> <=> Len(bs) = 0) /\ DOMAIN bs = 1 .. Len(bs)
OBVIOUS

LEMMA Cut ==
  ASSUME NEW bs \in Seq(Byte), NEW k \in 0 .. Len(bs)
  PROVE  /\ Prefix(bs, k) \in Seq(Byte) /\ Len(Prefix(bs, k)) = k
         /\ \A i \in 1 .. k : Prefix(bs, k)[i] = bs[i]
         /\ Suffix(bs, k) \in Seq(Byte) /\ Len(Suffix(bs, k)) = Len(bs) - k
         /\ \A i \in 1 .. Len(bs) - k : Suffix(bs, k)[i] = bs[k + i]
<1>1. Len(bs) \in Nat /\ k \in Nat /\ \A i \in 1 .. Len(bs) : bs[i] \in Byte
  OBVIOUS
<1>2. \A i \in 1 .. k : bs[i] \in Byte
  BY <1>1
<1>3. /\ SubSeq(bs, 1, k) \in Seq(Byte) /\ Len(SubSeq(bs, 1, k)) = IF 1 <= k THEN k - 1 + 1 ELSE 0
      /\ \A i \in 1 .. k - 1 + 1 : SubSeq(bs, 1, k)[i] = bs[1 + i - 1]
  BY <1>1, <1>2, SubSeqProperties
<1>4. \A i \in k + 1 .. Len(bs) : bs[i] \in Byte
  BY <1>1
<1>5. /\ SubSeq(bs, k + 1, Len(bs)) \in Seq(Byte)
      /\ Len(SubSeq(bs, k + 1, Len(bs))) = IF k + 1 <= Len(bs) THEN Len(bs) - (k + 1) + 1 ELSE 0
      /\ \A i \in 1 .. Len(bs) - (k + 1) + 1 : SubSeq(bs, k + 1, Len(bs))[i] = bs[k + 1 + i - 1]
  BY <1>1, <1>4, SubSeqProperties
<1>6. PICK n : n = Len(bs)
  OBVIOUS
<1>7. PICK a : a = SubSeq(bs, 1, k)
  OBVIOUS
<1>8. PICK b : b = SubSeq(bs, k + 1, Len(bs))
  OBVIOUS
<1>9. a \in Seq(Byte) /\ Len(a) = k /\ \A i \in 1 .. k : a[i] = bs[i]
  BY <1>1, <1>3, <1>7
<1>10. b \in Seq(Byte) /\ Len(b) = n - k /\ \A i \in 1 .. n - k : b[i] = bs[k + i]
  BY <1>1, <1>5, <1>6, <1>8
<1> QED BY <1>6, <1>7, <1>8, <1>9, <1>10 DEF Prefix, Suffix

LEMMA Joined ==
  ASSUME NEW bs \in Seq(Byte), NEW t \in Seq(Byte)
  PROVE  /\ bs \o t \in Seq(Byte) /\ Len(bs \o t) = Len(bs) + Len(t)
         /\ \A i \in 1 .. Len(bs) : (bs \o t)[i] = bs[i]
         /\ \A i \in 1 .. Len(t) : (bs \o t)[Len(bs) + i] = t[i]
<1>1. /\ bs \o t \in Seq(Byte) /\ Len(bs \o t) = Len(bs) + Len(t)
      /\ \A i \in 1 .. Len(bs) + Len(t) : (bs \o t)[i] = IF i <= Len(bs) THEN bs[i] ELSE t[i - Len(bs)]
  BY ConcatProperties
<1>2. Len(bs) \in Nat /\ Len(t) \in Nat
  OBVIOUS
<1>3. PICK u : u = bs \o t
  OBVIOUS
<1>4. \A i \in 1 .. Len(bs) : u[i] = bs[i]
  BY <1>1, <1>2, <1>3
<1>5. ASSUME NEW i \in 1 .. Len(t)
      PROVE  u[Len(bs) + i] = t[i]
  <2>1. Len(bs) + i \in 1 .. Len(bs) + Len(t) /\ ~(Len(bs) + i <= Len(bs)) /\ Len(bs) + i - Len(bs) = i
    BY <1>2
  <2> QED BY <1>1, <1>3, <2>1
<1> QED BY <1>1, <1>3, <1>4, <1>5

-----------------------------------------------------------------------------
(* Chunks                                                                  *)

\* Where Binary.write writes to chunk c.
Tip(c) == IF c.p = 0 THEN Len(c.data) ELSE c.p

Puts(d, c, bs) == d = ChunkWrite(c, bs)

\* The chunk of a handle after the bytes bs have been written to it.
LEMMA Wrote ==
  ASSUME NEW c \in ChunkObject, NEW bs \in Seq(Byte), NEW d, Puts(d, c, bs)
  PROVE  /\ d \in ChunkObject /\ d.id = c.id /\ d.n = c.n
         /\ d.p = Tip(c) + Len(bs) /\ Len(d.data) = Tip(c) + Len(bs)
         /\ \A i \in 1 .. Len(bs) : d.data[Tip(c) + i] = bs[i]
         /\ c.p = Len(c.data) => \A i \in 1 .. Len(c.data) : d.data[i] = c.data[i]
         /\ Tip(c) \in Nat
<1> DEFINE at == Tip(c)
           kept == [i \in 1 .. at |-> IF i <= Len(c.data) THEN c.data[i] ELSE 0]
<1>1. c.id \in Nat /\ c.n \in Nat /\ c.p \in Nat /\ c.data \in Seq(Byte) /\ Len(c.data) \in Nat
  BY DEF ChunkObject
<1>2. at \in Nat /\ (c.p = Len(c.data) => at = Len(c.data))
  BY <1>1 DEF Tip
<1>3. 0 \in Byte /\ \A i \in 1 .. Len(c.data) : c.data[i] \in Byte
  BY <1>1, Constants DEF Byte
<1>4. kept \in Seq(Byte) /\ Len(kept) = at
  <2>1. \A i \in 1 .. at : (IF i <= Len(c.data) THEN c.data[i] ELSE 0) \in Byte
    BY <1>1, <1>2, <1>3
  <2> QED BY <1>2, <2>1
<1>5. PICK k : k = kept
  OBVIOUS
<1>6. /\ k \in Seq(Byte) /\ Len(k) = at
      /\ c.p = Len(c.data) => \A i \in 1 .. Len(c.data) : k[i] = c.data[i]
  BY <1>1, <1>2, <1>4, <1>5
<1>7. ChunkWrite(c, bs) = [c EXCEPT !.data = k \o bs, !.p = at + Len(bs)]
  BY <1>5 DEF ChunkWrite, Tip
<1> HIDE DEF kept, at
<1>8. PICK x : x = k \o bs
  OBVIOUS
<1>9. x \in Seq(Byte) /\ Len(x) = Len(k) + Len(bs)
  BY <1>6, <1>8, Joined
<1>10. \A i \in 1 .. Len(k) : x[i] = k[i]
  BY <1>6, <1>8, Joined
<1>11. \A i \in 1 .. Len(bs) : x[Len(k) + i] = bs[i]
  BY <1>6, <1>8, Joined
<1>12. c = [id |-> c.id, n |-> c.n, data |-> c.data, p |-> c.p]
  BY DEF ChunkObject
<1>13. d = [id |-> c.id, n |-> c.n, data |-> x, p |-> at + Len(bs)]
  BY <1>7, <1>8, <1>12 DEF Puts
<1>14. d.id = c.id /\ d.n = c.n /\ d.data = x /\ d.p = at + Len(bs)
  BY <1>13
<1>15. at + Len(bs) \in Nat
  BY <1>2
<1>16. d \in ChunkObject
  BY <1>1, <1>9, <1>13, <1>15 DEF ChunkObject
<1>17. c.p = Len(c.data) => \A i \in 1 .. Len(c.data) : d.data[i] = c.data[i]
  BY <1>2, <1>6, <1>10, <1>14
<1>18. d.p = at + Len(bs) /\ Len(d.data) = at + Len(bs) /\ \A i \in 1 .. Len(bs) : d.data[at + i] = bs[i]
  BY <1>6, <1>9, <1>11, <1>14
<1> QED BY <1>2, <1>14, <1>16, <1>17, <1>18 DEF at

\* The same for a chunk whose head is at its end.
LEMMA WroteEnd ==
  ASSUME NEW c \in ChunkObject, NEW bs \in Seq(Byte), NEW d, Puts(d, c, bs), c.p = Len(c.data)
  PROVE  /\ d.p = c.p + Len(bs) /\ Len(d.data) = c.p + Len(bs)
         /\ \A i \in 1 .. Len(bs) : d.data[c.p + i] = bs[i]
         /\ \A i \in 1 .. Len(c.data) : d.data[i] = c.data[i]
<1>1. Tip(c) = c.p
  BY DEF Tip
<1>2. /\ d.p = Tip(c) + Len(bs) /\ Len(d.data) = Tip(c) + Len(bs)
      /\ \A i \in 1 .. Len(bs) : d.data[Tip(c) + i] = bs[i]
      /\ \A i \in 1 .. Len(c.data) : d.data[i] = c.data[i]
  BY Wrote
<1>3. PICK at : at = Tip(c)
  OBVIOUS
<1>4. d.p = at + Len(bs) /\ Len(d.data) = at + Len(bs) /\ \A i \in 1 .. Len(bs) : d.data[at + i] = bs[i]
  BY <1>2, <1>3
<1>5. at = c.p
  BY <1>1, <1>3
<1> QED BY <1>2, <1>4, <1>5

-----------------------------------------------------------------------------
(* Handles.  b: the number of bytes the program has written.               *)

\* The position in the file at which chunk c begins.
From(c) == c.n * ChunkSize

LEMMA FromIs ==
  ASSUME NEW c, NEW d, c.n \in Nat, d.n \in Nat
  PROVE  /\ From(c) \in Nat /\ (c.n = 0 => From(c) = 0)
         /\ d.n = c.n => From(d) = From(c)
         /\ d.n = c.n + 1 => From(d) = From(c) + ChunkSize
         /\ d.n < c.n => From(d) + ChunkSize <= From(c)
<1>1. From(c) \in Nat /\ (c.n + 1) * ChunkSize = From(c) + ChunkSize /\ (c.n = 0 => From(c) = 0)
  BY Constants, Times DEF From
<1>2. d.n < c.n => From(d) + ChunkSize <= From(c)
  BY Constants, Later DEF From
<1>3. d.n = c.n => From(d) = From(c)
  BY DEF From
<1>4. d.n = c.n + 1 => From(d) = From(c) + ChunkSize
  <2> HAVE d.n = c.n + 1
  <2>1. From(d) = (c.n + 1) * ChunkSize
    BY DEF From
  <2> QED BY <1>1, <2>1
<1> QED BY <1>1, <1>2, <1>3, <1>4

Places ==
  Resting \cup {"find", "load", "delete", "remove", "insert", "reload", "truncate", "unfile", "file",
                "purge", "erase"}

Nexts == {"write", "whole", "seek", "close"}

Handle ==
  [pc : Places, mode : {"w", "w+", "file", "file+", "unlink"}, fid : Nat, length : Nat, date : BOOLEAN,
   position : Nat, chunk : ChunkObject, rest : Seq(Byte), next : Nexts, target : Nat]

LEMMA PlacesAre ==
  /\ \A k \in {"none", "idle", "closed", "failed", "unlinked", "find", "load", "delete", "remove",
              "insert", "reload", "truncate", "unfile", "file", "purge", "erase"} : k \in Places
  /\ \A k \in {"write", "whole", "seek", "close"} : k \in Nexts
  /\ <<>> \in Seq(Byte)
BY DEF Places, Nexts, Resting

\* A handle is nowhere past the bytes that were written.
Fits(h, b) ==
  /\ h.length <= b /\ h.target <= b
  /\ h.position + Len(h.rest) <= b
  /\ From(h.chunk) + h.chunk.p + Len(h.rest) <= b
  /\ From(h.chunk) + Len(h.chunk.data) + Len(h.rest) <= b

\* A chunk is saved to make way for the next one only when it is full.
Steps(h) ==
  /\ h.pc = "load" => h.mode \in {"w+", "file+"}
  /\ h.pc = "delete" => h.mode \notin {"w+", "file+"}
  /\ \/ h.rest = <<>>
     \/ h.pc \in {"find", "load", "delete"} /\ h.mode \in {"file", "file+"}
     \/ h.pc \in {"remove", "insert"} /\ h.next \in {"write", "whole"}
  /\ h.pc \in {"remove", "insert"} =>
       /\ h.next = "write" => h.chunk.p >= ChunkSize
       /\ h.next = "whole" /\ h.rest # <<>> => h.chunk.p >= ChunkSize
  /\ h.pc = "insert" => h.chunk.data # <<>>

Sized(h, b) == h \in Handle /\ Fits(h, b) /\ Steps(h)

LEMMA HandleIs ==
  ASSUME NEW h \in Handle
  PROVE  /\ h = [pc |-> h.pc, mode |-> h.mode, fid |-> h.fid, length |-> h.length, date |-> h.date,
                 position |-> h.position, chunk |-> h.chunk, rest |-> h.rest, next |-> h.next,
                 target |-> h.target]
         /\ h.fid \in Nat /\ h.length \in Nat /\ h.position \in Nat /\ h.target \in Nat
         /\ h.chunk \in ChunkObject /\ h.rest \in Seq(Byte) /\ Len(h.rest) \in Nat
         /\ h.chunk.id \in Nat /\ h.chunk.n \in Nat /\ h.chunk.p \in Nat
         /\ h.chunk.data \in Seq(Byte) /\ Len(h.chunk.data) \in Nat /\ From(h.chunk) \in Nat
<1>1. h.chunk \in ChunkObject /\ h.rest \in Seq(Byte)
  BY DEF Handle
<1>2. /\ h.chunk.id \in Nat /\ h.chunk.n \in Nat /\ h.chunk.p \in Nat
      /\ h.chunk.data \in Seq(Byte) /\ Len(h.chunk.data) \in Nat
  BY <1>1 DEF ChunkObject
<1>3. From(h.chunk) \in Nat
  BY <1>2, FromIs
<1>4. Len(h.rest) \in Nat
  BY <1>1
<1> QED BY <1>1, <1>2, <1>3, <1>4 DEF Handle

\* What write leaves of a handle alone.
SameFile(x, h) ==
  /\ x.mode = h.mode /\ x.fid = h.fid /\ x.length = h.length /\ x.date = h.date /\ x.target = h.target
  /\ x.chunk.id = h.chunk.id /\ x.chunk.n = h.chunk.n

\* x is h after the bytes bs have been written to its chunk: all of it, or what fits.
WroteAll(x, h, bs) ==
  /\ h.chunk.p + Len(bs) <= ChunkSize
  /\ x.pc = "idle" /\ x.rest = <<>> /\ x.next = h.next
  /\ x.position = h.position + Len(bs) /\ Puts(x.chunk, h.chunk, bs)

WrotePart(x, h, bs) ==
  /\ h.chunk.p + Len(bs) > ChunkSize
  /\ x.pc = "remove" /\ x.next = "write"
  /\ x.position = h.position + (ChunkSize - h.chunk.p)
  /\ x.rest = Suffix(bs, ChunkSize - h.chunk.p)
  /\ Puts(x.chunk, h.chunk, Prefix(bs, ChunkSize - h.chunk.p))

LEMMA WrittenIs ==
  ASSUME NEW h \in Handle, NEW bs \in Seq(Byte), h.chunk.p <= ChunkSize,
         NEW x, x = Written(h, bs)
  PROVE  /\ x \in Handle /\ SameFile(x, h)
         /\ WroteAll(x, h, bs) \/ WrotePart(x, h, bs)
<1>1. /\ h.chunk.p \in Nat /\ Len(bs) \in Nat /\ ChunkSize \in Nat /\ h.chunk \in ChunkObject
      /\ h.position \in Nat
  BY Constants, HandleIs
<1>2. CASE h.chunk.p + Len(bs) > ChunkSize
  <2>1. PICK k : k = ChunkSize - h.chunk.p
    OBVIOUS
  <2>2. k \in 0 .. Len(bs)
    BY <1>1, <1>2, <2>1
  <2>3. PICK a, z : a = Prefix(bs, k) /\ z = Suffix(bs, k)
    OBVIOUS
  <2>4. a \in Seq(Byte) /\ z \in Seq(Byte)
    BY <2>2, <2>3, Cut
  <2>5. PICK c : Puts(c, h.chunk, a)
    BY DEF Puts
  <2>6. c \in ChunkObject /\ c.id = h.chunk.id /\ c.n = h.chunk.n
    BY <1>1, <2>4, <2>5, Wrote
  <2>7. x = [h EXCEPT !.chunk = c, !.position = h.position + k, !.rest = z, !.pc = "remove", !.next = "write"]
    BY <1>2, <2>1, <2>3, <2>5 DEF Puts, Written, LeftOverDataSize
  <2>8. h.position + k \in Nat
    BY <1>1, <2>2
  <2>9. x \in Handle
    <3>1. PICK q : q = h.position + k
      OBVIOUS
    <3>2. x = [h EXCEPT !.chunk = c, !.position = q, !.rest = z, !.pc = "remove", !.next = "write"]
      BY <2>7, <3>1
    <3>3. q \in Nat /\ "remove" \in Places /\ "write" \in Nexts
      BY <2>8, <3>1, PlacesAre
    <3> QED BY <2>4, <2>6, <3>2, <3>3 DEF Handle
  <2>10. SameFile(x, h)
    BY <2>6, <2>7 DEF Handle, SameFile
  <2>11. WrotePart(x, h, bs)
    BY <1>2, <2>1, <2>3, <2>5, <2>7 DEF Handle, WrotePart
  <2> QED BY <2>9, <2>10, <2>11
<1>3. CASE ~(h.chunk.p + Len(bs) > ChunkSize)
  <2>1. PICK c : Puts(c, h.chunk, bs)
    BY DEF Puts
  <2>2. c \in ChunkObject /\ c.id = h.chunk.id /\ c.n = h.chunk.n
    BY <1>1, <2>1, Wrote
  <2>3. x = [h EXCEPT !.chunk = c, !.position = h.position + Len(bs), !.rest = <<>>, !.pc = "idle"]
    BY <1>3, <2>1 DEF Puts, Written
  <2>4. h.position + Len(bs) \in Nat /\ h.chunk.p + Len(bs) <= ChunkSize
    BY <1>1, <1>3
  <2>5. x \in Handle
    BY <2>2, <2>3, <2>4, PlacesAre DEF Handle
  <2>6. SameFile(x, h)
    BY <2>2, <2>3 DEF Handle, SameFile
  <2>7. WroteAll(x, h, bs)
    BY <2>1, <2>3, <2>4 DEF Handle, WroteAll
  <2> QED BY <2>5, <2>6, <2>7
<1> QED BY <1>2, <1>3

\* There is room for the bytes bs, and write stays within it.
Room(h, bs, b) ==
  /\ h.length <= b /\ h.target <= b /\ h.position + Len(bs) <= b
  /\ From(h.chunk) + h.chunk.p + Len(bs) <= b
  /\ From(h.chunk) + Len(h.chunk.data) + Len(bs) <= b

LEMMA WrittenFits ==
  ASSUME NEW h \in Handle, NEW bs \in Seq(Byte), h.chunk.p <= ChunkSize, NEW b \in Nat, Room(h, bs, b),
         NEW x, x = Written(h, bs)
  PROVE  Sized(x, b) /\ SameFile(x, h) /\ x.pc \in {"idle", "remove"} /\ (x.pc = "remove" => x.next = "write")
<1>1. x \in Handle /\ SameFile(x, h) /\ (WroteAll(x, h, bs) \/ WrotePart(x, h, bs))
  BY WrittenIs
<1>2. /\ h.chunk.p \in Nat /\ Len(bs) \in Nat /\ ChunkSize \in Nat /\ h.chunk \in ChunkObject
      /\ h.position \in Nat /\ From(h.chunk) \in Nat /\ Len(h.chunk.data) \in Nat
  BY Constants, HandleIs
<1>3. From(x.chunk) = From(h.chunk)
  BY <1>1 DEF SameFile, From
<1>4. CASE WroteAll(x, h, bs)
  <2>1. PICK at : at = Tip(h.chunk)
    OBVIOUS
  <2>2. x.chunk.p = at + Len(bs) /\ Len(x.chunk.data) = at + Len(bs)
    BY <1>2, <1>4, <2>1, Wrote DEF WroteAll
  <2>3. x.rest = <<>> /\ Len(x.rest) = 0 /\ x.pc = "idle" /\ x.position = h.position + Len(bs)
    BY <1>4 DEF WroteAll
  <2>4. x.length <= b /\ x.target <= b
    BY <1>1 DEF SameFile, Room
  <2>5. From(h.chunk) + x.chunk.p <= b
    BY <1>2, <2>1, <2>2, SMTT(60) DEF Room, Tip
  <2>6. From(x.chunk) + x.chunk.p + Len(x.rest) <= b
    BY <1>2, <1>3, <2>1, <2>2, <2>3, <2>5
  <2>7. Len(x.chunk.data) = x.chunk.p
    BY <2>2
  <2>8. x.position + Len(x.rest) <= b
    BY <1>2, <2>3 DEF Room
  <2>9. Fits(x, b)
    BY <2>4, <2>6, <2>7, <2>8 DEF Fits
  <2> QED BY <1>1, <2>3, <2>9 DEF Steps, Sized
<1>5. CASE WrotePart(x, h, bs)
  <2>1. PICK at : at = Tip(h.chunk)
    OBVIOUS
  <2>2. PICK k : k = ChunkSize - h.chunk.p
    OBVIOUS
  <2>3. k \in 0 .. Len(bs) /\ k = ChunkSize - h.chunk.p
    BY <1>2, <1>5, <2>2 DEF WrotePart
  <2>4. PICK a : a = Prefix(bs, k)
    OBVIOUS
  <2>5. a \in Seq(Byte) /\ Len(a) = k
    BY <2>3, <2>4, Cut
  <2>6. Puts(x.chunk, h.chunk, a) /\ x.rest = Suffix(bs, k)
    BY <1>5, <2>2, <2>4 DEF WrotePart
  <2>7. x.chunk.p = at + k /\ Len(x.chunk.data) = at + k
    BY <1>2, <2>1, <2>5, <2>6, Wrote
  <2>8. Len(x.rest) = Len(bs) - k
    <3>1. PICK z : z = Suffix(bs, k)
      OBVIOUS
    <3>2. Len(z) = Len(bs) - k
      BY <2>3, <3>1, Cut
    <3> QED BY <2>6, <3>1, <3>2
  <2>9. x.pc = "remove" /\ x.next = "write" /\ x.position = h.position + k
    BY <1>5, <2>2 DEF WrotePart
  <2>10. Fits(x, b)
    <3>1. x.length <= b /\ x.target <= b
      BY <1>1 DEF SameFile, Room
    <3>2. From(h.chunk) + x.chunk.p + Len(x.rest) <= b
      <4>1. From(h.chunk) + at + Len(bs) <= b
        BY <1>2, <2>1 DEF Room, Tip
      <4>2. at \in Nat
        BY <1>2, <2>1 DEF Tip
      <4> QED BY <1>2, <2>3, <2>7, <2>8, <4>1, <4>2, SMTT(60)
    <3>3. Len(x.chunk.data) = x.chunk.p
      BY <2>7
    <3>4. x.position + Len(x.rest) <= b
      BY <1>2, <2>3, <2>8, <2>9, SMTT(60) DEF Room
    <3> QED BY <1>3, <3>1, <3>2, <3>3, <3>4 DEF Fits
  <2>11. x.chunk.p >= ChunkSize
    BY <1>2, <2>1, <2>3, <2>7, SMTT(60) DEF Tip
  <2> QED BY <1>1, <2>9, <2>10, <2>11 DEF Steps, Sized
<1> QED BY <1>1, <1>4, <1>5

-----------------------------------------------------------------------------
(* What follows a save                                                     *)

\* A chunk that is new.
Blank(i, k) == [id |-> i, n |-> k, data |-> <<>>, p |-> 0]

LEMMA BlankIs ==
  ASSUME NEW i \in Nat, NEW k \in Nat, NEW c, c = Blank(i, k)
  PROVE  /\ c \in ChunkObject /\ c.id = i /\ c.n = k /\ c.data = <<>> /\ c.p = 0 /\ Len(c.data) = 0
         /\ From(c) = k * ChunkSize /\ Tip(c) = 0
<1>1. c.id = i /\ c.n = k /\ c.data = <<>> /\ c.p = 0
  BY DEF Blank
<1>2. c \in ChunkObject
  BY PlacesAre DEF Blank, ChunkObject
<1>3. Len(<<>>) = 0
  OBVIOUS
<1> QED BY <1>1, <1>2, <1>3 DEF From, Tip

\* Ids of the documents are natural numbers, finitely many.
Ids == {c.id : c \in chunks}

Identified == IsFiniteSet(Ids) /\ (\A c \in chunks : c.id \in Nat) /\ w.chunk.id \in Nat

LEMMA FreshIs ==
  ASSUME Identified
  PROVE  FreshId \in Nat /\ (\A c \in chunks : c.id # FreshId) /\ FreshId # w.chunk.id
<1> DEFINE used == Ids \cup {w.chunk.id}
           m == Cardinality(used)
<1>1. IsFiniteSet(used) /\ m \in Nat
  BY FS_AddElement, FS_CardinalityType DEF Identified
<1>2. Cardinality(1 .. m + 1) = m + 1
  BY <1>1, FS_Interval
<1>3. ~(1 .. m + 1 \subseteq used)
  <2> SUFFICES ASSUME 1 .. m + 1 \subseteq used
               PROVE  FALSE
    OBVIOUS
  <2>1. Cardinality(1 .. m + 1) <= m
    BY <1>1, FS_Subset
  <2> QED BY <1>1, <1>2, <2>1
<1>4. \E i \in 1 .. m + 1 : i \notin used
  BY <1>3
<1>5. FreshId = CHOOSE i \in 1 .. m + 1 : i \notin used
  BY DEF FreshId, Ids
<1>6. FreshId \in 1 .. m + 1 /\ FreshId \notin used
  BY <1>4, <1>5
<1> QED BY <1>1, <1>6 DEF Ids

LEMMA NewChunkIs ==
  ASSUME NEW k
  PROVE  NewChunk(k) = Blank(FreshId, k)
BY DEF NewChunk, Blank

LEMMA ClosingFits ==
  ASSUME NEW h \in Handle, NEW b \in Nat, Fits(h, b), h.rest = <<>>, NEW x, x = Closing(h)
  PROVE  /\ Sized(x, b) /\ SameFile(x, [h EXCEPT !.date = x.date])
         /\ x.chunk = h.chunk /\ x.rest = <<>> /\ x.fid = h.fid
         /\ \/ h.chunk.p > 0 /\ x.pc = "remove" /\ x.next = "close"
            \/ ~(h.chunk.p > 0) /\ x.pc = "file"
<1>1. CASE h.chunk.p > 0
  <2>1. x = [h EXCEPT !.pc = "remove", !.next = "close"]
    BY <1>1 DEF Closing
  <2>2. x \in Handle
    BY <2>1, PlacesAre DEF Handle
  <2>3. /\ x.pc = "remove" /\ x.next = "close" /\ x.chunk = h.chunk /\ x.rest = h.rest /\ x.date = h.date
        /\ x.mode = h.mode /\ x.fid = h.fid /\ x.length = h.length /\ x.target = h.target
        /\ x.position = h.position
    BY <2>1 DEF Handle
  <2>4. Fits(x, b) /\ Steps(x)
    BY <2>3 DEF Fits, Steps
  <2>5. SameFile(x, [h EXCEPT !.date = x.date])
    BY <2>3 DEF SameFile, Handle
  <2> QED BY <1>1, <2>2, <2>3, <2>4, <2>5 DEF Sized
<1>2. CASE ~(h.chunk.p > 0)
  <2>1. x = [h EXCEPT !.pc = "file", !.date = TRUE]
    BY <1>2 DEF Closing
  <2>2. x \in Handle
    BY <2>1, PlacesAre DEF Handle
  <2>3. /\ x.pc = "file" /\ x.chunk = h.chunk /\ x.rest = h.rest
        /\ x.mode = h.mode /\ x.fid = h.fid /\ x.length = h.length /\ x.target = h.target
        /\ x.position = h.position
    BY <2>1 DEF Handle
  <2>4. Fits(x, b) /\ Steps(x)
    BY <2>3 DEF Fits, Steps
  <2>5. SameFile(x, [h EXCEPT !.date = x.date])
    BY <2>3 DEF SameFile, Handle
  <2> QED BY <1>2, <2>2, <2>3, <2>4, <2>5 DEF Sized
<1> QED BY <1>1, <1>2

\* x is h with a part of the rest in a new chunk, number k.
InChunk(x, h, k, i) ==
  /\ x.pc = "remove" /\ x.next = "whole" /\ x.fid = h.fid
  /\ Len(x.rest) = Len(h.rest) - Len(x.chunk.data)
  /\ x.chunk.id = i /\ x.chunk.n = k /\ x.chunk.p = Len(x.chunk.data)
  /\ Len(x.chunk.data) = Least(ChunkSize, Len(h.rest))
  /\ \A j \in 1 .. Len(x.chunk.data) : x.chunk.data[j] = h.rest[j]
  /\ \A j \in 1 .. Len(x.rest) : x.rest[j] = h.rest[Len(x.chunk.data) + j]

LEMMA FileChunkFits ==
  ASSUME NEW h \in Handle, NEW b \in Nat, NEW k \in Nat, Identified,
         h.length <= b, h.target <= b, h.position + Len(h.rest) <= b,
         k * ChunkSize + Len(h.rest) <= b, NEW x, x = FileChunk(h, k)
  PROVE  Sized(x, b) /\ InChunk(x, h, k, FreshId)
<1>1. /\ h.rest \in Seq(Byte) /\ Len(h.rest) \in Nat /\ h.position \in Nat
      /\ ChunkSize \in Nat \ {0} /\ k * ChunkSize \in Nat
  BY Constants, HandleIs, Times
<1>2. PICK m : m = Least(ChunkSize, Len(h.rest))
  OBVIOUS
<1>3. m \in 0 .. Len(h.rest) /\ m <= ChunkSize /\ (m < Len(h.rest) => m = ChunkSize)
  BY <1>1, <1>2 DEF Least
<1>4. PICK a, z : a = Prefix(h.rest, m) /\ z = Suffix(h.rest, m)
  OBVIOUS
<1>5. /\ a \in Seq(Byte) /\ Len(a) = m /\ \A i \in 1 .. m : a[i] = h.rest[i]
      /\ z \in Seq(Byte) /\ Len(z) = Len(h.rest) - m
      /\ \A i \in 1 .. Len(h.rest) - m : z[i] = h.rest[m + i]
  BY <1>1, <1>3, <1>4, Cut
<1>6. PICK c : c = Blank(FreshId, k)
  OBVIOUS
<1>7. /\ c \in ChunkObject /\ c.id = FreshId /\ c.n = k /\ c.data = <<>> /\ c.p = 0
      /\ From(c) = k * ChunkSize /\ Tip(c) = 0
  BY <1>6, BlankIs, FreshIs
<1>8. PICK d : Puts(d, c, a)
  BY DEF Puts
<1>9. /\ d \in ChunkObject /\ d.id = FreshId /\ d.n = k /\ d.p = 0 + m /\ Len(d.data) = 0 + m
      /\ \A i \in 1 .. m : d.data[0 + i] = a[i]
  BY <1>5, <1>7, <1>8, Wrote
<1>10. From(d) = k * ChunkSize
  BY <1>9 DEF From
<1>11. FileChunk(h, k) = [h EXCEPT !.chunk = ChunkWrite(NewChunk(k), a), !.rest = Suffix(h.rest, Len(a)),
                                  !.pc = "remove", !.next = "whole"]
  BY <1>2, <1>4 DEF FileChunk
<1>12. x = [h EXCEPT !.chunk = d, !.rest = z, !.pc = "remove", !.next = "whole"]
  BY <1>4, <1>5, <1>6, <1>8, <1>11, NewChunkIs DEF Puts
<1>13. x \in Handle
  BY <1>5, <1>9, <1>12, PlacesAre DEF Handle
<1>14. /\ x.pc = "remove" /\ x.next = "whole" /\ x.fid = h.fid /\ x.chunk = d /\ x.rest = z
       /\ x.length = h.length /\ x.target = h.target /\ x.position = h.position
  BY <1>12 DEF Handle
<1>15. \A i \in 1 .. m : d.data[i] = h.rest[i]
  BY <1>3, <1>5, <1>9
<1>16. InChunk(x, h, k, FreshId)
  <2>1. d.p = m /\ Len(d.data) = m
    BY <1>3, <1>9
  <2>2. Len(z) = Len(h.rest) - Len(d.data) /\ d.p = Len(d.data) /\ Len(d.data) = Least(ChunkSize, Len(h.rest))
    BY <1>2, <1>5, <2>1
  <2>3. \A j \in 1 .. Len(d.data) : d.data[j] = h.rest[j]
    BY <1>15, <2>1
  <2>4. \A j \in 1 .. Len(z) : z[j] = h.rest[Len(d.data) + j]
    BY <1>5, <2>1
  <2> QED BY <1>9, <1>14, <2>2, <2>3, <2>4, ZenonT(60) DEF InChunk
<1>17. Fits(x, b)
  <2>1. d.p = m /\ Len(d.data) = m
    BY <1>3, <1>9
  <2>2. PICK n, u, t, p : n = Len(h.rest) /\ u = Len(z) /\ t = From(d) /\ p = h.position
    OBVIOUS
  <2>3. n \in Nat /\ m \in 0 .. n /\ u = n - m /\ p \in Nat
    BY <1>1, <1>3, <1>5, <2>2
  <2>4. t \in Nat /\ t + n <= b /\ p + n <= b
    BY <1>1, <1>10, <2>2
  <2>5. t + m + u <= b /\ p + u <= b
    BY <2>3, <2>4
  <2>6. From(d) + m + Len(z) <= b /\ h.position + Len(z) <= b
    BY <2>2, <2>5
  <2> QED BY <1>14, <2>1, <2>6 DEF Fits
<1>18. Steps(x)
  <2>1. z # <<>> => Len(z) # 0
    BY <1>5, BytesAre
  <2>2. z # <<>> => m = ChunkSize
    BY <1>1, <1>3, <1>5, <2>1
  <2> QED BY <1>1, <1>3, <1>9, <1>14, <2>2 DEF Steps
<1> QED BY <1>13, <1>16, <1>17, <1>18 DEF Sized

LEMMA AfterSaveIs ==
  ASSUME NEW h \in Handle
  PROVE  /\ h.next = "write" =>
              AfterSave(h) = Written([h EXCEPT !.chunk = NewChunk(h.chunk.n + 1)], h.rest)
         /\ h.next = "whole" =>
              AfterSave(h) = IF h.rest = <<>> THEN Closing(h) ELSE FileChunk(h, h.chunk.n + 1)
         /\ h.next = "seek" => AfterSave(h) = [h EXCEPT !.pc = "reload"]
         /\ h.next = "close" =>
              AfterSave(h) = [h EXCEPT !.pc = IF h.date THEN "unfile" ELSE "file", !.date = TRUE]
         /\ h.next \in {"write", "whole", "seek", "close"}
<1>1. h.next = "write" => AfterSave(h) = Written([h EXCEPT !.chunk = NewChunk(h.chunk.n + 1)], h.rest)
  <2> HAVE h.next = "write"
  <2>1. "write" # "whole" /\ "write" # "seek" /\ "write" # "close"
    OBVIOUS
  <2>2. AfterSave(h) = Written([h EXCEPT !.chunk = Following(h.chunk)], h.rest)
    BY <2>1, Zenon DEF AfterSave
  <2> QED BY <2>2 DEF Following
<1>2. h.next = "whole" =>
        AfterSave(h) = IF h.rest = <<>> THEN Closing(h) ELSE FileChunk(h, h.chunk.n + 1)
  <2> HAVE h.next = "whole"
  <2>1. "whole" # "write" /\ "whole" # "seek" /\ "whole" # "close"
    OBVIOUS
  <2> QED BY <2>1, Zenon DEF AfterSave
<1>3. h.next = "seek" => AfterSave(h) = [h EXCEPT !.pc = "reload"]
  <2> HAVE h.next = "seek"
  <2>1. "seek" # "write" /\ "seek" # "whole" /\ "seek" # "close"
    OBVIOUS
  <2> QED BY <2>1, Zenon DEF AfterSave
<1>4. h.next = "close" =>
        AfterSave(h) = [h EXCEPT !.pc = IF h.date THEN "unfile" ELSE "file", !.date = TRUE]
  <2> HAVE h.next = "close"
  <2>1. "close" # "write" /\ "close" # "whole" /\ "close" # "seek"
    OBVIOUS
  <2> QED BY <2>1, Zenon DEF AfterSave
<1>5. h.next \in {"write", "whole", "seek", "close"}
  BY DEF Handle, Nexts
<1> QED BY <1>1, <1>2, <1>3, <1>4, <1>5

\* After a full chunk there is room for the rest.
LEMMA NextFits ==
  ASSUME NEW h \in Handle, NEW b \in Nat, Fits(h, b), h.chunk.p >= ChunkSize
  PROVE  (h.chunk.n + 1) * ChunkSize + Len(h.rest) <= b
<1>1. PICK f, q, p, rem : /\ f = From(h.chunk) /\ q = (h.chunk.n + 1) * ChunkSize
                        /\ p = h.chunk.p /\ rem = Len(h.rest)
  OBVIOUS
<1>2. /\ f + p + rem <= b /\ f \in Nat /\ q = f + ChunkSize /\ p \in Nat /\ rem \in Nat
      /\ ChunkSize \in Nat /\ p >= ChunkSize
  BY <1>1, HandleIs, Constants, Times DEF Fits, From
<1>3. q + rem <= b
  BY <1>2
<1> QED BY <1>1, <1>3

LEMMA AfterSaveFits ==
  ASSUME Identified, NEW h \in Handle, NEW b \in Nat, Fits(h, b), Steps(h), h.pc \in {"remove", "insert"},
         NEW x, x = AfterSave(h)
  PROVE  /\ Sized(x, b) /\ x.fid = h.fid
         /\ x.pc \in {"idle", "remove", "unfile", "file", "reload"}
<1>1. /\ h.chunk.n \in Nat /\ h.chunk.p \in Nat /\ h.rest \in Seq(Byte) /\ Len(h.rest) \in Nat
      /\ h.position \in Nat /\ h.chunk \in ChunkObject /\ From(h.chunk) \in Nat
      /\ ChunkSize \in Nat \ {0}
  BY HandleIs, Constants
<1>2. (h.chunk.n + 1) * ChunkSize = From(h.chunk) + ChunkSize /\ h.chunk.n + 1 \in Nat
  BY <1>1, Times DEF From
<1>3. h.length <= b /\ h.target <= b /\ h.position + Len(h.rest) <= b
  BY DEF Fits
<1>4. h.chunk.p >= ChunkSize => (h.chunk.n + 1) * ChunkSize + Len(h.rest) <= b
  BY NextFits
<1>5. CASE h.next = "write"
  <2>1. h.chunk.p >= ChunkSize
    BY <1>5 DEF Steps
  <2>2. PICK c : c = Blank(FreshId, h.chunk.n + 1)
    OBVIOUS
  <2>3. c \in ChunkObject /\ c.p = 0 /\ Len(c.data) = 0 /\ From(c) = (h.chunk.n + 1) * ChunkSize
    BY <1>2, <2>2, BlankIs, FreshIs
  <2>4. PICK g : g = [h EXCEPT !.chunk = c]
    OBVIOUS
  <2>5. g \in Handle
    BY <2>3, <2>4 DEF Handle
  <2>6. /\ g.chunk = c /\ g.fid = h.fid /\ g.length = h.length /\ g.target = h.target
        /\ g.position = h.position
    BY <2>4 DEF Handle
  <2>7. x = Written(g, h.rest)
    BY <1>5, <2>2, <2>4, AfterSaveIs, NewChunkIs
  <2>8. From(c) + Len(h.rest) <= b /\ From(c) \in Nat
    BY <1>1, <1>2, <1>4, <2>1, <2>3, SMTT(60)
  <2>9. Room(g, h.rest, b)
    BY <1>1, <1>3, <2>3, <2>6, <2>8, SMTT(60) DEF Room
  <2>10. Sized(x, b) /\ SameFile(x, g) /\ x.pc \in {"idle", "remove"}
    BY <1>1, <2>3, <2>5, <2>6, <2>7, <2>9, WrittenFits
  <2> QED BY <2>6, <2>10 DEF SameFile
<1>6. CASE h.next = "whole" /\ h.rest = <<>>
  <2>1. x = Closing(h)
    BY <1>6, AfterSaveIs
  <2> QED BY <1>6, <2>1, ClosingFits
<1>7. CASE h.next = "whole" /\ h.rest # <<>>
  <2>1. x = FileChunk(h, h.chunk.n + 1)
    BY <1>7, AfterSaveIs
  <2>2. h.chunk.p >= ChunkSize
    BY <1>7 DEF Steps
  <2>3. Sized(x, b) /\ InChunk(x, h, h.chunk.n + 1, FreshId)
    BY <1>2, <1>3, <1>4, <2>1, <2>2, FileChunkFits
  <2> QED BY <2>3 DEF InChunk
<1>8. CASE h.next = "seek"
  <2>1. x = [h EXCEPT !.pc = "reload"]
    BY <1>8, AfterSaveIs
  <2>2. x \in Handle
    BY <2>1, PlacesAre DEF Handle
  <2>3. /\ x.pc = "reload" /\ x.chunk = h.chunk /\ x.rest = h.rest /\ x.fid = h.fid
        /\ x.length = h.length /\ x.target = h.target /\ x.position = h.position
    BY <2>1 DEF Handle
  <2>4. h.rest = <<>>
    BY <1>8 DEF Steps
  <2> QED BY <2>2, <2>3, <2>4 DEF Sized, Fits, Steps
<1>9. CASE h.next = "close"
  <2>1. PICK p : p = IF h.date THEN "unfile" ELSE "file"
    OBVIOUS
  <2>2. x = [h EXCEPT !.pc = p, !.date = TRUE]
    BY <1>9, <2>1, AfterSaveIs
  <2>3. x \in Handle
    BY <2>1, <2>2, PlacesAre DEF Handle
  <2>4. /\ x.pc = p /\ x.chunk = h.chunk /\ x.rest = h.rest /\ x.fid = h.fid
        /\ x.length = h.length /\ x.target = h.target /\ x.position = h.position
    BY <2>2 DEF Handle
  <2>5. h.rest = <<>> /\ p \in {"unfile", "file"}
    BY <1>9, <2>1 DEF Steps
  <2> QED BY <2>3, <2>4, <2>5 DEF Sized, Fits, Steps
<1> QED BY <1>5, <1>6, <1>7, <1>8, <1>9, AfterSaveIs

-----------------------------------------------------------------------------
(* The documents of one file.  v: the bytes the file should hold.          *)

IsDocs(D) ==
  /\ \A c \in D : c.id \in Nat /\ c.n \in Nat /\ c.data \in Seq(Byte) \ {<<>>}
  /\ \A c, d \in D : c.id = d.id => c = d

\* Chunk c has the bytes of v that its number says.
Piece(c, v) ==
  \A i \in 1 .. Len(c.data) : c.data[i] = v[From(c) + i]

\* The first k chunks are stored, full, and each once.
Before(D, k, v) ==
  /\ \A c \in D : c.n < k => Len(c.data) = ChunkSize /\ Piece(c, v)
  /\ \A n \in 0 .. k - 1 : \E c \in D : c.n = n
  /\ \A c, d \in D : c.n = d.n => c = d

\* The documents are those that v calls for, and no other.
Stored(D, v) ==
  /\ \A c \in D : /\ From(c) < Len(v)
                  /\ Len(c.data) = Least(ChunkSize, Len(v) - From(c))
                  /\ Piece(c, v)
  /\ \A n \in Nat : n * ChunkSize < Len(v) => \E c \in D : c.n = n
  /\ \A c, d \in D : c.n = d.n => c = d

\* The documents before chunk c, chunk c itself and the bytes bs are v; of the
\* other documents there is at most the one that a save of c replaces.
Laid(c, bs, D, v) ==
  /\ Before(D, c.n, v)
  /\ \A d \in D : (d.n < c.n /\ d.id # c.id) \/ (d.n = c.n /\ d.id = c.id)
  /\ c.p = Len(c.data) /\ c.p <= ChunkSize
  /\ Len(v) = From(c) + c.p + Len(bs)
  /\ Piece(c, v)
  /\ \A i \in 1 .. Len(bs) : bs[i] = v[From(c) + c.p + i]

\* When the first a bytes of bs follow those of chunk c, they make chunk x with
\* what was there.
LEMMA MoreLaid ==
  ASSUME NEW c \in ChunkObject, NEW bs \in Seq(Byte), NEW D, NEW v, Laid(c, bs, D, v),
         NEW x \in ChunkObject, x.id = c.id, x.n = c.n, NEW z \in Seq(Byte), NEW k \in Nat,
         k <= Len(bs), c.p + k <= ChunkSize, x.p = c.p + k, Len(x.data) = c.p + k,
         \A i \in 1 .. Len(c.data) : x.data[i] = c.data[i],
         \A i \in 1 .. k : x.data[c.p + i] = bs[i],
         Len(z) = Len(bs) - k, \A i \in 1 .. Len(z) : z[i] = bs[k + i]
  PROVE  Laid(x, z, D, v)
<1>1. c.p \in Nat /\ Len(bs) \in Nat /\ Len(c.data) = c.p /\ From(c) \in Nat /\ ChunkSize \in Nat
  BY Constants, FromIs DEF ChunkObject, Laid
<1>2. From(x) = From(c)
  BY DEF From
<1>3. Before(D, x.n, v) /\ \A d \in D : (d.n < x.n /\ d.id # x.id) \/ (d.n = x.n /\ d.id = x.id)
  BY DEF Laid
<1>4. PICK f : f = From(c)
  OBVIOUS
<1>5. Len(v) = f + c.p + Len(bs) /\ (\A i \in 1 .. c.p : c.data[i] = v[f + i])
  BY <1>1, <1>4 DEF Laid, Piece
<1>6. \A i \in 1 .. Len(bs) : bs[i] = v[f + c.p + i]
  BY <1>4 DEF Laid
<1>7. Len(v) = f + x.p + Len(z)
  BY <1>1, <1>4, <1>5
<1>8. ASSUME NEW i \in 1 .. Len(x.data)
      PROVE  x.data[i] = v[f + i]
  <2>1. i \in 1 .. c.p + k
    OBVIOUS
  <2>2. CASE i <= c.p
    <3>1. i \in 1 .. c.p
      BY <1>1, <2>1, <2>2
    <3>2. x.data[i] = c.data[i]
      BY <1>1, <3>1
    <3> QED BY <1>5, <3>1, <3>2
  <2>3. CASE i > c.p
    <3>1. PICK p, m : p = c.p /\ m = Len(bs)
      OBVIOUS
    <3>2. i \in 1 .. p + k /\ p \in Nat /\ m \in Nat /\ k <= m /\ i > p /\ f \in Nat
      BY <1>1, <1>4, <2>1, <2>3, <3>1
    <3>3. PICK j : j = i - p
      OBVIOUS
    <3>4. j \in 1 .. k /\ p + j = i /\ f + p + j = f + i /\ j \in 1 .. m
      BY <3>2, <3>3
    <3>5. x.data[p + j] = bs[j] /\ bs[j] = v[f + p + j]
      BY <1>6, <3>1, <3>4
    <3> QED BY <3>4, <3>5
  <2> QED BY <1>1, <2>1, <2>2, <2>3
<1>9. ASSUME NEW i \in 1 .. Len(z)
      PROVE  z[i] = v[f + x.p + i]
  <2>1. k + i \in 1 .. Len(bs) /\ f + c.p + (k + i) = f + x.p + i
    BY <1>1, <1>4
  <2> QED BY <1>6, <2>1
<1>10. Piece(x, v) /\ \A i \in 1 .. Len(z) : z[i] = v[From(x) + x.p + i]
  BY <1>2, <1>4, <1>8, <1>9 DEF Piece
<1> QED BY <1>2, <1>3, <1>4, <1>7, <1>10 DEF Laid

LEMMA WrittenLays ==
  ASSUME NEW h \in Handle, NEW bs \in Seq(Byte), NEW D, NEW v, Laid(h.chunk, bs, D, v),
         NEW x, x = Written(h, bs)
  PROVE  /\ Laid(x.chunk, x.rest, D, v)
         /\ x.pc = "idle" => x.rest = <<>>
         /\ x.pc = "remove" => x.rest # <<>> /\ x.next = "write"
         /\ bs # <<>> => x.chunk.p > 0
         /\ x.pc \in {"idle", "remove"}
<1>1. /\ h.chunk \in ChunkObject /\ h.chunk.p \in Nat /\ Len(bs) \in Nat /\ ChunkSize \in Nat \ {0}
      /\ h.chunk.p = Len(h.chunk.data) /\ h.chunk.p <= ChunkSize
  BY Constants, HandleIs DEF Laid
<1>2. x \in Handle /\ SameFile(x, h) /\ (WroteAll(x, h, bs) \/ WrotePart(x, h, bs))
  BY <1>1, WrittenIs
<1>3. x.chunk \in ChunkObject /\ x.rest \in Seq(Byte) /\ x.chunk.id = h.chunk.id /\ x.chunk.n = h.chunk.n
  BY <1>2, HandleIs DEF SameFile
<1>4. bs # <<>> => Len(bs) > 0
  BY <1>1, BytesAre
<1>5. CASE WroteAll(x, h, bs)
  <2>1. x.pc = "idle" /\ x.rest = <<>> /\ Puts(x.chunk, h.chunk, bs) /\ h.chunk.p + Len(bs) <= ChunkSize
    BY <1>5 DEF WroteAll
  <2>2. /\ x.chunk.p = h.chunk.p + Len(bs) /\ Len(x.chunk.data) = h.chunk.p + Len(bs)
        /\ \A i \in 1 .. Len(bs) : x.chunk.data[h.chunk.p + i] = bs[i]
        /\ \A i \in 1 .. Len(h.chunk.data) : x.chunk.data[i] = h.chunk.data[i]
    BY <1>1, <2>1, WroteEnd, ZenonT(60)
  <2>3. Len(<<>>) = 0 /\ Len(bs) - Len(bs) = 0 /\ (\A i \in 1 .. 0 : FALSE)
    BY <1>1
  <2>4. Laid(x.chunk, x.rest, D, v)
    <3>1. PICK k, z : k = Len(bs) /\ z = x.rest
      OBVIOUS
    <3>2. k \in Nat /\ k <= Len(bs) /\ h.chunk.p + k <= ChunkSize /\ Len(z) = Len(bs) - k /\ z = <<>>
      BY <1>1, <2>1, <2>3, <3>1
    <3>3. z \in Seq(Byte) /\ (\A i \in 1 .. Len(z) : z[i] = bs[k + i])
      BY <1>3, <2>3, <3>1, <3>2
    <3>4. /\ x.chunk.p = h.chunk.p + k /\ Len(x.chunk.data) = h.chunk.p + k
          /\ \A i \in 1 .. k : x.chunk.data[h.chunk.p + i] = bs[i]
          /\ \A i \in 1 .. Len(h.chunk.data) : x.chunk.data[i] = h.chunk.data[i]
      BY <2>2, <3>1
    <3>5. Laid(x.chunk, z, D, v)
      BY <1>1, <1>3, <3>2, <3>3, <3>4, MoreLaid
    <3> QED BY <3>1, <3>5
  <2>5. bs # <<>> => x.chunk.p > 0
    BY <1>1, <1>4, <2>2
  <2> QED BY <2>1, <2>4, <2>5
<1>6. CASE WrotePart(x, h, bs)
  <2>1. PICK k : k = ChunkSize - h.chunk.p
    OBVIOUS
  <2>2. k \in 0 .. Len(bs) /\ h.chunk.p + k = ChunkSize /\ k < Len(bs)
    BY <1>1, <1>6, <2>1, SMTT(60) DEF WrotePart
  <2>3. PICK a, z : a = Prefix(bs, k) /\ z = Suffix(bs, k)
    OBVIOUS
  <2>4. /\ a \in Seq(Byte) /\ Len(a) = k /\ \A i \in 1 .. k : a[i] = bs[i]
        /\ z \in Seq(Byte) /\ Len(z) = Len(bs) - k
        /\ \A i \in 1 .. Len(bs) - k : z[i] = bs[k + i]
    BY <2>2, <2>3, Cut
  <2>5. x.pc = "remove" /\ x.next = "write" /\ x.rest = z /\ Puts(x.chunk, h.chunk, a)
    BY <1>6, <2>1, <2>3 DEF WrotePart
  <2>6. /\ x.chunk.p = h.chunk.p + k /\ Len(x.chunk.data) = h.chunk.p + k
        /\ \A i \in 1 .. k : x.chunk.data[h.chunk.p + i] = a[i]
        /\ \A i \in 1 .. Len(h.chunk.data) : x.chunk.data[i] = h.chunk.data[i]
    <3>1. PICK c, d : c = h.chunk /\ d = x.chunk
      OBVIOUS
    <3>2. /\ d.p = c.p + Len(a) /\ Len(d.data) = c.p + Len(a)
          /\ \A i \in 1 .. Len(a) : d.data[c.p + i] = a[i]
          /\ \A i \in 1 .. Len(c.data) : d.data[i] = c.data[i]
      <4>1. c \in ChunkObject /\ Puts(d, c, a) /\ c.p = Len(c.data) /\ a \in Seq(Byte)
        BY <1>1, <2>4, <2>5, <3>1
      <4> QED BY <4>1, WroteEnd, SMTT(60)
    <3> QED BY <2>4, <3>1, <3>2
  <2>7. \A i \in 1 .. k : x.chunk.data[h.chunk.p + i] = bs[i]
    BY <2>4, <2>6
  <2>8. k <= Len(bs) /\ h.chunk.p + k <= ChunkSize /\ k \in Nat
    BY <1>1, <2>2
  <2>9. Laid(x.chunk, z, D, v)
    BY <1>1, <1>3, <2>4, <2>6, <2>7, <2>8, MoreLaid, ZenonT(60)
  <2>10. x.rest # <<>> /\ x.chunk.p > 0
    <3>1. Len(z) # 0 /\ h.chunk.p + k > 0
      BY <1>1, <2>2, <2>4
    <3> QED BY <2>4, <2>5, <2>6, <3>1, BytesAre
  <2> QED BY <2>5, <2>9, <2>10
<1> QED BY <1>2, <1>5, <1>6

\* writeFile puts the next bytes into a chunk that is new.
LEMMA ChunkLays ==
  ASSUME NEW h \in Handle, NEW x \in Handle, NEW c \in ChunkObject, NEW D, NEW v,
         c.data = <<>>, c.p = 0, Laid(c, h.rest, D, v), InChunk(x, h, c.n, c.id)
  PROVE  /\ Laid(x.chunk, x.rest, D, v)
         /\ h.rest # <<>> => x.chunk.p > 0
<1>1. /\ h.rest \in Seq(Byte) /\ x.rest \in Seq(Byte) /\ x.chunk \in ChunkObject /\ Len(h.rest) \in Nat
      /\ ChunkSize \in Nat \ {0} /\ Len(c.data) = 0
  BY Constants, HandleIs
<1>2. PICK k, z, bs, d : k = Len(x.chunk.data) /\ z = x.rest /\ bs = h.rest /\ d = x.chunk
  OBVIOUS
<1>3. /\ z \in Seq(Byte) /\ bs \in Seq(Byte) /\ d \in ChunkObject /\ Laid(c, bs, D, v)
      /\ Len(z) = Len(bs) - k /\ d.id = c.id /\ d.n = c.n /\ d.p = k /\ Len(d.data) = k
      /\ k = Least(ChunkSize, Len(bs))
      /\ \A j \in 1 .. k : d.data[j] = bs[j]
      /\ \A j \in 1 .. Len(z) : z[j] = bs[k + j]
  BY <1>1, <1>2 DEF InChunk
<1>4. k \in Nat /\ k <= ChunkSize /\ k <= Len(bs) /\ (Len(bs) # 0 => k > 0)
  BY <1>1, <1>3 DEF Least
<1>5. c.p + k <= ChunkSize /\ d.p = c.p + k /\ Len(d.data) = c.p + k
  BY <1>3, <1>4
<1>6. \A i \in 1 .. k : d.data[c.p + i] = bs[i]
  BY <1>3, <1>4
<1>7. \A i \in 1 .. Len(c.data) : d.data[i] = c.data[i]
  BY <1>1
<1>8. Laid(d, z, D, v)
  BY <1>3, <1>4, <1>5, <1>6, <1>7, MoreLaid
<1>9. bs # <<>> => d.p > 0
  BY <1>3, <1>4, BytesAre
<1> QED BY <1>2, <1>8, <1>9

\* The document a save of chunk c inserts.
Document(c, f) == [id |-> c.id, fid |-> f, n |-> c.n, data |-> c.data]

\* A save removes the document of the chunk, and leaves those before it.
LEMMA RemoveLays ==
  ASSUME NEW c \in ChunkObject, NEW bs, NEW D, NEW v, Laid(c, bs, D, v), IsDocs(D),
         NEW E, E = {d \in D : d.id # c.id}
  PROVE  Laid(c, bs, E, v) /\ (\A d \in E : d.n < c.n /\ d.id # c.id) /\ IsDocs(E)
<1>1. \A d \in D : (d.n < c.n /\ d.id # c.id) \/ (d.n = c.n /\ d.id = c.id)
  BY DEF Laid
<1>2. \A d \in E : d \in D /\ d.n < c.n /\ d.id # c.id
  BY <1>1
<1>3. Before(E, c.n, v)
  <2>1. Before(D, c.n, v)
    BY DEF Laid
  <2>2. ASSUME NEW n \in 0 .. c.n - 1
        PROVE  \E d \in E : d.n = n
    <3>1. PICK d \in D : d.n = n
      BY <2>1 DEF Before
    <3>2. c.n \in Nat /\ n # c.n
      BY DEF ChunkObject
    <3> QED BY <1>1, <3>1, <3>2
  <2> QED BY <1>2, <2>1, <2>2 DEF Before
<1>4. Laid(c, bs, E, v)
  BY <1>2, <1>3 DEF Laid
<1>5. IsDocs(E)
  BY <1>2 DEF IsDocs
<1> QED BY <1>2, <1>4, <1>5

\* A save inserts the document of the chunk.
LEMMA InsertLays ==
  ASSUME NEW c \in ChunkObject, NEW bs, NEW D, NEW v, NEW f, Laid(c, bs, D, v), IsDocs(D), c.data # <<>>,
         \A d \in D : d.n < c.n /\ d.id # c.id, NEW E, E = D \cup {Document(c, f)}
  PROVE  /\ Laid(c, bs, E, v) /\ IsDocs(E)
         /\ \E d \in E : d.n = c.n /\ d.data = c.data
<1>1. PICK e : e = Document(c, f)
  OBVIOUS
<1>2. e.id = c.id /\ e.n = c.n /\ e.data = c.data /\ e \in E
  BY <1>1 DEF Document
<1>3. \A d \in E : d = e \/ d \in D
  BY <1>1
<1>4. c.n \in Nat /\ c.id \in Nat /\ c.data \in Seq(Byte) \ {<<>>}
  BY DEF ChunkObject
<1>5. IsDocs(E)
  <2>1. \A d \in D : d.id \in Nat /\ d.n \in Nat /\ d.data \in Seq(Byte) \ {<<>>} /\ d.id # c.id
    BY DEF IsDocs
  <2>2. \A a, b \in D : a.id = b.id => a = b
    BY DEF IsDocs
  <2>3. ASSUME NEW a \in E, NEW b \in E, a.id = b.id
        PROVE  a = b
    <3>1. (a = e \/ a \in D) /\ (b = e \/ b \in D)
      BY <1>3
    <3> QED BY <1>2, <2>1, <2>2, <2>3, <3>1
  <2> QED BY <1>2, <1>3, <1>4, <2>1, <2>3 DEF IsDocs
<1>6. Before(E, c.n, v)
  <2>1. Before(D, c.n, v)
    BY DEF Laid
  <2>2. ~(c.n < c.n)
    BY <1>4
  <2>3. \A d \in E : d.n < c.n => Len(d.data) = ChunkSize /\ Piece(d, v)
    BY <1>2, <1>3, <2>1, <2>2 DEF Before
  <2>4. \A n \in 0 .. c.n - 1 : \E d \in E : d.n = n
    BY <2>1 DEF Before
  <2>5. ASSUME NEW a \in E, NEW b \in E, a.n = b.n
        PROVE  a = b
    <3>1. (a = e \/ a \in D) /\ (b = e \/ b \in D)
      BY <1>3
    <3>2. \A x, y \in D : x.n = y.n => x = y
      BY <2>1 DEF Before
    <3>3. \A d \in D : d.n # c.n
      BY <2>2
    <3> QED BY <1>2, <2>5, <3>1, <3>2, <3>3
  <2> QED BY <2>3, <2>4, <2>5 DEF Before
<1>7. \A d \in E : (d.n < c.n /\ d.id # c.id) \/ (d.n = c.n /\ d.id = c.id)
  BY <1>2, <1>3
<1>8. Laid(c, bs, E, v)
  BY <1>6, <1>7 DEF Laid
<1> QED BY <1>2, <1>5, <1>8

\* After a full chunk has been saved comes the next one.
LEMMA NextLays ==
  ASSUME NEW c \in ChunkObject, NEW bs \in Seq(Byte), NEW D, NEW v, Laid(c, bs, D, v), IsDocs(D),
         c.p >= ChunkSize, \E d \in D : d.n = c.n /\ d.data = c.data,
         NEW e \in ChunkObject, e.n = c.n + 1, e.data = <<>>, e.p = 0, \A d \in D : d.id # e.id
  PROVE  Laid(e, bs, D, v)
<1>1. /\ c.n \in Nat /\ c.p \in Nat /\ ChunkSize \in Nat /\ e.n \in Nat /\ Len(bs) \in Nat /\ Len(e.data) = 0
      /\ c.p = Len(c.data) /\ c.p <= ChunkSize
  BY Constants DEF ChunkObject, Laid
<1>2. c.p = ChunkSize /\ Len(c.data) = ChunkSize /\ From(e) = From(c) + ChunkSize /\ From(c) \in Nat
  BY <1>1, FromIs
<1>3. \A d \in D : d.n \in Nat /\ (d.n < c.n \/ d.n = c.n)
  BY DEF Laid, IsDocs
<1>4. \A d \in D : d.n < e.n
  BY <1>1, <1>3
<1>5. Before(D, c.n, v)
  BY DEF Laid
<1>6. PICK g \in D : g.n = c.n /\ g.data = c.data
  OBVIOUS
<1>7. Piece(g, v)
  BY <1>6 DEF Laid, Piece, From
<1>8. \A a, b \in D : a.n = b.n => a = b
  BY <1>5 DEF Before
<1>9. ASSUME NEW d \in D
      PROVE  Len(d.data) = ChunkSize /\ Piece(d, v)
  <2>1. CASE d.n < c.n
    BY <1>5, <2>1 DEF Before
  <2>2. CASE d.n = c.n
    <3>1. d = g
      BY <1>6, <1>8, <2>2
    <3> QED BY <1>2, <1>6, <1>7, <3>1
  <2> QED BY <1>3, <2>1, <2>2
<1>10. ASSUME NEW n \in 0 .. e.n - 1
       PROVE  \E d \in D : d.n = n
  <2>1. n \in 0 .. c.n - 1 \/ n = c.n
    BY <1>1
  <2> QED BY <1>5, <1>6, <2>1 DEF Before
<1>11. Before(D, e.n, v)
  BY <1>8, <1>9, <1>10 DEF Before
<1>12. PICK f, h : f = From(c) /\ h = From(e)
  OBVIOUS
<1>13. /\ f \in Nat /\ h = f + ChunkSize /\ Len(v) = f + ChunkSize + Len(bs)
       /\ \A i \in 1 .. Len(bs) : bs[i] = v[f + ChunkSize + i]
  BY <1>2, <1>12 DEF Laid
<1>14. Len(v) = h + 0 + Len(bs) /\ \A i \in 1 .. Len(bs) : bs[i] = v[h + 0 + i]
  BY <1>1, <1>13
<1>15. Piece(e, v)
  BY <1>1 DEF Piece
<1>16. e.p = Len(e.data) /\ e.p <= ChunkSize
  BY <1>1
<1> QED BY <1>4, <1>11, <1>12, <1>14, <1>15, <1>16 DEF Laid

\* Once the last chunk is saved, the file is stored.
LEMMA EndsStored ==
  ASSUME NEW c \in ChunkObject, NEW D, NEW v, Laid(c, <<>>, D, v), IsDocs(D), c.data # <<>>,
         \E d \in D : d.n = c.n /\ d.data = c.data
  PROVE  Stored(D, v)
<1>1. /\ c.n \in Nat /\ c.p \in Nat /\ ChunkSize \in Nat \ {0} /\ Len(<<>>) = 0
      /\ c.p = Len(c.data) /\ c.p <= ChunkSize /\ From(c) \in Nat /\ c.p # 0
  BY Constants, FromIs DEF ChunkObject, Laid
<1>2. Len(v) = From(c) + c.p
  <2>1. Len(v) = From(c) + c.p + 0
    BY <1>1 DEF Laid
  <2> QED BY <1>1, <2>1
<1>3. Before(D, c.n, v)
  BY DEF Laid
<1>4. PICK g \in D : g.n = c.n /\ g.data = c.data
  OBVIOUS
<1>5. Piece(g, v) /\ From(g) = From(c)
  BY <1>4 DEF Laid, Piece, From
<1>6. \A a, b \in D : a.n = b.n => a = b
  BY <1>3 DEF Before
<1>7. ASSUME NEW d \in D
      PROVE  From(d) < Len(v) /\ Len(d.data) = Least(ChunkSize, Len(v) - From(d)) /\ Piece(d, v)
  <2>1. d.n \in Nat /\ (d.n < c.n \/ d.n = c.n)
    BY DEF Laid, IsDocs
  <2>2. CASE d.n < c.n
    <3>1. Len(d.data) = ChunkSize /\ Piece(d, v)
      BY <1>3, <2>2 DEF Before
    <3>2. From(d) + ChunkSize <= From(c) /\ From(d) \in Nat
      BY <1>1, <2>1, <2>2, FromIs
    <3>3. From(d) < Len(v) /\ ChunkSize < Len(v) - From(d)
      BY <1>1, <1>2, <3>2
    <3> QED BY <3>1, <3>3 DEF Least
  <2>3. CASE d.n = c.n
    <3>1. d = g
      BY <1>4, <1>6, <2>3
    <3>2. From(d) = From(c) /\ Len(d.data) = c.p /\ Piece(d, v)
      BY <1>1, <1>4, <1>5, <3>1
    <3>3. Len(v) - From(d) = c.p /\ From(d) < Len(v)
      BY <1>1, <1>2, <3>2
    <3>4. Least(ChunkSize, c.p) = c.p
      BY <1>1 DEF Least
    <3> QED BY <3>2, <3>3, <3>4
  <2> QED BY <2>1, <2>2, <2>3
<1>8. ASSUME NEW n \in Nat, n * ChunkSize < Len(v)
      PROVE  \E d \in D : d.n = n
  <2>1. ~(c.n < n)
    <3> SUFFICES ASSUME c.n < n
                 PROVE  FALSE
      OBVIOUS
    <3>1. c.n * ChunkSize + ChunkSize <= n * ChunkSize
      BY <1>1, Later
    <3>2. PICK f, m : f = From(c) /\ m = n * ChunkSize
      OBVIOUS
    <3>3. f + ChunkSize <= m /\ m < f + c.p /\ f \in Nat /\ m \in Nat
      BY <1>1, <1>2, <1>8, <3>1, <3>2, Times DEF From
    <3> QED BY <1>1, <3>3
  <2>2. n = c.n \/ n \in 0 .. c.n - 1
    BY <1>1, <2>1
  <2> QED BY <1>3, <1>4, <2>2 DEF Before
<1> QED BY <1>6, <1>7, <1>8 DEF Stored

\* A stored file whose last chunk is not full, and that chunk.
LEMMA StoredLoads ==
  ASSUME NEW D, NEW v \in Seq(Byte), Stored(D, v), IsDocs(D), v # <<>>, Len(v) % ChunkSize # 0,
         NEW g \in D, g.n = Len(v) \div ChunkSize,
         NEW c \in ChunkObject, c.id = g.id, c.n = g.n, c.data = g.data, c.p = Len(g.data)
  PROVE  Laid(c, <<>>, D, v)
<1>1. PICK m, q, rem : m = Len(v) /\ q = m \div ChunkSize /\ rem = m % ChunkSize
  OBVIOUS
<1>2. m \in Nat /\ ChunkSize \in Nat \ {0} /\ c.n = q /\ c.n \in Nat /\ g.n \in Nat /\ rem # 0
  BY <1>1, Constants DEF ChunkObject
<1>3. q \in Nat /\ rem \in 0 .. ChunkSize - 1 /\ m = q * ChunkSize + rem /\ q * ChunkSize \in Nat
  BY <1>1, <1>2, Division, ZenonT(60)
<1>4. From(c) = q * ChunkSize /\ From(g) = q * ChunkSize
  BY <1>2 DEF From
<1>5. PICK f : f = From(c)
  OBVIOUS
<1>6. f \in Nat /\ m = f + rem /\ From(g) = f
  BY <1>3, <1>4, <1>5
<1>7. Len(g.data) = rem
  <2>1. Len(g.data) = Least(ChunkSize, m - f)
    BY <1>1, <1>6 DEF Stored
  <2>2. m - f = rem /\ ~(ChunkSize < rem)
    BY <1>2, <1>3, <1>6
  <2> QED BY <2>1, <2>2 DEF Least
<1>8. Piece(c, v)
  BY DEF Stored, Piece, From
<1>9. c.p = Len(c.data) /\ c.p <= ChunkSize /\ c.p = rem /\ Len(<<>>) = 0 /\ m = f + c.p + 0
  BY <1>2, <1>3, <1>6, <1>7
<1>10. \A a, b \in D : a.n = b.n => a = b
  BY DEF Stored
<1>11. ASSUME NEW d \in D
       PROVE  /\ (d.n < c.n /\ d.id # c.id) \/ (d.n = c.n /\ d.id = c.id)
              /\ d.n < c.n => Len(d.data) = ChunkSize /\ Piece(d, v)
  <2>1. d.n \in Nat /\ From(d) < m /\ Len(d.data) = Least(ChunkSize, m - From(d)) /\ Piece(d, v)
    BY <1>1 DEF Stored, IsDocs
  <2>2. ~(c.n < d.n)
    <3> SUFFICES ASSUME c.n < d.n
                 PROVE  FALSE
      OBVIOUS
    <3>1. From(c) + ChunkSize <= From(d) /\ From(d) \in Nat
      BY <1>2, <2>1, FromIs
    <3> QED BY <1>2, <1>3, <1>5, <1>6, <2>1, <3>1
  <2>3. CASE d.n = c.n
    <3>1. d = g
      BY <1>10, <2>3
    <3> QED BY <1>2, <2>3, <3>1
  <2>4. CASE d.n < c.n
    <3>1. From(d) + ChunkSize <= f /\ From(d) \in Nat
      BY <1>2, <1>5, <2>1, <2>4, FromIs
    <3>2. ChunkSize < m - From(d)
      BY <1>2, <1>3, <1>6, <1>9, <3>1
    <3>3. Len(d.data) = ChunkSize
      BY <2>1, <3>2 DEF Least
    <3>4. d.id # c.id
      <4>1. d.id = g.id => d = g
        BY DEF IsDocs
      <4> QED BY <1>2, <2>4, <4>1
    <3> QED BY <1>2, <2>1, <2>4, <3>3, <3>4
  <2> QED BY <1>2, <2>1, <2>2, <2>3, <2>4
<1>12. ASSUME NEW n \in 0 .. c.n - 1
       PROVE  \E d \in D : d.n = n
  <2>1. n \in Nat /\ n < q
    BY <1>2
  <2>2. n * ChunkSize + ChunkSize <= q * ChunkSize /\ n * ChunkSize \in Nat
    BY <1>2, <1>3, <2>1, Later, Times
  <2>3. PICK a, b : a = n * ChunkSize /\ b = q * ChunkSize
    OBVIOUS
  <2>4. a < m
    <3>1. a + ChunkSize <= b /\ a \in Nat /\ b \in Nat /\ m = b + rem
      BY <1>3, <2>2, <2>3
    <3> QED BY <1>2, <1>3, <3>1
  <2> QED BY <1>1, <2>1, <2>3, <2>4 DEF Stored
<1>13. Before(D, c.n, v)
  BY <1>10, <1>11, <1>12 DEF Before
<1>14. \A i \in 1 .. Len(<<>>) : <<>>[i] = v[From(c) + c.p + i]
  BY <1>9
<1> QED BY <1>1, <1>5, <1>8, <1>9, <1>11, <1>13, <1>14 DEF Laid

-----------------------------------------------------------------------------
(* The content of a stored file                                            *)

\* The bytes at a position are those of the chunks that reach it.
LEMMA AtIs ==
  ASSUME NEW f, IsDocs(Docs(f.fid)), NEW i \in Nat \ {0}
  PROVE  /\ \A b \in At(f, i) : \E c \in Docs(f.fid) :
              /\ c.n = (i - 1) \div ChunkSize /\ i - From(c) \in 1 .. Len(c.data)
              /\ b = c.data[i - From(c)]
         /\ \A c \in Docs(f.fid) :
              i - From(c) \in 1 .. Len(c.data) /\ Len(c.data) <= ChunkSize =>
                c.data[i - From(c)] \in At(f, i) /\ c.n = (i - 1) \div ChunkSize
<1>1. PICK q, rem, D : q = (i - 1) \div ChunkSize /\ rem = (i - 1) % ChunkSize /\ D = Docs(f.fid)
  OBVIOUS
<1>2. ChunkSize \in Nat \ {0} /\ i - 1 \in Nat
  BY Constants
<1>3. q \in Nat /\ rem \in 0 .. ChunkSize - 1 /\ i - 1 = q * ChunkSize + rem /\ q * ChunkSize \in Nat
  BY <1>1, <1>2, Division
<1>4. At(f, i) = {c.data[rem + 1] : c \in {d \in D : d.n = q /\ rem < Len(d.data)}}
  BY <1>1 DEF At
<1>5. \A c \in D : c.n \in Nat /\ From(c) \in Nat /\ Len(c.data) \in Nat
  BY <1>1, FromIs DEF IsDocs
<1>6. ASSUME NEW b \in At(f, i)
      PROVE  \E c \in D : c.n = q /\ i - From(c) \in 1 .. Len(c.data) /\ b = c.data[i - From(c)]
  <2>1. PICK c \in D : c.n = q /\ rem < Len(c.data) /\ b = c.data[rem + 1]
    BY <1>4
  <2>2. From(c) = q * ChunkSize
    BY <2>1 DEF From
  <2>3. i - From(c) = rem + 1
    BY <1>2, <1>3, <2>2
  <2>4. rem + 1 \in 1 .. Len(c.data)
    BY <1>3, <1>5, <2>1
  <2> QED BY <2>1, <2>3, <2>4
<1>7. ASSUME NEW c \in D, i - From(c) \in 1 .. Len(c.data), Len(c.data) <= ChunkSize
      PROVE  c.data[i - From(c)] \in At(f, i) /\ c.n = q
  <2>1. PICK a, m : a = From(c) /\ m = q * ChunkSize
    OBVIOUS
  <2>2. /\ a \in Nat /\ m \in Nat /\ i - 1 = m + rem /\ i - a >= 1 /\ i - a <= ChunkSize
        /\ i - a <= Len(c.data)
    BY <1>2, <1>3, <1>5, <1>7, <2>1
  <2>3. a <= i - 1 /\ i - 1 < a + ChunkSize /\ m <= i - 1 /\ i - 1 < m + ChunkSize
    BY <1>2, <1>3, <2>2
  <2>4. c.n = q
    BY <1>2, <1>3, <1>5, <2>1, <2>3, OneChunk DEF From
  <2>5. a = m
    BY <2>1, <2>4 DEF From
  <2>6. i - From(c) = rem + 1 /\ rem < Len(c.data)
    <3>1. i - a = rem + 1
      BY <1>2, <1>3, <2>2, <2>5
    <3>2. rem < Len(c.data)
      BY <1>3, <1>5, <2>2, <3>1
    <3> QED BY <2>1, <3>1, <3>2
  <2>7. c.data[rem + 1] \in At(f, i)
    BY <1>4, <2>4, <2>6
  <2> QED BY <2>4, <2>6, <2>7
<1> QED BY <1>1, <1>6, <1>7

ByteAt(f, i) == IF Cardinality(At(f, i)) = 1 THEN CHOOSE b \in At(f, i) : TRUE ELSE 0

\* A position with one byte is read as that byte.
LEMMA ReadsIs ==
  ASSUME NEW f, f.length \in Nat, NEW i \in 1 .. f.length
  PROVE  /\ \A b : At(f, i) = {b} => Content(f)[i] = b
         /\ Content(f)[i] \in At(f, i) \cup {0}
<1>1. Content(f)[i] = IF Cardinality(At(f, i)) = 1 THEN CHOOSE b \in At(f, i) : TRUE ELSE 0
  BY DEF Content, ByteAt
<1>2. ASSUME NEW b, At(f, i) = {b}
      PROVE  Content(f)[i] = b
  <2>1. Cardinality({b}) = 1
    BY FS_Singleton
  <2> QED BY <1>1, <1>2, <2>1
<1>3. Content(f)[i] \in At(f, i) \cup {0}
  <2>1. CASE Cardinality(At(f, i)) = 1
    <3>1. At(f, i) # {}
      BY <2>1, FS_EmptySet
    <3> QED BY <1>1, <2>1, <3>1
  <2> QED BY <1>1, <2>1
<1> QED BY <1>2, <1>3

LEMMA ContentType ==
  ASSUME NEW f, f.length \in Nat, IsDocs(Docs(f.fid))
  PROVE  Content(f) \in Seq(Byte) /\ Len(Content(f)) = f.length
<1>1. ASSUME NEW i \in 1 .. f.length
      PROVE  Content(f)[i] \in Byte
  <2>1. Content(f)[i] \in At(f, i) \cup {0} /\ i \in Nat \ {0}
    BY ReadsIs
  <2>2. 0 \in Byte
    BY Constants DEF Byte
  <2>3. ASSUME NEW b \in At(f, i)
        PROVE  b \in Byte
    <3>1. PICK c \in Docs(f.fid) : i - From(c) \in 1 .. Len(c.data) /\ b = c.data[i - From(c)]
      BY <2>1, AtIs
    <3>2. c.data \in Seq(Byte)
      BY DEF IsDocs
    <3> QED BY <3>1, <3>2
  <2> QED BY <2>1, <2>2, <2>3
<1>2. PICK g : g = Content(f)
  OBVIOUS
<1>3. PICK m : m = f.length
  OBVIOUS
<1>4. m \in Nat /\ \A i \in 1 .. m : g[i] \in Byte
  BY <1>1, <1>2, <1>3
<1>5. g = [i \in 1 .. m |-> g[i]]
  <2>1. Content(f) = [i \in 1 .. f.length |-> ByteAt(f, i)]
    BY DEF Content, ByteAt
  <2>2. g = [i \in 1 .. m |-> ByteAt(f, i)]
    BY <1>2, <1>3, <2>1
  <2> QED BY <2>2
<1>6. [i \in 1 .. m |-> g[i]] \in Seq(Byte) /\ Len([i \in 1 .. m |-> g[i]]) = m
  BY <1>4
<1> QED BY <1>2, <1>3, <1>5, <1>6

\* A file that is stored is read as it was written.
LEMMA StoredIntact ==
  ASSUME NEW f, NEW v \in Seq(Byte), f.length = Len(v), IsDocs(Docs(f.fid)), Stored(Docs(f.fid), v)
  PROVE  Intact(f) /\ Content(f) = v
<1>1. PICK D, m : D = Docs(f.fid) /\ m = Len(v)
  OBVIOUS
<1>2. m \in Nat /\ ChunkSize \in Nat \ {0} /\ f.length = m
  BY <1>1, Constants
<1>3. \A c \in D : /\ c.n \in Nat /\ From(c) \in Nat /\ From(c) < m
                   /\ Len(c.data) = Least(ChunkSize, m - From(c)) /\ Piece(c, v)
  BY <1>1, FromIs DEF IsDocs, Stored
<1>4. \A c, d \in D : c.n = d.n => c = d
  BY <1>1 DEF Stored
<1>5. ASSUME NEW i \in 1 .. m
      PROVE  At(f, i) = {v[i]}
  <2>1. PICK q, rem, a : q = (i - 1) \div ChunkSize /\ rem = (i - 1) % ChunkSize /\ a = q * ChunkSize
    OBVIOUS
  <2>2. i - 1 \in Nat /\ i \in Nat \ {0} /\ i <= m
    BY <1>2
  <2>3. q \in Nat /\ rem \in 0 .. ChunkSize - 1 /\ i - 1 = a + rem /\ a \in Nat
    BY <1>2, <2>1, <2>2, Division
  <2>4. a < m
    BY <1>2, <2>2, <2>3
  <2>5. PICK c \in D : c.n = q
    BY <1>1, <2>1, <2>3, <2>4 DEF Stored
  <2>6. From(c) = a /\ Len(c.data) = Least(ChunkSize, m - a)
    BY <1>3, <2>1, <2>5 DEF From
  <2>7. i - a \in 1 .. Least(ChunkSize, m - a) /\ Least(ChunkSize, m - a) <= ChunkSize
    BY <1>2, <2>2, <2>3 DEF Least
  <2>8. c.data[i - From(c)] \in At(f, i)
    BY <1>1, <2>2, <2>6, <2>7, AtIs
  <2>9. ASSUME NEW b \in At(f, i)
        PROVE  b = v[i]
    <3>1. PICK d \in D : i - From(d) \in 1 .. Len(d.data) /\ b = d.data[i - From(d)]
      BY <1>1, <2>2, AtIs
    <3>2. PICK j, e : j = i - From(d) /\ e = From(d)
      OBVIOUS
    <3>3. j \in 1 .. Len(d.data) /\ b = d.data[j] /\ e \in Nat /\ j = i - e
      BY <1>3, <3>1, <3>2
    <3>4. b = v[e + j]
      BY <1>3, <3>2, <3>3 DEF Piece
    <3>5. e + j = i
      BY <2>2, <3>3
    <3> QED BY <3>4, <3>5
  <2> QED BY <2>8, <2>9
<1>6. Intact(f)
  <2>1. \A i \in 1 .. f.length : At(f, i) # {}
    BY <1>2, <1>5
  <2>2. \A c \in D : c.n * ChunkSize < f.length /\ Len(c.data) = Least(ChunkSize, f.length - c.n * ChunkSize)
    BY <1>2, <1>3 DEF From
  <2> QED BY <1>1, <1>4, <2>1, <2>2 DEF Intact
<1>7. Content(f) = v
  <2>1. ASSUME NEW i \in 1 .. m
        PROVE  Content(f)[i] = v[i]
    <3>1. i \in 1 .. f.length /\ f.length \in Nat
      BY <1>2
    <3>2. At(f, i) = {v[i]}
      BY <1>5
    <3> QED BY <3>1, <3>2, ReadsIs
  <2>2. PICK g : g = Content(f)
    OBVIOUS
  <2>3. g \in Seq(Byte) /\ Len(g) = m /\ \A i \in 1 .. m : g[i] = v[i]
    BY <1>2, <2>1, <2>2, ContentType
  <2>4. g = v
    BY <1>1, <2>3
  <2> QED BY <2>2, <2>4
<1> QED BY <1>6, <1>7

\* A file with the chunks its length calls for is stored, whatever it holds.
LEMMA IntactStored ==
  ASSUME NEW f, f.length \in Nat, IsDocs(Docs(f.fid)), Intact(f)
  PROVE  Stored(Docs(f.fid), Content(f))
<1>1. PICK D, m, v : D = Docs(f.fid) /\ m = f.length /\ v = Content(f)
  OBVIOUS
<1>2. m \in Nat /\ ChunkSize \in Nat \ {0} /\ v \in Seq(Byte) /\ Len(v) = m
  BY <1>1, Constants, ContentType
<1>3. \A c, d \in D : c.n = d.n => c = d
  BY <1>1 DEF Intact
<1>4. ASSUME NEW c \in D
      PROVE  From(c) < m /\ Len(c.data) = Least(ChunkSize, m - From(c)) /\ Piece(c, v)
  <2>1. c.n \in Nat /\ From(c) \in Nat /\ From(c) < m /\ Len(c.data) = Least(ChunkSize, m - From(c))
    BY <1>1, FromIs DEF IsDocs, Intact, From
  <2>2. PICK a : a = From(c)
    OBVIOUS
  <2>3. Len(c.data) \in Nat /\ Len(c.data) <= ChunkSize /\ a + Len(c.data) <= m /\ a \in Nat
    BY <1>2, <2>1, <2>2 DEF Least
  <2>4. ASSUME NEW i \in 1 .. Len(c.data)
        PROVE  c.data[i] = v[a + i]
    <3>1. PICK k : k = a + i
      OBVIOUS
    <3>2. k \in 1 .. m /\ k \in Nat \ {0} /\ k - a = i
      BY <1>2, <2>3, <3>1
    <3>3. k - From(c) = i
      BY <2>2, <3>2
    <3>4. c.data[i] \in At(f, k) /\ c.n = (k - 1) \div ChunkSize
      BY <1>1, <2>3, <3>2, <3>3, AtIs
    <3>5. ASSUME NEW b \in At(f, k)
          PROVE  b = c.data[i]
      <4>1. PICK d \in D : d.n = (k - 1) \div ChunkSize /\ b = d.data[k - From(d)]
        BY <1>1, <3>2, AtIs
      <4>2. d = c
        BY <1>3, <3>4, <4>1
      <4> QED BY <3>3, <4>1, <4>2
    <3>6. At(f, k) = {c.data[i]}
      BY <3>4, <3>5
    <3>7. v[k] = c.data[i]
      BY <1>1, <3>2, <3>6, ReadsIs
    <3> QED BY <3>1, <3>7
  <2>5. Piece(c, v)
    BY <2>2, <2>4 DEF Piece
  <2> QED BY <2>1, <2>5
<1>5. ASSUME NEW n \in Nat, n * ChunkSize < m
      PROVE  \E c \in D : c.n = n
  <2>1. PICK a, i : a = n * ChunkSize /\ i = a + 1
    OBVIOUS
  <2>2. a \in Nat /\ i \in 1 .. m /\ i \in Nat \ {0} /\ i - 1 = a
    BY <1>2, <1>5, <2>1, Times
  <2>3. 0 \in 0 .. ChunkSize - 1
    BY <1>2
  <2>4. (n * ChunkSize + 0) \div ChunkSize = n
    BY <1>2, <2>3, Quotient
  <2>5. n * ChunkSize + 0 = i - 1
    BY <2>1, <2>2
  <2>6. (i - 1) \div ChunkSize = n
    BY <2>4, <2>5
  <2>7. PICK b : b \in At(f, i)
    BY <1>1, <2>2 DEF Intact
  <2>8. PICK c \in D : c.n = (i - 1) \div ChunkSize
    BY <1>1, <2>2, <2>7, AtIs
  <2> QED BY <2>6, <2>8
<1>6. Stored(D, v)
  BY <1>2, <1>3, <1>4, <1>5 DEF Stored
<1> QED BY <1>1, <1>6

-----------------------------------------------------------------------------
(* The invariant.  C: the chunks, F: the files, h: the handle, v: want,    *)
(* e: excuse, b: bytes, o: opens.                                          *)

Kind == [id : Nat, fid : 1 .. MaxOpens, n : Nat, data : Seq(Byte) \ {<<>>}]

IdsOf(C) == {c.id : c \in C}
DocsOf(C, fid) == {c \in C : c.fid = fid}

Documents(C, b) ==
  /\ IsFiniteSet(IdsOf(C))
  /\ \A c \in C : c \in Kind /\ From(c) + Len(c.data) <= b
  /\ \A c, d \in C : c.id = d.id => c = d

Files(F, b) ==
  /\ \A f \in F : f \in [fid : 1 .. MaxOpens, length : Nat] /\ f.length <= b
  /\ \A f, g \in F : f = g

Opened(h) == h.pc \notin {"none", "find", "closed", "failed", "unlinked"}

\* An object that is open is that of the one file, and makes way for a document
\* before it inserts it.
Owner(C, F, h, o) ==
  /\ h.fid \in 0 .. MaxOpens
  /\ Opened(h) => h.fid \in 1 .. MaxOpens /\ \A f \in F : f.fid = h.fid
  /\ h.pc = "insert" => \A c \in C : c.id # h.chunk.id
  /\ h.pc = "find" => o > 0

Purged(C, F, h, e) ==
  /\ h.pc = "erase" /\ "failure" \notin e => DocsOf(C, h.fid) = {}
  /\ h.pc = "unlinked" /\ "failure" \notin e => F = {} /\ DocsOf(C, h.fid) = {}

Histories(v, e, b, o) ==
  /\ v \in Seq(Byte) /\ e \subseteq {"seek", "failure", "base", "boundary", "doubled", "unreported"}
  /\ b \in 0 .. MaxBytes /\ o \in 0 .. MaxOpens

\* A chunk after the first has something in it before anything follows it.
Lays(h, D, v) ==
  /\ Laid(h.chunk, h.rest, D, v)
  /\ h.chunk.p = 0 => h.chunk.n = 0 /\ h.rest = <<>>

Saving(h) ==
  /\ h.next \in {"write", "whole", "close"}
  /\ h.next = "write" => h.rest # <<>>
  /\ h.next = "close" => h.rest = <<>> /\ h.chunk.p > 0

Last(h, D) == \E d \in D : d.n = h.chunk.n /\ d.data = h.chunk.data

\* What an object has done of its work, at each place it may be.
Kept(h, D, v) ==
  /\ h.pc = "load" /\ h.mode = "w+" =>
       Stored(D, v) /\ Len(v) = h.length /\ (v # <<>> => h.length % ChunkSize # 0)
  /\ h.pc = "load" /\ h.mode = "file+" => D = {} /\ v = h.rest
  /\ h.pc = "delete" => v = h.rest
  /\ h.pc = "truncate" => v = <<>>
  /\ h.pc \in {"idle", "remove", "insert", "unfile", "file"} => Lays(h, D, v)
  /\ h.pc \in {"remove", "insert"} => Saving(h)
  /\ h.pc = "insert" => \A d \in D : d.n # h.chunk.n
  /\ h.pc \in {"unfile", "file"} /\ v # <<>> => Last(h, D)

Closed(C, F, h, v) ==
  h.pc = "closed" =>
    \E f \in F : /\ F = {f} /\ f.fid = h.fid /\ f.length = Len(v)
                 /\ v # <<>> => Stored(DocsOf(C, h.fid), v)

\* Nothing excuses the object from storing what it was given.
Calm(C, F, h, v, e) ==
  e = {} => Kept(h, DocsOf(C, h.fid), v) /\ Closed(C, F, h, v) /\ h.pc # "reload"

Inv(C, F, h, v, e, b, o) ==
  /\ Documents(C, b) /\ Files(F, b) /\ Sized(h, b) /\ Owner(C, F, h, o)
  /\ Purged(C, F, h, e) /\ Histories(v, e, b, o) /\ Calm(C, F, h, v, e)

IInv == Inv(chunks, files, w, want, excuse, bytes, opens)

\* Documents that remain are as they were, when more has been written or not.
LEMMA DocumentsLess ==
  ASSUME NEW C, NEW E \in SUBSET C, NEW b \in Nat, NEW d \in Nat, b <= d, Documents(C, b)
  PROVE  Documents(E, d)
<1>1. IdsOf(E) \subseteq IdsOf(C)
  BY DEF IdsOf
<1>2. IsFiniteSet(IdsOf(E))
  BY <1>1, FS_Subset DEF Documents
<1>3. ASSUME NEW c \in E
      PROVE  c \in Kind /\ From(c) + Len(c.data) <= d
  <2>1. c \in Kind /\ From(c) + Len(c.data) <= b
    BY DEF Documents
  <2>2. From(c) \in Nat /\ Len(c.data) \in Nat
    BY <2>1, FromIs DEF Kind
  <2> QED BY <2>1, <2>2
<1> QED BY <1>2, <1>3 DEF Documents

LEMMA FilesLess ==
  ASSUME NEW F, NEW E \in SUBSET F, NEW b \in Nat, NEW d \in Nat, b <= d, Files(F, b)
  PROVE  Files(E, d)
<1>1. \A f \in F : f.length \in Nat /\ f.length <= b
  BY DEF Files
<1>2. \A f \in E : f.length <= d
  BY <1>1
<1> QED BY <1>2 DEF Files

LEMMA DocumentsAre ==
  ASSUME NEW C, NEW b, NEW E \in SUBSET C, Documents(C, b)
  PROVE  IsDocs(E) /\ (\A c \in C : c.id \in Nat /\ c.n \in Nat)
<1>1. \A c \in C : c.id \in Nat /\ c.n \in Nat /\ c.data \in Seq(Byte) \ {<<>>}
  BY DEF Documents, Kind
<1> QED BY <1>1 DEF Documents, IsDocs

\* What holds of the state an action starts in.
LEMMA IInvIs ==
  ASSUME IInv
  PROVE  /\ Documents(chunks, bytes) /\ Files(files, bytes) /\ Sized(w, bytes)
         /\ Owner(chunks, files, w, opens) /\ Purged(chunks, files, w, excuse)
         /\ Histories(want, excuse, bytes, opens) /\ Calm(chunks, files, w, want, excuse)
         /\ w \in Handle /\ Fits(w, bytes) /\ Steps(w) /\ Identified
         /\ bytes \in Nat /\ opens \in Nat /\ bytes <= MaxBytes /\ opens <= MaxOpens /\ want \in Seq(Byte)
         /\ \A k : Docs(k) = DocsOf(chunks, k) /\ IsDocs(Docs(k))
<1>1. /\ Documents(chunks, bytes) /\ Files(files, bytes) /\ Sized(w, bytes)
      /\ Owner(chunks, files, w, opens) /\ Purged(chunks, files, w, excuse)
      /\ Histories(want, excuse, bytes, opens) /\ Calm(chunks, files, w, want, excuse)
  BY DEF IInv, Inv
<1>2. w \in Handle /\ Fits(w, bytes) /\ Steps(w)
  BY <1>1 DEF Sized
<1>3. /\ bytes \in Nat /\ opens \in Nat /\ bytes <= MaxBytes /\ opens <= MaxOpens /\ want \in Seq(Byte)
  BY <1>1, Constants DEF Histories
<1>4. Identified
  BY <1>1, <1>2, HandleIs, DocumentsAre DEF Identified, Documents, IdsOf, Ids
<1>5. ASSUME NEW k
      PROVE  Docs(k) = DocsOf(chunks, k) /\ IsDocs(Docs(k))
  BY <1>1, DocumentsAre DEF Docs, DocsOf
<1> QED BY <1>1, <1>2, <1>3, <1>4, <1>5

\* An object that does nothing fits.
LEMMA NoHandleFits ==
  ASSUME NEW b \in Nat
  PROVE  Sized(NoHandle, b)
<1>1. PICK c : c = Blank(0, 0)
  OBVIOUS
<1>2. /\ c \in ChunkObject /\ c.n = 0 /\ c.p = 0 /\ Len(c.data) = 0
  BY <1>1, BlankIs
<1>3. NoHandle = [pc |-> "none", mode |-> "w", fid |-> 0, length |-> 0, date |-> FALSE,
                  position |-> 0, chunk |-> c, rest |-> <<>>, next |-> "write", target |-> 0]
  BY <1>1 DEF NoHandle, Blank
<1>4. NoHandle \in Handle
  BY <1>2, <1>3, PlacesAre DEF Handle
<1>5. From(c) = 0
  BY <1>2, FromIs
<1>6. Fits(NoHandle, b)
  BY <1>2, <1>3, <1>5 DEF Fits
<1> QED BY <1>3, <1>4, <1>6 DEF Sized, Steps

LEMMA InitHolds ==
  GridInit => IInv
<1> SUFFICES ASSUME GridInit
             PROVE  IInv
  OBVIOUS
<1>1. /\ chunks = {} /\ files = {} /\ w = NoHandle /\ want = <<>> /\ excuse = {} /\ bytes = 0 /\ opens = 0
  BY DEF GridInit
<1>2. Documents({}, 0)
  <2>1. IdsOf({}) = {}
    BY DEF IdsOf
  <2> QED BY <2>1, FS_EmptySet DEF Documents
<1>3. Sized(NoHandle, 0)
  BY NoHandleFits
<1>4. Owner({}, {}, NoHandle, 0)
  BY Constants DEF Owner, Opened, NoHandle
<1>5. Calm({}, {}, NoHandle, <<>>, {})
  BY DEF Calm, Kept, Closed, NoHandle
<1>6. Histories(<<>>, {}, 0, 0)
  BY Constants, PlacesAre DEF Histories
<1> QED BY <1>1, <1>2, <1>3, <1>4, <1>5, <1>6 DEF IInv, Inv, Files, Purged, NoHandle

-----------------------------------------------------------------------------
(* Calls of the program                                                    *)

\* The bytes of one call.
LEMMA InputIs ==
  ASSUME IInv, NEW k \in Nat, bytes + k <= MaxBytes
  PROVE  Input(k) \in Seq(Byte) /\ Len(Input(k)) = k /\ (k = 0 => Input(k) = <<>>)
<1>1. bytes \in Nat /\ MaxBytes \in Nat
  BY IInvIs, Constants
<1>2. \A i \in 1 .. k : bytes + i \in Byte
  BY <1>1 DEF Byte
<1>3. Input(k) \in Seq(Byte) /\ Len(Input(k)) = k
  BY <1>2 DEF Input
<1> QED BY <1>3, BytesAre

LEMMA OpenKeeps ==
  ASSUME IInv, NEW m \in {"w", "w+", "file", "file+", "unlink"}, NEW k \in 0 .. MaxWrite, Open(m, k)
  PROVE  IInv'
<1>1. /\ opens < MaxOpens /\ opens' = opens + 1 /\ bytes + k <= MaxBytes /\ (m \notin {"file", "file+"} => k = 0)
      /\ bytes' = bytes + k /\ want' = <<>> /\ excuse' = {} /\ chunks' = chunks /\ files' = files
  BY DEF Open
<1>2. k \in Nat /\ bytes \in Nat /\ opens \in Nat /\ bytes' \in Nat /\ bytes <= bytes' /\ MaxOpens \in Nat
  BY <1>1, IInvIs, Constants
<1>3. PICK bs : bs = Input(k)
  OBVIOUS
<1>4. bs \in Seq(Byte) /\ Len(bs) = k /\ (k = 0 => bs = <<>>)
  BY <1>1, <1>2, <1>3, InputIs
<1>5. PICK x, c, z : x = w' /\ c = NoHandle.chunk /\ z = NoHandle
  OBVIOUS
<1>6. x = [NoHandle EXCEPT !.pc = "find", !.mode = m, !.rest = bs]
  BY <1>3, <1>5 DEF Open
<1>7. NoHandle \in Handle /\ NoHandle.chunk \in ChunkObject
  BY NoHandleFits, HandleIs DEF Sized
<1>8. x \in Handle
  BY <1>4, <1>6, <1>7, PlacesAre DEF Handle
<1>9. /\ x.pc = "find" /\ x.mode = m /\ x.rest = bs /\ x.fid = 0 /\ x.length = 0 /\ x.target = 0
      /\ x.position = 0 /\ x.chunk.n = 0 /\ x.chunk.p = 0 /\ x.chunk.data = <<>>
  BY <1>6 DEF NoHandle
<1>10. Sized(x, bytes')
  <2>1. From(x.chunk) = 0 /\ Len(x.chunk.data) = 0
    BY <1>9, FromIs
  <2>2. PICK b : b = bytes'
    OBVIOUS
  <2>3. b \in Nat /\ k <= b
    BY <1>1, <1>2, <2>2
  <2>4. Fits(x, b)
    BY <1>2, <1>4, <1>9, <2>1, <2>3 DEF Fits
  <2>5. Steps(x)
    BY <1>1, <1>4, <1>9 DEF Steps
  <2> QED BY <1>8, <2>2, <2>4, <2>5 DEF Sized
<1>11. Documents(chunks, bytes') /\ Files(files, bytes')
  BY <1>2, IInvIs, DocumentsLess, FilesLess
<1>12. Owner(chunks, files, x, opens')
  BY <1>1, <1>2, <1>9 DEF Owner, Opened
<1>13. Histories(<<>>, {}, bytes', opens')
  BY <1>1, <1>2, Constants, PlacesAre DEF Histories
<1>14. Purged(chunks, files, x, {}) /\ Calm(chunks, files, x, <<>>, {})
  BY <1>9 DEF Purged, Calm, Kept, Closed
<1> QED BY <1>1, <1>5, <1>10, <1>11, <1>12, <1>13, <1>14 DEF IInv, Inv

LEMMA DieKeeps ==
  ASSUME IInv, Die
  PROVE  IInv'
<1>1. /\ w' = NoHandle /\ want' = <<>> /\ excuse' = {} /\ chunks' = chunks /\ files' = files
      /\ bytes' = bytes /\ opens' = opens
  BY DEF Die
<1>2. Sized(NoHandle, bytes)
  BY IInvIs, NoHandleFits
<1>3. NoHandle.pc = "none" /\ NoHandle.fid = 0
  BY DEF NoHandle
<1>4. Owner(chunks, files, NoHandle, opens)
  BY <1>3, Constants DEF Owner, Opened
<1>5. Histories(<<>>, {}, bytes, opens)
  BY IInvIs, PlacesAre DEF Histories
<1>6. Purged(chunks, files, NoHandle, {}) /\ Calm(chunks, files, NoHandle, <<>>, {})
  BY <1>3 DEF Purged, Calm, Kept, Closed
<1> QED BY <1>1, <1>2, <1>4, <1>5, <1>6, IInvIs DEF IInv, Inv

\* Bytes that follow the content.
LEMMA AppendLaid ==
  ASSUME NEW c \in ChunkObject, NEW bs \in Seq(Byte), NEW D, NEW v \in Seq(Byte), IsDocs(D),
         Laid(c, <<>>, D, v)
  PROVE  Laid(c, bs, D, v \o bs)
<1>1. PICK u, f : u = v \o bs /\ f = From(c)
  OBVIOUS
<1>2. /\ u \in Seq(Byte) /\ Len(u) = Len(v) + Len(bs)
      /\ \A i \in 1 .. Len(v) : u[i] = v[i]
      /\ \A i \in 1 .. Len(bs) : u[Len(v) + i] = bs[i]
  BY <1>1, Joined
<1>3. c.n \in Nat /\ c.p \in Nat /\ f \in Nat /\ ChunkSize \in Nat /\ Len(<<>>) = 0 /\ Len(bs) \in Nat
  BY <1>1, Constants, FromIs DEF ChunkObject
<1>4. Len(v) = f + c.p /\ c.p = Len(c.data) /\ c.p <= ChunkSize
  BY <1>1, <1>3 DEF Laid
<1>5. ASSUME NEW d, d.n \in Nat, Piece(d, v), Len(d.data) \in Nat, From(d) + Len(d.data) <= Len(v)
      PROVE  Piece(d, u)
  <2>1. PICK g : g = From(d)
    OBVIOUS
  <2>2. g \in Nat /\ g + Len(d.data) <= Len(v)
    BY <1>5, <2>1, FromIs
  <2>3. ASSUME NEW i \in 1 .. Len(d.data)
        PROVE  d.data[i] = u[g + i]
    <3>1. g + i \in 1 .. Len(v)
      BY <1>3, <1>4, <1>5, <2>2
    <3>2. d.data[i] = v[g + i]
      BY <1>5, <2>1 DEF Piece
    <3> QED BY <1>2, <3>1, <3>2
  <2> QED BY <2>1, <2>3 DEF Piece
<1>6. Piece(c, u)
  BY <1>1, <1>3, <1>4, <1>5 DEF Laid
<1>7. Before(D, c.n, u)
  <2>1. Before(D, c.n, v)
    BY DEF Laid
  <2>2. ASSUME NEW d \in D, d.n < c.n
        PROVE  Len(d.data) = ChunkSize /\ Piece(d, u)
    <3>1. Len(d.data) = ChunkSize /\ Piece(d, v) /\ d.n \in Nat
      BY <2>1, <2>2 DEF Before, IsDocs
    <3>2. From(d) + ChunkSize <= f /\ From(d) \in Nat
      BY <1>1, <1>3, <2>2, <3>1, FromIs
    <3>3. From(d) + Len(d.data) <= Len(v)
      BY <1>3, <1>4, <3>1, <3>2
    <3> QED BY <1>3, <1>5, <3>1, <3>3
  <2> QED BY <2>1, <2>2 DEF Before
<1>8. Len(u) = f + c.p + Len(bs) /\ \A i \in 1 .. Len(bs) : bs[i] = u[f + c.p + i]
  BY <1>2, <1>4
<1> QED BY <1>1, <1>4, <1>6, <1>7, <1>8 DEF Laid

LEMMA WriteKeeps ==
  ASSUME IInv, NEW k \in 1 .. MaxWrite, Write(k)
  PROVE  IInv'
<1>1. /\ w.pc = "idle" /\ w.chunk.p <= ChunkSize /\ bytes + k <= MaxBytes /\ bytes' = bytes + k
      /\ excuse' = excuse /\ chunks' = chunks /\ files' = files /\ opens' = opens
  BY DEF Write
<1>2. /\ k \in Nat /\ k # 0 /\ bytes \in Nat /\ bytes' \in Nat /\ bytes <= bytes'
      /\ w \in Handle /\ want \in Seq(Byte)
  BY <1>1, IInvIs
<1>3. PICK bs, x, v : bs = Input(k) /\ x = w' /\ v = want'
  OBVIOUS
<1>4. bs \in Seq(Byte) /\ Len(bs) = k /\ bs # <<>>
  BY <1>1, <1>2, <1>3, InputIs
<1>5. x = Written(w, bs) /\ v = want \o bs
  BY <1>3 DEF Write
<1>6. v \in Seq(Byte)
  BY <1>2, <1>4, <1>5, Joined
<1>7. PICK b : b = bytes'
  OBVIOUS
<1>8. b \in Nat /\ b = bytes + k
  BY <1>1, <1>2, <1>7
<1>9. w.rest = <<>> /\ Len(w.rest) = 0
  BY <1>1, IInvIs DEF Steps
<1>10. Room(w, bs, b)
  <2>1. PICK l, t, p, f, q, n : /\ l = w.length /\ t = w.target /\ p = w.position /\ f = From(w.chunk)
                                /\ q = w.chunk.p /\ n = Len(w.chunk.data)
    OBVIOUS
  <2>2. l \in Nat /\ t \in Nat /\ p \in Nat /\ f \in Nat /\ q \in Nat /\ n \in Nat
    BY <1>2, <2>1, HandleIs
  <2>3. l <= bytes /\ t <= bytes /\ p + 0 <= bytes /\ f + q + 0 <= bytes /\ f + n + 0 <= bytes
    BY <1>9, <2>1, IInvIs DEF Fits
  <2>4. l <= b /\ t <= b /\ p + k <= b /\ f + q + k <= b /\ f + n + k <= b
    BY <1>2, <1>8, <2>2, <2>3
  <2> QED BY <1>4, <2>1, <2>4 DEF Room
<1>11. Sized(x, b) /\ SameFile(x, w) /\ x.pc \in {"idle", "remove"}
  BY <1>1, <1>2, <1>4, <1>5, <1>8, <1>10, WrittenFits
<1>12. x.fid = w.fid
  BY <1>11 DEF SameFile
<1>13. Documents(chunks, bytes') /\ Files(files, bytes')
  BY <1>2, IInvIs, DocumentsLess, FilesLess
<1>14. Owner(chunks, files, x, opens)
  BY <1>1, <1>11, <1>12, IInvIs DEF Owner, Opened
<1>15. Histories(v, excuse, bytes', opens)
  BY <1>1, <1>2, <1>6, IInvIs DEF Histories
<1>16. Purged(chunks, files, x, excuse)
  BY <1>11 DEF Purged
<1>17. Calm(chunks, files, x, v, excuse)
  <2> SUFFICES ASSUME excuse = {}
               PROVE  Kept(x, DocsOf(chunks, w.fid), v)
    BY <1>11, <1>12 DEF Calm, Closed
  <2>1. PICK D : D = DocsOf(chunks, w.fid)
    OBVIOUS
  <2>2. IsDocs(D) /\ Laid(w.chunk, <<>>, D, want)
    BY <1>1, <1>9, <2>1, IInvIs DEF Calm, Kept, Lays
  <2>3. Laid(w.chunk, bs, D, v)
    BY <1>2, <1>4, <1>5, <2>2, HandleIs, AppendLaid
  <2>4. /\ Laid(x.chunk, x.rest, D, v) /\ x.chunk.p > 0
        /\ x.pc = "remove" => x.rest # <<>> /\ x.next = "write"
    BY <1>2, <1>4, <1>5, <2>3, WrittenLays
  <2>5. x.chunk.p # 0
    BY <1>11, <2>4, HandleIs DEF Sized
  <2>6. Lays(x, D, v) /\ (x.pc = "remove" => Saving(x))
    BY <2>4, <2>5 DEF Lays, Saving
  <2> QED BY <1>11, <2>1, <2>6 DEF Kept
<1> QED BY <1>1, <1>3, <1>7, <1>11, <1>13, <1>14, <1>15, <1>16, <1>17 DEF IInv, Inv

LEMMA SeekKeeps ==
  ASSUME IInv, NEW to \in 0 .. w.position, Seek(to)
  PROVE  IInv'
<1>1. /\ w.pc = "idle" /\ bytes' = bytes /\ want' = want
      /\ excuse' = excuse \cup {"seek"} /\ chunks' = chunks /\ files' = files /\ opens' = opens
  BY DEF Seek
<1>2. PICK x, q, rem, c : x = w' /\ q = to \div ChunkSize /\ rem = to % ChunkSize /\ c = w.chunk
  OBVIOUS
<1>3. /\ w \in Handle /\ w.position \in Nat /\ c \in ChunkObject /\ c.n \in Nat /\ c.p \in Nat
      /\ From(c) \in Nat /\ Len(c.data) \in Nat /\ w.rest = <<>> /\ Len(w.rest) = 0 /\ bytes \in Nat
      /\ ChunkSize \in Nat \ {0} /\ to \in Nat /\ to <= w.position
  BY <1>1, <1>2, IInvIs, HandleIs, Constants DEF Steps
<1>4. to <= bytes
  <2>1. w.position + 0 <= bytes
    BY <1>3, IInvIs DEF Fits
  <2> QED BY <1>3, <2>1
<1>5. q \in Nat /\ rem \in 0 .. ChunkSize - 1 /\ to = q * ChunkSize + rem /\ q * ChunkSize \in Nat
  BY <1>2, <1>3, Division
<1>6. Sized(x, bytes) /\ x.fid = w.fid /\ x.pc \in {"idle", "remove"}
  <2>1. CASE q # c.n
    <3>1. x = [w EXCEPT !.pc = "remove", !.next = "seek", !.target = to]
      BY <1>2, <2>1 DEF Seek
    <3>2. x \in Handle
      BY <1>3, <3>1, PlacesAre DEF Handle
    <3>3. /\ x.pc = "remove" /\ x.next = "seek" /\ x.target = to /\ x.chunk = w.chunk /\ x.rest = w.rest
          /\ x.fid = w.fid /\ x.length = w.length /\ x.position = w.position
      BY <1>3, <3>1 DEF Handle
    <3>4. Fits(x, bytes)
      BY <1>4, <3>3, IInvIs DEF Fits
    <3>5. Steps(x)
      BY <1>3, <3>3 DEF Steps
    <3> QED BY <3>2, <3>3, <3>4, <3>5 DEF Sized
  <2>2. CASE q = c.n
    <3>1. PICK d : d = [c EXCEPT !.p = rem]
      OBVIOUS
    <3>2. d \in ChunkObject /\ d.n = c.n /\ d.p = rem /\ d.data = c.data
      <4>1. rem \in Nat
        BY <1>3, <1>5
      <4> QED BY <1>3, <3>1, <4>1 DEF ChunkObject
    <3>3. w' = [w EXCEPT !.position = to, !.chunk.p = to % ChunkSize]
      BY <1>2, <2>2 DEF Seek
    <3>4. x = [w EXCEPT !.position = to, !.chunk = d]
      BY <1>2, <3>1, <3>3
    <3>5. x \in Handle
      BY <1>3, <3>2, <3>4 DEF Handle
    <3>6. /\ x.pc = w.pc /\ x.next = w.next /\ x.target = w.target /\ x.chunk = d /\ x.rest = w.rest
          /\ x.fid = w.fid /\ x.length = w.length /\ x.position = to
      BY <1>3, <3>4 DEF Handle
    <3>7. From(d) = From(c) /\ From(c) = q * ChunkSize
      BY <2>2, <3>2 DEF From
    <3>8. From(c) + rem + 0 <= bytes
      BY <1>3, <1>4, <1>5, <3>7
    <3>9. Fits(x, bytes)
      <4>1. From(c) + Len(c.data) + 0 <= bytes /\ w.length <= bytes /\ w.target <= bytes
        BY <1>2, <1>3, IInvIs DEF Fits
      <4>2. to + 0 <= bytes
        BY <1>3, <1>4
      <4> QED BY <1>3, <3>2, <3>6, <3>7, <3>8, <4>1, <4>2 DEF Fits
    <3>10. Steps(x)
      BY <1>1, <1>3, <3>6 DEF Steps
    <3> QED BY <1>1, <3>5, <3>6, <3>9, <3>10 DEF Sized
  <2> QED BY <2>1, <2>2
<1>7. Owner(chunks, files, x, opens)
  BY <1>1, <1>6, IInvIs DEF Owner, Opened
<1>8. Histories(want, excuse', bytes, opens)
  BY <1>1, IInvIs DEF Histories
<1>9. Purged(chunks, files, x, excuse') /\ Calm(chunks, files, x, want, excuse')
  BY <1>1, <1>6 DEF Purged, Calm
<1> QED BY <1>1, <1>2, <1>6, <1>7, <1>8, <1>9, IInvIs DEF IInv, Inv

\* A first chunk that has been emptied, of a file of which nothing is to remain.
LEMMA EmptiedLays ==
  ASSUME NEW c \in ChunkObject, c.n = 0, NEW D, NEW v, Laid(c, <<>>, D, v), IsDocs(D),
         NEW d \in ChunkObject, d.id = c.id, d.n = 0, d.p = 0, d.data = <<>>
  PROVE  Laid(d, <<>>, D, <<>>)
<1>1. Len(<<>>) = 0 /\ ChunkSize \in Nat /\ From(d) = 0
  BY Constants, FromIs
<1>2. Before(D, 0, <<>>)
  <2>1. \A a, b \in D : a.n = b.n => a = b
    BY DEF Laid, Before
  <2>2. \A a \in D : a.n \in Nat
    BY DEF IsDocs
  <2>3. \A a \in D : ~(a.n < 0)
    BY <2>2
  <2> QED BY <2>1, <2>3 DEF Before
<1> QED BY <1>1, <1>2 DEF Laid, Piece

\* The first chunk of a file of which no document is stored.
LEMMA FirstLays ==
  ASSUME NEW c \in ChunkObject, c.n = 0, c.data = <<>>, c.p = 0, NEW v \in Seq(Byte)
  PROVE  Laid(c, v, {}, v)
<1>1. Len(c.data) = 0 /\ ChunkSize \in Nat /\ From(c) = 0 /\ Len(v) \in Nat
  BY Constants, FromIs
<1>2. Before({}, 0, v)
  BY DEF Before
<1>3. PICK f : f = From(c)
  OBVIOUS
<1>4. f = 0
  BY <1>1, <1>3
<1>5. Len(v) = f + 0 + Len(v) /\ \A i \in 1 .. Len(v) : v[i] = v[f + 0 + i]
  BY <1>1, <1>4
<1>6. Piece(c, v) /\ c.p = Len(c.data) /\ c.p <= ChunkSize
  BY <1>1 DEF Piece
<1> QED BY <1>2, <1>3, <1>5, <1>6 DEF Laid

LEMMA RewindKeeps ==
  ASSUME IInv, Rewind
  PROVE  IInv'
<1>1. /\ w.pc = "idle" /\ bytes' = bytes /\ want' = <<>>
      /\ excuse' = excuse /\ chunks' = chunks /\ files' = files /\ opens' = opens
  BY DEF Rewind
<1>2. PICK x, c : x = w' /\ c = w.chunk
  OBVIOUS
<1>3. /\ w \in Handle /\ w.position \in Nat /\ c \in ChunkObject /\ c.n \in Nat /\ c.p \in Nat
      /\ From(c) \in Nat /\ Len(c.data) \in Nat /\ w.rest = <<>> /\ Len(<<>>) = 0 /\ bytes \in Nat
  BY <1>1, <1>2, IInvIs, HandleIs DEF Steps
<1>4. PICK d : d = [c EXCEPT !.p = 0, !.data = <<>>]
  OBVIOUS
<1>5. d \in ChunkObject /\ d.id = c.id /\ d.n = c.n /\ d.p = 0 /\ d.data = <<>>
  BY <1>3, <1>4, PlacesAre DEF ChunkObject
<1>6. \/ c.n # 0 /\ x = [w EXCEPT !.pc = "truncate"]
      \/ c.n = 0 /\ x = [w EXCEPT !.position = 0, !.chunk = d]
  <2>1. CASE c.n # 0
    BY <1>2, <2>1 DEF Rewind
  <2>2. CASE c.n = 0
    <3>1. w' = [w EXCEPT !.position = 0, !.chunk.p = 0, !.chunk.data = <<>>]
      BY <1>2, <2>2 DEF Rewind
    <3>2. x = [w EXCEPT !.position = 0, !.chunk = [c EXCEPT !.p = 0, !.data = <<>>]]
      <4>1. PICK y : y = [w EXCEPT !.position = 0, !.chunk = [c EXCEPT !.p = 0]]
        OBVIOUS
      <4>2. y = [w EXCEPT !.position = 0, !.chunk.p = 0]
        BY <1>2, <4>1
      <4>3. y.chunk = [c EXCEPT !.p = 0]
        BY <1>3, <4>1 DEF Handle
      <4>4. x = [y EXCEPT !.chunk.data = <<>>]
        BY <1>2, <3>1, <4>2
      <4>5. x = [y EXCEPT !.chunk = [c EXCEPT !.p = 0, !.data = <<>>]]
        BY <4>3, <4>4
      <4> QED BY <4>1, <4>5
    <3> QED BY <1>4, <2>2, <3>2
  <2> QED BY <2>1, <2>2
<1>7. CASE c.n # 0 /\ x = [w EXCEPT !.pc = "truncate"]
  <2>1. x \in Handle
    BY <1>3, <1>7, PlacesAre DEF Handle
  <2>2. /\ x.pc = "truncate" /\ x.chunk = w.chunk /\ x.rest = <<>> /\ x.target = w.target
        /\ x.fid = w.fid /\ x.length = w.length /\ x.position = w.position
    BY <1>3, <1>7 DEF Handle
  <2>3. Fits(x, bytes) /\ Steps(x)
    BY <1>3, <2>2, IInvIs DEF Fits, Steps
  <2>4. Sized(x, bytes) /\ Owner(chunks, files, x, opens)
    BY <1>1, <2>1, <2>2, <2>3, IInvIs DEF Sized, Owner, Opened
  <2>5. Histories(<<>>, excuse, bytes, opens)
    BY IInvIs, PlacesAre DEF Histories
  <2>6. Purged(chunks, files, x, excuse) /\ Calm(chunks, files, x, <<>>, excuse)
    BY <2>2 DEF Purged, Calm, Kept, Closed
  <2> QED BY <1>1, <1>2, <2>4, <2>5, <2>6, IInvIs DEF IInv, Inv
<1>8. CASE c.n = 0 /\ x = [w EXCEPT !.position = 0, !.chunk = d]
  <2>1. x \in Handle
    BY <1>3, <1>5, <1>8 DEF Handle
  <2>2. /\ x.pc = "idle" /\ x.chunk = d /\ x.rest = <<>> /\ x.target = w.target
        /\ x.fid = w.fid /\ x.length = w.length /\ x.position = 0
    BY <1>1, <1>3, <1>8 DEF Handle
  <2>3. From(d) = 0
    BY <1>5, <1>8, FromIs
  <2>4. Fits(x, bytes)
    <3>1. w.length <= bytes /\ w.target <= bytes
      BY IInvIs DEF Fits
    <3>2. PICK b : b = bytes
      OBVIOUS
    <3>3. 0 + 0 + 0 <= b /\ 0 + 0 <= b
      BY <1>3, <3>2
    <3> QED BY <1>3, <1>5, <2>2, <2>3, <3>1, <3>2, <3>3 DEF Fits
  <2>5. Sized(x, bytes) /\ Owner(chunks, files, x, opens)
    BY <1>1, <2>1, <2>2, <2>4, IInvIs DEF Sized, Steps, Owner, Opened
  <2>6. Histories(<<>>, excuse, bytes, opens)
    BY IInvIs, PlacesAre DEF Histories
  <2>7. Calm(chunks, files, x, <<>>, excuse)
    <3> SUFFICES ASSUME excuse = {}
                 PROVE  Lays(x, DocsOf(chunks, w.fid), <<>>)
      BY <2>2 DEF Calm, Kept, Closed
    <3>1. PICK D : D = DocsOf(chunks, w.fid)
      OBVIOUS
    <3>2. IsDocs(D) /\ Laid(c, <<>>, D, want)
      BY <1>1, <1>2, <1>3, <3>1, IInvIs DEF Calm, Kept, Lays
    <3>3. Laid(d, <<>>, D, <<>>)
      BY <1>3, <1>5, <1>8, <3>2, EmptiedLays
    <3> QED BY <1>5, <1>8, <2>2, <3>1, <3>3 DEF Lays
  <2>8. Purged(chunks, files, x, excuse)
    BY <2>2 DEF Purged
  <2> QED BY <1>1, <1>2, <2>5, <2>6, <2>7, <2>8, IInvIs DEF IInv, Inv
<1> QED BY <1>6, <1>7, <1>8

\* close has no chunk to save only when nothing was written.
LEMMA ClosingKeeps ==
  ASSUME NEW h \in Handle, NEW D, NEW v \in Seq(Byte), Lays(h, D, v), h.rest = <<>>,
         NEW b \in Nat, Fits(h, b),
         NEW x, x = Closing(h)
  PROVE  Sized(x, b) /\ Kept(x, D, v) /\ x.fid = h.fid /\ x.pc \in {"remove", "file"}
<1>1. /\ Sized(x, b) /\ x.chunk = h.chunk /\ x.rest = <<>> /\ x.fid = h.fid
      /\ \/ h.chunk.p > 0 /\ x.pc = "remove" /\ x.next = "close"
         \/ ~(h.chunk.p > 0) /\ x.pc = "file"
  BY ClosingFits
<1>2. Lays(x, D, v)
  BY <1>1 DEF Lays
<1>3. CASE h.chunk.p > 0 /\ x.pc = "remove" /\ x.next = "close"
  BY <1>1, <1>2, <1>3 DEF Kept, Saving
<1>4. CASE ~(h.chunk.p > 0) /\ x.pc = "file"
  <2>1. h.chunk.p = 0 /\ h.chunk.n = 0 /\ Len(<<>>) = 0
    BY <1>4, HandleIs DEF Lays
  <2>2. From(h.chunk) = 0
    BY <2>1, FromIs
  <2>3. Len(v) = From(h.chunk) + h.chunk.p + Len(h.rest)
    BY DEF Lays, Laid
  <2>4. Len(v) = 0
    BY <2>1, <2>2, <2>3
  <2>5. v = <<>>
    BY <2>4, BytesAre
  <2> QED BY <1>1, <1>2, <1>4, <2>5 DEF Kept
<1> QED BY <1>1, <1>3, <1>4

LEMMA CloseKeeps ==
  ASSUME IInv, Close
  PROVE  IInv'
<1>1. /\ w.pc = "idle" /\ bytes' = bytes /\ want' = want /\ w' = Closing(w)
      /\ excuse' = excuse /\ chunks' = chunks /\ files' = files /\ opens' = opens
  BY DEF Close
<1>2. PICK x : x = w'
  OBVIOUS
<1>3. w \in Handle /\ w.rest = <<>> /\ bytes \in Nat /\ Fits(w, bytes) /\ want \in Seq(Byte)
  BY <1>1, IInvIs DEF Steps
<1>4. Sized(x, bytes) /\ x.fid = w.fid /\ x.pc \in {"remove", "file"}
  BY <1>1, <1>2, <1>3, ClosingFits
<1>5. Owner(chunks, files, x, opens) /\ Purged(chunks, files, x, excuse)
  BY <1>1, <1>4, IInvIs DEF Owner, Opened, Purged
<1>6. Calm(chunks, files, x, want, excuse)
  <2> SUFFICES ASSUME excuse = {}
               PROVE  Kept(x, DocsOf(chunks, w.fid), want)
    BY <1>4 DEF Calm, Closed
  <2>1. Lays(w, DocsOf(chunks, w.fid), want)
    BY <1>1, IInvIs DEF Calm, Kept
  <2> QED BY <1>1, <1>2, <1>3, <2>1, ClosingKeeps
<1> QED BY <1>1, <1>2, <1>4, <1>5, <1>6, IInvIs DEF IInv, Inv

LEMMA UnlinkKeeps ==
  ASSUME IInv, Unlink
  PROVE  IInv'
<1>1. /\ w.pc = "idle" /\ bytes' = bytes /\ want' = want /\ w' = [w EXCEPT !.pc = "purge"]
      /\ excuse' = excuse /\ chunks' = chunks /\ files' = files /\ opens' = opens
  BY DEF Unlink
<1>2. PICK x : x = w'
  OBVIOUS
<1>3. w \in Handle /\ w.rest = <<>>
  BY <1>1, IInvIs DEF Steps
<1>4. x \in Handle
  BY <1>1, <1>2, <1>3, PlacesAre DEF Handle
<1>5. /\ x.pc = "purge" /\ x.chunk = w.chunk /\ x.rest = w.rest /\ x.target = w.target
      /\ x.fid = w.fid /\ x.length = w.length /\ x.position = w.position
  BY <1>1, <1>2, <1>3 DEF Handle
<1>6. Sized(x, bytes)
  BY <1>3, <1>4, <1>5, IInvIs DEF Sized, Fits, Steps
<1>7. Owner(chunks, files, x, opens) /\ Purged(chunks, files, x, excuse)
  BY <1>1, <1>5, IInvIs DEF Owner, Opened, Purged
<1>8. Calm(chunks, files, x, want, excuse)
  BY <1>5 DEF Calm, Kept, Closed
<1> QED BY <1>1, <1>2, <1>6, <1>7, <1>8, IInvIs DEF IInv, Inv

-----------------------------------------------------------------------------
(* Database operations                                                     *)

LEMMA StoreIs ==
  ASSUME NEW new, Store(new)
  PROVE  \/ chunks' = new /\ excuse' = excuse
         \/ chunks' = chunks /\ excuse' = excuse \cup {"failure"}
BY DEF Store

LEMMA NthIs ==
  ASSUME IInv, NEW fid, NEW k, NEW c \in Nth(fid, k)
  PROVE  /\ c \in ChunkObject /\ c.p = 0
         /\ From(c) + Len(c.data) <= bytes
         /\ \/ \E g \in Docs(fid) : g.n = k /\ c.id = g.id /\ c.n = g.n /\ c.data = g.data
            \/ c.n = 0 /\ c.data = <<>> /\ \A g \in Docs(fid) : g.n # k
<1> DEFINE found == {d \in Docs(fid) : d.n = k}
<1>1. Documents(chunks, bytes) /\ Identified /\ bytes \in Nat
  BY IInvIs
<1>2. CASE found = {}
  <2>1. c = Blank(FreshId, 0)
    BY <1>2, NewChunkIs DEF Nth
  <2>2. c \in ChunkObject /\ c.p = 0 /\ c.n = 0 /\ c.data = <<>> /\ Len(c.data) = 0
    BY <1>1, <2>1, BlankIs, FreshIs
  <2>3. From(c) = 0
    BY <2>2, FromIs
  <2>4. From(c) + Len(c.data) <= bytes
    BY <1>1, <2>2, <2>3
  <2>5. \A g \in Docs(fid) : g.n # k
    BY <1>2
  <2> QED BY <2>2, <2>4, <2>5
<1>3. CASE found # {}
  <2>1. c \in {[id |-> d.id, n |-> d.n, data |-> d.data, p |-> 0] : d \in found}
    BY <1>3 DEF Nth
  <2>2. PICK g \in found : c = [id |-> g.id, n |-> g.n, data |-> g.data, p |-> 0]
    BY <2>1
  <2>3. g \in Docs(fid) /\ g \in chunks /\ g.n = k
    BY DEF Docs
  <2>4. g \in Kind /\ From(g) + Len(g.data) <= bytes
    BY <1>1, <2>3 DEF Documents
  <2>5. c.id = g.id /\ c.n = g.n /\ c.data = g.data /\ c.p = 0
    BY <2>2
  <2>6. c \in ChunkObject
    BY <2>2, <2>4 DEF Kind, ChunkObject
  <2>7. From(c) + Len(c.data) <= bytes
    BY <2>4, <2>5 DEF From
  <2> QED BY <2>3, <2>5, <2>6, <2>7
<1> QED BY <1>2, <1>3

LEMMA FindFileKeeps ==
  ASSUME IInv, FindFile
  PROVE  IInv'
<1>1. /\ w.pc = "find" /\ bytes' = bytes /\ opens' = opens /\ chunks' = chunks /\ files' = files
  BY DEF FindFile
<1>2. PICK f \in IF files = {} THEN {[fid |-> opens, length |-> 0]} ELSE files :
        /\ w' = [w EXCEPT !.fid = f.fid, !.length = f.length, !.date = files # {},
                          !.pc = IF w.mode \in {"w+", "file+"} THEN "load" ELSE "delete"]
        /\ want' = IF w.mode = "w+" THEN Content(f) ELSE w.rest
        /\ excuse' = Excused(f)
  BY DEF FindFile
<1>3. PICK x, v, e, p : /\ x = w' /\ v = want' /\ e = excuse'
                        /\ p = IF w.mode \in {"w+", "file+"} THEN "load" ELSE "delete"
  OBVIOUS
<1>4. /\ w \in Handle /\ bytes \in Nat /\ opens \in Nat /\ opens <= MaxOpens /\ opens > 0 /\ MaxOpens \in Nat
      /\ Files(files, bytes) /\ w.rest \in Seq(Byte)
      /\ w.rest = <<>> \/ w.mode \in {"file", "file+"}
  BY <1>1, Constants, IInvIs, HandleIs DEF Owner, Steps
<1>5. f.fid \in 1 .. MaxOpens /\ f.length \in Nat /\ f.length <= bytes /\ \A g \in files : g = f
  <2>1. CASE files = {}
    <3>1. f = [fid |-> opens, length |-> 0]
      BY <2>1
    <3>2. f.fid = opens /\ f.length = 0
      BY <3>1
    <3> QED BY <1>4, <2>1, <3>2
  <2>2. CASE files # {}
    <3>1. f \in files
      BY <2>2
    <3>2. \A g \in files : g \in [fid : 1 .. MaxOpens, length : Nat] /\ g.length <= bytes /\ g = f
      BY <1>4, <3>1 DEF Files
    <3> QED BY <3>1, <3>2
  <2> QED BY <2>1, <2>2
<1>6. /\ p \in {"load", "delete"} /\ p \in Places
      /\ p = "load" <=> w.mode \in {"w+", "file+"}
  BY <1>3, PlacesAre
<1>7. PICK t : t = (files # {})
  OBVIOUS
<1>8. x = [w EXCEPT !.fid = f.fid, !.length = f.length, !.date = t, !.pc = p]
  BY <1>2, <1>3, <1>7
<1>9. t \in BOOLEAN
  BY <1>7
<1>10. f.fid \in Nat
  BY <1>4, <1>5
<1>11. x \in Handle
  BY <1>4, <1>5, <1>6, <1>8, <1>9, <1>10 DEF Handle
<1>12. /\ x.pc = p /\ x.mode = w.mode /\ x.fid = f.fid /\ x.length = f.length /\ x.chunk = w.chunk
       /\ x.rest = w.rest /\ x.target = w.target /\ x.position = w.position /\ x.next = w.next
  BY <1>4, <1>8 DEF Handle
<1>13. Sized(x, bytes)
  <2>1. Fits(x, bytes)
    BY <1>5, <1>12, IInvIs DEF Fits
  <2>2. Steps(x)
    BY <1>4, <1>6, <1>12 DEF Steps
  <2> QED BY <1>11, <2>1, <2>2 DEF Sized
<1>14. Owner(chunks, files, x, opens)
  BY <1>4, <1>5, <1>6, <1>12 DEF Owner
<1>15. /\ w.mode = "w+" => v = Content(f)
       /\ w.mode # "w+" => v = w.rest
  BY <1>2, <1>3
<1>16. IsDocs(Docs(f.fid)) /\ Docs(f.fid) = DocsOf(chunks, f.fid)
  BY IInvIs
<1>17. v \in Seq(Byte) /\ (w.mode # "w+" => v = w.rest)
  <2>1. CASE w.mode = "w+"
    BY <1>5, <1>15, <1>16, <2>1, ContentType
  <2>2. CASE w.mode # "w+"
    BY <1>4, <1>15, <2>2
  <2> QED BY <2>1, <2>2
<1>18. e \subseteq {"seek", "failure", "base", "boundary", "doubled", "unreported"}
  <2>1. e \subseteq {"base", "boundary", "doubled"}
    BY <1>2, <1>3 DEF Excused
  <2> QED BY <2>1
<1>19. Histories(v, e, bytes, opens)
  BY <1>17, <1>18, IInvIs DEF Histories
<1>20. Purged(chunks, files, x, e)
  BY <1>6, <1>12 DEF Purged
<1>21. Calm(chunks, files, x, v, e)
  <2> SUFFICES ASSUME e = {}
               PROVE  Kept(x, DocsOf(chunks, f.fid), v)
    BY <1>6, <1>12 DEF Calm, Closed
  <2>1. CASE w.mode = "w+"
    <3>1. "base" \notin Excused(f) /\ "boundary" \notin Excused(f)
      BY <1>2, <1>3
    <3>2. \A i \in {"base", "boundary"} : i \in {"base", "boundary", "doubled"}
      OBVIOUS
    <3>3. Intact(f) /\ ~(f.length > 0 /\ f.length % ChunkSize = 0)
      BY <2>1, <3>1, <3>2 DEF Excused
    <3>4. v = Content(f) /\ Len(v) = f.length
      BY <1>5, <1>15, <1>16, <2>1, ContentType
    <3>5. Stored(DocsOf(chunks, f.fid), v)
      BY <1>5, <1>16, <3>3, <3>4, IntactStored
    <3>6. v # <<>> => f.length > 0
      BY <1>5, <1>17, <3>4, BytesAre
    <3>7. x.pc = "load"
      BY <1>6, <1>12, <2>1
    <3>8. x.mode = "w+" /\ "w+" # "file+"
      BY <1>12, <2>1
    <3> QED BY <1>12, <3>3, <3>4, <3>5, <3>6, <3>7, <3>8 DEF Kept
  <2>2. CASE w.mode = "file+"
    <3>1. "doubled" \notin Excused(f) /\ "doubled" \in {"base", "boundary", "doubled"}
      BY <1>2, <1>3
    <3>2. Docs(f.fid) = {}
      BY <2>2, <3>1 DEF Excused
    <3>3. x.pc = "load" /\ x.mode # "w+" /\ v = x.rest
      BY <1>6, <1>12, <1>17, <2>2
    <3> QED BY <1>16, <3>2, <3>3 DEF Kept
  <2>3. CASE w.mode \notin {"w+", "file+"}
    <3>1. x.pc = "delete" /\ v = x.rest
      BY <1>6, <1>12, <1>17, <2>3
    <3> QED BY <3>1 DEF Kept
  <2> QED BY <2>1, <2>2, <2>3
<1> QED BY <1>1, <1>3, <1>13, <1>14, <1>19, <1>20, <1>21, IInvIs DEF IInv, Inv

\* The first chunk of writeFile.
LEMMA FileBegins ==
  ASSUME IInv, NEW g \in Handle, NEW x, x = FileChunk(g, 0), g.length <= bytes, g.target <= bytes,
         g.position + Len(g.rest) <= bytes, Len(g.rest) <= bytes
  PROVE  /\ Sized(x, bytes) /\ x.pc = "remove" /\ x.next = "whole" /\ x.fid = g.fid
         /\ Lays(x, {}, g.rest)
<1>1. PICK c : c = Blank(FreshId, 0)
  OBVIOUS
<1>2. c \in ChunkObject /\ c.n = 0 /\ c.id = FreshId /\ c.data = <<>> /\ c.p = 0
  BY <1>1, IInvIs, FreshIs, BlankIs
<1>3. 0 * ChunkSize + Len(g.rest) <= bytes
  <2>1. 0 * ChunkSize = 0 /\ Len(g.rest) \in Nat
    BY Constants, Times, HandleIs
  <2> QED BY <2>1
<1>4. Sized(x, bytes) /\ InChunk(x, g, 0, FreshId)
  BY <1>3, IInvIs, FileChunkFits
<1>5. x.pc = "remove" /\ x.next = "whole" /\ x.fid = g.fid
  BY <1>4 DEF InChunk
<1>6. Laid(c, g.rest, {}, g.rest)
  BY <1>2, HandleIs, FirstLays
<1>7. Laid(x.chunk, x.rest, {}, g.rest) /\ (g.rest # <<>> => x.chunk.p > 0) /\ x \in Handle
  BY <1>2, <1>4, <1>6, ChunkLays DEF Sized
<1>8. g.rest = <<>> => x.rest = <<>>
  <2> HAVE g.rest = <<>>
  <2>1. Len(g.rest) = 0 /\ Len(x.rest) = Len(g.rest) - Len(x.chunk.data)
    BY <1>4 DEF InChunk
  <2>2. Len(x.rest) \in Nat /\ Len(x.chunk.data) \in Nat /\ x.rest \in Seq(Byte)
    BY <1>7, HandleIs
  <2>3. PICK m, n : m = Len(x.rest) /\ n = Len(x.chunk.data)
    OBVIOUS
  <2>4. m \in Nat /\ n \in Nat /\ m = 0 - n
    BY <2>1, <2>2, <2>3
  <2>5. m = 0
    BY <2>4
  <2> QED BY <2>2, <2>3, <2>5, BytesAre
<1>9. x.chunk.n = 0 /\ (x.chunk.p = 0 => ~(x.chunk.p > 0))
  BY <1>4, <1>7 DEF InChunk
<1> QED BY <1>4, <1>5, <1>7, <1>8, <1>9 DEF Lays

LEMMA LoadLastKeeps ==
  ASSUME IInv, LoadLast, w.mode = "w+"
  PROVE  IInv'
<1>1. /\ w.pc = "load" /\ bytes' = bytes /\ opens' = opens /\ chunks' = chunks /\ files' = files
      /\ want' = want /\ excuse' = excuse
  BY DEF LoadLast
<1>2. PICK q, L : L = w.length /\ q = L \div ChunkSize
  OBVIOUS
<1>3. PICK c \in Nth(w.fid, q) :
        w' = [w EXCEPT !.pc = "idle", !.chunk = [c EXCEPT !.p = Len(c.data)], !.position = w.length]
  BY <1>2 DEF LoadLast, LastChunkNumber
<1>4. PICK d, x : d = [c EXCEPT !.p = Len(c.data)] /\ x = w'
  OBVIOUS
<1>5. c \in ChunkObject /\ From(c) + Len(c.data) <= bytes
  BY NthIs
<1>6. /\ w \in Handle /\ bytes \in Nat /\ L \in Nat /\ L <= bytes /\ w.rest = <<>> /\ Len(<<>>) = 0
      /\ Len(c.data) \in Nat /\ From(c) \in Nat /\ ChunkSize \in Nat \ {0} /\ want \in Seq(Byte)
  BY <1>1, <1>2, <1>5, Constants, IInvIs, HandleIs, FromIs, SMTT(60) DEF Steps, Fits, ChunkObject
<1>7. d \in ChunkObject /\ d.id = c.id /\ d.n = c.n /\ d.data = c.data /\ d.p = Len(c.data)
  BY <1>4, <1>5, <1>6 DEF ChunkObject
<1>8. x = [w EXCEPT !.pc = "idle", !.chunk = d, !.position = L]
  BY <1>2, <1>3, <1>4
<1>9. x \in Handle
  BY <1>6, <1>7, <1>8, PlacesAre DEF Handle
<1>10. /\ x.pc = "idle" /\ x.chunk = d /\ x.rest = <<>> /\ x.target = w.target
       /\ x.fid = w.fid /\ x.length = L /\ x.position = L
  BY <1>2, <1>6, <1>8 DEF Handle
<1>11. Fits(x, bytes)
  <2>1. From(d) = From(c)
    BY <1>7 DEF From
  <2>2. PICK f, n, b : f = From(c) /\ n = Len(c.data) /\ b = bytes
    OBVIOUS
  <2>3. f + n + 0 <= b /\ L + 0 <= b
    BY <1>5, <1>6, <2>2
  <2>4. w.target <= bytes
    BY IInvIs DEF Fits
  <2> QED BY <1>6, <1>7, <1>10, <2>1, <2>2, <2>3, <2>4 DEF Fits
<1>12. Sized(x, bytes)
  BY <1>9, <1>10, <1>11 DEF Sized, Steps
<1>13. Owner(chunks, files, x, opens) /\ Purged(chunks, files, x, excuse)
  BY <1>1, <1>10, IInvIs DEF Owner, Opened, Purged
<1>14. Calm(chunks, files, x, want, excuse)
  <2> SUFFICES ASSUME excuse = {}
               PROVE  Lays(x, DocsOf(chunks, w.fid), want)
    BY <1>10 DEF Calm, Kept, Closed
  <2>1. PICK D : D = Docs(w.fid)
    OBVIOUS
  <2>2. /\ IsDocs(D) /\ D = DocsOf(chunks, w.fid) /\ Stored(D, want) /\ Len(want) = L
        /\ want # <<>> => L % ChunkSize # 0
    BY <1>1, <1>2, <2>1, IInvIs DEF Calm, Kept
  <2>3. \/ \E g \in D : g.n = q /\ c.id = g.id /\ c.n = g.n /\ c.data = g.data
        \/ c.n = 0 /\ c.data = <<>> /\ \A g \in D : g.n # q
    BY <2>1, NthIs
  <2>4. CASE want = <<>>
    <3>1. D = {}
      <4> SUFFICES ASSUME NEW g \in D
                   PROVE  FALSE
        OBVIOUS
      <4>1. From(g) < 0 /\ From(g) \in Nat
        BY <1>6, <2>2, <2>4, FromIs DEF Stored, IsDocs
      <4> QED BY <4>1
    <3>2. c.n = 0 /\ c.data = <<>> /\ d.n = 0 /\ d.data = <<>> /\ d.p = 0
      BY <1>6, <1>7, <2>3, <3>1
    <3>3. Laid(d, <<>>, {}, <<>>)
      BY <1>7, <3>2, PlacesAre, FirstLays
    <3> QED BY <1>10, <2>2, <2>4, <3>1, <3>2, <3>3 DEF Lays
  <2>5. CASE want # <<>>
    <3>1. PICK rem : rem = L % ChunkSize
      OBVIOUS
    <3>2. /\ q \in Nat /\ rem \in 0 .. ChunkSize - 1 /\ L = q * ChunkSize + rem
          /\ q * ChunkSize \in Nat /\ rem # 0
      BY <1>2, <1>6, <2>2, <2>5, <3>1, Division
    <3>3. q * ChunkSize < L
      BY <1>6, <3>2
    <3>4. \E g \in D : g.n = q
      BY <2>2, <3>2, <3>3 DEF Stored
    <3>5. PICK g \in D : g.n = q /\ c.id = g.id /\ c.n = g.n /\ c.data = g.data
      BY <2>3, <3>4
    <3>6. Laid(d, <<>>, D, want)
      <4>1. d.id = g.id /\ d.n = g.n /\ d.data = g.data /\ d.p = Len(g.data)
        BY <1>7, <3>5
      <4>2. g.n = Len(want) \div ChunkSize /\ Len(want) % ChunkSize # 0
        BY <1>2, <2>2, <2>5, <3>5
      <4> QED BY <1>6, <1>7, <2>2, <2>5, <4>1, <4>2, StoredLoads
    <3>7. d.p # 0
      <4>1. g.data \in Seq(Byte) /\ g.data # <<>>
        BY <2>2 DEF IsDocs
      <4> QED BY <1>7, <3>5, <4>1, BytesAre
    <3> QED BY <1>10, <2>2, <3>6, <3>7 DEF Lays
  <2> QED BY <2>4, <2>5
<1> QED BY <1>1, <1>4, <1>12, <1>13, <1>14, IInvIs DEF IInv, Inv

\* writeFile in mode "w+" has found nothing of the file, unless something excuses it.
LEMMA LoadFileKeeps ==
  ASSUME IInv, LoadLast, w.mode = "file+"
  PROVE  IInv'
<1>1. /\ w.pc = "load" /\ bytes' = bytes /\ opens' = opens /\ chunks' = chunks /\ files' = files
      /\ want' = want /\ excuse' = excuse /\ w' = FileChunk(w, 0)
  BY DEF LoadLast
<1>2. PICK x : x = w'
  OBVIOUS
<1>3. /\ w \in Handle /\ w.length <= bytes /\ w.target <= bytes /\ w.position + Len(w.rest) <= bytes
      /\ bytes \in Nat
  BY IInvIs DEF Fits
<1>4. Len(w.rest) <= bytes
  <2>1. PICK n, p : n = Len(w.rest) /\ p = w.position
    OBVIOUS
  <2>2. n \in Nat /\ p \in Nat /\ p + n <= bytes
    BY <1>3, <2>1, HandleIs
  <2> QED BY <1>3, <2>1, <2>2
<1>5. /\ Sized(x, bytes) /\ x.pc = "remove" /\ x.next = "whole" /\ x.fid = w.fid
      /\ Lays(x, {}, w.rest)
  BY <1>1, <1>2, <1>3, <1>4, FileBegins
<1>6. Owner(chunks, files, x, opens) /\ Purged(chunks, files, x, excuse)
  BY <1>1, <1>5, IInvIs DEF Owner, Opened, Purged
<1>7. Calm(chunks, files, x, want, excuse)
  <2> SUFFICES ASSUME excuse = {}
               PROVE  Lays(x, DocsOf(chunks, w.fid), want)
    BY <1>5 DEF Calm, Kept, Closed, Saving
  <2>1. DocsOf(chunks, w.fid) = {} /\ want = w.rest
    BY <1>1, IInvIs DEF Calm, Kept
  <2> QED BY <1>5, <2>1
<1> QED BY <1>1, <1>2, <1>5, <1>6, <1>7, IInvIs DEF IInv, Inv

LEMMA LoadKeeps ==
  ASSUME IInv, LoadLast
  PROVE  IInv'
<1>1. w.mode = "w+" \/ w.mode = "file+"
  BY DEF LoadLast
<1> QED BY <1>1, LoadLastKeeps, LoadFileKeeps

\* deleteChunks, when it succeeds, leaves no document of the file.
LEMMA ClearedIs ==
  ASSUME IInv, NEW fid, Store(chunks \ Deleted(fid))
  PROVE  /\ chunks' \subseteq chunks
         /\ Documents(chunks', bytes)
         /\ \/ excuse' = excuse /\ DocsOf(chunks', fid) = {}
            \/ excuse' = excuse \cup {"failure"}
         /\ excuse' \subseteq {"seek", "failure", "base", "boundary", "doubled", "unreported"}
<1>1. PICK C : C = chunks'
  OBVIOUS
<1>2. \/ C = chunks \ Deleted(fid) /\ excuse' = excuse
      \/ C = chunks /\ excuse' = excuse \cup {"failure"}
  BY <1>1, StoreIs
<1>3. C \subseteq chunks
  BY <1>2
<1>4. Documents(C, bytes)
  <2>1. bytes \in Nat /\ bytes <= bytes /\ Documents(chunks, bytes)
    BY IInvIs
  <2> QED BY <1>3, <2>1, DocumentsLess
<1>5. C = chunks \ Deleted(fid) => DocsOf(C, fid) = {}
  BY DEF Deleted, Docs, DocsOf
<1>6. excuse' \subseteq {"seek", "failure", "base", "boundary", "doubled", "unreported"}
  BY <1>2, IInvIs DEF Histories
<1> QED BY <1>1, <1>2, <1>3, <1>4, <1>5, <1>6

\* A handle that begins its file anew.
Anew(h, p) == [h EXCEPT !.chunk = NewChunk(0), !.position = 0, !.pc = p]

LEMMA AnewIs ==
  ASSUME IInv, w.rest = <<>>, NEW p \in {"idle", "purge"}, NEW x, x = Anew(w, p)
  PROVE  /\ Sized(x, bytes) /\ x.pc = p /\ x.fid = w.fid /\ x.rest = <<>>
         /\ Lays(x, {}, <<>>)
<1>1. PICK c : c = Blank(FreshId, 0)
  OBVIOUS
<1>2. c \in ChunkObject /\ c.n = 0 /\ c.data = <<>> /\ c.p = 0 /\ Len(c.data) = 0
  BY <1>1, IInvIs, FreshIs, BlankIs
<1>3. x = [w EXCEPT !.chunk = c, !.position = 0, !.pc = p]
  BY <1>1, NewChunkIs DEF Anew
<1>4. w \in Handle /\ bytes \in Nat /\ Len(<<>>) = 0 /\ p \in Places
  BY IInvIs, PlacesAre
<1>5. x \in Handle
  <2>1. PICK rem, z : rem = p /\ z = 0
    OBVIOUS
  <2>2. x = [w EXCEPT !.chunk = c, !.position = z, !.pc = rem] /\ rem \in Places /\ z \in Nat
    BY <1>3, <1>4, <2>1
  <2> QED BY <1>2, <1>4, <2>2 DEF Handle
<1>6. /\ x.pc = p /\ x.chunk = c /\ x.rest = <<>> /\ x.target = w.target
      /\ x.fid = w.fid /\ x.length = w.length /\ x.position = 0
  BY <1>3, <1>4 DEF Handle
<1>7. From(c) = 0
  BY <1>2, FromIs
<1>8. Fits(x, bytes)
  <2>1. PICK b : b = bytes
    OBVIOUS
  <2>2. 0 + 0 + 0 <= b /\ 0 + 0 <= b
    BY <1>4, <2>1
  <2>3. w.length <= bytes /\ w.target <= bytes
    BY IInvIs DEF Fits
  <2> QED BY <1>2, <1>4, <1>6, <1>7, <2>1, <2>2, <2>3 DEF Fits
<1>9. Sized(x, bytes)
  BY <1>5, <1>6, <1>8 DEF Sized, Steps
<1>10. Lays(x, {}, <<>>)
  BY <1>2, <1>6, PlacesAre, FirstLays DEF Lays
<1> QED BY <1>6, <1>9, <1>10

LEMMA TruncateKeeps ==
  ASSUME IInv, Truncate
  PROVE  IInv'
<1>1. /\ w.pc = "truncate" /\ bytes' = bytes /\ opens' = opens /\ files' = files /\ want' = want
      /\ Store(chunks \ Deleted(w.fid))
  BY DEF Truncate
<1>2. w' = [w EXCEPT !.pc = "idle", !.chunk = NewChunk(0), !.position = 0]
  BY DEF Truncate
<1>3. PICK x, C, e : x = w' /\ C = chunks' /\ e = excuse'
  OBVIOUS
<1>4. w.rest = <<>>
  BY <1>1, IInvIs DEF Steps
<1>5. x = Anew(w, "idle")
  BY <1>2, <1>3 DEF Anew
<1>6. Sized(x, bytes) /\ x.pc = "idle" /\ x.fid = w.fid /\ x.rest = <<>> /\ Lays(x, {}, <<>>)
  BY <1>4, <1>5, AnewIs
<1>7. /\ C \subseteq chunks /\ Documents(C, bytes) /\ e \subseteq {"seek", "failure", "base", "boundary", "doubled", "unreported"}
      /\ (e = excuse /\ DocsOf(C, w.fid) = {}) \/ e = excuse \cup {"failure"}
  BY <1>1, <1>3, ClearedIs
<1>8. Owner(C, files, x, opens)
  BY <1>1, <1>6, IInvIs DEF Owner, Opened
<1>9. Histories(want, e, bytes, opens)
  BY <1>7, IInvIs DEF Histories
<1>10. Purged(C, files, x, e)
  BY <1>6 DEF Purged
<1>11. Calm(C, files, x, want, e)
  <2> SUFFICES ASSUME e = {}
               PROVE  Lays(x, DocsOf(C, w.fid), want)
    BY <1>6 DEF Calm, Kept, Closed
  <2>1. excuse = {} /\ DocsOf(C, w.fid) = {}
    BY <1>7
  <2>2. want = <<>>
    BY <1>1, <2>1, IInvIs DEF Calm, Kept
  <2> QED BY <1>6, <2>1, <2>2
<1> QED BY <1>1, <1>3, <1>6, <1>7, <1>8, <1>9, <1>10, <1>11, IInvIs DEF IInv, Inv

LEMMA PurgeKeeps ==
  ASSUME IInv, Purge
  PROVE  IInv'
<1>1. /\ w.pc = "purge" /\ bytes' = bytes /\ opens' = opens /\ files' = files /\ want' = want
      /\ Store(chunks \ Deleted(w.fid)) /\ w' = [w EXCEPT !.pc = "erase"]
  BY DEF Purge
<1>2. PICK x, C, e : x = w' /\ C = chunks' /\ e = excuse'
  OBVIOUS
<1>3. w \in Handle /\ w.rest = <<>>
  BY <1>1, IInvIs DEF Steps
<1>4. x \in Handle
  BY <1>1, <1>2, <1>3, PlacesAre DEF Handle
<1>5. /\ x.pc = "erase" /\ x.chunk = w.chunk /\ x.rest = w.rest /\ x.target = w.target
      /\ x.fid = w.fid /\ x.length = w.length /\ x.position = w.position
  BY <1>1, <1>2, <1>3 DEF Handle
<1>6. Sized(x, bytes)
  BY <1>3, <1>4, <1>5, IInvIs DEF Sized, Fits, Steps
<1>7. /\ C \subseteq chunks /\ Documents(C, bytes) /\ e \subseteq {"seek", "failure", "base", "boundary", "doubled", "unreported"}
      /\ (e = excuse /\ DocsOf(C, w.fid) = {}) \/ e = excuse \cup {"failure"}
  BY <1>1, <1>2, ClearedIs
<1>8. Owner(C, files, x, opens)
  BY <1>1, <1>5, IInvIs DEF Owner, Opened
<1>9. Histories(want, e, bytes, opens)
  BY <1>7, IInvIs DEF Histories
<1>10. Purged(C, files, x, e)
  BY <1>5, <1>7 DEF Purged
<1>11. Calm(C, files, x, want, e)
  BY <1>5 DEF Calm, Kept, Closed
<1> QED BY <1>1, <1>2, <1>6, <1>7, <1>8, <1>9, <1>10, <1>11, IInvIs DEF IInv, Inv

LEMMA DeleteChunksKeeps ==
  ASSUME IInv, DeleteChunks
  PROVE  IInv'
<1>1. /\ w.pc = "delete" /\ bytes' = bytes /\ opens' = opens /\ files' = files /\ want' = want
      /\ Store(chunks \ Deleted(w.fid))
  BY DEF DeleteChunks
<1>2. PICK g : g = [w EXCEPT !.chunk = NewChunk(0), !.position = 0]
  OBVIOUS
<1>3. w' = CASE w.mode = "w"      -> [g EXCEPT !.pc = "idle"]
             [] w.mode = "file"   -> FileChunk(g, 0)
             [] w.mode = "unlink" -> [g EXCEPT !.pc = "purge"]
  BY <1>2 DEF DeleteChunks
<1>4. PICK x, C, e : x = w' /\ C = chunks' /\ e = excuse'
  OBVIOUS
<1>5. /\ w \in Handle /\ w.mode \in {"w", "file", "unlink"} /\ bytes \in Nat
      /\ w.rest = <<>> \/ w.mode = "file"
  <2>1. /\ w \in Handle /\ w.mode \notin {"w+", "file+"} /\ bytes \in Nat
        /\ w.rest = <<>> \/ w.mode \in {"file", "file+"}
    BY <1>1, IInvIs DEF Steps
  <2> QED BY <2>1 DEF Handle
<1>6. /\ w.mode = "w" => x = [g EXCEPT !.pc = "idle"]
      /\ w.mode = "file" => x = FileChunk(g, 0)
      /\ w.mode = "unlink" => x = [g EXCEPT !.pc = "purge"]
  <2>1. "file" # "w" /\ "unlink" # "w" /\ "unlink" # "file"
    OBVIOUS
  <2> QED BY <1>3, <1>4, <2>1, Zenon
<1>7. /\ C \subseteq chunks /\ Documents(C, bytes) /\ e \subseteq {"seek", "failure", "base", "boundary", "doubled", "unreported"}
      /\ (e = excuse /\ DocsOf(C, w.fid) = {}) \/ e = excuse \cup {"failure"}
  BY <1>1, <1>4, ClearedIs
<1>8. Histories(want, e, bytes, opens)
  BY <1>7, IInvIs DEF Histories
<1>9. ASSUME e = {}
      PROVE  DocsOf(C, w.fid) = {} /\ want = w.rest /\ excuse = {}
  <2>1. excuse = {} /\ DocsOf(C, w.fid) = {}
    BY <1>7, <1>9
  <2> QED BY <1>1, <2>1, IInvIs DEF Calm, Kept
<1>10. ASSUME NEW p \in {"idle", "purge"}, w.rest = <<>>, x = [g EXCEPT !.pc = p]
       PROVE  /\ Sized(x, bytes) /\ Owner(C, files, x, opens)
              /\ Purged(C, files, x, e) /\ Calm(C, files, x, want, e)
  <2>1. x = Anew(w, p)
    BY <1>2, <1>10 DEF Anew
  <2>2. Sized(x, bytes) /\ x.pc = p /\ x.fid = w.fid /\ x.rest = <<>> /\ Lays(x, {}, <<>>)
    BY <1>10, <2>1, AnewIs
  <2>3. Owner(C, files, x, opens) /\ Purged(C, files, x, e)
    BY <1>1, <2>2, IInvIs DEF Owner, Opened, Purged
  <2>4. Calm(C, files, x, want, e)
    BY <1>9, <1>10, <2>2 DEF Calm, Kept, Closed
  <2> QED BY <2>2, <2>3, <2>4
<1>11. CASE w.mode = "file"
  <2>1. PICK c : c = Blank(FreshId, 0)
    OBVIOUS
  <2>2. c \in ChunkObject /\ c.n = 0 /\ c.id = FreshId /\ c.data = <<>> /\ c.p = 0 /\ Len(c.data) = 0
    BY <2>1, IInvIs, FreshIs, BlankIs
  <2>3. g = [w EXCEPT !.chunk = c, !.position = 0]
    BY <1>2, <2>1, NewChunkIs
  <2>4. g \in Handle
    BY <1>5, <2>2, <2>3 DEF Handle
  <2>5. /\ g.fid = w.fid /\ g.length = w.length /\ g.target = w.target /\ g.position = 0 /\ g.rest = w.rest
    BY <1>5, <2>3 DEF Handle
  <2>6. x = FileChunk(g, 0)
    BY <1>6, <1>11
  <2>7. /\ g.length <= bytes /\ g.target <= bytes /\ g.position + Len(g.rest) <= bytes
        /\ Len(g.rest) <= bytes
    <3>1. w.length <= bytes /\ w.target <= bytes /\ w.position + Len(w.rest) <= bytes
      BY IInvIs DEF Fits
    <3>2. PICK n, p : n = Len(w.rest) /\ p = w.position
      OBVIOUS
    <3>3. n \in Nat /\ p \in Nat /\ p + n <= bytes
      BY <1>5, <3>1, <3>2, HandleIs
    <3>4. 0 + n <= bytes /\ n <= bytes
      BY <1>5, <3>3
    <3> QED BY <2>5, <3>1, <3>2, <3>4
  <2>8. /\ Sized(x, bytes) /\ x.pc = "remove" /\ x.next = "whole" /\ x.fid = w.fid
        /\ Lays(x, {}, w.rest)
    BY <2>4, <2>5, <2>6, <2>7, FileBegins
  <2>9. Owner(C, files, x, opens) /\ Purged(C, files, x, e)
    BY <1>1, <2>8, IInvIs DEF Owner, Opened, Purged
  <2>10. Calm(C, files, x, want, e)
    BY <1>9, <2>8 DEF Calm, Kept, Closed, Saving
  <2> QED BY <1>1, <1>4, <1>7, <1>8, <2>8, <2>9, <2>10, IInvIs DEF IInv, Inv
<1>12. CASE w.mode \in {"w", "unlink"}
  <2>1. Sized(x, bytes) /\ Owner(C, files, x, opens) /\ Purged(C, files, x, e) /\ Calm(C, files, x, want, e)
    BY <1>5, <1>6, <1>10, <1>12
  <2> QED BY <1>1, <1>4, <1>7, <1>8, <2>1, IInvIs DEF IInv, Inv
<1> QED BY <1>5, <1>11, <1>12

\* What follows a save of a chunk that is now stored.
LEMMA AfterSaveKeeps ==
  ASSUME IInv, NEW h \in Handle, NEW b \in Nat, Fits(h, b), Steps(h), h.pc \in {"remove", "insert"},
         NEW D, NEW v \in Seq(Byte), IsDocs(D), Lays(h, D, v), Saving(h), Last(h, D),
         \A d \in D : d.id # FreshId, NEW x, x = AfterSave(h)
  PROVE  Kept(x, D, v) /\ x.pc \in {"idle", "remove", "unfile", "file"}
<1>1. /\ h.chunk \in ChunkObject /\ h.chunk.n \in Nat /\ h.rest \in Seq(Byte) /\ h.chunk.n + 1 \in Nat
      /\ h.chunk.p \in Nat
  BY HandleIs
<1>2. Laid(h.chunk, h.rest, D, v)
  BY DEF Lays
<1>3. PICK c : c = Blank(FreshId, h.chunk.n + 1)
  OBVIOUS
<1>4. c \in ChunkObject /\ c.id = FreshId /\ c.n = h.chunk.n + 1 /\ c.data = <<>> /\ c.p = 0
  <2>1. FreshId \in Nat
    BY IInvIs, FreshIs
  <2> QED BY <1>1, <1>3, <2>1, BlankIs, SMTT(60)
<1>5. h.chunk.p >= ChunkSize => Laid(c, h.rest, D, v)
  <2> HAVE h.chunk.p >= ChunkSize
  <2>1. PICK k, bs : k = h.chunk /\ bs = h.rest
    OBVIOUS
  <2>2. /\ k \in ChunkObject /\ bs \in Seq(Byte) /\ Laid(k, bs, D, v) /\ k.p >= ChunkSize
        /\ (\E d \in D : d.n = k.n /\ d.data = k.data) /\ c.n = k.n + 1
    BY <1>1, <1>2, <1>4, <2>1 DEF Last
  <2>3. \A d \in D : d.id # c.id
    BY <1>4
  <2>4. Laid(c, bs, D, v)
    BY <1>4, <2>2, <2>3, NextLays
  <2> QED BY <2>1, <2>4
<1>6. CASE h.next = "write"
  <2>1. h.rest # <<>> /\ h.chunk.p >= ChunkSize
    BY <1>6 DEF Saving, Steps
  <2>2. PICK g : g = [h EXCEPT !.chunk = c]
    OBVIOUS
  <2>3. g \in Handle /\ g.chunk = c
    BY <1>4, <2>2 DEF Handle
  <2>4. x = Written(g, h.rest)
    BY <1>3, <1>6, <2>2, AfterSaveIs, NewChunkIs
  <2>5. Laid(g.chunk, h.rest, D, v)
    BY <1>5, <2>1, <2>3
  <2>6. /\ Laid(x.chunk, x.rest, D, v) /\ x.chunk.p > 0 /\ x.pc \in {"idle", "remove"}
        /\ x.pc = "remove" => x.rest # <<>> /\ x.next = "write"
    BY <1>1, <2>1, <2>3, <2>4, <2>5, WrittenLays
  <2>7. Lays(x, D, v) /\ (x.pc = "remove" => Saving(x))
    BY <2>6 DEF Lays, Saving
  <2> QED BY <2>6, <2>7 DEF Kept
<1>7. CASE h.next = "whole" /\ h.rest = <<>>
  <2>1. x = Closing(h)
    BY <1>7, AfterSaveIs
  <2> QED BY <1>7, <2>1, ClosingKeeps
<1>8. CASE h.next = "whole" /\ h.rest # <<>>
  <2>1. h.chunk.p >= ChunkSize
    BY <1>8 DEF Steps
  <2>2. x = FileChunk(h, h.chunk.n + 1)
    BY <1>8, AfterSaveIs
  <2>3. (h.chunk.n + 1) * ChunkSize + Len(h.rest) <= b
    BY <2>1, NextFits
  <2>4. h.length <= b /\ h.target <= b /\ h.position + Len(h.rest) <= b
    BY DEF Fits
  <2>5. Sized(x, b) /\ InChunk(x, h, h.chunk.n + 1, FreshId)
    BY <1>1, <2>2, <2>3, <2>4, IInvIs, FileChunkFits
  <2>6. x \in Handle /\ InChunk(x, h, c.n, c.id)
    BY <1>4, <2>5 DEF Sized
  <2>7. Laid(x.chunk, x.rest, D, v) /\ x.chunk.p > 0
    BY <1>4, <1>5, <1>8, <2>1, <2>6, ChunkLays
  <2>8. x.pc = "remove" /\ x.next = "whole"
    BY <2>6 DEF InChunk
  <2>9. Lays(x, D, v) /\ Saving(x)
    BY <2>7, <2>8 DEF Lays, Saving
  <2> QED BY <2>8, <2>9 DEF Kept
<1>9. CASE h.next = "close"
  <2>1. PICK p : p = IF h.date THEN "unfile" ELSE "file"
    OBVIOUS
  <2>2. x = [h EXCEPT !.pc = p, !.date = TRUE]
    BY <1>9, <2>1, AfterSaveIs
  <2>3. p \in {"unfile", "file"}
    BY <2>1
  <2>4. x.pc = p /\ x.chunk = h.chunk /\ x.rest = h.rest
    BY <2>2 DEF Handle
  <2>5. Lays(x, D, v) /\ Last(x, D)
    BY <2>4 DEF Lays, Last
  <2> QED BY <2>3, <2>4, <2>5 DEF Kept
<1> QED BY <1>6, <1>7, <1>8, <1>9, AfterSaveIs DEF Saving

LEMMA SaveRemoveKeeps ==
  ASSUME IInv, SaveRemove
  PROVE  IInv'
<1>1. /\ w.pc = "remove" /\ bytes' = bytes /\ opens' = opens /\ files' = files /\ want' = want
      /\ excuse' = excuse /\ chunks' = chunks \ Saved(w.chunk)
      /\ w' = IF w.chunk.data # <<>> THEN [w EXCEPT !.pc = "insert"] ELSE AfterSave(w)
  BY DEF SaveRemove
<1>2. PICK x, C, c : x = w' /\ C = chunks' /\ c = w.chunk
  OBVIOUS
<1>3. C = {d \in chunks : d.id # c.id}
  BY <1>1, <1>2 DEF Saved
<1>4. Documents(C, bytes)
  BY <1>3, IInvIs, DocumentsLess
<1>5. w \in Handle /\ bytes \in Nat /\ c \in ChunkObject /\ want \in Seq(Byte) /\ Fits(w, bytes) /\ Steps(w)
  BY <1>2, IInvIs, HandleIs
<1>6. PICK D, E : D = DocsOf(chunks, w.fid) /\ E = DocsOf(C, w.fid)
  OBVIOUS
<1>7. E = {d \in D : d.id # c.id} /\ IsDocs(D)
  BY <1>3, <1>6, IInvIs DEF DocsOf
<1>8. excuse = {} => Lays(w, D, want) /\ Saving(w)
  BY <1>1, <1>6, IInvIs DEF Calm, Kept
<1>9. excuse = {} => Laid(c, w.rest, E, want) /\ (\A d \in E : d.n < c.n /\ d.id # c.id) /\ IsDocs(E)
  <2> HAVE excuse = {}
  <2>1. Laid(c, w.rest, D, want)
    BY <1>2, <1>8 DEF Lays
  <2> QED BY <1>5, <1>7, <2>1, RemoveLays
<1>10. CASE c.data # <<>>
  <2>1. x = [w EXCEPT !.pc = "insert"]
    BY <1>1, <1>2, <1>10
  <2>2. x \in Handle
    BY <1>5, <2>1, PlacesAre DEF Handle
  <2>3. /\ x.pc = "insert" /\ x.chunk = c /\ x.rest = w.rest /\ x.target = w.target /\ x.next = w.next
        /\ x.fid = w.fid /\ x.length = w.length /\ x.position = w.position /\ x.mode = w.mode
    BY <1>2, <1>5, <2>1 DEF Handle
  <2>4. Fits(x, bytes) /\ Steps(x)
    BY <1>1, <1>2, <1>5, <1>10, <2>3 DEF Fits, Steps
  <2>5. Sized(x, bytes)
    BY <2>2, <2>4 DEF Sized
  <2>6. Owner(C, files, x, opens) /\ Purged(C, files, x, excuse)
    BY <1>1, <1>3, <2>3, IInvIs DEF Owner, Opened, Purged
  <2>7. Calm(C, files, x, want, excuse)
    <3> SUFFICES ASSUME excuse = {}
                 PROVE  Lays(x, E, want) /\ Saving(x) /\ \A d \in E : d.n # c.n
      BY <1>6, <2>3 DEF Calm, Kept, Closed
    <3>1. Lays(x, E, want) /\ Saving(x)
      BY <1>2, <1>8, <1>9, <2>3 DEF Lays, Saving
    <3>2. c.n \in Nat /\ ~(c.n < c.n)
      BY <1>5 DEF ChunkObject
    <3> QED BY <1>9, <3>1, <3>2
  <2> QED BY <1>1, <1>2, <1>4, <2>5, <2>6, <2>7, IInvIs DEF IInv, Inv
<1>11. CASE c.data = <<>>
  <2>1. x = AfterSave(w)
    BY <1>1, <1>2, <1>11
  <2>2. Sized(x, bytes) /\ x.fid = w.fid /\ x.pc \in {"idle", "remove", "unfile", "file", "reload"}
    BY <1>1, <1>5, <2>1, IInvIs, AfterSaveFits
  <2>3. Owner(C, files, x, opens) /\ Purged(C, files, x, excuse)
    BY <1>1, <2>2, IInvIs DEF Owner, Opened, Purged
  <2>4. Calm(C, files, x, want, excuse)
    <3> SUFFICES ASSUME excuse = {}
                 PROVE  Kept(x, E, want) /\ x.pc # "reload"
      BY <1>6, <2>2 DEF Calm, Closed
    <3>1. c.p = 0 /\ w.rest = <<>> /\ Lays(w, E, want)
      <4>1. c.p = Len(c.data)
        BY <1>9 DEF Laid
      <4>2. c.p = 0
        BY <1>11, <4>1, PlacesAre, BytesAre
      <4> QED BY <1>2, <1>8, <1>9, <4>2 DEF Lays
    <3>2. w.next = "whole"
      BY <1>2, <1>8, <3>1 DEF Saving
    <3>3. x = Closing(w)
      BY <1>5, <2>1, <3>1, <3>2, AfterSaveIs
    <3> QED BY <1>5, <3>1, <3>3, ClosingKeeps
  <2> QED BY <1>1, <1>2, <1>4, <2>2, <2>3, <2>4, IInvIs DEF IInv, Inv
<1> QED BY <1>10, <1>11

LEMMA SaveInsertKeeps ==
  ASSUME IInv, SaveInsert
  PROVE  IInv'
<1>1. /\ w.pc = "insert" /\ bytes' = bytes /\ opens' = opens /\ files' = files /\ want' = want
      /\ w' = AfterSave(w)
      /\ Store(chunks \cup {[id |-> w.chunk.id, fid |-> w.fid, n |-> w.chunk.n, data |-> w.chunk.data]})
  BY DEF SaveInsert
<1>2. PICK x, C, c, e, u : x = w' /\ C = chunks' /\ c = w.chunk /\ e = excuse' /\ u = Document(c, w.fid)
  OBVIOUS
<1>3. (C = chunks \cup {u} /\ e = excuse) \/ (C = chunks /\ e = excuse \cup {"failure"})
  BY <1>1, <1>2, StoreIs DEF Document
<1>4. w \in Handle /\ bytes \in Nat /\ c \in ChunkObject /\ want \in Seq(Byte) /\ Fits(w, bytes) /\ Steps(w)
  BY <1>2, IInvIs, HandleIs
<1>5. u.id = c.id /\ u.n = c.n /\ u.data = c.data /\ u.fid = w.fid
  BY <1>2 DEF Document
<1>6. c.data # <<>> /\ w.fid \in 1 .. MaxOpens /\ \A d \in chunks : d.id # c.id
  BY <1>1, <1>2, IInvIs DEF Steps, Owner, Opened
<1>7. u \in Kind /\ From(u) + Len(u.data) <= bytes
  <2>1. u \in Kind
    BY <1>2, <1>4, <1>6 DEF Document, Kind, ChunkObject
  <2>2. From(u) = From(c)
    BY <1>5 DEF From
  <2>3. PICK f, n, rem, b : f = From(c) /\ n = Len(c.data) /\ rem = Len(w.rest) /\ b = bytes
    OBVIOUS
  <2>4. f \in Nat /\ n \in Nat /\ rem \in Nat /\ f + n + rem <= b /\ b \in Nat
    BY <1>2, <1>4, <2>3, HandleIs DEF Fits
  <2>5. f + n <= b
    BY <2>4
  <2> QED BY <1>5, <2>1, <2>2, <2>3, <2>5
<1>8. Documents(C, bytes)
  <2>1. Documents(chunks, bytes)
    BY IInvIs
  <2>2. CASE C = chunks \cup {u}
    <3>1. IdsOf(C) = IdsOf(chunks) \cup {u.id}
      BY <2>2 DEF IdsOf
    <3>2. IsFiniteSet(IdsOf(C))
      BY <2>1, <3>1, FS_AddElement DEF Documents
    <3>3. \A d \in C : d \in Kind /\ From(d) + Len(d.data) <= bytes
      BY <1>7, <2>1, <2>2 DEF Documents
    <3>4. \A d, g \in C : d.id = g.id => d = g
      <4> SUFFICES ASSUME NEW d \in C, NEW g \in C, d.id = g.id
                   PROVE  d = g
        OBVIOUS
      <4>1. (d = u \/ d \in chunks) /\ (g = u \/ g \in chunks)
        BY <2>2
      <4> QED BY <1>5, <1>6, <2>1, <4>1 DEF Documents
    <3> QED BY <3>2, <3>3, <3>4 DEF Documents
  <2> QED BY <1>3, <2>1, <2>2
<1>9. Sized(x, bytes) /\ x.fid = w.fid /\ x.pc \in {"idle", "remove", "unfile", "file", "reload"}
  BY <1>1, <1>2, <1>4, IInvIs, AfterSaveFits
<1>10. Owner(C, files, x, opens) /\ Purged(C, files, x, e)
  BY <1>1, <1>9, IInvIs DEF Owner, Opened, Purged
<1>11. Histories(want, e, bytes, opens)
  BY <1>3, IInvIs DEF Histories
<1>12. Calm(C, files, x, want, e)
  <2>1. PICK D, E : D = DocsOf(chunks, w.fid) /\ E = DocsOf(C, w.fid)
    OBVIOUS
  <2> SUFFICES ASSUME e = {}
               PROVE  Kept(x, E, want) /\ x.pc # "reload"
    BY <1>9, <2>1 DEF Calm, Closed
  <2>2. C = chunks \cup {u} /\ excuse = {}
    BY <1>3
  <2>3. Lays(w, D, want) /\ Saving(w) /\ IsDocs(D) /\ (\A d \in D : d.n # c.n)
    BY <1>1, <1>2, <2>1, <2>2, IInvIs DEF Calm, Kept
  <2>4. E = D \cup {u}
    BY <1>5, <2>1, <2>2 DEF DocsOf
  <2>5. Laid(c, w.rest, D, want)
    BY <1>2, <2>3 DEF Lays
  <2>6. \A d \in D : d.n < c.n /\ d.id # c.id
    BY <2>3, <2>5 DEF Laid
  <2>7. /\ Laid(c, w.rest, E, want) /\ IsDocs(E)
        /\ \E d \in E : d.n = c.n /\ d.data = c.data
    BY <1>2, <1>4, <1>6, <2>3, <2>4, <2>5, <2>6, InsertLays
  <2>8. Lays(w, E, want) /\ Last(w, E)
    BY <1>2, <2>3, <2>7 DEF Lays, Last
  <2>9. \A d \in E : d.id # FreshId
    <3>1. (\A d \in chunks : d.id # FreshId) /\ FreshId # c.id
      BY <1>2, IInvIs, FreshIs
    <3>2. \A d \in D : d \in chunks
      BY <2>1 DEF DocsOf
    <3> QED BY <1>5, <2>4, <3>1, <3>2
  <2>10. x = AfterSave(w) /\ w.pc \in {"remove", "insert"}
    BY <1>1, <1>2
  <2>11. Kept(x, E, want) /\ x.pc \in {"idle", "remove", "unfile", "file"}
    BY <1>4, <2>3, <2>7, <2>8, <2>9, <2>10, AfterSaveKeeps
  <2> QED BY <2>11
<1> QED BY <1>1, <1>2, <1>8, <1>9, <1>10, <1>11, <1>12, IInvIs DEF IInv, Inv

LEMMA ReloadKeeps ==
  ASSUME IInv, Reload
  PROVE  IInv'
<1>1. /\ w.pc = "reload" /\ bytes' = bytes /\ opens' = opens /\ chunks' = chunks /\ files' = files
      /\ want' = want /\ excuse' = excuse
  BY DEF Reload
<1>2. PICK q, rem, t : t = w.target /\ q = t \div ChunkSize /\ rem = t % ChunkSize
  OBVIOUS
<1>3. PICK c \in Nth(w.fid, q) :
        w' = [w EXCEPT !.pc = "idle", !.position = t, !.chunk = [c EXCEPT !.p = rem]]
  BY <1>2 DEF Reload
<1>4. PICK d, x : d = [c EXCEPT !.p = rem] /\ x = w'
  OBVIOUS
<1>5. /\ c \in ChunkObject /\ From(c) + Len(c.data) <= bytes
      /\ c.n = q \/ c.n = 0
  BY NthIs
<1>6. /\ w \in Handle /\ bytes \in Nat /\ t \in Nat /\ t <= bytes /\ w.rest = <<>> /\ Len(<<>>) = 0
      /\ Len(c.data) \in Nat /\ From(c) \in Nat /\ ChunkSize \in Nat \ {0}
  BY <1>1, <1>2, <1>5, Constants, IInvIs, HandleIs, FromIs, SMTT(60) DEF Steps, Fits, ChunkObject
<1>7. q \in Nat /\ t = q * ChunkSize + rem /\ q * ChunkSize \in Nat /\ rem \in Nat
  <2>1. q \in Nat /\ rem \in 0 .. ChunkSize - 1 /\ t = q * ChunkSize + rem /\ q * ChunkSize \in Nat
    BY <1>2, <1>6, Division
  <2> QED BY <1>6, <2>1
<1>8. d \in ChunkObject /\ d.n = c.n /\ d.data = c.data /\ d.p = rem
  BY <1>4, <1>5, <1>7 DEF ChunkObject
<1>9. x = [w EXCEPT !.pc = "idle", !.position = t, !.chunk = d]
  BY <1>3, <1>4
<1>10. x \in Handle
  BY <1>6, <1>8, <1>9, PlacesAre DEF Handle
<1>11. /\ x.pc = "idle" /\ x.chunk = d /\ x.rest = <<>> /\ x.target = w.target
       /\ x.fid = w.fid /\ x.length = w.length /\ x.position = t
  BY <1>6, <1>9 DEF Handle
<1>12. Fits(x, bytes)
  <2>1. From(d) = From(c) /\ (From(c) = q * ChunkSize \/ From(c) = 0)
    <3>1. From(d) = From(c) /\ (c.n = q => From(c) = q * ChunkSize)
      BY <1>8 DEF From
    <3>2. c.n = 0 => From(c) = 0
      BY FromIs
    <3> QED BY <1>5, <3>1, <3>2
  <2>2. PICK f, n, b, m : f = From(c) /\ n = Len(c.data) /\ b = bytes /\ m = q * ChunkSize
    OBVIOUS
  <2>3. /\ f \in Nat /\ n \in Nat /\ b \in Nat /\ m \in Nat /\ (f = m \/ f = 0) /\ t = m + rem /\ t <= b
        /\ f + n <= b
    BY <1>5, <1>6, <1>7, <2>1, <2>2
  <2>4. f + rem + 0 <= b /\ f + n + 0 <= b /\ t + 0 <= b
    BY <1>6, <1>7, <2>3
  <2>5. w.target <= bytes /\ w.length <= bytes
    BY IInvIs DEF Fits
  <2> QED BY <1>6, <1>8, <1>11, <2>1, <2>2, <2>4, <2>5 DEF Fits
<1>13. Sized(x, bytes)
  BY <1>10, <1>11, <1>12 DEF Sized, Steps
<1>14. Owner(chunks, files, x, opens) /\ Purged(chunks, files, x, excuse)
  BY <1>1, <1>11, IInvIs DEF Owner, Opened, Purged
<1>15. Calm(chunks, files, x, want, excuse)
  BY <1>1, IInvIs DEF Calm
<1> QED BY <1>1, <1>4, <1>13, <1>14, <1>15, IInvIs DEF IInv, Inv

LEMMA RemoveFileKeeps ==
  ASSUME IInv, RemoveFile
  PROVE  IInv'
<1>1. /\ w.pc = "unfile" /\ bytes' = bytes /\ opens' = opens /\ chunks' = chunks
      /\ files' = {f \in files : f.fid # w.fid} /\ w' = [w EXCEPT !.pc = "file"]
      /\ want' = want /\ excuse' = excuse
  BY DEF RemoveFile
<1>2. PICK x, F : x = w' /\ F = files'
  OBVIOUS
<1>3. w \in Handle /\ w.rest = <<>> /\ bytes \in Nat /\ F \subseteq files
  BY <1>1, <1>2, IInvIs DEF Steps
<1>4. x \in Handle
  BY <1>1, <1>2, <1>3, PlacesAre DEF Handle
<1>5. /\ x.pc = "file" /\ x.chunk = w.chunk /\ x.rest = w.rest /\ x.target = w.target
      /\ x.fid = w.fid /\ x.length = w.length /\ x.position = w.position
  BY <1>1, <1>2, <1>3 DEF Handle
<1>6. Sized(x, bytes) /\ Files(F, bytes)
  BY <1>3, <1>4, <1>5, IInvIs, FilesLess DEF Sized, Fits, Steps
<1>7. Owner(chunks, F, x, opens) /\ Purged(chunks, F, x, excuse)
  BY <1>1, <1>3, <1>5, IInvIs DEF Owner, Opened, Purged
<1>8. Calm(chunks, F, x, want, excuse)
  <2> SUFFICES ASSUME excuse = {}
               PROVE  Lays(x, DocsOf(chunks, w.fid), want) /\ (want # <<>> => Last(x, DocsOf(chunks, w.fid)))
    BY <1>5 DEF Calm, Kept, Closed
  <2>1. Lays(w, DocsOf(chunks, w.fid), want) /\ (want # <<>> => Last(w, DocsOf(chunks, w.fid)))
    BY <1>1, IInvIs DEF Calm, Kept
  <2> QED BY <1>5, <2>1 DEF Lays, Last
<1> QED BY <1>1, <1>2, <1>6, <1>7, <1>8, IInvIs DEF IInv, Inv

LEMMA LeftIs ==
  ASSUME IInv, NEW p \in {"closed", "failed", "unlinked"}, NEW x, x = Left(p)
  PROVE  Sized(x, bytes) /\ x.pc = p /\ x.fid = w.fid
<1>1. /\ NoHandle \in Handle /\ Fits(NoHandle, bytes) /\ w.fid \in Nat
      /\ NoHandle.rest = <<>>
  BY IInvIs, NoHandleFits, HandleIs DEF Sized, NoHandle
<1>2. PICK rem : rem = p
  OBVIOUS
<1>3. rem \in Places /\ x = [NoHandle EXCEPT !.pc = rem, !.fid = w.fid]
  BY <1>2, PlacesAre DEF Left
<1>4. x \in Handle
  BY <1>1, <1>3 DEF Handle
<1>5. /\ x.pc = rem /\ x.chunk = NoHandle.chunk /\ x.rest = NoHandle.rest /\ x.target = NoHandle.target
      /\ x.fid = w.fid /\ x.length = NoHandle.length /\ x.position = NoHandle.position
  BY <1>1, <1>3 DEF Handle
<1>6. Fits(x, bytes) /\ Steps(x)
  BY <1>1, <1>2, <1>5 DEF Fits, Steps
<1> QED BY <1>2, <1>4, <1>5, <1>6 DEF Sized

\* The length close stores is the number of bytes that were written.
LEMMA SaveFileKeeps ==
  ASSUME IInv, SaveFile
  PROVE  IInv'
<1>1. /\ w.pc = "file" /\ bytes' = bytes /\ opens' = opens /\ chunks' = chunks /\ want' = want
  BY DEF SaveFile
<1>2. PICK x, F, g, e : /\ x = w' /\ F = files' /\ e = excuse'
                        /\ g = [fid |-> w.fid, length |-> FileLength(w)]
  OBVIOUS
<1>3. \/ F = {f \in files : f.fid # w.fid} \cup {g} /\ x = Left("closed") /\ e = excuse
      \/ F = files /\ x = Left("failed") /\ e = excuse
      \/ F = files /\ x = Left("closed") /\ e = excuse \cup {"unreported"}
  BY <1>2 DEF SaveFile
<1>4. /\ w \in Handle /\ bytes \in Nat /\ w.rest = <<>> /\ w.fid \in 1 .. MaxOpens
      /\ \A f \in files : f.fid = w.fid
  BY <1>1, IInvIs DEF Steps, Owner, Opened
<1>5. Sized(x, bytes) /\ x.fid = w.fid /\ x.pc \in {"closed", "failed"} /\ (F # files => x.pc = "closed")
  BY <1>3, LeftIs
<1>6. Owner(chunks, F, x, opens) /\ Purged(chunks, F, x, e)
  BY <1>5, IInvIs DEF Owner, Opened, Purged
<1>7. Histories(want, e, bytes, opens)
  <2>1. e \subseteq {"seek", "failure", "base", "boundary", "doubled", "unreported"}
    BY <1>3, IInvIs DEF Histories
  <2> QED BY <2>1, IInvIs DEF Histories
<1>8. CASE F = files /\ x = Left("failed") /\ e = excuse
  <2>1. x.pc = "failed"
    BY <1>8, LeftIs
  <2>2. Calm(chunks, F, x, want, e)
    BY <2>1 DEF Calm, Kept, Closed
  <2> QED BY <1>1, <1>2, <1>5, <1>6, <1>7, <1>8, <2>2, IInvIs DEF IInv, Inv
<1>9. CASE F = files /\ x = Left("closed") /\ e = excuse \cup {"unreported"}
  <2>1. e # {}
    BY <1>9
  <2>2. Calm(chunks, F, x, want, e)
    BY <2>1 DEF Calm
  <2> QED BY <1>1, <1>2, <1>5, <1>6, <1>7, <1>9, <2>2, IInvIs DEF IInv, Inv
<1>10. CASE F = {f \in files : f.fid # w.fid} \cup {g} /\ x = Left("closed") /\ e = excuse
  <2>1. F = {g} /\ g.fid = w.fid /\ g.length = FileLength(w)
    BY <1>2, <1>4, <1>10
  <2>2. FileLength(w) = From(w.chunk) + w.chunk.p
    BY DEF FileLength, From
  <2>3. FileLength(w) \in Nat /\ FileLength(w) <= bytes
    <3>1. PICK f, p, n : f = From(w.chunk) /\ p = w.chunk.p /\ n = FileLength(w)
      OBVIOUS
    <3>2. f \in Nat /\ p \in Nat /\ f + p + 0 <= bytes /\ n = f + p
      <4>1. Len(w.rest) = 0
        BY <1>4
      <4> QED BY <1>4, <2>2, <3>1, <4>1, IInvIs, HandleIs DEF Fits
    <3> QED BY <1>4, <3>1, <3>2
  <2>4. Files(F, bytes)
    <3>1. g \in [fid : 1 .. MaxOpens, length : Nat]
      BY <1>2, <1>4, <2>3
    <3> QED BY <2>1, <2>3, <3>1 DEF Files
  <2>5. Calm(chunks, F, x, want, e)
    <3>1. PICK D : D = DocsOf(chunks, w.fid)
      OBVIOUS
    <3>2. x.pc = "closed"
      BY <1>10, LeftIs
    <3> SUFFICES ASSUME excuse = {}
                 PROVE  g.length = Len(want) /\ (want # <<>> => Stored(D, want))
      BY <1>5, <1>10, <2>1, <3>1, <3>2 DEF Calm, Kept, Closed
    <3>3. Laid(w.chunk, <<>>, D, want) /\ (want # <<>> => Last(w, D)) /\ IsDocs(D)
      BY <1>1, <1>4, <3>1, IInvIs DEF Calm, Kept, Lays
    <3>4. g.length = Len(want)
      <4>1. PICK f, p, n : f = From(w.chunk) /\ p = w.chunk.p /\ n = FileLength(w)
        OBVIOUS
      <4>2. f \in Nat /\ p \in Nat /\ n = f + p /\ Len(<<>>) = 0
        BY <1>4, <2>2, <4>1, HandleIs
      <4>3. Len(want) = f + p + 0
        BY <3>3, <4>1, <4>2 DEF Laid
      <4> QED BY <2>1, <4>1, <4>2, <4>3
    <3>5. want # <<>> => Stored(D, want)
      <4> HAVE want # <<>>
      <4>1. PICK d \in D : d.n = w.chunk.n /\ d.data = w.chunk.data
        BY <3>3 DEF Last
      <4>2. w.chunk.data # <<>> /\ w.chunk \in ChunkObject
        BY <1>4, <3>3, <4>1, HandleIs DEF IsDocs
      <4> QED BY <3>3, <4>1, <4>2, EndsStored
    <3> QED BY <3>4, <3>5
  <2> QED BY <1>1, <1>2, <1>5, <1>6, <1>7, <1>10, <2>4, <2>5, IInvIs DEF IInv, Inv
<1> QED BY <1>3, <1>8, <1>9, <1>10

LEMMA EraseKeeps ==
  ASSUME IInv, Erase
  PROVE  IInv'
<1>1. /\ w.pc = "erase" /\ bytes' = bytes /\ opens' = opens /\ chunks' = chunks
      /\ files' = {f \in files : f.fid # w.fid} /\ w' = Left("unlinked")
      /\ want' = want /\ excuse' = excuse
  BY DEF Erase
<1>2. PICK x, F : x = w' /\ F = files'
  OBVIOUS
<1>3. Sized(x, bytes) /\ x.fid = w.fid /\ x.pc = "unlinked"
  BY <1>1, <1>2, LeftIs
<1>4. F = {}
  BY <1>1, <1>2, IInvIs DEF Owner, Opened
<1>5. Owner(chunks, F, x, opens) /\ Files(F, bytes)
  BY <1>3, <1>4, IInvIs DEF Owner, Opened, Files
<1>6. Purged(chunks, F, x, excuse)
  BY <1>1, <1>3, <1>4, IInvIs DEF Purged
<1>7. Calm(chunks, F, x, want, excuse)
  BY <1>3 DEF Calm, Kept, Closed
<1> QED BY <1>1, <1>2, <1>3, <1>5, <1>6, <1>7, IInvIs DEF IInv, Inv

LEMMA NextKeeps ==
  ASSUME IInv, GridNext \/ UNCHANGED gridVars
  PROVE  IInv'
<1>1. CASE UNCHANGED gridVars
  BY <1>1 DEF gridVars, IInv
<1>2. CASE Die
  BY <1>2, DieKeeps
<1>3. CASE Call
  <2>1. ASSUME NEW m \in {"w", "w+", "file", "file+", "unlink"}, NEW k \in 0 .. MaxWrite, Open(m, k)
        PROVE  IInv'
    BY <2>1, OpenKeeps
  <2>2. ASSUME NEW k \in 1 .. MaxWrite, Write(k)
        PROVE  IInv'
    BY <2>2, WriteKeeps
  <2>3. ASSUME NEW to \in 0 .. w.position, Seek(to)
        PROVE  IInv'
    BY <2>3, SeekKeeps
  <2> QED BY <1>3, <2>1, <2>2, <2>3, RewindKeeps, CloseKeeps, UnlinkKeeps DEF Call
<1>4. CASE Reply
  BY <1>4, FindFileKeeps, LoadKeeps, DeleteChunksKeeps, SaveRemoveKeeps, SaveInsertKeeps, ReloadKeeps,
     TruncateKeeps, RemoveFileKeeps, SaveFileKeeps, PurgeKeeps, EraseKeeps DEF Reply
<1> QED BY <1>1, <1>2, <1>3, <1>4 DEF GridNext

LEMMA IInvTypes ==
  ASSUME IInv
  PROVE  GridTypeOK
<1>1. \A c \in chunks : c \in [id : Nat, fid : 1 .. MaxOpens, n : Nat, data : Seq(Byte) \ {<<>>}]
  BY IInvIs DEF Documents, Kind
<1>2. \A c, d \in chunks : c.id = d.id => c = d
  BY IInvIs DEF Documents
<1>3. bytes \in Nat /\ MaxBytes \in Nat /\ bytes <= MaxBytes
  BY IInvIs, Constants
<1>4. \A f \in files : f \in [fid : 1 .. MaxOpens, length : 0 .. MaxBytes]
  <2> SUFFICES ASSUME NEW f \in files
               PROVE  f \in [fid : 1 .. MaxOpens, length : 0 .. MaxBytes]
    OBVIOUS
  <2>1. f \in [fid : 1 .. MaxOpens, length : Nat] /\ f.length <= bytes
    BY IInvIs DEF Files
  <2>2. f.length \in 0 .. MaxBytes
    BY <1>3, <2>1
  <2> QED BY <2>1, <2>2
<1>5. Cardinality(files) <= 1
  <2>1. CASE files = {}
    BY <2>1, FS_EmptySet
  <2>2. CASE files # {}
    <3>1. PICK f : f \in files
      BY <2>2
    <3>2. files = {f}
      BY <3>1, IInvIs DEF Files
    <3> QED BY <3>2, FS_Singleton
  <2> QED BY <2>1, <2>2
<1>6. PICK P, N : P = Places /\ N = Nexts
  OBVIOUS
<1>7. w.fid \in 0 .. MaxOpens
  BY IInvIs DEF Owner
<1>8. w.length \in 0 .. MaxBytes /\ w.target \in 0 .. MaxBytes /\ w.position \in 0 .. MaxBytes
  <2>1. w.length <= bytes /\ w.target <= bytes /\ w.position + Len(w.rest) <= bytes
    BY IInvIs DEF Fits
  <2>2. w.length \in Nat /\ w.target \in Nat /\ w.position \in Nat /\ Len(w.rest) \in Nat
    BY IInvIs, HandleIs
  <2> QED BY <1>3, <2>1, <2>2
<1>9. w \in [pc : P, mode : {"w", "w+", "file", "file+", "unlink"}, fid : 0 .. MaxOpens, length : 0 .. MaxBytes,
             date : BOOLEAN, position : 0 .. MaxBytes, chunk : ChunkObject,
             rest : Seq(Byte), next : N, target : 0 .. MaxBytes]
  <2>1. w \in [pc : P, mode : {"w", "w+", "file", "file+", "unlink"}, fid : Nat, length : Nat, date : BOOLEAN,
               position : Nat, chunk : ChunkObject, rest : Seq(Byte), next : N, target : Nat]
    BY <1>6, IInvIs DEF Handle
  <2> QED BY <1>7, <1>8, <2>1
<1> QED BY <1>1, <1>2, <1>4, <1>5, <1>6, <1>9, IInvIs DEF GridTypeOK, Places, Nexts, Histories

-----------------------------------------------------------------------------
(* Theorems: writing                                                       *)

\* While nothing excuses it, the chunks an object has saved, the one it has in
\* hand and the bytes it has still to write are what the program gave it, at
\* every one of its database operations (_open, Chunk.save, write, writeFile,
\* close, rewind of gridstore.js and chunk.js).
THEOREM GridInvariant ==
  GridSpec => []IInv
<1>1. GridInit => IInv
  BY InitHolds
<1>2. IInv /\ [GridNext]_gridVars => IInv'
  BY NextKeeps
<1> QED BY <1>1, <1>2, PTL DEF GridSpec

\* The documents and the objects of GridFS are of their kinds, within the bytes
\* that were written, and no two documents have one _id: save of chunk.js
\* removes the one it replaces.
THEOREM GridTypes ==
  GridSpec => []GridTypeOK
<1>1. IInv => GridTypeOK
  BY IInvTypes
<1> QED BY <1>1, GridInvariant, PTL

\* A file that is closed has the chunks its length calls for, each once and no
\* other, and nothing of a file is left once unlink calls back.
THEOREM NoStrays ==
  GridSpec => []NoStrayChunks
<1>1. IInv => NoStrayChunks
  <2> SUFFICES ASSUME IInv
               PROVE  NoStrayChunks
    OBVIOUS
  <2>1. ASSUME w.pc = "closed", excuse = {}, want # <<>>, NEW f \in files
        PROVE  Intact(f)
    <3>1. f.fid = w.fid /\ f.length = Len(want) /\ Stored(DocsOf(chunks, w.fid), want)
      BY <2>1, IInvIs DEF Calm, Closed
    <3> QED BY <3>1, IInvIs, StoredIntact
  <2>2. ASSUME w.pc = "unlinked", "failure" \notin excuse
        PROVE  files = {} /\ Docs(w.fid) = {}
    BY <2>2, IInvIs DEF Purged
  <2> QED BY <2>1, <2>2 DEF NoStrayChunks
<1> QED BY <1>1, GridInvariant, PTL

\* A file that was written and closed reads as the bytes that were written,
\* after those it held when it was opened to append.
THEOREM HoldsWritten ==
  GridSpec => []ClosedHoldsWritten
<1>1. IInv => ClosedHoldsWritten
  <2> SUFFICES ASSUME IInv, w.pc = "closed", excuse = {}
               PROVE  {Content(f) : f \in files} = {want}
    BY DEF ClosedHoldsWritten
  <2>1. PICK f \in files : /\ files = {f} /\ f.fid = w.fid /\ f.length = Len(want)
                           /\ want # <<>> => Stored(DocsOf(chunks, w.fid), want)
    BY IInvIs DEF Calm, Closed
  <2>2. Content(f) = want
    <3>1. want \in Seq(Byte) /\ IsDocs(Docs(f.fid)) /\ Docs(f.fid) = DocsOf(chunks, w.fid)
      BY <2>1, IInvIs
    <3>2. CASE want = <<>>
      <4>1. f.length = 0 /\ f.length \in Nat
        BY <2>1, <3>2
      <4>2. Content(f) \in Seq(Byte) /\ Len(Content(f)) = 0
        BY <3>1, <4>1, ContentType
      <4> QED BY <3>2, <4>2, BytesAre
    <3>3. CASE want # <<>>
      BY <2>1, <3>1, <3>3, StoredIntact
    <3> QED BY <3>2, <3>3
  <2> QED BY <2>1, <2>2
<1> QED BY <1>1, GridInvariant, PTL


-----------------------------------------------------------------------------
(* What a reading call takes of a chunk.  v: the content of the file.      *)

\* Chunk c is a whole chunk of v, or the empty one that stands for a missing one.
Whole(c, v) ==
  From(c) < Len(v) /\ Len(c.data) = Least(ChunkSize, Len(v) - From(c)) /\ Piece(c, v)

InHand(c, v) == Whole(c, v) \/ (c.n = 0 /\ c.data = <<>>)

\* g is a piece of v that begins after a bytes.
Matches(g, v, a) == a + Len(g) <= Len(v) /\ \A i \in 1 .. Len(g) : g[i] = v[a + i]

\* g is q bytes of v that begin after a bytes, or as many as there are.
Exactly(g, v, a, q) == g = SubSeq(v, a + 1, Least(a + q, Len(v)))

LEMMA EmptyMatches ==
  ASSUME NEW v \in Seq(Byte), NEW a \in Nat, a <= Len(v)
  PROVE  Matches(<<>>, v, a)
BY DEF Matches

LEMMA MoreMatches ==
  ASSUME NEW g \in Seq(Byte), NEW v \in Seq(Byte), NEW a \in Nat, Matches(g, v, a),
         NEW b \in Seq(Byte), a + Len(g) + Len(b) <= Len(v),
         \A i \in 1 .. Len(b) : b[i] = v[a + Len(g) + i]
  PROVE  Matches(g \o b, v, a) /\ g \o b \in Seq(Byte) /\ Len(g \o b) = Len(g) + Len(b)
<1>1. PICK u : u = g \o b
  OBVIOUS
<1>2. /\ u \in Seq(Byte) /\ Len(u) = Len(g) + Len(b)
      /\ \A i \in 1 .. Len(g) : u[i] = g[i]
      /\ \A i \in 1 .. Len(b) : u[Len(g) + i] = b[i]
  BY <1>1, Joined
<1>3. Len(g) \in Nat /\ Len(b) \in Nat
  OBVIOUS
<1>4. ASSUME NEW i \in 1 .. Len(u)
      PROVE  u[i] = v[a + i]
  <2>1. CASE i <= Len(g)
    BY <1>2, <1>3, <2>1 DEF Matches
  <2>2. CASE ~(i <= Len(g))
    <3>1. PICK j : j = i - Len(g)
      OBVIOUS
    <3>2. j \in 1 .. Len(b) /\ Len(g) + j = i /\ a + Len(g) + j = a + i
      BY <1>2, <1>3, <2>2, <3>1
    <3>3. u[Len(g) + j] = b[j] /\ b[j] = v[a + Len(g) + j]
      BY <1>2, <3>2
    <3> QED BY <3>2, <3>3
  <2> QED BY <2>1, <2>2
<1>5. a + Len(u) <= Len(v)
  BY <1>2, <1>3
<1> QED BY <1>1, <1>2, <1>4, <1>5 DEF Matches

\* A piece of k bytes is the subsequence.
LEMMA MatchIs ==
  ASSUME NEW g \in Seq(Byte), NEW v \in Seq(Byte), NEW a \in Nat, Matches(g, v, a)
  PROVE  g = SubSeq(v, a + 1, a + Len(g))
<1>1. PICK n : n = Len(g)
  OBVIOUS
<1>2. PICK N : N = Len(v)
  OBVIOUS
<1>3. n \in Nat /\ N \in Nat /\ a + n <= N /\ (\A i \in 1 .. n : g[i] = v[a + i])
  BY <1>1, <1>2 DEF Matches
<1>4. \A i \in 1 .. N : v[i] \in Byte
  BY <1>2
<1>5. \A i \in a + 1 .. a + n : v[i] \in Byte
  BY <1>3, <1>4
<1>6. PICK u : u = SubSeq(v, a + 1, a + n)
  OBVIOUS
<1>7. /\ u \in Seq(Byte) /\ Len(u) = IF a + 1 <= a + n THEN a + n - (a + 1) + 1 ELSE 0
      /\ \A i \in 1 .. a + n - (a + 1) + 1 : u[i] = v[a + 1 + i - 1]
  BY <1>3, <1>5, <1>6, SubSeqProperties
<1>8. Len(u) = n /\ a + n - (a + 1) + 1 = n
  BY <1>3, <1>7
<1>9. ASSUME NEW i \in 1 .. n
      PROVE  u[i] = g[i]
  <2>1. i \in 1 .. a + n - (a + 1) + 1 /\ a + 1 + i - 1 = a + i
    BY <1>3
  <2> QED BY <1>3, <1>7, <2>1
<1>10. Len(u) = Len(g) /\ \A i \in 1 .. Len(u) : u[i] = g[i]
  BY <1>1, <1>8, <1>9
<1>11. u = g
  BY <1>7, <1>10, SeqEqual
<1> QED BY <1>1, <1>6, <1>11

LEMMA ExactlyIs ==
  ASSUME NEW g \in Seq(Byte), NEW v \in Seq(Byte), NEW a \in Nat, Matches(g, v, a), NEW q,
         a + Len(g) = Least(a + q, Len(v))
  PROVE  Exactly(g, v, a, q)
<1>1. g = SubSeq(v, a + 1, a + Len(g))
  BY MatchIs
<1> QED BY <1>1 DEF Exactly

\* k bytes of chunk c that has them, from its head on.
LEMMA Taken ==
  ASSUME NEW c \in ChunkObject, NEW k \in Nat, c.p + k <= Len(c.data)
  PROVE  /\ SubSeq(c.data, c.p + 1, c.p + k) \in Seq(Byte)
         /\ Len(SubSeq(c.data, c.p + 1, c.p + k)) = k
         /\ \A i \in 1 .. k : SubSeq(c.data, c.p + 1, c.p + k)[i] = c.data[c.p + i]
<1>1. PICK d : d = c.data
  OBVIOUS
<1>2. PICK p : p = c.p
  OBVIOUS
<1>3. PICK N : N = Len(d)
  OBVIOUS
<1>4. d \in Seq(Byte) /\ p \in Nat /\ N \in Nat /\ p + k <= N
  BY <1>1, <1>2, <1>3 DEF ChunkObject
<1>5. \A i \in 1 .. N : d[i] \in Byte
  BY <1>3, <1>4
<1>6. \A i \in p + 1 .. p + k : d[i] \in Byte
  BY <1>4, <1>5
<1>7. PICK u : u = SubSeq(d, p + 1, p + k)
  OBVIOUS
<1>8. /\ u \in Seq(Byte) /\ Len(u) = IF p + 1 <= p + k THEN p + k - (p + 1) + 1 ELSE 0
      /\ \A i \in 1 .. p + k - (p + 1) + 1 : u[i] = d[p + 1 + i - 1]
  BY <1>4, <1>6, <1>7, SubSeqProperties
<1>9. Len(u) = k
  BY <1>4, <1>8
<1>10. ASSUME NEW i \in 1 .. k
       PROVE  u[i] = d[p + i]
  <2>1. i \in 1 .. p + k - (p + 1) + 1 /\ p + 1 + i - 1 = p + i
    BY <1>4
  <2> QED BY <1>8, <2>1
<1> QED BY <1>1, <1>2, <1>7, <1>8, <1>9, <1>10

\* Whatever the head is, Binary.read returns no more than it is asked for.
LEMMA BytesType ==
  ASSUME NEW c \in ChunkObject, NEW k \in Nat, NEW b \in Bytes(c, k)
  PROVE  /\ b \in Seq(Byte) /\ Len(b) \in Nat /\ Len(b) <= k
         /\ c.p + k <= Len(c.data) => b = SubSeq(c.data, c.p + 1, c.p + k)
<1>1. PICK d : d = c.data
  OBVIOUS
<1>2. PICK p : p = c.p
  OBVIOUS
<1>3. PICK N : N = Len(d)
  OBVIOUS
<1>4. d \in Seq(Byte) /\ p \in Nat /\ N \in Nat
  BY <1>1, <1>2, <1>3 DEF ChunkObject
<1>5. PICK e : e = Least(p + k, N)
  OBVIOUS
<1>6. e \in Nat /\ e <= N /\ e <= p + k /\ (p + k <= N => e = p + k)
  BY <1>4, <1>5 DEF Least
<1>7. \A i \in 1 .. N : d[i] \in Byte
  BY <1>3, <1>4
<1>8. \A i \in p + 1 .. e : d[i] \in Byte
  BY <1>4, <1>6, <1>7
<1>9. PICK u : u = SubSeq(d, p + 1, e)
  OBVIOUS
<1>10. u \in Seq(Byte) /\ Len(u) = IF p + 1 <= e THEN e - (p + 1) + 1 ELSE 0
  BY <1>4, <1>6, <1>8, <1>9, SubSeqProperties
<1>11. Len(u) \in Nat /\ Len(u) <= k /\ (p + k <= N => Len(u) = k)
  BY <1>4, <1>6, <1>10
<1>12. PICK z : z = [i \in 1 .. k - Len(u) |-> 0]
  OBVIOUS
<1>13. k - Len(u) \in Nat
  BY <1>11
<1>14. 0 \in Byte
  BY Constants DEF Byte
<1>15. z \in Seq(Byte) /\ Len(z) = k - Len(u)
  BY <1>12, <1>13, <1>14
<1>16. u \o z \in Seq(Byte) /\ Len(u \o z) = Len(u) + Len(z)
  BY <1>10, <1>15, Joined
<1>17. b = u \/ b = u \o z
  BY <1>1, <1>2, <1>3, <1>5, <1>9, <1>12 DEF Bytes
<1>18. b \in Seq(Byte) /\ Len(b) \in Nat /\ Len(b) <= k
  <2>1. Len(u \o z) = k
    BY <1>11, <1>15, <1>16
  <2>2. CASE b = u
    BY <1>10, <1>11, <2>2
  <2>3. CASE b = u \o z
    BY <1>16, <2>1, <2>3
  <2> QED BY <1>17, <2>2, <2>3
<1>19. ASSUME p + k <= N
       PROVE  b = SubSeq(d, p + 1, p + k)
  <2>1. Len(z) = 0
    BY <1>11, <1>15, <1>19
  <2>2. z = <<>>
    BY <1>15, <2>1
  <2>3. u \o z = u
    BY <1>10, <2>2, ConcatEmptySeq
  <2> QED BY <1>6, <1>9, <1>17, <1>19, <2>3
<1> QED BY <1>1, <1>2, <1>3, <1>18, <1>19

\* The bytes that a chunk has, when it is asked for them.
LEMMA BytesTaken ==
  ASSUME NEW c \in ChunkObject, NEW k \in Nat, NEW b \in Bytes(c, k), c.p + k <= Len(c.data)
  PROVE  b \in Seq(Byte) /\ Len(b) = k /\ \A i \in 1 .. k : b[i] = c.data[c.p + i]
<1>1. b = SubSeq(c.data, c.p + 1, c.p + k)
  BY BytesType
<1> QED BY <1>1, Taken

LEMMA ReadType ==
  ASSUME NEW c \in ChunkObject, NEW k \in Nat, NEW b \in ChunkRead(c, k)
  PROVE  /\ b \in Seq(Byte) /\ Len(b) \in Nat
         /\ ~Holds(c, k) => b = <<>>
         /\ Holds(c, k) => b \in Bytes(c, IF k > 0 THEN k ELSE Len(c.data))
         /\ Len(b) <= IF k > 0 THEN k ELSE Len(c.data)
<1>1. CASE Holds(c, k)
  <2>1. PICK j : j = IF k > 0 THEN k ELSE Len(c.data)
    OBVIOUS
  <2>2. j \in Nat
    BY <2>1 DEF ChunkObject
  <2>3. b \in Bytes(c, j)
    BY <1>1, <2>1 DEF ChunkRead
  <2>4. b \in Seq(Byte) /\ Len(b) \in Nat /\ Len(b) <= j
    BY <2>2, <2>3, BytesType
  <2> QED BY <1>1, <2>1, <2>3, <2>4
<1>2. CASE ~Holds(c, k)
  <2>1. b = <<>>
    BY <1>2 DEF ChunkRead
  <2>2. b \in Seq(Byte) /\ Len(b) = 0 /\ Len(c.data) \in Nat
    BY <2>1 DEF ChunkObject
  <2> QED BY <1>2, <2>1, <2>2
<1> QED BY <1>1, <1>2

\* The head moves, and nothing else.
LEMMA AdvanceIs ==
  ASSUME NEW c \in ChunkObject, NEW k \in Nat, NEW d, d = Advance(c, k)
  PROVE  /\ d \in ChunkObject /\ d.n = c.n /\ d.data = c.data
         /\ d.p = IF Holds(c, k) THEN c.p + k ELSE c.p
<1>1. c.id \in Nat /\ c.n \in Nat /\ c.p \in Nat /\ c.data \in Seq(Byte)
      /\ c = [id |-> c.id, n |-> c.n, data |-> c.data, p |-> c.p]
  BY DEF ChunkObject
<1>2. PICK j : j = c.p + k
  OBVIOUS
<1>3. j \in Nat
  BY <1>1, <1>2
<1>4. CASE Holds(c, k)
  <2>1. d = [id |-> c.id, n |-> c.n, data |-> c.data, p |-> j]
    BY <1>1, <1>2, <1>4 DEF Advance
  <2> QED BY <1>1, <1>2, <1>3, <1>4, <2>1 DEF ChunkObject
<1>5. CASE ~Holds(c, k)
  BY <1>5 DEF Advance
<1> QED BY <1>4, <1>5

LEMMA FetchedType ==
  ASSUME IInv, NEW k \in Nat, NEW c \in Fetched(k)
  PROVE  c \in ChunkObject /\ c.p = 0 /\ Len(c.data) \in Nat /\ Len(c.data) <= MaxBytes
<1>1. PICK e \in Nth(r.fid, k) : c = [e EXCEPT !.id = 0]
  BY DEF Fetched
<1>2. e \in ChunkObject /\ e.p = 0 /\ From(e) + Len(e.data) <= bytes
  BY <1>1, NthIs
<1>3. /\ e.n \in Nat /\ e.data \in Seq(Byte) /\ Len(e.data) \in Nat
      /\ e = [id |-> e.id, n |-> e.n, data |-> e.data, p |-> e.p]
  BY <1>2 DEF ChunkObject
<1>4. From(e) \in Nat
  BY <1>3, FromIs
<1>5. c = [id |-> 0, n |-> e.n, data |-> e.data, p |-> e.p]
  BY <1>1, <1>3
<1>6. bytes \in Nat /\ bytes <= MaxBytes
  BY IInvIs
<1>7. Len(e.data) <= MaxBytes
  BY <1>2, <1>3, <1>4, <1>6, Constants
<1> QED BY <1>2, <1>3, <1>5, <1>7 DEF ChunkObject

\* What is found of an intact file.
LEMMA FetchedIs ==
  ASSUME IInv, NEW k \in Nat, NEW c \in Fetched(k), NEW v \in Seq(Byte), Stored(Docs(r.fid), v)
  PROVE  /\ InHand(c, v)
         /\ k * ChunkSize < Len(v) => Whole(c, v) /\ c.n = k
<1>1. PICK e \in Nth(r.fid, k) : c = [e EXCEPT !.id = 0]
  BY DEF Fetched
<1>2. e \in ChunkObject
  BY <1>1, NthIs
<1>3. e = [id |-> e.id, n |-> e.n, data |-> e.data, p |-> e.p]
  BY <1>2 DEF ChunkObject
<1>4. c.n = e.n /\ c.data = e.data
  BY <1>1, <1>3
<1>5. \/ \E g \in Docs(r.fid) : g.n = k /\ e.n = g.n /\ e.data = g.data
      \/ e.n = 0 /\ e.data = <<>> /\ \A g \in Docs(r.fid) : g.n # k
  BY <1>1, NthIs
<1>6. CASE \E g \in Docs(r.fid) : g.n = k /\ e.n = g.n /\ e.data = g.data
  <2>1. PICK g \in Docs(r.fid) : g.n = k /\ e.n = g.n /\ e.data = g.data
    BY <1>6
  <2>2. From(g) < Len(v) /\ Len(g.data) = Least(ChunkSize, Len(v) - From(g)) /\ Piece(g, v)
    BY DEF Stored
  <2>3. c.n = g.n /\ c.data = g.data /\ From(c) = From(g)
    BY <1>4, <2>1 DEF From
  <2>4. Whole(c, v)
    BY <2>2, <2>3 DEF Whole, Piece
  <2> QED BY <2>1, <2>3, <2>4 DEF InHand
<1>7. CASE e.n = 0 /\ e.data = <<>> /\ \A g \in Docs(r.fid) : g.n # k
  <2>1. ~(k * ChunkSize < Len(v))
    BY <1>7 DEF Stored
  <2> QED BY <1>4, <1>7, <2>1 DEF InHand
<1> QED BY <1>5, <1>6, <1>7

\* A chunk that the file has, or the empty one of a file without any.
LEMMA InIs ==
  ASSUME NEW c \in ChunkObject, NEW v \in Seq(Byte), InHand(c, v), c.data = <<>> => v = <<>>
  PROVE  /\ From(c) \in Nat /\ Len(c.data) \in Nat /\ Len(v) \in Nat
         /\ From(c) + Len(c.data) <= Len(v) /\ Len(c.data) <= ChunkSize
         /\ From(c) + Len(c.data) < Len(v) => Whole(c, v) /\ Len(c.data) = ChunkSize
         /\ \A i \in 1 .. Len(c.data) : c.data[i] = v[From(c) + i]
<1>1. PICK a : a = From(c)
  OBVIOUS
<1>2. PICK n : n = Len(c.data)
  OBVIOUS
<1>3. PICK N : N = Len(v)
  OBVIOUS
<1>4. c.n \in Nat /\ c.data \in Seq(Byte)
  BY DEF ChunkObject
<1>5. a \in Nat /\ (c.n = 0 => a = 0)
  BY <1>1, <1>4, FromIs
<1>6. n \in Nat /\ N \in Nat /\ (c.data = <<>> => n = 0) /\ (v = <<>> => N = 0)
  BY <1>2, <1>3, <1>4
<1>7. CASE Whole(c, v)
  <2>1. a < N /\ n = Least(ChunkSize, N - a) /\ Piece(c, v)
    BY <1>1, <1>2, <1>3, <1>7 DEF Whole
  <2>2. a + n <= N /\ n <= ChunkSize /\ (a + n < N => n = ChunkSize)
    BY <1>5, <1>6, <2>1, Constants DEF Least
  <2>3. \A i \in 1 .. n : c.data[i] = v[a + i]
    BY <1>1, <1>2, <2>1 DEF Piece
  <2> QED BY <1>1, <1>2, <1>3, <1>5, <1>6, <1>7, <2>2, <2>3
<1>8. CASE ~Whole(c, v)
  <2>1. c.n = 0 /\ c.data = <<>> /\ v = <<>>
    BY <1>8 DEF InHand
  <2>2. a = 0 /\ n = 0 /\ N = 0
    BY <1>5, <1>6, <2>1
  <2>3. \A i \in 1 .. n : c.data[i] = v[a + i]
    BY <2>2
  <2>4. a + n <= N /\ n <= ChunkSize /\ ~(a + n < N)
    BY <2>2, Constants
  <2> QED BY <1>1, <1>2, <1>3, <1>5, <1>6, <2>3, <2>4
<1> QED BY <1>7, <1>8

\* k bytes do not end one byte into a chunk.
Even(k) == \A j \in Nat : k # j * ChunkSize + 1

LEMMA EvenIs ==
  ASSUME NEW k \in Nat, k % ChunkSize # 1 % ChunkSize
  PROVE  Even(k) /\ ChunkSize > 1
<1>1. ChunkSize \in Nat /\ ChunkSize # 0
  BY Constants
<1>2. k % ChunkSize \in 0 .. ChunkSize - 1 /\ 1 % ChunkSize \in 0 .. ChunkSize - 1
  BY Constants, Division
<1>3. PICK x : x = k % ChunkSize
  OBVIOUS
<1>4. PICK y : y = 1 % ChunkSize
  OBVIOUS
<1>5. ChunkSize > 1
  <2>1. x # y /\ x \in 0 .. ChunkSize - 1 /\ y \in 0 .. ChunkSize - 1
    BY <1>2, <1>3, <1>4
  <2> QED BY <1>1, <2>1
<1>6. 1 \in 0 .. ChunkSize - 1
  BY <1>1, <1>5
<1>7. (0 * ChunkSize + 1) % ChunkSize = 1
  BY <1>6, Constants, Quotient
<1>8. 0 * ChunkSize + 1 = 1
  BY <1>1, Times
<1>9. ASSUME NEW j \in Nat, k = j * ChunkSize + 1
      PROVE  FALSE
  <2>1. (j * ChunkSize + 1) % ChunkSize = 1
    BY <1>6, Constants, Quotient
  <2>2. k % ChunkSize = 1
    BY <1>9, <2>1
  <2>3. 1 % ChunkSize = 1
    BY <1>7, <1>8
  <2> QED BY <2>2, <2>3
<1> QED BY <1>5, <1>9 DEF Even

LEMMA EvenLess ==
  ASSUME NEW k \in Nat, NEW m \in Nat, k = m + ChunkSize, Even(k)
  PROVE  Even(m)
<1>1. ASSUME NEW j \in Nat, m = j * ChunkSize + 1
      PROVE  FALSE
  <2>1. PICK t : t = j * ChunkSize
    OBVIOUS
  <2>2. t \in Nat /\ (j + 1) * ChunkSize = t + ChunkSize
    BY <2>1, Times, Constants
  <2>3. PICK z : z = (j + 1) * ChunkSize
    OBVIOUS
  <2>4. z \in Nat /\ z = t + ChunkSize /\ k = t + 1 + ChunkSize
    BY <1>1, <2>1, <2>2, <2>3, Constants
  <2>5. k = z + 1
    BY <2>2, <2>4, Constants
  <2>6. j + 1 \in Nat
    OBVIOUS
  <2> QED BY <2>3, <2>5, <2>6 DEF Even
<1> QED BY <1>1 DEF Even

LEMMA EvenNot ==
  ~Even(1) /\ ~Even(ChunkSize + 1)
<1>1. PICK M : M = ChunkSize
  OBVIOUS
<1>2. M \in Nat
  BY <1>1, Constants
<1>3. 0 * M = 0 /\ 1 * M = M
  BY <1>2
<1>4. 1 = 0 * M + 1 /\ M + 1 = 1 * M + 1
  BY <1>2, <1>3
<1>5. 0 \in Nat /\ 1 \in Nat
  OBVIOUS
<1> QED BY <1>1, <1>4, <1>5 DEF Even

\* A read of k bytes from head p is not one of those that go wrong by a byte.
Fair(p, k) ==
  p + k > ChunkSize => ChunkSize > 1 /\ p \in {0, ChunkSize} /\ Even(k)

\* OffByOne of the object h.
Off(h) ==
  /\ h.op \in {"read", "stream"}
  /\ \/ /\ h.start + h.asked > ChunkSize
        /\ h.start \notin {0, ChunkSize} \/ h.asked % ChunkSize = 1 % ChunkSize
     \/ h.op = "read" /\ h.asked = 0 /\ h.start > 0

LEMMA FairIs ==
  ASSUME NEW h, h.start \in Nat, h.asked \in Nat, h.op \in {"read", "stream"}, ~Off(h)
  PROVE  Fair(h.start, h.asked) /\ (h.op = "read" /\ h.asked = 0 => h.start = 0)
<1>1. ASSUME h.start + h.asked > ChunkSize
      PROVE  ChunkSize > 1 /\ h.start \in {0, ChunkSize} /\ Even(h.asked)
  <2>1. h.start \in {0, ChunkSize} /\ h.asked % ChunkSize # 1 % ChunkSize
    BY <1>1 DEF Off
  <2> QED BY <2>1, EvenIs
<1>2. ASSUME h.op = "read", h.asked = 0
      PROVE  h.start = 0
  <2>1. ~(h.start > 0)
    BY <1>2 DEF Off
  <2> QED BY <2>1
<1> QED BY <1>1, <1>2 DEF Fair

\* The bytes g of the q that were asked for from byte a on have been read, and
\* the head is in chunk c, where they continue.
Ready(c, v, a, q, g) ==
  /\ InHand(c, v) /\ (c.data = <<>> => v = <<>>) /\ c.p <= Len(c.data)
  /\ Matches(g, v, a) /\ a + Len(g) = From(c) + c.p
  /\ Len(g) <= q /\ a + q <= Len(v) /\ Fair(c.p, q - Len(g))

\* Chunk c is used up, and the bytes continue in the next one.
Spent(c, v, a, q, g) ==
  /\ Ready(c, v, a, q, g)
  /\ c.p = ChunkSize /\ ChunkSize > 1 /\ Len(g) < q /\ Even(q - Len(g))

LEMMA Course ==
  ASSUME NEW c \in ChunkObject, NEW v \in Seq(Byte), NEW g \in Seq(Byte), NEW a \in Nat, NEW q \in Nat,
         Ready(c, v, a, q, g), NEW k, k = q - Len(g)
  PROVE  /\ k \in Nat
         /\ Len(c.data) + 1 + Len(g) >= q + c.p => c.p + k <= Len(c.data)
         /\ ~(Len(c.data) + 1 + Len(g) >= q + c.p) =>
              /\ Len(c.data) = ChunkSize /\ ChunkSize > 1 /\ c.p \in {0, ChunkSize}
              /\ Even(k) /\ c.p + k > ChunkSize + 1
<1>1. PICK N : N = Len(v)
  OBVIOUS
<1>2. PICK n : n = Len(c.data)
  OBVIOUS
<1>3. PICK f : f = From(c)
  OBVIOUS
<1>4. PICK p : p = c.p
  OBVIOUS
<1>5. PICK m : m = Len(g)
  OBVIOUS
<1>6. /\ f \in Nat /\ n \in Nat /\ N \in Nat /\ f + n <= N /\ n <= ChunkSize
      /\ (f + n < N => n = ChunkSize)
  BY <1>1, <1>2, <1>3, InIs DEF Ready
<1>7. p \in Nat /\ m \in Nat
  BY <1>4, <1>5 DEF ChunkObject
<1>8. p <= n /\ a + m = f + p /\ m <= q /\ a + q <= N
  BY <1>1, <1>2, <1>3, <1>4, <1>5 DEF Ready
<1>9. k \in Nat /\ k = q - m
  BY <1>5, <1>7, <1>8
<1>10. f + p + k <= N
  BY <1>6, <1>7, <1>8, <1>9
<1>11. p + k > ChunkSize => ChunkSize > 1 /\ p \in {0, ChunkSize} /\ Even(k)
  BY <1>4 DEF Ready, Fair
<1>12. ChunkSize \in Nat
  BY Constants
<1>13. ASSUME p + k > n
       PROVE  n = ChunkSize /\ ChunkSize > 1 /\ p \in {0, ChunkSize} /\ Even(k)
  <2>1. n = ChunkSize
    BY <1>6, <1>7, <1>9, <1>10, <1>12, <1>13
  <2> QED BY <1>11, <1>13, <2>1
<1>14. ASSUME n + 1 + m >= q + p
       PROVE  p + k <= n
  <2> SUFFICES ASSUME p + k > n PROVE FALSE
    BY <1>6, <1>7, <1>9
  <2>1. p + k = n + 1
    BY <1>6, <1>7, <1>8, <1>9, <1>14
  <2>2. n = ChunkSize /\ p \in {0, ChunkSize} /\ Even(k)
    BY <1>13
  <2>3. k = 1 \/ k = ChunkSize + 1
    BY <1>6, <1>7, <1>9, <1>12, <2>1, <2>2
  <2> QED BY <2>2, <2>3, EvenNot
<1>15. ASSUME ~(n + 1 + m >= q + p)
       PROVE  p + k > n + 1
  BY <1>6, <1>7, <1>8, <1>9, <1>15
<1>16. ASSUME ~(n + 1 + m >= q + p)
       PROVE  /\ n = ChunkSize /\ ChunkSize > 1 /\ p \in {0, ChunkSize} /\ Even(k)
              /\ p + k > ChunkSize + 1
  <2>1. p + k > n + 1 /\ p + k > n
    BY <1>6, <1>7, <1>9, <1>15, <1>16
  <2> QED BY <1>13, <2>1
<1> QED BY <1>2, <1>4, <1>5, <1>9, <1>14, <1>16

\* Bytes of the chunk are added.
LEMMA Takes ==
  ASSUME NEW c \in ChunkObject, NEW v \in Seq(Byte), NEW g \in Seq(Byte), NEW a \in Nat,
         InHand(c, v), c.data = <<>> => v = <<>>, Matches(g, v, a), a + Len(g) = From(c) + c.p,
         NEW b \in Seq(Byte), c.p + Len(b) <= Len(c.data),
         \A i \in 1 .. Len(b) : b[i] = c.data[c.p + i]
  PROVE  g \o b \in Seq(Byte) /\ Len(g \o b) = Len(g) + Len(b) /\ Matches(g \o b, v, a)
<1>1. PICK N : N = Len(v)
  OBVIOUS
<1>2. PICK n : n = Len(c.data)
  OBVIOUS
<1>3. PICK f : f = From(c)
  OBVIOUS
<1>4. PICK p : p = c.p
  OBVIOUS
<1>5. PICK m : m = Len(g)
  OBVIOUS
<1>6. PICK j : j = Len(b)
  OBVIOUS
<1>7. f \in Nat /\ n \in Nat /\ N \in Nat /\ f + n <= N /\ \A i \in 1 .. n : c.data[i] = v[f + i]
  BY <1>1, <1>2, <1>3, InIs
<1>8. p \in Nat /\ m \in Nat /\ j \in Nat /\ p + j <= n /\ a + m = f + p
  BY <1>2, <1>3, <1>4, <1>5, <1>6 DEF ChunkObject
<1>9. a + m + j <= N
  BY <1>7, <1>8
<1>10. ASSUME NEW i \in 1 .. j
       PROVE  b[i] = v[a + m + i]
  <2>1. p + i \in 1 .. n /\ f + (p + i) = a + m + i
    BY <1>7, <1>8
  <2>2. b[i] = c.data[p + i]
    BY <1>4, <1>6
  <2>3. c.data[p + i] = v[f + (p + i)]
    BY <1>7, <2>1
  <2> QED BY <2>1, <2>2, <2>3
<1>11. a + Len(g) + Len(b) <= Len(v)
  BY <1>1, <1>5, <1>6, <1>9
<1>12. \A i \in 1 .. Len(b) : b[i] = v[a + Len(g) + i]
  BY <1>5, <1>6, <1>10
<1> QED BY <1>11, <1>12, MoreMatches

-----------------------------------------------------------------------------
(* The object that reads.  h: the object, g: the bytes read.               *)

ReaderPlaces == {"none", "find", "first", "idle", "fetch", "stream", "stuck", "thrown"}

Operations == {"none", "read", "readBuffer", "getc", "stream"}

Sizes == 0 .. MaxBytes

Reader ==
  [pc : ReaderPlaces, fid : 0 .. MaxOpens, length : Sizes, position : Nat, chunk : ChunkObject,
   op : Operations, from : Nat, start : Nat, asked : Sizes, need : Sizes, exact : BOOLEAN]

LEMMA ReaderIs ==
  ASSUME NEW h \in Reader
  PROVE  /\ h = [pc |-> h.pc, fid |-> h.fid, length |-> h.length, position |-> h.position,
                 chunk |-> h.chunk, op |-> h.op, from |-> h.from, start |-> h.start,
                 asked |-> h.asked, need |-> h.need, exact |-> h.exact]
         /\ h.length \in Nat /\ h.position \in Nat /\ h.from \in Nat /\ h.start \in Nat
         /\ h.asked \in Nat /\ h.need \in Nat /\ h.length <= MaxBytes /\ h.asked <= MaxBytes
         /\ h.need <= MaxBytes /\ h.chunk \in ChunkObject
         /\ h.chunk.n \in Nat /\ h.chunk.p \in Nat /\ h.chunk.data \in Seq(Byte)
         /\ Len(h.chunk.data) \in Nat /\ From(h.chunk) \in Nat
<1>1. h.chunk \in ChunkObject /\ h.length \in Sizes /\ h.asked \in Sizes /\ h.need \in Sizes
  BY DEF Reader
<1>2. /\ h.chunk.n \in Nat /\ h.chunk.p \in Nat
      /\ h.chunk.data \in Seq(Byte) /\ Len(h.chunk.data) \in Nat
  BY <1>1 DEF ChunkObject
<1>3. From(h.chunk) \in Nat
  BY <1>2, FromIs
<1>4. \A k \in Sizes : k \in Nat /\ k <= MaxBytes
  BY Constants DEF Sizes
<1>5. h.position \in Nat /\ h.from \in Nat /\ h.start \in Nat
  BY DEF Reader
<1>6. h = [pc |-> h.pc, fid |-> h.fid, length |-> h.length, position |-> h.position,
           chunk |-> h.chunk, op |-> h.op, from |-> h.from, start |-> h.start,
           asked |-> h.asked, need |-> h.need, exact |-> h.exact]
  BY DEF Reader
<1> QED BY <1>1, <1>2, <1>3, <1>4, <1>5, <1>6

LEMMA KindsAre ==
  /\ \A k \in {"none", "find", "first", "idle", "fetch", "stream", "stuck", "thrown"} : k \in ReaderPlaces
  /\ \A k \in {"none", "read", "readBuffer", "getc", "stream"} : k \in Operations
  /\ \A k \in Nat : k <= MaxBytes => k \in Sizes
BY Constants DEF ReaderPlaces, Operations, Sizes

\* x is h with another place, position, chunk and number of bytes to read.
Moved(x, h, p, k, c, m) ==
  x = [h EXCEPT !.pc = p, !.position = k, !.chunk = c, !.need = m]

\* The call under way is that of h, and its chunk has the same data.
SameCall(x, h) ==
  /\ x.fid = h.fid /\ x.length = h.length /\ x.op = h.op /\ x.from = h.from /\ x.start = h.start
  /\ x.asked = h.asked /\ x.exact = h.exact
  /\ x.chunk.n = h.chunk.n /\ x.chunk.data = h.chunk.data

LEMMA MovedIs ==
  ASSUME NEW h \in Reader, NEW p \in ReaderPlaces, NEW k \in Nat, NEW c \in ChunkObject,
         c.n = h.chunk.n, c.data = h.chunk.data, NEW m \in Sizes, NEW x, Moved(x, h, p, k, c, m)
  PROVE  /\ x \in Reader /\ SameCall(x, h)
         /\ x.pc = p /\ x.position = k /\ x.chunk = c /\ x.need = m
<1>1. x = [pc |-> p, fid |-> h.fid, length |-> h.length, position |-> k, chunk |-> c, op |-> h.op,
           from |-> h.from, start |-> h.start, asked |-> h.asked, need |-> m, exact |-> h.exact]
  BY DEF Moved, Reader
<1>2. /\ h.fid \in 0 .. MaxOpens /\ h.length \in Sizes /\ h.op \in Operations /\ h.from \in Nat
      /\ h.start \in Nat /\ h.asked \in Sizes /\ h.exact \in BOOLEAN
  BY DEF Reader
<1>3. x \in Reader
  BY <1>1, <1>2 DEF Reader
<1>4. SameCall(x, h)
  BY <1>1 DEF SameCall
<1> QED BY <1>1, <1>3, <1>4

\* The call has returned what it should.
Done(h, g, v) == Exactly(g, v, h.from, h.asked)

\* readBuffer: the position is that of the bytes read, and the end is where it
\* was; as long as it is not reached, the chunk has the next byte or ends there.
Buffers(h, g, v) ==
  /\ Matches(g, v, h.from) /\ h.position = h.from + Len(g)
  /\ Least(h.position + h.need, Len(v)) = Least(h.from + h.asked, Len(v))
  /\ h.position < Len(v) /\ h.need > 0 =>
       Whole(h.chunk, v) /\ h.chunk.p <= Len(h.chunk.data) /\ h.position = From(h.chunk) + h.chunk.p

\* The call waits for the next chunk.
Waits(h, g, v) ==
  /\ h.op = "read" => h.need = h.asked /\ Spent(h.chunk, v, h.from, h.asked, g)
  /\ h.op = "readBuffer" => Buffers(h, g, v) /\ h.chunk.p = Len(h.chunk.data)
  /\ h.op = "getc" => /\ g = <<>> /\ h.asked = 1 /\ h.from < Len(v) /\ Whole(h.chunk, v)
                      /\ h.chunk.p = Len(h.chunk.data) /\ h.from = From(h.chunk) + h.chunk.p

Outcome(h, g, v) ==
  /\ h.pc = "idle" => Done(h, g, v)
  /\ h.pc = "fetch" => Waits(h, g, v)

\* What is true of a call that waits, whatever the file is.
UnderWay(h, g) ==
  h.pc = "fetch" =>
    /\ h.op \in {"read", "readBuffer", "getc"}
    /\ h.op = "read" => Len(g) <= h.need
    /\ h.op = "readBuffer" => h.position <= h.length

Stepped(x, y, h) ==
  x \in Reader /\ y \in Seq(Byte) /\ x.pc \in {"idle", "fetch"} /\ SameCall(x, h) /\ UnderWay(x, y)

LEMMA ReadStepType ==
  ASSUME NEW h \in Reader, NEW g \in Seq(Byte), Len(g) <= h.need, h.op = "read", ReadStep(h, g)
  PROVE  Stepped(r', got', h)
<1>1. PICK x : x = r'
  OBVIOUS
<1>2. PICK y : y = got'
  OBVIOUS
<1>3. PICK c : c = h.chunk
  OBVIOUS
<1>4. /\ c \in ChunkObject /\ c.p \in Nat /\ c.data \in Seq(Byte) /\ Len(c.data) \in Nat
      /\ h.need \in Nat /\ h.need \in Sizes /\ Len(g) \in Nat
  BY <1>3, ReaderIs DEF Reader
<1>5. CASE Len(c.data) + 1 + Len(g) >= h.need + c.p
  <2>1. PICK k : k = h.need - Len(g)
    OBVIOUS
  <2>2. k \in Nat
    BY <1>4, <2>1
  <2>3. PICK b \in ChunkRead(c, k) :
          /\ y = g \o b
          /\ x = [h EXCEPT !.pc = "idle", !.position = Len(g \o b), !.chunk = Advance(h.chunk, k)]
    BY <1>1, <1>2, <1>3, <1>5, <2>1 DEF ReadStep
  <2>4. b \in Seq(Byte)
    BY <1>4, <2>2, ReadType
  <2>5. y \in Seq(Byte) /\ Len(y) \in Nat
    BY <2>3, <2>4, Joined
  <2>6. PICK d : d = Advance(c, k)
    OBVIOUS
  <2>7. d \in ChunkObject /\ d.n = c.n /\ d.data = c.data
    BY <1>4, <2>2, <2>6, AdvanceIs
  <2>8. Moved(x, h, "idle", Len(y), d, h.need)
    BY <1>3, <2>3, <2>6, ReaderIs DEF Moved
  <2>9. x \in Reader /\ SameCall(x, h) /\ x.pc = "idle"
    BY <1>3, <1>4, <2>5, <2>7, <2>8, KindsAre, MovedIs
  <2> QED BY <1>1, <1>2, <2>5, <2>9 DEF Stepped, UnderWay
<1>6. CASE ~(Len(c.data) + 1 + Len(g) >= h.need + c.p)
  <2>1. PICK k : k = Len(c.data)
    OBVIOUS
  <2>2. k \in Nat
    BY <1>4, <2>1
  <2>3. PICK b \in ChunkRead(c, k) :
          y = g \o b /\ x = [h EXCEPT !.pc = "fetch", !.chunk = Advance(h.chunk, k)]
    BY <1>1, <1>2, <1>3, <1>6, <2>1 DEF ReadStep
  <2>4. /\ b \in Seq(Byte) /\ Len(b) \in Nat /\ Len(b) <= k
        /\ ~Holds(c, k) => b = <<>>
    BY <1>4, <2>1, <2>2, <2>3, ReadType
  <2>5. y \in Seq(Byte) /\ Len(y) = Len(g) + Len(b)
    BY <2>3, <2>4, Joined
  <2>6. PICK d : d = Advance(c, k)
    OBVIOUS
  <2>7. d \in ChunkObject /\ d.n = c.n /\ d.data = c.data
    BY <1>4, <2>2, <2>6, AdvanceIs
  <2>8. Moved(x, h, "fetch", h.position, d, h.need)
    BY <1>3, <2>3, <2>6, ReaderIs DEF Moved
  <2>9. x \in Reader /\ SameCall(x, h) /\ x.pc = "fetch" /\ x.need = h.need /\ x.op = "read"
    BY <1>3, <1>4, <2>7, <2>8, ReaderIs, KindsAre, MovedIs DEF SameCall
  <2>10. Len(y) <= h.need
    <3>1. CASE Holds(c, k)
      <4>1. c.p + k <= k + 1
        BY <2>1, <3>1 DEF Holds
      <4>2. c.p <= 1
        BY <1>4, <2>2, <4>1
      <4>3. k + 1 + Len(g) < h.need + c.p
        BY <1>4, <1>6, <2>1
      <4> QED BY <1>4, <2>2, <2>4, <2>5, <4>2, <4>3
    <3>2. CASE ~Holds(c, k)
      <4>1. Len(b) = 0
        BY <2>4, <3>2
      <4> QED BY <1>4, <2>5, <4>1
    <3> QED BY <3>1, <3>2
  <2> QED BY <1>1, <1>2, <2>5, <2>9, <2>10 DEF Stepped, UnderWay
<1> QED BY <1>5, <1>6

\* The last bytes are in chunk c.
LEMMA Ends ==
  ASSUME NEW c \in ChunkObject, NEW v \in Seq(Byte), NEW g \in Seq(Byte), NEW a \in Nat, NEW q \in Nat,
         Ready(c, v, a, q, g), Len(c.data) + 1 + Len(g) >= q + c.p, NEW k, k = q - Len(g)
  PROVE  k \in Nat /\ c.p + k <= Len(c.data) /\ Holds(c, k)
<1>1. k \in Nat /\ c.p + k <= Len(c.data)
  BY Course
<1>2. Len(c.data) \in Nat /\ c.p \in Nat
  BY DEF ChunkObject
<1>3. Holds(c, k)
  <2>1. PICK n : n = Len(c.data)
    OBVIOUS
  <2>2. PICK p : p = c.p
    OBVIOUS
  <2>3. n \in Nat /\ p \in Nat /\ p + k <= n
    BY <1>1, <1>2, <2>1, <2>2
  <2>4. p + k <= n + 1
    BY <1>1, <2>3
  <2> QED BY <2>1, <2>2, <2>4 DEF Holds
<1> QED BY <1>1, <1>3

LEMMA EndsWith ==
  ASSUME NEW c \in ChunkObject, NEW v \in Seq(Byte), NEW g \in Seq(Byte), NEW a \in Nat, NEW q \in Nat,
         Ready(c, v, a, q, g), Len(c.data) + 1 + Len(g) >= q + c.p,
         NEW b \in Bytes(c, q - Len(g))
  PROVE  /\ g \o b \in Seq(Byte) /\ Len(g \o b) = Len(g) + Len(b) /\ Len(g \o b) = q
         /\ Exactly(g \o b, v, a, q)
<1> DEFINE k == q - Len(g)
<1>1. k \in Nat /\ c.p + k <= Len(c.data)
  BY Ends
<1>2. /\ InHand(c, v) /\ (c.data = <<>> => v = <<>>) /\ Matches(g, v, a)
      /\ a + Len(g) = From(c) + c.p /\ Len(g) <= q /\ a + q <= Len(v)
  BY DEF Ready
<1>3. b \in Seq(Byte) /\ Len(b) = k /\ \A i \in 1 .. k : b[i] = c.data[c.p + i]
  BY <1>1, BytesTaken
<1>4. c.p + Len(b) <= Len(c.data) /\ \A i \in 1 .. Len(b) : b[i] = c.data[c.p + i]
  BY <1>1, <1>3
<1>5. g \o b \in Seq(Byte) /\ Len(g \o b) = Len(g) + Len(b) /\ Matches(g \o b, v, a)
  BY <1>2, <1>3, <1>4, Takes
<1>6. PICK y : y = g \o b
  OBVIOUS
<1>7. y \in Seq(Byte) /\ Len(y) = Len(g) + Len(b) /\ Matches(y, v, a)
  BY <1>5, <1>6
<1>8. Len(g) \in Nat
  OBVIOUS
<1>9. Len(y) = q
  BY <1>2, <1>3, <1>7, <1>8
<1>10. PICK N : N = Len(v)
  OBVIOUS
<1>11. N \in Nat /\ a + q <= N
  BY <1>2, <1>10
<1>12. Least(a + q, N) = a + q
  BY <1>11 DEF Least
<1>13. a + Len(y) = Least(a + q, Len(v))
  BY <1>9, <1>10, <1>12
<1>14. Exactly(y, v, a, q)
  BY <1>7, <1>13, ExactlyIs
<1> QED BY <1>6, <1>7, <1>9, <1>14

\* The bytes go on in the next chunk.
LEMMA Turns ==
  ASSUME NEW c \in ChunkObject, NEW v \in Seq(Byte), NEW g \in Seq(Byte), NEW a \in Nat, NEW q \in Nat,
         Ready(c, v, a, q, g), ~(Len(c.data) + 1 + Len(g) >= q + c.p),
         NEW b \in IF Holds(c, Len(c.data)) THEN Bytes(c, Len(c.data)) ELSE {<<>>},
         NEW d, d = Advance(c, Len(c.data))
  PROVE  Spent(d, v, a, q, g \o b)
<1>1. PICK k : k = q - Len(g)
  OBVIOUS
<1>2. /\ k \in Nat /\ Len(c.data) = ChunkSize /\ ChunkSize > 1 /\ c.p \in {0, ChunkSize} /\ Even(k)
      /\ c.p + k > ChunkSize + 1
  BY <1>1, Course
<1>3. /\ InHand(c, v) /\ (c.data = <<>> => v = <<>>) /\ Matches(g, v, a)
      /\ a + Len(g) = From(c) + c.p /\ Len(g) <= q /\ a + q <= Len(v)
  BY DEF Ready
<1>4. ChunkSize \in Nat /\ Len(g) \in Nat /\ c.n \in Nat
  BY Constants DEF ChunkObject
<1>5. From(c) \in Nat
  BY <1>4, FromIs
<1>6. d \in ChunkObject /\ d.n = c.n /\ d.data = c.data
  BY <1>2, <1>4, AdvanceIs
<1>7. d.p = IF Holds(c, ChunkSize) THEN c.p + ChunkSize ELSE c.p
  BY <1>2, <1>4, AdvanceIs
<1>8. InHand(d, v) /\ (d.data = <<>> => v = <<>>) /\ From(d) = From(c) /\ Len(d.data) = ChunkSize
  BY <1>2, <1>3, <1>6 DEF InHand, Whole, Piece, From
<1>9. PICK y : y = g \o b
  OBVIOUS
<1>10. CASE c.p = 0
  <2>1. Holds(c, ChunkSize)
    <3>1. 0 + ChunkSize <= ChunkSize + 1
      BY <1>4
    <3> QED BY <1>2, <1>10, <3>1 DEF Holds
  <2>2. d.p = ChunkSize
    BY <1>4, <1>7, <1>10, <2>1
  <2>3. b \in Bytes(c, ChunkSize)
    BY <1>2, <2>1
  <2>4. c.p + ChunkSize <= Len(c.data)
    BY <1>2, <1>4, <1>10
  <2>5. b \in Seq(Byte) /\ Len(b) = ChunkSize /\ \A i \in 1 .. ChunkSize : b[i] = c.data[c.p + i]
    BY <1>4, <2>3, <2>4, BytesTaken
  <2>6. c.p + Len(b) <= Len(c.data) /\ \A i \in 1 .. Len(b) : b[i] = c.data[c.p + i]
    BY <2>4, <2>5
  <2>7. g \o b \in Seq(Byte) /\ Len(g \o b) = Len(g) + Len(b) /\ Matches(g \o b, v, a)
    BY <1>3, <2>5, <2>6, Takes
  <2>8. y \in Seq(Byte) /\ Len(y) = Len(g) + ChunkSize /\ Matches(y, v, a)
    BY <1>9, <2>5, <2>7
  <2>9. Len(y) < q /\ q - Len(y) \in Nat /\ k = (q - Len(y)) + ChunkSize
    BY <1>1, <1>2, <1>4, <1>10, <2>8
  <2>10. Even(q - Len(y))
    BY <1>2, <2>9, EvenLess
  <2>11. a + Len(y) = From(d) + d.p
    <3>1. a + Len(g) = From(c) + 0
      BY <1>3, <1>10
    <3> QED BY <1>4, <1>5, <1>8, <2>2, <2>8, <3>1
  <2>12. Fair(d.p, q - Len(y))
    BY <1>2, <2>2, <2>10 DEF Fair
  <2>13. d.p <= Len(d.data)
    BY <1>4, <1>8, <2>2
  <2>14. Len(y) <= q
    BY <1>4, <2>8, <2>9
  <2>15. Ready(d, v, a, q, y)
    BY <1>3, <1>8, <2>8, <2>11, <2>12, <2>13, <2>14 DEF Ready
  <2>16. Spent(d, v, a, q, y)
    BY <1>2, <2>2, <2>9, <2>10, <2>15 DEF Spent
  <2> QED BY <1>9, <2>16
<1>11. CASE c.p = ChunkSize
  <2>1. ~Holds(c, ChunkSize)
    <3>1. ~(ChunkSize + ChunkSize <= ChunkSize + 1)
      BY <1>2, <1>4
    <3> QED BY <1>2, <1>11, <3>1 DEF Holds
  <2>2. d.p = ChunkSize
    BY <1>7, <1>11, <2>1
  <2>3. b = <<>>
    BY <1>2, <2>1
  <2>4. y = g
    BY <1>9, <2>3, ConcatEmptySeq
  <2>5. Len(g) < q
    BY <1>1, <1>2, <1>4, <1>11
  <2>6. a + Len(g) = From(d) + d.p
    BY <1>3, <1>8, <1>11, <2>2
  <2>7. Fair(d.p, q - Len(g))
    BY <1>1, <1>2, <2>2 DEF Fair
  <2>8. d.p <= Len(d.data)
    BY <1>4, <1>8, <2>2
  <2>9. Ready(d, v, a, q, g)
    BY <1>3, <1>8, <2>6, <2>7, <2>8 DEF Ready
  <2>10. Spent(d, v, a, q, g)
    BY <1>1, <1>2, <2>2, <2>5, <2>9 DEF Spent
  <2> QED BY <1>9, <2>4, <2>10
<1> QED BY <1>2, <1>10, <1>11

\* The chunk after one that is used up has the next bytes.
LEMMA SpentIs ==
  ASSUME NEW c \in ChunkObject, NEW v \in Seq(Byte), NEW g \in Seq(Byte), NEW a \in Nat, NEW q \in Nat,
         Spent(c, v, a, q, g)
  PROVE  /\ (c.n + 1) * ChunkSize < Len(v)
         /\ \A d \in ChunkObject :
              d.n = c.n + 1 /\ d.p = 0 /\ Whole(d, v) => Ready(d, v, a, q, g)
<1>1. /\ Matches(g, v, a) /\ a + Len(g) = From(c) + c.p /\ Len(g) <= q /\ a + q <= Len(v)
      /\ c.p = ChunkSize /\ ChunkSize > 1 /\ Len(g) < q /\ Even(q - Len(g))
  BY DEF Spent, Ready
<1>2. c.n \in Nat /\ ChunkSize \in Nat /\ Len(g) \in Nat /\ Len(v) \in Nat
  BY Constants DEF ChunkObject
<1>3. PICK f : f = From(c)
  OBVIOUS
<1>4. PICK z : z = (c.n + 1) * ChunkSize
  OBVIOUS
<1>5. f \in Nat /\ z = f + ChunkSize
  BY <1>2, <1>3, <1>4, Times DEF From
<1>6. a + Len(g) = z
  BY <1>1, <1>3, <1>5
<1>7. z < Len(v)
  BY <1>1, <1>2, <1>5, <1>6
<1>8. ASSUME NEW d \in ChunkObject, d.n = c.n + 1, d.p = 0, Whole(d, v)
      PROVE  Ready(d, v, a, q, g)
  <2>1. From(d) = z
    BY <1>4, <1>8 DEF From
  <2>2. d.data # <<>>
    <3>1. PICK n : n = Len(d.data)
      OBVIOUS
    <3>2. n = Least(ChunkSize, Len(v) - z)
      BY <1>8, <2>1, <3>1 DEF Whole
    <3>3. n > 0
      BY <1>1, <1>2, <1>5, <1>7, <3>2 DEF Least
    <3> QED BY <3>1, <3>3
  <2>3. a + Len(g) = From(d) + d.p
    BY <1>2, <1>5, <1>6, <1>8, <2>1
  <2>4. Fair(d.p, q - Len(g))
    BY <1>1, <1>8 DEF Fair
  <2>5. d.p <= Len(d.data)
    BY <1>8 DEF ChunkObject
  <2>6. InHand(d, v)
    BY <1>8 DEF InHand
  <2> QED BY <1>1, <2>2, <2>3, <2>4, <2>5, <2>6 DEF Ready
<1> QED BY <1>4, <1>7, <1>8

LEMMA ReadStepIs ==
  ASSUME NEW h \in Reader, NEW g \in Seq(Byte), h.op = "read", h.need = h.asked, ReadStep(h, g),
         NEW v \in Seq(Byte), Ready(h.chunk, v, h.from, h.asked, g),
         Len(g) < h.asked \/ (h.from = Len(v) /\ h.chunk.p = 0)
  PROVE  Outcome(r', got', v)
<1>1. PICK x : x = r'
  OBVIOUS
<1>2. PICK y : y = got'
  OBVIOUS
<1>3. PICK c : c = h.chunk
  OBVIOUS
<1>4. PICK q : q = h.asked
  OBVIOUS
<1>5. PICK a : a = h.from
  OBVIOUS
<1>6. /\ c \in ChunkObject /\ c.p \in Nat /\ c.data \in Seq(Byte) /\ Len(c.data) \in Nat /\ From(c) \in Nat
      /\ q \in Nat /\ a \in Nat /\ Len(g) \in Nat /\ h.need = q /\ h.need \in Sizes
  BY <1>3, <1>4, <1>5, ReaderIs DEF Reader
<1>7. Ready(c, v, a, q, g) /\ (Len(g) < q \/ (a = Len(v) /\ c.p = 0))
  BY <1>3, <1>4, <1>5
<1>8. PICK k : k = q - Len(g)
  OBVIOUS
<1>9. CASE Len(c.data) + 1 + Len(g) >= q + c.p
  <2>1. k \in Nat /\ Holds(c, k)
    BY <1>6, <1>7, <1>8, <1>9, Ends
  <2>2. PICK b \in ChunkRead(c, k) :
          y = g \o b /\ x = [h EXCEPT !.pc = "idle", !.position = Len(g \o b), !.chunk = Advance(h.chunk, k)]
    BY <1>1, <1>2, <1>3, <1>6, <1>8, <1>9 DEF ReadStep
  <2>3. b \in Bytes(c, k)
    <3>1. CASE k > 0
      BY <2>1, <2>2, <3>1 DEF ChunkRead
    <3>2. CASE ~(k > 0)
      <4>1. k = 0
        BY <2>1, <3>2
      <4>2. Len(g) = q
        BY <1>6, <1>8, <4>1
      <4>3. a = Len(v) /\ c.p = 0
        BY <1>6, <1>7, <4>2
      <4>4. InHand(c, v) /\ a + Len(g) = From(c) + c.p /\ Matches(g, v, a)
        BY <1>7 DEF Ready
      <4>5. Len(g) = 0
        <5>1. a + Len(g) <= Len(v)
          BY <4>4 DEF Matches
        <5> QED BY <1>6, <4>3, <5>1
      <4>6. ~(From(c) < Len(v))
        BY <1>6, <4>3, <4>4, <4>5
      <4>7. c.data = <<>>
        BY <4>4, <4>6 DEF InHand, Whole
      <4>8. Len(c.data) = 0
        BY <4>7
      <4>9. b \in Bytes(c, Len(c.data))
        BY <2>1, <2>2, <3>2 DEF ChunkRead
      <4> QED BY <4>1, <4>8, <4>9
    <3> QED BY <3>1, <3>2
  <2>4. Exactly(y, v, a, q)
    <3>1. b \in Bytes(c, q - Len(g))
      BY <1>8, <2>3
    <3>2. Exactly(g \o b, v, a, q)
      BY <1>6, <1>7, <1>9, <3>1, EndsWith
    <3> QED BY <2>2, <3>2
  <2>5. x.pc = "idle" /\ x.from = a /\ x.asked = q
    BY <1>4, <1>5, <2>2 DEF Reader
  <2> QED BY <1>1, <1>2, <2>4, <2>5 DEF Outcome, Done
<1>10. CASE ~(Len(c.data) + 1 + Len(g) >= q + c.p)
  <2>1. Len(c.data) > 0
    <3>1. Len(c.data) = ChunkSize /\ ChunkSize > 1
      BY <1>6, <1>7, <1>8, <1>10, Course
    <3> QED BY <1>6, <3>1, Constants
  <2>2. PICK b \in ChunkRead(c, Len(c.data)) :
          y = g \o b /\ x = [h EXCEPT !.pc = "fetch", !.chunk = Advance(h.chunk, Len(h.chunk.data))]
    BY <1>1, <1>2, <1>3, <1>6, <1>10 DEF ReadStep
  <2>3. b \in IF Holds(c, Len(c.data)) THEN Bytes(c, Len(c.data)) ELSE {<<>>}
    BY <2>1, <2>2 DEF ChunkRead
  <2>4. PICK d : d = Advance(c, Len(c.data))
    OBVIOUS
  <2>5. Spent(d, v, a, q, y)
    BY <1>6, <1>7, <1>10, <2>2, <2>3, <2>4, Turns
  <2>6. x.pc = "fetch" /\ x.from = a /\ x.asked = q /\ x.op = "read" /\ x.need = q /\ x.chunk = d
    BY <1>3, <1>4, <1>5, <2>2, <2>4 DEF Reader
  <2>7. x.op = "read" => x.need = x.asked /\ Spent(x.chunk, v, x.from, x.asked, y)
    BY <2>5, <2>6
  <2>8. x.pc # "idle" /\ x.op # "readBuffer" /\ x.op # "getc"
    BY <2>6
  <2> QED BY <1>1, <1>2, <2>7, <2>8 DEF Outcome, Waits
<1> QED BY <1>9, <1>10

\* What is left of chunk c.
LEMMA TakenRest ==
  ASSUME NEW c \in ChunkObject, c.p <= Len(c.data)
  PROVE  /\ SubSeq(c.data, c.p + 1, Len(c.data)) \in Seq(Byte)
         /\ Len(SubSeq(c.data, c.p + 1, Len(c.data))) = Len(c.data) - c.p
         /\ \A i \in 1 .. Len(c.data) - c.p : SubSeq(c.data, c.p + 1, Len(c.data))[i] = c.data[c.p + i]
<1>1. PICK n : n = Len(c.data)
  OBVIOUS
<1>2. PICK k : k = n - c.p
  OBVIOUS
<1>3. n \in Nat /\ c.p \in Nat /\ k \in Nat /\ c.p + k = n
  BY <1>1, <1>2 DEF ChunkObject
<1>4. c.p + k <= Len(c.data)
  BY <1>1, <1>3
<1>5. /\ SubSeq(c.data, c.p + 1, c.p + k) \in Seq(Byte)
      /\ Len(SubSeq(c.data, c.p + 1, c.p + k)) = k
      /\ \A i \in 1 .. k : SubSeq(c.data, c.p + 1, c.p + k)[i] = c.data[c.p + i]
  BY <1>3, <1>4, Taken
<1> QED BY <1>1, <1>2, <1>3, <1>5

LEMMA HeadSet ==
  ASSUME NEW c \in ChunkObject, NEW k \in Nat, NEW d, d = [c EXCEPT !.p = k]
  PROVE  d \in ChunkObject /\ d.n = c.n /\ d.data = c.data /\ d.p = k
BY DEF ChunkObject

\* A step of readBuffer takes what is left to read of the chunk, or all of it.
BufferEnds(x, y, h, g, left) ==
  /\ Len(h.chunk.data) - h.chunk.p >= left /\ Len(h.chunk.data) - h.chunk.p # 0
  /\ y = g \o SubSeq(h.chunk.data, h.chunk.p + 1, h.chunk.p + left)
  /\ Moved(x, h, "idle", h.position + left, [h.chunk EXCEPT !.p = h.chunk.p + left], h.need)

BufferGoesOn(x, y, h, g, left) ==
  /\ ~(Len(h.chunk.data) - h.chunk.p >= left) \/ Len(h.chunk.data) - h.chunk.p = 0
  /\ y = g \o SubSeq(h.chunk.data, h.chunk.p + 1, Len(h.chunk.data))
  /\ Moved(x, h, "fetch", h.position + (Len(h.chunk.data) - h.chunk.p),
           [h.chunk EXCEPT !.p = Len(h.chunk.data)], left - (Len(h.chunk.data) - h.chunk.p))

LEMMA BufferStepIs ==
  ASSUME NEW h \in Reader, NEW g, BufferStep(h, g), NEW left, left = Least(h.length - h.position, h.need)
  PROVE  BufferEnds(r', got', h, g, left) \/ BufferGoesOn(r', got', h, g, left)
<1>1. PICK x : x = r'
  OBVIOUS
<1>2. PICK y : y = got'
  OBVIOUS
<1>3. PICK c : c = h.chunk
  OBVIOUS
<1>4. PICK here : here = Len(c.data) - c.p
  OBVIOUS
<1>5. CASE here >= left /\ here # 0
  <2>1. /\ y = g \o SubSeq(c.data, c.p + 1, c.p + left)
        /\ x = [h EXCEPT !.pc = "idle", !.position = @ + left, !.chunk.p = @ + left]
    BY <1>1, <1>2, <1>3, <1>4, <1>5 DEF BufferStep
  <2>2. PICK d : d = [c EXCEPT !.p = c.p + left]
    OBVIOUS
  <2>3. x = [h EXCEPT !.pc = "idle", !.position = h.position + left, !.chunk = d]
    BY <1>3, <2>1, <2>2 DEF Reader
  <2>4. Moved(x, h, "idle", h.position + left, d, h.need)
    BY <2>3 DEF Moved, Reader
  <2> QED BY <1>1, <1>2, <1>3, <1>4, <1>5, <2>1, <2>2, <2>4 DEF BufferEnds
<1>6. CASE ~(here >= left /\ here # 0)
  <2>1. /\ y = g \o SubSeq(c.data, c.p + 1, Len(c.data))
        /\ x = [h EXCEPT !.pc = "fetch", !.position = @ + here, !.need = left - here,
                         !.chunk.p = Len(c.data)]
    BY <1>1, <1>2, <1>3, <1>4, <1>6 DEF BufferStep
  <2>2. PICK d : d = [c EXCEPT !.p = Len(c.data)]
    OBVIOUS
  <2>3. x = [h EXCEPT !.pc = "fetch", !.position = h.position + here, !.need = left - here, !.chunk = d]
    BY <1>3, <2>1, <2>2 DEF Reader
  <2>4. Moved(x, h, "fetch", h.position + here, d, left - here)
    BY <2>3 DEF Moved, Reader
  <2> QED BY <1>1, <1>2, <1>3, <1>4, <1>6, <2>1, <2>2, <2>4 DEF BufferGoesOn
<1> QED BY <1>5, <1>6

LEMMA BufferStepType ==
  ASSUME NEW h \in Reader, NEW g \in Seq(Byte), h.op = "readBuffer", h.position <= h.length,
         h.chunk.p <= Len(h.chunk.data), BufferStep(h, g)
  PROVE  Stepped(r', got', h)
<1>1. PICK x : x = r'
  OBVIOUS
<1>2. PICK y : y = got'
  OBVIOUS
<1>3. PICK c : c = h.chunk
  OBVIOUS
<1>4. PICK left : left = Least(h.length - h.position, h.need)
  OBVIOUS
<1>5. BufferEnds(x, y, h, g, left) \/ BufferGoesOn(x, y, h, g, left)
  BY <1>1, <1>2, <1>4, BufferStepIs
<1>6. PICK n : n = Len(c.data)
  OBVIOUS
<1>7. /\ c \in ChunkObject /\ c.p \in Nat /\ n \in Nat /\ c.p <= n
      /\ h.position \in Nat /\ h.length \in Nat /\ h.need \in Nat /\ h.need <= MaxBytes /\ h.need \in Sizes
  BY <1>3, <1>6, ReaderIs DEF Reader
<1>8. left \in Nat /\ left <= h.need /\ h.position + left <= h.length
  BY <1>4, <1>7 DEF Least
<1>9. CASE BufferEnds(x, y, h, g, left)
  <2>1. /\ n - c.p >= left
        /\ y = g \o SubSeq(c.data, c.p + 1, c.p + left)
        /\ Moved(x, h, "idle", h.position + left, [c EXCEPT !.p = c.p + left], h.need)
    BY <1>3, <1>6, <1>9 DEF BufferEnds
  <2>2. c.p + left <= Len(c.data) /\ c.p + left \in Nat /\ h.position + left \in Nat
    <3>1. PICK p : p = c.p
      OBVIOUS
    <3>2. p \in Nat /\ n - p >= left
      BY <1>7, <2>1, <3>1
    <3>3. p + left <= n /\ p + left \in Nat
      BY <1>7, <1>8, <3>2
    <3>4. h.position + left \in Nat
      BY <1>7, <1>8
    <3> QED BY <1>6, <3>1, <3>3, <3>4
  <2>3. SubSeq(c.data, c.p + 1, c.p + left) \in Seq(Byte)
    BY <1>7, <1>8, <2>2, Taken
  <2>4. y \in Seq(Byte)
    BY <2>1, <2>3, Joined
  <2>5. PICK d : d = [c EXCEPT !.p = c.p + left]
    OBVIOUS
  <2>6. d \in ChunkObject /\ d.n = c.n /\ d.data = c.data
    BY <1>7, <2>2, <2>5, HeadSet
  <2>7. Moved(x, h, "idle", h.position + left, d, h.need)
    BY <2>1, <2>5
  <2>8. x \in Reader /\ SameCall(x, h) /\ x.pc = "idle"
    BY <1>3, <1>7, <2>2, <2>6, <2>7, KindsAre, MovedIs
  <2> QED BY <1>1, <1>2, <2>4, <2>8 DEF Stepped, UnderWay
<1>10. CASE BufferGoesOn(x, y, h, g, left)
  <2>1. PICK here : here = n - c.p
    OBVIOUS
  <2>2. /\ ~(here >= left) \/ here = 0
        /\ y = g \o SubSeq(c.data, c.p + 1, Len(c.data))
        /\ Moved(x, h, "fetch", h.position + here, [c EXCEPT !.p = n], left - here)
    BY <1>3, <1>6, <1>10, <2>1 DEF BufferGoesOn
  <2>3. here \in Nat /\ here <= left
    <3>1. here \in Nat
      BY <1>7, <2>1
    <3> QED BY <1>8, <2>2, <3>1
  <2>4. left - here \in Nat /\ left - here <= MaxBytes /\ h.position + here \in Nat
    BY <1>7, <1>8, <2>3, Constants, SMTT(60)
  <2>5. left - here \in Sizes
    BY <2>4, KindsAre
  <2>6. SubSeq(c.data, c.p + 1, Len(c.data)) \in Seq(Byte)
    BY <1>6, <1>7, TakenRest
  <2>7. y \in Seq(Byte)
    BY <2>2, <2>6, Joined
  <2>8. PICK d : d = [c EXCEPT !.p = n]
    OBVIOUS
  <2>9. d \in ChunkObject /\ d.n = c.n /\ d.data = c.data
    BY <1>7, <2>8, HeadSet
  <2>10. Moved(x, h, "fetch", h.position + here, d, left - here)
    BY <2>2, <2>8
  <2>11. /\ x \in Reader /\ SameCall(x, h) /\ x.pc = "fetch" /\ x.position = h.position + here
    BY <1>3, <1>7, <2>4, <2>5, <2>9, <2>10, KindsAre, MovedIs
  <2>12. x.position <= x.length
    BY <1>7, <1>8, <2>3, <2>11 DEF SameCall
  <2>13. x.op = "readBuffer"
    BY <2>11 DEF SameCall
  <2> QED BY <1>1, <1>2, <2>7, <2>11, <2>12, <2>13 DEF Stepped, UnderWay
<1> QED BY <1>5, <1>9, <1>10

LEMMA CharStepIs ==
  ASSUME NEW h \in Reader, h.op = "getc", CharStep(h)
  PROVE  /\ Stepped(r', got', h) /\ r'.pc = "idle"
         /\ got' \in ChunkRead(h.chunk, 1)
<1>1. PICK x : x = r'
  OBVIOUS
<1>2. PICK y : y = got'
  OBVIOUS
<1>3. PICK c : c = h.chunk
  OBVIOUS
<1>4. c \in ChunkObject /\ h.position \in Nat /\ h.need \in Sizes
  BY <1>3, ReaderIs DEF Reader
<1>5. y \in ChunkRead(c, 1) /\ x = [h EXCEPT !.pc = "idle", !.position = @ + 1, !.chunk = Advance(@, 1)]
  BY <1>1, <1>2, <1>3 DEF CharStep
<1>6. y \in Seq(Byte)
  BY <1>4, <1>5, ReadType
<1>7. PICK d : d = Advance(c, 1)
  OBVIOUS
<1>8. d \in ChunkObject /\ d.n = c.n /\ d.data = c.data
  BY <1>4, <1>7, AdvanceIs
<1>9. Moved(x, h, "idle", h.position + 1, d, h.need)
  BY <1>3, <1>5, <1>7 DEF Moved, Reader
<1>10. h.position + 1 \in Nat
  BY <1>4
<1>11. x \in Reader /\ SameCall(x, h) /\ x.pc = "idle"
  BY <1>3, <1>4, <1>8, <1>9, <1>10, KindsAre, MovedIs
<1> QED BY <1>1, <1>2, <1>3, <1>5, <1>6, <1>11 DEF Stepped, UnderWay

LEMMA WholeIs ==
  ASSUME NEW c \in ChunkObject, NEW v \in Seq(Byte), Whole(c, v)
  PROVE  InHand(c, v) /\ c.data # <<>> /\ Len(c.data) > 0 /\ From(c) + Len(c.data) <= Len(v)
<1>1. PICK a : a = From(c)
  OBVIOUS
<1>2. PICK n : n = Len(c.data)
  OBVIOUS
<1>3. PICK N : N = Len(v)
  OBVIOUS
<1>4. c.n \in Nat /\ c.data \in Seq(Byte)
  BY DEF ChunkObject
<1>5. a \in Nat
  BY <1>1, <1>4, FromIs
<1>6. n \in Nat /\ N \in Nat /\ (c.data = <<>> => n = 0)
  BY <1>2, <1>3, <1>4
<1>7. a < N /\ n = Least(ChunkSize, N - a)
  BY <1>1, <1>2, <1>3 DEF Whole
<1>8. n > 0 /\ a + n <= N
  BY <1>5, <1>6, <1>7, Constants DEF Least
<1>9. c.data # <<>>
  BY <1>6, <1>8
<1> QED BY <1>1, <1>2, <1>3, <1>8, <1>9 DEF InHand

LEMMA BufferStepWhole ==
  ASSUME NEW h \in Reader, NEW g \in Seq(Byte), h.op = "readBuffer", h.position <= h.length,
         h.chunk.p <= Len(h.chunk.data), BufferStep(h, g),
         NEW v \in Seq(Byte), h.length = Len(v), Buffers(h, g, v)
  PROVE  Outcome(r', got', v)
<1>1. PICK x : x = r'
  OBVIOUS
<1>2. PICK y : y = got'
  OBVIOUS
<1>3. PICK c : c = h.chunk
  OBVIOUS
<1>4. PICK left : left = Least(h.length - h.position, h.need)
  OBVIOUS
<1>5. BufferEnds(x, y, h, g, left) \/ BufferGoesOn(x, y, h, g, left)
  BY <1>1, <1>2, <1>4, BufferStepIs
<1>6. PICK n : n = Len(c.data)
  OBVIOUS
<1>7. PICK N : N = Len(v)
  OBVIOUS
<1>8. PICK k : k = h.position
  OBVIOUS
<1>9. PICK m : m = Len(g)
  OBVIOUS
<1>10. PICK a : a = h.from
  OBVIOUS
<1>11. PICK q : q = h.asked
  OBVIOUS
<1>12. PICK p : p = c.p
  OBVIOUS
<1>13. PICK f : f = From(c)
  OBVIOUS
<1>14. /\ c \in ChunkObject /\ p \in Nat /\ n \in Nat /\ p <= n /\ f \in Nat /\ m \in Nat /\ N \in Nat
       /\ k \in Nat /\ a \in Nat /\ q \in Nat /\ h.need \in Nat /\ k <= N /\ h.need <= MaxBytes
       /\ h.need \in Sizes
  BY <1>3, <1>6, <1>7, <1>8, <1>9, <1>10, <1>11, <1>12, <1>13, ReaderIs DEF Reader
<1>15. /\ Matches(g, v, a) /\ k = a + m /\ Least(k + h.need, N) = Least(a + q, N)
       /\ k < N /\ h.need > 0 => Whole(c, v) /\ k = f + p
  BY <1>3, <1>7, <1>8, <1>9, <1>10, <1>11, <1>12, <1>13 DEF Buffers
<1>16. left = Least(N - k, h.need)
  BY <1>4, <1>7, <1>8
<1>17. PICK e : e = Least(a + q, N)
  OBVIOUS
<1>18. left \in Nat /\ left <= h.need /\ k + left <= N /\ k + left = e
  <2>1. PICK need : need = h.need
    OBVIOUS
  <2>2. k \in Nat /\ need \in Nat /\ N \in Nat /\ k <= N /\ left = Least(N - k, need)
    BY <1>14, <1>16, <2>1
  <2>3. left \in Nat /\ left <= need /\ k + left <= N /\ k + left = Least(k + need, N)
    BY <2>2 DEF Least
  <2> QED BY <1>15, <1>17, <2>1, <2>3
<1>19. ASSUME left > 0
       PROVE  InHand(c, v) /\ c.data # <<>> /\ Whole(c, v) /\ k = f + p
  <2>1. k < N /\ h.need > 0
    BY <1>14, <1>18, <1>19
  <2>2. Whole(c, v) /\ k = f + p
    BY <1>15, <2>1
  <2> QED BY <1>14, <2>2, WholeIs
<1>20. a + Len(g) = k
  BY <1>9, <1>15
<1>21. ASSUME left > 0
       PROVE  a + Len(g) = From(c) + c.p
  <2>1. k = f + p
    BY <1>19, <1>21
  <2> QED BY <1>12, <1>13, <1>20, <2>1
<1>22. CASE BufferEnds(x, y, h, g, left)
  <2>1. PICK b : b = SubSeq(c.data, c.p + 1, c.p + left)
    OBVIOUS
  <2>2. /\ n - p >= left /\ y = g \o b
        /\ Moved(x, h, "idle", k + left, [c EXCEPT !.p = c.p + left], h.need)
    BY <1>3, <1>6, <1>8, <1>12, <1>22, <2>1 DEF BufferEnds
  <2>3. p + left <= n /\ p + left \in Nat /\ k + left \in Nat
    <3>1. n - p >= left /\ left \in Nat
      BY <1>18, <2>2
    <3>2. p + left <= n
      BY <1>14, <3>1
    <3> QED BY <1>14, <3>1, <3>2
  <2>4. c.p + left <= Len(c.data)
    BY <1>6, <1>12, <2>3
  <2>5. b \in Seq(Byte) /\ Len(b) = left /\ \A i \in 1 .. left : b[i] = c.data[c.p + i]
    BY <1>14, <1>18, <2>1, <2>4, Taken
  <2>6. /\ y \in Seq(Byte) /\ Len(y) = Len(g) + Len(b)
    BY <2>2, <2>5, Joined
  <2>7. Matches(y, v, a)
    <3>1. CASE left > 0
      <4>1. c.p + Len(b) <= Len(c.data) /\ \A i \in 1 .. Len(b) : b[i] = c.data[c.p + i]
        BY <2>4, <2>5
      <4>2. Matches(g \o b, v, a)
        BY <1>14, <1>15, <1>19, <1>21, <2>5, <3>1, <4>1, Takes
      <4> QED BY <2>2, <4>2
    <3>2. CASE ~(left > 0)
      <4>1. Len(b) = 0
        BY <1>18, <2>5, <3>2
      <4>2. y = g
        BY <2>2, <2>5, <4>1, ConcatEmptySeq
      <4> QED BY <1>15, <4>2
    <3> QED BY <3>1, <3>2
  <2>8. a + Len(y) = e
    <3>1. Len(y) = m + left
      BY <1>9, <2>5, <2>6
    <3> QED BY <1>14, <1>15, <1>18, <3>1
  <2>9. a + Len(y) = Least(a + q, Len(v))
    BY <1>7, <1>17, <2>8
  <2>10. Exactly(y, v, a, q)
    BY <1>14, <2>6, <2>7, <2>9, ExactlyIs
  <2>11. PICK d : d = [c EXCEPT !.p = c.p + left]
    OBVIOUS
  <2>12. c.p + left \in Nat
    BY <1>12, <2>3
  <2>13. d \in ChunkObject /\ d.n = c.n /\ d.data = c.data
    BY <1>14, <2>11, <2>12, HeadSet
  <2>14. Moved(x, h, "idle", k + left, d, h.need)
    BY <2>2, <2>11
  <2>15. SameCall(x, h) /\ x.pc = "idle"
    BY <1>3, <1>14, <2>3, <2>13, <2>14, KindsAre, MovedIs
  <2>16. x.from = a /\ x.asked = q
    BY <1>10, <1>11, <2>15 DEF SameCall
  <2> QED BY <1>1, <1>2, <2>10, <2>15, <2>16 DEF Outcome, Done
<1>23. CASE BufferGoesOn(x, y, h, g, left)
  <2>1. PICK here : here = n - p
    OBVIOUS
  <2>2. PICK b : b = SubSeq(c.data, c.p + 1, Len(c.data))
    OBVIOUS
  <2>3. /\ ~(here >= left) \/ here = 0
        /\ y = g \o b
        /\ Moved(x, h, "fetch", k + here, [c EXCEPT !.p = n], left - here)
    BY <1>3, <1>6, <1>8, <1>12, <1>23, <2>1, <2>2 DEF BufferGoesOn
  <2>4. here \in Nat
    BY <1>14, <2>1
  <2>5. here <= left
    BY <1>18, <2>3, <2>4
  <2>6. left - here \in Nat /\ left - here <= MaxBytes /\ k + here \in Nat
    BY <1>14, <1>18, <2>4, <2>5, Constants
  <2>7. left - here \in Sizes
    BY <2>6, KindsAre
  <2>8. c.p <= Len(c.data)
    BY <1>6, <1>12, <1>14
  <2>9. /\ b \in Seq(Byte) /\ Len(b) = Len(c.data) - c.p
        /\ \A i \in 1 .. Len(c.data) - c.p : b[i] = c.data[c.p + i]
    BY <1>14, <2>2, <2>8, TakenRest
  <2>10. Len(b) = here
    BY <1>6, <1>12, <2>1, <2>9
  <2>11. y \in Seq(Byte) /\ Len(y) = Len(g) + Len(b)
    BY <2>3, <2>9, Joined
  <2>12. Len(y) = m + here
    BY <1>9, <2>10, <2>11
  <2>13. Matches(y, v, a)
    <3>1. CASE left > 0
      <4>1. \A i \in 1 .. Len(b) : b[i] = c.data[c.p + i]
        BY <2>9
      <4>2. c.p + Len(b) <= Len(c.data)
        <5>1. p + here <= n
          BY <1>14, <2>1, <2>4
        <5> QED BY <1>6, <1>12, <2>10, <5>1
      <4>3. Matches(g \o b, v, a)
        BY <1>14, <1>15, <1>19, <1>21, <2>9, <3>1, <4>1, <4>2, Takes
      <4> QED BY <2>3, <4>3
    <3>2. CASE ~(left > 0)
      <4>1. Len(b) = 0
        BY <1>18, <2>4, <2>5, <2>10, <3>2
      <4>2. y = g
        BY <2>3, <2>9, <4>1, ConcatEmptySeq
      <4> QED BY <1>15, <4>2
    <3> QED BY <3>1, <3>2
  <2>14. PICK d : d = [c EXCEPT !.p = n]
    OBVIOUS
  <2>15. d \in ChunkObject /\ d.n = c.n /\ d.data = c.data /\ d.p = n
    BY <1>14, <2>14, HeadSet
  <2>16. Moved(x, h, "fetch", k + here, d, left - here)
    BY <2>3, <2>14
  <2>17. /\ SameCall(x, h) /\ x.pc = "fetch" /\ x.position = k + here /\ x.chunk = d /\ x.need = left - here
    BY <1>3, <1>14, <2>6, <2>7, <2>15, <2>16, KindsAre, MovedIs
  <2>18. x.from = a /\ x.asked = q /\ x.op = "readBuffer"
    BY <1>10, <1>11, <2>17 DEF SameCall
  <2>19. x.position = x.from + Len(y)
    BY <1>14, <1>15, <2>4, <2>12, <2>17, <2>18
  <2>20. Least(x.position + x.need, Len(v)) = Least(x.from + x.asked, Len(v))
    <3>1. (k + here) + (left - here) = e
      BY <1>14, <1>18, <2>4
    <3>2. e \in Nat /\ e <= N
      BY <1>14, <1>18
    <3>3. Least(e, N) = e
      BY <1>14, <3>2 DEF Least
    <3>4. Least((k + here) + (left - here), N) = e
      BY <3>1, <3>3
    <3> QED BY <1>7, <1>17, <2>17, <2>18, <3>4
  <2>21. ASSUME x.position < Len(v), x.need > 0
         PROVE  /\ Whole(x.chunk, v) /\ x.chunk.p <= Len(x.chunk.data)
                /\ x.position = From(x.chunk) + x.chunk.p
    <3>1. left - here > 0
      BY <2>17, <2>21
    <3>2. left > 0
      BY <1>18, <2>4, <3>1
    <3>3. Whole(c, v) /\ k = f + p
      BY <1>19, <3>2
    <3>4. From(d) = f /\ Len(d.data) = n
      BY <1>6, <1>13, <2>15 DEF From
    <3>5. Whole(d, v)
      BY <2>15, <3>3 DEF Whole, Piece, From
    <3>6. k + here = f + n
      BY <1>14, <2>1, <2>4, <3>3
    <3>7. x.chunk = d /\ x.position = k + here /\ d.p = n
      BY <2>15, <2>17
    <3>8. n <= n
      BY <1>14
    <3>9. Whole(x.chunk, v)
      BY <3>5, <3>7
    <3>10. x.chunk.p <= Len(x.chunk.data)
      BY <3>4, <3>7, <3>8
    <3>11. x.position = From(x.chunk) + x.chunk.p
      BY <3>4, <3>6, <3>7
    <3> QED BY <3>9, <3>10, <3>11
  <2>22. Matches(y, v, x.from)
    BY <2>13, <2>18
  <2>23. Buffers(x, y, v)
    BY <2>19, <2>20, <2>21, <2>22 DEF Buffers
  <2>24. x.chunk.p = Len(x.chunk.data)
    BY <1>6, <2>15, <2>17
  <2> QED BY <1>1, <1>2, <2>17, <2>18, <2>23, <2>24 DEF Outcome, Waits
<1> QED BY <1>5, <1>22, <1>23

LEMMA CharStepWhole ==
  ASSUME NEW h \in Reader, h.op = "getc", CharStep(h), NEW v \in Seq(Byte), Whole(h.chunk, v),
         h.chunk.p < Len(h.chunk.data), h.from = From(h.chunk) + h.chunk.p, h.asked = 1
  PROVE  Outcome(r', got', v)
<1>1. PICK x : x = r'
  OBVIOUS
<1>2. PICK y : y = got'
  OBVIOUS
<1>3. PICK c : c = h.chunk
  OBVIOUS
<1>4. PICK n : n = Len(c.data)
  OBVIOUS
<1>5. PICK N : N = Len(v)
  OBVIOUS
<1>6. PICK a : a = h.from
  OBVIOUS
<1>7. PICK p : p = c.p
  OBVIOUS
<1>8. PICK f : f = From(c)
  OBVIOUS
<1>9. /\ c \in ChunkObject /\ p \in Nat /\ n \in Nat /\ p < n /\ f \in Nat /\ N \in Nat /\ a \in Nat
      /\ a = f + p
  BY <1>3, <1>4, <1>5, <1>6, <1>7, <1>8, ReaderIs
<1>10. InHand(c, v) /\ c.data # <<>> /\ f + n <= N
  BY <1>3, <1>4, <1>5, <1>8, <1>9, WholeIs
<1>11. /\ SameCall(x, h) /\ x.pc = "idle" /\ y \in ChunkRead(c, 1)
  BY <1>1, <1>2, <1>3, CharStepIs DEF Stepped
<1>12. p + 1 <= n
  BY <1>9
<1>13. p + 1 <= n + 1
  BY <1>9
<1>14. Holds(c, 1)
  BY <1>4, <1>7, <1>13 DEF Holds
<1>15. y \in Bytes(c, 1)
  <2>1. 1 > 0
    OBVIOUS
  <2> QED BY <1>11, <1>14, <2>1 DEF ChunkRead
<1>16. c.p + 1 <= Len(c.data)
  BY <1>4, <1>7, <1>12
<1>17. y \in Seq(Byte) /\ Len(y) = 1 /\ \A i \in 1 .. 1 : y[i] = c.data[c.p + i]
  <2>1. 1 \in Nat
    OBVIOUS
  <2> QED BY <1>9, <1>15, <1>16, <2>1, BytesTaken
<1>18. a <= Len(v)
  BY <1>5, <1>9, <1>10
<1>19. Matches(<<>>, v, a)
  BY <1>9, <1>18, EmptyMatches
<1>20. <<>> \in Seq(Byte) /\ Len(<<>>) = 0
  OBVIOUS
<1>21. a + Len(<<>>) = From(c) + c.p
  BY <1>7, <1>8, <1>9, <1>20
<1>22. c.p + Len(y) <= Len(c.data) /\ \A i \in 1 .. Len(y) : y[i] = c.data[c.p + i]
  BY <1>16, <1>17
<1>23. Matches(<<>> \o y, v, a)
  BY <1>9, <1>10, <1>17, <1>19, <1>20, <1>21, <1>22, Takes
<1>24. <<>> \o y = y
  BY <1>17, ConcatEmptySeq
<1>25. Matches(y, v, a)
  BY <1>23, <1>24
<1>26. Least(a + 1, N) = a + 1
  BY <1>9, <1>10 DEF Least
<1>27. a + Len(y) = Least(a + 1, Len(v))
  BY <1>5, <1>17, <1>26
<1>28. Exactly(y, v, a, 1)
  BY <1>9, <1>17, <1>25, <1>27, ExactlyIs
<1>29. x.from = a /\ x.asked = 1
  BY <1>6, <1>11 DEF SameCall
<1> QED BY <1>1, <1>2, <1>11, <1>28, <1>29 DEF Outcome, Done

-----------------------------------------------------------------------------
(* The stream.  z: its state.                                              *)

StreamState ==
  [final : Sizes, completed : Nat, paused : BOOLEAN, readable : BOOLEAN, pending : BOOLEAN,
   loads : Seq(Nat), ticks : Nat, pauses : 0 .. MaxPauses, overlap : BOOLEAN]

\* The stream has given the bytes g and goes on in chunk c, or in the one that
\* is on its way.
Streams(c, h, z, g, v) ==
  /\ z.completed = Len(g) /\ z.final = h.asked /\ h.from + h.asked = Len(v)
  /\ Ready(c, v, h.from, h.asked, g)
  /\ z.loads = <<>> \/ (z.loads = <<NextNumber(c)>> /\ Spent(c, v, h.from, h.asked, g))

Given(h, z, g, v) ==
  /\ z.readable => Streams(h.chunk, h, z, g, v)
  /\ ~z.readable => Done(h, g, v)

\* x is h with chunk c.
Rechunked(x, h, c) == x = [h EXCEPT !.chunk = c]

SameReader(x, h) ==
  /\ x.pc = h.pc /\ x.fid = h.fid /\ x.length = h.length /\ x.position = h.position /\ x.op = h.op
  /\ x.from = h.from /\ x.start = h.start /\ x.asked = h.asked /\ x.need = h.need /\ x.exact = h.exact

LEMMA RechunkedIs ==
  ASSUME NEW h \in Reader, NEW c \in ChunkObject, NEW x, Rechunked(x, h, c)
  PROVE  x \in Reader /\ x.chunk = c /\ SameReader(x, h)
<1>1. x = [pc |-> h.pc, fid |-> h.fid, length |-> h.length, position |-> h.position, chunk |-> c,
           op |-> h.op, from |-> h.from, start |-> h.start, asked |-> h.asked, need |-> h.need,
           exact |-> h.exact]
  BY DEF Rechunked, Reader
<1>2. /\ h.pc \in ReaderPlaces /\ h.fid \in 0 .. MaxOpens /\ h.length \in Sizes /\ h.op \in Operations
      /\ h.from \in Nat /\ h.position \in Nat /\ h.need \in Sizes
      /\ h.start \in Nat /\ h.asked \in Sizes /\ h.exact \in BOOLEAN
  BY DEF Reader
<1>3. x \in Reader
  BY <1>1, <1>2 DEF Reader
<1> QED BY <1>1, <1>3 DEF SameReader

\* What _execute does when it gives k bytes of chunk c to the stream.
Emits(c, k, b) ==
  /\ b \in IF Holds(c, k) THEN Bytes(c, k) ELSE {<<>>}
  /\ got' = got \o b
  /\ Rechunked(r', r, Advance(c, k))

LEMMA RemainingIs ==
  ASSUME NEW z \in StreamState
  PROVE  /\ z.final \in Nat /\ z.completed \in Nat /\ Remaining(z) \in Nat
         /\ z.completed <= z.final => Remaining(z) = z.final - z.completed
<1>1. z.final \in Sizes /\ z.completed \in Nat
  BY DEF StreamState
<1>2. z.final \in Nat
  BY <1>1, Constants DEF Sizes
<1> QED BY <1>1, <1>2 DEF Remaining

LEMMA EmitsType ==
  ASSUME r \in Reader, got \in Seq(Byte), NEW c \in ChunkObject, NEW k \in Nat, NEW b, Emits(c, k, b)
  PROVE  /\ b \in Seq(Byte) /\ Len(b) \in Nat /\ got' \in Seq(Byte)
         /\ r' \in Reader /\ SameReader(r', r)
         /\ r'.chunk = Advance(c, k) /\ r'.chunk.n = c.n /\ r'.chunk.data = c.data
<1>1. b \in IF Holds(c, k) THEN Bytes(c, k) ELSE {<<>>}
  BY DEF Emits
<1>2. b \in Seq(Byte) /\ Len(b) \in Nat
  <2>1. CASE Holds(c, k)
    <3>1. b \in Bytes(c, k)
      BY <1>1, <2>1
    <3> QED BY <3>1, BytesType
  <2>2. CASE ~Holds(c, k)
    <3>1. b = <<>>
      BY <1>1, <2>2
    <3> QED BY <3>1
  <2> QED BY <2>1, <2>2
<1>3. got' \in Seq(Byte)
  BY <1>2, Joined DEF Emits
<1>4. PICK d : d = Advance(c, k)
  OBVIOUS
<1>5. d \in ChunkObject /\ d.n = c.n /\ d.data = c.data
  BY <1>4, AdvanceIs
<1>6. Rechunked(r', r, d)
  BY <1>4 DEF Emits
<1>7. r' \in Reader /\ r'.chunk = d /\ SameReader(r', r)
  BY <1>5, <1>6, RechunkedIs
<1> QED BY <1>2, <1>3, <1>4, <1>5, <1>7

\* What _execute may do: nothing, give the last bytes, or give those of a chunk
\* and load the next one.
Rests(z, c) == ~Executes(z) /\ s' = z /\ Rechunked(r', r, c) /\ got' = got

Ending(z, c) ==
  /\ Len(c.data) + 1 + z.completed >= z.final + c.p
  /\ \E b : Emits(c, Remaining(z), b)
  /\ ~s'.readable /\ s'.overlap = z.overlap

Loading(z, c) ==
  /\ ~(Len(c.data) + 1 + z.completed >= z.final + c.p)
  /\ \E b : Emits(c, Len(c.data), b) /\ s'.completed = z.completed + Len(b)
  /\ s'.readable /\ s'.loads = Append(z.loads, NextNumber(c)) /\ s'.final = z.final
  /\ s'.overlap = (z.overlap \/ z.loads # <<>>)

LEMMA ExecuteIs ==
  ASSUME r \in Reader, got \in Seq(Byte), NEW z \in StreamState, NEW c \in ChunkObject, Execute(z, c)
  PROVE  /\ s' \in StreamState
         /\ Rests(z, c) \/ (Executes(z) /\ Ending(z, c)) \/ (Executes(z) /\ Loading(z, c))
<1>1. CASE ~Executes(z)
  BY <1>1 DEF Execute, Rests, Rechunked
<1>2. /\ z.final \in Sizes /\ z.completed \in Nat /\ z.paused \in BOOLEAN /\ z.pending \in BOOLEAN
      /\ z.loads \in Seq(Nat) /\ z.ticks \in Nat /\ z.pauses \in 0 .. MaxPauses /\ z.overlap \in BOOLEAN
      /\ Len(c.data) \in Nat /\ c.n \in Nat /\ NextNumber(c) \in Nat
  BY DEF StreamState, ChunkObject, NextNumber
<1>3. CASE Executes(z) /\ Len(c.data) + 1 + z.completed >= z.final + c.p
  <2>1. PICK k : k = Remaining(z)
    OBVIOUS
  <2>2. k \in Nat
    BY <2>1, RemainingIs
  <2>3. PICK b \in IF Holds(c, k) THEN Bytes(c, k) ELSE {<<>>} :
          /\ got' = got \o b
          /\ r' = [r EXCEPT !.chunk = Advance(c, k)]
          /\ s' = [z EXCEPT !.completed = @ + Len(b), !.readable = FALSE,
                            !.pending = @ /\ ~Holds(c, k), !.loads = @, !.overlap = @ \/ FALSE]
    BY <1>3, <2>1 DEF Execute
  <2>4. Emits(c, k, b)
    BY <2>3 DEF Emits, Rechunked
  <2>5. Len(b) \in Nat
    BY <2>2, <2>4, EmitsType
  <2>6. PICK m : m = z.completed + Len(b)
    OBVIOUS
  <2>7. m \in Nat
    BY <1>2, <2>5, <2>6
  <2>8. PICK o \in BOOLEAN : o = (z.pending /\ ~Holds(c, k))
    OBVIOUS
  <2>9. s' = [z EXCEPT !.completed = m, !.readable = FALSE, !.pending = o, !.overlap = @ \/ FALSE]
    BY <2>3, <2>6, <2>8 DEF StreamState
  <2>10. s' \in StreamState
    BY <1>2, <2>7, <2>9 DEF StreamState
  <2>11. ~s'.readable /\ s'.overlap = z.overlap
    BY <1>2, <2>9 DEF StreamState
  <2> QED BY <1>3, <2>1, <2>4, <2>10, <2>11 DEF Ending
<1>4. CASE Executes(z) /\ ~(Len(c.data) + 1 + z.completed >= z.final + c.p)
  <2>1. PICK k : k = Len(c.data)
    OBVIOUS
  <2>2. PICK b \in IF Holds(c, k) THEN Bytes(c, k) ELSE {<<>>} :
          /\ got' = got \o b
          /\ r' = [r EXCEPT !.chunk = Advance(c, k)]
          /\ s' = [z EXCEPT !.completed = @ + Len(b), !.readable = TRUE,
                            !.pending = @ /\ ~Holds(c, k), !.loads = Append(@, NextNumber(c)),
                            !.overlap = @ \/ (TRUE /\ z.loads # <<>>)]
    BY <1>4, <2>1 DEF Execute
  <2>3. Emits(c, k, b)
    BY <2>2 DEF Emits, Rechunked
  <2>4. Len(b) \in Nat
    BY <1>2, <2>1, <2>3, EmitsType
  <2>5. PICK m : m = z.completed + Len(b)
    OBVIOUS
  <2>6. m \in Nat
    BY <1>2, <2>4, <2>5
  <2>7. PICK o \in BOOLEAN : o = (z.pending /\ ~Holds(c, k))
    OBVIOUS
  <2>8. PICK t : t = Append(z.loads, NextNumber(c))
    OBVIOUS
  <2>9. t \in Seq(Nat)
    BY <1>2, <2>8
  <2>10. PICK u \in BOOLEAN : u = (z.overlap \/ z.loads # <<>>)
    OBVIOUS
  <2>11. s' = [z EXCEPT !.completed = m, !.readable = TRUE, !.pending = o, !.loads = t, !.overlap = u]
    BY <2>2, <2>5, <2>7, <2>8, <2>10 DEF StreamState
  <2>12. s' \in StreamState
    BY <1>2, <2>6, <2>9, <2>11 DEF StreamState
  <2>13. /\ s'.readable /\ s'.loads = t /\ s'.overlap = u /\ s'.completed = m /\ s'.final = z.final
    BY <2>11 DEF StreamState
  <2> QED BY <1>4, <2>1, <2>3, <2>5, <2>8, <2>10, <2>12, <2>13 DEF Loading
<1> QED BY <1>1, <1>3, <1>4

LEMMA ExecuteWhole ==
  ASSUME r \in Reader, got \in Seq(Byte), NEW z \in StreamState, NEW c \in ChunkObject, Execute(z, c),
         NEW v \in Seq(Byte), z.readable => Streams(c, r, z, got, v), ~z.readable => Done(r, got, v),
         ~s'.overlap
  PROVE  Given(r', s', got', v)
<1>1. PICK x : x = r'
  OBVIOUS
<1>2. PICK y : y = got'
  OBVIOUS
<1>3. PICK u : u = s'
  OBVIOUS
<1>4. PICK a : a = r.from
  OBVIOUS
<1>5. PICK q : q = r.asked
  OBVIOUS
<1>6. a \in Nat /\ q \in Nat /\ c.n \in Nat /\ Len(c.data) \in Nat /\ Len(got) \in Nat
  BY <1>4, <1>5, ReaderIs, SMTT(60) DEF ChunkObject
<1>7. Rests(z, c) \/ (Executes(z) /\ Ending(z, c)) \/ (Executes(z) /\ Loading(z, c))
  BY ExecuteIs
<1>8. CASE Rests(z, c)
  <2>1. u = z /\ y = got /\ Rechunked(x, r, c)
    BY <1>1, <1>2, <1>3, <1>8 DEF Rests
  <2>2. x.chunk = c /\ x.from = a /\ x.asked = q
    BY <1>4, <1>5, <2>1, RechunkedIs DEF SameReader
  <2>3. u.readable => Streams(x.chunk, x, u, y, v)
    BY <1>4, <1>5, <2>1, <2>2 DEF Streams
  <2>4. ~u.readable => Done(x, y, v)
    BY <1>4, <1>5, <2>1, <2>2 DEF Done
  <2> QED BY <1>1, <1>2, <1>3, <2>3, <2>4 DEF Given
<1>9. ASSUME Executes(z)
      PROVE  /\ z.completed = Len(got) /\ z.final = q /\ a + q = Len(v) /\ Ready(c, v, a, q, got)
             /\ z.completed <= z.final
  <2>1. Streams(c, r, z, got, v)
    BY <1>9 DEF Executes
  <2>2. z.completed = Len(got) /\ z.final = q /\ a + q = Len(v) /\ Ready(c, v, a, q, got)
    BY <1>4, <1>5, <2>1 DEF Streams
  <2> QED BY <2>2 DEF Ready
<1>10. CASE Executes(z) /\ Ending(z, c)
  <2>1. /\ Len(c.data) + 1 + Len(got) >= q + c.p /\ ~u.readable
    BY <1>3, <1>9, <1>10 DEF Ending
  <2>2. PICK b : Emits(c, Remaining(z), b)
    BY <1>10 DEF Ending
  <2>3. PICK k : k = q - Len(got)
    OBVIOUS
  <2>4. Remaining(z) = k /\ k \in Nat
    <3>1. Remaining(z) = z.final - z.completed /\ Remaining(z) \in Nat
      BY <1>9, <1>10, RemainingIs
    <3> QED BY <1>9, <1>10, <2>3, <3>1
  <2>5. Holds(c, k)
    BY <1>6, <1>9, <1>10, <2>1, <2>3, Ends
  <2>6. Emits(c, k, b)
    BY <2>2, <2>4
  <2>7. b \in Bytes(c, k) /\ y = got \o b
    BY <1>2, <2>5, <2>6 DEF Emits
  <2>8. b \in Bytes(c, q - Len(got))
    BY <2>3, <2>7
  <2>9. Exactly(got \o b, v, a, q)
    BY <1>6, <1>9, <1>10, <2>1, <2>8, EndsWith
  <2>10. SameReader(x, r)
    BY <1>1, <2>4, <2>6, EmitsType
  <2>11. Done(x, y, v)
    BY <1>4, <1>5, <2>7, <2>9, <2>10 DEF Done, SameReader
  <2> QED BY <1>1, <1>2, <1>3, <2>1, <2>11 DEF Given
<1>11. CASE Executes(z) /\ Loading(z, c)
  <2>1. /\ ~(Len(c.data) + 1 + Len(got) >= q + c.p) /\ u.readable
        /\ u.loads = Append(z.loads, NextNumber(c)) /\ u.final = q
        /\ u.overlap = (z.overlap \/ z.loads # <<>>)
    BY <1>3, <1>9, <1>11 DEF Loading
  <2>2. PICK b : Emits(c, Len(c.data), b) /\ u.completed = Len(got) + Len(b)
    BY <1>3, <1>9, <1>11 DEF Loading
  <2>3. z.loads = <<>>
    BY <1>3, <2>1
  <2>4. b \in (IF Holds(c, Len(c.data)) THEN Bytes(c, Len(c.data)) ELSE {<<>>}) /\ y = got \o b
    BY <1>2, <2>2 DEF Emits
  <2>5. PICK d : d = Advance(c, Len(c.data))
    OBVIOUS
  <2>6. Spent(d, v, a, q, y)
    BY <1>6, <1>9, <1>11, <2>1, <2>4, <2>5, Turns
  <2>7. b \in Seq(Byte) /\ SameReader(x, r) /\ x.chunk = d /\ d.n = c.n
    BY <1>1, <1>6, <2>2, <2>5, EmitsType
  <2>8. Len(y) = Len(got) + Len(b)
    BY <2>4, <2>7, Joined
  <2>9. u.loads = <<NextNumber(d)>>
    <3>1. PICK j : j = NextNumber(c)
      OBVIOUS
    <3>2. u.loads = <<j>>
      BY <2>1, <2>3, <3>1
    <3>3. NextNumber(d) = j
      BY <2>7, <3>1 DEF NextNumber
    <3> QED BY <3>2, <3>3
  <2>10. x.from = a /\ x.asked = q
    BY <1>4, <1>5, <2>7 DEF SameReader
  <2>11. Ready(d, v, a, q, y)
    BY <2>6 DEF Spent
  <2>12. Streams(x.chunk, x, u, y, v)
    BY <1>9, <1>11, <2>1, <2>2, <2>6, <2>7, <2>8, <2>9, <2>10, <2>11 DEF Streams
  <2> QED BY <1>1, <1>2, <1>3, <2>1, <2>12 DEF Given
<1> QED BY <1>7, <1>8, <1>10, <1>11

\* When the chunk that is on its way comes, the stream goes on in it.
LEMMA LoadGoesOn ==
  ASSUME IInv, r \in Reader, NEW v \in Seq(Byte), Stored(Docs(r.fid), v), s \in StreamState,
         got \in Seq(Byte), Streams(r.chunk, r, s, got, v), s.loads # <<>>,
         NEW z, z = [s EXCEPT !.pending = TRUE, !.loads = Tail(@)]
  PROVE  /\ Streams(r.chunk, r, z, got, v)
         /\ \A c \in Fetched(s.loads[1]) : Streams(c, r, z, got, v)
<1>1. z.completed = s.completed /\ z.final = s.final /\ z.loads = Tail(s.loads)
  BY DEF StreamState
<1>2. PICK a : a = r.from
  OBVIOUS
<1>3. PICK q : q = r.asked
  OBVIOUS
<1>4. PICK d : d = r.chunk
  OBVIOUS
<1>5. /\ s.completed = Len(got) /\ s.final = q /\ a + q = Len(v) /\ Ready(d, v, a, q, got)
      /\ s.loads = <<NextNumber(d)>> /\ Spent(d, v, a, q, got)
  BY <1>2, <1>3, <1>4 DEF Streams
<1>6. a \in Nat /\ q \in Nat /\ d \in ChunkObject /\ d.n \in Nat /\ NextNumber(d) \in Nat
  BY <1>2, <1>3, <1>4, ReaderIs DEF NextNumber
<1>7. s.loads[1] = NextNumber(d) /\ z.loads = <<>>
  BY <1>1, <1>5
<1>8. Streams(r.chunk, r, z, got, v)
  BY <1>1, <1>2, <1>3, <1>4, <1>5, <1>7 DEF Streams
<1>9. ASSUME NEW c \in Fetched(NextNumber(d))
      PROVE  Streams(c, r, z, got, v)
  <2>1. (d.n + 1) * ChunkSize < Len(v)
    BY <1>5, <1>6, SpentIs
  <2>2. NextNumber(d) * ChunkSize < Len(v)
    BY <2>1 DEF NextNumber
  <2>3. c \in ChunkObject /\ c.p = 0 /\ Whole(c, v) /\ c.n = NextNumber(d)
    BY <1>6, <2>2, FetchedType, FetchedIs
  <2>4. c.n = d.n + 1
    BY <2>3 DEF NextNumber
  <2>5. Ready(c, v, a, q, got)
    BY <1>5, <1>6, <2>3, <2>4, SpentIs
  <2> QED BY <1>1, <1>2, <1>3, <1>5, <1>7, <2>5 DEF Streams
<1> QED BY <1>7, <1>8, <1>9

-----------------------------------------------------------------------------
(* The invariant of the object that reads                                  *)

Typed(h, z, g, v) == h \in Reader /\ z \in StreamState /\ g \in Seq(Byte) /\ v \in Seq(Byte)

Placed(h, z, g) ==
  /\ UnderWay(h, g)
  /\ h.pc \in {"none", "find", "first"} => h.op = "none"
  /\ h.pc = "stream" <=> h.op = "stream"
  /\ h.pc # "stream" => z = NoStream

\* The file is stored, and the chunk is one of it or stands for a missing one.
Known(C, h, v) ==
  /\ h.pc \notin {"none", "find"} => Stored(DocsOf(C, h.fid), v) /\ Len(v) = h.length
  /\ h.pc \in {"idle", "fetch", "stream", "stuck"} => InHand(h.chunk, v)

\* A call has what it should have, at each place it may be.
Right(h, z, g, v) ==
  /\ h.pc = "fetch" => Waits(h, g, v)
  /\ h.pc = "stream" => Given(h, z, g, v)
  /\ h.pc = "idle" /\ h.op # "none" => Done(h, g, v)

RInv ==
  /\ Typed(r, s, got, image) /\ calm \in BOOLEAN /\ reads \in 0 .. MaxReads
  /\ Placed(r, s, got)
  /\ calm => Known(chunks, r, image)
  /\ calm /\ r.exact /\ ~s.overlap /\ ~Off(r) => Right(r, s, got, image)

LEMMA StepKeeps ==
  ASSUME RInv, r.pc \in {"idle", "fetch"}, UNCHANGED <<gridVars, s, image, calm>>, reads' \in 0 .. MaxReads,
         NEW h \in Reader, h.fid = r.fid, h.length = r.length, h.op \in {"read", "readBuffer", "getc"},
         Stepped(r', got', h), calm => InHand(h.chunk, image),
         calm /\ h.exact /\ ~Off(h) => Outcome(r', got', image)
  PROVE  RInv'
<1>1. PICK x : x = r'
  OBVIOUS
<1>2. PICK y : y = got'
  OBVIOUS
<1>3. /\ x \in Reader /\ y \in Seq(Byte) /\ x.pc \in {"idle", "fetch"} /\ SameCall(x, h) /\ UnderWay(x, y)
  BY <1>1, <1>2 DEF Stepped
<1>4. /\ x.fid = r.fid /\ x.length = r.length /\ x.op = h.op /\ x.exact = h.exact
      /\ x.chunk.n = h.chunk.n /\ x.chunk.data = h.chunk.data /\ x.start = h.start /\ x.asked = h.asked
  BY <1>3 DEF SameCall
<1>5. Typed(x, s, y, image)
  BY <1>3 DEF RInv, Typed
<1>6. r.pc # "stream" /\ x.pc # "stream" /\ x.op # "stream"
  BY <1>3, <1>4
<1>7. Placed(x, s, y)
  BY <1>3, <1>6 DEF RInv, Placed
<1>8. ASSUME calm
      PROVE  Known(chunks, x, image)
  <2>1. Stored(DocsOf(chunks, r.fid), image) /\ Len(image) = r.length
    BY <1>8 DEF RInv, Known
  <2>2. InHand(x.chunk, image)
    BY <1>4, <1>8 DEF InHand, Whole, From, Piece
  <2> QED BY <1>4, <2>1, <2>2 DEF Known
<1>9. ASSUME calm, x.exact, ~Off(x)
      PROVE  Right(x, s, y, image)
  <2>1. h.exact /\ ~Off(h)
    BY <1>4, <1>9 DEF Off
  <2>2. Outcome(x, y, image)
    BY <1>1, <1>2, <1>9, <2>1
  <2> QED BY <1>6, <2>2 DEF Right, Outcome
<1>10. chunks' = chunks /\ s' = s /\ image' = image /\ calm' = calm
  BY DEF gridVars
<1> QED BY <1>1, <1>2, <1>5, <1>7, <1>8, <1>9, <1>10 DEF RInv

-----------------------------------------------------------------------------
(* Reading calls                                                           *)

\* The position is that of the head, in a chunk of the file.
Sure ==
  /\ r.position = HeadAt(r) /\ r.chunk.p <= Len(r.chunk.data)
  /\ r.chunk.data # <<>> \/ r.length = 0

LEMMA CountIs ==
  ASSUME RInv, reads < MaxReads, reads' = reads + 1
  PROVE  reads' \in 0 .. MaxReads
BY ReadAssumption DEF RInv

LEMMA BeginIs ==
  ASSUME r \in Reader, r.pc = "idle", NEW op \in Operations, NEW k \in Sizes, NEW h, h = Begin(op, k)
  PROVE  /\ h \in Reader /\ h.pc = "idle" /\ h.fid = r.fid /\ h.length = r.length
         /\ h.position = r.position /\ h.chunk = r.chunk /\ h.op = op
         /\ h.from = From(r.chunk) + r.chunk.p /\ h.start = r.chunk.p /\ h.asked = k /\ h.need = k
         /\ h.exact => /\ h.position = h.from /\ r.chunk.p <= Len(r.chunk.data)
                       /\ r.chunk.data # <<>> \/ r.length = 0
<1>1. PICK a : a = HeadAt(r)
  OBVIOUS
<1>2. a \in Nat /\ a = From(r.chunk) + r.chunk.p
  BY <1>1, ReaderIs DEF HeadAt, From
<1>3. PICK e \in BOOLEAN : e = Sure
  BY DEF Sure
<1>4. h = [r EXCEPT !.op = op, !.from = a, !.start = r.chunk.p, !.asked = k, !.need = k, !.exact = e]
  <2>1. h = [r EXCEPT !.op = op, !.from = a, !.start = r.chunk.p, !.asked = k, !.need = k, !.exact = Sure]
    BY <1>1, Zenon DEF Begin, Sure
  <2> QED BY <1>3, <2>1, Zenon
<1>5. r.chunk.p \in Nat
  BY ReaderIs
<1>6. h = [pc |-> r.pc, fid |-> r.fid, length |-> r.length, position |-> r.position, chunk |-> r.chunk,
           op |-> op, from |-> a, start |-> r.chunk.p, asked |-> k, need |-> k, exact |-> e]
  BY <1>4 DEF Reader
<1>7. /\ r.pc \in ReaderPlaces /\ r.fid \in 0 .. MaxOpens /\ r.length \in Sizes /\ r.position \in Nat
      /\ r.chunk \in ChunkObject
  BY DEF Reader
<1>8. h \in Reader
  BY <1>2, <1>5, <1>6, <1>7 DEF Reader
<1>9. h.exact = e
  BY <1>6
<1>10. /\ h.pc = "idle" /\ h.fid = r.fid /\ h.length = r.length
       /\ h.position = r.position /\ h.chunk = r.chunk /\ h.op = op
       /\ h.from = a /\ h.start = r.chunk.p /\ h.asked = k /\ h.need = k
  BY <1>6
<1>11. ASSUME h.exact
       PROVE  /\ h.position = h.from /\ r.chunk.p <= Len(r.chunk.data)
              /\ r.chunk.data # <<>> \/ r.length = 0
  <2>1. Sure
    BY <1>3, <1>9, <1>11
  <2> QED BY <1>1, <1>10, <2>1 DEF Sure
<1> QED BY <1>2, <1>8, <1>10, <1>11

\* What holds of a program's call when the file is intact and the call exact.
LEMMA BeginIn ==
  ASSUME RInv, r.pc = "idle", calm, NEW op \in Operations, NEW k \in Sizes, NEW h, h = Begin(op, k), h.exact
  PROVE  /\ InHand(h.chunk, image) /\ (h.chunk.data = <<>> => image = <<>>) /\ h.length = Len(image)
         /\ h.position = h.from /\ h.from = From(h.chunk) + h.chunk.p /\ h.chunk.p <= Len(h.chunk.data)
         /\ h.from <= Len(image) /\ Matches(<<>>, image, h.from)
         /\ h.from < Len(image) => Whole(h.chunk, image)
<1>1. r \in Reader /\ image \in Seq(Byte) /\ InHand(r.chunk, image) /\ Len(image) = r.length
  BY DEF RInv, Typed, Known
<1>2. /\ h \in Reader /\ h.chunk = r.chunk /\ h.length = r.length
      /\ h.from = From(r.chunk) + r.chunk.p
      /\ h.position = h.from /\ r.chunk.p <= Len(r.chunk.data) /\ (r.chunk.data # <<>> \/ r.length = 0)
  BY <1>1, BeginIs
<1>3. PICK c : c = r.chunk
  OBVIOUS
<1>4. PICK f : f = From(c)
  OBVIOUS
<1>5. PICK n : n = Len(c.data)
  OBVIOUS
<1>6. PICK N : N = Len(image)
  OBVIOUS
<1>7. PICK p : p = c.p
  OBVIOUS
<1>8. PICK a : a = h.from
  OBVIOUS
<1>9. c \in ChunkObject /\ f \in Nat /\ n \in Nat /\ p \in Nat /\ N \in Nat
  BY <1>1, <1>3, <1>4, <1>5, <1>6, <1>7, ReaderIs
<1>10. c.data = <<>> => image = <<>>
  <2>1. ASSUME c.data = <<>>
        PROVE  image = <<>>
    <3>1. Len(image) = 0
      BY <1>1, <1>2, <1>3, <2>1
    <3> QED BY <1>1, <3>1
  <2> QED BY <2>1
<1>11. /\ f + n <= N /\ InHand(c, image)
  BY <1>1, <1>3, <1>4, <1>5, <1>6, <1>9, <1>10, InIs
<1>12. a = f + p /\ p <= n
  BY <1>2, <1>3, <1>4, <1>5, <1>7, <1>8
<1>13. a \in Nat /\ a <= N
  BY <1>9, <1>11, <1>12
<1>14. Matches(<<>>, image, a)
  BY <1>1, <1>6, <1>13, EmptyMatches
<1>15. ASSUME a < N
       PROVE  Whole(c, image)
  <2>1. image # <<>>
    BY <1>6, <1>9, <1>13, <1>15
  <2> QED BY <1>10, <1>11, <2>1 DEF InHand
<1> QED BY <1>1, <1>2, <1>3, <1>4, <1>6, <1>7, <1>8, <1>10, <1>11, <1>12, <1>13, <1>14, <1>15

LEMMA BeginReady ==
  ASSUME RInv, r.pc = "idle", calm, NEW op \in {"read", "stream"}, NEW k \in Sizes,
         r.position + k <= r.length, NEW h, h = Begin(op, k), h.exact, ~Off(h)
  PROVE  Ready(h.chunk, image, h.from, h.asked, <<>>) /\ (op = "read" /\ k = 0 => h.chunk.p = 0)
<1>1. op \in Operations
  BY KindsAre
<1>2. r \in Reader /\ image \in Seq(Byte) /\ Len(image) = r.length
  BY DEF RInv, Typed, Known
<1>3. /\ h \in Reader /\ h.op = op /\ h.asked = k /\ h.start = h.chunk.p /\ h.position = r.position
      /\ h.length = r.length
  BY <1>1, <1>2, BeginIs
<1>4. /\ InHand(h.chunk, image) /\ (h.chunk.data = <<>> => image = <<>>)
      /\ h.position = h.from /\ h.from = From(h.chunk) + h.chunk.p /\ h.chunk.p <= Len(h.chunk.data)
      /\ Matches(<<>>, image, h.from)
  BY <1>1, BeginIn
<1>5. h.start \in Nat /\ h.asked \in Nat /\ h.from \in Nat
  BY <1>3, ReaderIs
<1>6. Fair(h.start, h.asked) /\ (h.op = "read" /\ h.asked = 0 => h.start = 0)
  BY <1>3, <1>5, FairIs
<1>7. PICK q : q = h.asked
  OBVIOUS
<1>8. q \in Nat /\ q - 0 = q /\ 0 <= q /\ Len(<<>>) = 0
  BY <1>5, <1>7
<1>9. Fair(h.chunk.p, q - Len(<<>>))
  BY <1>3, <1>6, <1>7, <1>8
<1>10. h.from + q <= Len(image)
  BY <1>2, <1>3, <1>4, <1>7
<1>11. h.from + Len(<<>>) = From(h.chunk) + h.chunk.p
  BY <1>4, <1>5, <1>8
<1>12. Ready(h.chunk, image, h.from, q, <<>>)
  BY <1>4, <1>8, <1>9, <1>10, <1>11 DEF Ready
<1> QED BY <1>3, <1>6, <1>7, <1>12

\* The calls of read.
LEMMA ReadBegins ==
  ASSUME RInv, Calling, NEW k \in Sizes, r.position + k <= r.length, k > 0 \/ r.position + k = r.length,
         ReadStep(Begin("read", k), <<>>), UNCHANGED s
  PROVE  RInv'
<1>1. PICK h : h = Begin("read", k)
  OBVIOUS
<1>2. r \in Reader /\ image \in Seq(Byte) /\ r.pc = "idle" /\ r.position \in Nat /\ k \in Nat
  BY Constants, ReaderIs DEF RInv, Typed, Calling, Sizes
<1>3. /\ h \in Reader /\ h.pc = "idle" /\ h.fid = r.fid /\ h.length = r.length /\ h.position = r.position
      /\ h.chunk = r.chunk /\ h.op = "read" /\ h.asked = k /\ h.need = k
  BY <1>1, <1>2, KindsAre, BeginIs
<1>4. ReadStep(h, <<>>) /\ <<>> \in Seq(Byte) /\ Len(<<>>) <= h.need
  BY <1>1, <1>2, <1>3
<1>5. Stepped(r', got', h)
  BY <1>3, <1>4, ReadStepType
<1>6. calm => InHand(h.chunk, image)
  BY <1>2, <1>3 DEF RInv, Known
<1>7. ASSUME calm, h.exact, ~Off(h)
      PROVE  Outcome(r', got', image)
  <2>1. "read" \in {"read", "stream"}
    OBVIOUS
  <2>2. Ready(h.chunk, image, h.from, h.asked, <<>>) /\ (k = 0 => h.chunk.p = 0)
    BY <1>1, <1>2, <1>7, <2>1, BeginReady
  <2>3. Len(<<>>) < h.asked \/ (h.from = Len(image) /\ h.chunk.p = 0)
    <3>1. CASE k > 0
      BY <1>2, <1>3, <3>1
    <3>2. CASE ~(k > 0)
      <4>1. k = 0 /\ r.position = r.length
        BY <1>2, <3>2, ReaderIs
      <4>2. h.length = Len(image) /\ h.position = h.from
        BY <1>1, <1>2, <1>7, KindsAre, BeginIn
      <4> QED BY <1>3, <2>2, <4>1, <4>2
    <3> QED BY <3>1, <3>2
  <2> QED BY <1>2, <1>3, <1>4, <2>2, <2>3, ReadStepIs
<1>8. reads' \in 0 .. MaxReads
  BY CountIs DEF Calling
<1>9. h.op \in {"read", "readBuffer", "getc"} /\ r.pc \in {"idle", "fetch"}
  BY <1>2, <1>3
<1>10. UNCHANGED <<gridVars, s, image, calm>>
  BY DEF Calling
<1> QED BY <1>3, <1>5, <1>6, <1>7, <1>8, <1>9, <1>10, StepKeeps

LEMMA ReadKeeps ==
  ASSUME RInv, NEW k \in 1 .. MaxBytes, Read(k)
  PROVE  RInv'
<1>1. k \in Sizes /\ k > 0
  BY Constants DEF Sizes
<1> QED BY <1>1, ReadBegins DEF Read

LEMMA ReadAllKeeps ==
  ASSUME RInv, ReadAll
  PROVE  RInv'
<1>1. PICK k : k = r.length - r.position
  OBVIOUS
<1>2. r.length \in Nat /\ r.position \in Nat /\ r.length <= MaxBytes /\ r.position <= r.length
  BY ReaderIs DEF RInv, Typed, ReadAll
<1>3. k \in Nat /\ k <= MaxBytes /\ r.position + k = r.length
  BY <1>1, <1>2, Constants
<1>4. k \in Sizes /\ r.position + k <= r.length
  BY <1>2, <1>3, KindsAre
<1> QED BY <1>1, <1>3, <1>4, ReadBegins DEF ReadAll

LEMMA ReadBufferKeeps ==
  ASSUME RInv, NEW k \in 1 .. MaxBytes, ReadBuffer(k)
  PROVE  RInv'
<1>1. PICK h : h = Begin("readBuffer", k)
  OBVIOUS
<1>2. /\ r \in Reader /\ image \in Seq(Byte) /\ r.pc = "idle" /\ k \in Sizes
      /\ r.chunk.p <= Len(r.chunk.data) /\ r.position <= r.length
  BY Constants DEF RInv, Typed, Calling, Sizes, ReadBuffer
<1>3. /\ h \in Reader /\ h.pc = "idle" /\ h.fid = r.fid /\ h.length = r.length /\ h.position = r.position
      /\ h.chunk = r.chunk /\ h.op = "readBuffer" /\ h.asked = k /\ h.need = k
  BY <1>1, <1>2, KindsAre, BeginIs
<1>4. BufferStep(h, <<>>) /\ <<>> \in Seq(Byte) /\ h.position <= h.length /\ h.chunk.p <= Len(h.chunk.data)
  BY <1>1, <1>2, <1>3 DEF ReadBuffer
<1>5. Stepped(r', got', h)
  BY <1>3, <1>4, BufferStepType
<1>6. calm => InHand(h.chunk, image)
  BY <1>2, <1>3 DEF RInv, Known
<1>7. ASSUME calm, h.exact, ~Off(h)
      PROVE  Outcome(r', got', image)
  <2>1. /\ h.length = Len(image) /\ h.position = h.from /\ h.from = From(h.chunk) + h.chunk.p
        /\ Matches(<<>>, image, h.from)
        /\ h.from < Len(image) => Whole(h.chunk, image)
    BY <1>1, <1>2, <1>7, KindsAre, BeginIn
  <2>2. h.position = h.from + Len(<<>>)
    BY <1>3, <2>1, ReaderIs
  <2>3. Least(h.position + h.need, Len(image)) = Least(h.from + h.asked, Len(image))
    BY <1>3, <2>1
  <2>4. Buffers(h, <<>>, image)
    BY <1>4, <2>1, <2>2, <2>3 DEF Buffers
  <2> QED BY <1>2, <1>3, <1>4, <2>1, <2>4, BufferStepWhole
<1>8. reads' \in 0 .. MaxReads
  BY CountIs DEF Calling, ReadBuffer
<1>9. h.op \in {"read", "readBuffer", "getc"} /\ r.pc \in {"idle", "fetch"}
  BY <1>2, <1>3
<1>10. UNCHANGED <<gridVars, s, image, calm>>
  BY DEF Calling, ReadBuffer
<1> QED BY <1>3, <1>5, <1>6, <1>7, <1>8, <1>9, <1>10, StepKeeps

LEMMA GetcKeeps ==
  ASSUME RInv, Getc
  PROVE  RInv'
<1>1. r \in Reader /\ image \in Seq(Byte) /\ r.pc = "idle" /\ 0 \in Sizes
  BY Constants DEF RInv, Typed, Calling, Sizes, Getc
<1>2. reads' \in 0 .. MaxReads /\ UNCHANGED <<gridVars, s, image, calm>>
  BY CountIs DEF Calling, Getc
<1>3. r.pc \in {"idle", "fetch"}
  BY <1>1
<1>4. CASE r.position = r.length
  <2>1. PICK h : h = Begin("getc", 0)
    OBVIOUS
  <2>2. /\ h \in Reader /\ h.pc = "idle" /\ h.fid = r.fid /\ h.length = r.length /\ h.position = r.position
        /\ h.chunk = r.chunk /\ h.op = "getc" /\ h.asked = 0
    BY <1>1, <2>1, KindsAre, BeginIs
  <2>3. r' = h /\ got' = <<>>
    BY <1>4, <2>1 DEF Getc
  <2>4. Stepped(h, <<>>, h)
    BY <2>2 DEF Stepped, SameCall, UnderWay
  <2>5. ASSUME calm, h.exact, ~Off(h)
        PROVE  Outcome(h, <<>>, image)
    <3>1. /\ h.length = Len(image) /\ h.position = h.from /\ Matches(<<>>, image, h.from)
      BY <1>1, <2>1, <2>5, KindsAre, BeginIn
    <3>2. PICK a : a = h.from
      OBVIOUS
    <3>3. a \in Nat /\ a = Len(image) /\ Len(<<>>) = 0
      BY <1>4, <2>2, <3>1, <3>2, ReaderIs
    <3>4. a + Len(<<>>) = Least(a + 0, Len(image))
      BY <3>3 DEF Least
    <3>5. Exactly(<<>>, image, a, 0)
      <4>1. Matches(<<>>, image, a) /\ <<>> \in Seq(Byte)
        BY <3>1, <3>2
      <4> QED BY <1>1, <3>3, <3>4, <4>1, ExactlyIs, Zenon
    <3> QED BY <2>2, <3>2, <3>5 DEF Outcome, Done
  <2>6. calm => InHand(h.chunk, image)
    BY <1>1, <2>2 DEF RInv, Known
  <2> QED BY <1>2, <1>3, <2>2, <2>3, <2>4, <2>5, <2>6, StepKeeps
<1>5. CASE r.position # r.length
  <2>1. 1 \in Sizes
    BY Constants, ReadAssumption DEF Sizes
  <2>2. PICK h : h = Begin("getc", 1)
    OBVIOUS
  <2>3. /\ h \in Reader /\ h.pc = "idle" /\ h.fid = r.fid /\ h.length = r.length /\ h.position = r.position
        /\ h.chunk = r.chunk /\ h.op = "getc" /\ h.asked = 1 /\ h.need = 1
    BY <1>1, <2>1, <2>2, KindsAre, BeginIs
  <2>4. calm => InHand(h.chunk, image)
    BY <1>1, <2>3 DEF RInv, Known
  <2>5. ASSUME calm, h.exact
        PROVE  /\ h.from = From(h.chunk) + h.chunk.p /\ h.chunk.p <= Len(h.chunk.data)
               /\ h.from < Len(image) /\ Whole(h.chunk, image)
    <3>1. /\ h.length = Len(image) /\ h.position = h.from /\ h.from = From(h.chunk) + h.chunk.p
          /\ h.chunk.p <= Len(h.chunk.data) /\ h.from <= Len(image)
          /\ h.from < Len(image) => Whole(h.chunk, image)
      BY <1>1, <2>1, <2>2, <2>5, KindsAre, BeginIn
    <3>2. h.from # Len(image) /\ h.from \in Nat /\ Len(image) \in Nat
      BY <1>1, <1>5, <2>3, <3>1, ReaderIs
    <3> QED BY <3>1, <3>2
  <2>6. CASE r.chunk.p = Len(r.chunk.data)
    <3>1. PICK x : x = [h EXCEPT !.pc = "fetch"]
      OBVIOUS
    <3>2. r' = x /\ got' = <<>>
      BY <1>5, <2>2, <2>6, <3>1 DEF Getc
    <3>3. Moved(x, h, "fetch", h.position, h.chunk, h.need)
      BY <2>3, <3>1 DEF Moved, Reader
    <3>4. x \in Reader /\ SameCall(x, h) /\ x.pc = "fetch" /\ x.chunk = h.chunk
      BY <2>3, <3>3, KindsAre, ReaderIs, MovedIs DEF Reader
    <3>5. Stepped(x, <<>>, h)
      BY <2>3, <3>4 DEF Stepped, UnderWay, SameCall
    <3>6. ASSUME calm, h.exact, ~Off(h)
          PROVE  Outcome(x, <<>>, image)
      <4>1. x.from = h.from /\ x.asked = 1 /\ x.op = "getc"
        BY <2>3, <3>4 DEF SameCall
      <4> QED BY <2>3, <2>5, <2>6, <3>4, <3>6, <4>1 DEF Outcome, Waits
    <3> QED BY <1>2, <1>3, <2>3, <2>4, <3>2, <3>5, <3>6, StepKeeps
  <2>7. CASE r.chunk.p # Len(r.chunk.data)
    <3>1. CharStep(h)
      BY <1>5, <2>2, <2>7 DEF Getc
    <3>2. Stepped(r', got', h)
      BY <2>3, <3>1, CharStepIs
    <3>3. ASSUME calm, h.exact, ~Off(h)
          PROVE  Outcome(r', got', image)
      <4>1. h.chunk.p < Len(h.chunk.data)
        BY <2>3, <2>5, <2>7, <3>3, ReaderIs
      <4> QED BY <1>1, <2>3, <2>5, <3>1, <3>3, <4>1, CharStepWhole
    <3> QED BY <1>2, <1>3, <2>3, <2>4, <3>2, <3>3, StepKeeps
  <2> QED BY <2>6, <2>7
<1> QED BY <1>4, <1>5

\* The number of the chunk that follows c.
LEMMA NextIs ==
  ASSUME NEW c \in ChunkObject, NEW v \in Seq(Byte), Whole(c, v), From(c) + Len(c.data) < Len(v)
  PROVE  NextNumber(c) * ChunkSize = From(c) + Len(c.data) /\ NextNumber(c) * ChunkSize < Len(v)
<1>1. InHand(c, v) /\ c.data # <<>>
  BY WholeIs
<1>2. PICK f : f = From(c)
  OBVIOUS
<1>3. PICK n : n = Len(c.data)
  OBVIOUS
<1>4. PICK z : z = (c.n + 1) * ChunkSize
  OBVIOUS
<1>5. f \in Nat /\ n = ChunkSize
  BY <1>1, <1>2, <1>3, InIs
<1>6. c.n \in Nat /\ ChunkSize \in Nat
  BY Constants DEF ChunkObject
<1>7. z = f + ChunkSize
  BY <1>2, <1>4, <1>6, Times DEF From
<1>8. z = f + n /\ f + n < Len(v)
  BY <1>2, <1>3, <1>5, <1>7
<1> QED BY <1>2, <1>3, <1>4, <1>8 DEF NextNumber

\* What a call that waits finds is the chunk it needs.
LEMMA FetchedWaits ==
  ASSUME IInv, RInv, r.pc = "fetch", calm, r.exact, ~Off(r),
         NEW c \in Fetched(NextNumber(r.chunk)), NEW h, Rechunked(h, r, c)
  PROVE  /\ r.op = "read" => /\ h.need = h.asked /\ Ready(h.chunk, image, h.from, h.asked, got)
                             /\ Len(got) < h.asked
         /\ r.op = "readBuffer" => h.length = Len(image) /\ Buffers(h, got, image)
         /\ r.op = "getc" => /\ h.asked = 1 /\ Whole(h.chunk, image) /\ h.chunk.p < Len(h.chunk.data)
                             /\ h.from = From(h.chunk) + h.chunk.p
<1>1. /\ r \in Reader /\ image \in Seq(Byte) /\ got \in Seq(Byte) /\ Len(image) = r.length
      /\ Stored(DocsOf(chunks, r.fid), image) /\ s = NoStream
  BY DEF RInv, Typed, Known, Placed
<1>2. Waits(r, got, image)
  BY <1>1 DEF RInv, Right, NoStream
<1>3. PICK e : e = r.chunk
  OBVIOUS
<1>4. /\ e \in ChunkObject /\ e.n \in Nat /\ NextNumber(e) \in Nat /\ From(e) \in Nat
      /\ Len(e.data) \in Nat /\ Len(got) \in Nat /\ Len(image) \in Nat
  BY <1>1, <1>3, ReaderIs DEF NextNumber
<1>5. Stored(Docs(r.fid), image)
  BY <1>1, IInvIs
<1>6. c \in ChunkObject /\ c.p = 0
  BY <1>3, <1>4, FetchedType
<1>7. NextNumber(e) * ChunkSize < Len(image) => Whole(c, image) /\ c.n = NextNumber(e)
  BY <1>1, <1>3, <1>4, <1>5, FetchedIs
<1>8. h \in Reader /\ h.chunk = c /\ SameReader(h, r)
  BY <1>1, <1>6, RechunkedIs
<1>9. /\ h.from = r.from /\ h.asked = r.asked /\ h.need = r.need /\ h.position = r.position
      /\ h.length = r.length
  BY <1>8 DEF SameReader
<1>10. PICK a : a = r.from
  OBVIOUS
<1>11. PICK q : q = r.asked
  OBVIOUS
<1>12. a \in Nat /\ q \in Nat
  BY <1>1, <1>10, <1>11, ReaderIs
<1>13. ASSUME r.op = "read"
       PROVE  /\ h.need = h.asked /\ Ready(h.chunk, image, h.from, h.asked, got)
              /\ Len(got) < h.asked
  <2>1. r.need = q /\ Spent(e, image, a, q, got)
    BY <1>2, <1>3, <1>10, <1>11, <1>13 DEF Waits
  <2>2. (e.n + 1) * ChunkSize < Len(image)
    BY <1>1, <1>4, <1>12, <2>1, SpentIs
  <2>3. Whole(c, image) /\ c.n = e.n + 1
    BY <1>7, <2>2 DEF NextNumber
  <2>4. Ready(c, image, a, q, got)
    BY <1>1, <1>4, <1>6, <1>12, <2>1, <2>3, SpentIs
  <2>5. Len(got) < q
    BY <2>1 DEF Spent
  <2> QED BY <1>8, <1>9, <1>10, <1>11, <2>1, <2>4, <2>5
<1>14. ASSUME Whole(e, image), e.p = Len(e.data), NEW k, k = From(e) + e.p, k < Len(image)
       PROVE  Whole(c, image) /\ k = From(c) + c.p /\ k = From(c)
  <2>1. PICK f : f = From(e)
    OBVIOUS
  <2>2. PICK n : n = Len(e.data)
    OBVIOUS
  <2>3. f \in Nat /\ n \in Nat /\ k = f + n
    BY <1>4, <1>14, <2>1, <2>2
  <2>4. From(e) + Len(e.data) < Len(image)
    BY <1>14, <2>1, <2>2, <2>3
  <2>5. PICK z : z = NextNumber(e) * ChunkSize
    OBVIOUS
  <2>6. z = k /\ z < Len(image)
    BY <1>1, <1>4, <1>14, <2>1, <2>2, <2>3, <2>4, <2>5, NextIs
  <2>7. Whole(c, image) /\ c.n = NextNumber(e)
    BY <1>7, <2>5, <2>6
  <2>8. From(c) = z
    BY <2>5, <2>7 DEF From
  <2> QED BY <1>6, <2>3, <2>6, <2>7, <2>8
<1>15. ASSUME r.op = "readBuffer"
       PROVE  h.length = Len(image) /\ Buffers(h, got, image)
  <2>1. Buffers(r, got, image) /\ r.chunk.p = Len(r.chunk.data)
    BY <1>2, <1>15 DEF Waits
  <2>2. /\ Matches(got, image, r.from) /\ r.position = r.from + Len(got)
        /\ Least(r.position + r.need, Len(image)) = Least(r.from + r.asked, Len(image))
        /\ r.position < Len(image) /\ r.need > 0 => Whole(e, image) /\ r.position = From(e) + e.p
    BY <1>3, <2>1 DEF Buffers
  <2>3. ASSUME r.position < Len(image), r.need > 0
        PROVE  Whole(c, image) /\ c.p <= Len(c.data) /\ r.position = From(c) + c.p
    <3>1. Whole(c, image) /\ r.position = From(c) + c.p
      BY <1>3, <1>14, <2>1, <2>2, <2>3
    <3>2. c.p <= Len(c.data)
      BY <1>6 DEF ChunkObject
    <3> QED BY <3>1, <3>2
  <2> QED BY <1>1, <1>8, <1>9, <2>2, <2>3 DEF Buffers
<1>16. ASSUME r.op = "getc"
       PROVE  /\ h.asked = 1 /\ Whole(h.chunk, image) /\ h.chunk.p < Len(h.chunk.data)
              /\ h.from = From(h.chunk) + h.chunk.p
  <2>1. /\ r.asked = 1 /\ a < Len(image) /\ Whole(e, image) /\ e.p = Len(e.data) /\ a = From(e) + e.p
    BY <1>2, <1>3, <1>10, <1>16 DEF Waits
  <2>2. Whole(c, image) /\ a = From(c) + c.p
    BY <1>14, <2>1
  <2>3. c.p < Len(c.data)
    BY <1>1, <1>6, <2>2, WholeIs
  <2> QED BY <1>8, <1>9, <1>10, <2>1, <2>2, <2>3
<1> QED BY <1>13, <1>15, <1>16

LEMMA FetchKeeps ==
  ASSUME IInv, RInv, Fetch
  PROVE  RInv'
<1>1. /\ r \in Reader /\ image \in Seq(Byte) /\ got \in Seq(Byte) /\ r.pc = "fetch"
      /\ UnderWay(r, got)
  BY DEF RInv, Typed, Placed, Fetch
<1>2. /\ r.op \in {"read", "readBuffer", "getc"}
      /\ r.op = "read" => Len(got) <= r.need
      /\ r.op = "readBuffer" => r.position <= r.length
  BY <1>1 DEF UnderWay
<1>3. PICK c \in Fetched(NextNumber(r.chunk)) :
        CASE r.op = "read"       -> ReadStep([r EXCEPT !.chunk = c], got)
          [] r.op = "readBuffer" -> BufferStep([r EXCEPT !.chunk = c], got)
          [] r.op = "getc"       -> CharStep([r EXCEPT !.chunk = c])
  BY Zenon DEF Fetch
<1>4. "read" # "readBuffer" /\ "read" # "getc" /\ "readBuffer" # "getc"
  OBVIOUS
<1>5. PICK h : h = [r EXCEPT !.chunk = c]
  OBVIOUS
<1>6. /\ r.op = "read" => ReadStep(h, got)
      /\ r.op = "readBuffer" => BufferStep(h, got)
      /\ r.op = "getc" => CharStep(h)
  BY <1>3, <1>4, <1>5, Zenon
<1>7. NextNumber(r.chunk) \in Nat
  BY <1>1, ReaderIs DEF NextNumber
<1>8. c \in ChunkObject /\ c.p = 0 /\ Len(c.data) \in Nat
  BY <1>7, FetchedType
<1>9. Rechunked(h, r, c)
  BY <1>5 DEF Rechunked
<1>10. h \in Reader /\ h.chunk = c /\ SameReader(h, r)
  BY <1>1, <1>8, <1>9, RechunkedIs
<1>11. /\ h.fid = r.fid /\ h.length = r.length /\ h.op = r.op /\ h.need = r.need /\ h.position = r.position
       /\ h.exact = r.exact /\ h.start = r.start /\ h.asked = r.asked
  BY <1>10 DEF SameReader
<1>12. reads' \in 0 .. MaxReads /\ UNCHANGED <<gridVars, s, image, calm>> /\ r.pc \in {"idle", "fetch"}
  BY <1>1 DEF RInv, Fetch
<1>13. ASSUME calm
       PROVE  InHand(h.chunk, image)
  <2>1. Stored(DocsOf(chunks, r.fid), image)
    BY <1>1, <1>13 DEF RInv, Known
  <2>2. Stored(Docs(r.fid), image)
    BY <2>1, IInvIs
  <2> QED BY <1>1, <1>7, <1>10, <2>2, FetchedIs
<1>14. ASSUME calm, h.exact, ~Off(h)
       PROVE  /\ r.op = "read" => /\ h.need = h.asked /\ Ready(h.chunk, image, h.from, h.asked, got)
                                  /\ Len(got) < h.asked
              /\ r.op = "readBuffer" => h.length = Len(image) /\ Buffers(h, got, image)
              /\ r.op = "getc" => /\ h.asked = 1 /\ Whole(h.chunk, image) /\ h.chunk.p < Len(h.chunk.data)
                                  /\ h.from = From(h.chunk) + h.chunk.p
  <2>1. r.exact /\ ~Off(r)
    BY <1>11, <1>14 DEF Off
  <2> QED BY <1>1, <1>9, <1>14, <2>1, FetchedWaits
<1>15. CASE r.op = "read"
  <2>1. Stepped(r', got', h)
    BY <1>1, <1>2, <1>6, <1>10, <1>11, <1>15, ReadStepType
  <2>2. calm /\ h.exact /\ ~Off(h) => Outcome(r', got', image)
    BY <1>1, <1>6, <1>10, <1>11, <1>14, <1>15, ReadStepIs
  <2> QED BY <1>2, <1>10, <1>11, <1>12, <1>13, <2>1, <2>2, StepKeeps
<1>16. CASE r.op = "readBuffer"
  <2>1. h.chunk.p <= Len(h.chunk.data) /\ h.position <= h.length
    BY <1>2, <1>8, <1>10, <1>11, <1>16
  <2>2. Stepped(r', got', h)
    BY <1>1, <1>6, <1>10, <1>11, <1>16, <2>1, BufferStepType
  <2>3. calm /\ h.exact /\ ~Off(h) => Outcome(r', got', image)
    BY <1>1, <1>6, <1>10, <1>11, <1>14, <1>16, <2>1, BufferStepWhole
  <2> QED BY <1>2, <1>10, <1>11, <1>12, <1>13, <2>2, <2>3, StepKeeps
<1>17. CASE r.op = "getc"
  <2>1. Stepped(r', got', h)
    BY <1>6, <1>10, <1>11, <1>17, CharStepIs
  <2>2. calm /\ h.exact /\ ~Off(h) => Outcome(r', got', image)
    BY <1>1, <1>6, <1>10, <1>11, <1>14, <1>17, CharStepWhole
  <2> QED BY <1>2, <1>10, <1>11, <1>12, <1>13, <2>1, <2>2, StepKeeps
<1> QED BY <1>2, <1>15, <1>16, <1>17

-----------------------------------------------------------------------------
(* Steps of the stream                                                     *)

LEMMA StreamIs ==
  NoStream \in StreamState
BY Constants, ReadAssumption DEF NoStream, StreamState, Sizes

LEMMA ExecuteType ==
  ASSUME r \in Reader, got \in Seq(Byte), NEW z \in StreamState, NEW c \in ChunkObject, Execute(z, c)
  PROVE  /\ r' \in Reader /\ SameReader(r', r) /\ r'.chunk.n = c.n /\ r'.chunk.data = c.data
         /\ got' \in Seq(Byte) /\ s' \in StreamState /\ (z.overlap => s'.overlap)
<1>1. s' \in StreamState
  BY ExecuteIs
<1>2. Rests(z, c) \/ (Executes(z) /\ Ending(z, c)) \/ (Executes(z) /\ Loading(z, c))
  BY ExecuteIs
<1>3. CASE Rests(z, c)
  <2>1. Rechunked(r', r, c) /\ s' = z /\ got' = got
    BY <1>3 DEF Rests
  <2>2. r' \in Reader /\ r'.chunk = c /\ SameReader(r', r)
    BY <2>1, RechunkedIs
  <2> QED BY <2>1, <2>2
<1>4. CASE Ending(z, c)
  <2>1. PICK k : k = Remaining(z)
    OBVIOUS
  <2>2. PICK b : Emits(c, k, b)
    BY <1>4, <2>1 DEF Ending
  <2>3. k \in Nat
    BY <2>1, RemainingIs
  <2>4. r' \in Reader /\ SameReader(r', r) /\ r'.chunk.n = c.n /\ r'.chunk.data = c.data /\ got' \in Seq(Byte)
    BY <2>2, <2>3, EmitsType
  <2>5. s'.overlap = z.overlap
    BY <1>4 DEF Ending
  <2> QED BY <1>1, <2>4, <2>5
<1>5. CASE Loading(z, c)
  <2>1. PICK k : k = Len(c.data)
    OBVIOUS
  <2>2. PICK b : Emits(c, k, b)
    BY <1>5, <2>1 DEF Loading
  <2>3. k \in Nat
    BY <2>1 DEF ChunkObject
  <2>4. r' \in Reader /\ SameReader(r', r) /\ r'.chunk.n = c.n /\ r'.chunk.data = c.data /\ got' \in Seq(Byte)
    BY <2>2, <2>3, EmitsType
  <2>5. s'.overlap = (z.overlap \/ z.loads # <<>>)
    BY <1>5 DEF Loading
  <2>6. z.overlap => s'.overlap
    BY <2>5
  <2> QED BY <1>1, <2>4, <2>6
<1> QED BY <1>2, <1>3, <1>4, <1>5

LEMMA ExecuteKeeps ==
  ASSUME RInv, r.pc = "stream", NEW z \in StreamState, NEW c \in ChunkObject, Execute(z, c),
         UNCHANGED <<gridVars, image, calm, reads>>, s.overlap => z.overlap,
         calm => InHand(c, image),
         calm /\ r.exact /\ ~s.overlap /\ ~Off(r) =>
           /\ z.readable => Streams(c, r, z, got, image)
           /\ ~z.readable => Done(r, got, image)
  PROVE  RInv'
<1>1. PICK x : x = r'
  OBVIOUS
<1>2. PICK y : y = got'
  OBVIOUS
<1>3. PICK u : u = s'
  OBVIOUS
<1>4. r \in Reader /\ got \in Seq(Byte) /\ image \in Seq(Byte) /\ r.op = "stream"
  BY DEF RInv, Typed, Placed
<1>5. /\ x \in Reader /\ SameReader(x, r) /\ x.chunk.n = c.n /\ x.chunk.data = c.data
      /\ y \in Seq(Byte) /\ u \in StreamState /\ (z.overlap => u.overlap)
  BY <1>1, <1>2, <1>3, <1>4, ExecuteType
<1>6. /\ x.pc = "stream" /\ x.op = "stream" /\ x.fid = r.fid /\ x.length = r.length
      /\ x.exact = r.exact /\ x.start = r.start /\ x.asked = r.asked
  BY <1>4, <1>5 DEF SameReader
<1>7. Typed(x, u, y, image)
  BY <1>4, <1>5 DEF Typed
<1>8. Placed(x, u, y)
  BY <1>6 DEF Placed, UnderWay
<1>9. ASSUME calm
      PROVE  Known(chunks, x, image)
  <2>1. Stored(DocsOf(chunks, r.fid), image) /\ Len(image) = r.length
    BY <1>9 DEF RInv, Known
  <2>2. InHand(x.chunk, image)
    BY <1>5, <1>9 DEF InHand, Whole, From, Piece
  <2> QED BY <1>6, <2>1, <2>2 DEF Known
<1>10. ASSUME calm, x.exact, ~u.overlap, ~Off(x)
       PROVE  Right(x, u, y, image)
  <2>1. r.exact /\ ~Off(r) /\ ~s.overlap
    BY <1>4, <1>5, <1>6, <1>10 DEF Off
  <2>2. ~s'.overlap
    BY <1>3, <1>10
  <2>3. Given(x, u, y, image)
    BY <1>1, <1>2, <1>3, <1>4, <1>10, <2>1, <2>2, ExecuteWhole
  <2> QED BY <1>6, <2>3 DEF Right
<1>11. chunks' = chunks /\ image' = image /\ calm' = calm /\ reads' = reads
  BY DEF gridVars
<1> QED BY <1>1, <1>2, <1>3, <1>7, <1>8, <1>9, <1>10, <1>11 DEF RInv

\* The object stays as it is.
LEMMA StreamKeeps ==
  ASSUME RInv, r.pc = "stream", UNCHANGED <<gridVars, r, got, image, calm, reads>>,
         s' \in StreamState, s.overlap => s'.overlap,
         calm /\ Given(r, s, got, image) => Given(r, s', got, image)
  PROVE  RInv'
<1>1. PICK u : u = s'
  OBVIOUS
<1>2. Typed(r, u, got, image)
  BY <1>1 DEF RInv, Typed
<1>3. Placed(r, u, got)
  BY DEF RInv, Placed
<1>4. ASSUME calm, r.exact, ~u.overlap, ~Off(r)
      PROVE  Right(r, u, got, image)
  <2>1. ~s.overlap
    BY <1>1, <1>4
  <2>2. Given(r, u, got, image)
    BY <1>1, <1>4, <2>1 DEF RInv, Right
  <2> QED BY <2>2 DEF Right
<1>5. chunks' = chunks /\ r' = r /\ got' = got /\ image' = image /\ calm' = calm /\ reads' = reads
  BY DEF gridVars
<1> QED BY <1>1, <1>2, <1>3, <1>4, <1>5 DEF RInv

\* Of the stream, only what it has given and what it waits for matters.
LEMMA GivenSame ==
  ASSUME NEW h, NEW z, NEW g, NEW v, Given(h, z, g, v), NEW u, u.completed = z.completed,
         u.final = z.final, u.loads = z.loads, u.readable = z.readable
  PROVE  Given(h, u, g, v)
BY DEF Given, Streams

LEMMA TickKeeps ==
  ASSUME RInv, Tick
  PROVE  RInv'
<1>1. /\ r \in Reader /\ s \in StreamState /\ got \in Seq(Byte) /\ image \in Seq(Byte) /\ s.ticks > 0
      /\ r.pc # "stream" => s = NoStream
  BY DEF RInv, Typed, Placed, Tick
<1>2. r.pc = "stream"
  BY <1>1 DEF NoStream
<1>3. PICK z : z = [s EXCEPT !.ticks = @ - 1]
  OBVIOUS
<1>4. s.ticks - 1 \in Nat
  BY <1>1 DEF StreamState
<1>5. /\ z \in StreamState /\ z.completed = s.completed /\ z.final = s.final /\ z.loads = s.loads
      /\ z.readable = s.readable /\ z.overlap = s.overlap
  BY <1>1, <1>3, <1>4 DEF StreamState
<1>6. PICK c : c = r.chunk
  OBVIOUS
<1>7. c \in ChunkObject /\ Execute(z, c) /\ UNCHANGED <<gridVars, image, calm, reads>>
  BY <1>1, <1>3, <1>6, ReaderIs DEF Tick
<1>8. calm => InHand(c, image)
  BY <1>2, <1>6 DEF RInv, Known
<1>9. ASSUME calm, r.exact, ~s.overlap, ~Off(r)
      PROVE  /\ z.readable => Streams(c, r, z, got, image)
             /\ ~z.readable => Done(r, got, image)
  <2>1. Given(r, s, got, image)
    BY <1>2, <1>9 DEF RInv, Right
  <2>2. Given(r, z, got, image)
    BY <1>5, <2>1, GivenSame
  <2> QED BY <1>6, <2>2 DEF Given
<1>10. s.overlap => z.overlap
  BY <1>5
<1> QED BY <1>2, <1>5, <1>7, <1>8, <1>9, <1>10, ExecuteKeeps

LEMMA LoadedKeeps ==
  ASSUME IInv, RInv, Loaded
  PROVE  RInv'
<1>1. /\ r \in Reader /\ s \in StreamState /\ got \in Seq(Byte) /\ image \in Seq(Byte) /\ s.loads # <<>>
      /\ r.pc # "stream" => s = NoStream
  BY DEF RInv, Typed, Placed, Loaded
<1>2. r.pc = "stream"
  BY <1>1 DEF NoStream
<1>3. PICK z : z = [s EXCEPT !.pending = TRUE, !.loads = Tail(@)]
  OBVIOUS
<1>4. s.loads \in Seq(Nat)
  BY <1>1 DEF StreamState
<1>5. Tail(s.loads) \in Seq(Nat) /\ s.loads[1] \in Nat
  BY <1>1, <1>4
<1>6. /\ z \in StreamState /\ z.readable = s.readable /\ z.overlap = s.overlap /\ z.paused = s.paused
  BY <1>1, <1>3, <1>5 DEF StreamState
<1>7. PICK c \in Fetched(s.loads[1]) : IF z.paused THEN s' = z /\ UNCHANGED <<r, got>> ELSE Execute(z, c)
  BY <1>3 DEF Loaded
<1>8. UNCHANGED <<gridVars, image, calm, reads>>
  BY DEF Loaded
<1>9. c \in ChunkObject
  BY <1>5, FetchedType
<1>10. ASSUME calm
       PROVE  Stored(Docs(r.fid), image)
  <2>1. Stored(DocsOf(chunks, r.fid), image)
    BY <1>2, <1>10 DEF RInv, Known
  <2> QED BY <2>1, IInvIs
<1>11. calm => InHand(c, image)
  BY <1>1, <1>5, <1>10, FetchedIs
<1>12. ASSUME calm, Given(r, s, got, image)
       PROVE  /\ z.readable => Streams(c, r, z, got, image)
              /\ ~z.readable => Done(r, got, image)
              /\ Given(r, z, got, image)
  <2>1. ASSUME s.readable
        PROVE  Streams(c, r, z, got, image) /\ Streams(r.chunk, r, z, got, image)
    <3>1. Streams(r.chunk, r, s, got, image)
      BY <1>12, <2>1 DEF Given
    <3> QED BY <1>1, <1>3, <1>10, <1>12, <3>1, LoadGoesOn
  <2>2. ~s.readable => Done(r, got, image)
    BY <1>12 DEF Given
  <2> QED BY <1>6, <2>1, <2>2 DEF Given
<1>13. s.overlap => z.overlap
  BY <1>6
<1>14. CASE z.paused
  <2>1. s' = z /\ UNCHANGED <<r, got>>
    BY <1>7, <1>14
  <2>2. s' \in StreamState /\ (s.overlap => s'.overlap)
    BY <1>6, <1>13, <2>1
  <2>3. calm /\ Given(r, s, got, image) => Given(r, s', got, image)
    BY <1>12, <2>1
  <2> QED BY <1>2, <1>8, <2>1, <2>2, <2>3, StreamKeeps
<1>15. CASE ~z.paused
  <2>1. Execute(z, c)
    BY <1>7, <1>15
  <2>2. calm /\ r.exact /\ ~s.overlap /\ ~Off(r) => Given(r, s, got, image)
    BY <1>2 DEF RInv, Right
  <2>3. calm /\ r.exact /\ ~s.overlap /\ ~Off(r) =>
          /\ z.readable => Streams(c, r, z, got, image)
          /\ ~z.readable => Done(r, got, image)
    BY <1>12, <2>2
  <2> QED BY <1>2, <1>6, <1>8, <1>9, <1>11, <1>13, <2>1, <2>3, ExecuteKeeps
<1> QED BY <1>14, <1>15

LEMMA PauseKeeps ==
  ASSUME RInv, Pause
  PROVE  RInv'
<1>1. s \in StreamState /\ r.pc = "stream" /\ s.pauses < MaxPauses
  BY DEF RInv, Typed, Pause
<1>2. PICK k : k = s.pauses + 1
  OBVIOUS
<1>3. k \in 0 .. MaxPauses
  BY <1>1, <1>2, ReadAssumption DEF StreamState
<1>4. PICK z : z = [s EXCEPT !.paused = TRUE, !.pauses = k]
  OBVIOUS
<1>5. /\ z \in StreamState /\ z.completed = s.completed /\ z.final = s.final /\ z.loads = s.loads
      /\ z.readable = s.readable /\ z.overlap = s.overlap
  BY <1>1, <1>3, <1>4 DEF StreamState
<1>6. s' = z /\ UNCHANGED <<gridVars, r, got, image, calm, reads>>
  BY <1>1, <1>2, <1>4 DEF Pause
<1>7. s' \in StreamState /\ (s.overlap => s'.overlap)
  BY <1>5, <1>6
<1>8. Given(r, s, got, image) => Given(r, s', got, image)
  BY <1>5, <1>6, GivenSame
<1> QED BY <1>1, <1>6, <1>7, <1>8, StreamKeeps

LEMMA ResumeKeeps ==
  ASSUME RInv, Resume
  PROVE  RInv'
<1>1. s \in StreamState /\ s.paused /\ (r.pc # "stream" => s = NoStream)
  BY DEF RInv, Typed, Placed, Resume
<1>2. r.pc = "stream"
  BY <1>1 DEF NoStream
<1>3. PICK k : k = Ticks(s)
  OBVIOUS
<1>4. k \in Nat
  BY <1>1, <1>3 DEF StreamState, Ticks
<1>5. PICK z : z = [s EXCEPT !.paused = FALSE, !.ticks = k]
  OBVIOUS
<1>6. /\ z \in StreamState /\ z.completed = s.completed /\ z.final = s.final /\ z.loads = s.loads
      /\ z.readable = s.readable /\ z.overlap = s.overlap
  BY <1>1, <1>4, <1>5 DEF StreamState
<1>7. s' = z /\ UNCHANGED <<gridVars, r, got, image, calm, reads>>
  BY <1>3, <1>5 DEF Resume
<1>8. s' \in StreamState /\ (s.overlap => s'.overlap)
  BY <1>6, <1>7
<1>9. Given(r, s, got, image) => Given(r, s', got, image)
  BY <1>6, <1>7, GivenSame
<1> QED BY <1>2, <1>7, <1>8, <1>9, StreamKeeps

LEMMA StreamBegins ==
  ASSUME RInv, Stream
  PROVE  RInv'
<1>1. /\ r \in Reader /\ s = NoStream /\ image \in Seq(Byte) /\ r.pc = "idle"
      /\ UNCHANGED <<gridVars, image, calm>>
  BY DEF RInv, Typed, Placed, Calling, Stream
<1>2. PICK k : k = r.length - r.position
  OBVIOUS
<1>3. r.length \in Nat /\ r.position \in Nat /\ r.length <= MaxBytes /\ r.position <= r.length
  BY <1>1, ReaderIs DEF Stream
<1>4. k \in Nat /\ k <= MaxBytes /\ r.position + k = r.length
  BY <1>2, <1>3, Constants
<1>5. k \in Sizes /\ r.position + k <= r.length
  BY <1>3, <1>4, KindsAre
<1>6. PICK h : h = Begin("stream", k)
  OBVIOUS
<1>7. /\ h \in Reader /\ h.fid = r.fid /\ h.length = r.length /\ h.position = r.position
      /\ h.chunk = r.chunk /\ h.op = "stream" /\ h.asked = k /\ h.need = k
  BY <1>1, <1>5, <1>6, KindsAre, BeginIs
<1>8. PICK x : x = [h EXCEPT !.pc = "stream"]
  OBVIOUS
<1>9. Moved(x, h, "stream", h.position, h.chunk, h.need)
  BY <1>7, <1>8 DEF Moved, Reader
<1>10. x \in Reader /\ SameCall(x, h) /\ x.pc = "stream" /\ x.chunk = h.chunk
  BY <1>7, <1>9, KindsAre, ReaderIs, MovedIs DEF Reader
<1>11. /\ x.fid = r.fid /\ x.length = r.length /\ x.op = "stream" /\ x.exact = h.exact
       /\ x.from = h.from /\ x.asked = k /\ x.start = h.start
  BY <1>7, <1>10 DEF SameCall
<1>12. PICK z : z = [s EXCEPT !.final = k, !.ticks = 1]
  OBVIOUS
<1>13. /\ z \in StreamState /\ z.final = k /\ z.completed = 0 /\ z.readable /\ z.loads = <<>>
  BY <1>1, <1>5, <1>12, StreamIs DEF StreamState, NoStream
<1>14. r' = x /\ s' = z /\ got' = <<>>
  BY <1>2, <1>6, <1>8, <1>12 DEF Stream
<1>15. Typed(x, z, <<>>, image)
  BY <1>1, <1>10, <1>13 DEF Typed
<1>16. Placed(x, z, <<>>)
  BY <1>10, <1>11 DEF Placed, UnderWay
<1>17. ASSUME calm
       PROVE  Known(chunks, x, image)
  BY <1>1, <1>7, <1>10, <1>11, <1>17 DEF RInv, Known
<1>18. ASSUME calm, x.exact, ~Off(x)
       PROVE  Right(x, z, <<>>, image)
  <2>1. h.exact /\ ~Off(h)
    BY <1>7, <1>11, <1>18 DEF Off
  <2>2. "stream" \in {"read", "stream"}
    OBVIOUS
  <2>3. Ready(h.chunk, image, h.from, h.asked, <<>>)
    BY <1>1, <1>5, <1>6, <1>18, <2>1, <2>2, BeginReady
  <2>4. h.length = Len(image) /\ h.position = h.from
    BY <1>1, <1>5, <1>6, <1>18, <2>1, KindsAre, BeginIn
  <2>5. x.from + x.asked = Len(image)
    BY <1>4, <1>7, <1>11, <2>4
  <2>6. Len(<<>>) = 0
    OBVIOUS
  <2>7. Streams(x.chunk, x, z, <<>>, image)
    BY <1>7, <1>10, <1>11, <1>13, <2>3, <2>5, <2>6 DEF Streams
  <2> QED BY <1>10, <1>13, <2>7 DEF Right, Given
<1>19. reads' \in 0 .. MaxReads
  BY CountIs DEF Calling, Stream
<1>20. chunks' = chunks /\ image' = image /\ calm' = calm
  BY <1>1 DEF gridVars
<1> QED BY <1>14, <1>15, <1>16, <1>17, <1>18, <1>19, <1>20 DEF RInv

-----------------------------------------------------------------------------
(* Opening, seek and rewind                                                *)

\* A call that moves the head only.
LEMMA SeekReadKeeps ==
  ASSUME RInv, NEW to \in 0 .. r.length, SeekRead(to)
  PROVE  RInv'
<1>1. /\ r \in Reader /\ r.pc = "idle" /\ to \in Nat /\ r.op # "stream"
      /\ UNCHANGED <<gridVars, s, got, image, calm>>
  BY ReaderIs DEF RInv, Typed, Placed, Calling, SeekRead
<1>2. PICK c : c = r.chunk
  OBVIOUS
<1>3. c \in ChunkObject
  BY <1>1, <1>2, ReaderIs
<1>4. PICK k : k = to % ChunkSize
  OBVIOUS
<1>5. k \in Nat
  BY <1>1, <1>4, Constants
<1>6. PICK d : d = [c EXCEPT !.p = k]
  OBVIOUS
<1>7. d \in ChunkObject /\ d.n = c.n /\ d.data = c.data
  BY <1>3, <1>5, <1>6, HeadSet
<1>8. PICK x : x = r'
  OBVIOUS
<1>9. x = [r EXCEPT !.pc = "stuck"] \/ x = [r EXCEPT !.op = "none", !.position = to, !.chunk = d]
  <2>1. CASE to \div ChunkSize # r.chunk.n
    BY <1>8, <2>1 DEF SeekRead
  <2>2. CASE ~(to \div ChunkSize # r.chunk.n)
    <3>1. x = [r EXCEPT !.op = "none", !.position = to, !.chunk.p = k]
      BY <1>4, <1>8, <2>2 DEF SeekRead
    <3>2. x = [r EXCEPT !.op = "none", !.position = to, !.chunk = d]
      BY <1>1, <1>2, <1>6, <3>1 DEF Reader
    <3> QED BY <3>2
  <2> QED BY <2>1, <2>2
<1>10. /\ x \in Reader /\ x.fid = r.fid /\ x.length = r.length /\ x.chunk.n = c.n /\ x.chunk.data = c.data
       /\ x.op # "stream" /\ (x.pc = "stuck" \/ (x.pc = "idle" /\ x.op = "none"))
  BY <1>1, <1>2, <1>7, <1>9, KindsAre DEF Reader
<1>11. Typed(x, s, got, image)
  BY <1>10 DEF RInv, Typed
<1>12. Placed(x, s, got)
  BY <1>1, <1>10 DEF RInv, Placed, UnderWay
<1>13. ASSUME calm
       PROVE  Known(chunks, x, image)
  <2>1. Stored(DocsOf(chunks, r.fid), image) /\ Len(image) = r.length /\ InHand(c, image)
    BY <1>1, <1>2, <1>13 DEF RInv, Known
  <2>2. InHand(x.chunk, image)
    BY <1>10, <2>1 DEF InHand, Whole, From, Piece
  <2> QED BY <1>10, <2>1, <2>2 DEF Known
<1>14. Right(x, s, got, image)
  BY <1>10 DEF Right
<1>15. reads' \in 0 .. MaxReads
  BY CountIs DEF Calling, SeekRead
<1>16. chunks' = chunks /\ s' = s /\ got' = got /\ image' = image /\ calm' = calm
  BY <1>1 DEF gridVars
<1> QED BY <1>8, <1>11, <1>12, <1>13, <1>14, <1>15, <1>16 DEF RInv

LEMMA RewindReadKeeps ==
  ASSUME RInv, RewindRead
  PROVE  RInv'
<1>1. /\ r \in Reader /\ r.pc = "idle" /\ r.op # "stream" /\ ~calm'
      /\ UNCHANGED <<gridVars, s, got, image>>
  BY DEF RInv, Typed, Placed, RewindRead
<1>2. PICK c : c = r.chunk
  OBVIOUS
<1>3. c = [id |-> c.id, n |-> c.n, data |-> c.data, p |-> c.p] /\ c.id \in Nat /\ c.n \in Nat
  BY <1>1, <1>2, ReaderIs DEF ChunkObject
<1>4. PICK d : d = [id |-> c.id, n |-> c.n, data |-> <<>>, p |-> 0]
  OBVIOUS
<1>5. d \in ChunkObject
  BY <1>3, <1>4 DEF ChunkObject
<1>6. PICK x : x = r'
  OBVIOUS
<1>7. x = [r EXCEPT !.pc = "thrown"] \/ x = [r EXCEPT !.op = "none", !.position = 0, !.chunk = d]
  <2>1. CASE r.chunk.n # 0
    BY <1>6, <2>1 DEF RewindRead
  <2>2. CASE ~(r.chunk.n # 0)
    <3>1. x = [r EXCEPT !.op = "none", !.position = 0, !.chunk.p = 0, !.chunk.data = <<>>]
      BY <1>6, <2>2 DEF RewindRead
    <3>2. d = [[c EXCEPT !.p = 0] EXCEPT !.data = <<>>]
      <4>1. PICK e : e = [c EXCEPT !.p = 0]
        OBVIOUS
      <4>2. e = [id |-> c.id, n |-> c.n, data |-> c.data, p |-> 0]
        BY <1>3, <4>1
      <4>3. [e EXCEPT !.data = <<>>] = d
        BY <1>4, <4>2
      <4> QED BY <4>1, <4>3
    <3>3. x = [r EXCEPT !.op = "none", !.position = 0, !.chunk = d]
      BY <1>1, <1>2, <3>1, <3>2 DEF Reader
    <3> QED BY <3>3
  <2> QED BY <2>1, <2>2
<1>8. /\ x \in Reader /\ x.op # "stream" /\ x.pc \in {"thrown", "idle"}
  <2>1. CASE x = [r EXCEPT !.pc = "thrown"]
    BY <1>1, <2>1, KindsAre DEF Reader
  <2>2. CASE x = [r EXCEPT !.op = "none", !.position = 0, !.chunk = d]
    <3>1. 0 \in Nat
      OBVIOUS
    <3> QED BY <1>1, <1>5, <2>2, <3>1, KindsAre DEF Reader
  <2> QED BY <1>7, <2>1, <2>2
<1>9. Typed(x, s, got, image)
  BY <1>8 DEF RInv, Typed
<1>10. Placed(x, s, got)
  BY <1>1, <1>8 DEF RInv, Placed, UnderWay
<1>11. reads' \in 0 .. MaxReads
  BY CountIs DEF RewindRead
<1>12. calm' = FALSE
  BY DEF RewindRead
<1> QED BY <1>1, <1>6, <1>9, <1>10, <1>11, <1>12 DEF RInv

LEMMA OpenReadKeeps ==
  ASSUME RInv, OpenRead
  PROVE  RInv'
<1>1. r \in Reader /\ r.pc = "none" /\ UNCHANGED <<gridVars, s, got, image, calm, reads>>
  BY DEF RInv, Typed, OpenRead
<1>2. PICK x : x = [r EXCEPT !.pc = "find"]
  OBVIOUS
<1>3. x \in Reader /\ x.pc = "find" /\ x.op = r.op
  BY <1>1, <1>2, KindsAre DEF Reader
<1>4. r' = x
  BY <1>2 DEF OpenRead
<1>5. Typed(x, s, got, image)
  BY <1>3 DEF RInv, Typed
<1>6. Placed(x, s, got)
  BY <1>1, <1>3 DEF RInv, Placed, UnderWay
<1>7. Known(chunks, x, image) /\ Right(x, s, got, image)
  BY <1>3 DEF Known, Right
<1> QED BY <1>1, <1>4, <1>5, <1>6, <1>7 DEF RInv, gridVars

LEMMA FindReadKeeps ==
  ASSUME IInv, RInv, FindRead
  PROVE  RInv'
<1>1. r \in Reader /\ r.pc = "find" /\ r.op = "none" /\ UNCHANGED <<gridVars, s, got, reads>>
  BY DEF RInv, Typed, Placed, FindRead
<1>2. PICK f \in IF files = {} THEN {[fid |-> 0, length |-> 0]} ELSE files :
        /\ r' = [r EXCEPT !.pc = "first", !.fid = f.fid, !.length = f.length]
        /\ image' = Content(f)
        /\ calm' = Intact(f)
  BY DEF FindRead
<1>3. f.fid \in 0 .. MaxOpens /\ f.length \in Sizes /\ f.length \in Nat
  <2>1. CASE files = {}
    BY <1>2, <2>1, Constants DEF Sizes
  <2>2. CASE files # {}
    <3>1. f \in files
      BY <1>2, <2>2
    <3>2. f.fid \in 1 .. MaxOpens /\ f.length \in 0 .. MaxBytes
      BY <3>1, IInvTypes DEF GridTypeOK
    <3> QED BY <3>2, Constants DEF Sizes
  <2> QED BY <2>1, <2>2
<1>4. PICK x : x = [r EXCEPT !.pc = "first", !.fid = f.fid, !.length = f.length]
  OBVIOUS
<1>5. x \in Reader /\ x.pc = "first" /\ x.op = "none" /\ x.fid = f.fid /\ x.length = f.length
  BY <1>1, <1>3, <1>4, KindsAre DEF Reader
<1>6. IsDocs(Docs(f.fid)) /\ Docs(f.fid) = DocsOf(chunks, f.fid)
  BY IInvIs
<1>7. PICK v : v = Content(f)
  OBVIOUS
<1>8. v \in Seq(Byte) /\ Len(v) = f.length
  BY <1>3, <1>6, <1>7, ContentType
<1>9. Typed(x, s, got, v)
  BY <1>5, <1>8 DEF RInv, Typed
<1>10. Placed(x, s, got)
  BY <1>1, <1>5 DEF RInv, Placed, UnderWay
<1>11. ASSUME Intact(f)
       PROVE  Known(chunks, x, v)
  <2>1. Stored(Docs(f.fid), v)
    BY <1>3, <1>6, <1>7, <1>11, IntactStored
  <2> QED BY <1>5, <1>6, <1>8, <2>1 DEF Known
<1>12. Right(x, s, got, v)
  BY <1>5 DEF Right
<1>13. calm' \in BOOLEAN /\ (calm' => Intact(f))
  BY <1>2 DEF Intact
<1>14. r' = x /\ image' = v /\ s' = s /\ got' = got /\ reads' = reads /\ chunks' = chunks
  BY <1>1, <1>2, <1>4, <1>7 DEF gridVars
<1>15. calm' => Known(chunks, x, v)
  BY <1>11, <1>13
<1>16. reads \in 0 .. MaxReads
  BY DEF RInv
<1> QED BY <1>9, <1>10, <1>12, <1>13, <1>14, <1>15, <1>16 DEF RInv

LEMMA FirstChunkKeeps ==
  ASSUME IInv, RInv, FirstChunk
  PROVE  RInv'
<1>1. /\ r \in Reader /\ r.pc = "first" /\ r.op = "none" /\ image \in Seq(Byte)
      /\ UNCHANGED <<gridVars, s, got, image, calm, reads>>
  BY DEF RInv, Typed, Placed, FirstChunk
<1>2. PICK c \in Fetched(0) : r' = [r EXCEPT !.pc = "idle", !.chunk = c]
  BY DEF FirstChunk
<1>3. 0 \in Nat
  OBVIOUS
<1>4. c \in ChunkObject
  BY <1>2, <1>3, FetchedType
<1>5. PICK x : x = [r EXCEPT !.pc = "idle", !.chunk = c]
  OBVIOUS
<1>6. /\ x \in Reader /\ x.pc = "idle" /\ x.op = "none" /\ x.fid = r.fid /\ x.length = r.length
      /\ x.chunk = c
  BY <1>1, <1>4, <1>5, KindsAre DEF Reader
<1>7. Typed(x, s, got, image)
  BY <1>6 DEF RInv, Typed
<1>8. Placed(x, s, got)
  BY <1>1, <1>6 DEF RInv, Placed, UnderWay
<1>9. ASSUME calm
      PROVE  Known(chunks, x, image)
  <2>1. Stored(DocsOf(chunks, r.fid), image) /\ Len(image) = r.length
    BY <1>1, <1>9 DEF RInv, Known
  <2>2. Stored(Docs(r.fid), image)
    BY <2>1, IInvIs
  <2>3. InHand(c, image)
    BY <1>1, <1>2, <1>3, <2>2, FetchedIs
  <2> QED BY <1>6, <2>1, <2>3 DEF Known
<1>10. Right(x, s, got, image)
  BY <1>6 DEF Right
<1>11. r' = x
  BY <1>2, <1>5
<1> QED BY <1>1, <1>7, <1>8, <1>9, <1>10, <1>11 DEF RInv, gridVars

-----------------------------------------------------------------------------
(* All steps                                                               *)

\* The file that is read is as it was, or calm no more.
LEMMA WriterKeeps ==
  ASSUME RInv, Noted
  PROVE  RInv'
<1>1. /\ calm' \in BOOLEAN /\ (calm' => calm /\ chunks' = chunks)
      /\ r' = r /\ s' = s /\ got' = got /\ image' = image /\ reads' = reads
  BY DEF Noted
<1>2. calm' => Known(chunks, r, image)
  BY <1>1 DEF RInv
<1>3. calm' /\ r.exact /\ ~s.overlap /\ ~Off(r) => Right(r, s, got, image)
  BY <1>1 DEF RInv
<1>4. Typed(r, s, got, image) /\ Placed(r, s, got) /\ reads \in 0 .. MaxReads
  BY DEF RInv
<1>5. calm' => Known(chunks', r, image)
  BY <1>1, <1>2
<1> QED BY <1>1, <1>3, <1>4, <1>5 DEF RInv

ReadInv == IInv /\ RInv

LEMMA ReadInit ==
  Init => ReadInv
<1> SUFFICES ASSUME Init
             PROVE  ReadInv
  OBVIOUS
<1>1. IInv
  BY InitHolds DEF Init
<1>2. r = NoReader /\ s = NoStream /\ got = <<>> /\ image = <<>> /\ calm = TRUE /\ reads = 0
  BY DEF Init
<1>3. PICK c : c = Blank(0, 0)
  OBVIOUS
<1>4. c \in ChunkObject
  BY <1>3, BlankIs
<1>5. NoReader = [pc |-> "none", fid |-> 0, length |-> 0, position |-> 0, chunk |-> c, op |-> "none",
                  from |-> 0, start |-> 0, asked |-> 0, need |-> 0, exact |-> TRUE]
  BY <1>3 DEF NoReader, Blank
<1>6. 0 \in Nat /\ 0 \in Sizes /\ 0 \in 0 .. MaxOpens /\ 0 \in 0 .. MaxReads
  BY Constants, ReadAssumption DEF Sizes
<1>7. NoReader \in Reader /\ NoReader.pc = "none" /\ NoReader.op = "none"
  BY <1>4, <1>5, <1>6, KindsAre DEF Reader
<1>8. Typed(r, s, got, image)
  BY <1>2, <1>7, StreamIs DEF Typed
<1>9. Placed(r, s, got)
  BY <1>2, <1>7 DEF Placed, UnderWay
<1>10. Known(chunks, r, image) /\ Right(r, s, got, image)
  BY <1>2, <1>7 DEF Known, Right
<1> QED BY <1>1, <1>2, <1>6, <1>8, <1>9, <1>10 DEF ReadInv, RInv

LEMMA ReadNext ==
  ReadInv /\ [Next]_vars => ReadInv'
<1> SUFFICES ASSUME IInv, RInv, [Next]_vars
             PROVE  ReadInv'
  BY DEF ReadInv
<1>1. CASE UNCHANGED vars
  <2>1. IInv'
    BY <1>1, NextKeeps DEF vars
  <2>2. RInv'
    BY <1>1 DEF vars, gridVars, readVars, RInv
  <2> QED BY <2>1, <2>2 DEF ReadInv
<1>2. CASE WriterCall \/ WriterReply \/ WriterDies
  <2>1. GridNext /\ Noted
    BY <1>2 DEF WriterCall, WriterReply, WriterDies, GridNext
  <2> QED BY <2>1, NextKeeps, WriterKeeps DEF ReadInv
<1>3. CASE ReaderCall \/ ReaderReply
  <2>1. RInv' /\ UNCHANGED gridVars
    <3>1. ASSUME NEW k \in 1 .. MaxBytes, Read(k) \/ ReadBuffer(k)
          PROVE  RInv' /\ UNCHANGED gridVars
      BY <3>1, ReadKeeps, ReadBufferKeeps DEF Read, ReadBuffer, Calling
    <3>2. ASSUME NEW to \in 0 .. r.length, SeekRead(to)
          PROVE  RInv' /\ UNCHANGED gridVars
      BY <3>2, SeekReadKeeps DEF SeekRead, Calling
    <3>3. CASE OpenRead
      BY <3>3, OpenReadKeeps DEF OpenRead
    <3>4. CASE ReadAll
      BY <3>4, ReadAllKeeps DEF ReadAll, Calling
    <3>5. CASE Getc
      BY <3>5, GetcKeeps DEF Getc, Calling
    <3>6. CASE RewindRead
      BY <3>6, RewindReadKeeps DEF RewindRead
    <3>7. CASE Stream
      BY <3>7, StreamBegins DEF Stream, Calling
    <3>8. CASE Pause
      BY <3>8, PauseKeeps DEF Pause
    <3>9. CASE Resume
      BY <3>9, ResumeKeeps DEF Resume
    <3>10. CASE Fetch
      BY <3>10, FetchKeeps DEF Fetch
    <3>11. CASE FindRead
      BY <3>11, FindReadKeeps DEF FindRead
    <3>12. CASE FirstChunk
      BY <3>12, FirstChunkKeeps DEF FirstChunk
    <3>13. CASE Tick
      BY <3>13, TickKeeps DEF Tick
    <3>14. CASE Loaded
      BY <3>14, LoadedKeeps DEF Loaded
    <3> QED BY <1>3, <3>1, <3>2, <3>3, <3>4, <3>5, <3>6, <3>7, <3>8, <3>9, <3>10, <3>11, <3>12, <3>13, <3>14
            DEF ReaderCall, ReaderReply
  <2> QED BY <2>1, NextKeeps DEF ReadInv
<1> QED BY <1>1, <1>2, <1>3 DEF Next

-----------------------------------------------------------------------------
(* Theorems: reading                                                       *)

\* While nobody changes the file, what an object that reads has in hand is one
\* of its chunks, or the empty one that stands for a missing chunk; a call that
\* is exact and not one of those that go wrong by a byte has read the bytes
\* before its head, and finds the others where it looks for them (read,
\* readBuffer, getc and nthChunk of gridstore.js, _execute of readstream.js).
THEOREM ReadInvariant ==
  Spec => []ReadInv
<1>1. Init => ReadInv
  BY ReadInit
<1>2. ReadInv /\ [Next]_vars => ReadInv'
  BY ReadNext
<1> QED BY <1>1, <1>2, PTL DEF Spec

\* The object that reads and its stream are of their kinds, with no length and
\* no number of bytes asked for beyond what is ever written, whatever the
\* writers do to the file meanwhile.
THEOREM ReadTypes ==
  Spec => []TypeOK
<1>1. ReadInv => TypeOK
  <2> SUFFICES ASSUME IInv, RInv
               PROVE  TypeOK
    BY DEF ReadInv
  <2>1. r \in Reader /\ s \in StreamState /\ got \in Seq(Byte) /\ image \in Seq(Byte)
    BY DEF RInv, Typed
  <2>2. calm \in BOOLEAN /\ reads \in 0 .. MaxReads
    BY DEF RInv
  <2>3. r \in [pc : {"none", "find", "first", "idle", "fetch", "stream", "stuck", "thrown"},
               fid : 0 .. MaxOpens, length : 0 .. MaxBytes, position : Nat, chunk : ChunkObject,
               op : {"none", "read", "readBuffer", "getc", "stream"}, from : Nat,
               start : Nat, asked : 0 .. MaxBytes, need : 0 .. MaxBytes, exact : BOOLEAN]
    BY <2>1, Zenon DEF Reader, ReaderPlaces, Operations, Sizes
  <2>4. s \in [final : 0 .. MaxBytes, completed : Nat, paused : BOOLEAN, readable : BOOLEAN,
               pending : BOOLEAN, loads : Seq(Nat), ticks : Nat, pauses : 0 .. MaxPauses,
               overlap : BOOLEAN]
    BY <2>1, Zenon DEF StreamState, Sizes
  <2> QED BY <2>1, <2>2, <2>3, <2>4, IInvTypes, Zenon DEF TypeOK
<1> QED BY <1>1, ReadInvariant, PTL

\* A reading call returns, and a stream that ends has given, the bytes of the
\* file from the head on, as many as were asked for or are left, across any
\* number of chunks and whatever pauses: for every size of chunk and of file.
THEOREM ReadsExactly ==
  Spec => []ReadExact
<1>1. ReadInv => ReadExact
  <2> SUFFICES ASSUME RInv, Returned, Sound
               PROVE  got = SubSeq(image, r.from + 1, Least(r.from + r.asked, Len(image)))
    BY DEF ReadInv, ReadExact
  <2>1. calm /\ r.exact /\ ~s.overlap /\ ~Off(r)
    BY DEF Sound, OffByOne, Off
  <2>2. Right(r, s, got, image)
    BY <2>1 DEF RInv
  <2>3. Done(r, got, image)
    <3>1. CASE r.pc = "idle" /\ r.op # "none"
      BY <2>2, <3>1 DEF Right
    <3>2. CASE r.pc = "stream" /\ ~s.readable
      BY <2>2, <3>2 DEF Right, Given
    <3> QED BY <3>1, <3>2 DEF Returned
  <2> QED BY <2>3 DEF Done, Exactly
<1> QED BY <1>1, ReadInvariant, PTL
=============================================================================
