------------------------------- MODULE Buffer -------------------------------
(***************************************************************************)
(* The growing byte buffer of ioext/buffer.go, its readers and its         *)
(* searches.                                                               *)
(*                                                                         *)
(* A Buffer keeps full chunks (buff.buffer, a slice of slices) and a tail  *)
(* of fixed length (buff.bytes, filled up to buff.bytesi) that is copied   *)
(* to a chunk when it is full and then overwritten from its start.  A      *)
(* cursor takes no copy: it keeps the slice of chunks and the slice of the *)
(* tail that the buffer had when the cursor was reset, and cuts its bytes  *)
(* out of them later, while the owner goes on writing, clears the buffer   *)
(* or moves it into a clone.  A byte that a reader has fetched is a CELL:  *)
(* a byte of a chunk, which nobody changes, or a place of the tail.        *)
(*                                                                         *)
(* One goroutine interleaves the calls; an action is one call.  Offsets    *)
(* count from 0 as in the code, sequences from 1.                          *)
(***************************************************************************)
EXTENDS Integers, FiniteSets, SequencesExt

CONSTANTS ChunkSize,    \* len(buff.bytes), 8192 in the code
          Byte,         \* the bytes that are written
          Zero,         \* the byte make([]byte, n) is filled with
          NilSlice,     \* a slice of the slice of chunks after Clear
          MaxWritten,   \* bound: bytes written in a behaviour
          MaxPush,      \* bound: bytes of one Write
          MaxRead,      \* bound: length of the slice a Read fills
          MaxPattern    \* bound: length of the bytes searched for

ASSUME ChunkAssumption == ChunkSize \in Nat /\ ChunkSize > 1
ASSUME ByteAssumption == Zero \notin Byte
ASSUME SliceAssumption == NilSlice \notin [1..ChunkSize -> Byte \cup {Zero}]
ASSUME BoundAssumption ==
    MaxWritten \in Nat /\ MaxPush \in Nat /\ MaxRead \in Nat /\ MaxPattern \in Nat

VARIABLES
    buf,      \* the Buffer
    reader,   \* the BuffReader and its bufferCursor
    due,      \* what the reader owes its caller since it was made or sought
    written   \* bytes written so far (bound only)

bufferVars == <<buf, reader, due, written>>

----------------------------------------------------------------------------
(* The buffer.                                                             *)

(* array names the array behind the slice of chunks; refills counts how    *)
(* often the tail was started again from its first place.                  *)
NewBuffer == [chunks |-> <<>>, cap |-> 0, array |-> 0,
              tail |-> [i \in 1..ChunkSize |-> Zero], fill |-> 0, refills |-> 0]

InChunks(b) == Len(b.chunks) * ChunkSize
Size(b) == InChunks(b) + b.fill
Content(b) == FlattenSeq(b.chunks) \o SubSeq(b.tail, 1, b.fill)

(* append of the Go runtime: a full array is replaced by one twice as long. *)
AppendChunk(b, chunk) ==
    IF Len(b.chunks) < b.cap
    THEN [b EXCEPT !.chunks = Append(@, chunk)]
    ELSE [b EXCEPT !.chunks = Append(@, chunk), !.array = @ + 1,
                   !.cap = IF @ = 0 THEN 1 ELSE 2 * @]

(* One byte of the loop of writeBytes goes into the tail,                  *)
PutByte(b, x) == [b EXCEPT !.tail[b.fill + 1] = x, !.fill = @ + 1]

(* and a copy of the tail becomes a chunk once it is full.                 *)
WriteByte(b, x) ==
    LET put == PutByte(b, x)
    IN  IF put.fill < ChunkSize THEN put
        ELSE [AppendChunk(put, put.tail) EXCEPT !.fill = 0, !.refills = @ + 1]

writeBytes(b, p) ==
    LET after[n \in 0..Len(p)] ==
          IF n = 0 THEN b ELSE WriteByte(after[n - 1], p[n])
    IN  after[Len(p)]

----------------------------------------------------------------------------
(* The cursor and the reader.                                              *)

(* A reader that was never made, or that was closed.                       *)
NoReader == [state |-> "none", chunks |-> <<>>, array |-> 0, fill |-> 0, refills |-> 0,
             from |-> -1, to |-> -1, cur |-> -1, rest |-> <<>>, taken |-> 0]

(* bufferCursor.reset: the slices of now, and the range when it is one.    *)
reset(r, b, from, to) ==
    LET ranged == from >= 0 /\ to > 0 /\ from < to /\ to <= Size(b)
    IN  [r EXCEPT !.chunks = b.chunks, !.array = b.array, !.fill = b.fill,
                  !.refills = b.refills, !.cur = -1,
                  !.from = IF ranged THEN from ELSE -1,
                  !.to = IF ranged THEN to ELSE -1]

ChunkCell(x) == [place |-> 0, byte |-> x]
TailCell(i) == [place |-> i, byte |-> Zero]
Value(b, cell) == IF cell.place = 0 THEN cell.byte ELSE b.tail[cell.place]

(* What nextBytes finds: the cells cut out, whether they are the last, and *)
(* whether the cut is out of range.                                        *)
Found(cells, last) == [cells |-> cells, last |-> last, panic |-> FALSE]
OutOfRange == [cells |-> <<>>, last |-> FALSE, panic |-> TRUE]

(* len(buffer) * len(buffer[0]): nothing when Clear emptied the slices.    *)
ViewBytes(r) ==
    IF r.chunks = <<>> \/ Head(r.chunks) = NilSlice THEN 0 ELSE Len(r.chunks) * ChunkSize

CutChunk(r) ==
    LET bfi == (r.from + 1) \div ChunkSize
        bi  == r.from % ChunkSize
        bmi == IF \/ r.to <= ChunkSize
                  \/ r.to <= ViewBytes(r) /\ r.to > ViewBytes(r) - ChunkSize
               THEN ChunkSize - (r.to % ChunkSize)
               ELSE ChunkSize
    IN  IF bfi >= Len(r.chunks) \/ bi > bmi THEN OutOfRange
        ELSE LET cut == SubSeq(r.chunks[bfi + 1], bi + 1, bmi)
             IN  Found([i \in DOMAIN cut |-> ChunkCell(cut[i])],
                       r.from + Len(cut) >= r.to)

(* Seeded fault: cuts from the first place of the tail. *)
CutTailFromStart(r) ==
    LET lo == r.from - ViewBytes(r)
        hi == r.to - ViewBytes(r)
    IN  IF hi > ChunkSize THEN OutOfRange
        ELSE Found([i \in 1..(hi - lo) |-> TailCell(i)], TRUE)

(* The slice of the tail may be cut up to the capacity of the tail, past   *)
(* the bytes it held when the cursor was reset.                            *)
CutTail(r) ==
    LET lo == r.from - ViewBytes(r)
        hi == r.to - ViewBytes(r)
    IN  IF hi > ChunkSize THEN OutOfRange
        ELSE Found([i \in 1..(hi - lo) |-> TailCell(lo + i)], TRUE)

(* Seeded fault: looks for the first byte of the tail in a chunk. *)
nextBytesAtEdge(r) ==
    IF \/ r.chunks = <<>> /\ r.fill = 0
       \/ r.from < 0
       \/ r.from >= r.to      THEN Found(<<>>, TRUE)
    ELSE IF r.from <= ViewBytes(r) THEN CutChunk(r)
    ELSE CutTail(r)

nextBytes(r) ==
    IF \/ r.chunks = <<>> /\ r.fill = 0
       \/ r.from < 0
       \/ r.from >= r.to      THEN Found(<<>>, TRUE)
    ELSE IF r.from < ViewBytes(r) THEN CutChunk(r)
    ELSE CutTail(r)

(* The reader asks its cursor for bytes; one that returns none and says it *)
(* is not at the end is asked again, for ever.                             *)
Fetch(r) ==
    LET f == nextBytes(r)
    IN  IF f.panic THEN [r EXCEPT !.state = "panic"]
        ELSE IF f.cells # <<>>
        THEN [r EXCEPT !.rest = f.cells, !.taken = 0, !.cur = r.from,
                       !.from = @ + Len(f.cells)]
        ELSE IF f.last THEN r ELSE [r EXCEPT !.state = "spins"]

(* One byte more for the slice that Read fills, if there is one.           *)
Pull(r) ==
    LET f == IF r.rest # <<>> \/ r.state # "open" THEN r ELSE Fetch(r)
    IN  IF f.rest = <<>> \/ f.state # "open" THEN f
        ELSE [f EXCEPT !.rest = Tail(@), !.taken = @ + 1]

(* The cell Pull delivers, as a sequence of none or one.                   *)
Pulled(r) ==
    LET f == IF r.rest # <<>> \/ r.state # "open" THEN r ELSE Fetch(r)
    IN  IF f.rest = <<>> \/ f.state # "open" THEN <<>> ELSE <<Head(f.rest)>>

----------------------------------------------------------------------------
(* What a reader owes: the bytes of the content it was made over (or       *)
(* sought in), from the offset it stands at to its end.                    *)

Owes(content, from, to, skewed) ==
    [content |-> content, from |-> from, at |-> from, to |-> to,
     skewed |-> skewed, wrong |-> FALSE, ended |-> FALSE]

NothingDue == Owes(<<>>, 0, 0, FALSE)

Deliver(d, x) ==
    [d EXCEPT !.at = @ + 1,
              !.wrong = @ \/ ~(d.at \in 0..(d.to - 1) /\ d.content[d.at + 1] = x)]

(* Read of k bytes: the reader afterwards, and what it delivered.          *)
ReadUpTo(r, d, b, k) ==
    LET step[n \in 0..k] ==
          IF n = 0 THEN [r |-> r, d |-> d, n |-> 0]
          ELSE LET s   == step[n - 1]
                   got == Pulled(s.r)
               IN  [r |-> Pull(s.r),
                    d |-> IF got = <<>> THEN s.d ELSE Deliver(s.d, Value(b, Head(got))),
                    n |-> s.n + Len(got)]
    IN  step[k]

----------------------------------------------------------------------------
(* The searches: the bytes of the whole buffer, fed one by one, forwards   *)
(* or backwards, to a scan of the bytes looked for (checkbytes).           *)

NoScan == [i |-> 0, prv |-> Zero, off |-> -1, dne |-> FALSE, stop |-> FALSE]

(* Seeded fault: a byte that differs does not undo the match. *)
ScanForwardKept(t, s, x, off) ==
    IF s.stop THEN s
    ELSE IF t[s.i + 1] # x THEN [s EXCEPT !.prv = x]
    ELSE IF s.i + 1 < Len(t) THEN [s EXCEPT !.i = @ + 1, !.prv = x]
    ELSE [s EXCEPT !.off = off - Len(t), !.dne = TRUE, !.stop = TRUE]

(* foundIndexOf and foundContains: byte x at offset off.  The offset of a  *)
(* match is taken one short, its last byte's less the length.              *)
ScanForward(t, s, x, off) ==
    LET i == IF s.i > 0 /\ t[s.i] = s.prv /\ t[s.i + 1] # x THEN 0 ELSE s.i
    IN  IF s.stop THEN s
        ELSE IF t[i + 1] # x THEN [s EXCEPT !.i = 0, !.prv = x]
        ELSE IF i + 1 < Len(t) THEN [s EXCEPT !.i = i + 1, !.prv = x]
        ELSE [s EXCEPT !.off = off - Len(t), !.dne = TRUE, !.stop = TRUE]

(* foundLastIndexOf and foundContainsReverse: the bytes looked for from    *)
(* their end; a byte that breaks a partial match is not looked at again.   *)
ScanBackward(t, s, x, off) ==
    IF s.stop THEN s
    ELSE IF t[Len(t) - s.i] # x THEN [s EXCEPT !.i = 0]
    ELSE IF s.i + 1 < Len(t) THEN [s EXCEPT !.i = @ + 1]
    ELSE [s EXCEPT !.off = off, !.dne = TRUE, !.stop = TRUE]

(* foundPrefix and foundSuffix stop at the first byte that differs.        *)
ScanAnchored(t, s, x) ==
    IF s.stop THEN s
    ELSE IF t[s.i + 1] # x THEN [s EXCEPT !.stop = TRUE]
    ELSE IF s.i + 1 < Len(t) THEN [s EXCEPT !.i = @ + 1]
    ELSE [s EXCEPT !.dne = TRUE, !.stop = TRUE]

Forward(c, t) ==
    LET scan[n \in 0..Len(c)] ==
          IF n = 0 THEN NoScan ELSE ScanForward(t, scan[n - 1], c[n], n - 1)
    IN  scan[Len(c)]

Backward(c, t) ==
    LET scan[n \in 0..Len(c)] ==
          IF n = 0 THEN NoScan
          ELSE ScanBackward(t, scan[n - 1], c[Len(c) - n + 1], Len(c) - n)
    IN  scan[Len(c)]

Anchored(c, t) ==
    LET scan[n \in 0..Len(c)] ==
          IF n = 0 THEN NoScan ELSE ScanAnchored(t, scan[n - 1], c[n])
    IN  scan[Len(c)]

IndexOf(b, t) == Forward(Content(b), t).off
LastIndexOf(b, t) == Backward(Content(b), t).off
HasPrefix(b, t) == Anchored(Content(b), t).dne
HasSuffix(b, t) == Anchored(Reverse(Content(b)), Reverse(t)).dne

(* ContainsBytes scans from both ends by turns, a chunk each; the scan     *)
(* forwards ends it, one chunk before the scan backwards would reach the   *)
(* first one.                                                              *)
ContainsBytes(b, t) ==
    LET first == IF b.chunks = <<>> THEN b.fill ELSE ChunkSize
    IN  \/ Forward(Content(b), t).dne
        \/ Backward(SubSeq(Content(b), first + 1, Size(b)), t).dne

(* Seeded fault: the byte at the end offset is written too. *)
PartOfInclusive(piece, off, str, end) ==
    SubSeq(piece, IF str > off THEN str - off + 1 ELSE 1,
                  IF end < off + Len(piece) THEN end - off + 1 ELSE Len(piece))

(* internalBufferWriteToOffSet: every chunk and the tail give their part   *)
(* of the range; a start beyond a chunk ends the loop at that chunk.       *)
PartOf(piece, off, str, end) ==
    SubSeq(piece, IF str > off THEN str - off + 1 ELSE 1,
                  IF end < off + Len(piece) THEN end - off ELSE Len(piece))

WriteToOffSet(b, str, end) ==
    LET pieces == Append(b.chunks, SubSeq(b.tail, 1, b.fill))
        off(n) == (n - 1) * ChunkSize
        ends(n) == off(n) >= end \/ str >= off(n) + n * ChunkSize
        stop == IF \E n \in DOMAIN b.chunks : ends(n)
                THEN CHOOSE n \in DOMAIN b.chunks : ends(n) /\ \A m \in 1..(n - 1) : ~ends(m)
                ELSE Len(pieces) + 1
    IN  FlattenSeq([n \in 1..(stop - 1) |-> PartOf(pieces[n], off(n), str, end)])

----------------------------------------------------------------------------
BufferInit == buf = NewBuffer /\ reader = NoReader /\ due = NothingDue /\ written = 0

Write(p) ==
    /\ written + Len(p) <= MaxWritten
    /\ buf' = writeBytes(buf, p)
    /\ written' = written + Len(p)
    /\ UNCHANGED <<reader, due>>

(* Reader(from, to), to = Size when the caller gives none.                 *)
Reader(from, to) ==
    /\ reader.state = "none" /\ Size(buf) > 0
    /\ reader' = reset([NoReader EXCEPT !.state = "open"], buf, from, to)
    /\ due' = Owes(Content(buf), from, to, FALSE)
    /\ UNCHANGED <<buf, written>>

Read(k) ==
    /\ reader.state = "open"
    /\ LET done == ReadUpTo(reader, due, buf, k)
       IN  /\ reader' = done.r
           /\ due' = IF done.r.state = "open" /\ done.n = 0
                     THEN [done.d EXCEPT !.ended = TRUE] ELSE done.d
    /\ UNCHANGED <<buf, written>>

(* The offset Seek moves to; the code's own reckoning for SeekCurrent and  *)
(* SeekEnd.                                                                *)
SeekTo(r, b, whence, offset) ==
    CASE whence = "start"   -> offset
      [] whence = "current" -> IF r.cur = -1 THEN offset ELSE r.cur - r.taken + offset
      [] whence = "end"     -> Size(b) - offset

Seekable(r, b, whence, offset) ==
    CASE whence = "start"   -> offset >= 0 /\ offset < Size(b)
      [] whence = "current" -> r.cur - r.taken >= -1 /\ r.cur - r.taken + offset < Size(b)
      [] whence = "end"     -> Size(b) - offset >= 0 /\ offset >= 0

(* Seek resets the cursor and leaves the bytes already fetched (rbytes).   *)
Seek(whence, offset) ==
    /\ reader.state = "open"
    /\ Size(buf) > 0 /\ Seekable(reader, buf, whence, offset)
    /\ LET n == SeekTo(reader, buf, whence, offset)
       IN  /\ reader' = reset(reader, buf, n, Size(buf))
           /\ due' = Owes(Content(buf), n, Size(buf), reader.rest # <<>>)
    /\ UNCHANGED <<buf, written>>

CloseReader ==
    /\ reader.state # "none"
    /\ reader' = NoReader /\ due' = NothingDue
    /\ UNCHANGED <<buf, written>>

(* buff.buffer = nil and buff.bytesi = 0: the tail is started again.       *)
Emptied(b) == [b EXCEPT !.chunks = <<>>, !.cap = 0, !.array = @ + 1, !.fill = 0,
                        !.refills = @ + 1]

(* Clear sets every slice of the slice of chunks to nil, in the array that *)
(* the cursors made since its last growth share.                           *)
Clear ==
    /\ Size(buf) > 0
    /\ buf' = Emptied(buf)
    /\ reader' = IF reader.array = buf.array
                 THEN [reader EXCEPT !.chunks = [i \in DOMAIN @ |-> NilSlice]]
                 ELSE reader
    /\ UNCHANGED <<due, written>>

(* Clone(true): the slices go to the clone one by one and the array keeps  *)
(* them, since Clear then finds no chunk.                                  *)
CloneAndClear ==
    /\ Size(buf) > 0
    /\ buf' = Emptied(buf)
    /\ UNCHANGED <<reader, due, written>>

BufferNext ==
    \/ \E p \in BoundedSeq(Byte, MaxPush) \ {<<>>} : Write(p)
    \/ \E to \in 1..Size(buf) : \E from \in 0..(to - 1) : Reader(from, to)
    \/ \E k \in 1..MaxRead : Read(k)
    \/ \E offset \in 0..Size(buf) : Seek("start", offset) \/ Seek("end", offset)
    \/ \E offset \in -1..1 : Seek("current", offset)
    \/ CloseReader
    \/ Clear
    \/ CloneAndClear

BufferSpec == BufferInit /\ [][BufferNext]_bufferVars

----------------------------------------------------------------------------
Bytes == Byte \cup {Zero}
Chunk == [1..ChunkSize -> Bytes]
Cell == [place : 0..ChunkSize, byte : Bytes]

BufferType == [chunks : Seq(Chunk), cap : Nat, array : Nat, tail : Chunk,
               fill : 0..(ChunkSize - 1), refills : Nat]
ReaderType == [state : {"none", "open", "panic", "spins"},
               chunks : Seq(Chunk) \cup Seq({NilSlice}), array : Nat,
               fill : 0..(ChunkSize - 1), refills : Nat, from : Int, to : Int,
               cur : Int, rest : Seq(Cell), taken : Nat]
DueType == [content : Seq(Bytes), from : Int, at : Int, to : Int,
            skewed : BOOLEAN, wrong : BOOLEAN, ended : BOOLEAN]

BufferTypeOK ==
    /\ buf \in BufferType
    /\ reader \in ReaderType
    /\ due \in DueType
    /\ written \in 0..MaxWritten

----------------------------------------------------------------------------
(* The range a reader was made with fits the reckoning of nextBytes: it    *)
(* does not start on the last byte of a chunk, and ends at the end of a    *)
(* chunk or in the tail.                                                   *)
Aligned(r, d) ==
    /\ d.from < Len(r.chunks) * ChunkSize => (d.from + 1) % ChunkSize # 0
    /\ d.to <= Len(r.chunks) * ChunkSize => d.to % ChunkSize = 0

Wiped(r) == r.chunks # <<>> /\ Head(r.chunks) = NilSlice
Overtaken(r, b) == r.fill > 0 /\ r.refills # b.refills

(* A reader delivers the bytes the buffer held when it was made (or last   *)
(* sought in), in order and all of them before it ends, whatever is        *)
(* written, cleared or moved meanwhile, with four exceptions: the tail it  *)
(* refers to was started again (the bytes of a later chunk come out);      *)
(* Clear emptied the slices of chunks it shares; Seek left the bytes it    *)
(* had fetched (Seek does not reset rbytes); its range is not aligned.     *)
ReaderDelivers ==
    /\ reader.state # "none" /\ due.from \in 0..due.to
    /\ due.wrong \/ (due.ended /\ due.at # due.to)
    => Overtaken(reader, buf) \/ Wiped(reader) \/ due.skewed \/ ~Aligned(reader, due)

(* A Read stops with an index out of range, or turns for ever on a cursor  *)
(* that gives no byte and no end, only over slices that Clear emptied or   *)
(* with a range that is not aligned (SubBuffer(0, Size-1) of template/code *)
(* over exactly full chunks is one); a tail overtaken by later writes, and *)
(* a buffer moved into a clone, never stop a reader.                       *)
StopsNeedCause ==
    reader.state \in {"panic", "spins"} => Wiped(reader) \/ ~Aligned(reader, due)

Patterns == BoundedSeq(Byte, MaxPattern) \ {<<>>}
Occurs(t, c, off) ==
    off \in 0..(Len(c) - Len(t)) /\ SubSeq(c, off + 1, off + Len(t)) = t
Offsets(t, c) == {off \in 0..Len(c) : Occurs(t, c, off)}
First(S) == CHOOSE off \in S : \A other \in S : off <= other

(* The first byte of t is nowhere else in t: no match begins within a      *)
(* partial match.                                                          *)
HeadUnique(t) == \A i \in 2..Len(t) : t[i] # t[1]

(* The scans, byte by byte over the content (that a cursor over a whole    *)
(* buffer gives its bytes in order is ReaderDelivers), against their       *)
(* definitions.  HasPrefix and HasSuffix are exact.  A match that          *)
(* Contains, IndexOf or LastIndexOf reports is one; IndexOf gives the      *)
(* offset before it.  No match is missed, and IndexOf stands for the       *)
(* first, when the first byte looked for does not recur in the bytes       *)
(* looked for.                                                             *)
SearchExact ==
    reader.state = "none" =>
      LET c == Content(buf) IN
      \A t \in Patterns :
        /\ HasPrefix(buf, t) <=> Occurs(t, c, 0)
        /\ HasSuffix(buf, t) <=> Occurs(t, c, Len(c) - Len(t))
        /\ ContainsBytes(buf, t) => Offsets(t, c) # {}
        /\ IndexOf(buf, t) >= 0 => Occurs(t, c, IndexOf(buf, t) + 1)
        /\ LastIndexOf(buf, t) >= 0 => Occurs(t, c, LastIndexOf(buf, t))
        /\ HeadUnique(t) /\ Offsets(t, c) # {} =>
             ContainsBytes(buf, t) /\ IndexOf(buf, t) = First(Offsets(t, c)) - 1

(* WriteTo and SubString write the bytes from str up to end, wherever the  *)
(* end lies in chunks or tail, if str lies in the first chunk or nothing   *)
(* is in chunks.                                                           *)
SubStringExact ==
    reader.state = "none" =>
      \A end \in 1..Size(buf) : \A str \in 0..(end - 1) :
        buf.chunks = <<>> \/ str < ChunkSize =>
          WriteToOffSet(buf, str, end) = SubSeq(Content(buf), str + 1, end)

(* What the comment of SubString says (buffer.go:818): the string value    *)
(* based on the offsets.  A start beyond the first chunk ends the loop at  *)
(* that chunk (str >= off + n * ChunkSize), and nothing is written.        *)
SubStringDocumented ==
    \A end \in 1..Size(buf) : \A str \in 0..(end - 1) :
      WriteToOffSet(buf, str, end) = SubSeq(Content(buf), str + 1, end)

(* What the comment of IndexOf says (buffer.go:639): the index of the      *)
(* bytes looked for, or -1 if they are not found.  The code gives the      *)
(* index less one, so that a match at the start is reported as none.       *)
IndexOfDocumented ==
    \A t \in Patterns :
      LET S == Offsets(t, Content(buf))
      IN  HeadUnique(t) => IndexOf(buf, t) = IF S = {} THEN -1 ELSE First(S)

=============================================================================
