--------------------------- MODULE ReaderProofs ---------------------------
(***************************************************************************)
(* Proofs about the two readers that look into what others change: the     *)
(* cursor over a query (Rows) and the reader over a byte buffer (Buffer).  *)
(*                                                                         *)
(* Rows, for every N and every query: the cursor delivers the selected     *)
(* rows in order with exact flags, whatever fails, until another goroutine *)
(* begins to close the reader; then at most one record comes after the     *)
(* reader has lost its rows.  The invariant that carries the proof says    *)
(* for each step of Next, while nobody else closes, which row each buffer  *)
(* holds, and that no selected row lies between the rows it has seen.      *)
(*                                                                         *)
(* Buffer, for every size of a chunk, every number of bytes and every      *)
(* pattern: what a reader delivers and what can stop it, what the searches *)
(* find and what a cut of the bytes gives.  Writes, reads and searches are *)
(* loops; each is a recursive function of the model, and an induction over *)
(* its turns says what it computes.                                        *)
(***************************************************************************)
EXTENDS Rows, Buffer, WellFoundedInduction, SequenceTheorems, TLAPS

Sel == q.sel \cap Row

(* The delivered record i is the selected row after record i - 1. *)
RecordOK(i) ==
  /\ out[i].row \in Sel
  /\ RowBefore(i) < out[i].row
  /\ NoneBetween(RowBefore(i), out[i].row)
  /\ out[i].nr = i
  /\ out[i].first = (i = 1)
  /\ out[i].last = NoneBetween(out[i].row, N + 1)

OutInv == \A i \in 1 .. Len(out) : RecordOK(i)

(* lstdta holds the accepted row that comes after the last record. *)
Held ==
  /\ r.lstdta \in Sel
  /\ LastRow < r.lstdta
  /\ NoneBetween(LastRow, r.lstdta)
  /\ r.lstdta <= irows.pos
  /\ r.rwnr = Len(out) + 1

(* The rows up to p hold no selected row beyond the one held back, or none *)
(* at all while the first one is sought.                                   *)
SeenTo(p) ==
  IF phase = "seek"
  THEN out = << >> /\ r.rwnr = 0 /\ NoneBetween(0, p)
  ELSE Held /\ NoneBetween(r.lstdta, p)

(* Between two calls: nothing begun, the next row in nxtdta, or the end. *)
Between ==
  IF ~r.started
  THEN out = << >> /\ irows.pos = 0 /\ r.rwnr = 0 /\ ~r.last
  ELSE /\ out # << >>
       /\ r.rwnr = Len(out)
       /\ IF r.last
          THEN NoneBetween(LastRow, N + 1)
          ELSE /\ r.nxtdta = irows.pos /\ irows.pos \in Sel
               /\ LastRow < irows.pos /\ NoneBetween(LastRow, irows.pos)

(* Nobody has closed anything; the columns are loaded and the Select       *)
(* function is installed.                                                  *)
Whole == r.open /\ ~irows.closed /\ rwsc["rec"] = "none"

Begun == r.cols /\ r.slct = q.evt

(* Inside a call: started, and First() tells whether it is the first. *)
Running ==
  /\ Whole /\ Begun /\ r.started /\ ~r.last
  /\ r.first = (out = << >>)

(* A row has been read that is not yet judged. *)
Candidate ==
  /\ Running /\ r.swpdta /\ irows.pos > 0 /\ SeenTo(irows.pos)
  /\ phase = "ahead" => r.lstdta < irows.pos

(* What holds at each step of Next while nobody has closed the reader. *)
AtIdle == Between /\ Whole /\ ~r.swpdta /\ ~erred /\ (r.started => Begun)

AtRead == Running /\ ~erred /\ SeenTo(irows.pos + 1)

AtReadCheck ==
  /\ Running /\ erred = r.lsterr
  /\ IF rdrc
     THEN /\ ~erred /\ irows.pos > 0 /\ SeenTo(irows.pos)
          /\ phase = "ahead" => r.lstdta < irows.pos
     ELSE SeenTo(irows.pos + 1) /\ (~erred => irows.pos = N)

AtScanCheck ==
  /\ Candidate /\ erred = r.lsterr
  /\ IF erred THEN q.badScan = irows.pos ELSE r.nxtdta = irows.pos

AtSelect == Candidate /\ ~erred /\ r.nxtdta = irows.pos

AtTrue ==
  /\ Held /\ Whole /\ Begun /\ r.started
  /\ r.dta = r.lstdta /\ ~r.swpdta /\ ~erred
  /\ r.first = (out = << >>)
  /\ IF r.last THEN NoneBetween(r.lstdta, N + 1)
     ELSE /\ r.nxtdta = irows.pos /\ irows.pos \in Sel
          /\ r.lstdta < irows.pos /\ NoneBetween(r.lstdta, irows.pos)

AtFalse ==
  /\ erred => \A s, t \in Undelivered : s = t
  /\ ~erred => NoneBetween(LastRow, N + 1)

Prepping == pc \in {"prep", "fill", "make", "new"}

(* Nobody has begun to close the reader. *)
Calm ==
  /\ cl["next"].at = "none" /\ cl["other"].at = "none"
  /\ rwsc["next"] = "none" /\ rwsc["other"] = "none"
  /\ rdr.rws /\ rdr.evt = q.evt

(* The look-ahead until somebody begins to close the reader. *)
CursorInv ==
  closedBy = "none" =>
    /\ Calm /\ pc \notin {"panic", "closing"}
    /\ pc \in {"idle", "cols", "irows"} => AtIdle
    /\ pc = "cols" => evt = q.evt
    /\ pc = "irows" => Begun
    /\ pc = "read" => AtRead
    /\ pc = "readchk" => AtReadCheck
    /\ pc = "scan" => Candidate /\ ~erred
    /\ pc = "scanchk" => AtScanCheck
    /\ Prepping => IF r.swpdta THEN AtSelect ELSE AtTrue
    /\ pc = "fill" => rdr.made
    /\ pc = "judge" => AtSelect /\ (r.slct => rdr.rc.row = irows.pos)
    /\ pc = "return" => AtTrue /\ rdr.rc = CurrentRecord
    /\ pc \in {"rclose", "false"} => AtFalse

(* A reader.Close past its field rws has left the reader without rows, a   *)
(* panic has its cause, and when Next has closed the reader the verdict on *)
(* what was lost stands.                                                   *)
EndInv ==
  /\ \A w \in Closers : cl[w].at \in {"take", "close", "done"} => ~rdr.rws
  /\ pc = "panic" => closedBy = "other"
  /\ closedBy = "next" =>
       /\ pc \in {"closing", "idle"}
       /\ pc = "idle" => ~rdr.rws
       /\ CompleteUnlessFailed
       /\ AtMostOneRowLost

IInv == TypeOK /\ OutInv /\ CursorInv /\ EndInv
---------------------------------------------------------------------------
(* The fields of the structs have the types of their declarations. *)
LEMMA Fields ==
  ASSUME TypeOK
  PROVE  /\ r.open \in BOOLEAN /\ r.cols \in BOOLEAN /\ r.started \in BOOLEAN
         /\ r.first \in BOOLEAN /\ r.last \in BOOLEAN
         /\ r.swpdta \in BOOLEAN /\ r.lsterr \in BOOLEAN
         /\ r.slct \in BOOLEAN /\ r.rwnr \in Nat
         /\ r.dta \in Buf /\ r.nxtdta \in Buf /\ r.lstdta \in Buf
         /\ irows.pos \in 0 .. N /\ irows.closed \in BOOLEAN
         /\ rdr.rws \in BOOLEAN /\ rdr.made \in BOOLEAN
         /\ rdr.evt \in BOOLEAN /\ rdr.rc \in Record
         /\ q.evt \in BOOLEAN
  BY DEF TypeOK, RowsStruct, ReaderStruct, Query

(* What prepRecord copies is a record. *)
LEMMA CurrentRecordType == ASSUME TypeOK PROVE CurrentRecord \in Record
  BY Fields DEF CurrentRecord, Record, Data, RowNR, Buf

(* The row that was read is a value of a buffer. *)
LEMMA PosType ==
  ASSUME TypeOK
  PROVE  irows.pos \in Buf /\ Torn \in Buf /\ Nil \in Buf
<1>1. irows.pos \in Nat /\ (irows.pos = 0 \/ irows.pos \in Row)
  BY Fields, NAssumption DEF Row
<1> QED
  BY <1>1 DEF Buf, Nil

(* The initial state has the declared types. *)
LEMMA TypeInit == Init => TypeOK
<1> SUFFICES ASSUME Init PROVE TypeOK
  OBVIOUS
<1>1. r \in RowsStruct
  BY DEF Init, RowsStruct, Buf, Nil
<1>2. irows \in [pos : 0 .. N, closed : BOOLEAN]
  BY NAssumption DEF Init
<1>3. rdr \in ReaderStruct
  <2>1. NoRecord \in Record /\ q.evt \in BOOLEAN
    BY DEF Init, NoRecord, Record, Buf, Nil, Query
  <2>2. QED
    BY <2>1 DEF Init, ReaderStruct
<1>4. out \in Seq(Record)
  BY DEF Init
<1>5. QED
  BY <1>1, <1>2, <1>3, <1>4 DEF Init, TypeOK, Closers, RowsClosers

(* Every step of nextRec keeps the struct rows in its type. *)
LEMMA RowsType ==
  ASSUME TypeOK,
         SelectCols \/ NextRec \/ ReadRow \/ ReadCheck \/ ScanRow \/ Judge
  PROVE  r' \in RowsStruct
<1>1. CASE SelectCols
  <2>1. evt \in BOOLEAN
    BY DEF TypeOK
  <2>2. CASE r' = [r EXCEPT !.lsterr = TRUE]
    BY <2>2, Fields DEF TypeOK, RowsStruct
  <2>3. CASE r' = [r EXCEPT !.cols = @ \/ r.open,
                            !.slct = IF r.started THEN @ ELSE evt]
    BY <2>1, <2>3, Fields DEF TypeOK, RowsStruct
  <2> QED
    BY <1>1, <2>2, <2>3 DEF SelectCols
<1>2. CASE NextRec
  <2>1. r.rwnr + 1 \in Nat
    BY Fields
  <2>2. QED
    BY <1>2, <2>1, Fields, ZenonT(40)
    DEF NextRec, Advance, TypeOK, RowsStruct
<1>3. CASE ReadRow
  <2>1. PICK err \in BOOLEAN : r' = [r EXCEPT !.lsterr = err]
    BY <1>3 DEF ReadRow, ReadFails
  <2>2. QED
    BY <2>1, Fields DEF TypeOK, RowsStruct
<1>4. CASE ReadCheck
  <2>1. \A e \in BOOLEAN : Show(r, e) \in RowsStruct
    BY PosType, Fields, ZenonT(40) DEF Show, TypeOK, RowsStruct
  <2>2. [r EXCEPT !.swpdta = TRUE] \in RowsStruct
    BY Fields DEF TypeOK, RowsStruct
  <2>3. QED
    BY <1>4, <2>1, <2>2 DEF ReadCheck, TypeOK
<1>5. CASE ScanRow
  <2>1. PICK fails \in BOOLEAN :
          r' = [r EXCEPT !.lsterr = fails,
                         !.nxtdta = IF irows.closed THEN @
                                    ELSE IF fails THEN Torn ELSE irows.pos]
    BY <1>5 DEF ScanRow
  <2>2. QED
    BY <2>1, PosType, Fields DEF TypeOK, RowsStruct
<1>6. CASE Judge
  <2>1. Show(r, r.last) \in RowsStruct
    BY PosType, Fields, ZenonT(40) DEF Show, TypeOK, RowsStruct
  <2>2. r.rwnr + 1 \in Nat
    BY Fields
  <2>3. Hold(r) \in RowsStruct
    BY <2>2, Fields, ZenonT(40) DEF Hold, TypeOK, RowsStruct
  <2>4. QED
    BY <1>6, <2>1, <2>3 DEF Judge, TypeOK
<1> QED
  BY <1>1, <1>2, <1>3, <1>4, <1>5, <1>6

(* Every step of a close keeps the reader, the rows and the closes in      *)
(* their types.                                                            *)
LEMMA CloseType ==
  ASSUME TypeOK, NEW w \in Closers, ReaderClose(w)
  PROVE  TypeOK'
<1>1. NoRecord \in Record
  BY DEF NoRecord, Record, Buf
<1>2. rdr' \in ReaderStruct
  <2>1. /\ [rdr EXCEPT !.evt = FALSE] \in ReaderStruct
        /\ [rdr EXCEPT !.made = FALSE, !.rc = NoRecord] \in ReaderStruct
        /\ [rdr EXCEPT !.stmnt = FALSE] \in ReaderStruct
        /\ [rdr EXCEPT !.rws = FALSE] \in ReaderStruct
        /\ [rdr EXCEPT !.srows = FALSE] \in ReaderStruct
        /\ rdr \in ReaderStruct
    BY <1>1 DEF TypeOK, ReaderStruct
  <2>2. QED
    BY <2>1
    DEF ReaderClose, CloseDrops, StatementTakes, StatementCloses, TypeOK
<1>3. /\ rdr.stmnt \in BOOLEAN /\ rdr.srows \in BOOLEAN
      /\ cl[w].stmnt \in BOOLEAN
  BY DEF TypeOK, ReaderStruct
<1>4. cl' \in [Closers ->
               [at : {"none", "evnts", "rc", "stmnt", "rws", "take", "close",
                      "done"}, stmnt : BOOLEAN, rows : BOOLEAN]]
  BY <1>3
  DEF ReaderClose, CloseDrops, StatementTakes, StatementCloses, TypeOK
<1>5. rwsc' \in [RowsClosers -> {"none", "dta", "irows", "driver", "done"}]
  BY DEF ReaderClose, CloseDrops, StatementTakes, StatementCloses, TypeOK
<1> QED
  BY <1>2, <1>4, <1>5
  DEF ReaderClose, CloseDrops, StatementTakes, StatementCloses, TypeOK

(* Every step keeps every field in its range. *)
LEMMA TypeStep == TypeOK /\ [Next]_vars => TypeOK'
<1> SUFFICES ASSUME TypeOK, [Next]_vars PROVE TypeOK'
  OBVIOUS
<1>1. CASE NextCall
  BY <1>1, Fields DEF NextCall, TypeOK
<1>2. CASE SelectCols
  BY <1>2, RowsType DEF SelectCols, TypeOK
<1>3. CASE NextRec
  BY <1>3, RowsType DEF NextRec, TypeOK
<1>4. CASE ReadRow
  <2>1. irows' \in [pos : 0 .. N, closed : BOOLEAN]
    BY <1>4, NAssumption DEF ReadRow, ReadFinds, TypeOK
  <2>2. QED
    BY <1>4, <2>1, RowsType DEF ReadRow, ReadFinds, ReadFails, TypeOK
<1>5. CASE ReadCheck
  BY <1>5, RowsType DEF ReadCheck, TypeOK
<1>6. CASE ScanRow
  <2>1. erred' \in BOOLEAN
    BY <1>6 DEF ScanRow, TypeOK
  <2>2. QED
    BY <1>6, <2>1, RowsType DEF ScanRow, TypeOK
<1>7. CASE ScanCheck
  BY <1>7 DEF ScanCheck, TypeOK
<1>8. CASE RecClosed \/ PrepRecord \/ AskErr \/ NextEnds
  BY <1>8 DEF RecClosed, PrepRecord, AskErr, NextEnds, TypeOK
<1>9. CASE FillRecord \/ NewRecord
  <2>1. rdr' \in ReaderStruct
    <3>1. /\ [rdr EXCEPT !.rc = CurrentRecord] \in ReaderStruct
          /\ [rdr EXCEPT !.made = TRUE, !.rc = CurrentRecord] \in ReaderStruct
          /\ rdr \in ReaderStruct
      BY CurrentRecordType DEF TypeOK, ReaderStruct
    <3>2. QED
      BY <1>9, <3>1, Zenon DEF FillRecord, NewRecord
  <2>2. pc' \in {"judge", "return"}
    BY <1>9 DEF FillRecord, NewRecord, AfterPrep
  <2>3. QED
    BY <1>9, <2>1, <2>2 DEF FillRecord, NewRecord, TypeOK
<1>10. CASE Judge
  BY <1>10, RowsType DEF Judge, TypeOK
<1>11. CASE ReturnTrue
  <2>1. out' \in Seq(Record)
    <3>1. out' = out \/ out' = Append(out, rdr.rc)
      BY <1>11 DEF ReturnTrue
    <3>2. out \in Seq(Record) /\ rdr.rc \in Record
      BY Fields DEF TypeOK
    <3>3. QED
      BY <3>1, <3>2
  <2>2. late' \in Nat
    BY <1>11 DEF ReturnTrue, TypeOK
  <2>3. QED
    BY <1>11, <2>1, <2>2 DEF ReturnTrue, TypeOK
<1>12. CASE ReturnFalse
  BY <1>12 DEF ReturnFalse, TypeOK, Closers
<1>13. CASE CloseByOther
  BY <1>13 DEF CloseByOther, TypeOK, Closers
<1>14. CASE \E w \in Closers : ReaderClose(w)
  BY <1>14, CloseType
<1>15. CASE \E w \in RowsClosers : RowsClose(w)
  <2>1. PICK w \in RowsClosers : RowsClose(w)
    BY <1>15
  <2>2. r' \in RowsStruct
    <3>1. /\ [r EXCEPT !.dta = Nil, !.cols = FALSE] \in RowsStruct
          /\ [r EXCEPT !.open = FALSE, !.lsterr = FALSE] \in RowsStruct
          /\ r \in RowsStruct
      BY PosType DEF TypeOK, RowsStruct
    <3>2. QED
      BY <2>1, <3>1 DEF RowsClose
  <2>3. irows' \in [pos : 0 .. N, closed : BOOLEAN]
    BY <2>1 DEF RowsClose, TypeOK
  <2>4. QED
    BY <2>1, <2>2, <2>3 DEF RowsClose, TypeOK
<1>16. CASE UNCHANGED vars
  BY <1>16 DEF vars, TypeOK
<1> QED
  BY <1>1, <1>2, <1>3, <1>4, <1>5, <1>6, <1>7, <1>8, <1>9, <1>10, <1>11,
     <1>12, <1>13, <1>14, <1>15, <1>16 DEF Next, NextSteps

(* Type correctness, for every N and every query. *)
THEOREM TypeCorrect == Spec => []TypeOK
  BY TypeInit, TypeStep, PTL DEF Spec

---------------------------------------------------------------------------
(* The delivered records only depend on the query and on out. *)
LEMMA OutKept ==
  ASSUME OutInv, q' = q, out' = out
  PROVE  OutInv' /\ LastRow' = LastRow
  BY DEF OutInv, RecordOK, RowBefore, NoneBetween, LastRow, Sel

(* The last record's row is a position of the result. *)
LEMMA LastRowInt == ASSUME TypeOK, OutInv PROVE LastRow \in 0 .. N
  BY NAssumption DEF OutInv, RecordOK, LastRow, TypeOK, Sel, Row

(* A step inside a call that leaves the closes alone keeps the verdict. *)
LEMMA EndKept ==
  ASSUME EndInv, cl' = cl, rdr'.rws = rdr.rws, closedBy' = closedBy,
         closedBy # "next", pc' = "panic" => closedBy = "other"
  PROVE  EndInv'
  BY DEF EndInv

(* While the reader is open, nobody closes it. *)
LEMMA CalmKept ==
  ASSUME Calm, q' = q, cl' = cl, rdr'.rws = rdr.rws, rdr'.evt = rdr.evt,
         rwsc'["next"] = rwsc["next"], rwsc'["other"] = rwsc["other"]
  PROVE  Calm'
  BY DEF Calm

(* What is known at a step depends on the cursor only. *)
LEMMA AtKept ==
  ASSUME q' = q, irows' = irows, r' = r, phase' = phase, erred' = erred,
         out' = out, rwsc'["rec"] = rwsc["rec"], LastRow' = LastRow
  PROVE  /\ AtIdle => AtIdle'
         /\ AtSelect => AtSelect'
         /\ AtTrue => AtTrue'
         /\ AtFalse => AtFalse'
         /\ Begun => Begun'
<1>1. Sel' = Sel /\ Undelivered' = Undelivered
  BY DEF Sel, Undelivered
<1>2. \A a, b : NoneBetween(a, b)' <=> NoneBetween(a, b)
  BY DEF NoneBetween
<1>3. /\ Held' <=> Held
      /\ Whole' <=> Whole
      /\ Begun' <=> Begun
  BY <1>1 DEF Held, Whole, Begun, NoneBetween
<1>4. Between' <=> Between
  BY <1>1 DEF Between, NoneBetween
<1>5. AtIdle => AtIdle'
  BY <1>3, <1>4 DEF AtIdle
<1>6. AtSelect => AtSelect'
  BY <1>3 DEF AtSelect, Candidate, Running, SeenTo, NoneBetween
<1>7. AtTrue => AtTrue'
  BY <1>1, <1>3 DEF AtTrue, NoneBetween
<1>8. AtFalse => AtFalse'
  BY <1>1 DEF AtFalse, NoneBetween
<1> QED
  BY <1>3, <1>5, <1>6, <1>7, <1>8

(* Each step of reader.Next preserves the look-ahead and the verdict. *)
LEMMA StepNextCall ==
  ASSUME IInv, NextCall PROVE CursorInv' /\ EndInv'
<1> USE DEF IInv
<1>1. /\ pc = "idle" /\ pc' = "cols" /\ evt' = rdr.evt /\ rdr.rws
      /\ UNCHANGED <<q, irows, r, phase, rdr, cl, rwsc, closedBy, erred, out>>
      /\ LastRow' = LastRow
  BY OutKept DEF NextCall
<1>2. EndInv'
  <2>1. closedBy # "next"
    BY <1>1 DEF EndInv
  <2>2. QED
    BY <1>1, <2>1, EndKept
<1>3. ASSUME closedBy = "none" PROVE CursorInv'
  <2>1. AtIdle /\ Calm
    BY <1>1, <1>3 DEF CursorInv
  <2>2. AtIdle' /\ Calm'
    BY <1>1, <2>1, AtKept, CalmKept
  <2>3. evt' = q'.evt
    BY <1>1, <2>1 DEF Calm
  <2>4. QED
    BY <1>1, <2>2, <2>3 DEF CursorInv, Prepping
<1> QED
  BY <1>1, <1>2, <1>3 DEF CursorInv

(* Loading the columns leaves the cursor where it was, or ends the call.   *)
LEMMA StepSelectCols ==
  ASSUME IInv, SelectCols PROVE CursorInv' /\ EndInv'
<1> USE DEF IInv
<1>1. /\ pc = "cols" /\ pc' \in {"false", "irows"}
      /\ UNCHANGED <<q, irows, phase, rdr, cl, rwsc, closedBy, out>>
      /\ LastRow' = LastRow
  BY OutKept DEF SelectCols
<1>2. EndInv'
  <2>1. closedBy # "next"
    BY <1>1 DEF EndInv
  <2>2. QED
    BY <1>1, <2>1, EndKept
<1>3. ASSUME closedBy = "none" PROVE CursorInv'
  <2>1. AtIdle /\ Calm /\ evt = q.evt
    BY <1>1, <1>3 DEF CursorInv
  <2>2. Calm'
    BY <1>1, <2>1, CalmKept
  <2>3. CASE pc' = "false"
    <3>1. erred' = TRUE
      BY <2>3 DEF SelectCols
    <3>2. \A x, y \in Undelivered' : x = y
      BY <1>1, <2>1, Fields, LastRowInt, NAssumption
      DEF AtIdle, Between, Undelivered, Row, NoneBetween, Sel
    <3>3. AtFalse'
      BY <3>1, <3>2 DEF AtFalse
    <3>4. QED
      BY <1>1, <2>2, <2>3, <3>3 DEF CursorInv, Prepping
  <2>4. CASE pc' = "irows"
    <3>1. /\ r' = [r EXCEPT !.cols = @ \/ r.open,
                            !.slct = IF r.started THEN @ ELSE evt]
          /\ erred' = erred
      BY <2>4 DEF SelectCols
    <3>2. /\ r'.open = r.open /\ r'.started = r.started /\ r'.last = r.last
          /\ r'.first = r.first /\ r'.swpdta = r.swpdta /\ r'.rwnr = r.rwnr
          /\ r'.nxtdta = r.nxtdta
          /\ r'.cols = (r.cols \/ r.open)
          /\ r'.slct = IF r.started THEN r.slct ELSE evt
      BY <3>1 DEF TypeOK, RowsStruct
    <3>3. r.open /\ (r.started => Begun) /\ Whole /\ Between
      BY <2>1 DEF AtIdle, Whole
    <3>4. Begun'
      BY <1>1, <2>1, <3>2, <3>3 DEF Begun
    <3>5. Between' /\ Whole'
      BY <1>1, <3>2, <3>3 DEF Between, NoneBetween, Sel, Whole
    <3>6. AtIdle'
      BY <2>1, <3>1, <3>2, <3>4, <3>5 DEF AtIdle
    <3>7. QED
      BY <1>1, <2>2, <2>4, <3>4, <3>6 DEF CursorInv, Prepping
  <2> QED
    BY <1>1, <2>3, <2>4
<1> QED
  BY <1>1, <1>2, <1>3 DEF CursorInv

(* nextRec begins: with the first row, or past the row found ahead.        *)
LEMMA StepNextRec ==
  ASSUME IInv, NextRec PROVE CursorInv' /\ EndInv'
<1> USE DEF IInv
<1>1. /\ pc = "irows" /\ pc' \in {"false", "read"}
      /\ UNCHANGED <<q, irows, rdr, cl, rwsc, closedBy, erred, out>>
      /\ LastRow' = LastRow
  BY OutKept DEF NextRec
<1>2. EndInv'
  <2>1. closedBy # "next"
    BY <1>1 DEF EndInv
  <2>2. QED
    BY <1>1, <2>1, EndKept
<1>3. ASSUME closedBy = "none" PROVE CursorInv'
  <2>1. /\ Between /\ Whole /\ ~erred /\ Calm /\ Begun
    BY <1>1, <1>3 DEF CursorInv, AtIdle
  <2>2. Calm'
    BY <1>1, <2>1, CalmKept
  <2>3. CASE pc' = "false"
    <3>1. r.last /\ r' = r
      BY <2>1, <2>3 DEF NextRec, Whole
    <3>2. NoneBetween(LastRow, N + 1)'
      BY <1>1, <2>1, <3>1 DEF Between, NoneBetween
    <3>3. AtFalse'
      BY <1>1, <2>1, <3>2 DEF AtFalse
    <3>4. QED
      BY <1>1, <2>2, <2>3, <3>3 DEF CursorInv, Prepping
  <2>4. CASE pc' = "read" /\ ~r.started
    <3>1. /\ r' = [r EXCEPT !.first = TRUE, !.started = TRUE]
          /\ phase' = "seek"
      BY <2>4 DEF NextRec
    <3>2. /\ r'.started /\ r'.open = r.open /\ r'.first = TRUE
          /\ r'.last = r.last /\ r'.rwnr = r.rwnr /\ r'.cols = r.cols
          /\ r'.slct = r.slct
      BY <3>1 DEF TypeOK, RowsStruct
    <3>3. out = << >> /\ irows.pos = 0 /\ r.rwnr = 0 /\ ~r.last
      BY <2>1, <2>4 DEF Between
    <3>4. Running'
      BY <1>1, <2>1, <3>2, <3>3 DEF Running, Whole, Begun
    <3>5. SeenTo(irows.pos + 1)'
      BY <1>1, <3>1, <3>2, <3>3 DEF SeenTo, NoneBetween, Row
    <3>6. QED
      BY <1>1, <2>1, <2>2, <2>4, <3>4, <3>5 DEF CursorInv, AtRead, Prepping
  <2>5. CASE pc' = "read" /\ r.started
    <3>1. /\ r' = [r EXCEPT !.first = FALSE, !.lstdta = r.nxtdta,
                            !.rwnr = @ + 1]
          /\ phase' = "ahead" /\ ~r.last
      BY <2>5 DEF NextRec, Advance
    <3>2. /\ r'.started /\ r'.open = r.open /\ r'.first = FALSE
          /\ r'.last = r.last /\ r'.rwnr = r.rwnr + 1
          /\ r'.lstdta = r.nxtdta /\ r'.cols = r.cols /\ r'.slct = r.slct
      BY <2>5, <3>1 DEF TypeOK, RowsStruct
    <3>3. /\ out # << >> /\ r.rwnr = Len(out)
          /\ r.nxtdta = irows.pos /\ irows.pos \in Sel
          /\ LastRow < irows.pos /\ NoneBetween(LastRow, irows.pos)
      BY <2>1, <2>5, <3>1 DEF Between
    <3>4. Running'
      BY <1>1, <2>1, <3>1, <3>2, <3>3 DEF Running, Whole, Begun
    <3>5. Held'
      BY <1>1, <3>2, <3>3, Fields DEF Held, NoneBetween, Sel
    <3>6. NoneBetween(r.lstdta, irows.pos + 1)'
      BY <1>1, <3>2, <3>3, NAssumption DEF NoneBetween, Row, Sel
    <3>7. QED
      BY <1>1, <2>1, <2>2, <2>5, <3>1, <3>4, <3>5, <3>6
      DEF CursorInv, AtRead, SeenTo, Prepping
  <2> QED
    BY <1>1, <2>3, <2>4, <2>5
<1> QED
  BY <1>1, <1>2, <1>3 DEF CursorInv

(* readRow reads at most one row and leaves the buffers alone. *)
LEMMA StepReadRow ==
  ASSUME IInv, ReadRow PROVE CursorInv' /\ EndInv'
<1> USE DEF IInv
<1> DEFINE fails == ReadFails
           found == ReadFinds
<1>1. /\ pc = "read" /\ pc' = "readchk" /\ LastRow' = LastRow
      /\ UNCHANGED <<q, phase, rdr, cl, rwsc, closedBy, out>>
  BY OutKept DEF ReadRow
<1>2. EndInv'
  <2>1. closedBy # "next"
    BY <1>1 DEF EndInv
  <2>2. QED
    BY <1>1, <2>1, EndKept
<1>3. ASSUME closedBy = "none" PROVE CursorInv'
  <2>1. /\ Running /\ ~erred /\ SeenTo(irows.pos + 1) /\ Calm
        /\ ~irows.closed /\ rwsc["rec"] = "none"
    BY <1>1, <1>3 DEF CursorInv, AtRead, Running, Whole
  <2>a. ~Closing
    BY <2>1 DEF Closing, Calm, RowsClosers, Closers
  <2>b. Calm'
    BY <1>1, <2>1, CalmKept
  <2>2. /\ r' = [r EXCEPT !.lsterr = fails] /\ rdrc' = found
        /\ erred' = fails
        /\ irows' = [irows EXCEPT !.pos = IF found THEN @ + 1 ELSE @]
    BY <2>1, <2>a DEF ReadRow, ReadFails, ReadFinds
  <2> HIDE DEF fails, found
  <2>3. /\ r'.started = r.started /\ r'.open = r.open
        /\ r'.first = r.first /\ r'.last = r.last /\ r'.rwnr = r.rwnr
        /\ r'.lstdta = r.lstdta /\ r'.lsterr = fails
        /\ r'.cols = r.cols /\ r'.slct = r.slct
    BY <2>2 DEF TypeOK, RowsStruct
  <2>4. /\ irows'.closed = irows.closed
        /\ irows'.pos = IF found THEN irows.pos + 1 ELSE irows.pos
    BY <2>2 DEF TypeOK
  <2>5. Running' /\ erred' = r'.lsterr
    BY <1>1, <2>1, <2>2, <2>3, <2>4 DEF Running, Whole, Begun
  <2>6. CASE found
    <3>1. irows'.pos = irows.pos + 1 /\ irows'.pos > 0
      BY <2>4, <2>6, Fields
    <3>2. rdrc' = TRUE
      BY <2>2, <2>6
    <3>3. ~erred'
      BY <2>2, <2>6 DEF found, fails, ReadFinds
    <3>4. SeenTo(irows.pos)' /\ (phase' = "ahead" => r'.lstdta < irows'.pos)
      BY <1>1, <2>1, <2>3, <3>1, Fields, NAssumption
      DEF SeenTo, Held, NoneBetween, Sel, Row
    <3>5. AtReadCheck'
      BY <2>5, <3>1, <3>2, <3>3, <3>4 DEF AtReadCheck
    <3>6. QED
      BY <1>1, <2>b, <3>5 DEF CursorInv, Prepping
  <2>7. CASE ~found
    <3>1. irows'.pos = irows.pos
      BY <2>4, <2>7
    <3>2. rdrc' = FALSE
      BY <2>2, <2>7
    <3>3. ~fails => irows'.pos = N
      BY <2>1, <2>7, <3>1, Fields, NAssumption
      DEF found, fails, ReadFinds
    <3>4. ~erred' => irows'.pos = N
      BY <2>2, <3>3
    <3>5. SeenTo(irows.pos + 1)'
      BY <1>1, <2>1, <2>3, <3>1 DEF SeenTo, Held, NoneBetween, Sel
    <3>6. AtReadCheck'
      BY <2>5, <3>2, <3>4, <3>5 DEF AtReadCheck
    <3>7. QED
      BY <1>1, <2>b, <3>6 DEF CursorInv, Prepping
  <2> QED
    BY <2>6, <2>7
<1> QED
  BY <1>1, <1>2, <1>3 DEF CursorInv

(* An error or the end before any row ends the call; the end met while     *)
(* looking ahead delivers the row held back; a row read is scanned.        *)
LEMMA StepReadCheck ==
  ASSUME IInv, ReadCheck PROVE CursorInv' /\ EndInv'
<1> USE DEF IInv
<1>1. /\ pc = "readchk" /\ pc' \in {"rclose", "prep", "scan"}
      /\ UNCHANGED <<q, irows, phase, rdrc, rdr, cl, closedBy, erred, out>>
      /\ LastRow' = LastRow
      /\ rwsc'["next"] = rwsc["next"] /\ rwsc'["other"] = rwsc["other"]
  BY OutKept DEF ReadCheck, TypeOK, RowsClosers, Closers
<1>2. EndInv'
  <2>1. closedBy # "next"
    BY <1>1 DEF EndInv
  <2>2. QED
    BY <1>1, <2>1, EndKept
<1>3. ASSUME closedBy = "none" PROVE CursorInv'
  <2>1. Running /\ erred = r.lsterr /\ Calm
    BY <1>1, <1>3 DEF CursorInv, AtReadCheck
  <2>2. /\ rdrc => /\ ~erred /\ irows.pos > 0 /\ SeenTo(irows.pos)
                   /\ (phase = "ahead" => r.lstdta < irows.pos)
        /\ ~rdrc => SeenTo(irows.pos + 1) /\ (~erred => irows.pos = N)
    BY <1>1, <1>3 DEF CursorInv, AtReadCheck
  <2>a. Calm'
    BY <1>1, <2>1, CalmKept
  <2>3. CASE r.lsterr \/ (~rdrc /\ phase = "seek")
    <3>1. pc' = "rclose"
      BY <2>3 DEF ReadCheck, EndsWithFalse
    <3>2. SeenTo(irows.pos + 1)
      BY <2>1, <2>2, <2>3
    <3>3. \A x, y \in Undelivered' : x = y
      BY <1>1, <3>2, Fields, LastRowInt, NAssumption, SMTT(40)
      DEF SeenTo, Held, Undelivered, NoneBetween, Row, Sel, LastRow
    <3>4. ~erred => irows.pos = N /\ phase = "seek"
      BY <2>1, <2>2, <2>3
    <3>5. ~erred => NoneBetween(LastRow, N + 1)
      BY <3>2, <3>4, NAssumption DEF SeenTo, LastRow, NoneBetween
    <3>6. (~erred => NoneBetween(LastRow, N + 1))'
      BY <1>1, <3>5 DEF NoneBetween
    <3>7. QED
      BY <1>1, <2>a, <3>1, <3>3, <3>6 DEF CursorInv, AtFalse, Prepping
  <2>4. CASE ~r.lsterr /\ ~rdrc /\ phase = "ahead"
    <3>1. r' = Show(r, TRUE) /\ pc' = "prep" /\ rwsc' = rwsc
      BY <2>4 DEF ReadCheck, EndsWithFalse
    <3>2. r.cols
      BY <2>1 DEF Running, Begun
    <3>3. /\ ~r'.swpdta /\ r'.last /\ r'.dta = r'.lstdta
          /\ r'.lstdta = r.lstdta /\ r'.rwnr = r.rwnr
          /\ r'.started = r.started /\ r'.open = r.open /\ r'.first = r.first
          /\ r'.cols = r.cols /\ r'.slct = r.slct
      BY <3>1, <3>2 DEF Show, TypeOK, RowsStruct
    <3>4. ~erred /\ Held /\ NoneBetween(r.lstdta, irows.pos + 1) /\ irows.pos = N
      BY <2>1, <2>2, <2>4 DEF SeenTo
    <3>5. Held' /\ NoneBetween(r.lstdta, N + 1)'
      BY <1>1, <3>3, <3>4 DEF Held, NoneBetween, Sel
    <3>6. Whole' /\ Begun' /\ r'.started /\ r'.first = (out' = << >>)
      BY <1>1, <2>1, <3>1, <3>3 DEF Running, Whole, Begun
    <3>7. AtTrue'
      BY <1>1, <3>3, <3>4, <3>5, <3>6 DEF AtTrue
    <3>8. QED
      BY <1>1, <2>a, <3>1, <3>3, <3>7 DEF CursorInv, Prepping
  <2>5. CASE ~r.lsterr /\ rdrc
    <3>1. r' = [r EXCEPT !.swpdta = TRUE] /\ pc' = "scan" /\ rwsc' = rwsc
      BY <2>5 DEF ReadCheck, EndsWithFalse
    <3>2. /\ r'.swpdta /\ r'.last = r.last /\ r'.lstdta = r.lstdta
          /\ r'.rwnr = r.rwnr /\ r'.started = r.started /\ r'.open = r.open
          /\ r'.first = r.first /\ r'.cols = r.cols /\ r'.slct = r.slct
      BY <3>1 DEF TypeOK, RowsStruct
    <3>3. Running'
      BY <1>1, <2>1, <3>1, <3>2 DEF Running, Whole, Begun
    <3>4. /\ SeenTo(irows.pos)' /\ irows'.pos > 0 /\ ~erred'
          /\ (phase' = "ahead" => r'.lstdta < irows'.pos)
      BY <1>1, <2>2, <2>5, <3>2 DEF SeenTo, Held, NoneBetween, Sel
    <3>5. Candidate'
      BY <3>2, <3>3, <3>4 DEF Candidate
    <3>6. QED
      BY <1>1, <2>a, <3>1, <3>4, <3>5 DEF CursorInv, Prepping
  <2> QED
    BY <2>3, <2>4, <2>5 DEF TypeOK
<1> QED
  BY <1>1, <1>2, <1>3 DEF CursorInv

(* scanRow fills nxtdta with the row just read, or fails. *)
LEMMA StepScanRow ==
  ASSUME IInv, ScanRow PROVE CursorInv' /\ EndInv'
<1> USE DEF IInv
<1>1. /\ pc = "scan" /\ pc' = "scanchk" /\ LastRow' = LastRow
      /\ UNCHANGED <<q, irows, phase, rdr, cl, rwsc, closedBy, out>>
  BY OutKept DEF ScanRow
<1>2. EndInv'
  <2>1. closedBy # "next"
    BY <1>1 DEF EndInv
  <2>2. QED
    BY <1>1, <2>1, EndKept
<1>3. ASSUME closedBy = "none" PROVE CursorInv'
  <2>1. /\ Candidate /\ ~erred /\ Calm
    BY <1>1, <1>3 DEF CursorInv
  <2>2. ~irows.closed
    BY <2>1 DEF Candidate, Running, Whole
  <2> DEFINE fails == q.badScan = irows.pos
  <2>3. /\ r' = [r EXCEPT !.lsterr = fails,
                          !.nxtdta = IF fails THEN Torn ELSE irows.pos]
        /\ erred' = fails
    BY <2>1, <2>2 DEF ScanRow
  <2>4. /\ r'.swpdta = r.swpdta /\ r'.last = r.last /\ r'.lstdta = r.lstdta
        /\ r'.rwnr = r.rwnr /\ r'.started = r.started /\ r'.open = r.open
        /\ r'.first = r.first /\ r'.lsterr = fails
        /\ r'.cols = r.cols /\ r'.slct = r.slct
        /\ r'.nxtdta = IF fails THEN Torn ELSE irows.pos
    BY <2>3 DEF TypeOK, RowsStruct
  <2>5. Running'
    BY <1>1, <2>1, <2>4 DEF Candidate, Running, Whole, Begun
  <2>6. SeenTo(irows.pos)'
    BY <1>1, <2>1, <2>4 DEF Candidate, SeenTo, Held, NoneBetween, Sel
  <2>7. Candidate'
    BY <1>1, <2>1, <2>4, <2>5, <2>6 DEF Candidate
  <2>8. erred' = r'.lsterr /\ (erred' => q'.badScan = irows'.pos)
    BY <1>1, <2>3, <2>4
  <2>9. ~erred' => r'.nxtdta = irows'.pos
    BY <1>1, <2>3, <2>4
  <2>10. AtScanCheck' /\ Calm'
    BY <1>1, <2>1, <2>7, <2>8, <2>9, CalmKept DEF AtScanCheck
  <2>11. QED
    BY <1>1, <2>10 DEF CursorInv, Prepping
<1> QED
  BY <1>1, <1>2, <1>3 DEF CursorInv

(* A failed Scan ends the call; otherwise the candidate goes to Select. *)
LEMMA StepScanCheck ==
  ASSUME IInv, ScanCheck PROVE CursorInv' /\ EndInv'
<1> USE DEF IInv
<1>1. /\ pc = "scanchk" /\ pc' \in {"rclose", "prep", "judge"}
      /\ UNCHANGED <<q, irows, r, phase, rdr, cl, closedBy, erred, out>>
      /\ LastRow' = LastRow
      /\ rwsc'["next"] = rwsc["next"] /\ rwsc'["other"] = rwsc["other"]
  BY OutKept DEF ScanCheck, TypeOK, RowsClosers, Closers
<1>2. EndInv'
  <2>1. closedBy # "next"
    BY <1>1 DEF EndInv
  <2>2. QED
    BY <1>1, <2>1, EndKept
<1>3. ASSUME closedBy = "none" PROVE CursorInv'
  <2>1. AtScanCheck /\ Calm
    BY <1>1, <1>3 DEF CursorInv
  <2>a. Calm'
    BY <1>1, <2>1, CalmKept
  <2>2. CASE r.lsterr
    <3>1. pc' = "rclose" /\ erred
      BY <2>1, <2>2 DEF ScanCheck, AtScanCheck
    <3>2. \A x, y \in Undelivered' : x = y
      BY <1>1, <2>1, <3>1, Fields, LastRowInt, NAssumption, SMTT(40)
      DEF AtScanCheck, Candidate, SeenTo, Held, Undelivered, NoneBetween,
          Row, Sel, LastRow
    <3>3. QED
      BY <1>1, <2>a, <3>1, <3>2 DEF CursorInv, AtFalse, Prepping
  <2>3. CASE ~r.lsterr
    <3>1. pc' = (IF r.slct THEN "prep" ELSE "judge") /\ rwsc' = rwsc
      BY <2>3 DEF ScanCheck
    <3>2. AtSelect
      BY <2>1, <2>3 DEF AtScanCheck, AtSelect
    <3>3. AtSelect' /\ r'.swpdta
      BY <1>1, <3>1, <3>2, AtKept DEF AtSelect, Candidate
    <3>4. QED
      BY <1>1, <2>a, <3>1, <3>3 DEF CursorInv, Prepping
  <2> QED
    BY <2>2, <2>3
<1> QED
  BY <1>1, <1>2, <1>3 DEF CursorInv

(* prepRecord and the waiting for rows.Close leave the cursor alone; what  *)
(* prepRecord puts into the record is what the cursor shows.               *)
LEMMA StepPrep ==
  ASSUME IInv, RecClosed \/ PrepRecord \/ AskErr \/ FillRecord \/ NewRecord
  PROVE  CursorInv' /\ EndInv'
<1> USE DEF IInv
<1>1. /\ UNCHANGED <<q, irows, r, phase, cl, rwsc, closedBy, erred, out>>
      /\ rdr'.rws = rdr.rws /\ rdr'.evt = rdr.evt
      /\ LastRow' = LastRow
      /\ pc \notin {"idle", "closing", "panic"}
  BY OutKept DEF RecClosed, PrepRecord, AskErr, FillRecord, NewRecord,
                 TypeOK, ReaderStruct
<1>2. pc' = "panic" => ~rdr.rws
  BY DEF RecClosed, PrepRecord, AskErr, Panics, FillRecord, NewRecord,
         AfterPrep
<1>3. EndInv'
  <2>1. closedBy # "next"
    BY <1>1 DEF EndInv
  <2>2. pc' = "panic" => closedBy = "other"
    BY <1>2, <2>1 DEF CursorInv, Calm, TypeOK
  <2>3. QED
    BY <1>1, <2>1, <2>2, EndKept
<1>4. ASSUME closedBy = "none" PROVE CursorInv'
  <2>1. Calm /\ Calm' /\ pc' # "panic"
    BY <1>1, <1>2, <1>4, CalmKept DEF CursorInv, Calm
  <2>2. CASE RecClosed
    <3>1. pc = "rclose" /\ pc' = "false"
      BY <2>2 DEF RecClosed
    <3>2. AtFalse'
      BY <1>1, <1>4, <3>1, AtKept DEF CursorInv
    <3>3. QED
      BY <2>1, <3>1, <3>2 DEF CursorInv, Prepping
  <2>3. CASE PrepRecord \/ AskErr
    <3>1. /\ Prepping /\ Prepping' /\ pc' \in {"fill", "make", "new"}
          /\ pc' = "fill" => rdr'.made
      BY <2>1, <2>3 DEF PrepRecord, AskErr, Prepping
    <3>2. IF r.swpdta THEN AtSelect ELSE AtTrue
      BY <1>4, <3>1 DEF CursorInv
    <3>3. IF r'.swpdta THEN AtSelect' ELSE AtTrue'
      BY <1>1, <3>2, AtKept
    <3>4. QED
      BY <2>1, <3>1, <3>3 DEF CursorInv
  <2>4. CASE FillRecord \/ NewRecord
    <3>1. /\ Prepping /\ pc' = AfterPrep
          /\ rdr'.rc = CurrentRecord
      BY <1>4, <2>4
      DEF FillRecord, NewRecord, Prepping, CursorInv, TypeOK, ReaderStruct
    <3>2. IF r.swpdta THEN AtSelect ELSE AtTrue
      BY <1>4, <3>1 DEF CursorInv
    <3>3. IF r'.swpdta THEN AtSelect' ELSE AtTrue'
      BY <1>1, <3>2, AtKept
    <3>4. rdr'.rc = CurrentRecord'
      BY <1>1, <3>1 DEF CurrentRecord, Data, RowNR
    <3>5. r.swpdta => rdr'.rc.row = irows'.pos
      BY <1>1, <3>1, <3>2 DEF CurrentRecord, Data, AtSelect
    <3>6. CASE r.swpdta
      BY <1>1, <2>1, <3>1, <3>3, <3>5, <3>6
      DEF CursorInv, Prepping, AfterPrep
    <3>7. CASE ~r.swpdta
      BY <1>1, <2>1, <3>1, <3>3, <3>4, <3>7
      DEF CursorInv, Prepping, AfterPrep
    <3> QED
      BY <3>6, <3>7
  <2> QED
    BY <2>2, <2>3, <2>4
<1> QED
  BY <1>1, <1>3, <1>4 DEF CursorInv

(* A rejected candidate is passed over; an accepted one is held back or    *)
(* proves that the row held back is not the last.                          *)
LEMMA StepJudge ==
  ASSUME IInv, Judge PROVE CursorInv' /\ EndInv'
<1> USE DEF IInv
<1>1. /\ pc = "judge" /\ pc' \in {"read", "prep"} /\ LastRow' = LastRow
      /\ UNCHANGED <<q, irows, rdr, cl, rwsc, closedBy, erred, out>>
  BY OutKept DEF Judge
<1>2. EndInv'
  <2>1. closedBy # "next"
    BY <1>1 DEF EndInv
  <2>2. QED
    BY <1>1, <2>1, EndKept
<1>3. ASSUME closedBy = "none" PROVE CursorInv'
  <2>1. /\ Running /\ irows.pos > 0 /\ SeenTo(irows.pos)
        /\ (phase = "ahead" => r.lstdta < irows.pos)
        /\ ~erred /\ Calm /\ Begun /\ r.nxtdta = irows.pos
        /\ r.slct => rdr.rc.row = irows.pos
    BY <1>1, <1>3 DEF CursorInv, AtSelect, Candidate, Running
  <2>2. irows.pos \in Row /\ irows.pos \in Int
    BY <2>1, Fields, NAssumption DEF Row
  <2>3. Accepted <=> irows.pos \in q.sel
    <3>1. CASE r.slct
      BY <2>1, <3>1 DEF Accepted
    <3>2. CASE ~r.slct
      <4>1. ~q.evt
        BY <2>1, <3>2, Fields DEF Begun
      <4>2. q.sel = Buf
        BY <4>1 DEF TypeOK, Query
      <4>3. QED
        BY <2>2, <3>2, <4>2 DEF Accepted, Buf
    <3> QED
      BY <3>1, <3>2
  <2>a. Calm'
    BY <1>1, <2>1, CalmKept
  <2>4. CASE ~Accepted
    <3>1. pc' = "read" /\ r' = r /\ phase' = phase
      BY <2>4 DEF Judge
    <3>2. Running'
      BY <1>1, <2>1, <3>1 DEF Running, Whole, Begun
    <3>3. SeenTo(irows.pos + 1)'
      BY <1>1, <2>1, <2>2, <2>3, <2>4, <3>1, NAssumption
      DEF SeenTo, Held, NoneBetween, Sel, Row
    <3>4. QED
      BY <1>1, <2>1, <2>a, <3>1, <3>2, <3>3 DEF CursorInv, AtRead, Prepping
  <2>5. CASE Accepted /\ phase = "seek"
    <3>1. r' = Hold(r) /\ phase' = "ahead" /\ pc' = "read"
      BY <2>5 DEF Judge
    <3>2. /\ r'.last = r.last /\ r'.lstdta = irows.pos
          /\ r'.rwnr = r.rwnr + 1 /\ r'.started = r.started
          /\ r'.open = r.open /\ r'.first = r.first
          /\ r'.cols = r.cols /\ r'.slct = r.slct
      BY <2>1, <3>1 DEF Hold, TypeOK, RowsStruct
    <3>3. Running'
      BY <1>1, <2>1, <3>2 DEF Running, Whole, Begun
    <3>4. out = << >> /\ r.rwnr = 0 /\ NoneBetween(0, irows.pos)
      BY <2>1, <2>5 DEF SeenTo
    <3>5. Held'
      BY <1>1, <2>1, <2>2, <2>3, <2>5, <3>2, <3>4
      DEF Held, NoneBetween, Sel, LastRow
    <3>6. NoneBetween(r.lstdta, irows.pos + 1)'
      BY <1>1, <2>2, <3>2, NAssumption DEF NoneBetween, Row
    <3>7. QED
      BY <1>1, <2>1, <2>a, <3>1, <3>3, <3>5, <3>6
      DEF CursorInv, AtRead, SeenTo, Prepping
  <2>6. CASE Accepted /\ phase = "ahead"
    <3>1. r' = Show(r, r.last) /\ phase' = phase /\ pc' = "prep"
      BY <2>6 DEF Judge
    <3>2. /\ ~r'.swpdta /\ r'.last = r.last /\ r'.dta = r'.lstdta
          /\ r'.lstdta = r.lstdta /\ r'.rwnr = r.rwnr
          /\ r'.nxtdta = r.nxtdta
          /\ r'.started = r.started /\ r'.open = r.open /\ r'.first = r.first
          /\ r'.cols = r.cols /\ r'.slct = r.slct
      BY <2>1, <3>1 DEF Show, Begun, TypeOK, RowsStruct
    <3>3. Held /\ NoneBetween(r.lstdta, irows.pos)
      BY <2>1, <2>6 DEF SeenTo
    <3>4. Held' /\ NoneBetween(r.lstdta, irows.pos)'
      BY <1>1, <3>2, <3>3 DEF Held, NoneBetween, Sel
    <3>5. /\ r'.started /\ Whole' /\ Begun' /\ ~r'.last
          /\ r'.first = (out' = << >>)
      BY <1>1, <2>1, <3>2 DEF Running, Whole, Begun
    <3>6. /\ r'.nxtdta = irows'.pos /\ (irows.pos \in Sel)'
          /\ r'.lstdta < irows'.pos
      BY <1>1, <2>1, <2>2, <2>3, <2>6, <3>2 DEF Sel
    <3>7. AtTrue'
      BY <1>1, <2>1, <3>2, <3>4, <3>5, <3>6 DEF AtTrue
    <3>8. QED
      BY <1>1, <2>a, <3>1, <3>2, <3>7 DEF CursorInv, Prepping
  <2> QED
    BY <2>4, <2>5, <2>6 DEF TypeOK
<1> QED
  BY <1>1, <1>2, <1>3 DEF CursorInv

(* A call that ends with false begins to close the reader and delivers     *)
(* nothing.                                                                *)
LEMMA StepReturnFalse ==
  ASSUME IInv, ReturnFalse PROVE CursorInv' /\ EndInv'
<1> USE DEF IInv
<1>1. /\ pc = "false" /\ pc' = "closing" /\ LastRow' = LastRow
      /\ closedBy' = IF closedBy = "none" THEN "next" ELSE closedBy
      /\ UNCHANGED <<q, irows, rdr, erred, out>>
  BY OutKept DEF ReturnFalse
<1>2. CursorInv'
  BY <1>1 DEF CursorInv
<1>3. \A w \in Closers : cl[w].at \in {"take", "close", "done"} => ~rdr.rws
  BY DEF EndInv
<1>4. \A w \in Closers :
         (cl[w].at \in {"take", "close", "done"} => ~rdr.rws)'
  BY <1>1, <1>3 DEF ReturnFalse, TypeOK
<1>5. closedBy # "next"
  BY <1>1 DEF EndInv
<1>6. CASE closedBy = "none"
  <2>1. AtFalse
    BY <1>1, <1>6 DEF CursorInv
  <2>2. CompleteUnlessFailed' /\ AtMostOneRowLost'
    BY <1>1, <2>1
    DEF AtFalse, CompleteUnlessFailed, AtMostOneRowLost, Undelivered,
        NoneBetween
  <2>3. QED
    BY <1>1, <1>2, <1>4, <2>2 DEF EndInv
<1>7. CASE closedBy # "none"
  BY <1>1, <1>2, <1>4, <1>5, <1>7 DEF EndInv
<1> QED
  BY <1>6, <1>7

(* A record is appended only while nobody else closes the reader, and it   *)
(* is the row held back.                                                   *)
LEMMA StepReturnTrue ==
  ASSUME IInv, ReturnTrue PROVE OutInv' /\ CursorInv' /\ EndInv'
<1> USE DEF IInv
<1>1. /\ pc = "return" /\ pc' = "idle"
      /\ UNCHANGED <<q, irows, r, phase, rdr, cl, rwsc, closedBy, erred>>
  BY DEF ReturnTrue
<1>2. closedBy # "next"
  BY <1>1 DEF EndInv
<1>3. EndInv'
  BY <1>1, <1>2, EndKept
<1>4. CASE closedBy = "other"
  <2>1. out' = out
    BY <1>4 DEF ReturnTrue
  <2>2. QED
    BY <1>1, <1>3, <1>4, <2>1, OutKept DEF CursorInv
<1>5. CASE closedBy = "none"
  <2> DEFINE rec == rdr.rc
  <2>1. out' = Append(out, rec)
    BY <1>5 DEF ReturnTrue
  <2>2. /\ Held /\ r.dta = r.lstdta /\ ~r.swpdta /\ ~erred
        /\ r.started /\ Whole /\ Begun /\ Calm
        /\ r.first = (out = << >>)
        /\ r.last => NoneBetween(r.lstdta, N + 1)
        /\ ~r.last => /\ r.nxtdta = irows.pos /\ irows.pos \in Sel
                      /\ r.lstdta < irows.pos
                      /\ NoneBetween(r.lstdta, irows.pos)
        /\ rec = CurrentRecord
    BY <1>1, <1>5 DEF CursorInv, AtTrue
  <2>3. rec.row = r.lstdta /\ rec.nr = Len(out) + 1
    BY <2>2, Fields DEF CurrentRecord, Data, RowNR, Held
  <2>4. rec.first = r.first /\ rec.last = r.last
    BY <2>2 DEF CurrentRecord
  <2> HIDE DEF rec
  <2>5. /\ Len(out') = Len(out) + 1 /\ out'[Len(out) + 1] = rec
        /\ \A i \in 1 .. Len(out) : out'[i] = out[i]
        /\ Len(out) \in Nat
    BY <2>1 DEF TypeOK
  <2>6. LastRow' = r.lstdta /\ out' # << >>
    BY <2>1, <2>3, <2>5 DEF LastRow
  <2>7. ASSUME NEW i \in 1 .. Len(out) PROVE RecordOK(i)'
    <3>1. RecordOK(i) /\ out'[i] = out[i]
      BY <2>5 DEF OutInv
    <3>2. RowBefore(i)' = RowBefore(i)
      BY <2>5 DEF RowBefore
    <3>3. QED
      BY <1>1, <3>1, <3>2 DEF RecordOK, NoneBetween, Sel
  <2>8. r.last = NoneBetween(r.lstdta, N + 1)
    <3>1. ~r.last => ~NoneBetween(r.lstdta, N + 1)
      BY <2>2, NAssumption DEF NoneBetween, Sel, Row
    <3>2. r.last \in BOOLEAN /\ NoneBetween(r.lstdta, N + 1) \in BOOLEAN
      BY Fields DEF NoneBetween
    <3>3. QED
      BY <2>2, <3>1, <3>2
  <2>9. ASSUME NEW n \in Nat, n = Len(out) + 1 PROVE RecordOK(n)'
    <3>1. out'[n] = rec
      BY <2>5, <2>9
    <3>2. RowBefore(n)' = LastRow
      <4>1. CASE out = << >>
        BY <2>9, <4>1 DEF RowBefore, LastRow
      <4>2. CASE out # << >>
        <5>1. n # 1 /\ n - 1 = Len(out) /\ n - 1 \in 1 .. Len(out)
          BY <2>9, <4>2 DEF TypeOK
        <5>2. QED
          BY <2>5, <4>2, <5>1 DEF RowBefore, LastRow
      <4> QED
        BY <4>1, <4>2
    <3>3. r.first = (n = 1)
      BY <2>2, <2>9 DEF TypeOK
    <3>4. /\ (out[n].row \in Sel)' /\ (RowBefore(n) < out[n].row)'
          /\ NoneBetween(RowBefore(n), out[n].row)'
      BY <1>1, <2>2, <2>3, <3>1, <3>2 DEF Held, NoneBetween, Sel
    <3>5. (out[n].nr = n)' /\ (out[n].first = (n = 1))'
      BY <2>3, <2>4, <2>9, <3>1, <3>3
    <3>6. (out[n].last = NoneBetween(out[n].row, N + 1))'
      BY <1>1, <2>3, <2>4, <2>8, <3>1 DEF NoneBetween
    <3>7. QED
      BY <3>4, <3>5, <3>6 DEF RecordOK
  <2>10. OutInv'
    BY <2>5, <2>7, <2>9 DEF OutInv
  <2>11. Between'
    BY <1>1, <2>2, <2>5, <2>6 DEF Between, Held, NoneBetween, Sel
  <2>12. AtIdle' /\ Calm'
    BY <1>1, <2>2, <2>11, CalmKept DEF AtIdle, Whole, Begun
  <2>13. CursorInv'
    BY <1>1, <2>12 DEF CursorInv, Prepping
  <2> QED
    BY <1>3, <2>10, <2>13
<1> QED
  BY <1>2, <1>4, <1>5 DEF TypeOK

(* The steps of the closes. *)
LEMMA StepClose ==
  ASSUME IInv,
         \/ CloseByOther \/ NextEnds
         \/ \E w \in Closers : ReaderClose(w)
         \/ \E w \in RowsClosers : RowsClose(w)
  PROVE  CursorInv' /\ EndInv'
<1> USE DEF IInv
<1>1. CASE CloseByOther
  <2>1. /\ closedBy' = IF closedBy = "none" THEN "other" ELSE closedBy
        /\ pc' = pc /\ LastRow' = LastRow
        /\ UNCHANGED <<q, irows, rdr, erred, out>>
    BY <1>1, OutKept DEF CloseByOther
  <2>2. CursorInv'
    BY <2>1 DEF CursorInv
  <2>3. \A w \in Closers :
           (cl[w].at \in {"take", "close", "done"} => ~rdr.rws)'
    BY <1>1 DEF CloseByOther, EndInv, TypeOK
  <2>4. pc' = "panic" => closedBy' = "other"
    BY <2>1 DEF EndInv
  <2>5. closedBy' = "next" => CompleteUnlessFailed' /\ AtMostOneRowLost'
    BY <2>1
    DEF EndInv, CompleteUnlessFailed, AtMostOneRowLost, Undelivered,
        NoneBetween
  <2>6. QED
    BY <2>1, <2>2, <2>3, <2>4, <2>5 DEF EndInv
<1>2. CASE NextEnds
  <2>1. /\ pc = "closing" /\ pc' = "idle" /\ cl["next"].at = "done"
        /\ LastRow' = LastRow
        /\ UNCHANGED <<q, irows, rdr, cl, closedBy, erred, out>>
    BY <1>2, OutKept DEF NextEnds
  <2>2. closedBy # "none"
    BY <2>1 DEF CursorInv
  <2>3. ~rdr.rws
    BY <2>1 DEF EndInv, Closers
  <2>4. closedBy' = "next" => CompleteUnlessFailed' /\ AtMostOneRowLost'
    BY <2>1
    DEF EndInv, CompleteUnlessFailed, AtMostOneRowLost, Undelivered,
        NoneBetween
  <2>5. QED
    BY <2>1, <2>2, <2>3, <2>4 DEF CursorInv, EndInv
<1>3. CASE \E w \in Closers : ReaderClose(w)
  <2>1. PICK w \in Closers : ReaderClose(w)
    BY <1>3
  <2>2. /\ cl[w].at # "none" /\ LastRow' = LastRow
        /\ UNCHANGED <<q, irows, pc, closedBy, erred, out>>
    BY <2>1, OutKept
    DEF ReaderClose, CloseDrops, StatementTakes, StatementCloses
  <2>3. closedBy # "none"
    BY <2>1, <2>2 DEF CursorInv, Calm, Closers
  <2>4. ~rdr.rws => ~rdr'.rws
    BY <2>1
    DEF ReaderClose, CloseDrops, StatementTakes, StatementCloses, TypeOK,
        ReaderStruct
  <2>5. ASSUME NEW v \in Closers, cl'[v].at \in {"take", "close", "done"}
        PROVE  ~rdr'.rws
    <3>1. CASE v # w
      <4>1. cl'[v] = cl[v]
        BY <2>1, <3>1
        DEF ReaderClose, CloseDrops, StatementTakes, StatementCloses, TypeOK
      <4>2. QED
        BY <2>4, <2>5, <4>1 DEF EndInv
    <3>2. CASE v = w /\ cl[w].at \in {"take", "close", "done"}
      BY <2>4, <3>2 DEF EndInv
    <3>3. CASE v = w /\ cl[w].at \notin {"take", "close", "done"}
      <4>1. CloseDrops(w)
        BY <2>1, <3>3 DEF ReaderClose, StatementTakes, StatementCloses
      <4>2. rdr' = [rdr EXCEPT !.rws = FALSE]
        BY <2>5, <3>3, <4>1 DEF CloseDrops, TypeOK
      <4>3. QED
        BY <4>2 DEF TypeOK, ReaderStruct
    <3> QED
      BY <3>1, <3>2, <3>3
  <2>6. closedBy' = "next" => CompleteUnlessFailed' /\ AtMostOneRowLost'
    BY <2>2
    DEF EndInv, CompleteUnlessFailed, AtMostOneRowLost, Undelivered,
        NoneBetween
  <2>7. QED
    BY <2>2, <2>3, <2>4, <2>5, <2>6 DEF CursorInv, EndInv
<1>4. CASE \E w \in RowsClosers : RowsClose(w)
  <2>1. PICK w \in RowsClosers : RowsClose(w)
    BY <1>4
  <2>2. /\ rwsc[w] \in {"dta", "irows", "driver"} /\ LastRow' = LastRow
        /\ irows'.pos = irows.pos
        /\ UNCHANGED <<q, pc, phase, rdr, cl, closedBy, erred, out>>
    BY <2>1, OutKept DEF RowsClose, TypeOK
  <2>3. ASSUME closedBy = "none" PROVE CursorInv'
    <3>1. Calm /\ w = "rec"
      BY <2>2, <2>3 DEF CursorInv, Calm, RowsClosers, Closers
    <3>2. pc \in {"rclose", "false"}
      BY <2>2, <2>3, <3>1
      DEF CursorInv, AtIdle, AtRead, AtReadCheck, AtScanCheck, AtSelect,
          AtTrue, Candidate, Running, Whole, Prepping, TypeOK
    <3>3. rwsc'["next"] = rwsc["next"] /\ rwsc'["other"] = rwsc["other"]
      BY <2>1, <3>1 DEF RowsClose, TypeOK, RowsClosers, Closers
    <3>4. Calm' /\ AtFalse
      BY <2>2, <2>3, <3>1, <3>2, <3>3, CalmKept DEF CursorInv
    <3>5. AtFalse'
      BY <2>2, <3>4 DEF AtFalse, Undelivered, NoneBetween
    <3>6. QED
      BY <2>2, <3>2, <3>4, <3>5 DEF CursorInv, Prepping
  <2>4. closedBy' = "next" => CompleteUnlessFailed' /\ AtMostOneRowLost'
    BY <2>2
    DEF EndInv, CompleteUnlessFailed, AtMostOneRowLost, Undelivered,
        NoneBetween
  <2>5. EndInv'
    BY <2>2, <2>4 DEF EndInv
  <2>6. QED
    BY <2>2, <2>3, <2>5 DEF CursorInv
<1> QED
  BY <1>1, <1>2, <1>3, <1>4

(* The invariant behind everything the cursor promises. *)
THEOREM CursorInvariant == Spec => []IInv
<1>1. Init => IInv
  <2> SUFFICES ASSUME Init PROVE IInv
    OBVIOUS
  <2>1. TypeOK
    BY TypeInit
  <2>2. OutInv
    BY DEF Init, OutInv
  <2>3. AtIdle /\ Calm
    BY DEF Init, AtIdle, Between, Whole, Calm, Closers, RowsClosers
  <2>4. CursorInv
    BY <2>3 DEF Init, CursorInv, Prepping
  <2>5. EndInv
    BY DEF Init, EndInv, Closers
  <2> QED
    BY <2>1, <2>2, <2>4, <2>5 DEF IInv
<1>2. IInv /\ [Next]_vars => IInv'
  <2> SUFFICES ASSUME IInv, [Next]_vars PROVE IInv'
    OBVIOUS
  <2>1. TypeOK'
    BY TypeStep DEF IInv
  <2>2. CASE out' = out /\ q' = q
    <3>1. OutInv' /\ LastRow' = LastRow
      BY <2>2, OutKept DEF IInv
    <3>2. CASE NextCall
      BY <2>1, <3>1, <3>2, StepNextCall DEF IInv
    <3>3. CASE SelectCols
      BY <2>1, <3>1, <3>3, StepSelectCols DEF IInv
    <3>4. CASE NextRec
      BY <2>1, <3>1, <3>4, StepNextRec DEF IInv
    <3>5. CASE ReadRow
      BY <2>1, <3>1, <3>5, StepReadRow DEF IInv
    <3>6. CASE ReadCheck
      BY <2>1, <3>1, <3>6, StepReadCheck DEF IInv
    <3>7. CASE ScanRow
      BY <2>1, <3>1, <3>7, StepScanRow DEF IInv
    <3>8. CASE ScanCheck
      BY <2>1, <3>1, <3>8, StepScanCheck DEF IInv
    <3>9. CASE RecClosed \/ PrepRecord \/ AskErr \/ FillRecord \/ NewRecord
      BY <2>1, <3>1, <3>9, StepPrep DEF IInv
    <3>10. CASE Judge
      BY <2>1, <3>1, <3>10, StepJudge DEF IInv
    <3>11. CASE ReturnFalse
      BY <2>1, <3>1, <3>11, StepReturnFalse DEF IInv
    <3>12. CASE \/ CloseByOther \/ NextEnds
                \/ \E w \in Closers : ReaderClose(w)
                \/ \E w \in RowsClosers : RowsClose(w)
      BY <2>1, <3>1, <3>12, StepClose DEF IInv
    <3>13. CASE UNCHANGED vars
      <4>1. /\ UNCHANGED <<q, irows, r, pc, phase, rdrc, evt, rdr, cl, rwsc,
                           closedBy, erred, out>>
            /\ Sel' = Sel
        BY <3>13 DEF vars, Sel
      <4>2. Undelivered' = Undelivered
        BY <3>1, <4>1 DEF Undelivered
      <4>3. /\ Running <=> Running'
            /\ SeenTo(irows.pos) <=> SeenTo(irows.pos)'
            /\ SeenTo(irows.pos + 1) <=> SeenTo(irows.pos + 1)'
        BY <3>1, <4>1 DEF Running, Whole, Begun, SeenTo, Held, NoneBetween
      <4>4. /\ Candidate => Candidate'
            /\ AtRead => AtRead'
            /\ AtReadCheck => AtReadCheck'
            /\ AtScanCheck => AtScanCheck'
        BY <4>1, <4>3 DEF Candidate, AtRead, AtReadCheck, AtScanCheck
      <4>5. /\ AtIdle => AtIdle'
            /\ AtSelect => AtSelect'
            /\ AtTrue => AtTrue'
            /\ AtFalse => AtFalse'
            /\ Begun => Begun'
        BY <3>1, <4>1, AtKept
      <4>6. Calm => Calm'
        BY <4>1, CalmKept
      <4>7. CurrentRecord' = CurrentRecord /\ (Prepping' <=> Prepping)
        BY <4>1 DEF CurrentRecord, Data, RowNR, Prepping
      <4>8. CursorInv'
        BY <4>1, <4>4, <4>5, <4>6, <4>7 DEF IInv, CursorInv
      <4>9. EndInv'
        BY <3>1, <4>1, <4>2
        DEF IInv, EndInv, CompleteUnlessFailed, AtMostOneRowLost, NoneBetween
      <4> QED
        BY <2>1, <3>1, <4>8, <4>9 DEF IInv
    <3>14. CASE ReturnTrue
      BY <2>1, <3>14, StepReturnTrue DEF IInv
    <3> QED
      BY <3>2, <3>3, <3>4, <3>5, <3>6, <3>7, <3>8, <3>9, <3>10, <3>11, <3>12,
         <3>13, <3>14 DEF Next, NextSteps
  <2>3. CASE ReturnTrue
    BY <2>1, <2>3, StepReturnTrue DEF IInv
  <2>4. (out' = out /\ q' = q) \/ ReturnTrue
    BY DEF Next, NextSteps, NextCall, SelectCols, NextRec, ReadRow, ReadCheck,
           ScanRow, ScanCheck, RecClosed, PrepRecord, FillRecord, AskErr,
           NewRecord, Judge, ReturnFalse, NextEnds, CloseByOther, ReaderClose,
           CloseDrops, StatementTakes, StatementCloses, RowsClose, vars
  <2> QED
    BY <2>2, <2>3, <2>4
<1> QED
  BY <1>1, <1>2, PTL DEF Spec

(* The records handed out until another goroutine closes the reader are    *)
(* the selected rows in order, numbered from one, under every failure.     *)
THEOREM DeliveryTheorem == Spec => []DeliversSelectedInOrder
<1>1. IInv => DeliversSelectedInOrder
  BY DEF IInv, OutInv, RecordOK, DeliversSelectedInOrder, Sel
<1> QED
  BY <1>1, CursorInvariant, PTL

(* First() and Last() of those records are exact for every result and      *)
(* every selection.                                                        *)
THEOREM FlagsTheorem == Spec => []FlagsAreExact
<1>1. IInv => FlagsAreExact
  BY DEF IInv, OutInv, RecordOK, FlagsAreExact
<1> QED
  BY <1>1, CursorInvariant, PTL

(* After a clean end nothing that was selected is missing. *)
THEOREM CompletenessTheorem == Spec => []CompleteUnlessFailed
<1>1. IInv => CompleteUnlessFailed
  BY DEF IInv, EndInv, CompleteUnlessFailed
<1> QED
  BY <1>1, CursorInvariant, PTL

(* After a driver error at most the row held back is missing. *)
THEOREM LossTheorem == Spec => []AtMostOneRowLost
<1>1. IInv => AtMostOneRowLost
  BY DEF IInv, EndInv, AtMostOneRowLost
<1> QED
  BY <1>1, CursorInvariant, PTL

(* Next panics only if another goroutine closed the reader under it.       *)
THEOREM PanicTheorem == Spec => []PanicOnlyAfterForeignClose
<1>1. IInv => PanicOnlyAfterForeignClose
  BY DEF IInv, EndInv, PanicOnlyAfterForeignClose
<1> QED
  BY <1>1, CursorInvariant, PTL
---------------------------------------------------------------------------
(* A return of true is the promise's delivery of the next selected row. *)
LEMMA DeliverStep ==
  ASSUME IInv, ReturnTrue, closedBy = "none"
  PROVE  \E s \in Promise!Pending : Promise!Deliver(s)
<1> USE DEF IInv
<1>1. /\ Held /\ r.dta = r.lstdta /\ ~r.swpdta
      /\ r.first = (out = << >>) /\ rdr.rc = CurrentRecord
      /\ r.last => NoneBetween(r.lstdta, N + 1)
      /\ ~r.last => irows.pos \in Sel /\ r.lstdta < irows.pos
  BY DEF ReturnTrue, CursorInv, AtTrue
<1>2. /\ out' = Append(out, [row |-> Data(r), nr |-> RowNR(r),
                             first |-> r.first, last |-> r.last])
      /\ late' = late
  BY <1>1 DEF ReturnTrue, CurrentRecord
<1>3. Data(r) = r.lstdta /\ RowNR(r) = Len(out) + 1
  BY <1>1 DEF Data, RowNR, Held
<1>4. Promise!Pending = { s \in Sel : LastRow < s }
  <2>1. CASE out = << >>
    BY <2>1, NAssumption DEF Promise!Pending, LastRow, Sel, Row
  <2>2. CASE out # << >>
    BY <2>2 DEF Promise!Pending, LastRow, Sel
  <2> QED
    BY <2>1, <2>2
<1>5. r.lstdta \in Promise!Pending
  BY <1>1, <1>4 DEF Held
<1>6. \A t \in Promise!Pending : r.lstdta <= t
  BY <1>1, <1>4, LastRowInt, NAssumption DEF Held, NoneBetween, Sel, Row
<1>7. r.last = (Promise!Pending = {r.lstdta})
  <2>1. r.last => Promise!Pending = {r.lstdta}
    BY <1>1, <1>4, <1>5, <1>6, NAssumption DEF Held, NoneBetween, Sel, Row
  <2>2. ~r.last => irows.pos \in Promise!Pending /\ irows.pos # r.lstdta
    BY <1>1, <1>4, LastRowInt, NAssumption DEF Held, Sel, Row
  <2>3. r.last \in BOOLEAN
    BY Fields
  <2> QED
    BY <2>1, <2>2, <2>3
<1>8. q' = q /\ closedBy' = closedBy
  BY DEF ReturnTrue
<1>9. out' = Append(out, [row |-> r.lstdta, nr |-> Len(out) + 1,
                          first |-> out = << >>,
                          last |-> Promise!Pending = {r.lstdta}])
  BY <1>1, <1>2, <1>3, <1>7
<1>10. Promise!Deliver(r.lstdta)
  BY <1>2, <1>6, <1>8, <1>9 DEF Promise!Deliver
<1> QED
  BY <1>5, <1>10

(* The cursor implements FilteredCursor: every step of nextRec, of a close *)
(* and of a failing driver is a step of the promise or invisible.          *)
THEOREM RefinementTheorem == Spec => ImplementsFilteredCursor
<1> DEFINE Inner == \/ NextCall \/ SelectCols \/ NextRec \/ ReadRow
                    \/ ReadCheck \/ ScanRow \/ ScanCheck \/ RecClosed
                    \/ PrepRecord \/ FillRecord \/ NewRecord \/ Judge
<1>1. Init => Promise!Init
  BY DEF Init, Promise!Init, Row
<1>2. IInv /\ [Next]_vars => [Promise!Next]_(Promise!vars)
  <2> SUFFICES ASSUME IInv, [Next]_vars
               PROVE  [Promise!Next]_(Promise!vars)
    OBVIOUS
  <2> USE DEF IInv
  <2>1. CASE ReturnTrue /\ closedBy = "none"
    BY <2>1, DeliverStep DEF Promise!Next
  <2>2. CASE ReturnTrue /\ closedBy # "none"
    <3>1. closedBy = "other"
      BY <2>2 DEF ReturnTrue, EndInv, TypeOK
    <3>2. /\ pc = "return" /\ pc' = "idle" /\ late' = late + 1
          /\ UNCHANGED <<q, rdr, closedBy, out>>
      BY <2>2, <3>1 DEF ReturnTrue
    <3>3. Promise!Stray
      BY <3>1, <3>2 DEF Promise!Stray
    <3>4. QED
      BY <3>3 DEF Promise!Next
  <2>3. CASE ReturnFalse /\ closedBy = "none"
    <3>1. /\ closedBy' = "next" /\ AtFalse
          /\ UNCHANGED <<q, out, late, erred>>
      BY <2>3 DEF ReturnFalse, CursorInv
    <3>2. CASE erred
      BY <2>3, <3>1, <3>2 DEF Promise!Next, Promise!Cut
    <3>3. CASE ~erred
      <4>1. Promise!Pending = {}
        BY <3>1, <3>3, LastRowInt, NAssumption
        DEF Promise!Pending, LastRow, NoneBetween, Row, AtFalse
      <4>2. QED
        BY <2>3, <3>1, <3>3, <4>1 DEF Promise!Next, Promise!Drain
    <3> QED
      BY <3>2, <3>3
  <2>4. CASE ReturnFalse /\ closedBy # "none"
    <3>1. /\ pc = "false" /\ pc' = "closing"
          /\ UNCHANGED <<q, out, late, erred, rdr, closedBy>>
      BY <2>4 DEF ReturnFalse
    <3>2. QED
      BY <3>1 DEF Promise!vars
  <2>5. CASE CloseByOther
    <3>1. UNCHANGED <<q, out, late, erred, rdr, pc>>
      BY <2>5 DEF CloseByOther
    <3>2. CASE closedBy = "none"
      <4>1. closedBy' = "other" /\ rdr.rws
        BY <2>5, <3>2 DEF CloseByOther, CursorInv, Calm
      <4>2. QED
        BY <3>1, <3>2, <4>1 DEF Promise!Next, Promise!Leave
    <3>3. CASE closedBy # "none"
      <4>1. closedBy' = closedBy
        BY <2>5, <3>3 DEF CloseByOther
      <4>2. QED
        BY <3>1, <4>1 DEF Promise!vars
    <3> QED
      BY <3>2, <3>3
  <2>6. CASE Inner
    <3>1. UNCHANGED <<q, out, late, closedBy>> /\ rdr'.rws = rdr.rws
      BY <2>6
      DEF NextCall, SelectCols, NextRec, ReadRow, ReadCheck, ScanRow,
          ScanCheck, RecClosed, PrepRecord, FillRecord, NewRecord, Judge,
          TypeOK, ReaderStruct
    <3>2. /\ pc \in {"idle", "panic"} => pc = "idle" /\ rdr.rws
          /\ pc # "closing" /\ pc' \notin {"idle", "panic"}
      BY <2>6
      DEF NextCall, SelectCols, NextRec, ReadRow, ReadCheck, ScanRow,
          ScanCheck, RecClosed, PrepRecord, FillRecord, NewRecord, Judge,
          AfterPrep
    <3>3. closedBy # "next"
      BY <3>2 DEF EndInv
    <3>4. QED
      BY <3>1, <3>2, <3>3 DEF Promise!vars
  <2>7. CASE AskErr
    <3>1. /\ UNCHANGED <<q, out, late, closedBy, rdr>> /\ pc = "make"
          /\ pc' = (IF ~rdr.rws THEN "panic" ELSE "new")
      BY <2>7 DEF AskErr, Panics
    <3>2. closedBy # "next"
      BY <3>1 DEF EndInv
    <3>3. CASE closedBy = "other" /\ ~rdr.rws
      BY <3>1, <3>3 DEF Promise!Next, Promise!End
    <3>4. CASE ~(closedBy = "other" /\ ~rdr.rws)
      <4>1. closedBy = "none" \/ rdr.rws
        BY <3>2, <3>4 DEF TypeOK
      <4>2. QED
        BY <3>1, <3>2, <4>1 DEF Promise!vars
    <3> QED
      BY <3>3, <3>4
  <2>8. CASE NextEnds
    <3>1. /\ UNCHANGED <<q, out, late, erred, closedBy, rdr>>
          /\ pc = "closing" /\ pc' = "idle" /\ ~rdr.rws
      BY <2>8 DEF NextEnds, EndInv, Closers
    <3>2. CASE closedBy = "other"
      BY <3>1, <3>2 DEF Promise!Next, Promise!End
    <3>3. CASE closedBy # "other"
      BY <3>1, <3>3 DEF Promise!vars
    <3> QED
      BY <3>2, <3>3
  <2>9. CASE \E w \in Closers : ReaderClose(w)
    <3>1. UNCHANGED <<q, out, late, erred, closedBy, pc>>
      BY <2>9
      DEF ReaderClose, CloseDrops, StatementTakes, StatementCloses
    <3>2. rdr'.rws \in {rdr.rws, FALSE}
      BY <2>9
      DEF ReaderClose, CloseDrops, StatementTakes, StatementCloses, TypeOK,
          ReaderStruct
    <3>3. CASE closedBy = "other" /\ rdr.rws /\ ~rdr'.rws
      BY <3>1, <3>3 DEF Promise!Next, Promise!Shut
    <3>4. CASE ~(closedBy = "other" /\ rdr.rws /\ ~rdr'.rws)
      <4>1. closedBy # "other" \/ (rdr'.rws <=> rdr.rws)
        BY <3>2, <3>4
      <4>2. QED
        BY <3>1, <4>1 DEF Promise!vars
    <3> QED
      BY <3>3, <3>4
  <2>10. CASE (\E w \in RowsClosers : RowsClose(w)) \/ UNCHANGED vars
    <3>1. UNCHANGED <<q, out, late, erred, closedBy, pc, rdr>>
      BY <2>10 DEF RowsClose, vars
    <3>2. QED
      BY <3>1 DEF Promise!vars
  <2> QED
    BY <2>1, <2>2, <2>3, <2>4, <2>5, <2>6, <2>7, <2>8, <2>9, <2>10
    DEF Next, NextSteps
<1> QED
  BY <1>1, <1>2, CursorInvariant, PTL
  DEF Spec, ImplementsFilteredCursor, Promise!Spec

----------------------------------------------------------------------------
(* Buffer: loops.                                                          *)

(* Every set of numbers that is not empty has a least member.              *)
LEMMA LeastNat ==
  ASSUME NEW T, T \subseteq Nat, T # {}
  PROVE  \E x \in T : \A y \in T : x <= y
<1>1. PICK x \in T : \A y \in T : ~(<<y, x>> \in OpToRel(<, Nat))
  BY NatLessThanWellFounded, WFMin
<1>2. ASSUME NEW y \in T, y < x
      PROVE  FALSE
  <2>1. x \in Nat /\ y \in Nat
    OBVIOUS
  <2>2. <<y, x>> \in OpToRel(<, Nat)
    BY <1>2, <2>1, Zenon DEF OpToRel
  <2> QED BY <1>1, <2>2
<1> QED BY <1>2

(* Induction up to a bound, with the property given as a set: the library  *)
(* states it with an operator as a parameter, which the provers cannot     *)
(* instantiate.                                                            *)
LEMMA Induction ==
  ASSUME NEW m \in Nat, NEW S, 0 \in S, \A n \in 1..m : n - 1 \in S => n \in S
  PROVE  0..m \subseteq S
<1> DEFINE U == (0..m) \ S
<1>1. SUFFICES ASSUME U # {} PROVE FALSE
  OBVIOUS
<1>2. U \subseteq Nat
  OBVIOUS
<1>3. PICK x \in U : \A y \in U : x <= y
  <2> HIDE DEF U
  <2> QED BY <1>1, <1>2, LeastNat
<1>4. x \in 1..m /\ x - 1 \in 0..m /\ x - 1 \notin U
  BY <1>3
<1> QED BY <1>4

Loop(s, base, g, k) == s[0] = base /\ \A n \in 1..k : s[n] = g[n][s[n - 1]]

(* s is such a loop of m steps in T.                                       *)
Runs(s, base, g, m, T) ==
  /\ base \in T /\ m \in Nat /\ g \in [1..m -> [T -> T]] /\ s \in [0..m -> T]
  /\ Loop(s, base, g, m)

(* A loop of m steps over T that starts in T exists.                       *)
LEMMA LoopExists ==
  ASSUME NEW T, NEW base \in T, NEW m \in Nat, NEW g \in [1..m -> [T -> T]]
  PROVE  \E s \in [0..m -> T] : Runs(s, base, g, m, T)
<1> DEFINE S == {k \in 0..m : \E s \in [0..k -> T] : Loop(s, base, g, k)}
<1>1. 0 \in S
  <2> DEFINE s == [n \in 0..0 |-> base]
  <2>1. s \in [0..0 -> T] /\ Loop(s, base, g, 0)
    BY DEF Loop
  <2>2. 0 \in 0..m
    OBVIOUS
  <2> QED BY <2>1, <2>2, Zenon
<1>2. ASSUME NEW k \in 1..m, k - 1 \in S
      PROVE  k \in S
  <2>1. PICK s \in [0..(k - 1) -> T] : Loop(s, base, g, k - 1)
    BY <1>2
  <2>2. k - 1 \in 0..(k-1) /\ g[k][s[k - 1]] \in T
    OBVIOUS
  <2> DEFINE h == [n \in 0..k |-> IF n < k THEN s[n] ELSE g[k][s[k - 1]]]
  <2>3. h \in [0..k -> T]
    BY <2>2
  <2>4. \A n \in 0..k : h[n] = IF n < k THEN s[n] ELSE g[k][s[k - 1]]
    OBVIOUS
  <2>5. Loop(h, base, g, k)
    <3> HIDE DEF h
    <3> QED BY <2>1, <2>4 DEF Loop
  <2>6. k \in 0..m
    OBVIOUS
  <2> QED BY <2>3, <2>5, <2>6, Zenon
<1>3. m \in S
  <2> HIDE DEF S
  <2>1. 0..m \subseteq S
    BY <1>1, <1>2, Induction
  <2> QED BY <2>1
<1> QED BY <1>3, Zenon DEF Runs

(* a takes the same steps as long as it stays in T.                        *)
Follows(a, base, g, m, T) ==
  a[0] = base /\ \A n \in 1..m : a[n - 1] \in T => a[n] = g[n][a[n - 1]]

(* Whatever takes the steps of the loop has its values: a recursive        *)
(* function of the model computes what its loop does.                      *)
LEMMA LoopUnique ==
  ASSUME NEW T, NEW base, NEW m, NEW g, NEW s, NEW a,
         Runs(s, base, g, m, T), Follows(a, base, g, m, T)
  PROVE  \A n \in 0..m : a[n] = s[n]
<1>1. /\ base \in T /\ m \in Nat /\ g \in [1..m -> [T -> T]] /\ s \in [0..m -> T]
      /\ Loop(s, base, g, m)
  BY DEF Runs
<1> DEFINE I == {n \in 0..m : a[n] = s[n]}
<1>2. 0 \in I
  BY <1>1 DEF Loop, Follows
<1>3. ASSUME NEW n \in 1..m, n - 1 \in I
      PROVE  n \in I
  <2>1. n - 1 \in 0..m /\ a[n - 1] = s[n - 1] /\ s[n - 1] \in T
    BY <1>1, <1>3
  <2>2. a[n] = g[n][s[n - 1]] /\ s[n] = g[n][s[n - 1]] /\ n \in 0..m
    BY <1>1, <2>1 DEF Loop, Follows
  <2> QED BY <2>2
<1> HIDE DEF I
<1>4. 0..m \subseteq I
  BY <1>1, <1>2, <1>3, Induction
<1> QED BY <1>4 DEF I

(* Arithmetic of places: n full chunks of c bytes and a rest.              *)
LEMMA DivMod ==
  ASSUME NEW c \in Nat, c > 0, NEW a \in Nat
  PROVE  /\ a \div c \in Nat /\ a % c \in 0..(c - 1)
         /\ a = (a \div c) * c + (a % c)
  OBVIOUS

(* Quotient and remainder are unique.                                      *)
LEMMA DivUnique ==
  ASSUME NEW c \in Nat, c > 0, NEW quo \in Nat, NEW rd \in 0..(c - 1)
  PROVE  (quo * c + rd) \div c = quo /\ (quo * c + rd) % c = rd
  OBVIOUS

(* The next and the previous multiple of the size of a chunk.              *)
LEMMA Multiples ==
  ASSUME NEW c \in Nat, NEW quo \in Nat
  PROVE  quo * c \in Nat /\ (quo + 1) * c = quo * c + c /\ (quo - 1) * c = quo * c - c
  OBVIOUS

(* A later multiple is later by a whole chunk at least.                    *)
LEMMA MultiplesGrow ==
  ASSUME NEW c \in Nat, NEW p \in Nat, NEW quo \in Nat, p < quo
  PROVE  p * c + c <= quo * c
  OBVIOUS

(* Every place in n chunks is a place of one of them.                      *)
LEMMA PlaceInChunk ==
  ASSUME NEW n \in Nat, NEW i \in 1..(n * ChunkSize)
  PROVE  \E k \in 1..n, j \in 1..ChunkSize : i = (k - 1) * ChunkSize + j
<1> DEFINE k == (i - 1) \div ChunkSize
           j == (i - 1) % ChunkSize
<1>1. ChunkSize \in Nat /\ ChunkSize > 0 /\ n * ChunkSize \in Nat /\ i - 1 \in Nat
  BY ChunkAssumption, Multiples
<1>2. k \in Nat /\ j \in 0..(ChunkSize - 1) /\ i - 1 = k * ChunkSize + j
  BY <1>1, DivMod
<1> HIDE DEF k, j
<1>3. k < n
  <2>1. SUFFICES ASSUME n <= k PROVE FALSE
    BY <1>2
  <2>2. n * ChunkSize <= k * ChunkSize
    BY <1>1, <1>2, <2>1, MultiplesGrow, Multiples
  <2> QED BY <1>1, <1>2, <2>2, Multiples
<1>4. k + 1 \in 1..n /\ j + 1 \in 1..ChunkSize /\ (k + 1) - 1 = k
  BY <1>2, <1>3, <1>1
<1>5. i = ((k + 1) - 1) * ChunkSize + (j + 1)
  BY <1>2, <1>4, <1>1, Multiples
<1> QED BY <1>4, <1>5

(* FlattenSeq adds one sequence after the other.                           *)
LEMMA Flattening ==
  ASSUME NEW S, NEW ss \in Seq(Seq(S))
  PROVE  \E f \in [0..Len(ss) -> Seq(S)] :
           /\ f[0] = <<>> /\ \A n \in 1..Len(ss) : f[n] = f[n - 1] \o ss[n]
           /\ FlattenSeq(ss) = f[Len(ss)]
<1>1. PICK m \in Nat : m = Len(ss)
  OBVIOUS
<1> DEFINE g == [n \in 1..m |-> [x \in Seq(S) |-> x \o ss[n]]]
<1>2. m \in Nat /\ \A n \in 1..m : ss[n] \in Seq(S)
  BY <1>1
<1>3. g \in [1..m -> [Seq(S) -> Seq(S)]]
  BY <1>2
<1>4. \A n \in 1..m : \A x \in Seq(S) : g[n][x] = x \o ss[n]
  OBVIOUS
<1>5. <<>> \in Seq(S)
  OBVIOUS
<1> HIDE DEF g
<1>6. PICK f \in [0..m -> Seq(S)] : Runs(f, <<>>, g, m, Seq(S))
  BY <1>2, <1>3, <1>5, LoopExists
<1>7. f[0] = <<>> /\ \A n \in 1..m : f[n] = f[n - 1] \o ss[n]
  <2>1. \A n \in 1..m : n - 1 \in 0..m /\ f[n - 1] \in Seq(S)
    BY <1>2
  <2> QED BY <2>1, <1>4, <1>6 DEF Runs, Loop
<1>8. m # 0 => f[1] = f[0] \o ss[1] /\ ss[1] \in Seq(S)
  <2>1. SUFFICES ASSUME m # 0 PROVE f[1] = f[0] \o ss[1] /\ ss[1] \in Seq(S)
    OBVIOUS
  <2>2. 1 \in 1..m /\ 1 - 1 = 0
    BY <1>2, <2>1
  <2> QED BY <2>2, <1>2, <1>7, Zenon
<1>9. FlattenSeq(ss) = f[m]
  <2>1. CASE m = 0
    BY <2>1, <1>1, <1>7 DEF FlattenSeq
  <2>2. CASE m # 0
    <3> DEFINE Is(h) == h = [i \in 1..m |-> IF i = 1 THEN ss[i] ELSE h[i - 1] \o ss[i]]
               h0 == [i \in 1..m |-> f[i]]
               h1 == CHOOSE h : Is(h)
    <3>1. Is(h0)
      <4>1. f[1] = ss[1]
        BY <1>8, <1>7, <2>2, ConcatEmptySeq
      <4>2. ASSUME NEW i \in 1..m
            PROVE  f[i] = IF i = 1 THEN ss[i] ELSE h0[i - 1] \o ss[i]
        <5>1. CASE i = 1
          BY <4>1, <5>1
        <5>2. CASE i # 1
          <6>1. i - 1 \in 1..m
            BY <1>2, <5>2
          <6> QED BY <1>7, <5>2, <6>1, Zenon
        <5> QED BY <5>1, <5>2
      <4> QED BY <4>2
    <3>2. Is(h1)
      BY <3>1, Zenon
    <3>3. FlattenSeq(ss) = h1[m]
      BY <2>2, <1>1, SMTT(40) DEF FlattenSeq
    <3>4. \A i \in 1..m : h1[i] = IF i = 1 THEN ss[i] ELSE h1[i - 1] \o ss[i]
      BY <3>2, Zenon
    <3> HIDE DEF h1
    <3>5. 0..m \subseteq {n \in 0..m : n > 0 => h1[n] = f[n]}
      <4> DEFINE I == {n \in 0..m : n > 0 => h1[n] = f[n]}
      <4>1. 0 \in I
        BY <1>2
      <4>2. ASSUME NEW n \in 1..m, n - 1 \in I PROVE n \in I
        <5>1. CASE n = 1
          <6>1. h1[1] = ss[1]
            BY <5>1, <3>4
          <6> QED BY <5>1, <6>1, <1>8, <1>7, ConcatEmptySeq
        <5>2. CASE n # 1
          <6>1. n - 1 > 0 /\ h1[n - 1] = f[n - 1]
            BY <5>2, <4>2
          <6>2. h1[n] = h1[n - 1] \o ss[n] /\ f[n] = f[n - 1] \o ss[n]
            BY <5>2, <3>4, <1>7, Zenon
          <6>3. n \in 0..m
            BY <1>2
          <6> QED BY <6>1, <6>2, <6>3, Zenon
        <5> QED BY <5>1, <5>2
      <4> HIDE DEF I
      <4>3. 0..m \subseteq I
        BY <1>2, <4>1, <4>2, Induction
      <4> QED BY <4>3 DEF I
    <3> QED BY <1>2, <2>2, <3>3, <3>5
  <2> QED BY <2>1, <2>2
<1> QED BY <1>1, <1>7, <1>9

(* The places of two sequences one after the other.                        *)
LEMMA Joined ==
  ASSUME NEW S, NEW s1 \in Seq(S), NEW s2 \in Seq(S)
  PROVE  /\ s1 \o s2 \in Seq(S) /\ Len(s1 \o s2) = Len(s1) + Len(s2)
         /\ \A i \in 1..Len(s1) : (s1 \o s2)[i] = s1[i]
         /\ \A i \in 1..Len(s2) : (s1 \o s2)[Len(s1) + i] = s2[i]
  OBVIOUS

(* A sequence that holds the bytes of the first n chunks, in order.        *)
Holds(f, n, cs) ==
  /\ f \in Seq(Bytes) /\ Len(f) = n * ChunkSize
  /\ \A k \in 1..n : \A j \in 1..ChunkSize : f[(k - 1) * ChunkSize + j] = cs[k][j]

(* A chunk is a sequence of ChunkSize bytes.                               *)
LEMMA ChunkIsSeq ==
  ASSUME NEW ch \in Chunk
  PROVE  ch \in Seq(Bytes) /\ Len(ch) = ChunkSize
  BY ChunkAssumption DEF Chunk

(* One chunk more.                                                         *)
LEMMA HoldsMore ==
  ASSUME NEW cs \in Seq(Chunk), NEW n \in 1..Len(cs), NEW f, Holds(f, n - 1, cs)
  PROVE  Holds(f \o cs[n], n, cs)
<1> DEFINE V == (n - 1) * ChunkSize
<1>1. cs[n] \in Seq(Bytes) /\ Len(cs[n]) = ChunkSize /\ f \in Seq(Bytes) /\ Len(f) = V
  BY ChunkIsSeq DEF Holds
<1>2. V \in Nat /\ n * ChunkSize = V + ChunkSize /\ ChunkSize \in Nat
  BY ChunkAssumption, Multiples
<1> DEFINE g == f \o cs[n]
<1> HIDE DEF V
<1>3. g \in Seq(Bytes) /\ Len(g) = n * ChunkSize
  BY <1>1, <1>2, Joined
<1>4. ASSUME NEW j \in 1..ChunkSize PROVE g[V + j] = cs[n][j]
  <2>1. \A i \in 1..Len(cs[n]) : g[Len(f) + i] = cs[n][i]
    <3>1. f \in Seq(Bytes) /\ cs[n] \in Seq(Bytes)
      BY <1>1
    <3> HIDE DEF g
    <3>2. g = f \o cs[n]
      BY DEF g
    <3>3. \A i \in 1..Len(cs[n]) : (f \o cs[n])[Len(f) + i] = cs[n][i]
      BY <3>1, Joined
    <3> QED BY <3>2, <3>3
  <2>2. j \in 1..Len(cs[n])
    BY <1>1
  <2> QED BY <1>1, <2>1, <2>2, Zenon
<1>5. ASSUME NEW k \in 1..(n - 1), NEW j \in 1..ChunkSize
      PROVE  g[(k - 1) * ChunkSize + j] = cs[k][j]
  <2>1. k - 1 \in Nat /\ n - 1 \in Nat /\ k - 1 < n - 1
    OBVIOUS
  <2>2. (k - 1) * ChunkSize \in Nat /\ (k - 1) * ChunkSize + ChunkSize <= V
    BY <1>2, <2>1, Multiples, MultiplesGrow DEF V
  <2>3. PICK p \in Nat : p = (k - 1) * ChunkSize + j
    BY <2>2
  <2>4. p \in 1..Len(f)
    BY <1>1, <1>2, <2>2, <2>3, SMTT(40)
  <2>5. g[p] = f[p]
    BY <1>1, <2>4, Joined
  <2> QED BY <2>3, <2>5 DEF Holds
<1>6. ASSUME NEW k \in 1..n, NEW j \in 1..ChunkSize
      PROVE  g[(k - 1) * ChunkSize + j] = cs[k][j]
  <2>1. CASE k = n
    BY <2>1, <1>4 DEF V
  <2>2. CASE k # n
    <3>1. k \in 1..(n - 1)
      BY <2>2
    <3> QED BY <3>1, <1>5
  <2> QED BY <2>1, <2>2
<1> QED BY <1>3, <1>6 DEF Holds

(* The chunks one after the other hold every byte of every chunk.          *)
LEMMA FlatChunks ==
  ASSUME NEW cs \in Seq(Chunk)
  PROVE  Holds(FlattenSeq(cs), Len(cs), cs)
<1>1. cs \in Seq(Seq(Bytes))
  BY ChunkIsSeq
<1>2. PICK f \in [0..Len(cs) -> Seq(Bytes)] :
        /\ f[0] = <<>> /\ \A n \in 1..Len(cs) : f[n] = f[n - 1] \o cs[n]
        /\ FlattenSeq(cs) = f[Len(cs)]
  BY <1>1, Flattening
<1> DEFINE I == {n \in 0..Len(cs) : Holds(f[n], n, cs)}
<1>3. Len(cs) \in Nat
  OBVIOUS
<1>4. 0 \in I
  BY <1>2, <1>3, ChunkAssumption DEF Holds
<1>5. ASSUME NEW n \in 1..Len(cs), n - 1 \in I
      PROVE  n \in I
  <2>1. Holds(f[n - 1], n - 1, cs)
    BY <1>5
  <2>2. Holds(f[n - 1] \o cs[n], n, cs)
    BY <2>1, HoldsMore
  <2>3. n \in 0..Len(cs)
    BY <1>3
  <2> QED BY <1>2, <2>2, <2>3, Zenon
<1> HIDE DEF I
<1>6. 0..Len(cs) \subseteq I
  BY <1>3, <1>4, <1>5, Induction
<1>7. Len(cs) \in I
  BY <1>3, <1>6
<1> QED BY <1>2, <1>7 DEF I

(* What Content holds at every place.                                      *)
LEMMA ContentFacts ==
  ASSUME NEW b \in BufferType
  PROVE  /\ Content(b) \in Seq(Bytes) /\ Len(Content(b)) = Size(b)
         /\ InChunks(b) \in Nat /\ Size(b) = InChunks(b) + b.fill /\ Size(b) \in Nat
         /\ \A k \in 1..Len(b.chunks) : \A j \in 1..ChunkSize :
              Content(b)[(k - 1) * ChunkSize + j] = b.chunks[k][j]
         /\ \A j \in 1..b.fill : Content(b)[InChunks(b) + j] = b.tail[j]
<1> DEFINE f == FlattenSeq(b.chunks)
           u == SubSeq(b.tail, 1, b.fill)
           V == InChunks(b)
<1>1. b.chunks \in Seq(Chunk) /\ b.tail \in Chunk /\ b.fill \in 0..(ChunkSize - 1)
  BY DEF BufferType
<1>2. V \in Nat /\ V = Len(b.chunks) * ChunkSize /\ b.fill \in Nat /\ ChunkSize \in Nat
  BY <1>1, ChunkAssumption, Multiples DEF InChunks
<1>3. Holds(f, Len(b.chunks), b.chunks)
  BY <1>1, FlatChunks
<1>4. b.tail \in Seq(Bytes) /\ Len(b.tail) = ChunkSize
  BY <1>1, ChunkIsSeq
<1>5. /\ u \in Seq(Bytes) /\ Len(u) = b.fill
      /\ \A j \in 1..b.fill : u[j] = b.tail[j]
  BY <1>1, <1>2, <1>4, SubSeqProperties
<1>6. f \in Seq(Bytes) /\ Len(f) = V
  BY <1>2, <1>3 DEF Holds
<1>7. Content(b) = f \o u
  BY DEF Content
<1> HIDE DEF f, u, V
<1>8. /\ f \o u \in Seq(Bytes) /\ Len(f \o u) = V + b.fill
      /\ \A i \in 1..V : (f \o u)[i] = f[i]
      /\ \A i \in 1..b.fill : (f \o u)[V + i] = u[i]
  <2>1. f \in Seq(Bytes) /\ u \in Seq(Bytes)
    BY <1>5, <1>6
  <2>2. /\ f \o u \in Seq(Bytes) /\ Len(f \o u) = Len(f) + Len(u)
        /\ \A i \in 1..Len(f) : (f \o u)[i] = f[i]
        /\ \A i \in 1..Len(u) : (f \o u)[Len(f) + i] = u[i]
    BY <2>1, Joined
  <2>3. Len(f) = V /\ Len(u) = b.fill
    BY <1>5, <1>6
  <2> QED BY <2>2, <2>3, Zenon
<1>9. ASSUME NEW j \in 1..b.fill PROVE Content(b)[V + j] = b.tail[j]
  BY <1>5, <1>7, <1>8
<1>10. ASSUME NEW k \in 1..Len(b.chunks), NEW j \in 1..ChunkSize
       PROVE  Content(b)[(k - 1) * ChunkSize + j] = b.chunks[k][j]
  <2>1. Len(b.chunks) \in Nat /\ k - 1 \in Nat /\ k - 1 < Len(b.chunks)
    BY <1>1
  <2>2. (k - 1) * ChunkSize \in Nat /\ (k - 1) * ChunkSize + ChunkSize <= V
    BY <1>2, <2>1, Multiples, MultiplesGrow
  <2>3. (k - 1) * ChunkSize + j \in 1..V
    BY <1>2, <2>2
  <2>4. Content(b)[(k - 1) * ChunkSize + j] = f[(k - 1) * ChunkSize + j]
    BY <1>7, <1>8, <2>3
  <2> QED BY <2>4, <1>3 DEF Holds
<1>11. Size(b) = V + b.fill /\ Size(b) \in Nat /\ V = InChunks(b)
  BY <1>2 DEF Size, V
<1> QED BY <1>2, <1>7, <1>8, <1>9, <1>10, <1>11, Zenon

(* b became w by writes: the tail was started again, or only grew.         *)
Later(b, w) ==
  /\ b.refills <= w.refills
  /\ w.refills = b.refills =>
       b.fill <= w.fill /\ \A j \in 1..b.fill : w.tail[j] = b.tail[j]

(* Writing a byte keeps the buffer well formed; it overwrites no byte of   *)
(* the tail that is in use unless it starts the tail again.                *)
LEMMA WriteByteFacts ==
  ASSUME NEW b \in BufferType, NEW x \in Bytes
  PROVE  WriteByte(b, x) \in BufferType /\ Later(b, WriteByte(b, x))
<1> DEFINE t == [b.tail EXCEPT ![b.fill + 1] = x]
           put == PutByte(b, x)
           Wide == [chunks : Seq(Chunk), cap : Nat, array : Nat, tail : Chunk,
                    fill : 0..ChunkSize, refills : Nat]
<1>1. /\ b.chunks \in Seq(Chunk) /\ b.tail \in Chunk /\ b.fill \in 0..(ChunkSize - 1)
      /\ b.refills \in Nat /\ ChunkSize \in Nat
  BY ChunkAssumption DEF BufferType
<1>2. b.fill + 1 \in 1..ChunkSize
  BY <1>1
<1>3. t \in Chunk /\ \A j \in 1..b.fill : t[j] = b.tail[j]
  BY <1>1, <1>2 DEF Chunk
<1>4. put = [b EXCEPT !.tail = t, !.fill = b.fill + 1]
  BY DEF BufferType, PutByte
<1> HIDE DEF t, put
<1>5. put \in Wide /\ put.tail = t /\ put.fill = b.fill + 1 /\ put.refills = b.refills
  <2>1. PICK n \in 0..ChunkSize : n = b.fill + 1
    BY <1>2
  <2>2. put = [b EXCEPT !.tail = t, !.fill = n]
    BY <1>4, <2>1
  <2>3. put \in Wide
    BY <1>3, <2>2 DEF BufferType
  <2>4. put.tail = t /\ put.fill = n /\ put.refills = b.refills
    BY <2>2 DEF BufferType
  <2> QED BY <2>1, <2>3, <2>4
<1>6. WriteByte(b, x) =
        IF put.fill < ChunkSize THEN put
        ELSE [AppendChunk(put, put.tail) EXCEPT !.fill = 0, !.refills = @ + 1]
  BY Zenon DEF WriteByte, put
<1>7. CASE b.fill + 1 < ChunkSize
  <2>1. WriteByte(b, x) = put
    BY <1>5, <1>6, <1>7
  <2>2. put \in BufferType
    BY <1>1, <1>5, <1>7 DEF BufferType
  <2> QED BY <1>1, <1>3, <1>5, <2>1, <2>2 DEF Later
<1>8. CASE ~(b.fill + 1 < ChunkSize)
  <2> DEFINE v == AppendChunk(put, put.tail)
  <2>1. WriteByte(b, x) = [v EXCEPT !.fill = 0, !.refills = @ + 1]
    BY <1>5, <1>6, <1>8
  <2>2. v \in Wide /\ v.refills = put.refills
    <3>1. put.tail \in Chunk /\ put.chunks \in Seq(Chunk) /\ put.cap \in Nat
      BY <1>5
    <3>2. Append(put.chunks, put.tail) \in Seq(Chunk)
      BY <3>1
    <3>3. CASE Len(put.chunks) < put.cap
      <4>1. v = [put EXCEPT !.chunks = Append(put.chunks, put.tail)]
        BY <3>3 DEF AppendChunk
      <4> QED BY <1>5, <3>2, <4>1
    <3>4. CASE ~(Len(put.chunks) < put.cap)
      <4>1. PICK cap \in Nat : cap = IF put.cap = 0 THEN 1 ELSE 2 * put.cap
        BY <3>1
      <4>2. PICK array \in Nat : array = put.array + 1
        BY <1>5
      <4>3. v = [put EXCEPT !.chunks = Append(put.chunks, put.tail), !.array = array,
                            !.cap = cap]
        BY <3>4, <4>1, <4>2 DEF AppendChunk
      <4> QED BY <1>5, <3>2, <4>3
    <3> QED BY <3>3, <3>4
  <2> HIDE DEF v
  <2>3. /\ [v EXCEPT !.fill = 0, !.refills = @ + 1] \in BufferType
        /\ [v EXCEPT !.fill = 0, !.refills = @ + 1].refills = v.refills + 1
    <3>1. PICK n \in Nat : n = v.refills + 1
      BY <2>2
    <3>2. 0 \in 0..(ChunkSize - 1)
      BY ChunkAssumption
    <3> QED BY <2>2, <3>1, <3>2 DEF BufferType
  <2> QED BY <1>1, <1>5, <2>1, <2>2, <2>3, SMTT(40) DEF Later
<1> QED BY <1>7, <1>8

(* writeBytes is a loop over WriteByte.                                    *)
LEMMA WriteLoop ==
  ASSUME NEW b \in BufferType, NEW p \in Seq(Bytes)
  PROVE  \E a \in [0..Len(p) -> BufferType] :
           /\ a[0] = b /\ \A n \in 1..Len(p) : a[n] = WriteByte(a[n - 1], p[n])
           /\ writeBytes(b, p) = a[Len(p)]
<1>1. PICK m \in Nat : m = Len(p)
  OBVIOUS
<1>2. \A n \in 1..m : p[n] \in Bytes
  BY <1>1
<1> DEFINE g == [n \in 1..m |-> [w \in BufferType |-> WriteByte(w, p[n])]]
<1>3. g \in [1..m -> [BufferType -> BufferType]]
  BY <1>2, WriteByteFacts
<1>4. \A n \in 1..m : \A w \in BufferType : g[n][w] = WriteByte(w, p[n])
  OBVIOUS
<1> HIDE DEF g
<1>5. PICK s \in [0..m -> BufferType] : Runs(s, b, g, m, BufferType)
  BY <1>3, LoopExists
<1>6. /\ s[0] = b
      /\ \A n \in 1..m : n - 1 \in 0..m /\ s[n] = WriteByte(s[n - 1], p[n])
  BY <1>4, <1>5 DEF Runs, Loop
<1> DEFINE Is(h) == h = [n \in 0..m |-> IF n = 0 THEN b ELSE WriteByte(h[n - 1], p[n])]
           a == CHOOSE h : Is(h)
<1>7. Is(s)
  BY <1>6
<1>8. Is(a)
  BY <1>7, Zenon
<1>9. writeBytes(b, p) = a[m]
  BY <1>1 DEF writeBytes
<1> HIDE DEF a
<1>10. Follows(a, b, g, m, BufferType)
  BY <1>4, <1>8, SMTT(40) DEF Follows
<1>11. a[m] = s[m]
  <2>1. \A n \in 0..m : a[n] = s[n]
    BY <1>5, <1>10, LoopUnique
  <2> QED BY <2>1
<1> QED BY <1>1, <1>6, <1>9, <1>11

(* The same for writeBytes, of any number of bytes.                        *)
LEMMA WriteFacts ==
  ASSUME NEW b \in BufferType, NEW p \in Seq(Bytes)
  PROVE  writeBytes(b, p) \in BufferType /\ Later(b, writeBytes(b, p))
<1>1. PICK m \in Nat : m = Len(p)
  OBVIOUS
<1>2. \A n \in 1..m : p[n] \in Bytes
  BY <1>1
<1>3. PICK a \in [0..m -> BufferType] :
        /\ a[0] = b /\ \A n \in 1..m : a[n] = WriteByte(a[n - 1], p[n])
        /\ writeBytes(b, p) = a[m]
  BY <1>1, WriteLoop
<1> DEFINE I == {n \in 0..m : Later(b, a[n])}
<1>4. 0 \in I
  BY <1>3 DEF Later, BufferType
<1>5. ASSUME NEW n \in 1..m, n - 1 \in I
      PROVE  n \in I
  <2>1. n - 1 \in 0..m /\ n \in 0..m /\ a[n - 1] \in BufferType /\ a[n] \in BufferType
    OBVIOUS
  <2>2. Later(b, a[n - 1]) /\ Later(a[n - 1], a[n])
    BY <1>2, <1>3, <1>5, <2>1, WriteByteFacts
  <2>3. \A w \in BufferType : w.refills \in Nat /\ w.fill \in Nat
    BY ChunkAssumption DEF BufferType
  <2>4. Later(b, a[n])
    BY <2>1, <2>2, <2>3, SMTT(40) DEF Later
  <2> QED BY <2>1, <2>4
<1> HIDE DEF I
<1>6. 0..m \subseteq I
  BY <1>4, <1>5, Induction
<1>7. m \in I
  BY <1>6
<1> QED BY <1>3, <1>7 DEF I

----------------------------------------------------------------------------
(* The reader against the content it owes.                                 *)

Volume(rd) == Len(rd.chunks) * ChunkSize

(* The slices the cursor keeps hold the content it was reset over; what    *)
(* the tail held is still there unless the tail was started again.         *)
Snapshot(rd, d, b) ==
  /\ Len(d.content) = Volume(rd) + rd.fill
  /\ d.to \in 1..Len(d.content)
  /\ ~Wiped(rd) => \A k \in 1..Len(rd.chunks) : \A j \in 1..ChunkSize :
                    d.content[(k - 1) * ChunkSize + j] = rd.chunks[k][j]
  /\ rd.refills <= b.refills
  /\ rd.refills = b.refills =>
       rd.fill <= b.fill /\ \A j \in 1..rd.fill : d.content[Volume(rd) + j] = b.tail[j]

(* Nothing makes the cursor's reckoning fail.                              *)
Sound(rd, d) == ~Wiped(rd) /\ Aligned(rd, d)

(* The cursor stands in its range and not on the last byte of a chunk.     *)
Stands(rd, d) ==
  /\ rd.to = d.to /\ rd.from \in 0..d.to
  /\ rd.from < Volume(rd) => (rd.from + 1) % ChunkSize # 0
Placed(rd, d) ==
  Sound(rd, d) => rd.state = "open" /\ (rd.from = -1 \/ Stands(rd, d))

(* A cell fetched stands for the byte of the content at offset n.          *)
StandsFor(cell, n, rd, d) ==
  \/ cell.place = 0 /\ cell.byte = d.content[n + 1]
  \/ cell.place \in 1..rd.fill /\ n + 1 = Volume(rd) + cell.place

(* The bytes fetched and not yet delivered are the next ones owed, up to   *)
(* where the cursor stands.                                                *)
Rests(rd, d, b) ==
  Sound(rd, d) /\ ~d.skewed /\ d.from \in 0..d.to =>
    /\ d.at \in 0..d.to
    /\ rd.from = -1 => rd.rest = <<>> /\ d.at = d.to
    /\ rd.from >= 0 => d.at + Len(rd.rest) = rd.from
    /\ \A i \in 1..Len(rd.rest) : StandsFor(rd.rest[i], d.at + i - 1, rd, d)
    /\ d.ended => d.at = d.to
    /\ ~Overtaken(rd, b) => ~d.wrong

Reads(rd, d, b) == Snapshot(rd, d, b) /\ Placed(rd, d) /\ Rests(rd, d, b)

(* The types of the fields of a reader.                                    *)
LEMMA ReaderFields ==
  ASSUME NEW rd \in ReaderType
  PROVE  /\ rd.chunks \in Seq(Chunk) \cup Seq({NilSlice})
         /\ rd.fill \in 0..(ChunkSize - 1) /\ rd.refills \in Nat /\ rd.array \in Nat
         /\ rd.from \in Int /\ rd.to \in Int /\ rd.cur \in Int /\ rd.taken \in Nat
         /\ rd.rest \in Seq(Cell) /\ rd.state \in {"none", "open", "panic", "spins"}
  BY DEF ReaderType

(* The types of what is owed.                                              *)
LEMMA DueFields ==
  ASSUME NEW d \in DueType
  PROVE  /\ d.content \in Seq(Bytes) /\ d.from \in Int /\ d.at \in Int /\ d.to \in Int
         /\ d.skewed \in BOOLEAN /\ d.wrong \in BOOLEAN /\ d.ended \in BOOLEAN
  BY DEF DueType

(* The types of the fields of a buffer.                                    *)
LEMMA BufferFields ==
  ASSUME NEW b \in BufferType
  PROVE  /\ b.chunks \in Seq(Chunk) /\ b.cap \in Nat /\ b.array \in Nat
         /\ b.tail \in Chunk /\ b.fill \in 0..(ChunkSize - 1) /\ b.refills \in Nat
  BY DEF BufferType

(* The chunks of a cursor that Clear did not empty are chunks, and their   *)
(* view is all of them; the view of an emptied one is none.                *)
LEMMA ChunksOrNil ==
  ASSUME NEW rd \in ReaderType
  PROVE  /\ Len(rd.chunks) \in Nat /\ Volume(rd) \in Nat
         /\ ~Wiped(rd) => rd.chunks \in Seq(Chunk) /\ ViewBytes(rd) = Volume(rd)
         /\ Wiped(rd) => ViewBytes(rd) = 0
<1>1. rd.chunks \in Seq(Chunk) \cup Seq({NilSlice})
  BY ReaderFields
<1>2. Len(rd.chunks) \in Nat
  BY <1>1
<1>3. Volume(rd) \in Nat
  BY <1>2, ChunkAssumption, Multiples DEF Volume
<1>4. ASSUME ~Wiped(rd) PROVE rd.chunks \in Seq(Chunk)
  <2>1. CASE rd.chunks = <<>>
    BY <2>1
  <2>2. CASE rd.chunks # <<>>
    <3>1. Head(rd.chunks) # NilSlice
      BY <1>4, <2>2 DEF Wiped
    <3>2. rd.chunks \notin Seq({NilSlice})
      BY <2>2, <3>1
    <3> QED BY <1>1, <3>2
  <2> QED BY <2>1, <2>2
<1>5. ASSUME ~Wiped(rd) PROVE ViewBytes(rd) = Volume(rd)
  <2>1. CASE rd.chunks = <<>>
    <3>1. Len(rd.chunks) = 0
      BY <2>1
    <3>2. Volume(rd) = 0
      BY <3>1, ChunkAssumption DEF Volume
    <3> QED BY <2>1, <3>2 DEF ViewBytes
  <2>2. CASE rd.chunks # <<>>
    BY <1>5, <2>2 DEF Wiped, ViewBytes, Volume
  <2> QED BY <2>1, <2>2
<1>6. Wiped(rd) => ViewBytes(rd) = 0
  BY DEF Wiped, ViewBytes
<1> QED BY <1>2, <1>3, <1>4, <1>5, <1>6

(* What a cut of the tail finds, with any range: places of the tail up to  *)
(* its capacity, or a cut out of range.                                    *)
LEMMA CutTailFinds ==
  ASSUME NEW rd \in ReaderType, 0 <= rd.from, ViewBytes(rd) <= rd.from, rd.from < rd.to
  PROVE  \/ CutTail(rd) = OutOfRange
         \/ /\ rd.to - ViewBytes(rd) <= ChunkSize
            /\ \E cells \in Seq(Cell) :
                 /\ CutTail(rd) = Found(cells, TRUE) /\ Len(cells) = rd.to - rd.from
                 /\ \A i \in 1..Len(cells) : cells[i] = TailCell(rd.from - ViewBytes(rd) + i)
<1>1. PICK v \in Nat : v = ViewBytes(rd)
  BY ChunksOrNil
<1>2. PICK f \in Nat : f = rd.from
  BY ReaderFields
<1>3. PICK t \in Nat : t = rd.to
  BY ReaderFields, <1>2
<1>4. v <= f /\ f < t
  BY <1>1, <1>2, <1>3
<1>5. CASE t - v > ChunkSize
  BY <1>1, <1>3, <1>5 DEF CutTail
<1>6. CASE t - v <= ChunkSize
  <2> DEFINE n == (t - v) - (f - v)
             cells == [i \in 1..n |-> TailCell((f - v) + i)]
  <2>1. n = t - f /\ n \in Nat
    BY <1>4
  <2>2. ~(t - v > ChunkSize)
    BY <1>6, ChunkAssumption
  <2>3. CutTail(rd) = Found(cells, TRUE)
    BY <1>1, <1>2, <1>3, <2>2 DEF CutTail
  <2>4. \A i \in 1..n : TailCell((f - v) + i) \in Cell
    <3>1. SUFFICES ASSUME NEW i \in 1..n PROVE TailCell((f - v) + i) \in Cell
      OBVIOUS
    <3>2. (f - v) + i \in 0..ChunkSize
      BY <1>4, <1>6, <2>1, ChunkAssumption
    <3> QED BY <3>2 DEF TailCell, Cell, Bytes
  <2>5. cells \in Seq(Cell) /\ Len(cells) = t - f
    BY <2>1, <2>4
  <2>6. \A i \in 1..Len(cells) : cells[i] = TailCell(f - v + i)
    BY <2>1, <2>5
  <2> HIDE DEF cells
  <2>7. Len(cells) = rd.to - rd.from /\ rd.to - ViewBytes(rd) <= ChunkSize
    BY <1>1, <1>2, <1>3, <1>6, <2>5
  <2>8. \A i \in 1..Len(cells) : cells[i] = TailCell(rd.from - ViewBytes(rd) + i)
    BY <1>1, <1>2, <2>6
  <2> QED BY <2>3, <2>5, <2>7, <2>8, Zenon
<1>7. t - v > ChunkSize \/ t - v <= ChunkSize
  BY ChunkAssumption
<1> QED BY <1>5, <1>6, <1>7, Zenon

(* What a cut of a chunk finds, with any range: bytes of the chunk, or a   *)
(* cut out of range.                                                       *)
LEMMA CutChunkFinds ==
  ASSUME NEW rd \in ReaderType, 0 <= rd.from, rd.from < ViewBytes(rd)
  PROVE  \/ CutChunk(rd) = OutOfRange
         \/ \E cells \in Seq(Cell), last \in BOOLEAN : CutChunk(rd) = Found(cells, last)
<1>1. ~Wiped(rd) /\ rd.chunks \in Seq(Chunk) /\ Len(rd.chunks) \in Nat
  BY ReaderFields, ChunksOrNil
<1>2. /\ rd.from \in Nat /\ rd.to \in Int /\ ChunkSize \in Nat /\ ChunkSize > 0
      /\ rd.from + 1 \in Nat
  BY ReaderFields, ChunkAssumption
<1> DEFINE bfi == (rd.from + 1) \div ChunkSize
           bi  == rd.from % ChunkSize
           bmi == IF \/ rd.to <= ChunkSize
                     \/ rd.to <= ViewBytes(rd) /\ rd.to > ViewBytes(rd) - ChunkSize
                  THEN ChunkSize - (rd.to % ChunkSize)
                  ELSE ChunkSize
           cut == SubSeq(rd.chunks[bfi + 1], bi + 1, bmi)
           cells == [i \in DOMAIN cut |-> ChunkCell(cut[i])]
           last == rd.from + Len(cut) >= rd.to
<1>3. bfi \in Nat /\ bi \in Nat
  BY <1>2, DivMod
<1>4. bmi \in 0..ChunkSize
  <2>1. rd.to % ChunkSize \in 0..(ChunkSize - 1)
    BY <1>2
  <2> QED BY <1>2, <2>1
<1>5. CutChunk(rd) = IF bfi >= Len(rd.chunks) \/ bi > bmi THEN OutOfRange
                    ELSE Found(cells, last)
  BY Zenon DEF CutChunk
<1> HIDE DEF bfi, bi, bmi
<1>6. CASE bfi >= Len(rd.chunks) \/ bi > bmi
  BY <1>5, <1>6
<1>7. CASE ~(bfi >= Len(rd.chunks) \/ bi > bmi)
  <2>1. bfi + 1 \in 1..Len(rd.chunks) /\ bi <= bmi
    BY <1>1, <1>3, <1>4, <1>7
  <2>2. rd.chunks[bfi + 1] \in Chunk
    BY <1>1, <2>1
  <2>3. rd.chunks[bfi + 1] \in Seq(Bytes) /\ Len(rd.chunks[bfi + 1]) = ChunkSize
    BY <2>2, ChunkIsSeq
  <2>4. cut \in Seq(Bytes)
    BY <1>3, <1>4, <2>1, <2>3, SubSeqProperties
  <2> HIDE DEF cut
  <2>5. \A x \in Bytes : ChunkCell(x) \in Cell
    BY <1>2 DEF ChunkCell, Cell
  <2>6. cells \in Seq(Cell) /\ last \in BOOLEAN
    BY <2>4, <2>5
  <2>7. CutChunk(rd) = Found(cells, last)
    BY <1>5, <1>7, Zenon
  <2> HIDE DEF cells, last
  <2> QED BY <2>6, <2>7, Zenon
<1> QED BY <1>6, <1>7, Zenon

(* What nextBytes finds is nothing, or cells, or a cut out of range.       *)
LEMMA NextBytesFinds ==
  ASSUME NEW rd \in ReaderType
  PROVE  \/ nextBytes(rd) = OutOfRange
         \/ \E cells \in Seq(Cell), last \in BOOLEAN : nextBytes(rd) = Found(cells, last)
<1> DEFINE none == (rd.chunks = <<>> /\ rd.fill = 0) \/ rd.from < 0 \/ rd.from >= rd.to
<1>1. rd.from \in Int /\ rd.to \in Int /\ ViewBytes(rd) \in Nat
  BY ReaderFields, ChunksOrNil
<1>2. nextBytes(rd) = IF none THEN Found(<<>>, TRUE)
                     ELSE IF rd.from < ViewBytes(rd) THEN CutChunk(rd) ELSE CutTail(rd)
  BY Zenon DEF nextBytes
<1>3. CASE none
  <2>1. nextBytes(rd) = Found(<<>>, TRUE)
    BY <1>2, <1>3, Zenon
  <2>2. <<>> \in Seq(Cell) /\ TRUE \in BOOLEAN
    OBVIOUS
  <2> QED BY <2>1, <2>2, Zenon
<1>4. CASE ~none /\ rd.from < ViewBytes(rd)
  <2>1. nextBytes(rd) = CutChunk(rd)
    BY <1>2, <1>4
  <2>2. 0 <= rd.from
    BY <1>1, <1>4
  <2> QED BY <1>4, <2>1, <2>2, CutChunkFinds
<1>5. CASE ~none /\ ~(rd.from < ViewBytes(rd))
  <2>1. nextBytes(rd) = CutTail(rd)
    BY <1>2, <1>5
  <2>2. 0 <= rd.from /\ ViewBytes(rd) <= rd.from /\ rd.from < rd.to
    BY <1>1, <1>5
  <2>3. TRUE \in BOOLEAN
    OBVIOUS
  <2> QED BY <2>1, <2>2, <2>3, CutTailFinds, Zenon
<1> QED BY <1>3, <1>4, <1>5, Zenon

(* The reader after a fetch that brought cells.                            *)
Loaded(rd, cells) ==
  [rd EXCEPT !.rest = cells, !.taken = 0, !.cur = rd.from, !.from = @ + Len(cells)]

(* A fetch stops the reader, leaves it as it is, or brings cells.          *)
LEMMA FetchOutcome ==
  ASSUME NEW rd \in ReaderType
  PROVE  \/ Fetch(rd) = rd \/ Fetch(rd) = [rd EXCEPT !.state = "panic"]
         \/ Fetch(rd) = [rd EXCEPT !.state = "spins"]
         \/ \E cells \in Seq(Cell) : cells # <<>> /\ Fetch(rd) = Loaded(rd, cells)
<1> DEFINE f == nextBytes(rd)
<1>1. Fetch(rd) = IF f.panic THEN [rd EXCEPT !.state = "panic"]
                 ELSE IF f.cells # <<>> THEN Loaded(rd, f.cells)
                 ELSE IF f.last THEN rd ELSE [rd EXCEPT !.state = "spins"]
  BY Zenon DEF Fetch, Loaded
<1>2. CASE nextBytes(rd) = OutOfRange
  <2>1. f.panic
    BY <1>2 DEF OutOfRange
  <2> QED BY <1>1, <2>1, Zenon
<1>3. CASE \E cells \in Seq(Cell), last \in BOOLEAN : nextBytes(rd) = Found(cells, last)
  <2>1. PICK cells \in Seq(Cell), last \in BOOLEAN : nextBytes(rd) = Found(cells, last)
    BY <1>3
  <2>2. ~f.panic /\ f.cells = cells
    BY <2>1 DEF Found
  <2> HIDE DEF f
  <2> QED BY <1>1, <2>2, Zenon
<1> QED BY <1>2, <1>3, NextBytesFinds, Zenon

(* Fetching and pulling leave the slices and the end of the range alone.   *)
Kept(rd, nx) ==
  nx.chunks = rd.chunks /\ nx.fill = rd.fill /\ nx.refills = rd.refills /\ nx.to = rd.to

(* A fetch keeps the type of the reader and the slices it keeps.           *)
LEMMA FetchType ==
  ASSUME NEW rd \in ReaderType
  PROVE  /\ Fetch(rd) \in ReaderType /\ Kept(rd, Fetch(rd))
         /\ rd.state # "none" => Fetch(rd).state # "none"
<1>1. CASE Fetch(rd) = rd
  BY <1>1 DEF Kept
<1>2. CASE Fetch(rd) = [rd EXCEPT !.state = "panic"]
  BY <1>2 DEF Kept, ReaderType
<1>3. CASE Fetch(rd) = [rd EXCEPT !.state = "spins"]
  BY <1>3 DEF Kept, ReaderType
<1>4. ASSUME NEW cells \in Seq(Cell), Fetch(rd) = Loaded(rd, cells)
      PROVE  /\ Fetch(rd) \in ReaderType /\ Kept(rd, Fetch(rd))
             /\ rd.state # "none" => Fetch(rd).state # "none"
  <2>1. PICK n \in Int : n = rd.from + Len(cells)
    BY ReaderFields
  <2>2. Fetch(rd) = [rd EXCEPT !.rest = cells, !.taken = 0, !.cur = rd.from, !.from = n]
    BY <1>4, <2>1 DEF Loaded
  <2>3. rd.from \in Int
    BY ReaderFields
  <2>4. Fetch(rd) \in ReaderType
    <3> DEFINE nx == [rd EXCEPT !.rest = cells, !.taken = 0]
    <3>1. nx \in ReaderType
      BY DEF ReaderType
    <3>2. Fetch(rd) = [nx EXCEPT !.cur = rd.from, !.from = n]
      BY <2>2
    <3> HIDE DEF nx
    <3> QED BY <2>3, <3>1, <3>2 DEF ReaderType
  <2>5. /\ Fetch(rd).chunks = rd.chunks /\ Fetch(rd).fill = rd.fill
        /\ Fetch(rd).refills = rd.refills /\ Fetch(rd).to = rd.to
        /\ Fetch(rd).state = rd.state
    BY <2>2 DEF ReaderType
  <2> QED BY <2>4, <2>5 DEF Kept
<1> QED BY <1>1, <1>2, <1>3, <1>4, FetchOutcome

(* Pull and Pulled: a fetch when nothing is left, then the first cell.     *)
Filled(rd) == IF rd.rest # <<>> \/ rd.state # "open" THEN rd ELSE Fetch(rd)

(* The same when the fetch is made only if no cell is left.                *)
LEMMA FilledType ==
  ASSUME NEW rd \in ReaderType
  PROVE  /\ Filled(rd) \in ReaderType /\ Kept(rd, Filled(rd))
         /\ rd.state # "none" => Filled(rd).state # "none"
  BY FetchType DEF Filled, Kept

(* The same for Pull; it gives the first cell left, or none.               *)
LEMMA PullType ==
  ASSUME NEW rd \in ReaderType
  PROVE  /\ Pull(rd) \in ReaderType /\ Kept(rd, Pull(rd))
         /\ rd.state # "none" => Pull(rd).state # "none"
         /\ \/ Pulled(rd) = <<>> /\ Pull(rd) = Filled(rd)
               /\ (Filled(rd).rest = <<>> \/ Filled(rd).state # "open")
            \/ /\ Filled(rd).rest # <<>> /\ Filled(rd).state = "open"
               /\ Pulled(rd) = <<Head(Filled(rd).rest)>>
               /\ Pull(rd) = [Filled(rd) EXCEPT !.rest = Tail(Filled(rd).rest),
                                              !.taken = Filled(rd).taken + 1]
<1> DEFINE f == Filled(rd)
           stop == f.rest = <<>> \/ f.state # "open"
<1>1. f \in ReaderType /\ Kept(rd, f) /\ (rd.state # "none" => f.state # "none")
  BY FilledType
<1>2. /\ Pull(rd) = IF stop THEN f ELSE [f EXCEPT !.rest = Tail(f.rest), !.taken = f.taken + 1]
      /\ Pulled(rd) = IF stop THEN <<>> ELSE <<Head(f.rest)>>
  BY Zenon DEF Pull, Pulled, Filled
<1> HIDE DEF f
<1>3. CASE stop
  BY <1>1, <1>2, <1>3 DEF f
<1>4. CASE ~stop
  <2>1. f.rest \in Seq(Cell) /\ f.taken \in Nat
    BY <1>1, ReaderFields
  <2>2. Tail(f.rest) \in Seq(Cell)
    BY <1>4, <2>1
  <2>3. PICK n \in Nat : n = f.taken + 1
    BY <2>1
  <2>4. Pull(rd) = [f EXCEPT !.rest = Tail(f.rest), !.taken = n]
    BY <1>2, <1>4, <2>3
  <2>5. /\ Pull(rd) \in ReaderType /\ Kept(rd, Pull(rd))
        /\ rd.state # "none" => Pull(rd).state # "none"
    BY <1>1, <2>2, <2>4 DEF Kept, ReaderType
  <2>6. Pulled(rd) = <<Head(f.rest)>>
        /\ Pull(rd) = [f EXCEPT !.rest = Tail(f.rest), !.taken = f.taken + 1]
    BY <1>2, <1>4, Zenon
  <2>7. f.rest # <<>> /\ f.state = "open"
    BY <1>4
  <2> QED BY <2>5, <2>6, <2>7, Zenon DEF f
<1> QED BY <1>3, <1>4

(* A cursor that stands before the end of a chunk cuts the rest of it.     *)
LEMMA CutChunkSound ==
  ASSUME NEW rd \in ReaderType, NEW d \in DueType, NEW b \in BufferType,
         Snapshot(rd, d, b), Sound(rd, d), Stands(rd, d),
         rd.from < rd.to, rd.from < Volume(rd)
  PROVE  \E cells \in Seq(Cell), last \in BOOLEAN, n \in 0..d.to :
           /\ CutChunk(rd) = Found(cells, last) /\ cells # <<>>
           /\ n = rd.from + Len(cells) /\ (n + 1) % ChunkSize # 0
           /\ \A i \in 1..Len(cells) : StandsFor(cells[i], rd.from + i - 1, rd, d)
<1>1. PICK C \in Nat : C = ChunkSize /\ C > 1
  BY ChunkAssumption
<1>2. PICK V \in Nat : V = Volume(rd) /\ V = ViewBytes(rd)
  BY ChunksOrNil DEF Sound
<1>3. PICK count \in Nat : count = Len(rd.chunks) /\ V = count * C
  BY <1>1, <1>2, ChunksOrNil DEF Volume
<1>4. PICK from \in Nat, to \in Nat : /\ from = rd.from /\ to = rd.to /\ to = d.to
                                     /\ from < to /\ from < V
  BY <1>2, ReaderFields, DueFields DEF Stands
<1>5. (from + 1) % C # 0
  BY <1>1, <1>2, <1>4 DEF Stands
<1>6. to <= V => to % C = 0
  BY <1>1, <1>2, <1>4 DEF Sound, Aligned, Volume
<1>7. PICK quo \in Nat, bi \in 0..(C - 1) : from = quo * C + bi /\ bi = from % C
  BY <1>1, DivMod
<1>8. quo * C \in Nat /\ (quo + 1) * C = quo * C + C
  BY Multiples
<1> DEFINE Q == quo * C
<1>9. Q \in Nat /\ (quo + 1) * C = Q + C /\ from = Q + bi
  BY <1>7, <1>8
<1> HIDE DEF Q
<1>10. bi # C - 1
  <2>1. SUFFICES ASSUME bi = C - 1 PROVE FALSE
    OBVIOUS
  <2>2. from + 1 = (quo + 1) * C + 0
    <3>1. from + 1 = Q + C
      BY <1>9, <2>1
    <3> QED BY <1>9, <3>1
  <2>3. quo + 1 \in Nat /\ 0 \in 0..(C - 1)
    BY <1>1
  <2>4. ((quo + 1) * C + 0) % C = 0
    BY <1>1, <2>3, DivUnique
  <2> QED BY <1>5, <2>2, <2>4
<1>11. (from + 1) \div C = quo
  <2>1. bi + 1 \in 0..(C - 1) /\ from + 1 = quo * C + (bi + 1)
    BY <1>1, <1>7, <1>8, <1>10
  <2> QED BY <1>1, <2>1, DivUnique
<1>12. quo < count
  <2>1. SUFFICES ASSUME count <= quo PROVE FALSE
    OBVIOUS
  <2>2. count * C <= quo * C
    BY <1>8, <2>1, MultiplesGrow, Multiples
  <2> QED BY <1>3, <1>4, <1>7, <1>8, <2>2
<1>13. quo * C + C <= V
  BY <1>3, <1>12, MultiplesGrow
<1> DEFINE bmi == IF \/ rd.to <= ChunkSize
                     \/ rd.to <= ViewBytes(rd) /\ rd.to > ViewBytes(rd) - ChunkSize
                  THEN ChunkSize - (rd.to % ChunkSize)
                  ELSE ChunkSize
           cut == SubSeq(rd.chunks[quo + 1], bi + 1, C)
           cells == [i \in DOMAIN cut |-> ChunkCell(cut[i])]
           last == rd.from + Len(cut) >= rd.to
<1>14. bmi = C
  <2>1. CASE to <= V
    <3>1. to % C = 0
      BY <1>6, <2>1
    <3>2. rd.to % ChunkSize = 0
      BY <1>1, <1>4, <3>1
    <3> QED BY <1>1, <3>2
  <2>2. CASE ~(to <= V)
    <3>1. ~(rd.to <= ChunkSize) /\ ~(rd.to <= ViewBytes(rd))
      BY <1>1, <1>2, <1>4, <1>8, <1>13, <2>2
    <3> QED BY <1>1, <3>1
  <2> QED BY <2>1, <2>2
<1>15. CutChunk(rd) = Found(cells, last)
  <2>1. /\ (rd.from + 1) \div ChunkSize = quo /\ rd.from % ChunkSize = bi
        /\ ~(quo >= Len(rd.chunks) \/ bi > C)
    BY <1>1, <1>3, <1>4, <1>7, <1>11, <1>12
  <2>2. CutChunk(rd) =
          IF quo >= Len(rd.chunks) \/ bi > bmi THEN OutOfRange
          ELSE LET ct == SubSeq(rd.chunks[quo + 1], bi + 1, bmi)
               IN  Found([i \in DOMAIN ct |-> ChunkCell(ct[i])], rd.from + Len(ct) >= rd.to)
    BY <2>1, Zenon DEF CutChunk
  <2> HIDE DEF bmi
  <2> QED BY <1>14, <2>1, <2>2, Zenon
<1>16. rd.chunks[quo + 1] \in Chunk
  <2>1. rd.chunks \in Seq(Chunk)
    BY ChunksOrNil DEF Sound
  <2>2. quo + 1 \in 1..Len(rd.chunks)
    BY <1>3, <1>12
  <2> QED BY <2>1, <2>2
<1> DEFINE ch == rd.chunks[quo + 1]
<1>17. ch \in Seq(Bytes) /\ Len(ch) = C
  BY <1>1, <1>16, ChunkIsSeq
<1> HIDE DEF ch
<1>18. /\ cut \in Seq(Bytes) /\ Len(cut) = C - bi
       /\ \A i \in 1..(C - bi) : cut[i] = ch[bi + i]
  <2>1. cut = SubSeq(ch, bi + 1, C)
    BY DEF ch
  <2>2. bi + 1 \in 1..(C + 1) /\ C \in bi..Len(ch)
    BY <1>17
  <2> HIDE DEF cut
  <2>3. cut \in Seq(Bytes) /\ Len(cut) = C - bi
    BY <1>17, <2>1, <2>2, SubSeqProperties
  <2>4. \A i \in 1..(C - bi) : cut[i] = ch[bi + i]
    BY <1>17, <2>1, <2>2, SubSeqProperties
  <2> QED BY <2>3, <2>4
<1> HIDE DEF cut
<1>19. /\ cells \in Seq(Cell) /\ Len(cells) = C - bi /\ last \in BOOLEAN
       /\ \A i \in 1..(C - bi) : cells[i] = ChunkCell(cut[i])
  <2>1. \A x \in Bytes : ChunkCell(x) \in Cell
    BY <1>1 DEF ChunkCell, Cell
  <2>2. C - bi \in Nat /\ DOMAIN cut = 1..(C - bi) /\ \A i \in 1..(C - bi) : cut[i] \in Bytes
    BY <1>18
  <2> QED BY <2>1, <2>2
<1> HIDE DEF cells, last
<1> DEFINE n == from + (C - bi)
<1>20. n = Q + C /\ n \in Nat
  BY <1>9
<1>21. n <= to
  <2>1. CASE to <= V
    <3>1. PICK p \in Nat : to = p * C
      <4>1. to % C = 0
        BY <1>6, <2>1
      <4>2. to \div C \in Nat /\ to = (to \div C) * C + (to % C)
        BY <1>1, DivMod
      <4>3. PICK p \in Nat : p = to \div C
        BY <4>2
      <4>4. p * C \in Nat
        BY Multiples
      <4>5. to = p * C
        BY <4>1, <4>2, <4>3, <4>4
      <4> QED BY <4>5
    <3>2. quo < p
      <4>1. SUFFICES ASSUME p <= quo PROVE FALSE
        OBVIOUS
      <4>2. p * C <= quo * C
        BY <1>8, <4>1, MultiplesGrow, Multiples
      <4> QED BY <1>4, <1>7, <1>8, <3>1, <4>2
    <3>3. quo * C + C <= p * C
      BY <3>2, MultiplesGrow
    <3> QED BY <1>20, <3>1, <3>3 DEF Q
  <2>2. CASE ~(to <= V)
    BY <1>13, <1>20, <2>2 DEF Q
  <2> QED BY <2>1, <2>2
<1>22. (n + 1) % ChunkSize # 0
  <2>1. PICK p \in Nat : p = quo + 1
    OBVIOUS
  <2>2. 1 \in 0..(C - 1) /\ C > 0
    BY <1>1
  <2>3. (p * C + 1) % C = 1
    BY <2>2, DivUnique
  <2>4. n + 1 = p * C + 1
    BY <1>9, <1>20, <2>1
  <2> QED BY <1>1, <2>3, <2>4
<1>23. ASSUME NEW i \in 1..Len(cells)
       PROVE  StandsFor(cells[i], rd.from + i - 1, rd, d)
  <2>1. i \in 1..(C - bi) /\ bi + i \in 1..ChunkSize /\ quo + 1 \in 1..Len(rd.chunks)
    BY <1>1, <1>3, <1>12, <1>19
  <2>2. cells[i] = ChunkCell(ch[bi + i])
    BY <1>18, <1>19, <2>1
  <2>3. d.content[((quo + 1) - 1) * ChunkSize + (bi + i)] = ch[bi + i]
    BY <2>1 DEF Snapshot, Sound, ch
  <2>4. (quo + 1) - 1 = quo /\ Q + (bi + i) = (rd.from + i - 1) + 1
    BY <1>4, <1>9
  <2>5. d.content[(rd.from + i - 1) + 1] = ch[bi + i]
    BY <1>1, <2>3, <2>4, Zenon DEF Q
  <2> QED BY <2>2, <2>5 DEF StandsFor, ChunkCell
<1>24. n \in 0..d.to /\ n = rd.from + Len(cells) /\ cells # <<>>
  <2>1. Len(cells) # 0 /\ Len(cells) = C - bi
    BY <1>19
  <2> QED BY <1>4, <1>20, <1>21, <2>1
<1> HIDE DEF n
<1> QED BY <1>15, <1>19, <1>22, <1>23, <1>24, Zenon

(* A cursor that stands in the tail cuts the rest of its range.            *)
LEMMA CutTailSound ==
  ASSUME NEW rd \in ReaderType, NEW d \in DueType, NEW b \in BufferType,
         Snapshot(rd, d, b), Sound(rd, d), Stands(rd, d),
         rd.from < rd.to, ~(rd.from < Volume(rd))
  PROVE  \E cells \in Seq(Cell) :
           /\ CutTail(rd) = Found(cells, TRUE) /\ cells # <<>>
           /\ rd.from + Len(cells) = d.to
           /\ \A i \in 1..Len(cells) : StandsFor(cells[i], rd.from + i - 1, rd, d)
<1>1. PICK V \in Nat : V = Volume(rd) /\ V = ViewBytes(rd)
  BY ChunksOrNil DEF Sound
<1>2. PICK from \in Nat, to \in Nat : /\ from = rd.from /\ to = rd.to /\ to = d.to
                                     /\ from < to /\ V <= from
  BY <1>1, ReaderFields, DueFields DEF Stands
<1>3. PICK fill \in Nat : fill = rd.fill /\ fill < ChunkSize
  BY ReaderFields, ChunkAssumption
<1>4. to <= V + fill
  BY <1>1, <1>2, <1>3, DueFields DEF Snapshot
<1>5. ~(rd.to - ViewBytes(rd) > ChunkSize)
  BY <1>1, <1>2, <1>3, <1>4, ChunkAssumption
<1> DEFINE lo == rd.from - ViewBytes(rd)
           hi == rd.to - ViewBytes(rd)
           cells == [i \in 1..(hi - lo) |-> TailCell(lo + i)]
<1>6. CutTail(rd) = Found(cells, TRUE)
  BY <1>5, Zenon DEF CutTail
<1>7. lo = from - V /\ hi - lo = to - from /\ to - from \in Nat
  BY <1>1, <1>2
<1> HIDE DEF lo, hi
<1>8. ASSUME NEW i \in 1..(to - from)
      PROVE  /\ TailCell(lo + i) \in Cell
             /\ StandsFor(TailCell(lo + i), rd.from + i - 1, rd, d)
  <2>1. /\ lo + i \in 1..rd.fill /\ lo + i \in 0..ChunkSize
        /\ (rd.from + i - 1) + 1 = Volume(rd) + (lo + i)
    BY <1>1, <1>2, <1>3, <1>4, <1>7, ChunkAssumption
  <2>2. PICK n \in 1..rd.fill : n = lo + i
    BY <2>1
  <2> QED BY <2>1, <2>2 DEF TailCell, Cell, Bytes, StandsFor
<1>9. /\ cells \in Seq(Cell) /\ Len(cells) = to - from
       /\ \A i \in 1..(to - from) : cells[i] = TailCell(lo + i)
  <2>1. PICK m \in Nat : m = to - from
    BY <1>7
  <2>2. cells = [i \in 1..m |-> TailCell(lo + i)]
    BY <1>7, <2>1
  <2>3. \A i \in 1..m : TailCell(lo + i) \in Cell
    BY <1>8, <2>1
  <2> HIDE DEF cells
  <2> QED BY <2>1, <2>2, <2>3
<1> HIDE DEF cells
<1>10. cells # <<>> /\ rd.from + Len(cells) = d.to
  BY <1>2, <1>9
<1>11. \A i \in 1..Len(cells) : StandsFor(cells[i], rd.from + i - 1, rd, d)
  BY <1>8, <1>9
<1> QED BY <1>6, <1>9, <1>10, <1>11, Zenon

(* What the reader owes, apart from how far it got.                        *)
DueKept(d, e) ==
  e.content = d.content /\ e.from = d.from /\ e.to = d.to /\ e.skewed = d.skewed

(* What depends only on the slices and the range stays as it is.           *)
LEMMA KeptFacts ==
  ASSUME NEW rd, NEW nx, NEW d, NEW e, NEW b, Kept(rd, nx), DueKept(d, e)
  PROVE  /\ Volume(nx) = Volume(rd) /\ (Sound(nx, e) <=> Sound(rd, d))
         /\ (Overtaken(nx, b) <=> Overtaken(rd, b))
         /\ (Snapshot(rd, d, b) => Snapshot(nx, e, b))
<1>1. Volume(nx) = Volume(rd) /\ (Wiped(nx) <=> Wiped(rd))
  BY DEF Kept, Volume, Wiped
<1>2. Sound(nx, e) <=> Sound(rd, d)
  BY <1>1 DEF Kept, DueKept, Sound, Aligned
<1>3. Overtaken(nx, b) <=> Overtaken(rd, b)
  BY DEF Kept, Overtaken
<1>4. Snapshot(rd, d, b) => Snapshot(nx, e, b)
  BY <1>1 DEF Kept, DueKept, Snapshot
<1> QED BY <1>1, <1>2, <1>3, <1>4

(* A sound cursor at its end gives nothing and says so.                    *)
LEMMA FetchEnds ==
  ASSUME NEW rd \in ReaderType, rd.from < 0 \/ rd.from >= rd.to
  PROVE  Fetch(rd) = rd
<1>1. nextBytes(rd) = Found(<<>>, TRUE)
  BY DEF nextBytes
<1>2. nextBytes(rd).panic = FALSE /\ nextBytes(rd).cells = <<>> /\ nextBytes(rd).last = TRUE
  BY <1>1 DEF Found
<1> QED BY <1>2 DEF Fetch

(* Before its end it brings the next bytes owed.                           *)
LEMMA FetchBrings ==
  ASSUME NEW rd \in ReaderType, NEW d \in DueType, NEW b \in BufferType,
         Snapshot(rd, d, b), Sound(rd, d), Stands(rd, d), rd.from < rd.to
  PROVE  \E cells \in Seq(Cell), n \in 0..d.to :
           /\ Fetch(rd) = Loaded(rd, cells) /\ cells # <<>> /\ n = rd.from + Len(cells)
           /\ n < Volume(rd) => (n + 1) % ChunkSize # 0
           /\ \A i \in 1..Len(cells) : StandsFor(cells[i], rd.from + i - 1, rd, d)
<1>1. /\ rd.from \in Int /\ rd.to \in Int /\ 0 <= rd.from /\ rd.fill \in Nat
      /\ d.to \in Int /\ 1 <= d.to /\ d.to <= Len(d.content)
      /\ Len(d.content) = Volume(rd) + rd.fill
  BY ReaderFields, DueFields DEF Stands, Snapshot
<1>2. ~(rd.chunks = <<>> /\ rd.fill = 0)
  <2>1. SUFFICES ASSUME rd.chunks = <<>>, rd.fill = 0 PROVE FALSE
    OBVIOUS
  <2>2. Len(rd.chunks) = 0
    BY <2>1
  <2>3. Volume(rd) = 0
    BY <2>2, ChunkAssumption DEF Volume
  <2> QED BY <1>1, <2>1, <2>3
<1>3. ViewBytes(rd) = Volume(rd) /\ Volume(rd) \in Nat
  BY ChunksOrNil DEF Sound
<1>4. nextBytes(rd) = IF rd.from < Volume(rd) THEN CutChunk(rd) ELSE CutTail(rd)
  <2>1. ~((rd.chunks = <<>> /\ rd.fill = 0) \/ rd.from < 0 \/ rd.from >= rd.to)
    BY <1>1, <1>2
  <2> QED BY <1>3, <2>1, Zenon DEF nextBytes
<1>5. ASSUME NEW cells \in Seq(Cell), NEW last \in BOOLEAN, cells # <<>>,
             nextBytes(rd) = Found(cells, last)
      PROVE  Fetch(rd) = Loaded(rd, cells)
  <2>1. nextBytes(rd).panic = FALSE /\ nextBytes(rd).cells = cells
    BY <1>5 DEF Found
  <2> QED BY <1>5, <2>1 DEF Fetch, Loaded
<1>6. CASE rd.from < Volume(rd)
  <2>1. PICK cells \in Seq(Cell), last \in BOOLEAN, n \in 0..d.to :
          /\ CutChunk(rd) = Found(cells, last) /\ cells # <<>>
          /\ n = rd.from + Len(cells) /\ (n + 1) % ChunkSize # 0
          /\ \A i \in 1..Len(cells) : StandsFor(cells[i], rd.from + i - 1, rd, d)
    BY <1>6, CutChunkSound
  <2>2. nextBytes(rd) = Found(cells, last)
    BY <1>4, <1>6, <2>1
  <2>3. Fetch(rd) = Loaded(rd, cells)
    BY <1>5, <2>1, <2>2
  <2> QED BY <2>1, <2>3, Zenon
<1>7. CASE ~(rd.from < Volume(rd))
  <2>1. PICK cells \in Seq(Cell) :
          /\ CutTail(rd) = Found(cells, TRUE) /\ cells # <<>>
          /\ rd.from + Len(cells) = d.to
          /\ \A i \in 1..Len(cells) : StandsFor(cells[i], rd.from + i - 1, rd, d)
    BY <1>7, CutTailSound
  <2>2. nextBytes(rd) = Found(cells, TRUE)
    BY <1>4, <1>7, <2>1
  <2>3. Fetch(rd) = Loaded(rd, cells)
    BY <1>5, <2>1, <2>2
  <2>4. PICK n \in 0..d.to : n = d.to
    BY <1>1
  <2>5. n = rd.from + Len(cells) /\ ~(n < Volume(rd))
    <3>1. rd.from < d.to
      BY DEF Stands
    <3> QED BY <1>1, <1>3, <1>7, <2>1, <2>4, <3>1
  <2> QED BY <2>1, <2>3, <2>5, Zenon
<1> QED BY <1>6, <1>7

(* The fields after a fetch that brought cells.                            *)
LEMMA LoadedFields ==
  ASSUME NEW rd \in ReaderType, NEW cells \in Seq(Cell)
  PROVE  /\ Kept(rd, Loaded(rd, cells)) /\ Loaded(rd, cells).state = rd.state
         /\ Loaded(rd, cells).rest = cells /\ Loaded(rd, cells).from = rd.from + Len(cells)
  BY DEF Loaded, Kept, ReaderType

(* With a sound cursor the cells left are the next bytes owed, and none    *)
(* are left only at the end of the range.                                  *)
LEMMA FilledReads ==
  ASSUME NEW rd \in ReaderType, NEW d \in DueType, NEW b \in BufferType,
         Reads(rd, d, b), Sound(rd, d)
  PROVE  /\ Reads(Filled(rd), d, b) /\ Sound(Filled(rd), d)
         /\ Filled(rd).rest = <<>> => Filled(rd) = rd /\ (rd.from = -1 \/ rd.from = d.to)
<1> DEFINE f == Filled(rd)
<1>1. /\ rd.state = "open" /\ Snapshot(rd, d, b) /\ (rd.from = -1 \/ Stands(rd, d))
      /\ rd.from \in Int /\ rd.to \in Int /\ d.to \in Int
  BY ReaderFields, DueFields DEF Reads, Placed
<1>2. CASE rd.rest # <<>>
  BY <1>2 DEF Filled
<1>3. CASE rd.rest = <<>> /\ (rd.from = -1 \/ rd.from >= rd.to)
  <2>1. f = rd
    BY <1>1, <1>3, FetchEnds DEF Filled
  <2>2. rd.from = -1 \/ rd.from = d.to
    BY <1>1, <1>3 DEF Stands
  <2> QED BY <2>1, <2>2
<1>4. CASE rd.rest = <<>> /\ Stands(rd, d) /\ rd.from < rd.to
  <2>1. PICK cells \in Seq(Cell), n \in 0..d.to :
          /\ Fetch(rd) = Loaded(rd, cells) /\ cells # <<>> /\ n = rd.from + Len(cells)
          /\ n < Volume(rd) => (n + 1) % ChunkSize # 0
          /\ \A i \in 1..Len(cells) : StandsFor(cells[i], rd.from + i - 1, rd, d)
    BY <1>1, <1>4, FetchBrings
  <2>2. f = Loaded(rd, cells)
    BY <1>1, <1>4, <2>1 DEF Filled
  <2>3. Kept(rd, f) /\ f.state = "open" /\ f.rest = cells /\ f.from = n
    BY <1>1, <2>1, <2>2, LoadedFields
  <2>4. Volume(f) = Volume(rd) /\ Sound(f, d) /\ (Overtaken(f, b) <=> Overtaken(rd, b))
        /\ Snapshot(f, d, b)
    BY <1>1, <2>3, KeptFacts DEF DueKept
  <2> HIDE DEF f
  <2>5. Placed(f, d)
    <3>1. f.to = d.to
      BY <1>4, <2>3 DEF Kept, Stands
    <3> QED BY <2>1, <2>3, <2>4, <3>1 DEF Placed, Stands
  <2>6. ASSUME ~d.skewed, d.from \in 0..d.to
        PROVE  /\ d.at \in 0..d.to
               /\ f.from = -1 => f.rest = <<>> /\ d.at = d.to
               /\ f.from >= 0 => d.at + Len(f.rest) = f.from
               /\ \A i \in 1..Len(f.rest) : StandsFor(f.rest[i], d.at + i - 1, f, d)
               /\ d.ended => d.at = d.to
               /\ ~Overtaken(f, b) => ~d.wrong
    <3>1. /\ d.at \in 0..d.to /\ d.at + Len(rd.rest) = rd.from
          /\ d.ended => d.at = d.to
          /\ ~Overtaken(rd, b) => ~d.wrong
      BY <1>1, <1>4, <2>6 DEF Reads, Rests, Stands
    <3>2. Len(rd.rest) = 0
      BY <1>4
    <3>3. d.at = rd.from
      BY <1>1, <3>1, <3>2, DueFields
    <3>4. \A cell, m : StandsFor(cell, m, f, d) <=> StandsFor(cell, m, rd, d)
      BY <2>3, <2>4 DEF StandsFor, Kept
    <3>5. \A i \in 1..Len(f.rest) : StandsFor(f.rest[i], d.at + i - 1, f, d)
      BY <2>1, <2>3, <3>3, <3>4
    <3>6. f.from # -1 /\ d.at + Len(f.rest) = f.from
      BY <2>1, <2>3, <3>3
    <3> QED BY <2>4, <3>1, <3>5, <3>6
  <2>7. Rests(f, d, b)
    BY <2>6 DEF Rests
  <2>8. f.rest # <<>>
    BY <2>1, <2>3
  <2> QED BY <2>4, <2>5, <2>7, <2>8 DEF Reads, f
<1> QED BY <1>1, <1>2, <1>3, <1>4

(* The fields after a byte was delivered.                                  *)
LEMMA DeliverType ==
  ASSUME NEW d \in DueType, NEW x
  PROVE  /\ Deliver(d, x) \in DueType /\ DueKept(d, Deliver(d, x))
         /\ Deliver(d, x).at = d.at + 1 /\ Deliver(d, x).ended = d.ended
         /\ Deliver(d, x).wrong =
              (d.wrong \/ ~(d.at \in 0..(d.to - 1) /\ d.content[d.at + 1] = x))
<1>1. PICK n \in Int : n = d.at + 1
  BY DueFields
<1>2. PICK w \in BOOLEAN :
        w = (d.wrong \/ ~(d.at \in 0..(d.to - 1) /\ d.content[d.at + 1] = x))
  <2>1. (d.wrong \/ ~(d.at \in 0..(d.to - 1) /\ d.content[d.at + 1] = x)) \in BOOLEAN
    OBVIOUS
  <2> QED BY <2>1, Zenon
<1>3. Deliver(d, x) = [d EXCEPT !.at = n, !.wrong = w]
  BY <1>1, <1>2 DEF Deliver
<1>4. Deliver(d, x) \in DueType
  BY <1>3 DEF DueType
<1>5. /\ Deliver(d, x).at = n /\ Deliver(d, x).ended = d.ended /\ Deliver(d, x).wrong = w
      /\ Deliver(d, x).content = d.content /\ Deliver(d, x).from = d.from
      /\ Deliver(d, x).to = d.to /\ Deliver(d, x).skewed = d.skewed
  BY <1>3 DEF DueType
<1> QED BY <1>1, <1>2, <1>4, <1>5, Zenon DEF DueKept

(* What is owed after a pull.                                              *)
DueAfter(rd, d, b) ==
  IF Pulled(rd) = <<>> THEN d ELSE Deliver(d, Value(b, Head(Pulled(rd))))

(* What is owed keeps its type and its range.                              *)
LEMMA DueAfterType ==
  ASSUME NEW rd \in ReaderType, NEW d \in DueType, NEW b
  PROVE  DueAfter(rd, d, b) \in DueType /\ DueKept(d, DueAfter(rd, d, b))
  BY DeliverType DEF DueAfter, DueKept

(* A cell fetched has the value owed, unless the tail was started again.   *)
LEMMA CellValue ==
  ASSUME NEW rd \in ReaderType, NEW d \in DueType, NEW b \in BufferType, NEW n, NEW cell \in Cell,
         Snapshot(rd, d, b), StandsFor(cell, n, rd, d), ~Overtaken(rd, b)
  PROVE  Value(b, cell) = d.content[n + 1]
<1>1. CASE cell.place = 0 /\ cell.byte = d.content[n + 1]
  BY <1>1 DEF Value
<1>2. CASE cell.place \in 1..rd.fill /\ n + 1 = Volume(rd) + cell.place
  <2>1. rd.fill > 0 /\ cell.place # 0
    BY <1>2, ReaderFields
  <2>2. rd.refills = b.refills
    BY <2>1 DEF Overtaken
  <2>3. d.content[Volume(rd) + cell.place] = b.tail[cell.place]
    BY <1>2, <2>2 DEF Snapshot
  <2> QED BY <1>2, <2>1, <2>3 DEF Value
<1> QED BY <1>1, <1>2 DEF StandsFor

(* One pull keeps the reader on what it owes; one that gives nothing means *)
(* that all is delivered.                                                  *)
LEMMA PullReads ==
  ASSUME NEW rd \in ReaderType, NEW d \in DueType, NEW b \in BufferType, Reads(rd, d, b)
  PROVE  /\ Reads(Pull(rd), DueAfter(rd, d, b), b)
         /\ Sound(rd, d) /\ ~d.skewed /\ d.from \in 0..d.to /\ Pulled(rd) = <<>> => d.at = d.to
<1> DEFINE nx == Pull(rd)
           e == DueAfter(rd, d, b)
           f == Filled(rd)
<1>1. Kept(rd, nx) /\ DueKept(d, e) /\ nx \in ReaderType /\ e \in DueType
  BY PullType, DueAfterType
<1>2. Snapshot(nx, e, b) /\ (Sound(nx, e) <=> Sound(rd, d))
  BY <1>1, KeptFacts DEF Reads
<1>3. CASE ~Sound(rd, d)
  <2>1. Reads(nx, e, b)
    <3> HIDE DEF nx, e
    <3> QED BY <1>2, <1>3 DEF Reads, Placed, Rests
  <2> QED BY <1>3, <2>1
<1>4. CASE Sound(rd, d)
  <2>1. /\ Reads(f, d, b) /\ Sound(f, d) /\ f \in ReaderType
        /\ f.rest = <<>> => f = rd /\ (rd.from = -1 \/ rd.from = d.to)
    BY <1>4, FilledReads, FilledType
  <2>2. f.state = "open" /\ (f.from = -1 \/ Stands(f, d)) /\ Snapshot(f, d, b)
    BY <2>1 DEF Reads, Placed
  <2>3. CASE f.rest = <<>>
    <3>1. Pulled(rd) = <<>> /\ nx = f
      BY <2>3, PullType
    <3>2. e = d
      BY <3>1 DEF DueAfter
    <3>3. ASSUME ~d.skewed, d.from \in 0..d.to PROVE d.at = d.to
      <4>1. /\ rd.from = -1 => d.at = d.to
            /\ rd.from >= 0 => d.at + Len(rd.rest) = rd.from
        BY <1>4, <3>3 DEF Reads, Rests
      <4>2. rd.rest = <<>> /\ Len(rd.rest) = 0
        BY <2>1, <2>3
      <4>3. d.to >= 0 /\ d.to \in Int /\ d.at \in Int
        BY <3>3, DueFields
      <4> QED BY <2>1, <2>3, <4>1, <4>2, <4>3
    <3> QED BY <2>1, <3>1, <3>2, <3>3
  <2>4. CASE f.rest # <<>>
    <3>1. /\ Pulled(rd) = <<Head(f.rest)>>
          /\ nx = [f EXCEPT !.rest = Tail(f.rest), !.taken = f.taken + 1]
      BY <2>2, <2>4, PullType
    <3>2. f.rest \in Seq(Cell) /\ Len(f.rest) \in Nat /\ Len(f.rest) > 0
      BY <2>1, <2>4, ReaderFields
    <3> DEFINE cell == Head(f.rest)
               x == Value(b, cell)
    <3>3. cell = f.rest[1] /\ cell \in Cell
      BY <3>2
    <3>4. e = Deliver(d, x)
      BY <3>1 DEF DueAfter
    <3>5. /\ Kept(f, nx) /\ nx.state = "open" /\ nx.rest = Tail(f.rest) /\ nx.from = f.from
      BY <2>1, <2>2, <3>1 DEF Kept, ReaderType
    <3>6. /\ e.at = d.at + 1 /\ e.ended = d.ended
          /\ e.wrong = (d.wrong \/ ~(d.at \in 0..(d.to - 1) /\ d.content[d.at + 1] = x))
      BY <3>4, DeliverType
    <3>7. Volume(nx) = Volume(f) /\ Sound(nx, e) /\ (Overtaken(nx, b) <=> Overtaken(f, b))
      BY <1>1, <2>1, <3>5, KeptFacts
    <3>8. Placed(nx, e)
      <4> HIDE DEF nx, e, f
      <4> QED BY <1>1, <2>2, <3>5, <3>7 DEF Placed, Stands, Kept, DueKept
    <3>9. ASSUME ~e.skewed, e.from \in 0..e.to
          PROVE  /\ e.at \in 0..e.to
                 /\ nx.from = -1 => nx.rest = <<>> /\ e.at = e.to
                 /\ nx.from >= 0 => e.at + Len(nx.rest) = nx.from
                 /\ \A i \in 1..Len(nx.rest) : StandsFor(nx.rest[i], e.at + i - 1, nx, e)
                 /\ e.ended => e.at = e.to
                 /\ ~Overtaken(nx, b) => ~e.wrong
      <4> HIDE DEF nx, e, f, x
      <4>1. /\ d.at \in 0..d.to
            /\ f.from = -1 => f.rest = <<>>
            /\ f.from >= 0 => d.at + Len(f.rest) = f.from
            /\ \A i \in 1..Len(f.rest) : StandsFor(f.rest[i], d.at + i - 1, f, d)
            /\ d.ended => d.at = d.to
            /\ ~Overtaken(f, b) => ~d.wrong
        BY <1>1, <2>1, <3>9 DEF Reads, Rests, DueKept
      <4>2. f.from # -1 /\ Stands(f, d) /\ f.from <= d.to /\ f.from >= 0 /\ f.from \in Int
        BY <2>1, <2>2, <2>4, <4>1, DueFields, ReaderFields DEF Stands
      <4>3. d.at + Len(f.rest) = f.from
        BY <4>1, <4>2
      <4>4. d.at \in Int /\ d.to \in Int /\ e.to = d.to /\ d.at < d.to /\ 0 <= d.at
        BY <1>1, <3>2, <4>1, <4>2, <4>3, DueFields DEF DueKept
      <4>5. nx.rest \in Seq(Cell) /\ Len(nx.rest) = Len(f.rest) - 1
        BY <3>2, <3>5
      <4>6. e.at \in 0..e.to /\ nx.from # -1 /\ e.at + Len(nx.rest) = nx.from
        BY <3>2, <3>5, <3>6, <4>2, <4>3, <4>4, <4>5
      <4>7. ASSUME NEW i \in 1..Len(nx.rest)
            PROVE  StandsFor(nx.rest[i], e.at + i - 1, nx, e)
        <5>1. nx.rest[i] = f.rest[i + 1] /\ i + 1 \in 1..Len(f.rest)
          BY <3>2, <3>5, <4>5
        <5>2. StandsFor(f.rest[i + 1], d.at + (i + 1) - 1, f, d)
          BY <4>1, <5>1
        <5>3. d.at + (i + 1) - 1 = e.at + i - 1
          BY <3>6, <4>4
        <5>4. StandsFor(f.rest[i + 1], e.at + i - 1, f, d)
          BY <5>2, <5>3
        <5> QED BY <1>1, <3>5, <3>7, <5>1, <5>4 DEF StandsFor, Kept, DueKept
      <4>8. ~e.ended
        BY <3>6, <4>1, <4>4
      <4>9. ASSUME ~Overtaken(nx, b) PROVE ~e.wrong
        <5>1. ~Overtaken(f, b) /\ ~d.wrong
          BY <3>7, <4>1, <4>9
        <5>2. 1 \in 1..Len(f.rest)
          BY <3>2
        <5>3. StandsFor(cell, d.at + 1 - 1, f, d)
          BY <3>3, <4>1, <5>2
        <5>4. d.at + 1 - 1 = d.at
          BY <4>4
        <5>5. StandsFor(cell, d.at, f, d)
          BY <5>3, <5>4
        <5>6. x = d.content[d.at + 1]
          BY <2>1, <2>2, <3>3, <5>1, <5>5, CellValue DEF x
        <5>7. d.at \in 0..(d.to - 1)
          BY <4>4
        <5> QED BY <3>6, <5>1, <5>6, <5>7
      <4> QED BY <4>6, <4>7, <4>8, <4>9
    <3>10. Rests(nx, e, b)
      <4> HIDE DEF nx, e, f
      <4> QED BY <3>9 DEF Rests
    <3>11. Pulled(rd) # <<>>
      BY <3>1
    <3> QED BY <1>2, <3>8, <3>10, <3>11 DEF Reads
  <2> QED BY <2>3, <2>4
<1> QED BY <1>3, <1>4

(* The loop of Read: its state after n pulls.                              *)
ReadState == [r : ReaderType, d : DueType, n : Nat]
ReadStep(s, b) ==
  [r |-> Pull(s.r), d |-> DueAfter(s.r, s.d, b), n |-> s.n + Len(Pulled(s.r))]

(* One turn of the loop of Read.                                           *)
LEMMA ReadStepType ==
  ASSUME NEW s \in ReadState, NEW b
  PROVE  /\ ReadStep(s, b) \in ReadState
         /\ ReadStep(s, b).r = Pull(s.r) /\ ReadStep(s, b).d = DueAfter(s.r, s.d, b)
         /\ ReadStep(s, b).n = s.n + Len(Pulled(s.r)) /\ Len(Pulled(s.r)) \in Nat
         /\ Pulled(s.r) # <<>> => Len(Pulled(s.r)) > 0
<1>1. s.r \in ReaderType /\ s.d \in DueType /\ s.n \in Nat
  BY DEF ReadState
<1>2. Pull(s.r) \in ReaderType /\ DueAfter(s.r, s.d, b) \in DueType
  BY <1>1, PullType, DueAfterType
<1>3. Pulled(s.r) = <<>> \/ \E x : Pulled(s.r) = <<x>>
  BY <1>1, PullType
<1>4. Len(Pulled(s.r)) \in Nat /\ (Pulled(s.r) # <<>> => Len(Pulled(s.r)) > 0)
  BY <1>3
<1>5. s.n + Len(Pulled(s.r)) \in Nat
  BY <1>1, <1>4
<1> QED BY <1>2, <1>4, <1>5 DEF ReadStep, ReadState

ReadRuns(a, rd, d, b, k) ==
  /\ a[0].r = rd /\ a[0].d = d /\ a[0].n = 0
  /\ \A n \in 1..k : a[n] = ReadStep(a[n - 1], b)
  /\ ReadUpTo(rd, d, b, k) = a[k]

(* ReadUpTo is a loop over ReadStep.                                       *)
LEMMA ReadLoop ==
  ASSUME NEW rd \in ReaderType, NEW d \in DueType, NEW b \in BufferType, NEW k \in Nat
  PROVE  \E a \in [0..k -> ReadState] : ReadRuns(a, rd, d, b, k)
<1> DEFINE base == [r |-> rd, d |-> d, n |-> 0]
           g == [n \in 1..k |-> [s \in ReadState |-> ReadStep(s, b)]]
<1>1. base \in ReadState /\ base.r = rd /\ base.d = d /\ base.n = 0
  BY DEF ReadState
<1>2. g \in [1..k -> [ReadState -> ReadState]]
  BY ReadStepType
<1>3. \A n \in 1..k : \A s \in ReadState : g[n][s] = ReadStep(s, b)
  OBVIOUS
<1> HIDE DEF g, base
<1>4. PICK s \in [0..k -> ReadState] : Runs(s, base, g, k, ReadState)
  BY <1>1, <1>2, LoopExists
<1>5. /\ s[0] = base
      /\ \A n \in 1..k : n - 1 \in 0..k /\ s[n] = ReadStep(s[n - 1], b)
  BY <1>3, <1>4 DEF Runs, Loop
<1> DEFINE Is(h) == h = [n \in 0..k |-> IF n = 0 THEN base ELSE ReadStep(h[n - 1], b)]
           a == CHOOSE h : Is(h)
<1>6. Is(s)
  BY <1>5
<1>7. Is(a)
  BY <1>6, Zenon
<1>8. ReadUpTo(rd, d, b, k) = a[k]
  BY Zenon DEF ReadUpTo, ReadStep, DueAfter, base
<1> HIDE DEF a
<1>9. Follows(a, base, g, k, ReadState)
  BY <1>3, <1>7 DEF Follows
<1>10. \A n \in 0..k : a[n] = s[n]
  BY <1>4, <1>9, LoopUnique
<1>11. a[k] = s[k]
  BY <1>10
<1>12. ReadRuns(s, rd, d, b, k)
  BY <1>1, <1>5, <1>8, <1>11 DEF ReadRuns
<1> QED BY <1>12, Zenon

(* A Read keeps the reader on what it owes; one that delivers nothing      *)
(* means that all is delivered.                                            *)
LEMMA ReadFacts ==
  ASSUME NEW rd \in ReaderType, NEW d \in DueType, NEW b \in BufferType, NEW k \in Nat, k > 0,
         rd.state # "none"
  PROVE  LET done == ReadUpTo(rd, d, b, k) IN
         /\ done \in ReadState /\ done.r.state # "none"
         /\ Reads(rd, d, b) =>
              /\ Reads(done.r, done.d, b)
              /\ /\ Sound(done.r, done.d) /\ ~done.d.skewed /\ done.d.from \in 0..done.d.to
                 /\ done.n = 0
                 => done.d.at = done.d.to
<1>1. PICK a \in [0..k -> ReadState] : ReadRuns(a, rd, d, b, k)
  BY ReadLoop, Zenon
<1>2. /\ a[0].r = rd /\ a[0].d = d /\ a[0].n = 0
      /\ \A n \in 1..k : a[n] = ReadStep(a[n - 1], b)
      /\ ReadUpTo(rd, d, b, k) = a[k]
  BY <1>1 DEF ReadRuns
<1> DEFINE Ends(s) == /\ Sound(s.r, s.d) /\ ~s.d.skewed /\ s.d.from \in 0..s.d.to
                      /\ s.n = 0
                      => s.d.at = s.d.to
           J(n) == /\ a[n].r.state # "none"
                   /\ Reads(rd, d, b) => Reads(a[n].r, a[n].d, b) /\ (n = 0 \/ Ends(a[n]))
           I == {n \in 0..k : J(n)}
<1>3. 0 \in I
  BY <1>2
<1>4. ASSUME NEW n \in 1..k, n - 1 \in I
      PROVE  n \in I
  <2> DEFINE s == a[n - 1]
             t == a[n]
  <2>1. n - 1 \in 0..k /\ n \in 0..k /\ s \in ReadState /\ t = ReadStep(s, b)
    BY <1>2
  <2>2. s.r \in ReaderType /\ s.d \in DueType /\ s.n \in Nat
    BY <2>1 DEF ReadState
  <2>3. /\ t.r = Pull(s.r) /\ t.d = DueAfter(s.r, s.d, b) /\ t.n = s.n + Len(Pulled(s.r))
        /\ Len(Pulled(s.r)) \in Nat /\ (Pulled(s.r) # <<>> => Len(Pulled(s.r)) > 0)
    BY <2>1, ReadStepType
  <2>4. J(n - 1)
    BY <1>4
  <2>5. t.r.state # "none"
    BY <2>2, <2>3, <2>4, PullType
  <2>6. ASSUME Reads(rd, d, b) PROVE Reads(t.r, t.d, b) /\ Ends(t)
    <3>1. Reads(s.r, s.d, b)
      BY <2>4, <2>6
    <3>2. /\ Reads(Pull(s.r), DueAfter(s.r, s.d, b), b)
          /\ Sound(s.r, s.d) /\ ~s.d.skewed /\ s.d.from \in 0..s.d.to /\ Pulled(s.r) = <<>>
             => s.d.at = s.d.to
      BY <2>2, <3>1, PullReads
    <3>3. ASSUME Sound(t.r, t.d), ~t.d.skewed, t.d.from \in 0..t.d.to, t.n = 0
          PROVE  t.d.at = t.d.to
      <4>1. Pulled(s.r) = <<>>
        BY <2>2, <2>3, <3>3
      <4>2. t.d = s.d
        BY <2>3, <4>1 DEF DueAfter
      <4>3. Sound(s.r, s.d)
        <5>1. Kept(s.r, t.r)
          BY <2>2, <2>3, PullType
        <5> QED BY <3>3, <4>2, <5>1 DEF Kept, Sound, Wiped, Aligned
      <4> QED BY <3>2, <3>3, <4>1, <4>2, <4>3
    <3> QED BY <2>3, <3>2, <3>3
  <2> HIDE DEF s, t
  <2>7. J(n)
    BY <2>5, <2>6 DEF t
  <2> QED BY <2>1, <2>7
<1> HIDE DEF I, J
<1>5. 0..k \subseteq I
  BY <1>3, <1>4, Induction
<1>6. k \in I /\ k # 0
  BY <1>5
<1>7. J(k)
  BY <1>6 DEF I
<1>8. a[k] \in ReadState
  OBVIOUS
<1> QED BY <1>2, <1>6, <1>7, <1>8 DEF J

----------------------------------------------------------------------------
(* The inductive invariant: the types, and a reader that stands where the  *)
(* content it owes says.                                                   *)
BufferInv ==
  /\ BufferTypeOK
  /\ reader.state # "none" => Reads(reader, due, buf)

(* Writes leave a reader on what it owes: they add to the tail, or the     *)
(* tail was started again and the reader is overtaken.                     *)
LEMMA LaterReads ==
  ASSUME NEW rd \in ReaderType, NEW d \in DueType, NEW b \in BufferType, NEW w \in BufferType,
         Later(b, w), Reads(rd, d, b)
  PROVE  Reads(rd, d, w)
<1>1. /\ rd.refills \in Nat /\ b.refills \in Nat /\ w.refills \in Nat
      /\ rd.fill \in Nat /\ b.fill \in Nat /\ w.fill \in Nat
  BY ReaderFields, BufferFields, ChunkAssumption
<1>2. rd.refills <= w.refills
  BY <1>1 DEF Later, Reads, Snapshot
<1>3. ASSUME rd.refills = w.refills
      PROVE  rd.fill <= w.fill /\ \A j \in 1..rd.fill : d.content[Volume(rd) + j] = w.tail[j]
  <2>1. rd.refills = b.refills /\ w.refills = b.refills
    BY <1>1, <1>3 DEF Later, Reads, Snapshot
  <2> QED BY <1>1, <2>1 DEF Later, Reads, Snapshot
<1>4. Snapshot(rd, d, w)
  BY <1>2, <1>3 DEF Reads, Snapshot
<1>5. Overtaken(rd, b) => Overtaken(rd, w)
  BY <1>1 DEF Later, Reads, Snapshot, Overtaken
<1> QED BY <1>4, <1>5 DEF Reads, Rests

(* Clear in the array that the cursor shares.                              *)
Wipe(rd) == [rd EXCEPT !.chunks = [i \in DOMAIN @ |-> NilSlice]]

(* A reader whose slices were emptied owes nothing that it keeps; one      *)
(* without chunks keeps all it had.                                        *)
LEMMA WipeReads ==
  ASSUME NEW rd \in ReaderType, NEW d \in DueType, NEW b \in BufferType
  PROVE  /\ Wipe(rd) \in ReaderType /\ Wipe(rd).state = rd.state
         /\ Reads(rd, d, b) => Reads(Wipe(rd), d, b)
<1>1. rd.chunks \in Seq(Chunk) \cup Seq({NilSlice}) /\ Len(rd.chunks) \in Nat
  BY ReaderFields, ChunksOrNil
<1>2. PICK n \in Nat : n = Len(rd.chunks) /\ DOMAIN rd.chunks = 1..n
  BY <1>1
<1> DEFINE nils == [i \in 1..n |-> NilSlice]
<1>3. nils \in Seq({NilSlice}) /\ Len(nils) = n
  OBVIOUS
<1>4. Wipe(rd) = [rd EXCEPT !.chunks = nils]
  BY <1>2 DEF Wipe
<1>5. n = 0 => nils = rd.chunks
  <2>1. n = 0 => nils = <<>>
    BY <1>3
  <2>2. CASE rd.chunks \in Seq(Chunk)
    <3>1. n = 0 => rd.chunks = <<>>
      BY <1>2, <2>2, EmptySeq, Zenon
    <3> QED BY <2>1, <3>1
  <2>3. CASE rd.chunks \in Seq({NilSlice})
    <3>1. n = 0 => rd.chunks = <<>>
      BY <1>2, <2>3, EmptySeq, Zenon
    <3> QED BY <2>1, <3>1
  <2> QED BY <1>1, <2>2, <2>3
<1>6. n # 0 => nils # <<>> /\ Head(nils) = NilSlice
  BY <1>3
<1> HIDE DEF nils
<1>7. Wipe(rd) \in ReaderType
  BY <1>3, <1>4 DEF ReaderType
<1>8. /\ Wipe(rd).chunks = nils /\ Wipe(rd).state = rd.state /\ Wipe(rd).fill = rd.fill
      /\ Wipe(rd).refills = rd.refills /\ Wipe(rd).to = rd.to /\ Wipe(rd).from = rd.from
      /\ Wipe(rd).rest = rd.rest
  BY <1>4 DEF ReaderType
<1>9. ASSUME Reads(rd, d, b) PROVE Reads(Wipe(rd), d, b)
  <2> DEFINE nx == Wipe(rd)
  <2>1. CASE n = 0
    <3>1. Kept(rd, nx) /\ DueKept(d, d)
      BY <1>5, <1>8, <2>1 DEF Kept, DueKept
    <3>2. /\ Volume(nx) = Volume(rd) /\ (Sound(nx, d) <=> Sound(rd, d))
          /\ (Overtaken(nx, b) <=> Overtaken(rd, b)) /\ Snapshot(nx, d, b)
      BY <1>9, <3>1, KeptFacts DEF Reads
    <3> HIDE DEF nx
    <3>3. Placed(nx, d)
      BY <1>8, <1>9, <3>2 DEF nx, Reads, Placed, Stands
    <3>4. Rests(nx, d, b)
      BY <1>8, <1>9, <3>2 DEF nx, Reads, Rests, StandsFor
    <3> QED BY <3>2, <3>3, <3>4 DEF Reads, nx
  <2>2. CASE n # 0
    <3>1. Wiped(nx)
      BY <1>6, <1>8, <2>2 DEF Wiped
    <3>2. Volume(nx) = Volume(rd)
      BY <1>2, <1>3, <1>8 DEF Volume
    <3>3. Snapshot(nx, d, b)
      BY <1>8, <1>9, <3>1, <3>2 DEF Snapshot, Reads
    <3> QED BY <3>1, <3>3 DEF Reads, Placed, Rests, Sound
  <2> QED BY <2>1, <2>2
<1> QED BY <1>7, <1>8, <1>9

(* Clear and Clone start the tail again.                                   *)
LEMMA EmptiedFacts ==
  ASSUME NEW b \in BufferType
  PROVE  Emptied(b) \in BufferType /\ Later(b, Emptied(b))
<1>1. PICK n \in Nat, m \in Nat : n = b.array + 1 /\ m = b.refills + 1
  BY BufferFields
<1>2. Emptied(b) = [b EXCEPT !.chunks = <<>>, !.cap = 0, !.array = n, !.fill = 0, !.refills = m]
  BY <1>1 DEF Emptied
<1>3. 0 \in 0..(ChunkSize - 1) /\ <<>> \in Seq(Chunk)
  BY ChunkAssumption
<1> DEFINE w == [b EXCEPT !.chunks = <<>>, !.cap = 0, !.array = n]
<1>4. w \in BufferType
  BY <1>3 DEF BufferType
<1>5. Emptied(b) = [w EXCEPT !.fill = 0, !.refills = m]
  BY <1>2
<1> HIDE DEF w
<1>6. Emptied(b) \in BufferType /\ Emptied(b).refills = m
  BY <1>3, <1>4, <1>5 DEF BufferType
<1> QED BY <1>1, <1>6, BufferFields DEF Later

(* A reader that is made, or sought in.                                    *)
LEMMA ResetReads ==
  ASSUME NEW rd \in ReaderType, rd.state = "open", NEW b \in BufferType,
         NEW from \in Int, NEW to \in 1..Size(b), NEW skewed \in BOOLEAN,
         skewed \/ rd.rest = <<>>
  PROVE  LET nx == reset(rd, b, from, to)
             d == Owes(Content(b), from, to, skewed)
         IN  nx \in ReaderType /\ d \in DueType /\ nx.state = "open" /\ Reads(nx, d, b)
<1> DEFINE nx == reset(rd, b, from, to)
           d == Owes(Content(b), from, to, skewed)
           ranged == from >= 0 /\ to > 0 /\ from < to /\ to <= Size(b)
           f == IF ranged THEN from ELSE -1
           t == IF ranged THEN to ELSE -1
<1>1. /\ b.chunks \in Seq(Chunk) /\ b.array \in Nat /\ b.fill \in 0..(ChunkSize - 1)
      /\ b.refills \in Nat /\ b.fill \in Nat
  BY BufferFields, ChunkAssumption
<1>2. /\ Content(b) \in Seq(Bytes) /\ Len(Content(b)) = Size(b) /\ Size(b) \in Nat
      /\ InChunks(b) \in Nat /\ Size(b) = InChunks(b) + b.fill
      /\ \A k \in 1..Len(b.chunks) : \A j \in 1..ChunkSize :
           Content(b)[(k - 1) * ChunkSize + j] = b.chunks[k][j]
      /\ \A j \in 1..b.fill : Content(b)[InChunks(b) + j] = b.tail[j]
  BY ContentFacts
<1>3. to \in Int /\ 1 <= to /\ to <= Size(b)
  BY <1>2
<1>4. /\ d \in DueType /\ d.content = Content(b) /\ d.from = from /\ d.at = from
      /\ d.to = to /\ d.skewed = skewed /\ d.wrong = FALSE /\ d.ended = FALSE
  <2>1. Content(b) \in Seq(Bytes) /\ to \in Int
    BY <1>2, <1>3
  <2>2. d = Owes(Content(b), from, to, skewed)
    OBVIOUS
  <2> HIDE DEF d
  <2>3. PICK c \in Seq(Bytes) : c = Content(b)
    BY <2>1
  <2>4. d \in DueType
    BY <2>1, <2>2, <2>3 DEF Owes, DueType
  <2>5. d.content = Content(b) /\ d.from = from /\ d.at = from /\ d.to = to
    BY <2>2 DEF Owes
  <2>6. d.skewed = skewed
    BY <2>2, Zenon DEF Owes
  <2>7. d.wrong = FALSE /\ d.ended = FALSE
    BY <2>2 DEF Owes
  <2> QED BY <2>4, <2>5, <2>6, <2>7, Zenon
<1>5. f \in Int /\ t \in Int /\ (ranged <=> from >= 0 /\ from < to)
  BY <1>3
<1>6. nx = [rd EXCEPT !.chunks = b.chunks, !.array = b.array, !.fill = b.fill,
                    !.refills = b.refills, !.cur = -1, !.from = f, !.to = t]
  BY Zenon DEF reset
<1> HIDE DEF d, f, t
<1>7. nx \in ReaderType /\ nx.state = "open" /\ nx.rest = rd.rest /\ nx.chunks = b.chunks
      /\ nx.fill = b.fill /\ nx.refills = b.refills /\ nx.from = f /\ nx.to = t
  <2> DEFINE p == [rd EXCEPT !.chunks = b.chunks, !.array = b.array, !.fill = b.fill]
  <2>1. /\ p \in ReaderType /\ p.chunks = b.chunks /\ p.fill = b.fill /\ p.rest = rd.rest
        /\ p.state = "open"
    BY <1>1 DEF ReaderType
  <2>2. nx = [p EXCEPT !.refills = b.refills, !.cur = -1, !.from = f, !.to = t]
    BY <1>6
  <2> HIDE DEF p, nx
  <2> DEFINE u == [p EXCEPT !.refills = b.refills, !.cur = -1]
  <2>3. /\ u \in ReaderType /\ u.chunks = b.chunks /\ u.fill = b.fill /\ u.rest = rd.rest
        /\ u.state = "open" /\ u.refills = b.refills
    <3>1. PICK m \in Nat, c \in Int : m = b.refills /\ c = -1
      BY <1>1
    <3>2. u = [p EXCEPT !.refills = m, !.cur = c]
      BY <3>1
    <3> HIDE DEF u
    <3>3. u \in ReaderType
      BY <2>1, <3>2 DEF ReaderType
    <3>4. /\ u.chunks = p.chunks /\ u.fill = p.fill /\ u.rest = p.rest
          /\ u.state = p.state /\ u.refills = m
      BY <2>1, <3>2 DEF ReaderType
    <3> QED BY <2>1, <3>1, <3>3, <3>4
  <2>4. nx = [u EXCEPT !.from = f, !.to = t]
    BY <2>2
  <2> HIDE DEF u
  <2> QED BY <1>5, <2>3, <2>4 DEF ReaderType
<1> HIDE DEF nx
<1>8. Volume(nx) = InChunks(b)
  BY <1>7 DEF Volume, InChunks
<1>9. Snapshot(nx, d, b)
  BY <1>1, <1>2, <1>3, <1>4, <1>7, <1>8 DEF Snapshot
<1>10. Placed(nx, d)
  <2>1. CASE ranged
    <3>1. nx.from = d.from /\ nx.to = d.to /\ nx.from \in 0..d.to
      BY <1>3, <1>4, <1>5, <1>7, <2>1 DEF f, t
    <3> QED BY <1>7, <3>1 DEF Placed, Stands, Sound, Aligned, Volume
  <2>2. CASE ~ranged
    BY <1>7, <2>2 DEF Placed, f
  <2> QED BY <2>1, <2>2
<1>11. ASSUME ~d.skewed, d.from \in 0..d.to
       PROVE  /\ d.at \in 0..d.to
              /\ nx.from = -1 => nx.rest = <<>> /\ d.at = d.to
              /\ nx.from >= 0 => d.at + Len(nx.rest) = nx.from
              /\ nx.rest = <<>> /\ ~d.ended /\ ~d.wrong
  <2>1. nx.rest = <<>> /\ Len(nx.rest) = 0
    BY <1>4, <1>7, <1>11
  <2>2. from \in 0..to /\ d.at = from /\ d.to = to
    BY <1>4, <1>11
  <2>3. CASE ranged
    BY <1>3, <1>4, <1>7, <2>1, <2>2, <2>3 DEF f
  <2>4. CASE ~ranged
    BY <1>3, <1>4, <1>5, <1>7, <2>1, <2>2, <2>4 DEF f
  <2> QED BY <2>3, <2>4
<1>12. Rests(nx, d, b)
  <2>1. \A s : s = <<>> => 1..Len(s) = {}
    OBVIOUS
  <2> QED BY <1>11, <2>1 DEF Rests
<1> QED BY <1>4, <1>7, <1>9, <1>10, <1>12 DEF Reads, nx, d

(* The inductive invariant holds at first.                                 *)
LEMMA BufferInitInv ==
  ASSUME BufferInit
  PROVE  BufferInv
<1>1. 0 \in 0..(ChunkSize - 1) /\ [i \in 1..ChunkSize |-> Zero] \in Chunk
  BY ChunkAssumption DEF Chunk, Bytes
<1>2. buf \in BufferType
  BY <1>1 DEF BufferInit, NewBuffer, BufferType
<1>3. reader \in ReaderType
  BY <1>1 DEF BufferInit, NoReader, ReaderType
<1>4. due \in DueType
  BY DEF BufferInit, NothingDue, Owes, DueType
<1>5. written \in 0..MaxWritten /\ reader.state = "none"
  BY BoundAssumption DEF BufferInit, NoReader
<1> QED BY <1>2, <1>3, <1>4, <1>5 DEF BufferInv, BufferTypeOK

(* The type of a reader that is closed.                                    *)
LEMMA NoReaderType ==
  NoReader \in ReaderType /\ NoReader.state = "none" /\ NoReader.rest = <<>>
<1>1. 0 \in 0..(ChunkSize - 1)
  BY ChunkAssumption
<1> QED BY <1>1 DEF NoReader, ReaderType

(* The type of nothing owed.                                               *)
LEMMA NothingDueType ==
  NothingDue \in DueType
  BY DEF NothingDue, Owes, DueType

(* Write keeps the inductive invariant.                                    *)
LEMMA WriteInv ==
  ASSUME BufferInv, NEW p \in BoundedSeq(Byte, MaxPush), Write(p)
  PROVE  BufferInv'
<1>1. /\ buf \in BufferType /\ reader \in ReaderType /\ due \in DueType
      /\ written \in 0..MaxWritten
  BY DEF BufferInv, BufferTypeOK
<1>2. p \in Seq(Byte)
  <2>1. PICK m \in 0..MaxPush : p \in [1..m -> Byte]
    BY DEF BoundedSeq, SeqOf
  <2>2. m \in Nat
    BY BoundAssumption
  <2> QED BY <2>1, <2>2
<1>3. p \in Seq(Bytes) /\ Len(p) \in Nat
  BY <1>2 DEF Bytes
<1>4. buf' \in BufferType /\ Later(buf, buf')
  BY <1>1, <1>3, WriteFacts DEF Write
<1>5. reader' = reader /\ due' = due /\ written' \in 0..MaxWritten
  BY <1>1, <1>3, BoundAssumption DEF Write
<1>6. reader.state # "none" => Reads(reader, due, buf')
  BY <1>1, <1>4, LaterReads DEF BufferInv
<1> QED BY <1>1, <1>4, <1>5, <1>6 DEF BufferInv, BufferTypeOK

(* Reader keeps it.                                                        *)
LEMMA MakeReaderInv ==
  ASSUME BufferInv, NEW to \in 1..Size(buf), NEW from \in 0..(to - 1), Reader(from, to)
  PROVE  BufferInv'
<1>1. /\ buf \in BufferType /\ reader \in ReaderType /\ due \in DueType
      /\ written \in 0..MaxWritten
  BY DEF BufferInv, BufferTypeOK
<1> DEFINE rd == [NoReader EXCEPT !.state = "open"]
<1>2. rd \in ReaderType /\ rd.state = "open" /\ rd.rest = <<>>
  BY NoReaderType DEF ReaderType
<1> HIDE DEF rd
<1>3. from \in Int /\ FALSE \in BOOLEAN
  BY <1>1, ContentFacts
<1>4. /\ reset(rd, buf, from, to) \in ReaderType
      /\ Owes(Content(buf), from, to, FALSE) \in DueType
      /\ Reads(reset(rd, buf, from, to), Owes(Content(buf), from, to, FALSE), buf)
  BY <1>1, <1>2, <1>3, ResetReads
<1>5. /\ reader' = reset(rd, buf, from, to) /\ due' = Owes(Content(buf), from, to, FALSE)
      /\ buf' = buf /\ written' = written
  BY DEF Reader, rd
<1> QED BY <1>1, <1>4, <1>5 DEF BufferInv, BufferTypeOK

(* Read keeps it.                                                          *)
LEMMA ReadInv ==
  ASSUME BufferInv, NEW k \in 1..MaxRead, Read(k)
  PROVE  BufferInv'
<1>1. /\ buf \in BufferType /\ reader \in ReaderType /\ due \in DueType
      /\ written \in 0..MaxWritten
  BY DEF BufferInv, BufferTypeOK
<1>2. k \in Nat /\ k > 0
  BY BoundAssumption
<1>3. reader.state = "open" /\ reader.state # "none" /\ Reads(reader, due, buf)
  BY DEF Read, BufferInv
<1> DEFINE done == ReadUpTo(reader, due, buf, k)
           e == IF done.r.state = "open" /\ done.n = 0
                THEN [done.d EXCEPT !.ended = TRUE] ELSE done.d
<1>4. /\ done \in ReadState /\ done.r.state # "none" /\ Reads(done.r, done.d, buf)
      /\ /\ Sound(done.r, done.d) /\ ~done.d.skewed /\ done.d.from \in 0..done.d.to
         /\ done.n = 0
         => done.d.at = done.d.to
  BY <1>1, <1>2, <1>3, ReadFacts
<1>5. reader' = done.r /\ due' = e /\ buf' = buf /\ written' = written
  BY DEF Read
<1> HIDE DEF done, e
<1>6. done.r \in ReaderType /\ done.d \in DueType
  BY <1>4 DEF ReadState
<1>7. e \in DueType /\ Reads(done.r, e, buf)
  <2>1. CASE ~(done.r.state = "open" /\ done.n = 0)
    BY <1>4, <1>6, <2>1 DEF e
  <2>2. CASE done.r.state = "open" /\ done.n = 0
    <3>1. e = [done.d EXCEPT !.ended = TRUE]
      BY <2>2 DEF e
    <3>2. /\ e \in DueType /\ DueKept(done.d, e) /\ e.at = done.d.at
          /\ e.wrong = done.d.wrong
      BY <1>6, <3>1 DEF DueType, DueKept
    <3>3. Kept(done.r, done.r)
      BY DEF Kept
    <3>4. Snapshot(done.r, e, buf) /\ (Sound(done.r, e) <=> Sound(done.r, done.d))
      BY <1>4, <3>2, <3>3, KeptFacts DEF Reads
    <3>5. Placed(done.r, e)
      BY <1>4, <3>2, <3>4 DEF Reads, Placed, Stands, DueKept
    <3>6. Rests(done.r, e, buf)
      <4>1. Rests(done.r, done.d, buf)
        BY <1>4 DEF Reads
      <4>2. SUFFICES ASSUME Sound(done.r, e), ~e.skewed, e.from \in 0..e.to
                     PROVE  /\ e.at \in 0..e.to
                            /\ done.r.from = -1 => done.r.rest = <<>> /\ e.at = e.to
                            /\ done.r.from >= 0 => e.at + Len(done.r.rest) = done.r.from
                            /\ \A i \in 1..Len(done.r.rest) :
                                 StandsFor(done.r.rest[i], e.at + i - 1, done.r, e)
                            /\ e.ended => e.at = e.to
                            /\ ~Overtaken(done.r, buf) => ~e.wrong
        BY Zenon DEF Rests
      <4>3. Sound(done.r, done.d) /\ ~done.d.skewed /\ done.d.from \in 0..done.d.to
        BY <3>2, <3>4, <4>2 DEF DueKept
      <4>4. e.at = e.to
        BY <1>4, <2>2, <3>2, <4>3 DEF DueKept
      <4>5. \A cell, n : StandsFor(cell, n, done.r, done.d) => StandsFor(cell, n, done.r, e)
        BY <3>2 DEF DueKept, StandsFor
      <4> QED BY <3>2, <4>1, <4>3, <4>4, <4>5 DEF Rests, DueKept
    <3> QED BY <3>2, <3>4, <3>5, <3>6 DEF Reads
  <2> QED BY <2>1, <2>2
<1> QED BY <1>1, <1>4, <1>5, <1>6, <1>7 DEF BufferInv, BufferTypeOK

(* Seek keeps it, whatever whence and offset are.                          *)
LEMMA SeekInv ==
  ASSUME BufferInv, NEW whence \in {"start", "current", "end"}, NEW offset \in Int,
         Seek(whence, offset)
  PROVE  BufferInv'
<1>1. /\ buf \in BufferType /\ reader \in ReaderType /\ due \in DueType
      /\ written \in 0..MaxWritten
  BY DEF BufferInv, BufferTypeOK
<1>2. Size(buf) \in Nat /\ reader.cur \in Int /\ reader.taken \in Nat /\ reader.rest \in Seq(Cell)
  BY <1>1, ContentFacts, ReaderFields
<1> DEFINE n == SeekTo(reader, buf, whence, offset)
           skewed == reader.rest # <<>>
<1>3. n \in Int
  <2>1. CASE whence = "start"
    BY <2>1 DEF SeekTo
  <2>2. CASE whence = "current"
    BY <1>2, <2>2 DEF SeekTo
  <2>3. CASE whence = "end"
    BY <1>2, <2>3 DEF SeekTo
  <2> QED BY <2>1, <2>2, <2>3
<1>4. reader.state = "open" /\ Size(buf) \in 1..Size(buf)
  BY <1>2 DEF Seek
<1>5. /\ reader' = reset(reader, buf, n, Size(buf))
      /\ due' = Owes(Content(buf), n, Size(buf), skewed)
      /\ buf' = buf /\ written' = written
  BY DEF Seek
<1>6. skewed \in BOOLEAN /\ (skewed \/ reader.rest = <<>>)
  OBVIOUS
<1> HIDE DEF n, skewed
<1>7. /\ reset(reader, buf, n, Size(buf)) \in ReaderType
      /\ Owes(Content(buf), n, Size(buf), skewed) \in DueType
      /\ Reads(reset(reader, buf, n, Size(buf)), Owes(Content(buf), n, Size(buf), skewed), buf)
  BY <1>1, <1>3, <1>4, <1>6, ResetReads
<1> QED BY <1>1, <1>5, <1>7 DEF BufferInv, BufferTypeOK

(* Clear and Clone(true) keep it.                                          *)
LEMMA ClearInv ==
  ASSUME BufferInv, Clear \/ CloneAndClear
  PROVE  BufferInv'
<1>1. /\ buf \in BufferType /\ reader \in ReaderType /\ due \in DueType
      /\ written \in 0..MaxWritten
  BY DEF BufferInv, BufferTypeOK
<1>2. buf' = Emptied(buf) /\ due' = due /\ written' = written
      /\ (reader' = reader \/ reader' = Wipe(reader))
  BY DEF Clear, CloneAndClear, Wipe
<1>3. buf' \in BufferType /\ Later(buf, buf')
  BY <1>1, <1>2, EmptiedFacts
<1>4. reader.state # "none" => Reads(reader, due, buf')
  BY <1>1, <1>3, LaterReads DEF BufferInv
<1>5. /\ Wipe(reader) \in ReaderType /\ Wipe(reader).state = reader.state
      /\ Reads(reader, due, buf') => Reads(Wipe(reader), due, buf')
  BY <1>1, <1>3, WipeReads
<1>6. reader' \in ReaderType /\ (reader'.state # "none" => Reads(reader', due, buf'))
  BY <1>1, <1>2, <1>4, <1>5
<1> QED BY <1>1, <1>2, <1>3, <1>6 DEF BufferInv, BufferTypeOK

(* The types, and a reader that stands where the content it owes says,     *)
(* hold in every state of the buffer of ioext/buffer.go, for every size of *)
(* a chunk and every number of bytes.                                      *)
THEOREM BufferInvariant == BufferSpec => []BufferInv
<1>1. BufferInit => BufferInv
  BY BufferInitInv
<1>2. BufferInv /\ [BufferNext]_bufferVars => BufferInv'
  <2> SUFFICES ASSUME BufferInv, [BufferNext]_bufferVars PROVE BufferInv'
    OBVIOUS
  <2>1. ASSUME NEW p \in BoundedSeq(Byte, MaxPush) \ {<<>>}, Write(p) PROVE BufferInv'
    BY <2>1, WriteInv
  <2>2. ASSUME NEW to \in 1..Size(buf), NEW from \in 0..(to - 1), Reader(from, to)
        PROVE  BufferInv'
    BY <2>2, MakeReaderInv
  <2>3. ASSUME NEW k \in 1..MaxRead, Read(k) PROVE BufferInv'
    BY <2>3, ReadInv
  <2>4. ASSUME NEW offset \in 0..Size(buf), Seek("start", offset) \/ Seek("end", offset)
        PROVE  BufferInv'
    <3>1. offset \in Int
      OBVIOUS
    <3> QED BY <2>4, <3>1, SeekInv
  <2>5. ASSUME NEW offset \in -1..1, Seek("current", offset) PROVE BufferInv'
    <3>1. offset \in Int
      OBVIOUS
    <3> QED BY <2>5, <3>1, SeekInv
  <2>6. ASSUME CloseReader PROVE BufferInv'
    BY <2>6, NoReaderType, NothingDueType DEF CloseReader, BufferInv, BufferTypeOK
  <2>7. ASSUME Clear \/ CloneAndClear PROVE BufferInv'
    BY <2>7, ClearInv
  <2>8. ASSUME UNCHANGED bufferVars PROVE BufferInv'
    BY <2>8 DEF bufferVars, BufferInv, BufferTypeOK
  <2> QED BY <2>1, <2>2, <2>3, <2>4, <2>5, <2>6, <2>7, <2>8 DEF BufferNext
<1> QED BY <1>1, <1>2, PTL DEF BufferSpec

(* The buffer, its reader and what is owed keep their types: the tail is   *)
(* never full between two calls, and no cell refers beyond it.             *)
THEOREM BufferTypeCorrect == BufferSpec => []BufferTypeOK
<1>1. BufferInv => BufferTypeOK
  BY DEF BufferInv
<1> QED BY <1>1, BufferInvariant, PTL

(* A Read panics or turns for ever (nextBytes, Read of bufferCursor and    *)
(* BuffReader) only over slices that Clear emptied or with a range that is *)
(* not aligned; never because the owner wrote on or moved the buffer into  *)
(* a clone.                                                                *)
THEOREM StopsHaveCause == BufferSpec => []StopsNeedCause
<1>1. BufferInv => StopsNeedCause
  BY DEF BufferInv, StopsNeedCause, Reads, Placed, Sound
<1> QED BY <1>1, BufferInvariant, PTL

(* BuffReader.Read delivers the bytes the buffer held when the reader was  *)
(* made or sought in, in order and all before it ends, unless the tail was *)
(* started again, Clear emptied its slices, Seek left fetched bytes, or    *)
(* its range is not aligned.                                               *)
THEOREM ReaderDeliversWhatItOwes == BufferSpec => []ReaderDelivers
<1>1. BufferInv => ReaderDelivers
  BY DEF BufferInv, ReaderDelivers, Reads, Rests, Sound
<1> QED BY <1>1, BufferInvariant, PTL

----------------------------------------------------------------------------
(* The searches.                                                           *)

ScanState(t) ==
  [i : 0..(Len(t) - 1), prv : Bytes, off : Int, dne : BOOLEAN, stop : BOOLEAN]

(* The types of the fields of a scan.                                      *)
LEMMA ScanFields ==
  ASSUME NEW t, NEW s \in ScanState(t)
  PROVE  /\ s.i \in 0..(Len(t) - 1) /\ s.prv \in Bytes /\ s.off \in Int
         /\ s.dne \in BOOLEAN /\ s.stop \in BOOLEAN
  BY DEF ScanState

(* A scan before its first byte.                                           *)
LEMMA NoScanState ==
  ASSUME NEW t \in Seq(Bytes), t # <<>>
  PROVE  /\ NoScan \in ScanState(t) /\ NoScan.i = 0 /\ NoScan.off = -1
         /\ ~NoScan.dne /\ ~NoScan.stop
<1>1. 0 \in 0..(Len(t) - 1) /\ -1 \in Int
  OBVIOUS
<1> QED BY <1>1 DEF NoScan, ScanState, Bytes

(* t stands in c after the first off bytes.                                *)
At(t, c, off) ==
  /\ off \in Nat /\ off + Len(t) <= Len(c)
  /\ \A j \in 1..Len(t) : c[off + j] = t[j]

(* An occurrence, byte by byte.                                            *)
LEMMA OccursAt ==
  ASSUME NEW t \in Seq(Bytes), NEW c \in Seq(Bytes), NEW off \in Int
  PROVE  Occurs(t, c, off) <=> At(t, c, off)
<1>1. PICK m \in Nat, n \in Nat : m = Len(t) /\ n = Len(c)
  OBVIOUS
<1>2. off \in 0..(n - m) <=> off \in Nat /\ off + m <= n
  OBVIOUS
<1>3. ASSUME off \in Nat, off + m <= n
      PROVE  SubSeq(c, off + 1, off + m) = t <=> \A j \in 1..m : c[off + j] = t[j]
  <2> DEFINE u == SubSeq(c, off + 1, off + m)
  <2>1. u = [j \in 1..m |-> c[off + j]]
    <3>1. u = [j \in 1..(off + m - (off + 1) + 1) |-> c[j + (off + 1) - 1]]
      BY <1>1, <1>3
    <3>2. off + m - (off + 1) + 1 = m /\ \A j \in 1..m : j + (off + 1) - 1 = off + j
      BY <1>3
    <3> HIDE DEF u
    <3> QED BY <3>1, <3>2
  <2>2. t = [j \in 1..m |-> t[j]]
    BY <1>1
  <2> HIDE DEF u
  <2>3. (u = t) => \A j \in 1..m : c[off + j] = t[j]
    BY <2>1
  <2>4. (\A j \in 1..m : c[off + j] = t[j]) => u = t
    BY <2>1, <2>2
  <2> QED BY <2>3, <2>4 DEF u
<1> QED BY <1>1, <1>2, <1>3 DEF Occurs, At

(* The offsets of t in c, byte by byte.                                    *)
LEMMA Offset ==
  ASSUME NEW t \in Seq(Bytes), NEW c \in Seq(Bytes), NEW off
  PROVE  off \in Offsets(t, c) <=> At(t, c, off)
<1>1. off \in 0..Len(c) => off \in Int
  OBVIOUS
<1>2. At(t, c, off) => off \in 0..Len(c)
  BY DEF At
<1> QED BY <1>1, <1>2, OccursAt DEF Offsets

----------------------------------------------------------------------------
(* The scan from the start.                                                *)

(* A step of the scan from the start keeps its type.                       *)
LEMMA AnchoredStep ==
  ASSUME NEW t \in Seq(Bytes), t # <<>>, NEW s \in ScanState(t), NEW x
  PROVE  ScanAnchored(t, s, x) \in ScanState(t)
<1>1. s.i \in 0..(Len(t) - 1) /\ Len(t) \in Nat
  BY ScanFields
<1>2. ASSUME s.i + 1 < Len(t) PROVE [s EXCEPT !.i = @ + 1] \in ScanState(t)
  <2>1. PICK n \in 0..(Len(t) - 1) : n = s.i + 1
    BY <1>1, <1>2
  <2> QED BY <2>1 DEF ScanState
<1>3. /\ [s EXCEPT !.stop = TRUE] \in ScanState(t)
      /\ [s EXCEPT !.dne = TRUE, !.stop = TRUE] \in ScanState(t)
  BY DEF ScanState
<1> QED BY <1>2, <1>3 DEF ScanAnchored

AnchoredRuns(a, c, t) ==
  /\ a[0] = NoScan
  /\ \A n \in 1..Len(c) : a[n] = ScanAnchored(t, a[n - 1], c[n])
  /\ Anchored(c, t) = a[Len(c)]

(* Anchored is a loop over ScanAnchored.                                   *)
LEMMA AnchoredLoop ==
  ASSUME NEW t \in Seq(Bytes), t # <<>>, NEW c \in Seq(Bytes)
  PROVE  \E a \in [0..Len(c) -> ScanState(t)] : AnchoredRuns(a, c, t)
<1>1. PICK m \in Nat : m = Len(c)
  OBVIOUS
<1> DEFINE T == ScanState(t)
           g == [n \in 1..m |-> [s \in T |-> ScanAnchored(t, s, c[n])]]
<1>2. NoScan \in T
  BY NoScanState
<1>3. g \in [1..m -> [T -> T]]
  BY AnchoredStep
<1>4. \A n \in 1..m : \A s \in T : g[n][s] = ScanAnchored(t, s, c[n])
  OBVIOUS
<1> HIDE DEF g, T
<1>5. PICK s \in [0..m -> T] : Runs(s, NoScan, g, m, T)
  BY <1>2, <1>3, LoopExists
<1>6. /\ s[0] = NoScan
      /\ \A n \in 1..m : n - 1 \in 0..m /\ s[n] = ScanAnchored(t, s[n - 1], c[n])
  BY <1>4, <1>5 DEF Runs, Loop
<1> DEFINE Is(h) == h = [n \in 0..m |-> IF n = 0 THEN NoScan
                                       ELSE ScanAnchored(t, h[n - 1], c[n])]
           a == CHOOSE h : Is(h)
<1>7. Is(s)
  BY <1>6
<1>8. Is(a)
  BY <1>7, Zenon
<1>9. Anchored(c, t) = a[m]
  BY <1>1, Zenon DEF Anchored
<1> HIDE DEF a
<1>10. Follows(a, NoScan, g, m, T)
  BY <1>4, <1>8 DEF Follows
<1>11. \A n \in 0..m : a[n] = s[n]
  BY <1>5, <1>10, LoopUnique
<1>12. AnchoredRuns(s, c, t)
  BY <1>1, <1>6, <1>9, <1>11 DEF AnchoredRuns
<1> QED BY <1>1, <1>5, <1>12, Zenon DEF T

(* The scan says at its end whether t begins c.                            *)
LEMMA AnchoredExact ==
  ASSUME NEW t \in Seq(Bytes), t # <<>>, NEW c \in Seq(Bytes)
  PROVE  Anchored(c, t).dne <=> At(t, c, 0)
<1>1. PICK m \in Nat, k \in Nat : m = Len(t) /\ k = Len(c) /\ m > 0
  OBVIOUS
<1>2. PICK a \in [0..Len(c) -> ScanState(t)] : AnchoredRuns(a, c, t)
  BY AnchoredLoop, Zenon
<1>3. /\ a[0] = NoScan /\ \A n \in 1..k : a[n] = ScanAnchored(t, a[n - 1], c[n])
      /\ Anchored(c, t) = a[k]
  BY <1>1, <1>2 DEF AnchoredRuns
<1> DEFINE Going(s, n) == ~s.stop /\ ~s.dne /\ s.i = n /\ n < m /\ \A j \in 1..n : t[j] = c[j]
           Found1(s, n) == s.stop /\ s.dne /\ m <= n /\ \A j \in 1..m : t[j] = c[j]
           Failed(s) == s.stop /\ ~s.dne /\ \E j \in 1..m : j <= k /\ t[j] # c[j]
           J(s, n) == Going(s, n) \/ Found1(s, n) \/ Failed(s)
           I == {n \in 0..k : J(a[n], n)}
<1>4. 0 \in I
  <2>1. Going(a[0], 0)
    BY <1>1, <1>3, NoScanState
  <2> QED BY <2>1
<1>5. ASSUME NEW n \in 1..k, n - 1 \in I
      PROVE  n \in I
  <2> DEFINE s == a[n - 1]
             e == a[n]
  <2>1. /\ n \in 0..k /\ n - 1 \in 0..k /\ s \in ScanState(t)
        /\ e = ScanAnchored(t, s, c[n])
    BY <1>1, <1>3, SMTT(40)
  <2>2. s.i \in 0..(m - 1) /\ s.stop \in BOOLEAN /\ s.dne \in BOOLEAN
    BY <1>1, <2>1, ScanFields
  <2>3. J(s, n - 1)
    BY <1>5
  <2> HIDE DEF s, e
  <2>4. J(e, n)
    <3>1. CASE s.stop
      <4>1. e = s
        BY <2>1, <3>1 DEF ScanAnchored
      <4> QED BY <2>3, <3>1, <4>1
    <3>2. CASE ~s.stop
      <4>1. Going(s, n - 1)
        BY <2>3, <3>2
      <4>2. s.i + 1 = n /\ n <= m
        BY <1>1, <4>1
      <4>3. CASE t[n] # c[n]
        <5>1. e = [s EXCEPT !.stop = TRUE]
          BY <2>1, <3>2, <4>2, <4>3 DEF ScanAnchored
        <5>2. e.stop = TRUE /\ e.dne = s.dne
          BY <2>1, <5>1 DEF ScanState
        <5>3. Failed(e)
          BY <4>1, <4>2, <4>3, <5>2
        <5> QED BY <5>3
      <4>4. CASE t[n] = c[n] /\ n < m
        <5>1. e = [s EXCEPT !.i = s.i + 1]
          BY <1>1, <2>1, <3>2, <4>2, <4>4 DEF ScanAnchored
        <5>2. e.stop = s.stop /\ e.dne = s.dne /\ e.i = s.i + 1
          BY <2>1, <5>1 DEF ScanState
        <5>3. \A j \in 1..n : t[j] = c[j]
          BY <4>1, <4>4
        <5>4. Going(e, n)
          BY <3>2, <4>1, <4>2, <4>4, <5>2, <5>3
        <5> QED BY <5>4
      <4>5. CASE t[n] = c[n] /\ ~(n < m)
        <5>1. e = [s EXCEPT !.dne = TRUE, !.stop = TRUE]
          BY <1>1, <2>1, <3>2, <4>2, <4>5 DEF ScanAnchored
        <5>2. e.stop = TRUE /\ e.dne = TRUE
          BY <2>1, <5>1 DEF ScanState
        <5>3. n = m /\ \A j \in 1..m : t[j] = c[j]
          BY <4>1, <4>2, <4>5
        <5> QED BY <5>2, <5>3
      <4> QED BY <4>3, <4>4, <4>5
    <3> QED BY <3>1, <3>2
  <2> QED BY <2>1, <2>4 DEF e
<1> HIDE DEF I, J
<1>6. 0..k \subseteq I
  BY <1>4, <1>5, Induction
<1>7. J(a[k], k)
  BY <1>6 DEF I
<1>8. At(t, c, 0) <=> m <= k /\ \A j \in 1..m : c[j] = t[j]
  BY <1>1 DEF At
<1> QED BY <1>1, <1>3, <1>7, <1>8 DEF J

----------------------------------------------------------------------------
(* The scan forwards.                                                      *)

(* A step of the scan forwards keeps its type.                             *)
LEMMA ForwardStep ==
  ASSUME NEW t \in Seq(Bytes), t # <<>>, NEW s \in ScanState(t), NEW x \in Bytes, NEW off \in Int
  PROVE  ScanForward(t, s, x, off) \in ScanState(t)
<1>1. s.i \in 0..(Len(t) - 1) /\ Len(t) \in Nat
  BY ScanFields
<1> DEFINE i == IF s.i > 0 /\ t[s.i] = s.prv /\ t[s.i + 1] # x THEN 0 ELSE s.i
<1>2. i \in 0..(Len(t) - 1)
  BY <1>1
<1>3. ScanForward(t, s, x, off) =
        IF s.stop THEN s
        ELSE IF t[i + 1] # x THEN [s EXCEPT !.i = 0, !.prv = x]
        ELSE IF i + 1 < Len(t) THEN [s EXCEPT !.i = i + 1, !.prv = x]
        ELSE [s EXCEPT !.off = off - Len(t), !.dne = TRUE, !.stop = TRUE]
  BY Zenon DEF ScanForward
<1> HIDE DEF i
<1>4. ASSUME NEW n \in 0..(Len(t) - 1) PROVE [s EXCEPT !.i = n, !.prv = x] \in ScanState(t)
  BY DEF ScanState
<1>5. ASSUME NEW o \in Int
      PROVE  [s EXCEPT !.off = o, !.dne = TRUE, !.stop = TRUE] \in ScanState(t)
  BY DEF ScanState
<1>6. off - Len(t) \in Int /\ 0 \in 0..(Len(t) - 1)
      /\ (i + 1 < Len(t) => i + 1 \in 0..(Len(t) - 1))
  BY <1>1, <1>2
<1> QED BY <1>3, <1>4, <1>5, <1>6

ForwardRuns(a, c, t) ==
  /\ a[0] = NoScan
  /\ \A n \in 1..Len(c) : a[n] = ScanForward(t, a[n - 1], c[n], n - 1)
  /\ Forward(c, t) = a[Len(c)]

(* Forward is a loop over ScanForward.                                     *)
LEMMA ForwardLoop ==
  ASSUME NEW t \in Seq(Bytes), t # <<>>, NEW c \in Seq(Bytes)
  PROVE  \E a \in [0..Len(c) -> ScanState(t)] : ForwardRuns(a, c, t)
<1>1. PICK m \in Nat : m = Len(c)
  OBVIOUS
<1>2. \A n \in 1..m : c[n] \in Bytes /\ n - 1 \in Int
  BY <1>1
<1> DEFINE T == ScanState(t)
           g == [n \in 1..m |-> [s \in T |-> ScanForward(t, s, c[n], n - 1)]]
<1>3. NoScan \in T
  BY NoScanState
<1>4. g \in [1..m -> [T -> T]]
  BY <1>2, ForwardStep
<1>5. \A n \in 1..m : \A s \in T : g[n][s] = ScanForward(t, s, c[n], n - 1)
  OBVIOUS
<1> HIDE DEF g, T
<1>6. PICK s \in [0..m -> T] : Runs(s, NoScan, g, m, T)
  BY <1>3, <1>4, LoopExists
<1>7. /\ s[0] = NoScan
      /\ \A n \in 1..m : n - 1 \in 0..m /\ s[n] = ScanForward(t, s[n - 1], c[n], n - 1)
  BY <1>5, <1>6 DEF Runs, Loop
<1> DEFINE Is(h) == h = [n \in 0..m |-> IF n = 0 THEN NoScan
                                       ELSE ScanForward(t, h[n - 1], c[n], n - 1)]
           a == CHOOSE h : Is(h)
<1>8. Is(s)
  BY <1>7
<1>9. Is(a)
  BY <1>8, Zenon
<1>10. Forward(c, t) = a[m]
  BY <1>1, Zenon DEF Forward
<1> HIDE DEF a
<1>11. Follows(a, NoScan, g, m, T)
  <2>1. a[0] = NoScan /\ \A n \in 1..m : a[n] = ScanForward(t, a[n - 1], c[n], n - 1)
    BY <1>9
  <2> HIDE DEF Is
  <2> QED BY <1>5, <2>1 DEF Follows
<1>12. \A n \in 0..m : a[n] = s[n]
  BY <1>6, <1>11, LoopUnique
<1>13. ForwardRuns(s, c, t)
  BY <1>1, <1>7, <1>10, <1>12 DEF ForwardRuns
<1> QED BY <1>1, <1>6, <1>13, Zenon DEF T

(* The last i of the first n bytes of c are the first i of t.              *)
Partial(t, c, n, i) ==
  i \in 0..(Len(t) - 1) /\ i <= n /\ \A j \in 1..i : c[(n - i) + j] = t[j]

(* A byte that breaks a partial match leaves no match begun within it.     *)
LEMMA Restart ==
  ASSUME NEW t \in Seq(Bytes), NEW c \in Seq(Bytes), NEW n \in Nat, NEW i \in Nat,
         Partial(t, c, n, i), t[i + 1] # c[n + 1], HeadUnique(t),
         NEW o, At(t, c, o), n - i <= o
  PROVE  n <= o
<1>1. PICK m \in Nat : m = Len(t) /\ i < m /\ i <= n
  BY DEF Partial
<1>2. o \in Nat
  BY DEF At
<1>3. SUFFICES ASSUME o < n PROVE FALSE
  BY <1>2
<1>4. CASE o = n - i
  <2>1. i + 1 \in 1..Len(t) /\ o + (i + 1) = n + 1
    BY <1>1, <1>2, <1>4
  <2>2. c[o + (i + 1)] = t[i + 1]
    BY <2>1 DEF At
  <2> QED BY <2>1, <2>2
<1>5. CASE o # n - i
  <2>1. PICK l \in Nat : l = o - (n - i) /\ l + 1 \in 1..i /\ l + 1 \in 2..Len(t)
    BY <1>1, <1>2, <1>3, <1>5, SMTT(40)
  <2>2. (n - i) + (l + 1) = o + 1 /\ 1 \in 1..Len(t)
    BY <1>1, <1>2, <2>1
  <2>3. c[(n - i) + (l + 1)] = t[l + 1]
    BY <2>1 DEF Partial
  <2>4. c[o + 1] = t[1]
    BY <2>2 DEF At
  <2>5. t[l + 1] # t[1]
    BY <2>1 DEF HeadUnique
  <2> QED BY <2>2, <2>3, <2>4, <2>5
<1> QED BY <1>4, <1>5

(* No match begins before offset lim, as far as the scan is exact.         *)
NoneBefore(t, c, lim) == HeadUnique(t) => \A o : At(t, c, o) => lim <= o

ForwardGoing(t, c, s, n) ==
  /\ ~s.stop /\ ~s.dne /\ s.off = -1 /\ Partial(t, c, n, s.i)
  /\ s.i > 0 => s.prv = c[n]
  /\ NoneBefore(t, c, n - s.i)
ForwardFound(t, c, s) ==
  s.stop /\ s.dne /\ At(t, c, s.off + 1) /\ NoneBefore(t, c, s.off + 1)

(* One byte more of the scan forwards: the partial match grows, begins     *)
(* anew or is broken, or the match is complete.                            *)
LEMMA ForwardGoes ==
  ASSUME NEW t \in Seq(Bytes), t # <<>>, NEW c \in Seq(Bytes), NEW n \in 1..Len(c),
         NEW s \in ScanState(t), ForwardGoing(t, c, s, n - 1),
         NEW e, e = ScanForward(t, s, c[n], n - 1)
  PROVE  ForwardGoing(t, c, e, n) \/ ForwardFound(t, c, e)
<1>1. PICK m \in Nat, k \in Nat : m = Len(t) /\ k = Len(c) /\ m > 0 /\ n \in 1..k
  OBVIOUS
<1>2. PICK p \in Nat : p = n - 1 /\ n = p + 1 /\ p < k
  BY <1>1
<1>3. s.i \in 0..(m - 1) /\ s.i \in Nat /\ s.stop \in BOOLEAN
  BY <1>1, ScanFields
<1>4. /\ ~s.stop /\ ~s.dne /\ s.off = -1 /\ Partial(t, c, p, s.i)
      /\ s.i > 0 => s.prv = c[p] /\ NoneBefore(t, c, p - s.i)
      /\ NoneBefore(t, c, p - s.i)
  BY <1>2 DEF ForwardGoing
<1> DEFINE x == c[n]
           i == IF s.i > 0 /\ t[s.i] = s.prv /\ t[s.i + 1] # x THEN 0 ELSE s.i
<1>5. e = IF t[i + 1] # x THEN [s EXCEPT !.i = 0, !.prv = x]
          ELSE IF i + 1 < m THEN [s EXCEPT !.i = i + 1, !.prv = x]
          ELSE [s EXCEPT !.off = (n - 1) - m, !.dne = TRUE, !.stop = TRUE]
  BY <1>1, <1>4, Zenon DEF ScanForward
<1>6. s.i > 0 => t[s.i] = s.prv
  <2>1. SUFFICES ASSUME s.i > 0 PROVE t[s.i] = s.prv
    OBVIOUS
  <2>2. s.i \in 1..s.i /\ (p - s.i) + s.i = p
    BY <1>2, <1>3, <2>1
  <2>3. c[(p - s.i) + s.i] = t[s.i]
    BY <1>4, <2>2 DEF Partial
  <2> QED BY <1>4, <2>1, <2>2, <2>3
<1>7. i \in 0..(m - 1) /\ i \in Nat /\ i <= p /\ Partial(t, c, p, i) /\ NoneBefore(t, c, p - i)
      /\ (t[i + 1] # x => i = 0)
  <2>1. CASE s.i > 0 /\ t[s.i + 1] # x
    <3>1. i = 0
      BY <1>6, <2>1
    <3>2. Partial(t, c, p, 0)
      BY <1>1, <1>2 DEF Partial
    <3>3. NoneBefore(t, c, p)
      <4>1. SUFFICES ASSUME HeadUnique(t), NEW o, At(t, c, o) PROVE p <= o
        BY DEF NoneBefore
      <4>2. p - s.i <= o
        BY <1>4, <4>1 DEF NoneBefore
      <4>3. t[s.i + 1] # c[p + 1]
        BY <1>2, <2>1
      <4> QED BY <1>3, <1>4, <4>1, <4>2, <4>3, Restart
    <3>4. p - 0 = p /\ 0 <= p /\ 0 \in 0..(m - 1)
      BY <1>1, <1>2
    <3> HIDE DEF i
    <3> QED BY <3>1, <3>2, <3>3, <3>4
  <2>2. CASE ~(s.i > 0 /\ t[s.i + 1] # x)
    <3>1. i = s.i
      BY <1>3, <2>2
    <3>2. s.i <= p
      BY <1>4 DEF Partial
    <3>3. t[s.i + 1] # x => s.i = 0
      BY <1>3, <2>2
    <3> HIDE DEF i, x
    <3> QED BY <1>3, <1>4, <3>1, <3>2, <3>3
  <2> QED BY <2>1, <2>2
<1> HIDE DEF i
<1>8. CASE t[i + 1] # x
  <2>1. e = [s EXCEPT !.i = 0, !.prv = x]
    BY <1>5, <1>8
  <2>2. e.i = 0 /\ e.stop = s.stop /\ e.dne = s.dne /\ e.off = s.off
    BY <2>1 DEF ScanState
  <2>3. Partial(t, c, n, 0)
    BY <1>1 DEF Partial
  <2>4. NoneBefore(t, c, n - 0)
    <3>1. SUFFICES ASSUME HeadUnique(t), NEW o, At(t, c, o) PROVE n - 0 <= o
      BY DEF NoneBefore
    <3>2. i = 0 /\ p - i <= o /\ o \in Nat
      BY <1>7, <1>8, <3>1 DEF NoneBefore, At
    <3>3. o # p
      <4>1. SUFFICES ASSUME o = p PROVE FALSE
        OBVIOUS
      <4>2. 1 \in 1..Len(t) /\ o + 1 = n
        BY <1>1, <1>2, <4>1
      <4>3. c[o + 1] = t[1]
        BY <3>1, <4>2 DEF At
      <4>4. t[1] # x
        BY <1>8, <3>2
      <4> QED BY <4>2, <4>3, <4>4
    <3> QED BY <1>2, <3>2, <3>3
  <2> QED BY <1>4, <2>2, <2>3, <2>4 DEF ForwardGoing
<1>9. ASSUME t[i + 1] = x
      PROVE  \A j \in 1..(i + 1) : c[(n - (i + 1)) + j] = t[j]
  <2>1. SUFFICES ASSUME NEW j \in 1..(i + 1) PROVE c[(n - (i + 1)) + j] = t[j]
    OBVIOUS
  <2>2. n - (i + 1) = p - i
    BY <1>2, <1>7
  <2>3. CASE j = i + 1
    <3>1. (p - i) + j = n
      BY <1>2, <1>7, <2>3
    <3> QED BY <1>9, <2>2, <2>3, <3>1
  <2>4. CASE j # i + 1
    <3>1. j \in 1..i
      BY <1>7, <2>4
    <3> QED BY <1>7, <2>2, <3>1 DEF Partial
  <2> QED BY <2>3, <2>4
<1>10. CASE t[i + 1] = x /\ i + 1 < m
  <2>1. e = [s EXCEPT !.i = i + 1, !.prv = x]
    BY <1>5, <1>10
  <2>2. e.i = i + 1 /\ e.stop = s.stop /\ e.dne = s.dne /\ e.off = s.off /\ e.prv = x
    BY <2>1 DEF ScanState
  <2>3. Partial(t, c, n, i + 1)
    BY <1>1, <1>2, <1>7, <1>9, <1>10 DEF Partial
  <2>4. n - (i + 1) = p - i
    BY <1>2, <1>7
  <2>5. NoneBefore(t, c, n - (i + 1))
    BY <1>7, <2>4
  <2> QED BY <1>4, <2>2, <2>3, <2>5 DEF ForwardGoing
<1>11. CASE t[i + 1] = x /\ ~(i + 1 < m)
  <2>1. e = [s EXCEPT !.off = (n - 1) - m, !.dne = TRUE, !.stop = TRUE]
    BY <1>5, <1>11
  <2>2. e.off = (n - 1) - m /\ e.stop = TRUE /\ e.dne = TRUE
    BY <2>1 DEF ScanState
  <2>3. i + 1 = m
    BY <1>7, <1>11
  <2>4. e.off + 1 = n - m /\ n - m = p - i /\ n - m \in Nat
    BY <1>1, <1>2, <1>7, <2>2, <2>3
  <2>5. (n - m) + m <= k
    BY <1>1
  <2>6. At(t, c, n - m)
    BY <1>1, <1>9, <1>11, <2>3, <2>4, <2>5 DEF At
  <2>7. NoneBefore(t, c, n - m)
    BY <1>7, <2>4
  <2> QED BY <2>2, <2>4, <2>6, <2>7 DEF ForwardFound
<1> QED BY <1>8, <1>10, <1>11

(* A match the scan reports is one, and IndexOf stands one before it; with *)
(* no second first byte in t, the first one is found.                      *)
LEMMA ForwardExact ==
  ASSUME NEW t \in Seq(Bytes), t # <<>>, NEW c \in Seq(Bytes)
  PROVE  LET f == Forward(c, t) IN
         /\ f.off \in Int
         /\ f.dne => At(t, c, f.off + 1) /\ NoneBefore(t, c, f.off + 1)
         /\ ~f.dne => f.off = -1 /\ (HeadUnique(t) => ~\E o : At(t, c, o))
<1>1. PICK k \in Nat : k = Len(c)
  OBVIOUS
<1>2. PICK a \in [0..Len(c) -> ScanState(t)] : ForwardRuns(a, c, t)
  BY ForwardLoop, Zenon
<1>3. /\ a[0] = NoScan /\ \A n \in 1..k : a[n] = ScanForward(t, a[n - 1], c[n], n - 1)
      /\ Forward(c, t) = a[k] /\ a[k] \in ScanState(t)
  BY <1>1, <1>2 DEF ForwardRuns
<1> DEFINE J(s, n) == ForwardGoing(t, c, s, n) \/ ForwardFound(t, c, s)
           I == {n \in 0..k : J(a[n], n)}
<1>4. 0 \in I
  <2>1. Partial(t, c, 0, 0)
    BY DEF Partial
  <2>2. NoneBefore(t, c, 0 - 0)
    BY DEF NoneBefore, At
  <2>3. ForwardGoing(t, c, a[0], 0)
    BY <1>3, <2>1, <2>2, NoScanState DEF ForwardGoing
  <2> QED BY <2>3
<1>5. ASSUME NEW n \in 1..k, n - 1 \in I
      PROVE  n \in I
  <2>1. /\ n \in 0..k /\ n \in 1..Len(c) /\ n - 1 \in 0..k /\ a[n - 1] \in ScanState(t)
        /\ a[n] = ScanForward(t, a[n - 1], c[n], n - 1)
    BY <1>1, <1>3, SMTT(40)
  <2>2. J(a[n - 1], n - 1)
    BY <1>5
  <2>3. J(a[n], n)
    <3>1. CASE ForwardGoing(t, c, a[n - 1], n - 1)
      BY <2>1, <3>1, ForwardGoes
    <3>2. CASE ForwardFound(t, c, a[n - 1])
      <4>1. a[n] = a[n - 1]
        BY <2>1, <3>2 DEF ForwardFound, ScanForward
      <4> QED BY <3>2, <4>1
    <3> QED BY <2>2, <3>1, <3>2
  <2> QED BY <2>1, <2>3
<1> HIDE DEF I, J
<1>6. 0..k \subseteq I
  BY <1>4, <1>5, Induction
<1>7. J(a[k], k)
  BY <1>6 DEF I
<1>8. ASSUME ForwardGoing(t, c, a[k], k), HeadUnique(t), NEW o, At(t, c, o)
      PROVE  FALSE
  <2>1. k - a[k].i <= o /\ a[k].i \in 0..(Len(t) - 1)
    BY <1>8 DEF ForwardGoing, Partial, NoneBefore
  <2>2. o \in Nat /\ o + Len(t) <= k /\ Len(t) \in Nat
    BY <1>1, <1>8 DEF At
  <2> QED BY <2>1, <2>2
<1>9. a[k].off \in Int
  BY <1>3, ScanFields
<1> QED BY <1>3, <1>7, <1>8, <1>9 DEF J, ForwardGoing, ForwardFound

----------------------------------------------------------------------------
(* The scan backwards.                                                     *)

(* A step of the scan backwards keeps its type.                            *)
LEMMA BackwardStep ==
  ASSUME NEW t \in Seq(Bytes), t # <<>>, NEW s \in ScanState(t), NEW x, NEW off \in Int
  PROVE  ScanBackward(t, s, x, off) \in ScanState(t)
<1>1. s.i \in 0..(Len(t) - 1) /\ Len(t) \in Nat
  BY ScanFields
<1>2. ASSUME NEW n \in 0..(Len(t) - 1) PROVE [s EXCEPT !.i = n] \in ScanState(t)
  BY DEF ScanState
<1>3. [s EXCEPT !.off = off, !.dne = TRUE, !.stop = TRUE] \in ScanState(t)
  BY DEF ScanState
<1>4. 0 \in 0..(Len(t) - 1) /\ (s.i + 1 < Len(t) => s.i + 1 \in 0..(Len(t) - 1))
  BY <1>1
<1> QED BY <1>2, <1>3, <1>4 DEF ScanBackward

BackwardRuns(a, c, t) ==
  /\ a[0] = NoScan
  /\ \A n \in 1..Len(c) :
       a[n] = ScanBackward(t, a[n - 1], c[Len(c) - n + 1], Len(c) - n)
  /\ Backward(c, t) = a[Len(c)]

(* Backward is a loop over ScanBackward.                                   *)
LEMMA BackwardLoop ==
  ASSUME NEW t \in Seq(Bytes), t # <<>>, NEW c \in Seq(Bytes)
  PROVE  \E a \in [0..Len(c) -> ScanState(t)] : BackwardRuns(a, c, t)
<1>1. PICK m \in Nat : m = Len(c)
  OBVIOUS
<1>2. \A n \in 1..m : m - n \in Int
  OBVIOUS
<1> DEFINE T == ScanState(t)
           g == [n \in 1..m |-> [s \in T |-> ScanBackward(t, s, c[m - n + 1], m - n)]]
<1>3. NoScan \in T
  BY NoScanState
<1>4. g \in [1..m -> [T -> T]]
  BY <1>2, BackwardStep
<1>5. \A n \in 1..m : \A s \in T : g[n][s] = ScanBackward(t, s, c[m - n + 1], m - n)
  OBVIOUS
<1> HIDE DEF g, T
<1>6. PICK s \in [0..m -> T] : Runs(s, NoScan, g, m, T)
  BY <1>3, <1>4, LoopExists
<1>7. /\ s[0] = NoScan
      /\ \A n \in 1..m : n - 1 \in 0..m /\ s[n] = ScanBackward(t, s[n - 1], c[m - n + 1], m - n)
  BY <1>5, <1>6 DEF Runs, Loop
<1> DEFINE Is(h) == h = [n \in 0..m |-> IF n = 0 THEN NoScan
                                       ELSE ScanBackward(t, h[n - 1], c[m - n + 1], m - n)]
           a == CHOOSE h : Is(h)
<1>8. Is(s)
  BY <1>7
<1>9. Is(a)
  BY <1>8, Zenon
<1>10. Backward(c, t) = a[m]
  BY <1>1, Zenon DEF Backward
<1> HIDE DEF a
<1>11. Follows(a, NoScan, g, m, T)
  <2>1. /\ a[0] = NoScan
        /\ \A n \in 1..m : a[n] = ScanBackward(t, a[n - 1], c[m - n + 1], m - n)
    BY <1>9
  <2> HIDE DEF Is
  <2> QED BY <1>5, <2>1 DEF Follows
<1>12. \A n \in 0..m : a[n] = s[n]
  BY <1>6, <1>11, LoopUnique
<1>13. BackwardRuns(s, c, t)
  BY <1>1, <1>7, <1>10, <1>12 DEF BackwardRuns
<1> QED BY <1>1, <1>6, <1>13, Zenon DEF T

(* The last i bytes of t are those of c from the n-th from its end.        *)
BackwardGoing(t, c, s, n) ==
  /\ ~s.stop /\ ~s.dne /\ s.off = -1 /\ s.i <= n
  /\ \A j \in 1..s.i : c[(Len(c) - n) + j] = t[(Len(t) - s.i) + j]
BackwardFound(t, c, s) == s.stop /\ s.dne /\ At(t, c, s.off)

(* One byte more of the scan backwards.                                    *)
LEMMA BackwardGoes ==
  ASSUME NEW t \in Seq(Bytes), t # <<>>, NEW c \in Seq(Bytes), NEW n \in 1..Len(c),
         NEW s \in ScanState(t), BackwardGoing(t, c, s, n - 1),
         NEW e, e = ScanBackward(t, s, c[Len(c) - n + 1], Len(c) - n)
  PROVE  BackwardGoing(t, c, e, n) \/ BackwardFound(t, c, e)
<1>1. PICK m \in Nat, k \in Nat : m = Len(t) /\ k = Len(c) /\ m > 0 /\ n \in 1..k
  OBVIOUS
<1>2. PICK i \in Nat : i = s.i /\ i < m /\ i <= n - 1
  BY <1>1, ScanFields DEF BackwardGoing
<1>3. /\ ~s.stop /\ ~s.dne /\ s.off = -1
      /\ \A j \in 1..i : c[(k - (n - 1)) + j] = t[(m - i) + j]
  BY <1>1, <1>2 DEF BackwardGoing
<1> DEFINE x == c[k - n + 1]
<1>4. e = IF t[m - i] # x THEN [s EXCEPT !.i = 0]
          ELSE IF i + 1 < m THEN [s EXCEPT !.i = i + 1]
          ELSE [s EXCEPT !.off = k - n, !.dne = TRUE, !.stop = TRUE]
  BY <1>1, <1>2, <1>3 DEF ScanBackward
<1>5. ASSUME t[m - i] = x
      PROVE  \A j \in 1..(i + 1) : c[(k - n) + j] = t[(m - (i + 1)) + j]
  <2>1. SUFFICES ASSUME NEW j \in 1..(i + 1) PROVE c[(k - n) + j] = t[(m - (i + 1)) + j]
    OBVIOUS
  <2>2. CASE j = 1
    <3>1. (k - n) + j = k - n + 1 /\ (m - (i + 1)) + j = m - i
      BY <1>1, <1>2, <2>2
    <3> QED BY <1>5, <3>1
  <2>3. CASE j # 1
    <3>1. PICK l \in 1..i : j = l + 1
      BY <1>2, <2>3
    <3>2. (k - n) + j = (k - (n - 1)) + l /\ (m - (i + 1)) + j = (m - i) + l
      <4>1. n \in Nat /\ l \in Nat /\ j = l + 1
        BY <1>1, <1>2, <3>1
      <4> QED BY <4>1
    <3> QED BY <1>3, <3>2
  <2> QED BY <2>2, <2>3
<1> HIDE DEF x
<1>6. CASE t[m - i] # x
  <2>1. e = [s EXCEPT !.i = 0]
    BY <1>4, <1>6
  <2>2. e.i = 0 /\ e.stop = s.stop /\ e.dne = s.dne /\ e.off = s.off
    BY <2>1 DEF ScanState
  <2> QED BY <1>1, <1>3, <2>2 DEF BackwardGoing
<1>7. CASE t[m - i] = x /\ i + 1 < m
  <2>1. e = [s EXCEPT !.i = i + 1]
    BY <1>4, <1>7
  <2>2. e.i = i + 1 /\ e.stop = s.stop /\ e.dne = s.dne /\ e.off = s.off
    BY <2>1 DEF ScanState
  <2>3. i + 1 <= n
    BY <1>1, <1>2
  <2> QED BY <1>1, <1>3, <1>5, <1>7, <2>2, <2>3 DEF BackwardGoing
<1>8. CASE t[m - i] = x /\ ~(i + 1 < m)
  <2>1. e = [s EXCEPT !.off = k - n, !.dne = TRUE, !.stop = TRUE]
    BY <1>4, <1>8
  <2>2. e.off = k - n /\ e.stop = TRUE /\ e.dne = TRUE
    BY <2>1 DEF ScanState
  <2>3. i + 1 = m /\ k - n \in Nat /\ (k - n) + m <= k
    <3>1. i + 1 = m
      <4>1. i < m /\ ~(i + 1 < m)
        BY <1>2, <1>8
      <4> QED BY <4>1
    <3>2. k - n \in Nat
      BY <1>1, <1>2
    <3>3. (k - n) + m <= k
      BY <1>1, <1>2, <3>1
    <3> QED BY <3>1, <3>2, <3>3
  <2>4. \A j \in 1..m : c[(k - n) + j] = t[j]
    <3>1. \A j \in 1..m : (m - (i + 1)) + j = j
      BY <2>3
    <3> QED BY <1>5, <1>8, <2>3, <3>1
  <2>5. At(t, c, k - n)
    BY <1>1, <2>3, <2>4 DEF At
  <2> QED BY <2>2, <2>5 DEF BackwardFound
<1> QED BY <1>6, <1>7, <1>8

(* A match the scan backwards reports is one.                              *)
LEMMA BackwardSound ==
  ASSUME NEW t \in Seq(Bytes), t # <<>>, NEW c \in Seq(Bytes)
  PROVE  LET f == Backward(c, t) IN
         /\ f.off \in Int
         /\ f.dne => At(t, c, f.off)
         /\ ~f.dne => f.off = -1
<1>1. PICK k \in Nat : k = Len(c)
  OBVIOUS
<1>2. PICK a \in [0..Len(c) -> ScanState(t)] : BackwardRuns(a, c, t)
  BY BackwardLoop, Zenon
<1>3. /\ a[0] = NoScan
      /\ \A n \in 1..k : a[n] = ScanBackward(t, a[n - 1], c[Len(c) - n + 1], Len(c) - n)
      /\ Backward(c, t) = a[k] /\ a[k] \in ScanState(t)
  BY <1>1, <1>2 DEF BackwardRuns
<1> DEFINE J(s, n) == BackwardGoing(t, c, s, n) \/ BackwardFound(t, c, s)
           I == {n \in 0..k : J(a[n], n)}
<1>4. 0 \in I
  <2>1. BackwardGoing(t, c, a[0], 0)
    BY <1>3, NoScanState DEF BackwardGoing
  <2> QED BY <2>1
<1>5. ASSUME NEW n \in 1..k, n - 1 \in I
      PROVE  n \in I
  <2>1. /\ n \in 0..k /\ n \in 1..Len(c) /\ n - 1 \in 0..k /\ a[n - 1] \in ScanState(t)
        /\ a[n] = ScanBackward(t, a[n - 1], c[Len(c) - n + 1], Len(c) - n)
    BY <1>1, <1>3, SMTT(40)
  <2>2. J(a[n - 1], n - 1)
    BY <1>5
  <2>3. J(a[n], n)
    <3>1. CASE BackwardGoing(t, c, a[n - 1], n - 1)
      BY <2>1, <3>1, BackwardGoes
    <3>2. CASE BackwardFound(t, c, a[n - 1])
      <4>1. a[n] = a[n - 1]
        BY <2>1, <3>2 DEF BackwardFound, ScanBackward
      <4> QED BY <3>2, <4>1
    <3> QED BY <2>2, <3>1, <3>2
  <2> QED BY <2>1, <2>3
<1> HIDE DEF I, J
<1>6. 0..k \subseteq I
  BY <1>4, <1>5, Induction
<1>7. J(a[k], k)
  BY <1>6 DEF I
<1>8. a[k].off \in Int
  BY <1>3, ScanFields
<1> QED BY <1>3, <1>7, <1>8 DEF J, BackwardGoing, BackwardFound

----------------------------------------------------------------------------
(* The bytes from the end.                                                 *)
LEMMA Reversed ==
  ASSUME NEW s \in Seq(Bytes)
  PROVE  /\ Reverse(s) \in Seq(Bytes) /\ Len(Reverse(s)) = Len(s)
         /\ \A j \in 1..Len(s) : Reverse(s)[j] = s[(Len(s) - j) + 1]
<1>1. PICK n \in Nat : n = Len(s)
  OBVIOUS
<1>2. Reverse(s) = [j \in 1..n |-> s[(n - j) + 1]]
  BY <1>1 DEF Reverse
<1>3. \A j \in 1..n : (n - j) + 1 \in 1..n /\ s[(n - j) + 1] \in Bytes
  BY <1>1
<1> QED BY <1>1, <1>2, <1>3

(* A suffix is a prefix of the bytes from the end.                         *)
LEMMA SuffixReversed ==
  ASSUME NEW t \in Seq(Bytes), NEW c \in Seq(Bytes)
  PROVE  At(Reverse(t), Reverse(c), 0) <=> At(t, c, Len(c) - Len(t))
<1>1. PICK m \in Nat, n \in Nat : m = Len(t) /\ n = Len(c)
  OBVIOUS
<1>2. /\ Len(Reverse(t)) = m /\ Len(Reverse(c)) = n
      /\ \A j \in 1..m : Reverse(t)[j] = t[(m - j) + 1]
      /\ \A j \in 1..n : Reverse(c)[j] = c[(n - j) + 1]
  BY <1>1, Reversed
<1>3. At(Reverse(t), Reverse(c), 0) <=>
        m <= n /\ \A j \in 1..m : Reverse(c)[j] = Reverse(t)[j]
  BY <1>2 DEF At
<1>4. At(t, c, n - m) <=> m <= n /\ \A j \in 1..m : c[(n - m) + j] = t[j]
  BY <1>1 DEF At
<1>5. ASSUME m <= n, \A j \in 1..m : Reverse(c)[j] = Reverse(t)[j], NEW j \in 1..m
      PROVE  c[(n - m) + j] = t[j]
  <2>1. PICK l \in 1..m : l = (m - j) + 1
    OBVIOUS
  <2>2. l \in 1..n /\ (m - l) + 1 = j /\ (n - l) + 1 = (n - m) + j
    BY <1>5, <2>1
  <2>3. Reverse(c)[l] = c[(n - m) + j]
    BY <1>2, <2>2
  <2>4. Reverse(t)[l] = t[j]
    BY <1>2, <2>2
  <2>5. Reverse(c)[l] = Reverse(t)[l]
    BY <1>5
  <2> QED BY <2>3, <2>4, <2>5
<1>6. ASSUME m <= n, \A j \in 1..m : c[(n - m) + j] = t[j], NEW j \in 1..m
      PROVE  Reverse(c)[j] = Reverse(t)[j]
  <2>1. PICK l \in 1..m : l = (m - j) + 1
    OBVIOUS
  <2>2. j \in 1..n /\ (n - j) + 1 = (n - m) + l
    BY <1>6, <2>1
  <2>3. c[(n - m) + l] = t[l]
    BY <1>6
  <2> QED BY <1>2, <2>1, <2>2, <2>3
<1> QED BY <1>1, <1>3, <1>4, <1>5, <1>6

(* A match in the later part of the content is one of the content.         *)
LEMMA AtLater ==
  ASSUME NEW t \in Seq(Bytes), NEW c \in Seq(Bytes), NEW first \in 0..Len(c), NEW off \in Int,
         At(t, SubSeq(c, first + 1, Len(c)), off)
  PROVE  At(t, c, first + off)
<1>1. PICK n \in Nat, m \in Nat : n = Len(c) /\ m = Len(t)
  OBVIOUS
<1> DEFINE u == SubSeq(c, first + 1, n)
<1>2. /\ Len(u) = n - first
      /\ \A j \in 1..(n - first) : u[j] = c[first + j]
  <2>1. first + 1 \in 1..(n + 1) /\ n \in ((first + 1) - 1)..Len(c)
    BY <1>1
  <2>2. u = [j \in 1..(n - (first + 1) + 1) |-> c[j + (first + 1) - 1]]
    BY <1>1
  <2>3. n - (first + 1) + 1 = n - first /\ \A j \in 1..(n - first) : j + (first + 1) - 1 = first + j
    BY <1>1
  <2> HIDE DEF u
  <2>4. u = [j \in 1..(n - first) |-> c[first + j]]
    BY <2>2, <2>3
  <2>5. n - first \in Nat
    BY <1>1
  <2> QED BY <2>4, <2>5
<1>3. At(t, u, off)
  BY <1>1
<1> HIDE DEF u
<1>4. off \in Nat /\ off + m <= n - first /\ \A j \in 1..m : u[off + j] = t[j]
  BY <1>1, <1>2, <1>3 DEF At
<1>5. ASSUME NEW j \in 1..m PROVE c[(first + off) + j] = t[j]
  <2>1. off + j \in 1..(n - first) /\ first + (off + j) = (first + off) + j
    BY <1>1, <1>4
  <2>2. u[off + j] = c[first + (off + j)]
    BY <1>2, <2>1
  <2> QED BY <1>4, <2>1, <2>2
<1>6. first + off \in Nat /\ (first + off) + m <= n
  BY <1>1, <1>4
<1> QED BY <1>1, <1>5, <1>6 DEF At

(* The bytes looked for are bytes, at least one.                           *)
LEMMA PatternBytes ==
  ASSUME NEW t \in Patterns
  PROVE  t \in Seq(Bytes) /\ t # <<>>
<1>1. PICK m \in 0..MaxPattern : t \in [1..m -> Byte]
  BY DEF Patterns, BoundedSeq, SeqOf
<1>2. m \in Nat /\ t \in [1..m -> Bytes]
  BY <1>1, BoundAssumption DEF Bytes
<1>3. t \in Seq(Bytes)
  BY <1>2
<1> QED BY <1>3 DEF Patterns

(* The searches over any buffer.                                           *)
LEMMA SearchFacts ==
  ASSUME NEW b \in BufferType, NEW t \in Patterns
  PROVE  LET c == Content(b) IN
         /\ HasPrefix(b, t) <=> Occurs(t, c, 0)
         /\ HasSuffix(b, t) <=> Occurs(t, c, Len(c) - Len(t))
         /\ ContainsBytes(b, t) => Offsets(t, c) # {}
         /\ IndexOf(b, t) >= 0 => Occurs(t, c, IndexOf(b, t) + 1)
         /\ LastIndexOf(b, t) >= 0 => Occurs(t, c, LastIndexOf(b, t))
         /\ HeadUnique(t) /\ Offsets(t, c) # {} =>
              ContainsBytes(b, t) /\ IndexOf(b, t) = First(Offsets(t, c)) - 1
<1> DEFINE c == Content(b)
<1>1. t \in Seq(Bytes) /\ t # <<>>
  BY PatternBytes
<1>2. c \in Seq(Bytes) /\ Len(c) = Size(b) /\ Size(b) \in Nat
  BY ContentFacts
<1> HIDE DEF c
<1>3. HasPrefix(b, t) <=> Occurs(t, c, 0)
  BY <1>1, <1>2, AnchoredExact, OccursAt DEF HasPrefix, c
<1>4. HasSuffix(b, t) <=> Occurs(t, c, Len(c) - Len(t))
  <2>1. /\ Reverse(t) \in Seq(Bytes) /\ Reverse(c) \in Seq(Bytes)
        /\ Len(Reverse(t)) = Len(t)
    BY <1>1, <1>2, Reversed
  <2>2. Reverse(t) # <<>>
    BY <1>1, <2>1
  <2>3. Anchored(Reverse(c), Reverse(t)).dne <=> At(Reverse(t), Reverse(c), 0)
    BY <2>1, <2>2, AnchoredExact
  <2>4. At(Reverse(t), Reverse(c), 0) <=> At(t, c, Len(c) - Len(t))
    BY <1>1, <1>2, SuffixReversed
  <2>5. Len(c) - Len(t) \in Int
    BY <1>1, <1>2
  <2>6. Occurs(t, c, Len(c) - Len(t)) <=> At(t, c, Len(c) - Len(t))
    BY <1>1, <1>2, <2>5, OccursAt
  <2> QED BY <2>3, <2>4, <2>6 DEF HasSuffix, c
<1> DEFINE f == Forward(c, t)
           l == Backward(c, t)
           first == IF b.chunks = <<>> THEN b.fill ELSE ChunkSize
           u == SubSeq(c, first + 1, Size(b))
           k == Backward(u, t)
<1>5. /\ f.off \in Int
      /\ f.dne => At(t, c, f.off + 1) /\ NoneBefore(t, c, f.off + 1)
      /\ ~f.dne => f.off = -1 /\ (HeadUnique(t) => ~\E o : At(t, c, o))
  BY <1>1, <1>2, ForwardExact
<1>6. l.off \in Int /\ (l.dne => At(t, c, l.off)) /\ (~l.dne => l.off = -1)
  BY <1>1, <1>2, BackwardSound
<1>7. first \in 0..Len(c)
  <2>1. /\ b.chunks \in Seq(Chunk) /\ b.fill \in Nat /\ ChunkSize \in Nat
        /\ InChunks(b) \in Nat /\ Size(b) = InChunks(b) + b.fill
    BY BufferFields, ContentFacts, ChunkAssumption
  <2>2. CASE b.chunks = <<>>
    BY <1>2, <2>1, <2>2
  <2>3. CASE b.chunks # <<>>
    <3>1. Len(b.chunks) \in Nat /\ 0 < Len(b.chunks)
      BY <2>1, <2>3
    <3>2. 0 * ChunkSize + ChunkSize <= Len(b.chunks) * ChunkSize
      BY <2>1, <3>1, MultiplesGrow
    <3>3. ChunkSize <= InChunks(b)
      BY <2>1, <3>2 DEF InChunks
    <3> QED BY <1>2, <2>1, <2>3, <3>3
  <2> QED BY <2>2, <2>3
<1>8. u \in Seq(Bytes)
  <2>1. first + 1 \in 1..(Len(c) + 1) /\ Size(b) \in first..Len(c)
    BY <1>2, <1>7
  <2> HIDE DEF first
  <2> QED BY <1>2, <1>7, <2>1, SubSeqProperties
<1> HIDE DEF u, first
<1>9. k.off \in Int /\ (k.dne => At(t, u, k.off))
  BY <1>1, <1>8, BackwardSound
<1> HIDE DEF f, l, k
<1>10. k.dne => At(t, c, first + k.off)
  <2>1. u = SubSeq(c, first + 1, Len(c))
    BY <1>2 DEF u
  <2> QED BY <1>1, <1>2, <1>7, <1>9, <2>1, AtLater
<1>11. ContainsBytes(b, t) <=> f.dne \/ k.dne
  BY Zenon DEF ContainsBytes, f, k, u, first, c
<1>12. IndexOf(b, t) = f.off /\ LastIndexOf(b, t) = l.off
  BY DEF IndexOf, LastIndexOf, f, l, c
<1>13. ContainsBytes(b, t) => Offsets(t, c) # {}
  BY <1>1, <1>2, <1>5, <1>10, <1>11, Offset
<1>14. IndexOf(b, t) >= 0 => Occurs(t, c, IndexOf(b, t) + 1)
  <2>1. SUFFICES ASSUME f.off >= 0 PROVE Occurs(t, c, f.off + 1)
    BY <1>12
  <2>2. f.dne
    BY <1>5, <2>1
  <2>3. f.off + 1 \in Int /\ At(t, c, f.off + 1)
    BY <1>5, <2>2
  <2> QED BY <1>1, <1>2, <2>3, OccursAt
<1>15. LastIndexOf(b, t) >= 0 => Occurs(t, c, LastIndexOf(b, t))
  <2>1. SUFFICES ASSUME l.off >= 0 PROVE Occurs(t, c, l.off)
    BY <1>12
  <2>2. l.dne
    BY <1>6, <2>1
  <2> QED BY <1>1, <1>2, <1>6, <2>2, OccursAt
<1>16. ASSUME HeadUnique(t), Offsets(t, c) # {}
       PROVE  ContainsBytes(b, t) /\ IndexOf(b, t) = First(Offsets(t, c)) - 1
  <2> DEFINE S == Offsets(t, c)
  <2>1. \A o : o \in S <=> At(t, c, o)
    BY <1>1, <1>2, Offset
  <2> HIDE DEF S
  <2>2. f.dne
    BY <1>5, <1>16, <2>1 DEF S
  <2>3. At(t, c, f.off + 1) /\ \A o : At(t, c, o) => f.off + 1 <= o
    BY <1>5, <1>16, <2>2 DEF NoneBefore
  <2>4. f.off + 1 \in S /\ \A o \in S : f.off + 1 <= o
    BY <2>1, <2>3
  <2>5. \A o \in S : o \in Nat
    BY <2>1 DEF At
  <2>6. First(S) = f.off + 1
    <3>1. /\ First(S) \in S /\ \A o \in S : First(S) <= o
      BY <2>4, Zenon DEF First
    <3> QED BY <2>4, <2>5, <3>1
  <2>7. IndexOf(b, t) = First(S) - 1
    BY <1>5, <1>12, <2>6
  <2> QED BY <1>11, <2>2, <2>7 DEF S
<1> QED BY <1>3, <1>4, <1>13, <1>14, <1>15, <1>16 DEF c

(* HasPrefix and HasSuffix of ioext/buffer.go are exact; a match that      *)
(* Contains, IndexOf or LastIndexOf reports is one, with IndexOf one       *)
(* short; none is missed when the first byte looked for does not recur in  *)
(* the bytes looked for. For every buffer and every pattern.               *)
THEOREM SearchesAreExact == BufferSpec => []SearchExact
<1>1. BufferInv => SearchExact
  <2>1. SUFFICES ASSUME BufferInv, NEW t \in Patterns
                 PROVE  LET c == Content(buf) IN
                        /\ HasPrefix(buf, t) <=> Occurs(t, c, 0)
                        /\ HasSuffix(buf, t) <=> Occurs(t, c, Len(c) - Len(t))
                        /\ ContainsBytes(buf, t) => Offsets(t, c) # {}
                        /\ IndexOf(buf, t) >= 0 => Occurs(t, c, IndexOf(buf, t) + 1)
                        /\ LastIndexOf(buf, t) >= 0 => Occurs(t, c, LastIndexOf(buf, t))
                        /\ HeadUnique(t) /\ Offsets(t, c) # {} =>
                             ContainsBytes(buf, t) /\ IndexOf(buf, t) = First(Offsets(t, c)) - 1
    BY Zenon DEF SearchExact
  <2>2. buf \in BufferType
    BY <2>1 DEF BufferInv, BufferTypeOK
  <2> QED BY <2>2, SearchFacts
<1> QED BY <1>1, BufferInvariant, PTL

----------------------------------------------------------------------------
(* The bytes of a range.                                                   *)

(* The bytes of a part of a sequence.                                      *)
LEMMA SubSeqBytes ==
  ASSUME NEW s \in Seq(Bytes), NEW lo \in Nat, lo > 0, NEW hi \in Int, hi <= Len(s)
  PROVE  /\ SubSeq(s, lo, hi) \in Seq(Bytes)
         /\ Len(SubSeq(s, lo, hi)) = IF lo <= hi THEN hi - lo + 1 ELSE 0
         /\ \A j \in 1..(hi - lo + 1) : SubSeq(s, lo, hi)[j] = s[lo + j - 1]
<1>1. PICK n \in Nat : n = Len(s)
  OBVIOUS
<1> DEFINE u == SubSeq(s, lo, hi)
<1>2. u = [j \in 1..(hi - lo + 1) |-> s[j + lo - 1]]
  BY <1>1
<1> HIDE DEF u
<1>3. \A j \in 1..(hi - lo + 1) : j + lo - 1 = lo + j - 1 /\ s[lo + j - 1] \in Bytes
  BY <1>1
<1>4. CASE lo <= hi
  <2>1. PICK m \in Nat : m = hi - lo + 1
    BY <1>4
  <2>2. u = [j \in 1..m |-> s[lo + j - 1]] /\ \A j \in 1..m : s[lo + j - 1] \in Bytes
    BY <1>2, <1>3, <2>1
  <2>3. u \in Seq(Bytes) /\ Len(u) = m
    BY <2>2
  <2> QED BY <1>4, <2>1, <2>2, <2>3 DEF u
<1>5. CASE ~(lo <= hi)
  <2>1. 1..(hi - lo + 1) = {}
    BY <1>5
  <2>2. u = <<>>
    BY <1>1, <1>5, SubSeqEmpty DEF u
  <2> QED BY <1>5, <2>1, <2>2 DEF u
<1> QED BY <1>4, <1>5

(* f is the bytes of c after the first str, up to offset hi.               *)
Copied(f, c, str, hi) ==
  /\ f \in Seq(Bytes) /\ Len(f) = hi - str
  /\ \A j \in 1..(hi - str) : f[j] = c[str + j]

(* The next bytes after those copied.                                      *)
LEMMA CopiedMore ==
  ASSUME NEW c, NEW str \in Nat, NEW h0 \in Nat, NEW h1 \in Nat, str <= h0, h0 <= h1,
         NEW f, Copied(f, c, str, h0),
         NEW p \in Seq(Bytes), Len(p) = h1 - h0, \A j \in 1..(h1 - h0) : p[j] = c[h0 + j]
  PROVE  Copied(f \o p, c, str, h1)
<1>1. f \in Seq(Bytes) /\ Len(f) = h0 - str /\ \A j \in 1..(h0 - str) : f[j] = c[str + j]
  BY DEF Copied
<1> DEFINE g == f \o p
<1>2. /\ g \in Seq(Bytes) /\ Len(g) = Len(f) + Len(p)
      /\ \A j \in 1..Len(f) : g[j] = f[j]
      /\ \A j \in 1..Len(p) : g[Len(f) + j] = p[j]
  <2>1. f \in Seq(Bytes)
    BY <1>1
  <2>2. g \in Seq(Bytes) /\ Len(g) = Len(f) + Len(p)
    BY <2>1, SMTT(40)
  <2>3. \A j \in 1..Len(f) : g[j] = f[j]
    BY <2>1
  <2>4. \A j \in 1..Len(p) : g[Len(f) + j] = p[j]
    BY <2>1
  <2> QED BY <2>2, <2>3, <2>4
<1> HIDE DEF g
<1>3. Len(g) = h1 - str
  BY <1>1, <1>2
<1>4. ASSUME NEW j \in 1..(h1 - str) PROVE g[j] = c[str + j]
  <2>1. CASE j <= h0 - str
    <3>1. j \in 1..(h0 - str)
      BY <2>1
    <3> QED BY <1>1, <1>2, <3>1
  <2>2. CASE ~(j <= h0 - str)
    <3>1. PICK l \in 1..(h1 - h0) : j = (h0 - str) + l
      <4>1. j - (h0 - str) \in 1..(h1 - h0)
        BY <2>2
      <4> QED BY <4>1
    <3>2. g[(h0 - str) + l] = p[l]
      BY <1>1, <1>2
    <3>3. h0 + l = str + j
      BY <3>1
    <3> QED BY <3>1, <3>2, <3>3
  <2> QED BY <2>1, <2>2
<1> QED BY <1>2, <1>3, <1>4 DEF Copied, g

(* What is copied up to the end of the range is the range.                 *)
LEMMA CopiedIsSubSeq ==
  ASSUME NEW c \in Seq(Bytes), NEW str \in Nat, NEW hi \in Nat, str < hi, hi <= Len(c),
         NEW f, Copied(f, c, str, hi)
  PROVE  f = SubSeq(c, str + 1, hi)
<1> DEFINE u == SubSeq(c, str + 1, hi)
<1>1. PICK m \in Nat : m = hi - str
  OBVIOUS
<1>2. f = [j \in 1..m |-> c[str + j]]
  <2>1. f \in Seq(Bytes) /\ Len(f) = m /\ \A j \in 1..m : f[j] = c[str + j]
    BY <1>1 DEF Copied
  <2>2. f = [j \in 1..m |-> f[j]]
    BY <2>1
  <2> QED BY <2>1, <2>2
<1>3. u = [j \in 1..m |-> c[str + j]]
  <2>1. u = [j \in 1..(hi - (str + 1) + 1) |-> c[j + (str + 1) - 1]]
    OBVIOUS
  <2>2. hi - (str + 1) + 1 = m /\ \A j \in 1..m : j + (str + 1) - 1 = str + j
    BY <1>1
  <2> HIDE DEF u
  <2> QED BY <2>1, <2>2
<1> QED BY <1>2, <1>3

(* The chunks and the tail, and where each of them ends.                   *)
Pieces(b) == Append(b.chunks, SubSeq(b.tail, 1, b.fill))
Upper(b, n) == IF n <= Len(b.chunks) THEN n * ChunkSize ELSE Size(b)

(* A chunk, or the tail, holds the bytes of the content at its offset.     *)
LEMMA PieceFacts ==
  ASSUME NEW b \in BufferType, NEW n \in 1..(Len(b.chunks) + 1)
  PROVE  /\ Len(Pieces(b)) = Len(b.chunks) + 1 /\ Pieces(b)[n] \in Seq(Bytes)
         /\ (n - 1) * ChunkSize \in Nat /\ Upper(b, n) \in Nat
         /\ Upper(b, n) = (n - 1) * ChunkSize + Len(Pieces(b)[n])
         /\ Upper(b, n) <= Size(b)
         /\ \A j \in 1..Len(Pieces(b)[n]) :
              Content(b)[(n - 1) * ChunkSize + j] = Pieces(b)[n][j]
<1>1. /\ b.chunks \in Seq(Chunk) /\ b.tail \in Chunk /\ b.fill \in 0..(ChunkSize - 1)
      /\ b.fill \in Nat /\ ChunkSize \in Nat
  BY BufferFields, ChunkAssumption
<1>2. /\ InChunks(b) \in Nat /\ Size(b) = InChunks(b) + b.fill /\ Size(b) \in Nat
      /\ \A k \in 1..Len(b.chunks) : \A j \in 1..ChunkSize :
           Content(b)[(k - 1) * ChunkSize + j] = b.chunks[k][j]
      /\ \A j \in 1..b.fill : Content(b)[InChunks(b) + j] = b.tail[j]
  BY ContentFacts
<1>3. PICK count \in Nat : count = Len(b.chunks)
  BY <1>1
<1> DEFINE u == SubSeq(b.tail, 1, b.fill)
<1>4. b.tail \in Seq(Bytes) /\ Len(b.tail) = ChunkSize
  BY <1>1, ChunkIsSeq
<1>5. u \in Seq(Bytes) /\ Len(u) = b.fill /\ \A j \in 1..b.fill : u[j] = b.tail[j]
  BY <1>1, <1>4, SubSeqProperties, SMTT(40)
<1> HIDE DEF u
<1>6. /\ Len(Pieces(b)) = count + 1 /\ Pieces(b)[count + 1] = u
      /\ \A k \in 1..count : Pieces(b)[k] = b.chunks[k]
  BY <1>1, <1>3 DEF Pieces, u
<1>7. /\ n - 1 \in Nat /\ (n - 1) * ChunkSize \in Nat
      /\ (n - 1) * ChunkSize + ChunkSize = n * ChunkSize
  <2>1. PICK quo \in Nat : quo = n - 1
    BY <1>3
  <2>2. quo * ChunkSize \in Nat /\ (quo + 1) * ChunkSize = quo * ChunkSize + ChunkSize
    BY <1>1, Multiples
  <2>3. quo + 1 = n
    BY <1>3, <2>1
  <2> QED BY <2>1, <2>2, <2>3
<1>8. CASE n = count + 1
  <2>1. (n - 1) * ChunkSize = InChunks(b)
    <3>1. n - 1 = count
      BY <1>8
    <3> QED BY <1>3, <3>1 DEF InChunks
  <2>2. Upper(b, n) = Size(b)
    <3>1. ~(n <= Len(b.chunks))
      BY <1>3, <1>8
    <3> QED BY <3>1 DEF Upper
  <2>3. Pieces(b)[n] = u
    BY <1>6, <1>8
  <2> QED BY <1>2, <1>3, <1>5, <1>6, <2>1, <2>2, <2>3
<1>9. CASE n # count + 1
  <2>1. n \in 1..count
    BY <1>3, <1>9
  <2>2. Pieces(b)[n] \in Seq(Bytes) /\ Len(Pieces(b)[n]) = ChunkSize /\ Pieces(b)[n] = b.chunks[n]
    BY <1>1, <1>3, <1>6, <2>1, ChunkIsSeq
  <2>3. Upper(b, n) = n * ChunkSize
    BY <1>3, <2>1 DEF Upper
  <2>4. n * ChunkSize <= InChunks(b)
    <3>1. PICK quo \in Nat : quo = n - 1 /\ quo < count
      BY <2>1
    <3>2. quo * ChunkSize + ChunkSize <= count * ChunkSize
      BY <1>1, <3>1, MultiplesGrow
    <3>3. n * ChunkSize <= count * ChunkSize
      BY <1>7, <3>1, <3>2
    <3> QED BY <1>3, <3>3 DEF InChunks
  <2>5. Upper(b, n) \in Nat /\ Upper(b, n) <= Size(b)
    <3>1. PICK w \in Nat : w = n * ChunkSize
      BY <1>1, <1>7
    <3> QED BY <1>1, <1>2, <2>3, <2>4, <3>1
  <2>6. \A j \in 1..ChunkSize : Content(b)[(n - 1) * ChunkSize + j] = b.chunks[n][j]
    BY <1>2, <1>3, <2>1
  <2> QED BY <1>3, <1>6, <1>7, <2>2, <2>3, <2>5, <2>6
<1> QED BY <1>8, <1>9

Least(x, y) == IF x < y THEN x ELSE y

(* The part a piece gives: what the range takes of it.                     *)
LEMMA PartFacts ==
  ASSUME NEW b \in BufferType, NEW n \in 1..(Len(b.chunks) + 1),
         NEW end \in 1..Size(b), NEW str \in 0..(end - 1), str < ChunkSize, n > 1
  PROVE  LET p == PartOf(Pieces(b)[n], (n - 1) * ChunkSize, str, end)
             h0 == Least(end, Upper(b, n - 1))
             h1 == Least(end, Upper(b, n))
         IN  /\ h0 \in Nat /\ h1 \in Nat /\ str <= h0 /\ h0 <= h1
             /\ p \in Seq(Bytes) /\ Len(p) = h1 - h0
             /\ \A j \in 1..(h1 - h0) : p[j] = Content(b)[h0 + j]
<1> DEFINE piece == Pieces(b)[n]
           O == (n - 1) * ChunkSize
           c == Content(b)
           p == PartOf(piece, O, str, end)
<1>1. /\ b.chunks \in Seq(Chunk) /\ Len(b.chunks) \in Nat /\ ChunkSize \in Nat /\ Size(b) \in Nat
  BY BufferFields, ChunkAssumption, ContentFacts
<1>2. PICK L \in Nat : L = Len(piece)
  <2>1. piece \in Seq(Bytes)
    BY PieceFacts
  <2> HIDE DEF piece
  <2> QED BY <2>1
<1>3. /\ piece \in Seq(Bytes) /\ O \in Nat /\ Upper(b, n) = O + L /\ O + L <= Size(b)
      /\ \A j \in 1..L : c[O + j] = piece[j]
  BY <1>2, PieceFacts
<1>4. Upper(b, n - 1) = O
  BY <1>1 DEF Upper
<1>5. O >= ChunkSize
  <2>1. PICK quo \in Nat : quo = n - 1 /\ 0 < quo
    BY <1>1
  <2>2. 0 * ChunkSize + ChunkSize <= quo * ChunkSize
    BY <1>1, <2>1, MultiplesGrow
  <2> QED BY <1>1, <2>1, <2>2
<1> HIDE DEF O, c, piece
<1>6. end \in Nat /\ str \in Nat /\ str < end /\ str < O
  BY <1>1, <1>3, <1>5
<1> DEFINE hi == IF end < O + L THEN end - O ELSE L
<1>7. p = SubSeq(piece, 1, hi)
  <2>1. ~(str > O)
    BY <1>3, <1>6
  <2> QED BY <1>2, <2>1 DEF PartOf
<1>8. hi \in Int /\ hi <= L
  BY <1>3, <1>6
<1> HIDE DEF hi, p
<1>9. /\ p \in Seq(Bytes) /\ Len(p) = IF 1 <= hi THEN hi - 1 + 1 ELSE 0
      /\ \A j \in 1..(hi - 1 + 1) : p[j] = piece[1 + j - 1]
  <2>1. 1 \in Nat /\ 1 > 0 /\ hi <= Len(piece)
    BY <1>2, <1>8
  <2> QED BY <1>3, <1>7, <1>8, <2>1, SubSeqBytes
<1> DEFINE h0 == Least(end, O)
           h1 == Least(end, O + L)
<1>10. h0 \in Nat /\ h1 \in Nat /\ str <= h0 /\ h0 <= h1
  BY <1>3, <1>6 DEF Least
<1>11. Len(p) = h1 - h0
  BY <1>3, <1>6, <1>8, <1>9 DEF Least, hi
<1>12. ASSUME NEW j \in 1..(h1 - h0) PROVE p[j] = c[h0 + j]
  <2>1. h0 = O /\ j \in 1..L /\ j \in 1..(hi - 1 + 1) /\ 1 + j - 1 = j
    BY <1>3, <1>6, <1>8 DEF Least, hi
  <2> QED BY <1>3, <1>9, <2>1
<1> HIDE DEF h0, h1
<1> QED BY <1>3, <1>4, <1>9, <1>10, <1>11, <1>12 DEF h0, h1, p, O, c, piece

(* The part of the first piece: the range from its start as far as the     *)
(* piece reaches.                                                          *)
LEMMA FirstPart ==
  ASSUME NEW b \in BufferType,
         NEW end \in 1..Size(b), NEW str \in 0..(end - 1), str < ChunkSize
  PROVE  /\ Least(end, Upper(b, 1)) \in Nat /\ str < Least(end, Upper(b, 1))
         /\ Copied(PartOf(Pieces(b)[1], (1 - 1) * ChunkSize, str, end), Content(b), str,
                   Least(end, Upper(b, 1)))
<1> DEFINE piece == Pieces(b)[1]
           c == Content(b)
           p == PartOf(piece, 0, str, end)
<1>1. /\ b.chunks \in Seq(Chunk) /\ Len(b.chunks) \in Nat /\ ChunkSize \in Nat /\ Size(b) \in Nat
      /\ InChunks(b) \in Nat /\ Size(b) = InChunks(b) + b.fill
  BY BufferFields, ChunkAssumption, ContentFacts
<1>2. 1 \in 1..(Len(b.chunks) + 1) /\ (1 - 1) * ChunkSize = 0
  BY <1>1
<1>3. PICK L \in Nat : L = Len(piece)
  <2>1. Pieces(b)[1] \in Seq(Bytes)
    BY <1>2, PieceFacts
  <2> QED BY <2>1
<1>4. /\ piece \in Seq(Bytes) /\ Upper(b, 1) = (1 - 1) * ChunkSize + L
      /\ \A j \in 1..L : c[(1 - 1) * ChunkSize + j] = piece[j]
  BY <1>2, <1>3, PieceFacts
<1>5. Upper(b, 1) = L /\ \A j \in 1..L : c[j] = piece[j]
  BY <1>2, <1>4
<1>6. end \in Nat /\ str \in Nat /\ str < end /\ str < L
  <2>1. end \in Nat /\ str \in Nat /\ str < end /\ end <= Size(b)
    BY <1>1
  <2>2. CASE 1 <= Len(b.chunks)
    BY <1>1, <1>5, <2>1, <2>2 DEF Upper
  <2>3. CASE ~(1 <= Len(b.chunks))
    BY <1>1, <1>5, <2>1, <2>3 DEF Upper
  <2> QED BY <2>1, <2>2, <2>3
<1> HIDE DEF c, piece
<1> DEFINE hi == IF end < L THEN end ELSE L
<1>7. p = SubSeq(piece, str + 1, hi)
  <2>1. /\ (IF str > 0 THEN str - 0 + 1 ELSE 1) = str + 1
        /\ (IF end < 0 + L THEN end - 0 ELSE L) = hi
    BY <1>6
  <2> HIDE DEF hi
  <2> QED BY <1>3, <2>1, Zenon DEF PartOf
<1>8. hi \in Nat /\ hi <= L /\ str + 1 <= hi /\ hi = Least(end, Upper(b, 1))
  BY <1>5, <1>6 DEF Least
<1> HIDE DEF hi, p
<1>9. /\ p \in Seq(Bytes) /\ Len(p) = IF str + 1 <= hi THEN hi - (str + 1) + 1 ELSE 0
      /\ \A j \in 1..(hi - (str + 1) + 1) : p[j] = piece[(str + 1) + j - 1]
  <2>1. str + 1 \in Nat /\ str + 1 > 0 /\ hi <= Len(piece) /\ hi \in Int
    BY <1>3, <1>6, <1>8
  <2> QED BY <1>4, <1>7, <2>1, SubSeqBytes
<1>10. Len(p) = hi - str
  BY <1>6, <1>8, <1>9
<1>11. ASSUME NEW j \in 1..(hi - str) PROVE p[j] = c[str + j]
  <2>1. j \in 1..(hi - (str + 1) + 1) /\ (str + 1) + j - 1 = str + j /\ str + j \in 1..L
    BY <1>6, <1>8
  <2> QED BY <1>5, <1>9, <2>1
<1>12. Copied(p, c, str, hi)
  BY <1>9, <1>10, <1>11 DEF Copied
<1> QED BY <1>2, <1>6, <1>8, <1>12 DEF p, c, piece

(* The parts of the first k pieces are the range as far as these reach.    *)
LEMMA PartsCopied ==
  ASSUME NEW b \in BufferType, NEW end \in 1..Size(b), NEW str \in 0..(end - 1),
         str < ChunkSize, NEW k \in 1..(Len(b.chunks) + 1)
  PROVE  Copied(FlattenSeq([n \in 1..k |-> PartOf(Pieces(b)[n], (n - 1) * ChunkSize, str, end)]),
                Content(b), str, Least(end, Upper(b, k)))
<1> DEFINE Part(n) == PartOf(Pieces(b)[n], (n - 1) * ChunkSize, str, end)
           parts == [n \in 1..k |-> Part(n)]
           H(n) == Least(end, Upper(b, n))
           c == Content(b)
<1>1. Len(b.chunks) \in Nat /\ k \in Nat /\ k >= 1 /\ str \in Nat
  BY BufferFields, ContentFacts
<1>2. Copied(Part(1), c, str, H(1)) /\ H(1) \in Nat /\ str < H(1)
  BY FirstPart
<1>3. ASSUME NEW n \in 2..k
      PROVE  /\ H(n - 1) \in Nat /\ H(n) \in Nat /\ str <= H(n - 1) /\ H(n - 1) <= H(n)
             /\ Part(n) \in Seq(Bytes) /\ Len(Part(n)) = H(n) - H(n - 1)
             /\ \A j \in 1..(H(n) - H(n - 1)) : Part(n)[j] = c[H(n - 1) + j]
  <2>1. n \in 1..(Len(b.chunks) + 1) /\ n > 1
    BY <1>1
  <2> QED BY <2>1, PartFacts
<1> HIDE DEF Part, H, c
<1>4. \A n \in 1..k : Part(n) \in Seq(Bytes)
  <2>1. SUFFICES ASSUME NEW n \in 1..k PROVE Part(n) \in Seq(Bytes)
    OBVIOUS
  <2>2. CASE n = 1
    BY <1>2, <2>2 DEF Copied
  <2>3. CASE n # 1
    <3>1. n \in 2..k
      BY <1>1, <2>3
    <3> QED BY <1>3, <3>1
  <2> QED BY <2>2, <2>3
<1>5. parts \in Seq(Seq(Bytes)) /\ Len(parts) = k /\ \A n \in 1..k : parts[n] = Part(n)
  BY <1>1, <1>4
<1> HIDE DEF parts
<1>6. PICK f \in [0..Len(parts) -> Seq(Bytes)] :
        /\ f[0] = <<>> /\ \A n \in 1..Len(parts) : f[n] = f[n - 1] \o parts[n]
        /\ FlattenSeq(parts) = f[Len(parts)]
  BY <1>5, Flattening
<1>7. /\ f[0] = <<>> /\ \A n \in 1..k : f[n] = f[n - 1] \o Part(n)
      /\ FlattenSeq(parts) = f[k]
  BY <1>5, <1>6
<1> DEFINE I == {n \in 0..k : n = 0 \/ Copied(f[n], c, str, H(n))}
<1>8. 0 \in I
  BY <1>1
<1>9. ASSUME NEW n \in 1..k, n - 1 \in I
      PROVE  n \in I
  <2>1. n \in 0..k /\ n - 1 \in 0..k
    BY <1>1
  <2>2. CASE n = 1
    <3>1. f[1] = <<>> \o Part(1)
      <4>1. 1 \in 1..k /\ 1 - 1 = 0
        BY <1>1
      <4>2. f[1] = f[1 - 1] \o Part(1)
        BY <1>7, <4>1
      <4> QED BY <1>7, <4>1, <4>2
    <3>2. Part(1) \in Seq(Bytes)
      BY <1>1, <1>4
    <3>3. f[1] = Part(1)
      BY <3>1, <3>2
    <3> QED BY <1>2, <2>1, <2>2, <3>3
  <2>3. CASE n # 1
    <3>1. n \in 2..k /\ n - 1 # 0
      BY <1>1, <2>3
    <3>2. Copied(f[n - 1], c, str, H(n - 1))
      BY <1>9, <3>1
    <3>3. Copied(f[n - 1] \o Part(n), c, str, H(n))
      BY <1>1, <1>3, <3>1, <3>2, CopiedMore
    <3> QED BY <1>7, <2>1, <3>3
  <2> QED BY <2>2, <2>3
<1> HIDE DEF I
<1>10. 0..k \subseteq I
  BY <1>1, <1>8, <1>9, Induction
<1>11. Copied(f[k], c, str, H(k))
  BY <1>1, <1>10 DEF I
<1> QED BY <1>7, <1>11 DEF parts, Part, H, c

(* The loop ends at the first chunk that begins at or after the end of the *)
(* range, or at the first chunk at all when the range begins beyond it.    *)
LEMMA SubStringFacts ==
  ASSUME NEW b \in BufferType, NEW end \in 1..Size(b), NEW str \in 0..(end - 1)
  PROVE  WriteToOffSet(b, str, end) =
           IF b.chunks = <<>> \/ str < ChunkSize
           THEN SubSeq(Content(b), str + 1, end) ELSE <<>>
<1> DEFINE ends(n) == (n - 1) * ChunkSize >= end \/ str >= (n - 1) * ChunkSize + n * ChunkSize
           Stops(n) == ends(n) /\ \A m \in 1..(n - 1) : ~ends(m)
           stop == IF \E n \in DOMAIN b.chunks : ends(n)
                   THEN CHOOSE n \in DOMAIN b.chunks : Stops(n)
                   ELSE Len(Pieces(b)) + 1
           Parts(k) == [n \in 1..k |-> PartOf(Pieces(b)[n], (n - 1) * ChunkSize, str, end)]
<1>1. WriteToOffSet(b, str, end) = FlattenSeq(Parts(stop - 1))
  BY Zenon DEF WriteToOffSet, Pieces
<1>2. PICK count \in Nat : count = Len(b.chunks) /\ DOMAIN b.chunks = 1..count
  BY BufferFields
<1>3. /\ ChunkSize \in Nat /\ ChunkSize > 0 /\ Size(b) \in Nat /\ b.chunks \in Seq(Chunk)
      /\ b.fill \in 0..(ChunkSize - 1) /\ Size(b) = InChunks(b) + b.fill
      /\ Content(b) \in Seq(Bytes) /\ Len(Content(b)) = Size(b)
  BY BufferFields, ContentFacts, ChunkAssumption
<1>4. end \in Nat /\ str \in Nat /\ str < end /\ end <= Size(b)
  BY <1>3
<1>5. Len(Pieces(b)) = count + 1
  <2>1. 1 \in 1..(Len(b.chunks) + 1)
    BY <1>2
  <2> QED BY <1>2, <2>1, PieceFacts
<1> HIDE DEF Parts
<1>6. ASSUME \E n \in 1..count : ends(n)
      PROVE  stop \in 1..count /\ Stops(stop)
  <2> DEFINE E == {n \in 1..count : ends(n)}
  <2> HIDE DEF ends
  <2>1. E \subseteq Nat /\ E # {}
    BY <1>6
  <2>2. PICK x \in E : \A y \in E : x <= y
    <3> HIDE DEF E
    <3> QED BY <2>1, LeastNat
  <2>3. x \in 1..count /\ ends(x) /\ \A y \in 1..count : ends(y) => x <= y
    BY <2>2
  <2> HIDE DEF E
  <2>4. Stops(x)
    <3>1. ASSUME NEW m \in 1..(x - 1), ends(m) PROVE FALSE
      <4>1. m \in 1..count /\ ~(x <= m)
        BY <2>3
      <4> QED BY <2>3, <3>1, <4>1
    <3> QED BY <2>3, <3>1
  <2> HIDE DEF Stops
  <2>5. stop = CHOOSE n \in 1..count : Stops(n)
    BY <1>2, <1>6
  <2> QED BY <2>3, <2>4, <2>5
<1>7. ASSUME ~\E n \in 1..count : ends(n)
      PROVE  stop = count + 2
  <2> HIDE DEF ends
  <2>1. stop = Len(Pieces(b)) + 1
    BY <1>2, <1>7
  <2> HIDE DEF stop
  <2> QED BY <1>5, <2>1
<1> HIDE DEF stop
<1>8. CASE b.chunks = <<>> \/ str < ChunkSize
  <2>1. str < ChunkSize
    <3>1. CASE b.chunks = <<>>
      <4>1. Len(b.chunks) = 0
        BY <3>1
      <4>2. InChunks(b) = 0
        BY <1>3, <4>1 DEF InChunks
      <4> QED BY <1>3, <1>4, <4>2
    <3> QED BY <1>8, <3>1
  <2>2. stop - 1 \in 1..(count + 1) /\ end <= Upper(b, stop - 1)
    <3>1. CASE \E n \in 1..count : ends(n)
      <4>1. stop \in 1..count /\ ends(stop)
        BY <1>6, <3>1
      <4>2. PICK quo \in Nat : quo = stop - 1 /\ stop = quo + 1
        BY <4>1
      <4>3. quo * ChunkSize \in Nat /\ (quo + 1) * ChunkSize = quo * ChunkSize + ChunkSize
        BY <1>3, Multiples
      <4>4. quo * ChunkSize >= end
        <5>1. quo * ChunkSize >= end \/ str >= quo * ChunkSize + (quo + 1) * ChunkSize
          BY <4>1, <4>2
        <5> DEFINE Q == quo * ChunkSize
        <5>2. Q \in Nat /\ (Q >= end \/ str >= Q + (Q + ChunkSize))
          BY <4>3, <5>1
        <5> HIDE DEF Q
        <5>3. Q >= end
          BY <1>3, <1>4, <2>1, <5>2
        <5> QED BY <5>3 DEF Q
      <4>5. quo # 0
        <5>1. quo = 0 => quo * ChunkSize = 0
          BY <1>3
        <5> QED BY <1>4, <4>4, <5>1
      <4>6. quo \in 1..(count + 1) /\ quo <= Len(b.chunks)
        BY <1>2, <4>1, <4>2, <4>5
      <4>7. end <= Upper(b, quo)
        BY <4>4, <4>6 DEF Upper
      <4> QED BY <4>2, <4>6, <4>7
    <3>2. CASE ~\E n \in 1..count : ends(n)
      <4>1. stop = count + 2
        BY <1>7, <3>2
      <4>2. stop - 1 = count + 1
        BY <4>1
      <4>3. Upper(b, count + 1) = Size(b)
        BY <1>2 DEF Upper
      <4> QED BY <1>4, <4>2, <4>3
    <3> QED BY <3>1, <3>2
  <2>3. PICK k \in 1..(Len(b.chunks) + 1) : k = stop - 1
    BY <1>2, <2>2
  <2>4. Copied(FlattenSeq(Parts(k)), Content(b), str, Least(end, Upper(b, k)))
    BY <2>1, PartsCopied DEF Parts
  <2>5. Least(end, Upper(b, k)) = end
    <3>1. Upper(b, k) \in Nat
      BY PieceFacts
    <3> QED BY <1>4, <2>2, <2>3, <3>1 DEF Least
  <2>6. FlattenSeq(Parts(k)) = SubSeq(Content(b), str + 1, end)
    BY <1>3, <1>4, <2>4, <2>5, CopiedIsSubSeq
  <2> QED BY <1>1, <1>8, <2>3, <2>6
<1>9. CASE ~(b.chunks = <<>> \/ str < ChunkSize)
  <2>1. count >= 1 /\ str >= ChunkSize
    BY <1>2, <1>3, <1>4, <1>9
  <2>2. ends(1)
    <3>1. (1 - 1) * ChunkSize = 0 /\ 1 * ChunkSize = ChunkSize
      BY <1>3
    <3> QED BY <1>3, <2>1, <3>1
  <2> HIDE DEF ends
  <2>3. \E n \in 1..count : ends(n)
    BY <2>1, <2>2
  <2>4. stop \in 1..count /\ Stops(stop)
    BY <1>6, <2>3
  <2>5. stop = 1
    <3>1. SUFFICES ASSUME stop # 1 PROVE FALSE
      OBVIOUS
    <3>2. 1 \in 1..(stop - 1)
      BY <2>4, <3>1
    <3> QED BY <2>2, <2>4, <3>2
  <2>6. Parts(stop - 1) = <<>>
    BY <2>5 DEF Parts
  <2>7. FlattenSeq(<<>>) = <<>>
    <3>1. <<>> \in Seq(Seq(Bytes)) /\ Len(<<>>) = 0
      OBVIOUS
    <3>2. PICK f \in [0..Len(<<>>) -> Seq(Bytes)] : f[0] = <<>> /\ FlattenSeq(<<>>) = f[Len(<<>>)]
      BY <3>1, Flattening
    <3> QED BY <3>1, <3>2
  <2> QED BY <1>1, <1>9, <2>6, <2>7
<1> QED BY <1>8, <1>9

(* WriteTo and SubString (internalBufferWriteToOffSet) write the bytes of  *)
(* the range when it starts in the first chunk or nothing is in chunks,    *)
(* for every buffer and every range.                                       *)
THEOREM SubStringIsExact == BufferSpec => []SubStringExact
<1>1. BufferInv => SubStringExact
  <2>1. SUFFICES ASSUME BufferInv, NEW end \in 1..Size(buf), NEW str \in 0..(end - 1),
                        buf.chunks = <<>> \/ str < ChunkSize
                 PROVE  WriteToOffSet(buf, str, end) = SubSeq(Content(buf), str + 1, end)
    BY Zenon DEF SubStringExact
  <2>2. buf \in BufferType
    BY <2>1 DEF BufferInv, BufferTypeOK
  <2> QED BY <2>1, <2>2, SubStringFacts
<1> QED BY <1>1, BufferInvariant, PTL

=============================================================================
