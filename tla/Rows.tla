------------------------------- MODULE Rows -------------------------------
(***************************************************************************)
(* The look-ahead cursor of package dbms: rows (rows.go) over the driver's *)
(* rows object dbirows, driven by reader.Next (reader.go), and the closing *)
(* of both by reader.Close and statement.Close (statement.go).             *)
(*                                                                         *)
(* reader.Next must know whether a record is the last one, so nextRec      *)
(* always holds one accepted row back: nxtdta is the row found by looking  *)
(* ahead, lstdta the one about to be delivered, dta the delivered one.     *)
(* One goroutine calls Next; another one (dbmshandler.Close of a session   *)
(* that ends) may call reader.Close at any moment of it.  Nothing is       *)
(* locked: prepRecord, reader.Close and rows.Close read and write the      *)
(* fields one by one, so each is a sequence of steps here.                 *)
(*                                                                         *)
(* A row is its position 1..N in the driver's result; Nil is an empty      *)
(* buffer and Torn the buffer left behind by a failed Scan.                *)
(***************************************************************************)
EXTENDS Integers, Sequences, FiniteSets

CONSTANT N          \* the number of rows the query produces

ASSUME NAssumption == N \in Nat

Nil  == 0
Torn == -1
Row  == 1 .. N
Buf  == Row \cup {Nil, Torn}

VARIABLES
  q,        \* the query: which rows are selected and which calls fail
  irows,    \* dbirows: rows read so far and whether it is closed
  r,        \* the fields of struct rows
  pc,       \* where the goroutine that called reader.Next stands
  phase,    \* nextRec: "seek" the first accepted row, or look "ahead"
  rdrc,     \* nextRec's local: the result of the last readRow
  evt,      \* Next's local evnts: a Select event was installed
  rdr,      \* the fields of struct reader, and its statement's rows
  cl,       \* the calls of reader.Close: where each stands, what it holds
  rwsc,     \* the calls of rows.Close: where each stands
  closedBy, \* history: who began to close the reader first
  erred,    \* history: a call on the driver has failed
  out,      \* history: the records Next returned before anyone else closed
  late      \* history: how many it returned after that

vars == <<q, irows, r, pc, phase, rdrc, evt, rdr, cl, rwsc, closedBy, erred,
          out, late>>

(***************************************************************************)
(* The query, fixed while the cursor lives: evt, a Select event is         *)
(* installed; sel, the buffers it accepts (all of them without one);       *)
(* badRead and badScan, the call of Next and of Scan that fails (0: none); *)
(* badCols, ColumnTypes fails.                                             *)
(***************************************************************************)
Query ==
  { x \in [evt : BOOLEAN, sel : SUBSET Buf, badRead : 0 .. N + 1,
           badScan : 0 .. N, badCols : BOOLEAN] : ~x.evt => x.sel = Buf }

(* slct: r.sctltd is the Select event (and not dummyslct). *)
RowsStruct ==
  [open : BOOLEAN, cols : BOOLEAN, started : BOOLEAN, first : BOOLEAN,
   last : BOOLEAN, swpdta : BOOLEAN, lsterr : BOOLEAN, slct : BOOLEAN,
   rwnr : Nat, dta : Buf, nxtdta : Buf, lstdta : Buf]

Record == [row : Buf, nr : Nat, first : BOOLEAN, last : BOOLEAN]

NoRecord == [row |-> Nil, nr |-> 0, first |-> FALSE, last |-> FALSE]

(* The reader: its statement, its rows, its events and rc, whether there   *)
(* is a record and what it holds; srows, the statement's rows.             *)
ReaderStruct ==
  [stmnt : BOOLEAN, rws : BOOLEAN, evt : BOOLEAN, made : BOOLEAN,
   rc : Record, srows : BOOLEAN]

Closers == {"next", "other"}

(* rows.Close is called by nextRec itself and, in a goroutine, for each    *)
(* reader.Close that found the statement's rows.                           *)
RowsClosers == Closers \cup {"rec"}

(* &rows{IRows: &dbirows{...}} and &reader{stmnt: s, rws: s.rows}. *)
Init ==
  /\ q \in Query
  /\ irows = [pos |-> 0, closed |-> FALSE]
  /\ r = [open |-> TRUE, cols |-> FALSE, started |-> FALSE, first |-> FALSE,
          last |-> FALSE, swpdta |-> FALSE, lsterr |-> FALSE, slct |-> FALSE,
          rwnr |-> 0, dta |-> Nil, nxtdta |-> Nil, lstdta |-> Nil]
  /\ pc = "idle"
  /\ phase = "seek"
  /\ rdrc = FALSE
  /\ evt = FALSE
  /\ rdr = [stmnt |-> TRUE, rws |-> TRUE, evt |-> q.evt, made |-> FALSE,
            rc |-> NoRecord, srows |-> TRUE]
  /\ cl = [w \in Closers |-> [at |-> "none", stmnt |-> FALSE, rows |-> FALSE]]
  /\ rwsc = [w \in RowsClosers |-> "none"]
  /\ closedBy = "none"
  /\ erred = FALSE
  /\ out = << >>
  /\ late = 0

---------------------------------------------------------------------------
(* Seeded faults: variants of definitions below with a plausible mistake,  *)
(* used to show that each property can fail. No behaviour of Spec uses     *)
(* them.                                                                   *)
\* Advance forgets to reset first
AdvanceKeepsFirst(s) == [s EXCEPT !.lstdta = s.nxtdta, !.rwnr = @ + 1]

\* Hold forgets rwnr++
HoldUncounted(s) == [s EXCEPT !.lstdta = s.nxtdta]

\* Show copies the wrong buffer
ShowAhead(s, end) ==
  [s EXCEPT !.swpdta = FALSE, !.last = end, !.dta = s.nxtdta]

\* statement.Close takes its rows and does not close them
StatementCloseForgets(w) ==
  /\ cl[w].at = "close"
  /\ rdr' = [rdr EXCEPT !.srows = FALSE]
  /\ cl' = [cl EXCEPT ![w].at = "done"]
  /\ UNCHANGED <<q, irows, r, pc, phase, rdrc, evt, rwsc, closedBy, erred,
                 out, late>>

\* the end met while looking ahead drops the row held back
EndsAtLastRow == r.lsterr \/ ~rdrc

\* prepRecord uses rc before it is made
PanicsWithoutRecord == ~rdr.made

\* the look-ahead skips selected rows
AcceptedSeeking == (r.slct => rdr.rc.row \in q.sel) /\ phase = "seek"

\* Next says false without closing the reader
ReturnFalseLeavesOpen ==
  /\ pc = "false"
  /\ pc' = "idle"
  /\ UNCHANGED <<q, irows, r, phase, rdrc, evt, rdr, cl, rwsc, closedBy,
                 erred, out, late>>

---------------------------------------------------------------------------
(* Data() and RowNR(): during the look-ahead the candidate is shown. *)
Data(s)  == IF s.swpdta THEN s.nxtdta ELSE s.dta
RowNR(s) == IF s.swpdta THEN s.rwnr + 1 ELSE s.rwnr

(* A later call moves the row found ahead to the one to deliver: First()   *)
(* no longer holds, lstdta := nxtdta, rwnr++.                              *)
Advance(s) ==
  [s EXCEPT !.first = FALSE, !.lstdta = s.nxtdta, !.rwnr = @ + 1]

(* The first accepted row is held back: lstdta := nxtdta, rwnr++. *)
Hold(s) == [s EXCEPT !.lstdta = s.nxtdta, !.rwnr = @ + 1]

(* nextRec returns true: dta := lstdta, and the end of the rows if known.  *)
(* The copy goes into the slice nextRec was called with, which is no       *)
(* longer that of the rows once a rows.Close has dropped it.               *)
Show(s, end) ==
  [s EXCEPT !.swpdta = FALSE, !.last = end,
            !.dta = IF s.cols THEN s.lstdta ELSE Nil]

---------------------------------------------------------------------------
(* reader.Close from another goroutine, at any moment. *)
CloseByOther ==
  /\ cl["other"].at = "none"
  /\ cl' = [cl EXCEPT !["other"].at = "evnts"]
  /\ closedBy' = IF closedBy = "none" THEN "other" ELSE closedBy
  /\ UNCHANGED <<q, irows, r, pc, phase, rdrc, evt, rdr, rwsc, erred, out,
                 late>>

(* reader.Close drops the reader's fields one after the other: the         *)
(* statement is read and the events go, then the record, the statement     *)
(* and the rows. (The record taken out is emptied at the end, 285-289:     *)
(* seen only by who has kept it; the handler's side, 278-284, is in        *)
(* Sessions.)                                                              *)
CloseDrops(w) ==
  /\ \/ /\ cl[w].at = "evnts"
        /\ cl' = [cl EXCEPT ![w].at = "rc", ![w].stmnt = rdr.stmnt]
        /\ rdr' = [rdr EXCEPT !.evt = FALSE]
     \/ /\ cl[w].at = "rc"
        /\ cl' = [cl EXCEPT ![w].at = "stmnt"]
        /\ rdr' = [rdr EXCEPT !.made = FALSE, !.rc = NoRecord]
     \/ /\ cl[w].at = "stmnt"
        /\ cl' = [cl EXCEPT ![w].at = "rws"]
        /\ rdr' = [rdr EXCEPT !.stmnt = FALSE]
     \/ /\ cl[w].at = "rws"
        /\ cl' = [cl EXCEPT ![w].at = IF cl[w].stmnt THEN "take" ELSE "done"]
        /\ rdr' = [rdr EXCEPT !.rws = FALSE]
  /\ UNCHANGED <<q, irows, r, pc, phase, rdrc, evt, rwsc, closedBy, erred,
                 out, late>>

(* statement.Close reads its rows, *)
StatementTakes(w) ==
  /\ cl[w].at = "take"
  /\ cl' = [cl EXCEPT ![w].at = "close", ![w].rows = rdr.srows]
  /\ UNCHANGED <<q, irows, r, pc, phase, rdrc, evt, rdr, rwsc, closedBy,
                 erred, out, late>>

(* forgets them and starts a goroutine for rows.Close. *)
StatementCloses(w) ==
  /\ cl[w].at = "close"
  /\ rdr' = [rdr EXCEPT !.srows = FALSE]
  /\ rwsc' = IF cl[w].rows THEN [rwsc EXCEPT ![w] = "dta"] ELSE rwsc
  /\ cl' = [cl EXCEPT ![w].at = "done"]
  /\ UNCHANGED <<q, irows, r, pc, phase, rdrc, evt, closedBy, erred, out,
                 late>>

(* rows.Close drops the data and the columns, then the driver's rows and   *)
(* the last error (forgotten with the rest), and closes the driver's rows  *)
(* if it was the one to drop them.                                         *)
RowsClose(w) ==
  /\ \/ /\ rwsc[w] = "dta"
        /\ r' = [r EXCEPT !.dta = Nil, !.cols = FALSE]
        /\ rwsc' = [rwsc EXCEPT ![w] = "irows"]
        /\ UNCHANGED irows
     \/ /\ rwsc[w] = "irows"
        /\ r' = [r EXCEPT !.open = FALSE, !.lsterr = FALSE]
        /\ rwsc' = [rwsc EXCEPT ![w] = IF r.open THEN "driver" ELSE "done"]
        /\ UNCHANGED irows
     \/ /\ rwsc[w] = "driver"
        /\ irows' = [irows EXCEPT !.closed = TRUE]
        /\ rwsc' = [rwsc EXCEPT ![w] = "done"]
        /\ UNCHANGED r
  /\ UNCHANGED <<q, pc, phase, rdrc, evt, rdr, cl, closedBy, erred, out, late>>

(* A rows.Close stands before the close of the driver's rows: a call on    *)
(* the driver begun now may find them closed when it looks again.          *)
Closing == \E w \in RowsClosers : rwsc[w] \in {"irows", "driver"}

---------------------------------------------------------------------------
(* reader.Next reads the rows and the events. (On a reader without rows it *)
(* only says false: not a step.)                                           *)
NextCall ==
  /\ pc = "idle"
  /\ rdr.rws
  /\ evt' = rdr.evt
  /\ pc' = "cols"
  /\ UNCHANGED <<q, irows, r, phase, rdrc, rdr, cl, rwsc, closedBy, erred,
                 out, late>>

(* Columns: an error of the driver's ColumnTypes is kept in lsterr. *)
ColsFail ==
  IF r.cols \/ ~r.open THEN {FALSE}
  ELSE IF q.badCols THEN {TRUE}
  ELSE IF Closing THEN BOOLEAN ELSE {FALSE}

(* SelectNext loads the columns when there are none, and leaves at once    *)
(* when that fails; before the first row it installs the Select function.  *)
SelectCols ==
  /\ pc = "cols"
  /\ \/ /\ TRUE \in ColsFail
        /\ r' = [r EXCEPT !.lsterr = TRUE]
        /\ erred' = TRUE
        /\ pc' = "false"
     \/ /\ FALSE \in ColsFail
        /\ r' = [r EXCEPT !.cols = @ \/ r.open,
                          !.slct = IF r.started THEN @ ELSE evt]
        /\ pc' = "irows"
        /\ UNCHANGED erred
  /\ UNCHANGED <<q, irows, phase, rdrc, evt, rdr, cl, rwsc, closedBy, out,
                 late>>

(* SelectNext reads IRows; nextRec says false on rows whose last record    *)
(* was delivered; it starts with the first row or, later on, moves the row *)
(* found ahead to the one to deliver.                                      *)
NextRec ==
  /\ pc = "irows"
  /\ \/ /\ ~r.open \/ r.last
        /\ pc' = "false"
        /\ UNCHANGED <<r, phase>>
     \/ /\ r.open /\ ~r.last /\ ~r.started
        /\ r' = [r EXCEPT !.first = TRUE, !.started = TRUE]
        /\ phase' = "seek"
        /\ pc' = "read"
     \/ /\ r.open /\ ~r.last /\ r.started
        /\ r' = Advance(r)
        /\ phase' = "ahead"
        /\ pc' = "read"
  /\ UNCHANGED <<q, irows, rdrc, evt, rdr, cl, rwsc, closedBy, erred, out,
                 late>>

(* readRow: irows.Next() and irows.Err(). A closed dbirows has no row and  *)
(* no error; a Close between the two calls hides the error.                *)
ReadFails == ~irows.closed /\ q.badRead = irows.pos + 1

ReadFinds == ~irows.closed /\ ~ReadFails /\ irows.pos < N

ReadRow ==
  /\ pc = "read"
  /\ irows' = [irows EXCEPT !.pos = IF ReadFinds THEN @ + 1 ELSE @]
  /\ rdrc' = ReadFinds
  /\ \E err \in IF Closing THEN {ReadFails, FALSE} ELSE {ReadFails} :
       r' = [r EXCEPT !.lsterr = err]
  /\ erred' = (erred \/ ReadFails)
  /\ pc' = "readchk"
  /\ UNCHANGED <<q, phase, evt, rdr, cl, rwsc, closedBy, out, late>>

(* An error closes the rows and ends the call with false; so does the end  *)
(* of the driver's rows before any row was accepted. At the end of the     *)
(* look-ahead the row held back is delivered as the last one.              *)
EndsWithFalse == r.lsterr \/ (~rdrc /\ phase = "seek")

ReadCheck ==
  /\ pc = "readchk"
  /\ \/ /\ EndsWithFalse
        /\ rwsc' = [rwsc EXCEPT !["rec"] = "dta"]
        /\ pc' = "rclose"
        /\ UNCHANGED r
     \/ /\ ~EndsWithFalse /\ ~rdrc
        /\ r' = Show(r, TRUE)
        /\ pc' = "prep"
        /\ UNCHANGED rwsc
     \/ /\ ~EndsWithFalse /\ rdrc
        /\ r' = [r EXCEPT !.swpdta = TRUE]
        /\ pc' = "scan"
        /\ UNCHANGED rwsc
  /\ UNCHANGED <<q, irows, phase, rdrc, evt, rdr, cl, closedBy, erred, out,
                 late>>

(* scanRow: irows.Scan(nxtdta...). A failed Scan leaves a torn buffer. On  *)
(* rows closed meanwhile Scan either finds dbrows gone and leaves the      *)
(* buffer as it was, or had it in hand and fails.                          *)
ScanRow ==
  /\ pc = "scan"
  /\ \E fails \in IF irows.closed THEN BOOLEAN ELSE {q.badScan = irows.pos} :
       /\ r' = [r EXCEPT !.lsterr = fails,
                         !.nxtdta = IF irows.closed THEN @
                                    ELSE IF fails THEN Torn ELSE irows.pos]
       /\ erred' = (erred \/ fails)
  /\ pc' = "scanchk"
  /\ UNCHANGED <<q, irows, phase, rdrc, evt, rdr, cl, rwsc, closedBy, out,
                 late>>

ScanCheck ==
  /\ pc = "scanchk"
  /\ \/ /\ r.lsterr
        /\ rwsc' = [rwsc EXCEPT !["rec"] = "dta"]
        /\ pc' = "rclose"
     \/ /\ ~r.lsterr
        /\ pc' = IF r.slct THEN "prep" ELSE "judge"
        /\ UNCHANGED rwsc
  /\ UNCHANGED <<q, irows, r, phase, rdrc, evt, rdr, cl, closedBy, erred, out,
                 late>>

(* nextRec returns false when its r.Close() has returned. *)
RecClosed ==
  /\ pc = "rclose"
  /\ rwsc["rec"] = "done"
  /\ pc' = "false"
  /\ UNCHANGED <<q, irows, r, phase, rdrc, evt, rdr, cl, rwsc, closedBy,
                 erred, out, late>>

---------------------------------------------------------------------------
(* prepRecord, called by the Select function for the candidate (swpdta) and *)
(* by Next for the record to return.  It reads rc,                          *)
PrepRecord ==
  /\ pc = "prep"
  /\ pc' = IF rdr.made THEN "fill" ELSE "make"
  /\ UNCHANGED <<q, irows, r, phase, rdrc, evt, rdr, cl, rwsc, closedBy,
                 erred, out, late>>

AfterPrep == IF r.swpdta THEN "judge" ELSE "return"

CurrentRecord ==
  [row |-> Data(r), nr |-> RowNR(r), first |-> r.first, last |-> r.last]

(* refreshes the record that it found (nobody sees that if the reader was   *)
(* closed meanwhile),                                                       *)
FillRecord ==
  /\ pc = "fill"
  /\ rdr' = IF rdr.made THEN [rdr EXCEPT !.rc = CurrentRecord] ELSE rdr
  /\ pc' = AfterPrep
  /\ UNCHANGED <<q, irows, r, phase, rdrc, evt, cl, rwsc, closedBy, erred,
                 out, late>>

(* On a reader closed meanwhile rdr.rws.Err() dereferences nil. *)
Panics == ~rdr.rws

(* or asks for the columns and for an error (there is none: nextRec has     *)
(* checked lsterr, so 180-181 are not reached)                              *)
AskErr ==
  /\ pc = "make"
  /\ pc' = IF Panics THEN "panic" ELSE "new"
  /\ UNCHANGED <<q, irows, r, phase, rdrc, evt, rdr, cl, rwsc, closedBy,
                 erred, out, late>>

(* and makes a new record, also on a reader closed meanwhile. *)
NewRecord ==
  /\ pc = "new"
  /\ rdr' = [rdr EXCEPT !.made = TRUE, !.rc = CurrentRecord]
  /\ pc' = AfterPrep
  /\ UNCHANGED <<q, irows, r, phase, rdrc, evt, cl, rwsc, closedBy, erred,
                 out, late>>

(* calselect(rdr.rc): the event sees the record that the reader has now.    *)
Accepted == r.slct => rdr.rc.row \in q.sel

(* r.sctltd(r) has answered. An accepted row is the first one (hold it back *)
(* and look ahead) or the one after the row to deliver; a rejected one is   *)
(* skipped.                                                                 *)
Judge ==
  /\ pc = "judge"
  /\ \/ /\ ~Accepted
        /\ pc' = "read"
        /\ UNCHANGED <<r, phase>>
     \/ /\ Accepted /\ phase = "seek"
        /\ r' = Hold(r)
        /\ phase' = "ahead"
        /\ pc' = "read"
     \/ /\ Accepted /\ phase = "ahead"
        /\ r' = Show(r, r.last)
        /\ pc' = "prep"
        /\ UNCHANGED phase
  /\ UNCHANGED <<q, irows, rdrc, evt, rdr, cl, rwsc, closedBy, erred, out,
                 late>>

(* reader.Next returns true, and the caller reads the reader's record. *)
ReturnTrue ==
  /\ pc = "return"
  /\ pc' = "idle"
  /\ IF closedBy = "other"
     THEN late' = late + 1 /\ UNCHANGED out
     ELSE out' = Append(out, rdr.rc) /\ UNCHANGED late
  /\ UNCHANGED <<q, irows, r, phase, rdrc, evt, rdr, cl, rwsc, closedBy,
                 erred>>

(* reader.Next after nextRec said false: the reader is closed. *)
ReturnFalse ==
  /\ pc = "false"
  /\ cl' = [cl EXCEPT !["next"].at = "evnts"]
  /\ closedBy' = IF closedBy = "none" THEN "next" ELSE closedBy
  /\ pc' = "closing"
  /\ UNCHANGED <<q, irows, r, phase, rdrc, evt, rdr, rwsc, erred, out, late>>

(* That Close has returned, and Next returns false. *)
NextEnds ==
  /\ pc = "closing"
  /\ cl["next"].at = "done"
  /\ pc' = "idle"
  /\ UNCHANGED <<q, irows, r, phase, rdrc, evt, rdr, cl, rwsc, closedBy,
                 erred, out, late>>

NextSteps ==
  \/ SelectCols \/ NextRec \/ ReadRow \/ ReadCheck \/ ScanRow \/ ScanCheck
  \/ RecClosed \/ PrepRecord \/ FillRecord \/ AskErr \/ NewRecord \/ Judge
  \/ ReturnTrue \/ ReturnFalse \/ NextEnds

ReaderClose(w) == CloseDrops(w) \/ StatementTakes(w) \/ StatementCloses(w)

Next ==
  \/ NextCall \/ NextSteps \/ CloseByOther
  \/ \E w \in Closers : ReaderClose(w)
  \/ \E w \in RowsClosers : RowsClose(w)

Spec == Init /\ [][Next]_vars

(* Goroutines run: a call that has begun goes on, the caller loops until   *)
(* Next says false, and the goroutines of statement.Close finish. Nobody   *)
(* has to close the reader from outside.                                   *)
Fairness ==
  /\ WF_vars(NextCall)
  /\ WF_vars(NextSteps)
  /\ \A w \in Closers : WF_vars(ReaderClose(w))
  /\ \A w \in RowsClosers : WF_vars(RowsClose(w))

FairSpec == Spec /\ Fairness
---------------------------------------------------------------------------
TypeOK ==
  /\ q \in Query
  /\ irows \in [pos : 0 .. N, closed : BOOLEAN]
  /\ r \in RowsStruct
  /\ pc \in {"idle", "cols", "irows", "read", "readchk", "scan", "scanchk",
             "rclose", "prep", "fill", "make", "new", "judge", "return",
             "false", "closing", "panic"}
  /\ phase \in {"seek", "ahead"}
  /\ rdrc \in BOOLEAN
  /\ evt \in BOOLEAN
  /\ rdr \in ReaderStruct
  /\ cl \in [Closers ->
               [at : {"none", "evnts", "rc", "stmnt", "rws", "take", "close",
                      "done"}, stmnt : BOOLEAN, rows : BOOLEAN]]
  /\ rwsc \in [RowsClosers -> {"none", "dta", "irows", "driver", "done"}]
  /\ closedBy \in {"none", "next", "other"}
  /\ erred \in BOOLEAN
  /\ out \in Seq(Record)
  /\ late \in Nat

(* No selected row lies strictly between two positions. *)
NoneBetween(a, b) == \A s \in q.sel : s \in Row => ~(a < s /\ s < b)

RowBefore(i) == IF i = 1 THEN 0 ELSE out[i - 1].row

(* Whatever fails in the middle, the records Next has returned before      *)
(* another goroutine began to close the reader are the selected rows from  *)
(* the first on, none skipped or repeated, each with its own buffer and    *)
(* numbered from one.                                                      *)
DeliversSelectedInOrder ==
  \A i \in 1 .. Len(out) :
    /\ out[i].row \in q.sel \cap Row
    /\ RowBefore(i) < out[i].row
    /\ NoneBetween(RowBefore(i), out[i].row)
    /\ out[i].nr = i

(* In those records First() is told of the first one and Last() of exactly *)
(* the record after which no selected row remains, also when the rows in   *)
(* between are rejected by Select and the end is met while looking ahead.  *)
FlagsAreExact ==
  \A i \in 1 .. Len(out) :
    /\ out[i].first = (i = 1)
    /\ out[i].last = NoneBetween(out[i].row, N + 1)

LastRow == IF out = << >> THEN 0 ELSE out[Len(out)].row

(* Next says false by itself only after every selected row was delivered,  *)
(* unless a call on the driver failed.                                     *)
CompleteUnlessFailed ==
  closedBy = "next" /\ ~erred => NoneBetween(LastRow, N + 1)

(* The selected rows that were read without error and not delivered. *)
Undelivered ==
  { s \in q.sel \cap Row : LastRow < s /\ s <= irows.pos /\ s # q.badScan }

(* A failing driver costs the row held back for the look-ahead and no      *)
(* other: when Next ends on an error, of the selected rows read before it  *)
(* at most one was not delivered.                                          *)
AtMostOneRowLost ==
  closedBy = "next" /\ erred => \A s, t \in Undelivered : s = t

(* The nil dereference in prepRecord needs a Close from outside while Next *)
(* is running: without one reader.Next never panics.                       *)
PanicOnlyAfterForeignClose == pc = "panic" => closedBy = "other"

(* The cursor implements the promise of FilteredCursor: nextRec's steps    *)
(* are invisible, a return of true is a Deliver, and the reader closed by  *)
(* Next is a Drain, or a Cut if the driver failed.  Once another goroutine *)
(* closes it the caller is left with whatever the reader still gives, and  *)
(* after the reader has lost its rows that is at most the answer of the    *)
(* call in progress.                                                       *)
Promise == INSTANCE FilteredCursor WITH
  selected <- q.sel \cap Row,
  state <- CASE closedBy = "none" -> "open"
             [] closedBy = "next" -> IF erred THEN "cut" ELSE "drained"
             [] closedBy = "other" ->
                  IF rdr.rws THEN "left"
                  ELSE IF pc \in {"idle", "panic"} THEN "over" ELSE "shut"

(* Every step of the cursor is a step the promise allows. *)
ImplementsFilteredCursor == Promise!Spec

(* However the reader ends, the driver's rows are closed in the end.       *)
DriverRowsReleased == ~rdr.rws ~> irows.closed

(* A caller that loops on Next gets its last answer: the call never spins  *)
(* on rejected rows, and the reader ends up without rows.                  *)
LoopEnds == <>(~rdr.rws /\ pc \in {"idle", "panic"})
===========================================================================
