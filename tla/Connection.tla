---------------------------- MODULE Connection ----------------------------
(***************************************************************************)
(* connection of package dbms (connection.go): the pool (sql.DB) it opens  *)
(* on demand and shares between all goroutines that query or execute, its  *)
(* replacement by Reload, its end by Close, and the single connection      *)
(* (sql.Conn) that each statement takes from the pool (statement.go).      *)
(*                                                                         *)
(* The fields of connection are read and written without a lock (the       *)
(* mutex is commented out at connection.go:49), so every read and write of *)
(* them is a step of its own; a single read or write is not torn. An       *)
(* operation is one call, made by one goroutine: a query, an execute, a    *)
(* reload or a close. A pool is named after the operation that opened it,  *)
(* which opens at most one.                                                *)
(***************************************************************************)
EXTENDS Naturals

CONSTANTS
  Ops,       \* the calls made on the connection
  Drivers,   \* the registered drivers
  FileDrivers, \* those that read files (csv, dlv): no sql.Conn of their own
  Sources,   \* data source strings
  Nil        \* the nil pointer

ASSUME NilAssumption == Nil \notin Ops /\ Nil \notin Drivers
ASSUME FileDriversAssumption == FileDrivers \subseteq Drivers

VARIABLES
  cn,      \* the fields of connection: db, dvr and datasource
  pool,    \* pool[o]: the state of the pool opened by o
  opened,  \* opened[o]: the driver and data source of that pool
  conn,    \* conn[o]: the connection that o's statement holds
  pc,      \* where operation o stands
  kind,    \* the method o called
  db,      \* o's local variable db
  arg,     \* o's driver: a local of nextdb; with the source, Reload's
  raced    \* history: two operations were inside each other's windows

vars == <<cn, pool, opened, conn, pc, kind, db, arg, raced>>

Kinds == {"none", "query", "exec", "reload", "close"}
Steps == {"ready", "db", "invoke", "assign", "stmt", "run", "reading", "check",
          "drop", "shut", "source", "take", "clear", "done", "failed"}
Target == [dvr : Drivers \cup {Nil}, src : Sources]

(* The steps between reading a field of connection and acting on it. *)
Window == {"db", "invoke", "assign", "source", "take", "clear", "drop"}

Conflict(at) ==
  \E o, p \in Ops : /\ o # p
                    /\ at[o] \in Window /\ at[p] \in Window
                    /\ {at[o], at[p]} # {"db"}

Go(o, step) == pc' = [pc EXCEPT ![o] = step]

(* NewConnection: a driver and a data source, no pool yet. *)
Init ==
  /\ \E d \in Drivers, s \in Sources :
       /\ cn = [db |-> Nil, dvr |-> d, datasource |-> s]
       /\ arg = [o \in Ops |-> [dvr |-> d, src |-> s]]
       /\ opened = [o \in Ops |-> [dvr |-> d, src |-> s]]
  /\ pool = [o \in Ops |-> "none"]
  /\ conn = [o \in Ops |-> "none"]
  /\ pc = [o \in Ops |-> "ready"]
  /\ kind = [o \in Ops |-> "none"]
  /\ db = [o \in Ops |-> Nil]
  /\ raced = FALSE

---------------------------------------------------------------------------
(* Seeded faults: variants of definitions below with a plausible mistake,  *)
(* used to show that each property can fail. No behaviour of Spec uses     *)
(* them.                                                                   *)
\* nextdb assigns cn.db also when it found a pool
ReadDbReassigns(o) ==
  /\ pc[o] = "db"
  /\ db' = [db EXCEPT ![o] = cn.db]
  /\ Go(o, IF cn.db = Nil THEN "invoke" ELSE "assign")
  /\ UNCHANGED <<cn, pool, opened, conn, kind, arg>>

\* nextstatement does not close the statement it cannot prepare
NextStatementKeepsConn(o) ==
  /\ pc[o] = "stmt"
  /\ conn' = [conn EXCEPT ![o] = "taken"]
  /\ \/ Go(o, "run")
     \/ Go(o, IF kind[o] = "query" THEN "check" ELSE "failed")
  /\ UNCHANGED <<cn, pool, opened, kind, db, arg>>

\* the pool of a failed call is dropped but not closed
ShutForgets(o) ==
  /\ pc[o] = "shut"
  /\ Go(o, "failed")
  /\ UNCHANGED <<cn, pool, opened, conn, kind, db, arg>>

\* Reload replaces the data source and keeps the pool
ReloadSourceKeepsPool(o) ==
  /\ pc[o] = "source"
  /\ cn' = [cn EXCEPT !.datasource = arg[o].src]
  /\ Go(o, "done")
  /\ UNCHANGED <<pool, opened, conn, kind, db, arg>>

\* the pool taken out of the connection is not closed
ClearForgets(o) ==
  /\ pc[o] = "clear"
  /\ cn' = [cn EXCEPT !.db = Nil]
  /\ Go(o, "done")
  /\ UNCHANGED <<pool, opened, conn, kind, db, arg>>

---------------------------------------------------------------------------
(* nextdb: the driver is read first; without one there is nothing to do    *)
(* and the caller gets neither a result nor an error.                      *)
Call(o, k) ==
  /\ pc[o] = "ready"
  /\ kind' = [kind EXCEPT ![o] = k]
  /\ arg' = [arg EXCEPT ![o].dvr = cn.dvr]
  /\ Go(o, IF cn.dvr = Nil THEN "done" ELSE "db")
  /\ UNCHANGED <<cn, pool, opened, conn, db>>

(* nextdb: db = cn.db. *)
ReadDb(o) ==
  /\ pc[o] = "db"
  /\ db' = [db EXCEPT ![o] = cn.db]
  /\ Go(o, IF cn.db = Nil THEN "invoke" ELSE "stmt")
  /\ UNCHANGED <<cn, pool, opened, conn, kind, arg>>

(* dvr.Invoke(cn.datasource): a new pool of the driver read before for the *)
(* data source read now, or an error that nextdb returns.                  *)
Invoke(o) ==
  /\ pc[o] = "invoke"
  /\ \/ /\ pool' = [pool EXCEPT ![o] = "open"]
        /\ opened' = [opened EXCEPT ![o] = [dvr |-> arg[o].dvr,
                                             src |-> cn.datasource]]
        /\ db' = [db EXCEPT ![o] = o]
        /\ Go(o, "assign")
     \/ /\ Go(o, "failed")
        /\ UNCHANGED <<pool, opened, db>>
  /\ UNCHANGED <<cn, conn, kind, arg>>

(* cn.db = db. *)
Assign(o) ==
  /\ pc[o] = "assign"
  /\ cn' = [cn EXCEPT !.db = db[o]]
  /\ Go(o, "stmt")
  /\ UNCHANGED <<pool, opened, conn, kind, db, arg>>

(* nextstatement: the statement of a file driver works on the pool itself; *)
(* any other takes a connection, which may fail (on a closed pool always), *)
(* and an argument that cannot be prepared closes the statement with the   *)
(* connection it took. A query drops the pool for a failure, an execute    *)
(* only returns the error.                                                 *)
NextStatement(o) ==
  /\ pc[o] = "stmt"
  /\ \/ /\ arg[o].dvr \in FileDrivers
        /\ Go(o, "run")
        /\ UNCHANGED conn
     \/ /\ arg[o].dvr \notin FileDrivers
        /\ pool[db[o]] # "closed"
        /\ conn' = [conn EXCEPT ![o] = "taken"]
        /\ Go(o, "run")
     \/ /\ arg[o].dvr \notin FileDrivers
        /\ pool[db[o]] # "closed"
        /\ conn' = [conn EXCEPT ![o] = "returning"]
        /\ Go(o, IF kind[o] = "query" THEN "check" ELSE "failed")
     \/ /\ arg[o].dvr \notin FileDrivers
        /\ Go(o, IF kind[o] = "query" THEN "check" ELSE "failed")
        /\ UNCHANGED conn
  /\ UNCHANGED <<cn, pool, opened, kind, db, arg>>

(* The statement runs. An execute that succeeded returns with the          *)
(* statement, and its connection, left as they are; one that failed drops  *)
(* the pool. Without a connection an execute does nothing and succeeds. A  *)
(* query gives its reader, which owns the statement, or the error alone.   *)
Run(o) ==
  /\ pc[o] = "run"
  /\ \/ kind[o] = "exec"  /\ Go(o, "done")
     \/ kind[o] = "exec"  /\ conn[o] = "taken" /\ Go(o, "check")
     \/ kind[o] = "query" /\ Go(o, "reading")
     \/ kind[o] = "query" /\ Go(o, "failed")
  /\ conn' = [conn EXCEPT ![o] = IF @ = "taken" THEN "used" ELSE @]
  /\ UNCHANGED <<cn, pool, opened, kind, db, arg>>

(* reader.Close closes the statement: go dbcn.Close(). *)
CloseReader(o) ==
  /\ pc[o] = "reading"
  /\ conn' = [conn EXCEPT ![o] = IF @ = "used" THEN "returning" ELSE @]
  /\ Go(o, "done")
  /\ UNCHANGED <<cn, pool, opened, kind, db, arg>>

(* The error path: if cn.db == db { cn.db = nil }; go db.Close(). *)
Check(o) ==
  /\ pc[o] = "check"
  /\ Go(o, IF cn.db = db[o] THEN "drop" ELSE "shut")
  /\ UNCHANGED <<cn, pool, opened, conn, kind, db, arg>>

Drop(o) ==
  /\ pc[o] = "drop"
  /\ cn' = [cn EXCEPT !.db = Nil]
  /\ Go(o, "shut")
  /\ UNCHANGED <<pool, opened, conn, kind, db, arg>>

(* go db.Close() on a pool: from now on a goroutine is closing it. *)
Closing(p) ==
  pool' = [pool EXCEPT ![p] = IF @ = "open" THEN "closing" ELSE @]

Shut(o) ==
  /\ pc[o] = "shut"
  /\ Closing(db[o])
  /\ Go(o, "failed")
  /\ UNCHANGED <<cn, opened, conn, kind, db, arg>>

---------------------------------------------------------------------------
(* Reload: a new driver (Nil: none given) or a new data source replaces    *)
(* the old one, the driver before the source, and the pool is taken out    *)
(* and closed; the same ones change nothing.                               *)
Reload(o, d, s) ==
  /\ pc[o] = "ready"
  /\ kind' = [kind EXCEPT ![o] = "reload"]
  /\ arg' = [arg EXCEPT ![o] = [dvr |-> d, src |-> s]]
  /\ \/ /\ d # Nil /\ cn.dvr # d
        /\ cn' = [cn EXCEPT !.dvr = d]
        /\ Go(o, "source")
     \/ /\ d = Nil \/ cn.dvr = d
        /\ Go(o, IF cn.datasource # s THEN "source" ELSE "done")
        /\ UNCHANGED cn
  /\ UNCHANGED <<pool, opened, conn, db>>

ReloadSource(o) ==
  /\ pc[o] = "source"
  /\ cn' = [cn EXCEPT !.datasource = arg[o].src]
  /\ Go(o, "take")
  /\ UNCHANGED <<pool, opened, conn, kind, db, arg>>

(* Close: the driver goes first, then the pool. *)
Close(o) ==
  /\ pc[o] = "ready"
  /\ kind' = [kind EXCEPT ![o] = "close"]
  /\ cn' = [cn EXCEPT !.dvr = Nil]
  /\ Go(o, "take")
  /\ UNCHANGED <<pool, opened, conn, db, arg>>

(* db := cn.db *)
Take(o) ==
  /\ pc[o] = "take"
  /\ db' = [db EXCEPT ![o] = cn.db]
  /\ Go(o, "clear")
  /\ UNCHANGED <<cn, pool, opened, conn, kind, arg>>

(* cn.db = nil; if db != nil { go db.Close() } *)
Clear(o) ==
  /\ pc[o] = "clear"
  /\ cn' = [cn EXCEPT !.db = Nil]
  /\ IF db[o] = Nil THEN UNCHANGED pool ELSE Closing(db[o])
  /\ Go(o, "done")
  /\ UNCHANGED <<opened, conn, kind, db, arg>>

---------------------------------------------------------------------------
(* The goroutines of go db.Close() and go dbcn.Close(). *)
PoolClosed(p) ==
  /\ pool[p] = "closing"
  /\ pool' = [pool EXCEPT ![p] = "closed"]
  /\ UNCHANGED <<cn, opened, conn, pc, kind, db, arg>>

ConnReturned(o) ==
  /\ conn[o] = "returning"
  /\ conn' = [conn EXCEPT ![o] = "returned"]
  /\ UNCHANGED <<cn, pool, opened, pc, kind, db, arg>>

Progress(o) ==
  \/ ReadDb(o) \/ Invoke(o) \/ Assign(o) \/ NextStatement(o) \/ Run(o)
  \/ CloseReader(o) \/ Check(o) \/ Drop(o) \/ Shut(o)
  \/ ReloadSource(o) \/ Take(o) \/ Clear(o)
  \/ PoolClosed(o) \/ ConnReturned(o)

Step(o) ==
  \/ \E k \in {"query", "exec"} : Call(o, k)
  \/ \E d \in Drivers \cup {Nil}, s \in Sources : Reload(o, d, s)
  \/ Close(o)
  \/ Progress(o)

Next == \E o \in Ops : Step(o) /\ raced' = (raced \/ Conflict(pc'))

Spec == Init /\ [][Next]_vars

(* A call that was made and a goroutine that was started go on, and a      *)
(* reader is closed in the end; nobody has to make a call.                 *)
FairSpec ==
  Spec /\ \A o \in Ops :
            WF_vars(Progress(o) /\ raced' = (raced \/ Conflict(pc')))
---------------------------------------------------------------------------
TypeOK ==
  /\ cn \in [db : Ops \cup {Nil}, dvr : Drivers \cup {Nil},
             datasource : Sources]
  /\ pool \in [Ops -> {"none", "open", "closing", "closed"}]
  /\ opened \in [Ops -> Target]
  /\ conn \in [Ops -> {"none", "taken", "used", "returning", "returned"}]
  /\ pc \in [Ops -> Steps]
  /\ kind \in [Ops -> Kinds]
  /\ db \in [Ops -> Ops \cup {Nil}]
  /\ arg \in [Ops -> Target]
  /\ raced \in BOOLEAN

(* However queries, failures, reloads and closes interleave, the pool that *)
(* the connection offers to the next caller has not been closed, and no    *)
(* goroutine is closing it.                                                *)
CurrentPoolOpen == cn.db # Nil => pool[cn.db] = "open"

(* A pool somebody still answers for: the current one, one that is about   *)
(* to become current, or one that an operation is about to close.          *)
Owned(p) ==
  \/ cn.db = p
  \/ pc[p] = "assign"
  \/ \E o \in Ops : pc[o] \in {"clear", "shut"} /\ db[o] = p

(* A pool is leaked (open and out of everybody's reach) only if operations *)
(* overlapped between reading a field of connection and acting on it.      *)
NoLeakUnlessRaced ==
  ~raced => \A p \in Ops : pool[p] = "open" => Owned(p)

(* Unless operations overlapped, the current pool belongs to the driver    *)
(* and data source of the last Reload, but for a Reload still in progress. *)
NoStalePoolUnlessRaced ==
  ~raced /\ cn.db # Nil =>
    \/ opened[cn.db] = [dvr |-> cn.dvr, src |-> cn.datasource]
    \/ \E o \in Ops : pc[o] \in {"source", "take", "clear"}

(* A connection that a finished call has not given back was used by an     *)
(* execute, or by a query that failed when it ran: every other path gives  *)
(* back what it took.                                                      *)
UnreturnedConnections ==
  \A o \in Ops :
    pc[o] \in {"done", "failed"} /\ conn[o] \in {"taken", "used"} =>
      conn[o] = "used" /\ (kind[o] = "exec" \/ pc[o] = "failed")

(* After Close, every pool is closed in the end, unless operations         *)
(* overlapped with the opening or the taking of one.                       *)
CloseReleasesPools ==
  \A o \in Ops :
    (kind[o] = "close" /\ pc[o] = "done")
      ~> (raced \/ cn.dvr # Nil \/ \A p \in Ops : pool[p] # "open")
===========================================================================
