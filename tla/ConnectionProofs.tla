------------------------- MODULE ConnectionProofs -------------------------
(***************************************************************************)
(* Proofs about Connection for any number of calls, drivers and data       *)
(* sources, interleaved in any way: the pool on offer is never one that    *)
(* was closed, and a pool is lost or belongs to a replaced data source     *)
(* only after two calls met inside each other's windows.                   *)
(***************************************************************************)
EXTENDS Connection, TLAPS

(* The steps before a call has made its own pool current. *)
Early == {"ready", "db", "invoke"}

(* The steps at which the local variable db of a call holds a pool. *)
Holding == {"assign", "stmt", "run", "reading", "check", "drop", "shut"}

(* A pool is known to others only after the call that opened it has made   *)
(* it current, and a call that is about to close a pool is not about to    *)
(* close the current one.                                                  *)
PoolInv ==
  /\ \A o \in Ops : pc[o] \in Early => pool[o] = "none"
  /\ \A o \in Ops : pc[o] = "assign" => db[o] = o /\ pool[o] = "open"
  /\ cn.db # Nil =>
       pool[cn.db] = "open" /\ pc[cn.db] \notin Early \cup {"assign"}
  /\ \A o \in Ops : db[o] # Nil /\ db[o] # o =>
                      pc[db[o]] \notin Early \cup {"assign"}
  /\ \A o \in Ops : pc[o] = "shut" => cn.db # db[o]
  /\ \A o \in Ops : pc[o] \in Holding => db[o] # Nil

(* What a call read of the connection still holds when it acts on it. *)
Fresh ==
  /\ \A o \in Ops : pc[o] \in {"invoke", "assign"} => cn.db = Nil
  /\ \A o \in Ops : pc[o] \in {"drop", "clear"} => cn.db = db[o]

(* A pool being opened belongs to the current driver and data source. *)
OnTarget ==
  /\ \A o \in Ops : pc[o] \in {"db", "invoke"} => arg[o].dvr = cn.dvr
  /\ \A o \in Ops : pc[o] = "assign" =>
       opened[o] = [dvr |-> cn.dvr, src |-> cn.datasource]

(* Both hold as long as no two calls have overlapped. *)
UnracedInv == ~raced => ~Conflict(pc) /\ Fresh /\ OnTarget

(* Which steps of a call hold a connection. *)
ConnInv ==
  \A o \in Ops :
    /\ conn[o] = "taken" => pc[o] = "run"
    /\ conn[o] = "used" =>
         pc[o] \in {"reading", "check", "drop", "shut", "done", "failed"}
    /\ conn[o] = "used" /\ pc[o] = "done" => kind[o] = "exec"

IInv ==
  /\ TypeOK
  /\ PoolInv
  /\ UnracedInv
  /\ ConnInv
  /\ NoLeakUnlessRaced
  /\ NoStalePoolUnlessRaced
---------------------------------------------------------------------------

(* Every step of every call keeps the types. *)
LEMMA StepType ==
  ASSUME TypeOK,
         NEW o \in Ops, Step(o), raced' = (raced \/ Conflict(pc'))
  PROVE  TypeOK'
<1>0. raced' \in BOOLEAN
  BY DEF TypeOK
<1>1. CASE \E k \in {"query", "exec"} : Call(o, k)
  BY <1>1, <1>0, SMTT(40) DEF Call, Go, TypeOK, Steps, Kinds, Target
<1>2. CASE \E d \in Drivers \cup {Nil}, s \in Sources : Reload(o, d, s)
  <2>1. PICK d \in Drivers \cup {Nil}, s \in Sources : Reload(o, d, s)
    BY <1>2
  <2>2. cn' = [cn EXCEPT !.dvr = d] \/ cn' = cn
    BY <2>1 DEF Reload
  <2>3. cn' \in [db : Ops \cup {Nil}, dvr : Drivers \cup {Nil},
                datasource : Sources]
    BY <2>2 DEF TypeOK
  <2>4. arg' \in [Ops -> Target]
    BY <2>1 DEF Reload, TypeOK, Target
  <2>5. pc' \in [Ops -> Steps] /\ kind' \in [Ops -> Kinds]
    BY <2>1 DEF Reload, Go, TypeOK, Steps, Kinds
  <2>6. QED
    BY <1>0, <2>1, <2>3, <2>4, <2>5 DEF Reload, TypeOK
<1>3. CASE ReadDb(o)
  BY <1>3, <1>0 DEF ReadDb, Go, TypeOK, Steps
<1>4. CASE Invoke(o)
  <2>1. [dvr |-> arg[o].dvr, src |-> cn.datasource] \in Target
    BY DEF TypeOK, Target
  <2>2. pool' \in [Ops -> {"none", "open", "closing", "closed"}]
    BY <1>4 DEF Invoke, TypeOK
  <2>3. opened' \in [Ops -> Target]
    BY <1>4, <2>1 DEF Invoke, TypeOK
  <2>4. db' \in [Ops -> Ops \cup {Nil}] /\ pc' \in [Ops -> Steps]
    BY <1>4 DEF Invoke, Go, TypeOK, Steps
  <2>5. QED
    BY <1>0, <1>4, <2>2, <2>3, <2>4 DEF Invoke, TypeOK
<1>5. CASE Assign(o)
  BY <1>5, <1>0 DEF Assign, Go, TypeOK, Steps
<1>6. CASE NextStatement(o)
  <2>1. conn' \in [Ops -> {"none", "taken", "used", "returning", "returned"}]
    BY <1>6 DEF NextStatement, TypeOK
  <2>2. pc' \in [Ops -> Steps]
    BY <1>6 DEF NextStatement, Go, TypeOK, Steps
  <2>3. QED
    BY <1>0, <1>6, <2>1, <2>2 DEF NextStatement, TypeOK
<1>7. CASE Run(o)
  BY <1>7, <1>0 DEF Run, Go, TypeOK, Steps
<1>8. CASE CloseReader(o)
  BY <1>8, <1>0 DEF CloseReader, Go, TypeOK, Steps
<1>9. CASE Check(o)
  BY <1>9, <1>0 DEF Check, Go, TypeOK, Steps
<1>10. CASE Drop(o)
  BY <1>10, <1>0 DEF Drop, Go, TypeOK, Steps
<1>11. CASE Shut(o)
  BY <1>11, <1>0 DEF Shut, Go, Closing, TypeOK, Steps
<1>12. CASE ReloadSource(o)
  BY <1>12, <1>0 DEF ReloadSource, Go, TypeOK, Steps, Target
<1>13. CASE Take(o)
  BY <1>13, <1>0 DEF Take, Go, TypeOK, Steps
<1>14. CASE Clear(o)
  <2>1. pool' \in [Ops -> {"none", "open", "closing", "closed"}]
    BY <1>14 DEF Clear, Closing, TypeOK
  <2>2. cn' \in [db : Ops \cup {Nil}, dvr : Drivers \cup {Nil},
                datasource : Sources]
    BY <1>14 DEF Clear, TypeOK
  <2>3. QED
    BY <1>0, <1>14, <2>1, <2>2 DEF Clear, Go, TypeOK, Steps
<1>15. CASE Close(o)
  BY <1>15, <1>0 DEF Close, Go, TypeOK, Steps, Kinds
<1>16. CASE PoolClosed(o)
  BY <1>16, <1>0 DEF PoolClosed, Go, TypeOK, Steps
<1>17. CASE ConnReturned(o)
  BY <1>17, <1>0 DEF ConnReturned, Go, TypeOK, Steps
<1>18. QED
  BY <1>1, <1>2, <1>3, <1>4, <1>5, <1>6, <1>7, <1>8, <1>9, <1>10, <1>11, <1>12,
     <1>13, <1>14, <1>15, <1>16, <1>17
    DEF Step, Progress

(* Every step keeps the ownership of pools. *)
LEMMA StepPool ==
  ASSUME TypeOK, PoolInv, TypeOK',
         NEW o \in Ops, Step(o)
  PROVE  PoolInv'
<1>1. CASE \E k \in {"query", "exec"} : Call(o, k)
  BY <1>1 DEF Call, Go, TypeOK, PoolInv, Early, Holding
<1>2. CASE \E d \in Drivers \cup {Nil}, s \in Sources : Reload(o, d, s)
  BY <1>2 DEF Reload, Go, TypeOK, PoolInv, Early, Holding
<1>3. CASE ReadDb(o)
  BY <1>3 DEF ReadDb, Go, TypeOK, PoolInv, Early, Holding
<1>4. CASE Invoke(o)
  BY <1>4, NilAssumption DEF Invoke, Go, TypeOK, PoolInv, Early, Holding
<1>5. CASE Assign(o)
  BY <1>5 DEF Assign, Go, TypeOK, PoolInv, Early, Holding
<1>6. CASE NextStatement(o)
  BY <1>6 DEF NextStatement, Go, TypeOK, PoolInv, Early, Holding
<1>7. CASE Run(o)
  BY <1>7 DEF Run, Go, TypeOK, PoolInv, Early, Holding
<1>8. CASE CloseReader(o)
  BY <1>8 DEF CloseReader, Go, TypeOK, PoolInv, Early, Holding
<1>9. CASE Check(o)
  BY <1>9 DEF Check, Go, TypeOK, PoolInv, Early, Holding
<1>10. CASE Drop(o)
  BY <1>10 DEF Drop, Go, TypeOK, PoolInv, Early, Holding
<1>11. CASE Shut(o)
  BY <1>11 DEF Shut, Go, Closing, TypeOK, PoolInv, Early, Holding
<1>12. CASE ReloadSource(o)
  BY <1>12 DEF ReloadSource, Go, TypeOK, PoolInv, Early, Holding
<1>13. CASE Take(o)
  BY <1>13 DEF Take, Go, TypeOK, PoolInv, Early, Holding
<1>14. CASE Clear(o)
  BY <1>14 DEF Clear, Go, Closing, TypeOK, PoolInv, Early, Holding
<1>15. CASE Close(o)
  BY <1>15 DEF Close, Go, TypeOK, PoolInv, Early, Holding
<1>16. CASE PoolClosed(o)
  BY <1>16 DEF PoolClosed, Go, TypeOK, PoolInv
<1>17. CASE ConnReturned(o)
  BY <1>17 DEF ConnReturned, Go, TypeOK, PoolInv
<1>18. QED
  BY <1>1, <1>2, <1>3, <1>4, <1>5, <1>6, <1>7, <1>8, <1>9, <1>10, <1>11, <1>12,
     <1>13, <1>14, <1>15, <1>16, <1>17
    DEF Step, Progress

(* Every step keeps the books on connections. *)
LEMMA StepConn ==
  ASSUME TypeOK, TypeOK', ConnInv,
         NEW o \in Ops, Step(o)
  PROVE  ConnInv'
<1>1. CASE \E k \in {"query", "exec"} : Call(o, k)
  BY <1>1 DEF Call, Go, TypeOK, ConnInv
<1>2. CASE \E d \in Drivers \cup {Nil}, s \in Sources : Reload(o, d, s)
  BY <1>2 DEF Reload, Go, TypeOK, ConnInv
<1>3. CASE ReadDb(o)
  BY <1>3 DEF ReadDb, Go, TypeOK, ConnInv
<1>4. CASE Invoke(o)
  BY <1>4 DEF Invoke, Go, TypeOK, ConnInv
<1>5. CASE Assign(o)
  BY <1>5 DEF Assign, Go, TypeOK, ConnInv
<1>6. CASE NextStatement(o)
  BY <1>6 DEF NextStatement, Go, TypeOK, ConnInv
<1>7. CASE Run(o)
  BY <1>7 DEF Run, Go, TypeOK, ConnInv
<1>8. CASE CloseReader(o)
  BY <1>8 DEF CloseReader, Go, TypeOK, ConnInv
<1>9. CASE Check(o)
  BY <1>9 DEF Check, Go, TypeOK, ConnInv
<1>10. CASE Drop(o)
  BY <1>10 DEF Drop, Go, TypeOK, ConnInv
<1>11. CASE Shut(o)
  BY <1>11 DEF Shut, Go, Closing, TypeOK, ConnInv
<1>12. CASE ReloadSource(o)
  BY <1>12 DEF ReloadSource, Go, TypeOK, ConnInv
<1>13. CASE Take(o)
  BY <1>13 DEF Take, Go, TypeOK, ConnInv
<1>14. CASE Clear(o)
  BY <1>14 DEF Clear, Go, Closing, TypeOK, ConnInv
<1>15. CASE Close(o)
  BY <1>15 DEF Close, Go, TypeOK, ConnInv
<1>16. CASE PoolClosed(o)
  BY <1>16 DEF PoolClosed, Go, TypeOK, ConnInv
<1>17. CASE ConnReturned(o)
  BY <1>17 DEF ConnReturned, Go, TypeOK, ConnInv
<1>18. QED
  BY <1>1, <1>2, <1>3, <1>4, <1>5, <1>6, <1>7, <1>8, <1>9, <1>10, <1>11, <1>12,
     <1>13, <1>14, <1>15, <1>16, <1>17
    DEF Step, Progress

(* Where no calls overlap, two calls inside a window have only read the    *)
(* driver.                                                                 *)
LEMMA Alone ==
  ASSUME NEW f, ~Conflict(f), NEW a \in Ops, NEW b \in Ops, a # b,
         f[a] \in Window, f[b] \in Window
  PROVE  f[a] = "db" /\ f[b] = "db"
<1>1. {f[a], f[b]} = {"db"}
  BY DEF Conflict
<1>2. QED
  BY <1>1

(* Without an overlap a step leaves what other calls have read as it was. *)
LEMMA StepFresh ==
  ASSUME TypeOK, TypeOK', ~Conflict(pc), ~Conflict(pc'), Fresh,
         NEW o \in Ops, Step(o)
  PROVE  Fresh'
<1>a. \A a, b \in Ops :
        a # b /\ pc[a] \in Window /\ pc[b] \in Window =>
          pc[a] = "db" /\ pc[b] = "db"
  BY Alone
<1>b. \A a, b \in Ops :
        a # b /\ pc'[a] \in Window /\ pc'[b] \in Window =>
          pc'[a] = "db" /\ pc'[b] = "db"
  BY Alone
<1>1. CASE \E k \in {"query", "exec"} : Call(o, k)
  BY <1>1 DEF Call, Go, TypeOK, Fresh
<1>2. CASE \E d \in Drivers \cup {Nil}, s \in Sources : Reload(o, d, s)
  BY <1>2 DEF Reload, Go, TypeOK, Fresh
<1>3. CASE ReadDb(o)
  BY <1>3 DEF ReadDb, Go, TypeOK, Fresh
<1>4. CASE Invoke(o)
  BY <1>4 DEF Invoke, Go, TypeOK, Fresh
<1>5. CASE Assign(o)
  BY <1>5, <1>a DEF Assign, Go, TypeOK, Fresh, Window
<1>6. CASE NextStatement(o)
  BY <1>6 DEF NextStatement, Go, TypeOK, Fresh
<1>7. CASE Run(o)
  BY <1>7 DEF Run, Go, TypeOK, Fresh
<1>8. CASE CloseReader(o)
  BY <1>8 DEF CloseReader, Go, TypeOK, Fresh
<1>9. CASE Check(o)
  BY <1>9 DEF Check, Go, TypeOK, Fresh
<1>10. CASE Drop(o)
  BY <1>10, <1>a DEF Drop, Go, TypeOK, Fresh, Window
<1>11. CASE Shut(o)
  BY <1>11 DEF Shut, Go, Closing, TypeOK, Fresh
<1>12. CASE ReloadSource(o)
  BY <1>12 DEF ReloadSource, Go, TypeOK, Fresh
<1>13. CASE Take(o)
  BY <1>13 DEF Take, Go, TypeOK, Fresh
<1>14. CASE Clear(o)
  BY <1>14, <1>a DEF Clear, Go, Closing, TypeOK, Fresh, Window
<1>15. CASE Close(o)
  BY <1>15 DEF Close, Go, TypeOK, Fresh
<1>16. CASE PoolClosed(o)
  BY <1>16 DEF PoolClosed, Go, TypeOK, Fresh
<1>17. CASE ConnReturned(o)
  BY <1>17 DEF ConnReturned, Go, TypeOK, Fresh
<1>18. QED
  BY <1>1, <1>2, <1>3, <1>4, <1>5, <1>6, <1>7, <1>8, <1>9, <1>10, <1>11, <1>12,
     <1>13, <1>14, <1>15, <1>16, <1>17
    DEF Step, Progress

(* Without an overlap a step keeps the target of a pool being opened. *)
LEMMA StepTarget ==
  ASSUME TypeOK, TypeOK', ~Conflict(pc), ~Conflict(pc'), OnTarget,
         NEW o \in Ops, Step(o)
  PROVE  OnTarget'
<1>a. \A a, b \in Ops :
        a # b /\ pc[a] \in Window /\ pc[b] \in Window =>
          pc[a] = "db" /\ pc[b] = "db"
  BY Alone
<1>b. \A a, b \in Ops :
        a # b /\ pc'[a] \in Window /\ pc'[b] \in Window =>
          pc'[a] = "db" /\ pc'[b] = "db"
  BY Alone
<1>1. CASE \E k \in {"query", "exec"} : Call(o, k)
  BY <1>1 DEF Call, Go, TypeOK, OnTarget
<1>2. CASE \E d \in Drivers \cup {Nil}, s \in Sources : Reload(o, d, s)
  BY <1>2, <1>b DEF Reload, Go, TypeOK, OnTarget, Window
<1>3. CASE ReadDb(o)
  BY <1>3 DEF ReadDb, Go, TypeOK, OnTarget
<1>4. CASE Invoke(o)
  <2>1. arg[o].dvr = cn.dvr /\ cn' = cn /\ arg' = arg
    BY <1>4 DEF Invoke, OnTarget
  <2>2. CASE pc'[o] = "assign"
    <3>1. opened'[o] = [dvr |-> cn.dvr, src |-> cn.datasource]
      BY <1>4, <2>1, <2>2 DEF Invoke, Go, TypeOK
    <3>2. \A p \in Ops : p # o => pc'[p] = pc[p] /\ opened'[p] = opened[p]
      BY <1>4 DEF Invoke, Go, TypeOK
    <3>3. QED
      BY <2>1, <2>2, <3>1, <3>2 DEF OnTarget
  <2>3. CASE pc'[o] # "assign"
    BY <1>4, <2>1, <2>3 DEF Invoke, Go, TypeOK, OnTarget
  <2>4. QED
    BY <2>2, <2>3
<1>5. CASE Assign(o)
  BY <1>5 DEF Assign, Go, TypeOK, OnTarget
<1>6. CASE NextStatement(o)
  BY <1>6 DEF NextStatement, Go, TypeOK, OnTarget
<1>7. CASE Run(o)
  BY <1>7 DEF Run, Go, TypeOK, OnTarget
<1>8. CASE CloseReader(o)
  BY <1>8 DEF CloseReader, Go, TypeOK, OnTarget
<1>9. CASE Check(o)
  BY <1>9 DEF Check, Go, TypeOK, OnTarget
<1>10. CASE Drop(o)
  BY <1>10 DEF Drop, Go, TypeOK, OnTarget
<1>11. CASE Shut(o)
  BY <1>11 DEF Shut, Go, Closing, TypeOK, OnTarget
<1>12. CASE ReloadSource(o)
  BY <1>12, <1>b DEF ReloadSource, Go, TypeOK, OnTarget, Window
<1>13. CASE Take(o)
  BY <1>13 DEF Take, Go, TypeOK, OnTarget
<1>14. CASE Clear(o)
  BY <1>14 DEF Clear, Go, Closing, TypeOK, OnTarget
<1>15. CASE Close(o)
  BY <1>15, <1>b DEF Close, Go, TypeOK, OnTarget, Window
<1>16. CASE PoolClosed(o)
  BY <1>16 DEF PoolClosed, Go, TypeOK, OnTarget
<1>17. CASE ConnReturned(o)
  BY <1>17 DEF ConnReturned, Go, TypeOK, OnTarget
<1>18. QED
  BY <1>1, <1>2, <1>3, <1>4, <1>5, <1>6, <1>7, <1>8, <1>9, <1>10, <1>11, <1>12,
     <1>13, <1>14, <1>15, <1>16, <1>17
    DEF Step, Progress

(* The unraced part of the invariant is kept: a step that makes calls      *)
(* overlap sets raced.                                                     *)
LEMMA StepUnraced ==
  ASSUME TypeOK, TypeOK', UnracedInv,
         NEW o \in Ops, Step(o), raced' = (raced \/ Conflict(pc'))
  PROVE  UnracedInv'
<1>1. SUFFICES ASSUME ~raced'
               PROVE  ~Conflict(pc') /\ Fresh' /\ OnTarget'
  BY DEF UnracedInv
<1>2. ~raced /\ ~Conflict(pc')
  BY <1>1
<1>3. ~Conflict(pc) /\ Fresh /\ OnTarget
  BY <1>2 DEF UnracedInv
<1>4. QED
  BY <1>2, <1>3, StepFresh, StepTarget

(* Without an overlap a step leaves every open pool with an owner. *)
LEMMA StepLeak ==
  ASSUME TypeOK, PoolInv, TypeOK', Fresh,
         \A p \in Ops : pool[p] = "open" => Owned(p),
         NEW o \in Ops, Step(o)
  PROVE  (\A p \in Ops : pool[p] = "open" => Owned(p))'
<1>1. CASE \E k \in {"query", "exec"} : Call(o, k)
  BY <1>1 DEF Call, Go, TypeOK, Fresh, Owned
<1>2. CASE \E d \in Drivers \cup {Nil}, s \in Sources : Reload(o, d, s)
  BY <1>2 DEF Reload, Go, TypeOK, Fresh, Owned
<1>3. CASE ReadDb(o)
  BY <1>3 DEF ReadDb, Go, TypeOK, Fresh, Owned
<1>4. CASE Invoke(o)
  BY <1>4 DEF Invoke, Go, TypeOK, Fresh, Owned
<1>5. CASE Assign(o)
  BY <1>5, NilAssumption DEF Assign, Go, TypeOK, PoolInv, Fresh, Owned
<1>6. CASE NextStatement(o)
  BY <1>6 DEF NextStatement, Go, TypeOK, Fresh, Owned
<1>7. CASE Run(o)
  BY <1>7 DEF Run, Go, TypeOK, Fresh, Owned
<1>8. CASE CloseReader(o)
  BY <1>8 DEF CloseReader, Go, TypeOK, Fresh, Owned
<1>9. CASE Check(o)
  BY <1>9 DEF Check, Go, TypeOK, Fresh, Owned
<1>10. CASE Drop(o)
  BY <1>10 DEF Drop, Go, TypeOK, Fresh, Owned
<1>11. CASE Shut(o)
  BY <1>11 DEF Shut, Go, Closing, TypeOK, Fresh, Owned
<1>12. CASE ReloadSource(o)
  BY <1>12 DEF ReloadSource, Go, TypeOK, Fresh, Owned
<1>13. CASE Take(o)
  BY <1>13 DEF Take, Go, TypeOK, Fresh, Owned
<1>14. CASE Clear(o)
  BY <1>14 DEF Clear, Go, Closing, TypeOK, Fresh, Owned
<1>15. CASE Close(o)
  BY <1>15 DEF Close, Go, TypeOK, Fresh, Owned
<1>16. CASE PoolClosed(o)
  BY <1>16 DEF PoolClosed, Go, TypeOK, Fresh, Owned
<1>17. CASE ConnReturned(o)
  BY <1>17 DEF ConnReturned, Go, TypeOK, Fresh, Owned
<1>18. QED
  BY <1>1, <1>2, <1>3, <1>4, <1>5, <1>6, <1>7, <1>8, <1>9, <1>10, <1>11, <1>12,
     <1>13, <1>14, <1>15, <1>16, <1>17
    DEF Step, Progress

(* The current pool is of the current driver and data source, or a call is *)
(* about to take it out.                                                   *)
Current ==
  cn.db # Nil =>
    \/ opened[cn.db] = [dvr |-> cn.dvr, src |-> cn.datasource]
    \/ \E o \in Ops : pc[o] \in {"source", "take", "clear"}

(* Without an overlap a step leaves the current pool with the current     *)
(* driver and data source.                                                 *)
LEMMA StepStale ==
  ASSUME TypeOK, PoolInv, TypeOK', Fresh, OnTarget, Current,
         NEW o \in Ops, Step(o)
  PROVE  Current'
<1>1. CASE \E k \in {"query", "exec"} : Call(o, k)
  BY <1>1 DEF Call, Go, TypeOK, Fresh, Current
<1>2. CASE \E d \in Drivers \cup {Nil}, s \in Sources : Reload(o, d, s)
  BY <1>2 DEF Reload, Go, TypeOK, Fresh, Current
<1>3. CASE ReadDb(o)
  BY <1>3 DEF ReadDb, Go, TypeOK, Fresh, Current
<1>4. CASE Invoke(o)
  BY <1>4 DEF Invoke, Go, TypeOK, Fresh, Current
<1>5. CASE Assign(o)
  BY <1>5 DEF Assign, Go, TypeOK, PoolInv, Fresh, OnTarget, Current
<1>6. CASE NextStatement(o)
  BY <1>6 DEF NextStatement, Go, TypeOK, Fresh, Current
<1>7. CASE Run(o)
  BY <1>7 DEF Run, Go, TypeOK, Fresh, Current
<1>8. CASE CloseReader(o)
  BY <1>8 DEF CloseReader, Go, TypeOK, Fresh, Current
<1>9. CASE Check(o)
  BY <1>9 DEF Check, Go, TypeOK, Fresh, Current
<1>10. CASE Drop(o)
  BY <1>10 DEF Drop, Go, TypeOK, Fresh, Current
<1>11. CASE Shut(o)
  BY <1>11 DEF Shut, Go, Closing, TypeOK, Fresh, Current
<1>12. CASE ReloadSource(o)
  BY <1>12 DEF ReloadSource, Go, TypeOK, Fresh, Current
<1>13. CASE Take(o)
  BY <1>13 DEF Take, Go, TypeOK, Fresh, Current
<1>14. CASE Clear(o)
  BY <1>14 DEF Clear, Go, Closing, TypeOK, Fresh, Current
<1>15. CASE Close(o)
  BY <1>15 DEF Close, Go, TypeOK, Fresh, Current
<1>16. CASE PoolClosed(o)
  BY <1>16 DEF PoolClosed, Go, TypeOK, Fresh, Current
<1>17. CASE ConnReturned(o)
  BY <1>17 DEF ConnReturned, Go, TypeOK, Fresh, Current
<1>18. QED
  BY <1>1, <1>2, <1>3, <1>4, <1>5, <1>6, <1>7, <1>8, <1>9, <1>10, <1>11, <1>12,
     <1>13, <1>14, <1>15, <1>16, <1>17
    DEF Step, Progress

(* The invariant of every reachable state. *)
LEMMA InitInv == Init => IInv
<1>1. SUFFICES ASSUME Init PROVE IInv
  OBVIOUS
<1>2. PICK d \in Drivers, s \in Sources :
        /\ cn = [db |-> Nil, dvr |-> d, datasource |-> s]
        /\ arg = [o \in Ops |-> [dvr |-> d, src |-> s]]
        /\ opened = [o \in Ops |-> [dvr |-> d, src |-> s]]
  BY <1>1 DEF Init
<1>3. [dvr |-> d, src |-> s] \in Target
  BY DEF Target
<1>4. TypeOK
  BY <1>1, <1>2, <1>3 DEF Init, TypeOK, Steps, Kinds
<1>5. PoolInv /\ ConnInv
  BY <1>1, <1>2 DEF Init, PoolInv, ConnInv, Holding
<1>6. ~Conflict(pc)
  BY <1>1 DEF Init, Conflict, Window
<1>7. Fresh /\ OnTarget
  BY <1>1, <1>2 DEF Init, Fresh, OnTarget
<1>8. NoLeakUnlessRaced
  BY <1>1 DEF Init, NoLeakUnlessRaced
<1>9. NoStalePoolUnlessRaced
  BY <1>2 DEF NoStalePoolUnlessRaced
<1>10. QED
  BY <1>4, <1>5, <1>6, <1>7, <1>8, <1>9 DEF IInv, UnracedInv

(* A stuttering step keeps it. *)
LEMMA StutterInv == IInv /\ UNCHANGED vars => IInv'
<1>1. SUFFICES ASSUME IInv, UNCHANGED vars PROVE IInv'
  OBVIOUS
<1>2. TypeOK' /\ PoolInv' /\ ConnInv'
  BY <1>1 DEF IInv, vars, TypeOK, PoolInv, ConnInv
<1>3. UnracedInv'
  BY <1>1 DEF IInv, vars, UnracedInv, Conflict, Fresh, OnTarget
<1>4. NoLeakUnlessRaced' /\ NoStalePoolUnlessRaced'
  BY <1>1 DEF IInv, vars, NoLeakUnlessRaced, Owned, NoStalePoolUnlessRaced
<1>5. QED
  BY <1>2, <1>3, <1>4 DEF IInv

(* Every step keeps it. *)
LEMMA NextInv == IInv /\ Next => IInv'
<1>1. SUFFICES ASSUME IInv, Next PROVE IInv'
  OBVIOUS
<1>2. PICK o \in Ops : Step(o) /\ raced' = (raced \/ Conflict(pc'))
  BY <1>1 DEF Next
<1>3. TypeOK'
  BY <1>1, <1>2, StepType DEF IInv
<1>4. PoolInv' /\ ConnInv' /\ UnracedInv'
  BY <1>1, <1>2, <1>3, StepPool, StepConn, StepUnraced DEF IInv
<1>5. NoLeakUnlessRaced'
  <2>1. SUFFICES ASSUME ~raced'
                 PROVE  (\A p \in Ops : pool[p] = "open" => Owned(p))'
    BY DEF NoLeakUnlessRaced
  <2>2. ~raced
    BY <1>2, <2>1
  <2>3. Fresh /\ \A p \in Ops : pool[p] = "open" => Owned(p)
    BY <1>1, <2>2 DEF IInv, UnracedInv, NoLeakUnlessRaced
  <2>4. QED
    BY <1>1, <1>2, <1>3, <2>3, StepLeak DEF IInv
<1>6. NoStalePoolUnlessRaced'
  <2>1. SUFFICES ASSUME ~raced' PROVE Current'
    BY DEF NoStalePoolUnlessRaced, Current
  <2>2. ~raced
    BY <1>2, <2>1
  <2>3. Fresh /\ OnTarget /\ Current
    BY <1>1, <2>2 DEF IInv, UnracedInv, NoStalePoolUnlessRaced, Current
  <2>4. QED
    BY <1>1, <1>2, <1>3, <2>3, StepStale DEF IInv
<1>7. QED
  BY <1>3, <1>4, <1>5, <1>6 DEF IInv

(* Every reachable state of Connection satisfies the invariant. *)
THEOREM ConnectionInvariant == Spec => []IInv
<1>1. IInv /\ [Next]_vars => IInv'
  BY NextInv, StutterInv
<1>2. QED
  BY <1>1, InitInv, PTL DEF Spec

(* connection's fields and the locals of its methods keep their types. *)
THEOREM ConnectionTypeCorrect == Spec => []TypeOK
<1>1. IInv => TypeOK
  BY DEF IInv
<1>2. QED
  BY <1>1, ConnectionInvariant, PTL

(* nextdb never hands out a pool that was closed or is being closed when   *)
(* it reads cn.db, for any number of calls in any interleaving.            *)
THEOREM PoolTheorem == Spec => []CurrentPoolOpen
<1>1. IInv => CurrentPoolOpen
  BY DEF IInv, PoolInv, CurrentPoolOpen
<1>2. QED
  BY <1>1, ConnectionInvariant, PTL

(* Only calls that overlap between reading a field of connection and       *)
(* acting on it leave an open pool behind.                                 *)
THEOREM LeakTheorem == Spec => []NoLeakUnlessRaced
<1>1. IInv => NoLeakUnlessRaced
  BY DEF IInv
<1>2. QED
  BY <1>1, ConnectionInvariant, PTL

(* Only such an overlap leaves a pool of a replaced driver or data source  *)
(* current after Reload has returned.                                      *)
THEOREM StaleTheorem == Spec => []NoStalePoolUnlessRaced
<1>1. IInv => NoStalePoolUnlessRaced
  BY DEF IInv
<1>2. QED
  BY <1>1, ConnectionInvariant, PTL

(* The only connections that are never given back are those of executes    *)
(* and of queries whose statement failed to run.                           *)
THEOREM ConnTheorem == Spec => []UnreturnedConnections
<1>1. IInv => UnreturnedConnections
  BY DEF IInv, ConnInv, UnreturnedConnections
<1>2. QED
  BY <1>1, ConnectionInvariant, PTL
===========================================================================
