--------------------------- MODULE SessionsProofs ---------------------------
(***************************************************************************)
(* Theorems about sessions and their database handlers (module Sessions),  *)
(* for any requests, child sessions, queries and clock.                    *)
(***************************************************************************)
EXTENDS Sessions, TLAPS

----------------------------------------------------------------------------
(* Types. *)

(* The types hold at the start, *)
LEMMA InitType == Init => TypeOK
BY MaxTickAssumption DEF Init, TypeOK, All

(* and after every step. *)
LEMMA TypeStep ==
  ASSUME TypeOK, [Next]_vars
  PROVE  TypeOK'
<1>1. CASE Tick
  BY <1>1, MaxTickAssumption DEF Tick, treeVars, closeVars, queryVars,
    TypeOK, All
<1>2. ASSUME NEW r \in Requests, Open(r)
      PROVE  TypeOK'
  BY <1>2 DEF Open, clockVars, closeVars, queryVars, TypeOK, All
<1>3. ASSUME NEW r \in Requests, Register(r)
      PROVE  TypeOK'
  BY <1>3 DEF Register, closeVars, queryVars, TypeOK, All
<1>4. ASSUME NEW r \in Requests, End(r)
      PROVE  TypeOK'
  BY <1>4 DEF End, Close, Free, clockVars, queryVars, TypeOK, All
<1>5. ASSUME NEW r \in Requests, NEW p \in All, NEW c \in Children,
             NewChild(r, p, c)
      PROVE  TypeOK'
  BY <1>5 DEF NewChild, Uses, InvokeDb, Db, Free, clockVars, closeVars, queryVars,
    TypeOK, All
<1>6. ASSUME NEW r \in Requests, NEW c \in Children, EndChild(r, c)
      PROVE  TypeOK'
  BY <1>6 DEF EndChild, Close, Free, clockVars, queryVars, TypeOK, All
<1>7. ASSUME NEW r \in Requests, NEW q \in Queries, CloseReader(r, q)
      PROVE  TypeOK'
  BY <1>7 DEF CloseReader, Free, clockVars, treeVars, closeVars, queryVars,
    TypeOK, All
<1>8. ASSUME NEW r \in Requests, NEW s \in All, NEW q \in Queries, Capture(r, s, q)
      PROVE  TypeOK'
  <2>1. Db(s) \in Requests \cup {Nil} /\ s \in All
    BY DEF Db, TypeOK, All
  <2>2. db' \in [All -> Requests \cup {Nil}] /\ live' \subseteq Requests
    BY <1>8, <2>1 DEF Capture, InvokeDb, TypeOK
  <2>3. /\ query' \in [Queries -> {"ready", "run", "store", "done"}]
        /\ qhdl' \in [Queries -> Requests \cup {Nil}]
    BY <1>8, <2>1 DEF Capture, TypeOK
  <2>4. qmap' \in [Queries -> BOOLEAN]
    BY <1>8 DEF Capture, TypeOK
  <2>5. UNCHANGED <<now, key, reg, state, script, parent, kid, rdrs, closer, chdl,
                    cmap, found, deleter, late, rdr>>
    BY <1>8 DEF Capture, clockVars, closeVars
  <2> QED BY <2>2, <2>3, <2>4, <2>5 DEF TypeOK
<1>9. ASSUME NEW q \in Queries, RunQuery(q)
      PROVE  TypeOK'
  <2>1. query' \in [Queries -> {"ready", "run", "store", "done"}]
    <3>1. query \in [Queries -> {"ready", "run", "store", "done"}]
      BY DEF TypeOK
    <3>2. \/ query' = [query EXCEPT ![q] = "store"]
          \/ query' = [query EXCEPT ![q] = "done"]
      BY <1>9 DEF RunQuery
    <3> QED BY <3>1, <3>2
  <2>2. rdr' \in [Queries -> {"none", "open", "closed"}]
    <3>1. rdr \in [Queries -> {"none", "open", "closed"}]
      BY DEF TypeOK
    <3>2. rdr' = [rdr EXCEPT ![q] = "open"] \/ rdr' = rdr
      BY <1>9 DEF RunQuery
    <3> QED BY <3>1, <3>2
  <2>3. UNCHANGED <<now, key, reg, state, script, parent, kid, db, live, rdrs,
                    closer, chdl, cmap, found, deleter, qhdl, qmap, late>>
    BY <1>9 DEF RunQuery, clockVars, treeVars, closeVars
  <2> QED BY <2>1, <2>2, <2>3 DEF TypeOK
<1>10. ASSUME NEW q \in Queries, Store(q)
       PROVE  TypeOK'
  BY <1>10 DEF Store, StoreReader, clockVars, treeVars, closeVars, TypeOK,
    All
<1>11. ASSUME NEW s \in All, Delete(s)
       PROVE  TypeOK'
  BY <1>11 DEF Delete, closeVars, queryVars, TypeOK, All
<1>12. ASSUME NEW s \in All, ReadMap(s)
       PROVE  TypeOK'
  BY <1>12 DEF ReadMap, CloserStep, clockVars, treeVars, queryVars, TypeOK,
    All
<1>13. ASSUME NEW s \in All, Unset(s)
       PROVE  TypeOK'
  BY <1>13 DEF Unset, CloserStep, clockVars, treeVars, queryVars, TypeOK,
    All
<1>14. ASSUME NEW s \in All, RangeMap(s)
       PROVE  TypeOK'
  BY <1>14 DEF RangeMap, CloserStep, clockVars, treeVars, queryVars, TypeOK,
    All
<1>15. ASSUME NEW s \in All, ClearMap(s)
       PROVE  TypeOK'
  BY <1>15 DEF ClearMap, CloserStep, clockVars, treeVars, queryVars, TypeOK,
    All
<1>16. ASSUME NEW s \in All, CloseNext(s)
       PROVE  TypeOK'
  BY <1>16 DEF CloseNext, CloserStep, clockVars, treeVars, queryVars,
    TypeOK, All
<1>17. ASSUME NEW s \in All, CloserEnds(s)
       PROVE  TypeOK'
  BY <1>17 DEF CloserEnds, CloserStep, clockVars, treeVars, queryVars,
    TypeOK, All
<1>18. CASE UNCHANGED vars
  BY <1>18 DEF vars, clockVars, treeVars, closeVars, queryVars, TypeOK, All
<1> QED
  BY <1>1, <1>2, <1>3, <1>4, <1>5, <1>6, <1>7, <1>8, <1>9, <1>10, <1>11,
    <1>12, <1>13, <1>14, <1>15, <1>16, <1>17, <1>18 DEF Next, Script,
    Queried, CloseHandler

----------------------------------------------------------------------------
(* Who owns what. *)

(* A request has its own handler or none; the sessions that a script made, *)
(* at any depth, have that of its request.                                 *)
OwnerInv ==
  /\ \A r \in Requests : /\ db[r] \in {r, Nil}
                         /\ state[r] \in {"none", "made"} => db[r] = Nil
  /\ \A c \in Children :
       /\ state[c] # "made"
       /\ state[c] \in {"open", "closed"} =>
            script[c] \in Requests /\ state[script[c]] \in {"open", "closed"}
       /\ state[c] = "open" =>
            /\ db[c] = script[c]
            /\ state[script[c]] = "open" => db[script[c]] = script[c]

Owner(s) == IF s \in Requests THEN s ELSE script[s]

(* The goroutines that Close starts: none before it, each with the handler *)
(* of its session; one that ranges has found the map.                      *)
CloserInv ==
  \A s \in All :
    /\ state[s] # "closed" =>
         closer[s] = "none" /\ deleter[s] = "none" /\ chdl[s] = Nil /\ ~cmap[s]
    /\ chdl[s] # Nil => chdl[s] = Owner(s)
    /\ closer[s] \in {"range", "clear", "close"} => cmap[s]
    /\ closer[s] \in {"none", "read", "unset", "range"} => found[s] = {}
    /\ cmap[s] => chdl[s] # Nil

(* Where a session is entered: under its own key, or in the sessions of    *)
(* its owner.                                                              *)
EntryInv ==
  /\ \A k \in 0..MaxTick : reg[k] # Nil =>
       key[reg[k]] = k /\ state[reg[k]] \in {"open", "closed"}
  /\ \A s \in All : kid[s] # Nil =>
       parent[kid[s]] = s /\ state[kid[s]] \in {"open", "closed"}

(* Nothing is owned at the start. *)
LEMMA InitOwner == Init => OwnerInv /\ CloserInv /\ EntryInv
BY DEF Init, OwnerInv, CloserInv, EntryInv, All

(* A request has its own handler or none, a child that of its request. *)
LEMMA OwnerStep ==
  ASSUME TypeOK, OwnerInv, [Next]_vars
  PROVE  OwnerInv'
<1>1. CASE Tick
  BY <1>1 DEF Tick, treeVars, closeVars, queryVars, TypeOK, OwnerInv, All
<1>2. ASSUME NEW r \in Requests, Open(r)
      PROVE  OwnerInv'
  BY <1>2, MaxTickAssumption, SessionsAssumption DEF Open, clockVars,
    closeVars, queryVars, TypeOK, OwnerInv, All
<1>3. ASSUME NEW r \in Requests, Register(r)
      PROVE  OwnerInv'
  BY <1>3 DEF Register, closeVars, queryVars, TypeOK, OwnerInv, All
<1>4. ASSUME NEW r \in Requests, End(r)
      PROVE  OwnerInv'
  BY <1>4 DEF End, Close, Free, clockVars, queryVars, TypeOK, OwnerInv, All
<1>5. ASSUME NEW r \in Requests, NEW p \in All, NEW c \in Children,
             NewChild(r, p, c)
      PROVE  OwnerInv'
  BY <1>5, MaxTickAssumption, SessionsAssumption DEF NewChild, Uses, InvokeDb, Db,
    Free, clockVars, closeVars, queryVars, TypeOK, OwnerInv, All
<1>6. ASSUME NEW r \in Requests, NEW c \in Children, EndChild(r, c)
      PROVE  OwnerInv'
  BY <1>6 DEF EndChild, Close, Free, clockVars, queryVars, TypeOK, OwnerInv,
    All
<1>7. ASSUME NEW r \in Requests, NEW q \in Queries, CloseReader(r, q)
      PROVE  OwnerInv'
  BY <1>7 DEF CloseReader, Free, clockVars, treeVars, closeVars, queryVars,
    TypeOK, OwnerInv, All
<1>8. ASSUME NEW r \in Requests, NEW s \in All, NEW q \in Queries, Capture(r, s, q)
      PROVE  OwnerInv'
  BY <1>8, MaxTickAssumption, SessionsAssumption DEF Capture, Uses, InvokeDb, Db,
    Free, clockVars, closeVars, TypeOK, OwnerInv, All
<1>9. ASSUME NEW q \in Queries, RunQuery(q)
      PROVE  OwnerInv'
  BY <1>9 DEF RunQuery, clockVars, treeVars, closeVars, TypeOK, OwnerInv,
    All
<1>10. ASSUME NEW q \in Queries, Store(q)
       PROVE  OwnerInv'
  BY <1>10 DEF Store, StoreReader, clockVars, treeVars, closeVars, TypeOK,
    OwnerInv, All
<1>11. ASSUME NEW s \in All, Delete(s)
       PROVE  OwnerInv'
  BY <1>11 DEF Delete, closeVars, queryVars, TypeOK, OwnerInv, All
<1>12. ASSUME NEW s \in All, ReadMap(s)
       PROVE  OwnerInv'
  BY <1>12 DEF ReadMap, CloserStep, clockVars, treeVars, queryVars, TypeOK,
    OwnerInv, All
<1>13. ASSUME NEW s \in All, Unset(s)
       PROVE  OwnerInv'
  BY <1>13 DEF Unset, CloserStep, clockVars, treeVars, queryVars, TypeOK,
    OwnerInv, All
<1>14. ASSUME NEW s \in All, RangeMap(s)
       PROVE  OwnerInv'
  BY <1>14 DEF RangeMap, CloserStep, clockVars, treeVars, queryVars, TypeOK,
    OwnerInv, All
<1>15. ASSUME NEW s \in All, ClearMap(s)
       PROVE  OwnerInv'
  BY <1>15 DEF ClearMap, CloserStep, clockVars, treeVars, queryVars, TypeOK,
    OwnerInv, All
<1>16. ASSUME NEW s \in All, CloseNext(s)
       PROVE  OwnerInv'
  BY <1>16 DEF CloseNext, CloserStep, clockVars, treeVars, queryVars,
    TypeOK, OwnerInv, All
<1>17. ASSUME NEW s \in All, CloserEnds(s)
       PROVE  OwnerInv'
  BY <1>17 DEF CloserEnds, CloserStep, clockVars, treeVars, queryVars,
    TypeOK, OwnerInv, All
<1>18. CASE UNCHANGED vars
  BY <1>18 DEF vars, clockVars, treeVars, closeVars, queryVars, TypeOK,
    OwnerInv, All
<1> QED
  BY <1>1, <1>2, <1>3, <1>4, <1>5, <1>6, <1>7, <1>8, <1>9, <1>10, <1>11,
    <1>12, <1>13, <1>14, <1>15, <1>16, <1>17, <1>18 DEF Next, Script,
    Queried, CloseHandler

(* The goroutines that Close starts keep to their session. *)
LEMMA CloserStepInv ==
  ASSUME TypeOK, OwnerInv, CloserInv, [Next]_vars
  PROVE  CloserInv'
<1>1. CASE Tick
  BY <1>1 DEF Tick, treeVars, closeVars, queryVars, TypeOK, OwnerInv,
    CloserInv, Owner, All
<1>2. ASSUME NEW r \in Requests, Open(r)
      PROVE  CloserInv'
  BY <1>2 DEF Open, clockVars, closeVars, queryVars, TypeOK, OwnerInv,
    CloserInv, Owner, All
<1>3. ASSUME NEW r \in Requests, Register(r)
      PROVE  CloserInv'
  BY <1>3 DEF Register, closeVars, queryVars, TypeOK, OwnerInv, CloserInv,
    Owner, All
<1>4. ASSUME NEW r \in Requests, End(r)
      PROVE  CloserInv'
  BY <1>4 DEF End, Close, Free, clockVars, queryVars, TypeOK, OwnerInv,
    CloserInv, Owner, All
<1>5. ASSUME NEW r \in Requests, NEW p \in All, NEW c \in Children,
             NewChild(r, p, c)
      PROVE  CloserInv'
  BY <1>5 DEF NewChild, Uses, InvokeDb, Db, Free, clockVars, closeVars, queryVars,
    TypeOK, OwnerInv, CloserInv, Owner, All
<1>6. ASSUME NEW r \in Requests, NEW c \in Children, EndChild(r, c)
      PROVE  CloserInv'
  BY <1>6 DEF EndChild, Close, Free, clockVars, queryVars, TypeOK, OwnerInv,
    CloserInv, Owner, All
<1>7. ASSUME NEW r \in Requests, NEW q \in Queries, CloseReader(r, q)
      PROVE  CloserInv'
  BY <1>7 DEF CloseReader, Free, clockVars, treeVars, closeVars, queryVars,
    TypeOK, OwnerInv, CloserInv, Owner, All
<1>8. ASSUME NEW r \in Requests, NEW s \in All, NEW q \in Queries, Capture(r, s, q)
      PROVE  CloserInv'
  BY <1>8 DEF Capture, Uses, InvokeDb, Db, Free, clockVars, closeVars, TypeOK,
    OwnerInv, CloserInv, Owner, All
<1>9. ASSUME NEW q \in Queries, RunQuery(q)
      PROVE  CloserInv'
  BY <1>9 DEF RunQuery, clockVars, treeVars, closeVars, TypeOK, OwnerInv,
    CloserInv, Owner, All
<1>10. ASSUME NEW q \in Queries, Store(q)
       PROVE  CloserInv'
  BY <1>10 DEF Store, StoreReader, clockVars, treeVars, closeVars, TypeOK,
    OwnerInv, CloserInv, Owner, All
<1>11. ASSUME NEW s \in All, Delete(s)
       PROVE  CloserInv'
  BY <1>11 DEF Delete, closeVars, queryVars, TypeOK, OwnerInv, CloserInv,
    Owner, All
<1>12. ASSUME NEW s \in All, ReadMap(s)
       PROVE  CloserInv'
  BY <1>12, MaxTickAssumption, SessionsAssumption DEF ReadMap, CloserStep,
    clockVars, treeVars, queryVars, TypeOK, OwnerInv, CloserInv, Owner, All
<1>13. ASSUME NEW s \in All, Unset(s)
       PROVE  CloserInv'
  BY <1>13 DEF Unset, CloserStep, clockVars, treeVars, queryVars, TypeOK,
    OwnerInv, CloserInv, Owner, All
<1>14. ASSUME NEW s \in All, RangeMap(s)
       PROVE  CloserInv'
  BY <1>14 DEF RangeMap, CloserStep, clockVars, treeVars, queryVars, TypeOK,
    OwnerInv, CloserInv, Owner, All
<1>15. ASSUME NEW s \in All, ClearMap(s)
       PROVE  CloserInv'
  BY <1>15 DEF ClearMap, CloserStep, clockVars, treeVars, queryVars, TypeOK,
    OwnerInv, CloserInv, Owner, All
<1>16. ASSUME NEW s \in All, CloseNext(s)
       PROVE  CloserInv'
  BY <1>16 DEF CloseNext, CloserStep, clockVars, treeVars, queryVars,
    TypeOK, OwnerInv, CloserInv, Owner, All
<1>17. ASSUME NEW s \in All, CloserEnds(s)
       PROVE  CloserInv'
  BY <1>17 DEF CloserEnds, CloserStep, clockVars, treeVars, queryVars,
    TypeOK, OwnerInv, CloserInv, Owner, All
<1>18. CASE UNCHANGED vars
  BY <1>18 DEF vars, clockVars, treeVars, closeVars, queryVars, TypeOK,
    OwnerInv, CloserInv, Owner, All
<1> QED
  BY <1>1, <1>2, <1>3, <1>4, <1>5, <1>6, <1>7, <1>8, <1>9, <1>10, <1>11,
    <1>12, <1>13, <1>14, <1>15, <1>16, <1>17, <1>18 DEF Next, Script,
    Queried, CloseHandler

(* A session is entered under its own key, or in those of its owner. *)
LEMMA EntryStep ==
  ASSUME TypeOK, OwnerInv, EntryInv, [Next]_vars
  PROVE  EntryInv'
<1>1. CASE Tick
  BY <1>1 DEF Tick, treeVars, closeVars, queryVars, TypeOK, OwnerInv,
    EntryInv, All
<1>2. ASSUME NEW r \in Requests, Open(r)
      PROVE  EntryInv'
  BY <1>2 DEF Open, clockVars, closeVars, queryVars, TypeOK, OwnerInv,
    EntryInv, All
<1>3. ASSUME NEW r \in Requests, Register(r)
      PROVE  EntryInv'
  BY <1>3 DEF Register, closeVars, queryVars, TypeOK, OwnerInv, EntryInv,
    All
<1>4. ASSUME NEW r \in Requests, End(r)
      PROVE  EntryInv'
  BY <1>4 DEF End, Close, Free, clockVars, queryVars, TypeOK, OwnerInv,
    EntryInv, All
<1>5. ASSUME NEW r \in Requests, NEW p \in All, NEW c \in Children,
             NewChild(r, p, c)
      PROVE  EntryInv'
  BY <1>5 DEF NewChild, Uses, InvokeDb, Db, Free, clockVars, closeVars, queryVars,
    TypeOK, OwnerInv, EntryInv, All
<1>6. ASSUME NEW r \in Requests, NEW c \in Children, EndChild(r, c)
      PROVE  EntryInv'
  BY <1>6 DEF EndChild, Close, Free, clockVars, queryVars, TypeOK, OwnerInv,
    EntryInv, All
<1>7. ASSUME NEW r \in Requests, NEW q \in Queries, CloseReader(r, q)
      PROVE  EntryInv'
  BY <1>7 DEF CloseReader, Free, clockVars, treeVars, closeVars, queryVars,
    TypeOK, OwnerInv, EntryInv, All
<1>8. ASSUME NEW r \in Requests, NEW s \in All, NEW q \in Queries, Capture(r, s, q)
      PROVE  EntryInv'
  BY <1>8 DEF Capture, Uses, InvokeDb, Db, Free, clockVars, closeVars, TypeOK,
    OwnerInv, EntryInv, All
<1>9. ASSUME NEW q \in Queries, RunQuery(q)
      PROVE  EntryInv'
  BY <1>9 DEF RunQuery, clockVars, treeVars, closeVars, TypeOK, OwnerInv,
    EntryInv, All
<1>10. ASSUME NEW q \in Queries, Store(q)
       PROVE  EntryInv'
  BY <1>10 DEF Store, StoreReader, clockVars, treeVars, closeVars, TypeOK,
    OwnerInv, EntryInv, All
<1>11. ASSUME NEW s \in All, Delete(s)
       PROVE  EntryInv'
  <2>1. UNCHANGED <<now, key, state, parent>>
    BY <1>11 DEF Delete
  <2>2. \A k \in 0..MaxTick : reg'[k] \in {reg[k], Nil}
    BY <1>11 DEF Delete, TypeOK
  <2>3. \A r \in All : kid'[r] \in {kid[r], Nil}
    BY <1>11 DEF Delete, TypeOK
  <2> QED BY <2>1, <2>2, <2>3 DEF EntryInv
<1>12. ASSUME NEW s \in All, ReadMap(s)
       PROVE  EntryInv'
  BY <1>12 DEF ReadMap, CloserStep, clockVars, treeVars, queryVars, TypeOK,
    OwnerInv, EntryInv, All
<1>13. ASSUME NEW s \in All, Unset(s)
       PROVE  EntryInv'
  BY <1>13 DEF Unset, CloserStep, clockVars, treeVars, queryVars, TypeOK,
    OwnerInv, EntryInv, All
<1>14. ASSUME NEW s \in All, RangeMap(s)
       PROVE  EntryInv'
  BY <1>14 DEF RangeMap, CloserStep, clockVars, treeVars, queryVars, TypeOK,
    OwnerInv, EntryInv, All
<1>15. ASSUME NEW s \in All, ClearMap(s)
       PROVE  EntryInv'
  BY <1>15 DEF ClearMap, CloserStep, clockVars, treeVars, queryVars, TypeOK,
    OwnerInv, EntryInv, All
<1>16. ASSUME NEW s \in All, CloseNext(s)
       PROVE  EntryInv'
  BY <1>16 DEF CloseNext, CloserStep, clockVars, treeVars, queryVars,
    TypeOK, OwnerInv, EntryInv, All
<1>17. ASSUME NEW s \in All, CloserEnds(s)
       PROVE  EntryInv'
  BY <1>17 DEF CloserEnds, CloserStep, clockVars, treeVars, queryVars,
    TypeOK, OwnerInv, EntryInv, All
<1>18. CASE UNCHANGED vars
  BY <1>18 DEF vars, clockVars, treeVars, closeVars, queryVars, TypeOK,
    OwnerInv, EntryInv, All
<1> QED
  BY <1>1, <1>2, <1>3, <1>4, <1>5, <1>6, <1>7, <1>8, <1>9, <1>10, <1>11,
    <1>12, <1>13, <1>14, <1>15, <1>16, <1>17, <1>18 DEF Next, Script,
    Queried, CloseHandler

(* A closed session that is still in a map is being deleted from it. *)
LEMMA DeletedStep ==
  ASSUME TypeOK, OwnerInv, CloserInv, EntryInv, ClosedIsBeingDeleted, [Next]_vars
  PROVE  ClosedIsBeingDeleted'
<1>1. CASE Tick
  BY <1>1 DEF Tick, treeVars, closeVars, queryVars, TypeOK, OwnerInv,
    CloserInv, EntryInv, ClosedIsBeingDeleted, All
<1>2. ASSUME NEW r \in Requests, Open(r)
      PROVE  ClosedIsBeingDeleted'
  BY <1>2 DEF Open, clockVars, closeVars, queryVars, TypeOK, OwnerInv,
    CloserInv, EntryInv, ClosedIsBeingDeleted, All
<1>3. ASSUME NEW r \in Requests, Register(r)
      PROVE  ClosedIsBeingDeleted'
  BY <1>3 DEF Register, closeVars, queryVars, TypeOK, OwnerInv, CloserInv,
    EntryInv, ClosedIsBeingDeleted, All
<1>4. ASSUME NEW r \in Requests, End(r)
      PROVE  ClosedIsBeingDeleted'
  BY <1>4 DEF End, Close, Free, clockVars, queryVars, TypeOK, OwnerInv,
    CloserInv, EntryInv, ClosedIsBeingDeleted, All
<1>5. ASSUME NEW r \in Requests, NEW p \in All, NEW c \in Children,
             NewChild(r, p, c)
      PROVE  ClosedIsBeingDeleted'
  BY <1>5 DEF NewChild, Uses, InvokeDb, Db, Free, clockVars, closeVars, queryVars,
    TypeOK, OwnerInv, CloserInv, EntryInv, ClosedIsBeingDeleted, All
<1>6. ASSUME NEW r \in Requests, NEW c \in Children, EndChild(r, c)
      PROVE  ClosedIsBeingDeleted'
  BY <1>6 DEF EndChild, Close, Free, clockVars, queryVars, TypeOK, OwnerInv,
    CloserInv, EntryInv, ClosedIsBeingDeleted, All
<1>7. ASSUME NEW r \in Requests, NEW q \in Queries, CloseReader(r, q)
      PROVE  ClosedIsBeingDeleted'
  BY <1>7 DEF CloseReader, Free, clockVars, treeVars, closeVars, queryVars,
    TypeOK, OwnerInv, CloserInv, EntryInv, ClosedIsBeingDeleted, All
<1>8. ASSUME NEW r \in Requests, NEW s \in All, NEW q \in Queries, Capture(r, s, q)
      PROVE  ClosedIsBeingDeleted'
  BY <1>8 DEF Capture, Uses, InvokeDb, Db, Free, clockVars, closeVars, TypeOK,
    OwnerInv, CloserInv, EntryInv, ClosedIsBeingDeleted, All
<1>9. ASSUME NEW q \in Queries, RunQuery(q)
      PROVE  ClosedIsBeingDeleted'
  BY <1>9 DEF RunQuery, clockVars, treeVars, closeVars, TypeOK, OwnerInv,
    CloserInv, EntryInv, ClosedIsBeingDeleted, All
<1>10. ASSUME NEW q \in Queries, Store(q)
       PROVE  ClosedIsBeingDeleted'
  BY <1>10 DEF Store, StoreReader, clockVars, treeVars, closeVars, TypeOK,
    OwnerInv, CloserInv, EntryInv, ClosedIsBeingDeleted, All
<1>11. ASSUME NEW s \in All, Delete(s)
       PROVE  ClosedIsBeingDeleted'
  <2>1. /\ state' = state /\ deleter[s] = "start"
        /\ deleter' = [deleter EXCEPT ![s] = "done"]
    BY <1>11 DEF Delete
  <2>2. ASSUME NEW r \in All, kid'[r] # Nil, state'[kid'[r]] = "closed"
        PROVE  deleter'[kid'[r]] = "start"
    <3>1. kid'[r] = kid[r] /\ kid[r] \in Children /\ parent[kid[r]] = r
      BY <1>11, <2>2 DEF Delete, TypeOK, EntryInv
    <3>2. kid[r] # s
      BY <1>11, <2>2, <3>1, SessionsAssumption DEF Delete, TypeOK
    <3> QED BY <2>1, <2>2, <3>1, <3>2 DEF ClosedIsBeingDeleted, TypeOK, All
  <2>3. ASSUME NEW k \in 0..MaxTick, reg'[k] # Nil, state'[reg'[k]] = "closed"
        PROVE  deleter'[reg'[k]] = "start"
    <3>1. /\ reg'[k] = reg[k] \/ reg'[k] = Nil
          /\ s \in Requests => reg'[key[s]] = Nil
      BY <1>11, SessionsAssumption, ZenonT(40) DEF Delete, TypeOK
    <3>2. reg'[k] = reg[k] /\ reg[k] \in Requests /\ key[reg[k]] = k
      <4>1. reg'[k] = reg[k] /\ reg[k] # Nil
        BY <2>3, <3>1
      <4>2. reg[k] \in Requests
        BY <4>1 DEF TypeOK
      <4> QED BY <4>1, <4>2 DEF EntryInv
    <3>3. reg[k] # s
      BY <2>3, <3>1, <3>2
    <3> QED BY <2>1, <2>3, <3>2, <3>3 DEF ClosedIsBeingDeleted, TypeOK, All
  <2> QED BY <2>2, <2>3 DEF ClosedIsBeingDeleted
<1>12. ASSUME NEW s \in All, ReadMap(s)
       PROVE  ClosedIsBeingDeleted'
  BY <1>12 DEF ReadMap, CloserStep, clockVars, treeVars, queryVars, TypeOK,
    OwnerInv, CloserInv, EntryInv, ClosedIsBeingDeleted, All
<1>13. ASSUME NEW s \in All, Unset(s)
       PROVE  ClosedIsBeingDeleted'
  BY <1>13 DEF Unset, CloserStep, clockVars, treeVars, queryVars, TypeOK,
    OwnerInv, CloserInv, EntryInv, ClosedIsBeingDeleted, All
<1>14. ASSUME NEW s \in All, RangeMap(s)
       PROVE  ClosedIsBeingDeleted'
  BY <1>14 DEF RangeMap, CloserStep, clockVars, treeVars, queryVars, TypeOK,
    OwnerInv, CloserInv, EntryInv, ClosedIsBeingDeleted, All
<1>15. ASSUME NEW s \in All, ClearMap(s)
       PROVE  ClosedIsBeingDeleted'
  BY <1>15 DEF ClearMap, CloserStep, clockVars, treeVars, queryVars, TypeOK,
    OwnerInv, CloserInv, EntryInv, ClosedIsBeingDeleted, All
<1>16. ASSUME NEW s \in All, CloseNext(s)
       PROVE  ClosedIsBeingDeleted'
  BY <1>16 DEF CloseNext, CloserStep, clockVars, treeVars, queryVars,
    TypeOK, OwnerInv, CloserInv, EntryInv, ClosedIsBeingDeleted, All
<1>17. ASSUME NEW s \in All, CloserEnds(s)
       PROVE  ClosedIsBeingDeleted'
  BY <1>17 DEF CloserEnds, CloserStep, clockVars, treeVars, queryVars,
    TypeOK, OwnerInv, CloserInv, EntryInv, ClosedIsBeingDeleted, All
<1>18. CASE UNCHANGED vars
  BY <1>18 DEF vars, clockVars, treeVars, closeVars, queryVars, TypeOK,
    OwnerInv, CloserInv, EntryInv, ClosedIsBeingDeleted, All
<1> QED
  BY <1>1, <1>2, <1>3, <1>4, <1>5, <1>6, <1>7, <1>8, <1>9, <1>10, <1>11,
    <1>12, <1>13, <1>14, <1>15, <1>16, <1>17, <1>18 DEF Next, Script,
    Queried, CloseHandler

(* A request that runs is registered, unless its key was given out again. *)
LEMMA RegisteredStep ==
  ASSUME TypeOK, CloserInv, RunningIsRegistered, [Next]_vars
  PROVE  RunningIsRegistered'
<1>1. CASE Tick
  BY <1>1 DEF Tick, treeVars, closeVars, queryVars, TypeOK, CloserInv,
    RunningIsRegistered, All
<1>2. ASSUME NEW r \in Requests, Open(r)
      PROVE  RunningIsRegistered'
  BY <1>2, SMTT(40) DEF Open, clockVars, closeVars, queryVars, TypeOK, CloserInv,
    RunningIsRegistered, All
<1>3. ASSUME NEW r \in Requests, Register(r)
      PROVE  RunningIsRegistered'
  <2>1. /\ state[r] = "made" /\ state' = [state EXCEPT ![r] = "open"]
        /\ key' = [key EXCEPT ![r] = now] /\ reg' = [reg EXCEPT ![now] = r]
    BY <1>3 DEF Register
  <2>2. reg'[key'[r]] = r
    BY <2>1 DEF TypeOK
  <2>3. ASSUME NEW x \in Requests, x # r, state'[x] = "open"
        PROVE  \/ reg'[key'[x]] = x
               \/ \E y \in Requests \ {x} : state'[y] \in {"open", "closed"} /\ key'[y] = key'[x]
    <3>1. state[x] = "open" /\ key'[x] = key[x] /\ state'[r] = "open" /\ key'[r] = now
      BY <2>1, <2>3 DEF TypeOK, All
    <3>2. CASE key[x] = now
      BY <2>3, <3>1, <3>2
    <3>3. CASE key[x] # now /\ reg[key[x]] = x
      BY <2>1, <3>1, <3>3 DEF TypeOK
    <3>4. CASE \E y \in Requests \ {x} : state[y] \in {"open", "closed"} /\ key[y] = key[x]
      BY <2>1, <3>1, <3>4 DEF TypeOK, All
    <3> QED BY <2>3, <3>1, <3>2, <3>3, <3>4 DEF RunningIsRegistered
  <2> QED BY <2>1, <2>2, <2>3 DEF RunningIsRegistered
<1>4. ASSUME NEW r \in Requests, End(r)
      PROVE  RunningIsRegistered'
  BY <1>4 DEF End, Close, Free, clockVars, queryVars, TypeOK, CloserInv,
    RunningIsRegistered, All
<1>5. ASSUME NEW r \in Requests, NEW p \in All, NEW c \in Children,
             NewChild(r, p, c)
      PROVE  RunningIsRegistered'
  BY <1>5, MaxTickAssumption, SessionsAssumption DEF NewChild, Uses, InvokeDb, Db,
    Free, clockVars, closeVars, queryVars, TypeOK, CloserInv,
    RunningIsRegistered, All
<1>6. ASSUME NEW r \in Requests, NEW c \in Children, EndChild(r, c)
      PROVE  RunningIsRegistered'
  BY <1>6 DEF EndChild, Close, Free, clockVars, queryVars, TypeOK,
    CloserInv, RunningIsRegistered, All
<1>7. ASSUME NEW r \in Requests, NEW q \in Queries, CloseReader(r, q)
      PROVE  RunningIsRegistered'
  BY <1>7 DEF CloseReader, Free, clockVars, treeVars, closeVars, queryVars,
    TypeOK, CloserInv, RunningIsRegistered, All
<1>8. ASSUME NEW r \in Requests, NEW s \in All, NEW q \in Queries, Capture(r, s, q)
      PROVE  RunningIsRegistered'
  BY <1>8 DEF Capture, Uses, InvokeDb, Db, Free, clockVars, closeVars, TypeOK,
    CloserInv, RunningIsRegistered, All
<1>9. ASSUME NEW q \in Queries, RunQuery(q)
      PROVE  RunningIsRegistered'
  BY <1>9 DEF RunQuery, clockVars, treeVars, closeVars, TypeOK, CloserInv,
    RunningIsRegistered, All
<1>10. ASSUME NEW q \in Queries, Store(q)
       PROVE  RunningIsRegistered'
  BY <1>10 DEF Store, StoreReader, clockVars, treeVars, closeVars, TypeOK,
    CloserInv, RunningIsRegistered, All
<1>11. ASSUME NEW s \in All, Delete(s)
       PROVE  RunningIsRegistered'
  BY <1>11, MaxTickAssumption, SessionsAssumption DEF Delete, closeVars,
    queryVars, TypeOK, CloserInv, RunningIsRegistered, All
<1>12. ASSUME NEW s \in All, ReadMap(s)
       PROVE  RunningIsRegistered'
  BY <1>12 DEF ReadMap, CloserStep, clockVars, treeVars, queryVars, TypeOK,
    CloserInv, RunningIsRegistered, All
<1>13. ASSUME NEW s \in All, Unset(s)
       PROVE  RunningIsRegistered'
  BY <1>13 DEF Unset, CloserStep, clockVars, treeVars, queryVars, TypeOK,
    CloserInv, RunningIsRegistered, All
<1>14. ASSUME NEW s \in All, RangeMap(s)
       PROVE  RunningIsRegistered'
  BY <1>14 DEF RangeMap, CloserStep, clockVars, treeVars, queryVars, TypeOK,
    CloserInv, RunningIsRegistered, All
<1>15. ASSUME NEW s \in All, ClearMap(s)
       PROVE  RunningIsRegistered'
  BY <1>15 DEF ClearMap, CloserStep, clockVars, treeVars, queryVars, TypeOK,
    CloserInv, RunningIsRegistered, All
<1>16. ASSUME NEW s \in All, CloseNext(s)
       PROVE  RunningIsRegistered'
  BY <1>16 DEF CloseNext, CloserStep, clockVars, treeVars, queryVars,
    TypeOK, CloserInv, RunningIsRegistered, All
<1>17. ASSUME NEW s \in All, CloserEnds(s)
       PROVE  RunningIsRegistered'
  BY <1>17 DEF CloserEnds, CloserStep, clockVars, treeVars, queryVars,
    TypeOK, CloserInv, RunningIsRegistered, All
<1>18. CASE UNCHANGED vars
  BY <1>18 DEF vars, clockVars, treeVars, closeVars, queryVars, TypeOK,
    CloserInv, RunningIsRegistered, All
<1> QED
  BY <1>1, <1>2, <1>3, <1>4, <1>5, <1>6, <1>7, <1>8, <1>9, <1>10, <1>11,
    <1>12, <1>13, <1>14, <1>15, <1>16, <1>17, <1>18 DEF Next, Script,
    Queried, CloseHandler

----------------------------------------------------------------------------
(* Handlers and readers. *)

ClosedChild(r) == \E c \in Children : script[c] = r /\ state[c] = "closed"

(* A query has a handler from its start; one that found no map found the   *)
(* handler closed.  Its reader is known to nobody before it is stored.     *)
QueryInv ==
  \A q \in Queries :
    /\ query[q] # "ready" =>
         qhdl[q] \in Requests /\ state[qhdl[q]] \in {"open", "closed"}
    /\ query[q] # "ready" /\ ~qmap[q] => ClosedChild(qhdl[q])
    /\ query[q] \in {"ready", "run"} => rdr[q] = "none"
    /\ q \in late => query[q] = "done"
    /\ query[q] # "done" => /\ \A r \in Requests : q \notin rdrs[r]
                            /\ \A s \in All : q \notin found[s]

(* A running request whose handler is closed, or has a reader stored too   *)
(* late, has had a child.                                                  *)
LiveInv ==
  \A r \in Requests : state[r] = "open" /\ db[r] # Nil /\ r \notin live => ClosedChild(r)
LateInv ==
  \A q \in late : state[qhdl[q]] = "open" => ClosedChild(qhdl[q])

(* An open reader, stored in time, is in the map or in the hands of a      *)
(* goroutine that will close it.                                           *)
HeldInv ==
  \A q \in Queries : query[q] = "done" /\ rdr[q] = "open" /\ q \notin late =>
    q \in rdrs[qhdl[q]] \/ \E s \in All : q \in found[s]

(* What is in the map once a goroutine has collected it came late.         *)
SweptInv ==
  \A s \in All :
    /\ closer[s] = "clear" => rdrs[chdl[s]] \subseteq late \cup found[s]
    /\ closer[s] \in {"close", "done"} /\ cmap[s] => rdrs[chdl[s]] \subseteq late

(* No reader is open at the start. *)
LEMMA InitReaders == Init => QueryInv /\ LiveInv /\ LateInv /\ HeldInv /\ SweptInv
BY DEF Init, QueryInv, LiveInv, LateInv, HeldInv, SweptInv, All

ChildrenStayClosed ==
  \A c \in Children :
    state[c] = "closed" => state'[c] = "closed" /\ script'[c] = script[c]

(* A closed child stays closed, and of the script it was of, *)
LEMMA StaysClosed ==
  ASSUME TypeOK, OwnerInv, [Next]_vars
  PROVE  ChildrenStayClosed
<1>1. CASE Tick
  BY <1>1 DEF Tick, treeVars, closeVars, queryVars, TypeOK, OwnerInv, All,
    ChildrenStayClosed
<1>2. ASSUME NEW r \in Requests, Open(r)
      PROVE  ChildrenStayClosed
  BY <1>2 DEF Open, clockVars, closeVars, queryVars, TypeOK, OwnerInv, All,
    ChildrenStayClosed
<1>3. ASSUME NEW r \in Requests, Register(r)
      PROVE  ChildrenStayClosed
  BY <1>3 DEF Register, closeVars, queryVars, TypeOK, OwnerInv, All,
    ChildrenStayClosed
<1>4. ASSUME NEW r \in Requests, End(r)
      PROVE  ChildrenStayClosed
  BY <1>4 DEF End, Close, Free, clockVars, queryVars, TypeOK, OwnerInv, All,
    ChildrenStayClosed
<1>5. ASSUME NEW r \in Requests, NEW p \in All, NEW c \in Children,
             NewChild(r, p, c)
      PROVE  ChildrenStayClosed
  BY <1>5 DEF NewChild, Uses, InvokeDb, Db, Free, clockVars, closeVars, queryVars,
    TypeOK, OwnerInv, All, ChildrenStayClosed
<1>6. ASSUME NEW r \in Requests, NEW c \in Children, EndChild(r, c)
      PROVE  ChildrenStayClosed
  BY <1>6 DEF EndChild, Close, Free, clockVars, queryVars, TypeOK, OwnerInv,
    All, ChildrenStayClosed
<1>7. ASSUME NEW r \in Requests, NEW q \in Queries, CloseReader(r, q)
      PROVE  ChildrenStayClosed
  BY <1>7 DEF CloseReader, Free, clockVars, treeVars, closeVars, queryVars,
    TypeOK, OwnerInv, All, ChildrenStayClosed
<1>8. ASSUME NEW r \in Requests, NEW s \in All, NEW q \in Queries, Capture(r, s, q)
      PROVE  ChildrenStayClosed
  BY <1>8 DEF Capture, Uses, InvokeDb, Db, Free, clockVars, closeVars, TypeOK,
    OwnerInv, All, ChildrenStayClosed
<1>9. ASSUME NEW q \in Queries, RunQuery(q)
      PROVE  ChildrenStayClosed
  BY <1>9 DEF RunQuery, clockVars, treeVars, closeVars, TypeOK, OwnerInv,
    All, ChildrenStayClosed
<1>10. ASSUME NEW q \in Queries, Store(q)
       PROVE  ChildrenStayClosed
  BY <1>10 DEF Store, StoreReader, clockVars, treeVars, closeVars, TypeOK,
    OwnerInv, All, ChildrenStayClosed
<1>11. ASSUME NEW s \in All, Delete(s)
       PROVE  ChildrenStayClosed
  BY <1>11 DEF Delete, closeVars, queryVars, TypeOK, OwnerInv, All,
    ChildrenStayClosed
<1>12. ASSUME NEW s \in All, ReadMap(s)
       PROVE  ChildrenStayClosed
  BY <1>12 DEF ReadMap, CloserStep, clockVars, treeVars, queryVars, TypeOK,
    OwnerInv, All, ChildrenStayClosed
<1>13. ASSUME NEW s \in All, Unset(s)
       PROVE  ChildrenStayClosed
  BY <1>13 DEF Unset, CloserStep, clockVars, treeVars, queryVars, TypeOK,
    OwnerInv, All, ChildrenStayClosed
<1>14. ASSUME NEW s \in All, RangeMap(s)
       PROVE  ChildrenStayClosed
  BY <1>14 DEF RangeMap, CloserStep, clockVars, treeVars, queryVars, TypeOK,
    OwnerInv, All, ChildrenStayClosed
<1>15. ASSUME NEW s \in All, ClearMap(s)
       PROVE  ChildrenStayClosed
  BY <1>15 DEF ClearMap, CloserStep, clockVars, treeVars, queryVars, TypeOK,
    OwnerInv, All, ChildrenStayClosed
<1>16. ASSUME NEW s \in All, CloseNext(s)
       PROVE  ChildrenStayClosed
  BY <1>16 DEF CloseNext, CloserStep, clockVars, treeVars, queryVars,
    TypeOK, OwnerInv, All, ChildrenStayClosed
<1>17. ASSUME NEW s \in All, CloserEnds(s)
       PROVE  ChildrenStayClosed
  BY <1>17 DEF CloserEnds, CloserStep, clockVars, treeVars, queryVars,
    TypeOK, OwnerInv, All, ChildrenStayClosed
<1>18. CASE UNCHANGED vars
  BY <1>18 DEF vars, clockVars, treeVars, closeVars, queryVars, TypeOK,
    OwnerInv, All, ChildrenStayClosed
<1> QED
  BY <1>1, <1>2, <1>3, <1>4, <1>5, <1>6, <1>7, <1>8, <1>9, <1>10, <1>11,
    <1>12, <1>13, <1>14, <1>15, <1>16, <1>17, <1>18 DEF Next, Script,
    Queried, CloseHandler

(* so a reader of a closed child stays one. *)
LEMMA ClosedStays ==
  ASSUME TypeOK, OwnerInv, [Next]_vars, NEW r, ClosedChild(r)
  PROVE  ClosedChild(r)'
BY StaysClosed DEF ClosedChild, ChildrenStayClosed

(* A query keeps its handler, and its reader to itself until it is stored. *)
LEMMA QueryStep ==
  ASSUME TypeOK, OwnerInv, CloserInv, QueryInv, LiveInv, [Next]_vars
  PROVE  QueryInv'
<1>1. CASE Tick
  BY <1>1, ClosedStays DEF Tick, treeVars, closeVars, queryVars, TypeOK,
    OwnerInv, CloserInv, QueryInv, LiveInv, All
<1>2. ASSUME NEW r \in Requests, Open(r)
      PROVE  QueryInv'
  BY <1>2, ClosedStays DEF Open, clockVars, closeVars, queryVars, TypeOK,
    OwnerInv, CloserInv, QueryInv, LiveInv, All
<1>3. ASSUME NEW r \in Requests, Register(r)
      PROVE  QueryInv'
  BY <1>3, ClosedStays DEF Register, closeVars, queryVars, TypeOK, OwnerInv,
    CloserInv, QueryInv, LiveInv, All
<1>4. ASSUME NEW r \in Requests, End(r)
      PROVE  QueryInv'
  BY <1>4, ClosedStays DEF End, Close, Free, clockVars, queryVars, TypeOK,
    OwnerInv, CloserInv, QueryInv, LiveInv, All
<1>5. ASSUME NEW r \in Requests, NEW p \in All, NEW c \in Children,
             NewChild(r, p, c)
      PROVE  QueryInv'
  BY <1>5, ClosedStays DEF NewChild, Uses, InvokeDb, Db, Free, clockVars,
    closeVars, queryVars, TypeOK, OwnerInv, CloserInv, QueryInv, LiveInv,
    All
<1>6. ASSUME NEW r \in Requests, NEW c \in Children, EndChild(r, c)
      PROVE  QueryInv'
  BY <1>6, ClosedStays DEF EndChild, Close, Free, clockVars, queryVars,
    TypeOK, OwnerInv, CloserInv, QueryInv, LiveInv, All
<1>7. ASSUME NEW r \in Requests, NEW q \in Queries, CloseReader(r, q)
      PROVE  QueryInv'
  BY <1>7, ClosedStays DEF CloseReader, Free, clockVars, treeVars,
    closeVars, queryVars, TypeOK, OwnerInv, CloserInv, QueryInv, LiveInv,
    All
<1>8. ASSUME NEW r \in Requests, NEW s \in All, NEW q \in Queries, Capture(r, s, q)
      PROVE  QueryInv'
  <2>1. Db(s) = r /\ r \in Requests /\ state[r] = "open"
    BY <1>8, SessionsAssumption DEF Capture, Uses, Db, Free, OwnerInv, All
  <2>2. /\ query' = [query EXCEPT ![q] = "run"] /\ qhdl' = [qhdl EXCEPT ![q] = r]
        /\ qmap' = [qmap EXCEPT ![q] = r \in live']
        /\ query[q] = "ready"
        /\ UNCHANGED <<state, script, rdrs, found, late, rdr>>
    BY <1>8, <2>1 DEF Capture, Uses, closeVars
  <2>3. r \notin live' => ClosedChild(r)
    <3>1. SUFFICES ASSUME r \notin live' PROVE ClosedChild(r)
      OBVIOUS
    <3>2. CASE s = r
      BY <1>8, <2>1, <3>1, <3>2, SessionsAssumption DEF Capture, Uses, InvokeDb, LiveInv
    <3>3. CASE s # r
      <4>1. s \in Children /\ script[s] = r /\ state[s] = "open" /\ live' = live
        BY <1>8, <3>3, SessionsAssumption DEF Capture, Uses, InvokeDb
      <4>2. db[r] = r
        BY <2>1, <4>1 DEF OwnerInv
      <4> QED BY <2>1, <3>1, <4>1, <4>2, SessionsAssumption DEF LiveInv
    <3> QED BY <3>2, <3>3
  <2>4. r \notin live' => ClosedChild(r)'
    BY <2>3, ClosedStays
  <2>5. ASSUME NEW x \in Queries, x # q
        PROVE  query'[x] = query[x] /\ qhdl'[x] = qhdl[x] /\ qmap'[x] = qmap[x]
    BY <2>2, <2>5 DEF TypeOK
  <2>6. query'[q] = "run" /\ qhdl'[q] = r /\ qmap'[q] = (r \in live')
    BY <2>2 DEF TypeOK
  <2>7. ASSUME NEW x \in Queries, NEW h, query'[x] # "ready", ~qmap'[x], h = qhdl'[x]
        PROVE  ClosedChild(h)'
    <3>1. CASE x = q
      BY <2>4, <2>6, <2>7, <3>1
    <3>2. CASE x # q
      <4>1. ClosedChild(h)
        BY <2>5, <2>7, <3>2 DEF QueryInv
      <4> QED BY <4>1, ClosedStays
    <3> QED BY <3>1, <3>2
  <2>8. ASSUME NEW x \in Queries, query'[x] # "ready", ~qmap'[x]
        PROVE  ClosedChild(qhdl[x])'
    BY <2>7, <2>8 DEF ClosedChild
  <2>9. ASSUME NEW x \in Queries
        PROVE  /\ query'[x] # "ready" =>
                    qhdl'[x] \in Requests /\ state'[qhdl'[x]] \in {"open", "closed"}
               /\ query'[x] \in {"ready", "run"} => rdr'[x] = "none"
               /\ x \in late' => query'[x] = "done"
               /\ query'[x] # "done" => /\ \A h \in Requests : x \notin rdrs'[h]
                                        /\ \A k \in All : x \notin found'[k]
    <3>1. CASE x = q
      BY <2>1, <2>2, <2>6, <3>1 DEF QueryInv
    <3>2. CASE x # q
      BY <2>2, <2>5, <3>2 DEF QueryInv
    <3> QED BY <3>1, <3>2
  <2> QED BY <2>8, <2>9 DEF QueryInv
<1>9. ASSUME NEW q \in Queries, RunQuery(q)
      PROVE  QueryInv'
  BY <1>9, ClosedStays DEF RunQuery, clockVars, treeVars, closeVars, TypeOK,
    OwnerInv, CloserInv, QueryInv, LiveInv, All
<1>10. ASSUME NEW q \in Queries, Store(q)
       PROVE  QueryInv'
  BY <1>10, ClosedStays DEF Store, StoreReader, clockVars, treeVars,
    closeVars, TypeOK, OwnerInv, CloserInv, QueryInv, LiveInv, All
<1>11. ASSUME NEW s \in All, Delete(s)
       PROVE  QueryInv'
  BY <1>11, ClosedStays DEF Delete, closeVars, queryVars, TypeOK, OwnerInv,
    CloserInv, QueryInv, LiveInv, All
<1>12. ASSUME NEW s \in All, ReadMap(s)
       PROVE  QueryInv'
  BY <1>12, ClosedStays DEF ReadMap, CloserStep, clockVars, treeVars,
    queryVars, TypeOK, OwnerInv, CloserInv, QueryInv, LiveInv, All
<1>13. ASSUME NEW s \in All, Unset(s)
       PROVE  QueryInv'
  BY <1>13, ClosedStays DEF Unset, CloserStep, clockVars, treeVars,
    queryVars, TypeOK, OwnerInv, CloserInv, QueryInv, LiveInv, All
<1>14. ASSUME NEW s \in All, RangeMap(s)
       PROVE  QueryInv'
  BY <1>14, ClosedStays DEF RangeMap, CloserStep, clockVars, treeVars,
    queryVars, TypeOK, OwnerInv, CloserInv, QueryInv, LiveInv, All
<1>15. ASSUME NEW s \in All, ClearMap(s)
       PROVE  QueryInv'
  BY <1>15, ClosedStays DEF ClearMap, CloserStep, clockVars, treeVars,
    queryVars, TypeOK, OwnerInv, CloserInv, QueryInv, LiveInv, All
<1>16. ASSUME NEW s \in All, CloseNext(s)
       PROVE  QueryInv'
  BY <1>16, ClosedStays DEF CloseNext, CloserStep, clockVars, treeVars,
    queryVars, TypeOK, OwnerInv, CloserInv, QueryInv, LiveInv, All
<1>17. ASSUME NEW s \in All, CloserEnds(s)
       PROVE  QueryInv'
  BY <1>17, ClosedStays DEF CloserEnds, CloserStep, clockVars, treeVars,
    queryVars, TypeOK, OwnerInv, CloserInv, QueryInv, LiveInv, All
<1>18. CASE UNCHANGED vars
  BY <1>18, ClosedStays DEF vars, clockVars, treeVars, closeVars, queryVars,
    TypeOK, OwnerInv, CloserInv, QueryInv, LiveInv, All
<1> QED
  BY <1>1, <1>2, <1>3, <1>4, <1>5, <1>6, <1>7, <1>8, <1>9, <1>10, <1>11,
    <1>12, <1>13, <1>14, <1>15, <1>16, <1>17, <1>18 DEF Next, Script,
    Queried, CloseHandler

(* A running request whose handler is closed has had a child. *)
LEMMA LiveStep ==
  ASSUME TypeOK, OwnerInv, CloserInv, LiveInv, [Next]_vars
  PROVE  LiveInv'
<1>1. CASE Tick
  BY <1>1, ClosedStays DEF Tick, treeVars, closeVars, queryVars, TypeOK,
    OwnerInv, CloserInv, LiveInv, Owner, All
<1>2. ASSUME NEW r \in Requests, Open(r)
      PROVE  LiveInv'
  BY <1>2, ClosedStays DEF Open, clockVars, closeVars, queryVars, TypeOK,
    OwnerInv, CloserInv, LiveInv, Owner, All
<1>3. ASSUME NEW r \in Requests, Register(r)
      PROVE  LiveInv'
  BY <1>3, ClosedStays DEF Register, closeVars, queryVars, TypeOK, OwnerInv,
    CloserInv, LiveInv, Owner, All
<1>4. ASSUME NEW r \in Requests, End(r)
      PROVE  LiveInv'
  BY <1>4, ClosedStays DEF End, Close, Free, clockVars, queryVars, TypeOK,
    OwnerInv, CloserInv, LiveInv, Owner, All
<1>5. ASSUME NEW r \in Requests, NEW p \in All, NEW c \in Children,
             NewChild(r, p, c)
      PROVE  LiveInv'
  BY <1>5, MaxTickAssumption, SessionsAssumption, ClosedStays DEF NewChild, Uses,
    InvokeDb, Db, Free, clockVars, closeVars, queryVars, TypeOK, OwnerInv,
    CloserInv, LiveInv, Owner, All
<1>6. ASSUME NEW r \in Requests, NEW c \in Children, EndChild(r, c)
      PROVE  LiveInv'
  BY <1>6, ClosedStays DEF EndChild, Close, Free, clockVars, queryVars,
    TypeOK, OwnerInv, CloserInv, LiveInv, Owner, All
<1>7. ASSUME NEW r \in Requests, NEW q \in Queries, CloseReader(r, q)
      PROVE  LiveInv'
  BY <1>7, ClosedStays DEF CloseReader, Free, clockVars, treeVars,
    closeVars, queryVars, TypeOK, OwnerInv, CloserInv, LiveInv, Owner, All
<1>8. ASSUME NEW r \in Requests, NEW s \in All, NEW q \in Queries, Capture(r, s, q)
      PROVE  LiveInv'
  BY <1>8, ClosedStays DEF Capture, Uses, InvokeDb, Db, Free, clockVars,
    closeVars, TypeOK, OwnerInv, CloserInv, LiveInv, Owner, All
<1>9. ASSUME NEW q \in Queries, RunQuery(q)
      PROVE  LiveInv'
  BY <1>9, ClosedStays DEF RunQuery, clockVars, treeVars, closeVars, TypeOK,
    OwnerInv, CloserInv, LiveInv, Owner, All
<1>10. ASSUME NEW q \in Queries, Store(q)
       PROVE  LiveInv'
  BY <1>10, ClosedStays DEF Store, StoreReader, clockVars, treeVars,
    closeVars, TypeOK, OwnerInv, CloserInv, LiveInv, Owner, All
<1>11. ASSUME NEW s \in All, Delete(s)
       PROVE  LiveInv'
  BY <1>11, ClosedStays DEF Delete, closeVars, queryVars, TypeOK, OwnerInv,
    CloserInv, LiveInv, Owner, All
<1>12. ASSUME NEW s \in All, ReadMap(s)
       PROVE  LiveInv'
  BY <1>12, ClosedStays DEF ReadMap, CloserStep, clockVars, treeVars,
    queryVars, TypeOK, OwnerInv, CloserInv, LiveInv, Owner, All
<1>13. ASSUME NEW s \in All, Unset(s)
       PROVE  LiveInv'
  <2> SUFFICES ASSUME NEW r \in Requests, state'[r] = "open", db'[r] # Nil, r \notin live'
               PROVE  ClosedChild(r)'
    BY DEF LiveInv
  <2>1. /\ live' = live \ {chdl[s]} /\ state'[r] = state[r] /\ db'[r] = db[r]
        /\ closer[s] = "unset"
    BY <1>13 DEF Unset, CloserStep, treeVars
  <2>2. CASE r \notin live
    BY <2>1, <2>2, ClosedStays DEF LiveInv
  <2>3. CASE chdl[s] = r
    <3>1. state[s] = "closed" /\ r = Owner(s)
      BY <2>1, <2>3, SessionsAssumption DEF CloserInv, All
    <3>2. s \in Children /\ script[s] = r
      BY <2>1, <3>1 DEF Owner, All
    <3> QED BY <3>1, <3>2, ClosedStays DEF ClosedChild
  <2> QED BY <2>1, <2>2, <2>3
<1>14. ASSUME NEW s \in All, RangeMap(s)
       PROVE  LiveInv'
  BY <1>14, ClosedStays DEF RangeMap, CloserStep, clockVars, treeVars,
    queryVars, TypeOK, OwnerInv, CloserInv, LiveInv, Owner, All
<1>15. ASSUME NEW s \in All, ClearMap(s)
       PROVE  LiveInv'
  BY <1>15, ClosedStays DEF ClearMap, CloserStep, clockVars, treeVars,
    queryVars, TypeOK, OwnerInv, CloserInv, LiveInv, Owner, All
<1>16. ASSUME NEW s \in All, CloseNext(s)
       PROVE  LiveInv'
  BY <1>16, ClosedStays DEF CloseNext, CloserStep, clockVars, treeVars,
    queryVars, TypeOK, OwnerInv, CloserInv, LiveInv, Owner, All
<1>17. ASSUME NEW s \in All, CloserEnds(s)
       PROVE  LiveInv'
  BY <1>17, ClosedStays DEF CloserEnds, CloserStep, clockVars, treeVars,
    queryVars, TypeOK, OwnerInv, CloserInv, LiveInv, Owner, All
<1>18. CASE UNCHANGED vars
  BY <1>18, ClosedStays DEF vars, clockVars, treeVars, closeVars, queryVars,
    TypeOK, OwnerInv, CloserInv, LiveInv, Owner, All
<1> QED
  BY <1>1, <1>2, <1>3, <1>4, <1>5, <1>6, <1>7, <1>8, <1>9, <1>10, <1>11,
    <1>12, <1>13, <1>14, <1>15, <1>16, <1>17, <1>18 DEF Next, Script,
    Queried, CloseHandler

(* So has one with a reader that was stored too late. *)
LEMMA LateStep ==
  ASSUME TypeOK, OwnerInv, CloserInv, QueryInv, LateInv, [Next]_vars
  PROVE  LateInv'
<1>1. CASE Tick
  BY <1>1, ClosedStays DEF Tick, treeVars, closeVars, queryVars, TypeOK,
    OwnerInv, CloserInv, QueryInv, LateInv, Collected, Owner, All
<1>2. ASSUME NEW r \in Requests, Open(r)
      PROVE  LateInv'
  BY <1>2, ClosedStays DEF Open, clockVars, closeVars, queryVars, TypeOK,
    OwnerInv, CloserInv, QueryInv, LateInv, Collected, Owner, All
<1>3. ASSUME NEW r \in Requests, Register(r)
      PROVE  LateInv'
  BY <1>3, ClosedStays DEF Register, closeVars, queryVars, TypeOK, OwnerInv,
    CloserInv, QueryInv, LateInv, Collected, Owner, All
<1>4. ASSUME NEW r \in Requests, End(r)
      PROVE  LateInv'
  BY <1>4, ClosedStays DEF End, Close, Free, clockVars, queryVars, TypeOK,
    OwnerInv, CloserInv, QueryInv, LateInv, Collected, Owner, All
<1>5. ASSUME NEW r \in Requests, NEW p \in All, NEW c \in Children,
             NewChild(r, p, c)
      PROVE  LateInv'
  BY <1>5, ClosedStays DEF NewChild, Uses, InvokeDb, Db, Free, clockVars,
    closeVars, queryVars, TypeOK, OwnerInv, CloserInv, QueryInv, LateInv,
    Collected, Owner, All
<1>6. ASSUME NEW r \in Requests, NEW c \in Children, EndChild(r, c)
      PROVE  LateInv'
  BY <1>6, ClosedStays DEF EndChild, Close, Free, clockVars, queryVars,
    TypeOK, OwnerInv, CloserInv, QueryInv, LateInv, Collected, Owner, All
<1>7. ASSUME NEW r \in Requests, NEW q \in Queries, CloseReader(r, q)
      PROVE  LateInv'
  BY <1>7, ClosedStays DEF CloseReader, Free, clockVars, treeVars,
    closeVars, queryVars, TypeOK, OwnerInv, CloserInv, QueryInv, LateInv,
    Collected, Owner, All
<1>8. ASSUME NEW r \in Requests, NEW s \in All, NEW q \in Queries, Capture(r, s, q)
      PROVE  LateInv'
  BY <1>8, ClosedStays DEF Capture, Uses, InvokeDb, Db, Free, clockVars,
    closeVars, TypeOK, OwnerInv, CloserInv, QueryInv, LateInv, Collected,
    Owner, All
<1>9. ASSUME NEW q \in Queries, RunQuery(q)
      PROVE  LateInv'
  BY <1>9, ClosedStays DEF RunQuery, clockVars, treeVars, closeVars, TypeOK,
    OwnerInv, CloserInv, QueryInv, LateInv, Collected, Owner, All
<1>10. ASSUME NEW q \in Queries, Store(q)
       PROVE  LateInv'
  <2>1. /\ late' = (IF ~qmap[q] \/ Collected(qhdl[q]) THEN late \cup {q} ELSE late)
        /\ query[q] = "store"
        /\ UNCHANGED <<state, script, qhdl, chdl, cmap, closer>>
    BY <1>10 DEF Store, treeVars, closeVars
  <2>2. ASSUME NEW x \in late', NEW h, h = qhdl[x], state[h] = "open"
        PROVE  ClosedChild(h)
    <3>3. CASE x \in late
      BY <2>2, <3>3 DEF LateInv
    <3>4. CASE x = q /\ ~qmap[q]
      BY <2>1, <2>2, <3>4 DEF QueryInv
    <3>5. CASE x = q /\ Collected(qhdl[q])
      <4>1. PICK s \in All : chdl[s] = h /\ cmap[s]
        BY <2>2, <3>5 DEF Collected
      <4>2. h \in Requests
        BY <2>1, <2>2, <3>5 DEF QueryInv
      <4>3. state[s] = "closed" /\ h = Owner(s)
        BY <4>1, <4>2, SessionsAssumption DEF CloserInv
      <4>4. s \in Children /\ script[s] = h
        BY <2>2, <4>3 DEF Owner, All
      <4> QED BY <4>3, <4>4 DEF ClosedChild
    <3> QED BY <2>1, <2>2, <3>3, <3>4, <3>5
  <2>3. ASSUME NEW x \in late', NEW h, h = qhdl[x], state[h] = "open"
        PROVE  ClosedChild(h)'
    BY <2>2, <2>3, ClosedStays
  <2>4. ASSUME NEW x \in late', state'[qhdl'[x]] = "open"
        PROVE  ClosedChild(qhdl[x])'
    BY <2>1, <2>3, <2>4 DEF ClosedChild
  <2> QED BY <2>4 DEF LateInv
<1>11. ASSUME NEW s \in All, Delete(s)
       PROVE  LateInv'
  BY <1>11, ClosedStays DEF Delete, closeVars, queryVars, TypeOK, OwnerInv,
    CloserInv, QueryInv, LateInv, Collected, Owner, All
<1>12. ASSUME NEW s \in All, ReadMap(s)
       PROVE  LateInv'
  BY <1>12, ClosedStays DEF ReadMap, CloserStep, clockVars, treeVars,
    queryVars, TypeOK, OwnerInv, CloserInv, QueryInv, LateInv, Collected,
    Owner, All
<1>13. ASSUME NEW s \in All, Unset(s)
       PROVE  LateInv'
  BY <1>13, ClosedStays DEF Unset, CloserStep, clockVars, treeVars,
    queryVars, TypeOK, OwnerInv, CloserInv, QueryInv, LateInv, Collected,
    Owner, All
<1>14. ASSUME NEW s \in All, RangeMap(s)
       PROVE  LateInv'
  BY <1>14, ClosedStays DEF RangeMap, CloserStep, clockVars, treeVars,
    queryVars, TypeOK, OwnerInv, CloserInv, QueryInv, LateInv, Collected,
    Owner, All
<1>15. ASSUME NEW s \in All, ClearMap(s)
       PROVE  LateInv'
  BY <1>15, ClosedStays DEF ClearMap, CloserStep, clockVars, treeVars,
    queryVars, TypeOK, OwnerInv, CloserInv, QueryInv, LateInv, Collected,
    Owner, All
<1>16. ASSUME NEW s \in All, CloseNext(s)
       PROVE  LateInv'
  BY <1>16, ClosedStays DEF CloseNext, CloserStep, clockVars, treeVars,
    queryVars, TypeOK, OwnerInv, CloserInv, QueryInv, LateInv, Collected,
    Owner, All
<1>17. ASSUME NEW s \in All, CloserEnds(s)
       PROVE  LateInv'
  BY <1>17, ClosedStays DEF CloserEnds, CloserStep, clockVars, treeVars,
    queryVars, TypeOK, OwnerInv, CloserInv, QueryInv, LateInv, Collected,
    Owner, All
<1>18. CASE UNCHANGED vars
  BY <1>18, ClosedStays DEF vars, clockVars, treeVars, closeVars, queryVars,
    TypeOK, OwnerInv, CloserInv, QueryInv, LateInv, Collected, Owner, All
<1> QED
  BY <1>1, <1>2, <1>3, <1>4, <1>5, <1>6, <1>7, <1>8, <1>9, <1>10, <1>11,
    <1>12, <1>13, <1>14, <1>15, <1>16, <1>17, <1>18 DEF Next, Script,
    Queried, CloseHandler

(* What is in the map once it was collected came late. *)
LEMMA SweptStep ==
  ASSUME TypeOK, OwnerInv, CloserInv, QueryInv, SweptInv, [Next]_vars
  PROVE  SweptInv'
<1>1. CASE Tick
  BY <1>1 DEF Tick, treeVars, closeVars, queryVars, TypeOK, OwnerInv,
    CloserInv, QueryInv, SweptInv, Collected, All
<1>2. ASSUME NEW r \in Requests, Open(r)
      PROVE  SweptInv'
  BY <1>2 DEF Open, clockVars, closeVars, queryVars, TypeOK, OwnerInv,
    CloserInv, QueryInv, SweptInv, Collected, All
<1>3. ASSUME NEW r \in Requests, Register(r)
      PROVE  SweptInv'
  BY <1>3 DEF Register, closeVars, queryVars, TypeOK, OwnerInv, CloserInv,
    QueryInv, SweptInv, Collected, All
<1>4. ASSUME NEW r \in Requests, End(r)
      PROVE  SweptInv'
  BY <1>4 DEF End, Close, Free, clockVars, queryVars, TypeOK, OwnerInv,
    CloserInv, QueryInv, SweptInv, Collected, All
<1>5. ASSUME NEW r \in Requests, NEW p \in All, NEW c \in Children,
             NewChild(r, p, c)
      PROVE  SweptInv'
  BY <1>5 DEF NewChild, Uses, InvokeDb, Db, Free, clockVars, closeVars, queryVars,
    TypeOK, OwnerInv, CloserInv, QueryInv, SweptInv, Collected, All
<1>6. ASSUME NEW r \in Requests, NEW c \in Children, EndChild(r, c)
      PROVE  SweptInv'
  BY <1>6 DEF EndChild, Close, Free, clockVars, queryVars, TypeOK, OwnerInv,
    CloserInv, QueryInv, SweptInv, Collected, All
<1>7. ASSUME NEW r \in Requests, NEW q \in Queries, CloseReader(r, q)
      PROVE  SweptInv'
  BY <1>7 DEF CloseReader, Free, clockVars, treeVars, closeVars, queryVars,
    TypeOK, OwnerInv, CloserInv, QueryInv, SweptInv, Collected, All
<1>8. ASSUME NEW r \in Requests, NEW s \in All, NEW q \in Queries, Capture(r, s, q)
      PROVE  SweptInv'
  BY <1>8 DEF Capture, Uses, InvokeDb, Db, Free, clockVars, closeVars, TypeOK,
    OwnerInv, CloserInv, QueryInv, SweptInv, Collected, All
<1>9. ASSUME NEW q \in Queries, RunQuery(q)
      PROVE  SweptInv'
  BY <1>9 DEF RunQuery, clockVars, treeVars, closeVars, TypeOK, OwnerInv,
    CloserInv, QueryInv, SweptInv, Collected, All
<1>10. ASSUME NEW q \in Queries, Store(q)
       PROVE  SweptInv'
  BY <1>10 DEF Store, StoreReader, clockVars, treeVars, closeVars, TypeOK,
    OwnerInv, CloserInv, QueryInv, SweptInv, Collected, All
<1>11. ASSUME NEW s \in All, Delete(s)
       PROVE  SweptInv'
  BY <1>11 DEF Delete, closeVars, queryVars, TypeOK, OwnerInv, CloserInv,
    QueryInv, SweptInv, Collected, All
<1>12. ASSUME NEW s \in All, ReadMap(s)
       PROVE  SweptInv'
  BY <1>12 DEF ReadMap, CloserStep, clockVars, treeVars, queryVars, TypeOK,
    OwnerInv, CloserInv, QueryInv, SweptInv, Collected, All
<1>13. ASSUME NEW s \in All, Unset(s)
       PROVE  SweptInv'
  BY <1>13 DEF Unset, CloserStep, clockVars, treeVars, queryVars, TypeOK,
    OwnerInv, CloserInv, QueryInv, SweptInv, Collected, All
<1>14. ASSUME NEW s \in All, RangeMap(s)
       PROVE  SweptInv'
  BY <1>14 DEF RangeMap, CloserStep, clockVars, treeVars, queryVars, TypeOK,
    OwnerInv, CloserInv, QueryInv, SweptInv, Collected, All
<1>15. ASSUME NEW s \in All, ClearMap(s)
       PROVE  SweptInv'
  BY <1>15 DEF ClearMap, CloserStep, clockVars, treeVars, queryVars, TypeOK,
    OwnerInv, CloserInv, QueryInv, SweptInv, Collected, All
<1>16. ASSUME NEW s \in All, CloseNext(s)
       PROVE  SweptInv'
  BY <1>16 DEF CloseNext, CloserStep, clockVars, treeVars, queryVars,
    TypeOK, OwnerInv, CloserInv, QueryInv, SweptInv, Collected, All
<1>17. ASSUME NEW s \in All, CloserEnds(s)
       PROVE  SweptInv'
  BY <1>17 DEF CloserEnds, CloserStep, clockVars, treeVars, queryVars,
    TypeOK, OwnerInv, CloserInv, QueryInv, SweptInv, Collected, All
<1>18. CASE UNCHANGED vars
  BY <1>18 DEF vars, clockVars, treeVars, closeVars, queryVars, TypeOK,
    OwnerInv, CloserInv, QueryInv, SweptInv, Collected, All
<1> QED
  BY <1>1, <1>2, <1>3, <1>4, <1>5, <1>6, <1>7, <1>8, <1>9, <1>10, <1>11,
    <1>12, <1>13, <1>14, <1>15, <1>16, <1>17, <1>18 DEF Next, Script,
    Queried, CloseHandler

(* An open reader is in the map or in the hands of a goroutine, or was late. *)
LEMMA HeldStep ==
  ASSUME TypeOK, OwnerInv, CloserInv, QueryInv, SweptInv, HeldInv, [Next]_vars
  PROVE  HeldInv'
<1>1. CASE Tick
  BY <1>1 DEF Tick, treeVars, closeVars, queryVars, TypeOK, OwnerInv,
    CloserInv, QueryInv, SweptInv, HeldInv, Collected, All
<1>2. ASSUME NEW r \in Requests, Open(r)
      PROVE  HeldInv'
  BY <1>2 DEF Open, clockVars, closeVars, queryVars, TypeOK, OwnerInv,
    CloserInv, QueryInv, SweptInv, HeldInv, Collected, All
<1>3. ASSUME NEW r \in Requests, Register(r)
      PROVE  HeldInv'
  BY <1>3 DEF Register, closeVars, queryVars, TypeOK, OwnerInv, CloserInv,
    QueryInv, SweptInv, HeldInv, Collected, All
<1>4. ASSUME NEW r \in Requests, End(r)
      PROVE  HeldInv'
  BY <1>4 DEF End, Close, Free, clockVars, queryVars, TypeOK, OwnerInv,
    CloserInv, QueryInv, SweptInv, HeldInv, Collected, All
<1>5. ASSUME NEW r \in Requests, NEW p \in All, NEW c \in Children,
             NewChild(r, p, c)
      PROVE  HeldInv'
  BY <1>5, ZenonT(40) DEF NewChild, Uses, InvokeDb, Db, Free, clockVars, closeVars, queryVars,
    TypeOK, OwnerInv, CloserInv, QueryInv, SweptInv, HeldInv, Collected, All
<1>6. ASSUME NEW r \in Requests, NEW c \in Children, EndChild(r, c)
      PROVE  HeldInv'
  BY <1>6 DEF EndChild, Close, Free, clockVars, queryVars, TypeOK, OwnerInv,
    CloserInv, QueryInv, SweptInv, HeldInv, Collected, All
<1>7. ASSUME NEW r \in Requests, NEW q \in Queries, CloseReader(r, q)
      PROVE  HeldInv'
  BY <1>7 DEF CloseReader, Free, clockVars, treeVars, closeVars, queryVars,
    TypeOK, OwnerInv, CloserInv, QueryInv, SweptInv, HeldInv, Collected, All
<1>8. ASSUME NEW r \in Requests, NEW s \in All, NEW q \in Queries, Capture(r, s, q)
      PROVE  HeldInv'
  BY <1>8 DEF Capture, Uses, InvokeDb, Db, Free, clockVars, closeVars, TypeOK,
    OwnerInv, CloserInv, QueryInv, SweptInv, HeldInv, Collected, All
<1>9. ASSUME NEW q \in Queries, RunQuery(q)
      PROVE  HeldInv'
  <2>1. /\ query[q] = "run" /\ rdr[q] = "none"
        /\ UNCHANGED <<rdrs, qhdl, late, found>>
    BY <1>9 DEF RunQuery, closeVars, QueryInv
  <2>2. ~(query'[q] = "done" /\ rdr'[q] = "open")
    BY <1>9, <2>1 DEF RunQuery, TypeOK
  <2>3. ASSUME NEW x \in Queries, x # q
        PROVE  query'[x] = query[x] /\ rdr'[x] = rdr[x]
    BY <1>9, <2>3 DEF RunQuery, TypeOK
  <2> QED BY <2>1, <2>2, <2>3 DEF HeldInv
<1>10. ASSUME NEW q \in Queries, Store(q)
       PROVE  HeldInv'
  BY <1>10 DEF Store, StoreReader, clockVars, treeVars, closeVars, TypeOK,
    OwnerInv, CloserInv, QueryInv, SweptInv, HeldInv, Collected, All
<1>11. ASSUME NEW s \in All, Delete(s)
       PROVE  HeldInv'
  BY <1>11 DEF Delete, closeVars, queryVars, TypeOK, OwnerInv, CloserInv,
    QueryInv, SweptInv, HeldInv, Collected, All
<1>12. ASSUME NEW s \in All, ReadMap(s)
       PROVE  HeldInv'
  BY <1>12 DEF ReadMap, CloserStep, clockVars, treeVars, queryVars, TypeOK,
    OwnerInv, CloserInv, QueryInv, SweptInv, HeldInv, Collected, All
<1>13. ASSUME NEW s \in All, Unset(s)
       PROVE  HeldInv'
  BY <1>13 DEF Unset, CloserStep, clockVars, treeVars, queryVars, TypeOK,
    OwnerInv, CloserInv, QueryInv, SweptInv, HeldInv, Collected, All
<1>14. ASSUME NEW s \in All, RangeMap(s)
       PROVE  HeldInv'
  BY <1>14 DEF RangeMap, CloserStep, clockVars, treeVars, queryVars, TypeOK,
    OwnerInv, CloserInv, QueryInv, SweptInv, HeldInv, Collected, All
<1>15. ASSUME NEW s \in All, ClearMap(s)
       PROVE  HeldInv'
  BY <1>15, MaxTickAssumption, SessionsAssumption, ZenonT(40) DEF ClearMap, CloserStep,
    clockVars, treeVars, queryVars, TypeOK, OwnerInv, CloserInv, QueryInv,
    SweptInv, HeldInv, Collected, All
<1>16. ASSUME NEW s \in All, CloseNext(s)
       PROVE  HeldInv'
  BY <1>16 DEF CloseNext, CloserStep, clockVars, treeVars, queryVars,
    TypeOK, OwnerInv, CloserInv, QueryInv, SweptInv, HeldInv, Collected, All
<1>17. ASSUME NEW s \in All, CloserEnds(s)
       PROVE  HeldInv'
  BY <1>17 DEF CloserEnds, CloserStep, clockVars, treeVars, queryVars,
    TypeOK, OwnerInv, CloserInv, QueryInv, SweptInv, HeldInv, Collected, All
<1>18. CASE UNCHANGED vars
  BY <1>18 DEF vars, clockVars, treeVars, closeVars, queryVars, TypeOK,
    OwnerInv, CloserInv, QueryInv, SweptInv, HeldInv, Collected, All
<1> QED
  BY <1>1, <1>2, <1>3, <1>4, <1>5, <1>6, <1>7, <1>8, <1>9, <1>10, <1>11,
    <1>12, <1>13, <1>14, <1>15, <1>16, <1>17, <1>18 DEF Next, Script,
    Queried, CloseHandler

----------------------------------------------------------------------------
EntriesInv == EntryInv /\ ClosedIsBeingDeleted /\ RunningIsRegistered
HandlersInv == QueryInv /\ LiveInv /\ LateInv /\ SweptInv /\ HeldInv
Inv == TypeOK /\ OwnerInv /\ CloserInv /\ EntriesInv /\ HandlersInv

(* All of them together. *)
LEMMA InvTheorem == Spec => []Inv
<1>1. Init => ClosedIsBeingDeleted /\ RunningIsRegistered
  BY DEF Init, ClosedIsBeingDeleted, RunningIsRegistered, All
<1>2. Init => Inv
  BY <1>1, InitType, InitOwner, InitReaders DEF Inv, EntriesInv, HandlersInv
<1>3. ASSUME Inv, [Next]_vars
      PROVE  Inv'
  <2> USE <1>3 DEF Inv, EntriesInv, HandlersInv
  <2>1. TypeOK' /\ OwnerInv' /\ CloserInv'
    BY TypeStep, OwnerStep, CloserStepInv
  <2>2. EntriesInv'
    BY EntryStep, DeletedStep, RegisteredStep
  <2>3. HandlersInv'
    BY QueryStep, LiveStep, LateStep, SweptStep, HeldStep
  <2> QED BY <2>1, <2>2, <2>3
<1> QED BY <1>2, <1>3, PTL DEF Spec

(* Type correctness; and the goroutine of dbmshandler.Close has a handler  *)
(* for as long as it works.                                                *)
THEOREM TypeTheorem == Spec => []TypeOK
<1>1. Inv => TypeOK
  BY DEF Inv
<1> QED BY <1>1, InvTheorem, PTL

(* Whatever scripts and goroutines overlap, a session that is closed is    *)
(* found under its name or key only until the goroutine that session.Close *)
(* started (session.go) has deleted it: a session is entered under its own *)
(* key only (EntryInv), so that the deletion takes the right entry.        *)
THEOREM DeletedTheorem == Spec => []ClosedIsBeingDeleted
<1>1. Inv => ClosedIsBeingDeleted
  BY DEF Inv, EntriesInv
<1> QED BY <1>1, InvTheorem, PTL

(* A request that runs is found in SESSIONS, unless nextserial             *)
(* (session.go 329) gave its key to another request too.                   *)
THEOREM RegisteredTheorem == Spec => []RunningIsRegistered
<1>1. Inv => RunningIsRegistered
  BY DEF Inv, EntriesInv
<1> QED BY <1>1, InvTheorem, PTL

(* The handler of a request that runs is closed, or has a reader stored    *)
(* too late to be closed, only after its own script closed a session that  *)
(* it had made, a child or a child of one at any depth (session.go 129 and *)
(* 247): no other request, and no goroutine of one, can do it. A handler   *)
(* is held by its request and the sessions its script made (OwnerInv), and *)
(* closed by the goroutines of closed sessions only (CloserInv).           *)
THEOREM ChildTheorem == Spec => []LostOnlyByChild
<1>1. Inv => LostOnlyByChild
  <2> SUFFICES ASSUME Inv, NEW r \in Requests, state[r] = "open", db[r] # Nil,
                      db[r] \notin live \/ \E q \in late : qhdl[q] = r
               PROVE  ClosedChild(r)
    BY DEF LostOnlyByChild, ClosedChild
  <2>1. db[r] = r
    BY DEF Inv, OwnerInv
  <2>2. CASE r \notin live
    BY <2>2 DEF Inv, HandlersInv, LiveInv
  <2>3. CASE \E q \in late : qhdl[q] = r
    BY <2>3 DEF Inv, HandlersInv, LateInv
  <2> QED BY <2>1, <2>2, <2>3
<1> QED BY <1>1, InvTheorem, PTL

(* The Close of a handler (dbmshandler.go) misses no reader that was       *)
(* stored in its map before it collected them: an open reader is in the    *)
(* map or with a goroutine that will close it (HeldInv), and what a map    *)
(* holds after it was collected came late (SweptInv).                      *)
THEOREM ReadersTheorem == Spec => []ReadersClosed
<1>1. Inv => ReadersClosed
  BY DEF Inv, HandlersInv, HeldInv, SweptInv, ReadersClosed
<1> QED BY <1>1, InvTheorem, PTL
=============================================================================
