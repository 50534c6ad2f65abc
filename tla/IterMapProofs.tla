--------------------------- MODULE IterMapProofs ---------------------------
(***************************************************************************)
(* Proofs about IterMap for any number of calls and keys: the promise to   *)
(* the users of the map (a value that leaves is handed to an event, once)  *)
(* holds on every key on which no two calls overlapped, and a closed map   *)
(* is empty unless a Set straddled the Close.                              *)
(***************************************************************************)
EXTENDS IterMap, TLAPS

(* Values are stored once, under their own key, and only stored values are *)
(* read, removed or reported.                                              *)
KeyInv ==
  /\ \A k \in Keys : store[k] # Nil =>
       store[k] \in stored /\ name[store[k]] = k
  /\ \A o \in Ops : pc[o] \in {"ready", "load", "store"} => o \notin stored
  /\ \A o \in Ops : tmp[o] \subseteq stored
  /\ reported \subseteq stored /\ untold \subseteq stored
  /\ again \subseteq reported
  /\ \A o \in Ops : pc[o] = "store" /\ prv[o] # Nil =>
       prv[o] \in stored /\ name[prv[o]] = name[o]
  /\ \A o \in Ops : pc[o] = "delete" =>
       prv[o] \in stored /\ name[prv[o]] = at[o]

(* The value an operation has read is still there when it acts on the key, *)
(* unless another operation was in its window on that key.                 *)
WindowInv ==
  /\ Overlap \subseteq raced
  /\ \A o \in Ops : pc[o] = "store" /\ name[o] \notin raced =>
       prv[o] = store[name[o]]
  /\ \A o \in Ops : pc[o] = "delete" /\ at[o] \notin raced =>
       prv[o] = store[at[o]]

(* A value is in one place only. *)
OnceInv ==
  \A v \in stored :
    name[v] \notin raced =>
      /\ v \notin again
      /\ store[name[v]] = v =>
           v \notin reported /\ \A o \in Ops : v \notin tmp[o]
      /\ \A o \in Ops : v \in tmp[o] =>
           v \notin reported /\ \A p \in Ops : p # o => v \notin tmp[p]

(* Operation o will still come by key k. *)
Covers(o, k) ==
  \/ pc[o] \in {"range", "delete"} /\ k \in todo[o]
  \/ pc[o] = "delete" /\ at[o] = k

(* The map that was taken away is being emptied, and no Set adds to it. *)
ClosedInv ==
  /\ \A o \in Ops : imp.orgsncmp /\ pc[o] \in {"dropevents", "dropmap"} =>
       todo[o] = Keys
  /\ ~imp.orgsncmp /\ ~straddled =>
       /\ \A o \in Ops : pc[o] \notin {"load", "store"}
       /\ \A k \in Keys : store[k] # Nil => \E o \in Ops : Covers(o, k)

IInv ==
  /\ TypeOK
  /\ KeyInv
  /\ WindowInv
  /\ OnceInv
  /\ EveryValueAccountedFor
  /\ ClosedInv
---------------------------------------------------------------------------

(* Every step of every call keeps the types. *)
LEMMA StepType ==
  ASSUME TypeOK, KeyInv,
         NEW o \in Ops, Step(o), raced' = raced \cup Overlap'
  PROVE  TypeOK'
<1>0. raced' \subseteq Keys
  BY DEF TypeOK, Overlap
<1>1. CASE \E k \in Keys : Set(o, k)
  BY <1>1, <1>0 DEF Set, Go, history, TypeOK
<1>2. CASE Load(o)
  BY <1>2, <1>0 DEF Load, Go, history, TypeOK
<1>3. CASE Store(o)
  BY <1>3, <1>0 DEF Store, Go, locals, TypeOK
<1>4. CASE \E ks \in SUBSET Keys : Remove(o, ks)
  BY <1>4, <1>0 DEF Remove, Go, history, TypeOK
<1>5. CASE Close(o)
  BY <1>5, <1>0 DEF Close, Go, history, TypeOK
<1>6. CASE DropEvents(o)
  BY <1>6, <1>0 DEF DropEvents, Go, locals, history, TypeOK
<1>7. CASE DropMap(o)
  BY <1>7, <1>0 DEF DropMap, Go, locals, TypeOK
<1>8. CASE \E k \in Keys : Visit(o, k)
  BY <1>8, <1>0 DEF Visit, Go, history, TypeOK
<1>9. CASE DeleteKey(o)
  <2>1. prv[o] \in Ops
    BY <1>9 DEF DeleteKey, TypeOK, KeyInv
  <2>2. tmp' \in [Ops -> SUBSET Ops] /\ untold' \subseteq Ops
    BY <1>9, <2>1 DEF DeleteKey, TypeOK
  <2>3. QED
    BY <1>0, <1>9, <2>2 DEF DeleteKey, Go, TypeOK
<1>10. CASE Report(o)
  BY <1>10, <1>0 DEF Report, Go, TypeOK
<1>11. QED
  BY <1>1, <1>2, <1>3, <1>4, <1>5, <1>6, <1>7, <1>8, <1>9, <1>10
    DEF Step, Delete, Clear

(* Every step keeps values under their own keys. *)
LEMMA StepKey ==
  ASSUME TypeOK, TypeOK', KeyInv,
         NEW o \in Ops, Step(o)
  PROVE  KeyInv'
<1>1. CASE \E k \in Keys : Set(o, k)
  BY <1>1 DEF Set, Go, history, TypeOK, KeyInv
<1>2. CASE Load(o)
  BY <1>2 DEF Load, Go, history, TypeOK, KeyInv
<1>3. CASE Store(o)
  BY <1>3 DEF Store, Go, locals, TypeOK, KeyInv
<1>4. CASE \E ks \in SUBSET Keys : Remove(o, ks)
  BY <1>4 DEF Remove, Go, history, TypeOK, KeyInv
<1>5. CASE Close(o)
  BY <1>5 DEF Close, Go, history, TypeOK, KeyInv
<1>6. CASE DropEvents(o)
  BY <1>6 DEF DropEvents, Go, locals, history, TypeOK, KeyInv
<1>7. CASE DropMap(o)
  BY <1>7 DEF DropMap, Go, locals, TypeOK, KeyInv
<1>8. CASE \E k \in Keys : Visit(o, k)
  BY <1>8 DEF Visit, Go, history, TypeOK, KeyInv
<1>9. CASE DeleteKey(o)
  BY <1>9 DEF DeleteKey, Go, TypeOK, KeyInv
<1>10. CASE Report(o)
  BY <1>10 DEF Report, Go, TypeOK, KeyInv
<1>11. QED
  BY <1>1, <1>2, <1>3, <1>4, <1>5, <1>6, <1>7, <1>8, <1>9, <1>10
    DEF Step, Delete, Clear

(* A step on a key where another call is in its window makes it raced. *)
LEMMA StepWindow ==
  ASSUME TypeOK, TypeOK', WindowInv,
         NEW o \in Ops, Step(o), raced' = raced \cup Overlap'
  PROVE  WindowInv'
<1>1. CASE \E k \in Keys : Set(o, k)
  BY <1>1 DEF Set, Go, TypeOK, WindowInv, Overlap, InWindow
<1>2. CASE Load(o)
  BY <1>2, SMTT(40) DEF Load, Go, TypeOK, WindowInv, Overlap, InWindow
<1>3. CASE Store(o)
  BY <1>3 DEF Store, Go, locals, TypeOK, WindowInv, Overlap, InWindow
<1>4. CASE \E ks \in SUBSET Keys : Remove(o, ks)
  BY <1>4 DEF Remove, Go, TypeOK, WindowInv, Overlap, InWindow
<1>5. CASE Close(o)
  BY <1>5 DEF Close, Go, TypeOK, WindowInv, Overlap, InWindow
<1>6. CASE DropEvents(o)
  BY <1>6 DEF DropEvents, Go, locals, TypeOK, WindowInv, Overlap, InWindow
<1>7. CASE DropMap(o)
  BY <1>7 DEF DropMap, Go, locals, TypeOK, WindowInv, Overlap, InWindow
<1>8. CASE \E k \in Keys : Visit(o, k)
  BY <1>8, SMTT(40) DEF Visit, Go, history, TypeOK, WindowInv, Overlap, InWindow
<1>9. CASE DeleteKey(o)
  BY <1>9 DEF DeleteKey, Go, TypeOK, WindowInv, Overlap, InWindow
<1>10. CASE Report(o)
  BY <1>10 DEF Report, Go, TypeOK, WindowInv, Overlap, InWindow
<1>11. QED
  BY <1>1, <1>2, <1>3, <1>4, <1>5, <1>6, <1>7, <1>8, <1>9, <1>10
    DEF Step, Delete, Clear

(* Every step leaves a value in one place. *)
LEMMA StepOnce ==
  ASSUME TypeOK, TypeOK', KeyInv, WindowInv, OnceInv,
         NEW o \in Ops, Step(o), raced' = raced \cup Overlap'
  PROVE  OnceInv'
<1>1. CASE \E k \in Keys : Set(o, k)
  BY <1>1 DEF Set, history, TypeOK, KeyInv, OnceInv
<1>2. CASE Load(o)
  BY <1>2 DEF Load, history, TypeOK, OnceInv
<1>3. CASE Store(o)
  <2> DEFINE k == name[o]
  <2>1. /\ store' = [store EXCEPT ![k] = o] /\ stored' = stored \cup {o}
        /\ UNCHANGED <<name, tmp>>
    BY <1>3 DEF Store, locals
  <2>2. \A v \in Ops : v \in reported' => v \in reported \/ v = prv[o]
    BY <1>3 DEF Store
  <2>3. \A v \in Ops :
          v \in again' => v \in again \/ (v = prv[o] /\ v \in reported)
    BY <1>3 DEF Store
  <2>4. o \notin stored /\ o \notin reported /\ \A p \in Ops : o \notin tmp[p]
    BY <1>3 DEF Store, KeyInv
  <2>5. prv[o] # Nil => prv[o] \in stored /\ name[prv[o]] = k
    BY <1>3 DEF Store, KeyInv
  <2>6. k \notin raced => prv[o] = store[k]
    BY <1>3 DEF Store, WindowInv
  <2>7. again \subseteq reported
    BY DEF KeyInv
  <2>8. SUFFICES ASSUME NEW v \in stored', name'[v] \notin raced'
                 PROVE  /\ v \notin again'
                        /\ store'[name[v]] = v =>
                             v \notin reported' /\ \A p \in Ops : v \notin tmp[p]
                        /\ \A p \in Ops : v \in tmp[p] =>
                             /\ v \notin reported'
                             /\ \A u \in Ops : u # p => v \notin tmp[u]
    BY <2>1 DEF OnceInv
  <2>9. name[v] \notin raced /\ v \in Ops
    BY <2>1, <2>8 DEF TypeOK
  <2>10. CASE v = o
    BY <2>2, <2>3, <2>4, <2>5, <2>7, <2>10, NilAssumption
  <2>11. CASE v # o
    <3>1. v \in stored /\ (store'[name[v]] = v => store[name[v]] = v /\ name[v] # k)
      BY <2>1, <2>8, <2>11 DEF TypeOK
    <3>2. v = prv[o] => store[name[v]] = v /\ name[v] = k
      BY <2>5, <2>6, <2>9, NilAssumption
    <3>3. QED
      BY <2>2, <2>3, <2>9, <3>1, <3>2 DEF OnceInv
  <2>12. QED
    BY <2>10, <2>11
<1>4. CASE \E ks \in SUBSET Keys : Remove(o, ks)
  BY <1>4 DEF Remove, history, TypeOK, OnceInv
<1>5. CASE Close(o)
  BY <1>5 DEF Close, history, TypeOK, OnceInv
<1>6. CASE DropEvents(o)
  BY <1>6 DEF DropEvents, locals, history, TypeOK, OnceInv
<1>7. CASE DropMap(o)
  BY <1>7 DEF DropMap, locals, TypeOK, OnceInv
<1>8. CASE \E k \in Keys : Visit(o, k)
  BY <1>8 DEF Visit, history, TypeOK, OnceInv
<1>9. CASE DeleteKey(o)
  BY <1>9, NilAssumption, SMTT(40) DEF DeleteKey, TypeOK, KeyInv, WindowInv, OnceInv
<1>10. CASE Report(o)
  BY <1>10 DEF Report, TypeOK, OnceInv
<1>11. QED
  BY <1>1, <1>2, <1>3, <1>4, <1>5, <1>6, <1>7, <1>8, <1>9, <1>10
    DEF Step, Delete, Clear

(* Every step leaves a value somewhere. *)
LEMMA StepAccount ==
  ASSUME TypeOK, TypeOK', KeyInv, WindowInv, EveryValueAccountedFor,
         NEW o \in Ops, Step(o), raced' = raced \cup Overlap'
  PROVE  EveryValueAccountedFor'
<1>1. CASE \E k \in Keys : Set(o, k)
  BY <1>1 DEF Set, history, TypeOK, KeyInv, EveryValueAccountedFor
<1>2. CASE Load(o)
  BY <1>2 DEF Load, history, TypeOK, EveryValueAccountedFor
<1>3. CASE Store(o)
  BY <1>3, NilAssumption
    DEF Store, locals, TypeOK, WindowInv, EveryValueAccountedFor
<1>4. CASE \E ks \in SUBSET Keys : Remove(o, ks)
  BY <1>4 DEF Remove, history, TypeOK, EveryValueAccountedFor
<1>5. CASE Close(o)
  BY <1>5 DEF Close, history, TypeOK, EveryValueAccountedFor
<1>6. CASE DropEvents(o)
  BY <1>6 DEF DropEvents, locals, history, TypeOK, EveryValueAccountedFor
<1>7. CASE DropMap(o)
  BY <1>7 DEF DropMap, locals, TypeOK, EveryValueAccountedFor
<1>8. CASE \E k \in Keys : Visit(o, k)
  BY <1>8 DEF Visit, history, TypeOK, EveryValueAccountedFor
<1>9. CASE DeleteKey(o)
  <2>1. UNCHANGED <<name, stored, reported>>
    BY <1>9 DEF DeleteKey
  <2>2. prv[o] \in untold' \/ prv[o] \in tmp'[o]
    BY <1>9 DEF DeleteKey, TypeOK
  <2>3. untold \subseteq untold' /\ \A p \in Ops : tmp[p] \subseteq tmp'[p]
    BY <1>9 DEF DeleteKey, TypeOK
  <2>4. \A k \in Keys : k # at[o] => store'[k] = store[k]
    BY <1>9 DEF DeleteKey, TypeOK
  <2>5. at[o] \notin raced => prv[o] = store[at[o]]
    BY <1>9 DEF DeleteKey, WindowInv
  <2>6. QED
    BY <2>1, <2>2, <2>3, <2>4, <2>5 DEF TypeOK, EveryValueAccountedFor
<1>10. CASE Report(o)
  BY <1>10 DEF Report, TypeOK, EveryValueAccountedFor
<1>11. QED
  BY <1>1, <1>2, <1>3, <1>4, <1>5, <1>6, <1>7, <1>8, <1>9, <1>10
    DEF Step, Delete, Clear

(* Every step leaves a map that was taken away with somebody to empty it. *)
LEMMA StepClosed ==
  ASSUME TypeOK, TypeOK', ClosedInv,
         NEW o \in Ops, Step(o)
  PROVE  ClosedInv'
<1>1. CASE \E k \in Keys : Set(o, k)
  BY <1>1 DEF Set, Go, history, TypeOK, ClosedInv, Covers
<1>2. CASE Load(o)
  BY <1>2 DEF Load, Go, history, TypeOK, ClosedInv, Covers
<1>3. CASE Store(o)
  BY <1>3 DEF Store, Go, locals, TypeOK, ClosedInv, Covers
<1>4. CASE \E ks \in SUBSET Keys : Remove(o, ks)
  BY <1>4 DEF Remove, Go, history, TypeOK, ClosedInv, Covers
<1>5. CASE Close(o)
  <2>1. /\ UNCHANGED <<imp, store, at, straddled>>
        /\ pc[o] = "ready" /\ pc'[o] = "dropevents"
        /\ imp.orgsncmp => todo'[o] = Keys
    BY <1>5 DEF Close, Go, history, TypeOK
  <2>2. \A p \in Ops : p # o => pc'[p] = pc[p] /\ todo'[p] = todo[p]
    BY <1>5 DEF Close, Go, TypeOK
  <2>3. \A p \in Ops, k \in Keys : Covers(p, k) => Covers(p, k)'
    BY <2>1, <2>2 DEF Covers
  <2>4. QED
    BY <2>1, <2>2, <2>3 DEF ClosedInv
<1>6. CASE DropEvents(o)
  BY <1>6, NilAssumption
    DEF DropEvents, Go, locals, history, TypeOK, ClosedInv, Covers
<1>7. CASE DropMap(o)
  BY <1>7 DEF DropMap, Go, locals, TypeOK, ClosedInv, Covers
<1>8. CASE \E k \in Keys : Visit(o, k)
  BY <1>8 DEF Visit, Go, history, TypeOK, ClosedInv, Covers
<1>9. CASE DeleteKey(o)
  BY <1>9 DEF DeleteKey, Go, TypeOK, ClosedInv, Covers
<1>10. CASE Report(o)
  BY <1>10 DEF Report, Go, TypeOK, ClosedInv, Covers
<1>11. QED
  BY <1>1, <1>2, <1>3, <1>4, <1>5, <1>6, <1>7, <1>8, <1>9, <1>10
    DEF Step, Delete, Clear

(* Events() only makes the events object. *)
LEMMA EventsInv == IInv /\ Events /\ raced' = raced \cup Overlap' => IInv'
<1>1. SUFFICES ASSUME IInv, Events, raced' = raced \cup Overlap' PROVE IInv'
  OBVIOUS
<1>2. UNCHANGED <<store, pc, name, prv, todo, at, tmp, stored, reported, again,
                  untold, straddled>> /\ imp'.orgsncmp = imp.orgsncmp
  BY <1>1 DEF Events, locals, history, IInv, TypeOK
<1>3. Overlap' = Overlap
  BY <1>2 DEF Overlap, InWindow
<1>4. raced' = raced
  BY <1>1, <1>3 DEF IInv, WindowInv
<1>5. TypeOK'
  BY <1>1, <1>2, <1>4 DEF Events, locals, IInv, TypeOK
<1>6. KeyInv' /\ WindowInv' /\ OnceInv' /\ EveryValueAccountedFor'
  BY <1>1, <1>2, <1>3, <1>4
    DEF IInv, KeyInv, WindowInv, OnceInv, EveryValueAccountedFor
<1>7. ClosedInv'
  BY <1>1, <1>2 DEF IInv, ClosedInv, Covers
<1>8. QED
  BY <1>5, <1>6, <1>7 DEF IInv

(* Every step keeps the invariant. *)
LEMMA NextInv == IInv /\ Next => IInv'
<1>1. SUFFICES ASSUME IInv, Next PROVE IInv'
  OBVIOUS
<1>2. CASE Events
  BY <1>1, <1>2, EventsInv DEF Next
<1>3. CASE \E o \in Ops : Step(o)
  <2>1. PICK o \in Ops : Step(o)
    BY <1>3
  <2>2. raced' = raced \cup Overlap'
    BY <1>1 DEF Next
  <2>3. TypeOK'
    BY <1>1, <2>1, <2>2, StepType DEF IInv
  <2>4. QED
    BY <1>1, <2>1, <2>2, <2>3, StepKey, StepWindow, StepOnce, StepAccount,
       StepClosed DEF IInv
<1>4. QED
  BY <1>1, <1>2, <1>3 DEF Next

(* A stuttering step keeps the invariant. *)
LEMMA StutterInv == IInv /\ UNCHANGED vars => IInv'
<1>1. SUFFICES ASSUME IInv, UNCHANGED vars PROVE IInv'
  OBVIOUS
<1>2. TypeOK'
  BY <1>1 DEF IInv, vars, locals, history, TypeOK
<1>3. KeyInv' /\ WindowInv' /\ OnceInv' /\ EveryValueAccountedFor'
  BY <1>1
    DEF IInv, vars, locals, history, KeyInv, WindowInv, Overlap, InWindow,
              OnceInv, EveryValueAccountedFor
<1>4. ClosedInv'
  BY <1>1 DEF IInv, vars, locals, history, ClosedInv, Covers
<1>5. QED
  BY <1>2, <1>3, <1>4 DEF IInv

(* A new map satisfies the invariant. *)
LEMMA InitInv == Init => IInv
<1>1. SUFFICES ASSUME Init PROVE IInv
  OBVIOUS
<1>2. TypeOK
  BY <1>1 DEF Init, TypeOK
<1>3. KeyInv /\ WindowInv
  BY <1>1 DEF Init, KeyInv, WindowInv, Overlap, InWindow
<1>4. OnceInv /\ EveryValueAccountedFor
  BY <1>1 DEF Init, OnceInv, EveryValueAccountedFor
<1>5. ClosedInv
  BY <1>1 DEF Init, ClosedInv
<1>6. QED
  BY <1>2, <1>3, <1>4, <1>5 DEF IInv

(* Every reachable state of IterMap satisfies the invariant. *)
THEOREM IterMapInvariant == Spec => []IInv
<1>1. IInv /\ [Next]_vars => IInv'
  BY NextInv, StutterInv
<1>2. QED
  BY <1>1, InitInv, PTL DEF Spec

(* itermap's fields, the sync.Map and the locals of its methods keep their *)
(* types.                                                                  *)
THEOREM IterMapTypeCorrect == Spec => []TypeOK
<1>1. IInv => TypeOK
  BY DEF IInv
<1>2. QED
  BY <1>1, IterMapInvariant, PTL

(* A value leaves the map unseen only if two calls overlapped on its key.  *)
THEOREM AccountTheorem == Spec => []EveryValueAccountedFor
<1>1. IInv => EveryValueAccountedFor
  BY DEF IInv
<1>2. QED
  BY <1>1, IterMapInvariant, PTL

(* A value is handed to an event twice, or while it is still in the map,   *)
(* only if two calls overlapped on its key.                                *)
THEOREM OnceTheorem == Spec => []ReportedOnce
<1>1. IInv => ReportedOnce
  BY DEF IInv, OnceInv, ReportedOnce
<1>2. QED
  BY <1>1, IterMapInvariant, PTL

(* After Close and every other call have returned nothing is left in the   *)
(* map, unless a Set was using it when Close took it away.                 *)
THEOREM ClosedTheorem == Spec => []ClosedMapIsEmpty
<1>1. IInv => ClosedMapIsEmpty
  BY DEF IInv, ClosedInv, Covers, ClosedMapIsEmpty
<1>2. QED
  BY <1>1, IterMapInvariant, PTL
===========================================================================
