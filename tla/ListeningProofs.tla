-------------------------- MODULE ListeningProofs --------------------------
(***************************************************************************)
(* Proofs about Listening for any number of calls, names and addresses.    *)
(* The map in it is shown to behave as IterMap, so what is proved there is *)
(* taken from IterMapProofs; on top of it: the map never holds a listener  *)
(* that was shut down, Unload returns only after the listeners that it     *)
(* removed are shut down, and a socket that serves stays in reach of       *)
(* Unload, each under the exceptions that the properties name.             *)
(***************************************************************************)
EXTENDS Listening, TLAPS

MapP == INSTANCE IterMapProofs WITH Ops <- Calls, Keys <- Names

(* The actions of Listening, with the steps inside the map taken apart.    *)
Aside == <<lpc, kind, want, listenVars, mine, used, cb, doubled, eventVars>>

DeleteCall(o) ==
  /\ lpc[o] = "call" /\ kind[o] = "unload"
  /\ Map!Remove(o, want[o])
  /\ used' = [used EXCEPT ![o] = obj]
  /\ Goto(o, "map")
  /\ UNCHANGED <<kind, want, listenVars, obj, mine, cb, doubled, eventVars>>

CloseCall(o) ==
  /\ lpc[o] = "call" /\ kind[o] # "unload"
  /\ Map!Close(o)
  /\ used' = [used EXCEPT ![o] = obj]
  /\ Goto(o, "map")
  /\ UNCHANGED <<kind, want, listenVars, obj, mine, cb, doubled, eventVars>>

LoadStep(o) ==
  lpc[o] = "map" /\ Map!Load(o) /\ pc'[o] = "store" /\ UNCHANGED <<obj, Aside>>

StoreStep(o) ==
  lpc[o] = "map" /\ Map!Store(o) /\ UNCHANGED <<obj, Aside>>

DropEventsStep(o) ==
  lpc[o] = "map" /\ Map!DropEvents(o) /\ obj' = Nil /\ UNCHANGED Aside

DropMapStep(o) ==
  lpc[o] = "map" /\ Map!DropMap(o) /\ UNCHANGED <<obj, Aside>>

VisitStep(o, n) ==
  lpc[o] = "map" /\ Map!Visit(o, n) /\ UNCHANGED <<obj, Aside>>

DeleteStep(o) ==
  lpc[o] = "map" /\ Map!DeleteKey(o) /\ UNCHANGED <<obj, Aside>>

Case(o) ==
  \/ \E n \in Names, a \in Addrs : Listen(o, n, a)
  \/ Swap(o) \/ Bind(o) \/ SetCall(o)
  \/ \E k \in Unloads, ns \in SUBSET Names :
       (k = "unload" => ns # {}) /\ Unload(o, k, ns)
  \/ EventsCall(o) \/ Install(o) \/ DeleteCall(o) \/ CloseCall(o)
  \/ LoadStep(o) \/ StoreStep(o) \/ DropEventsStep(o) \/ DropMapStep(o)
  \/ (\E n \in Names : VisitStep(o, n)) \/ DeleteStep(o)
  \/ Spawn(o) \/ EventStart(o) \/ (\E l \in Calls : Shutdown(o, l))
  \/ Cancel(o) \/ Await(o)

(* A step of the specification is one of these. *)
LEMMA NextCases ==
  ASSUME [Next]_vars
  PROVE  (\E o \in Calls : Case(o) /\ Record) \/ UNCHANGED vars
<1>1. ASSUME NEW o \in Calls, Step(o)
      PROVE  Case(o)
  <2>1. CASE MapStep(o)
    BY <2>1 DEF MapStep, Case, Aside, LoadStep, StoreStep, DropEventsStep,
      DropMapStep, VisitStep, DeleteStep
  <2>2. CASE RemoveCall(o)
    BY <2>2 DEF RemoveCall, Case, DeleteCall, CloseCall
  <2>3. CASE (\E ns \in (SUBSET Names) \ {{}} : Unload(o, "unload", ns))
             \/ Unload(o, "unloadall", {})
    <3>1. PICK k \in Unloads, ns \in SUBSET Names :
            (k = "unload" => ns # {}) /\ Unload(o, k, ns)
      <4>1. CASE \E ns \in (SUBSET Names) \ {{}} : Unload(o, "unload", ns)
        BY <4>1 DEF Unloads
      <4>2. CASE Unload(o, "unloadall", {})
        BY <4>2 DEF Unloads
      <4> QED
        BY <2>3, <4>1, <4>2
    <3> QED
      BY <3>1 DEF Case
  <2>4. CASE Spawn(o) \/ EventStart(o) \/ (\E l \in Calls : Shutdown(o, l))
             \/ Cancel(o) \/ Await(o)
    BY <2>4 DEF Case
  <2>5. CASE \/ \E n \in Names, a \in Addrs : Listen(o, n, a)
             \/ Swap(o) \/ Bind(o) \/ SetCall(o)
             \/ EventsCall(o) \/ Install(o)
    BY <2>5 DEF Case
  <2> QED
    BY <1>1, <2>1, <2>2, <2>3, <2>4, <2>5 DEF Step, Progress
<1> QED
  BY <1>1 DEF Next

(* The arguments of a call are names, Delete is called with at least one,  *)
(* and the overlaps in the map are recorded.                               *)
WantInv ==
  /\ want \in [Calls -> SUBSET Names]
  /\ kind \in [Calls -> Kinds]
  /\ \A o \in Calls : kind[o] = "unload" => want[o] # {}
  /\ Map!Overlap \subseteq raced

(* Every step keeps that. *)
LEMMA WantStep ==
  ASSUME WantInv, [Next]_vars
  PROVE  WantInv'
<1>1. ASSUME NEW o \in Calls, NEW n \in Names, NEW a \in Addrs, Listen(o, n, a), Record
      PROVE  WantInv'
  BY <1>1 DEF Listen, WantInv, Kinds, Record
<1>2. ASSUME NEW o \in Calls, Swap(o), Record
      PROVE  WantInv'
  BY <1>2 DEF Swap, listenVars, WantInv, Record
<1>3. ASSUME NEW o \in Calls, Bind(o), Record
      PROVE  WantInv'
  BY <1>3 DEF Bind, listenVars, WantInv, Record
<1>4. ASSUME NEW o \in Calls, SetCall(o), Record
      PROVE  WantInv'
  BY <1>4 DEF SetCall, listenVars, WantInv, Record
<1>5. ASSUME NEW o \in Calls, NEW k \in Unloads, NEW ns \in SUBSET Names,
            k = "unload" => ns # {}, Unload(o, k, ns), Record
      PROVE  WantInv'
  BY <1>5 DEF Unload, WantInv, Kinds, Unloads, Record
<1>6. ASSUME NEW o \in Calls, EventsCall(o), Record
      PROVE  WantInv'
  BY <1>6 DEF EventsCall, listenVars, WantInv, Record
<1>7. ASSUME NEW o \in Calls, Install(o), Record
      PROVE  WantInv'
  BY <1>7 DEF Install, listenVars, WantInv, Record
<1>8. ASSUME NEW o \in Calls, DeleteCall(o), Record
      PROVE  WantInv'
  BY <1>8 DEF DeleteCall, listenVars, WantInv, Record
<1>9. ASSUME NEW o \in Calls, CloseCall(o), Record
      PROVE  WantInv'
  BY <1>9 DEF CloseCall, listenVars, WantInv, Record
<1>10. ASSUME NEW o \in Calls, LoadStep(o), Record
       PROVE  WantInv'
  BY <1>10 DEF LoadStep, Aside, WantInv, Record
<1>11. ASSUME NEW o \in Calls, StoreStep(o), Record
       PROVE  WantInv'
  BY <1>11 DEF StoreStep, Aside, WantInv, Record
<1>12. ASSUME NEW o \in Calls, DropEventsStep(o), Record
       PROVE  WantInv'
  BY <1>12 DEF DropEventsStep, Aside, WantInv, Record
<1>13. ASSUME NEW o \in Calls, DropMapStep(o), Record
       PROVE  WantInv'
  BY <1>13 DEF DropMapStep, Aside, WantInv, Record
<1>14. ASSUME NEW o \in Calls, NEW n \in Names, VisitStep(o, n), Record
       PROVE  WantInv'
  BY <1>14 DEF VisitStep, Aside, WantInv, Record
<1>15. ASSUME NEW o \in Calls, DeleteStep(o), Record
       PROVE  WantInv'
  BY <1>15 DEF DeleteStep, Aside, WantInv, Record
<1>16. ASSUME NEW o \in Calls, Spawn(o), Record
       PROVE  WantInv'
  BY <1>16 DEF Spawn, listenVars, WantInv, Record
<1>17. ASSUME NEW o \in Calls, EventStart(o), Record
       PROVE  WantInv'
  BY <1>17 DEF EventStart, listenVars, WantInv, Record
<1>18. ASSUME NEW o \in Calls, NEW l \in Calls, Shutdown(o, l), Record
       PROVE  WantInv'
  BY <1>18 DEF Shutdown, listenVars, WantInv, Record
<1>19. ASSUME NEW o \in Calls, Cancel(o), Record
       PROVE  WantInv'
  BY <1>19 DEF Cancel, listenVars, WantInv, Record
<1>20. ASSUME NEW o \in Calls, Await(o), Record
       PROVE  WantInv'
  BY <1>20 DEF Await, listenVars, WantInv, Record
<1>21. CASE UNCHANGED vars
  BY <1>21 DEF vars, mapVars, WantInv, Map!Overlap, Map!InWindow
<1> QED
  BY NextCases,
     <1>1, <1>2, <1>3, <1>4, <1>5, <1>6, <1>7, <1>8, <1>9, <1>10, <1>11,
     <1>12, <1>13, <1>14, <1>15, <1>16, <1>17, <1>18, <1>19, <1>20, <1>21 DEF Case

(* The arguments are as WantInv says, in every reachable state. *)
LEMMA WantAlways == Spec => []WantInv
<1>1. Init => WantInv
  BY DEF Init, WantInv, Kinds, Map!Init, Map!Overlap, Map!InWindow
<1> QED
  BY <1>1, WantStep, PTL DEF Spec

(* Every step is one of the map, or leaves it alone. *)
LEMMA MapStepLemma ==
  ASSUME WantInv, [Next]_vars
  PROVE  [Map!Next]_Map!vars
<1>1. ASSUME NEW o \in Calls, NEW n \in Names, NEW a \in Addrs, Listen(o, n, a), Record
      PROVE  [Map!Next]_Map!vars
  BY <1>1 DEF Listen, mapVars, Record, WantInv, Map!vars, Map!locals, Map!history,
    Map!Overlap, Map!InWindow
<1>2. ASSUME NEW o \in Calls, Swap(o), Record
      PROVE  [Map!Next]_Map!vars
  BY <1>2 DEF Swap, mapVars, Record, WantInv, Map!vars, Map!locals, Map!history,
    Map!Overlap, Map!InWindow
<1>3. ASSUME NEW o \in Calls, Bind(o), Record
      PROVE  [Map!Next]_Map!vars
  BY <1>3 DEF Bind, mapVars, Record, WantInv, Map!vars, Map!locals, Map!history,
    Map!Overlap, Map!InWindow
<1>4. ASSUME NEW o \in Calls, SetCall(o), Record
      PROVE  [Map!Next]_Map!vars
  <2>1. \E n \in Names : Map!Set(o, n)
    BY <1>4 DEF SetCall, WantInv
  <2> QED
    BY <1>4, <2>1 DEF Record, Map!Next, Map!Step
<1>5. ASSUME NEW o \in Calls, NEW k \in Unloads, NEW ns \in SUBSET Names,
            k = "unload" => ns # {}, Unload(o, k, ns), Record
      PROVE  [Map!Next]_Map!vars
  BY <1>5 DEF Unload, mapVars, Record, WantInv, Map!vars, Map!locals, Map!history,
    Map!Overlap, Map!InWindow
<1>6. ASSUME NEW o \in Calls, EventsCall(o), Record
      PROVE  [Map!Next]_Map!vars
  <2>1. CASE Map!Events
    BY <1>6, <2>1 DEF Record, Map!Next
  <2>2. CASE UNCHANGED mapVars
    BY <1>6, <2>2 DEF mapVars, Record, WantInv, Map!vars, Map!locals, Map!history,
      Map!Overlap, Map!InWindow
  <2> QED
    BY <1>6, <2>1, <2>2 DEF EventsCall, mapVars
<1>7. ASSUME NEW o \in Calls, Install(o), Record
      PROVE  [Map!Next]_Map!vars
  BY <1>7 DEF Install, mapVars, Record, WantInv, Map!vars, Map!locals, Map!history,
    Map!Overlap, Map!InWindow
<1>8. ASSUME NEW o \in Calls, DeleteCall(o), Record
      PROVE  [Map!Next]_Map!vars
  <2>1. Map!Delete(o)
    BY <1>8 DEF DeleteCall, WantInv, Map!Delete
  <2> QED
    BY <1>8, <2>1 DEF Record, Map!Next, Map!Step
<1>9. ASSUME NEW o \in Calls, CloseCall(o), Record
      PROVE  [Map!Next]_Map!vars
  BY <1>9 DEF CloseCall, Record, Map!Next, Map!Step
<1>10. ASSUME NEW o \in Calls, LoadStep(o), Record
       PROVE  [Map!Next]_Map!vars
  BY <1>10 DEF LoadStep, Record, Map!Next, Map!Step
<1>11. ASSUME NEW o \in Calls, StoreStep(o), Record
       PROVE  [Map!Next]_Map!vars
  BY <1>11 DEF StoreStep, Record, Map!Next, Map!Step
<1>12. ASSUME NEW o \in Calls, DropEventsStep(o), Record
       PROVE  [Map!Next]_Map!vars
  BY <1>12 DEF DropEventsStep, Record, Map!Next, Map!Step
<1>13. ASSUME NEW o \in Calls, DropMapStep(o), Record
       PROVE  [Map!Next]_Map!vars
  BY <1>13 DEF DropMapStep, Record, Map!Next, Map!Step
<1>14. ASSUME NEW o \in Calls, NEW n \in Names, VisitStep(o, n), Record
       PROVE  [Map!Next]_Map!vars
  BY <1>14 DEF VisitStep, Record, Map!Next, Map!Step
<1>15. ASSUME NEW o \in Calls, DeleteStep(o), Record
       PROVE  [Map!Next]_Map!vars
  BY <1>15 DEF DeleteStep, Record, Map!Next, Map!Step
<1>16. ASSUME NEW o \in Calls, Spawn(o), Record
       PROVE  [Map!Next]_Map!vars
  BY <1>16 DEF Spawn, Record, Map!Next, Map!Step
<1>17. ASSUME NEW o \in Calls, EventStart(o), Record
       PROVE  [Map!Next]_Map!vars
  BY <1>17 DEF EventStart, mapVars, Record, WantInv, Map!vars, Map!locals, Map!history,
    Map!Overlap, Map!InWindow
<1>18. ASSUME NEW o \in Calls, NEW l \in Calls, Shutdown(o, l), Record
       PROVE  [Map!Next]_Map!vars
  BY <1>18 DEF Shutdown, mapVars, Record, WantInv, Map!vars, Map!locals, Map!history,
    Map!Overlap, Map!InWindow
<1>19. ASSUME NEW o \in Calls, Cancel(o), Record
       PROVE  [Map!Next]_Map!vars
  BY <1>19 DEF Cancel, mapVars, Record, WantInv, Map!vars, Map!locals, Map!history,
    Map!Overlap, Map!InWindow
<1>20. ASSUME NEW o \in Calls, Await(o), Record
       PROVE  [Map!Next]_Map!vars
  BY <1>20 DEF Await, mapVars, Record, WantInv, Map!vars, Map!locals, Map!history,
    Map!Overlap, Map!InWindow
<1>21. CASE UNCHANGED vars
  BY <1>21 DEF vars, mapVars, Map!vars, Map!locals, Map!history
<1> QED
  BY NextCases,
     <1>1, <1>2, <1>3, <1>4, <1>5, <1>6, <1>7, <1>8, <1>9, <1>10, <1>11,
     <1>12, <1>13, <1>14, <1>15, <1>16, <1>17, <1>18, <1>19, <1>20, <1>21 DEF Case

(* Listening uses its map only through the operations of IterMap: seen     *)
(* from the map, Listen and Unload are calls of Set, Delete, Close and     *)
(* Events (listening.go, Listen and Unload).                               *)
THEOREM MapRefinement == Spec => Map!Spec
<1>1. Init => Map!Init
  BY DEF Init
<1>2. WantInv /\ [Next]_vars => [Map!Next]_Map!vars
  BY MapStepLemma
<1> QED
  BY <1>1, <1>2, WantAlways, PTL DEF Spec, Map!Spec

(* IterMap and the copy of it that IterMapProofs proves about are one and  *)
(* the same specification.                                                 *)
LEMMA SameMap == Map!Spec => MapP!Spec
<1>1. Map!Init => MapP!Init
  BY DEF Map!Init, MapP!Init
<1>2. [Map!Next]_Map!vars => [MapP!Next]_MapP!vars
  <2>1. UNCHANGED Map!vars => UNCHANGED MapP!vars
    BY DEF Map!vars, Map!locals, Map!history, MapP!vars, MapP!locals, MapP!history
  <2>2. Map!Next => MapP!Next
    <3>1. Map!Events => MapP!Events
      BY DEF Map!Events, MapP!Events, Map!locals, MapP!locals, Map!history, MapP!history
    <3>2. Map!Overlap' = MapP!Overlap'
      BY DEF Map!Overlap, MapP!Overlap, Map!InWindow, MapP!InWindow
    <3>3. ASSUME NEW o \in Calls, Map!Step(o)
          PROVE  MapP!Step(o)
      <4>1. CASE \E k \in Names : Map!Set(o, k) \/ Map!Visit(o, k)
        BY <4>1 DEF Map!Set, MapP!Set, Map!Visit, MapP!Visit, Map!Go, MapP!Go,
          Map!history, MapP!history, MapP!Step
      <4>2. CASE Map!Load(o) \/ Map!Store(o)
        BY <4>2 DEF Map!Load, MapP!Load, Map!Store, MapP!Store, Map!Go, MapP!Go,
          Map!locals, MapP!locals, Map!history, MapP!history, MapP!Step
      <4>3. CASE Map!Delete(o) \/ Map!Clear(o)
        BY <4>3 DEF Map!Delete, MapP!Delete, Map!Clear, MapP!Clear, Map!Remove,
          MapP!Remove, Map!Go, MapP!Go, Map!history, MapP!history, MapP!Step
      <4>4. CASE Map!Close(o) \/ Map!DropEvents(o) \/ Map!DropMap(o)
        BY <4>4 DEF Map!Close, MapP!Close, Map!DropEvents, MapP!DropEvents,
          Map!DropMap, MapP!DropMap, Map!Go, MapP!Go, Map!locals, MapP!locals,
          Map!history, MapP!history, MapP!Step
      <4>5. CASE Map!DeleteKey(o) \/ Map!Report(o)
        BY <4>5 DEF Map!DeleteKey, MapP!DeleteKey, Map!Report, MapP!Report,
          Map!Go, MapP!Go, MapP!Step
      <4> QED
        BY <3>3, <4>1, <4>2, <4>3, <4>4, <4>5 DEF Map!Step
    <3> QED
      BY <3>1, <3>2, <3>3 DEF Map!Next, MapP!Next
  <2> QED
    BY <2>1, <2>2
<1> QED
  BY <1>1, <1>2, PTL DEF Map!Spec, MapP!Spec

(* What the proofs below use of the map: types, values under their own     *)
(* names, and a window nobody else entered.                                *)
MapInv == MapP!TypeOK /\ MapP!KeyInv /\ MapP!WindowInv

(* What IterMapProofs proves of IterMap holds of the map in here. *)
LEMMA MapAlways == Spec => []MapInv
<1>1. MapP!Spec => []MapP!IInv
  BY MapP!IterMapInvariant, CallsAssumption, PTL
<1>2. MapP!IInv => MapInv
  BY DEF MapP!IInv, MapInv
<1> QED
  BY <1>1, <1>2, MapRefinement, SameMap, PTL

(* The types of what Listening adds to the map. *)
LocalType ==
  /\ lpc \in [Calls -> {"ready", "swap", "bind", "set", "events", "make",
                        "fetch", "install", "call", "map", "done", "panic"}]
  /\ adr \in [Calls -> Addrs \cup {Nil}]
  /\ got \in [Calls -> Calls \cup {Nil}]
  /\ ln \in [Calls -> {"none", "bound", "down"}]
  /\ obj \in Calls \cup {Nil}
  /\ mine \in [Calls -> Calls \cup {Nil}]
  /\ used \in [Calls -> Calls \cup {Nil}]
  /\ cb \in [Unloads -> [Calls -> Calls \cup {Nil}]]
  /\ ev \in [Calls -> {"none", "spawned", "running", "finished"}]
  /\ evmap \in [Calls -> SUBSET Calls]
  /\ evcb \in [Calls -> Calls \cup {Nil}]
  /\ cancelled \subseteq Calls
  /\ removed \in [Calls -> SUBSET Calls]
  /\ doubled \in BOOLEAN

HistoryType == contended \subseteq Names /\ crossed \in BOOLEAN

(* Where a call stands in Listen or Unload, and in the map. *)
PlaceInv ==
  \A o \in Calls :
    /\ lpc[o] = "ready" => kind[o] = "none"
    /\ lpc[o] \in {"swap", "bind", "set"} => kind[o] = "listen"
    /\ lpc[o] \in {"events", "make", "fetch", "install", "call", "panic"}
         => kind[o] \in Unloads
    /\ lpc[o] \in {"map", "done"} => kind[o] # "none"
    /\ lpc[o] \notin {"map", "done"} => pc[o] = "ready"
    /\ lpc[o] = "map" => pc[o] # "ready"
    /\ pc[o] \notin {"ready", "done"} => lpc[o] = "map"
    /\ pc[o] \in {"load", "store"} => kind[o] = "listen"
    /\ pc[o] \in {"range", "delete"} => kind[o] \in Unloads
    /\ pc[o] \in {"dropevents", "dropmap"} => kind[o] = "unloadall"

(* The events object of the map has a name; Unload has fetched one, and so *)
(* has a Delete or Close that will report.                                 *)
ObjInv ==
  /\ imp.mpevents <=> obj # Nil
  /\ \A o \in Calls :
       /\ lpc[o] \in {"install", "call"} => mine[o] \in Calls
       /\ tmp[o] # {} => evt[o] /\ pc[o] \in {"range", "delete"}
       /\ pc[o] # "ready" /\ kind[o] \in Unloads /\ evt[o] => used[o] \in Calls

(* An event goroutine belongs to an Unload whose Range is over. *)
EventInv ==
  \A o \in Calls :
    /\ ev[o] = "none" => evmap[o] = {} /\ removed[o] = {}
    /\ ev[o] # "none" => pc[o] = "done" /\ kind[o] \in Unloads /\ used[o] \in Calls
    /\ ev[o] = "running" => evcb[o] \in Calls

(* A call of Listen has one name, and a socket once it was bound. *)
ListenInv ==
  \A o \in Calls :
    /\ kind[o] = "listen" => \E n \in Names : want[o] = {n}
    /\ kind[o] = "listen" /\ pc[o] # "ready" => want[o] = {name[o]}
    /\ ln[o] # "none" => kind[o] = "listen" /\ lpc[o] \in {"set", "map"}
    /\ lpc[o] = "set" \/ pc[o] \in {"load", "store"} => ln[o] = "bound"

(* A listener is in the map, or was removed and then shut down, by the     *)
(* event goroutine of the Unload that removed it.                          *)
HoldInv ==
  /\ \A l \in stored : pc[l] = "done" /\ ln[l] # "none"
  /\ \A n \in Names : store[n] # Nil => ln[store[n]] = "bound"
  /\ \A o \in Calls : \A l \in tmp[o] \cup removed[o] :
       l \in stored /\ store[name[l]] # l
  /\ \A o \in Calls : evmap[o] \subseteq removed[o]
  /\ \A o \in Calls : \A l \in removed[o] : l \in evmap[o] \/ ln[l] = "down"

CallInv ==
  /\ LocalType
  /\ PlaceInv
  /\ ObjInv
  /\ EventInv
  /\ ListenInv
  /\ HoldInv

(* Every step keeps the types. *)
LEMMA LocalTypeStep ==
  ASSUME MapInv, WantInv, CallInv, [Next]_vars
  PROVE  LocalType'
<1>1. ASSUME NEW o \in Calls, NEW n \in Names, NEW a \in Addrs, Listen(o, n, a)
      PROVE  LocalType'
  <2>1. lpc' \in [Calls -> {"ready", "swap", "bind", "set", "events", "make",
                          "fetch", "install", "call", "map", "done", "panic"}]
    BY <1>1 DEF Listen, Goto, CallInv, LocalType
  <2>2. got' \in [Calls -> Calls \cup {Nil}]
    BY <1>1 DEF Listen, CallInv, LocalType, MapInv, MapP!TypeOK
  <2> QED
    BY <1>1, <2>1, <2>2 DEF Listen, unloadVars, eventVars, CallInv, LocalType
<1>2. ASSUME NEW o \in Calls, Swap(o)
      PROVE  LocalType'
  BY <1>2 DEF Swap, Goto, mapVars, listenVars, unloadVars, eventVars,
    CallInv, LocalType
<1>3. ASSUME NEW o \in Calls, Bind(o)
      PROVE  LocalType'
  <2>1. lpc' \in [Calls -> {"ready", "swap", "bind", "set", "events", "make",
                          "fetch", "install", "call", "map", "done", "panic"}]
    BY <1>3 DEF Bind, Goto, CallInv, LocalType
  <2>2. ln' \in [Calls -> {"none", "bound", "down"}]
    BY <1>3 DEF Bind, CallInv, LocalType
  <2> QED
    BY <1>3, <2>1, <2>2 DEF Bind, unloadVars, eventVars, CallInv, LocalType
<1>4. ASSUME NEW o \in Calls, SetCall(o)
      PROVE  LocalType'
  BY <1>4 DEF SetCall, Goto, Map!Set, Map!Go, Map!history, listenVars,
    unloadVars, eventVars, CallInv, LocalType
<1>5. ASSUME NEW o \in Calls, NEW k \in Unloads, NEW ns \in SUBSET Names,
            k = "unload" => ns # {}, Unload(o, k, ns)
      PROVE  LocalType'
  BY <1>5 DEF Unload, Goto, mapVars, listenVars, unloadVars, eventVars,
    CallInv, LocalType
<1>6. ASSUME NEW o \in Calls, EventsCall(o)
      PROVE  LocalType'
  <2>1. obj' \in Calls \cup {Nil} /\ mine' \in [Calls -> Calls \cup {Nil}]
    BY <1>6 DEF EventsCall, CallInv, LocalType
  <2> QED
    BY <1>6, <2>1 DEF EventsCall, Goto, listenVars, eventVars, CallInv, LocalType
<1>7. ASSUME NEW o \in Calls, Install(o)
      PROVE  LocalType'
  BY <1>7 DEF Install, Goto, mapVars, listenVars, eventVars, CallInv,
    LocalType, PlaceInv, ObjInv
<1>8. ASSUME NEW o \in Calls, DeleteCall(o)
      PROVE  LocalType'
  BY <1>8 DEF DeleteCall, Goto, Map!Remove, Map!Go, Map!history, listenVars,
    eventVars, CallInv, LocalType, PlaceInv
<1>9. ASSUME NEW o \in Calls, CloseCall(o)
      PROVE  LocalType'
  BY <1>9 DEF CloseCall, Goto, Map!Close, Map!Go, Map!history, listenVars,
    eventVars, CallInv, LocalType, PlaceInv
<1>10. ASSUME NEW o \in Calls, LoadStep(o)
       PROVE  LocalType'
  BY <1>10 DEF LoadStep, Aside, Map!Load, Map!Go, Map!history, listenVars,
    eventVars, CallInv, LocalType
<1>11. ASSUME NEW o \in Calls, StoreStep(o)
       PROVE  LocalType'
  BY <1>11 DEF StoreStep, Aside, Map!Store, Map!Go, Map!locals, listenVars,
    eventVars, CallInv, LocalType
<1>12. ASSUME NEW o \in Calls, DropEventsStep(o)
       PROVE  LocalType'
  BY <1>12 DEF DropEventsStep, Aside, Map!DropEvents, Map!Go, Map!locals,
    Map!history, listenVars, eventVars, CallInv, LocalType
<1>13. ASSUME NEW o \in Calls, DropMapStep(o)
       PROVE  LocalType'
  BY <1>13 DEF DropMapStep, Aside, Map!DropMap, Map!Go, Map!locals,
    listenVars, eventVars, CallInv, LocalType
<1>14. ASSUME NEW o \in Calls, NEW n \in Names, VisitStep(o, n)
       PROVE  LocalType'
  BY <1>14 DEF VisitStep, Aside, Map!Visit, Map!Go, Map!history, listenVars,
    eventVars, CallInv, LocalType
<1>15. ASSUME NEW o \in Calls, DeleteStep(o)
       PROVE  LocalType'
  BY <1>15 DEF DeleteStep, Aside, Map!DeleteKey, Map!Go, listenVars,
    eventVars, CallInv, LocalType
<1>16. ASSUME NEW o \in Calls, Spawn(o)
       PROVE  LocalType'
  <2>1. /\ ev' \in [Calls -> {"none", "spawned", "running", "finished"}]
        /\ evmap' \in [Calls -> SUBSET Calls]
        /\ removed' \in [Calls -> SUBSET Calls]
    <3>1. CASE tmp[o] = {}
      BY <1>16, <3>1 DEF Spawn, CallInv, LocalType
    <3>2. CASE tmp[o] # {}
      <4>1. /\ ev' = [ev EXCEPT ![o] = "spawned"]
            /\ evmap' = [evmap EXCEPT ![o] = tmp[o]]
            /\ removed' = [removed EXCEPT ![o] = tmp[o]]
        BY <1>16, <3>2 DEF Spawn
      <4>2. tmp[o] \in SUBSET Calls
        BY DEF MapInv, MapP!TypeOK
      <4> QED
        BY <4>1, <4>2 DEF CallInv, LocalType
    <3> QED
      BY <3>1, <3>2
  <2> QED
    BY <1>16, <2>1 DEF Spawn, listenVars, unloadVars, CallInv, LocalType
<1>17. ASSUME NEW o \in Calls, EventStart(o)
       PROVE  LocalType'
  BY <1>17 DEF EventStart, mapVars, listenVars, unloadVars, CallInv,
    LocalType, EventInv, WantInv, Kinds
<1>18. ASSUME NEW o \in Calls, NEW l \in Calls, Shutdown(o, l)
       PROVE  LocalType'
  BY <1>18 DEF Shutdown, mapVars, unloadVars, CallInv, LocalType, EventInv
<1>19. ASSUME NEW o \in Calls, Cancel(o)
       PROVE  LocalType'
  BY <1>19 DEF Cancel, mapVars, listenVars, unloadVars, CallInv, LocalType,
    EventInv
<1>20. ASSUME NEW o \in Calls, Await(o)
       PROVE  LocalType'
  BY <1>20 DEF Await, Goto, mapVars, listenVars, unloadVars, eventVars,
    CallInv, LocalType
<1>21. CASE UNCHANGED vars
  BY <1>21 DEF vars, mapVars, listenVars, unloadVars, eventVars, CallInv,
    LocalType
<1> QED
  BY NextCases,
     <1>1, <1>2, <1>3, <1>4, <1>5, <1>6, <1>7, <1>8, <1>9, <1>10, <1>11,
     <1>12, <1>13, <1>14, <1>15, <1>16, <1>17, <1>18, <1>19, <1>20, <1>21 DEF Case

(* A call goes through its steps in order. *)
LEMMA PlaceStep ==
  ASSUME MapInv, WantInv, CallInv, [Next]_vars
  PROVE  PlaceInv'
<1>1. ASSUME NEW o \in Calls, NEW n \in Names, NEW a \in Addrs, Listen(o, n, a)
      PROVE  PlaceInv'
  BY <1>1 DEF Listen, Goto, mapVars, unloadVars, eventVars, CallInv,
    LocalType, PlaceInv, Unloads, MapInv, MapP!TypeOK, WantInv, Kinds
<1>2. ASSUME NEW o \in Calls, Swap(o)
      PROVE  PlaceInv'
  BY <1>2 DEF Swap, Goto, mapVars, listenVars, unloadVars, eventVars,
    CallInv, LocalType, PlaceInv, Unloads, MapInv, MapP!TypeOK
<1>3. ASSUME NEW o \in Calls, Bind(o)
      PROVE  PlaceInv'
  BY <1>3 DEF Bind, Goto, mapVars, unloadVars, eventVars, CallInv,
    LocalType, PlaceInv, Unloads, MapInv, MapP!TypeOK
<1>4. ASSUME NEW o \in Calls, SetCall(o)
      PROVE  PlaceInv'
  BY <1>4 DEF SetCall, Goto, Map!Set, Map!Go, Map!history, listenVars,
    unloadVars, eventVars, CallInv, LocalType, PlaceInv, Unloads, MapInv,
    MapP!TypeOK
<1>5. ASSUME NEW o \in Calls, NEW k \in Unloads, NEW ns \in SUBSET Names,
            k = "unload" => ns # {}, Unload(o, k, ns)
      PROVE  PlaceInv'
  BY <1>5 DEF Unload, Goto, mapVars, listenVars, unloadVars, eventVars,
    CallInv, LocalType, PlaceInv, Unloads, MapInv, MapP!TypeOK, WantInv,
    Kinds
<1>6. ASSUME NEW o \in Calls, EventsCall(o)
      PROVE  PlaceInv'
  BY <1>6 DEF EventsCall, Goto, Map!Events, Map!locals, Map!history,
    mapVars, listenVars, eventVars, CallInv, LocalType, PlaceInv, Unloads,
    MapInv, MapP!TypeOK
<1>7. ASSUME NEW o \in Calls, Install(o)
      PROVE  PlaceInv'
  BY <1>7 DEF Install, Goto, mapVars, listenVars, eventVars, CallInv,
    LocalType, PlaceInv, Unloads, MapInv, MapP!TypeOK
<1>8. ASSUME NEW o \in Calls, DeleteCall(o)
      PROVE  PlaceInv'
  BY <1>8 DEF DeleteCall, Goto, Map!Remove, Map!Go, Map!history, listenVars,
    eventVars, CallInv, LocalType, PlaceInv, Unloads, MapInv, MapP!TypeOK
<1>9. ASSUME NEW o \in Calls, CloseCall(o)
      PROVE  PlaceInv'
  BY <1>9 DEF CloseCall, Goto, Map!Close, Map!Go, Map!history, listenVars,
    eventVars, CallInv, LocalType, PlaceInv, Unloads, MapInv, MapP!TypeOK
<1>10. ASSUME NEW o \in Calls, LoadStep(o)
       PROVE  PlaceInv'
  BY <1>10 DEF LoadStep, Aside, Map!Load, Map!Go, Map!history, listenVars,
    eventVars, CallInv, LocalType, PlaceInv, Unloads, MapInv, MapP!TypeOK
<1>11. ASSUME NEW o \in Calls, StoreStep(o)
       PROVE  PlaceInv'
  BY <1>11 DEF StoreStep, Aside, Map!Store, Map!Go, Map!locals, listenVars,
    eventVars, CallInv, LocalType, PlaceInv, Unloads, MapInv, MapP!TypeOK
<1>12. ASSUME NEW o \in Calls, DropEventsStep(o)
       PROVE  PlaceInv'
  BY <1>12 DEF DropEventsStep, Aside, Map!DropEvents, Map!Go, Map!locals,
    Map!history, listenVars, eventVars, CallInv, LocalType, PlaceInv,
    Unloads, MapInv, MapP!TypeOK
<1>13. ASSUME NEW o \in Calls, DropMapStep(o)
       PROVE  PlaceInv'
  BY <1>13 DEF DropMapStep, Aside, Map!DropMap, Map!Go, Map!locals,
    listenVars, eventVars, CallInv, LocalType, PlaceInv, Unloads, MapInv,
    MapP!TypeOK
<1>14. ASSUME NEW o \in Calls, NEW n \in Names, VisitStep(o, n)
       PROVE  PlaceInv'
  BY <1>14 DEF VisitStep, Aside, Map!Visit, Map!Go, Map!history, listenVars,
    eventVars, CallInv, LocalType, PlaceInv, Unloads, MapInv, MapP!TypeOK
<1>15. ASSUME NEW o \in Calls, DeleteStep(o)
       PROVE  PlaceInv'
  BY <1>15 DEF DeleteStep, Aside, Map!DeleteKey, Map!Go, listenVars,
    eventVars, CallInv, LocalType, PlaceInv, Unloads, MapInv, MapP!TypeOK
<1>16. ASSUME NEW o \in Calls, Spawn(o)
       PROVE  PlaceInv'
  BY <1>16 DEF Spawn, Map!Report, Map!Go, listenVars, unloadVars, CallInv,
    LocalType, PlaceInv, Unloads, MapInv, MapP!TypeOK
<1>17. ASSUME NEW o \in Calls, EventStart(o)
       PROVE  PlaceInv'
  BY <1>17 DEF EventStart, mapVars, listenVars, unloadVars, CallInv,
    LocalType, PlaceInv, Unloads, MapInv, MapP!TypeOK
<1>18. ASSUME NEW o \in Calls, NEW l \in Calls, Shutdown(o, l)
       PROVE  PlaceInv'
  BY <1>18 DEF Shutdown, mapVars, unloadVars, CallInv, LocalType, PlaceInv,
    Unloads, MapInv, MapP!TypeOK
<1>19. ASSUME NEW o \in Calls, Cancel(o)
       PROVE  PlaceInv'
  BY <1>19 DEF Cancel, mapVars, listenVars, unloadVars, CallInv, LocalType,
    PlaceInv, Unloads, MapInv, MapP!TypeOK
<1>20. ASSUME NEW o \in Calls, Await(o)
       PROVE  PlaceInv'
  BY <1>20 DEF Await, Goto, mapVars, listenVars, unloadVars, eventVars,
    CallInv, LocalType, PlaceInv, Unloads, MapInv, MapP!TypeOK
<1>21. CASE UNCHANGED vars
  BY <1>21 DEF vars, mapVars, listenVars, unloadVars, eventVars, CallInv,
    LocalType, PlaceInv, Unloads, MapInv, MapP!TypeOK
<1> QED
  BY NextCases,
     <1>1, <1>2, <1>3, <1>4, <1>5, <1>6, <1>7, <1>8, <1>9, <1>10, <1>11,
     <1>12, <1>13, <1>14, <1>15, <1>16, <1>17, <1>18, <1>19, <1>20, <1>21 DEF Case

(* The events object that an Unload or its Delete has fetched is one. *)
LEMMA ObjStep ==
  ASSUME MapInv, WantInv, CallInv, [Next]_vars
  PROVE  ObjInv'
<1>1. ASSUME NEW o \in Calls, NEW n \in Names, NEW a \in Addrs, Listen(o, n, a)
      PROVE  ObjInv'
  BY <1>1, CallsAssumption DEF Listen, Goto, mapVars, unloadVars, eventVars,
    CallInv, LocalType, PlaceInv, ObjInv, Unloads, MapInv, MapP!TypeOK
<1>2. ASSUME NEW o \in Calls, Swap(o)
      PROVE  ObjInv'
  BY <1>2, CallsAssumption DEF Swap, Goto, mapVars, listenVars, unloadVars,
    eventVars, CallInv, LocalType, PlaceInv, ObjInv, Unloads, MapInv,
    MapP!TypeOK
<1>3. ASSUME NEW o \in Calls, Bind(o)
      PROVE  ObjInv'
  BY <1>3, CallsAssumption DEF Bind, Goto, mapVars, unloadVars, eventVars,
    CallInv, LocalType, PlaceInv, ObjInv, Unloads, MapInv, MapP!TypeOK
<1>4. ASSUME NEW o \in Calls, SetCall(o)
      PROVE  ObjInv'
  BY <1>4, CallsAssumption DEF SetCall, Goto, Map!Set, Map!Go, Map!history,
    listenVars, unloadVars, eventVars, CallInv, LocalType, PlaceInv, ObjInv,
    Unloads, MapInv, MapP!TypeOK
<1>5. ASSUME NEW o \in Calls, NEW k \in Unloads, NEW ns \in SUBSET Names,
            k = "unload" => ns # {}, Unload(o, k, ns)
      PROVE  ObjInv'
  BY <1>5, CallsAssumption DEF Unload, Goto, mapVars, listenVars,
    unloadVars, eventVars, CallInv, LocalType, PlaceInv, ObjInv, Unloads,
    MapInv, MapP!TypeOK
<1>6. ASSUME NEW o \in Calls, EventsCall(o)
      PROVE  ObjInv'
  BY <1>6, CallsAssumption DEF EventsCall, Goto, Map!Events, Map!locals,
    Map!history, mapVars, listenVars, eventVars, CallInv, LocalType,
    PlaceInv, ObjInv, Unloads, MapInv, MapP!TypeOK
<1>7. ASSUME NEW o \in Calls, Install(o)
      PROVE  ObjInv'
  BY <1>7, CallsAssumption DEF Install, Goto, mapVars, listenVars,
    eventVars, CallInv, LocalType, PlaceInv, ObjInv, Unloads, MapInv,
    MapP!TypeOK
<1>8. ASSUME NEW o \in Calls, DeleteCall(o)
      PROVE  ObjInv'
  BY <1>8, CallsAssumption DEF DeleteCall, Goto, Map!Remove, Map!Go,
    Map!history, listenVars, eventVars, CallInv, LocalType, PlaceInv,
    ObjInv, Unloads, MapInv, MapP!TypeOK
<1>9. ASSUME NEW o \in Calls, CloseCall(o)
      PROVE  ObjInv'
  BY <1>9, CallsAssumption DEF CloseCall, Goto, Map!Close, Map!Go,
    Map!history, listenVars, eventVars, CallInv, LocalType, PlaceInv,
    ObjInv, Unloads, MapInv, MapP!TypeOK
<1>10. ASSUME NEW o \in Calls, LoadStep(o)
       PROVE  ObjInv'
  BY <1>10, CallsAssumption DEF LoadStep, Aside, Map!Load, Map!Go,
    Map!history, listenVars, eventVars, CallInv, LocalType, PlaceInv,
    ObjInv, Unloads, MapInv, MapP!TypeOK
<1>11. ASSUME NEW o \in Calls, StoreStep(o)
       PROVE  ObjInv'
  BY <1>11, CallsAssumption DEF StoreStep, Aside, Map!Store, Map!Go,
    Map!locals, listenVars, eventVars, CallInv, LocalType, PlaceInv, ObjInv,
    Unloads, MapInv, MapP!TypeOK
<1>12. ASSUME NEW o \in Calls, DropEventsStep(o)
       PROVE  ObjInv'
  BY <1>12, CallsAssumption DEF DropEventsStep, Aside, Map!DropEvents,
    Map!Go, Map!locals, Map!history, listenVars, eventVars, CallInv,
    LocalType, PlaceInv, ObjInv, Unloads, MapInv, MapP!TypeOK
<1>13. ASSUME NEW o \in Calls, DropMapStep(o)
       PROVE  ObjInv'
  BY <1>13, CallsAssumption DEF DropMapStep, Aside, Map!DropMap, Map!Go,
    Map!locals, listenVars, eventVars, CallInv, LocalType, PlaceInv, ObjInv,
    Unloads, MapInv, MapP!TypeOK
<1>14. ASSUME NEW o \in Calls, NEW n \in Names, VisitStep(o, n)
       PROVE  ObjInv'
  BY <1>14, CallsAssumption DEF VisitStep, Aside, Map!Visit, Map!Go,
    Map!history, listenVars, eventVars, CallInv, LocalType, PlaceInv,
    ObjInv, Unloads, MapInv, MapP!TypeOK
<1>15. ASSUME NEW o \in Calls, DeleteStep(o)
       PROVE  ObjInv'
  BY <1>15, CallsAssumption DEF DeleteStep, Aside, Map!DeleteKey, Map!Go,
    listenVars, eventVars, CallInv, LocalType, PlaceInv, ObjInv, Unloads,
    MapInv, MapP!TypeOK
<1>16. ASSUME NEW o \in Calls, Spawn(o)
       PROVE  ObjInv'
  BY <1>16, CallsAssumption DEF Spawn, Map!Report, Map!Go, listenVars,
    unloadVars, CallInv, LocalType, PlaceInv, ObjInv, Unloads, MapInv,
    MapP!TypeOK
<1>17. ASSUME NEW o \in Calls, EventStart(o)
       PROVE  ObjInv'
  BY <1>17, CallsAssumption DEF EventStart, mapVars, listenVars, unloadVars,
    CallInv, LocalType, PlaceInv, ObjInv, Unloads, MapInv, MapP!TypeOK
<1>18. ASSUME NEW o \in Calls, NEW l \in Calls, Shutdown(o, l)
       PROVE  ObjInv'
  BY <1>18, CallsAssumption DEF Shutdown, mapVars, unloadVars, CallInv,
    LocalType, PlaceInv, ObjInv, Unloads, MapInv, MapP!TypeOK
<1>19. ASSUME NEW o \in Calls, Cancel(o)
       PROVE  ObjInv'
  BY <1>19, CallsAssumption DEF Cancel, mapVars, listenVars, unloadVars,
    CallInv, LocalType, PlaceInv, ObjInv, Unloads, MapInv, MapP!TypeOK
<1>20. ASSUME NEW o \in Calls, Await(o)
       PROVE  ObjInv'
  BY <1>20, CallsAssumption DEF Await, Goto, mapVars, listenVars,
    unloadVars, eventVars, CallInv, LocalType, PlaceInv, ObjInv, Unloads,
    MapInv, MapP!TypeOK
<1>21. CASE UNCHANGED vars
  BY <1>21, CallsAssumption DEF vars, mapVars, listenVars, unloadVars,
    eventVars, CallInv, LocalType, PlaceInv, ObjInv, Unloads, MapInv,
    MapP!TypeOK
<1> QED
  BY NextCases,
     <1>1, <1>2, <1>3, <1>4, <1>5, <1>6, <1>7, <1>8, <1>9, <1>10, <1>11,
     <1>12, <1>13, <1>14, <1>15, <1>16, <1>17, <1>18, <1>19, <1>20, <1>21 DEF Case

(* Event goroutines are started by Unloads and run their callbacks. *)
LEMMA EventStep ==
  ASSUME MapInv, WantInv, CallInv, [Next]_vars
  PROVE  EventInv'
<1>1. ASSUME NEW o \in Calls, NEW n \in Names, NEW a \in Addrs, Listen(o, n, a)
      PROVE  EventInv'
  BY <1>1 DEF Listen, Goto, mapVars, unloadVars, eventVars, CallInv,
    LocalType, PlaceInv, EventInv, Unloads, MapInv, MapP!TypeOK
<1>2. ASSUME NEW o \in Calls, Swap(o)
      PROVE  EventInv'
  BY <1>2 DEF Swap, Goto, mapVars, listenVars, unloadVars, eventVars,
    CallInv, LocalType, PlaceInv, EventInv, Unloads, MapInv, MapP!TypeOK
<1>3. ASSUME NEW o \in Calls, Bind(o)
      PROVE  EventInv'
  BY <1>3 DEF Bind, Goto, mapVars, unloadVars, eventVars, CallInv,
    LocalType, PlaceInv, EventInv, Unloads, MapInv, MapP!TypeOK
<1>4. ASSUME NEW o \in Calls, SetCall(o)
      PROVE  EventInv'
  BY <1>4 DEF SetCall, Goto, Map!Set, Map!Go, Map!history, listenVars,
    unloadVars, eventVars, CallInv, LocalType, PlaceInv, EventInv, Unloads,
    MapInv, MapP!TypeOK
<1>5. ASSUME NEW o \in Calls, NEW k \in Unloads, NEW ns \in SUBSET Names,
            k = "unload" => ns # {}, Unload(o, k, ns)
      PROVE  EventInv'
  BY <1>5 DEF Unload, Goto, mapVars, listenVars, unloadVars, eventVars,
    CallInv, LocalType, PlaceInv, EventInv, Unloads, MapInv, MapP!TypeOK
<1>6. ASSUME NEW o \in Calls, EventsCall(o)
      PROVE  EventInv'
  BY <1>6 DEF EventsCall, Goto, Map!Events, Map!locals, Map!history,
    mapVars, listenVars, eventVars, CallInv, LocalType, PlaceInv, EventInv,
    Unloads, MapInv, MapP!TypeOK
<1>7. ASSUME NEW o \in Calls, Install(o)
      PROVE  EventInv'
  BY <1>7 DEF Install, Goto, mapVars, listenVars, eventVars, CallInv,
    LocalType, PlaceInv, EventInv, Unloads, MapInv, MapP!TypeOK
<1>8. ASSUME NEW o \in Calls, DeleteCall(o)
      PROVE  EventInv'
  BY <1>8 DEF DeleteCall, Goto, Map!Remove, Map!Go, Map!history, listenVars,
    eventVars, CallInv, LocalType, PlaceInv, EventInv, Unloads, MapInv,
    MapP!TypeOK
<1>9. ASSUME NEW o \in Calls, CloseCall(o)
      PROVE  EventInv'
  BY <1>9 DEF CloseCall, Goto, Map!Close, Map!Go, Map!history, listenVars,
    eventVars, CallInv, LocalType, PlaceInv, EventInv, Unloads, MapInv,
    MapP!TypeOK
<1>10. ASSUME NEW o \in Calls, LoadStep(o)
       PROVE  EventInv'
  BY <1>10 DEF LoadStep, Aside, Map!Load, Map!Go, Map!history, listenVars,
    eventVars, CallInv, LocalType, PlaceInv, EventInv, Unloads, MapInv,
    MapP!TypeOK
<1>11. ASSUME NEW o \in Calls, StoreStep(o)
       PROVE  EventInv'
  BY <1>11 DEF StoreStep, Aside, Map!Store, Map!Go, Map!locals, listenVars,
    eventVars, CallInv, LocalType, PlaceInv, EventInv, Unloads, MapInv,
    MapP!TypeOK
<1>12. ASSUME NEW o \in Calls, DropEventsStep(o)
       PROVE  EventInv'
  BY <1>12 DEF DropEventsStep, Aside, Map!DropEvents, Map!Go, Map!locals,
    Map!history, listenVars, eventVars, CallInv, LocalType, PlaceInv,
    EventInv, Unloads, MapInv, MapP!TypeOK
<1>13. ASSUME NEW o \in Calls, DropMapStep(o)
       PROVE  EventInv'
  BY <1>13 DEF DropMapStep, Aside, Map!DropMap, Map!Go, Map!locals,
    listenVars, eventVars, CallInv, LocalType, PlaceInv, EventInv, Unloads,
    MapInv, MapP!TypeOK
<1>14. ASSUME NEW o \in Calls, NEW n \in Names, VisitStep(o, n)
       PROVE  EventInv'
  BY <1>14 DEF VisitStep, Aside, Map!Visit, Map!Go, Map!history, listenVars,
    eventVars, CallInv, LocalType, PlaceInv, EventInv, Unloads, MapInv,
    MapP!TypeOK
<1>15. ASSUME NEW o \in Calls, DeleteStep(o)
       PROVE  EventInv'
  BY <1>15 DEF DeleteStep, Aside, Map!DeleteKey, Map!Go, listenVars,
    eventVars, CallInv, LocalType, PlaceInv, EventInv, Unloads, MapInv,
    MapP!TypeOK
<1>16. ASSUME NEW o \in Calls, Spawn(o)
       PROVE  EventInv'
  BY <1>16 DEF Spawn, Map!Report, Map!Go, listenVars, unloadVars, CallInv,
    LocalType, PlaceInv, EventInv, Unloads, MapInv, MapP!TypeOK, ObjInv
<1>17. ASSUME NEW o \in Calls, EventStart(o)
       PROVE  EventInv'
  BY <1>17 DEF EventStart, mapVars, listenVars, unloadVars, CallInv,
    LocalType, PlaceInv, EventInv, Unloads, MapInv, MapP!TypeOK, WantInv,
    Kinds
<1>18. ASSUME NEW o \in Calls, NEW l \in Calls, Shutdown(o, l)
       PROVE  EventInv'
  BY <1>18 DEF Shutdown, mapVars, unloadVars, CallInv, LocalType, PlaceInv,
    EventInv, Unloads, MapInv, MapP!TypeOK
<1>19. ASSUME NEW o \in Calls, Cancel(o)
       PROVE  EventInv'
  BY <1>19 DEF Cancel, mapVars, listenVars, unloadVars, CallInv, LocalType,
    PlaceInv, EventInv, Unloads, MapInv, MapP!TypeOK
<1>20. ASSUME NEW o \in Calls, Await(o)
       PROVE  EventInv'
  BY <1>20 DEF Await, Goto, mapVars, listenVars, unloadVars, eventVars,
    CallInv, LocalType, PlaceInv, EventInv, Unloads, MapInv, MapP!TypeOK
<1>21. CASE UNCHANGED vars
  BY <1>21 DEF vars, mapVars, listenVars, unloadVars, eventVars, CallInv,
    LocalType, PlaceInv, EventInv, Unloads, MapInv, MapP!TypeOK
<1> QED
  BY NextCases,
     <1>1, <1>2, <1>3, <1>4, <1>5, <1>6, <1>7, <1>8, <1>9, <1>10, <1>11,
     <1>12, <1>13, <1>14, <1>15, <1>16, <1>17, <1>18, <1>19, <1>20, <1>21 DEF Case

(* A call of Listen keeps its name, and its socket is bound while it is stored. *)
LEMMA ListenStep ==
  ASSUME MapInv, WantInv, CallInv, [Next]_vars
  PROVE  ListenInv'
<1>1. ASSUME NEW o \in Calls, NEW n \in Names, NEW a \in Addrs, Listen(o, n, a)
      PROVE  ListenInv'
  BY <1>1 DEF Listen, Goto, mapVars, unloadVars, eventVars, CallInv,
    LocalType, PlaceInv, ListenInv, WantInv, Kinds, Unloads, MapInv,
    MapP!TypeOK
<1>2. ASSUME NEW o \in Calls, Swap(o)
      PROVE  ListenInv'
  BY <1>2 DEF Swap, Goto, mapVars, listenVars, unloadVars, eventVars,
    CallInv, LocalType, PlaceInv, ListenInv, WantInv, Kinds, Unloads,
    MapInv, MapP!TypeOK
<1>3. ASSUME NEW o \in Calls, Bind(o)
      PROVE  ListenInv'
  BY <1>3 DEF Bind, Goto, mapVars, unloadVars, eventVars, CallInv,
    LocalType, PlaceInv, ListenInv, WantInv, Kinds, Unloads, MapInv,
    MapP!TypeOK
<1>4. ASSUME NEW o \in Calls, SetCall(o)
      PROVE  ListenInv'
  BY <1>4 DEF SetCall, Goto, Map!Set, Map!Go, Map!history, listenVars,
    unloadVars, eventVars, CallInv, LocalType, PlaceInv, ListenInv, WantInv,
    Kinds, Unloads, MapInv, MapP!TypeOK
<1>5. ASSUME NEW o \in Calls, NEW k \in Unloads, NEW ns \in SUBSET Names,
            k = "unload" => ns # {}, Unload(o, k, ns)
      PROVE  ListenInv'
  BY <1>5 DEF Unload, Goto, mapVars, listenVars, unloadVars, eventVars,
    CallInv, LocalType, PlaceInv, ListenInv, WantInv, Kinds, Unloads,
    MapInv, MapP!TypeOK
<1>6. ASSUME NEW o \in Calls, EventsCall(o)
      PROVE  ListenInv'
  BY <1>6 DEF EventsCall, Goto, Map!Events, Map!locals, Map!history,
    mapVars, listenVars, eventVars, CallInv, LocalType, PlaceInv, ListenInv,
    WantInv, Kinds, Unloads, MapInv, MapP!TypeOK
<1>7. ASSUME NEW o \in Calls, Install(o)
      PROVE  ListenInv'
  BY <1>7 DEF Install, Goto, mapVars, listenVars, eventVars, CallInv,
    LocalType, PlaceInv, ListenInv, WantInv, Kinds, Unloads, MapInv,
    MapP!TypeOK
<1>8. ASSUME NEW o \in Calls, DeleteCall(o)
      PROVE  ListenInv'
  BY <1>8 DEF DeleteCall, Goto, Map!Remove, Map!Go, Map!history, listenVars,
    eventVars, CallInv, LocalType, PlaceInv, ListenInv, WantInv, Kinds,
    Unloads, MapInv, MapP!TypeOK
<1>9. ASSUME NEW o \in Calls, CloseCall(o)
      PROVE  ListenInv'
  BY <1>9 DEF CloseCall, Goto, Map!Close, Map!Go, Map!history, listenVars,
    eventVars, CallInv, LocalType, PlaceInv, ListenInv, WantInv, Kinds,
    Unloads, MapInv, MapP!TypeOK
<1>10. ASSUME NEW o \in Calls, LoadStep(o)
       PROVE  ListenInv'
  BY <1>10 DEF LoadStep, Aside, Map!Load, Map!Go, Map!history, listenVars,
    eventVars, CallInv, LocalType, PlaceInv, ListenInv, WantInv, Kinds,
    Unloads, MapInv, MapP!TypeOK
<1>11. ASSUME NEW o \in Calls, StoreStep(o)
       PROVE  ListenInv'
  BY <1>11 DEF StoreStep, Aside, Map!Store, Map!Go, Map!locals, listenVars,
    eventVars, CallInv, LocalType, PlaceInv, ListenInv, WantInv, Kinds,
    Unloads, MapInv, MapP!TypeOK
<1>12. ASSUME NEW o \in Calls, DropEventsStep(o)
       PROVE  ListenInv'
  BY <1>12 DEF DropEventsStep, Aside, Map!DropEvents, Map!Go, Map!locals,
    Map!history, listenVars, eventVars, CallInv, LocalType, PlaceInv,
    ListenInv, WantInv, Kinds, Unloads, MapInv, MapP!TypeOK
<1>13. ASSUME NEW o \in Calls, DropMapStep(o)
       PROVE  ListenInv'
  BY <1>13 DEF DropMapStep, Aside, Map!DropMap, Map!Go, Map!locals,
    listenVars, eventVars, CallInv, LocalType, PlaceInv, ListenInv, WantInv,
    Kinds, Unloads, MapInv, MapP!TypeOK
<1>14. ASSUME NEW o \in Calls, NEW n \in Names, VisitStep(o, n)
       PROVE  ListenInv'
  BY <1>14 DEF VisitStep, Aside, Map!Visit, Map!Go, Map!history, listenVars,
    eventVars, CallInv, LocalType, PlaceInv, ListenInv, WantInv, Kinds,
    Unloads, MapInv, MapP!TypeOK
<1>15. ASSUME NEW o \in Calls, DeleteStep(o)
       PROVE  ListenInv'
  BY <1>15 DEF DeleteStep, Aside, Map!DeleteKey, Map!Go, listenVars,
    eventVars, CallInv, LocalType, PlaceInv, ListenInv, WantInv, Kinds,
    Unloads, MapInv, MapP!TypeOK
<1>16. ASSUME NEW o \in Calls, Spawn(o)
       PROVE  ListenInv'
  BY <1>16 DEF Spawn, Map!Report, Map!Go, listenVars, unloadVars, CallInv,
    LocalType, PlaceInv, ListenInv, WantInv, Kinds, Unloads, MapInv,
    MapP!TypeOK
<1>17. ASSUME NEW o \in Calls, EventStart(o)
       PROVE  ListenInv'
  BY <1>17 DEF EventStart, mapVars, listenVars, unloadVars, CallInv,
    LocalType, PlaceInv, ListenInv, WantInv, Kinds, Unloads, MapInv,
    MapP!TypeOK
<1>18. ASSUME NEW o \in Calls, NEW l \in Calls, Shutdown(o, l)
       PROVE  ListenInv'
  BY <1>18 DEF Shutdown, mapVars, unloadVars, CallInv, LocalType, PlaceInv,
    ListenInv, WantInv, Kinds, Unloads, MapInv, MapP!TypeOK, HoldInv
<1>19. ASSUME NEW o \in Calls, Cancel(o)
       PROVE  ListenInv'
  BY <1>19 DEF Cancel, mapVars, listenVars, unloadVars, CallInv, LocalType,
    PlaceInv, ListenInv, WantInv, Kinds, Unloads, MapInv, MapP!TypeOK
<1>20. ASSUME NEW o \in Calls, Await(o)
       PROVE  ListenInv'
  BY <1>20 DEF Await, Goto, mapVars, listenVars, unloadVars, eventVars,
    CallInv, LocalType, PlaceInv, ListenInv, WantInv, Kinds, Unloads,
    MapInv, MapP!TypeOK
<1>21. CASE UNCHANGED vars
  BY <1>21 DEF vars, mapVars, listenVars, unloadVars, eventVars, CallInv,
    LocalType, PlaceInv, ListenInv, WantInv, Kinds, Unloads, MapInv,
    MapP!TypeOK
<1> QED
  BY NextCases,
     <1>1, <1>2, <1>3, <1>4, <1>5, <1>6, <1>7, <1>8, <1>9, <1>10, <1>11,
     <1>12, <1>13, <1>14, <1>15, <1>16, <1>17, <1>18, <1>19, <1>20, <1>21 DEF Case

(* A listener is shut down only after it has left the map. *)
LEMMA HoldStep ==
  ASSUME MapInv, WantInv, CallInv, [Next]_vars
  PROVE  HoldInv'
<1>1. ASSUME NEW o \in Calls, NEW n \in Names, NEW a \in Addrs, Listen(o, n, a)
      PROVE  HoldInv'
  BY <1>1, CallsAssumption DEF Listen, Goto, mapVars, unloadVars, eventVars,
    CallInv, LocalType, PlaceInv, HoldInv, MapInv, MapP!TypeOK, MapP!KeyInv
<1>2. ASSUME NEW o \in Calls, Swap(o)
      PROVE  HoldInv'
  BY <1>2, CallsAssumption DEF Swap, Goto, mapVars, listenVars, unloadVars,
    eventVars, CallInv, LocalType, PlaceInv, HoldInv, MapInv, MapP!TypeOK,
    MapP!KeyInv
<1>3. ASSUME NEW o \in Calls, Bind(o)
      PROVE  HoldInv'
  BY <1>3, CallsAssumption DEF Bind, Goto, mapVars, unloadVars, eventVars,
    CallInv, LocalType, PlaceInv, HoldInv, MapInv, MapP!TypeOK, MapP!KeyInv,
    ListenInv
<1>4. ASSUME NEW o \in Calls, SetCall(o)
      PROVE  HoldInv'
  BY <1>4, CallsAssumption DEF SetCall, Goto, Map!Set, Map!Go, Map!history,
    listenVars, unloadVars, eventVars, CallInv, LocalType, PlaceInv,
    HoldInv, MapInv, MapP!TypeOK, MapP!KeyInv
<1>5. ASSUME NEW o \in Calls, NEW k \in Unloads, NEW ns \in SUBSET Names,
            k = "unload" => ns # {}, Unload(o, k, ns)
      PROVE  HoldInv'
  BY <1>5, CallsAssumption DEF Unload, Goto, mapVars, listenVars,
    unloadVars, eventVars, CallInv, LocalType, PlaceInv, HoldInv, MapInv,
    MapP!TypeOK, MapP!KeyInv
<1>6. ASSUME NEW o \in Calls, EventsCall(o)
      PROVE  HoldInv'
  BY <1>6, CallsAssumption DEF EventsCall, Goto, Map!Events, Map!locals,
    Map!history, mapVars, listenVars, eventVars, CallInv, LocalType,
    PlaceInv, HoldInv, MapInv, MapP!TypeOK, MapP!KeyInv
<1>7. ASSUME NEW o \in Calls, Install(o)
      PROVE  HoldInv'
  BY <1>7, CallsAssumption DEF Install, Goto, mapVars, listenVars,
    eventVars, CallInv, LocalType, PlaceInv, HoldInv, MapInv, MapP!TypeOK,
    MapP!KeyInv
<1>8. ASSUME NEW o \in Calls, DeleteCall(o)
      PROVE  HoldInv'
  BY <1>8, CallsAssumption DEF DeleteCall, Goto, Map!Remove, Map!Go,
    Map!history, listenVars, eventVars, CallInv, LocalType, PlaceInv,
    HoldInv, MapInv, MapP!TypeOK, MapP!KeyInv
<1>9. ASSUME NEW o \in Calls, CloseCall(o)
      PROVE  HoldInv'
  BY <1>9, CallsAssumption DEF CloseCall, Goto, Map!Close, Map!Go,
    Map!history, listenVars, eventVars, CallInv, LocalType, PlaceInv,
    HoldInv, MapInv, MapP!TypeOK, MapP!KeyInv
<1>10. ASSUME NEW o \in Calls, LoadStep(o)
       PROVE  HoldInv'
  BY <1>10, CallsAssumption DEF LoadStep, Aside, Map!Load, Map!Go,
    Map!history, listenVars, eventVars, CallInv, LocalType, PlaceInv,
    HoldInv, MapInv, MapP!TypeOK, MapP!KeyInv, ListenInv
<1>11. ASSUME NEW o \in Calls, StoreStep(o)
       PROVE  HoldInv'
  BY <1>11, CallsAssumption DEF StoreStep, Aside, Map!Store, Map!Go,
    Map!locals, listenVars, eventVars, CallInv, LocalType, PlaceInv,
    HoldInv, MapInv, MapP!TypeOK, MapP!KeyInv, ListenInv
<1>12. ASSUME NEW o \in Calls, DropEventsStep(o)
       PROVE  HoldInv'
  BY <1>12, CallsAssumption DEF DropEventsStep, Aside, Map!DropEvents,
    Map!Go, Map!locals, Map!history, listenVars, eventVars, CallInv,
    LocalType, PlaceInv, HoldInv, MapInv, MapP!TypeOK, MapP!KeyInv
<1>13. ASSUME NEW o \in Calls, DropMapStep(o)
       PROVE  HoldInv'
  BY <1>13, CallsAssumption DEF DropMapStep, Aside, Map!DropMap, Map!Go,
    Map!locals, listenVars, eventVars, CallInv, LocalType, PlaceInv,
    HoldInv, MapInv, MapP!TypeOK, MapP!KeyInv
<1>14. ASSUME NEW o \in Calls, NEW n \in Names, VisitStep(o, n)
       PROVE  HoldInv'
  BY <1>14, CallsAssumption DEF VisitStep, Aside, Map!Visit, Map!Go,
    Map!history, listenVars, eventVars, CallInv, LocalType, PlaceInv,
    HoldInv, MapInv, MapP!TypeOK, MapP!KeyInv
<1>15. ASSUME NEW o \in Calls, DeleteStep(o)
       PROVE  HoldInv'
  <2>1. /\ prv[o] \in stored /\ prv[o] \in Calls /\ name[prv[o]] = at[o]
        /\ pc[o] = "delete" /\ at[o] \in Names
        /\ store' = [store EXCEPT ![at[o]] = Nil]
        /\ UNCHANGED <<name, stored, ln, removed, evmap>>
    BY <1>15 DEF DeleteStep, Aside, listenVars, eventVars, Map!DeleteKey, MapInv,
      MapP!TypeOK, MapP!KeyInv
  <2>2. \A p \in Calls : tmp'[p] \subseteq tmp[p] \cup {prv[o]}
    <3>1. CASE evt[o]
      BY <1>15, <3>1 DEF DeleteStep, Map!DeleteKey, MapInv, MapP!TypeOK
    <3>2. CASE ~evt[o]
      BY <1>15, <3>2 DEF DeleteStep, Map!DeleteKey
    <3> QED
      BY <3>1, <3>2
  <2>3. \A l \in stored : pc'[l] = "done"
    BY <1>15, <2>1 DEF DeleteStep, Map!DeleteKey, Map!Go, CallInv, HoldInv, MapInv,
      MapP!TypeOK
  <2>4. \A n \in Names : store'[n] # Nil => store'[n] = store[n]
    BY <2>1 DEF MapInv, MapP!TypeOK
  <2>5. \A l \in stored : store[name[l]] # l \/ l = prv[o] => store'[name[l]] # l
    BY <2>1, CallsAssumption DEF MapInv, MapP!TypeOK
  <2>6. \A p \in Calls : \A l \in tmp'[p] \cup removed'[p] :
          l \in stored /\ (store[name[l]] # l \/ l = prv[o])
    BY <2>1, <2>2 DEF CallInv, HoldInv
  <2>7. \A p \in Calls : \A l \in tmp'[p] \cup removed'[p] :
          l \in stored' /\ store'[name'[l]] # l
    BY <2>1, <2>5, <2>6
  <2> QED
    BY <2>1, <2>3, <2>4, <2>7 DEF CallInv, HoldInv
<1>16. ASSUME NEW o \in Calls, Spawn(o)
       PROVE  HoldInv'
  <2>1. /\ tmp[o] \in SUBSET Calls
        /\ tmp' = [tmp EXCEPT ![o] = {}]
        /\ UNCHANGED <<store, name, stored, ln>>
    BY <1>16 DEF Spawn, Map!Report, listenVars, MapInv, MapP!TypeOK
  <2>2. \A l \in stored : pc'[l] = "done"
    BY <1>16 DEF Spawn, Map!Report, Map!Go, CallInv, HoldInv, MapInv, MapP!TypeOK
  <2>3. CASE tmp[o] = {}
    BY <1>16, <2>1, <2>2, <2>3 DEF Spawn, CallInv, HoldInv, MapInv, MapP!TypeOK
  <2>4. CASE tmp[o] # {}
    <3>1. /\ evmap' = [evmap EXCEPT ![o] = tmp[o]]
          /\ removed' = [removed EXCEPT ![o] = tmp[o]]
      BY <1>16, <2>4 DEF Spawn
    <3> QED
      BY <2>1, <2>2, <3>1 DEF CallInv, LocalType, HoldInv, MapInv, MapP!TypeOK
  <2> QED
    BY <2>3, <2>4
<1>17. ASSUME NEW o \in Calls, EventStart(o)
       PROVE  HoldInv'
  BY <1>17, CallsAssumption DEF EventStart, mapVars, listenVars, unloadVars,
    CallInv, LocalType, PlaceInv, HoldInv, MapInv, MapP!TypeOK, MapP!KeyInv
<1>18. ASSUME NEW o \in Calls, NEW l \in Calls, Shutdown(o, l)
       PROVE  HoldInv'
  BY <1>18, CallsAssumption DEF Shutdown, mapVars, unloadVars, CallInv,
    LocalType, PlaceInv, HoldInv, MapInv, MapP!TypeOK, MapP!KeyInv
<1>19. ASSUME NEW o \in Calls, Cancel(o)
       PROVE  HoldInv'
  BY <1>19, CallsAssumption DEF Cancel, mapVars, listenVars, unloadVars,
    CallInv, LocalType, PlaceInv, HoldInv, MapInv, MapP!TypeOK, MapP!KeyInv
<1>20. ASSUME NEW o \in Calls, Await(o)
       PROVE  HoldInv'
  BY <1>20, CallsAssumption DEF Await, Goto, mapVars, listenVars,
    unloadVars, eventVars, CallInv, LocalType, PlaceInv, HoldInv, MapInv,
    MapP!TypeOK, MapP!KeyInv
<1>21. CASE UNCHANGED vars
  BY <1>21, CallsAssumption DEF vars, mapVars, listenVars, unloadVars,
    eventVars, CallInv, LocalType, PlaceInv, HoldInv, MapInv, MapP!TypeOK,
    MapP!KeyInv
<1> QED
  BY NextCases,
     <1>1, <1>2, <1>3, <1>4, <1>5, <1>6, <1>7, <1>8, <1>9, <1>10, <1>11,
     <1>12, <1>13, <1>14, <1>15, <1>16, <1>17, <1>18, <1>19, <1>20, <1>21 DEF Case

(* The invariants together are kept by every step. *)
LEMMA CallAlways == Spec => []CallInv
<1>1. ASSUME Init
      PROVE  CallInv
  <2>1. LocalType
    BY <1>1 DEF Init, LocalType, Unloads
  <2>2. PlaceInv /\ ObjInv /\ EventInv /\ ListenInv /\ HoldInv
    BY <1>1, CallsAssumption DEF Init, Map!Init, PlaceInv, ObjInv, EventInv,
      ListenInv, HoldInv
  <2> QED
    BY <2>1, <2>2 DEF CallInv
<1>2. MapInv /\ WantInv /\ CallInv /\ [Next]_vars => CallInv'
  BY LocalTypeStep, PlaceStep, ObjStep, EventStep, ListenStep, HoldStep
    DEF CallInv
<1> QED
  BY <1>1, <1>2, MapAlways, WantAlways, PTL DEF Spec

(* The history variables keep their types. *)
LEMMA HistoryAlways == Spec => []HistoryType
<1>1. Init => HistoryType
  BY DEF Init, HistoryType
<1>2. HistoryType /\ [Next]_vars => HistoryType'
  <2>1. CASE Record
    BY <2>1 DEF Record, NewlyContended, HistoryType
  <2>2. CASE UNCHANGED vars
    BY <2>2 DEF vars, HistoryType
  <2> QED
    BY <2>1, <2>2 DEF Next
<1> QED
  BY <1>1, <1>2, PTL DEF Spec

(* The types of the model, the map included. *)
THEOREM TypeTheorem == Spec => []TypeOK
<1>1. MapP!TypeOK => Map!TypeOK
  BY DEF MapP!TypeOK, Map!TypeOK
<1>2. MapInv /\ WantInv /\ CallInv /\ HistoryType => TypeOK
  BY <1>1 DEF MapInv, WantInv, CallInv, LocalType, HistoryType, TypeOK
<1> QED
  BY <1>2, MapAlways, WantAlways, CallAlways, HistoryAlways, PTL

(* Whatever calls of Listen and Unload overlap, the socket of a listener   *)
(* in the map is open: the event goroutine of Unload shuts a listener down *)
(* only after its name was deleted, and no call stores it again.           *)
THEOREM LiveTheorem == Spec => []MapHoldsLiveListeners
<1>1. CallInv => MapHoldsLiveListeners
  BY DEF CallInv, HoldInv, MapHoldsLiveListeners
<1> QED
  BY <1>1, CallAlways, PTL

(* One Unload at a time is between its callback and its event. *)
Alone == \A o, p \in Calls : Handshake(o) /\ Handshake(p) => o = p

(* The callback goes into the events object that Delete and Close fetch,   *)
(* unless the map is closed; a Close between its two fields has let go of  *)
(* the object and not yet of the map.                                      *)
InstallInv ==
  \A o \in Calls :
    /\ lpc[o] = "install" => \/ mine[o] = obj \/ ~imp.orgsncmp
                             \/ \E q \in Calls : pc[q] = "dropmap"
    /\ lpc[o] = "call" => /\ cb[kind[o]][mine[o]] = o
                          /\ mine[o] = obj \/ ~imp.orgsncmp

(* A Delete or Close that has, or may still get, something to report. *)
Busy(o) ==
  /\ pc[o] \in {"range", "delete", "dropevents", "dropmap"}
  /\ kind[o] \in Unloads
  /\ todo[o] # {} \/ tmp[o] # {} \/ pc[o] = "delete"

(* Its event goroutine will find the callback of its own Unload. *)
CallbackInv ==
  \A o \in Calls :
    Busy(o) \/ ev[o] = "spawned" => cb[kind[o]][used[o]] = o

(* The goroutine has run that callback, and the context of an Unload is    *)
(* cancelled when its own listeners are shut down.                         *)
AnswerInv ==
  \A o \in Calls :
    /\ ev[o] \in {"running", "finished"} => evcb[o] = o
    /\ o \in cancelled => ev[o] = "finished" /\ evmap[o] = {}

WaitInv == ~crossed /\ ~doubled => Alone /\ InstallInv /\ CallbackInv /\ AnswerInv

(* Unload has returned because its context is cancelled. *)
DoneInv ==
  \A o \in Calls : lpc[o] = "done" /\ kind[o] \in Unloads => o \in cancelled

(* Only Await ends an Unload. *)
LEMMA DoneStep ==
  ASSUME MapInv, WantInv, CallInv, DoneInv, [Next]_vars
  PROVE  DoneInv'
<1>1. ASSUME NEW o \in Calls, NEW n \in Names, NEW a \in Addrs, Listen(o, n, a)
      PROVE  DoneInv'
  BY <1>1 DEF Listen, Goto, mapVars, unloadVars, eventVars, CallInv,
    LocalType, PlaceInv, WantInv, Unloads, DoneInv
<1>2. ASSUME NEW o \in Calls, Swap(o)
      PROVE  DoneInv'
  BY <1>2 DEF Swap, Goto, mapVars, listenVars, unloadVars, eventVars,
    CallInv, LocalType, PlaceInv, WantInv, Unloads, DoneInv
<1>3. ASSUME NEW o \in Calls, Bind(o)
      PROVE  DoneInv'
  BY <1>3 DEF Bind, Goto, mapVars, unloadVars, eventVars, CallInv,
    LocalType, PlaceInv, WantInv, Unloads, DoneInv
<1>4. ASSUME NEW o \in Calls, SetCall(o)
      PROVE  DoneInv'
  BY <1>4 DEF SetCall, Goto, Map!Set, Map!Go, Map!history, listenVars,
    unloadVars, eventVars, CallInv, LocalType, PlaceInv, WantInv, Unloads,
    DoneInv
<1>5. ASSUME NEW o \in Calls, NEW k \in Unloads, NEW ns \in SUBSET Names,
            k = "unload" => ns # {}, Unload(o, k, ns)
      PROVE  DoneInv'
  BY <1>5 DEF Unload, Goto, mapVars, listenVars, unloadVars, eventVars,
    CallInv, LocalType, PlaceInv, WantInv, Unloads, DoneInv
<1>6. ASSUME NEW o \in Calls, EventsCall(o)
      PROVE  DoneInv'
  BY <1>6 DEF EventsCall, Goto, Map!Events, Map!locals, Map!history,
    mapVars, listenVars, eventVars, CallInv, LocalType, PlaceInv, WantInv,
    Unloads, DoneInv
<1>7. ASSUME NEW o \in Calls, Install(o)
      PROVE  DoneInv'
  BY <1>7 DEF Install, Goto, mapVars, listenVars, eventVars, CallInv,
    LocalType, PlaceInv, WantInv, Unloads, DoneInv
<1>8. ASSUME NEW o \in Calls, DeleteCall(o)
      PROVE  DoneInv'
  BY <1>8 DEF DeleteCall, Goto, Map!Remove, Map!Go, Map!history, listenVars,
    eventVars, CallInv, LocalType, PlaceInv, WantInv, Unloads, DoneInv
<1>9. ASSUME NEW o \in Calls, CloseCall(o)
      PROVE  DoneInv'
  BY <1>9 DEF CloseCall, Goto, Map!Close, Map!Go, Map!history, listenVars,
    eventVars, CallInv, LocalType, PlaceInv, WantInv, Unloads, DoneInv
<1>10. ASSUME NEW o \in Calls, LoadStep(o)
       PROVE  DoneInv'
  BY <1>10 DEF LoadStep, Aside, Map!Load, Map!Go, Map!history, listenVars,
    eventVars, CallInv, LocalType, PlaceInv, WantInv, Unloads, DoneInv
<1>11. ASSUME NEW o \in Calls, StoreStep(o)
       PROVE  DoneInv'
  BY <1>11 DEF StoreStep, Aside, Map!Store, Map!Go, Map!locals, listenVars,
    eventVars, CallInv, LocalType, PlaceInv, WantInv, Unloads, DoneInv
<1>12. ASSUME NEW o \in Calls, DropEventsStep(o)
       PROVE  DoneInv'
  BY <1>12 DEF DropEventsStep, Aside, Map!DropEvents, Map!Go, Map!locals,
    Map!history, listenVars, eventVars, CallInv, LocalType, PlaceInv,
    WantInv, Unloads, DoneInv
<1>13. ASSUME NEW o \in Calls, DropMapStep(o)
       PROVE  DoneInv'
  BY <1>13 DEF DropMapStep, Aside, Map!DropMap, Map!Go, Map!locals,
    listenVars, eventVars, CallInv, LocalType, PlaceInv, WantInv, Unloads,
    DoneInv
<1>14. ASSUME NEW o \in Calls, NEW n \in Names, VisitStep(o, n)
       PROVE  DoneInv'
  BY <1>14 DEF VisitStep, Aside, Map!Visit, Map!Go, Map!history, listenVars,
    eventVars, CallInv, LocalType, PlaceInv, WantInv, Unloads, DoneInv
<1>15. ASSUME NEW o \in Calls, DeleteStep(o)
       PROVE  DoneInv'
  BY <1>15 DEF DeleteStep, Aside, Map!DeleteKey, Map!Go, listenVars,
    eventVars, CallInv, LocalType, PlaceInv, WantInv, Unloads, DoneInv
<1>16. ASSUME NEW o \in Calls, Spawn(o)
       PROVE  DoneInv'
  BY <1>16 DEF Spawn, Map!Report, Map!Go, listenVars, unloadVars, CallInv,
    LocalType, PlaceInv, WantInv, Unloads, DoneInv
<1>17. ASSUME NEW o \in Calls, EventStart(o)
       PROVE  DoneInv'
  BY <1>17 DEF EventStart, mapVars, listenVars, unloadVars, CallInv,
    LocalType, PlaceInv, WantInv, Unloads, DoneInv
<1>18. ASSUME NEW o \in Calls, NEW l \in Calls, Shutdown(o, l)
       PROVE  DoneInv'
  BY <1>18 DEF Shutdown, mapVars, unloadVars, CallInv, LocalType, PlaceInv,
    WantInv, Unloads, DoneInv
<1>19. ASSUME NEW o \in Calls, Cancel(o)
       PROVE  DoneInv'
  BY <1>19 DEF Cancel, mapVars, listenVars, unloadVars, CallInv, LocalType,
    PlaceInv, WantInv, Unloads, DoneInv
<1>20. ASSUME NEW o \in Calls, Await(o)
       PROVE  DoneInv'
  BY <1>20 DEF Await, Goto, mapVars, listenVars, unloadVars, eventVars,
    CallInv, LocalType, PlaceInv, WantInv, Unloads, DoneInv
<1>21. CASE UNCHANGED vars
  BY <1>21 DEF vars, mapVars, listenVars, unloadVars, eventVars, CallInv,
    LocalType, PlaceInv, WantInv, Unloads, DoneInv
<1> QED
  BY NextCases,
     <1>1, <1>2, <1>3, <1>4, <1>5, <1>6, <1>7, <1>8, <1>9, <1>10, <1>11,
     <1>12, <1>13, <1>14, <1>15, <1>16, <1>17, <1>18, <1>19, <1>20, <1>21 DEF Case

(* A callback is installed in the object that is fetched next. *)
LEMMA InstallStep ==
  ASSUME MapInv, WantInv, CallInv, Alone', ~doubled', InstallInv,
    [Next]_vars
  PROVE  InstallInv'
<1>1. ASSUME NEW o \in Calls, NEW n \in Names, NEW a \in Addrs, Listen(o, n, a)
      PROVE  InstallInv'
  BY <1>1, CallsAssumption DEF Listen, Goto, mapVars, unloadVars, eventVars,
    CallInv, LocalType, PlaceInv, WantInv, ObjInv, Unloads, MapInv,
    MapP!TypeOK, InstallInv
<1>2. ASSUME NEW o \in Calls, Swap(o)
      PROVE  InstallInv'
  BY <1>2, CallsAssumption DEF Swap, Goto, mapVars, listenVars, unloadVars,
    eventVars, CallInv, LocalType, PlaceInv, WantInv, ObjInv, Unloads,
    MapInv, MapP!TypeOK, InstallInv
<1>3. ASSUME NEW o \in Calls, Bind(o)
      PROVE  InstallInv'
  BY <1>3, CallsAssumption DEF Bind, Goto, mapVars, unloadVars, eventVars,
    CallInv, LocalType, PlaceInv, WantInv, ObjInv, Unloads, MapInv,
    MapP!TypeOK, InstallInv
<1>4. ASSUME NEW o \in Calls, SetCall(o)
      PROVE  InstallInv'
  BY <1>4, CallsAssumption DEF SetCall, Goto, Map!Set, Map!Go, Map!history,
    listenVars, unloadVars, eventVars, CallInv, LocalType, PlaceInv,
    WantInv, ObjInv, Unloads, MapInv, MapP!TypeOK, InstallInv
<1>5. ASSUME NEW o \in Calls, NEW k \in Unloads, NEW ns \in SUBSET Names,
            k = "unload" => ns # {}, Unload(o, k, ns)
      PROVE  InstallInv'
  BY <1>5, CallsAssumption DEF Unload, Goto, mapVars, listenVars,
    unloadVars, eventVars, CallInv, LocalType, PlaceInv, WantInv, ObjInv,
    Unloads, MapInv, MapP!TypeOK, InstallInv
<1>6. ASSUME NEW o \in Calls, EventsCall(o)
      PROVE  InstallInv'
  BY <1>6, CallsAssumption DEF EventsCall, Goto, Map!Events, Map!locals,
    Map!history, mapVars, listenVars, eventVars, CallInv, LocalType,
    PlaceInv, WantInv, ObjInv, Unloads, MapInv, MapP!TypeOK, InstallInv
<1>7. ASSUME NEW o \in Calls, Install(o)
      PROVE  InstallInv'
  <2>1. /\ lpc[o] = "install" /\ lpc' = [lpc EXCEPT ![o] = "call"]
        /\ kind[o] \in Unloads /\ mine[o] \in Calls /\ pc[o] = "ready"
        /\ UNCHANGED <<imp, pc, kind, obj, mine, ev>>
    BY <1>7 DEF Install, Goto, mapVars, eventVars, CallInv, PlaceInv, ObjInv
  <2>2. cb'[kind[o]][mine[o]] = o
    BY <1>7, <2>1 DEF Install, CallInv, LocalType
  <2>3. Handshake(o)'
    BY <2>1 DEF Handshake, CallInv, LocalType
  <2>4. \A p \in Calls : lpc'[p] = "call" => p = o
    BY <2>1, <2>3 DEF Handshake, Alone, CallInv, LocalType, PlaceInv
  <2>5. \A q \in Calls : pc[q] # "dropmap"
    BY <2>1, <2>3 DEF Handshake, Alone, CallInv, LocalType, PlaceInv, Unloads
  <2>6. mine[o] = obj \/ ~imp.orgsncmp
    BY <2>1, <2>5 DEF InstallInv
  <2> QED
    BY <2>1, <2>2, <2>4, <2>6 DEF InstallInv, CallInv, LocalType
<1>8. ASSUME NEW o \in Calls, DeleteCall(o)
      PROVE  InstallInv'
  BY <1>8, CallsAssumption DEF DeleteCall, Goto, Map!Remove, Map!Go,
    Map!history, listenVars, eventVars, CallInv, LocalType, PlaceInv,
    WantInv, ObjInv, Unloads, MapInv, MapP!TypeOK, InstallInv
<1>9. ASSUME NEW o \in Calls, CloseCall(o)
      PROVE  InstallInv'
  BY <1>9, CallsAssumption DEF CloseCall, Goto, Map!Close, Map!Go,
    Map!history, listenVars, eventVars, CallInv, LocalType, PlaceInv,
    WantInv, ObjInv, Unloads, MapInv, MapP!TypeOK, InstallInv
<1>10. ASSUME NEW o \in Calls, LoadStep(o)
       PROVE  InstallInv'
  BY <1>10, CallsAssumption DEF LoadStep, Aside, Map!Load, Map!Go,
    Map!history, listenVars, eventVars, CallInv, LocalType, PlaceInv,
    WantInv, ObjInv, Unloads, MapInv, MapP!TypeOK, InstallInv
<1>11. ASSUME NEW o \in Calls, StoreStep(o)
       PROVE  InstallInv'
  BY <1>11, CallsAssumption DEF StoreStep, Aside, Map!Store, Map!Go,
    Map!locals, listenVars, eventVars, CallInv, LocalType, PlaceInv,
    WantInv, ObjInv, Unloads, MapInv, MapP!TypeOK, InstallInv
<1>12. ASSUME NEW o \in Calls, DropEventsStep(o)
       PROVE  InstallInv'
  BY <1>12, CallsAssumption DEF DropEventsStep, Aside, Map!DropEvents,
    Map!Go, Map!locals, Map!history, listenVars, eventVars, CallInv,
    LocalType, PlaceInv, WantInv, ObjInv, Unloads, MapInv, MapP!TypeOK,
    InstallInv, Alone, Handshake
<1>13. ASSUME NEW o \in Calls, DropMapStep(o)
       PROVE  InstallInv'
  BY <1>13, CallsAssumption DEF DropMapStep, Aside, Map!DropMap, Map!Go,
    Map!locals, listenVars, eventVars, CallInv, LocalType, PlaceInv,
    WantInv, ObjInv, Unloads, MapInv, MapP!TypeOK, InstallInv
<1>14. ASSUME NEW o \in Calls, NEW n \in Names, VisitStep(o, n)
       PROVE  InstallInv'
  BY <1>14, CallsAssumption DEF VisitStep, Aside, Map!Visit, Map!Go,
    Map!history, listenVars, eventVars, CallInv, LocalType, PlaceInv,
    WantInv, ObjInv, Unloads, MapInv, MapP!TypeOK, InstallInv
<1>15. ASSUME NEW o \in Calls, DeleteStep(o)
       PROVE  InstallInv'
  BY <1>15, CallsAssumption DEF DeleteStep, Aside, Map!DeleteKey, Map!Go,
    listenVars, eventVars, CallInv, LocalType, PlaceInv, WantInv, ObjInv,
    Unloads, MapInv, MapP!TypeOK, InstallInv
<1>16. ASSUME NEW o \in Calls, Spawn(o)
       PROVE  InstallInv'
  BY <1>16, CallsAssumption DEF Spawn, Map!Report, Map!Go, listenVars,
    unloadVars, CallInv, LocalType, PlaceInv, WantInv, ObjInv, Unloads,
    MapInv, MapP!TypeOK, InstallInv
<1>17. ASSUME NEW o \in Calls, EventStart(o)
       PROVE  InstallInv'
  BY <1>17, CallsAssumption DEF EventStart, mapVars, listenVars, unloadVars,
    CallInv, LocalType, PlaceInv, WantInv, ObjInv, Unloads, MapInv,
    MapP!TypeOK, InstallInv
<1>18. ASSUME NEW o \in Calls, NEW l \in Calls, Shutdown(o, l)
       PROVE  InstallInv'
  BY <1>18, CallsAssumption DEF Shutdown, mapVars, unloadVars, CallInv,
    LocalType, PlaceInv, WantInv, ObjInv, Unloads, MapInv, MapP!TypeOK,
    InstallInv
<1>19. ASSUME NEW o \in Calls, Cancel(o)
       PROVE  InstallInv'
  BY <1>19, CallsAssumption DEF Cancel, mapVars, listenVars, unloadVars,
    CallInv, LocalType, PlaceInv, WantInv, ObjInv, Unloads, MapInv,
    MapP!TypeOK, InstallInv
<1>20. ASSUME NEW o \in Calls, Await(o)
       PROVE  InstallInv'
  BY <1>20, CallsAssumption DEF Await, Goto, mapVars, listenVars,
    unloadVars, eventVars, CallInv, LocalType, PlaceInv, WantInv, ObjInv,
    Unloads, MapInv, MapP!TypeOK, InstallInv
<1>21. CASE UNCHANGED vars
  BY <1>21, CallsAssumption DEF vars, mapVars, listenVars, unloadVars,
    eventVars, CallInv, LocalType, PlaceInv, WantInv, ObjInv, Unloads,
    MapInv, MapP!TypeOK, InstallInv
<1> QED
  BY NextCases,
     <1>1, <1>2, <1>3, <1>4, <1>5, <1>6, <1>7, <1>8, <1>9, <1>10, <1>11,
     <1>12, <1>13, <1>14, <1>15, <1>16, <1>17, <1>18, <1>19, <1>20, <1>21 DEF Case

(* The callback is still there when the event is raised. *)
LEMMA CallbackStep ==
  ASSUME MapInv, WantInv, CallInv, Alone', InstallInv, CallbackInv,
    [Next]_vars
  PROVE  CallbackInv'
<1>1. ASSUME NEW o \in Calls, NEW n \in Names, NEW a \in Addrs, Listen(o, n, a)
      PROVE  CallbackInv'
  BY <1>1, CallsAssumption DEF Listen, Goto, mapVars, unloadVars, eventVars,
    CallInv, LocalType, PlaceInv, WantInv, ObjInv, EventInv, Unloads,
    MapInv, MapP!TypeOK, CallbackInv, Busy
<1>2. ASSUME NEW o \in Calls, Swap(o)
      PROVE  CallbackInv'
  BY <1>2, CallsAssumption DEF Swap, Goto, mapVars, listenVars, unloadVars,
    eventVars, CallInv, LocalType, PlaceInv, WantInv, ObjInv, EventInv,
    Unloads, MapInv, MapP!TypeOK, CallbackInv, Busy
<1>3. ASSUME NEW o \in Calls, Bind(o)
      PROVE  CallbackInv'
  BY <1>3, CallsAssumption DEF Bind, Goto, mapVars, unloadVars, eventVars,
    CallInv, LocalType, PlaceInv, WantInv, ObjInv, EventInv, Unloads,
    MapInv, MapP!TypeOK, CallbackInv, Busy
<1>4. ASSUME NEW o \in Calls, SetCall(o)
      PROVE  CallbackInv'
  BY <1>4, CallsAssumption DEF SetCall, Goto, Map!Set, Map!Go, Map!history,
    listenVars, unloadVars, eventVars, CallInv, LocalType, PlaceInv,
    WantInv, ObjInv, EventInv, Unloads, MapInv, MapP!TypeOK, CallbackInv,
    Busy
<1>5. ASSUME NEW o \in Calls, NEW k \in Unloads, NEW ns \in SUBSET Names,
            k = "unload" => ns # {}, Unload(o, k, ns)
      PROVE  CallbackInv'
  BY <1>5, CallsAssumption DEF Unload, Goto, mapVars, listenVars,
    unloadVars, eventVars, CallInv, LocalType, PlaceInv, WantInv, ObjInv,
    EventInv, Unloads, MapInv, MapP!TypeOK, CallbackInv, Busy
<1>6. ASSUME NEW o \in Calls, EventsCall(o)
      PROVE  CallbackInv'
  BY <1>6, CallsAssumption DEF EventsCall, Goto, Map!Events, Map!locals,
    Map!history, mapVars, listenVars, eventVars, CallInv, LocalType,
    PlaceInv, WantInv, ObjInv, EventInv, Unloads, MapInv, MapP!TypeOK,
    CallbackInv, Busy
<1>7. ASSUME NEW o \in Calls, Install(o)
      PROVE  CallbackInv'
  BY <1>7, CallsAssumption DEF Install, Goto, mapVars, listenVars,
    eventVars, CallInv, LocalType, PlaceInv, WantInv, ObjInv, EventInv,
    Unloads, MapInv, MapP!TypeOK, CallbackInv, Busy, Alone, Handshake
<1>8. ASSUME NEW o \in Calls, DeleteCall(o)
      PROVE  CallbackInv'
  BY <1>8, CallsAssumption DEF DeleteCall, Goto, Map!Remove, Map!Go,
    Map!history, listenVars, eventVars, CallInv, LocalType, PlaceInv,
    WantInv, ObjInv, EventInv, Unloads, MapInv, MapP!TypeOK, CallbackInv,
    Busy, InstallInv
<1>9. ASSUME NEW o \in Calls, CloseCall(o)
      PROVE  CallbackInv'
  BY <1>9, CallsAssumption DEF CloseCall, Goto, Map!Close, Map!Go,
    Map!history, listenVars, eventVars, CallInv, LocalType, PlaceInv,
    WantInv, ObjInv, EventInv, Unloads, MapInv, MapP!TypeOK, CallbackInv,
    Busy, InstallInv
<1>10. ASSUME NEW o \in Calls, LoadStep(o)
       PROVE  CallbackInv'
  BY <1>10, CallsAssumption DEF LoadStep, Aside, Map!Load, Map!Go,
    Map!history, listenVars, eventVars, CallInv, LocalType, PlaceInv,
    WantInv, ObjInv, EventInv, Unloads, MapInv, MapP!TypeOK, CallbackInv,
    Busy
<1>11. ASSUME NEW o \in Calls, StoreStep(o)
       PROVE  CallbackInv'
  BY <1>11, CallsAssumption DEF StoreStep, Aside, Map!Store, Map!Go,
    Map!locals, listenVars, eventVars, CallInv, LocalType, PlaceInv,
    WantInv, ObjInv, EventInv, Unloads, MapInv, MapP!TypeOK, CallbackInv,
    Busy
<1>12. ASSUME NEW o \in Calls, DropEventsStep(o)
       PROVE  CallbackInv'
  BY <1>12, CallsAssumption DEF DropEventsStep, Aside, Map!DropEvents,
    Map!Go, Map!locals, Map!history, listenVars, eventVars, CallInv,
    LocalType, PlaceInv, WantInv, ObjInv, EventInv, Unloads, MapInv,
    MapP!TypeOK, CallbackInv, Busy
<1>13. ASSUME NEW o \in Calls, DropMapStep(o)
       PROVE  CallbackInv'
  BY <1>13, CallsAssumption DEF DropMapStep, Aside, Map!DropMap, Map!Go,
    Map!locals, listenVars, eventVars, CallInv, LocalType, PlaceInv,
    WantInv, ObjInv, EventInv, Unloads, MapInv, MapP!TypeOK, CallbackInv,
    Busy
<1>14. ASSUME NEW o \in Calls, NEW n \in Names, VisitStep(o, n)
       PROVE  CallbackInv'
  BY <1>14, CallsAssumption DEF VisitStep, Aside, Map!Visit, Map!Go,
    Map!history, listenVars, eventVars, CallInv, LocalType, PlaceInv,
    WantInv, ObjInv, EventInv, Unloads, MapInv, MapP!TypeOK, CallbackInv,
    Busy
<1>15. ASSUME NEW o \in Calls, DeleteStep(o)
       PROVE  CallbackInv'
  BY <1>15, CallsAssumption DEF DeleteStep, Aside, Map!DeleteKey, Map!Go,
    listenVars, eventVars, CallInv, LocalType, PlaceInv, WantInv, ObjInv,
    EventInv, Unloads, MapInv, MapP!TypeOK, CallbackInv, Busy
<1>16. ASSUME NEW o \in Calls, Spawn(o)
       PROVE  CallbackInv'
  BY <1>16, CallsAssumption DEF Spawn, Map!Report, Map!Go, listenVars,
    unloadVars, CallInv, LocalType, PlaceInv, WantInv, ObjInv, EventInv,
    Unloads, MapInv, MapP!TypeOK, CallbackInv, Busy
<1>17. ASSUME NEW o \in Calls, EventStart(o)
       PROVE  CallbackInv'
  BY <1>17, CallsAssumption DEF EventStart, mapVars, listenVars, unloadVars,
    CallInv, LocalType, PlaceInv, WantInv, ObjInv, EventInv, Unloads,
    MapInv, MapP!TypeOK, CallbackInv, Busy
<1>18. ASSUME NEW o \in Calls, NEW l \in Calls, Shutdown(o, l)
       PROVE  CallbackInv'
  BY <1>18, CallsAssumption DEF Shutdown, mapVars, unloadVars, CallInv,
    LocalType, PlaceInv, WantInv, ObjInv, EventInv, Unloads, MapInv,
    MapP!TypeOK, CallbackInv, Busy
<1>19. ASSUME NEW o \in Calls, Cancel(o)
       PROVE  CallbackInv'
  BY <1>19, CallsAssumption DEF Cancel, mapVars, listenVars, unloadVars,
    CallInv, LocalType, PlaceInv, WantInv, ObjInv, EventInv, Unloads,
    MapInv, MapP!TypeOK, CallbackInv, Busy
<1>20. ASSUME NEW o \in Calls, Await(o)
       PROVE  CallbackInv'
  BY <1>20, CallsAssumption DEF Await, Goto, mapVars, listenVars,
    unloadVars, eventVars, CallInv, LocalType, PlaceInv, WantInv, ObjInv,
    EventInv, Unloads, MapInv, MapP!TypeOK, CallbackInv, Busy
<1>21. CASE UNCHANGED vars
  BY <1>21, CallsAssumption DEF vars, mapVars, listenVars, unloadVars,
    eventVars, CallInv, LocalType, PlaceInv, WantInv, ObjInv, EventInv,
    Unloads, MapInv, MapP!TypeOK, CallbackInv, Busy
<1> QED
  BY NextCases,
     <1>1, <1>2, <1>3, <1>4, <1>5, <1>6, <1>7, <1>8, <1>9, <1>10, <1>11,
     <1>12, <1>13, <1>14, <1>15, <1>16, <1>17, <1>18, <1>19, <1>20, <1>21 DEF Case

(* The callback that is run is the one of the same Unload. *)
LEMMA AnswerStep ==
  ASSUME MapInv, WantInv, CallInv, Alone', CallbackInv, AnswerInv,
    [Next]_vars
  PROVE  AnswerInv'
<1>1. ASSUME NEW o \in Calls, NEW n \in Names, NEW a \in Addrs, Listen(o, n, a)
      PROVE  AnswerInv'
  BY <1>1, CallsAssumption DEF Listen, Goto, mapVars, unloadVars, eventVars,
    CallInv, LocalType, EventInv, AnswerInv
<1>2. ASSUME NEW o \in Calls, Swap(o)
      PROVE  AnswerInv'
  BY <1>2, CallsAssumption DEF Swap, Goto, mapVars, listenVars, unloadVars,
    eventVars, CallInv, LocalType, EventInv, AnswerInv
<1>3. ASSUME NEW o \in Calls, Bind(o)
      PROVE  AnswerInv'
  BY <1>3, CallsAssumption DEF Bind, Goto, mapVars, unloadVars, eventVars,
    CallInv, LocalType, EventInv, AnswerInv
<1>4. ASSUME NEW o \in Calls, SetCall(o)
      PROVE  AnswerInv'
  BY <1>4, CallsAssumption DEF SetCall, Goto, Map!Set, Map!Go, Map!history,
    listenVars, unloadVars, eventVars, CallInv, LocalType, EventInv,
    AnswerInv
<1>5. ASSUME NEW o \in Calls, NEW k \in Unloads, NEW ns \in SUBSET Names,
            k = "unload" => ns # {}, Unload(o, k, ns)
      PROVE  AnswerInv'
  BY <1>5, CallsAssumption DEF Unload, Goto, mapVars, listenVars,
    unloadVars, eventVars, CallInv, LocalType, EventInv, AnswerInv
<1>6. ASSUME NEW o \in Calls, EventsCall(o)
      PROVE  AnswerInv'
  BY <1>6, CallsAssumption DEF EventsCall, Goto, Map!Events, Map!locals,
    Map!history, mapVars, listenVars, eventVars, CallInv, LocalType,
    EventInv, AnswerInv
<1>7. ASSUME NEW o \in Calls, Install(o)
      PROVE  AnswerInv'
  BY <1>7, CallsAssumption DEF Install, Goto, mapVars, listenVars,
    eventVars, CallInv, LocalType, EventInv, AnswerInv
<1>8. ASSUME NEW o \in Calls, DeleteCall(o)
      PROVE  AnswerInv'
  BY <1>8, CallsAssumption DEF DeleteCall, Goto, Map!Remove, Map!Go,
    Map!history, listenVars, eventVars, CallInv, LocalType, EventInv,
    AnswerInv
<1>9. ASSUME NEW o \in Calls, CloseCall(o)
      PROVE  AnswerInv'
  BY <1>9, CallsAssumption DEF CloseCall, Goto, Map!Close, Map!Go,
    Map!history, listenVars, eventVars, CallInv, LocalType, EventInv,
    AnswerInv
<1>10. ASSUME NEW o \in Calls, LoadStep(o)
       PROVE  AnswerInv'
  BY <1>10, CallsAssumption DEF LoadStep, Aside, Map!Load, Map!Go,
    Map!history, listenVars, eventVars, CallInv, LocalType, EventInv,
    AnswerInv
<1>11. ASSUME NEW o \in Calls, StoreStep(o)
       PROVE  AnswerInv'
  BY <1>11, CallsAssumption DEF StoreStep, Aside, Map!Store, Map!Go,
    Map!locals, listenVars, eventVars, CallInv, LocalType, EventInv,
    AnswerInv
<1>12. ASSUME NEW o \in Calls, DropEventsStep(o)
       PROVE  AnswerInv'
  BY <1>12, CallsAssumption DEF DropEventsStep, Aside, Map!DropEvents,
    Map!Go, Map!locals, Map!history, listenVars, eventVars, CallInv,
    LocalType, EventInv, AnswerInv
<1>13. ASSUME NEW o \in Calls, DropMapStep(o)
       PROVE  AnswerInv'
  BY <1>13, CallsAssumption DEF DropMapStep, Aside, Map!DropMap, Map!Go,
    Map!locals, listenVars, eventVars, CallInv, LocalType, EventInv,
    AnswerInv
<1>14. ASSUME NEW o \in Calls, NEW n \in Names, VisitStep(o, n)
       PROVE  AnswerInv'
  BY <1>14, CallsAssumption DEF VisitStep, Aside, Map!Visit, Map!Go,
    Map!history, listenVars, eventVars, CallInv, LocalType, EventInv,
    AnswerInv
<1>15. ASSUME NEW o \in Calls, DeleteStep(o)
       PROVE  AnswerInv'
  BY <1>15, CallsAssumption DEF DeleteStep, Aside, Map!DeleteKey, Map!Go,
    listenVars, eventVars, CallInv, LocalType, EventInv, AnswerInv
<1>16. ASSUME NEW o \in Calls, Spawn(o)
       PROVE  AnswerInv'
  BY <1>16, CallsAssumption DEF Spawn, Map!Report, Map!Go, listenVars,
    unloadVars, CallInv, LocalType, EventInv, AnswerInv
<1>17. ASSUME NEW o \in Calls, EventStart(o)
       PROVE  AnswerInv'
  BY <1>17, CallsAssumption DEF EventStart, mapVars, listenVars, unloadVars,
    CallInv, LocalType, EventInv, AnswerInv, CallbackInv
<1>18. ASSUME NEW o \in Calls, NEW l \in Calls, Shutdown(o, l)
       PROVE  AnswerInv'
  BY <1>18, CallsAssumption DEF Shutdown, mapVars, unloadVars, CallInv,
    LocalType, EventInv, AnswerInv
<1>19. ASSUME NEW o \in Calls, Cancel(o)
       PROVE  AnswerInv'
  BY <1>19, CallsAssumption DEF Cancel, mapVars, listenVars, unloadVars,
    CallInv, LocalType, EventInv, AnswerInv
<1>20. ASSUME NEW o \in Calls, Await(o)
       PROVE  AnswerInv'
  BY <1>20, CallsAssumption DEF Await, Goto, mapVars, listenVars,
    unloadVars, eventVars, CallInv, LocalType, EventInv, AnswerInv
<1>21. CASE UNCHANGED vars
  BY <1>21, CallsAssumption DEF vars, mapVars, listenVars, unloadVars,
    eventVars, CallInv, LocalType, EventInv, AnswerInv
<1> QED
  BY NextCases,
     <1>1, <1>2, <1>3, <1>4, <1>5, <1>6, <1>7, <1>8, <1>9, <1>10, <1>11,
     <1>12, <1>13, <1>14, <1>15, <1>16, <1>17, <1>18, <1>19, <1>20, <1>21 DEF Case

(* That there were two events objects is not forgotten. *)
LEMMA DoubledStep ==
  ASSUME [Next]_vars
  PROVE  doubled => doubled'
<1>1. ASSUME NEW o \in Calls, Step(o)
      PROVE  doubled => doubled'
  <2>1. CASE EventsCall(o)
    BY <2>1 DEF EventsCall
  <2>2. CASE ~EventsCall(o)
    BY <1>1, <2>2 DEF Step, Progress, Listen, Unload, Swap, Bind, SetCall, Install,
      RemoveCall, MapStep, Spawn, EventStart, Shutdown, Cancel, Await, unloadVars
  <2> QED
    BY <2>1, <2>2
<1>2. CASE UNCHANGED vars
  BY <1>2 DEF vars, unloadVars
<1> QED
  BY <1>1, <1>2 DEF Next

(* While no two Unloads crossed, callbacks and contexts match. *)
LEMMA WaitAlways == Spec => [](WaitInv /\ DoneInv)
<1>1. Init => WaitInv /\ DoneInv
  BY DEF Init, Map!Init, WaitInv, DoneInv, Alone, Handshake, InstallInv,
    CallbackInv, Busy, AnswerInv, Unloads
<1>2. ASSUME MapInv, WantInv, CallInv, WaitInv, DoneInv, [Next]_vars
      PROVE  WaitInv' /\ DoneInv'
  <2>1. DoneInv'
    BY <1>2, DoneStep
  <2>2. ASSUME ~crossed', ~doubled'
        PROVE  ~crossed /\ ~doubled /\ Alone'
    <3> ~doubled
      BY <1>2, <2>2, DoubledStep
    <3>1. CASE Record
      BY <2>2, <3>1 DEF Record, Alone
    <3>2. CASE UNCHANGED vars
      BY <1>2, <2>2, <3>2 DEF vars, mapVars, eventVars, WaitInv, Alone, Handshake
    <3> QED
      BY <1>2, <3>1, <3>2 DEF Next
  <2>3. ASSUME ~crossed', ~doubled'
        PROVE  InstallInv' /\ CallbackInv' /\ AnswerInv'
    BY <1>2, <2>2, <2>3, InstallStep, CallbackStep, AnswerStep DEF WaitInv
  <2> QED
    BY <2>1, <2>2, <2>3 DEF WaitInv
<1> QED
  BY <1>1, <1>2, MapAlways, WantAlways, CallAlways, PTL DEF Spec

(* Unload waits for its own event: when it returns, every listener that    *)
(* its Delete or Close took out of the map is shut down, provided that no  *)
(* two Unloads were between installing the callback and the event at once  *)
(* (listening.go, Unload: the callback is a field of the shared events     *)
(* object) and no two of them made an events object (itermap.go, Events).  *)
THEOREM WaitTheorem == Spec => []UnloadWaits
<1>1. CallInv /\ WaitInv /\ DoneInv => UnloadWaits
  BY DEF CallInv, HoldInv, WaitInv, AnswerInv, DoneInv, UnloadWaits
<1> QED
  BY <1>1, CallAlways, WaitAlways, PTL

NoAll == \A o \in Calls : kind[o] # "unloadall"

(* While nobody unloads everything: the map and the events object that an  *)
(* Unload has asked for stay, so that Delete has somebody to tell.         *)
OpenInv ==
  /\ imp.orgsncmp
  /\ \A o \in Calls : lpc[o] \in {"install", "call"} => imp.mpevents
  /\ \A o \in Calls : pc[o] \in {"range", "delete"} => evt[o]

(* And as long as no second events object is made: every Unload uses the   *)
(* same one, in which there is a callback once a Delete runs, so an event  *)
(* that is over has shut down its listeners.                               *)
OneInv ==
  \A o \in Calls :
    /\ lpc[o] \in {"install", "call"} => mine[o] = obj
    /\ lpc[o] = "call" \/ (pc[o] # "ready" /\ kind[o] = "unload")
         => obj # Nil /\ cb["unload"][obj] # Nil
    /\ pc[o] # "ready" /\ kind[o] = "unload" => used[o] = obj
    /\ ev[o] = "finished" => evmap[o] = {}

(* A Listen that opens a listener alone finds its name free when it stores *)
(* the listener.                                                           *)
FreeInv ==
  \A o \in Calls, n \in Names :
    Opening(o, n) /\ n \notin contended => store[n] = Nil

Recorded == NewlyContended \subseteq contended

(* Where a listener can be: with the Listen that stores it, in the map, or *)
(* with an Unload.                                                         *)
Placed(l) == lpc[l] = "set" \/ (lpc[l] = "map" /\ pc[l] \in {"load", "store"})

InMap(l) == \E n \in Names : store[n] = l

Told(l) == \E o \in Calls : l \in tmp[o] \/ l \in evmap[o]

(* No overlap was seen on the name of the listener. *)
Clean(l) == want[l] \cap (raced \cup contended) = {}

(* Each serving socket on a name without overlaps is in reach. *)
ReachInv ==
  \A l \in Calls : ln[l] = "bound" /\ Clean(l) => Placed(l) \/ InMap(l) \/ Told(l)

(* A call keeps its method and its names. *)
LEMMA SettledStep ==
  ASSUME WantInv, CallInv, [Next]_vars
  PROVE  \A m \in Calls :
           lpc[m] # "ready" => kind'[m] = kind[m] /\ want'[m] = want[m]
<1>1. ASSUME NEW o \in Calls, NEW n \in Names, NEW a \in Addrs, Listen(o, n, a)
      PROVE  \A m \in Calls :
           lpc[m] # "ready" => kind'[m] = kind[m] /\ want'[m] = want[m]
  BY <1>1 DEF Listen, Goto, mapVars, unloadVars, eventVars, CallInv,
    LocalType, WantInv
<1>2. ASSUME NEW o \in Calls, Swap(o)
      PROVE  \A m \in Calls :
           lpc[m] # "ready" => kind'[m] = kind[m] /\ want'[m] = want[m]
  BY <1>2 DEF Swap, Goto, mapVars, listenVars, unloadVars, eventVars,
    CallInv, LocalType, WantInv
<1>3. ASSUME NEW o \in Calls, Bind(o)
      PROVE  \A m \in Calls :
           lpc[m] # "ready" => kind'[m] = kind[m] /\ want'[m] = want[m]
  BY <1>3 DEF Bind, Goto, mapVars, unloadVars, eventVars, CallInv,
    LocalType, WantInv
<1>4. ASSUME NEW o \in Calls, SetCall(o)
      PROVE  \A m \in Calls :
           lpc[m] # "ready" => kind'[m] = kind[m] /\ want'[m] = want[m]
  BY <1>4 DEF SetCall, Goto, Map!Set, Map!Go, Map!history, listenVars,
    unloadVars, eventVars, CallInv, LocalType, WantInv
<1>5. ASSUME NEW o \in Calls, NEW k \in Unloads, NEW ns \in SUBSET Names,
            k = "unload" => ns # {}, Unload(o, k, ns)
      PROVE  \A m \in Calls :
           lpc[m] # "ready" => kind'[m] = kind[m] /\ want'[m] = want[m]
  BY <1>5 DEF Unload, Goto, mapVars, listenVars, unloadVars, eventVars,
    CallInv, LocalType, WantInv
<1>6. ASSUME NEW o \in Calls, EventsCall(o)
      PROVE  \A m \in Calls :
           lpc[m] # "ready" => kind'[m] = kind[m] /\ want'[m] = want[m]
  BY <1>6 DEF EventsCall, Goto, Map!Events, Map!locals, Map!history,
    mapVars, listenVars, eventVars, CallInv, LocalType, WantInv
<1>7. ASSUME NEW o \in Calls, Install(o)
      PROVE  \A m \in Calls :
           lpc[m] # "ready" => kind'[m] = kind[m] /\ want'[m] = want[m]
  BY <1>7 DEF Install, Goto, mapVars, listenVars, eventVars, CallInv,
    LocalType, WantInv
<1>8. ASSUME NEW o \in Calls, DeleteCall(o)
      PROVE  \A m \in Calls :
           lpc[m] # "ready" => kind'[m] = kind[m] /\ want'[m] = want[m]
  BY <1>8 DEF DeleteCall, Goto, Map!Remove, Map!Go, Map!history, listenVars,
    eventVars, CallInv, LocalType, WantInv
<1>9. ASSUME NEW o \in Calls, CloseCall(o)
      PROVE  \A m \in Calls :
           lpc[m] # "ready" => kind'[m] = kind[m] /\ want'[m] = want[m]
  BY <1>9 DEF CloseCall, Goto, Map!Close, Map!Go, Map!history, listenVars,
    eventVars, CallInv, LocalType, WantInv
<1>10. ASSUME NEW o \in Calls, LoadStep(o)
       PROVE  \A m \in Calls :
                lpc[m] # "ready" => kind'[m] = kind[m] /\ want'[m] = want[m]
  BY <1>10 DEF LoadStep, Aside, Map!Load, Map!Go, Map!history, listenVars,
    eventVars, CallInv, LocalType, WantInv
<1>11. ASSUME NEW o \in Calls, StoreStep(o)
       PROVE  \A m \in Calls :
                lpc[m] # "ready" => kind'[m] = kind[m] /\ want'[m] = want[m]
  BY <1>11 DEF StoreStep, Aside, Map!Store, Map!Go, Map!locals, listenVars,
    eventVars, CallInv, LocalType, WantInv
<1>12. ASSUME NEW o \in Calls, DropEventsStep(o)
       PROVE  \A m \in Calls :
                lpc[m] # "ready" => kind'[m] = kind[m] /\ want'[m] = want[m]
  BY <1>12 DEF DropEventsStep, Aside, Map!DropEvents, Map!Go, Map!locals,
    Map!history, listenVars, eventVars, CallInv, LocalType, WantInv
<1>13. ASSUME NEW o \in Calls, DropMapStep(o)
       PROVE  \A m \in Calls :
                lpc[m] # "ready" => kind'[m] = kind[m] /\ want'[m] = want[m]
  BY <1>13 DEF DropMapStep, Aside, Map!DropMap, Map!Go, Map!locals,
    listenVars, eventVars, CallInv, LocalType, WantInv
<1>14. ASSUME NEW o \in Calls, NEW n \in Names, VisitStep(o, n)
       PROVE  \A m \in Calls :
                lpc[m] # "ready" => kind'[m] = kind[m] /\ want'[m] = want[m]
  BY <1>14 DEF VisitStep, Aside, Map!Visit, Map!Go, Map!history, listenVars,
    eventVars, CallInv, LocalType, WantInv
<1>15. ASSUME NEW o \in Calls, DeleteStep(o)
       PROVE  \A m \in Calls :
                lpc[m] # "ready" => kind'[m] = kind[m] /\ want'[m] = want[m]
  BY <1>15 DEF DeleteStep, Aside, Map!DeleteKey, Map!Go, listenVars,
    eventVars, CallInv, LocalType, WantInv
<1>16. ASSUME NEW o \in Calls, Spawn(o)
       PROVE  \A m \in Calls :
                lpc[m] # "ready" => kind'[m] = kind[m] /\ want'[m] = want[m]
  BY <1>16 DEF Spawn, Map!Report, Map!Go, listenVars, unloadVars, CallInv,
    LocalType, WantInv
<1>17. ASSUME NEW o \in Calls, EventStart(o)
       PROVE  \A m \in Calls :
                lpc[m] # "ready" => kind'[m] = kind[m] /\ want'[m] = want[m]
  BY <1>17 DEF EventStart, mapVars, listenVars, unloadVars, CallInv,
    LocalType, WantInv
<1>18. ASSUME NEW o \in Calls, NEW l \in Calls, Shutdown(o, l)
       PROVE  \A m \in Calls :
                lpc[m] # "ready" => kind'[m] = kind[m] /\ want'[m] = want[m]
  BY <1>18 DEF Shutdown, mapVars, unloadVars, CallInv, LocalType, WantInv
<1>19. ASSUME NEW o \in Calls, Cancel(o)
       PROVE  \A m \in Calls :
                lpc[m] # "ready" => kind'[m] = kind[m] /\ want'[m] = want[m]
  BY <1>19 DEF Cancel, mapVars, listenVars, unloadVars, CallInv, LocalType,
    WantInv
<1>20. ASSUME NEW o \in Calls, Await(o)
       PROVE  \A m \in Calls :
                lpc[m] # "ready" => kind'[m] = kind[m] /\ want'[m] = want[m]
  BY <1>20 DEF Await, Goto, mapVars, listenVars, unloadVars, eventVars,
    CallInv, LocalType, WantInv
<1>21. CASE UNCHANGED vars
  BY <1>21 DEF vars, mapVars, listenVars, unloadVars, eventVars, CallInv,
    LocalType, WantInv
<1> QED
  BY NextCases,
     <1>1, <1>2, <1>3, <1>4, <1>5, <1>6, <1>7, <1>8, <1>9, <1>10, <1>11,
     <1>12, <1>13, <1>14, <1>15, <1>16, <1>17, <1>18, <1>19, <1>20, <1>21 DEF Case

(* Without an Unload of everything the map is never closed. *)
LEMMA OpenStep ==
  ASSUME MapInv, WantInv, CallInv, NoAll, NoAll', OpenInv, [Next]_vars
  PROVE  OpenInv'
<1>1. ASSUME NEW o \in Calls, NEW n \in Names, NEW a \in Addrs, Listen(o, n, a)
      PROVE  OpenInv'
  BY <1>1 DEF Listen, Goto, mapVars, unloadVars, eventVars, CallInv,
    LocalType, PlaceInv, Unloads, MapInv, MapP!TypeOK, NoAll, OpenInv
<1>2. ASSUME NEW o \in Calls, Swap(o)
      PROVE  OpenInv'
  BY <1>2 DEF Swap, Goto, mapVars, listenVars, unloadVars, eventVars,
    CallInv, LocalType, PlaceInv, Unloads, MapInv, MapP!TypeOK, NoAll,
    OpenInv
<1>3. ASSUME NEW o \in Calls, Bind(o)
      PROVE  OpenInv'
  BY <1>3 DEF Bind, Goto, mapVars, unloadVars, eventVars, CallInv,
    LocalType, PlaceInv, Unloads, MapInv, MapP!TypeOK, NoAll, OpenInv
<1>4. ASSUME NEW o \in Calls, SetCall(o)
      PROVE  OpenInv'
  BY <1>4 DEF SetCall, Goto, Map!Set, Map!Go, Map!history, listenVars,
    unloadVars, eventVars, CallInv, LocalType, PlaceInv, Unloads, MapInv,
    MapP!TypeOK, NoAll, OpenInv
<1>5. ASSUME NEW o \in Calls, NEW k \in Unloads, NEW ns \in SUBSET Names,
            k = "unload" => ns # {}, Unload(o, k, ns)
      PROVE  OpenInv'
  BY <1>5 DEF Unload, Goto, mapVars, listenVars, unloadVars, eventVars,
    CallInv, LocalType, PlaceInv, Unloads, MapInv, MapP!TypeOK, NoAll,
    OpenInv
<1>6. ASSUME NEW o \in Calls, EventsCall(o)
      PROVE  OpenInv'
  BY <1>6 DEF EventsCall, Goto, Map!Events, Map!locals, Map!history,
    mapVars, listenVars, eventVars, CallInv, LocalType, PlaceInv, ObjInv, Unloads,
    MapInv, MapP!TypeOK, NoAll, OpenInv
<1>7. ASSUME NEW o \in Calls, Install(o)
      PROVE  OpenInv'
  BY <1>7 DEF Install, Goto, mapVars, listenVars, eventVars, CallInv,
    LocalType, PlaceInv, Unloads, MapInv, MapP!TypeOK, NoAll, OpenInv
<1>8. ASSUME NEW o \in Calls, DeleteCall(o)
      PROVE  OpenInv'
  BY <1>8 DEF DeleteCall, Goto, Map!Remove, Map!Go, Map!history, listenVars,
    eventVars, CallInv, LocalType, PlaceInv, Unloads, MapInv, MapP!TypeOK,
    NoAll, OpenInv
<1>9. ASSUME NEW o \in Calls, CloseCall(o)
      PROVE  OpenInv'
  BY <1>9 DEF CloseCall, Goto, Map!Close, Map!Go, Map!history, listenVars,
    eventVars, CallInv, LocalType, PlaceInv, Unloads, MapInv, MapP!TypeOK,
    NoAll, OpenInv
<1>10. ASSUME NEW o \in Calls, LoadStep(o)
       PROVE  OpenInv'
  BY <1>10 DEF LoadStep, Aside, Map!Load, Map!Go, Map!history, listenVars,
    eventVars, CallInv, LocalType, PlaceInv, Unloads, MapInv, MapP!TypeOK,
    NoAll, OpenInv
<1>11. ASSUME NEW o \in Calls, StoreStep(o)
       PROVE  OpenInv'
  BY <1>11 DEF StoreStep, Aside, Map!Store, Map!Go, Map!locals, listenVars,
    eventVars, CallInv, LocalType, PlaceInv, Unloads, MapInv, MapP!TypeOK,
    NoAll, OpenInv
<1>12. ASSUME NEW o \in Calls, DropEventsStep(o)
       PROVE  OpenInv'
  BY <1>12 DEF DropEventsStep, Aside, Map!DropEvents, Map!Go, Map!locals,
    Map!history, listenVars, eventVars, CallInv, LocalType, PlaceInv,
    Unloads, MapInv, MapP!TypeOK, NoAll, OpenInv
<1>13. ASSUME NEW o \in Calls, DropMapStep(o)
       PROVE  OpenInv'
  BY <1>13 DEF DropMapStep, Aside, Map!DropMap, Map!Go, Map!locals,
    listenVars, eventVars, CallInv, LocalType, PlaceInv, Unloads, MapInv,
    MapP!TypeOK, NoAll, OpenInv
<1>14. ASSUME NEW o \in Calls, NEW n \in Names, VisitStep(o, n)
       PROVE  OpenInv'
  BY <1>14 DEF VisitStep, Aside, Map!Visit, Map!Go, Map!history, listenVars,
    eventVars, CallInv, LocalType, PlaceInv, Unloads, MapInv, MapP!TypeOK,
    NoAll, OpenInv
<1>15. ASSUME NEW o \in Calls, DeleteStep(o)
       PROVE  OpenInv'
  BY <1>15 DEF DeleteStep, Aside, Map!DeleteKey, Map!Go, listenVars,
    eventVars, CallInv, LocalType, PlaceInv, Unloads, MapInv, MapP!TypeOK,
    NoAll, OpenInv
<1>16. ASSUME NEW o \in Calls, Spawn(o)
       PROVE  OpenInv'
  BY <1>16 DEF Spawn, Map!Report, Map!Go, listenVars, unloadVars, CallInv,
    LocalType, PlaceInv, Unloads, MapInv, MapP!TypeOK, NoAll, OpenInv
<1>17. ASSUME NEW o \in Calls, EventStart(o)
       PROVE  OpenInv'
  BY <1>17 DEF EventStart, mapVars, listenVars, unloadVars, CallInv,
    LocalType, PlaceInv, Unloads, MapInv, MapP!TypeOK, NoAll, OpenInv
<1>18. ASSUME NEW o \in Calls, NEW l \in Calls, Shutdown(o, l)
       PROVE  OpenInv'
  BY <1>18 DEF Shutdown, mapVars, unloadVars, CallInv, LocalType, PlaceInv,
    Unloads, MapInv, MapP!TypeOK, NoAll, OpenInv
<1>19. ASSUME NEW o \in Calls, Cancel(o)
       PROVE  OpenInv'
  BY <1>19 DEF Cancel, mapVars, listenVars, unloadVars, CallInv, LocalType,
    PlaceInv, Unloads, MapInv, MapP!TypeOK, NoAll, OpenInv
<1>20. ASSUME NEW o \in Calls, Await(o)
       PROVE  OpenInv'
  BY <1>20 DEF Await, Goto, mapVars, listenVars, unloadVars, eventVars,
    CallInv, LocalType, PlaceInv, Unloads, MapInv, MapP!TypeOK, NoAll,
    OpenInv
<1>21. CASE UNCHANGED vars
  BY <1>21 DEF vars, mapVars, listenVars, unloadVars, eventVars, CallInv,
    LocalType, PlaceInv, Unloads, MapInv, MapP!TypeOK, NoAll, OpenInv
<1> QED
  BY NextCases,
     <1>1, <1>2, <1>3, <1>4, <1>5, <1>6, <1>7, <1>8, <1>9, <1>10, <1>11,
     <1>12, <1>13, <1>14, <1>15, <1>16, <1>17, <1>18, <1>19, <1>20, <1>21 DEF Case

(* Without an Unload of everything the first events object stays the only  *)
(* one, unless a second one takes its place.                               *)
LEMMA OneStep ==
  ASSUME MapInv, WantInv, CallInv, NoAll, NoAll', ~doubled', OneInv,
    [Next]_vars
  PROVE  OneInv'
<1>1. ASSUME NEW o \in Calls, NEW n \in Names, NEW a \in Addrs, Listen(o, n, a)
      PROVE  OneInv'
  BY <1>1, CallsAssumption DEF Listen, Goto, mapVars, unloadVars, eventVars, CallInv,
    LocalType, PlaceInv, ObjInv, EventInv, WantInv, Unloads, MapInv, MapP!TypeOK, NoAll, OneInv
<1>2. ASSUME NEW o \in Calls, Swap(o)
      PROVE  OneInv'
  BY <1>2, CallsAssumption DEF Swap, Goto, mapVars, listenVars, unloadVars, eventVars,
    CallInv, LocalType, PlaceInv, ObjInv, EventInv, WantInv, Unloads, MapInv, MapP!TypeOK, NoAll,
    OneInv
<1>3. ASSUME NEW o \in Calls, Bind(o)
      PROVE  OneInv'
  BY <1>3, CallsAssumption DEF Bind, Goto, mapVars, unloadVars, eventVars, CallInv,
    LocalType, PlaceInv, ObjInv, EventInv, WantInv, Unloads, MapInv, MapP!TypeOK, NoAll, OneInv
<1>4. ASSUME NEW o \in Calls, SetCall(o)
      PROVE  OneInv'
  BY <1>4, CallsAssumption DEF SetCall, Goto, Map!Set, Map!Go, Map!history, listenVars,
    unloadVars, eventVars, CallInv, LocalType, PlaceInv, ObjInv, EventInv, WantInv, Unloads, MapInv,
    MapP!TypeOK, NoAll, OneInv
<1>5. ASSUME NEW o \in Calls, NEW k \in Unloads, NEW ns \in SUBSET Names,
            k = "unload" => ns # {}, Unload(o, k, ns)
      PROVE  OneInv'
  BY <1>5, CallsAssumption DEF Unload, Goto, mapVars, listenVars, unloadVars, eventVars,
    CallInv, LocalType, PlaceInv, ObjInv, EventInv, WantInv, Unloads, MapInv, MapP!TypeOK, NoAll,
    OneInv
<1>6. ASSUME NEW o \in Calls, EventsCall(o)
      PROVE  OneInv'
  BY <1>6, CallsAssumption DEF EventsCall, Goto, Map!Events, Map!locals, Map!history,
    mapVars, listenVars, eventVars, CallInv, LocalType, PlaceInv, ObjInv, EventInv, WantInv, Unloads,
    MapInv, MapP!TypeOK, NoAll, OneInv
<1>7. ASSUME NEW o \in Calls, Install(o)
      PROVE  OneInv'
  BY <1>7, CallsAssumption DEF Install, Goto, mapVars, listenVars, eventVars, CallInv,
    LocalType, PlaceInv, ObjInv, EventInv, WantInv, Unloads, MapInv, MapP!TypeOK, NoAll, OneInv
<1>8. ASSUME NEW o \in Calls, DeleteCall(o)
      PROVE  OneInv'
  BY <1>8, CallsAssumption DEF DeleteCall, Goto, Map!Remove, Map!Go, Map!history, listenVars,
    eventVars, CallInv, LocalType, PlaceInv, ObjInv, EventInv, WantInv, Unloads, MapInv, MapP!TypeOK,
    NoAll, OneInv
<1>9. ASSUME NEW o \in Calls, CloseCall(o)
      PROVE  OneInv'
  BY <1>9, CallsAssumption DEF CloseCall, Goto, Map!Close, Map!Go, Map!history, listenVars,
    eventVars, CallInv, LocalType, PlaceInv, ObjInv, EventInv, WantInv, Unloads, MapInv, MapP!TypeOK,
    NoAll, OneInv
<1>10. ASSUME NEW o \in Calls, LoadStep(o)
       PROVE  OneInv'
  BY <1>10, CallsAssumption DEF LoadStep, Aside, Map!Load, Map!Go, Map!history, listenVars,
    eventVars, CallInv, LocalType, PlaceInv, ObjInv, EventInv, WantInv, Unloads, MapInv, MapP!TypeOK,
    NoAll, OneInv
<1>11. ASSUME NEW o \in Calls, StoreStep(o)
       PROVE  OneInv'
  BY <1>11, CallsAssumption DEF StoreStep, Aside, Map!Store, Map!Go, Map!locals, listenVars,
    eventVars, CallInv, LocalType, PlaceInv, ObjInv, EventInv, WantInv, Unloads, MapInv, MapP!TypeOK,
    NoAll, OneInv
<1>12. ASSUME NEW o \in Calls, DropEventsStep(o)
       PROVE  OneInv'
  BY <1>12, CallsAssumption DEF DropEventsStep, Aside, Map!DropEvents, Map!Go, Map!locals,
    Map!history, listenVars, eventVars, CallInv, LocalType, PlaceInv, ObjInv, EventInv, WantInv,
    Unloads, MapInv, MapP!TypeOK, NoAll, OneInv
<1>13. ASSUME NEW o \in Calls, DropMapStep(o)
       PROVE  OneInv'
  BY <1>13, CallsAssumption DEF DropMapStep, Aside, Map!DropMap, Map!Go, Map!locals,
    listenVars, eventVars, CallInv, LocalType, PlaceInv, ObjInv, EventInv, WantInv, Unloads, MapInv,
    MapP!TypeOK, NoAll, OneInv
<1>14. ASSUME NEW o \in Calls, NEW n \in Names, VisitStep(o, n)
       PROVE  OneInv'
  BY <1>14, CallsAssumption DEF VisitStep, Aside, Map!Visit, Map!Go, Map!history, listenVars,
    eventVars, CallInv, LocalType, PlaceInv, ObjInv, EventInv, WantInv, Unloads, MapInv, MapP!TypeOK,
    NoAll, OneInv
<1>15. ASSUME NEW o \in Calls, DeleteStep(o)
       PROVE  OneInv'
  BY <1>15, CallsAssumption DEF DeleteStep, Aside, Map!DeleteKey, Map!Go, listenVars,
    eventVars, CallInv, LocalType, PlaceInv, ObjInv, EventInv, WantInv, Unloads, MapInv, MapP!TypeOK,
    NoAll, OneInv
<1>16. ASSUME NEW o \in Calls, Spawn(o)
       PROVE  OneInv'
  BY <1>16, CallsAssumption DEF Spawn, Map!Report, Map!Go, listenVars, unloadVars, CallInv,
    LocalType, PlaceInv, ObjInv, EventInv, WantInv, Unloads, MapInv, MapP!TypeOK, NoAll, OneInv
<1>17. ASSUME NEW o \in Calls, EventStart(o)
       PROVE  OneInv'
  BY <1>17, CallsAssumption DEF EventStart, mapVars, listenVars, unloadVars, CallInv,
    LocalType, PlaceInv, ObjInv, EventInv, WantInv, Unloads, MapInv, MapP!TypeOK, NoAll, OneInv
<1>18. ASSUME NEW o \in Calls, NEW l \in Calls, Shutdown(o, l)
       PROVE  OneInv'
  BY <1>18, CallsAssumption DEF Shutdown, mapVars, unloadVars, CallInv, LocalType, PlaceInv, ObjInv, EventInv, WantInv,
    Unloads, MapInv, MapP!TypeOK, NoAll, OneInv
<1>19. ASSUME NEW o \in Calls, Cancel(o)
       PROVE  OneInv'
  BY <1>19, CallsAssumption DEF Cancel, mapVars, listenVars, unloadVars, CallInv, LocalType,
    PlaceInv, ObjInv, EventInv, WantInv, Unloads, MapInv, MapP!TypeOK, NoAll, OneInv
<1>20. ASSUME NEW o \in Calls, Await(o)
       PROVE  OneInv'
  BY <1>20, CallsAssumption DEF Await, Goto, mapVars, listenVars, unloadVars, eventVars,
    CallInv, LocalType, PlaceInv, ObjInv, EventInv, WantInv, Unloads, MapInv, MapP!TypeOK, NoAll,
    OneInv
<1>21. CASE UNCHANGED vars
  BY <1>21, CallsAssumption DEF vars, mapVars, listenVars, unloadVars, eventVars, CallInv,
    LocalType, PlaceInv, ObjInv, EventInv, WantInv, Unloads, MapInv, MapP!TypeOK, NoAll, OneInv
<1> QED
  BY NextCases,
     <1>1, <1>2, <1>3, <1>4, <1>5, <1>6, <1>7, <1>8, <1>9, <1>10, <1>11,
     <1>12, <1>13, <1>14, <1>15, <1>16, <1>17, <1>18, <1>19, <1>20, <1>21 DEF Case

(* A name stays free for the only call of Listen that opens it. *)
LEMMA FreeStep ==
  ASSUME MapInv, WantInv, CallInv, NoAll, OpenInv, Recorded, FreeInv,
    contended \subseteq contended', [Next]_vars
  PROVE  FreeInv'
<1>1. ASSUME NEW o \in Calls, NEW n \in Names, NEW a \in Addrs, Listen(o, n, a)
      PROVE  FreeInv'
  <2>1. /\ lpc[o] = "ready" /\ want' = [want EXCEPT ![o] = {n}]
        /\ kind' = [kind EXCEPT ![o] = "listen"]
        /\ lpc'[o] = "bind" => store[n] = Nil
        /\ \A p \in Calls : p # o => lpc'[p] = lpc[p]
        /\ lpc'[o] \in {"done", "bind", "swap"}
        /\ UNCHANGED <<pc, store>>
    BY <1>1 DEF Listen, Goto, mapVars, CallInv, LocalType, OpenInv
  <2>2. ASSUME NEW p \in Calls, NEW m \in Names, Opening(p, m)', m \notin contended'
        PROVE  store'[m] = Nil
    <3>1. CASE p = o
      <4>1. lpc'[o] = "bind" /\ want'[o] = {n} /\ want'[o] = {m}
        BY <2>1, <2>2, <3>1 DEF Opening, WantInv
      <4>2. m = n
        BY <4>1
      <4> QED
        BY <2>1, <4>1, <4>2
    <3>2. CASE p # o
      <4>1. Opening(p, m)
        BY <2>1, <2>2, <3>2 DEF Opening, WantInv
      <4> QED
        BY <2>1, <2>2, <4>1 DEF FreeInv
    <3> QED
      BY <3>1, <3>2
  <2> QED
    BY <2>2 DEF FreeInv
<1>2. ASSUME NEW o \in Calls, Swap(o)
      PROVE  FreeInv'
  BY <1>2 DEF Swap, Goto, mapVars, listenVars, unloadVars, eventVars,
    CallInv, LocalType, PlaceInv, ListenInv, Unloads, WantInv, MapInv,
    MapP!TypeOK, FreeInv, Opening
<1>3. ASSUME NEW o \in Calls, Bind(o)
      PROVE  FreeInv'
  <2>1. store' = store /\ \A p \in Calls, m \in Names : Opening(p, m)' => Opening(p, m)
    BY <1>3 DEF Bind, Goto, mapVars, CallInv, LocalType, PlaceInv, Opening
  <2> QED
    BY <2>1 DEF FreeInv
<1>4. ASSUME NEW o \in Calls, SetCall(o)
      PROVE  FreeInv'
  BY <1>4 DEF SetCall, Goto, Map!Set, Map!Go, Map!history, listenVars,
    unloadVars, eventVars, CallInv, LocalType, PlaceInv, ListenInv, Unloads,
    WantInv, MapInv, MapP!TypeOK, FreeInv, Opening
<1>5. ASSUME NEW o \in Calls, NEW k \in Unloads, NEW ns \in SUBSET Names,
            k = "unload" => ns # {}, Unload(o, k, ns)
      PROVE  FreeInv'
  <2>1. store' = store /\ \A p \in Calls, m \in Names : Opening(p, m)' => Opening(p, m)
    BY <1>5 DEF Unload, Goto, mapVars, Unloads, WantInv, CallInv, LocalType,
      PlaceInv, Opening
  <2> QED
    BY <2>1 DEF FreeInv
<1>6. ASSUME NEW o \in Calls, EventsCall(o)
      PROVE  FreeInv'
  BY <1>6 DEF EventsCall, Goto, Map!Events, Map!locals, Map!history,
    mapVars, listenVars, eventVars, CallInv, LocalType, PlaceInv, ListenInv,
    Unloads, WantInv, MapInv, MapP!TypeOK, FreeInv, Opening
<1>7. ASSUME NEW o \in Calls, Install(o)
      PROVE  FreeInv'
  BY <1>7 DEF Install, Goto, mapVars, listenVars, eventVars, CallInv,
    LocalType, PlaceInv, ListenInv, Unloads, WantInv, MapInv, MapP!TypeOK,
    FreeInv, Opening
<1>8. ASSUME NEW o \in Calls, DeleteCall(o)
      PROVE  FreeInv'
  BY <1>8 DEF DeleteCall, Goto, Map!Remove, Map!Go, Map!history, listenVars,
    eventVars, CallInv, LocalType, PlaceInv, ListenInv, Unloads, WantInv,
    MapInv, MapP!TypeOK, FreeInv, Opening
<1>9. ASSUME NEW o \in Calls, CloseCall(o)
      PROVE  FreeInv'
  BY <1>9 DEF CloseCall, Goto, Map!Close, Map!Go, Map!history, listenVars,
    eventVars, CallInv, LocalType, PlaceInv, ListenInv, Unloads, WantInv,
    MapInv, MapP!TypeOK, FreeInv, Opening
<1>10. ASSUME NEW o \in Calls, LoadStep(o)
       PROVE  FreeInv'
  BY <1>10 DEF LoadStep, Aside, Map!Load, Map!Go, Map!history, listenVars,
    eventVars, CallInv, LocalType, PlaceInv, ListenInv, Unloads, WantInv,
    MapInv, MapP!TypeOK, FreeInv, Opening
<1>11. ASSUME NEW o \in Calls, StoreStep(o)
       PROVE  FreeInv'
  <2>1. /\ lpc[o] = "map" /\ pc[o] = "store" /\ pc' = [pc EXCEPT ![o] = "done"]
        /\ store' = [store EXCEPT ![name[o]] = o]
        /\ kind[o] = "listen" /\ want[o] = {name[o]} /\ name[o] \in Names
        /\ UNCHANGED <<lpc, kind, want>>
    BY <1>11 DEF StoreStep, Aside, Map!Store, Map!Go, CallInv, PlaceInv, ListenInv,
      MapInv, MapP!TypeOK
  <2>2. Opening(o, name[o])
    BY <2>1 DEF Opening
  <2>3. ASSUME NEW p \in Calls, NEW m \in Names, Opening(p, m)', m \notin contended'
        PROVE  store'[m] = Nil
    <3>1. p # o /\ Opening(p, m)
      BY <2>1, <2>3 DEF Opening, MapInv, MapP!TypeOK
    <3>2. m # name[o]
      BY <2>2, <2>3, <3>1 DEF Recorded, NewlyContended
    <3> QED
      BY <2>1, <2>3, <3>1, <3>2 DEF FreeInv, MapInv, MapP!TypeOK
  <2> QED
    BY <2>3 DEF FreeInv
<1>12. ASSUME NEW o \in Calls, DropEventsStep(o)
       PROVE  FreeInv'
  BY <1>12 DEF DropEventsStep, Aside, Map!DropEvents, Map!Go, Map!locals,
    Map!history, listenVars, eventVars, CallInv, LocalType, PlaceInv,
    ListenInv, Unloads, WantInv, MapInv, MapP!TypeOK, FreeInv, Opening
<1>13. ASSUME NEW o \in Calls, DropMapStep(o)
       PROVE  FreeInv'
  BY <1>13 DEF DropMapStep, Aside, Map!DropMap, Map!Go, Map!locals,
    listenVars, eventVars, CallInv, LocalType, PlaceInv, ListenInv, Unloads,
    WantInv, MapInv, MapP!TypeOK, FreeInv, Opening
<1>14. ASSUME NEW o \in Calls, NEW n \in Names, VisitStep(o, n)
       PROVE  FreeInv'
  <2>1. store' = store /\ \A p \in Calls, m \in Names : Opening(p, m)' => Opening(p, m)
    BY <1>14 DEF VisitStep, Aside, Map!Visit, Map!Go, MapInv, MapP!TypeOK,
      CallInv, LocalType, PlaceInv, Opening
  <2> QED
    BY <2>1 DEF FreeInv
<1>15. ASSUME NEW o \in Calls, DeleteStep(o)
       PROVE  FreeInv'
  BY <1>15 DEF DeleteStep, Aside, Map!DeleteKey, Map!Go, listenVars,
    eventVars, CallInv, LocalType, PlaceInv, ListenInv, Unloads, WantInv,
    MapInv, MapP!TypeOK, FreeInv, Opening
<1>16. ASSUME NEW o \in Calls, Spawn(o)
       PROVE  FreeInv'
  BY <1>16 DEF Spawn, Map!Report, Map!Go, listenVars, unloadVars, CallInv,
    LocalType, PlaceInv, ListenInv, Unloads, WantInv, MapInv, MapP!TypeOK,
    FreeInv, Opening
<1>17. ASSUME NEW o \in Calls, EventStart(o)
       PROVE  FreeInv'
  BY <1>17 DEF EventStart, mapVars, listenVars, unloadVars, CallInv,
    LocalType, PlaceInv, ListenInv, Unloads, WantInv, MapInv, MapP!TypeOK,
    FreeInv, Opening
<1>18. ASSUME NEW o \in Calls, NEW l \in Calls, Shutdown(o, l)
       PROVE  FreeInv'
  BY <1>18 DEF Shutdown, mapVars, unloadVars, CallInv, LocalType, PlaceInv,
    ListenInv, Unloads, WantInv, MapInv, MapP!TypeOK, FreeInv, Opening
<1>19. ASSUME NEW o \in Calls, Cancel(o)
       PROVE  FreeInv'
  BY <1>19 DEF Cancel, mapVars, listenVars, unloadVars, CallInv, LocalType,
    PlaceInv, ListenInv, Unloads, WantInv, MapInv, MapP!TypeOK, FreeInv,
    Opening
<1>20. ASSUME NEW o \in Calls, Await(o)
       PROVE  FreeInv'
  BY <1>20 DEF Await, Goto, mapVars, listenVars, unloadVars, eventVars,
    CallInv, LocalType, PlaceInv, ListenInv, Unloads, WantInv, MapInv,
    MapP!TypeOK, FreeInv, Opening
<1>21. CASE UNCHANGED vars
  BY <1>21 DEF vars, mapVars, listenVars, unloadVars, eventVars, CallInv,
    LocalType, PlaceInv, ListenInv, Unloads, WantInv, MapInv, MapP!TypeOK,
    FreeInv, Opening
<1> QED
  BY NextCases,
     <1>1, <1>2, <1>3, <1>4, <1>5, <1>6, <1>7, <1>8, <1>9, <1>10, <1>11,
     <1>12, <1>13, <1>14, <1>15, <1>16, <1>17, <1>18, <1>19, <1>20, <1>21 DEF Case

(* A listener that a call holds, or that changes, ends in the map or down. *)
StaysPlaced ==
  \A l \in Calls :
    Placed(l) \/ ln'[l] # ln[l] => Placed(l)' \/ InMap(l)' \/ ln'[l] = "down"

(* Listen stores the listener that it has opened. *)
LEMMA PlacedStep ==
  ASSUME MapInv, WantInv, CallInv, OpenInv, [Next]_vars
  PROVE  StaysPlaced
<1>1. ASSUME NEW o \in Calls, NEW n \in Names, NEW a \in Addrs, Listen(o, n, a)
      PROVE  StaysPlaced
  BY <1>1 DEF Listen, Goto, mapVars, unloadVars, eventVars, CallInv,
    LocalType, PlaceInv, ListenInv, MapInv, MapP!TypeOK, Placed, StaysPlaced
<1>2. ASSUME NEW o \in Calls, Swap(o)
      PROVE  StaysPlaced
  BY <1>2 DEF Swap, Goto, mapVars, listenVars, unloadVars, eventVars,
    CallInv, LocalType, PlaceInv, ListenInv, MapInv, MapP!TypeOK, Placed,
    StaysPlaced
<1>3. ASSUME NEW o \in Calls, Bind(o)
      PROVE  StaysPlaced
  BY <1>3 DEF Bind, Goto, mapVars, unloadVars, eventVars, CallInv,
    LocalType, PlaceInv, ListenInv, MapInv, MapP!TypeOK, Placed, StaysPlaced
<1>4. ASSUME NEW o \in Calls, SetCall(o)
      PROVE  StaysPlaced
  BY <1>4 DEF SetCall, Goto, Map!Set, Map!Go, Map!history, listenVars,
    unloadVars, eventVars, CallInv, LocalType, PlaceInv, ListenInv, MapInv,
    MapP!TypeOK, Placed, OpenInv, WantInv, Kinds, StaysPlaced
<1>5. ASSUME NEW o \in Calls, NEW k \in Unloads, NEW ns \in SUBSET Names,
            k = "unload" => ns # {}, Unload(o, k, ns)
      PROVE  StaysPlaced
  BY <1>5 DEF Unload, Goto, mapVars, listenVars, unloadVars, eventVars,
    CallInv, LocalType, PlaceInv, ListenInv, MapInv, MapP!TypeOK, Placed,
    StaysPlaced
<1>6. ASSUME NEW o \in Calls, EventsCall(o)
      PROVE  StaysPlaced
  BY <1>6 DEF EventsCall, Goto, Map!Events, Map!locals, Map!history,
    mapVars, listenVars, eventVars, CallInv, LocalType, PlaceInv, ListenInv,
    MapInv, MapP!TypeOK, Placed, StaysPlaced
<1>7. ASSUME NEW o \in Calls, Install(o)
      PROVE  StaysPlaced
  BY <1>7 DEF Install, Goto, mapVars, listenVars, eventVars, CallInv,
    LocalType, PlaceInv, ListenInv, MapInv, MapP!TypeOK, Placed, StaysPlaced
<1>8. ASSUME NEW o \in Calls, DeleteCall(o)
      PROVE  StaysPlaced
  BY <1>8 DEF DeleteCall, Goto, Map!Remove, Map!Go, Map!history, listenVars,
    eventVars, CallInv, LocalType, PlaceInv, ListenInv, MapInv, MapP!TypeOK,
    Placed, StaysPlaced
<1>9. ASSUME NEW o \in Calls, CloseCall(o)
      PROVE  StaysPlaced
  BY <1>9 DEF CloseCall, Goto, Map!Close, Map!Go, Map!history, listenVars,
    eventVars, CallInv, LocalType, PlaceInv, ListenInv, MapInv, MapP!TypeOK,
    Placed, StaysPlaced
<1>10. ASSUME NEW o \in Calls, LoadStep(o)
       PROVE  StaysPlaced
  BY <1>10 DEF LoadStep, Aside, Map!Load, Map!Go, Map!history, listenVars,
    eventVars, CallInv, LocalType, PlaceInv, ListenInv, MapInv, MapP!TypeOK,
    Placed, StaysPlaced
<1>11. ASSUME NEW o \in Calls, StoreStep(o)
       PROVE  StaysPlaced
  BY <1>11 DEF StoreStep, Aside, Map!Store, Map!Go, Map!locals, listenVars,
    eventVars, CallInv, LocalType, PlaceInv, ListenInv, MapInv, MapP!TypeOK,
    Placed, InMap, StaysPlaced
<1>12. ASSUME NEW o \in Calls, DropEventsStep(o)
       PROVE  StaysPlaced
  BY <1>12 DEF DropEventsStep, Aside, Map!DropEvents, Map!Go, Map!locals,
    Map!history, listenVars, eventVars, CallInv, LocalType, PlaceInv,
    ListenInv, MapInv, MapP!TypeOK, Placed, StaysPlaced
<1>13. ASSUME NEW o \in Calls, DropMapStep(o)
       PROVE  StaysPlaced
  BY <1>13 DEF DropMapStep, Aside, Map!DropMap, Map!Go, Map!locals,
    listenVars, eventVars, CallInv, LocalType, PlaceInv, ListenInv, MapInv,
    MapP!TypeOK, Placed, StaysPlaced
<1>14. ASSUME NEW o \in Calls, NEW n \in Names, VisitStep(o, n)
       PROVE  StaysPlaced
  BY <1>14 DEF VisitStep, Aside, Map!Visit, Map!Go, Map!history, listenVars,
    eventVars, CallInv, LocalType, PlaceInv, ListenInv, MapInv, MapP!TypeOK,
    Placed, StaysPlaced
<1>15. ASSUME NEW o \in Calls, DeleteStep(o)
       PROVE  StaysPlaced
  BY <1>15 DEF DeleteStep, Aside, Map!DeleteKey, Map!Go, listenVars,
    eventVars, CallInv, LocalType, PlaceInv, ListenInv, MapInv, MapP!TypeOK,
    Placed, StaysPlaced
<1>16. ASSUME NEW o \in Calls, Spawn(o)
       PROVE  StaysPlaced
  BY <1>16 DEF Spawn, Map!Report, Map!Go, listenVars, unloadVars, CallInv,
    LocalType, PlaceInv, ListenInv, MapInv, MapP!TypeOK, Placed, StaysPlaced
<1>17. ASSUME NEW o \in Calls, EventStart(o)
       PROVE  StaysPlaced
  BY <1>17 DEF EventStart, mapVars, listenVars, unloadVars, CallInv,
    LocalType, PlaceInv, ListenInv, MapInv, MapP!TypeOK, Placed, StaysPlaced
<1>18. ASSUME NEW o \in Calls, NEW l \in Calls, Shutdown(o, l)
       PROVE  StaysPlaced
  BY <1>18 DEF Shutdown, mapVars, unloadVars, CallInv, LocalType, PlaceInv,
    ListenInv, MapInv, MapP!TypeOK, Placed, StaysPlaced
<1>19. ASSUME NEW o \in Calls, Cancel(o)
       PROVE  StaysPlaced
  BY <1>19 DEF Cancel, mapVars, listenVars, unloadVars, CallInv, LocalType,
    PlaceInv, ListenInv, MapInv, MapP!TypeOK, Placed, StaysPlaced
<1>20. ASSUME NEW o \in Calls, Await(o)
       PROVE  StaysPlaced
  BY <1>20 DEF Await, Goto, mapVars, listenVars, unloadVars, eventVars,
    CallInv, LocalType, PlaceInv, ListenInv, MapInv, MapP!TypeOK, Placed,
    StaysPlaced
<1>21. CASE UNCHANGED vars
  BY <1>21 DEF vars, mapVars, listenVars, unloadVars, eventVars, CallInv,
    LocalType, PlaceInv, ListenInv, MapInv, MapP!TypeOK, Placed, StaysPlaced
<1> QED
  BY NextCases,
     <1>1, <1>2, <1>3, <1>4, <1>5, <1>6, <1>7, <1>8, <1>9, <1>10, <1>11,
     <1>12, <1>13, <1>14, <1>15, <1>16, <1>17, <1>18, <1>19, <1>20, <1>21 DEF Case

(* Which steps change the map, and what is taken out of it. *)
MapChanges ==
  /\ UNCHANGED store \/ \E p \in Calls : StoreStep(p) \/ DeleteStep(p)
  /\ \/ UNCHANGED <<tmp, evmap>>
     \/ \E p \in Calls : DeleteStep(p) \/ Spawn(p)
     \/ \E p, l \in Calls : Shutdown(p, l)

(* What changes the map, and what is taken out of it. *)
LEMMA ChangeStep ==
  ASSUME [Next]_vars
  PROVE  MapChanges
<1>1. ASSUME NEW o \in Calls, NEW n \in Names, NEW a \in Addrs, Listen(o, n, a)
      PROVE  MapChanges
  BY <1>1 DEF Listen, Goto, mapVars, unloadVars, eventVars, MapChanges
<1>2. ASSUME NEW o \in Calls, Swap(o)
      PROVE  MapChanges
  BY <1>2 DEF Swap, Goto, mapVars, listenVars, unloadVars, eventVars,
    MapChanges
<1>3. ASSUME NEW o \in Calls, Bind(o)
      PROVE  MapChanges
  BY <1>3 DEF Bind, Goto, mapVars, unloadVars, eventVars, MapChanges
<1>4. ASSUME NEW o \in Calls, SetCall(o)
      PROVE  MapChanges
  BY <1>4 DEF SetCall, Goto, Map!Set, Map!Go, Map!history, listenVars,
    unloadVars, eventVars, MapChanges
<1>5. ASSUME NEW o \in Calls, NEW k \in Unloads, NEW ns \in SUBSET Names,
            k = "unload" => ns # {}, Unload(o, k, ns)
      PROVE  MapChanges
  BY <1>5 DEF Unload, Goto, mapVars, listenVars, unloadVars, eventVars,
    MapChanges
<1>6. ASSUME NEW o \in Calls, EventsCall(o)
      PROVE  MapChanges
  BY <1>6 DEF EventsCall, Goto, Map!Events, Map!locals, Map!history,
    mapVars, listenVars, eventVars, MapChanges
<1>7. ASSUME NEW o \in Calls, Install(o)
      PROVE  MapChanges
  BY <1>7 DEF Install, Goto, mapVars, listenVars, eventVars, MapChanges
<1>8. ASSUME NEW o \in Calls, DeleteCall(o)
      PROVE  MapChanges
  BY <1>8 DEF DeleteCall, Goto, Map!Remove, Map!Go, Map!history, listenVars,
    eventVars, MapChanges
<1>9. ASSUME NEW o \in Calls, CloseCall(o)
      PROVE  MapChanges
  BY <1>9 DEF CloseCall, Goto, Map!Close, Map!Go, Map!history, listenVars,
    eventVars, MapChanges
<1>10. ASSUME NEW o \in Calls, LoadStep(o)
       PROVE  MapChanges
  BY <1>10 DEF LoadStep, Aside, Map!Load, Map!Go, Map!history, listenVars,
    eventVars, MapChanges
<1>11. ASSUME NEW o \in Calls, StoreStep(o)
       PROVE  MapChanges
  BY <1>11 DEF StoreStep, Aside, Map!Store, Map!Go, Map!locals, listenVars,
    eventVars, MapChanges
<1>12. ASSUME NEW o \in Calls, DropEventsStep(o)
       PROVE  MapChanges
  BY <1>12 DEF DropEventsStep, Aside, Map!DropEvents, Map!Go, Map!locals,
    Map!history, listenVars, eventVars, MapChanges
<1>13. ASSUME NEW o \in Calls, DropMapStep(o)
       PROVE  MapChanges
  BY <1>13 DEF DropMapStep, Aside, Map!DropMap, Map!Go, Map!locals,
    listenVars, eventVars, MapChanges
<1>14. ASSUME NEW o \in Calls, NEW n \in Names, VisitStep(o, n)
       PROVE  MapChanges
  BY <1>14 DEF VisitStep, Aside, Map!Visit, Map!Go, Map!history, listenVars,
    eventVars, MapChanges
<1>15. ASSUME NEW o \in Calls, DeleteStep(o)
       PROVE  MapChanges
  BY <1>15 DEF DeleteStep, Aside, Map!DeleteKey, Map!Go, listenVars,
    eventVars, MapChanges
<1>16. ASSUME NEW o \in Calls, Spawn(o)
       PROVE  MapChanges
  BY <1>16 DEF Spawn, Map!Report, Map!Go, listenVars, unloadVars, MapChanges
<1>17. ASSUME NEW o \in Calls, EventStart(o)
       PROVE  MapChanges
  BY <1>17 DEF EventStart, mapVars, listenVars, unloadVars, MapChanges
<1>18. ASSUME NEW o \in Calls, NEW l \in Calls, Shutdown(o, l)
       PROVE  MapChanges
  BY <1>18 DEF Shutdown, mapVars, unloadVars, MapChanges
<1>19. ASSUME NEW o \in Calls, Cancel(o)
       PROVE  MapChanges
  BY <1>19 DEF Cancel, mapVars, listenVars, unloadVars, MapChanges
<1>20. ASSUME NEW o \in Calls, Await(o)
       PROVE  MapChanges
  BY <1>20 DEF Await, Goto, mapVars, listenVars, unloadVars, eventVars,
    MapChanges
<1>21. CASE UNCHANGED vars
  BY <1>21 DEF vars, mapVars, listenVars, unloadVars, eventVars, MapChanges
<1> QED
  BY NextCases,
     <1>1, <1>2, <1>3, <1>4, <1>5, <1>6, <1>7, <1>8, <1>9, <1>10, <1>11,
     <1>12, <1>13, <1>14, <1>15, <1>16, <1>17, <1>18, <1>19, <1>20, <1>21 DEF Case

(* A serving socket is handed on until it is shut down. *)
LEMMA ReachStep ==
  ASSUME MapInv, WantInv, CallInv, NoAll, OpenInv, FreeInv, ReachInv,
         raced \subseteq raced', contended \subseteq contended', [Next]_vars
  PROVE  ReachInv'
<1> SUFFICES ASSUME NEW l \in Calls, ln'[l] = "bound", Clean(l)'
             PROVE  Placed(l)' \/ InMap(l)' \/ Told(l)'
  BY DEF ReachInv
<1>1. CASE Placed(l) \/ ln'[l] # ln[l]
  BY <1>1, PlacedStep DEF StaysPlaced
<1>2. CASE ln[l] = "bound" /\ (InMap(l) \/ Told(l))
  <2>1. Clean(l)
    <3>1. lpc[l] # "ready"
      BY <1>2 DEF CallInv, ListenInv
    <3>2. want'[l] = want[l]
      BY <3>1, SettledStep
    <3> QED
      BY <3>2 DEF Clean
  <2>2. CASE InMap(l)
    <3>1. PICK n \in Names : store[n] = l
      BY <2>2 DEF InMap
    <3>2. l \in stored /\ name[l] = n /\ want[l] = {n}
      BY <3>1, CallsAssumption DEF MapInv, MapP!KeyInv, CallInv, HoldInv, ListenInv
    <3>3. n \notin raced \cup contended
      BY <2>1, <3>2 DEF Clean
    <3>4. CASE UNCHANGED store
      BY <3>1, <3>4 DEF InMap
    <3>5. ASSUME NEW p \in Calls, StoreStep(p)
          PROVE  InMap(l)'
      <4>1. Opening(p, name[p]) /\ store' = [store EXCEPT ![name[p]] = p]
        BY <3>5 DEF StoreStep, Map!Store, Opening, CallInv, PlaceInv, ListenInv
      <4>2. name[p] # n
        BY <3>1, <3>3, <4>1, CallsAssumption DEF FreeInv
      <4> QED
        BY <3>1, <4>1, <4>2 DEF InMap, MapInv, MapP!TypeOK
    <3>6. ASSUME NEW p \in Calls, DeleteStep(p)
          PROVE  InMap(l)' \/ Told(l)'
      <4>1. /\ pc[p] = "delete" /\ evt[p]
            /\ store' = [store EXCEPT ![at[p]] = Nil]
        BY <3>6 DEF DeleteStep, Map!DeleteKey, OpenInv
      <4>2. CASE at[p] = n
        <5>1. prv[p] = l
          BY <3>1, <3>3, <4>1, <4>2 DEF MapInv, MapP!WindowInv
        <5>2. l \in tmp'[p]
          BY <3>6, <4>1, <5>1 DEF DeleteStep, Map!DeleteKey, MapInv, MapP!TypeOK
        <5> QED
          BY <5>2 DEF Told
      <4>3. CASE at[p] # n
        BY <3>1, <4>1, <4>3 DEF InMap, MapInv, MapP!TypeOK
      <4> QED
        BY <4>2, <4>3
    <3> QED
      BY <3>4, <3>5, <3>6, ChangeStep DEF MapChanges
  <2>3. CASE Told(l)
    <3>1. PICK o \in Calls : l \in tmp[o] \/ l \in evmap[o]
      BY <2>3 DEF Told
    <3>2. CASE UNCHANGED <<tmp, evmap>>
      BY <3>1, <3>2 DEF Told
    <3>3. ASSUME NEW p \in Calls, DeleteStep(p)
          PROVE  Told(l)'
      <4>1. tmp[o] \subseteq tmp'[o] /\ evmap' = evmap
        BY <3>3 DEF DeleteStep, Aside, eventVars, Map!DeleteKey, MapInv, MapP!TypeOK
      <4> QED
        BY <3>1, <4>1 DEF Told
    <3>4. ASSUME NEW p \in Calls, Spawn(p)
          PROVE  Told(l)'
      <4>1. tmp' = [tmp EXCEPT ![p] = {}]
        BY <3>4 DEF Spawn, Map!Report
      <4>2. CASE tmp[p] = {}
        BY <3>1, <3>4, <4>1, <4>2 DEF Spawn, Told, MapInv, MapP!TypeOK
      <4>3. CASE tmp[p] # {}
        <5>1. evmap' = [evmap EXCEPT ![p] = tmp[p]]
          BY <3>4, <4>3 DEF Spawn
        <5>2. evmap[p] = {}
          BY <3>4 DEF Spawn, Map!Report, CallInv, EventInv, LocalType
        <5> QED
          BY <3>1, <4>1, <5>1, <5>2 DEF Told, CallInv, LocalType, MapInv, MapP!TypeOK
      <4> QED
        BY <4>2, <4>3
    <3>5. ASSUME NEW p \in Calls, NEW m \in Calls, Shutdown(p, m)
          PROVE  Told(l)'
      <4>1. l # m
        BY <3>5 DEF Shutdown, CallInv, LocalType
      <4>2. tmp' = tmp /\ (l \in evmap[o] => l \in evmap'[o])
        BY <3>5, <4>1 DEF Shutdown, mapVars, CallInv, LocalType
      <4> QED
        BY <3>1, <4>2 DEF Told
    <3> QED
      BY <3>2, <3>3, <3>4, <3>5, ChangeStep DEF MapChanges
  <2> QED
    BY <1>2, <2>2, <2>3
<1>3. CASE ~Placed(l) /\ ln'[l] = ln[l] /\ ~InMap(l) /\ ~Told(l)
  <2>1. lpc[l] # "ready"
    BY <1>3 DEF CallInv, ListenInv
  <2>2. want'[l] = want[l]
    BY <2>1, SettledStep
  <2>3. Clean(l)
    BY <2>2 DEF Clean
  <2> QED
    BY <1>3, <2>3 DEF ReachInv
<1> QED
  BY <1>1, <1>2, <1>3

(* The invariants of a serving socket hold while nobody has unloaded       *)
(* everything.                                                             *)
SocketInv ==
  /\ Recorded
  /\ NoAll => OpenInv /\ FreeInv /\ ReachInv /\ (~doubled => OneInv)

(* They hold in every such state. *)
LEMMA SocketAlways == Spec => []SocketInv
<1>1. Init => SocketInv
  BY DEF Init, Map!Init, SocketInv, Recorded, NewlyContended, Opening, OpenInv,
    FreeInv, ReachInv, OneInv
<1>2. ASSUME MapInv, WantInv, CallInv, SocketInv, [Next]_vars
      PROVE  SocketInv'
  <2>1. Recorded' /\ raced \subseteq raced' /\ contended \subseteq contended'
    <3>1. CASE Record
      BY <3>1 DEF Record, Recorded
    <3>2. CASE UNCHANGED vars
      BY <1>2, <3>2 DEF vars, mapVars, SocketInv, Recorded, NewlyContended, Opening
    <3> QED
      BY <1>2, <3>1, <3>2 DEF Next
  <2>2. ASSUME NoAll'
        PROVE  OpenInv' /\ FreeInv' /\ ReachInv' /\ (~doubled' => OneInv')
    <3>1. NoAll
      BY <1>2, <2>2, SettledStep DEF NoAll, CallInv, PlaceInv
    <3>2. OpenInv /\ FreeInv /\ ReachInv
      BY <1>2, <3>1 DEF SocketInv
    <3>3. ASSUME ~doubled'
          PROVE  OneInv'
      <4>1. OneInv
        BY <1>2, <3>1, <3>3, DoubledStep DEF SocketInv
      <4> QED
        BY <1>2, <2>2, <3>1, <3>3, <4>1, OneStep
    <3> QED
      BY <1>2, <2>1, <2>2, <3>1, <3>2, <3>3, OpenStep, FreeStep, ReachStep DEF SocketInv
  <2> QED
    BY <2>1, <2>2 DEF SocketInv
<1> QED
  BY <1>1, <1>2, MapAlways, WantAlways, CallAlways, PTL DEF Spec

(* As long as nobody has unloaded everything, a serving socket is still    *)
(* with the Listen that opened it, in the map under its name, or with an   *)
(* Unload whose event has yet to run or is shutting it down, unless calls  *)
(* overlapped on its name or two Unloads each made an events object        *)
(* (itermap.go, Events: the check and the assignment are not one step).    *)
THEOREM ReachTheorem == Spec => []SocketsReachable
<1>1. ASSUME CallInv, SocketInv
      PROVE  SocketsReachable
  <2> SUFFICES ASSUME NEW l \in Calls, ln[l] = "bound", Clean(l), NoAll, ~doubled
               PROVE  Reachable(l)
    BY DEF SocketsReachable, Clean, NoAll
  <2>1. OneInv /\ (Placed(l) \/ InMap(l) \/ Told(l))
    BY <1>1 DEF SocketInv, ReachInv
  <2>2. CASE Placed(l) \/ InMap(l)
    BY <2>2 DEF Placed, InMap, Reachable
  <2>3. CASE Told(l)
    <3>1. PICK o \in Calls : l \in tmp[o] \/ l \in evmap[o]
      BY <2>3 DEF Told
    <3>2. l \in evmap[o] => ev[o] \in {"spawned", "running"}
      BY <1>1, <2>1 DEF OneInv, CallInv, LocalType, EventInv
    <3> QED
      BY <3>1, <3>2 DEF Reachable
  <2> QED
    BY <2>1, <2>2, <2>3
<1> QED
  BY <1>1, CallAlways, SocketAlways, PTL
===========================================================================
