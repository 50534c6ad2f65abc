--------------------------- MODULE WatcherProofs ---------------------------
(***************************************************************************)
(* Theorems about the file watcher (module Watcher), for any files,        *)
(* handlers and number of changes.                                         *)
(***************************************************************************)
EXTENDS Watcher, SequenceTheorems, TLAPS

(* The operations after which the cache has to be looked at again, and     *)
(* those that remove the file.                                             *)
Changing == Ops \ {"Chmod"}
Removal == {"Remove", "Rename"}

HasEvent(f, S) == \E i \in DOMAIN events : events[i].name = f /\ events[i].op \in S

(* The change will still be handled by a handler that has not begun.       *)
Later(f) == HasEvent(f, Changing) \/ timer[f] = "running"

Spared(f) == f \notin stopped /\ f \notin overlapped

(* A timer is made for a Create or a Write.                                *)
OpInv == \A f \in Files : timerop[f] \in {"Create", "Write"}

(* Without an overlap one handler at most uses the entry of a file.        *)
SoleInv == \A f \in Files : f \notin overlapped =>
             \A h, k \in Using(f) : h = k

(* A file that is gone: its removal is queued or handled, or its entry is  *)
(* gone too and nobody is about to make one.                               *)
GoneInv(f) ==
  there[f] = "absent" =>
    \/ HasEvent(f, Removal)
    \/ \E h \in Using(f) : hpc[h] = "drop"
    \/ cached[f] = Nil /\ \A h \in Using(f) : hpc[h] = "stat"

(* A handler that holds an outdated time is followed by another one.       *)
HeldInv(f) ==
  \A h \in Using(f) :
    hpc[h] \in {"compare", "load", "store"} /\ fi[h].mtime # ModTime(f) => Later(f)

(* An entry of another time than the file.                                 *)
OldInv(f) ==
  cached[f] # Nil /\ cached[f].mtime # ModTime(f) =>
    \/ Later(f)
    \/ \E h \in Using(f) : hpc[h] \in {"stat", "compare", "drop"}
    \/ there[f] = "absent"

(* What a handler holds is not older than the time it goes with.           *)
HoldInv ==
  \A h \in Handlers :
    /\ hpc[h] \in {"compare", "load", "store"} =>
         fi[h].mtime <= ModTime(hfile[h])
    /\ hpc[h] = "store" =>
         /\ read[h] \in 1..Version(hfile[h])
         /\ fi[h].mtime <= born[hfile[h]][read[h]]

PendInv == \A f \in Files : Spared(f) => GoneInv(f) /\ HeldInv(f) /\ OldInv(f)

-----------------------------------------------------------------------------
(* Types. *)

(* The callback of an event, by its operation. *)
LEMMA CallbackType ==
  ASSUME NEW op \in Ops
  PROVE  /\ Callback(op) \in {"stat", "drop", "finish"}
         /\ op \in {"Create", "Write"} => Callback(op) = "stat"
         /\ op \in Removal => Callback(op) = "drop"
         /\ op = "Chmod" => Callback(op) = "finish"
BY DEF Callback, Ops, Removal

(* The types hold at the start. *)
LEMMA InitType == Init => TypeOK
BY MaxChangesAssumption, NilAssumption
   DEF Init, TypeOK, Version, Ops, Steps, Stamp, Stat, NoStat

(* An event of the operating system keeps the types, *)
LEMMA EventType ==
  ASSUME TypeOK, NEW f \in Files, NEW op \in Ops, Event(f, op),
         born' \in [Files -> Seq(Nat)], \A g \in Files : Len(born'[g]) > 0,
         there' \in [Files -> {"absent", "empty", "full"}]
  PROVE  TypeOK'
<1>1. changes' \in 0..MaxChanges
  BY MaxChangesAssumption DEF TypeOK, Event
<1>2. events' \in Seq([name : Files, op : Ops])
  BY DEF TypeOK, Event
<1> QED BY <1>1, <1>2 DEF TypeOK, Event, timerVars, handlerVars, Version

(* a write makes a new version that is not older, *)
LEMMA NewVersionType ==
  ASSUME TypeOK, NEW f \in Files, NEW content \in {"empty", "full"},
         NewVersion(f, content)
  PROVE  /\ born' \in [Files -> Seq(Nat)]
         /\ \A g \in Files : Len(born'[g]) > 0
         /\ there' \in [Files -> {"absent", "empty", "full"}]
         /\ Version(f)' = Version(f) + 1
         /\ \A v \in 1..Version(f) : born'[f][v] = born[f][v]
         /\ ModTime(f)' >= ModTime(f)
         /\ \A g \in Files \ {f} : born'[g] = born[g] /\ there'[g] = there[g]
         /\ there'[f] = content
<1>1. PICK m \in {ModTime(f), ModTime(f) + 1} :
        born' = [born EXCEPT ![f] = Append(born[f], m)]
  BY DEF NewVersion
<1>2. born[f] \in Seq(Nat) /\ Len(born[f]) > 0 /\ Len(born[f]) \in Nat
  BY DEF TypeOK, Version
<1>3. ModTime(f) \in Nat
  BY <1>2 DEF ModTime, Version
<1>4. m \in Nat
  BY <1>1, <1>3
<1>5. /\ Append(born[f], m) \in Seq(Nat)
      /\ Len(Append(born[f], m)) = Len(born[f]) + 1
      /\ Append(born[f], m)[Len(born[f]) + 1] = m
      /\ \A v \in 1..Len(born[f]) : Append(born[f], m)[v] = born[f][v]
  BY <1>2, <1>4
<1>6. born'[f] = Append(born[f], m)
  BY <1>1 DEF TypeOK
<1>7. /\ born' \in [Files -> Seq(Nat)]
      /\ \A g \in Files \ {f} : born'[g] = born[g]
  BY <1>1, <1>5 DEF TypeOK
<1>8. ASSUME NEW g \in Files PROVE Len(born'[g]) > 0
  <2>1. CASE g = f
    BY <1>2, <1>5, <1>6, <2>1
  <2>2. CASE g # f
    BY <1>7, <2>2 DEF TypeOK, Version
  <2> QED BY <2>1, <2>2
<1>9. /\ there' \in [Files -> {"absent", "empty", "full"}]
      /\ there'[f] = content
      /\ \A g \in Files \ {f} : there'[g] = there[g]
  BY DEF TypeOK, NewVersion
<1>10. ModTime(f)' = m
  BY <1>2, <1>5, <1>6 DEF ModTime, Version
<1>11. m >= ModTime(f)
  BY <1>1, <1>3
<1> QED BY <1>2, <1>5, <1>6, <1>7, <1>8, <1>9, <1>10, <1>11 DEF Version

(* a handler takes up one file, *)
LEMMA ProcessType ==
  ASSUME TypeOK, NEW h \in Handlers, NEW f \in Files, NEW op \in Ops,
         ProcessEvent(h, f, op),
         events' \in Seq([name : Files, op : Ops]),
         timer' \in [Files -> {"none", "idle", "running"}],
         timerop' \in [Files -> Ops]
  PROVE  TypeOK'
<1>1. hpc' \in [Handlers -> Steps] /\ hfile' \in [Handlers -> Files \cup {Nil}]
  BY CallbackType DEF TypeOK, ProcessEvent, Steps
<1>2. \A k \in Handlers : hpc'[k] # "idle" => hfile'[k] \in Files
  BY DEF TypeOK, ProcessEvent
<1>3. overlapped' \subseteq Files
  BY DEF TypeOK, ProcessEvent
<1> QED
  BY <1>1, <1>2, <1>3 DEF TypeOK, ProcessEvent, diskVars, Version

(* an event is taken from the front of the queue, *)
LEMMA HeadTail ==
  ASSUME TypeOK, events # <<>>
  PROVE  /\ Head(events) \in [name : Files, op : Ops]
         /\ Tail(events) \in Seq([name : Files, op : Ops])
         /\ Head(events).name \in Files /\ Head(events).op \in Ops
<1>1. events \in Seq([name : Files, op : Ops])
  BY DEF TypeOK
<1>2. /\ Head(events) \in [name : Files, op : Ops]
      /\ Tail(events) \in Seq([name : Files, op : Ops])
  BY <1>1, HeadTailProperties
<1> QED BY <1>2

(* the loop of the watcher keeps the types, *)
LEMMA LoopType ==
  ASSUME TypeOK, Loop
  PROVE  TypeOK'
<1>1. CASE Debounce
  <2>1. timer' \in [Files -> {"none", "idle", "running"}] /\ timerop' \in [Files -> Ops]
    BY <1>1, HeadTail DEF Debounce, Restart, TypeOK
  <2>2. events' \in Seq([name : Files, op : Ops])
    BY <1>1, HeadTail DEF Debounce
  <2> QED
    BY <1>1, <2>1, <2>2 DEF TypeOK, Debounce, diskVars, handlerVars, Version
<1>2. ASSUME NEW h \in Handlers, Dispatch(h) PROVE TypeOK'
  <2>1. /\ events' \in Seq([name : Files, op : Ops])
        /\ Head(events).name \in Files /\ Head(events).op \in Ops
        /\ ProcessEvent(h, Head(events).name, Head(events).op)
    BY <1>2, HeadTail DEF Dispatch
  <2>2. timer' \in [Files -> {"none", "idle", "running"}] /\ timerop' \in [Files -> Ops]
    BY <1>2 DEF Dispatch, timerVars, TypeOK
  <2> QED BY <2>1, <2>2, ProcessType
<1> QED BY <1>1, <1>2 DEF Loop

(* so does a timer, *)
LEMMA FireType ==
  ASSUME TypeOK, NEW h \in Handlers, NEW f \in Files, Fire(h, f)
  PROVE  TypeOK'
<1>1. /\ events' \in Seq([name : Files, op : Ops])
      /\ timer' \in [Files -> {"none", "idle", "running"}]
      /\ timerop' \in [Files -> Ops]
      /\ timerop[f] \in Ops
  BY DEF Fire, TypeOK
<1> QED BY <1>1, ProcessType DEF Fire

(* a file has a version and a time, *)
LEMMA FileFacts ==
  ASSUME TypeOK, NEW f \in Files
  PROVE  /\ Version(f) \in Nat \ {0}
         /\ ModTime(f) \in Nat
         /\ \A v \in 1..Version(f) : born[f][v] \in Nat
<1>1. born[f] \in Seq(Nat) /\ Len(born[f]) > 0 /\ Len(born[f]) \in Nat
  BY DEF TypeOK, Version
<1> QED BY <1>1 DEF Version, ModTime

(* A step that moves handler h, which works on a file, to another step.    *)
LEMMA GotoType ==
  ASSUME TypeOK, NEW h \in Handlers, hpc[h] # "idle", NEW step \in Steps, Goto(h, step)
  PROVE  /\ hfile[h] \in Files
         /\ hpc' \in [Handlers -> Steps]
         /\ hpc'[h] = step
         /\ \A k \in Handlers \ {h} : hpc'[k] = hpc[k]
BY DEF TypeOK, Goto

(* a handler keeps the types, *)
LEMMA HandleType ==
  ASSUME TypeOK, NEW h \in Handlers, Handle(h)
  PROVE  TypeOK'
<1> DEFINE f == hfile[h]
<1>1. CASE StatFile(h)
  <2>1. /\ f \in Files /\ hpc' \in [Handlers -> Steps]
        /\ \A k \in Handlers \ {h} : hpc'[k] = hpc[k]
    BY <1>1, GotoType DEF StatFile, Steps
  <2>2. [mtime |-> ModTime(f), empty |-> there[f] = "empty"] \in Stat
    BY <2>1, FileFacts DEF Stat
  <2>3. fi' \in [Handlers -> Stat]
    BY <1>1, <2>2 DEF StatFile, TypeOK
  <2> QED
    BY <1>1, <2>1, <2>3 DEF StatFile, TypeOK, diskVars, timerVars, Version
<1>2. CASE Compare(h)
  <2>1. /\ f \in Files /\ hpc' \in [Handlers -> Steps]
        /\ \A k \in Handlers \ {h} : hpc'[k] = hpc[k]
    BY <1>2, GotoType DEF Compare, Steps
  <2>2. cached' \in [Files -> Stamp \cup {Nil}]
    BY <1>2, <2>1 DEF Compare, TypeOK
  <2> QED
    BY <1>2, <2>1, <2>2 DEF Compare, TypeOK, diskVars, timerVars, Version
<1>3. CASE Load(h)
  <2>1. /\ f \in Files /\ hpc' \in [Handlers -> Steps]
        /\ \A k \in Handlers \ {h} : hpc'[k] = hpc[k]
    BY <1>3, GotoType DEF Load, Steps
  <2>2. read' \in [Handlers -> Nat]
    BY <1>3, <2>1, FileFacts DEF Load, TypeOK
  <2> QED
    BY <1>3, <2>1, <2>2 DEF Load, TypeOK, diskVars, timerVars, Version
<1>4. CASE Store(h)
  <2>1. /\ f \in Files /\ hpc' \in [Handlers -> Steps]
        /\ \A k \in Handlers \ {h} : hpc'[k] = hpc[k]
    BY <1>4, GotoType DEF Store, Steps
  <2>2. fi[h].mtime \in Nat /\ read[h] \in Nat
    BY DEF TypeOK, Stat
  <2>3. Entry(h) \in Stamp
    BY <2>2 DEF Entry, Stamp
  <2>4. cached' \in [Files -> Stamp \cup {Nil}]
    BY <1>4, <2>1, <2>3 DEF Store, TypeOK
  <2> QED
    BY <1>4, <2>1, <2>4 DEF Store, TypeOK, diskVars, timerVars, Version
<1>5. CASE Drop(h)
  <2>1. /\ f \in Files /\ hpc' \in [Handlers -> Steps]
        /\ \A k \in Handlers \ {h} : hpc'[k] = hpc[k]
    BY <1>5, GotoType DEF Drop, Steps
  <2>2. cached' \in [Files -> Stamp \cup {Nil}]
    BY <1>5, <2>1 DEF Drop, TypeOK
  <2> QED
    BY <1>5, <2>1, <2>2 DEF Drop, TypeOK, diskVars, timerVars, Version
<1>6. CASE Finish(h)
  <2>1. /\ f \in Files /\ hpc' \in [Handlers -> Steps]
        /\ hpc'[h] = "idle"
        /\ \A k \in Handlers \ {h} : hpc'[k] = hpc[k]
    BY <1>6, GotoType DEF Finish, Steps
  <2>2. /\ hfile' \in [Handlers -> Files \cup {Nil}]
        /\ \A k \in Handlers \ {h} : hfile'[k] = hfile[k]
        /\ timer' \in [Files -> {"none", "idle", "running"}]
        /\ stopped' \subseteq Files
    BY <1>6, <2>1 DEF Finish, TypeOK
  <2>3. NoStat \in Stat
    BY DEF NoStat, Stat
  <2>4. fi' \in [Handlers -> Stat] /\ read' \in [Handlers -> Nat]
    BY <1>6, <2>3 DEF Finish, TypeOK
  <2> QED
    BY <1>6, <2>1, <2>2, <2>4 DEF Finish, TypeOK, diskVars, timerVars, Version
<1> QED BY <1>1, <1>2, <1>3, <1>4, <1>5, <1>6 DEF Handle

(* so does a change of a file, *)
LEMMA ChangesType ==
  ASSUME TypeOK, NEW f \in Files,
         Creates(f) \/ Writes(f) \/ Removes(f) \/ Chmods(f)
  PROVE  TypeOK'
<1>1. CASE Creates(f) \/ Writes(f)
  <2>1. PICK content \in {"empty", "full"} : NewVersion(f, content)
    BY <1>1 DEF Creates, Writes
  <2>2. PICK op \in Ops : Event(f, op)
    BY <1>1 DEF Creates, Writes, Ops
  <2> QED BY <2>1, <2>2, NewVersionType, EventType
<1>2. CASE Removes(f)
  <2>1. PICK op \in Ops : Event(f, op)
    BY <1>2 DEF Removes, Ops
  <2>2. /\ born' = born /\ there' \in [Files -> {"absent", "empty", "full"}]
    BY <1>2 DEF Removes, TypeOK
  <2> QED BY <2>1, <2>2, EventType DEF TypeOK, Version
<1>3. CASE Chmods(f)
  BY <1>3, EventType DEF Chmods, TypeOK, Version, Ops
<1> QED BY <1>1, <1>2, <1>3

(* and so every step. *)
LEMMA TypeStep ==
  ASSUME TypeOK, [Next]_vars
  PROVE  TypeOK'
<1>1. CASE Changes
  BY <1>1, ChangesType DEF Changes
<1>2. CASE Loop
  BY <1>2, LoopType
<1>3. ASSUME NEW h \in Handlers, (\E f \in Files : Fire(h, f)) \/ Handle(h)
      PROVE  TypeOK'
  BY <1>3, FireType, HandleType
<1>4. CASE UNCHANGED vars
  BY <1>4 DEF TypeOK, vars, diskVars, timerVars, handlerVars, Version
<1> QED BY <1>1, <1>2, <1>3, <1>4 DEF Next

(* Every variable keeps its type; in particular a handler that is running  *)
(* has a file.                                                             *)
THEOREM TypeTheorem == Spec => []TypeOK
BY InitType, TypeStep, PTL DEF Spec

-----------------------------------------------------------------------------
(* The time of an entry. *)

StampInv == StampNotNewer /\ HoldInv

(* The cached stamp is right at the start. *)
LEMMA InitStamp == Init => StampInv
BY DEF Init, StampInv, StampNotNewer, HoldInv, Version, ModTime

(* Versions are added, handlers and entries stay as they are.              *)
LEMMA StampGrows ==
  ASSUME TypeOK, TypeOK', StampInv, UNCHANGED <<handlerVars, cached>>,
         \A g \in Files : /\ Version(g)' >= Version(g)
                          /\ \A v \in 1..Version(g) : born'[g][v] = born[g][v]
                          /\ ModTime(g)' >= ModTime(g)
  PROVE  StampInv'
<1>1. ASSUME NEW g \in Files
      PROVE  /\ Version(g) \in Nat /\ Version(g)' \in Nat
             /\ ModTime(g) \in Nat /\ ModTime(g)' \in Nat
             /\ \A v \in 1..Version(g) : born[g][v] \in Nat
  <2>1. born'[g] \in Seq(Nat) /\ Len(born'[g]) > 0 /\ Len(born'[g]) \in Nat
    BY DEF TypeOK, Version
  <2>2. Version(g)' \in Nat /\ ModTime(g)' \in Nat
    BY <2>1 DEF Version, ModTime
  <2> QED BY <2>2, FileFacts
<1>2. ASSUME NEW g \in Files, cached'[g] # Nil
      PROVE  /\ cached'[g].ver \in 1..Version(g)'
             /\ born'[g][cached'[g].ver] >= cached'[g].mtime
  BY <1>1, <1>2 DEF StampInv, StampNotNewer
<1>3. ASSUME NEW h \in Handlers, hpc'[h] \in {"compare", "load", "store"}
      PROVE  /\ (fi[h].mtime <= ModTime(hfile[h]))'
             /\ hpc'[h] = "store" => /\ (read[h] \in 1..Version(hfile[h]))'
                                     /\ fi'[h].mtime <= born'[hfile'[h]][read'[h]]
  <2>1. /\ hfile[h] \in Files /\ hfile'[h] = hfile[h] /\ hpc'[h] = hpc[h]
        /\ fi'[h] = fi[h] /\ read'[h] = read[h]
    BY <1>3 DEF TypeOK, handlerVars
  <2>2. fi[h].mtime \in Nat
    BY DEF TypeOK, Stat
  <2> QED BY <1>1, <1>3, <2>1, <2>2 DEF StampInv, HoldInv
<1> QED BY <1>2, <1>3 DEF StampInv, StampNotNewer, HoldInv

(* A step that touches no file and no handler keeps it, *)
LEMMA StampSame ==
  ASSUME TypeOK, TypeOK', StampInv, UNCHANGED <<born, handlerVars, cached>>
  PROVE  StampInv'
<1>1. ASSUME NEW g \in Files
      PROVE  /\ Version(g)' >= Version(g)
             /\ \A v \in 1..Version(g) : born'[g][v] = born[g][v]
             /\ ModTime(g)' >= ModTime(g)
  BY FileFacts DEF Version, ModTime
<1> QED BY <1>1, StampGrows

(* so does a change of a file, which only makes it old, *)
LEMMA StampChanges ==
  ASSUME TypeOK, TypeOK', StampInv, Changes
  PROVE  StampInv'
<1>1. PICK f \in Files : Creates(f) \/ Writes(f) \/ Removes(f) \/ Chmods(f)
  BY DEF Changes
<1>2. UNCHANGED <<handlerVars, cached>>
  BY <1>1 DEF Creates, Writes, Removes, Chmods, Event
<1>3. CASE Creates(f) \/ Writes(f)
  <2>1. PICK content \in {"empty", "full"} : NewVersion(f, content)
    BY <1>3 DEF Creates, Writes
  <2>2. ASSUME NEW g \in Files
        PROVE  /\ Version(g)' >= Version(g)
               /\ \A v \in 1..Version(g) : born'[g][v] = born[g][v]
               /\ ModTime(g)' >= ModTime(g)
    <3>1. CASE g = f
      BY <2>1, <3>1, NewVersionType, FileFacts
    <3>2. CASE g # f
      <4>1. born'[g] = born[g]
        BY <2>1, <3>2, NewVersionType
      <4> QED BY <4>1, FileFacts DEF Version, ModTime
    <3> QED BY <3>1, <3>2
  <2> QED BY <1>2, <2>2, StampGrows
<1>4. CASE Removes(f) \/ Chmods(f)
  <2>1. born' = born
    BY <1>4 DEF Removes, Chmods
  <2> QED BY <1>2, <2>1, StampSame
<1> QED BY <1>1, <1>3, <1>4

(* the start of a handler, *)
LEMMA StampProcess ==
  ASSUME TypeOK, TypeOK', StampInv, NEW h \in Handlers, NEW f \in Files, NEW op \in Ops,
         ProcessEvent(h, f, op)
  PROVE  StampInv'
<1>1. /\ UNCHANGED <<born, fi, read, cached>>
      /\ hpc'[h] \in {"stat", "drop", "finish"}
      /\ \A k \in Handlers \ {h} : hpc'[k] = hpc[k] /\ hfile'[k] = hfile[k]
  BY CallbackType DEF ProcessEvent, TypeOK, diskVars
<1>2. StampNotNewer'
  BY <1>1 DEF StampInv, StampNotNewer, Version
<1>3. HoldInv'
  BY <1>1 DEF StampInv, HoldInv, Version, ModTime
<1> QED BY <1>2, <1>3 DEF StampInv

(* a handler, which stamps what it has read, *)
LEMMA StampHandle ==
  ASSUME TypeOK, TypeOK', StampInv, NEW h \in Handlers, Handle(h)
  PROVE  StampInv'
<1> DEFINE f == hfile[h]
<1>1. /\ f \in Files /\ born' = born
      /\ \A k \in Handlers \ {h} : /\ hpc'[k] = hpc[k] /\ hfile'[k] = hfile[k]
                                    /\ fi'[k] = fi[k] /\ read'[k] = read[k]
  BY DEF Handle, StatFile, Compare, Load, Store, Drop, Finish, Goto, TypeOK, diskVars
<1>2. /\ Version(f) \in Nat \ {0} /\ ModTime(f) \in Nat /\ ModTime(f) = born[f][Version(f)]
      /\ fi[h].mtime \in Nat
  BY <1>1, FileFacts DEF ModTime, TypeOK, Stat
<1>3. ASSUME \/ hpc'[h] \notin {"compare", "load", "store"}
             \/ /\ hfile'[h] = f /\ fi'[h].mtime <= ModTime(f)
                /\ hpc'[h] = "store" => /\ read'[h] \in 1..Version(f)
                                        /\ fi'[h].mtime <= born[f][read'[h]]
      PROVE  HoldInv'
  BY <1>1, <1>3 DEF StampInv, HoldInv, Version, ModTime
<1>4. ASSUME \A g \in Files : cached'[g] = cached[g] \/ cached'[g] = Nil
      PROVE  StampNotNewer'
  BY <1>1, <1>4 DEF StampInv, StampNotNewer, Version
<1>5. CASE StatFile(h)
  <2>1. fi'[h].mtime = ModTime(f) /\ hfile'[h] = f /\ hpc'[h] \in {"finish", "compare"}
        /\ cached' = cached
    BY <1>5 DEF StatFile, Goto, TypeOK
  <2> QED BY <1>2, <1>3, <1>4, <2>1 DEF StampInv
<1>6. CASE Compare(h)
  <2>1. hfile'[h] = f /\ hpc'[h] \in {"finish", "load"} /\ fi'[h] = fi[h]
    BY <1>6 DEF Compare, Goto, TypeOK
  <2>2. \A g \in Files : cached'[g] = cached[g] \/ cached'[g] = Nil
    BY <1>6 DEF Compare, TypeOK
  <2>3. fi[h].mtime <= ModTime(f)
    BY <1>6 DEF Compare, StampInv, HoldInv
  <2> QED BY <1>3, <1>4, <2>1, <2>2, <2>3 DEF StampInv
<1>7. CASE Load(h)
  <2>1. hfile'[h] = f /\ hpc'[h] \in {"finish", "store"} /\ fi'[h] = fi[h]
        /\ read'[h] = Version(f) /\ cached' = cached
    BY <1>7 DEF Load, Goto, TypeOK
  <2>2. fi[h].mtime <= ModTime(f)
    BY <1>7 DEF Load, StampInv, HoldInv
  <2>3. read'[h] \in 1..Version(f) /\ fi'[h].mtime <= born[f][read'[h]]
    BY <1>2, <2>1, <2>2
  <2> QED BY <1>3, <1>4, <2>1, <2>2, <2>3 DEF StampInv
<1>8. CASE Store(h)
  <2>1. hpc'[h] = "finish" /\ cached' = [cached EXCEPT ![f] = Entry(h)]
    BY <1>8 DEF Store, Goto, TypeOK
  <2>2. read[h] \in 1..Version(f) /\ fi[h].mtime <= born[f][read[h]]
    BY <1>8 DEF Store, StampInv, HoldInv
  <2>3. Entry(h).ver = read[h] /\ Entry(h).mtime = fi[h].mtime
    BY DEF Entry
  <2>4. born[f][read[h]] \in Nat
    BY <1>1, <2>2, FileFacts
  <2>5. ASSUME NEW g \in Files, cached'[g] # Nil
        PROVE  /\ cached'[g].ver \in 1..Version(g)
               /\ born[g][cached'[g].ver] >= cached'[g].mtime
    <3>1. CASE g = f
      <4>1. cached'[g] = Entry(h)
        BY <1>1, <2>1, <3>1 DEF TypeOK
      <4> QED BY <1>2, <2>2, <2>3, <2>4, <3>1, <4>1
    <3>2. CASE g # f
      BY <2>1, <2>5, <3>2 DEF StampInv, StampNotNewer, TypeOK
    <3> QED BY <3>1, <3>2
  <2>6. StampNotNewer'
    BY <1>1, <2>5 DEF StampNotNewer, Version
  <2> QED BY <1>3, <2>1, <2>6 DEF StampInv
<1>9. CASE Drop(h)
  <2>1. hpc'[h] = "finish" /\ \A g \in Files : cached'[g] = cached[g] \/ cached'[g] = Nil
    BY <1>9 DEF Drop, Goto, TypeOK
  <2> QED BY <1>3, <1>4, <2>1 DEF StampInv
<1>10. CASE Finish(h)
  <2>1. hpc'[h] = "idle" /\ cached' = cached
    BY <1>10 DEF Finish, Goto, TypeOK
  <2> QED BY <1>3, <1>4, <2>1 DEF StampInv
<1> QED BY <1>5, <1>6, <1>7, <1>8, <1>9, <1>10 DEF Handle

(* and so every step. *)
LEMMA StampStep ==
  ASSUME TypeOK, TypeOK', StampInv, [Next]_vars
  PROVE  StampInv'
<1>1. CASE Changes
  BY <1>1, StampChanges
<1>2. CASE Loop
  <2>1. CASE Debounce
    BY <2>1, StampSame DEF Debounce, diskVars
  <2>2. ASSUME NEW h \in Handlers, Dispatch(h) PROVE StampInv'
    BY <2>2, HeadTail, StampProcess DEF Dispatch
  <2> QED BY <1>2, <2>1, <2>2 DEF Loop
<1>3. ASSUME NEW h \in Handlers, NEW f \in Files, Fire(h, f) PROVE StampInv'
  <2>1. timerop[f] \in Ops
    BY DEF TypeOK
  <2> QED BY <1>3, <2>1, StampProcess DEF Fire
<1>4. ASSUME NEW h \in Handlers, Handle(h) PROVE StampInv'
  BY <1>4, StampHandle
<1>5. CASE UNCHANGED vars
  BY <1>5, StampSame DEF vars, diskVars
<1> QED BY <1>1, <1>2, <1>3, <1>4, <1>5 DEF Next

(* No entry of the cache holds content older than its modification time    *)
(* says, for any number of handlers of syncPath that overlap with writes:  *)
(* the time is taken before the content is read.                           *)
THEOREM StampTheorem == Spec => []StampNotNewer
<1>1. Init => TypeOK /\ StampInv
  BY InitType, InitStamp
<1>2. TypeOK /\ StampInv /\ [Next]_vars => (TypeOK /\ StampInv)'
  BY TypeStep, StampStep
<1>3. StampInv => StampNotNewer
  BY DEF StampInv
<1> QED BY <1>1, <1>2, <1>3, PTL DEF Spec

-----------------------------------------------------------------------------
(* A stale entry is about to be replaced. *)

(* A queued event stays, and a new one is queued. *)
LEMMA AppendEvent ==
  ASSUME TypeOK, NEW f \in Files, NEW op \in Ops, Event(f, op),
         NEW g \in Files, NEW S
  PROVE  /\ HasEvent(g, S) => HasEvent(g, S)'
         /\ op \in S => HasEvent(f, S)'
<1> DEFINE e == [name |-> f, op |-> op]
<1>1. events \in Seq([name : Files, op : Ops]) /\ e \in [name : Files, op : Ops]
  BY DEF TypeOK
<1>2. /\ Len(events) \in Nat /\ DOMAIN events = 1..Len(events)
      /\ events' \in Seq([name : Files, op : Ops])
      /\ DOMAIN events' = 1..(Len(events) + 1)
      /\ \A i \in 1..Len(events) : events'[i] = events[i]
      /\ events'[Len(events) + 1] = e
  BY <1>1, AppendProperties, LenProperties DEF Event
<1>3. ASSUME NEW i \in DOMAIN events, events[i].name = g, events[i].op \in S
      PROVE  HasEvent(g, S)'
  BY <1>2, <1>3 DEF HasEvent
<1>4. ASSUME op \in S PROVE HasEvent(f, S)'
  <2>1. e.name = f /\ e.op \in S
    BY <1>4
  <2> QED BY <1>2, <2>1 DEF HasEvent
<1> QED BY <1>3, <1>4 DEF HasEvent

(* Only the event at the front leaves the queue. *)
LEMMA TakeEvent ==
  ASSUME TypeOK, events # <<>>, events' = Tail(events),
         NEW g \in Files, NEW S, HasEvent(g, S)
  PROVE  HasEvent(g, S)' \/ (Head(events).name = g /\ Head(events).op \in S)
<1>1. events \in Seq([name : Files, op : Ops])
  BY DEF TypeOK
<1>2. /\ Len(events) \in Nat /\ DOMAIN events = 1..Len(events)
      /\ events' \in Seq([name : Files, op : Ops])
      /\ DOMAIN events' = 1..(Len(events) - 1)
      /\ \A i \in 1..(Len(events) - 1) : events'[i] = events[i + 1]
  BY <1>1, HeadTailProperties, LenProperties
<1>3. PICK i \in DOMAIN events : events[i].name = g /\ events[i].op \in S
  BY DEF HasEvent
<1>4. CASE i = 1
  BY <1>3, <1>4
<1>5. CASE i # 1
  <2>1. i - 1 \in DOMAIN events' /\ events'[i - 1] = events[i]
    BY <1>2, <1>5
  <2> QED BY <1>3, <2>1 DEF HasEvent
<1> QED BY <1>4, <1>5

(* Handlers of the file of another entry do not matter to an entry.        *)
LEMMA UsingOther ==
  ASSUME NEW h \in Handlers, NEW g \in Files,
         \A k \in Handlers \ {h} : hpc'[k] = hpc[k] /\ hfile'[k] = hfile[k],
         hfile[h] # g \/ hpc[h] \in {"idle", "finish"},
         hfile'[h] # g \/ hpc'[h] \in {"idle", "finish"}
  PROVE  /\ Using(g)' = Using(g)
         /\ \A k \in Using(g) : k # h /\ hpc'[k] = hpc[k]
BY DEF Using

(* What the invariants of an entry depend on.                              *)
LEMMA PendKept ==
  ASSUME NEW g \in Files,
         Using(g)' = Using(g),
         \A k \in Using(g) : hpc'[k] = hpc[k] /\ fi'[k] = fi[k],
         cached'[g] = cached[g], there'[g] = there[g], born'[g] = born[g],
         Later(g) => Later(g)', HasEvent(g, Removal) => HasEvent(g, Removal)',
         GoneInv(g), HeldInv(g), OldInv(g)
  PROVE  (GoneInv(g) /\ HeldInv(g) /\ OldInv(g))'
<1>1. ModTime(g)' = ModTime(g)
  BY DEF ModTime, Version
<1>2. GoneInv(g)'
  BY DEF GoneInv
<1>3. HeldInv(g)'
  BY <1>1 DEF HeldInv
<1>4. OldInv(g)'
  BY <1>1 DEF OldInv
<1> QED BY <1>2, <1>3, <1>4

(* A change of a file that makes the cache stale queues an event. *)
LEMMA PendChanges ==
  ASSUME TypeOK, TypeOK', PendInv, Changes
  PROVE  PendInv'
<1>1. PICK f \in Files : Creates(f) \/ Writes(f) \/ Removes(f) \/ Chmods(f)
  BY DEF Changes
<1>2. PICK op \in Ops :
        /\ Event(f, op)
        /\ \/ (Creates(f) \/ Writes(f)) /\ op \in {"Create", "Write"}
           \/ Removes(f) /\ op \in Removal
           \/ Chmods(f)
  <2>1. CASE Creates(f) \/ Writes(f)
    BY <2>1 DEF Creates, Writes, Ops
  <2>2. CASE Removes(f)
    BY <2>2 DEF Removes, Ops, Removal
  <2>3. CASE Chmods(f)
    BY <2>3 DEF Chmods, Ops
  <2> QED BY <1>1, <2>1, <2>2, <2>3
<1>3. UNCHANGED <<timer, hpc, hfile, fi, cached, stopped, overlapped>>
  BY <1>2 DEF Event, timerVars, handlerVars
<1>4. ASSUME NEW g \in Files, Spared(g)'
      PROVE  (GoneInv(g) /\ HeldInv(g) /\ OldInv(g))'
  <2>1. /\ GoneInv(g) /\ HeldInv(g) /\ OldInv(g)
        /\ Using(g)' = Using(g)
        /\ \A S : HasEvent(g, S) => HasEvent(g, S)'
        /\ Later(g) => Later(g)'
    BY <1>2, <1>3, <1>4, AppendEvent DEF PendInv, Spared, Using, Later
  <2>2. CASE there'[g] = there[g] /\ born'[g] = born[g]
    BY <1>3, <2>1, <2>2, PendKept
  <2>3. CASE g # f
    <3>1. there'[g] = there[g] /\ born'[g] = born[g]
      <4>1. CASE Creates(f) \/ Writes(f)
        BY <4>1, <2>3, NewVersionType DEF Creates, Writes
      <4>2. CASE Removes(f) \/ Chmods(f)
        BY <4>2, <2>3 DEF Removes, Chmods, TypeOK
      <4> QED BY <1>1, <4>1, <4>2
    <3> QED BY <2>2, <3>1
  <2>4. CASE g = f /\ (Creates(f) \/ Writes(f)) /\ op \in {"Create", "Write"}
    <3>1. HasEvent(g, Changing)'
      BY <1>2, <2>4, AppendEvent DEF Changing, Ops
    <3>2. there'[g] # "absent"
      BY <2>4, NewVersionType DEF Creates, Writes
    <3> QED BY <3>1, <3>2 DEF GoneInv, HeldInv, OldInv, Later
  <2>5. CASE g = f /\ op \in Removal
    <3>1. HasEvent(g, Changing)' /\ HasEvent(g, Removal)'
      BY <1>2, <2>5, AppendEvent DEF Changing, Ops, Removal
    <3> QED BY <3>1 DEF GoneInv, HeldInv, OldInv, Later
  <2>6. CASE g = f /\ Chmods(f)
    BY <2>2, <2>6 DEF Chmods
  <2> QED BY <1>2, <2>3, <2>4, <2>5, <2>6
<1> QED BY <1>4 DEF PendInv

(* A handler h begins to work for an event of f.                           *)
LEMMA ProcessFacts ==
  ASSUME TypeOK, NEW h \in Handlers, NEW f \in Files, NEW op \in Ops,
         ProcessEvent(h, f, op)
  PROVE  /\ UNCHANGED <<born, there, fi, cached, stopped>>
         /\ hpc[h] = "idle" /\ hpc'[h] = Callback(op) /\ hfile'[h] = f
         /\ \A k \in Handlers \ {h} : hpc'[k] = hpc[k] /\ hfile'[k] = hfile[k]
         /\ overlapped \subseteq overlapped'
         /\ \A g \in Files \ {f} : /\ Using(g)' = Using(g)
                                   /\ \A k \in Using(g) : hpc'[k] = hpc[k]
         /\ op = "Chmod" => /\ Using(f)' = Using(f)
                            /\ \A k \in Using(f) : hpc'[k] = hpc[k]
         /\ op # "Chmod" /\ f \notin overlapped' => Using(f) = {} /\ Using(f)' = {h}
<1>1. /\ UNCHANGED <<born, there, fi, cached, stopped>>
      /\ hpc[h] = "idle" /\ hpc'[h] = Callback(op) /\ hfile'[h] = f
      /\ \A k \in Handlers \ {h} : hpc'[k] = hpc[k] /\ hfile'[k] = hfile[k]
      /\ overlapped \subseteq overlapped'
  BY DEF ProcessEvent, TypeOK, diskVars
<1>2. ASSUME NEW g \in Files \ {f}
      PROVE  Using(g)' = Using(g) /\ \A k \in Using(g) : hpc'[k] = hpc[k]
  BY <1>1, UsingOther
<1>3. ASSUME op = "Chmod"
      PROVE  Using(f)' = Using(f) /\ \A k \in Using(f) : hpc'[k] = hpc[k]
  BY <1>1, <1>3, CallbackType, UsingOther
<1>4. ASSUME op # "Chmod", f \notin overlapped'
      PROVE  Using(f) = {} /\ Using(f)' = {h}
  <2>1. Using(f) = {}
    BY <1>4 DEF ProcessEvent
  <2>2. Callback(op) \in {"stat", "drop"}
    BY <1>4, CallbackType DEF Ops, Removal
  <2> QED BY <1>1, <2>1, <2>2 DEF Using
<1> QED BY <1>1, <1>2, <1>3, <1>4

(* A file that nobody handles is taken by one handler. *)
LEMMA SoleProcess ==
  ASSUME TypeOK, SoleInv, NEW h \in Handlers, NEW f \in Files, NEW op \in Ops,
         ProcessEvent(h, f, op)
  PROVE  SoleInv'
<1>1. ASSUME NEW g \in Files, g \notin overlapped', NEW j \in Using(g)', NEW k \in Using(g)'
      PROVE  j = k
  <2>1. CASE g # f \/ op = "Chmod"
    BY <1>1, <2>1, ProcessFacts DEF SoleInv
  <2>2. CASE g = f /\ op # "Chmod"
    BY <1>1, <2>2, ProcessFacts
  <2> QED BY <2>1, <2>2
<1> QED BY <1>1 DEF SoleInv

(* A step of handler h: nothing but its own file matters, and it uses the  *)
(* entry afterwards only if it did before.                                 *)
LEMMA HandleFacts ==
  ASSUME TypeOK, NEW h \in Handlers, Handle(h)
  PROVE  /\ UNCHANGED <<born, there, events, timerop, overlapped>>
         /\ hfile[h] \in Files
         /\ stopped \subseteq stopped'
         /\ \A k \in Handlers \ {h} : /\ hpc'[k] = hpc[k] /\ hfile'[k] = hfile[k]
                                      /\ fi'[k] = fi[k]
         /\ \A g \in Files \ {hfile[h]} :
              /\ Using(g)' = Using(g)
              /\ \A k \in Using(g) : k # h /\ hpc'[k] = hpc[k]
              /\ timer'[g] = timer[g] /\ cached'[g] = cached[g]
         /\ \A g \in Files : Using(g)' \subseteq Using(g)
<1>1. /\ UNCHANGED <<born, there, events, timerop, overlapped>>
      /\ hfile[h] \in Files /\ hpc[h] # "idle"
      /\ stopped \subseteq stopped'
      /\ \A k \in Handlers \ {h} : /\ hpc'[k] = hpc[k] /\ hfile'[k] = hfile[k]
                                    /\ fi'[k] = fi[k]
      /\ \A g \in Files \ {hfile[h]} : timer'[g] = timer[g] /\ cached'[g] = cached[g]
  BY DEF Handle, StatFile, Compare, Load, Store, Drop, Finish, Goto, TypeOK,
         diskVars, timerVars
<1>2. \/ hpc'[h] = "idle"
      \/ hfile'[h] = hfile[h] /\ hpc[h] # "finish"
  BY DEF Handle, StatFile, Compare, Load, Store, Drop, Finish, Goto, TypeOK
<1>3. ASSUME NEW g \in Files \ {hfile[h]}
      PROVE  Using(g)' = Using(g) /\ \A k \in Using(g) : k # h /\ hpc'[k] = hpc[k]
  BY <1>1, <1>2, <1>3, UsingOther
<1>4. ASSUME NEW g \in Files PROVE Using(g)' \subseteq Using(g)
  BY <1>1, <1>2 DEF Using
<1> QED BY <1>1, <1>3, <1>4

(* Timers are for Create and Write, and handlers that overlap are recorded. *)
LEMMA OpSoleStep ==
  ASSUME TypeOK, OpInv, SoleInv, [Next]_vars
  PROVE  OpInv' /\ SoleInv'
<1>1. CASE Changes
  <2>1. UNCHANGED <<timerop, hpc, hfile, overlapped>>
    BY <1>1 DEF Changes, Creates, Writes, Removes, Chmods, Event, timerVars, handlerVars
  <2> QED BY <2>1 DEF OpInv, SoleInv, Using
<1>2. CASE Debounce
  <2>1. UNCHANGED <<hpc, hfile, overlapped>>
    BY <1>2 DEF Debounce, handlerVars
  <2>2. OpInv'
    BY <1>2 DEF Debounce, OpInv, TypeOK
  <2> QED BY <2>1, <2>2 DEF SoleInv, Using
<1>3. ASSUME NEW h \in Handlers, Dispatch(h) PROVE OpInv' /\ SoleInv'
  BY <1>3, HeadTail, SoleProcess DEF Dispatch, timerVars, OpInv
<1>4. ASSUME NEW h \in Handlers, NEW f \in Files, Fire(h, f) PROVE OpInv' /\ SoleInv'
  <2>1. timerop[f] \in Ops
    BY DEF TypeOK
  <2> QED BY <1>4, <2>1, SoleProcess DEF Fire, OpInv
<1>5. ASSUME NEW h \in Handlers, Handle(h) PROVE OpInv' /\ SoleInv'
  BY <1>5, HandleFacts DEF OpInv, SoleInv
<1>6. CASE UNCHANGED vars
  BY <1>6 DEF vars, timerVars, handlerVars, OpInv, SoleInv, Using
<1> QED BY <1>1, <1>2, <1>3, <1>4, <1>5, <1>6 DEF Next, Loop

(* The event moves to the timer of its file, *)
LEMMA PendDebounce ==
  ASSUME TypeOK, PendInv, Debounce
  PROVE  PendInv'
<1> DEFINE evt == Head(events)
<1>1. /\ UNCHANGED <<born, there, hpc, hfile, fi, cached, stopped, overlapped>>
      /\ events # <<>> /\ events' = Tail(events)
      /\ evt.op \in {"Create", "Write"} /\ evt.name \in Files
      /\ timer' = [timer EXCEPT ![evt.name] = "running"]
  BY HeadTail DEF Debounce, Restart, diskVars, handlerVars
<1>2. ASSUME NEW g \in Files, Spared(g)'
      PROVE  (GoneInv(g) /\ HeldInv(g) /\ OldInv(g))'
  <2>1. GoneInv(g) /\ HeldInv(g) /\ OldInv(g) /\ Using(g)' = Using(g)
    BY <1>1, <1>2 DEF PendInv, Spared, Using
  <2>2. HasEvent(g, Removal) => HasEvent(g, Removal)'
    BY <1>1, TakeEvent DEF Removal
  <2>3. HasEvent(g, Changing) => HasEvent(g, Changing)' \/ evt.name = g
    BY <1>1, TakeEvent
  <2>4. evt.name = g \/ timer[g] = "running" => timer'[g] = "running"
    BY <1>1 DEF TypeOK
  <2>5. Later(g) => Later(g)'
    BY <2>3, <2>4 DEF Later
  <2> QED BY <1>1, <2>1, <2>2, <2>5, PendKept
<1> QED BY <1>2 DEF PendInv

(* or straight to a handler, *)
LEMMA PendDispatch ==
  ASSUME TypeOK, PendInv, NEW h \in Handlers, Dispatch(h)
  PROVE  PendInv'
<1> DEFINE f == Head(events).name
           op == Head(events).op
<1>1. /\ events # <<>> /\ events' = Tail(events) /\ timer' = timer
      /\ f \in Files /\ op \in Ops /\ op \notin {"Create", "Write"}
      /\ ProcessEvent(h, f, op)
  BY HeadTail DEF Dispatch, timerVars
<1> HIDE DEF f, op
<1>2. ASSUME NEW g \in Files, Spared(g)'
      PROVE  (GoneInv(g) /\ HeldInv(g) /\ OldInv(g))'
  <2>1. /\ GoneInv(g) /\ HeldInv(g) /\ OldInv(g)
        /\ UNCHANGED <<born, there, fi, cached>>
    BY <1>1, <1>2, ProcessFacts DEF PendInv, Spared
  <2>2. CASE g # f \/ op = "Chmod"
    <3>1. Using(g)' = Using(g) /\ \A k \in Using(g) : hpc'[k] = hpc[k]
      BY <1>1, <2>2, ProcessFacts
    <3>2. /\ HasEvent(g, Removal) => HasEvent(g, Removal)'
          /\ HasEvent(g, Changing) => HasEvent(g, Changing)'
      BY <1>1, <2>2, TakeEvent DEF Removal, Changing, f, op
    <3>3. Later(g) => Later(g)'
      BY <1>1, <3>2 DEF Later
    <3> QED BY <2>1, <3>1, <3>2, <3>3, PendKept
  <2>3. CASE g = f /\ op # "Chmod"
    <3>1. Using(g)' = {h} /\ hpc'[h] = Callback(op)
      BY <1>1, <1>2, <2>3, ProcessFacts DEF Spared
    <3>2. hpc'[h] = "drop"
      BY <1>1, <2>3, <3>1, CallbackType DEF Ops, Removal
    <3> QED BY <3>1, <3>2 DEF GoneInv, HeldInv, OldInv
  <2> QED BY <2>2, <2>3
<1> QED BY <1>2 DEF PendInv

(* the timer hands it to a handler, *)
LEMMA PendFire ==
  ASSUME TypeOK, OpInv, PendInv, NEW h \in Handlers, NEW f \in Files, Fire(h, f)
  PROVE  PendInv'
<1> DEFINE op == timerop[f]
<1>1. /\ events' = events /\ timer' = [timer EXCEPT ![f] = "idle"]
      /\ op \in {"Create", "Write"} /\ op \in Ops
      /\ ProcessEvent(h, f, op)
  BY DEF Fire, OpInv, Ops
<1> HIDE DEF op
<1>2. ASSUME NEW g \in Files, Spared(g)'
      PROVE  (GoneInv(g) /\ HeldInv(g) /\ OldInv(g))'
  <2>1. /\ GoneInv(g) /\ HeldInv(g) /\ OldInv(g)
        /\ UNCHANGED <<born, there, fi, cached>>
        /\ \A S : HasEvent(g, S)' = HasEvent(g, S)
    BY <1>1, <1>2, ProcessFacts DEF PendInv, Spared, HasEvent
  <2>2. CASE g # f
    <3>1. Using(g)' = Using(g) /\ \A k \in Using(g) : hpc'[k] = hpc[k]
      BY <1>1, <2>2, ProcessFacts
    <3>2. timer'[g] = timer[g]
      BY <1>1, <2>2 DEF TypeOK
    <3> QED BY <2>1, <3>1, <3>2, PendKept DEF Later
  <2>3. CASE g = f
    <3>1. Using(g) = {} /\ Using(g)' = {h} /\ hpc'[h] = Callback(op)
      BY <1>1, <1>2, <2>3, ProcessFacts DEF Spared
    <3>2. hpc'[h] = "stat"
      BY <1>1, <3>1, CallbackType
    <3> QED BY <2>1, <3>1, <3>2 DEF GoneInv, HeldInv, OldInv
  <2> QED BY <2>2, <2>3
<1> QED BY <1>2 DEF PendInv

(* and the handler ends with a cache that is up to date. *)
LEMMA PendHandle ==
  ASSUME TypeOK, SoleInv, PendInv, NEW h \in Handlers, Handle(h)
  PROVE  PendInv'
<1>f. PICK f \in Files : f = hfile[h]
  BY HandleFacts
<1>1. ASSUME NEW g \in Files, Spared(g)'
      PROVE  /\ Spared(g) /\ GoneInv(g) /\ HeldInv(g) /\ OldInv(g)
             /\ UNCHANGED <<born, there, events>>
             /\ \A S : HasEvent(g, S)' = HasEvent(g, S)
             /\ ModTime(g)' = ModTime(g)
  BY <1>f, <1>1, HandleFacts DEF PendInv, Spared, HasEvent, ModTime, Version
<1>2. ASSUME NEW g \in Files \ {f}, Spared(g)'
      PROVE  (GoneInv(g) /\ HeldInv(g) /\ OldInv(g))'
  <2>1. /\ Using(g)' = Using(g)
        /\ \A k \in Using(g) : hpc'[k] = hpc[k] /\ fi'[k] = fi[k]
        /\ timer'[g] = timer[g] /\ cached'[g] = cached[g]
    BY <1>f, HandleFacts DEF Using
  <2> QED BY <1>1, <1>2, <2>1, PendKept DEF Later
<1>3. ASSUME Spared(f)'
      PROVE  (GoneInv(f) /\ HeldInv(f) /\ OldInv(f))'
  <2>1. /\ Spared(f) /\ GoneInv(f) /\ HeldInv(f) /\ OldInv(f)
        /\ UNCHANGED <<born, there, events>>
        /\ \A S : HasEvent(f, S)' = HasEvent(f, S)
        /\ ModTime(f)' = ModTime(f)
    BY <1>1, <1>3
  <2>2. CASE Finish(h)
    <3>1. /\ hpc[h] = "finish" /\ hpc'[h] = "idle"
          /\ UNCHANGED <<cached>>
          /\ timer[f] # "running"
          /\ timer'[f] # "running"
      BY <1>f, <1>3, <2>2 DEF Finish, Goto, TypeOK, Spared
    <3>2. /\ Using(f)' = Using(f)
          /\ \A k \in Using(f) : hpc'[k] = hpc[k] /\ fi'[k] = fi[k]
      BY <1>f, <1>3, <3>1, HandleFacts DEF Using
    <3> QED BY <1>3, <2>1, <3>1, <3>2, PendKept DEF Later
  <2>3. CASE ~Finish(h)
    <3>1. /\ hpc[h] \in {"stat", "compare", "load", "store", "drop"}
          /\ timer' = timer /\ hfile' = hfile
      BY <1>f, <2>3 DEF Handle, StatFile, Compare, Load, Store, Drop, timerVars
    <3>2. Using(f) = {h}
      BY <1>f, <1>3, <2>1, <3>1 DEF Using, SoleInv, Spared
    <3>3. /\ Using(f)' = IF hpc'[h] = "finish" \/ hpc'[h] = "idle" THEN {} ELSE {h}
          /\ Later(f)' = Later(f)
      BY <1>f, <2>1, <3>1, <3>2, HandleFacts DEF Using, Later
    <3>4. CASE StatFile(h)
      <4>1. CASE there[f] = "absent"
        <5>1. hpc'[h] = "finish" /\ cached' = cached /\ hpc[h] = "stat"
          BY <1>f, <3>4, <4>1 DEF StatFile, Goto, TypeOK
        <5> QED BY <2>1, <3>2, <3>3, <4>1, <5>1 DEF GoneInv, HeldInv, OldInv
      <4>2. CASE there[f] # "absent"
        <5>1. hpc'[h] = "compare" /\ cached' = cached /\ fi'[h].mtime = ModTime(f)
          BY <1>f, <3>4, <4>2 DEF StatFile, Goto, TypeOK
        <5> QED BY <2>1, <3>2, <3>3, <4>2, <5>1 DEF GoneInv, HeldInv, OldInv
      <4> QED BY <4>1, <4>2
    <3>5. CASE hpc[h] \in {"compare", "load", "store"}
      <4>1. GoneInv(f)'
        BY <2>1, <3>2, <3>5 DEF GoneInv
      <4>2. fi[h].mtime # ModTime(f) => Later(f)
        BY <2>1, <3>2, <3>5 DEF HeldInv
      <4>3. CASE Compare(h)
        <5>1. /\ hpc'[h] \in {"load", "finish"} /\ fi' = fi
              /\ cached'[f] = Nil \/ (cached' = cached /\ cached[f].mtime = fi[h].mtime)
          BY <1>f, <1>3, <4>3 DEF Compare, OutOfDate, Goto, TypeOK
        <5>2. HeldInv(f)'
          BY <2>1, <3>3, <4>2, <5>1 DEF HeldInv
        <5>3. OldInv(f)'
          BY <2>1, <3>3, <4>2, <5>1 DEF OldInv
        <5> QED BY <4>1, <5>2, <5>3
      <4>4. CASE Load(h)
        <5>1. /\ hpc[h] = "load" /\ hpc'[h] \in {"store", "finish"} /\ fi' = fi
              /\ cached' = cached
          BY <1>f, <4>4 DEF Load, Goto, TypeOK
        <5>2. HeldInv(f)'
          BY <2>1, <3>3, <4>2, <5>1 DEF HeldInv
        <5>3. OldInv(f)'
          BY <2>1, <3>2, <3>3, <5>1 DEF OldInv
        <5> QED BY <4>1, <5>2, <5>3
      <4>5. CASE Store(h)
        <5>1. hpc'[h] = "finish" /\ cached'[f] = Entry(h) /\ Entry(h).mtime = fi[h].mtime
          BY <1>f, <1>3, <4>5 DEF Store, Goto, TypeOK, Entry
        <5>2. HeldInv(f)'
          BY <3>3, <5>1 DEF HeldInv
        <5>3. OldInv(f)'
          BY <2>1, <3>3, <4>2, <5>1 DEF OldInv
        <5> QED BY <4>1, <5>2, <5>3
      <4> QED BY <1>f, <3>5, <4>3, <4>4, <4>5 DEF Handle, StatFile, Drop, Finish
    <3>6. CASE Drop(h)
      <4>1. hpc'[h] = "finish" /\ cached'[f] = Nil
        BY <1>f, <1>3, <3>6 DEF Drop, Goto, TypeOK
      <4> QED BY <3>3, <4>1 DEF GoneInv, HeldInv, OldInv
    <3> QED BY <1>f, <2>3, <3>1, <3>4, <3>5, <3>6 DEF Handle, Compare, Load, Store
  <2> QED BY <2>2, <2>3
<1> QED BY <1>f, <1>2, <1>3, HandleFacts DEF PendInv

(* So a stale entry always has something pending. *)
LEMMA PendStep ==
  ASSUME TypeOK, TypeOK', OpInv, SoleInv, PendInv, [Next]_vars
  PROVE  PendInv'
<1>1. CASE UNCHANGED vars
  <2>1. UNCHANGED <<born, there, events, timer, hpc, hfile, fi, cached, stopped, overlapped>>
    BY <1>1 DEF vars, diskVars, timerVars, handlerVars
  <2>2. ASSUME NEW g \in Files, Spared(g)'
        PROVE  (GoneInv(g) /\ HeldInv(g) /\ OldInv(g))'
    <3>1. /\ GoneInv(g) /\ HeldInv(g) /\ OldInv(g) /\ Using(g)' = Using(g)
          /\ \A S : HasEvent(g, S)' = HasEvent(g, S)
      BY <2>1, <2>2 DEF PendInv, Spared, Using, HasEvent
    <3> QED BY <2>1, <3>1, PendKept DEF Later
  <2> QED BY <2>2 DEF PendInv
<1> QED
  BY <1>1, PendChanges, PendDebounce, PendDispatch, PendFire, PendHandle DEF Next, Loop

(* Nothing is stale at the start. *)
LEMMA InitPend == Init => OpInv /\ SoleInv /\ PendInv
<1>1. ASSUME Init PROVE OpInv /\ SoleInv
  BY <1>1 DEF Init, OpInv, SoleInv, Using
<1>2. ASSUME Init, NEW f \in Files PROVE GoneInv(f) /\ HeldInv(f) /\ OldInv(f)
  <2>1. /\ there[f] = "full" /\ Using(f) = {}
        /\ cached[f] = [mtime |-> 0, ver |-> 1] /\ born[f] = <<0>>
    BY <1>2 DEF Init, Using
  <2>2. ModTime(f) = 0 /\ cached[f].mtime = 0
    BY <2>1 DEF ModTime, Version
  <2> QED BY <2>1, <2>2 DEF GoneInv, HeldInv, OldInv
<1> QED BY <1>1, <1>2 DEF PendInv

(* This is the property of the run. *)
LEMMA PendImplies == PendInv => StaleIsPending
<1>1. ASSUME PendInv, NEW f \in Files, Stale(f), Spared(f) PROVE Pending(f)
  <2>1. GoneInv(f) /\ OldInv(f)
    BY <1>1 DEF PendInv
  <2>2. HasEvent(f, Removal) \/ HasEvent(f, Changing) => Queued(f)
    BY DEF HasEvent, Queued, Removal, Changing
  <2>3. CASE there[f] = "absent"
    BY <1>1, <2>1, <2>2, <2>3 DEF GoneInv, Stale, Pending
  <2>4. CASE there[f] # "absent"
    BY <1>1, <2>1, <2>2, <2>4 DEF OldInv, Later, Stale, Pending
  <2> QED BY <2>3, <2>4
<1> QED BY <1>1 DEF StaleIsPending, Spared

(* Whatever changes are made to files and however the handlers of the      *)
(* watcher interleave, an entry that differs from the disk has an event    *)
(* queued, a timer running or a handler at work that will look at it, as   *)
(* long as no handler stopped the timer of a later event and no two        *)
(* handlers of one file overlapped.                                        *)
THEOREM PendingTheorem == Spec => []StaleIsPending
<1> DEFINE IInv == TypeOK /\ OpInv /\ SoleInv /\ PendInv
<1>1. Init => IInv
  BY InitType, InitPend
<1>2. IInv /\ [Next]_vars => IInv'
  BY TypeStep, OpSoleStep, PendStep
<1>3. IInv => StaleIsPending
  BY PendImplies
<1> QED BY <1>1, <1>2, <1>3, PTL DEF Spec
=============================================================================
