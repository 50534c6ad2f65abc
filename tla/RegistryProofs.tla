--------------------------- MODULE RegistryProofs ---------------------------
(***************************************************************************)
(* Theorems about the registry of connections and drivers (module          *)
(* Registry), for any calls, aliases and drivers.                          *)
(***************************************************************************)
EXTENDS Registry, TLAPS

----------------------------------------------------------------------------
(* Types. *)

(* A call that has not started has the type of a call. *)
LEMMA IdleType == Idle \in CallType
BY DEF Idle, CallType, CallRecord, LoadSteps, Steps, Names, Kinds

(* The types hold at the start. *)
LEMMA InitType == Init => TypeOK
<1>1. ASSUME Init
      PROVE  objs \in [Kinds -> Objs \cup {Nil}]
  BY <1>1 DEF Init, Objs
<1> QED BY <1>1, IdleType DEF Init, TypeOK

(* Only the call of c changes, to one of the right type.                   *)
LEMMA CallUpdate ==
  ASSUME TypeOK, NEW c \in Calls, NEW r \in CallType, call' = [call EXCEPT ![c] = r]
  PROVE  /\ call' \in [Calls -> CallType]
         /\ call'[c] = r
         /\ \A d \in Calls \ {c} : call'[d] = call[d]
BY DEF TypeOK

(* A call that moves on keeps its arguments. *)
LEMMA GotoType ==
  ASSUME TypeOK, NEW c \in Calls, NEW pc \in Steps, Goto(c, pc),
         pc \notin {"known", "install"}, pc \in LoadSteps => call[c].pc \in LoadSteps
  PROVE  /\ call' \in [Calls -> CallType]
         /\ call'[c].pc = pc /\ call'[c].todo = call[c].todo
         /\ call'[c].found = call[c].found
         /\ \A d \in Calls \ {c} : call'[d] = call[d]
<1> DEFINE r == [call[c] EXCEPT !.pc = pc]
<1>1. call[c] \in CallType
  BY DEF TypeOK
<1>2. r \in CallType /\ r.pc = pc /\ r.todo = call[c].todo /\ r.found = call[c].found
  BY <1>1 DEF CallType, CallRecord
<1>3. call' = [call EXCEPT ![c] = r]
  BY DEF Goto
<1> QED BY <1>2, <1>3, CallUpdate

(* A call that ends is still a call. *)
LEMMA OverType ==
  ASSUME TypeOK, NEW c \in Calls, NEW pc \in {"done", "panic"}, Over(c, pc)
  PROVE  /\ call' \in [Calls -> CallType]
         /\ call'[c].pc = pc
         /\ \A d \in Calls \ {c} : call'[d] = call[d]
<1> DEFINE r == [Idle EXCEPT !.pc = pc, !.all = call[c].all]
<1>1. call[c].all \in BOOLEAN
  BY DEF TypeOK, CallType, CallRecord
<1>2. r \in CallType /\ r.pc = pc
  BY <1>1, IdleType DEF CallType, CallRecord, LoadSteps, Steps, Idle
<1>3. call' = [call EXCEPT ![c] = r]
  BY DEF Over
<1> QED BY <1>2, <1>3, CallUpdate

(* A call that starts was idle, and no other call changes. *)
LEMMA BeginType ==
  ASSUME TypeOK, NEW c \in Calls, NEW r \in CallType, Begin(c, r)
  PROVE  /\ call' \in [Calls -> CallType] /\ overlap' \in BOOLEAN
         /\ call[c].pc = "idle" /\ call'[c] = r
         /\ \A d \in Calls \ {c} : call'[d] = call[d]
<1>1. call' = [call EXCEPT ![c] = r] /\ call[c].pc = "idle" /\ overlap' \in BOOLEAN
  BY DEF Begin, TypeOK
<1> QED BY <1>1, CallUpdate

(* A map hands connections to a new event, if it has an events object.     *)
LEMMA RaiseType ==
  ASSUME TypeOK, NEW c \in Calls, NEW kind \in Kinds, NEW what \in Whats,
         NEW cns \in SUBSET Calls,
         \/ events' = events
         \/ /\ objs[kind] # Nil
            /\ events' = events \cup {[kind |-> kind, what |-> what, obj |-> objs[kind],
                                       cns |-> cns, of |-> c]}
  PROVE  events' \subseteq EventType /\ InEvents' \subseteq InEvents \cup cns
<1>1. CASE events' = events
  BY <1>1 DEF TypeOK, InEvents
<1>2. CASE events' # events
  <2> DEFINE e == [kind |-> kind, what |-> what, obj |-> objs[kind], cns |-> cns, of |-> c]
  <2>1. objs[kind] \in Objs
    BY <1>2 DEF TypeOK
  <2>2. e \in EventType /\ e.cns = cns
    BY <2>1 DEF EventType
  <2>3. events' = events \cup {e}
    BY <1>2
  <2> HIDE DEF e
  <2> QED BY <2>2, <2>3 DEF TypeOK, InEvents
<1> QED BY <1>1, <1>2

(* The fields of a call, and what it works on. *)
LEMMA CallFacts ==
  ASSUME TypeOK, NEW c \in Calls
  PROVE  /\ call[c].pc \in Steps /\ call[c].todo \subseteq Kinds
         /\ call[c].all \in BOOLEAN
         /\ call[c].alias \in Aliases \cup {Nil} /\ call[c].drv \in DriverNames \cup {Nil}
         /\ call[c].names \in Names
         /\ call[c].found \in DriverNames \cup {Nil} /\ call[c].waked \subseteq Kinds
         /\ Turn(c) \in Kinds /\ What(c) \in Whats
         /\ Members(c) \subseteq Calls
<1>1. call[c] \in CallType
  BY DEF TypeOK
<1>2. /\ call[c].pc \in Steps /\ call[c].todo \subseteq Kinds
      /\ call[c].all \in BOOLEAN
      /\ call[c].alias \in Aliases \cup {Nil} /\ call[c].drv \in DriverNames \cup {Nil}
      /\ call[c].names \in Names
      /\ call[c].found \in DriverNames \cup {Nil} /\ call[c].waked \subseteq Kinds
  BY <1>1 DEF CallType, CallRecord
<1>3. Turn(c) \in Kinds /\ What(c) \in Whats
  BY DEF Turn, What, Kinds, Whats
<1>4. Members(c) \subseteq Calls
  BY <1>2 DEF Members, TypeOK, Names
<1> QED BY <1>2, <1>3, <1>4

----------------------------------------------------------------------------
(* The invariant.                                                          *)

(* A call that may still put its connection into the map.                  *)
Unset(c) ==
    \/ call[c].pc \in {"idle", "new", "known", "drop", "again", "reload"}
    \/ call[c].pc = "load" /\ "conns" \in call[c].todo

FreshInv == \A c \in Calls : Unset(c) => c \notin InMap /\ c \notin InEvents
ApartInv == InMap \cap InEvents = {}
OneInv == \A a, b \in Aliases : conns[a] = conns[b] /\ conns[a] # Nil => a = b
ReloadInv == \A c \in Calls : call[c].pc = "reload" => call[c].found # Nil

(* Register takes the connections off the list before it looks at them.    *)
TodoInv == \A c \in Calls :
    call[c].pc \in {"new", "known", "drop", "again", "reload"} => "conns" \notin call[c].todo

Inv == FreshInv /\ ApartInv /\ OneInv /\ ReloadInv /\ TodoInv /\ RegisteredIsOpen

(* The invariant holds at the start. *)
LEMMA InitInv == Init => Inv
<1> SUFFICES ASSUME Init PROVE Inv
  OBVIOUS
<1>1. InMap = {} /\ InEvents = {}
  BY DEF Init, InMap, InEvents
<1>2. \A c \in Calls : call[c].pc = "idle"
  BY DEF Init, Idle
<1>3. OneInv
  BY DEF Init, OneInv
<1> QED BY <1>1, <1>2, <1>3 DEF Inv, FreshInv, ApartInv, ReloadInv, TodoInv, RegisteredIsOpen

(* A step that leaves the connections alone.                               *)
LEMMA Quiet ==
  ASSUME Inv, conns' = conns, InEvents' = InEvents,
         \A cn \in InMap : dvr'[cn] = dvr[cn] \/ dvr'[cn] # Nil,
         \A d \in Calls : Unset(d)' => Unset(d),
         \A d \in Calls : call'[d].pc = "reload" =>
            (call[d].pc = "reload" /\ call'[d].found = call[d].found) \/ call'[d].found # Nil,
         TodoInv'
  PROVE  Inv'
<1>1. InMap' = InMap
  BY DEF InMap
<1> QED BY <1>1 DEF Inv, FreshInv, ApartInv, OneInv, ReloadInv, RegisteredIsOpen

(* A call of Load or Unload begins.                                        *)
LEMMA StartStep ==
  ASSUME TypeOK, Inv, NEW c \in Calls, Start(c)
  PROVE  TypeOK' /\ Inv'
<1>1. PICK r \in CallType :
        Begin(c, r) /\ r.pc \in {"load", "hook", "spins"}
  <2>1. ASSUME NEW todo \in SUBSET Kinds, NEW a \in Aliases, NEW d \in DriverNames,
               Load(c, todo, a, d)
        PROVE  \E r \in CallType : Begin(c, r) /\ r.pc \in {"load", "hook", "spins"}
    <3> DEFINE r == [Idle EXCEPT !.pc = "load", !.todo = todo, !.alias = a, !.drv = d]
    <3>1. r \in CallType /\ r.pc = "load"
      BY IdleType DEF CallType, CallRecord, LoadSteps, Idle, Steps
    <3>2. Begin(c, r)
      BY <2>1 DEF Load
    <3> QED BY <3>1, <3>2
  <2>2. ASSUME UnloadAll(c)
        PROVE  \E r \in CallType : Begin(c, r) /\ r.pc \in {"load", "hook", "spins"}
    <3> DEFINE r == [Idle EXCEPT !.pc = "hook", !.all = TRUE, !.todo = Kinds]
    <3>1. r \in CallType /\ r.pc = "hook"
      BY IdleType DEF CallType, CallRecord, LoadSteps, Idle, Steps
    <3>2. Begin(c, r)
      BY <2>2 DEF UnloadAll
    <3> QED BY <3>1, <3>2
  <2>3. ASSUME NEW A \in SUBSET Aliases, NEW D \in SUBSET DriverNames, UnloadNames(c, A, D)
        PROVE  \E r \in CallType : Begin(c, r) /\ r.pc \in {"load", "hook", "spins"}
    <3> DEFINE names == [k \in Kinds |-> IF k = "conns" THEN A ELSE D]
               r == [Idle EXCEPT !.pc = "hook", !.names = names,
                                 !.todo = {k \in Kinds : names[k] # {}}]
    <3>1. names \in Names
      BY DEF Names, Kinds
    <3> HIDE DEF names
    <3>2. r \in CallType /\ r.pc = "hook"
      BY <3>1, IdleType DEF CallType, CallRecord, LoadSteps, Idle, Steps
    <3>3. Begin(c, r)
      BY <2>3 DEF UnloadNames, names
    <3> QED BY <3>2, <3>3
  <2>4. ASSUME UnloadText(c)
        PROVE  \E r \in CallType : Begin(c, r) /\ r.pc \in {"load", "hook", "spins"}
    <3> DEFINE r == [Idle EXCEPT !.pc = "spins"]
    <3>1. r \in CallType /\ r.pc = "spins"
      BY IdleType DEF CallType, CallRecord, LoadSteps, Idle, Steps
    <3>2. Begin(c, r)
      BY <2>4 DEF UnloadText
    <3> QED BY <3>1, <3>2
  <2> QED BY <2>1, <2>2, <2>3, <2>4 DEF Start
<1>2. UNCHANGED <<maps, dvr, wiring, events>>
  BY DEF Start, Load, UnloadAll, UnloadNames, UnloadText
<1>3. /\ call' \in [Calls -> CallType] /\ overlap' \in BOOLEAN
      /\ call[c].pc = "idle" /\ call'[c] = r
      /\ \A d \in Calls \ {c} : call'[d] = call[d]
  BY <1>1, BeginType
<1>4. TypeOK'
  BY <1>2, <1>3 DEF TypeOK, maps, wiring
<1>5. Inv'
  <2>1. conns' = conns /\ dvr' = dvr /\ InEvents' = InEvents
    BY <1>2 DEF maps, wiring, InEvents
  <2>2. ASSUME NEW d \in Calls
        PROVE  /\ Unset(d)' => Unset(d)
               /\ call'[d].pc = "reload" => call[d].pc = "reload" /\ call'[d].found = call[d].found
    BY <1>1, <1>3 DEF Unset
  <2>3. TodoInv'
    BY <1>1, <1>3 DEF Inv, TodoInv
  <2> QED BY <2>1, <2>2, <2>3, Quiet
<1> QED BY <1>4, <1>5

(* A step of call c that moves it along and leaves the connections alone.  *)
LEMMA QuietCall ==
  ASSUME Inv, conns' = conns, InEvents' = InEvents,
         \A cn \in InMap : dvr'[cn] = dvr[cn] \/ dvr'[cn] # Nil,
         NEW c \in Calls, \A d \in Calls \ {c} : call'[d] = call[d],
         Unset(c)' => Unset(c),
         call'[c].pc # "reload" \/ call'[c].found # Nil,
         call'[c].pc \in {"new", "known", "drop", "again", "reload"} =>
           "conns" \notin call'[c].todo
  PROVE  Inv'
<1>1. ASSUME NEW d \in Calls
      PROVE  /\ Unset(d)' => Unset(d)
             /\ call'[d].pc = "reload" =>
                  (call[d].pc = "reload" /\ call'[d].found = call[d].found) \/ call'[d].found # Nil
  BY DEF Unset
<1>2. TodoInv'
  BY DEF Inv, TodoInv
<1> QED BY <1>1, <1>2, Quiet

(* itr.Set(alias, NewConnection(...)), the one time the call comes to it.  *)
LEMMA SetStep ==
  ASSUME TypeOK, Inv, NEW c \in Calls, NEW alias, NEW name \in DriverNames,
         Unset(c), SetNew(c, alias, name), events' = events,
         \A d \in Calls \ {c} : call'[d] = call[d],
         call'[c].pc = "load", "conns" \notin call'[c].todo
  PROVE  Inv'
<1>1. name # Nil /\ Nil \notin Calls
  BY NilAssumption
<1>2. /\ dvr'[c] = name /\ \A d \in Calls \ {c} : dvr'[d] = dvr[d]
      /\ \A a \in Aliases : conns'[a] = conns[a] \/ (a = alias /\ conns'[a] = c)
  BY DEF SetNew, TypeOK
<1>3. InMap' \subseteq InMap \cup {c} /\ InEvents' = InEvents /\ InMap \subseteq Calls
  BY <1>2 DEF InMap, InEvents, TypeOK
<1>4. c \notin InMap /\ c \notin InEvents
  BY DEF Inv, FreshInv
<1>5. ~Unset(c)' /\ \A d \in Calls \ {c} : Unset(d)' => Unset(d)
  BY DEF Unset
<1>6. FreshInv'
  BY <1>3, <1>5 DEF Inv, FreshInv
<1>7. ApartInv'
  BY <1>3, <1>4 DEF Inv, ApartInv
<1>8. ASSUME NEW a \in Aliases, NEW b \in Aliases, conns'[a] = conns'[b], conns'[a] # Nil
      PROVE  a = b
  <2>1. conns[a] # c /\ conns[b] # c
    BY <1>1, <1>4 DEF InMap
  <2> QED BY <1>2, <1>8, <2>1 DEF Inv, OneInv
<1>9. RegisteredIsOpen'
  BY <1>1, <1>2, <1>3 DEF Inv, RegisteredIsOpen
<1>10. ReloadInv' /\ TodoInv'
  BY DEF Inv, ReloadInv, TodoInv
<1> QED BY <1>6, <1>7, <1>8, <1>9, <1>10 DEF Inv, OneInv

(* Connections leave the map and are handed to an event.                   *)
LEMMA RemoveStep ==
  ASSUME TypeOK, Inv, NEW c \in Calls, NEW gone \in SUBSET InMap,
         \A a \in Aliases : conns'[a] = IF conns[a] \in gone THEN Nil ELSE conns[a],
         InEvents' \subseteq InEvents \cup gone, dvr' = dvr,
         \A d \in Calls \ {c} : call'[d] = call[d],
         Unset(c)' => Unset(c),
         call'[c].pc # "reload",
         call'[c].pc \in {"new", "known", "drop", "again"} => "conns" \notin call'[c].todo
  PROVE  Inv'
<1>1. InMap' = InMap \ gone
  BY DEF InMap
<1>2. \A d \in Calls : Unset(d)' => Unset(d)
  BY DEF Unset
<1>3. FreshInv'
  BY <1>1, <1>2 DEF Inv, FreshInv
<1>4. ApartInv' /\ RegisteredIsOpen'
  BY <1>1 DEF Inv, ApartInv, RegisteredIsOpen
<1>5. OneInv'
  BY DEF Inv, OneInv
<1>6. ReloadInv' /\ TodoInv'
  BY DEF Inv, ReloadInv, TodoInv
<1> QED BY <1>3, <1>4, <1>5, <1>6 DEF Inv

(* The steps of Load keep it, *)
LEMMA LoadStep ==
  ASSUME TypeOK, Inv, NEW c \in Calls,
         LoadDriver(c) \/ Register(c) \/ LoadEnds(c)
  PROVE  TypeOK' /\ Inv'
<1>1. call[c] \in CallType
  BY DEF TypeOK
<1>2. CASE LoadDriver(c)
  <2> DEFINE r == [call[c] EXCEPT !.todo = @ \ {"drivers"}]
  <2>1. r \in CallType /\ r.pc = "load" /\ r.todo = call[c].todo \ {"drivers"}
    BY <1>1, <1>2 DEF CallType, CallRecord, LoadDriver
  <2>2. call' = [call EXCEPT ![c] = r]
    BY <1>2 DEF LoadDriver
  <2>3. /\ call' \in [Calls -> CallType] /\ call'[c] = r
        /\ \A d \in Calls \ {c} : call'[d] = call[d]
    BY <2>1, <2>2, CallUpdate
  <2>4. drvs' \subseteq DriverNames
    BY <1>1, <1>2 DEF LoadDriver, TypeOK, CallType, LoadSteps
  <2>5. TypeOK'
    BY <1>2, <2>3, <2>4 DEF LoadDriver, TypeOK, wiring
  <2>6. InEvents' = InEvents /\ (Unset(c)' => Unset(c))
    BY <1>2, <2>1, <2>3 DEF LoadDriver, InEvents, Unset
  <2>7. Inv'
    BY <1>2, <2>1, <2>3, <2>6, QuietCall DEF LoadDriver
  <2> QED BY <2>5, <2>7
<1>3. CASE Register(c)
  <2> DEFINE to == IF ~connsMap THEN "load"
                   ELSE IF conns[call[c].alias] = Nil THEN "new" ELSE "known"
             r == [call[c] EXCEPT !.todo = @ \ {"conns"}, !.cn = conns[call[c].alias],
                                  !.pc = to]
  <2>1. to \in {"load", "new", "known"} /\ to \in Steps
    BY DEF Steps
  <2>2. /\ call[c].alias \in Aliases
        /\ conns[call[c].alias] \in Calls \cup {Nil}
        /\ to = "known" => conns[call[c].alias] \in Calls
    BY <1>1, <1>3 DEF Register, CallType, LoadSteps, TypeOK
  <2> HIDE DEF to
  <2>3. r \in CallType /\ r.pc = to /\ r.todo = call[c].todo \ {"conns"}
    BY <1>1, <1>3, <2>1, <2>2 DEF CallType, CallRecord, LoadSteps, Register
  <2>4. call' = [call EXCEPT ![c] = r]
    BY <1>3 DEF Register, to
  <2>5. /\ call' \in [Calls -> CallType] /\ call'[c] = r
        /\ \A d \in Calls \ {c} : call'[d] = call[d]
    BY <2>3, <2>4, CallUpdate
  <2>6. TypeOK'
    BY <1>3, <2>5 DEF Register, maps, wiring, TypeOK
  <2>7. InEvents' = InEvents /\ Unset(c) /\ conns' = conns /\ dvr' = dvr
    BY <1>3 DEF Register, InEvents, Unset, maps, wiring
  <2>8. Inv'
    BY <2>1, <2>3, <2>5, <2>7, QuietCall
  <2> QED BY <2>6, <2>8
<1>4. CASE LoadEnds(c)
  <2>1. /\ call' \in [Calls -> CallType] /\ call'[c].pc = "done"
        /\ \A d \in Calls \ {c} : call'[d] = call[d]
    BY <1>4, OverType DEF LoadEnds
  <2>2. TypeOK'
    BY <1>4, <2>1 DEF LoadEnds, maps, wiring, TypeOK
  <2>3. InEvents' = InEvents /\ ~Unset(c)' /\ conns' = conns /\ dvr' = dvr
    BY <1>4, <2>1 DEF LoadEnds, InEvents, Unset, maps, wiring
  <2> QED BY <2>1, <2>2, <2>3, QuietCall
<1> QED BY <1>2, <1>3, <1>4

(* those of RegisterConnection, *)
LEMMA RegisterStep ==
  ASSUME TypeOK, Inv, NEW c \in Calls,
         \/ RegisterNew(c) \/ RegisterKnown(c) \/ RegisterDrop(c)
         \/ RegisterAgain(c) \/ Reload(c)
  PROVE  TypeOK' /\ Inv'
<1>1. call[c] \in CallType
  BY DEF TypeOK
<1>2. /\ call[c].pc \in {"new", "known", "drop", "again", "reload"}
      /\ call[c].pc \in LoadSteps
      /\ Unset(c) /\ "conns" \notin call[c].todo
      /\ call[c].alias \in Aliases /\ call[c].drv \in DriverNames
  BY <1>1 DEF RegisterNew, RegisterKnown, RegisterDrop, RegisterAgain, Reload,
              CallType, LoadSteps, Unset, Inv, TodoInv
<1>3. ASSUME Over(c, "panic"), UNCHANGED <<maps, dvr, wiring, events, overlap>>
      PROVE  TypeOK' /\ Inv'
  <2>1. /\ call' \in [Calls -> CallType] /\ call'[c].pc = "panic"
        /\ \A d \in Calls \ {c} : call'[d] = call[d]
    BY <1>3, OverType
  <2>2. TypeOK'
    BY <1>3, <2>1 DEF maps, wiring, TypeOK
  <2>3. InEvents' = InEvents /\ ~Unset(c)' /\ conns' = conns /\ dvr' = dvr
    BY <1>3, <2>1 DEF InEvents, Unset, maps, wiring
  <2> QED BY <2>1, <2>2, <2>3, QuietCall
<1>4. ASSUME Goto(c, "load")
      PROVE  /\ call' \in [Calls -> CallType]
             /\ call'[c].pc = "load" /\ "conns" \notin call'[c].todo
             /\ \A d \in Calls \ {c} : call'[d] = call[d]
  BY <1>2, <1>4, GotoType DEF Steps
<1>5. ASSUME NEW name \in DriverNames, SetNew(c, call[c].alias, name), Goto(c, "load"),
             UNCHANGED <<connsMap, cdrvrs, drvs, drvsMap, wiring, events, overlap>>
      PROVE  TypeOK' /\ Inv'
  <2>1. conns' \in [Aliases -> Calls \cup {Nil}] /\ dvr' \in [Calls -> DriverNames \cup {Nil}]
    BY <1>2, <1>5 DEF SetNew, TypeOK
  <2>2. TypeOK'
    BY <1>4, <1>5, <2>1 DEF TypeOK, wiring
  <2>3. Inv'
    BY <1>2, <1>4, <1>5, SetStep
  <2> QED BY <2>2, <2>3
<1>6. ASSUME Goto(c, "load"), UNCHANGED <<maps, dvr, wiring, events, overlap>>
      PROVE  TypeOK' /\ Inv'
  <2>1. TypeOK'
    BY <1>4, <1>6 DEF maps, wiring, TypeOK
  <2>2. InEvents' = InEvents /\ ~Unset(c)' /\ conns' = conns /\ dvr' = dvr
    BY <1>4, <1>6 DEF InEvents, Unset, maps, wiring
  <2> QED BY <1>4, <1>6, <2>1, <2>2, QuietCall
<1>7. CASE RegisterNew(c)
  <2>1. CASE cdrvrs /\ Driver(call[c].drv) # Nil
    BY <1>2, <1>5, <1>7, <2>1 DEF RegisterNew
  <2>2. CASE cdrvrs /\ Driver(call[c].drv) = Nil
    BY <1>6, <1>7, <2>2 DEF RegisterNew, maps, wiring
  <2>3. CASE ~cdrvrs
    BY <1>3, <1>7, <2>3 DEF RegisterNew, maps, wiring
  <2> QED BY <2>1, <2>2, <2>3
<1>8. CASE RegisterAgain(c)
  <2>1. CASE cdrvrs /\ Driver(call[c].alias) # Nil
    <3>1. call[c].alias \in DriverNames
      BY <2>1 DEF Driver, TypeOK
    <3> QED BY <1>5, <1>8, <2>1, <3>1 DEF RegisterAgain
  <2>2. CASE cdrvrs /\ Driver(call[c].alias) = Nil
    BY <1>6, <1>8, <2>2 DEF RegisterAgain, maps, wiring
  <2>3. CASE ~cdrvrs
    BY <1>3, <1>8, <2>3 DEF RegisterAgain, maps, wiring
  <2> QED BY <2>1, <2>2, <2>3
<1>9. CASE RegisterKnown(c)
  <2> DEFINE has == dvr[call[c].cn]
             got == IF has \in {Nil, call[c].alias} THEN has ELSE Driver(call[c].alias)
             to == IF got = Nil THEN "drop" ELSE "reload"
             r == [call[c] EXCEPT !.found = got, !.pc = to]
  <2>1. CASE has \notin {Nil, call[c].alias} /\ ~cdrvrs
    BY <1>3, <1>9, <2>1 DEF RegisterKnown
  <2>2. CASE ~(has \notin {Nil, call[c].alias} /\ ~cdrvrs)
    <3>1. got \in DriverNames \cup {Nil}
      BY <1>1, <1>9 DEF RegisterKnown, Driver, TypeOK, CallType
    <3>2. call' = [call EXCEPT ![c] = r]
      BY <1>9, <2>2 DEF RegisterKnown
    <3>3. to \in {"drop", "reload"} /\ (to = "reload" => got # Nil)
      OBVIOUS
    <3> HIDE DEF got, to
    <3>4. /\ r \in CallType /\ r.pc = to /\ r.found = got /\ r.todo = call[c].todo
      BY <1>1, <1>2, <3>1, <3>3 DEF CallType, CallRecord, LoadSteps, Steps
    <3>5. /\ call' \in [Calls -> CallType] /\ call'[c] = r
          /\ \A d \in Calls \ {c} : call'[d] = call[d]
      BY <3>2, <3>4, CallUpdate
    <3>6. TypeOK'
      BY <1>9, <3>5 DEF RegisterKnown, maps, wiring, TypeOK
    <3>7. InEvents' = InEvents /\ conns' = conns /\ dvr' = dvr
      BY <1>9 DEF RegisterKnown, InEvents, maps, wiring
    <3> QED BY <1>2, <3>3, <3>4, <3>5, <3>6, <3>7, QuietCall
  <2> QED BY <2>1, <2>2
<1>10. CASE Reload(c)
  <2>1. call[c].found \in DriverNames
    BY <1>10, CallFacts DEF Reload, Inv, ReloadInv
  <2>2. dvr' \in [Calls -> DriverNames \cup {Nil}]
    BY <1>10, <2>1 DEF Reload, TypeOK
  <2>3. \A cn \in Calls : dvr'[cn] = dvr[cn] \/ dvr'[cn] # Nil
    BY <1>10, <2>1, NilAssumption DEF Reload, TypeOK
  <2>4. InMap \subseteq Calls
    BY DEF InMap, TypeOK
  <2>5. TypeOK'
    BY <1>4, <1>10, <2>2 DEF Reload, maps, wiring, TypeOK
  <2>6. InEvents' = InEvents /\ ~Unset(c)' /\ conns' = conns
    BY <1>4, <1>10 DEF Reload, InEvents, Unset, maps, wiring
  <2>7. /\ call'[c].pc = "load" /\ \A d \in Calls \ {c} : call'[d] = call[d]
    BY <1>4, <1>10 DEF Reload
  <2>8. Inv'
    BY <2>3, <2>4, <2>6, <2>7, QuietCall
  <2> QED BY <2>5, <2>8
<1>11. CASE RegisterDrop(c)
  <2> DEFINE cn == conns[call[c].alias]
  <2>1. cn \in Calls \cup {Nil}
    BY <1>2 DEF TypeOK
  <2>2. /\ call' \in [Calls -> CallType] /\ call'[c].pc = "again"
        /\ call'[c].todo = call[c].todo
        /\ \A d \in Calls \ {c} : call'[d] = call[d]
    BY <1>2, <1>11, GotoType DEF RegisterDrop, Steps
  <2>3. CASE cn = Nil
    <3>1. events' = events
      BY <1>11, <2>3 DEF RegisterDrop, Raise
    <3>2. conns' = conns
      BY <1>2, <1>11, <2>3 DEF RegisterDrop, TypeOK
    <3>3. TypeOK'
      BY <1>11, <2>2, <3>1, <3>2 DEF RegisterDrop, TypeOK, wiring
    <3>4. InEvents' = InEvents /\ dvr' = dvr
      BY <1>11, <3>1 DEF RegisterDrop, InEvents
    <3> QED BY <1>2, <2>2, <3>2, <3>3, <3>4, QuietCall
  <2>4. CASE cn # Nil
    <3>1. \/ events' = events
          \/ /\ objs["conns"] # Nil
             /\ events' = events \cup {[kind |-> "conns", what |-> "deleted", obj |-> objs["conns"],
                                        cns |-> {cn}, of |-> c]}
      BY <1>11, <2>4 DEF RegisterDrop, Raise
    <3>2. events' \subseteq EventType /\ InEvents' \subseteq InEvents \cup {cn}
      <4>1. {cn} \in SUBSET Calls /\ "conns" \in Kinds /\ "deleted" \in Whats
        BY <2>1, <2>4 DEF Kinds, Whats
      <4> HIDE DEF cn
      <4> QED BY <3>1, <4>1, RaiseType
    <3>3. /\ conns' \in [Aliases -> Calls \cup {Nil}]
          /\ \A a \in Aliases : conns'[a] = IF a = call[c].alias THEN Nil ELSE conns[a]
      BY <1>11 DEF RegisterDrop, TypeOK
    <3>4. \A a \in Aliases : conns'[a] = IF conns[a] \in {cn} THEN Nil ELSE conns[a]
      BY <1>2, <2>4, <3>3 DEF Inv, OneInv
    <3>5. {cn} \in SUBSET InMap
      BY <1>2, <2>4 DEF InMap
    <3>6. TypeOK'
      BY <1>11, <2>2, <3>2, <3>3 DEF RegisterDrop, TypeOK, wiring
    <3>7. dvr' = dvr
      BY <1>11 DEF RegisterDrop
    <3>8. Inv'
      BY <1>2, <2>2, <3>2, <3>4, <3>5, <3>7, RemoveStep
    <3> QED BY <3>6, <3>8
  <2> QED BY <2>3, <2>4
<1> QED BY <1>7, <1>8, <1>9, <1>10, <1>11

(* The steps of Unload: those of itermap.Events(), *)
LEMMA EventsStep ==
  ASSUME TypeOK, Inv, NEW c \in Calls,
         Hook(c) \/ EventsCheck(c) \/ EventsMake(c) \/ EventsFetch(c)
  PROVE  TypeOK' /\ Inv'
<1>1. /\ UNCHANGED <<maps, dvr, hooks, events, overlap>>
      /\ call[c].pc \in {"hook", "events", "make", "fetch"}
  BY DEF Hook, EventsCheck, EventsMake, EventsFetch, wiring
<1>2. objs' \in [Kinds -> Objs \cup {Nil}] /\ doubled' \in BOOLEAN
  BY CallFacts DEF Hook, EventsCheck, EventsMake, EventsFetch, wiring, TypeOK, Objs
<1>3. call[c] \in CallType /\ objs[Turn(c)] \in Objs \cup {Nil}
  BY CallFacts DEF TypeOK
<1>4. /\ call' \in [Calls -> CallType]
      /\ call'[c].pc \in {"events", "make", "fetch", "install", "panic"}
      /\ \A d \in Calls \ {c} : call'[d] = call[d]
  <2>1. CASE Hook(c)
    <3>1. CASE Goto(c, "events")
      BY <3>1, GotoType DEF Steps, LoadSteps
    <3>2. CASE Over(c, "panic")
      BY <3>2, OverType
    <3> QED BY <2>1, <3>1, <3>2 DEF Hook
  <2>2. CASE EventsMake(c)
    BY <2>2, GotoType DEF EventsMake, Steps, LoadSteps
  <2>3. CASE EventsCheck(c)
    <3> DEFINE o == objs[Turn(c)]
               to == IF o = Nil THEN "make" ELSE "install"
               r == [call[c] EXCEPT !.mine = o, !.pc = to]
    <3>1. call' = [call EXCEPT ![c] = r]
      BY <2>3 DEF EventsCheck
    <3>2. o \in Objs \cup {Nil} /\ to \in {"make", "install"} /\ (to = "install" => o \in Objs)
      BY <1>3
    <3> HIDE DEF o, to
    <3>3. r \in CallType /\ r.pc = to
      BY <1>3, <3>2 DEF CallType, CallRecord, LoadSteps, Steps
    <3> QED BY <3>1, <3>2, <3>3, CallUpdate
  <2>4. CASE EventsFetch(c)
    <3>1. CASE Over(c, "panic")
      BY <3>1, OverType
    <3>2. CASE ~Over(c, "panic")
      <4> DEFINE o == objs[Turn(c)]
                 r == [call[c] EXCEPT !.mine = o, !.pc = "install"]
      <4>1. call' = [call EXCEPT ![c] = r] /\ o \in Objs
        BY <1>3, <2>4, <3>2 DEF EventsFetch
      <4> HIDE DEF o
      <4>2. r \in CallRecord /\ r.pc = "install" /\ r.mine = o
        BY <1>3, <4>1 DEF CallType, CallRecord, Steps
      <4>3. r \in CallType
        BY <4>1, <4>2 DEF CallType, LoadSteps
      <4> QED BY <4>1, <4>2, <4>3, CallUpdate
    <3> QED BY <3>1, <3>2
  <2> QED BY <2>1, <2>2, <2>3, <2>4
<1>5. TypeOK'
  BY <1>1, <1>2, <1>4 DEF TypeOK, maps
<1>6. conns' = conns /\ InEvents' = InEvents /\ dvr' = dvr /\ ~Unset(c)'
  BY <1>1, <1>4 DEF maps, InEvents, Unset
<1> QED BY <1>4, <1>5, <1>6, QuietCall

(* the installation of the callback, *)
LEMMA InstallStep ==
  ASSUME TypeOK, Inv, NEW c \in Calls, Install(c)
  PROVE  TypeOK' /\ Inv'
<1>1. /\ UNCHANGED <<maps, dvr, objs, doubled, events, overlap>>
      /\ call[c].pc = "install"
  BY DEF Install
<1>2. conns' = conns /\ InEvents' = InEvents /\ dvr' = dvr
  BY <1>1 DEF maps, InEvents
<1>3. hooks' \in [Kinds \X Whats \X Objs -> Calls \cup {Nil}]
  BY DEF Install, TypeOK
<1>4. PICK rival :
        call' = [d \in Calls |->
                   IF d = c THEN [call[d] EXCEPT !.pc = "remove", !.mine = Nil]
                   ELSE IF d = rival THEN [call[d] EXCEPT !.replaced = TRUE]
                   ELSE call[d]]
  BY DEF Install
<1>5. ASSUME NEW d \in Calls
      PROVE  /\ call'[d] \in CallType
             /\ call'[d].pc = IF d = c THEN "remove" ELSE call[d].pc
             /\ call'[d].todo = call[d].todo /\ call'[d].found = call[d].found
  <2>1. call[d] \in CallType
    BY DEF TypeOK
  <2>2. /\ [call[d] EXCEPT !.pc = "remove", !.mine = Nil] \in CallType
        /\ [call[d] EXCEPT !.replaced = TRUE] \in CallType
    <3>1. call[d] \in CallRecord
      BY <2>1 DEF CallType
    <3> DEFINE r == [call[d] EXCEPT !.pc = "remove", !.mine = Nil]
               q == [call[d] EXCEPT !.replaced = TRUE]
    <3>2. r \in CallRecord /\ r.pc = "remove"
      BY <3>1 DEF CallRecord, Steps
    <3>3. /\ q \in CallRecord /\ q.pc = call[d].pc /\ q.alias = call[d].alias
          /\ q.drv = call[d].drv /\ q.cn = call[d].cn /\ q.mine = call[d].mine
      BY <3>1 DEF CallRecord
    <3> HIDE DEF r, q
    <3>4. r \in CallType
      BY <3>2 DEF CallType, LoadSteps
    <3>5. q \in CallType
      BY <2>1, <3>3 DEF CallType
    <3> QED BY <3>4, <3>5 DEF r, q
  <2>3. call[d] \in CallRecord
    BY <2>1 DEF CallType
  <2>4. \/ d = c /\ call'[d] = [call[d] EXCEPT !.pc = "remove", !.mine = Nil]
        \/ d # c /\ call'[d] = [call[d] EXCEPT !.replaced = TRUE]
        \/ d # c /\ call'[d] = call[d]
    BY <1>4
  <2> QED BY <2>1, <2>2, <2>3, <2>4 DEF CallRecord
<1>6. call' \in [Calls -> CallType]
  BY <1>4, <1>5
<1>7. TypeOK'
  BY <1>1, <1>3, <1>6 DEF TypeOK, maps
<1>8. \A d \in Calls : Unset(d)' => Unset(d)
  BY <1>5 DEF Unset
<1>9. TodoInv'
  BY <1>5 DEF Inv, TodoInv
<1> QED BY <1>2, <1>5, <1>7, <1>8, <1>9, Quiet

(* those of Unload, *)
LEMMA UnloadStep ==
  ASSUME TypeOK, Inv, NEW c \in Calls,
         ForgetDrivers(c) \/ Wake(c) \/ UnloadEnds(c)
  PROVE  TypeOK' /\ Inv'
<1>1. /\ UNCHANGED <<conns, connsMap, drvs, drvsMap, dvr, wiring, events, overlap>>
      /\ cdrvrs' \in BOOLEAN
  BY DEF ForgetDrivers, Wake, UnloadEnds, maps, wiring, TypeOK
<1>2. /\ call' \in [Calls -> CallType]
      /\ call'[c].pc \in {"wait", "hook", "done"}
      /\ \A d \in Calls \ {c} : call'[d] = call[d]
  <2>1. CASE ForgetDrivers(c)
    BY <2>1, GotoType DEF ForgetDrivers, Steps, LoadSteps
  <2>2. CASE UnloadEnds(c)
    BY <2>2, OverType DEF UnloadEnds
  <2>3. CASE Wake(c)
    <3> DEFINE r == [call[c] EXCEPT !.todo = @ \ {Turn(c)}, !.pc = "hook",
                                    !.removed = FALSE, !.replaced = FALSE]
    <3>1. call[c] \in CallType
      BY DEF TypeOK
    <3>2. r \in CallRecord /\ r.pc = "hook"
      BY <3>1 DEF CallType, CallRecord, Steps
    <3>3. call' = [call EXCEPT ![c] = r]
      BY <2>3 DEF Wake
    <3>4. r \in CallType
      BY <3>2 DEF CallType, LoadSteps
    <3> QED BY <3>2, <3>3, <3>4, CallUpdate
  <2> QED BY <2>1, <2>2, <2>3
<1>3. TypeOK'
  BY <1>1, <1>2 DEF TypeOK, wiring
<1>4. InEvents' = InEvents /\ ~Unset(c)'
  BY <1>1, <1>2 DEF InEvents, Unset
<1> QED BY <1>1, <1>2, <1>3, <1>4, QuietCall

(* the deletion of connections, *)
LEMMA RemoveConnsStep ==
  ASSUME TypeOK, Inv, NEW c \in Calls, RemoveConns(c)
  PROVE  TypeOK' /\ Inv'
<1>1. PICK gone : gone = Members(c)
  OBVIOUS
<1>2. PICK what \in Whats : what = What(c)
  BY CallFacts
<1>3. gone \in SUBSET InMap /\ gone \in SUBSET Calls
  <2>1. call[c].names["conns"] \subseteq Aliases
    BY CallFacts DEF Names
  <2>2. gone \subseteq InMap
    BY <1>1, <2>1 DEF Members, InMap
  <2> QED BY <1>1, <2>2, CallFacts
<1>4. /\ conns' = [a \in Aliases |-> IF conns[a] \in gone THEN Nil ELSE conns[a]]
      /\ connsMap' = (connsMap /\ ~call[c].all)
      /\ objs' = objs \/ objs' = [objs EXCEPT !["conns"] = Nil]
      /\ UNCHANGED <<cdrvrs, drvs, drvsMap, dvr, hooks, doubled, overlap>>
  BY <1>1 DEF RemoveConns
<1>5. PICK to \in {"forget", "wait"}, b \in BOOLEAN :
        call' = [call EXCEPT ![c].removed = b, ![c].pc = to]
  BY DEF RemoveConns
<1>6. /\ call' \in [Calls -> CallType] /\ call'[c].pc = to
      /\ \A d \in Calls \ {c} : call'[d] = call[d]
  <2> DEFINE r == [call[c] EXCEPT !.removed = b, !.pc = to]
  <2>1. call[c] \in CallType
    BY DEF TypeOK
  <2>2. r \in CallType /\ r.pc = to
    BY <2>1 DEF CallType, CallRecord, LoadSteps, Steps
  <2>3. call' = [call EXCEPT ![c] = r]
    BY <1>5
  <2> QED BY <2>2, <2>3, CallUpdate
<1>7. events' \subseteq EventType /\ InEvents' \subseteq InEvents \cup gone
  <2>1. \/ events' = events
        \/ /\ objs["conns"] # Nil
           /\ events' = events \cup {[kind |-> "conns", what |-> what, obj |-> objs["conns"],
                                      cns |-> gone, of |-> c]}
    BY <1>1, <1>2 DEF RemoveConns, Raise
  <2>2. "conns" \in Kinds
    BY DEF Kinds
  <2> QED BY <1>3, <2>1, <2>2, RaiseType
<1>8. /\ conns' \in [Aliases -> Calls \cup {Nil}] /\ connsMap' \in BOOLEAN
      /\ objs' \in [Kinds -> Objs \cup {Nil}]
  BY <1>4 DEF TypeOK
<1>9. TypeOK'
  BY <1>4, <1>6, <1>7, <1>8 DEF TypeOK
<1>10. Inv'
  <2>1. ~Unset(c)'
    BY <1>6 DEF Unset
  <2> QED BY <1>3, <1>4, <1>6, <1>7, <2>1, RemoveStep
<1> QED BY <1>9, <1>10

(* the deletion of drivers, *)
LEMMA RemoveDriversStep ==
  ASSUME TypeOK, Inv, NEW c \in Calls, RemoveDrivers(c)
  PROVE  TypeOK' /\ Inv'
<1>1. PICK gone : gone = IF call[c].all THEN drvs ELSE drvs \cap call[c].names["drivers"]
  OBVIOUS
<1>2. PICK what \in Whats : what = What(c)
  BY CallFacts
<1>3. /\ drvs' = drvs \ gone
      /\ drvsMap' = (drvsMap /\ ~call[c].all)
      /\ objs' = objs \/ objs' = [objs EXCEPT !["drivers"] = Nil]
      /\ UNCHANGED <<conns, connsMap, cdrvrs, dvr, hooks, doubled, overlap>>
  BY <1>1 DEF RemoveDrivers
<1>4. PICK b \in BOOLEAN : call' = [call EXCEPT ![c].removed = b, ![c].pc = "wait"]
  BY DEF RemoveDrivers
<1>5. /\ call' \in [Calls -> CallType] /\ call'[c].pc = "wait"
      /\ \A d \in Calls \ {c} : call'[d] = call[d]
  <2> DEFINE r == [call[c] EXCEPT !.removed = b, !.pc = "wait"]
  <2>1. call[c] \in CallType
    BY DEF TypeOK
  <2>2. r \in CallType /\ r.pc = "wait"
    BY <2>1, ZenonT(40) DEF CallType, CallRecord, LoadSteps, Steps
  <2>3. call' = [call EXCEPT ![c] = r]
    BY <1>4
  <2> QED BY <2>2, <2>3, CallUpdate
<1>6. events' \subseteq EventType /\ InEvents' = InEvents
  <2>1. \/ events' = events
        \/ /\ objs["drivers"] # Nil
           /\ events' = events \cup {[kind |-> "drivers", what |-> what, obj |-> objs["drivers"],
                                      cns |-> {}, of |-> c]}
    BY <1>1, <1>2 DEF RemoveDrivers, Raise
  <2>2. "drivers" \in Kinds /\ {} \in SUBSET Calls
    BY DEF Kinds
  <2>3. events' \subseteq EventType /\ InEvents' \subseteq InEvents \cup {}
    BY <2>1, <2>2, RaiseType
  <2>4. events \subseteq events'
    BY <2>1
  <2> QED BY <2>3, <2>4 DEF InEvents
<1>7. TypeOK'
  <2>1. objs' \in [Kinds -> Objs \cup {Nil}]
    BY <1>3 DEF TypeOK
  <2> QED BY <1>3, <1>5, <1>6, <2>1 DEF TypeOK
<1>8. Inv'
  <2>1. ~Unset(c)'
    BY <1>5 DEF Unset
  <2> QED BY <1>3, <1>5, <1>6, <2>1, QuietCall
<1> QED BY <1>7, <1>8

(* An event goroutine closes only connections that have left the map.      *)
LEMMA EventStep ==
  ASSUME TypeOK, Inv, NEW e \in events, RunEvent(e)
  PROVE  TypeOK' /\ Inv'
<1>1. PICK owner : owner = hooks[<<e.kind, e.what, e.obj>>]
  OBVIOUS
<1>2. /\ events' = events \ {e}
      /\ dvr' = [d \in Calls |-> IF d \in e.cns THEN Nil ELSE dvr[d]]
      /\ UNCHANGED <<maps, wiring, overlap>>
      /\ owner = Nil => call' = call
      /\ owner # Nil => call' = [call EXCEPT ![owner].waked = @ \cup {e.kind}]
  BY <1>1 DEF RunEvent
<1>3. /\ e.kind \in Kinds /\ e.what \in Whats /\ owner \in Calls \cup {Nil}
      /\ e.cns \subseteq Calls /\ e.cns \subseteq InEvents
  <2>1. e \in EventType
    BY DEF TypeOK
  <2>2. e.kind \in Kinds /\ e.what \in Whats /\ e.obj \in Objs /\ e.cns \subseteq Calls
    BY <2>1 DEF EventType
  <2>3. owner \in Calls \cup {Nil}
    BY <1>1, <2>2 DEF TypeOK
  <2> QED BY <2>2, <2>3 DEF InEvents
<1>4. /\ call' \in [Calls -> CallType]
      /\ \A d \in Calls : /\ call'[d].pc = call[d].pc /\ call'[d].todo = call[d].todo
                          /\ call'[d].found = call[d].found
  <2>1. CASE owner = Nil
    BY <1>2, <2>1 DEF TypeOK
  <2>2. CASE owner # Nil
    <3> DEFINE r == [call[owner] EXCEPT !.waked = @ \cup {e.kind}]
    <3>1. owner \in Calls /\ call[owner] \in CallType
      BY <1>3, <2>2 DEF TypeOK
    <3>2. /\ r \in CallType /\ r.pc = call[owner].pc /\ r.todo = call[owner].todo
          /\ r.found = call[owner].found
      BY <1>3, <3>1 DEF CallType, CallRecord
    <3>3. call' = [call EXCEPT ![owner] = r]
      BY <1>2, <2>2
    <3>4. /\ call' \in [Calls -> CallType] /\ call'[owner] = r
          /\ \A d \in Calls \ {owner} : call'[d] = call[d]
      BY <3>1, <3>2, <3>3, CallUpdate
    <3> QED BY <3>2, <3>4
  <2> QED BY <2>1, <2>2
<1>5. TypeOK'
  <2>1. dvr' \in [Calls -> DriverNames \cup {Nil}]
    BY <1>2 DEF TypeOK
  <2>2. events' \subseteq EventType
    BY <1>2 DEF TypeOK
  <2> QED BY <1>2, <1>4, <2>1, <2>2 DEF TypeOK, maps, wiring
<1>6. InMap' = InMap /\ conns' = conns /\ InEvents' \subseteq InEvents /\ InMap \subseteq Calls
  BY <1>2 DEF InMap, InEvents, maps, wiring, TypeOK
<1>7. \A d \in Calls : Unset(d)' => Unset(d)
  BY <1>4 DEF Unset
<1>8. FreshInv' /\ ApartInv' /\ OneInv'
  BY <1>6, <1>7 DEF Inv, FreshInv, ApartInv, OneInv
<1>9. ReloadInv' /\ TodoInv'
  BY <1>4 DEF Inv, ReloadInv, TodoInv
<1>10. RegisteredIsOpen'
  <2>1. \A d \in InMap : d \notin e.cns
    BY <1>3 DEF Inv, ApartInv
  <2> QED BY <1>2, <1>6, <2>1 DEF Inv, RegisteredIsOpen
<1> QED BY <1>5, <1>8, <1>9, <1>10 DEF Inv

(* and so every step. *)
LEMMA NextStep ==
  ASSUME TypeOK, Inv, [Next]_vars
  PROVE  TypeOK' /\ Inv'
<1>1. ASSUME NEW c \in Calls, Proceed(c)
      PROVE  TypeOK' /\ Inv'
  <2>1. CASE LoadDriver(c) \/ Register(c) \/ LoadEnds(c)
    BY <2>1, LoadStep
  <2>2. CASE \/ RegisterNew(c) \/ RegisterKnown(c) \/ RegisterDrop(c)
             \/ RegisterAgain(c) \/ Reload(c)
    BY <2>2, RegisterStep
  <2>3. CASE \/ Hook(c) \/ EventsCheck(c) \/ EventsMake(c) \/ EventsFetch(c)
             \/ Install(c)
    BY <2>3, EventsStep, InstallStep
  <2>4. CASE RemoveConns(c)
    BY <2>4, RemoveConnsStep
  <2>5. CASE RemoveDrivers(c)
    BY <2>5, RemoveDriversStep
  <2>6. CASE ForgetDrivers(c) \/ Wake(c) \/ UnloadEnds(c)
    BY <2>6, UnloadStep
  <2> QED BY <1>1, <2>1, <2>2, <2>3, <2>4, <2>5, <2>6 DEF Proceed
<1>2. CASE UNCHANGED vars
  <2>1. UNCHANGED <<conns, connsMap, cdrvrs, drvs, drvsMap, dvr, wiring, events, call, overlap>>
    BY <1>2 DEF vars, wiring
  <2>2. TypeOK'
    BY <2>1 DEF TypeOK, wiring
  <2>3. InMap' = InMap /\ InEvents' = InEvents /\ \A d \in Calls : Unset(d)' = Unset(d)
    BY <2>1 DEF InMap, InEvents, Unset
  <2>4. Inv'
    BY <2>1, <2>3
       DEF Inv, FreshInv, ApartInv, OneInv, ReloadInv, TodoInv, RegisteredIsOpen
  <2> QED BY <2>2, <2>4
<1>3. CASE Next
  BY <1>1, <1>3, StartStep, EventStep DEF Next
<1> QED BY <1>2, <1>3

----------------------------------------------------------------------------
(* The invariant of the types and the maps. *)
LEMMA InvTheorem == Spec => [](TypeOK /\ Inv)
<1>1. Init => TypeOK /\ Inv
  BY InitType, InitInv
<1>2. TypeOK /\ Inv /\ [Next]_vars => (TypeOK /\ Inv)'
  BY NextStep
<1> QED BY <1>1, <1>2, PTL DEF Spec

(* Type correctness: the maps, callbacks, events and calls keep their      *)
(* types; a call inside Register has an alias and a driver, and one that   *)
(* found a connection has one.                                             *)
THEOREM TypeTheorem == Spec => []TypeOK
BY InvTheorem, PTL

(* The registry never hands out a closed connection: whatever calls of     *)
(* Load and Unload (dbms.go) overlap, every connection in the map has its  *)
(* driver.  Events close only what has left the map (ApartInv), under one  *)
(* alias (OneInv), and a call sets its connection at most once, a new one  *)
(* (FreshInv).                                                             *)
THEOREM RegisteredOpenTheorem == Spec => []RegisteredIsOpen
<1>1. Inv => RegisteredIsOpen
  BY DEF Inv
<1> QED BY <1>1, InvTheorem, PTL

----------------------------------------------------------------------------
(* What is lost, and what Unload leaves.                                   *)

(* What a step of call c does to the calls: the fields the proofs below    *)
(* speak of.                                                               *)
Others(c) == \A d \in Calls \ {c} : call'[d] = call[d]
Keeps(c) == /\ Others(c) /\ call'[c].all = call[c].all /\ call'[c].waked = call[c].waked
            /\ call'[c].alias = call[c].alias /\ call'[c].cn = call[c].cn

(* What the steps do to the record of their call: moving on, *)
LEMMA GotoFacts ==
  ASSUME TypeOK, NEW c \in Calls, NEW pc \in Steps, Goto(c, pc)
  PROVE  Keeps(c) /\ call'[c].pc = pc /\ call'[c].todo = call[c].todo
<1>1. call[c] \in CallRecord
  BY DEF TypeOK, CallType
<1>2. call' = [call EXCEPT ![c] = [call[c] EXCEPT !.pc = pc]]
  BY DEF Goto
<1> QED BY <1>1, <1>2 DEF Keeps, Others, CallRecord, TypeOK

(* ending, *)
LEMMA OverFacts ==
  ASSUME TypeOK, NEW c \in Calls, NEW pc, Over(c, pc)
  PROVE  /\ Others(c) /\ call'[c].pc = pc /\ call'[c].all = call[c].all
         /\ call'[c].todo = {} /\ call'[c].waked = {}
BY DEF Over, Idle, TypeOK, Others

(* loading a driver, *)
LEMMA LoadDriverFacts ==
  ASSUME TypeOK, NEW c \in Calls, LoadDriver(c)
  PROVE  Keeps(c) /\ call'[c].pc = "load" /\ call'[c].todo = call[c].todo \ {"drivers"}
<1>1. call[c] \in CallRecord
  BY DEF TypeOK, CallType
<1>2. call' = [call EXCEPT ![c] = [call[c] EXCEPT !.todo = @ \ {"drivers"}]]
  BY DEF LoadDriver
<1> QED BY <1>1, <1>2 DEF Keeps, Others, CallRecord, TypeOK, LoadDriver

(* looking up the alias of a connection, *)
LEMMA RegisterFacts ==
  ASSUME TypeOK, NEW c \in Calls, Register(c)
  PROVE  /\ Others(c) /\ call[c].pc = "load" /\ call'[c].pc \in {"load", "new", "known"}
         /\ call'[c].all = call[c].all /\ call'[c].waked = call[c].waked
         /\ call'[c].alias = call[c].alias /\ call'[c].cn = conns[call[c].alias]
         /\ call'[c].todo = call[c].todo \ {"conns"}
         /\ call'[c].pc = "new" => connsMap /\ conns[call[c].alias] = Nil
         /\ call'[c].pc = "known" => connsMap /\ conns[call[c].alias] # Nil
<1> DEFINE to == IF ~connsMap THEN "load"
                 ELSE IF conns[call[c].alias] = Nil THEN "new" ELSE "known"
           r == [call[c] EXCEPT !.todo = @ \ {"conns"}, !.cn = conns[call[c].alias],
                                !.pc = to]
<1>1. call[c] \in CallRecord
  BY DEF TypeOK, CallType
<1>2. call' = [call EXCEPT ![c] = r]
  BY DEF Register
<1>3. call'[c] = r /\ Others(c)
  BY <1>2 DEF TypeOK, Others
<1>4. /\ r.pc = to /\ r.all = call[c].all /\ r.waked = call[c].waked
      /\ r.alias = call[c].alias /\ r.cn = conns[call[c].alias]
      /\ r.todo = call[c].todo \ {"conns"}
  BY <1>1 DEF CallRecord
<1>5. /\ to \in {"load", "new", "known"} /\ call[c].pc = "load"
      /\ to = "new" => connsMap /\ conns[call[c].alias] = Nil
      /\ to = "known" => connsMap /\ conns[call[c].alias] # Nil
  BY DEF Register
<1> HIDE DEF to, r
<1> QED BY <1>3, <1>4, <1>5

(* finding one that is registered already, *)
LEMMA KnownFacts ==
  ASSUME TypeOK, NEW c \in Calls, RegisterKnown(c), call'[c].pc # "panic"
  PROVE  Keeps(c) /\ call'[c].pc \in {"drop", "reload"} /\ call'[c].todo = call[c].todo
<1>1. call[c] \in CallRecord
  BY DEF TypeOK, CallType
<1>2. ~Over(c, "panic")
  BY OverFacts
<1> DEFINE has == dvr[call[c].cn]
           got == IF has \in {Nil, call[c].alias} THEN has ELSE Driver(call[c].alias)
           to == IF got = Nil THEN "drop" ELSE "reload"
<1>3. call' = [call EXCEPT ![c] = [call[c] EXCEPT !.found = got, !.pc = to]]
  BY <1>2 DEF RegisterKnown
<1>4. to \in {"drop", "reload"}
  OBVIOUS
<1> HIDE DEF got, to
<1> QED BY <1>1, <1>3, <1>4 DEF Keeps, Others, CallRecord, TypeOK

(* looking for the events object of a map, *)
LEMMA EventsFacts ==
  ASSUME TypeOK, NEW c \in Calls,
         Hook(c) \/ EventsCheck(c) \/ EventsMake(c) \/ EventsFetch(c)
  PROVE  \/ Over(c, "panic")
         \/ /\ Keeps(c) /\ call'[c].todo = call[c].todo
            /\ call'[c].pc \in {"events", "make", "fetch", "install"}
<1>1. call[c] \in CallRecord
  BY DEF TypeOK, CallType
<1>2. CASE Hook(c) \/ EventsMake(c)
  BY <1>2, GotoFacts DEF Hook, EventsMake, Steps
<1>3. CASE EventsCheck(c) \/ EventsFetch(c)
  <2>1. \/ Over(c, "panic")
        \/ \E o, to : /\ to \in {"make", "install"}
                     /\ call' = [call EXCEPT ![c] = [call[c] EXCEPT !.mine = o, !.pc = to]]
    BY <1>3, ZenonT(40) DEF EventsCheck, EventsFetch
  <2>2. ASSUME NEW o, NEW to, to \in {"make", "install"},
               call' = [call EXCEPT ![c] = [call[c] EXCEPT !.mine = o, !.pc = to]]
        PROVE  Keeps(c) /\ call'[c].todo = call[c].todo /\ call'[c].pc = to
    BY <1>1, <2>2 DEF Keeps, Others, CallRecord, TypeOK
  <2> QED BY <2>1, <2>2
<1> QED BY <1>2, <1>3

(* adding the callback of an Unload, *)
LEMMA InstallFacts ==
  ASSUME TypeOK, NEW c \in Calls, Install(c)
  PROVE  /\ call'[c].pc = "remove"
         /\ \A d \in Calls : /\ call'[d].todo = call[d].todo /\ call'[d].all = call[d].all
                             /\ call'[d].waked = call[d].waked
                             /\ call'[d].alias = call[d].alias /\ call'[d].cn = call[d].cn
                             /\ d # c => call'[d].pc = call[d].pc
<1>1. PICK rival :
        call' = [d \in Calls |->
                   IF d = c THEN [call[d] EXCEPT !.pc = "remove", !.mine = Nil]
                   ELSE IF d = rival THEN [call[d] EXCEPT !.replaced = TRUE]
                   ELSE call[d]]
  BY DEF Install
<1>2. ASSUME NEW d \in Calls
      PROVE  /\ call'[d].todo = call[d].todo /\ call'[d].all = call[d].all
             /\ call'[d].waked = call[d].waked
             /\ call'[d].alias = call[d].alias /\ call'[d].cn = call[d].cn
             /\ call'[d].pc = IF d = c THEN "remove" ELSE call[d].pc
  <2>1. call[d] \in CallRecord
    BY DEF TypeOK, CallType
  <2>2. \/ d = c /\ call'[d] = [call[d] EXCEPT !.pc = "remove", !.mine = Nil]
        \/ d # c /\ call'[d] = [call[d] EXCEPT !.replaced = TRUE]
        \/ d # c /\ call'[d] = call[d]
    BY <1>1
  <2> QED BY <2>1, <2>2 DEF CallRecord
<1> QED BY <1>2

(* deleting the members it was called for, *)
LEMMA RemoveFacts ==
  ASSUME TypeOK, NEW c \in Calls, RemoveConns(c) \/ RemoveDrivers(c)
  PROVE  /\ Keeps(c) /\ call'[c].todo = call[c].todo
         /\ call'[c].pc = IF Turn(c) = "conns" /\ call[c].all THEN "forget" ELSE "wait"
<1>1. call[c] \in CallRecord
  BY SMTT(40) DEF TypeOK, CallType
<1>2. PICK b : call' = [call EXCEPT ![c] = [call[c] EXCEPT !.removed = b,
                 !.pc = IF Turn(c) = "conns" /\ call[c].all THEN "forget" ELSE "wait"]]
  BY ZenonT(40) DEF RemoveConns, RemoveDrivers
<1> QED BY <1>1, <1>2 DEF Keeps, Others, CallRecord, TypeOK

(* being woken by the callback, *)
LEMMA WakeFacts ==
  ASSUME TypeOK, NEW c \in Calls, Wake(c)
  PROVE  /\ Keeps(c) /\ call'[c].pc = "hook" /\ call'[c].todo = call[c].todo \ {Turn(c)}
         /\ Turn(c) \in call[c].waked
<1>1. call[c] \in CallRecord
  BY DEF TypeOK, CallType
<1>2. call' = [call EXCEPT ![c] = [call[c] EXCEPT !.todo = @ \ {Turn(c)}, !.pc = "hook",
                                                  !.removed = FALSE, !.replaced = FALSE]]
  BY DEF Wake
<1> QED BY <1>1, <1>2 DEF Keeps, Others, CallRecord, TypeOK, Wake

(* the event that wakes it, *)
LEMMA EventFacts ==
  ASSUME TypeOK, NEW e \in events, RunEvent(e)
  PROVE  \A d \in Calls :
           /\ call'[d].todo = call[d].todo /\ call'[d].all = call[d].all
           /\ call'[d].alias = call[d].alias /\ call'[d].cn = call[d].cn
           /\ call'[d].pc = call[d].pc
           /\ call'[d].waked = IF d = hooks[<<e.kind, e.what, e.obj>>]
                               THEN call[d].waked \cup {e.kind} ELSE call[d].waked
<1>1. PICK owner : owner = hooks[<<e.kind, e.what, e.obj>>]
  OBVIOUS
<1>2. \A d \in Calls : call[d] \in CallRecord /\ d # Nil
  BY NilAssumption DEF TypeOK, CallType
<1>3. CASE owner = Nil
  BY <1>1, <1>2, <1>3 DEF RunEvent
<1>4. CASE owner # Nil
  <2>1. call' = [call EXCEPT ![owner] = [call[owner] EXCEPT !.waked = @ \cup {e.kind}]]
    BY <1>1, <1>4 DEF RunEvent
  <2>2. ASSUME NEW d \in Calls
        PROVE  call'[d] = IF d = owner THEN [call[d] EXCEPT !.waked = @ \cup {e.kind}]
                          ELSE call[d]
    BY <2>1 DEF TypeOK
  <2> QED BY <1>1, <1>2, <2>2, ZenonT(40) DEF CallRecord
<1> QED BY <1>3, <1>4

(* and starting, which changes nothing else. *)
LEMMA StartFacts ==
  ASSUME TypeOK, NEW c \in Calls, Start(c)
  PROVE  /\ UNCHANGED <<conns, connsMap, cdrvrs, drvs, drvsMap, dvr, objs, hooks, events>>
         /\ Others(c) /\ call[c].pc = "idle"
         /\ call'[c].pc \in {"load", "hook", "spins"} /\ call'[c].waked = {}
         /\ call'[c].all => call'[c].pc = "hook" /\ call'[c].todo = Kinds
         /\ overlap' = (overlap \/ \E other \in Calls : UnderWay(other))
<1>1. PICK r :
        /\ Begin(c, r) /\ r.pc \in {"load", "hook", "spins"} /\ r.waked = {}
        /\ r.all => r.pc = "hook" /\ r.todo = Kinds
  <2>1. ASSUME NEW todo, NEW a, NEW d, Load(c, todo, a, d)
        PROVE  \E r : /\ Begin(c, r) /\ r.pc \in {"load", "hook", "spins"} /\ r.waked = {}
                      /\ r.all => r.pc = "hook" /\ r.todo = Kinds
    <3> DEFINE r == [Idle EXCEPT !.pc = "load", !.todo = todo, !.alias = a, !.drv = d]
    <3>1. r.pc = "load" /\ r.waked = {} /\ r.all = FALSE
      BY DEF Idle
    <3>2. Begin(c, r)
      BY <2>1 DEF Load
    <3> QED BY <3>1, <3>2
  <2>2. ASSUME UnloadAll(c)
        PROVE  \E r : /\ Begin(c, r) /\ r.pc \in {"load", "hook", "spins"} /\ r.waked = {}
                      /\ r.all => r.pc = "hook" /\ r.todo = Kinds
    <3> DEFINE r == [Idle EXCEPT !.pc = "hook", !.all = TRUE, !.todo = Kinds]
    <3>1. r.pc = "hook" /\ r.waked = {} /\ r.todo = Kinds
      BY DEF Idle
    <3>2. Begin(c, r)
      BY <2>2 DEF UnloadAll
    <3> QED BY <3>1, <3>2
  <2>3. ASSUME NEW A, NEW D, UnloadNames(c, A, D)
        PROVE  \E r : /\ Begin(c, r) /\ r.pc \in {"load", "hook", "spins"} /\ r.waked = {}
                      /\ r.all => r.pc = "hook" /\ r.todo = Kinds
    <3> DEFINE names == [k \in Kinds |-> IF k = "conns" THEN A ELSE D]
               r == [Idle EXCEPT !.pc = "hook", !.names = names,
                                 !.todo = {k \in Kinds : names[k] # {}}]
    <3>1. r.pc = "hook" /\ r.waked = {} /\ r.all = FALSE
      BY DEF Idle
    <3>2. Begin(c, r)
      BY <2>3 DEF UnloadNames
    <3> QED BY <3>1, <3>2
  <2>4. ASSUME UnloadText(c)
        PROVE  \E r : /\ Begin(c, r) /\ r.pc \in {"load", "hook", "spins"} /\ r.waked = {}
                      /\ r.all => r.pc = "hook" /\ r.todo = Kinds
    <3> DEFINE r == [Idle EXCEPT !.pc = "spins"]
    <3>1. r.pc = "spins" /\ r.waked = {} /\ r.all = FALSE
      BY DEF Idle
    <3>2. Begin(c, r)
      BY <2>4 DEF UnloadText
    <3> QED BY <3>1, <3>2
  <2> QED BY <2>1, <2>2, <2>3, <2>4 DEF Start
<1>2. UNCHANGED <<maps, dvr, wiring, events>>
  BY DEF Start, Load, UnloadAll, UnloadNames, UnloadText
<1>3. call'[c] = r /\ Others(c)
  BY <1>1 DEF Begin, TypeOK, Others
<1> QED BY <1>1, <1>2, <1>3 DEF maps, wiring, Begin

(* A call that proceeds was under way; the others stay where they are.     *)
LEMMA ProceedFacts ==
  ASSUME TypeOK, NEW c \in Calls, Proceed(c)
  PROVE  /\ UnderWay(c) /\ overlap' = overlap
         /\ \A d \in Calls \ {c} :
              /\ call'[d].pc = call[d].pc /\ call'[d].todo = call[d].todo
              /\ call'[d].all = call[d].all /\ call'[d].waked = call[d].waked
              /\ call'[d].alias = call[d].alias /\ call'[d].cn = call[d].cn
<1>1. overlap' = overlap /\ UnderWay(c)
  BY DEF Proceed, LoadDriver, Register, RegisterNew, RegisterKnown, Reload, RegisterDrop,
         RegisterAgain, LoadEnds, Hook, EventsCheck, EventsMake, EventsFetch, Install,
         RemoveConns, ForgetDrivers, RemoveDrivers, Wake, UnloadEnds, UnderWay
<1>2. CASE Install(c)
  BY <1>1, <1>2, InstallFacts
<1>3. CASE ~Install(c)
  <2>1. Others(c)
    <3>1. CASE Hook(c) \/ EventsCheck(c) \/ EventsMake(c) \/ EventsFetch(c)
      BY <3>1, EventsFacts, OverFacts DEF Keeps
    <3>2. CASE ~(Hook(c) \/ EventsCheck(c) \/ EventsMake(c) \/ EventsFetch(c))
      BY <1>3, <3>2 DEF Proceed, LoadDriver, Register, RegisterNew, RegisterKnown, Reload,
         RegisterDrop, RegisterAgain, LoadEnds, RemoveConns, ForgetDrivers, RemoveDrivers,
         Wake, UnloadEnds, Goto, Over, Others, TypeOK
    <3> QED BY <3>1, <3>2
  <2> QED BY <1>1, <2>1 DEF Others
<1> QED BY <1>2, <1>3, SMTT(40)

(* Without an overlap one call is under way.                               *)
SeqInv == ~overlap => \A c, d \in Calls : UnderWay(c) /\ UnderWay(d) => c = d

(* Then what Register has found in the map is still so when it acts on it. *)
Known(c) ==
    /\ call[c].pc \in {"new", "again"} => connsMap /\ conns[call[c].alias] = Nil
    /\ call[c].pc \in {"known", "drop", "reload"} =>
         connsMap /\ conns[call[c].alias] = call[c].cn /\ call[c].cn # Nil
KnownInv == ~overlap => \A c \in Calls : Known(c)

(* Calls that do not overlap run one at a time. *)
LEMMA SeqStep ==
  ASSUME TypeOK, SeqInv, [Next]_vars
  PROVE  SeqInv'
<1>1. ASSUME NEW c \in Calls, Start(c)
      PROVE  SeqInv'
  BY <1>1, StartFacts, ZenonT(40) DEF SeqInv, UnderWay, Others
<1>2. ASSUME NEW c \in Calls, Proceed(c)
      PROVE  SeqInv'
  BY <1>2, ProceedFacts DEF SeqInv, UnderWay
<1>3. ASSUME NEW e \in events, RunEvent(e)
      PROVE  SeqInv'
  BY <1>3, EventFacts DEF SeqInv, UnderWay, RunEvent
<1>4. CASE UNCHANGED vars
  BY <1>4 DEF vars, SeqInv, UnderWay
<1> QED BY <1>1, <1>2, <1>3, <1>4 DEF Next

(* Alone, what Register has found in the map is still so when it acts. *)
LEMMA KnownStep ==
  ASSUME TypeOK, SeqInv, KnownInv, [Next]_vars
  PROVE  KnownInv'
<1>1. ASSUME NEW c \in Calls, Start(c)
      PROVE  KnownInv'
  <2>1. /\ UNCHANGED <<conns, connsMap>> /\ (overlap => overlap')
        /\ call'[c].pc \in {"load", "hook", "spins"}
        /\ \A d \in Calls \ {c} : call'[d] = call[d]
    BY <1>1, StartFacts DEF Others
  <2>2. ASSUME ~overlap', NEW d \in Calls
        PROVE  Known(d)'
    <3>1. Known(d)
      BY <2>1, <2>2 DEF KnownInv
    <3>2. CASE d = c
      BY <2>1, <3>2 DEF Known
    <3>3. CASE d # c
      BY <2>1, <3>1, <3>3 DEF Known
    <3> QED BY <3>2, <3>3
  <2> QED BY <2>2 DEF KnownInv
<1>2. ASSUME NEW c \in Calls, Proceed(c)
      PROVE  KnownInv'
  <2>1. SUFFICES ASSUME ~overlap PROVE Known(c)'
    BY <1>2, ProceedFacts DEF KnownInv, Known, SeqInv, UnderWay
  <2>2. Known(c)
    BY <2>1 DEF KnownInv
  <2>3. call[c] \in CallType
    BY DEF TypeOK
  <2>4. CASE Register(c)
    BY <2>4, RegisterFacts, ZenonT(40) DEF Register, maps, wiring, Known
  <2>5. CASE RegisterKnown(c)
    BY <2>2, <2>5, KnownFacts DEF RegisterKnown, maps, wiring, Known, Keeps
  <2>6. CASE RegisterDrop(c)
    <3>1. Keeps(c) /\ call'[c].pc = "again"
      BY <2>6, GotoFacts DEF RegisterDrop, Steps
    <3>2. connsMap' /\ conns' = [conns EXCEPT ![call[c].alias] = Nil]
      BY <2>2, <2>6 DEF RegisterDrop, Known
    <3>3. call[c].alias \in Aliases
      BY <2>3, <2>6 DEF RegisterDrop, CallType, LoadSteps
    <3> QED BY <3>1, <3>2, <3>3 DEF Known, Keeps, TypeOK
  <2>7. CASE RegisterNew(c) \/ RegisterAgain(c) \/ Reload(c)
    <3>1. call'[c].pc \in {"load", "panic"}
      BY <2>7, GotoFacts, OverFacts DEF RegisterNew, RegisterAgain, Reload, Steps
    <3> QED BY <3>1 DEF Known
  <2>8. CASE LoadDriver(c) \/ LoadEnds(c)
    <3>1. call'[c].pc \in {"load", "done"}
      BY <2>8, LoadDriverFacts, OverFacts DEF LoadEnds
    <3> QED BY <3>1 DEF Known
  <2>9. CASE \/ Hook(c) \/ EventsCheck(c) \/ EventsMake(c) \/ EventsFetch(c)
             \/ Install(c)
    <3>1. call'[c].pc \in {"events", "make", "fetch", "install", "remove", "panic"}
      BY <2>9, EventsFacts, InstallFacts, OverFacts
    <3> QED BY <3>1 DEF Known
  <2>10. CASE RemoveConns(c) \/ RemoveDrivers(c)
    BY <2>10, RemoveFacts DEF Known
  <2>11. CASE ForgetDrivers(c) \/ UnloadEnds(c) \/ Wake(c)
    <3>1. call'[c].pc \in {"wait", "done", "hook"}
      BY <2>11, GotoFacts, OverFacts, WakeFacts DEF ForgetDrivers, UnloadEnds, Steps
    <3> QED BY <3>1 DEF Known
  <2> QED BY <1>2, <2>4, <2>5, <2>6, <2>7, <2>8, <2>9, <2>10, <2>11 DEF Proceed
<1>3. ASSUME NEW e \in events, RunEvent(e)
      PROVE  KnownInv'
  <2>1. UNCHANGED <<conns, connsMap, overlap>>
    BY <1>3 DEF RunEvent, maps, wiring
  <2>2. ASSUME NEW d \in Calls, Known(d)
        PROVE  Known(d)'
    BY <1>3, <2>1, <2>2, EventFacts DEF Known
  <2> QED BY <2>1, <2>2 DEF KnownInv
<1>4. CASE UNCHANGED vars
  BY <1>4 DEF vars, KnownInv, Known
<1> QED BY <1>1, <1>2, <1>3, <1>4 DEF Next

----------------------------------------------------------------------------
(* A closed map is empty, and that of the connections has an events object *)
(* until it is closed.                                                     *)
MapInv == /\ ~connsMap => \A a \in Aliases : conns[a] = Nil
          /\ ~drvsMap => drvs = {}
          /\ connsMap => objs["conns"] # Nil

(* Nothing is lost by a step that drops no connection from the map. *)
LEMMA LostKeep ==
  ASSUME LostNeedsOverlap, overlap => overlap',
         InMap \cup InEvents \subseteq InMap' \cup InEvents',
         \A cn \in Calls : dvr'[cn] # Nil => dvr[cn] # Nil \/ cn \in InMap' \cup InEvents'
  PROVE  LostNeedsOverlap'
BY DEF LostNeedsOverlap

(* What an Unload deletes is in the map. *)
LEMMA MembersInMap ==
  ASSUME TypeOK, NEW c \in Calls
  PROVE  Members(c) \subseteq InMap
<1>1. call[c].names["conns"] \subseteq Aliases
  BY CallFacts DEF Names
<1> QED BY <1>1 DEF Members, InMap

(* A new connection loses the one it replaces only in an overlap. *)
LEMMA SetLost ==
  ASSUME TypeOK, LostNeedsOverlap, NEW c \in Calls, NEW a \in Aliases, NEW name,
         SetNew(c, a, name), UNCHANGED <<events, overlap>>, ~overlap => connsMap /\ conns[a] = Nil
  PROVE  LostNeedsOverlap'
<1>1. CASE overlap
  BY <1>1 DEF LostNeedsOverlap
<1>2. CASE ~overlap
  <2>1. /\ conns'[a] = c /\ \A b \in Aliases \ {a} : conns'[b] = conns[b]
        /\ conns[a] = Nil /\ \A d \in Calls \ {c} : dvr'[d] = dvr[d]
    BY <1>2 DEF SetNew, TypeOK
  <2>2. InMap \subseteq InMap' /\ c \in InMap' /\ InEvents' = InEvents
    <3>1. c # Nil
      BY NilAssumption
    <3> QED BY <2>1, <3>1 DEF InMap, InEvents
  <2> QED BY <2>1, <2>2, LostKeep
<1> QED BY <1>1, <1>2

(* No other step loses one. *)
LEMMA LostStep ==
  ASSUME TypeOK, Inv, MapInv, KnownInv, LostNeedsOverlap, [Next]_vars
  PROVE  LostNeedsOverlap'
<1>1. ASSUME UNCHANGED <<conns, dvr, events>>, overlap => overlap'
      PROVE  LostNeedsOverlap'
  BY <1>1 DEF LostNeedsOverlap, InMap, InEvents
<1>2. ASSUME NEW c \in Calls, Start(c)
      PROVE  LostNeedsOverlap'
  BY <1>1, <1>2, StartFacts
<1>3. ASSUME NEW c \in Calls,
             \/ LoadDriver(c) \/ Register(c) \/ RegisterKnown(c) \/ LoadEnds(c)
             \/ Hook(c) \/ EventsCheck(c) \/ EventsMake(c) \/ EventsFetch(c) \/ Install(c)
             \/ ForgetDrivers(c) \/ Wake(c) \/ UnloadEnds(c)
      PROVE  LostNeedsOverlap'
  <2>1. UNCHANGED <<conns, dvr, events, overlap>>
    BY <1>3 DEF LoadDriver, Register, RegisterKnown, LoadEnds, Hook, EventsCheck, EventsMake,
                EventsFetch, Install, ForgetDrivers, Wake, UnloadEnds, maps
  <2> QED BY <1>1, <2>1
<1>4. ASSUME NEW c \in Calls, call[c].pc \in LoadSteps
      PROVE  call[c].alias \in Aliases
  BY <1>4 DEF TypeOK, CallType
<1>5. ASSUME NEW c \in Calls, RegisterNew(c)
      PROVE  LostNeedsOverlap'
  <2>1. /\ call[c].pc = "new" /\ call[c].alias \in Aliases
        /\ ~overlap => connsMap /\ conns[call[c].alias] = Nil
    BY <1>4, <1>5 DEF RegisterNew, LoadSteps, KnownInv, Known
  <2>2. UNCHANGED <<events, overlap>>
    BY <1>5 DEF RegisterNew
  <2>3. CASE cdrvrs /\ Driver(call[c].drv) # Nil
    BY <1>5, <2>1, <2>2, <2>3, SetLost DEF RegisterNew
  <2>4. CASE ~(cdrvrs /\ Driver(call[c].drv) # Nil)
    BY <1>1, <1>5, <2>2, <2>4 DEF RegisterNew
  <2> QED BY <2>3, <2>4
<1>6. ASSUME NEW c \in Calls, RegisterAgain(c)
      PROVE  LostNeedsOverlap'
  <2>1. /\ call[c].pc = "again" /\ call[c].alias \in Aliases
        /\ ~overlap => connsMap /\ conns[call[c].alias] = Nil
    BY <1>4, <1>6 DEF RegisterAgain, LoadSteps, KnownInv, Known
  <2>2. UNCHANGED <<events, overlap>>
    BY <1>6 DEF RegisterAgain
  <2>3. CASE cdrvrs /\ Driver(call[c].alias) # Nil
    BY <1>6, <2>1, <2>2, <2>3, SetLost DEF RegisterAgain
  <2>4. CASE ~(cdrvrs /\ Driver(call[c].alias) # Nil)
    BY <1>1, <1>6, <2>2, <2>4 DEF RegisterAgain
  <2> QED BY <2>3, <2>4
<1>7. ASSUME NEW c \in Calls, Reload(c)
      PROVE  LostNeedsOverlap'
  <2>1. /\ call[c].pc = "reload" /\ call[c].alias \in Aliases
        /\ UNCHANGED <<conns, events, overlap>>
        /\ dvr' = [dvr EXCEPT ![call[c].cn] = call[c].found]
    BY <1>4, <1>7 DEF Reload, LoadSteps, maps, wiring
  <2>2. InMap' = InMap /\ InEvents' = InEvents
    BY <2>1 DEF InMap, InEvents
  <2>3. CASE overlap
    BY <2>1, <2>3 DEF LostNeedsOverlap
  <2>4. CASE ~overlap
    <3>1. call[c].cn \in InMap
      BY <2>1, <2>4 DEF KnownInv, Known, InMap
    <3>2. \A d \in Calls : d # call[c].cn => dvr'[d] = dvr[d]
      BY <2>1 DEF TypeOK
    <3> QED BY <2>1, <2>2, <3>1, <3>2, LostKeep
  <2> QED BY <2>3, <2>4
<1>8. ASSUME NEW c \in Calls, RegisterDrop(c)
      PROVE  LostNeedsOverlap'
  <2>1. PICK a \in Aliases : a = call[c].alias
    BY <1>4, <1>8 DEF RegisterDrop, LoadSteps
  <2>2. /\ Raise(c, "conns", "deleted", {conns[a]}, conns[a] # Nil)
        /\ conns' = [conns EXCEPT ![a] = Nil] /\ UNCHANGED <<dvr, overlap>>
    BY <1>8, <2>1 DEF RegisterDrop
  <2>3. ASSUME conns[a] \in Calls, conns[a] # Nil
        PROVE  conns[a] \in InEvents'
    <3>1. PICK x : events' = events \cup {x} /\ x.cns = {conns[a]}
      <4> DEFINE x == [kind |-> "conns", what |-> "deleted", obj |-> objs["conns"],
                       cns |-> {conns[a]}, of |-> c]
      <4>1. objs["conns"] # Nil
        BY <2>3 DEF MapInv
      <4>2. events' = events \cup {x} /\ x.cns = {conns[a]}
        BY <2>2, <2>3, <4>1 DEF Raise
      <4> QED BY <4>2
    <3> QED BY <2>3, <3>1 DEF InEvents
  <2>4. InEvents \subseteq InEvents'
    BY <2>2 DEF Raise, InEvents
  <2>5. \A cn \in InMap : cn \in InMap' \/ cn = conns[a]
    BY <2>2 DEF InMap, TypeOK
  <2>6. InMap \subseteq Calls /\ Nil \notin InMap
    BY DEF InMap, TypeOK
  <2> QED BY <2>2, <2>3, <2>4, <2>5, <2>6, LostKeep
<1>9. ASSUME NEW c \in Calls, RemoveConns(c)
      PROVE  LostNeedsOverlap'
  <2>1. PICK gone : gone = Members(c)
    OBVIOUS
  <2>2. /\ Raise(c, "conns", What(c), gone, gone # {})
        /\ conns' = [b \in Aliases |-> IF conns[b] \in gone THEN Nil ELSE conns[b]]
        /\ UNCHANGED <<dvr, overlap>>
    BY <1>9, <2>1 DEF RemoveConns
  <2>3. gone \subseteq Calls
    BY <2>1, CallFacts
  <2>4. InEvents \cup gone \subseteq InEvents'
    <3>1. \/ gone = {} /\ events' = events
          \/ \E x : events' = events \cup {x} /\ x.cns = gone
      <4>1. CASE gone # {}
        <5> DEFINE x == [kind |-> "conns", what |-> What(c), obj |-> objs["conns"],
                         cns |-> gone, of |-> c]
        <5>1. objs["conns"] # Nil
          BY <2>1, <4>1, MembersInMap DEF MapInv, InMap
        <5>2. events' = events \cup {x} /\ x.cns = gone
          BY <2>2, <4>1, <5>1 DEF Raise
        <5> QED BY <5>2
      <4> QED BY <2>2, <4>1 DEF Raise
    <3> QED BY <2>3, <3>1 DEF InEvents
  <2>5. \A cn \in InMap : cn \in InMap' \/ cn \in gone
    BY <2>2 DEF InMap
  <2> QED BY <2>2, <2>4, <2>5, LostKeep
<1>10. ASSUME NEW c \in Calls, RemoveDrivers(c)
      PROVE  LostNeedsOverlap'
  <2>1. PICK b : Raise(c, "drivers", What(c), {}, b)
    BY <1>10 DEF RemoveDrivers
  <2>2. UNCHANGED <<conns, dvr, overlap>>
    BY <1>10 DEF RemoveDrivers
  <2>3. InMap' = InMap /\ InEvents \subseteq InEvents'
    BY <2>1, <2>2 DEF Raise, InMap, InEvents
  <2> QED BY <2>2, <2>3, LostKeep
<1>11. ASSUME NEW e \in events, RunEvent(e)
      PROVE  LostNeedsOverlap'
  <2>1. /\ events' = events \ {e} /\ UNCHANGED <<conns, overlap>>
        /\ dvr' = [c \in Calls |-> IF c \in e.cns THEN Nil ELSE dvr[c]]
    BY <1>11 DEF RunEvent, maps, wiring
  <2>2. ASSUME NEW cn \in Calls, dvr'[cn] # Nil
        PROVE  cn \in InMap' \cup InEvents' \/ overlap'
    <3>1. dvr[cn] # Nil /\ cn \notin e.cns
      BY <2>1, <2>2
    <3>2. cn \in InMap \cup InEvents \/ overlap
      BY <3>1 DEF LostNeedsOverlap
    <3> QED BY <2>1, <3>1, <3>2 DEF InMap, InEvents
  <2> QED BY <2>2 DEF LostNeedsOverlap
<1>12. CASE UNCHANGED vars
  BY <1>1, <1>12 DEF vars
<1> QED BY <1>2, <1>3, <1>5, <1>6, <1>7, <1>8, <1>9, <1>10, <1>11, <1>12 DEF Next, Proceed

----------------------------------------------------------------------------
(* What Unload leaves: a map that is closed stays closed, its              *)
(* connections are in one event, and an Unload of everything passes its    *)
(* first wait when that event has run.                                     *)
Disposal(e) == e.kind = "conns" /\ e.what = "disposed"
RaisedInv == /\ \A e \in events : e.kind = "drivers" => e.cns = {}
             /\ connsMap => \A e \in events : ~Disposal(e)
             /\ \A e, f \in events : Disposal(e) /\ Disposal(f) => e = f

Shut == ~connsMap /\ \A e \in events : ~Disposal(e)

OwnInv == \A k \in Kinds, o \in Objs, c \in Calls :
    hooks[<<k, "deleted", o>>] = c => ~call[c].all /\ call[c].pc # "idle"

Unloads(c) == call[c].all =>
    /\ call[c].pc \in {"hook", "events", "make", "fetch", "install", "remove", "forget", "wait",
                       "done", "panic"}
    /\ "conns" \in call[c].waked => Shut
    /\ call[c].pc = "forget" => "conns" \in call[c].todo
    /\ call[c].pc = "done" => call[c].todo = {}
    /\ call[c].pc # "panic" /\ "conns" \notin call[c].todo => Shut
    /\ call[c].pc # "panic" /\ "drivers" \notin call[c].todo => ~drvsMap
    /\ call[c].pc = "wait" /\ "conns" \notin call[c].todo => ~drvsMap
UnloadInv == \A c \in Calls : Unloads(c)

(* The invariants of Unload hold at the start. *)
LEMMA InitUnload ==
  Init => SeqInv /\ KnownInv /\ LostNeedsOverlap /\ MapInv /\ RaisedInv /\ OwnInv /\ UnloadInv
<1> SUFFICES ASSUME Init
             PROVE  SeqInv /\ KnownInv /\ LostNeedsOverlap /\ MapInv /\ RaisedInv /\ OwnInv
                    /\ UnloadInv
  OBVIOUS
<1>1. \A c \in Calls : call[c].pc = "idle" /\ call[c].all = FALSE /\ dvr[c] = Nil
  BY DEF Init, Idle
<1>2. connsMap /\ drvsMap /\ events = {} /\ objs["conns"] # Nil
  BY FirstAssumption DEF Init, Kinds
<1>3. \A k \in Kinds, o \in Objs, c \in Calls : hooks[<<k, "deleted", o>>] # c
  BY NilAssumption DEF Init, Kinds, Whats
<1> QED BY <1>1, <1>2, <1>3 DEF SeqInv, UnderWay, KnownInv, Known, LostNeedsOverlap, MapInv,
                                 RaisedInv, OwnInv, UnloadInv, Unloads

(* A map that is closed is empty. *)
LEMMA MapStep ==
  ASSUME TypeOK, MapInv, [Next]_vars
  PROVE  MapInv'
<1>1. ASSUME UNCHANGED <<conns, connsMap, drvs, drvsMap, objs>>
      PROVE  MapInv'
  BY <1>1 DEF MapInv
<1>2. ASSUME NEW c \in Calls, Start(c)
      PROVE  MapInv'
  BY <1>1, <1>2, StartFacts
<1>3. ASSUME NEW c \in Calls,
             \/ Register(c) \/ RegisterKnown(c) \/ LoadEnds(c) \/ Reload(c)
             \/ Hook(c) \/ EventsCheck(c) \/ EventsFetch(c) \/ Install(c)
             \/ ForgetDrivers(c) \/ Wake(c) \/ UnloadEnds(c)
      PROVE  MapInv'
  <2>1. UNCHANGED <<conns, connsMap, drvs, drvsMap, objs>>
    BY <1>3 DEF Register, RegisterKnown, LoadEnds, Reload, Hook, EventsCheck, EventsFetch,
                Install, ForgetDrivers, Wake, UnloadEnds, maps, wiring
  <2> QED BY <1>1, <2>1
<1>4. ASSUME NEW c \in Calls, LoadDriver(c)
      PROVE  MapInv'
  BY <1>4 DEF LoadDriver, MapInv, wiring
<1>5. ASSUME NEW c \in Calls, RegisterNew(c) \/ RegisterAgain(c)
      PROVE  MapInv'
  <2>1. UNCHANGED <<connsMap, drvs, drvsMap, objs>> /\ (~connsMap => conns' = conns)
    BY <1>5 DEF RegisterNew, RegisterAgain, SetNew, wiring
  <2> QED BY <2>1 DEF MapInv
<1>6. ASSUME NEW c \in Calls, RegisterDrop(c)
      PROVE  MapInv'
  BY <1>6 DEF RegisterDrop, MapInv, TypeOK, wiring
<1>7. ASSUME NEW c \in Calls, RemoveConns(c)
      PROVE  MapInv'
  <2>1. /\ UNCHANGED <<drvs, drvsMap>> /\ connsMap' = (connsMap /\ ~call[c].all)
        /\ conns' = [b \in Aliases |-> IF conns[b] \in Members(c) THEN Nil ELSE conns[b]]
        /\ objs' = objs \/ call[c].all
    BY <1>7 DEF RemoveConns
  <2>2. call[c].all => \A b \in Aliases : conns[b] = Nil \/ conns[b] \in Members(c)
    BY DEF Members
  <2> QED BY <2>1, <2>2 DEF MapInv
<1>8. ASSUME NEW c \in Calls, RemoveDrivers(c)
      PROVE  MapInv'
  <2>1. /\ UNCHANGED <<conns, connsMap>> /\ drvsMap' = (drvsMap /\ ~call[c].all)
        /\ drvs' \subseteq drvs /\ (call[c].all => drvs' = {})
        /\ objs'["conns"] = objs["conns"]
    BY <1>8 DEF RemoveDrivers, TypeOK, Kinds
  <2> QED BY <2>1 DEF MapInv
<1>9. ASSUME NEW e \in events, RunEvent(e)
      PROVE  MapInv'
  BY <1>1, <1>9 DEF RunEvent, maps, wiring
<1>10. ASSUME NEW c \in Calls, EventsMake(c)
      PROVE  MapInv'
  <2>1. UNCHANGED <<conns, connsMap, drvs, drvsMap>> /\ objs' = [objs EXCEPT ![Turn(c)] = c]
    BY <1>10 DEF EventsMake, maps
  <2>2. objs'["conns"] = c \/ objs'["conns"] = objs["conns"]
    BY <2>1 DEF TypeOK, Kinds
  <2> QED BY <2>1, <2>2, NilAssumption DEF MapInv
<1>11. CASE UNCHANGED vars
  BY <1>1, <1>11 DEF vars
<1> QED BY <1>2, <1>3, <1>4, <1>5, <1>6, <1>7, <1>8, <1>9, <1>10, <1>11 DEF Next, Proceed

(* A step raises no event, or the one of a Delete, or of drivers, or, of a *)
(* map that was open, the one of its Close; a closed map stays closed.     *)
LEMMA RaisedNext ==
  ASSUME TypeOK, MapInv, [Next]_vars
  PROVE  /\ connsMap' => connsMap
         /\ drvsMap' => drvsMap
         /\ \/ events' \subseteq events
            \/ \E x : /\ events' = events \cup {x}
                      /\ x.kind = "drivers" => x.cns = {}
                      /\ Disposal(x) => connsMap /\ ~connsMap'
<1> DEFINE G == /\ connsMap' => connsMap
                /\ drvsMap' => drvsMap
                /\ \/ events' \subseteq events
                   \/ \E x : /\ events' = events \cup {x}
                             /\ x.kind = "drivers" => x.cns = {}
                             /\ Disposal(x) => connsMap /\ ~connsMap'
<1>1. ASSUME UNCHANGED <<connsMap, drvsMap, events>>
      PROVE  G
  BY <1>1
<1> HIDE DEF G
<1>2. ASSUME NEW c \in Calls, Start(c)
      PROVE  G
  BY <1>1, <1>2, StartFacts
<1>3. ASSUME NEW c \in Calls,
             \/ LoadDriver(c) \/ Register(c) \/ RegisterNew(c) \/ RegisterKnown(c)
             \/ RegisterAgain(c) \/ LoadEnds(c) \/ Reload(c)
             \/ Hook(c) \/ EventsCheck(c) \/ EventsMake(c) \/ EventsFetch(c) \/ Install(c)
             \/ ForgetDrivers(c) \/ Wake(c) \/ UnloadEnds(c)
      PROVE  G
  <2>1. UNCHANGED <<connsMap, drvsMap, events>>
    BY <1>3 DEF LoadDriver, Register, RegisterNew, RegisterKnown, RegisterAgain, LoadEnds,
                Reload, Hook, EventsCheck, EventsMake, EventsFetch, Install,
                ForgetDrivers, Wake, UnloadEnds, maps
  <2> QED BY <1>1, <2>1
<1>4. ASSUME NEW c \in Calls, RegisterDrop(c)
      PROVE  G
  <2> DEFINE x == [kind |-> "conns", what |-> "deleted", obj |-> objs["conns"],
                   cns |-> {conns[call[c].alias]}, of |-> c]
  <2>1. UNCHANGED <<connsMap, drvsMap>> /\ (events' = events \/ events' = events \cup {x})
    BY <1>4 DEF RegisterDrop, Raise
  <2>2. x.kind = "conns" /\ x.what = "deleted"
    OBVIOUS
  <2> HIDE DEF x
  <2> QED BY <2>1, <2>2 DEF G, Disposal
<1>5. ASSUME NEW c \in Calls, RemoveConns(c)
      PROVE  G
  <2> DEFINE x == [kind |-> "conns", what |-> What(c), obj |-> objs["conns"],
                   cns |-> Members(c), of |-> c]
  <2>1. /\ drvsMap' = drvsMap /\ connsMap' = (connsMap /\ ~call[c].all)
        /\ events' = events \/ (Members(c) # {} /\ events' = events \cup {x})
    BY <1>5 DEF RemoveConns, Raise
  <2>2. x.kind = "conns" /\ x.what = What(c)
    OBVIOUS
  <2>3. Members(c) # {} => connsMap
    BY CallFacts DEF Members, MapInv, Names
  <2> HIDE DEF x
  <2> QED BY <2>1, <2>2, <2>3 DEF G, Disposal, What
<1>6. ASSUME NEW c \in Calls, RemoveDrivers(c)
      PROVE  G
  <2> DEFINE x == [kind |-> "drivers", what |-> What(c), obj |-> objs["drivers"],
                   cns |-> {}, of |-> c]
  <2>1. /\ connsMap' = connsMap /\ drvsMap' = (drvsMap /\ ~call[c].all)
        /\ events' = events \/ events' = events \cup {x}
    BY <1>6 DEF RemoveDrivers, Raise
  <2>2. x.kind = "drivers" /\ x.cns = {}
    OBVIOUS
  <2> HIDE DEF x
  <2> QED BY <2>1, <2>2 DEF G, Disposal
<1>7. ASSUME NEW e \in events, RunEvent(e)
      PROVE  G
  <2>1. UNCHANGED <<connsMap, drvsMap>> /\ events' \subseteq events
    BY <1>7 DEF RunEvent, maps, wiring
  <2> QED BY <2>1 DEF G
<1>8. ASSUME UNCHANGED vars
      PROVE  G
  BY <1>1, <1>8 DEF vars
<1>9. ASSUME NEW c \in Calls, Proceed(c)
      PROVE  G
  BY <1>3, <1>4, <1>5, <1>6, <1>9 DEF Proceed
<1>10. G
  BY <1>2, <1>7, <1>8, <1>9 DEF Next
<1> QED BY <1>10 DEF G

(* One event disposes of the connections; what is shut stays so. *)
LEMMA RaisedStep ==
  ASSUME TypeOK, MapInv, RaisedInv, [Next]_vars
  PROVE  RaisedInv' /\ (Shut => Shut')
<1>1. CASE events' \subseteq events
  BY <1>1, RaisedNext DEF RaisedInv, Shut, Disposal
<1>2. CASE ~(events' \subseteq events)
  <2>1. PICK x : /\ events' = events \cup {x}
                 /\ x.kind = "drivers" => x.cns = {}
                 /\ Disposal(x) => connsMap /\ ~connsMap'
    BY <1>2, RaisedNext
  <2> QED BY <2>1, RaisedNext DEF RaisedInv, Shut, Disposal
<1> QED BY <1>1, <1>2

(* Whether a call is an Unload of everything stays as it is.               *)
LEMMA ProceedKeeps ==
  ASSUME TypeOK, NEW c \in Calls, Proceed(c)
  PROVE  call'[c].all = call[c].all /\ call'[c].pc # "idle"
<1>1. CASE \/ LoadDriver(c) \/ Register(c) \/ RemoveConns(c) \/ RemoveDrivers(c) \/ Wake(c)
  BY <1>1, LoadDriverFacts, RegisterFacts, RemoveFacts, WakeFacts DEF Keeps
<1>2. CASE LoadEnds(c) \/ UnloadEnds(c)
  BY <1>2, OverFacts DEF LoadEnds, UnloadEnds
<1>3. CASE Reload(c) \/ RegisterDrop(c) \/ ForgetDrivers(c)
  BY <1>3, GotoFacts DEF Reload, RegisterDrop, ForgetDrivers, Steps, Keeps
<1>4. CASE RegisterNew(c) \/ RegisterAgain(c)
  <2>1. Goto(c, "load") \/ Over(c, "panic")
    BY <1>4 DEF RegisterNew, RegisterAgain
  <2> QED BY <2>1, GotoFacts, OverFacts DEF Steps, Keeps
<1>5. CASE RegisterKnown(c)
  <2>1. CASE call'[c].pc # "panic"
    BY <1>5, <2>1, KnownFacts DEF Keeps
  <2>2. CASE call'[c].pc = "panic"
    <3>1. CASE Over(c, "panic")
      BY <3>1, OverFacts
    <3>2. CASE ~Over(c, "panic")
      <4> DEFINE has == dvr[call[c].cn]
                 got == IF has \in {Nil, call[c].alias} THEN has ELSE Driver(call[c].alias)
                 to == IF got = Nil THEN "drop" ELSE "reload"
      <4>1. call' = [call EXCEPT ![c] = [call[c] EXCEPT !.found = got, !.pc = to]]
        BY <1>5, <3>2 DEF RegisterKnown
      <4>2. call[c] \in CallRecord
        BY DEF TypeOK, CallType
      <4> HIDE DEF got, to
      <4> QED BY <2>2, <4>1, <4>2 DEF CallRecord, TypeOK
    <3> QED BY <3>1, <3>2
  <2> QED BY <2>1, <2>2
<1>6. CASE Hook(c) \/ EventsCheck(c) \/ EventsMake(c) \/ EventsFetch(c) \/ Install(c)
  BY <1>6, EventsFacts, InstallFacts, OverFacts DEF Keeps
<1> QED BY <1>1, <1>2, <1>3, <1>4, <1>5, <1>6 DEF Proceed

(* The callback of a deletion is that of a partial Unload under way. *)
LEMMA OwnStep ==
  ASSUME TypeOK, OwnInv, [Next]_vars
  PROVE  OwnInv'
<1>1. ASSUME NEW c \in Calls, Start(c)
      PROVE  OwnInv'
  <2>1. hooks' = hooks /\ call[c].pc = "idle" /\ \A d \in Calls \ {c} : call'[d] = call[d]
    BY <1>1, StartFacts DEF Others
  <2> QED BY <2>1 DEF OwnInv
<1>2. ASSUME NEW c \in Calls, Proceed(c), ~Install(c)
      PROVE  OwnInv'
  <2>1. hooks' = hooks
    BY <1>2 DEF Proceed, LoadDriver, Register, RegisterNew, RegisterKnown, Reload,
                RegisterDrop, RegisterAgain, LoadEnds, Hook, EventsCheck, EventsMake,
                EventsFetch, RemoveConns, ForgetDrivers, RemoveDrivers, Wake, UnloadEnds, wiring
  <2>2. \A d \in Calls : call'[d].all = call[d].all /\ (call[d].pc # "idle" => call'[d].pc # "idle")
    BY <1>2, ProceedFacts, ProceedKeeps
  <2> QED BY <2>1, <2>2, SMTT(40) DEF OwnInv
<1>3. ASSUME NEW c \in Calls, Install(c)
      PROVE  OwnInv'
  <2>1. \A d \in Calls : call'[d].all = call[d].all /\ (call[d].pc # "idle" => call'[d].pc # "idle")
    BY <1>3, ProceedFacts, ProceedKeeps DEF Proceed
  <2>2. call'[c].pc # "idle"
    BY <1>3, ProceedKeeps DEF Proceed
  <2>3. \A k \in Kinds, o \in Objs :
          \/ hooks'[<<k, "deleted", o>>] = hooks[<<k, "deleted", o>>]
          \/ hooks'[<<k, "deleted", o>>] = c /\ ~call[c].all
    <3>1. hooks' = [hooks EXCEPT ![<<Turn(c), What(c), call[c].mine>>] = c]
      BY <1>3 DEF Install
    <3>2. call[c].all => What(c) = "disposed"
      BY DEF What
    <3> QED BY <3>1, <3>2 DEF TypeOK, Kinds, Whats
  <2> QED BY <2>1, <2>2, <2>3 DEF OwnInv
<1>4. ASSUME NEW e \in events, RunEvent(e)
      PROVE  OwnInv'
  <2>1. hooks' = hooks
    BY <1>4 DEF RunEvent, wiring
  <2> QED BY <1>4, <2>1, EventFacts DEF OwnInv
<1>5. CASE UNCHANGED vars
  BY <1>5 DEF vars, OwnInv
<1> QED BY <1>1, <1>2, <1>3, <1>4, <1>5 DEF Next

(* An Unload of everything leaves nothing behind it. *)
LEMMA UnloadInvStep ==
  ASSUME TypeOK, MapInv, RaisedInv, OwnInv, UnloadInv, [Next]_vars
  PROVE  UnloadInv'
<1>1. (Shut => Shut') /\ (~drvsMap => ~drvsMap')
  BY RaisedStep, RaisedNext
<1>2. ASSUME NEW d \in Calls, Unloads(d),
             call'[d].pc = call[d].pc, call'[d].todo = call[d].todo,
             call'[d].all = call[d].all, call'[d].waked = call[d].waked
      PROVE  Unloads(d)'
  BY <1>1, <1>2 DEF Unloads
<1>3. ASSUME NEW c \in Calls, Start(c)
      PROVE  UnloadInv'
  <2>1. Unloads(c)'
    BY <1>3, StartFacts DEF Unloads, Kinds
  <2>2. ASSUME NEW d \in Calls \ {c}
        PROVE  Unloads(d)'
    BY <1>2, <1>3, StartFacts DEF Others, UnloadInv
  <2> QED BY <2>1, <2>2 DEF UnloadInv
<1>4. ASSUME NEW c \in Calls, Proceed(c)
      PROVE  UnloadInv'
  <2>1. SUFFICES Unloads(c)'
    BY <1>2, <1>4, ProceedFacts DEF UnloadInv
  <2>2. Unloads(c) /\ call'[c].all = call[c].all
    BY <1>4, ProceedKeeps DEF UnloadInv
  <2>3. CASE \/ LoadDriver(c) \/ Register(c) \/ RegisterNew(c) \/ RegisterKnown(c)
             \/ RegisterAgain(c) \/ LoadEnds(c) \/ Reload(c) \/ RegisterDrop(c)
    <3>1. call[c].pc \in LoadSteps
      BY <2>3 DEF LoadDriver, Register, RegisterNew, RegisterKnown, RegisterAgain, LoadEnds,
                  Reload, RegisterDrop, LoadSteps
    <3>2. ~call[c].all
      BY <2>2, <3>1 DEF Unloads, LoadSteps
    <3> QED BY <2>2, <3>2 DEF Unloads
  <2>4. CASE Hook(c) \/ EventsCheck(c) \/ EventsMake(c) \/ EventsFetch(c)
    <3>1. CASE Over(c, "panic")
      BY <3>1, OverFacts DEF Unloads
    <3>2. CASE ~Over(c, "panic")
      <4>1. /\ Keeps(c) /\ call'[c].todo = call[c].todo
            /\ call'[c].pc \in {"events", "make", "fetch", "install"}
        BY <2>4, <3>2, EventsFacts
      <4>2. call[c].pc \in {"hook", "events", "make", "fetch"}
        BY <2>4 DEF Hook, EventsCheck, EventsMake, EventsFetch
      <4> QED BY <1>1, <2>2, <4>1, <4>2 DEF Unloads, Keeps
    <3> QED BY <3>1, <3>2
  <2>5. CASE RemoveConns(c)
    <3>1. "conns" \in call[c].todo /\ call[c].pc = "remove"
      BY <2>5 DEF RemoveConns, Turn
    <3> QED BY <1>1, <2>2, <2>5, <3>1, RemoveFacts DEF Unloads, Keeps
  <2>6. CASE RemoveDrivers(c)
    <3>1. /\ "conns" \notin call[c].todo /\ call[c].pc = "remove" /\ Turn(c) # "conns"
          /\ call[c].all => ~drvsMap'
      BY <2>6 DEF RemoveDrivers, Turn
    <3> QED BY <1>1, <2>2, <2>6, <3>1, RemoveFacts DEF Unloads, Keeps
  <2>7. CASE ForgetDrivers(c)
    <3>1. Keeps(c) /\ call'[c].pc = "wait" /\ call'[c].todo = call[c].todo
      BY <2>7, GotoFacts DEF ForgetDrivers, Steps
    <3> QED BY <1>1, <2>2, <2>7, <3>1 DEF ForgetDrivers, Unloads, Keeps
  <2>8. CASE Wake(c)
    <3>1. /\ call[c].pc = "wait" /\ Turn(c) \in call[c].waked /\ Keeps(c)
          /\ call'[c].pc = "hook" /\ call'[c].todo = call[c].todo \ {Turn(c)}
      BY <2>8, WakeFacts DEF Wake
    <3>2. CASE Turn(c) = "conns"
      BY <1>1, <2>2, <3>1, <3>2 DEF Unloads, Keeps
    <3>3. CASE Turn(c) = "drivers"
      <4>1. "conns" \notin call[c].todo
        BY <3>3 DEF Turn
      <4> QED BY <1>1, <2>2, <3>1, <3>3, <4>1 DEF Unloads, Keeps
    <3> QED BY <3>2, <3>3 DEF Turn
  <2>9. CASE UnloadEnds(c)
    BY <1>1, <2>2, <2>9, OverFacts DEF UnloadEnds, Unloads
  <2>10. CASE Install(c)
    <3>1. /\ call[c].pc = "install" /\ call'[c].pc = "remove"
          /\ call'[c].todo = call[c].todo /\ call'[c].waked = call[c].waked
      BY <2>10, InstallFacts DEF Install
    <3> QED BY <1>1, <2>2, <3>1 DEF Unloads
  <2> QED BY <1>4, <2>3, <2>4, <2>5, <2>6, <2>7, <2>8, <2>9, <2>10 DEF Proceed
<1>5. ASSUME NEW e \in events, RunEvent(e)
      PROVE  UnloadInv'
  <2>1. events' = events \ {e} /\ connsMap' = connsMap
    BY <1>5 DEF RunEvent, maps, wiring
  <2>2. e.kind \in Kinds /\ e.what \in Whats /\ e.obj \in Objs
    <3>1. e \in EventType
      BY DEF TypeOK
    <3> QED BY <3>1 DEF EventType
  <2>3. ASSUME NEW d \in Calls
        PROVE  Unloads(d)'
    <3>1. Unloads(d)
      BY DEF UnloadInv
    <3>2. CASE call[d].all /\ d = hooks[<<e.kind, e.what, e.obj>>] /\ e.kind = "conns"
      <4>1. e.what = "disposed"
        BY <2>2, <3>2 DEF OwnInv, Whats
      <4>2. Shut'
        BY <2>1, <3>2, <4>1 DEF RaisedInv, Disposal, Shut
      <4> QED BY <1>1, <1>5, <3>1, <4>2, EventFacts DEF Unloads
    <3>3. CASE ~(call[d].all /\ d = hooks[<<e.kind, e.what, e.obj>>] /\ e.kind = "conns")
      <4>1. /\ call'[d].pc = call[d].pc /\ call'[d].todo = call[d].todo
            /\ call'[d].all = call[d].all
            /\ call[d].all /\ "conns" \in call'[d].waked => "conns" \in call[d].waked
        BY <1>5, <2>2, <3>3, EventFacts DEF Kinds
      <4> QED BY <1>1, <3>1, <4>1 DEF Unloads
    <3> QED BY <3>2, <3>3
  <2> QED BY <2>3 DEF UnloadInv
<1>6. CASE UNCHANGED vars
  BY <1>2, <1>6 DEF vars, UnloadInv
<1> QED BY <1>3, <1>4, <1>5, <1>6 DEF Next

----------------------------------------------------------------------------
LeaveInv == SeqInv /\ KnownInv /\ LostNeedsOverlap /\ MapInv /\ RaisedInv /\ OwnInv /\ UnloadInv

(* All of them together. *)
LEMMA LeaveTheorem == Spec => [](TypeOK /\ Inv /\ LeaveInv)
<1>1. Init => LeaveInv
  BY InitUnload DEF LeaveInv
<1>2. TypeOK /\ Inv /\ LeaveInv /\ [Next]_vars => LeaveInv'
  BY SeqStep, KnownStep, LostStep, MapStep, RaisedStep, OwnStep, UnloadInvStep DEF LeaveInv
<1> QED BY <1>1, <1>2, InvTheorem, PTL DEF Spec

(* Load and Unload (dbms.go, connections.go) leave no open connection      *)
(* behind that neither the map nor an event holds, unless two calls were   *)
(* under way together: alone, Register acts on what it has found           *)
(* (KnownInv), so that it replaces no connection and stores into no closed *)
(* map.                                                                    *)
THEOREM LostTheorem == Spec => []LostNeedsOverlap
<1>1. LeaveInv => LostNeedsOverlap
  BY DEF LeaveInv
<1> QED BY <1>1, LeaveTheorem, PTL

(* When calls do not overlap, an Unload of everything (dbms.go) goes on to *)
(* the drivers only after the event that closes its connections has run,   *)
(* and leaves no registration: a closed map stays empty (MapInv), the only *)
(* event of its Close is the one that wakes the call (RaisedInv, OwnInv).  *)
(* What an earlier call deleted may still wait to be closed.               *)
THEOREM UnloadTheorem == Spec => []UnloadLeavesNothing
<1>1. TypeOK /\ LeaveInv => UnloadLeavesNothing
  <2> SUFFICES ASSUME TypeOK, LeaveInv, NEW c \in Calls,
                      call[c].all, call[c].pc # "panic", ~overlap
               PROVE  /\ "conns" \notin call[c].todo =>
                           \A cn \in Calls : dvr[cn] # Nil =>
                             \E e \in events : e.what = "deleted" /\ cn \in e.cns
                      /\ call[c].pc = "done" => drvs = {} /\ InMap = {}
    BY DEF UnloadLeavesNothing
  <2>1. Unloads(c) /\ MapInv /\ RaisedInv /\ LostNeedsOverlap
    BY DEF LeaveInv, UnloadInv
  <2>2. ASSUME "conns" \notin call[c].todo, NEW cn \in Calls, dvr[cn] # Nil
        PROVE  \E e \in events : e.what = "deleted" /\ cn \in e.cns
    <3>1. Shut
      BY <2>1, <2>2 DEF Unloads
    <3>2. InMap = {}
      BY <2>1, <3>1 DEF MapInv, Shut, InMap
    <3>3. PICK e \in events : cn \in e.cns
      BY <2>1, <2>2, <3>2 DEF LostNeedsOverlap, InEvents
    <3>4. e.kind \in Kinds /\ e.what \in Whats
      <4>1. e \in EventType
        BY DEF TypeOK
      <4> QED BY <4>1 DEF EventType
    <3>5. e.what = "deleted"
      BY <2>1, <3>1, <3>3, <3>4 DEF RaisedInv, Shut, Disposal, Kinds, Whats
    <3> QED BY <3>3, <3>5
  <2>3. ASSUME call[c].pc = "done"
        PROVE  drvs = {} /\ InMap = {}
    BY <2>1, <2>3 DEF Unloads, MapInv, Shut, InMap
  <2> QED BY <2>2, <2>3
<1> QED BY <1>1, LeaveTheorem, PTL
=============================================================================
