------------------------------ MODULE Registry ------------------------------
(***************************************************************************)
(* The registry of drivers and connections of dbms/dbms.go, connections.go *)
(* and drivers.go: Load, which registers what a configuration names, and   *)
(* Unload, which removes it and waits until an event has closed it.        *)
(*                                                                         *)
(* Both maps are maps with events (module IterMap): a step here is one     *)
(* operation of a map.  What Delete and Close of a map remove is handed to *)
(* a new goroutine, which runs the callback it finds installed when it     *)
(* runs; Unload installs a callback of its own and waits for it.  The      *)
(* events object in which it is installed is made by the constructor of    *)
(* the connections (First), but by the first Unload for the drivers.  A    *)
(* connection (module Connection) is open while it has a driver.           *)
(*                                                                         *)
(* A call makes at most one connection and one events object of a map,     *)
(* which bear the call's name.                                             *)
(***************************************************************************)
EXTENDS Naturals, FiniteSets

CONSTANTS Calls,       \* calls of Load and Unload, each made once
          Aliases,     \* names of connections
          DriverNames, \* names of drivers; an alias may be one of them
          MaxNames,    \* bound: names of one kind in a call of Unload
          First,       \* the events object the connections are made with
          Nil

ASSUME NilAssumption == Nil \notin Calls \cup DriverNames \cup Aliases
ASSUME FirstAssumption == First \notin Calls \cup {Nil}

VARIABLES
    conns,    \* the map of connections: [Aliases -> Calls \cup {Nil}]
    connsMap, \* c.IterateMap is not nil
    cdrvrs,   \* c.drvrs of the connections is not nil
    drvs,     \* the names in the map of drivers
    drvsMap,  \* the IterateMap of the drivers is not nil
    dvr,      \* cn.dvr of every connection, Nil when closed or never made
    objs,     \* mpevents of the two maps: their events objects, if any
    hooks,    \* whose callback the events objects of the two maps run
    events,   \* event goroutines that have not run yet
    call,     \* where every call stands
    overlap,  \* history: two calls were ever under way together
    doubled   \* history: an events object took the place of another one

vars == <<conns, connsMap, cdrvrs, drvs, drvsMap, dvr, objs, hooks, events, call, overlap,
          doubled>>
wiring == <<objs, hooks, doubled>>
maps == <<conns, connsMap, cdrvrs, drvs, drvsMap>>

Kinds == {"conns", "drivers"}
Whats == {"deleted", "disposed"}
Objs == Calls \cup {First}
Steps == {"idle", "load", "new", "known", "drop", "again", "reload", "hook",
          "events", "make", "fetch", "install", "remove", "forget", "wait", "spins", "done", "panic"}
Names == {n \in [Kinds -> SUBSET (Aliases \cup DriverNames)] : n["conns"] \subseteq Aliases}
LoadSteps == {"load", "new", "known", "drop", "again", "reload"}
CallRecord == [pc : Steps, todo : SUBSET Kinds, all : BOOLEAN,
               alias : Aliases \cup {Nil}, drv : DriverNames \cup {Nil},
               names : Names, cn : Calls \cup {Nil}, found : DriverNames \cup {Nil},
               mine : Objs \cup {Nil}, waked : SUBSET Kinds, removed : BOOLEAN,
               replaced : BOOLEAN]
CallType == {r \in CallRecord :
               /\ r.pc \in LoadSteps => r.alias \in Aliases /\ r.drv \in DriverNames
               /\ r.pc = "known" => r.cn \in Calls
               /\ r.pc = "install" => r.mine \in Objs}
EventType == [kind : Kinds, what : Whats, obj : Objs, cns : SUBSET Calls, of : Calls]
Idle == [pc |-> "idle", todo |-> {}, all |-> FALSE, alias |-> Nil, drv |-> Nil,
         names |-> [k \in Kinds |-> {}], cn |-> Nil, found |-> Nil,
         mine |-> Nil, waked |-> {}, removed |-> FALSE, replaced |-> FALSE]

TypeOK ==
    /\ conns \in [Aliases -> Calls \cup {Nil}]
    /\ connsMap \in BOOLEAN /\ cdrvrs \in BOOLEAN /\ drvsMap \in BOOLEAN
    /\ overlap \in BOOLEAN /\ doubled \in BOOLEAN
    /\ drvs \subseteq DriverNames
    /\ dvr \in [Calls -> DriverNames \cup {Nil}]
    /\ objs \in [Kinds -> Objs \cup {Nil}]
    /\ hooks \in [Kinds \X Whats \X Objs -> Calls \cup {Nil}]
    /\ events \subseteq EventType
    /\ call \in [Calls -> CallType]

----------------------------------------------------------------------------
(* The maps.                                                               *)

Init ==
    /\ conns = [a \in Aliases |-> Nil] /\ connsMap = TRUE /\ cdrvrs = TRUE
    /\ drvs = {} /\ drvsMap = TRUE
    /\ dvr = [c \in Calls |-> Nil]
    /\ objs = [k \in Kinds |-> IF k = "conns" THEN First ELSE Nil]
    /\ hooks = [h \in Kinds \X Whats \X Objs |-> Nil]
    /\ events = {}
    /\ call = [c \in Calls |-> Idle]
    /\ overlap = FALSE
    /\ doubled = FALSE

UnderWay(c) == call[c].pc \notin {"idle", "done", "panic"}
Goto(c, pc) == call' = [call EXCEPT ![c].pc = pc]
(* A call is over; of its arguments only the kind of the call is kept.     *)
Over(c, pc) == call' = [call EXCEPT ![c] = [Idle EXCEPT !.pc = pc, !.all = call[c].all]]
Begin(c, rec) ==
    /\ call[c].pc = "idle"
    /\ call' = [call EXCEPT ![c] = rec]
    /\ overlap' = (overlap \/ \E other \in Calls : UnderWay(other))

(* What a map with events hands to a goroutine, with the events object it  *)
(* has: nothing, if it removed nothing or has no such object.              *)
Raise(c, kind, what, cns, something) ==
    events' = IF something /\ objs[kind] # Nil
              THEN events \cup {[kind |-> kind, what |-> what, obj |-> objs[kind],
                                 cns |-> cns, of |-> c]}
              ELSE events

(* drvrs.Get of the connections' drivers.                                  *)
Driver(name) == IF drvsMap /\ name \in drvs THEN name ELSE Nil

(* itr.Set(alias, NewConnection(...)): into a map that was closed nothing  *)
(* is stored; a connection that is replaced is told to Changed, which does *)
(* nothing.                                                                *)
SetNew(c, alias, name) ==
    /\ dvr' = [dvr EXCEPT ![c] = name]
    /\ conns' = IF connsMap THEN [conns EXCEPT ![alias] = c] ELSE conns

----------------------------------------------------------------------------
(* Load: the keys of the configuration in any order (a Go map).            *)

Load(c, todo, alias, drv) ==
    /\ Begin(c, [Idle EXCEPT !.pc = "load", !.todo = todo, !.alias = alias, !.drv = drv])
    /\ UNCHANGED <<maps, dvr, wiring, events>>

(* Drivers.Register: the driver replaces one of its name.                  *)
LoadDriver(c) ==
    /\ call[c].pc = "load" /\ "drivers" \in call[c].todo
    /\ call' = [call EXCEPT ![c].todo = @ \ {"drivers"}]
    /\ drvs' = IF drvsMap THEN drvs \cup {call[c].drv} ELSE drvs
    /\ UNCHANGED <<conns, connsMap, cdrvrs, drvsMap, dvr, wiring, events, overlap>>

(* Connections.Register, as far as itr.Get(alias).                         *)
Register(c) ==
    /\ call[c].pc = "load" /\ "conns" \in call[c].todo
    /\ call' = [call EXCEPT ![c].todo = @ \ {"conns"},
                            ![c].cn = conns[call[c].alias],
                            ![c].pc = IF ~connsMap THEN "load"
                                      ELSE IF conns[call[c].alias] = Nil THEN "new" ELSE "known"]
    /\ UNCHANGED <<maps, dvr, wiring, events, overlap>>

(* An unknown alias: the driver asked for is looked up; without one the    *)
(* call fails.                                                             *)
RegisterNew(c) ==
    /\ call[c].pc = "new"
    /\ IF cdrvrs THEN Goto(c, "load") ELSE Over(c, "panic")
    /\ IF cdrvrs /\ Driver(call[c].drv) # Nil
       THEN SetNew(c, call[c].alias, call[c].drv)
       ELSE UNCHANGED <<conns, dvr>>
    /\ UNCHANGED <<connsMap, cdrvrs, drvs, drvsMap, wiring, events, overlap>>

(* A known alias: unless its driver bears the name of the alias itself,    *)
(* the driver of that name is looked up, not the one asked for.            *)
RegisterKnown(c) ==
    /\ call[c].pc = "known"
    /\ LET has == dvr[call[c].cn]
           got == IF has \in {Nil, call[c].alias} THEN has ELSE Driver(call[c].alias)
       IN  IF has \notin {Nil, call[c].alias} /\ ~cdrvrs THEN Over(c, "panic")
           ELSE call' = [call EXCEPT ![c].found = got,
                                     ![c].pc = IF got = Nil THEN "drop" ELSE "reload"]
    /\ UNCHANGED <<maps, dvr, wiring, events, overlap>>

(* cn.Reload(datasource, cndvr).                                           *)
Reload(c) ==
    /\ call[c].pc = "reload"
    /\ dvr' = [dvr EXCEPT ![call[c].cn] = call[c].found]
    /\ Goto(c, "load")
    /\ UNCHANGED <<maps, wiring, events, overlap>>

(* Seeded fault: the events are told, the map keeps the alias. *)
RegisterDropKept(c) ==
    /\ call[c].pc = "drop"
    /\ LET cn == conns[call[c].alias]
       IN  Raise(c, "conns", "deleted", {cn}, cn # Nil)
    /\ Goto(c, "again")
    /\ UNCHANGED <<maps, dvr, wiring, overlap>>

(* Seeded fault: the alias is removed and nobody is told. *)
RegisterForget(c) ==
    /\ call[c].pc = "drop"
    /\ conns' = [conns EXCEPT ![call[c].alias] = Nil]
    /\ Goto(c, "again")
    /\ UNCHANGED <<connsMap, cdrvrs, drvs, drvsMap, dvr, wiring, events, overlap>>

(* c.Delete(alias): no driver was found for the connection.                *)
RegisterDrop(c) ==
    /\ call[c].pc = "drop"
    /\ LET cn == conns[call[c].alias]
       IN  Raise(c, "conns", "deleted", {cn}, cn # Nil)
    /\ conns' = [conns EXCEPT ![call[c].alias] = Nil]
    /\ Goto(c, "again")
    /\ UNCHANGED <<connsMap, cdrvrs, drvs, drvsMap, dvr, wiring, overlap>>

RegisterAgain(c) ==
    /\ call[c].pc = "again"
    /\ IF cdrvrs THEN Goto(c, "load") ELSE Over(c, "panic")
    /\ IF cdrvrs /\ Driver(call[c].alias) # Nil
       THEN SetNew(c, call[c].alias, call[c].alias)
       ELSE UNCHANGED <<conns, dvr>>
    /\ UNCHANGED <<connsMap, cdrvrs, drvs, drvsMap, wiring, events, overlap>>

LoadEnds(c) ==
    /\ call[c].pc = "load" /\ call[c].todo = {}
    /\ Over(c, "done")
    /\ UNCHANGED <<maps, dvr, wiring, events, overlap>>

----------------------------------------------------------------------------
(* Unload: connections first, then drivers; each in three steps, the       *)
(* callback, the removal and the wait.                                     *)

UnloadAll(c) ==
    /\ Begin(c, [Idle EXCEPT !.pc = "hook", !.all = TRUE, !.todo = Kinds])
    /\ UNCHANGED <<maps, dvr, wiring, events>>

(* Unload of a configuration that names connections, drivers or both.      *)
UnloadNames(c, aliases, drivers) ==
    LET names == [k \in Kinds |-> IF k = "conns" THEN aliases ELSE drivers]
    IN  /\ Begin(c, [Idle EXCEPT !.pc = "hook", !.names = names,
                                 !.todo = {k \in Kinds : names[k] # {}}])
        /\ UNCHANGED <<maps, dvr, wiring, events>>

(* An argument that is no map: the loop over the arguments never steps on. *)
UnloadText(c) ==
    /\ Begin(c, [Idle EXCEPT !.pc = "spins"])
    /\ UNCHANGED <<maps, dvr, wiring, events>>

(* The map Unload works on: connections as long as they are to do.         *)
Turn(c) == IF "conns" \in call[c].todo THEN "conns" ELSE "drivers"
MapOf(kind) == IF kind = "conns" THEN connsMap ELSE drvsMap
What(c) == IF call[c].all THEN "disposed" ELSE "deleted"

(* Events() of a map that was closed is nil and the assertion of its type  *)
(* panics.                                                                 *)
Hook(c) ==
    /\ call[c].pc = "hook" /\ call[c].todo # {}
    /\ IF MapOf(Turn(c)) THEN Goto(c, "events") ELSE Over(c, "panic")
    /\ UNCHANGED <<maps, dvr, wiring, events, overlap>>

(* itermap.Events() takes no lock: it looks for the events object, and if  *)
(* there is none makes one and then reads the field again.  Another call   *)
(* may make one in between, and a Close take it away: the assertion panics *)
(* then, too.                                                              *)
EventsCheck(c) ==
    /\ call[c].pc = "events"
    /\ call' = [call EXCEPT ![c].mine = objs[Turn(c)],
                            ![c].pc = IF objs[Turn(c)] = Nil THEN "make" ELSE "install"]
    /\ UNCHANGED <<maps, dvr, wiring, events, overlap>>

EventsMake(c) ==
    /\ call[c].pc = "make"
    /\ objs' = [objs EXCEPT ![Turn(c)] = c]
    /\ doubled' = (doubled \/ objs[Turn(c)] # Nil)
    /\ Goto(c, "fetch")
    /\ UNCHANGED <<maps, dvr, hooks, events, overlap>>

EventsFetch(c) ==
    /\ call[c].pc = "fetch"
    /\ IF objs[Turn(c)] = Nil THEN Over(c, "panic")
       ELSE call' = [call EXCEPT ![c].mine = objs[Turn(c)], ![c].pc = "install"]
    /\ UNCHANGED <<maps, dvr, wiring, events, overlap>>

(* The callback replaces the one of another Unload.                        *)
Install(c) ==
    /\ call[c].pc = "install"
    /\ LET slot == <<Turn(c), What(c), call[c].mine>>
           rival == hooks[slot]
       IN  /\ hooks' = [hooks EXCEPT ![slot] = c]
           /\ call' = [d \in Calls |->
                         IF d = c THEN [call[d] EXCEPT !.pc = "remove", !.mine = Nil]
                         ELSE IF d = rival THEN [call[d] EXCEPT !.replaced = TRUE]
                         ELSE call[d]]
    /\ UNCHANGED <<maps, dvr, objs, doubled, events, overlap>>

Members(c) == {conns[a] : a \in IF call[c].all THEN Aliases ELSE call[c].names["conns"]} \ {Nil}

(* cnss.Close() or cnss.Delete(names).  Close of a map that another call   *)
(* closed meanwhile does nothing.                                          *)
RemoveConns(c) ==
    /\ call[c].pc = "remove" /\ Turn(c) = "conns"
    /\ Raise(c, "conns", What(c), Members(c), Members(c) # {})
    /\ conns' = [a \in Aliases |-> IF conns[a] \in Members(c) THEN Nil ELSE conns[a]]
    /\ connsMap' = (connsMap /\ ~call[c].all)
    /\ objs' = IF connsMap /\ call[c].all THEN [objs EXCEPT !["conns"] = Nil] ELSE objs
    /\ call' = [call EXCEPT ![c].removed = Members(c) # {},
                            ![c].pc = IF call[c].all THEN "forget" ELSE "wait"]
    /\ UNCHANGED <<cdrvrs, drvs, drvsMap, dvr, hooks, doubled, overlap>>

(* The last statement of connections.Close: c.drvrs = nil.                 *)
ForgetDrivers(c) ==
    /\ call[c].pc = "forget"
    /\ cdrvrs' = FALSE
    /\ Goto(c, "wait")
    /\ UNCHANGED <<conns, connsMap, drvs, drvsMap, dvr, wiring, events, overlap>>

RemoveDrivers(c) ==
    /\ call[c].pc = "remove" /\ Turn(c) = "drivers"
    /\ LET gone == IF call[c].all THEN drvs ELSE drvs \cap call[c].names["drivers"]
       IN  /\ Raise(c, "drivers", What(c), {}, gone # {})
           /\ drvs' = drvs \ gone
           /\ call' = [call EXCEPT ![c].removed = gone # {}, ![c].pc = "wait"]
    /\ drvsMap' = (drvsMap /\ ~call[c].all)
    /\ objs' = IF drvsMap /\ call[c].all THEN [objs EXCEPT !["drivers"] = Nil] ELSE objs
    /\ UNCHANGED <<conns, connsMap, cdrvrs, dvr, hooks, doubled, overlap>>

(* Seeded fault: the wait is left out. *)
WakeAtOnce(c) ==
    /\ call[c].pc = "wait"
    /\ call' = [call EXCEPT ![c].todo = @ \ {Turn(c)}, ![c].pc = "hook",
                            ![c].removed = FALSE, ![c].replaced = FALSE]
    /\ UNCHANGED <<maps, dvr, wiring, events, overlap>>

(* The context of the wait was cancelled.                                  *)
Wake(c) ==
    /\ call[c].pc = "wait" /\ Turn(c) \in call[c].waked
    /\ call' = [call EXCEPT ![c].todo = @ \ {Turn(c)}, ![c].pc = "hook",
                            ![c].removed = FALSE, ![c].replaced = FALSE]
    /\ UNCHANGED <<maps, dvr, wiring, events, overlap>>

UnloadEnds(c) ==
    /\ call[c].pc = "hook" /\ call[c].todo = {}
    /\ Over(c, "done")
    /\ UNCHANGED <<maps, dvr, wiring, events, overlap>>

(* Seeded fault: the callback does not cancel the context. *)
RunEventUntold(e) ==
    /\ e \in events
    /\ events' = events \ {e}
    /\ dvr' = [c \in Calls |-> IF c \in e.cns THEN Nil ELSE dvr[c]]
    /\ UNCHANGED <<maps, wiring, call, overlap>>

(* An event goroutine: closes the connections it was given, by whichever   *)
(* callback is installed, and wakes the Unload that installed it.          *)
RunEvent(e) ==
    LET owner == hooks[<<e.kind, e.what, e.obj>>]
    IN  /\ e \in events
        /\ events' = events \ {e}
        /\ dvr' = [c \in Calls |-> IF c \in e.cns THEN Nil ELSE dvr[c]]
        /\ call' = IF owner = Nil THEN call
                   ELSE [call EXCEPT ![owner].waked = @ \cup {e.kind}]
        /\ UNCHANGED <<maps, wiring, overlap>>

----------------------------------------------------------------------------
Start(c) ==
    \/ \E todo \in (SUBSET Kinds) \ {{}}, a \in Aliases, d \in DriverNames : Load(c, todo, a, d)
    \/ UnloadAll(c)
    \/ \E aliases \in SUBSET Aliases, drivers \in SUBSET DriverNames :
         /\ aliases \cup drivers # {}
         /\ Cardinality(aliases) <= MaxNames /\ Cardinality(drivers) <= MaxNames
         /\ UnloadNames(c, aliases, drivers)
    \/ UnloadText(c)

Proceed(c) ==
    \/ LoadDriver(c) \/ Register(c) \/ RegisterNew(c) \/ RegisterKnown(c)
    \/ Reload(c) \/ RegisterDrop(c) \/ RegisterAgain(c) \/ LoadEnds(c)
    \/ Hook(c) \/ EventsCheck(c) \/ EventsMake(c) \/ EventsFetch(c) \/ Install(c)
    \/ RemoveConns(c) \/ ForgetDrivers(c) \/ RemoveDrivers(c)
    \/ Wake(c) \/ UnloadEnds(c)

Next ==
    \/ \E c \in Calls : Start(c) \/ Proceed(c)
    \/ \E e \in events : RunEvent(e)

Spec == Init /\ [][Next]_vars

(* The scheduler runs every goroutine, those of events too; nobody has to  *)
(* make a call.                                                            *)
FairSpec ==
    Spec /\ \A c \in Calls : WF_vars(Proceed(c))
         /\ WF_vars(\E e \in events : RunEvent(e))

----------------------------------------------------------------------------
InMap == {conns[a] : a \in Aliases} \ {Nil}
InEvents == {cn \in Calls : \E e \in events : cn \in e.cns}

(* The registry never hands out a closed connection: one that is in the    *)
(* map has its driver, whatever Loads and Unloads overlap, although they   *)
(* are closed later and by other goroutines than they are removed.         *)
RegisteredIsOpen == \A cn \in InMap : dvr[cn] # Nil

(* An open connection is in the map or on its way to be closed: none is    *)
(* left behind by Register, Delete and Close, unless calls overlapped (two *)
(* Registers of one alias, or a Register with the removal of what it found *)
(* or of the map: those connections nobody closes).                        *)
LostNeedsOverlap ==
    \A cn \in Calls : dvr[cn] # Nil => cn \in InMap \cup InEvents \/ overlap

(* Once an Unload of everything has gone on to the drivers, no connection  *)
(* is open, and when it has returned nothing is registered, unless calls   *)
(* overlapped: the wait is for the event that closes them.  It is not for  *)
(* the event of a connection that an earlier call deleted: Register goes   *)
(* on without waiting for that one.                                        *)
UnloadLeavesNothing ==
    \A c \in Calls :
      call[c].all /\ call[c].pc # "panic" /\ ~overlap =>
        /\ "conns" \notin call[c].todo =>
             \A cn \in Calls : dvr[cn] # Nil =>
               \E e \in events : e.what = "deleted" /\ cn \in e.cns
        /\ call[c].pc = "done" => drvs = {} /\ InMap = {}

(* An Unload that removed something comes back from its wait, unless       *)
(* another Unload put its own callback in place or an events object of its *)
(* own.  (One that removed nothing waits for an event that nobody raises.) *)
UnloadReturns ==
    \A c \in Calls :
      call[c].pc = "wait" /\ call[c].removed ~> call[c].pc # "wait" \/ call[c].replaced \/ doubled

=============================================================================
