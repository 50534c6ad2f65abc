----------------------------- MODULE Listening -----------------------------
(***************************************************************************)
(* listening of package listening (listening.go, listener.go): listeners   *)
(* kept by name in an itermap (module IterMap), opened by Listen and shut  *)
(* down by Unload. Unload does not shut anything down itself: it installs  *)
(* a callback in the events object of the map, removes the names (Delete)  *)
(* or everything (Close), and waits for a context that the callback        *)
(* cancels when the event goroutine has run it. dbms.Unload and the        *)
(* Unload of the multi-filesystem follow the same pattern.                 *)
(*                                                                         *)
(* The steps inside the map are those of IterMap; a listener is named      *)
(* after the call of Listen that opened it, an events object after the     *)
(* call of Unload whose Events() made it.                                  *)
(***************************************************************************)
CONSTANTS
  Calls,  \* the calls of Listen and Unload
  Names,  \* names of listeners
  Addrs,  \* network addresses
  Nil

ASSUME CallsAssumption == Nil \notin Calls

VARIABLES
  imp, store, pc, name, prv, evt, todo, at, tmp,     \* the map: see IterMap
  stored, reported, again, untold, raced, straddled,
  lpc,        \* where call o stands in Listen or Unload
  kind,       \* the method called
  want,       \* the names given to it
  adr,        \* Listen: the address
  got,        \* Listen: the listener found under its name
  ln,         \* ln[o]: the socket of the listener opened by o
  obj,        \* the current events object of the map
  mine,       \* Unload: the events object it has fetched
  used,       \* the events object its Delete or Close has fetched
  cb,         \* cb[e]: the call whose callback is installed in object e
  ev,         \* the event goroutine of call o
  evmap,      \* the listeners that it still has to shut down
  evcb,       \* the call whose callback it runs
  cancelled,  \* the calls whose context is cancelled
  removed,    \* history: the listeners that o's Delete or Close reported
  contended,  \* history: names that two calls of Listen opened at once
  crossed,    \* history: two Unloads were between callback and event
  doubled     \* history: an events object took the place of another one

Map == INSTANCE IterMap WITH Ops <- Calls, Keys <- Names

mapVars == <<imp, store, pc, name, prv, evt, todo, at, tmp,
             stored, reported, again, untold, straddled>>
listenVars == <<adr, got, ln>>
unloadVars == <<obj, mine, used, cb, doubled>>
eventVars == <<ev, evmap, evcb, cancelled, removed>>
vars == <<mapVars, raced, lpc, kind, want, listenVars, unloadVars, eventVars,
          contended, crossed>>

Kinds == {"none", "listen", "unload", "unloadall"}
Unloads == {"unload", "unloadall"}

Goto(o, step) == lpc' = [lpc EXCEPT ![o] = step]

(* Listen of a name between looking it up and storing the new listener. *)
Opening(o, n) ==
  /\ kind[o] = "listen" /\ want[o] = {n}
  /\ lpc[o] \in {"bind", "set"} \/ (lpc[o] = "map" /\ pc[o] # "done")

(* Unload between installing its callback and the event that reads it. *)
Handshake(o) ==
  /\ kind[o] \in Unloads
  /\ lpc[o] = "call" \/ (lpc[o] = "map" /\ pc[o] # "done") \/ ev[o] = "spawned"

NewlyContended ==
  { n \in Names : \E o, p \in Calls :
                    o # p /\ Opening(o, n) /\ Opening(p, n) }

(* NewListen. *)
Init ==
  /\ Map!Init
  /\ lpc = [o \in Calls |-> "ready"]
  /\ kind = [o \in Calls |-> "none"]
  /\ want = [o \in Calls |-> {}]
  /\ adr = [o \in Calls |-> Nil]
  /\ got = [o \in Calls |-> Nil]
  /\ ln = [o \in Calls |-> "none"]
  /\ obj = Nil
  /\ mine = [o \in Calls |-> Nil]
  /\ used = [o \in Calls |-> Nil]
  /\ cb = [k \in Unloads |-> [e \in Calls |-> Nil]]
  /\ ev = [o \in Calls |-> "none"]
  /\ evmap = [o \in Calls |-> {}]
  /\ evcb = [o \in Calls |-> Nil]
  /\ cancelled = {}
  /\ removed = [o \in Calls |-> {}]
  /\ contended = {}
  /\ crossed = FALSE
  /\ doubled = FALSE

---------------------------------------------------------------------------
(* Seeded faults: variants of definitions below with a plausible mistake,  *)
(* used to show that each property can fail. No behaviour of Spec uses     *)
(* them.                                                                   *)
\* a failed net.Listen is not noticed
BindUnchecked(o) ==
  /\ lpc[o] = "bind"
  /\ \/ UNCHANGED ln
     \/ /\ \A p \in Calls : ln[p] = "bound" => adr[p] # adr[o]
        /\ ln' = [ln EXCEPT ![o] = "bound"]
  /\ Goto(o, "set")
  /\ UNCHANGED <<mapVars, kind, want, adr, got, unloadVars, eventVars>>

\* the new listener is not put into the map
SetCallSkips(o) ==
  /\ lpc[o] = "set"
  /\ Goto(o, "done")
  /\ UNCHANGED <<mapVars, kind, want, listenVars, unloadVars, eventVars>>

\* the callback is not installed
InstallForgets(o) ==
  /\ lpc[o] = "install"
  /\ Goto(o, "call")
  /\ UNCHANGED <<mapVars, kind, want, listenVars, unloadVars, eventVars>>

\* the context is cancelled before the listeners are shut down
CancelFirst(o) ==
  /\ ev[o] = "running"
  /\ evcb[o] \notin cancelled
  /\ cancelled' = cancelled \cup {evcb[o]}
  /\ UNCHANGED <<mapVars, lpc, kind, want, listenVars, unloadVars, ev, evmap,
                 evcb, removed>>

---------------------------------------------------------------------------
(* Listen: leaves if the handler is not registered; a listener of that     *)
(* name gets the new handler, otherwise one is opened.                     *)
Listen(o, n, a) ==
  /\ lpc[o] = "ready"
  /\ kind' = [kind EXCEPT ![o] = "listen"]
  /\ want' = [want EXCEPT ![o] = {n}]
  /\ adr' = [adr EXCEPT ![o] = a]
  /\ \/ Goto(o, "done") /\ UNCHANGED got
     \/ LET l == IF imp.orgsncmp THEN store[n] ELSE Nil IN
          /\ got' = [got EXCEPT ![o] = l]
          /\ Goto(o, IF l = Nil THEN "bind" ELSE "swap")
  /\ UNCHANGED <<mapVars, ln, unloadVars, eventVars>>

(* lstnr.SwapHandler(hndlr): which handler a listener serves is left out.  *)
Swap(o) ==
  /\ lpc[o] = "swap"
  /\ Goto(o, "done")
  /\ UNCHANGED <<mapVars, kind, want, listenVars, unloadVars, eventVars>>

(* nextlistener: net.Listen fails on an address in use, and may fail on    *)
(* any; then Listen returns without an error. Startup serves the socket.   *)
Bind(o) ==
  /\ lpc[o] = "bind"
  /\ \/ Goto(o, "done") /\ UNCHANGED ln
     \/ /\ \A p \in Calls : ln[p] = "bound" => adr[p] # adr[o]
        /\ ln' = [ln EXCEPT ![o] = "bound"]
        /\ Goto(o, "set")
  /\ UNCHANGED <<mapVars, kind, want, adr, got, unloadVars, eventVars>>

(* lstniter.Set(name, lstnr) *)
SetCall(o) ==
  /\ lpc[o] = "set"
  /\ \E n \in want[o] : Map!Set(o, n)
  /\ Goto(o, "map")
  /\ UNCHANGED <<kind, want, listenVars, unloadVars, eventVars>>

---------------------------------------------------------------------------
(* Unload of names, and of everything when it is called without arguments. *)
Unload(o, k, ns) ==
  /\ lpc[o] = "ready"
  /\ kind' = [kind EXCEPT ![o] = k]
  /\ want' = [want EXCEPT ![o] = ns]
  /\ Goto(o, "events")
  /\ UNCHANGED <<mapVars, listenVars, unloadVars, eventVars>>

(* events := lstng.Events(), which takes no lock: it looks for the events  *)
(* object, and if there is none makes one and then reads the field again.  *)
(* Another call may make one in between, and a Close take it away: then    *)
(* the assertion of its type panics.                                       *)
EventsCall(o) ==
  /\ \/ /\ lpc[o] = "events"
        /\ mine' = [mine EXCEPT ![o] = obj]
        /\ Goto(o, IF obj = Nil THEN "make" ELSE "install")
        /\ UNCHANGED <<mapVars, obj, doubled>>
     \/ /\ lpc[o] = "make"
        /\ Map!Events
        /\ obj' = o
        /\ doubled' = (doubled \/ obj # Nil)
        /\ Goto(o, "fetch")
        /\ UNCHANGED mine
     \/ /\ lpc[o] = "fetch"
        /\ mine' = [mine EXCEPT ![o] = obj]
        /\ Goto(o, IF obj = Nil THEN "panic" ELSE "install")
        /\ UNCHANGED <<mapVars, obj, doubled>>
  /\ UNCHANGED <<kind, want, listenVars, used, cb, eventVars>>

(* events.EventDeleted = ..., or events.EventDisposed = ... *)
Install(o) ==
  /\ lpc[o] = "install"
  /\ cb' = [cb EXCEPT ![kind[o]][mine[o]] = o]
  /\ Goto(o, "call")
  /\ UNCHANGED <<mapVars, kind, want, listenVars, obj, mine, used, doubled,
                 eventVars>>

(* lstng.Delete(names...) or lstng.Close() *)
RemoveCall(o) ==
  /\ lpc[o] = "call"
  /\ IF kind[o] = "unload" THEN Map!Remove(o, want[o]) ELSE Map!Close(o)
  /\ used' = [used EXCEPT ![o] = obj]
  /\ Goto(o, "map")
  /\ UNCHANGED <<kind, want, listenVars, obj, mine, cb, doubled, eventVars>>

(* The steps inside Set, Delete and Close. A listener is a new pointer, so *)
(* Set never finds it equal to the one in the map; Close lets go of the    *)
(* events object. The events of Set have no callback here.                 *)
MapStep(o) ==
  /\ lpc[o] = "map"
  /\ \/ Map!Load(o) /\ pc'[o] = "store" /\ UNCHANGED obj
     \/ Map!Store(o) /\ UNCHANGED obj
     \/ Map!DropEvents(o) /\ obj' = Nil
     \/ Map!DropMap(o) /\ UNCHANGED obj
     \/ \E n \in Names : Map!Visit(o, n) /\ UNCHANGED obj
     \/ Map!DeleteKey(o) /\ UNCHANGED obj
  /\ UNCHANGED <<lpc, kind, want, listenVars, mine, used, cb, doubled,
                 eventVars>>

(* The end of Range: go Deleted(tmp) or go Disposed(tmp) if there is       *)
(* anything to tell.                                                       *)
Spawn(o) ==
  /\ lpc[o] = "map"
  /\ Map!Report(o)
  /\ IF tmp[o] = {} THEN UNCHANGED <<ev, evmap, removed>>
     ELSE /\ ev' = [ev EXCEPT ![o] = "spawned"]
          /\ evmap' = [evmap EXCEPT ![o] = tmp[o]]
          /\ removed' = [removed EXCEPT ![o] = tmp[o]]
  /\ UNCHANGED <<lpc, kind, want, listenVars, unloadVars, evcb, cancelled>>

(* The event goroutine reads the callback field, shuts the listeners down  *)
(* one by one and cancels the context of the callback it runs.             *)
EventStart(o) ==
  /\ ev[o] = "spawned"
  /\ evcb' = [evcb EXCEPT ![o] = cb[kind[o]][used[o]]]
  /\ ev' = [ev EXCEPT ![o] = IF cb[kind[o]][used[o]] = Nil THEN "finished"
                             ELSE "running"]
  /\ UNCHANGED <<mapVars, lpc, kind, want, listenVars, unloadVars, evmap,
                 cancelled, removed>>

Shutdown(o, l) ==
  /\ ev[o] = "running"
  /\ l \in evmap[o]
  /\ evmap' = [evmap EXCEPT ![o] = @ \ {l}]
  /\ ln' = [ln EXCEPT ![l] = "down"]
  /\ UNCHANGED <<mapVars, lpc, kind, want, adr, got, unloadVars, ev, evcb,
                 cancelled, removed>>

Cancel(o) ==
  /\ ev[o] = "running"
  /\ evmap[o] = {}
  /\ ev' = [ev EXCEPT ![o] = "finished"]
  /\ cancelled' = cancelled \cup {evcb[o]}
  /\ UNCHANGED <<mapVars, lpc, kind, want, listenVars, unloadVars, evmap,
                 evcb, removed>>

(* <-ctx.Done() *)
Await(o) ==
  /\ lpc[o] = "map" /\ pc[o] = "done"
  /\ kind[o] \in Unloads
  /\ o \in cancelled
  /\ Goto(o, "done")
  /\ UNCHANGED <<mapVars, kind, want, listenVars, unloadVars, eventVars>>

Progress(o) ==
  \/ Swap(o) \/ Bind(o) \/ SetCall(o)
  \/ EventsCall(o) \/ Install(o) \/ RemoveCall(o)
  \/ MapStep(o) \/ Spawn(o)
  \/ EventStart(o) \/ (\E l \in Calls : Shutdown(o, l)) \/ Cancel(o)
  \/ Await(o)

Step(o) ==
  \/ \E n \in Names, a \in Addrs : Listen(o, n, a)
  \/ \E ns \in (SUBSET Names) \ {{}} : Unload(o, "unload", ns)
  \/ Unload(o, "unloadall", {})
  \/ Progress(o)

(* The history of overlaps after a step. *)
Record ==
  /\ raced' = raced \cup Map!Overlap'
  /\ contended' = contended \cup NewlyContended'
  /\ crossed' = (crossed \/ \E o, p \in Calls :
                              o # p /\ Handshake(o)' /\ Handshake(p)')

Next == \E o \in Calls : Step(o) /\ Record

Spec == Init /\ [][Next]_vars

(* A call that was made and an event goroutine that was started go on;     *)
(* nobody has to make a call.                                              *)
FairSpec == Spec /\ \A o \in Calls : WF_vars(Progress(o) /\ Record)
---------------------------------------------------------------------------
TypeOK ==
  /\ Map!TypeOK
  /\ lpc \in [Calls -> {"ready", "swap", "bind", "set", "events", "make",
                        "fetch", "install", "call", "map", "done", "panic"}]
  /\ kind \in [Calls -> Kinds]
  /\ want \in [Calls -> SUBSET Names]
  /\ adr \in [Calls -> Addrs \cup {Nil}]
  /\ got \in [Calls -> Calls \cup {Nil}]
  /\ ln \in [Calls -> {"none", "bound", "down"}]
  /\ obj \in Calls \cup {Nil}
  /\ mine \in [Calls -> Calls \cup {Nil}]
  /\ used \in [Calls -> Calls \cup {Nil}]
  /\ cb \in [Unloads -> [Calls -> Calls \cup {Nil}]]
  /\ ev \in [Calls -> {"none", "spawned", "running", "finished"}]
  /\ evmap \in [Calls -> SUBSET Calls]
  /\ evcb \in [Calls -> Calls \cup {Nil}]
  /\ cancelled \subseteq Calls
  /\ removed \in [Calls -> SUBSET Calls]
  /\ contended \subseteq Names
  /\ crossed \in BOOLEAN
  /\ doubled \in BOOLEAN

(* Whatever overlaps, a listener is shut down only after it has left the   *)
(* map: Listen never finds one under its name whose socket is closed.      *)
MapHoldsLiveListeners ==
  \A n \in Names : store[n] # Nil => ln[store[n]] = "bound"

(* Somebody will still shut the listener down, or can be asked to: an event *)
(* that found no callback shuts down nothing.                               *)
Reachable(l) ==
  \/ lpc[l] = "set" \/ (lpc[l] = "map" /\ pc[l] \in {"load", "store"})
  \/ \E n \in Names : store[n] = l
  \/ \E o \in Calls : \/ l \in tmp[o]
                      \/ l \in evmap[o] /\ ev[o] \in {"spawned", "running"}

(* As long as nobody has unloaded everything, a serving socket stays in    *)
(* reach of Unload, unless calls overlapped on its name inside the map,    *)
(* two calls of Listen opened the name at once, or two first Unloads both  *)
(* made an events object: then the callback can be in the one that the map *)
(* no longer uses.                                                         *)
SocketsReachable ==
  \A l \in Calls :
    /\ ln[l] = "bound" /\ want[l] \cap (raced \cup contended) = {}
    /\ \A o \in Calls : kind[o] # "unloadall"
    /\ ~doubled
    => Reachable(l)

(* Unload returns only after every listener that it removed is shut down,  *)
(* unless another Unload installed its callback in the meantime, or put    *)
(* its own into a second events object: then its event can run, and        *)
(* answer, the callback of an Unload whose own event is still at work.     *)
UnloadWaits ==
  \A o \in Calls :
    lpc[o] = "done" /\ kind[o] \in Unloads /\ ~crossed /\ ~doubled =>
      \A l \in removed[o] : ln[l] = "down"

(* An Unload that removed a listener returns, unless another Unload came   *)
(* between its callback and its event or made a second events object. (One *)
(* that removed nothing waits for an event that is never raised.)          *)
UnloadReturns ==
  \A o \in Calls :
    (kind[o] \in Unloads /\ removed[o] # {}) ~>
      (lpc[o] = "done" \/ crossed \/ doubled)
===========================================================================
