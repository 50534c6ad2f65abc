------------------------------ MODULE IterMap ------------------------------
(***************************************************************************)
(* itermap of package ioext (itermap.go): the map with events that keeps   *)
(* listeners, handlers, connections, drivers, readers, sessions and        *)
(* filesystems. Its users rely on one promise: a value that leaves the map *)
(* is handed to an event (Changed, Deleted or Disposed), which shuts it    *)
(* down.                                                                   *)
(*                                                                         *)
(* itermap holds a sync.Map, whose single operations are atomic, but Set   *)
(* is a Load followed by a Store, Delete, Clear and Close visit the keys   *)
(* with Range and delete each after reading it, and Close takes the        *)
(* sync.Map out of itermap first, so an operation that had fetched it      *)
(* before goes on with it.                                                 *)
(*                                                                         *)
(* An operation is a call made by one goroutine. The value that a Set      *)
(* stores is named after the call: it is stored once, under name[v].       *)
(***************************************************************************)
CONSTANTS
  Ops,   \* the calls made on the map
  Keys,  \* non-empty keys (an empty string is ignored by every method)
  Nil    \* no value

ASSUME NilAssumption == Nil \notin Ops

VARIABLES
  imp,      \* the fields of itermap: orgsncmp and mpevents are not nil
  store,    \* the contents of the sync.Map made by MapIterator
  pc,       \* where operation o stands
  name,     \* Set: the key
  prv,      \* Set: the value loaded; Range: the value visited
  evt,      \* the operation saw an events object
  todo,     \* Range: the keys it may still visit
  at,       \* Range: the key it visits
  tmp,      \* the values it removed and will report
  stored,   \* history: the values that were stored
  reported, \* history: the values handed to an event when they left
  again,    \* history: those handed to an event more than once
  untold,   \* history: the values removed while there was no events object
  raced,    \* history: the keys on which two operations overlapped
  straddled \* history: Close took the map away while a Set was using it

locals == <<name, prv, evt, todo, at, tmp>>
history == <<stored, reported, again, untold, straddled>>
vars == <<imp, store, pc, locals, history, raced>>

Go(o, step) == pc' = [pc EXCEPT ![o] = step]

(* Between reading the value of a key and replacing or deleting it. *)
InWindow(o, k) ==
  \/ pc[o] = "store" /\ name[o] = k
  \/ pc[o] = "delete" /\ at[o] = k

Overlap == { k \in Keys : \E o, p \in Ops :
                            o # p /\ InWindow(o, k) /\ InWindow(p, k) }

(* MapIterator: an empty map; the events object is made on demand. *)
Init ==
  /\ imp = [orgsncmp |-> TRUE, mpevents |-> FALSE]
  /\ store = [k \in Keys |-> Nil]
  /\ pc = [o \in Ops |-> "ready"]
  /\ name \in [Ops -> Keys]
  /\ prv = [o \in Ops |-> Nil]
  /\ evt = [o \in Ops |-> FALSE]
  /\ todo = [o \in Ops |-> {}]
  /\ at = name
  /\ tmp = [o \in Ops |-> {}]
  /\ stored = {} /\ reported = {} /\ again = {} /\ untold = {}
  /\ raced = {}
  /\ straddled = FALSE

---------------------------------------------------------------------------
(* Seeded faults: variants of definitions below with a plausible mistake,  *)
(* used to show that each property can fail. No behaviour of Spec uses     *)
(* them.                                                                   *)
\* Changed is not raised for a value that Set replaces
StoreUnreported(o) ==
  /\ pc[o] = "store"
  /\ store' = [store EXCEPT ![name[o]] = o]
  /\ stored' = stored \cup {o}
  /\ Go(o, "done")
  /\ UNCHANGED <<imp, locals, reported, again, untold, straddled>>

\* Range remembers a value but does not delete its key
DeleteKeyKeeps(o) ==
  /\ pc[o] = "delete"
  /\ tmp' = [tmp EXCEPT ![o] = IF evt[o] THEN @ \cup {prv[o]} ELSE @]
  /\ Go(o, "range")
  /\ UNCHANGED <<imp, store, name, prv, evt, todo, at, history>>

\* a Set that finds the map closed stores all the same
SetClosed(o, k) ==
  /\ pc[o] = "ready"
  /\ name' = [name EXCEPT ![o] = k]
  /\ evt' = [evt EXCEPT ![o] = imp.mpevents]
  /\ Go(o, "load")
  /\ UNCHANGED <<imp, store, prv, todo, at, tmp, history>>

---------------------------------------------------------------------------
(* Events() makes an events object, also after Close. That there was none  *)
(* it has found before, without a lock, so the new object may take the     *)
(* place of one that another caller has made meanwhile (module Listening   *)
(* tells the two apart).                                                   *)
Events ==
  /\ imp' = [imp EXCEPT !.mpevents = TRUE]
  /\ UNCHANGED <<store, pc, locals, history>>

(* Set: without a sync.Map there is nothing to do. *)
Set(o, k) ==
  /\ pc[o] = "ready"
  /\ name' = [name EXCEPT ![o] = k]
  /\ evt' = [evt EXCEPT ![o] = imp.mpevents]
  /\ Go(o, IF imp.orgsncmp THEN "load" ELSE "done")
  /\ UNCHANGED <<imp, store, prv, todo, at, tmp, history>>

(* orgsncmp.Load(name): a value equal to the one there changes nothing. *)
Load(o) ==
  /\ pc[o] = "load"
  /\ \/ /\ store[name[o]] # Nil
        /\ Go(o, "done")
        /\ UNCHANGED prv
     \/ /\ prv' = [prv EXCEPT ![o] = store[name[o]]]
        /\ Go(o, "store")
  /\ UNCHANGED <<imp, store, name, evt, todo, at, tmp, history>>

(* orgsncmp.Store(name, value), and go Changed(name, prvval, value) for    *)
(* the value that was loaded (go Add(name, value) if there was none).      *)
Store(o) ==
  LET left == {prv[o]} \ {Nil} IN
  /\ pc[o] = "store"
  /\ store' = [store EXCEPT ![name[o]] = o]
  /\ stored' = stored \cup {o}
  /\ IF evt[o]
     THEN /\ reported' = reported \cup left
          /\ again' = again \cup (reported \cap left)
          /\ UNCHANGED untold
     ELSE untold' = untold \cup left /\ UNCHANGED <<reported, again>>
  /\ Go(o, "done")
  /\ UNCHANGED <<imp, locals, straddled>>

---------------------------------------------------------------------------
(* Delete of some keys, and Clear of all. *)
Remove(o, ks) ==
  /\ pc[o] = "ready"
  /\ evt' = [evt EXCEPT ![o] = imp.mpevents]
  /\ todo' = [todo EXCEPT ![o] = ks]
  /\ Go(o, IF imp.orgsncmp THEN "range" ELSE "done")
  /\ UNCHANGED <<imp, store, name, prv, at, tmp, history>>

Delete(o) == \E ks \in (SUBSET Keys) \ {{}} : Remove(o, ks)

Clear(o) == Remove(o, Keys)

(* Close fetches both fields, sets mpevents and then orgsncmp to nil, and  *)
(* removes everything from the sync.Map it fetched.                        *)
Close(o) ==
  /\ pc[o] = "ready"
  /\ evt' = [evt EXCEPT ![o] = imp.mpevents]
  /\ todo' = [todo EXCEPT ![o] = IF imp.orgsncmp THEN Keys ELSE {}]
  /\ Go(o, "dropevents")
  /\ UNCHANGED <<imp, store, name, prv, at, tmp, history>>

DropEvents(o) ==
  /\ pc[o] = "dropevents"
  /\ imp' = [imp EXCEPT !.mpevents = FALSE]
  /\ Go(o, "dropmap")
  /\ UNCHANGED <<store, locals, history>>

DropMap(o) ==
  /\ pc[o] = "dropmap"
  /\ imp' = [imp EXCEPT !.orgsncmp = FALSE]
  /\ straddled' = (straddled \/ \E p \in Ops : pc[p] \in {"load", "store"})
  /\ Go(o, "range")
  /\ UNCHANGED <<store, locals, stored, reported, again, untold>>

(* orgsncmp.Range: each key at most once, in any order; one that is absent *)
(* when its turn comes is not seen.                                        *)
Visit(o, k) ==
  /\ pc[o] = "range"
  /\ k \in todo[o]
  /\ todo' = [todo EXCEPT ![o] = @ \ {k}]
  /\ \/ store[k] = Nil /\ UNCHANGED <<pc, prv, at>>
     \/ /\ store[k] # Nil
        /\ prv' = [prv EXCEPT ![o] = store[k]]
        /\ at' = [at EXCEPT ![o] = k]
        /\ Go(o, "delete")
  /\ UNCHANGED <<imp, store, name, evt, tmp, history>>

(* tmp[key] = value if there is somebody to tell; orgsncmp.Delete(key). *)
DeleteKey(o) ==
  /\ pc[o] = "delete"
  /\ store' = [store EXCEPT ![at[o]] = Nil]
  /\ IF evt[o]
     THEN tmp' = [tmp EXCEPT ![o] = @ \cup {prv[o]}] /\ UNCHANGED untold
     ELSE untold' = untold \cup {prv[o]} /\ UNCHANGED tmp
  /\ Go(o, "range")
  /\ UNCHANGED <<imp, name, prv, evt, todo, at, stored, reported,
                 again, straddled>>

(* if len(tmp) > 0 { go Deleted(tmp) }, or go Disposed(tmp) in Close. *)
Report(o) ==
  /\ pc[o] = "range"
  /\ todo[o] = {}
  /\ reported' = reported \cup tmp[o]
  /\ again' = again \cup (reported \cap tmp[o])
  /\ tmp' = [tmp EXCEPT ![o] = {}]
  /\ Go(o, "done")
  /\ UNCHANGED <<imp, store, name, prv, evt, todo, at, stored,
                 untold, straddled>>

Step(o) ==
  \/ \E k \in Keys : Set(o, k)
  \/ Load(o) \/ Store(o)
  \/ Delete(o) \/ Clear(o)
  \/ Close(o) \/ DropEvents(o) \/ DropMap(o)
  \/ \E k \in Keys : Visit(o, k)
  \/ DeleteKey(o) \/ Report(o)

Next == (Events \/ \E o \in Ops : Step(o)) /\ raced' = raced \cup Overlap'

Spec == Init /\ [][Next]_vars
---------------------------------------------------------------------------
TypeOK ==
  /\ imp \in [orgsncmp : BOOLEAN, mpevents : BOOLEAN]
  /\ store \in [Keys -> Ops \cup {Nil}]
  /\ pc \in [Ops -> {"ready", "load", "store", "dropevents", "dropmap",
                     "range", "delete", "done"}]
  /\ name \in [Ops -> Keys]
  /\ prv \in [Ops -> Ops \cup {Nil}]
  /\ evt \in [Ops -> BOOLEAN]
  /\ todo \in [Ops -> SUBSET Keys]
  /\ at \in [Ops -> Keys]
  /\ tmp \in [Ops -> SUBSET Ops]
  /\ stored \subseteq Ops /\ reported \subseteq Ops
  /\ again \subseteq Ops /\ untold \subseteq Ops
  /\ raced \subseteq Keys
  /\ straddled \in BOOLEAN

(* A stored value on a key where operations never overlapped is in the map *)
(* or has been handed to an event, is about to be, or left when there was  *)
(* no events object: no value drops out unseen, whatever calls run at the  *)
(* same time on other keys and whoever closes the map.                     *)
EveryValueAccountedFor ==
  \A v \in stored :
    name[v] \notin raced =>
      \/ store[name[v]] = v
      \/ v \in reported \cup untold
      \/ \E o \in Ops : v \in tmp[o]

(* No value is handed to an event twice, or handed to one while it is      *)
(* still in the map, unless operations overlapped on its key.              *)
ReportedOnce ==
  \A v \in stored :
    name[v] \notin raced =>
      /\ v \notin again
      /\ v \in reported => store[name[v]] # v

(* When every call has returned, a closed map holds nothing, unless a Set  *)
(* had fetched the sync.Map before Close took it away.                     *)
ClosedMapIsEmpty ==
  ~imp.orgsncmp /\ ~straddled /\ (\A o \in Ops : pc[o] \in {"ready", "done"})
    => \A k \in Keys : store[k] = Nil
===========================================================================
