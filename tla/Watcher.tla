------------------------------ MODULE Watcher ------------------------------
(***************************************************************************)
(* The file watcher (fs/watcher.go) and the file cache it keeps in step    *)
(* with the disk (cachedfiles of fs/filesys.go, through the Event          *)
(* callbacks of fs/multifilesys.go). A file below is one with a cached     *)
(* extension under a watched directory.                                    *)
(*                                                                         *)
(* The event loop debounces Create and Write: each restarts the timer of   *)
(* the file, and the handler runs when the timer expires. Other events     *)
(* start the handler at once, in a goroutine of its own. Whatever the      *)
(* event was, a handler that ends stops the timer of its file.             *)
(*                                                                         *)
(* A version of a file has the modification time at which it was written;  *)
(* the clock of the disk may not advance between two versions.             *)
(***************************************************************************)
EXTENDS Integers, Sequences

CONSTANTS
  Files,
  Handlers,    \* goroutines that can run processEvent at a time
  MaxChanges,  \* changes made to the disk
  Nil

ASSUME MaxChangesAssumption == MaxChanges \in Nat
ASSUME NilAssumption == Nil \notin Files

VARIABLES
  born,        \* born[f][v]: the modification time of version v
  there,       \* what is on disk: no file, an empty one, one with content
  changes,     \* changes made so far
  events,      \* delivered by fsnotify and not yet taken by the loop
  timer,       \* wchng: the timer of the file
  timerop,     \* the operation its function was created for
  hpc,         \* where handler h stands
  hfile,       \* the file it handles
  fi,          \* what its os.Stat said: modification time and emptiness
  read,        \* the version it has read
  cached,      \* cachedfiles: time and version, or Nil
  stopped,     \* history: files of which a handler has stopped a running timer
  overlapped   \* history: files of which two handlers used the cache at once

diskVars == <<born, there, changes>>
timerVars == <<timer, timerop>>
handlerVars == <<hpc, hfile, fi, read>>
vars == <<diskVars, events, timerVars, handlerVars, cached,
          stopped, overlapped>>

Ops == {"Create", "Write", "Remove", "Rename", "Chmod"}
Steps == {"idle", "stat", "compare", "load", "store", "drop", "finish"}
Stamp == [mtime : Nat, ver : Nat]
Stat == [mtime : Nat, empty : BOOLEAN]
NoStat == [mtime |-> 0, empty |-> FALSE]

Version(f) == Len(born[f])
ModTime(f) == born[f][Version(f)]

TypeOK ==
  /\ born \in [Files -> Seq(Nat)] /\ \A f \in Files : Version(f) > 0
  /\ there \in [Files -> {"absent", "empty", "full"}]
  /\ changes \in 0..MaxChanges
  /\ events \in Seq([name : Files, op : Ops])
  /\ timer \in [Files -> {"none", "idle", "running"}]
  /\ timerop \in [Files -> Ops]
  /\ hpc \in [Handlers -> Steps]
  /\ hfile \in [Handlers -> Files \cup {Nil}]
  /\ fi \in [Handlers -> Stat]
  /\ read \in [Handlers -> Nat]
  /\ cached \in [Files -> Stamp \cup {Nil}]
  /\ stopped \subseteq Files
  /\ overlapped \subseteq Files
  /\ \A h \in Handlers : hpc[h] # "idle" => hfile[h] \in Files

(* Map has added the directory to the watcher and loaded its files. *)
Init ==
  /\ born = [f \in Files |-> <<0>>]
  /\ there = [f \in Files |-> "full"]
  /\ changes = 0
  /\ events = <<>>
  /\ timer = [f \in Files |-> "none"]
  /\ timerop = [f \in Files |-> "Write"]
  /\ hpc = [h \in Handlers |-> "idle"]
  /\ hfile = [h \in Handlers |-> Nil]
  /\ fi = [h \in Handlers |-> NoStat]
  /\ read = [h \in Handlers |-> 0]
  /\ cached = [f \in Files |-> [mtime |-> 0, ver |-> 1]]
  /\ stopped = {}
  /\ overlapped = {}

-----------------------------------------------------------------------------
(* The disk and fsnotify. *)

Event(f, op) ==
  /\ changes < MaxChanges
  /\ changes' = changes + 1
  /\ events' = Append(events, [name |-> f, op |-> op])
  /\ UNCHANGED <<timerVars, handlerVars, cached, stopped, overlapped>>

NewVersion(f, content) ==
  /\ \E m \in {ModTime(f), ModTime(f) + 1} :
       born' = [born EXCEPT ![f] = Append(@, m)]
  /\ there' = [there EXCEPT ![f] = content]

(* A program creates, writes or truncates, removes or renames the file, or *)
(* changes its attributes.                                                 *)
Creates(f) ==
  /\ there[f] = "absent"
  /\ \E content \in {"empty", "full"} : NewVersion(f, content)
  /\ Event(f, "Create")

Writes(f) ==
  /\ there[f] # "absent"
  /\ \E content \in {"empty", "full"} : NewVersion(f, content)
  /\ Event(f, "Write")

Removes(f) ==
  /\ there[f] # "absent"
  /\ there' = [there EXCEPT ![f] = "absent"]
  /\ \E op \in {"Remove", "Rename"} : Event(f, op)
  /\ UNCHANGED born

Chmods(f) ==
  /\ there[f] # "absent"
  /\ Event(f, "Chmod")
  /\ UNCHANGED <<born, there>>

-----------------------------------------------------------------------------
(* The event loop. *)

(* Handlers that use the cache entry of f. *)
Using(f) == { h \in Handlers : /\ hpc[h] \notin {"idle", "finish"}
                               /\ hfile[h] = f }

(* Seeded fault: Create selects no callback. *)
CallbackNotForCreate(op) ==
  CASE op = "Write" -> "stat"
    [] op \in {"Remove", "Rename"} -> "drop"
    [] op \in {"Create", "Chmod"} -> "finish"

(* processEvent(evt): the first callback that the operation selects. *)
Callback(op) ==
  CASE op \in {"Create", "Write"} -> "stat"
    [] op \in {"Remove", "Rename"} -> "drop"
    [] op = "Chmod" -> "finish"

ProcessEvent(h, f, op) ==
  /\ hpc[h] = "idle"
  /\ hpc' = [hpc EXCEPT ![h] = Callback(op)]
  /\ hfile' = [hfile EXCEPT ![h] = f]
  /\ overlapped' =
       IF Using(f) # {} /\ op # "Chmod" THEN overlapped \cup {f}
                                        ELSE overlapped
  /\ UNCHANGED <<diskVars, fi, read, cached, stopped>>

(* Seeded fault: a timer that exists already is not restarted. *)
RestartOnce(f) ==
  timer' = [timer EXCEPT ![f] = IF @ = "none" THEN "running" ELSE @]

(* tmr.Reset(waitFor) of a timer found or made. *)
Restart(f) == timer' = [timer EXCEPT ![f] = "running"]

(* Create and Write: the timer keeps the operation it was made for. *)
Debounce ==
  /\ events # <<>>
  /\ LET evt == Head(events) IN
       /\ evt.op \in {"Create", "Write"}
       /\ timerop' = [timerop EXCEPT ![evt.name] =
                        IF timer[evt.name] = "none" THEN evt.op ELSE @]
       /\ Restart(evt.name)
  /\ events' = Tail(events)
  /\ UNCHANGED <<diskVars, handlerVars, cached, stopped, overlapped>>

Dispatch(h) ==
  /\ events # <<>>
  /\ LET evt == Head(events) IN
       /\ evt.op \notin {"Create", "Write"}
       /\ ProcessEvent(h, evt.name, evt.op)
  /\ events' = Tail(events)
  /\ UNCHANGED timerVars

(* The timer expires. *)
Fire(h, f) ==
  /\ timer[f] = "running"
  /\ timer' = [timer EXCEPT ![f] = "idle"]
  /\ ProcessEvent(h, f, timerop[f])
  /\ UNCHANGED <<timerop, events>>

-----------------------------------------------------------------------------
(* A handler: syncPath for Create and Write, Remove for the others. *)

Goto(h, step) == hpc' = [hpc EXCEPT ![h] = step]

(* os.Stat *)
StatFile(h) ==
  LET f == hfile[h] IN
  /\ hpc[h] = "stat"
  /\ Goto(h, IF there[f] = "absent" THEN "finish" ELSE "compare")
  /\ fi' = [fi EXCEPT ![h] = [mtime |-> ModTime(f),
                              empty |-> there[f] = "empty"]]
  /\ UNCHANGED <<diskVars, events, timerVars, hfile, read, cached,
                 stopped, overlapped>>

OutOfDate(f, stat) == cached[f] = Nil \/ cached[f].mtime # stat.mtime

(* An entry with the time of the file stays. Another one is closed and     *)
(* deleted, and a file with content is loaded anew.                        *)
Compare(h) ==
  LET f == hfile[h] IN
  /\ hpc[h] = "compare"
  /\ IF OutOfDate(f, fi[h])
       THEN /\ cached' = [cached EXCEPT ![f] = Nil]
            /\ Goto(h, IF fi[h].empty THEN "finish" ELSE "load")
       ELSE /\ Goto(h, "finish")
            /\ UNCHANGED cached
  /\ UNCHANGED <<diskVars, events, timerVars, hfile, fi, read,
                 stopped, overlapped>>

(* os.Open and NewBuffer(f): the content is the one of now. *)
Load(h) ==
  LET f == hfile[h] IN
  /\ hpc[h] = "load"
  /\ Goto(h, IF there[f] = "absent" THEN "finish" ELSE "store")
  /\ read' = [read EXCEPT ![h] = Version(f)]
  /\ UNCHANGED <<diskVars, events, timerVars, hfile, fi, cached,
                 stopped, overlapped>>

(* Seeded fault: the time is that of the file at the end of the load. *)
EntryStampedLate(h) == [mtime |-> ModTime(hfile[h]), ver |-> read[h]]

Entry(h) == [mtime |-> fi[h].mtime, ver |-> read[h]]

Store(h) ==
  /\ hpc[h] = "store"
  /\ cached' = [cached EXCEPT ![hfile[h]] = Entry(h)]
  /\ Goto(h, "finish")
  /\ UNCHANGED <<diskVars, events, timerVars, hfile, fi, read,
                 stopped, overlapped>>

(* Remove and Rename: filesys.Remove. *)
Drop(h) ==
  /\ hpc[h] = "drop"
  /\ cached' = [cached EXCEPT ![hfile[h]] = Nil]
  /\ Goto(h, "finish")
  /\ UNCHANGED <<diskVars, events, timerVars, hfile, fi, read,
                 stopped, overlapped>>

(* The deferred function: the timer found under the name is stopped. The   *)
(* Delete that follows uses the text of the event as key, so the timer     *)
(* stays in the map. The variables of the handler are gone.                *)
Finish(h) ==
  LET f == hfile[h] IN
  /\ hpc[h] = "finish"
  /\ Goto(h, "idle")
  /\ hfile' = [hfile EXCEPT ![h] = Nil]
  /\ timer' = [timer EXCEPT ![f] = IF @ = "none" THEN "none" ELSE "idle"]
  /\ stopped' = IF timer[f] = "running" THEN stopped \cup {f} ELSE stopped
  /\ fi' = [fi EXCEPT ![h] = NoStat]
  /\ read' = [read EXCEPT ![h] = 0]
  /\ UNCHANGED <<diskVars, events, timerop, cached, overlapped>>

-----------------------------------------------------------------------------
Changes == \E f \in Files : Creates(f) \/ Writes(f) \/ Removes(f) \/ Chmods(f)

Loop == Debounce \/ \E h \in Handlers : Dispatch(h)

Handle(h) == \/ StatFile(h) \/ Compare(h) \/ Load(h) \/ Store(h)
             \/ Drop(h) \/ Finish(h)

Next ==
  \/ Changes
  \/ Loop
  \/ \E h \in Handlers : (\E f \in Files : Fire(h, f)) \/ Handle(h)

Spec == Init /\ [][Next]_vars

(* The goroutines and the timers of the runtime make progress; nothing is  *)
(* asked of the programs that change the files.                            *)
FairSpec ==
  /\ Spec
  /\ WF_vars(Loop)
  /\ \A f \in Files : WF_vars(\E h \in Handlers : Fire(h, f))
  /\ \A h \in Handlers : WF_vars(Handle(h))

-----------------------------------------------------------------------------
(* What the watcher promises. *)

(* The entry is of another time than the file, or of a file that is gone. *)
Stale(f) ==
  /\ cached[f] # Nil
  /\ there[f] = "absent" \/ cached[f].mtime # ModTime(f)

Queued(f) == \E i \in DOMAIN events : events[i].name = f
                                      /\ events[i].op # "Chmod"

Pending(f) ==
  \/ Queued(f)
  \/ timer[f] = "running"
  \/ \E h \in Using(f) : hpc[h] \in {"stat", "compare", "drop"}

(* A stale entry is always about to be replaced: its event is queued, its  *)
(* timer runs or its handler has not yet compared. The two exceptions are  *)
(* races of watcher.go: a handler that ends stops the timer that a later   *)
(* event has restarted (line 75), and handlers of one file that overlap.   *)
StaleIsPending ==
  \A f \in Files :
    Stale(f) => Pending(f) \/ f \in stopped \/ f \in overlapped

(* An entry never has content older than its modification time says: the   *)
(* time is taken before the content is read (filesys.go 507 and 549), so   *)
(* an equal time proves the entry current, up to the clock of the disk.    *)
StampNotNewer ==
  \A f \in Files : cached[f] # Nil =>
    /\ cached[f].ver \in 1..Version(f)
    /\ born[f][cached[f].ver] >= cached[f].mtime

(* What the cache should hold: a file with content, at its time. *)
Mirrored(f) ==
  CASE there[f] = "full" -> cached[f] # Nil /\ ~Stale(f)
    [] there[f] = "empty" -> ~Stale(f)
    [] there[f] = "absent" -> cached[f] = Nil

(* However the changes fall, the cache comes to mirror the disk, unless    *)
(* one of the two races has hit the file.                                  *)
Settles ==
  \A f \in Files : []<>(Mirrored(f) \/ f \in stopped \/ f \in overlapped)
=============================================================================
