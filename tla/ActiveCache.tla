---------------------------- MODULE ActiveCache ----------------------------
(***************************************************************************)
(* The cache of parsed and compiled files (fs/active/active.go), for one   *)
(* path: the requests that serve it (globalsession.go, ProcessActiveFile,  *)
(* Parse) and the handlers of the file watcher (module Watcher) that       *)
(* refresh the file cache (syncPath and Remove of fs/filesys.go) and then  *)
(* call update. There is no lock around either: each operation on the map  *)
(* of cached infos is atomic (module IterMap), a sequence of them is not.  *)
(* The map of cached files is a plain Go map: who reads or writes it while *)
(* another goroutine writes it is stopped by the runtime, and the program  *)
(* with it ("fatal").                                                      *)
(*                                                                         *)
(* A cachedstat holds the content of the file, a cachedinfo what was       *)
(* parsed from it; both may be closed while somebody still uses them. A    *)
(* closed cachedinfo has no fileinfo, so that ModTime() and Path() panic,  *)
(* and no content and no program, so that nothing is served. The elements  *)
(* that a template includes are left out: Valid() is then always true.     *)
(***************************************************************************)
EXTENDS Integers, Sequences, FiniteSets

CONSTANTS
  Requests,
  Updates,   \* runs of the handler of the watcher
  MaxVer,    \* bound: versions of the file
  MaxProcs   \* bound: requests and updates that start in a behaviour

ASSUME ProcsAssumption == Requests \cap Updates = {}
ASSUME MaxVerAssumption == MaxVer \in Nat \ {0}
ASSUME MaxProcsAssumption == MaxProcs \in Nat

VARIABLES
  born,      \* born[v]: the modification time of version v of the file
  blank,     \* the versions of the file that are empty
  there,     \* the file exists
  unseen,    \* removals the watcher has not reported yet
  stats,     \* the cachedstats made so far
  stat,      \* cachedfiles: the number of the current one, or 0
  infos,     \* the cachedinfos made so far
  info,      \* chdfis: the number of the one in the map, or 0
  pc,        \* where a request or update stands
  fi,        \* the FileInfo it works for
  got,       \* the cachedinfo it holds, or 0
  todo,      \* notifications an update still has to deliver
  sncfi,     \* the version an update has seen the size and time of, or 0
  chdst,     \* the cachedstat an update found in the map, or 0
  content,   \* the version of the content a request has printed, or 0
  program,   \* the version of the program it has run, or 0
  disturbed  \* history: those that overlapped another, or a removal

diskVars == <<born, blank, there, unseen>>
fileVars == <<stats, stat>>
handlerVars == <<todo, sncfi, chdst>>
servedVars == <<content, program>>
vars == <<diskVars, fileVars, infos, info, pc, fi, got, handlerVars,
          servedVars, disturbed>>

Procs == Requests \cup Updates
Steps == {"ready", "get", "check", "evict", "close", "create", "set",
          "content", "program", "done", "notfound", "panic",
          "fatal", "find", "swap", "forget", "load", "store", "tell",
          "get1", "close1", "delete1",
          "erase", "gone", "get2", "delete2", "path2", "close2", "shut"}
Ended == {"done", "notfound", "panic", "fatal"}
InFlight(p) == pc[p] \notin {"ready"} \cup Ended
(* A panic outside a request ends the program, a fatal error always does.  *)
Crashed ==
  \/ \E u \in Updates : pc[u] = "panic"
  \/ \E p \in Procs : pc[p] = "fatal"

ModTime == born[Len(born)]

(* Where a FileInfo reads from: a cachedstat, or (0) the file itself. *)
FileInfo == [mtime : Nat, src : Nat]
NoFile == [mtime |-> 0, src |-> 0]
Cached == [mtime : Nat, ver : Nat, open : BOOLEAN]

TypeOK ==
  /\ born \in Seq(Nat) /\ Len(born) \in 1..MaxVer
  /\ blank \subseteq 1..MaxVer
  /\ there \in BOOLEAN
  /\ unseen \in Nat
  /\ stats \in Seq(Cached) /\ stat \in 0..Len(stats)
  /\ infos \in Seq(Cached) /\ info \in 0..Len(infos)
  /\ pc \in [Procs -> Steps]
  /\ fi \in [Procs -> FileInfo]
  /\ got \in [Procs -> 0..Len(infos)]
  /\ todo \in [Updates -> 0..2]
  /\ sncfi \in [Updates -> 0..Len(born)]
  /\ chdst \in [Updates -> 0..Len(stats)]
  /\ content \in [Requests -> Nat]
  /\ program \in [Requests -> Nat]
  /\ disturbed \subseteq Procs

Init ==
  /\ born = <<0>>
  /\ blank = {}
  /\ there = TRUE
  /\ unseen = 0
  /\ stats = <<[mtime |-> 0, ver |-> 1, open |-> TRUE]>>
  /\ stat = 1
  /\ infos = <<>>
  /\ info = 0
  /\ pc = [p \in Procs |-> "ready"]
  /\ fi = [p \in Procs |-> NoFile]
  /\ got = [p \in Procs |-> 0]
  /\ todo = [u \in Updates |-> 0]
  /\ sncfi = [u \in Updates |-> 0]
  /\ chdst = [u \in Updates |-> 0]
  /\ content = [r \in Requests |-> 0]
  /\ program = [r \in Requests |-> 0]
  /\ disturbed = {}

Goto(p, step) == pc' = [pc EXCEPT ![p] = step]

(* p starts: it and all that are in flight overlap, and so do p and a      *)
(* removal of the file that the watcher has still to report.               *)
Starts(p) ==
  LET others == { q \in Procs : InFlight(q) } IN
  /\ Cardinality({ q \in Procs : pc[q] # "ready" }) < MaxProcs
  /\ disturbed' = IF others = {} /\ unseen = 0
                  THEN disturbed
                  ELSE disturbed \cup others \cup {p}

-----------------------------------------------------------------------------
(* The file is written, put back or removed. *)

Write ==
  /\ Len(born) < MaxVer
  /\ \E m \in {ModTime, ModTime + 1} : born' = Append(born, m)
  /\ blank' \in {blank, blank \cup {Len(born) + 1}}
  /\ there' = TRUE
  /\ UNCHANGED <<unseen, fileVars, infos, info, pc, fi, got, handlerVars,
                 servedVars, disturbed>>

Unlink ==
  /\ there
  /\ Len(born) < MaxVer
  /\ there' = FALSE
  /\ unseen' = unseen + 1
  /\ disturbed' = disturbed \cup { p \in Procs : InFlight(p) }
  /\ UNCHANGED <<born, blank, fileVars, infos, info, pc, fi, got, handlerVars,
                 servedVars>>

-----------------------------------------------------------------------------
(* A request. *)

(* StatContext: the cached FileInfo, which is nil once its cachedstat is   *)
(* closed, else the file on disk, else nothing.                            *)
StatContext(r) ==
  /\ pc[r] = "ready"
  /\ LET found == IF stat # 0 THEN stats[stat].open ELSE there IN
       /\ Goto(r, IF found THEN "get" ELSE "notfound")
       /\ fi' = IF ~found THEN fi ELSE
                [fi EXCEPT ![r] =
                   IF stat # 0 THEN [mtime |-> stats[stat].mtime, src |-> stat]
                               ELSE [mtime |-> ModTime, src |-> 0]]
  /\ Starts(r)
  /\ UNCHANGED <<diskVars, fileVars, infos, info, got, handlerVars, servedVars>>

-----------------------------------------------------------------------------
(* Parse, by a request or by an update. *)

Get(p) ==
  /\ pc[p] = "get"
  /\ got' = [got EXCEPT ![p] = info]
  /\ Goto(p, IF info = 0 THEN "create" ELSE "check")
  /\ UNCHANGED <<diskVars, fileVars, infos, info, fi, handlerVars, servedVars,
                 disturbed>>

(* Seeded fault: the two times are never equal. *)
CurrentNever(i, f) == i = 0 /\ infos[i].mtime = f.mtime

Current(i, f) == infos[i].mtime = f.mtime

(* chdinfo.ModTime().Equal(fi.ModTime()) *)
Check(p) ==
  /\ pc[p] = "check"
  /\ Goto(p, IF ~infos[got[p]].open THEN "panic"
             ELSE IF Current(got[p], fi[p]) THEN "content" ELSE "evict")
  /\ UNCHANGED <<diskVars, fileVars, infos, info, fi, got, handlerVars, servedVars,
                 disturbed>>

(* chdinfos.Delete(chdinfo.Path()): whatever is there by now. *)
Evict(p) ==
  /\ pc[p] = "evict"
  /\ IF infos[got[p]].open THEN Goto(p, "close") /\ info' = 0
                           ELSE Goto(p, "panic") /\ UNCHANGED info
  /\ UNCHANGED <<diskVars, fileVars, infos, fi, got, handlerVars, servedVars,
                 disturbed>>

(* cachedinfo.Close *)
CloseInfo(i) == infos' = [infos EXCEPT ![i].open = FALSE]

Close(p) ==
  /\ pc[p] = "close"
  /\ CloseInfo(got[p])
  /\ Goto(p, "create")
  /\ UNCHANGED <<diskVars, fileVars, info, fi, got, handlerVars, servedVars,
                 disturbed>>

(* fi.Reader(): the buffer of the cachedstat, empty once it is closed, or  *)
(* the file as it is now.                                                  *)
Reader(f) ==
  CASE f.src # 0 -> IF stats[f.src].open THEN stats[f.src].ver ELSE 0
    [] f.src = 0 -> IF there THEN Len(born) ELSE 0

(* Seeded fault: the info gets the time of the file now. *)
NewInfoStampedLate(f) == [mtime |-> ModTime, ver |-> Reader(f), open |-> TRUE]

NewInfo(f) == [mtime |-> f.mtime, ver |-> Reader(f), open |-> TRUE]

(* createcachedfileinfo, up to and including the parse and the compile. *)
Create(p) ==
  /\ pc[p] = "create"
  /\ infos' = Append(infos, NewInfo(fi[p]))
  /\ got' = [got EXCEPT ![p] = Len(infos) + 1]
  /\ Goto(p, "set")
  /\ UNCHANGED <<diskVars, fileVars, info, fi, handlerVars, servedVars, disturbed>>

Set(p) ==
  /\ pc[p] = "set"
  /\ info' = got[p]
  /\ Goto(p, "content")
  /\ UNCHANGED <<diskVars, fileVars, infos, fi, got, handlerVars, servedVars,
                 disturbed>>

(* Prints the content, then runs the program: a request only. *)
Shown(i) == IF infos[i].open THEN infos[i].ver ELSE 0

PrintContent(r) ==
  /\ pc[r] = "content"
  /\ content' = [content EXCEPT ![r] = Shown(got[r])]
  /\ Goto(r, "program")
  /\ UNCHANGED <<diskVars, fileVars, infos, info, fi, got, handlerVars, program,
                 disturbed>>

RunProgram(r) ==
  /\ pc[r] = "program"
  /\ program' = [program EXCEPT ![r] = Shown(got[r])]
  /\ Goto(r, "done")
  /\ UNCHANGED <<diskVars, fileVars, infos, info, fi, got, handlerVars, content,
                 disturbed>>

Parse(p) == Get(p) \/ Check(p) \/ Evict(p) \/ Close(p) \/ Create(p) \/ Set(p)

-----------------------------------------------------------------------------
(* A handler of the watcher. *)

(* evtcreate or evtwrite: syncPath takes the size and the time of the file *)
(* with os.Stat. What evtcreate is told it notifies twice, as created and  *)
(* as amended.                                                             *)
Sync(u) ==
  /\ pc[u] = "ready"
  /\ there
  /\ Goto(u, "find")
  /\ sncfi' = [sncfi EXCEPT ![u] = Len(born)]
  /\ \E n \in 1..2 : todo' = [todo EXCEPT ![u] = n]
  /\ Starts(u)
  /\ UNCHANGED <<diskVars, fileVars, infos, info, fi, got, chdst, servedVars>>

(* The entry of the map: a closed one has no FileInfo, so that ModTime()   *)
(* panics. For one of another time the update is told that it is gone, by  *)
(* evtwrite, or as created and amended, by evtcreate, if the file is empty *)
(* now; otherwise it is replaced.                                          *)
Found(u, entry) ==
  IF entry = 0 THEN IF sncfi[u] \in blank THEN "done" ELSE "load"
  ELSE IF ~stats[entry].open THEN "panic"
  ELSE IF stats[entry].mtime = born[sncfi[u]] THEN "done"
  ELSE IF sncfi[u] \notin blank THEN "swap"
  ELSE IF todo[u] = 2 THEN "get1" ELSE "get2"

StatInfo(entry) == [mtime |-> stats[entry].mtime, src |-> entry]

Find(u) ==
  /\ pc[u] = "find"
  /\ chdst' = [chdst EXCEPT ![u] = stat]
  /\ Goto(u, Found(u, stat))
  /\ fi' = IF Found(u, stat) \in {"get1", "get2"}
           THEN [fi EXCEPT ![u] = StatInfo(stat)] ELSE fi
  /\ UNCHANGED <<diskVars, fileVars, infos, info, got, todo, sncfi,
                 servedVars, disturbed>>

(* chdst.Close(), then delete, of whatever is there by now. *)
Swap(u) ==
  /\ pc[u] = "swap"
  /\ Goto(u, "forget")
  /\ stats' = [stats EXCEPT ![chdst[u]].open = FALSE]
  /\ UNCHANGED <<diskVars, stat, infos, info, fi, got, handlerVars,
                 servedVars, disturbed>>

Forget(u) ==
  /\ pc[u] = "forget"
  /\ Goto(u, IF sncfi[u] \in blank THEN "done" ELSE "load")
  /\ stat' = 0
  /\ UNCHANGED <<diskVars, stats, infos, info, fi, got, handlerVars,
                 servedVars, disturbed>>

(* The file is opened and read as it is by now, *)
LoadStat(u) ==
  /\ pc[u] = "load"
  /\ IF there
       THEN /\ stats' = Append(stats, [mtime |-> born[sncfi[u]],
                                       ver |-> Len(born), open |-> TRUE])
            /\ fi' = [fi EXCEPT ![u] = [mtime |-> born[sncfi[u]],
                                        src |-> Len(stats) + 1]]
            /\ Goto(u, "store")
       ELSE /\ Goto(u, "done")
            /\ UNCHANGED <<stats, fi>>
  /\ UNCHANGED <<diskVars, stat, infos, info, got, handlerVars, servedVars,
                 disturbed>>

(* the cachedstat is put into the map, *)
Store(u) ==
  /\ pc[u] = "store"
  /\ Goto(u, "tell")
  /\ stat' = fi[u].src
  /\ sncfi' = [sncfi EXCEPT ![u] = 0]
  /\ UNCHANGED <<diskVars, stats, infos, info, fi, got, todo, chdst,
                 servedVars, disturbed>>

(* and its FileInfo is notified, which a closed one has not: fi.Active().  *)
Tell(u) ==
  /\ pc[u] = "tell"
  /\ Goto(u, IF stats[fi[u].src].open THEN "get1" ELSE "panic")
  /\ UNCHANGED <<diskVars, fileVars, infos, info, fi, got, handlerVars,
                 servedVars, disturbed>>

(* update, NOTE_CREATE and NOTE_AMMEND *)
GetOld(u) ==
  /\ pc[u] = "get1"
  /\ got' = [got EXCEPT ![u] = info]
  /\ Goto(u, IF info = 0 THEN "get" ELSE "close1")
  /\ UNCHANGED <<diskVars, fileVars, infos, info, fi, handlerVars, servedVars,
                 disturbed>>

CloseOld(u) ==
  /\ pc[u] = "close1"
  /\ CloseInfo(got[u])
  /\ Goto(u, "delete1")
  /\ UNCHANGED <<diskVars, fileVars, info, fi, got, handlerVars, servedVars,
                 disturbed>>

(* Seeded fault: the closed info stays in the map. *)
DeleteOldNot(u) ==
  /\ pc[u] = "delete1"
  /\ Goto(u, "done")
  /\ UNCHANGED <<diskVars, fileVars, infos, info, fi, got, handlerVars, servedVars,
                 disturbed>>

DeleteOld(u) ==
  /\ pc[u] = "delete1"
  /\ info' = 0
  /\ Goto(u, "get")
  /\ UNCHANGED <<diskVars, fileVars, infos, fi, got, handlerVars, servedVars,
                 disturbed>>

(* Parse without a writer and without run ends here; the next notification *)
(* starts over. The cachedstat of a file that is empty now is closed and   *)
(* deleted after them.                                                     *)
Notified(u) ==
  /\ pc[u] = "content"
  /\ todo' = [todo EXCEPT ![u] = @ - 1]
  /\ Goto(u, IF todo[u] > 1 THEN "get1" ELSE IF sncfi[u] # 0 THEN "swap" ELSE "done")
  /\ UNCHANGED <<diskVars, fileVars, infos, info, fi, got, sncfi, chdst,
                 servedVars, disturbed>>

(* evtremove or evtrename: filesys.Remove looks for the cachedstat, *)
Drop(u) ==
  /\ pc[u] = "ready"
  /\ unseen > 0
  /\ unseen' = unseen - 1
  /\ Goto(u, IF stat = 0 THEN "done" ELSE "erase")
  /\ chdst' = [chdst EXCEPT ![u] = stat]
  /\ Starts(u)
  /\ UNCHANGED <<born, blank, there, fileVars, infos, info, fi, got, todo,
                 sncfi, servedVars>>

(* deletes what is there by now, *)
Erase(u) ==
  /\ pc[u] = "erase"
  /\ Goto(u, "gone")
  /\ stat' = 0
  /\ UNCHANGED <<diskVars, stats, infos, info, fi, got, handlerVars,
                 servedVars, disturbed>>

(* and notifies its FileInfo, which a closed one has not: fi.Active().     *)
Gone(u) ==
  /\ pc[u] = "gone"
  /\ IF stats[chdst[u]].open
       THEN Goto(u, "get2") /\ fi' = [fi EXCEPT ![u] = StatInfo(chdst[u])]
       ELSE Goto(u, "panic") /\ UNCHANGED fi
  /\ UNCHANGED <<diskVars, fileVars, infos, info, got, handlerVars,
                 servedVars, disturbed>>

(* Then it closes the cachedstat, as syncPath does for an empty file.      *)
AfterGone(u) == IF sncfi[u] = 0 THEN "shut" ELSE "swap"

(* update, NOTE_REMOVE: the info is deleted, its path is synchronised with *)
(* the templates that include it, and it is closed in the end.             *)
GetGone(u) ==
  /\ pc[u] = "get2"
  /\ got' = [got EXCEPT ![u] = info]
  /\ Goto(u, IF info = 0 THEN AfterGone(u) ELSE "delete2")
  /\ UNCHANGED <<diskVars, fileVars, infos, info, fi, handlerVars, servedVars,
                 disturbed>>

(* Seeded fault: the info of the removed file stays in the map. *)
DeleteGoneNot(u) ==
  /\ pc[u] = "delete2"
  /\ Goto(u, "path2")
  /\ UNCHANGED <<diskVars, fileVars, infos, info, fi, got, handlerVars, servedVars,
                 disturbed>>

DeleteGone(u) ==
  /\ pc[u] = "delete2"
  /\ info' = 0
  /\ Goto(u, "path2")
  /\ UNCHANGED <<diskVars, fileVars, infos, fi, got, handlerVars, servedVars,
                 disturbed>>

PathGone(u) ==
  /\ pc[u] = "path2"
  /\ Goto(u, IF infos[got[u]].open THEN "close2" ELSE "panic")
  /\ UNCHANGED <<diskVars, fileVars, infos, info, fi, got, handlerVars, servedVars,
                 disturbed>>

CloseGone(u) ==
  /\ pc[u] = "close2"
  /\ CloseInfo(got[u])
  /\ Goto(u, AfterGone(u))
  /\ UNCHANGED <<diskVars, fileVars, info, fi, got, handlerVars, servedVars,
                 disturbed>>

Shut(u) ==
  /\ pc[u] = "shut"
  /\ stats' = [stats EXCEPT ![chdst[u]].open = FALSE]
  /\ Goto(u, "done")
  /\ UNCHANGED <<diskVars, stat, infos, info, fi, got, handlerVars, servedVars,
                 disturbed>>

-----------------------------------------------------------------------------
(* The runtime stops a goroutine that comes to the map of cached files     *)
(* while another one is writing it: a look-up (a request, syncPath or      *)
(* Remove) or another write.                                               *)
Writing(u) == pc[u] \in {"erase", "forget", "store"}
LooksUp(p) == pc[p] = "ready" /\ (p \in Requests \/ unseen > 0)

Collide(p) ==
  /\ \E u \in Updates \ {p} : Writing(u)
  /\ \/ LooksUp(p) /\ Starts(p)
     \/ p \in Updates /\ (pc[p] = "find" \/ Writing(p)) /\ UNCHANGED disturbed
  /\ Goto(p, "fatal")
  /\ UNCHANGED <<diskVars, fileVars, infos, info, fi, got, handlerVars, servedVars>>

(* The map holds the files of every path: a request for another path, of   *)
(* which nothing else is modelled, may be the one that comes to it.        *)
CollideElsewhere(u) ==
  /\ Writing(u)
  /\ Goto(u, "fatal")
  /\ UNCHANGED <<diskVars, fileVars, infos, info, fi, got, handlerVars,
                 servedVars, disturbed>>

-----------------------------------------------------------------------------
Request(r) == StatContext(r) \/ Parse(r) \/ PrintContent(r) \/ RunProgram(r)

Update(u) ==
  \/ Sync(u) \/ Find(u) \/ Swap(u) \/ Forget(u)
  \/ LoadStat(u) \/ Store(u) \/ Tell(u)
  \/ GetOld(u) \/ CloseOld(u) \/ DeleteOld(u) \/ Parse(u) \/ Notified(u)
  \/ Drop(u) \/ Erase(u) \/ Gone(u)
  \/ GetGone(u) \/ DeleteGone(u) \/ PathGone(u) \/ CloseGone(u) \/ Shut(u)

Next ==
  /\ ~Crashed
  /\ \/ Write \/ Unlink
     \/ \E r \in Requests : Request(r)
     \/ \E u \in Updates : Update(u) \/ CollideElsewhere(u)
     \/ \E p \in Procs : Collide(p)

Spec == Init /\ [][Next]_vars

-----------------------------------------------------------------------------
(* What the cache promises. *)

(* The map holds a closed info only between the Close and the Delete of    *)
(* update (active.go 556 and 557): every later request finds an open one.  *)
ClosedOnlyInUpdate ==
  (info # 0 /\ ~infos[info].open) =>
    \E u \in Updates : pc[u] = "delete1" /\ got[u] = info

UpdatesMet ==
  \E u, w \in Updates : u # w /\ u \in disturbed /\ w \in disturbed

DistinctTimes == \A v \in 1..(Len(born) - 1) : born[v] # born[v + 1]

(* A request that overlaps neither an update nor another request nor the   *)
(* removal of the file never panics and never runs a program without its   *)
(* content. It is served the content too, unless an empty info passes as   *)
(* current, one parsed from a cachedstat that was closed meanwhile. That   *)
(* takes a file put back with an old modification time, or two updates     *)
(* that were both disturbed.                                               *)
AloneIsServed ==
  \A r \in Requests : r \notin disturbed =>
    /\ pc[r] # "panic"
    /\ pc[r] = "done" => /\ program[r] = content[r]
                         /\ DistinctTimes /\ ~UpdatesMet => content[r] # 0

(* What a request serves is never older than the file was when the request *)
(* looked it up, as far as modification times can tell, whoever made the   *)
(* info it found.                                                          *)
NeverOlderThanStat ==
  \A r \in Requests :
    /\ content[r] # 0 => born[content[r]] >= fi[r].mtime
    /\ program[r] # 0 => born[program[r]] >= fi[r].mtime

(* The program dies only after the file was written or removed, and only   *)
(* when somebody overlapped somebody. The goroutine of the watcher, which  *)
(* nothing recovers, panics when another update overlapped it, or a        *)
(* request that had seen the file at another modification time closed the  *)
(* info under it. The map of cached files is fatal to a request, also one  *)
(* that agrees on the time, only beside an update that stands at a write   *)
(* of it. (An update at a write can meet a request for another path, too:  *)
(* of its fatal errors nothing more is said than that the file changed.)   *)
CrashNeedsRival ==
  /\ Crashed => Len(born) > 1 \/ ~there
  /\ \A u \in Updates : pc[u] = "panic" =>
       /\ u \in disturbed
       /\ \/ \E p \in Updates \ {u} : p \in disturbed
          \/ \E r \in Requests : /\ pc[r] \notin {"ready", "notfound", "fatal"}
                                 /\ fi[r].mtime # infos[got[u]].mtime
  /\ \A r \in Requests : pc[r] = "fatal" =>
       r \in disturbed /\ \E u \in Updates : u \in disturbed /\ Writing(u)
=============================================================================
