------------------------ MODULE ActiveCacheProofs -------------------------
(***************************************************************************)
(* Proofs about ActiveCache for any number of requests, updates, versions  *)
(* and calls: the map never keeps a closed info, a request never serves    *)
(* what is older than the file it has looked up, the program goes down     *)
(* only with a rival, and a request that nobody disturbs is served.        *)
(***************************************************************************)
EXTENDS ActiveCache, TLAPS

(* The steps at which a call holds an info, those of a removal, those of   *)
(* a notification of any kind, and those of syncPath up to the store.      *)
Holding == {"check", "evict", "close", "set", "content", "program", "close1",
            "delete1", "delete2", "path2", "close2"}
Removing == {"get2", "delete2", "path2", "close2"}
Amending == {"get1", "close1", "delete1", "get", "check", "evict", "close",
             "create", "set", "content"}
Pending == {"find", "swap", "forget", "load", "store"}

(* What a call holds and where it stands: requests and updates share the   *)
(* steps of Parse, and a step that works on an info has one.               *)
PlaceInv ==
  /\ \A r \in Requests :
       pc[r] \in {"ready", "get", "check", "evict", "close", "create", "set",
                  "content", "program", "done", "notfound", "panic", "fatal"}
  /\ \A u \in Updates : pc[u] \notin {"program", "notfound"}
  /\ \A p \in Procs : pc[p] \in Holding => got[p] # 0

(* An update knows the version it has seen until the store, has a          *)
(* notification to deliver unless the file is empty, and a step that works *)
(* on a cachedstat has one.                                                *)
Placed(u) ==
  /\ pc[u] \in Pending => sncfi[u] # 0
  /\ pc[u] \in {"ready", "tell", "erase", "gone", "shut"} => sncfi[u] = 0
  /\ pc[u] \in {"find", "load", "store", "tell"} \cup Amending => todo[u] # 0
  /\ pc[u] \in {"swap", "forget"} => todo[u] # 0 \/ sncfi[u] \in blank
  /\ pc[u] \in Amending \cup Removing /\ sncfi[u] # 0 =>
       sncfi[u] \in blank /\ chdst[u] # 0
  /\ pc[u] \in {"swap", "forget", "erase", "gone", "shut"} \cup Removing => chdst[u] # 0
  /\ pc[u] \in {"store", "tell"} => fi[u].src # 0

HandlerInv == \A u \in Updates : Placed(u)

(* Two calls in flight at once have disturbed each other, and a removal    *)
(* that was not reported yet disturbs all that are in flight.              *)
OverlapInv ==
  \A p \in Procs : InFlight(p) =>
    /\ unseen > 0 => p \in disturbed
    /\ \A q \in Procs : InFlight(q) /\ p # q => p \in disturbed

(* An info is held by nobody but its maker until it is in the map, and it  *)
(* does not come back after it was taken out.                              *)
OwnInv ==
  \A p \in Procs :
    /\ pc[p] = "set" => /\ infos[got[p]].open
                        /\ info # got[p]
                        /\ \A q \in Procs : q # p => got[q] # got[p]
    /\ pc[p] \in {"close", "path2", "close2"} => info # got[p]

(* The times of the versions do not go back, a cachedstat holds a version  *)
(* of its time or a later one, a FileInfo has the time of its cachedstat,  *)
(* and an info was parsed from a version of its time or a later one.       *)
BornInv == \A v, w \in 1..Len(born) : v <= w => born[v] <= born[w]

StatInv ==
  \A s \in 1..Len(stats) : /\ stats[s].ver \in 1..Len(born)
                           /\ stats[s].mtime <= born[stats[s].ver]

FileInv ==
  \A p \in Procs : /\ fi[p].mtime <= ModTime
                   /\ fi[p].src # 0 => /\ fi[p].src \in 1..Len(stats)
                                       /\ fi[p].mtime = stats[fi[p].src].mtime

InfoInv ==
  \A i \in 1..Len(infos) : infos[i].ver # 0 =>
    infos[i].ver \in 1..Len(born) /\ born[infos[i].ver] >= infos[i].mtime

TimeInv == BornInv /\ StatInv /\ FileInv /\ InfoInv

(* The info that a request serves has the time of its FileInfo, and one    *)
(* that it evicts has another.                                             *)
CurrentInv ==
  \A p \in Procs :
    /\ pc[p] \in {"set", "content", "program"} => infos[got[p]].mtime = fi[p].mtime
    /\ pc[p] \in {"evict", "close"} => infos[got[p]].mtime # fi[p].mtime

(* What a request has served has the time of its FileInfo, or a later one. *)
ServeInv ==
  \A r \in Requests :
    /\ pc[r] = "ready" => content[r] = 0 /\ program[r] = 0
    /\ content[r] # 0 => content[r] \in 1..Len(born) /\ born[content[r]] >= fi[r].mtime
    /\ program[r] # 0 => program[r] \in 1..Len(born) /\ born[program[r]] >= fi[r].mtime

(* A cachedstat that is about to be stored is open and nobody else's.      *)
NewInv ==
  \A u \in Updates : pc[u] = "store" =>
    /\ stats[fi[u].src].open
    /\ stat # fi[u].src
    /\ \A w \in Updates : chdst[w] # fi[u].src
    /\ \A w \in Updates \ {u} : pc[w] = "store" => fi[w].src # fi[u].src

(* A closed one is in the map only until the update that closed it deletes *)
(* it, and one that was deleted does not come back.                        *)
MapInv ==
  ~Crashed =>
    /\ stat # 0 /\ ~stats[stat].open =>
         \E w \in Updates : pc[w] = "forget" /\ chdst[w] = stat
    /\ \A u \in Updates : pc[u] \in {"gone", "shut"} \cup Removing /\ sncfi[u] = 0 =>
         chdst[u] # stat

(* Two updates have overlapped. *)
Met(u) == u \in disturbed /\ \E w \in Updates \ {u} : w \in disturbed

(* An update whose cachedstat was closed under it has met another one. *)
ShutInv ==
  \A u \in Updates :
    /\ pc[u] = "tell" /\ ~stats[fi[u].src].open => Met(u)
    /\ pc[u] \in {"erase", "gone"} /\ ~stats[chdst[u]].open => Met(u)

(* Somebody whose overlap with u explains that u holds a closed info. *)
Rival(u) ==
  /\ u \in disturbed
  /\ \/ \E p \in Updates \ {u} : p \in disturbed
     \/ \E r \in Requests : /\ pc[r] \notin {"ready", "notfound", "fatal"}
                            /\ fi[r].mtime # infos[got[u]].mtime

RivalInv ==
  \A u \in Updates :
    \/ pc[u] \in {"check", "evict", "delete2", "path2"} /\ ~infos[got[u]].open
    \/ pc[u] = "panic"
    => Rival(u)

(* A request that the map of cached files was fatal to met the writer.     *)
FatalInv ==
  \A r \in Requests : pc[r] = "fatal" =>
    r \in disturbed /\ \E u \in Updates : u \in disturbed /\ Writing(u)

(* Before the file is written or removed an update has nothing to do.      *)
UntouchedInv ==
  Len(born) = 1 /\ there =>
    /\ unseen = 0 /\ stat = 1 /\ stats[1].open /\ stats[1].mtime = born[1]
    /\ \A u \in Updates : pc[u] \in {"ready", "find", "done"}

(* What a request that nobody disturbs holds is open. *)
AloneInv ==
  \A r \in Requests \ disturbed :
    /\ pc[r] # "panic"
    /\ pc[r] \in {"check", "evict", "content", "program"} => infos[got[r]].open
    /\ pc[r] = "program" => content[r] = infos[got[r]].ver
    /\ pc[r] = "done" => program[r] = content[r]

(* No request that starts now is undisturbed: a removal is not reported    *)
(* yet, or not carried out.                                                *)
Hidden == unseen > 0 \/ \E u \in Updates : pc[u] = "erase"

(* An update that works for a version it has seen. *)
Seeing(u) ==
  pc[u] \in Pending \/ (pc[u] \in Amending \cup Removing /\ sncfi[u] # 0)

(* No FileInfo that an undisturbed request can get has the time m. *)
Dead(m) ==
  /\ m < ModTime \/ (~there /\ m <= ModTime)
  /\ stat # 0 => \/ stats[stat].mtime # m
                 \/ ~stats[stat].open
                 \/ Hidden
  /\ \A u \in Updates : Seeing(u) => born[sncfi[u]] # m \/ unseen > 0

Calm == DistinctTimes /\ ~UpdatesMet

(* An update whose cachedstat is older than the version it has seen.       *)
Replaces(u) ==
  pc[u] \in {"swap", "forget"} \/ (pc[u] \in Amending \cup Removing /\ sncfi[u] # 0)

(* In a calm behaviour an update is alone with the map of cached files: a  *)
(* removed file is not in the map, and a cachedstat is closed after the    *)
(* file has moved on.                                                      *)
SwapInv ==
  ~Crashed /\ Calm =>
    /\ ~there /\ stat # 0 => Hidden
    /\ \A u \in Updates :
         /\ Seeing(u) /\ ~there => unseen > 0
         /\ pc[u] = "store" => fi[u].mtime = born[sncfi[u]]
         /\ pc[u] = "find" /\ stat # 0 => stats[stat].mtime <= born[sncfi[u]]
         /\ Replaces(u) => stat = chdst[u] /\ stats[stat].mtime < born[sncfi[u]]
    /\ unseen > 0 /\ stat # 0 /\ there /\ stats[stat].mtime = ModTime =>
         \E w \in Updates : w \in disturbed /\ pc[w] # "ready"

(* The cachedstat of a file that is gone. *)
Dropping(u) ==
  pc[u] \in {"erase", "gone", "shut"} \/ (pc[u] \in Removing /\ sncfi[u] = 0)

(* So an empty info has a time that is over. *)
EmptyInv ==
  ~Crashed /\ Calm =>
    /\ \A s \in 1..Len(stats) : ~stats[s].open => Dead(stats[s].mtime)
    /\ \A u \in Updates : Dropping(u) => Dead(stats[chdst[u]].mtime)
    /\ \A i \in 1..Len(infos) : infos[i].ver = 0 => Dead(infos[i].mtime)

(* An undisturbed request can still read its file, finds no empty info of  *)
(* its time, and is served.                                                *)
ServedInv ==
  \A r \in Requests \ disturbed :
    /\ InFlight(r) => /\ fi[r].src = 0 => there
                      /\ fi[r].src # 0 => stats[fi[r].src].open
    /\ Calm /\ InFlight(r) =>
         \A i \in 1..Len(infos) : infos[i].ver = 0 => infos[i].mtime # fi[r].mtime
    /\ Calm /\ pc[r] \in {"program", "done"} => content[r] # 0
---------------------------------------------------------------------------
(* The steps of an update that work on the map of cached files, and the    *)
(* end of a call that comes to that map in the middle of a write.          *)
SyncSteps == {"find", "swap", "forget", "load", "store", "tell", "erase", "gone", "shut"}

Syncing(u) ==
  \/ Sync(u) \/ Find(u) \/ Swap(u) \/ Forget(u) \/ LoadStat(u) \/ Store(u)
  \/ Tell(u) \/ Drop(u) \/ Erase(u) \/ Gone(u) \/ Shut(u)

Fatal(p) == Collide(p) \/ (p \in Updates /\ CollideElsewhere(p))

(* The actions one by one, a step of Parse for requests and updates alike. *)
Case ==
  \/ Write \/ Unlink
  \/ \E r \in Requests : StatContext(r) \/ PrintContent(r) \/ RunProgram(r)
  \/ \E p \in Procs : \/ Get(p) \/ Check(p) \/ Evict(p)
                      \/ Close(p) \/ Create(p) \/ Set(p)
  \/ \E u \in Updates : \/ Syncing(u) \/ GetOld(u) \/ CloseOld(u) \/ DeleteOld(u)
                        \/ Notified(u) \/ GetGone(u) \/ DeleteGone(u)
                        \/ PathGone(u) \/ CloseGone(u)
  \/ \E p \in Procs : Fatal(p)

(* A step of the specification is one of these. *)
LEMMA NextCases ==
  ASSUME [Next]_vars
  PROVE  Case \/ UNCHANGED vars
<1>1. ASSUME NEW p \in Procs, Parse(p)
      PROVE  Case
  BY <1>1 DEF Parse, Case
<1>2. ASSUME NEW r \in Requests, Request(r)
      PROVE  Case
  <2>1. CASE Parse(r)
    BY <1>1, <2>1 DEF Procs
  <2> QED
    BY <1>2, <2>1 DEF Request, Case
<1>3. ASSUME NEW u \in Updates, Update(u)
      PROVE  Case
  <2>1. CASE Parse(u)
    BY <1>1, <2>1 DEF Procs
  <2> QED
    BY <1>3, <2>1 DEF Update, Case, Syncing
<1>4. ASSUME NEW u \in Updates, CollideElsewhere(u)
      PROVE  Case
  BY <1>4 DEF Case, Fatal, Procs
<1>5. ASSUME NEW p \in Procs, Collide(p)
      PROVE  Case
  BY <1>5 DEF Case, Fatal
<1> QED
  BY <1>2, <1>3, <1>4, <1>5 DEF Next, Case

(* A record of the cache keeps its time and version, and stays closed.     *)
Keeps(old, new) ==
  /\ Len(old) <= Len(new)
  /\ \A i \in 1..Len(old) : /\ new[i].mtime = old[i].mtime
                            /\ new[i].ver = old[i].ver
                            /\ new[i].open => old[i].open

(* Closing a record of a sequence leaves the rest as it is. *)
LEMMA CloseFacts ==
  ASSUME NEW s \in Seq(Cached), NEW i \in 1..Len(s)
  PROVE  /\ [s EXCEPT ![i].open = FALSE] \in Seq(Cached)
         /\ Len([s EXCEPT ![i].open = FALSE]) = Len(s)
         /\ ~[s EXCEPT ![i].open = FALSE][i].open
         /\ \A j \in 1..Len(s) : j # i => [s EXCEPT ![i].open = FALSE][j] = s[j]
         /\ Keeps(s, [s EXCEPT ![i].open = FALSE])
<1>1. s[i] \in Cached
  OBVIOUS
<1>2. /\ [s[i] EXCEPT !.open = FALSE] \in Cached
      /\ [s[i] EXCEPT !.open = FALSE].mtime = s[i].mtime
      /\ [s[i] EXCEPT !.open = FALSE].ver = s[i].ver
      /\ ~[s[i] EXCEPT !.open = FALSE].open
  BY <1>1 DEF Cached
<1> DEFINE c == [s[i] EXCEPT !.open = FALSE]
           t == [s EXCEPT ![i] = c]
<1>3. [s EXCEPT ![i].open = FALSE] = t
  OBVIOUS
<1>4. c \in Cached /\ c.mtime = s[i].mtime /\ c.ver = s[i].ver /\ ~c.open
  BY <1>2
<1> HIDE DEF c
<1>5. t \in Seq(Cached) /\ Len(t) = Len(s) /\ t[i] = c
      /\ \A j \in 1..Len(s) : j # i => t[j] = s[j]
  BY <1>4
<1> HIDE DEF t
<1>6. ~t[i].open /\ Keeps(s, t)
  BY <1>4, <1>5 DEF Keeps
<1> QED
  BY <1>3, <1>5, <1>6

(* So does appending one. *)
LEMMA AppendFacts ==
  ASSUME NEW s \in Seq(Cached), NEW c \in Cached
  PROVE  /\ Append(s, c) \in Seq(Cached)
         /\ Len(Append(s, c)) = Len(s) + 1
         /\ Append(s, c)[Len(s) + 1] = c
         /\ \A j \in 1..Len(s) : Append(s, c)[j] = s[j]
         /\ Keeps(s, Append(s, c))
BY DEF Keeps

(* The fields of the records. *)
LEMMA FieldFacts ==
  ASSUME TypeOK
  PROVE  /\ \A s \in 1..Len(stats) : /\ stats[s].mtime \in Nat
                                     /\ stats[s].ver \in Nat
                                     /\ stats[s].open \in BOOLEAN
         /\ \A i \in 1..Len(infos) : /\ infos[i].mtime \in Nat
                                     /\ infos[i].ver \in Nat
                                     /\ infos[i].open \in BOOLEAN
         /\ \A p \in Procs : fi[p].mtime \in Nat /\ fi[p].src \in Nat
         /\ stat \in Nat /\ (stat # 0 => stat \in 1..Len(stats))
         /\ info \in Nat /\ (info # 0 => info \in 1..Len(infos))
         /\ \A p \in Procs : got[p] \in Nat /\ (got[p] # 0 => got[p] \in 1..Len(infos))
<1>1. \A s \in 1..Len(stats) : stats[s] \in Cached
  BY DEF TypeOK
<1>2. \A i \in 1..Len(infos) : infos[i] \in Cached
  BY DEF TypeOK
<1>3. \A p \in Procs : fi[p] \in FileInfo
  BY DEF TypeOK
<1>4. /\ stat \in Nat /\ (stat # 0 => stat \in 1..Len(stats))
      /\ info \in Nat /\ (info # 0 => info \in 1..Len(infos))
      /\ \A p \in Procs : got[p] \in Nat /\ (got[p] # 0 => got[p] \in 1..Len(infos))
  BY DEF TypeOK
<1> QED
  BY <1>1, <1>2, <1>3, <1>4 DEF Cached, FileInfo

LEMMA HandlerFacts ==
  ASSUME TypeOK, NEW u \in Updates
  PROVE  /\ sncfi[u] \in Nat /\ (sncfi[u] # 0 => sncfi[u] \in 1..Len(born))
         /\ chdst[u] \in Nat /\ (chdst[u] # 0 => chdst[u] \in 1..Len(stats))
         /\ todo[u] \in 0..2
BY DEF TypeOK

(* Sequences and their lengths. *)
LEMMA SeqFacts ==
  ASSUME TypeOK
  PROVE  /\ Len(stats) \in Nat /\ Len(infos) \in Nat
         /\ Len(born) \in Nat /\ Len(born) >= 1 /\ ModTime = born[Len(born)]
         /\ \A v \in 1..Len(born) : born[v] \in Nat
         /\ ModTime \in Nat
<1>1. /\ Len(stats) \in Nat /\ Len(infos) \in Nat /\ Len(born) \in Nat
      /\ Len(born) >= 1
      /\ \A v \in 1..Len(born) : born[v] \in Nat
  BY DEF TypeOK
<1> QED
  BY <1>1 DEF ModTime

(* A cachedstat has a time that the file has had. *)
LEMMA StatTimes ==
  ASSUME TypeOK, TimeInv
  PROVE  /\ \A v \in 1..Len(born) : born[v] <= ModTime
         /\ \A s \in 1..Len(stats) : stats[s].mtime <= ModTime
         /\ stat # 0 => /\ stat \in 1..Len(stats)
                        /\ stats[stat].mtime \in Nat /\ stats[stat].mtime <= ModTime
<1>1. \A v \in 1..Len(born) : born[v] <= ModTime
  BY SeqFacts DEF TimeInv, BornInv
<1>2. \A s \in 1..Len(stats) : stats[s].mtime <= ModTime
  <2> SUFFICES ASSUME NEW s \in 1..Len(stats)
               PROVE  stats[s].mtime <= ModTime
    OBVIOUS
  <2>1. /\ stats[s].ver \in 1..Len(born) /\ stats[s].mtime <= born[stats[s].ver]
        /\ stats[s].mtime \in Nat
    BY FieldFacts DEF TimeInv, StatInv
  <2>2. born[stats[s].ver] \in Nat /\ born[stats[s].ver] <= ModTime
    BY <1>1, <2>1, SeqFacts
  <2> QED
    BY <2>1, <2>2, SeqFacts
<1> QED
  BY <1>1, <1>2, FieldFacts

(* What a reader of a FileInfo reads is a version of the file, or nothing. *)
LEMMA ReaderFacts ==
  ASSUME TypeOK, TimeInv, NEW p \in Procs
  PROVE  /\ Reader(fi[p]) \in Nat
         /\ NewInfo(fi[p]) \in Cached
         /\ NewInfo(fi[p]).mtime = fi[p].mtime
         /\ NewInfo(fi[p]).ver = Reader(fi[p])
         /\ NewInfo(fi[p]).open
         /\ Reader(fi[p]) # 0 => /\ Reader(fi[p]) \in 1..Len(born)
                                 /\ born[Reader(fi[p])] >= fi[p].mtime
         /\ Reader(fi[p]) = 0 => \/ fi[p].src # 0 /\ ~stats[fi[p].src].open
                                 \/ fi[p].src = 0 /\ ~there
<1>1. fi[p] \in FileInfo /\ fi[p].src \in Nat /\ fi[p].mtime \in Nat
  BY DEF TypeOK, FileInfo
<1>2. CASE fi[p].src # 0
  <2>1. fi[p].src \in 1..Len(stats) /\ fi[p].mtime = stats[fi[p].src].mtime
    BY <1>2 DEF TimeInv, StatInv, FileInv, TypeOK
  <2>3. Reader(fi[p]) = IF stats[fi[p].src].open THEN stats[fi[p].src].ver ELSE 0
    BY <1>2 DEF Reader
  <2>4. stats[fi[p].src].ver \in 1..Len(born) /\ stats[fi[p].src].ver # 0
        /\ born[stats[fi[p].src].ver] >= fi[p].mtime
    BY <2>1, SeqFacts DEF TimeInv, StatInv
  <2>5. /\ Reader(fi[p]) \in Nat
        /\ Reader(fi[p]) # 0 => /\ Reader(fi[p]) \in 1..Len(born)
                                /\ born[Reader(fi[p])] >= fi[p].mtime
        /\ Reader(fi[p]) = 0 => ~stats[fi[p].src].open
    BY <1>1, <2>3, <2>4, SeqFacts
  <2> QED
    BY <1>1, <1>2, <2>5 DEF NewInfo, Cached
<1>3. CASE fi[p].src = 0
  <2>1. Reader(fi[p]) = IF there THEN Len(born) ELSE 0
    BY <1>3 DEF Reader
  <2>2. Len(born) \in 1..Len(born) /\ Len(born) # 0 /\ born[Len(born)] >= fi[p].mtime
    BY <1>1 DEF TimeInv, StatInv, FileInv, TypeOK, ModTime
  <2>3. /\ Reader(fi[p]) \in Nat
        /\ Reader(fi[p]) # 0 => /\ Reader(fi[p]) \in 1..Len(born)
                                /\ born[Reader(fi[p])] >= fi[p].mtime
        /\ Reader(fi[p]) = 0 => ~there
    BY <2>1, <2>2 DEF TypeOK
  <2> QED
    BY <1>1, <1>3, <2>3 DEF NewInfo, Cached
<1> QED
  BY <1>2, <1>3

(* Closing the cachedstat that an update has found. *)
LEMMA ShutFacts ==
  ASSUME TypeOK, HandlerInv, NEW u \in Updates, Swap(u) \/ Shut(u)
  PROVE  /\ chdst[u] \in 1..Len(stats)
         /\ stats' \in Seq(Cached) /\ Len(stats') = Len(stats)
         /\ Keeps(stats, stats')
         /\ ~stats'[chdst[u]].open
         /\ \A s \in 1..Len(stats) : s # chdst[u] => stats'[s] = stats[s]
<1>0. Placed(u) /\ pc[u] \in {"swap", "shut"}
  BY DEF HandlerInv, Swap, Shut
<1>1. chdst[u] \in 1..Len(stats)
  <2>1. chdst[u] # 0
    BY <1>0 DEF Placed
  <2> QED
    BY <2>1, HandlerFacts
<1>2. stats \in Seq(Cached) /\ stats' = [stats EXCEPT ![chdst[u]].open = FALSE]
  BY DEF Swap, Shut, TypeOK
<1> QED
  BY <1>1, <1>2, CloseFacts

(* The cachedstat that is loaded has the time that the update has seen,    *)
(* and holds the file as it is.                                            *)
Loaded(u) == [mtime |-> born[sncfi[u]], ver |-> Len(born), open |-> TRUE]

LEMMA LoadFacts ==
  ASSUME TypeOK, HandlerInv, NEW u \in Updates, LoadStat(u)
  PROVE  /\ pc[u] = "load" /\ todo[u] # 0
         /\ sncfi[u] \in 1..Len(born) /\ born[sncfi[u]] \in Nat
         /\ there => /\ stats' \in Seq(Cached) /\ Len(stats') = Len(stats) + 1
                     /\ stats'[Len(stats) + 1].mtime = born[sncfi[u]]
                     /\ stats'[Len(stats) + 1].ver = Len(born)
                     /\ stats'[Len(stats) + 1].open
                     /\ \A s \in 1..Len(stats) : stats'[s] = stats[s]
                     /\ fi' = [fi EXCEPT ![u] = [mtime |-> born[sncfi[u]],
                                                 src |-> Len(stats) + 1]]
                     /\ pc' = [pc EXCEPT ![u] = "store"]
         /\ ~there => /\ UNCHANGED <<stats, fi>>
                      /\ pc' = [pc EXCEPT ![u] = "done"]
         /\ stats' \in Seq(Cached) /\ Keeps(stats, stats')
         /\ \A q \in Procs : q # u => fi'[q] = fi[q]
         /\ UNCHANGED <<diskVars, stat, infos, info, got, handlerVars, servedVars,
                        disturbed>>
<1>0. Placed(u) /\ pc[u] = "load"
  BY DEF HandlerInv, LoadStat
<1>1. pc[u] = "load" /\ sncfi[u] \in 1..Len(born) /\ todo[u] # 0
  <2>1. sncfi[u] # 0 /\ todo[u] # 0
    BY <1>0 DEF Placed, Pending
  <2> QED
    BY <1>0, <2>1, HandlerFacts
<1>2. born[sncfi[u]] \in Nat /\ Len(born) \in Nat /\ stats \in Seq(Cached)
  BY <1>1, SeqFacts DEF TypeOK
<1>3. /\ Loaded(u) \in Cached
      /\ Loaded(u).mtime = born[sncfi[u]] /\ Loaded(u).ver = Len(born) /\ Loaded(u).open
  BY <1>2 DEF Loaded, Cached
<1>4. there => /\ stats' = Append(stats, Loaded(u))
               /\ fi' = [fi EXCEPT ![u] = [mtime |-> born[sncfi[u]],
                                           src |-> Len(stats) + 1]]
               /\ pc' = [pc EXCEPT ![u] = "store"]
  BY DEF LoadStat, Goto, Loaded
<1>5. ~there => UNCHANGED <<stats, fi>> /\ pc' = [pc EXCEPT ![u] = "done"]
  BY DEF LoadStat, Goto
<1>6. Keeps(stats, stats)
  BY <1>2 DEF Keeps
<1>7. there => /\ stats' \in Seq(Cached) /\ Len(stats') = Len(stats) + 1
               /\ stats'[Len(stats) + 1] = Loaded(u)
               /\ \A s \in 1..Len(stats) : stats'[s] = stats[s]
               /\ Keeps(stats, stats')
  <2>1. ASSUME there
        PROVE  stats' = Append(stats, Loaded(u)) /\ Loaded(u) \in Cached /\ stats \in Seq(Cached)
    BY <1>2, <1>3, <1>4, <2>1
  <2>2. ASSUME NEW c \in Cached, stats' = Append(stats, c), stats \in Seq(Cached)
        PROVE  /\ stats' \in Seq(Cached) /\ Len(stats') = Len(stats) + 1
               /\ stats'[Len(stats) + 1] = c
               /\ \A s \in 1..Len(stats) : stats'[s] = stats[s]
               /\ Keeps(stats, stats')
    BY <2>2, AppendFacts
  <2> QED
    BY <2>1, <2>2
<1>8. \A q \in Procs : q # u => fi'[q] = fi[q]
  BY <1>4, <1>5 DEF TypeOK
<1>9. UNCHANGED <<diskVars, stat, infos, info, got, handlerVars, servedVars, disturbed>>
  BY DEF LoadStat
<1>10. /\ stats' \in Seq(Cached) /\ Keeps(stats, stats')
  BY <1>2, <1>5, <1>6, <1>7
<1> QED
  BY <1>1, <1>2, <1>3, <1>4, <1>5, <1>7, <1>8, <1>9, <1>10

(* What an update finds in the map. *)
LEMMA FoundFacts ==
  ASSUME TypeOK, HandlerInv, NEW u \in Updates, Find(u)
  PROVE  /\ pc[u] = "find" /\ todo[u] # 0 /\ sncfi[u] \in 1..Len(born)
         /\ pc' = [pc EXCEPT ![u] = Found(u, stat)]
         /\ chdst' = [chdst EXCEPT ![u] = stat]
         /\ Found(u, stat) \in {"done", "load", "panic", "swap", "get1", "get2"}
         /\ Found(u, stat) \in {"get1", "get2"} => sncfi[u] \in blank
         /\ Found(u, stat) \in {"swap", "get1", "get2"} =>
              /\ stat \in 1..Len(stats) /\ stats[stat].open
              /\ stats[stat].mtime # born[sncfi[u]]
         /\ Found(u, stat) = "panic" => stat \in 1..Len(stats) /\ ~stats[stat].open
         /\ Found(u, stat) \in {"load"} => stat = 0
         /\ Found(u, stat) = "get1" => todo[u] = 2
         /\ Found(u, stat) \in {"get1", "get2"} =>
              fi' = [fi EXCEPT ![u] = [mtime |-> stats[stat].mtime, src |-> stat]]
         /\ Found(u, stat) \notin {"get1", "get2"} => fi' = fi
         /\ \A q \in Procs : q # u => fi'[q] = fi[q]
         /\ UNCHANGED <<diskVars, fileVars, infos, info, got, todo, sncfi,
                        servedVars, disturbed>>
<1>0. Placed(u) /\ pc[u] = "find"
  BY DEF HandlerInv, Find
<1>1. pc[u] = "find" /\ sncfi[u] \in 1..Len(born) /\ todo[u] # 0
  <2>1. sncfi[u] # 0 /\ todo[u] # 0
    BY <1>0 DEF Placed, Pending
  <2> QED
    BY <1>0, <2>1, HandlerFacts
<1>2. stat # 0 => stat \in 1..Len(stats)
  BY FieldFacts
<1>3. /\ Found(u, stat) \in {"done", "load", "panic", "swap", "get1", "get2"}
      /\ Found(u, stat) \in {"get1", "get2"} => sncfi[u] \in blank
      /\ Found(u, stat) \in {"swap", "get1", "get2"} =>
           stat # 0 /\ stats[stat].open /\ stats[stat].mtime # born[sncfi[u]]
      /\ Found(u, stat) = "panic" => stat # 0 /\ ~stats[stat].open
      /\ Found(u, stat) \in {"load"} => stat = 0
      /\ Found(u, stat) = "get1" => todo[u] = 2
  BY DEF Found
<1>4. /\ Found(u, stat) \in {"get1", "get2"} =>
           fi' = [fi EXCEPT ![u] = [mtime |-> stats[stat].mtime, src |-> stat]]
      /\ Found(u, stat) \notin {"get1", "get2"} => fi' = fi
  BY DEF Find, StatInfo
<1>5. \A q \in Procs : q # u => fi'[q] = fi[q]
  BY <1>4 DEF TypeOK
<1>6. /\ pc' = [pc EXCEPT ![u] = Found(u, stat)]
      /\ chdst' = [chdst EXCEPT ![u] = stat]
      /\ UNCHANGED <<diskVars, fileVars, infos, info, got, todo, sncfi,
                     servedVars, disturbed>>
  BY DEF Find, Goto
<1> QED
  BY <1>1, <1>2, <1>3, <1>4, <1>5, <1>6

(* What it does with the cachedstat of a file that is gone. *)
LEMMA GoneFacts ==
  ASSUME TypeOK, HandlerInv, NEW u \in Updates, Gone(u)
  PROVE  /\ pc[u] = "gone" /\ chdst[u] \in 1..Len(stats) /\ sncfi[u] = 0
         /\ \/ /\ stats[chdst[u]].open
               /\ pc' = [pc EXCEPT ![u] = "get2"]
               /\ fi' = [fi EXCEPT ![u] = [mtime |-> stats[chdst[u]].mtime,
                                           src |-> chdst[u]]]
            \/ /\ ~stats[chdst[u]].open
               /\ pc' = [pc EXCEPT ![u] = "panic"]
               /\ fi' = fi
         /\ \A q \in Procs : q # u => fi'[q] = fi[q]
         /\ UNCHANGED <<diskVars, fileVars, infos, info, got, handlerVars,
                        servedVars, disturbed>>
<1>0. Placed(u) /\ pc[u] = "gone"
  BY DEF HandlerInv, Gone
<1>1. pc[u] = "gone" /\ chdst[u] \in 1..Len(stats) /\ sncfi[u] = 0
  <2>1. chdst[u] # 0 /\ sncfi[u] = 0
    BY <1>0 DEF Placed
  <2> QED
    BY <1>0, <2>1, HandlerFacts
<1>2. \/ /\ stats[chdst[u]].open
         /\ pc' = [pc EXCEPT ![u] = "get2"]
         /\ fi' = [fi EXCEPT ![u] = [mtime |-> stats[chdst[u]].mtime, src |-> chdst[u]]]
      \/ /\ ~stats[chdst[u]].open
         /\ pc' = [pc EXCEPT ![u] = "panic"]
         /\ fi' = fi
  BY DEF Gone, Goto, StatInfo
<1>3. \A q \in Procs : q # u => fi'[q] = fi[q]
  BY <1>2 DEF TypeOK
<1>4. UNCHANGED <<diskVars, fileVars, infos, info, got, handlerVars, servedVars, disturbed>>
  BY DEF Gone
<1> QED
  BY <1>1, <1>2, <1>3, <1>4

(* A step of an update on the map of cached files leaves the infos alone,  *)
(* and the other calls.                                                    *)
LEMMA SyncingFacts ==
  ASSUME TypeOK, HandlerInv, NEW u \in Updates, Syncing(u)
  PROVE  /\ u \in Procs
         /\ pc[u] \in SyncSteps \cup {"ready"}
         /\ \E s \in SyncSteps \cup {"done", "panic", "get1", "get2"} :
              pc' = [pc EXCEPT ![u] = s]
         /\ \A q \in Procs : q # u => pc'[q] = pc[q] /\ fi'[q] = fi[q]
         /\ UNCHANGED <<born, blank, there, infos, info, got, content, program>>
         /\ \A w \in Updates : w # u => /\ todo'[w] = todo[w] /\ sncfi'[w] = sncfi[w]
                                        /\ chdst'[w] = chdst[w]
         /\ \/ pc[u] = "ready" /\ Starts(u) /\ (unseen' > 0 => unseen > 0)
            \/ pc[u] # "ready" /\ UNCHANGED <<disturbed, unseen>>
<1>0. /\ u \in Procs /\ fi \in [Procs -> FileInfo] /\ pc \in [Procs -> Steps]
      /\ sncfi \in [Updates -> 0..Len(born)] /\ chdst \in [Updates -> 0..Len(stats)]
      /\ todo \in [Updates -> 0..2] /\ unseen \in Nat
  BY DEF TypeOK, Procs
<1>1. CASE Sync(u)
  BY <1>0, <1>1 DEF Sync, Goto, diskVars, servedVars, SyncSteps
<1>2. CASE Find(u)
  BY <1>0, <1>2, FoundFacts DEF diskVars, servedVars, SyncSteps
<1>3. CASE Swap(u)
  BY <1>0, <1>3 DEF Swap, Goto, diskVars, handlerVars, servedVars, SyncSteps
<1>4. CASE Forget(u)
  BY <1>0, <1>4 DEF Forget, Goto, diskVars, handlerVars, servedVars, SyncSteps
<1>5. CASE LoadStat(u)
  BY <1>0, <1>5, LoadFacts DEF diskVars, handlerVars, servedVars, SyncSteps
<1>6. CASE Store(u)
  BY <1>0, <1>6 DEF Store, Goto, diskVars, servedVars, SyncSteps
<1>7. CASE Tell(u)
  BY <1>0, <1>7 DEF Tell, Goto, diskVars, handlerVars, servedVars, SyncSteps
<1>8. CASE Drop(u)
  BY <1>0, <1>8 DEF Drop, Goto, servedVars, SyncSteps
<1>9. CASE Erase(u)
  BY <1>0, <1>9 DEF Erase, Goto, diskVars, handlerVars, servedVars, SyncSteps
<1>10. CASE Gone(u)
  BY <1>0, <1>10, GoneFacts DEF diskVars, handlerVars, servedVars, SyncSteps
<1>11. CASE Shut(u)
  BY <1>0, <1>11 DEF Shut, Goto, diskVars, handlerVars, servedVars, SyncSteps
<1> QED
  BY <1>1, <1>2, <1>3, <1>4, <1>5, <1>6, <1>7, <1>8, <1>9, <1>10, <1>11 DEF Syncing

(* A call that dies at the map of cached files does nothing else. *)
LEMMA FatalFacts ==
  ASSUME TypeOK, NEW p \in Procs, Fatal(p)
  PROVE  /\ pc[p] \in {"ready", "find", "erase", "forget", "store"}
         /\ pc' = [pc EXCEPT ![p] = "fatal"]
         /\ \A q \in Procs : q # p => pc'[q] = pc[q]
         /\ pc'[p] = "fatal"
         /\ UNCHANGED <<diskVars, fileVars, infos, info, fi, got, handlerVars, servedVars>>
         /\ \/ pc[p] = "ready" /\ Starts(p)
            \/ pc[p] # "ready" /\ UNCHANGED disturbed
         /\ p \in Requests =>
              /\ pc[p] = "ready" /\ Starts(p)
              /\ \E u \in Updates \ {p} : Writing(u)
<1>1. CASE Collide(p)
  BY <1>1, ProcsAssumption DEF Collide, Goto, LooksUp, Writing, TypeOK
<1>2. CASE p \in Updates /\ CollideElsewhere(p)
  BY <1>2, ProcsAssumption DEF CollideElsewhere, Goto, Writing, TypeOK
<1> QED
  BY <1>1, <1>2 DEF Fatal


(* It may close one cachedstat, or make one. *)
LEMMA SyncingStats ==
  ASSUME TypeOK, HandlerInv, NEW u \in Updates, Syncing(u)
  PROVE  stats' \in Seq(Cached) /\ Keeps(stats, stats')
<1>0. stats \in Seq(Cached) /\ Keeps(stats, stats)
  BY DEF TypeOK, Keeps
<1>1. CASE Swap(u) \/ Shut(u)
  BY <1>1, ShutFacts
<1>2. CASE LoadStat(u)
  BY <1>2, LoadFacts
<1>3. CASE \/ Sync(u) \/ Find(u) \/ Forget(u) \/ Store(u)
           \/ Tell(u) \/ Drop(u) \/ Erase(u) \/ Gone(u)
  <2>1. stats' = stats
    BY <1>3 DEF Sync, Find, Forget, Store, Tell, Drop, Erase, Gone, fileVars
  <2> QED
    BY <1>0, <2>1
<1> QED
  BY <1>1, <1>2, <1>3 DEF Syncing

(* What is never taken back. *)
Grown ==
  /\ infos' \in Seq(Cached) /\ Keeps(infos, infos')
  /\ stats' \in Seq(Cached) /\ Keeps(stats, stats')
  /\ born' \in Seq(Nat) /\ Len(born) <= Len(born')
  /\ \A v \in 1..Len(born) : born'[v] = born[v]

(* Every step keeps the records that were made, and the versions. *)
LEMMA GrowStep ==
  ASSUME TypeOK, PlaceInv, HandlerInv, TimeInv, [Next]_vars
  PROVE  Grown
<1>1. CASE Write
  <2>1. PICK m \in Nat : born' = Append(born, m)
    BY <1>1, SeqFacts DEF Write
  <2>2. /\ born' \in Seq(Nat) /\ Len(born) <= Len(born')
        /\ \A v \in 1..Len(born) : born'[v] = born[v]
    BY <2>1 DEF TypeOK
  <2> QED
    BY <1>1, <2>2 DEF Write, fileVars, Grown, Keeps, TypeOK
<1>2. CASE Unlink
  BY <1>2 DEF Unlink, fileVars, handlerVars, servedVars, Grown, Keeps, TypeOK
<1>3. ASSUME NEW r \in Requests, StatContext(r)
      PROVE  Grown
  BY <1>3 DEF StatContext, Goto, Starts, diskVars, fileVars, handlerVars, servedVars,
    Grown, Keeps, TypeOK
<1>4. ASSUME NEW p \in Procs, Get(p)
      PROVE  Grown
  BY <1>4 DEF Get, Goto, diskVars, fileVars, handlerVars, servedVars, Grown, Keeps,
    TypeOK
<1>5. ASSUME NEW p \in Procs, Check(p)
      PROVE  Grown
  BY <1>5 DEF Check, Goto, diskVars, fileVars, handlerVars, servedVars, Grown, Keeps,
    TypeOK
<1>6. ASSUME NEW p \in Procs, Evict(p)
      PROVE  Grown
  BY <1>6 DEF Evict, Goto, diskVars, fileVars, handlerVars, servedVars, Grown, Keeps,
    TypeOK
<1>7. ASSUME NEW p \in Procs, Close(p)
      PROVE  Grown
  <2>1. got[p] \in 1..Len(infos)
    BY <1>7 DEF Close, PlaceInv, Holding, Procs, TypeOK
  <2> QED
    BY <1>7, <2>1, CloseFacts DEF Close, CloseInfo, diskVars, fileVars,
      handlerVars, servedVars, Grown, Keeps, TypeOK
<1>8. ASSUME NEW p \in Procs, Create(p)
      PROVE  Grown
  BY <1>8, ReaderFacts, AppendFacts DEF Create, diskVars, fileVars, Grown, Keeps, TypeOK
<1>9. ASSUME NEW p \in Procs, Set(p)
      PROVE  Grown
  BY <1>9 DEF Set, Goto, diskVars, fileVars, handlerVars, servedVars, Grown, Keeps,
    TypeOK
<1>10. ASSUME NEW r \in Requests, PrintContent(r)
       PROVE  Grown
  BY <1>10 DEF PrintContent, handlerVars, Goto, diskVars, fileVars, Grown, Keeps, TypeOK
<1>11. ASSUME NEW r \in Requests, RunProgram(r)
       PROVE  Grown
  BY <1>11 DEF RunProgram, handlerVars, Goto, diskVars, fileVars, Grown, Keeps, TypeOK
<1>12. ASSUME NEW u \in Updates, Syncing(u)
       PROVE  Grown
  <2>1. UNCHANGED <<born, infos>>
    BY <1>12, SyncingFacts
  <2>2. stats' \in Seq(Cached) /\ Keeps(stats, stats')
    BY <1>12, SyncingStats
  <2> QED
    BY <2>1, <2>2 DEF Grown, Keeps, TypeOK
<1>13. ASSUME NEW u \in Updates, GetOld(u)
       PROVE  Grown
  BY <1>13 DEF GetOld, Goto, diskVars, fileVars, handlerVars, servedVars, Grown, Keeps,
    TypeOK
<1>14. ASSUME NEW u \in Updates, CloseOld(u)
       PROVE  Grown
  <2>1. got[u] \in 1..Len(infos)
    BY <1>14 DEF CloseOld, PlaceInv, Holding, Procs, TypeOK
  <2>2. /\ infos' = [infos EXCEPT ![got[u]].open = FALSE]
        /\ UNCHANGED <<stats, born>>
    BY <1>14 DEF CloseOld, CloseInfo, diskVars, fileVars
  <2>3. infos' \in Seq(Cached) /\ Keeps(infos, infos')
    BY <2>1, <2>2, CloseFacts DEF TypeOK
  <2> QED
    BY <2>2, <2>3 DEF Grown, Keeps, TypeOK
<1>15. ASSUME NEW u \in Updates, DeleteOld(u)
       PROVE  Grown
  BY <1>15 DEF DeleteOld, Goto, diskVars, fileVars, handlerVars, servedVars, Grown,
    Keeps, TypeOK
<1>16. ASSUME NEW u \in Updates, Notified(u)
       PROVE  Grown
  BY <1>16 DEF Notified, Goto, diskVars, fileVars, handlerVars, servedVars, Grown, Keeps,
    TypeOK
<1>17. ASSUME NEW u \in Updates, GetGone(u)
       PROVE  Grown
  BY <1>17 DEF GetGone, Goto, diskVars, fileVars, handlerVars, servedVars, Grown, Keeps,
    TypeOK
<1>18. ASSUME NEW u \in Updates, DeleteGone(u)
       PROVE  Grown
  BY <1>18 DEF DeleteGone, Goto, diskVars, fileVars, handlerVars, servedVars, Grown,
    Keeps, TypeOK
<1>19. ASSUME NEW u \in Updates, PathGone(u)
       PROVE  Grown
  BY <1>19 DEF PathGone, Goto, diskVars, fileVars, handlerVars, servedVars, Grown, Keeps,
    TypeOK
<1>20. ASSUME NEW u \in Updates, CloseGone(u)
       PROVE  Grown
  <2>1. got[u] \in 1..Len(infos)
    BY <1>20 DEF CloseGone, PlaceInv, Holding, Procs, TypeOK
  <2>2. /\ infos' = [infos EXCEPT ![got[u]].open = FALSE]
        /\ UNCHANGED <<stats, born>>
    BY <1>20 DEF CloseGone, CloseInfo, diskVars, fileVars
  <2>3. infos' \in Seq(Cached) /\ Keeps(infos, infos')
    BY <2>1, <2>2, CloseFacts DEF TypeOK
  <2> QED
    BY <2>2, <2>3 DEF Grown, Keeps, TypeOK
<1>21. ASSUME NEW p \in Procs, Fatal(p)
       PROVE  Grown
  <2>1. UNCHANGED <<born, infos, stats>>
    BY <1>21, FatalFacts DEF diskVars, fileVars
  <2> QED
    BY <2>1 DEF Grown, Keeps, TypeOK
<1>22. CASE UNCHANGED vars
  BY <1>22 DEF vars, diskVars, fileVars, handlerVars, servedVars, Grown, Keeps, TypeOK
<1> QED
  BY NextCases,
     <1>1, <1>2, <1>3, <1>4, <1>5, <1>6, <1>7, <1>8, <1>9, <1>10, <1>11, <1>12, <1>13,
     <1>14, <1>15, <1>16, <1>17, <1>18, <1>19, <1>20, <1>21, <1>22
     DEF Case

(* A step of an update on the map of cached files keeps the types. *)
LEMMA SyncingTypes ==
  ASSUME TypeOK, HandlerInv, TimeInv, NEW u \in Updates, Syncing(u)
  PROVE  TypeOK'
<1>1. /\ UNCHANGED <<born, blank, there, infos, info, got, content, program>>
      /\ stats' \in Seq(Cached) /\ Keeps(stats, stats') /\ Len(stats) <= Len(stats')
  BY SyncingFacts, SyncingStats DEF Keeps
<1>2. pc' \in [Procs -> Steps]
  <2>1. PICK s \in SyncSteps \cup {"done", "panic", "get1", "get2"} :
          pc' = [pc EXCEPT ![u] = s]
    BY SyncingFacts
  <2>2. s \in Steps
    BY DEF SyncSteps, Steps
  <2> QED
    BY <2>1, <2>2 DEF TypeOK
<1>3. disturbed' \subseteq Procs
  <2>1. Starts(u) \/ UNCHANGED disturbed
    BY SyncingFacts
  <2>2. u \in Procs /\ disturbed \subseteq Procs
    BY DEF Procs, TypeOK
  <2> QED
    BY <2>1, <2>2 DEF Starts
<1>4. /\ stat' \in 0..Len(stats') /\ fi' \in [Procs -> FileInfo]
      /\ unseen' \in Nat
      /\ todo' \in [Updates -> 0..2] /\ sncfi' \in [Updates -> 0..Len(born)]
      /\ chdst' \in [Updates -> 0..Len(stats)]
  <2>0. /\ stat \in 0..Len(stats) /\ fi \in [Procs -> FileInfo]
        /\ unseen \in Nat /\ Len(stats) \in Nat /\ Len(stats') \in Nat
        /\ todo \in [Updates -> 0..2] /\ sncfi \in [Updates -> 0..Len(born)]
        /\ chdst \in [Updates -> 0..Len(stats)]
        /\ Len(born) \in 1..MaxVer /\ u \in Procs
    BY <1>1 DEF TypeOK, Procs
  <2>1. CASE Sync(u)
    BY <1>1, <2>0, <2>1 DEF Sync, fileVars, diskVars
  <2>2. CASE Find(u)
    <3>1. fi' \in [Procs -> FileInfo]
      <4>1. CASE Found(u, stat) \in {"get1", "get2"}
        <5>1. [mtime |-> stats[stat].mtime, src |-> stat] \in FileInfo
          BY <2>2, <4>1, FoundFacts, FieldFacts DEF FileInfo
        <5> QED
          BY <2>0, <2>2, <4>1, <5>1, FoundFacts
      <4>2. CASE Found(u, stat) \notin {"get1", "get2"}
        BY <2>0, <2>2, <4>2, FoundFacts
      <4> QED
        BY <4>1, <4>2
    <3> QED
      BY <1>1, <2>0, <2>2, <3>1 DEF Find, fileVars, diskVars
  <2>3. CASE Swap(u) \/ Tell(u) \/ Shut(u)
    BY <1>1, <2>0, <2>3 DEF Swap, Tell, Shut, fileVars, diskVars, handlerVars
  <2>4. CASE Forget(u) \/ Erase(u)
    BY <1>1, <2>0, <2>4 DEF Forget, Erase, diskVars, handlerVars
  <2>5. CASE LoadStat(u)
    <3>1. fi' \in [Procs -> FileInfo]
      <4>1. CASE there
        <5>1. [mtime |-> born[sncfi[u]], src |-> Len(stats) + 1] \in FileInfo
          BY <2>0, <2>5, LoadFacts DEF FileInfo
        <5> QED
          BY <2>0, <2>5, <4>1, <5>1, LoadFacts
      <4>2. CASE ~there
        BY <2>0, <2>5, <4>2, LoadFacts
      <4> QED
        BY <4>1, <4>2
    <3> QED
      BY <1>1, <2>0, <2>5, <3>1 DEF LoadStat, diskVars, handlerVars
  <2>6. CASE Store(u)
    <3>1. pc[u] = "store" /\ stat' = fi[u].src
          /\ sncfi' = [sncfi EXCEPT ![u] = 0]
          /\ UNCHANGED <<fi, unseen, todo, chdst, stats>>
      BY <2>6 DEF Store, diskVars
    <3>2. fi[u].src \in 0..Len(stats)
      BY <2>0 DEF TimeInv, FileInv
    <3> QED
      BY <2>0, <3>1, <3>2
  <2>7. CASE Drop(u)
    BY <1>1, <2>0, <2>7 DEF Drop, fileVars
  <2>8. CASE Gone(u)
    <3>1. [mtime |-> stats[chdst[u]].mtime, src |-> chdst[u]] \in FileInfo
      BY <2>0, <2>8, GoneFacts, FieldFacts DEF FileInfo
    <3>2. fi' \in [Procs -> FileInfo]
      BY <2>0, <2>8, <3>1, GoneFacts
    <3> QED
      BY <1>1, <2>0, <2>8, <3>2 DEF Gone, fileVars, diskVars, handlerVars
  <2> QED
    BY <2>1, <2>2, <2>3, <2>4, <2>5, <2>6, <2>7, <2>8 DEF Syncing
<1>5. chdst' \in [Updates -> 0..Len(stats')]
  <2>1. Len(stats) \in Nat /\ Len(stats') \in Nat
    BY <1>1 DEF TypeOK
  <2>2. 0..Len(stats) \subseteq 0..Len(stats')
    BY <1>1, <2>1
  <2> QED
    BY <1>4, <2>2
<1> QED
  BY <1>1, <1>2, <1>3, <1>4, <1>5, Zenon DEF TypeOK

(* Every step keeps the types. *)
LEMMA TypeStep ==
  ASSUME TypeOK, PlaceInv, HandlerInv, TimeInv, [Next]_vars
  PROVE  TypeOK'
<1>0. Grown
  BY GrowStep
<1>1. CASE Write
  <2>1. PICK m \in Nat : born' = Append(born, m)
    BY <1>1, SeqFacts DEF Write
  <2>2. Len(born') \in 1..MaxVer
    BY <1>1, <2>1, MaxVerAssumption DEF Write, TypeOK
  <2> QED
    BY <1>1, <1>0, <2>2 DEF Write, fileVars, handlerVars, servedVars, TypeOK, Grown, Keeps
<1>2. CASE Unlink
  <2>1. disturbed' \subseteq Procs
    BY <1>2 DEF Unlink, TypeOK
  <2>2. unseen' \in Nat
    BY <1>2 DEF Unlink, TypeOK
  <2>3. there' = FALSE
    BY <1>2 DEF Unlink
  <2> QED
    BY <1>2, <1>0, <2>1, <2>2, <2>3 DEF Unlink, fileVars, handlerVars, servedVars, TypeOK,
      Grown, Keeps
<1>3. ASSUME NEW r \in Requests, StatContext(r)
      PROVE  TypeOK'
  <2>1. stat # 0 => stats[stat].mtime \in Nat /\ stat \in Nat
    BY FieldFacts
  <2>2. pc' \in [Procs -> Steps]
    BY <1>3 DEF StatContext, Goto, Procs, TypeOK, Steps
  <2>3. fi' \in [Procs -> FileInfo]
    BY <1>3, <2>1, SeqFacts DEF StatContext, FileInfo, Procs, TypeOK
  <2>4. disturbed' \subseteq Procs
    BY <1>3 DEF StatContext, Starts, Procs, TypeOK
  <2> QED
    BY <1>3, <1>0, <2>2, <2>3, <2>4 DEF StatContext, diskVars, fileVars,
      handlerVars, servedVars, TypeOK, Grown, Keeps
<1>4. ASSUME NEW p \in Procs, Get(p)
      PROVE  TypeOK'
  BY <1>4, <1>0 DEF Get, Goto, diskVars, fileVars, handlerVars, servedVars, TypeOK,
    Steps, Grown, Keeps
<1>5. ASSUME NEW p \in Procs, Check(p)
      PROVE  TypeOK'
  BY <1>5, <1>0 DEF Check, Goto, diskVars, fileVars, handlerVars, servedVars, TypeOK,
    Steps, Grown, Keeps
<1>6. ASSUME NEW p \in Procs, Evict(p)
      PROVE  TypeOK'
  <2>1. pc' \in [Procs -> Steps]
    BY <1>6 DEF Evict, handlerVars, Goto, TypeOK, Steps
  <2>2. info' \in 0..Len(infos)
    BY <1>6 DEF Evict, handlerVars, TypeOK
  <2> QED
    BY <1>6, <1>0, <2>1, <2>2 DEF Evict, handlerVars, diskVars, fileVars, handlerVars, servedVars,
      TypeOK, Grown, Keeps
<1>7. ASSUME NEW p \in Procs, Close(p)
      PROVE  TypeOK'
  BY <1>7, <1>0 DEF Close, Goto, diskVars, fileVars, handlerVars, servedVars, TypeOK,
    Steps, Grown, Keeps, CloseInfo
<1>8. ASSUME NEW p \in Procs, Create(p)
      PROVE  TypeOK'
  BY <1>8, <1>0 DEF Create, Goto, diskVars, fileVars, handlerVars, servedVars, TypeOK,
    Steps, Grown, Keeps
<1>9. ASSUME NEW p \in Procs, Set(p)
      PROVE  TypeOK'
  BY <1>9, <1>0 DEF Set, Goto, diskVars, fileVars, handlerVars, servedVars, TypeOK,
    Steps, Grown, Keeps
<1>10. ASSUME NEW r \in Requests, PrintContent(r)
       PROVE  TypeOK'
  <2>1. got[r] \in 1..Len(infos)
    BY <1>10 DEF PrintContent, handlerVars, PlaceInv, Holding, Procs, TypeOK
  <2>2. Shown(got[r]) \in Nat
    BY <2>1, FieldFacts DEF Shown
  <2>3. pc' \in [Procs -> Steps]
    BY <1>10 DEF PrintContent, handlerVars, Goto, Procs, TypeOK, Steps
  <2> QED
    BY <1>10, <1>0, <2>2, <2>3 DEF PrintContent, handlerVars, diskVars, fileVars, TypeOK,
      Grown, Keeps
<1>11. ASSUME NEW r \in Requests, RunProgram(r)
       PROVE  TypeOK'
  <2>1. got[r] \in 1..Len(infos)
    BY <1>11 DEF RunProgram, handlerVars, PlaceInv, Holding, Procs, TypeOK
  <2>2. Shown(got[r]) \in Nat
    BY <2>1, FieldFacts DEF Shown
  <2>3. pc' \in [Procs -> Steps]
    BY <1>11 DEF RunProgram, handlerVars, Goto, Procs, TypeOK, Steps
  <2> QED
    BY <1>11, <1>0, <2>2, <2>3 DEF RunProgram, handlerVars, diskVars, fileVars, TypeOK,
      Grown, Keeps
<1>12. ASSUME NEW u \in Updates, Syncing(u)
       PROVE  TypeOK'
  BY <1>12, SyncingTypes
<1>13. ASSUME NEW u \in Updates, GetOld(u)
       PROVE  TypeOK'
  BY <1>13, <1>0 DEF GetOld, Goto, diskVars, fileVars, handlerVars, servedVars, TypeOK,
    Steps, Grown, Keeps, Procs
<1>14. ASSUME NEW u \in Updates, CloseOld(u)
       PROVE  TypeOK'
  <2>1. got[u] \in 1..Len(infos)
    BY <1>14 DEF CloseOld, PlaceInv, Holding, Procs, TypeOK
  <2>2. Len(infos') = Len(infos)
    BY <1>14, <2>1, CloseFacts DEF CloseOld, CloseInfo, TypeOK
  <2> QED
    BY <1>14, <1>0, <2>2 DEF CloseOld, Goto, diskVars, fileVars, handlerVars, servedVars,
      Procs, Steps, TypeOK, Grown
<1>15. ASSUME NEW u \in Updates, DeleteOld(u)
       PROVE  TypeOK'
  BY <1>15, <1>0 DEF DeleteOld, Goto, diskVars, fileVars, handlerVars, servedVars,
    TypeOK, Steps, Grown, Keeps, Procs
<1>16. ASSUME NEW u \in Updates, Notified(u)
       PROVE  TypeOK'
  <2>1. Placed(u) /\ pc[u] = "content" /\ todo[u] \in 0..2
    BY <1>16 DEF Notified, HandlerInv, TypeOK
  <2>2. todo[u] - 1 \in 0..2
    BY <2>1 DEF Placed, Amending
  <2>3. todo' \in [Updates -> 0..2]
    BY <1>16, <2>2 DEF Notified, TypeOK
  <2>4. pc' \in [Procs -> Steps]
    BY <1>16 DEF Notified, Goto, TypeOK, Steps
  <2>5. UNCHANGED <<born, blank, there, unseen, stats, stat, infos, info, fi,
                    got, sncfi, chdst, content, program, disturbed>>
    BY <1>16 DEF Notified, diskVars, fileVars, servedVars
  <2> QED
    BY <2>3, <2>4, <2>5 DEF TypeOK
<1>17. ASSUME NEW u \in Updates, GetGone(u)
       PROVE  TypeOK'
  BY <1>17, <1>0 DEF GetGone, AfterGone, Goto, diskVars, fileVars, handlerVars, servedVars, TypeOK,
    Steps, Grown, Keeps, Procs
<1>18. ASSUME NEW u \in Updates, DeleteGone(u)
       PROVE  TypeOK'
  BY <1>18, <1>0 DEF DeleteGone, Goto, diskVars, fileVars, handlerVars, servedVars,
    TypeOK, Steps, Grown, Keeps, Procs
<1>19. ASSUME NEW u \in Updates, PathGone(u)
       PROVE  TypeOK'
  BY <1>19, <1>0 DEF PathGone, Goto, diskVars, fileVars, handlerVars, servedVars, TypeOK,
    Steps, Grown, Keeps, Procs
<1>20. ASSUME NEW u \in Updates, CloseGone(u)
       PROVE  TypeOK'
  <2>1. got[u] \in 1..Len(infos)
    BY <1>20 DEF CloseGone, PlaceInv, Holding, Procs, TypeOK
  <2>2. Len(infos') = Len(infos)
    BY <1>20, <2>1, CloseFacts DEF CloseGone, CloseInfo, TypeOK
  <2> QED
    BY <1>20, <1>0, <2>2 DEF CloseGone, AfterGone, Goto, diskVars, fileVars, handlerVars, servedVars,
      Procs, Steps, TypeOK, Grown
<1>21. ASSUME NEW p \in Procs, Fatal(p)
       PROVE  TypeOK'
  <2>1. UNCHANGED <<born, blank, there, unseen, stats, stat, infos, info, fi,
                    got, todo, sncfi, chdst, content, program>>
    BY <1>21, FatalFacts DEF diskVars, fileVars, handlerVars, servedVars
  <2>2. pc' \in [Procs -> Steps]
    BY <1>21, FatalFacts DEF TypeOK, Steps
  <2>3. disturbed' \subseteq Procs
    BY <1>21, FatalFacts DEF Starts, TypeOK
  <2> QED
    BY <2>1, <2>2, <2>3 DEF TypeOK
<1>22. CASE UNCHANGED vars
  BY <1>22, <1>0 DEF vars, diskVars, fileVars, handlerVars, servedVars, TypeOK, Steps,
    Grown, Keeps
<1> QED
  BY NextCases,
     <1>1, <1>2, <1>3, <1>4, <1>5, <1>6, <1>7, <1>8, <1>9, <1>10, <1>11, <1>12, <1>13,
     <1>14, <1>15, <1>16, <1>17, <1>18, <1>19, <1>20, <1>21, <1>22
     DEF Case

(* A call goes through its steps in order. *)
LEMMA PlaceStep ==
  ASSUME TypeOK, TypeOK', PlaceInv, HandlerInv, [Next]_vars
  PROVE  PlaceInv'
<1>1. CASE Write
  BY <1>1, ProcsAssumption DEF Write, fileVars, handlerVars, servedVars, TypeOK, Steps,
    Procs, Holding, PlaceInv
<1>2. CASE Unlink
  BY <1>2, ProcsAssumption DEF Unlink, fileVars, handlerVars, servedVars, TypeOK, Steps,
    Procs, Holding, PlaceInv
<1>3. ASSUME NEW r \in Requests, StatContext(r)
      PROVE  PlaceInv'
  BY <1>3, ProcsAssumption, SMTT(40) DEF StatContext, Goto, Starts, diskVars,
    fileVars, handlerVars, servedVars, TypeOK, Steps, Procs, Holding, PlaceInv
<1>4. ASSUME NEW p \in Procs, Get(p)
      PROVE  PlaceInv'
  BY <1>4, ProcsAssumption DEF Get, Goto, diskVars, fileVars, handlerVars, servedVars,
    TypeOK, Steps, Procs, Holding, PlaceInv
<1>5. ASSUME NEW p \in Procs, Check(p)
      PROVE  PlaceInv'
  BY <1>5, ProcsAssumption DEF Check, Goto, diskVars, fileVars, handlerVars, servedVars,
    TypeOK, Steps, Procs, Holding, PlaceInv
<1>6. ASSUME NEW p \in Procs, Evict(p)
      PROVE  PlaceInv'
  <2>1. \/ pc' = [pc EXCEPT ![p] = "close"]
        \/ pc' = [pc EXCEPT ![p] = "panic"]
    BY <1>6 DEF Evict, handlerVars, Goto
  <2>2. UNCHANGED got /\ \A w \in Procs : w # p => fi'[w] = fi[w]
    BY <1>6 DEF Evict, handlerVars, Procs, TypeOK
  <2>3. pc[p] = "evict"
    BY <1>6 DEF Evict, handlerVars
  <2>4. CASE pc' = [pc EXCEPT ![p] = "close"]
    BY <2>2, <2>3, <2>4, ProcsAssumption, ZenonT(40) DEF TypeOK, Steps, Procs, Holding,
      PlaceInv
  <2>5. CASE pc' = [pc EXCEPT ![p] = "panic"]
    BY <2>2, <2>3, <2>5, ProcsAssumption, ZenonT(40) DEF TypeOK, Steps, Procs, Holding,
      PlaceInv
  <2> QED
    BY <2>1, <2>4, <2>5
<1>7. ASSUME NEW p \in Procs, Close(p)
      PROVE  PlaceInv'
  BY <1>7, ProcsAssumption DEF Close, Goto, diskVars, fileVars, handlerVars, servedVars,
    TypeOK, Steps, Procs, Holding, PlaceInv
<1>8. ASSUME NEW p \in Procs, Create(p)
      PROVE  PlaceInv'
  BY <1>8, ProcsAssumption DEF Create, Goto, diskVars, fileVars, handlerVars, servedVars,
    TypeOK, Steps, Procs, Holding, PlaceInv
<1>9. ASSUME NEW p \in Procs, Set(p)
      PROVE  PlaceInv'
  BY <1>9, ProcsAssumption DEF Set, Goto, diskVars, fileVars, handlerVars, servedVars,
    TypeOK, Steps, Procs, Holding, PlaceInv
<1>10. ASSUME NEW r \in Requests, PrintContent(r)
       PROVE  PlaceInv'
  BY <1>10, ProcsAssumption DEF PrintContent, handlerVars, Goto, diskVars, fileVars,
    TypeOK, Steps, Procs, Holding, PlaceInv
<1>11. ASSUME NEW r \in Requests, RunProgram(r)
       PROVE  PlaceInv'
  BY <1>11, ProcsAssumption DEF RunProgram, handlerVars, Goto, diskVars, fileVars,
    TypeOK, Steps, Procs, Holding, PlaceInv
<1>12. ASSUME NEW u \in Updates, Syncing(u)
       PROVE  PlaceInv'
  <2>1. /\ u \in Procs /\ UNCHANGED got
        /\ \A q \in Procs : q # u => pc'[q] = pc[q]
    BY <1>12, SyncingFacts
  <2>2. PICK s \in SyncSteps \cup {"done", "panic", "get1", "get2"} :
          pc' = [pc EXCEPT ![u] = s]
    BY <1>12, SyncingFacts
  <2>3. pc'[u] = s
    BY <2>1, <2>2 DEF TypeOK
  <2>4. s \notin Holding \cup {"program", "notfound"}
    BY DEF SyncSteps, Holding
  <2> QED
    BY <2>1, <2>3, <2>4, ProcsAssumption DEF PlaceInv, Procs
<1>13. ASSUME NEW u \in Updates, GetOld(u)
       PROVE  PlaceInv'
  BY <1>13, ProcsAssumption DEF GetOld, Goto, diskVars, fileVars,
    handlerVars, servedVars, TypeOK, Steps, Procs, Holding, PlaceInv
<1>14. ASSUME NEW u \in Updates, CloseOld(u)
       PROVE  PlaceInv'
  BY <1>14, ProcsAssumption DEF CloseOld, Goto, diskVars, fileVars,
    handlerVars, servedVars, TypeOK, Steps, Procs, Holding, PlaceInv
<1>15. ASSUME NEW u \in Updates, DeleteOld(u)
       PROVE  PlaceInv'
  BY <1>15, ProcsAssumption DEF DeleteOld, Goto, diskVars, fileVars,
    handlerVars, servedVars, TypeOK, Steps, Procs, Holding, PlaceInv
<1>16. ASSUME NEW u \in Updates, Notified(u)
       PROVE  PlaceInv'
  BY <1>16, ProcsAssumption DEF Notified, Goto, diskVars, fileVars,
    handlerVars, servedVars, TypeOK, Steps, Procs, Holding, PlaceInv
<1>17. ASSUME NEW u \in Updates, GetGone(u)
       PROVE  PlaceInv'
  BY <1>17, ProcsAssumption DEF GetGone, AfterGone, Goto, diskVars, fileVars,
    handlerVars, servedVars, TypeOK, Steps, Procs, Holding, PlaceInv
<1>18. ASSUME NEW u \in Updates, DeleteGone(u)
       PROVE  PlaceInv'
  BY <1>18, ProcsAssumption DEF DeleteGone, Goto, diskVars, fileVars,
    handlerVars, servedVars, TypeOK, Steps, Procs, Holding, PlaceInv
<1>19. ASSUME NEW u \in Updates, PathGone(u)
       PROVE  PlaceInv'
  BY <1>19, ProcsAssumption DEF PathGone, Goto, diskVars, fileVars,
    handlerVars, servedVars, TypeOK, Steps, Procs, Holding, PlaceInv
<1>20. ASSUME NEW u \in Updates, CloseGone(u)
       PROVE  PlaceInv'
  BY <1>20, ProcsAssumption DEF CloseGone, AfterGone, Goto, diskVars, fileVars,
    handlerVars, servedVars, TypeOK, Steps, Procs, Holding, PlaceInv
<1>21. ASSUME NEW p \in Procs, Fatal(p)
       PROVE  PlaceInv'
  <2>1. /\ UNCHANGED got /\ pc'[p] = "fatal"
        /\ \A q \in Procs : q # p => pc'[q] = pc[q]
    BY <1>21, FatalFacts
  <2> QED
    BY <2>1, ProcsAssumption DEF PlaceInv, Procs, Holding
<1>22. CASE UNCHANGED vars
  BY <1>22, ProcsAssumption DEF vars, diskVars, fileVars, handlerVars, servedVars,
    TypeOK, Steps, Procs, Holding, PlaceInv
<1> QED
  BY NextCases,
     <1>1, <1>2, <1>3, <1>4, <1>5, <1>6, <1>7, <1>8, <1>9, <1>10, <1>11, <1>12, <1>13,
     <1>14, <1>15, <1>16, <1>17, <1>18, <1>19, <1>20, <1>21, <1>22
     DEF Case

(* The steps of a call in flight that leave the disk and the map of cached *)
(* files alone.                                                            *)
Work(p) ==
  \/ Get(p) \/ Check(p) \/ Evict(p) \/ Close(p) \/ Create(p) \/ Set(p)
  \/ p \in Requests /\ (PrintContent(p) \/ RunProgram(p))
  \/ p \in Updates /\ (GetOld(p) \/ CloseOld(p) \/ DeleteOld(p) \/ Notified(p))
  \/ p \in Updates /\ (GetGone(p) \/ DeleteGone(p) \/ PathGone(p) \/ CloseGone(p))

(* All the steps in a few classes. *)
LEMMA StepCases ==
  ASSUME [Next]_vars
  PROVE  \/ Write \/ Unlink
         \/ \E r \in Requests : StatContext(r)
         \/ \E p \in Procs : Work(p)
         \/ \E u \in Updates : Syncing(u)
         \/ \E p \in Procs : Fatal(p)
         \/ UNCHANGED vars
<1>1. CASE \E r \in Requests : StatContext(r) \/ PrintContent(r) \/ RunProgram(r)
  BY <1>1 DEF Work, Procs
<1>2. CASE \E p \in Procs : \/ Get(p) \/ Check(p) \/ Evict(p)
                            \/ Close(p) \/ Create(p) \/ Set(p)
  BY <1>2 DEF Work
<1>3. CASE \E u \in Updates : \/ Syncing(u) \/ GetOld(u) \/ CloseOld(u) \/ DeleteOld(u)
                              \/ Notified(u) \/ GetGone(u) \/ DeleteGone(u)
                              \/ PathGone(u) \/ CloseGone(u)
  BY <1>3 DEF Work, Procs
<1> QED
  BY NextCases, <1>1, <1>2, <1>3 DEF Case

(* What work does not touch, and where it goes. *)
LEMMA WorkFacts ==
  ASSUME TypeOK, PlaceInv, HandlerInv, NEW p \in Procs, Work(p)
  PROVE  /\ pc[p] \in Amending \cup Removing \cup {"program"}
         /\ pc'[p] \in Amending \cup Removing
                         \cup {"program", "done", "panic", "shut", "swap"}
         /\ pc'[p] # pc[p]
         /\ \A q \in Procs : q # p => pc'[q] = pc[q] /\ got'[q] = got[q]
         /\ UNCHANGED <<diskVars, fileVars, fi, sncfi, chdst, disturbed>>
         /\ \A w \in Updates : w # p => todo'[w] = todo[w]
         /\ p \in Requests => pc'[p] \in {"check", "evict", "close", "create", "set",
                                          "content", "program", "done", "panic"}
         /\ p \in Updates =>
              /\ pc'[p] \in Removing => pc[p] \in Removing
              /\ pc'[p] \in Amending => pc[p] \in Amending
              /\ pc'[p] = "shut" => pc[p] \in Removing /\ sncfi[p] = 0
              /\ pc'[p] = "swap" => sncfi[p] # 0
              /\ pc'[p] # "program" /\ pc[p] # "program"
              /\ Placed(p)'
<1>0. /\ pc \in [Procs -> Steps] /\ got \in [Procs -> 0..Len(infos)]
      /\ todo \in [Updates -> 0..2] /\ pc[p] \in Steps
  BY DEF TypeOK
<1>1. CASE \/ Get(p) \/ Check(p) \/ Evict(p) \/ Close(p) \/ Create(p) \/ Set(p)
  <2>1. PICK s : pc' = [pc EXCEPT ![p] = s]
    BY <1>1 DEF Get, Check, Evict, Close, Create, Set, Goto
  <2>2. /\ pc[p] \in {"get", "check", "evict", "close", "create", "set"}
        /\ s \in {"check", "evict", "close", "create", "set", "content", "panic"}
        /\ pc[p] # s
    BY <1>0, <1>1, <2>1 DEF Get, Check, Evict, Close, Create, Set, Goto
  <2>3. /\ UNCHANGED <<diskVars, fileVars, fi, handlerVars, disturbed>>
        /\ \A q \in Procs : q # p => got'[q] = got[q]
    BY <1>0, <1>1 DEF Get, Check, Evict, Close, Create, Set
  <2>4. pc'[p] = s /\ \A q \in Procs : q # p => pc'[q] = pc[q]
    BY <1>0, <2>1
  <2>5. ASSUME p \in Updates
        PROVE  Placed(p)'
    <3>1. Placed(p)
      BY <2>5 DEF HandlerInv
    <3> QED
      BY <3>1, <2>2, <2>3, <2>4 DEF Placed, Pending, Amending, Removing, diskVars,
        handlerVars
  <2> QED
    BY <2>2, <2>3, <2>4, <2>5 DEF Amending, Removing, handlerVars
<1>2. CASE p \in Requests /\ (PrintContent(p) \/ RunProgram(p))
  <2>1. p \notin Updates
    BY <1>2, ProcsAssumption
  <2>2. /\ \/ pc[p] = "content" /\ pc' = [pc EXCEPT ![p] = "program"]
           \/ pc[p] = "program" /\ pc' = [pc EXCEPT ![p] = "done"]
        /\ UNCHANGED <<diskVars, fileVars, fi, got, handlerVars, disturbed>>
    BY <1>2 DEF PrintContent, RunProgram, Goto
  <2> QED
    BY <1>0, <1>2, <2>1, <2>2 DEF Amending, handlerVars
<1>3. CASE p \in Updates /\ Notified(p)
  <2>1. p \notin Requests
    BY <1>3, ProcsAssumption
  <2>2. /\ Placed(p) /\ pc[p] = "content"
        /\ UNCHANGED <<diskVars, fileVars, fi, got, sncfi, chdst, disturbed>>
        /\ todo' = [todo EXCEPT ![p] = @ - 1]
        /\ \E s \in {"get1", "swap", "done"} :
             /\ pc' = [pc EXCEPT ![p] = s]
             /\ s = "get1" => todo[p] > 1
             /\ s = "swap" => sncfi[p] # 0
    BY <1>3 DEF Notified, Goto, HandlerInv
  <2>3. PICK s \in {"get1", "swap", "done"} :
             /\ pc' = [pc EXCEPT ![p] = s]
             /\ s = "get1" => todo[p] > 1
             /\ s = "swap" => sncfi[p] # 0
    BY <2>2
  <2>4. /\ pc'[p] = s /\ todo'[p] = todo[p] - 1 /\ todo[p] \in 0..2
        /\ \A q \in Procs : q # p => pc'[q] = pc[q]
        /\ \A w \in Updates : w # p => todo'[w] = todo[w]
    BY <1>0, <1>3, <2>2, <2>3
  <2>5. /\ s = "get1" => todo'[p] # 0
    BY <2>3, <2>4
  <2>6. UNCHANGED <<blank, sncfi, chdst, fi>>
    BY <2>2 DEF diskVars
  <2>7. /\ s = "swap" => sncfi[p] \in blank /\ chdst[p] # 0
        /\ sncfi[p] # 0 => sncfi[p] \in blank /\ chdst[p] # 0
    BY <2>2, <2>3 DEF Placed, Amending
  <2>8. Placed(p)'
    BY <2>3, <2>4, <2>5, <2>6, <2>7 DEF Placed, Pending, Amending, Removing
  <2> QED
    BY <1>3, <2>1, <2>2, <2>3, <2>4, <2>8 DEF Amending, Removing
<1>4. CASE p \in Updates /\ (GetOld(p) \/ CloseOld(p) \/ DeleteOld(p))
  <2>1. p \notin Requests /\ Placed(p)
    BY <1>4, ProcsAssumption DEF HandlerInv
  <2>2. /\ \/ pc[p] = "get1" /\ pc' = [pc EXCEPT ![p] = "get"]
           \/ pc[p] = "get1" /\ pc' = [pc EXCEPT ![p] = "close1"]
           \/ pc[p] = "close1" /\ pc' = [pc EXCEPT ![p] = "delete1"]
           \/ pc[p] = "delete1" /\ pc' = [pc EXCEPT ![p] = "get"]
        /\ UNCHANGED <<diskVars, fileVars, fi, handlerVars, disturbed>>
        /\ \A q \in Procs : q # p => got'[q] = got[q]
    BY <1>0, <1>4 DEF GetOld, CloseOld, DeleteOld, Goto
  <2>3. PICK s \in {"get", "close1", "delete1"} : pc' = [pc EXCEPT ![p] = s] /\ s # pc[p]
    BY <2>2
  <2>4. pc'[p] = s /\ \A q \in Procs : q # p => pc'[q] = pc[q]
    BY <1>0, <2>3
  <2>5. UNCHANGED <<blank, todo, sncfi, chdst, fi>>
    BY <2>2 DEF diskVars, handlerVars
  <2>6. pc[p] \in {"get1", "close1", "delete1"}
    BY <2>2
  <2>7. Placed(p)'
    BY <2>1, <2>4, <2>5, <2>6 DEF Placed, Pending, Amending, Removing
  <2> QED
    BY <1>4, <2>1, <2>2, <2>3, <2>4, <2>5, <2>6, <2>7 DEF Amending, Removing
<1>5. CASE p \in Updates /\ (GetGone(p) \/ DeleteGone(p) \/ PathGone(p) \/ CloseGone(p))
  <2>1. p \notin Requests /\ Placed(p)
    BY <1>5, ProcsAssumption DEF HandlerInv
  <2>2. PICK s \in {"delete2", "path2", "close2", "panic", "shut", "swap"} :
             /\ pc' = [pc EXCEPT ![p] = s]
             /\ s # pc[p]
             /\ s = "swap" => sncfi[p] # 0
             /\ s = "shut" => sncfi[p] = 0
    BY <1>5 DEF GetGone, DeleteGone, PathGone, CloseGone, Goto, AfterGone
  <2>3. /\ UNCHANGED <<diskVars, fileVars, fi, handlerVars, disturbed>>
        /\ \A q \in Procs : q # p => got'[q] = got[q]
        /\ pc[p] \in Removing
    BY <1>0, <1>5 DEF GetGone, DeleteGone, PathGone, CloseGone, Removing
  <2>4. pc'[p] = s /\ \A q \in Procs : q # p => pc'[q] = pc[q]
    BY <1>0, <2>2
  <2>5. UNCHANGED <<blank, todo, sncfi, chdst, fi>>
    BY <2>3 DEF diskVars, handlerVars
  <2>6. /\ chdst[p] # 0 /\ (sncfi[p] # 0 => sncfi[p] \in blank)
    BY <2>1, <2>3 DEF Placed
  <2>7. Placed(p)'
    BY <2>2, <2>4, <2>5, <2>6 DEF Placed, Pending, Amending, Removing
  <2> QED
    BY <1>5, <2>1, <2>2, <2>3, <2>4, <2>5, <2>7 DEF Amending, Removing
<1> QED
  BY <1>1, <1>2, <1>3, <1>4, <1>5 DEF Work

(* What an update knows follows it. *)
LEMMA PlacedKept ==
  ASSUME NEW w \in Updates, Placed(w), pc'[w] = pc[w], todo'[w] = todo[w],
         sncfi'[w] = sncfi[w], chdst'[w] = chdst[w], fi'[w] = fi[w],
         blank \subseteq blank'
  PROVE  Placed(w)'
BY DEF Placed

LEMMA SyncingPlaced ==
  ASSUME TypeOK, HandlerInv, NEW u \in Updates, Syncing(u)
  PROVE  Placed(u)'
<1>0. /\ Placed(u) /\ pc \in [Procs -> Steps] /\ u \in Procs
      /\ todo \in [Updates -> 0..2] /\ sncfi \in [Updates -> 0..Len(born)]
      /\ chdst \in [Updates -> 0..Len(stats)] /\ fi \in [Procs -> FileInfo]
      /\ UNCHANGED blank
  BY SyncingFacts DEF TypeOK, HandlerInv, Procs
<1>1. CASE Sync(u)
  <2>1. /\ pc'[u] = "find" /\ sncfi'[u] = Len(born) /\ todo'[u] \in 1..2
    BY <1>0, <1>1 DEF Sync, Goto
  <2> QED
    BY <2>1, SeqFacts DEF Placed, Pending, Amending, Removing
<1>2. CASE Find(u)
  <2>1. /\ pc'[u] = Found(u, stat) /\ chdst'[u] = stat
        /\ todo'[u] = todo[u] /\ sncfi'[u] = sncfi[u] /\ todo[u] # 0
        /\ sncfi[u] # 0
        /\ Found(u, stat) \in {"done", "load", "panic", "swap", "get1", "get2"}
        /\ Found(u, stat) \in {"get1", "get2"} => sncfi[u] \in blank
        /\ Found(u, stat) \in {"swap", "get1", "get2"} => stat # 0
    BY <1>0, <1>2, FoundFacts
  <2> QED
    BY <1>0, <2>1 DEF Placed, Pending, Amending, Removing
<1>3. CASE Swap(u)
  <2>1. pc[u] = "swap" /\ pc'[u] = "forget" /\ UNCHANGED <<todo, sncfi, chdst, fi>>
    BY <1>0, <1>3 DEF Swap, Goto, handlerVars
  <2> QED
    BY <1>0, <2>1 DEF Placed, Pending, Amending, Removing
<1>4. CASE Forget(u)
  <2>1. /\ pc[u] = "forget" /\ UNCHANGED <<todo, sncfi, chdst, fi>>
        /\ pc'[u] = IF sncfi[u] \in blank THEN "done" ELSE "load"
    BY <1>0, <1>4 DEF Forget, Goto, handlerVars
  <2> QED
    BY <1>0, <2>1 DEF Placed, Pending, Amending, Removing
<1>5. CASE LoadStat(u)
  <2>1. /\ UNCHANGED <<todo, sncfi, chdst>> /\ todo[u] # 0 /\ sncfi[u] # 0
        /\ \/ pc'[u] = "done"
           \/ pc'[u] = "store" /\ fi'[u].src = Len(stats) + 1
    BY <1>0, <1>5, LoadFacts DEF handlerVars
  <2>2. Len(stats) + 1 # 0
    BY SeqFacts
  <2> QED
    BY <2>1, <2>2 DEF Placed, Pending, Amending, Removing
<1>6. CASE Store(u)
  <2>1. /\ pc[u] = "store" /\ pc'[u] = "tell" /\ sncfi'[u] = 0
        /\ UNCHANGED <<todo, chdst, fi>>
    BY <1>0, <1>6 DEF Store, Goto
  <2> QED
    BY <1>0, <2>1 DEF Placed, Pending, Amending, Removing
<1>7. CASE Tell(u)
  <2>1. /\ pc[u] = "tell" /\ pc'[u] \in {"get1", "panic"}
        /\ UNCHANGED <<todo, sncfi, chdst, fi>>
    BY <1>0, <1>7 DEF Tell, Goto, handlerVars
  <2>2. sncfi[u] = 0
    BY <1>0, <2>1 DEF Placed
  <2> QED
    BY <1>0, <2>1, <2>2 DEF Placed, Pending, Amending, Removing
<1>8. CASE Drop(u)
  <2>1. /\ pc[u] = "ready" /\ chdst'[u] = stat /\ UNCHANGED <<todo, sncfi, fi>>
        /\ pc'[u] = IF stat = 0 THEN "done" ELSE "erase"
    BY <1>0, <1>8 DEF Drop, Goto
  <2> QED
    BY <1>0, <2>1 DEF Placed, Pending, Amending, Removing
<1>9. CASE Erase(u)
  <2>1. /\ pc[u] = "erase" /\ pc'[u] = "gone" /\ UNCHANGED <<todo, sncfi, chdst, fi>>
    BY <1>0, <1>9 DEF Erase, Goto, handlerVars
  <2> QED
    BY <1>0, <2>1 DEF Placed, Pending, Amending, Removing
<1>10. CASE Gone(u)
  <2>1. /\ pc[u] = "gone" /\ pc'[u] \in {"get2", "panic"}
        /\ UNCHANGED <<todo, sncfi, chdst>>
    BY <1>0, <1>10, GoneFacts DEF handlerVars
  <2> QED
    BY <1>0, <2>1 DEF Placed, Pending, Amending, Removing
<1>11. CASE Shut(u)
  <2>1. pc'[u] = "done"
    BY <1>0, <1>11 DEF Shut, Goto
  <2> QED
    BY <2>1 DEF Placed, Pending, Amending, Removing
<1> QED
  BY <1>1, <1>2, <1>3, <1>4, <1>5, <1>6, <1>7, <1>8, <1>9, <1>10, <1>11 DEF Syncing

(* An update keeps what it has to know. *)
LEMMA HandlerStep ==
  ASSUME TypeOK, PlaceInv, HandlerInv, [Next]_vars
  PROVE  HandlerInv'
<1> SUFFICES ASSUME NEW w \in Updates
             PROVE  Placed(w)'
  BY DEF HandlerInv
<1>0. Placed(w) /\ w \in Procs /\ w \notin Requests
  BY ProcsAssumption DEF HandlerInv, Procs
<1>1. CASE Write
  <2>1. UNCHANGED <<pc, todo, sncfi, chdst, fi>> /\ blank \subseteq blank'
    BY <1>1 DEF Write, handlerVars
  <2> QED
    BY <1>0, <2>1, PlacedKept
<1>2. CASE Unlink \/ UNCHANGED vars
  <2>1. UNCHANGED <<pc, todo, sncfi, chdst, fi, blank>>
    BY <1>2 DEF Unlink, vars, diskVars, handlerVars
  <2> QED
    BY <1>0, <2>1, PlacedKept
<1>3. ASSUME NEW r \in Requests, StatContext(r)
      PROVE  Placed(w)'
  <2>1. /\ UNCHANGED <<todo, sncfi, chdst, blank>>
        /\ pc'[w] = pc[w] /\ fi'[w] = fi[w]
    BY <1>0, <1>3 DEF StatContext, Goto, diskVars, handlerVars, TypeOK
  <2> QED
    BY <1>0, <2>1, PlacedKept
<1>4. ASSUME NEW p \in Procs, Work(p)
      PROVE  Placed(w)'
  <2>1. CASE p # w
    <3>1. /\ UNCHANGED <<sncfi, chdst, blank, fi>>
          /\ pc'[w] = pc[w] /\ todo'[w] = todo[w]
      BY <1>0, <1>4, <2>1, WorkFacts DEF diskVars
    <3> QED
      BY <1>0, <3>1, PlacedKept
  <2> QED
    BY <1>0, <1>4, <2>1, WorkFacts
<1>5. ASSUME NEW u \in Updates, Syncing(u)
      PROVE  Placed(w)'
  <2>1. CASE u # w
    <3>1. /\ pc'[w] = pc[w] /\ fi'[w] = fi[w] /\ todo'[w] = todo[w]
          /\ sncfi'[w] = sncfi[w] /\ chdst'[w] = chdst[w] /\ UNCHANGED blank
      BY <1>0, <1>5, <2>1, SyncingFacts
    <3> QED
      BY <1>0, <3>1, PlacedKept
  <2> QED
    BY <1>0, <1>5, <2>1, SyncingPlaced
<1>6. ASSUME NEW p \in Procs, Fatal(p)
      PROVE  Placed(w)'
  <2>1. UNCHANGED <<blank, fi, todo, sncfi, chdst>>
    BY <1>6, FatalFacts DEF diskVars, handlerVars
  <2>2. CASE p # w
    <3>1. pc'[w] = pc[w]
      BY <1>0, <1>6, <2>2, FatalFacts
    <3> QED
      BY <1>0, <2>1, <3>1, PlacedKept
  <2>3. CASE p = w
    <3>1. pc'[w] = "fatal"
      BY <1>6, <2>3, FatalFacts
    <3> QED
      BY <3>1 DEF Placed, Pending, Amending, Removing
  <2> QED
    BY <2>2, <2>3
<1> QED
  BY StepCases, <1>1, <1>2, <1>3, <1>4, <1>5, <1>6

(* Which steps change what. *)
Changes ==
  /\ UNCHANGED <<born, blank>> \/ Write
  /\ UNCHANGED there \/ Write \/ Unlink
  /\ UNCHANGED unseen \/ Unlink \/ \E u \in Updates : Drop(u)
  /\ \/ UNCHANGED fi
     \/ \E r \in Requests : StatContext(r)
     \/ \E u \in Updates : Find(u) \/ LoadStat(u) \/ Gone(u)
  /\ \/ UNCHANGED infos
     \/ \E p \in Procs : Create(p)
     \/ Len(infos') = Len(infos) /\ \E p \in Procs : Close(p)
     \/ Len(infos') = Len(infos) /\ \E u \in Updates : CloseOld(u) \/ CloseGone(u)
  /\ \/ UNCHANGED stats
     \/ \E u \in Updates : LoadStat(u)
     \/ Len(stats') = Len(stats) /\ \E u \in Updates : Swap(u) \/ Shut(u)
  /\ UNCHANGED stat \/ \E u \in Updates : Forget(u) \/ Store(u) \/ Erase(u)

(* No other step does. *)
LEMMA ChangeStep ==
  ASSUME TypeOK, PlaceInv, HandlerInv, [Next]_vars
  PROVE  Changes
<1>1. CASE Write
  BY <1>1 DEF Write, fileVars, Changes
<1>2. CASE Unlink
  BY <1>2 DEF Unlink, fileVars, Changes
<1>3. ASSUME NEW r \in Requests, StatContext(r)
      PROVE  Changes
  BY <1>3 DEF StatContext, diskVars, fileVars, Changes
<1>4. ASSUME NEW p \in Procs, Work(p)
      PROVE  Changes
  <2>1. UNCHANGED <<born, blank, there, unseen, fi, stats, stat>>
    BY <1>4, WorkFacts DEF diskVars, fileVars
  <2>2. ASSUME Close(p) \/ (p \in Updates /\ (CloseOld(p) \/ CloseGone(p)))
        PROVE  Len(infos') = Len(infos)
    <3>1. got[p] \in 1..Len(infos)
      BY <2>2 DEF Close, CloseOld, CloseGone, PlaceInv, Holding, TypeOK
    <3>2. infos' = [infos EXCEPT ![got[p]].open = FALSE]
      BY <2>2 DEF Close, CloseOld, CloseGone, CloseInfo
    <3> QED
      BY <3>1, <3>2, CloseFacts DEF TypeOK
  <2>3. \/ UNCHANGED infos
        \/ Create(p)
        \/ Close(p) \/ (p \in Updates /\ (CloseOld(p) \/ CloseGone(p)))
    BY <1>4 DEF Work, Get, Check, Evict, Set, PrintContent, RunProgram, GetOld,
      DeleteOld, Notified, GetGone, DeleteGone, PathGone
  <2> QED
    BY <2>1, <2>2, <2>3 DEF Changes
<1>5. ASSUME NEW u \in Updates, Syncing(u)
      PROVE  Changes
  <2>1. UNCHANGED <<born, blank, there, infos>>
    BY <1>5, SyncingFacts
  <2>2. UNCHANGED unseen \/ Drop(u)
    BY <1>5 DEF Syncing, Sync, Find, Swap, Forget, LoadStat, Store, Tell, Erase, Gone,
      Shut, diskVars
  <2>3. UNCHANGED fi \/ Find(u) \/ LoadStat(u) \/ Gone(u)
    BY <1>5 DEF Syncing, Sync, Swap, Forget, Store, Tell, Drop, Erase, Shut
  <2>4. UNCHANGED stats \/ LoadStat(u) \/ Swap(u) \/ Shut(u)
    BY <1>5 DEF Syncing, Sync, Find, Forget, Store, Tell, Drop, Erase, Gone, fileVars
  <2>5. UNCHANGED stat \/ Forget(u) \/ Store(u) \/ Erase(u)
    BY <1>5 DEF Syncing, Sync, Find, Swap, LoadStat, Tell, Drop, Gone, Shut, fileVars
  <2>6. Swap(u) \/ Shut(u) => Len(stats') = Len(stats)
    BY ShutFacts
  <2> QED
    BY <2>1, <2>2, <2>3, <2>4, <2>5, <2>6 DEF Changes
<1>6. ASSUME NEW p \in Procs, Fatal(p)
      PROVE  Changes
  BY <1>6, FatalFacts DEF diskVars, fileVars, Changes
<1>7. CASE UNCHANGED vars
  BY <1>7 DEF vars, diskVars, fileVars, Changes
<1> QED
  BY StepCases, <1>1, <1>2, <1>3, <1>4, <1>5, <1>6, <1>7

(* What the steps that make a record do to it. *)
LEMMA CreateFacts ==
  ASSUME TypeOK, TimeInv, NEW p \in Procs, Create(p)
  PROVE  /\ Len(infos') = Len(infos) + 1
         /\ infos'[Len(infos) + 1] = NewInfo(fi[p])
         /\ got' = [got EXCEPT ![p] = Len(infos) + 1]
         /\ \A i \in 1..Len(infos) : infos'[i] = infos[i]
BY ReaderFacts, AppendFacts DEF Create, TypeOK

(* A new version of the file is at least as new as the last. *)
LEMMA WriteFacts ==
  ASSUME TypeOK, Write
  PROVE  /\ Len(born') = Len(born) + 1 /\ ModTime' \in Nat /\ ModTime' >= ModTime
         /\ born'[Len(born) + 1] = ModTime'
         /\ \A v \in 1..Len(born) : born'[v] = born[v]
         /\ DistinctTimes' => ModTime' > ModTime
<1>1. PICK m \in {ModTime, ModTime + 1} : born' = Append(born, m)
  BY DEF Write
<1>2. ModTime \in Nat /\ born \in Seq(Nat) /\ Len(born) \in Nat \ {0}
  BY SeqFacts DEF TypeOK
<1>3. /\ Len(born') = Len(born) + 1 /\ born'[Len(born) + 1] = m
      /\ \A v \in 1..Len(born) : born'[v] = born[v]
  BY <1>1, <1>2
<1>4. ModTime' = m
  BY <1>3 DEF ModTime
<1>5. DistinctTimes' => m # ModTime
  <2>1. Len(born) \in 1..(Len(born') - 1)
    BY <1>2, <1>3
  <2>2. born'[Len(born)] = ModTime
    BY <1>2, <1>3 DEF ModTime
  <2> QED
    BY <1>3, <2>1, <2>2 DEF DistinctTimes
<1> QED
  BY <1>1, <1>2, <1>3, <1>4, <1>5

(* The times stay in order. *)
LEMMA TimeStep ==
  ASSUME TypeOK, PlaceInv, HandlerInv, TimeInv, TypeOK', [Next]_vars
  PROVE  TimeInv'
<1>0. Grown /\ Changes
  BY GrowStep, ChangeStep
<1>1. ModTime \in Nat /\ ModTime' \in Nat /\ ModTime <= ModTime'
  <2>1. CASE Write
    BY <2>1, WriteFacts, SeqFacts
  <2>2. CASE UNCHANGED born
    BY <2>2, SeqFacts DEF ModTime
  <2> QED
    BY <1>0, <2>1, <2>2 DEF Changes
<1>2. BornInv'
  <2>1. CASE Write
    <3>1. \A v \in 1..Len(born') : v \in 1..Len(born) \/ v = Len(born')
      BY <2>1, WriteFacts, SeqFacts
    <3>2. \A v \in 1..Len(born) : born'[v] = born[v] /\ born[v] \in Nat
                                  /\ born'[v] <= ModTime'
      BY <2>1, <1>1, WriteFacts, SeqFacts, StatTimes
    <3>3. born'[Len(born')] = ModTime'
      BY <2>1, WriteFacts
    <3>4. \A v, w \in 1..Len(born) : v <= w => born[v] <= born[w]
      BY DEF TimeInv, BornInv
    <3>5. Len(born') = Len(born) + 1 /\ Len(born) \in Nat
      BY <2>1, WriteFacts, SeqFacts
    <3> QED
      BY <1>1, <3>1, <3>2, <3>3, <3>4, <3>5 DEF BornInv
  <2>2. CASE UNCHANGED born
    BY <2>2 DEF TimeInv, BornInv
  <2> QED
    BY <1>0, <2>1, <2>2 DEF Changes
<1>3. StatInv'
  <2>1. ASSUME NEW s \in 1..Len(stats)
        PROVE  stats'[s].ver \in 1..Len(born') /\ stats'[s].mtime <= born'[stats'[s].ver]
    <3>1. stats'[s].ver = stats[s].ver /\ stats'[s].mtime = stats[s].mtime
      BY <1>0 DEF Grown, Keeps
    <3>2. stats[s].ver \in 1..Len(born) /\ stats[s].mtime <= born[stats[s].ver]
      BY DEF TimeInv, StatInv
    <3>3. Len(born) <= Len(born') /\ \A v \in 1..Len(born) : born'[v] = born[v]
      BY <1>0 DEF Grown
    <3>4. Len(born') \in Nat
      BY DEF TypeOK
    <3> QED
      BY <3>1, <3>2, <3>3, <3>4, SeqFacts
  <2>2. ASSUME NEW u \in Updates, LoadStat(u), Len(stats') # Len(stats)
        PROVE  StatInv'
    <3>1. there /\ born' = born
      BY <2>2, LoadFacts DEF diskVars
    <3>2. /\ Len(stats') = Len(stats) + 1
          /\ stats'[Len(stats) + 1].mtime = born[sncfi[u]]
          /\ stats'[Len(stats) + 1].ver = Len(born)
          /\ sncfi[u] \in 1..Len(born)
      BY <2>2, <3>1, LoadFacts
    <3>3. born[sncfi[u]] <= born[Len(born)]
      BY <3>2, StatTimes, SeqFacts
    <3>4. \A s \in 1..Len(stats') : s \in 1..Len(stats) \/ s = Len(stats) + 1
      BY <3>2, SeqFacts
    <3>5. Len(born) \in 1..Len(born)
      BY SeqFacts
    <3> QED
      BY <2>1, <3>1, <3>2, <3>3, <3>4, <3>5 DEF StatInv
  <2> QED
    BY <1>0, <2>1, <2>2 DEF Changes, StatInv
<1>4. FileInv'
  <2> SUFFICES ASSUME NEW p \in Procs
               PROVE  /\ fi'[p].mtime <= ModTime'
                      /\ fi'[p].src # 0 => /\ fi'[p].src \in 1..Len(stats')
                                           /\ fi'[p].mtime = stats'[fi'[p].src].mtime
    BY DEF FileInv
  <2>1. Len(stats) <= Len(stats')
        /\ \A s \in 1..Len(stats) : stats'[s].mtime = stats[s].mtime
    BY <1>0 DEF Grown, Keeps
  <2>2. Len(stats') \in Nat
    BY DEF TypeOK
  <2>3. CASE fi'[p] = fi[p]
    <3>1. /\ fi[p].mtime \in Nat /\ fi[p].mtime <= ModTime
          /\ fi[p].src # 0 => /\ fi[p].src \in 1..Len(stats)
                              /\ fi[p].mtime = stats[fi[p].src].mtime
      BY FieldFacts DEF TimeInv, FileInv
    <3> QED
      BY <1>1, <2>1, <2>2, <2>3, <3>1, SeqFacts
  <2>4. ASSUME NEW s \in 1..Len(stats), fi'[p].src = s, fi'[p].mtime = stats[s].mtime
        PROVE  /\ fi'[p].mtime <= ModTime' /\ fi'[p].src \in 1..Len(stats')
               /\ fi'[p].mtime = stats'[fi'[p].src].mtime
    <3>1. stats[s].mtime \in Nat /\ stats[s].mtime <= ModTime
      BY StatTimes, FieldFacts
    <3> QED
      BY <1>1, <2>1, <2>2, <2>4, <3>1, SeqFacts
  <2>5. ASSUME NEW r \in Requests, StatContext(r), fi'[p] # fi[p]
        PROVE  \/ fi'[p].mtime = ModTime /\ fi'[p].src = 0
               \/ /\ stat \in 1..Len(stats)
                  /\ fi'[p].mtime = stats[stat].mtime /\ fi'[p].src = stat
    <3>1. stat # 0 => stat \in 1..Len(stats)
      BY FieldFacts
    <3> QED
      BY <2>5, <3>1 DEF StatContext, TypeOK, Procs
  <2>6. ASSUME NEW u \in Updates, Find(u), fi'[p] # fi[p]
        PROVE  /\ stat \in 1..Len(stats)
               /\ fi'[p].mtime = stats[stat].mtime /\ fi'[p].src = stat
    <3>1. /\ p = u /\ Found(u, stat) \in {"get1", "get2"} /\ stat \in 1..Len(stats)
          /\ fi' = [fi EXCEPT ![u] = [mtime |-> stats[stat].mtime, src |-> stat]]
      BY <2>6, FoundFacts
    <3> QED
      BY <3>1 DEF TypeOK
  <2>7. ASSUME NEW u \in Updates, Gone(u), fi'[p] # fi[p]
        PROVE  /\ chdst[u] \in 1..Len(stats)
               /\ fi'[p].mtime = stats[chdst[u]].mtime /\ fi'[p].src = chdst[u]
    <3>1. /\ p = u /\ chdst[u] \in 1..Len(stats)
          /\ fi' = [fi EXCEPT ![u] = [mtime |-> stats[chdst[u]].mtime, src |-> chdst[u]]]
      BY <2>7, GoneFacts
    <3> QED
      BY <3>1 DEF TypeOK
  <2>8. ASSUME NEW u \in Updates, LoadStat(u), fi'[p] # fi[p]
        PROVE  /\ fi'[p].mtime = born[sncfi[u]] /\ fi'[p].src = Len(stats) + 1
               /\ Len(stats') = Len(stats) + 1
               /\ stats'[Len(stats) + 1].mtime = born[sncfi[u]]
               /\ sncfi[u] \in 1..Len(born)
    <3>1. there /\ p = u
      BY <2>8, LoadFacts
    <3>2. /\ fi' = [fi EXCEPT ![u] = [mtime |-> born[sncfi[u]], src |-> Len(stats) + 1]]
          /\ Len(stats') = Len(stats) + 1
          /\ stats'[Len(stats) + 1].mtime = born[sncfi[u]]
          /\ sncfi[u] \in 1..Len(born)
      BY <2>8, <3>1, LoadFacts
    <3> QED
      BY <3>1, <3>2 DEF TypeOK
  <2>9. CASE \E u \in Updates : LoadStat(u) /\ fi'[p] # fi[p]
    <3>1. PICK u \in Updates : LoadStat(u) /\ fi'[p] # fi[p]
      BY <2>9
    <3>2. /\ fi'[p].mtime = born[sncfi[u]] /\ fi'[p].src = Len(stats) + 1
          /\ Len(stats') = Len(stats) + 1
          /\ stats'[Len(stats) + 1].mtime = born[sncfi[u]]
          /\ sncfi[u] \in 1..Len(born)
      BY <2>8, <3>1
    <3>3. born[sncfi[u]] \in Nat /\ born[sncfi[u]] <= ModTime
      BY <3>2, SeqFacts, StatTimes
    <3> QED
      BY <1>1, <3>2, <3>3, SeqFacts
  <2>10. CASE \E r \in Requests : StatContext(r) /\ fi'[p] # fi[p]
    <3>1. \/ fi'[p].mtime = ModTime /\ fi'[p].src = 0
          \/ /\ stat \in 1..Len(stats)
             /\ fi'[p].mtime = stats[stat].mtime /\ fi'[p].src = stat
      BY <2>5, <2>10
    <3> QED
      BY <1>1, <2>4, <3>1
  <2>11. CASE \E u \in Updates : (Find(u) \/ Gone(u)) /\ fi'[p] # fi[p]
    BY <2>4, <2>6, <2>7, <2>11
  <2> QED
    BY <1>0, <2>3, <2>9, <2>10, <2>11 DEF Changes
<1>5. InfoInv'
  <2>1. ASSUME NEW i \in 1..Len(infos), infos'[i].ver # 0
        PROVE  infos'[i].ver \in 1..Len(born') /\ born'[infos'[i].ver] >= infos'[i].mtime
    <3>1. infos'[i].ver = infos[i].ver /\ infos'[i].mtime = infos[i].mtime
      BY <1>0 DEF Grown, Keeps
    <3>2. infos[i].ver \in 1..Len(born) /\ born[infos[i].ver] >= infos[i].mtime
      BY <2>1, <3>1 DEF TimeInv, InfoInv
    <3>3. Len(born) <= Len(born') /\ \A v \in 1..Len(born) : born'[v] = born[v]
      BY <1>0 DEF Grown
    <3>4. Len(born') \in Nat
      BY DEF TypeOK
    <3> QED
      BY <3>1, <3>2, <3>3, <3>4, SeqFacts
  <2>2. ASSUME NEW p \in Procs, Create(p)
        PROVE  InfoInv'
    <3>1. born' = born
      BY <2>2 DEF Create, diskVars
    <3>2. Len(infos') = Len(infos) + 1 /\ infos'[Len(infos) + 1] = NewInfo(fi[p])
      BY <2>2, CreateFacts
    <3>3. NewInfo(fi[p]).ver # 0 => /\ NewInfo(fi[p]).ver \in 1..Len(born)
                                    /\ born[NewInfo(fi[p]).ver] >= NewInfo(fi[p]).mtime
      BY ReaderFacts
    <3> QED
      BY <2>1, <3>1, <3>2, <3>3, SeqFacts DEF InfoInv
  <2> QED
    BY <1>0, <2>1, <2>2 DEF Changes, InfoInv
<1> QED
  BY <1>2, <1>3, <1>4, <1>5 DEF TimeInv

(* Types, places and times hold together. *)
LEMMA TimeAlways == Spec => [](TypeOK /\ PlaceInv /\ HandlerInv /\ TimeInv)
<1>1. Init => TypeOK /\ PlaceInv /\ HandlerInv /\ TimeInv
  <2>1. ASSUME Init
        PROVE  stats \in Seq(Cached) /\ Len(stats) = 1 /\ stats[1].ver = 1
               /\ stats[1].mtime = 0
    BY <2>1 DEF Init, Cached
  <2>2. ASSUME Init
        PROVE  infos \in Seq(Cached) /\ Len(infos) = 0
    BY <2>2 DEF Init
  <2>3. ASSUME Init
        PROVE  born \in Seq(Nat) /\ Len(born) = 1 /\ born[1] = 0 /\ ModTime = 0
    BY <2>3 DEF Init, ModTime
  <2>4. Init => TypeOK
    BY <2>1, <2>2, <2>3, MaxVerAssumption DEF Init, TypeOK, Steps, FileInfo, NoFile
  <2>5. Init => PlaceInv
    BY DEF Init, PlaceInv, Procs, Holding
  <2>7. Init => HandlerInv
    <3> SUFFICES ASSUME Init, NEW u \in Updates
                 PROVE  Placed(u)
      BY DEF HandlerInv
    <3>1. pc[u] = "ready" /\ sncfi[u] = 0
      BY DEF Init, Procs
    <3> QED
      BY <3>1 DEF Placed, Pending, Amending, Removing
  <2>6. Init => TimeInv
    BY <2>1, <2>2, <2>3 DEF Init, TimeInv, BornInv, StatInv, FileInv, InfoInv, NoFile
  <2> QED
    BY <2>4, <2>5, <2>6, <2>7
<1>2. TypeOK /\ PlaceInv /\ HandlerInv /\ TimeInv /\ [Next]_vars
        => TypeOK' /\ PlaceInv' /\ HandlerInv' /\ TimeInv'
  BY TypeStep, PlaceStep, HandlerStep, TimeStep
<1> QED
  BY <1>1, <1>2, PTL DEF Spec

(* The types of the model. *)
THEOREM TypeTheorem == Spec => []TypeOK
BY TimeAlways, PTL

(* The other steps leave the infos and what was served alone. *)
LEMMA OtherFacts ==
  ASSUME TypeOK, HandlerInv, [Next]_vars, ~\E p \in Procs : Work(p)
  PROVE  /\ UNCHANGED <<infos, info, got, content, program>>
         /\ \A q \in Procs :
              \/ pc'[q] = pc[q] /\ fi'[q] = fi[q]
              \/ /\ q \in Requests /\ pc[q] = "ready"
                 /\ pc'[q] \in {"get", "notfound", "fatal"}
              \/ /\ q \in Updates /\ pc[q] \in SyncSteps \cup {"ready"}
                 /\ pc'[q] \in SyncSteps \cup {"done", "panic", "get1", "get2", "fatal"}
<1>0. pc \in [Procs -> Steps] /\ fi \in [Procs -> FileInfo]
  BY DEF TypeOK
<1>1. CASE Write \/ Unlink \/ UNCHANGED vars
  BY <1>1 DEF Write, Unlink, vars, servedVars
<1>2. ASSUME NEW r \in Requests, StatContext(r)
      PROVE  /\ UNCHANGED <<infos, info, got, content, program>>
             /\ pc[r] = "ready" /\ pc'[r] \in {"get", "notfound", "fatal"}
             /\ \A q \in Procs : q # r => pc'[q] = pc[q] /\ fi'[q] = fi[q]
  BY <1>0, <1>2 DEF StatContext, Goto, servedVars, Procs
<1>3. ASSUME NEW u \in Updates, Syncing(u)
      PROVE  /\ UNCHANGED <<infos, info, got, content, program>>
             /\ pc[u] \in SyncSteps \cup {"ready"}
             /\ pc'[u] \in SyncSteps \cup {"done", "panic", "get1", "get2"}
             /\ \A q \in Procs : q # u => pc'[q] = pc[q] /\ fi'[q] = fi[q]
  <2>1. PICK s \in SyncSteps \cup {"done", "panic", "get1", "get2"} :
          pc' = [pc EXCEPT ![u] = s]
    BY <1>3, SyncingFacts
  <2>2. pc'[u] = s
    BY <1>0, <2>1 DEF Procs
  <2> QED
    BY <1>3, <2>2, SyncingFacts
<1>4. ASSUME NEW p \in Procs, Fatal(p)
      PROVE  /\ UNCHANGED <<infos, info, got, content, program, fi>>
             /\ pc'[p] = "fatal"
             /\ pc[p] \in SyncSteps \cup {"ready"} /\ (p \in Requests => pc[p] = "ready")
             /\ \A q \in Procs : q # p => pc'[q] = pc[q]
  BY <1>4, FatalFacts DEF servedVars, SyncSteps
<1>5. CASE \E r \in Requests : StatContext(r)
  BY <1>2, <1>5
<1>6. CASE \E u \in Updates : Syncing(u)
  BY <1>3, <1>6
<1>7. CASE \E p \in Procs : Fatal(p)
  BY <1>4, <1>7 DEF Procs
<1> QED
  BY StepCases, <1>1, <1>5, <1>6, <1>7

(* A call that starts meets all that are in flight. *)
LEMMA OverlapStep ==
  ASSUME TypeOK, TypeOK', PlaceInv, HandlerInv, OverlapInv, [Next]_vars
  PROVE  OverlapInv'
<1>0. pc \in [Procs -> Steps] /\ disturbed \subseteq Procs /\ unseen \in Nat
  BY DEF TypeOK
<1>1. ASSUME NEW p \in Procs, Starts(p), unseen' > 0 => unseen > 0,
             \A q \in Procs : q # p => pc'[q] = pc[q]
      PROVE  OverlapInv'
  BY <1>0, <1>1 DEF Starts, OverlapInv, InFlight
<1>2. ASSUME NEW p \in Procs, InFlight(p), UNCHANGED <<unseen, disturbed>>,
             \A q \in Procs : q # p => pc'[q] = pc[q]
      PROVE  OverlapInv'
  BY <1>2 DEF OverlapInv, InFlight
<1>3. CASE Write \/ UNCHANGED vars
  BY <1>3 DEF Write, vars, diskVars, OverlapInv, InFlight
<1>4. CASE Unlink
  BY <1>0, <1>4 DEF Unlink, OverlapInv, InFlight
<1>5. ASSUME NEW r \in Requests, StatContext(r)
      PROVE  OverlapInv'
  <2>1. /\ r \in Procs /\ Starts(r) /\ UNCHANGED unseen
        /\ \A q \in Procs : q # r => pc'[q] = pc[q]
    BY <1>0, <1>5 DEF StatContext, Goto, diskVars, Procs
  <2> QED
    BY <1>1, <2>1
<1>6. ASSUME NEW p \in Procs, Work(p)
      PROVE  OverlapInv'
  <2>1. /\ UNCHANGED <<unseen, disturbed>>
        /\ \A q \in Procs : q # p => pc'[q] = pc[q]
        /\ pc[p] \in Amending \cup Removing \cup {"program"}
    BY <1>6, WorkFacts DEF diskVars
  <2>2. InFlight(p)
    BY <2>1 DEF InFlight, Ended, Amending, Removing
  <2> QED
    BY <1>2, <2>1, <2>2
<1>7. ASSUME NEW u \in Updates, Syncing(u)
      PROVE  OverlapInv'
  <2>1. /\ u \in Procs /\ \A q \in Procs : q # u => pc'[q] = pc[q]
        /\ pc[u] \in SyncSteps \cup {"ready"}
        /\ \/ pc[u] = "ready" /\ Starts(u) /\ (unseen' > 0 => unseen > 0)
           \/ pc[u] # "ready" /\ UNCHANGED <<disturbed, unseen>>
    BY <1>7, SyncingFacts
  <2>2. pc[u] # "ready" => InFlight(u)
    BY <2>1 DEF InFlight, Ended, SyncSteps
  <2> QED
    BY <1>1, <1>2, <2>1, <2>2
<1>8. ASSUME NEW p \in Procs, Fatal(p)
      PROVE  OverlapInv'
  <2>1. /\ \A q \in Procs : q # p => pc'[q] = pc[q]
        /\ pc[p] \in {"ready", "find", "erase", "forget", "store"}
        /\ UNCHANGED unseen
        /\ \/ pc[p] = "ready" /\ Starts(p)
           \/ pc[p] # "ready" /\ UNCHANGED disturbed
    BY <1>8, FatalFacts DEF diskVars
  <2>2. pc[p] # "ready" => InFlight(p)
    BY <2>1 DEF InFlight, Ended
  <2> QED
    BY <1>1, <1>2, <2>1, <2>2
<1> QED
  BY StepCases, <1>3, <1>4, <1>5, <1>6, <1>7, <1>8

(* What a step does to the requests: a FileInfo is looked up once, and a   *)
(* request does not start again.                                           *)
Requested ==
  /\ disturbed \subseteq disturbed'
  /\ \A r \in Requests :
       /\ fi'[r] = fi[r] \/ pc[r] = "ready"
       /\ pc'[r] # pc[r] => pc'[r] # "ready"
       /\ pc[r] \notin {"ready", "notfound", "fatal"} =>
            pc'[r] \notin {"ready", "notfound", "fatal"}
       /\ content'[r] = content[r] \/ PrintContent(r)
       /\ program'[r] = program[r] \/ RunProgram(r)

(* Every step does. *)
LEMMA RequestStep ==
  ASSUME TypeOK, PlaceInv, HandlerInv, [Next]_vars
  PROVE  Requested
<1>1. disturbed \subseteq disturbed'
  <2>1. ASSUME NEW p \in Procs, Starts(p)
        PROVE  disturbed \subseteq disturbed'
    BY <2>1 DEF Starts
  <2>2. ASSUME NEW r \in Requests, StatContext(r)
        PROVE  disturbed \subseteq disturbed'
    BY <2>1, <2>2 DEF StatContext, Procs
  <2>3. ASSUME NEW u \in Updates, Syncing(u)
        PROVE  disturbed \subseteq disturbed'
    BY <2>1, <2>3, SyncingFacts
  <2>4. ASSUME NEW p \in Procs, Fatal(p)
        PROVE  disturbed \subseteq disturbed'
    BY <2>1, <2>4, FatalFacts
  <2>5. ASSUME NEW p \in Procs, Work(p)
        PROVE  disturbed \subseteq disturbed'
    BY <2>5, WorkFacts
  <2>6. CASE Write \/ Unlink \/ UNCHANGED vars
    BY <2>6 DEF Write, Unlink, vars
  <2> QED
    BY StepCases, <2>2, <2>3, <2>4, <2>5, <2>6
<1>2. ASSUME NEW r \in Requests
      PROVE  /\ fi'[r] = fi[r] \/ pc[r] = "ready"
             /\ pc'[r] # pc[r] => pc'[r] # "ready"
             /\ pc[r] \notin {"ready", "notfound", "fatal"} =>
                  pc'[r] \notin {"ready", "notfound", "fatal"}
             /\ content'[r] = content[r] \/ PrintContent(r)
             /\ program'[r] = program[r] \/ RunProgram(r)
  <2>0. r \in Procs /\ r \notin Updates
    BY ProcsAssumption DEF Procs
  <2>1. CASE ~\E p \in Procs : Work(p)
    BY <2>0, <2>1, OtherFacts
  <2>2. ASSUME NEW p \in Procs, Work(p)
        PROVE  /\ fi'[r] = fi[r]
               /\ pc'[r] = pc[r] \/ pc'[r] \notin {"ready", "notfound", "fatal"}
               /\ content'[r] = content[r] \/ PrintContent(r)
               /\ program'[r] = program[r] \/ RunProgram(r)
    <3>1. UNCHANGED fi
      BY <2>2, WorkFacts
    <3>2. pc'[r] = pc[r] \/ pc'[r] \notin {"ready", "notfound", "fatal"}
      BY <2>0, <2>2, WorkFacts
    <3>3. /\ UNCHANGED content \/ (p \in Requests /\ PrintContent(p))
          /\ UNCHANGED program \/ (p \in Requests /\ RunProgram(p))
      BY <2>2 DEF Work, Get, Check, Evict, Close, Create, Set, PrintContent, RunProgram,
        GetOld, CloseOld, DeleteOld, Notified, GetGone, DeleteGone, PathGone, CloseGone,
        servedVars
    <3>4. p # r /\ PrintContent(p) => content'[r] = content[r]
      BY DEF PrintContent, TypeOK
    <3>5. p # r /\ RunProgram(p) => program'[r] = program[r]
      BY DEF RunProgram, TypeOK
    <3> QED
      BY <3>1, <3>2, <3>3, <3>4, <3>5
  <2> QED
    BY <2>1, <2>2
<1> QED
  BY <1>1, <1>2 DEF Requested

(* What the steps with several outcomes leave behind. *)
LEMMA EvictFacts ==
  ASSUME NEW p \in Procs, Evict(p)
  PROVE  /\ pc[p] = "evict"
         /\ \/ pc' = [pc EXCEPT ![p] = "close"] /\ info' = 0
            \/ /\ pc' = [pc EXCEPT ![p] = "panic"] /\ info' = info
               /\ ~infos[got[p]].open
         /\ UNCHANGED <<infos, fi, got, unseen, disturbed>>
BY DEF Evict, Goto, diskVars

(* Close closes the info that is held, and no other. *)
LEMMA ClosingFacts ==
  ASSUME TypeOK, NEW p \in Procs, got[p] # 0, CloseInfo(got[p])
  PROVE  /\ got[p] \in 1..Len(infos)
         /\ Len(infos') = Len(infos)
         /\ ~infos'[got[p]].open
         /\ \A i \in 1..Len(infos) : i # got[p] => infos'[i] = infos[i]
<1>1. got[p] \in 1..Len(infos)
  BY FieldFacts
<1> QED
  BY <1>1, CloseFacts DEF CloseInfo, TypeOK

(* The time of an info is compared once, and neither it nor the FileInfo changes. *)
LEMMA CurrentStep ==
  ASSUME TypeOK, TypeOK', PlaceInv, HandlerInv, TimeInv, CurrentInv, [Next]_vars
  PROVE  CurrentInv'
<1> DEFINE Same == \A i \in 1..Len(infos) : /\ infos'[i].mtime = infos[i].mtime
                                            /\ infos'[i].ver = infos[i].ver
                                            /\ infos'[i].open => infos[i].open
           Held == \A q \in Procs : pc[q] \in Holding => got[q] \in 1..Len(infos)
<1>0. Same /\ Held /\ pc \in [Procs -> Steps] /\ got \in [Procs -> Nat]
  <2>1. Same
    BY GrowStep DEF Grown, Keeps
  <2>2. Held
    BY FieldFacts DEF PlaceInv
  <2> QED
    BY <2>1, <2>2, FieldFacts DEF TypeOK
<1>1. ASSUME ~\E p \in Procs : Work(p)
      PROVE  CurrentInv'
  <2>1. UNCHANGED <<infos, info, got>>
    BY <1>1, OtherFacts
  <2>2. \A q \in Procs :
          \/ pc'[q] = pc[q] /\ fi'[q] = fi[q]
          \/ pc'[q] \in SyncSteps \cup {"get", "notfound", "fatal", "done", "panic",
                                       "get1", "get2"}
    BY <1>1, OtherFacts
  <2> QED
    BY <2>1, <2>2 DEF CurrentInv, SyncSteps
<1>2. ASSUME NEW p \in Procs, Get(p)
      PROVE  CurrentInv'
  BY <1>2, <1>0, ProcsAssumption DEF Get, Goto, diskVars, fileVars,
    handlerVars, servedVars, TypeOK, Steps, PlaceInv, Holding, CurrentInv
<1>3. ASSUME NEW p \in Procs, Check(p)
      PROVE  CurrentInv'
  BY <1>3, <1>0, ProcsAssumption DEF Check, Goto, diskVars, fileVars,
    handlerVars, servedVars, TypeOK, Steps, PlaceInv, Holding, CurrentInv, Current
<1>4. ASSUME NEW p \in Procs, Evict(p)
      PROVE  CurrentInv'
  BY <1>4, <1>0, ProcsAssumption DEF Evict, Goto, diskVars, fileVars,
    handlerVars, servedVars, TypeOK, Steps, PlaceInv, Holding, CurrentInv
<1>5. ASSUME NEW p \in Procs, Close(p)
      PROVE  CurrentInv'
  <2>1. /\ pc[p] = "close" /\ pc' = [pc EXCEPT ![p] = "create"]
        /\ UNCHANGED <<fi, got>>
    BY <1>5 DEF Close, Goto
  <2>2. /\ got[p] \in 1..Len(infos) /\ Len(infos') = Len(infos)
        /\ \A i \in 1..Len(infos) : i # got[p] => infos'[i] = infos[i]
    BY <1>5, <2>1, ClosingFacts DEF Close, PlaceInv, Holding
  <2> QED
    BY <1>0, <2>1, <2>2 DEF Holding, CurrentInv
<1>6. ASSUME NEW p \in Procs, Create(p)
      PROVE  CurrentInv'
  BY <1>6, <1>0, ProcsAssumption, CreateFacts, ReaderFacts, SMTT(40) DEF Create, Goto,
    diskVars, fileVars, handlerVars, servedVars, TypeOK, Steps, PlaceInv, Holding,
    CurrentInv
<1>7. ASSUME NEW p \in Procs, Set(p)
      PROVE  CurrentInv'
  BY <1>7, <1>0, ProcsAssumption DEF Set, Goto, diskVars, fileVars,
    handlerVars, servedVars, TypeOK, Steps, PlaceInv, Holding, CurrentInv
<1>8. ASSUME NEW r \in Requests, PrintContent(r)
      PROVE  CurrentInv'
  BY <1>8, <1>0, ProcsAssumption, SMTT(40) DEF PrintContent, handlerVars, Goto, diskVars,
    fileVars, TypeOK, Steps, PlaceInv, Holding, CurrentInv, Procs
<1>9. ASSUME NEW r \in Requests, RunProgram(r)
      PROVE  CurrentInv'
  BY <1>9, <1>0, ProcsAssumption DEF RunProgram, handlerVars, Goto, diskVars, fileVars,
    TypeOK, Steps, PlaceInv, Holding, CurrentInv, Procs
<1>10. ASSUME NEW u \in Updates, GetOld(u)
       PROVE  CurrentInv'
  BY <1>10, <1>0, ProcsAssumption DEF GetOld, Goto, diskVars, fileVars,
    handlerVars, servedVars, TypeOK, Steps, PlaceInv, Holding, CurrentInv, Procs
<1>11. ASSUME NEW u \in Updates, CloseOld(u)
       PROVE  CurrentInv'
  <2>1. /\ pc[u] = "close1" /\ pc' = [pc EXCEPT ![u] = "delete1"]
        /\ u \in Procs /\ UNCHANGED <<info, fi, got, unseen, disturbed>>
    BY <1>11 DEF CloseOld, Goto, diskVars, Procs
  <2>2. /\ got[u] \in 1..Len(infos) /\ Len(infos') = Len(infos)
        /\ ~infos'[got[u]].open
        /\ \A i \in 1..Len(infos) : i # got[u] => infos'[i] = infos[i]
    BY <1>11, <2>1, ClosingFacts DEF CloseOld, PlaceInv, Holding, Procs
  <2> QED
    BY <1>0, <2>1, <2>2 DEF Holding, CurrentInv
<1>12. ASSUME NEW u \in Updates, DeleteOld(u)
       PROVE  CurrentInv'
  BY <1>12, <1>0, ProcsAssumption DEF DeleteOld, Goto, diskVars, fileVars,
    handlerVars, servedVars, TypeOK, Steps, PlaceInv, Holding, CurrentInv, Procs
<1>13. ASSUME NEW u \in Updates, Notified(u)
       PROVE  CurrentInv'
  BY <1>13, <1>0, ProcsAssumption DEF Notified, Goto, diskVars, fileVars,
    handlerVars, servedVars, TypeOK, Steps, PlaceInv, Holding, CurrentInv, Procs
<1>14. ASSUME NEW u \in Updates, GetGone(u)
       PROVE  CurrentInv'
  BY <1>14, <1>0, ProcsAssumption DEF GetGone, AfterGone, Goto, diskVars, fileVars,
    handlerVars, servedVars, TypeOK, Steps, PlaceInv, Holding, CurrentInv, Procs
<1>15. ASSUME NEW u \in Updates, DeleteGone(u)
       PROVE  CurrentInv'
  BY <1>15, <1>0, ProcsAssumption DEF DeleteGone, Goto, diskVars, fileVars,
    handlerVars, servedVars, TypeOK, Steps, PlaceInv, Holding, CurrentInv, Procs
<1>16. ASSUME NEW u \in Updates, PathGone(u)
       PROVE  CurrentInv'
  BY <1>16, <1>0, ProcsAssumption DEF PathGone, Goto, diskVars, fileVars,
    handlerVars, servedVars, TypeOK, Steps, PlaceInv, Holding, CurrentInv, Procs
<1>17. ASSUME NEW u \in Updates, CloseGone(u)
       PROVE  CurrentInv'
  <2>1. /\ pc[u] = "close2" /\ pc' = [pc EXCEPT ![u] = AfterGone(u)]
        /\ u \in Procs /\ UNCHANGED <<info, fi, got, unseen, disturbed>>
        /\ AfterGone(u) \in {"shut", "swap"}
    BY <1>17 DEF CloseGone, AfterGone, Goto, diskVars, Procs
  <2>2. /\ got[u] \in 1..Len(infos) /\ Len(infos') = Len(infos)
        /\ ~infos'[got[u]].open
        /\ \A i \in 1..Len(infos) : i # got[u] => infos'[i] = infos[i]
    BY <1>17, <2>1, ClosingFacts DEF CloseGone, PlaceInv, Holding, Procs
  <2>3. PICK s \in {"shut", "swap"} : pc' = [pc EXCEPT ![u] = s]
    BY <2>1
  <2> QED
    BY <1>0, <2>1, <2>2, <2>3 DEF Holding, CurrentInv
<1> QED
  BY <1>1, <1>2, <1>3, <1>4, <1>5, <1>6, <1>7, <1>8, <1>9, <1>10, <1>11, <1>12, <1>13,
     <1>14, <1>15, <1>16, <1>17
     DEF Work, Procs

(* An info belongs to its maker until it is in the map. *)
LEMMA OwnStep ==
  ASSUME TypeOK, TypeOK', PlaceInv, HandlerInv, TimeInv, OwnInv, [Next]_vars
  PROVE  OwnInv'
<1> DEFINE Same == \A i \in 1..Len(infos) : /\ infos'[i].mtime = infos[i].mtime
                                            /\ infos'[i].ver = infos[i].ver
                                            /\ infos'[i].open => infos[i].open
           Held == \A q \in Procs : pc[q] \in Holding => got[q] \in 1..Len(infos)
<1>0. Same /\ Held /\ pc \in [Procs -> Steps] /\ got \in [Procs -> Nat]
  <2>1. Same
    BY GrowStep DEF Grown, Keeps
  <2>2. Held
    BY FieldFacts DEF PlaceInv
  <2> QED
    BY <2>1, <2>2, FieldFacts DEF TypeOK
<1>1. ASSUME ~\E p \in Procs : Work(p)
      PROVE  OwnInv'
  <2>1. UNCHANGED <<infos, info, got>>
    BY <1>1, OtherFacts
  <2>2. \A q \in Procs :
          \/ pc'[q] = pc[q] /\ fi'[q] = fi[q]
          \/ pc'[q] \in SyncSteps \cup {"get", "notfound", "fatal", "done", "panic",
                                       "get1", "get2"}
    BY <1>1, OtherFacts
  <2> QED
    BY <2>1, <2>2 DEF OwnInv, SyncSteps
<1>2. ASSUME NEW p \in Procs, Get(p)
      PROVE  OwnInv'
  BY <1>2, <1>0, SeqFacts DEF Get, Goto, diskVars, fileVars, handlerVars, servedVars,
    TypeOK, Steps, PlaceInv, Holding, OwnInv
<1>3. ASSUME NEW p \in Procs, Check(p)
      PROVE  OwnInv'
  BY <1>3, <1>0, SeqFacts DEF Check, Goto, diskVars, fileVars, handlerVars, servedVars,
    TypeOK, Steps, PlaceInv, Holding, OwnInv
<1>4. ASSUME NEW p \in Procs, Evict(p)
      PROVE  OwnInv'
  <2>1. /\ pc[p] = "evict" /\ got[p] # 0 /\ UNCHANGED <<infos, got>>
        /\ \/ pc' = [pc EXCEPT ![p] = "close"] /\ info' = 0
           \/ pc' = [pc EXCEPT ![p] = "panic"] /\ info' = info
    BY <1>4, EvictFacts DEF PlaceInv, Holding
  <2>2. \A q \in Procs : pc[q] \in Holding => got[q] # 0
    BY DEF PlaceInv
  <2> QED
    BY <1>0, <2>1, <2>2 DEF Holding, OwnInv
<1>5. ASSUME NEW p \in Procs, Close(p)
      PROVE  OwnInv'
  <2>1. /\ pc[p] = "close" /\ pc' = [pc EXCEPT ![p] = "create"]
        /\ p \in Procs /\ UNCHANGED <<info, fi, got, unseen, disturbed>>
    BY <1>5 DEF Close, Goto, diskVars, Procs
  <2>2. /\ got[p] \in 1..Len(infos) /\ Len(infos') = Len(infos)
        /\ ~infos'[got[p]].open
        /\ \A i \in 1..Len(infos) : i # got[p] => infos'[i] = infos[i]
    BY <1>5, <2>1, ClosingFacts DEF Close, PlaceInv, Holding, Procs
  <2> QED
    BY <1>0, <2>1, <2>2 DEF Holding, OwnInv
<1>6. ASSUME NEW p \in Procs, Create(p)
      PROVE  OwnInv'
  <2>1. /\ Len(infos') = Len(infos) + 1 /\ infos'[Len(infos) + 1].open
        /\ got' = [got EXCEPT ![p] = Len(infos) + 1]
        /\ \A i \in 1..Len(infos) : infos'[i] = infos[i]
    BY <1>6, CreateFacts, ReaderFacts
  <2>2. pc[p] = "create" /\ pc' = [pc EXCEPT ![p] = "set"] /\ info' = info
    BY <1>6 DEF Create, Goto
  <2>3. info # Len(infos) + 1
    BY SeqFacts DEF TypeOK
  <2>4. ASSUME NEW q \in Procs
        PROVE  got[q] # Len(infos) + 1
    BY SeqFacts, SMTT(40) DEF TypeOK
  <2> QED
    BY <1>0, <2>1, <2>2, <2>3, <2>4 DEF Holding, OwnInv
<1>7. ASSUME NEW p \in Procs, Set(p)
      PROVE  OwnInv'
  BY <1>7, <1>0, SeqFacts DEF Set, Goto, diskVars, fileVars, handlerVars, servedVars,
    TypeOK, Steps, PlaceInv, Holding, OwnInv
<1>8. ASSUME NEW r \in Requests, PrintContent(r)
      PROVE  OwnInv'
  BY <1>8, <1>0, SeqFacts DEF PrintContent, handlerVars, Goto, diskVars, fileVars,
    TypeOK, Steps, PlaceInv, Holding, OwnInv, Procs
<1>9. ASSUME NEW r \in Requests, RunProgram(r)
      PROVE  OwnInv'
  BY <1>9, <1>0, SeqFacts DEF RunProgram, handlerVars, Goto, diskVars, fileVars, TypeOK,
    Steps, PlaceInv, Holding, OwnInv, Procs
<1>10. ASSUME NEW u \in Updates, GetOld(u)
       PROVE  OwnInv'
  BY <1>10, <1>0, SeqFacts DEF GetOld, Goto, diskVars, fileVars, handlerVars, servedVars,
    TypeOK, Steps, PlaceInv, Holding, OwnInv, Procs
<1>11. ASSUME NEW u \in Updates, CloseOld(u)
       PROVE  OwnInv'
  <2>1. /\ pc[u] = "close1" /\ pc' = [pc EXCEPT ![u] = "delete1"]
        /\ u \in Procs /\ UNCHANGED <<info, fi, got, unseen, disturbed>>
    BY <1>11 DEF CloseOld, Goto, diskVars, Procs
  <2>2. /\ got[u] \in 1..Len(infos) /\ Len(infos') = Len(infos)
        /\ ~infos'[got[u]].open
        /\ \A i \in 1..Len(infos) : i # got[u] => infos'[i] = infos[i]
    BY <1>11, <2>1, ClosingFacts DEF CloseOld, PlaceInv, Holding, Procs
  <2> QED
    BY <1>0, <2>1, <2>2 DEF Holding, OwnInv
<1>12. ASSUME NEW u \in Updates, DeleteOld(u)
       PROVE  OwnInv'
  BY <1>12, <1>0, SeqFacts DEF DeleteOld, Goto, diskVars, fileVars,
    handlerVars, servedVars, TypeOK, Steps, PlaceInv, Holding, OwnInv, Procs
<1>13. ASSUME NEW u \in Updates, Notified(u)
       PROVE  OwnInv'
  BY <1>13, <1>0, SeqFacts DEF Notified, Goto, diskVars, fileVars,
    handlerVars, servedVars, TypeOK, Steps, PlaceInv, Holding, OwnInv, Procs
<1>14. ASSUME NEW u \in Updates, GetGone(u)
       PROVE  OwnInv'
  BY <1>14, <1>0, SeqFacts DEF GetGone, AfterGone, Goto, diskVars, fileVars,
    handlerVars, servedVars, TypeOK, Steps, PlaceInv, Holding, OwnInv, Procs
<1>15. ASSUME NEW u \in Updates, DeleteGone(u)
       PROVE  OwnInv'
  BY <1>15, <1>0, SeqFacts, SMTT(40) DEF DeleteGone, Goto, diskVars, fileVars,
    handlerVars, servedVars, TypeOK, Steps, PlaceInv, Holding, OwnInv, Procs
<1>16. ASSUME NEW u \in Updates, PathGone(u)
       PROVE  OwnInv'
  BY <1>16, <1>0, SeqFacts, SMTT(40) DEF PathGone, Goto, diskVars, fileVars,
    handlerVars, servedVars, TypeOK, Steps, PlaceInv, Holding, OwnInv, Procs
<1>17. ASSUME NEW u \in Updates, CloseGone(u)
       PROVE  OwnInv'
  <2>1. /\ pc[u] = "close2" /\ pc' = [pc EXCEPT ![u] = AfterGone(u)]
        /\ u \in Procs /\ UNCHANGED <<info, fi, got, unseen, disturbed>>
        /\ AfterGone(u) \in {"shut", "swap"}
    BY <1>17 DEF CloseGone, AfterGone, Goto, diskVars, Procs
  <2>2. /\ got[u] \in 1..Len(infos) /\ Len(infos') = Len(infos)
        /\ ~infos'[got[u]].open
        /\ \A i \in 1..Len(infos) : i # got[u] => infos'[i] = infos[i]
    BY <1>17, <2>1, ClosingFacts DEF CloseGone, PlaceInv, Holding, Procs
  <2>3. PICK s \in {"shut", "swap"} : pc' = [pc EXCEPT ![u] = s]
    BY <2>1
  <2> QED
    BY <1>0, <2>1, <2>2, <2>3 DEF Holding, OwnInv
<1> QED
  BY <1>1, <1>2, <1>3, <1>4, <1>5, <1>6, <1>7, <1>8, <1>9, <1>10, <1>11, <1>12, <1>13,
     <1>14, <1>15, <1>16, <1>17
     DEF Work, Procs

(* The map holds a closed info between Close and Delete of an update only. *)
LEMMA ClosedStep ==
  ASSUME TypeOK, TypeOK', PlaceInv, HandlerInv, TimeInv, OwnInv, ClosedOnlyInUpdate,
    [Next]_vars
  PROVE  ClosedOnlyInUpdate'
<1> DEFINE Same == \A i \in 1..Len(infos) : /\ infos'[i].mtime = infos[i].mtime
                                            /\ infos'[i].ver = infos[i].ver
                                            /\ infos'[i].open => infos[i].open
           Held == \A q \in Procs : pc[q] \in Holding => got[q] \in 1..Len(infos)
<1>0. Same /\ Held /\ pc \in [Procs -> Steps] /\ got \in [Procs -> Nat]
  <2>1. Same
    BY GrowStep DEF Grown, Keeps
  <2>2. Held
    BY FieldFacts DEF PlaceInv
  <2> QED
    BY <2>1, <2>2, FieldFacts DEF TypeOK
<1>00. info # 0 => info \in 1..Len(infos)
  BY FieldFacts
<1>1. ASSUME ~\E p \in Procs : Work(p)
      PROVE  ClosedOnlyInUpdate'
  <2>1. UNCHANGED <<infos, info, got>>
    BY <1>1, OtherFacts
  <2>2. \A q \in Procs : pc'[q] = pc[q] \/ pc[q] \in SyncSteps \cup {"ready"}
    BY <1>1, OtherFacts
  <2> QED
    BY <2>1, <2>2 DEF ClosedOnlyInUpdate, SyncSteps, Procs
<1>2. ASSUME NEW p \in Procs, Get(p)
      PROVE  ClosedOnlyInUpdate'
  BY <1>2, <1>0, <1>00 DEF Get, Goto, diskVars, fileVars, handlerVars, servedVars,
    ClosedOnlyInUpdate, Procs
<1>3. ASSUME NEW p \in Procs, Check(p)
      PROVE  ClosedOnlyInUpdate'
  BY <1>3, <1>0, <1>00 DEF Check, Goto, diskVars, fileVars, handlerVars, servedVars,
    ClosedOnlyInUpdate, Procs
<1>4. ASSUME NEW p \in Procs, Evict(p)
      PROVE  ClosedOnlyInUpdate'
  BY <1>4, <1>0, <1>00, EvictFacts DEF Evict, Goto, diskVars, fileVars,
    handlerVars, servedVars, ClosedOnlyInUpdate, Procs
<1>5. ASSUME NEW p \in Procs, Close(p)
      PROVE  ClosedOnlyInUpdate'
  <2>1. /\ pc[p] = "close" /\ pc' = [pc EXCEPT ![p] = "create"]
        /\ p \in Procs /\ UNCHANGED <<info, fi, got, unseen, disturbed>>
    BY <1>5 DEF Close, Goto, diskVars, Procs
  <2>2. /\ got[p] \in 1..Len(infos) /\ Len(infos') = Len(infos)
        /\ ~infos'[got[p]].open
        /\ \A i \in 1..Len(infos) : i # got[p] => infos'[i] = infos[i]
    BY <1>5, <2>1, ClosingFacts DEF Close, PlaceInv, Holding, Procs
  <2> QED
    BY <1>0, <2>1, <2>2, <1>00 DEF Holding, ClosedOnlyInUpdate, OwnInv
<1>6. ASSUME NEW p \in Procs, Create(p)
      PROVE  ClosedOnlyInUpdate'
  <2>1. /\ pc[p] = "create" /\ pc' = [pc EXCEPT ![p] = "set"] /\ info' = info
        /\ \A i \in 1..Len(infos) : infos'[i] = infos[i]
        /\ \A q \in Procs : q # p => got'[q] = got[q]
    BY <1>6, <1>0, CreateFacts DEF Create, Goto
  <2> QED
    BY <1>0, <1>00, <2>1 DEF ClosedOnlyInUpdate, Procs
<1>7. ASSUME NEW p \in Procs, Set(p)
      PROVE  ClosedOnlyInUpdate'
  <2>1. info' = got[p] /\ infos' = infos /\ infos[got[p]].open
    BY <1>7 DEF Set, OwnInv
  <2> QED
    BY <2>1 DEF ClosedOnlyInUpdate
<1>8. ASSUME NEW r \in Requests, PrintContent(r)
      PROVE  ClosedOnlyInUpdate'
  BY <1>8, <1>0, <1>00 DEF PrintContent, handlerVars, Goto, diskVars, fileVars,
    ClosedOnlyInUpdate, Procs
<1>9. ASSUME NEW r \in Requests, RunProgram(r)
      PROVE  ClosedOnlyInUpdate'
  BY <1>9, <1>0, <1>00 DEF RunProgram, handlerVars, Goto, diskVars, fileVars,
    ClosedOnlyInUpdate, Procs
<1>10. ASSUME NEW u \in Updates, GetOld(u)
       PROVE  ClosedOnlyInUpdate'
  BY <1>10, <1>0, <1>00 DEF GetOld, Goto, diskVars, fileVars, handlerVars, servedVars,
    ClosedOnlyInUpdate, Procs
<1>11. ASSUME NEW u \in Updates, CloseOld(u)
       PROVE  ClosedOnlyInUpdate'
  <2>1. /\ pc[u] = "close1" /\ pc' = [pc EXCEPT ![u] = "delete1"]
        /\ u \in Procs /\ UNCHANGED <<info, fi, got, unseen, disturbed>>
    BY <1>11 DEF CloseOld, Goto, diskVars, Procs
  <2>2. /\ got[u] \in 1..Len(infos) /\ Len(infos') = Len(infos)
        /\ ~infos'[got[u]].open
        /\ \A i \in 1..Len(infos) : i # got[u] => infos'[i] = infos[i]
    BY <1>11, <2>1, ClosingFacts DEF CloseOld, PlaceInv, Holding, Procs
  <2> QED
    BY <1>0, <2>1, <2>2, <1>00 DEF Holding, ClosedOnlyInUpdate, OwnInv
<1>12. ASSUME NEW u \in Updates, DeleteOld(u)
       PROVE  ClosedOnlyInUpdate'
  BY <1>12, <1>0, <1>00 DEF DeleteOld, Goto, diskVars, fileVars, handlerVars, servedVars,
    ClosedOnlyInUpdate, Procs
<1>13. ASSUME NEW u \in Updates, Notified(u)
       PROVE  ClosedOnlyInUpdate'
  BY <1>13, <1>0, <1>00 DEF Notified, Goto, diskVars, fileVars, handlerVars, servedVars,
    ClosedOnlyInUpdate, Procs
<1>14. ASSUME NEW u \in Updates, GetGone(u)
       PROVE  ClosedOnlyInUpdate'
  BY <1>14, <1>0, <1>00 DEF GetGone, AfterGone, Goto, diskVars, fileVars, handlerVars, servedVars,
    ClosedOnlyInUpdate, Procs
<1>15. ASSUME NEW u \in Updates, DeleteGone(u)
       PROVE  ClosedOnlyInUpdate'
  BY <1>15, <1>0, <1>00 DEF DeleteGone, Goto, diskVars, fileVars,
    handlerVars, servedVars, ClosedOnlyInUpdate, Procs
<1>16. ASSUME NEW u \in Updates, PathGone(u)
       PROVE  ClosedOnlyInUpdate'
  BY <1>16, <1>0, <1>00 DEF PathGone, Goto, diskVars, fileVars, handlerVars, servedVars,
    ClosedOnlyInUpdate, Procs
<1>17. ASSUME NEW u \in Updates, CloseGone(u)
       PROVE  ClosedOnlyInUpdate'
  <2>1. /\ pc[u] = "close2" /\ pc' = [pc EXCEPT ![u] = AfterGone(u)]
        /\ u \in Procs /\ UNCHANGED <<info, fi, got, unseen, disturbed>>
    BY <1>17 DEF CloseGone, AfterGone, Goto, diskVars, Procs
  <2>2. /\ got[u] \in 1..Len(infos) /\ Len(infos') = Len(infos)
        /\ ~infos'[got[u]].open
        /\ \A i \in 1..Len(infos) : i # got[u] => infos'[i] = infos[i]
    BY <1>17, <2>1, ClosingFacts DEF CloseGone, AfterGone, PlaceInv, Holding, Procs
  <2> QED
    BY <1>0, <2>1, <2>2, <1>00 DEF Holding, ClosedOnlyInUpdate, OwnInv
<1> QED
  BY <1>1, <1>2, <1>3, <1>4, <1>5, <1>6, <1>7, <1>8, <1>9, <1>10, <1>11, <1>12, <1>13,
     <1>14, <1>15, <1>16, <1>17
     DEF Work, Procs

(* Together with the overlaps and the times. *)
LEMMA ClosedAlways ==
  Spec => [](/\ TypeOK /\ PlaceInv /\ HandlerInv /\ TimeInv
             /\ CurrentInv /\ OverlapInv /\ OwnInv /\ ClosedOnlyInUpdate)
<1>1. Init => CurrentInv /\ OverlapInv /\ OwnInv /\ ClosedOnlyInUpdate
  BY DEF Init, Procs, InFlight, CurrentInv, OverlapInv, OwnInv, ClosedOnlyInUpdate
<1>2. /\ TypeOK /\ PlaceInv /\ HandlerInv /\ TimeInv /\ TypeOK'
      /\ CurrentInv /\ OverlapInv /\ OwnInv /\ ClosedOnlyInUpdate
      /\ [Next]_vars
      => CurrentInv' /\ OverlapInv' /\ OwnInv' /\ ClosedOnlyInUpdate'
  BY CurrentStep, OverlapStep, OwnStep, ClosedStep
<1> QED
  BY <1>1, <1>2, TimeAlways, PTL DEF Spec

(* The map holds a closed info only between the Close and the Delete of    *)
(* update: whoever comes later finds an open one.                          *)
THEOREM ClosedTheorem == Spec => []ClosedOnlyInUpdate
BY ClosedAlways, PTL

(* A request prints and runs what is in the info it holds. *)
LEMMA ServeStep ==
  ASSUME TypeOK, TypeOK', PlaceInv, HandlerInv, TimeInv, CurrentInv, ServeInv, [Next]_vars
  PROVE  ServeInv'
<1>0. Grown /\ Requested
  BY GrowStep, RequestStep
<1>1. ASSUME NEW r \in Requests, Shown(got[r]) # 0,
             pc[r] \in {"content", "program"}, fi'[r] = fi[r]
      PROVE  /\ Shown(got[r]) \in 1..Len(born')
             /\ born'[Shown(got[r])] >= fi'[r].mtime
  <2>1. r \in Procs /\ got[r] \in 1..Len(infos)
    BY <1>1, FieldFacts DEF PlaceInv, Holding, Procs
  <2>2. Shown(got[r]) = infos[got[r]].ver
    BY <1>1 DEF Shown
  <2>3. /\ infos[got[r]].ver \in 1..Len(born)
        /\ born[infos[got[r]].ver] >= infos[got[r]].mtime
    BY <1>1, <2>1, <2>2 DEF TimeInv, InfoInv
  <2>4. infos[got[r]].mtime = fi[r].mtime
    BY <1>1, <2>1 DEF CurrentInv
  <2>5. Len(born') \in Nat /\ Len(born) <= Len(born')
        /\ \A v \in 1..Len(born) : born'[v] = born[v]
    BY <1>0, SeqFacts DEF Grown
  <2> QED
    BY <1>1, <2>2, <2>3, <2>4, <2>5, SeqFacts
<1>2. ASSUME NEW r \in Requests, NEW c \in 1..Len(born), born[c] >= fi[r].mtime
      PROVE  c \in 1..Len(born') /\ born'[c] >= fi[r].mtime
  <2>1. Len(born') \in Nat /\ Len(born) <= Len(born')
        /\ \A v \in 1..Len(born) : born'[v] = born[v]
    BY <1>0, SeqFacts DEF Grown
  <2> QED
    BY <1>2, <2>1, SeqFacts
<1> SUFFICES ASSUME NEW r \in Requests
             PROVE  /\ pc'[r] = "ready" => content'[r] = 0 /\ program'[r] = 0
                    /\ content'[r] # 0 => /\ content'[r] \in 1..Len(born')
                                          /\ born'[content'[r]] >= fi'[r].mtime
                    /\ program'[r] # 0 => /\ program'[r] \in 1..Len(born')
                                          /\ born'[program'[r]] >= fi'[r].mtime
  BY DEF ServeInv
<1>3. /\ pc[r] = "ready" => content[r] = 0 /\ program[r] = 0
      /\ content[r] # 0 => content[r] \in 1..Len(born) /\ born[content[r]] >= fi[r].mtime
      /\ program[r] # 0 => program[r] \in 1..Len(born) /\ born[program[r]] >= fi[r].mtime
  BY DEF ServeInv
<1>4. /\ fi'[r] = fi[r] \/ pc[r] = "ready"
      /\ pc'[r] = "ready" => pc[r] = "ready"
      /\ content'[r] = content[r] \/ PrintContent(r)
      /\ program'[r] = program[r] \/ RunProgram(r)
  BY <1>0 DEF Requested
<1>5. PrintContent(r) => /\ pc[r] = "content" /\ content'[r] = Shown(got[r])
                         /\ fi' = fi
  BY DEF PrintContent, TypeOK
<1>6. RunProgram(r) => /\ pc[r] = "program" /\ program'[r] = Shown(got[r])
                       /\ fi' = fi
  BY DEF RunProgram, TypeOK
<1> QED
  BY <1>1, <1>2, <1>3, <1>4, <1>5, <1>6

(* What a request has served is never older than the file was when the     *)
(* request looked it up, whoever made the info it found.                   *)
THEOREM OlderTheorem == Spec => []NeverOlderThanStat
<1>1. Init => ServeInv
  BY DEF Init, ServeInv
<1>2. /\ TypeOK /\ PlaceInv /\ HandlerInv /\ TimeInv /\ TypeOK' /\ CurrentInv
      /\ ServeInv /\ [Next]_vars
      => ServeInv'
  BY ServeStep
<1>3. ServeInv => NeverOlderThanStat
  BY DEF ServeInv, NeverOlderThanStat
<1> QED
  BY <1>1, <1>2, <1>3, ClosedAlways, PTL DEF Spec

(* The steps on the map of cached files, field by field. *)
LEMMA SyncFields ==
  ASSUME TypeOK, HandlerInv, NEW u \in Updates
  PROVE  /\ Sync(u) => /\ pc[u] = "ready" /\ pc'[u] = "find" /\ there
                       /\ sncfi'[u] = Len(born) /\ Starts(u)
                       /\ UNCHANGED <<stats, stat, fi, chdst, unseen>>
         /\ Find(u) => /\ pc[u] = "find" /\ pc'[u] = Found(u, stat)
                       /\ chdst'[u] = stat
                       /\ UNCHANGED <<stats, stat, sncfi, unseen, disturbed>>
         /\ Swap(u) => /\ pc[u] = "swap" /\ pc'[u] = "forget"
                       /\ UNCHANGED <<stat, fi, sncfi, chdst, unseen, disturbed>>
         /\ Forget(u) => /\ pc[u] = "forget" /\ stat' = 0
                         /\ pc'[u] = IF sncfi[u] \in blank THEN "done" ELSE "load"
                         /\ UNCHANGED <<stats, fi, sncfi, chdst, unseen, disturbed>>
         /\ LoadStat(u) => /\ pc[u] = "load"
                           /\ pc'[u] = IF there THEN "store" ELSE "done"
                           /\ UNCHANGED <<stat, sncfi, chdst, unseen, disturbed>>
         /\ Store(u) => /\ pc[u] = "store" /\ pc'[u] = "tell"
                        /\ stat' = fi[u].src /\ sncfi'[u] = 0
                        /\ UNCHANGED <<stats, fi, chdst, unseen, disturbed>>
         /\ Tell(u) => /\ pc[u] = "tell"
                       /\ pc'[u] = IF stats[fi[u].src].open THEN "get1" ELSE "panic"
                       /\ UNCHANGED <<stats, stat, fi, sncfi, chdst, unseen, disturbed>>
         /\ Drop(u) => /\ pc[u] = "ready" /\ chdst'[u] = stat
                       /\ pc'[u] = IF stat = 0 THEN "done" ELSE "erase"
                       /\ unseen > 0 /\ unseen' = unseen - 1 /\ Starts(u)
                       /\ UNCHANGED <<stats, stat, fi, sncfi>>
         /\ Erase(u) => /\ pc[u] = "erase" /\ pc'[u] = "gone" /\ stat' = 0
                        /\ UNCHANGED <<stats, fi, sncfi, chdst, unseen, disturbed>>
         /\ Gone(u) => /\ pc[u] = "gone"
                       /\ pc'[u] = IF stats[chdst[u]].open THEN "get2" ELSE "panic"
                       /\ UNCHANGED <<stats, stat, sncfi, chdst, unseen, disturbed>>
         /\ Shut(u) => /\ pc[u] = "shut" /\ pc'[u] = "done"
                       /\ UNCHANGED <<stat, fi, sncfi, chdst, unseen, disturbed>>
<1>1. /\ u \in Procs /\ pc \in [Procs -> Steps]
      /\ sncfi \in [Updates -> 0..Len(born)] /\ chdst \in [Updates -> 0..Len(stats)]
  BY DEF TypeOK, Procs
<1>2. /\ Sync(u) => /\ pc[u] = "ready" /\ pc'[u] = "find" /\ there
                    /\ sncfi'[u] = Len(born) /\ Starts(u)
                    /\ UNCHANGED <<stats, stat, fi, chdst, unseen>>
      /\ Find(u) => /\ pc[u] = "find" /\ pc'[u] = Found(u, stat)
                    /\ chdst'[u] = stat
                    /\ UNCHANGED <<stats, stat, sncfi, unseen, disturbed>>
      /\ Swap(u) => /\ pc[u] = "swap" /\ pc'[u] = "forget"
                    /\ UNCHANGED <<stat, fi, sncfi, chdst, unseen, disturbed>>
  BY <1>1 DEF Sync, Find, Swap, Goto, diskVars, fileVars, handlerVars
<1>3. /\ Forget(u) => /\ pc[u] = "forget" /\ stat' = 0
                      /\ pc'[u] = IF sncfi[u] \in blank THEN "done" ELSE "load"
                      /\ UNCHANGED <<stats, fi, sncfi, chdst, unseen, disturbed>>
      /\ LoadStat(u) => /\ pc[u] = "load"
                        /\ pc'[u] = IF there THEN "store" ELSE "done"
                        /\ UNCHANGED <<stat, sncfi, chdst, unseen, disturbed>>
      /\ Store(u) => /\ pc[u] = "store" /\ pc'[u] = "tell"
                     /\ stat' = fi[u].src /\ sncfi'[u] = 0
                     /\ UNCHANGED <<stats, fi, chdst, unseen, disturbed>>
  BY <1>1 DEF Forget, LoadStat, Store, Goto, diskVars, fileVars, handlerVars
<1>4. /\ Tell(u) => /\ pc[u] = "tell"
                    /\ pc'[u] = IF stats[fi[u].src].open THEN "get1" ELSE "panic"
                    /\ UNCHANGED <<stats, stat, fi, sncfi, chdst, unseen, disturbed>>
      /\ Drop(u) => /\ pc[u] = "ready" /\ chdst'[u] = stat
                    /\ pc'[u] = IF stat = 0 THEN "done" ELSE "erase"
                    /\ unseen > 0 /\ unseen' = unseen - 1 /\ Starts(u)
                    /\ UNCHANGED <<stats, stat, fi, sncfi>>
      /\ Erase(u) => /\ pc[u] = "erase" /\ pc'[u] = "gone" /\ stat' = 0
                     /\ UNCHANGED <<stats, fi, sncfi, chdst, unseen, disturbed>>
  BY <1>1 DEF Tell, Drop, Erase, Goto, diskVars, fileVars, handlerVars
<1>5. /\ Gone(u) => /\ pc[u] = "gone"
                    /\ pc'[u] = IF stats[chdst[u]].open THEN "get2" ELSE "panic"
                    /\ UNCHANGED <<stats, stat, sncfi, chdst, unseen, disturbed>>
      /\ Shut(u) => /\ pc[u] = "shut" /\ pc'[u] = "done"
                    /\ UNCHANGED <<stat, fi, sncfi, chdst, unseen, disturbed>>
  BY <1>1 DEF Gone, Shut, Goto, diskVars, fileVars, handlerVars
<1> QED
  BY <1>2, <1>3, <1>4, <1>5

(* What a call keeps while another one moves. *)
Rests(u) ==
  /\ pc'[u] = pc[u] /\ fi'[u] = fi[u] /\ got'[u] = got[u]
  /\ sncfi'[u] = sncfi[u] /\ chdst'[u] = chdst[u]

(* Only a step of its own moves an update. *)
LEMMA RestFacts ==
  ASSUME TypeOK, PlaceInv, HandlerInv, [Next]_vars, NEW u \in Updates
  PROVE  Rests(u) \/ Work(u) \/ Syncing(u) \/ Fatal(u)
<1>0. /\ u \in Procs /\ u \notin Requests
      /\ pc \in [Procs -> Steps] /\ fi \in [Procs -> FileInfo]
  BY ProcsAssumption DEF Procs, TypeOK
<1>1. CASE Write \/ Unlink \/ UNCHANGED vars
  BY <1>1 DEF Write, Unlink, vars, handlerVars, Rests
<1>2. ASSUME NEW r \in Requests, StatContext(r)
      PROVE  Rests(u)
  BY <1>0, <1>2 DEF StatContext, Goto, handlerVars, Rests
<1>3. ASSUME NEW p \in Procs, Work(p), p # u
      PROVE  Rests(u)
  BY <1>0, <1>3, WorkFacts DEF Rests
<1>4. ASSUME NEW w \in Updates, Syncing(w), w # u
      PROVE  Rests(u)
  BY <1>0, <1>4, SyncingFacts DEF Rests
<1>5. ASSUME NEW p \in Procs, Fatal(p), p # u
      PROVE  Rests(u)
  BY <1>0, <1>5, FatalFacts DEF Rests, handlerVars
<1> QED
  BY StepCases, <1>1, <1>2, <1>3, <1>4, <1>5

(* Who syncs, and what the others do then. *)
LEMMA SyncingRests ==
  ASSUME TypeOK, HandlerInv, NEW u \in Updates, Syncing(u)
  PROVE  \A w \in Updates : w # u => Rests(w)
BY SyncingFacts DEF Rests, Procs

(* A program that has gone down does not move. *)
LEMMA CrashedFacts ==
  ASSUME [Next]_vars
  PROVE  /\ Crashed => UNCHANGED vars
         /\ Crashed => Crashed'
<1>1. Crashed => UNCHANGED vars
  BY DEF Next
<1>2. ASSUME UNCHANGED vars, Crashed
      PROVE  Crashed'
  BY <1>2 DEF vars, Crashed
<1> QED
  BY <1>1, <1>2

(* The cachedstat that is about to be stored is nobody else's. *)
LEMMA NewStep ==
  ASSUME TypeOK, TypeOK', PlaceInv, HandlerInv, TimeInv, NewInv, [Next]_vars
  PROVE  NewInv'
<1>0. Grown /\ Changes /\ \A w \in Updates : w \in Procs
  BY GrowStep, ChangeStep DEF Procs
<1>1. \A w \in Updates : /\ chdst[w] \in 0..Len(stats)
                         /\ pc[w] = "store" => /\ fi[w].src \in 1..Len(stats)
                                               /\ stats[fi[w].src].open
                                               /\ stat # fi[w].src
  <2> SUFFICES ASSUME NEW w \in Updates
               PROVE  /\ chdst[w] \in 0..Len(stats)
                      /\ pc[w] = "store" => /\ fi[w].src \in 1..Len(stats)
                                            /\ stats[fi[w].src].open
                                            /\ stat # fi[w].src
    OBVIOUS
  <2>1. pc[w] = "store" => fi[w].src # 0
    BY DEF HandlerInv, Placed
  <2> QED
    BY <1>0, <2>1 DEF TimeInv, FileInv, NewInv, TypeOK
<1>2. stat \in 0..Len(stats) /\ Len(stats) \in Nat
  BY DEF TypeOK
<1>3. ASSUME NEW u \in Updates, LoadStat(u)
      PROVE  NewInv'
  <2>1. CASE there
    <3>1. /\ fi'[u].src = Len(stats) + 1 /\ stats'[Len(stats) + 1].open
          /\ \A s \in 1..Len(stats) : stats'[s] = stats[s]
          /\ UNCHANGED <<stat, chdst>> /\ u \in Procs
      <4>1. fi \in [Procs -> FileInfo] /\ u \in Procs
        BY DEF TypeOK, Procs
      <4>2. fi' = [fi EXCEPT ![u] = [mtime |-> born[sncfi[u]], src |-> Len(stats) + 1]]
        BY <1>3, <2>1, LoadFacts
      <4>3. fi'[u].src = Len(stats) + 1
        BY <4>1, <4>2
      <4> QED
        BY <1>3, <2>1, <4>1, <4>3, LoadFacts DEF handlerVars
    <3>2. \A w \in Updates : w # u => pc'[w] = pc[w] /\ fi'[w] = fi[w]
      BY <1>0, <1>3, SyncingFacts DEF Syncing
    <3> QED
      BY <1>1, <1>2, <3>1, <3>2 DEF NewInv
  <2>2. CASE ~there
    <3>1. pc'[u] = "done" /\ UNCHANGED <<stats, stat, fi, chdst>>
      BY <1>0, <1>3, <2>2, LoadFacts DEF handlerVars, TypeOK
    <3>2. \A w \in Updates : w # u => pc'[w] = pc[w]
      BY <1>0, <1>3, SyncingFacts DEF Syncing
    <3> QED
      BY <3>1, <3>2 DEF NewInv
  <2> QED
    BY <2>1, <2>2
<1>4. ASSUME ~\E u \in Updates : LoadStat(u)
      PROVE  NewInv'
  <2>1. \A w \in Updates : pc'[w] = "store" => pc[w] = "store" /\ fi'[w] = fi[w]
    <3> SUFFICES ASSUME NEW w \in Updates, pc'[w] = "store"
                 PROVE  pc[w] = "store" /\ fi'[w] = fi[w]
      OBVIOUS
    <3>1. ~Work(w)
      BY <1>0, WorkFacts DEF Amending, Removing
    <3>2. ~Fatal(w)
      BY <1>0, FatalFacts
    <3>3. ~Syncing(w)
      BY <1>4, SyncFields, FoundFacts DEF Syncing
    <3> QED
      BY <3>1, <3>2, <3>3, RestFacts DEF Rests
  <2>2. ASSUME NEW w \in Updates, pc[w] = "store", pc'[w] = "store"
        PROVE  stats'[fi[w].src].open /\ stat' # fi[w].src
    <3>1. CASE UNCHANGED <<stats, stat>>
      BY <1>1, <2>2, <3>1
    <3>2. ASSUME NEW u \in Updates, Swap(u) \/ Shut(u)
          PROVE  stats'[fi[w].src].open /\ stat' # fi[w].src
      <4>1. chdst[u] # fi[w].src
        BY <2>2 DEF NewInv
      <4>2. stats'[fi[w].src] = stats[fi[w].src]
        BY <1>1, <2>2, <3>2, <4>1, ShutFacts
      <4>3. UNCHANGED stat
        BY <3>2, SyncFields
      <4> QED
        BY <1>1, <2>2, <4>2, <4>3
    <3>3. ASSUME NEW u \in Updates, Forget(u) \/ Erase(u)
          PROVE  stats'[fi[w].src].open /\ stat' # fi[w].src
      <4>1. stat' = 0 /\ UNCHANGED stats
        BY <3>3, SyncFields
      <4> QED
        BY <1>1, <2>2, <4>1
    <3>4. ASSUME NEW u \in Updates, Store(u)
          PROVE  stats'[fi[w].src].open /\ stat' # fi[w].src
      <4>1. stat' = fi[u].src /\ UNCHANGED stats /\ pc[u] = "store" /\ pc'[u] = "tell"
        BY <3>4, SyncFields
      <4>2. fi[u].src # fi[w].src
        BY <2>2, <4>1 DEF NewInv
      <4> QED
        BY <1>1, <2>2, <4>1, <4>2
    <3>5. CASE UNCHANGED stats /\ UNCHANGED stat
      BY <3>1, <3>5
    <3>6. \A u \in Updates : Swap(u) \/ Shut(u) => UNCHANGED stat
      BY SyncFields
    <3>7. \A u \in Updates : Forget(u) \/ Store(u) \/ Erase(u) => UNCHANGED stats
      BY SyncFields
    <3> QED
      BY <1>0, <1>4, <3>2, <3>3, <3>4, <3>5 DEF Changes
  <2>3. \A w \in Updates : chdst'[w] = chdst[w] \/ chdst'[w] = stat
    <3> SUFFICES ASSUME NEW w \in Updates
                 PROVE  chdst'[w] = chdst[w] \/ chdst'[w] = stat
      OBVIOUS
    <3>1. Work(w) \/ Fatal(w) => UNCHANGED chdst
      BY <1>0, WorkFacts, FatalFacts DEF handlerVars
    <3>2. Syncing(w) => chdst'[w] = chdst[w] \/ chdst'[w] = stat
      BY SyncFields DEF Syncing
    <3> QED
      BY <3>1, <3>2, RestFacts DEF Rests
  <2> QED
    BY <1>1, <2>1, <2>2, <2>3 DEF NewInv
<1> QED
  BY <1>3, <1>4

(* Two calls that are in flight at once are both disturbed. *)
LEMMA MetFacts ==
  ASSUME OverlapInv, NEW p \in Procs, NEW q \in Procs, p # q,
         InFlight(p), InFlight(q)
  PROVE  p \in disturbed /\ q \in disturbed
BY DEF OverlapInv

(* A closed cachedstat leaves the map before it is closed, or right after. *)
LEMMA MapStep ==
  ASSUME TypeOK, TypeOK', PlaceInv, HandlerInv, TimeInv, NewInv, MapInv, [Next]_vars
  PROVE  MapInv'
<1> SUFFICES ASSUME ~Crashed'
             PROVE  MapInv'
  BY DEF MapInv
<1> DEFINE Off(u) == pc[u] \in {"gone", "shut"} \cup Removing /\ sncfi[u] = 0
<1>0. /\ ~Crashed
      /\ \A u \in Updates : Off(u) => chdst[u] # stat
      /\ stat # 0 /\ ~stats[stat].open =>
           \E w \in Updates : pc[w] = "forget" /\ chdst[w] = stat
  BY CrashedFacts DEF MapInv
<1>1. /\ \A w \in Updates : w \in Procs
      /\ Changes /\ Grown
      /\ stat # 0 => stat \in 1..Len(stats)
  BY ChangeStep, GrowStep, FieldFacts DEF Procs
<1>2. ASSUME NEW w \in Updates, Off(w)'
      PROVE  chdst'[w] # stat'
  <2>1. CASE Rests(w) \/ Work(w)
    <3>1. chdst'[w] = chdst[w] /\ Off(w)
      <4>1. CASE Rests(w)
        BY <1>2, <4>1 DEF Rests
      <4>2. CASE Work(w)
        <5>1. UNCHANGED <<sncfi, chdst>> /\ pc'[w] \in {"shut"} \cup Removing
          BY <1>1, <1>2, <4>2, WorkFacts DEF Amending, Removing
        <5>2. pc[w] \in Removing
          BY <1>1, <4>2, <5>1, WorkFacts
        <5> QED
          BY <1>2, <5>1, <5>2
      <4> QED
        BY <2>1, <4>1, <4>2
    <3>2. chdst[w] # 0 /\ chdst[w] # stat
      BY <1>0, <3>1 DEF HandlerInv, Placed
    <3>3. CASE stat' = stat \/ stat' = 0
      BY <3>1, <3>2, <3>3
    <3>4. ASSUME NEW u \in Updates, Store(u)
          PROVE  chdst'[w] # stat'
      <4>1. pc[u] = "store" /\ stat' = fi[u].src
        BY <3>4, SyncFields
      <4> QED
        BY <3>1, <4>1 DEF NewInv
    <3>5. \A u \in Updates : Forget(u) \/ Erase(u) => stat' = 0
      BY SyncFields
    <3> QED
      BY <1>1, <3>3, <3>4, <3>5 DEF Changes
  <2>2. ASSUME Syncing(w)
        PROVE  chdst'[w] # stat'
    <3>1. pc'[w] \in {"gone", "shut"} \cup Removing /\ sncfi'[w] = 0
      BY <1>2
    <3>2. ~(Sync(w) \/ Swap(w) \/ Forget(w) \/ LoadStat(w) \/ Store(w) \/ Tell(w)
              \/ Drop(w) \/ Shut(w))
      BY <3>1, SyncFields DEF Removing
    <3>3. ~Find(w)
      <4>1. ASSUME Find(w)
            PROVE  sncfi[w] \in 1..Len(born) /\ UNCHANGED sncfi
        BY <4>1, FoundFacts
      <4> QED
        BY <3>1, <4>1
    <3>4. CASE Erase(w)
      <4>1. stat' = 0 /\ chdst'[w] = chdst[w] /\ pc[w] = "erase"
        BY <3>4, SyncFields
      <4>2. chdst[w] # 0
        BY <4>1 DEF HandlerInv, Placed
      <4> QED
        BY <4>1, <4>2
    <3>5. CASE Gone(w)
      <4>1. UNCHANGED <<stat, sncfi, chdst>> /\ pc[w] = "gone"
        BY <3>5, SyncFields
      <4> QED
        BY <1>0, <3>1, <4>1
    <3> QED
      BY <2>2, <3>2, <3>3, <3>4, <3>5 DEF Syncing
  <2>3. ASSUME Fatal(w)
        PROVE  FALSE
    BY <1>1, <1>2, <2>3, FatalFacts DEF Removing
  <2> QED
    BY <2>1, <2>2, <2>3, RestFacts
<1>3. ASSUME stat' # 0, ~stats'[stat'].open
      PROVE  \E w \in Updates : pc'[w] = "forget" /\ chdst'[w] = stat'
  <2>1. ASSUME NEW u \in Updates, Store(u)
        PROVE  FALSE
    <3>1. pc[u] = "store" /\ stat' = fi[u].src /\ UNCHANGED stats
      BY <2>1, SyncFields
    <3> QED
      BY <1>3, <3>1 DEF NewInv
  <2>2. \A u \in Updates : Forget(u) \/ Erase(u) => stat' = 0
    BY SyncFields
  <2>3. stat' = stat
    BY <1>1, <1>3, <2>1, <2>2 DEF Changes
  <2>4. CASE stats[stat].open
    <3>1. ASSUME NEW u \in Updates, Swap(u) \/ Shut(u), chdst[u] # stat
          PROVE  FALSE
      BY <1>1, <1>3, <2>3, <2>4, <3>1, ShutFacts
    <3>2. ASSUME NEW u \in Updates, LoadStat(u)
          PROVE  FALSE
      <4>1. stats'[stat] = stats[stat]
        <5>1. CASE there
          BY <1>1, <1>3, <2>3, <3>2, <5>1, LoadFacts
        <5>2. CASE ~there
          BY <3>2, <5>2, LoadFacts
        <5> QED
          BY <5>1, <5>2
      <4> QED
        BY <1>3, <2>3, <2>4, <4>1
    <3>3. PICK u \in Updates : (Swap(u) \/ Shut(u)) /\ chdst[u] = stat
      <4>1. stats' # stats
        BY <1>3, <2>3, <2>4
      <4> QED
        BY <1>1, <3>1, <3>2, <4>1 DEF Changes
    <3>4. ~Shut(u)
      <4>1. ASSUME Shut(u)
            PROVE  FALSE
        <5>1. pc[u] = "shut"
          BY <4>1, SyncFields
        <5>2. sncfi[u] = 0
          BY <5>1 DEF HandlerInv, Placed
        <5> QED
          BY <1>0, <3>3, <5>1, <5>2
      <4> QED
        BY <4>1
    <3>5. pc'[u] = "forget" /\ chdst'[u] = stat
      BY <3>3, <3>4, SyncFields
    <3> QED
      BY <2>3, <3>5
  <2>5. CASE ~stats[stat].open
    <3>1. PICK w \in Updates : pc[w] = "forget" /\ chdst[w] = stat
      BY <1>0, <1>3, <2>3, <2>5
    <3>2. ~Work(w)
      BY <1>1, <3>1, WorkFacts DEF Amending, Removing
    <3>3. ~Syncing(w)
      <4>1. ~Forget(w)
        BY <1>3, <2>2
      <4> QED
        BY <3>1, <4>1, SyncFields DEF Syncing
    <3>4. ~Fatal(w)
      <4>1. ASSUME Fatal(w)
            PROVE  Crashed'
        BY <1>1, <4>1, FatalFacts DEF Crashed
      <4> QED
        BY <4>1
    <3>5. Rests(w)
      BY <3>2, <3>3, <3>4, RestFacts
    <3> QED
      BY <2>3, <3>1, <3>5 DEF Rests
  <2> QED
    BY <2>4, <2>5
<1> QED
  BY <1>2, <1>3 DEF MapInv

(* Who has met another update stays so. *)
LEMMA MetKept ==
  ASSUME TypeOK, PlaceInv, HandlerInv, [Next]_vars, NEW u \in Updates, Met(u)
  PROVE  Met(u)'
BY RequestStep DEF Requested, Met

(* An update that works on a closed cachedstat has met another one. *)
LEMMA ShutStep ==
  ASSUME TypeOK, TypeOK', PlaceInv, HandlerInv, TimeInv, OverlapInv, NewInv, MapInv,
         ShutInv, [Next]_vars
  PROVE  ShutInv'
<1> DEFINE Bad(u) == \/ pc[u] = "tell" /\ ~stats[fi[u].src].open
                     \/ pc[u] \in {"erase", "gone"} /\ ~stats[chdst[u]].open
<1> SUFFICES ASSUME NEW u \in Updates, Bad(u)'
             PROVE  Met(u)'
  BY DEF ShutInv
<1>0. u \in Procs /\ Changes /\ \A w \in Updates : w \in Procs
  BY ChangeStep DEF Procs
<1>1. CASE Bad(u)
  BY <1>1, MetKept DEF ShutInv
<1>2. CASE Crashed
  <2>1. UNCHANGED vars
    BY <1>2, CrashedFacts
  <2>2. Bad(u)
    BY <2>1 DEF vars, fileVars, handlerVars
  <2> QED
    BY <1>1, <2>2
<1>3. CASE ~Crashed /\ ~Bad(u) /\ Rests(u)
  <2>1. /\ pc[u] \in {"tell", "erase", "gone"} /\ InFlight(u)
        /\ \/ ~stats'[fi[u].src].open /\ pc[u] = "tell" /\ stats[fi[u].src].open
           \/ ~stats'[chdst[u]].open /\ pc[u] # "tell" /\ stats[chdst[u]].open
    BY <1>3 DEF Rests, InFlight, Ended
  <2>2. /\ pc[u] = "tell" => fi[u].src \in 1..Len(stats)
        /\ pc[u] # "tell" => chdst[u] \in 1..Len(stats)
    <3>1. /\ pc[u] = "tell" => fi[u].src # 0
          /\ pc[u] # "tell" => chdst[u] # 0
      BY <2>1 DEF HandlerInv, Placed
    <3> QED
      BY <1>0, <3>1, HandlerFacts DEF TimeInv, FileInv
  <2>3. ASSUME NEW w \in Updates, LoadStat(w)
        PROVE  FALSE
    <3>1. CASE there
      BY <2>1, <2>2, <2>3, <3>1, LoadFacts
    <3>2. CASE ~there
      BY <2>1, <2>3, <3>2, LoadFacts
    <3> QED
      BY <3>1, <3>2
  <2>4. PICK w \in Updates : Swap(w) \/ Shut(w)
    <3>1. stats' # stats
      BY <2>1
    <3> QED
      BY <1>0, <2>3, <3>1 DEF Changes
  <2>5. pc[w] \in {"swap", "shut"}
    BY <2>4, SyncFields
  <2>6. InFlight(w) /\ w # u /\ w \in Procs
    BY <1>0, <2>1, <2>5 DEF InFlight, Ended
  <2>7. u \in disturbed /\ w \in disturbed
    BY <1>0, <2>1, <2>6, MetFacts
  <2>8. Met(u)
    BY <2>6, <2>7 DEF Met
  <2> QED
    BY <2>8, MetKept
<1>4. ASSUME Work(u) \/ Fatal(u)
      PROVE  FALSE
  BY <1>0, <1>4, WorkFacts, FatalFacts DEF Amending, Removing
<1>5. CASE ~Crashed /\ ~Bad(u) /\ Syncing(u)
  <2>1. ~(Sync(u) \/ Swap(u) \/ Forget(u) \/ LoadStat(u) \/ Tell(u) \/ Gone(u) \/ Shut(u))
    BY SyncFields
  <2>2. ~Find(u)
    <3>1. ASSUME Find(u)
          PROVE  pc'[u] \in {"done", "load", "panic", "swap", "get1", "get2"}
      BY <3>1, FoundFacts, SyncFields
    <3> QED
      BY <3>1
  <2>3. ~Store(u)
    <3>1. ASSUME Store(u)
          PROVE  FALSE
      <4>1. pc[u] = "store" /\ pc'[u] = "tell" /\ UNCHANGED <<stats, fi>>
        BY <3>1, SyncFields
      <4> QED
        BY <4>1 DEF NewInv
    <3> QED
      BY <3>1
  <2>4. ~Erase(u)
    <3>1. ASSUME Erase(u)
          PROVE  Bad(u)
      <4>1. pc[u] = "erase" /\ pc'[u] = "gone" /\ UNCHANGED <<stats, chdst>>
        BY <3>1, SyncFields
      <4> QED
        BY <4>1
    <3> QED
      BY <1>5, <3>1
  <2>5. Drop(u)
    BY <1>5, <2>1, <2>2, <2>3, <2>4 DEF Syncing
  <2>6. /\ pc[u] = "ready" /\ stat # 0 /\ ~stats[stat].open /\ Starts(u)
    <3>1. /\ pc[u] = "ready" /\ chdst'[u] = stat /\ UNCHANGED stats /\ Starts(u)
          /\ pc'[u] = IF stat = 0 THEN "done" ELSE "erase"
      BY <2>5, SyncFields
    <3> QED
      BY <3>1
  <2>7. PICK w \in Updates : pc[w] = "forget"
    BY <1>5, <2>6 DEF MapInv
  <2>8. InFlight(w) /\ w \in Procs /\ w # u
    BY <1>0, <2>6, <2>7 DEF InFlight, Ended
  <2>9. u \in disturbed' /\ w \in disturbed'
    BY <2>6, <2>8 DEF Starts
  <2> QED
    BY <2>8, <2>9 DEF Met
<1> QED
  BY <1>1, <1>2, <1>3, <1>4, <1>5, RestFacts

(* A request that dies at the map of cached files met the writer. *)
LEMMA FatalStep ==
  ASSUME TypeOK, PlaceInv, HandlerInv, FatalInv, [Next]_vars
  PROVE  FatalInv'
<1> SUFFICES ASSUME NEW r \in Requests, pc'[r] = "fatal"
             PROVE  r \in disturbed' /\ \E u \in Updates : u \in disturbed' /\ Writing(u)'
  BY DEF FatalInv
<1>0. r \in Procs /\ r \notin Updates
  BY ProcsAssumption DEF Procs
<1>1. CASE Crashed
  <2>1. UNCHANGED <<pc, disturbed>>
    BY <1>1, CrashedFacts DEF vars
  <2> QED
    BY <2>1 DEF FatalInv, Writing
<1>2. CASE ~Crashed
  <2>1. pc[r] # "fatal"
    BY <1>0, <1>2 DEF Crashed
  <2>2. ASSUME NEW p \in Procs, Work(p)
        PROVE  FALSE
    BY <1>0, <2>1, <2>2, WorkFacts
  <2>3. ASSUME NEW q \in Requests, StatContext(q)
        PROVE  FALSE
    <3>1. pc' = [pc EXCEPT ![q] = "get"] \/ pc' = [pc EXCEPT ![q] = "notfound"]
      BY <2>3 DEF StatContext, Goto
    <3> QED
      BY <1>0, <2>1, <3>1 DEF TypeOK
  <2>4. ASSUME NEW u \in Updates, Syncing(u)
        PROVE  FALSE
    BY <1>0, <2>1, <2>4, SyncingFacts
  <2>5. ~(Write \/ Unlink \/ UNCHANGED vars)
    BY <2>1 DEF Write, Unlink, vars
  <2>6. PICK p \in Procs : Fatal(p)
    BY <2>2, <2>3, <2>4, <2>5, StepCases
  <2>7. p = r
    BY <1>0, <2>1, <2>6, FatalFacts
  <2>8. Starts(r) /\ \E u \in Updates \ {r} : Writing(u)
    BY <2>6, <2>7, FatalFacts
  <2>9. PICK u \in Updates : Writing(u)
    BY <2>8
  <2>10. u \in Procs /\ u # r /\ InFlight(u)
    BY <1>0, <2>9 DEF Writing, Procs, InFlight, Ended
  <2>11. r \in disturbed' /\ u \in disturbed'
    BY <2>8, <2>10 DEF Starts
  <2>12. pc'[u] = pc[u]
    BY <2>6, <2>7, <2>10, FatalFacts
  <2> QED
    BY <2>9, <2>11, <2>12 DEF Writing
<1> QED
  BY <1>1, <1>2

(* Before the file changes an update finds what it expects. *)
LEMMA UntouchedStep ==
  ASSUME TypeOK, PlaceInv, HandlerInv, UntouchedInv, [Next]_vars
  PROVE  UntouchedInv'
<1> SUFFICES ASSUME Len(born') = 1, there'
             PROVE  /\ unseen' = 0 /\ stat' = 1 /\ stats'[1].open
                    /\ stats'[1].mtime = born'[1]
                    /\ \A u \in Updates : pc'[u] \in {"ready", "find", "done"}
  BY DEF UntouchedInv
<1>1. ~Write
  BY WriteFacts, SeqFacts
<1>2. ~Unlink
  BY DEF Unlink
<1>3. Changes
  BY ChangeStep
<1>4. UNCHANGED <<born, there>>
  BY <1>1, <1>2, <1>3 DEF Changes
<1>5. /\ unseen = 0 /\ stat = 1 /\ stats[1].open /\ stats[1].mtime = born[1]
      /\ \A u \in Updates : pc[u] \in {"ready", "find", "done"}
  BY <1>4 DEF UntouchedInv
<1>6. ASSUME NEW u \in Updates
      PROVE  /\ pc'[u] \in {"ready", "find", "done"}
             /\ Syncing(u) => Sync(u) \/ Find(u)
  <2>0. u \in Procs /\ u \notin Requests
    BY ProcsAssumption DEF Procs
  <2>1. ~Work(u)
    BY <1>5, <2>0, WorkFacts DEF Amending, Removing
  <2>2. ~Fatal(u)
    BY <1>5 DEF Fatal, Collide, CollideElsewhere, Writing, LooksUp
  <2>3. Syncing(u) => Sync(u) \/ Find(u)
    BY <1>5, SyncFields DEF Syncing
  <2>4. Sync(u) => pc'[u] = "find"
    BY SyncFields
  <2>5. Find(u) => pc'[u] = "done"
    <3>1. ASSUME Find(u)
          PROVE  sncfi[u] \in 1..Len(born) /\ pc'[u] = Found(u, stat)
      BY <3>1, FoundFacts, SyncFields
    <3>2. ASSUME Find(u)
          PROVE  sncfi[u] = 1
      <4>1. Len(born) = 1
        BY <1>4
      <4>2. sncfi[u] \in 1..Len(born)
        BY <3>1, <3>2
      <4> QED
        BY <4>1, <4>2
    <3> QED
      BY <1>5, <3>1, <3>2 DEF Found
  <2> QED
    BY <1>5, <2>1, <2>2, <2>3, <2>4, <2>5, RestFacts DEF Rests
<1>7. UNCHANGED <<stat, stats, unseen>>
  <2>1. ASSUME NEW u \in Updates
        PROVE  ~(Drop(u) \/ LoadStat(u) \/ Swap(u) \/ Shut(u) \/ Forget(u)
                   \/ Store(u) \/ Erase(u))
    BY <1>5, SyncFields
  <2> QED
    BY <1>1, <1>2, <1>3, <2>1 DEF Changes
<1> QED
  BY <1>4, <1>5, <1>6, <1>7

(* An info is closed by one who holds it. *)
Closer(i) ==
  \E p \in Procs : /\ got[p] = i
                   /\ Close(p) \/ (p \in Updates /\ (CloseOld(p) \/ CloseGone(p)))

(* No other step closes one. *)
LEMMA CloserStep ==
  ASSUME TypeOK, PlaceInv, HandlerInv, TimeInv, [Next]_vars,
         NEW i \in 1..Len(infos), infos[i].open, ~infos'[i].open
  PROVE  Closer(i)
<1>0. \A p \in Procs : pc[p] \in Holding => got[p] # 0
  BY DEF PlaceInv
<1>1. ASSUME NEW p \in Procs, CloseInfo(got[p]), pc[p] \in Holding
      PROVE  i = got[p]
  BY <1>0, <1>1, ClosingFacts
<1>2. ASSUME NEW p \in Procs, Close(p)
      PROVE  Closer(i)
  <2>1. i = got[p]
    BY <1>1, <1>2 DEF Close, Holding
  <2> QED
    BY <1>2, <2>1 DEF Closer
<1>3. ASSUME NEW u \in Updates, CloseOld(u)
      PROVE  Closer(i)
  <2>1. i = got[u] /\ u \in Procs
    BY <1>1, <1>3 DEF CloseOld, Holding, Procs
  <2> QED
    BY <1>3, <2>1 DEF Closer
<1>4. ASSUME NEW u \in Updates, CloseGone(u)
      PROVE  Closer(i)
  <2>1. i = got[u] /\ u \in Procs
    BY <1>1, <1>4 DEF CloseGone, Holding, Procs
  <2> QED
    BY <1>4, <2>1 DEF Closer
<1>5. ASSUME NEW p \in Procs, Create(p)
      PROVE  FALSE
  <2>1. infos'[i] = infos[i]
    BY <1>5, CreateFacts
  <2> QED
    BY <2>1
<1>6. infos' # infos
  OBVIOUS
<1>7. \/ \E p \in Procs : Close(p) \/ Create(p)
      \/ \E u \in Updates : CloseOld(u) \/ CloseGone(u)
  BY <1>6, ChangeStep DEF Changes
<1> QED
  BY <1>2, <1>3, <1>4, <1>5, <1>7

(* A rival stays one. *)
LEMMA RivalKept ==
  ASSUME TypeOK, PlaceInv, HandlerInv, TimeInv, [Next]_vars, NEW u \in Updates,
         got'[u] = got[u], got[u] # 0, Rival(u)
  PROVE  Rival(u)'
<1>1. Grown /\ Requested
  BY GrowStep, RequestStep
<1>2. got[u] \in 1..Len(infos)
  BY FieldFacts DEF Procs
<1>3. infos'[got'[u]].mtime = infos[got[u]].mtime
  BY <1>1, <1>2 DEF Grown, Keeps
<1>4. disturbed \subseteq disturbed'
  BY <1>1 DEF Requested
<1>5. \A r \in Requests : pc[r] \notin {"ready", "notfound", "fatal"} =>
        pc'[r] \notin {"ready", "notfound", "fatal"} /\ fi'[r] = fi[r]
  BY <1>1 DEF Requested
<1> QED
  BY <1>3, <1>4, <1>5 DEF Rival

(* Whoever finds a closed info in the map meets the update that closed it. *)
LEMMA FoundClosed ==
  ASSUME OverlapInv, ClosedOnlyInUpdate, NEW p \in Procs, InFlight(p),
         pc[p] # "delete1", info # 0, ~infos[info].open
  PROVE  p \in disturbed /\ \E w \in Updates \ {p} : w \in disturbed
<1>1. PICK w \in Updates : pc[w] = "delete1"
  BY DEF ClosedOnlyInUpdate
<1>2. w \in Procs /\ w # p /\ InFlight(w)
  BY <1>1 DEF Procs, InFlight, Ended
<1> QED
  BY <1>2, MetFacts

(* An update whose info is closed, or was, has a rival. *)
LEMMA RivalStep ==
  ASSUME TypeOK, TypeOK', PlaceInv, HandlerInv, TimeInv, CurrentInv, OverlapInv,
         ClosedOnlyInUpdate, MapInv, ShutInv, RivalInv, [Next]_vars
  PROVE  RivalInv'
<1> DEFINE Bad(u) == \/ /\ pc[u] \in {"check", "evict", "delete2", "path2"}
                        /\ ~infos[got[u]].open
                     \/ pc[u] = "panic"
<1>0. Grown /\ Requested
  BY GrowStep, RequestStep
<1> SUFFICES ASSUME NEW u \in Updates, Bad(u)'
             PROVE  Rival(u)'
  BY DEF RivalInv
<1>1. /\ u \in Procs /\ u \notin Requests
      /\ pc \in [Procs -> Steps] /\ got \in [Procs -> Nat]
  BY FieldFacts, ProcsAssumption DEF TypeOK, Procs
<1>2. CASE Crashed
  <2>1. UNCHANGED vars
    BY <1>2, CrashedFacts
  <2>2. Bad(u) /\ UNCHANGED <<pc, fi, got, infos, disturbed>>
    BY <2>1 DEF vars
  <2>3. Rival(u)
    BY <2>2 DEF RivalInv
  <2> QED
    BY <2>2, <2>3 DEF Rival
<1>3. ASSUME ~Crashed, Bad(u), ~Rests(u)
      PROVE  Check(u) \/ Evict(u) \/ DeleteGone(u) \/ PathGone(u)
  <2>1. pc[u] \in {"check", "evict", "delete2", "path2"}
    BY <1>3 DEF Crashed
  <2>2. ~Syncing(u) /\ ~Fatal(u)
    BY <1>1, <2>1, SyncingFacts, FatalFacts DEF SyncSteps
  <2>3. Work(u)
    BY <1>3, <2>2, RestFacts
  <2> QED
    BY <1>1, <2>1, <2>3 DEF Work, Get, Close, Create, Set, GetOld, CloseOld, DeleteOld,
      Notified, GetGone, CloseGone
<1>4. CASE ~Crashed /\ Bad(u)
  <2>1. Rival(u)
    BY <1>4 DEF RivalInv
  <2>2. got[u] # 0
    BY <1>1, <1>4 DEF PlaceInv, Holding, Crashed
  <2>3. got'[u] = got[u]
    BY <1>3, <1>4 DEF Rests, Check, Evict, DeleteGone, PathGone
  <2> QED
    BY <2>1, <2>2, <2>3, RivalKept
<1>5. ASSUME Get(u) \/ GetGone(u)
      PROVE  Rival(u)'
  <2>1. /\ pc[u] \in {"get", "get2"} /\ got'[u] = info /\ infos' = infos
        /\ pc'[u] \in {"check", "create", "delete2", "shut", "swap"}
        /\ pc'[u] \in {"check", "delete2"} => info # 0
        /\ disturbed' = disturbed
    BY <1>1, <1>5 DEF Get, GetGone, AfterGone, Goto
  <2>2. info # 0 /\ ~infos[info].open
    BY <2>1
  <2>3. InFlight(u) /\ pc[u] # "delete1"
    BY <2>1 DEF InFlight, Ended
  <2> QED
    BY <1>1, <2>1, <2>2, <2>3, FoundClosed DEF Rival
<1>6. ASSUME ~Bad(u), Work(u)
      PROVE  Get(u) \/ GetGone(u)
  <2>1. pc'[u] \in {"check", "evict", "delete2", "path2", "panic"}
    OBVIOUS
  <2>2. ~Check(u)
    BY <1>1, <1>6 DEF Check, Goto
  <2>3. ~Evict(u)
    BY <1>1, <1>6 DEF Evict, Goto
  <2>4. ~DeleteGone(u)
    BY <1>1, <1>6 DEF DeleteGone, Goto
  <2>5. ~PathGone(u)
    BY <1>1, <1>6 DEF PathGone, Goto
  <2>6. ~(GetOld(u) \/ DeleteOld(u) \/ Notified(u))
    BY <1>1, <2>1 DEF GetOld, DeleteOld, Notified, Goto
  <2>7. ~(CloseOld(u) \/ CloseGone(u) \/ Close(u) \/ Create(u) \/ Set(u))
    BY <1>1, <2>1 DEF CloseOld, CloseGone, AfterGone, Close, Create, Set, Goto
  <2> QED
    BY <1>1, <1>6, <2>2, <2>3, <2>4, <2>5, <2>6, <2>7 DEF Work
<1>7. ASSUME ~Crashed, Syncing(u)
      PROVE  Rival(u)'
  <2>0. pc'[u] = "panic"
    BY <1>1, <1>7, SyncingFacts DEF SyncSteps
  <2>1. Find(u) \/ Tell(u) \/ Gone(u)
    BY <1>7, <2>0, SyncFields DEF Syncing
  <2>2. Met(u) /\ UNCHANGED disturbed
    <3>1. CASE Find(u)
      <4>1. /\ pc[u] = "find" /\ pc'[u] = Found(u, stat) /\ UNCHANGED disturbed
            /\ stat # 0 /\ ~stats[stat].open
        BY <2>0, <3>1, SyncFields, FoundFacts
      <4>2. PICK w \in Updates : pc[w] = "forget"
        BY <1>7, <4>1 DEF MapInv
      <4>3. w \in Procs /\ w # u /\ InFlight(w) /\ InFlight(u)
        BY <4>1, <4>2 DEF Procs, InFlight, Ended
      <4> QED
        BY <1>1, <4>1, <4>3, MetFacts DEF Met
    <3>2. CASE Tell(u)
      <4>1. pc[u] = "tell" /\ ~stats[fi[u].src].open /\ UNCHANGED disturbed
        BY <2>0, <3>2, SyncFields
      <4> QED
        BY <4>1 DEF ShutInv
    <3>3. CASE Gone(u)
      <4>1. pc[u] = "gone" /\ ~stats[chdst[u]].open /\ UNCHANGED disturbed
        BY <2>0, <3>3, SyncFields
      <4> QED
        BY <4>1 DEF ShutInv
    <3> QED
      BY <2>1, <3>1, <3>2, <3>3
  <2> QED
    BY <2>2 DEF Met, Rival
<1>8. ASSUME ~Bad(u), Rests(u)
      PROVE  Rival(u)'
  <2>1. /\ pc[u] \in {"check", "evict", "delete2", "path2"} /\ pc'[u] = pc[u]
        /\ got'[u] = got[u] /\ infos[got[u]].open /\ ~infos'[got[u]].open
    BY <1>8 DEF Rests
  <2>2. got[u] \in 1..Len(infos)
    BY <1>1, <2>1, FieldFacts DEF PlaceInv, Holding
  <2>3. Closer(got[u])
    BY <2>1, <2>2, CloserStep
  <2>4. PICK p \in Procs :
               /\ got[p] = got[u]
               /\ Close(p) \/ (p \in Updates /\ (CloseOld(p) \/ CloseGone(p)))
    BY <2>3 DEF Closer
  <2>5. /\ pc[p] \in {"close", "close1", "close2"} /\ fi' = fi
        /\ p \in Requests => pc[p] = "close" /\ pc'[p] = "create"
    BY <1>1, <2>4, ProcsAssumption DEF Close, CloseOld, CloseGone, Goto
  <2>6. InFlight(p) /\ InFlight(u) /\ p # u
    BY <2>1, <2>5 DEF InFlight, Ended
  <2>7. u \in disturbed' /\ p \in disturbed'
    BY <1>0, <1>1, <2>6, MetFacts DEF Requested
  <2>8. CASE p \in Updates
    BY <2>6, <2>7, <2>8 DEF Rival
  <2>9. CASE p \in Requests
    <3>1. infos[got[u]].mtime # fi[p].mtime
      BY <2>4, <2>5, <2>9 DEF CurrentInv
    <3>2. infos'[got'[u]].mtime = infos[got[u]].mtime
      BY <1>0, <2>1, <2>2 DEF Grown, Keeps
    <3> QED
      BY <2>5, <2>7, <2>9, <3>1, <3>2 DEF Rival
  <2> QED
    BY <2>8, <2>9 DEF Procs
<1>9. ASSUME Fatal(u)
      PROVE  FALSE
  BY <1>1, <1>9, FatalFacts
<1> QED
  BY <1>2, <1>4, <1>5, <1>6, <1>7, <1>8, <1>9, RestFacts

(* All that explains a crash holds together. *)
LEMMA CrashAlways ==
  Spec => [](/\ NewInv /\ MapInv /\ ShutInv
             /\ RivalInv /\ FatalInv /\ UntouchedInv)
<1>1. Init => NewInv /\ MapInv /\ ShutInv /\ RivalInv /\ FatalInv /\ UntouchedInv
  <2> SUFFICES ASSUME Init
               PROVE  /\ NewInv /\ MapInv /\ ShutInv
                      /\ RivalInv /\ FatalInv /\ UntouchedInv
    OBVIOUS
  <2>1. \A p \in Procs : pc[p] = "ready"
    BY DEF Init
  <2>2. stat = 1 /\ stats[1].open /\ stats[1].mtime = 0 /\ born[1] = 0 /\ unseen = 0
    BY DEF Init
  <2>3. NewInv /\ ShutInv /\ RivalInv /\ FatalInv
    BY <2>1 DEF Procs, NewInv, ShutInv, RivalInv, FatalInv
  <2>4. MapInv /\ UntouchedInv
    BY <2>1, <2>2 DEF Procs, MapInv, UntouchedInv, Removing
  <2> QED
    BY <2>3, <2>4
<1>2. /\ TypeOK /\ PlaceInv /\ HandlerInv /\ TimeInv /\ TypeOK' /\ CurrentInv
      /\ OverlapInv /\ ClosedOnlyInUpdate
      /\ NewInv /\ MapInv /\ ShutInv /\ RivalInv /\ FatalInv /\ UntouchedInv
      /\ [Next]_vars
      => /\ NewInv' /\ MapInv' /\ ShutInv'
         /\ RivalInv' /\ FatalInv' /\ UntouchedInv'
  BY NewStep, MapStep, ShutStep, RivalStep, FatalStep, UntouchedStep
<1> QED
  BY <1>1, <1>2, ClosedAlways, PTL DEF Spec

(* The program goes down only after the file was written or removed, the   *)
(* goroutine of the watcher panics only when another update has overlapped *)
(* it, or a request that had seen the file at another time, and a request  *)
(* dies at the map of cached files only beside an update that writes it.   *)
THEOREM CrashTheorem == Spec => []CrashNeedsRival
<1>1. ASSUME TypeOK, RivalInv, FatalInv, UntouchedInv
      PROVE  CrashNeedsRival
  <2>1. ASSUME Crashed, Len(born) = 1, there
        PROVE  FALSE
    <3>1. \A u \in Updates : pc[u] \in {"ready", "find", "done"}
      BY <1>1, <2>1 DEF UntouchedInv
    <3>2. \A r \in Requests : pc[r] # "fatal"
      BY <1>1, <3>1 DEF FatalInv, Writing
    <3> QED
      BY <2>1, <3>1, <3>2 DEF Crashed, Procs
  <2>2. Len(born) \in Nat /\ Len(born) >= 1 /\ there \in BOOLEAN
    BY <1>1, SeqFacts DEF TypeOK
  <2>3. ASSUME Crashed
        PROVE  Len(born) > 1 \/ ~there
    <3>1. CASE there
      <4>1. Len(born) # 1
        BY <2>1, <2>3, <3>1
      <4>2. Len(born) > 1
        BY <2>2, <4>1
      <4> QED
        BY <4>2
    <3> QED
      BY <3>1
  <2>4. \A u \in Updates : pc[u] = "panic" => Rival(u)
    BY <1>1 DEF RivalInv
  <2>5. \A r \in Requests : pc[r] = "fatal" =>
          r \in disturbed /\ \E u \in Updates : u \in disturbed /\ Writing(u)
    BY <1>1 DEF FatalInv
  <2> QED
    BY <2>3, <2>4, <2>5 DEF CrashNeedsRival, Rival
<1> QED
  BY <1>1, TimeAlways, CrashAlways, PTL

(* While a request that nobody disturbs is in flight, nobody else moves,   *)
(* except that the file may be written.                                    *)
LEMMA AloneCases ==
  ASSUME TypeOK, PlaceInv, HandlerInv, OverlapInv, NEW r \in Requests, InFlight(r),
         r \notin disturbed', [Next]_vars
  PROVE  Write \/ Work(r) \/ UNCHANGED vars
<1>1. r \in Procs /\ r \notin disturbed /\ disturbed \subseteq disturbed'
  BY RequestStep DEF Requested, Procs
<1>2. \A q \in Procs : q # r => ~InFlight(q)
  BY <1>1 DEF OverlapInv
<1>3. ASSUME NEW q \in Procs
      PROVE  ~Starts(q)
  <2>1. SUFFICES ASSUME Starts(q)
                 PROVE  FALSE
    OBVIOUS
  <2> DEFINE others == { x \in Procs : InFlight(x) }
  <2>2. r \in others
    BY <1>1
  <2>3. disturbed' = disturbed \cup others \cup {q}
    BY <2>1, <2>2 DEF Starts
  <2> QED
    BY <2>2, <2>3
<1>4. ~Unlink
  BY <1>1 DEF Unlink
<1>5. ~\E q \in Requests : StatContext(q)
  BY <1>3 DEF StatContext, Procs
<1>6. ASSUME NEW u \in Updates, Syncing(u)
      PROVE  FALSE
  <2>1. pc[u] \in SyncSteps /\ u \in Procs /\ u # r
    BY <1>3, <1>6, SyncingFacts, ProcsAssumption DEF SyncSteps
  <2> QED
    BY <1>2, <2>1 DEF InFlight, Ended, SyncSteps
<1>7. ASSUME NEW p \in Procs, Fatal(p)
      PROVE  FALSE
  <2>1. pc[p] \in {"find", "erase", "forget", "store"} /\ p \notin Requests
    BY <1>3, <1>7, FatalFacts
  <2> QED
    BY <1>2, <2>1 DEF InFlight, Ended
<1>8. ASSUME NEW p \in Procs, Work(p)
      PROVE  p = r
  BY <1>2, <1>8, WorkFacts DEF InFlight, Ended, Amending, Removing
<1> QED
  BY StepCases, <1>4, <1>5, <1>6, <1>7, <1>8

(* What it holds stays open. *)
LEMMA AloneStep ==
  ASSUME TypeOK, TypeOK', PlaceInv, HandlerInv, TimeInv, OverlapInv, OwnInv,
         ClosedOnlyInUpdate, AloneInv, [Next]_vars
  PROVE  AloneInv'
<1>0. Requested
  BY RequestStep
<1> SUFFICES ASSUME NEW r \in Requests, r \notin disturbed'
             PROVE  /\ pc'[r] # "panic"
                    /\ pc'[r] \in {"check", "evict", "content", "program"} =>
                         infos'[got'[r]].open
                    /\ pc'[r] = "program" => content'[r] = infos'[got'[r]].ver
                    /\ pc'[r] = "done" => program'[r] = content'[r]
  BY DEF AloneInv
<1>1. /\ r \in Procs /\ r \notin disturbed /\ pc[r] # "panic" /\ r \notin Updates
      /\ pc \in [Procs -> Steps] /\ got \in [Procs -> Nat]
      /\ content \in [Requests -> Nat] /\ program \in [Requests -> Nat]
      /\ pc[r] \in {"check", "evict", "content", "program"} => infos[got[r]].open
      /\ pc[r] = "program" => content[r] = infos[got[r]].ver
      /\ pc[r] = "done" => program[r] = content[r]
  <2>1. r \in Procs /\ r \in Requests \ disturbed /\ r \notin Updates
    BY <1>0, ProcsAssumption DEF Requested, Procs
  <2>2. /\ pc \in [Procs -> Steps] /\ got \in [Procs -> Nat]
        /\ content \in [Requests -> Nat] /\ program \in [Requests -> Nat]
    BY FieldFacts DEF TypeOK
  <2> QED
    BY <2>1, <2>2 DEF AloneInv
<1>2. CASE ~InFlight(r)
  <2>1. pc[r] \in {"ready", "done", "notfound", "fatal"}
    BY <1>1, <1>2 DEF InFlight, Ended
  <2>2. content'[r] = content[r] /\ program'[r] = program[r]
    BY <1>0, <2>1 DEF Requested, PrintContent, RunProgram
  <2>3. pc'[r] = pc[r] \/ pc'[r] \in {"get", "notfound", "fatal"}
    <3>1. ASSUME NEW p \in Procs, Work(p)
          PROVE  pc'[r] = pc[r]
      BY <1>1, <2>1, <3>1, WorkFacts DEF Amending, Removing
    <3> QED
      BY <1>1, <3>1, OtherFacts
  <2> QED
    BY <1>1, <2>1, <2>2, <2>3
<1>3. CASE InFlight(r)
  <2>1. CASE Write \/ UNCHANGED vars
    <3>1. UNCHANGED <<pc, got, infos, content, program>>
      BY <2>1 DEF Write, vars, servedVars
    <3> QED
      BY <1>1, <3>1
  <2>2. CASE Get(r)
    <3>1. /\ pc[r] = "get" /\ got'[r] = info /\ infos' = infos
          /\ IF info = 0 THEN pc'[r] = "create" ELSE pc'[r] = "check"
      BY <1>1, <2>2 DEF Get, Goto
    <3>2. info # 0 => infos[info].open
      BY <1>1, <1>3, <3>1, FoundClosed
    <3> QED
      BY <3>1, <3>2
  <2>3. CASE Check(r)
    <3>1. pc[r] = "check" /\ UNCHANGED <<got, infos>>
      BY <2>3 DEF Check
    <3>2. pc'[r] \in {"content", "evict"}
      BY <1>1, <2>3, <3>1 DEF Check, Goto
    <3> QED
      BY <1>1, <3>1, <3>2
  <2>4. CASE Evict(r)
    <3>1. pc'[r] = "close"
      BY <1>1, <2>4, EvictFacts
    <3> QED
      BY <3>1
  <2>5. CASE Close(r)
    BY <1>1, <2>5 DEF Close, Goto
  <2>6. CASE Create(r)
    BY <1>1, <2>6 DEF Create, Goto
  <2>7. CASE Set(r)
    <3>1. pc'[r] = "content" /\ UNCHANGED <<got, infos>> /\ infos[got[r]].open
      BY <1>1, <2>7 DEF Set, Goto, OwnInv
    <3> QED
      BY <3>1
  <2>8. CASE PrintContent(r)
    <3>1. /\ pc[r] = "content" /\ pc'[r] = "program" /\ UNCHANGED <<got, infos>>
          /\ content'[r] = Shown(got[r])
      BY <1>1, <2>8 DEF PrintContent, Goto
    <3> QED
      BY <1>1, <3>1 DEF Shown
  <2>9. CASE RunProgram(r)
    <3>1. /\ pc[r] = "program" /\ pc'[r] = "done" /\ content'[r] = content[r]
          /\ program'[r] = Shown(got[r])
      BY <1>1, <2>9 DEF RunProgram, Goto
    <3> QED
      BY <1>1, <3>1 DEF Shown
  <2> QED
    BY <1>1, <1>3, <2>1, <2>2, <2>3, <2>4, <2>5, <2>6, <2>7, <2>8, <2>9,
      AloneCases DEF Work
<1> QED
  BY <1>2, <1>3

(* A calm behaviour was calm before. *)
LEMMA CalmStep ==
  ASSUME TypeOK, TypeOK', PlaceInv, HandlerInv, TimeInv, [Next]_vars, Calm'
  PROVE  /\ Calm
         /\ ModTime \in Nat /\ ModTime' \in Nat /\ ModTime <= ModTime'
         /\ Write => ModTime < ModTime'
         /\ ~Write => ModTime' = ModTime
<1>0. Grown /\ Requested /\ Changes
  BY GrowStep, RequestStep, ChangeStep
<1>1. DistinctTimes
  <2>1. DistinctTimes'
    BY DEF Calm
  <2>2. /\ Len(born) \in Nat /\ Len(born') \in Nat /\ Len(born) <= Len(born')
        /\ \A v \in 1..Len(born) : born'[v] = born[v]
    BY <1>0, SeqFacts DEF Grown
  <2> QED
    BY <2>1, <2>2, SMTT(40) DEF DistinctTimes
<1>2. ~UpdatesMet
  BY <1>0 DEF Calm, UpdatesMet, Requested
<1>3. Write => ModTime' \in Nat /\ ModTime < ModTime'
  BY WriteFacts, SeqFacts DEF Calm
<1>4. UNCHANGED born => ModTime' = ModTime
  BY DEF ModTime
<1> QED
  BY <1>0, <1>1, <1>2, <1>3, <1>4, SeqFacts DEF Calm, Changes

(* In a calm behaviour one update is in flight at a time. *)
LEMMA LoneUpdate ==
  ASSUME OverlapInv, Calm, NEW u \in Updates, NEW w \in Updates,
         InFlight(u), InFlight(w)
  PROVE  u = w
BY MetFacts DEF Calm, UpdatesMet, Procs

(* An update that is in flight is not joined by another. *)
LEMMA LoneStart ==
  ASSUME TypeOK, Calm', NEW u \in Updates, NEW w \in Updates, InFlight(u), pc[w] = "ready"
  PROVE  ~Starts(w)
<1> SUFFICES ASSUME Starts(w)
             PROVE  FALSE
  OBVIOUS
<1> DEFINE others == { x \in Procs : InFlight(x) }
<1>1. u \in others /\ u # w
  BY DEF InFlight, Procs
<1>2. disturbed' = disturbed \cup others \cup {w}
  BY <1>1 DEF Starts
<1> QED
  BY <1>1, <1>2 DEF Calm, UpdatesMet

(* So the others do not sync meanwhile. *)
LEMMA LoneSync ==
  ASSUME TypeOK, HandlerInv, OverlapInv, Calm, Calm',
         NEW u \in Updates, NEW w \in Updates, InFlight(u), Syncing(w)
  PROVE  u = w
<1>1. CASE pc[w] = "ready"
  BY <1>1, SyncingFacts, LoneStart
<1>2. CASE pc[w] # "ready"
  <2>1. InFlight(w)
    BY <1>2, SyncingFacts DEF InFlight, Ended, SyncSteps
  <2> QED
    BY <2>1, LoneUpdate
<1> QED
  BY <1>1, <1>2

(* An update that works for a version is in flight. *)
LEMMA SeeingFacts ==
  ASSUME TypeOK, HandlerInv, NEW u \in Updates, Seeing(u)
  PROVE  /\ InFlight(u) /\ u \in Procs
         /\ sncfi[u] \in 1..Len(born) /\ born[sncfi[u]] \in Nat
         /\ pc[u] \notin {"erase", "ready"}
         /\ Replaces(u) => chdst[u] \in 1..Len(stats)
         /\ Replaces(u) <=> pc[u] \notin {"find", "load", "store"}
<1>0. Placed(u)
  BY DEF HandlerInv
<1>1. InFlight(u) /\ u \in Procs /\ pc[u] \notin {"erase", "ready"}
  BY DEF Seeing, Pending, Amending, Removing, InFlight, Ended, Procs
<1>2. sncfi[u] # 0
  BY <1>0 DEF Seeing, Placed
<1>3. Replaces(u) => chdst[u] # 0
  BY <1>0 DEF Replaces, Placed
<1>4. Replaces(u) <=> pc[u] \notin {"find", "load", "store"}
  BY DEF Seeing, Replaces, Pending, Amending, Removing
<1> QED
  BY <1>1, <1>2, <1>3, <1>4, HandlerFacts, SeqFacts

(* How an update comes to where it works for a version it has seen. *)
LEMMA SeeingStep ==
  ASSUME TypeOK, PlaceInv, HandlerInv, [Next]_vars, NEW u \in Updates, Seeing(u)'
  PROVE  \/ Sync(u) /\ pc'[u] = "find"
         \/ /\ Seeing(u) /\ sncfi'[u] = sncfi[u]
            /\ pc'[u] = "find" => pc[u] = "find"
            /\ pc'[u] = "store" => \/ pc[u] = "store" /\ fi'[u] = fi[u]
                                   \/ fi'[u].mtime = born[sncfi[u]]
            /\ Replaces(u)' =>
                 \/ Replaces(u) /\ chdst'[u] = chdst[u]
                 \/ /\ Find(u) /\ pc[u] = "find" /\ chdst'[u] = stat /\ stat' = stat
                    /\ stat \in 1..Len(stats) /\ stats[stat].mtime # born[sncfi[u]]
<1>0. /\ u \in Procs /\ u \notin Requests /\ Placed(u)
      /\ pc \in [Procs -> Steps] /\ fi \in [Procs -> FileInfo]
  BY ProcsAssumption DEF Procs, TypeOK, HandlerInv
<1>1. CASE Rests(u)
  BY <1>1 DEF Rests, Seeing, Replaces
<1>2. CASE Work(u)
  <2>1. /\ pc[u] \in Amending \cup Removing
        /\ pc'[u] \in Amending \cup Removing \cup {"done", "panic", "shut", "swap"}
        /\ pc'[u] = "swap" => sncfi[u] # 0
        /\ sncfi'[u] = sncfi[u] /\ chdst'[u] = chdst[u]
    BY <1>0, <1>2, WorkFacts
  <2> QED
    BY <2>1 DEF Seeing, Replaces, Pending, Amending, Removing
<1>3. CASE Fatal(u)
  <2>1. pc'[u] = "fatal"
    BY <1>0, <1>3, FatalFacts
  <2> QED
    BY <2>1 DEF Seeing, Pending, Amending, Removing
<1>4. CASE Syncing(u)
  <2>1. CASE Sync(u)
    BY <2>1, SyncFields
  <2>2. CASE Find(u)
    <3>1. /\ pc[u] = "find" /\ sncfi'[u] = sncfi[u] /\ chdst'[u] = stat /\ stat' = stat
          /\ pc'[u] = Found(u, stat)
      BY <2>2, SyncFields
    <3>2. Found(u, stat) \in {"done", "load", "panic", "swap", "get1", "get2"}
      BY <2>2, FoundFacts
    <3>3. Found(u, stat) \in {"swap", "get1", "get2"} =>
            stat \in 1..Len(stats) /\ stats[stat].mtime # born[sncfi[u]]
      BY <2>2, FoundFacts
    <3>4. Replaces(u)' => Found(u, stat) \in {"swap", "get1", "get2"}
      BY <3>1, <3>2 DEF Replaces, Amending, Removing
    <3> QED
      BY <2>2, <3>1, <3>2, <3>3, <3>4 DEF Seeing, Pending
  <2>3. CASE Swap(u)
    <3>1. /\ pc[u] = "swap" /\ pc'[u] = "forget"
          /\ sncfi'[u] = sncfi[u] /\ chdst'[u] = chdst[u]
      BY <2>3, SyncFields
    <3> QED
      BY <3>1 DEF Seeing, Replaces, Pending
  <2>4. CASE Forget(u)
    <3>1. pc[u] = "forget" /\ pc'[u] \in {"done", "load"} /\ sncfi'[u] = sncfi[u]
      BY <2>4, SyncFields
    <3> QED
      BY <3>1 DEF Seeing, Replaces, Pending, Amending, Removing
  <2>5. CASE LoadStat(u)
    <3>1. pc[u] = "load" /\ pc'[u] \in {"store", "done"} /\ sncfi'[u] = sncfi[u]
      BY <2>5, SyncFields
    <3>2. pc'[u] = "store" => there
      BY <2>5, SyncFields
    <3>3. there => fi' = [fi EXCEPT ![u] = [mtime |-> born[sncfi[u]], src |-> Len(stats) + 1]]
      BY <2>5, LoadFacts
    <3>4. pc'[u] = "store" => fi'[u].mtime = born[sncfi[u]]
      BY <1>0, <3>2, <3>3
    <3> QED
      BY <3>1, <3>4 DEF Seeing, Replaces, Pending, Amending, Removing
  <2>6. CASE Store(u) \/ Tell(u) \/ Drop(u) \/ Erase(u) \/ Gone(u) \/ Shut(u)
    <3>1. sncfi'[u] = 0
      BY <1>0, <2>6, SyncFields DEF Placed
    <3>2. pc'[u] \notin Pending
      BY <2>6, SyncFields DEF Pending
    <3> QED
      BY <3>1, <3>2 DEF Seeing
  <2> QED
    BY <1>4, <2>1, <2>2, <2>3, <2>4, <2>5, <2>6 DEF Syncing
<1> QED
  BY <1>1, <1>2, <1>3, <1>4, RestFacts

(* Only it changes the map meanwhile, and no removal is reported. *)
LEMMA SeeingAlone ==
  ASSUME TypeOK, TypeOK', PlaceInv, HandlerInv, OverlapInv, [Next]_vars, Calm, Calm',
         NEW u \in Updates, Seeing(u)
  PROVE  /\ stat' = stat \/ Forget(u) \/ Store(u)
         /\ unseen > 0 => unseen' > 0
<1>1. InFlight(u) /\ pc[u] \notin {"ready", "erase"}
  BY SeeingFacts
<1>2. ASSUME NEW w \in Updates, Forget(w) \/ Store(w) \/ Erase(w) \/ Drop(w)
      PROVE  w = u
  BY <1>1, <1>2, LoneSync DEF Syncing
<1>3. ~Erase(u) /\ ~Drop(u)
  BY <1>1 DEF Erase, Drop
<1>4. Changes
  BY ChangeStep
<1>5. unseen > 0 => unseen' > 0
  BY <1>2, <1>3, <1>4 DEF Changes, Unlink, TypeOK
<1> QED
  BY <1>2, <1>3, <1>4, <1>5 DEF Changes

(* A cachedstat that stays in the map stays hidden. *)
LEMMA HiddenKept ==
  ASSUME TypeOK, TypeOK', PlaceInv, HandlerInv, [Next]_vars, ~Crashed',
         Hidden, stat # 0, stat' = stat
  PROVE  Hidden'
<1>1. CASE unseen > 0
  <2>1. CASE \E u \in Updates : Drop(u)
    BY <2>1, SyncFields DEF Hidden
  <2>2. CASE ~\E u \in Updates : Drop(u)
    <3>1. unseen \in Nat
      BY DEF TypeOK
    <3>2. unseen' = unseen \/ unseen' = unseen + 1
      BY <2>2, ChangeStep DEF Changes, Unlink
    <3>3. unseen' > 0
      BY <1>1, <3>1, <3>2
    <3> QED
      BY <3>3 DEF Hidden
  <2> QED
    BY <2>1, <2>2
<1>2. ASSUME NEW u \in Updates, pc[u] = "erase"
      PROVE  Hidden'
  <2>1. ~Work(u)
    BY <1>2, WorkFacts DEF Procs, Amending, Removing
  <2>2. ~Fatal(u)
    BY FatalFacts DEF Procs, Crashed
  <2>3. ~Syncing(u)
    BY <1>2 DEF Syncing, Sync, Find, Swap, Forget, LoadStat, Store, Tell, Drop, Erase,
      Gone, Shut
  <2>4. pc'[u] = "erase"
    BY <1>2, <2>1, <2>2, <2>3, RestFacts DEF Rests
  <2> QED
    BY <2>4 DEF Hidden
<1> QED
  BY <1>1, <1>2 DEF Hidden

(* What the current cachedstat may become. *)
LEMMA CurrentStat ==
  ASSUME TypeOK, TypeOK', PlaceInv, HandlerInv, TimeInv, [Next]_vars, stat' # 0
  PROVE  \/ /\ stat' = stat /\ stat \in 1..Len(stats)
            /\ stats'[stat].mtime = stats[stat].mtime
            /\ stats[stat].mtime \in Nat /\ stats[stat].mtime <= ModTime
            /\ stats'[stat].open => stats[stat].open
         \/ \E u \in Updates : /\ Store(u) /\ pc[u] = "store" /\ pc'[u] = "tell"
                               /\ stats'[stat'].mtime = fi[u].mtime
                               /\ UNCHANGED <<born, there, unseen, disturbed>>
<1>1. CASE stat' = stat
  <2>1. stat \in 1..Len(stats) /\ stats[stat].mtime \in Nat /\ stats[stat].mtime <= ModTime
    BY <1>1, StatTimes
  <2> QED
    BY <1>1, <2>1, GrowStep DEF Grown, Keeps
<1>2. CASE stat' # stat
  <2>1. ~\E u \in Updates : Forget(u) \/ Erase(u)
    BY DEF Forget, Erase
  <2>2. PICK u \in Updates : Store(u)
    BY <1>2, <2>1, ChangeStep DEF Changes
  <2>3. UNCHANGED <<born, there, unseen, disturbed>>
    BY <2>2 DEF Store, diskVars
  <2>4. /\ pc[u] = "store" /\ pc'[u] = "tell" /\ stat' = fi[u].src
        /\ stats' = stats
    BY <2>2, SyncFields
  <2>5. stats[fi[u].src].mtime = fi[u].mtime
    BY <2>4 DEF TimeInv, FileInv, Procs
  <2> QED
    BY <2>2, <2>3, <2>4, <2>5
<1> QED
  BY <1>1, <1>2

(* In a calm behaviour the map of cached files follows the file. *)
LEMMA SwapStep ==
  ASSUME TypeOK, TypeOK', PlaceInv, HandlerInv, HandlerInv', TimeInv, OverlapInv, SwapInv,
         [Next]_vars
  PROVE  SwapInv'
<1> SUFFICES ASSUME ~Crashed', Calm'
             PROVE  /\ ~there' /\ stat' # 0 => Hidden'
                    /\ \A u \in Updates :
                         /\ Seeing(u)' /\ ~there' => unseen' > 0
                         /\ pc'[u] = "store" => fi'[u].mtime = born'[sncfi'[u]]
                         /\ pc'[u] = "find" /\ stat' # 0 =>
                              stats'[stat'].mtime <= born'[sncfi'[u]]
                         /\ Replaces(u)' => /\ stat' = chdst'[u]
                                            /\ stats'[stat'].mtime < born'[sncfi'[u]]
                    /\ unseen' > 0 /\ stat' # 0 /\ there' /\ stats'[stat'].mtime = ModTime' =>
                         \E w \in Updates : w \in disturbed' /\ pc'[w] # "ready"
  BY DEF SwapInv
<1>0. Requested /\ Changes /\ Grown
  BY RequestStep, ChangeStep, GrowStep
<1>1. /\ Calm /\ ModTime \in Nat /\ ModTime' \in Nat /\ ModTime <= ModTime'
      /\ Write => ModTime < ModTime'
      /\ ~Write => ModTime' = ModTime
  BY CalmStep
<1>2. ~Crashed
  BY CrashedFacts
<1>3. /\ ~there /\ stat # 0 => Hidden
      /\ \A u \in Updates :
           /\ Seeing(u) /\ ~there => unseen > 0
           /\ pc[u] = "store" => fi[u].mtime = born[sncfi[u]]
           /\ pc[u] = "find" /\ stat # 0 => stats[stat].mtime <= born[sncfi[u]]
           /\ Replaces(u) => stat = chdst[u] /\ stats[stat].mtime < born[sncfi[u]]
      /\ unseen > 0 /\ stat # 0 /\ there /\ stats[stat].mtime = ModTime =>
           \E w \in Updates : w \in disturbed /\ pc[w] # "ready"
  BY <1>1, <1>2 DEF SwapInv
<1>4. there /\ ~there' => unseen' > 0
  <2>1. CASE Unlink
    BY <2>1 DEF Unlink, TypeOK
  <2>2. CASE Write \/ UNCHANGED there
    BY <2>2 DEF Write
  <2> QED
    BY <1>0, <2>1, <2>2 DEF Changes
<1>5. ASSUME ~there', stat' # 0
      PROVE  Hidden'
  <2>1. CASE there
    BY <1>4, <1>5, <2>1 DEF Hidden
  <2>2. CASE ~there /\ stat' = stat
    BY <1>3, <1>5, <2>2, HiddenKept
  <2>3. ASSUME NEW u \in Updates, pc[u] = "store", ~there, unseen' = unseen
        PROVE  Hidden'
    <3>1. unseen > 0
      BY <1>3, <2>3 DEF Seeing, Pending
    <3> QED
      BY <2>3, <3>1 DEF Hidden
  <2> QED
    BY <1>5, <2>1, <2>2, <2>3, CurrentStat
<1>6. ASSUME NEW u \in Updates
      PROVE  /\ Seeing(u)' /\ ~there' => unseen' > 0
             /\ pc'[u] = "store" => fi'[u].mtime = born'[sncfi'[u]]
             /\ pc'[u] = "find" /\ stat' # 0 => stats'[stat'].mtime <= born'[sncfi'[u]]
             /\ Replaces(u)' => /\ stat' = chdst'[u]
                                /\ stats'[stat'].mtime < born'[sncfi'[u]]
  <2>0. (pc'[u] \in {"store", "find"} \/ Replaces(u)') => Seeing(u)'
    BY DEF Replaces, Seeing, Pending
  <2>1. CASE Sync(u) /\ pc'[u] = "find"
    <3>1. /\ sncfi'[u] = Len(born) /\ there /\ stats' = stats /\ stat' = stat
          /\ there' = there /\ born' = born
      BY <2>1, SyncFields DEF Sync, diskVars
    <3>2. stat # 0 => stats[stat].mtime <= born[Len(born)]
      BY StatTimes DEF ModTime
    <3>3. ~Replaces(u)'
      BY <2>1 DEF Replaces, Amending, Removing
    <3> QED
      BY <2>1, <3>1, <3>2, <3>3
  <2>2. CASE /\ Seeing(u) /\ sncfi'[u] = sncfi[u]
             /\ pc'[u] = "find" => pc[u] = "find"
             /\ pc'[u] = "store" => \/ pc[u] = "store" /\ fi'[u] = fi[u]
                                    \/ fi'[u].mtime = born[sncfi[u]]
             /\ Replaces(u)' =>
                  \/ Replaces(u) /\ chdst'[u] = chdst[u]
                  \/ /\ Find(u) /\ pc[u] = "find" /\ chdst'[u] = stat /\ stat' = stat
                     /\ stat \in 1..Len(stats) /\ stats[stat].mtime # born[sncfi[u]]
    <3>1. /\ stat' = stat \/ Forget(u) \/ Store(u)
          /\ unseen > 0 => unseen' > 0
      BY <1>1, <2>2, SeeingAlone
    <3>2. /\ sncfi[u] \in 1..Len(born) /\ born[sncfi[u]] \in Nat
          /\ born'[sncfi'[u]] = born[sncfi[u]]
      BY <1>0, <2>2, SeeingFacts DEF Grown
    <3>3. Seeing(u)' /\ ~there' => unseen' > 0
      BY <1>3, <1>4, <2>2, <3>1
    <3>4. pc'[u] = "store" => fi'[u].mtime = born'[sncfi'[u]]
      BY <1>3, <2>2, <3>2
    <3>5. pc'[u] = "find" \/ Replaces(u)' => stat' = stat
      <4>1. Forget(u) \/ Store(u) => pc'[u] \in {"done", "load", "tell"} /\ (Store(u) => sncfi'[u] = 0)
        BY SyncFields
      <4>2. Forget(u) \/ Store(u) => ~Replaces(u)'
        BY <2>2, <3>2, <4>1 DEF Replaces, Amending, Removing
      <4> QED
        BY <3>1, <4>1, <4>2
    <3>6. pc'[u] = "find" /\ stat' # 0 => stats'[stat'].mtime <= born'[sncfi'[u]]
      <4>1. ASSUME pc'[u] = "find", stat' # 0
            PROVE  stat' = stat /\ stats'[stat].mtime = stats[stat].mtime
                   /\ stats[stat].mtime <= born[sncfi[u]]
        <5>1. stat' = stat /\ pc[u] = "find"
          BY <2>2, <3>5, <4>1
        <5>2. stat \in 1..Len(stats) /\ stats'[stat].mtime = stats[stat].mtime
          BY <1>0, <4>1, <5>1, StatTimes DEF Grown, Keeps
        <5> QED
          BY <1>3, <4>1, <5>1, <5>2
      <4> QED
        BY <3>2, <4>1
    <3>7. ASSUME Replaces(u)'
          PROVE  stat' = chdst'[u] /\ stats'[stat'].mtime < born'[sncfi'[u]]
      <4>1. stat' = stat
        BY <3>5, <3>7
      <4>2. /\ stat = chdst'[u] /\ stat \in 1..Len(stats)
            /\ stats[stat].mtime < born[sncfi[u]]
        <5>1. CASE Replaces(u) /\ chdst'[u] = chdst[u]
          BY <1>3, <2>2, <5>1, SeeingFacts
        <5>2. CASE /\ pc[u] = "find" /\ chdst'[u] = stat
                   /\ stat \in 1..Len(stats) /\ stats[stat].mtime # born[sncfi[u]]
          <6>1. stat # 0 /\ stats[stat].mtime \in Nat
            BY <5>2, SeqFacts, FieldFacts
          <6>2. stats[stat].mtime <= born[sncfi[u]]
            BY <1>3, <5>2, <6>1
          <6> QED
            BY <3>2, <5>2, <6>1, <6>2
        <5> QED
          BY <2>2, <3>7, <5>1, <5>2
      <4>3. stats'[stat].mtime = stats[stat].mtime
        BY <1>0, <4>2 DEF Grown, Keeps
      <4> QED
        BY <3>2, <4>1, <4>2, <4>3
    <3> QED
      BY <3>3, <3>4, <3>6, <3>7
  <2>3. CASE ~Seeing(u)'
    BY <2>0, <2>3
  <2> QED
    BY <2>1, <2>2, <2>3, SeeingStep
<1>7. ASSUME unseen' > 0, stat' # 0, there', stats'[stat'].mtime = ModTime'
      PROVE  \E w \in Updates : w \in disturbed' /\ pc'[w] # "ready"
  <2>1. pc \in [Procs -> Steps] /\ \A u \in Updates : u \in Procs
    BY DEF TypeOK, Procs
  <2>2. CASE stat' = stat /\ stats'[stat].mtime = stats[stat].mtime
             /\ stats[stat].mtime \in Nat /\ stats[stat].mtime <= ModTime
    <3>1. ~Write /\ ModTime' = ModTime
      BY <1>1, <1>7, <2>2
    <3>2. ~Unlink
      BY <1>7 DEF Unlink
    <3>3. there
      BY <1>0, <1>7, <3>1, <3>2 DEF Changes
    <3>4. unseen > 0
      <4>1. CASE UNCHANGED unseen
        BY <1>7, <4>1
      <4>2. CASE \E u \in Updates : Drop(u)
        BY <4>2 DEF Drop
      <4> QED
        BY <1>0, <3>2, <4>1, <4>2 DEF Changes
    <3>5. PICK w \in Updates : w \in disturbed /\ pc[w] # "ready"
      BY <1>3, <1>7, <2>2, <3>1, <3>3, <3>4
    <3>6. pc'[w] # "ready"
      <4>1. Work(w) => pc'[w] # "ready"
        BY <2>1, WorkFacts DEF Amending, Removing
      <4>2. Syncing(w) => pc'[w] # "ready"
        BY <2>1, SyncingFacts DEF SyncSteps
      <4>3. Fatal(w) => pc'[w] # "ready"
        BY <2>1, FatalFacts
      <4>4. Rests(w) => pc'[w] # "ready"
        BY <3>5 DEF Rests
      <4> QED
        BY <4>1, <4>2, <4>3, <4>4, RestFacts
    <3> QED
      BY <1>0, <3>5, <3>6 DEF Requested
  <2>3. ASSUME NEW u \in Updates, pc[u] = "store", pc'[u] = "tell", unseen' = unseen,
               disturbed' = disturbed
        PROVE  u \in disturbed' /\ pc'[u] # "ready"
    <3>1. InFlight(u) /\ u \in Procs
      BY <2>1, <2>3 DEF InFlight, Ended
    <3> QED
      BY <1>7, <2>3, <3>1 DEF OverlapInv
  <2> QED
    BY <1>7, <2>2, <2>3, CurrentStat
<1> QED
  BY <1>5, <1>6, <1>7

(* Dead(m) after a step. *)
DeadAfter(m) ==
  /\ m < ModTime' \/ (~there' /\ m <= ModTime')
  /\ stat' # 0 => \/ stats'[stat'].mtime # m
                  \/ ~stats'[stat'].open
                  \/ Hidden'
  /\ \A u \in Updates : Seeing(u)' => born'[sncfi'[u]] # m \/ unseen' > 0

(* A time that is over stays so. *)
LEMMA DeadStep ==
  ASSUME TypeOK, TypeOK', PlaceInv, HandlerInv, TimeInv, OverlapInv, SwapInv, [Next]_vars,
         ~Crashed', Calm', NEW m \in Nat, Dead(m)
  PROVE  DeadAfter(m)
<1>0. /\ Calm /\ ModTime \in Nat /\ ModTime' \in Nat /\ ModTime <= ModTime'
      /\ Write => ModTime < ModTime'
      /\ Changes /\ Grown /\ ~Crashed
  BY CalmStep, ChangeStep, GrowStep, CrashedFacts
<1>1. /\ m < ModTime \/ (~there /\ m <= ModTime)
      /\ stat # 0 => stats[stat].mtime # m \/ ~stats[stat].open \/ Hidden
      /\ \A u \in Updates : Seeing(u) => born[sncfi[u]] # m \/ unseen > 0
  BY DEF Dead
<1>2. m < ModTime' \/ (~there' /\ m <= ModTime')
  <2>1. CASE Write
    BY <1>0, <1>1, <2>1
  <2>2. CASE ~Write
    <3>1. ~there => ~there'
      BY <1>0, <2>2 DEF Changes, Unlink
    <3> QED
      BY <1>0, <1>1, <3>1
  <2> QED
    BY <2>1, <2>2
<1>3. ASSUME stat' # 0
      PROVE  stats'[stat'].mtime # m \/ ~stats'[stat'].open \/ Hidden'
  <2>1. CASE /\ stat' = stat /\ stats'[stat].mtime = stats[stat].mtime
             /\ stats'[stat].open => stats[stat].open
    <3>1. Hidden => Hidden'
      BY <1>3, <2>1, HiddenKept
    <3> QED
      BY <1>1, <1>3, <2>1, <3>1
  <2>2. ASSUME NEW u \in Updates, pc[u] = "store", stats'[stat'].mtime = fi[u].mtime,
               unseen' = unseen
        PROVE  stats'[stat'].mtime # m \/ Hidden'
    <3>1. fi[u].mtime = born[sncfi[u]]
      BY <1>0, <2>2 DEF SwapInv
    <3>2. born[sncfi[u]] # m \/ unseen > 0
      BY <1>1, <2>2 DEF Seeing, Pending
    <3> QED
      BY <2>2, <3>1, <3>2 DEF Hidden
  <2> QED
    BY <1>3, <2>1, <2>2, CurrentStat
<1>4. ASSUME NEW u \in Updates, Seeing(u)'
      PROVE  born'[sncfi'[u]] # m \/ unseen' > 0
  <2>1. CASE Sync(u)
    <3>1. sncfi'[u] = Len(born) /\ there
      BY <2>1, SyncFields
    <3>2. born' = born
      BY <2>1 DEF Sync, diskVars
    <3>3. m < born[Len(born)]
      BY <1>1, <3>1 DEF ModTime
    <3>4. born[Len(born)] \in Nat
      BY <1>0 DEF ModTime
    <3> QED
      BY <3>1, <3>2, <3>3, <3>4
  <2>2. CASE Seeing(u) /\ sncfi'[u] = sncfi[u]
    <3>1. unseen > 0 => unseen' > 0
      BY <1>0, <2>2, SeeingAlone
    <3>2. born'[sncfi'[u]] = born[sncfi[u]]
      BY <1>0, <2>2, SeeingFacts DEF Grown
    <3> QED
      BY <1>1, <2>2, <3>1, <3>2
  <2> QED
    BY <1>4, <2>1, <2>2, SeeingStep
<1> QED
  BY <1>2, <1>3, <1>4 DEF DeadAfter

(* How an update comes to where it drops the cachedstat of a file that is gone. *)
LEMMA DroppingStep ==
  ASSUME TypeOK, PlaceInv, HandlerInv, [Next]_vars, NEW u \in Updates, Dropping(u)'
  PROVE  \/ Dropping(u) /\ chdst'[u] = chdst[u]
         \/ Drop(u)
<1>0. u \in Procs /\ u \notin Requests /\ Placed(u)
  BY ProcsAssumption DEF Procs, HandlerInv
<1>1. CASE Rests(u)
  BY <1>1 DEF Rests, Dropping
<1>2. CASE Work(u)
  <2>1. /\ pc'[u] \in Amending \cup Removing \cup {"done", "panic", "shut", "swap"}
        /\ pc'[u] \in Removing => pc[u] \in Removing
        /\ pc'[u] = "shut" => pc[u] \in Removing /\ sncfi[u] = 0
        /\ sncfi'[u] = sncfi[u] /\ chdst'[u] = chdst[u]
    BY <1>0, <1>2, WorkFacts
  <2> QED
    BY <2>1 DEF Dropping, Amending, Removing
<1>3. CASE Fatal(u)
  <2>1. pc'[u] = "fatal"
    BY <1>0, <1>3, FatalFacts
  <2> QED
    BY <2>1 DEF Dropping, Removing
<1>4. CASE Syncing(u)
  <2>1. CASE Sync(u) \/ Swap(u) \/ Forget(u) \/ LoadStat(u) \/ Store(u) \/ Tell(u) \/ Shut(u)
    <3>1. pc'[u] \in {"find", "forget", "done", "load", "store", "tell", "get1", "panic"}
      BY <2>1, SyncFields
    <3> QED
      BY <3>1 DEF Dropping, Removing
  <2>2. CASE Find(u)
    <3>1. pc[u] = "find" /\ pc'[u] = Found(u, stat) /\ sncfi'[u] = sncfi[u]
      BY <2>2, SyncFields
    <3>2. Found(u, stat) \in {"done", "load", "panic", "swap", "get1", "get2"}
      BY <2>2, FoundFacts
    <3>3. sncfi[u] # 0
      BY <1>0, <3>1 DEF Placed, Pending
    <3> QED
      BY <3>1, <3>2, <3>3 DEF Dropping, Removing
  <2>3. CASE Erase(u) \/ Gone(u)
    <3>1. pc[u] \in {"erase", "gone"} /\ chdst'[u] = chdst[u]
      BY <2>3, SyncFields
    <3> QED
      BY <3>1 DEF Dropping
  <2> QED
    BY <1>4, <2>1, <2>2, <2>3 DEF Syncing
<1> QED
  BY <1>1, <1>2, <1>3, <1>4, RestFacts

(* The two cases in which a cachedstat is closed. *)
LEMMA StatClosers ==
  ASSUME TypeOK, PlaceInv, HandlerInv, TimeInv, [Next]_vars,
         NEW s \in 1..Len(stats), stats[s].open, ~stats'[s].open
  PROVE  \E u \in Updates : (Swap(u) \/ Shut(u)) /\ s = chdst[u]
<1>1. ASSUME NEW u \in Updates, Swap(u) \/ Shut(u)
      PROVE  s = chdst[u]
  BY <1>1, ShutFacts
<1>2. ASSUME NEW u \in Updates, LoadStat(u)
      PROVE  FALSE
  <2>1. stats'[s] = stats[s]
    BY <1>2, LoadFacts
  <2> QED
    BY <2>1
<1>3. stats' # stats
  OBVIOUS
<1> QED
  BY <1>1, <1>2, <1>3, ChangeStep DEF Changes

(* An empty info has a time that is over. *)
LEMMA EmptyStep ==
  ASSUME TypeOK, TypeOK', PlaceInv, HandlerInv, TimeInv, OverlapInv, SwapInv, EmptyInv,
         [Next]_vars
  PROVE  EmptyInv'
<1> SUFFICES ASSUME ~Crashed', Calm'
             PROVE  /\ \A s \in 1..Len(stats') : ~stats'[s].open => DeadAfter(stats'[s].mtime)
                    /\ \A u \in Updates : Dropping(u)' => DeadAfter(stats'[chdst'[u]].mtime)
                    /\ \A i \in 1..Len(infos') :
                         infos'[i].ver = 0 => DeadAfter(infos'[i].mtime)
  BY DEF EmptyInv, Dead, DeadAfter
<1>0. Changes /\ Grown /\ ~Crashed
  BY ChangeStep, GrowStep, CrashedFacts
<1>1. Calm /\ ModTime \in Nat /\ ModTime' \in Nat /\ ModTime <= ModTime'
  BY CalmStep
<1>2. /\ \A s \in 1..Len(stats) : ~stats[s].open => Dead(stats[s].mtime)
      /\ \A u \in Updates : Dropping(u) => Dead(stats[chdst[u]].mtime)
      /\ \A i \in 1..Len(infos) : infos[i].ver = 0 => Dead(infos[i].mtime)
  BY <1>0, <1>1 DEF EmptyInv
<1>3. \A m \in Nat : Dead(m) => DeadAfter(m)
  BY DeadStep
<1>4. ASSUME NEW s \in 1..Len(stats)
      PROVE  stats'[s].mtime = stats[s].mtime /\ stats[s].mtime \in Nat
  BY <1>0, <1>4, FieldFacts DEF Grown, Keeps
<1>5. ASSUME NEW s \in 1..Len(stats'), ~stats'[s].open
      PROVE  DeadAfter(stats'[s].mtime)
  <2>1. CASE s \in 1..Len(stats) /\ ~stats[s].open
    BY <1>2, <1>3, <1>4, <2>1
  <2>2. CASE s \in 1..Len(stats) /\ stats[s].open
    <3>1. PICK u \in Updates : (Swap(u) \/ Shut(u)) /\ s = chdst[u]
      BY <1>5, <2>2, StatClosers
    <3>2. CASE Swap(u)
      <4>1. pc[u] = "swap" /\ pc'[u] = "forget" /\ stat' = stat /\ unseen' = unseen
            /\ sncfi'[u] = sncfi[u]
        BY <3>2, SyncFields
      <4>2. Seeing(u) /\ Replaces(u)
        BY <4>1 DEF Seeing, Replaces, Pending
      <4>3. stats[s].mtime < born[sncfi[u]] /\ stat = s
        BY <1>0, <1>1, <3>1, <4>2 DEF SwapInv
      <4>4. /\ sncfi[u] \in 1..Len(born) /\ born[sncfi[u]] \in Nat
            /\ born' = born /\ ModTime' = ModTime
        BY <3>2, <4>2, SeeingFacts DEF Swap, diskVars, ModTime
      <4>5. born[sncfi[u]] <= ModTime
        BY <4>4, StatTimes
      <4>6. stats'[s].mtime < ModTime'
        BY <1>1, <1>4, <2>2, <4>3, <4>4, <4>5
      <4>7. ASSUME NEW w \in Updates, Seeing(w)'
            PROVE  born'[sncfi'[w]] # stats'[s].mtime
        <5>1. InFlight(u) /\ InFlight(w)'
          BY <4>2, SeeingFacts, <4>7 DEF Seeing, Pending, Amending, Removing, InFlight, Ended
        <5>2. w = u \/ pc'[w] = pc[w]
          BY <3>2, SyncingRests DEF Syncing, Rests
        <5>3. w = u
          BY <1>1, <5>1, <5>2, LoneUpdate DEF InFlight
        <5> QED
          BY <1>4, <2>2, <4>1, <4>3, <4>4, <5>3
      <4> QED
        BY <1>5, <4>1, <4>3, <4>6, <4>7 DEF DeadAfter
    <3>3. CASE Shut(u)
      <4>1. Dropping(u)
        BY <3>3 DEF Shut, Dropping
      <4> QED
        BY <1>2, <1>3, <1>4, <2>2, <3>1, <4>1
    <3> QED
      BY <3>1, <3>2, <3>3
  <2>3. CASE s \notin 1..Len(stats)
    <3>1. PICK u \in Updates : LoadStat(u)
      BY <1>0, <2>3 DEF Changes
    <3>2. there
      BY <2>3, <3>1, LoadFacts
    <3>3. Len(stats') = Len(stats) + 1 /\ stats'[Len(stats) + 1].open
      BY <3>1, <3>2, LoadFacts
    <3>4. s = Len(stats) + 1
      BY <2>3, <3>3, SeqFacts
    <3> QED
      BY <1>5, <3>3, <3>4
  <2> QED
    BY <2>1, <2>2, <2>3
<1>6. ASSUME NEW u \in Updates, Dropping(u)'
      PROVE  DeadAfter(stats'[chdst'[u]].mtime)
  <2>1. CASE Dropping(u) /\ chdst'[u] = chdst[u]
    <3>1. Placed(u)
      BY DEF HandlerInv
    <3>2. chdst[u] \in 1..Len(stats)
      BY <2>1, <3>1, HandlerFacts DEF Dropping, Placed
    <3> QED
      BY <1>2, <1>3, <1>4, <2>1, <3>2
  <2>2. CASE Drop(u)
    <3>1. /\ pc[u] = "ready" /\ chdst'[u] = stat
          /\ pc'[u] = IF stat = 0 THEN "done" ELSE "erase"
          /\ unseen > 0 /\ Starts(u) /\ stats' = stats /\ stat' = stat
      BY <2>2, SyncFields
    <3>2. stat # 0 /\ pc'[u] = "erase"
      BY <1>6, <3>1 DEF Dropping, Removing
    <3>3. /\ there' = there /\ ModTime' = ModTime
          /\ stats[stat].mtime \in Nat /\ stats[stat].mtime <= ModTime
      BY <2>2, <3>2, StatTimes DEF Drop, ModTime
    <3>4. u \in disturbed'
      BY <3>1 DEF Starts
    <3>5. ASSUME there, stats[stat].mtime = ModTime
          PROVE  FALSE
      <4>1. PICK w \in Updates : w \in disturbed /\ pc[w] # "ready"
        BY <1>0, <1>1, <3>1, <3>2, <3>5 DEF SwapInv
      <4>2. w # u /\ w \in disturbed'
        BY <3>1, <4>1, RequestStep DEF Requested
      <4> QED
        BY <3>4, <4>2 DEF Calm, UpdatesMet
    <3>6. Hidden'
      BY <3>2 DEF Hidden
    <3>7. ASSUME NEW w \in Updates, Seeing(w)'
          PROVE  FALSE
      <4>1. w # u
        BY <3>2, <3>7 DEF Seeing, Pending, Amending, Removing
      <4>2. pc'[w] = pc[w]
        BY <2>2, <4>1, SyncingRests DEF Syncing, Rests
      <4>3. InFlight(w)
        BY <3>7, <4>2 DEF Seeing, Pending, Amending, Removing, InFlight, Ended
      <4> QED
        BY <3>1, <4>3, LoneStart
    <3> QED
      BY <1>1, <3>1, <3>3, <3>5, <3>6, <3>7 DEF DeadAfter
  <2> QED
    BY <1>6, <2>1, <2>2, DroppingStep
<1>7. ASSUME NEW i \in 1..Len(infos'), infos'[i].ver = 0
      PROVE  DeadAfter(infos'[i].mtime)
  <2>1. CASE i \in 1..Len(infos)
    <3>1. /\ infos'[i].mtime = infos[i].mtime /\ infos[i].mtime \in Nat
          /\ infos'[i].ver = infos[i].ver
      BY <1>0, <2>1, FieldFacts DEF Grown, Keeps
    <3> QED
      BY <1>2, <1>3, <1>7, <2>1, <3>1
  <2>2. CASE i \notin 1..Len(infos)
    <3>1. PICK p \in Procs : Create(p)
      BY <1>0, <2>2 DEF Changes
    <3>2. Len(infos') = Len(infos) + 1 /\ infos'[Len(infos) + 1] = NewInfo(fi[p])
      BY <3>1, CreateFacts
    <3>3. i = Len(infos) + 1
      BY <2>2, <3>2, SeqFacts
    <3>4. Reader(fi[p]) = 0 /\ infos'[i].mtime = fi[p].mtime /\ fi[p].mtime \in Nat
      BY <1>7, <3>2, <3>3, ReaderFacts, FieldFacts
    <3>5. CASE fi[p].src # 0 /\ ~stats[fi[p].src].open
      <4>1. Dead(fi[p].mtime)
        BY <1>2, <3>5 DEF TimeInv, FileInv
      <4> QED
        BY <1>3, <3>4, <4>1
    <3>6. CASE fi[p].src = 0 /\ ~there
      <4>1. fi[p].mtime <= ModTime
        BY DEF TimeInv, FileInv
      <4>2. stat # 0 => Hidden
        BY <1>0, <1>1, <3>6 DEF SwapInv
      <4>3. \A u \in Updates : Seeing(u) => unseen > 0
        BY <1>0, <1>1, <3>6 DEF SwapInv
      <4>4. Dead(fi[p].mtime)
        BY <3>6, <4>1, <4>2, <4>3 DEF Dead
      <4> QED
        BY <1>3, <3>4, <4>4
    <3> QED
      BY <3>4, <3>5, <3>6, ReaderFacts
  <2> QED
    BY <2>1, <2>2
<1> QED
  BY <1>5, <1>6, <1>7

(* So a request that nobody disturbs is served. *)
LEMMA ServedStep ==
  ASSUME TypeOK, TypeOK', PlaceInv, HandlerInv, TimeInv, CurrentInv, OverlapInv,
         AloneInv, EmptyInv, ServedInv, [Next]_vars
  PROVE  ServedInv'
<1>0. Requested /\ Grown /\ Changes
  BY RequestStep, GrowStep, ChangeStep
<1> SUFFICES ASSUME NEW r \in Requests, r \notin disturbed'
             PROVE  /\ InFlight(r)' => /\ fi'[r].src = 0 => there'
                                       /\ fi'[r].src # 0 => stats'[fi'[r].src].open
                    /\ Calm' /\ InFlight(r)' =>
                         \A i \in 1..Len(infos') :
                           infos'[i].ver = 0 => infos'[i].mtime # fi'[r].mtime
                    /\ Calm' /\ pc'[r] \in {"program", "done"} => content'[r] # 0
  BY DEF ServedInv
<1>1. /\ r \in Procs /\ r \in Requests \ disturbed /\ r \notin Updates
      /\ pc \in [Procs -> Steps] /\ fi \in [Procs -> FileInfo]
      /\ content \in [Requests -> Nat]
  BY <1>0, ProcsAssumption DEF Requested, Procs, TypeOK
<1>2. /\ InFlight(r) => /\ fi[r].src = 0 => there
                        /\ fi[r].src # 0 => stats[fi[r].src].open
      /\ Calm /\ InFlight(r) =>
           \A i \in 1..Len(infos) : infos[i].ver = 0 => infos[i].mtime # fi[r].mtime
      /\ Calm /\ pc[r] \in {"program", "done"} => content[r] # 0
  BY <1>1 DEF ServedInv
<1>3. Calm' => Calm
  BY CalmStep
<1>4. CASE ~InFlight(r) /\ ~StatContext(r)
  <2>1. pc[r] \in {"ready", "done", "notfound", "panic", "fatal"}
    BY <1>4 DEF InFlight, Ended
  <2>2. content'[r] = content[r]
    BY <1>0, <2>1 DEF Requested, PrintContent
  <2>3. ASSUME NEW q \in Requests, StatContext(q)
        PROVE  pc'[r] = pc[r]
    BY <1>1, <1>4, <2>3 DEF StatContext, Goto
  <2>4. ASSUME NEW q \in Procs, Work(q)
        PROVE  pc'[r] = pc[r]
    BY <1>1, <2>1, <2>4, WorkFacts DEF Amending, Removing
  <2>5. ASSUME NEW u \in Updates, Syncing(u)
        PROVE  pc'[r] = pc[r]
    BY <1>1, <2>5, SyncingFacts
  <2>6. ASSUME NEW q \in Procs, Fatal(q)
        PROVE  pc'[r] = pc[r] \/ pc'[r] = "fatal"
    BY <1>1, <2>6, FatalFacts
  <2>7. Write \/ Unlink \/ UNCHANGED vars => pc'[r] = pc[r]
    BY DEF Write, Unlink, vars
  <2>8. pc'[r] = pc[r] \/ pc'[r] = "fatal"
    BY StepCases, <2>3, <2>4, <2>5, <2>6, <2>7
  <2> QED
    BY <1>2, <1>3, <2>1, <2>2, <2>8 DEF InFlight, Ended
<1>5. CASE StatContext(r)
  <2>1. pc[r] = "ready" /\ Starts(r) /\ UNCHANGED <<stats, stat, there, born, infos, content>>
    BY <1>5 DEF StatContext, diskVars, fileVars, servedVars
  <2>2. unseen = 0 /\ \A q \in Procs : ~InFlight(q)
    BY <2>1 DEF Starts
  <2>3. ~Hidden
    BY <2>2 DEF Hidden, InFlight, Ended, Procs
  <2>4. pc'[r] \in {"get", "notfound"}
    BY <1>1, <1>5 DEF StatContext, Goto
  <2>5. pc'[r] = "get" =>
          \/ /\ stat # 0 /\ stats[stat].open
             /\ fi'[r].mtime = stats[stat].mtime /\ fi'[r].src = stat
          \/ /\ stat = 0 /\ there /\ fi'[r].mtime = ModTime /\ fi'[r].src = 0
    BY <1>1, <1>5 DEF StatContext, Goto
  <2>6. pc'[r] = "get" => ~Dead(fi'[r].mtime)
    <3>1. ModTime \in Nat
      BY SeqFacts
    <3> QED
      BY <2>3, <2>5, <3>1 DEF Dead
  <2>7. InFlight(r)' => pc'[r] = "get"
    BY <2>4 DEF InFlight, Ended
  <2>8. Calm => \A i \in 1..Len(infos) : infos[i].ver = 0 => Dead(infos[i].mtime)
    <3>1. ~Crashed
      BY <2>1, <1>5, CrashedFacts, <1>1, <2>4 DEF vars
    <3> QED
      BY <3>1 DEF EmptyInv
  <2>9. Calm' /\ pc'[r] = "get" => \A i \in 1..Len(infos) :
          infos[i].ver = 0 => infos[i].mtime # fi'[r].mtime
    BY <1>3, <2>6, <2>8
  <2> QED
    BY <2>1, <2>4, <2>5, <2>7, <2>9
<1>6. CASE InFlight(r)
  <2>1. Write \/ Work(r) \/ UNCHANGED vars
    BY <1>6, AloneCases
  <2>2. Work(r) => \/ Get(r) \/ Check(r) \/ Evict(r) \/ Close(r) \/ Create(r) \/ Set(r)
                   \/ PrintContent(r) \/ RunProgram(r)
    BY <1>1 DEF Work
  <2>3. fi'[r] = fi[r] /\ UNCHANGED stats /\ (there => there')
    <3>1. CASE Work(r)
      BY <1>1, <3>1, WorkFacts DEF diskVars, fileVars
    <3>2. CASE Write \/ UNCHANGED vars
      BY <3>2 DEF Write, vars, diskVars, fileVars
    <3> QED
      BY <2>1, <3>1, <3>2
  <2>4. ASSUME Calm', NEW i \in 1..Len(infos'), infos'[i].ver = 0
        PROVE  infos'[i].mtime # fi[r].mtime
    <3>1. CASE i \in 1..Len(infos)
      <4>1. infos'[i].mtime = infos[i].mtime /\ infos'[i].ver = infos[i].ver
        BY <1>0, <3>1 DEF Grown, Keeps
      <4> QED
        BY <1>2, <1>3, <1>6, <2>4, <3>1, <4>1
    <3>2. CASE i \notin 1..Len(infos)
      <4>1. PICK p \in Procs : Create(p)
        BY <1>0, <3>2 DEF Changes
      <4>2. p = r
        <5>1. InFlight(p)
          BY <4>1 DEF Create, InFlight, Ended
        <5> QED
          BY <1>1, <1>6, <5>1 DEF OverlapInv
      <4>3. Len(infos') = Len(infos) + 1 /\ infos'[Len(infos) + 1] = NewInfo(fi[r])
        BY <1>1, <4>1, <4>2, CreateFacts
      <4>4. i = Len(infos) + 1
        BY <3>2, <4>3, SeqFacts
      <4>5. Reader(fi[r]) = 0
        BY <1>1, <2>4, <4>3, <4>4, ReaderFacts
      <4> QED
        BY <1>1, <1>2, <1>6, <4>5, ReaderFacts
    <3> QED
      BY <3>1, <3>2
  <2>5. ASSUME Calm', pc'[r] \in {"program", "done"}
        PROVE  content'[r] # 0
    <3>1. CASE PrintContent(r)
      <4>1. pc[r] = "content" /\ content'[r] = Shown(got[r])
        BY <1>1, <3>1 DEF PrintContent
      <4>2. infos[got[r]].open /\ got[r] \in 1..Len(infos)
            /\ infos[got[r]].mtime = fi[r].mtime
        BY <1>1, <4>1, FieldFacts DEF AloneInv, PlaceInv, Holding, CurrentInv
      <4> QED
        BY <1>2, <1>3, <1>6, <2>5, <4>1, <4>2 DEF Shown
    <3>2. CASE ~PrintContent(r)
      <4>1. content'[r] = content[r]
        BY <1>0, <3>2 DEF Requested
      <4>2. pc[r] = "program"
        <5>1. CASE Write \/ UNCHANGED vars
          BY <1>6, <2>5, <5>1 DEF Write, vars, InFlight, Ended
        <5>2. CASE Get(r) \/ Check(r) \/ Evict(r) \/ Close(r) \/ Create(r) \/ Set(r)
          BY <1>1, <2>5, <5>2, EvictFacts DEF Get, Check, Close, Create, Set, Goto
        <5>3. CASE RunProgram(r)
          BY <5>3 DEF RunProgram
        <5> QED
          BY <2>1, <2>2, <3>2, <5>1, <5>2, <5>3
      <4> QED
        BY <1>2, <1>3, <2>5, <4>1, <4>2
    <3> QED
      BY <3>1, <3>2
  <2> QED
    BY <1>2, <1>6, <2>3, <2>4, <2>5
<1> QED
  BY <1>4, <1>5, <1>6

(* A request that overlaps nobody never panics, never runs a program       *)
(* without its content, and is served the content unless the file was put  *)
(* back with an old time or two updates were disturbed.                    *)
THEOREM AloneTheorem == Spec => []AloneIsServed
<1>1. Init => AloneInv /\ SwapInv /\ EmptyInv /\ ServedInv
  <2>1. ASSUME Init
        PROVE  stats \in Seq(Cached) /\ Len(stats) = 1 /\ stats[1].open
    BY <2>1 DEF Init, Cached
  <2>2. ASSUME Init
        PROVE  infos \in Seq(Cached) /\ Len(infos) = 0
    BY <2>2 DEF Init
  <2>3. Init => \A p \in Procs : pc[p] = "ready"
    BY DEF Init
  <2>4. Init => AloneInv /\ ServedInv
    BY <2>3 DEF AloneInv, ServedInv, Procs, InFlight
  <2>5. Init => \A u \in Updates : ~Seeing(u) /\ ~Replaces(u) /\ ~Dropping(u)
    BY <2>3 DEF Procs, Seeing, Replaces, Dropping, Pending, Amending, Removing
  <2>6. Init => there /\ unseen = 0
    BY DEF Init
  <2>7. Init => SwapInv
    BY <2>3, <2>5, <2>6 DEF SwapInv, Procs
  <2>8. ASSUME Init
        PROVE  EmptyInv
    <3>1. \A s \in 1..Len(stats) : stats[s].open
      BY <2>1, <2>8
    <3>2. \A i \in 1..Len(infos) : infos[i].ver # 0
      BY <2>2, <2>8
    <3> QED
      BY <2>5, <2>8, <3>1, <3>2 DEF EmptyInv
  <2> QED
    BY <2>4, <2>7, <2>8
<1>2. /\ TypeOK /\ PlaceInv /\ HandlerInv /\ TimeInv /\ TypeOK' /\ HandlerInv'
      /\ CurrentInv /\ OverlapInv /\ OwnInv /\ ClosedOnlyInUpdate
      /\ AloneInv /\ SwapInv /\ EmptyInv /\ ServedInv /\ [Next]_vars
      => AloneInv' /\ SwapInv' /\ EmptyInv' /\ ServedInv'
  BY AloneStep, SwapStep, EmptyStep, ServedStep
<1>3. AloneInv /\ ServedInv => AloneIsServed
  BY DEF AloneInv, ServedInv, AloneIsServed, Calm
<1> QED
  BY <1>1, <1>2, <1>3, ClosedAlways, PTL DEF Spec
=============================================================================
