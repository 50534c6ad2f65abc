------------------------------ MODULE Sessions ------------------------------
(***************************************************************************)
(* Sessions (serve/serveio/session: session.go, sessions.go, and the       *)
(* handler of requests in globalsession.go) and the database handler that  *)
(* each request makes and its child sessions inherit (dbms/dbmshandler.go).*)
(*                                                                         *)
(* The script of a request runs in one goroutine: it opens child sessions, *)
(* of the request or of another child, queries through its own handler or  *)
(* a child's, closes readers and children. Closing a session hands two     *)
(* pieces of work to goroutines: Close of the database handler and Delete  *)
(* of the key from the sessions of the owner. Children have one name, so   *)
(* that the script asks for the same child again. A script does not go on  *)
(* with a child that it has closed.                                        *)
(*                                                                         *)
(* A handler is named after the request that made it. Its events object is *)
(* never set, and AttachHandler is never called, so that a reader that is  *)
(* closed stays in the map of its handler.                                 *)
(***************************************************************************)
EXTENDS Integers, FiniteSets

CONSTANTS
  Requests,  \* sessions of requests
  Children,  \* sessions made by their scripts
  Queries,   \* calls of QueryContext, and the readers they return
  MaxTick,   \* readings of the clock
  Nil

ASSUME SessionsAssumption == /\ Requests \cap Children = {}
                             /\ Nil \notin Requests \cup Children
ASSUME MaxTickAssumption == MaxTick \in Nat

VARIABLES
  now,       \* the clock of nextserial
  state,     \* of a session: none, made, open, closed
  key,       \* the key of a request in SESSIONS
  reg,       \* SESSIONS
  script,    \* the request whose script made a child
  parent,    \* the owner of a child: that request, or another child
  kid,       \* the entry in the Sessions() of a session
  db,        \* the handler a session holds
  live,      \* handlers whose rdrs is set
  rdrs,      \* what the map of a handler holds
  closer,    \* where the goroutine `go db.Close()` of a session stands
  chdl,      \* the handler it closes
  cmap,      \* it has found the map
  found,     \* the readers it has collected
  deleter,   \* where `go ownersessions.Delete(s.key)` stands
  query,     \* where a query stands
  qhdl,      \* its handler
  qmap,      \* it has captured the map
  rdr,       \* its reader: none, open, closed
  late       \* history: queries that stored into a map already collected

clockVars == <<now, key, reg>>
treeVars == <<state, script, parent, kid, db>>
closeVars == <<closer, chdl, cmap, found>>
queryVars == <<query, qhdl, qmap, late>>
vars == <<clockVars, treeVars, live, rdrs, closeVars, deleter, queryVars, rdr>>

All == Requests \cup Children

TypeOK ==
  /\ now \in 0..MaxTick
  /\ state \in [All -> {"none", "made", "open", "closed"}]
  /\ key \in [Requests -> 0..MaxTick]
  /\ reg \in [0..MaxTick -> Requests \cup {Nil}]
  /\ script \in [Children -> Requests \cup {Nil}]
  /\ parent \in [Children -> All \cup {Nil}]
  /\ kid \in [All -> Children \cup {Nil}]
  /\ db \in [All -> Requests \cup {Nil}]
  /\ live \subseteq Requests
  /\ rdrs \in [Requests -> SUBSET Queries]
  /\ closer \in [All -> {"none", "read", "unset", "range", "clear", "close",
                         "done"}]
  /\ chdl \in [All -> Requests \cup {Nil}]
  /\ cmap \in [All -> BOOLEAN]
  /\ found \in [All -> SUBSET Queries]
  /\ deleter \in [All -> {"none", "start", "done"}]
  /\ query \in [Queries -> {"ready", "run", "store", "done"}]
  /\ qhdl \in [Queries -> Requests \cup {Nil}]
  /\ qmap \in [Queries -> BOOLEAN]
  /\ rdr \in [Queries -> {"none", "open", "closed"}]
  /\ late \subseteq Queries
  /\ \A s \in All : closer[s] \notin {"none", "done"} => chdl[s] \in Requests

Init ==
  /\ now = 0
  /\ state = [s \in All |-> "none"]
  /\ key = [r \in Requests |-> 0]
  /\ reg = [k \in 0..MaxTick |-> Nil]
  /\ script = [c \in Children |-> Nil]
  /\ parent = [c \in Children |-> Nil]
  /\ kid = [s \in All |-> Nil]
  /\ db = [s \in All |-> Nil]
  /\ live = {}
  /\ rdrs = [r \in Requests |-> {}]
  /\ closer = [s \in All |-> "none"]
  /\ chdl = [s \in All |-> Nil]
  /\ cmap = [s \in All |-> FALSE]
  /\ found = [s \in All |-> {}]
  /\ deleter = [s \in All |-> "none"]
  /\ query = [q \in Queries |-> "ready"]
  /\ qhdl = [q \in Queries |-> Nil]
  /\ qmap = [q \in Queries |-> FALSE]
  /\ rdr = [q \in Queries |-> "none"]
  /\ late = {}

(* The handler that s.Db() returns: made by the first call of a request. *)
Db(s) == IF db[s] = Nil /\ s \in Requests THEN s ELSE db[s]

InvokeDb(s) == live' = IF db[s] = Nil /\ s \in Requests THEN live \cup {s} ELSE live

(* The script of r is not inside a query. *)
Free(r) == state[r] = "open"
           /\ \A q \in Queries : qhdl[q] = r => query[q] = "done"

-----------------------------------------------------------------------------
(* A request. *)

Tick ==
  /\ now < MaxTick
  /\ now' = now + 1
  /\ UNCHANGED <<key, reg, treeVars, live, rdrs, closeVars, deleter,
                 queryVars, rdr>>

(* NewSession(MAINSESSION, w, r, FSYS): the main session has no handler. *)
Open(r) ==
  /\ state[r] = "none"
  /\ state' = [state EXCEPT ![r] = "made"]
  /\ UNCHANGED <<clockVars, script, parent, kid, db, live, rdrs, closeVars, deleter,
                 queryVars, rdr>>

(* SESSIONS.Set(SESSIONS.UniqueKey(), ssn): nextserial returns the clock,  *)
(* since it compares lastserial with lastserial.                           *)
Register(r) ==
  /\ state[r] = "made"
  /\ state' = [state EXCEPT ![r] = "open"]
  /\ key' = [key EXCEPT ![r] = now]
  /\ reg' = [reg EXCEPT ![now] = r]
  /\ UNCHANGED <<now, script, parent, kid, db, live, rdrs, closeVars, deleter,
                 queryVars, rdr>>

(* Seeded fault: the goroutine that deletes the key is not started. *)
CloseWithoutDelete(s) ==
  /\ state' = [state EXCEPT ![s] = "closed"]
  /\ db' = [db EXCEPT ![s] = Nil]
  /\ closer' = [closer EXCEPT ![s] = IF db[s] = Nil THEN "done" ELSE "read"]
  /\ chdl' = [chdl EXCEPT ![s] = db[s]]
  /\ deleter' = [deleter EXCEPT ![s] = "done"]
  /\ kid' = [kid EXCEPT ![s] = Nil]

(* session.Close: go db.Close(), the sessions of s, and the Delete of s in *)
(* those of its owner. The children are dropped, not closed.               *)
Close(s) ==
  /\ state' = [state EXCEPT ![s] = "closed"]
  /\ db' = [db EXCEPT ![s] = Nil]
  /\ closer' = [closer EXCEPT ![s] = IF db[s] = Nil THEN "done" ELSE "read"]
  /\ chdl' = [chdl EXCEPT ![s] = db[s]]
  /\ deleter' = [deleter EXCEPT ![s] = "start"]
  /\ kid' = [kid EXCEPT ![s] = Nil]

(* The deferred ssn.Close() of the handler of requests. *)
End(r) ==
  /\ Free(r)
  /\ Close(r)
  /\ UNCHANGED <<clockVars, script, parent, live, rdrs, cmap, found, queryVars, rdr>>

-----------------------------------------------------------------------------
(* Child sessions. *)

(* The session s is the request r, or an open child that its script made.  *)
Uses(r, s) ==
  s = r \/ (s \in Children /\ script[s] = r /\ state[s] = "open")

(* p.Sessions().New(name) finds nothing: NewSession(p) takes the handler   *)
(* of p. When it finds a session, open or closed, it returns that.         *)
NewChild(r, p, c) ==
  /\ Free(r)
  /\ Uses(r, p)
  /\ state[c] = "none"
  /\ kid[p] = Nil
  /\ state' = [state EXCEPT ![c] = "open"]
  /\ script' = [script EXCEPT ![c] = r]
  /\ parent' = [parent EXCEPT ![c] = p]
  /\ kid' = [kid EXCEPT ![p] = c]
  /\ InvokeDb(p)
  /\ db' = [db EXCEPT ![p] = Db(p), ![c] = Db(p)]
  /\ UNCHANGED <<clockVars, rdrs, closeVars, deleter, queryVars, rdr>>

EndChild(r, c) ==
  /\ Free(r)
  /\ state[c] = "open"
  /\ script[c] = r
  /\ Close(c)
  /\ UNCHANGED <<clockVars, script, parent, live, rdrs, cmap, found, queryVars, rdr>>

(* Seeded fault: a request deletes the key of the current clock reading. *)
DeleteNow(s) ==
  /\ deleter[s] = "start"
  /\ deleter' = [deleter EXCEPT ![s] = "done"]
  /\ reg' = IF s \in Requests THEN [reg EXCEPT ![now] = Nil] ELSE reg
  /\ kid' = IF s \in Children THEN [kid EXCEPT ![parent[s]] = Nil] ELSE kid
  /\ UNCHANGED <<now, key, state, script, parent, db, live, rdrs, closeVars,
                 queryVars, rdr>>

(* The goroutine that deletes: from SESSIONS, or from the sessions of the  *)
(* owner, which are gone once it is closed.                                *)
Delete(s) ==
  /\ deleter[s] = "start"
  /\ deleter' = [deleter EXCEPT ![s] = "done"]
  /\ \/ /\ s \in Requests
        /\ reg' = [reg EXCEPT ![key[s]] = Nil]
        /\ UNCHANGED kid
     \/ /\ s \in Children
        /\ kid' = [kid EXCEPT ![parent[s]] = Nil]
        /\ UNCHANGED reg
  /\ UNCHANGED <<now, key, state, script, parent, db, live, rdrs, closeVars,
                 queryVars, rdr>>

-----------------------------------------------------------------------------
(* dbmshandler.QueryContext, by the script of request r through session s. *)

(* dbms, rdrs := dh.dbms, dh.rdrs *)
Capture(r, s, q) ==
  /\ Free(r)
  /\ Uses(r, s)
  /\ query[q] = "ready"
  /\ query' = [query EXCEPT ![q] = "run"]
  /\ qhdl' = [qhdl EXCEPT ![q] = Db(s)]
  /\ InvokeDb(s)
  /\ db' = [db EXCEPT ![s] = Db(s)]
  /\ qmap' = [qmap EXCEPT ![q] = Db(s) \in live']
  /\ UNCHANGED <<clockVars, state, script, parent, kid, rdrs, closeVars, deleter,
                 late, rdr>>

(* cn.QueryContext (module Connection) returns a reader or an error. *)
RunQuery(q) ==
  /\ query[q] = "run"
  /\ \/ /\ query' = [query EXCEPT ![q] = "store"]
        /\ rdr' = [rdr EXCEPT ![q] = "open"]
     \/ /\ query' = [query EXCEPT ![q] = "done"]
        /\ UNCHANGED rdr
  /\ UNCHANGED <<clockVars, treeVars, live, rdrs, closeVars, deleter,
                 qhdl, qmap, late>>

Collected(h) == \E s \in All : /\ chdl[s] = h
                               /\ cmap[s]
                               /\ closer[s] \in {"clear", "close", "done"}

StoreReader(q) ==
  rdrs' = IF qmap[q] THEN [rdrs EXCEPT ![qhdl[q]] = @ \cup {q}] ELSE rdrs

(* rdrs.Store(rdf, rdf) into the map captured. *)
Store(q) ==
  /\ query[q] = "store"
  /\ query' = [query EXCEPT ![q] = "done"]
  /\ StoreReader(q)
  /\ late' = IF ~qmap[q] \/ Collected(qhdl[q]) THEN late \cup {q} ELSE late
  /\ UNCHANGED <<clockVars, treeVars, live, closeVars, deleter, qhdl, qmap, rdr>>

(* The script closes a reader, or reads it to its end. *)
CloseReader(r, q) ==
  /\ Free(r)
  /\ qhdl[q] = r
  /\ rdr[q] = "open"
  /\ rdr' = [rdr EXCEPT ![q] = "closed"]
  /\ UNCHANGED <<clockVars, treeVars, live, rdrs, closeVars, deleter, queryVars>>

-----------------------------------------------------------------------------
(* dbmshandler.Close, in the goroutine that the Close of session s started. *)

CloserStep(s, from, to) ==
  /\ closer[s] = from
  /\ closer' = [closer EXCEPT ![s] = to]
  /\ UNCHANGED <<clockVars, treeVars, deleter, queryVars, chdl>>

(* rdrs := dh.rdrs *)
ReadMap(s) ==
  /\ CloserStep(s, "read", "unset")
  /\ cmap' = [cmap EXCEPT ![s] = chdl[s] \in live]
  /\ UNCHANGED <<live, rdrs, found, rdr>>

(* Seeded fault: the handlers share one rdrs. *)
UnsetAll(s) ==
  /\ CloserStep(s, "unset", IF cmap[s] THEN "range" ELSE "done")
  /\ live' = {}
  /\ UNCHANGED <<rdrs, cmap, found, rdr>>

(* dh.rdrs = nil *)
Unset(s) ==
  /\ CloserStep(s, "unset", IF cmap[s] THEN "range" ELSE "done")
  /\ live' = live \ {chdl[s]}
  /\ UNCHANGED <<rdrs, cmap, found, rdr>>

(* Seeded fault: Clear comes before Range. *)
RangeCleared(s) ==
  /\ CloserStep(s, "range", "clear")
  /\ rdrs' = [rdrs EXCEPT ![chdl[s]] = {}]
  /\ UNCHANGED <<live, cmap, found, rdr>>

RangeMap(s) ==
  /\ CloserStep(s, "range", "clear")
  /\ found' = [found EXCEPT ![s] = rdrs[chdl[s]]]
  /\ UNCHANGED <<live, rdrs, cmap, rdr>>

ClearMap(s) ==
  /\ CloserStep(s, "clear", "close")
  /\ rdrs' = [rdrs EXCEPT ![chdl[s]] = {}]
  /\ UNCHANGED <<live, cmap, found, rdr>>

CloseNext(s) ==
  /\ \E q \in found[s] :
       /\ found' = [found EXCEPT ![s] = @ \ {q}]
       /\ rdr' = [rdr EXCEPT ![q] = "closed"]
  /\ CloserStep(s, "close", "close")
  /\ UNCHANGED <<live, rdrs, cmap>>

(* Seeded fault: the loop over the readers is left early. *)
CloserEndsEarly(s) ==
  /\ CloserStep(s, "close", "done")
  /\ UNCHANGED <<live, rdrs, cmap, found, rdr>>

CloserEnds(s) ==
  /\ found[s] = {}
  /\ CloserStep(s, "close", "done")
  /\ UNCHANGED <<live, rdrs, cmap, found, rdr>>

CloseHandler(s) == \/ ReadMap(s) \/ Unset(s) \/ RangeMap(s) \/ ClearMap(s)
                   \/ CloseNext(s) \/ CloserEnds(s)

-----------------------------------------------------------------------------
Script(r) ==
  \/ Open(r) \/ Register(r) \/ End(r)
  \/ \E c \in Children : EndChild(r, c) \/ \E p \in All : NewChild(r, p, c)
  \/ \E q \in Queries : CloseReader(r, q) \/ \E s \in All : Capture(r, s, q)

Queried(q) == RunQuery(q) \/ Store(q)

Next ==
  \/ Tick
  \/ \E r \in Requests : Script(r)
  \/ \E q \in Queries : Queried(q)
  \/ \E s \in All : Delete(s) \/ CloseHandler(s)

Spec == Init /\ [][Next]_vars

(* The goroutines that Close has started run; nothing is asked of scripts. *)
FairSpec ==
  /\ Spec
  /\ \A s \in All : WF_vars(Delete(s)) /\ WF_vars(CloseHandler(s))

-----------------------------------------------------------------------------
(* What sessions promise. *)

(* The reader of a query survives the Close of its handler only when the   *)
(* query stored it after that Close had collected the readers              *)
(* (dbmshandler.go 189 and 217), or found the handler already closed.      *)
ReadersClosed ==
  \A q \in Queries, s \in All :
    (/\ closer[s] = "done" /\ cmap[s]
     /\ chdl[s] = qhdl[q] /\ query[q] = "done" /\ rdr[q] = "open") =>
       q \in late \/ \E t \in All : q \in found[t]

(* A handler is closed under a request that is still running only by the   *)
(* end of a session that its own script made, a child or a child of one    *)
(* (session.go 129 and 247), whatever the other requests do, and a reader  *)
(* of a running request is stored too late only after such an end.         *)
LostOnlyByChild ==
  \A r \in Requests :
    (/\ state[r] = "open"
     /\ db[r] # Nil
     /\ db[r] \notin live \/ \E q \in late : qhdl[q] = r) =>
       \E c \in Children : script[c] = r /\ state[c] = "closed"

(* A closed session is found in the sessions of its owner, by New with its *)
(* name or by Get, only until the goroutine that deletes it has run.       *)
ClosedIsBeingDeleted ==
  /\ \A s \in All :
       (kid[s] # Nil /\ state[kid[s]] = "closed") => deleter[kid[s]] = "start"
  /\ \A k \in 0..MaxTick :
       (reg[k] # Nil /\ state[reg[k]] = "closed") => deleter[reg[k]] = "start"

(* A request that runs is found in SESSIONS under its key, unless another  *)
(* request was given the key of the same clock reading (session.go 329).   *)
RunningIsRegistered ==
  \A r \in Requests : state[r] = "open" =>
    \/ reg[key[r]] = r
    \/ \E s \in Requests \ {r} : state[s] \in {"open", "closed"} /\ key[s] = key[r]

(* What a request leaves behind goes away: its entry in SESSIONS, and the  *)
(* readers it has not closed, apart from those stored too late.            *)
Drains ==
  \A r \in Requests : state[r] = "closed" ~>
    /\ \A k \in 0..MaxTick : reg[k] # r
    /\ \A q \in Queries : qhdl[q] = r /\ rdr[q] = "open" => q \in late
=============================================================================
