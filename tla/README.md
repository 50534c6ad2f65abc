# A TLA+ development for lnksnk

lnksnk is an application and web server written in Go. `main/main.go` maps
filesystems, builds the global environment and serves HTTP on a socket; request
scripts run in a JavaScript engine and reach the server's parts (databases,
filesystems, listeners, sessions) through small Go objects. Most of that state
is shared between the goroutines of concurrent requests and is guarded by no
lock, or only by a `sync.Map`. The repository has hardly any tests or
documentation of its own, so the source is the only reference. This directory
models the parts where goroutines meet, checks them with TLC on small
instances, and proves the main invariants with TLAPS for every instance.

## 1. The system

| Part | State it keeps | Operations | Hard behaviour |
|---|---|---|---|
| Cursor (`dbms/rows.go`, `reader.go`, `record.go`) | three row buffers, flags `first`, `last`, `started`, `swpdta`, the driver's rows | `Next`, `SelectNext`, `Close`, the Select event | look-ahead by one accepted row, an error at any driver call, `Close` from another goroutine in the middle of `Next` |
| Statement (`dbms/statement.go`) | a connection taken from the pool, the prepared arguments, its rows | `Prepair`, `Query`, `QueryContext`, `Close` | who gives the connection back when one of the steps fails |
| Connection (`dbms/connection.go`) | `db` (the pool), `dvr`, `datasource`, all without a lock | `Query`, `Execute`, `Reload`, `Close` | each field is read, then acted on, by any number of goroutines |
| Map with events (`ioext/itermap.go`) | a `sync.Map`, an events object | `Set`, `Delete`, `Clear`, `Close`, `Events` | read-then-write windows between operations that are atomic one by one; `Close` takes the map away from calls that already hold it |
| Listeners (`listening`) | an itermap of named listeners with their sockets | `Listen`, `Default`, `Unload` | `Unload` waits for a callback that another goroutine runs |
| Handler and registry (`dbms/dbmshandler.go`, `dbms.go`, `connections.go`, `drivers.go`) | the readers of a session; itermaps of connections and drivers | `Query`, `QueryContext`, `Close`, `Register`, `Unload`, `Load` | a reader stored after its handler was closed; connections closed by another goroutine than the one that removes them; a wait for an event that nobody raises; a second full `Unload` |
| Sessions (`serve/serveio/session`, `globalsession`) | an itermap of sessions, each with database handler, filesystem, input, output and script engine | `InvokeSession`, `UniqueKey`, `ServeHTTP`, `Close` | keys from a clock, children that share and close their owner's database handler, deletes that run after the session is gone, the arithmetic of range requests |
| Filesystem and watcher (`fs/filesys.go`, `multifilesys.go`, `watcher.go`) | a map of cached files with their modification times, a timer per changed file | `Map`, `Unmap`, `Stat`, `syncPath`, `Remove`, watcher events | debounced events, handlers of one file that overlap, content read after its time was taken, the same `Unload` handshake |
| Active files (`fs/active`, `globalsession`) | a cache of parsed and compiled files, invalidated by modification time | `ProcessActiveFile`, `Parse`, `update` | requests and watcher handlers close entries that others hold |
| Environment (`globalenv`, `globaldbms`, `globalfs`, `globallisten`) | the one instance of each of the parts | `LoadEnv`, `UnloadEnv` | order of unloading |
| Buffers, map reader (`ioext/buffer.go`, `mapreader.go`) | full chunks and a tail; cursors that share both | `Write`, `Clear`, `Clone`, `Reader`, `Read`, `Seek`, searches, `SubString` | a cursor takes no copy: the tail is overwritten and `Clear` empties slices under it; arithmetic at the edges of chunks |
| Others (`mqtt`, `ws`, `listen`, `concurrent`, `scheduling`, `template`, `parameters`, `email`, `iorw`, `database`, `resources`, `serve`) | see `PROJECT.json` | | older generation, adapters of external libraries, or text processing |

Third-party code kept in the tree (`es`, `excelize`, `pdf`, `imap`, `smtp`,
`websocket`, `minify`, `lexparse`, `barcode`, `sasl`, `message`, `service`, `fonts`,
`ui`, `mimes`) is left aside.

How they meet: a session's `Dbms` is a handler, whose `Query` goes to the connection
registered under an alias; `connection.query` takes the pool and makes a statement,
`statement.QueryContext` makes the rows and the reader that the script loops on.
Registries of connections, drivers, listeners, readers and sessions are all
itermaps, and everything that is shut down is shut down by an event of one. Both
listeners and database registry (and the multi-filesystem) are unloaded by the same
handshake: install a callback in the events object, remove, wait for a context
that the callback cancels.

What makes each correct:

* cursor: the caller sees the selected rows once and in order, `First()` and
  `Last()` are exact, the end is the end, the driver's rows get closed;
* connection: nobody is offered a closed pool, no pool is forgotten open, a
  replaced driver or data source takes effect, connections go back to the pool;
* map: a value that leaves it is reported to an event, once; a closed map is empty;
* listeners: the map never holds a dead listener, no serving socket is out of
  reach, `Unload` returns and only after the sockets are shut;
* registry: what is registered is open, nothing open is forgotten, `Unload` returns
  when everything it removed is closed;
* sessions: what a request leaves behind (its key, its readers) goes away, a running
  request can be found and keeps its database handler;
* watcher and file cache: the cache comes to mirror the disk, a stale entry is always
  about to be replaced, an entry is never older than its modification time says;
* active files: a request is served what its file held when it was looked up, or
  something newer; nothing brings the process down;
* buffers: a reader delivers what the buffer held when the reader was made; the searches
  and cuts agree with their definitions on the content.

`PROJECT.json` lists the hazards one by one with their lines and the properties that
would catch them.

## 2. Modules

| Module | Models | Role |
|---|---|---|
| `Rows` | cursor and reader | detailed specification |
| `FilteredCursor` | what `reader.Next` promises | abstract specification, implemented by `Rows` |
| `ReaderProofs` | | theorems about the two readers, `Rows` and `Buffer` |
| `Connection` | connection, the statement's use of it | specification |
| `ConnectionProofs` | | theorems about `Connection` |
| `IterMap` | the map with events | specification |
| `IterMapProofs` | | theorems about `IterMap` |
| `Listening` | listeners; `INSTANCE`s `IterMap` for every step inside the map | composition |
| `ListeningProofs` | | theorems about `Listening`, among them that it implements `IterMap` |
| `Watcher` | event loop, timers and handlers of the watcher, the file cache | specification |
| `WatcherProofs` | | theorems about `Watcher` |
| `ActiveCache` | the cache of parsed files, its requests and the handlers that update it, step by step over the file cache | composition of request, handler and two caches |
| `ActiveCacheProofs` | | theorems about `ActiveCache` |
| `Sessions` | sessions with the database handlers they make and inherit | composition of sessions and handlers |
| `SessionsProofs` | | theorems about `Sessions` |
| `Registry` | `Load` and `Unload` of connections and drivers, with their event goroutines | specification |
| `RegistryProofs` | | theorems about `Registry` |
| `Buffer` | the byte buffer, a reader over it, searches and cuts | specification and pure operators |
| `MCRows`, `MCConnection`, `MCIterMap`, `MCListening`, `MCWatcher`, `MCActiveCache`, `MCSessions`, `MCRegistry`, `MCBuffer` | | instances for TLC |

Every component module has a section of *seeded faults*: variants of some definitions
with a plausible mistake (a dropped reset, a swapped buffer, a missing close). No
behaviour of the specification uses them; replacing the definition by its variant
makes TLC violate the property they are listed with in `PROJECT.json`.

### 2.1 Rows

State: `r` is struct `rows`, `rdr` struct `reader`, `irows` the driver's rows
(external: a position and whether it is closed). A row is its position in the result;
`Nil` is an empty buffer and `Torn` the buffer a failed `Scan` leaves. The query `q` is
chosen once: whether a Select event is installed and which buffers it accepts, which
driver call fails. `pc` walks through `reader.Next`: `NextCall` (the check of the
columns and the head of `nextRec`), `ReadRow`/`ReadCheck` (`readRow` and what is done with
its result), `ScanRow`/`ScanCheck`, `Select` (the event, run through `prepRecord`),
`ReturnTrue`/`ReturnFalse` (the tail of `reader.Next`). `phase` tells the two loops of
`nextRec` apart: seeking the first accepted row, or looking ahead.

`CloseByOther` is `reader.Close` from another goroutine, enabled between any two steps;
`statement.Close` starts `go rows.Close()`, which is `RowsCloseFields` then
`RowsCloseIRows`. The nil dereference of `prepRecord` on a reader closed in the meantime
is the step to `"panic"`. On rows closed between `Next` and `Scan` both outcomes of the
race (`Scan` finds the field gone, or had it in hand and fails) are taken.

Left out: results without columns, values and types of columns, the error text,
`AttachHandler` (never called), the JSON and CSV writers over a reader.

### 2.2 Connection

`connection` has no lock (it is commented out in the source), so each read and each write
of a field is a step of its own. A call is a member of `Ops`; a pool is named after the
call that opened it. `Call`, `ReadDb`, `Invoke`, `Assign` are `nextdb`; `NextStatement`, `Run`
are the statement; `Check`, `Drop`, `Shut` the error path of `query` and `execute`
(`if cn.db == db { cn.db = nil }` and `go db.Close()`); `Reload`, `ReloadSource`, `Take`, `Clear`
are `Reload`, and `Close`, `Take`, `Clear` are `Close`. `PoolClosed` and `ConnReturned` are
the goroutines of `go db.Close()` and `go dbcn.Close()`. File drivers (csv, dlv) work on the
pool itself and hold no connection.

A single field access is not torn: Go strings and interfaces are two words, and a torn read
of them, which the language does not exclude, is not modelled. `sql.DB` and `sql.Conn` are
external: open, being closed or closed; taking a connection may fail, and always fails on a
closed pool.

`raced` remembers that two calls stood inside a window (between reading a field and acting on
it) at the same time, two reads of `db` apart. It is what the properties are relative
to: without a lock the code does leak a pool, or keep an outdated one, in such a meeting,
and the properties say that this is the only way it can.

### 2.3 IterMap

`imp` is whether the fields `orgsncmp` and `mpevents` are set, `store` the content of the
`sync.Map`. A single operation of a `sync.Map` is atomic. `Set` is `Set`, `Load`, `Store`; `Delete`,
`Clear` and `Close` are the removal of a set of keys: `Visit` (one call of Range's function,
keys in any order, each at most once, one absent at its turn is not seen), `DeleteKey`,
`Report` (`go Deleted(tmp)` or `go Disposed(tmp)`). `Close` sets the two fields to nil in two
steps before it ranges. The value a `Set` stores is named after the call. `raced` collects
the keys on which two calls were between reading and writing; `straddled` that `Close` took
the map away while a `Set` held it; `untold` the values removed while nobody had asked for
an events object. Readers of the map (`Get`, `Contains`, `Iterate`, `Events`' accessors) change nothing and
have no action, except that `Events()` makes the object.

### 2.4 Listening

`Listen`, `Swap`, `Bind`, `SetCall` are the method `Listen`; `Unload`, `EventsCall`, `Install`,
`RemoveCall`, `Await` the method `Unload`; `MapStep` and `Spawn` are the steps of `IterMap` with
their consequences (the event goroutine), `EventStart`, `Shutdown`, `Cancel` the goroutine that runs
the callback. An events object is named after the `Unload` whose `Events()` made it, so that a
callback installed in an object that `Close` has let go of is really lost. A listener is a new
pointer, so `Set` never finds it equal to the one in the map (`pc'[o] = "store"` in
`MapStep`). Left out: which handler a listener serves, TLS and h2c, the parsing of
configuration objects.

### 2.5 Watcher

The disk is `born` (the modification time of every version of a file), `there` and `changes`;
`Creates`, `Writes`, `Removes` and `Chmods` are what other programs do to it, each with its event
of `fsnotify` (external: in order, none lost). Two versions may have the same time. `Debounce`
and `Dispatch` are the event loop of `invokeWatcher`: a Create or Write restarts the timer of the file,
which keeps the operation it was made for; another event starts its handler at once. `Fire` is the timer's
function. A handler goes through `syncPath` (`StatFile`, `Compare`, `Load`, `Store`) or
`Remove` (`Drop`) and ends with the deferred function of `processEvent` (`Finish`), which stops
whatever timer the file has; the `Delete` after it uses the text of the event for a key, so the
timer stays in the map and is reset by later events. A file is one with an extension that is
cached, below a watched directory; directories and `Unmap` are left out.

`stopped` and `overlapped` remember the two races the properties are relative to: a handler that
ended stopped a timer that was running for a later event, and two handlers of one file used its
cache entry at once.

### 2.6 ActiveCache

One path. `stats` and `infos` hold every `cachedstat` and `cachedinfo` made, since those
closed may still be in somebody's hand; `stat` and `info` are what the two maps hold now. A
request goes `StatContext`, `Get`, `Check`, `Evict`, `Close`, `Create`, `Set` (`Parse`),
`PrintContent`, `RunProgram`. A handler of the watcher is either `Sync`, `Swap`, `Forget`, `LoadStat`
and then, once per notification, `GetOld`, `CloseOld`, `DeleteOld` and `Parse`; or `Drop`, `GetGone`,
`DeleteGone`, `PathGone`, `CloseGone`, `Shut`. Every step is one operation of a map or one
field access of a shared object. A panic in a request is the script's; one in a handler ends the process
(`Crashed`), since nothing recovers it. `disturbed` remembers who overlapped whom. The handler is
coarser than in `Watcher` where a cached file is loaded (one step `LoadStat`), which `Watcher`
takes apart. Left out: the elements a template includes (`Valid` is then true), what parsing and
compiling make of the content.

### 2.7 Sessions

`Open`, `Register`, `End` are the handler of requests in `globalsession.go`; `NewChild`, `EndChild`
are `Sessions().New` and `Close` by the script, `Capture`, `RunQuery`, `Store` are
`dbmshandler.QueryContext`, split where the handler's map is read, where the query runs and where the
reader is stored. `Close` of a session starts two goroutines: `ReadMap`, `Unset`, `RangeMap`,
`ClearMap`, `CloseNext`, `CloserEnds` are `dbmshandler.Close`; `Delete` removes the key from the
owner's sessions. `Tick` advances the clock: `nextserial` compares `lastserial` with itself
and so returns the clock reading as it is. A script is one goroutine (`Free`). Left out: the
script engine, input and output, files, ranges, and `AttachHandler`, which nothing calls.

### 2.8 Registry

`call` is where each call of `Load` or `Unload` stands. `LoadDriver`, `Register`, `RegisterNew`,
`RegisterKnown`, `RegisterDrop`, `RegisterAgain`, `Reload`, `LoadEnds` are `Load` with
`connections.Register` and `drivers.Register`, the keys of the configuration in any order as Go maps give
them; `UnloadAll`, `UnloadNames`, `UnloadText` are the three kinds of argument, and
`Hook`, `RemoveConns`, `ForgetDrivers`, `RemoveDrivers`, `Wake`, `UnloadEnds` the steps of `Unload`. `RunEvent`
is the goroutine a map starts with what it removed: it closes connections by the callback it
finds installed and wakes that callback's `Unload`. A step is one operation of a map with events;
what happens inside one is the subject of `IterMap`. A call makes at most one connection, which bears
its name; the connection is open while it has a driver (its pool is the subject of
`Connection`).

### 2.9 Buffer

`buf` keeps the chunks, the tail, how far it is filled, which array is behind the slice of chunks and how often
the tail was started again. `reader` is a `BuffReader` with its cursor: the slices it took at its last
`reset`, its range, and the cells it has fetched and not delivered (`rest`, the code's `rbytes`). A
cell is a byte of a chunk or a place of the tail, so that what the reader delivers is looked up when
it is delivered. `Write`, `Reader`, `Read`, `Seek`, `CloseReader`, `Clear` and `CloneAndClear` are one call each;
`nextBytes` with `CutChunk` and `CutTail` is the cursor's arithmetic, translated as it stands.
`due` is a ghost: what the reader owes its caller. The searches run the code's byte-by-byte scans
over the content as recursive functions of the number of bytes seen, `WriteToOffSet` is the loop behind `WriteTo` and `SubString`. Left out: runes,
`MaxRead`, `MaxLenToWrite`, `InsertAt`, the disposal of buffers. (No reader is ever stored in the
buffer's list of readers, so `Clear` closes none.)

## 3. Runs

| Run | Instance | Distinct states | Shows |
|---|---|---|---|
| `rows` | 4 rows, fair | 93,673 | delivery, flags, completeness, loss, panics, refinement of `FilteredCursor`; the loop ends and the driver's rows are closed |
| `connection` | 2 calls, an SQL and a file driver, 2 data sources, fair | 40,020 | pool and connection invariants; `Close` gets every pool closed |
| `itermap` | 3 calls, 2 keys | 107,982 | values accounted for, reported once, closed map empty |
| `listening` | 3 calls, 2 names, 2 addresses | 769,321 | listeners and sockets, `Unload` waits |
| `listening_live` | 3 calls, 1 name, fair | 167,147 | `Unload` returns |
| `watcher` | 1 file, 2 handlers, 4 changes, fair | 652,735 | stale entries are pending, times of entries, the cache settles |
| `active` | 2 requests, 2 handlers, 3 of them starting, 2 versions | 3,769,374 | what requests are served, closed entries, when a handler panics |
| `sessions` | 2 requests, 1 child, 1 query, 2 clock readings, fair | 220,113 | readers and keys go away, who closes a handler |
| `registry` | 4 calls, 1 alias that is also a driver's name, 2 drivers | 1,261,514 | registered is open, nothing lost, what an `Unload` leaves |
| `registry_live` | the same with 3 calls, fair | 227,608 | `Unload` returns |
| `buffer` | chunks of 3, 2 byte values, 7 bytes written | 1.4 million | readers, searches and cuts against their definitions |
| `buffer_indexof` | as `buffer` | (violation) | `IndexOf` against its comment |

Why the bounds are enough to be interesting. Four rows give a first, a last, a held-back and a
skipped row in every order, with an error or a `Close` at every step among them; every subset of
rows is selected in turn. In `Connection` a bad meeting has two parties; that a third call
(the one that opened the pool two others fight over) adds nothing to the invariants is what the
theorems of section 4 show. In `IterMap` one call stores, one removes and the third
interferes, on the same key or on another one. In `Listening` three calls are two
`Unload`s and the `Listen` they are about, or the reverse. In `Watcher` files do not
interact; four changes are a write, a second one behind its timer, a removal and a return, with a handler
free for each of two events. In `ActiveCache` three parties with two versions of the file are two
handlers with a request, or two requests with a handler; the exceptions stated by the properties
all occur there. In `Sessions` a child shares its request's handler while the query
runs and a second request may get the same key. In `Registry` the alias `sql` is also the name of a
driver, because `Register` looks a driver up by the alias; four calls are three `Load`s of one alias,
of which the second drops the connection of the first, and a full `Unload`: with three calls the
exception of `UnloadLeavesNothing` does not occur. In `Buffer` chunks of three bytes
tell the first, the middle and the last byte of a chunk apart, and seven bytes are two chunks
and a tail. Calls, keys, names, addresses, data sources, requests, handlers and bytes are interchangeable and are symmetry
sets in the runs without liveness.

Deadlock is not checked: each call is made once, so every instance ends when its calls are
used up; and an `Unload` that removed nothing waits forever in the code as in the model
(see below). The two properties `UnloadReturns` are about the waiting.

Fairness: a call that was made and a goroutine that was started go on (weak fairness of
each call's own steps, which is what Go's scheduler gives), a reader is closed by its script in
the end, and in `Rows` the caller loops until `Next` says false. In `Watcher` the loop, the timers and
the handlers go on; in `Sessions` the goroutines `Close` has started do; in `Registry` the steps
of calls that were made, and the event goroutines. Nobody is assumed to make a call or to change a
file: `CloseByOther`, `Call`, `Reload`, `Close`, `Listen`, `Load`, `Unload`, the disk and scripts have no
fairness. `ActiveCache` and `Buffer` have safety properties only.

What the properties say about the code, with their conditions read the other way around:

* `AtMostOneRowLost`: an error of the driver while looking ahead loses the row that was held
  back although it was read without error; never more.
* `PanicOnlyAfterForeignClose`: closing a reader while another goroutine is in `Next` can
  panic; nothing else can.
* `NoLeakUnlessRaced`, `NoStalePoolUnlessRaced`: two calls that open the pool at the same time
  leave one pool open and unreachable; a `Reload` during `nextdb` can leave the old
  data source in use. `CurrentPoolOpen` holds without condition.
* `UnreturnedConnections`: an execute never gives its connection back to the pool,
  nor does a query whose statement fails when it runs; all other paths do.
* `EveryValueAccountedFor`: two calls on one key between their read and their write can
  lose a value with no event.
* `SocketsReachable`: two `Listen`s of one name at once, or an `Unload` of everything
  (after which the map accepts nothing), leave a serving socket that no `Unload` reaches.
* `UnloadReturns` (listeners): an `Unload` of a name that is not there never returns, and two
  `Unload`s at the same time can steal each other's callback.
* `StaleIsPending`, `Settles`: a write that arrives while the handler of an earlier event runs restarts the
  timer, and the end of that handler stops it (`watcher.go:75`): the file stays stale until it is
  changed again. The handler of a Chmod does the same. Two handlers of one file at once can leave an
  entry of a file that is gone. Nothing else leaves a stale entry behind.
* `ClosedOnlyInUpdate`, `AloneIsServed`: between the `Close` and the `Delete` of an update a request finds a closed
  entry and panics or serves nothing; a request that nobody disturbs is served, unless two updates
  or an old modification time left an empty entry that passes for current.
* `CrashNeedsRival`: a handler of the watcher can panic, and nothing recovers it; it takes another
  handler, or a request that saw the file at another time.
* `LostOnlyByChild`, `ReadersClosed`: the end of a child session closes the database handler of
  the request that still runs; a query that was under way then stores its reader where nobody
  will close it. Without a child neither happens.
* `RunningIsRegistered`: two requests of one clock reading get the same key, and the second replaces the
  first in the registry of sessions.
* `LostNeedsOverlap`: two `Register`s of one alias, or a `Register` that overlaps a removal, leave an open
  connection that nobody closes. `RegisteredIsOpen` holds without condition. A second `Load` of
  an alias looks its driver up by the alias, finds none, and drops the connection.
* `UnloadLeavesNothing`: a full `Unload` waits for the event that closes the connections it has removed. It
  does not wait for a connection that an earlier `Load` dropped and that no goroutine has closed yet,
  not even when the calls were made one after the other.
* `UnloadReturns` (registry): an `Unload` that removed nothing waits forever, a second full `Unload`
  panics on the closed map, an argument that is no map makes `Unload` spin; two `Unload`s can take each
  other's callback.
* `ReaderDelivers`, `StopsNeedCause`: a reader over a buffer that goes on being written delivers later
  bytes once the tail is reused, fewer after `Clear`, bytes fetched before a `Seek` after it; a range that starts on the
  last byte of a chunk or ends inside one panics, is cut short or turns forever
  (`template/code.go:214` asks for `SubBuffer(0, Size-1)`).
* `SearchExact`, `SubStringExact`: the searches miss a match that begins within a partial one;
  `SubString` from beyond the first chunk writes nothing. `IndexOfDocumented` is violated: the
  comment promises the index of the match and the code returns one less, -1 for a match at the
  start.

## 4. What is proved

TLAPS checks every proof below to the last leaf; there are no unproved facts.

**Rows** (`ReaderProofs`, first part; assumption `N \in Nat`). The seven safety properties of the run are
theorems for every number of rows, every query and every point of failure. None is inductive:
what the caller has been given says nothing about the row held back. The inductive
invariant has four parts: the types; `OutInv`, every record handed out is right; `CursorInv`,
for an open reader and by the step `nextRec` is at, which row each buffer holds (`lstdta` the
next selected row after the last record, `nxtdta` the one after it or a candidate), that no
selected row lies between the rows seen, and how `rwnr`, `first` and `last` follow `out`;
and `EndInv`, what was true when `Next` closed the reader stays true. A reader closed by another
goroutine delivers nothing more, so nothing is said of its buffers. `RefinementTheorem` adds that each step is a step or a stutter of
`FilteredCursor`: a return of true is `Deliver`, the end of the reader `Drain` or `Cut`.

**Connection** (`ConnectionProofs`; assumptions: `Nil` is neither a call nor a driver, file drivers
are drivers). For any number of calls: `CurrentPoolOpen`, `NoLeakUnlessRaced`,
`NoStalePoolUnlessRaced`, `UnreturnedConnections` and the type invariant. `PoolInv` says where
each pool may be known (a pool about to be assigned is known to its opener only; one that is being
closed is not current); this part holds with any overlap. `UnracedInv` says what the locals
mean while nobody has overlapped: a local copy of `db` in a window is the current pool,
and a pool being opened belongs to the current driver and source.

**IterMap** (`IterMapProofs`; assumption: `Nil` is not a call). For any number of calls and keys:
`EveryValueAccountedFor`, `ReportedOnce`, `ClosedMapIsEmpty` and the type invariant. `KeyInv`: a value
is found under its own key only; `WindowInv`: on a key that was not raced on, what a call read is
still what the map holds; `OnceInv`: a value in a `tmp` is out of the map, not yet reported, and in one
`tmp` only; `ClosedInv`: a closed map has a `Close` still ranging over the keys that are left.

**Watcher** (`WatcherProofs`; assumptions: `MaxChanges \in Nat`, `Nil` is not a file). For any number of
files, handlers and changes: `StampNotNewer`, `StaleIsPending` and the type invariant. `StampNotNewer` needs `HoldInv`, that
what a handler carries (the time of its `os.Stat`, the version read after it) is already in the right order,
and that times never go back. `StaleIsPending` is not inductive, as an event that is queued may be
of the wrong kind. For a file spared by both races: `SoleInv`, one handler at most uses its
entry; `GoneInv`, while a removed file has an entry or a handler that may still store one, a removal is queued or a
handler is about to drop it; `HeldInv`, a handler that has compared but not stored holds the time of the
file, or a later event will come; `OldInv`, an entry of another time has its event, timer or handler.

**Registry** (`RegistryProofs`; assumption: `Nil` is neither a call, a driver nor an alias). For any calls, aliases and
drivers: `RegisteredIsOpen`, `LostNeedsOverlap`, `UnloadLeavesNothing` and the type invariant. Connections are
closed by event goroutines at any later time, so `RegisteredIsOpen` rests on what an event may hold:
`ApartInv`, no connection is both in the map and in an event; `OneInv`, a connection has one alias (so a
removal takes all of it out); `FreshInv`, a call that may still store its connection has not done so
(so none comes back after it was handed to an event); `TodoInv` and `ReloadInv`, `Register` runs once
per call and reloads only with a driver. `LostNeedsOverlap` needs two facts of behaviours without an
overlap: `SeqInv`, one call is under way, and `KnownInv`, what `Register` found in the map is still so when
it acts on it. `UnloadLeavesNothing` needs `MapInv` (a closed map is empty), `RaisedInv` (the
connections of a closed map are in one event, which can be raised once), `OwnInv` (a callback for a deletion belongs to
a partial `Unload`) and `UnloadInv`, by the step of an `Unload`, which map is closed and that it passes its
first wait only when that event has run. The first attempt at this proof failed: as it was then stated the
property held in the run only because of its bound of three calls, and the exception it has now is what was missing.

**Sessions** (`SessionsProofs`; assumptions: `Nil`, requests and children are distinct, `MaxTick \in Nat`). For any number of
requests, children, queries and readings of the clock: `ClosedIsBeingDeleted`, `RunningIsRegistered`, `LostOnlyByChild`,
`ReadersClosed` and the type invariant. `OwnerInv` says whose database handler a session has, `CloserInv`
what the goroutines of a `Close` hold, `EntryInv` under which key a session is entered. For the readers:
`QueryInv`, the reader of a query is known to nobody before it is stored; `HeldInv`, an open reader that was
stored in time is in the map or with a goroutine that closes it; `SweptInv`, what is in the map once a
goroutine has collected it came late; `LiveInv` and `LateInv`, a running request with a closed handler or a
late reader has had a child that was closed.

**Listening** (`ListeningProofs`; assumption: `Nil` is not a call). For any number of calls, names and addresses:
`MapHoldsLiveListeners`, `UnloadWaits`, `SocketsReachable` and the type invariant. `MapRefinement`
shows first that every step is a step or a stutter of `IterMap`, with the calls as its operations: what was
proved about the map (a value in a `tmp` has left the map, was not reported, and is in one `tmp` only) is
then used here without a second proof. `CallInv` adds where a call stands and what its locals hold,
`EventInv` that a listener is with one event goroutine at most, `HoldInv` that it is shut down by the one that has it. `UnloadWaits` is
about behaviours in which no other `Unload` installed its callback: `WaitInv` follows the callback from its
installation to the event that runs it and the answer it gives. `SocketsReachable` needs
`OpenInv`, `FreeInv` and `Recorded`: while nobody has unloaded everything, a name that is being opened is in no
other call's hands, or the meeting was recorded.

**ActiveCache** (`ActiveCacheProofs`; assumptions: requests and updates are distinct, `MaxVer` and `MaxProcs` are natural
numbers, the first not 0). For any number of requests, updates, versions and calls: all four safety properties and
the type invariant.
`ClosedOnlyInUpdate` needs `OwnInv`: an info is known to its maker only until it is in the map, and one that
is about to be closed has left the map. `NeverOlderThanStat` rests on the times: `TimeInv`, versions do
not go back, a cachedstat has the time of its version and an info was parsed from a version of its time or a
later one; `CurrentInv`, the info a request serves has the time of its FileInfo. `CrashNeedsRival` follows the closed info to
the one who closed it (`RivalInv`), who was in flight at the same time (`OverlapInv`). `AloneIsServed` is
the deepest: while an undisturbed request is in flight only it and the writer of the file move (`AloneInv`), so what is
left is what it finds. `Dead(m)` says that no FileInfo of time `m` can be had any more without
a disturbance; it is stable while times are distinct and no two updates were disturbed. `SwapInv` and
`EmptyInv` show that a cachedstat is closed, and an info is empty, only with a dead time, and
`ServedInv` that the request therefore never takes an empty info for current.

**Buffer** (`ReaderProofs`, second part; assumptions: `ChunkSize > 1`, the byte `Zero` of a fresh array is not a
byte that is written, `NilSlice` is not a chunk, the bounds are natural numbers). For every chunk size, alphabet, content, range and
pattern: `ReaderDelivers`, `StopsNeedCause`, `SearchExact`, `SubStringExact` and the type invariant.

The two properties of a reader speak of what it has delivered and not of what it holds, so neither is inductive.
`BufferInv` adds, for a reader that was made, three parts. `Snapshot`: the slices it took are the content it owes, and
the tail it refers to still is, unless the tail was started again. `Placed`: with an aligned range and slices
that were not emptied the reader has not stopped, and its cursor is at the end, or in its range and not on the last
byte of a chunk, where `nextBytes` would reckon wrongly. `Rests`: if the reader was not skewed by `Seek` either, the
cells it fetched and has not delivered are the next bytes owed up to where the cursor stands, it ended only at its end, and
nothing wrong was delivered unless the tail was overtaken. `FetchBrings` and `PullReads` show that the code's step leads from one such position to
the next, `ReadInv` that a `Read` of any length does. The owner's calls are the
other half: a write leaves the slices of a reader alone or starts the tail again, `Clear` empties exactly the slices it
shares, `CloneAndClear` touches none. TLC checked `BufferInv` on the instance of the run before it was proved.

The loops (writing byte by byte, the scans, reading, the parts of a cut) are recursive functions over the number of turns. What such a
loop computes is proved by induction over the turns with sets instead of predicates: from the library's well-foundedness
of `<` follows that a nonempty set of numbers has a least element (`LeastNat`), from it that a set of numbers with 0 and
with every successor is all of `0..n` (`Induction`), and with it that the equations of a loop have one solution
(`LoopExists`, `LoopUnique`), so that the function TLA+ chooses satisfies them. The invariant of a scan is then a set of
turns: after `n` bytes of a scan forward the last `i` bytes are the first `i` of the pattern and no match is complete
(`ForwardGoes`; `BackwardGoes` from the other end); for a pattern whose first byte does not recur, no match has been passed.
`SubStringExact` follows the parts of a cut: after each chunk, what was written is the content from the start of the range as
far as that chunk or the range reaches.

The type invariants of all nine modules are proved, and so is every safety invariant that a passing run checks.

**Only model-checked**: liveness (`DriverRowsReleased`, `LoopEnds`, `CloseReleasesPools`,
both `UnloadReturns`, `Settles`, `Drains`), which needs ENABLED and fairness and is out of the prover's
reach.

## 5. Not modelled, and the plan

Done: the cursor with its abstract specification, the connection, the map, the listeners, the watcher with
the file cache, the cache of active files, sessions with their database handlers, the registry, the buffer.
What could be added:

* The offset arithmetic of range requests in `globalsession` as operators; `mapreader`'s longest-key
  replacement; `Unload` of the multi-filesystem, which waits for two events in turn by the handshake that
  `Listening` and `Registry` model; registration in `mqtt`.

Not modelled of the parts that are: path handling in `StatContext`, embedded files and directories, the
templates an active file includes, runes and the disposal of buffers, the parsing of configurations and
query text, results without columns.

Not planned: pure I/O and adapters (`ws`, `listen`, `stdio`), text processing (`template`,
`parameters`), the scheduler (its loop is not implemented in the repository), the older generation
(`iorw`, `database`, `resources`, `serve` outside `serveio/session`), and third-party code: the
spreadsheet library, the JavaScript engine, the PDF writer and the mail libraries, which are most of the
repository's lines, are copies of other projects that lnksnk calls; none of its own state or
concurrency is in them.
