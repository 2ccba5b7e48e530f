# Forest storage engine: TLA+ verification project

TLA+ models of the Forest database engine (`src/`, Go), TLC runs on small
instances, and TLAPS proofs. `PROJECT.json` maps every definition to the source
lines it models and lists runs, mutants, findings, hazards and theorems.

## 1. Inventory of the system

| Component | Source | State | Operations |
|---|---|---|---|
| Write path, rotation | `internal/engine/db.go` | `activeMT`, `immutableMT`, `flushQ` (capacity 1), `db.mu` | `Put`, `Delete`, `CheckFlush` |
| MemTable | `memtable.go` | skip list, `size`, `frozen`, writer lock | `Put`, `Get`, `Scan`, `Freeze` |
| Flush worker | `db.go` `flushWorker` | `flushCount`, the table it holds | receive, `FlushMemTable`, publish, clear, compact, drain |
| RCU manifest | `version.go` | `currentVersion`, `Version.Refs`, file lists | `Acquire`, `Release`, load/store swap |
| Compaction, purge | `compactor.go`, `db.go` `maybeCompact` | `compactionMu`, captured batch, files on disk | `CompactL0toL1`, `PurgeObsoleteFiles`, `TriggerCompaction` |
| Read path | `db.go` | pointers loaded by the call, `seen` | `Get`, `Scan` |
| WAL | `wal.go` | `bufWriter`, file, `stopCh` | `Append`, `syncLoop`, `flush`, `Close`, `Recover` |
| Shutdown | `db.go` `Close`, `cmd/server/main.go` | `stopCh`, `wg` | `Close` |
| SSTable, Bloom filter, iterator | `sstable.go`, `bloom.go`, `iterator.go` | bytes of a file | write, point lookup, sequential read |
| Server, handler, protocol | `internal/network` | listeners, `udpConn`, `stopCh`, `wg`, connections | `Start`, `Stop`, `HandleRequest`, UDP telemetry |
| Server binary | `cmd/server/main.go` | the signal goroutine | start, shutdown, exit |
| Client SDK | `pkg/client` | one connection, `closed` | `Put`, `Get`, `Delete`, `Scan`, `Echo`, `Close`, datagrams |
| Metrics, TLS, scripts | `internal/metrics`, `tls.go`, `scripts` | counters, certificates | observation and wiring |

How they interact:

* Any number of connection goroutines call `Put`, `Delete`, `Get` and `Scan`.
  They share `activeMT`, `immutableMT` and `currentVersion` through atomic
  pointers only; `db.mu` serialises `CheckFlush`, `Close` and the worker's
  clearing of `immutableMT`; every MemTable has a writer lock of its own; the
  WAL has another.
* The worker receives frozen tables from `flushQ`, writes an L0 file, swaps the
  manifest and compacts. `TriggerCompaction` runs the same compaction in its
  caller's goroutine, under `compactionMu`, which the worker's own manifest swap
  does not take.
* A compaction starts a purger goroutine which polls `Refs` of the replaced
  Version and then unlinks the batch.
* `syncLoop` moves the WAL buffer to the file every 10 ms and calls `fsync`
  without the lock. A restart replays the log; the manifest starts empty.
* A client has one connection and one call at a time; the server runs one handler
  goroutine per connection, which calls the engine. Answers carry nothing that
  names their request. `main` runs `Start` and, on a signal, another goroutine runs
  `Stop`, closes the engine and exits; `Stop` does not wait for connections.

What is hard: manifest swaps by two goroutines without a common lock; unlinking files
that some reader may still need; a lookup that loads three pointers while tables move
between them; a retry loop against freezing; sends made under a lock that the receiver
needs; a shutdown that closes channels under running writers; crashes between
acknowledgement, buffer, file and fsync; a torn log that is appended to; readers
without locks on a list that is being linked; a merge whose inputs fail midway; late
answers on a connection that stays in use; a `Stop` that races with `Start`, with
itself and with a socket it sets to nil. `PROJECT.json` lists them as hazards, each at
its line.

What makes each part correct:

* *write path*: every mutation takes effect exactly once; rotating, flushing and
  clearing change no answer; nobody blocks for ever; `Close` loses nothing, and a
  failed flush no more than what it was to write;
* *manifest, compaction, purge*: exact reference counts; the current Version has
  its files; a reader keeps the files of its Version; the newest entry of a key
  wins through any number of flushes and compactions; purgers end;
* *read path*: a value returned is one the key had during the call;
* *WAL*: what is acknowledged, synced or closed survives; replay rebuilds the
  table;
* *skip list*: it behaves as an atomic table that can be frozen; reads wait for
  nobody;
* *SSTable, Bloom filter, merge*: a lookup in a file answers what was written to
  it, and a lookup in a merged file the newest entry of its inputs;
* *client and handler*: a call gets its own answer; a mutation is applied at most
  once and in order;
* *server*: `Stop` returns, releases the sockets and ends telemetry.

## 2. Modules

| Module | Models | Notes |
|---|---|---|
| `Entries` | what tables hold: value, tombstone, no entry | shared by all |
| `KV` | abstract specification: a map, each call applied once between call and return; values may be lost only if `MayLose` | implemented by `Rotation` |
| `VersionSet` | `version.go`, manifest swaps, `maybeCompact`, `PurgeObsoleteFiles`, SSTable part of `Get`/`Scan` | state machine with proofs |
| `Rotation` | `Put`, `Delete`, `CheckFlush`, queue, worker, `Close` | refines `KV` |
| `DB` | `Rotation` and `VersionSet` composed, plus the whole of `Get` and `Scan` | the worker's steps joined |
| `WAL` | `wal.go`, `NewDB`'s recovery, crashes | stands alone |
| `FreezableTable` | abstract specification: what a MemTable promises `Rotation` | implemented by `SkipList` |
| `SkipList` | `memtable.go`, one step per atomic load or store | refines `FreezableTable` |
| `SSTable` | `sstable.go`, `bloom.go`, the file writer of `compactor.go` | operators, no state |
| `KWayMerge` | `CompactL0toL1`, `iterator.go` | checks `SSTable` against plain tables |
| `Session` | `client.go`, `handler.go`, `protocol.go`, `handleConnection` | on top of the abstract map |
| `Server` | `server.go`, the goroutines of `main.go` | |
| `MC*` | constants for TLC | |
| `VersionSetProofs` | TLAPS proofs about `VersionSet`: types and counts, files, answers | in this order |
| `KWayMergeProofs` | TLAPS proofs about `SSTable` and `KWayMerge` | |
| `RotationProofs`, `SkipListProofs`, `WALProofs`, `SessionProofs`, `ServerProofs` | TLAPS proofs about the module of that name | |
| `DBProofs` | TLAPS proofs about `DB` | uses the proofs about both parts |

How they fit together: `Rotation` takes a MemTable for a table whose operations
are atomic; `SkipList` implements that table. `VersionSet` takes a flush, a merge
and a lookup in one file for one step each; `SSTable` and `KWayMerge` show that the
file a flush or a merge writes answers as `VersionSet` says. `DB` joins `Rotation`
and `VersionSet` action by action. `Session` takes the engine for the map that
`Rotation` refines (`KV`), with a `Scan` that reads its keys one after the other, as
`DB` allows. `Server` takes `DB.Close` for one step; what it does is in `Rotation`
and `WAL`.

### State and actions

*VersionSet.* Files are numbers in the order their names are drawn, so a set
stands for a slice of the manifest; every Version adds one file to its
predecessor and is named after it. `refs[v]` is `Version.Refs`, `obsolete[v]`
what the purger of `v` has still to unlink, `wpc` the worker's position,
`holder`/`cstep` the owner of `compactionMu` and how far its compaction is.
Loading and storing `currentVersion` are separate steps (`LoadVersion`/
`StoreVersion`, `ReloadVersion`/`InstallCompacted`). `Acquire`'s load and
compare-and-swap loop is one step: a failed swap only repeats the load. Writing
an SSTable is one step, because nobody reads it before it is published; a lookup
in one file is one step, because an open file can be read after it is unlinked.
`Faults` says whether a flush, a compaction or an unlink may fail.

*Rotation.* One action for each access to shared state of `Put`, `CheckFlush`,
`flushWorker` and `Close`. A MemTable is a map; its operations are atomic (the
insert is under the table's lock). Its size is the number of its entries: like
the byte count of the code it grows with a new key and not with an update. The
published SSTables are one map, `base`; `stored` also has the files drained at
shutdown, which no manifest lists. With `FlushMayFail`, `WriteFile` and `Drain` may
fail: the error is logged and the worker goes on, publishing a file that no lookup can
read. `Unreadable` is the answer of such a file, an error to the caller of `Get`; it
hides the older files for every key that comes to it. In `stored`, which says what the
files on disk hold, it stands for the entries of the table that was dropped. `KV` may
turn values into `Unreadable` (`Lose`) and do nothing else to them outside a call.
`DbAssumption` ties `FlushMayFail` to `"flush" \in Faults` in `DB`.
Walking the table in `WriteFile` is one step;
that is exact for a frozen table, and coarser than the code only when writers run
during `Close`, which does not freeze.

*DB.* The worker's actions of the two modules happen together: writing the file
is `WriteFile` and `FlushMemTable`, publishing is `Publish` and `StoreVersion`,
clearing is `ClearImmutable` and `AfterClear`. `Get` and `Scan` load `activeMT`,
search it, load `immutableMT`, search it, then acquire a Version and search its
files. `window` is a history variable: the values a key has had since the call
began.

*WAL.* The log is a sequence of records in `file` and `buf`; `partial` says that
`bufio` has written the first part of a record whose end is still in the buffer;
`broken` is the sticky error of `bufio.Writer`. `Kill` loses the buffer and turns
a partly written record into `Torn`; `LosePower` keeps any prefix that contains
what was synced. `NewDB` replays what stands before the first torn record and
appends behind everything. MemTables and SSTables of one incarnation are one map.
Crashes are external and marked so in the map. Three history variables: `failed`, the
disk has refused something in this incarnation; `acked`, the records whose calls have
returned nil; `raced`, the keys whose last record was appended while another call had
logged the key and not inserted it yet.

*SkipList.* Keys are numbers in byte order and name their nodes; `next[n][i]` is a
node's pointer on level `i`. `PutNewNode` makes and wires a node, each `PutLink`
stores one pointer, and `mu` is held in between; the search for the predecessors
reads only what the owner of `mu` may write and is part of these steps. Each
`Descend`, `CheckBase`, `GetValue`, `ScanNext` and `ScanTake` is one atomic load of
a reader. A node's height is any level (the code draws it at random). A behaviour
begins with a table that earlier `Put`s have left, of any heights.

*SSTable, KWayMerge.* A file is its entries with their byte offsets, the sparse
index, the encoded filter and the end of the data. Keys have lengths, so offsets,
4096-byte blocks and the 16-bit sum of `ReadSSTable` are the code's. The Bloom filter
works for any pair of hash functions; the floating-point sizing of
`NewBloomFilter` is a constant. `KWayMerge` opens iterators, pops, drops duplicates
and writes; a read error ends an iterator silently, as in the code. The heap is a
set with `Less`: container/heap's array layout is not observable.

*Session.* `up[c]` holds requests, `down[c]` the pieces of answers: a header and
units of payload, one piece for each `conn.Write` of the handler. A client accepts a
header by the checks its call makes, and then reads as many units as the header
says. `TimesOut` ends a call and leaves the connection in use; `ConnectionDrops`
loses what is on its way. `hleft` is what a `Scan` has still to read, `hseen` the items
it has found. Assumed: a request arrives whole, and no payload begins
with the magic byte. `clean[c]` is a history variable: no call of `c` has failed.

*Server.* Binding a socket and storing it in the `Server` are two steps, so `Stop`
may come between them. Without a UDP address (`-udp-port 0`, `WithUDP` not used; `upc`
is `"off"`) `Start` goes from storing the listener to its accept loop. `listenUDP`
loads `udpConn` without the lock; after `Stop` set it to nil the outcome is an error or
a panic. `proc` is the process: `main` returning ends it whatever the other goroutines
are doing.

## 3. Runs

Passing:

| Run | Shows | Instance |
|---|---|---|
| `vs_data` | the current Version keeps its files and is never purged; readers a purger waits for keep theirs; the newest entry of a key wins; a read answers from one Version; L0 is bounded | 2 keys, puts and tombstones, 1 reader, 1 caller of `TriggerCompaction`, 4 flushes, threshold 2 |
| `vs_live` | exact reference counts; purgers end, reads return, the worker returns to its queue, also when flushes, compactions and unlinks fail | fair, 1 reader, 1 caller, 3 flushes, all faults |
| `rot_kv` | refinement of `KV`; the send under `db.mu` never blocks; a pending table is `immutableMT`; a retired table is frozen; `Put` returns, `immutableMT` is freed; `Close` after the writers have stopped returns and leaves everything in files but what a failed flush was to write | fair, 2 writers, 2 keys, 4 calls, threshold 2, failing flushes |
| `db_reads` | reads are linearizable per key; compaction changes no answer | 1 writer, 1 reader, 3 flushes, 1 compaction |
| `skiplist` | refinement of `FreezableTable`; every level stays sorted and inside the level below; reads answer with entries of their window and wait for nobody | fair readers, 2 writers, 1 reader, 3 keys, 2 levels, empty and filled tables, `Freeze` at any moment |
| `merge` | a flushed file and a merged file answer every lookup exactly; the output stays sorted when inputs fail | all pairs and triples of small tables with an empty, two short and a very long key, values inside and beyond a block, 5 filter bits in 2 words, all faults |
| `session` | answers belong to their calls; connections are drained between calls; mutations apply once and in order; calls return | fair, 2 clients, 2 calls, 2 keys, timeouts, engine errors, oversized values, dropped connections |
| `server` | `Stop` returns; sockets are released; no telemetry afterwards | fair, with and without UDP, signal and one embedder calling `Stop`, 2 connections, 2 datagrams, failing binds and accepts |
| `wal` | replaying gives every key the value lookups answer, unless its records overtook each other; a synced, replayable record stays replayable; `Close` leaves the log it was called on durable; every record is synced in the end | fair, 2 writers, 2 keys, 2 records, failing writes and fsyncs, 2 crashes, power loss, `Close` |

Disagreements between the code and what its documentation says. The first three are
runs that TLC must refute, and `PROJECT.json` quotes the text:

| Run | What happens |
|---|---|
| `vs_stale_reader` | A reader holds Version 1 (one L0 file); a second flush and a compaction replace Version 2; the purger waits for Version 2 only and unlinks the reader's file. |
| `rot_panic` | A rotation during `Close` sends on the closed channel. |
| `wal_torn_tail` | Synced records behind a torn one are not recovered. |

For five more there is a configuration that reproduces the counterexample, for instance
with `tlc -config MCWALKill.cfg MCWAL`:

| Configuration | Module | Property refuted | The repository says | What happens |
|---|---|---|---|---|
| `MCWALKill.cfg` | `MCWAL` | `AcknowledgedSurvive` | `README.md:38`: "100% of acknowledged writes survive `kill -9`" | `Put` returns with its record in the buffer of the process (`wal.go:77`); a kill before the next sync loses it. |
| `MCWALReplayOrder.cfg` | `MCWAL` | `RecoverRepopulates` | `wal.go:137`: "Recover replays a WAL file sequentially to repopulate the MemTable" | Two `Put`s of one key append in one order and insert in the other (`db.go:307-313`): `Recover` yields the value lookups had seen replaced. |
| `MCVersionSetCollide.cfg` | `MCVersionSet` | `NewFilesRetained` | `db.go:408`: "Retain any new L0 files that might have been flushed during compaction" | A compaction fails and L0 stays at the threshold; `TriggerCompaction` compacts and loads the current Version; the worker publishes a flush; the compaction stores a manifest without that file (`db.go:428`). |
| `MCRotationFlushFails.cfg` | `MCRotation` | `ClosePersists` | `db.go:474`: "Drain remaining flush queue on shutdown to guarantee crash durability." | A flush fails, is logged and its table dropped (`db.go:443`, `db.go:478`); `Close` returns nil and no file holds the entries. |
| `MCSessionLateAck.cfg` | `MCSession` | `AckFollowsMutation` | `client.go:117`: "The mutation is written to the Write-Ahead Log (WAL) and active MemTable before receiving an ACK." | A `Put` times out; the next one reads its late acknowledgement (`client.go:150`) and returns nil before it is applied. |

Further places where the code does less than one might expect. No run is kept for
them; the premise that excludes each is in the property or in the constants of its
run. Where constants are named, TLC refutes the property with them:

* a failed flush is published (`db.go:443`), so `CurrentIntact` is stated for
  `Faults = {}`, and so are `ManifestComplete` and the other properties of `vs_data`,
  which the colliding swaps above affect as well. Without faults the inductive invariant of
  section 4 shows that a flush and a compaction never overlap;
* an entry under the empty key disappears in a compaction (`compactor.go:134`):
  `MergedLookUpExact` excepts it, `EmptyKey` is no member of `Keys` in `vs_data`;
* a read error during a merge loses the rest of that file (`compactor.go:117`):
  `MergedLookUpExact` is stated for merges without one;
* a lookup in a file whose first key is longer than 65529 bytes panics
  (`sstable.go:243`): `FlushedLookUpExact` and `MergedLookUpExact` except such files;
* `Put` succeeds after the WAL was closed (`db.go:491`): `CloseFlushesAll` and
  `CloseReturns` are checked with `CloseWhileWriting = FALSE`;
* a refused rotation is not repeated when the flush ends (`db.go:359`), so an idle
  engine keeps the oversized table: `ImmutableClears` promises no more than a
  free `immutableMT`;
* `WAL.Close` returns nil although its last flush failed (`wal.go:112`):
  `CloseIsDurable` is stated for a disk that has not failed;
* after a timeout the late answer is read by the next call (`client.go:126`, see
  above): `ResultsInWindow`, `StreamsDrained` and the first half of
  `MutationsInOrder` hold for clients whose calls have all succeeded;
* a `Scan` of 65536 or more items leaves items on the connection
  (`handler.go:127`): with `CountMod = 2` `StreamsDrained` and `ResultsInWindow` are
  violated. A key of 65535 bytes has the length that means "not found"
  (`client.go:201`); `NotFoundLen` is no key length of the instance;
* a `Stop` before `Start` has stored a socket leaves it open (`server.go:215`):
  `StopReleases` is stated for a server that was accepting;
* the process may exit before the engine is closed, because `Stop` makes `Start`,
  and so `main`, return (`main.go:143`): `MainReturns` is an action that races with
  `CloseEngine`, and no property is claimed across it.

### Bounds

Every bound is a constant named in its module. Four flushes with threshold 2 give
two compactions, so a reader can hold a Version older than the one replaced, a
purger can be waiting while the next compaction runs, and an L1 file is shadowed
by L0 and by a newer L1 file. Two keys tell an answer from its neighbour's; a
value, a tombstone and no entry are all that lookups tell apart. Four calls of two
writers with a threshold of two entries cover a rotation refused because
`immutableMT` is occupied, a retry on a frozen table and two rotations in a row, so that
a flush that succeeds follows or precedes one that fails.
The WAL buffer holds one or two records, so it overflows inside the bound, and two
crashes allow a torn record with a new record behind it. Two writers let one call
overtake another on a key, and run side by side on two; that a later record of the key
brings log and table together again needs a third, and is left to the proof. Two levels and three keys
let a node go before, between and behind others while a reader stands on any of
them, on either level; a second writer meets a half-linked node only in the form of
the lock, so two `Put`s are enough for an insert, an update and a refusal in any
order. Two or three files cover a key that is new, shadowed, deleted and shadowed
twice; four keys in tables with big and small values give the first, a middle and
the last block and a file of one block. Two calls of two clients give a call behind
a timed-out one on the same connection, and a `Scan` that overlaps a mutation of
another client. Two callers of `Stop` are the caller who stops and the one who finds
the server stopped.
`CHECK_DEADLOCK FALSE` is set because the bounds, and a closed or panicked
process, make behaviours end; blocking is covered by the liveness properties and
`SendNeverBlocks`.

### Fairness

Weak fairness for every goroutine that can run: the Go scheduler is preemptive.
Strong fairness for taking `compactionMu` and for the worker's taking of `db.mu`, which
`Close` takes again and again while it polls (a `sync.Mutex` hands itself over to a
goroutine that has waited one millisecond); the other acquisitions of `db.mu` need
weak fairness only. Nobody has to
call `Put`, `Get`, `TriggerCompaction` or `Close`, a crash never has to happen,
and no write has to fail or to succeed. In `skiplist` only readers are fair: a writer
may stop for ever in the middle of a `Put`, holding the lock, and reads still return.
In `session` the client's and the handler's goroutines are fair and no deadline ever
has to pass, so calls return without its help. In `server` the acquisitions of `s.mu`
are strongly fair, goroutines weakly; that `main` returns is not required, so the end
of the process cannot hide a `Stop` that hangs. In `wal` the ticker keeps `syncLoop`
running and a started `Close` waits for it.

### Mutants

Each property of a passing run has a mutant: an operator beside the definition it
replaces, such as `MergeOldestWins` or `FreezeSkipped`, with which TLC finds the
property violated.

## 4. Proofs

All theorems are about the specifications the runs check, for every set of readers,
writers, clients, keys and values and every bound, under the assumptions the modules
name (`EntriesAssumption`, `ConstantsAssumption` and so on). A hypothesis beyond these
is given with its theorem and says why it is needed: most exclude a place where the
code really does less (section 3). Every inductive invariant was checked by TLC on the
instance of its run before it was proved.

**Manifest** (`VersionSetProofs`)

* `TypeCorrect`, `RefCountsExact`, with or without faults.
  Inductive invariant `CountInv`: types, control facts (a flush or compaction that
  is about to publish has its file; the owner of `compactionMu` is known) and the
  exact counts. `Release` needs the count to be at least one, which follows from
  the cardinality of the set of holders.
* `CurrentStaysIntact`, `CurrentNeverPurged`, `HeldStaysIntact`, `L0StaysBounded`,
  for `Faults = {}`. Inductive invariant `FileInv`:
  * `Serial`: while the worker is idle or between writing a file and publishing
    it, L0 is below the threshold, so no compaction can begin; and while a
    compaction is past its check, the worker is past its swap. Hence the batch a
    compaction captured is the whole L0 slice of the Version it replaces. This is
    why two swaps without a common lock do not collide, and why they do once a
    compaction can fail;
  * `Born`: only published Versions are used; those not yet published, and the
    current one, have no purger;
  * `OnDisk`, `Numbered`, `Purging`: where the files are; a file awaits at most
    one purger, and none while the current Version or the worker needs it; a
    purger that still waits has unlinked nothing;
  * `Reading`: a reader searches files of the Version it holds.
* `SnapshotReads`, with or without faults: a read answers from one Version.
  `SnapInv`: a Version in use never changes, nor do the files it lists
  (`VersionsFixed`); no file the read has left behind holds a key it still wants,
  and a key it has found has the answer of its Version (`Snapshots`).
* `ManifestStaysComplete`, for `Faults = {}` and `EmptyKey \notin Keys`; without the
  second hypothesis `CompleteButEmptyKey` says the same of all other keys.
  `CompleteInv`: a file about to be published is newer than all of its level, and
  a merge holds what `Merge` makes of the files it captured (`Fresh`). The step
  that matters is `InstallCompacted`: by `Serial` the captured batch is the whole
  of L0, so taking it away uncovers nothing older.

`HeldIntact` is deliberately weaker than "no read ever fails", which the run
`vs_stale_reader` refutes.

**Write path** (`RotationProofs`)

* `RotationInvariant`, `SendsFindRoom`, `PendingStaysImmutable`, also with writers
  during `Close`. Inductive invariant `ControlInv`. `Rotating` carries the argument:
  a rotation that has found `immutableMT` nil under `db.mu` has found nothing queued
  and nothing being flushed, so the channel of capacity one has room. `Budget`
  bounds the number of tables: a call rotates at most once.
* `CloseFlushesEverything` and the refinement `EngineImplementsKV`, with failing flushes,
  for `CloseWhileWriting = FALSE`. `DataInv` adds that what is in `immutableMT` is
  frozen and on its way to a file until it is cleared or drained, how much of it
  the files have, and what `Close` has done with the last active table. With
  writers during `Close` it is false, because `Close` may queue a table that a
  rotation has already flushed (`db.go:497-506`). The refinement maps the map of
  `KV` to what the tables and files answer together; the insert is the step that
  takes effect, publishing the file of a failed flush and clearing its table may be
  `Lose`, and each other action leaves the answers as they are.
* `CloseLosesNothing`, for `FlushMayFail = FALSE` as well: then `Close` leaves every
  visible entry in a file. `Readable` says that no file is `Unreadable`;
  `MCRotationFlushFails.cfg` shows that the hypothesis is needed.

**Engine** (`DBProofs`), for `Faults = {}` (hence `FlushMayFail = FALSE`),
`EmptyKey \notin Keys` and `Tables = Table` (flushes write what MemTables hold)

* `EngineIsItsParts`: `DbSpec` implies both `RotSpec` and `VsSpec`, so every theorem
  about the parts holds of the engine.
* `BaseStaysManifest`: the map that `Rotation` uses for the published files is what
  the manifest answers. `Copied` says that the file of a flush is its table's copy.
* `ReadsStayInWindow`: `Get` and `Scan` return values their keys had during the call.
  `Lookups` says of each call what it can still meet: the table it is about to search
  answers from the window, and so do the places behind it, unless that table is still
  the one that hides them. A table that a call has loaded may be retired, flushed,
  cleared and compacted before the call searches it; it only moves down, and the call
  looks there later.

**Skip list** (`SkipListProofs`), for any keys, any number of levels, writers and readers,
and any table that earlier `Put`s have left

* `SkipListSafe`. Inductive invariant `ListInv`: every pointer leads to a greater node
  and each level is part of those below (`Listed`); a `Put` that is linking holds `mu`,
  its node is on exactly the levels below `wlevel`, and its own pointers on the levels
  still to come skip nobody (`Linking`, `Fits`). The levels are defined as what can be
  reached from the head; the step `PutLink` needs that storing one pointer adds one node
  to its level and removes none.
* `SkipListImplementsTable`, the refinement of `FreezableTable`. The step that takes
  effect is the link on the base level, or the store of the value of a key that is
  there; `Linking` says that the table is not frozen then, since `Freeze` takes `mu`.
* `ReadsAnswerFromTheirWindow`. `ReadInv` says where a reader stands (`Searching`,
  `Walking`, `Taking`) and that every key of its range which it has passed and not
  listed was absent at some moment of the call (`CoveredBelow`). Nodes are never
  removed, so the node a reader stands on stays in its level; a node that is linked
  behind the reader's back was absent when the call began.

**Files and merge** (`KWayMergeProofs`), for any set of keys and values with any lengths,
any block size, any filter and hash functions, and any number of files

* `MergeSafe`, with all faults. Inductive invariant `MergeInv`: the inputs are flushed
  tables (`Flushed`), what is in the heap is what each iterator delivered last, and the
  item in hand is the least (`Heads`), and all that is written is below all that is
  still to come (`Output`).
* `FlushedFilesAnswer`. `FlushEnumerates`: a flush lists the entries of its table in
  order. `OffsetsAre`, `OffsetsAscend`: entries follow each other without gaps.
  `IndexIs`: the sparse index names some of the entries, the first included, whatever
  the block size. `BlockHolds`: hence the block that the index search picks for the key of
  an entry holds that entry. `BloomHolds`, `DecodeEncode`: the filter that is read back has
  the bits of every key written. `LookUpFinds` and `LookUpMissing` put these together;
  they hold for any sorted file, so also for the next theorem.
* `MergedFileAnswers`. `Complete`, beside `MergeInv`: as long as no operation fails, every
  iterator waits in the heap or is at its end (`Delivering`), every entry that has been
  passed is in the output with the newest entry of its key, or shares its key with the
  item in hand (`Accounted`), and the item in hand is the newest of its key (`Newest`). The
  step that matters is `PopItem`: a newer file that has the key would have it in the
  heap, where `Less` puts it first, or would already have had it written.

  Assumed are finitely many keys (their lengths fit 16 bits) in the order of numbers,
  that `None`, the nil `lastKey`, is no key, and at least one bit, one word bit and one
  probe of the filter. The exceptions of section 3 (the zero-length key, first keys
  longer than 65529 bytes, read errors) are part of the properties.

**Log** (`WALProofs`), with crashes, power loss and disk faults

* `WalTypeInvariant`, `CloseLeavesDurable` and the action property
  `DurableRecordsStay`. Inductive invariant `WalIInv`: records are numbered apart
  (`Numbered`), what an fsync covers is not behind the point that survives a crash
  (`Placed`), and what `Close` has to see on disk is in the log, then covered by the
  last fsync, then durable (`Closing`).
* `ReplayRebuilds`, for any number of writers. `Rebuilt` says of each key outside `raced`
  that at most one call has logged it and not inserted it, and that replaying the log
  gives that call's value, or without such a call the value lookups answer. Calls of
  other keys may be anywhere. Keys in `raced` are those of `MCWALReplayOrder.cfg`;
  the next append of such a key that overtakes nobody brings log and table together
  again.

**Client and handler** (`SessionProofs`)

* `SessionTypesAndOrder`: the requests of a client are on their way, and applied, in
  the order of its calls, also after timeouts and dropped connections (`OrderInv`).
* `ConnectionsDrained`, `MutationsTakeEffect`, `ResultsStayInWindow`, for finitely
  many keys and fewer than `CountMod` of them: a `Scan` header counts its items modulo
  2^16 (`handler.go:127`). `CleanInv` says where the call of a client without failures
  is: asked, scanning, answered, dropped or being read, and what stands on the
  connection in each of these cases. In particular a header is followed by exactly as
  many units as it announces.

**Server** (`ServerProofs`)

* `ServerInvariant`, `TelemetryEndsWithStop`, for any callers of `Stop`. `SrvIInv`:
  `s.mu` is held from the closing of `stopCh` to the return of that `Stop`
  (`StopHolds`), and a `listenUDP` that was past its check then is waited for
  (`StopWaits`); a second `Stop` cannot return before, because it needs `s.mu`.
  `NoUDP`: without a UDP address there is no socket to release.

**Only model-checked**

* the liveness properties `PurgeCompletes`, `ReadsReturn`, `WorkerReturns`,
  `PutsReturn`, `ImmutableClears`, `CloseReturns`, `ReadsAreWaitFree`,
  `CleanCallsReturn`, `StopsReturn` and `EventuallySynced`: TLAPS does not handle
  liveness under fairness or `ENABLED`. These are all the properties of the passing runs
  that no theorem states;
* the disagreements of section 3, which are refutations.

What recursive functions compute (offsets, index, filter, the levels of the skip list) is
proved by induction: a set of numbers that holds 0 and is closed under successor up to
`n` holds all of `0 .. n` (`Upward` of `KWayMergeProofs`), because otherwise it would miss a least number. The
recursive functions themselves are shown to exist first (`Recursion`).

What the proofs changed in the model: `DB`'s and `SSTable`'s lookups were `CASE`
expressions with overlapping guards, whose value TLA+ leaves open where two guards
hold; they now test their conditions in the order of the code. `Session` keeps the
keys that a `Scan` has still to read instead of computing them from what it has found.
`SSTable` names the limits of its 8-bit and 16-bit fields and says of its keys that they
are finitely many.

## 5. Not modelled

* TLS set-up and the scripts: library calls and file I/O without state of their own.
* Metrics: independent atomic counters that nothing in the engine or the server reads,
  and the HTTP endpoint that shows them.
* The flags and wiring of the binary.
* Corrupt files: `ReadSSTable`'s checks of the magic number and of lengths, and the CRC
  of the log, which is abstracted to whole and torn records.
* Requests that arrive in pieces or malformed: a handler that reads half a header
  waits or fails as it does at the end of the stream.
* `Scan`'s final sort (results are maps) and its key range in `Session`.
* Calling `DB.Close` twice (a panic): `main` calls it once.
* The byte size of a MemTable is abstracted to entries, so the table whose only entry
  is an empty key with an empty value, which has size 0 and is not flushed by `Close`,
  is out of sight.

## 6. Plan

Done: all modules of section 2, their runs, the proofs of section 4.

Every safety property, action property and refinement of a passing run is a theorem, with
the hypotheses named in section 4; what is left to TLC is liveness.

Open for modelling: the snapshots of the latency histogram in `metrics.go`, should
anything come to depend on them.
