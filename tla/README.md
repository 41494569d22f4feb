# Augmented Campus: models, checks and proofs

The repository holds two programs around one database.

* An iOS app, *Augmented Campus* (`src/Augmented Campus/`), shows an arrow over the camera
  picture and leads its user over the paths of a university campus to an entrance of a chosen building.
* A web page (`src/www/`) lets the staff edit the graph of the campus on a map.
* Both talk to a Firebase database that holds the graph under `Graph/Nodes`, `Graph/Edges` and `Graph/index`.
* Into the app go two C and C++ libraries that the repository holds as source and compiles: `leveldb`
  (`src/Augmented Campus/Pods/leveldb-library/`), the store in which the database client keeps its data on the device,
  and `nanopb` (`src/Augmented Campus/Pods/nanopb/`), its message format. They are most of the compiled code of the
  repository and the part where threads, crashes and damaged bytes matter.

This directory holds TLA+ modules translated from the code of these programs, TLC configurations that
check them on small instances, and TLAPS proofs for all instances.

Paths below are short: `Model/`, `Controller/` and `Support/` stand in
`src/Augmented Campus/Augmented Campus/`, `map.js` in `src/www/resources/scripts/`; `db/`, `table/`, `util/` and
`include/` in `src/Augmented Campus/Pods/leveldb-library/`, `pb_*.c` in `src/Augmented Campus/Pods/nanopb/`.

## 1. Inventory

| Component | State | Operations | Interacts with |
|---|---|---|---|
| Array search (`Support/Extensions/Array+Extension.swift`) | two bounds during a call | `binarySearch` by predicate or element, `sortedInsert` | called by the route search |
| Route search (`Model/GraphNode.swift`, `Model/NavigationLocation.swift`) | a sorted queue of steps, each with a chain of earlier steps; eliminated nodes; the path | `findPath(to:)` | reads `connectedNodes`; called when a row of the menu is tapped |
| Nearest places (`Model/DataManager.swift`) | nearest place and distance so far | `findClosest`, `findClosestEntrance` | choose the start and the end of a route |
| Buildings of the menu (`Model/DataManager.swift`, `Model/Building.swift`) | the array of buildings | `initBuildingsArray`, `addNavLoc` | filled once from the places, read by the menu |
| Graph loader (`Model/DataManager.swift`, `ARViewController.viewDidLoad`) | two snapshots, `navLocations` | `fetchNodes`, `fetchEdges`, `convertToNavigationLocations` | reads the database, fills all of the above |
| Navigation (`Controller/ARViewController.swift`, `Controller/SideMenuNavigationTableViewController.swift`) | `path`, `pathFinding`, `destination`, arrow, label, title; the menu's rows and `selectedNavLoc` | location and heading callbacks, opening and closing the menu, tapping a row and its unwind segue | calls the searches; driven by the system's callbacks and the user |
| Map editor (`map.js`) | cached nodes, edges and index; markers and their windows; the edge being added | `saveNode`, `deleteNode`, `saveEdge`, `deleteEdge`, the redraw on every change | writes to and listens to the database; several editors at once |
| Graph database (external) | nodes, edges, index | `set` on one path, `on("value")` | shared by editors and apps |
| Log files (`db/log_writer.cc`, `db/log_reader.cc`) | place in a block; buffer, scratch record, flags of the reader | `AddRecord`, `ReadRecord` | carry batches and version edits; torn by crashes |
| Threads of the store (`db/db_impl.cc`) | `mutex_`, `writers_`, memtables, versions, `bg_error_`, flags of the background thread | `Write`, `Get`, `TEST_CompactMemTable`, `TEST_CompactRange`, the destructor, `BackgroundCall` | callers and one background thread |
| Levels (`db/version_set.cc`, `db/db_impl.cc`) | the tables of each level, compact pointers, snapshots, the running compaction | reads, flushes, compactions by size, seeks or hand | memtable above, tables below |
| Files and recovery (`db/db_impl.cc`, `db/version_set.cc`, `db/filename.cc`) | logs, tables, manifests, `CURRENT`; file numbers | `Open`, `LogAndApply`, `DeleteObsoleteFiles` | what a crash leaves is what the next open reads |
| Memtable (`db/skiplist.h`, `db/memtable.cc`, `util/arena.cc`) | links of nodes, `max_height_`, blocks of memory | `Insert`, iterator moves, `Add`, `Get`, `Allocate` | one writer, readers without lock |
| Caches (`util/cache.cc`, `db/table_cache.cc`) | hash table, two lists, reference counts, charges | `Insert`, `Lookup`, `Release`, `Erase`, `Prune`; `FindTable`, `Evict` | open tables and blocks |
| Formats (`db/write_batch.cc`, `db/version_edit.cc`, `db/dbformat.cc`, `db/filename.cc`, `util/coding.cc`) | none | encoding and decoding of batches, edits, keys, names | everything that is written |
| Blocks, tables, iterators (`table/`, `util/bloom.cc`, `db/db_iter.cc`) | blocks, filters, index, footer; positions and directions of iterators | `Add`, `Finish`, `Open`, `InternalGet`, `Seek`, `Next`, `Prev` ... | cache, levels, snapshots |
| System interface (`util/env_posix.cc`, `util/env.cc`) | lock table, counters of open files, queue of work | `LockFile`, `NewRandomAccessFile`, `Schedule`, `WriteStringToFileSync` ... | processes, threads, file system |
| Message library (`pb_encode.c`, `pb_decode.c`, `pb_common.c`) | a stream, a place among fields and slots | `pb_encode`, `pb_get_encoded_size`, `pb_decode` | messages of any schema, from anywhere |

What makes them hard, and what makes them correct:

* **Array search.** Bounds at the ends of the array; arrays that are not partitioned. Correct if the
  bounds stay inside the array, every probe halves the interval, and the index returned is the
  documented one on partitioned arrays, a boundary of the predicate on all others.
* **Route search.** Connections come in the order of a Swift `Set`, which differs from run to run.
  A queued step is rewritten in place inside a queue that is bisected. A duplicate is only
  looked for at one index, so one node may be queued and expanded several times. Correct if the queue stays
  sorted all the same, steps leave it in the order of their cost, a path returned is a walk of
  the graph without repetitions, the goal is found exactly if it can be reached, and the search ends.
* **Nearest places.** Dictionary order, ties, early `continue`s. Correct if what is returned is nearest among
  the places that are allowed, in every order.
* **Buildings.** An early `break` in the inner loop, where one building's name contains another's
  ("Henson Hall", "Henson"): what is listed depends on dictionary order. Correct if no place is lost altogether,
  and a building loses only a bounded number of places.
* **Navigation.** All callbacks run on the main thread, but location updates, headings, the end of loading
  and taps come in any order, and a building can be selected while another route is under way. `path[0]`,
  `path.last!` and the unwrapped location are read on the word of flags other callbacks set. Correct if nothing
  traps, the rest of the path leads to the chosen destination at all times, places are passed in order,
  "Arrived" comes at the end and nowhere else, and arrow, label and title tell of the current journey.
* **Loader, editor, database.** Two snapshots fetched one after the other while editors write; edges stored in two halves;
  editors that act on caches; an index that is read, increased and written back. Correct if the two halves of an edge
  agree in the end, no edge outlives its node, no node overwrites another, and a loaded graph never traps the app.
* **Threads of the store.** The front writer logs and inserts for a whole group without the mutex; memtables are switched,
  flushed and compacted meanwhile; a failure at any moment is remembered by the background thread only. Correct if a read sees what its
  snapshot holds, an acknowledged write is in the store, nobody sleeps for ever, and the destructor ends.
* **Log, levels, recovery.** Crashes between any two steps; damaged bytes; old files that are needed until the manifest says otherwise;
  compactions that drop entries while snapshots are taken. Correct if a reader gets back whole records only, every read returns the
  newest write it may see, and what must survive a crash is there after the next open.
* **Memory.** Links read beside the writer; batches half inserted; entries evicted while in use. Correct if searches go where
  they should, a batch shows all at once, pieces of memory stay apart, and an entry is deleted exactly when nobody has it.
* **Files' contents.** Offsets, limits of widths, bytes that changed. Correct if what was written is read, what was damaged is told, and, unless
  two 32-bit lengths of a block wrap around, nothing is read outside its bounds.
* **System interface.** Two processes and their deaths, two threads that share a limit, a wake-up before the work is there. Correct if one holder has
  the lock, the limits hold, work runs once and in order, and `CURRENT` is whole at all times.

## 2. Modules

| Module | Extends | Models |
|---|---|---|
| `SortedArray` | | what a bisection may return on an array of predicate values |
| `BinarySearch` | `SortedArray` | the loop of `binarySearch` |
| `PathSearch` | `SortedArray`, `Nearest` | `findPath(to:)` |
| `Nearest` | | what the searches for nearest places may return |
| `ClosestNode` | `Nearest` | the loops of `findClosest` and `findClosestEntrance` |
| `Buildings` | | `initBuildingsArray` |
| `Navigation` | `Nearest` | `ARViewController` and the navigation menu |
| `Journey` | | the abstract promise to the user, implemented by `Navigation` |
| `GraphStore` | | the database, and what of it each page shows |
| `MapEditor` | `GraphStore` | `map.js` |
| `GraphLoader` | `GraphStore` | the requests with which the app loads its graph |
| `Campus` | `MapEditor`, an instance of `GraphLoader` | editors and a loading app around one database |
| `LogFile` | | `log::Writer` and `log::Reader` |
| `DbThreads` | | the threads of `DBImpl` |
| `Levels` | | pure part of versions and compactions |
| `LsmTree` | `Levels` | written data on its way through the levels |
| `Recovery` | | the files of the store, crashes and opening |
| `SkipList` | | the skip list, load by load |
| `MemTable` | `SkipList` | `MemTable` and the numbers of `DBImpl::Write` |
| `Arena` | | the memory of a memtable |
| `LruCache` | | a shard of the cache |
| `TableCache` | `LruCache` | threads that share open tables |
| `Formats` | | batches, edits, keys, names and numbers, as operators |
| `Records` | `Formats` | each of them written, cut and damaged |
| `SortedIterator` | | the abstract promise of every iterator |
| `Block` | `Formats`, an instance of `SortedIterator` | `BlockBuilder` and `Block::Iter` |
| `Table` | `Formats` | `TableBuilder`, filters, `Table` |
| `Iterators` | an instance of `SortedIterator` | two-level and merging iterators, `DBIter` |
| `PosixEnv` | | `PosixEnv` and `SetCurrentFile` |
| `Nanopb` | | `pb_encode.c`, `pb_decode.c`, `pb_common.c` |
| `PathSearchProofs`, `NavigationProofs`, `CampusProofs`, `DbThreadsProofs`, `SkipListProofs` | the module named (`CampusProofs`: `GraphStore` too) | theorems |
| `PlacesProofs` | `Buildings`, `ClosestNode`, `BinarySearch` | theorems |
| `MemTableProofs` | `MemTable`, `Arena`, `SkipListProofs` | theorems |
| `MCNavigation`, `MCCampus` | `Navigation`, `Campus` | values for the constants |
| `MCPathSearch`, `MCDbThreads`, `MCMemory`, `MCStorage`, `MCTables` | several modules, side by side (`MCPathSearch` extends `PathSearch`, `Buildings`, `ClosestNode` and `BinarySearch`; `MCDbThreads` extends `DbThreads`, and has a second instance of it; `MCMemory` extends `MemTable` and `Arena`) | values for the constants, and `part`, which tells the instance that runs; the variables of the others stay as they are |

The components are layered. `BinarySearch` shows that the loop returns what `SortedArray` says of it, and `PathSearch`
uses what `SortedArray` says. `ClosestNode` shows that its loops return what
`Nearest` says, and `Navigation` uses that. `PathSearch` shows which paths may be returned, and
`Navigation` takes any of these (`Routes`). So a property of `Navigation` holds for the program because each
layer below has been checked and proved against the interface the layer above uses.
`Campus` is the other half of the system: it says what the graph in the database can look like while it is edited and loaded.
To `Navigation` the loading is one action that takes any of the graphs of a set (`Graphs`), half-written ones included.

### BinarySearch

The definitions of `BinarySearch`, `ClosestNode` and `Buildings` that other modules also have carry the module's name in theirs
(`BisectionInit`, `ClosestInit`, `closestReturned`, `BuildingsNext`), so that `MCPathSearch` and `PlacesProofs` can extend them all. So it is with
`Arena` (`ArenaInit`, `ArenaNext`), which `MCMemory` and `MemTableProofs` extend beside `MemTable`.

State: `low`, `high`, and `holds`, the array of the predicate's values. `binarySearch(element:)` is
`binarySearch` of the predicate `$0 < element`. One action per branch of the loop. `mid` is computed by
adding half the interval to `low`, as in the code, so there is no overflow to model.

### PathSearch

One action per iteration of a loop: `Seed` (first `for`), `PopGoal`, `PopOther`, `Exhausted` (the `while`), and
`EnqueueStep`, `ReparentStep`, `DiscardStep` (the three outcomes of the inner `for`). A `for` over a `Set` takes
any node that is left. A `Step` refers to its predecessor; the predecessor has left the queue by then and
is never written again, so a step carries its chain by value. `sortedInsert` inserts at any partition index
of the queue: on a sorted queue there is exactly one, and a queue that were not sorted would have
none, which `QueueSorted` would show. Distances are the straight-line distances in degrees that both
`cost(to:)` and `estimatedCost(to:)` compute, rounding left out.

### ClosestNode and Nearest

`toVisit` are the members of the dictionary or array still to come, in any order. `TooFar` holds the
two `continue`s of `findClosest`. The temporary location the code starts with stands for the user's position;
both classes mark "none yet" with latitude and longitude 0, here `Nowhere`.

### Buildings

Which names a description contains is an input (`Matchings`): the module knows only which ones match.
A name without entrances is a building that is not in the array, because every `Building` is made with a first entrance.

### Navigation

| Action | Code |
|---|---|
| `DataLoaded` | the innermost completion handler of `viewDidLoad` |
| `OpenMenuByButton`, `OpenMenuBySwipe`, `CloseMenu` | the menu button makes a new menu by a segue; the swipe shows the one that exists |
| `SelectRow`, `SelectRowUnlocated` | `didSelectRowAt` with the unwind segue it performs: title, start, route, arrow; or the forced unwrap of a location that is nil |
| `Wander`, `Approach`, `PassPlace`, `Arrive` | `didUpdateLocations`: without a route, and the three outcomes of `followPath` |
| `HeadingUpdate` | `didUpdateHeading` |

`UpdateArrow` and `UpdateDistanceLabel` are the two helpers, called inside these actions where the code
calls them (`Arrive`, for one, does not turn or hide the arrow). The table of a menu asks for its rows once, at its first appearance:
`menuRows` remembers what it got. The menu has a location manager of its own that nobody starts, so
`SelectEntrance` may leave `selectedNavLoc` as it was, at first `Nowhere`.
The arrow's angle is kept as the two points it is computed from (`aim`).

### Journey

The promise, in five variables: whether the traveller is asked for a destination, where they are (`at`), the `goal`, the `way` ahead and
the `status`. A way begins as the answer to a question and at no other moment, and leads to the goal chosen, unless it is a single place. After that
its first place leaves it exactly when the traveller comes near it (`Pass`), and getting anywhere else (`Walk`) changes nothing: so the places
are passed one by one in their order, none is skipped, and "Arrived" comes with the last and only then; if the traveller walks on, it comes.
`Navigation` implements it with `asking` for the open menu, `at` for the location, `way` for the path, and `status` read off the title. `Journey` does not
say that a way is a walk of the graph: that is `PathLeadsToDestination`.

### GraphStore

Every path of the database is a register: one for each possible node, one for each half of an edge, one for the index.
`view[c]` is what page `c` shows: what it has been told, with its own writes on top, which a page sees at once (`Set`).
`pending[c]` are those of its writes that have not reached the server. The server takes them in their order,
each on its own (`Commit`), and others may be told between two of them (`Sync`). This is how
`src/www` and the app use Firebase, whose own code is not in the repository: the definitions that stand for it are marked external.
Writes that are not through when a page is loaded again are lost (`Reopen`).

### MapEditor

| Action | Code in `map.js` |
|---|---|
| `ClickMarker` | the click listener of a marker while `nodesForEdge` is empty |
| `addFirstEdge`, `addSecondEdge` | `addFirstEdge`; the click on a marker while an edge is being added |
| `saveEdge`, `saveNode`, `deleteNodeBox`, `deleteNode`, `deleteEdge` | the functions of these names, behind the buttons of the windows |
| `DoubleClick` | the listener that asks whether to add a node |
| `Update` | the `on("value")` listeners, when another page has changed something |
| `WriteThrough`, `Reload` | a write reaches the server; the page is loaded anew |

An edit is a sequence of writes, and each of them redraws the map before the next is made (`Edit`,
`ShownDuring`): a redraw discards every window, so an edit cannot be repeated from a window that is out of date.
`initMap` fails on a collection that is empty, before it makes a marker (`Drawable`). Then the markers of the map before stay,
which is why `helpers` is computed from all the graphs shown on the way.
`saveEdge` reads the window of the first marker by its index and the coordinates of both nodes: where one is missing
the function fails before its first write, and nothing happens.

### GraphLoader and Campus

`FetchNodes` receives the first snapshot and asks for the second; `Convert` and `Trap` are the two outcomes of
the conversion of the second. A request that fails or finds nothing never calls its completion handler:
the app waits for ever, here by taking no step. `Campus` interleaves editors and one app.

### LogFile

A file is a sequence of cells that know the fragment they belong to: what a checksum can tell. `Writing` puts one fragment after
the other into the file (`EmitPhysicalRecord`), so that a crash may fall between two of them. An append or the flush of it may fail with any first part
of the trailer or the fragment in the file; the writer takes all of it for written (`block_offset_`) and gives up the rest of the record. A crash of the machine keeps any
length from what was synced, a flipped byte breaks a cell, and a writer with `reuse_logs` goes on at the end of what is left. `ReadRecord` and
`ReadPhysicalRecord` are one action, a call to its return, with skipping to an initial offset, resynchronisation and all reports.

### DbThreads

An action is what a thread does between two points where `mutex_` is given up: `Write` queues, `MakeRoomForWrite` goes on, waits, switches
the memtable and with it the log (`InLog`) or slows down, `StartGroup` builds the group, `AddRecord`, `Sync` and `Insert` run without the mutex, `Commit` moves the sequence
number and signals. `Sync` covers the entries of the current log only. The background thread makes a table of `imm_` and installs it, or compacts for size or by
hand, and may fail. A compaction takes any number of the tables of level 0, none included: which ones is for `Levels`.
Who sleeps on which condition variable is part of the thread's state.

### Levels and LsmTree

`Levels` holds what `version_set.cc` computes: the search of a version, overlapping inputs, `SetupOtherInputs` with its expansion, the choice by size and
by seeks, `IsBaseLevelForKey`, `ShouldStopBefore`, and the loop of `DoCompactionWork`. `LsmTree` has writes,
snapshots, flushes and compactions over it; inputs are chosen in one step and results installed in another, and anything else comes between.
The size of a table is the number of its entries.

### Recovery

The actions are the steps of `DB::Open` (`NewDB`, `Recover`, one log after the other, the new log, the manifest record, its sync, `CURRENT`,
the deletions), the writes with and without `sync`, memtable switches, flushes, compactions and their manifest records, and the two crashes.
A write is known by its sequence number, and all complete records of a log are read again: when they are not is a matter of `LogFile`. The length of the
manifest record's durable prefix and of each log is free after a machine crash.

### SkipList, MemTable, Arena

A reader's step is one load; a writer's is one round of its loop, with the two stores of `skiplist.h:367-368`: no reader can come to the node
at that level before the second, so between the two there is nothing to see. `max_height_` is read without a barrier, so any value it has had may be seen (`heights`).
A link that was not stored yet is `Garbage`. `MemTable` numbers entries as `WriteBatchInternal` does and moves `lastSequence` when the batch
is in. Its readers look a key up (`Get`) or have an iterator that hands every call over to one of the list (`Iterate`, `MemTableIterator`); an internal key is a
number in the order of the comparator (`InternalKey`), from which user key and sequence number can be read off again. `Arena` has blocks as the allocator gives them, aligned.

### LruCache and TableCache

Every call of a shard holds its mutex from beginning to end and is one action. The hash table with its chains and its growth is modelled, since an entry
that gets lost in it would be found by nobody. In `TableCache` two threads run through `FindTable`, whose lookup, open and insertion are separate steps.

### Formats and Records

Operators that turn values into bytes and back as the code does, with widths scaled down together: a byte has four bits, `Bits32` and `Bits64` take the place of the
32 and 64 bits, and the last byte of the longest varint has bits that do not fit, as in the code. `Records` writes one, cuts it or damages one of its bytes.

### Block, Table, Iterators

`Block` has the units of a block and every move of `Block::Iter`, over intact blocks and ones of which a unit reads as another, up to the largest
number of `Word` values. Lengths are added as in the code, modulo `Word` (2^32 there): what wraps around may pass the check of `DecodeEntry`, and
the iterator then reads outside of the block (`outside`), after which its state means nothing.
`Table` builds a table through a file whose calls fail from some point on, opens it, damages a block of it, and looks keys up, with and
without checksums, through a cache of blocks. `Iterators` builds iterators from iterators, with the directions that `MergingIterator` and `DBIter` keep.
`SortedIterator` is what each of them promises; `Block` and `Iterators` are shown to implement it by the position they stand for.

### PosixEnv

Four machines: the lock (`locks_` in the process, `fcntl` between processes, which any close of the file drops, and deaths), the two limiters, the queue
of the background thread, and a file that is written, synced and renamed to `CURRENT`. Each call of the system is a step of its own.

### Nanopb

A message is a map from slots to values with what counts them. `pb_encode` writes field by field, a submessage once for its size and
once into a substream of that size; `pb_decode` reads tags, finds fields by the iterator's order, checks required ones, skips the others. The build has no malloc,
so `PB_ENABLE_MALLOC` branches are not in it. `Join` lets two encoded messages follow each other, `Forget` decodes with fewer fields than
were written, `Cut` and `Damage` what their names say.

## 3. Runs

| Run | Instance | Shows |
|---|---|---|
| `path_search` | `part` is one of: route searches on all graphs of 5 places with at most five two-way edges, on all graphs of 4 of them of which at most one half of an edge is missing, and on those with a place connected to itself; 4 places with 3 names; 5 places as candidates; all arrays of up to 8 Booleans; every start, goal and order | steps leave the queue in the order of their costs; a path to a goal that can be reached is a walk of the graph, no path has a place twice, and the goal is on it exactly if it can be reached; every place is under its first name and a building loses fewer places than its position in the list; where a route can start somewhere the nearest such place is returned; the index is the documented one, or a boundary of an array that is not partitioned; every call returns |
| `navigation` | 4 places in a connected, a divided and a half-written graph, 7 positions, 2 buildings | no trap but the unlocated one; the path always leads to the destination; the arrow aims at its next place; "Arrived" comes at its end only; `Journey` is implemented; after the last selection the journey ends and the arrow goes |
| `campus` | one editor and one app, two ids, from a pair of nodes and from a node with an edge to itself | no edge lacks a node between any two writes; ids are not given out twice; halves of edges come and go together; a deletion never traps the app that loads. All with one editor: see the bounds |
| `db_threads` | two writers beside a reader or a flush and one failure; a writer beside two manual compactions | a read sees its snapshot, acknowledged writes are kept, one thread at a time writes the log, nobody sleeps on what has happened already, the store grows by whole groups |
| `db_liveness` | the same with one call each, every write filling the memtable and one table filling level 0; a skip list with a reader | every call returns, also after the wait for a full level 0 (`db/db_impl.cc:1350`) and after failures; the destructor ends; a search ends |
| `memory` | a skip list of 3 keys and two levels, a memtable of 2 user keys and 2 writes in such a list, an arena of 5 pieces, a cache for 2 entries, 2 threads at a table cache | searches never follow garbage and end right; a batch shows all or nothing; pieces are apart and aligned; reference counts, lists and charges agree; a table in use is open |
| `storage` | logs of 2 records under crashes, flipped bytes, reuse and appends that fail, and of 3 read from any offset; three instances of the levels; a store reopened after crashes, and a fresh one | nothing but whole records comes back, and all of them from blocks that nothing has happened to; reads at every snapshot are right and levels disjoint; the store opens after every crash and has what it promised |
| `tables` | blocks, tables, records, iterators, messages, and the calls of the system | iterators implement `SortedIterator`; lookups are right or tell of damage; what was written is read; messages arrive; damaged messages and blocks are read inside their bounds, blocks unless two lengths wrap around; locks, limits, queue and `CURRENT` are sound |
| `path_optimal` | one graph of 6 places | **refuted:** "the optimal path" (`GraphNode.swift:91`) |
| `editor_overwritten` | two editors, three ids | **refuted:** "the node will be the n+1 node" (`map.js:340`): two pages take the same index |
| `lsm_split` | two keys, a snapshot, tables of two entries | **refuted:** "entries never hop across" levels (`db/version_set.cc:346`): a compaction takes the table with the newer entry of a key and leaves the one with the older |
| `log_synced` | two records in blocks of five bytes, with appends that fail | **refuted:** "sync==true has similar crash semantics" to `write` and `fsync` (`include/leveldb/options.h:200`): a record that is whole and synced is dropped by the reader, as an append before it failed and the writer's blocks are no longer the reader's (`db/log_writer.cc:107`) |

Several modules share a run, so that one question is one run: `part` chooses the instance in the initial state and stays. The properties of such a run
conjoin those of the modules, each under its part; `SearchesAreRight` of `SkipList`, `ReadsAreExact` of `MemTable` and `PiecesAreApart` of `Arena` are
checked in all parts as they stand, as these are the formulas of the theorems. What compares much with little, as in `storage` and `tables`
(what is read back of a file, for every way to read it), is said of the last step of a part, when all is written, and not again at every step on the way.

Other disagreements between the code and its comments were met on the way and have no run of their own. Some of them lie within the instance of a
passing run, and then the property of that run is worded to leave the case out, so that it says less than the comment does:

| Property | leaves out | because |
|---|---|---|
| `ReturnedPathIsWalk` | goals that cannot be reached | `findPath` returns the start alone (`GraphNode.swift:88` has an empty array) |
| `ReturnsClosest` | calls of `findClosest` where every place but the destination is farther from it than the user is | it returns the position it was given (`DataManager.swift:131` has a node of the graph) |
| `ReadsBack`, `LossIsLocal` | blocks behind a failed append or behind a torn end that `reuse_logs` has written on | the reader drops what is there; `SyncedIsRead`, which has no such exception, is refuted by `log_synced` |
| `StaysInside` | blocks with two lengths whose sum wraps around | `block.cc:70` checks the sum only |
| `NoTrapWhenLocated` | the unwrap of a location the app does not have yet (`ARViewController.swift:182`) | the code has no guard there: the property says that it is the only trap |
| `DeletionNeverTraps` | traps that an added edge causes | the two snapshots of the loader are of different moments |

The others are kept out of the instances, or are of parts that the properties do not speak of:

* `findClosest` begins with a temporary place at the user's position and returns it when every place but the destination is farther
  from the destination: a place without connections, against "the closest node to the user's location that is in the graph" (`DataManager.swift:131`).
* For a goal that cannot be reached `findPath` returns the start alone, where "the array returned will be empty" (`GraphNode.swift:88`).
* A place whose description contains two names may be missing from the later building (`DataManager.swift:90`, bounded by `FewPlacesLost`).
* If there is no way, the label shows the distance to the start, the only place of the path (`ARViewController.swift:23`, `:206`).
* With two editors an edge drawn meanwhile outlives its node, against "remove the edge from the to be deleted node" (`map.js:405`); and
  an edge from a node to itself is reported ("You can't have a node lead to itself", `map.js:231`) and written.
* A writer that continues a torn log (`reuse_logs` after a crash of the machine) begins in the middle of what the reader takes for a record: the rest of
  the block is dropped, synced records in it included (`db/log_reader.cc:262`), against "no writes will be lost" (`include/leveldb/options.h:194`).
  `DBImpl::Write` goes on in the same way with a log in which an append has failed, as only a failing sync is remembered (`db/db_impl.cc:1224`).
* A record that begins before the initial offset of a reader is reported, against "can be silently skipped" (`db/log_reader.h:77`).
* `NewDB` does not sync the first manifest before `CURRENT` names it (`db/db_impl.cc:196`): after a crash of the machine then the store cannot be opened any more.
  The instance with a fresh store has crashes of the process only.
* With `reuse_logs` a manifest record that a killed process did not sync is written on without a sync, and the log it makes obsolete is deleted
  (`db/version_set.cc:1045`): a crash of the machine after that loses synced writes. The instance with crashes of the machine does not reuse logs.
* A full log is closed without a sync (`db/db_impl.cc:1366`): a write with `sync` that follows does not make the ones before it durable, against
  "similar crash semantics to a write() system call followed by fsync()" (`include/leveldb/options.h:199`). `AckedWritesSurvive` counts on synced writes
  and on those of installed tables.
* `TEST_CompactRange` gives up when another thread has failed, while the background thread works for its request and then reads it through `NULL`
  (`db/db_impl.cc:757`). `RequestIsThere`, a part of `SleepersAreWoken`, says it as long as nothing has failed.
* A write without a batch (`TEST_CompactMemTable`) that joins the group of another writer is skipped: the memtable is not compacted
  (`db/db_impl.cc:1295`), against "Force current memtable contents to be compacted." (`db/db_impl.h:50`).
* A memtable that is written out inside the loop of a manual compaction can go into a gap of the inputs at the output level, and the tables of that level overlap
  (`db/db_impl.cc:922`; "Must not overlap", `db/version_set.cc:765`). `ManualUnderWrites = FALSE` keeps flushes out of manual compactions.
* `PosixEnv::LockFile` opens the file before it looks into its table: the refused second call closes a descriptor, and with it the process loses its `fcntl` lock; so does
  `UnlockFile`, which gives the entry of the table back before it closes. `LocksExclude` holds within one process and between processes that do neither.
* `CURRENT` is renamed without a sync of the directory: after a crash the old one may be back. It is whole all the same, and its files are still
  there only because deletions are lost with it; `Recovery` takes directories as keeping the order of their changes.
* A table read without `verify_checksums` caches blocks it did not check and serves them to readers that ask for checks; only
  `paranoid_checks` covers index and filter, and a damaged filter hides keys. `GetsAreRight` says it for careful readers only.
* A malformed batch is inserted up to its bad record (`db/write_batch.cc`). `DecodeFrom` of an edit accepts internal keys shorter than eight bytes.
* nanopb: for a message whose required fields are a multiple of 32 the last comparison shifts by the width of the number (`pb_decode.c:945`), which C leaves
  undefined: `ShiftIsDefined` keeps schemas from it. The default check of proto3 submessages looks at the contents of an array, not at its count. The wire type
  of a known field is not checked, and a static submessage of a oneof that comes twice begins anew where others merge.

### The bounds, and why they are enough

* Arrays of 8: the interval is halved up to four times, with odd and even lengths at each level.
* The places of `PathSearch` have whole-number distances in the plane, with mirror images for ties. Five places
  are the fewest on which a queued step is reparented, a node is queued twice and another one stands between;
  six the fewest here on which the path found is longer than another. Five edges make every tree and every single cycle on five places;
  graphs with one half missing are taken with four places, which leaves a way round.
* Three names in `Buildings`: two earlier names that cost a later building two places; four places leave it
  one or none.
* `Navigation` has positions beside both ends of the campus, between places, nearer to an entrance than every place is and
  off the graph. A route may have up to five places, so a selection can interrupt a journey in its middle.
  `Navigation` has no counters that grow: it is finite without a bound.
* `campus`: one editor. `MaxId = 2`, ids for a pair of nodes and the edge between them, or for one node and one to be added. The properties
  relate an edge to its two nodes, or two nodes to one another: a third node adds nothing to a violation.
  `MaxWindows = 2`: a window that is out of date beside the one that is used. `MaxBacklog = 2`: an edit may begin while
  two writes are under way, so up to three edits overlap on their way to the server. Two ids leave room for one new node beside the one there: several under way at
  once are reached by the proof only (`NodesKept`). The half of an edge that a page leaves behind when it is closed is accepted (`PairsStayPaired` speaks of
  pages that stay open); what the app does with it is `path_search`. With a second editor
  `NoDanglingEdge` and `NoNodeOverwritten` fail; the other properties are checked and proved for one editor (`OneWriter`,
  for any number of pages that only look), which is therefore the precondition under which the map may be edited safely.
* `db_threads`: `BufferSize = 1` and `L0Stop = 2` fill memtable and level 0 with the writes that are there, so that waiting, slowing down and
  stopping all occur; `db_liveness` has one call per thread, so there `BufferSize = 0` and `L0Stop = 1` let the second write find
  the memtable and level 0 full. `MaxGroup = 2`: groups of one, two, and a writer left for the next. One failure: what a second one does is refused by `bg_error_`.
* `memory`: a list of three keys and two levels has a node that is in the lower list only between two that are in both, and in a memtable of two writes of
  one or two entries a snapshot has newer entries of its key beside it. (The proofs are for any number.) Two entries in a cache and three keys, two in one
  bucket: eviction, replacement and a chain of two, and a table that grows
  twice. Blocks of 16 bytes with pieces of 1 to 5: both sides of the quarter block and of an alignment.
* `storage`: a block of five units with a header of two: records that fit, cross, and leave a trailer or an empty first fragment. One append fails, the
  trailer's or the record's, at any byte.
  Tables of two entries, five writes of two keys, three levels: expanded inputs, moves, a deletion dropped at its base level, a pointer that wraps.
  `MaxFile = 10`: three opens, with tables made in between.
* `tables`: numbers at the limits of the scaled widths; blocks of up to four entries with restarts at every second; three sources of five entries in every spread; one table whose blocks have
  filters of their own and empty ones between them, one whose blocks share a filter. `Word = 32` is more than the units of a block, as 2^32 is, and little enough
  for a damaged length to wrap around.

## 4. Fairness

The searches are function calls: `WF_placesVars(PlacesNext)` of `MCPathSearch` says that a call goes on while it can.
`DbThreads`: a thread that can run runs, and so does the background thread (`WF` of each); nobody is bound to call, nothing is bound to fail. That level 0 is
emptied and sleepers are woken is what the properties check, and not assumed. `SkipList` assumes that
an insertion that began goes on, and a reader's search too.
The modules of `memory`, `storage` and `tables` are checked for safety only.
`Navigation` assumes two things of its surroundings: headings keep coming (the system delivers them while
`startUpdatingHeading` is in force) and the user, if there is a route, gets near its next place
(`WF_vars(Walk)`). Nothing is assumed about loading, the menu or selections. `ArrowEventuallyHidden`
speaks of runs in which selections come to an end. `MapEditor` and `Campus` are checked for safety and assume no fairness: a page may be
left open for ever, a write may never get through, a request may never be answered.

## 5. Proofs

All proofs hold for every value of the constants that satisfies the assumptions named in the modules. These are: distances are
natural numbers; in `PathSearch`, they satisfy the triangle inequality (a straight line is the shortest way), which
`CostOrder`, `QueueAlwaysSorted` and what rests on them need; in `Navigation`, the places are finitely many and none is `Nowhere`, every
building has an entrance, and a point is near itself. Distances are degrees in the code; natural numbers
stand for them because only sums and comparisons matter. `DbThreads` has its `Parameters`: finitely many threads, any set of calls for each,
any number of failures, batches that are not empty, and a level 0 that is compacted at a size above none and not above the one that stops
writers (1 <= 4 <= 12 in `dbformat.h`). `MCDbThreads` has TLC evaluate them for its instances.
`SkipList` has `ListParameters` (the keys are finitely many numbers above that of the head and below `Null`, which stands for none; there is a level), `MemTable` has `MemParameters`
(the keys are the internal keys of its user keys and sequence numbers) and `Arena` has `ArenaParameters` (no block and no alignment of
no bytes, and no piece is empty, as `Allocate` asserts). `MCMemory` has TLC evaluate them.

* `PlacesProofs`, bisection. `LoopInv`: what is below `low` satisfies the predicate at its last element, what is at `high` and above
  does not at its first. Type correctness, the boundary, the documented index on partitioned arrays and the halving follow.
* `PathSearchProofs`. Type correctness; the queue is sorted and everything in it costs at least as much as the last step
  that left it (by the triangle inequality); from this the order of costs. A chain in the queue consists of eliminated nodes,
  each connected to the next, none twice: `PathIsSimple`, and, for goals that can be reached, `PathIsWalk`. For completeness, every connection of an
  eliminated node is eliminated, queued or still to be visited: when the queue is empty, the eliminated nodes are
  closed under connections, so the goal was not reachable.
* `PlacesProofs`, nearest places. `BestSoFar`: `closest` is right for the places visited, so in the end it is a nearest of those
  a route may start from, if there is one.
* `PlacesProofs`, buildings. Every place a building has lost was the first place of a building of an earlier name, and no two places of the same: so a building has
  lost at most as many as there are buildings before it (`LossInv`, on the cardinalities of the two sets).
* `NavigationProofs`. `TypeInv` adds to the types that `pathFinding` goes with a path, a location and an arrow;
  `RouteInv` that the graph is loaded before a route exists and does not change under it, and the route
  itself; `ScreenInv` how title, label and arrow follow `pathFinding`. `ScreenCorrect` says this, and that the
  label, where it is shown, tells of the distance to the last place of the path (`LabelRight`) after each location update and until another building is chosen
  (`LabelFollowsJourney`). `PromiseKept`: every step of `Navigation` is a step of `Journey` or leaves its variables alone. A selection is a
  `Begin` as the route ends at the entrance it is sought to, or is one place (`SelectionBegins`); a location update near the next place is a `Pass`, and any
  other a `Walk` (`NearnessPasses`), because nearness to `path[0]` is all that `followPath` asks for.
* `CampusProofs` begins with `GraphStore`: how the writes under way lie on top of the graph, `OverlayConcat` (writes on top of others), and what one write
  changes. Its theorems are proved from two assumptions on the constants: at most one page edits (`OneWriter`), and the graph there is at first has no
  edge without its nodes and no node beyond its index (`SoundDrawings`). The properties of `Campus` alone are not inductive, because the server
  is between two writes most of the time. `EditInv` says of every prefix of the writes under way that the store is sound after it (`Safe`), that its index
  is not beyond the page's, and that no write puts one node in the place of another. An edit adds writes whose prefixes keep this
  (`GoodEdit`: edges before their nodes when removing, the index before the node when adding), a write that gets through turns
  one prefix into the store, and a reload falls back to the empty prefix. For the app: edges that were not in the store when the nodes were
  read are the only ones that can lack a node, and only for a node added since.
* `DbThreadsProofs`. `AckedWritesAreKept`, `ReadsItsSnapshot` and the rest each need what the others say, so there is one inductive invariant, `Inv`:
  `QueueInv` (who is in `writers_`, once, and that only its front is past the wait), `GroupInv` (the group of the front: its members are the first of the
  queue, its entries follow `LastSequence`, what is left of them is its end, and no sync write rides on one without), `StoreInv` (of the entries
  above `LastSequence` the memtable has those that arrived, and no other memtable or table has any: what a failed group left behind counts as committed once
  `SetLastSequence` passes it), `UnsyncedInv` (what is not synced is of an earlier group or of the one in the log), `RefInv` (the references of a memtable are
  its readers, one more if the database has it as `mem_` or `imm_`, so a memtable
  somebody reads is not given up), `ReadInv` (what a reader holds has, up to its snapshot, what was visible then), `LateInv` and `AckInv` (who began after
  an error is never in a group; what was acknowledged is visible, and synced if it asked for it), `WorkInv` (work without an error means a call of the background
  thread, and who waits for it has one under way), `LevelInv` (`L0Stop` is not passed, with room for the table of `imm_`) and `CountInv`. The steps
  are sorted by what they change: a lemma per action says what it does to the thread, the queue, the store and the background thread (`StepOf`, `LeaveOf`,
  `KeepsStore`, `BackgroundIs`), and each part of `Inv` is proved from these. `StoreGrowsByGroups` follows for each step: `Visible` changes in
  `Commit` only. For `SleepersAreWoken` `RequestInv` follows the request of a manual compaction as long as no failure has been counted.
* `SkipListProofs`. The properties speak of `Linked`, the nodes that following links from the head leads to; the invariant speaks of links instead. A node is
  in the list of a level as soon as its link there is written (`Stored`), each link leads to the next greater node of its list (`LeadsToNext`), and a list
  has no node that the one below lacks (`ChainInv`). `LinkedIsStored` says that the two agree: an induction on the rank of a node in its list, of which `Linked` takes
  one per round. `WriterInv`: the node being inserted is in the lists of exactly the levels done, from the lowest up, and its predecessor in each of the others is
  still the one that was found. `SearchInv`: a reader stands on a node that is in the list of its level and before its target, and what was in the list when
  it began still is. So each load of a reader is of a link that is written, and its last one, on level 0, decides (`SearchEndsRight`).
* `MemTableProofs`, the memtable. `MemTableUsesTheList` is a refinement: every step is one of the list, or leaves it alone, because what `Add` inserts is a key. For
  `GetsAreExact`: what is being inserted has a number above `lastSequence` (`NewerInv`), and a snapshot one that is not, so the entries that a
  snapshot sees (`Visible`) never change; a search has all of these in `before`, the nodes it must not miss, and by `SearchEndsRight` ends at the first of them at or behind its
  key, which in the order of internal keys is the newest entry of its user key, or one of another user key if there is none (`UserKeyIs`, `SeenAre`).
* `MemTableProofs`, the arena. `ArenaInv`: what was given out of the current block lies before `alloc_ptr_`, what remains behind it, and pieces of one block follow
  each other; the bytes that `AllocateAligned` skips lead to an aligned place (`SlopAligns`).

Only model-checked: `FunctionsReturn`, `ArrowEventuallyHidden`, `CallsEnd`, `ShutdownCompletes` and the fairness part of `KeepsPromise` (liveness), and so far
everything about the files of the store, its caches, and the message library. Of these, much computes over sequences by recursion or folds (`Formats`, `Nanopb`, `Levels`, and the
chains of `LruCache`, which `TableCache` uses), which is induction over data; `Recovery` has an invariant that can be proved next.

## 6. Not modelled

* Other vendored code: `ThirdParty/SideMenu` (`Navigation` models which instance of a menu is shown, and no more) and the Firebase frameworks, of which the
  repository holds headers and binaries only; what the programs use of the database is `GraphStore`.
* The angle of the arrow and the bearings it is computed from (floating-point trigonometry), animations, the camera.
* The lines, icons and zoom of the editor's map: they only draw. The coordinates and texts of nodes: of a node or an edge only whether it is there.
* Writes the database refuses, and signing in; the settings table (static) and the login page (a form around the authentication service).
* `CLLocationCoordinate2D+Extension.swift` in `Support/` and `GraphTests.swift`: they are not, or no longer, part of the program.
* Of the store: the C wrappers (`db/c.cc`, they pass every call on), the repair of a damaged store (`db/repair.cc`, nobody calls it),
  checksums and hashes as such (a checksum tells whether bytes are those written), histograms, logging and dumps; read sampling of `DBIter`;
  appendable files and plain pass-through calls of the environment; compression (Snappy is not compiled) and changing a table builder's options.
* Of nanopb: delimited messages, user callbacks beyond what the code expects of them, and everything behind `PB_ENABLE_MALLOC`.

## 7. Plan

Done, in this order because a wrong route is the worst the app can do: array search, route search, nearest places, buildings, navigation and its promise;
then the database, the map editor, the loader and their composition, each with its proofs; then the store from the log
up to its threads, its tables and iterators, the system below it, and the message library; and the proofs of the threads and of the memtable.

Next:

1. More proofs for the store: the live files of `Recovery`.
2. `LsmTree` with a bound that keeps the tables of one user key together, under which `EntriesNeverHop` should hold.
3. Convergence of several pages of the editor, with an abstract store that every page sees a past version of.
4. `Navigation`'s `Graphs` derived from what `GraphLoader` can load, by a refinement.
5. Directories whose changes a crash may lose, in `Recovery`.

Hazards that no property covers are listed in `PROJECT.json` with the reason.
