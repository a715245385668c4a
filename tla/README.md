# A model of osmem's state, from shared indices to pages of hits

osmem is an in-memory OpenSearch for tests. A process holds *clusters*; cloning
one is cheap because a clone shares the `Index` objects of its origin and copies
one of them the first time either side writes to it. Points in time, scroll
contexts, versions of deleted documents and the management API's clones are
entangled with that sharing; documents, segment runs, aliases, templates and
by-query requests live inside one cluster, under its lock. These modules
describe both in TLA+, model-check them with TLC and prove their core with
TLAPS. All modules describe the code in `src/`; `PROJECT.json` maps every
definition to the lines it stands for and lists what is hard to test.

## 1. Inventory

Paths are relative to `src/internal/engine/` unless they start with `src/`.

| Component | Code | State | Operations | Correct when |
|---|---|---|---|---|
| Clusters and copy-on-write indices | `cluster.go`, `index.go` | `Cluster.indices`, `closed`; `Index.refs`, `copies`, documents, mapping, settings, aliases | `New`, `Clone`, `Close`, `CreateIndex`, `DeleteIndex`, `PutMapping`, `PutSettings`, `writable`, `copyIndex`, `release` | the counter counts the holders; bleve is closed once, by the last; nobody notices that indices are shared |
| Points in time | `searchexec.go`, `searchids.go` | `Cluster.pits` under `scrollMu`; targets retained | `CreatePIT`, `DeletePIT`, `ListPITs`, `pitTargets`, `dropPITContexts` | a PIT sees the contents it was created over until it is deleted, expired or its index is closed |
| Scroll contexts | `searchexec.go`, `search.go`, `matched_queries.go` | `Cluster.scrolls` under `scrollMu`; hits with plain pointers | `newScroll`, `Scroll`, `ClearScroll`, `sweepScrolls` | the pages are the hits of one search, in order, once; a context lives as long as it was promised to |
| Index open and close | `resolve.go` | CLOSE state and pending analysis settings of an `Index` | `CloseIndex`, `OpenIndex` | a closed index is not searched, also not through a PIT |
| Delete tombstones | `tombstones.go` | process-wide registry: histories of snapshots by weak pointer, `lastSeen` | `newDocTx`, `docWritable`, `docEnsureIndex`, `noteIndex`, `commit`, eviction | a deleted id continues its version sequence within `index.gc_deletes`, along the lineage of its cluster and no other |
| Documents and versioning | `docs.go`, `docupdate.go`, `bulk.go` | versions, sequence numbers and shards of documents; the request's `docTx` | index, create, update, upsert, delete, compare-and-set, bulk | every document is one versioned register, also inside a bulk request |
| Segment runs | `segments.go` | runs, their live counters, `runOf` | commit, `compactRuns`, `mergeRuns` | compaction ends, loses no document and leaves nothing to merge |
| Aliases and name resolution | `alias.go`, `resolve.go`, `docresolve.go` | aliases of each `Index` | `UpdateAliases`, `remove_index`, aliases of new indices, index expressions | one write index per alias; a name is read and written as it says |
| By-query requests and tasks | `byquery.go` | counters of slices; task registry, FIFO of results | delete, update and reindex by query | every hit is tried once, up to `max_docs` and the first failure |
| Index templates | `template.go`, `docresolve.go` | component, composable and legacy templates | put, delete, selection, composition | no template names what is missing; an index is built of the right layers |
| Searching page by page | `searchexec.go`, `sort.go`, `search.go`, `aggs_composite.go` | none of its own | `from`, `search_after`, slices, scrolls, composite after key | every hit is read once, in order |
| Queries, other aggregations, highlighting, analysis, mapping | `query*.go`, `aggs*.go`, `highlight*.go`, `analysis.go`, `mapping*.go`, ... | none (functions of an `Index`) | — | agree with OpenSearch |
| Settings, cluster information | `settings*.go`, `cluster_info.go`, `cat.go` | none | validation, rendering | — |
| Management API | `src/admin.go` | managed clones, frozen flag | create, list and delete clones | the limit holds; every clone is closed in the end |
| Public API, HTTP server and router | `src/osmem.go`, `src/http.go`, `src/http_router.go` | the server's handler | decoding and routing | — |
| Server process | `src/internal/serve/` | — | start, signals, parent watch | the process stops on the first of its three reasons |
| Seeds, Japanese analyzers, packages, test helpers | `src/seed.go`, `src/ja/`, `src/packages/`, `src/osmemtest/` | — | — | — |

**How they interact.** A cluster has two mutexes. `c.mu` is held shared by
searches and exclusively by every write request until it returns; `scrollMu`
protects points in time and scroll contexts and may be taken inside `c.mu`, or
alone (`DeletePIT`, `ClearScroll`). Two clusters synchronise on nothing but
`Index.refs` (atomic), `Index.copies` (atomic) and the mutex of the tombstone
registry. `writable` reads `refs` once: at 1 the request writes in place until
it returns, above 1 it copies the `Index`, installs the copy and releases its
share — while the other cluster may clone, release or copy the same object.

Inside one cluster a write request resolves its name through aliases
(`Aliases`), creates the index from templates when it is missing
(`IndexTemplates`), makes it writable (`CopyOnWrite`), hands over and consults
tombstones (`Tombstones`), decides about versions and stores documents
(`DocWrites`), and adds a segment run that is compacted before the request
returns (`Segments`). A by-query request (`ByQuery`) does that for the hits of a
search. A search resolves an expression (`IndexExpressions`), orders and cuts
the hits (`SearchPages`) and may leave a context behind (`ScrollContexts`,
`Cursors`).

**What is hard.** Interleavings across clusters (no common lock); counters read
once and relied on later; copies that fail; requests that stop between two
targets; holders that let go in any order; objects referred to without a
reference (scroll hits, weak pointers); state handed from an object to its copy
in a later critical section; decisions that depend on when the garbage collector
runs; clock readings that reach a mutex late; loops that must end although what
they merge may fail; pages cut out of something that changes. `PROJECT.json`
lists these hazards with their lines and the properties that cover them.

## 2. Modules

| Module | Contents |
|---|---|
| `ClusterStore` | abstract: every cluster owns its indices, a clone copies them, a PIT and a search keep what they started with |
| `CopyOnWrite` | clusters, `Index` objects, reference counts, points in time, searches, writing requests |
| `ScrollContexts` | extends `CopyOnWrite` by scroll contexts and the requests that render their pages |
| `CopyOnWriteProofs` | the counting, with and without scroll pages, and that `CopyOnWrite` implements `ClusterStore` |
| `Tombstones`, `TombstonesProofs` | versions of deleted documents along the lineage of one index |
| `DocRegister` | abstract: one versioned register per document and one counter of sequence numbers |
| `DocWrites`, `DocWritesProofs` | document requests, single and bulk, of one index; that they implement `DocRegister` |
| `Segments`, `SegmentsProofs` | segment runs, their compaction and its failures |
| `Aliases`, `AliasesProofs` | names of a cluster and the requests that change them |
| `IndexExpressions` | what a search over an expression reads, and what it should |
| `IndexTemplates` | templates and the indices made of them |
| `ByQuery` | delete, update and reindex by query, and task results |
| `RequestProofs` | proofs about `ByQuery` and about `IndexTemplates` |
| `Cursors` | scrolls and points in time with a clock, pages and keep-alives |
| `SearchPages` | a client that reads all hits page by page while documents change |
| `CursorsProofs` | proofs about `Cursors` and about `SearchPages` |
| `ManagedClones`, `ManagedClonesProofs` | the management API: clones on ports of their own, the frozen flag, the end of the base |
| `MC...` | model values, inputs and symmetry for TLC |

### CopyOnWrite

Every `Index` is a member of `Obj`: `refs[o]` is `Index.refs`, `closed[o]` says
that the last `release` closed its bleve index, `content[o]` is what `copyIndex`
carries over — the observable data as one value, the CLOSE state (`shut`) and
whether reopening must rebuild (`reopen`). `indices`, `pitObj` and `rObjs` are
rows, from index names to objects.

`c.mu` is the pair (`pc[c]`, `rCluster`): a request that writes holds it while
`pc[c] # "idle"`, a search between `StartSearch` or `StartPITSearch` and
`EndSearch`; the latter also retains its targets, as `pitTargets` does. A search
that takes no reference stands for every reading request and refers to all
indices of the cluster, also to those a particular request would not read.

Writing requests run one step at a time, because other clusters can move
between them:

```
Begin -> load -+- LoadOwned ------------------------+-> apply -+- Apply, FailApply -> next target
               +- LoadShared -> copy -> swap -> Swap +         +- StartRebuild -> rebuild -> install
               +- SkipTarget                                        (PutMapping, OpenIndex)
                              copy/rebuild: FailCopy
```

`kind` tells what is written: documents, mapping, settings (also aliases and
blocks), close, open. `Close` releases the indices and then the PITs one by one.
Requests that stay within the cluster's own share of the counters (`Clone`,
`CreateIndex`, `DeleteIndex`, `CreatePIT`, `DeletePIT`, ...) are one action.

Simplifications: a PIT has at most one target per index name (two lineages of a
name do not meet within a cluster); the mapping `PutMapping` installs for the
time of its rebuild and `OpenIndex`'s reset of the flag on the object it is about
to replace are merged into the step that ends the rebuild, both being in the
hands of the sole owner; a `PIT` expires at an arbitrary moment, which covers
keep-alive extension; `pitTargets` retaining a target that turns out closed and
releasing it again is no step; the throw-away index that validates a template
is not there. Deleting several indices or closing a cluster is a sequence of
single releases.

### ScrollContexts

A scroll context keeps the row of its search and never touches a counter. A
request that renders a page is a reader with `rScroll # Nil` and `rHolds =
FALSE` that holds `scrollMu` as well. `StoreStep` is any step of `CopyOnWrite`,
restricted by that mutex and by the fact that an object hits refer to is not
garbage. `newScroll` is merged with the end of the search that calls it. Which
hits are on a page is left to `Cursors`.

### Tombstones

The registry for the `Index` objects of one index (one UUID), shared by the
clusters that descend from each other. `hist[o]` is the history of snapshots of
`o`, `items[m]` the contents of the maps they refer to (two snapshots may refer
to one map; that is what `shared` is for), `seen[c]` the weak pointer
`lastSeen`. A request holds `c.mu` from `Begin...` to `Commit` with the steps
`copy`, `inherit`, `note`, `ops` between; documents have internal versions.
`truth[c][i]` is a history variable: the deletion of `i` in the past of `c`.
`Collect` is the garbage collector reclaiming an `Index` only weak pointers refer
to, and the registry's cleanup of its entry. While a weak pointer to it is kept
the collector may take its time; otherwise nobody can tell when it ran, and
`Clean` lets it run first.

Three kinds of requests replace an `Index` by a copy. Document requests and
`PutMapping` hand its tombstones over. Other index-level writes, the rebuild of
`OpenIndex` and document requests that a write block rejects do not; `noteIndex`
makes up for it at the next document request if the cluster had noted the
previous object and the garbage collector was slower. The history variable
`bypassed` holds the clusters whose past has such a copy, `MaxBypasses` bounds
how often it happens, and `RemembersDeletions` speaks of the other clusters;
that nobody learns of a deletion that is not in its past (`InventsNoDeletion`) holds
for all.

`bypassed` has one case more, which the proof found (`TooLate`). A document request
installs its copy first and inherits the tombstones afterwards, in another critical
section of the registry (`tombstones.go:334`). In between, a clone that is now the only
holder of the source may commit; `tombstoneHistory` commits later the snapshot the
copy should inherit is evicted, and it inherits nothing. With the 8 snapshots of
the code that takes eight requests within two lines of another, with `History = 1` TLC
reaches it.

`newDocTx` and `writable` are one step; the sweep of a map that has grown, an
optimisation with a size threshold, may happen at every commit in place; PITs,
which hold an `Index` like a cluster that never writes, are left out.

### DocRegister and DocWrites

`DocRegister` is what an index promises: per id a version, a sequence number and
a shard, or a deletion that is remembered for `GcDeletes`; operations take
effect one at a time. `DocWrites` is how the code does it. A request is `Begin`,
its operations and `EndSingle` or `EndBulk`; it holds `c.mu` all the time, but
the clock runs (`Tick`). `over` is the `docTx`: tombstones of this request, which
its later operations see and the registry learns of at the end, whatever became
of the request. `queued` is what a bulk request has yet to give to bleve, and
`indexed` what bleve holds. Bleve may refuse a batch (`Failures`): a single
operation then fails before anything is stored, a bulk request after its
documents were stored.

A document lives on the shard its routing hashes to and a request reaches one
shard only; `Read` is what a client reads before it sends `if_seq_no`. `peak` (the
last version answered) and `adrift` (ids whose last write bleve did not get) are
histories. Left out: parsing, ingest pipelines,
active-shard checks, `_source`, and a compaction that fails between the removal
of a document and its tombstone (`docs.go:349`).

### Segments

A run is known by its number, so their order is the order of `ix.runs`; of the ids
it lists the model keeps how often each occurs. `Write` is a batch with its
replaced and deleted documents and the start of `compactRuns`; `UpdateMapping` and
`Copy` are the two ways runs come to be under another mapping, or to be built
anew. `StartMerge` picks a group (`runsToMerge`), `Skip`, `Requeue` and `Pin` take
one listed document each, in the order of the runs, and commit a full batch on
the way; `EndMerge` commits the rest, `EndCompaction` leaves nothing to merge.

The assumption `BatchDocs >= MergeFactor ^ Classes` is what makes compaction
end: with a smaller batch a merge of the largest class would produce runs of that
class again. The code's constants satisfy it. A bleve batch that fails is left
out; it ends the request before the runs change.

### Aliases and IndexExpressions

A request holds `c.mu` and is one step. An index shared with a clone (`shared`) is
copied before it is changed, and the copy may fail: `UpdateAliases` then stops
half-way, which the history variable `torn` records.
`Requests` and `Creations`
are the requests and the aliases of new indices that are tried. `WriteIndex` and
`ReadIndex` are the two resolutions of document requests; they differ
(`docresolve.go`). A document is seen through an alias if its filter matches it;
routing values are left out.

`IndexExpressions` resolves the expressions of searches as `resolve.go` does — the
scan for `-`, wildcards, hidden names, options — and states separately what a search
over them ought to read: an index by its own name all of it, by an alias what that
alias's filter lets through. A search expands its expression twice, for its indices
under the options of the request and for the filters under fixed lenient ones
(`Resolved`); the two agree (`SearchReadsWhatItNames`) where `ExpandsAlike` holds, for
indices without a filtered alias of their own name (`OwnNameFiltered`). Section 3
says what the others do. The scan is stated declaratively: the names that some element adds
(`ElementNames`) and no later one excludes (`Excludes`).

### IndexTemplates

Bodies of requests are values from small sets; settings and aliases are partial
functions. A pattern is known by the texts it matches and by its text without
stars, which is what `patternsOverlap` compares. `Bucket` is the place of a name
in the hash set whose iteration order the code imitates to break ties.
`CreateIndex` composes component templates, the template and the request (or
legacy templates by order); `IndexDoc` creates an index on the first write and is
where `writeIndexSettings` foresees the pipelines from the templates alone.
`PipelinesForeseen` says when it is right.
`Resolve` puts the name of an index into an alias with `{index}`; a request's aliases
keep it as it is, and one that the request and a template spell alike is the request's
alone (`Unnamed`). `PlaceholderAssumption` says that replacing it leaves none, so that no
index has `{index}` in its own name, which the code allows; names that templates
gave then need no comparison before the replacement. One cluster is enough, because `Clone`
copies the maps. Left out: whether a composed mapping is valid, data streams,
simulation; alias names are disjoint from index names (`Aliases` is about that).

### ByQuery

The hits of a search are any set of documents in any order. `Start` is
the request up to its plan, `StartBatch`, `Apply` and `EndWorker` are `runWorker`,
one hit at a time since each may fail or conflict, `Respond` counts and stores the
result of a task that nobody waits for. `Id` is an integer because slices take the
signed hash of the id. Between the search and the end the request holds `c.mu`, so
that a delete or an update meets no conflict; conflicts come from a reindex with
`op_type=create`, where the first source wins.

Two things the code does are in the model as they are: `max_docs` cuts a batch, and
the next one begins after the whole window; `max_docs` divided among slices drops
the remainder. Left out: the error of `wb.flush`, which `byquery.go:394` drops,
external versions of a reindex, remote sources.

### Cursors

A search that opens a scroll, a request for a page and the creation of a PIT read
the clock before they wait for `scrollMu`; `Read...` is the reading and `pending`
what waits. `NewScroll`, `CreatePIT`, `ServePage` and the rest are the critical
sections, which sweep with that reading; answers may fail to render. A scroll expires
strictly after its deadline, a PIT at it. `told`, `sent`, `torn`, `lease` and `cleared`
are histories: what clients know, and what they were granted. A scroll of a search
without shards has the id all such scrolls share, and its pages are refused. PITs are
swept only by requests about them; a `SearchPIT` renews by any keep-alive without
the limit check. Left out: overflow in `parseTimeValue` (`searchids.go:195`).

### SearchPages

A client picks a request and repeats it: `PageFrom`, `PageAfter`, `ScrollPage` and
`CompositePage` are one search each, `Write` comes between. Hits are sorted by the
comparators of `sort.go`, with `_shard_doc` and `_id`, missing values and directions;
a plain page goes through the bounded heap, written down as in the code and compared
with a sorted sequence by `PagesInOrder`. Slices are those of `searchexec.go:150`: by
shard, by hash, or both when there are more slices than shards. `Coarse` is the
float64 a `search_after` value goes through. Left out: failing shards, `min_score`,
`post_filter`, `terminate_after`, rescoring, slice fields with several values,
composite sources beyond one and composite aggregations over a slice; the shard of a
document hashes its id, not a routing. `SearchAssumption` says of the constants what the
code guarantees: `searchRequestChecks` and `checkShard` let the request through, there are
finitely many ids and index names, hashes are numbers, and a float64 keeps the order
of the values it rounds (it need not tell them apart).

### ManagedClones

`registry`, `seq` and `frozen` are `adminState`; `cluster[k]` and `server[k]` say
whether the engine and the HTTP server of a clone are missing, open or closed.
A request is a goroutine with a step `pc[r]` and the clones it has in `hands`:

```
CheckLimit -> FreezeBase -> CloneBase -+- Serve -> Register          (ManagedClone)
                                       +- FailServe -> Discard
TakeOne -------------------+-> StopServer -> CloseClone -> next      (closing)
CountClones -> TakeAll ----+
StopBase, CloseBase -------+                          -> EndClose    (Close of the base)
Admit -> Handle                                                      (OpenSearch API)
```

Each critical section of `admin.mu` and each use of the atomic flag is one step,
and so are the calls between them, because other requests can move there.
`issued` is a history variable, the ids clients were told. The base's contents
are a counter of its changes: a handler either changes it or does not.

Simplifications: requests, and calls of Go programs, begin only while the base's
server runs, and `Cluster.Close` comes after `Server.Close`, as in the deferred
calls of `serve.Run`; a clone's own management API is left out; `Freeze` and
`Unfreeze` may be called at any time by either kind of caller; listing clones
changes nothing. A path is a sequence of segments, of which those that
`isReadOnlyRequest` knows matter; a route also says which segment names its API, as
the router sees it, and whether the handler of that API writes. `RouteTable` is the
assumption about them: no writing handler is registered for a reading method or under
the name of a reading API. Names and ids, the other segments, may be anything: a write
whose path holds such a name is misread (`Misread`). What `base` counts is changes of
indices, documents and metadata, not the refresh point and the contexts of searches.

## 3. Runs

| Run | Instance | Checks |
|---|---|---|
| `cow_store` | 2 clusters, 1 name, 4 objects, 1 PIT, 1 search, 2 contents | `IndInv`, `NoReadOfClosed`, `PITOfClosedIndexIsLost`, `CopyIsCurrent`, `InPlaceOnlyByOwner`, `ImplementsStore` |
| `scroll_pages` | 2 clusters, 1 name, 3 objects, 1 scroll, 1 PIT | `RegisteredPagesAreStable` |
| `scroll_foreign_write` | 2 clusters, 2 contents | `ForeignWritesAreInvisible`: **violated** |
| `tombs_deletions` | 2 clusters, 3 objects, 1 id, 1 bypass | `RemembersDeletions`, `InventsNoDeletion`, `SharedMapsFrozen` |
| `doc_writes` | 2 ids, 2 shards, 1 client, failures of bleve | `StoredIsSearchable`, `CompareAndSetIsSound`, `VersionsNeverGoBack`, `ImplementsRegister` |
| `segments_runs` | 5 documents, 2 classes, batches of 4, fairness | `StoredIsHeld`, `LiveCounts`, `NothingToMergeAtRest`, `CompactionEnds` |
| `aliases_names` | 2 index names, 2 alias names, one of them both | `AliasesConsistent`, `NamesDisjoint`, `ReadsWhatItWrites`, `SearchReadsWhatItNames`, `RedirectedOnlyOnRequest` |
| `requests` | 2 sources of 2 documents, 2 requests, fairness; 2 templates of each kind, 2 index names | of by-query requests `MaxDocsRespected`, `EachHitOnce`, `NothingMissed`, `RequestEnds`; of templates `TemplatesConsistent`, `CreatedAsLayered`, `PipelinesForeseen` |
| `paging` | 2 requests, 2 contexts, a clock up to 2; 2 indices of up to 3 documents, 1 write | of contexts `HitsInOrder`, `KeepAliveHonoured`, `NothingAnswersTooLate`, `GoneForGood`; of pages `ReadExactlyOnce`, `PagesInOrder` |
| `clones_registry` | 2 requests, 3 clones, limit 2, 4 routes, fairness | `CloneInv`, `FrozenBaseSettles`, `ClonesAreListedOrClosed` |
| `clones_frozen_write` | 2 requests, 1 clone, 4 routes | `ReadOnlyRequestsChangeNothing`: **violated** |
| `clones_after_close` | 2 requests, 1 clone | `ManagedClonesClosedToo`: **violated** |

`IndInv`, `CloneInv`, `AliasesConsistent` and `TemplatesConsistent` are conjunctions
of named parts; the first two are inductive invariants of section 4. `requests` and
`paging` check two models each (`MCRequests`, `MCPaging`), which share no variable: in
each behaviour one of them moves and the other stays where it began. They are paired as
in `RequestProofs` and `CursorsProofs`.

**Bounds.** Counting and ownership concern one object, its holders and the
request about to write: two clusters, a PIT and a search are one of each kind of
holder, and two clusters are the fewest with a race. Each cluster needs at most
an object in the map and one being built; an object more is kept by the PIT or the
search, and with four every action happens (an allocation that finds no free
object is just not possible at that moment). Two contents are enough to see a
write where it should not be. Requests over several targets have one name here; the
proofs have any number.

In `Tombstones` the counters `MaxVersion = 3`, `MaxSeqNo = 2`, `MaxCopies = 1`
and `MaxTime = 1` stop the program, so that run has no deadlock check; they admit
a deletion on each side of a copy and a clock that leaves the window (`GcDeletes =
0`). `History = 2` stands for the code's 8: the history overflows with three
commits; four maps suffice, with six there are no more states. In `DocWrites` three
sequence numbers admit index, delete and index again between the read of a client and its write, on either shard; `GcDeletes = 1` and a
clock up to 2 let a tombstone outlive its deletion and expire. In `Segments` two runs
of a class are merged and four documents fill a batch, so that a merge commits a
batch in the middle, or pins a run there; the bounds on writes and mapping
updates stop it.

`Aliases` tries single actions and pairs on two names; `x` is an index name and an
alias name, so names can collide. The requests of `ByQuery` combine batches of 1, 2
and the default 3, slices automatic, 1 and 2, `max_docs` absent, 1 and 3, one id with a negative
hash, and any search result of up to three hits (`MaxHits`), so that a slice has
several batches and one of them is cut; the second request is there for the FIFO of task
results. `Cursors` has keep-alives below zero, within and beyond the limit, and a
scroll of two pages. `IndexTemplates` has two patterns of which both match one
name, without overlapping as `patternsOverlap` sees it. `SearchPages` has one to three
shards per index and up to five slices, more and fewer than the shards; two values
fall onto one float64. In `ManagedClones` two requests with limit two reach the
largest overrun the theorem allows (three clones); once all clones are created
the runs may stop. The routes are a search, a write, a write to an alias named like a reading
API, which the metadata API before it gives away, and a write of a document whose id is
`_refresh`, which passes for a refresh.

**Fairness.** `clones_registry` assumes weak fairness of `RequestStep(r)` for
every request: a goroutine that has begun continues. The Go scheduler runs it,
the registry's mutex is held for a few instructions, `Server.Close` does not
wait for handlers, and `Clone` and `Close` of the engine wait only for requests
that hold `c.mu` for bounded work. `segments_runs` and `requests` assume that a
compaction and a by-query request that have begun take their next step: both are loops of
one goroutine that holds `c.mu` and waits for nobody. Nothing is assumed about
requests being sent. All other properties are safety properties.

**What the violated runs show.** Each is about one sentence of the repository.

* `scroll_foreign_write`: scroll hits hold no reference (`searchexec.go:1628`). After a
  cluster has deleted or detached an index, the clone that still has it is its only
  holder: it writes in place to what a page of the origin is rendering, under another
  mutex, or closes it. `RegisteredPagesAreStable` is what remains true.
* `clones_frozen_write`: `isReadOnlyRequest` "reports whether a request cannot change
  cluster state" (`src/admin.go:159`), but looks for names of APIs in every segment of a
  path. `PUT /items/_doc/_refresh` passes for a refresh and writes to a frozen base.
  `FrozenBaseSettles` is what remains true: no other write does.
* `clones_after_close`: clones made through the management API "are closed too" when
  their base is (`src/osmem.go:114`). `Close` empties the registry once; a creation under
  way registers its clone afterwards (`src/admin.go:81`), and that clone and its listener
  stay. `ClonesAreListedOrClosed` is what remains true: it is in the registry.

**Other places where the code and what is said of it differ.** They were met while
modelling; the properties above are stated so that they hold beside them.

* `remove_index` in an alias update deletes an index without freeing the reader
  contexts of the PITs on it (`alias.go:709`), unlike `DeleteIndex`.
* OpenSearch keeps versions of deleted documents for `index.gc_deletes`, and "osmem does
  the same" (`tombstones.go:11`). An index-level request, the rebuild of `OpenIndex` and
  a document request that a write block rejects replace the index without its tombstones
  (`tombstones.go:171`, `:210`); `noteIndex` makes up for it unless the cluster had not
  noted the previous object, or the garbage collector was faster. A snapshot that is
  evicted before it is inherited is lost too (`tombstones.go:334`).
  `RemembersDeletions` is about the clusters without such a copy in their past.
* The result of an alias update "is validated before it is committed atomically"
  (`alias.go:560`), but committed index by index (`alias.go:724`), and a copy that fails
  leaves the rest undone: an alias may be hidden on one index and not on the other, or
  have two write indices. `AliasesConsistent` holds until then (`torn`).
* `writeIndexSettings` returns the settings "of the templates an auto-created index would
  get" (`docresolve.go:89`), but ignores component templates and breaks ties
  differently: the first document may be stored without the pipeline that the second is
  sent through. `PipelinesForeseen` states the cases where it is right.
* A bulk request whose flush bleve refuses for one index has stored its documents and
  recorded its deletions, while searches find the old versions (`docs.go:153`).
  `StoredIsSearchable` leaves those ids out (`adrift`).
* With an exclusion (`a*,-a1`) an index is searched without the filter of the alias
  it was reached by; with hidden wildcards a hidden alias loses its filter
  (`resolve.go:506`); so does `a,x*` for the alias `a` of `x`, when the request expands
  wildcards to closed indices only, or to nothing with `ignore_unavailable`: the lookup of
  filters expands them to open ones. `*` alone ignores aliases, `*,-x` does not.
* A new index may carry an alias of its own name, from a template with `{index}`. Searched
  by that name alone the index is filtered by it, and among several names, or twice,
  it is not (`resolve.go:458`).
* `_shard_doc` numbers the documents of each index from zero
  (`searchexec.go:872`), so over a PIT of two indices, `search_after` may skip a
  hit whose tuple equals the last one, and `searchexec.go:986` recommends just
  that. `search_after` over `date_nanos` rounds to a float64 while hits sort by the
  exact value (`search.go:953`), so hits may be skipped or read twice. The search for an
  inductive invariant showed that with a second sort field pages also come out of order:
  when the values 1 and 2 are one float64 and a first page sorted by value and id has
  (1,2), (1,3), (2,1), the page after it begins with (1,2) again. `ReadExactlyOnce`
  leaves out hits the tuples cannot tell apart, and `PagesInOrder` hits whose values
  a float64 does not tell from others that were returned (`Exact`).

**What passing runs say of weaker guarantees.** `docEnsureIndex` returns the
error of a write block between the copy and `inheritTombstones`
(`tombstones.go:210`): deletions are lost there, but never invented.
`ManagedClone` checks the limit in one critical section and registers in another
(`src/admin.go:65`), so the limit of 256 is not strict: `OverrunIsBounded` says how
far it goes. A write admitted before `Freeze` takes effect after it, even after a
clone of the frozen base was made (`src/admin.go:145`): `FrozenBaseSettles` says
that only those writes do, misread ones aside, and each once. A page that fails to render has left its context
(`searchexec.go:1727`): `HitsInOrder` counts its hits as torn, not as sent. A
page requested with an older reading of the clock that is served last shortens
the lease; `KeepAliveHonoured` is about the lease granted last.

## 4. Proofs

Every theorem is about a specification with its constants arbitrary, under the
named assumptions of its module. Eight modules hold theorems. All 23 invariants
of the passing runs are stated by a theorem, and 13 of the 16 other properties.

`CopyOnWriteProofs` proves, from `FiniteParts` (finitely many clusters, names,
PITs and searches — the number of objects is not bounded), `NilIsNothing` and
`EmptyIsData`: `Counting` (`IndInv` always holds) and from it `Types`,
`RefsAreHolders`, `ClosedByTheLast`, `WritersAreAlone`, `ReadsAreSafe` (no search
reads a closed index) and `WritesInPlace` (no step changes an open `Index` that
another holder, a search or a copy can see).

`RefsCountHolders` is not inductive alone. A holder is a triple (kind, who,
name), so `Holders(o)` is a set and the counter its cardinality; `Retain` and
`Release` add and remove the disjoint triples of one row (`RetainCounts`,
`ReleaseCounts`, `AllocateCounts`), and each action has one lemma that says which
triples it moves. `WriterIsAlone` follows when `writable` sees a count of at most
one, since the cluster's own slot is one. It stays true because only a holder
can make another holder: `Clone` and `CreatePIT` of the same cluster are locked
out by `c.mu`, other clusters and PITs do not hold the object, and a plain
search of the cluster does not run (`ReadersLockOut`). `RequestOK` ties the
program counter to the copy being built, and `FreshIsPrivate` says nobody else
holds it. `NoReadOfClosed` follows because a reader is a holder or reads what
its locked cluster holds.

From there the module goes on to `SharingIsInvisible`: `CopyOnWrite`
implements `ClusterStore`, each row read through `content`. A row sees open
objects only, and holds them; a step writes to one open object at most, which is
either a copy nobody sees or a target its cluster sees under one name; hence
every step changes the contents of one cluster, or of none. The case of `Swap`
needs `CopiesAreCurrent`: what is installed is what the source holds then,
because a source with a second holder is written by nobody. `ClosedIndicesAreLost`
needs the same of a rebuild (`RebuildKeepsState`): the flag and the CLOSE state that a
copy or a rebuilt index is installed with are those of the object it replaces.

Scroll pages break one part of `IndInv`: a page may read an object its cluster
has left (`ReadersSeeTheirCluster` fails, and `scroll_foreign_write` shows what comes
of it). `IndInv` is therefore `CountInv` and that part. `ScrollCounting` proves `CountInv`
for the steps of `ScrollContexts` as well, and with `ScrollOK` — a page under way has its
context's row, holds nothing, and its cluster's lock — `PagesAreStable`.

`TombstonesProofs` proves `TombstonesInOrder` (`TombInv` always holds) from the
assumptions on the history and the numbers, and from it `DeletionsRemembered`,
`NothingIsInvented` and `SharedMapsAreFrozen`. The parts of `TombInv`: `RegistryOK` — each
snapshot of a history has a map of its own, and a map in two histories is marked
`shared` in both, so that a commit replaces it instead of writing to it; `RequestsOK` —
what a request has done so far, and that it is alone on its `Index` before it writes;
`SameTruth` — clusters with one `Index` have one past; `LeftBehind` — what a copy may
yet inherit is still in the history of its source, out of reach of those who write
there now; `NothingInvented` and `NothingForgotten` — every tombstone is in the past of
who can see it, and what is not seen is out of the window. Histories are sequences of
any length; the snapshot to inherit is a greatest element, found by well-founded
induction over positions (`WFMin`).

`SegmentsProofs` proves `SegmentTypes`, `NoDocumentLost` (`StoredIsHeld`),
`CountersRight` (`LiveCounts`), `OthersLeftAlone` and `RestIsMerged`
(`NothingToMergeAtRest`) from the assumptions on
documents, batches and sizes. The invariant adds `MergeInv`: a merge has in `todo`
only documents of mergeable runs, and its batch holds documents that `runOf`
places there, fewer than a batch. `Commit` is one lemma, used for writes, full
batches, pins and the end of a merge. `RestIsMerged` needs that no run is of a later
mapping than the current one, and that the batches of a rebuild are full but for the
last, which makes each of them too large to be merged.

`DocWritesProofs` proves `DocumentsInOrder` (`DocInv` always holds), `NoLostUpdate`,
`VersionsRise`, `SearchesFindWhatIsStored` and the refinement
`RequestsImplementRegister`. `DocInv` says that a
request's clock reading is not ahead of the clock, that numbers in use were drawn,
that a client whose document changed does not have its current number, and that the
document or its tombstone has the version answered last. The register of an id
is its document, or else its tombstone as the request under way sees it, so that
`EndSingle` and `EndBulk`, which publish the `docTx`, are stutters, and every operation
of a bulk is a step of its own. `BleveInv` says which ids may differ between the
documents and bleve while a bulk request runs: those it has queued, and those whose last
write bleve refused.

`AliasesProofs` proves `AliasTypes`, `OneWriteIndex` (`AliasesConsistent`),
`DisjointNames`, `NoSilentRedirect` and `SameIndex` (`ReadsWhatItWrites`). The write index
is characterised once
(`WriteIndexDesignated`), and taking aliases or indices away preserves consistency
(`ShrinkingIsConsistent`); every request is one of these or passes the validation.
`SameIndex` also needs that the indices are finitely many, which is an invariant, not an
assumption: it counts the targets of an alias.
`SearchesReadWhatTheyName` (`SearchReadsWhatItNames`) needs no more of a state than `TypeOK`
and `NamesDisjoint`: an open index is reached exactly when one of its names is asked for
(`OpenIndexReached`), the names resolved for the filters are the same ones
(`ResolvedNames`; a name among them that carries an alias of the index and is an index is
the index itself), and so the filters are theirs (`FilteredReads`).

`RequestProofs` proves of `ByQuery`: `LimitHolds` (`MaxDocsRespected`), `TriedOnce` (`EachHitOnce`) and
`AllTried` (`NothingMissed`), for any finite sets of ids and indices, any order in which
a search finds its hits, and any sizes. `SlicesApart` says that slices share no hit
and together have all of them, negative hashes included (`SliceExists`). The invariant
`Place` says where the worker is: some number `a` of hits of its slice is behind it,
the batch is what comes next, and nothing after that was tried; without `max_docs` all
before was tried, batches end at multiples of their size, and every failure is in the last
one — which is why a worker that stops has done its slice up to `Reach`. `WithinLimit`
adds to the successes of a slice what is left of its batch. The
successes of all slices are a set of pairs (slice, number), a part of a rectangle
whose size is the number of slices times the limit of each. Of `IndexTemplates`, whose
specification is called `ITSpec` so that both fit into one module, it proves
`StoredTemplatesConsistent`, for any patterns:
templates are validated against what is stored, replaced ones left aside, and
components are deleted only when nobody names them.
`NewIndicesLayered` (`CreatedAsLayered`) is about what the folds of the model compute.
They are recursive functions, and a closed form of each is shown to be one: `Topmost`
has each entry of the last layer that has it, `Bottommost` that of the first. No other
function fits the recursion, because two would differ first at some layer (`WFMin`
picks it), and there they agree. The order of `AliasLists` is the sections backwards, so
that the first list that has an alias is the last section (`AliasesSayLast`). The
invariant it needs of the templates is `TemplatesTyped`: what is stored was in a request,
and there are finitely many, so that all legacy templates fit into a chain
(`ChainsAreFinite`). `WritesForesee` (`PipelinesForeseen`) follows from it: a setting of a
legacy chain is that of a template of the highest order that has it (`HighestOrderSays`),
so that chains of distinct orders agree (`ChainsAgree`), and components that name no
pipeline leave it to their template (`OwnSectionNames`). Assumed of the constants: the
bodies of requests are settings and aliases over the given keys and names, priorities are
numbers.

`CursorsProofs` proves `LeasesInOrder`, and from it `LeasesHonoured`,
`ServedInTime`, `NothingRevived` and `HitsHandedOut`. The invariant `CursorInv` says that
ids in use
were drawn (`IdsDrawn`), that the id of a request that has not answered is known
to nobody (`PendingOK`), and that the deadline of a context is the lease granted
last, or the one about to be told, and that a context that is missing was cleared
or its lease is over (`DeadlinesAreLeases`) — whoever sweeps, and with how old a
reading. `HitsInv` is about the pages: every scroll has a number of hits of which each
was sent, was torn or is on its way to the client, and its context holds the block after them.

The second half of the module is about `SearchPages` and proves `EveryHitOnce`
(`ReadExactlyOnce`) and `OrderedPages` (`PagesInOrder`) from `SearchAssumption`, for any
documents, sorts, page sizes, shards, slices and writes. It has four layers.

* *Orders.* `compareHitsLess`, `compositeLess` and `CollectedLess` are strict total orders,
  and `InOrder` arranges a finite set by such an order (`InOrderArranges`).
* *The heap.* `SiftUp` and `SiftDown` iterate one step. If the step maps each set of a
  family into the next, the iteration ends in the last one (`Iteration`); the sets here say
  that the heap is one but for the hit that moves, and how many steps that hit has left
  (`SiftUpMakesAHeap`, `SiftDownMakesAHeap`). `TopHits` says that the heap holds the `k`
  least hits, and `Bounded` that the first `limit` hits of `sortHitsBounded` are those of
  `sortHits`, which is what its comment promises.
* *Slices and tuples.* `OneSlice`: with fewer slices than shards or more, multiples or
  not, each hit is in exactly one. `RoundedOrder`: where a float64 tells values
  apart, rounded tuples are in the order of the hits.
* *Pages.* `GoodPage` says what a page and the client's next place must be: no hit that is
  behind the old place, the new place past exactly what the page has (`Advances`), and
  everything in order (`Follows`). There is one lemma per kind of page (`GoodFrom`, `GoodAfter`,
  `GoodScroll`, `GoodComposite`).

The invariant `PagesInv` says where the client is (`PlaceOK`), that it has what is behind
its place once and the rest not at all (`ReadOK`), and that what it has is in order and
before its place (`OrderOK`). "Behind its place" (`Reached`) differs by the kind of
request: the offset in the sorted hits, a rounded tuple that is not greater, hits
the scroll no longer keeps, an after key. A write changes none of it for hits that stay
as they are (`ReaderUnmoved`): a point in time does not see it, and tuples, after keys and
what a scroll keeps do not shift. Offsets do, so `Covered` asks for a point in time.

`ManagedClonesProofs` proves, from `Limits` (finitely many requests, a positive
limit; any number of clones), `RegistryInOrder`: `CloneInv` always holds. From it
follow `ClonesTypes`, `NoCloneLeaks` (`OneOwner`), `ListedServe`, `IdsAreFresh`
and `OverrunBound`. `OneOwner` alone is not inductive: `OwnersApart` says that
entries and hands are disjoint and hold exactly the open clones, `HandsOK` what
a request has in hand at each step (a clone whose server is missing until
`Serve`, one clone until `Register`, nothing between requests), `IdsFollowSeq`
that `seq` is past all ids. `OverrunIsBounded` counts the requests between the
check and the registration with the entries: a request that passes the check
leaves room for all others, and registering moves one from one set to the other.
`FrozenSettles` (`FrozenBaseSettles`) holds for any routes under `RouteTable`. What
`isReadOnlyRequest` lets through has a reading method or the name of a reading API
somewhere in its path with no metadata API before it; a write has neither as its own
method or API, so the name is another segment, and the write is misread (`LetThrough`).
`AdmittedDrain` says so of every write a frozen base admits, `WritesAreAdmitted` that a
change of the base is an admitted write, which then is not under way any more.

**Only model-checked.** The liveness properties `CompactionEnds`, `RequestEnds` and
`ClonesAreListedOrClosed`: liveness and `ENABLED` are out of the prover's reach.
The properties of the runs marked violated are false of the model and so not provable.

## 5. Not modelled, and the plan

The map covers about 6% of the implementation's lines. Most of the others compute
something from an index and keep no state: analysis alone has 6,400 lines, query
parsing 2,000, aggregations, highlighting, field types, settings tables and the HTTP
handlers most of the rest. The models read an index as a whole, so that none of
these can change what they say; a model of a tokenizer would be the tokenizer again.

* **Queries, scoring, other aggregations, highlighting, explanations**: functions of
  an `Index` and a request.
* **Analysis, field types, formats**: parsing and formatting of data. Mapping is a
  version number in `Segments` and part of the contents in `CopyOnWrite`.
* **Settings, cluster information, cat APIs**: tables and rendering.
* **HTTP decoding, routing, rendering; seeds; packages; the Japanese plugin; test
  helpers and benchmarks**: I/O around the engine.
* **Server process**: the sources that stop it (`serve.go:96`) are a select over
  channels; the order of its deferred calls is in `ManagedClones`.
* **Requests after `Close`** (`cluster.go:1363`): an index created then is never
  released. The models stop requests with the cluster.

What is next, in this order:

1. Dynamic mapping: documents that add fields to the mapping in the middle of a bulk
   request, against a mapping update that fails.
2. `ServeLifecycle`: the three reasons to stop, parent watch and signals, with
   liveness; requests after `Close`.
3. The composition of `DocWrites` and `Segments`: what bleve holds after a bulk
   request whose compaction failed.
