# Forensis in TLA+

Forensis investigates disk images: it finds the partitions of an image, recognises NTFS, EXT4, FAT32
and exFAT, turns each file system into one *forensic model*, and recovers objects of that model into
files. This directory holds TLA+ modules of its core, the TLC configurations that check them on small
instances, and proofs, checked by TLAPS, of the properties that matter most.

`PROJECT.json` maps every definition to the lines it models and lists the runs, the theorems, the
hazards and the findings. `tlc -config X.cfg M` repeats a run, `tlapm M.tla` a proof.

## 1. The system

    image -> partition tables -> detector -> {NTFS, EXT4, FAT32, exFAT} investigation
                                                          |
                                     forensic model (entries, parents, content layouts)
                                          |                    |                  |
                                    forensic tree     recoverable listing   recovery engine
                                          \____________________|_________________/
                                                     |                   |
                                                    CLI                 TUI
                                                      \__ forensis-recovery/ __/
                                                      (.ticket, .working-N, saved work)

| Component | State | Operations | Modules |
|---|---|---|---|
| Evidence inspection (`forensis-app/src/inspection.rs`) | partitions, and three lists in step with them | read the table, look at one partition after the other | `PartitionInspection` |
| Partition tables (`partition/`) | none | choose and parse MBR or GPT | `PartitionTables` |
| File system detection (`filesystem/detector.rs`), boot records | none | detect, accept or refuse, place clusters | `PartitionInspection`, `VolumeGeometry` |
| FAT32 investigation (`filesystem/fat32/`) | queue, visited clusters, chain walk, entries | directory walk slot by slot, `walk_chain`, `add_entry`, `content_layout`, `resolve_path` | `FatChains`, `Fat32Volume`, `Fat32Investigation`, `ClusterRuns`, `EntryPaths`, `Fat32Content` |
| exFAT investigation (`filesystem/exfat/`) | the same | records put together from slots, chains, layout, paths | `FatChains`, `ExFatVolume`, `ExFatInvestigation`, `ClusterRuns`, `EntryPaths`, `ExFatContent` |
| EXT4 investigation (`filesystem/ext4/`) | queue, visited inodes, remnants of names, entries, scan position | walk from the root, scan of the inode tables, extent trees, bitmaps | `ExtentTrees`, `Ext4Volume`, `Ext4Investigation`, `EntryPaths` |
| NTFS investigation (`filesystem/ntfs/`) | master file table, entries, directories | run lists, table from its runs, one record per step | `NtfsVolume`, `NtfsInvestigation`, `EntryPaths` |
| Forensic model (`forensic/model.rs`) | entries, segments, regions | sizes, checked arithmetic | `ForensicModel`, `Hierarchy` |
| Forensic tree (`forensic/tree.rs`) | call stack, nodes built | `from_entries`, `build_node` | `ForensicTree` |
| Recoverable listing (`collect_recoverable_entries`) | work list, visited ids | expand, take, revisit | `RecoverableEntries` |
| Recovery engine (`recovery/engine.rs`) | buffer, position in the layout | `recover`, reading of regions and segments | `RecoveryEngine` |
| Batch recovery (`forensis-app/src/recovery.rs`) | output directory, results | collect ids, look up, recover, write | `RecoveryBatch` |
| Tickets and working directories (`forensis-app/src/recovery.rs`, `save_recovery_work` of both front ends) | `.ticket`, directories, one session per process | draw a ticket, recover, save, crash | `RecoveryWork` |
| TUI session (`forensis-tui/src/main.rs`) | `AppState`, pending investigation, thread, answer slot | one turn of the event loop per key | `TuiSession` |
| Sources, readers, progress, CLI commands, drawing | none that matters here | I/O, events, text | not modelled (section 8) |

Two abstract specifications stand above them: `InvestigationPromise`, what the tree, the listing and the
recovery by id rely on of every file system, and `RecoveryPromise`, what a caller of the engine relies on.

**How they interact.** Inside one process everything is a synchronous call, with one exception: the
TUI investigates in a thread that answers through a mutex-protected slot, which the event loop polls.
Processes interact through the file system only: the ticket counter and the directories below
`forensis-recovery/` are shared by every CLI and TUI session, without a lock. Components exchange the
forensic model; its object ids are the only link between an entry, its parent, the tree, the
selection of a front end and the object recovered in the end, and the place of a model in a list is the
only link to its partition.

**What is hard here.**

* Processes that race for the counter and for directories, and that die between two of their writes.
* An answer of the investigating thread that arrives in whatever mode the user has reached by then.
* Metadata of damaged media: loops in allocation and extent trees, directories inside each other,
  parent cycles, repeated ids. Everything that follows links must end and must not lose evidence.
* Errors that end more than they concern: of a directory, of a record, of a partition.
* Mixtures of inline, sparse and physical segments that must be cut at the exact size, with checked
  64-bit arithmetic; a failure in the middle must not let a partial object out.
* Numbers that are counted from different starts: clusters from two, inodes per group and per volume, sectors
  of 512 bytes and of the volume, signed distances between runs.
* File names that collide, some of them looking like the product of an earlier collision.

**What makes each component correct.** An inspection keeps its lists in step and misses no supported
volume. An investigation ends, hands out ids as promised, walks no directory twice, follows the table or the
extents, and drops nothing genuine. The tree shows exactly what hangs below a root; the listing offers every
wanted file below a directory, once, and ends; the two agree. The engine hands out the whole object made of its
own evidence or nothing. A batch answers for every object asked for, and a file it reports holds the
bytes of the object it names. Tickets are never handed out twice and only grow; a saved directory is frozen; no
recovered file is lost. A TUI mode always finds the state it works on, and
objects are only recovered from the image they were listed from.

## 2. The modules and the code

Names follow the code. A definition called `X_...` directly before `X` is a plausible bug in `X`; it is
used by no specification and serves to show that the properties can fail.

### From the image to the volume

**PartitionTables** – `Mbr::parse`, `Gpt::parse` and the choice between them, as operators over an image: its
size, the two signatures, the table entries. The error cases of the GPT (entry sizes, counts, entries that cannot
be read, reversed ranges, overflow) are guards. Extended partitions are listed and not followed, as in the code.

**VolumeGeometry** – which boot records each parser accepts, and where a cluster lies for the reader of the
file system and for the forensic model. Sums that the code does not check wrap (`Wrapped`, `Shift`).

**PartitionInspection** – `inspect_image`: `ReadTable` or `RefuseTable`, then per partition one of
`PassOver` (outside of the image), `RefuseDetection`, `Unsupported`, `InvestigateVolume`, `RefuseVolume`. The investigation of
a volume is one step here; that it may fail is the field `sound` of a volume, justified by the
`OnlyDamageFails` and `FailsOnlyOnDamage` of the file systems. `EngineOffset` is the part of `create_engine` that turns the
place of a model back into an offset.

### File systems

**InvestigationPromise** – objects are identified one by one, each with an id of its own and below an object
identified before; what is listed stays. FAT32, exFAT and EXT4 are shown to implement it (`KeepsPromise`,
`INSTANCE ... WITH`). NTFS does not: all names of a record share its number, which is why the tree and the listing are
also checked over repeated ids.

**FatChains** – `walk_chain` and `read_fat_entry`, which the FAT32 and exFAT readers have in common, one table entry per
step. The data clusters are numbered 2 to `Total + 1`, but the code takes the count for the
highest number; `InRange` keeps that, and cluster `Total + 1` counts as out of range throughout.

**Fat32Volume, Fat32Investigation** – the walk of `investigate_filesystem`: the queue, `visitedDirs`, the gate for
directory markers, and one action per slot of a directory cluster. Files start a chain walk of their own,
whose errors leave the file without clusters, while an error of a directory's chain ends the
investigation. Long names are collected in the order of the slots and per cluster, and a deleted slot takes
the collected name on trust. `add_entry` drops an entry whose parent and name were seen; the
model keeps what was dropped in `discarded`. `place`, the slot an entry was read from, is a
history field: the code has no such thing.

**ExFatVolume, ExFatInvestigation** – directory records put together from the slots behind a file entry
(`Stream`, `RecordName`; a record that crosses the end of its cluster lacks the rest), then a walk like that of FAT32, without
the gate and without the duplicate filter. The flag for contiguous files is not looked at, as in the code.

**Fat32Content, ExFatContent** – what becomes of the entries: kind, status, `content_layout`, regions and paths, over
**ClusterRuns** (a chain becomes runs, a run a region) and **EntryPaths** (`resolve_path`, shared by all four).

**ExtentTrees** – `resolve_node`, its depth limit and its errors, the stable sort, and the layout with its holes; with
an independent definition of what a well-formed tree means.

**Ext4Volume, Ext4Investigation** – inodes by group, blocks with directory entries, remnants between them, bitmaps. The
walk visits inodes from the root; deleted inodes are then looked for in every table, group by group, and get the name and parent of a
remnant. The bitmap of a group is asked for the number of the inode in the volume, as in the code (`ext4_bitmaps`).

**NtfsVolume, NtfsInvestigation** – run lists byte by byte (`Signed`, `LcnAfter`, `IsRunList`), records
and attributes as parsed, the master file table read through the runs of its first record, then one action per slot:
zero, damaged, or a record whose names become entries. `ReadRuns` is the loop of `read_runs`, whole runs until there is enough.
Layouts keep sparse runs; a run whose sectors do not fit a word becomes a sparse segment, and an object whose clusters
are more than a word counts has no layout. The base of a byte and the bytes of a word are constants, so that TLC can use
small ones. Volumes whose clusters have no sectors (none of them has a byte) and counts wider than a word are left out.

### The model and its users

**Hierarchy, ForensicTree, RecoverableEntries, EvidenceNavigation** – any list of entries with ids and
parents. `ForensicTree` is the recursion of `build_node`, one call or return per step, with an explicit
stack; a stack deeper than the list is an endless recursion (`overflow`). `RecoverableEntries` is the
work-list traversal. `EvidenceNavigation` composes them over one list: the tree is built first, then a
front end lists.

**ForensicModel** – data shared by the engine's modules: optional u64 values (`None` = -1), checked
addition and multiplication with `U64Max` as a constant, regions, segments. A byte is a token: an image
byte is its own offset, a zero of a sparse run is `Zero`, inline bytes are smaller than that. So *which*
byte was delivered is visible, while its value is not.

**RecoveryPromise** – one answer per object; it is `Whole` (the right number of bytes, all of them evidence
of the entry) or has no bytes.

**RecoveryEngine** – one action per iteration of the loops of `recover_logical_layout` and of the
legacy loop over physical regions. `ReadSegment`, `SegmentError`, `ReadLegacyRegion`,
`LegacyRegionError`, `DeviceError` and the final checks (`FinishShort`, `FinishWhole`) are separate
actions. A physical or sparse segment is built whole before it is truncated, as in the code: an
unreadable tail fails the object even where truncation would have dropped it. It implements
`RecoveryPromise` with the identity on `entry` and `result`.

**RecoveryBatch** – mode `"batch"` is `recover_objects_from_result`, mode `"each"` is the loop of the
front ends around `recover_object_from_result`. Ids are looked up as the code does, first model
first. The engine is a nondeterministic answer (`EngineError`, `EngineFailed`, `WriteRecovered`), justified by
`RecoveryPromise`. What a path holds is a pair of the object and the offset it was read at, so an object read at
the wrong partition shows. File names are a base and the ids appended to it.

**RecoveryWork** – any number of sessions; `pc` is where each is in drawing a ticket, recovering and
saving. `fs::write` of the counter is two steps, `TruncateCounter` and `WriteCounter`; the check
`final_dir.exists()` and the `rename` are two steps, `BeginSave` and `RenameWork`. `Crash` may happen at
every point between; after the truncation it leaves an empty counter (`Torn`), which a later session refuses.
`held[d]` is the set of sessions whose files lie in directory `d`. The history variable `raced` remembers whether
a session was ever started while another one drew its ticket; it guards no action, and properties that need
sessions to draw one at a time say so with `~raced`. Abstraction: numbers of overlapping writers are taken to
have the same number of digits.

**TuiSession** – a turn of `run_app` is `Poll` (take the answer of the thread) followed by one key
(`NoKey` or an action of `Handle`). `Investigate` and `InvestigatorPanics` are the thread. Handlers that touch
the file system may return an error (`HandlerError`), which ends the loop. `Exit` joins the thread,
as dropping the application state does. Cursor positions that no property needs are left out; the
recovery list, its selection, its results and its stable re-sorting by status and name are kept. An object with several names
has several rows, the first of which takes the outcome.

**MC\*** – instances for TLC; **\*Proofs** – theorems.

## 3. What is checked

| Run | What it shows | Initial / distinct states |
|---|---|---|
| `inspection` | Parallel lists stay in step, no supported volume is missed, the inspection fails on damage and only then, the engine looks where the reader looked | 8,011 / 27,589 |
| `fat32` | Content, completeness, paths, failure only on damage, the promise about ids, termination | 5,184 / 74,639 |
| `exfat` | The same over directory records; whole records are taken, paths follow parents | 10,368 / 127,028 |
| `ext4` | Named inodes are listed, deleted ones get remnants of names and no others, content follows the extents, promise and termination | 1,728 / 33,336 |
| `ext4_bitmaps` | *Violated*: deleted inodes of later groups are missed | |
| `ntfs` | Every name is listed with the number of its slot in a fragmented table, damage and only damage ends the walk, layouts follow run lists | 4,204 / 12,512 |
| `navigation` | Tree and listing against independent definitions by closures, over cycles, orphans and repeated ids; both end and agree | 4,556 / 140,480 |
| `engine` | Every layout of up to two segments and every list of up to two regions is recovered exactly, and as promised | 6,561 / 15,355 |
| `batch` | Files that were reported hold the bytes of their object to the end; recovery by filter answers for every match | 6,308 / 161,490 |
| `batch_deleted` | *Violated*: ids that repeat in two partitions hide a deleted object | |
| `work` | Saved work is frozen and an empty counter has an author in every interleaving; without a race tickets grow and sessions keep apart | 2 / 154,512 |
| `tui` | Modes, recovery, answers, rows and selections fit together in every interleaving with the thread, panics included; accepted investigations are answered and quitting ends | 4 / 525,313 |

Both violated runs check a sentence of the documentation or of a comment; `PROJECT.json`
quotes it under `findings`.

**Bounds, and why they are enough.**

* `inspection`: images of one to sixteen sectors. Partitions lie inside, across the end, behind it, beyond the last
  offset (`WordMax = 16383`) or have no sectors; four MBR entries, three GPT entries with sizes at and beyond both limits; boot records
  at the limits of every parser, stale labels, larger sectors. Partitions are looked at independently of each other except
  for the first failure, so two volumes and an entry that is passed over between them are all an order can tell.
* `fat32`, `exfat`: four data clusters; tables over free, in-range, last, out-of-range and end entries, so every
  loop and every broken chain of three clusters occurs; contents with nested, cyclic, erased,
  recycled, cut-off, outward and unreadable directories.
* `ext4`: three groups of four inodes, bitmaps of eight bits with padding; roots whose extents lie in the inode, one and
  two levels below and in a loop; damage to a block, a table or a bitmap. `MaxTreeDepth = 3` is reached by the loop.
* `ntfs`: bytes of four values and words of two bytes make every limit of the run lists reachable with short lists; two records to
  a cluster, a table in up to three pieces, forwards, backwards, sparse, too short, or outside in whole or in
  part; files of more clusters than a word counts.
* `navigation`: all lists of four entries with unique ids whose last one is a file, and all of up to
  three entries with repeated ids. Cycles of length one to three, entries below a cycle and files as parents occur.
* `engine`: an image of 7 bytes, a partition that starts at byte 1, sectors of 2 bytes, a u64 of 4
  bits. Regions cross the end of the image, have no offset or no sectors, and overflow in the product, in the sum
  and in the sector count. Two parts are enough for a cut in the first, at the border and in the
  second part; three regions together hold more bytes than a u64 counts. Without a size a layout is returned in full, regions up to
  `U64Max` bytes, as in the code.
* `batch`: up to three objects with colliding names in one or two partitions; a collision of a suffixed name
  needs three. `U64Max = 4095` makes a partition offset overflow (sector 8).
* `work`: three sessions, two CLI and one TUI, since the harm of a duplicate ticket
  needs two sessions and a third to work between them. `MaxTicket = 3` makes the counter reach its limit. The two CLI
  sessions are symmetric, and no property of this run is about liveness.
* `tui`: three images, one of them not supported, one with two objects, one with an object of two names; at most two results
  (`MaxResults`): a second recovery of the same object, and re-sorting after it, occur.

`CHECK_DEADLOCK FALSE` stands where the modelled work really ends: a recovery has an answer, all sessions
have ended, the application has exited, an investigation or inspection is done.

**Fairness.** `RecoverableEntries` and the FAT32, exFAT and EXT4 investigations are single synchronous calls: a call that was
made goes on as long as it can step, which is weak fairness of its steps. In `TuiSession` the loop waits at
most 250 ms for a key and then takes its next turn (`Poll`, and `NoKey \/ Handle`; no key in particular is ever assumed to be
pressed), the thread runs on its own (`Investigate`), and joining it returns when it has ended
(`Exit`). A thread that panics never answers: `LoopEnds` excepts that case, and the investigation that then stays
pending for ever is listed as a hazard. No other specification assumes fairness.

## 4. What is proved

| Module | Theorems | Inductive argument |
|---|---|---|
| `ListProofs` | lemmas about lists | `SetInduction`: induction up to a number, got from the pigeonhole principle for finite sets, since the library's induction theorems take operators. `RecursionExists`: a function defined by recursion over a list exists and is found, so that joining (`FlattenFacts`, `JoinedFacts`) and sorting (`RanksAreTaken`, `PlacesAreTaken`) can be reasoned about; `FlattenTail` and `FlattenBound` say what joining the name entries of a record gives. |
| `InvestigationProofs` | lemmas for both walks over allocation tables | A chain that is begun and followed is a chain of the table (`WalkIsChain`). `Laid`: after n clusters the runs hold exactly the first n places of the chain, each in one run (`LayoutIsLaid`, `LayoutIsFaithful`). |
| | lemmas on paths | `resolve_path` climbs at most as far as there are entries (`ClimbExists`). In a list whose parents have smaller ids, having seen ids above changes nothing (`ClimbForgets`), so a path is that of the parent and the name (`PathFollowsParent`); where no two entries have both parent and name in common, paths tell entries apart (`PathsTellApart`). |
| `Fat32Proofs` | `InvestigationIsTyped`, `IdsAreUnique`, `WalkedOnce`, `ChainsAreOfTheTable`, `ContentIsOfTheTable`, `FailuresAreDamage`, `PromiseIsKept`, `NoFileIsHidden` | `WalkInv`: the running chain starts where it should and follows the table without repetition. `IdsInv`: all ids are below `nextId`. `QueueInv`: the queue and the registered directories have no first cluster in common, and all of them are in `visitedDirs`. `SoundInv`: on a sound table nothing out of range is ever pending. `ParentsInv`: every parent that is named or queued has been identified. For `NoFileIsHidden`: what lies behind the current slot of the directory in hand, and in every directory read before, was taken (`TakenInv`), what is left of its chain is the end of it (`PlaceInv`), a queued cluster waits or was walked (`VisitedInv`), and a long name is pending only right behind its slot (`SlotInv`). |
| `ExFatProofs` | `ExFatIsTyped`, `ExFatWalkedOnce`, `ExFatChainsAreOfTheTable`, `ExFatContentIsOfTheTable`, `ExFatFailuresAreDamage`, `ExFatKeepsPromise`, `ExFatRecordsAreTaken`, `ExFatPathsFollowParents` | As for FAT32; without a gate, `visitedDirs` alone carries `ExFatWalkedOnce`, and a sound volume must keep also its directory records inside. `ExFatRecordsAreTaken` needs besides that a whole record is read as it was written (`WholeIsRead`). |
| `Ext4Proofs` | `Ext4IsTyped`, `NamedAreListed`, `ScannedHaveTheirNames`, `Ext4KeepsPromise` | `WalkInv`: every visited readable inode is listed (`VisitedAreListed`), every name of a walked directory is listed or queued (`NamedAreQueued`), what is queued or listed has its name in a walked directory, and what is remembered of deleted names is left in one (`RememberedAreLeft`). |
| | `Ext4ContentIsOfTheExtents` | `ListedAreResolved`, and induction over the depth of the tree (`TreeIsResolved`: what is reached is closed under children) and over the list of extents (`LaidOut`: a layout ends where one of its extents does, so the next one of a sorted map without overlaps begins behind it). |
| `InspectionProofs` | `InspectionIsTyped`, `ResultsStayTogether`, `InspectionFailsOnlyOnDamage`, `EveryVolumeGetsItsModel`, `EngineFindsWhatWasRead` | `InspectionInv`: the three lists have one element for every partition behind the current one, each made where `EngineOffset` points; every place behind the current one was inspected; and the places are the starts that the table declares (`TableIsDeclared`). |
| | `ModesHaveTheirState`, `RecoveriesBelongToResults`, `AnswersBelongToRequests`, `AcceptedAreAnswered` | `SessionInv` of the TUI: the three properties together; alone none is inductive, since an answer changes mode, result and recovery in one step. |
| | `SessionIsTyped`, `ViewIsOfTheSession` | `ViewInv`. A recovery appends its results, so what older rows point at stays (`ResultsFacts`, `UpdatedFacts`); the sort is a permutation because a strict order of the places gives each a rank of its own (`PlacesAreTaken`), so no row is lost or doubled (`SortedFacts`). |
| | `ListingIsTyped`, `ListingIsSound`, `ListingHasNoRepeats`, `ListingIsComplete` | `ListInv`: everything visited or waiting lies in every closed set of ids (soundness); every child of a visited id is collected, waiting or still to be seen (completeness). |
| | `NavigationImplementsListing`, `NavigationOffersExactly` | The composition's steps are steps of the listing or stutter, so the theorems above carry over. |
| | `RecursionEnds`, `TreeIsComplete`, `OffersAreShown` | `TreeInv`. `CalledOnce`: with unique ids an entry is placed by the one call for its parent, which then goes on behind it, so running calls are for different entries and never more than there are entries (pigeonhole). `NothingPassedOver`: what hangs below a placed entry is placed or some running call has it to come. Shown directories are closed under the steps of the listing. |
| `NtfsProofs` | `NamesKeepTheirSlots`, `DamageDecides` | `WalkInv`: the table is the stream of its runs and what is listed are the names of the slots behind the current one. The sums of the counts separate the runs, so every cluster lies in exactly one (`StretchExists`, `ClusterOfRun`); the loop of `read_runs` yields the slots of the clusters in their order (`StreamIsRead`) and succeeds exactly when the table is sound (`OpenedIsSound`). |
| | `ContentIsThatOfTheRuns` | Sign extension yields the number between the signed bounds that has these bytes (`SignedIsDistance`), so a run begins where the distances up to it lead (`RunFacts`), and the segments of a layout are those stretches (`LayoutFollowsRuns`). |
| `RecoveryProofs` | `EngineIsTyped`, `EvidenceIsOwn`, `SuccessIsWhole`, `EngineKeepsPromise` | `EngineInv`: the buffer never outgrows the target size, holds only own evidence, and an answer is whole or empty. With it every step of the engine is a step of the promise or a stutter. |
| | `RecoveryIsExact` | `AssemblyInv`: the buffer is what the parts behind the running one hold (`Assembled`), cut at the size; cutting two strings together is cutting the second at what the first left (`TruncateTogether`). |
| | `BatchIsTyped`, `ReportedFilesStayIntact`, `EveryMatchIsAnswered` | `BatchInv`. `FilesInv`: a reported file has the name of its object or that name with its id, and with distinct ids and plain names no later object has either (`NamesStayApart`). `AnswersInv`: everything asked for so far that can be found is in the results. |
| | `WorkIsTyped`, `TornHasAnAuthor`, `NothingIsLost`, `SavedStaysFrozen` | `WorkInv`: a session has a ticket exactly from its write on, and files lie in directories that exist. This holds of racing sessions too. |
| | `TicketsAreUnique`, `TicketsGrow`, `DirectoriesAreNotShared`, `CheckedSavesSucceed`, `SessionsAreApart` | As long as `~raced`. `TicketInv`: one session draws at a time, the counter is ahead of all tickets. `ExclusiveInv` adds that directories hold their owner's files only and that a checked target stays free. |

The theorems hold for every value of the constants that meets the named assumptions. These say that constants have
their types and that images, volumes and inspections are such (`ImageAssumption`, `VolumeAssumption`, `Ext4Assumption`, `BatchAssumption`
and so on); `ChainAssumption` also says that the end-of-chain mark lies above every cluster
number, as it does for the numbers of FAT32 and exFAT, and `ByteAssumption` that a byte has an even number of values. The fairness of the file systems is not used by any proof.

Four refinements are proved, not only checked: `RecoveryEngine` implements `RecoveryPromise`; `Fat32Investigation`,
`ExFatInvestigation` and `Ext4Investigation` implement `InvestigationPromise`.

A layout, a path or a tree is a recursive *function* in the models, because the folds of the community modules hide their
recursion behind an operator parameter that the provers cannot instantiate. That a name entry holds at most `NameUnits`
characters, 15 of two bytes behind its first two (`exfat/directory.rs`), is part of what `Slot` says of a volume.

**Only model-checked.** Liveness (`TraversalEnds`, `InvestigationEnds`, `LoopEnds` and the second half of
`KeepsPromiseAndEnds`), which is out of the prover's reach. Every safety property of a passing run is a theorem.

## 5. What the models say of the code

Shown by a violated run:

* An object of a second partition whose id exists in the first is never recovered by filter, and the first
  one is recovered twice (`batch_deleted`).
* An EXT4 bitmap is asked for the number of an inode in the volume instead of its number in the group; from the second group on
  deleted inodes are missed (`ext4_bitmaps`).

Part of the models, met while they were written, and in some disagreement with a sentence of the repository:

* The ticket counter is monotonic (`docs/recovery.md:68`) only if no session is started while another draws. Files of two racing
  sessions may meet in one directory; even so every rename takes the files of both along, and saved work stays as it is.
* An object that is itself called `stem_<id>`, or a repeated recovery of one id, overwrites a file, against
  `docs/recovery.md:90-91`. In a fresh directory, with plain names and distinct ids, no reported file is damaged (`ReportedFilesIntact`).
* One partition that cannot be read ends the inspection of all; the comment at `inspection.rs:192` calls them independent.
* FAT32 and NTFS number the sectors of their regions in sectors of the volume, which the comments call sectors of 512 bytes
  (`fat32/boot.rs:299`); the engine multiplies by 512. `EngineFindsClusters` says exactly when it finds the bytes.
* Two deleted FAT32 files of one directory that differ in their first character only are reported as one, though
  `fat32/investigation.rs:73-76` takes repeated names for damage.
* The last data cluster of a FAT32 or exFAT volume is refused: a directory there is left out or ends the
  investigation. It is part of `InRange` and of the meaning of `Sound`.
* A stale exFAT directory record whose cluster lies outside ends the investigation of the volume.
* A run of the NTFS table is read as a whole: a table whose last run reaches beyond the image cannot be read, even where none of
  its records lies beyond (`TableIsSound`).
* All names of an NTFS record get the path of the first (`ntfs/investigation.rs:220`), and share one object id. On the
  recovery screen only the first of their rows takes the outcome (`main.rs:1292`); the others stay pending.
* A GPT entry counts as unused by the type it names; extended MBR partitions are not followed.

## 6. Hazards without a property

`PROJECT.json` gives for each hazard its line and the properties that would catch it. Those without one: whole segments that
are read before they are truncated; the name under which a FAT32 directory is walked when several slots claim
it, and the files that its duplicate filter merges; the path of a hard link on NTFS; runs beyond the last sector number, which read as
zeros. Each has a note that says why: mostly because nothing in the repository says what would be right.

## 7. State of the plan

Done: the engine and its promise; tickets and directories; batch recovery; tree and listing; the TUI session; all four file systems;
partition tables, detection and inspection; the abstract investigation and its three refinements; proofs of the safety and exactness of
the engine, of batches, work, sessions, inspections, tree and listing, of the EXT4 and NTFS investigations, and of completeness, content, paths, ids and failures of FAT32 and exFAT. Left for later:
the directory navigation of the TUI inside a model, and NTFS directory indexes once the program uses them.

## 8. Not modelled

* *Byte formats* of boot sectors, records and inodes: pure decoding. What the parsers accept and refuse is in
  `VolumeGeometry`, `PartitionTables`, `NtfsVolume` and `ExtentTrees`. Update sequence numbers, checksums and time stamps are left out.
* *NTFS directory indexes* are parsed by the program but nothing is taken from them except that they are there.
* *Sources and readers*: listing of devices, positioned reads. A read, a write or a rename that fails *is* modelled, in the
  module of its caller.
* *Progress events*, *CLI commands* and *TUI drawing*: text, layout, and argument parsing; they change no state of the core.
* *Path texts, dates, status words, hashes*: formatting. Names are opaque symbols, paths are sequences of names.
* *Memory*: allocation of large buffers, except where a size is checked before it is used.
