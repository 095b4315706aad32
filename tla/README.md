# A TLA+ model of Pereprava

Pereprava gives a Mac access to the files of an Android phone over MTP: as a
command-line tool, and as a volume, through an NFSv3 server on the loopback
interface. This directory holds TLA+ specifications of the parts of it that are
hard to test, the TLC configurations that check them on small instances, and
proofs, checked by TLAPS, of what matters most for instances of any size.
`PROJECT.json` lists, for every definition, the lines of the source it stands for.

    tlc -workers 2 -config wb_serial.cfg MCWriteBack.tla     # one run
    tlapm WriteBackProofs.tla                                # one proof module

## 1. The system

    CLI commands ------------------------------------------------.
    watch daemon --attach/detach--> NFS adapter --HList, HUpload, ...--> device actor --USB--> phone
    macOS NFS client --RPC/TCP--> fernfs --VFS calls-----^

| Component | State it keeps | Operations | What is hard about it |
|---|---|---|---|
| **NFS adapter** (`nfs-mount/src/adapter.rs`) | the session, the stage map, the staging directory, the attribute cache, `virt_seq`, `writable` | the NFS procedures, `attach`, `detach`, `test_session` | one worker per TCP connection, handlers interleave at each await and at each lock; MTP objects cannot be changed in place, so a COMMIT is a delete and an upload that may fail in between; handles change with the session; each procedure checks for itself whether it may write |
| **Device actor** (`core/src/actor.rs`), its requests | the MTP session, the storages, the listing cache (`cache.rs`) | list, resolve, mkdir_all, remove, rename, move_into, download, upload, and the same by handle | one request at a time, each of several calls to the phone, any of which may fail and leave the earlier ones done; decisions are taken from cached listings |
| **Device actor**, its life | a channel of 16 requests, the task, the teardown result | `call`, `close`, `force_close`, cancellation | a phone that stops answering, panics, aborts, a full channel, concurrent `close()` |
| **Watch daemon** (`cli/src/mountcmd.rs`) | attached or not, mounted or not, the NFS port as a lock, a status file | poll, connect, attach, probe, detach, mount, unmount | several daemons, killed ones, a server that ends by itself, stale mounts, a probe that times out or answers with an error |
| **fernfs** (`vendor/fernfs`) | per connection a command queue; the transaction tracker | RPC decoding, dispatch, replay of replies | retransmissions over new connections, expiry of transactions, panics |
| **Tree transfers** (`core/src/ops.rs`), **CLI** (`cli/src/commands.rs`) | none | push, pull, mkdir, rm, mv | several calls of which one fails, sources that change meanwhile, kills, the depth limit |
| **Bundles** (`cli/src/bundle.rs`) | a staging directory beside the target | pack, unpack, promote | a crash between two renames |
| **Paths, names, errors** (`core/src`) | none | parsing, comparison, classification of errors | pure functions |
| **Widget** (`crates/widget`) | none | shows the status file | user interface |

What makes each component correct:

* adapter: a COMMIT that succeeds has put the staged bytes on the phone; a
  clean stage is a faithful copy of its object; nothing is deleted but the file
  that is replaced or removed; a directory is never replaced by a file; a name
  has one object; a read-only export changes nothing. In short: the adapter is a
  store of whole files with drafts (`DurableFile`).
* actor, requests: a cached listing is what the phone has, so that a lookup
  finds what is there and a recursive remove deletes what it was asked to.
* actor, life: `close()` tells the truth, calls end, and the USB claim
  is given up even when the phone hangs.
* daemon: a phone that answers is eventually attached and its volume mounted, a
  daemon with its port clears no mount but those of the dead, a slow phone keeps
  its session.
* fernfs: a call is executed once, and answered.
* CLI: what is reported as done is done; nothing the user did not name is
  changed; a failure or a kill leaves the old files or the new, not halves.

`PROJECT.json` lists under "hazards" the places where these are at risk.

## 2. The modules

| Module | Models | Composes |
|---|---|---|
| `WriteBack` | staging and write-back of the adapter | the phone, the sessions and the NFS connections |
| `DurableFile` | what the adapter promises of files, abstractly | |
| `WriteBackDurable` | the refinement from the one to the other | `WriteBack`, `DurableFile` |
| `DeviceActor` | the actor's requests and the listing cache | the phone |
| `ActorLifecycle` | channel, calls, close | callers, closers, actor, phone |
| `PhoneCommands` | the commands that change the phone | user, local sources, phone |
| `LocalTransfers` | pull and unpack on the Mac's disk | user, file system |
| `WatchDaemon` | the watch loop | daemons, adapter session, actor's claim, mount table, user |
| `RpcTransactions` | connections, queues and the tracker of fernfs | client, sockets, workers |
| `MC...` | constants a cfg cannot write | |
| `...Proofs` | theorems, section 5 | |

Operators named `X_y` beside an operator `X` are defects someone might make in
`X`; `PROJECT.json` says which property each of them breaks.

### WriteBack: staging and write-back in the adapter

State: `staged` is the stage map (`Inner::staged`), `tmp` the staging
directory, `virtSeq` the counter of virtual ids, `sess` whether a session is
installed, `writable` the export's mode; `dev` and `lastHandle` are the phone,
reached through the actor; `conn[c]` holds the request that connection `c` is
serving, as a program counter and the locals the handler keeps across awaits.
File ids are integers: a positive one is the handle of an object (`encode_real`),
a negative one a virtual id.

One action is the code between two points where another handler can run: an
await, or the release of the stage map's lock. For instance COMMIT is
`CommitCall`, `FlushSnapshot` (the copy taken under the lock), `FlushDelete`,
`FlushUpload` and `FlushDone` (the second lock). Faults are the constant
`Faults`: a call to the phone that fails, a short read, a partial upload that
cannot be cleaned up ("partial"), a lost session ("detach"), a new session with
other handles ("renumber"), a restart of the daemon. A phone that refuses a
second object of a name is `AcceptsDuplicates = FALSE`.

Abstractions: a file is a sequence of at most `MaxSize` blocks; names are equal
when `names_eq_ci` says so; a directory is a fixed element of `Dirs`, so folders
made by MKDIR are only names that are taken; the listing a lookup reads is what
is on the phone (that it is, is the subject of DeviceActor); requests that are
refused without an effect have no action, except where a property is about the
refusal: every procedure that writes has its own check of `writable`, as in the
adapter (`stage_new` for both CREATEs, `stage_for_writes` once more for WRITE and
SETATTR). fernfs asks `capabilities()` before it calls most of them, but not before
COMMIT; that second line of defence is left out. READ, GETATTR and the attribute cache
are left out. A client uses an id it was given: that of a stage, or of an object
a lookup or a READDIR shows ("readdir").

### DurableFile and WriteBackDurable: the promise and its refinement

`DurableFile` has `object`, the whole files on the phone, and `draft`, per file
id the newest content, whether it is ahead of the phone, and which file it is of.
`Open`, `Begin` and `Edit` make and change drafts; `Publish` puts a draft on the
phone in one step; `Withdraw` and `Litter` allow what MTP forces on the layer
(the old file goes first, a failed upload may leave a piece), but only while the
draft that has the newest content is ahead; `Remove`, `Delete` and `Crash` are
the only ways a draft is forgotten. From this follow, by proof, `CopiesTrue` and
`NewestKept` (section 5).

The mapping: the content of a handle that is a file's is `object`; a stage with its
file in the staging directory is `draft`. It is not one to one. A flush that has
uploaded but not yet taken the second lock is already published (`Uploaded`
finds the new handle in the connection's locals), and a stage whose removal has
reached the phone, but which is still in the map, is already gone. `wb_serial`
checks `ImplementsDurable` with one connection, and `DurableImplemented` proves it
for any number of names, handles and files. With two connections it fails
for the reason shown by `wb_flush_race`.

### DeviceActor: the actor's requests and the listing cache

State: `obj` and `lastHandle` are the phone, a tree of objects; `listing` is
`StorageCache::listings`, a function whose domain is the set of cached
directories; `parents` is `StorageCache::parents`; `req` and `stack` are the
locals of the request being served and the frames of `delete_tree`.

One action is one call to the phone and the bookkeeping after it, up to the
next call. `Remember` is `children_of` with `store_listing`; `InvalidateHandle`
is `invalidate_handle`. Eviction takes any listing, since ages are not modelled,
and `Expire` lets any listing outlive `LIST_TTL` at any time. Several objects
may have one name; a lookup may find any of them. What the phone does with a
directory that is deleted (it goes with all in it) or moved below itself (refused)
is an assumption on the phone, and so is that at first every object lies in a
folder that is there (`PhoneTree`). Changes made on the phone itself are not
modelled: the cache shows those only after `LIST_TTL`, as its comment says.

### ActorLifecycle: channel, calls, close

State: `queue` is the bounded channel, `waiters` the senders waiting for room
in it (tokio grants places in order), `actor` and `serving` the task and its
request, `caller` and `closer` the tasks that call and that close, `finished`
the `Option` that `close()` takes, `teardown` the oneshot with the result,
`aborting` a pending `abort()`, `device` the session. `End` is what happens when
the task ends in any way: the channel is dropped, and all who wait on it get
`ActorClosed`. A cancelled call leaves a `Stale` request in the channel.

### PhoneCommands: push, mkdir, rm, mv and pack

State: `obj` is the phone, with handles that mean something only together with
their storage; `source` the local files by their length; `cmd` the command that
runs, its locals, and how the last one ended; `frames` the recursion of
`push_contents`. Each action is one call to the actor, by what it does to the
phone when it succeeds, fails, or is cut short; `Kill` ends the process between
or inside any two, `Edit` changes the source. The local tree is any finite one
(`CommandsConstants`: what an entry is below is a directory of it). Of a file's content the length is
kept, which is what is declared to the phone before it is read. `mkdir_all`
makes one level here; that it makes several, and what is cached, is in
DeviceActor. The commands hold the phone to themselves, since each process
claims the interface.

### LocalTransfers: pull and unpack

State: `dir` the destinations and their backups, each None or the files in it,
`staging` and `leaked` the staging directories, `local` and `tmp` the pulled
files and the temporary sibling, `frames` the recursion of `pull_tree`. A path
of a destination is a pair of stem and extension, because the backup is named by
`with_extension`; `Here` is a path without a file name. The directory that is
pulled is any finite tree (`TransfersConstants`). Recursive deletes and extractions
may stop at any subset of their files.

### WatchDaemon: attach, mount, probe, stop

State: per daemon its program counter, its session and the variables of `watch`
that outlive an iteration (`mounted`, `used`); shared by all: the phone,
the USB claim, who listens on a port, the mount table, who wrote the status file
last, and `lost`, the daemons whose server has ended by itself. One action is what
lies between two awaits. `Poll` is the `select!` at the head of the loop, the only
place that looks at a signal; before the handler is installed a signal is a kill.

A session is "opened" between the actor's `connect_first` and `MtpNfs::attach`,
then "live"; "dead" when the phone was unplugged under it or its actor has ended;
"reset" when the phone has ended it but is still plugged in. The phone is absent,
present, hung (it gives no answer, or a busy one) or failing (it answers with
errors, as a locked phone does). `Probe` is `test_session`: it keeps the session on
an answer, on silence, and on a busy or stale reply, and takes everything else
(`SessionReset`, `ActorClosed`, `AccessDenied`, `Mtp`) for a phone that is gone.

`ServerEnds` is `handle_forever` returning an error of `accept`: the port is free,
the error is logged, and the loop goes on. What it mounts from then on is served
by whoever answers at the port (`ServerOf`), or fails. A mount made before keeps
its connection, which is a task of its own; that such a connection breaks later is
left out. A `kill` leaves mounts behind whose server is dead, which is what
`clear_stale_mounts` is for. That probes on a hung phone fill the actor's channel
is in ActorLifecycle.

### RpcTransactions: connections, queues, the tracker

State: per connection the peer, the command queue, the call its worker executes,
the results on their way; `tracker` is the map from xid and client address to a
state, `swept` the time of the last housekeeping; `answered` and `ran` are what
the client knows and when a call was last answered, and are used by the
properties alone. Time is a tick; of times only the age is kept, up to one more
than the retention period. The client and the network are external: a client sends
a call until it is answered, over the connections it opens. A call stands for its
xid; which procedure it is, is left out, and so is a restart of the server, with
which the tracker is lost and clients' retransmissions are executed again.

## 3. The runs

| Run | Question | Result |
|---|---|---|
| `wb_serial` | one connection that writes, truncates, creates, commits and removes under ids from LOOKUP, every fault of those calls, restarts: does a clean stage always have its object, does COMMIT publish, does the layer implement `DurableFile`? | holds |
| `wb_unique` | the same on a phone that takes duplicates: can it end up with two objects of one name? | not as long as deletes, listings, object infos and the clean-up of uploads do not fail |
| `wb_rename` | do stages follow renames, onto names no staged file has; does a flush delete its own object only; are directories safe; does every procedure refuse on a read-only export? | holds |
| `wb_flush_race` | the COMMIT guarantee with two connections | **violated**: a write during the upload is marked clean |
| `da_cache` | listings, parents, eviction, recursive removal, with calls failing anywhere | holds |
| `al_close` | does `close()` tell the truth, do calls and closes end, is the claim released? | holds |
| `pc_commands` | two commands one after the other, with failures, kills and changing sources: is what is reported true, is nothing else changed? | holds |
| `lt_transfers` | pulls and unpacks with failures and kills: is a tree ever lost, is unpack all or nothing, is a pulled file whole? | holds |
| `lt_unpack_here` | the same of unpack into "." | **violated**: the destination is its own backup |
| `wd_watch` | two daemons on a port, one of which may lose its server: do those that have theirs disturb each other, does a slow phone keep its session, is a phone that stays and answers served? | holds |
| `rpc` | retransmissions within a client address: executed once, and answered? | holds |
| `rpc_reconnect` | executed once, wherever it comes from? | **violated** by a client that reconnects from another port |

The runs that expect a violation each check one statement of the repository's
own documentation or comments that the code does not keep; the findings in
`PROJECT.json` quote it.

**Bounds.** The write-back runs have two names (a collision, and a rename to a
free or a taken name), one block of two values (data that differ, and lengths 0
and 1 for truncation, short reads and partial uploads), one virtual id and three
or four handles: the objects at the start and one or two uploads, so that a file
is flushed and flushed again. One connection is the bound that makes `wb_serial`
and its like hold: with two, `wb_flush_race` is the answer. In `wb_serial` a lost
session is the failing of each call; installing one anew is in `wb_rename`
("detach"). `wb_rename` has two directories on two storages, for renames within
and across them; a move between directories of one storage is left to DeviceActor.
`da_cache` has a folder with a file in it and one handle more, paths of two
segments, and a cache of two listings for up to three directories, so that it
overflows. In `al_close` a channel of two with two callers whose cancelled
requests stay behind fills up, and two closers race.

`pc_commands` has two storages that use the same handle for different objects, a
tree with a link and a file in a folder, and two commands: the second meets what
the first, failed or killed, has left. `lt_transfers` has three
commands, two destinations with one backup name, and a remote tree with a
directory too deep and a name that is no path component. `wd_watch` has two
daemons on one port and a fallback mount point: a third would wait like the
second, and a mount that cannot be removed already leaves the one path that is
free. One server ends by itself (`MaxLost`): with both gone nobody serves, and
the properties are about those that have theirs. `rpc` has one call, two connections and two client addresses, a retention
period of two ticks (the shortest in which a call can be recorded, age and be
swept late) and at most `MaxFlight` calls and results under way per connection.

**What the passing runs leave out.** These faults or calls are left out
because with them a property fails; the hazards, and for some section 4, say how.
No property of a passing run is evidence about what its run leaves out.

* `wb_serial`: a second connection and ids from READDIR ("readdir"); with either
  `CleanMeansDurable` and `ImplementsDurable` fail. Renames are in `wb_rename`.
* `wb_unique`: the same, and failing deletes ("delete": the flush ignores the
  result), listings ("list": CREATE takes a lookup that failed for an absent name),
  object infos ("info") and clean-ups of a failed upload ("partial"): after the last
  two the new object is on the phone while the stage is dirty and remembers the old
  one, and the next COMMIT adds another. Each of the four alone leaves two objects.
* `wb_rename`: renames of a new file onto the name of a staged one ("replace"),
  ids from READDIR, failing object infos ("info": the phone has renamed, the stage
  has not), two directories on one storage (the move is done, the rename fails, and
  the stage does not know), phones that take duplicates, and new handles after a
  reconnection ("renumber").

* `da_cache`: an upload whose partial object cannot be deleted ("partial").
* `lt_transfers`: a failure of the rename that puts the old tree back ("restore"),
  to which `promote` has no answer: the old tree is then at the backup's name, and
  the error is reported.

`wd_watch` has all its faults, but its properties say of whom they speak: a daemon
that has lost its server clears the mounts of the next one and writes over its
status, so `OnlyDeadCleared` and `StatusOfServer` are about the daemons that have
theirs; and a session that is over, or a phone that answers with errors, does cost
a daemon its session in `HealthySessionKept`.

**Deadlock** is checked except where `CHECK_DEADLOCK FALSE` says so:
`pc_commands`, `lt_transfers` and `lt_unpack_here` stop after `MaxCommands` commands.

**Fairness.** ActorLifecycle: weak fairness of what the tokio runtime polls as
long as it is ready: handing out channel places, the actor's loop, an abort, a
`close()` whose result has arrived, and its timer. Nothing is assumed of callers,
of the phone (`Finish` and `DeviceClose` need a phone that answers), or of panics.
WatchDaemon: weak fairness of each daemon's next step (a daemon waiting for the
port waits without fairness: it is disabled), and strong fairness of a successful
`Connect` and `Attach`, since both are retried every poll and a phone that answers
is not refused forever. Nothing is assumed of mounts: `PhoneServed` has as its
premises what nothing in the loop makes up for: that no mount failed or was ejected while
the phone stays attached, and that no daemon without its server goes on beside this one
(TLC shows that it fails without each of the three). Its other premises are that the phone
in the end stays, answers, and does not lose its session forever. RpcTransactions: weak fairness of workers and
sockets, strong fairness of the client's sending and of replies getting through;
`Answered` has as its premise that some connection stays and that no handler panics: a panic
leaves its transaction in progress for good, and retransmissions of it are dropped.

## 4. What the findings mean

* `wb_flush_race`: `flush_stage` has no per-file lock over its awaits. The same
  gap lets a second pull of a file replace a stage that has been written to
  meanwhile. One NFS connection, which is what macOS uses by default for a mount,
  does not show it.
* `lt_unpack_here`: `with_extension` leaves a path without a file name as it is,
  so `promote` begins with the removal of the directory it is to replace, with the
  new tree in it. Both are gone when it reports the error.
* `rpc_reconnect`: the tracker's key is the xid and the peer with its port. Over
  TCP a client retransmits when its connection broke, on a new connection; unless
  it binds the same port the tracker does not know the call.

Nine more places where the code does not keep what its comments or its
documentation say have no run of their own; a small change to a run that passes
shows each, and TLC finds the violation within seconds:

| What the repository says | What happens | To reproduce |
|---|---|---|
| `docs/architecture/overview.md:86`: repeated commits "neither duplicate nor orphan copies" | READDIR shows a flushed file under its object's id; a write under that id stages it a second time, and two commits leave two objects | `wb_unique` with "readdir" in `Calls` |
| the same | the object info after an upload fails, or the piece a failed upload left cannot be deleted: the stage stays dirty with the old handle, and the next COMMIT makes a second object | `wb_unique` with "info" or "partial" in `Faults` |
| `adapter.rs:382`: an empty stage "would silently wipe the file on the next COMMIT" | CREATE takes a listing that fails for an absent name, and makes an empty stage of a file that exists | `wb_unique` with "list" in `Faults`: the COMMIT that follows leaves two objects |
| `adapter.rs:1189`: "Keep stage metadata in sync for flushed files" | a new file renamed onto the name of a staged one whose upload failed: two stages answer to one name, and the next rename changes the stage of the other | `wb_rename` with "replace" in `Calls` breaks `StageNamesAgree` |
| `adapter.rs:1146`: a rename of what is on the phone "must go through the device" | a file that is staged and not yet flushed has no handle by its id, and its rename is refused | an action property on `wb_rename`: with a session and within a storage, `RenameLookup` refuses only if `Listed` finds nothing |
| `cache.rs:14`: every mutation "invalidates the affected listing immediately" | a recursive remove that fails halfway leaves listings that show what is gone, and a retry within `LIST_TTL` fails on it | an invariant on `da_cache`: when idle, `listing[d] = Children(d)` for every directory cached |
| `mountcmd.rs:132`: "We hold the port, so nothing we can see is serving them" | the server of the daemon before ended with an error of `accept`, which frees the port; that daemon goes on, and serves its mount over the connections it has | `OnlyDeadCleared` on `wd_watch` with the mounts of `lost` |
| `error.rs:75`: "The session died but the device is still plugged in", and `error.rs:87` of the time when the watcher was told "the phone was gone" | `test_session` returns false for a session the phone has reset, and for a phone that answers with an error, and `watch` reports it as gone and detaches; the next poll connects again | `HealthySessionKept` on `wd_watch` for "dead" sessions only |
| `actor.rs:387`: "neither call can wait forever on a wedged actor" | only the wait for the result has a timeout, not the send of Shutdown into a full channel | `CloseReturnsUnlessFull` on `al_close` without its exception |

Weaknesses that contradict nothing the repository says are in the notes of the
hazards, for instance two objects after a failed delete, and a mount that is not
retried while the phone stays attached.

## 5. The proofs

From the assumptions on the constants alone (`ConstantsAssumption`,
`NoneAssumption`, `DraftAssumption`, `ActorConstants`, `PhoneTree`, `ActorNone`, `LifecycleConstants`,
`CommandsConstants`, `TransfersConstants`, `WatchConstants`, `RpcConstants`; TLC evaluates each on
every run of its module), and from what a theorem's ASSUME adds:

* **WriteBack.** `TypeCorrect`: `TypeOK` is not inductive; it is strengthened with
  `ConnTypes`, which says, for each program counter, which of the handler's locals
  are set (an id that is a handle where one is staged, a handle where one is
  deleted). One lemma per action. `ReadOnlyHolds`: the invariant `Untouched` says
  that on a read-only export nothing is staged and no request has got past the checks
  (`Refused`: it is at the lookup of an exclusive CREATE, or before the check of
  `stage_new` or `stage_for_writes`). `ReadOnlyStep` goes through the procedures: each
  that calls the phone or the stage map has a check of its own, and without the one of
  CREATE or of COMMIT the invariant is lost. `DirectoriesHold`: without renumbering,
  for any number of connections. The invariant `KeepsFiles` says that every handle
  that a stage, or a handler between its object info and its insertion, or a flush
  before its delete, remembers is that of a file or of nothing; handles are never
  reused and a file never becomes a directory. It is needed because the deleting
  step reads a handle that was checked several awaits earlier. `FlushHolds`:
  without renumbering and with one connection. The invariant `Alone` says that
  while the connection is in a flush the stage is still what the snapshot saw, and
  after the upload the new object has the staged bytes.

  `CleanHolds`, `NamesAgreeHold`, `FlushDeletesOwnHolds` and `DurableImplemented`
  hold under `OneByOne`, for any number of names, directories, ids and handles, with
  every other fault and with restarts. One invariant carries the four, `Bound`. Its
  first half, `StageInv`, is about the stages: each has its staging file and an id
  that fits (`Sound`); the object it stands for is in its directory under its name,
  except while a rename has reached the phone and not yet the map (`Placed`); if it
  is clean that object has its bytes, except while a removal has (`Copied`); two stages
  stand for different files (`Apart`); the phone has nothing beyond `lastHandle`.
  Its second half, `Knows`, says what a handler between two of its steps knows:
  what an open has read of the object, that a flush still sees the stage of its
  snapshot, which object a removal or a rename has found. `OneByOne` is: one connection, stable
  numbering, no ids from READDIR, no renames onto staged names, and, where there are
  renames at all, a phone with one object per name, directories that each lie on a
  storage of their own, and object infos that do not fail. `Bound` is what is left of the
  adapter's intent once other handlers are excluded; every conjunct of `OneByOne`
  is needed for it:

  | Without | fails |
  |---|---|
  | one connection | `CleanMeansDurable`, `ImplementsDurable` (`wb_flush_race`) |
  | "renumber" left out | all four: a handle of the old session names another object |
  | "readdir" left out | `CleanMeansDurable`, `ImplementsDurable`: a file has two ids |
  | "replace" left out | `StageNamesAgree`, and with five handles `FlushDeletesOwn`: two stages of one name |
  | renames whose object info does not fail | all four: the phone has renamed, the map has not |
  | a phone with one object per name, if renames are called | all four: the path names another object |
  | renames across storages only, or within a directory | all four: the move is done, the rename fails |

  So the theorem bounds the design: what it excludes is a list of ways in
  which the adapter does lose track, each found by TLC on a small instance.

  `DurableImplemented` is the refinement, step by step: every action of `WriteBack`
  is a step of `DurableFile` or a stutter under the mapping of section 2. It is
  split by where the handler is (`MapStaging`, `MapCommit`, `MapRemoval`,
  `MapRename`, `MapSession`), because the mapping of a draft depends on it: an
  upload publishes, although the map is only changed two steps later; a removal
  takes effect when the phone answers; a restart is `Crash`. It uses
  `DraftAssumption`, that `None` is no draft.

  `UniqueNamesHold`: on a phone that itself refuses a second object of a name, for
  every call and fault and any number of connections; on one that does not, under
  `Minded`, where it is the adapter that deletes before it uploads: `OneByOne`, no
  renames or MKDIR, no failing listing, object info, delete or clean-up of an upload,
  and no lost session; reads and uploads may fail. The invariant `Single` says that the
  objects of a stage's name are the one it stands for, or the one just uploaded.
* **DurableFile**, under `DurableConstants`. `CopiesAreTrue` and `NewestIsKept`:
  a draft that is not ahead is a copy of its file, and no step but a removal takes
  the newest content of a file. The strengthening, `Apart`, says that no two drafts
  are of one file: it is what makes it safe for one draft to take its old file
  away. That the code keeps to DurableFile is `DurableImplemented`.
* **ActorLifecycle.** `CloseIsHonest`, `ShutdownOnce`, `LifecycleTypes`, for any
  number of tasks and any capacity. The invariant ties each closer to the channel
  (a Shutdown or a place in line exists only for the one that took `finished`) and
  the result to the session.
* **DeviceActor.** `ActorTypes`, `ParentsHold` and `CacheStaysBounded`, for every
  phone and every fault, and `ListingsHold` for every fault but "partial". Two facts
  carry the invariant. `Shown`: what a cached listing shows and the phone still has
  is as shown, so no two listings show one object, and storing a listing never
  redirects a parent that another needs. `Found`: the object a rename or a move
  looked up some steps ago is still where it was found, so the listings invalidated
  are those of the directories it leaves and enters. Every change of the phone is
  put into one form (`Changed(ds)`) and every change of the cache into one of two
  (`Remember`, `Dropped(ds)`), so that the argument about listings is made once
  (`ChangeKeeps`, `RememberKeeps`) and not per request.

  `DeletedUnlistedHolds`: a delete by handle takes what is below the object with it.
  The object itself was shown by the listing that is dropped (`ParentsRight`); what was
  below it was shown by the listing of a directory that is gone as well. That is
  `SubtreeAbove`: the least set closed under "lies in" holds nothing but the object
  and what lies in a member. `RemoveStaysInsideHolds`: `delete_tree` works from
  listings that may be old, and its frames outlive many calls. The invariant
  `TreeInside` says that each directory it has gone down into, and each entry it has
  still to see to, is gone or below the outermost one (`Subtree`). A delete leaves it
  so (`DeletedBelow`), and a listing adds only what is gone or lies in a directory that
  is there; for that, `FoldersThere`: no object lies in a folder that is gone.
* **PhoneCommands**, for any phone, local files, tree of any width and depth, and
  faults: `CommandTypes`, `PushDeliversHolds` and `TreeReportHolds`; and on a phone
  that has at first and takes later no second object of a name (`OneObjectPerName`),
  `MoveArrivesHolds` and `OnlyAskedHolds`. On one that takes it both fail, as TLC shows
  with `AcceptsDuplicates`: the rename that ends a `mv` goes by path and may find the
  other object. The invariant `TypeInv` adds two parts to the types. `Knows` says what
  a command knows between two calls: that a source is open before the file it replaces
  is removed, and that the object a `mv` has moved is where it moved it. `Walks` is about
  `push_contents`: `Pending(frames)` is what the frames still lead to, `skipped` is
  the number of links no longer pending, and every file and directory that is not
  pending is on the phone, at the end of a chain of directories. It needs `Shape`, that a frame is
  below an entry already struck from the one above it, so that nothing is done twice
  or forgotten; one lemma per way the frames change (`Leaves`, `Enters`, `Returns`,
  `Starts`, `Ends`) says what becomes of `Pending`. Since the phone only grows while
  a tree is pushed, what was reached stays reached (`ReachedStays`).
* **LocalTransfers**, under `Ordinary`: no destination is the backup of another or of
  itself, and the restoring rename does not fail. `TreesSurvive`, `UnpackHolds`,
  `FilesStayWhole`, `TransferTypes`, `PullReportHolds`, for any trees, destinations
  and faults. The
  invariant `Promotion` says at each point of `promote` where the old and the new
  tree are, and `Survivors` that a tree is missing from its place only while the new
  one is in the staging directory. `PullReportHolds` is the argument of
  `TreeReportHolds` on the Mac's side: with `Pending` and `Shape` over the frames of
  `pull_tree`, the invariant `CountInv` says that the files counted as skipped are as
  many as those no longer pending that this command did not fetch (`Walks`), and
  that no file on the disk is of a later command (`Written`). It needs the phone's
  tree to be finite and closed upwards (`TransfersConstants`).
* **WatchDaemon**, for any number of daemons, ports, mount points and faults:
  `DaemonTypes`, `MountKnown`, `SessionKept`; and, when all are given one port,
  `DeadCleared` and `StatusTrue`. `Locks` says that who is past `bind_nfs` and has not
  lost its server has the port, so with one port only one is (`OneServes`). `Mounts`
  says that a mount whose server runs is known by somebody who is not about to mount
  again: the server itself, or a daemon that has lost its own. So a daemon that clears
  finds a mount served only if it is another's, which `Locks` excludes. `Sessions` keeps a session from being
  replaced while it is live. The servers that end by themselves (`lost`) are why each
  of the three has its exception.
* **RpcTransactions.** `ExecutedOnce` and `RpcTypes`, for any calls, addresses,
  connections and retention period. `Known` relates the tracker to what happened:
  an executed call has one worker and is in progress, and a reply that is not too old
  is still recorded with its age, whatever housekeeping has swept. So a call that is
  found vacant is not executed anywhere and was not answered lately.

Only model-checked: all liveness (fairness and ENABLED are out of the prover's
reach) and everything the runs that expect a violation show. Every safety property of
the other runs is a theorem, some of them under the conditions named above.

## 6. Not modelled

* READ, GETATTR and the attribute cache, READDIR's pages: they change nothing but
  the client's view, for a time. The hazard that concerns READDIR has no property.
* The encoding of file ids, XDR, the MOUNT and portmap programs and the NFS
  procedures of fernfs: encoding and decoding of messages; a call is its xid, and a
  handler is a step of WriteBack.
* Paths, names, sizes and error classification of `core`: pure functions on
  strings; the modules take what they decide (a name that is no path component, an
  error that means a lost session) as given.
* How `mount_nfs`, `umount` and `osascript` are called, the signals of the
  operating system, the tar and zstd formats, the local disk running full.
* Argument handling, output, progress, `doctor`, the benchmark, the widget, and the
  scripts, which have no state that the properties above are about.

Worth doing next: a composition of WatchDaemon with ActorLifecycle's channel, so
that the probes that time out and the `close()` that follows them meet in one model.
