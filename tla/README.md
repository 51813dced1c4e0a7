# A verification model of wasm2go-wasi-host

The repository holds two programs. **wasihost** is a WASI snapshot-preview1 host:
a `State` with one method per WASI call, which a WebAssembly module translated to
Go calls through. **wasm2go-run** is a command that translates a WASM file with
`wasm2go`, builds it with a generated `main.go` around wasihost, and runs it, over
a two-tier cache that many processes may use at once.

This directory models them in TLA+. TLC checks the models on small instances; TLAPS
proves for every value of the constants the safety properties that the passing runs check:
of the descriptor table, of file I/O (that it implements a simpler specification included),
of directory listing, of polling, of the host tree and of both caches. Liveness is left to TLC.

## 1. Inventory

| Component | State | Operations | Interacts with | What makes it correct | Hard because of |
|---|---|---|---|---|---|
| Descriptor table (`wasihost.go`, `wasihost_fd.go`, `wasihost_misc.go`, `wasihost_open.go`) | `fds`, `preopens`, `invalidated` | `path_open`, `fd_close`, `fd_renumber`, `fd_fdstat_set_rights`, `allocFD`, `storeOpenedFD`, `openDevNull` | every call that takes a descriptor | a host file has exactly one owner; slots are reused only when free; what is open can be closed | long call sequences, slot reuse, the slice `preopens` shares with `fds` |
| Rights (`wasihost_const.go`, `wasihost_open.go`) | the two masks of an entry | `pathOpenStoredRights`, `fileRightsForOpen` | table, I/O | rights never grow along a chain of opens | chains of opens, requests widened to a bundle |
| Path resolution and confinement (`wasihost_path_resolve.go`) | none of its own; mounts, stored paths | `resolvePath`, `resolveDirfdPath`, `resolveWritable`, escape checks | table, host tree | a path leads only below the mount or directory it starts from | `..`, nested mounts, symlinks, a host tree that changes |
| File I/O (`wasihost_fd.go`, `wasihost_fd_ext.go`) | `offset`, `fdFlags`, the kernel's position | `fd_read`, `fd_write`, `fd_seek`, `fd_tell`, `fd_pread`, `fd_pwrite`, `fd_allocate`, ... | table, host files | offset and kernel position agree; appends go to the end | partial and failed writes, two descriptors on one file |
| Directory listing (`Xfd_readdir`) | `readdirSnapshot`, `dirFile` | `fd_readdir` | table, host tree | each entry once, whatever the buffer | cookies, truncation, snapshots that go stale |
| Polling (`Xpoll_oneoff`) | none | `poll_oneoff` | table, clock | every subscription is answered in the end | clocks starved by writes, unsigned timeouts |
| Host tree (`wasihost_path.go`, `path_rename_*.go`) | the host's files | create, remove, link, symlink, rename | path resolution, stored paths | checks and change agree | check-then-act, stale stored paths |
| File attributes (`wasihost_filestat.go`) | none | filestat get/set | table | - | translation only |
| Owner assertion (`assertSingleOwner`) | `ownerGID` | called by most calls | goroutines | no second goroutine gets in | calls that leave it out |
| Tier-1 cache (`cache.go`, `transpile.go`) | directories, lock files, modules, metadata | `transpileCached` | processes, `flock`, `wasm2go` | one population at a time; hits are whole and right | interleavings, crashes, failures, edits |
| Tier-2 cache and compilation (`cache.go`, `compile.go`) | the same for binaries | `compile` | tier 1, `go build` | a hit is the binary of this input; the cache fails no run | keys that leave things out, failures, kills, changes |
| Execution (`main.go`, `execute.go`) | the temporary directory | `main`, `execute` | compilation, the child process | the directory goes, unless the process is killed | - |
| Command line, templates, text helpers | none | - | - | - | - |

`State` is documented as not safe for concurrent use: the calls of one guest follow
one another, and the hazards of the table are sequences of legal calls. The caches
are where processes interleave, the host's tree is shared with other processes of the
host, and the owner assertion is about goroutines that break the rule. PROJECT.json lists every hazard at its line.

## 2. Modules

| Module | Content | Code |
|---|---|---|
| `Rights` | rights as a set of names, the bundles, what `path_open` stores | `wasihost_const.go`, `fileRightsForOpen`, `pathOpenStoredRights` |
| `FdTable` | the table as a state machine, one action per call | `wasihost.go`, `Xpath_open`, `Xfd_close`, `Xfd_renumber`, `Xfd_fdstat_set_rights` |
| `MCFdTable` | its instances | |
| `FdTableProofs` | theorems about `FdTable`, with TLAPS proofs | |
| `TranspileCache` | the processes of the tier-1 cache over one directory | `transpileCached`, `withTranspileCachePopulateLock` and all they call |
| `TranspileCacheProofs` | theorems about `TranspileCache` | |
| `MCTranspileCache` | its instances | |
| `FileBytes` | the bytes of a file and what system calls make of them | (external) |
| `FilePositions` | abstract: a file, one position per descriptor, every call one step | |
| `FileIO` | the byte-oriented calls, buffer by buffer; implements `FilePositions` | `Xfd_read`, `Xfd_write`, `Xfd_seek`, `wasihost_fd_ext.go`, `Xfd_filestat_set_size` |
| `FileIOProofs` | theorems about `FileIO`, the refinement of `FilePositions` included | |
| `MCFileIO` | its instances | |
| `Readdir` | one directory descriptor, its guest and its host | `Xfd_readdir`, `wasihost_adapters.go` |
| `ReaddirProofs` | theorems about `Readdir` | |
| `MCReaddir` | its instances | |
| `PathResolve` | guest paths, mounts and what a descriptor leads to, as functions on sequences of segments | `wasihost_path_resolve.go` |
| `HostTree` | the calls that change the host's tree; over `PathResolve` | `wasihost_path.go`, `path_rename_unix.go`, parts of `Xpath_open` |
| `HostTreeProofs` | theorems about `PathResolve` and `HostTree` | |
| `MCHostTree` | its instance | |
| `BuildCache` | the processes of `wasm2go-run` over the tier-2 cache, up to the end of the guest | `compile.go`, `cache.go`, `execute.go`, `main.go` |
| `BuildCacheProofs` | theorems about `BuildCache` | |
| `MCBuildCache` | its instance | |
| `Poll` | event loops over `poll_oneoff`, and the owner assertion | `Xpoll_oneoff`, `assertSingleOwner` |
| `PollProofs` | theorems about `Poll`, with TLAPS proofs | |
| `MCPoll` | its instance | |
| `InductionFacts` | induction over numbers and recursion over an interval, for the proofs | |

### FdTable

`fds[fd]` is the slot `fd`, `nfds` the length of `s.fds`. `preopens` and `shared`
model the slice `s.preopens`: as long as `shared` holds it is a window on the array
of `s.fds`, and when `append` has to move `s.fds` (`Grow`) it keeps the old array as
it was. `SpareSlots` is the capacity `New` leaves for that (5 in the code, 1 in the
runs, so that the move happens within reach). `host` has the host files the
slots own; `root` in an entry is no field of the code but remembers the preopen its
rights come from.

Paths are abstracted to the mount they lie in. `Resolved` gives the pairs (mount a
path resolves in, mount its stored path lies in): a preopen resolves a relative path
on its own mount, while the stored path is resolved by longest prefix later, so the
two differ below a nested mount. What the host answers - directory or file, from the
host or from the overlay - is chosen by `HostAnswers` among what the flags and the
checks before the open allow. Calls that return an error change nothing and are
stuttering steps. Neither offsets (`FileIO`) nor the `DirEntriesFile` that `fd_readdir`
may put in a preopen's entry (`Readdir`) are part of this module; neither is a host file.

`PrestatFound` is what `fd_prestat_get` finds in the table; it is there for a property.

### FileIO and FilePositions

A descriptor has `entry.offset` (`offset`) and the position that the machine keeps
(`kernel`). `fd_read` and `fd_write` work on a copy of the entry (`call.at`), move the
kernel's position first (`BeginRead`, `BeginWrite`), then go through a vector of
buffers, one step each (`FillBuffer`, `StoreBuffer`), any of which may be short or
fail, and put the copy back (`Return`); positioned calls do the same without either
position. `kind` says what is behind a descriptor, since only `osFile` can be written,
truncated and used at an offset, and only files of the host (`os.File` directly, or
through `os.DirFS` and `FSFileWrap`, as in the overlay) have a `ReadDir`: `fd_readdir`
on such a regular file seeks before it fails. Between calls other processes change
the file. Rights are constant here (they are `FdTable`'s), and calls that fail before they
change anything are stuttering steps.

`FilePositions` says what this amounts to: every call is one step of a file with one
position per descriptor. `CallsAreAtomic` is the refinement: while a call is under way
the abstract file is the one before it, and the call takes effect when it returns.
`asked` and `answer` - the call as the guest made it and the bytes it moved - are
visible on both levels, so that the refinement also says that reads return the right
bytes and that a seek from the current position counts from it.

### Readdir

One descriptor of a directory. `snapshot` is `readdirSnapshot` (`<<>>` is nil); a call
with cookie 0, or without a snapshot, lists the host directory, in any order, and the
rest of the scan goes by the snapshot. The buffer is modelled by the whole dirents it
holds and where they start: a call overwrites it from the start and leaves the rest as
it was, or zero if the guest clears it (`Clears`). Sizes are those of the code: 24 bytes
and the name. `Rewinds` says whether the open directory can seek: an `os.File` can, a
directory of `embed.FS` or `fstest.MapFS` cannot and keeps its place in the listing
(`exhausted`). The guest is external: it reads as a C library does over this call
(parse, resume at the last cookie, done when the buffer was not used up), may start
over from any cookie, and gives up on an error.

### TranspileCache

A step is one call to the file system, to `flock` or to `wasm2go`. `pc` follows
`transpileCached`: `meta1`, `module1` (lookup without the lock), `mkdir`,
`openlock`, `flock`, `meta2`, `module2` (lookup under the lock), `transpile`,
`putdir`, `open1`, `write1`, `open2`, `write2` (module and metadata, in `PutOrder`),
on failure `list` and `unlink`, then `unlock`. Directory entries (`link`) and inodes (`data`,
`holder`) are separate, since a process keeps the inode it has opened or locked when
another one unlinks the name: that is how exclusion is lost after a failure.
`os.WriteFile` truncates and then writes; `os.RemoveAll` lists, unlinks what it saw,
then removes what is empty. A killed process loses its locks and leaves its files as
they are. The contents a WASM file may have stand for their own keys and for the
source `wasm2go` makes of them; the key of an unreadable file is `NoKey`, the code's
`""`, whose entry directory is the parent of all others.

### BuildCache

A step is again one call to the file system, to `flock`, to `wasm2go` or to `go`, and
`pc` follows `main`: `meta1`, `runner1` (lookup without the lock), `transpile`, `build`,
then `cachePutBuild` (`mkdir`, `openlock`, `flock`, `meta2`, `runner2`, `create1`,
`write1`, `create2`, `write2`, `unlock`), and `execute`. Tier 1 is not unfolded again: it
yields the source of the file by the present `wasm2go`, which is what
`RunsReturnTheSource` of `TranspileCache` says. `out` is what the process has in hand: a
source, a binary, or `Failed`; a binary records the file, the mounts, the library and
the transpiler it was made from, `Partial` is half of one. `Canonical` is the sorting in
`canonicalConfigJSON`, the signature and build state in the metadata are the version of
the library they are computed from. `tmp` has the temporary directories that
are there, one for each run; a process that is killed runs no deferred call and leaves its own. `os.RemoveAll` is one step here; `TranspileCache` splits it. `Change` is the user,
between runs: another file, another library, another transpiler.

### PathResolve and HostTree

A path is its sequence of segments, with `""` for a trailing slash. `ResolvePath` is
`resolvePath` (longest prefix, cleaned and as given, first of equals);
`ResolveDirfdPath` and `Escapes` are what a descriptor makes of a path and the two
lexical checks. A descriptor is a preopen, a directory that was opened, or `NoDirectory`, which
stands for all others - streams, files, numbers not in use: on these an absolute path is
resolved too, and not checked. `Writable` and `HostPath` are `resolveWritable`: the checks, on
mounts other than the root the confinement of symlinks, which without symlinks is `StaysBelow`
and is left out for single segments, and the host path, which on a root mount is that of
the host itself if the path is absolute. `path_open` differs: it confines only when it is asked
to follow symlinks, which the model leaves out, and on a root mount it tries the path of
the host first and the one below the hostRoot when a name is missing on the way (`OpenedAs`,
`CreatedAs`). `HostTree` maps each
existing host path to the identity of a file or a directory, so that two names of one
file have one identity, and a directory that was replaced has another. A call is
`validate_...`, then the change; `path_rename` goes `validate_rename`, `rename`, and, when
the kernel says that a directory is in the way, `is_empty`, `make_way`, `rename_again` as
`renamePath` does. `before` is the tree at its start, for the properties; `alone` says
whether another process has interfered, and `inside` whether its paths are ones that the code
confines: not an absolute one with `..` on what is no directory, nor one that a root mount with
another hostRoot than `/` may take for a path of the host. `open` has the directories opened, with the
guest path that is stored and the host path they had then. A file is a regular one or
a symlink that leads nowhere. Calls whose paths are refused change nothing and are
stuttering steps.

### Poll

`Prepare` is the guest: it asks for what is left of each of its timers, for files, and
perhaps (`Endless`) for a timeout of `2^Width - 1`, in any order that `MayAsk` allows. `Enter` is
`poll_oneoff` up to its `time.Sleep`, with the owner assertion at the start, `Wake` what
follows the sleep, `Handle` the guest again. `MinTimeoutOf` and `ClockDue` are the two
passes over the subscriptions, with `Signed` the conversion of an unsigned timeout.
`MaxNow` stands for every time after the last deadline. The order of the events, which
nothing depends on, is left out.

## 3. Runs

All runs say `CHECK_DEADLOCK FALSE`: the bounds (handles, slots, runs of a process)
end every behaviour, and so may the programs.

| Run | Checks | Bounds and why they are enough |
|---|---|---|
| `fd_calls` | `TypeOK`, `HandleOwnership`, `InvalidatedIsEmpty`, `ReservedSlotsNotReused`, `RightsWithinRoot`, `WriteRightBacked`, `RightsOnlyShrink` | a writable root mount with a read-only one nested in it, 2 handles, 7 slots, capacity 6: stdio, two preopens, a slot before and one after the move of the array. The constraint `OnePartVaries` explores it in two parts. In the one (`OnlyFilesVary`) rights vary, with masks that reach every branch of `StoredBase`, and stdio and preopens stay as `New` made them; in the other (`OnlySlotsVary`) files have one kind of rights, and a stdio slot, a preopen's and the dynamic ones hold descriptors, `/dev/null` and two files in any order, renumbered onto each other. The proofs leave all of it free |
| `cache_crash` | type, exclusion, `ValidEntryKept`, `MetaVouchesForModule`, `RunsReturnTheSource`, `FailuresAreOwn`, `RunsEnd` | 3 processes (a holder, a waiter, a newcomer), one file, 2 runs each, 2 kills, so that one who takes over from a killed process can be killed too |
| `cache_failures` | `NothingPoisonedAtRest`, `RunsEnd` | 2 processes and 2 files, one failing call, one file that disappears: every clean-up, the one of the empty key included, races with the other process |
| `file_calls` | `FileTypeOK`, `PositionsInStep`, `CallsAreAtomic` | two descriptors, one that can write and one of any kind; files and offsets up to 2 bytes, so that a write of two ends beyond, at or before the end of the file, hits the limit of the host, or leaves a hole; vectors with an empty buffer, one of two bytes, two of one |
| `dir_scan` | `DirTypeOK`, `EachEntryOnce`, `NothingMissed`, `SnapshotsAreWhole`, `ScansEnd` | names of 1, 1 and 6 bytes and a buffer of 51: `.` and `..` fill one to the last byte, two short entries fill one, the long one fits only behind none; `MaxSeen` is above the longest listing; the guest clears its buffer and the directory can seek |
| `build_runs` | `BuildTypeOK`, `RunsAreCurrent`, `ValidRunnerKept`, `CacheFailsNoRun`, `RunsEnd` | 3 processes, 1 run each, two with the same mounts and one with others, which may be run without the cache; at most one failure in the cache, one outside, one change and one kill, which leaves a temporary directory: each alone already meets a holder of the lock, one who waits and one who arrives |
| `tree_calls` | `HostTypeOK`, `DirfdLeadsBelowItself`, `CallsDoWhatTheySay`, `FailedCallsChangeNothing`, `ChangesStayBelow`, `RenameKeepsWhatItMoves` | a writable mount and a read-only one beside it; two names, depth 3, six names in the tree, two files and two new directories: enough for a directory with something in it, one in the way, and two names of one file; one open directory, both preopens and what is no directory, each with relative and absolute paths, two of which leave the mount they begin in; two changes by other processes (a call has at most five steps, and two changes replace one thing by another between two of them) |
| `poll_timers` | `PollTypeOK`, `SomethingAnswered`, `NoTimerEarly`, `OneOwner`, `TimersFire` | two goroutines, one with two timers, a file that is ready or not in the table, and a timeout that is read as negative, in any place among the timers; the timers in one order, since they may have any deadlines, and files last, since they have a pass of their own (`FirstTimerFirst`; the theorems are about every order); timeouts of 3 bits, deadlines up to 2, so that timers are equal, apart or over |

`RunsAreCurrent` and `ValidRunnerKept` are about runs in which no write to the cache
fails, since one failure loses the exclusion (below); the other properties of
`build_runs` are not. `RunsAreCurrent` asks for the present transpiler only of what is
built without the cache. `FailedCallsChangeNothing` and `RenameKeepsWhatItMoves` leave
out a directory renamed onto itself, `ChangesStayBelow` and `DirfdLeadsBelowItself` the paths
that are not confined, and the instance of `tree_calls` has no mount nested in another and none
at `/`: all are divergences (below), and `tree_escape` shows one of them. `SomethingAnswered`
and `TimersFire` leave out polls whose last clock is read as negative (`EndsForEver`), which
the instance reaches and which is a divergence, too. `PositionsInStep` and the refinement leave out
descriptors in `listed`, on which `fd_readdir` was tried and which were not used since.
`dir_scan` holds because its guest clears the buffer and its directory can seek. Two more
conditions: every entry fits an empty buffer (otherwise 0 bytes are reported, which a
guest takes for the end; a test fixes that), and other processes leave a regular file
alone during a call (APPEND seeks, then writes).

Each of the following runs violates one statement of a comment or of the docs; the
findings in PROJECT.json quote it.

| Run | Property | What TLC shows |
|---|---|---|
| `fd_prestat` | `PrestatOnlyPreopensInUse` | a file renumbered onto slot 3 is reported as a preopen (and so is a preopen closed once the table has moved) |
| `cache_exclusion` | `PopulationSerialized` | a failed population removes the lock file, and two processes populate one key |
| `dir_stale` | `EachEntryOnce` | a guest that does not clear its buffer finds an old dirent in the part that is claimed and not written, returns it again, and resumes from its cookie |
| `tree_escape` | `ConfinedToMounts` | the instance of `tree_calls`: `/m/../b`, opened on what is no directory, makes a file beside the host directory of the mount |

Exclusion is thus a property of the caches as long as no population fails
(`cache_crash`: kills do not break it), and is lost by one failure.

**Other divergences**, met while modelling and without a run of their own:

- `/dev/null` opened in a slot that `fd_renumber` emptied keeps its mark and cannot be
  closed (`wasihost_open.go:15` does not clear it; `FdTable` models it).
- `fd_readdir` on a regular file moves the kernel's position to 0 and then fails, and
  SEEK_CUR counts from there (`wasihost_fd.go:358`; `FileIO` models it, in `listed`).
- A directory of an embedded file system cannot seek, and its second listing has `.` and
  `..` only (`wasihost_fd.go:359`; `Readdir` models it when `Rewinds` is FALSE).
- A directory opened at the guest root has the prefix `//`, and every path below it is
  refused (`wasihost_path_resolve.go:191`; in `Escapes`).
- A descriptor resolves by its stored guest path, so that below a mount nested in
  another it may lead into the nested one, where the preopen itself does not.
- An empty directory renamed onto itself is taken for one in the way and removed, and
  the call fails (`path_rename_unix.go:21`).
- The flags of a clock subscription are not read: an absolute timeout is slept for.
- A poll timeout of 2^63 or more is negative after the conversion. Behind a timer it becomes
  the minimum: the poll sleeps for a clock behind it, or returns at once without a clock
  event, and the timer starves, although `wasihost_misc.go:221` says that the shortest
  timeout is slept for (`wasihost_misc.go:294-297`; in `MinTimeoutOf`).
- On a root mount whose hostRoot is not `/`, such as `WithHostDirectoryPreopen("/", "./host-data")`
  of `README.md:54`, an absolute path is taken for one of the host: the calls that change
  something work on `/a` and not on `./host-data/a`, and `path_open` tries `/a` first
  (`wasihost_path_resolve.go:101-116`, `424-426`; in `HostPath`, `OpenedAs`, `CreatedAs`).
  `confinement_test.go:11-14` and `ARCHITECTURE.md:86` say that paths are confined.
- `fd_write` goes by the slot's number for 1 and 2, so that what is renumbered onto them is
  not written to (`wasihost_fd.go:144`).
- `fd_pread`, `fd_pwrite`, `fd_tell`, `fd_prestat_get`, all of `wasihost_path.go` and
  others do not run the owner assertion, although `wasihost.go:217-219` says that any call panics.
- The tier-2 key sorts mounts and environment, whose order matters to the program that
  is built; neither its key nor its metadata cover the transpiler, or library files other than `wasihost.go`; metadata
  without a signature is accepted.
- Tier 1 tells transpilers apart by `cacheKeyVersion`, the version of the post-processing; of
  `wasm2go` it has the constant `dev` (`cache.go:41`, `48-50`), so that another `wasm2go` alone
  is not noticed. A change of `tool` in `BuildCache` is one that tier 1 notices.
- What is edited during a run is cached under the key of its old bytes
  (`transpile.go:50`, `compile.go:86`).
- An unreadable file has the empty key, whose failed population removes all entries of
  tier 1.
- `fd_filestat_set_times` goes by the name of the open file, which may have been given
  to another (`wasihost_filestat.go:245`).

**Fairness.** `FdTable` has none: its properties are safety. `FairSpec` of
`TranspileCache` asks weak fairness of each process (not of kills, edits): its machine
schedules it. `TranspileFails` and `WriteFails` are alternatives within a process's
step, so nothing obliges a call to fail or to succeed. For `flock` weak fairness is
enough because a waiter can be passed over only by the finitely many runs of the
others. `FairSpec` of `Readdir` asks that the guest, a running program, takes its next
step; nothing is asked of the host. `FairSpec` of `BuildCache` is as that of
`TranspileCache`: weak fairness of each process, none of kills, changes or failures.
`Spec` of `Poll` asks that the clock goes on and that a goroutine that can take a step
does in the end; a guest need not arm timers. `FileIO` and `HostTree` have none.

## 4. Proofs

`FdTableProofs` proves, for every value of the constants that the named assumptions
of `FdTable` allow (any mounts, handles, flags, masks and table bound):

| Theorem | Property | Argument |
|---|---|---|
| `TypeCorrect` | `TypeOK` | inductive; one step per action, one conjunct each |
| `OwnershipHolds` | `HandleOwnership` | inductive with `TypeOK`; the third conjunct needs the witness slot of `fd_renumber` and `path_open` |
| `InvalidatedHolds` | `InvalidatedIsEmpty` | inductive with `TypeOK`; uses that a free slot is the one `AllocFd` hands out |
| `RightsHold` | `RightsWithinRoot` | inductive with `TypeOK`; lemma `StoredBaseBounded` bounds what `path_open` stores by the parent's two masks |
| `BackedHolds` | `WriteRightBacked` | inductive with `TypeOK` and `HandleOwnership` (a renumbered or closed slot must not change the host file of another); lemma `StoredWriteWasRequested`: a stored FD_WRITE was asked for |
| `ShrinkHolds` | `RightsOnlyShrink` | an action property, from `HandleOwnership`: a file has one slot, so the slot it moves to is the only other one to look at |
| `ReservedHolds` | `ReservedSlotsNotReused` | an action property, from `TypeOK` and `InvalidatedIsEmpty` |

`TypeOK` gives the function and record shapes; it says of `Seq(STRING)` paths only
what `GuestPathAssumption` says. TLC checks each property on an instance first.

So do the other modules of proofs: each theorem is about every value of the constants that
the named assumptions of its module allow. Where a property holds only under a condition,
the theorem says so in its statement, and the instance of the run meets that condition.

**Induction over data.** What a recursive function computes follows from the well-foundedness
of `<` on the naturals: a set of numbers that is not empty has a least one (`WFMin` of the
library, used as `NatMin`). `InductionFacts` derives from it an induction principle over sets
(`UpToInduction`) and that a function with a recursive definition over an interval exists
(`Recursion`). The proofs about cleaned paths, offsets of dirents, sums of buffers,
`FlattenSeq` and the minimum of the timeouts rest on these two.

**`FileIOProofs`**

| Theorem | Property | Argument |
|---|---|---|
| `PositionsHold` | `PositionsInStep` | between calls two positions agree, but during a `fd_read` or `fd_write` the kernel's moves with every buffer while `entry.offset` is written at the return. So the invariant compares the kernel's with the copy in the call for its descriptor, and with `entry.offset` for the others (`InStep`); it adds that the call's descriptor is not one that `fd_readdir` has moved |
| `TypeCorrect` | `FileTypeOK` | inductive with the shape of the call under way (`CallTyped`); needs what `Slice`, `Overwrite`, `Sum` and `FlattenSeq` return |
| `CallsAreAtomicHolds` | `CallsAreAtomic` | the refinement, step by step: every step of `FileIO` is one of `FilePositions` or leaves its variables alone. The invariant `Underway` says where a call is: its offset is the one it began at plus what it has moved; what was read is that slice of the file as it was, and what was written is a first part of the data, laid over the file as it was |

The attempt showed that `FilePositions` did not say what it meant: the cases of `Seek` were
not exclusive, so that for a descriptor in `listed` the promise about a seek from the start
or the end depended on which case TLC took first. It now promises one thing per origin.

**`ReaddirProofs`**

| Theorem | Property | Argument |
|---|---|---|
| `TypeCorrect` | `DirTypeOK` | the offsets of the dirents of a call grow strictly (by recursion), so that those written in whole end within the buffer |
| `SnapshotsWholeHolds` | `SnapshotsAreWhole` | for a directory that can seek (`Rewinds`) |
| `EachEntryOnceHolds` | `EachEntryOnce` | for a guest that clears its buffer (`Clears`): what it has seen is the part of the snapshot from its first cookie on (`Progress`), and while it parses the buffer is exactly what one call from some cookie writes, of which it has taken the first few (`Parsing`, `Taken`) |
| `NothingMissedHolds` | `NothingMissed` | in addition for a buffer that has room for each entry (`Roomy`) and a scan that remembers a whole listing (`Remembers`, a bound of the model): a call that used less than the buffer had written all there was |

Each of `Clears`, `Rewinds` and `Roomy` is needed: without it the property fails, by
`dir_stale` and the divergences above.

**`PollProofs`**

| Theorem | Property | Argument |
|---|---|---|
| `OneOwnerHolds` | `OneOwner` | a goroutine whose poll sleeps or has returned, or that has seen a timer fire, is the owner, and the owner never changes once there is one |
| `NoTimerEarlyHolds` | `NoTimerEarly` | three bounds make it inductive: a timeout covers what is left of its timer when it is asked for and ever after (`AsksEnough`), a sleep covers the deadline of each clock that will be reported after it (`SleepsEnough`), what is reported is due (`ReportsInTime`) |
| `TypeCorrect` | `PollTypeOK` | a guest asks for one timer at least, and only for timers, with a timeout that is not negative (`Waits`); then the minimum that the code finds, if it is not negative, is the timeout of one of its timers, so that there is a timer to sleep for, and it is negative only if the last clock is (`MinIsAsked`, by induction over the subscriptions) |
| `SomethingAnsweredHolds` | `SomethingAnswered` | by the same minimum, unless the last clock is read as negative: the clock it comes from is due when no file was answered |

Where the timeout of 2^63 or more stands last the poll may answer nothing, which is one of the
divergences above; the theorem leaves out just that. `PowersOfTwo` is all that is used of exponentiation; TLC checks it too.

**`TranspileCacheProofs`**

| Theorem | Property | Holds | Argument |
|---|---|---|---|
| `TypeCorrect` | `CacheTypeOK` | always | with the discipline of inodes (`Files`): a lock is held by who has that file open and is past the wait, no inode has two names, none is open under a name that is not its own, although inodes are used again |
| `PopulationSerializedHolds`, `ValidEntryKeptHolds` | `PopulationSerialized`, `ValidEntryKept` | until a call fails or a file is taken away (`Clean`) | nothing is removed, so the lock file a process has open is the one its key names now (`LockNamed`); two holders of one key would hold one inode |
| `MetaVouchesHolds`, `RunsReturnHolds` | `MetaVouchesForModule`, `RunsReturnTheSource` | until a call fails or a file is edited (`Undisturbed`) | metadata is written behind the whole module, by the one process that populates, and is found before the module is read (`ModuleWritten`, `HitStays`) |
| `FailuresAreOwnHolds` | `FailuresAreOwn` | as before | the set of failed processes is finite and no larger than the number of kills |
| `NothingPoisonedHolds` | `NothingPoisonedAtRest` | until a process is killed, if files are taken away but not edited (`KilledNone`) | a module that is not whole has somebody responsible for it, who is writing it or about to remove it (`NoneAbandoned`) |

In the first group kills are free to happen at any step; in the last, failures.

**`BuildCacheProofs`**

| Theorem | Property | Argument |
|---|---|---|
| `TypeCorrect` | `BuildTypeOK` | with what a run has open and in the temporary directory at each place (`Runs`); the temporary directories of runs that have ended are a finite set that grows by one with each kill (`TempDirs`); what a run has in hand is made from what it found at its start (`Keyed`, `Built`) |
| `ValidRunnerKeptHolds` | `ValidRunnerKept` | the argument of tier 1: as long as nothing failed, nothing is removed, and the lock has one holder (`LockNamed`, `Excluded`) |
| `RunsAreCurrentHolds` | `RunsAreCurrent` | with what valid metadata says of the runner beside it (`MetaVouches`), for mounts that the key tells apart (`SortingLosesNothing`: the key sorts them, see the divergences) |
| `CacheFailsNoRunHolds` | `CacheFailsNoRun` | unconditional: every run that fails is counted by a kill or a failure of its own |

**`HostTreeProofs`**

| Theorem | Property | Argument |
|---|---|---|
| `TypeCorrect` | `HostTypeOK` | every operation keeps a tree a tree (`IsTree`): each path lies in a directory, and a directory has one path. Moving a subtree is the case with work in it: the moved paths and the old ones are in bijection |
| `ChangesStayBelowHolds` | `ChangesStayBelow` | a call that got through the checks works on paths below the host path of a writable mount (`Confined`), unless one of them is among those that are not confined (`inside`), and its steps change nothing else. For a path with `..` this rests on the escape check of what it is resolved on: a path that does not stray is cleaned the same behind any other |
| `DirfdLeadsBelowItselfHolds` | `DirfdLeadsBelowItself` | an open directory, however its path was found on a root mount, lies at the same place below the host path of its mount as below its guest path (`OpenedBelow`), and a relative path whose clean form does not begin with `..` is cleaned the same behind any path (`CleanJoins`) |
| `RenameKeepsWhatItMovesHolds` | `RenameKeepsWhatItMoves` | at each step of `path_rename`, whatever tree it meets, everything below the old path stays, or is found at its place below the new one. When the directory in the way is removed nothing of what moves may lie in it: the old path was found empty while the new one existed, so that the new one is not below it (`Apart`) |
| `CallsDoWhatTheySayHolds`, `FailedCallsChangeNothingHolds` | `CallsDoWhatTheySay`, `FailedCallsChangeNothing` | the invariant `Undisturbed` relates each place of an undisturbed call to the tree before it; between the two attempts of `path_rename` it is that tree without the empty directory in the way, and then the second attempt succeeds |

`DirfdLeadsBelowItselfHolds` is about configurations with `MountsApart`, no mount within another,
which the divergence about nested mounts is about. Both it and `ChangesStayBelowHolds` are about
paths that the code confines, and say so in the property (`inside`); that the others may lead
elsewhere is what `tree_escape` shows, and the divergence about root mounts. Root mounts are covered, with any hostRoot:
for relative paths on one, and for all paths if its hostRoot is `/`.
The assumptions are that mounts' paths consist of names, as `filepath.Abs` and `path.Clean`
leave them, and that the host's tree is at first finite and closed under parents.

Only model-checked: `RunsEnd` of both caches, `ScansEnd` and `TimersFire`, which are
liveness properties under fairness and out of the prover's reach, as ENABLED is. The
properties that a run shows violated are not theorems, of course; the conditions under
which they hold are, of two of them (`PopulationSerializedHolds`, `EachEntryOnceHolds`) and, by
`ChangesStayBelowHolds`, of `ConfinedToMounts`.


## 5. What is not modelled, and the plan

Not modelled, for good: flag parsing and templates but for what the mounts decide, and
interface deduplication (text, whose lines have no small abstraction that keeps what is
done to them); file attributes, arguments, environment, clocks, random numbers, signals
and sockets (stateless translation of what the host answers).

Not modelled of the parts that are: symlinks that lead somewhere, `path_readlink`, and
with them the confinement by `EvalSymlinks`, but for what it does where there are none; overlay files in `HostTree`; the lookup flags
of `path_open`; edits during a run of `BuildCache`; Windows' `renamePath`. A run of `HostTree` that passes
with a root mount among its mounts has more states than can be checked in a few minutes; the
theorems cover it.

The plan from here:

1. Symlinks that lead somewhere in `HostTree`, as a third kind of identity, with the
   evaluation in `wasihost_path_resolve.go` and its race with other processes.
2. An abstract table of descriptors, each with its file and rights and nothing else,
   which `FdTable` implements.
3. Theorems about what the model gains by 1 and 2, and what the proofs of section 4 leave
   open: `CleanRelative` and the escape checks with symlinks, and nested mounts, for which
   `DirfdLeadsBelowItself` does not hold and something weaker would have to be said.
