----------------------------- MODULE BuildCache -----------------------------
(***************************************************************************)
(* wasm2go-run from main to the end of the guest: processes that compile   *)
(* over one tier-2 cache directory, run the binary they get, and clean up. *)
(* A step is one call to the file system, to flock, to wasm2go or to go,   *)
(* so that processes interleave and may be killed between any two.         *)
(*                                                                         *)
(* Tier 1 is what RunsReturnTheSource of TranspileCache says of it: the    *)
(* source of the file, made by the present wasm2go.  RemoveAll is one step *)
(* here, and an unlinked file is remembered only by who has it open.       *)
(* The user changes things between runs, not under one.                    *)
(***************************************************************************)
EXTENDS Integers, FiniteSets, Sequences, TLC

CONSTANTS
    Proc,          \* the wasm2go-run processes
    CacheOff,      \* those that may be run with caching disabled
    CfgOf,         \* CfgOf[p]: the mounts process p is given, in order
    Content,       \* what the WASM file may hold
    NoKey,         \* the key of an unreadable file: ""; also no content
    Nobody,        \* no process
    None, Partial, Failed, \* no file or result, an unfinished one, an error
    LockId,        \* lock-file inodes, reused when free
    Versions,      \* version numbers of wasihost.go and of the transpiler
    Changing,      \* what is changed between runs: "wasm", "host", "tool"
    MaxRuns,       \* bound: runs of each process
    MaxFailures,   \* bound: failed calls on the cache directory
    MaxBuildFailures, \* bound: failed calls of wasm2go, go or on the temp dir
    MaxChanges,    \* bound: changes between runs
    MaxCrashes     \* bound: processes killed

Mounts == { CfgOf[p] : p \in Proc }

(* canonicalConfigJSON: what goes into the key is sorted.                  *)
Canonical(cfg) == SortSeq(cfg, <)

Binary == [wasm : Content, cfg : Mounts, host : Versions, tool : Versions]
Key    == [wasm : Content, cfg : { Canonical(cfg) : cfg \in Mounts }, host : Versions]

ASSUME BuildProcAssumption ==
    /\ CacheOff \subseteq Proc
    /\ CfgOf \in [Proc -> Seq(Nat)]
    /\ Nobody \notin Proc
    /\ NoKey \notin Content
    /\ LockId \subseteq Nat \ {0}
    /\ Versions \subseteq Nat /\ 1 \in Versions
    /\ Changing \subseteq {"wasm", "host", "tool"}

(* No version, source or binary is one of the marks.                       *)
ASSUME BuildMarks ==
    /\ None # Partial /\ None # Failed /\ Partial # Failed
    /\ {None, Partial, Failed} \cap Versions = {}
    /\ {None, Partial, Failed} \cap Binary = {}
    /\ Failed \notin [wasm : Content, tool : Versions]

ASSUME BuildBounds ==
    {MaxRuns, MaxFailures, MaxBuildFailures, MaxChanges, MaxCrashes} \subseteq Nat

VARIABLES
    wasm, host, tool, \* the file, wasihost.go, and the transpiler of tier 1
    pc,            \* where each process is
    key,           \* its build key
    out,           \* the source or binary it has, or None, Failed, Partial
    tmp,           \* the temporary directories: <<p, n>> is of the nth run of p
    exists,        \* which entry directories exist
    lock,          \* lock[k]: the inode named .lock there, or 0
    bin, meta,     \* the content of the runner and the metadata there
    lockfd,        \* the lock file each process has open, or 0
    linked,        \* the file it has open for writing still has its name
    holder,        \* who holds the flock of each lock file
    runs, failures, buildFailures, changes, crashes

user   == <<wasm, host, tool>>
entry  == <<exists, lock, bin, meta>>
locks  == <<lockfd, holder>>
bounds == <<runs, failures, buildFailures, changes, crashes>>
vars   == <<user, pc, key, out, tmp, entry, locks, linked, bounds>>

Init ==
    /\ wasm \in Content
    /\ host = 1 /\ tool = 1
    /\ pc = [p \in Proc |-> "idle"]
    /\ key = [p \in Proc |-> NoKey]
    /\ out = [p \in Proc |-> None]
    /\ tmp = {}
    /\ exists = [k \in Key |-> FALSE]
    /\ lock = [k \in Key |-> 0]
    /\ bin = [k \in Key |-> None]
    /\ meta = [k \in Key |-> None]
    /\ lockfd = [p \in Proc |-> 0]
    /\ linked = [p \in Proc |-> FALSE]
    /\ holder = [i \in LockId |-> Nobody]
    /\ runs = [p \in Proc |-> 0]
    /\ failures = 0 /\ buildFailures = 0 /\ changes = 0 /\ crashes = 0

Goto(p, label) == pc' = [pc EXCEPT ![p] = label]

Gives(p, what) == out' = [out EXCEPT ![p] = what]

OwnDir(p) == <<p, runs[p]>>

Fresh == runs' = runs /\ changes' = changes /\ crashes' = crashes

CacheCallFails ==
    failures < MaxFailures /\ failures' = failures + 1 /\ UNCHANGED buildFailures /\ Fresh

OwnCallFails ==
    buildFailures < MaxBuildFailures /\ buildFailures' = buildFailures + 1
      /\ UNCHANGED failures /\ Fresh

-----------------------------------------------------------------------------
(* compile: the temporary directory and the build key.                     *)

(* As "BuildKey", with the configuration left out.                         *)
BuildKeyWithoutConfig(p) ==
    IF wasm = NoKey THEN NoKey
    ELSE [wasm |-> wasm, host |-> host,
          cfg |-> CHOOSE c \in { Canonical(cfg) : cfg \in Mounts } : TRUE]

(* buildCacheKey; without a key, or with caching disabled, tier 2 is left  *)
(* out.                                                                    *)
BuildKey(p) ==
    IF wasm = NoKey THEN NoKey
    ELSE [wasm |-> wasm, host |-> host, cfg |-> Canonical(CfgOf[p])]

Start(p) ==
    /\ pc[p] = "idle"
    /\ runs[p] < MaxRuns
    /\ runs' = [runs EXCEPT ![p] = @ + 1]
    /\ tmp' = tmp \cup {<<p, runs[p] + 1>>}
    /\ \E k \in {BuildKey(p)} \cup (IF p \in CacheOff THEN {NoKey} ELSE {}) :
          /\ key' = [key EXCEPT ![p] = k]
          /\ Goto(p, IF k = NoKey THEN "transpile" ELSE "meta1")
    /\ Gives(p, None)
    /\ UNCHANGED <<user, entry, locks, linked, failures, buildFailures, changes, crashes>>

(* cacheGetBuild reads the metadata, then the runner; before the build     *)
(* ("1") and under the lock ("2").                                         *)

(* matchesCurrent: the metadata was written beside the present host.       *)
MatchesCurrent(m) == m = host

ReadMeta(p) ==
    LET hit == MatchesCurrent(meta[key[p]]) IN
    /\ \/ /\ pc[p] = "meta1"
          /\ Goto(p, IF hit THEN "runner1" ELSE "transpile")
       \/ /\ pc[p] = "meta2"
          /\ Goto(p, IF hit THEN "runner2" ELSE "create1")
    /\ UNCHANGED <<user, key, out, tmp, entry, locks, linked, bounds>>

(* A hit is written into the temporary directory.  What the second lookup  *)
(* reads is thrown away.                                                   *)
ReadRunner(p) ==
    /\ \/ /\ pc[p] = "runner1"
          /\ IF bin[key[p]] # None
             THEN Gives(p, bin[key[p]]) /\ Goto(p, "execute")
             ELSE UNCHANGED out /\ Goto(p, "transpile")
       \/ /\ pc[p] = "runner2"
          /\ Goto(p, IF bin[key[p]] # None THEN "unlock" ELSE "create1")
          /\ UNCHANGED out
    /\ UNCHANGED <<user, key, tmp, entry, locks, linked, bounds>>

(* transpileCached, parseImports, the workspace, go mod tidy and go build. *)
Transpile(p) ==
    /\ pc[p] = "transpile"
    /\ wasm # NoKey
    /\ Gives(p, [wasm |-> wasm, tool |-> tool])
    /\ Goto(p, "build")
    /\ UNCHANGED <<user, key, tmp, entry, locks, linked, bounds>>

Build(p) ==
    /\ pc[p] = "build"
    /\ Gives(p, [wasm |-> out[p].wasm, tool |-> out[p].tool,
                 cfg |-> CfgOf[p], host |-> host])
    /\ Goto(p, IF key[p] = NoKey THEN "execute" ELSE "mkdir")
    /\ UNCHANGED <<user, key, tmp, entry, locks, linked, bounds>>

(* As "CompileFails", with success set before the error is looked at.      *)
CompileFailsUncleaned(p) ==
    /\ \/ pc[p] = "transpile" /\ wasm = NoKey /\ UNCHANGED bounds
       \/ pc[p] \in {"runner1", "transpile", "build"} /\ OwnCallFails
    /\ Gives(p, Failed)
    /\ Goto(p, "idle")
    /\ UNCHANGED <<user, key, tmp, entry, locks, linked>>

(* Any of them, or the write of a cached runner, may fail: compile removes *)
(* the temporary directory and returns the error.                          *)
CompileFails(p) ==
    /\ \/ pc[p] = "transpile" /\ wasm = NoKey /\ UNCHANGED bounds
       \/ pc[p] \in {"runner1", "transpile", "build"} /\ OwnCallFails
    /\ tmp' = tmp \ {OwnDir(p)}
    /\ Gives(p, Failed)
    /\ Goto(p, "idle")
    /\ UNCHANGED <<user, key, entry, locks, linked>>

-----------------------------------------------------------------------------
(* cachePutBuild, under withBuildCachePopulateLock.  Whatever it returns,  *)
(* compile goes on to "execute".                                           *)
EnsureDir(p) ==
    /\ pc[p] = "mkdir"
    /\ exists' = [exists EXCEPT ![key[p]] = TRUE]
    /\ Goto(p, "openlock")
    /\ UNCHANGED <<user, key, out, tmp, lock, bin, meta, locks, linked, bounds>>

InUse(i) == i \in { lock[k] : k \in Key } \cup { lockfd[p] : p \in Proc }

LockInode(k, i) ==
    IF lock[k] # 0 THEN i = lock[k]
    ELSE ~InUse(i) /\ \A j \in LockId : j < i => InUse(j)

OpenLock(p) ==
    /\ pc[p] = "openlock"
    /\ exists[key[p]]
    /\ \E i \in LockId :
          /\ LockInode(key[p], i)
          /\ lock' = [lock EXCEPT ![key[p]] = i]
          /\ lockfd' = [lockfd EXCEPT ![p] = i]
    /\ Goto(p, "flock")
    /\ UNCHANGED <<user, key, out, tmp, exists, bin, meta, holder, linked, bounds>>

(* As "GivesUp", with the error of cachePutBuild returned by compile.      *)
GivesUpTheRun(p) == Gives(p, Failed) /\ Goto(p, "idle") /\ tmp' = tmp \ {OwnDir(p)}

(* What becomes of a run whose cachePutBuild fails before it has the lock. *)
GivesUp(p) == Goto(p, "execute") /\ UNCHANGED <<out, tmp>>

(* The runner or the lock cannot be read, opened or made.                  *)
PutFailsEarly(p) ==
    /\ \/ pc[p] = "openlock" /\ ~exists[key[p]] /\ UNCHANGED bounds
       \/ pc[p] \in {"mkdir", "openlock"} /\ CacheCallFails
    /\ GivesUp(p)
    /\ UNCHANGED <<user, key, entry, locks, linked>>

(* As "FlockFree", with a shared lock in place of an exclusive one.        *)
FlockShared(i) == TRUE

FlockFree(i) == holder[i] = Nobody

Flock(p) ==
    /\ pc[p] = "flock"
    /\ FlockFree(lockfd[p])
    /\ holder' = [holder EXCEPT ![lockfd[p]] = p]
    /\ Goto(p, "meta2")
    /\ UNCHANGED <<user, key, out, tmp, entry, lockfd, linked, bounds>>

(* As "PutOrder", with the metadata first.                                 *)
MetaFirst == <<"meta", "runner">>

PutOrder == <<"runner", "meta">>

Turn(p) == IF pc[p] \in {"create1", "write1"} THEN PutOrder[1] ELSE PutOrder[2]

(* What process p leaves in the file whose turn it is.                     *)
Holds(p, runner, metadata) ==
    IF Turn(p) = "runner"
    THEN bin' = [bin EXCEPT ![key[p]] = runner] /\ UNCHANGED meta
    ELSE meta' = [meta EXCEPT ![key[p]] = metadata] /\ UNCHANGED bin

Create(p) ==
    /\ pc[p] \in {"create1", "create2"}
    /\ exists[key[p]]
    /\ Holds(p, Partial, Partial)
    /\ linked' = [linked EXCEPT ![p] = TRUE]
    /\ Goto(p, IF pc[p] = "create1" THEN "write1" ELSE "write2")
    /\ UNCHANGED <<user, key, out, tmp, exists, lock, locks, bounds>>

Write(p) ==
    /\ pc[p] \in {"write1", "write2"}
    /\ IF linked[p] THEN Holds(p, out[p], host) ELSE UNCHANGED <<bin, meta>>
    /\ linked' = [linked EXCEPT ![p] = FALSE]
    /\ Goto(p, IF pc[p] = "write1" THEN "create2" ELSE "unlock")
    /\ UNCHANGED <<user, key, out, tmp, exists, lock, locks, bounds>>

(* A write that fails, or finds the directory gone, has the whole entry    *)
(* removed, the lock file others wait for included.                        *)
PutFails(p) ==
    LET k == key[p] IN
    /\ \/ pc[p] \in {"create1", "create2"} /\ ~exists[k] /\ UNCHANGED bounds
       \/ pc[p] \in {"write1", "write2"} /\ CacheCallFails
    /\ exists' = [exists EXCEPT ![k] = FALSE]
    /\ lock' = [lock EXCEPT ![k] = 0]
    /\ bin' = [bin EXCEPT ![k] = None]
    /\ meta' = [meta EXCEPT ![k] = None]
    /\ linked' = [q \in Proc |-> linked[q] /\ key[q] # k]
    /\ Goto(p, "unlock")
    /\ UNCHANGED <<user, key, out, tmp, locks>>

Closed(p) ==
    /\ lockfd' = [lockfd EXCEPT ![p] = 0]
    /\ holder' = [i \in LockId |-> IF holder[i] = p THEN Nobody ELSE holder[i]]

(* As "Unlock", with the deferred unlock forgotten.                         *)
UnlockForgotten(p) ==
    /\ pc[p] = "unlock"
    /\ Goto(p, "execute")
    /\ UNCHANGED <<user, key, out, tmp, entry, locks, linked, bounds>>

Unlock(p) ==
    /\ pc[p] = "unlock"
    /\ Closed(p)
    /\ Goto(p, "execute")
    /\ UNCHANGED <<user, key, out, tmp, entry, linked, bounds>>

(* execute runs the binary, and removes the directory when it has ended.   *)
Execute(p) ==
    /\ pc[p] = "execute"
    /\ tmp' = tmp \ {OwnDir(p)}
    /\ Goto(p, "idle")
    /\ UNCHANGED <<user, key, out, entry, locks, linked, bounds>>

-----------------------------------------------------------------------------
(* The environment.  A killed process runs no deferred call: it loses its  *)
(* lock, and leaves its temporary directory.                               *)
Crash(p) ==
    /\ pc[p] # "idle"
    /\ crashes < MaxCrashes
    /\ crashes' = crashes + 1
    /\ Closed(p)
    /\ linked' = [linked EXCEPT ![p] = FALSE]
    /\ Gives(p, Failed)
    /\ Goto(p, "idle")
    /\ UNCHANGED <<user, key, tmp, entry, runs, failures, buildFailures, changes>>

Change ==
    /\ \A p \in Proc : pc[p] = "idle"
    /\ changes < MaxChanges
    /\ changes' = changes + 1
    /\ \E what \in Changing :
          /\ wasm' \in IF what = "wasm" THEN (Content \cup {NoKey}) \ {wasm} ELSE {wasm}
          /\ host' \in IF what = "host" THEN Versions \ {host} ELSE {host}
          /\ tool' \in IF what = "tool" THEN Versions \ {tool} ELSE {tool}
    /\ UNCHANGED <<pc, key, out, tmp, entry, locks, linked>>
    /\ UNCHANGED <<runs, failures, buildFailures, crashes>>

-----------------------------------------------------------------------------
Step(p) ==
    \/ Start(p) \/ ReadMeta(p) \/ ReadRunner(p)
    \/ Transpile(p) \/ Build(p) \/ CompileFails(p)
    \/ EnsureDir(p) \/ OpenLock(p) \/ PutFailsEarly(p) \/ Flock(p)
    \/ Create(p) \/ Write(p) \/ PutFails(p) \/ Unlock(p)
    \/ Execute(p)

Next == Change \/ \E p \in Proc : Step(p) \/ Crash(p)

Spec == Init /\ [][Next]_vars

(* Every process that can take a step is run by its machine in the end.    *)
FairSpec == Spec /\ \A p \in Proc : WF_vars(Step(p))

-----------------------------------------------------------------------------
Waiting == {"flock"}
Locked  == {"meta2", "runner2", "create1", "write1", "create2", "write2", "unlock"}

(* The temporary directories of runs that have ended.                      *)
LeftOver == { d \in tmp : pc[d[1]] = "idle" \/ d # OwnDir(d[1]) }

(* Type invariant, with what each place in a run has open, which is        *)
(* nothing once the run has ended.  Its temporary directory is there while *)
(* it lasts, and stays behind if it was killed, and only then.             *)
BuildTypeOK ==
    /\ wasm \in Content \cup {NoKey}
    /\ {host, tool} \subseteq Versions
    /\ pc \in [Proc -> Locked \cup Waiting \cup
           {"idle", "meta1", "runner1", "transpile", "build", "mkdir", "openlock", "execute"}]
    /\ key \in [Proc -> Key \cup {NoKey}]
    /\ exists \in [Key -> BOOLEAN]
    /\ lock \in [Key -> LockId \cup {0}]
    /\ lockfd \in [Proc -> LockId \cup {0}]
    /\ holder \in [LockId -> Proc \cup {Nobody}]
    /\ \A k \in Key : lock[k] # 0 \/ bin[k] # None \/ meta[k] # None => exists[k]
    /\ \A p \in Proc : pc[p] # "idle" => OwnDir(p) \in tmp
    /\ Cardinality(LeftOver) = crashes
    /\ \A p \in Proc : lockfd[p] # 0 <=> pc[p] \in Locked \cup Waiting
    /\ \A p \in Proc : linked[p] => pc[p] \in {"write1", "write2"}
    /\ \A p \in Proc : pc[p] \in Locked <=> \E i \in LockId : holder[i] = p

(* What a run executes, built or cached, is the program of the file, the   *)
(* configuration and the library as they are: of neither an earlier        *)
(* version, nor another process's mounts, nor half of it; and, built       *)
(* without the cache, of the transpiler as it is, which neither the key    *)
(* nor the metadata covers.  (A failed write that takes the others' lock   *)
(* away may break this.)                                                   *)
RunsAreCurrent ==
    failures = 0 => \A p \in Proc :
        pc[p] = "execute" =>
            /\ out[p] \in Binary
            /\ out[p].wasm = wasm /\ out[p].cfg = CfgOf[p] /\ out[p].host = host
            /\ key[p] = NoKey => out[p].tool = tool

(* Population of one key is serialized unless a population has failed, and *)
(* whoever populates it found no valid entry under the lock: what others   *)
(* read without the lock is not written again.                             *)
ValidRunnerKept ==
    failures = 0 => \A p, q \in Proc :
        pc[p] \in {"create1", "write1", "create2"} =>
            /\ meta[key[p]] # host
            /\ p # q /\ pc[q] \in Locked => key[p] # key[q]

(* The tier-2 cache is best effort: whatever fails in it, for whomever, a  *)
(* run of a readable file fails only of its own calls, or killed.          *)
CacheFailsNoRun ==
    changes = 0 =>
        Cardinality({ p \in Proc : out[p] = Failed }) <= crashes + buildFailures

(* A started run ends, whoever dies or fails while it waits for the lock.  *)
RunsEnd == \A p \in Proc : pc[p] # "idle" ~> pc[p] = "idle"
=============================================================================
