--------------------------- MODULE TranspileCache ---------------------------
(***************************************************************************)
(* The tier-1 cache of wasm2go-run: processes that run transpileCached at  *)
(* the same time over one cache directory.  A step is one call to the      *)
(* file system, to flock or to wasm2go, so that processes interleave       *)
(* between any two of them and may be killed there.                        *)
(*                                                                         *)
(* Directory entries and inodes are kept apart: a process holds on to the  *)
(* inode it opened or locked when another one unlinks its name.            *)
(*                                                                         *)
(* External, as the code uses them: wasm2go, which turns a WASM content c  *)
(* into one source, written c here; os.WriteFile, which truncates, then    *)
(* writes; os.RemoveAll, which lists, unlinks, then removes directories;   *)
(* flock, which belongs to the inode and goes with the process.            *)
(***************************************************************************)
EXTENDS Integers, FiniteSets, Sequences

CONSTANTS
    Proc,          \* the wasm2go-run processes
    Path,          \* the WASM files they are given
    WasmOf,        \* WasmOf[p]: the file process p is given
    Content,       \* what a WASM file may hold; also the key of that content
    NoKey,         \* the key of a file that cannot be read: ""
    EditedTo,      \* what an edit may leave a file with; NoKey: unreadable
    Nobody,        \* no process
    Inode,         \* inode numbers, reused when free
    MaxRuns,       \* bound: runs of each process, one after the other
    MaxFailures,   \* bound: failed calls of wasm2go and failed writes
    MaxEdits,      \* bound: changes to the WASM files
    MaxCrashes     \* bound: processes killed

Key  == Content \cup {NoKey}
Name == {"lock", "module", "meta"}

ASSUME ProcAssumption ==
    /\ WasmOf \in [Proc -> Path]
    /\ Nobody \notin Proc
    /\ NoKey \notin Content
    /\ EditedTo \subseteq Content \cup {NoKey}
    /\ Content \cap {"none", "fail", "partial", "meta"} = {}

ASSUME InodeAssumption == Inode \subseteq Nat \ {0}

ASSUME CacheBounds == {MaxRuns, MaxFailures, MaxEdits, MaxCrashes} \subseteq Nat

VARIABLES
    wasm,          \* what each WASM file holds, NoKey when it is unreadable
    pc,            \* where each process is in transpileCached
    key,           \* the key it computed
    out,           \* the source it has, or "none", or "fail"
    exists,        \* which entry directories exist
    link,          \* link[k][n]: the inode named n in the directory of k, or 0
    data,          \* the content of each inode
    lockfd,        \* the inode each process has open as its lock file, or 0
    fd,            \* the inode it has open for writing, or 0
    holder,        \* who holds the flock of each inode
    victims,       \* what its RemoveAll has listed and not yet unlinked
    runs, failures, edits, crashes

bounds == <<runs, failures, edits, crashes>>
files  == <<exists, link, data>>
locks  == <<lockfd, holder>>
vars   == <<wasm, pc, key, out, files, locks, fd, victims, bounds>>

Init ==
    /\ wasm \in [Path -> Content]
    /\ pc = [p \in Proc |-> "idle"]
    /\ key = [p \in Proc |-> NoKey]
    /\ out = [p \in Proc |-> "none"]
    /\ exists = [k \in Key |-> FALSE]
    /\ link = [k \in Key |-> [n \in Name |-> 0]]
    /\ data = [i \in Inode |-> "none"]
    /\ lockfd = [p \in Proc |-> 0]
    /\ fd = [p \in Proc |-> 0]
    /\ holder = [i \in Inode |-> Nobody]
    /\ victims = [p \in Proc |-> {}]
    /\ runs = [p \in Proc |-> 0]
    /\ failures = 0
    /\ edits = 0
    /\ crashes = 0

Goto(p, label) == pc' = [pc EXCEPT ![p] = label]

-----------------------------------------------------------------------------
(* The file system.  The entries lie below one directory, which is also    *)
(* the "entry" of the empty key.                                           *)

Below(k) == IF k = NoKey THEN Key ELSE {k}

MkdirAll(k) == exists' = [exists EXCEPT ![k] = TRUE, ![NoKey] = TRUE]

Linked == { link[k][n] : k \in Key, n \in Name }
Held   == { lockfd[p] : p \in Proc } \cup { fd[p] : p \in Proc }

(* The inode that O_CREATE opens: the one of that name, else a fresh one.  *)
Opens(k, n, i) ==
    IF link[k][n] # 0 THEN i = link[k][n]
    ELSE /\ i \notin Linked \cup Held
         /\ \A j \in Inode : j < i => j \in Linked \cup Held

Named(k, n, i) == link' = [link EXCEPT ![k][n] = i]

(* What a process has open is closed when it ends, and its flock with it.  *)
Closed(p) ==
    /\ lockfd' = [lockfd EXCEPT ![p] = 0]
    /\ holder' = [i \in Inode |-> IF holder[i] = p THEN Nobody ELSE holder[i]]
    /\ fd' = [fd EXCEPT ![p] = 0]

-----------------------------------------------------------------------------
(* transpileCacheKey, then the lookup that takes no lock.                  *)
Start(p) ==
    /\ pc[p] = "idle"
    /\ runs[p] < MaxRuns
    /\ runs' = [runs EXCEPT ![p] = @ + 1]
    /\ key' = [key EXCEPT ![p] = wasm[WasmOf[p]]]
    /\ out' = [out EXCEPT ![p] = "none"]
    /\ Goto(p, "meta1")
    /\ UNCHANGED <<wasm, files, locks, fd, victims, failures, edits, crashes>>

(* cacheGetTranspile reads the metadata, then the module.  The same two    *)
(* steps are taken before the lock ("1") and under it ("2").               *)

(* As "MetaValid", content with a module and no metadata.                  *)
ModuleSuffices(k) == link[k]["module"] # 0

MetaValid(k) == link[k]["meta"] # 0 /\ data[link[k]["meta"]] = "meta"

(* As "HitMeta", with the second lookup left out.                          *)
HitMetaFirstOnly(p) == pc[p] = "meta1" /\ MetaValid(key[p])

HitMeta(p) == MetaValid(key[p])

ReadMeta(p) ==
    /\ \/ /\ pc[p] = "meta1"
          /\ Goto(p, IF HitMeta(p) THEN "module1" ELSE "mkdir")
       \/ /\ pc[p] = "meta2"
          /\ Goto(p, IF HitMeta(p) THEN "module2" ELSE "transpile")
    /\ UNCHANGED <<wasm, key, out, files, locks, fd, victims, bounds>>

ReadModule(p) ==
    LET i == link[key[p]]["module"] IN
    /\ pc[p] \in {"module1", "module2"}
    /\ IF i # 0
       THEN /\ out' = [out EXCEPT ![p] = data[i]]
            /\ Goto(p, IF pc[p] = "module1" THEN "idle" ELSE "unlock")
       ELSE /\ UNCHANGED out
            /\ Goto(p, IF pc[p] = "module1" THEN "mkdir" ELSE "transpile")
    /\ UNCHANGED <<wasm, key, files, locks, fd, victims, bounds>>

(* withTranspileCachePopulateLock: the directory, the lock file, its flock.*)
EnsureDir(p) ==
    /\ pc[p] \in {"mkdir", "putdir"}
    /\ MkdirAll(key[p])
    /\ Goto(p, IF pc[p] = "mkdir" THEN "openlock" ELSE "open1")
    /\ UNCHANGED <<wasm, key, out, link, data, locks, fd, victims, bounds>>

OpenLock(p) ==
    /\ pc[p] = "openlock"
    /\ IF exists[key[p]]
       THEN \E i \in Inode :
              /\ Opens(key[p], "lock", i)
              /\ Named(key[p], "lock", i)
              /\ lockfd' = [lockfd EXCEPT ![p] = i]
              /\ Goto(p, "flock")
              /\ UNCHANGED out
       ELSE /\ out' = [out EXCEPT ![p] = "fail"]
            /\ Goto(p, "idle")
            /\ UNCHANGED <<link, lockfd>>
    /\ UNCHANGED <<wasm, key, exists, data, holder, fd, victims, bounds>>

(* As "FlockFree", with a shared lock in place of an exclusive one.        *)
FlockShared(i) == TRUE

FlockFree(i) == holder[i] = Nobody

(* As "Flock", with LOCK_NB: a process that would wait gives up.           *)
FlockOrGiveUp(p) ==
    /\ pc[p] = "flock"
    /\ IF FlockFree(lockfd[p])
       THEN /\ holder' = [holder EXCEPT ![lockfd[p]] = p]
            /\ Goto(p, "meta2")
            /\ UNCHANGED <<out, lockfd>>
       ELSE /\ lockfd' = [lockfd EXCEPT ![p] = 0]
            /\ out' = [out EXCEPT ![p] = "fail"]
            /\ Goto(p, "idle")
            /\ UNCHANGED holder
    /\ UNCHANGED <<wasm, key, files, fd, victims, bounds>>

Flock(p) ==
    /\ pc[p] = "flock"
    /\ FlockFree(lockfd[p])
    /\ holder' = [holder EXCEPT ![lockfd[p]] = p]
    /\ Goto(p, "meta2")
    /\ UNCHANGED <<wasm, key, out, files, lockfd, fd, victims, bounds>>

(* populate: wasm2go reads the file again.                                 *)
Transpile(p) ==
    /\ pc[p] = "transpile"
    /\ wasm[WasmOf[p]] # NoKey
    /\ out' = [out EXCEPT ![p] = wasm[WasmOf[p]]]
    /\ Goto(p, "putdir")
    /\ UNCHANGED <<wasm, key, files, locks, fd, victims, bounds>>

TranspileFails(p) ==
    /\ pc[p] = "transpile"
    /\ \/ wasm[WasmOf[p]] = NoKey /\ UNCHANGED failures
       \/ failures < MaxFailures /\ failures' = failures + 1
    /\ out' = [out EXCEPT ![p] = "fail"]
    /\ Goto(p, "list")
    /\ UNCHANGED <<wasm, key, files, locks, fd, victims, runs, edits, crashes>>

(* cachePutTranspile: module, then metadata, each truncated, then written. *)

(* As "PutOrder", with the metadata first.                                 *)
MetaFirst == <<"meta", "module">>

PutOrder == <<"module", "meta">>

Creating(p) == IF pc[p] = "open1" THEN PutOrder[1] ELSE PutOrder[2]

Create(p) ==
    /\ pc[p] \in {"open1", "open2"}
    /\ IF exists[key[p]]
       THEN \E i \in Inode :
              /\ Opens(key[p], Creating(p), i)
              /\ Named(key[p], Creating(p), i)
              /\ data' = [data EXCEPT ![i] = "partial"]
              /\ fd' = [fd EXCEPT ![p] = i]
              /\ Goto(p, IF pc[p] = "open1" THEN "write1" ELSE "write2")
              /\ UNCHANGED out
       ELSE /\ out' = [out EXCEPT ![p] = "fail"]
            /\ Goto(p, "list")
            /\ UNCHANGED <<link, data, fd>>
    /\ UNCHANGED <<wasm, key, exists, locks, victims, bounds>>

Writing(p) == IF pc[p] = "write1" THEN PutOrder[1] ELSE PutOrder[2]

Write(p) ==
    /\ pc[p] \in {"write1", "write2"}
    /\ data' = [data EXCEPT ![fd[p]] =
                  IF Writing(p) = "module" THEN out[p] ELSE "meta"]
    /\ fd' = [fd EXCEPT ![p] = 0]
    /\ Goto(p, IF pc[p] = "write1" THEN "open2" ELSE "unlock")
    /\ UNCHANGED <<wasm, key, out, exists, link, locks, victims, bounds>>

(* As "WriteFails", with the error of the first write not looked at.       *)
FirstWriteUnchecked(p) ==
    /\ pc[p] \in {"write1", "write2"}
    /\ failures < MaxFailures
    /\ failures' = failures + 1
    /\ fd' = [fd EXCEPT ![p] = 0]
    /\ IF pc[p] = "write1"
       THEN Goto(p, "open2") /\ UNCHANGED out
       ELSE Goto(p, "list") /\ out' = [out EXCEPT ![p] = "fail"]
    /\ UNCHANGED <<wasm, key, files, locks, victims, runs, edits, crashes>>

WriteFails(p) ==
    /\ pc[p] \in {"write1", "write2"}
    /\ failures < MaxFailures
    /\ failures' = failures + 1
    /\ fd' = [fd EXCEPT ![p] = 0]
    /\ out' = [out EXCEPT ![p] = "fail"]
    /\ Goto(p, "list")
    /\ UNCHANGED <<wasm, key, files, locks, victims, runs, edits, crashes>>

(* removeTranspileCacheEntryDir, after a failed populate: RemoveAll lists  *)
(* the tree, unlinks what it saw, removes the directories left empty.      *)
(* "RemovedTree" is the tree it is called on.                              *)
RemovedTree(p) == Below(key[p])

ListVictims(p) ==
    /\ pc[p] = "list"
    /\ victims' = [victims EXCEPT ![p] =
                     { v \in RemovedTree(p) \X Name : link[v[1]][v[2]] # 0 }]
    /\ Goto(p, "unlink")
    /\ UNCHANGED <<wasm, key, out, files, locks, fd, bounds>>

Unlink(p) ==
    /\ pc[p] = "unlink"
    /\ \E v \in victims[p] :
          /\ Named(v[1], v[2], 0)
          /\ victims' = [victims EXCEPT ![p] = @ \ {v}]
    /\ UNCHANGED <<wasm, pc, key, out, exists, data, locks, fd, bounds>>

EmptyDir(k) == \A n \in Name : link[k][n] = 0

RemovedDir(p, k) ==
    /\ k \in RemovedTree(p)
    /\ EmptyDir(k)
    /\ k = NoKey => \A c \in Content : exists[c] => EmptyDir(c)

Rmdir(p) ==
    /\ pc[p] = "unlink"
    /\ victims[p] = {}
    /\ exists' = [k \in Key |-> exists[k] /\ ~RemovedDir(p, k)]
    /\ Goto(p, "unlock")
    /\ UNCHANGED <<wasm, key, out, link, data, locks, fd, victims, bounds>>

(* As "Unlock", with the deferred unlock forgotten.                         *)
UnlockForgotten(p) ==
    /\ pc[p] = "unlock"
    /\ Goto(p, "idle")
    /\ UNCHANGED <<wasm, key, out, files, locks, fd, victims, bounds>>

(* The deferred unlock releases and closes the lock file.                  *)
Unlock(p) ==
    /\ pc[p] = "unlock"
    /\ Closed(p)
    /\ Goto(p, "idle")
    /\ UNCHANGED <<wasm, key, out, files, victims, bounds>>

-----------------------------------------------------------------------------
(* The environment: a process is killed, a WASM file is changed, taken     *)
(* away or put back.                                                       *)
Crash(p) ==
    /\ pc[p] # "idle"
    /\ crashes < MaxCrashes
    /\ crashes' = crashes + 1
    /\ Closed(p)
    /\ out' = [out EXCEPT ![p] = "fail"]
    /\ victims' = [victims EXCEPT ![p] = {}]
    /\ Goto(p, "idle")
    /\ UNCHANGED <<wasm, key, files, runs, failures, edits>>

Edit(path) ==
    /\ edits < MaxEdits
    /\ edits' = edits + 1
    /\ \E c \in EditedTo \ {wasm[path]} : wasm' = [wasm EXCEPT ![path] = c]
    /\ UNCHANGED <<pc, key, out, files, locks, fd, victims, runs, failures, crashes>>

-----------------------------------------------------------------------------
Step(p) ==
    \/ Start(p)
    \/ ReadMeta(p) \/ ReadModule(p)
    \/ EnsureDir(p) \/ OpenLock(p) \/ Flock(p)
    \/ Transpile(p) \/ TranspileFails(p)
    \/ Create(p) \/ Write(p) \/ WriteFails(p)
    \/ ListVictims(p) \/ Unlink(p) \/ Rmdir(p)
    \/ Unlock(p)

Next ==
    \/ \E p \in Proc : Step(p) \/ Crash(p)
    \/ \E path \in Path : Edit(path)

Spec == Init /\ [][Next]_vars

(* Every process that can take a step is run by its machine in the end.    *)
(* Weak fairness is enough for flock too: a waiter may be passed over only *)
(* by the finitely many runs of the others.                                *)
FairSpec == Spec /\ \A p \in Proc : WF_vars(Step(p))

-----------------------------------------------------------------------------
(* Type invariant, with what each place in transpileCached has open.       *)
Locked == { "meta2", "module2", "transpile", "putdir", "open1", "write1",
            "open2", "write2", "list", "unlink", "unlock" }

CacheTypeOK ==
    /\ wasm \in [Path -> Key]
    /\ pc \in [Proc -> Locked \cup {"idle", "meta1", "module1", "mkdir", "openlock", "flock"}]
    /\ key \in [Proc -> Key]
    /\ out \in [Proc -> Content \cup {"none", "fail", "partial"}]
    /\ exists \in [Key -> BOOLEAN]
    /\ link \in [Key -> [Name -> Inode \cup {0}]]
    /\ data \in [Inode -> Content \cup {"none", "partial", "meta"}]
    /\ lockfd \in [Proc -> Inode \cup {0}]
    /\ fd \in [Proc -> Inode \cup {0}]
    /\ holder \in [Inode -> Proc \cup {Nobody}]
    /\ \A p \in Proc : victims[p] \subseteq Key \X Name
    /\ \A p \in Proc : lockfd[p] # 0 <=> pc[p] \in Locked \cup {"flock"}
    /\ \A p \in Proc : fd[p] # 0 <=> pc[p] \in {"write1", "write2"}
    /\ \A p \in Proc : pc[p] \in Locked <=> \E i \in Inode : holder[i] = p

(* Population of one key is serialized: between the second lookup and the  *)
(* unlock there is at most one process.                                    *)
PopulationSerialized ==
    \A p, q \in Proc :
        p # q /\ pc[p] \in Locked /\ pc[q] \in Locked => key[p] # key[q]

(* What is cached is not made again: a process that transpiles or rewrites *)
(* the module holds the lock of an entry whose metadata is not valid.      *)
ValidEntryKept ==
    \A p \in Proc :
        pc[p] \in {"transpile", "putdir", "open1", "write1", "open2"}
            => ~MetaValid(key[p])

(* Metadata vouches for the module: wherever it reads as valid, the module *)
(* beside it is whole and is the source of the key's own WASM content,     *)
(* even when the writer is killed half-way and another one takes over.     *)
MetaVouchesForModule ==
    \A k \in Content :
        MetaValid(k) => link[k]["module"] # 0 /\ data[link[k]["module"]] = k

(* What a run returns, from the cache or not, is the whole source of the   *)
(* file it was given.                                                      *)
RunsReturnTheSource ==
    \A p \in Proc :
        pc[p] = "idle" => out[p] \in {"none", "fail", wasm[WasmOf[p]]}

(* A run fails only if its own process was killed: neither a neighbour nor *)
(* a crash before it makes it fail.                                        *)
FailuresAreOwn ==
    Cardinality({ p \in Proc : out[p] = "fail" }) <= crashes

(* Failures leave nothing poisoned: once every run has ended, failed or    *)
(* not, no lookup can hit on a module that is not whole, although a failed *)
(* run has removed the lock and the files of the others under their hands. *)
NothingPoisonedAtRest ==
    (\A p \in Proc : pc[p] = "idle") =>
        \A k \in Content :
            MetaValid(k) => link[k]["module"] = 0 \/ data[link[k]["module"]] = k

(* A started run ends: nobody waits on the lock for ever, however many     *)
(* processes want it, fail under it or die holding it.                     *)
RunsEnd == \A p \in Proc : pc[p] # "idle" ~> pc[p] = "idle"
=============================================================================
