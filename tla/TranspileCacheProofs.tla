------------------------ MODULE TranspileCacheProofs ------------------------
(* Theorems of TranspileCache, for any number of processes, files and      *)
(* contents, and any number of runs, failures, edits and kills.            *)
EXTENDS TranspileCache, TLAPS, FiniteSetTheorems

-----------------------------------------------------------------------------
(* What holds whatever fails.                                              *)

Place == Locked \cup {"idle", "meta1", "module1", "mkdir", "openlock", "flock"}

Shape ==
    /\ wasm \in [Path -> Key]
    /\ pc \in [Proc -> Place]
    /\ key \in [Proc -> Key]
    /\ out \in [Proc -> Content \cup {"none", "fail", "partial"}]
    /\ exists \in [Key -> BOOLEAN]
    /\ link \in [Key -> [Name -> Inode \cup {0}]]
    /\ data \in [Inode -> Content \cup {"none", "partial", "meta"}]
    /\ lockfd \in [Proc -> Inode \cup {0}]
    /\ fd \in [Proc -> Inode \cup {0}]
    /\ holder \in [Inode -> Proc \cup {Nobody}]
    /\ victims \in [Proc -> SUBSET (Key \X Name)]
    /\ failures \in Nat /\ edits \in Nat /\ crashes \in Nat

(* What each place in transpileCached has open.                            *)
OpenFiles ==
    /\ \A p \in Proc : lockfd[p] # 0 <=> pc[p] \in Locked \cup {"flock"}
    /\ \A p \in Proc : fd[p] # 0 <=> pc[p] \in {"write1", "write2"}

(* A flock is held by who has that file open and is past the wait for it.  *)
LocksHeld ==
    /\ \A p \in Proc : pc[p] \in Locked => holder[lockfd[p]] = p
    /\ \A p \in Proc, i \in Inode :
          holder[i] = p => pc[p] \in Locked /\ lockfd[p] = i

(* No inode has two names, or is open under a name that is not its own,    *)
(* although inodes are reused: unlinked and closed they have no name.      *)
OneName ==
    \A k, l \in Key, n, m \in Name :
        link[k][n] # 0 /\ link[k][n] = link[l][m] => k = l /\ n = m

OpenByName ==
    /\ \A p \in Proc, k \in Key, n \in Name :
          fd[p] # 0 /\ link[k][n] = fd[p] => k = key[p] /\ n = Writing(p)
    /\ \A p \in Proc, k \in Key, n \in Name :
          lockfd[p] # 0 /\ link[k][n] = lockfd[p] => k = key[p] /\ n = "lock"

OpenTogether ==
    /\ \A p, q \in Proc : fd[p] # 0 => fd[p] # lockfd[q]
    /\ \A p, q \in Proc :
          fd[p] # 0 /\ fd[p] = fd[q] => key[p] = key[q] /\ Writing(p) = Writing(q)
    /\ \A p, q \in Proc :
          lockfd[p] # 0 /\ lockfd[p] = lockfd[q] => key[p] = key[q]

(* Modules hold sources or parts of them, metadata is metadata or part.    *)
Populating == {"putdir", "open1", "write1", "open2", "write2"}

Contents ==
    /\ \A k \in Key : link[k]["module"] # 0 =>
          data[link[k]["module"]] \in Content \cup {"partial"}
    /\ \A k \in Key : link[k]["meta"] # 0 =>
          data[link[k]["meta"]] \in {"partial", "meta"}
    /\ \A p \in Proc : pc[p] \in Populating => out[p] \in Content

Files == Shape /\ OpenFiles /\ LocksHeld /\ OneName /\ OpenByName /\ OpenTogether /\ Contents

-----------------------------------------------------------------------------
(* What holds until a population fails.                                    *)

(* No call has failed, and no file has been taken away.                    *)
Clean == failures = 0 /\ (edits = 0 \/ NoKey \notin EditedTo)

(* Nothing is removed, so that whoever has the lock file of an entry open  *)
(* has the one that later processes find under its name.                   *)
NothingRemoved ==
    /\ \A path \in Path : wasm[path] # NoKey
    /\ \A p \in Proc : pc[p] \notin {"list", "unlink"}
    /\ \A p \in Proc : pc[p] # "idle" => key[p] # NoKey

LockNamed ==
    /\ \A p \in Proc : pc[p] \in Locked \cup {"flock"} => link[key[p]]["lock"] = lockfd[p]
    /\ \A p \in Proc : pc[p] \in Locked \cup {"flock", "openlock"} => exists[key[p]]

FdNamed ==
    /\ \A p \in Proc : pc[p] = "write1" => link[key[p]]["module"] = fd[p]
    /\ \A p \in Proc : pc[p] = "write2" => link[key[p]]["meta"] = fd[p]

HitStays ==
    \A p \in Proc : pc[p] \in {"module1", "module2"} => MetaValid(key[p])

ModuleBeside ==
    /\ \A k \in Key : MetaValid(k) => link[k]["module"] # 0
    /\ \A p \in Proc : pc[p] \in {"open2", "write2"} => link[key[p]]["module"] # 0

CleanInv ==
    Clean => /\ NothingRemoved /\ LockNamed /\ FdNamed
             /\ ValidEntryKept /\ HitStays /\ ModuleBeside

-----------------------------------------------------------------------------
(* What holds until a population fails or a file is edited.                *)
Undisturbed == failures = 0 /\ edits = 0

KeysCurrent ==
    \A p \in Proc : pc[p] # "idle" => key[p] = wasm[WasmOf[p]]

OutCurrent ==
    \A p \in Proc : pc[p] \in Populating \cup {"unlock"} => out[p] = key[p]

ModuleWritten ==
    \A p \in Proc : pc[p] \in {"open2", "write2"} =>
        link[key[p]]["module"] # 0 /\ data[link[key[p]]["module"]] = key[p]

Failed == { p \in Proc : out[p] = "fail" }

FailedCounted == IsFiniteSet(Failed) /\ Cardinality(Failed) <= crashes

UndisturbedInv ==
    Undisturbed =>
        /\ KeysCurrent /\ OutCurrent /\ ModuleWritten
        /\ MetaVouchesForModule /\ RunsReturnTheSource /\ FailedCounted

-----------------------------------------------------------------------------
(* What holds, whatever fails, until a process is killed, of files that    *)
(* are taken away but not edited.                                          *)
KeysKept ==
    \A p \in Proc :
        /\ pc[p] # "idle" => wasm[WasmOf[p]] \in {key[p], NoKey}
        /\ pc[p] \in Populating => out[p] = key[p]

(* Who will write module i of entry k, or remove it.                       *)
Responsible(p, k, i) ==
    \/ pc[p] = "write1" /\ fd[p] = i
    \/ pc[p] = "list" /\ k \in RemovedTree(p)
    \/ pc[p] = "unlink" /\ <<k, "module">> \in victims[p]

NoneAbandoned ==
    \A k \in Content :
        \/ link[k]["module"] = 0
        \/ data[link[k]["module"]] = k
        \/ \E p \in Proc : Responsible(p, k, link[k]["module"])

KilledNone == crashes = 0 /\ EditedTo \subseteq {NoKey}

RestInv == KilledNone => KeysKept /\ NoneAbandoned

-----------------------------------------------------------------------------
(* Lemmas about the file system.                                           *)

LEMMA KeyFacts ==
    /\ Content \subseteq Key /\ NoKey \in Key
    /\ \A c \in Content : c # NoKey /\ c \notin {"none", "fail", "partial", "meta"}
    /\ 0 \notin Inode
BY ProcAssumption, InodeAssumption DEF Key

(* The part of Shape that is about processes.                              *)
LEMMA ShapeFacts ==
    ASSUME Shape
    PROVE  /\ pc \in [Proc -> Place]
           /\ lockfd \in [Proc -> Inode \cup {0}] /\ fd \in [Proc -> Inode \cup {0}]
           /\ holder \in [Inode -> Proc \cup {Nobody}]
           /\ wasm \in [Path -> Content \cup {NoKey}] /\ WasmOf \in [Proc -> Path]
           /\ victims \in [Proc -> SUBSET (Key \X Name)]
           /\ 0 \notin Inode /\ Nobody \notin Proc
BY InodeAssumption, ProcAssumption DEF Shape, Key

(* What a new name, or 0, does to the names.                               *)
LEMMA NamedEffect ==
    ASSUME link \in [Key -> [Name -> Inode \cup {0}]],
           NEW k \in Key, NEW n \in Name, NEW i \in Inode \cup {0},
           Named(k, n, i)
    PROVE  /\ link' \in [Key -> [Name -> Inode \cup {0}]]
           /\ \A l \in Key, m \in Name :
                 link'[l][m] = IF l = k /\ m = n THEN i ELSE link[l][m]
<1>1. link' = [link EXCEPT ![k] = [link[k] EXCEPT ![n] = i]]
  BY DEF Named
<1>2. [link[k] EXCEPT ![n] = i] \in [Name -> Inode \cup {0}]
  OBVIOUS
<1> QED
  BY <1>1, <1>2

(* An inode that is opened to be created is the one of that name, or has   *)
(* no name and is open nowhere.                                            *)
LEMMA OpensEffect ==
    ASSUME NEW k \in Key, NEW n \in Name, NEW i \in Inode, Opens(k, n, i)
    PROVE  \/ link[k][n] = i
           \/ /\ link[k][n] = 0
              /\ \A l \in Key, m \in Name : link[l][m] # i
              /\ \A p \in Proc : lockfd[p] # i /\ fd[p] # i
BY DEF Opens, Linked, Held

LEMMA Turns ==
    /\ \A p \in Proc : Writing(p) = IF pc[p] = "write1" THEN "module" ELSE "meta"
    /\ \A p \in Proc : Creating(p) = IF pc[p] = "open1" THEN "module" ELSE "meta"
BY DEF Writing, Creating, PutOrder

(* All steps of a process but these three leave the names and the contents *)
(* of files alone.                                                         *)
LEMMA FilesAlone ==
    ASSUME NEW p \in Proc, Step(p),
           ~OpenLock(p), ~Create(p), ~Write(p), ~Unlink(p)
    PROVE  UNCHANGED <<link, data>>
BY DEF Step, Start, ReadMeta, ReadModule, EnsureDir, Flock, Transpile, TranspileFails,
       WriteFails, ListVictims, Rmdir, Unlock, files

(* These steps change nothing that the invariants say of inodes.           *)
LEMMA Quiet ==
    ASSUME NEW p \in Proc, pc \in [Proc -> Place],
           \/ ReadMeta(p) \/ ReadModule(p) \/ EnsureDir(p) \/ Flock(p)
           \/ Transpile(p) \/ TranspileFails(p) \/ ListVictims(p) \/ Rmdir(p)
    PROVE  /\ UNCHANGED <<key, link, data, lockfd, fd>>
           /\ {pc[p], pc'[p]} \cap {"write1", "write2"} = {}
           /\ \A q \in Proc \ {p} : pc'[q] = pc[q]
BY DEF ReadMeta, ReadModule, EnsureDir, Flock, Transpile, TranspileFails, ListVictims,
       Rmdir, files, locks, Goto

-----------------------------------------------------------------------------
(* Type correctness.                                                       *)

LEMMA ShapeNext == Shape /\ OpenFiles /\ Contents /\ [Next]_vars => Shape'
<1> SUFFICES ASSUME Shape, OpenFiles, Contents, [Next]_vars PROVE Shape'
  OBVIOUS
<1> USE KeyFacts DEF Shape, Goto, Key, Place
<1>1. ASSUME NEW p \in Proc, Start(p) PROVE Shape'
  BY <1>1, ProcAssumption DEF Start, files, locks
<1>2. ASSUME NEW p \in Proc, ReadMeta(p) PROVE Shape'
  BY <1>2 DEF ReadMeta, files, locks, bounds, Locked
<1>3. ASSUME NEW p \in Proc, ReadModule(p) PROVE Shape'
  BY <1>3 DEF ReadModule, files, locks, bounds, Locked, Contents
<1>4. ASSUME NEW p \in Proc, EnsureDir(p) PROVE Shape'
  BY <1>4 DEF EnsureDir, MkdirAll, locks, bounds, Locked
<1>5. ASSUME NEW p \in Proc, OpenLock(p) PROVE Shape'
  <2>1. CASE exists[key[p]]
    <3>1. PICK i \in Inode : Named(key[p], "lock", i) /\ lockfd' = [lockfd EXCEPT ![p] = i]
      BY <1>5, <2>1 DEF OpenLock
    <3>2. link' \in [Key -> [Name -> Inode \cup {0}]]
      BY <3>1, NamedEffect DEF Name
    <3> QED
      BY <1>5, <2>1, <3>1, <3>2 DEF OpenLock, bounds
  <2>2. CASE ~exists[key[p]]
    BY <1>5, <2>2 DEF OpenLock, bounds
  <2> QED
    BY <2>1, <2>2
<1>6. ASSUME NEW p \in Proc, Flock(p) PROVE Shape'
  BY <1>6 DEF Flock, files, bounds, Locked
<1>7. ASSUME NEW p \in Proc, Transpile(p) PROVE Shape'
  BY <1>7, ProcAssumption DEF Transpile, files, locks, bounds, Locked
<1>8. ASSUME NEW p \in Proc, TranspileFails(p) PROVE Shape'
  BY <1>8 DEF TranspileFails, files, locks, Locked
<1>9. ASSUME NEW p \in Proc, Create(p) PROVE Shape'
  <2>1. CASE exists[key[p]]
    <3>1. PICK i \in Inode : /\ Named(key[p], Creating(p), i)
                             /\ data' = [data EXCEPT ![i] = "partial"]
                             /\ fd' = [fd EXCEPT ![p] = i]
      BY <1>9, <2>1 DEF Create
    <3>2. Creating(p) \in Name
      BY Turns DEF Name
    <3>3. link' \in [Key -> [Name -> Inode \cup {0}]]
      BY <3>1, <3>2, NamedEffect
    <3> QED
      BY <1>9, <2>1, <3>1, <3>3, ZenonT(60) DEF Create, locks, bounds, Locked
  <2>2. CASE ~exists[key[p]]
    BY <1>9, <2>2 DEF Create, locks, bounds, Locked
  <2> QED
    BY <2>1, <2>2
<1>10. ASSUME NEW p \in Proc, Write(p) PROVE Shape'
  BY <1>10, Turns DEF Write, locks, bounds, Locked, Contents, Populating
<1>11. ASSUME NEW p \in Proc, WriteFails(p) PROVE Shape'
  BY <1>11 DEF WriteFails, files, locks, Locked
<1>12. ASSUME NEW p \in Proc, ListVictims(p) PROVE Shape'
  <2>1. { v \in RemovedTree(p) \X Name : link[v[1]][v[2]] # 0 } \in SUBSET (Key \X Name)
    BY DEF RemovedTree, Below
  <2> QED
    BY <1>12, <2>1 DEF ListVictims, files, locks, bounds, Locked
<1>13. ASSUME NEW p \in Proc, Unlink(p) PROVE Shape'
  <2>1. PICK v \in Key \X Name : /\ Named(v[1], v[2], 0)
                                 /\ victims' = [victims EXCEPT ![p] = @ \ {v}]
    BY <1>13 DEF Unlink
  <2>2. link' \in [Key -> [Name -> Inode \cup {0}]]
    BY <2>1, NamedEffect
  <2>3. victims' \in [Proc -> SUBSET (Key \X Name)]
    BY <2>1
  <2> QED
    BY <1>13, <2>2, <2>3 DEF Unlink, locks, bounds
<1>14. ASSUME NEW p \in Proc, Rmdir(p) PROVE Shape'
  BY <1>14 DEF Rmdir, locks, bounds, Locked
<1>15. ASSUME NEW p \in Proc, Unlock(p) PROVE Shape'
  BY <1>15 DEF Unlock, Closed, files, bounds
<1>16. ASSUME NEW p \in Proc, Crash(p) PROVE Shape'
  BY <1>16 DEF Crash, Closed, files
<1>17. ASSUME NEW path \in Path, Edit(path) PROVE Shape'
  BY <1>17, ProcAssumption DEF Edit, files, locks
<1>18. CASE UNCHANGED vars
  BY <1>18 DEF vars, files, locks, bounds
<1> QED
  BY <1>1, <1>2, <1>3, <1>4, <1>5, <1>6, <1>7, <1>8, <1>9, <1>10, <1>11, <1>12,
     <1>13, <1>14, <1>15, <1>16, <1>17, <1>18 DEF Next, Step

LEMMA OpenFilesNext == Shape /\ OpenFiles /\ [Next]_vars => OpenFiles'
<1> SUFFICES ASSUME Shape, OpenFiles, [Next]_vars PROVE OpenFiles'
  OBVIOUS
<1> USE DEF OpenFiles, Goto, Locked
<1>0. /\ pc \in [Proc -> Place]
      /\ lockfd \in [Proc -> Inode \cup {0}] /\ fd \in [Proc -> Inode \cup {0}]
      /\ 0 \notin Inode
  BY ShapeFacts
<1>1. ASSUME NEW p \in Proc, Start(p) PROVE OpenFiles'
  BY <1>0, <1>1 DEF Start, locks
<1>2. ASSUME NEW p \in Proc, ReadMeta(p) \/ ReadModule(p) \/ EnsureDir(p) \/ Flock(p)
      PROVE  OpenFiles'
  BY <1>0, <1>2 DEF ReadMeta, ReadModule, EnsureDir, Flock, locks
<1>3. ASSUME NEW p \in Proc, OpenLock(p) PROVE OpenFiles'
  BY <1>0, <1>3 DEF OpenLock
<1>4. ASSUME NEW p \in Proc, Transpile(p) \/ TranspileFails(p) \/ ListVictims(p) \/ Rmdir(p)
      PROVE  OpenFiles'
  BY <1>0, <1>4 DEF Transpile, TranspileFails, ListVictims, Rmdir, locks
<1>5. ASSUME NEW p \in Proc, Create(p) PROVE OpenFiles'
  BY <1>0, <1>5 DEF Create, locks
<1>6. ASSUME NEW p \in Proc, Write(p) \/ WriteFails(p) PROVE OpenFiles'
  BY <1>0, <1>6 DEF Write, WriteFails, locks
<1>7. ASSUME NEW p \in Proc, Unlink(p) PROVE OpenFiles'
  BY <1>0, <1>7 DEF Unlink, locks
<1>8. ASSUME NEW p \in Proc, Unlock(p) \/ Crash(p) PROVE OpenFiles'
  BY <1>0, <1>8 DEF Unlock, Crash, Closed
<1>9. ASSUME NEW path \in Path, Edit(path) PROVE OpenFiles'
  BY <1>0, <1>9 DEF Edit, locks
<1>10. CASE UNCHANGED vars
  BY <1>0, <1>10 DEF vars, locks
<1> QED
  BY <1>1, <1>2, <1>3, <1>4, <1>5, <1>6, <1>7, <1>8, <1>9, <1>10 DEF Next, Step

LEMMA LocksHeldNext == Shape /\ OpenFiles /\ LocksHeld /\ [Next]_vars => LocksHeld'
<1> SUFFICES ASSUME Shape, OpenFiles, LocksHeld, [Next]_vars PROVE LocksHeld'
  OBVIOUS
<1> USE DEF OpenFiles, LocksHeld, Goto, Locked
<1>0. /\ pc \in [Proc -> Place]
      /\ lockfd \in [Proc -> Inode \cup {0}] /\ holder \in [Inode -> Proc \cup {Nobody}]
      /\ 0 \notin Inode /\ Nobody \notin Proc
  BY ShapeFacts
<1>1. ASSUME NEW p \in Proc, Start(p) PROVE LocksHeld'
  BY <1>0, <1>1 DEF Start, locks
<1>2. ASSUME NEW p \in Proc, ReadMeta(p) \/ ReadModule(p) \/ EnsureDir(p)
      PROVE  LocksHeld'
  BY <1>0, <1>2 DEF ReadMeta, ReadModule, EnsureDir, locks
<1>3. ASSUME NEW p \in Proc, OpenLock(p) PROVE LocksHeld'
  BY <1>0, <1>3 DEF OpenLock
<1>4. ASSUME NEW p \in Proc, Flock(p) PROVE LocksHeld'
  BY <1>0, <1>4 DEF Flock, FlockFree
<1>5. ASSUME NEW p \in Proc, Transpile(p) \/ TranspileFails(p) \/ ListVictims(p) \/ Rmdir(p)
      PROVE  LocksHeld'
  BY <1>0, <1>5 DEF Transpile, TranspileFails, ListVictims, Rmdir, locks
<1>6. ASSUME NEW p \in Proc, Create(p) \/ Write(p) \/ WriteFails(p) PROVE LocksHeld'
  BY <1>0, <1>6 DEF Create, Write, WriteFails, locks
<1>7. ASSUME NEW p \in Proc, Unlink(p) PROVE LocksHeld'
  BY <1>0, <1>7 DEF Unlink, locks
<1>8. ASSUME NEW p \in Proc, Unlock(p) \/ Crash(p) PROVE LocksHeld'
  BY <1>0, <1>8 DEF Unlock, Crash, Closed
<1>9. ASSUME NEW path \in Path, Edit(path) PROVE LocksHeld'
  BY <1>0, <1>9 DEF Edit, locks
<1>10. CASE UNCHANGED vars
  BY <1>0, <1>10 DEF vars, locks
<1> QED
  BY <1>1, <1>2, <1>3, <1>4, <1>5, <1>6, <1>7, <1>8, <1>9, <1>10 DEF Next, Step

(* Inodes keep to their names: the steps that name or open one.            *)
InodesOK == OneName /\ OpenByName /\ OpenTogether

(* A step that only takes names away and closes files keeps them.          *)
LEMMA InodesShrink ==
    ASSUME InodesOK,
           \A k \in Key, n \in Name : link'[k][n] \in {link[k][n], 0},
           \A q \in Proc : fd'[q] = 0 \/ (fd'[q] = fd[q] /\ key'[q] = key[q] /\ pc'[q] = pc[q]),
           \A q \in Proc : lockfd'[q] = 0 \/ (lockfd'[q] = lockfd[q] /\ key'[q] = key[q])
    PROVE  InodesOK'
<1>1. \A q \in Proc : fd'[q] # 0 => Writing(q)' = Writing(q)
  BY DEF Writing
<1>2. OneName'
  BY DEF InodesOK, OneName
<1>3. OpenByName'
  BY <1>1 DEF InodesOK, OpenByName
<1>4. OpenTogether'
  BY <1>1 DEF InodesOK, OpenTogether
<1> QED
  BY <1>2, <1>3, <1>4 DEF InodesOK

LEMMA InodesNext == Shape /\ OpenFiles /\ InodesOK /\ [Next]_vars => InodesOK'
<1> SUFFICES ASSUME Shape, OpenFiles, InodesOK, [Next]_vars PROVE InodesOK'
  OBVIOUS
<1> USE DEF OpenFiles
<1>0. /\ pc \in [Proc -> Place] /\ key \in [Proc -> Key]
      /\ link \in [Key -> [Name -> Inode \cup {0}]]
      /\ lockfd \in [Proc -> Inode \cup {0}] /\ fd \in [Proc -> Inode \cup {0}]
      /\ 0 \notin Inode
  BY ShapeFacts DEF Shape
<1>1. ASSUME NEW p \in Proc, Start(p) PROVE InodesOK'
  <2>1. fd[p] = 0 /\ lockfd[p] = 0
    BY <1>1 DEF Start, Locked
  <2>2. /\ UNCHANGED <<link, lockfd, fd>>
        /\ \A q \in Proc \ {p} : key'[q] = key[q] /\ pc'[q] = pc[q]
    BY <1>0, <1>1 DEF Start, files, locks, Goto
  <2> QED
    BY <2>1, <2>2, InodesShrink
<1>2. ASSUME NEW p \in Proc,
             \/ ReadMeta(p) \/ ReadModule(p) \/ EnsureDir(p) \/ Flock(p)
             \/ Transpile(p) \/ TranspileFails(p) \/ ListVictims(p) \/ Rmdir(p)
      PROVE  InodesOK'
  <2>1. fd[p] = 0
    BY <1>0, <1>2, Quiet
  <2> QED
    BY <1>0, <1>2, <2>1, Quiet, InodesShrink
<1>3. ASSUME NEW p \in Proc, OpenLock(p) PROVE InodesOK'
  <2>1. CASE exists[key[p]]
    <3>1. PICK i \in Inode : /\ Opens(key[p], "lock", i)
                             /\ Named(key[p], "lock", i)
                             /\ lockfd' = [lockfd EXCEPT ![p] = i]
      BY <1>0, <1>3, <2>1 DEF OpenLock
    <3>2. \A l \in Key, m \in Name :
             link'[l][m] = IF l = key[p] /\ m = "lock" THEN i ELSE link[l][m]
      BY <1>0, <3>1, NamedEffect DEF Name
    <3>3. \/ link[key[p]]["lock"] = i
          \/ /\ \A l \in Key, m \in Name : link[l][m] # i
             /\ \A q \in Proc : lockfd[q] # i /\ fd[q] # i
      BY <1>0, <3>1, OpensEffect DEF Name
    <3>4. /\ UNCHANGED <<key, fd>>
          /\ \A q \in Proc : fd[q] # 0 => pc'[q] = pc[q]
      BY <1>0, <1>3 DEF OpenLock, Goto
    <3>5. \A q \in Proc : fd[q] # 0 => Writing(q)' = Writing(q)
      BY <1>0, <3>4 DEF Writing
    <3>6. OneName'
      BY <1>0, <3>2, <3>3 DEF Name, InodesOK, OneName
    <3>7. /\ \A q \in Proc : fd[q] # i
          /\ \A q \in Proc : lockfd[q] = i => key[q] = key[p]
      BY <1>0, <3>3, Turns DEF Name, InodesOK, OpenByName, OpenTogether
    <3>8. OpenByName'
      BY <1>0, <3>1, <3>2, <3>4, <3>5, <3>7, <3>3 DEF Name, InodesOK, OneName, OpenByName
    <3>9. OpenTogether'
      BY <1>0, <3>1, <3>4, <3>5, <3>7 DEF InodesOK, OpenTogether
    <3> QED
      BY <3>6, <3>8, <3>9 DEF InodesOK
  <2>2. CASE ~exists[key[p]]
    BY <1>0, <1>3, <2>2 DEF OpenLock, Goto, Writing, InodesOK, OneName, OpenByName, OpenTogether
  <2> QED
    BY <2>1, <2>2
<1>4. ASSUME NEW p \in Proc, Create(p) PROVE InodesOK'
  <2>1. CASE exists[key[p]]
    <3>1. PICK i \in Inode : /\ Opens(key[p], Creating(p), i)
                             /\ Named(key[p], Creating(p), i)
                             /\ fd' = [fd EXCEPT ![p] = i]
      BY <1>0, <1>4, <2>1 DEF Create
    <3> DEFINE n == Creating(p)
    <3>2. n \in Name /\ n # "lock"
      BY <1>0, Turns DEF Name
    <3> HIDE DEF n
    <3>3. \A l \in Key, m \in Name :
             link'[l][m] = IF l = key[p] /\ m = n THEN i ELSE link[l][m]
      BY <1>0, <3>1, <3>2, NamedEffect DEF n
    <3>4. \/ link[key[p]][n] = i
          \/ /\ \A l \in Key, m \in Name : link[l][m] # i
             /\ \A q \in Proc : lockfd[q] # i /\ fd[q] # i
      BY <1>0, <3>1, <3>2, OpensEffect DEF n
    <3>5. /\ UNCHANGED <<key, lockfd>>
          /\ \A q \in Proc \ {p} : pc'[q] = pc[q]
      BY <1>0, <1>4 DEF Create, Goto, locks
    <3>6. Writing(p)' = n
      BY <1>0, <1>4, <2>1 DEF Create, Goto, Writing, Creating, n
    <3>7. \A q \in Proc \ {p} : Writing(q)' = Writing(q)
      BY <1>0, <3>5 DEF Writing
    <3>8. OneName'
      BY <1>0, <3>2, <3>3, <3>4 DEF InodesOK, OneName
    <3>9. /\ \A q \in Proc : lockfd[q] # i
          /\ \A q \in Proc : fd[q] = i => key[q] = key[p] /\ Writing(q) = n
      BY <1>0, <3>2, <3>4 DEF InodesOK, OpenByName, OpenTogether
    <3>10. fd[p] = 0
      BY <1>0, <1>4 DEF Create
    <3>11. OpenByName'
      BY <1>0, <3>1, <3>2, <3>3, <3>4, <3>5, <3>6, <3>7, <3>9 DEF InodesOK, OneName, OpenByName
    <3>12. OpenTogether'
      BY <1>0, <3>1, <3>5, <3>6, <3>7, <3>9 DEF InodesOK, OpenTogether
    <3> QED
      BY <3>8, <3>11, <3>12 DEF InodesOK
  <2>2. CASE ~exists[key[p]]
    BY <1>0, <1>4, <2>2 DEF Create, Goto, Writing, locks, InodesOK, OneName, OpenByName, OpenTogether
  <2> QED
    BY <2>1, <2>2
<1>5. ASSUME NEW p \in Proc, Write(p) \/ WriteFails(p) PROVE InodesOK'
  <2>1. /\ UNCHANGED <<link, lockfd, key>>
        /\ \A q \in Proc : fd'[q] = IF q = p THEN 0 ELSE fd[q]
        /\ \A q \in Proc \ {p} : pc'[q] = pc[q]
    BY <1>0, <1>5 DEF Write, WriteFails, Goto, files, locks
  <2>2. \A k \in Key, n \in Name : link'[k][n] \in {link[k][n], 0}
    BY <2>1
  <2>3. \A q \in Proc : fd'[q] = 0 \/ (fd'[q] = fd[q] /\ key'[q] = key[q] /\ pc'[q] = pc[q])
    BY <2>1
  <2>4. \A q \in Proc : lockfd'[q] = 0 \/ (lockfd'[q] = lockfd[q] /\ key'[q] = key[q])
    BY <2>1
  <2> QED
    BY <2>2, <2>3, <2>4, InodesShrink
<1>6. ASSUME NEW p \in Proc, Unlink(p) PROVE InodesOK'
  <2>1. PICK v \in Key \X Name : Named(v[1], v[2], 0)
    BY <1>6, ShapeFacts DEF Unlink
  <2>2. \A l \in Key, m \in Name :
           link'[l][m] = IF l = v[1] /\ m = v[2] THEN 0 ELSE link[l][m]
    BY <1>0, <2>1, NamedEffect
  <2>3. UNCHANGED <<pc, key, lockfd, fd>>
    BY <1>0, <1>6 DEF Unlink, locks
  <2> QED
    BY <1>0, <2>2, <2>3, InodesShrink
<1>7. ASSUME NEW p \in Proc, Unlock(p) \/ Crash(p) PROVE InodesOK'
  <2>1. /\ UNCHANGED <<link, key>>
        /\ \A q \in Proc : fd'[q] = IF q = p THEN 0 ELSE fd[q]
        /\ \A q \in Proc : lockfd'[q] = IF q = p THEN 0 ELSE lockfd[q]
        /\ \A q \in Proc \ {p} : pc'[q] = pc[q]
    BY <1>0, <1>7 DEF Unlock, Crash, Closed, files, Goto
  <2> QED
    BY <1>0, <2>1, InodesShrink
<1>8. ASSUME NEW path \in Path, Edit(path) PROVE InodesOK'
  BY <1>0, <1>8 DEF Edit, files, locks, Writing, InodesOK, OneName, OpenByName, OpenTogether
<1>9. CASE UNCHANGED vars
  BY <1>0, <1>9 DEF vars, files, locks, Writing, InodesOK, OneName, OpenByName, OpenTogether
<1> QED
  BY <1>1, <1>2, <1>3, <1>4, <1>5, <1>6, <1>7, <1>8, <1>9 DEF Next, Step

LEMMA ContentsNext == Shape /\ OpenFiles /\ InodesOK /\ Contents /\ [Next]_vars => Contents'
<1> SUFFICES ASSUME Shape, OpenFiles, InodesOK, Contents, [Next]_vars PROVE Contents'
  OBVIOUS
<1> USE DEF OpenFiles, Contents
<1>0. /\ pc \in [Proc -> Place] /\ key \in [Proc -> Key]
      /\ link \in [Key -> [Name -> Inode \cup {0}]] /\ data \in [Inode -> Content \cup {"none", "partial", "meta"}]
      /\ lockfd \in [Proc -> Inode \cup {0}] /\ fd \in [Proc -> Inode \cup {0}]
      /\ out \in [Proc -> Content \cup {"none", "fail", "partial"}]
      /\ 0 \notin Inode
  BY ShapeFacts DEF Shape
<1>20. /\ {"module", "meta", "lock"} \subseteq Name
  BY DEF Name
<1>1. ASSUME NEW p \in Proc, Start(p) PROVE Contents'
  BY <1>0, <1>20, <1>1 DEF Start, files, Goto, Populating
<1>2. ASSUME NEW p \in Proc, ReadMeta(p) \/ ReadModule(p) \/ EnsureDir(p) \/ Flock(p)
      PROVE  Contents'
  BY <1>0, <1>20, <1>2 DEF ReadMeta, ReadModule, EnsureDir, Flock, files, Goto, Populating
<1>3. ASSUME NEW p \in Proc, TranspileFails(p) \/ ListVictims(p) \/ Rmdir(p) \/ WriteFails(p)
      PROVE  Contents'
  <2>1. /\ UNCHANGED <<link, data>>
        /\ pc'[p] \notin Populating
        /\ \A q \in Proc \ {p} : pc'[q] = pc[q] /\ out'[q] = out[q]
    BY <1>0, <1>3 DEF TranspileFails, ListVictims, Rmdir, WriteFails, files, Goto, Populating
  <2> QED
    BY <2>1
<1>4. ASSUME NEW p \in Proc, Transpile(p) PROVE Contents'
  <2>1. /\ UNCHANGED <<link, data>>
        /\ \A q \in Proc \ {p} : pc'[q] = pc[q] /\ out'[q] = out[q]
    BY <1>0, <1>4 DEF Transpile, files, Goto
  <2>2. out'[p] \in Content
    <3>1. wasm[WasmOf[p]] \in Content \cup {NoKey}
      BY ShapeFacts
    <3> QED
      BY <1>0, <1>4, <3>1 DEF Transpile
  <2> QED
    BY <2>1, <2>2
<1>5. ASSUME NEW p \in Proc, OpenLock(p) PROVE Contents'
  <2>1. CASE exists[key[p]]
    <3>1. PICK i \in Inode : Named(key[p], "lock", i)
      BY <1>0, <1>20, <1>5, <2>1 DEF OpenLock
    <3>2. \A l \in Key, m \in Name :
             link'[l][m] = IF l = key[p] /\ m = "lock" THEN i ELSE link[l][m]
      BY <3>1, <1>0, <1>20, NamedEffect
    <3> QED
      BY <1>0, <1>20, <1>5, <2>1, <3>2, SMTT(30) DEF OpenLock, Goto, Populating
  <2>2. CASE ~exists[key[p]]
    BY <1>0, <1>20, <1>5, <2>2 DEF OpenLock, Goto, Populating
  <2> QED
    BY <2>1, <2>2
<1>6. ASSUME NEW p \in Proc, Create(p) PROVE Contents'
  <2>1. CASE exists[key[p]]
    <3>1. PICK i \in Inode : /\ Named(key[p], Creating(p), i)
                             /\ data' = [data EXCEPT ![i] = "partial"]
      BY <1>0, <1>20, <1>6, <2>1 DEF Create
    <3>2. Creating(p) \in Name
      BY <1>0, <1>20, Turns
    <3>3. \A l \in Key, m \in Name :
             link'[l][m] = IF l = key[p] /\ m = Creating(p) THEN i ELSE link[l][m]
      BY <1>0, <1>20, <3>1, <3>2, NamedEffect
    <3>4. \A j \in Inode : data'[j] = IF j = i THEN "partial" ELSE data[j]
      BY <1>0, <1>20, <3>1
    <3>5. \A q \in Proc : /\ pc'[q] \in Populating => pc[q] \in Populating
                          /\ out'[q] = out[q] \/ pc'[q] \notin Populating
      BY <1>0, <1>20, <1>6, <2>1 DEF Create, Goto, Populating
    <3>6. \A k \in Key : link'[k]["module"] # 0 =>
             data'[link'[k]["module"]] \in Content \cup {"partial"}
      BY <1>0, <1>20, <3>3, <3>4
    <3>7. \A k \in Key : link'[k]["meta"] # 0 => data'[link'[k]["meta"]] \in {"partial", "meta"}
      BY <1>0, <1>20, <3>3, <3>4
    <3> QED
      BY <3>5, <3>6, <3>7
  <2>2. CASE ~exists[key[p]]
    BY <1>0, <1>20, <1>6, <2>2 DEF Create, Goto, Populating
  <2> QED
    BY <2>1, <2>2
<1>7. ASSUME NEW p \in Proc, Write(p) PROVE Contents'
  <2>1. fd[p] \in Inode /\ out[p] \in Content
    BY <1>0, <1>20, <1>7 DEF Write, Populating
  <2>2. \A k \in Key, n \in Name : link[k][n] = fd[p] => n = Writing(p)
    BY <1>0, <1>20, <2>1 DEF InodesOK, OpenByName
  <2>3. \A j \in Inode : data'[j] = IF j # fd[p] THEN data[j]
                                    ELSE IF Writing(p) = "module" THEN out[p] ELSE "meta"
    BY <1>0, <1>20, <1>7, <2>1 DEF Write, Populating
  <2>4. UNCHANGED <<link, out>> /\ \A q \in Proc : pc'[q] \in Populating => pc[q] \in Populating
    BY <1>0, <1>20, <1>7 DEF Write, Goto, Populating
  <2>5. \A k \in Key : link'[k]["module"] # 0 =>
             data'[link'[k]["module"]] \in Content \cup {"partial"}
    BY <1>0, <1>20, <2>1, <2>2, <2>3, <2>4
  <2>6. \A k \in Key : link'[k]["meta"] # 0 => data'[link'[k]["meta"]] \in {"partial", "meta"}
    BY <1>0, <1>20, <2>1, <2>2, <2>3, <2>4
  <2>7. \A q \in Proc : pc'[q] \in Populating => out'[q] \in Content
    BY <2>4
  <2> QED
    BY <2>5, <2>6, <2>7
<1>8. ASSUME NEW p \in Proc, Unlink(p) PROVE Contents'
  <2>1. PICK v \in Key \X Name : Named(v[1], v[2], 0)
    BY <1>8, ShapeFacts DEF Unlink
  <2>2. \A l \in Key, m \in Name :
           link'[l][m] = IF l = v[1] /\ m = v[2] THEN 0 ELSE link[l][m]
    BY <1>0, <1>20, <2>1, NamedEffect
  <2>3. UNCHANGED <<pc, data, out>>
    BY <1>0, <1>20, <1>8 DEF Unlink
  <2> QED
    BY <1>0, <1>20, <2>2, <2>3
<1>9. ASSUME NEW p \in Proc, Unlock(p) \/ Crash(p) PROVE Contents'
  BY <1>0, <1>20, <1>9 DEF Unlock, Crash, files, Goto, Populating
<1>10. ASSUME NEW path \in Path, Edit(path) PROVE Contents'
  BY <1>0, <1>20, <1>10 DEF Edit, files
<1>11. CASE UNCHANGED vars
  BY <1>0, <1>20, <1>11 DEF vars, files
<1> QED
  BY <1>1, <1>2, <1>3, <1>4, <1>5, <1>6, <1>7, <1>8, <1>9, <1>10, <1>11 DEF Next, Step

LEMMA FilesInit == Init => Files
BY KeyFacts, ProcAssumption, InodeAssumption
   DEF Init, Files, Shape, OpenFiles, LocksHeld, OneName, OpenByName, OpenTogether,
       Contents, Key, Name, Place, Locked, Populating

LEMMA FilesNext == Files /\ [Next]_vars => Files'
BY ShapeNext, OpenFilesNext, LocksHeldNext, InodesNext, ContentsNext
   DEF Files, InodesOK

LEMMA FilesHold == Spec => []Files
BY FilesInit, FilesNext, PTL DEF Spec

LEMMA FilesTyped == Files => CacheTypeOK
BY KeyFacts DEF Files, Shape, OpenFiles, LocksHeld, CacheTypeOK, Place

(* The types, and what each place in transpileCached has open, whatever    *)
(* fails or is killed.                                                     *)
THEOREM TypeCorrect == Spec => []CacheTypeOK
BY FilesHold, FilesTyped, PTL

-----------------------------------------------------------------------------
(* What the steps that touch files do to the entries.                      *)

LEMMA CreateEffect ==
    ASSUME Files, NEW p \in Proc, Create(p), exists[key[p]]
    PROVE  \E i \in Inode :
              /\ fd' = [fd EXCEPT ![p] = i]
              /\ link'[key[p]][Creating(p)] = i /\ data'[i] = "partial"
              /\ \A k \in Key, n \in Name : k # key[p] \/ n # Creating(p) =>
                    link'[k][n] = link[k][n] /\ link[k][n] # i
              /\ \A j \in Inode \ {i} : data'[j] = data[j]
<1>1. PICK i \in Inode : /\ Opens(key[p], Creating(p), i)
                         /\ Named(key[p], Creating(p), i)
                         /\ data' = [data EXCEPT ![i] = "partial"]
                         /\ fd' = [fd EXCEPT ![p] = i]
  BY DEF Create
<1>2. Creating(p) \in Name /\ key[p] \in Key
  BY Turns DEF Name, Files, Shape
<1>3. /\ link \in [Key -> [Name -> Inode \cup {0}]] /\ i # 0
      /\ data \in [Inode -> Content \cup {"none", "partial", "meta"}]
  BY KeyFacts DEF Files, Shape
<1>4. \A l \in Key, m \in Name :
         link'[l][m] = IF l = key[p] /\ m = Creating(p) THEN i ELSE link[l][m]
  BY <1>1, <1>2, <1>3, NamedEffect
<1>5. \A k \in Key, n \in Name : k # key[p] \/ n # Creating(p) => link[k][n] # i
  BY <1>1, <1>2, <1>3, OpensEffect DEF Files, OneName
<1>6. \A j \in Inode : data'[j] = IF j = i THEN "partial" ELSE data[j]
  BY <1>1, <1>3
<1>7. \A k \in Key, n \in Name : k # key[p] \/ n # Creating(p) => link'[k][n] = link[k][n]
  BY <1>4
<1>8. link'[key[p]][Creating(p)] = i
  BY <1>2, <1>4
<1>9. data'[i] = "partial" /\ \A j \in Inode \ {i} : data'[j] = data[j]
  BY <1>6
<1>10. \A k \in Key, n \in Name : k # key[p] \/ n # Creating(p) =>
          link'[k][n] = link[k][n] /\ link[k][n] # i
  BY <1>5, <1>7
<1> WITNESS i \in Inode
<1> QED
  BY <1>1, <1>8, <1>9, <1>10

LEMMA WriteEffect ==
    ASSUME Files, NEW p \in Proc, Write(p)
    PROVE  /\ UNCHANGED <<link, out>> /\ fd[p] \in Inode
           /\ data'[fd[p]] = IF pc[p] = "write1" THEN out[p] ELSE "meta"
           /\ \A k \in Key, n \in Name : link[k][n] = fd[p] => k = key[p] /\ n = Writing(p)
           /\ \A j \in Inode \ {fd[p]} : data'[j] = data[j]
<1>1. fd[p] # 0 /\ fd[p] \in Inode
  BY ShapeFacts DEF Files, OpenFiles, Write
<1>2. data \in [Inode -> Content \cup {"none", "partial", "meta"}]
  BY DEF Files, Shape
<1>3. \A k \in Key, n \in Name : link[k][n] = fd[p] => k = key[p] /\ n = Writing(p)
  BY <1>1 DEF Files, OpenByName
<1> QED
  BY <1>1, <1>2, <1>3, Turns DEF Write

LEMMA OpenLockEffect ==
    ASSUME Files, NEW p \in Proc, OpenLock(p), exists[key[p]]
    PROVE  \E i \in Inode :
              /\ lockfd' = [lockfd EXCEPT ![p] = i]
              /\ link'[key[p]]["lock"] = i
              /\ link[key[p]]["lock"] \in {0, i}
              /\ \A k \in Key, n \in Name : k # key[p] \/ n # "lock" =>
                    link'[k][n] = link[k][n]
<1>1. PICK i \in Inode : /\ Opens(key[p], "lock", i)
                         /\ Named(key[p], "lock", i)
                         /\ lockfd' = [lockfd EXCEPT ![p] = i]
  BY DEF OpenLock
<1>2. "lock" \in Name /\ key[p] \in Key /\ link \in [Key -> [Name -> Inode \cup {0}]]
  BY DEF Name, Files, Shape
<1>3. \A l \in Key, m \in Name :
         link'[l][m] = IF l = key[p] /\ m = "lock" THEN i ELSE link[l][m]
  BY <1>1, <1>2, NamedEffect
<1> QED
  BY <1>1, <1>2, <1>3, OpensEffect, ZenonT(60)

(* A process changes the module and the metadata of its own entry only,    *)
(* and of that only when it writes; unlinking apart.                       *)
LEMMA EntryAlone ==
    ASSUME Files, NEW p \in Proc, Step(p) \/ Crash(p), ~Unlink(p),
           NEW k \in Key, NEW n \in {"module", "meta"},
           \/ pc[p] \notin {"open1", "write1", "open2", "write2"}
           \/ key[p] # k
           \/ Create(p) /\ n # Creating(p)
           \/ Write(p) /\ n # Writing(p)
    PROVE  /\ link'[k][n] = link[k][n]
           /\ link[k][n] # 0 => data'[link[k][n]] = data[link[k][n]]
<1>1. /\ n \in Name /\ n # "lock" /\ link \in [Key -> [Name -> Inode \cup {0}]] /\ 0 \notin Inode
      /\ link[k][n] \in Inode \cup {0}
  BY KeyFacts DEF Name, Files, Shape
<1>2. CASE OpenLock(p)
  <2>1. UNCHANGED data
    BY <1>2 DEF OpenLock
  <2>2. link'[k][n] = link[k][n]
    BY <1>1, <1>2, OpenLockEffect DEF OpenLock
  <2> QED
    BY <2>1, <2>2
<1>3. CASE Create(p)
  <2>1. CASE exists[key[p]]
    <3>1. PICK i \in Inode :
              /\ \A l \in Key, m \in Name : l # key[p] \/ m # Creating(p) =>
                    link'[l][m] = link[l][m] /\ link[l][m] # i
              /\ \A j \in Inode \ {i} : data'[j] = data[j]
      BY <1>3, <2>1, CreateEffect
    <3>2. k # key[p] \/ n # Creating(p)
      BY <1>3 DEF Create, Write
    <3> QED
      BY <1>1, <3>1, <3>2
  <2>2. CASE ~exists[key[p]]
    BY <1>3, <2>2 DEF Create
  <2> QED
    BY <2>1, <2>2
<1>4. CASE Write(p)
  <2>1. k # key[p] \/ n # Writing(p)
    BY <1>4 DEF Create, Write
  <2> QED
    BY <1>1, <1>4, <2>1, WriteEffect
<1>5. CASE ~OpenLock(p) /\ ~Create(p) /\ ~Write(p) /\ ~Crash(p)
  BY <1>5, FilesAlone
<1>6. CASE Crash(p)
  BY <1>6 DEF Crash, files
<1> QED
  BY <1>2, <1>3, <1>4, <1>5, <1>6

-----------------------------------------------------------------------------
(* Exclusion, until a population fails.                                    *)

LEMMA Exclusion == LocksHeld /\ LockNamed => PopulationSerialized
BY DEF LocksHeld, LockNamed, PopulationSerialized

LEMMA CleanBefore == Shape /\ [Next]_vars /\ Clean' => Clean /\ UNCHANGED failures
<1> SUFFICES ASSUME Shape, [Next]_vars, Clean' PROVE Clean /\ UNCHANGED failures
  OBVIOUS
<1>0. failures \in Nat /\ edits \in Nat
  BY DEF Shape
<1>1. ASSUME NEW p \in Proc, Step(p) PROVE Clean /\ UNCHANGED failures
  <2>1. failures' \in {failures, failures + 1} /\ edits' = edits
    BY <1>1 DEF Step, Start, ReadMeta, ReadModule, EnsureDir, OpenLock, Flock, Transpile,
       TranspileFails, Create, Write, WriteFails, ListVictims, Unlink, Rmdir, Unlock, bounds
  <2> QED
    BY <1>0, <2>1 DEF Clean
<1>2. ASSUME NEW p \in Proc, Crash(p) PROVE Clean /\ UNCHANGED failures
  BY <1>2 DEF Crash, Clean
<1>3. ASSUME NEW path \in Path, Edit(path) PROVE Clean /\ UNCHANGED failures
  BY <1>0, <1>3 DEF Edit, Clean
<1>4. CASE UNCHANGED vars
  BY <1>4 DEF vars, bounds, Clean
<1> QED
  BY <1>1, <1>2, <1>3, <1>4 DEF Next

(* A process moves itself only.                                            *)
LEMMA OthersAlone ==
    ASSUME Shape, NEW p \in Proc, Step(p) \/ Crash(p), NEW q \in Proc \ {p}
    PROVE  /\ pc'[q] = pc[q] /\ key'[q] = key[q] /\ out'[q] = out[q]
           /\ lockfd'[q] = lockfd[q] /\ fd'[q] = fd[q] /\ victims'[q] = victims[q]
<1>1. CASE Step(p)
  BY <1>1 DEF Step, Start, ReadMeta, ReadModule, EnsureDir, OpenLock, Flock, Transpile,
     TranspileFails, Create, Write, WriteFails, ListVictims, Unlink, Rmdir, Unlock,
     Closed, Goto, files, locks, Shape
<1>2. CASE Crash(p)
  BY <1>2 DEF Crash, Closed, Goto, Shape
<1> QED
  BY <1>1, <1>2

LEMMA NothingRemovedNext ==
    Shape /\ Clean /\ NothingRemoved /\ LockNamed /\ [Next]_vars /\ Clean' => NothingRemoved'
<1> SUFFICES ASSUME Shape, Clean, NothingRemoved, LockNamed, [Next]_vars, Clean'
             PROVE  NothingRemoved'
  OBVIOUS
<1>0. /\ pc \in [Proc -> Place] /\ key \in [Proc -> Key] /\ wasm \in [Path -> Content \cup {NoKey}]
      /\ WasmOf \in [Proc -> Path] /\ failures \in Nat /\ edits \in Nat
      /\ failures' = failures
  BY ShapeFacts, CleanBefore DEF Shape
<1>1. ASSUME NEW p \in Proc, Step(p) \/ Crash(p) PROVE NothingRemoved'
  <2>1. UNCHANGED wasm
    BY <1>1 DEF Step, Crash, Start, ReadMeta, ReadModule, EnsureDir, OpenLock, Flock, Transpile,
       TranspileFails, Create, Write, WriteFails, ListVictims, Unlink, Rmdir, Unlock
  <2>2. pc'[p] \notin {"list", "unlink"}
    <3>1. pc[p] \notin {"list", "unlink"}
      BY DEF NothingRemoved
    <3>2. ~TranspileFails(p) /\ ~WriteFails(p)
      BY <1>0 DEF TranspileFails, WriteFails, NothingRemoved
    <3>3. CASE Start(p) \/ ReadMeta(p) \/ ReadModule(p) \/ EnsureDir(p) \/ OpenLock(p) \/ Flock(p)
      BY <1>0, <3>3 DEF Start, ReadMeta, ReadModule, EnsureDir, OpenLock, Flock, Goto
    <3>4. CASE Transpile(p) \/ Write(p) \/ Unlock(p) \/ Crash(p)
      BY <1>0, <3>4 DEF Transpile, Write, Unlock, Crash, Goto
    <3>5. CASE Create(p)
      <4>1. exists[key[p]]
        BY <3>5 DEF Create, LockNamed, Locked
      <4> QED
        BY <1>0, <3>5, <4>1 DEF Create, Goto
    <3>6. ~ListVictims(p) /\ ~Unlink(p) /\ ~Rmdir(p)
      BY <3>1 DEF ListVictims, Unlink, Rmdir
    <3> QED
      BY <1>1, <3>2, <3>3, <3>4, <3>5, <3>6 DEF Step
  <2>3. pc'[p] # "idle" => key'[p] # NoKey
    <3>1. CASE Start(p)
      BY <1>0, <3>1 DEF Start, NothingRemoved
    <3>2. CASE ~Start(p)
      <4>1. UNCHANGED key /\ pc[p] # "idle"
        BY <1>1, <3>2 DEF Step, Crash, ReadMeta, ReadModule, EnsureDir, OpenLock, Flock, Transpile,
           TranspileFails, Create, Write, WriteFails, ListVictims, Unlink, Rmdir, Unlock
      <4> QED
        BY <4>1 DEF NothingRemoved
    <3> QED
      BY <3>1, <3>2
  <2> QED
    BY <1>1, <2>1, <2>2, <2>3, OthersAlone DEF NothingRemoved
<1>2. ASSUME NEW path \in Path, Edit(path) PROVE NothingRemoved'
  BY <1>0, <1>2 DEF Edit, NothingRemoved, Clean
<1>3. CASE UNCHANGED vars
  BY <1>3 DEF vars, NothingRemoved
<1> QED
  BY <1>1, <1>2, <1>3 DEF Next

LEMMA LockNamedNext ==
    Files /\ NothingRemoved /\ LockNamed /\ NothingRemoved' /\ [Next]_vars => LockNamed'
<1> SUFFICES ASSUME Files, NothingRemoved, LockNamed, NothingRemoved', [Next]_vars
             PROVE  LockNamed'
  OBVIOUS
<1>0. /\ pc \in [Proc -> Place] /\ key \in [Proc -> Key] /\ exists \in [Key -> BOOLEAN]
      /\ link \in [Key -> [Name -> Inode \cup {0}]] /\ 0 \notin Inode
      /\ lockfd \in [Proc -> Inode \cup {0}]
      /\ \A p \in Proc : lockfd[p] # 0 <=> pc[p] \in Locked \cup {"flock"}
      /\ "lock" \in Name
  BY ShapeFacts DEF Files, Shape, OpenFiles, Name
<1>1. ASSUME NEW p \in Proc, Step(p) \/ Crash(p) PROVE LockNamed'
  <2>0. ~Unlink(p) /\ ~Rmdir(p) /\ ~ListVictims(p)
    BY DEF NothingRemoved, Unlink, Rmdir, ListVictims
  <2>1. \A k \in Key : exists[k] => exists'[k]
    BY <1>0, <1>1, <2>0 DEF Step, Crash, Start, ReadMeta, ReadModule, EnsureDir, OpenLock, Flock,
       Transpile, TranspileFails, Create, Write, WriteFails, Unlock, MkdirAll, files
  <2>2. \A k \in Key : link[k]["lock"] # 0 => link'[k]["lock"] = link[k]["lock"]
    <3>1. CASE OpenLock(p)
      <4>1. CASE exists[key[p]]
        BY <1>0, <3>1, <4>1, OpenLockEffect
      <4>2. CASE ~exists[key[p]]
        BY <3>1, <4>2 DEF OpenLock
      <4> QED
        BY <4>1, <4>2
    <3>2. CASE Create(p)
      BY <1>0, <3>2, CreateEffect, Turns DEF Create
    <3>3. CASE Write(p)
      BY <3>3 DEF Write
    <3>4. CASE Crash(p)
      BY <3>4 DEF Crash, files
    <3> QED
      BY <1>1, <2>0, <3>1, <3>2, <3>3, <3>4, FilesAlone
  <2>3. ASSUME pc'[p] \in Locked \cup {"flock", "openlock"} PROVE exists'[key'[p]]
    <3>1. CASE EnsureDir(p)
      BY <1>0, <3>1 DEF EnsureDir, MkdirAll
    <3>2. CASE ~EnsureDir(p)
      <4>1. UNCHANGED key /\ pc[p] \in Locked \cup {"flock", "openlock"}
        BY <1>0, <1>1, <2>0, <2>3, <3>2 DEF Step, Crash, Start, ReadMeta, ReadModule, OpenLock,
           Flock, Transpile, TranspileFails, Create, Write, WriteFails, Unlock, Goto, Locked
      <4> QED
        BY <1>0, <2>1, <4>1 DEF LockNamed
    <3> QED
      BY <3>1, <3>2
  <2>4. ASSUME pc'[p] \in Locked \cup {"flock"} PROVE link'[key'[p]]["lock"] = lockfd'[p]
    <3>1. CASE OpenLock(p)
      <4>1. exists[key[p]]
        BY <1>0, <2>4, <3>1 DEF OpenLock, Goto, Locked
      <4> QED
        BY <1>0, <3>1, <4>1, OpenLockEffect DEF OpenLock
    <3>2. CASE ~OpenLock(p)
      <4>1. UNCHANGED key /\ pc[p] \in Locked \cup {"flock"} /\ lockfd'[p] = lockfd[p]
        BY <1>0, <1>1, <2>0, <2>4, <3>2 DEF Step, Crash, Start, ReadMeta, ReadModule, EnsureDir,
           Flock, Transpile, TranspileFails, Create, Write, WriteFails, Unlock, Goto, Locked, locks
      <4>2. link[key[p]]["lock"] = lockfd[p] /\ lockfd[p] # 0
        BY <1>0, <4>1 DEF LockNamed
      <4> QED
        BY <1>0, <2>2, <4>1, <4>2
    <3> QED
      BY <3>1, <3>2
  <2>5. ASSUME NEW q \in Proc \ {p}, pc'[q] \in Locked \cup {"flock"}
        PROVE  link'[key'[q]]["lock"] = lockfd'[q]
    <3>1. pc'[q] = pc[q] /\ key'[q] = key[q] /\ lockfd'[q] = lockfd[q]
      BY <1>1, OthersAlone DEF Files
    <3>2. link[key[q]]["lock"] = lockfd[q] /\ lockfd[q] # 0
      BY <1>0, <2>5, <3>1 DEF LockNamed
    <3> QED
      BY <1>0, <2>2, <3>1, <3>2
  <2>6. ASSUME NEW q \in Proc \ {p}, pc'[q] \in Locked \cup {"flock", "openlock"}
        PROVE  exists'[key'[q]]
    <3>1. pc'[q] = pc[q] /\ key'[q] = key[q]
      BY <1>1, OthersAlone DEF Files
    <3> QED
      BY <1>0, <2>1, <2>6, <3>1 DEF LockNamed
  <2> QED
    BY <2>3, <2>4, <2>5, <2>6 DEF LockNamed
<1>2. ASSUME NEW path \in Path, Edit(path) PROVE LockNamed'
  BY <1>2 DEF Edit, LockNamed, files, locks
<1>3. CASE UNCHANGED vars
  BY <1>3 DEF vars, LockNamed, files, locks
<1> QED
  BY <1>1, <1>2, <1>3 DEF Next

(* While a process holds the lock of an entry no other changes it.         *)
LEMMA LockedAlone ==
    ASSUME Files, NothingRemoved, LockNamed, NEW p \in Proc, Step(p) \/ Crash(p),
           NEW q \in Proc \ {p}, pc[q] \in Locked, NEW n \in {"module", "meta"}
    PROVE  /\ link'[key[q]][n] = link[key[q]][n]
           /\ link[key[q]][n] # 0 => data'[link[key[q]][n]] = data[link[key[q]][n]]
<1>1. ~Unlink(p)
  BY DEF NothingRemoved, Unlink
<1>2. key[q] \in Key
  BY DEF Files, Shape
<1>3. pc[p] \notin {"open1", "write1", "open2", "write2"} \/ key[p] # key[q]
  BY Exclusion DEF Files, PopulationSerialized, Locked
<1> QED
  BY <1>1, <1>2, <1>3, EntryAlone

LEMMA MetaAlone ==
    ASSUME NEW k \in Key, link'[k]["meta"] = link[k]["meta"],
           link[k]["meta"] # 0 => data'[link[k]["meta"]] = data[link[k]["meta"]]
    PROVE  MetaValid(k)' <=> MetaValid(k)
BY DEF MetaValid

LEMMA FdNamedNext ==
    Files /\ NothingRemoved /\ LockNamed /\ FdNamed /\ [Next]_vars => FdNamed'
<1> SUFFICES ASSUME Files, NothingRemoved, LockNamed, FdNamed, [Next]_vars PROVE FdNamed'
  OBVIOUS
<1>0. /\ pc \in [Proc -> Place] /\ key \in [Proc -> Key] /\ fd \in [Proc -> Inode \cup {0}]
  BY ShapeFacts DEF Files, Shape
<1>1. ASSUME NEW p \in Proc, Step(p) \/ Crash(p) PROVE FdNamed'
  <2>1. ASSUME pc'[p] \in {"write1", "write2"}
        PROVE  link'[key'[p]][IF pc'[p] = "write1" THEN "module" ELSE "meta"] = fd'[p]
    <3>1. Create(p) /\ exists[key[p]]
      <4>1. Create(p)
        BY <1>0, <1>1, <2>1 DEF Step, Crash, Start, ReadMeta, ReadModule, EnsureDir, OpenLock,
           Flock, Transpile, TranspileFails, Write, WriteFails, ListVictims, Unlink, Rmdir,
           Unlock, Goto
      <4> QED
        BY <1>0, <2>1, <4>1 DEF Create, Goto
    <3>2. /\ UNCHANGED key
          /\ Creating(p) = IF pc'[p] = "write1" THEN "module" ELSE "meta"
      BY <1>0, <3>1, Turns DEF Create, Goto
    <3> QED
      BY <1>0, <3>1, <3>2, CreateEffect
  <2>2. ASSUME NEW q \in Proc \ {p}
        PROVE  /\ pc'[q] = "write1" => link'[key'[q]]["module"] = fd'[q]
               /\ pc'[q] = "write2" => link'[key'[q]]["meta"] = fd'[q]
    <3>1. pc'[q] = pc[q] /\ key'[q] = key[q] /\ fd'[q] = fd[q]
      BY <1>1, OthersAlone DEF Files
    <3>2. CASE pc[q] \in {"write1", "write2"}
      <4>1. /\ link'[key[q]]["module"] = link[key[q]]["module"]
            /\ link'[key[q]]["meta"] = link[key[q]]["meta"]
        BY <1>1, <3>2, LockedAlone DEF Locked
      <4> QED
        BY <3>1, <4>1 DEF FdNamed
    <3> QED
      BY <3>1, <3>2
  <2> QED
    BY <2>1, <2>2 DEF FdNamed
<1>2. ASSUME NEW path \in Path, Edit(path) PROVE FdNamed'
  BY <1>2 DEF Edit, FdNamed, files
<1>3. CASE UNCHANGED vars
  BY <1>3 DEF vars, FdNamed, files
<1> QED
  BY <1>1, <1>2, <1>3 DEF Next

LEMMA ValidEntryKeptNext ==
    /\ Files /\ NothingRemoved /\ LockNamed /\ ValidEntryKept /\ HitStays /\ ModuleBeside
    /\ [Next]_vars
    => ValidEntryKept'
<1> SUFFICES ASSUME Files, NothingRemoved, LockNamed, ValidEntryKept, HitStays, ModuleBeside,
                    [Next]_vars
             PROVE  ValidEntryKept'
  OBVIOUS
<1> DEFINE Making == {"transpile", "putdir", "open1", "write1", "open2"}
<1>0. /\ pc \in [Proc -> Place] /\ key \in [Proc -> Key]
  BY ShapeFacts DEF Files, Shape
<1>1. ASSUME NEW p \in Proc, Step(p) \/ Crash(p) PROVE ValidEntryKept'
  <2>1. ASSUME pc'[p] \in Making PROVE ~MetaValid(key[p])'
    <3>0. \/ ReadMeta(p) \/ ReadModule(p) \/ Transpile(p) \/ EnsureDir(p)
          \/ Create(p) /\ pc[p] = "open1"
          \/ Write(p) /\ pc[p] = "write1"
      BY <1>0, <1>1, <2>1 DEF Step, Crash, Start, OpenLock, Create, Flock, TranspileFails, Write,
         WriteFails, ListVictims, Unlink, Rmdir, Unlock, Goto, NothingRemoved
    <3>1. UNCHANGED key
      BY <3>0 DEF ReadMeta, ReadModule, Transpile, EnsureDir, Create, Write
    <3>2. ~MetaValid(key[p])
      <4>1. CASE ReadMeta(p)
        BY <1>0, <2>1, <4>1 DEF ReadMeta, HitMeta, Goto
      <4>2. CASE ReadModule(p)
        <5>1. pc[p] = "module2" /\ link[key[p]]["module"] = 0
          BY <1>0, <2>1, <4>2 DEF ReadModule, Goto
        <5>2. MetaValid(key[p])
          BY <5>1 DEF HitStays
        <5> QED
          BY <1>0, <5>1, <5>2 DEF ModuleBeside
      <4>3. CASE Transpile(p) \/ EnsureDir(p)
        BY <1>0, <2>1, <4>3 DEF Transpile, EnsureDir, ValidEntryKept, Goto
      <4>4. CASE (Create(p) /\ pc[p] = "open1") \/ (Write(p) /\ pc[p] = "write1")
        BY <4>4 DEF ValidEntryKept
      <4> QED
        BY <3>0, <4>1, <4>2, <4>3, <4>4
    <3>3. /\ link'[key[p]]["meta"] = link[key[p]]["meta"]
          /\ link[key[p]]["meta"] # 0 => data'[link[key[p]]["meta"]] = data[link[key[p]]["meta"]]
      <4>1. ~Unlink(p)
        BY DEF NothingRemoved, Unlink
      <4>2. \/ pc[p] \notin {"open1", "write1", "open2", "write2"}
            \/ Create(p) /\ "meta" # Creating(p)
            \/ Write(p) /\ "meta" # Writing(p)
        BY <3>0, Turns DEF ReadMeta, ReadModule, Transpile, EnsureDir
      <4> QED
        BY <1>0, <1>1, <4>1, <4>2, EntryAlone
    <3> QED
      BY <1>0, <3>1, <3>2, <3>3, MetaAlone
  <2>2. ASSUME NEW q \in Proc \ {p}, pc'[q] \in Making PROVE ~MetaValid(key[q])'
    <3>1. pc'[q] = pc[q] /\ key'[q] = key[q]
      BY <1>1, OthersAlone DEF Files
    <3>2. ~MetaValid(key[q])
      BY <2>2, <3>1 DEF ValidEntryKept
    <3>3. /\ link'[key[q]]["meta"] = link[key[q]]["meta"]
          /\ link[key[q]]["meta"] # 0 => data'[link[key[q]]["meta"]] = data[link[key[q]]["meta"]]
      BY <1>1, <2>2, <3>1, LockedAlone DEF Locked
    <3> QED
      BY <1>0, <3>1, <3>2, <3>3, MetaAlone
  <2>3. \A q \in Proc : (pc[q] \in Making => ~MetaValid(key[q]))'
    BY <2>1, <2>2
  <2> QED
    BY <2>3 DEF ValidEntryKept
<1>2. ASSUME NEW path \in Path, Edit(path) PROVE ValidEntryKept'
  BY <1>2 DEF Edit, ValidEntryKept, MetaValid, files
<1>3. CASE UNCHANGED vars
  BY <1>3 DEF vars, ValidEntryKept, MetaValid, files
<1> QED
  BY <1>1, <1>2, <1>3 DEF Next

(* Valid metadata stays valid: whoever rewrites it found it invalid under  *)
(* the lock.                                                               *)
LEMMA MetaStays ==
    ASSUME Files, NothingRemoved, ValidEntryKept, FdNamed,
           NEW p \in Proc, Step(p) \/ Crash(p), NEW k \in Key, MetaValid(k)
    PROVE  MetaValid(k)'
<1>1. ~Unlink(p)
  BY DEF NothingRemoved, Unlink
<1>2. CASE Write(p) /\ pc[p] = "write2" /\ key[p] = k
  <2>1. link[k]["meta"] = fd[p] /\ fd[p] # 0
    BY <1>2 DEF Files, OpenFiles, FdNamed
  <2> QED
    BY <1>2, <2>1, WriteEffect DEF MetaValid
<1>3. CASE Create(p) /\ pc[p] = "open2" /\ key[p] = k
  BY <1>3 DEF ValidEntryKept
<1>4. CASE ~(Write(p) /\ pc[p] = "write2" /\ key[p] = k) /\ ~(Create(p) /\ pc[p] = "open2" /\ key[p] = k)
  <2>1. CASE WriteFails(p) \/ Crash(p)
    BY <2>1 DEF WriteFails, Crash, files, MetaValid
  <2>2. CASE ~WriteFails(p) /\ ~Crash(p)
    <3>1. \/ pc[p] \notin {"open1", "write1", "open2", "write2"}
          \/ key[p] # k
          \/ Create(p) /\ "meta" # Creating(p)
          \/ Write(p) /\ "meta" # Writing(p)
      BY <1>4, <2>2, Turns DEF Step, Crash, Start, ReadMeta, ReadModule, EnsureDir, OpenLock, Flock,
         Transpile, TranspileFails, Create, Write, ListVictims, Unlink, Rmdir, Unlock
    <3> QED
      BY <1>1, <3>1, EntryAlone, MetaAlone
  <2> QED
    BY <2>1, <2>2
<1> QED
  BY <1>2, <1>3, <1>4

(* Metadata becomes valid by being written.                                *)
LEMMA ValidByWrite ==
    ASSUME Files, NEW p \in Proc, Step(p) \/ Crash(p), ~Unlink(p),
           NEW k \in Key, ~MetaValid(k), MetaValid(k)'
    PROVE  Write(p) /\ pc[p] = "write2" /\ key[p] = k
<1>1. CASE Create(p) /\ pc[p] = "open2" /\ key[p] = k /\ exists[key[p]]
  <2>1. Creating(p) = "meta"
    BY <1>1, Turns
  <2> QED
    BY <1>1, <2>1, CreateEffect DEF MetaValid
<1>2. CASE WriteFails(p) \/ Crash(p) \/ (Create(p) /\ ~exists[key[p]])
  BY <1>2 DEF WriteFails, Crash, Create, files, MetaValid
<1>3. CASE /\ ~(Write(p) /\ pc[p] = "write2" /\ key[p] = k)
           /\ ~(Create(p) /\ pc[p] = "open2" /\ key[p] = k)
           /\ ~WriteFails(p) /\ ~Crash(p)
  <2>1. \/ pc[p] \notin {"open1", "write1", "open2", "write2"}
        \/ key[p] # k
        \/ Create(p) /\ "meta" # Creating(p)
        \/ Write(p) /\ "meta" # Writing(p)
    BY <1>3, Turns DEF Step, Start, ReadMeta, ReadModule, EnsureDir, OpenLock, Flock, Transpile,
       TranspileFails, Create, Write, ListVictims, Unlink, Rmdir, Unlock
  <2> QED
    BY <2>1, EntryAlone, MetaAlone
<1> QED
  BY <1>1, <1>2, <1>3

LEMMA HitStaysNext ==
    /\ Files /\ NothingRemoved /\ FdNamed /\ ValidEntryKept /\ HitStays /\ [Next]_vars
    => HitStays'
<1> SUFFICES ASSUME Files, NothingRemoved, FdNamed, ValidEntryKept, HitStays, [Next]_vars
             PROVE  HitStays'
  OBVIOUS
<1>0. pc \in [Proc -> Place] /\ key \in [Proc -> Key]
  BY ShapeFacts DEF Files, Shape
<1>1. ASSUME NEW p \in Proc, Step(p) \/ Crash(p) PROVE HitStays'
  <2>1. ASSUME pc'[p] \in {"module1", "module2"} PROVE MetaValid(key[p])'
    <3>1. ReadMeta(p)
      BY <1>0, <1>1, <2>1 DEF Step, Crash, Start, ReadModule, EnsureDir, OpenLock, Flock, Transpile,
         TranspileFails, Create, Write, WriteFails, ListVictims, Unlink, Rmdir, Unlock, Goto
    <3>2. MetaValid(key[p]) /\ UNCHANGED <<key, link, data>>
      BY <1>0, <2>1, <3>1 DEF ReadMeta, HitMeta, Goto, files
    <3> QED
      BY <3>2 DEF MetaValid
  <2>2. ASSUME NEW q \in Proc \ {p}, pc'[q] \in {"module1", "module2"} PROVE MetaValid(key[q])'
    <3>1. pc'[q] = pc[q] /\ key'[q] = key[q]
      BY <1>1, OthersAlone DEF Files
    <3> QED
      BY <1>0, <1>1, <2>2, <3>1, MetaStays DEF HitStays
  <2>3. \A q \in Proc : (pc[q] \in {"module1", "module2"} => MetaValid(key[q]))'
    BY <2>1, <2>2
  <2> QED
    BY <2>3 DEF HitStays
<1>2. ASSUME NEW path \in Path, Edit(path) PROVE HitStays'
  BY <1>2 DEF Edit, HitStays, MetaValid, files
<1>3. CASE UNCHANGED vars
  BY <1>3 DEF vars, HitStays, MetaValid, files
<1> QED
  BY <1>1, <1>2, <1>3 DEF Next

LEMMA ModuleBesideNext ==
    Files /\ NothingRemoved /\ FdNamed /\ ModuleBeside /\ [Next]_vars => ModuleBeside'
<1> SUFFICES ASSUME Files, NothingRemoved, FdNamed, ModuleBeside, [Next]_vars
             PROVE  ModuleBeside'
  OBVIOUS
<1>0. /\ pc \in [Proc -> Place] /\ key \in [Proc -> Key] /\ {"module", "meta"} \subseteq Name
      /\ link \in [Key -> [Name -> Inode \cup {0}]] /\ 0 \notin Inode
      /\ data \in [Inode -> Content \cup {"none", "partial", "meta"}]
  BY ShapeFacts DEF Files, Shape, Name
<1>1. ASSUME NEW p \in Proc, Step(p) \/ Crash(p) PROVE ModuleBeside'
  <2>0. ~Unlink(p)
    BY DEF NothingRemoved, Unlink
  <2>1. ASSUME NEW k \in Key, link[k]["module"] # 0 PROVE link'[k]["module"] # 0
    <3>1. CASE Create(p) /\ exists[key[p]]
      BY <1>0, <2>1, <3>1, CreateEffect
    <3>2. CASE Create(p) /\ ~exists[key[p]]
      BY <2>1, <3>2 DEF Create
    <3>3. CASE OpenLock(p)
      <4>1. \/ UNCHANGED link
            \/ exists[key[p]]
        BY <3>3 DEF OpenLock
      <4> QED
        BY <1>0, <2>1, <3>3, <4>1, OpenLockEffect
    <3>4. CASE Write(p)
      BY <2>1, <3>4 DEF Write
    <3>5. CASE Crash(p)
      BY <2>1, <3>5 DEF Crash, files
    <3> QED
      BY <1>1, <2>0, <2>1, <3>1, <3>2, <3>3, <3>4, <3>5, FilesAlone
  <2>2. ASSUME NEW k \in Key, MetaValid(k)' PROVE link'[k]["module"] # 0
    <3>1. CASE MetaValid(k)
      BY <2>1, <3>1 DEF ModuleBeside
    <3>2. CASE ~MetaValid(k)
      <4>1. pc[p] = "write2" /\ key[p] = k
        BY <1>1, <2>0, <2>2, <3>2, ValidByWrite
      <4> QED
        BY <2>1, <4>1 DEF ModuleBeside
    <3> QED
      BY <3>1, <3>2
  <2>3. ASSUME pc'[p] \in {"open2", "write2"} PROVE link'[key'[p]]["module"] # 0
    <3>1. (Write(p) /\ pc[p] = "write1") \/ (Create(p) /\ pc[p] = "open2")
      BY <1>0, <1>1, <2>3 DEF Step, Crash, Start, ReadMeta, ReadModule, EnsureDir, OpenLock, Flock,
         Transpile, TranspileFails, Create, Write, WriteFails, ListVictims, Unlink, Rmdir, Unlock,
         Goto
    <3>2. UNCHANGED key
      BY <3>1 DEF Write, Create
    <3>3. link[key[p]]["module"] # 0
      BY <3>1 DEF ModuleBeside, FdNamed, Files, OpenFiles
    <3> QED
      BY <1>0, <2>1, <3>2, <3>3
  <2>4. ASSUME NEW q \in Proc \ {p}, pc'[q] \in {"open2", "write2"}
        PROVE  link'[key'[q]]["module"] # 0
    <3>1. pc'[q] = pc[q] /\ key'[q] = key[q]
      BY <1>1, OthersAlone DEF Files
    <3> QED
      BY <1>0, <2>1, <2>4, <3>1 DEF ModuleBeside
  <2> QED
    BY <2>2, <2>3, <2>4 DEF ModuleBeside
<1>2. ASSUME NEW path \in Path, Edit(path) PROVE ModuleBeside'
  BY <1>2 DEF Edit, ModuleBeside, MetaValid, files
<1>3. CASE UNCHANGED vars
  BY <1>3 DEF vars, ModuleBeside, MetaValid, files
<1> QED
  BY <1>1, <1>2, <1>3 DEF Next

LEMMA CleanInit == Init => CleanInv
BY KeyFacts DEF Init, CleanInv, NothingRemoved, LockNamed, FdNamed, ValidEntryKept, HitStays,
   ModuleBeside, MetaValid, Name, Locked

LEMMA CleanNext == Files /\ CleanInv /\ [Next]_vars => CleanInv'
<1> SUFFICES ASSUME Files, CleanInv, [Next]_vars, Clean'
             PROVE  (NothingRemoved /\ LockNamed /\ FdNamed
                       /\ ValidEntryKept /\ HitStays /\ ModuleBeside)'
  BY DEF CleanInv
<1>1. Clean
  BY CleanBefore DEF Files
<1>2. NothingRemoved /\ LockNamed /\ FdNamed /\ ValidEntryKept /\ HitStays /\ ModuleBeside
  BY <1>1 DEF CleanInv
<1>3. NothingRemoved'
  BY <1>1, <1>2, NothingRemovedNext DEF Files
<1> QED
  BY <1>2, <1>3, LockNamedNext, FdNamedNext, ValidEntryKeptNext, HitStaysNext, ModuleBesideNext

LEMMA CleanHolds == Spec => []CleanInv
BY FilesHold, CleanInit, CleanNext, PTL DEF Spec

(* However many processes run, start over and are killed, at most one      *)
(* populates a key at a time, as long as no population has failed.         *)
THEOREM PopulationSerializedHolds == Spec => [](Clean => PopulationSerialized)
<1>1. Files /\ CleanInv => (Clean => PopulationSerialized)
  BY Exclusion DEF Files, CleanInv
<1> QED
  BY <1>1, FilesHold, CleanHolds, PTL

(* As long as no population has failed, what is cached is not made again.  *)
THEOREM ValidEntryKeptHolds == Spec => [](Clean => ValidEntryKept)
<1>1. CleanInv => (Clean => ValidEntryKept)
  BY DEF CleanInv
<1> QED
  BY <1>1, CleanHolds, PTL

-----------------------------------------------------------------------------
(* What is cached, until a population fails or a file is edited.           *)

UndisturbedCore == KeysCurrent /\ OutCurrent /\ ModuleWritten /\ MetaVouchesForModule

LEMMA UndisturbedBefore ==
    Shape /\ [Next]_vars /\ Undisturbed' => Undisturbed /\ UNCHANGED <<failures, wasm>>
<1> SUFFICES ASSUME Shape, [Next]_vars, Undisturbed'
             PROVE  Undisturbed /\ UNCHANGED <<failures, wasm>>
  OBVIOUS
<1>0. failures \in Nat /\ edits \in Nat
  BY DEF Shape
<1>1. Clean'
  BY DEF Undisturbed, Clean
<1>2. UNCHANGED failures
  BY <1>1, CleanBefore
<1>3. ASSUME NEW p \in Proc, Step(p) \/ Crash(p) PROVE UNCHANGED <<edits, wasm>>
  BY <1>3 DEF Step, Crash, Start, ReadMeta, ReadModule, EnsureDir, OpenLock, Flock, Transpile,
     TranspileFails, Create, Write, WriteFails, ListVictims, Unlink, Rmdir, Unlock, bounds
<1>4. ASSUME NEW path \in Path, Edit(path) PROVE FALSE
  BY <1>0, <1>4 DEF Edit, Undisturbed
<1>5. CASE UNCHANGED vars
  BY <1>2, <1>5 DEF vars, bounds, Undisturbed
<1> QED
  BY <1>2, <1>3, <1>4, <1>5 DEF Next, Undisturbed

LEMMA KeysCurrentNext ==
    Files /\ KeysCurrent /\ [Next]_vars /\ UNCHANGED wasm => KeysCurrent'
<1> SUFFICES ASSUME Files, KeysCurrent, [Next]_vars, UNCHANGED wasm PROVE KeysCurrent'
  OBVIOUS
<1>0. pc \in [Proc -> Place] /\ key \in [Proc -> Key]
  BY ShapeFacts DEF Files, Shape
<1>1. ASSUME NEW p \in Proc, Step(p) \/ Crash(p) PROVE KeysCurrent'
  <2>1. pc'[p] # "idle" => key'[p] = wasm[WasmOf[p]]
    <3>1. CASE Start(p)
      BY <1>0, <3>1 DEF Start
    <3>2. CASE ~Start(p)
      <4>1. UNCHANGED key /\ pc[p] # "idle"
        BY <1>1, <3>2 DEF Step, Crash, ReadMeta, ReadModule, EnsureDir, OpenLock, Flock, Transpile,
           TranspileFails, Create, Write, WriteFails, ListVictims, Unlink, Rmdir, Unlock
      <4> QED
        BY <4>1 DEF KeysCurrent
    <3> QED
      BY <3>1, <3>2
  <2> QED
    BY <1>1, <2>1, OthersAlone DEF KeysCurrent, Files
<1>2. ASSUME NEW path \in Path, Edit(path) PROVE KeysCurrent'
  BY <1>2 DEF Edit, KeysCurrent
<1>3. CASE UNCHANGED vars
  BY <1>3 DEF vars, KeysCurrent
<1> QED
  BY <1>1, <1>2, <1>3 DEF Next

LEMMA OutCurrentNext ==
    /\ Files /\ NothingRemoved /\ HitStays /\ UndisturbedCore
    /\ NothingRemoved' /\ [Next]_vars
    => OutCurrent'
<1> SUFFICES ASSUME Files, NothingRemoved, HitStays, UndisturbedCore, NothingRemoved', [Next]_vars
             PROVE  OutCurrent'
  OBVIOUS
<1>0. /\ pc \in [Proc -> Place] /\ key \in [Proc -> Content \cup {NoKey}]
      /\ out \in [Proc -> Content \cup {"none", "fail", "partial"}]
  BY ShapeFacts DEF Files, Shape, Key
<1>1. ASSUME NEW p \in Proc, Step(p) \/ Crash(p) PROVE OutCurrent'
  <2>1. ASSUME pc'[p] \in Populating \cup {"unlock"} PROVE out'[p] = key'[p]
    <3>1. CASE Transpile(p)
      BY <1>0, <3>1 DEF Transpile, UndisturbedCore, KeysCurrent
    <3>2. CASE ReadModule(p)
      <4>1. pc[p] = "module2" /\ out' = [out EXCEPT ![p] = data[link[key[p]]["module"]]]
            /\ UNCHANGED key
        BY <1>0, <2>1, <3>2 DEF ReadModule, Goto, Populating
      <4>2. MetaValid(key[p]) /\ key[p] \in Content
        BY <1>0, <4>1 DEF HitStays, NothingRemoved
      <4>3. data[link[key[p]]["module"]] = key[p]
        BY <4>2 DEF UndisturbedCore, MetaVouchesForModule
      <4> QED
        BY <1>0, <4>1, <4>3
    <3>3. CASE EnsureDir(p) \/ Create(p) \/ Write(p)
      <4>1. pc[p] \in Populating \cup {"unlock"} /\ UNCHANGED key /\ out'[p] = out[p]
        BY <1>0, <2>1, <3>3 DEF EnsureDir, Create, Write, Goto, Populating
      <4> QED
        BY <4>1 DEF UndisturbedCore, OutCurrent
    <3>4. Transpile(p) \/ ReadModule(p) \/ EnsureDir(p) \/ Create(p) \/ Write(p)
      BY <1>0, <1>1, <2>1 DEF Step, Crash, Start, ReadMeta, OpenLock, Flock, TranspileFails, WriteFails,
         ListVictims, Unlink, Rmdir, Unlock, Goto, Populating, NothingRemoved
    <3> QED
      BY <3>1, <3>2, <3>3, <3>4
  <2> QED
    BY <1>1, <2>1, OthersAlone DEF OutCurrent, UndisturbedCore, Files
<1>2. ASSUME NEW path \in Path, Edit(path) PROVE OutCurrent'
  BY <1>2 DEF Edit, OutCurrent, UndisturbedCore
<1>3. CASE UNCHANGED vars
  BY <1>3 DEF vars, OutCurrent, UndisturbedCore
<1> QED
  BY <1>1, <1>2, <1>3 DEF Next

LEMMA ModuleWrittenNext ==
    /\ Files /\ NothingRemoved /\ LockNamed /\ FdNamed /\ UndisturbedCore /\ [Next]_vars
    => ModuleWritten'
<1> SUFFICES ASSUME Files, NothingRemoved, LockNamed, FdNamed, UndisturbedCore, [Next]_vars
             PROVE  ModuleWritten'
  OBVIOUS
<1>0. pc \in [Proc -> Place] /\ key \in [Proc -> Key]
  BY ShapeFacts DEF Files, Shape
<1>1. ASSUME NEW p \in Proc, Step(p) \/ Crash(p) PROVE ModuleWritten'
  <2>1. ASSUME pc'[p] \in {"open2", "write2"}
        PROVE  link'[key'[p]]["module"] # 0 /\ data'[link'[key'[p]]["module"]] = key'[p]
    <3>1. CASE Write(p) /\ pc[p] = "write1"
      <4>1. link[key[p]]["module"] = fd[p] /\ fd[p] # 0 /\ out[p] = key[p]
        BY <3>1 DEF FdNamed, Files, OpenFiles, UndisturbedCore, OutCurrent, Populating
      <4> QED
        BY <3>1, <4>1, WriteEffect DEF Write
    <3>2. CASE Create(p) /\ pc[p] = "open2"
      <4>1. link[key[p]]["module"] # 0 /\ data[link[key[p]]["module"]] = key[p]
        BY <3>2 DEF UndisturbedCore, ModuleWritten
      <4>2. "module" # Creating(p) /\ ~Unlink(p) /\ UNCHANGED key
        BY <3>2, Turns DEF Unlink, Create
      <4> QED
        BY <1>0, <1>1, <3>2, <4>1, <4>2, EntryAlone
    <3>3. (Write(p) /\ pc[p] = "write1") \/ (Create(p) /\ pc[p] = "open2")
      BY <1>0, <1>1, <2>1 DEF Step, Crash, Start, ReadMeta, ReadModule, EnsureDir, OpenLock, Flock,
         Transpile, TranspileFails, Create, Write, WriteFails, ListVictims, Unlink, Rmdir, Unlock,
         Goto
    <3> QED
      BY <3>1, <3>2, <3>3
  <2>2. ASSUME NEW q \in Proc \ {p}, pc'[q] \in {"open2", "write2"}
        PROVE  link'[key'[q]]["module"] # 0 /\ data'[link'[key'[q]]["module"]] = key'[q]
    <3>1. pc'[q] = pc[q] /\ key'[q] = key[q]
      BY <1>1, OthersAlone DEF Files
    <3>2. link[key[q]]["module"] # 0 /\ data[link[key[q]]["module"]] = key[q]
      BY <2>2, <3>1 DEF UndisturbedCore, ModuleWritten
    <3> QED
      BY <1>1, <2>2, <3>1, <3>2, LockedAlone DEF Locked
  <2> QED
    BY <2>1, <2>2 DEF ModuleWritten
<1>2. ASSUME NEW path \in Path, Edit(path) PROVE ModuleWritten'
  BY <1>2 DEF Edit, ModuleWritten, UndisturbedCore, files
<1>3. CASE UNCHANGED vars
  BY <1>3 DEF vars, ModuleWritten, UndisturbedCore, files
<1> QED
  BY <1>1, <1>2, <1>3 DEF Next

LEMMA MetaVouchesNext ==
    /\ Files /\ NothingRemoved /\ ValidEntryKept /\ UndisturbedCore /\ [Next]_vars
    => MetaVouchesForModule'
<1> SUFFICES ASSUME Files, NothingRemoved, ValidEntryKept, UndisturbedCore, [Next]_vars
             PROVE  MetaVouchesForModule'
  OBVIOUS
<1>1. ASSUME NEW p \in Proc, Step(p) \/ Crash(p) PROVE MetaVouchesForModule'
  <2>0. ~Unlink(p)
    BY DEF NothingRemoved, Unlink
  <2>1. ASSUME NEW k \in Content, MetaValid(k)'
        PROVE  link'[k]["module"] # 0 /\ data'[link'[k]["module"]] = k
    <3>0. k \in Key
      BY KeyFacts
    <3>1. CASE MetaValid(k)
      <4>1. link[k]["module"] # 0 /\ data[link[k]["module"]] = k
        BY <3>1 DEF UndisturbedCore, MetaVouchesForModule
      <4>2. CASE WriteFails(p) \/ Crash(p)
        BY <4>1, <4>2 DEF WriteFails, Crash, files
      <4>3. CASE ~WriteFails(p) /\ ~Crash(p)
        <5>1. \/ pc[p] \notin {"open1", "write1", "open2", "write2"}
              \/ key[p] # k
              \/ Create(p) /\ "module" # Creating(p)
              \/ Write(p) /\ "module" # Writing(p)
          BY <1>1, <3>1, <4>3, Turns DEF ValidEntryKept, Step, Start, ReadMeta, ReadModule, EnsureDir,
             OpenLock, Flock, Transpile, TranspileFails, Create, Write, ListVictims, Unlink, Rmdir,
             Unlock
        <5> QED
          BY <1>1, <2>0, <3>0, <4>1, <5>1, EntryAlone
      <4> QED
        BY <4>2, <4>3
    <3>2. CASE ~MetaValid(k)
      <4>1. Write(p) /\ pc[p] = "write2" /\ key[p] = k
        BY <1>1, <2>0, <2>1, <3>0, <3>2, ValidByWrite
      <4>2. link[k]["module"] # 0 /\ data[link[k]["module"]] = k
        BY <4>1 DEF UndisturbedCore, ModuleWritten
      <4>3. "module" # Writing(p)
        BY <4>1, Turns
      <4> QED
        BY <1>1, <2>0, <3>0, <4>1, <4>2, <4>3, EntryAlone
    <3> QED
      BY <3>1, <3>2
  <2> QED
    BY <2>1 DEF MetaVouchesForModule
<1>2. ASSUME NEW path \in Path, Edit(path) PROVE MetaVouchesForModule'
  BY <1>2 DEF Edit, MetaVouchesForModule, MetaValid, UndisturbedCore, files
<1>3. CASE UNCHANGED vars
  BY <1>3 DEF vars, MetaVouchesForModule, MetaValid, UndisturbedCore, files
<1> QED
  BY <1>1, <1>2, <1>3 DEF Next

LEMMA RunsReturnNext ==
    /\ Files /\ NothingRemoved /\ LockNamed /\ HitStays /\ UndisturbedCore
    /\ RunsReturnTheSource /\ [Next]_vars /\ UNCHANGED wasm
    => RunsReturnTheSource'
<1> SUFFICES ASSUME Files, NothingRemoved, LockNamed, HitStays, UndisturbedCore,
                    RunsReturnTheSource, [Next]_vars, UNCHANGED wasm
             PROVE  RunsReturnTheSource'
  OBVIOUS
<1>0. /\ pc \in [Proc -> Place] /\ key \in [Proc -> Content \cup {NoKey}]
      /\ out \in [Proc -> Content \cup {"none", "fail", "partial"}]
  BY ShapeFacts DEF Files, Shape, Key
<1>1. ASSUME NEW p \in Proc, Step(p) \/ Crash(p) PROVE RunsReturnTheSource'
  <2>1. ASSUME pc'[p] = "idle" PROVE out'[p] \in {"fail", wasm[WasmOf[p]]}
    <3>1. CASE ReadModule(p)
      <4>1. pc[p] = "module1" /\ out' = [out EXCEPT ![p] = data[link[key[p]]["module"]]]
        BY <1>0, <2>1, <3>1 DEF ReadModule, Goto
      <4>2. MetaValid(key[p]) /\ key[p] \in Content /\ key[p] = wasm[WasmOf[p]]
        BY <1>0, <4>1 DEF HitStays, NothingRemoved, UndisturbedCore, KeysCurrent
      <4>3. data[link[key[p]]["module"]] = key[p]
        BY <4>2 DEF UndisturbedCore, MetaVouchesForModule
      <4> QED
        BY <1>0, <4>1, <4>2, <4>3
    <3>2. CASE OpenLock(p) \/ Crash(p)
      BY <1>0, <2>1, <3>2 DEF OpenLock, Crash, Goto
    <3>3. CASE Unlock(p)
      BY <3>3 DEF Unlock, UndisturbedCore, OutCurrent, KeysCurrent
    <3>4. ReadModule(p) \/ OpenLock(p) \/ Crash(p) \/ Unlock(p)
      BY <1>0, <1>1, <2>1 DEF Step, Start, ReadMeta, EnsureDir, Flock, Transpile, TranspileFails,
         Create, Write, WriteFails, ListVictims, Unlink, Rmdir, Goto
    <3> QED
      BY <3>1, <3>2, <3>3, <3>4
  <2> QED
    BY <1>1, <2>1, OthersAlone DEF RunsReturnTheSource, Files
<1>2. ASSUME NEW path \in Path, Edit(path) PROVE RunsReturnTheSource'
  BY <1>2 DEF Edit, RunsReturnTheSource
<1>3. CASE UNCHANGED vars
  BY <1>3 DEF vars, RunsReturnTheSource
<1> QED
  BY <1>1, <1>2, <1>3 DEF Next

(* Only a kill makes a run fail: one kill, one run.                        *)
LEMMA FailedNext ==
    /\ Files /\ NothingRemoved /\ LockNamed /\ FailedCounted /\ [Next]_vars
    /\ UNCHANGED failures
    => FailedCounted'
<1> SUFFICES ASSUME Files, NothingRemoved, LockNamed, FailedCounted, [Next]_vars,
                    UNCHANGED failures
             PROVE  FailedCounted'
  OBVIOUS
<1>0. /\ out \in [Proc -> Content \cup {"none", "fail", "partial"}]
      /\ wasm \in [Path -> Content \cup {NoKey}] /\ WasmOf \in [Proc -> Path]
      /\ failures \in Nat /\ crashes \in Nat /\ key \in [Proc -> Key]
      /\ \A c \in Content : c \notin {"none", "fail", "partial"}
  BY ShapeFacts, KeyFacts DEF Files, Shape
<1>1. ASSUME Failed' \subseteq Failed, UNCHANGED crashes PROVE FailedCounted'
  BY <1>0, <1>1, FS_Subset, FS_CardinalityType DEF FailedCounted
<1>2. ASSUME NEW p \in Proc, Step(p) PROVE FailedCounted'
  <2>1. UNCHANGED crashes
    BY <1>2 DEF Step, Start, ReadMeta, ReadModule, EnsureDir, OpenLock, Flock, Transpile,
       TranspileFails, Create, Write, WriteFails, ListVictims, Unlink, Rmdir, Unlock, bounds
  <2>2. out'[p] = "fail" => out[p] = "fail"
    <3>1. CASE OpenLock(p) \/ Create(p)
      <4>1. exists[key[p]]
        BY <3>1 DEF OpenLock, Create, LockNamed, Locked
      <4> QED
        BY <3>1, <4>1 DEF OpenLock, Create
    <3>2. ~TranspileFails(p) /\ ~WriteFails(p)
      BY <1>0 DEF TranspileFails, WriteFails, NothingRemoved
    <3>3. CASE ReadModule(p)
      <4>1. link[key[p]]["module"] # 0 => data[link[key[p]]["module"]] # "fail"
        BY <1>0 DEF Files, Contents
      <4> QED
        BY <1>0, <3>3, <4>1 DEF ReadModule
    <3>4. CASE Start(p)
      BY <1>0, <3>4 DEF Start
    <3>5. CASE Transpile(p)
      BY <1>0, <3>5, ProcAssumption DEF Transpile
    <3> QED
      BY <1>2, <3>1, <3>2, <3>3, <3>4, <3>5 DEF Step, ReadMeta, EnsureDir, Flock, Write,
         ListVictims, Unlink, Rmdir, Unlock
  <2>3. \A q \in Proc \ {p} : out'[q] = out[q]
    BY <1>2, OthersAlone DEF Files
  <2> QED
    BY <1>1, <2>1, <2>2, <2>3 DEF Failed
<1>3. ASSUME NEW p \in Proc, Crash(p) PROVE FailedCounted'
  <2>1. Failed' = Failed \cup {p} /\ crashes' = crashes + 1
    BY <1>0, <1>3 DEF Crash, Failed
  <2>2. /\ IsFiniteSet(Failed')
        /\ Cardinality(Failed') <= Cardinality(Failed) + 1
    BY <2>1, FS_AddElement, FS_CardinalityType DEF FailedCounted
  <2>3. Cardinality(Failed) \in Nat /\ Cardinality(Failed') \in Nat
    BY <2>2, FS_CardinalityType DEF FailedCounted
  <2> QED
    BY <1>0, <2>1, <2>2, <2>3 DEF FailedCounted
<1>4. ASSUME NEW path \in Path, Edit(path) PROVE FailedCounted'
  BY <1>1, <1>4 DEF Edit, Failed
<1>5. CASE UNCHANGED vars
  BY <1>1, <1>5 DEF vars, bounds, Failed
<1> QED
  BY <1>2, <1>3, <1>4, <1>5 DEF Next

LEMMA UndisturbedInit == Init => UndisturbedInv
<1> SUFFICES ASSUME Init PROVE UndisturbedInv
  OBVIOUS
<1>1. Failed = {} /\ crashes = 0
  BY DEF Init, Failed
<1>2. FailedCounted
  BY <1>1, FS_EmptySet DEF FailedCounted
<1> QED
  BY <1>2, KeyFacts DEF Init, UndisturbedInv, KeysCurrent, OutCurrent, ModuleWritten,
     MetaVouchesForModule, MetaValid, RunsReturnTheSource, Name, Populating

LEMMA UndisturbedNext ==
    Files /\ CleanInv /\ CleanInv' /\ UndisturbedInv /\ [Next]_vars => UndisturbedInv'
<1> SUFFICES ASSUME Files, CleanInv, CleanInv', UndisturbedInv, [Next]_vars, Undisturbed'
             PROVE  (UndisturbedCore /\ RunsReturnTheSource /\ FailedCounted)'
  BY DEF UndisturbedInv, UndisturbedCore
<1>1. Undisturbed /\ UNCHANGED <<failures, wasm>>
  BY UndisturbedBefore DEF Files
<1>2. /\ NothingRemoved /\ LockNamed /\ FdNamed /\ ValidEntryKept /\ HitStays
      /\ NothingRemoved'
  BY <1>1 DEF Undisturbed, CleanInv, Clean
<1>3. UndisturbedCore /\ RunsReturnTheSource /\ FailedCounted
  BY <1>1 DEF UndisturbedInv, UndisturbedCore
<1>4. KeysCurrent' /\ OutCurrent'
  BY <1>1, <1>2, <1>3, KeysCurrentNext, OutCurrentNext DEF UndisturbedCore
<1>5. ModuleWritten' /\ MetaVouchesForModule'
  BY <1>2, <1>3, ModuleWrittenNext, MetaVouchesNext
<1>6. RunsReturnTheSource' /\ FailedCounted'
  BY <1>1, <1>2, <1>3, RunsReturnNext, FailedNext
<1> QED
  BY <1>4, <1>5, <1>6 DEF UndisturbedCore

LEMMA UndisturbedHolds == Spec => []UndisturbedInv
<1>1. Files /\ CleanInv /\ UndisturbedInv /\ [Next]_vars => UndisturbedInv'
  BY CleanNext, UndisturbedNext
<1> QED
  BY <1>1, UndisturbedInit, FilesHold, CleanHolds, PTL DEF Spec

(* Metadata vouches for the module, although writers are killed half-way   *)
(* and others take over, until a population fails or a file is edited.     *)
THEOREM MetaVouchesHolds == Spec => [](Undisturbed => MetaVouchesForModule)
<1>1. UndisturbedInv => (Undisturbed => MetaVouchesForModule)
  BY DEF UndisturbedInv
<1> QED
  BY <1>1, UndisturbedHolds, PTL

(* Until then, every run that is not killed returns the whole source of    *)
(* its file, from the cache or not.                                        *)
THEOREM RunsReturnHolds == Spec => [](Undisturbed => RunsReturnTheSource)
<1>1. UndisturbedInv => (Undisturbed => RunsReturnTheSource)
  BY DEF UndisturbedInv
<1> QED
  BY <1>1, UndisturbedHolds, PTL

(* And no run fails because of another: there are no more failed runs than *)
(* kills.                                                                  *)
THEOREM FailuresAreOwnHolds == Spec => [](Undisturbed => FailuresAreOwn)
<1>1. UndisturbedInv => (Undisturbed => FailuresAreOwn)
  BY DEF UndisturbedInv, FailedCounted, Failed, FailuresAreOwn
<1> QED
  BY <1>1, UndisturbedHolds, PTL

-----------------------------------------------------------------------------
(* What is at rest, until a process is killed or a file is edited.         *)

LEMMA KeysKeptNext ==
    Files /\ KilledNone' /\ KeysKept /\ [Next]_vars => KeysKept'
<1> SUFFICES ASSUME Files, KilledNone', KeysKept, [Next]_vars PROVE KeysKept'
  OBVIOUS
<1>0. /\ pc \in [Proc -> Place] /\ key \in [Proc -> Key] /\ WasmOf \in [Proc -> Path]
      /\ wasm \in [Path -> Content \cup {NoKey}]
      /\ out \in [Proc -> Content \cup {"none", "fail", "partial"}]
  BY ShapeFacts DEF Files, Shape
<1>1. ASSUME NEW p \in Proc, Step(p) \/ Crash(p) PROVE KeysKept'
  <2>1. UNCHANGED wasm
    BY <1>1 DEF Step, Crash, Start, ReadMeta, ReadModule, EnsureDir, OpenLock, Flock, Transpile,
       TranspileFails, Create, Write, WriteFails, ListVictims, Unlink, Rmdir, Unlock
  <2>2. /\ pc'[p] # "idle" => wasm[WasmOf[p]] \in {key'[p], NoKey}
        /\ pc'[p] \in Populating => out'[p] = key'[p]
    <3>1. CASE Start(p)
      BY <1>0, <3>1 DEF Start, Goto, Populating
    <3>2. CASE Transpile(p)
      BY <1>0, <3>2 DEF Transpile, KeysKept
    <3>3. CASE ~Start(p) /\ ~Transpile(p)
      <4>1. UNCHANGED key /\ pc[p] # "idle"
        BY <1>1, <3>3 DEF Step, Crash, ReadMeta, ReadModule, EnsureDir, OpenLock, Flock,
           TranspileFails, Create, Write, WriteFails, ListVictims, Unlink, Rmdir, Unlock
      <4>2. pc'[p] \in Populating => pc[p] \in Populating /\ out'[p] = out[p]
        BY <1>0, <1>1, <3>3 DEF Step, Crash, ReadMeta, ReadModule, EnsureDir, OpenLock, Flock,
           TranspileFails, Create, Write, WriteFails, ListVictims, Unlink, Rmdir, Unlock, Goto,
           Populating
      <4> QED
        BY <4>1, <4>2 DEF KeysKept
    <3> QED
      BY <3>1, <3>2, <3>3
  <2> QED
    BY <1>1, <2>1, <2>2, OthersAlone DEF KeysKept, Files
<1>2. ASSUME NEW path \in Path, Edit(path) PROVE KeysKept'
  <2>1. wasm' = [wasm EXCEPT ![path] = NoKey]
    BY <1>2 DEF Edit, KilledNone
  <2>2. \A q \in Proc : wasm'[WasmOf[q]] \in {wasm[WasmOf[q]], NoKey}
    BY <1>0, <2>1
  <2> QED
    BY <1>2, <2>2 DEF Edit, KeysKept
<1>3. CASE UNCHANGED vars
  BY <1>3 DEF vars, KeysKept
<1> QED
  BY <1>1, <1>2, <1>3 DEF Next

(* Another process goes on being responsible.                              *)
LEMMA ResponsibleOthers ==
    ASSUME Files, NEW p \in Proc, Step(p), NEW q \in Proc \ {p}, NEW k, NEW i,
           Responsible(q, k, i)
    PROVE  Responsible(q, k, i)'
<1>1. pc'[q] = pc[q] /\ key'[q] = key[q] /\ fd'[q] = fd[q] /\ victims'[q] = victims[q]
  BY OthersAlone DEF Files
<1> QED
  BY <1>1 DEF Responsible, RemovedTree

(* And so does the process that takes the step, unless it writes or removes*)
(* what it is responsible for.                                             *)
LEMMA ResponsibleSelf ==
    ASSUME Files, NEW p \in Proc, Step(p), NEW k \in Content,
           link[k]["module"] # 0, Responsible(p, k, link[k]["module"])
    PROVE  \/ link'[k]["module"] = 0
           \/ Write(p) /\ pc[p] = "write1" /\ fd[p] = link[k]["module"]
           \/ Responsible(p, k, link[k]["module"])'
<1>0. /\ pc \in [Proc -> Place] /\ fd \in [Proc -> Inode \cup {0}]
      /\ victims \in [Proc -> SUBSET (Key \X Name)]
      /\ "module" \in Name /\ k \in Key /\ link \in [Key -> [Name -> Inode \cup {0}]]
  BY ShapeFacts, KeyFacts DEF Files, Shape, Name
<1>1. CASE pc[p] = "write1" /\ fd[p] = link[k]["module"]
  <2>1. k = key[p]
    BY <1>0, <1>1 DEF Files, OpenByName
  <2>2. CASE WriteFails(p)
    BY <1>0, <2>1, <2>2 DEF WriteFails, Goto, Responsible, RemovedTree, Below
  <2>3. Write(p) \/ WriteFails(p)
    BY <1>1 DEF Step, Start, ReadMeta, ReadModule, EnsureDir, OpenLock, Flock, Transpile,
       TranspileFails, Create, ListVictims, Unlink, Rmdir, Unlock
  <2> QED
    BY <1>1, <2>2, <2>3
<1>2. CASE pc[p] = "list" /\ k \in RemovedTree(p)
  <2>1. ListVictims(p)
    BY <1>2 DEF Step, Start, ReadMeta, ReadModule, EnsureDir, OpenLock, Flock, Transpile,
       TranspileFails, Create, Write, WriteFails, Unlink, Rmdir, Unlock
  <2>2. victims'[p] = { v \in RemovedTree(p) \X Name : link[v[1]][v[2]] # 0 }
    BY <1>0, <2>1 DEF ListVictims
  <2>3. <<k, "module">> \in victims'[p]
    BY <1>0, <1>2, <2>2
  <2>4. pc'[p] = "unlink"
    BY <1>0, <2>1 DEF ListVictims, Goto
  <2> QED
    BY <2>3, <2>4 DEF Responsible
<1>3. CASE pc[p] = "unlink" /\ <<k, "module">> \in victims[p]
  <2>1. Unlink(p)
    BY <1>3 DEF Step, Start, ReadMeta, ReadModule, EnsureDir, OpenLock, Flock, Transpile,
       TranspileFails, Create, Write, WriteFails, ListVictims, Rmdir, Unlock
  <2>2. PICK v \in Key \X Name : /\ Named(v[1], v[2], 0)
                                 /\ victims' = [victims EXCEPT ![p] = victims[p] \ {v}]
    BY <1>0, <2>1 DEF Unlink
  <2>3. CASE v = <<k, "module">>
    BY <1>0, <2>2, <2>3, NamedEffect
  <2>4. CASE v # <<k, "module">>
    BY <1>0, <1>3, <2>1, <2>2, <2>4 DEF Unlink, Responsible
  <2> QED
    BY <2>3, <2>4
<1> QED
  BY <1>1, <1>2, <1>3 DEF Responsible

LEMMA NoneAbandonedNext ==
    Files /\ KilledNone' /\ KeysKept /\ NoneAbandoned /\ [Next]_vars => NoneAbandoned'
<1> SUFFICES ASSUME Files, KilledNone', KeysKept, NoneAbandoned, [Next]_vars
             PROVE  NoneAbandoned'
  OBVIOUS
<1>0. /\ pc \in [Proc -> Place] /\ key \in [Proc -> Key] /\ fd \in [Proc -> Inode \cup {0}]
      /\ link \in [Key -> [Name -> Inode \cup {0}]] /\ "module" \in Name /\ Content \subseteq Key
      /\ crashes \in Nat /\ 0 \notin Inode
  BY ShapeFacts, KeyFacts DEF Files, Shape, Name
<1>1. ASSUME NEW p \in Proc, Step(p), NEW k \in Content
      PROVE  \/ link'[k]["module"] = 0
             \/ data'[link'[k]["module"]] = k
             \/ \E q \in Proc : Responsible(q, k, link[k]["module"])'
  <2>1. CASE Create(p) /\ exists[key[p]] /\ key[p] = k /\ Creating(p) = "module"
    <3>1. pc[p] = "open1"
      BY <2>1, Turns
    <3>2. pc'[p] = "write1" /\ fd'[p] = link'[k]["module"]
      BY <1>0, <2>1, <3>1, CreateEffect DEF Create, Goto
    <3> QED
      BY <3>2 DEF Responsible
  <2>2. CASE Write(p) /\ pc[p] = "write1" /\ fd[p] = link[k]["module"]
    <3>1. k = key[p]
      BY <1>0, <2>2 DEF Files, OpenByName, OpenFiles
    <3>2. out[p] = k
      BY <2>2, <3>1 DEF KeysKept, Populating
    <3> QED
      BY <2>2, <3>2, WriteEffect
  <2>3. CASE /\ ~(Create(p) /\ exists[key[p]] /\ key[p] = k /\ Creating(p) = "module")
             /\ ~(Write(p) /\ pc[p] = "write1" /\ fd[p] = link[k]["module"])
    <3>1. \/ link'[k]["module"] = 0
          \/ /\ link'[k]["module"] = link[k]["module"]
             /\ data'[link[k]["module"]] = data[link[k]["module"]]
      <4>1. CASE Unlink(p)
        <5>1. PICK v \in Key \X Name : Named(v[1], v[2], 0)
          BY <4>1, ShapeFacts DEF Unlink, Files
        <5>2. link'[k]["module"] \in {0, link[k]["module"]}
          BY <1>0, <5>1, NamedEffect
        <5> QED
          BY <4>1, <5>2 DEF Unlink
      <4>2. CASE Write(p)
        <5>1. UNCHANGED link /\ (link[k]["module"] # 0 => link[k]["module"] # fd[p])
          <6>1. link[k]["module"] = fd[p] => Writing(p) = "module"
            BY <1>0, <4>2, WriteEffect
          <6> QED
            BY <2>3, <4>2, <6>1, Turns DEF Write
        <5> QED
          BY <1>0, <4>2, <5>1, WriteEffect
      <4>3. CASE WriteFails(p) \/ (Create(p) /\ ~exists[key[p]])
        BY <4>3 DEF WriteFails, Create, files
      <4>4. CASE ~Unlink(p) /\ ~Write(p) /\ ~WriteFails(p) /\ ~(Create(p) /\ ~exists[key[p]])
        <5>1. \/ pc[p] \notin {"open1", "write1", "open2", "write2"}
              \/ key[p] # k
              \/ Create(p) /\ "module" # Creating(p)
          BY <1>1, <2>3, <4>4 DEF Step, Start, ReadMeta, ReadModule, EnsureDir, OpenLock, Flock,
             Transpile, TranspileFails, Create, ListVictims, Rmdir, Unlock
        <5>2. link'[k]["module"] = link[k]["module"]
          BY <1>0, <1>1, <4>4, <5>1, EntryAlone
        <5>3. CASE link[k]["module"] = 0
          BY <5>2, <5>3
        <5>4. CASE link[k]["module"] # 0
          BY <1>0, <1>1, <4>4, <5>1, <5>2, <5>4, EntryAlone
        <5> QED
          BY <5>3, <5>4
      <4> QED
        BY <4>1, <4>2, <4>3, <4>4
    <3>2. CASE link'[k]["module"] # 0 /\ data[link[k]["module"]] # k
      <4>1. link'[k]["module"] = link[k]["module"]
        BY <3>1, <3>2
      <4>2. PICK q \in Proc : Responsible(q, k, link[k]["module"])
        BY <3>2, <4>1 DEF NoneAbandoned
      <4>3. Responsible(q, k, link[k]["module"])'
        <5>1. CASE q = p
          BY <1>1, <2>3, <3>2, <4>1, <4>2, <5>1, ResponsibleSelf
        <5>2. CASE q # p
          <6>1. \A i : Responsible(q, k, i) => Responsible(q, k, i)'
            BY <1>1, <5>2, ResponsibleOthers
          <6> QED
            BY <4>1, <4>2, <6>1
        <5> QED
          BY <5>1, <5>2
      <4> QED
        BY <4>3
    <3> QED
      BY <3>1, <3>2
  <2> QED
    BY <2>1, <2>2, <2>3
<1>2. ASSUME NEW p \in Proc, Crash(p) PROVE FALSE
  BY <1>0, <1>2 DEF Crash, KilledNone
<1>3. ASSUME NEW path \in Path, Edit(path) PROVE NoneAbandoned'
  BY <1>3 DEF Edit, NoneAbandoned, Responsible, RemovedTree, files
<1>4. CASE UNCHANGED vars
  BY <1>4 DEF vars, NoneAbandoned, Responsible, RemovedTree, files
<1> QED
  BY <1>1, <1>2, <1>3, <1>4 DEF Next, NoneAbandoned

LEMMA RestInit == Init => RestInv
BY KeyFacts DEF Init, RestInv, KeysKept, NoneAbandoned, Name, Populating

LEMMA RestNext == Files /\ RestInv /\ [Next]_vars => RestInv'
<1> SUFFICES ASSUME Files, RestInv, [Next]_vars, KilledNone' PROVE (KeysKept /\ NoneAbandoned)'
  BY DEF RestInv
<1>1. crashes \in Nat /\ crashes' \in {crashes, crashes + 1}
  BY DEF Files, Shape, Next, vars, bounds, Step, Crash, Edit, Start, ReadMeta, ReadModule, EnsureDir,
     OpenLock, Flock, Transpile, TranspileFails, Create, Write, WriteFails, ListVictims, Unlink,
     Rmdir, Unlock
<1>2. KilledNone
  BY <1>1 DEF KilledNone
<1> QED
  BY <1>2, KeysKeptNext, NoneAbandonedNext DEF RestInv

(* However many calls fail and whatever is removed under the hands of other*)
(* processes: as long as none is killed and files are at most taken away,  *)
(* no module that a lookup could take is left unfinished at rest.          *)
THEOREM NothingPoisonedHolds == Spec => [](KilledNone => NothingPoisonedAtRest)
<1>1. RestInv => (KilledNone => NothingPoisonedAtRest)
  BY DEF RestInv, NoneAbandoned, Responsible, NothingPoisonedAtRest
<1>2. Spec => []RestInv
  BY RestInit, RestNext, FilesHold, PTL DEF Spec
<1> QED
  BY <1>1, <1>2, PTL
=============================================================================
