-------------------------- MODULE BuildCacheProofs --------------------------
(* Theorems of BuildCache, for any number of processes, mounts, contents   *)
(* and versions, and any number of runs, failures, changes and kills.      *)
EXTENDS BuildCache, TLAPS, FiniteSetTheorems

-----------------------------------------------------------------------------
(* What holds whatever fails.                                              *)

Place == Locked \cup Waiting \cup
    {"idle", "meta1", "runner1", "transpile", "build", "mkdir", "openlock", "execute"}

Source == [wasm : Content, tool : Versions]

Shape ==
    /\ wasm \in Content \cup {NoKey}
    /\ host \in Versions /\ tool \in Versions
    /\ pc \in [Proc -> Place]
    /\ key \in [Proc -> Key \cup {NoKey}]
    /\ out \in [Proc -> Source \cup Binary \cup {None, Partial, Failed}]
    /\ exists \in [Key -> BOOLEAN]
    /\ lock \in [Key -> LockId \cup {0}]
    /\ bin \in [Key -> Binary \cup {None, Partial}]
    /\ meta \in [Key -> Versions \cup {None, Partial}]
    /\ lockfd \in [Proc -> LockId \cup {0}]
    /\ linked \in [Proc -> BOOLEAN]
    /\ holder \in [LockId -> Proc \cup {Nobody}]
    /\ failures \in Nat /\ buildFailures \in Nat /\ changes \in Nat /\ crashes \in Nat

(* A run goes by what it found when it started, since the user changes     *)
(* nothing under it.                                                       *)
Populating == Locked \cup Waiting \cup {"mkdir", "openlock"}

Cached == Populating \cup {"meta1", "runner1"}

TheSource == [wasm |-> wasm, tool |-> tool]

TheBinary(p) == [wasm |-> wasm, tool |-> tool, cfg |-> CfgOf[p], host |-> host]

Keyed ==
    /\ \A p \in Proc : pc[p] \in Cached => key[p] # NoKey
    /\ \A p \in Proc : pc[p] # "idle" => key[p] = NoKey \/ key[p] = BuildKey(p)

Built ==
    /\ \A p \in Proc : pc[p] = "build" => wasm \in Content /\ out[p] = TheSource
    /\ \A p \in Proc : pc[p] \in Populating => wasm \in Content /\ out[p] = TheBinary(p)

(* A run has its temporary directory while it lasts, and one is left over  *)
(* from each that was killed.                                              *)
TempDirs ==
    /\ runs \in [Proc -> Nat]
    /\ \A d \in tmp : \E p \in Proc, n \in Nat : d = <<p, n>> /\ n <= runs[p]
    /\ \A p \in Proc : pc[p] # "idle" => OwnDir(p) \in tmp
    /\ IsFiniteSet(LeftOver) /\ Cardinality(LeftOver) = crashes

(* What each place in a run has open.                                      *)
OpenFiles ==
    /\ \A p \in Proc : lockfd[p] # 0 <=> pc[p] \in Locked \cup Waiting
    /\ \A p \in Proc : linked[p] => pc[p] \in {"write1", "write2"}

(* A flock is held by who has that file open and is past the wait for it.  *)
LocksHeld ==
    /\ \A p \in Proc : pc[p] \in Locked => holder[lockfd[p]] = p
    /\ \A p \in Proc, i \in LockId :
          holder[i] = p => pc[p] \in Locked /\ lockfd[p] = i

(* No lock file has two names, or is open under the name of another entry, *)
(* although their inodes are reused: unlinked and closed they have no name.*)
LocksApart ==
    /\ \A k, l \in Key : lock[k] # 0 /\ lock[k] = lock[l] => k = l
    /\ \A p \in Proc, k \in Key : lockfd[p] # 0 /\ lock[k] = lockfd[p] => k = key[p]
    /\ \A p, q \in Proc : lockfd[p] # 0 /\ lockfd[p] = lockfd[q] => key[p] = key[q]

(* An entry holds binaries of its own key, or parts of them, and what is   *)
(* in a directory goes with it.                                            *)
BinaryOf(k) ==
    { b \in Binary : b.wasm = k.wasm /\ Canonical(b.cfg) = k.cfg /\ b.host = k.host }

Entries ==
    /\ \A k \in Key : lock[k] # 0 \/ bin[k] # None \/ meta[k] # None => exists[k]
    /\ \A p \in Proc : linked[p] => exists[key[p]]
    /\ \A k \in Key : bin[k] \in BinaryOf(k) \cup {None, Partial}
    /\ \A k \in Key : meta[k] \in {k.host, None, Partial}

Runs ==
    Shape /\ Keyed /\ Built /\ TempDirs /\ OpenFiles /\ LocksHeld /\ LocksApart /\ Entries

-----------------------------------------------------------------------------
(* What holds until a call on the cache fails.                             *)

(* No entry is removed, so that whoever has its lock file open has the one *)
(* that later processes find under its name.                               *)
LockNamed ==
    /\ \A p \in Proc : pc[p] \in Locked \cup Waiting => lock[key[p]] = lockfd[p]
    /\ \A p \in Proc : pc[p] \in Populating \ {"mkdir"} => exists[key[p]]
    /\ \A p \in Proc : pc[p] \in {"write1", "write2"} => linked[p]

Excluded ==
    \A p, q \in Proc :
        p # q /\ pc[p] \in Locked /\ pc[q] \in Locked => key[p] # key[q]

(* A valid entry is whole, and stays so.                                   *)
MetaVouches ==
    /\ \A k \in Key : meta[k] = k.host => bin[k] \in BinaryOf(k)
    /\ \A p \in Proc : pc[p] \in {"create2", "write2"} => bin[key[p]] \in BinaryOf(key[p])
    /\ \A p \in Proc : pc[p] \in {"create1", "write1", "create2"} => meta[key[p]] # host
    /\ \A p \in Proc : pc[p] \in {"runner1", "runner2"} => meta[key[p]] = host

(* What is executed is of the inputs as they are.                          *)
Current ==
    \A p \in Proc : pc[p] = "execute" =>
        /\ out[p] \in Binary
        /\ out[p].wasm = wasm /\ out[p].host = host
        /\ Canonical(out[p].cfg) = Canonical(CfgOf[p])
        /\ key[p] = NoKey => out[p].tool = tool

CacheInv == failures = 0 => LockNamed /\ MetaVouches /\ Current

(* The key tells apart what it sorts.                                      *)
SortingLosesNothing ==
    \A c, d \in Mounts : Canonical(c) = Canonical(d) => c = d

-----------------------------------------------------------------------------
(* Who has failed, until the user changes something.                       *)
FailedRuns == { p \in Proc : out[p] = Failed }

FailedCounted ==
    changes = 0 =>
        /\ wasm \in Content
        /\ IsFiniteSet(FailedRuns)
        /\ Cardinality(FailedRuns) <= crashes + buildFailures

-----------------------------------------------------------------------------
(* Lemmas about keys and steps.                                            *)

LEMMA KeyFacts ==
    /\ NoKey \notin Content /\ 0 \notin LockId /\ Nobody \notin Proc /\ 1 \in Versions
    /\ \A p \in Proc : CfgOf[p] \in Mounts
    /\ Partial # None /\ Partial \notin Versions /\ None \notin Versions
    /\ None \notin Binary /\ Partial \notin Binary
BY BuildProcAssumption, BuildMarks DEF Mounts

LEMMA BinaryFields ==
    /\ \A b \in Binary : b.wasm \in Content /\ b.cfg \in Mounts
    /\ \A k : BinaryOf(k) \subseteq Binary
BY DEF Binary, BinaryOf

LEMMA SourceType == wasm \in Content /\ tool \in Versions => TheSource \in Source
BY DEF TheSource, Source

LEMMA BinaryType ==
    ASSUME wasm \in Content, host \in Versions, tool \in Versions, NEW p \in Proc
    PROVE  TheBinary(p) \in Binary
BY KeyFacts DEF TheBinary, Binary

LEMMA KeyType ==
    ASSUME wasm \in Content \cup {NoKey}, host \in Versions, NEW p \in Proc
    PROVE  /\ BuildKey(p) \in Key \cup {NoKey}
           /\ wasm \in Content => BuildKey(p) \in Key
           /\ wasm \in Content => BuildKey(p).wasm = wasm /\ BuildKey(p).host = host
                                  /\ BuildKey(p).cfg = Canonical(CfgOf[p])
<1>1. Canonical(CfgOf[p]) \in { Canonical(cfg) : cfg \in Mounts }
  BY KeyFacts
<1> DEFINE c == Canonical(CfgOf[p])
           S == { Canonical(cfg) : cfg \in Mounts }
<1>2. c \in S /\ Key = [wasm : Content, cfg : S, host : Versions]
  BY <1>1 DEF Key
<1>3. BuildKey(p) = IF wasm = NoKey THEN NoKey ELSE [wasm |-> wasm, host |-> host, cfg |-> c]
  BY DEF BuildKey
<1>4. NoKey \notin Content
  BY KeyFacts
<1> HIDE DEF c, S
<1>5. ASSUME wasm \in Content
      PROVE  /\ BuildKey(p) \in Key
             /\ BuildKey(p).wasm = wasm /\ BuildKey(p).host = host /\ BuildKey(p).cfg = c
  <2>1. BuildKey(p) = [wasm |-> wasm, host |-> host, cfg |-> c]
    BY <1>3, <1>4, <1>5
  <2>2. [wasm |-> wasm, host |-> host, cfg |-> c] \in [wasm : Content, cfg : S, host : Versions]
    BY <1>2, <1>5
  <2>3. BuildKey(p) \in Key
    BY <1>2, <2>1, <2>2
  <2>4. BuildKey(p).wasm = wasm /\ BuildKey(p).host = host /\ BuildKey(p).cfg = c
    BY <2>1
  <2> QED
    BY <2>3, <2>4
<1>6. wasm \notin Content => BuildKey(p) = NoKey
  BY <1>3
<1> QED
  BY <1>5, <1>6 DEF c

(* While a process is in the cache its key is one of an entry, and what it *)
(* has built is of that key.                                               *)
LEMMA InCache ==
    ASSUME Shape, Keyed, NEW p \in Proc, pc[p] \in Cached
    PROVE  /\ key[p] \in Key /\ key[p] = BuildKey(p) /\ wasm \in Content
           /\ key[p].wasm = wasm /\ key[p].host = host /\ key[p].cfg = Canonical(CfgOf[p])
           /\ TheBinary(p) \in BinaryOf(key[p])
<1>1. /\ wasm \in Content \cup {NoKey} /\ host \in Versions /\ tool \in Versions
      /\ key[p] \in Key \cup {NoKey}
  BY DEF Shape
<1>2. key[p] # NoKey /\ key[p] = BuildKey(p)
  BY DEF Keyed, Cached, Populating, Locked, Waiting
<1>3. wasm \in Content
  BY <1>1, <1>2 DEF BuildKey
<1>4. /\ key[p] \in Key
      /\ key[p].wasm = wasm /\ key[p].host = host /\ key[p].cfg = Canonical(CfgOf[p])
  BY <1>1, <1>2, <1>3, KeyType
<1>5. TheBinary(p) \in BinaryOf(key[p])
  BY <1>1, <1>3, <1>4, BinaryType DEF BinaryOf, TheBinary
<1> QED
  BY <1>2, <1>3, <1>4, <1>5

(* A process moves itself only, but for RemoveAll, which unlinks what      *)
(* others have open.                                                       *)
LEMMA OthersAlone ==
    ASSUME Shape, NEW p \in Proc, Step(p) \/ Crash(p)
    PROVE  /\ UNCHANGED user
           /\ \A q \in Proc \ {p} :
                 /\ pc'[q] = pc[q] /\ key'[q] = key[q] /\ out'[q] = out[q]
                 /\ lockfd'[q] = lockfd[q] /\ (linked'[q] => linked[q])
<1>1. CASE Step(p)
  BY <1>1 DEF Step, Start, ReadMeta, ReadRunner, Transpile, Build, CompileFails, EnsureDir,
     OpenLock, PutFailsEarly, GivesUp, Flock, Create, Write, PutFails, Unlock, Execute,
     Closed, Goto, Gives, locks, Shape
<1>2. CASE Crash(p)
  BY <1>2 DEF Crash, Closed, Goto, Gives, locks, Shape
<1> QED
  BY <1>1, <1>2

(* The steps that touch no entry.                                          *)
LEMMA EntriesAlone ==
    ASSUME NEW p \in Proc, Step(p) \/ Crash(p),
           ~EnsureDir(p), ~OpenLock(p), ~Create(p), ~Write(p), ~PutFails(p)
    PROVE  UNCHANGED entry
BY DEF Step, Start, ReadMeta, ReadRunner, Transpile, Build, CompileFails,
   PutFailsEarly, GivesUp, Flock, Unlock, Execute, Crash

(* Whose turn it is to be created, or written.                             *)
LEMMA Turns ==
    \A p \in Proc : Turn(p) = IF pc[p] \in {"create1", "write1"} THEN "runner" ELSE "meta"
BY DEF Turn, PutOrder

-----------------------------------------------------------------------------
(* Type correctness.                                                       *)

LEMMA ShapeNext == Shape /\ Keyed /\ Built /\ OpenFiles /\ [Next]_vars => Shape'
<1> SUFFICES ASSUME Shape, Keyed, Built, OpenFiles, [Next]_vars PROVE Shape'
  OBVIOUS
<1> USE DEF Shape, Goto, Gives, Place, Locked, Waiting
<1>1. ASSUME NEW p \in Proc, Start(p) PROVE Shape'
  <2>1. \A k \in {BuildKey(p)} \cup (IF p \in CacheOff THEN {NoKey} ELSE {}) :
           k \in Key \cup {NoKey}
    BY KeyType
  <2>2. \E k \in Key \cup {NoKey} : key' = [key EXCEPT ![p] = k]
    BY <1>1, <2>1 DEF Start
  <2>3. pc' \in [Proc -> Place] /\ out' \in [Proc -> Source \cup Binary \cup {None, Partial, Failed}]
    BY <1>1 DEF Start
  <2> QED
    BY <1>1, <2>2, <2>3 DEF Start, user, entry, locks
<1>2. ASSUME NEW p \in Proc, ReadMeta(p) PROVE Shape'
  BY <1>2 DEF ReadMeta, user, entry, locks, bounds
<1>3. ASSUME NEW p \in Proc, ReadRunner(p) PROVE Shape'
  <2>1. pc[p] = "runner1" => key[p] \in Key
    BY DEF Keyed, Cached
  <2> QED
    BY <1>3, <2>1 DEF ReadRunner, user, entry, locks, bounds
<1>4. ASSUME NEW p \in Proc, Transpile(p) PROVE Shape'
  <2>1. [wasm |-> wasm, tool |-> tool] \in Source
    BY <1>4 DEF Transpile, Source
  <2> QED
    BY <1>4, <2>1 DEF Transpile, user, entry, locks, bounds
<1>5. ASSUME NEW p \in Proc, Build(p) PROVE Shape'
  <2>1. [wasm |-> out[p].wasm, tool |-> out[p].tool, cfg |-> CfgOf[p], host |-> host] \in Binary
    BY <1>5, KeyFacts DEF Build, Built, TheSource, Binary
  <2> QED
    BY <1>5, <2>1 DEF Build, user, entry, locks, bounds
<1>6. ASSUME NEW p \in Proc, CompileFails(p) PROVE Shape'
  BY <1>6 DEF CompileFails, OwnCallFails, Fresh, user, entry, locks, bounds
<1>7. ASSUME NEW p \in Proc, EnsureDir(p) PROVE Shape'
  BY <1>7 DEF EnsureDir, user, entry, locks, bounds
<1>8. ASSUME NEW p \in Proc, OpenLock(p) PROVE Shape'
  <2>1. PICK i \in LockId : /\ lock' = [lock EXCEPT ![key[p]] = i]
                            /\ lockfd' = [lockfd EXCEPT ![p] = i]
    BY <1>8 DEF OpenLock
  <2>2. lock' \in [Key -> LockId \cup {0}] /\ lockfd' \in [Proc -> LockId \cup {0}]
    BY <2>1
  <2>3. pc' \in [Proc -> Place]
    BY <1>8 DEF OpenLock
  <2> QED
    BY <1>8, <2>2, <2>3 DEF OpenLock, user, bounds
<1>9. ASSUME NEW p \in Proc, PutFailsEarly(p) PROVE Shape'
  BY <1>9 DEF PutFailsEarly, GivesUp, CacheCallFails, Fresh, user, entry, locks, bounds
<1>10. ASSUME NEW p \in Proc, Flock(p) PROVE Shape'
  BY <1>10 DEF Flock, user, entry, bounds
<1>11. ASSUME NEW p \in Proc, Create(p) PROVE Shape'
  BY <1>11 DEF Create, Holds, user, locks, bounds
<1>12. ASSUME NEW p \in Proc, Write(p) PROVE Shape'
  <2>1. out[p] \in Binary
    BY <1>12, BinaryType DEF Write, Built, Populating
  <2>2. /\ bin' \in [Key -> Binary \cup {None, Partial}]
        /\ meta' \in [Key -> Versions \cup {None, Partial}]
    BY <1>12, <2>1 DEF Write, Holds
  <2>3. pc' \in [Proc -> Place] /\ linked' \in [Proc -> BOOLEAN]
    BY <1>12 DEF Write
  <2> QED
    BY <1>12, <2>2, <2>3 DEF Write, user, locks, bounds
<1>13. ASSUME NEW p \in Proc, PutFails(p) PROVE Shape'
  <2>1. failures' \in Nat /\ UNCHANGED <<buildFailures, changes, crashes>>
    BY <1>13 DEF PutFails, CacheCallFails, Fresh, bounds
  <2>2. /\ exists' \in [Key -> BOOLEAN] /\ lock' \in [Key -> LockId \cup {0}]
        /\ bin' \in [Key -> Binary \cup {None, Partial}]
        /\ meta' \in [Key -> Versions \cup {None, Partial}]
    BY <1>13 DEF PutFails
  <2>3. pc' \in [Proc -> Place] /\ linked' \in [Proc -> BOOLEAN]
    BY <1>13 DEF PutFails
  <2> QED
    BY <1>13, <2>1, <2>2, <2>3 DEF PutFails, user, locks
<1>14. ASSUME NEW p \in Proc, Unlock(p) PROVE Shape'
  BY <1>14 DEF Unlock, Closed, user, entry, bounds
<1>15. ASSUME NEW p \in Proc, Execute(p) PROVE Shape'
  BY <1>15 DEF Execute, user, entry, locks, bounds
<1>16. ASSUME NEW p \in Proc, Crash(p) PROVE Shape'
  BY <1>16 DEF Crash, Closed, user, entry
<1>17. CASE Change
  BY <1>17 DEF Change, entry, locks
<1>18. CASE UNCHANGED vars
  BY <1>18 DEF vars, user, entry, locks, bounds
<1> QED
  BY <1>1, <1>2, <1>3, <1>4, <1>5, <1>6, <1>7, <1>8, <1>9, <1>10, <1>11, <1>12,
     <1>13, <1>14, <1>15, <1>16, <1>17, <1>18 DEF Next, Step

(* What a process finds when it starts stays true of it.                   *)
LEMMA KeyedNext == Shape /\ Keyed /\ [Next]_vars => Keyed'
<1> SUFFICES ASSUME Shape, Keyed, [Next]_vars PROVE Keyed'
  OBVIOUS
<1> USE DEF Keyed, Goto, Cached, Populating, Locked, Waiting
<1>0. pc \in [Proc -> Place] /\ key \in [Proc -> Key \cup {NoKey}]
  BY DEF Shape
<1>1. ASSUME NEW p \in Proc, Step(p) \/ Crash(p) PROVE Keyed'
  <2>1. \A q \in Proc : BuildKey(q)' = BuildKey(q)
    BY <1>1, OthersAlone DEF BuildKey, user
  <2>2. \A q \in Proc \ {p} : pc'[q] = pc[q] /\ key'[q] = key[q]
    BY <1>1, OthersAlone
  <2>3. /\ pc'[p] \in Cached => key'[p] # NoKey
        /\ pc'[p] # "idle" => key'[p] \in {NoKey, BuildKey(p)}
    <3>1. CASE Start(p)
      BY <1>0, <3>1 DEF Start
    <3>2. CASE Build(p)
      BY <1>0, <3>2 DEF Build
    <3>3. CASE ~Start(p) /\ ~Build(p)
      BY <1>0, <1>1, <3>3 DEF Step, Crash, ReadMeta, ReadRunner, Transpile, CompileFails,
         EnsureDir, OpenLock, PutFailsEarly, GivesUp, Flock, Create, Write, PutFails,
         Unlock, Execute
    <3> QED
      BY <3>1, <3>2, <3>3
  <2> QED
    BY <2>1, <2>2, <2>3
<1>2. CASE Change
  BY <1>2 DEF Change
<1>3. CASE UNCHANGED vars
  BY <1>3 DEF vars, user, BuildKey
<1> QED
  BY <1>1, <1>2, <1>3 DEF Next

LEMMA BuiltNext == Shape /\ Keyed /\ Built /\ [Next]_vars => Built'
<1> SUFFICES ASSUME Shape, Keyed, Built, [Next]_vars PROVE Built'
  OBVIOUS
<1> USE DEF Built, Goto, Gives, Populating, Locked, Waiting
<1>0. /\ pc \in [Proc -> Place] /\ wasm \in Content \cup {NoKey}
      /\ out \in [Proc -> Source \cup Binary \cup {None, Partial, Failed}]
  BY DEF Shape
<1>1. ASSUME NEW p \in Proc, Step(p) \/ Crash(p) PROVE Built'
  <2>1. UNCHANGED wasm /\ TheSource' = TheSource /\ \A q \in Proc : TheBinary(q)' = TheBinary(q)
    BY <1>1, OthersAlone DEF user, TheSource, TheBinary
  <2>2. \A q \in Proc \ {p} : pc'[q] = pc[q] /\ out'[q] = out[q]
    BY <1>1, OthersAlone
  <2>3. /\ pc'[p] = "build" => wasm \in Content /\ out'[p] = TheSource
        /\ pc'[p] \in Populating => wasm \in Content /\ out'[p] = TheBinary(p)
    <3>1. CASE Transpile(p)
      BY <1>0, <3>1 DEF Transpile, TheSource
    <3>2. CASE Build(p)
      BY <1>0, <3>2 DEF Build, TheSource, TheBinary
    <3>3. CASE Start(p) \/ ReadMeta(p) \/ ReadRunner(p) \/ CompileFails(p) \/ Crash(p)
      BY <1>0, <3>3 DEF Start, ReadMeta, ReadRunner, CompileFails, Crash
    <3>4. CASE EnsureDir(p) \/ OpenLock(p) \/ PutFailsEarly(p) \/ Flock(p)
      BY <1>0, <3>4 DEF EnsureDir, OpenLock, PutFailsEarly, GivesUp, Flock
    <3>5. CASE Create(p) \/ Write(p) \/ PutFails(p) \/ Unlock(p) \/ Execute(p)
      BY <1>0, <3>5 DEF Create, Write, PutFails, Unlock, Execute
    <3> QED
      BY <1>1, <3>1, <3>2, <3>3, <3>4, <3>5 DEF Step
  <2> QED
    BY <2>1, <2>2, <2>3
<1>2. CASE Change
  BY <1>2 DEF Change
<1>3. CASE UNCHANGED vars
  BY <1>3 DEF vars, user, TheSource, TheBinary
<1> QED
  BY <1>1, <1>2, <1>3 DEF Next

(* The steps between the start of a run and its end.                       *)
LEMMA Between ==
    ASSUME Shape, NEW p \in Proc, Step(p), ~Start(p), ~CompileFails(p), ~Execute(p)
    PROVE  pc[p] # "idle" /\ pc'[p] # "idle" /\ UNCHANGED <<tmp, runs, crashes>>
BY DEF Step, ReadMeta, ReadRunner, Transpile, Build, EnsureDir, OpenLock, PutFailsEarly, GivesUp,
   CacheCallFails, Fresh, Flock, Create, Write, PutFails, Unlock, Goto, bounds, Shape

LEMMA TempDirsNext == Shape /\ TempDirs /\ [Next]_vars => TempDirs'
<1> SUFFICES ASSUME Shape, TempDirs, [Next]_vars PROVE TempDirs'
  OBVIOUS
<1>0. pc \in [Proc -> Place] /\ runs \in [Proc -> Nat] /\ crashes \in Nat
  BY DEF Shape, TempDirs
<1>1. ASSUME UNCHANGED <<tmp, runs, crashes>>,
             \A q \in Proc : pc'[q] = "idle" <=> pc[q] = "idle"
      PROVE  TempDirs'
  <2>1. LeftOver' = LeftOver
    <3>1. \A q \in Proc : OwnDir(q)' = OwnDir(q)
      BY <1>1 DEF OwnDir
    <3>2. \A d \in tmp : d[1] \in Proc
      BY DEF TempDirs
    <3> QED
      BY <1>1, <3>1, <3>2 DEF LeftOver
  <2> QED
    BY <1>1, <2>1 DEF TempDirs, OwnDir
<1>2. ASSUME NEW p \in Proc, Start(p) PROVE TempDirs'
  <2>1. /\ pc[p] = "idle" /\ pc'[p] # "idle"
        /\ \A q \in Proc \ {p} : pc'[q] = pc[q] /\ runs'[q] = runs[q]
        /\ runs' \in [Proc -> Nat] /\ runs'[p] = runs[p] + 1
        /\ tmp' = tmp \cup {OwnDir(p)'} /\ crashes' = crashes
    BY <1>0, <1>2 DEF Start, Goto, OwnDir
  <2>2. OwnDir(p)' = <<p, runs[p] + 1>> /\ \A q \in Proc \ {p} : OwnDir(q)' = OwnDir(q)
    BY <2>1 DEF OwnDir
  <2>3. \A d \in tmp : d[1] \in Proc /\ (d[1] = p => d # OwnDir(p)')
    BY <1>0, <2>2 DEF TempDirs
  <2>4. LeftOver' = LeftOver
    <3>1. ASSUME NEW d \in LeftOver PROVE d \in LeftOver'
      BY <2>1, <2>2, <2>3, <3>1 DEF LeftOver
    <3>2. ASSUME NEW d \in LeftOver' PROVE d \in LeftOver
      <4>1. d # OwnDir(p)'
        BY <2>1, <2>2, <3>2 DEF LeftOver
      <4>2. d \in tmp
        BY <2>1, <3>2, <4>1 DEF LeftOver
      <4> QED
        BY <2>1, <2>2, <2>3, <3>2, <4>2 DEF LeftOver
    <3> QED
      BY <3>1, <3>2
  <2>5. ASSUME NEW d \in tmp' PROVE \E q \in Proc, n \in Nat : d = <<q, n>> /\ n <= runs'[q]
    <3>1. CASE d \in tmp
      <4>1. PICK q \in Proc, n \in Nat : d = <<q, n>> /\ n <= runs[q]
        BY <3>1 DEF TempDirs
      <4>2. runs[q] \in Nat /\ runs[q] <= runs'[q] /\ runs'[q] \in Nat
        BY <1>0, <2>1
      <4> QED
        BY <4>1, <4>2
    <3>2. CASE d = OwnDir(p)'
      BY <1>0, <2>1, <2>2, <3>2
    <3> QED
      BY <2>1, <2>5, <3>1, <3>2
  <2>6. ASSUME NEW q \in Proc, pc'[q] # "idle" PROVE OwnDir(q)' \in tmp'
    BY <2>1, <2>2, <2>6 DEF TempDirs
  <2> QED
    BY <2>1, <2>4, <2>5, <2>6 DEF TempDirs
<1>3. ASSUME NEW p \in Proc, CompileFails(p) \/ Execute(p) PROVE TempDirs'
  <2>1. /\ pc[p] # "idle" /\ pc'[p] = "idle" /\ \A q \in Proc \ {p} : pc'[q] = pc[q]
        /\ tmp' = tmp \ {OwnDir(p)} /\ UNCHANGED <<runs, crashes>>
    BY <1>0, <1>3 DEF CompileFails, Execute, OwnCallFails, Fresh, Goto, bounds
  <2>2. \A q \in Proc : OwnDir(q)' = OwnDir(q) /\ OwnDir(q)[1] = q
    BY <2>1 DEF OwnDir
  <2>3. \A d \in tmp : d[1] \in Proc
    BY DEF TempDirs
  <2>4. LeftOver' = LeftOver
    BY <2>1, <2>2, <2>3 DEF LeftOver
  <2>5. \A q \in Proc : pc'[q] # "idle" => OwnDir(q)' \in tmp'
    <3>1. \A q \in Proc : q # p => OwnDir(q) # OwnDir(p)
      BY <2>2
    <3> QED
      BY <2>1, <2>2, <3>1 DEF TempDirs
  <2> QED
    BY <2>1, <2>4, <2>5 DEF TempDirs
<1>4. ASSUME NEW p \in Proc, Crash(p) PROVE TempDirs'
  <2>1. /\ pc[p] # "idle" /\ pc'[p] = "idle" /\ \A q \in Proc \ {p} : pc'[q] = pc[q]
        /\ crashes' = crashes + 1 /\ UNCHANGED <<tmp, runs>>
    BY <1>0, <1>4 DEF Crash, Goto
  <2>2. \A q \in Proc : OwnDir(q)' = OwnDir(q) /\ OwnDir(q)[1] = q
    BY <2>1 DEF OwnDir
  <2>3. OwnDir(p) \in tmp /\ \A d \in tmp : d[1] \in Proc
    BY <2>1 DEF TempDirs
  <2>4. LeftOver' = LeftOver \cup {OwnDir(p)} /\ OwnDir(p) \notin LeftOver
    BY <2>1, <2>2, <2>3 DEF LeftOver
  <2>5. IsFiniteSet(LeftOver') /\ Cardinality(LeftOver') = crashes'
    BY <2>1, <2>4, FS_AddElement DEF TempDirs
  <2>6. \A q \in Proc : pc'[q] # "idle" => OwnDir(q)' \in tmp'
    BY <2>1, <2>2 DEF TempDirs
  <2> QED
    BY <2>1, <2>5, <2>6 DEF TempDirs
<1>5. ASSUME NEW p \in Proc, Step(p), ~Start(p), ~CompileFails(p), ~Execute(p) PROVE TempDirs'
  BY <1>1, <1>5, Between, OthersAlone
<1>6. CASE Change
  BY <1>1, <1>6 DEF Change
<1>7. CASE UNCHANGED vars
  BY <1>1, <1>7 DEF vars, bounds
<1> QED
  BY <1>2, <1>3, <1>4, <1>5, <1>6, <1>7 DEF Next

LEMMA OpenFilesNext == Shape /\ OpenFiles /\ [Next]_vars => OpenFiles'
<1> SUFFICES ASSUME Shape, OpenFiles, [Next]_vars PROVE OpenFiles'
  OBVIOUS
<1> USE DEF OpenFiles, Goto, Locked, Waiting
<1>0. /\ pc \in [Proc -> Place] /\ linked \in [Proc -> BOOLEAN]
      /\ lockfd \in [Proc -> LockId \cup {0}] /\ 0 \notin LockId
  BY KeyFacts DEF Shape
<1>1. ASSUME NEW p \in Proc, Step(p) \/ Crash(p) PROVE OpenFiles'
  <2>1. \A q \in Proc \ {p} : /\ pc'[q] = pc[q] /\ lockfd'[q] = lockfd[q]
                              /\ (linked'[q] => linked[q])
    BY <1>1, OthersAlone
  <2>2. /\ lockfd'[p] # 0 <=> pc'[p] \in Locked \cup Waiting
        /\ linked'[p] => pc'[p] \in {"write1", "write2"}
    <3>1. CASE Start(p) \/ ReadMeta(p) \/ ReadRunner(p) \/ Transpile(p)
      BY <1>0, <3>1 DEF Start, ReadMeta, ReadRunner, Transpile, locks
    <3>2. CASE Build(p) \/ CompileFails(p) \/ EnsureDir(p) \/ PutFailsEarly(p)
      BY <1>0, <3>2 DEF Build, CompileFails, EnsureDir, PutFailsEarly, GivesUp, locks
    <3>3. CASE OpenLock(p) \/ Flock(p) \/ Create(p) \/ Write(p)
      BY <1>0, <3>3 DEF OpenLock, Flock, Create, Write, locks
    <3>4. CASE PutFails(p) \/ Unlock(p) \/ Execute(p) \/ Crash(p)
      BY <1>0, <3>4 DEF PutFails, Unlock, Execute, Crash, Closed, locks
    <3> QED
      BY <1>1, <3>1, <3>2, <3>3, <3>4 DEF Step
  <2> QED
    BY <2>1, <2>2
<1>2. CASE Change
  BY <1>2 DEF Change, locks
<1>3. CASE UNCHANGED vars
  BY <1>3 DEF vars, locks
<1> QED
  BY <1>1, <1>2, <1>3 DEF Next

LEMMA LocksHeldNext == Shape /\ OpenFiles /\ LocksHeld /\ [Next]_vars => LocksHeld'
<1> SUFFICES ASSUME Shape, OpenFiles, LocksHeld, [Next]_vars PROVE LocksHeld'
  OBVIOUS
<1> USE DEF LocksHeld, OpenFiles, Goto, Locked, Waiting
<1>0. /\ pc \in [Proc -> Place]
      /\ lockfd \in [Proc -> LockId \cup {0}] /\ holder \in [LockId -> Proc \cup {Nobody}]
      /\ 0 \notin LockId /\ Nobody \notin Proc
  BY KeyFacts DEF Shape
<1>1. ASSUME NEW p \in Proc,
             \/ Start(p) \/ ReadMeta(p) \/ ReadRunner(p) \/ Transpile(p) \/ Build(p)
             \/ CompileFails(p) \/ EnsureDir(p) \/ PutFailsEarly(p) \/ Execute(p)
      PROVE  LocksHeld'
  <2>1. /\ UNCHANGED locks
        /\ pc'[p] \in Locked <=> pc[p] \in Locked
        /\ \A q \in Proc \ {p} : pc'[q] = pc[q]
    BY <1>0, <1>1 DEF Start, ReadMeta, ReadRunner, Transpile, Build, CompileFails,
       EnsureDir, PutFailsEarly, GivesUp, Execute
  <2> QED
    BY <2>1 DEF locks
<1>2. ASSUME NEW p \in Proc, OpenLock(p) PROVE LocksHeld'
  BY <1>0, <1>2 DEF OpenLock
<1>3. ASSUME NEW p \in Proc, Flock(p) PROVE LocksHeld'
  BY <1>0, <1>3 DEF Flock, FlockFree
<1>4. ASSUME NEW p \in Proc, Create(p) \/ Write(p) \/ PutFails(p) PROVE LocksHeld'
  BY <1>0, <1>4 DEF Create, Write, PutFails, locks
<1>5. ASSUME NEW p \in Proc, Unlock(p) \/ Crash(p) PROVE LocksHeld'
  BY <1>0, <1>5 DEF Unlock, Crash, Closed
<1>6. CASE Change
  BY <1>6 DEF Change, locks
<1>7. CASE UNCHANGED vars
  BY <1>7 DEF vars, locks
<1> QED
  BY <1>1, <1>2, <1>3, <1>4, <1>5, <1>6, <1>7 DEF Next, Step

(* A lock file that is opened has that name already, or no name and is     *)
(* open nowhere.                                                           *)
LEMMA OpenLockEffect ==
    ASSUME Shape, Keyed, NEW p \in Proc, OpenLock(p)
    PROVE  /\ key[p] \in Key
           /\ \E i \in LockId :
                 /\ \/ lock[key[p]] = i
                    \/ /\ lock[key[p]] = 0
                       /\ (\A k \in Key : lock[k] # i) /\ (\A q \in Proc : lockfd[q] # i)
                 /\ lock' = [lock EXCEPT ![key[p]] = i]
                 /\ lockfd' = [lockfd EXCEPT ![p] = i]
<1>1. PICK i \in LockId : /\ LockInode(key[p], i)
                          /\ lock' = [lock EXCEPT ![key[p]] = i]
                          /\ lockfd' = [lockfd EXCEPT ![p] = i]
  BY DEF OpenLock
<1>2. lock[key[p]] = i \/ (lock[key[p]] = 0 /\ ~InUse(i))
  BY <1>1 DEF LockInode
<1>3. key[p] \in Key
  BY InCache DEF OpenLock, Cached, Populating
<1> QED
  BY <1>1, <1>2, <1>3 DEF InUse

LEMMA LocksApartNext == Shape /\ OpenFiles /\ LocksApart /\ Keyed /\ [Next]_vars => LocksApart'
<1> SUFFICES ASSUME Shape, OpenFiles, LocksApart, Keyed, [Next]_vars PROVE LocksApart'
  OBVIOUS
<1> USE DEF LocksApart
<1>0. /\ pc \in [Proc -> Place] /\ key \in [Proc -> Key \cup {NoKey}]
      /\ lock \in [Key -> LockId \cup {0}] /\ lockfd \in [Proc -> LockId \cup {0}]
      /\ 0 \notin LockId
  BY KeyFacts DEF Shape
<1>1. ASSUME \A k \in Key : lock'[k] \in {lock[k], 0},
             \A q \in Proc : lockfd'[q] = 0 \/ (lockfd'[q] = lockfd[q] /\ key'[q] = key[q])
      PROVE  LocksApart'
  BY <1>1
<1>2. ASSUME NEW p \in Proc, Step(p) \/ Crash(p), ~OpenLock(p) PROVE LocksApart'
  <2>1. \A q \in Proc \ {p} : lockfd'[q] = lockfd[q] /\ key'[q] = key[q]
    BY <1>2, OthersAlone
  <2>2. lockfd'[p] = 0 \/ (lockfd'[p] = lockfd[p] /\ key'[p] = key[p])
    <3>1. CASE Start(p)
      BY <1>0, <3>1 DEF Start, locks, OpenFiles, Locked, Waiting
    <3> QED
      BY <1>0, <1>2, <3>1 DEF Step, ReadMeta, ReadRunner, Transpile, Build, CompileFails,
         EnsureDir, PutFailsEarly, GivesUp, Flock, Create, Write, PutFails, Unlock,
         Execute, Crash, Closed, locks
  <2>3. \A k \in Key : lock'[k] \in {lock[k], 0}
    <3>1. CASE EnsureDir(p) \/ Create(p) \/ Write(p) \/ PutFails(p)
      BY <1>0, <3>1 DEF EnsureDir, Create, Write, PutFails
    <3>2. CASE ~(EnsureDir(p) \/ Create(p) \/ Write(p) \/ PutFails(p))
      BY <1>2, <3>2, EntriesAlone DEF entry
    <3> QED
      BY <3>1, <3>2
  <2> QED
    BY <1>1, <2>1, <2>2, <2>3
<1>3. ASSUME NEW p \in Proc, OpenLock(p) PROVE LocksApart'
  <2>1. PICK i \in LockId :
           /\ \/ lock[key[p]] = i
              \/ (\A k \in Key : lock[k] # i) /\ (\A q \in Proc : lockfd[q] # i)
           /\ lock' = [lock EXCEPT ![key[p]] = i]
           /\ lockfd' = [lockfd EXCEPT ![p] = i]
    BY <1>3, OpenLockEffect
  <2>2. UNCHANGED key /\ key[p] \in Key
    BY <1>3, OpenLockEffect DEF OpenLock
  <2>3. /\ \A k \in Key : lock'[k] = IF k = key[p] THEN i ELSE lock[k]
        /\ \A q \in Proc : lockfd'[q] = IF q = p THEN i ELSE lockfd[q]
    BY <1>0, <2>1
  <2>4. /\ \A k \in Key : lock[k] = i => k = key[p]
        /\ \A q \in Proc : lockfd[q] = i => key[q] = key[p]
    BY <1>0, <2>1, <2>2
  <2>5. \A k, l \in Key : lock'[k] # 0 /\ lock'[k] = lock'[l] => k = l
    BY <1>0, <2>3, <2>4
  <2>6. \A q \in Proc, k \in Key : lockfd'[q] # 0 /\ lock'[k] = lockfd'[q] => k = key[q]
    BY <1>0, <2>3, <2>4
  <2>7. \A q, r \in Proc : lockfd'[q] # 0 /\ lockfd'[q] = lockfd'[r] => key[q] = key[r]
    BY <1>0, <2>3, <2>4
  <2> QED
    BY <2>2, <2>5, <2>6, <2>7
<1>4. CASE Change
  BY <1>4 DEF Change, locks, entry
<1>5. CASE UNCHANGED vars
  BY <1>5 DEF vars, locks, entry
<1> QED
  BY <1>2, <1>3, <1>4, <1>5 DEF Next

(* What a population leaves in its entry, and that it touches no other.    *)
LEMMA CreateEffect ==
    ASSUME NEW p \in Proc, Create(p)
    PROVE  /\ UNCHANGED <<key, out, exists, lock, lockfd, user>>
           /\ \/ /\ pc[p] = "create1"
                 /\ bin' = [bin EXCEPT ![key[p]] = Partial] /\ UNCHANGED meta
              \/ /\ pc[p] = "create2"
                 /\ meta' = [meta EXCEPT ![key[p]] = Partial] /\ UNCHANGED bin
BY Turns DEF Create, Holds, locks, user

LEMMA WriteEffect ==
    ASSUME NEW p \in Proc, Write(p)
    PROVE  /\ UNCHANGED <<key, out, exists, lock, lockfd, user>>
           /\ \/ ~linked[p] /\ UNCHANGED <<bin, meta>>
              \/ /\ linked[p] /\ pc[p] = "write1"
                 /\ bin' = [bin EXCEPT ![key[p]] = out[p]] /\ UNCHANGED meta
              \/ /\ linked[p] /\ pc[p] = "write2"
                 /\ meta' = [meta EXCEPT ![key[p]] = host] /\ UNCHANGED bin
BY Turns DEF Write, Holds, locks, user

LEMMA EntriesNext ==
    Shape /\ Keyed /\ Built /\ OpenFiles /\ Entries /\ [Next]_vars => Entries'
<1> SUFFICES ASSUME Shape, Keyed, Built, OpenFiles, Entries, [Next]_vars PROVE Entries'
  OBVIOUS
<1> USE DEF Entries
<1>0. /\ pc \in [Proc -> Place] /\ key \in [Proc -> Key \cup {NoKey}]
      /\ exists \in [Key -> BOOLEAN] /\ lock \in [Key -> LockId \cup {0}]
      /\ bin \in [Key -> Binary \cup {None, Partial}]
      /\ meta \in [Key -> Versions \cup {None, Partial}]
      /\ linked \in [Proc -> BOOLEAN]
  BY DEF Shape
<1>1. ASSUME NEW p \in Proc, Step(p) \/ Crash(p),
             ~EnsureDir(p), ~OpenLock(p), ~Create(p), ~Write(p), ~PutFails(p)
      PROVE  Entries'
  <2>1. UNCHANGED entry
    BY <1>1, EntriesAlone
  <2>2. \A q \in Proc : linked'[q] => linked[q] /\ key'[q] = key[q]
    <3>1. \A q \in Proc \ {p} : linked'[q] => linked[q] /\ key'[q] = key[q]
      BY <1>1, OthersAlone
    <3>2. CASE Start(p)
      BY <1>0, <3>2 DEF Start, OpenFiles
    <3>3. CASE ~Start(p)
      BY <1>0, <1>1, <3>3 DEF Step, ReadMeta, ReadRunner, Transpile, Build, CompileFails,
         PutFailsEarly, GivesUp, Flock, Unlock, Execute, Crash
    <3> QED
      BY <3>1, <3>2, <3>3
  <2> QED
    BY <2>1, <2>2 DEF entry
<1>2. ASSUME NEW p \in Proc, EnsureDir(p) PROVE Entries'
  BY <1>0, <1>2 DEF EnsureDir
<1>3. ASSUME NEW p \in Proc, OpenLock(p) PROVE Entries'
  BY <1>0, <1>3 DEF OpenLock
<1>4. ASSUME NEW p \in Proc, Create(p) PROVE Entries'
  <2>1. \A q \in Proc : linked'[q] => linked[q] \/ q = p
    BY <1>0, <1>4 DEF Create
  <2>2. exists[key[p]]
    BY <1>4 DEF Create
  <2> QED
    BY <1>0, <1>4, <2>1, <2>2, CreateEffect
<1>5. ASSUME NEW p \in Proc, Write(p) PROVE Entries'
  <2>1. /\ out[p] \in BinaryOf(key[p]) /\ key[p] \in Key /\ key[p].host = host
    BY <1>5, InCache DEF Write, Built, Cached, Populating, Locked
  <2>2. \A q \in Proc : linked'[q] => linked[q]
    BY <1>0, <1>5 DEF Write
  <2>3. /\ \A k \in Key : bin'[k] \in BinaryOf(k) \cup {None, Partial}
        /\ \A k \in Key : meta'[k] \in {k.host, None, Partial}
    BY <1>0, <1>5, <2>1, WriteEffect
  <2>4. \A k \in Key : lock'[k] # 0 \/ bin'[k] # None \/ meta'[k] # None => exists'[k]
    BY <1>0, <1>5, WriteEffect
  <2>5. \A q \in Proc : linked'[q] => exists'[key'[q]]
    BY <1>5, <2>2, WriteEffect
  <2> QED
    BY <2>3, <2>4, <2>5
<1>6. ASSUME NEW p \in Proc, PutFails(p) PROVE Entries'
  <2>1. UNCHANGED key /\ \A k \in Key :
           IF k = key[p]
           THEN exists'[k] = FALSE /\ lock'[k] = 0 /\ bin'[k] = None /\ meta'[k] = None
           ELSE exists'[k] = exists[k] /\ lock'[k] = lock[k] /\ bin'[k] = bin[k]
                /\ meta'[k] = meta[k]
    BY <1>0, <1>6 DEF PutFails
  <2>2. \A q \in Proc : linked'[q] => linked[q] /\ key[q] # key[p]
    BY <1>6 DEF PutFails
  <2>3. \A q \in Proc : linked[q] => key[q] \in Key
    BY <1>0, InCache DEF OpenFiles, Cached, Populating, Locked
  <2> QED
    BY <1>0, <2>1, <2>2, <2>3
<1>7. CASE Change
  BY <1>7 DEF Change, entry
<1>8. CASE UNCHANGED vars
  BY <1>8 DEF vars, entry
<1> QED
  BY <1>1, <1>2, <1>3, <1>4, <1>5, <1>6, <1>7, <1>8 DEF Next, Step

LEMMA RunsInit == Init => Runs
<1> SUFFICES ASSUME Init PROVE Runs
  OBVIOUS
<1> USE KeyFacts
<1>1. Shape
  BY DEF Init, Shape, Place
<1>2. Keyed /\ Built
  BY DEF Init, Keyed, Built, Cached, Populating, Locked, Waiting
<1>3. OpenFiles /\ LocksHeld /\ LocksApart
  BY DEF Init, OpenFiles, LocksHeld, LocksApart, Locked, Waiting
<1>4. Entries
  BY DEF Init, Entries
<1>5. TempDirs
  <2>1. LeftOver = {} /\ crashes = 0 /\ tmp = {} /\ runs \in [Proc -> Nat]
    BY DEF Init, LeftOver
  <2>2. \A p \in Proc : pc[p] = "idle"
    BY DEF Init
  <2> QED
    BY <2>1, <2>2, FS_EmptySet DEF TempDirs
<1> QED
  BY <1>1, <1>2, <1>3, <1>4, <1>5 DEF Runs

LEMMA RunsNext == Runs /\ [Next]_vars => Runs'
BY ShapeNext, KeyedNext, BuiltNext, TempDirsNext, OpenFilesNext, LocksHeldNext, LocksApartNext, EntriesNext
   DEF Runs

LEMMA RunsHold == Spec => []Runs
BY RunsInit, RunsNext, PTL DEF Spec

LEMMA RunsTyped == Runs => BuildTypeOK
<1> SUFFICES ASSUME Runs PROVE BuildTypeOK
  OBVIOUS
<1>1. \A p \in Proc : pc[p] \in Locked <=> \E i \in LockId : holder[i] = p
  <2>1. \A p \in Proc : pc[p] \in Locked => lockfd[p] \in LockId /\ holder[lockfd[p]] = p
    BY DEF Runs, Shape, OpenFiles, LocksHeld
  <2> QED
    BY <2>1 DEF Runs, LocksHeld
<1> QED
  BY <1>1 DEF Runs, Shape, TempDirs, OpenFiles, Entries, BuildTypeOK, Place

(* The types, and what each place in a run of wasm2go-run has open,        *)
(* whatever fails.  Of runs that have ended there are as many temporary    *)
(* directories as processes were killed.                                   *)
THEOREM TypeCorrect == Spec => []BuildTypeOK
BY RunsHold, RunsTyped, PTL

-----------------------------------------------------------------------------
(* Until a call on the cache fails.                                        *)

LEMMA Exclusion == OpenFiles /\ LocksHeld /\ LockNamed => Excluded
BY DEF OpenFiles, LocksHeld, LockNamed, Excluded, Locked, Waiting

LEMMA NoFailureBefore == Shape /\ [Next]_vars /\ failures' = 0 => failures = 0
<1> SUFFICES ASSUME Shape, [Next]_vars, failures' = 0 PROVE failures = 0
  OBVIOUS
<1>0. failures \in Nat
  BY DEF Shape
<1>1. ASSUME NEW p \in Proc, Step(p) PROVE failures' \in {failures, failures + 1}
  BY <1>1 DEF Step, Start, ReadMeta, ReadRunner, Transpile, Build, CompileFails, OwnCallFails,
     EnsureDir, OpenLock, PutFailsEarly, CacheCallFails, Flock, Create, Write, PutFails,
     Unlock, Execute, Fresh, bounds
<1>2. ASSUME NEW p \in Proc, Crash(p) PROVE failures' = failures
  BY <1>2 DEF Crash
<1>3. CASE Change
  BY <1>3 DEF Change
<1>4. CASE UNCHANGED vars
  BY <1>4 DEF vars, bounds
<1> QED
  BY <1>0, <1>1, <1>2, <1>3, <1>4 DEF Next

(* No entry is removed: a population fails of a call, or of a directory    *)
(* that another failed one has removed.                                    *)
LEMMA NothingRemoved ==
    ASSUME Shape, LockNamed, failures = 0, failures' = 0, NEW p \in Proc
    PROVE  ~PutFails(p)
BY DEF Shape, LockNamed, PutFails, CacheCallFails, Populating, Locked

LEMMA LockNamedNext ==
    Runs /\ LockNamed /\ failures = 0 /\ [Next]_vars /\ failures' = 0 => LockNamed'
<1> SUFFICES ASSUME Runs, LockNamed, failures = 0, [Next]_vars, failures' = 0
             PROVE  LockNamed'
  OBVIOUS
<1> USE DEF LockNamed, Goto, Populating, Locked, Waiting
<1>0. /\ pc \in [Proc -> Place] /\ key \in [Proc -> Key \cup {NoKey}]
      /\ exists \in [Key -> BOOLEAN] /\ lock \in [Key -> LockId \cup {0}]
      /\ lockfd \in [Proc -> LockId \cup {0}] /\ linked \in [Proc -> BOOLEAN]
      /\ 0 \notin LockId
  BY KeyFacts DEF Runs, Shape
<1>1. \A q \in Proc : pc[q] \in Populating => key[q] \in Key
  BY InCache DEF Runs, Cached
<1>2. ASSUME NEW p \in Proc, OpenLock(p) PROVE LockNamed'
  <2>1. PICK i \in LockId :
           /\ lock[key[p]] = i \/ lock[key[p]] = 0
           /\ lock' = [lock EXCEPT ![key[p]] = i]
           /\ lockfd' = [lockfd EXCEPT ![p] = i]
    BY <1>2, OpenLockEffect DEF Runs
  <2>2. /\ UNCHANGED <<key, exists, linked>> /\ pc' = [pc EXCEPT ![p] = "flock"]
        /\ exists[key[p]] /\ key[p] \in Key
    BY <1>1, <1>2 DEF OpenLock
  <2>3. \A q \in Proc : pc[q] \in Locked \cup Waiting => lockfd[q] # 0
    BY DEF Runs, OpenFiles
  <2>4. \A q \in Proc : pc'[q] \in Locked \cup Waiting => lock'[key'[q]] = lockfd'[q]
    BY <1>0, <1>1, <2>1, <2>2, <2>3
  <2> QED
    BY <1>0, <2>2, <2>4
<1>3. ASSUME NEW p \in Proc, Step(p) \/ Crash(p), ~OpenLock(p) PROVE LockNamed'
  <2>1. /\ \A q \in Proc \ {p} : pc'[q] = pc[q] /\ key'[q] = key[q] /\ lockfd'[q] = lockfd[q]
        /\ ~PutFails(p)
    BY <1>3, OthersAlone, NothingRemoved DEF Runs
  <2>2. UNCHANGED lock /\ \A k \in Key : exists[k] => exists'[k]
    <3>1. CASE EnsureDir(p) \/ Create(p) \/ Write(p)
      BY <1>0, <3>1 DEF EnsureDir, Create, Write
    <3>2. CASE ~(EnsureDir(p) \/ Create(p) \/ Write(p))
      BY <1>3, <2>1, <3>2, EntriesAlone DEF entry
    <3> QED
      BY <3>1, <3>2
  <2>3. /\ pc'[p] \in Locked \cup Waiting =>
              key'[p] = key[p] /\ lockfd'[p] = lockfd[p] /\ pc[p] \in Locked \cup Waiting
        /\ pc'[p] \in Populating \ {"mkdir"} =>
              key'[p] = key[p] /\ (pc[p] \in Populating \ {"mkdir"} \/ EnsureDir(p))
        /\ pc'[p] \in {"write1", "write2"} => linked'[p]
    <3>1. CASE Start(p) \/ ReadMeta(p) \/ ReadRunner(p) \/ Transpile(p)
      BY <1>0, <3>1 DEF Start, ReadMeta, ReadRunner, Transpile, locks
    <3>2. CASE Build(p) \/ CompileFails(p) \/ EnsureDir(p) \/ PutFailsEarly(p)
      BY <1>0, <3>2 DEF Build, CompileFails, EnsureDir, PutFailsEarly, GivesUp, locks
    <3>3. CASE Flock(p) \/ Create(p) \/ Write(p)
      BY <1>0, <3>3 DEF Flock, Create, Write, locks
    <3>4. CASE Unlock(p) \/ Execute(p) \/ Crash(p)
      BY <1>0, <3>4 DEF Unlock, Execute, Crash
    <3> QED
      BY <1>3, <2>1, <3>1, <3>2, <3>3, <3>4 DEF Step
  <2>4. \A q \in Proc \ {p} : linked'[q] = linked[q]
    BY <1>0, <1>3, <2>1 DEF Step, Start, ReadMeta, ReadRunner, Transpile, Build, CompileFails,
       EnsureDir, PutFailsEarly, Flock, Create, Write, Unlock, Execute, Crash
  <2>5. EnsureDir(p) => exists'[key[p]]
    BY <1>0, <1>1 DEF EnsureDir
  <2> QED
    BY <1>1, <2>1, <2>2, <2>3, <2>4, <2>5
<1>4. CASE Change
  BY <1>4 DEF Change, entry, locks
<1>5. CASE UNCHANGED vars
  BY <1>5 DEF vars, entry, locks
<1> QED
  BY <1>2, <1>3, <1>4, <1>5 DEF Next

(* The runner and the metadata of an entry change by its population only.  *)
LEMMA EntryAlone ==
    ASSUME Runs, LockNamed, failures = 0, failures' = 0,
           NEW p \in Proc, Step(p) \/ Crash(p), NEW k \in Key,
           key[p] # k \/ pc[p] \notin {"create1", "write1", "create2", "write2"}
    PROVE  bin'[k] = bin[k] /\ meta'[k] = meta[k]
<1>0. /\ bin \in [Key -> Binary \cup {None, Partial}]
      /\ meta \in [Key -> Versions \cup {None, Partial}]
  BY DEF Runs, Shape
<1>1. ~PutFails(p)
  BY NothingRemoved DEF Runs
<1>2. CASE EnsureDir(p) \/ OpenLock(p)
  BY <1>2 DEF EnsureDir, OpenLock
<1>3. CASE Create(p)
  BY <1>0, <1>3, CreateEffect
<1>4. CASE Write(p)
  BY <1>0, <1>4, WriteEffect
<1>5. CASE ~EnsureDir(p) /\ ~OpenLock(p) /\ ~Create(p) /\ ~Write(p)
  BY <1>1, <1>5, EntriesAlone DEF entry
<1> QED
  BY <1>2, <1>3, <1>4, <1>5

LEMMA MetaVouchesNext ==
    /\ Runs /\ LockNamed /\ MetaVouches /\ failures = 0
    /\ [Next]_vars /\ failures' = 0
    => MetaVouches'
<1> SUFFICES ASSUME Runs, LockNamed, MetaVouches, failures = 0, [Next]_vars, failures' = 0
             PROVE  MetaVouches'
  OBVIOUS
<1>0. /\ pc \in [Proc -> Place] /\ key \in [Proc -> Key \cup {NoKey}]
      /\ bin \in [Key -> Binary \cup {None, Partial}]
      /\ meta \in [Key -> Versions \cup {None, Partial}]
      /\ host \in Versions
      /\ \A q \in Proc : pc[q] \in Cached =>
            key[q] \in Key /\ key[q].host = host /\ TheBinary(q) \in BinaryOf(key[q])
  BY InCache DEF Runs, Shape
<1>1. /\ \A k \in Key : meta[k] = k.host => bin[k] \in BinaryOf(k)
      /\ \A q \in Proc : pc[q] \in {"create2", "write2"} => bin[key[q]] \in BinaryOf(key[q])
      /\ \A q \in Proc : pc[q] \in {"create1", "write1", "create2"} => meta[key[q]] # host
      /\ \A q \in Proc : pc[q] \in {"runner1", "runner2"} => meta[key[q]] = host
  BY DEF MetaVouches
<1>2. \A k \in Key : bin[k] \in BinaryOf(k) => bin[k] # None
  BY KeyFacts, BinaryFields
<1>3. ASSUME NEW p \in Proc, Step(p) \/ Crash(p) PROVE MetaVouches'
  <2> DEFINE writes == pc[p] \in {"create1", "write1", "create2", "write2"}
  <2>1. /\ UNCHANGED host /\ ~PutFails(p)
        /\ \A q \in Proc \ {p} : pc'[q] = pc[q] /\ key'[q] = key[q]
    BY <1>3, OthersAlone, NothingRemoved DEF Runs, user
  <2>2. \A k \in Key : key[p] # k \/ ~writes => bin'[k] = bin[k] /\ meta'[k] = meta[k]
    BY <1>3, EntryAlone
  <2>3. \A q \in Proc \ {p} : pc[q] \in Locked /\ writes => key[q] # key[p]
    BY Exclusion DEF Runs, Excluded, Locked
  <2>4. CASE Create(p)
    <3>1. /\ key[p] \in Key /\ key' = key /\ pc' = [pc EXCEPT ![p] =
                IF pc[p] = "create1" THEN "write1" ELSE "write2"]
      BY <1>0, <2>4 DEF Create, Goto, Cached, Populating, Locked
    <3>2. /\ meta[key[p]] # host /\ meta'[key[p]] # host
          /\ pc[p] = "create1" => meta'[key[p]] = meta[key[p]]
          /\ pc[p] = "create2" => bin'[key[p]] = bin[key[p]]
      <4>1. CASE pc[p] = "create1"
        BY <1>1, <2>4, <4>1, CreateEffect
      <4>2. CASE pc[p] = "create2"
        <5>1. meta' = [meta EXCEPT ![key[p]] = Partial] /\ bin' = bin
          BY <2>4, <4>2, CreateEffect
        <5>2. Partial # host
          BY <1>0, KeyFacts
        <5> QED
          BY <1>0, <1>1, <3>1, <4>2, <5>1, <5>2
      <4> QED
        BY <2>4, <4>1, <4>2 DEF Create
    <3>3. \A k \in Key : meta'[k] = k.host => bin'[k] \in BinaryOf(k)
      <4> SUFFICES ASSUME NEW k \in Key, k # key[p] PROVE meta'[k] = k.host => bin'[k] \in BinaryOf(k)
        BY <1>0, <2>4, <3>2 DEF Create, Cached, Populating, Locked
      <4> QED
        BY <1>1, <2>2
    <3>4. \A q \in Proc : pc'[q] \in {"create2", "write2"} => bin'[key[q]] \in BinaryOf(key[q])
      BY <1>0, <1>1, <2>1, <2>2, <2>3, <2>4, <3>1, <3>2 DEF Create, Cached, Populating, Locked
    <3>5. \A q \in Proc : pc'[q] \in {"create1", "write1", "create2"} => meta'[key[q]] # host
      BY <1>0, <1>1, <2>1, <2>2, <2>3, <2>4, <3>1, <3>2 DEF Create, Cached, Populating, Locked
    <3>6. \A q \in Proc : pc'[q] \in {"runner1", "runner2"} => meta'[key[q]] = host
      <4> SUFFICES ASSUME NEW q \in Proc, pc'[q] \in {"runner1", "runner2"} PROVE meta'[key[q]] = host
        OBVIOUS
      <4>1. q # p /\ pc[q] \in {"runner1", "runner2"} /\ meta[key[q]] = host /\ key[q] \in Key
        BY <1>0, <1>1, <2>1, <3>1 DEF Cached, Populating, Locked
      <4> QED
        BY <2>2, <3>2, <4>1
    <3> QED
      BY <2>1, <3>1, <3>3, <3>4, <3>5, <3>6 DEF MetaVouches
  <2>5. CASE Write(p)
    <3>1. /\ key[p] \in Key /\ key[p].host = host /\ key' = key
          /\ out[p] \in BinaryOf(key[p]) /\ linked[p]
          /\ pc' = [pc EXCEPT ![p] = IF pc[p] = "write1" THEN "create2" ELSE "unlock"]
      BY <1>0, <2>5 DEF Write, Goto, Cached, Populating, Locked, Runs, Built, LockNamed
    <3>2. /\ pc[p] = "write1" => meta'[key[p]] = meta[key[p]]
          /\ pc[p] = "write2" => meta'[key[p]] = host
          /\ bin'[key[p]] \in BinaryOf(key[p])
      BY <1>0, <1>1, <2>5, <3>1, WriteEffect DEF Write
    <3>3. \A k \in Key : meta'[k] = k.host => bin'[k] \in BinaryOf(k)
      BY <1>1, <2>2, <3>2
    <3>4. \A q \in Proc : pc'[q] \in {"create2", "write2"} => bin'[key[q]] \in BinaryOf(key[q])
      <4> SUFFICES ASSUME NEW q \in Proc \ {p}, pc'[q] \in {"create2", "write2"}
                   PROVE  bin'[key[q]] \in BinaryOf(key[q])
        BY <3>2
      <4>1. key[q] \in Key
        BY <1>0, <2>1 DEF Cached, Populating, Locked
      <4> QED
        BY <1>1, <2>1, <2>2, <3>2, <4>1
    <3>5. \A q \in Proc : pc'[q] \in {"create1", "write1", "create2"} => meta'[key[q]] # host
      <4> SUFFICES ASSUME NEW q \in Proc, pc'[q] \in {"create1", "write1", "create2"}
                   PROVE  meta'[key[q]] # host
        OBVIOUS
      <4>1. CASE q = p
        BY <1>0, <1>1, <2>5, <3>1, <3>2, <4>1 DEF Write
      <4>2. CASE q # p
        <5>1. key[q] \in Key /\ key[q] # key[p] /\ pc[q] = pc'[q]
          BY <1>0, <2>1, <2>3, <2>5, <4>2 DEF Write, Cached, Populating, Locked
        <5> QED
          BY <1>1, <2>2, <5>1
      <4> QED
        BY <4>1, <4>2
    <3>6. \A q \in Proc : pc'[q] \in {"runner1", "runner2"} => meta'[key[q]] = host
      <4> SUFFICES ASSUME NEW q \in Proc, pc'[q] \in {"runner1", "runner2"} PROVE meta'[key[q]] = host
        OBVIOUS
      <4>1. q # p /\ pc[q] \in {"runner1", "runner2"} /\ meta[key[q]] = host /\ key[q] \in Key
        BY <1>0, <1>1, <2>1, <3>1 DEF Cached, Populating, Locked
      <4>2. pc[p] = "write1" \/ pc[p] = "write2"
        BY <2>5 DEF Write
      <4> QED
        BY <2>2, <3>2, <4>1, <4>2
    <3> QED
      BY <2>1, <3>1, <3>3, <3>4, <3>5, <3>6 DEF MetaVouches
  <2>6. CASE ~Create(p) /\ ~Write(p)
    <3>1. UNCHANGED <<bin, meta>>
      <4>1. CASE EnsureDir(p) \/ OpenLock(p)
        BY <4>1 DEF EnsureDir, OpenLock
      <4>2. CASE ~EnsureDir(p) /\ ~OpenLock(p)
        BY <1>3, <2>1, <2>6, <4>2, EntriesAlone DEF entry
      <4> QED
        BY <4>1, <4>2
    <3>2. CASE ReadMeta(p)
      <4>1. key' = key /\ pc' = [pc EXCEPT ![p] =
               IF pc[p] = "meta1" THEN IF meta[key[p]] = host THEN "runner1" ELSE "transpile"
               ELSE IF meta[key[p]] = host THEN "runner2" ELSE "create1"]
        BY <1>0, <3>2 DEF ReadMeta, MatchesCurrent, Goto
      <4> QED
        BY <1>0, <1>1, <2>1, <3>1, <4>1 DEF MetaVouches
    <3>3. CASE ReadRunner(p)
      <4>1. key' = key /\ pc'[p] \in {"execute", "transpile", "unlock"}
        <5>1. key[p] \in Key /\ meta[key[p]] = host
          BY <1>0, <1>1, <3>3 DEF ReadRunner, Cached, Populating, Locked
        <5>2. bin[key[p]] # None
          BY <1>0, <1>1, <1>2, <3>3, <5>1 DEF ReadRunner, Cached, Populating, Locked
        <5> QED
          BY <1>0, <3>3, <5>2 DEF ReadRunner, Goto
      <4> QED
        BY <1>1, <2>1, <3>1, <4>1 DEF MetaVouches
    <3>4. CASE ~ReadMeta(p) /\ ~ReadRunner(p)
      <4>1. pc'[p] \notin {"runner1", "runner2", "create1", "write1", "create2", "write2"}
        BY <1>0, <1>3, <2>1, <2>6, <3>4 DEF Step, Start, Transpile, Build,
           CompileFails, EnsureDir, OpenLock, PutFailsEarly, GivesUp, Flock, Unlock, Execute,
           Crash, Goto
      <4> QED
        BY <1>1, <2>1, <3>1, <4>1 DEF MetaVouches
    <3> QED
      BY <3>2, <3>3, <3>4
  <2> QED
    BY <2>4, <2>5, <2>6
<1>4. CASE Change
  BY <1>0, <1>1, <1>4 DEF Change, MetaVouches, entry
<1>5. CASE UNCHANGED vars
  BY <1>1, <1>5 DEF vars, MetaVouches, entry, user
<1> QED
  BY <1>3, <1>4, <1>5 DEF Next

(* What is executed has been built by this run, or found beside metadata   *)
(* that vouches for it.                                                    *)
LEMMA CurrentNext ==
    Runs /\ MetaVouches /\ Current /\ [Next]_vars => Current'
<1> SUFFICES ASSUME Runs, MetaVouches, Current, [Next]_vars PROVE Current'
  OBVIOUS
<1> DEFINE Is(q) == /\ out[q] \in Binary
                    /\ out[q].wasm = wasm /\ out[q].host = host
                    /\ Canonical(out[q].cfg) = Canonical(CfgOf[q])
                    /\ key[q] = NoKey => out[q].tool = tool
<1>0. /\ pc \in [Proc -> Place] /\ key \in [Proc -> Key \cup {NoKey}]
      /\ out \in [Proc -> Source \cup Binary \cup {None, Partial, Failed}]
      /\ host \in Versions /\ tool \in Versions
  BY DEF Runs, Shape
<1>1. ASSUME NEW p \in Proc, Step(p) \/ Crash(p) PROVE Current'
  <2>1. /\ UNCHANGED <<wasm, host, tool>>
        /\ \A q \in Proc \ {p} : pc'[q] = pc[q] /\ key'[q] = key[q] /\ out'[q] = out[q]
    BY <1>1, OthersAlone DEF Runs, user
  <2>2. ASSUME wasm \in Content, out'[p] = TheBinary(p) PROVE Is(p)'
    <3>1. TheBinary(p) \in Binary
      BY <1>0, <2>2, BinaryType
    <3> QED
      BY <2>1, <2>2, <3>1 DEF TheBinary
  <2>3. pc'[p] = "execute" => Is(p)'
    <3>1. CASE PutFailsEarly(p) \/ Unlock(p)
      BY <2>2, <3>1 DEF PutFailsEarly, GivesUp, Unlock, Runs, Built, Populating, Locked
    <3>2. CASE Build(p)
      BY <1>0, <2>2, <3>2 DEF Build, Gives, Runs, Built, TheSource, TheBinary
    <3>3. CASE ReadRunner(p)
      <4>1. SUFFICES ASSUME pc'[p] = "execute" PROVE Is(p)'
        OBVIOUS
      <4>2. pc[p] = "runner1" /\ out' = [out EXCEPT ![p] = bin[key[p]]] /\ UNCHANGED key
        BY <1>0, <3>3, <4>1 DEF ReadRunner, Goto, Gives
      <4>3. /\ key[p] \in Key /\ key[p] # NoKey
            /\ key[p].wasm = wasm /\ key[p].host = host /\ key[p].cfg = Canonical(CfgOf[p])
        BY <4>2, InCache DEF Runs, Cached, Keyed
      <4>4. bin[key[p]] \in BinaryOf(key[p])
        BY <4>2, <4>3 DEF MetaVouches
      <4> QED
        BY <1>0, <2>1, <4>2, <4>3, <4>4 DEF BinaryOf
    <3>4. CASE ~PutFailsEarly(p) /\ ~Unlock(p) /\ ~Build(p) /\ ~ReadRunner(p)
      BY <1>0, <1>1, <3>4 DEF Step, Start, ReadMeta, Transpile, CompileFails, EnsureDir,
         OpenLock, Flock, Create, Write, PutFails, Execute, Crash, Goto
    <3> QED
      BY <3>1, <3>2, <3>3, <3>4
  <2>4. \A q \in Proc \ {p} : pc'[q] = "execute" => Is(q)'
    BY <2>1 DEF Current
  <2> QED
    BY <2>3, <2>4 DEF Current
<1>2. CASE Change
  BY <1>2 DEF Change, Current
<1>3. CASE UNCHANGED vars
  BY <1>3 DEF vars, user, Current
<1> QED
  BY <1>1, <1>2, <1>3 DEF Next

LEMMA CacheInit == Init => CacheInv
<1> SUFFICES ASSUME Init PROVE CacheInv
  OBVIOUS
<1>1. \A k \in Key : k.host \in Versions
  BY DEF Key
<1> QED
  BY <1>1, KeyFacts DEF Init, CacheInv, LockNamed, MetaVouches, Current, Populating, Locked,
     Waiting

LEMMA CacheNext == Runs /\ CacheInv /\ [Next]_vars => CacheInv'
<1> SUFFICES ASSUME Runs, CacheInv, [Next]_vars, failures' = 0
             PROVE  (LockNamed /\ MetaVouches /\ Current)'
  BY DEF CacheInv
<1>1. failures = 0
  BY NoFailureBefore DEF Runs
<1>2. LockNamed /\ MetaVouches /\ Current
  BY <1>1 DEF CacheInv
<1>3. LockNamed'
  BY <1>1, <1>2, LockNamedNext
<1>4. MetaVouches'
  BY <1>1, <1>2, MetaVouchesNext
<1>5. Current'
  BY <1>2, CurrentNext
<1> QED
  BY <1>3, <1>4, <1>5

LEMMA CacheHolds == Spec => []CacheInv
<1>1. Runs /\ CacheInv /\ [Next]_vars => CacheInv'
  BY CacheNext
<1> QED
  BY <1>1, CacheInit, RunsHold, PTL DEF Spec

(* Whoever populates an entry found no valid one under the lock and is     *)
(* alone with it, unless a call on the cache has failed.                   *)
THEOREM ValidRunnerKeptHolds == Spec => []ValidRunnerKept
<1>1. Runs /\ CacheInv => ValidRunnerKept
  <2> SUFFICES ASSUME Runs, CacheInv, failures = 0 PROVE ValidRunnerKept
    BY DEF ValidRunnerKept
  <2>1. MetaVouches /\ Excluded
    BY Exclusion DEF CacheInv, Runs
  <2> QED
    BY <2>1 DEF MetaVouches, Excluded, ValidRunnerKept, Locked
<1> QED
  BY <1>1, RunsHold, CacheHolds, PTL

(* What a run executes, built or cached, is the program of the file, the   *)
(* mounts and the library as they are, unless a call on the cache has      *)
(* failed, or two orders of the same mounts are in use, which the key      *)
(* sorts.                                                                  *)
THEOREM RunsAreCurrentHolds == Spec => [](SortingLosesNothing => RunsAreCurrent)
<1>1. Runs /\ CacheInv => (SortingLosesNothing => RunsAreCurrent)
  <2> SUFFICES ASSUME Runs, CacheInv, SortingLosesNothing, failures = 0 PROVE RunsAreCurrent
    BY DEF RunsAreCurrent
  <2>1. Current
    BY DEF CacheInv
  <2>2. \A p \in Proc : pc[p] = "execute" => out[p].cfg = CfgOf[p]
    BY <2>1, KeyFacts, BinaryFields DEF Current, SortingLosesNothing
  <2> QED
    BY <2>1, <2>2 DEF Current, RunsAreCurrent
<1> QED
  BY <1>1, RunsHold, CacheHolds, PTL

-----------------------------------------------------------------------------
(* Whatever fails in the cache.                                            *)

LEMMA OneMore ==
    ASSUME NEW S, IsFiniteSet(S), NEW n \in Nat, Cardinality(S) <= n,
           NEW x, NEW T, T \subseteq S \cup {x}
    PROVE  IsFiniteSet(T) /\ Cardinality(T) <= n + 1 /\ (T \subseteq S => Cardinality(T) <= n)
<1>1. Cardinality(S) \in Nat
  BY FS_CardinalityType
<1>2. /\ IsFiniteSet(S \cup {x}) /\ Cardinality(S \cup {x}) \in Nat
      /\ Cardinality(S \cup {x}) <= Cardinality(S) + 1
  <2>1. /\ IsFiniteSet(S \cup {x})
        /\ \/ Cardinality(S \cup {x}) = Cardinality(S)
           \/ Cardinality(S \cup {x}) = Cardinality(S) + 1
    BY FS_AddElement
  <2> QED
    BY <1>1, <2>1
<1>3. /\ IsFiniteSet(T) /\ Cardinality(T) <= Cardinality(S \cup {x}) /\ Cardinality(T) \in Nat
      /\ T \subseteq S => Cardinality(T) <= Cardinality(S)
  BY <1>2, FS_Subset, FS_CardinalityType
<1> QED
  BY <1>1, <1>2, <1>3

(* Only a kill and a call of its own make a run fail: one of them, one run.*)
LEMMA FailedNext == Runs /\ FailedCounted /\ [Next]_vars => FailedCounted'
<1> SUFFICES ASSUME Runs, FailedCounted, [Next]_vars, changes' = 0 PROVE FailedCounted'
  BY DEF FailedCounted
<1>0. /\ out \in [Proc -> Source \cup Binary \cup {None, Partial, Failed}]
      /\ crashes \in Nat /\ buildFailures \in Nat /\ changes \in Nat
      /\ Failed # None /\ Failed # Partial /\ Failed \notin Source /\ Failed \notin Binary
  BY BuildMarks DEF Runs, Shape, Source
<1> DEFINE fails == crashes + buildFailures
<1>1. ASSUME changes = 0, UNCHANGED wasm,
             NEW p \in Proc, FailedRuns' \subseteq FailedRuns \cup {p},
             \/ fails' = fails /\ FailedRuns' \subseteq FailedRuns
             \/ fails' = fails + 1
      PROVE  FailedCounted'
  <2>1. /\ wasm \in Content /\ IsFiniteSet(FailedRuns) /\ fails \in Nat
        /\ Cardinality(FailedRuns) <= fails
    BY <1>0, <1>1 DEF FailedCounted
  <2> HIDE DEF fails
  <2>2. /\ IsFiniteSet(FailedRuns') /\ Cardinality(FailedRuns') <= fails + 1
        /\ FailedRuns' \subseteq FailedRuns => Cardinality(FailedRuns') <= fails
    BY <1>1, <2>1, OneMore
  <2>3. Cardinality(FailedRuns') <= fails'
    BY <1>1, <2>2
  <2> QED
    BY <1>1, <2>1, <2>2, <2>3 DEF FailedCounted, fails
<1>2. ASSUME NEW p \in Proc, Step(p) PROVE FailedCounted'
  <2>1. UNCHANGED <<crashes, changes>> /\ UNCHANGED wasm
    BY <1>2, OthersAlone DEF Step, Start, ReadMeta, ReadRunner, Transpile, Build, CompileFails,
       OwnCallFails, EnsureDir, OpenLock, PutFailsEarly, CacheCallFails, Flock, Create, Write,
       PutFails, Unlock, Execute, Fresh, bounds, Runs, user
  <2>2. \A q \in Proc \ {p} : out'[q] = out[q]
    BY <1>2, OthersAlone DEF Runs
  <2>3. CASE CompileFails(p)
    <3>1. FailedRuns' \subseteq FailedRuns \cup {p}
      BY <2>2 DEF FailedRuns
    <3>2. wasm # NoKey
      BY <2>1, KeyFacts DEF FailedCounted
    <3>3. buildFailures' = buildFailures + 1
      BY <2>3, <3>2 DEF CompileFails, OwnCallFails
    <3>4. fails' = fails + 1 /\ changes = 0
      BY <1>0, <2>1, <3>3
    <3> QED
      BY <1>1, <2>1, <3>1, <3>4
  <2>4. CASE ~CompileFails(p)
    <3>1. UNCHANGED buildFailures
      BY <1>2, <2>4 DEF Step, Start, ReadMeta, ReadRunner, Transpile, Build,
         EnsureDir, OpenLock, PutFailsEarly, CacheCallFails, Flock, Create, Write,
         PutFails, Unlock, Execute, Fresh, bounds
    <3>2. out'[p] = Failed => out[p] = Failed
      <4>1. CASE ReadRunner(p)
        <5>1. pc[p] = "runner1" => bin[key[p]] # Failed
          BY <1>0, InCache DEF Runs, Shape, Cached
        <5> QED
          BY <1>0, <4>1, <5>1 DEF ReadRunner, Gives
      <4>2. CASE Transpile(p)
        BY <1>0, <2>1, <4>2, SourceType DEF Transpile, Gives, Runs, Shape, FailedCounted, TheSource
      <4>3. CASE Build(p)
        <5>1. out'[p] = TheBinary(p) /\ wasm \in Content
          BY <1>0, <4>3 DEF Build, Gives, Runs, Built, TheSource, TheBinary
        <5> QED
          BY <1>0, <5>1, BinaryType DEF Runs, Shape
      <4>4. CASE Start(p)
        BY <1>0, <4>4 DEF Start, Gives
      <4> QED
        BY <1>2, <2>4, <4>1, <4>2, <4>3, <4>4 DEF Step, ReadMeta, EnsureDir, OpenLock,
           PutFailsEarly, GivesUp, Flock, Create, Write, PutFails, Unlock, Execute
    <3>3. FailedRuns' \subseteq FailedRuns
      BY <2>2, <3>2 DEF FailedRuns
    <3>4. fails' = fails /\ changes = 0
      BY <2>1, <3>1
    <3> QED
      BY <1>1, <2>1, <3>4, <3>3
  <2> QED
    BY <2>3, <2>4
<1>3. ASSUME NEW p \in Proc, Crash(p) PROVE FailedCounted'
  <2>1. FailedRuns' \subseteq FailedRuns \cup {p}
    BY <1>0, <1>3 DEF FailedRuns, Crash, Gives
  <2>2. fails' = fails + 1 /\ changes = 0 /\ UNCHANGED wasm
    BY <1>0, <1>3 DEF Crash, user
  <2> QED
    BY <1>1, <2>1, <2>2
<1>4. CASE Change
  BY <1>0, <1>4 DEF Change
<1>5. CASE UNCHANGED vars
  BY <1>5 DEF vars, user, bounds, FailedCounted, FailedRuns
<1> QED
  BY <1>2, <1>3, <1>4, <1>5 DEF Next

LEMMA FailedInit == Init => FailedCounted
<1> SUFFICES ASSUME Init PROVE FailedCounted
  OBVIOUS
<1>1. FailedRuns = {} /\ crashes = 0 /\ buildFailures = 0 /\ wasm \in Content
  BY BuildMarks DEF Init, FailedRuns
<1> QED
  BY <1>1, FS_EmptySet DEF FailedCounted

(* Until the user changes something, a run fails only of its own calls, or *)
(* killed, whatever fails in the cache, and for whomever.                  *)
THEOREM CacheFailsNoRunHolds == Spec => []CacheFailsNoRun
<1>1. Runs /\ FailedCounted /\ [Next]_vars => FailedCounted'
  BY FailedNext
<1>2. FailedCounted => CacheFailsNoRun
  BY DEF FailedCounted, CacheFailsNoRun, FailedRuns
<1> QED
  BY <1>1, <1>2, FailedInit, RunsHold, PTL DEF Spec
=============================================================================
