--------------------------- MODULE FdTableProofs ---------------------------
(* Theorems of FdTable, for every table size, set of mounts, set of host   *)
(* files and set of arguments.                                             *)
EXTENDS FdTable, TLAPS

-----------------------------------------------------------------------------
(* Rights.                                                                 *)

(* The rights path_open stores are rights, and the parent had or passed on *)
(* each of them.                                                           *)
LEMMA StoredBaseBounded ==
    ASSUME NEW parentBase, NEW parentInh, NEW type, NEW req
    PROVE  StoredBase(parentBase, parentInh, type, req)
               \subseteq parentBase \cup parentInh
BY DEF StoredBase, FileBase

(* What path_open stores for a file beyond the request is no FD_WRITE.     *)
LEMMA StoredWriteWasRequested ==
    ASSUME NEW parentBase, NEW parentInh, NEW req,
           "FD_WRITE" \in StoredBase(parentBase, parentInh, "file", req)
    PROVE  "FD_WRITE" \in req
BY DEF StoredBase, FileBase, Effective

LEMMA StoredInhBounded ==
    ASSUME NEW parentInh, NEW reqInh
    PROVE  StoredInh(parentInh, reqInh) \subseteq parentInh
BY DEF StoredInh

(* The bundles of the code are sets of rights.                             *)
LEMMA BundlesAreRights ==
    /\ CharDev \subseteq Right
    /\ \A m : PreopenBase(m) \subseteq Right /\ PreopenInh(m) \subseteq Right
<1>1. DirectoryInherited \subseteq Right
  BY DEF DirectoryInherited, Right, FdRights
<1>2. CharDev \subseteq Right /\ ReadOnlyDirPreopen \subseteq Right
  BY DEF CharDev, ReadOnlyDirPreopen, Right, FdRights, PathRights
<1>3. WritableDirPreopenBase \subseteq Right
  BY <1>1 DEF WritableDirPreopenBase, Right, PathRights
<1>4. WritableDirPreopenInheriting \subseteq Right
  BY <1>1 DEF WritableDirPreopenInheriting, Right, FdRights
<1> QED
  BY <1>2, <1>3, <1>4 DEF PreopenBase, PreopenInh

-----------------------------------------------------------------------------
(* Entries.                                                                *)

LEMMA NumMountsNat ==
    /\ NumMounts \in Nat
    /\ FirstDynamic \in Nat
    /\ FirstDynamic >= 3
    /\ Slot \subseteq Nat
    /\ \A i \in 1..NumMounts : GuestPath[i] \in Mount
<1>1. NumMounts \in Nat
  <2>1. GuestPath \in Seq(STRING)
    BY GuestPathAssumption DEF GuestPathAssumption
  <2> QED
    BY <2>1 DEF NumMounts
<1>2. FirstDynamic \in Nat /\ FirstDynamic >= 3
  BY <1>1 DEF FirstDynamic
<1>3. Slot \subseteq Nat
  BY BoundAssumption DEF Slot
<1> QED
  BY <1>1, <1>2, <1>3 DEF Mount

LEMMA EmptyOK == EntryOK(Empty) /\ Unused(Empty)
BY HandleAssumption DEF EntryOK, EntryType, Empty, NonPreopenDir, Unused

LEMMA CharDevOK ==
    ASSUME NEW name \in {"/dev/null", "stdin", "stdout", "stderr"}
    PROVE  /\ EntryOK(CharDevEntry(name))
           /\ CharDevEntry(name).file = NoFile
           /\ CharDevEntry(name).type = "chardev"
           /\ CharDevEntry(name).path = name
           /\ CharDevEntry(name).root = "none"
           /\ CharDevEntry(name).base = CharDev
           /\ CharDevEntry(name).inh = {}
BY BundlesAreRights, HandleAssumption DEF EntryOK, EntryType, CharDevEntry, Empty, NonPreopenDir

LEMMA PreopenOK ==
    ASSUME NEW m \in Mount
    PROVE  EntryOK(PreopenEntry(m))
BY BundlesAreRights, HandleAssumption DEF EntryOK, EntryType, PreopenEntry, Empty, NonPreopenDir

(* An entry that path_open stores is well formed if the directory it was   *)
(* opened through is.                                                      *)
LEMMA OpenedOK ==
    ASSUME NEW h \in Handle, NEW path \in Mount, NEW dir \in EntryType,
           NEW type \in {"dir", "file"},
           NEW reqBase \in BaseArg, NEW reqInh \in InhArg
    PROVE  EntryOK(OpenedEntry(h, path, dir, type, reqBase, reqInh))
<1> DEFINE e == OpenedEntry(h, path, dir, type, reqBase, reqInh)
<1>1. dir.base \subseteq Right /\ dir.inh \subseteq Right /\ dir.root \in Mount \cup {"none"}
  BY DEF EntryType
<1>2. e.base \subseteq Right /\ e.inh \subseteq Right
  BY <1>1, StoredBaseBounded, StoredInhBounded DEF OpenedEntry
<1>3. e \in EntryType
  BY <1>1, <1>2 DEF OpenedEntry, EntryType
<1> QED
  BY <1>3, HandleAssumption DEF EntryOK, OpenedEntry, NonPreopenDir

(* resolveDirfdPath yields mounts.                                         *)
LEMMA ResolvedInMount ==
    ASSUME NEW dir, EntryOK(dir), NEW abs \in BOOLEAN, NEW r \in Resolved(dir, abs)
    PROVE  r.mount \in Mount /\ r.path \in Mount
<1>1. dir.type = "dir" => dir.path \in Mount
  BY DEF EntryOK
<1>2. dir.preopen => dir.type = "dir"
  BY DEF EntryOK
<1>3. \A m \in Mount : \A p \in Beneath[m] : p \in Mount
  BY MountAssumption
<1>4. CASE abs
  BY <1>4 DEF Resolved
<1>5. CASE ~abs
  BY <1>1, <1>2, <1>3, <1>5 DEF Resolved, NonPreopenDir
<1> QED
  BY <1>4, <1>5

-----------------------------------------------------------------------------
(* Type correctness.                                                       *)

LEMMA InitTypeOK == Init => TypeOK
<1> SUFFICES ASSUME Init PROVE TypeOK
  OBVIOUS
<1>1. \A fd \in Slot : EntryOK(fds[fd]) /\ (fd >= nfds => fds[fd] = Empty)
  <2> TAKE fd \in Slot
  <2>0. fd \in Nat /\ NumMounts \in Nat /\ FirstDynamic = 3 + NumMounts
    BY NumMountsNat DEF FirstDynamic
  <2>1. CASE fd < 3
    <3>1. fds[fd] = CharDevEntry(StdName[fd])
      BY <2>0, <2>1 DEF Init
    <3>2. StdName[fd] \in {"stdin", "stdout", "stderr"}
      BY <2>0, <2>1 DEF StdName
    <3> QED
      BY <2>0, <2>1, <3>1, <3>2, CharDevOK DEF Init
  <2>2. CASE fd \in 3..(FirstDynamic - 1)
    <3>1. fds[fd] = PreopenEntry(GuestPath[fd - 2])
      BY <2>0, <2>2 DEF Init
    <3>2. GuestPath[fd - 2] \in Mount
      BY <2>0, <2>2, NumMountsNat
    <3> QED
      BY <2>0, <2>2, <3>1, <3>2, PreopenOK DEF Init
  <2>3. CASE fd >= FirstDynamic
    <3>1. fds[fd] = Empty
      BY <2>0, <2>3 DEF Init
    <3> QED
      BY <3>1, EmptyOK
  <2> QED
    BY <2>0, <2>1, <2>2, <2>3
<1>2. preopens \in [1..NumMounts -> EntryType]
  BY PreopenOK, NumMountsNat DEF Init, EntryOK
<1>3. host \in [Handle -> HostFileType]
  BY DEF Init, ClosedFile, HostFileType
<1>4. nfds \in FirstDynamic..MaxFds /\ invalidated \in SUBSET (0..(nfds - 1))
  BY NumMountsNat, BoundAssumption DEF Init
<1>5. DOMAIN fds = Slot /\ fds = [fd \in Slot |-> fds[fd]] /\ shared \in BOOLEAN
  BY DEF Init
<1> QED
  BY <1>1, <1>2, <1>3, <1>4, <1>5 DEF TypeOK

(* What allocFD returns, and what it leaves as it is.                      *)
LEMMA AllocFdResult ==
    ASSUME TypeOK, NEW fd \in Slot, AllocFd(fd)
    PROVE  /\ fd >= FirstDynamic
           /\ fds[fd] = Empty
           /\ fd < nfds' /\ nfds <= nfds'
           /\ nfds' \in FirstDynamic..MaxFds
           /\ shared' \in BOOLEAN
           /\ preopens' \in [1..NumMounts -> EntryType]
<1> USE NumMountsNat, BoundAssumption
<1>1. fds[fd] = Empty
  <2>1. CASE fd < nfds
    BY <2>1 DEF AllocFd, TypeOK, EntryOK, Unused
  <2>2. CASE fd = nfds
    BY <2>2 DEF TypeOK
  <2> QED
    BY <2>1, <2>2 DEF AllocFd
<1>2. fd < nfds' /\ nfds <= nfds' /\ nfds' \in FirstDynamic..MaxFds
  BY DEF AllocFd, Grow, TypeOK
<1>3. \A i \in 1..NumMounts : fds[2 + i] \in EntryType
  BY DEF TypeOK, EntryOK, Slot, FirstDynamic
<1>4. shared' \in BOOLEAN /\ preopens' \in [1..NumMounts -> EntryType]
  BY <1>3 DEF AllocFd, Grow, TypeOK
<1> QED
  BY <1>1, <1>2, <1>4 DEF AllocFd

(* Closing a file leaves the host files well typed.                        *)
LEMMA HostCloseType ==
    ASSUME TypeOK, NEW file
    PROVE  HostClose(file) \in [Handle -> HostFileType]
BY DEF HostClose, ClosedFile, HostFileType, TypeOK

(* What a step of path_open does: it stores an entry in the slot fd for    *)
(* the host file h, closed so far, opened at r with the answer given.      *)
Opened(dirfd, flags, reqBase, reqInh, fd, h, r, type, os, rw) ==
    /\ AllocFd(fd)
    /\ Admitted(r.mount, fds[dirfd], flags, reqBase)
    /\ ~host[h].open
    /\ fds' = [fds EXCEPT ![fd] =
                 OpenedEntry(h, r.path, fds[dirfd], type, reqBase, reqInh)]
    /\ host' = [host EXCEPT ![h] =
                 [open |-> TRUE, mount |-> r.mount, os |-> os,
                  rw |-> rw, asdir |-> "dir" \in flags]]
    /\ invalidated' = invalidated \ {fd}
    /\ os => rw = OpensForWrite(flags, reqBase)
    /\ r.mount \in Mount /\ r.path \in Mount
    /\ fds[dirfd] \in EntryType

LEMMA PathOpenEffect ==
    ASSUME TypeOK, NEW dirfd \in Slot, NEW abs \in BOOLEAN, NEW flags \in OpenFlags,
           NEW reqBase \in BaseArg, NEW reqInh \in InhArg,
           PathOpen(dirfd, abs, flags, reqBase, reqInh)
    PROVE  \E fd \in Slot, h \in Handle, r \in Resolved(fds[dirfd], abs),
              type \in {"dir", "file"}, os \in BOOLEAN, rw \in BOOLEAN :
                Opened(dirfd, flags, reqBase, reqInh, fd, h, r, type, os, rw)
<1>1. PICK r \in Resolved(fds[dirfd], abs), h \in Handle, fd \in Slot :
         /\ Admitted(r.mount, fds[dirfd], flags, reqBase)
         /\ ~host[h].open
         /\ AllocFd(fd)
         /\ \E a \in HostAnswers(r.mount, flags, reqBase) :
              /\ fds' = [fds EXCEPT ![fd] =
                           OpenedEntry(h, r.path, fds[dirfd], a.type, reqBase, reqInh)]
              /\ host' = [host EXCEPT ![h] =
                           [open |-> TRUE, mount |-> r.mount, os |-> a.os,
                            rw |-> a.rw, asdir |-> "dir" \in flags]]
         /\ invalidated' = invalidated \ {fd}
  BY DEF PathOpen, Revalidated
<1>2. PICK a \in HostAnswers(r.mount, flags, reqBase) :
         /\ fds' = [fds EXCEPT ![fd] =
                      OpenedEntry(h, r.path, fds[dirfd], a.type, reqBase, reqInh)]
         /\ host' = [host EXCEPT ![h] =
                      [open |-> TRUE, mount |-> r.mount, os |-> a.os,
                       rw |-> a.rw, asdir |-> "dir" \in flags]]
  BY <1>1
<1>3. OpensForWrite(flags, reqBase) \in BOOLEAN
  BY DEF OpensForWrite
<1>4. /\ a.type \in {"dir", "file"} /\ a.os \in BOOLEAN /\ a.rw \in BOOLEAN
      /\ a.os => a.rw = OpensForWrite(flags, reqBase)
  <2>1. CASE \E t \in {"dir", "file"} :
               a = [type |-> t, os |-> FALSE, rw |-> FALSE]
    BY <2>1
  <2>2. CASE \E t \in {"dir", "file"} :
               a = [type |-> t, os |-> TRUE, rw |-> OpensForWrite(flags, reqBase)]
    BY <2>2, <1>3
  <2> QED
    BY <2>1, <2>2 DEF HostAnswers
<1>5. EntryOK(fds[dirfd]) /\ fds[dirfd] \in EntryType
  BY DEF TypeOK, EntryOK
<1>6. r.mount \in Mount /\ r.path \in Mount
  BY <1>1, <1>5, ResolvedInMount
<1> QED
  BY <1>1, <1>2, <1>4, <1>5, <1>6 DEF Opened

(* fd_fdstat_set_rights changes two fields of one used entry.              *)
LEMMA SetRightsEffect ==
    ASSUME TypeOK, NEW fd \in Slot, NEW base, NEW inh, SetRights(fd, base, inh)
    PROVE  /\ fd < nfds /\ ~Unused(fds[fd])
           /\ base \subseteq fds[fd].base /\ inh \subseteq fds[fd].inh
           /\ fds'[fd].base = base /\ fds'[fd].inh = inh
           /\ \A s \in Slot : s # fd => fds'[s] = fds[s]
           /\ \A s \in Slot : /\ fds'[s].file = fds[s].file
                              /\ fds'[s].type = fds[s].type
                              /\ fds'[s].path = fds[s].path
                              /\ fds'[s].root = fds[s].root
           /\ UNCHANGED <<nfds, invalidated, shared, preopens, host>>
<1>1. fds[fd] \in EntryType
  BY DEF TypeOK, EntryOK
<1>2. fd < nfds /\ ~Unused(fds[fd])
      /\ base \subseteq fds[fd].base /\ inh \subseteq fds[fd].inh
  BY NumMountsNat DEF SetRights, SetRightsErrno, TypeOK, Slot
<1>3. fds' = [fds EXCEPT ![fd] = [[fds[fd] EXCEPT !.base = base] EXCEPT !.inh = inh]]
  BY DEF SetRights, TypeOK
<1>4. \A s \in Slot : fds'[s] = IF s = fd
          THEN [[fds[fd] EXCEPT !.base = base] EXCEPT !.inh = inh] ELSE fds[s]
  BY <1>3 DEF TypeOK
<1>5. /\ fds'[fd].base = base /\ fds'[fd].inh = inh
      /\ fds'[fd].file = fds[fd].file /\ fds'[fd].type = fds[fd].type
      /\ fds'[fd].path = fds[fd].path /\ fds'[fd].root = fds[fd].root
  BY <1>1, <1>4 DEF EntryType
<1>6. \A s \in Slot : s # fd => fds'[s] = fds[s]
  BY <1>4
<1> QED
  BY <1>2, <1>5, <1>6 DEF SetRights

(* The type invariant is inductive.                                        *)
LEMMA NextTypeOK == TypeOK /\ [Next]_vars => TypeOK'
<1> SUFFICES ASSUME TypeOK, [Next]_vars PROVE TypeOK'
  OBVIOUS
<1> USE NumMountsNat, EmptyOK
<1>1. ASSUME NEW fd \in Slot, Close(fd) PROVE TypeOK'
  <2>1. host' \in [Handle -> HostFileType]
    BY <1>1, HostCloseType DEF Close
  <2>2. \A s \in Slot : EntryOK(fds'[s]) /\ (s >= nfds' => fds'[s] = Empty)
    BY <1>1 DEF Close, TypeOK
  <2> QED
    BY <1>1, <2>1, <2>2 DEF Close, TypeOK, EntryOK
<1>2. ASSUME NEW from \in Slot, NEW to \in Slot, Renumber(from, to) PROVE TypeOK'
  <2>1. host' \in [Handle -> HostFileType]
    BY <1>2, HostCloseType DEF Renumber
  <2>2. from < nfds /\ to < nfds
    BY <1>2 DEF Renumber, RenumberErrno, TypeOK
  <2>3. \A s \in Slot : EntryOK(fds'[s]) /\ (s >= nfds' => fds'[s] = Empty)
    BY <1>2, <2>2 DEF Renumber, Moved, TypeOK
  <2>4. invalidated' \in SUBSET (0..(nfds' - 1))
    BY <1>2, <2>2 DEF Renumber, TypeOK
  <2> QED
    BY <1>2, <2>1, <2>3, <2>4 DEF Renumber, Moved, TypeOK, EntryOK
<1>3. CASE OpenDevNull
  <2>1. PICK fd \in Slot : /\ AllocFd(fd)
                           /\ fds' = [fds EXCEPT ![fd] = CharDevEntry("/dev/null")]
                           /\ UNCHANGED <<invalidated, host>>
    BY <1>3 DEF OpenDevNull
  <2>2. fd < nfds' /\ nfds <= nfds' /\ nfds' \in FirstDynamic..MaxFds
    BY <2>1, AllocFdResult
  <2>3. \A s \in Slot : EntryOK(fds'[s]) /\ (s >= nfds' => fds'[s] = Empty)
    BY <2>1, <2>2, CharDevOK DEF TypeOK
  <2>4. invalidated' \in SUBSET (0..(nfds' - 1))
    BY <2>1, <2>2 DEF TypeOK
  <2>5. shared' \in BOOLEAN /\ preopens' \in [1..NumMounts -> EntryType]
    BY <2>1, AllocFdResult
  <2> QED
    BY <2>1, <2>2, <2>3, <2>4, <2>5 DEF TypeOK
<1>4. ASSUME NEW dirfd \in Slot, NEW abs \in BOOLEAN, NEW flags \in OpenFlags,
             NEW reqBase \in BaseArg, NEW reqInh \in InhArg,
             PathOpen(dirfd, abs, flags, reqBase, reqInh)
      PROVE TypeOK'
  <2>1. PICK fd \in Slot, h \in Handle, r \in Resolved(fds[dirfd], abs),
             type \in {"dir", "file"}, os \in BOOLEAN, rw \in BOOLEAN :
               Opened(dirfd, flags, reqBase, reqInh, fd, h, r, type, os, rw)
    BY <1>4, PathOpenEffect
  <2>2. /\ fd < nfds' /\ nfds <= nfds' /\ nfds' \in FirstDynamic..MaxFds
        /\ shared' \in BOOLEAN /\ preopens' \in [1..NumMounts -> EntryType]
    BY <2>1, AllocFdResult DEF Opened
  <2>3. EntryOK(OpenedEntry(h, r.path, fds[dirfd], type, reqBase, reqInh))
    BY <2>1, OpenedOK DEF Opened
  <2>4. \A s \in Slot : EntryOK(fds'[s]) /\ (s >= nfds' => fds'[s] = Empty)
    BY <2>1, <2>2, <2>3 DEF TypeOK, Opened
  <2>5. invalidated' \in SUBSET (0..(nfds' - 1))
    BY <2>1, <2>2 DEF TypeOK, Opened
  <2>6. ("dir" \in flags) \in BOOLEAN
    OBVIOUS
  <2>7. host' \in [Handle -> HostFileType]
    BY <2>1, <2>6 DEF TypeOK, HostFileType, Opened
  <2> QED
    BY <2>1, <2>2, <2>4, <2>5, <2>7 DEF TypeOK, Opened
<1>5. ASSUME NEW fd \in Slot, NEW base \in BaseArg, NEW inh \in InhArg,
             SetRights(fd, base, inh)
      PROVE TypeOK'
  <2>1. fd < nfds /\ ~Unused(fds[fd])
    BY <1>5 DEF SetRights, SetRightsErrno, TypeOK
  <2>2. base \subseteq Right /\ inh \subseteq Right
    BY ArgumentAssumption
  <2>3. EntryOK(fds[fd]) /\ fds[fd] \in EntryType
    BY DEF TypeOK, EntryOK
  <2>4. EntryOK([[fds[fd] EXCEPT !.base = base] EXCEPT !.inh = inh])
    BY <2>1, <2>2, <2>3 DEF EntryOK, EntryType, NonPreopenDir, Unused
  <2>5. \A s \in Slot : EntryOK(fds'[s]) /\ (s >= nfds' => fds'[s] = Empty)
    BY <1>5, <2>1, <2>4 DEF SetRights, TypeOK
  <2> QED
    BY <1>5, <2>5 DEF SetRights, TypeOK
<1>6. CASE UNCHANGED vars
  BY <1>6 DEF vars, TypeOK, EntryOK
<1> QED
  BY <1>1, <1>2, <1>3, <1>4, <1>5, <1>6 DEF Next

(* The fd table keeps its shape: no slot beyond its length is used, every  *)
(* slot holds a well-formed entry.                                         *)
THEOREM TypeCorrect == Spec => []TypeOK
BY InitTypeOK, NextTypeOK, PTL DEF Spec

-----------------------------------------------------------------------------
(* Host files are owned.                                                   *)

LEMMA InitOwnership == Init => HandleOwnership
<1> SUFFICES ASSUME Init PROVE HandleOwnership
  OBVIOUS
<1>1. \A fd \in Slot : fds[fd].file = NoFile
  BY DEF Init, CharDevEntry, PreopenEntry, Empty
<1>2. \A h \in Handle : ~host[h].open
  BY DEF Init, ClosedFile
<1> QED
  BY <1>1, <1>2, HandleAssumption DEF HandleOwnership

(* Clearing or overwriting the slot that owns a file and closing that file *)
(* keeps the rest owned: the step fd_close and fd_renumber share.          *)
LEMMA HostCloseOpen ==
    ASSUME TypeOK, NEW file \in Handle \cup {NoFile}, NEW h \in Handle,
           host' = HostClose(file)
    PROVE  host'[h] = (IF h = file THEN ClosedFile ELSE host[h])
BY DEF HostClose

LEMMA NextOwnership ==
    TypeOK /\ HandleOwnership /\ [Next]_vars => HandleOwnership'
<1> SUFFICES ASSUME TypeOK, HandleOwnership, [Next]_vars PROVE HandleOwnership'
  OBVIOUS
<1> USE HandleAssumption
<1>0. \A s \in Slot : fds[s].file \in Handle \cup {NoFile}
  BY DEF TypeOK, EntryOK, EntryType
<1>a. Empty.file = NoFile /\ ~ClosedFile.open
  BY DEF Empty, ClosedFile
<1>1. ASSUME NEW fd \in Slot, Close(fd) PROVE HandleOwnership'
  <2>1. \A s \in Slot : fds'[s] = IF s = fd THEN Empty ELSE fds[s]
    BY <1>1 DEF Close, TypeOK
  <2>2. \A h \in Handle :
          host'[h] = IF h = fds[fd].file THEN ClosedFile ELSE host[h]
    BY <1>0, <1>1, HostCloseOpen DEF Close
  <2> QED
    BY <1>0, <1>a, <2>1, <2>2 DEF HandleOwnership
<1>2. ASSUME NEW from \in Slot, NEW to \in Slot, Renumber(from, to)
      PROVE HandleOwnership'
  <2>1. from # to
    BY <1>2 DEF Renumber, RenumberErrno
  <2>2. \A s \in Slot : fds'[s] = IF s = from THEN Empty
                                  ELSE IF s = to THEN fds[from] ELSE fds[s]
    BY <1>2, <2>1 DEF Renumber, Moved, TypeOK
  <2>3. \A h \in Handle :
          host'[h] = IF h = fds[to].file THEN ClosedFile ELSE host[h]
    BY <1>0, <1>2, HostCloseOpen DEF Renumber
  <2>4. \A s \in Slot : fds'[s].file \in Handle => host'[fds'[s].file].open
    BY <1>0, <1>a, <2>1, <2>2, <2>3 DEF HandleOwnership
  <2>5. \A a, b \in Slot :
          fds'[a].file \in Handle /\ fds'[a].file = fds'[b].file => a = b
    BY <1>a, <2>1, <2>2 DEF HandleOwnership
  <2>6. \A h \in Handle : host'[h].open => \E s \in Slot : fds'[s].file = h
    <3> SUFFICES ASSUME NEW h \in Handle, host'[h].open
                 PROVE  \E s \in Slot : fds'[s].file = h
      OBVIOUS
    <3>1. host[h].open /\ h # fds[to].file
      BY <1>a, <2>3
    <3>2. PICK s \in Slot : fds[s].file = h
      BY <3>1 DEF HandleOwnership
    <3>3. CASE s = from
      BY <2>1, <2>2, <3>2, <3>3
    <3>4. CASE s # from
      BY <2>2, <3>1, <3>2, <3>4
    <3> QED
      BY <3>3, <3>4
  <2> QED
    BY <2>4, <2>5, <2>6 DEF HandleOwnership
<1>3. CASE OpenDevNull
  <2>1. PICK fd \in Slot : /\ AllocFd(fd)
                           /\ fds' = [fds EXCEPT ![fd] = CharDevEntry("/dev/null")]
                           /\ host' = host
    BY <1>3 DEF OpenDevNull
  <2>2. \A s \in Slot : fds'[s].file = fds[s].file
    BY <1>a, <2>1, AllocFdResult, CharDevOK DEF TypeOK
  <2> QED
    BY <2>1, <2>2 DEF HandleOwnership
<1>4. ASSUME NEW dirfd \in Slot, NEW abs \in BOOLEAN, NEW flags \in OpenFlags,
             NEW reqBase \in BaseArg, NEW reqInh \in InhArg,
             PathOpen(dirfd, abs, flags, reqBase, reqInh)
      PROVE HandleOwnership'
  <2>1. PICK fd \in Slot, h \in Handle, r \in Resolved(fds[dirfd], abs),
             type \in {"dir", "file"}, os \in BOOLEAN, rw \in BOOLEAN :
               Opened(dirfd, flags, reqBase, reqInh, fd, h, r, type, os, rw)
    BY <1>4, PathOpenEffect
  <2>2. fds[fd].file = NoFile
    BY <1>a, <2>1, AllocFdResult DEF Opened
  <2>3. \A s \in Slot : fds'[s].file = IF s = fd THEN h ELSE fds[s].file
    BY <2>1 DEF Opened, OpenedEntry, TypeOK
  <2>4. \A g \in Handle : host'[g].open = (g = h \/ host[g].open)
    BY <2>1 DEF Opened, TypeOK, HostFileType
  <2>5. ~host[h].open
    BY <2>1 DEF Opened
  <2>6. \A s \in Slot : fds[s].file # h
    BY <2>5 DEF HandleOwnership
  <2>7. \A s \in Slot : fds'[s].file \in Handle => host'[fds'[s].file].open
    BY <2>3, <2>4 DEF HandleOwnership
  <2>8. \A a, b \in Slot :
          fds'[a].file \in Handle /\ fds'[a].file = fds'[b].file => a = b
    BY <2>3, <2>6 DEF HandleOwnership
  <2>9. \A g \in Handle : host'[g].open => \E s \in Slot : fds'[s].file = g
    <3> SUFFICES ASSUME NEW g \in Handle, host'[g].open
                 PROVE  \E s \in Slot : fds'[s].file = g
      OBVIOUS
    <3>1. CASE g = h
      BY <2>3, <3>1
    <3>2. CASE g # h
      <4>1. PICK s \in Slot : fds[s].file = g
        BY <2>4, <3>2 DEF HandleOwnership
      <4> QED
        BY <2>2, <2>3, <4>1
    <3> QED
      BY <3>1, <3>2
  <2> QED
    BY <2>7, <2>8, <2>9 DEF HandleOwnership
<1>5. ASSUME NEW fd \in Slot, NEW base \in BaseArg, NEW inh \in InhArg,
             SetRights(fd, base, inh)
      PROVE HandleOwnership'
  <2>1. \A s \in Slot : fds'[s].file = fds[s].file
    BY <1>5, SetRightsEffect
  <2>2. host' = host
    BY <1>5, SetRightsEffect
  <2> QED
    BY <2>1, <2>2 DEF HandleOwnership
<1>6. CASE UNCHANGED vars
  BY <1>6 DEF vars, HandleOwnership
<1> QED
  BY <1>1, <1>2, <1>3, <1>4, <1>5, <1>6 DEF Next

(* No sequence of opens, closes and renumberings leaks a host file, closes *)
(* one twice or leaves a slot with a closed one.                           *)
THEOREM OwnershipHolds == Spec => []HandleOwnership
BY InitTypeOK, NextTypeOK, InitOwnership, NextOwnership, PTL DEF Spec

-----------------------------------------------------------------------------
(* Invalidated slots.                                                      *)

LEMMA NextInvalidated ==
    TypeOK /\ InvalidatedIsEmpty /\ [Next]_vars => InvalidatedIsEmpty'
<1> SUFFICES ASSUME TypeOK, InvalidatedIsEmpty, [Next]_vars PROVE InvalidatedIsEmpty'
  OBVIOUS
<1> USE EmptyOK, NumMountsNat
<1>0. invalidated \subseteq Slot /\ nfds \in Nat
  BY BoundAssumption DEF TypeOK, Slot
<1>1. ASSUME NEW fd \in Slot, Close(fd) PROVE InvalidatedIsEmpty'
  BY <1>0, <1>1 DEF Close, TypeOK, InvalidatedIsEmpty
<1>2. ASSUME NEW from \in Slot, NEW to \in Slot, Renumber(from, to)
      PROVE InvalidatedIsEmpty'
  <2>1. from # to /\ to \notin invalidated
    BY <1>2 DEF Renumber, RenumberErrno
  <2>2. \A s \in Slot : fds'[s] = IF s = from THEN Empty
                                  ELSE IF s = to THEN fds[from] ELSE fds[s]
    BY <1>2, <2>1 DEF Renumber, Moved, TypeOK
  <2>3. invalidated' = invalidated \cup {from}
    BY <1>2 DEF Renumber
  <2> QED
    BY <1>0, <2>1, <2>2, <2>3 DEF InvalidatedIsEmpty
<1>3. CASE OpenDevNull
  <2>1. PICK fd \in Slot : /\ fds' = [fds EXCEPT ![fd] = CharDevEntry("/dev/null")]
                           /\ invalidated' = invalidated
    BY <1>3 DEF OpenDevNull
  <2> QED
    BY <1>0, <2>1, CharDevOK DEF InvalidatedIsEmpty, TypeOK
<1>4. ASSUME NEW dirfd \in Slot, NEW abs \in BOOLEAN, NEW flags \in OpenFlags,
             NEW reqBase \in BaseArg, NEW reqInh \in InhArg,
             PathOpen(dirfd, abs, flags, reqBase, reqInh)
      PROVE InvalidatedIsEmpty'
  <2>1. PICK fd \in Slot, h \in Handle, r \in Resolved(fds[dirfd], abs),
             type \in {"dir", "file"}, os \in BOOLEAN, rw \in BOOLEAN :
               Opened(dirfd, flags, reqBase, reqInh, fd, h, r, type, os, rw)
    BY <1>4, PathOpenEffect
  <2> QED
    BY <1>0, <2>1 DEF Opened, InvalidatedIsEmpty, TypeOK
<1>5. ASSUME NEW fd \in Slot, NEW base \in BaseArg, NEW inh \in InhArg,
             SetRights(fd, base, inh)
      PROVE InvalidatedIsEmpty'
  <2>1. \A s \in Slot : /\ fds'[s].file = fds[s].file
                        /\ fds'[s].type = fds[s].type
                        /\ fds'[s].path = fds[s].path
    BY <1>5, SetRightsEffect
  <2>2. invalidated' = invalidated
    BY <1>5, SetRightsEffect
  <2> QED
    BY <1>0, <2>1, <2>2 DEF InvalidatedIsEmpty, Unused
<1>6. CASE UNCHANGED vars
  BY <1>6 DEF vars, InvalidatedIsEmpty
<1> QED
  BY <1>1, <1>2, <1>3, <1>4, <1>5, <1>6 DEF Next

(* A file that path_open stored in a slot fd_renumber once vacated is not  *)
(* taken for an invalidated one; only /dev/null is.                        *)
THEOREM InvalidatedHolds == Spec => []InvalidatedIsEmpty
<1>1. Init => InvalidatedIsEmpty
  BY DEF Init, InvalidatedIsEmpty
<1> QED
  BY <1>1, InitTypeOK, NextTypeOK, NextInvalidated, PTL DEF Spec

-----------------------------------------------------------------------------
(* Rights descend from the preopens.                                       *)

LEMMA NextRights == TypeOK /\ RightsWithinRoot /\ [Next]_vars => RightsWithinRoot'
<1> SUFFICES ASSUME TypeOK, RightsWithinRoot, [Next]_vars PROVE RightsWithinRoot'
  OBVIOUS
<1>0. Empty.base = {} /\ Empty.inh = {}
  BY DEF Empty
<1>1. ASSUME NEW fd \in Slot, Close(fd) PROVE RightsWithinRoot'
  <2>1. \A s \in Slot : fds'[s] = IF s = fd THEN Empty ELSE fds[s]
    BY <1>1 DEF Close, TypeOK
  <2> QED
    BY <1>0, <2>1 DEF RightsWithinRoot
<1>2. ASSUME NEW from \in Slot, NEW to \in Slot, Renumber(from, to)
      PROVE RightsWithinRoot'
  <2>1. \A s \in Slot : fds'[s] \in {Empty, fds[from], fds[s]}
    BY <1>2 DEF Renumber, Moved, TypeOK
  <2> QED
    BY <1>0, <2>1 DEF RightsWithinRoot
<1>3. CASE OpenDevNull
  <2>1. PICK fd \in Slot : fds' = [fds EXCEPT ![fd] = CharDevEntry("/dev/null")]
    BY <1>3 DEF OpenDevNull
  <2>2. \A s \in Slot : fds'[s] \in {CharDevEntry("/dev/null"), fds[s]}
    BY <2>1 DEF TypeOK
  <2> QED
    BY <2>2, CharDevOK DEF RightsWithinRoot, Authority
<1>4. ASSUME NEW dirfd \in Slot, NEW abs \in BOOLEAN, NEW flags \in OpenFlags,
             NEW reqBase \in BaseArg, NEW reqInh \in InhArg,
             PathOpen(dirfd, abs, flags, reqBase, reqInh)
      PROVE RightsWithinRoot'
  <2>1. PICK fd \in Slot, h \in Handle, r \in Resolved(fds[dirfd], abs),
             type \in {"dir", "file"}, os \in BOOLEAN, rw \in BOOLEAN :
               Opened(dirfd, flags, reqBase, reqInh, fd, h, r, type, os, rw)
    BY <1>4, PathOpenEffect
  <2> DEFINE e == OpenedEntry(h, r.path, fds[dirfd], type, reqBase, reqInh)
             dir == fds[dirfd]
  <2>2. \A s \in Slot : fds'[s] = IF s = fd THEN e ELSE fds[s]
    BY <2>1 DEF Opened, TypeOK
  <2>3. /\ e.base = StoredBase(dir.base, dir.inh, type, reqBase)
        /\ e.inh = StoredInh(dir.inh, reqInh)
        /\ e.root = dir.root
    BY DEF OpenedEntry
  <2>4. e.base \cup e.inh \subseteq dir.base \cup dir.inh
    BY <2>3, StoredBaseBounded, StoredInhBounded
  <2>5. dir.base \cup dir.inh \subseteq Authority(dir.root)
    BY DEF RightsWithinRoot
  <2> QED
    BY <2>2, <2>3, <2>4, <2>5 DEF RightsWithinRoot
<1>5. ASSUME NEW fd \in Slot, NEW base \in BaseArg, NEW inh \in InhArg,
             SetRights(fd, base, inh)
      PROVE RightsWithinRoot'
  <2>1. \A s \in Slot : /\ fds'[s].base \subseteq fds[s].base
                        /\ fds'[s].inh \subseteq fds[s].inh
                        /\ fds'[s].root = fds[s].root
    BY <1>5, SetRightsEffect
  <2> QED
    BY <2>1 DEF RightsWithinRoot
<1>6. CASE UNCHANGED vars
  BY <1>6 DEF vars, RightsWithinRoot
<1> QED
  BY <1>1, <1>2, <1>3, <1>4, <1>5, <1>6 DEF Next

(* Whatever masks a guest asks for, through whatever chain of directories, *)
(* it holds no right that the preopen it started from did not have.        *)
THEOREM RightsHold == Spec => []RightsWithinRoot
<1>1. Init => RightsWithinRoot
  <2> SUFFICES ASSUME Init, NEW fd \in Slot
               PROVE  fds[fd].base \cup fds[fd].inh \subseteq Authority(fds[fd].root)
    BY DEF RightsWithinRoot
  <2>1. CASE fd < 3
    <3>1. fd \in 0..2
      BY <2>1 DEF Slot
    <3>2. StdName[fd] \in {"stdin", "stdout", "stderr"}
      BY <3>1 DEF StdName
    <3> QED
      BY <2>1, <3>2, CharDevOK DEF Init, Authority
  <2>2. CASE fd \in 3..(FirstDynamic - 1)
    <3>1. fd - 2 \in 1..NumMounts /\ ~(fd < 3)
      BY <2>2, NumMountsNat DEF FirstDynamic
    <3>2. GuestPath[fd - 2] \in Mount /\ "none" \notin Mount
      BY <3>1, NumMountsNat, GuestPathAssumption DEF GuestPathAssumption
    <3>3. fds[fd] = PreopenEntry(GuestPath[fd - 2])
      BY <2>2, <3>1 DEF Init
    <3> QED
      BY <3>2, <3>3 DEF PreopenEntry, Authority
  <2>3. CASE ~(fd < 3) /\ fd \notin 3..(FirstDynamic - 1)
    BY <2>3 DEF Init, Empty
  <2> QED
    BY <2>1, <2>2, <2>3
<1> QED
  BY <1>1, InitTypeOK, NextTypeOK, NextRights, PTL DEF Spec

-----------------------------------------------------------------------------
(* The right to write is backed by the host file.                          *)

Backed(e, f) ==
    e.type = "file" /\ "FD_WRITE" \in e.base =>
        /\ f.mount \notin ReadOnly
        /\ f.os /\ ~f.asdir => f.rw

LEMMA NextBacked ==
    TypeOK /\ HandleOwnership /\ WriteRightBacked /\ [Next]_vars => WriteRightBacked'
<1> SUFFICES ASSUME TypeOK, HandleOwnership, WriteRightBacked, [Next]_vars
             PROVE  WriteRightBacked'
  OBVIOUS
<1>0. /\ \A s \in Slot : Backed(fds[s], host[fds[s].file])
      /\ \A s \in Slot : fds[s].type = "file" => fds[s].file \in Handle
  BY HandleAssumption DEF WriteRightBacked, Backed, TypeOK, EntryOK, EntryType
<1>a. Empty.type = "none"
  BY DEF Empty
<1>b. SUFFICES ASSUME NEW s \in Slot
               PROVE  Backed(fds'[s], host'[fds'[s].file])
  BY DEF WriteRightBacked, Backed
<1>1. ASSUME NEW fd \in Slot, Close(fd)
      PROVE Backed(fds'[s], host'[fds'[s].file])
  <2>1. CASE s = fd
    BY <1>a, <1>1, <2>1 DEF Close, TypeOK, Backed
  <2>2. CASE s # fd
    <3>1. fds'[s] = fds[s]
      BY <1>1, <2>2 DEF Close, TypeOK
    <3>2. fds[s].type = "file" => host'[fds[s].file] = host[fds[s].file]
      BY <1>0, <1>1, <2>2 DEF Close, HostClose, HandleOwnership
    <3> QED
      BY <1>0, <3>1, <3>2 DEF Backed
  <2> QED
    BY <2>1, <2>2
<1>2. ASSUME NEW from \in Slot, NEW to \in Slot, Renumber(from, to)
      PROVE Backed(fds'[s], host'[fds'[s].file])
  <2>1. from # to
    BY <1>2 DEF Renumber, RenumberErrno
  <2>2. CASE s = from
    BY <1>a, <1>2, <2>1, <2>2 DEF Renumber, Moved, TypeOK, Backed
  <2>3. ASSUME NEW t \in Slot, t # to, fds'[s] = fds[t]
        PROVE  Backed(fds'[s], host'[fds'[s].file])
    <3>1. fds[t].type = "file" => host'[fds[t].file] = host[fds[t].file]
      BY <1>0, <1>2, <2>3 DEF Renumber, HostClose, HandleOwnership
    <3> QED
      BY <1>0, <2>3, <3>1 DEF Backed
  <2>4. CASE s # from
    <3>1. fds'[s] = IF s = to THEN fds[from] ELSE fds[s]
      BY <1>2, <2>4 DEF Renumber, Moved, TypeOK
    <3> QED
      BY <2>1, <2>3, <3>1
  <2> QED
    BY <2>2, <2>4
<1>3. CASE OpenDevNull
  <2>1. PICK fd \in Slot : /\ fds' = [fds EXCEPT ![fd] = CharDevEntry("/dev/null")]
                           /\ host' = host
    BY <1>3 DEF OpenDevNull
  <2>2. CASE s = fd
    BY <2>1, <2>2, CharDevOK DEF TypeOK, Backed
  <2>3. CASE s # fd
    BY <1>0, <2>1, <2>3 DEF TypeOK
  <2> QED
    BY <2>2, <2>3
<1>4. ASSUME NEW dirfd \in Slot, NEW abs \in BOOLEAN, NEW flags \in OpenFlags,
             NEW reqBase \in BaseArg, NEW reqInh \in InhArg,
             PathOpen(dirfd, abs, flags, reqBase, reqInh)
      PROVE Backed(fds'[s], host'[fds'[s].file])
  <2>1. PICK fd \in Slot, h \in Handle, r \in Resolved(fds[dirfd], abs),
             type \in {"dir", "file"}, os \in BOOLEAN, rw \in BOOLEAN :
               Opened(dirfd, flags, reqBase, reqInh, fd, h, r, type, os, rw)
    BY <1>4, PathOpenEffect
  <2> DEFINE e == OpenedEntry(h, r.path, fds[dirfd], type, reqBase, reqInh)
             f == [open |-> TRUE, mount |-> r.mount, os |-> os,
                   rw |-> rw, asdir |-> "dir" \in flags]
  <2>2. CASE s = fd
    <3>1. fds'[s] = e /\ host'[e.file] = f
      BY <2>1, <2>2 DEF Opened, OpenedEntry, TypeOK
    <3>2. SUFFICES ASSUME type = "file", "FD_WRITE" \in e.base
                   PROVE  /\ r.mount \notin ReadOnly
                          /\ os /\ "dir" \notin flags => rw
      BY <3>1 DEF Backed, OpenedEntry
    <3>3. "FD_WRITE" \in reqBase
      BY <3>2, StoredWriteWasRequested DEF OpenedEntry
    <3>4. r.mount \notin ReadOnly
      BY <2>1, <3>3 DEF Opened, Admitted
    <3>5. os /\ "dir" \notin flags => rw
      BY <2>1, <3>3 DEF Opened, OpensForWrite
    <3> QED
      BY <3>4, <3>5
  <2>3. CASE s # fd
    <3>1. fds'[s] = fds[s]
      BY <2>1, <2>3 DEF Opened, TypeOK
    <3>2. fds[s].type = "file" => host'[fds[s].file] = host[fds[s].file]
      BY <1>0, <2>1 DEF Opened, HandleOwnership, TypeOK
    <3> QED
      BY <1>0, <3>1, <3>2 DEF Backed
  <2> QED
    BY <2>2, <2>3
<1>5. ASSUME NEW fd \in Slot, NEW base \in BaseArg, NEW inh \in InhArg,
             SetRights(fd, base, inh)
      PROVE Backed(fds'[s], host'[fds'[s].file])
  <2>1. /\ fds'[s].base \subseteq fds[s].base
        /\ fds'[s].file = fds[s].file
        /\ fds'[s].type = fds[s].type
        /\ host' = host
    BY <1>5, SetRightsEffect
  <2> QED
    BY <1>0, <2>1 DEF Backed
<1>6. CASE UNCHANGED vars
  BY <1>0, <1>6 DEF vars
<1> QED
  BY <1>1, <1>2, <1>3, <1>4, <1>5, <1>6 DEF Next

(* A descriptor with the right to write never names a file on a read-only  *)
(* mount or a host file that path_open opened for reading alone.           *)
THEOREM BackedHolds == Spec => []WriteRightBacked
<1>1. Init => WriteRightBacked
  <2> SUFFICES ASSUME Init, NEW fd \in Slot PROVE fds[fd].type # "file"
    BY DEF WriteRightBacked
  <2> QED
    BY DEF Init, CharDevEntry, PreopenEntry, Empty
<1> QED
  BY <1>1, InitTypeOK, NextTypeOK, InitOwnership, NextOwnership, NextBacked, PTL
     DEF Spec

-----------------------------------------------------------------------------
(* Rights only shrink.                                                     *)

ShrinkStep ==
    \A a, b \in Slot :
        /\ fds[a].file \in Handle
        /\ fds'[b].file = fds[a].file
        => /\ fds'[b].base \subseteq fds[a].base
           /\ fds'[b].inh \subseteq fds[a].inh

LEMMA NextShrink == TypeOK /\ HandleOwnership /\ [Next]_vars => ShrinkStep
<1> SUFFICES ASSUME TypeOK, HandleOwnership, [Next]_vars,
                    NEW a \in Slot, NEW b \in Slot,
                    fds[a].file \in Handle, fds'[b].file = fds[a].file
             PROVE  /\ fds'[b].base \subseteq fds[a].base
                    /\ fds'[b].inh \subseteq fds[a].inh
  BY DEF ShrinkStep
<1> USE HandleAssumption
<1>0. Empty.file = NoFile
  BY DEF Empty
<1>a. ASSUME NEW t \in Slot, fds'[b] = fds[t]
      PROVE  /\ fds'[b].base \subseteq fds[a].base
             /\ fds'[b].inh \subseteq fds[a].inh
  BY <1>a DEF HandleOwnership
<1>1. ASSUME NEW fd \in Slot, Close(fd)
      PROVE  fds'[b] = Empty \/ fds'[b] = fds[b]
  BY <1>1 DEF Close, TypeOK
<1>2. ASSUME NEW from \in Slot, NEW to \in Slot, Renumber(from, to)
      PROVE  fds'[b] = Empty \/ fds'[b] = fds[from] \/ fds'[b] = fds[b]
  BY <1>2 DEF Renumber, Moved, TypeOK
<1>3. ASSUME OpenDevNull
      PROVE  fds'[b] = CharDevEntry("/dev/null") \/ fds'[b] = fds[b]
  BY <1>3 DEF OpenDevNull, TypeOK
<1>4. ASSUME NEW dirfd \in Slot, NEW abs \in BOOLEAN, NEW flags \in OpenFlags,
             NEW reqBase \in BaseArg, NEW reqInh \in InhArg,
             PathOpen(dirfd, abs, flags, reqBase, reqInh)
      PROVE  fds'[b] = fds[b]
  <2>1. PICK fd \in Slot, h \in Handle, r \in Resolved(fds[dirfd], abs),
             type \in {"dir", "file"}, os \in BOOLEAN, rw \in BOOLEAN :
               Opened(dirfd, flags, reqBase, reqInh, fd, h, r, type, os, rw)
    BY <1>4, PathOpenEffect
  <2>2. fds[a].file # h
    BY <2>1 DEF Opened, HandleOwnership
  <2>3. b = fd => fds'[b].file = h
    BY <2>1 DEF Opened, OpenedEntry, TypeOK
  <2> QED
    BY <2>1, <2>2, <2>3 DEF Opened, TypeOK
<1>5. ASSUME NEW fd \in Slot, NEW base \in BaseArg, NEW inh \in InhArg,
             SetRights(fd, base, inh)
      PROVE  /\ fds'[b].base \subseteq fds[a].base
             /\ fds'[b].inh \subseteq fds[a].inh
  <2>1. fds'[b].file = fds[b].file
    BY <1>5, SetRightsEffect
  <2>2. a = b
    BY <2>1 DEF HandleOwnership
  <2> QED
    BY <1>5, <2>2, SetRightsEffect
<1>6. CASE UNCHANGED vars
  BY <1>6, <1>a DEF vars
<1> QED
  BY <1>0, <1>a, <1>1, <1>2, <1>3, <1>4, <1>5, <1>6, CharDevOK DEF Next

(* Between the open and the close of a host file no call, and no move to   *)
(* another slot, gives its descriptor a right back.                        *)
THEOREM ShrinkHolds == Spec => RightsOnlyShrink
<1>1. TypeOK /\ HandleOwnership /\ [Next]_vars => [ShrinkStep]_vars
  BY NextShrink
<1> QED
  BY <1>1, InitTypeOK, NextTypeOK, InitOwnership, NextOwnership, PTL
     DEF Spec, RightsOnlyShrink, ShrinkStep

-----------------------------------------------------------------------------
(* Reserved slots.                                                         *)

ReservedStep ==
    \A s \in 0..(FirstDynamic - 1) :
        Unused(fds[s]) /\ ~Unused(fds'[s]) =>
            /\ s \notin invalidated
            /\ \E t \in Slot : fds'[s] = fds[t] /\ Unused(fds'[t])

LEMMA NextReserved == TypeOK /\ [Next]_vars => ReservedStep
<1> SUFFICES ASSUME TypeOK, [Next]_vars, NEW s \in 0..(FirstDynamic - 1),
                    Unused(fds[s]), ~Unused(fds'[s])
             PROVE  /\ s \notin invalidated
                    /\ \E t \in Slot : fds'[s] = fds[t] /\ Unused(fds'[t])
  BY DEF ReservedStep
<1> USE EmptyOK
<1>0. s \in Slot /\ s < FirstDynamic
  BY NumMountsNat, BoundAssumption DEF Slot
<1>1. ASSUME NEW fd \in Slot, Close(fd) PROVE FALSE
  BY <1>0, <1>1 DEF Close, TypeOK
<1>2. ASSUME NEW from \in Slot, NEW to \in Slot, Renumber(from, to)
      PROVE  /\ s \notin invalidated
             /\ fds'[s] = fds[from] /\ Unused(fds'[from])
  <2>1. from # to /\ to \notin invalidated
    BY <1>2 DEF Renumber, RenumberErrno
  <2>2. \A t \in Slot : fds'[t] = IF t = from THEN Empty
                                  ELSE IF t = to THEN fds[from] ELSE fds[t]
    BY <1>2, <2>1 DEF Renumber, Moved, TypeOK
  <2>3. s = to
    BY <1>0, <2>2
  <2> QED
    BY <2>1, <2>2, <2>3
<1>3. ASSUME OpenDevNull PROVE FALSE
  <2>1. PICK fd \in Slot : /\ AllocFd(fd)
                           /\ fds' = [fds EXCEPT ![fd] = CharDevEntry("/dev/null")]
    BY <1>3 DEF OpenDevNull
  <2>2. fd # s
    BY <1>0, <2>1, NumMountsNat DEF AllocFd
  <2> QED
    BY <1>0, <2>1, <2>2 DEF TypeOK
<1>4. ASSUME NEW dirfd \in Slot, NEW abs \in BOOLEAN, NEW flags \in OpenFlags,
             NEW reqBase \in BaseArg, NEW reqInh \in InhArg,
             PathOpen(dirfd, abs, flags, reqBase, reqInh)
      PROVE  FALSE
  <2>1. PICK fd \in Slot, h \in Handle, r \in Resolved(fds[dirfd], abs),
             type \in {"dir", "file"}, os \in BOOLEAN, rw \in BOOLEAN :
               Opened(dirfd, flags, reqBase, reqInh, fd, h, r, type, os, rw)
    BY <1>4, PathOpenEffect
  <2>2. fd # s
    BY <1>0, <2>1, NumMountsNat DEF AllocFd, Opened
  <2> QED
    BY <1>0, <2>1, <2>2 DEF Opened, TypeOK
<1>5. ASSUME NEW fd \in Slot, NEW base \in BaseArg, NEW inh \in InhArg,
             SetRights(fd, base, inh)
      PROVE  FALSE
  BY <1>0, <1>5, SetRightsEffect DEF Unused
<1>6. CASE UNCHANGED vars
  BY <1>6 DEF vars
<1> QED
  BY <1>1, <1>2, <1>3, <1>4, <1>5, <1>6 DEF Next

(* path_open never takes a stdio or preopen slot, however many of them the *)
(* guest has closed, and a renumbering never refills one renumbered away.  *)
THEOREM ReservedHolds == Spec => ReservedSlotsNotReused
<1>1. TypeOK /\ [Next]_vars => [ReservedStep]_vars
  BY NextReserved
<1> QED
  BY <1>1, InitTypeOK, NextTypeOK, PTL DEF Spec, ReservedSlotsNotReused, ReservedStep
=============================================================================
