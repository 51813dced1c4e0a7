------------------------------ MODULE FdTable ------------------------------
(***************************************************************************)
(* The file-descriptor table of wasihost.State: fds, preopens and          *)
(* invalidated, and the host files the slots own.  One action for each     *)
(* call that changes the table: fd_close, fd_renumber, path_open (of       *)
(* /dev/null and of a path) and fd_fdstat_set_rights.  A call that returns *)
(* an error leaves the table alone and is a stuttering step.               *)
(*                                                                         *)
(* A path is abstracted to the mount whose guest tree it lies in, a rights *)
(* mask to the set of its rights (module Rights), an open host file to a   *)
(* member of Handle that is free again once the file is closed.            *)
(***************************************************************************)
EXTENDS Rights, Integers, Sequences

CONSTANTS
    Handle,        \* identities of open host files, reused once closed
    NoFile,        \* fdEntry.file = nil
    GuestPath,     \* the guest paths of the mounts, in option order
    ReadOnly,      \* those mounted by WithReadOnlyFS
    RootMount,     \* those that cover the guest root (isRootMount)
    Beneath,       \* Beneath[m]: the mounts a path at or below m lies in
    SpareSlots,    \* capacity New leaves above the preopens (5 in the code)
    MaxFds,        \* bound: slots the table may grow to
    OpenFlags,     \* the oflags combinations path_open is called with
    BaseArg,       \* the masks a guest passes for fs_rights_base
    InhArg         \* and for fs_rights_inheriting

NumMounts    == Len(GuestPath)
Mount        == { GuestPath[i] : i \in 1..NumMounts }
Slot         == 0..(MaxFds - 1)
FirstDynamic == 3 + NumMounts
StdName      == [fd \in 0..2 |-> CASE fd = 0 -> "stdin"
                                   [] fd = 1 -> "stdout"
                                   [] fd = 2 -> "stderr"]

ASSUME GuestPathAssumption ==
    /\ GuestPath \in Seq(STRING)
    /\ \A i, j \in 1..NumMounts : GuestPath[i] = GuestPath[j] => i = j
    /\ Mount \cap { "none", "", "/dev/null", "stdin", "stdout", "stderr" } = {}

ASSUME MountAssumption ==
    /\ ReadOnly \subseteq Mount
    /\ RootMount \subseteq Mount
    /\ Beneath \in [Mount -> SUBSET Mount]

ASSUME HandleAssumption == NoFile \notin Handle

ASSUME BoundAssumption ==
    /\ SpareSlots \in Nat
    /\ MaxFds \in Nat
    /\ FirstDynamic < MaxFds

ASSUME ArgumentAssumption ==
    /\ OpenFlags \subseteq SUBSET { "creat", "dir", "excl", "trunc" }
    /\ BaseArg \subseteq SUBSET Right
    /\ InhArg \subseteq SUBSET Right

VARIABLES
    fds,           \* fds[fd]: the slot fd, Empty from nfds on
    nfds,          \* len(s.fds)
    invalidated,   \* the slots fd_renumber moved an entry away from
    shared,        \* s.preopens is still a window on the array of s.fds
    preopens,      \* what s.preopens holds once it is not
    host           \* the host files

vars == <<fds, nfds, invalidated, shared, preopens, host>>

-----------------------------------------------------------------------------
(* Entries.  root is no field of the code: it names the preopen that the   *)
(* rights of an entry descend from, so that properties can speak of it.    *)

Empty == [file |-> NoFile, type |-> "none", path |-> "", preopen |-> FALSE,
          base |-> {}, inh |-> {}, root |-> "none"]

CharDevEntry(name) ==
    [Empty EXCEPT !.type = "chardev", !.path = name, !.base = CharDev]

PreopenBase(m) ==
    IF m \in ReadOnly THEN ReadOnlyDirPreopen ELSE WritableDirPreopenBase

PreopenInh(m) ==
    IF m \in ReadOnly THEN ReadOnlyDirPreopen ELSE WritableDirPreopenInheriting

PreopenEntry(m) ==
    [file |-> NoFile, type |-> "dir", path |-> m, preopen |-> TRUE,
     base |-> PreopenBase(m), inh |-> PreopenInh(m), root |-> m]

Unused(e) == e.file = NoFile /\ e.type = "none"

(* isNonPreopenDirfd: a directory that path_open opened.                   *)
NonPreopenDir(e) == e.type = "dir" /\ ~e.preopen

-----------------------------------------------------------------------------
(* Host files: where one lies, whether it is an *os.File, whether that was *)
(* opened O_RDWR, and whether the guest asked for O_DIRECTORY.             *)

ClosedFile == [open |-> FALSE, mount |-> "none", os |-> FALSE, rw |-> FALSE,
               asdir |-> FALSE]

(* As "HostClose", with the call of file.Close forgotten.                  *)
HostCloseForgotten(file) == host

HostClose(file) ==
    [h \in Handle |-> IF h = file THEN ClosedFile ELSE host[h]]

Init ==
    /\ fds = [fd \in Slot |->
                CASE fd < 3            -> CharDevEntry(StdName[fd])
                  [] fd \in 3..(FirstDynamic - 1) -> PreopenEntry(GuestPath[fd - 2])
                  [] OTHER             -> Empty]
    /\ nfds = FirstDynamic
    /\ invalidated = {}
    /\ shared = TRUE
    /\ preopens = [i \in 1..NumMounts |-> PreopenEntry(GuestPath[i])]
    /\ host = [h \in Handle |-> ClosedFile]

-----------------------------------------------------------------------------
(* allocFD.  append moves s.fds to a new array when the table is full;     *)
(* s.preopens then keeps the old array, as it was at that moment.          *)

Grow ==
    /\ nfds < MaxFds
    /\ nfds' = nfds + 1
    /\ IF shared /\ nfds = FirstDynamic + SpareSlots
       THEN /\ shared' = FALSE
            /\ preopens' = [i \in 1..NumMounts |-> fds[2 + i]]
       ELSE UNCHANGED <<shared, preopens>>

(* As "AllocFd", scanning from the first slot above stdio.                 *)
AllocFdFromPreopens(fd) ==
    /\ \A s \in 3..(fd - 1) : ~Unused(fds[s])
    /\ \/ /\ fd < nfds
          /\ Unused(fds[fd])
          /\ UNCHANGED <<nfds, shared, preopens>>
       \/ /\ fd = nfds
          /\ Grow

(* fd is the lowest unused slot above the preopens, else a new one.        *)
AllocFd(fd) ==
    /\ fd >= FirstDynamic
    /\ \A s \in FirstDynamic..(fd - 1) : ~Unused(fds[s])
    /\ \/ /\ fd < nfds
          /\ Unused(fds[fd])
          /\ UNCHANGED <<nfds, shared, preopens>>
       \/ /\ fd = nfds
          /\ Grow

(* fd_close.                                                               *)
CloseErrno(fd) ==
    IF fd >= nfds \/ Unused(fds[fd]) \/ fd \in invalidated
    THEN "EBADF" ELSE "ESUCCESS"

Close(fd) ==
    /\ CloseErrno(fd) = "ESUCCESS"
    /\ fds' = [fds EXCEPT ![fd] = Empty]
    /\ invalidated' = invalidated \ {fd}
    /\ host' = HostClose(fds[fd].file)
    /\ UNCHANGED <<nfds, shared, preopens>>

(* fd_renumber: from moves onto to, whose file is closed; from stays       *)
(* marked until the slot is reused by storeOpenedFD.                       *)

(* As "RenumberErrno", with the range of fd_to not looked at.              *)
RenumberErrnoUnbounded(from, to) ==
    IF \/ from >= nfds
       \/ Unused(fds[from])
       \/ from = to
       \/ to \in invalidated
    THEN "EBADF" ELSE "ESUCCESS"

RenumberErrno(from, to) ==
    IF \/ from >= nfds \/ to >= nfds
       \/ Unused(fds[from])
       \/ from = to
       \/ to \in invalidated
    THEN "EBADF" ELSE "ESUCCESS"

Moved(from, to) == [fds EXCEPT ![to] = fds[from], ![from] = Empty]

Renumber(from, to) ==
    /\ RenumberErrno(from, to) = "ESUCCESS"
    /\ fds' = Moved(from, to)
    /\ invalidated' = invalidated \cup {from}
    /\ host' = HostClose(fds[to].file)
    /\ UNCHANGED <<nfds, shared, preopens>>

-----------------------------------------------------------------------------
(* path_open.                                                              *)

(* openDevNull stores the entry itself, past storeOpenedFD.                *)
OpenDevNull ==
    \E fd \in Slot :
        /\ AllocFd(fd)
        /\ fds' = [fds EXCEPT ![fd] = CharDevEntry("/dev/null")]
        /\ UNCHANGED <<invalidated, host>>

(* resolveDirfdPath with the escape checks behind it: the mount opened in  *)
(* and the mount the guest path stored in the entry lies in.  They differ  *)
(* for a path below a preopen that leads into a mount nested there: a      *)
(* preopen resolves on its own mount, the stored path by longest prefix.   *)
Resolved(dir, abs) ==
    CASE abs /\ NonPreopenDir(dir)  -> {}
      [] abs /\ ~NonPreopenDir(dir) -> { [mount |-> m, path |-> m] : m \in Mount }
      [] ~abs /\ dir.preopen ->
            { [mount |-> dir.path, path |-> p] : p \in Beneath[dir.path] }
      [] ~abs /\ NonPreopenDir(dir) ->
            { [mount |-> p, path |-> p] : p \in Beneath[dir.path] }
      [] OTHER -> {}

(* As "Admitted", without the check on read-only mounts.                   *)
AdmittedAnywhere(mount, dir, flags, reqBase) ==
    "trunc" \in flags => "PATH_FILESTAT_SET_SIZE" \in dir.base

Admitted(mount, dir, flags, reqBase) ==
    /\ "trunc" \in flags => "PATH_FILESTAT_SET_SIZE" \in dir.base
    /\ mount \in ReadOnly => /\ flags \cap {"creat", "trunc"} = {}
                             /\ "FD_WRITE" \notin reqBase

(* As "OpensForWrite", with the rights not looked at.                      *)
OpensForWriteByFlags(flags, reqBase) ==
    /\ "dir" \notin flags
    /\ flags \cap {"creat", "trunc", "excl"} # {}

(* osFlags: O_RDWR, unless O_DIRECTORY overrides it.                       *)
OpensForWrite(flags, reqBase) ==
    /\ "dir" \notin flags
    /\ \/ "FD_WRITE" \in reqBase
       \/ flags \cap {"creat", "trunc", "excl"} # {}

(* What the host may answer an open in mount with: a directory is never    *)
(* opened O_RDWR; O_DIRECTORY is checked on the primary host path alone,   *)
(* so the fallback of a root mount may still be a regular file; the        *)
(* overlay answers a plain open the host has no file for, and every open   *)
(* of a read-only mount, where O_DIRECTORY is not looked at.               *)
HostAnswers(mount, flags, reqBase) ==
    LET rw == OpensForWrite(flags, reqBase)
        asdir == "dir" \in flags
        onHost == { type \in {"dir", "file"} :
                      /\ rw => type = "file"
                      /\ asdir => type = "dir" \/ mount \in RootMount }
        overlay == IF mount \in ReadOnly \/ flags \cap {"creat", "trunc", "excl"} = {}
                   THEN {"dir", "file"} ELSE {}
    IN  { [type |-> t, os |-> FALSE, rw |-> FALSE] : t \in overlay }
          \cup IF mount \in ReadOnly THEN {}
               ELSE { [type |-> t, os |-> TRUE, rw |-> rw] : t \in onHost }

OpenedEntry(h, path, dir, type, reqBase, reqInh) ==
    [file |-> h, type |-> type, path |-> path, preopen |-> FALSE,
     base |-> StoredBase(dir.base, dir.inh, type, reqBase),
     inh  |-> StoredInh(dir.inh, reqInh),
     root |-> dir.root]

(* As "Revalidated", with the reset in storeOpenedFD forgotten.            *)
RevalidatedNever(fd) == invalidated

Revalidated(fd) == invalidated \ {fd}

PathOpen(dirfd, abs, flags, reqBase, reqInh) ==
    \E r \in Resolved(fds[dirfd], abs), h \in Handle, fd \in Slot :
        /\ Admitted(r.mount, fds[dirfd], flags, reqBase)
        /\ ~host[h].open
        /\ AllocFd(fd)
        /\ \E a \in HostAnswers(r.mount, flags, reqBase) :
             /\ fds' = [fds EXCEPT ![fd] =
                          OpenedEntry(h, r.path, fds[dirfd], a.type, reqBase, reqInh)]
             /\ host' = [host EXCEPT ![h] =
                          [open |-> TRUE, mount |-> r.mount, os |-> a.os,
                           rw |-> a.rw, asdir |-> "dir" \in flags]]
        /\ invalidated' = Revalidated(fd)

(* fd_fdstat_set_rights.                                                   *)
(* As "SetRightsErrno", without the test that nothing is added.            *)
SetRightsErrnoUnchecked(fd, base, inh) ==
    IF fd >= nfds \/ Unused(fds[fd]) THEN "EBADF" ELSE "ESUCCESS"

SetRightsErrno(fd, base, inh) ==
    CASE fd >= nfds \/ Unused(fds[fd]) -> "EBADF"
      [] OTHER -> IF base \subseteq fds[fd].base /\ inh \subseteq fds[fd].inh
                  THEN "ESUCCESS" ELSE "ENOTCAPABLE"

SetRights(fd, base, inh) ==
    /\ SetRightsErrno(fd, base, inh) = "ESUCCESS"
    /\ fds' = [fds EXCEPT ![fd].base = base, ![fd].inh = inh]
    /\ UNCHANGED <<nfds, invalidated, shared, preopens, host>>

-----------------------------------------------------------------------------
Next ==
    \/ \E fd \in Slot : Close(fd)
    \/ \E from, to \in Slot : Renumber(from, to)
    \/ OpenDevNull
    \/ \E dirfd \in Slot, abs \in BOOLEAN, flags \in OpenFlags,
          reqBase \in BaseArg, reqInh \in InhArg :
            PathOpen(dirfd, abs, flags, reqBase, reqInh)
    \/ \E fd \in Slot, base \in BaseArg, inh \in InhArg :
            SetRights(fd, base, inh)

Spec == Init /\ [][Next]_vars

-----------------------------------------------------------------------------
(* What the calls that only read the table see.                            *)

(* preopenEntryByFD: the window while shared, the old copy afterwards.     *)
PreopenSeen(i) == IF shared THEN fds[2 + i] ELSE preopens[i]

(* fd_prestat_get and fd_prestat_dir_name succeed for slot 2 + i.          *)
PrestatFound(i) == ~Unused(PreopenSeen(i))

-----------------------------------------------------------------------------
(* Type invariant: the table, the window and the host files have the       *)
(* shapes Go gives them, and no slot is used beyond len(s.fds).            *)
EntryType ==
    [file : Handle \cup {NoFile}, type : {"none", "chardev", "dir", "file"},
     path : Mount \cup {"", "/dev/null", "stdin", "stdout", "stderr"},
     preopen : BOOLEAN, base : SUBSET Right, inh : SUBSET Right,
     root : Mount \cup {"none"}]

HostFileType ==
    [open : BOOLEAN, mount : Mount \cup {"none"}, os : BOOLEAN, rw : BOOLEAN,
     asdir : BOOLEAN]

(* The shape of an entry: preopens and opened directories lie in a mount,  *)
(* only opened files and directories own a host file.                      *)
EntryOK(e) ==
    /\ e \in EntryType
    /\ e.preopen => e.type = "dir"
    /\ e.type = "dir" => e.path \in Mount
    /\ e.type = "file" \/ NonPreopenDir(e) <=> e.file # NoFile
    /\ e.type = "none" => e = Empty

TypeOK ==
    /\ nfds \in FirstDynamic..MaxFds
    /\ DOMAIN fds = Slot
    /\ fds = [fd \in Slot |-> fds[fd]]
    /\ \A fd \in Slot : EntryOK(fds[fd])
    /\ \A fd \in Slot : fd >= nfds => fds[fd] = Empty
    /\ invalidated \in SUBSET (0..(nfds - 1))
    /\ shared \in BOOLEAN
    /\ preopens \in [1..NumMounts -> EntryType]
    /\ host \in [Handle -> HostFileType]

(* Every open host file is owned by exactly one slot and every slot's file *)
(* is open: no close, renumber or reuse of a slot leaks a host file,       *)
(* closes it twice or leaves a slot with a closed one.                     *)
HandleOwnership ==
    /\ \A fd \in Slot : fds[fd].file \in Handle => host[fds[fd].file].open
    /\ \A a, b \in Slot :
          fds[a].file \in Handle /\ fds[a].file = fds[b].file => a = b
    /\ \A h \in Handle : host[h].open => \E fd \in Slot : fds[fd].file = h

(* A slot that fd_renumber invalidated holds nothing, unless /dev/null was *)
(* opened in it: a file that path_open stored in a reused slot can always  *)
(* be closed and renumbered onto.                                          *)
InvalidatedIsEmpty ==
    \A fd \in invalidated : Unused(fds[fd]) \/ fds[fd].path = "/dev/null"

(* The rights a preopen can hand to what is opened through it.  An entry   *)
(* opened by an absolute path through a descriptor that is no directory    *)
(* descends from no preopen.                                               *)
Authority(root) ==
    IF root = "none" THEN CharDev ELSE PreopenBase(root) \cup PreopenInh(root)

(* Along any chain of path_open, fd_fdstat_set_rights and fd_renumber no   *)
(* descriptor holds or passes on a right that its preopen did not have,    *)
(* though a read-write request is widened to the regular-file bundle.      *)
RightsWithinRoot ==
    \A fd \in Slot : fds[fd].base \cup fds[fd].inh \subseteq Authority(fds[fd].root)

(* A regular file with FD_WRITE lies on a mount that is not read-only, and *)
(* its host file was opened for writing unless O_DIRECTORY asked for a     *)
(* directory: the right never promises a write the mount must refuse.      *)
WriteRightBacked ==
    \A fd \in Slot :
        LET e == fds[fd] IN
        e.type = "file" /\ "FD_WRITE" \in e.base =>
            /\ host[e.file].mount \notin ReadOnly
            /\ host[e.file].os /\ ~host[e.file].asdir => host[e.file].rw

(* While a host file stays open the rights of its descriptor only shrink,  *)
(* whatever slots fd_renumber moves it through.                            *)
RightsOnlyShrink ==
    [][\A a, b \in Slot :
          /\ fds[a].file \in Handle
          /\ fds'[b].file = fds[a].file
          => /\ fds'[b].base \subseteq fds[a].base
             /\ fds'[b].inh \subseteq fds[a].inh]_vars

(* A stdio or preopen slot that is vacated is filled only by a renumbering *)
(* of another slot, never by path_open, and not at all once it has itself  *)
(* been renumbered away.                                                   *)
ReservedSlotsNotReused ==
    [][\A s \in 0..(FirstDynamic - 1) :
          Unused(fds[s]) /\ ~Unused(fds'[s]) =>
              /\ s \notin invalidated
              /\ \E t \in Slot : fds'[s] = fds[t] /\ Unused(fds'[t])]_vars

-----------------------------------------------------------------------------
(* A statement of the code's comments that the code does not keep.         *)

(* fd_prestat_get and fd_prestat_dir_name find preopens in use, nothing    *)
(* else: neither a file renumbered onto their slot nor a closed preopen.   *)
PrestatOnlyPreopensInUse ==
    \A i \in 1..NumMounts : PrestatFound(i) => fds[2 + i].preopen
=============================================================================
