----------------------------- MODULE MCFdTable -----------------------------
(* Instances of FdTable.                                                   *)
EXTENDS FdTable, TLC

(* One preopened host directory below the guest root.                      *)
OneGuestPath == <<"/data">>
OneBeneath   == [m \in {"/data"} |-> {"/data"}]
OpensPlain   == { {"creat"}, {"creat", "trunc"} }
ReadOnce     == { {"FD_READ"} }

(* The guest root (a host directory) and a read-only mount nested in it,   *)
(* so that a stored path may lie in another mount than the one it was      *)
(* opened in.                                                              *)
TwoGuestPaths == <<"/", "/data">>
TwoReadOnly   == {"/data"}
TwoRootMount  == {"/"}
TwoBeneath    == [m \in {"/", "/data"} |-> IF m = "/" THEN {"/", "/data"} ELSE {"/data"}]

(* Opens as a directory and otherwise, and masks that reach the branches   *)
(* of StoredBase: both directions, reading with a right of its own, and    *)
(* for the inheriting mask nothing at all, which asks for everything.      *)
OpensRights == { {}, {"dir"} }
BaseRights  == { {"FD_READ", "FD_WRITE"}, {"FD_READ", "FD_FILESTAT_GET"} }
InhRights   == { {}, {"FD_READ", "FD_WRITE"} }

(* The table in two parts.  Rights: the stdio slots and the preopens keep  *)
(* their descriptors as they are, so that rights are dropped and slots     *)
(* renumbered among the files path_open opened.                            *)
OnlyFilesVary ==
    /\ \A fd \in 0..2 : fds[fd] = CharDevEntry(StdName[fd])
    /\ \A i \in 1..NumMounts : fds[2 + i] = PreopenEntry(GuestPath[i])
    /\ \A fd \in Slot : fds[fd].path # "/dev/null"

(* Slots: a stdio slot, a preopen's and the dynamic ones hold in any order *)
(* what was in the table at first, /dev/null and files of one kind.        *)
PlainFile(h) ==
    OpenedEntry(h, "/", PreopenEntry("/"), "file", {"FD_READ", "FD_WRITE"}, {})

PlainEntry ==
    {Empty, CharDevEntry(StdName[0]), CharDevEntry("/dev/null"), PreopenEntry("/")}
        \cup { PlainFile(h) : h \in Handle }

OnlySlotsVary ==
    /\ \A fd \in 1..2 : fds[fd] = CharDevEntry(StdName[fd])
    /\ fds[4] = PreopenEntry("/data")
    /\ \A fd \in Slot \ {1, 2, 4} : fds[fd] \in PlainEntry
    /\ \A h \in Handle :
          host[h].open => host[h].os /\ host[h].mount = "/" /\ ~host[h].asdir

OnePartVaries == OnlyFilesVary \/ OnlySlotsVary

Symmetry == Permutations(Handle)
=============================================================================
