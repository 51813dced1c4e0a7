------------------------------ MODULE HostTree ------------------------------
(***************************************************************************)
(* The calls that change the host's tree: path_create_directory,           *)
(* path_remove_directory, path_unlink_file, path_symlink, path_link,       *)
(* path_rename, and path_open as far as it creates files and opens         *)
(* directories, by whose descriptors other paths are resolved.  One guest  *)
(* makes one call at a time; what a call looks at together is a step, and  *)
(* so is each change; other processes change the tree in between.          *)
(*                                                                         *)
(* A file is a regular one or a symlink that leads nowhere; other symlinks *)
(* and overlay files are left out, as are calls whose paths are refused.   *)
(* External: the kernel's mkdir, unlink, rmdir, link, symlink and rename,  *)
(* and Go's os.Remove and os.Rename over them.                             *)
(***************************************************************************)
EXTENDS PathResolve, FiniteSets, TLC

CONSTANTS
    File, Dir,     \* identities of files and directories; their number is a bound
    Fixed,         \* the identity of the directories that are there from the start
    Initial,       \* and their host paths
    Arg,           \* the path arguments of the guest
    Slot,          \* descriptors of the directories it opens
    MaxDepth,      \* bound: how deep the host's tree is
    MaxNames,      \* bound: how many names it has room for
    MaxHostChanges \* bound: changes by other processes

ASSUME HostTreeAssumption ==
    /\ File \cap Dir = {} /\ Fixed \in Dir
    /\ IsFiniteSet(Initial) /\ Initial \subseteq Seq(STRING)
    /\ \A p \in Initial : Len(p) <= MaxDepth /\ (p # <<>> => Front(p) \in Initial)
    /\ Arg \subseteq [abs : BOOLEAN, segs : Seq(STRING)]
    /\ MaxDepth \in Nat /\ MaxNames \in Nat /\ MaxHostChanges \in Nat
    /\ \A m \in Mount : Mounts[m].writable => Mounts[m].host \in Initial

VARIABLES
    tree,          \* what each existing host path names
    open,          \* open[d]: the guest and host path of a directory when opened
    call,          \* the call under way; "inside" says of it, and of a directory
                   \* opened, that its paths are ones that the code confines
    hostChanges

vars == <<tree, open, call, hostChanges>>

Unopened == [path |-> <<"closed">>, name |-> <<>>, inside |-> TRUE]

Call(op, label, old, new, slash, before, inside) ==
    [op |-> op, at |-> label, old |-> old, new |-> new, slash |-> slash,
     ok |-> FALSE, before |-> before, alone |-> TRUE, inside |-> inside]

Idle == Call("none", "idle", <<>>, <<>>, FALSE, <<>>, TRUE)

Init ==
    /\ tree = [p \in Initial |-> Fixed]
    /\ open = [d \in Slot |-> Unopened]
    /\ call = Idle
    /\ hostChanges = 0

-----------------------------------------------------------------------------
(* The kernel, on the tree t.                                              *)
Exists(t, p) == p \in DOMAIN t
IsDir(t, p)  == p \in DOMAIN t /\ t[p] \in Dir
IsFile(t, p) == p \in DOMAIN t /\ t[p] \in File
Below(t, p)  == { q \in DOMAIN t : IsPrefix(p, q) }
IsEmpty(t, p) == Below(t, p) = {p}

HasRoom(t, p) ==
    /\ p # <<>> /\ ~Exists(t, p) /\ IsDir(t, Front(p))
    /\ Len(p) <= MaxDepth /\ Cardinality(DOMAIN t) < MaxNames

Adding(t, p, n) == [q \in DOMAIN t \cup {p} |-> IF q = p THEN n ELSE t[q]]

Removing(t, p) == Restrict(t, DOMAIN t \ {p})

Moving(t, old, new) ==
    LET gone == Below(t, old) \cup {new}
        come == { new \o Behind(old, q) : q \in Below(t, old) }
    IN  [ p \in (DOMAIN t \ gone) \cup come |->
             IF p \in come THEN t[old \o Behind(new, p)] ELSE t[p] ]

Used == Range(tree) \cup Range(call.before)

(* os.Remove: of a file or an empty directory.                             *)
CanRemove(p) == p # <<>> /\ Exists(tree, p) /\ IsEmpty(tree, p)

(* os.Rename refuses a target that is a directory, the source itself       *)
(* included, with EEXIST, and leaves two names of one file as they are.    *)
RenameExists(old, new) == Exists(tree, old) /\ IsDir(tree, new)

FitsDepth(old, new) ==
    \A q \in Below(tree, old) : Len(new) + Len(q) - Len(old) <= MaxDepth

CanRename(old, new) ==
    /\ Exists(tree, old) /\ new # <<>>
    /\ IsDir(tree, Front(new)) /\ ~IsDir(tree, new)
    /\ IsFile(tree, new) => IsFile(tree, old)
    /\ IsDir(tree, old) => ~IsPrefix(old, new)
    /\ FitsDepth(old, new)

Renamed(old, new) ==
    IF Exists(tree, new) /\ tree[new] = tree[old] THEN tree ELSE Moving(tree, old, new)

-----------------------------------------------------------------------------
(* The course of a call.                                                   *)
Goes(label) == call' = [call EXCEPT !.at = label] /\ UNCHANGED tree

Fails == call' = [call EXCEPT !.at = "done"] /\ UNCHANGED tree

Makes(t) == call' = [call EXCEPT !.at = "done", !.ok = TRUE] /\ tree' = t

Rest == UNCHANGED <<open, hostChanges>>

NestedDirectories == { Nested(open[d].path) : d \in { s \in Slot : open[s] # Unopened } }

Directories == { Preopen(m) : m \in Mount } \cup NestedDirectories \cup {NoDirectory}

(* The paths that the code does not confine: absolute ones with ".." that  *)
(* are not resolved on a directory, and those of a root mount that are     *)
(* taken for paths of the host, unless its hostRoot is the host's root.    *)
Inside(dir, at) == dir = NoDirectory => ~Strays(at)

HostRooted(at) == IsRootMount(at.mount) => Mounts[at.mount].host = <<>>

Begin(op, label, old, new, slash, inside) ==
    /\ call' = Call(op, label, old, new, slash, tree, inside)
    /\ UNCHANGED <<tree, open, hostChanges>>

(* What the paths the guest can pass lead to.                              *)
Target(dir, arg) ==
    LET at == ResolveDirfdPath(dir, arg)
    IN  [name |-> HostPath(dir, arg), slash |-> TrailingSlash(arg),
         inside |-> Inside(dir, at) /\ (arg.abs => HostRooted(at))]

TargetsFrom(dir) == { Target(dir, arg) : arg \in { a \in Arg : Writable(dir, a) } }

FromPreopens == UNION { TargetsFrom(Preopen(m)) : m \in Mount }

Targets == UNION { TargetsFrom(dir) : dir \in Directories }

BeginOne(op) ==
    /\ call.at = "idle"
    /\ \E x \in Targets :
          Begin(op, op, x.name, <<>>, op \in {"unlink_file", "symlink"} /\ x.slash, x.inside)

BeginCreate == BeginOne("create_directory")
BeginRemove == BeginOne("remove_directory")
BeginUnlink == BeginOne("unlink_file")
BeginSymlink == BeginOne("symlink")

BeginTwo(op, label) ==
    /\ call.at = "idle"
    /\ LET targets == Targets IN
       \E x, y \in targets :
          Begin(op, label, x.name, y.name, op = "link" /\ y.slash, x.inside /\ y.inside)

BeginLink   == BeginTwo("link", "validate_link")
BeginRename == BeginTwo("rename", "validate_rename")

CreateDirectory ==
    /\ call.at = "create_directory"
    /\ IF HasRoom(tree, call.old)
       THEN \E n \in Dir \ Used : Makes(Adding(tree, call.old, n))
       ELSE Fails
    /\ Rest

(* As "MayRemove", with what is not a directory let through.               *)
MayRemoveAnything == Exists(tree, call.old)

(* The Lstat of path_remove_directory.                                     *)
MayRemove == IsDir(tree, call.old)

RemoveDirectory ==
    /\ call.at = "remove_directory"
    /\ IF MayRemove THEN Goes("remove") ELSE Fails
    /\ Rest

UnlinkFile ==
    /\ call.at = "unlink_file"
    /\ IF IsFile(tree, call.old) /\ ~call.slash THEN Goes("remove") ELSE Fails
    /\ Rest

OsRemove ==
    /\ call.at = "remove"
    /\ IF CanRemove(call.old) THEN Makes(Removing(tree, call.old)) ELSE Fails
    /\ Rest

Symlink ==
    /\ call.at = "symlink"
    /\ IF ~call.slash /\ HasRoom(tree, call.old)
       THEN \E n \in File \ Used : Makes(Adding(tree, call.old, n))
       ELSE Fails
    /\ Rest

(* validateLinkParams, the Lstat of the old path, and the checks of       *)
(* createHardLinkToFile and createHardLinkToSymlink.                       *)
ValidateLink ==
    /\ call.at = "validate_link"
    /\ IF /\ ~call.slash
          /\ call.old # call.new
          /\ IsFile(tree, call.old)
          /\ ~Exists(tree, call.new)
       THEN Goes("link") ELSE Fails
    /\ Rest

Link ==
    /\ call.at = "link"
    /\ IF IsFile(tree, call.old) /\ HasRoom(tree, call.new)
       THEN Makes(Adding(tree, call.new, tree[call.old])) ELSE Fails
    /\ Rest

(* validateRename                                                          *)
ValidateRename ==
    /\ call.at = "validate_rename"
    /\ IF /\ Exists(tree, call.old)
          /\ IsDir(tree, call.new)
          /\ IsFile(tree, call.old) \/ ~IsEmpty(tree, call.new)
       THEN Fails ELSE Goes("rename")
    /\ Rest

(* renamePath: os.Rename, and once more when an empty directory was in the *)
(* way of an empty one and is removed.                                     *)
RenamePath ==
    /\ call.at \in {"rename", "rename_again"}
    /\ CASE CanRename(call.old, call.new) -> Makes(Renamed(call.old, call.new))
         [] RenameExists(call.old, call.new) /\ call.at = "rename" -> Goes("is_empty")
         [] OTHER -> Fails
    /\ Rest

(* isEmptyDirectory, of both.                                              *)
BothEmpty ==
    \A p \in {call.old, call.new} : IsDir(tree, p) /\ IsEmpty(tree, p)

AreEmpty ==
    /\ call.at = "is_empty"
    /\ IF BothEmpty THEN Goes("make_way") ELSE Fails
    /\ Rest

(* As "InTheWay", with the arguments of renamePath confused.               *)
OldInTheWay == call.old

InTheWay == call.new

(* As "MakeWay", reporting success before the second rename.               *)
MakeWayIsEnough ==
    /\ call.at = "make_way"
    /\ IF CanRemove(InTheWay)
       THEN /\ tree' = Removing(tree, InTheWay)
            /\ call' = [call EXCEPT !.at = "rename_again", !.ok = TRUE]
       ELSE Fails
    /\ Rest

MakeWay ==
    /\ call.at = "make_way"
    /\ IF CanRemove(InTheWay)
       THEN /\ tree' = Removing(tree, InTheWay)
            /\ call' = [call EXCEPT !.at = "rename_again"]
       ELSE Fails
    /\ Rest

Return ==
    /\ call.at = "done"
    /\ call' = Idle
    /\ UNCHANGED <<tree, open, hostChanges>>

(* path_open with O_CREAT, and of a directory, each one call of the host.  *)
(* On a root mount the path, not cleaned, is first taken for one of the    *)
(* host, and joined to the hostRoot only if a name is missing on the way;  *)
(* a file on the way, or at its end, may be a symlink.                     *)
Reached(t, path) ==
    \A i \in DOMAIN path :
        (\E j \in i..Len(path) : path[j] # "") => IsDir(t, Clean(SubSeq(path, 1, i - 1)))

LeadsFromRoot(at) == IsRootMount(at.mount) /\ Reached(tree, at.rel)

OpenedAs(at) ==
    IF LeadsFromRoot(at) /\ IsDir(tree, Clean(at.rel)) THEN Clean(at.rel) ELSE JoinedPath(at)

CreatedAs(at) ==
    IF LeadsFromRoot(at) /\ ~IsFile(tree, Clean(at.rel)) THEN Clean(at.rel) ELSE JoinedPath(at)

Openable(dir, at) ==
    at.mount # 0 /\ Mounts[at.mount].writable /\ ~Escapes(dir, at)

CreateFile ==
    /\ call.at = "idle"
    /\ \E dir \in Directories, arg \in Arg :
          LET at == ResolveDirfdPath(dir, arg) IN
          /\ Openable(dir, at)
          /\ TrailingSlash(arg) => IsRootMount(at.mount) /\ ~LeadsFromRoot(at)
          /\ HasRoom(tree, CreatedAs(at))
          /\ \E n \in File \ Used : tree' = Adding(tree, CreatedAs(at), n)
          /\ call' = [Call("open", "done", CreatedAs(at), <<>>, FALSE, tree,
                           Inside(dir, at) /\ HostRooted(at)) EXCEPT !.ok = TRUE]
    /\ UNCHANGED <<open, hostChanges>>

OpenDirectory(d) ==
    /\ call.at = "idle"
    /\ \E dir \in Directories, arg \in Arg :
          LET at == ResolveDirfdPath(dir, arg) IN
          /\ Openable(dir, at)
          /\ IsDir(tree, OpenedAs(at))
          /\ open' = [open EXCEPT ![d] =
                [path |-> GuestPathOf(at), name |-> OpenedAs(at),
                 inside |-> Inside(dir, at) /\ HostRooted(at)]]
    /\ UNCHANGED <<tree, call, hostChanges>>

(* Another process makes, removes or renames something.                    *)
HostChange ==
    /\ hostChanges < MaxHostChanges
    /\ hostChanges' = hostChanges + 1
    /\ \/ \E p \in DOMAIN tree \ Initial :
             CanRemove(p) /\ tree' = Removing(tree, p)
       \/ \E p \in { x.name : x \in FromPreopens }, n \in (File \cup Dir) \ Used :
             HasRoom(tree, p) /\ tree' = Adding(tree, p, n)
       \/ \E old \in DOMAIN tree \ Initial, p \in { x.name : x \in FromPreopens } :
             CanRename(old, p) /\ tree' = Renamed(old, p)
    /\ call' = IF call.at = "idle" THEN call
               ELSE [call EXCEPT !.alone = FALSE, !.before = <<>>]
    /\ UNCHANGED open

Guest ==
    \/ BeginCreate \/ BeginRemove \/ BeginUnlink \/ BeginSymlink \/ BeginLink \/ BeginRename
    \/ CreateDirectory \/ RemoveDirectory \/ UnlinkFile \/ OsRemove
    \/ Symlink \/ ValidateLink \/ Link
    \/ ValidateRename \/ RenamePath \/ AreEmpty \/ MakeWay
    \/ Return \/ CreateFile
    \/ \E d \in Slot : OpenDirectory(d)

Next == Guest \/ HostChange

Spec == Init /\ [][Next]_vars

-----------------------------------------------------------------------------
(* Type invariant: the tree is one, and only one path names a directory.   *)
HostTypeOK ==
    /\ \A p \in DOMAIN tree :
          /\ tree[p] \in File \cup Dir
          /\ Len(p) <= MaxDepth
          /\ p # <<>> => IsDir(tree, Front(p))
    /\ \A p, q \in DOMAIN tree :
          p # q /\ tree[p] = tree[q] => tree[p] \in File \cup {Fixed}
    /\ call.at \in {"idle", "create_directory", "remove_directory", "unlink_file", "remove",
                    "symlink", "validate_link", "link", "validate_rename", "rename", "is_empty",
                    "make_way", "rename_again", "done"}
    /\ call.at = "idle" <=> call.op = "none"
    /\ call.ok => call.at = "done"
    /\ hostChanges \in 0..MaxHostChanges

(* Whatever paths, with "..", absolute or relative to whatever directory,  *)
(* it passes, a guest changes nothing outside the writable mounts, but by  *)
(* the paths that are not confined.                                        *)
Changed == { p \in DOMAIN tree \cup DOMAIN tree' :
               ~(p \in DOMAIN tree /\ p \in DOMAIN tree' /\ tree[p] = tree'[p]) }

BelowWritable(p) == \E m \in Mount : Mounts[m].writable /\ IsPrefix(Mounts[m].host, p)

ChangesStayBelow ==
    [][hostChanges' = hostChanges /\ call'.inside => \A p \in Changed : BelowWritable(p)]_vars

(* What confinement_test.go:11-14 and ARCHITECTURE.md:86 say, of all       *)
(* paths: a guest changes nothing outside the writable mounts.             *)
ConfinedToMounts ==
    [][hostChanges' = hostChanges => \A p \in Changed : BelowWritable(p)]_vars

(* Between calls, a nested directory, which keeps only the guest path it   *)
(* was opened with, resolves every path it accepts to the host path of the *)
(* directory opened, or one below it: the one that the guest's path is     *)
(* behind its own.  (If it was opened by a path that is confined.)         *)
DirfdLeadsBelowItself ==
    call.at = "idle" => \A d \in Slot, arg \in Arg :
        LET dir == Nested(open[d].path) IN
        open[d] # Unopened /\ open[d].inside /\ Writable(dir, arg) =>
            /\ IsPrefix(dir.path, Clean(dir.path \o arg.segs))
            /\ HostPath(dir, arg) =
                  open[d].name \o Behind(dir.path, Clean(dir.path \o arg.segs))

(* What a call that returns success has done to the tree, from its start,  *)
(* when no other process interfered: exactly what it is for.               *)
Replaced(b, t, old, new) ==
    \/ t = b /\ IsFile(b, old) /\ b[old] = b[new]
    \/ /\ ~Exists(t, old)
       /\ \A q \in Below(b, old) : t[new \o Behind(old, q)] = b[q]
       /\ \A p \in DOMAIN b \ Below(b, old) : p = new \/ t[p] = b[p]
       /\ Cardinality(DOMAIN t) = Cardinality(DOMAIN b \ {new})
       /\ ~Exists(b, new) \/ (IsFile(b, new) <=> IsFile(b, old))
       /\ IsDir(b, new) => IsEmpty(b, new)

CallsDoWhatTheySay ==
    LET b == call.before  p == call.old  q == call.new IN
    call.at = "done" /\ call.ok /\ call.alone =>
        CASE call.op = "create_directory" ->
                ~Exists(b, p) /\ IsDir(tree, p) /\ Removing(tree, p) = b
          [] call.op \in {"symlink", "open"} -> ~Exists(b, p) /\ IsFile(tree, p) /\ Removing(tree, p) = b
          [] call.op = "remove_directory" ->
                IsDir(b, p) /\ IsEmpty(b, p) /\ tree = Removing(b, p)
          [] call.op = "unlink_file" -> IsFile(b, p) /\ tree = Removing(b, p)
          [] call.op = "link" -> IsFile(b, p) /\ ~Exists(b, q) /\ tree = Adding(b, q, b[p])
          [] call.op = "rename" -> Replaced(b, tree, p, q)

(* A call that returns an error has changed nothing, unless another        *)
(* process interfered.  The one exception is an empty directory renamed    *)
(* onto itself.                                                            *)
FailedCallsChangeNothing ==
    call.at = "done" /\ ~call.ok /\ call.alone =>
        \/ tree = call.before
        \/ call.op = "rename" /\ call.old = call.new

(* path_rename loses and alters nothing of what it is to move, whatever it *)
(* returns and whatever other processes do: in each of its steps all of it *)
(* stays, or all of it is found at the new path; but an empty directory    *)
(* renamed onto itself is taken for one in the way, and removed.           *)
RenameKeepsWhatItMoves ==
    [][hostChanges' = hostChanges /\ call.op = "rename" /\ call.old # call.new =>
         LET moved == Below(tree, call.old)
             KeptAt(p) == \A q \in moved :
                LET r == p \o Behind(call.old, q) IN Exists(tree', r) /\ tree'[r] = tree[q]
         IN  KeptAt(call.old) \/ KeptAt(call.new)]_vars
=============================================================================
