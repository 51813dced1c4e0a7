---------------------------- MODULE PathResolve ----------------------------
(***************************************************************************)
(* Guest paths and the host paths they lead to.  A path is the sequence of *)
(* its segments: names, "." and "..", and "" for a trailing slash.  A      *)
(* guest path argument also says whether it is absolute.  Names are of one *)
(* length, so that paths are as long as they have segments.                *)
(*                                                                         *)
(* Symlinks are left out.  External: path.Clean, path.Join and             *)
(* filepath.Join, as the code uses them.                                   *)
(***************************************************************************)
EXTENDS Integers, SequencesExt

CONSTANT Mounts        \* the mounts, in option order: where each lies for the
                       \* guest, its hostRoot, and whether it is writable

Mount == DOMAIN Mounts

ASSUME MountsAssumption ==
    /\ Mounts \in Seq([guest : Seq(STRING), host : Seq(STRING), writable : BOOLEAN])
    /\ \A m \in Mount : \A path \in {Mounts[m].guest, Mounts[m].host} :
          \A i \in DOMAIN path : path[i] \notin {"", ".", ".."}

-----------------------------------------------------------------------------
(* path.Clean: of a path from a root, where ".." goes no further up, and   *)
(* of a relative one, which keeps a ".." at its start.                     *)
PushRooted(stack, seg) ==
    CASE seg \in {"", "."} -> stack
      [] seg = ".." -> IF stack = <<>> THEN <<>> ELSE Front(stack)
      [] OTHER -> Append(stack, seg)

PushRelative(stack, seg) ==
    IF seg = ".." /\ (stack = <<>> \/ Last(stack) = "..") THEN Append(stack, seg)
    ELSE PushRooted(stack, seg)

Clean(path) ==
    LET upTo[i \in 0..Len(path)] ==
            IF i = 0 THEN <<>> ELSE PushRooted(upTo[i - 1], path[i])
    IN  upTo[Len(path)]

CleanRelative(path) ==
    LET upTo[i \in 0..Len(path)] ==
            IF i = 0 THEN <<>> ELSE PushRelative(upTo[i - 1], path[i])
    IN  upTo[Len(path)]

Behind(prefix, path) == SubSeq(path, Len(prefix) + 1, Len(path))

Nowhere == [mount |-> 0, rel |-> <<>>]

-----------------------------------------------------------------------------
(* resolvePath: each mount is compared with the path cleaned and as it is, *)
(* and the longest one wins, the first of equals.                          *)

Covers(m, path) ==
    IsPrefix(Mounts[m].guest, Clean(path)) \/ IsPrefix(Mounts[m].guest, path)

Beats(m, n) ==
    \/ Len(Mounts[m].guest) > Len(Mounts[n].guest)
    \/ Len(Mounts[m].guest) = Len(Mounts[n].guest) /\ m <= n

ResolvePath(path) ==
    LET covering == { m \in Mount : Covers(m, path) }
        best == CHOOSE m \in covering : \A n \in covering : Beats(m, n)
        guest == Mounts[best].guest
    IN  IF covering = {} THEN Nowhere
        ELSE [mount |-> best,
              rel |-> Behind(guest, IF IsPrefix(guest, Clean(path)) THEN Clean(path) ELSE path)]

-----------------------------------------------------------------------------
(* What is passed as a directory: of a preopen the index of its mount; of  *)
(* another directory 0, and the guest path it was opened with; and one for *)
(* all that is none, such as a file, a standard stream or a closed number. *)
Preopen(m) == [mount |-> m, path |-> Mounts[m].guest]

Nested(path) == [mount |-> 0, path |-> path]

NoDirectory == [mount |-> -1, path |-> <<>>]

IsPreopen(dir) == dir.mount > 0

IsNested(dir) == dir.mount = 0

(* resolveDirfdPath: an absolute path is resolved on all but a nested      *)
(* directory, a relative one on a directory only.                          *)
ResolveDirfdPath(dir, arg) ==
    CASE arg.abs -> IF IsNested(dir) THEN Nowhere ELSE ResolvePath(arg.segs)
      [] ~arg.abs /\ IsPreopen(dir) -> [mount |-> dir.mount, rel |-> arg.segs]
      [] ~arg.abs /\ IsNested(dir) -> ResolvePath(Clean(dir.path \o arg.segs))
      [] OTHER -> Nowhere

(* mountGuestPath                                                          *)
GuestPathOf(at) == Clean(Mounts[at.mount].guest \o at.rel)

(* preopenMountRelEscapes                                                  *)
Strays(at) == LET rel == CleanRelative(at.rel) IN rel # <<>> /\ rel[1] = ".."

(* As "Escapes", for nested directories only.                              *)
EscapesNestedOnly(dir, at) ==
    /\ IsNested(dir)
    /\ GuestPathOf(at) # dir.path
    /\ dir.path = <<>> \/ ~IsPrefix(dir.path, GuestPathOf(at))

(* As "Escapes", for preopens only.                                        *)
EscapesPreopenOnly(dir, at) == IsPreopen(dir) /\ Strays(at)

(* preopenDirfdLexicallyEscapes and nonPreopenDirfdResolvedPathEscapes:    *)
(* nothing is checked of what is no directory.  Nothing lies below the     *)
(* prefix "//" of a directory opened at the root.                          *)
Escapes(dir, at) ==
    \/ IsPreopen(dir) /\ Strays(at)
    \/ /\ IsNested(dir)
       /\ GuestPathOf(at) # dir.path
       /\ dir.path = <<>> \/ ~IsPrefix(dir.path, GuestPathOf(at))

IsRootMount(m) == Mounts[m].guest = <<>>

JoinedPath(at) == Clean(Mounts[at.mount].host \o at.rel)

(* writableHostPathNeedsSymlinkTraversal                                   *)
NeedsTraversal(path) ==
    Len(CleanRelative(path)) > 1 \/ (Len(path) > 1 /\ path[1] = "")

(* joinWritableHostPathForMutation, without symlinks: where it looks, the  *)
(* path must lie below the hostRoot.                                       *)
StaysBelow(arg, at) ==
    NeedsTraversal(IF arg.abs THEN at.rel ELSE arg.segs) =>
        IsPrefix(Mounts[at.mount].host, JoinedPath(at))

(* resolveWritable: whether a path is accepted, and the host path.  On a   *)
(* root mount an absolute path is taken for one of the host.               *)
Writable(dir, arg) ==
    LET at == ResolveDirfdPath(dir, arg)
    IN  /\ at.mount # 0 /\ ~Escapes(dir, at) /\ Mounts[at.mount].writable
        /\ IsRootMount(at.mount) \/ StaysBelow(arg, at)

HostPath(dir, arg) ==
    LET at == ResolveDirfdPath(dir, arg)
    IN  IF IsRootMount(at.mount) /\ arg.abs THEN Clean(at.rel) ELSE JoinedPath(at)

(* pathHasTrailingSlash                                                    *)
TrailingSlash(arg) == arg.segs # <<>> /\ Last(arg.segs) = ""
=============================================================================
