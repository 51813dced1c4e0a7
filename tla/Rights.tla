------------------------------- MODULE Rights -------------------------------
(***************************************************************************)
(* The rights algebra of wasihost: a __wasi_rights_t mask is the set of    *)
(* the rights whose bits are set, so that & is intersection, | is union    *)
(* and &^ is difference.  No state: FdTable uses these operators.          *)
(***************************************************************************)

PathRights == { "PATH_CREATE_DIRECTORY", "PATH_CREATE_FILE",
                "PATH_LINK_SOURCE", "PATH_LINK_TARGET", "PATH_OPEN",
                "PATH_READLINK", "PATH_RENAME_SOURCE", "PATH_RENAME_TARGET",
                "PATH_FILESTAT_GET", "PATH_FILESTAT_SET_SIZE",
                "PATH_FILESTAT_SET_TIMES", "PATH_SYMLINK",
                "PATH_REMOVE_DIRECTORY", "PATH_UNLINK_FILE" }

FdRights == { "FD_DATASYNC", "FD_READ", "FD_SEEK", "FD_FDSTAT_SET_FLAGS",
              "FD_SYNC", "FD_TELL", "FD_WRITE", "FD_ADVISE", "FD_ALLOCATE",
              "FD_READDIR", "FD_FILESTAT_GET", "FD_FILESTAT_SET_SIZE",
              "FD_FILESTAT_SET_TIMES", "POLL_FD_READWRITE" }

Right == PathRights \cup FdRights

-----------------------------------------------------------------------------
(* The bundles of wasihost_const.go.                                       *)

DirectoryInherited ==
    PathRights \cup { "FD_READDIR", "FD_FILESTAT_GET",
                      "FD_FILESTAT_SET_SIZE", "FD_FILESTAT_SET_TIMES" }

WritableDirPreopenBase ==
    (DirectoryInherited \ { "FD_FILESTAT_SET_SIZE" })
        \cup { "PATH_FILESTAT_SET_SIZE" }

WritableDirPreopenInheriting ==
    (DirectoryInherited \ { "PATH_FILESTAT_SET_SIZE" })
        \cup { "FD_READ", "FD_SEEK", "FD_FDSTAT_SET_FLAGS", "FD_WRITE",
               "FD_DATASYNC", "FD_SYNC", "FD_TELL", "FD_ADVISE",
               "FD_ALLOCATE", "FD_FILESTAT_SET_SIZE", "POLL_FD_READWRITE" }

ReadOnlyDirPreopen ==
    { "FD_READ", "FD_SEEK", "FD_FDSTAT_SET_FLAGS", "PATH_OPEN",
      "FD_READDIR", "PATH_READLINK", "PATH_FILESTAT_GET", "FD_FILESTAT_GET" }

RegularFile ==
    { "FD_READ", "FD_SEEK", "FD_FDSTAT_SET_FLAGS", "FD_WRITE",
      "FD_FILESTAT_GET", "FD_FILESTAT_SET_SIZE", "FD_FILESTAT_SET_TIMES" }

CharDev == { "FD_READ", "FD_WRITE", "FD_FDSTAT_SET_FLAGS", "FD_FILESTAT_GET" }

-----------------------------------------------------------------------------
(* fileRightsForOpen: req is the requested base already clamped to what    *)
(* the parent passes on.  A request for both directions is widened to the  *)
(* whole regular-file bundle, a request for one of them is narrowed to it. *)

Effective(req) ==
    CASE {"FD_READ", "FD_WRITE"} \subseteq req -> RegularFile
      [] "FD_READ" \in req /\ "FD_WRITE" \notin req -> {"FD_READ"}
      [] "FD_WRITE" \in req /\ "FD_READ" \notin req -> {"FD_WRITE"}
      [] OTHER -> req

FileBase(parentInh, req) ==
    (Effective(req) \cap RegularFile \cap parentInh)
        \cup ((req \cap parentInh) \ RegularFile)

(* pathOpenStoredRights, one operator for each of the two masks it         *)
(* returns.  An empty reqInh asks for all that the parent passes on.       *)

(* As "StoredBase", without the clamp to the parent's inheriting mask.     *)
StoredBaseUnclamped(parentBase, parentInh, type, reqBase) ==
    IF type = "file" THEN Effective(reqBase) \cap RegularFile ELSE reqBase

StoredBase(parentBase, parentInh, type, reqBase) ==
    IF type = "file"
    THEN FileBase(parentInh, reqBase \cap parentInh)
    ELSE ((reqBase \cap parentInh)
             \cup (reqBase \cap parentBase \cap DirectoryInherited))
         \ {"FD_SEEK"}

StoredInh(parentInh, reqInh) ==
    IF reqInh = {} THEN parentInh ELSE reqInh \cap parentInh
=============================================================================
