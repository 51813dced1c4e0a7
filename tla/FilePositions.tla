--------------------------- MODULE FilePositions ---------------------------
(***************************************************************************)
(* What the byte-oriented calls promise: a file is its bytes, a descriptor *)
(* is one position in them and a flag, and every call is one step.  There  *)
(* are no two positions to keep in step here, no vectors of buffers, no    *)
(* copy of an entry to put back, and no call that is half-way through.     *)
(* FileIO implements this specification.                                   *)
(***************************************************************************)
EXTENDS FileBytes

CONSTANTS
    Fd,            \* descriptors of regular files
    Byte,          \* what is written
    Embedded       \* the bytes of a file that nobody can change

VARIABLES
    hosted,        \* the descriptors of the one file on the host
    file,          \* the bytes of that file
    position,      \* where the next read or write of each descriptor goes
    append,        \* the descriptors with the APPEND flag
    listed,        \* those fd_readdir was called on, until they are used
    asked,         \* the last call, as the guest made it
    answer         \* the bytes that call delivered or stored

absVars == <<hosted, file, position, append, listed, asked, answer>>

Bytes(fd) == IF fd \in hosted THEN file ELSE Embedded

AbsInit ==
    /\ position = [fd \in Fd |-> 0]
    /\ append = {}
    /\ listed = {}
    /\ asked = [op |-> "none"]
    /\ answer = <<>>

Asked(op, fd) == asked'.op = op /\ asked'.fd = fd

MovesTo(fd, n) == position' = [position EXCEPT ![fd] = n]

Used(fd) == listed' = listed \ {fd}

(* A call is under way, and has done nothing so far that the guest or      *)
(* another descriptor could see.                                           *)
Begin ==
    /\ asked' = [op |-> "none"]
    /\ answer' = <<>>
    /\ listed' \in { listed \ F : F \in SUBSET Fd }
    /\ UNCHANGED <<hosted, file, position, append>>

(* The bytes from the position on, as many as asked for or fewer; the      *)
(* position moves past them.                                               *)
Read(fd) ==
    /\ Asked("read", fd)
    /\ \E n \in 0 .. asked'.want : answer' = Slice(Bytes(fd), position[fd], n)
    /\ MovesTo(fd, position[fd] + Len(answer'))
    /\ UNCHANGED <<hosted, file, append, listed>>

(* As Read at an offset of its own; the position stays.                    *)
PositionedRead(fd) ==
    /\ Asked("pread", fd)
    /\ \E n \in 0 .. asked'.want : answer' = Slice(Bytes(fd), asked'.at, n)
    /\ UNCHANGED <<hosted, file, position, append, listed>>

Stores(fd, at) ==
    /\ \E n \in 0 .. Len(asked'.data) : answer' = SubSeq(asked'.data, 1, n)
    /\ fd \notin hosted => answer' = <<>>
    /\ file' = Overwrite(file, at, answer')

(* All bytes or the first few of them go to the position or, with APPEND,  *)
(* to the end; the position moves past them.                               *)
Write(fd) ==
    LET at == IF fd \in append THEN Len(Bytes(fd)) ELSE position[fd] IN
    /\ Asked("write", fd)
    /\ Stores(fd, at)
    /\ MovesTo(fd, at + Len(answer'))
    /\ UNCHANGED <<hosted, append, listed>>

PositionedWrite(fd) ==
    /\ Asked("pwrite", fd)
    /\ Stores(fd, asked'.at)
    /\ UNCHANGED <<hosted, position, append, listed>>

(* A seek counts from the start, from the position or from the end.  From  *)
(* the position nothing is promised if fd_readdir was tried on the file.   *)
Seek(fd) ==
    /\ Asked("seek", fd)
    /\ asked'.whence = "set" => MovesTo(fd, asked'.delta)
    /\ asked'.whence = "end" => MovesTo(fd, Len(Bytes(fd)) + asked'.delta)
    /\ asked'.whence = "cur" =>
          IF fd \in listed THEN \A g \in Fd \ {fd} : position'[g] = position[g]
                           ELSE MovesTo(fd, position[fd] + asked'.delta)
    /\ answer' = <<>>
    /\ Used(fd)
    /\ UNCHANGED <<hosted, file, append>>

List(fd) ==
    /\ Asked("readdir", fd)
    /\ listed' = listed \cup {fd}
    /\ answer' = <<>>
    /\ UNCHANGED <<hosted, file, position, append>>

SetAppend(fd) ==
    /\ Asked("flags", fd)
    /\ append' = IF asked'.append THEN append \cup {fd} ELSE append \ {fd}
    /\ answer' = <<>>
    /\ UNCHANGED <<hosted, file, position, listed>>

(* Truncation may grow or shrink the file, allocation only grow it, and    *)
(* another process may do anything to it; no position moves.               *)
Resize(fd) ==
    /\ fd \in hosted
    /\ \/ Asked("set_size", fd) /\ file' = Resized(file, asked'.size)
       \/ Asked("allocate", fd) /\ file' = Resized(file, Larger(Len(file), asked'.size))
    /\ answer' = <<>>
    /\ UNCHANGED <<hosted, position, append, listed>>

OtherProcess ==
    /\ asked' = [op |-> "none"]
    /\ answer' = <<>>
    /\ UNCHANGED <<hosted, position, append, listed>>

AbsNext ==
    \/ \E fd \in Fd :
          \/ Read(fd) \/ PositionedRead(fd) \/ Write(fd) \/ PositionedWrite(fd)
          \/ Seek(fd) \/ List(fd) \/ SetAppend(fd) \/ Resize(fd)
    \/ Begin \/ OtherProcess

AbsSpec == AbsInit /\ [][AbsNext]_absVars
=============================================================================
