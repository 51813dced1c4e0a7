------------------------------- MODULE FileIO -------------------------------
(***************************************************************************)
(* The byte-oriented calls on descriptors of regular files.  A descriptor  *)
(* has two positions: entry.offset, kept by this code, and the one the     *)
(* machine (or the fs.File) keeps, which fd_read and fd_write move to      *)
(* entry.offset before they start and which SEEK_CUR counts from.  A read  *)
(* or write is one step per buffer of its vector, each of which may be     *)
(* short or fail, and a step that returns.                                 *)
(*                                                                         *)
(* What is behind a descriptor: "os", an osFile; "dirfs", the FSFileWrap   *)
(* of an os.DirFS file, which has a ReadDir; "embed", the FSFileWrap of an *)
(* embedded file, which has none.  The first two are one file on the host. *)
(* That one cannot seek beyond its end.  An fs.File that cannot seek at    *)
(* all is left out: on it reads fail, writes store nothing, and no         *)
(* position is ever used.                                                  *)
(*                                                                         *)
(* Descriptors stay open here; FdTable opens, closes and moves them.  A    *)
(* call that fails before it changes anything is a stuttering step.        *)
(***************************************************************************)
EXTENDS FileBytes, SequencesExt

CONSTANTS
    Fd,            \* descriptors of regular files, all above stdio
    Kinds,         \* Kinds[fd]: what may be behind it
    Rights,        \* Rights[fd]: its rights_base
    Byte,          \* what a guest or another process writes
    Embedded,      \* the bytes of an embedded file
    ReadIovs,      \* the vectors of buffer lengths given to reads
    WriteIovs,     \* the vectors of buffers given to writes
    MaxSize        \* the largest file the host allows; bound of offsets

Kind  == {"os", "dirfs", "embed"}
Right == {"FD_READ", "FD_WRITE", "FD_ALLOCATE", "FD_FILESTAT_SET_SIZE"}

ASSUME FileAssumption ==
    /\ Kinds \in [Fd -> SUBSET Kind]
    /\ Rights \in [Fd -> SUBSET Right]
    /\ MaxSize \in Nat
    /\ Zero \notin Byte
    /\ Embedded \in Seq(Byte) /\ Len(Embedded) <= MaxSize
    /\ ReadIovs \subseteq Seq(Nat)
    /\ WriteIovs \subseteq Seq(Seq(Byte))

VARIABLES
    kind,          \* what is behind each descriptor
    file,          \* the bytes of the host file
    offset,        \* entry.offset
    kernel,        \* the position that the machine or the fs.File keeps
    append,        \* the descriptors with fdFlagsAppend in entry.fdFlags
    listed,        \* those whose kernel position fd_readdir has moved
    call,          \* the call under way, or the last one as it was made
    moved          \* the bytes it has delivered or stored so far

disk  == <<kind, file>>
table == <<offset, append>>
vars  == <<disk, table, kernel, listed, call, moved>>

NoCall == [op |-> "none"]
Busy   == "iovs" \in DOMAIN call

Init ==
    /\ kind \in { k \in [Fd -> Kind] : \A fd \in Fd : k[fd] \in Kinds[fd] }
    /\ file = <<>>
    /\ offset = [fd \in Fd |-> 0]
    /\ kernel = [fd \in Fd |-> 0]
    /\ append = {}
    /\ listed = {}
    /\ call = NoCall
    /\ moved = <<>>

Allowed(fd, right) == right \in Rights[fd]

OnHost(fd) == kind[fd] \in {"os", "dirfs"}
Bytes(fd)  == IF OnHost(fd) THEN file ELSE Embedded

-----------------------------------------------------------------------------
(* A call under way: the copy of the entry's offset (or, in a positioned   *)
(* call, curOff), the buffers left, and for the refinement how the call    *)
(* was made and the file before it.                                        *)
Under(made, iovs, at) ==
    [op |-> made.op, fd |-> made.fd, iovs |-> iovs, at |-> at,
     made |-> made, before |-> file]

(* The bytes that a vector of buffers asks for.                            *)
Sum(iovs) ==
    LET upTo[i \in 0 .. Len(iovs)] == IF i = 0 THEN 0 ELSE upTo[i - 1] + iovs[i]
    IN  upTo[Len(iovs)]

KernelAt(fd, n) == kernel' = [kernel EXCEPT ![fd] = n]

(* As "BeginRead", without the Seek to entry.offset.                       *)
BeginReadUnsought(fd) ==
    /\ ~Busy
    /\ Allowed(fd, "FD_READ")
    /\ \E iovs \in ReadIovs :
          call' = Under([op |-> "read", fd |-> fd, want |-> Sum(iovs)], iovs, offset[fd])
    /\ listed' = listed \ {fd}
    /\ moved' = <<>>
    /\ UNCHANGED <<disk, table, kernel>>

BeginRead(fd) ==
    /\ ~Busy
    /\ Allowed(fd, "FD_READ")
    /\ \E iovs \in ReadIovs :
          call' = Under([op |-> "read", fd |-> fd, want |-> Sum(iovs)], iovs, offset[fd])
    /\ KernelAt(fd, offset[fd])
    /\ listed' = listed \ {fd}
    /\ moved' = <<>>
    /\ UNCHANGED <<disk, table>>

(* FSFileWrap has neither ReadAt nor WriteAt: ENOTSUP.                     *)
BeginPread(fd) ==
    /\ ~Busy
    /\ Allowed(fd, "FD_READ")
    /\ kind[fd] = "os"
    /\ \E iovs \in ReadIovs, at \in 0 .. MaxSize :
          call' = Under([op |-> "pread", fd |-> fd, at |-> at, want |-> Sum(iovs)],
                        iovs, at)
    /\ moved' = <<>>
    /\ UNCHANGED <<disk, table, kernel, listed>>

(* As "WritesFrom", with the APPEND flag not looked at.                    *)
AlwaysFromOffset(fd) == offset[fd]

WritesFrom(fd) == IF fd \in append THEN Len(Bytes(fd)) ELSE offset[fd]

(* FSFileWrap has no Write either, and fd_write stops after the Seek.      *)
BeginWrite(fd) ==
    /\ ~Busy
    /\ Allowed(fd, "FD_WRITE")
    /\ \E iovs \in WriteIovs :
          call' = Under([op |-> "write", fd |-> fd, data |-> FlattenSeq(iovs)],
                        IF kind[fd] = "os" THEN iovs ELSE <<>>,
                        WritesFrom(fd))
    /\ KernelAt(fd, WritesFrom(fd))
    /\ listed' = listed \ {fd}
    /\ moved' = <<>>
    /\ UNCHANGED <<disk, table>>

BeginPwrite(fd) ==
    /\ ~Busy
    /\ Allowed(fd, "FD_WRITE")
    /\ kind[fd] = "os"
    /\ \E iovs \in WriteIovs, at \in 0 .. MaxSize :
          call' = Under([op |-> "pwrite", fd |-> fd, at |-> at, data |-> FlattenSeq(iovs)],
                        iovs, at)
    /\ moved' = <<>>
    /\ UNCHANGED <<disk, table, kernel, listed>>

-----------------------------------------------------------------------------
Sequential == call.op \in {"read", "write"}

(* Where the next buffer goes: File.Read and File.Write use the kernel's   *)
(* position, ReadAt and WriteAt the offset they are given.                 *)
From == IF Sequential THEN kernel[call.fd] ELSE call.at

KernelMoves(n) ==
    kernel' = IF Sequential THEN [kernel EXCEPT ![call.fd] = @ + n] ELSE kernel

(* One buffer is filled with n bytes.  A short Read ends the loop, and so  *)
(* do the end of the file and an error; ReadAt is short only with one.  A  *)
(* buffer of length 0 is passed over.                                      *)
FillBuffer ==
    LET want == Head(call.iovs)
        there == Len(Slice(Bytes(call.fd), From, want))
    IN
    /\ Busy /\ call.op \in {"read", "pread"} /\ call.iovs # <<>>
    /\ \E n \in 0 .. there, fails \in BOOLEAN :
          /\ n < there => fails \/ (Sequential /\ n > 0)
          /\ fails => want # 0
          /\ moved' = moved \o Slice(Bytes(call.fd), From, n)
          /\ KernelMoves(n)
          /\ call' = [call EXCEPT !.at = @ + n,
                                  !.iovs = IF fails \/ n < want THEN <<>> ELSE Tail(@)]
    /\ UNCHANGED <<disk, table, listed>>

(* Of one buffer n bytes are stored; os.File.Write and WriteAt fail when   *)
(* that is not all of it, as they must where the host's limit is.  With    *)
(* APPEND the offset is read back from the kernel.                         *)
StoreBuffer ==
    LET data == Head(call.iovs) IN
    /\ Busy /\ call.op \in {"write", "pwrite"} /\ call.iovs # <<>>
    /\ \E n \in 0 .. Len(data) :
          /\ From + n <= MaxSize
          /\ file' = Overwrite(file, From, SubSeq(data, 1, n))
          /\ moved' = moved \o SubSeq(data, 1, n)
          /\ KernelMoves(n)
          /\ call' = [call EXCEPT
                !.at = IF call.op = "write" /\ call.fd \in append
                       THEN kernel'[call.fd] ELSE @ + n,
                !.iovs = IF n < Len(data) THEN <<>> ELSE Tail(@)]
    /\ UNCHANGED <<kind, table, listed>>

(* Every return of fd_read and fd_write puts the copy of the entry back,   *)
(* the ones with an error too.                                             *)
Return ==
    /\ Busy /\ call.iovs = <<>>
    /\ offset' = IF Sequential THEN [offset EXCEPT ![call.fd] = call.at] ELSE offset
    /\ call' = call.made
    /\ UNCHANGED <<disk, append, kernel, listed, moved>>

-----------------------------------------------------------------------------
(* Calls that are one step.                                                *)
Made(record) == ~Busy /\ call' = record /\ moved' = <<>>

Whence == {"set", "cur", "end"}

Base(fd, whence) ==
    CASE whence = "set" -> 0
      [] whence = "cur" -> kernel[fd]
      [] whence = "end" -> Len(Bytes(fd))

(* As "SeekTargets", with offsets before the start of the file let through.*)
SeekTargetsUnchecked == -1 .. MaxSize

SeekTargets == 0 .. MaxSize

Seek(fd) ==
    /\ \E whence \in Whence, n \in SeekTargets :
          /\ kind[fd] = "embed" => n <= Len(Embedded)
          /\ Made([op |-> "seek", fd |-> fd, whence |-> whence,
                   delta |-> n - Base(fd, whence)])
          /\ KernelAt(fd, n)
          /\ offset' = [offset EXCEPT ![fd] = n]
    /\ listed' = listed \ {fd}
    /\ UNCHANGED <<disk, append>>

(* fd_readdir on a regular file: where the file has a ReadDir it is first  *)
(* moved to its start; then ReadDir fails.                                 *)
Readdir(fd) ==
    /\ OnHost(fd)
    /\ Made([op |-> "readdir", fd |-> fd])
    /\ KernelAt(fd, 0)
    /\ listed' = listed \cup {fd}
    /\ UNCHANGED <<disk, table>>

SetFlags(fd) ==
    /\ \E on \in BOOLEAN :
          /\ Made([op |-> "flags", fd |-> fd, append |-> on])
          /\ append' = IF on THEN append \cup {fd} ELSE append \ {fd}
    /\ UNCHANGED <<disk, offset, kernel, listed>>

SetSize(fd) ==
    /\ kind[fd] = "os"
    /\ Allowed(fd, "FD_FILESTAT_SET_SIZE")
    /\ \E n \in 0 .. MaxSize :
          /\ Made([op |-> "set_size", fd |-> fd, size |-> n])
          /\ file' = Resized(file, n)
    /\ UNCHANGED <<kind, table, kernel, listed>>

(* fileRangeEnd: offset + length, neither of them negative and the sum not *)
(* above the largest offset.                                               *)
RangeEnds == { from + length : from, length \in 0 .. MaxSize } \cap 0 .. MaxSize

Allocate(fd) ==
    /\ kind[fd] = "os"
    /\ Allowed(fd, "FD_ALLOCATE")
    /\ \E end \in RangeEnds :
          /\ Made([op |-> "allocate", fd |-> fd, size |-> end])
          /\ file' = Resized(file, Larger(Len(file), end))
    /\ UNCHANGED <<kind, table, kernel, listed>>

(* Between two calls another process truncates, extends or appends to it.   *)
OtherProcess ==
    /\ Made(NoCall)
    /\ \/ \E n \in 0 .. MaxSize : file' = Resized(file, n)
       \/ \E b \in Byte : Len(file) < MaxSize /\ file' = Append(file, b)
    /\ UNCHANGED <<kind, table, kernel, listed>>

Next ==
    \/ \E fd \in Fd :
          \/ BeginRead(fd) \/ BeginPread(fd) \/ BeginWrite(fd) \/ BeginPwrite(fd)
          \/ Seek(fd) \/ Readdir(fd) \/ SetFlags(fd) \/ SetSize(fd) \/ Allocate(fd)
    \/ FillBuffer \/ StoreBuffer \/ Return
    \/ OtherProcess

Spec == Init /\ [][Next]_vars

-----------------------------------------------------------------------------
(* Type invariant; a call under way never has a negative or a too large    *)
(* offset.                                                                 *)
FileTypeOK ==
    /\ kind \in [Fd -> Kind]
    /\ file \in Seq(Byte \cup {Zero}) /\ Len(file) <= MaxSize
    /\ offset \in [Fd -> 0 .. MaxSize]
    /\ kernel \in [Fd -> 0 .. MaxSize]
    /\ append \subseteq Fd
    /\ listed \subseteq Fd
    /\ moved \in Seq(Byte \cup {Zero})
    /\ Busy => call.fd \in Fd /\ call.at \in 0 .. MaxSize

(* Between calls the two positions of a descriptor agree, whatever was     *)
(* short, failed or was appended, so that SEEK_CUR counts from what        *)
(* fd_tell says; fd_readdir on the file is the one exception.              *)
PositionsInStep ==
    ~Busy => \A fd \in Fd \ listed : kernel[fd] = offset[fd]

(* Every call is one step of a file with one position per descriptor: what *)
(* it delivers or stores, where, and where the next one goes, no matter    *)
(* into how many buffers it is split and which of them is short or fails.  *)
Positions == INSTANCE FilePositions WITH
    hosted   <- { fd \in Fd : OnHost(fd) },
    file     <- IF Busy THEN call.before ELSE file,
    position <- offset,
    asked    <- IF Busy THEN NoCall ELSE call,
    answer   <- IF Busy THEN <<>> ELSE moved

CallsAreAtomic == Positions!AbsSpec
=============================================================================
