------------------------------ MODULE Readdir ------------------------------
(***************************************************************************)
(* fd_readdir on one descriptor of a directory, called in a loop by a      *)
(* guest while the host changes the directory.  The descriptor keeps a     *)
(* snapshot of the listing; a cookie is an index into it.  The guest has   *)
(* one buffer: a call writes dirents from its start on, reports how much   *)
(* of it is used, and claims all of it when entries are left over.         *)
(*                                                                         *)
(* For a preopen the listing goes through a DirEntriesFile, made by the    *)
(* call that makes the snapshot and dropped by the same cookie 0, so that  *)
(* it adds nothing; inodes and types of entries are left out.              *)
(*                                                                         *)
(* External: the directory on the host, whose ReadDir(-1) lists, in some   *)
(* order, what lies after the position of the open directory; and the      *)
(* guest, which reads as the readdir of a C library over this call does:   *)
(* it parses dirents until none can be left, then resumes at the cookie of *)
(* the last one, and is done when the buffer was not used up.  Headers     *)
(* without a name are skipped.  Bytes that are no dirent and not zero are  *)
(* taken for a cut-off entry, the mildest case.                            *)
(***************************************************************************)
EXTENDS Integers, Sequences, FiniteSets, SequencesExt

CONSTANTS
    Name,          \* names of entries
    Length,        \* Length[n]: bytes of a name, "." and ".." included
    BufLen,        \* the length of the guest's buffer
    Clears,        \* whether the guest clears its buffer before a call
    Rewinds,       \* whether Seek works on the open directory
    MaxSeen        \* bound: how many entries of a scan are remembered

Dot == "."
DotDot == ".."

Header == 24

ASSUME DirAssumption ==
    /\ IsFiniteSet(Name)
    /\ Length \in [Name \cup {Dot, DotDot} -> Nat \ {0}]
    /\ BufLen \in Nat /\ MaxSeen \in Nat
    /\ Clears \in BOOLEAN /\ Rewinds \in BOOLEAN

VARIABLES
    dir,           \* what the directory on the host holds
    exhausted,     \* whether the open directory has been read to its end
    snapshot,      \* entry.readdirSnapshot, <<>> for nil
    pc,            \* the guest: in a "call", "parse", "done" or "failed"
    cookie,        \* the cookie of its next call
    buf,           \* the whole dirents in its buffer, by where they start
    used,          \* bufUsed as it was last reported
    parsed,        \* how far it has parsed
    start,         \* the cookie its scan began with
    seen           \* the entries the scan has returned, the first MaxSeen

host  == <<dir, exhausted>>
guest == <<pc, cookie, parsed, start, seen>>
vars  == <<host, snapshot, buf, used, guest>>

Init ==
    /\ dir \in SUBSET Name
    /\ exhausted = FALSE
    /\ snapshot = <<>>
    /\ pc = "call"
    /\ cookie = 0
    /\ buf = {}
    /\ used = 0
    /\ parsed = 0
    /\ start = 0
    /\ seen = <<>>

-----------------------------------------------------------------------------
(* The listing.                                                            *)

(* ReadDir(-1), of the host's directory or of a DirEntriesFile: what lies  *)
(* behind the position, in some order.                                     *)
ReadDir(atEnd) == IF atEnd THEN {<<>>} ELSE SetToSeqs(dir)

(* As "ListingsNow", without the Seek to the start of the directory.       *)
ListingsFromHere == ReadDir(exhausted)

ListingsNow == ReadDir(exhausted /\ ~Rewinds)

(* As "Keeps", with the host read again at every call.                     *)
KeepsNothing(c) == FALSE

(* A call with this cookie goes by the snapshot there is.                  *)
Keeps(c) == c # 0 /\ snapshot # <<>>

(* The entries that a call with cookie c goes by.                          *)
Entries(c) ==
    IF Keeps(c) THEN {snapshot}
    ELSE { <<Dot, DotDot>> \o listing : listing \in ListingsNow }

-----------------------------------------------------------------------------
(* The buffer.                                                             *)

EntryLen(name) == Header + Length[name]

(* Where the dirent of each entry after cookie c ends: Offsets(s, c)[k] is  *)
(* the bytes of the first k of them.                                       *)
Offsets(s, c) ==
    LET bytes[k \in 0 .. Len(s) - c] ==
          IF k = 0 THEN 0 ELSE bytes[k - 1] + EntryLen(s[c + k])
    IN  bytes

(* As "Fitting", without looking at the length of the buffer.              *)
FittingAll(s, c) == Len(s) - c

(* How many of them are written: as many as fit, in order.                 *)
Fitting(s, c) ==
    CHOOSE k \in 0 .. Len(s) - c :
        /\ Offsets(s, c)[k] <= BufLen
        /\ k < Len(s) - c => Offsets(s, c)[k + 1] > BufLen

(* As "Dirents", with the index of the entry as its cookie.                *)
DirentsOffByOne(s, c) ==
    { [at |-> Offsets(s, c)[i - 1], name |-> s[c + i], next |-> c + i - 1] :
        i \in 1 .. Fitting(s, c) }

Dirents(s, c) ==
    { [at |-> Offsets(s, c)[i - 1], name |-> s[c + i], next |-> c + i] :
        i \in 1 .. Fitting(s, c) }

(* As "Reported", without the claim to the whole buffer.                   *)
ReportedAsWritten(s, c) == Offsets(s, c)[Fitting(s, c)]

(* What is reported: all of the buffer when entries are left over, unless  *)
(* not even one was written.                                               *)
Reported(s, c) ==
    LET written == Offsets(s, c)[Fitting(s, c)] IN
    IF c + Fitting(s, c) < Len(s) /\ written > 0 THEN BufLen ELSE written

(* The rest of the buffer is left as it was.                               *)
Untouched(written) ==
    IF Clears THEN {} ELSE { d \in buf : d.at >= written }

Call ==
    /\ pc = "call"
    /\ \E s \in Entries(cookie) :
          /\ snapshot' = s
          /\ exhausted' = (exhausted \/ ~Keeps(cookie))
          /\ IF cookie >= Len(s)
             THEN /\ used' = 0
                  /\ buf' = Untouched(0)
             ELSE /\ used' = Reported(s, cookie)
                  /\ buf' = Dirents(s, cookie)
                              \cup Untouched(Offsets(s, cookie)[Fitting(s, cookie)])
    /\ parsed' = 0
    /\ pc' = "parse"
    /\ UNCHANGED <<dir, cookie, start, seen>>

(* The listing of the host fails: EIO, and with cookie 0 the old snapshot  *)
(* is gone.                                                                *)
CallFails ==
    /\ pc = "call"
    /\ ~Keeps(cookie)
    /\ snapshot' = <<>>
    /\ pc' = "failed"
    /\ UNCHANGED <<host, buf, used, cookie, parsed, start, seen>>

-----------------------------------------------------------------------------
(* The guest.                                                              *)
Left == used - parsed

ParseDirent ==
    /\ pc = "parse"
    /\ \E d \in buf :
          /\ d.at = parsed
          /\ EntryLen(d.name) <= Left
          /\ parsed' = parsed + EntryLen(d.name)
          /\ cookie' = d.next
          /\ seen' = IF Len(seen) < MaxSeen THEN Append(seen, d.name) ELSE seen
    /\ UNCHANGED <<host, snapshot, buf, used, pc, start>>

ParseNothing ==
    /\ pc = "parse"
    /\ Left >= Header
    /\ ~\E d \in buf : d.at = parsed
    /\ IF Clears
       THEN parsed' = parsed + Header /\ UNCHANGED pc
       ELSE pc' = "call" /\ UNCHANGED parsed
    /\ UNCHANGED <<host, snapshot, buf, used, cookie, start, seen>>

ParseEnd ==
    /\ pc = "parse"
    /\ Left < Header
    /\ pc' = IF used < BufLen THEN "done" ELSE "call"
    /\ UNCHANGED <<host, snapshot, buf, used, cookie, parsed, start, seen>>

(* rewinddir and seekdir: a scan from any cookie, begun at any time after  *)
(* the one before has ended.                                               *)
Scan ==
    /\ pc \in {"done", "failed"}
    /\ start' \in 0 .. Cardinality(Name) + 2
    /\ cookie' = start'
    /\ parsed' = 0
    /\ seen' = <<>>
    /\ pc' = "call"
    /\ UNCHANGED <<host, snapshot, buf, used>>

HostChanges ==
    /\ \E n \in Name : dir' \in {dir \cup {n}, dir \ {n}}
    /\ UNCHANGED <<exhausted, snapshot, buf, used, guest>>

Step == Call \/ CallFails \/ ParseDirent \/ ParseNothing \/ ParseEnd

Next == Step \/ Scan \/ HostChanges

Spec == Init /\ [][Next]_vars

(* The guest is a program that runs; nothing makes the host change.        *)
FairSpec == Spec /\ WF_vars(Step)

-----------------------------------------------------------------------------
Listed == Name \cup {Dot, DotDot}

(* Type invariant; neither what is reported nor a dirent that is written   *)
(* goes beyond the buffer.                                                 *)
DirTypeOK ==
    /\ dir \subseteq Name
    /\ exhausted \in BOOLEAN
    /\ snapshot \in Seq(Listed)
    /\ pc \in {"call", "parse", "done", "failed"}
    /\ buf \subseteq [at : 0 .. BufLen, name : Listed, next : Nat \ {0}]
    /\ \A d \in buf : d.at + EntryLen(d.name) <= BufLen
    /\ used \in 0 .. BufLen
    /\ parsed \in 0 .. BufLen
    /\ cookie \in Nat /\ start \in Nat
    /\ seen \in Seq(Listed)

(* A scan returns the entries of one snapshot, each of them once, in order,*)
(* from the cookie it began with, although the buffer is filled many times *)
(* and the directory changes between the calls.                            *)
EachEntryOnce ==
    pc # "failed" => seen = SubSeq(snapshot, start + 1, start + Len(seen))

(* A scan that says it is done has missed no entry of its snapshot: what   *)
(* is reported makes the guest come back as long as entries are left over. *)
NothingMissed ==
    pc = "done" => start + Len(seen) >= Len(snapshot)

(* A snapshot is the whole directory of the moment it is made, with the    *)
(* synthetic "." and ".." before it, however often it was read before.     *)
SnapshotsAreWhole ==
    [][snapshot' \notin {snapshot, <<>>} =>
          ToSet(snapshot') = dir \cup {Dot, DotDot}]_vars

(* A scan comes to its end: no answer makes the guest ask for ever.        *)
ScansEnd == pc \in {"call", "parse"} ~> pc \in {"done", "failed"}
=============================================================================
