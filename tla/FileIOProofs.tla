---------------------------- MODULE FileIOProofs ----------------------------
(* Theorems of FileIO, for every set of descriptors, every file behind     *)
(* them, every vector of buffers and every size of the file.               *)
EXTENDS FileIO, InductionFacts, SequenceTheorems

(* The kernel's position of a descriptor is entry.offset, or, while fd_read*)
(* or fd_write is under way on it, the offset in the copy of its entry.    *)
Expected(fd) == IF Busy /\ Sequential /\ call.fd = fd THEN call.at ELSE offset[fd]

(* "made" is what "call" is set back to, a call that is not under way; and *)
(* fd_read and fd_write have sought where their copy of the entry says.    *)
CallShape ==
    Busy => /\ call = [op |-> call.op, fd |-> call.fd, iovs |-> call.iovs,
                       at |-> call.at, made |-> call.made, before |-> call.before]
            /\ "iovs" \notin DOMAIN call.made
            /\ call.fd \in Fd
            /\ Sequential => call.fd \notin listed

Functions == DOMAIN kernel = Fd /\ DOMAIN offset = Fd

InStep == \A fd \in Fd \ listed : kernel[fd] = Expected(fd)

IInv == Functions /\ CallShape /\ InStep

LEMMA InitIInv == Init => IInv
BY DEF Init, IInv, Functions, CallShape, InStep, Expected, Busy, NoCall

(* A call that is one step leaves none under way.                          *)
LEMMA OneStep ==
    ASSUME NEW record, "iovs" \notin DOMAIN record, Made(record)
    PROVE  ~Busy /\ ~Busy' /\ CallShape'
BY DEF Made, Busy, CallShape

(* A call that begins has the shape, and its copy of the offset is the one *)
(* it was given.                                                           *)
LEMMA UnderShape ==
    ASSUME NEW made, NEW iovs, NEW at, call' = Under(made, iovs, at)
    PROVE  /\ Busy'
           /\ call' = [op |-> call'.op, fd |-> call'.fd, iovs |-> call'.iovs,
                       at |-> call'.at, made |-> call'.made, before |-> call'.before]
           /\ call'.op = made.op /\ call'.fd = made.fd
           /\ call'.at = at /\ call'.made = made
BY DEF Under, Busy

(* A call that begins keeps the invariant if it seeks to where its copy of  *)
(* the offset is, or is positioned and leaves all positions alone.         *)
LEMMA Begins ==
    ASSUME IInv, ~Busy, NEW fd \in Fd,
           NEW made, made.fd = fd, "iovs" \notin DOMAIN made,
           NEW iovs, NEW at, call' = Under(made, iovs, at),
           UNCHANGED offset,
           \/ /\ made.op \in {"read", "write"}
              /\ KernelAt(fd, at)
              /\ listed' = listed \ {fd}
           \/ /\ made.op \notin {"read", "write"}
              /\ UNCHANGED <<kernel, listed>>
    PROVE  IInv'
<1>1. /\ Busy' /\ call'.op = made.op /\ call'.fd = fd /\ call'.at = at
      /\ Sequential' <=> made.op \in {"read", "write"}
  BY UnderShape DEF Sequential
<1>2. CallShape'
  BY <1>1, UnderShape DEF CallShape, KernelAt
<1>3. Functions'
  BY DEF IInv, Functions, KernelAt
<1>4. \A f \in Fd \ listed : kernel[f] = offset[f]
  BY DEF IInv, InStep, Expected
<1>5. InStep'
  BY <1>1, <1>4 DEF InStep, Expected, KernelAt, IInv, Functions
<1> QED
  BY <1>2, <1>3, <1>5 DEF IInv

(* What a buffer makes of the call under way.                              *)
LEMMA Updated ==
    ASSUME call = [op |-> call.op, fd |-> call.fd, iovs |-> call.iovs,
                   at |-> call.at, made |-> call.made, before |-> call.before],
           NEW iovs, NEW at, call' = [call EXCEPT !.at = at, !.iovs = iovs]
    PROVE  call' = [op |-> call.op, fd |-> call.fd, iovs |-> iovs,
                    at |-> at, made |-> call.made, before |-> call.before]
<1> DEFINE c == [op |-> call.op, fd |-> call.fd, iovs |-> call.iovs,
                 at |-> call.at, made |-> call.made, before |-> call.before]
           d == [op |-> call.op, fd |-> call.fd, iovs |-> call.iovs,
                 at |-> at, made |-> call.made, before |-> call.before]
           e == [op |-> call.op, fd |-> call.fd, iovs |-> iovs,
                 at |-> at, made |-> call.made, before |-> call.before]
<1>1. [c EXCEPT !.at = at] = d
  OBVIOUS
<1>2. [d EXCEPT !.iovs = iovs] = e
  OBVIOUS
<1>3. call = c
  OBVIOUS
<1> HIDE DEF c, d, e
<1>4. call' = e
  BY <1>1, <1>2, <1>3, Zenon
<1> QED
  BY <1>4 DEF e

(* A buffer moves the kernel and the copy of the offset together.          *)
LEMMA Buffers ==
    ASSUME IInv, Busy, NEW iovs, NEW n, NEW at,
           at = call.at + n \/ (Sequential /\ at = kernel'[call.fd]),
           call' = [call EXCEPT !.at = at, !.iovs = iovs],
           KernelMoves(n),
           UNCHANGED <<offset, listed>>
    PROVE  IInv'
<1>1. /\ call = [op |-> call.op, fd |-> call.fd, iovs |-> call.iovs,
                 at |-> call.at, made |-> call.made, before |-> call.before]
      /\ call.fd \in Fd
      /\ Sequential => call.fd \notin listed
  BY DEF IInv, CallShape
<1>2. call' = [op |-> call.op, fd |-> call.fd, iovs |-> iovs,
               at |-> at, made |-> call.made, before |-> call.before]
  BY <1>1, Updated
<1>3. /\ Busy' /\ call'.op = call.op /\ call'.fd = call.fd /\ call'.at = at
      /\ call'.made = call.made
      /\ Sequential' <=> Sequential
  BY <1>2 DEF Busy, Sequential
<1>4. CallShape'
  BY <1>1, <1>2, <1>3 DEF CallShape, IInv
<1>5. Functions'
  BY DEF IInv, Functions, KernelMoves
<1>6. InStep'
  <2>1. CASE ~Sequential
    BY <2>1, <1>3 DEF InStep, Expected, KernelMoves, IInv
  <2>2. CASE Sequential
    <3>1. kernel' = [kernel EXCEPT ![call.fd] = kernel[call.fd] + n]
      BY <2>2 DEF KernelMoves
    <3>2. kernel[call.fd] = call.at
      BY <2>2, <1>1 DEF IInv, InStep, Expected
    <3>3. kernel'[call.fd] = at
      BY <3>1, <3>2, <1>1 DEF IInv, Functions
    <3>4. \A fd \in Fd \ {call.fd} : kernel'[fd] = kernel[fd]
      BY <3>1 DEF IInv, Functions
    <3> QED
      BY <2>2, <3>3, <3>4, <1>3 DEF InStep, Expected, IInv
  <2> QED
    BY <2>1, <2>2
<1> QED
  BY <1>4, <1>5, <1>6 DEF IInv

LEMMA NextIInv == IInv /\ [Next]_vars => IInv'
<1> SUFFICES ASSUME IInv, [Next]_vars PROVE IInv'
  OBVIOUS
<1>1. ASSUME NEW fd \in Fd, BeginRead(fd) PROVE IInv'
  <2>1. PICK made, iovs :
           /\ made.op = "read" /\ made.fd = fd /\ "iovs" \notin DOMAIN made
           /\ call' = Under(made, iovs, offset[fd])
    BY <1>1 DEF BeginRead
  <2> QED
    BY <1>1, <2>1, Begins DEF BeginRead, table
<1>2. ASSUME NEW fd \in Fd, BeginPread(fd) PROVE IInv'
  <2>1. PICK made, iovs, at :
           /\ made.op = "pread" /\ made.fd = fd /\ "iovs" \notin DOMAIN made
           /\ call' = Under(made, iovs, at)
    BY <1>2 DEF BeginPread
  <2> QED
    BY <1>2, <2>1, Begins DEF BeginPread, table
<1>3. ASSUME NEW fd \in Fd, BeginWrite(fd) PROVE IInv'
  <2>1. PICK made, iovs :
           /\ made.op = "write" /\ made.fd = fd /\ "iovs" \notin DOMAIN made
           /\ call' = Under(made, iovs, WritesFrom(fd))
    BY <1>3 DEF BeginWrite
  <2> QED
    BY <1>3, <2>1, Begins DEF BeginWrite, table
<1>4. ASSUME NEW fd \in Fd, BeginPwrite(fd) PROVE IInv'
  <2>1. PICK made, iovs, at :
           /\ made.op = "pwrite" /\ made.fd = fd /\ "iovs" \notin DOMAIN made
           /\ call' = Under(made, iovs, at)
    BY <1>4 DEF BeginPwrite
  <2> QED
    BY <1>4, <2>1, Begins DEF BeginPwrite, table
<1>5. ASSUME NEW fd \in Fd, Seek(fd) PROVE IInv'
  <2>1. PICK whence \in Whence, n \in SeekTargets :
           /\ Made([op |-> "seek", fd |-> fd, whence |-> whence,
                    delta |-> n - Base(fd, whence)])
           /\ kernel' = [kernel EXCEPT ![fd] = n]
           /\ offset' = [offset EXCEPT ![fd] = n]
    BY <1>5 DEF Seek, KernelAt
  <2>2. ~Busy /\ ~Busy' /\ CallShape'
    BY <2>1, OneStep
  <2>3. listed' = listed \ {fd}
    BY <1>5 DEF Seek
  <2> QED
    BY <2>1, <2>2, <2>3 DEF IInv, Functions, InStep, Expected
<1>6. ASSUME NEW fd \in Fd, Readdir(fd) PROVE IInv'
  <2>1. ~Busy /\ ~Busy' /\ CallShape'
    BY <1>6, OneStep DEF Readdir
  <2>2. /\ kernel' = [kernel EXCEPT ![fd] = 0]
        /\ offset' = offset /\ listed' = listed \cup {fd}
    BY <1>6 DEF Readdir, KernelAt, table
  <2> QED
    BY <2>1, <2>2 DEF IInv, Functions, InStep, Expected
<1>7. ASSUME ~Busy, ~Busy', CallShape', UNCHANGED <<kernel, offset, listed>>
      PROVE  IInv'
  BY <1>7 DEF IInv, Functions, InStep, Expected
<1>8. ASSUME NEW fd \in Fd, SetFlags(fd) PROVE IInv'
  BY <1>7, <1>8, OneStep DEF SetFlags
<1>9. ASSUME NEW fd \in Fd, SetSize(fd) PROVE IInv'
  BY <1>7, <1>9, OneStep DEF SetSize, table
<1>10. ASSUME NEW fd \in Fd, Allocate(fd) PROVE IInv'
  BY <1>7, <1>10, OneStep DEF Allocate, table
<1>11. CASE OtherProcess
  BY <1>7, <1>11, OneStep DEF OtherProcess, table, NoCall
<1>12. CASE FillBuffer
  <2>1. PICK n, iovs : /\ call' = [call EXCEPT !.at = call.at + n, !.iovs = iovs]
                       /\ KernelMoves(n)
    BY <1>12 DEF FillBuffer
  <2> QED
    BY <1>12, <2>1, Buffers DEF FillBuffer, table
<1>13. CASE StoreBuffer
  <2>1. PICK n :
           /\ KernelMoves(n)
           /\ call' = [call EXCEPT
                !.at = IF call.op = "write" /\ call.fd \in append
                       THEN kernel'[call.fd] ELSE call.at + n,
                !.iovs = IF n < Len(Head(call.iovs)) THEN <<>> ELSE Tail(call.iovs)]
    BY <1>13 DEF StoreBuffer
  <2>2. CASE call.op = "write" /\ call.fd \in append
    BY <1>13, <2>1, <2>2, Buffers DEF StoreBuffer, table, Sequential
  <2>3. CASE ~(call.op = "write" /\ call.fd \in append)
    BY <1>13, <2>1, <2>3, Buffers DEF StoreBuffer, table
  <2> QED
    BY <2>2, <2>3
<1>14. CASE Return
  <2>1. /\ Busy /\ call' = call.made /\ UNCHANGED <<kernel, listed>>
        /\ offset' = IF Sequential THEN [offset EXCEPT ![call.fd] = call.at] ELSE offset
    BY <1>14 DEF Return
  <2>2. ~Busy' /\ CallShape'
    BY <2>1 DEF IInv, CallShape, Busy
  <2> QED
    BY <2>1, <2>2 DEF IInv, Functions, InStep, Expected, CallShape
<1>15. CASE UNCHANGED vars
  BY <1>15 DEF vars, table, IInv, Functions, CallShape, InStep, Expected, Busy, Sequential
<1> QED
  BY <1>1, <1>2, <1>3, <1>4, <1>5, <1>6, <1>8, <1>9, <1>10, <1>11, <1>12, <1>13,
     <1>14, <1>15 DEF Next

(* Between two calls the two positions of every descriptor agree, except   *)
(* where fd_readdir was last tried: the seek at the start of fd_read and   *)
(* fd_write and the copy of the entry that every return puts back keep     *)
(* them together through short, failing and appending buffers.             *)
THEOREM PositionsHold == Spec => []PositionsInStep
<1>1. IInv => PositionsInStep
  BY DEF IInv, InStep, Expected, PositionsInStep
<1> QED
  BY <1>1, InitIInv, NextIInv, PTL DEF Spec

-----------------------------------------------------------------------------
(* Bytes: what a slice is, and what becomes of two slices or two writes    *)
(* that follow one another.                                                *)
Stored == Byte \cup {Zero}

Content == Seq(Stored)

Elements(t, c, at) == \A i \in 1..Len(t) : t[i] = c[at + i]

LEMMA SliceFacts ==
    ASSUME NEW c \in Content, NEW at \in Nat, NEW n \in Nat
    PROVE  /\ Slice(c, at, n) \in Content
           /\ Len(Slice(c, at, n)) \in 0..n
           /\ at + Len(Slice(c, at, n)) <= Larger(at, Len(c))
           /\ at + n <= Len(c) \/ n = 0 => Len(Slice(c, at, n)) = n
           /\ Len(Slice(c, at, n)) = n => at + n <= Len(c) \/ n = 0
           /\ Len(Slice(c, at, n)) < n =>
                 Len(Slice(c, at, n)) = IF at <= Len(c) THEN Len(c) - at ELSE 0
           /\ Elements(Slice(c, at, n), c, at)
<1>1. PICK l \in Nat : l = Len(c)
  BY LenProperties DEF Content
<1> DEFINE m == Smaller(at + n, l)
           t == SubSeq(c, at + 1, m)
<1>2. m \in Nat /\ (at + n < l => m = at + n) /\ (~(at + n < l) => m = l)
  BY <1>1 DEF Smaller
<1>3. Slice(c, at, n) = t
  BY <1>1 DEF Slice
<1> HIDE DEF m
<1>4. /\ t \in Content
      /\ Len(t) = IF at + 1 <= m THEN m - (at + 1) + 1 ELSE 0
      /\ \A i \in 1..(m - (at + 1) + 1) : t[i] = c[at + 1 + i - 1]
  <2>1. m <= l
    BY <1>1, <1>2
  <2>2. \A i \in at + 1 .. m : i \in 1..l
    BY <1>2, <2>1
  <2>3. at + 1 \in Int /\ m \in Int
    BY <1>2
  <2> QED
    BY <1>1, <2>1, <2>2, <2>3, SubSeqProperties DEF Content
<1> HIDE DEF t
<1>5. PICK k \in Nat : k = Len(t) /\ k = IF at + 1 <= m THEN m - at ELSE 0
  BY <1>2, <1>4
<1>6. \A i \in 1..k : t[i] = c[at + i]
  <2> SUFFICES ASSUME NEW i \in 1..k PROVE t[i] = c[at + i]
    OBVIOUS
  <2>1. i \in 1..(m - (at + 1) + 1) /\ at + 1 + i - 1 = at + i
    BY <1>2, <1>5
  <2> QED
    BY <1>4, <2>1
<1>7. k \in 0..n /\ at + k <= Larger(at, l)
  BY <1>1, <1>2, <1>5 DEF Larger
<1>8. /\ at + n <= l \/ n = 0 => k = n
      /\ k = n => at + n <= l \/ n = 0
      /\ k < n => k = IF at <= l THEN l - at ELSE 0
  BY <1>1, <1>2, <1>5
<1>9. Elements(t, c, at)
  BY <1>5, <1>6 DEF Elements
<1> QED
  BY <1>1, <1>3, <1>4, <1>5, <1>7, <1>8, <1>9

LEMMA SlicesFollow ==
    ASSUME NEW c \in Content, NEW at \in Nat, NEW n \in Nat, NEW m \in Nat,
           Len(Slice(c, at, n)) = n, Len(Slice(c, at + n, m)) = m
    PROVE  /\ Slice(c, at, n) \o Slice(c, at + n, m) = Slice(c, at, n + m)
           /\ Len(Slice(c, at, n + m)) = n + m
<1> DEFINE s == Slice(c, at, n)
           t == Slice(c, at + n, m)
           u == Slice(c, at, n + m)
<1>1. PICK l \in Nat : l = Len(c)
  BY LenProperties DEF Content
<1>2. at + n \in Nat /\ n + m \in Nat
  OBVIOUS
<1>3. /\ s \in Content /\ Len(s) = n /\ \A i \in 1..n : s[i] = c[at + i]
      /\ at + n <= l \/ n = 0
  <2>1. s \in Content /\ Elements(s, c, at)
    BY SliceFacts
  <2>2. Len(s) = n => at + n <= Len(c) \/ n = 0
    BY SliceFacts
  <2> HIDE DEF s
  <2>3. Len(s) = n
    BY DEF s
  <2> QED
    BY <1>1, <2>1, <2>2, <2>3 DEF Elements
<1>4. /\ t \in Content /\ Len(t) = m /\ \A i \in 1..m : t[i] = c[at + n + i]
      /\ at + n + m <= l \/ m = 0
  <2>1. t \in Content /\ Elements(t, c, at + n)
    BY <1>2, SliceFacts
  <2>2. Len(t) = m => at + n + m <= Len(c) \/ m = 0
    BY <1>2, SliceFacts
  <2> HIDE DEF t
  <2>3. Len(t) = m
    BY DEF t
  <2> QED
    BY <1>1, <2>1, <2>2, <2>3 DEF Elements
<1>5. at + (n + m) <= l \/ n + m = 0
  BY <1>1, <1>3, <1>4
<1>6. u \in Content /\ Len(u) = n + m /\ \A i \in 1..(n + m) : u[i] = c[at + i]
  <2>1. u \in Content /\ Elements(u, c, at)
    BY <1>2, SliceFacts
  <2>2. at + (n + m) <= Len(c) \/ n + m = 0 => Len(u) = n + m
    BY <1>2, SliceFacts
  <2> HIDE DEF u
  <2> QED
    BY <1>1, <1>5, <2>1, <2>2 DEF Elements
<1> HIDE DEF s, t, u
<1>7. /\ s \o t \in Content /\ Len(s \o t) = n + m
      /\ \A i \in 1..(n + m) : (s \o t)[i] = IF i <= n THEN s[i] ELSE t[i - n]
  <2>1. s \in Seq(Stored) /\ t \in Seq(Stored)
    BY <1>3, <1>4 DEF Content
  <2>2. /\ s \o t \in Seq(Stored) /\ Len(s \o t) = Len(s) + Len(t)
        /\ \A i \in 1..(Len(s) + Len(t)) :
              (s \o t)[i] = IF i <= Len(s) THEN s[i] ELSE t[i - Len(s)]
    BY <2>1, ConcatProperties
  <2>3. Len(s) = n /\ Len(t) = m
    BY <1>3, <1>4
  <2> QED
    BY <2>2, <2>3 DEF Content
<1>8. \A i \in 1..(n + m) : (s \o t)[i] = u[i]
  <2> SUFFICES ASSUME NEW i \in 1..(n + m) PROVE (s \o t)[i] = u[i]
    OBVIOUS
  <2>1. CASE i <= n
    <3>1. i \in 1..n
      BY <2>1
    <3> QED
      BY <1>3, <1>6, <1>7, <2>1, <3>1
  <2>2. CASE ~(i <= n)
    <3>1. i - n \in 1..m /\ at + n + (i - n) = at + i
      BY <2>2
    <3>2. t[i - n] = c[at + i]
      BY <1>4, <3>1
    <3> QED
      BY <1>6, <1>7, <2>2, <3>2
  <2> QED
    BY <2>1, <2>2
<1>9. s \o t = u
  BY <1>6, <1>7, <1>8, SeqEqual DEF Content
<1> QED
  BY <1>6, <1>9 DEF s, t, u

LEMMA ResizedFacts ==
    ASSUME NEW c \in Content, NEW n \in Nat
    PROVE  Resized(c, n) \in Content /\ Len(Resized(c, n)) = n
<1>1. PICK l \in Nat : l = Len(c)
  BY LenProperties DEF Content
<1>2. \A i \in 1..n : i <= l => c[i] \in Stored
  BY <1>1, ElementOfSeq DEF Content
<1>3. Resized(c, n) = [i \in 1..n |-> IF i <= l THEN c[i] ELSE Zero]
  BY <1>1 DEF Resized
<1>4. Zero \in Stored
  BY DEF Stored
<1>5. Resized(c, n) \in [1..n -> Stored]
  BY <1>2, <1>3, <1>4
<1> QED
  BY <1>5 DEF Content

LEMMA OverwriteFacts ==
    ASSUME NEW c \in Content, NEW at \in Nat, NEW d \in Content
    PROVE  /\ Overwrite(c, at, d) \in Content
           /\ Len(Overwrite(c, at, d)) =
                 IF d = <<>> THEN Len(c) ELSE Larger(Len(c), at + Len(d))
           /\ \A i \in 1..Len(Overwrite(c, at, d)) :
                 Overwrite(c, at, d)[i] = IF i \in at + 1 .. at + Len(d) THEN d[i - at]
                                          ELSE IF i <= Len(c) THEN c[i] ELSE Zero
<1>1. PICK l \in Nat : l = Len(c)
  BY LenProperties DEF Content
<1>2. PICK k \in Nat : k = Len(d)
  BY LenProperties DEF Content
<1>3. CASE d = <<>>
  <2>1. Overwrite(c, at, d) = c /\ k = 0
    BY <1>2, <1>3, EmptySeq DEF Overwrite
  <2>2. at + 1 .. at + k = {}
    BY <2>1
  <2> QED
    BY <1>1, <1>2, <1>3, <2>1, <2>2
<1>4. CASE d # <<>>
  <2> DEFINE m == Larger(l, at + k)
             el(i) == IF i \in at + 1 .. at + k THEN d[i - at]
                      ELSE IF i <= l THEN c[i] ELSE Zero
             w == [i \in 1..m |-> el(i)]
  <2>1. Overwrite(c, at, d) = w
    BY <1>1, <1>2, <1>4 DEF Overwrite
  <2>2. m \in Nat
    BY <1>1, <1>2 DEF Larger
  <2>3. ASSUME NEW i \in 1..m PROVE el(i) \in Stored
    <3>1. CASE i \in at + 1 .. at + k
      <4>1. i - at \in 1..k
        BY <1>2, <3>1
      <4>2. d[i - at] \in Stored
        BY <1>2, <4>1, ElementOfSeq DEF Content
      <4> QED
        BY <3>1, <4>2
    <3>2. CASE i \notin at + 1 .. at + k
      <4>1. i <= l => c[i] \in Stored
        BY <1>1, <2>2, ElementOfSeq DEF Content
      <4> QED
        BY <3>2, <4>1 DEF Stored
    <3> QED
      BY <3>1, <3>2
  <2>4. w \in [1..m -> Stored]
    BY <2>3
  <2>5. w \in Content /\ Len(w) = m /\ \A i \in 1..m : w[i] = el(i)
    <3>1. \A i \in 1..m : w[i] = el(i)
      OBVIOUS
    <3> HIDE DEF w, m, el
    <3> QED
      BY <2>2, <2>4, <3>1 DEF Content
  <2> HIDE DEF w
  <2> QED
    BY <1>1, <1>2, <1>4, <2>1, <2>5
<1> QED
  BY <1>3, <1>4

LEMMA OverwriteTyped ==
    ASSUME NEW c \in Content, NEW at \in Nat, NEW d \in Content
    PROVE  /\ Overwrite(c, at, d) \in Content
           /\ Len(Overwrite(c, at, d)) =
                 IF d = <<>> THEN Len(c) ELSE Larger(Len(c), at + Len(d))
BY OverwriteFacts

-----------------------------------------------------------------------------
(* Vectors: what they ask for or hold is that of the first buffer and that *)
(* of the others.                                                          *)
UpTo(s) == CHOOSE g : g = [i \in 0 .. Len(s) |-> IF i = 0 THEN 0 ELSE g[i - 1] + s[i]]

LEMMA UpToFacts ==
    ASSUME NEW s \in Seq(Nat)
    PROVE  /\ Sum(s) = UpTo(s)[Len(s)]
           /\ UpTo(s) \in [0..Len(s) -> Nat]
           /\ UpTo(s)[0] = 0
           /\ \A i \in 1..Len(s) : UpTo(s)[i] = UpTo(s)[i - 1] + s[i]
<1> DEFINE n == Len(s)
           step == [x \in Nat \X (1..n) |-> x[1] + s[x[2]]]
           rec(g) == [i \in 0..n |-> IF i = 0 THEN 0 ELSE g[i - 1] + s[i]]
           chosen == CHOOSE g : g = rec(g)
<1>1. n \in Nat /\ \A i \in 1..n : s[i] \in Nat
  BY LenProperties, ElementOfSeq
<1>2. step \in [Nat \X (1..n) -> Nat]
  <2>1. ASSUME NEW x \in Nat \X (1..n) PROVE x[1] + s[x[2]] \in Nat
    <3>1. x[1] \in Nat /\ s[x[2]] \in Nat
      BY <1>1
    <3> QED
      BY <3>1
  <2> QED
    BY <2>1
<1>3. \E g \in [0..n -> Nat] : Recurs(g, n, 0, step)
  <2> HIDE DEF n, step
  <2> QED
    BY <1>1, <1>2, Recursion
<1>4. PICK g \in [0..n -> Nat] :
         g[0] = 0 /\ \A i \in 1..n : g[i] = step[<<g[i - 1], i>>]
  BY <1>3 DEF Recurs
<1>5. \A i \in 1..n : g[i] = g[i - 1] + s[i]
  <2> SUFFICES ASSUME NEW i \in 1..n PROVE g[i] = g[i - 1] + s[i]
    OBVIOUS
  <2>1. i - 1 \in 0..n
    <3> HIDE DEF n
    <3> QED
      BY <1>1
  <2>2. g[i - 1] \in Nat
    BY <1>4, <2>1
  <2>3. <<g[i - 1], i>> \in Nat \X (1..n)
    BY <2>2
  <2> QED
    BY <1>4, <2>3
<1>6. g = rec(g)
  <2>1. \A i \in 0..n : g[i] = rec(g)[i]
    <3> SUFFICES ASSUME NEW i \in 0..n PROVE g[i] = rec(g)[i]
      OBVIOUS
    <3>1. CASE i = 0
      BY <1>4, <3>1
    <3>2. CASE i # 0
      <4>1. i \in 1..n
        BY <1>1, <3>2
      <4> QED
        BY <1>5, <3>2, <4>1
    <3> QED
      BY <3>1, <3>2
  <2> QED
    BY <1>4, <2>1
<1>7. chosen = rec(chosen)
  BY <1>6
<1>8. UpTo(s) = chosen /\ Sum(s) = chosen[n]
  BY DEF UpTo, Sum
<1> DEFINE T == { i \in 0..n : chosen[i] \in Nat }
<1>9. chosen[0] = 0
  <2>1. 0 \in 0..n
    BY <1>1
  <2> QED
    BY <1>7, <2>1
<1>10. ASSUME NEW i \in 1..n PROVE chosen[i] = chosen[i - 1] + s[i]
  <2>1. i \in 0..n /\ i # 0
    BY <1>1
  <2> QED
    BY <1>7, <2>1
<1>11. chosen = [i \in 0..n |-> chosen[i]]
  BY <1>7
<1> HIDE DEF chosen, n
<1>12. 0..n \subseteq T
  <2>1. 0 \in T
    BY <1>1, <1>9
  <2>2. ASSUME NEW i \in 1..n, i - 1 \in T PROVE i \in T
    <3>1. chosen[i - 1] + s[i] \in Nat /\ i \in 0..n
      BY <1>1, <2>2, SMTT(30)
    <3> QED
      BY <1>10, <3>1
  <2> HIDE DEF T
  <2> QED
    BY <1>1, <2>1, <2>2, UpToInduction
<1>13. chosen \in [0..n -> Nat]
  BY <1>11, <1>12
<1> QED
  BY <1>8, <1>9, <1>10, <1>13 DEF n

LEMMA SumFacts ==
    ASSUME NEW s \in Seq(Nat)
    PROVE  /\ Sum(s) \in Nat
           /\ s # <<>> => Sum(s) = Head(s) + Sum(Tail(s))
<1>1. Sum(s) \in Nat
  <2>1. Len(s) \in 0..Len(s)
    BY LenProperties
  <2> QED
    BY <2>1, UpToFacts
<1>2. ASSUME s # <<>> PROVE Sum(s) = Head(s) + Sum(Tail(s))
  <2> DEFINE t == Tail(s)
  <2>1. PICK n \in Nat : n = Len(s)
    BY LenProperties
  <2>2. n # 0
    BY <1>2, <2>1, EmptySeq
  <2>3. /\ t \in Seq(Nat) /\ Len(t) = n - 1
        /\ \A i \in 1..(n - 1) : t[i] = s[i + 1]
    BY <1>2, <2>1, HeadTailProperties
  <2> HIDE DEF t
  <2>4. n - 1 \in Nat /\ 1 \in 1..n
    BY <2>1, <2>2
  <2>5. \A i \in 1..n : s[i] \in Nat
    BY <2>1, ElementOfSeq
  <2>6. Head(s) = s[1]
    BY <2>1, <2>2
  <2>7. /\ UpTo(s) \in [0..n -> Nat] /\ UpTo(s)[0] = 0 /\ Sum(s) = UpTo(s)[n]
        /\ \A i \in 1..n : UpTo(s)[i] = UpTo(s)[i - 1] + s[i]
    BY <2>1, UpToFacts
  <2>8. /\ UpTo(t) \in [0..(n - 1) -> Nat] /\ UpTo(t)[0] = 0 /\ Sum(t) = UpTo(t)[n - 1]
        /\ \A i \in 1..(n - 1) : UpTo(t)[i] = UpTo(t)[i - 1] + t[i]
    BY <2>3, UpToFacts
  <2> DEFINE T == { i \in 0..(n - 1) : UpTo(s)[i + 1] = s[1] + UpTo(t)[i] }
  <2>9. 0 \in T
    <3>1. UpTo(s)[1] = UpTo(s)[1 - 1] + s[1] /\ s[1] \in Nat
      BY <2>4, <2>5, <2>7
    <3> QED
      BY <2>4, <2>7, <2>8, <3>1
  <2>10. ASSUME NEW i \in 1..(n - 1), i - 1 \in T PROVE i \in T
    <3>1. UpTo(s)[i] = s[1] + UpTo(t)[i - 1]
      BY <2>10
    <3>2. i + 1 \in 1..n /\ (i + 1) - 1 = i /\ i - 1 \in 0..(n - 1) /\ i \in 0..(n - 1)
      BY <2>4
    <3>3. UpTo(s)[i + 1] = UpTo(s)[i] + s[i + 1]
      BY <2>7, <3>2
    <3>4. UpTo(t)[i] = UpTo(t)[i - 1] + s[i + 1]
      BY <2>3, <2>8
    <3>5. s[1] \in Nat /\ s[i + 1] \in Nat /\ UpTo(t)[i - 1] \in Nat
      BY <2>4, <2>5, <2>8, <3>2
    <3> QED
      BY <3>1, <3>2, <3>3, <3>4, <3>5
  <2> HIDE DEF T
  <2>11. n - 1 \in T
    <3>1. 0..(n - 1) \subseteq T
      BY <2>4, <2>9, <2>10, UpToInduction
    <3> QED
      BY <2>4, <3>1
  <2>12. UpTo(s)[(n - 1) + 1] = s[1] + UpTo(t)[n - 1]
    BY <2>11 DEF T
  <2>13. (n - 1) + 1 = n
    OBVIOUS
  <2> QED
    BY <2>6, <2>7, <2>8, <2>12, <2>13 DEF t
<1> QED
  BY <1>1, <1>2

Buffer == Seq(Byte)

Flat(s) == CHOOSE g : g = [i \in 1 .. Len(s) |-> IF i = 1 THEN s[i] ELSE g[i - 1] \o s[i]]

LEMMA FlatFacts ==
    ASSUME NEW s \in Seq(Buffer)
    PROVE  /\ FlattenSeq(s) = IF Len(s) = 0 THEN s ELSE Flat(s)[Len(s)]
           /\ Flat(s) \in [1..Len(s) -> Buffer]
           /\ \A i \in 1..Len(s) :
                 Flat(s)[i] = IF i = 1 THEN s[i] ELSE Flat(s)[i - 1] \o s[i]
<1> DEFINE n == Len(s)
           step == [x \in Buffer \X (1..n) |-> x[1] \o s[x[2]]]
           rec(g) == [i \in 1..n |-> IF i = 1 THEN s[i] ELSE g[i - 1] \o s[i]]
           chosen == CHOOSE g : g = rec(g)
<1>1. n \in Nat /\ \A i \in 1..n : s[i] \in Buffer
  BY LenProperties, ElementOfSeq
<1>2. step \in [Buffer \X (1..n) -> Buffer]
  <2>1. ASSUME NEW x \in Buffer \X (1..n) PROVE x[1] \o s[x[2]] \in Buffer
    <3>1. x[1] \in Buffer /\ s[x[2]] \in Buffer
      BY <1>1
    <3> QED
      BY <3>1, ConcatProperties DEF Buffer
  <2> QED
    BY <2>1
<1>3. <<>> \in Buffer
  BY DEF Buffer
<1>4. \E g \in [0..n -> Buffer] : Recurs(g, n, <<>>, step)
  <2> HIDE DEF n, step
  <2> QED
    BY <1>1, <1>2, <1>3, Recursion
<1>5. PICK h \in [0..n -> Buffer] :
         h[0] = <<>> /\ \A i \in 1..n : h[i] = step[<<h[i - 1], i>>]
  BY <1>4 DEF Recurs
<1>6. \A i \in 1..n : i \in 0..n /\ i - 1 \in 0..n /\ (i # 1 => i - 1 \in 1..n)
  <2> HIDE DEF n
  <2> QED
    BY <1>1
<1>7. \A i \in 1..n : h[i] = h[i - 1] \o s[i]
  <2> SUFFICES ASSUME NEW i \in 1..n PROVE h[i] = h[i - 1] \o s[i]
    OBVIOUS
  <2>1. h[i - 1] \in Buffer
    BY <1>5, <1>6
  <2>2. <<h[i - 1], i>> \in Buffer \X (1..n)
    BY <2>1
  <2> QED
    BY <1>5, <2>2
<1> DEFINE g == [i \in 1..n |-> h[i]]
<1>8. g = rec(g)
  <2>1. \A i \in 1..n : g[i] = rec(g)[i]
    <3> SUFFICES ASSUME NEW i \in 1..n PROVE g[i] = rec(g)[i]
      OBVIOUS
    <3>1. CASE i = 1
      <4>1. h[i] = <<>> \o s[i] /\ s[i] \in Buffer
        BY <1>1, <1>5, <1>7, <3>1
      <4>2. h[i] = s[i]
        BY <4>1, ConcatEmptySeq DEF Buffer
      <4> QED
        BY <3>1, <4>2
    <3>2. CASE i # 1
      <4>1. g[i - 1] = h[i - 1]
        BY <1>6, <3>2
      <4> QED
        BY <1>7, <3>2, <4>1
    <3> QED
      BY <3>1, <3>2
  <2> QED
    BY <2>1
<1>9. chosen = rec(chosen)
  BY <1>8
<1>10. Flat(s) = chosen /\ FlattenSeq(s) = IF n = 0 THEN s ELSE chosen[n]
  BY DEF Flat, FlattenSeq
<1> DEFINE T == { i \in 0..n : i # 0 => chosen[i] \in Buffer }
<1>11. ASSUME NEW i \in 1..n
       PROVE  chosen[i] = IF i = 1 THEN s[i] ELSE chosen[i - 1] \o s[i]
  BY <1>9
<1>12. chosen = [i \in 1..n |-> chosen[i]]
  BY <1>9, ZenonT(60)
<1> HIDE DEF chosen, n
<1>13. 0..n \subseteq T
  <2>1. 0 \in T
    BY <1>1
  <2>2. ASSUME NEW i \in 1..n, i - 1 \in T PROVE i \in T
    <3>1. CASE i = 1
      BY <1>1, <1>6, <1>11, <3>1
    <3>2. CASE i # 1
      <4>1. i - 1 # 0 /\ chosen[i - 1] \in Buffer
        BY <1>6, <2>2, <3>2
      <4>2. chosen[i - 1] \o s[i] \in Buffer
        BY <1>1, <4>1, ConcatProperties DEF Buffer
      <4> QED
        BY <1>6, <1>11, <3>2, <4>2
    <3> QED
      BY <3>1, <3>2
  <2> HIDE DEF T
  <2> QED
    BY <1>1, <2>1, <2>2, UpToInduction
<1>14. \A i \in 1..n : chosen[i] \in Buffer
  <2>1. \A i \in 1..n : i \in 0..n /\ i # 0
    BY <1>1
  <2> QED
    BY <1>13, <2>1
<1>15. chosen \in [1..n -> Buffer]
  BY <1>12, <1>14
<1> QED
  BY <1>10, <1>11, <1>15 DEF n

LEMMA BuffersAssociate ==
    ASSUME NEW x \in Buffer, NEW y \in Buffer, NEW z \in Buffer
    PROVE  (x \o y) \o z = x \o (y \o z)
BY ConcatAssociative DEF Buffer

LEMMA FlattenFacts ==
    ASSUME NEW s \in Seq(Buffer)
    PROVE  /\ FlattenSeq(s) \in Buffer
           /\ s = <<>> => FlattenSeq(s) = <<>>
           /\ s # <<>> => FlattenSeq(s) = Head(s) \o FlattenSeq(Tail(s))
<1>1. PICK n \in Nat : n = Len(s)
  BY LenProperties
<1>2. \A i \in 1..n : s[i] \in Buffer
  BY <1>1, ElementOfSeq
<1>3. /\ FlattenSeq(s) = IF n = 0 THEN s ELSE Flat(s)[n]
      /\ Flat(s) \in [1..n -> Buffer]
      /\ \A i \in 1..n : Flat(s)[i] = IF i = 1 THEN s[i] ELSE Flat(s)[i - 1] \o s[i]
  BY <1>1, FlatFacts
<1>4. CASE s = <<>>
  <2>1. n = 0 /\ <<>> \in Buffer
    BY <1>1, <1>4, EmptySeq DEF Buffer
  <2> QED
    BY <1>3, <1>4, <2>1
<1>5. CASE s # <<>>
  <2> DEFINE t == Tail(s)
  <2>1. n # 0 /\ n - 1 \in Nat /\ 1 \in 1..n /\ n \in 1..n
    <3>1. n # 0
      BY <1>1, <1>5, EmptySeq
    <3> QED
      BY <3>1
  <2>2. /\ t \in Seq(Buffer) /\ Len(t) = n - 1
        /\ \A i \in 1..(n - 1) : t[i] = s[i + 1]
    BY <1>1, <1>5, HeadTailProperties
  <2> HIDE DEF t
  <2>3. Head(s) = s[1] /\ s[1] \in Buffer
    BY <1>1, <1>2, <2>1
  <2>4. /\ FlattenSeq(t) = IF n - 1 = 0 THEN t ELSE Flat(t)[n - 1]
        /\ Flat(t) \in [1..(n - 1) -> Buffer]
        /\ \A i \in 1..(n - 1) : Flat(t)[i] = IF i = 1 THEN t[i] ELSE Flat(t)[i - 1] \o t[i]
    BY <2>2, FlatFacts
  <2>5. FlattenSeq(s) = Flat(s)[n] /\ Flat(s)[n] \in Buffer
    BY <1>3, <2>1
  <2>6. CASE n = 1
    <3>1. t = <<>> /\ FlattenSeq(t) = t
      BY <2>2, <2>4, <2>6, EmptySeq
    <3>2. FlattenSeq(s) = s[1]
      BY <1>3, <2>1, <2>6
    <3>3. s[1] \o <<>> = s[1]
      BY <2>3, ConcatEmptySeq DEF Buffer
    <3> QED
      BY <1>5, <2>3, <2>5, <3>1, <3>2, <3>3 DEF t
  <2>7. CASE n # 1
    <3> DEFINE T == { i \in 0..(n - 2) : Flat(s)[i + 2] = s[1] \o Flat(t)[i + 1] }
    <3>1. n - 2 \in Nat
      BY <2>1, <2>7
    <3>2. 0 \in T
      <4>1. 2 \in 1..n /\ 1 \in 1..(n - 1) /\ 0 \in 0..(n - 2) /\ 2 - 1 = 1
        BY <3>1
      <4>2. Flat(s)[2] = IF 2 = 1 THEN s[2] ELSE Flat(s)[2 - 1] \o s[2]
        BY <1>3, <4>1
      <4>3. Flat(s)[2] = Flat(s)[1] \o s[2]
        BY <4>1, <4>2
      <4>4. Flat(s)[1] = s[1]
        BY <1>3, <2>1
      <4>5. Flat(t)[1] = t[1] /\ t[1] = s[1 + 1]
        BY <2>2, <2>4, <4>1
      <4>6. 1 + 1 = 2 /\ 0 + 2 = 2 /\ 0 + 1 = 1
        OBVIOUS
      <4>7. Flat(s)[0 + 2] = s[1] \o Flat(t)[0 + 1]
        BY <4>3, <4>4, <4>5, <4>6, Zenon
      <4> QED
        BY <4>1, <4>7
    <3>3. ASSUME NEW i \in 1..(n - 2), i - 1 \in T PROVE i \in T
      <4>1. /\ i + 2 \in 1..n /\ i + 1 \in 1..(n - 1) /\ i \in 1..(n - 1) /\ i \in 0..(n - 2)
            /\ (i + 2) - 1 = i + 1 /\ (i + 1) - 1 = i /\ (i - 1) + 2 = i + 1
            /\ (i - 1) + 1 = i /\ (i + 1) + 1 = i + 2 /\ i + 2 # 1 /\ i + 1 # 1
        BY <3>1
      <4>2. Flat(s)[i + 1] = s[1] \o Flat(t)[i]
        BY <3>3, <4>1
      <4>3. Flat(s)[i + 2] = Flat(s)[i + 1] \o s[i + 2]
        BY <1>3, <4>1
      <4>4. Flat(t)[i + 1] = Flat(t)[i] \o t[i + 1] /\ t[i + 1] = s[i + 2]
        BY <2>2, <2>4, <4>1
      <4>5. Flat(t)[i] \in Buffer /\ s[i + 2] \in Buffer
        BY <1>2, <2>4, <4>1
      <4>6. (s[1] \o Flat(t)[i]) \o s[i + 2] = s[1] \o (Flat(t)[i] \o s[i + 2])
        BY <2>3, <4>5, BuffersAssociate
      <4> QED
        BY <4>1, <4>2, <4>3, <4>4, <4>6
    <3> HIDE DEF T
    <3>4. n - 2 \in T
      <4>1. 0..(n - 2) \subseteq T
        BY <3>1, <3>2, <3>3, UpToInduction
      <4> QED
        BY <3>1, <4>1
    <3>5. Flat(s)[(n - 2) + 2] = s[1] \o Flat(t)[(n - 2) + 1]
      BY <3>4 DEF T
    <3>6. (n - 2) + 2 = n /\ (n - 2) + 1 = n - 1 /\ n - 1 # 0
      BY <2>7
    <3>7. FlattenSeq(s) = s[1] \o FlattenSeq(t)
      BY <2>4, <2>5, <3>5, <3>6
    <3> QED
      BY <1>5, <2>3, <2>5, <3>7 DEF t
  <2> QED
    BY <2>6, <2>7
<1> QED
  BY <1>4, <1>5

-----------------------------------------------------------------------------
(* Types.  What a call under way was asked, and the buffers it has left.   *)
OfRead(c)  == c.op \in {"read", "pread"} /\ c.iovs \in Seq(Nat) /\ c.made.want \in Nat
OfWrite(c) == c.op \in {"write", "pwrite"} /\ c.iovs \in Seq(Buffer) /\ c.made.data \in Buffer

TypedCall(c) ==
    /\ OfRead(c) \/ OfWrite(c)
    /\ c.fd \in Fd /\ c.at \in 0 .. MaxSize
    /\ c.made.op = c.op /\ c.made.fd = c.fd
    /\ c.op \in {"pread", "pwrite"} => c.made.at \in 0 .. MaxSize
    /\ c.before \in Content

CallTyped == Busy => TypedCall(call)

TInv == IInv /\ FileTypeOK /\ CallTyped

LEMMA BuffersAreContent == Buffer \subseteq Content
BY SeqMonotonic DEF Buffer, Content, Stored

LEMMA BytesFacts ==
    ASSUME FileTypeOK, NEW fd \in Fd
    PROVE  Bytes(fd) \in Content /\ Len(Bytes(fd)) \in 0 .. MaxSize
<1>1. file \in Content /\ Len(file) \in 0 .. MaxSize
  <2>1. file \in Content /\ Len(file) <= MaxSize
    BY DEF FileTypeOK, Content, Stored
  <2> QED
    BY <2>1, FileAssumption, LenProperties DEF Content
<1>2. Embedded \in Content /\ Len(Embedded) \in 0 .. MaxSize
  BY FileAssumption, BuffersAreContent, LenProperties DEF Buffer
<1> QED
  BY <1>1, <1>2 DEF Bytes

(* The next buffer goes where the copy of the offset is, in every call.    *)
LEMMA FromFacts ==
    ASSUME IInv, CallTyped, Busy
    PROVE  From = call.at
BY DEF IInv, CallShape, InStep, Expected, CallTyped, TypedCall, From, Sequential

LEMMA KernelTyped ==
    ASSUME TInv, Busy, NEW n \in Nat, KernelMoves(n), call.at + n <= MaxSize
    PROVE  /\ kernel' \in [Fd -> 0 .. MaxSize]
           /\ call.at + n \in 0 .. MaxSize
           /\ Sequential => kernel'[call.fd] = call.at + n
<1>1. /\ call.at \in 0 .. MaxSize /\ call.fd \in Fd
      /\ kernel \in [Fd -> 0 .. MaxSize]
  BY DEF TInv, CallTyped, TypedCall, FileTypeOK
<1>2. call.at + n \in 0 .. MaxSize
  BY <1>1, FileAssumption
<1>3. CASE Sequential
  <2>1. kernel[call.fd] = call.at
    BY <1>3, FromFacts DEF From, TInv
  <2>2. kernel' = [kernel EXCEPT ![call.fd] = call.at + n]
    BY <1>3, <2>1 DEF KernelMoves
  <2> QED
    BY <1>1, <1>2, <2>2
<1>4. CASE ~Sequential
  BY <1>1, <1>2, <1>4 DEF KernelMoves
<1> QED
  BY <1>3, <1>4

(* What a step with one buffer makes of the call.                          *)
Onward(n, iovs) ==
    call' = [op |-> call.op, fd |-> call.fd, iovs |-> iovs,
             at |-> call.at + n, made |-> call.made, before |-> call.before]

(* All of the first buffer is filled or stored and the others are left, or *)
(* the call moves nothing more.                                            *)
Left(n, size, iovs) ==
    \/ n \in 0 .. size /\ iovs = <<>>
    \/ n = size /\ iovs = Tail(call.iovs)

LEMMA FillFacts ==
    ASSUME TInv, FillBuffer
    PROVE  /\ OfRead(call) /\ Head(call.iovs) \in Nat
           /\ \E n \in Nat, iovs \in Seq(Nat) :
                 /\ Left(n, Head(call.iovs), iovs)
                 /\ call.at + n <= MaxSize
                 /\ Len(Slice(Bytes(call.fd), call.at, n)) = n
                 /\ moved' = moved \o Slice(Bytes(call.fd), call.at, n)
                 /\ KernelMoves(n)
                 /\ Onward(n, iovs)
<1> DEFINE want == Head(call.iovs)
           c == Bytes(call.fd)
           there == Len(Slice(c, call.at, want))
<1>1. /\ Busy /\ call.op \in {"read", "pread"} /\ call.iovs # <<>>
      /\ TypedCall(call)
  BY DEF FillBuffer, TInv, CallTyped
<1>2. OfRead(call) /\ call.fd \in Fd /\ call.at \in Nat /\ call.at <= MaxSize
  BY <1>1 DEF TypedCall, OfWrite
<1>3. want \in Nat /\ Tail(call.iovs) \in Seq(Nat)
  BY <1>1, <1>2, HeadTailProperties DEF OfRead
<1>4. From = call.at
  BY <1>1, FromFacts DEF TInv
<1>5. c \in Content /\ Len(c) \in 0 .. MaxSize
  BY <1>2, BytesFacts DEF TInv
<1>6. PICK n \in 0 .. there, fails \in BOOLEAN :
         /\ n < there => fails \/ (Sequential /\ n > 0)
         /\ fails => want # 0
         /\ moved' = moved \o Slice(c, call.at, n)
         /\ KernelMoves(n)
         /\ call' = [call EXCEPT !.at = call.at + n,
                        !.iovs = IF fails \/ n < want THEN <<>> ELSE Tail(call.iovs)]
  BY <1>4 DEF FillBuffer
<1> DEFINE iovs == IF fails \/ n < want THEN <<>> ELSE Tail(call.iovs)
<1>7. /\ there \in 0 .. want
      /\ call.at + there <= Larger(call.at, Len(c))
      /\ there = want => call.at + want <= Len(c) \/ want = 0
      /\ there < want => there = IF call.at <= Len(c) THEN Len(c) - call.at ELSE 0
  <2> HIDE DEF c, want
  <2> QED
    BY <1>2, <1>3, <1>5, SliceFacts
<1> HIDE DEF there
<1>8. /\ n \in Nat /\ n <= want /\ n <= there
      /\ call.at + n <= MaxSize
      /\ call.at + n <= Len(c) \/ n = 0
  <2> HIDE DEF c, want
  <2>1. PICK l \in 0 .. MaxSize : l = Len(c)
    BY <1>5
  <2>2. n \in Nat /\ n <= there /\ there \in Nat /\ there <= want
    BY <1>3, <1>7
  <2>3. n <= want /\ MaxSize \in Nat
    BY <1>3, <2>2, FileAssumption
  <2>4. call.at + n <= l \/ n = 0
    BY <1>2, <1>3, <1>7, <2>1, <2>2
  <2>5. call.at + n <= MaxSize
    BY <1>2, <2>1, <2>2, <2>3, <2>4
  <2> QED
    BY <2>1, <2>2, <2>3, <2>4, <2>5
<1>9. Len(Slice(c, call.at, n)) = n
  <2> HIDE DEF c
  <2> QED
    BY <1>2, <1>5, <1>8, SliceFacts
<1>10. iovs \in Seq(Nat)
  BY <1>3
<1>11. Left(n, want, iovs)
  <2> HIDE DEF want
  <2>1. CASE fails \/ n < want
    BY <1>3, <1>8, <2>1 DEF Left
  <2>2. CASE ~(fails \/ n < want)
    BY <1>3, <1>8, <2>2 DEF Left
  <2> QED
    BY <2>1, <2>2
<1>12. Onward(n, iovs)
  <2>1. call = [op |-> call.op, fd |-> call.fd, iovs |-> call.iovs,
                at |-> call.at, made |-> call.made, before |-> call.before]
    BY <1>1 DEF TInv, IInv, CallShape
  <2>2. call' = [call EXCEPT !.at = call.at + n, !.iovs = iovs]
    BY <1>6
  <2> HIDE DEF iovs
  <2> QED
    BY <2>1, <2>2, Updated DEF Onward
<1> HIDE DEF iovs
<1> QED
  BY <1>2, <1>3, <1>6, <1>8, <1>9, <1>10, <1>11, <1>12

LEMMA StoreFacts ==
    ASSUME TInv, StoreBuffer
    PROVE  /\ OfWrite(call) /\ call.iovs # <<>> /\ Head(call.iovs) \in Buffer
           /\ \E n \in Nat, iovs \in Seq(Buffer) :
                 /\ Left(n, Len(Head(call.iovs)), iovs)
                 /\ n <= Len(Head(call.iovs))
                 /\ call.at + n <= MaxSize
                 /\ file' = Overwrite(file, call.at, SubSeq(Head(call.iovs), 1, n))
                 /\ moved' = moved \o SubSeq(Head(call.iovs), 1, n)
                 /\ KernelMoves(n)
                 /\ Onward(n, iovs)
<1> DEFINE data == Head(call.iovs)
<1>1. /\ Busy /\ call.op \in {"write", "pwrite"} /\ call.iovs # <<>>
      /\ TypedCall(call)
  BY DEF StoreBuffer, TInv, CallTyped
<1>2. OfWrite(call) /\ call.fd \in Fd /\ call.at \in Nat /\ call.at <= MaxSize
  BY <1>1 DEF TypedCall, OfRead
<1>3. data \in Buffer /\ Tail(call.iovs) \in Seq(Buffer)
  BY <1>1, <1>2, HeadTailProperties DEF OfWrite
<1>4. From = call.at
  BY <1>1, FromFacts DEF TInv
<1>5. PICK n \in 0 .. Len(data) :
         /\ call.at + n <= MaxSize
         /\ file' = Overwrite(file, call.at, SubSeq(data, 1, n))
         /\ moved' = moved \o SubSeq(data, 1, n)
         /\ KernelMoves(n)
         /\ call' = [call EXCEPT
               !.at = IF call.op = "write" /\ call.fd \in append
                      THEN kernel'[call.fd] ELSE call.at + n,
               !.iovs = IF n < Len(data) THEN <<>> ELSE Tail(call.iovs)]
  BY <1>4 DEF StoreBuffer
<1> DEFINE iovs == IF n < Len(data) THEN <<>> ELSE Tail(call.iovs)
<1>6. n \in Nat /\ Len(data) \in Nat /\ n <= Len(data)
  <2>1. Len(data) \in Nat
    BY <1>3, LenProperties DEF Buffer
  <2> HIDE DEF data
  <2> QED
    BY <2>1
<1>7. (IF call.op = "write" /\ call.fd \in append
       THEN kernel'[call.fd] ELSE call.at + n) = call.at + n
  BY <1>1, <1>5, <1>6, KernelTyped DEF Sequential
<1>8. iovs \in Seq(Buffer)
  BY <1>3
<1>9. Left(n, Len(data), iovs)
  <2> HIDE DEF data
  <2>1. CASE n < Len(data)
    BY <1>6, <2>1 DEF Left
  <2>2. CASE ~(n < Len(data))
    BY <1>6, <2>2 DEF Left
  <2> QED
    BY <2>1, <2>2
<1>10. Onward(n, iovs)
  <2>1. call = [op |-> call.op, fd |-> call.fd, iovs |-> call.iovs,
                at |-> call.at, made |-> call.made, before |-> call.before]
    BY <1>1 DEF TInv, IInv, CallShape
  <2>2. call' = [call EXCEPT !.at = call.at + n, !.iovs = iovs]
    BY <1>5, <1>7
  <2> HIDE DEF iovs
  <2> QED
    BY <2>1, <2>2, Updated DEF Onward
<1> HIDE DEF iovs
<1> QED
  BY <1>1, <1>2, <1>3, <1>5, <1>6, <1>8, <1>9, <1>10

(* A buffer keeps the types.                                               *)
LEMMA OnwardTyped ==
    ASSUME TInv, Busy, NEW n \in Nat, NEW iovs, KernelMoves(n),
           call.at + n <= MaxSize, Onward(n, iovs),
           OfRead(call) => iovs \in Seq(Nat),
           OfWrite(call) => iovs \in Seq(Buffer)
    PROVE  /\ Busy' /\ CallTyped'
           /\ kernel' \in [Fd -> 0 .. MaxSize]
           /\ call'.fd \in Fd /\ call'.at \in 0 .. MaxSize
<1>1. TypedCall(call)
  BY DEF TInv, CallTyped
<1>2. /\ call'.op = call.op /\ call'.fd = call.fd /\ call'.iovs = iovs
      /\ call'.at = call.at + n /\ call'.made = call.made /\ call'.before = call.before
      /\ Busy'
  BY DEF Onward, Busy
<1>3. kernel' \in [Fd -> 0 .. MaxSize] /\ call.at + n \in 0 .. MaxSize
  BY KernelTyped
<1>4. OfRead(call') \/ OfWrite(call')
  BY <1>1, <1>2 DEF TypedCall, OfRead, OfWrite
<1>5. TypedCall(call')
  BY <1>1, <1>2, <1>3, <1>4 DEF TypedCall
<1> QED
  BY <1>1, <1>2, <1>3, <1>5 DEF CallTyped, TypedCall

LEMMA PrefixFacts ==
    ASSUME NEW d \in Buffer, NEW n \in Nat, n <= Len(d)
    PROVE  SubSeq(d, 1, n) \in Buffer /\ Len(SubSeq(d, 1, n)) = n
<1>1. PICK l \in Nat : l = Len(d)
  BY LenProperties DEF Buffer
<1>2. \A i \in 1..n : d[i] \in Byte
  <2>1. \A i \in 1..n : i \in 1..l
    BY <1>1
  <2> QED
    BY <1>1, <2>1, ElementOfSeq DEF Buffer
<1>3. /\ SubSeq(d, 1, n) \in Seq(Byte)
      /\ Len(SubSeq(d, 1, n)) = IF 1 <= n THEN n - 1 + 1 ELSE 0
  BY <1>2, SubSeqProperties
<1>4. (IF 1 <= n THEN n - 1 + 1 ELSE 0) = n
  OBVIOUS
<1> QED
  BY <1>3, <1>4 DEF Buffer

LEMMA BeginTyped ==
    ASSUME FileTypeOK, ~Busy, NEW fd \in Fd, NEW made, made.fd = fd,
           NEW iovs, NEW at \in 0 .. MaxSize, call' = Under(made, iovs, at),
           \/ made.op \in {"read", "pread"} /\ iovs \in Seq(Nat) /\ made.want \in Nat
           \/ made.op \in {"write", "pwrite"} /\ iovs \in Seq(Buffer) /\ made.data \in Buffer,
           made.op \in {"pread", "pwrite"} => made.at \in 0 .. MaxSize
    PROVE  /\ Busy' /\ CallTyped'
           /\ call'.fd \in Fd /\ call'.at \in 0 .. MaxSize
<1>1. /\ call'.op = made.op /\ call'.fd = fd /\ call'.iovs = iovs
      /\ call'.at = at /\ call'.made = made /\ call'.before = file
      /\ Busy'
  BY DEF Under, Busy
<1>2. OfRead(call') \/ OfWrite(call')
  BY <1>1 DEF OfRead, OfWrite
<1>3. file \in Content
  BY DEF FileTypeOK, Content, Stored
<1>4. TypedCall(call')
  BY <1>1, <1>2, <1>3 DEF TypedCall
<1> QED
  BY <1>1, <1>4 DEF CallTyped

LEMMA InitTInv == Init => TInv
<1> SUFFICES ASSUME Init PROVE TInv
  OBVIOUS
<1>1. kind \in [Fd -> Kind]
  <2>1. \A fd \in Fd : kind[fd] \in Kinds[fd] /\ Kinds[fd] \subseteq Kind
    BY FileAssumption DEF Init
  <2> QED
    BY <2>1 DEF Init
<1>2. ~Busy
  BY DEF Init, Busy, NoCall
<1>3. 0 \in 0 .. MaxSize
  BY FileAssumption
<1>4. FileTypeOK
  BY <1>1, <1>2, <1>3, FileAssumption DEF Init, FileTypeOK
<1> QED
  BY <1>2, <1>4, InitIInv DEF TInv, CallTyped

LEMMA ReadAsked ==
    ASSUME NEW iovs \in ReadIovs
    PROVE  iovs \in Seq(Nat) /\ Sum(iovs) \in Nat
BY FileAssumption, SumFacts

LEMMA WriteAsked ==
    ASSUME NEW iovs \in WriteIovs
    PROVE  iovs \in Seq(Buffer) /\ FlattenSeq(iovs) \in Buffer
<1>1. iovs \in Seq(Buffer)
  BY FileAssumption DEF Buffer
<1> QED
  BY <1>1, FlattenFacts

LEMMA NextTInv == TInv /\ [Next]_vars => TInv'
<1> SUFFICES ASSUME TInv, [Next]_vars PROVE FileTypeOK' /\ CallTyped'
  BY NextIInv DEF TInv
<1> USE DEF disk, table
<1>1. /\ kind \in [Fd -> Kind]
      /\ file \in Content /\ Len(file) <= MaxSize
      /\ offset \in [Fd -> 0 .. MaxSize]
      /\ kernel \in [Fd -> 0 .. MaxSize]
      /\ append \subseteq Fd /\ listed \subseteq Fd
      /\ moved \in Content
  BY DEF TInv, FileTypeOK, Content, Stored
<1>2. <<>> \in Content /\ 0 \in 0 .. MaxSize /\ MaxSize \in Nat
  BY FileAssumption DEF Content
<1>3. ASSUME file' \in Content, Len(file') <= MaxSize, kernel' \in [Fd -> 0 .. MaxSize],
             offset' \in [Fd -> 0 .. MaxSize], kind' = kind, append' \subseteq Fd,
             listed' \subseteq Fd, moved' \in Content,
             Busy' => call'.fd \in Fd /\ call'.at \in 0 .. MaxSize
      PROVE  FileTypeOK'
  BY <1>1, <1>3 DEF FileTypeOK, Content, Stored
<1>4. ASSUME NEW fd \in Fd, NEW n \in 0 .. MaxSize
      PROVE  /\ [kernel EXCEPT ![fd] = n] \in [Fd -> 0 .. MaxSize]
             /\ [offset EXCEPT ![fd] = n] \in [Fd -> 0 .. MaxSize]
  BY <1>1
<1>5. \A fd \in Fd : offset[fd] \in 0 .. MaxSize /\ WritesFrom(fd) \in 0 .. MaxSize
  BY <1>1, BytesFacts DEF WritesFrom, TInv
<1>6. ASSUME NEW fd \in Fd, BeginRead(fd) PROVE FileTypeOK' /\ CallTyped'
  <2>1. PICK iovs \in ReadIovs :
           call' = Under([op |-> "read", fd |-> fd, want |-> Sum(iovs)], iovs, offset[fd])
    BY <1>6 DEF BeginRead
  <2>2. ~Busy /\ kernel' = [kernel EXCEPT ![fd] = offset[fd]]
        /\ moved' = <<>> /\ listed' = listed \ {fd}
        /\ UNCHANGED <<kind, file, offset, append>>
    BY <1>6 DEF BeginRead, KernelAt
  <2>3. Busy' /\ CallTyped' /\ call'.fd \in Fd /\ call'.at \in 0 .. MaxSize
    BY <1>5, <2>1, <2>2, ReadAsked, BeginTyped DEF TInv
  <2> QED
    BY <1>1, <1>2, <1>3, <1>4, <1>5, <2>2, <2>3
<1>7. ASSUME NEW fd \in Fd, BeginPread(fd) PROVE FileTypeOK' /\ CallTyped'
  <2>1. PICK iovs \in ReadIovs, at \in 0 .. MaxSize :
           call' = Under([op |-> "pread", fd |-> fd, at |-> at, want |-> Sum(iovs)], iovs, at)
    BY <1>7 DEF BeginPread
  <2>2. ~Busy /\ moved' = <<>> /\ UNCHANGED <<kind, file, offset, append, kernel, listed>>
    BY <1>7 DEF BeginPread
  <2>3. Busy' /\ CallTyped' /\ call'.fd \in Fd /\ call'.at \in 0 .. MaxSize
    BY <2>1, <2>2, ReadAsked, BeginTyped DEF TInv
  <2> QED
    BY <1>1, <1>2, <1>3, <2>2, <2>3
<1>8. ASSUME NEW fd \in Fd, BeginWrite(fd) PROVE FileTypeOK' /\ CallTyped'
  <2>1. PICK iovs \in WriteIovs :
           call' = Under([op |-> "write", fd |-> fd, data |-> FlattenSeq(iovs)],
                         IF kind[fd] = "os" THEN iovs ELSE <<>>, WritesFrom(fd))
    BY <1>8 DEF BeginWrite
  <2>2. ~Busy /\ kernel' = [kernel EXCEPT ![fd] = WritesFrom(fd)]
        /\ moved' = <<>> /\ listed' = listed \ {fd}
        /\ UNCHANGED <<kind, file, offset, append>>
    BY <1>8 DEF BeginWrite, KernelAt
  <2>3. (IF kind[fd] = "os" THEN iovs ELSE <<>>) \in Seq(Buffer)
    BY WriteAsked
  <2>4. Busy' /\ CallTyped' /\ call'.fd \in Fd /\ call'.at \in 0 .. MaxSize
    BY <1>5, <2>1, <2>2, <2>3, WriteAsked, BeginTyped DEF TInv
  <2> QED
    BY <1>1, <1>2, <1>3, <1>4, <1>5, <2>2, <2>4
<1>9. ASSUME NEW fd \in Fd, BeginPwrite(fd) PROVE FileTypeOK' /\ CallTyped'
  <2>1. PICK iovs \in WriteIovs, at \in 0 .. MaxSize :
           call' = Under([op |-> "pwrite", fd |-> fd, at |-> at, data |-> FlattenSeq(iovs)],
                         iovs, at)
    BY <1>9 DEF BeginPwrite
  <2>2. ~Busy /\ moved' = <<>> /\ UNCHANGED <<kind, file, offset, append, kernel, listed>>
    BY <1>9 DEF BeginPwrite
  <2>3. Busy' /\ CallTyped' /\ call'.fd \in Fd /\ call'.at \in 0 .. MaxSize
    BY <2>1, <2>2, WriteAsked, BeginTyped DEF TInv
  <2> QED
    BY <1>1, <1>2, <1>3, <2>2, <2>3
<1>10. CASE FillBuffer
  <2>1. /\ OfRead(call)
        /\ \E n \in Nat, iovs \in Seq(Nat) :
              /\ call.at + n <= MaxSize
              /\ moved' = moved \o Slice(Bytes(call.fd), call.at, n)
              /\ KernelMoves(n)
              /\ Onward(n, iovs)
    BY <1>10, FillFacts
  <2>2. PICK n \in Nat, iovs \in Seq(Nat) :
           /\ call.at + n <= MaxSize
           /\ moved' = moved \o Slice(Bytes(call.fd), call.at, n)
           /\ KernelMoves(n)
           /\ Onward(n, iovs)
    BY <2>1
  <2>3. Busy /\ UNCHANGED <<kind, file, offset, append, listed>>
    BY <1>10 DEF FillBuffer
  <2>4. /\ Busy' /\ CallTyped' /\ kernel' \in [Fd -> 0 .. MaxSize]
        /\ call'.fd \in Fd /\ call'.at \in 0 .. MaxSize
    BY <2>1, <2>2, <2>3, OnwardTyped DEF OfRead, OfWrite
  <2>5. moved' \in Content
    <3>1. call.fd \in Fd /\ call.at \in Nat
      BY <2>3 DEF TInv, CallTyped, TypedCall
    <3>2. Slice(Bytes(call.fd), call.at, n) \in Content
      BY <3>1, BytesFacts, SliceFacts DEF TInv
    <3> QED
      BY <1>1, <2>2, <3>2, ConcatProperties DEF Content
  <2> QED
    BY <1>1, <1>3, <2>3, <2>4, <2>5
<1>11. CASE StoreBuffer
  <2>1. /\ OfWrite(call) /\ Head(call.iovs) \in Buffer
        /\ \E n \in Nat, iovs \in Seq(Buffer) :
              /\ n <= Len(Head(call.iovs))
              /\ call.at + n <= MaxSize
              /\ file' = Overwrite(file, call.at, SubSeq(Head(call.iovs), 1, n))
              /\ moved' = moved \o SubSeq(Head(call.iovs), 1, n)
              /\ KernelMoves(n)
              /\ Onward(n, iovs)
    BY <1>11, StoreFacts
  <2>2. PICK n \in Nat, iovs \in Seq(Buffer) :
              /\ n <= Len(Head(call.iovs))
              /\ call.at + n <= MaxSize
              /\ file' = Overwrite(file, call.at, SubSeq(Head(call.iovs), 1, n))
              /\ moved' = moved \o SubSeq(Head(call.iovs), 1, n)
              /\ KernelMoves(n)
              /\ Onward(n, iovs)
    BY <2>1
  <2>3. Busy /\ UNCHANGED <<kind, offset, append, listed>>
    BY <1>11 DEF StoreBuffer
  <2>4. /\ Busy' /\ CallTyped' /\ kernel' \in [Fd -> 0 .. MaxSize]
        /\ call'.fd \in Fd /\ call'.at \in 0 .. MaxSize
    BY <2>1, <2>2, <2>3, OnwardTyped DEF OfRead, OfWrite
  <2> DEFINE d == SubSeq(Head(call.iovs), 1, n)
  <2>5. d \in Content /\ Len(d) = n
    BY <2>1, <2>2, PrefixFacts, BuffersAreContent
  <2>6. call.at \in Nat /\ file' = Overwrite(file, call.at, d)
    BY <2>2, <2>3 DEF TInv, CallTyped, TypedCall
  <2>7. moved' = moved \o d
    BY <2>2
  <2> HIDE DEF d
  <2>8. moved' \in Content
    BY <1>1, <2>5, <2>7, ConcatProperties DEF Content
  <2>9. /\ file' \in Content
        /\ Len(file') = IF d = <<>> THEN Len(file) ELSE Larger(Len(file), call.at + n)
    <3>1. file \in Content /\ call.at \in Nat /\ d \in Content
      BY <1>1, <2>5, <2>6
    <3>2. /\ Overwrite(file, call.at, d) \in Content
          /\ Len(Overwrite(file, call.at, d)) =
                IF d = <<>> THEN Len(file) ELSE Larger(Len(file), call.at + Len(d))
      BY <3>1, OverwriteTyped
    <3> QED
      BY <2>5, <2>6, <3>2
  <2>10. Len(file') <= MaxSize
    BY <1>1, <2>2, <2>9 DEF Larger
  <2> QED
    BY <1>1, <1>3, <2>3, <2>4, <2>8, <2>9, <2>10
<1>12. CASE Return
  <2>1. /\ Busy /\ call' = call.made /\ UNCHANGED <<kind, file, append, kernel, listed, moved>>
        /\ offset' = IF Sequential THEN [offset EXCEPT ![call.fd] = call.at] ELSE offset
    BY <1>12 DEF Return
  <2>2. ~Busy'
    BY <2>1 DEF TInv, IInv, CallShape, Busy
  <2>3. call.fd \in Fd /\ call.at \in 0 .. MaxSize
    BY <2>1 DEF TInv, CallTyped, TypedCall
  <2>4. offset' \in [Fd -> 0 .. MaxSize]
    BY <1>1, <1>4, <2>1, <2>3
  <2> QED
    BY <1>1, <1>3, <2>1, <2>2, <2>4 DEF CallTyped
<1>13. ASSUME NEW record, "iovs" \notin DOMAIN record, Made(record)
       PROVE  ~Busy' /\ CallTyped' /\ moved' \in Content
  BY <1>2, <1>13, OneStep DEF CallTyped, Made
<1>14. ASSUME NEW fd \in Fd, Seek(fd) PROVE FileTypeOK' /\ CallTyped'
  <2>1. PICK whence \in Whence, n \in SeekTargets :
           /\ Made([op |-> "seek", fd |-> fd, whence |-> whence,
                    delta |-> n - Base(fd, whence)])
           /\ kernel' = [kernel EXCEPT ![fd] = n]
           /\ offset' = [offset EXCEPT ![fd] = n]
    BY <1>14 DEF Seek, KernelAt
  <2>2. ~Busy' /\ CallTyped' /\ moved' \in Content
    BY <2>1, <1>13
  <2>3. listed' = listed \ {fd} /\ UNCHANGED <<kind, file, append>>
    BY <1>14 DEF Seek
  <2> QED
    BY <1>1, <1>3, <1>4, <2>1, <2>2, <2>3 DEF SeekTargets
<1>15. ASSUME NEW fd \in Fd, Readdir(fd) PROVE FileTypeOK' /\ CallTyped'
  <2>1. ~Busy' /\ CallTyped' /\ moved' \in Content
    BY <1>13, <1>15 DEF Readdir
  <2>2. /\ kernel' = [kernel EXCEPT ![fd] = 0] /\ listed' = listed \cup {fd}
        /\ UNCHANGED <<kind, file, offset, append>>
    BY <1>15 DEF Readdir, KernelAt
  <2> QED
    BY <1>1, <1>2, <1>3, <1>4, <2>1, <2>2
<1>16. ASSUME NEW fd \in Fd, SetFlags(fd) PROVE FileTypeOK' /\ CallTyped'
  <2>1. ~Busy' /\ CallTyped' /\ moved' \in Content
    BY <1>13, <1>16 DEF SetFlags
  <2>2. append' \subseteq Fd /\ UNCHANGED <<kind, file, offset, kernel, listed>>
    BY <1>1, <1>16 DEF SetFlags
  <2> QED
    BY <1>1, <1>3, <2>1, <2>2
<1>17. ASSUME ~Busy', CallTyped', moved' \in Content, NEW n \in 0 .. MaxSize,
              file' = Resized(file, n), UNCHANGED <<kind, table, kernel, listed>>
       PROVE  FileTypeOK' /\ CallTyped'
  <2>1. file' \in Content /\ Len(file') <= MaxSize
    BY <1>1, <1>2, <1>17, ResizedFacts
  <2> QED
    BY <1>1, <1>3, <1>17, <2>1
<1>18. ASSUME NEW fd \in Fd, SetSize(fd) PROVE FileTypeOK' /\ CallTyped'
  <2>1. ~Busy' /\ CallTyped' /\ moved' \in Content
    BY <1>13, <1>18 DEF SetSize
  <2> QED
    BY <1>17, <1>18, <2>1 DEF SetSize
<1>19. ASSUME NEW fd \in Fd, Allocate(fd) PROVE FileTypeOK' /\ CallTyped'
  <2>1. ~Busy' /\ CallTyped' /\ moved' \in Content
    BY <1>13, <1>19 DEF Allocate
  <2>2. PICK end \in RangeEnds : file' = Resized(file, Larger(Len(file), end))
    BY <1>19 DEF Allocate
  <2>3. Len(file) \in 0 .. MaxSize /\ end \in 0 .. MaxSize
    BY <1>1, <1>2, LenProperties DEF Content, RangeEnds
  <2>4. Larger(Len(file), end) \in 0 .. MaxSize
    BY <2>3 DEF Larger
  <2> QED
    BY <1>17, <1>19, <2>1, <2>2, <2>4 DEF Allocate
<1>20. CASE OtherProcess
  <2>1. ~Busy' /\ CallTyped' /\ moved' \in Content
    BY <1>13, <1>20 DEF OtherProcess, NoCall
  <2>2. UNCHANGED <<kind, table, kernel, listed>>
    BY <1>20 DEF OtherProcess
  <2>3. ASSUME NEW b \in Byte, Len(file) < MaxSize, file' = Append(file, b)
        PROVE  file' \in Content /\ Len(file') <= MaxSize
    <3>1. PICK l \in Nat : l = Len(file)
      BY <1>1, LenProperties DEF Content
    <3>2. file' \in Content /\ Len(file') = l + 1
      BY <1>1, <2>3, <3>1, AppendProperties DEF Content, Stored
    <3> QED
      BY <1>2, <2>3, <3>1, <3>2
  <2> QED
    BY <1>1, <1>3, <1>17, <1>20, <2>1, <2>2, <2>3 DEF OtherProcess
<1>21. CASE UNCHANGED vars
  BY <1>1, <1>3, <1>21 DEF vars, TInv, FileTypeOK, CallTyped, Busy
<1> QED
  BY <1>6, <1>7, <1>8, <1>9, <1>10, <1>11, <1>12, <1>14, <1>15, <1>16, <1>18, <1>19,
     <1>20, <1>21 DEF Next

(* Every position stays between 0 and the largest file, every vector, byte *)
(* and file keeps its shape: no short buffer, failed call, truncation by   *)
(* another process or seek takes a call's offset below 0 or too high.      *)
THEOREM TypeCorrect == Spec => []FileTypeOK
<1>1. TInv => FileTypeOK
  BY DEF TInv
<1> QED
  BY <1>1, InitTInv, NextTInv, PTL DEF Spec

-----------------------------------------------------------------------------
(* Two writes that follow one another are one.                             *)
LEMMA ContentConcat ==
    ASSUME NEW x \in Content, NEW y \in Content
    PROVE  /\ x \o y \in Content /\ Len(x \o y) = Len(x) + Len(y)
           /\ \A i \in 1..(Len(x) + Len(y)) :
                 (x \o y)[i] = IF i <= Len(x) THEN x[i] ELSE y[i - Len(x)]
           /\ x \o <<>> = x /\ <<>> \o x = x
BY ConcatProperties, ConcatEmptySeq DEF Content

LEMMA ContentAssociate ==
    ASSUME NEW x \in Content, NEW y \in Content, NEW z \in Content
    PROVE  (x \o y) \o z = x \o (y \o z)
BY ConcatAssociative DEF Content

LEMMA ContentEmpty ==
    ASSUME NEW x \in Content
    PROVE  Len(x) \in Nat /\ (Len(x) = 0 <=> x = <<>>)
BY LenProperties, EmptySeq DEF Content

ElementOf(c, at, d, i) ==
    IF i \in at + 1 .. at + Len(d) THEN d[i - at]
    ELSE IF i <= Len(c) THEN c[i] ELSE Zero

LEMMA OverwriteElements ==
    ASSUME NEW c \in Content, NEW at \in Nat, NEW d \in Content,
           NEW i \in 1..Len(Overwrite(c, at, d))
    PROVE  Overwrite(c, at, d)[i] = ElementOf(c, at, d, i)
BY OverwriteFacts DEF ElementOf

LEMMA OverwriteTwice ==
    ASSUME NEW c \in Content, NEW at \in Nat, NEW d \in Content, NEW e \in Content
    PROVE  Overwrite(Overwrite(c, at, d), at + Len(d), e) = Overwrite(c, at, d \o e)
<1>1. PICK l \in Nat, m \in Nat, k \in Nat : l = Len(c) /\ m = Len(d) /\ k = Len(e)
  BY ContentEmpty
<1>2. d \o e \in Content /\ Len(d \o e) = m + k
  BY <1>1, ContentConcat
<1> DEFINE o == Overwrite(c, at, d)
           left == Overwrite(o, at + m, e)
           right == Overwrite(c, at, d \o e)
<1>3. at + m \in Nat /\ m + k \in Nat
  BY <1>1
<1>4. o \in Content /\ Len(o) = IF d = <<>> THEN l ELSE Larger(l, at + m)
  BY <1>1, OverwriteTyped
<1> HIDE DEF o
<1>5. left \in Content /\ Len(left) = IF e = <<>> THEN Len(o) ELSE Larger(Len(o), (at + m) + k)
  BY <1>1, <1>3, <1>4, OverwriteTyped
<1>6. right \in Content /\ Len(right) = IF d \o e = <<>> THEN l ELSE Larger(l, at + (m + k))
  <2>1. PICK q \in Nat : q = m + k
    OBVIOUS
  <2>2. PICK w \in Content : w = d \o e /\ Len(w) = q
    BY <1>2, <2>1
  <2>3. /\ Overwrite(c, at, w) \in Content
        /\ Len(Overwrite(c, at, w)) = IF w = <<>> THEN l ELSE Larger(l, at + q)
    <3>1. Len(w) = q
      BY <2>2
    <3> QED
      BY <1>1, <3>1, OverwriteTyped
  <2> QED
    BY <2>1, <2>2, <2>3
<1>7. /\ d = <<>> <=> m = 0
      /\ e = <<>> <=> k = 0
      /\ d \o e = <<>> <=> m + k = 0
  BY <1>1, <1>2, ContentEmpty
<1>8. PICK p \in Nat : p = Len(o)
  BY <1>4, ContentEmpty
<1>9. PICK n \in Nat : n = Len(left)
  BY <1>5, ContentEmpty
<1>10. p = IF m = 0 THEN l ELSE Larger(l, at + m)
  BY <1>4, <1>7, <1>8
<1>11. n = IF k = 0 THEN p ELSE Larger(p, (at + m) + k)
  BY <1>5, <1>7, <1>8, <1>9
<1>12. Len(right) = n
  <2>1. Len(right) = IF m + k = 0 THEN l ELSE Larger(l, at + (m + k))
    BY <1>6, <1>7
  <2> HIDE DEF right
  <2> QED
    BY <1>10, <1>11, <2>1 DEF Larger
<1>13. ASSUME NEW i \in 1..n PROVE left[i] = right[i]
  <2>1. left[i] = ElementOf(o, at + m, e, i)
    BY <1>3, <1>4, <1>9, OverwriteElements
  <2>2. right[i] = ElementOf(c, at, d \o e, i)
    BY <1>2, <1>12, OverwriteElements
  <2>3. i <= p => o[i] = ElementOf(c, at, d, i)
    <3>1. i <= p => i \in 1..Len(o)
      BY <1>8
    <3> QED
      BY <3>1, OverwriteElements DEF o
  <2> HIDE DEF left, right
  <2>4. CASE i \in at + m + 1 .. at + m + k
    <3>1. /\ i - at \in 1..(m + k) /\ ~(i - at <= m) /\ (i - at) - m = i - (at + m)
          /\ i \in at + 1 .. at + (m + k)
      BY <1>1, <2>4
    <3>2. (d \o e)[i - at] = e[(i - at) - m]
      BY <1>1, <3>1, ContentConcat
    <3> QED
      BY <1>1, <1>2, <2>1, <2>2, <2>4, <3>1, <3>2 DEF ElementOf
  <2>5. CASE i \in at + 1 .. at + m
    <3>1. /\ i - at \in 1..(m + k) /\ i - at <= m
          /\ i \in at + 1 .. at + (m + k)
          /\ i \notin at + m + 1 .. at + m + k
      BY <1>1, <2>5
    <3>2. (d \o e)[i - at] = d[i - at]
      BY <1>1, <3>1, ContentConcat
    <3>3. i <= p
      BY <1>1, <1>10, <2>5 DEF Larger
    <3> QED
      BY <1>1, <1>2, <1>8, <2>1, <2>2, <2>3, <2>5, <3>1, <3>2, <3>3 DEF ElementOf
  <2>6. CASE i \notin at + m + 1 .. at + m + k /\ i \notin at + 1 .. at + m
    <3>1. i \notin at + 1 .. at + (m + k)
      BY <1>1, <2>6
    <3>2. right[i] = IF i <= l THEN c[i] ELSE Zero
      BY <1>1, <1>2, <2>2, <3>1 DEF ElementOf
    <3>3. left[i] = IF i <= p THEN o[i] ELSE Zero
      BY <1>1, <1>8, <2>1, <2>6 DEF ElementOf
    <3>4. i <= p => o[i] = IF i <= l THEN c[i] ELSE Zero
      BY <1>1, <2>3, <2>6 DEF ElementOf
    <3>5. i <= l => i <= p
      BY <1>1, <1>10 DEF Larger
    <3> QED
      BY <3>2, <3>3, <3>4, <3>5
  <2> QED
    BY <2>4, <2>5, <2>6
<1> HIDE DEF left, right
<1>14. left = right
  BY <1>5, <1>6, <1>9, <1>12, <1>13, SeqEqual DEF Content
<1> QED
  BY <1>1, <1>14 DEF left, right, o

-----------------------------------------------------------------------------
(* What has been stored is the first bytes of what was given, as long as   *)
(* the buffers left are the next ones.                                     *)
Remains(data, done, iovs) ==
    \E rest \in Content : data = (done \o FlattenSeq(iovs)) \o rest

LEMMA Split ==
    ASSUME NEW h \in Buffer, NEW n \in Nat, n <= Len(h)
    PROVE  \E b \in Buffer : h = SubSeq(h, 1, n) \o b /\ (n = Len(h) => b = <<>>)
<1>1. PICK l \in Nat : l = Len(h)
  BY LenProperties DEF Buffer
<1>2. 1 \in 1 .. l + 1 /\ n \in 1 - 1 .. l /\ l \in n .. l
  BY <1>1
<1>3. SubSeq(h, 1, n) \o SubSeq(h, n + 1, l) = SubSeq(h, 1, l)
  BY <1>1, <1>2, ConcatAdjacentSubSeq DEF Buffer
<1>4. SubSeq(h, 1, l) = h
  BY <1>1, SubSeqFull DEF Buffer
<1>5. SubSeq(h, n + 1, l) \in Buffer
  <2>1. \A i \in n + 1 .. l : h[i] \in Byte
    <3>1. \A i \in n + 1 .. l : i \in 1..l
      OBVIOUS
    <3> QED
      BY <1>1, <3>1, ElementOfSeq DEF Buffer
  <2>2. n + 1 \in Int /\ l \in Int
    OBVIOUS
  <2>3. SubSeq(h, n + 1, l) \in Seq(Byte)
    BY <2>1, <2>2, SubSeqProperties
  <2> QED
    BY <2>3 DEF Buffer
<1>6. ASSUME n = l PROVE SubSeq(h, n + 1, l) = <<>>
  BY <1>6, SubSeqEmpty
<1> QED
  BY <1>1, <1>3, <1>4, <1>5, <1>6

LEMMA Nothing == <<>> \in Content /\ FlattenSeq(<<>>) = <<>>
<1>1. PICK s \in Seq(Buffer) : s = <<>>
  BY EmptySeq
<1>2. FlattenSeq(s) = <<>>
  BY <1>1, FlattenFacts
<1> QED
  BY <1>1, <1>2 DEF Content

LEMMA RemainsFirst ==
    ASSUME NEW iovs \in Seq(Buffer)
    PROVE  Remains(FlattenSeq(iovs), <<>>, iovs)
<1>1. FlattenSeq(iovs) \in Content /\ <<>> \in Content
  BY FlattenFacts, BuffersAreContent DEF Content
<1>2. (<<>> \o FlattenSeq(iovs)) \o <<>> = FlattenSeq(iovs)
  BY <1>1, ContentConcat
<1> QED
  BY <1>1, <1>2 DEF Remains

(* A call that stores nothing at all has stored the first none of them.    *)
LEMMA RemainsNone ==
    ASSUME NEW data \in Content
    PROVE  Remains(data, <<>>, <<>>)
<1>1. <<>> \in Content /\ FlattenSeq(<<>>) = <<>>
  BY Nothing
<1>2. (<<>> \o <<>>) \o data = data
  BY <1>1, ContentConcat
<1> QED
  BY <1>1, <1>2 DEF Remains

LEMMA RemainsNext ==
    ASSUME NEW data, NEW done \in Content, NEW iovs \in Seq(Buffer), iovs # <<>>,
           NEW n \in Nat, n <= Len(Head(iovs)),
           NEW left, left = <<>> \/ (n = Len(Head(iovs)) /\ left = Tail(iovs)),
           Remains(data, done, iovs)
    PROVE  Remains(data, done \o SubSeq(Head(iovs), 1, n), left)
<1> DEFINE h == Head(iovs)
           a == SubSeq(h, 1, n)
           f == FlattenSeq(Tail(iovs))
<1>1. h \in Buffer /\ Tail(iovs) \in Seq(Buffer)
  BY HeadTailProperties
<1>2. f \in Content /\ FlattenSeq(iovs) = h \o f
  BY <1>1, FlattenFacts, BuffersAreContent
<1>3. PICK b \in Buffer : h = a \o b /\ (n = Len(h) => b = <<>>)
  <2>1. n <= Len(h)
    OBVIOUS
  <2> HIDE DEF h
  <2> QED
    BY <1>1, <2>1, Split
<1>4. a \in Content /\ b \in Content /\ h \in Content
  <2>1. a \in Buffer
    <3> HIDE DEF h
    <3> QED
      BY <1>1, PrefixFacts DEF h
  <2> QED
    BY <1>1, <2>1, BuffersAreContent
<1>5. PICK rest \in Content : data = (done \o FlattenSeq(iovs)) \o rest
  BY DEF Remains
<1> HIDE DEF h, a, f
<1>6. data = (done \o ((a \o b) \o f)) \o rest
  BY <1>2, <1>3, <1>5
<1>7. <<>> \in Content /\ FlattenSeq(<<>>) = <<>>
  BY Nothing
<1>8. CASE left = <<>>
  <2> DEFINE tail == b \o (f \o rest)
  <2>1. f \o rest \in Content /\ tail \in Content /\ a \o b \in Content /\ done \o a \in Content
    BY <1>2, <1>4, ContentConcat
  <2>2. (a \o b) \o f \in Content
    BY <1>2, <2>1, ContentConcat
  <2>3. data = done \o (((a \o b) \o f) \o rest)
    BY <1>6, <2>2, ContentAssociate
  <2>4. ((a \o b) \o f) \o rest = (a \o b) \o (f \o rest)
    <3>1. PICK ab \in Content : ab = a \o b
      BY <2>1
    <3>2. (ab \o f) \o rest = ab \o (f \o rest)
      BY <1>2, ContentAssociate
    <3> QED
      BY <3>1, <3>2
  <2>5. (a \o b) \o (f \o rest) = a \o tail
    <3>1. PICK fr \in Content : fr = f \o rest
      BY <2>1
    <3>2. a \in Content /\ b \in Content /\ fr \in Content
      BY <1>4
    <3>3. (a \o b) \o fr = a \o (b \o fr)
      BY <3>2, ContentAssociate, ZenonT(60)
    <3> QED
      BY <3>1, <3>3
  <2>6. done \o (a \o tail) = (done \o a) \o tail
    BY <1>4, <2>1, ContentAssociate, ZenonT(60)
  <2>7. (done \o a) \o <<>> = done \o a
    BY <2>1, ContentConcat
  <2> HIDE DEF tail
  <2>8. data = (done \o a) \o tail
    BY <2>3, <2>4, <2>5, <2>6, Zenon
  <2>9. (done \o a) \o FlattenSeq(left) = done \o a
    BY <1>7, <1>8, <2>7, Zenon
  <2>10. data = ((done \o a) \o FlattenSeq(left)) \o tail
    BY <2>8, <2>9, Zenon
  <2> QED
    BY <2>1, <2>10 DEF Remains, a, h
<1>9. CASE n = Len(h) /\ left = Tail(iovs)
  <2>1. b = <<>> /\ a \o b = a
    BY <1>3, <1>4, <1>9, ContentConcat
  <2>2. done \o (a \o f) = (done \o a) \o f
    BY <1>2, <1>4, ContentAssociate
  <2>3. data = ((done \o a) \o FlattenSeq(left)) \o rest
    BY <1>6, <1>9, <2>1, <2>2 DEF f
  <2> QED
    BY <2>3 DEF Remains, a, h
<1> QED
  BY <1>8, <1>9 DEF h

LEMMA RemainsLast ==
    ASSUME NEW data, NEW done \in Content, Remains(data, done, <<>>)
    PROVE  data \in Content /\ \E n \in 0 .. Len(data) : done = SubSeq(data, 1, n)
<1>1. <<>> \in Content /\ FlattenSeq(<<>>) = <<>>
  BY Nothing
<1>2. PICK rest \in Content : data = done \o rest
  BY <1>1, ContentConcat DEF Remains
<1>3. PICK m \in Nat, k \in Nat : m = Len(done) /\ k = Len(rest)
  BY ContentEmpty
<1>4. data \in Content /\ Len(data) = m + k
  BY <1>2, <1>3, ContentConcat
<1>5. m \in 0 .. Len(data)
  BY <1>3, <1>4
<1>6. done = SubSeq(data, 1, m)
  <2>1. CASE m = 0
    <3>1. done = <<>>
      BY <1>3, <2>1, ContentEmpty
    <3>2. SubSeq(data, 1, 0) = <<>>
      BY SubSeqEmpty
    <3> QED
      BY <2>1, <3>1, <3>2
  <2>2. CASE m # 0
    <3>1. 1 \in 1..m /\ m \in 1..m
      BY <2>2
    <3>2. SubSeq(done \o rest, 1, m) = SubSeq(done, 1, m)
      BY <1>3, <3>1, SubSeqOfConcat1 DEF Content
    <3>3. SubSeq(done, 1, m) = done
      BY <1>3, SubSeqFull DEF Content
    <3> QED
      BY <1>2, <3>2, <3>3
  <2> QED
    BY <2>1, <2>2
<1> QED
  BY <1>4, <1>5, <1>6

-----------------------------------------------------------------------------
(* A call under way, as the abstract step that its return will be sees it: *)
(* where that step starts, the bytes it finds there, and how much of it    *)
(* has been done.                                                          *)
BytesBefore(fd) == IF OnHost(fd) THEN call.before ELSE Embedded

Start ==
    IF call.op \in {"pread", "pwrite"} THEN call.made.at
    ELSE IF call.op = "write" /\ call.fd \in append THEN Len(BytesBefore(call.fd))
    ELSE offset[call.fd]

ReadSoFar ==
    /\ file = call.before
    /\ Len(moved) + Sum(call.iovs) <= call.made.want
    /\ moved = Slice(BytesBefore(call.fd), Start, Len(moved))

WrittenSoFar ==
    /\ file = Overwrite(call.before, Start, moved)
    /\ Remains(call.made.data, moved, call.iovs)
    /\ kind[call.fd] # "os" => moved = <<>> /\ call.iovs = <<>>

Underway ==
    Busy => /\ Start \in Nat /\ call.at = Start + Len(moved)
            /\ OfRead(call) => ReadSoFar
            /\ OfWrite(call) => WrittenSoFar

(* The lemmas about bytes and vectors, as one buffer of a call needs them. *)
LEMMA ReadMore ==
    ASSUME NEW c \in Content, NEW start \in Nat, NEW m \in Content, NEW n \in Nat,
           m = Slice(c, start, Len(m)), Len(Slice(c, start + Len(m), n)) = n
    PROVE  LET more == m \o Slice(c, start + Len(m), n)
           IN  Len(more) = Len(m) + n /\ more = Slice(c, start, Len(more))
<1>1. PICK l \in Nat : l = Len(m)
  BY ContentEmpty
<1>2. Len(Slice(c, start, l)) = l /\ Len(Slice(c, start + l, n)) = n
  BY <1>1
<1>3. /\ Slice(c, start, l) \o Slice(c, start + l, n) = Slice(c, start, l + n)
      /\ Len(Slice(c, start, l + n)) = l + n
  BY <1>2, SlicesFollow, ZenonT(60)
<1>4. m \o Slice(c, start + l, n) = Slice(c, start, l + n)
  BY <1>1, <1>3
<1> QED
  BY <1>1, <1>3, <1>4

LEMMA SumLeft ==
    ASSUME NEW s \in Seq(Nat), s # <<>>, NEW n \in Nat, NEW left \in Seq(Nat),
           (n \in 0 .. Head(s) /\ left = <<>>) \/ (n = Head(s) /\ left = Tail(s))
    PROVE  Sum(left) \in Nat /\ n + Sum(left) <= Sum(s)
<1>1. /\ Head(s) \in Nat /\ Tail(s) \in Seq(Nat)
      /\ Sum(s) = Head(s) + Sum(Tail(s))
  BY HeadTailProperties, SumFacts
<1>2. Sum(left) \in Nat /\ Sum(Tail(s)) \in Nat
  BY <1>1, SumFacts
<1>3. CASE left = <<>> /\ n \in 0 .. Head(s)
  <2>1. Sum(left) = 0
    <3>1. Sum(left) = UpTo(left)[Len(left)] /\ UpTo(left)[0] = 0 /\ Len(left) = 0
      BY <1>3, UpToFacts, EmptySeq
    <3> QED
      BY <3>1
  <2> QED
    BY <1>1, <1>2, <1>3, <2>1
<1>4. CASE n = Head(s) /\ left = Tail(s)
  BY <1>1, <1>2, <1>4
<1> QED
  BY <1>3, <1>4

LEMMA SliceNone ==
    ASSUME NEW c \in Content, NEW at \in Nat
    PROVE  Slice(c, at, Len(<<>>)) = <<>>
<1>1. Slice(c, at, 0) \in Content /\ Len(Slice(c, at, 0)) = 0
  BY SliceFacts
<1>2. Len(<<>>) = 0
  BY EmptySeq
<1> QED
  BY <1>1, <1>2, ContentEmpty

(* A call that begins has nothing behind it.                               *)
LEMMA BeginsUnderway ==
    ASSUME TInv, NEW fd \in Fd, NEW made, made.fd = fd, NEW iovs,
           NEW at \in 0 .. MaxSize, call' = Under(made, iovs, at),
           moved' = <<>>, UNCHANGED <<kind, file, offset, append>>,
           made.op \in {"pread", "pwrite"} => at = made.at,
           made.op = "read" => at = offset[fd],
           made.op = "write" => at = WritesFrom(fd),
           made.op \in {"read", "pread", "write", "pwrite"},
           made.op \in {"read", "pread"} =>
              iovs \in Seq(Nat) /\ made.want = Sum(iovs),
           made.op \in {"write", "pwrite"} =>
              \/ iovs \in Seq(Buffer) /\ made.data = FlattenSeq(iovs) /\ kind[fd] = "os"
              \/ iovs = <<>> /\ made.data \in Content
    PROVE  Underway'
<1>1. /\ call'.op = made.op /\ call'.fd = fd /\ call'.iovs = iovs
      /\ call'.at = at /\ call'.made = made /\ call'.before = file
  BY DEF Under
<1>2. Bytes(fd) \in Content /\ BytesBefore(fd)' = Bytes(fd)
  BY <1>1, BytesFacts DEF TInv, BytesBefore, Bytes, OnHost
<1>3. Start' = at
  BY <1>1, <1>2 DEF Start, WritesFrom
<1>4. at \in Nat /\ Len(<<>>) = 0 /\ at = at + 0
  BY EmptySeq
<1>5. made.op \in {"read", "pread"} => ReadSoFar'
  <2> SUFFICES ASSUME made.op \in {"read", "pread"} PROVE ReadSoFar'
    OBVIOUS
  <2>1. Sum(iovs) \in Nat /\ made.want = Sum(iovs)
    BY SumFacts
  <2>2. Slice(Bytes(fd), at, Len(<<>>)) = <<>>
    BY <1>2, <1>4, SliceNone
  <2> QED
    BY <1>1, <1>2, <1>3, <1>4, <2>1, <2>2 DEF ReadSoFar
<1>6. made.op \in {"write", "pwrite"} => WrittenSoFar'
  <2> SUFFICES ASSUME made.op \in {"write", "pwrite"} PROVE WrittenSoFar'
    OBVIOUS
  <2>1. Overwrite(file, at, <<>>) = file
    BY DEF Overwrite
  <2>2. Remains(made.data, <<>>, iovs)
    BY RemainsFirst, RemainsNone
  <2>3. Remains(call.made.data, moved, call.iovs)'
    BY <1>1, <2>2 DEF Remains
  <2>4. (kind[call.fd] # "os" => moved = <<>> /\ call.iovs = <<>>)'
    BY <1>1
  <2> QED
    BY <1>1, <1>3, <2>1, <2>3, <2>4 DEF WrittenSoFar
<1> QED
  BY <1>1, <1>3, <1>4, <1>5, <1>6 DEF Underway, OfRead, OfWrite

(* A buffer goes on where the buffers before it stopped.                   *)
LEMMA StartStays ==
    ASSUME NEW n, NEW iovs, Onward(n, iovs), UNCHANGED <<kind, offset, append>>
    PROVE  /\ Start' = Start /\ BytesBefore(call.fd)' = BytesBefore(call.fd)
           /\ call'.fd = call.fd /\ call'.op = call.op /\ call'.made = call.made
           /\ call'.before = call.before /\ call'.iovs = iovs /\ call'.at = call.at + n
<1>1. /\ call'.fd = call.fd /\ call'.op = call.op /\ call'.made = call.made
      /\ call'.before = call.before /\ call'.iovs = iovs /\ call'.at = call.at + n
  BY DEF Onward
<1>2. \A fd : BytesBefore(fd)' = BytesBefore(fd)
  BY <1>1 DEF BytesBefore, OnHost
<1> QED
  BY <1>1, <1>2 DEF Start

LEMMA FillUnderway ==
    ASSUME TInv, Underway, FillBuffer
    PROVE  Underway'
<1>1. /\ Busy /\ call.iovs # <<>> /\ UNCHANGED <<kind, file, offset, append>>
      /\ OfRead(call) /\ Head(call.iovs) \in Nat
  BY FillFacts DEF FillBuffer, disk, table
<1>2. PICK n \in Nat, iovs \in Seq(Nat) :
         /\ Left(n, Head(call.iovs), iovs)
         /\ Len(Slice(Bytes(call.fd), call.at, n)) = n
         /\ moved' = moved \o Slice(Bytes(call.fd), call.at, n)
         /\ Onward(n, iovs)
  BY FillFacts
<1>3. /\ Start' = Start /\ BytesBefore(call.fd)' = BytesBefore(call.fd)
      /\ call'.fd = call.fd /\ call'.op = call.op /\ call'.made = call.made
      /\ call'.before = call.before /\ call'.iovs = iovs /\ call'.at = call.at + n
  BY <1>1, <1>2, StartStays
<1>4. Start \in Nat /\ call.at = Start + Len(moved) /\ ReadSoFar
  BY <1>1 DEF Underway
<1> DEFINE c == Bytes(call.fd)
<1>5. c \in Content /\ c = BytesBefore(call.fd) /\ moved \in Content
  <2>1. call.fd \in Fd /\ moved \in Content
    BY <1>1 DEF TInv, CallTyped, TypedCall, FileTypeOK, Content, Stored
  <2> QED
    BY <1>4, <2>1, BytesFacts DEF TInv, BytesBefore, ReadSoFar, Bytes
<1>6. moved = Slice(c, Start, Len(moved)) /\ Len(Slice(c, Start + Len(moved), n)) = n
      /\ moved' = moved \o Slice(c, Start + Len(moved), n)
  BY <1>2, <1>4, <1>5 DEF ReadSoFar
<1> HIDE DEF c
<1>7. PICK more : more = moved \o Slice(c, Start + Len(moved), n)
  OBVIOUS
<1>8. Len(more) = Len(moved) + n /\ more = Slice(c, Start, Len(more))
  BY <1>4, <1>5, <1>6, <1>7, ReadMore, ZenonT(60)
<1>9. moved' = more
  BY <1>6, <1>7
<1>10. PICK l \in Nat : l = Len(moved)
  BY <1>5, ContentEmpty
<1>11. Sum(iovs) \in Nat /\ n + Sum(iovs) <= Sum(call.iovs) /\ Sum(call.iovs) \in Nat
  BY <1>1, <1>2, SumLeft, SumFacts DEF OfRead, Left
<1>12. Len(moved') + Sum(call'.iovs) <= call'.made.want
  <2>1. l + Sum(call.iovs) <= call.made.want /\ call.made.want \in Nat
    BY <1>1, <1>4, <1>10 DEF ReadSoFar, OfRead
  <2>2. Len(moved') = l + n
    BY <1>8, <1>9, <1>10
  <2> QED
    BY <1>3, <1>11, <2>1, <2>2
<1>13. ReadSoFar'
  <2>1. (moved = Slice(BytesBefore(call.fd), Start, Len(moved)))'
    BY <1>3, <1>5, <1>8, <1>9
  <2> QED
    BY <1>1, <1>3, <1>4, <1>12, <2>1 DEF ReadSoFar
<1>14. call'.at = Start' + Len(moved')
  BY <1>3, <1>4, <1>8, <1>9, <1>10
<1> QED
  BY <1>1, <1>3, <1>4, <1>13, <1>14 DEF Underway, OfRead, OfWrite

LEMMA StoreUnderway ==
    ASSUME TInv, Underway, StoreBuffer
    PROVE  Underway'
<1> DEFINE h == Head(call.iovs)
<1>1. /\ Busy /\ call.iovs # <<>> /\ UNCHANGED <<kind, offset, append>>
      /\ OfWrite(call) /\ h \in Buffer
  BY StoreFacts DEF StoreBuffer, table
<1>2. PICK n \in Nat, iovs \in Seq(Buffer) :
         /\ Left(n, Len(h), iovs)
         /\ n <= Len(h)
         /\ file' = Overwrite(file, call.at, SubSeq(h, 1, n))
         /\ moved' = moved \o SubSeq(h, 1, n)
         /\ Onward(n, iovs)
  BY StoreFacts
<1>3. /\ Start' = Start /\ BytesBefore(call.fd)' = BytesBefore(call.fd)
      /\ call'.fd = call.fd /\ call'.op = call.op /\ call'.made = call.made
      /\ call'.before = call.before /\ call'.iovs = iovs /\ call'.at = call.at + n
  BY <1>1, <1>2, StartStays
<1>4. Start \in Nat /\ call.at = Start + Len(moved) /\ WrittenSoFar
  BY <1>1 DEF Underway
<1>5. moved \in Content /\ call.before \in Content /\ call.iovs \in Seq(Buffer)
  BY <1>1 DEF TInv, CallTyped, TypedCall, FileTypeOK, Content, Stored, OfWrite
<1>6. PICK d \in Content : d = SubSeq(h, 1, n) /\ Len(d) = n
  <2> HIDE DEF h
  <2> QED
    BY <1>1, <1>2, PrefixFacts, BuffersAreContent
<1>7. file' = Overwrite(call.before, Start, moved \o d)
  <2>1. file' = Overwrite(Overwrite(call.before, Start, moved), Start + Len(moved), d)
    BY <1>2, <1>4, <1>6 DEF WrittenSoFar
  <2> QED
    BY <1>4, <1>5, <2>1, OverwriteTwice
<1>8. moved' = moved \o d
  BY <1>2, <1>6
<1>9. Len(moved') = Len(moved) + n /\ Len(moved) \in Nat
  <2>1. Len(moved \o d) = Len(moved) + Len(d)
    BY <1>5, ContentConcat
  <2> QED
    BY <1>5, <1>6, <1>8, <2>1, ContentEmpty
<1>10. Remains(call.made.data, moved', iovs)
  <2>1. iovs = <<>> \/ (n = Len(h) /\ iovs = Tail(call.iovs))
    BY <1>2 DEF Left
  <2>2. Remains(call.made.data, moved \o SubSeq(Head(call.iovs), 1, n), iovs)
    BY <1>1, <1>2, <1>4, <1>5, <2>1, RemainsNext DEF WrittenSoFar
  <2> QED
    BY <1>2, <2>2
<1>11. WrittenSoFar'
  <2>1. Remains(call.made.data, moved, call.iovs)'
    BY <1>3, <1>10 DEF Remains
  <2>2. kind[call.fd] = "os"
    BY <1>1, <1>4 DEF WrittenSoFar
  <2>3. (kind[call.fd] # "os" => moved = <<>> /\ call.iovs = <<>>)'
    BY <1>1, <1>3, <2>2
  <2>4. (file = Overwrite(call.before, Start, moved))'
    BY <1>3, <1>7, <1>8
  <2> QED
    BY <2>1, <2>3, <2>4 DEF WrittenSoFar
<1>12. call'.at = Start' + Len(moved')
  BY <1>3, <1>4, <1>9
<1> QED
  BY <1>1, <1>3, <1>4, <1>11, <1>12 DEF Underway, OfRead, OfWrite

UInv == TInv /\ Underway

LEMMA InitUInv == Init => UInv
BY InitTInv DEF UInv, Underway, Init, Busy, NoCall

LEMMA NextUInv == UInv /\ [Next]_vars => UInv'
<1> SUFFICES ASSUME TInv, Underway, [Next]_vars PROVE Underway'
  BY NextTInv DEF UInv
<1> USE DEF disk, table
<1>1. ASSUME NEW fd \in Fd, BeginRead(fd) PROVE Underway'
  <2>1. PICK iovs \in ReadIovs :
           call' = Under([op |-> "read", fd |-> fd, want |-> Sum(iovs)], iovs, offset[fd])
    BY <1>1 DEF BeginRead
  <2>2. moved' = <<>> /\ UNCHANGED <<kind, file, offset, append>>
    BY <1>1 DEF BeginRead
  <2>3. offset[fd] \in 0 .. MaxSize /\ iovs \in Seq(Nat)
    BY ReadAsked DEF TInv, FileTypeOK
  <2> QED
    BY <2>1, <2>2, <2>3, BeginsUnderway
<1>2. ASSUME NEW fd \in Fd, BeginPread(fd) PROVE Underway'
  <2>1. PICK iovs \in ReadIovs, at \in 0 .. MaxSize :
           call' = Under([op |-> "pread", fd |-> fd, at |-> at, want |-> Sum(iovs)], iovs, at)
    BY <1>2 DEF BeginPread
  <2>2. moved' = <<>> /\ UNCHANGED <<kind, file, offset, append>>
    BY <1>2 DEF BeginPread
  <2>3. iovs \in Seq(Nat)
    BY ReadAsked
  <2> QED
    BY <2>1, <2>2, <2>3, BeginsUnderway
<1>3. ASSUME NEW fd \in Fd, BeginWrite(fd) PROVE Underway'
  <2>1. PICK iovs \in WriteIovs :
           call' = Under([op |-> "write", fd |-> fd, data |-> FlattenSeq(iovs)],
                         IF kind[fd] = "os" THEN iovs ELSE <<>>, WritesFrom(fd))
    BY <1>3 DEF BeginWrite
  <2>2. moved' = <<>> /\ UNCHANGED <<kind, file, offset, append>>
    BY <1>3 DEF BeginWrite
  <2>3. iovs \in Seq(Buffer) /\ FlattenSeq(iovs) \in Content
    BY WriteAsked, BuffersAreContent
  <2>4. WritesFrom(fd) \in 0 .. MaxSize
    BY BytesFacts DEF WritesFrom, TInv, FileTypeOK
  <2>5. CASE kind[fd] = "os"
    BY <2>1, <2>2, <2>3, <2>4, <2>5, BeginsUnderway
  <2>6. CASE kind[fd] # "os"
    BY <2>1, <2>2, <2>3, <2>4, <2>6, BeginsUnderway
  <2> QED
    BY <2>5, <2>6
<1>4. ASSUME NEW fd \in Fd, BeginPwrite(fd) PROVE Underway'
  <2>1. PICK iovs \in WriteIovs, at \in 0 .. MaxSize :
           call' = Under([op |-> "pwrite", fd |-> fd, at |-> at, data |-> FlattenSeq(iovs)],
                         iovs, at)
    BY <1>4 DEF BeginPwrite
  <2>2. kind[fd] = "os" /\ moved' = <<>> /\ UNCHANGED <<kind, file, offset, append>>
    BY <1>4 DEF BeginPwrite
  <2>3. iovs \in Seq(Buffer)
    BY WriteAsked
  <2> QED
    BY <2>1, <2>2, <2>3, BeginsUnderway
<1>5. CASE FillBuffer
  BY <1>5, FillUnderway
<1>6. CASE StoreBuffer
  BY <1>6, StoreUnderway
<1>7. ASSUME ~Busy' PROVE Underway'
  BY <1>7 DEF Underway
<1>8. CASE Return
  BY <1>7, <1>8 DEF Return, TInv, IInv, CallShape, Busy
<1>9. ASSUME NEW record, "iovs" \notin DOMAIN record, Made(record) PROVE Underway'
  BY <1>7, <1>9, OneStep
<1>10. ASSUME NEW fd \in Fd,
              Seek(fd) \/ Readdir(fd) \/ SetFlags(fd) \/ SetSize(fd) \/ Allocate(fd)
       PROVE  Underway'
  <2>1. \E record : "iovs" \notin DOMAIN record /\ Made(record)
    <3>1. CASE Seek(fd)
      BY <3>1 DEF Seek
    <3>2. CASE Readdir(fd)
      BY <3>2 DEF Readdir
    <3>3. CASE SetFlags(fd)
      BY <3>3 DEF SetFlags
    <3>4. CASE SetSize(fd)
      BY <3>4 DEF SetSize
    <3>5. CASE Allocate(fd)
      BY <3>5 DEF Allocate
    <3> QED
      BY <1>10, <3>1, <3>2, <3>3, <3>4, <3>5
  <2> QED
    BY <1>9, <2>1
<1>11. CASE OtherProcess
  BY <1>9, <1>11 DEF OtherProcess, NoCall
<1>12. CASE UNCHANGED vars
  BY <1>12 DEF vars, Underway, Busy, OfRead, OfWrite, ReadSoFar, WrittenSoFar, Start,
               BytesBefore, OnHost
<1> QED
  BY <1>1, <1>2, <1>3, <1>4, <1>5, <1>6, <1>8, <1>10, <1>11, <1>12 DEF Next

-----------------------------------------------------------------------------
(* The refinement, one step of a file with one position per descriptor for *)
(* every call.                                                             *)
LEMMA SameBytes ==
    /\ \A c, at, n : Positions!Slice(c, at, n) = Slice(c, at, n)
    /\ \A c, at, d : Positions!Overwrite(c, at, d) = Overwrite(c, at, d)
    /\ \A c, n : Positions!Resized(c, n) = Resized(c, n)
    /\ \A a, b : Positions!Larger(a, b) = Larger(a, b)
<1>1. \A a, b : Positions!Smaller(a, b) = Smaller(a, b) /\ Positions!Larger(a, b) = Larger(a, b)
  BY DEF Positions!Smaller, Smaller, Positions!Larger, Larger
<1>2. \A c, at, n : Positions!Slice(c, at, n) = Slice(c, at, n)
  BY <1>1 DEF Positions!Slice, Slice
<1>3. \A c, at, d : Positions!Overwrite(c, at, d) = Overwrite(c, at, d)
  BY <1>1 DEF Positions!Overwrite, Overwrite
<1>4. \A c, n : Positions!Resized(c, n) = Resized(c, n)
  BY DEF Positions!Resized, Resized
<1> QED
  BY <1>1, <1>2, <1>3, <1>4

LEMMA AbsBegins ==
    ASSUME ~Busy, Busy', call'.before = file, moved' = <<>>,
           UNCHANGED <<kind, file, offset, append>>,
           NEW F \in SUBSET Fd, listed' = listed \ F
    PROVE  Positions!Begin
BY DEF Positions!Begin, NoCall, OnHost

LEMMA AbsStutters ==
    ASSUME Busy, Busy', call'.before = call.before, UNCHANGED <<kind, offset, append, listed>>
    PROVE  UNCHANGED Positions!absVars
BY DEF Positions!absVars, OnHost

LEMMA ReturnFacts ==
    ASSUME UInv, Return
    PROVE  /\ Busy /\ ~Busy' /\ call' = call.made /\ call.iovs = <<>>
           /\ call'.op = call.op /\ call'.fd = call.fd /\ call.fd \in Fd
           /\ UNCHANGED <<kind, file, append, listed, moved>>
           /\ offset' = IF Sequential THEN [offset EXCEPT ![call.fd] = call.at] ELSE offset
           /\ Start \in Nat /\ call.at = Start + Len(moved)
           /\ (OfRead(call) /\ ReadSoFar) \/ (OfWrite(call) /\ WrittenSoFar)
           /\ Len(moved) \in Nat
<1>1. Busy /\ TypedCall(call)
  BY DEF Return, UInv, TInv, CallTyped
<1>2. ~Busy'
  BY <1>1 DEF Return, UInv, TInv, IInv, CallShape, Busy
<1>3. call' = call.made /\ call'.op = call.op /\ call'.fd = call.fd
  BY <1>1 DEF Return, TypedCall
<1>4. Len(moved) \in Nat
  BY ContentEmpty DEF UInv, TInv, FileTypeOK, Content, Stored
<1> QED
  BY <1>1, <1>2, <1>3, <1>4 DEF Return, UInv, Underway, TypedCall, disk

LEMMA AbsReads ==
    ASSUME UInv, Return, call.op = "read"
    PROVE  Positions!Read(call.fd)
<1>1. /\ Busy /\ ~Busy' /\ call' = call.made /\ call.iovs = <<>>
      /\ call'.op = call.op /\ call'.fd = call.fd /\ call.fd \in Fd
      /\ UNCHANGED <<kind, file, append, listed, moved>>
      /\ offset' = [offset EXCEPT ![call.fd] = call.at]
      /\ Start = offset[call.fd] /\ call.at = Start + Len(moved)
      /\ OfRead(call) /\ ReadSoFar
      /\ Len(moved) \in Nat
  BY ReturnFacts DEF OfWrite, Sequential, Start
<1>2. Sum(call.iovs) \in Nat
  BY <1>1, SumFacts DEF OfRead
<1>3. Len(moved) \in 0 .. call'.want
  BY <1>1, <1>2 DEF ReadSoFar, OfRead
<1>4. moved' = Positions!Slice(Positions!Bytes(call.fd), offset[call.fd], Len(moved))
  BY <1>1, SameBytes DEF Positions!Bytes, ReadSoFar, BytesBefore, OnHost
<1>5. Positions!Asked("read", call.fd)
  BY <1>1 DEF Positions!Asked
<1>6. Positions!MovesTo(call.fd, offset[call.fd] + Len(moved'))
  BY <1>1 DEF Positions!MovesTo
<1> QED
  BY <1>1, <1>3, <1>4, <1>5, <1>6 DEF Positions!Read, ReadSoFar, OnHost

LEMMA AbsPositionedReads ==
    ASSUME UInv, Return, call.op = "pread"
    PROVE  Positions!PositionedRead(call.fd)
<1>1. /\ Busy /\ ~Busy' /\ call' = call.made /\ call.iovs = <<>>
      /\ call'.op = call.op /\ call'.fd = call.fd /\ call.fd \in Fd
      /\ UNCHANGED <<kind, file, append, listed, moved, offset>>
      /\ Start = call.made.at /\ call.at = Start + Len(moved)
      /\ OfRead(call) /\ ReadSoFar
      /\ Len(moved) \in Nat
  BY ReturnFacts DEF OfWrite, Sequential, Start
<1>2. Sum(call.iovs) \in Nat
  BY <1>1, SumFacts DEF OfRead
<1>3. Len(moved) \in 0 .. call'.want
  BY <1>1, <1>2 DEF ReadSoFar, OfRead
<1>4. moved' = Positions!Slice(Positions!Bytes(call.fd), call'.at, Len(moved))
  BY <1>1, SameBytes DEF Positions!Bytes, ReadSoFar, BytesBefore, OnHost
<1>5. Positions!Asked("pread", call.fd)
  BY <1>1 DEF Positions!Asked
<1> QED
  BY <1>1, <1>3, <1>4, <1>5 DEF Positions!PositionedRead, ReadSoFar, OnHost

LEMMA AbsStores ==
    ASSUME UInv, Return, OfWrite(call)
    PROVE  Positions!Stores(call.fd, Start)
<1>1. /\ Busy /\ ~Busy' /\ call' = call.made /\ call.iovs = <<>>
      /\ UNCHANGED <<kind, file, moved>> /\ call.fd \in Fd
      /\ WrittenSoFar
  BY ReturnFacts DEF OfWrite, OfRead
<1>2. moved \in Content
  BY DEF UInv, TInv, FileTypeOK, Content, Stored
<1>3. \E n \in 0 .. Len(call'.data) : moved' = SubSeq(call'.data, 1, n)
  BY <1>1, <1>2, RemainsLast DEF WrittenSoFar
<1>4. ~OnHost(call.fd) => moved' = <<>>
  BY <1>1 DEF WrittenSoFar, OnHost
<1>5. file' = Positions!Overwrite(call.before, Start, moved')
  BY <1>1, SameBytes DEF WrittenSoFar
<1> QED
  BY <1>1, <1>3, <1>4, <1>5 DEF Positions!Stores

LEMMA AbsWrites ==
    ASSUME UInv, Return, call.op = "write"
    PROVE  Positions!Write(call.fd)
<1>1. OfWrite(call) /\ Busy
  BY ReturnFacts DEF OfWrite, OfRead
<1>2. /\ ~Busy' /\ call'.op = call.op /\ call'.fd = call.fd /\ call.fd \in Fd
      /\ UNCHANGED <<kind, append, listed, moved>>
      /\ offset' = [offset EXCEPT ![call.fd] = call.at]
      /\ call.at = Start + Len(moved)
  BY <1>1, ReturnFacts DEF Sequential
<1>3. Start = IF call.fd \in append THEN Len(Positions!Bytes(call.fd)) ELSE offset[call.fd]
  BY <1>1, <1>2 DEF Start, BytesBefore, Positions!Bytes, OnHost
<1>4. Positions!Asked("write", call.fd)
  BY <1>2 DEF Positions!Asked
<1>5. Positions!MovesTo(call.fd, Start + Len(moved'))
  BY <1>2 DEF Positions!MovesTo
<1>6. Positions!Stores(call.fd, Start)
  BY <1>1, AbsStores
<1> QED
  BY <1>2, <1>3, <1>4, <1>5, <1>6 DEF Positions!Write, OnHost

LEMMA AbsPositionedWrites ==
    ASSUME UInv, Return, call.op = "pwrite"
    PROVE  Positions!PositionedWrite(call.fd)
<1>1. OfWrite(call) /\ Busy
  BY ReturnFacts DEF OfWrite, OfRead
<1>2. /\ ~Busy' /\ call' = call.made /\ call'.op = call.op /\ call'.fd = call.fd
      /\ UNCHANGED <<kind, append, listed, offset>>
  BY <1>1, ReturnFacts DEF Sequential
<1>3. Start = call'.at
  BY <1>2 DEF Start
<1>4. Positions!Asked("pwrite", call.fd)
  BY <1>2 DEF Positions!Asked
<1>5. Positions!Stores(call.fd, call'.at)
  BY <1>1, <1>3, AbsStores
<1> QED
  BY <1>2, <1>4, <1>5 DEF Positions!PositionedWrite, OnHost

(* A seek counts from the position, whichever of the two it is taken from. *)
LEMMA AbsSeeks ==
    ASSUME UInv, NEW fd \in Fd, Seek(fd)
    PROVE  Positions!Seek(fd)
<1>1. PICK whence \in Whence, n \in SeekTargets :
         /\ Made([op |-> "seek", fd |-> fd, whence |-> whence,
                  delta |-> n - Base(fd, whence)])
         /\ offset' = [offset EXCEPT ![fd] = n]
  BY DEF Seek
<1>2. /\ ~Busy /\ ~Busy' /\ moved' = <<>> /\ listed' = listed \ {fd}
      /\ UNCHANGED <<kind, file, append>>
  BY <1>1, OneStep DEF Seek, Made, disk
<1>3. /\ call'.op = "seek" /\ call'.fd = fd /\ call'.whence = whence
      /\ call'.delta = n - Base(fd, whence)
  BY <1>1 DEF Made
<1>4. n \in Int
  BY DEF SeekTargets
<1>5. kernel[fd] \in Int /\ Len(Bytes(fd)) \in Int
  <2>1. kernel[fd] \in 0 .. MaxSize /\ Len(Bytes(fd)) \in 0 .. MaxSize
    BY BytesFacts DEF UInv, TInv, FileTypeOK
  <2> QED
    BY <2>1
<1>6. Positions!Bytes(fd) = Bytes(fd)
  BY <1>2 DEF Positions!Bytes, Bytes
<1>7. CASE whence = "set"
  <2>1. call'.delta = n
    BY <1>3, <1>4, <1>7 DEF Base
  <2>2. Positions!MovesTo(fd, call'.delta)
    BY <1>1, <2>1 DEF Positions!MovesTo
  <2> QED
    BY <1>2, <1>3, <1>7, <2>2 DEF Positions!Seek, Positions!Asked, Positions!Used, OnHost
<1>8. CASE whence = "end"
  <2>1. Len(Bytes(fd)) + call'.delta = n
    BY <1>3, <1>4, <1>5, <1>8 DEF Base
  <2>2. Positions!MovesTo(fd, Len(Positions!Bytes(fd)) + call'.delta)
    BY <1>1, <1>6, <2>1 DEF Positions!MovesTo
  <2> QED
    BY <1>2, <1>3, <1>8, <2>2 DEF Positions!Seek, Positions!Asked, Positions!Used, OnHost
<1>9. CASE whence = "cur" /\ fd \in listed
  <2>1. \A g \in Fd \ {fd} : offset'[g] = offset[g]
    BY <1>1 DEF UInv, TInv, FileTypeOK
  <2> QED
    BY <1>2, <1>3, <1>9, <2>1 DEF Positions!Seek, Positions!Asked, Positions!Used, OnHost
<1>10. CASE whence = "cur" /\ fd \notin listed
  <2>1. kernel[fd] = offset[fd]
    BY <1>2, <1>10 DEF UInv, TInv, IInv, InStep, Expected
  <2>2. offset[fd] + call'.delta = n
    BY <1>3, <1>4, <1>5, <1>10, <2>1 DEF Base
  <2>3. Positions!MovesTo(fd, offset[fd] + call'.delta)
    BY <1>1, <2>2 DEF Positions!MovesTo
  <2> QED
    BY <1>2, <1>3, <1>10, <2>3 DEF Positions!Seek, Positions!Asked, Positions!Used, OnHost
<1> QED
  BY <1>7, <1>8, <1>9, <1>10 DEF Whence

LEMMA AbsOthers ==
    ASSUME UInv, NEW fd \in Fd
    PROVE  /\ Readdir(fd) => Positions!List(fd)
           /\ SetFlags(fd) => Positions!SetAppend(fd)
           /\ SetSize(fd) \/ Allocate(fd) => Positions!Resize(fd)
<1> USE DEF disk, table, Positions!Asked, OnHost
<1>1. ASSUME Readdir(fd) PROVE Positions!List(fd)
  <2>1. ~Busy /\ ~Busy'
    BY <1>1, OneStep DEF Readdir
  <2> QED
    BY <1>1, <2>1 DEF Readdir, Made, Positions!List
<1>2. ASSUME SetFlags(fd) PROVE Positions!SetAppend(fd)
  <2>1. ~Busy /\ ~Busy'
    BY <1>2, OneStep DEF SetFlags
  <2> QED
    BY <1>2, <2>1 DEF SetFlags, Made, Positions!SetAppend
<1>3. ASSUME SetSize(fd) PROVE Positions!Resize(fd)
  <2>1. ~Busy /\ ~Busy'
    BY <1>3, OneStep DEF SetSize
  <2> QED
    BY <1>3, <2>1, SameBytes DEF SetSize, Made, Positions!Resize
<1>4. ASSUME Allocate(fd) PROVE Positions!Resize(fd)
  <2>1. ~Busy /\ ~Busy'
    BY <1>4, OneStep DEF Allocate
  <2> QED
    BY <1>4, <2>1, SameBytes DEF Allocate, Made, Positions!Resize
<1> QED
  BY <1>1, <1>2, <1>3, <1>4

LEMMA AbsStep == UInv /\ [Next]_vars => [Positions!AbsNext]_(Positions!absVars)
<1> SUFFICES ASSUME UInv, [Next]_vars
             PROVE  Positions!AbsNext \/ UNCHANGED Positions!absVars
  OBVIOUS
<1> USE DEF disk, table
<1>1. ASSUME NEW fd \in Fd,
             BeginRead(fd) \/ BeginPread(fd) \/ BeginWrite(fd) \/ BeginPwrite(fd)
      PROVE  Positions!Begin
  <2>1. ~Busy /\ moved' = <<>> /\ UNCHANGED <<kind, file, offset, append>>
    BY <1>1 DEF BeginRead, BeginPread, BeginWrite, BeginPwrite
  <2>2. Busy' /\ call'.before = file
    <3>1. \E made, iovs, at : call' = Under(made, iovs, at)
      BY <1>1 DEF BeginRead, BeginPread, BeginWrite, BeginPwrite
    <3> QED
      BY <3>1 DEF Under, Busy
  <2>3. \E F \in SUBSET Fd : listed' = listed \ F
    <3>1. listed' = listed \ {fd} \/ listed' = listed \ {}
      BY <1>1 DEF BeginRead, BeginPread, BeginWrite, BeginPwrite
    <3> QED
      BY <3>1
  <2> QED
    BY <2>1, <2>2, <2>3, AbsBegins
<1>2. CASE FillBuffer \/ StoreBuffer
  <2>1. Busy /\ UNCHANGED <<kind, offset, append, listed>>
    BY <1>2 DEF FillBuffer, StoreBuffer
  <2>2. \E n, iovs : Onward(n, iovs)
    BY <1>2, FillFacts, StoreFacts DEF UInv
  <2>3. Busy' /\ call'.before = call.before
    BY <2>2 DEF Onward, Busy
  <2> QED
    BY <2>1, <2>3, AbsStutters
<1>3. CASE Return
  <2>1. call.fd \in Fd /\ call.op \in {"read", "pread", "write", "pwrite"}
    BY <1>3, ReturnFacts DEF OfRead, OfWrite
  <2> QED
    BY <1>3, <2>1, AbsReads, AbsPositionedReads, AbsWrites, AbsPositionedWrites
       DEF Positions!AbsNext
<1>4. CASE OtherProcess
  <2>1. ~Busy /\ ~Busy' /\ call' = NoCall /\ moved' = <<>>
    BY <1>4, OneStep DEF OtherProcess, NoCall, Made
  <2>2. Positions!OtherProcess
    BY <1>4, <2>1 DEF OtherProcess, Positions!OtherProcess, NoCall, OnHost
  <2> QED
    BY <2>2 DEF Positions!AbsNext
<1>5. ASSUME NEW fd \in Fd,
             Seek(fd) \/ Readdir(fd) \/ SetFlags(fd) \/ SetSize(fd) \/ Allocate(fd)
      PROVE  Positions!AbsNext
  BY <1>5, AbsSeeks, AbsOthers DEF Positions!AbsNext
<1>6. CASE UNCHANGED vars
  BY <1>6 DEF vars, Positions!absVars, Busy, OnHost
<1> QED
  BY <1>1, <1>2, <1>3, <1>4, <1>5, <1>6 DEF Next, Positions!AbsNext

LEMMA AbsStart == Init => Positions!AbsInit
BY DEF Init, Positions!AbsInit, Busy, NoCall

(* Every byte-oriented call, split over its buffers, short, failing or     *)
(* appending, is one step of a file with one position per descriptor.      *)
THEOREM CallsAreAtomicHolds == Spec => CallsAreAtomic
BY InitUInv, NextUInv, AbsStart, AbsStep, PTL
   DEF Spec, CallsAreAtomic, Positions!AbsSpec
=============================================================================
