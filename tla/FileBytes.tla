----------------------------- MODULE FileBytes -----------------------------
(***************************************************************************)
(* The content of a regular file as a sequence of bytes, and what the host *)
(* system calls make of it.  External: pread, pwrite and ftruncate of the  *)
(* machine, as os.File uses them.                                          *)
(***************************************************************************)
EXTENDS Integers, Sequences

CONSTANT Zero      \* the byte that fills holes

Smaller(a, b) == IF a < b THEN a ELSE b
Larger(a, b)  == IF a < b THEN b ELSE a

(* The bytes of c from offset at on, at most n of them.                    *)
Slice(c, at, n) == SubSeq(c, at + 1, Smaller(at + n, Len(c)))

Resized(c, n) == [i \in 1 .. n |-> IF i <= Len(c) THEN c[i] ELSE Zero]

(* Writing the bytes d at offset at; writing none does not extend a file.  *)
Overwrite(c, at, d) ==
    IF d = <<>> THEN c
    ELSE [i \in 1 .. Larger(Len(c), at + Len(d)) |->
            IF i \in at + 1 .. at + Len(d) THEN d[i - at]
            ELSE IF i <= Len(c) THEN c[i] ELSE Zero]
=============================================================================
