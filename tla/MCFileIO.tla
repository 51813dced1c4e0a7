------------------------------ MODULE MCFileIO ------------------------------
EXTENDS FileIO, TLC

CONSTANTS f1, f2, a, b

(* One descriptor that can write, and one of any kind beside it.           *)
AnyBeside == (f1 :> {"os"} @@ f2 :> Kind)

AllRights == [fd \in {f1, f2} |-> Right]

TwoBytes == <<a, b>>

(* A buffer of length 0 and one of two bytes; two buffers of one byte.     *)
Lengths == {<<0, 2>>, <<1, 1>>}
Buffers == {<< <<>> >>, << <<a>>, <<b>> >>}
=============================================================================
