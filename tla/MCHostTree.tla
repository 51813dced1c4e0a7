----------------------------- MODULE MCHostTree -----------------------------
(* An instance of HostTree.                                                *)
EXTENDS HostTree

(* A writable mount and a read-only one beside it.                         *)
BesideEachOther ==
    << [guest |-> <<"m">>, host |-> <<"h">>, writable |-> TRUE],
       [guest |-> <<"r">>, host |-> <<"q">>, writable |-> FALSE] >>

HostDirs == { <<>>, <<"h">> }

Rel(segs) == [abs |-> FALSE, segs |-> segs]
Abs(segs) == [abs |-> TRUE, segs |-> segs]

(* Names, ".." inside and at the start, and absolute paths, one through    *)
(* the other mount and one that leaves the first.                          *)
Paths == { Rel(<<".">>), Rel(<<"a">>), Rel(<<"b">>), Rel(<<"a", "b">>),
           Rel(<<"..", "a">>), Rel(<<"a", "..", "b">>), Rel(<<"b", "">>),
           Abs(<<"m", "a">>), Abs(<<"r", "..", "m", "b">>),
           Abs(<<"m", "..", "b">>) }

Shapes == Permutations(File) \cup Permutations(Dir \ {Fixed})
=============================================================================
