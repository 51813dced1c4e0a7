----------------------------- MODULE MCReaddir -----------------------------
EXTENDS Readdir, TLC

CONSTANTS x, y, z, long

(* One-byte names, and one that does not fit behind another in a buffer.   *)
NameLength ==
    [n \in Name \cup {Dot, DotDot} |->
        IF n = long THEN 6 ELSE IF n = DotDot THEN 2 ELSE 1]
=============================================================================
