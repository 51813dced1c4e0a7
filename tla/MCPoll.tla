------------------------------- MODULE MCPoll -------------------------------
(* An instance of Poll.                                                    *)
EXTENDS Poll

CONSTANT g1, t1

(* One guest has all timers and polls for a file as well, which may be     *)
(* behind the table; the other has the first timer.                        *)
AllAndOne == [g \in Goroutine |-> IF g = g1 THEN Timer ELSE {t1}]

FilesAndNone ==
    [g \in Goroutine |->
        IF g = g1 THEN { {}, {[tag |-> "fd_write", fd |-> 1]}, {[tag |-> "fd_read", fd |-> 3]} }
        ELSE {{}}]

(* The timers are the same to the code, so that one order of them is all,  *)
(* with any deadlines; the timeout that stands for ever stands anywhere    *)
(* among them.  Files go last: they have a pass of their own.              *)
FirstTimerFirst(subs) ==
    \A i, j \in DOMAIN subs :
        /\ IsClock(subs[i]) /\ subs[i].for # {} /\ subs[j].for = {t1} => j <= i
        /\ ~IsClock(subs[i]) /\ IsClock(subs[j]) => j < i
=============================================================================
