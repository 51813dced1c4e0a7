-------------------------------- MODULE Poll --------------------------------
(***************************************************************************)
(* poll_oneoff, as an event loop of the guest uses it, with its timeouts   *)
(* in integers of Width bits, and the owner assertion of one State with    *)
(* more than one goroutine.                                                *)
(*                                                                         *)
(* A guest arms timers, asks for what is left of each (by clock_time_get)  *)
(* and polls for them, for files and for a timeout that stands for ever,   *)
(* and so on for as long as timers are armed.  Relative timeouts only: the *)
(* code reads no flags.  External: the guest, time.Sleep, the clock.       *)
(***************************************************************************)
EXTENDS Integers, FiniteSets, SequencesExt

CONSTANTS
    Goroutine,     \* those that call one State
    Timer,         \* timers
    TimersOf,      \* those of each goroutine's guest
    FilesOf,       \* what each may ask of files at once: sets of [tag, fd]
    Endless,       \* those whose guest may ask for a timeout that stands for ever
    MayAsk(_),     \* the orders a guest may write its subscriptions in
    NumFds,        \* the size of the descriptor table
    Width,         \* the width of a timeout in bits, 64 in the code
    MaxDeadline,   \* bound: the last deadline of a timer
    MaxNow         \* bound: where the clock stops; it stands for every later time

VARIABLES
    now,
    deadline,      \* deadline[g][t]: of an armed timer; Unset before, and
                   \* Fired once the guest has seen its event
    call,          \* call[g]: the poll under way
    ownerGID

vars == <<now, deadline, call, ownerGID>>

CONSTANTS
    Fired,
    Unset          \* of a timer not armed, and of a State nobody has called

FileSub == [tag : {"fd_read", "fd_write"}, fd : Int]

ASSUME PollAssumption ==
    /\ TimersOf \in [Goroutine -> SUBSET Timer] /\ IsFiniteSet(Timer)
    /\ FilesOf \in [Goroutine -> SUBSET SUBSET FileSub]
    /\ \A g \in Goroutine : \A files \in FilesOf[g] : IsFiniteSet(files)
    /\ NumFds \in Nat /\ Width \in Nat \ {0}
    /\ MaxDeadline \in Nat /\ MaxDeadline < 2 ^ (Width - 1)
    /\ MaxNow \in Nat /\ MaxNow > MaxDeadline
    /\ {Fired, Unset} \cap Int = {} /\ Fired # Unset /\ Unset \notin Goroutine

(* All that is used of exponentiation.                                     *)
ASSUME PowersOfTwo ==
    2 ^ (Width - 1) \in Nat /\ 2 ^ Width = 2 ^ (Width - 1) + 2 ^ (Width - 1)

Call(at, subs, until, events) ==
    [at |-> at, subs |-> subs, until |-> until, events |-> events]

Idle == Call("idle", <<>>, 0, {})

Init ==
    /\ now = 0
    /\ deadline = [g \in Goroutine |-> [t \in Timer |-> Unset]]
    /\ call = [g \in Goroutine |-> Idle]
    /\ ownerGID = Unset

-----------------------------------------------------------------------------
(* Subscriptions: of clocks, by their timeouts, and of files.              *)
Armed(g) == { t \in Timer : deadline[g][t] \notin {Unset, Fired} }

Remaining(g, t) == IF deadline[g][t] > now THEN deadline[g][t] - now ELSE 0

ForTimer(g, t) == [tag |-> "clock", for |-> {t}, timeout |-> Remaining(g, t)]

Forever == [tag |-> "clock", for |-> {}, timeout |-> 2 ^ Width - 1]

ForFile(s) == [tag |-> s.tag, for |-> {s.fd}, timeout |-> 0]

IsClock(sub) == sub.tag = "clock"

(* int64(binary.LittleEndian.Uint64(...))                                  *)
Signed(u) == IF u < 2 ^ (Width - 1) THEN u ELSE u - 2 ^ Width

(* As "MinTimeoutOf", without the test for no timeout yet.                 *)
MinTimeoutUnset(subs) ==
    LET min[i \in 0..Len(subs)] ==
            IF i = 0 THEN -1
            ELSE IF IsClock(subs[i]) /\ Signed(subs[i].timeout) < min[i - 1]
                 THEN Signed(subs[i].timeout) ELSE min[i - 1]
    IN  min[Len(subs)]

(* minClockTimeout: min[i] after the first i subscriptions.                *)
MinTimeoutOf(subs) ==
    LET min[i \in 0..Len(subs)] ==
            IF i = 0 THEN -1
            ELSE IF IsClock(subs[i])
                      /\ (min[i - 1] < 0 \/ Signed(subs[i].timeout) < min[i - 1])
                 THEN Signed(subs[i].timeout) ELSE min[i - 1]
    IN  min[Len(subs)]

WriteEmitted(subs) == \E i \in DOMAIN subs : subs[i].tag = "fd_write"

Sleeps(subs) == ~WriteEmitted(subs) /\ MinTimeoutOf(subs) > 0

(* Pass 1: an event for every file, at once, with EBADF for a number that  *)
(* is not in the table.  (The order of the events is left out.)            *)
FileEvents(subs) ==
    { [sub |-> i, errno |-> IF \A fd \in subs[i].for : fd \in 0..(NumFds - 1)
                            THEN "success" ELSE "badf"] :
        i \in { j \in DOMAIN subs : ~IsClock(subs[j]) } }

(* As "ClockDue", with every clock left out beside an fd_write.            *)
ClockDueUnlessWrite(subs, i) ==
    /\ ~WriteEmitted(subs)
    /\ MinTimeoutOf(subs) >= 0 /\ Signed(subs[i].timeout) = MinTimeoutOf(subs)

(* As "ClockDue", with every clock reported after the sleep.               *)
ClockDueAfterSleep(subs, i) ==
    IF WriteEmitted(subs) THEN Signed(subs[i].timeout) = 0 ELSE MinTimeoutOf(subs) >= 0

(* Pass 2: which clocks are reported.                                      *)
ClockDue(subs, i) ==
    IF WriteEmitted(subs) THEN Signed(subs[i].timeout) = 0
    ELSE MinTimeoutOf(subs) >= 0 /\ Signed(subs[i].timeout) = MinTimeoutOf(subs)

ClockEvents(subs) ==
    { [sub |-> i, errno |-> "success"] :
        i \in { j \in DOMAIN subs : IsClock(subs[j]) /\ ClockDue(subs, j) } }

-----------------------------------------------------------------------------
Arm(g) ==
    /\ call[g].at = "idle"
    /\ \E t \in TimersOf[g], d \in now..MaxDeadline :
          /\ deadline[g][t] = Unset
          /\ deadline' = [deadline EXCEPT ![g][t] = d]
    /\ UNCHANGED <<now, call, ownerGID>>

(* The guest writes its subscriptions, in an order of its choice.          *)
Prepare(g) ==
    /\ call[g].at = "idle" /\ Armed(g) # {}
    /\ \E files \in FilesOf[g], always \in SUBSET {Forever} :
       /\ g \notin Endless => always = {}
       /\ \E order \in SetToSeqs({ ForTimer(g, t) : t \in Armed(g) }
                                   \cup { ForFile(s) : s \in files } \cup always) :
             /\ MayAsk(order)
             /\ call' = [call EXCEPT ![g] = Call("calls", order, 0, {})]
    /\ UNCHANGED <<now, deadline, ownerGID>>

(* As "MayEnter", with the check made and its outcome dropped.             *)
MayEnterAnyway(g) == TRUE

(* assertSingleOwner, under ownerMu.                                       *)
MayEnter(g) == ownerGID \in {Unset, g}

(* As "Later", with what is relative taken for a time.                     *)
LaterAbsolute(timeout) == timeout

(* When a sleep ends at the earliest.                                      *)
Later(timeout) == IF now + timeout < MaxNow THEN now + timeout ELSE MaxNow

Enter(g) ==
    LET subs == call[g].subs IN
    /\ call[g].at = "calls"
    /\ IF ~MayEnter(g)
       THEN call' = [call EXCEPT ![g] = Call("panicked", <<>>, 0, {})] /\ UNCHANGED ownerGID
       ELSE /\ ownerGID' = IF ownerGID = Unset THEN g ELSE ownerGID
            /\ call' = [call EXCEPT ![g] =
                  IF Sleeps(subs)
                  THEN Call("sleeps", subs, Later(MinTimeoutOf(subs)), FileEvents(subs))
                  ELSE Call("returned", subs, 0, FileEvents(subs) \cup ClockEvents(subs))]
    /\ UNCHANGED <<now, deadline>>

(* time.Sleep returns when the time has passed, or later.                  *)
Wake(g) ==
    /\ call[g].at = "sleeps"
    /\ now >= call[g].until
    /\ call' = [call EXCEPT ![g] =
          Call("returned", @.subs, 0, @.events \cup ClockEvents(@.subs))]
    /\ UNCHANGED <<now, deadline, ownerGID>>

Reported(g) ==
    UNION { call[g].subs[e.sub].for :
              e \in { x \in call[g].events : IsClock(call[g].subs[x.sub]) } }

Handle(g) ==
    /\ call[g].at = "returned"
    /\ deadline' = [deadline EXCEPT ![g] =
          [t \in Timer |-> IF t \in Reported(g) THEN Fired ELSE @[t]]]
    /\ call' = [call EXCEPT ![g] = Idle]
    /\ UNCHANGED <<now, ownerGID>>

Tick ==
    /\ now < MaxNow
    /\ now' = now + 1
    /\ UNCHANGED <<deadline, call, ownerGID>>

Loop(g) == Prepare(g) \/ Enter(g) \/ Wake(g) \/ Handle(g)

Next == Tick \/ \E g \in Goroutine : Arm(g) \/ Loop(g)

(* Time passes, and a goroutine that can run does in the end.              *)
Spec ==
    /\ Init /\ [][Next]_vars
    /\ WF_vars(Tick)
    /\ \A g \in Goroutine : WF_vars(Loop(g))

-----------------------------------------------------------------------------
(* Type invariant: a poll that sleeps has a timer to sleep for.            *)
PollTypeOK ==
    /\ now \in 0..MaxNow
    /\ \A g \in Goroutine :
          /\ \A t \in Armed(g) : deadline[g][t] \in 0..MaxDeadline
          /\ call[g].at \in {"idle", "calls", "sleeps", "returned", "panicked"}
          /\ call[g].at = "sleeps" =>
                \E t \in Armed(g) : call[g].until >= deadline[g][t]
    /\ ownerGID \in Goroutine \cup {Unset}

Clocks(subs) == { i \in DOMAIN subs : IsClock(subs[i]) }

(* The last clock is one whose timeout is negative as an int64.            *)
EndsForEver(subs) ==
    \E i \in Clocks(subs) :
        Signed(subs[i].timeout) < 0 /\ \A j \in Clocks(subs) : j <= i

(* A poll answers all files, and a guest that waits for a timer gets an    *)
(* event, so that its loop does not spin on empty answers, wherever it     *)
(* puts the timeout that stands for ever but behind all of its timers:     *)
(* there that hides them, and with no file to answer nothing is answered.  *)
SomethingAnswered ==
    \A g \in Goroutine :
        LET subs == call[g].subs
            answered == { e.sub : e \in call[g].events }
        IN  call[g].at = "returned" =>
                /\ answered \subseteq DOMAIN subs
                /\ \A i \in DOMAIN subs : ~IsClock(subs[i]) => i \in answered
                /\ answered # {} \/ EndsForEver(subs)

(* No timer is reported before its deadline, even as one of several that   *)
(* are polled for together, or with files that are ready at once.          *)
NoTimerEarly ==
    \A g \in Goroutine :
        call[g].at = "returned" => \A t \in Reported(g) : deadline[g][t] <= now

(* With the owner assertion one goroutine only gets into a poll, however   *)
(* long that sleeps, and those that were refused never do.                 *)
OneOwner ==
    \A g \in Goroutine :
        call[g].at \in {"sleeps", "returned"} \/ Fired \in Range(deadline[g]) => ownerGID = g

(* Every timer fires, unless its goroutine was refused or, from some point *)
(* on, has each of its polls end with the timeout that stands for ever: a  *)
(* guest that polls for a file that is always ready as well starves none,  *)
(* nor does one that puts that timeout before some timers or all.          *)
TimersFire ==
    \A g \in Goroutine : \A t \in TimersOf[g] :
        \/ t \in Armed(g) ~> deadline[g][t] = Fired \/ call[g].at = "panicked"
        \/ <>[](call[g].at = "calls" => EndsForEver(call[g].subs))
=============================================================================
