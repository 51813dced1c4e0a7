----------------------------- MODULE PollProofs -----------------------------
(* Theorems of Poll, for any goroutines, finite set of timers, files to    *)
(* poll for, deadlines and width of a timeout.                             *)
EXTENDS Poll, InductionFacts, FiniteSetTheorems

-----------------------------------------------------------------------------
(* One owner.  A goroutine got in if its poll sleeps or has returned, or   *)
(* if it has seen a timer fire.                                            *)
GotIn(g) == call[g].at \in {"sleeps", "returned"} \/ \E t \in Timer : deadline[g][t] = Fired

Shapes ==
    /\ DOMAIN call = Goroutine
    /\ \A g \in Goroutine : DOMAIN call[g] = DOMAIN Idle
    /\ DOMAIN deadline = Goroutine
    /\ \A g \in Goroutine : DOMAIN deadline[g] = Timer

OwnerInv == Shapes /\ \A g \in Goroutine : GotIn(g) => ownerGID = g

LEMMA InitOwner == Init => OwnerInv
BY PollAssumption DEF Init, OwnerInv, Shapes, GotIn, Idle, Call

LEMMA NextOwner == OwnerInv /\ [Next]_vars => OwnerInv'
<1> SUFFICES ASSUME OwnerInv, [Next]_vars PROVE OwnerInv'
  OBVIOUS
<1> USE DEF OwnerInv, Shapes, GotIn, Idle, Call
<1>1. CASE Tick
  BY <1>1 DEF Tick
<1>2. ASSUME NEW g \in Goroutine, Arm(g) PROVE OwnerInv'
  BY <1>2, PollAssumption DEF Arm
<1>3. ASSUME NEW g \in Goroutine, Prepare(g) PROVE OwnerInv'
  BY <1>3 DEF Prepare
<1>4. ASSUME NEW g \in Goroutine, Enter(g) PROVE OwnerInv'
  BY <1>4, PollAssumption DEF Enter, MayEnter
<1>5. ASSUME NEW g \in Goroutine, Wake(g) PROVE OwnerInv'
  BY <1>5 DEF Wake
<1>6. ASSUME NEW g \in Goroutine, Handle(g) PROVE OwnerInv'
  BY <1>6 DEF Handle
<1>7. CASE UNCHANGED vars
  BY <1>7 DEF vars
<1> QED
  BY <1>1, <1>2, <1>3, <1>4, <1>5, <1>6, <1>7 DEF Next, Loop

(* With the owner assertion only one goroutine is ever served a poll, for  *)
(* any number of goroutines and however long polls sleep                   *)
(* (assertSingleOwner and Xpoll_oneoff).                                   *)
THEOREM OneOwnerHolds == Spec => []OneOwner
<1>1. OwnerInv => OneOwner
  BY DEF OwnerInv, Shapes, GotIn, OneOwner, Range
<1> QED
  BY InitOwner, NextOwner, <1>1, PTL DEF Spec

-----------------------------------------------------------------------------
(* No timer early.  Bound: what the guest asks for covers what is left     *)
(* of each timer, and so does the sleep, of those that will be reported.   *)
Half == 2 ^ (Width - 1)

Sub == [tag : {"clock", "fd_read", "fd_write"}, for : SUBSET (Timer \cup Int),
        timeout : 0..(2 * Half - 1)]

Event == [sub : Nat, errno : {"success", "badf"}]

IsCall(c) ==
    /\ c = Call(c.at, c.subs, c.until, c.events)
    /\ c.subs \in Seq(Sub)
    /\ c.events \subseteq Event

(* (Of "until" nothing is said: SleepsEnough bounds it from below.)        *)
CallTypes == call = [g \in Goroutine |-> call[g]] /\ \A g \in Goroutine : IsCall(call[g])

PollTypes ==
    /\ now \in 0..MaxNow
    /\ deadline \in [Goroutine -> [Timer -> {Unset, Fired} \cup (0..MaxDeadline)]]
    /\ CallTypes
    /\ \A g \in Goroutine : call[g].at = "idle" => call[g].subs = <<>>

(* The timers of the clock subscriptions of g.                             *)
ClockSubs(g) == { i \in DOMAIN call[g].subs : IsClock(call[g].subs[i]) }

AsksEnough ==
    \A g \in Goroutine : \A i \in ClockSubs(g) : \A t \in call[g].subs[i].for :
        /\ t \in Timer
        /\ deadline[g][t] \in 0..MaxDeadline
        /\ deadline[g][t] <= now + call[g].subs[i].timeout
        /\ call[g].subs[i].timeout < Half

SleepsEnough ==
    \A g \in Goroutine :
        call[g].at = "sleeps" =>
            /\ \A e \in call[g].events : ~IsClock(call[g].subs[e.sub])
            /\ \A i \in ClockSubs(g) :
                  ClockDue(call[g].subs, i) =>
                      \A t \in call[g].subs[i].for :
                          call[g].until \in Nat /\ deadline[g][t] <= call[g].until

ReportsInTime ==
    \A g \in Goroutine :
        call[g].at = "returned" =>
            \A e \in call[g].events : IsClock(call[g].subs[e.sub]) =>
                \A t \in call[g].subs[e.sub].for : deadline[g][t] \in 0..now

TimeInv == PollTypes /\ AsksEnough /\ SleepsEnough /\ ReportsInTime

LEMMA HalfType == Half \in Nat /\ MaxDeadline < Half /\ 2 ^ Width = 2 * Half
BY PollAssumption, PowersOfTwo, SMT DEF Half

LEMMA InitTime == Init => TimeInv
<1> SUFFICES ASSUME Init PROVE TimeInv
  OBVIOUS
<1>1. IsCall(Idle) /\ Idle.subs = <<>> /\ Idle.at = "idle"
  BY DEF Idle, CallTypes, IsCall, Call
<1>2. PollTypes
  BY <1>1, PollAssumption DEF Init, PollTypes, CallTypes
<1>3. \A g \in Goroutine : ClockSubs(g) = {} /\ call[g].at = "idle"
  BY <1>1 DEF Init, ClockSubs
<1> QED
  BY <1>2, <1>3 DEF TimeInv, AsksEnough, SleepsEnough, ReportsInTime

(* SetToSeqs gives sequences of the set.                                   *)
LEMMA SetToSeqsInSeq ==
    ASSUME NEW S, IsFiniteSet(S)
    PROVE  SetToSeqs(S) \subseteq Seq(S)
BY FS_CardinalityType DEF SetToSeqs

LEMMA TimersFinite ==
    ASSUME NEW g \in Goroutine
    PROVE  IsFiniteSet({ ForTimer(g, t) : t \in Armed(g) })
<1> DEFINE T == { ForTimer(g, t) : t \in Armed(g) }
           f == [t \in Armed(g) |-> ForTimer(g, t)]
<1>1. IsFiniteSet(Armed(g))
  BY PollAssumption, FS_Subset DEF Armed
<1>2. f \in Surjection(Armed(g), T)
  BY DEF Surjection
<1> QED
  BY <1>1, <1>2, FS_Surjection

LEMMA FilesFinite ==
    ASSUME NEW g \in Goroutine, NEW files \in FilesOf[g]
    PROVE  IsFiniteSet({ ForFile(s) : s \in files })
<1> DEFINE T == { ForFile(s) : s \in files }
           f == [s \in files |-> ForFile(s)]
<1>1. IsFiniteSet(files)
  BY PollAssumption
<1>2. f \in Surjection(files, T)
  BY DEF Surjection
<1> QED
  BY <1>1, <1>2, FS_Surjection

LEMMA AskedFinite ==
    ASSUME NEW g \in Goroutine, NEW files \in FilesOf[g], NEW always \in SUBSET {Forever}
    PROVE  IsFiniteSet({ ForTimer(g, t) : t \in Armed(g) }
                         \cup { ForFile(s) : s \in files } \cup always)
<1>1. IsFiniteSet(always)
  BY FS_EmptySet, FS_Singleton, FS_Subset
<1> QED
  BY <1>1, TimersFinite, FilesFinite, FS_Union

(* What a guest may ask for, and what it means for a clock.                *)
LEMMA Subscriptions ==
    ASSUME PollTypes, NEW g \in Goroutine, NEW files \in FilesOf[g]
    PROVE  /\ \A t \in Armed(g) :
                 /\ ForTimer(g, t) \in Sub /\ ForTimer(g, t).for = {t}
                 /\ t \in Timer /\ deadline[g][t] \in 0..MaxDeadline
                 /\ deadline[g][t] <= now + ForTimer(g, t).timeout
                 /\ ForTimer(g, t).timeout < Half
           /\ \A s \in files : ForFile(s) \in Sub /\ ~IsClock(ForFile(s))
           /\ Forever \in Sub /\ Forever.for = {}
<1>1. ASSUME NEW t \in Armed(g)
      PROVE  /\ ForTimer(g, t) \in Sub /\ ForTimer(g, t).for = {t}
             /\ t \in Timer /\ deadline[g][t] \in 0..MaxDeadline
             /\ deadline[g][t] <= now + ForTimer(g, t).timeout
             /\ ForTimer(g, t).timeout < Half
  <2>1. t \in Timer /\ deadline[g][t] \in 0..MaxDeadline
    BY <1>1 DEF Armed, PollTypes
  <2>2. /\ Remaining(g, t) \in 0..MaxDeadline
        /\ deadline[g][t] <= now + Remaining(g, t)
    BY <2>1, PollAssumption DEF Remaining, PollTypes
  <2>3. Remaining(g, t) \in 0..(2 * Half - 1) /\ Remaining(g, t) < Half
    BY <2>2, HalfType, PollAssumption
  <2>4. {t} \in SUBSET (Timer \cup Int)
    BY <2>1
  <2>5. ForTimer(g, t) \in Sub
    BY <2>3, <2>4 DEF ForTimer, Sub
  <2> QED
    BY <2>1, <2>2, <2>3, <2>5 DEF ForTimer
<1>2. \A s \in files : ForFile(s) \in Sub /\ ~IsClock(ForFile(s))
  <2>1. \A s \in files : s.tag \in {"fd_read", "fd_write"} /\ s.fd \in Int
    BY PollAssumption DEF FileSub
  <2>2. 0 \in 0..(2 * Half - 1)
    BY HalfType, PollAssumption
  <2>3. \A s \in files : {s.fd} \in SUBSET (Timer \cup Int)
    BY <2>1
  <2>4. \A s \in files : ForFile(s) \in Sub
    BY <2>1, <2>2, <2>3 DEF ForFile, Sub
  <2>5. \A s \in files : ~IsClock(ForFile(s))
    BY <2>1 DEF ForFile, IsClock
  <2> QED
    BY <2>4, <2>5
<1>3. Forever \in Sub /\ Forever.for = {}
  <2>1. 2 ^ Width - 1 \in 0..(2 * Half - 1)
    BY HalfType, PollAssumption
  <2>2. {} \in SUBSET (Timer \cup Int)
    OBVIOUS
  <2> QED
    BY <2>1, <2>2 DEF Forever, Sub
<1> QED
  BY <1>1, <1>2, <1>3

LEMMA PrepareTime ==
    ASSUME TimeInv, NEW g \in Goroutine, Prepare(g)
    PROVE  TimeInv'
<1>1. PICK files \in FilesOf[g], always \in SUBSET {Forever} :
        \E order \in SetToSeqs({ ForTimer(g, t) : t \in Armed(g) }
                                \cup { ForFile(s) : s \in files } \cup always) :
          call' = [call EXCEPT ![g] = Call("calls", order, 0, {})]
  BY DEF Prepare
<1> DEFINE S == { ForTimer(g, t) : t \in Armed(g) } \cup { ForFile(s) : s \in files } \cup always
<1>2. PICK subs \in SetToSeqs(S) :
          call' = [call EXCEPT ![g] = Call("calls", subs, 0, {})]
  BY <1>1
<1>3. subs \in Seq(S)
  BY AskedFinite, SetToSeqsInSeq
<1>4. /\ S \subseteq Sub
      /\ \A x \in S : IsClock(x) => \A t \in x.for :
            /\ t \in Timer /\ deadline[g][t] \in 0..MaxDeadline
            /\ deadline[g][t] <= now + x.timeout
            /\ x.timeout < Half
  BY Subscriptions DEF TimeInv
<1>5. \A i \in DOMAIN subs : subs[i] \in S
  <2> HIDE DEF S
  <2> QED
    BY <1>3
<1>7. subs \in Seq(Sub)
  <2> HIDE DEF S
  <2> QED
    BY <1>3, <1>4
<1> HIDE DEF S
<1>8. /\ call'[g] = Call("calls", subs, 0, {})
      /\ call'[g].at = "calls" /\ call'[g].subs = subs
  BY <1>2 DEF Call, TimeInv, PollTypes, CallTypes
<1>9. CallTypes' /\ \A h \in Goroutine : h # g => call'[h] = call[h]
  <2>1. IsCall(Call("calls", subs, 0, {}))
    BY <1>7 DEF CallTypes, IsCall, Call
  <2> QED
    BY <2>1, <1>2, <1>8 DEF TimeInv, PollTypes, CallTypes
<1>10. PollTypes'
  BY <1>8, <1>9 DEF TimeInv, PollTypes, Prepare
<1>11. AsksEnough'
  <2> SUFFICES ASSUME NEW h \in Goroutine, NEW i \in ClockSubs(h)', NEW t \in call'[h].subs[i].for
               PROVE  /\ t \in Timer /\ deadline'[h][t] \in 0..MaxDeadline
                      /\ deadline'[h][t] <= now' + call'[h].subs[i].timeout
                      /\ call'[h].subs[i].timeout < Half
    BY DEF AsksEnough
  <2>1. now' = now /\ deadline' = deadline
    BY DEF Prepare
  <2>2. CASE h = g
    BY <1>4, <1>5, <1>8, <2>1, <2>2 DEF ClockSubs
  <2>3. CASE h # g
    BY <1>9, <2>1, <2>3 DEF ClockSubs, TimeInv, AsksEnough
  <2> QED
    BY <2>2, <2>3
<1>12. SleepsEnough' /\ ReportsInTime'
  BY <1>8, <1>9 DEF TimeInv, SleepsEnough, ReportsInTime, ClockSubs, Prepare
<1> QED
  BY <1>10, <1>11, <1>12 DEF TimeInv

LEMMA SubTypes ==
    ASSUME TimeInv, NEW g \in Goroutine, NEW i \in DOMAIN call[g].subs
    PROVE  /\ call[g].subs \in Seq(Sub) /\ i \in Nat /\ call[g].subs[i] \in Sub
           /\ call[g].subs[i].timeout \in Nat /\ call[g].subs[i].timeout < 2 * Half
<1>1. call[g].subs \in Seq(Sub)
  BY DEF TimeInv, PollTypes, CallTypes, IsCall, Call
<1>2. i \in Nat /\ call[g].subs[i] \in Sub
  BY <1>1
<1>3. call[g].subs[i].timeout \in 0..(2 * Half - 1)
  BY <1>2 DEF Sub
<1> QED
  BY <1>1, <1>2, <1>3, HalfType

LEMMA ArmTime ==
    ASSUME TimeInv, NEW g \in Goroutine, Arm(g)
    PROVE  TimeInv'
<1>1. PICK t \in Timer, d \in 0..MaxDeadline :
        deadline' = [deadline EXCEPT ![g][t] = d]
  <2>1. TimersOf[g] \subseteq Timer /\ now..MaxDeadline \subseteq 0..MaxDeadline
    BY PollAssumption DEF TimeInv, PollTypes, CallTypes
  <2> QED
    BY <2>1 DEF Arm
<1>2. call' = call /\ now' = now /\ call[g].at = "idle"
  BY DEF Arm
<1>3. ClockSubs(g) = {}
  BY <1>2 DEF ClockSubs, TimeInv, PollTypes
<1>4. \A h \in Goroutine : h # g => deadline'[h] = deadline[h]
  BY <1>1 DEF TimeInv, PollTypes, CallTypes
<1>5. PollTypes'
  BY <1>1, <1>2 DEF TimeInv, PollTypes, CallTypes
<1>6. \A h \in Goroutine : ClockSubs(h)' = ClockSubs(h)
  BY <1>2 DEF ClockSubs
<1>7. AsksEnough'
  BY <1>2, <1>3, <1>4, <1>6 DEF TimeInv, AsksEnough
<1>8. SleepsEnough' /\ ReportsInTime'
  BY <1>2, <1>4, <1>6 DEF TimeInv, SleepsEnough, ReportsInTime
<1> QED
  BY <1>5, <1>7, <1>8 DEF TimeInv

LEMMA TickTime == ASSUME TimeInv, Tick PROVE TimeInv'
<1>1. /\ now \in Nat /\ now' = now + 1 /\ now' \in 0..MaxNow
      /\ call' = call /\ deadline' = deadline
  BY PollAssumption DEF Tick, TimeInv, PollTypes
<1>2. PollTypes'
  BY <1>1 DEF TimeInv, PollTypes, CallTypes
<1>3. \A g \in Goroutine : ClockSubs(g)' = ClockSubs(g)
  BY <1>1 DEF ClockSubs
<1>4. AsksEnough'
  <2> SUFFICES ASSUME NEW g \in Goroutine, NEW i \in ClockSubs(g), NEW t \in call[g].subs[i].for
               PROVE  deadline[g][t] <= now' + call[g].subs[i].timeout
    BY <1>1, <1>3 DEF AsksEnough, TimeInv
  <2>1. call[g].subs[i].timeout \in Nat
    BY SubTypes DEF ClockSubs
  <2>2. deadline[g][t] \in Nat /\ deadline[g][t] <= now + call[g].subs[i].timeout
    BY DEF TimeInv, AsksEnough
  <2> QED
    BY <1>1, <2>1, <2>2
<1>5. SleepsEnough'
  BY <1>1, <1>3 DEF TimeInv, SleepsEnough
<1>6. ReportsInTime'
  <2> SUFFICES ASSUME NEW g \in Goroutine, call[g].at = "returned",
                      NEW e \in call[g].events, IsClock(call[g].subs[e.sub]),
                      NEW t \in call[g].subs[e.sub].for
               PROVE  deadline[g][t] \in 0..now'
    BY <1>1 DEF ReportsInTime
  <2> QED
    BY <1>1 DEF TimeInv, ReportsInTime
<1> QED
  BY <1>2, <1>4, <1>5, <1>6 DEF TimeInv

(* A step of g after it has asked: the other goroutines, the clock and the *)
(* deadlines stay, and g's subscriptions.                                  *)
LEMMA Answers ==
    ASSUME TimeInv, NEW g \in Goroutine, call[g].at # "idle",
           NEW c, IsCall(c), c.subs = call[g].subs, c.at # "idle",
           call' = [call EXCEPT ![g] = c],
           UNCHANGED <<now, deadline>>,
           c.at = "sleeps" =>
               /\ \A e \in c.events : ~IsClock(c.subs[e.sub])
               /\ \A i \in ClockSubs(g) : ClockDue(c.subs, i) =>
                      \A t \in c.subs[i].for : c.until \in Nat /\ deadline[g][t] <= c.until,
           c.at = "returned" =>
               \A e \in c.events : IsClock(c.subs[e.sub]) =>
                   \A t \in c.subs[e.sub].for : deadline[g][t] \in 0..now
    PROVE  TimeInv'
<1>1. /\ call'[g] = c
      /\ \A h \in Goroutine : h # g => call'[h] = call[h]
      /\ \A h \in Goroutine : call'[h].subs = call[h].subs
      /\ CallTypes'
  BY DEF TimeInv, PollTypes, CallTypes
<1>2. \A h \in Goroutine : ClockSubs(h)' = ClockSubs(h)
  BY <1>1 DEF ClockSubs
<1>3. PollTypes'
  BY <1>1 DEF TimeInv, PollTypes, CallTypes
<1>4. AsksEnough'
  BY <1>1, <1>2 DEF TimeInv, AsksEnough
<1>5. SleepsEnough'
  BY <1>1, <1>2 DEF TimeInv, SleepsEnough
<1>6. ReportsInTime'
  BY <1>1 DEF TimeInv, ReportsInTime
<1> QED
  BY <1>3, <1>4, <1>5, <1>6 DEF TimeInv

(* The events of a poll: of a clock only if it is due.                     *)
LEMMA Events ==
    ASSUME TimeInv, NEW g \in Goroutine
    PROVE  /\ FileEvents(call[g].subs) \subseteq Event
           /\ ClockEvents(call[g].subs) \subseteq Event
           /\ \A e \in FileEvents(call[g].subs) : ~IsClock(call[g].subs[e.sub])
           /\ \A e \in ClockEvents(call[g].subs) :
                 e.sub \in ClockSubs(g) /\ ClockDue(call[g].subs, e.sub)
<1>1. \A i \in DOMAIN call[g].subs : i \in Nat
  BY SubTypes
<1> QED
  BY <1>1 DEF FileEvents, ClockEvents, Event, ClockSubs

(* A short timeout is not negative.                                        *)
LEMMA ShortTimeouts ==
    ASSUME TimeInv, NEW g \in Goroutine, NEW i \in ClockSubs(g), NEW t \in call[g].subs[i].for
    PROVE  /\ Signed(call[g].subs[i].timeout) = call[g].subs[i].timeout
           /\ call[g].subs[i].timeout \in Nat
           /\ deadline[g][t] \in 0..MaxDeadline
           /\ deadline[g][t] <= now + call[g].subs[i].timeout
BY SubTypes DEF TimeInv, AsksEnough, ClockSubs, Signed, Half

LEMMA EnterTime ==
    ASSUME TimeInv, NEW g \in Goroutine, Enter(g)
    PROVE  TimeInv'
<1> DEFINE subs == call[g].subs
<1>1. call[g].at = "calls" /\ now' = now /\ deadline' = deadline /\ now \in 0..MaxNow
  BY DEF Enter, TimeInv, PollTypes
<1>2. CASE ~MayEnter(g)
  <2> DEFINE c == Call("panicked", <<>>, 0, {})
  <2>1. /\ c.at = "panicked" /\ c.subs = <<>> /\ IsCall(c)
        /\ call' = [call EXCEPT ![g] = c]
    BY <1>2 DEF Enter, Idle, CallTypes, IsCall, Call
  <2> HIDE DEF c
  <2>2. /\ call'[g] = c /\ CallTypes'
        /\ \A h \in Goroutine : h # g => call'[h] = call[h]
    BY <2>1 DEF TimeInv, PollTypes, CallTypes
  <2>3. ClockSubs(g)' = {} /\ \A h \in Goroutine : h # g => ClockSubs(h)' = ClockSubs(h)
    BY <2>1, <2>2 DEF ClockSubs
  <2>4. PollTypes'
    BY <1>1, <2>1, <2>2 DEF TimeInv, PollTypes, CallTypes
  <2>5. AsksEnough'
    BY <1>1, <2>2, <2>3 DEF TimeInv, AsksEnough
  <2>6. SleepsEnough' /\ ReportsInTime'
    BY <1>1, <2>1, <2>2, <2>3 DEF TimeInv, SleepsEnough, ReportsInTime
  <2> QED
    BY <2>4, <2>5, <2>6 DEF TimeInv
<1>3. CASE MayEnter(g) /\ Sleeps(subs)
  <2> DEFINE until == Later(MinTimeoutOf(subs))
             c == Call("sleeps", subs, until, FileEvents(subs))
  <2>1. call' = [call EXCEPT ![g] = c]
    BY <1>3 DEF Enter
  <2>2. ~WriteEmitted(subs) /\ MinTimeoutOf(subs) > 0
    BY <1>3 DEF Sleeps
  <2>3. \A i \in ClockSubs(g) : ClockDue(subs, i) =>
            \A t \in subs[i].for : until \in Nat /\ deadline[g][t] <= until
    BY <1>1, <2>2, ShortTimeouts, PollAssumption DEF ClockDue, Later
  <2>4. IsCall(c)
    BY Events, SubTypes DEF CallTypes, IsCall, Call, TimeInv, PollTypes
  <2> QED
    <3>1. c.at = "sleeps" /\ c.subs = subs /\ c.until = until /\ c.events = FileEvents(subs)
      BY DEF Call
    <3> HIDE DEF c, until
    <3> QED
      BY <1>1, <2>1, <2>3, <2>4, <3>1, Events, Answers
<1>4. CASE MayEnter(g) /\ ~Sleeps(subs)
  <2> DEFINE events == FileEvents(subs) \cup ClockEvents(subs)
             c == Call("returned", subs, 0, events)
  <2>1. call' = [call EXCEPT ![g] = c]
    BY <1>4 DEF Enter
  <2>2. ASSUME NEW i \in ClockSubs(g), ClockDue(subs, i), NEW t \in subs[i].for
        PROVE  deadline[g][t] \in 0..now
    <3>1. subs[i].timeout = 0
      BY <1>4, <2>2, ShortTimeouts DEF ClockDue, Sleeps
    <3> QED
      BY <1>1, <3>1, ShortTimeouts
  <2>3. \A e \in events : IsClock(subs[e.sub]) =>
            \A t \in subs[e.sub].for : deadline[g][t] \in 0..now
    BY <2>2, Events
  <2>4. IsCall(c)
    BY Events DEF CallTypes, IsCall, Call, TimeInv, PollTypes
  <2> QED
    <3>1. c.at = "returned" /\ c.subs = subs /\ c.events = events
      BY DEF Call
    <3> HIDE DEF c, events
    <3> QED
      BY <1>1, <2>1, <2>3, <2>4, <3>1, Answers
<1> QED
  BY <1>2, <1>3, <1>4

LEMMA WakeTime ==
    ASSUME TimeInv, NEW g \in Goroutine, Wake(g)
    PROVE  TimeInv'
<1> DEFINE subs == call[g].subs
           events == call[g].events \cup ClockEvents(subs)
           c == Call("returned", subs, 0, events)
<1>1. /\ call[g].at = "sleeps" /\ now' = now /\ deadline' = deadline
      /\ now \in Nat /\ IsCall(call[g]) /\ now >= call[g].until
  BY PollAssumption DEF Wake, TimeInv, PollTypes, CallTypes
<1>2. call' = [call EXCEPT ![g] = c]
  BY DEF Wake, TimeInv, PollTypes, CallTypes
<1>3. ASSUME NEW i \in ClockSubs(g), ClockDue(subs, i), NEW t \in subs[i].for
      PROVE  deadline[g][t] \in 0..now
  <2>1. deadline[g][t] <= call[g].until /\ call[g].until \in Nat
    BY <1>1, <1>3 DEF TimeInv, SleepsEnough, CallTypes, IsCall, Call
  <2> QED
    BY <1>1, <2>1, ShortTimeouts, PollAssumption
<1>4. \A e \in events : IsClock(subs[e.sub]) =>
          \A t \in subs[e.sub].for : deadline[g][t] \in 0..now
  BY <1>1, <1>3, Events DEF TimeInv, SleepsEnough
<1>5. IsCall(c)
  BY <1>1, Events DEF CallTypes, IsCall, Call
<1>6. c.at = "returned" /\ c.subs = subs /\ c.events = events
  BY DEF Call
<1> HIDE DEF c, events
<1> QED
  BY <1>1, <1>2, <1>4, <1>5, <1>6, Answers

LEMMA HandleTime ==
    ASSUME TimeInv, NEW g \in Goroutine, Handle(g)
    PROVE  TimeInv'
<1>1. /\ now' = now /\ IsCall(Idle) /\ Idle.subs = <<>> /\ Idle.at = "idle"
      /\ call' = [call EXCEPT ![g] = Idle]
  BY DEF Handle, Idle, CallTypes, IsCall, Call
<1>2. /\ call'[g] = Idle /\ CallTypes'
      /\ \A h \in Goroutine : h # g => call'[h] = call[h] /\ deadline'[h] = deadline[h]
      /\ deadline' \in [Goroutine -> [Timer -> {Unset, Fired} \cup (0..MaxDeadline)]]
  BY <1>1 DEF Handle, TimeInv, PollTypes, CallTypes
<1>3. ClockSubs(g)' = {} /\ \A h \in Goroutine : h # g => ClockSubs(h)' = ClockSubs(h)
  BY <1>1, <1>2 DEF ClockSubs
<1>4. PollTypes'
  BY <1>1, <1>2 DEF TimeInv, PollTypes, CallTypes
<1>5. AsksEnough'
  BY <1>1, <1>2, <1>3 DEF TimeInv, AsksEnough
<1>6. SleepsEnough' /\ ReportsInTime'
  BY <1>1, <1>2, <1>3 DEF TimeInv, SleepsEnough, ReportsInTime
<1> QED
  BY <1>4, <1>5, <1>6 DEF TimeInv

LEMMA NextTime == TimeInv /\ [Next]_vars => TimeInv'
<1>1. ASSUME TimeInv, UNCHANGED vars PROVE TimeInv'
  BY <1>1 DEF vars, TimeInv, PollTypes, CallTypes, AsksEnough, SleepsEnough, ReportsInTime, ClockSubs
<1> QED
  BY <1>1, TickTime, ArmTime, PrepareTime, EnterTime, WakeTime, HandleTime DEF Next, Loop

(* poll_oneoff reports no timer before its deadline, for any number of     *)
(* timers and files polled for together and any width of a timeout         *)
(* (Xpoll_oneoff).                                                         *)
THEOREM NoTimerEarlyHolds == Spec => []NoTimerEarly
<1>1. TimeInv => NoTimerEarly
  <2> SUFFICES ASSUME TimeInv, NEW g \in Goroutine, call[g].at = "returned",
                      NEW t \in Reported(g)
               PROVE  deadline[g][t] <= now
    BY DEF NoTimerEarly
  <2>1. deadline[g][t] \in 0..now
    BY DEF Reported, TimeInv, ReportsInTime
  <2> QED
    BY <2>1, PollAssumption DEF TimeInv, PollTypes, CallTypes
<1> QED
  BY InitTime, NextTime, <1>1, PTL DEF Spec

-----------------------------------------------------------------------------
(* The timeout: MinAfter(subs)[i] is minClockTimeout after the first i     *)
(* subscriptions.                                                          *)
Lowered(subs, m, i) ==
    IF IsClock(subs[i]) /\ (m < 0 \/ Signed(subs[i].timeout) < m)
    THEN Signed(subs[i].timeout) ELSE m

MinAfter(subs) ==
    CHOOSE g : g = [i \in 0..Len(subs) |->
        IF i = 0 THEN -1
        ELSE IF IsClock(subs[i]) /\ (g[i - 1] < 0 \/ Signed(subs[i].timeout) < g[i - 1])
             THEN Signed(subs[i].timeout) ELSE g[i - 1]]

LEMMA SignedType ==
    ASSUME NEW subs \in Seq(Sub), NEW i \in DOMAIN subs
    PROVE  /\ subs[i] \in Sub /\ Signed(subs[i].timeout) \in Int
<1>1. subs[i] \in Sub
  OBVIOUS
<1>2. subs[i].timeout \in Int /\ Half \in Int /\ 2 ^ Width = 2 * Half
  BY <1>1, HalfType, PollAssumption DEF Sub
<1> QED
  BY <1>1, <1>2 DEF Signed, Half

LEMMA MinAfterFacts ==
    ASSUME NEW subs \in Seq(Sub)
    PROVE  /\ MinTimeoutOf(subs) = MinAfter(subs)[Len(subs)]
           /\ MinAfter(subs) \in [0..Len(subs) -> Int]
           /\ MinAfter(subs)[0] = -1
           /\ \A i \in 1..Len(subs) :
                 MinAfter(subs)[i] = Lowered(subs, MinAfter(subs)[i - 1], i)
<1> DEFINE n == Len(subs)
           step == [x \in Int \X (1..n) |-> Lowered(subs, x[1], x[2])]
           rec(g) == [i \in 0..n |->
              IF i = 0 THEN -1
              ELSE IF IsClock(subs[i]) /\ (g[i - 1] < 0 \/ Signed(subs[i].timeout) < g[i - 1])
                   THEN Signed(subs[i].timeout) ELSE g[i - 1]]
           chosen == CHOOSE g : g = rec(g)
<1>1. n \in Nat /\ \A i \in 1..n : Signed(subs[i].timeout) \in Int
  BY SignedType
<1>2. step \in [Int \X (1..n) -> Int]
  <2>1. ASSUME NEW x \in Int \X (1..n) PROVE Lowered(subs, x[1], x[2]) \in Int
    <3>1. x[1] \in Int /\ Signed(subs[x[2]].timeout) \in Int
      BY <1>1
    <3> QED
      BY <3>1 DEF Lowered
  <2> QED
    BY <2>1
<1>3. \E g \in [0..n -> Int] : Recurs(g, n, -1, step)
  <2>1. PICK b \in Int : b = -1
    OBVIOUS
  <2> HIDE DEF n, step
  <2>2. \E g \in [0..n -> Int] : Recurs(g, n, b, step)
    BY <1>1, <1>2, Recursion
  <2> QED
    BY <2>1, <2>2
<1>4. PICK g \in [0..n -> Int] :
         g[0] = -1 /\ \A i \in 1..n : g[i] = step[<<g[i - 1], i>>]
  BY <1>3 DEF Recurs
<1>5. \A i \in 1..n : g[i] = Lowered(subs, g[i - 1], i)
  <2> SUFFICES ASSUME NEW i \in 1..n PROVE g[i] = Lowered(subs, g[i - 1], i)
    OBVIOUS
  <2>1. i - 1 \in 0..n
    <3> HIDE DEF n
    <3> QED
      BY <1>1
  <2>2. g[i - 1] \in Int
    BY <1>4, <2>1
  <2>3. <<g[i - 1], i>> \in Int \X (1..n)
    BY <2>2
  <2> QED
    BY <1>4, <2>3
<1>6. g = rec(g)
  <2>1. \A i \in 0..n : g[i] = rec(g)[i]
    <3> SUFFICES ASSUME NEW i \in 0..n PROVE g[i] = rec(g)[i]
      OBVIOUS
    <3>1. CASE i = 0
      BY <1>4, <3>1
    <3>2. CASE i # 0
      <4>1. i \in 1..n
        BY <1>1, <3>2
      <4> QED
        BY <1>5, <3>2, <4>1 DEF Lowered
    <3> QED
      BY <3>1, <3>2
  <2> QED
    BY <1>4, <2>1
<1>7. chosen = rec(chosen)
  BY <1>6
<1>8. MinAfter(subs) = chosen /\ MinTimeoutOf(subs) = chosen[n]
  BY DEF MinAfter, MinTimeoutOf
<1>9. chosen[0] = -1
  <2>1. 0 \in 0..n
    BY <1>1
  <2> QED
    BY <1>7, <2>1
<1>10. ASSUME NEW i \in 1..n PROVE chosen[i] = Lowered(subs, chosen[i - 1], i)
  <2>1. i \in 0..n /\ i # 0
    BY <1>1
  <2> QED
    BY <1>7, <2>1 DEF Lowered
<1>11. chosen = [i \in 0..n |-> chosen[i]]
  BY <1>7
<1> DEFINE T == { i \in 0..n : chosen[i] \in Int }
<1> HIDE DEF chosen, n
<1>12. 0..n \subseteq T
  <2>1. 0 \in T
    BY <1>1, <1>9
  <2>2. ASSUME NEW i \in 1..n, i - 1 \in T PROVE i \in T
    <3>1. Lowered(subs, chosen[i - 1], i) \in Int /\ i \in 0..n
      BY <1>1, <2>2 DEF Lowered
    <3> QED
      BY <1>10, <3>1
  <2> HIDE DEF T
  <2> QED
    BY <1>1, <2>1, <2>2, UpToInduction
<1>13. chosen \in [0..n -> Int]
  BY <1>11, <1>12
<1> QED
  BY <1>8, <1>9, <1>10, <1>13 DEF n

(* What a guest that waits for a timer asks: for one at least with a       *)
(* timeout that is not negative, and for no other such clocks.             *)
Waits(subs) ==
    /\ \E i \in DOMAIN subs : IsClock(subs[i]) /\ Signed(subs[i].timeout) >= 0
    /\ \A i \in DOMAIN subs :
          IsClock(subs[i]) /\ Signed(subs[i].timeout) >= 0 => subs[i].for # {}

(* Then the timeout, unless it is negative, is one that was asked for, and *)
(* it is not negative unless the last clock stands for ever.               *)
LEMMA MinIsAsked ==
    ASSUME NEW subs \in Seq(Sub), Waits(subs)
    PROVE  /\ MinTimeoutOf(subs) \in Int
           /\ MinTimeoutOf(subs) >= 0 =>
                 \E i \in DOMAIN subs :
                    IsClock(subs[i]) /\ Signed(subs[i].timeout) = MinTimeoutOf(subs)
           /\ ~EndsForEver(subs) => MinTimeoutOf(subs) >= 0
<1>1. PICK n \in Nat : n = Len(subs)
  OBVIOUS
<1> DEFINE min == MinAfter(subs)
           Is(i) == IsClock(subs[i])
           Val(i) == Signed(subs[i].timeout)
           AskedBy(i) == \E j \in 1..i : Is(j) /\ Val(j) = min[i]
           LastIs(j, i) ==
               /\ j # 0 => Is(j) /\ (Val(j) >= 0 => min[i] >= 0)
               /\ \A k \in 1..i : Is(k) => k <= j
           T == { i \in 0..n : (min[i] < 0 \/ AskedBy(i)) /\ \E j \in 0..i : LastIs(j, i) }
<1>2. /\ min \in [0..n -> Int] /\ min[0] = -1 /\ MinTimeoutOf(subs) = min[n]
      /\ \A i \in 1..n : min[i] = Lowered(subs, min[i - 1], i)
  BY <1>1, MinAfterFacts
<1>3. (\A i \in 1..n : Val(i) \in Int) /\ DOMAIN subs = 1..n
  BY <1>1, SignedType
<1>4. \A i \in 1..n : min[i] = IF Is(i) /\ (min[i - 1] < 0 \/ Val(i) < min[i - 1])
                               THEN Val(i) ELSE min[i - 1]
  BY <1>2 DEF Lowered
<1> HIDE DEF min, Is, Val
<1>5. 0 \in T
  <2>1. LastIs(0, 0)
    OBVIOUS
  <2> QED
    BY <1>1, <1>2, <2>1
<1>6. ASSUME NEW i \in 1..n, i - 1 \in T PROVE i \in T
  <2>1. i \in 0..n /\ i - 1 \in 0..n /\ min[i - 1] \in Int /\ Val(i) \in Int
    <3>1. i \in 0..n /\ i - 1 \in 0..n
      BY <1>1
    <3>2. min[i - 1] \in Int
      BY <1>2, <3>1
    <3>3. Val(i) \in Int
      BY <1>3
    <3> QED
      BY <3>1, <3>2, <3>3
  <2>2. min[i - 1] < 0 \/ AskedBy(i - 1)
    BY <1>6
  <2>3. PICK j \in 0..(i - 1) : LastIs(j, i - 1)
    BY <1>6
  <2>4. \A k \in 1..i : k = i \/ k \in 1..(i - 1)
    OBVIOUS
  <2>5. min[i] < 0 \/ AskedBy(i)
    <3>1. CASE Is(i) /\ (min[i - 1] < 0 \/ Val(i) < min[i - 1])
      BY <1>4, <3>1
    <3>2. CASE ~(Is(i) /\ (min[i - 1] < 0 \/ Val(i) < min[i - 1]))
      <4>1. min[i] = min[i - 1]
        BY <1>4, <3>2
      <4>2. AskedBy(i - 1) => AskedBy(i)
        BY <4>1
      <4> QED
        BY <2>2, <4>1, <4>2
    <3> QED
      BY <3>1, <3>2
  <2>6. \E h \in 0..i : LastIs(h, i)
    <3>1. CASE Is(i)
      <4>1. Val(i) >= 0 => min[i] >= 0
        BY <1>4, <2>1, <3>1
      <4>2. LastIs(i, i)
        BY <3>1, <4>1
      <4> QED
        BY <2>1, <4>2
    <3>2. CASE ~Is(i)
      <4>1. min[i] = min[i - 1]
        BY <1>4, <3>2
      <4>2. LastIs(j, i)
        BY <2>3, <2>4, <3>2, <4>1
      <4> QED
        BY <2>3, <4>2
    <3> QED
      BY <3>1, <3>2
  <2> HIDE DEF AskedBy, LastIs
  <2> QED
    BY <2>1, <2>5, <2>6
<1> HIDE DEF T
<1>7. n \in T
  <2>1. 0..n \subseteq T
    BY <1>1, <1>5, <1>6, UpToInduction
  <2> QED
    BY <1>1, <2>1
<1>8. min[n] \in Int /\ (min[n] < 0 \/ AskedBy(n))
  BY <1>1, <1>2, <1>7 DEF T
<1>9. ASSUME ~(min[n] >= 0) PROVE EndsForEver(subs)
  <2>1. PICK j \in 0..n : LastIs(j, n)
    BY <1>7 DEF T
  <2>2. PICK i \in 1..n : Is(i)
    BY <1>3 DEF Waits, Is
  <2>3. j # 0 /\ j \in 1..n
    BY <2>1, <2>2
  <2>4. Is(j) /\ Val(j) < 0 /\ \A k \in 1..n : Is(k) => k <= j
    BY <1>3, <1>8, <1>9, <2>1, <2>3
  <2> QED
    BY <1>3, <2>3, <2>4 DEF EndsForEver, Clocks, Is, Val
<1>10. min[n] >= 0 => \E j \in 1..n : Is(j) /\ Val(j) = min[n]
  BY <1>8
<1> QED
  BY <1>2, <1>3, <1>8, <1>9, <1>10 DEF Is, Val

-----------------------------------------------------------------------------
(* Something answered.  A sequence of a set has all of its members, so     *)
(* that a guest with armed timers asks for each of them.                   *)
LEMMA SetToSeqsCovers ==
    ASSUME NEW S, IsFiniteSet(S), NEW f \in SetToSeqs(S), NEW x \in S
    PROVE  f \in Seq(S) /\ \E i \in 1..Len(f) : f[i] = x
<1>1. PICK n \in Nat : n = Cardinality(S)
  BY FS_CardinalityType
<1>2. f \in [1..n -> S] /\ \A i, j \in 1..n : i # j => f[i] # f[j]
  BY <1>1 DEF SetToSeqs
<1>3. f \in Injection(1..n, S)
  <2>1. ASSUME NEW a \in 1..n, NEW b \in 1..n, f[a] = f[b] PROVE a = b
    BY <1>2, <2>1, Zenon
  <2> QED
    BY <1>2, <2>1 DEF Injection, IsInjective
<1>4. Cardinality(1..n) = n
  <2>1. Cardinality(1..n) = IF 1 > n THEN 0 ELSE n - 1 + 1
    BY FS_Interval
  <2> QED
    BY <2>1
<1>5. f \in Surjection(1..n, S)
  BY <1>1, <1>3, <1>4, FS_Injection
<1>6. f \in Seq(S) /\ Len(f) = n
  BY <1>2
<1> QED
  BY <1>5, <1>6 DEF Surjection

LEMMA PrepareWaits ==
    ASSUME PollTypes, NEW g \in Goroutine, Prepare(g)
    PROVE  Waits(call'[g].subs) /\ call'[g].at = "calls"
<1>1. PICK files \in FilesOf[g], always \in SUBSET {Forever} :
        \E order \in SetToSeqs({ ForTimer(g, t) : t \in Armed(g) }
                                \cup { ForFile(s) : s \in files } \cup always) :
          call' = [call EXCEPT ![g] = Call("calls", order, 0, {})]
  BY DEF Prepare
<1> DEFINE S == { ForTimer(g, t) : t \in Armed(g) } \cup { ForFile(s) : s \in files } \cup always
<1>2. PICK order \in SetToSeqs(S) :
          call' = [call EXCEPT ![g] = Call("calls", order, 0, {})]
  BY <1>1
<1>3. PICK t \in Armed(g) : TRUE
  BY DEF Prepare
<1>4. IsFiniteSet(S)
  BY AskedFinite
<1>5. ASSUME NEW r \in Armed(g)
      PROVE  Signed(ForTimer(g, r).timeout) \in Nat /\ ForTimer(g, r).for # {}
  <2>1. /\ ForTimer(g, r) \in Sub /\ ForTimer(g, r).for = {r}
        /\ ForTimer(g, r).timeout < Half
    BY Subscriptions
  <2>2. ForTimer(g, r).timeout \in 0..(2 * Half - 1)
    BY <2>1 DEF Sub
  <2>3. ForTimer(g, r).timeout \in Nat
    BY <2>2, HalfType
  <2> QED
    BY <2>1, <2>3 DEF Signed, Half
<1>6. ~(Signed(Forever.timeout) >= 0)
  <2>1. Forever.timeout = 2 * Half - 1 /\ Half \in Nat /\ Half > 0
    BY HalfType, PollAssumption DEF Forever
  <2> QED
    BY <2>1, HalfType DEF Signed, Half
<1>7. \A x \in S : IsClock(x) /\ Signed(x.timeout) >= 0 => x.for # {}
  <2>1. \A s \in files : ~IsClock(ForFile(s))
    BY Subscriptions
  <2> QED
    BY <1>1, <1>5, <1>6, <2>1
<1>8. IsClock(ForTimer(g, t)) /\ ForTimer(g, t) \in S /\ Signed(ForTimer(g, t).timeout) >= 0
  <2>1. \A n \in Nat : n >= 0
    OBVIOUS
  <2>2. Signed(ForTimer(g, t).timeout) >= 0
    BY <1>5, <2>1, Zenon
  <2> QED
    BY <2>2 DEF ForTimer, IsClock
<1> HIDE DEF S
<1>9. order \in Seq(S) /\ \E i \in 1..Len(order) : order[i] = ForTimer(g, t)
  BY <1>4, <1>8, SetToSeqsCovers
<1>10. Waits(order)
  <2>1. \A i \in DOMAIN order : order[i] \in S
    BY <1>9
  <2>2. PICK i \in DOMAIN order : order[i] = ForTimer(g, t)
    BY <1>9
  <2> QED
    BY <1>7, <1>8, <2>1, <2>2 DEF Waits
<1> QED
  BY <1>2, <1>10 DEF Call, PollTypes, CallTypes

(* What each state of a poll knows: a guest asks as above, it sleeps only  *)
(* if it must, and it gets the events of the files and of the clocks due.  *)
Answered(g) ==
    /\ call[g].at \in {"idle", "calls", "sleeps", "returned", "panicked"}
    /\ call[g].at \in {"calls", "sleeps", "returned"} => Waits(call[g].subs)
    /\ call[g].at = "sleeps" =>
          Sleeps(call[g].subs) /\ call[g].events = FileEvents(call[g].subs)
    /\ call[g].at = "returned" =>
          call[g].events = FileEvents(call[g].subs) \cup ClockEvents(call[g].subs)

AnswerInv == ownerGID \in Goroutine \cup {Unset} /\ \A g \in Goroutine : Answered(g)

LEMMA InitAnswer == Init => AnswerInv
BY DEF Init, AnswerInv, Answered, Idle, Call

LEMMA NextAnswer == TimeInv /\ AnswerInv /\ [Next]_vars => AnswerInv'
<1> SUFFICES ASSUME TimeInv, AnswerInv, [Next]_vars PROVE AnswerInv'
  OBVIOUS
<1>1. call = [g \in Goroutine |-> call[g]] /\ PollTypes
  BY DEF TimeInv, PollTypes, CallTypes
<1>2. \A g \in Goroutine : call'[g] = call[g] => Answered(g)'
  BY DEF AnswerInv, Answered
<1>3. CASE Tick
  BY <1>2, <1>3 DEF Tick, AnswerInv
<1>4. ASSUME NEW g \in Goroutine, Arm(g) PROVE AnswerInv'
  BY <1>2, <1>4 DEF Arm, AnswerInv
<1>5. ASSUME NEW g \in Goroutine, Prepare(g) PROVE AnswerInv'
  <2>1. Waits(call'[g].subs) /\ call'[g].at = "calls"
    BY <1>1, <1>5, PrepareWaits
  <2>2. Answered(g)'
    BY <2>1 DEF Answered
  <2>3. \A h \in Goroutine : h # g => call'[h] = call[h]
    BY <1>1, <1>5 DEF Prepare
  <2>4. ownerGID' = ownerGID
    BY <1>5 DEF Prepare
  <2> QED
    BY <1>2, <2>2, <2>3, <2>4 DEF AnswerInv
<1>6. ASSUME NEW g \in Goroutine, Enter(g) PROVE AnswerInv'
  <2>1. call[g].at = "calls" /\ Waits(call[g].subs)
    BY <1>6 DEF Enter, AnswerInv, Answered
  <2>2. (\A h \in Goroutine : h # g => call'[h] = call[h])
        /\ ownerGID' \in Goroutine \cup {Unset}
    BY <1>1, <1>6 DEF Enter, AnswerInv
  <2>3. Answered(g)'
    <3>1. CASE ~MayEnter(g)
      BY <1>1, <1>6, <3>1 DEF Enter, Answered, Call
    <3>2. CASE MayEnter(g) /\ Sleeps(call[g].subs)
      <4>1. /\ call'[g].at = "sleeps" /\ call'[g].subs = call[g].subs
            /\ call'[g].events = FileEvents(call[g].subs)
        BY <1>1, <1>6, <3>2 DEF Enter, Call
      <4> QED
        BY <2>1, <3>2, <4>1 DEF Answered
    <3>3. CASE MayEnter(g) /\ ~Sleeps(call[g].subs)
      <4>1. /\ call'[g].at = "returned" /\ call'[g].subs = call[g].subs
            /\ call'[g].events = FileEvents(call[g].subs) \cup ClockEvents(call[g].subs)
        BY <1>1, <1>6, <3>3 DEF Enter, Call
      <4> QED
        BY <2>1, <4>1 DEF Answered
    <3> QED
      BY <3>1, <3>2, <3>3
  <2> QED
    BY <1>2, <2>2, <2>3 DEF AnswerInv
<1>7. ASSUME NEW g \in Goroutine, Wake(g) PROVE AnswerInv'
  <2>1. /\ Waits(call[g].subs) /\ call[g].events = FileEvents(call[g].subs)
    BY <1>7 DEF Wake, AnswerInv, Answered
  <2>2. /\ call'[g].at = "returned" /\ call'[g].subs = call[g].subs
        /\ call'[g].events = call[g].events \cup ClockEvents(call[g].subs)
        /\ \A h \in Goroutine : h # g => call'[h] = call[h]
        /\ ownerGID' = ownerGID
    BY <1>1, <1>7 DEF Wake, Call
  <2>3. Answered(g)'
    BY <2>1, <2>2 DEF Answered
  <2> QED
    BY <1>2, <2>2, <2>3 DEF AnswerInv
<1>8. ASSUME NEW g \in Goroutine, Handle(g) PROVE AnswerInv'
  <2>1. /\ call'[g].at = "idle" /\ ownerGID' = ownerGID
        /\ \A h \in Goroutine : h # g => call'[h] = call[h]
    BY <1>1, <1>8 DEF Handle, Idle, Call
  <2>2. Answered(g)'
    BY <2>1 DEF Answered
  <2> QED
    BY <1>2, <2>1, <2>2 DEF AnswerInv
<1>9. CASE UNCHANGED vars
  BY <1>2, <1>9 DEF vars, AnswerInv
<1> QED
  BY <1>3, <1>4, <1>5, <1>6, <1>7, <1>8, <1>9 DEF Next, Loop

LEMMA SleepersHaveTimers ==
    ASSUME TimeInv, AnswerInv, NEW g \in Goroutine, call[g].at = "sleeps"
    PROVE  \E t \in Armed(g) : call[g].until >= deadline[g][t]
<1> DEFINE subs == call[g].subs
<1>1. Waits(subs) /\ Sleeps(subs) /\ subs \in Seq(Sub)
  BY DEF AnswerInv, Answered, TimeInv, PollTypes, CallTypes, IsCall
<1> HIDE DEF subs
<1>2. MinTimeoutOf(subs) \in Int /\ MinTimeoutOf(subs) >= 0
  BY <1>1, MinIsAsked DEF Sleeps
<1>3. PICK i \in DOMAIN subs : IsClock(subs[i]) /\ Signed(subs[i].timeout) = MinTimeoutOf(subs)
  BY <1>1, <1>2, MinIsAsked
<1>4. i \in ClockSubs(g) /\ ClockDue(call[g].subs, i)
  BY <1>1, <1>2, <1>3 DEF ClockSubs, ClockDue, Sleeps, subs
<1>5. PICK t \in subs[i].for : TRUE
  BY <1>1, <1>2, <1>3 DEF Waits
<1>6. t \in Timer /\ deadline[g][t] \in 0..MaxDeadline
  BY <1>4, <1>5 DEF TimeInv, AsksEnough, subs
<1>7. call[g].until \in Nat /\ deadline[g][t] <= call[g].until
  BY <1>4, <1>5 DEF TimeInv, SleepsEnough, subs
<1>8. t \in Armed(g)
  BY <1>6, PollAssumption DEF Armed
<1> QED
  BY <1>6, <1>7, <1>8, PollAssumption

LEMMA PollsAnswer == TimeInv /\ AnswerInv => SomethingAnswered
<1> SUFFICES ASSUME TimeInv, AnswerInv, NEW g \in Goroutine, call[g].at = "returned"
             PROVE  /\ { e.sub : e \in call[g].events } \subseteq DOMAIN call[g].subs
                    /\ \A i \in DOMAIN call[g].subs :
                          ~IsClock(call[g].subs[i]) => i \in { e.sub : e \in call[g].events }
                    /\ { e.sub : e \in call[g].events } # {} \/ EndsForEver(call[g].subs)
  BY DEF SomethingAnswered
<1> DEFINE subs == call[g].subs
           events == FileEvents(subs) \cup ClockEvents(subs)
<1>1. Waits(subs) /\ call[g].events = events /\ subs \in Seq(Sub)
  BY DEF AnswerInv, Answered, TimeInv, PollTypes, CallTypes, IsCall
<1> HIDE DEF subs
<1>2. \A e \in events : e.sub \in DOMAIN subs
  BY DEF FileEvents, ClockEvents
<1>3. ASSUME NEW i \in DOMAIN subs, ~IsClock(subs[i]) PROVE \E e \in events : e.sub = i
  <2>1. PICK x \in {"success", "badf"} : [sub |-> i, errno |-> x] \in FileEvents(subs)
    BY <1>3 DEF FileEvents
  <2> QED
    BY <2>1
<1>4. EndsForEver(subs) \/ \E i \in DOMAIN subs : \E e \in events : e.sub = i
  <2>1. CASE \E i \in DOMAIN subs : ~IsClock(subs[i])
    BY <1>3, <2>1
  <2>2. CASE ~EndsForEver(subs) /\ \A i \in DOMAIN subs : IsClock(subs[i])
    <3>1. ~WriteEmitted(subs)
      BY <2>2 DEF WriteEmitted, IsClock
    <3>2. MinTimeoutOf(subs) >= 0
      BY <1>1, <2>2, MinIsAsked
    <3>3. PICK i \in DOMAIN subs : Signed(subs[i].timeout) = MinTimeoutOf(subs)
      BY <1>1, <3>2, MinIsAsked
    <3>4. IsClock(subs[i]) /\ ClockDue(subs, i)
      BY <2>2, <3>1, <3>2, <3>3 DEF ClockDue
    <3> QED
      BY <3>4 DEF ClockEvents
  <2> QED
    BY <2>1, <2>2
<1> HIDE DEF events
<1> QED
  BY <1>1, <1>2, <1>3, <1>4 DEF subs

(* What a poll is about at each point, for any goroutines, timers, files   *)
(* and width: a guest never sleeps in poll_oneoff without a timer to sleep *)
(* for (minClockTimeout and the sleep in Xpoll_oneoff).                    *)
THEOREM TypeCorrect == Spec => []PollTypeOK
<1>1. TimeInv /\ AnswerInv => PollTypeOK
  <2> SUFFICES ASSUME TimeInv, AnswerInv PROVE PollTypeOK
    OBVIOUS
  <2>1. now \in 0..MaxNow /\ ownerGID \in Goroutine \cup {Unset}
    BY DEF TimeInv, PollTypes, AnswerInv
  <2>2. ASSUME NEW g \in Goroutine
        PROVE  /\ \A t \in Armed(g) : deadline[g][t] \in 0..MaxDeadline
               /\ call[g].at \in {"idle", "calls", "sleeps", "returned", "panicked"}
    BY DEF TimeInv, PollTypes, AnswerInv, Answered, Armed
  <2> QED
    BY <2>1, <2>2, SleepersHaveTimers DEF PollTypeOK
<1> QED
  BY InitTime, NextTime, InitAnswer, NextAnswer, <1>1, PTL DEF Spec

(* poll_oneoff answers every file, and a guest that waits for a timer is   *)
(* handed an empty answer only if the last of its clocks has a timeout     *)
(* that is negative as an int64, whatever it waits for beside the timer    *)
(* and wherever else it puts such a timeout (both passes of Xpoll_oneoff). *)
THEOREM SomethingAnsweredHolds == Spec => []SomethingAnswered
BY InitTime, NextTime, InitAnswer, NextAnswer, PollsAnswer, PTL DEF Spec
=============================================================================
