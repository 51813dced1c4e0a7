--------------------------- MODULE HostTreeProofs ---------------------------
(* Theorems of HostTree, for any mounts, paths, files and directories and  *)
(* any bounds.                                                             *)
EXTENDS HostTree, InductionFacts, SequenceTheorems, FiniteSetTheorems

Seqs == Seq(STRING)

-----------------------------------------------------------------------------
(* Prefixes of paths.                                                      *)

LEMMA PrefixOfConcat ==
    ASSUME NEW p \in Seqs, NEW s \in Seqs
    PROVE  p \o s \in Seqs /\ IsPrefix(p, p \o s) /\ Behind(p, p \o s) = s
BY DEF Seqs, IsPrefix, Behind

LEMMA PrefixSplits ==
    ASSUME NEW p \in Seqs, NEW q \in Seqs, IsPrefix(p, q)
    PROVE  /\ Behind(p, q) \in Seqs /\ q = p \o Behind(p, q)
           /\ Len(p) <= Len(q) /\ Len(Behind(p, q)) = Len(q) - Len(p)
BY DEF Seqs, IsPrefix, Behind

LEMMA PrefixTransitive ==
    ASSUME NEW p \in Seqs, NEW q \in Seqs, NEW r \in Seqs, IsPrefix(p, q), IsPrefix(q, r)
    PROVE  IsPrefix(p, r)
BY DEF Seqs, IsPrefix

LEMMA PrefixesCompare ==
    ASSUME NEW p \in Seqs, NEW q \in Seqs, NEW r \in Seqs, IsPrefix(p, r), IsPrefix(q, r)
    PROVE  IsPrefix(p, q) \/ IsPrefix(q, p)
BY DEF Seqs, IsPrefix

LEMMA FrontFacts ==
    ASSUME NEW p \in Seqs, p # <<>>
    PROVE  /\ Front(p) \in Seqs /\ Len(Front(p)) = Len(p) - 1 /\ Len(p) \in Nat \ {0}
           /\ IsPrefix(Front(p), p) /\ Front(p) # p
BY SMTT(30) DEF Seqs, IsPrefix, Front

LEMMA PrefixOfFront ==
    ASSUME NEW p \in Seqs, NEW q \in Seqs, q # <<>>, IsPrefix(p, q), p # q
    PROVE  IsPrefix(p, Front(q))
BY DEF Seqs, IsPrefix, Front

LEMMA EmptyPrefix ==
    ASSUME NEW p \in Seqs
    PROVE  IsPrefix(<<>>, p)
<1>1. p = <<>> \o p
  BY ConcatEmptySeq DEF Seqs
<1>2. <<>> \in Seqs
  BY EmptySeq DEF Seqs
<1> QED
  BY <1>1, <1>2, PrefixOfConcat

LEMMA FrontOfConcat ==
    ASSUME NEW h \in Seqs, NEW s \in Seqs, s # <<>>
    PROVE  h \o s # <<>> /\ Front(h \o s) = h \o Front(s)
BY DEF Front, Seqs

-----------------------------------------------------------------------------
(* What Clean computes.                                                    *)

LEMMA PushTypes ==
    ASSUME NEW stack \in Seqs, NEW seg \in STRING
    PROVE  PushRooted(stack, seg) \in Seqs /\ PushRelative(stack, seg) \in Seqs
<1>1. stack # <<>> => Front(stack) \in Seqs
  BY FrontFacts
<1>2. Append(stack, seg) \in Seqs
  BY AppendProperties DEF Seqs
<1>3. <<>> \in Seqs
  BY EmptySeq DEF Seqs
<1> QED
  BY <1>1, <1>2, <1>3 DEF PushRooted, PushRelative

(* The cases of a push.                                                    *)
Special == {"", ".", ".."}

LEMMA PushCases ==
    ASSUME NEW stack, NEW seg
    PROVE  /\ seg \in {"", "."} => PushRooted(stack, seg) = stack
           /\ seg = ".." => PushRooted(stack, seg) = IF stack = <<>> THEN <<>> ELSE Front(stack)
           /\ seg \notin Special => PushRooted(stack, seg) = Append(stack, seg)
           /\ ~(seg = ".." /\ (stack = <<>> \/ Last(stack) = "..")) =>
                 PushRelative(stack, seg) = PushRooted(stack, seg)
BY DEF PushRooted, PushRelative, Special

(* The stacks of path.Clean, one for each number of segments.              *)
CleanUpTo(path) ==
    CHOOSE g : g = [i \in 0..Len(path) |->
                       IF i = 0 THEN <<>> ELSE PushRooted(g[i - 1], path[i])]

LEMMA CleanUpToFacts ==
    ASSUME NEW path \in Seqs
    PROVE  /\ Clean(path) = CleanUpTo(path)[Len(path)]
           /\ CleanUpTo(path)[0] = <<>>
           /\ \A i \in 1..Len(path) :
                 CleanUpTo(path)[i] = PushRooted(CleanUpTo(path)[i - 1], path[i])
<1> DEFINE n == Len(path)
           base == <<>>
           step == [x \in Seqs \X (1..n) |-> PushRooted(x[1], path[x[2]])]
           rec(g) == [i \in 0..n |-> IF i = 0 THEN <<>> ELSE PushRooted(g[i - 1], path[i])]
<1>1. n \in Nat /\ base \in Seqs /\ \A i \in 1..n : path[i] \in STRING
  BY EmptySeq, LenProperties DEF Seqs
<1>2. step \in [Seqs \X (1..n) -> Seqs]
  <2>1. ASSUME NEW x \in Seqs \X (1..n) PROVE PushRooted(x[1], path[x[2]]) \in Seqs
    <3>1. x[1] \in Seqs /\ path[x[2]] \in STRING
      BY <1>1
    <3> QED
      BY <3>1, PushTypes
  <2> QED
    BY <2>1
<1>3. \E g \in [0..n -> Seqs] : Recurs(g, n, base, step)
  <2> HIDE DEF n, base, step
  <2> QED
    BY <1>1, <1>2, Recursion
<1>4. PICK g \in [0..n -> Seqs] :
         g[0] = base /\ \A i \in 1..n : g[i] = step[<<g[i - 1], i>>]
  BY <1>3 DEF Recurs
<1>5. \A i \in 1..n : g[i] = PushRooted(g[i - 1], path[i])
  <2> SUFFICES ASSUME NEW i \in 1..n PROVE g[i] = PushRooted(g[i - 1], path[i])
    OBVIOUS
  <2>1. i - 1 \in 0..n /\ g[i - 1] \in Seqs
    BY <1>1, <1>4
  <2>2. <<g[i - 1], i>> \in Seqs \X (1..n)
    BY <2>1
  <2> QED
    BY <1>4, <2>2
<1>6. g = rec(g)
  <2>1. \A i \in 0..n : g[i] = rec(g)[i]
    <3> SUFFICES ASSUME NEW i \in 0..n PROVE g[i] = rec(g)[i]
      OBVIOUS
    <3>1. CASE i = 0
      BY <1>4, <3>1
    <3>2. CASE i # 0
      <4>1. i \in 1..n
        BY <1>1, <3>2
      <4> QED
        BY <1>5, <3>2, <4>1
    <3> QED
      BY <3>1, <3>2
  <2> QED
    BY <1>4, <2>1
<1>7. CleanUpTo(path) = rec(CleanUpTo(path))
  BY <1>6 DEF CleanUpTo
<1>8. CleanUpTo(path)[0] = <<>>
  <2>1. 0 \in 0..n
    BY <1>1
  <2> QED
    BY <1>7, <2>1
<1>9. ASSUME NEW i \in 1..n
      PROVE  CleanUpTo(path)[i] = PushRooted(CleanUpTo(path)[i - 1], path[i])
  <2>1. i \in 0..n /\ i # 0
    BY <1>1
  <2> QED
    BY <1>7, <2>1
<1>10. Clean(path) = CleanUpTo(path)[Len(path)]
  BY DEF Clean, CleanUpTo
<1> QED
  BY <1>8, <1>9, <1>10

(* The stacks of a relative path.                                          *)
RelativeUpTo(path) ==
    CHOOSE g : g = [i \in 0..Len(path) |->
                       IF i = 0 THEN <<>> ELSE PushRelative(g[i - 1], path[i])]

LEMMA RelativeUpToFacts ==
    ASSUME NEW path \in Seqs
    PROVE  /\ CleanRelative(path) = RelativeUpTo(path)[Len(path)]
           /\ RelativeUpTo(path)[0] = <<>>
           /\ \A i \in 1..Len(path) :
                 RelativeUpTo(path)[i] = PushRelative(RelativeUpTo(path)[i - 1], path[i])
<1> DEFINE n == Len(path)
           base == <<>>
           step == [x \in Seqs \X (1..n) |-> PushRelative(x[1], path[x[2]])]
           rec(g) == [i \in 0..n |-> IF i = 0 THEN <<>> ELSE PushRelative(g[i - 1], path[i])]
<1>1. n \in Nat /\ base \in Seqs /\ \A i \in 1..n : path[i] \in STRING
  BY EmptySeq, LenProperties DEF Seqs
<1>2. step \in [Seqs \X (1..n) -> Seqs]
  <2>1. ASSUME NEW x \in Seqs \X (1..n) PROVE PushRelative(x[1], path[x[2]]) \in Seqs
    <3>1. x[1] \in Seqs /\ path[x[2]] \in STRING
      BY <1>1
    <3> QED
      BY <3>1, PushTypes
  <2> QED
    BY <2>1
<1>3. \E g \in [0..n -> Seqs] : Recurs(g, n, base, step)
  <2> HIDE DEF n, base, step
  <2> QED
    BY <1>1, <1>2, Recursion
<1>4. PICK g \in [0..n -> Seqs] :
         g[0] = base /\ \A i \in 1..n : g[i] = step[<<g[i - 1], i>>]
  BY <1>3 DEF Recurs
<1>5. \A i \in 1..n : g[i] = PushRelative(g[i - 1], path[i])
  <2> SUFFICES ASSUME NEW i \in 1..n PROVE g[i] = PushRelative(g[i - 1], path[i])
    OBVIOUS
  <2>1. i - 1 \in 0..n /\ g[i - 1] \in Seqs
    BY <1>1, <1>4
  <2>2. <<g[i - 1], i>> \in Seqs \X (1..n)
    BY <2>1
  <2> QED
    BY <1>4, <2>2
<1>6. g = rec(g)
  <2>1. \A i \in 0..n : g[i] = rec(g)[i]
    <3> SUFFICES ASSUME NEW i \in 0..n PROVE g[i] = rec(g)[i]
      OBVIOUS
    <3>1. CASE i = 0
      BY <1>4, <3>1
    <3>2. CASE i # 0
      <4>1. i \in 1..n
        BY <1>1, <3>2
      <4> QED
        BY <1>5, <3>2, <4>1
    <3> QED
      BY <3>1, <3>2
  <2> QED
    BY <1>4, <2>1
<1>7. RelativeUpTo(path) = rec(RelativeUpTo(path))
  BY <1>6 DEF RelativeUpTo
<1>8. RelativeUpTo(path)[0] = <<>>
  <2>1. 0 \in 0..n
    BY <1>1
  <2> QED
    BY <1>7, <2>1
<1>9. ASSUME NEW i \in 1..n
      PROVE  RelativeUpTo(path)[i] = PushRelative(RelativeUpTo(path)[i - 1], path[i])
  <2>1. i \in 0..n /\ i # 0
    BY <1>1
  <2> QED
    BY <1>7, <2>1
<1>10. CleanRelative(path) = RelativeUpTo(path)[Len(path)]
  BY DEF CleanRelative, RelativeUpTo
<1> QED
  BY <1>8, <1>9, <1>10

-----------------------------------------------------------------------------
(* Paths made of names alone, as Clean returns them.                       *)
Names(path) == \A i \in 1..Len(path) : path[i] \notin Special

BeginsUp(path) == path # <<>> /\ path[1] = ".."

LEMMA EmptyPath == <<>> \in Seqs /\ Len(<<>>) = 0 /\ Names(<<>>)
BY EmptySeq DEF Seqs, Names

LEMMA NamesFacts ==
    ASSUME NEW p \in Seqs, Names(p)
    PROVE  /\ \A seg \in STRING \ Special : Append(p, seg) \in Seqs /\ Names(Append(p, seg))
           /\ p # <<>> => Names(Front(p)) /\ Last(p) \notin Special
           /\ ~BeginsUp(p)
<1>1. ASSUME NEW seg \in STRING \ Special
      PROVE  Append(p, seg) \in Seqs /\ Names(Append(p, seg))
  <2> DEFINE q == Append(p, seg)
  <2>1. /\ q \in Seqs /\ Len(q) = Len(p) + 1 /\ Len(p) \in Nat /\ q[Len(p) + 1] = seg
        /\ \A i \in 1..Len(p) : q[i] = p[i]
    <3>1. seg \in STRING /\ p \in Seq(STRING) /\ Len(p) \in Nat
      BY LenProperties DEF Seqs
    <3>2. q \in Seq(STRING) /\ Len(q) = Len(p) + 1
      BY <3>1, AppendProperties
    <3>3. q[Len(p) + 1] = seg
      BY <3>1, AppendProperties, ZenonT(60)
    <3>4. \A i \in 1..Len(p) : q[i] = p[i]
      <4> SUFFICES ASSUME NEW i \in 1..Len(p) PROVE q[i] = p[i]
        OBVIOUS
      <4> QED
        BY <3>1, AppendProperties
    <3> QED
      BY <3>1, <3>2, <3>3, <3>4 DEF Seqs
  <2> HIDE DEF q
  <2>2. Names(q)
    <3> SUFFICES ASSUME NEW i \in 1..Len(q) PROVE q[i] \notin Special
      BY DEF Names
    <3>1. CASE i = Len(p) + 1
      BY <2>1, <3>1
    <3>2. CASE i # Len(p) + 1
      <4>1. i \in 1..Len(p)
        BY <2>1, <3>2
      <4> QED
        BY <2>1, <4>1 DEF Names
    <3> QED
      BY <3>1, <3>2
  <2> QED
    BY <2>1, <2>2 DEF q
<1>2. p # <<>> => Names(Front(p)) /\ Last(p) \notin Special
  BY DEF Seqs, Names, Front, Last
<1>3. ~BeginsUp(p)
  <2>1. p # <<>> => 1 \in 1..Len(p)
    BY FrontFacts
  <2> QED
    BY <2>1 DEF Names, BeginsUp, Special
<1> QED
  BY <1>1, <1>2, <1>3

LEMMA NamesJoin ==
    ASSUME NEW p \in Seqs, NEW s \in Seqs
    PROVE  /\ Names(p \o s) <=> Names(p) /\ Names(s)
           /\ Len(p \o s) = Len(p) + Len(s)
<1>1. Names(p) /\ Names(s) => Names(p \o s)
  BY DEF Seqs, Names
<1>2. Names(p \o s) => Names(p)
  BY DEF Seqs, Names
<1>3. ASSUME Names(p \o s) PROVE Names(s)
  <2>1. \A i \in 1..Len(s) : Len(p) + i \in 1..Len(p \o s) /\ (p \o s)[Len(p) + i] = s[i]
    BY DEF Seqs
  <2> QED
    BY <1>3, <2>1 DEF Names
<1>4. Len(p \o s) = Len(p) + Len(s)
  BY DEF Seqs
<1> QED
  BY <1>1, <1>2, <1>3, <1>4

(* Clean returns a sequence of names.                                      *)
LEMMA CleanTypes ==
    ASSUME NEW path \in Seqs
    PROVE  Clean(path) \in Seqs /\ Names(Clean(path))
<1> DEFINE A == CleanUpTo(path)
           n == Len(path)
           S == { i \in 0..n : A[i] \in Seqs /\ Names(A[i]) }
<1>0. n \in Nat /\ \A i \in 1..n : path[i] \in STRING
  BY LenProperties DEF Seqs
<1>a. /\ Clean(path) = A[n] /\ A[0] = <<>>
      /\ \A i \in 1..n : A[i] = PushRooted(A[i - 1], path[i])
  BY CleanUpToFacts
<1> HIDE DEF A, n
<1>1. 0 \in S
  BY <1>0, <1>a, EmptyPath
<1>2. ASSUME NEW i \in 1..n, i - 1 \in S PROVE i \in S
  <2> DEFINE stack == A[i - 1]
  <2>1. stack \in Seqs /\ Names(stack) /\ path[i] \in STRING /\ A[i] = PushRooted(stack, path[i])
    BY <1>0, <1>a, <1>2
  <2> HIDE DEF stack
  <2>2. A[i] \in Seqs
    BY <2>1, PushTypes
  <2>3. Names(A[i])
    <3>1. CASE path[i] \in {"", "."}
      BY <2>1, <3>1, PushCases
    <3>2. CASE path[i] = ".."
      <4>1. A[i] = IF stack = <<>> THEN <<>> ELSE Front(stack)
        BY <2>1, <3>2, PushCases
      <4> QED
        BY <2>1, <4>1, NamesFacts, EmptyPath
    <3>3. CASE path[i] \notin Special
      <4>1. path[i] \in STRING \ Special /\ A[i] = Append(stack, path[i])
        BY <2>1, <3>3, PushCases
      <4> QED
        BY <2>1, <4>1, NamesFacts
    <3> QED
      BY <3>1, <3>2, <3>3 DEF Special
  <2> QED
    BY <1>0, <2>2, <2>3
<1> HIDE DEF S
<1>3. 0..n \subseteq S
  BY <1>0, <1>1, <1>2, UpToInduction
<1> QED
  BY <1>0, <1>a, <1>3 DEF S

(* A path that begins with names is cleaned as they are, and then the rest *)
(* of it, until a ".." leads out of the rest.                              *)
LEMMA CleanOfNames ==
    ASSUME NEW h \in Seqs, Names(h), NEW r \in Seqs
    PROVE  CleanUpTo(h \o r)[Len(h)] = h
<1> DEFINE path == h \o r
           A == CleanUpTo(path)
           S == { i \in 0..Len(h) : A[i] = SubSeq(h, 1, i) }
<1>1. path \in Seqs /\ Len(path) = Len(h) + Len(r) /\ Len(h) \in Nat /\ Len(r) \in Nat
  BY LenProperties, PrefixOfConcat, NamesJoin DEF Seqs
<1>2. \A i \in 1..Len(h) : path[i] = h[i] /\ h[i] \in STRING
  BY DEF Seqs
<1>3. A[0] = <<>> /\ \A i \in 1..Len(path) : A[i] = PushRooted(A[i - 1], path[i])
  BY <1>1, CleanUpToFacts
<1> HIDE DEF A, path
<1>4. 0 \in S
  <2>1. SubSeq(h, 1, 0) = <<>>
    BY SubSeqEmpty
  <2>2. A[0] = SubSeq(h, 1, 0)
    BY <1>3, <2>1
  <2>3. 0 \in 0..Len(h)
    BY <1>1
  <2> QED
    BY <2>2, <2>3
<1>5. ASSUME NEW i \in 1..Len(h), i - 1 \in S PROVE i \in S
  <2>1. A[i - 1] = SubSeq(h, 1, i - 1) /\ i \in 1..Len(path)
    BY <1>1, <1>5
  <2>2. A[i] = PushRooted(SubSeq(h, 1, i - 1), h[i]) /\ h[i] \notin Special
    BY <1>2, <1>3, <2>1 DEF Names
  <2>3. A[i] = Append(SubSeq(h, 1, i - 1), h[i])
    BY <2>2, PushCases
  <2>4. SubSeq(h, 1, i) = Append(SubSeq(h, 1, i - 1), h[i])
    BY DEF Seqs
  <2> QED
    BY <1>1, <2>3, <2>4
<1> HIDE DEF S
<1>6. 0..Len(h) \subseteq S
  BY <1>1, <1>4, <1>5, UpToInduction
<1>7. SubSeq(h, 1, Len(h)) = h
  BY DEF Seqs
<1> QED
  BY <1>1, <1>6, <1>7 DEF S, A, path

LEMMA CleanIsIdentity ==
    ASSUME NEW p \in Seqs, Names(p)
    PROVE  Clean(p) = p
<1>1. p \o <<>> = p /\ <<>> \in Seqs
  BY EmptyPath DEF Seqs
<1>2. CleanUpTo(p)[Len(p)] = p
  BY <1>1, CleanOfNames
<1> QED
  BY <1>2, CleanUpToFacts

LEMMA OneElement ==
    ASSUME NEW S, NEW x \in S
    PROVE  <<x>> \in Seq(S)
OBVIOUS

(* One push, on a stack of names behind others.                            *)
LEMMA PushBehind ==
    ASSUME NEW h \in Seqs, NEW s \in Seqs, Names(s), NEW seg \in STRING,
           ~BeginsUp(PushRelative(s, seg))
    PROVE  /\ PushRelative(s, seg) \in Seqs /\ Names(PushRelative(s, seg))
           /\ PushRooted(h \o s, seg) = h \o PushRelative(s, seg)
<1>0. PushRelative(s, seg) \in Seqs
  BY PushTypes
<1>1. CASE seg \in {"", "."}
  <2>1. PushRelative(s, seg) = s
    BY <1>1, PushCases
  <2>2. PushRooted(h \o s, seg) = h \o s
    BY <1>1, PushCases
  <2> QED
    BY <1>0, <2>1, <2>2
<1>2. CASE seg = ".."
  <2>1. s # <<>>
    <3> SUFFICES ASSUME s = <<>> PROVE FALSE
      OBVIOUS
    <3>1. PushRelative(s, seg) = Append(<<>>, seg)
      BY <1>2 DEF PushRelative
    <3> QED
      BY <1>2, <3>1 DEF BeginsUp
  <2>2. PushRelative(s, seg) = Front(s) /\ Names(Front(s))
    BY <1>2, <2>1, NamesFacts, PushCases DEF Special
  <2>3. h \o s # <<>> /\ Front(h \o s) = h \o Front(s)
    BY <2>1, FrontOfConcat
  <2> QED
    BY <1>0, <1>2, <2>2, <2>3, PushCases
<1>3. CASE seg \notin Special
  <2>1. PushRelative(s, seg) = Append(s, seg)
    BY <1>3, PushCases DEF Special
  <2>2. Append(h \o s, seg) = h \o Append(s, seg)
    <3>1. <<seg>> \in Seq(STRING)
      BY OneElement
    <3>5. h \in Seq(STRING) /\ s \in Seq(STRING)
      BY DEF Seqs
    <3>4. h \o s \in Seq(STRING)
      BY <3>5, ConcatProperties
    <3>2. Append(h \o s, seg) = (h \o s) \o <<seg>> /\ Append(s, seg) = s \o <<seg>>
      BY <3>5, <3>4, AppendIsConcat
    <3>3. (h \o s) \o <<seg>> = h \o (s \o <<seg>>)
      BY <3>1, <3>5, ConcatAssociative
    <3> QED
      BY <3>2, <3>3
  <2> QED
    BY <1>0, <1>3, <2>1, <2>2, NamesFacts, PushCases
<1> QED
  BY <1>1, <1>2, <1>3 DEF Special

(* What leads out of a relative path is not taken back.                    *)
LEMMA UpStays ==
    ASSUME NEW s \in Seqs, NEW seg \in STRING, BeginsUp(s)
    PROVE  BeginsUp(PushRelative(s, seg))
<1>0. Len(s) \in Nat \ {0}
  BY FrontFacts DEF BeginsUp
<1>1. s[1] = ".."
  BY DEF BeginsUp
<1>2. ASSUME NEW x \in STRING PROVE BeginsUp(Append(s, x))
  BY <1>0, <1>1, AppendProperties DEF Seqs, BeginsUp
<1>3. CASE seg = ".." /\ Last(s) # ".."
  <2>1. Len(s) # 1
    BY <1>0, <1>1, <1>3 DEF Last
  <2>2. Front(s) # <<>> /\ Front(s)[1] = ".."
    <3>1. 1 <= Len(s) - 1 /\ Len(s) - 1 \in Nat /\ 1 \in 1..(Len(s) - 1)
      <4>1. PICK n \in Nat : n = Len(s) /\ n # 0 /\ n # 1
        BY <1>0, <2>1
      <4> QED
        BY <4>1
    <3>2. \A i \in 1..(Len(s) - 1) : s[i] \in STRING
      BY LenProperties DEF Seqs
    <3>3. Front(s)[1] = s[1]
      BY <1>1, <3>1, <3>2, SubSeqProperties DEF Front
    <3>4. Len(Front(s)) = Len(s) - 1
      BY FrontFacts, <1>0, EmptyPath
    <3> QED
      BY <1>1, <3>1, <3>3, <3>4, EmptyPath
  <2> QED
    BY <1>3, <2>2, PushCases DEF BeginsUp
<1>4. CASE seg = ".." /\ Last(s) = ".."
  BY <1>2, <1>4 DEF PushRelative
<1>5. CASE seg # ".."
  BY <1>2, <1>5, PushCases, ZenonT(60) DEF Special
<1> QED
  BY <1>3, <1>4, <1>5

(* A relative path that leads out of nowhere is cleaned, behind a host     *)
(* path, as it is alone: the check of preopenDirfdLexicallyEscapes.        *)
LEMMA CleanJoins ==
    ASSUME NEW h \in Seqs, Names(h), NEW r \in Seqs, ~BeginsUp(CleanRelative(r))
    PROVE  /\ CleanRelative(r) \in Seqs /\ Names(CleanRelative(r))
           /\ Clean(h \o r) = h \o CleanRelative(r)
<1> DEFINE path == h \o r
           A == CleanUpTo(path)
           B == RelativeUpTo(r)
           j == Len(h)
           n == Len(r)
           Joined(i) == B[i] \in Seqs /\ (~BeginsUp(B[i]) => Names(B[i]) /\ A[j + i] = h \o B[i])
           S == { i \in 0..n : Joined(i) }
<1>1. /\ path \in Seqs /\ Len(path) = j + n /\ j \in Nat /\ n \in Nat
      /\ \A i \in 1..n : path[j + i] = r[i] /\ r[i] \in STRING
  <2>1. h \in Seq(STRING) /\ r \in Seq(STRING) /\ j \in Nat /\ n \in Nat
    BY LenProperties DEF Seqs
  <2>2. path \in Seqs /\ Len(path) = j + n
    BY <2>1, PrefixOfConcat, NamesJoin
  <2>3. ASSUME NEW i \in 1..n PROVE path[j + i] = r[i] /\ r[i] \in STRING
    <3>1. j + i \in 1..(j + n) /\ ~(j + i <= j) /\ (j + i) - j = i
      BY <2>1
    <3>2. path[j + i] = r[i]
      BY <2>1, <3>1, ConcatProperties
    <3> QED
      BY <2>1, <3>2, LenProperties
  <2> QED
    BY <2>1, <2>2, <2>3
<1>2. /\ A[j] = h /\ Clean(path) = A[j + n]
      /\ \A k \in 1..(j + n) : A[k] = PushRooted(A[k - 1], path[k])
  BY <1>1, CleanOfNames, CleanUpToFacts
<1>3. /\ CleanRelative(r) = B[n] /\ B[0] = <<>>
      /\ \A i \in 1..n : B[i] = PushRelative(B[i - 1], r[i])
  BY RelativeUpToFacts
<1> HIDE DEF path, A, B, j, n
<1>4. 0 \in S
  <2>1. h \o <<>> = h
    BY ConcatEmptySeq DEF Seqs
  <2>2. j + 0 = j /\ 0 \in 0..n
    BY <1>1
  <2>3. Joined(0)
    BY <1>2, <1>3, <2>1, <2>2, EmptyPath
  <2> QED
    BY <2>2, <2>3
<1>5. ASSUME NEW i \in 1..n, i - 1 \in S PROVE i \in S
  <2> DEFINE s == B[i - 1]
  <2>1. s \in Seqs /\ r[i] \in STRING /\ B[i] = PushRelative(s, r[i])
    BY <1>1, <1>3, <1>5
  <2>2. ~BeginsUp(s) => Names(s) /\ A[j + (i - 1)] = h \o s
    BY <1>5
  <2>3. A[j + i] = PushRooted(A[j + (i - 1)], r[i])
    <3>1. j + i \in 1..(j + n) /\ (j + i) - 1 = j + (i - 1)
      BY <1>1
    <3> QED
      BY <1>1, <1>2, <3>1
  <2> HIDE DEF s
  <2>4. ASSUME ~BeginsUp(B[i]) PROVE Names(B[i]) /\ A[j + i] = h \o B[i]
    <3>1. ~BeginsUp(s)
      BY <2>1, <2>4, UpStays
    <3>2. Names(s) /\ A[j + i] = PushRooted(h \o s, r[i])
      BY <2>2, <2>3, <3>1
    <3>3. s \in Seqs /\ r[i] \in STRING /\ ~BeginsUp(PushRelative(s, r[i]))
      BY <2>1, <2>4
    <3>4. Names(PushRelative(s, r[i])) /\ PushRooted(h \o s, r[i]) = h \o PushRelative(s, r[i])
      BY <3>2, <3>3, PushBehind
    <3> QED
      BY <2>1, <3>2, <3>4
  <2>5. B[i] \in Seqs
    BY <2>1, PushTypes
  <2> QED
    BY <1>1, <2>4, <2>5
<1> HIDE DEF S
<1>6. 0..n \subseteq S
  BY <1>1, <1>4, <1>5, UpToInduction
<1>7. n \in S
  BY <1>1, <1>6
<1>8. Joined(n)
  BY <1>7 DEF S
<1> HIDE DEF Joined
<1> QED
  BY <1>2, <1>3, <1>8 DEF Joined, path

-----------------------------------------------------------------------------
(* Resolution.                                                             *)

LEMMA MountFacts ==
    /\ Len(Mounts) \in Nat /\ Mount = 1..Len(Mounts)
    /\ \A m \in Mount :
          /\ m \in Nat \ {0}
          /\ Mounts[m].guest \in Seqs /\ Names(Mounts[m].guest)
          /\ Mounts[m].host \in Seqs /\ Names(Mounts[m].host)
          /\ Mounts[m].writable \in BOOLEAN
<1> DEFINE T == [guest : Seq(STRING), host : Seq(STRING), writable : BOOLEAN]
<1>1. Mounts \in Seq(T)
  BY MountsAssumption
<1>2. Len(Mounts) \in Nat /\ DOMAIN Mounts = 1..Len(Mounts) /\ \A m \in Mount : Mounts[m] \in T
  <2> HIDE DEF T
  <2> QED
    BY <1>1, LenProperties DEF Mount
<1>3. ASSUME NEW m \in Mount
      PROVE  /\ m \in Nat \ {0} /\ Mounts[m].guest \in Seqs /\ Mounts[m].host \in Seqs
             /\ Mounts[m].writable \in BOOLEAN
  BY <1>2 DEF Seqs, Mount
<1>4. ASSUME NEW p \in Seqs, \A i \in DOMAIN p : p[i] \notin {"", ".", ".."} PROVE Names(p)
  <2>1. DOMAIN p = 1..Len(p)
    BY LenProperties DEF Seqs
  <2> QED
    BY <1>4, <2>1 DEF Names, Special
<1>5. ASSUME NEW m \in Mount PROVE Names(Mounts[m].guest) /\ Names(Mounts[m].host)
  BY <1>3, <1>4, MountsAssumption
<1> QED
  BY <1>2, <1>3, <1>5 DEF Mount

(* Of some mounts one is the longest, and the first of its length.         *)
LEMMA BestExists ==
    ASSUME NEW T, T \subseteq Mount, T # {}
    PROVE  \E m \in T : \A k \in T : Beats(m, k)
<1> DEFINE n == Len(Mounts)
           Has(i) == \A U \in SUBSET (1..i) :
                        U # {} => \E m \in U : \A k \in U : Beats(m, k)
           S == { i \in 0..n : Has(i) }
           len(m) == Len(Mounts[m].guest)
<1>1. n \in Nat /\ Mount = 1..n /\ \A m \in Mount : len(m) \in Nat
  BY MountFacts, LenProperties DEF Seqs
<1>2. \A m, k \in Mount : Beats(m, k) <=> (len(m) > len(k) \/ (len(m) = len(k) /\ m <= k))
  BY DEF Beats
<1> HIDE DEF n, len
<1>3. 0 \in S
  <2>1. \A U \in SUBSET (1..0) : U = {}
    OBVIOUS
  <2>2. 0 \in 0..n
    BY <1>1
  <2> QED
    BY <2>1, <2>2
<1>4. ASSUME NEW i \in 1..n, i - 1 \in S PROVE i \in S
  <2> SUFFICES ASSUME NEW U \in SUBSET (1..i), U # {}
               PROVE  \E m \in U : \A k \in U : Beats(m, k)
    BY <1>1
  <2>1. \A m \in U : m \in Mount /\ m \in Nat /\ m <= i /\ len(m) \in Nat
    BY <1>1
  <2>2. CASE i \notin U
    <3>1. U \in SUBSET (1..(i - 1))
      BY <1>1, <2>2
    <3> QED
      BY <1>4, <3>1
  <2>3. CASE U = {i}
    BY <1>2, <2>1, <2>3
  <2>4. CASE i \in U /\ U # {i}
    <3>1. U \ {i} \in SUBSET (1..(i - 1)) /\ U \ {i} # {}
      BY <1>1, <2>4
    <3>2. PICK b \in U \ {i} : \A k \in U \ {i} : Beats(b, k)
      BY <1>4, <3>1
    <3>3. CASE len(i) > len(b)
      <4>1. ASSUME NEW k \in U PROVE Beats(i, k)
        <5>1. k \in Mount /\ i \in Mount /\ b \in Mount /\ i \in Nat
              /\ len(k) \in Nat /\ len(i) \in Nat /\ len(b) \in Nat
          BY <2>1, <2>4
        <5>2. CASE k = i
          BY <1>2, <5>1, <5>2
        <5>3. CASE k # i
          <6>1. Beats(b, k)
            BY <3>2, <5>3
          <6>2. len(b) >= len(k)
            BY <1>2, <5>1, <6>1
          <6> QED
            BY <1>2, <3>3, <5>1, <6>2
        <5> QED
          BY <5>2, <5>3
      <4> QED
        BY <2>4, <4>1
    <3>4. CASE ~(len(i) > len(b))
      <4>1. Beats(b, i)
        BY <1>2, <2>1, <2>4, <3>4
      <4> QED
        BY <3>2, <4>1
    <3> QED
      BY <3>3, <3>4
  <2> QED
    BY <2>2, <2>3, <2>4
<1> HIDE DEF S
<1>5. 0..n \subseteq S
  BY <1>1, <1>3, <1>4, UpToInduction
<1>6. n \in S
  BY <1>1, <1>5
<1>7. Has(n)
  BY <1>6 DEF S
<1> QED
  BY <1>1, <1>7

LEMMA ResolvePathFacts ==
    ASSUME NEW path \in Seqs, ResolvePath(path).mount # 0
    PROVE  LET at == ResolvePath(path)
               guest == Mounts[at.mount].guest
           IN  /\ at.mount \in Mount /\ at.rel \in Seqs
               /\ Names(path) => path = guest \o at.rel /\ Names(at.rel)
<1> DEFINE covering == { m \in Mount : Covers(m, path) }
           best == CHOOSE m \in covering : \A k \in covering : Beats(m, k)
           guest == Mounts[best].guest
           seen == IF IsPrefix(guest, Clean(path)) THEN Clean(path) ELSE path
<1>1. covering # {} /\ ResolvePath(path) = [mount |-> best, rel |-> Behind(guest, seen)]
  BY DEF ResolvePath, Nowhere
<1>2. best \in covering
  <2>1. \E m \in covering : \A k \in covering : Beats(m, k)
    <3> HIDE DEF covering
    <3>1. covering \subseteq Mount
      BY DEF covering
    <3> QED
      BY <1>1, <3>1, BestExists
  <2> QED
    BY <2>1
<1> HIDE DEF best
<1>3. best \in Mount /\ guest \in Seqs /\ Names(guest) /\ IsPrefix(guest, seen)
  BY <1>2, MountFacts DEF Covers
<1>4. seen \in Seqs
  BY CleanTypes
<1>5. Behind(guest, seen) \in Seqs /\ seen = guest \o Behind(guest, seen)
  BY <1>3, <1>4, PrefixSplits
<1>6. ASSUME Names(path) PROVE seen = path /\ Names(Behind(guest, seen))
  <2>1. seen = path
    BY <1>6, CleanIsIdentity
  <2>2. Names(guest \o Behind(guest, seen))
    BY <1>5, <1>6, <2>1
  <2> HIDE DEF guest, seen
  <2> QED
    BY <1>3, <1>5, <2>1, <2>2, NamesJoin
<1> HIDE DEF covering, seen
<1>7. ResolvePath(path).mount = best /\ ResolvePath(path).rel = Behind(guest, seen)
  BY <1>1
<1>8. Mounts[ResolvePath(path).mount].guest = guest
  BY <1>7
<1> HIDE DEF guest
<1> QED
  BY <1>3, <1>5, <1>6, <1>7, <1>8

(* Directories and path arguments, as the operators of PathResolve take    *)
(* them.                                                                   *)
IsDirfd(dir) ==
    dir.mount \in Mount \cup {0, -1} /\ dir.path \in Seqs /\ (dir.mount = -1 => dir = NoDirectory)

LEMMA ArgFacts ==
    ASSUME NEW arg \in Arg
    PROVE  arg.abs \in BOOLEAN /\ arg.segs \in Seqs
BY HostTreeAssumption DEF Seqs

LEMMA ResolveDirfdFacts ==
    ASSUME NEW dir, IsDirfd(dir), NEW arg \in Arg,
           ResolveDirfdPath(dir, arg).mount # 0
    PROVE  LET at == ResolveDirfdPath(dir, arg)
           IN  /\ at.mount \in Mount /\ at.rel \in Seqs
               /\ IsNested(dir) =>
                     /\ ~arg.abs /\ Names(at.rel)
                     /\ Clean(dir.path \o arg.segs) = Mounts[at.mount].guest \o at.rel
<1> DEFINE path == Clean(dir.path \o arg.segs)
<1>0. arg.abs \in BOOLEAN /\ arg.segs \in Seqs /\ dir.path \in Seqs
  BY ArgFacts DEF IsDirfd
<1>1. dir.path \o arg.segs \in Seqs
  BY <1>0, PrefixOfConcat
<1>2. path \in Seqs /\ Names(path)
  BY <1>1, CleanTypes
<1> HIDE DEF path
<1>3. CASE arg.abs
  <2>1. ~IsNested(dir) /\ ResolveDirfdPath(dir, arg) = ResolvePath(arg.segs)
    BY <1>3 DEF ResolveDirfdPath, Nowhere
  <2>2. ResolvePath(arg.segs).mount # 0
    BY <2>1
  <2> QED
    BY <1>0, <2>1, <2>2, ResolvePathFacts
<1>4. CASE ~arg.abs /\ IsPreopen(dir)
  <2>0. dir.mount > 0 /\ (dir.mount \in Mount \/ dir.mount = 0 \/ dir.mount = -1)
    BY <1>4 DEF IsPreopen, IsDirfd
  <2>1. dir.mount \in Mount /\ ~IsNested(dir)
    BY <2>0 DEF IsNested
  <2>2. ResolveDirfdPath(dir, arg) = [mount |-> dir.mount, rel |-> arg.segs]
    BY <1>0, <1>4, <2>0 DEF ResolveDirfdPath, IsPreopen, IsNested
  <2>3. /\ ResolveDirfdPath(dir, arg).mount = dir.mount
        /\ ResolveDirfdPath(dir, arg).rel = arg.segs
    BY <2>2
  <2> QED
    BY <1>0, <2>1, <2>3
<1>5. CASE ~arg.abs /\ ~IsPreopen(dir)
  <2>1. IsNested(dir) /\ ResolveDirfdPath(dir, arg) = ResolvePath(path)
    BY <1>5 DEF ResolveDirfdPath, Nowhere, path
  <2>2. ResolvePath(path).mount # 0
    BY <2>1
  <2> QED
    BY <1>2, <1>5, <2>1, <2>2, ResolvePathFacts DEF path
<1> QED
  BY <1>0, <1>3, <1>4, <1>5

(* What is accepted, and does not stray where nothing is checked, lies at  *)
(* the same place below the mount's host path as below its guest path.     *)
LEMMA AcceptedLiesBelow ==
    ASSUME NEW dir, IsDirfd(dir), NEW arg \in Arg,
           ResolveDirfdPath(dir, arg).mount # 0,
           ~Escapes(dir, ResolveDirfdPath(dir, arg)),
           Inside(dir, ResolveDirfdPath(dir, arg))
    PROVE  LET at == ResolveDirfdPath(dir, arg)
               m == Mounts[at.mount]
           IN  \E k \in Seqs : /\ Names(k)
                               /\ Clean(m.host \o at.rel) = m.host \o k
                               /\ GuestPathOf(at) = m.guest \o k
<1> DEFINE at == ResolveDirfdPath(dir, arg)
           guest == Mounts[at.mount].guest
           host == Mounts[at.mount].host
<1>1. at.mount \in Mount /\ at.rel \in Seqs /\ (IsNested(dir) => Names(at.rel))
  BY ResolveDirfdFacts
<1>2. guest \in Seqs /\ Names(guest) /\ host \in Seqs /\ Names(host)
  BY <1>1, MountFacts
<1>3. ~Escapes(dir, at) /\ Inside(dir, at)
  OBVIOUS
<1>4. GuestPathOf(at) = Clean(guest \o at.rel)
  BY DEF GuestPathOf
<1> HIDE DEF at, guest, host
<1>5. CASE ~IsNested(dir)
  <2>0. IsPreopen(dir) \/ dir = NoDirectory
    BY <1>5, MountFacts DEF IsDirfd, IsNested, IsPreopen
  <2>1. ~BeginsUp(CleanRelative(at.rel))
    BY <1>3, <2>0 DEF Escapes, Inside, Strays, BeginsUp
  <2>2. CleanRelative(at.rel) \in Seqs /\ Names(CleanRelative(at.rel))
    BY <1>1, <1>2, <2>1, CleanJoins
  <2>3. Clean(host \o at.rel) = host \o CleanRelative(at.rel)
    BY <1>1, <1>2, <2>1, CleanJoins
  <2>4. Clean(guest \o at.rel) = guest \o CleanRelative(at.rel)
    BY <1>1, <1>2, <2>1, CleanJoins
  <2> QED
    BY <1>4, <2>2, <2>3, <2>4 DEF at, guest, host
<1>6. CASE IsNested(dir)
  <2>1. Names(at.rel)
    BY <1>1, <1>6
  <2>2. ASSUME NEW h \in Seqs, Names(h) PROVE Clean(h \o at.rel) = h \o at.rel
    <3>1. h \o at.rel \in Seqs /\ Names(h \o at.rel)
      BY <1>1, <2>1, <2>2, PrefixOfConcat, NamesJoin
    <3> QED
      BY <3>1, CleanIsIdentity
  <2> QED
    BY <1>1, <1>2, <1>4, <2>1, <2>2 DEF at, guest, host
<1> QED
  BY <1>5, <1>6

-----------------------------------------------------------------------------
(* The invariant.                                                          *)
Trees == UNION { [D -> File \cup Dir] : D \in SUBSET Seqs }

Ops == {"none", "create_directory", "remove_directory", "unlink_file", "symlink", "link", "rename",
        "open"}

Labels == {"idle", "create_directory", "remove_directory", "unlink_file", "remove",
           "symlink", "validate_link", "link", "validate_rename", "rename", "is_empty",
           "make_way", "rename_again", "done"}

CallShape ==
    call \in [op : Ops, at : Labels, old : Seqs, new : Seqs, slash : BOOLEAN, ok : BOOLEAN,
              before : Trees, alone : BOOLEAN, inside : BOOLEAN]

OpenShape ==
    /\ DOMAIN open = Slot
    /\ \A d \in Slot : open[d] # Unopened =>
          /\ open[d].path \in Seqs /\ Names(open[d].path) /\ open[d].name \in Seqs
          /\ open[d].inside \in BOOLEAN

(* A call is where its operation takes it.                                 *)
Course ==
    /\ call.op = "none" <=> call.at = "idle"
    /\ call.op = "create_directory" => call.at \in {"create_directory", "done"}
    /\ call.op = "remove_directory" => call.at \in {"remove_directory", "remove", "done"}
    /\ call.op = "unlink_file" => call.at \in {"unlink_file", "remove", "done"}
    /\ call.op = "symlink" => call.at \in {"symlink", "done"}
    /\ call.op = "link" => call.at \in {"validate_link", "link", "done"}
    /\ call.op = "rename" => call.at \in {"validate_rename", "rename", "is_empty", "make_way",
                                          "rename_again", "done"}
    /\ call.op = "open" => call.at = "done"
    /\ call.ok => call.at = "done"

Shape ==
    /\ tree \in Trees /\ CallShape /\ OpenShape /\ Course
    /\ hostChanges \in 0..MaxHostChanges

(* A tree: finite, of bounded depth, every path lies in a directory, and   *)
(* only files and the directories fixed from the start have two paths.     *)
Rooted(t) ==
    /\ IsFiniteSet(DOMAIN t)
    /\ \A p \in DOMAIN t : Len(p) <= MaxDepth /\ (p # <<>> => IsDir(t, Front(p)))

DirsUnique(t) ==
    \A p, q \in DOMAIN t : p # q /\ t[p] = t[q] => t[p] \in File \cup {Fixed}

IsTree(t) == Rooted(t) /\ DirsUnique(t)

(* The paths of a call that the code confines lie below a writable mount.  *)
Confined ==
    call.inside =>
        /\ call.op # "none" => BelowWritable(call.old)
        /\ call.op \in {"link", "rename"} => BelowWritable(call.new)

(* An open directory lies at the same place below the host path of its     *)
(* mount as below its guest path.                                          *)
LiesIn(m, dir) ==
    /\ IsPrefix(Mounts[m].guest, dir.path)
    /\ dir.name = Mounts[m].host \o Behind(Mounts[m].guest, dir.path)

OpenedBelow ==
    \A d \in Slot : open[d] # Unopened /\ open[d].inside => \E m \in Mount : LiesIn(m, open[d])

(* What a call that no other process disturbed has found and done so far.  *)
EmptyDirs(t, p, q) == IsDir(t, p) /\ IsEmpty(t, p) /\ IsDir(t, q) /\ IsEmpty(t, q)

Undisturbed ==
    call.op # "none" /\ call.alone =>
        LET b == call.before  old == call.old  new == call.new IN
        /\ IsTree(b)
        /\ call.at \notin {"rename_again", "done"} => tree = b
        /\ call.at = "remove" /\ call.op = "remove_directory" => IsDir(b, old)
        /\ call.at = "remove" /\ call.op = "unlink_file" => IsFile(b, old)
        /\ call.at = "link" => IsFile(b, old) /\ ~Exists(b, new)
        /\ call.at \in {"make_way", "rename_again"} => EmptyDirs(b, old, new)
        /\ call.at = "rename_again" => new # <<>> /\ tree = Removing(b, new)
        /\ call.at = "done" /\ ~call.ok =>
              tree = b \/ (call.op = "rename" /\ old = new)
        /\ CallsDoWhatTheySay

-----------------------------------------------------------------------------
(* What the kernel does to a tree.                                         *)

LEMMA TreesFacts ==
    ASSUME NEW t \in Trees
    PROVE  /\ DOMAIN t \subseteq Seqs /\ t = [p \in DOMAIN t |-> t[p]]
           /\ \A p \in DOMAIN t : t[p] \in File \cup Dir
<1>1. PICK D \in SUBSET Seqs : t \in [D -> File \cup Dir]
  BY DEF Trees
<1> QED
  BY <1>1

LEMMA IsOfTrees ==
    ASSUME NEW D, D \subseteq Seqs, NEW t \in [D -> File \cup Dir]
    PROVE  t \in Trees
BY DEF Trees

LEMMA EmptyTree == <<>> \in Trees
<1>1. <<>> \in [{} -> File \cup Dir]
  OBVIOUS
<1> QED
  BY <1>1, IsOfTrees

LEMMA SameTree ==
    ASSUME NEW t \in Trees, NEW u \in Trees, DOMAIN t = DOMAIN u,
           \A p \in DOMAIN t : t[p] = u[p]
    PROVE  t = u
BY TreesFacts

LEMMA DirOrFile ==
    ASSUME NEW t \in Trees, NEW p
    PROVE  /\ IsFile(t, p) <=> Exists(t, p) /\ ~IsDir(t, p)
           /\ IsDir(t, p) => Exists(t, p)
BY TreesFacts, HostTreeAssumption DEF IsFile, IsDir, Exists

LEMMA AddingFacts ==
    ASSUME NEW t \in Trees, NEW p \in Seqs, NEW n \in File \cup Dir
    PROVE  /\ Adding(t, p, n) \in Trees
           /\ DOMAIN Adding(t, p, n) = DOMAIN t \cup {p}
           /\ Adding(t, p, n)[p] = n
           /\ \A q \in DOMAIN t : q # p => Adding(t, p, n)[q] = t[q]
<1>1. Adding(t, p, n) = [q \in DOMAIN t \cup {p} |-> IF q = p THEN n ELSE t[q]]
  BY DEF Adding
<1>2. Adding(t, p, n) \in [DOMAIN t \cup {p} -> File \cup Dir]
  BY <1>1, TreesFacts
<1>3. DOMAIN t \cup {p} \subseteq Seqs
  BY TreesFacts
<1> QED
  BY <1>1, <1>2, <1>3, IsOfTrees

LEMMA RemovingFacts ==
    ASSUME NEW t \in Trees, NEW p
    PROVE  /\ Removing(t, p) \in Trees
           /\ DOMAIN Removing(t, p) = DOMAIN t \ {p}
           /\ \A q \in DOMAIN t : q # p => Removing(t, p)[q] = t[q]
<1>1. Removing(t, p) = [q \in DOMAIN t \ {p} |-> t[q]]
  BY DEF Removing, Restrict
<1>2. Removing(t, p) \in [DOMAIN t \ {p} -> File \cup Dir]
  BY <1>1, TreesFacts
<1>3. DOMAIN t \ {p} \subseteq Seqs
  BY TreesFacts
<1> QED
  BY <1>1, <1>2, <1>3, IsOfTrees

(* A path below old and the one below new that it becomes.                 *)
LEMMA MovedPath ==
    ASSUME NEW old \in Seqs, NEW new \in Seqs, NEW q \in Seqs, IsPrefix(old, q)
    PROVE  /\ new \o Behind(old, q) \in Seqs /\ IsPrefix(new, new \o Behind(old, q))
           /\ old \o Behind(new, new \o Behind(old, q)) = q
           /\ Len(new \o Behind(old, q)) = Len(new) + Len(q) - Len(old)
           /\ \A r \in Seqs : IsPrefix(old, r) /\ new \o Behind(old, r) = new \o Behind(old, q)
                                => r = q
<1>1. /\ Behind(old, q) \in Seqs /\ q = old \o Behind(old, q)
      /\ Len(Behind(old, q)) = Len(q) - Len(old)
  BY PrefixSplits
<1>2. /\ new \o Behind(old, q) \in Seqs /\ IsPrefix(new, new \o Behind(old, q))
      /\ Behind(new, new \o Behind(old, q)) = Behind(old, q)
  BY <1>1, PrefixOfConcat
<1>3. Len(new \o Behind(old, q)) = Len(new) + Len(q) - Len(old)
  <2>1. /\ Len(new \o Behind(old, q)) = Len(new) + Len(Behind(old, q))
        /\ Len(new) \in Nat /\ Len(q) \in Nat /\ Len(old) \in Nat
    BY <1>1, NamesJoin, LenProperties DEF Seqs
  <2> QED
    BY <1>1, <2>1
<1>4. ASSUME NEW r \in Seqs, IsPrefix(old, r), new \o Behind(old, r) = new \o Behind(old, q)
      PROVE  r = q
  <2>1. Behind(old, r) \in Seqs /\ r = old \o Behind(old, r)
    BY <1>4, PrefixSplits
  <2>2. Behind(new, new \o Behind(old, r)) = Behind(old, r)
    BY <2>1, PrefixOfConcat
  <2> QED
    BY <1>1, <1>2, <1>4, <2>1, <2>2
<1> QED
  BY <1>1, <1>2, <1>3, <1>4

LEMMA FrontOfMoved ==
    ASSUME NEW old \in Seqs, NEW new \in Seqs, NEW q \in Seqs, IsPrefix(old, q), q # old
    PROVE  /\ q # <<>> /\ IsPrefix(old, Front(q))
           /\ Front(new \o Behind(old, q)) = new \o Behind(old, Front(q))
<1>1. Behind(old, q) \in Seqs /\ q = old \o Behind(old, q)
  BY PrefixSplits
<1>2. Behind(old, q) # <<>>
  BY <1>1, ConcatEmptySeq DEF Seqs
<1>3. q # <<>>
  BY <1>1, <1>2, ConcatEqualIffEmpty DEF Seqs
<1>4. IsPrefix(old, Front(q))
  BY <1>3, PrefixOfFront
<1>5. ASSUME NEW h \in Seqs PROVE Front(h \o Behind(old, q)) = h \o Front(Behind(old, q))
  BY <1>1, <1>2, FrontOfConcat
<1>6. Front(Behind(old, q)) \in Seqs
  BY <1>1, <1>2, FrontFacts
<1>7. Behind(old, Front(q)) = Front(Behind(old, q))
  <2>1. Front(q) = old \o Front(Behind(old, q))
    BY <1>1, <1>5
  <2>2. Behind(old, old \o Front(Behind(old, q))) = Front(Behind(old, q))
    BY <1>6, PrefixOfConcat
  <2> QED
    BY <2>1, <2>2
<1> QED
  BY <1>3, <1>4, <1>5, <1>7

Gone(t, old, new) == Below(t, old) \cup {new}

Come(t, old, new) == { new \o Behind(old, q) : q \in Below(t, old) }

LEMMA MovingFacts ==
    ASSUME NEW t \in Trees, NEW old \in Seqs, NEW new \in Seqs
    PROVE  /\ Moving(t, old, new) \in Trees
           /\ DOMAIN Moving(t, old, new) = (DOMAIN t \ Gone(t, old, new)) \cup Come(t, old, new)
           /\ \A q \in Below(t, old) : Moving(t, old, new)[new \o Behind(old, q)] = t[q]
           /\ \A p \in DOMAIN t \ Gone(t, old, new) :
                 p \notin Come(t, old, new) => Moving(t, old, new)[p] = t[p]
           /\ \A p \in Come(t, old, new) : IsPrefix(new, p)
<1> DEFINE D == (DOMAIN t \ Gone(t, old, new)) \cup Come(t, old, new)
           M == [p \in D |-> IF p \in Come(t, old, new) THEN t[old \o Behind(new, p)] ELSE t[p]]
<1>1. Moving(t, old, new) = M
  BY DEF Moving, Gone, Come
<1>2. Below(t, old) \subseteq DOMAIN t /\ Below(t, old) \subseteq Seqs
      /\ \A q \in Below(t, old) : IsPrefix(old, q)
  BY TreesFacts DEF Below
<1>3. ASSUME NEW q \in Below(t, old)
      PROVE  /\ new \o Behind(old, q) \in Seqs /\ IsPrefix(new, new \o Behind(old, q))
             /\ M[new \o Behind(old, q)] = t[q]
  <2>1. /\ new \o Behind(old, q) \in Seqs /\ IsPrefix(new, new \o Behind(old, q))
        /\ old \o Behind(new, new \o Behind(old, q)) = q
    BY <1>2, MovedPath
  <2>2. new \o Behind(old, q) \in Come(t, old, new)
    BY DEF Come
  <2> QED
    BY <2>1, <2>2
<1>4. \A p \in Come(t, old, new) : p \in Seqs /\ IsPrefix(new, p) /\ M[p] \in File \cup Dir
  <2> SUFFICES ASSUME NEW p \in Come(t, old, new)
               PROVE  p \in Seqs /\ IsPrefix(new, p) /\ M[p] \in File \cup Dir
    OBVIOUS
  <2>1. PICK q \in Below(t, old) : p = new \o Behind(old, q)
    BY DEF Come
  <2>2. t[q] \in File \cup Dir
    BY <1>2, TreesFacts
  <2> HIDE DEF M
  <2> QED
    BY <1>3, <2>1, <2>2
<1>5. \A p \in DOMAIN t \ Gone(t, old, new) : p \notin Come(t, old, new) => M[p] = t[p]
  OBVIOUS
<1>6. D \subseteq Seqs /\ M \in [D -> File \cup Dir]
  <2>1. \A p \in D : p \in Seqs /\ M[p] \in File \cup Dir
    <3> HIDE DEF M
    <3> QED
      BY <1>4, <1>5, TreesFacts
  <2> QED
    BY <2>1
<1>7. M \in Trees
  <2> HIDE DEF M, D
  <2> QED
    BY <1>6, IsOfTrees
<1>8. DOMAIN M = D
  OBVIOUS
<1> HIDE DEF M
<1> QED
  BY <1>1, <1>3, <1>4, <1>5, <1>7, <1>8

(* What lies below something lies below a directory.                       *)
LEMMA AncestorsAreDirs ==
    ASSUME NEW t \in Trees, Rooted(t), NEW p \in Seqs, NEW q \in DOMAIN t,
           IsPrefix(p, q), p # q
    PROVE  IsDir(t, p)
<1> DEFINE Near(n) == \A r \in DOMAIN t : IsPrefix(p, r) /\ p # r /\ Len(r) <= n => IsDir(t, p)
           S == { n \in Nat : Near(n) }
<1>0. DOMAIN t \subseteq Seqs /\ \A r \in DOMAIN t : Len(r) \in Nat
  BY TreesFacts, LenProperties DEF Seqs
<1>1. 0 \in S
  <2>1. ASSUME NEW r \in DOMAIN t, IsPrefix(p, r), p # r, Len(r) <= 0 PROVE FALSE
    <3>1. r \in Seqs /\ Len(r) = 0 /\ p \in Seqs /\ Len(p) \in Nat /\ Len(p) <= Len(r)
      BY <1>0, <2>1, PrefixSplits, LenProperties DEF Seqs
    <3>2. r = <<>> /\ p = <<>>
      BY <3>1, FrontFacts
    <3> QED
      BY <2>1, <3>2
  <2> QED
    BY <2>1
<1>2. ASSUME NEW n \in Nat, n \in S PROVE n + 1 \in S
  <2> SUFFICES ASSUME NEW r \in DOMAIN t, IsPrefix(p, r), p # r, Len(r) <= n + 1
               PROVE  IsDir(t, p)
    OBVIOUS
  <2>1. r \in Seqs /\ r # <<>>
    <3>1. r \in Seqs /\ p \in Seqs /\ Len(p) <= Len(r) /\ Len(p) \in Nat
      BY <1>0, PrefixSplits, LenProperties DEF Seqs
    <3>2. ASSUME r = <<>> PROVE p = <<>>
      BY <3>1, <3>2, EmptyPath, FrontFacts
    <3> QED
      BY <3>1, <3>2
  <2>2. /\ Front(r) \in Seqs /\ Len(r) \in Nat /\ Len(Front(r)) = Len(r) - 1
        /\ IsDir(t, Front(r)) /\ Front(r) \in DOMAIN t
    BY <2>1, FrontFacts DEF Rooted, IsDir
  <2>3. Len(Front(r)) <= n
    BY <2>2
  <2>4. IsPrefix(p, Front(r))
    BY <2>1, PrefixOfFront
  <2>5. CASE p = Front(r)
    BY <2>2, <2>5
  <2>6. CASE p # Front(r)
    BY <1>2, <2>2, <2>3, <2>4, <2>6
  <2> QED
    BY <2>5, <2>6
<1> HIDE DEF S
<1>3. Nat \subseteq S
  BY <1>1, <1>2, NatSetInduction
<1>4. Near(Len(q))
  BY <1>0, <1>3 DEF S
<1> QED
  BY <1>0, <1>4

LEMMA AddingTree ==
    ASSUME NEW t \in Trees, IsTree(t), NEW p \in Seqs, NEW n \in File \cup Dir,
           p # <<>>, ~Exists(t, p), IsDir(t, Front(p)), Len(p) <= MaxDepth,
           n \in File \/ n \notin Range(t)
    PROVE  IsTree(Adding(t, p, n))
<1> DEFINE u == Adding(t, p, n)
<1>0. p \notin DOMAIN t
  BY DEF Exists
<1>1. /\ u \in Trees /\ DOMAIN u = DOMAIN t \cup {p} /\ u[p] = n /\ p \notin DOMAIN t
      /\ \A q \in DOMAIN t : u[q] = t[q]
  <2>1. /\ u \in Trees /\ DOMAIN u = DOMAIN t \cup {p} /\ u[p] = n
        /\ \A q \in DOMAIN t : q # p => u[q] = t[q]
    BY AddingFacts
  <2> HIDE DEF u
  <2> QED
    BY <1>0, <2>1
<1>2. \A q \in DOMAIN t : t[q] \in Range(t)
  BY DEF Range
<1> HIDE DEF u
<1>3. IsFiniteSet(DOMAIN u)
  BY <1>1, FS_AddElement DEF IsTree, Rooted
<1>4. \A q : IsDir(t, q) => IsDir(u, q)
  BY <1>1 DEF IsDir
<1>5. Rooted(u)
  BY <1>1, <1>3, <1>4 DEF IsTree, Rooted
<1>6. DirsUnique(u)
  <2> SUFFICES ASSUME NEW q \in DOMAIN u, NEW r \in DOMAIN u, q # r, u[q] = u[r]
               PROVE  u[q] \in File \cup {Fixed}
    BY DEF DirsUnique
  <2>1. CASE q \in DOMAIN t /\ r \in DOMAIN t
    BY <1>1, <2>1 DEF IsTree, DirsUnique
  <2>2. CASE q = p \/ r = p
    BY <1>1, <1>2, <2>2
  <2> QED
    BY <1>1, <2>1, <2>2
<1> QED
  BY <1>5, <1>6 DEF IsTree, u

LEMMA RemovingTree ==
    ASSUME NEW t \in Trees, IsTree(t), NEW p \in Seqs, Exists(t, p), IsEmpty(t, p)
    PROVE  IsTree(Removing(t, p))
<1> DEFINE u == Removing(t, p)
<1>1. /\ u \in Trees /\ DOMAIN u = DOMAIN t \ {p}
      /\ \A q \in DOMAIN t : q # p => u[q] = t[q]
  BY RemovingFacts
<1> HIDE DEF u
<1>2. IsFiniteSet(DOMAIN u)
  BY <1>1, FS_RemoveElement DEF IsTree, Rooted
<1>3. ASSUME NEW q \in DOMAIN u
      PROVE  Len(q) <= MaxDepth /\ (q # <<>> => IsDir(u, Front(q)))
  <2>1. q \in DOMAIN t /\ q # p /\ q \in Seqs
    BY <1>1, TreesFacts
  <2>2. Len(q) <= MaxDepth /\ (q # <<>> => IsDir(t, Front(q)))
    BY <2>1 DEF IsTree, Rooted
  <2>3. ASSUME q # <<>> PROVE Front(q) # p
    <3>1. IsPrefix(Front(q), q)
      BY <2>1, <2>3, FrontFacts
    <3>2. p # Front(q) \/ q \in Below(t, p)
      BY <2>1, <3>1 DEF Below
    <3> QED
      BY <2>1, <3>2 DEF IsEmpty
  <2> QED
    BY <1>1, <2>2, <2>3 DEF IsDir
<1>4. DirsUnique(u)
  BY <1>1 DEF IsTree, DirsUnique
<1> QED
  BY <1>2, <1>3, <1>4 DEF IsTree, Rooted, u

(* What can be moved: CanRename, of any tree.                              *)
MayMove(t, old, new) ==
    /\ Exists(t, old) /\ new # <<>>
    /\ IsDir(t, Front(new)) /\ ~IsDir(t, new)
    /\ old # new
    /\ IsDir(t, old) => ~IsPrefix(old, new)
    /\ \A q \in Below(t, old) : Len(new) + Len(q) - Len(old) <= MaxDepth

(* Nothing lies where the moved comes to, and the directory that it comes  *)
(* into is not moved.                                                      *)
LEMMA MovesApart ==
    ASSUME NEW t \in Trees, Rooted(t), NEW old \in Seqs, NEW new \in Seqs,
           MayMove(t, old, new)
    PROVE  /\ \A p \in DOMAIN t : IsPrefix(new, p) => p = new
           /\ ~IsPrefix(old, new)
           /\ new \notin Below(t, old)
           /\ Front(new) \in DOMAIN t \ Gone(t, old, new)
           /\ (DOMAIN t \ Gone(t, old, new)) \cap Come(t, old, new) = {}
<1>1. ASSUME NEW p \in DOMAIN t, IsPrefix(new, p) PROVE p = new
  BY <1>1, AncestorsAreDirs DEF MayMove
<1>2. /\ Front(new) \in Seqs /\ Front(new) \in DOMAIN t /\ Front(new) # new
      /\ IsPrefix(Front(new), new)
  BY FrontFacts DEF MayMove, IsDir
<1>3. ~IsPrefix(old, Front(new))
  <2> SUFFICES ASSUME IsPrefix(old, Front(new)) PROVE FALSE
    OBVIOUS
  <2>1. IsDir(t, old)
    <3>1. CASE old = Front(new)
      BY <3>1 DEF MayMove
    <3>2. CASE old # Front(new)
      BY <1>2, <3>2, AncestorsAreDirs
    <3> QED
      BY <3>1, <3>2
  <2>2. IsPrefix(old, new)
    BY <1>2, PrefixTransitive
  <2> QED
    BY <2>1, <2>2 DEF MayMove
<1>4. ~IsPrefix(old, new)
  <2> SUFFICES ASSUME IsPrefix(old, new) PROVE FALSE
    OBVIOUS
  <2>1. old # new /\ new # <<>>
    BY DEF MayMove
  <2> QED
    BY <1>3, <2>1, PrefixOfFront
<1>5. Front(new) \in DOMAIN t \ Gone(t, old, new) /\ new \notin Below(t, old)
  BY <1>2, <1>3, <1>4 DEF Gone, Below
<1>6. (DOMAIN t \ Gone(t, old, new)) \cap Come(t, old, new) = {}
  <2>1. \A p \in Come(t, old, new) : IsPrefix(new, p)
    BY MovingFacts
  <2>2. new \in Gone(t, old, new)
    BY DEF Gone
  <2> QED
    BY <1>1, <2>1, <2>2
<1> QED
  BY <1>1, <1>4, <1>5, <1>6

(* Where each path of the moved tree was before.                           *)
Source(t, old, new) ==
    [p \in DOMAIN Moving(t, old, new) |->
        IF p \in Come(t, old, new) THEN CHOOSE q \in Below(t, old) : p = new \o Behind(old, q)
        ELSE p]

LEMMA SourceFacts ==
    ASSUME NEW t \in Trees, Rooted(t), NEW old \in Seqs, NEW new \in Seqs,
           MayMove(t, old, new)
    PROVE  LET u == Moving(t, old, new)
               s == Source(t, old, new)
           IN  /\ s \in Bijection(DOMAIN u, DOMAIN t \ {new})
               /\ \A p \in DOMAIN u : u[p] = t[s[p]]
               /\ \A p \in DOMAIN u : p \in Come(t, old, new) =>
                     s[p] \in Below(t, old) /\ p = new \o Behind(old, s[p])
               /\ \A p \in DOMAIN u : p \notin Come(t, old, new) =>
                     s[p] = p /\ p \in DOMAIN t \ Gone(t, old, new)
<1> DEFINE u == Moving(t, old, new)
           s == Source(t, old, new)
           come == Come(t, old, new)
           gone == Gone(t, old, new)
           below == Below(t, old)
<1>1. /\ u \in Trees /\ DOMAIN u = (DOMAIN t \ gone) \cup come
      /\ \A q \in below : u[new \o Behind(old, q)] = t[q]
      /\ \A p \in DOMAIN t \ gone : p \notin come => u[p] = t[p]
  BY MovingFacts, ZenonT(60)
<1>2. below \subseteq DOMAIN t /\ below \subseteq Seqs /\ \A q \in below : IsPrefix(old, q)
  BY TreesFacts DEF Below
<1>3. new \notin below /\ gone = below \cup {new} /\ (DOMAIN t \ gone) \cap come = {}
  BY MovesApart DEF Gone
<1>4. DOMAIN s = DOMAIN u
  BY DEF Source
<1>5. ASSUME NEW p \in DOMAIN u, p \in come
      PROVE  s[p] \in below /\ p = new \o Behind(old, s[p])
  <2>1. \E q \in below : p = new \o Behind(old, q)
    BY <1>5 DEF Come
  <2>2. s[p] = CHOOSE q \in below : p = new \o Behind(old, q)
    BY <1>5 DEF Source
  <2> HIDE DEF below, s
  <2> QED
    BY <2>1, <2>2
<1>6. ASSUME NEW p \in DOMAIN u, p \notin come
      PROVE  s[p] = p /\ p \in DOMAIN t \ gone
  BY <1>1, <1>6 DEF Source
<1>7. \A q \in below : new \o Behind(old, q) \in come
  BY DEF Come
<1>s. s = [p \in DOMAIN u |-> s[p]]
  BY DEF Source
<1> HIDE DEF u, s, come, gone, below
<1>8. \A p \in DOMAIN u : u[p] = t[s[p]]
  BY <1>1, <1>5, <1>6
<1>9. s \in [DOMAIN u -> DOMAIN t \ {new}]
  <2>1. \A p \in DOMAIN u : s[p] \in DOMAIN t \ {new}
    BY <1>1, <1>2, <1>3, <1>5, <1>6
  <2> QED
    BY <1>s, <2>1
<1>10. ASSUME NEW p \in DOMAIN u, NEW r \in DOMAIN u, s[p] = s[r] PROVE p = r
  BY <1>3, <1>5, <1>6, <1>10
<1>11. ASSUME NEW q \in DOMAIN t \ {new} PROVE \E p \in DOMAIN u : s[p] = q
  <2>1. CASE q \in below
    <3> DEFINE p == new \o Behind(old, q)
    <3>1. p \in come /\ p \in DOMAIN u
      BY <1>1, <1>7, <2>1
    <3>2. s[p] \in below /\ new \o Behind(old, s[p]) = p
      BY <1>5, <3>1
    <3>3. s[p] = q
      BY <1>2, <2>1, <3>2, MovedPath
    <3> QED
      BY <3>1, <3>3
  <2>2. CASE q \notin below
    <3>1. q \in DOMAIN t \ gone
      BY <1>3, <2>2
    <3>2. q \in DOMAIN u /\ q \notin come
      BY <1>1, <1>3, <3>1
    <3> QED
      BY <1>6, <3>2
  <2> QED
    BY <2>1, <2>2
<1>12. s \in Bijection(DOMAIN u, DOMAIN t \ {new})
  BY <1>9, <1>10, <1>11 DEF Bijection, Injection, Surjection, IsInjective
<1> QED
  BY <1>5, <1>6, <1>8, <1>12 DEF u, s, come, gone, below

LEMMA MovingTree ==
    ASSUME NEW t \in Trees, IsTree(t), NEW old \in Seqs, NEW new \in Seqs,
           MayMove(t, old, new)
    PROVE  IsTree(Moving(t, old, new))
<1> DEFINE u == Moving(t, old, new)
           s == Source(t, old, new)
           come == Come(t, old, new)
           gone == Gone(t, old, new)
<1>0. Rooted(t) /\ DirsUnique(t)
  BY DEF IsTree
<1>1. /\ s \in Bijection(DOMAIN u, DOMAIN t \ {new})
      /\ \A p \in DOMAIN u : u[p] = t[s[p]]
      /\ \A p \in DOMAIN u : p \in come => s[p] \in Below(t, old) /\ p = new \o Behind(old, s[p])
      /\ \A p \in DOMAIN u : p \notin come => s[p] = p /\ p \in DOMAIN t \ gone
  BY <1>0, SourceFacts
<1>2. /\ u \in Trees /\ DOMAIN u = (DOMAIN t \ gone) \cup come
      /\ \A q \in Below(t, old) : u[new \o Behind(old, q)] = t[q]
      /\ \A p \in DOMAIN t \ gone : p \notin come => u[p] = t[p]
  BY MovingFacts, ZenonT(60)
<1>3. /\ \A p \in DOMAIN t : IsPrefix(new, p) => p = new
      /\ Front(new) \in DOMAIN t \ gone /\ (DOMAIN t \ gone) \cap come = {}
  BY <1>0, MovesApart
<1>4. DOMAIN t \subseteq Seqs /\ DOMAIN u \subseteq Seqs /\ Below(t, old) \subseteq DOMAIN t
      /\ \A q \in Below(t, old) : IsPrefix(old, q)
  BY <1>2, TreesFacts DEF Below
<1>5. \A q \in Below(t, old) : new \o Behind(old, q) \in come
  BY DEF Come
<1>6. gone = Below(t, old) \cup {new}
  BY DEF Gone
<1> HIDE DEF u, s, come, gone
<1>7. ASSUME NEW p \in DOMAIN t \ gone, IsDir(t, p) PROVE IsDir(u, p)
  BY <1>2, <1>3, <1>7 DEF IsDir
<1>8. ASSUME NEW q \in Below(t, old), IsDir(t, q) PROVE IsDir(u, new \o Behind(old, q))
  BY <1>2, <1>5, <1>8 DEF IsDir
<1>9. IsFiniteSet(DOMAIN u)
  <2>1. s \in Injection(DOMAIN u, DOMAIN t \ {new})
    BY <1>1 DEF Bijection
  <2>2. IsFiniteSet(DOMAIN t \ {new})
    BY <1>0, FS_RemoveElement DEF Rooted
  <2> QED
    BY <2>1, <2>2, FS_Injection
<1>10. ASSUME NEW p \in DOMAIN u PROVE Len(p) <= MaxDepth
  <2>1. CASE p \in come
    <3>1. PICK q \in Below(t, old) : p = new \o Behind(old, q)
      BY <1>1, <2>1
    <3>2. Len(p) = Len(new) + Len(q) - Len(old)
      BY <1>4, <3>1, MovedPath
    <3> QED
      BY <3>1, <3>2 DEF MayMove
  <2>2. CASE p \notin come
    BY <1>0, <1>1, <2>2 DEF Rooted
  <2> QED
    BY <2>1, <2>2
<1>11. ASSUME NEW p \in DOMAIN u, p # <<>> PROVE IsDir(u, Front(p))
  <2>1. CASE p = new
    BY <1>3, <1>7, <2>1 DEF MayMove
  <2>2. CASE p \in come /\ p # new
    <3> DEFINE q == s[p]
    <3>1. q \in Below(t, old) /\ p = new \o Behind(old, q) /\ q \in Seqs /\ q \in DOMAIN t
          /\ IsPrefix(old, q)
      BY <1>1, <1>4, <2>2
    <3> HIDE DEF q
    <3>2. q # old
      <4> SUFFICES ASSUME q = old PROVE p = new
        BY <2>2
      <4>1. Behind(old, old) = <<>>
        BY DEF Behind, Seqs
      <4> QED
        BY <3>1, <4>1, ConcatEmptySeq DEF Seqs
    <3>3. q # <<>> /\ IsPrefix(old, Front(q)) /\ Front(p) = new \o Behind(old, Front(q))
      BY <3>1, <3>2, FrontOfMoved
    <3>4. IsDir(t, Front(q)) /\ Front(q) \in Below(t, old)
      BY <1>0, <3>1, <3>3 DEF Rooted, IsDir, Below
    <3> QED
      BY <1>8, <3>3, <3>4
  <2>3. CASE p \notin come
    <3>1. p \in DOMAIN t \ gone /\ p \in Seqs /\ IsDir(t, Front(p)) /\ IsPrefix(Front(p), p)
          /\ Front(p) \in Seqs
      BY <1>0, <1>1, <1>4, <1>11, <2>3, FrontFacts DEF Rooted
    <3>2. Front(p) \in DOMAIN t /\ Front(p) # new
      BY <3>1 DEF IsDir, MayMove
    <3>3. Front(p) \notin Below(t, old)
      <4> SUFFICES ASSUME IsPrefix(old, Front(p)) PROVE FALSE
        BY DEF Below
      <4>1. IsPrefix(old, p)
        BY <3>1, PrefixTransitive
      <4> QED
        BY <1>6, <3>1, <4>1 DEF Below
    <3> QED
      BY <1>6, <1>7, <3>1, <3>2, <3>3
  <2> QED
    BY <2>1, <2>2, <2>3
<1>12. DirsUnique(u)
  <2> SUFFICES ASSUME NEW p \in DOMAIN u, NEW r \in DOMAIN u, p # r, u[p] = u[r]
               PROVE  u[p] \in File \cup {Fixed}
    BY DEF DirsUnique
  <2>1. s[p] \in DOMAIN t /\ s[r] \in DOMAIN t /\ s[p] # s[r]
    BY <1>1 DEF Bijection, Injection, IsInjective
  <2> QED
    BY <1>0, <1>1, <2>1 DEF DirsUnique
<1> QED
  BY <1>9, <1>10, <1>11, <1>12 DEF IsTree, Rooted, u

-----------------------------------------------------------------------------
(* What the paths that a guest passes lead to.                             *)

LEMMA HostPathFacts ==
    ASSUME NEW dir, IsDirfd(dir), NEW arg \in Arg, Writable(dir, arg)
    PROVE  LET at == ResolveDirfdPath(dir, arg)
           IN  /\ HostPath(dir, arg) \in Seqs
               /\ Inside(dir, at) /\ (arg.abs => HostRooted(at)) =>
                     BelowWritable(HostPath(dir, arg))
<1> DEFINE at == ResolveDirfdPath(dir, arg)
           m == Mounts[at.mount]
<1>1. at.mount # 0 /\ ~Escapes(dir, at) /\ m.writable
  BY DEF Writable
<1>2. at.mount \in Mount /\ at.rel \in Seqs
  BY <1>1, ResolveDirfdFacts
<1>3. m.host \in Seqs /\ m.host \o at.rel \in Seqs
  BY <1>2, MountFacts, PrefixOfConcat
<1>4. Inside(dir, at) => \E k \in Seqs : JoinedPath(at) = m.host \o k
  BY <1>1, AcceptedLiesBelow DEF JoinedPath
<1>5. HostPath(dir, arg) = IF IsRootMount(at.mount) /\ arg.abs THEN Clean(at.rel)
                           ELSE JoinedPath(at)
  BY DEF HostPath
<1>a. JoinedPath(at) = Clean(m.host \o at.rel)
  BY DEF JoinedPath
<1> HIDE DEF at, m
<1>6. HostPath(dir, arg) \in Seqs
  BY <1>2, <1>3, <1>5, <1>a, CleanTypes
<1>7. ASSUME Inside(dir, at), arg.abs => HostRooted(at)
      PROVE  IsPrefix(m.host, HostPath(dir, arg))
  <2>1. CASE IsRootMount(at.mount) /\ arg.abs
    <3>1. m.host = <<>>
      BY <1>7, <2>1 DEF HostRooted, m
    <3> QED
      BY <1>6, <3>1, EmptyPrefix
  <2>2. CASE ~(IsRootMount(at.mount) /\ arg.abs)
    <3>1. PICK k \in Seqs : HostPath(dir, arg) = m.host \o k
      BY <1>4, <1>5, <1>7, <2>2
    <3>2. IsPrefix(m.host, m.host \o k)
      BY <1>3, PrefixOfConcat
    <3> QED
      BY <3>1, <3>2
  <2> QED
    BY <2>1, <2>2
<1>8. ASSUME Inside(dir, at), arg.abs => HostRooted(at) PROVE BelowWritable(HostPath(dir, arg))
  <2>1. IsPrefix(m.host, HostPath(dir, arg))
    BY <1>7, <1>8
  <2> QED
    BY <1>1, <1>2, <2>1 DEF BelowWritable, m
<1> QED
  BY <1>6, <1>8 DEF at

LEMMA OpenedFacts ==
    ASSUME NEW dir, IsDirfd(dir), NEW arg \in Arg,
           Openable(dir, ResolveDirfdPath(dir, arg))
    PROVE  LET at == ResolveDirfdPath(dir, arg)
               m == Mounts[at.mount]
           IN  /\ OpenedAs(at) \in Seqs /\ CreatedAs(at) \in Seqs
               /\ GuestPathOf(at) \in Seqs /\ Names(GuestPathOf(at))
               /\ at.mount \in Mount
               /\ Inside(dir, at) /\ HostRooted(at) =>
                     /\ BelowWritable(CreatedAs(at))
                     /\ IsPrefix(m.guest, GuestPathOf(at))
                     /\ OpenedAs(at) = m.host \o Behind(m.guest, GuestPathOf(at))
<1> DEFINE at == ResolveDirfdPath(dir, arg)
           m == Mounts[at.mount]
           joined == Clean(m.host \o at.rel)
<1>1. at.mount # 0 /\ ~Escapes(dir, at) /\ m.writable
  BY DEF Openable
<1>2. at.mount \in Mount /\ at.rel \in Seqs
  BY <1>1, ResolveDirfdFacts
<1>3. /\ m.host \in Seqs /\ m.host \o at.rel \in Seqs
      /\ m.guest \in Seqs /\ Names(m.guest) /\ m.guest \o at.rel \in Seqs
  BY <1>2, MountFacts, PrefixOfConcat
<1>4. Inside(dir, at) => \E k \in Seqs : joined = m.host \o k /\ GuestPathOf(at) = m.guest \o k
  BY <1>1, AcceptedLiesBelow
<1>5. \A h \in {OpenedAs(at), CreatedAs(at)} :
         h \in {Clean(at.rel), joined} /\ (~IsRootMount(at.mount) => h = joined)
  BY DEF OpenedAs, CreatedAs, LeadsFromRoot, JoinedPath
<1>6. GuestPathOf(at) = Clean(m.guest \o at.rel)
  BY DEF GuestPathOf
<1> HIDE DEF at, m
<1>7. OpenedAs(at) \in Seqs /\ CreatedAs(at) \in Seqs
  BY <1>2, <1>3, <1>5, CleanTypes
<1>8. GuestPathOf(at) \in Seqs /\ Names(GuestPathOf(at))
  BY <1>3, <1>6, CleanTypes
<1>9. ASSUME Inside(dir, at), HostRooted(at)
      PROVE  /\ BelowWritable(CreatedAs(at))
             /\ IsPrefix(m.guest, GuestPathOf(at))
             /\ OpenedAs(at) = m.host \o Behind(m.guest, GuestPathOf(at))
  <2>1. PICK k \in Seqs : joined = m.host \o k /\ GuestPathOf(at) = m.guest \o k
    BY <1>4, <1>9
  <2>2. IsRootMount(at.mount) => Clean(at.rel) = joined
    <3> SUFFICES ASSUME IsRootMount(at.mount) PROVE Clean(at.rel) = joined
      OBVIOUS
    <3>1. m.host = <<>>
      BY <1>9 DEF HostRooted, m
    <3>2. m.host \o at.rel = at.rel
      BY <1>2, <3>1, ConcatEmptySeq DEF Seqs
    <3> QED
      BY <3>2
  <2>3. OpenedAs(at) = m.host \o k /\ CreatedAs(at) = m.host \o k
    BY <1>5, <2>1, <2>2
  <2>4. IsPrefix(m.guest, GuestPathOf(at)) /\ Behind(m.guest, GuestPathOf(at)) = k
    BY <1>3, <2>1, PrefixOfConcat
  <2>5. IsPrefix(m.host, m.host \o k)
    BY <1>3, PrefixOfConcat
  <2>6. IsPrefix(m.host, CreatedAs(at))
    BY <2>3, <2>5
  <2>7. BelowWritable(CreatedAs(at))
    BY <1>1, <1>2, <2>6 DEF BelowWritable, m
  <2> QED
    BY <2>3, <2>4, <2>7
<1> QED
  BY <1>2, <1>7, <1>8, <1>9 DEF at, m

LEMMA DirectoriesAreDirfds ==
    ASSUME OpenShape, NEW dir \in Directories
    PROVE  IsDirfd(dir)
<1>1. ASSUME NEW k \in Mount, dir = Preopen(k) PROVE IsDirfd(dir)
  BY <1>1, MountFacts DEF IsDirfd, Preopen
<1>2. ASSUME NEW d \in Slot, open[d] # Unopened, dir = Nested(open[d].path) PROVE IsDirfd(dir)
  BY <1>2 DEF IsDirfd, Nested, OpenShape
<1>3. IsDirfd(NoDirectory)
  BY EmptyPath DEF IsDirfd, NoDirectory
<1> QED
  BY <1>1, <1>2, <1>3 DEF Directories, NestedDirectories

LEMMA TargetFacts ==
    ASSUME OpenShape, NEW x \in Targets
    PROVE  /\ x.name \in Seqs /\ x.slash \in BOOLEAN
           /\ x.inside \in BOOLEAN /\ (x.inside => BelowWritable(x.name))
<1>1. PICK dir \in Directories : x \in TargetsFrom(dir)
  BY DEF Targets
<1>2. PICK arg \in Arg : Writable(dir, arg) /\ x = Target(dir, arg)
  BY <1>1 DEF TargetsFrom
<1> DEFINE at == ResolveDirfdPath(dir, arg)
           confined == Inside(dir, at) /\ (arg.abs => HostRooted(at))
<1>3. IsDirfd(dir)
  BY DirectoriesAreDirfds
<1>4. HostPath(dir, arg) \in Seqs /\ (confined => BelowWritable(HostPath(dir, arg)))
  BY <1>2, <1>3, HostPathFacts
<1>5. TrailingSlash(arg) \in BOOLEAN /\ confined \in BOOLEAN
  BY DEF TrailingSlash, Inside, HostRooted
<1>6. x = [name |-> HostPath(dir, arg), slash |-> TrailingSlash(arg), inside |-> confined]
  BY <1>2 DEF Target
<1> HIDE DEF confined
<1>7. x.name = HostPath(dir, arg) /\ x.slash = TrailingSlash(arg) /\ x.inside = confined
  BY <1>6
<1> QED
  BY <1>4, <1>5, <1>7

-----------------------------------------------------------------------------
(* The course of a call.                                                   *)

Keeps ==
    /\ call'.op = call.op /\ call'.old = call.old /\ call'.new = call.new
    /\ call'.slash = call.slash /\ call'.inside = call.inside

LEMMA CallSteps ==
    ASSUME CallShape
    PROVE  /\ \A label \in Labels : Goes(label) =>
                 /\ CallShape' /\ Keeps /\ tree' = tree
                 /\ call'.before = call.before /\ call'.alone = call.alone
                 /\ call'.at = label /\ call'.ok = call.ok
           /\ Fails =>
                 /\ CallShape' /\ Keeps /\ tree' = tree
                 /\ call'.before = call.before /\ call'.alone = call.alone
                 /\ call'.at = "done" /\ call'.ok = call.ok
           /\ \A t : Makes(t) =>
                 /\ CallShape' /\ Keeps /\ tree' = t
                 /\ call'.before = call.before /\ call'.alone = call.alone
                 /\ call'.at = "done" /\ call'.ok = TRUE
<1>1. ASSUME NEW label \in Labels, call' = [call EXCEPT !.at = label]
      PROVE  /\ CallShape' /\ Keeps
             /\ call'.before = call.before /\ call'.alone = call.alone
             /\ call'.at = label /\ call'.ok = call.ok
  <2>1. CallShape'
    BY <1>1 DEF CallShape
  <2>2. /\ Keeps /\ call'.before = call.before /\ call'.alone = call.alone
        /\ call'.at = label /\ call'.ok = call.ok
    BY <1>1 DEF CallShape, Keeps
  <2> QED
    BY <2>1, <2>2
<1>2. ASSUME call' = [call EXCEPT !.at = "done", !.ok = TRUE]
      PROVE  /\ CallShape' /\ Keeps
             /\ call'.before = call.before /\ call'.alone = call.alone
             /\ call'.at = "done" /\ call'.ok = TRUE
  <2>1. CallShape'
    BY <1>2 DEF CallShape, Labels
  <2>2. /\ Keeps /\ call'.before = call.before /\ call'.alone = call.alone
        /\ call'.at = "done" /\ call'.ok = TRUE
    BY <1>2 DEF CallShape, Keeps
  <2> QED
    BY <2>1, <2>2
<1>3. "done" \in Labels
  BY DEF Labels
<1> QED
  BY <1>1, <1>2, <1>3 DEF Goes, Fails, Makes

(* A step of the host leaves the call where it is.                         *)
LEMMA Disturbs ==
    ASSUME CallShape, call' = [call EXCEPT !.alone = FALSE, !.before = <<>>]
    PROVE  CallShape' /\ Keeps /\ call'.at = call.at /\ call'.ok = call.ok /\ ~call'.alone
<1>1. CallShape'
  BY EmptyTree DEF CallShape
<1> QED
  BY <1>1 DEF CallShape, Keeps

LEMMA BeginsAs ==
    ASSUME NEW op \in Ops, NEW label \in Labels, NEW old \in Seqs, NEW new \in Seqs,
           NEW slash \in BOOLEAN, NEW inside \in BOOLEAN, tree \in Trees,
           Begin(op, label, old, new, slash, inside)
    PROVE  /\ CallShape' /\ call'.op = op /\ call'.at = label
           /\ call'.old = old /\ call'.new = new /\ call'.slash = slash
           /\ call'.inside = inside /\ ~call'.ok /\ call'.before = tree /\ call'.alone
           /\ UNCHANGED <<tree, open, hostChanges>>
BY DEF Begin, Call, CallShape

(* How an operation begins.                                                *)
BeginsAt ==
    { <<"create_directory", "create_directory">>, <<"remove_directory", "remove_directory">>,
      <<"unlink_file", "unlink_file">>, <<"symlink", "symlink">>,
      <<"link", "validate_link">>, <<"rename", "validate_rename">> }

Begins ==
    BeginCreate \/ BeginRemove \/ BeginUnlink \/ BeginSymlink \/ BeginLink \/ BeginRename

LEMMA BeginsFacts ==
    ASSUME Shape, Begins
    PROVE  /\ CallShape' /\ <<call'.op, call'.at>> \in BeginsAt /\ call.at = "idle"
           /\ ~call'.ok /\ call'.before = tree /\ call'.alone
           /\ call'.inside => BelowWritable(call'.old)
           /\ call'.inside /\ call'.op \in {"link", "rename"} => BelowWritable(call'.new)
           /\ UNCHANGED <<tree, open, hostChanges>>
<1>0. OpenShape /\ tree \in Trees
  BY DEF Shape
<1>1. ASSUME NEW op \in {"create_directory", "remove_directory", "unlink_file", "symlink"},
             BeginOne(op)
      PROVE  /\ CallShape' /\ call'.op = op /\ call'.at = op /\ call.at = "idle"
             /\ ~call'.ok /\ call'.before = tree /\ call'.alone
             /\ call'.inside => BelowWritable(call'.old)
             /\ UNCHANGED <<tree, open, hostChanges>>
  <2>1. PICK x \in Targets :
           Begin(op, op, x.name, <<>>, op \in {"unlink_file", "symlink"} /\ x.slash, x.inside)
    BY <1>1 DEF BeginOne
  <2>2. call.at = "idle"
    BY <1>1 DEF BeginOne
  <2>3. /\ x.name \in Seqs /\ x.slash \in BOOLEAN
        /\ x.inside \in BOOLEAN /\ (x.inside => BelowWritable(x.name))
    BY <1>0, TargetFacts
  <2>4. op \in Ops /\ op \in Labels /\ <<>> \in Seqs
        /\ (op \in {"unlink_file", "symlink"} /\ x.slash) \in BOOLEAN
    BY EmptyPath DEF Ops, Labels
  <2>5. /\ CallShape' /\ call'.op = op /\ call'.at = op /\ call'.old = x.name
        /\ call'.inside = x.inside /\ ~call'.ok /\ call'.before = tree /\ call'.alone
        /\ UNCHANGED <<tree, open, hostChanges>>
    <3>1. PICK slash : slash = (op \in {"unlink_file", "symlink"} /\ x.slash)
      OBVIOUS
    <3>2. slash \in BOOLEAN /\ Begin(op, op, x.name, <<>>, slash, x.inside)
      BY <2>1, <2>4, <3>1
    <3> QED
      BY <1>0, <2>3, <2>4, <3>2, BeginsAs
  <2>6. call'.inside => BelowWritable(call'.old)
    BY <2>3, <2>5
  <2> QED
    BY <2>2, <2>5, <2>6
<1>2. ASSUME NEW op \in {"link", "rename"}, NEW label \in {"validate_link", "validate_rename"},
             BeginTwo(op, label)
      PROVE  /\ CallShape' /\ call'.op = op /\ call'.at = label /\ call.at = "idle"
             /\ ~call'.ok /\ call'.before = tree /\ call'.alone
             /\ call'.inside => BelowWritable(call'.old) /\ BelowWritable(call'.new)
             /\ UNCHANGED <<tree, open, hostChanges>>
  <2>1. PICK x \in Targets, y \in Targets :
           Begin(op, label, x.name, y.name, op = "link" /\ y.slash, x.inside /\ y.inside)
    BY <1>2 DEF BeginTwo
  <2>2. call.at = "idle"
    BY <1>2 DEF BeginTwo
  <2>3. /\ x.name \in Seqs /\ x.inside \in BOOLEAN /\ (x.inside => BelowWritable(x.name))
        /\ y.name \in Seqs /\ y.inside \in BOOLEAN /\ (y.inside => BelowWritable(y.name))
        /\ y.slash \in BOOLEAN
    BY <1>0, TargetFacts
  <2>4. /\ op \in Ops /\ label \in Labels /\ (op = "link" /\ y.slash) \in BOOLEAN
        /\ (x.inside /\ y.inside) \in BOOLEAN
    BY DEF Ops, Labels
  <2>5. /\ CallShape' /\ call'.op = op /\ call'.at = label
        /\ call'.old = x.name /\ call'.new = y.name /\ call'.inside = (x.inside /\ y.inside)
        /\ ~call'.ok /\ call'.before = tree /\ call'.alone
        /\ UNCHANGED <<tree, open, hostChanges>>
    BY <1>0, <2>1, <2>3, <2>4, BeginsAs, ZenonT(40)
  <2>6. call'.inside => BelowWritable(call'.old) /\ BelowWritable(call'.new)
    BY <2>3, <2>5
  <2> QED
    BY <2>2, <2>5, <2>6
<1>3. CASE BeginCreate
  BY <1>1, <1>3 DEF BeginCreate, BeginsAt
<1>4. CASE BeginRemove
  BY <1>1, <1>4 DEF BeginRemove, BeginsAt
<1>5. CASE BeginUnlink
  BY <1>1, <1>5 DEF BeginUnlink, BeginsAt
<1>6. CASE BeginSymlink
  BY <1>1, <1>6 DEF BeginSymlink, BeginsAt
<1>7. CASE BeginLink
  BY <1>2, <1>7 DEF BeginLink, BeginsAt
<1>8. CASE BeginRename
  BY <1>2, <1>8 DEF BeginRename, BeginsAt
<1> QED
  BY <1>3, <1>4, <1>5, <1>6, <1>7, <1>8 DEF Begins

(* The ways a step of a call ends.                                         *)
Going(label) ==
    /\ CallShape' /\ Keeps /\ UNCHANGED <<tree, open, hostChanges>>
    /\ call'.before = call.before /\ call'.alone = call.alone
    /\ call'.at = label /\ call'.ok = call.ok

Making(t) ==
    /\ CallShape' /\ Keeps /\ tree' = t /\ UNCHANGED <<open, hostChanges>>
    /\ call'.before = call.before /\ call'.alone = call.alone
    /\ call'.at = "done" /\ call'.ok

LEMMA WorkFacts ==
    ASSUME CallShape
    PROVE  /\ CreateDirectory =>
                 /\ call.at = "create_directory"
                 /\ \/ Going("done")
                    \/ /\ HasRoom(tree, call.old)
                       /\ \E n \in Dir \ Used : Making(Adding(tree, call.old, n))
           /\ RemoveDirectory =>
                 /\ call.at = "remove_directory"
                 /\ Going("done") \/ (IsDir(tree, call.old) /\ Going("remove"))
           /\ UnlinkFile =>
                 /\ call.at = "unlink_file"
                 /\ Going("done") \/ (IsFile(tree, call.old) /\ Going("remove"))
           /\ OsRemove =>
                 /\ call.at = "remove"
                 /\ \/ Going("done")
                    \/ CanRemove(call.old) /\ Making(Removing(tree, call.old))
           /\ Symlink =>
                 /\ call.at = "symlink"
                 /\ \/ Going("done")
                    \/ /\ HasRoom(tree, call.old)
                       /\ \E n \in File \ Used : Making(Adding(tree, call.old, n))
           /\ ValidateLink =>
                 /\ call.at = "validate_link"
                 /\ \/ Going("done")
                    \/ IsFile(tree, call.old) /\ ~Exists(tree, call.new) /\ Going("link")
           /\ Link =>
                 /\ call.at = "link"
                 /\ \/ Going("done")
                    \/ /\ IsFile(tree, call.old) /\ HasRoom(tree, call.new)
                       /\ Making(Adding(tree, call.new, tree[call.old]))
           /\ ValidateRename => call.at = "validate_rename" /\ (Going("done") \/ Going("rename"))
           /\ RenamePath =>
                 /\ call.at \in {"rename", "rename_again"}
                 /\ \/ CanRename(call.old, call.new) /\ Making(Renamed(call.old, call.new))
                    \/ call.at = "rename" /\ Going("is_empty")
                    \/ ~CanRename(call.old, call.new) /\ Going("done")
           /\ AreEmpty =>
                 /\ call.at = "is_empty"
                 /\ Going("done") \/ (BothEmpty /\ Going("make_way"))
           /\ MakeWay =>
                 /\ call.at = "make_way"
                 /\ \/ ~CanRemove(call.new) /\ Going("done")
                    \/ /\ CanRemove(call.new) /\ tree' = Removing(tree, call.new)
                       /\ CallShape' /\ Keeps /\ UNCHANGED <<open, hostChanges>>
                       /\ call'.before = call.before /\ call'.alone = call.alone
                       /\ call'.at = "rename_again" /\ call'.ok = call.ok
<1>1. Fails /\ Rest => Going("done")
  BY CallSteps DEF Going, Rest
<1>2. \A label \in Labels : Goes(label) /\ Rest => Going(label)
  BY CallSteps DEF Going, Rest
<1>3. \A t : Makes(t) /\ Rest => Making(t)
  BY CallSteps DEF Making, Rest
<1>4. {"remove", "link", "rename", "is_empty", "make_way", "rename_again"} \subseteq Labels
  BY DEF Labels
<1>5. CreateDirectory => /\ call.at = "create_directory"
                         /\ \/ Going("done")
                            \/ /\ HasRoom(tree, call.old)
                               /\ \E n \in Dir \ Used : Making(Adding(tree, call.old, n))
  BY <1>1, <1>3 DEF CreateDirectory
<1>6. RemoveDirectory => /\ call.at = "remove_directory"
                         /\ Going("done") \/ (IsDir(tree, call.old) /\ Going("remove"))
  BY <1>1, <1>2, <1>4 DEF RemoveDirectory, MayRemove
<1>7. UnlinkFile => /\ call.at = "unlink_file"
                    /\ Going("done") \/ (IsFile(tree, call.old) /\ Going("remove"))
  BY <1>1, <1>2, <1>4 DEF UnlinkFile
<1>8. OsRemove => /\ call.at = "remove"
                  /\ \/ Going("done")
                     \/ CanRemove(call.old) /\ Making(Removing(tree, call.old))
  BY <1>1, <1>3 DEF OsRemove
<1>9. Symlink => /\ call.at = "symlink"
                 /\ \/ Going("done")
                    \/ /\ HasRoom(tree, call.old)
                       /\ \E n \in File \ Used : Making(Adding(tree, call.old, n))
  BY <1>1, <1>3 DEF Symlink
<1>10. ValidateLink =>
          /\ call.at = "validate_link"
          /\ \/ Going("done")
             \/ IsFile(tree, call.old) /\ ~Exists(tree, call.new) /\ Going("link")
  BY <1>1, <1>2, <1>4 DEF ValidateLink
<1>11. Link => /\ call.at = "link"
               /\ \/ Going("done")
                  \/ /\ IsFile(tree, call.old) /\ HasRoom(tree, call.new)
                     /\ Making(Adding(tree, call.new, tree[call.old]))
  BY <1>1, <1>3 DEF Link
<1>12. ValidateRename => call.at = "validate_rename" /\ (Going("done") \/ Going("rename"))
  BY <1>1, <1>2, <1>4 DEF ValidateRename
<1>13. RenamePath => /\ call.at \in {"rename", "rename_again"}
                     /\ \/ /\ CanRename(call.old, call.new)
                           /\ Making(Renamed(call.old, call.new))
                        \/ call.at = "rename" /\ Going("is_empty")
                        \/ ~CanRename(call.old, call.new) /\ Going("done")
  BY <1>1, <1>2, <1>3, <1>4 DEF RenamePath
<1>14. AreEmpty => /\ call.at = "is_empty"
                   /\ Going("done") \/ (BothEmpty /\ Going("make_way"))
  BY <1>1, <1>2, <1>4 DEF AreEmpty
<1>15. MakeWay =>
          /\ call.at = "make_way"
          /\ \/ ~CanRemove(call.new) /\ Going("done")
             \/ /\ CanRemove(call.new) /\ tree' = Removing(tree, call.new)
                /\ CallShape' /\ Keeps /\ UNCHANGED <<open, hostChanges>>
                /\ call'.before = call.before /\ call'.alone = call.alone
                /\ call'.at = "rename_again" /\ call'.ok = call.ok
  <2>1. CASE CanRemove(InTheWay) /\ MakeWay
    <3>1. /\ tree' = Removing(tree, call.new) /\ CanRemove(call.new) /\ call.at = "make_way"
          /\ call' = [call EXCEPT !.at = "rename_again"] /\ UNCHANGED <<open, hostChanges>>
      BY <2>1 DEF MakeWay, InTheWay, Rest
    <3>2. "rename_again" \in Labels
      BY DEF Labels
    <3>3. CallShape'
      BY <3>1, <3>2 DEF CallShape
    <3>4. /\ Keeps /\ call'.before = call.before /\ call'.alone = call.alone
          /\ call'.at = "rename_again" /\ call'.ok = call.ok
      BY <3>1 DEF CallShape, Keeps
    <3> QED
      BY <3>1, <3>3, <3>4
  <2>2. CASE ~CanRemove(InTheWay) /\ MakeWay
    BY <1>1, <2>2 DEF MakeWay, InTheWay
  <2> QED
    BY <2>1, <2>2
<1> QED
  BY <1>5, <1>6, <1>7, <1>8, <1>9, <1>10, <1>11, <1>12, <1>13, <1>14, <1>15

Works ==
    \/ CreateDirectory \/ RemoveDirectory \/ UnlinkFile \/ OsRemove
    \/ Symlink \/ ValidateLink \/ Link
    \/ ValidateRename \/ RenamePath \/ AreEmpty \/ MakeWay

-----------------------------------------------------------------------------
(* What a step does to the tree.                                           *)
Adds(p) ==
    /\ p \in Seqs /\ HasRoom(tree, p)
    /\ \E n \in File \cup Dir : (n \in File \/ n \notin Range(tree)) /\ tree' = Adding(tree, p, n)

Removes(p) == p \in Seqs /\ CanRemove(p) /\ tree' = Removing(tree, p)

Moves(old, new) ==
    old \in Seqs /\ new \in Seqs /\ MayMove(tree, old, new) /\ tree' = Moving(tree, old, new)

LEMMA RenamedFacts ==
    ASSUME NEW old, NEW new, CanRename(old, new)
    PROVE  \/ Renamed(old, new) = tree /\ Exists(tree, new) /\ tree[new] = tree[old]
           \/ Renamed(old, new) = Moving(tree, old, new) /\ MayMove(tree, old, new)
<1>1. CASE Exists(tree, new) /\ tree[new] = tree[old]
  BY <1>1 DEF Renamed
<1>2. CASE ~(Exists(tree, new) /\ tree[new] = tree[old])
  <2>1. old # new
    BY <1>2 DEF CanRename
  <2> QED
    BY <1>2, <2>1 DEF Renamed, CanRename, MayMove, FitsDepth
<1> QED
  BY <1>1, <1>2

LEMMA StepTypes ==
    ASSUME tree \in Trees, NEW p \in Seqs, NEW q \in Seqs,
           tree' = tree \/ Adds(p) \/ Removes(p) \/ Moves(p, q)
    PROVE  tree' \in Trees
<1>1. ASSUME Adds(p) PROVE tree' \in Trees
  <2>1. PICK n \in File \cup Dir : tree' = Adding(tree, p, n)
    BY <1>1 DEF Adds
  <2>2. Adding(tree, p, n) \in Trees
    BY AddingFacts
  <2> QED
    BY <2>1, <2>2
<1>2. ASSUME Removes(p) PROVE tree' \in Trees
  BY <1>2, RemovingFacts DEF Removes
<1>3. ASSUME Moves(p, q) PROVE tree' \in Trees
  BY <1>3, MovingFacts DEF Moves
<1> QED
  BY <1>1, <1>2, <1>3

LEMMA StepTrees ==
    ASSUME tree \in Trees, IsTree(tree), NEW p, NEW q,
           tree' = tree \/ Adds(p) \/ Removes(p) \/ Moves(p, q)
    PROVE  IsTree(tree')
<1>1. ASSUME Adds(p) PROVE IsTree(tree')
  BY <1>1, AddingTree DEF Adds, HasRoom
<1>2. ASSUME Removes(p) PROVE IsTree(tree')
  BY <1>2, RemovingTree DEF Removes, CanRemove
<1>3. ASSUME Moves(p, q) PROVE IsTree(tree')
  BY <1>3, MovingTree DEF Moves
<1> QED
  BY <1>1, <1>2, <1>3

(* What each label is followed by.                                         *)
Follows ==
    { <<"create_directory", "done">>, <<"remove_directory", "remove">>,
      <<"remove_directory", "done">>, <<"unlink_file", "remove">>, <<"unlink_file", "done">>,
      <<"remove", "done">>, <<"symlink", "done">>,
      <<"validate_link", "link">>, <<"validate_link", "done">>, <<"link", "done">>,
      <<"validate_rename", "rename">>, <<"validate_rename", "done">>,
      <<"rename", "is_empty">>, <<"rename", "done">>, <<"is_empty", "make_way">>,
      <<"is_empty", "done">>, <<"make_way", "rename_again">>, <<"make_way", "done">>,
      <<"rename_again", "done">> }

LEMMA CourseSteps ==
    ASSUME CallShape, Course, Keeps, <<call.at, call'.at>> \in Follows,
           call'.ok => call'.at = "done"
    PROVE  Course'
<1>1. call.op \in Ops
  BY DEF CallShape
<1> QED
  BY <1>1 DEF Course, Keeps, Follows, Ops

LEMMA WorkEffect ==
    ASSUME Shape, Works
    PROVE  /\ CallShape' /\ Keeps /\ UNCHANGED <<open, hostChanges>>
           /\ call'.before = call.before /\ call'.alone = call.alone
           /\ <<call.at, call'.at>> \in Follows /\ (call'.ok => call'.at = "done")
           /\ \/ tree' = tree \/ (call.op # "rename" /\ Adds(call.old))
              \/ (call.op = "link" /\ Adds(call.new))
              \/ (call.op \in {"remove_directory", "unlink_file"} /\ Removes(call.old))
              \/ (call.op = "rename" /\ call.at = "make_way" /\ Removes(call.new))
              \/ (call.op = "rename" /\ Moves(call.old, call.new))
<1>0. /\ CallShape /\ Course /\ tree \in Trees
      /\ call.old \in Seqs /\ call.new \in Seqs /\ call.op \in Ops
  BY DEF Shape, CallShape
<1>1. ASSUME NEW label, Going(label), <<call.at, label>> \in Follows,
             call.at # "done"
      PROVE  /\ CallShape' /\ Keeps /\ UNCHANGED <<open, hostChanges>>
             /\ call'.before = call.before /\ call'.alone = call.alone
             /\ <<call.at, call'.at>> \in Follows /\ (call'.ok => call'.at = "done")
             /\ tree' = tree
  BY <1>0, <1>1 DEF Going, Course
<1>2. ASSUME NEW t, Making(t), <<call.at, "done">> \in Follows
      PROVE  /\ CallShape' /\ Keeps /\ UNCHANGED <<open, hostChanges>>
             /\ call'.before = call.before /\ call'.alone = call.alone
             /\ <<call.at, call'.at>> \in Follows /\ (call'.ok => call'.at = "done")
             /\ tree' = t
  BY <1>2 DEF Making
<1>3. CASE CreateDirectory
  <2>1. /\ call.at = "create_directory"
        /\ \/ Going("done")
           \/ /\ HasRoom(tree, call.old)
              /\ \E n \in Dir \ Used : Making(Adding(tree, call.old, n))
    BY <1>0, <1>3, WorkFacts
  <2>2. <<call.at, "done">> \in Follows /\ call.op # "rename"
    BY <1>0, <2>1 DEF Follows, Course
  <2>3. CASE Going("done")
    BY <1>1, <2>1, <2>2, <2>3
  <2>4. ASSUME HasRoom(tree, call.old), NEW n \in Dir \ Used, Making(Adding(tree, call.old, n))
        PROVE  Adds(call.old)
    <3>1. tree' = Adding(tree, call.old, n) /\ n \notin Range(tree)
      BY <2>4 DEF Making, Used
    <3> QED
      BY <1>0, <2>4, <3>1 DEF Adds
  <2> QED
    BY <1>2, <2>1, <2>2, <2>3, <2>4
<1>4. CASE RemoveDirectory
  <2>1. call.at = "remove_directory" /\ (Going("done") \/ Going("remove"))
    BY <1>0, <1>4, WorkFacts
  <2>2. <<call.at, "done">> \in Follows /\ <<call.at, "remove">> \in Follows
    BY <2>1 DEF Follows
  <2> QED
    BY <1>1, <2>1, <2>2
<1>5. CASE UnlinkFile
  <2>1. call.at = "unlink_file" /\ (Going("done") \/ Going("remove"))
    BY <1>0, <1>5, WorkFacts
  <2>2. <<call.at, "done">> \in Follows /\ <<call.at, "remove">> \in Follows
    BY <2>1 DEF Follows
  <2> QED
    BY <1>1, <2>1, <2>2
<1>6. CASE OsRemove
  <2>1. /\ call.at = "remove"
        /\ \/ Going("done")
           \/ CanRemove(call.old) /\ Making(Removing(tree, call.old))
    BY <1>0, <1>6, WorkFacts
  <2>2. <<call.at, "done">> \in Follows /\ call.op \in {"remove_directory", "unlink_file"}
    BY <1>0, <2>1 DEF Follows, Course, Ops
  <2>3. CASE Going("done")
    BY <1>1, <2>1, <2>2, <2>3
  <2>4. CASE CanRemove(call.old) /\ Making(Removing(tree, call.old))
    BY <1>0, <1>2, <2>2, <2>4 DEF Removes
  <2> QED
    BY <2>1, <2>3, <2>4
<1>7. CASE Symlink
  <2>1. /\ call.at = "symlink"
        /\ \/ Going("done")
           \/ /\ HasRoom(tree, call.old)
              /\ \E n \in File \ Used : Making(Adding(tree, call.old, n))
    BY <1>0, <1>7, WorkFacts
  <2>2. <<call.at, "done">> \in Follows /\ call.op # "rename"
    BY <1>0, <2>1 DEF Follows, Course
  <2>3. CASE Going("done")
    BY <1>1, <2>1, <2>2, <2>3
  <2>4. ASSUME HasRoom(tree, call.old), NEW n \in File \ Used, Making(Adding(tree, call.old, n))
        PROVE  Adds(call.old)
    <3>1. tree' = Adding(tree, call.old, n)
      BY <2>4 DEF Making
    <3> QED
      BY <1>0, <2>4, <3>1 DEF Adds
  <2> QED
    BY <1>2, <2>1, <2>2, <2>3, <2>4
<1>8. CASE ValidateLink
  <2>1. call.at = "validate_link" /\ (Going("done") \/ Going("link"))
    BY <1>0, <1>8, WorkFacts
  <2>2. <<call.at, "done">> \in Follows /\ <<call.at, "link">> \in Follows
    BY <2>1 DEF Follows
  <2> QED
    BY <1>1, <2>1, <2>2
<1>9. CASE Link
  <2>1. /\ call.at = "link"
        /\ \/ Going("done")
           \/ /\ IsFile(tree, call.old) /\ HasRoom(tree, call.new)
              /\ Making(Adding(tree, call.new, tree[call.old]))
    BY <1>0, <1>9, WorkFacts
  <2>2. <<call.at, "done">> \in Follows /\ call.op = "link"
    BY <1>0, <2>1 DEF Follows, Course, Ops
  <2>3. CASE Going("done")
    BY <1>1, <2>1, <2>2, <2>3
  <2>4. CASE /\ IsFile(tree, call.old) /\ HasRoom(tree, call.new)
             /\ Making(Adding(tree, call.new, tree[call.old]))
    <3>1. tree' = Adding(tree, call.new, tree[call.old]) /\ tree[call.old] \in File
      BY <2>4 DEF Making, IsFile
    <3>2. Adds(call.new)
      BY <1>0, <2>4, <3>1 DEF Adds
    <3> QED
      BY <1>2, <2>2, <2>4, <3>2
  <2> QED
    BY <2>1, <2>3, <2>4
<1>10. CASE ValidateRename
  <2>1. call.at = "validate_rename" /\ (Going("done") \/ Going("rename"))
    BY <1>0, <1>10, WorkFacts
  <2>2. <<call.at, "done">> \in Follows /\ <<call.at, "rename">> \in Follows
    BY <2>1 DEF Follows
  <2> QED
    BY <1>1, <2>1, <2>2
<1>11. CASE RenamePath
  <2>1. /\ call.at \in {"rename", "rename_again"}
        /\ \/ CanRename(call.old, call.new) /\ Making(Renamed(call.old, call.new))
           \/ call.at = "rename" /\ Going("is_empty")
           \/ ~CanRename(call.old, call.new) /\ Going("done")
    BY <1>0, <1>11, WorkFacts
  <2>2. /\ <<call.at, "done">> \in Follows /\ call.op = "rename" /\ call.at # "done"
        /\ call.at = "rename" => <<call.at, "is_empty">> \in Follows
    BY <1>0, <2>1 DEF Follows, Course, Ops
  <2>3. CASE (call.at = "rename" /\ Going("is_empty")) \/ Going("done")
    BY <1>1, <2>2, <2>3
  <2>4. CASE CanRename(call.old, call.new) /\ Making(Renamed(call.old, call.new))
    <3>1. tree' = Renamed(call.old, call.new)
      BY <2>4 DEF Making
    <3>2. tree' = tree \/ Moves(call.old, call.new)
      BY <1>0, <2>4, <3>1, RenamedFacts DEF Moves
    <3> QED
      BY <1>2, <2>2, <2>4, <3>2
  <2> QED
    BY <2>1, <2>3, <2>4
<1>12. CASE AreEmpty
  <2>1. call.at = "is_empty" /\ (Going("done") \/ Going("make_way"))
    BY <1>0, <1>12, WorkFacts
  <2>2. <<call.at, "done">> \in Follows /\ <<call.at, "make_way">> \in Follows
    BY <2>1 DEF Follows
  <2> QED
    BY <1>1, <2>1, <2>2
<1>13. CASE MakeWay
  <2>1. /\ call.at = "make_way"
        /\ \/ Going("done")
           \/ /\ CanRemove(call.new) /\ tree' = Removing(tree, call.new)
              /\ CallShape' /\ Keeps /\ UNCHANGED <<open, hostChanges>>
              /\ call'.before = call.before /\ call'.alone = call.alone
              /\ call'.at = "rename_again" /\ call'.ok = call.ok
    BY <1>0, <1>13, WorkFacts
  <2>2. /\ <<call.at, "done">> \in Follows /\ <<call.at, "rename_again">> \in Follows
        /\ call.op = "rename" /\ ~call.ok
    BY <1>0, <2>1 DEF Follows, Course, Ops
  <2>3. CASE Going("done")
    BY <1>1, <2>1, <2>2, <2>3
  <2>4. CASE ~Going("done")
    <3>1. Removes(call.new)
      BY <1>0, <2>1, <2>4 DEF Removes
    <3> QED
      BY <2>1, <2>2, <2>4, <3>1
  <2> QED
    BY <2>3, <2>4
<1> QED
  BY <1>3, <1>4, <1>5, <1>6, <1>7, <1>8, <1>9, <1>10, <1>11, <1>12, <1>13 DEF Works

(* The steps between calls, and those of other processes.                  *)
LEMMA ReturnFacts ==
    ASSUME Shape, Return
    PROVE  /\ CallShape' /\ call.at = "done" /\ call'.at = "idle" /\ call'.op = "none" /\ ~call'.ok
           /\ UNCHANGED <<tree, open, hostChanges>>
<1>1. call' = Idle /\ call.at = "done" /\ UNCHANGED <<tree, open, hostChanges>>
  BY DEF Return
<1>2. CallShape'
  BY <1>1, EmptyTree, EmptyPath DEF CallShape, Idle, Call, Ops, Labels
<1> QED
  BY <1>1, <1>2 DEF Idle, Call

LEMMA CreateFileFacts ==
    ASSUME Shape, CreateFile
    PROVE  /\ call.at = "idle" /\ UNCHANGED <<open, hostChanges>>
           /\ CallShape' /\ call'.op = "open" /\ call'.at = "done"
           /\ call'.ok /\ call'.before = tree /\ call'.alone
           /\ call'.inside => BelowWritable(call'.old)
           /\ Adds(call'.old)
           /\ \E n \in File : tree' = Adding(tree, call'.old, n)
<1>0. OpenShape /\ tree \in Trees
  BY DEF Shape
<1>1. PICK dir \in Directories, arg \in Arg :
         LET at == ResolveDirfdPath(dir, arg) IN
         /\ Openable(dir, at)
         /\ HasRoom(tree, CreatedAs(at))
         /\ \E n \in File \ Used : tree' = Adding(tree, CreatedAs(at), n)
         /\ call' = [Call("open", "done", CreatedAs(at), <<>>, FALSE, tree,
                          Inside(dir, at) /\ HostRooted(at)) EXCEPT !.ok = TRUE]
  BY DEF CreateFile
<1> DEFINE at == ResolveDirfdPath(dir, arg)
           p == CreatedAs(at)
           confined == Inside(dir, at) /\ HostRooted(at)
<1>2. p \in Seqs /\ (confined => BelowWritable(p))
  BY <1>0, <1>1, DirectoriesAreDirfds, OpenedFacts
<1>3. HasRoom(tree, p) /\ \E n \in File : tree' = Adding(tree, p, n)
  BY <1>1
<1>4. confined \in BOOLEAN
  BY DEF Inside, HostRooted
<1>5. call' = [Call("open", "done", p, <<>>, FALSE, tree, confined) EXCEPT !.ok = TRUE]
  BY <1>1
<1> HIDE DEF at, p, confined
<1>6. call' = [op |-> "open", at |-> "done", old |-> p, new |-> <<>>, slash |-> FALSE,
               ok |-> TRUE, before |-> tree, alone |-> TRUE, inside |-> confined]
  BY <1>5 DEF Call
<1>7. CallShape'
  BY <1>0, <1>2, <1>4, <1>6, EmptyPath DEF CallShape, Ops, Labels
<1>8. /\ call'.op = "open" /\ call'.at = "done" /\ call'.ok /\ call'.before = tree
      /\ call'.alone /\ call'.inside = confined /\ call'.old = p
  BY <1>6
<1>9. Adds(p)
  BY <1>2, <1>3 DEF Adds
<1> QED
  BY <1>2, <1>3, <1>7, <1>8, <1>9 DEF CreateFile

LEMMA OpenDirectoryFacts ==
    ASSUME Shape, NEW d \in Slot, OpenDirectory(d)
    PROVE  /\ call.at = "idle" /\ UNCHANGED <<tree, call, hostChanges>>
           /\ OpenShape'
           /\ \A e \in Slot \ {d} : open'[e] = open[e]
           /\ open'[d].inside => \E m \in Mount : LiesIn(m, open'[d])
<1>0. OpenShape
  BY DEF Shape
<1>1. PICK dir \in Directories, arg \in Arg :
         LET at == ResolveDirfdPath(dir, arg) IN
         /\ Openable(dir, at)
         /\ open' = [open EXCEPT ![d] =
               [path |-> GuestPathOf(at), name |-> OpenedAs(at),
                inside |-> Inside(dir, at) /\ HostRooted(at)]]
  BY DEF OpenDirectory
<1> DEFINE at == ResolveDirfdPath(dir, arg)
           m == Mounts[at.mount]
           confined == Inside(dir, at) /\ HostRooted(at)
           opened == [path |-> GuestPathOf(at), name |-> OpenedAs(at), inside |-> confined]
<1>2. /\ OpenedAs(at) \in Seqs /\ GuestPathOf(at) \in Seqs /\ Names(GuestPathOf(at))
      /\ confined => /\ IsPrefix(m.guest, GuestPathOf(at))
                     /\ OpenedAs(at) = m.host \o Behind(m.guest, GuestPathOf(at))
      /\ at.mount \in Mount
  BY <1>0, <1>1, DirectoriesAreDirfds, OpenedFacts
<1>3. confined \in BOOLEAN
  BY DEF Inside, HostRooted
<1>4. open' = [open EXCEPT ![d] = opened]
  BY <1>1
<1> HIDE DEF confined
<1>5. /\ opened.path \in Seqs /\ Names(opened.path) /\ opened.name \in Seqs
      /\ opened.inside \in BOOLEAN
  BY <1>2, <1>3
<1>6. opened.inside => LiesIn(at.mount, opened)
  <2>1. opened.path = GuestPathOf(at) /\ opened.name = OpenedAs(at) /\ opened.inside = confined
    OBVIOUS
  <2> HIDE DEF opened, at
  <2> QED
    BY <1>2, <1>3, <2>1 DEF LiesIn
<1> HIDE DEF at, opened, m
<1>7. open'[d] = opened /\ DOMAIN open' = Slot /\ \A e \in Slot \ {d} : open'[e] = open[e]
  BY <1>0, <1>4 DEF OpenShape
<1>8. OpenShape'
  BY <1>0, <1>5, <1>7 DEF OpenShape
<1> QED
  BY <1>2, <1>6, <1>7, <1>8 DEF OpenDirectory

LEMMA HostChangeFacts ==
    ASSUME Shape, HostChange
    PROVE  /\ CallShape' /\ Keeps /\ call'.at = call.at /\ call'.ok = call.ok
           /\ call.at # "idle" => ~call'.alone
           /\ UNCHANGED open /\ hostChanges' = hostChanges + 1
           /\ hostChanges' \in 0..MaxHostChanges
           /\ \E p, q \in Seqs : tree' = tree \/ Adds(p) \/ Removes(p) \/ Moves(p, q)
<1>0. OpenShape /\ CallShape /\ tree \in Trees /\ hostChanges \in 0..MaxHostChanges
  BY DEF Shape
<1>1. hostChanges < MaxHostChanges /\ hostChanges' = hostChanges + 1 /\ UNCHANGED open
  BY DEF HostChange
<1>2. hostChanges' \in 0..MaxHostChanges
  BY <1>0, <1>1, HostTreeAssumption
<1>3. CallShape' /\ Keeps /\ call'.at = call.at /\ call'.ok = call.ok
      /\ (call.at # "idle" => ~call'.alone)
  <2>1. CASE call.at = "idle"
    BY <1>0, <2>1 DEF HostChange, Keeps, CallShape
  <2>2. CASE call.at # "idle"
    BY <1>0, <2>2, Disturbs DEF HostChange
  <2> QED
    BY <2>1, <2>2
<1>4. \A p \in { x.name : x \in FromPreopens } : p \in Seqs
  <2>1. \A x \in FromPreopens : x \in Targets
    BY DEF Targets, FromPreopens, Directories
  <2> QED
    BY <1>0, <2>1, TargetFacts
<1>5. DOMAIN tree \subseteq Seqs
  BY <1>0, TreesFacts
<1>6. \E p, q \in Seqs : tree' = tree \/ Adds(p) \/ Removes(p) \/ Moves(p, q)
  <2>1. CASE \E p \in DOMAIN tree \ Initial : CanRemove(p) /\ tree' = Removing(tree, p)
    BY <1>5, <2>1 DEF Removes
  <2>2. CASE \E p \in { x.name : x \in FromPreopens }, n \in (File \cup Dir) \ Used :
                HasRoom(tree, p) /\ tree' = Adding(tree, p, n)
    <3>1. PICK p \in { x.name : x \in FromPreopens }, n \in (File \cup Dir) \ Used :
             HasRoom(tree, p) /\ tree' = Adding(tree, p, n)
      BY <2>2
    <3>2. n \notin Range(tree)
      BY DEF Used
    <3>3. p \in Seqs /\ Adds(p)
      BY <1>4, <3>1, <3>2 DEF Adds
    <3> QED
      BY <3>3
  <2>3. CASE \E old \in DOMAIN tree \ Initial, p \in { x.name : x \in FromPreopens } :
                CanRename(old, p) /\ tree' = Renamed(old, p)
    <3>1. PICK old \in DOMAIN tree \ Initial, p \in { x.name : x \in FromPreopens } :
             CanRename(old, p) /\ tree' = Renamed(old, p)
      BY <2>3
    <3>2. old \in Seqs /\ p \in Seqs
      BY <1>4, <1>5
    <3>3. tree' = tree \/ Moves(old, p)
      BY <3>1, <3>2, RenamedFacts DEF Moves
    <3> QED
      BY <3>2, <3>3
  <2> QED
    BY <2>1, <2>2, <2>3 DEF HostChange
<1> QED
  BY <1>1, <1>2, <1>3, <1>6

-----------------------------------------------------------------------------
(* Types, and what the types say of the tree.                              *)

LEMMA NextCases ==
    ASSUME Next
    PROVE  \/ Begins \/ Works \/ Return \/ CreateFile
           \/ (\E d \in Slot : OpenDirectory(d)) \/ HostChange
BY DEF Next, Guest, Begins, Works

LEMMA ShapeHolds == Spec => []Shape
<1>1. Init => Shape
  <2> SUFFICES ASSUME Init PROVE Shape
    OBVIOUS
  <2>1. tree \in Trees
    <3>1. Initial \subseteq Seqs /\ tree \in [Initial -> File \cup Dir]
      BY HostTreeAssumption DEF Init, Seqs
    <3> QED
      BY <3>1, IsOfTrees
  <2>2. CallShape
    BY EmptyTree, EmptyPath DEF Init, CallShape, Idle, Call, Ops, Labels
  <2>3. OpenShape
    BY DEF Init, OpenShape
  <2>4. Course
    BY DEF Init, Course, Idle, Call
  <2>5. hostChanges \in 0..MaxHostChanges
    BY HostTreeAssumption DEF Init
  <2> QED
    BY <2>1, <2>2, <2>3, <2>4, <2>5 DEF Shape
<1>2. Shape /\ [Next]_vars => Shape'
  <2> SUFFICES ASSUME Shape, [Next]_vars PROVE Shape'
    OBVIOUS
  <2>0. /\ tree \in Trees /\ CallShape /\ OpenShape /\ Course /\ hostChanges \in 0..MaxHostChanges
        /\ call.old \in Seqs /\ call.new \in Seqs
    BY DEF Shape, CallShape
  <2>a. UNCHANGED open => OpenShape'
    BY <2>0 DEF OpenShape
  <2>b. UNCHANGED call => CallShape' /\ Course'
    BY <2>0 DEF CallShape, Course
  <2>c. UNCHANGED tree => tree' \in Trees
    BY <2>0
  <2>1. CASE Begins
    <3>1. /\ CallShape' /\ <<call'.op, call'.at>> \in BeginsAt /\ ~call'.ok
          /\ UNCHANGED <<tree, open, hostChanges>>
      BY <2>1, BeginsFacts
    <3>2. Course'
      BY <3>1 DEF Course, BeginsAt
    <3> QED
      BY <2>0, <2>a, <3>1, <3>2 DEF Shape
  <2>2. CASE Works
    <3>1. /\ CallShape' /\ Keeps /\ UNCHANGED <<open, hostChanges>>
          /\ <<call.at, call'.at>> \in Follows /\ (call'.ok => call'.at = "done")
      BY <2>2, WorkEffect
    <3>2. \E p, q \in Seqs : tree' = tree \/ Adds(p) \/ Removes(p) \/ Moves(p, q)
      BY <2>0, <2>2, WorkEffect
    <3>3. tree' \in Trees
      BY <2>0, <3>2, StepTypes
    <3>4. Course'
      BY <2>0, <3>1, CourseSteps
    <3> QED
      BY <2>0, <2>a, <3>1, <3>3, <3>4 DEF Shape
  <2>3. CASE Return
    <3>1. /\ CallShape' /\ call'.at = "idle" /\ call'.op = "none" /\ ~call'.ok
          /\ UNCHANGED <<tree, open, hostChanges>>
      BY <2>3, ReturnFacts
    <3>2. Course'
      BY <3>1 DEF Course
    <3> QED
      BY <2>0, <2>a, <3>1, <3>2 DEF Shape
  <2>4. CASE CreateFile
    <3>1. /\ UNCHANGED <<open, hostChanges>> /\ CallShape' /\ Adds(call'.old)
          /\ call'.op = "open" /\ call'.at = "done"
      BY <2>4, CreateFileFacts
    <3>2. call'.old \in Seqs
      BY <3>1 DEF Adds
    <3>3. tree' \in Trees
      BY <2>0, <3>1, <3>2, StepTypes
    <3>4. Course'
      BY <3>1 DEF Course
    <3> QED
      BY <2>0, <2>a, <3>1, <3>3, <3>4 DEF Shape
  <2>5. ASSUME NEW d \in Slot, OpenDirectory(d) PROVE Shape'
    <3>1. UNCHANGED <<tree, call, hostChanges>> /\ OpenShape'
      BY <2>5, OpenDirectoryFacts
    <3> QED
      BY <2>0, <2>b, <3>1 DEF Shape
  <2>6. CASE HostChange
    <3>1. /\ CallShape' /\ Keeps /\ call'.at = call.at /\ call'.ok = call.ok
          /\ UNCHANGED open /\ hostChanges' \in 0..MaxHostChanges
          /\ \E p, q \in Seqs : tree' = tree \/ Adds(p) \/ Removes(p) \/ Moves(p, q)
      BY <2>6, HostChangeFacts
    <3>2. tree' \in Trees
      BY <2>0, <3>1, StepTypes
    <3>3. Course'
      BY <2>0, <3>1 DEF Course, Keeps
    <3> QED
      BY <2>a, <3>1, <3>2, <3>3 DEF Shape
  <2>7. CASE UNCHANGED vars
    BY <2>0, <2>a, <2>b, <2>7 DEF Shape, vars
  <2> QED
    BY <2>1, <2>2, <2>3, <2>4, <2>5, <2>6, <2>7, NextCases
<1> QED
  BY <1>1, <1>2, PTL DEF Spec

LEMMA TreeHolds == Spec => []IsTree(tree)
<1>1. Init => IsTree(tree)
  <2> SUFFICES ASSUME Init PROVE IsTree(tree)
    OBVIOUS
  <2>1. DOMAIN tree = Initial /\ \A p \in Initial : tree[p] = Fixed
    BY DEF Init
  <2>2. Rooted(tree)
    BY <2>1, HostTreeAssumption DEF Rooted, IsDir
  <2>3. DirsUnique(tree)
    BY <2>1 DEF DirsUnique
  <2> QED
    BY <2>2, <2>3 DEF IsTree
<1>2. Shape /\ IsTree(tree) /\ [Next]_vars => IsTree(tree)'
  <2> SUFFICES ASSUME Shape, IsTree(tree), [Next]_vars PROVE IsTree(tree')
    OBVIOUS
  <2>0. tree \in Trees
    BY DEF Shape
  <2>1. CASE Begins \/ Return \/ \E d \in Slot : OpenDirectory(d)
    BY <2>1, BeginsFacts, ReturnFacts, OpenDirectoryFacts
  <2>2. CASE Works
    <3>1. \E p, q : tree' = tree \/ Adds(p) \/ Removes(p) \/ Moves(p, q)
      BY <2>2, WorkEffect
    <3> QED
      BY <2>0, <3>1, StepTrees
  <2>3. CASE CreateFile
    <3>1. \E p : Adds(p)
      BY <2>3, CreateFileFacts
    <3> QED
      BY <2>0, <3>1, StepTrees
  <2>4. CASE HostChange
    <3>1. \E p, q : tree' = tree \/ Adds(p) \/ Removes(p) \/ Moves(p, q)
      BY <2>4, HostChangeFacts
    <3> QED
      BY <2>0, <3>1, StepTrees
  <2>5. CASE UNCHANGED vars
    BY <2>5 DEF vars
  <2> QED
    BY <2>1, <2>2, <2>3, <2>4, <2>5, NextCases
<1> QED
  BY <1>1, <1>2, ShapeHolds, PTL DEF Spec

(* HostTypeOK: whatever the guest and other processes do, every path   *)
(* of the tree lies in a directory, and a directory has one path.          *)
THEOREM TypeCorrect == Spec => []HostTypeOK
<1>1. Shape /\ IsTree(tree) => HostTypeOK
  <2> SUFFICES ASSUME Shape, IsTree(tree) PROVE HostTypeOK
    OBVIOUS
  <2>1. \A p \in DOMAIN tree : tree[p] \in File \cup Dir
    BY TreesFacts DEF Shape
  <2>2. call.at \in Labels
    BY DEF Shape, CallShape
  <2> QED
    BY <2>1, <2>2 DEF HostTypeOK, Shape, Course, IsTree, Rooted, DirsUnique, Labels
<1> QED
  BY <1>1, ShapeHolds, TreeHolds, PTL

-----------------------------------------------------------------------------
(* Confinement.                                                            *)

LEMMA ConfinedHolds == Spec => []Confined
<1>1. Init => Confined
  BY DEF Init, Confined, Idle, Call
<1>2. Shape /\ Confined /\ [Next]_vars => Confined'
  <2> SUFFICES ASSUME Shape, Confined, [Next]_vars PROVE Confined'
    OBVIOUS
  <2>1. CASE Begins
    <3>1. call'.inside =>
             BelowWritable(call'.old) /\ (call'.op \in {"link", "rename"} => BelowWritable(call'.new))
      BY <2>1, BeginsFacts
    <3> QED
      BY <3>1 DEF Confined, BelowWritable
  <2>2. CASE Works \/ HostChange
    <3>1. Keeps
      BY <2>2, WorkEffect, HostChangeFacts
    <3> QED
      BY <3>1 DEF Confined, BelowWritable, Keeps
  <2>3. CASE Return
    <3>1. call'.op = "none"
      BY <2>3, ReturnFacts
    <3> QED
      BY <3>1 DEF Confined
  <2>4. CASE CreateFile
    <3>1. call'.op = "open" /\ (call'.inside => BelowWritable(call'.old))
      BY <2>4, CreateFileFacts
    <3> QED
      BY <3>1 DEF Confined, BelowWritable
  <2>5. CASE (\E d \in Slot : OpenDirectory(d)) \/ UNCHANGED vars
    <3>1. UNCHANGED call
      BY <2>5, OpenDirectoryFacts DEF vars
    <3> QED
      BY <3>1 DEF Confined, BelowWritable
  <2> QED
    BY <2>1, <2>2, <2>3, <2>4, <2>5, NextCases
<1> QED
  BY <1>1, <1>2, ShapeHolds, PTL DEF Spec

(* Only what is below what a step is granted changes.                      *)
LEMMA ChangedBelow ==
    ASSUME tree \in Trees, NEW p, NEW q, NEW c \in Changed,
           tree' = tree \/ Adds(p) \/ Removes(p) \/ Moves(p, q)
    PROVE  c \in Seqs /\ (\/ p \in Seqs /\ IsPrefix(p, c)
                          \/ Moves(p, q) /\ q \in Seqs /\ IsPrefix(q, c))
<1>0. DOMAIN tree \subseteq Seqs /\ \A r \in Seqs : IsPrefix(r, r)
  BY TreesFacts DEF IsPrefix, Seqs
<1>1. CASE tree' = tree
  BY <1>1 DEF Changed
<1>2. CASE Adds(p)
  <2>1. PICK n \in File \cup Dir : tree' = Adding(tree, p, n) /\ p \in Seqs
    BY <1>2 DEF Adds
  <2>2. /\ DOMAIN tree' = DOMAIN tree \cup {p}
        /\ \A r \in DOMAIN tree : r # p => tree'[r] = tree[r]
    BY <2>1, AddingFacts
  <2>3. c = p
    BY <2>2 DEF Changed
  <2> QED
    BY <1>0, <2>1, <2>3
<1>3. CASE Removes(p)
  <2>1. /\ DOMAIN tree' = DOMAIN tree \ {p} /\ p \in Seqs
        /\ \A r \in DOMAIN tree : r # p => tree'[r] = tree[r]
    BY <1>3, RemovingFacts DEF Removes
  <2>2. c = p
    BY <2>1 DEF Changed
  <2> QED
    BY <1>0, <2>1, <2>2
<1>4. CASE Moves(p, q)
  <2> DEFINE gone == Gone(tree, p, q)
             come == Come(tree, p, q)
  <2>1. p \in Seqs /\ q \in Seqs /\ tree' = Moving(tree, p, q)
    BY <1>4 DEF Moves
  <2>2. /\ tree' \in Trees /\ DOMAIN tree' = (DOMAIN tree \ gone) \cup come
        /\ \A r \in DOMAIN tree \ gone : r \notin come => tree'[r] = tree[r]
        /\ \A r \in come : IsPrefix(q, r)
    <3>1. /\ Moving(tree, p, q) \in Trees
          /\ DOMAIN Moving(tree, p, q) = (DOMAIN tree \ gone) \cup come
          /\ \A r \in DOMAIN tree \ gone : r \notin come => Moving(tree, p, q)[r] = tree[r]
          /\ \A r \in come : IsPrefix(q, r)
      BY <2>1, MovingFacts
    <3> QED
      BY <2>1, <3>1
  <2>3. \A r \in gone : IsPrefix(p, r) \/ r = q
    BY DEF Gone, Below
  <2> HIDE DEF gone, come
  <2>4. c \in gone \cup come
    BY <2>2 DEF Changed
  <2>5. c \in Seqs
    BY <1>0, <2>2, TreesFacts DEF Changed
  <2> QED
    BY <1>0, <1>4, <2>1, <2>2, <2>3, <2>4, <2>5
<1> QED
  BY <1>1, <1>2, <1>3, <1>4

LEMMA BelowTooWritable ==
    ASSUME NEW p \in Seqs, BelowWritable(p), NEW c \in Seqs, IsPrefix(p, c)
    PROVE  BelowWritable(c)
BY MountFacts, PrefixTransitive DEF BelowWritable

(* ChangesStayBelow: whatever paths a guest passes to path_open,           *)
(* path_create_directory, path_remove_directory, path_unlink_file,         *)
(* path_symlink, path_link and path_rename, relative to whatever directory *)
(* it has opened, only what lies below the host paths of writable mounts   *)
(* changes, also when other processes change the tree within a call; but   *)
(* of absolute paths on what is no directory only if they do not stray,    *)
(* and of those of a root mount that are taken for paths of the host only  *)
(* if its hostRoot is the host's root.                                     *)
THEOREM ChangesStayBelowHolds == Spec => ChangesStayBelow
<1> DEFINE Stays == hostChanges' = hostChanges /\ call'.inside =>
                       \A p \in Changed : BelowWritable(p)
<1>1. Shape /\ Confined /\ [Next]_vars => [Stays]_vars
  <2> SUFFICES ASSUME Shape, Confined, Next, hostChanges' = hostChanges, call'.inside,
                      NEW c \in Changed
               PROVE  BelowWritable(c)
    OBVIOUS
  <2>0. tree \in Trees /\ call.op \in Ops /\ Course
    BY DEF Shape, CallShape
  <2>1. CASE Begins \/ Return \/ \E d \in Slot : OpenDirectory(d)
    <3>1. tree' = tree
      BY <2>1, BeginsFacts, ReturnFacts, OpenDirectoryFacts
    <3> QED
      BY <3>1 DEF Changed
  <2>2. CASE Works
    <3>1. call.op # "none"
      <4>1. <<call.at, call'.at>> \in Follows
        BY <2>2, WorkEffect
      <4> QED
        BY <2>0, <4>1 DEF Follows, Course
    <3>a. call.inside
      BY <2>2, WorkEffect DEF Keeps
    <3>2. BelowWritable(call.old) /\ (call.op \in {"link", "rename"} => BelowWritable(call.new))
      BY <3>1, <3>a DEF Confined
    <3>3. \/ tree' = tree \/ Adds(call.old) \/ Removes(call.old)
          \/ (call.op \in {"link", "rename"} /\ (Adds(call.new) \/ Removes(call.new)))
          \/ (call.op = "rename" /\ Moves(call.old, call.new))
      BY <2>2, WorkEffect
    <3>4. CASE tree' = tree \/ Adds(call.old) \/ Removes(call.old)
      BY <2>0, <3>2, <3>4, ChangedBelow, BelowTooWritable
    <3>5. CASE call.op \in {"link", "rename"} /\ (Adds(call.new) \/ Removes(call.new))
      BY <2>0, <3>2, <3>5, ChangedBelow, BelowTooWritable
    <3>6. CASE call.op = "rename" /\ Moves(call.old, call.new)
      BY <2>0, <3>2, <3>6, ChangedBelow, BelowTooWritable
    <3> QED
      BY <3>3, <3>4, <3>5, <3>6
  <2>3. CASE CreateFile
    <3>1. PICK p : p = call'.old
      OBVIOUS
    <3>2. p \in Seqs /\ Adds(p) /\ BelowWritable(p)
      BY <2>3, <3>1, CreateFileFacts DEF Adds
    <3> QED
      BY <2>0, <3>2, ChangedBelow, BelowTooWritable
  <2>4. CASE HostChange
    <3>1. hostChanges' = hostChanges + 1 /\ hostChanges \in Nat
      BY <2>4, HostChangeFacts DEF Shape
    <3> QED
      BY <3>1
  <2> QED
    BY <2>1, <2>2, <2>3, <2>4, NextCases
<1> QED
  BY <1>1, ShapeHolds, ConfinedHolds, PTL DEF Spec, ChangesStayBelow

-----------------------------------------------------------------------------
(* Directory descriptors.                                                  *)

LEMMA OpenedBelowHolds == Spec => []OpenedBelow
<1>1. Init => OpenedBelow
  BY DEF Init, OpenedBelow
<1>2. Shape /\ OpenedBelow /\ [Next]_vars => OpenedBelow'
  <2> SUFFICES ASSUME Shape, OpenedBelow, [Next]_vars PROVE OpenedBelow'
    OBVIOUS
  <2>1. CASE Begins \/ Works \/ Return \/ CreateFile \/ HostChange \/ UNCHANGED vars
    <3>1. UNCHANGED open
      BY <2>1, BeginsFacts, WorkEffect, ReturnFacts, CreateFileFacts, HostChangeFacts DEF vars
    <3> QED
      BY <3>1 DEF OpenedBelow, LiesIn
  <2>2. ASSUME NEW d \in Slot, OpenDirectory(d) PROVE OpenedBelow'
    <3>1. /\ \A e \in Slot \ {d} : open'[e] = open[e]
          /\ open'[d].inside => \E m \in Mount : LiesIn(m, open'[d])
      BY <2>2, OpenDirectoryFacts
    <3> QED
      BY <3>1 DEF OpenedBelow, LiesIn
  <2> QED
    BY <2>1, <2>2, NextCases
<1> QED
  BY <1>1, <1>2, ShapeHolds, PTL DEF Spec

(* No mount lies within another.                                           *)
MountsApart ==
    \A m, n \in Mount : m # n => ~IsPrefix(Mounts[m].guest, Mounts[n].guest)

(* DirfdLeadsBelowItself: resolveDirfdPath, which knows of a nested        *)
(* directory only its guest path, finds what it accepts below the host     *)
(* path that was opened, however that was reached, if no mount hides it,   *)
(* unless a path had led there that the code does not confine.             *)
THEOREM DirfdLeadsBelowItselfHolds == MountsApart => (Spec => []DirfdLeadsBelowItself)
<1> SUFFICES ASSUME MountsApart PROVE Spec => []DirfdLeadsBelowItself
  OBVIOUS
<1>1. Shape /\ OpenedBelow => DirfdLeadsBelowItself
  <2> SUFFICES ASSUME OpenShape, OpenedBelow, NEW d \in Slot, NEW arg \in Arg,
                      open[d] # Unopened, open[d].inside, Writable(Nested(open[d].path), arg)
               PROVE  LET dir == Nested(open[d].path)
                          c == Clean(dir.path \o arg.segs)
                      IN  /\ IsPrefix(dir.path, c)
                          /\ HostPath(dir, arg) = open[d].name \o Behind(dir.path, c)
    BY DEF DirfdLeadsBelowItself, Shape
  <2> DEFINE dir == Nested(open[d].path)
             path == open[d].path
             at == ResolveDirfdPath(dir, arg)
             m == Mounts[at.mount]
             c == Clean(path \o arg.segs)
             s == Behind(path, c)
  <2>1. path \in Seqs /\ dir.path = path /\ IsNested(dir) /\ ~IsPreopen(dir) /\ IsDirfd(dir)
    BY DEF OpenShape, Nested, IsNested, IsPreopen, IsDirfd
  <2>2. at.mount # 0 /\ ~Escapes(dir, at)
    BY DEF Writable
  <2>3. at.mount \in Mount /\ at.rel \in Seqs /\ ~arg.abs /\ Names(at.rel) /\ c = m.guest \o at.rel
    BY <2>1, <2>2, ResolveDirfdFacts
  <2>4. m.guest \in Seqs /\ m.host \in Seqs /\ Names(m.host)
    BY <2>3, MountFacts
  <2>5. c \in Seqs /\ Names(c)
    <3>1. path \o arg.segs \in Seqs
      BY <2>1, ArgFacts, PrefixOfConcat
    <3> QED
      BY <3>1, CleanTypes
  <2>6. GuestPathOf(at) = c
    BY <2>3, <2>5, CleanIsIdentity DEF GuestPathOf
  <2>7. HostPath(dir, arg) = Clean(m.host \o at.rel)
    BY <2>3 DEF HostPath, JoinedPath
  <2>8. PICK n \in Mount : LiesIn(n, open[d])
    BY DEF OpenedBelow
  <2>9. c = path \/ IsPrefix(path, c)
    BY <2>1, <2>2, <2>6 DEF Escapes
  <2> HIDE DEF dir, at, m, c
  <2>10. IsPrefix(path, c)
    BY <2>1, <2>9 DEF IsPrefix, Seqs
  <2>11. Clean(m.host \o at.rel) = m.host \o at.rel
    <3>1. m.host \o at.rel \in Seqs /\ Names(m.host \o at.rel)
      BY <2>3, <2>4, NamesJoin, PrefixOfConcat
    <3> QED
      BY <3>1, CleanIsIdentity
  <2> DEFINE guest == Mounts[n].guest
             host == Mounts[n].host
             k == Behind(guest, path)
  <2>12. guest \in Seqs /\ host \in Seqs /\ IsPrefix(guest, path) /\ open[d].name = host \o k
    BY <2>8, MountFacts DEF LiesIn
  <2>13. at.mount = n
    <3>1. IsPrefix(guest, c)
      BY <2>1, <2>5, <2>10, <2>12, PrefixTransitive
    <3>2. IsPrefix(m.guest, c)
      BY <2>3, <2>4, PrefixOfConcat
    <3>3. IsPrefix(guest, m.guest) \/ IsPrefix(m.guest, guest)
      BY <2>4, <2>5, <2>12, <3>1, <3>2, PrefixesCompare
    <3> QED
      BY <2>3, <3>3 DEF MountsApart, m
  <2>14. m.guest = guest /\ m.host = host
    BY <2>13 DEF m
  <2> HIDE DEF guest, host, k, s, path
  <2>15. k \in Seqs /\ path = guest \o k /\ s \in Seqs /\ c = path \o s
    BY <2>1, <2>5, <2>10, <2>12, PrefixSplits DEF k, s
  <2>16. at.rel = k \o s
    <3>1. k \o s \in Seqs /\ (guest \o k) \o s = guest \o (k \o s)
      BY <2>12, <2>15, PrefixOfConcat, ConcatAssociative, SMTT(30) DEF Seqs
    <3>2. Behind(guest, guest \o at.rel) = at.rel /\ Behind(guest, guest \o (k \o s)) = k \o s
      BY <2>3, <2>12, <3>1, PrefixOfConcat
    <3>3. guest \o at.rel = guest \o (k \o s)
      BY <2>3, <2>14, <2>15, <3>1
    <3> QED
      BY <3>2, <3>3
  <2>17. host \o (k \o s) = (host \o k) \o s
    <3>1. host \in Seq(STRING) /\ k \in Seq(STRING) /\ s \in Seq(STRING)
      BY <2>12, <2>15 DEF Seqs
    <3> QED
      BY <3>1, ConcatAssociative
  <2>18. HostPath(dir, arg) = open[d].name \o s
    BY <2>7, <2>11, <2>12, <2>14, <2>16, <2>17
  <2> QED
    BY <2>1, <2>10, <2>18 DEF dir, c, s, path
<1> QED
  BY <1>1, ShapeHolds, OpenedBelowHolds, PTL

-----------------------------------------------------------------------------
(* What path_rename moves.                                                 *)

LEMMA ItselfBelow ==
    ASSUME NEW t \in Trees, NEW p \in DOMAIN t, NEW new \in Seqs
    PROVE  p \in Below(t, p) /\ new \o Behind(p, p) = new
<1>1. p \in Seqs
  BY TreesFacts
<1>2. IsPrefix(p, p) /\ Behind(p, p) = <<>>
  BY <1>1 DEF IsPrefix, Behind, Seqs
<1>3. new \o <<>> = new
  BY ConcatEmptySeq DEF Seqs
<1> QED
  BY <1>2, <1>3 DEF Below

(* The target of a rename is not below an empty directory that it moves.   *)
Apart == call.at = "make_way" /\ call.old # call.new => ~IsPrefix(call.old, call.new)

LEMMA ApartHolds == Spec => []Apart
<1>1. Init => Apart
  BY DEF Init, Apart, Idle, Call
<1>2. Shape /\ Apart /\ [Next]_vars => Apart'
  <2> SUFFICES ASSUME Shape, Apart, [Next]_vars PROVE Apart'
    OBVIOUS
  <2>0. CallShape
    BY DEF Shape
  <2>1. CASE Begins
    <3>1. <<call'.op, call'.at>> \in BeginsAt
      BY <2>1, BeginsFacts
    <3> QED
      BY <3>1 DEF Apart, BeginsAt
  <2>2. CASE Works
    <3> SUFFICES ASSUME call'.at = "make_way", call.old # call.new
                 PROVE  ~IsPrefix(call.old, call.new)
      BY <2>2, WorkEffect DEF Apart, Keeps
    <3>1. call.at = "is_empty"
      BY <2>2, WorkEffect DEF Follows
    <3>2. AreEmpty
      BY <2>0, <2>2, <3>1, WorkFacts DEF Works
    <3>3. BothEmpty
      BY <2>0, <3>2, WorkFacts DEF Going
    <3>4. call.new \in DOMAIN tree /\ IsEmpty(tree, call.old)
      BY <3>3 DEF BothEmpty, IsDir
    <3> QED
      BY <3>4 DEF IsEmpty, Below
  <2>3. CASE Return
    BY <2>3, ReturnFacts DEF Apart
  <2>4. CASE CreateFile
    BY <2>4, CreateFileFacts DEF Apart
  <2>5. CASE HostChange
    <3>1. Keeps /\ call'.at = call.at
      BY <2>5, HostChangeFacts
    <3> QED
      BY <3>1 DEF Apart, Keeps
  <2>6. CASE (\E d \in Slot : OpenDirectory(d)) \/ UNCHANGED vars
    <3>1. UNCHANGED call
      BY <2>6, OpenDirectoryFacts DEF vars
    <3> QED
      BY <3>1 DEF Apart
  <2> QED
    BY <2>1, <2>2, <2>3, <2>4, <2>5, <2>6, NextCases
<1> QED
  BY <1>1, <1>2, ShapeHolds, PTL DEF Spec

(* All that is to be moved is found at p after the step.                   *)
Kept(p) ==
    \A q \in Below(tree, call.old) :
        LET r == p \o Behind(call.old, q) IN Exists(tree', r) /\ tree'[r] = tree[q]

LEMMA KeptInPlace ==
    ASSUME Shape, \A q \in Below(tree, call.old) : q \in DOMAIN tree' /\ tree'[q] = tree[q]
    PROVE  Kept(call.old)
<1>1. call.old \in Seqs /\ DOMAIN tree \subseteq Seqs
  BY TreesFacts DEF Shape, CallShape
<1>2. ASSUME NEW q \in Below(tree, call.old) PROVE call.old \o Behind(call.old, q) = q
  BY <1>1, PrefixSplits DEF Below
<1> QED
  BY <1>2 DEF Kept, Exists

LEMMA MovedIsKept ==
    ASSUME Shape, Moves(call.old, call.new)
    PROVE  Kept(call.new)
<1>1. PICK old, new : old = call.old /\ new = call.new
  OBVIOUS
<1> DEFINE u == Moving(tree, old, new)
<1>2. tree \in Trees /\ old \in Seqs /\ new \in Seqs /\ tree' = u
  BY <1>1 DEF Shape, Moves
<1>3. /\ \A q \in Below(tree, old) : u[new \o Behind(old, q)] = tree[q]
      /\ DOMAIN u = (DOMAIN tree \ Gone(tree, old, new)) \cup Come(tree, old, new)
  BY <1>2, MovingFacts
<1>4. \A q \in Below(tree, old) : new \o Behind(old, q) \in Come(tree, old, new)
  BY DEF Come
<1> HIDE DEF u
<1>5. \A q \in Below(tree, old) :
         new \o Behind(old, q) \in DOMAIN tree' /\ tree'[new \o Behind(old, q)] = tree[q]
  BY <1>2, <1>3, <1>4
<1> QED
  BY <1>1, <1>5 DEF Kept, Exists

(* RenameKeepsWhatItMoves: no step of path_rename loses or alters what the *)
(* old path names or anything below it, whatever other processes have done *)
(* since the checks: each is found where it was, or each at its place      *)
(* below the new path.  The exception is an empty directory renamed onto   *)
(* itself.                                                                 *)
THEOREM RenameKeepsWhatItMovesHolds == Spec => RenameKeepsWhatItMoves
<1>1. Shape /\ Apart /\ [Next]_vars =>
         [hostChanges' = hostChanges /\ call.op = "rename" /\ call.old # call.new =>
            Kept(call.old) \/ Kept(call.new)]_vars
  <2> SUFFICES ASSUME Shape, Apart, Next, hostChanges' = hostChanges, call.op = "rename",
                      call.old # call.new
               PROVE  Kept(call.old) \/ Kept(call.new)
    OBVIOUS
  <2>0. tree \in Trees /\ Course /\ hostChanges \in Nat /\ Below(tree, call.old) \subseteq DOMAIN tree
    BY DEF Shape, Below
  <2>1. CASE tree' = tree
    BY <2>0, <2>1, KeptInPlace
  <2>2. CASE call.at = "make_way" /\ Removes(call.new)
    <3>1. tree' = Removing(tree, call.new)
      BY <2>2 DEF Removes
    <3>2. call.new \notin Below(tree, call.old)
      BY <2>2 DEF Apart, Below
    <3>3. /\ DOMAIN tree' = DOMAIN tree \ {call.new}
          /\ \A q \in DOMAIN tree : q # call.new => tree'[q] = tree[q]
      BY <2>0, <3>1, RemovingFacts
    <3> QED
      BY <2>0, <3>2, <3>3, KeptInPlace
  <2>3. CASE Moves(call.old, call.new)
    BY <2>3, MovedIsKept
  <2>4. CASE Begins \/ Return \/ \E d \in Slot : OpenDirectory(d)
    BY <2>1, <2>4, BeginsFacts, ReturnFacts, OpenDirectoryFacts
  <2>5. CASE Works
    BY <2>1, <2>2, <2>3, <2>5, WorkEffect
  <2>6. CASE CreateFile
    BY <2>0, <2>6, CreateFileFacts DEF Course
  <2>7. CASE HostChange
    BY <2>0, <2>7, HostChangeFacts
  <2> QED
    BY <2>4, <2>5, <2>6, <2>7, NextCases
<1>2. ASSUME [hostChanges' = hostChanges /\ call.op = "rename" /\ call.old # call.new =>
                Kept(call.old) \/ Kept(call.new)]_vars
      PROVE  [hostChanges' = hostChanges /\ call.op = "rename" /\ call.old # call.new =>
                LET moved == Below(tree, call.old)
                    KeptAt(p) == \A q \in moved :
                       LET r == p \o Behind(call.old, q)
                       IN  Exists(tree', r) /\ tree'[r] = tree[q]
                IN  KeptAt(call.old) \/ KeptAt(call.new)]_vars
  BY <1>2 DEF Kept
<1> QED
  BY <1>1, <1>2, ShapeHolds, ApartHolds, PTL DEF Spec, RenameKeepsWhatItMoves

-----------------------------------------------------------------------------
(* What a call has done to the tree.                                       *)
Did(op, b, t, p, q) ==
    CASE op = "create_directory" -> ~Exists(b, p) /\ IsDir(t, p) /\ Removing(t, p) = b
      [] op \in {"symlink", "open"} -> ~Exists(b, p) /\ IsFile(t, p) /\ Removing(t, p) = b
      [] op = "remove_directory" -> IsDir(b, p) /\ IsEmpty(b, p) /\ t = Removing(b, p)
      [] op = "unlink_file" -> IsFile(b, p) /\ t = Removing(b, p)
      [] op = "link" -> IsFile(b, p) /\ ~Exists(b, q) /\ t = Adding(b, q, b[p])
      [] op = "rename" -> Replaced(b, t, p, q)

LEMMA RemovingAdded ==
    ASSUME NEW t \in Trees, NEW p \in Seqs, NEW n \in File \cup Dir, ~Exists(t, p)
    PROVE  Removing(Adding(t, p, n), p) = t
<1> DEFINE u == Adding(t, p, n)
<1>1. /\ u \in Trees /\ DOMAIN u = DOMAIN t \cup {p}
      /\ \A q \in DOMAIN t : q # p => u[q] = t[q]
  BY AddingFacts
<1>2. p \notin DOMAIN t
  BY DEF Exists
<1> HIDE DEF u
<1>3. /\ Removing(u, p) \in Trees /\ DOMAIN Removing(u, p) = DOMAIN u \ {p}
      /\ \A q \in DOMAIN u : q # p => Removing(u, p)[q] = u[q]
  BY <1>1, RemovingFacts
<1>4. DOMAIN t = DOMAIN Removing(u, p) /\ \A q \in DOMAIN t : t[q] = Removing(u, p)[q]
  BY <1>1, <1>2, <1>3
<1> QED
  BY <1>3, <1>4, SameTree DEF u

LEMMA MovingReplaces ==
    ASSUME NEW t \in Trees, Rooted(t), NEW old \in Seqs, NEW new \in Seqs,
           MayMove(t, old, new)
    PROVE  LET u == Moving(t, old, new) IN
           /\ ~Exists(u, old)
           /\ \A q \in Below(t, old) : u[new \o Behind(old, q)] = t[q]
           /\ \A p \in DOMAIN t \ Below(t, old) : p = new \/ u[p] = t[p]
           /\ Cardinality(DOMAIN u) = Cardinality(DOMAIN t \ {new})
<1> DEFINE u == Moving(t, old, new)
           come == Come(t, old, new)
           gone == Gone(t, old, new)
<1>1. /\ DOMAIN u = (DOMAIN t \ gone) \cup come
      /\ \A q \in Below(t, old) : u[new \o Behind(old, q)] = t[q]
      /\ \A p \in DOMAIN t \ gone : p \notin come => u[p] = t[p]
      /\ \A p \in come : IsPrefix(new, p)
  BY MovingFacts
<1>2. /\ \A p \in DOMAIN t : IsPrefix(new, p) => p = new
      /\ (DOMAIN t \ gone) \cap come = {}
  BY MovesApart
<1>3. gone = Below(t, old) \cup {new}
  BY DEF Gone
<1>4. old \in DOMAIN t /\ old # new /\ old \in Below(t, old)
  BY ItselfBelow DEF MayMove, Exists
<1>5. Cardinality(DOMAIN u) = Cardinality(DOMAIN t \ {new})
  <2>1. Source(t, old, new) \in Bijection(DOMAIN u, DOMAIN t \ {new})
    BY SourceFacts
  <2>2. IsFiniteSet(DOMAIN t \ {new})
    BY FS_RemoveElement DEF Rooted
  <2>3. Source(t, old, new) \in Injection(DOMAIN u, DOMAIN t \ {new})
        /\ Source(t, old, new) \in Surjection(DOMAIN u, DOMAIN t \ {new})
    BY <2>1 DEF Bijection
  <2> HIDE DEF u
  <2> QED
    BY <2>2, <2>3, FS_Injection
<1> HIDE DEF u, come, gone
<1>6. ~Exists(u, old)
  BY <1>1, <1>2, <1>3, <1>4 DEF Exists
<1> QED
  BY <1>1, <1>2, <1>3, <1>5, <1>6 DEF u

(* path_rename in one step.                                                *)
LEMMA RenamedReplaces ==
    ASSUME tree \in Trees, Rooted(tree), NEW old \in Seqs, NEW new \in Seqs,
           CanRename(old, new)
    PROVE  Replaced(tree, Renamed(old, new), old, new)
<1>1. CASE Renamed(old, new) = tree /\ Exists(tree, new) /\ tree[new] = tree[old]
  <2>1. IsFile(tree, new)
    BY <1>1, DirOrFile DEF CanRename
  <2>2. IsFile(tree, old)
    BY <1>1, <2>1 DEF IsFile, CanRename, Exists
  <2> QED
    BY <1>1, <2>2 DEF Replaced
<1>2. CASE Renamed(old, new) = Moving(tree, old, new) /\ MayMove(tree, old, new)
  <2>1. ~Exists(tree, new) \/ (IsFile(tree, new) <=> IsFile(tree, old))
    BY DirOrFile DEF CanRename
  <2>2. ~IsDir(tree, new)
    BY DEF CanRename
  <2> QED
    BY <1>2, <2>1, <2>2, MovingReplaces DEF Replaced
<1> QED
  BY <1>1, <1>2, RenamedFacts

(* path_rename after an empty directory has been taken out of the way.     *)
LEMMA MadeWay ==
    ASSUME NEW b \in Trees, IsTree(b), NEW old \in Seqs, NEW new \in Seqs, new # <<>>,
           EmptyDirs(b, old, new), tree \in Trees, IsTree(tree), tree = Removing(b, new)
    PROVE  /\ old # new => CanRename(old, new)
           /\ CanRename(old, new) => Replaced(b, Renamed(old, new), old, new)
<1>1. DOMAIN tree = DOMAIN b \ {new} /\ \A q \in DOMAIN b : q # new => tree[q] = b[q]
  BY RemovingFacts
<1>2. /\ old \in DOMAIN b /\ new \in DOMAIN b /\ b[old] \in Dir /\ b[new] \in Dir
      /\ \A q \in DOMAIN b : IsPrefix(old, q) => q = old
      /\ \A q \in DOMAIN b : IsPrefix(new, q) => q = new
  BY DEF EmptyDirs, IsDir, IsEmpty, Below
<1>3. ASSUME old # new PROVE CanRename(old, new)
  <2>1. old \in DOMAIN tree /\ IsDir(tree, old) /\ ~Exists(tree, new) /\ ~IsPrefix(old, new)
    BY <1>1, <1>2, <1>3 DEF IsDir, Exists
  <2>2. IsDir(tree, Front(new))
    <3>1. IsDir(b, Front(new)) /\ Front(new) # new
      BY <1>2, FrontFacts DEF IsTree, Rooted
    <3> QED
      BY <1>1, <3>1 DEF IsDir
  <2>3. FitsDepth(old, new)
    <3>1. \A q \in Below(tree, old) : q = old
      BY <1>1, <1>2 DEF Below
    <3>2. Len(new) \in Nat /\ Len(old) \in Nat /\ Len(new) <= MaxDepth
      BY <1>2, LenProperties DEF IsTree, Rooted, Seqs
    <3>3. Len(new) + Len(old) - Len(old) <= MaxDepth
      BY <3>2, HostTreeAssumption
    <3> QED
      BY <3>1, <3>3 DEF FitsDepth
  <2> QED
    BY <2>1, <2>2, <2>3 DEF CanRename, IsFile, IsDir, Exists
<1>4. ASSUME CanRename(old, new) PROVE Replaced(b, Renamed(old, new), old, new)
  <2> DEFINE u == Moving(tree, old, new)
  <2>1. old \in DOMAIN tree /\ old # new /\ new \notin DOMAIN tree
    BY <1>1, <1>4 DEF CanRename, Exists
  <2>2. Renamed(old, new) = u /\ MayMove(tree, old, new)
    BY <1>4, <2>1, RenamedFacts DEF Exists
  <2>3. /\ ~Exists(u, old)
        /\ \A q \in Below(tree, old) : u[new \o Behind(old, q)] = tree[q]
        /\ \A p \in DOMAIN tree \ Below(tree, old) : p = new \/ u[p] = tree[p]
        /\ Cardinality(DOMAIN u) = Cardinality(DOMAIN tree \ {new})
    BY <2>2, MovingReplaces DEF IsTree
  <2>4. Below(b, old) = {old} /\ Below(tree, old) = {old}
    BY <1>1, <1>2, <2>1, ItselfBelow DEF Below
  <2>5. DOMAIN tree \ {new} = DOMAIN b \ {new}
    BY <1>1
  <2>6. ~IsFile(b, new) /\ ~IsFile(b, old)
    BY <1>2, HostTreeAssumption DEF IsFile
  <2>7. IsEmpty(b, new)
    BY DEF EmptyDirs
  <2> HIDE DEF u
  <2>8. \A q \in Below(b, old) : u[new \o Behind(old, q)] = b[q]
    BY <1>1, <1>2, <2>1, <2>3, <2>4
  <2>9. \A p \in DOMAIN b \ Below(b, old) : p = new \/ u[p] = b[p]
    BY <1>1, <2>3, <2>4
  <2> QED
    BY <2>2, <2>3, <2>5, <2>6, <2>7, <2>8, <2>9 DEF Replaced
<1> QED
  BY <1>3, <1>4

(* What has been added is found where it was added.                        *)
LEMMA AddedThere ==
    ASSUME NEW t \in Trees, NEW p \in Seqs, NEW n \in File \cup Dir
    PROVE  /\ n \in Dir => IsDir(Adding(t, p, n), p)
           /\ n \in File => IsFile(Adding(t, p, n), p)
<1> DEFINE u == Adding(t, p, n)
<1>1. DOMAIN u = DOMAIN t \cup {p} /\ u[p] = n
  <2>1. DOMAIN u = DOMAIN t \cup {p}
    BY AddingFacts
  <2>2. u[p] = n
    BY AddingFacts
  <2> QED
    BY <2>1, <2>2
<1> HIDE DEF u
<1>2. p \in DOMAIN u
  BY <1>1
<1>3. (n \in Dir => IsDir(u, p)) /\ (n \in File => IsFile(u, p))
  BY <1>1, <1>2 DEF IsDir, IsFile
<1> QED
  BY <1>3 DEF u

(* The steps of a call that no other process disturbs.                     *)
LEMMA UndisturbedWork ==
    ASSUME Shape, IsTree(tree), Undisturbed, Works
    PROVE  Undisturbed'
<1> DEFINE b == call.before
           old == call.old
           new == call.new
           op == call.op
<1>0. /\ CallShape /\ Course /\ tree \in Trees /\ b \in Trees
      /\ old \in Seqs /\ new \in Seqs /\ op \in Ops
  BY DEF Shape, CallShape
<1>w. /\ call'.op = op /\ call'.old = old /\ call'.new = new
      /\ call'.before = b /\ call'.alone = call.alone
      /\ <<call.at, call'.at>> \in Follows
  BY WorkEffect DEF Keeps
<1>a. op # "none" /\ ~call.ok
  BY <1>0, <1>w DEF Course, Follows
<1> SUFFICES ASSUME call.alone
             PROVE  /\ IsTree(b)
                    /\ call'.at \notin {"rename_again", "done"} => tree' = b
                    /\ call'.at = "remove" /\ op = "remove_directory" => IsDir(b, old)
                    /\ call'.at = "remove" /\ op = "unlink_file" => IsFile(b, old)
                    /\ call'.at = "link" => IsFile(b, old) /\ ~Exists(b, new)
                    /\ call'.at \in {"make_way", "rename_again"} => EmptyDirs(b, old, new)
                    /\ call'.at = "rename_again" => new # <<>> /\ tree' = Removing(b, new)
                    /\ call'.at = "done" /\ ~call'.ok =>
                          tree' = b \/ (op = "rename" /\ old = new)
                    /\ call'.at = "done" /\ call'.ok => Did(op, b, tree', old, new)
  <2>1. CallsDoWhatTheySay' <=>
           (call'.at = "done" /\ call'.ok /\ call'.alone =>
              Did(call'.op, call'.before, tree', call'.old, call'.new))
    BY DEF CallsDoWhatTheySay, Did, Replaced, Exists, IsDir, IsFile, IsEmpty, Below, Removing,
           Adding
  <2> QED
    BY <1>w, <2>1 DEF Undisturbed, IsTree, Rooted, DirsUnique, EmptyDirs, Exists, IsDir, IsFile,
                      IsEmpty, Below, Removing
<1>u. /\ IsTree(b)
      /\ call.at \notin {"rename_again", "done"} => tree = b
      /\ call.at = "remove" /\ op = "remove_directory" => IsDir(b, old)
      /\ call.at = "remove" /\ op = "unlink_file" => IsFile(b, old)
      /\ call.at = "link" => IsFile(b, old) /\ ~Exists(b, new)
      /\ call.at \in {"make_way", "rename_again"} => EmptyDirs(b, old, new)
      /\ call.at = "rename_again" => new # <<>> /\ tree = Removing(b, new)
  BY <1>a DEF Undisturbed
<1>c. b = call.before /\ old = call.old /\ new = call.new /\ op = call.op
  OBVIOUS
<1> HIDE DEF b, old, new, op
<1> DEFINE Goal ==
              /\ call'.at \notin {"rename_again", "done"} => tree' = b
              /\ call'.at = "remove" /\ op = "remove_directory" => IsDir(b, old)
              /\ call'.at = "remove" /\ op = "unlink_file" => IsFile(b, old)
              /\ call'.at = "link" => IsFile(b, old) /\ ~Exists(b, new)
              /\ call'.at \in {"make_way", "rename_again"} => EmptyDirs(b, old, new)
              /\ call'.at = "rename_again" => new # <<>> /\ tree' = Removing(b, new)
              /\ call'.at = "done" /\ ~call'.ok => tree' = b \/ (op = "rename" /\ old = new)
              /\ call'.at = "done" /\ call'.ok => Did(op, b, tree', old, new)
<1> SUFFICES Goal
  BY <1>u
(* Giving up, and succeeding.                                              *)
<1>f. ASSUME Going("done"), tree = b PROVE Goal
  BY <1>a, <1>f DEF Going
<1>m. ASSUME NEW t, Making(t), Did(op, b, t, old, new) PROVE Goal
  BY <1>m DEF Making
<1>1. CASE CreateDirectory
  <2>1. /\ call.at = "create_directory"
        /\ \/ Going("done")
           \/ HasRoom(tree, old) /\ \E n \in Dir \ Used : Making(Adding(tree, old, n))
    BY <1>0, <1>1, <1>c, WorkFacts
  <2>2. tree = b /\ op = "create_directory"
    BY <1>0, <1>u, <1>c, <2>1 DEF Course, Ops
  <2>3. ASSUME HasRoom(tree, old), NEW n \in Dir, Making(Adding(tree, old, n)) PROVE Goal
    <3>1. ~Exists(b, old) /\ Removing(Adding(b, old, n), old) = b
      BY <1>0, <2>2, <2>3, RemovingAdded DEF HasRoom
    <3>2. IsDir(Adding(b, old, n), old)
      BY <1>0, <2>3, AddedThere
    <3>3. Did(op, b, Adding(b, old, n), old, new)
      BY <2>2, <3>1, <3>2 DEF Did
    <3> QED
      BY <1>m, <2>2, <2>3, <3>3
  <2> QED
    BY <1>f, <2>1, <2>2, <2>3
<1>2. CASE RemoveDirectory
  <2>1. /\ call.at = "remove_directory"
        /\ Going("done") \/ (IsDir(tree, old) /\ Going("remove"))
    BY <1>0, <1>2, <1>c, WorkFacts
  <2>2. tree = b /\ op = "remove_directory"
    BY <1>0, <1>u, <1>c, <2>1 DEF Course, Ops
  <2>3. CASE IsDir(tree, old) /\ Going("remove")
    BY <2>2, <2>3 DEF Going
  <2> QED
    BY <1>f, <2>1, <2>2, <2>3
<1>3. CASE UnlinkFile
  <2>1. /\ call.at = "unlink_file"
        /\ Going("done") \/ (IsFile(tree, old) /\ Going("remove"))
    BY <1>0, <1>3, <1>c, WorkFacts
  <2>2. tree = b /\ op = "unlink_file"
    BY <1>0, <1>u, <1>c, <2>1 DEF Course, Ops
  <2>3. CASE IsFile(tree, old) /\ Going("remove")
    BY <2>2, <2>3 DEF Going
  <2> QED
    BY <1>f, <2>1, <2>2, <2>3
<1>4. CASE OsRemove
  <2>1. /\ call.at = "remove"
        /\ \/ Going("done")
           \/ CanRemove(old) /\ Making(Removing(tree, old))
    BY <1>0, <1>4, <1>c, WorkFacts
  <2>2. tree = b /\ op \in {"remove_directory", "unlink_file"}
    BY <1>0, <1>u, <1>c, <2>1 DEF Course, Ops
  <2>3. CASE CanRemove(old) /\ Making(Removing(tree, old))
    <3>1. Did(op, b, Removing(tree, old), old, new)
      BY <1>u, <2>1, <2>2, <2>3 DEF Did, CanRemove
    <3> QED
      BY <1>m, <2>3, <3>1
  <2> QED
    BY <1>f, <2>1, <2>2, <2>3
<1>5. CASE Symlink
  <2>1. /\ call.at = "symlink"
        /\ \/ Going("done")
           \/ HasRoom(tree, old) /\ \E n \in File \ Used : Making(Adding(tree, old, n))
    BY <1>0, <1>5, <1>c, WorkFacts
  <2>2. tree = b /\ op = "symlink"
    BY <1>0, <1>u, <1>c, <2>1 DEF Course, Ops
  <2>3. ASSUME HasRoom(tree, old), NEW n \in File, Making(Adding(tree, old, n)) PROVE Goal
    <3>1. ~Exists(b, old) /\ Removing(Adding(b, old, n), old) = b
      BY <1>0, <2>2, <2>3, RemovingAdded DEF HasRoom
    <3>2. IsFile(Adding(b, old, n), old)
      BY <1>0, <2>3, AddedThere
    <3>3. Did(op, b, Adding(b, old, n), old, new)
      BY <2>2, <3>1, <3>2 DEF Did
    <3> QED
      BY <1>m, <2>2, <2>3, <3>3
  <2> QED
    BY <1>f, <2>1, <2>2, <2>3
<1>6. CASE ValidateLink
  <2>1. /\ call.at = "validate_link"
        /\ Going("done") \/ (IsFile(tree, old) /\ ~Exists(tree, new) /\ Going("link"))
    BY <1>0, <1>6, <1>c, WorkFacts
  <2>2. tree = b
    BY <1>u, <2>1
  <2>3. CASE IsFile(tree, old) /\ ~Exists(tree, new) /\ Going("link")
    BY <2>2, <2>3 DEF Going
  <2> QED
    BY <1>f, <2>1, <2>2, <2>3
<1>7. CASE Link
  <2>1. /\ call.at = "link"
        /\ \/ Going("done")
           \/ IsFile(tree, old) /\ HasRoom(tree, new) /\ Making(Adding(tree, new, tree[old]))
    BY <1>0, <1>7, <1>c, WorkFacts
  <2>2. tree = b /\ op = "link" /\ IsFile(b, old) /\ ~Exists(b, new)
    BY <1>0, <1>u, <1>c, <2>1 DEF Course, Ops
  <2>3. Did(op, b, Adding(tree, new, tree[old]), old, new)
    BY <2>2 DEF Did
  <2> QED
    BY <1>f, <1>m, <2>1, <2>2, <2>3
<1>8. CASE ValidateRename
  <2>1. call.at = "validate_rename" /\ (Going("done") \/ Going("rename"))
    BY <1>0, <1>8, WorkFacts
  <2>2. tree = b
    BY <1>u, <2>1
  <2>3. CASE Going("rename")
    BY <2>2, <2>3 DEF Going
  <2> QED
    BY <1>f, <2>1, <2>2, <2>3
<1>9. CASE RenamePath
  <2>1. /\ call.at \in {"rename", "rename_again"}
        /\ \/ CanRename(old, new) /\ Making(Renamed(old, new))
           \/ call.at = "rename" /\ Going("is_empty")
           \/ ~CanRename(old, new) /\ Going("done")
    BY <1>0, <1>9, <1>c, WorkFacts
  <2>2. op = "rename"
    BY <1>0, <1>c, <2>1 DEF Course, Ops
  <2>3. CASE call.at = "rename"
    <3>1. tree = b
      BY <1>u, <2>3
    <3>2. CASE CanRename(old, new) /\ Making(Renamed(old, new))
      <4>1. Replaced(b, Renamed(old, new), old, new)
        BY <1>0, <3>1, <3>2, RenamedReplaces DEF IsTree
      <4>2. Did(op, b, Renamed(old, new), old, new)
        BY <2>2, <4>1 DEF Did
      <4> QED
        BY <1>m, <3>2, <4>2
    <3>3. CASE Going("is_empty")
      BY <3>1, <3>3 DEF Going
    <3> QED
      BY <1>f, <2>1, <3>1, <3>2, <3>3
  <2>4. CASE call.at = "rename_again"
    <3>1. EmptyDirs(b, old, new) /\ new # <<>> /\ tree = Removing(b, new) /\ IsTree(b)
      BY <1>u, <2>4
    <3>2. /\ old # new => CanRename(old, new)
          /\ CanRename(old, new) => Replaced(b, Renamed(old, new), old, new)
      BY <1>0, <3>1, MadeWay
    <3>3. CASE CanRename(old, new) /\ Making(Renamed(old, new))
      <4>1. Did(op, b, Renamed(old, new), old, new)
        BY <2>2, <3>2, <3>3 DEF Did
      <4> QED
        BY <1>m, <3>3, <4>1
    <3>4. CASE ~CanRename(old, new) /\ Going("done")
      BY <1>a, <2>2, <3>2, <3>4 DEF Going
    <3> QED
      BY <2>1, <2>4, <3>3, <3>4
  <2> QED
    BY <2>1, <2>3, <2>4
<1>10. CASE AreEmpty
  <2>1. call.at = "is_empty" /\ (Going("done") \/ (BothEmpty /\ Going("make_way")))
    BY <1>0, <1>10, WorkFacts
  <2>2. tree = b
    BY <1>u, <2>1
  <2>3. CASE BothEmpty /\ Going("make_way")
    <3>1. EmptyDirs(b, old, new)
      BY <1>c, <2>2, <2>3 DEF BothEmpty, EmptyDirs
    <3> QED
      BY <2>2, <2>3, <3>1 DEF Going
  <2> QED
    BY <1>f, <2>1, <2>2, <2>3
<1>11. CASE MakeWay
  <2>1. /\ call.at = "make_way"
        /\ \/ Going("done")
           \/ /\ CanRemove(new) /\ tree' = Removing(tree, new)
              /\ call'.at = "rename_again" /\ call'.ok = call.ok
    BY <1>0, <1>11, <1>c, WorkFacts
  <2>2. tree = b /\ EmptyDirs(b, old, new)
    BY <1>u, <2>1
  <2>3. CASE /\ CanRemove(new) /\ tree' = Removing(tree, new)
             /\ call'.at = "rename_again" /\ call'.ok = call.ok
    BY <2>2, <2>3 DEF CanRemove
  <2> QED
    BY <1>f, <2>1, <2>2, <2>3
<1> QED
  BY <1>1, <1>2, <1>3, <1>4, <1>5, <1>6, <1>7, <1>8, <1>9, <1>10, <1>11 DEF Works

LEMMA UndisturbedHolds == Spec => []Undisturbed
<1>1. Init => Undisturbed
  BY DEF Init, Undisturbed, Idle, Call
<1>2. Shape /\ IsTree(tree) /\ Undisturbed /\ [Next]_vars => Undisturbed'
  <2> SUFFICES ASSUME Shape, IsTree(tree), Undisturbed, [Next]_vars PROVE Undisturbed'
    OBVIOUS
  <2>0. Course /\ CallShape
    BY DEF Shape
  <2>1. CASE Begins
    <3>1. /\ <<call'.op, call'.at>> \in BeginsAt /\ ~call'.ok /\ call'.before = tree
          /\ tree' = tree
      BY <2>1, BeginsFacts
    <3>2. /\ call'.at \notin {"remove", "link", "make_way", "rename_again", "done"}
      BY <3>1 DEF BeginsAt
    <3>3. CallsDoWhatTheySay'
      BY <3>2 DEF CallsDoWhatTheySay
    <3>4. IsTree(call'.before)
      BY <3>1
    <3> QED
      BY <3>1, <3>2, <3>3, <3>4 DEF Undisturbed, IsTree, Rooted, DirsUnique, IsDir
  <2>2. CASE Works
    BY <2>2, UndisturbedWork
  <2>3. CASE Return
    BY <2>3, ReturnFacts DEF Undisturbed
  <2>7. CASE CreateFile
    <3>1. /\ call'.op = "open" /\ call'.at = "done" /\ call'.ok /\ call'.before = tree
          /\ Adds(call'.old) /\ \E n \in File : tree' = Adding(tree, call'.old, n)
      BY <2>7, CreateFileFacts
    <3>a. PICK p : p = call'.old
      OBVIOUS
    <3>2. PICK n \in File : p = call'.old /\ tree' = Adding(tree, p, n)
      BY <3>1, <3>a
    <3>3. p \in Seqs /\ ~Exists(tree, p) /\ tree \in Trees
      BY <3>1, <3>2 DEF Adds, HasRoom, Shape
    <3>4. Removing(Adding(tree, p, n), p) = tree /\ IsFile(Adding(tree, p, n), p)
      BY <3>3, RemovingAdded, AddedThere
    <3>5. Did("open", tree, tree', p, call'.new)
      BY <3>2, <3>3, <3>4 DEF Did
    <3>6. CallsDoWhatTheySay' <=>
             (call'.at = "done" /\ call'.ok /\ call'.alone =>
                Did(call'.op, call'.before, tree', call'.old, call'.new))
      BY DEF CallsDoWhatTheySay, Did, Replaced, Exists, IsDir, IsFile, IsEmpty, Below, Removing,
             Adding
    <3>7. CallsDoWhatTheySay'
      BY <3>1, <3>2, <3>5, <3>6
    <3>8. IsTree(call'.before)
      BY <3>1
    <3> QED
      BY <3>1, <3>7, <3>8 DEF Undisturbed, IsTree, Rooted, DirsUnique, IsDir
  <2>4. CASE \E d \in Slot : OpenDirectory(d)
    <3>1. call.at = "idle" /\ call' = call
      BY <2>4, OpenDirectoryFacts
    <3>2. call'.op = "none"
      BY <2>0, <3>1 DEF Course
    <3> QED
      BY <3>2 DEF Undisturbed
  <2>5. CASE HostChange
    <3>1. call'.op = call.op /\ (call.at # "idle" => ~call'.alone)
      BY <2>5, HostChangeFacts DEF Keeps
    <3>2. call'.op # "none" => ~call'.alone
      BY <2>0, <3>1 DEF Course
    <3> QED
      BY <3>2 DEF Undisturbed
  <2>6. CASE UNCHANGED vars
    <3>1. UNCHANGED <<tree, call>>
      BY <2>6 DEF vars
    <3>2. CallsDoWhatTheySay' <=> CallsDoWhatTheySay
      BY <3>1 DEF CallsDoWhatTheySay, Did, Replaced, Exists, IsDir, IsFile, IsEmpty, Below,
                  Removing, Adding
    <3> QED
      BY <3>1, <3>2 DEF Undisturbed, IsTree, Rooted, DirsUnique, EmptyDirs, Exists, IsDir,
                        IsFile, IsEmpty, Below, Removing
  <2> QED
    BY <2>1, <2>2, <2>3, <2>4, <2>5, <2>6, <2>7, NextCases
<1> QED
  BY <1>1, <1>2, ShapeHolds, TreeHolds, PTL DEF Spec

(* CallsDoWhatTheySay: what a call that returned success and that no other *)
(* process disturbed has done is exactly what it is for, path_rename by    *)
(* way of the empty directory that it removed first included.              *)
THEOREM CallsDoWhatTheySayHolds == Spec => []CallsDoWhatTheySay
<1>1. Shape /\ Undisturbed => CallsDoWhatTheySay
  <2> SUFFICES ASSUME Course, Undisturbed, call.at = "done" PROVE CallsDoWhatTheySay
    BY DEF Shape, CallsDoWhatTheySay
  <2>1. call.op # "none"
    BY DEF Course
  <2>2. CASE call.alone
    BY <2>1, <2>2 DEF Undisturbed
  <2>3. CASE ~call.alone
    BY <2>3 DEF CallsDoWhatTheySay
  <2> QED
    BY <2>2, <2>3
<1> QED
  BY <1>1, ShapeHolds, UndisturbedHolds, PTL

(* FailedCallsChangeNothing: a call that returned an error and that no     *)
(* other process disturbed has left the tree as it was, path_rename after  *)
(* it has removed what was in the way included: its second os.Rename       *)
(* cannot fail then.  The exception is an empty directory renamed onto     *)
(* itself.                                                                 *)
THEOREM FailedCallsChangeNothingHolds == Spec => []FailedCallsChangeNothing
<1>1. Shape /\ Undisturbed => FailedCallsChangeNothing
  <2> SUFFICES ASSUME Course, Undisturbed, call.at = "done", ~call.ok, call.alone
               PROVE  tree = call.before \/ (call.op = "rename" /\ call.old = call.new)
    BY DEF Shape, FailedCallsChangeNothing
  <2>1. call.op # "none"
    BY DEF Course
  <2> QED
    BY <2>1 DEF Undisturbed
<1> QED
  BY <1>1, ShapeHolds, UndisturbedHolds, PTL
=============================================================================
