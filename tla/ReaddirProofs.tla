---------------------------- MODULE ReaddirProofs ----------------------------
(* Theorems of Readdir, for any names and lengths of names, any buffer and *)
(* any host that changes the directory.                                    *)
EXTENDS Readdir, InductionFacts, SequenceTheorems, FiniteSetTheorems

-----------------------------------------------------------------------------
(* The buffer.                                                             *)
Listings == Seq(Listed)

LEMMA EntryLenType ==
    ASSUME NEW name \in Listed
    PROVE  EntryLen(name) \in Nat /\ EntryLen(name) > Header
BY DirAssumption DEF Listed, EntryLen, Header

(* The cookies that lie within a listing.                                  *)
LEMMA WithinFacts ==
    ASSUME NEW s \in Listings, NEW c \in 0..Len(s)
    PROVE  /\ Len(s) \in Nat /\ Len(s) - c \in Nat
           /\ \A k \in 1..(Len(s) - c) : c + k \in 1..Len(s) /\ s[c + k] \in Listed
<1>1. Len(s) \in Nat /\ \A i \in 1..Len(s) : s[i] \in Listed
  BY LenProperties, ElementOfSeq DEF Listings
<1>2. PICK n \in Nat : n = Len(s)
  BY <1>1
<1>3. n - c \in Nat /\ \A k \in 1..(n - c) : c + k \in 1..n
  BY <1>2
<1> QED
  BY <1>1, <1>2, <1>3

LEMMA OffsetsFacts ==
    ASSUME NEW s \in Listings, NEW c \in 0..Len(s)
    PROVE  /\ Offsets(s, c) \in [0..(Len(s) - c) -> Nat]
           /\ Offsets(s, c)[0] = 0
           /\ \A k \in 1..(Len(s) - c) :
                 Offsets(s, c)[k] = Offsets(s, c)[k - 1] + EntryLen(s[c + k])
<1> DEFINE n == Len(s) - c
           step == [x \in Nat \X (1..n) |-> x[1] + EntryLen(s[c + x[2]])]
           rec(g) == [k \in 0..n |-> IF k = 0 THEN 0 ELSE g[k - 1] + EntryLen(s[c + k])]
           chosen == CHOOSE g : g = rec(g)
<1>1. n \in Nat /\ \A k \in 1..n : EntryLen(s[c + k]) \in Nat
  BY WithinFacts, EntryLenType
<1>2. step \in [Nat \X (1..n) -> Nat]
  <2>1. ASSUME NEW x \in Nat \X (1..n) PROVE x[1] + EntryLen(s[c + x[2]]) \in Nat
    <3>1. x[1] \in Nat /\ EntryLen(s[c + x[2]]) \in Nat
      BY <1>1
    <3> QED
      BY <3>1
  <2> QED
    BY <2>1
<1>3. \E g \in [0..n -> Nat] : Recurs(g, n, 0, step)
  <2> HIDE DEF n, step
  <2> QED
    BY <1>1, <1>2, Recursion
<1>4. PICK g \in [0..n -> Nat] :
         g[0] = 0 /\ \A k \in 1..n : g[k] = step[<<g[k - 1], k>>]
  BY <1>3 DEF Recurs
<1>5. \A k \in 1..n : g[k] = g[k - 1] + EntryLen(s[c + k])
  <2> SUFFICES ASSUME NEW k \in 1..n PROVE g[k] = g[k - 1] + EntryLen(s[c + k])
    OBVIOUS
  <2>1. k - 1 \in 0..n /\ g[k - 1] \in Nat
    BY <1>1, <1>4
  <2>2. <<g[k - 1], k>> \in Nat \X (1..n)
    BY <2>1
  <2> QED
    BY <1>4, <2>2
<1>6. g = rec(g)
  <2>1. \A k \in 0..n : g[k] = rec(g)[k]
    <3> SUFFICES ASSUME NEW k \in 0..n PROVE g[k] = rec(g)[k]
      OBVIOUS
    <3>1. CASE k = 0
      BY <1>4, <3>1
    <3>2. CASE k # 0
      <4>1. k \in 1..n
        BY <1>1, <3>2
      <4> QED
        BY <1>5, <3>2, <4>1
    <3> QED
      BY <3>1, <3>2
  <2> QED
    BY <1>4, <2>1
<1>7. chosen = rec(chosen)
  BY <1>6
<1>8. Offsets(s, c) = chosen
  BY DEF Offsets
<1> DEFINE T == { k \in 0..n : chosen[k] \in Nat }
<1>9. chosen[0] = 0
  <2>1. 0 \in 0..n
    BY <1>1
  <2> QED
    BY <1>7, <2>1
<1>10. ASSUME NEW k \in 1..n PROVE chosen[k] = chosen[k - 1] + EntryLen(s[c + k])
  <2>1. k \in 0..n /\ k # 0
    BY <1>1
  <2> QED
    BY <1>7, <2>1
<1>11. chosen = [k \in 0..n |-> chosen[k]]
  BY <1>7
<1> HIDE DEF chosen, n
<1>12. 0..n \subseteq T
  <2>1. 0 \in T
    BY <1>1, <1>9
  <2>2. ASSUME NEW k \in 1..n, k - 1 \in T PROVE k \in T
    <3>1. chosen[k - 1] + EntryLen(s[c + k]) \in Nat /\ k \in 0..n
      BY <1>1, <2>2
    <3> QED
      BY <1>10, <3>1
  <2> HIDE DEF T
  <2> QED
    BY <1>1, <2>1, <2>2, UpToInduction
<1>13. chosen \in [0..n -> Nat]
  BY <1>11, <1>12
<1> QED
  BY <1>8, <1>9, <1>10, <1>13 DEF n

(* Dirents lie one behind another.                                         *)
LEMMA OffsetsGrow ==
    ASSUME NEW s \in Listings, NEW c \in 0..Len(s),
           NEW i \in 0..(Len(s) - c), NEW j \in 0..(Len(s) - c), i < j
    PROVE  Offsets(s, c)[i] + EntryLen(s[c + i + 1]) <= Offsets(s, c)[j]
<1> DEFINE n == Len(s) - c
           g == Offsets(s, c)
           T == { k \in 0..n : i < k => g[i] + EntryLen(s[c + i + 1]) <= g[k] }
<1>1. /\ n \in Nat /\ \A k \in 1..n : EntryLen(s[c + k]) \in Nat
      /\ i \in 0..n /\ j \in 0..n
  BY WithinFacts, EntryLenType
<1>2. g \in [0..n -> Nat] /\ \A k \in 1..n : g[k] = g[k - 1] + EntryLen(s[c + k])
  BY OffsetsFacts
<1> HIDE DEF n, g
<1>3. 0 \in T
  BY <1>1
<1>4. ASSUME NEW k \in 1..n, k - 1 \in T PROVE k \in T
  <2>1. k \in 0..n /\ k - 1 \in 0..n /\ g[k - 1] \in Nat /\ EntryLen(s[c + k]) \in Nat
    BY <1>1, <1>2
  <2>2. g[k] = g[k - 1] + EntryLen(s[c + k])
    BY <1>2
  <2>3. CASE i < k - 1
    <3>1. g[i] + EntryLen(s[c + i + 1]) <= g[k - 1]
      BY <1>4, <2>3
    <3>2. i + 1 \in 1..n /\ g[i] \in Nat /\ c + i + 1 = c + (i + 1)
      BY <1>1, <1>2, <2>1, <2>3
    <3>3. EntryLen(s[c + i + 1]) \in Nat
      BY <1>1, <3>2
    <3>4. g[i] + EntryLen(s[c + i + 1]) <= g[k]
      BY <2>1, <2>2, <3>1, <3>2, <3>3, SMTT(30)
    <3> QED
      BY <2>1, <3>4
  <2>4. CASE i = k - 1
    <3>1. c + i + 1 = c + k
      BY <1>1, <2>4
    <3>2. g[i] + EntryLen(s[c + i + 1]) = g[k]
      BY <2>2, <2>4, <3>1
    <3> QED
      BY <1>2, <2>1, <3>2
  <2>5. CASE ~(i < k)
    BY <2>1, <2>5
  <2> QED
    BY <1>1, <2>3, <2>4, <2>5
<1> HIDE DEF T
<1>5. 0..n \subseteq T
  BY <1>1, <1>3, <1>4, UpToInduction
<1> QED
  BY <1>1, <1>5 DEF T, g

(* Fitting is what its CHOOSE asks for: 0 fit in any case.                 *)
LEMMA FittingFacts ==
    ASSUME NEW s \in Listings, NEW c \in 0..Len(s)
    PROVE  /\ Fitting(s, c) \in 0..(Len(s) - c)
           /\ Offsets(s, c)[Fitting(s, c)] <= BufLen
           /\ Fitting(s, c) < Len(s) - c => Offsets(s, c)[Fitting(s, c) + 1] > BufLen
<1> DEFINE n == Len(s) - c
           g == Offsets(s, c)
           T == { k \in 0..n : k < n => g[k + 1] > BufLen }
           Fits(k) == g[k] <= BufLen /\ (k < n => g[k + 1] > BufLen)
<1>1. n \in Nat /\ BufLen \in Nat
  BY WithinFacts, DirAssumption
<1>2. g \in [0..n -> Nat] /\ g[0] = 0
  BY OffsetsFacts
<1>3. Fitting(s, c) = CHOOSE k \in 0..n : Fits(k)
  BY DEF Fitting
<1> HIDE DEF n, g
<1>4. PICK k \in T : \A j \in T : k <= j
  <2>1. T \subseteq Nat /\ n \in T
    BY <1>1
  <2> HIDE DEF T
  <2> QED
    BY <2>1, NatMin
<1>5. g[k] <= BufLen
  <2>1. CASE k = 0
    BY <1>1, <1>2, <2>1
  <2>2. CASE k # 0
    <3>1. k - 1 \in 0..n /\ k - 1 \notin T /\ (k - 1) + 1 = k
      BY <1>1, <1>4, <2>2, SMTT(30)
    <3>2. k - 1 < n /\ ~(g[k] > BufLen)
      BY <3>1
    <3>3. g[k] \in Nat
      BY <1>2, <1>4
    <3> QED
      BY <1>1, <3>2, <3>3
  <2> QED
    BY <2>1, <2>2
<1>6. k \in 0..n /\ Fits(k)
  BY <1>4, <1>5
<1>7. Fitting(s, c) \in 0..n /\ Fits(Fitting(s, c))
  BY <1>3, <1>6
<1> QED
  BY <1>7 DEF n, g

(* The dirents of a call fit the buffer, each where the one before ends.   *)
LEMMA DirentsFacts ==
    ASSUME NEW s \in Listings, NEW c \in 0..Len(s)
    PROVE  \A d \in Dirents(s, c) : \E k \in 1..Fitting(s, c) :
              /\ d = [at |-> Offsets(s, c)[k - 1], name |-> s[c + k], next |-> c + k]
              /\ d.at \in 0..BufLen /\ d.name \in Listed /\ d.next \in Nat \ {0}
              /\ Offsets(s, c)[k] = d.at + EntryLen(d.name)
              /\ d.at + EntryLen(d.name) <= Offsets(s, c)[Fitting(s, c)]
<1> DEFINE n == Len(s) - c
           g == Offsets(s, c)
           f == Fitting(s, c)
<1>1. n \in Nat /\ BufLen \in Nat /\ c \in Nat /\ \A k \in 1..n : s[c + k] \in Listed
  BY WithinFacts, DirAssumption
<1>2. g \in [0..n -> Nat] /\ \A k \in 1..n : g[k] = g[k - 1] + EntryLen(s[c + k])
  BY OffsetsFacts
<1>3. f \in 0..n /\ g[f] <= BufLen
  BY FittingFacts
<1> SUFFICES ASSUME NEW k \in 1..f
             PROVE  /\ g[k - 1] \in 0..BufLen /\ s[c + k] \in Listed /\ c + k \in Nat \ {0}
                    /\ g[k] = g[k - 1] + EntryLen(s[c + k])
                    /\ g[k] <= g[f]
  BY DEF Dirents
<1>4. k \in 1..n /\ k \in 0..n /\ k - 1 \in 0..n
  BY <1>1, <1>3
<1>5. g[k] \in Nat /\ g[k - 1] \in Nat /\ g[f] \in Nat /\ g[k] = g[k - 1] + EntryLen(s[c + k])
  BY <1>2, <1>3, <1>4
<1>6. EntryLen(s[c + k]) \in Nat
  BY <1>1, <1>4, EntryLenType
<1>7. g[k] <= g[f]
  <2>1. CASE k = f
    BY <1>5, <2>1
  <2>2. CASE k < f
    <3>1. g[k] + EntryLen(s[c + k + 1]) <= g[f]
      BY <1>3, <1>4, <2>2, OffsetsGrow
    <3>2. k + 1 \in 1..n /\ c + k + 1 = c + (k + 1)
      BY <1>1, <1>3, <1>4, <2>2
    <3>3. EntryLen(s[c + k + 1]) \in Nat
      BY <1>1, <3>2, EntryLenType
    <3> HIDE DEF g
    <3> QED
      BY <1>5, <3>1, <3>3
  <2> QED
    BY <1>3, <2>1, <2>2
<1> HIDE DEF g
<1> QED
  BY <1>1, <1>3, <1>4, <1>5, <1>6, <1>7, SMTT(30)

LEMMA ReportedFacts ==
    ASSUME NEW s \in Listings, NEW c \in 0..Len(s)
    PROVE  /\ Reported(s, c) \in 0..BufLen
           /\ Offsets(s, c)[Fitting(s, c)] \in 0..Reported(s, c)
           /\ Reported(s, c) < BufLen =>
                 c + Fitting(s, c) = Len(s) \/ Offsets(s, c)[Fitting(s, c)] = 0
<1> DEFINE w == Offsets(s, c)[Fitting(s, c)]
<1>1. w \in Nat /\ w <= BufLen /\ BufLen \in Nat /\ Fitting(s, c) \in 0..(Len(s) - c)
  BY OffsetsFacts, FittingFacts, DirAssumption
<1>2. Reported(s, c) = IF c + Fitting(s, c) < Len(s) /\ w > 0 THEN BufLen ELSE w
  BY DEF Reported
<1>3. Len(s) \in Nat /\ c \in Nat
  BY WithinFacts
<1> HIDE DEF w
<1>4. Reported(s, c) \in 0..BufLen /\ w \in 0..Reported(s, c)
  BY <1>1, <1>2
<1>5. Reported(s, c) < BufLen => c + Fitting(s, c) = Len(s) \/ w = 0
  BY <1>1, <1>2, <1>3
<1> QED
  BY <1>4, <1>5 DEF w

-----------------------------------------------------------------------------
(* The listing.                                                            *)

(* What a fresh listing of the directory is.                               *)
LEMMA ReadDirFacts ==
    ASSUME NEW atEnd \in BOOLEAN, dir \subseteq Name, NEW listing \in ReadDir(atEnd)
    PROVE  /\ listing \in Seq(dir)
           /\ Len(listing) \in 0..Cardinality(Name)
           /\ ~atEnd => Range(listing) = dir
<1>1. /\ IsFiniteSet(Name) /\ IsFiniteSet(dir) /\ Cardinality(dir) \in 0..Cardinality(Name)
      /\ 0 \in 0..Cardinality(Name)
  <2>1. IsFiniteSet(Name)
    BY DirAssumption
  <2>2. IsFiniteSet(dir) /\ Cardinality(dir) <= Cardinality(Name)
    BY <2>1, FS_Subset
  <2>3. Cardinality(dir) \in Nat /\ Cardinality(Name) \in Nat
    BY <2>1, <2>2, FS_CardinalityType
  <2> QED
    BY <2>1, <2>2, <2>3
<1>2. CASE atEnd
  <2>1. listing = <<>>
    BY <1>2 DEF ReadDir
  <2>2. <<>> \in Seq(dir) /\ Len(<<>>) = 0
    BY EmptySeq
  <2> QED
    BY <1>1, <1>2, <2>1, <2>2
<1>3. CASE ~atEnd
  <2> DEFINE n == Cardinality(dir)
             D == 1..n
  <2>1. /\ listing \in [D -> dir] /\ \A i, j \in D : i # j => listing[i] # listing[j]
    BY <1>3 DEF ReadDir, SetToSeqs
  <2>2. n \in Nat
    BY <1>1
  <2>3. listing \in Seq(dir) /\ Len(listing) = n
    BY <2>1, <2>2
  <2>4. listing \in Injection(D, dir)
    BY <2>1 DEF Injection, IsInjective
  <2>5. IsFiniteSet(D) /\ Cardinality(D) = Cardinality(dir)
    BY <2>2, FS_Interval
  <2>6. listing \in Surjection(D, dir)
    BY <1>1, <2>4, <2>5, FS_Injection
  <2>7. Range(listing) = dir
    BY <2>1, <2>6 DEF Surjection, Range
  <2> QED
    BY <1>1, <2>3, <2>7
<1> QED
  BY <1>2, <1>3

LEMMA EntriesFacts ==
    ASSUME dir \subseteq Name, exhausted \in BOOLEAN, snapshot \in Listings,
           NEW c, NEW s \in Entries(c)
    PROVE  /\ s \in Listings
           /\ Keeps(c) => s = snapshot
           /\ ~Keeps(c) => /\ Len(s) \in 0..(Cardinality(Name) + 2)
                           /\ Rewinds => ToSet(s) = dir \cup {Dot, DotDot}
<1>1. CASE Keeps(c)
  BY <1>1 DEF Entries
<1>2. CASE ~Keeps(c)
  <2>1. PICK listing \in ListingsNow : s = <<Dot, DotDot>> \o listing
    BY <1>2 DEF Entries
  <2> DEFINE atEnd == exhausted /\ ~Rewinds
  <2>2. /\ listing \in Seq(dir) /\ Len(listing) \in 0..Cardinality(Name)
        /\ ~atEnd => Range(listing) = dir
    <3>1. listing \in ReadDir(atEnd) /\ atEnd \in BOOLEAN
      BY <2>1, DirAssumption DEF ListingsNow
    <3> HIDE DEF atEnd
    <3> QED
      BY <3>1, ReadDirFacts
  <2>3. <<Dot, DotDot>> \in Listings /\ listing \in Listings
    BY <2>2 DEF Listings, Listed
  <2>4. s \in Listings /\ Len(s) = 2 + Len(listing)
    BY <2>1, <2>3, ConcatProperties DEF Listings
  <2>5. Cardinality(Name) \in Nat
    BY DirAssumption, FS_CardinalityType
  <2>6. Len(s) \in 0..(Cardinality(Name) + 2)
    BY <2>2, <2>4, <2>5
  <2>7. ASSUME Rewinds PROVE ToSet(s) = dir \cup {Dot, DotDot}
    <3>1. Range(listing) = dir
      BY <2>2, <2>7
    <3>2. DOMAIN listing = 1..Len(listing) /\ DOMAIN s = 1..Len(s)
      BY <2>3, <2>4, LenProperties DEF Listings
    <3>3. PICK n \in Nat : n = Len(listing)
      BY <2>2, LenProperties
    <3>4. s[1] = Dot /\ s[2] = DotDot /\ \A i \in 1..n : s[i + 2] = listing[i]
      BY <2>1, <2>3, <3>3, ConcatProperties DEF Listings
    <3>5. ToSet(s) = { s[i] : i \in 1..(2 + n) }
      BY <2>4, <3>2, <3>3 DEF ToSet
    <3>6. dir = { listing[i] : i \in 1..n }
      BY <3>1, <3>2, <3>3 DEF Range
    <3>7. ASSUME NEW x \in ToSet(s) PROVE x \in dir \cup {Dot, DotDot}
      <4>1. PICK i \in 1..(2 + n) : x = s[i]
        BY <3>5, <3>7
      <4>2. CASE i \in {1, 2}
        BY <3>4, <4>1, <4>2
      <4>3. CASE i \notin {1, 2}
        <5>1. i - 2 \in 1..n /\ (i - 2) + 2 = i
          BY <3>3, <4>1, <4>3
        <5>2. x = listing[i - 2]
          BY <3>4, <4>1, <5>1
        <5> QED
          BY <3>6, <5>1, <5>2
      <4> QED
        BY <4>2, <4>3
    <3>8. ASSUME NEW x \in dir \cup {Dot, DotDot} PROVE x \in ToSet(s)
      <4>1. 1 \in 1..(2 + n) /\ 2 \in 1..(2 + n)
        BY <3>3
      <4>2. CASE x \in {Dot, DotDot}
        BY <3>4, <3>5, <4>1, <4>2
      <4>3. CASE x \in dir
        <5>1. PICK i \in 1..n : x = listing[i]
          BY <3>6, <4>3
        <5>2. i + 2 \in 1..(2 + n) /\ x = s[i + 2]
          BY <3>3, <3>4, <5>1
        <5> QED
          BY <3>5, <5>2
      <4> QED
        BY <3>8, <4>2, <4>3
    <3> QED
      BY <3>7, <3>8
  <2> QED
    BY <1>2, <2>4, <2>6, <2>7
<1> QED
  BY <1>1, <1>2

-----------------------------------------------------------------------------
(* Types.                                                                  *)
Dirent == [at : 0 .. BufLen, name : Listed, next : Nat \ {0}]

LEMMA DirentsTypes ==
    ASSUME NEW s \in Listings, NEW c \in 0..Len(s)
    PROVE  /\ Dirents(s, c) \subseteq Dirent
           /\ \A d \in Dirents(s, c) : d.at + EntryLen(d.name) <= BufLen
<1>1. /\ Offsets(s, c)[Fitting(s, c)] \in Nat /\ BufLen \in Nat
      /\ Offsets(s, c)[Fitting(s, c)] <= BufLen
  BY OffsetsFacts, FittingFacts, DirAssumption
<1>2. ASSUME NEW d \in Dirents(s, c)
      PROVE  d \in Dirent /\ d.at + EntryLen(d.name) <= BufLen
  <2>1. PICK k \in 1..Fitting(s, c) :
              /\ d = [at |-> Offsets(s, c)[k - 1], name |-> s[c + k], next |-> c + k]
              /\ d.at \in 0..BufLen /\ d.name \in Listed /\ d.next \in Nat \ {0}
              /\ d.at + EntryLen(d.name) <= Offsets(s, c)[Fitting(s, c)]
    BY DirentsFacts
  <2>2. d \in Dirent
    BY <2>1 DEF Dirent
  <2>3. EntryLen(d.name) \in Nat
    BY <2>1, EntryLenType
  <2> QED
    BY <1>1, <2>1, <2>2, <2>3
<1> QED
  BY <1>2

(* The type invariant: whatever the buffer, the cookies and the names, and *)
(* whatever the guest leaves in its buffer, neither what is written nor    *)
(* what is reported goes beyond it (Xfd_readdir).                          *)
THEOREM TypeCorrect == Spec => []DirTypeOK
<1>1. Init => DirTypeOK
  <2> SUFFICES ASSUME Init PROVE DirTypeOK
    OBVIOUS
  <2>1. <<>> \in Seq(Listed) /\ 0 \in 0..BufLen /\ 0 \in Nat
    BY EmptySeq, DirAssumption
  <2>2. /\ dir \subseteq Name /\ exhausted = FALSE /\ snapshot = <<>> /\ pc = "call" /\ cookie = 0
        /\ buf = {} /\ used = 0 /\ parsed = 0 /\ start = 0 /\ seen = <<>>
    BY DEF Init
  <2>3. buf \subseteq Dirent /\ \A d \in buf : d.at + EntryLen(d.name) <= BufLen
    BY <2>2
  <2> QED
    BY <2>1, <2>2, <2>3 DEF DirTypeOK, Dirent
<1>2. DirTypeOK /\ [Next]_vars => DirTypeOK'
  <2> SUFFICES ASSUME DirTypeOK, [Next]_vars PROVE DirTypeOK'
    OBVIOUS
  <2>0. BufLen \in Nat /\ MaxSeen \in Nat /\ Cardinality(Name) \in Nat
    BY DirAssumption, FS_CardinalityType
  <2>e. <<>> \in Seq(Listed)
    BY EmptySeq
  <2>1. CASE Call
    <3>1. PICK s \in Entries(cookie) :
            /\ snapshot' = s
            /\ exhausted' = (exhausted \/ ~Keeps(cookie))
            /\ IF cookie >= Len(s)
               THEN /\ used' = 0
                    /\ buf' = Untouched(0)
               ELSE /\ used' = Reported(s, cookie)
                    /\ buf' = Dirents(s, cookie)
                                \cup Untouched(Offsets(s, cookie)[Fitting(s, cookie)])
      BY <2>1 DEF Call
    <3>2. s \in Listings
      BY EntriesFacts DEF DirTypeOK, Listings
    <3>3. exhausted' \in BOOLEAN
      BY <3>1 DEF DirTypeOK
    <3>4. \A w : Untouched(w) \subseteq buf
      BY DEF Untouched
    <3>5. /\ used' \in 0..BufLen /\ buf' \subseteq Dirent
          /\ \A d \in buf' : d.at + EntryLen(d.name) <= BufLen
      <4>1. CASE cookie >= Len(s)
        BY <2>0, <3>1, <3>4, <4>1 DEF DirTypeOK, Dirent
      <4>2. CASE ~(cookie >= Len(s))
        <5>1. Len(s) \in Nat /\ cookie \in 0..Len(s)
          <6>1. Len(s) \in Nat
            BY <3>2, LenProperties DEF Listings
          <6> QED
            BY <4>2, <6>1 DEF DirTypeOK
        <5>2. used' \in 0..BufLen
          BY <3>1, <3>2, <4>2, <5>1, ReportedFacts
        <5>3. /\ Dirents(s, cookie) \subseteq Dirent
              /\ \A d \in Dirents(s, cookie) : d.at + EntryLen(d.name) <= BufLen
          BY <3>2, <5>1, DirentsTypes
        <5>4. buf' \subseteq Dirents(s, cookie) \cup buf
          BY <3>1, <3>4, <4>2
        <5> QED
          BY <5>2, <5>3, <5>4 DEF DirTypeOK, Dirent
      <4> QED
        BY <4>1, <4>2
    <3>6. parsed' = 0 /\ pc' = "parse" /\ UNCHANGED <<dir, cookie, start, seen>>
      BY <2>1 DEF Call
    <3> QED
      BY <2>0, <3>1, <3>2, <3>3, <3>5, <3>6 DEF DirTypeOK, Dirent, Listings, EntryLen
  <2>2. CASE CallFails
    BY <2>2, <2>e DEF CallFails, DirTypeOK, host, EntryLen
  <2>3. CASE ParseDirent
    <3>1. PICK d \in buf :
            /\ d.at = parsed
            /\ EntryLen(d.name) <= Left
            /\ parsed' = parsed + EntryLen(d.name)
            /\ cookie' = d.next
            /\ seen' = IF Len(seen) < MaxSeen THEN Append(seen, d.name) ELSE seen
      BY <2>3 DEF ParseDirent
    <3>2. d.name \in Listed /\ d.next \in Nat /\ d.at + EntryLen(d.name) <= BufLen
      BY DEF DirTypeOK
    <3>3. EntryLen(d.name) \in Nat
      BY <3>2, EntryLenType
    <3>4. parsed' \in 0..BufLen
      BY <2>0, <3>1, <3>2, <3>3 DEF DirTypeOK
    <3>5. seen' \in Seq(Listed)
      <4>1. Append(seen, d.name) \in Seq(Listed)
        BY <3>2, AppendProperties DEF DirTypeOK
      <4> QED
        BY <3>1, <4>1 DEF DirTypeOK
    <3> QED
      BY <2>3, <3>1, <3>2, <3>4, <3>5 DEF ParseDirent, DirTypeOK, host, EntryLen
  <2>4. CASE ParseNothing
    <3>1. parsed' \in 0..BufLen
      BY <2>0, <2>4 DEF ParseNothing, DirTypeOK, Left, Header
    <3> QED
      BY <2>4, <3>1 DEF ParseNothing, DirTypeOK, host, EntryLen
  <2>5. CASE ParseEnd
    BY <2>5 DEF ParseEnd, DirTypeOK, host, EntryLen
  <2>6. CASE Scan
    <3>1. start' \in Nat /\ cookie' \in Nat
      BY <2>0, <2>6 DEF Scan
    <3> QED
      BY <2>0, <2>6, <2>e, <3>1 DEF Scan, DirTypeOK, host, EntryLen
  <2>7. CASE HostChanges
    BY <2>7 DEF HostChanges, DirTypeOK, guest, EntryLen
  <2>8. CASE UNCHANGED vars
    BY <2>8 DEF vars, host, guest, DirTypeOK, EntryLen
  <2> QED
    BY <2>1, <2>2, <2>3, <2>4, <2>5, <2>6, <2>7, <2>8 DEF Next, Step
<1> QED
  BY <1>1, <1>2, PTL DEF Spec

-----------------------------------------------------------------------------
(* SnapshotsAreWhole: if the open directory can seek, each snapshot that   *)
(* fd_readdir makes is the whole directory of that moment with "." and     *)
(* "..", however often it was listed before and whatever the host did.     *)
THEOREM SnapshotsWholeHolds == Rewinds => (Spec => SnapshotsAreWhole)
<1> SUFFICES ASSUME Rewinds PROVE Spec => SnapshotsAreWhole
  OBVIOUS
<1> DEFINE Whole == snapshot' \notin {snapshot, <<>>} => ToSet(snapshot') = dir \cup {Dot, DotDot}
<1>1. DirTypeOK /\ [Next]_vars => [Whole]_vars
  <2> SUFFICES ASSUME DirTypeOK, Next, snapshot' \notin {snapshot, <<>>}
               PROVE  ToSet(snapshot') = dir \cup {Dot, DotDot}
    OBVIOUS
  <2>1. Call
    BY DEF Next, Step, CallFails, ParseDirent, ParseNothing, ParseEnd, Scan, HostChanges
  <2>2. snapshot' \in Entries(cookie)
    BY <2>1 DEF Call
  <2>3. ~Keeps(cookie) => ToSet(snapshot') = dir \cup {Dot, DotDot}
    BY <2>2, EntriesFacts DEF DirTypeOK, Listings
  <2>4. Keeps(cookie) => snapshot' = snapshot
    BY <2>2, EntriesFacts DEF DirTypeOK, Listings
  <2> QED
    BY <2>3, <2>4
<1> QED
  BY <1>1, TypeCorrect, PTL DEF Spec, SnapshotsAreWhole

-----------------------------------------------------------------------------
(* The scan of a guest that clears its buffer.                             *)

LEMMA NothingTaken ==
    ASSUME NEW s \in Listings, NEW a \in Nat
    PROVE  SubSeq(s, a + 1, a) = <<>>
<1>1. SubSeq(s, a + 1, a) \in Seq(Listed) /\ Len(SubSeq(s, a + 1, a)) = 0
  BY SubSeqProperties DEF Listings
<1> QED
  BY <1>1, EmptySeq

LEMMA OneMoreTaken ==
    ASSUME NEW s \in Listings, NEW a \in Nat, NEW b \in Nat, a <= b, b < Len(s)
    PROVE  Append(SubSeq(s, a + 1, b), s[b + 1]) = SubSeq(s, a + 1, b + 1)
<1>1. PICK n \in Nat : n = Len(s)
  BY LenProperties DEF Listings
<1> DEFINE t == SubSeq(s, a + 1, b)
           u == SubSeq(s, a + 1, b + 1)
<1>2. /\ t \in Seq(Listed) /\ Len(t) = b - a /\ \A i \in 1..(b - a) : t[i] = s[a + i]
      /\ u \in Seq(Listed) /\ Len(u) = b + 1 - a /\ \A i \in 1..(b + 1 - a) : u[i] = s[a + i]
  BY <1>1, SubSeqProperties DEF Listings
<1>3. s[b + 1] \in Listed
  BY <1>1, ElementOfSeq DEF Listings
<1> HIDE DEF t, u
<1>4. /\ Append(t, s[b + 1]) \in Seq(Listed) /\ Len(Append(t, s[b + 1])) = b - a + 1
      /\ \A i \in 1..(b - a) : Append(t, s[b + 1])[i] = t[i]
      /\ Append(t, s[b + 1])[b - a + 1] = s[b + 1]
  BY <1>2, <1>3, AppendProperties
<1>5. \A i \in 1..(b + 1 - a) : Append(t, s[b + 1])[i] = u[i]
  <2> SUFFICES ASSUME NEW i \in 1..(b + 1 - a) PROVE Append(t, s[b + 1])[i] = u[i]
    OBVIOUS
  <2>1. CASE i = b - a + 1
    <3>1. a + i = b + 1 /\ u[i] = s[a + i]
      BY <1>2, <2>1
    <3> QED
      BY <1>4, <2>1, <3>1
  <2>2. CASE i # b - a + 1
    <3>1. i \in 1..(b - a)
      BY <2>2
    <3> QED
      BY <1>2, <1>4, <3>1
  <2> QED
    BY <2>1, <2>2
<1>6. Append(t, s[b + 1]) = u
  BY <1>2, <1>4, <1>5, SeqEqual
<1> QED
  BY <1>6 DEF t, u

(* How far the scan is: the cookie counts what it has returned, of which   *)
(* seen has as much as it may hold.                                        *)
Progress ==
    pc # "failed" =>
        /\ cookie >= start
        /\ cookie = start \/ cookie <= Len(snapshot)
        /\ Len(seen) = IF cookie - start < MaxSeen THEN cookie - start ELSE MaxSeen
        /\ seen = SubSeq(snapshot, start + 1, start + Len(seen))

(* Where a guest is that parses: the call before was made with cookie c,   *)
(* and k of its dirents are parsed; or it was made beyond the end.         *)
Taken(s, b, u, next, p, c, k) ==
    /\ c < Len(s)
    /\ b = Dirents(s, c)
    /\ u = Reported(s, c)
    /\ next = c + k
    /\ p >= Offsets(s, c)[k]
    /\ k < Fitting(s, c) => p = Offsets(s, c)[k]

InBuffer(s, b, u, next, p) ==
    \/ next >= Len(s) /\ b = {}
    \/ \E c \in 0..Len(s) : \E k \in 0..Fitting(s, c) : Taken(s, b, u, next, p, c, k)

Parsing == pc = "parse" => InBuffer(snapshot, buf, used, cookie, parsed)

(* The next dirent that is parsed is the one behind those that were.       *)
LEMMA TakenNext ==
    ASSUME DirTypeOK, NEW c \in 0..Len(snapshot), NEW k \in 0..Fitting(snapshot, c),
           Taken(snapshot, buf, used, cookie, parsed, c, k), NEW d \in buf, d.at = parsed
    PROVE  /\ k < Fitting(snapshot, c)
           /\ d.next = c + k + 1 /\ d.name = snapshot[c + k + 1]
           /\ parsed + EntryLen(d.name) = Offsets(snapshot, c)[k + 1]
           /\ c + k < Len(snapshot)
<1> DEFINE s == snapshot
           g == Offsets(s, c)
           f == Fitting(s, c)
           n == Len(s) - c
<1>1. s \in Listings /\ c \in 0..Len(s) /\ k \in 0..f
  BY DEF DirTypeOK, Listings
<1>2. PICK i \in 1..f :
            /\ d = [at |-> g[i - 1], name |-> s[c + i], next |-> c + i]
            /\ d.name \in Listed
            /\ g[i] = d.at + EntryLen(d.name)
            /\ d.at + EntryLen(d.name) <= g[f]
  BY <1>1, DirentsFacts DEF Taken
<1>3. g \in [0..n -> Nat] /\ n \in Nat /\ f \in 0..n /\ c \in Nat /\ Len(s) \in Nat
  BY <1>1, OffsetsFacts, WithinFacts, FittingFacts
<1>4. \A j \in 1..n : EntryLen(s[c + j]) \in Nat /\ EntryLen(s[c + j]) > 0
  <2> SUFFICES ASSUME NEW j \in 1..n
               PROVE  EntryLen(s[c + j]) \in Nat /\ EntryLen(s[c + j]) > 0
    OBVIOUS
  <2>1. s[c + j] \in Listed
    BY <1>1, WithinFacts
  <2> QED
    BY <2>1, EntryLenType DEF Header
<1>5. \A a \in 0..n : \A b \in 0..n : a < b => g[a] + EntryLen(s[c + a + 1]) <= g[b]
  BY <1>1, OffsetsGrow
<1>6. parsed >= g[k] /\ (k < f => parsed = g[k]) /\ parsed = g[i - 1]
  BY <1>2 DEF Taken
<1> HIDE DEF g, f, n, s
<1>7. \A a \in 0..n : \A b \in 0..n : a < b => g[a] < g[b]
  <2> SUFFICES ASSUME NEW a \in 0..n, NEW b \in 0..n, a < b PROVE g[a] < g[b]
    OBVIOUS
  <2>1. a + 1 \in 1..n /\ c + a + 1 = c + (a + 1)
    BY <1>3
  <2>2. EntryLen(s[c + a + 1]) \in Nat /\ EntryLen(s[c + a + 1]) > 0
    BY <1>4, <2>1
  <2>3. g[a] + EntryLen(s[c + a + 1]) <= g[b] /\ g[a] \in Nat /\ g[b] \in Nat
    BY <1>3, <1>5
  <2> QED
    BY <2>2, <2>3
<1>8. i - 1 \in 0..n /\ k \in 0..n /\ i \in 0..n /\ i - 1 < f
  BY <1>1, <1>3
<1>9. g[i - 1] \in Nat /\ g[k] \in Nat /\ g[f] \in Nat
  BY <1>3, <1>8
<1>10. k < f
  <2>1. g[i - 1] < g[f]
    BY <1>3, <1>7, <1>8
  <2>2. k = f => parsed >= g[f]
    BY <1>6
  <2>3. k # f
    BY <1>6, <1>9, <2>1, <2>2
  <2> QED
    BY <1>1, <1>3, <2>3
<1>11. i - 1 = k
  <2>1. ~(i - 1 < k) /\ ~(k < i - 1)
    BY <1>6, <1>7, <1>8, <1>9, <1>10
  <2> QED
    BY <1>8, <2>1
<1>12. i = k + 1 /\ c + i = c + k + 1
  BY <1>1, <1>3, <1>8, <1>11
<1>13. d.next = c + k + 1 /\ d.name = s[c + k + 1]
  BY <1>2, <1>12
<1>14. parsed + EntryLen(d.name) = g[k + 1]
  <2>1. d.at = parsed
    OBVIOUS
  <2> QED
    BY <1>2, <1>12, <2>1
<1>15. c + k < Len(s)
  BY <1>1, <1>3, <1>10 DEF n
<1> QED
  BY <1>10, <1>13, <1>14, <1>15 DEF g, f, s

LEMMA InitScan == Init => Progress /\ Parsing
<1> SUFFICES ASSUME Init PROVE Progress /\ Parsing
  OBVIOUS
<1>1. pc = "call" /\ cookie = 0 /\ start = 0 /\ seen = <<>> /\ snapshot = <<>>
  BY DEF Init
<1>2. MaxSeen \in Nat /\ <<>> \in Listings /\ Len(<<>>) = 0
  BY DirAssumption, EmptySeq DEF Listings
<1>3. SubSeq(<<>>, 0 + 1, 0) = <<>>
  BY <1>2, NothingTaken
<1>4. Len(seen) = 0 /\ cookie - start = 0 /\ start + Len(seen) = 0
  BY <1>1, <1>2
<1>5. seen = SubSeq(snapshot, start + 1, start + Len(seen))
  BY <1>1, <1>3, <1>4
<1> QED
  BY <1>1, <1>2, <1>4, <1>5 DEF Progress, Parsing

LEMMA CallScan ==
    ASSUME Clears, DirTypeOK, Progress, Call
    PROVE  Progress' /\ Parsing'
<1>1. PICK s \in Entries(cookie) :
        /\ snapshot' = s
        /\ IF cookie >= Len(s)
           THEN buf' = Untouched(0)
           ELSE /\ used' = Reported(s, cookie)
                /\ buf' = Dirents(s, cookie)
                            \cup Untouched(Offsets(s, cookie)[Fitting(s, cookie)])
  BY DEF Call
<1>2. s \in Listings /\ (Keeps(cookie) => s = snapshot)
  BY EntriesFacts DEF DirTypeOK, Listings
<1>3. /\ pc = "call" /\ pc' = "parse" /\ parsed' = 0
      /\ cookie' = cookie /\ start' = start /\ seen' = seen
  BY DEF Call
<1>4. cookie \in Nat /\ start \in Nat /\ MaxSeen \in Nat /\ Len(s) \in Nat
  BY <1>2, DirAssumption, LenProperties DEF DirTypeOK, Listings
<1>5. Progress'
  <2>1. CASE Keeps(cookie)
    BY <1>1, <1>2, <1>3, <2>1 DEF Progress
  <2>2. CASE ~Keeps(cookie)
    <3>1. cookie = start
      <4>1. snapshot = <<>> => Len(snapshot) = 0
        BY EmptySeq
      <4> QED
        BY <1>3, <1>4, <2>2, <4>1 DEF Keeps, Progress
    <3>2. Len(seen) = 0
      BY <1>3, <1>4, <3>1 DEF Progress
    <3>3. seen = <<>>
      BY <3>2, EmptySeq DEF DirTypeOK
    <3>4. SubSeq(s, start + 1, start) = <<>>
      BY <1>2, <1>4, NothingTaken
    <3>5. Len(seen) = IF cookie - start < MaxSeen THEN cookie - start ELSE MaxSeen
      BY <1>3 DEF Progress
    <3>6. start + Len(seen) = start
      BY <1>4, <3>2
    <3>7. seen = SubSeq(s, start + 1, start + Len(seen))
      BY <3>3, <3>4, <3>6
    <3> QED
      BY <1>1, <1>3, <1>4, <3>1, <3>5, <3>7 DEF Progress
  <2> QED
    BY <2>1, <2>2
<1>6. Parsing'
  <2>1. Untouched(0) = {}
    BY DEF Untouched
  <2>2. CASE cookie >= Len(s)
    BY <1>1, <1>3, <2>1, <2>2 DEF Parsing, InBuffer
  <2>3. CASE ~(cookie >= Len(s))
    <3>1. cookie \in 0..Len(s) /\ cookie < Len(s)
      BY <1>4, <2>3
    <3>2. 0 \in 0..Fitting(s, cookie) /\ Offsets(s, cookie)[0] = 0
      BY <1>2, <3>1, FittingFacts, OffsetsFacts
    <3>3. /\ buf' = Dirents(s, cookie) /\ used' = Reported(s, cookie) /\ cookie' = cookie + 0
          /\ parsed' = Offsets(s, cookie)[0]
      <4>1. Untouched(Offsets(s, cookie)[Fitting(s, cookie)]) = {}
        BY DEF Untouched
      <4>2. buf' = Dirents(s, cookie) /\ used' = Reported(s, cookie)
        BY <1>1, <2>3, <4>1
      <4>3. cookie' = cookie + 0
        BY <1>3, <1>4
      <4> QED
        BY <1>3, <3>2, <4>2, <4>3
    <3>4. parsed' >= Offsets(s, cookie)[0]
      BY <1>3, <3>2
    <3>5. Taken(s, buf', used', cookie', parsed', cookie, 0)
      BY <3>1, <3>3, <3>4 DEF Taken
    <3>6. InBuffer(s, buf', used', cookie', parsed')
      BY <3>1, <3>2, <3>5 DEF InBuffer
    <3> QED
      BY <1>1, <3>6 DEF Parsing
  <2> QED
    BY <2>2, <2>3
<1> QED
  BY <1>5, <1>6

LEMMA ParseDirentScan ==
    ASSUME DirTypeOK, Progress, Parsing, ParseDirent
    PROVE  Progress' /\ Parsing'
<1>1. PICK d \in buf :
        /\ d.at = parsed
        /\ parsed' = parsed + EntryLen(d.name)
        /\ cookie' = d.next
        /\ seen' = IF Len(seen) < MaxSeen THEN Append(seen, d.name) ELSE seen
  BY DEF ParseDirent
<1>2. /\ pc = "parse" /\ pc' = "parse" /\ snapshot' = snapshot /\ buf' = buf /\ used' = used
      /\ start' = start
  BY DEF ParseDirent
<1>c. PICK c \in 0..Len(snapshot) :
         \E k \in 0..Fitting(snapshot, c) : Taken(snapshot, buf, used, cookie, parsed, c, k)
  BY <1>1, <1>2 DEF Parsing, InBuffer
<1>3. PICK k \in 0..Fitting(snapshot, c) : Taken(snapshot, buf, used, cookie, parsed, c, k)
  BY <1>c
<1>4. /\ k < Fitting(snapshot, c)
      /\ d.next = c + k + 1 /\ d.name = snapshot[c + k + 1]
      /\ parsed + EntryLen(d.name) = Offsets(snapshot, c)[k + 1]
      /\ c + k < Len(snapshot)
  BY <1>1, <1>3, TakenNext
<1>5. /\ snapshot \in Listings /\ seen \in Seq(Listed) /\ Len(snapshot) \in Nat /\ Len(seen) \in Nat
      /\ cookie \in Nat /\ start \in Nat /\ MaxSeen \in Nat
  BY DirAssumption, LenProperties DEF DirTypeOK, Listings
<1>6. /\ c \in Nat /\ Fitting(snapshot, c) \in Nat /\ k \in Nat
      /\ Offsets(snapshot, c)[k + 1] \in Nat
  <2>1. Fitting(snapshot, c) \in 0..(Len(snapshot) - c)
    BY <1>5, FittingFacts
  <2>2. k + 1 \in 0..(Len(snapshot) - c)
    BY <1>4, <1>5, <2>1
  <2>3. Offsets(snapshot, c) \in [0..(Len(snapshot) - c) -> Nat]
    BY <1>5, OffsetsFacts
  <2> QED
    BY <2>1, <2>2, <2>3
<1>7. cookie = c + k /\ cookie' = cookie + 1 /\ cookie < Len(snapshot)
  BY <1>1, <1>3, <1>4, <1>6 DEF Taken
<1>8. Progress'
  <2>1. /\ cookie >= start
        /\ Len(seen) = IF cookie - start < MaxSeen THEN cookie - start ELSE MaxSeen
        /\ seen = SubSeq(snapshot, start + 1, start + Len(seen))
    BY <1>2 DEF Progress
  <2>2. CASE Len(seen) < MaxSeen
    <3>1. Len(seen) = cookie - start /\ start + Len(seen) = cookie
      BY <1>5, <2>1, <2>2
    <3>2. seen' = Append(SubSeq(snapshot, start + 1, cookie), snapshot[cookie + 1])
      BY <1>1, <1>4, <1>7, <2>1, <2>2, <3>1
    <3>3. seen' = SubSeq(snapshot, start + 1, cookie + 1)
      BY <1>5, <1>7, <2>1, <3>2, OneMoreTaken
    <3>4. d.name \in Listed
      BY DEF DirTypeOK
    <3>5. Len(seen') = Len(seen) + 1
      BY <1>1, <1>5, <2>2, <3>4, AppendProperties
    <3>6. Len(seen') = cookie' - start /\ start + Len(seen') = cookie + 1 /\ Len(seen') <= MaxSeen
      BY <1>5, <1>7, <2>2, <3>1, <3>5
    <3>7. Len(seen') = IF cookie' - start < MaxSeen THEN cookie' - start ELSE MaxSeen
      BY <1>5, <1>7, <3>6
    <3> QED
      BY <1>2, <1>5, <1>7, <2>1, <3>3, <3>6, <3>7 DEF Progress
  <2>3. CASE ~(Len(seen) < MaxSeen)
    <3>1. seen' = seen /\ cookie - start >= MaxSeen /\ Len(seen) = MaxSeen
      BY <1>1, <1>5, <2>1, <2>3
    <3>2. Len(seen') = IF cookie' - start < MaxSeen THEN cookie' - start ELSE MaxSeen
      BY <1>5, <1>7, <3>1
    <3> QED
      BY <1>2, <1>5, <1>7, <2>1, <3>1, <3>2 DEF Progress
  <2> QED
    BY <2>2, <2>3
<1>9. Parsing'
  <2>1. k + 1 \in 0..Fitting(snapshot, c) /\ cookie' = c + (k + 1)
    BY <1>4, <1>6, <1>7
  <2>2. parsed' = Offsets(snapshot, c)[k + 1] /\ parsed' >= Offsets(snapshot, c)[k + 1]
    BY <1>1, <1>4, <1>6
  <2>3. c < Len(snapshot) /\ buf = Dirents(snapshot, c) /\ used = Reported(snapshot, c)
    BY <1>3 DEF Taken
  <2>4. Taken(snapshot, buf, used, cookie', parsed', c, k + 1)
    BY <1>4, <2>1, <2>2, <2>3 DEF Taken
  <2>5. InBuffer(snapshot, buf, used, cookie', parsed')
    BY <2>1, <2>4 DEF InBuffer
  <2> QED
    BY <1>2, <2>5 DEF Parsing
<1> QED
  BY <1>8, <1>9

LEMMA ParseNothingScan ==
    ASSUME Clears, DirTypeOK, Progress, Parsing, ParseNothing
    PROVE  Progress' /\ Parsing'
<1>1. /\ pc = "parse" /\ pc' = "parse" /\ parsed' = parsed + Header
      /\ ~\E d \in buf : d.at = parsed
      /\ snapshot' = snapshot /\ buf' = buf /\ used' = used
      /\ start' = start /\ seen' = seen /\ cookie' = cookie
  BY DEF ParseNothing
<1>2. Progress'
  BY <1>1 DEF Progress
<1>3. InBuffer(snapshot, buf, used, cookie, parsed')
  <2>1. CASE cookie >= Len(snapshot) /\ buf = {}
    BY <2>1 DEF InBuffer
  <2>2. CASE \E c \in 0..Len(snapshot) :
                \E k \in 0..Fitting(snapshot, c) :
                   Taken(snapshot, buf, used, cookie, parsed, c, k)
    <3>1. PICK c \in 0..Len(snapshot) :
             \E k \in 0..Fitting(snapshot, c) : Taken(snapshot, buf, used, cookie, parsed, c, k)
      BY <2>2
    <3>2. PICK k \in 0..Fitting(snapshot, c) : Taken(snapshot, buf, used, cookie, parsed, c, k)
      BY <3>1
    <3>3. /\ snapshot \in Listings /\ Len(snapshot) \in Nat /\ c \in Nat /\ parsed \in Nat
          /\ Fitting(snapshot, c) \in 0..(Len(snapshot) - c) /\ k \in Nat
      BY LenProperties, FittingFacts DEF DirTypeOK, Listings
    <3>4. ~(k < Fitting(snapshot, c))
      <4> SUFFICES ASSUME k < Fitting(snapshot, c) PROVE FALSE
        OBVIOUS
      <4>1. k + 1 \in 1..Fitting(snapshot, c) /\ (k + 1) - 1 = k
        BY <3>3
      <4> DEFINE d == [at |-> Offsets(snapshot, c)[(k + 1) - 1],
                       name |-> snapshot[c + (k + 1)], next |-> c + (k + 1)]
      <4>2. d \in Dirents(snapshot, c)
        BY <4>1 DEF Dirents
      <4>3. d.at = parsed
        BY <3>2, <4>1 DEF Taken
      <4> HIDE DEF d
      <4> QED
        BY <1>1, <3>2, <4>2, <4>3 DEF Taken
    <3>5. Offsets(snapshot, c)[k] \in Nat
      <4>1. Offsets(snapshot, c) \in [0..(Len(snapshot) - c) -> Nat]
        BY <3>3, OffsetsFacts
      <4>2. k \in 0..(Len(snapshot) - c)
        BY <3>3
      <4> QED
        BY <4>1, <4>2
    <3>6. parsed' >= Offsets(snapshot, c)[k]
      BY <1>1, <3>2, <3>3, <3>5 DEF Taken, Header
    <3>7. Taken(snapshot, buf, used, cookie, parsed', c, k)
      BY <3>2, <3>4, <3>6 DEF Taken
    <3> QED
      BY <3>7 DEF InBuffer
  <2> QED
    BY <1>1, <2>1, <2>2 DEF Parsing, InBuffer
<1> QED
  BY <1>1, <1>2, <1>3 DEF Parsing

LEMMA ScanHolds == Clears => (Spec => [](DirTypeOK /\ Progress /\ Parsing))
<1> SUFFICES ASSUME Clears PROVE Spec => [](DirTypeOK /\ Progress /\ Parsing)
  OBVIOUS
<1>1. DirTypeOK /\ Progress /\ Parsing /\ [Next]_vars => (Progress /\ Parsing)'
  <2> SUFFICES ASSUME DirTypeOK, Progress, Parsing, [Next]_vars PROVE Progress' /\ Parsing'
    OBVIOUS
  <2>1. CASE Call
    BY <2>1, CallScan
  <2>2. CASE CallFails
    BY <2>2 DEF CallFails, Progress, Parsing
  <2>3. CASE ParseDirent
    BY <2>3, ParseDirentScan
  <2>4. CASE ParseNothing
    BY <2>4, ParseNothingScan
  <2>5. CASE ParseEnd
    <3>1. pc = "parse" /\ pc' \in {"done", "call"}
      BY <2>5 DEF ParseEnd
    <3> QED
      BY <2>5, <3>1 DEF ParseEnd, Progress, Parsing, host
  <2>6. CASE Scan
    <3>1. /\ cookie' = start' /\ seen' = <<>> /\ pc' = "call"
          /\ start' \in 0 .. Cardinality(Name) + 2 /\ snapshot' = snapshot
      BY <2>6 DEF Scan
    <3>2. start' \in Nat /\ MaxSeen \in Nat /\ snapshot \in Listings
      BY <3>1, DirAssumption, FS_CardinalityType DEF DirTypeOK, Listings
    <3>3. PICK a \in Nat : a = start'
      BY <3>2
    <3>4. SubSeq(snapshot, a + 1, a + 0) = <<>> /\ Len(<<>>) = 0
      BY <3>2, NothingTaken, EmptySeq
    <3>5. /\ cookie' = a /\ start' = a /\ a >= a /\ a - a = 0
          /\ seen' = <<>> /\ Len(seen') = 0 /\ snapshot' = snapshot
      <4>1. cookie' = a /\ start' = a /\ seen' = <<>> /\ snapshot' = snapshot
        BY <3>1, <3>3
      <4>2. a >= a /\ a - a = 0
        OBVIOUS
      <4>3. Len(seen') = 0
        BY <3>4, <4>1
      <4> QED
        BY <4>1, <4>2, <4>3
    <3>6. seen' = SubSeq(snapshot', start' + 1, start' + Len(seen'))
      BY <3>4, <3>5
    <3>7. Len(seen') = IF cookie' - start' < MaxSeen THEN cookie' - start' ELSE MaxSeen
      BY <3>2, <3>5
    <3> QED
      BY <3>1, <3>5, <3>6, <3>7 DEF Progress, Parsing
  <2>7. CASE HostChanges
    BY <2>7 DEF HostChanges, guest, Progress, Parsing
  <2>8. CASE UNCHANGED vars
    BY <2>8 DEF vars, host, guest, Progress, Parsing
  <2> QED
    BY <2>1, <2>2, <2>3, <2>4, <2>5, <2>6, <2>7, <2>8 DEF Next, Step
<1> QED
  BY <1>1, InitScan, TypeCorrect, PTL DEF Spec

(* EachEntryOnce: a guest that clears its buffer is given the entries of   *)
(* one snapshot, each of them once and in order, from the cookie its scan  *)
(* began with, wherever the buffer cuts the listing and whatever the host  *)
(* does meanwhile.                                                         *)
THEOREM EachEntryOnceHolds == Clears => (Spec => []EachEntryOnce)
<1>1. Progress => EachEntryOnce
  BY DEF Progress, EachEntryOnce
<1> QED
  BY <1>1, ScanHolds, PTL

-----------------------------------------------------------------------------
(* The end of a scan.                                                      *)

(* Every entry fits an empty buffer; and a scan can remember all of them.  *)
Roomy == \A name \in Listed : EntryLen(name) <= BufLen

Remembers == MaxSeen >= Cardinality(Name) + 2

LEMMA EndOfBuffer ==
    ASSUME Roomy, DirTypeOK, Parsing, ParseEnd, pc' = "done"
    PROVE  cookie >= Len(snapshot)
<1>1. pc = "parse" /\ Left < Header /\ used < BufLen
  BY DEF ParseEnd
<1> SUFFICES ASSUME NEW c \in 0..Len(snapshot), NEW k \in 0..Fitting(snapshot, c),
                    Taken(snapshot, buf, used, cookie, parsed, c, k)
             PROVE  cookie >= Len(snapshot)
  BY <1>1 DEF Parsing, InBuffer
<1> DEFINE s == snapshot
           g == Offsets(s, c)
           f == Fitting(s, c)
           n == Len(s) - c
<1>2. s \in Listings /\ c \in 0..Len(s) /\ k \in 0..f
  BY DEF DirTypeOK, Listings
<1>3. /\ Len(s) \in Nat /\ n \in Nat /\ c \in Nat /\ f \in 0..n /\ g \in [0..n -> Nat]
      /\ parsed \in Nat /\ used \in Nat /\ BufLen \in Nat
  BY <1>2, WithinFacts, FittingFacts, OffsetsFacts, DirAssumption DEF DirTypeOK
<1>4. /\ c < Len(s) /\ used = Reported(s, c) /\ cookie = c + k
      /\ k < f => parsed = g[k]
  BY DEF Taken
<1>5. g[f] <= used /\ (c + f = Len(s) \/ g[f] = 0)
  BY <1>1, <1>2, <1>4, ReportedFacts
<1>6. k = f
  <2> SUFFICES ASSUME k < f PROVE FALSE
    BY <1>2, <1>3
  <2>1. k \in 0..n /\ k + 1 \in 1..n /\ c + k + 1 = c + (k + 1)
    BY <1>2, <1>3
  <2>2. g[k] + EntryLen(s[c + k + 1]) <= g[f]
    BY <1>2, <1>3, <2>1, OffsetsGrow
  <2>3. EntryLen(s[c + k + 1]) \in Nat /\ EntryLen(s[c + k + 1]) > Header
    BY <1>2, <2>1, WithinFacts, EntryLenType
  <2>4. g[k] \in Nat /\ g[f] \in Nat
    BY <1>3, <2>1
  <2>5. parsed = g[k] /\ g[f] <= used /\ used - parsed < Header
    BY <1>1, <1>4, <1>5 DEF Left
  <2>6. used \in Nat
    BY <1>3
  <2> HIDE DEF g, f, n, s
  <2> QED
    BY <2>2, <2>3, <2>4, <2>5, <2>6 DEF Header
<1>7. g[f] # 0
  <2> SUFFICES ASSUME g[f] = 0 PROVE FALSE
    OBVIOUS
  <2>1. f = 0
    <3> SUFFICES ASSUME 0 < f PROVE FALSE
      BY <1>3
    <3>2. 1 \in 1..n /\ c + 0 + 1 = c + 1 /\ 0 \in 0..n
      BY <1>3
    <3>1. g[0] + EntryLen(s[c + 0 + 1]) <= g[f]
      BY <1>2, <1>3, <3>2, OffsetsGrow
    <3>3. EntryLen(s[c + 1]) \in Nat /\ EntryLen(s[c + 1]) > Header
      BY <1>2, <3>2, WithinFacts, EntryLenType
    <3>4. g[0] \in Nat
      BY <1>3, <3>2
    <3> HIDE DEF g, f, n, s
    <3> QED
      BY <3>1, <3>2, <3>3, <3>4 DEF Header
  <2>2. 1 \in 1..n /\ 1 - 1 = 0
    BY <1>3, <1>4
  <2>3. g[0 + 1] > BufLen
    <3>1. f < n => g[f + 1] > BufLen
      BY <1>2, FittingFacts
    <3>2. f < n
      BY <1>3, <2>1, <2>2
    <3> QED
      BY <2>1, <3>1, <3>2
  <2>4. g[1] = g[1 - 1] + EntryLen(s[c + 1]) /\ g[0] = 0
    BY <1>2, <2>2, OffsetsFacts
  <2>5. s[c + 1] \in Listed
    BY <1>2, <2>2, WithinFacts
  <2>6. EntryLen(s[c + 1]) \in Nat /\ EntryLen(s[c + 1]) <= BufLen
    BY <2>5, EntryLenType DEF Roomy
  <2> HIDE DEF g, f, n, s
  <2> QED
    BY <1>3, <2>2, <2>3, <2>4, <2>6
<1> QED
  BY <1>3, <1>4, <1>5, <1>6, <1>7

(* No snapshot is longer than a listing of all names.                      *)
ShortEnough == Len(snapshot) <= Cardinality(Name) + 2

Finished == pc = "done" => cookie >= Len(snapshot)

(* NothingMissed: if every entry fits an empty buffer, a guest that clears *)
(* it and is told that less than the buffer was used has seen all entries  *)
(* of its snapshot; as long as there are more it is told to come back.     *)
THEOREM NothingMissedHolds ==
    Clears /\ Roomy /\ Remembers => (Spec => []NothingMissed)
<1> SUFFICES ASSUME Clears, Roomy, Remembers PROVE Spec => []NothingMissed
  OBVIOUS
<1>0. Cardinality(Name) \in Nat /\ MaxSeen \in Nat
  BY DirAssumption, FS_CardinalityType
<1>1. Init => ShortEnough /\ Finished
  <2>1. Len(<<>>) = 0
    BY EmptySeq
  <2> QED
    BY <1>0, <2>1 DEF Init, ShortEnough, Finished
<1>2. /\ DirTypeOK /\ Progress /\ Parsing /\ ShortEnough /\ Finished /\ [Next]_vars
      => (ShortEnough /\ Finished)'
  <2> SUFFICES ASSUME DirTypeOK, Progress, Parsing, ShortEnough, Finished, [Next]_vars
               PROVE  ShortEnough' /\ Finished'
    OBVIOUS
  <2>1. CASE Call
    <3>1. snapshot' \in Entries(cookie) /\ pc' = "parse"
      BY <2>1 DEF Call
    <3>2. /\ Keeps(cookie) => snapshot' = snapshot
          /\ ~Keeps(cookie) => Len(snapshot') \in 0..(Cardinality(Name) + 2)
      BY <3>1, EntriesFacts DEF DirTypeOK, Listings
    <3>3. Len(snapshot') <= Cardinality(Name) + 2
      BY <1>0, <3>2 DEF ShortEnough
    <3> QED
      BY <3>1, <3>3 DEF ShortEnough, Finished
  <2>2. CASE CallFails
    <3>1. Len(<<>>) = 0
      BY EmptySeq
    <3> QED
      BY <1>0, <2>2, <3>1 DEF CallFails, ShortEnough, Finished
  <2>3. CASE ParseDirent \/ ParseNothing
    <3>1. snapshot' = snapshot /\ pc' \in {"parse", "call"}
      BY <2>3 DEF ParseDirent, ParseNothing
    <3> QED
      BY <3>1 DEF ShortEnough, Finished
  <2>4. CASE ParseEnd
    <3>1. snapshot' = snapshot /\ cookie' = cookie
      BY <2>4 DEF ParseEnd
    <3>2. pc' = "done" => cookie >= Len(snapshot)
      BY <2>4, EndOfBuffer
    <3> QED
      BY <3>1, <3>2 DEF ShortEnough, Finished
  <2>5. CASE Scan
    BY <2>5 DEF Scan, ShortEnough, Finished
  <2>6. CASE HostChanges
    BY <2>6 DEF HostChanges, guest, ShortEnough, Finished
  <2>7. CASE UNCHANGED vars
    BY <2>7 DEF vars, guest, ShortEnough, Finished
  <2> QED
    BY <2>1, <2>2, <2>3, <2>4, <2>5, <2>6, <2>7 DEF Next, Step
<1>3. DirTypeOK /\ Progress /\ ShortEnough /\ Finished => NothingMissed
  <2> SUFFICES ASSUME DirTypeOK, Progress, ShortEnough, Finished, pc = "done"
               PROVE  start + Len(seen) >= Len(snapshot)
    BY DEF NothingMissed
  <2>1. /\ cookie \in Nat /\ start \in Nat /\ Len(snapshot) \in Nat
        /\ cookie >= start /\ cookie >= Len(snapshot) /\ Len(snapshot) <= Cardinality(Name) + 2
        /\ Len(seen) = IF cookie - start < MaxSeen THEN cookie - start ELSE MaxSeen
    BY LenProperties DEF DirTypeOK, Progress, ShortEnough, Finished
  <2>2. CASE cookie - start < MaxSeen
    BY <2>1, <2>2
  <2>3. CASE ~(cookie - start < MaxSeen)
    BY <1>0, <2>1, <2>3 DEF Remembers
  <2> QED
    BY <2>2, <2>3
<1> QED
  BY <1>1, <1>2, <1>3, ScanHolds, PTL DEF Spec
=============================================================================
