----------------------------- MODULE LaneProofs -----------------------------
(***************************************************************************)
(* Facts about the operators of Lanes, for sequences of any length.  The   *)
(* library's induction theorems take an operator, so induction is stated   *)
(* here over a set of numbers and derived from the well-founded "<".       *)
(***************************************************************************)
EXTENDS Lanes, Functions, SequenceTheorems, WellFoundedInduction, TLAPS

LessNat == {ss \in Nat \X Nat : ss[1] < ss[2]}

\* A set of naturals that holds 0 and is closed under successor is Nat.
LEMMA SetInduction ==
  ASSUME NEW B, B \subseteq Nat, 0 \in B, \A n \in B : n + 1 \in B
  PROVE  B = Nat
<1>1. IsWellFoundedOn(LessNat, Nat)
  BY NatLessThanWellFounded DEF OpToRel, LessNat
<1>2. SUFFICES ASSUME Nat \ B # {} PROVE FALSE
  OBVIOUS
<1>3. PICK m \in Nat \ B : \A k \in Nat \ B : <<k, m>> \notin LessNat
  BY <1>1, <1>2, WFMin
<1>4. m # 0 /\ m - 1 \in Nat /\ m - 1 < m
  BY <1>3
<1>5. <<m - 1, m>> \in LessNat
  BY <1>3, <1>4 DEF LessNat
<1>6. m - 1 \in B
  BY <1>3, <1>4, <1>5
<1>7. QED
  BY <1>3, <1>4, <1>6

-----------------------------------------------------------------------------
(* The recursive function inside Without exists *)

Kept(g, s, K, i) ==
    IF i = 0 THEN << >>
    ELSE IF s[i] \in K THEN g[i - 1] ELSE Append(g[i - 1], s[i])

IsKept(g, n, s, K) == g = [i \in 0 .. n |-> Kept(g, s, K, i)]

\* The partial results of the fold exist for every length.
LEMMA KeptExists ==
  ASSUME NEW s, NEW K
  PROVE  \A n \in Nat : \E g : IsKept(g, n, s, K)
<1> DEFINE Good == {n \in Nat : \E g : IsKept(g, n, s, K)}
<1>1. 0 \in Good
  <2> DEFINE g == [i \in 0 .. 0 |-> << >>]
  <2>1. g = [i \in 0 .. 0 |-> Kept(g, s, K, i)]
    BY DEF Kept
  <2>2. QED
    BY <2>1 DEF IsKept
<1>2. ASSUME NEW n \in Good PROVE n + 1 \in Good
  <2>1. PICK g : g = [i \in 0 .. n |-> Kept(g, s, K, i)]
    BY <1>2 DEF IsKept
  <2> DEFINE h == [i \in 0 .. n + 1 |->
                     IF i = n + 1 THEN Kept(g, s, K, i) ELSE g[i]]
  <2>2. ASSUME NEW i \in 0 .. n + 1 PROVE h[i] = Kept(h, s, K, i)
    <3>1. CASE i = n + 1
      BY <3>1 DEF Kept
    <3>2. CASE i \in 0 .. n
      <4>1. h[i] = g[i]
        BY <3>2
      <4>2. g[i] = Kept(g, s, K, i)
        BY <2>1, <3>2, Zenon
      <4>3. i # 0 => h[i - 1] = g[i - 1]
        BY <3>2
      <4>4. QED
        BY <4>1, <4>2, <4>3 DEF Kept
    <3>3. QED
      BY <3>1, <3>2
  <2>3. h = [i \in 0 .. n + 1 |-> h[i]]
    OBVIOUS
  <2>4. IsKept(h, n + 1, s, K)
    <3> HIDE DEF h
    <3> QED BY <2>2, <2>3, Zenon DEF IsKept
  <2>5. QED
    BY <2>4
<1>3. Good = Nat
  <2> HIDE DEF Good
  <2>1. Good \subseteq Nat
    BY DEF Good
  <2>2. QED
    BY <1>1, <1>2, <2>1, SetInduction
<1>4. QED
  BY <1>3

\* Without is the last of them.
LEMMA WithoutUnfolds ==
  ASSUME NEW S, NEW s \in Seq(S), NEW K
  PROVE  \E g : IsKept(g, Len(s), s, K) /\ Without(s, K) = g[Len(s)]
<1> DEFINE f == CHOOSE f : f = [i \in 0 .. Len(s) |-> Kept(f, s, K, i)]
<1>1. \E g : g = [i \in 0 .. Len(s) |-> Kept(g, s, K, i)]
  <2>1. Len(s) \in Nat
    BY LenProperties
  <2>2. \E g : IsKept(g, Len(s), s, K)
    BY <2>1, KeptExists
  <2>3. QED
    BY <2>2, Zenon DEF IsKept
<1>2. f = [i \in 0 .. Len(s) |-> Kept(f, s, K, i)]
  BY <1>1, Zenon
<1>3. Without(s, K) = f[Len(s)]
  BY DEF Without, Kept
<1>4. QED
  BY <1>2, <1>3 DEF IsKept

-----------------------------------------------------------------------------
(* What Without and Seat return *)

\* Appending adds one element to the range.
LEMMA RangeAppend ==
  ASSUME NEW S, NEW s \in Seq(S), NEW e \in S
  PROVE  Range(Append(s, e)) = Range(s) \cup {e}
<1>1. <<e>> \in Seq(S) /\ Range(<<e>>) = {e}
  <2>1. <<e>> \in Seq(S) /\ Len(<<e>>) = 1 /\ <<e>>[1] = e
    OBVIOUS
  <2>2. Range(<<e>>) = {<<e>>[i] : i \in 1 .. 1}
    BY <2>1, RangeEquality
  <2>3. QED
    BY <2>1, <2>2
<1>2. Append(s, e) = s \o <<e>>
  BY AppendIsConcat
<1>3. Range(s \o <<e>>) = Range(s) \cup Range(<<e>>)
  BY <1>1, RangeConcatenation
<1>4. QED
  BY <1>1, <1>2, <1>3

\* Dropping tasks from a lane leaves a lane with exactly the others in it.
THEOREM WithoutProperties ==
  ASSUME NEW S, NEW s \in Seq(S), NEW K
  PROVE  /\ Without(s, K) \in Seq(S)
         /\ Range(Without(s, K)) = Range(s) \ K
<1>1. PICK g : IsKept(g, Len(s), s, K) /\ Without(s, K) = g[Len(s)]
  BY WithoutUnfolds
<1> DEFINE Good == {n \in Nat : n <= Len(s) =>
                       /\ g[n] \in Seq(S)
                       /\ Range(g[n]) = {s[j] : j \in 1 .. n} \ K}
<1>2. \A i \in 0 .. Len(s) : g[i] = Kept(g, s, K, i)
  BY <1>1, Zenon DEF IsKept
<1>3. 0 \in Good
  <2>1. g[0] = << >>
    BY <1>2 DEF Kept
  <2>2. << >> \in Seq(S) /\ Range(<< >>) = {}
    <3>1. << >> \in Seq(S) /\ Len(<< >>) = 0
      BY EmptySeq
    <3>2. Range(<< >>) = {<< >>[i] : i \in 1 .. 0}
      BY <3>1, RangeEquality
    <3>3. QED
      BY <3>1, <3>2
  <2>3. {s[j] : j \in 1 .. 0} = {}
    OBVIOUS
  <2>4. QED
    BY <2>1, <2>2, <2>3
<1>4. ASSUME NEW n \in Good PROVE n + 1 \in Good
  <2>1. SUFFICES ASSUME n + 1 <= Len(s)
                 PROVE  /\ g[n + 1] \in Seq(S)
                        /\ Range(g[n + 1]) = {s[j] : j \in 1 .. n + 1} \ K
    OBVIOUS
  <2>2. g[n] \in Seq(S) /\ Range(g[n]) = {s[j] : j \in 1 .. n} \ K
    BY <2>1
  <2>3. s[n + 1] \in S
    BY <2>1
  <2>4. g[n + 1] = IF s[n + 1] \in K THEN g[n] ELSE Append(g[n], s[n + 1])
    BY <1>2, <2>1 DEF Kept
  <2>5. {s[j] : j \in 1 .. n + 1} = {s[j] : j \in 1 .. n} \cup {s[n + 1]}
    OBVIOUS
  <2>6. Range(Append(g[n], s[n + 1])) = Range(g[n]) \cup {s[n + 1]}
    BY <2>2, <2>3, RangeAppend
  <2>7. QED
    BY <2>2, <2>3, <2>4, <2>5, <2>6, AppendProperties
<1>5. Good = Nat
  <2>1. Good \subseteq Nat
    OBVIOUS
  <2> HIDE DEF Good
  <2>2. QED
    BY <1>3, <1>4, <2>1, SetInduction
<1>6. Len(s) \in Good
  BY <1>5, LenProperties
<1>7. QED
  BY <1>1, <1>6, LenProperties, RangeEquality

\* A lane with a twin has a first one.
LEMMA FirstExists ==
  ASSUME NEW S, NEW s \in Seq(S), NEW K, \E i \in 1 .. Len(s) : s[i] \in K
  PROVE  \E i \in 1 .. Len(s) : s[i] \in K /\ \A j \in 1 .. i - 1 : s[j] \notin K
<1> DEFINE B == {i \in 1 .. Len(s) : s[i] \in K}
<1>1. PICK i \in B : \A k \in B : <<k, i>> \notin LessNat
  <2>1. IsWellFoundedOn(LessNat, Nat)
    BY NatLessThanWellFounded DEF OpToRel, LessNat
  <2>2. B \subseteq Nat /\ B # {}
    OBVIOUS
  <2> HIDE DEF B
  <2>3. QED
    BY <2>1, <2>2, WFMin
<1>2. \A j \in 1 .. i - 1 : s[j] \notin K
  <2>1. SUFFICES ASSUME NEW j \in 1 .. i - 1, s[j] \in K PROVE FALSE
    OBVIOUS
  <2>2. Len(s) \in Nat
    BY LenProperties
  <2>3. j \in B /\ j \in Nat /\ i \in Nat /\ j < i
    BY <2>1, <2>2
  <2>4. <<j, i>> \in LessNat
    BY <2>3 DEF LessNat
  <2>5. QED
    BY <1>1, <2>3, <2>4
<1>3. QED
  BY <1>1, <1>2

\* Seating t leaves a lane with t and exactly the others that are no twins.
THEOREM SeatProperties ==
  ASSUME NEW S, NEW s \in Seq(S), NEW K, NEW t \in S
  PROVE  /\ Seat(s, K, t) \in Seq(S)
         /\ t \notin K => Range(Seat(s, K, t)) = (Range(s) \ K) \cup {t}
<1>1. CASE \E i \in 1 .. Len(s) : s[i] \in K
  <2> DEFINE first == CHOOSE i \in 1 .. Len(s) :
                        s[i] \in K /\ \A j \in 1 .. i - 1 : s[j] \notin K
             r == [s EXCEPT ![first] = t]
  <2>1. \E i \in 1 .. Len(s) : s[i] \in K /\ \A j \in 1 .. i - 1 : s[j] \notin K
    BY <1>1, FirstExists
  <2>2. first \in 1 .. Len(s) /\ s[first] \in K
    BY <2>1
  <2>3. Seat(s, K, t) = Without(r, K)
    BY <1>1 DEF Seat
  <2> HIDE DEF first
  <2>4. /\ r \in Seq(S) /\ Len(r) = Len(s)
        /\ \A j \in 1 .. Len(s) : r[j] = IF j = first THEN t ELSE s[j]
    BY <2>2, ExceptSeq
  <2>5. t \notin K => Range(r) \ K = (Range(s) \ K) \cup {t}
    <3>1. Range(r) = {r[j] : j \in 1 .. Len(s)}
      BY <2>4, RangeEquality
    <3>2. Range(s) = {s[j] : j \in 1 .. Len(s)}
      BY RangeEquality
    <3> HIDE DEF r
    <3>3. QED
      BY <2>2, <2>4, <3>1, <3>2
  <2> HIDE DEF r
  <2>6. QED
    BY <2>3, <2>4, <2>5, WithoutProperties
<1>2. CASE \A i \in 1 .. Len(s) : s[i] \notin K
  <2>1. Seat(s, K, t) = Append(s, t)
    BY <1>2 DEF Seat
  <2>2. Range(s) \ K = Range(s)
    <3>1. Range(s) = {s[j] : j \in 1 .. Len(s)}
      BY RangeEquality
    <3>2. QED
      BY <1>2, <3>1
  <2>3. QED
    BY <2>1, <2>2, AppendProperties, RangeAppend
<1>3. QED
  BY <1>1, <1>2

-----------------------------------------------------------------------------
(* A lane holds no task twice *)

\* The domain of a sequence, spelled out.
LEMMA InjectiveSeq ==
  ASSUME NEW S, NEW s \in Seq(S)
  PROVE  IsInjective(s) <=> \A j, k \in 1 .. Len(s) : s[j] = s[k] => j = k
<1>1. DOMAIN s = 1 .. Len(s)
  BY LenProperties
<1>2. QED
  BY <1>1 DEF IsInjective

\* Appending a task that is not in the lane keeps it free of repetitions.
LEMMA AppendInjectiveSeq ==
  ASSUME NEW S, NEW s \in Seq(S), NEW e \in S, IsInjective(s), e \notin Range(s)
  PROVE  IsInjective(Append(s, e))
<1> DEFINE r == Append(s, e)
<1>1. /\ r \in Seq(S) /\ Len(r) = Len(s) + 1 /\ r[Len(s) + 1] = e
      /\ \A j \in 1 .. Len(s) : r[j] = s[j]
  BY AppendProperties
<1>2. \A j \in 1 .. Len(s) : s[j] # e
  <2>1. Range(s) = {s[j] : j \in 1 .. Len(s)}
    BY RangeEquality
  <2>2. QED
    BY <2>1
<1>3. \A j, k \in 1 .. Len(s) : s[j] = s[k] => j = k
  BY InjectiveSeq
<1>4. Len(s) \in Nat
  BY LenProperties
<1> HIDE DEF r
<1>5. \A j, k \in 1 .. Len(r) : r[j] = r[k] => j = k
  BY <1>1, <1>2, <1>3, <1>4
<1>6. QED
  BY <1>1, <1>5, InjectiveSeq DEF r

\* Dropping tasks from a lane repeats none.
LEMMA WithoutInjective ==
  ASSUME NEW S, NEW s \in Seq(S), NEW K, IsInjective(s)
  PROVE  IsInjective(Without(s, K))
<1>1. PICK g : IsKept(g, Len(s), s, K) /\ Without(s, K) = g[Len(s)]
  BY WithoutUnfolds
<1> DEFINE Good == {n \in Nat : n <= Len(s) =>
                       /\ g[n] \in Seq(S)
                       /\ Range(g[n]) \subseteq {s[j] : j \in 1 .. n}
                       /\ IsInjective(g[n])}
<1>2. \A i \in 0 .. Len(s) : g[i] = Kept(g, s, K, i)
  BY <1>1, Zenon DEF IsKept
<1>3. Len(s) \in Nat /\ \A j, k \in 1 .. Len(s) : s[j] = s[k] => j = k
  BY InjectiveSeq, LenProperties
<1>4. 0 \in Good
  <2>1. g[0] = << >>
    BY <1>2, <1>3 DEF Kept
  <2>2. << >> \in Seq(S) /\ Len(<< >>) = 0
    BY EmptySeq
  <2>3. PICK e \in Seq(S) : e = << >> /\ Len(e) = 0
    BY <2>2
  <2>4. 1 .. Len(e) = {}
    BY <2>3
  <2>5. Range(e) = {} /\ IsInjective(e)
    <3>1. Range(e) = {e[i] : i \in 1 .. Len(e)}
      BY RangeEquality
    <3>2. QED
      BY <2>4, <3>1, InjectiveSeq
  <2>6. g[0] \in Seq(S) /\ Range(g[0]) = {} /\ IsInjective(g[0])
    BY <2>1, <2>3, <2>5
  <2>7. QED
    BY <2>6
<1>5. ASSUME NEW n \in Good PROVE n + 1 \in Good
  <2>1. SUFFICES ASSUME n + 1 <= Len(s)
                 PROVE  /\ g[n + 1] \in Seq(S)
                        /\ Range(g[n + 1]) \subseteq {s[j] : j \in 1 .. n + 1}
                        /\ IsInjective(g[n + 1])
    OBVIOUS
  <2>2. /\ n \in Nat /\ g[n] \in Seq(S) /\ IsInjective(g[n])
        /\ Range(g[n]) \subseteq {s[j] : j \in 1 .. n}
    BY <2>1, <1>3
  <2>3. s[n + 1] \in S /\ s[n + 1] \notin {s[j] : j \in 1 .. n}
    BY <1>3, <2>1, <2>2
  <2>4. g[n + 1] = IF s[n + 1] \in K THEN g[n] ELSE Append(g[n], s[n + 1])
    BY <1>2, <2>1, <2>2 DEF Kept
  <2>5. {s[j] : j \in 1 .. n + 1} = {s[j] : j \in 1 .. n} \cup {s[n + 1]}
    BY <2>2
  <2>6. Range(Append(g[n], s[n + 1])) = Range(g[n]) \cup {s[n + 1]}
    BY <2>2, <2>3, RangeAppend
  <2>7. IsInjective(Append(g[n], s[n + 1]))
    BY <2>2, <2>3, AppendInjectiveSeq
  <2>8. QED
    BY <2>2, <2>3, <2>4, <2>5, <2>6, <2>7, AppendProperties
<1>6. Good = Nat
  <2>1. Good \subseteq Nat
    OBVIOUS
  <2> HIDE DEF Good
  <2>2. QED
    BY <1>4, <1>5, <2>1, SetInduction
<1>7. QED
  BY <1>1, <1>3, <1>6

\* Nor does seating a task that is not in the lane.
LEMMA SeatInjective ==
  ASSUME NEW S, NEW s \in Seq(S), NEW K, NEW t \in S, IsInjective(s), t \notin Range(s)
  PROVE  IsInjective(Seat(s, K, t))
<1>1. CASE \E i \in 1 .. Len(s) : s[i] \in K
  <2> DEFINE first == CHOOSE i \in 1 .. Len(s) :
                        s[i] \in K /\ \A j \in 1 .. i - 1 : s[j] \notin K
             r == [s EXCEPT ![first] = t]
  <2>1. first \in 1 .. Len(s)
    BY <1>1, FirstExists
  <2>2. Seat(s, K, t) = Without(r, K)
    BY <1>1 DEF Seat
  <2> HIDE DEF first
  <2>3. /\ r \in Seq(S) /\ Len(r) = Len(s)
        /\ \A j \in 1 .. Len(s) : r[j] = IF j = first THEN t ELSE s[j]
    BY <2>1, ExceptSeq
  <2>4. \A j \in 1 .. Len(s) : s[j] # t
    <3>1. Range(s) = {s[j] : j \in 1 .. Len(s)}
      BY RangeEquality
    <3>2. QED
      BY <3>1
  <2>5. \A j, k \in 1 .. Len(s) : s[j] = s[k] => j = k
    BY InjectiveSeq
  <2> HIDE DEF r
  <2>6. IsInjective(r)
    <3>1. \A j, k \in 1 .. Len(r) : r[j] = r[k] => j = k
      BY <2>3, <2>4, <2>5
    <3>2. QED
      BY <2>3, <3>1, InjectiveSeq
  <2>7. QED
    BY <2>2, <2>3, <2>6, WithoutInjective
<1>2. CASE \A i \in 1 .. Len(s) : s[i] \notin K
  BY <1>2, AppendInjectiveSeq DEF Seat
<1>3. QED
  BY <1>1, <1>2

\* Taking the head of a lane leaves exactly the others.
LEMMA PopProperties ==
  ASSUME NEW S, NEW s \in Seq(S), s # << >>, IsInjective(s)
  PROVE  /\ Head(s) \in Range(s)
         /\ Range(Tail(s)) = Range(s) \ {Head(s)}
         /\ IsInjective(Tail(s))
<1> DEFINE r == Tail(s)
<1>1. Len(s) \in Nat \ {0}
  BY EmptySeq
<1>2. /\ r \in Seq(S) /\ Len(r) = Len(s) - 1
      /\ \A j \in 1 .. Len(r) : r[j] = s[j + 1]
  BY HeadTailProperties
<1>3. Head(s) = s[1]
  OBVIOUS
<1>4. \A j, k \in 1 .. Len(s) : s[j] = s[k] => j = k
  BY InjectiveSeq
<1>5. Range(s) = {s[j] : j \in 1 .. Len(s)}
  BY RangeEquality
<1> HIDE DEF r
<1>6. Range(r) = {r[j] : j \in 1 .. Len(r)}
  BY <1>2, RangeEquality
<1>7. \A j, k \in 1 .. Len(r) : r[j] = r[k] => j = k
  BY <1>1, <1>2, <1>4
<1>8. Range(r) = Range(s) \ {s[1]}
  <2>1. ASSUME NEW x \in Range(r) PROVE x \in Range(s) \ {s[1]}
    <3>1. PICK j \in 1 .. Len(r) : x = r[j]
      BY <1>6, <2>1
    <3>2. j + 1 \in 1 .. Len(s) /\ x = s[j + 1] /\ j + 1 # 1 /\ 1 \in 1 .. Len(s)
      BY <1>1, <1>2, <3>1
    <3>3. QED
      BY <1>4, <1>5, <3>2
  <2>2. ASSUME NEW x \in Range(s) \ {s[1]} PROVE x \in Range(r)
    <3>1. PICK j \in 1 .. Len(s) : x = s[j]
      BY <1>5, <2>2
    <3>2. j # 1 /\ j - 1 \in 1 .. Len(r)
      BY <1>1, <1>2, <2>2, <3>1
    <3>3. r[j - 1] = s[(j - 1) + 1] /\ (j - 1) + 1 = j
      BY <1>2, <3>1, <3>2
    <3>4. QED
      BY <1>6, <3>1, <3>2, <3>3
  <2>3. QED
    BY <2>1, <2>2
<1>9. IsInjective(r) /\ s[1] \in Range(s)
  BY <1>1, <1>2, <1>5, <1>7, InjectiveSeq
<1>10. QED
  BY <1>3, <1>8, <1>9 DEF r

\* Putting a task that is not in the lane at its head adds just that one.
LEMMA PushProperties ==
  ASSUME NEW S, NEW s \in Seq(S), NEW t \in S
  PROVE  /\ Range(<<t>> \o s) = Range(s) \cup {t}
         /\ IsInjective(s) /\ t \notin Range(s) => IsInjective(<<t>> \o s)
<1> DEFINE u == <<t>>
           r == u \o s
<1>1. u \in Seq(S) /\ Len(u) = 1 /\ u[1] = t
  OBVIOUS
<1>2. Range(u) = {t}
  <2>1. Range(u) = {u[i] : i \in 1 .. 1}
    BY <1>1, RangeEquality
  <2>2. QED
    BY <1>1, <2>1
<1> HIDE DEF u
<1>3. Range(r) = Range(s) \cup {t}
  BY <1>1, <1>2, RangeConcatenation
<1>4. /\ r \in Seq(S) /\ Len(r) = 1 + Len(s) /\ Len(s) \in Nat
      /\ \A i \in 1 .. 1 + Len(s) : r[i] = IF i <= 1 THEN u[i] ELSE s[i - 1]
  <2>1. /\ r \in Seq(S) /\ Len(r) = Len(u) + Len(s)
        /\ \A i \in 1 .. Len(u) + Len(s) :
              r[i] = IF i <= Len(u) THEN u[i] ELSE s[i - Len(u)]
    BY <1>1, ConcatProperties
  <2>2. Len(s) \in Nat
    BY LenProperties
  <2> HIDE DEF r
  <2>3. QED
    BY <1>1, <2>1, <2>2
<1> HIDE DEF r
<1>5. ASSUME IsInjective(s), t \notin Range(s)
      PROVE  \A j, k \in 1 .. Len(r) : r[j] = r[k] => j = k
  <2>1. Range(s) = {s[j] : j \in 1 .. Len(s)}
    BY RangeEquality
  <2>2. \A j \in 1 .. Len(s) : s[j] # t
    BY <1>5, <2>1
  <2>3. \A j, k \in 1 .. Len(s) : s[j] = s[k] => j = k
    BY <1>5, InjectiveSeq
  <2>4. \A i \in 1 .. Len(r) : \/ i = 1 /\ r[i] = t
                               \/ i # 1 /\ i - 1 \in 1 .. Len(s) /\ r[i] = s[i - 1]
    BY <1>1, <1>4
  <2>5. SUFFICES ASSUME NEW j \in 1 .. Len(r), NEW k \in 1 .. Len(r), r[j] = r[k]
                 PROVE  j = k
    OBVIOUS
  <2>6. (j = 1) = (k = 1)
    BY <2>2, <2>4, <2>5
  <2>7. CASE j # 1
    <3>1. j - 1 = k - 1
      BY <2>3, <2>4, <2>5, <2>6, <2>7
    <3>2. QED
      BY <1>4, <3>1
  <2>8. QED
    BY <2>6, <2>7
<1>6. IsInjective(s) /\ t \notin Range(s) => IsInjective(r)
  BY <1>4, <1>5, InjectiveSeq
<1>7. QED
  BY <1>3, <1>6 DEF r, u
=============================================================================
