--------------------------- MODULE HolidaysProofs ---------------------------
(***************************************************************************)
(* holidays() implements HistoryCall and tells all holidays of the year,   *)
(* for answers of any years with any holidays in each, any width of the    *)
(* numbers that ask for them, any number of cancellations, logouts and New *)
(* Years, with timeouts that race the answer, requests that are not sent   *)
(* and messages that are lost on their way.                                *)
(***************************************************************************)
EXTENDS Holidays, SequenceTheorems, FunctionTheorems, FiniteSetTheorems, TLAPS

LEMMA HeadAndTail ==
    ASSUME NEW S, NEW s \in Seq(S), s # <<>>
    PROVE  /\ Head(s) \in S /\ Tail(s) \in Seq(S)
           /\ Len(s) \in Nat /\ Len(s) > 0 /\ Len(Tail(s)) = Len(s) - 1
           /\ Head(s) = s[1]
           /\ \A i \in 1 .. Len(Tail(s)) : i + 1 \in 1 .. Len(s) /\ Tail(s)[i] = s[i + 1]
<1>1. Len(s) \in Nat /\ Len(s) # 0
  BY LenProperties, EmptySeq
<1>2. Tail(s) \in Seq(S) /\ Len(Tail(s)) = Len(s) - 1
      /\ \A i \in 1 .. Len(Tail(s)) : Tail(s)[i] = s[i + 1]
  BY HeadTailProperties
<1>3. Head(s) = s[1] /\ Head(s) \in S
  BY HeadTailProperties
<1>4. QED
  BY <1>1, <1>2, <1>3

LEMMA Appended ==
    ASSUME NEW S, NEW s \in Seq(S), NEW e \in S
    PROVE  /\ Append(s, e) \in Seq(S)
           /\ Len(s) \in Nat /\ Len(Append(s, e)) = Len(s) + 1
           /\ \A i \in 1 .. Len(s) : Append(s, e)[i] = s[i]
           /\ Append(s, e)[Len(s) + 1] = e
BY AppendProperties, LenProperties

LEMMA Dropped ==
    ASSUME NEW S, NEW s \in Seq(S), NEW k \in 0 .. Len(s)
    PROVE  LET t == SubSeq(s, k + 1, Len(s))
           IN  /\ t \in Seq(S) /\ Len(s) \in Nat /\ Len(t) = Len(s) - k
               /\ \A i \in 1 .. Len(t) : k + i \in 1 .. Len(s) /\ t[i] = s[k + i]
<1> DEFINE n == Len(s)
           t == SubSeq(s, k + 1, n)
<1>1. n \in Nat /\ k \in Nat /\ k <= n
  BY LenProperties
<1>2. \A i \in k + 1 .. n : s[i] \in S
  BY <1>1, ElementOfSeq
<1> HIDE DEF n
<1>3. /\ t \in Seq(S)
      /\ Len(t) = IF k + 1 <= n THEN n - (k + 1) + 1 ELSE 0
      /\ \A i \in 1 .. n - (k + 1) + 1 : t[i] = s[k + 1 + i - 1]
  <2>1. k + 1 \in Int /\ n \in Int
    BY <1>1
  <2>2. QED
    BY <1>2, <2>1, SubSeqProperties
<1> HIDE DEF t
<1>4. Len(t) = n - k
  BY <1>1, <1>3
<1>5. \A i \in 1 .. Len(t) : k + i \in 1 .. n /\ t[i] = s[k + i]
  <2> SUFFICES ASSUME NEW i \in 1 .. Len(t)
               PROVE  k + i \in 1 .. n /\ t[i] = s[k + i]
    OBVIOUS
  <2>1. i \in 1 .. n - (k + 1) + 1 /\ k + 1 + i - 1 = k + i /\ k + i \in 1 .. n
    BY <1>1, <1>4
  <2>2. QED
    BY <1>3, <2>1
<1>6. QED
  BY <1>1, <1>3, <1>4, <1>5 DEF n, t

-----------------------------------------------------------------------------
(* Counting the holidays that the listener is to be told.                  *)
ToldUpTo(s, n) == {j \in 1 .. n : IsTold(s[j])}

LEMMA Counted ==
    ASSUME NEW s, NEW n \in Nat
    PROVE  IsFiniteSet(ToldUpTo(s, n)) /\ Rank(s, n) \in Nat
<1>1. IsFiniteSet(1 .. n)
  BY FS_Interval
<1>2. ToldUpTo(s, n) \in SUBSET (1 .. n)
  BY DEF ToldUpTo
<1>3. IsFiniteSet(ToldUpTo(s, n))
  BY <1>1, <1>2, FS_Subset
<1>4. QED
  BY <1>3, FS_CardinalityType DEF Rank, ToldUpTo

LEMMA RankOfNone ==
    ASSUME NEW s
    PROVE  Rank(s, 0) = 0
<1>1. {j \in 1 .. 0 : IsTold(s[j])} = {}
  OBVIOUS
<1>2. QED
  BY <1>1, FS_EmptySet DEF Rank

LEMMA RankStep ==
    ASSUME NEW s, NEW n \in Nat
    PROVE  Rank(s, n + 1) = IF IsTold(s[n + 1]) THEN Rank(s, n) + 1 ELSE Rank(s, n)
<1>1. IsFiniteSet(ToldUpTo(s, n)) /\ Rank(s, n) = Cardinality(ToldUpTo(s, n))
  BY Counted DEF Rank, ToldUpTo
<1>2. n + 1 \notin ToldUpTo(s, n)
  BY DEF ToldUpTo
<1>3. CASE IsTold(s[n + 1])
  <2>1. ToldUpTo(s, n + 1) = ToldUpTo(s, n) \cup {n + 1}
    BY <1>3 DEF ToldUpTo
  <2>2. Rank(s, n + 1) = Cardinality(ToldUpTo(s, n) \cup {n + 1})
    BY <2>1 DEF Rank, ToldUpTo
  <2>3. QED
    BY <1>1, <1>2, <1>3, <2>2, FS_AddElement
<1>4. CASE ~IsTold(s[n + 1])
  <2>1. ToldUpTo(s, n + 1) = ToldUpTo(s, n)
    BY <1>4 DEF ToldUpTo
  <2>2. QED
    BY <1>1, <1>4, <2>1 DEF Rank, ToldUpTo
<1>5. QED
  BY <1>3, <1>4

LEMMA RankGrows ==
    ASSUME NEW s, NEW m \in Nat, NEW n \in Nat, m <= n
    PROVE  Rank(s, m) <= Rank(s, n) /\ (m < n /\ IsTold(s[n]) => Rank(s, m) < Rank(s, n))
<1>1. /\ IsFiniteSet(ToldUpTo(s, n)) /\ Rank(s, n) = Cardinality(ToldUpTo(s, n))
      /\ Rank(s, m) = Cardinality(ToldUpTo(s, m))
      /\ Rank(s, m) \in Nat /\ Rank(s, n) \in Nat
  BY Counted DEF Rank, ToldUpTo
<1>2. ToldUpTo(s, m) \in SUBSET ToldUpTo(s, n)
  BY DEF ToldUpTo
<1>3. /\ Cardinality(ToldUpTo(s, m)) <= Cardinality(ToldUpTo(s, n))
      /\ Cardinality(ToldUpTo(s, n)) = Cardinality(ToldUpTo(s, m)) =>
            ToldUpTo(s, n) = ToldUpTo(s, m)
  BY <1>1, <1>2, FS_Subset
<1>4. m < n /\ IsTold(s[n]) => n \in ToldUpTo(s, n) /\ n \notin ToldUpTo(s, m)
  BY DEF ToldUpTo
<1>5. QED
  BY <1>1, <1>3, <1>4

(* Two holidays that are told have different ranks.                        *)
LEMMA OneRank ==
    ASSUME NEW s, NEW i \in Nat, NEW j \in Nat,
           IsTold(s[i]), IsTold(s[j]), Rank(s, i) = Rank(s, j)
    PROVE  i = j
<1>1. Rank(s, i) \in Nat
  BY Counted
<1>2. ~(i < j) /\ ~(j < i)
  BY <1>1, RankGrows
<1>3. QED
  BY <1>2

LEMMA PickedAt ==
    ASSUME NEW s, Len(s) \in Nat, NEW i \in 1 .. Len(s), IsTold(s[i])
    PROVE  /\ Rank(s, i) \in 1 .. Rank(s, Len(s))
           /\ Picked(s)[Rank(s, i)] = s[i]
<1>1. Rank(s, i) \in Nat /\ Rank(s, Len(s)) \in Nat /\ Rank(s, i) <= Rank(s, Len(s))
  BY Counted, RankGrows
<1>2. Rank(s, 0) < Rank(s, i)
  BY RankGrows
<1>3. Rank(s, i) \in 1 .. Rank(s, Len(s))
  BY <1>1, <1>2, RankOfNone
<1> DEFINE j == CHOOSE x \in 1 .. Len(s) : IsTold(s[x]) /\ Rank(s, x) = Rank(s, i)
<1>4. j \in 1 .. Len(s) /\ IsTold(s[j]) /\ Rank(s, j) = Rank(s, i)
  OBVIOUS
<1>5. Picked(s)[Rank(s, i)] = s[j]
  BY <1>3 DEF Picked
<1> HIDE DEF j
<1>6. j = i
  BY <1>4, OneRank
<1>7. QED
  BY <1>3, <1>5, <1>6

LEMMA PickedType ==
    ASSUME NEW s, Len(s) \in Nat
    PROVE  \E S : Picked(s) \in Seq(S) /\ Len(Picked(s)) = Rank(s, Len(s))
<1> DEFINE n == Rank(s, Len(s))
           S == {Picked(s)[k] : k \in 1 .. n}
<1>1. n \in Nat
  BY Counted
<1>2. Picked(s) \in [1 .. n -> S]
  BY DEF Picked
<1>3. Picked(s) \in Seq(S)
  BY <1>1, <1>2, SeqDef
<1>4. DOMAIN Picked(s) = 1 .. n
  BY <1>2
<1> HIDE DEF n, S
<1>5. Len(Picked(s)) = n
  BY <1>1, <1>3, <1>4, LenProperties
<1>6. QED
  BY <1>3, <1>5 DEF n

LEMMA EqualSeqs ==
    ASSUME NEW S, NEW T, NEW s \in Seq(S), NEW t \in Seq(T), Len(s) = Len(t),
           \A i \in 1 .. Len(s) : s[i] = t[i]
    PROVE  s = t
<1>1. s \in Seq(S \cup T) /\ t \in Seq(S \cup T)
  BY SeqMonotonic
<1>2. QED
  BY <1>1, SeqEqual

LEMMA NothingPicked == Picked(<<>>) = <<>>
<1>1. Len(<<>>) = 0 /\ Len(<<>>) \in Nat
  BY EmptySeq
<1>2. PICK S : Picked(<<>>) \in Seq(S) /\ Len(Picked(<<>>)) = Rank(<<>>, Len(<<>>))
  BY <1>1, PickedType
<1>3. Rank(<<>>, Len(<<>>)) = 0
  BY <1>1, RankOfNone
<1>4. QED
  BY <1>2, <1>3, EmptySeq

-----------------------------------------------------------------------------
(* What the listener has been told when it was sent the first n holidays   *)
(* of the answer.                                                          *)
ToldOf(n) ==
    /\ Len(told) = Rank(items, n)
    /\ \A k \in 1 .. Len(told) : \E i \in 1 .. n :
          IsTold(items[i]) /\ Rank(items, i) = k /\ told[k] = items[i]

(* All of them: the answer of HistoryCall.                                 *)
LEMMA ToldAll ==
    ASSUME told \in Seq(Holiday), items \in Seq(Holiday), ToldOf(Len(items))
    PROVE  told = Picked(items)
<1>1. Len(items) \in Nat /\ Len(told) \in Nat
  BY LenProperties
<1>2. PICK S : Picked(items) \in Seq(S) /\ Len(Picked(items)) = Rank(items, Len(items))
  BY <1>1, PickedType
<1>3. \A k \in 1 .. Len(told) : told[k] = Picked(items)[k]
  BY <1>1, PickedAt DEF ToldOf
<1>4. QED
  BY <1>2, <1>3, EqualSeqs DEF ToldOf

(* One more.                                                               *)
LEMMA ToldNext ==
    ASSUME told \in Seq(Holiday), items \in Seq(Holiday), NEW n \in Nat, n < Len(items),
           ToldOf(n), UNCHANGED <<items, year>>,
           told' = IF IsTold(items[n + 1]) THEN Append(told, items[n + 1]) ELSE told
    PROVE  ToldOf(n + 1)'
<1>1. Len(items) \in Nat /\ Len(told) \in Nat /\ Rank(items, n) \in Nat /\ n + 1 \in 1 .. Len(items)
  BY LenProperties, Counted
<1>2. items[n + 1] \in Holiday
  BY <1>1, ElementOfSeq
<1>3. \A h : IsTold(h)' <=> IsTold(h)
  BY DEF IsTold
<1>4. \A i \in Nat : Rank(items, i)' = Rank(items, i)
  BY <1>3 DEF Rank
<1>5. CASE IsTold(items[n + 1])
  <2>1. told' = Append(told, items[n + 1])
    BY <1>5
  <2>2. /\ Len(told') = Len(told) + 1
        /\ \A k \in 1 .. Len(told) : told'[k] = told[k]
        /\ told'[Len(told) + 1] = items[n + 1]
    BY <1>2, <2>1, Appended
  <2>3. Rank(items, n + 1) = Len(told) + 1
    BY <1>5, RankStep DEF ToldOf
  <2>4. \A k \in 1 .. Len(told') : \E i \in 1 .. n + 1 :
            IsTold(items[i]) /\ Rank(items, i) = k /\ told'[k] = items[i]
    <3> SUFFICES ASSUME NEW k \in 1 .. Len(told')
                 PROVE  \E i \in 1 .. n + 1 :
                            IsTold(items[i]) /\ Rank(items, i) = k /\ told'[k] = items[i]
      OBVIOUS
    <3>1. CASE k \in 1 .. Len(told)
      BY <2>2, <3>1 DEF ToldOf
    <3>2. CASE k = Len(told) + 1
      BY <1>1, <1>5, <2>2, <2>3, <3>2
    <3>3. QED
      BY <1>1, <2>2, <3>1, <3>2
  <2>5. Len(told') = Rank(items, n + 1)'
    BY <1>1, <1>4, <2>2, <2>3
  <2>6. \A k \in 1 .. Len(told') : \E i \in 1 .. n + 1 :
          IsTold(items[i])' /\ Rank(items, i)' = k /\ told'[k] = items'[i]
    <3> SUFFICES ASSUME NEW k \in 1 .. Len(told')
                 PROVE  \E i \in 1 .. n + 1 :
                            IsTold(items[i])' /\ Rank(items, i)' = k /\ told'[k] = items'[i]
      OBVIOUS
    <3>1. PICK i \in 1 .. n + 1 :
              IsTold(items[i]) /\ Rank(items, i) = k /\ told'[k] = items[i]
      BY <2>4
    <3>2. Rank(items, i)' = Rank(items, i)
      BY <1>4
    <3>3. IsTold(items[i])' <=> IsTold(items[i])
      BY DEF IsTold
    <3>4. QED
      BY <3>1, <3>2, <3>3
  <2>7. QED
    BY <2>5, <2>6 DEF ToldOf
<1>6. CASE ~IsTold(items[n + 1])
  <2>1. told' = told /\ Rank(items, n + 1) = Rank(items, n)
    BY <1>6, RankStep
  <2>2. Len(told') = Rank(items, n + 1)'
    BY <1>1, <1>4, <2>1 DEF ToldOf
  <2>3. \A k \in 1 .. Len(told') : \E i \in 1 .. n + 1 :
            IsTold(items[i])' /\ Rank(items, i)' = k /\ told'[k] = items'[i]
    <3> SUFFICES ASSUME NEW k \in 1 .. Len(told')
                 PROVE  \E i \in 1 .. n + 1 :
                            IsTold(items[i])' /\ Rank(items, i)' = k /\ told'[k] = items'[i]
      OBVIOUS
    <3>1. PICK i \in 1 .. n :
              IsTold(items[i]) /\ Rank(items, i) = k /\ told[k] = items[i]
      BY <2>1 DEF ToldOf
    <3>2. Rank(items, i)' = Rank(items, i)
      BY <1>4
    <3>3. IsTold(items[i])' <=> IsTold(items[i])
      BY DEF IsTold
    <3>4. QED
      BY <2>1, <3>1, <3>2, <3>3
  <2>4. QED
    BY <2>2, <2>3 DEF ToldOf
<1>7. QED
  BY <1>5, <1>6
-----------------------------------------------------------------------------
(* The calendar of several years holds that of each of them.               *)
LEMMA SizeOfYear == PerYear \in Nat \ {0}
<1>1. Order \in Seq({USStocks, Elsewhere}) /\ Order # <<>>
  BY NumberAssumption
<1>2. QED
  BY <1>1, EmptySeq DEF PerYear

LEMMA NotBefore ==
    ASSUME NEW a \in Nat, NEW b \in Nat, NEW r \in 0 .. PerYear - 1, NEW s \in 0 .. PerYear - 1,
           PerYear * a + r = PerYear * b + s
    PROVE  ~(a < b)
<1>1. PerYear \in Nat \ {0}
  BY SizeOfYear
<1>2. ASSUME a < b
      PROVE  FALSE
  <2>1. PICK d \in Nat : b = a + 1 + d
    BY <1>2
  <2>2. /\ PerYear * b = PerYear * a + PerYear + PerYear * d
        /\ PerYear * d \in Nat /\ PerYear * a \in Nat
    BY ONLY <2>1, <1>1, a \in Nat, SMT
  <2>3. QED
    BY <1>1, <2>2
<1>3. QED
  BY <1>2

LEMMA Divide ==
    ASSUME NEW i \in Nat
    PROVE  /\ i \div PerYear \in Nat /\ i % PerYear \in 0 .. PerYear - 1
           /\ i = PerYear * (i \div PerYear) + (i % PerYear)
<1>1. PerYear \in Nat \ {0}
  BY SizeOfYear
<1>2. QED
  BY <1>1, SMT

LEMMA DivideOnce ==
    ASSUME NEW q \in Nat, NEW r \in 0 .. PerYear - 1
    PROVE  /\ PerYear * q + r \in Nat
           /\ (PerYear * q + r) \div PerYear = q /\ (PerYear * q + r) % PerYear = r
<1>1. PerYear \in Nat \ {0} /\ PerYear * q \in Nat
  BY SizeOfYear
<1>2. PICK i \in Nat : i = PerYear * q + r
  BY <1>1
<1>3. PICK a \in Nat, s \in 0 .. PerYear - 1 :
        i \div PerYear = a /\ i % PerYear = s /\ i = PerYear * a + s
  BY Divide
<1>4. PerYear * q + r = PerYear * a + s /\ PerYear * a + s = PerYear * q + r
  BY <1>2, <1>3
<1>5. ~(a < q) /\ ~(q < a)
  BY <1>4, NotBefore
<1>6. a = q
  BY <1>5
<1>7. s = r
  BY <1>1, <1>4, <1>6
<1>8. QED
  BY <1>2, <1>3, <1>6, <1>7

LEMMA Products ==
    ASSUME NEW n \in Nat, NEW q \in Nat
    PROVE  /\ PerYear * n \in Nat /\ PerYear * q \in Nat
           /\ q < n => PerYear * q + PerYear <= PerYear * n
           /\ n <= q => PerYear * n <= PerYear * q
<1>1. PerYear \in Nat \ {0}
  BY SizeOfYear
<1>2. ASSUME q < n PROVE PerYear * q + PerYear <= PerYear * n
  <2>1. PICK d \in Nat : n = q + 1 + d
    BY <1>2
  <2>2. /\ PerYear * n = PerYear * q + PerYear + PerYear * d
        /\ PerYear * d \in Nat /\ PerYear * q \in Nat
    BY ONLY <2>1, <1>1, q \in Nat, SMT
  <2>3. QED
    BY <1>1, <2>2
<1>3. ASSUME n <= q PROVE PerYear * n <= PerYear * q
  <2>1. PICK d \in Nat : q = n + d
    BY <1>3
  <2>2. PerYear * q = PerYear * n + PerYear * d /\ PerYear * d \in Nat /\ PerYear * n \in Nat
    BY ONLY <2>1, <1>1, n \in Nat, SMT
  <2>3. QED
    BY <2>2
<1>4. QED
  BY <1>1, <1>2, <1>3

LEMMA CalendarType ==
    ASSUME NEW from \in Int, NEW to \in Int, from <= to
    PROVE  Calendar(from, to) \in Seq(Holiday) /\ Len(Calendar(from, to)) = PerYear * (to - from + 1)
<1>1. PICK n \in Nat : n = to - from + 1
  OBVIOUS
<1>2. PerYear \in Nat \ {0} /\ PerYear * n \in Nat
  BY SizeOfYear, Products
<1>3. \A y \in Int, d \in 1 .. PerYear : HolidayOf(y, d) \in Holiday
  <2> SUFFICES ASSUME NEW y \in Int, NEW d \in 1 .. PerYear PROVE HolidayOf(y, d) \in Holiday
    OBVIOUS
  <2>1. Order[d] \in {USStocks, Elsewhere}
    BY NumberAssumption, ElementOfSeq DEF PerYear
  <2>2. QED
    BY <1>2, <2>1 DEF HolidayOf, Holiday
<1>4. \A i \in 1 .. PerYear * n : 
        from + ((i - 1) \div PerYear) \in Int /\ ((i - 1) % PerYear) + 1 \in 1 .. PerYear
  <2> SUFFICES ASSUME NEW i \in 1 .. PerYear * n
               PROVE  /\ from + ((i - 1) \div PerYear) \in Int
                      /\ ((i - 1) % PerYear) + 1 \in 1 .. PerYear
    OBVIOUS
  <2>1. (i - 1) \div PerYear \in Nat /\ (i - 1) % PerYear \in 0 .. PerYear - 1
    BY <1>2, Divide
  <2>2. QED
    BY <1>2, <2>1
<1>5. Calendar(from, to) \in [1 .. PerYear * n -> Holiday]
  BY <1>1, <1>3, <1>4 DEF Calendar
<1>6. Calendar(from, to) \in Seq(Holiday) /\ DOMAIN Calendar(from, to) = 1 .. PerYear * n
  BY <1>2, <1>5, SeqDef
<1>7. Len(Calendar(from, to)) = PerYear * n
  BY <1>2, <1>6, LenProperties
<1>8. QED
  BY <1>1, <1>6, <1>7

LEMMA CalendarAt ==
    ASSUME NEW from \in Int, NEW to \in Int, NEW q \in 0 .. to - from, NEW x \in 1 .. PerYear
    PROVE  /\ PerYear * q + x \in 1 .. PerYear * (to - from + 1)
           /\ Calendar(from, to)[PerYear * q + x] = HolidayOf(from + q, x)
<1>1. PICK n \in Nat : n = to - from + 1
  OBVIOUS
<1>2. PerYear \in Nat \ {0} /\ PerYear * q \in Nat /\ PerYear * n \in Nat
      /\ PerYear * q + PerYear <= PerYear * n
  BY <1>1, SizeOfYear, Products
<1>3. PICK i \in Nat : i = PerYear * q + x
  BY <1>2
<1>4. i \in 1 .. PerYear * n
  BY <1>2, <1>3
<1>5. (i - 1) \div PerYear = q /\ (i - 1) % PerYear = x - 1
  <2>1. x - 1 \in 0 .. PerYear - 1 /\ i - 1 = PerYear * q + (x - 1)
    BY <1>2, <1>3
  <2>2. QED
    BY <2>1, DivideOnce
<1>6. Calendar(from, to)[i] = HolidayOf(from + q, (x - 1) + 1)
  BY <1>1, <1>4, <1>5 DEF Calendar
<1>7. (x - 1) + 1 = x
  BY <1>2
<1>8. QED
  BY <1>1, <1>3, <1>4, <1>6, <1>7

LEMMA CalendarOf ==
    ASSUME NEW from \in Int, NEW to \in Int, from <= to, NEW i \in 1 .. PerYear * (to - from + 1)
    PROVE  \E q \in 0 .. to - from, x \in 1 .. PerYear :
              i = PerYear * q + x /\ Calendar(from, to)[i] = HolidayOf(from + q, x)
<1>1. PICK n \in Nat : n = to - from + 1
  OBVIOUS
<1>2. PerYear \in Nat \ {0} /\ PerYear * n \in Nat /\ i \in 1 .. PerYear * n
  BY <1>1, SizeOfYear, Products
<1>3. i - 1 \in Nat /\ i - 1 < PerYear * n
  BY <1>2
<1>4. PICK q \in Nat, r \in 0 .. PerYear - 1 : i - 1 = PerYear * q + r
  BY <1>3, Divide
<1>5. PerYear * q \in Nat /\ q < n
  <2>1. PerYear * q \in Nat /\ (n <= q => PerYear * n <= PerYear * q)
    BY Products
  <2>2. QED
    BY <1>2, <1>3, <1>4, <2>1
<1>6. q \in 0 .. to - from /\ r + 1 \in 1 .. PerYear /\ i = PerYear * q + (r + 1)
  BY <1>1, <1>2, <1>4, <1>5
<1>7. QED
  BY <1>6, CalendarAt

LEMMA Shifted ==
    ASSUME NEW n \in Nat, NEW k \in Nat, NEW S \in SUBSET (1 .. n)
    PROVE  Cardinality({k + j : j \in S}) = Cardinality(S)
<1> DEFINE T == {k + j : j \in S}
           f == [j \in S |-> k + j]
<1>1. IsFiniteSet(S)
  <2>1. IsFiniteSet(1 .. n)
    BY FS_Interval
  <2>2. QED
    BY <2>1, FS_Subset
<1>2. f \in Bijection(S, T)
  <2>1. f \in [S -> T]
    OBVIOUS
  <2>2. \A a, b \in S : f[a] = f[b] => a = b
    OBVIOUS
  <2>3. \A t \in T : \E j \in S : f[j] = t
    OBVIOUS
  <2>4. QED
    BY <2>1, <2>2, <2>3, Fun_IsBij
<1>3. ExistsBijection(S, T)
  BY <1>2 DEF ExistsBijection
<1>4. QED
  BY <1>1, <1>3, FS_Bijection

(* A listener that was told all of several years was told all of the year. *)
LEMMA AllOfTheYear ==
    ASSUME NEW from \in Int, NEW to \in Int, year \in Int, from <= year, year <= to,
           items = Calendar(from, to), told \in Seq(Holiday), ToldOf(Len(items))
    PROVE  told = Picked(Calendar(year, year))
<1> DEFINE c == Calendar(from, to)
           d == Calendar(year, year)
<1>1. PICK q \in 0 .. to - from : q = year - from
  OBVIOUS
<1>2. PICK k \in Nat : k = PerYear * q
  BY Products
<1>3. PerYear \in Nat \ {0} /\ PerYear * 0 = 0 /\ PerYear * (year - year + 1) = PerYear
  BY SizeOfYear
<1>4. /\ Len(c) = PerYear * (to - from + 1) /\ Len(c) \in Nat
      /\ Len(d) = PerYear /\ d \in Seq(Holiday)
  <2>1. from <= to /\ PerYear * (to - from + 1) \in Nat
    <3>1. to - from + 1 \in Nat
      OBVIOUS
    <3>2. QED
      BY <3>1, Products
  <2>2. c \in Seq(Holiday) /\ Len(c) = PerYear * (to - from + 1)
    BY <2>1, CalendarType
  <2>3. d \in Seq(Holiday) /\ Len(d) = PerYear * (year - year + 1)
    <3>1. year <= year
      OBVIOUS
    <3>2. QED
      BY <3>1, CalendarType
  <2>4. QED
    BY <1>3, <2>1, <2>2, <2>3
<1>5. \A x \in 1 .. PerYear : d[x] = HolidayOf(year, x)
  <2> SUFFICES ASSUME NEW x \in 1 .. PerYear PROVE d[x] = HolidayOf(year, x)
    OBVIOUS
  <2>1. 0 \in 0 .. year - year /\ year + 0 = year /\ PerYear * 0 + x = x
    BY <1>3
  <2>2. QED
    BY <2>1, CalendarAt
<1>6. \A x \in 1 .. PerYear : k + x \in 1 .. Len(c) /\ c[k + x] = d[x]
  <2> SUFFICES ASSUME NEW x \in 1 .. PerYear
               PROVE  k + x \in 1 .. Len(c) /\ c[k + x] = d[x]
    OBVIOUS
  <2>1. k + x \in 1 .. Len(c) /\ c[k + x] = HolidayOf(from + q, x)
    BY <1>2, <1>4, CalendarAt
  <2>2. from + q = year
    BY <1>1
  <2>3. QED
    BY <1>5, <2>1, <2>2
<1>7. \A i \in 1 .. Len(c) : IsTold(c[i]) => \E x \in 1 .. PerYear : i = k + x /\ c[i] = d[x]
  <2> SUFFICES ASSUME NEW i \in 1 .. Len(c), IsTold(c[i])
               PROVE  \E x \in 1 .. PerYear : i = k + x /\ c[i] = d[x]
    OBVIOUS
  <2>1. PICK p \in 0 .. to - from, x \in 1 .. PerYear :
            i = PerYear * p + x /\ c[i] = HolidayOf(from + p, x)
    <3>1. i \in 1 .. PerYear * (to - from + 1) /\ from <= to
      BY <1>4
    <3>2. QED
      BY <3>1, CalendarOf
  <2>2. from + p = year
    BY <2>1 DEF IsTold, HolidayOf
  <2>3. p = q
    BY <1>1, <2>2
  <2>4. QED
    BY <1>2, <1>6, <2>1, <2>3
<1> HIDE DEF c, d
<1>8. \A x \in 0 .. PerYear : ToldUpTo(c, k + x) = {k + j : j \in ToldUpTo(d, x)}
  <2> SUFFICES ASSUME NEW x \in 0 .. PerYear
               PROVE  ToldUpTo(c, k + x) = {k + j : j \in ToldUpTo(d, x)}
    OBVIOUS
  <2>1. k + x <= Len(c)
    <3>1. PerYear \in 1 .. PerYear
      BY <1>3
    <3>2. k + PerYear \in 1 .. Len(c)
      BY <1>6, <3>1
    <3>3. QED
      BY <1>3, <1>4, <3>2
  <2>2. ASSUME NEW i \in ToldUpTo(c, k + x) PROVE i \in {k + j : j \in ToldUpTo(d, x)}
    <3>1. i \in 1 .. Len(c) /\ i <= k + x /\ IsTold(c[i])
      BY <1>3, <1>4, <2>1 DEF ToldUpTo
    <3>2. PICK j \in 1 .. PerYear : i = k + j /\ c[i] = d[j]
      BY <1>7, <3>1
    <3>3. j \in ToldUpTo(d, x)
      BY <1>3, <3>1, <3>2 DEF ToldUpTo
    <3>4. QED
      BY <3>2, <3>3
  <2>3. ASSUME NEW j \in ToldUpTo(d, x) PROVE k + j \in ToldUpTo(c, k + x)
    <3>1. j \in 1 .. x /\ j \in 1 .. PerYear /\ IsTold(d[j])
      BY <1>3 DEF ToldUpTo
    <3>2. IsTold(c[k + j])
      BY <1>6, <3>1
    <3>3. QED
      BY <3>1, <3>2 DEF ToldUpTo
  <2>4. QED
    BY <2>2, <2>3
<1>9. \A x \in 0 .. PerYear : Rank(c, k + x) = Rank(d, x)
  <2> SUFFICES ASSUME NEW x \in 0 .. PerYear PROVE Rank(c, k + x) = Rank(d, x)
    OBVIOUS
  <2>1. ToldUpTo(d, x) \in SUBSET (1 .. x) /\ x \in Nat
    BY DEF ToldUpTo
  <2>2. Cardinality({k + j : j \in ToldUpTo(d, x)}) = Cardinality(ToldUpTo(d, x))
    BY <2>1, Shifted
  <2>3. QED
    BY <1>8, <2>2 DEF Rank, ToldUpTo
<1>10. Rank(c, Len(c)) = Rank(d, Len(d))
  <2>1. PerYear \in 0 .. PerYear /\ PerYear \in 1 .. PerYear
    BY <1>3
  <2>2. k + PerYear \in 1 .. Len(c)
    BY <1>6, <2>1
  <2>3. ToldUpTo(c, Len(c)) = ToldUpTo(c, k + PerYear)
    <3>1. \A i \in 1 .. Len(c) : IsTold(c[i]) => i \in 1 .. k + PerYear
      BY <1>3, <1>7
    <3>2. QED
      BY <1>4, <2>2, <3>1 DEF ToldUpTo
  <2>4. Rank(c, Len(c)) = Rank(c, k + PerYear)
    BY <2>3 DEF Rank, ToldUpTo
  <2>5. QED
    BY <1>4, <1>9, <2>1, <2>4
<1>11. PICK S : Picked(d) \in Seq(S) /\ Len(Picked(d)) = Rank(d, Len(d))
  BY <1>4, <1>3, PickedType
<1>12. items = c
  BY DEF c
<1>13. Len(told) = Len(Picked(d))
  BY <1>10, <1>11, <1>12 DEF ToldOf
<1>14. ASSUME NEW j \in 1 .. Len(told) PROVE told[j] = Picked(d)[j]
  <2>1. PICK i \in 1 .. Len(c) : IsTold(c[i]) /\ Rank(c, i) = j /\ told[j] = c[i]
    BY <1>12 DEF ToldOf
  <2>2. PICK x \in 1 .. PerYear : i = k + x /\ c[i] = d[x]
    BY <1>7, <2>1
  <2>3. Rank(d, x) = j
    BY <1>3, <1>9, <2>1, <2>2
  <2>4. Picked(d)[Rank(d, x)] = d[x]
    BY <1>3, <1>4, <2>1, <2>2, PickedAt
  <2>5. QED
    BY <2>1, <2>2, <2>3, <2>4
<1>15. told = Picked(d)
  BY <1>11, <1>13, <1>14, EqualSeqs
<1>16. QED
  BY <1>15 DEF d
-----------------------------------------------------------------------------
(* Where the call stands.                                                  *)
Requested ==
    /\ ~called => ~waiting /\ request = "undefined"
    /\ waiting => request = "undefined"
    /\ request = "sent" <=> server # "idle"
    /\ handled \subseteq {request} \ {"undefined"}

(* Before the answer begins there is nothing of it.                        *)
Fresh ==
    server \in {"idle", "open"} => items = <<>> /\ told = <<>> /\ ordinary = <<>> /\ posted = 0

(* Success and errors overtake.                                            *)
Overtaking == {m \in Messages : m.message \in {"error", "success"}}

State == TypeOK /\ Requested /\ Fresh /\ urgent \in Seq(Overtaking)

(* Holidays on their way to the client are a section of the answer.        *)
Received == posted - Len(ordinary)
Section ==
    /\ Received \in Nat
    /\ \A k \in 1 .. Len(ordinary) :
          ordinary[k] = Message("holiday", Received + k, Received + k = Len(items))

(* While nothing is lost, the listener has been told what comes before that*)
(* section, as long as the call listens, and everything, if it completed.  *)
Completed == "completed" \in {outcomes[i] : i \in DOMAIN outcomes}
Telling ==
    /\ "sent" \in handled /\ ~lost => \A n \in Nat : n = Received => ToldOf(n)
    /\ Completed =>
          /\ "sent" \notin handled /\ server \notin {"idle", "open"} /\ items # <<>>
          /\ ~lost => \A n \in Nat : n = Len(items) => ToldOf(n)

(* The answer is for the years that the request counts from its own.       *)
Counting ==
    /\ request # "undefined" =>
          /\ asked.back = GoingBack(year - asked.at)
          /\ asked.forward = GoingForward(year - asked.at)
    /\ items # <<>> => items = Calendar(answered - asked.back, answered + asked.forward)

Inv == State /\ Section /\ Telling /\ Counting

-----------------------------------------------------------------------------
(* The request.                                                            *)
LEMMA Going ==
    ASSUME NEW r \in Int
    PROVE  GoingBack(r) \in Nat /\ GoingForward(r) \in Nat
<1>1. Width \in Nat \ {0}
  BY NumberAssumption
<1>2. \A k \in Nat : k % Width \in Nat
  BY <1>1, SMT
<1>3. r < 0 => -r \in Nat
  OBVIOUS
<1>4. ~(r < 0) => r \in Nat
  OBVIOUS
<1>5. QED
  BY <1>2, <1>3, <1>4 DEF GoingBack, GoingForward

LEMMA Asks ==
    ASSUME State, request = "undefined", requestHolidays
    PROVE  /\ request' \in {"sent", "unsent"} /\ handled' = {request'} /\ server = "idle"
           /\ server' = IF request' = "sent" THEN "open" ELSE "idle"
           /\ asked' \in [back : Nat, forward : Nat, at : Int]
           /\ asked'.back = GoingBack(year - asked'.at)
           /\ asked'.forward = GoingForward(year - asked'.at)
<1>1. PICK key \in {"sent", "unsent"} :
        /\ request' = key /\ handled' = handled \cup {key}
        /\ asked' = [back |-> GoingBack(year - now), forward |-> GoingForward(year - now), at |-> now]
        /\ server' = IF key = "sent" THEN "open" ELSE server
  BY DEF requestHolidays, thisYear
<1>2. handled = {} /\ server = "idle" /\ now \in Int /\ year - now \in Int
  BY NumberAssumption DEF State, Requested, TypeOK
<1>3. GoingBack(year - now) \in Nat /\ GoingForward(year - now) \in Nat
  BY <1>2, Going
<1>4. QED
  BY <1>1, <1>2, <1>3

-----------------------------------------------------------------------------
(* What does not reach the listener and leaves the answer as it is keeps   *)
(* what is said of it.                                                     *)
LEMMA ToldKept ==
    ASSUME UNCHANGED <<told, items, year>>, NEW n, ToldOf(n)
    PROVE  ToldOf(n)'
<1>1. \A h : IsTold(h)' <=> IsTold(h)
  BY DEF IsTold
<1>2. \A i : Rank(items, i)' = Rank(items, i)
  BY <1>1 DEF Rank
<1>3. QED
  BY <1>1, <1>2 DEF ToldOf

LEMMA AnswerKept ==
    ASSUME Section, Telling, UNCHANGED <<ordinary, posted, told, items, year>>,
           Completed' => Completed, "sent" \in handled' => "sent" \in handled, ~lost' => ~lost,
           server \notin {"idle", "open"} => server' \notin {"idle", "open"}
    PROVE  Section' /\ Telling'
<1>1. Received' = Received /\ Received \in Nat
  BY DEF Received, Section
<1>2. Section'
  BY <1>1 DEF Section, Message
<1>3. ASSUME "sent" \in handled', ~lost', NEW n \in Nat, n = Received'
      PROVE  ToldOf(n)'
  BY <1>1, <1>3, ToldKept DEF Telling
<1>4. ASSUME Completed'
      PROVE  /\ "sent" \notin handled' /\ server' \notin {"idle", "open"} /\ items' # <<>>
             /\ ~lost' => \A n \in Nat : n = Len(items') => ToldOf(n)'
  BY <1>4, ToldKept DEF Telling
<1>5. QED
  BY <1>2, <1>3, <1>4 DEF Telling

LEMMA YearsKept ==
    ASSUME Counting, UNCHANGED <<request, asked, year, items, answered>>
    PROVE  Counting'
BY DEF Counting, GoingBack, GoingForward, Calendar, HolidayOf, PerYear
-----------------------------------------------------------------------------
(* The application, the login and the calendar year.                       *)
LEMMA Numbers ==
    /\ Years \subseteq Int /\ MaxCancels \in Nat /\ MaxLogouts \in Nat
    /\ FirstYear \in Int /\ Width \in Nat \ {0}
BY NumberAssumption

LEMMA AskKeeps ==
    ASSUME Inv, Call \/ LogIn
    PROVE  Inv'
<1>0. /\ State /\ Requested /\ Fresh /\ TypeOK
      /\ UNCHANGED <<now, year, items, answered, posted, timedOut, channel, listener, cancels, logouts>>
      /\ UNCHANGED <<urgent, ordinary, told, outcomes, lost>>
  BY DEF Inv, State, Call, LogIn, channel, listener, counters
<1>1. Completed' = Completed
  BY <1>0 DEF Completed
<1>2. CASE requestHolidays /\ (Call \/ waiting)
  <2>1. request = "undefined"
    BY <1>0, <1>2 DEF Requested, Call, LogIn
  <2>2. /\ request' \in {"sent", "unsent"} /\ handled' = {request'} /\ server = "idle"
        /\ server' = IF request' = "sent" THEN "open" ELSE "idle"
        /\ asked' \in [back : Nat, forward : Nat, at : Int]
        /\ asked'.back = GoingBack(year - asked'.at)
        /\ asked'.forward = GoingForward(year - asked'.at)
    BY <1>0, <1>2, <2>1, Asks
  <2>3. waiting' = FALSE /\ loggedIn' \in BOOLEAN /\ called' = TRUE
    <3>1. CASE Call
      BY <1>0, <2>1, <2>2, <3>1 DEF Call, Requested, TypeOK
    <3>2. CASE waiting /\ LogIn
      BY <1>0, <3>2 DEF LogIn, Requested, TypeOK, counters
    <3>3. QED
      BY <1>2, <3>1, <3>2
  <2>4. TypeOK'
    BY <1>0, <2>2, <2>3 DEF TypeOK
  <2>5. Requested' /\ Fresh'
    BY <1>0, <2>2, <2>3 DEF Requested, Fresh
  <2>6. State'
    BY <1>0, <2>4, <2>5 DEF State
  <2>7. items = <<>> /\ told = <<>> /\ ordinary = <<>> /\ posted = 0 /\ ~Completed
    BY <1>0, <2>2 DEF Fresh, Inv, Telling
  <2>8. Received = 0 /\ Received' = 0 /\ Section'
    <3>1. posted = 0 /\ posted' = 0
      BY <1>0, <2>7
    <3>2. Len(ordinary) = 0 /\ Len(ordinary') = 0
      BY <1>0, <2>7, EmptySeq
    <3>3. posted - Len(ordinary) = 0 /\ posted' - Len(ordinary') = 0
      BY <3>1, <3>2
    <3>4. Received = 0 /\ Received' = 0
      BY <3>3 DEF Received
    <3>5. QED
      BY <3>2, <3>4 DEF Section
  <2>9. Telling'
    <3>1. ToldOf(0)
      BY <2>7, EmptySeq, RankOfNone DEF ToldOf
    <3>2. ToldOf(0)'
      BY <1>0, <3>1, ToldKept
    <3>3. QED
      BY <1>1, <2>7, <2>8, <3>2 DEF Telling
  <2>10. Counting'
    <3>1. items' = <<>> /\ year' = year
      BY <1>0, <2>7
    <3>2. QED
      BY <2>2, <3>1 DEF Counting, GoingBack, GoingForward
  <2>11. QED
    BY <2>6, <2>8, <2>9, <2>10 DEF Inv
<1>3. CASE ~(requestHolidays /\ (Call \/ waiting))
  <2>1. UNCHANGED <<request, handled, asked, server>> /\ loggedIn' \in BOOLEAN /\ waiting' \in BOOLEAN
    BY <1>0, <1>3 DEF Call, LogIn, TypeOK
  <2>2. /\ called' \in BOOLEAN /\ (~called' => ~called)
        /\ (waiting' => waiting \/ (~called /\ called'))
        /\ (waiting' => called')
    BY <1>0 DEF Call, LogIn, Requested, TypeOK, counters
  <2>3. State'
    <3>1. TypeOK'
      BY <1>0, <2>1, <2>2 DEF TypeOK
    <3>2. Requested' /\ Fresh'
      BY <1>0, <2>1, <2>2 DEF Requested, Fresh
    <3>3. QED
      BY <1>0, <3>1, <3>2 DEF Inv, State
  <2>4. Section' /\ Telling'
    BY <1>0, <1>1, <2>1, AnswerKept DEF Inv
  <2>5. Counting'
    BY <1>0, <2>1, YearsKept DEF Inv
  <2>6. QED
    BY <2>3, <2>4, <2>5 DEF Inv
<1>4. QED
  BY <1>2, <1>3

LEMMA SideKeeps ==
    ASSUME Inv, NewYear \/ LogOut \/ Cancel \/ UNCHANGED vars
    PROVE  Inv'
<1>0. State /\ Requested /\ Fresh /\ TypeOK
  BY DEF Inv, State
<1>1. /\ UNCHANGED <<year, waiting, request, asked, called>>
      /\ UNCHANGED <<server, items, answered, posted, timedOut>>
      /\ UNCHANGED <<urgent, ordinary, told, outcomes, lost>>
      /\ handled' \in {handled, handled \ {request}}
  BY DEF NewYear, LogOut, Cancel, Forgotten, vars, client, api, channel, listener, counters
<1>2. /\ now' \in Int /\ loggedIn' \in BOOLEAN
      /\ cancels' \in 0 .. MaxCancels /\ logouts' \in 0 .. MaxLogouts
  <2>1. /\ now' \in {now, now + 1} /\ loggedIn' \in {loggedIn, FALSE}
        /\ cancels' = cancels \/ (cancels < MaxCancels /\ cancels' = cancels + 1)
        /\ logouts' = logouts \/ (logouts < MaxLogouts /\ logouts' = logouts + 1)
    BY DEF NewYear, LogOut, Cancel, vars, client, counters
  <2>2. now \in Int /\ loggedIn \in BOOLEAN /\ cancels \in 0 .. MaxCancels /\ logouts \in 0 .. MaxLogouts
    BY <1>0 DEF TypeOK
  <2>3. cancels' \in 0 .. MaxCancels
    BY <2>1, <2>2, Numbers
  <2>4. logouts' \in 0 .. MaxLogouts
    BY <2>1, <2>2, Numbers
  <2>5. loggedIn' \in BOOLEAN
    BY <2>1, <2>2, Zenon
  <2>6. now' \in Int
    BY <2>1, <2>2
  <2>7. QED
    BY <2>3, <2>4, <2>5, <2>6
<1>3. TypeOK'
  BY <1>0, <1>1, <1>2 DEF TypeOK
<1>4. Requested' /\ Fresh'
  BY <1>0, <1>1 DEF Requested, Fresh
<1>5. State'
  BY <1>0, <1>1, <1>3, <1>4 DEF State
<1>6. Section' /\ Telling'
  <2>1. Completed' = Completed
    BY <1>1 DEF Completed
  <2>2. QED
    BY <1>1, <2>1, AnswerKept DEF Inv
<1>7. Counting'
  BY <1>1, YearsKept DEF Inv
<1>8. QED
  BY <1>5, <1>6, <1>7 DEF Inv

-----------------------------------------------------------------------------
(* The API.                                                                *)
LEMMA OvertakingMessage ==
    \A n \in {"error", "success"} : Message(n, 0, n = "error") \in Overtaking
BY DEF Overtaking, Messages, Message

LEMMA UrgentTypes ==
    ASSUME State, NEW n \in {"error", "success"}, PostUrgent(n)
    PROVE  urgent' \in Seq(Messages) /\ urgent' \in Seq(Overtaking)
<1>1. urgent' \in Seq(Overtaking)
  BY OvertakingMessage, AppendProperties DEF State, PostUrgent
<1>2. Overtaking \subseteq Messages
  BY DEF Overtaking
<1>3. QED
  BY <1>1, <1>2, SeqMonotonic

LEMMA RespondKeeps ==
    ASSUME Inv, Respond \/ Race
    PROVE  Inv'
<1>0. /\ State /\ Requested /\ Fresh /\ TypeOK
      /\ UNCHANGED <<now, year, loggedIn, waiting, request, handled, asked, told, outcomes, lost>>
      /\ UNCHANGED <<called, cancels, logouts>>
  BY DEF Inv, State, Respond, Race, client, listener, counters
<1>1. Completed' = Completed
  BY <1>0 DEF Completed
<1>2. CASE Answer
  <2>1. /\ server = "open" /\ server' = "items" /\ answered' = now
        /\ items' = Calendar(now - asked.back, now + asked.forward)
        /\ UNCHANGED <<posted, timedOut, urgent, ordinary>>
    BY <1>2 DEF Answer, channel
  <2>2. items = <<>> /\ told = <<>> /\ ordinary = <<>> /\ posted = 0 /\ ~Completed
    BY <1>0, <2>1 DEF Fresh, Inv, Telling
  <2>3. items' \in Seq(Holiday) /\ Len(items') \in Nat
    <3>1. /\ now - asked.back \in Int /\ now + asked.forward \in Int
          /\ now - asked.back <= now + asked.forward
      BY <1>0 DEF TypeOK
    <3>2. items' \in Seq(Holiday)
      BY <2>1, <3>1, CalendarType
    <3>3. QED
      BY <3>2, LenProperties
  <2>4. State'
    <3>1. TypeOK'
      BY <1>0, <2>1, <2>2, <2>3 DEF TypeOK
    <3>2. Requested' /\ Fresh'
      BY <1>0, <2>1 DEF Requested, Fresh
    <3>3. QED
      BY <1>0, <2>1, <3>1, <3>2 DEF State
  <2>5. Received' = 0 /\ Section'
    <3>1. posted' = 0
      BY <2>1, <2>2
    <3>2. Len(ordinary') = 0
      BY <2>1, <2>2, EmptySeq
    <3>3. posted' - Len(ordinary') = 0
      BY <3>1, <3>2
    <3>4. Received' = 0
      BY <3>3 DEF Received
    <3>5. QED
      BY <3>2, <3>4 DEF Section
  <2>6. Telling'
    <3>1. Len(told') = 0
      BY <1>0, <2>2, EmptySeq
    <3>2. ToldOf(0)'
      <4>1. Rank(items, 0)' = 0
        BY FS_EmptySet DEF Rank
      <4>2. QED
        BY <3>1, <4>1 DEF ToldOf
    <3>3. QED
      BY <1>1, <2>2, <2>5, <3>2 DEF Telling
  <2>7. Counting'
    BY <1>0, <2>1 DEF Inv, Counting, GoingBack, GoingForward, Calendar, HolidayOf, PerYear
  <2>8. QED
    BY <2>4, <2>5, <2>6, <2>7 DEF Inv
<1>3. CASE PostHoliday
  <2>1. /\ server = "items" /\ server' = "items" /\ posted < Len(items) /\ posted' = posted + 1
        /\ ordinary' = Append(ordinary, Message("holiday", posted + 1, posted + 1 = Len(items)))
        /\ UNCHANGED <<items, answered, timedOut, urgent>>
    BY <1>3 DEF PostHoliday, IsLast
  <2> DEFINE m == Message("holiday", posted + 1, posted + 1 = Len(items))
  <2>2. posted \in Nat /\ Len(items) \in Nat /\ Len(ordinary) \in Nat
    BY <1>0, LenProperties DEF TypeOK
  <2>3. m \in Messages
    BY <2>2 DEF Message, Messages
  <2> HIDE DEF m
  <2>4. /\ ordinary' = Append(ordinary, m)
        /\ ordinary' \in Seq(Messages) /\ Len(ordinary') = Len(ordinary) + 1
        /\ \A k \in 1 .. Len(ordinary) : ordinary'[k] = ordinary[k]
        /\ ordinary'[Len(ordinary) + 1] = m
    BY <1>0, <2>1, <2>3, Appended DEF TypeOK, m
  <2>5. State'
    <3>1. TypeOK'
      BY <1>0, <2>1, <2>2, <2>4 DEF TypeOK
    <3>2. Requested' /\ Fresh'
      BY <1>0, <2>1 DEF Requested, Fresh
    <3>3. QED
      BY <1>0, <2>1, <3>1, <3>2 DEF State
  <2>6. Received' = Received /\ Received \in Nat
    BY <2>1, <2>2, <2>4 DEF Received, Inv, Section
  <2>7. Section'
    <3>1. ASSUME NEW k \in 1 .. Len(ordinary')
          PROVE  ordinary'[k] = Message("holiday", Received + k, Received + k = Len(items))
      <4>1. CASE k \in 1 .. Len(ordinary)
        BY <2>4, <4>1 DEF Inv, Section
      <4>2. CASE k = Len(ordinary) + 1
        <5>1. Received + k = posted + 1
          BY <2>2, <4>2 DEF Received
        <5>2. QED
          BY <2>4, <4>2, <5>1 DEF m
      <4>3. QED
        BY <2>2, <2>4, <4>1, <4>2
    <3>2. QED
      BY <2>1, <2>6, <3>1 DEF Section, Message
  <2>8. Telling'
    <3>1. ASSUME "sent" \in handled', ~lost', NEW n \in Nat, n = Received' PROVE ToldOf(n)'
      BY <1>0, <2>1, <2>6, <3>1, ToldKept DEF Inv, Telling
    <3>2. ASSUME Completed', ~lost', NEW n \in Nat, n = Len(items') PROVE ToldOf(n)'
      BY <1>0, <1>1, <2>1, <3>2, ToldKept DEF Inv, Telling
    <3>3. QED
      BY <1>0, <1>1, <2>1, <3>1, <3>2 DEF Inv, Telling
  <2>9. Counting'
    BY <1>0, <2>1, YearsKept DEF Inv
  <2>10. QED
    BY <2>5, <2>7, <2>8, <2>9 DEF Inv
<1>4. CASE PostSuccess \/ PostFailure \/ RacingTimeout
  <2>1. PICK n \in {"error", "success"} : PostUrgent(n)
    BY <1>4 DEF PostSuccess, PostFailure, RacingTimeout
  <2>2. /\ server # "idle" /\ server' \in {server, "done"} /\ timedOut' \in {timedOut, TRUE}
        /\ UNCHANGED <<items, answered, posted, ordinary>>
    BY <1>4, <2>1 DEF PostSuccess, PostFailure, RacingTimeout, PostUrgent
  <2>3. State'
    <3>1. TypeOK'
      BY <1>0, <2>1, <2>2, UrgentTypes DEF TypeOK
    <3>2. Requested' /\ Fresh'
      BY <1>0, <2>2 DEF Requested, Fresh
    <3>3. QED
      BY <1>0, <2>1, <3>1, <3>2, UrgentTypes DEF State
  <2>4. Section' /\ Telling'
    BY <1>0, <1>1, <2>2, AnswerKept DEF Inv
  <2>5. Counting'
    BY <1>0, <2>2, YearsKept DEF Inv
  <2>6. QED
    BY <2>3, <2>4, <2>5 DEF Inv
<1>5. QED
  BY <1>2, <1>3, <1>4 DEF Respond, Race
LEMMA EscapeKeeps ==
    ASSUME Inv, Escape
    PROVE  Inv'
<1>1. /\ State /\ Requested /\ Fresh /\ TypeOK
      /\ UNCHANGED <<now, year, loggedIn, waiting, request, handled, asked, told, outcomes>>
      /\ UNCHANGED <<items, answered, posted, timedOut, urgent, ordinary, called, cancels, logouts>>
      /\ server # "idle" /\ server' = "done" /\ lost' = TRUE
  BY DEF Inv, State, Escape, client, channel, listener, counters
<1>2. Completed' = Completed
  BY <1>1 DEF Completed
<1>3. TypeOK' /\ Requested' /\ Fresh'
  BY <1>1 DEF TypeOK, Requested, Fresh
<1>4. Section' /\ Telling'
  BY <1>1, <1>2, AnswerKept DEF Inv
<1>5. Counting'
  BY <1>1, YearsKept DEF Inv
<1>6. QED
  BY <1>1, <1>3, <1>4, <1>5 DEF Inv, State

(* A beginning of the section is lost.                                     *)
LEMMA LossDoes ==
    ASSUME State, Section, LoseTheRest
    PROVE  /\ urgent' \in Seq(Messages) /\ urgent' \in Seq(Overtaking)
           /\ ordinary' \in Seq(Messages)
           /\ Section' /\ Received' \in Received .. Len(items)
           /\ server \in {"idle", "open"} => ordinary' = <<>>
<1>1. PICK rest \in RestOfTheCall :
         /\ urgent' = SubSeq(urgent, rest[1] + 1, Len(urgent))
         /\ ordinary' = SubSeq(ordinary, rest[2] + 1, Len(ordinary))
  BY DEF LoseTheRest
<1>2. rest[1] \in 0 .. Len(urgent) /\ rest[2] \in 0 .. Len(ordinary)
  BY DEF RestOfTheCall
<1>3. PICK k \in 0 .. Len(ordinary) : ordinary' = SubSeq(ordinary, k + 1, Len(ordinary))
  BY <1>1, <1>2
<1>4. urgent' \in Seq(Messages) /\ urgent' \in Seq(Overtaking)
  BY <1>1, <1>2, Dropped DEF State, TypeOK
<1>5. /\ ordinary' \in Seq(Messages) /\ Len(ordinary) \in Nat
      /\ Len(ordinary') = Len(ordinary) - k
      /\ \A i \in 1 .. Len(ordinary') : k + i \in 1 .. Len(ordinary) /\ ordinary'[i] = ordinary[k + i]
  BY <1>3, Dropped, LenProperties DEF State, TypeOK
<1>6. /\ UNCHANGED <<server, items, posted>> /\ Len(items) \in Nat
      /\ posted \in Nat /\ posted <= Len(items) /\ Received \in Nat
  <2>1. Len(items) \in Nat
    BY LenProperties DEF State, TypeOK
  <2>2. QED
    BY <2>1 DEF LoseTheRest, api, State, TypeOK, Section
<1>7. Received' = Received + k /\ Received' \in Nat /\ Received' <= posted
  BY <1>5, <1>6 DEF Received
<1>8. ASSUME NEW i \in 1 .. Len(ordinary')
      PROVE  ordinary'[i] = Message("holiday", Received' + i, Received' + i = Len(items))
  <2>1. ordinary[k + i] = Message("holiday", Received + (k + i), Received + (k + i) = Len(items))
    BY <1>5 DEF Section
  <2>2. Received + (k + i) = Received' + i
    BY <1>5, <1>6, <1>7
  <2>3. QED
    BY <1>5, <2>1, <2>2
<1>9. Section'
  BY <1>6, <1>7, <1>8 DEF Section, Message
<1>10. server \in {"idle", "open"} => ordinary' = <<>>
  <2>1. server \in {"idle", "open"} => Len(ordinary') = 0
    BY <1>5, EmptySeq DEF State, Fresh
  <2>2. QED
    BY <1>5, <2>1, EmptySeq
<1>11. QED
  BY <1>4, <1>5, <1>6, <1>7, <1>9, <1>10

LEMMA LossKeeps ==
    ASSUME Inv, LoseTheRest
    PROVE  Inv'
<1>1. /\ State /\ Requested /\ Fresh /\ TypeOK /\ Section /\ Telling
      /\ UNCHANGED <<now, year, loggedIn, waiting, request, handled, asked, told, outcomes>>
      /\ UNCHANGED <<server, items, answered, posted, timedOut, called, cancels, logouts>>
      /\ lost' = TRUE
  BY DEF Inv, State, LoseTheRest, client, api, listener, counters
<1>2. /\ urgent' \in Seq(Messages) /\ urgent' \in Seq(Overtaking)
      /\ ordinary' \in Seq(Messages) /\ Section'
      /\ server \in {"idle", "open"} => ordinary' = <<>>
  BY <1>1, LossDoes
<1>3. TypeOK' /\ Requested' /\ Fresh'
  BY <1>1, <1>2 DEF TypeOK, Requested, Fresh
<1>4. Telling'
  BY <1>1 DEF Telling, Completed
<1>5. Counting'
  BY <1>1, YearsKept DEF Inv
<1>6. QED
  BY <1>2, <1>3, <1>4, <1>5 DEF Inv, State

-----------------------------------------------------------------------------
(* What the message at the head of either queue may do.                    *)
Ignored == UNCHANGED <<handled, told, outcomes>>
Concluded(outcome) ==
    /\ "sent" \in handled /\ handled' = handled \ {"sent"}
    /\ outcomes' = Append(outcomes, outcome)
Failed == Concluded("error") /\ told' = told
Holds(n) ==
    /\ "sent" \in handled
    /\ told' = IF IsTold(items[n]) THEN Append(told, items[n]) ELSE told
    /\ IF n = Len(items) THEN Concluded("completed") ELSE UNCHANGED <<handled, outcomes>>

LEMMA UrgentDoes ==
    ASSUME State, ReceiveUrgent
    PROVE  /\ Ignored \/ Failed
           /\ urgent' \in Seq(Overtaking) /\ urgent' \in Seq(Messages)
<1> DEFINE m == Head(urgent)
<1>1. m \in Overtaking /\ Receive(m) /\ urgent' \in Seq(Overtaking)
  BY HeadAndTail DEF ReceiveUrgent, State
<1>2. urgent' \in Seq(Messages)
  BY HeadAndTail DEF ReceiveUrgent, State, TypeOK
<1> HIDE DEF m
<1>3. Ignored \/ Failed
  BY <1>1 DEF Overtaking, Receive, dispatch, Conclude, listener, Ignored, Failed, Concluded
<1>4. QED
  BY <1>1, <1>2, <1>3

LEMMA OrdinaryDoes ==
    ASSUME State, Section, ReceiveOrdinary
    PROVE  /\ Received + 1 \in 1 .. Len(items) /\ Len(items) \in Nat
           /\ IF "sent" \in handled THEN Holds(Received + 1) ELSE Ignored
           /\ Received' = Received + 1 /\ Section'
           /\ ordinary' \in Seq(Messages) /\ server \notin {"idle", "open"}
<1> DEFINE m == Head(ordinary)
           n == Received
<1>1. /\ m = ordinary[1] /\ Receive(m) /\ ordinary' = Tail(ordinary) /\ ordinary # <<>>
      /\ ordinary' \in Seq(Messages)
      /\ Len(ordinary) \in Nat /\ Len(ordinary) > 0 /\ Len(ordinary') = Len(ordinary) - 1
      /\ \A i \in 1 .. Len(ordinary') : i + 1 \in 1 .. Len(ordinary) /\ ordinary'[i] = ordinary[i + 1]
  BY HeadAndTail DEF ReceiveOrdinary, State, TypeOK
<1>2. m = Message("holiday", n + 1, n + 1 = Len(items))
  BY <1>1 DEF Section
<1>3. /\ UNCHANGED <<items, posted, server>> /\ posted \in Nat /\ Len(items) \in Nat
      /\ posted <= Len(items) /\ n \in Nat
  <2>1. UNCHANGED <<items, posted, server>>
    BY <1>1 DEF Receive, api
  <2>2. Len(items) \in Nat
    BY LenProperties DEF State, TypeOK
  <2>3. QED
    BY <2>1, <2>2 DEF State, TypeOK, Section
<1>4. n + 1 \in 1 .. Len(items) /\ Received' = n + 1
  BY <1>1, <1>3 DEF Received
<1>5. server \notin {"idle", "open"}
  BY <1>1 DEF State, Fresh
<1>6. IF "sent" \in handled THEN Holds(n + 1) ELSE Ignored
  <2> HIDE DEF m, n
  <2>1. m.message = "holiday" /\ m.item = n + 1 /\ m.end = (n + 1 = Len(items))
    BY <1>2 DEF Message
  <2>2. QED
    BY <1>1, <2>1 DEF Receive, dispatch, Conclude, listener, Ignored, Holds, Concluded
<1>7. Section'
  <2>1. ASSUME NEW k \in 1 .. Len(ordinary')
        PROVE  ordinary'[k] = Message("holiday", (n + 1) + k, (n + 1) + k = Len(items))
    <3>1. ordinary[k + 1] = Message("holiday", n + (k + 1), n + (k + 1) = Len(items))
      BY <1>1 DEF Section
    <3>2. n + (k + 1) = (n + 1) + k
      BY <1>1, <1>3
    <3>3. QED
      BY <1>1, <3>1, <3>2
  <2>2. QED
    BY <1>3, <1>4, <2>1 DEF Section, Message
<1>8. QED
  BY <1>1, <1>3, <1>4, <1>5, <1>6, <1>7

LEMMA OutcomeAdded ==
    ASSUME outcomes \in Seq({"completed", "error"}), NEW e \in {"completed", "error"},
           outcomes' = Append(outcomes, e)
    PROVE  outcomes' \in Seq({"completed", "error"}) /\ (Completed' => Completed \/ e = "completed")
<1>1. /\ outcomes' \in Seq({"completed", "error"})
      /\ Len(outcomes) \in Nat /\ Len(outcomes') = Len(outcomes) + 1
      /\ \A i \in 1 .. Len(outcomes) : outcomes'[i] = outcomes[i]
      /\ outcomes'[Len(outcomes) + 1] = e
  BY Appended
<1>2. DOMAIN outcomes = 1 .. Len(outcomes) /\ DOMAIN outcomes' = 1 .. Len(outcomes) + 1
  BY <1>1, LenProperties
<1>3. \A i \in DOMAIN outcomes' : i \in DOMAIN outcomes \/ i = Len(outcomes) + 1
  BY <1>1, <1>2
<1>4. QED
  BY <1>1, <1>2, <1>3 DEF Completed

LEMMA UrgentKeeps ==
    ASSUME Inv, ReceiveUrgent
    PROVE  Inv'
<1>0. /\ State /\ Requested /\ Fresh /\ TypeOK
      /\ UNCHANGED <<now, year, loggedIn, waiting, request, asked, ordinary>>
      /\ UNCHANGED <<server, items, answered, posted, timedOut, lost, called, cancels, logouts>>
  BY DEF Inv, State, ReceiveUrgent, Receive, api, counters
<1>1. /\ Ignored \/ Failed
      /\ urgent' \in Seq(Overtaking) /\ urgent' \in Seq(Messages)
  BY <1>0, UrgentDoes
<1>2. /\ handled' \subseteq handled /\ told' = told
      /\ outcomes' \in Seq({"completed", "error"}) /\ (Completed' => Completed)
  <2>1. CASE Ignored
    BY <1>0, <2>1 DEF Ignored, Completed, TypeOK
  <2>2. CASE Failed
    BY <1>0, <2>2, OutcomeAdded DEF Failed, Concluded, TypeOK
  <2>3. QED
    BY <1>1, <2>1, <2>2
<1>3. State'
  <2>1. TypeOK'
    BY <1>0, <1>1, <1>2 DEF TypeOK
  <2>2. Requested' /\ Fresh'
    BY <1>0, <1>2 DEF Requested, Fresh
  <2>3. QED
    BY <1>1, <2>1, <2>2 DEF State
<1>4. Section' /\ Telling'
  BY <1>0, <1>2, AnswerKept DEF Inv
<1>5. Counting'
  BY <1>0, YearsKept DEF Inv
<1>6. QED
  BY <1>3, <1>4, <1>5 DEF Inv

LEMMA OrdinaryKeeps ==
    ASSUME Inv, ReceiveOrdinary
    PROVE  Inv'
<1>0. /\ State /\ Requested /\ Fresh /\ TypeOK /\ Section /\ Telling
      /\ UNCHANGED <<now, year, loggedIn, waiting, request, asked, urgent>>
      /\ UNCHANGED <<server, items, answered, posted, timedOut, lost, called, cancels, logouts>>
  BY DEF Inv, State, ReceiveOrdinary, Receive, api, counters
<1>n. PICK n \in Nat : n = Received
  BY <1>0 DEF Section
<1>1. /\ n + 1 \in 1 .. Len(items) /\ Len(items) \in Nat
      /\ IF "sent" \in handled THEN Holds(n + 1) ELSE Ignored
      /\ Received' = n + 1 /\ Section'
      /\ ordinary' \in Seq(Messages) /\ server \notin {"idle", "open"}
  BY <1>0, <1>n, OrdinaryDoes
<1>2. CASE "sent" \notin handled
  <2>1. UNCHANGED <<handled, told, outcomes>> /\ Completed' = Completed
    BY <1>1, <1>2 DEF Ignored, Completed
  <2>2. TypeOK' /\ Requested' /\ Fresh'
    BY <1>0, <1>1, <2>1 DEF TypeOK, Requested, Fresh
  <2>3. Telling'
    BY <1>0, <1>2, <2>1, ToldKept DEF Telling
  <2>4. Counting'
    BY <1>0, YearsKept DEF Inv
  <2>5. QED
    BY <1>0, <1>1, <2>2, <2>3, <2>4 DEF Inv, State
<1>3. CASE "sent" \in handled
  <2>1. Holds(n + 1) /\ (~lost => ToldOf(n)) /\ ~Completed
    BY <1>0, <1>n, <1>1, <1>3 DEF Telling
  <2>2. told \in Seq(Holiday) /\ items \in Seq(Holiday) /\ outcomes \in Seq({"completed", "error"})
    BY <1>0 DEF TypeOK
  <2>3. told' = IF IsTold(items[n + 1]) THEN Append(told, items[n + 1]) ELSE told
    BY <2>1 DEF Holds
  <2>4. ~lost => ToldOf(n + 1)'
    <3>1. n < Len(items)
      BY <1>1
    <3>2. QED
      BY <1>0, <1>1, <2>1, <2>2, <2>3, <3>1, ToldNext
  <2>5. told' \in Seq(Holiday)
    BY <1>1, <2>2, <2>3, ElementOfSeq, Appended
  <2>6. CASE n + 1 = Len(items)
    <3>1. handled' = handled \ {"sent"} /\ outcomes' = Append(outcomes, "completed")
      BY <2>1, <2>6 DEF Holds, Concluded
    <3>2. outcomes' \in Seq({"completed", "error"})
      BY <2>2, <3>1, OutcomeAdded
    <3>3. TypeOK' /\ Requested' /\ Fresh'
      BY <1>0, <1>1, <2>5, <3>1, <3>2 DEF TypeOK, Requested, Fresh
    <3>4. items' # <<>>
      BY <1>0, <1>1, EmptySeq
    <3>5. ~lost' => \A k \in Nat : k = Len(items') => ToldOf(k)'
      BY <1>0, <2>4, <2>6
    <3>6. Telling'
      BY <1>0, <1>1, <3>1, <3>4, <3>5 DEF Telling
    <3>7. Counting'
      BY <1>0, YearsKept DEF Inv
    <3>8. QED
      BY <1>0, <1>1, <3>3, <3>6, <3>7 DEF Inv, State
  <2>7. CASE n + 1 # Len(items)
    <3>1. UNCHANGED <<handled, outcomes>> /\ ~Completed'
      BY <2>1, <2>7 DEF Holds, Completed
    <3>2. TypeOK' /\ Requested' /\ Fresh'
      BY <1>0, <1>1, <2>5, <3>1 DEF TypeOK, Requested, Fresh
    <3>3. Telling'
      BY <1>0, <1>1, <2>4, <3>1 DEF Telling
    <3>4. Counting'
      BY <1>0, YearsKept DEF Inv
    <3>5. QED
      BY <1>0, <1>1, <3>2, <3>3, <3>4 DEF Inv, State
  <2>8. QED
    BY <2>6, <2>7
<1>4. QED
  BY <1>2, <1>3
LEMMA InitInv == Init => Inv
<1> SUFFICES ASSUME Init PROVE Inv
  OBVIOUS
<1>1. /\ items = <<>> /\ told = <<>> /\ ordinary = <<>> /\ urgent = <<>> /\ outcomes = <<>>
      /\ posted = 0 /\ handled = {} /\ request = "undefined" /\ server = "idle"
      /\ asked = NotAsked
  BY DEF Init
<1>2. TypeOK
  <2>1. /\ items \in Seq(Holiday) /\ Len(items) = 0 /\ told \in Seq(Holiday)
        /\ urgent \in Seq(Messages) /\ ordinary \in Seq(Messages)
        /\ outcomes \in Seq({"completed", "error"})
    BY <1>1, EmptySeq
  <2>2. asked \in [back : Nat, forward : Nat, at : Int]
    BY <1>1 DEF NotAsked
  <2>3. cancels \in 0 .. MaxCancels /\ logouts \in 0 .. MaxLogouts /\ posted \in 0 .. Len(items)
    BY <1>1, <2>1, Numbers DEF Init
  <2>4. QED
    BY <1>1, <2>1, <2>2, <2>3, Numbers DEF Init, TypeOK
<1>3. State
  BY <1>1, <1>2, EmptySeq DEF Init, State, Requested, Fresh
<1>4. Section
  <2>1. Len(ordinary) = 0
    BY <1>1, EmptySeq
  <2>2. posted - Len(ordinary) = 0
    <3>1. posted = 0
      BY <1>1
    <3>2. QED
      BY <2>1, <3>1
  <2>3. QED
    BY <2>1, <2>2 DEF Section, Received
<1>5. ~Completed
  <2>1. DOMAIN outcomes = {}
    BY <1>1
  <2>2. QED
    BY <2>1 DEF Completed
<1>6. Telling /\ Counting
  BY <1>1, <1>5 DEF Telling, Counting
<1>7. QED
  BY <1>3, <1>4, <1>6 DEF Inv

LEMMA NextInv == Inv /\ [Next]_vars => Inv'
BY AskKeeps, SideKeeps, RespondKeeps, EscapeKeeps, UrgentKeeps, OrdinaryKeeps, LossKeeps DEF Next

-----------------------------------------------------------------------------
(* When the request of the year reached the server in the year from which  *)
(* it counts, and the number of years is one of a uint8_t, the answer is   *)
(* for years among which the year is.                                      *)
LEMMA YearsOfAnswer ==
    ASSUME Inv, Distance < Width, asked.at = answered, request # "undefined"
    PROVE  /\ answered - asked.back \in Int /\ answered + asked.forward \in Int
           /\ year \in Int
           /\ answered - asked.back <= year /\ year <= answered + asked.forward
<1>1. /\ year \in Int /\ answered \in Int /\ Width \in Nat \ {0}
      /\ asked.back \in Nat /\ asked.forward \in Nat
  BY Numbers DEF Inv, State, TypeOK
<1>2. /\ asked.back = GoingBack(year - answered)
      /\ asked.forward = GoingForward(year - answered)
  BY DEF Inv, Counting
<1>3. \A k \in Nat : k < Width => k % Width = k
  BY <1>1, SMT
<1>4. CASE year < answered
  <2>1. answered - year \in Nat /\ answered - year < Width /\ -(year - answered) = answered - year
    BY <1>1, <1>4 DEF Distance
  <2>2. asked.back = answered - year /\ asked.forward = 0
    BY <1>1, <1>2, <1>3, <1>4, <2>1 DEF GoingBack, GoingForward
  <2>3. QED
    BY <1>1, <1>4, <2>2
<1>5. CASE ~(year < answered)
  <2>1. year - answered \in Nat /\ year - answered < Width
    BY <1>1, <1>5 DEF Distance
  <2>2. asked.back = 0 /\ asked.forward = year - answered
    BY <1>1, <1>2, <1>3, <1>5, <2>1 DEF GoingBack, GoingForward
  <2>3. QED
    BY <1>1, <1>5, <2>2
<1>6. QED
  BY <1>4, <1>5

(* "completed" means that the listener of holidays() was told all holidays *)
(* of the year it asked for, if no message was lost, the distance of the   *)
(* year fits the 8 bits that go to the server and no New Year came between *)
(* request and answer.                                                     *)
THEOREM YearIsWhole == Spec => []WholeYear
<1>1. Inv => WholeYear
  <2> SUFFICES ASSUME Inv, Completed, ~lost, Distance < Width, asked.at = answered
               PROVE  told = Picked(Calendar(year, year))
    BY DEF WholeYear, Completed
  <2>1. /\ items # <<>> /\ server # "idle" /\ Len(items) \in Nat /\ ToldOf(Len(items))
        /\ told \in Seq(Holiday)
    BY LenProperties DEF Inv, State, TypeOK, Telling
  <2>2. request # "undefined"
    BY <2>1 DEF Inv, State, Requested
  <2>3. items = Calendar(answered - asked.back, answered + asked.forward)
    BY <2>1 DEF Inv, Counting
  <2>4. QED
    BY <2>1, <2>2, <2>3, YearsOfAnswer, AllOfTheYear
<1>2. QED
  BY <1>1, InitInv, NextInv, PTL DEF Spec

-----------------------------------------------------------------------------
(* Every step is one of HistoryCall or changes nothing that it sees.       *)
LEMMA PickedKept ==
    ASSUME UNCHANGED <<items, year>>
    PROVE  Picked(items)' = Picked(items)
BY DEF Picked, Rank, IsTold

LEMMA PassedKept ==
    ASSUME UNCHANGED <<items, year, posted, ordinary>>
    PROVE  Passed' = Passed
BY DEF Passed, Rank, IsTold

(* How many of the holidays to be told are behind the first n.             *)
LEMMA PassedIs ==
    ASSUME Inv, NEW n \in Nat, n = Received
    PROVE  /\ Passed = Rank(items, n) /\ Len(Picked(items)) = Rank(items, Len(items))
           /\ Len(items) \in Nat /\ n <= Len(items)
           /\ Passed \in Nat /\ Len(Picked(items)) \in Nat /\ Passed <= Len(Picked(items))
<1>1. Len(items) \in Nat /\ Len(ordinary) \in Nat /\ posted \in Nat /\ posted <= Len(items)
  <2>1. Len(items) \in Nat /\ Len(ordinary) \in Nat
    BY LenProperties DEF Inv, State, TypeOK
  <2>2. QED
    BY <2>1 DEF Inv, State, TypeOK
<1>2. n <= Len(items)
  BY <1>1 DEF Received
<1>3. Passed = Rank(items, n)
  BY DEF Passed, Received
<1>4. Len(Picked(items)) = Rank(items, Len(items))
  BY <1>1, PickedType
<1>5. QED
  BY <1>1, <1>2, <1>3, <1>4, RankGrows, Counted

LEMMA PassedNext ==
    ASSUME UNCHANGED <<items, year>>, NEW n \in Nat, n = Received'
    PROVE  Passed' = Rank(items, n)
<1>1. posted' - Len(ordinary') = n
  BY DEF Received
<1>2. \A h : IsTold(h)' <=> IsTold(h)
  BY DEF IsTold
<1>3. QED
  BY <1>1, <1>2 DEF Passed, Rank

LEMMA ListeningMeans ==
    /\ Listening <=> waiting \/ handled # {}
    /\ Listening' <=> waiting' \/ handled' # {}
    /\ Listening \in BOOLEAN /\ Listening' \in BOOLEAN
BY DEF Listening

LEMMA AskIsAbstract ==
    ASSUME Inv, Call \/ LogIn
    PROVE  [Abstract!Next]_Abstract!vars
<1>0. State /\ Requested
  BY DEF Inv, State
<1>1. /\ UNCHANGED <<told, lost, outcomes, cancels>>
      /\ Picked(items)' = Picked(items) /\ Passed' = Passed
  BY PickedKept, PassedKept DEF Call, LogIn, channel, counters, listener
<1>2. CASE requestHolidays /\ (Call \/ waiting)
  <2>1. request = "undefined" /\ handled = {}
    BY <1>0, <1>2 DEF Requested, Call, LogIn
  <2>2. request' \in {"sent", "unsent"} /\ handled' = {request'}
    BY <1>0, <1>2, <2>1, Asks
  <2>3. Listening' = TRUE /\ request' # "undefined"
    BY <2>2, ListeningMeans
  <2>4. CASE Call
    <3>1. ~Listening
      BY <1>0, <2>1, <2>4, ListeningMeans DEF Call, Requested
    <3>2. Abstract!Call
      BY <1>1, <2>1, <2>3, <3>1 DEF Abstract!Call
    <3>3. QED
      BY <3>2 DEF Abstract!Next
  <2>5. CASE waiting /\ LogIn
    <3>1. Listening = TRUE
      BY <2>5, ListeningMeans
    <3>2. Abstract!Ask
      BY <1>1, <2>1, <2>3, <3>1 DEF Abstract!Ask
    <3>3. QED
      BY <3>2 DEF Abstract!Next
  <2>6. QED
    BY <1>2, <2>4, <2>5
<1>3. CASE Call /\ ~requestHolidays
  <2>1. ~Listening /\ request = "undefined"
    BY <1>0, <1>3, ListeningMeans DEF Call, Requested
  <2>2. Listening' = TRUE /\ request' = request
    BY <1>3, ListeningMeans DEF Call
  <2>3. Abstract!Call
    BY <1>1, <2>1, <2>2 DEF Abstract!Call
  <2>4. QED
    BY <2>3 DEF Abstract!Next
<1>4. CASE LogIn /\ ~(waiting /\ requestHolidays)
  <2>1. UNCHANGED <<waiting, request, handled>>
    BY <1>0, <1>4 DEF LogIn, State, TypeOK
  <2>2. Listening' = Listening
    BY <2>1 DEF Listening
  <2>3. QED
    BY <1>1, <2>1, <2>2 DEF Abstract!vars
<1>5. QED
  BY <1>2, <1>3, <1>4

LEMMA CancelIsAbstract ==
    ASSUME Inv, Cancel
    PROVE  [Abstract!Next]_Abstract!vars
<1>1. /\ cancels' = cancels + 1 /\ handled' = handled \ {request}
      /\ UNCHANGED <<waiting, request, told, lost, outcomes>>
      /\ Picked(items)' = Picked(items) /\ Passed' = Passed
  BY PickedKept, PassedKept DEF Cancel, Forgotten, api, channel, listener
<1>2. handled' = {}
  BY <1>1 DEF Inv, State, Requested
<1>3. Listening' = (Listening /\ ~(request # "undefined"))
  <2>1. Listening' <=> waiting
    BY <1>1, <1>2, ListeningMeans
  <2>2. request = "undefined" => (Listening <=> waiting)
    BY ListeningMeans DEF Inv, State, Requested
  <2>3. request # "undefined" => ~waiting
    BY DEF Inv, State, Requested
  <2>4. Listening' <=> Listening /\ ~(request # "undefined")
    BY <2>1, <2>2, <2>3
  <2>5. QED
    BY <2>4, ListeningMeans, Zenon
<1>4. Abstract!Cancel
  BY <1>1, <1>3 DEF Abstract!Cancel
<1>5. QED
  BY <1>4 DEF Abstract!Next

LEMMA Listened ==
    ASSUME Inv, "sent" \in handled
    PROVE  request = "sent" /\ ~waiting /\ Listening = TRUE /\ handled \ {"sent"} = {}
BY ListeningMeans DEF Inv, State, Requested

LEMMA UrgentIsAbstract ==
    ASSUME Inv, ReceiveUrgent
    PROVE  [Abstract!Next]_Abstract!vars
<1>1. /\ UNCHANGED <<waiting, request, lost, cancels>>
      /\ Picked(items)' = Picked(items) /\ Passed' = Passed
  BY PickedKept, PassedKept DEF ReceiveUrgent, Receive, api, counters
<1>2. Ignored \/ Failed
  BY UrgentDoes DEF Inv
<1>3. CASE Ignored
  BY <1>1, <1>3 DEF Ignored, Listening, Abstract!vars
<1>4. CASE Failed
  <2>1. request = "sent" /\ ~waiting /\ Listening = TRUE /\ handled' = {}
    BY <1>4, Listened DEF Failed, Concluded
  <2>2. Listening' = FALSE
    BY <1>1, <2>1, ListeningMeans
  <2>3. Abstract!Fail
    BY <1>1, <1>4, <2>1, <2>2 DEF Failed, Concluded, Abstract!Fail
  <2>4. QED
    BY <2>3 DEF Abstract!Next
<1>5. QED
  BY <1>2, <1>3, <1>4

LEMMA OrdinaryIsAbstract ==
    ASSUME Inv, ReceiveOrdinary
    PROVE  [Abstract!Next]_Abstract!vars
<1>0. /\ told \in Seq(Holiday) /\ items \in Seq(Holiday)
      /\ Len(told) \in Nat /\ Len(items) \in Nat /\ State /\ Section /\ Telling
  BY LenProperties DEF Inv, State, TypeOK
<1>1. UNCHANGED <<waiting, request, lost, cancels, items, year>> /\ Picked(items)' = Picked(items)
  BY PickedKept DEF ReceiveOrdinary, Receive, api, counters
<1>n. PICK n \in Nat : n = Received
  BY <1>0 DEF Section
<1>2. /\ n + 1 \in 1 .. Len(items) /\ server # "idle" /\ Received' = n + 1
      /\ IF "sent" \in handled THEN Holds(n + 1) ELSE Ignored
  BY <1>0, <1>n, OrdinaryDoes
<1>p. /\ Passed \in Nat /\ Passed' \in Nat
      /\ Passed' = IF IsTold(items[n + 1]) THEN Passed + 1 ELSE Passed
      /\ Passed' = Rank(items, n + 1) /\ Passed' <= Len(Picked(items))
      /\ Len(Picked(items)) \in Nat /\ Len(Picked(items)) = Rank(items, Len(items))
      /\ IsTold(items[n + 1]) => Picked(items)[Passed'] = items[n + 1]
  <2>1. /\ Passed = Rank(items, n) /\ Passed' = Rank(items, n + 1)
        /\ Passed \in Nat /\ Len(Picked(items)) \in Nat
        /\ Len(Picked(items)) = Rank(items, Len(items))
    BY <1>n, <1>1, <1>2, PassedIs, PassedNext
  <2>2. Rank(items, n + 1) <= Rank(items, Len(items)) /\ Rank(items, n + 1) \in Nat
    BY <1>0, <1>2, RankGrows, Counted
  <2>3. Rank(items, n + 1) = IF IsTold(items[n + 1]) THEN Rank(items, n) + 1 ELSE Rank(items, n)
    BY RankStep
  <2>4. IsTold(items[n + 1]) => Picked(items)[Rank(items, n + 1)] = items[n + 1]
    BY <1>0, <1>2, PickedAt
  <2>5. QED
    BY <2>1, <2>2, <2>3, <2>4
<1>3. CASE "sent" \notin handled
  <2>1. ~waiting /\ handled = {} /\ Ignored
    BY <1>0, <1>2, <1>3 DEF State, Requested
  <2>2. Listening = FALSE /\ Listening' = Listening
    BY <1>1, <2>1, ListeningMeans DEF Ignored
  <2>3. Passed' \in Passed .. Len(Picked(items))
    BY <1>p
  <2>4. Abstract!Ignore
    BY <1>1, <2>1, <2>2, <2>3 DEF Ignored, Abstract!Ignore
  <2>5. QED
    BY <2>4 DEF Abstract!Next
<1>4. CASE "sent" \in handled
  <2>1. Holds(n + 1) /\ (~lost => ToldOf(n)) /\ n < Len(items)
    BY <1>0, <1>n, <1>2, <1>4 DEF Telling
  <2>2. told' = IF IsTold(items[n + 1]) THEN Append(told, items[n + 1]) ELSE told
    BY <2>1 DEF Holds
  <2>3. ~lost => ToldOf(n + 1)'
    BY <1>0, <1>1, <2>1, <2>2, ToldNext
  <2>4. request = "sent" /\ ~waiting /\ Listening = TRUE /\ handled \ {"sent"} = {}
    BY <1>4, Listened
  <2>5. CASE n + 1 # Len(items)
    <3>1. UNCHANGED <<handled, outcomes>> /\ Listening' = Listening
      BY <1>1, <2>1, <2>5 DEF Holds, Listening
    <3>2. CASE IsTold(items[n + 1])
      <4>1. Abstract!Tell
        BY <1>1, <1>p, <2>2, <2>4, <3>1, <3>2 DEF Abstract!Tell
      <4>2. QED
        BY <4>1 DEF Abstract!Next
    <3>3. CASE ~IsTold(items[n + 1])
      BY <1>1, <1>p, <2>2, <3>1, <3>3 DEF Abstract!vars
    <3>4. QED
      BY <3>2, <3>3
  <2>6. CASE n + 1 = Len(items)
    <3>1. handled' = {} /\ outcomes' = Append(outcomes, "completed")
      BY <2>1, <2>4, <2>6 DEF Holds, Concluded
    <3>2. Listening' = FALSE
      BY <1>1, <2>4, <3>1, ListeningMeans
    <3>3. ASSUME ~lost
          PROVE  told' = Picked(items)'
      <4>1. told' \in Seq(Holiday)
        BY <1>0, <1>2, <2>2, ElementOfSeq, Appended
      <4>2. \A h : IsTold(h)' <=> IsTold(h)
        BY <1>1 DEF IsTold
      <4>3. \A i : Rank(items, i)' = Rank(items, i)
        BY <1>1, <4>2 DEF Rank
      <4>4. Len(told') = Rank(items, Len(items))
        BY <2>3, <2>6, <3>3, <4>3 DEF ToldOf
      <4>5. \A k \in 1 .. Len(told') : told'[k] = Picked(items)[k]
        <5> SUFFICES ASSUME NEW k \in 1 .. Len(told')
                     PROVE  told'[k] = Picked(items)[k]
          OBVIOUS
        <5>1. PICK i \in 1 .. n + 1 : IsTold(items[i]) /\ Rank(items, i) = k /\ told'[k] = items[i]
          BY <1>1, <2>3, <3>3, <4>2, <4>3 DEF ToldOf
        <5>2. i \in 1 .. Len(items)
          BY <2>6
        <5>3. QED
          BY <1>0, <5>1, <5>2, PickedAt
      <4>6. PICK S : Picked(items) \in Seq(S) /\ Len(Picked(items)) = Rank(items, Len(items))
        BY <1>0, PickedType
      <4>7. told' = Picked(items)
        BY <4>1, <4>4, <4>5, <4>6, EqualSeqs
      <4>8. QED
        BY <1>1, <4>7
    <3>4. CASE IsTold(items[n + 1])
      <4>1. Passed + 1 = Len(Picked(items))
        BY <1>p, <2>6, <3>4
      <4>2. Abstract!TellLast
        BY <1>1, <1>p, <2>2, <2>4, <3>1, <3>2, <3>3, <3>4, <4>1 DEF Abstract!TellLast
      <4>3. QED
        BY <4>2 DEF Abstract!Next
    <3>5. CASE ~IsTold(items[n + 1])
      <4>1. told' = told /\ Passed' = Passed /\ Passed = Len(Picked(items))
        BY <1>p, <2>2, <2>6, <3>5
      <4>2. Abstract!Complete
        BY <1>1, <2>4, <3>1, <3>2, <3>3, <4>1 DEF Abstract!Complete
      <4>3. QED
        BY <4>2 DEF Abstract!Next
    <3>6. QED
      BY <3>4, <3>5
  <2>7. QED
    BY <2>5, <2>6
<1>5. QED
  BY <1>3, <1>4

LEMMA AnswerIsAbstract ==
    ASSUME Inv, Respond \/ Race
    PROVE  [Abstract!Next]_Abstract!vars
<1>1. UNCHANGED <<waiting, request, handled, told, lost, outcomes, cancels, year>>
  BY DEF Respond, Race, client, listener, counters
<1>2. Listening' = Listening
  BY <1>1 DEF Listening
<1>3. CASE Answer
  <2>1. items = <<>> /\ told = <<>> /\ request # "undefined" /\ posted = 0 /\ ordinary = <<>>
    BY <1>3 DEF Answer, Inv, State, Requested, Fresh
  <2>2. Picked(items) = <<>>
    BY <2>1, NothingPicked
  <2>3. Passed' = Passed
    <3>1. posted = 0 /\ posted' = 0 /\ Len(ordinary) = 0 /\ Len(ordinary') = 0
      BY <1>3, <2>1, EmptySeq DEF Answer, channel
    <3>2. posted - Len(ordinary) = 0 /\ posted' - Len(ordinary') = 0
      BY <3>1
    <3>3. Rank(items, 0) = 0 /\ Rank(items, 0)' = 0
      BY FS_EmptySet DEF Rank
    <3>4. QED
      BY <3>2, <3>3 DEF Passed, Rank
  <2>4. CASE Picked(items)' = <<>>
    BY <1>1, <1>2, <2>2, <2>3, <2>4 DEF Abstract!vars
  <2>5. CASE Picked(items)' # <<>>
    <3>1. Abstract!Answer
      BY <1>1, <1>2, <2>1, <2>2, <2>3, <2>5 DEF Abstract!Answer
    <3>2. QED
      BY <3>1 DEF Abstract!Next
  <2>6. QED
    BY <2>4, <2>5
<1>4. CASE ~Answer
  <2>1. items' = items
    BY <1>4 DEF Respond, Race, PostHoliday, PostSuccess, PostFailure, RacingTimeout
  <2>2. Picked(items)' = Picked(items)
    BY <1>1, <2>1, PickedKept
  <2>3. Passed' = Passed
    <3>1. CASE PostHoliday
      <4>1. PICK n \in Nat : n = Received
        BY DEF Inv, Section
      <4>2. Received' = n
        <5>1. ordinary \in Seq(Messages) /\ posted \in Nat
          BY LenProperties DEF Inv, State, TypeOK
        <5>2. \A m : Len(Append(ordinary, m)) = Len(ordinary) + 1 /\ Len(ordinary) \in Nat
          BY <5>1, LenProperties
        <5>3. QED
          BY <3>1, <4>1, <5>1, <5>2 DEF PostHoliday, Received
      <4>3. QED
        BY <1>1, <2>1, <4>1, <4>2, PassedIs, PassedNext
    <3>2. CASE ~PostHoliday
      <4>1. UNCHANGED <<posted, ordinary>>
        BY <1>4, <3>2
           DEF Respond, Race, PostSuccess, PostFailure, RacingTimeout, PostUrgent
      <4>2. QED
        BY <1>1, <2>1, <4>1, PassedKept
    <3>3. QED
      BY <3>1, <3>2
  <2>4. QED
    BY <1>1, <1>2, <2>2, <2>3 DEF Abstract!vars
<1>5. QED
  BY <1>3, <1>4

LEMMA LossIsAbstract ==
    ASSUME Inv, LoseTheRest \/ Escape
    PROVE  [Abstract!Next]_Abstract!vars
<1>1. UNCHANGED <<waiting, request, handled, told, outcomes, cancels, items, year>> /\ lost' = TRUE
  BY DEF LoseTheRest, Escape, client, api, listener, counters
<1>2. Listening' = Listening /\ Picked(items)' = Picked(items)
  BY <1>1, PickedKept DEF Listening
<1>3. Passed' \in Passed .. Len(Picked(items))
  <2>1. PICK n \in Nat : n = Received
    BY DEF Inv, Section
  <2>2. /\ Passed = Rank(items, n) /\ Len(Picked(items)) = Rank(items, Len(items))
        /\ Len(items) \in Nat /\ Passed \in Nat
        /\ Len(Picked(items)) \in Nat /\ Passed <= Len(Picked(items))
    BY <2>1, PassedIs
  <2>3. CASE LoseTheRest
    <3>1. PICK k \in Nat : k = Received' /\ n <= k /\ k <= Len(items)
      BY <2>1, <2>2, <2>3, LossDoes DEF Inv
    <3>2. Passed' = Rank(items, k)
      BY <1>1, <3>1, PassedNext
    <3>3. Rank(items, n) <= Rank(items, k) /\ Rank(items, k) <= Rank(items, Len(items))
      BY <2>2, <3>1, RankGrows
    <3>4. Rank(items, k) \in Nat
      BY Counted
    <3>5. QED
      BY <2>2, <3>2, <3>3, <3>4
  <2>4. CASE Escape
    <3>1. Passed' = Passed
      BY <2>4, PassedKept DEF Escape, client, channel
    <3>2. QED
      BY <2>2, <3>1
  <2>5. QED
    BY <2>3, <2>4
<1>4. Abstract!Lose
  BY <1>1, <1>2, <1>3 DEF Abstract!Lose
<1>5. QED
  BY <1>4 DEF Abstract!Next

(* The listener of holidays() may rely on HistoryCall: it is told the      *)
(* holidays of the answer that are of the year and of US stocks, in order, *)
(* then one outcome, "completed" only after all of them unless some were   *)
(* lost on their way, and nothing after an outcome or after the            *)
(* cancellation of a request made, although success and errors overtake the*)
(* holidays on their way.                                                  *)
THEOREM KeepsItsPromise == Spec => ImplementsHistoryCall
<1>1. Init => Abstract!Init
  <2> SUFFICES ASSUME Init PROVE Abstract!Init
    OBVIOUS
  <2>1. Listening = FALSE
    BY ListeningMeans DEF Init
  <2>2. Picked(items) = <<>>
    BY NothingPicked DEF Init
  <2>3. Passed = 0
    <3>1. posted = 0 /\ Len(ordinary) = 0
      BY EmptySeq DEF Init
    <3>2. posted - Len(ordinary) = 0
      BY <3>1
    <3>3. QED
      BY <3>2, RankOfNone DEF Passed
  <2>4. QED
    BY <2>1, <2>2, <2>3 DEF Init, Abstract!Init
<1>2. Inv /\ [Next]_vars => [Abstract!Next]_Abstract!vars
  <2> SUFFICES ASSUME Inv, [Next]_vars
               PROVE  [Abstract!Next]_Abstract!vars
    OBVIOUS
  <2>1. CASE NewYear \/ LogOut \/ UNCHANGED vars
    <3>1. /\ UNCHANGED <<waiting, request, handled, told, lost, outcomes, cancels, items, year>>
          /\ UNCHANGED <<posted, ordinary>>
      BY <2>1 DEF NewYear, LogOut, vars, client, api, channel, listener, counters
    <3>2. Picked(items)' = Picked(items) /\ Listening' = Listening /\ Passed' = Passed
      BY <3>1, PickedKept, PassedKept DEF Listening
    <3>3. QED
      BY <3>1, <3>2 DEF Abstract!vars
  <2>2. QED
    BY <2>1, AskIsAbstract, CancelIsAbstract, UrgentIsAbstract, OrdinaryIsAbstract, AnswerIsAbstract,
       LossIsAbstract
       DEF Next
<1>3. QED
  BY <1>1, <1>2, InitInv, NextInv, PTL DEF Spec, ImplementsHistoryCall, Abstract!Spec
=============================================================================
