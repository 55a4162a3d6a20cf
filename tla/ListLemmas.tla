----------------------------- MODULE ListLemmas -----------------------------
(* What the sequence operators that model linked lists (list.h) return,      *)
(* element by element; induction; numbers modulo M.                          *)
EXTENDS Integers, Sequences, SequencesExt, WellFoundedInduction, TLAPS

\* What \o returns, element by element.
LEMMA ConcatElements ==
  ASSUME NEW S, NEW a \in Seq(S), NEW b \in Seq(S)
  PROVE  /\ a \o b \in Seq(S)
         /\ Len(a \o b) = Len(a) + Len(b)
         /\ \A k \in 1..(Len(a) + Len(b)) :
              (a \o b)[k] = IF k <= Len(a) THEN a[k] ELSE b[k - Len(a)]
OBVIOUS

\* InsertAt, element by element.
LEMMA InsertAtEach ==
  ASSUME NEW S, NEW s \in Seq(S), NEW i \in 1..(Len(s) + 1), NEW e \in S
  PROVE  /\ InsertAt(s, i, e) \in Seq(S)
         /\ Len(InsertAt(s, i, e)) = Len(s) + 1
         /\ \A k \in 1..(Len(s) + 1) :
              /\ k < i => InsertAt(s, i, e)[k] = s[k]
              /\ k = i => InsertAt(s, i, e)[k] = e
              /\ k > i => InsertAt(s, i, e)[k] = s[k - 1]
<1> DEFINE a == SubSeq(s, 1, i - 1)
           b == a \o <<e>>
           c == SubSeq(s, i, Len(s))
           r == b \o c
<1>1. a \in Seq(S) /\ Len(a) = i - 1 /\ \A k \in 1..(i - 1) : a[k] = s[k]
  OBVIOUS
<1>2. c \in Seq(S) /\ Len(c) = Len(s) - i + 1 /\ \A k \in 1..(Len(s) - i + 1) : c[k] = s[i + k - 1]
  OBVIOUS
<1>3. InsertAt(s, i, e) = r
  BY DEF InsertAt
<1> HIDE DEF a, c
<1>4. b \in Seq(S) /\ Len(b) = i /\ \A k \in 1..i : b[k] = IF k < i THEN s[k] ELSE e
  BY <1>1
<1> HIDE DEF b
<1>5. /\ r \in Seq(S)
      /\ Len(r) = Len(b) + Len(c)
      /\ \A k \in 1..(Len(b) + Len(c)) :
           r[k] = IF k <= Len(b) THEN b[k] ELSE c[k - Len(b)]
  BY <1>2, <1>4, ConcatElements
<1> HIDE DEF r
<1>6. ASSUME NEW k \in 1..(Len(s) + 1)
      PROVE  (k < i => r[k] = s[k]) /\ (k = i => r[k] = e) /\ (k > i => r[k] = s[k - 1])
  <2>0. k \in Int /\ i \in Int
    OBVIOUS
  <2>1. CASE k <= i
    BY <1>2, <1>4, <1>5, <2>1
  <2>2. CASE k > i
    <3>1. k - i \in 1..(Len(s) - i + 1) /\ i + (k - i) - 1 = k - 1
      BY <2>2
    <3>2. r[k] = c[k - i]
      BY <1>2, <1>4, <1>5, <2>2
    <3> QED BY <1>2, <2>2, <3>1, <3>2
  <2> QED BY <2>0, <2>1, <2>2
<1> QED BY <1>2, <1>3, <1>4, <1>5, <1>6

\* The same, by ranges of the index.
LEMMA InsertAtElements ==
  ASSUME NEW S, NEW s \in Seq(S), NEW i \in 1..(Len(s) + 1), NEW e \in S
  PROVE  /\ InsertAt(s, i, e) \in Seq(S)
         /\ Len(InsertAt(s, i, e)) = Len(s) + 1
         /\ \A k \in 1..(i - 1) : InsertAt(s, i, e)[k] = s[k]
         /\ InsertAt(s, i, e)[i] = e
         /\ \A k \in (i + 1)..(Len(s) + 1) : InsertAt(s, i, e)[k] = s[k - 1]
<1> DEFINE r == InsertAt(s, i, e)
<1>1. /\ r \in Seq(S) /\ Len(r) = Len(s) + 1
      /\ \A k \in 1..(Len(s) + 1) :
           (k < i => r[k] = s[k]) /\ (k = i => r[k] = e) /\ (k > i => r[k] = s[k - 1])
  BY InsertAtEach
<1> HIDE DEF r
<1>2. /\ r \in Seq(S) /\ Len(r) = Len(s) + 1
      /\ \A k \in 1..(i - 1) : r[k] = s[k]
      /\ r[i] = e
      /\ \A k \in (i + 1)..(Len(s) + 1) : r[k] = s[k - 1]
  BY <1>1
<1> QED BY <1>2, Zenon DEF r

\* Front, element by element.
LEMMA FrontElements ==
  ASSUME NEW S, NEW s \in Seq(S), s # <<>>
  PROVE  /\ Front(s) \in Seq(S)
         /\ Len(Front(s)) = Len(s) - 1
         /\ \A k \in 1..(Len(s) - 1) : Front(s)[k] = s[k]
<1>1. Len(s) \in Nat \ {0}
  OBVIOUS
<1> DEFINE n == Len(s) - 1
<1>2. Front(s) = SubSeq(s, 1, n) /\ n \in Nat /\ n <= Len(s)
  BY <1>1 DEF Front
<1> HIDE DEF n
<1>3. Front(s) \in Seq(S) /\ Len(Front(s)) = n /\ \A k \in 1..n : Front(s)[k] = s[k]
  BY <1>2
<1> QED BY <1>3 DEF n

\* Elements behind the inserted one move up by one place.
LEMMA InsertAtAfter ==
  ASSUME NEW S, NEW s \in Seq(S), NEW i \in 1..(Len(s) + 1), NEW e \in S
  PROVE  \A k \in (i + 1)..(Len(s) + 1) : InsertAt(s, i, e)[k] = s[k - 1]
<1> DEFINE r == InsertAt(s, i, e)
<1>1. \A k \in 1..(Len(s) + 1) : k > i => r[k] = s[k - 1]
  BY InsertAtEach
<1> HIDE DEF r
<1>2. \A k \in (i + 1)..(Len(s) + 1) : r[k] = s[k - 1]
  BY <1>1
<1> QED BY <1>2, Zenon DEF r

\* RemoveAt, element by element.
LEMMA RemoveAtElements ==
  ASSUME NEW S, NEW s \in Seq(S), NEW i \in 1..Len(s)
  PROVE  /\ RemoveAt(s, i) \in Seq(S)
         /\ Len(RemoveAt(s, i)) = Len(s) - 1
         /\ \A k \in 1..(Len(s) - 1) :
              RemoveAt(s, i)[k] = IF k < i THEN s[k] ELSE s[k + 1]
<1> DEFINE a == SubSeq(s, 1, i - 1)
           c == SubSeq(s, i + 1, Len(s))
           r == a \o c
<1>1. a \in Seq(S) /\ Len(a) = i - 1 /\ \A k \in 1..(i - 1) : a[k] = s[k]
  OBVIOUS
<1>2. c \in Seq(S) /\ Len(c) = Len(s) - i /\ \A k \in 1..(Len(s) - i) : c[k] = s[i + k]
  OBVIOUS
<1>3. RemoveAt(s, i) = r
  BY DEF RemoveAt
<1> HIDE DEF a, c
<1>4. /\ r \in Seq(S)
      /\ Len(r) = Len(a) + Len(c)
      /\ \A k \in 1..(Len(a) + Len(c)) :
           r[k] = IF k <= Len(a) THEN a[k] ELSE c[k - Len(a)]
  BY <1>1, <1>2, ConcatElements
<1> HIDE DEF r
<1>5. Len(a) + Len(c) = Len(s) - 1 /\ i \in Int
  BY <1>1, <1>2
<1>6. \A k \in 1..(Len(s) - 1) : r[k] = IF k <= i - 1 THEN a[k] ELSE c[k - (i - 1)]
  BY <1>1, <1>4, <1>5
<1>7. ASSUME NEW k \in 1..(Len(s) - 1)
      PROVE  r[k] = IF k < i THEN s[k] ELSE s[k + 1]
  <2>0. k \in Int /\ i \in Int
    OBVIOUS
  <2>1. CASE k < i
    BY <1>1, <1>6, <2>0, <2>1
  <2>2. CASE k >= i
    <3>1. k - (i - 1) \in 1..(Len(s) - i) /\ i + (k - (i - 1)) = k + 1
      BY <2>2
    <3>2. r[k] = c[k - (i - 1)]
      BY <1>6, <2>0, <2>2
    <3> QED BY <1>2, <2>0, <2>2, <3>1, <3>2
  <2> QED BY <2>0, <2>1, <2>2
<1> QED BY <1>3, <1>4, <1>5, <1>7

\* A stack whose innermost element is replaced.
LEMMA TopReplaced ==
  ASSUME NEW S, NEW st \in Seq(S), st # <<>>, NEW r \in S
  PROVE  LET new == [st EXCEPT ![Len(st)] = r]
         IN /\ new \in Seq(S) /\ Len(new) = Len(st) /\ new[Len(st)] = r
            /\ Len(st) \in 1..Len(st) /\ st[Len(st)] \in S
            /\ \A i \in 1..Len(st) : i # Len(st) => new[i] = st[i]
OBVIOUS

\* A stack with another element on top.
LEMMA Pushed ==
  ASSUME NEW S, NEW st \in Seq(S), NEW r \in S
  PROVE  LET new == Append(st, r)
         IN /\ new \in Seq(S) /\ Len(st) \in Nat /\ Len(new) = Len(st) + 1 /\ new[Len(st) + 1] = r
            /\ \A i \in 1..Len(st) : new[i] = st[i]
OBVIOUS

-----------------------------------------------------------------------------
(* Induction, stated of sets of numbers: a theorem with an operator as its   *)
(* parameter could not be used.                                              *)

\* A set of numbers has a least one.
LEMMA LeastNumber ==
  ASSUME NEW T \in SUBSET Nat, T # {}
  PROVE  \E n \in T : \A m \in T : n <= m
<1> DEFINE R == {p \in Nat \X Nat : p[1] < p[2]}
<1>1. IsWellFoundedOn(R, Nat)
  <2>1. R = OpToRel(<, Nat)
    BY Zenon DEF OpToRel
  <2> QED BY <2>1, NatLessThanWellFounded, Zenon
<1>2. PICK x \in T : \A y \in T : <<y, x>> \notin R
  <2> HIDE DEF R
  <2> QED BY <1>1, WFMin
<1>3. ASSUME NEW y \in T PROVE x <= y
  <2>1. ~(y < x)
    BY <1>2
  <2> QED BY <2>1
<1> QED BY <1>3

\* A set that has 0 and with every number its successor has all numbers.
LEMMA Induction ==
  ASSUME NEW T, 0 \in T, \A n \in Nat : n \in T => n + 1 \in T
  PROVE  Nat \subseteq T
<1> SUFFICES ASSUME Nat \ T # {} PROVE FALSE
  OBVIOUS
<1>1. PICK n \in Nat \ T : \A m \in Nat \ T : n <= m
  BY LeastNumber
<1>2. n # 0 /\ n - 1 \in Nat
  BY <1>1
<1>3. n - 1 \in T
  BY <1>1, <1>2
<1> QED BY <1>2, <1>3

-----------------------------------------------------------------------------
(* Lists in which every node is linked once. *)

Distinct(s) == \A i, j \in 1..Len(s) : s[i] = s[j] => i = j

IsIn(x, s) == \E i \in 1..Len(s) : s[i] = x

\* Linking a node that is not in the list.
LEMMA InsertDistinct ==
  ASSUME NEW S, NEW s \in Seq(S), NEW i \in 1..(Len(s) + 1), NEW e \in S,
         Distinct(s), ~IsIn(e, s)
  PROVE  /\ Distinct(InsertAt(s, i, e))
         /\ \A x : IsIn(x, InsertAt(s, i, e)) <=> x = e \/ IsIn(x, s)
<1> DEFINE r == InsertAt(s, i, e)
<1>1. /\ Len(r) = Len(s) + 1
      /\ \A k \in 1..(Len(s) + 1) :
           (k < i => r[k] = s[k]) /\ (k = i => r[k] = e) /\ (k > i => r[k] = s[k - 1])
  <2>1. Len(r) = Len(s) + 1 /\ r[i] = e
    BY InsertAtElements
  <2>2. \A k \in 1..(i - 1) : r[k] = s[k]
    BY InsertAtElements
  <2>3. \A k \in (i + 1)..(Len(s) + 1) : r[k] = s[k - 1]
    BY InsertAtElements
  <2> HIDE DEF r
  <2> QED BY <2>1, <2>2, <2>3
<1> HIDE DEF r
<1>2. Len(s) \in Nat /\ i \in Int
  OBVIOUS
<1>3. ASSUME NEW j \in 1..Len(r), NEW k \in 1..Len(r), r[j] = r[k]
      PROVE  j = k
  <2> DEFINE old(m) == IF m < i THEN m ELSE m - 1
  <2>1. \A m \in 1..Len(r) : m # i => old(m) \in 1..Len(s) /\ r[m] = s[old(m)]
    BY <1>1, <1>2
  <2>2. r[i] = e
    BY <1>1, <1>2
  <2>3. \A m \in 1..Len(r) : m # i => r[m] # e
    BY <2>1 DEF IsIn
  <2>4. CASE j = i \/ k = i
    BY <1>3, <2>2, <2>3, <2>4
  <2>5. CASE j # i /\ k # i
    <3>1. old(j) = old(k)
      BY <1>3, <2>1, <2>5 DEF Distinct
    <3> QED BY <1>2, <2>5, <3>1
  <2> QED BY <2>4, <2>5
<1>4. ASSUME NEW x PROVE IsIn(x, r) => x = e \/ IsIn(x, s)
  BY <1>1, <1>2 DEF IsIn
<1>5. ASSUME NEW x PROVE IsIn(x, s) => IsIn(x, r)
  <2>1. SUFFICES ASSUME NEW k \in 1..Len(s), s[k] = x PROVE IsIn(x, r)
    BY DEF IsIn
  <2>2. CASE k < i
    BY <1>1, <1>2, <2>1, <2>2 DEF IsIn
  <2>3. CASE k >= i
    <3>1. k + 1 \in 1..Len(r) /\ r[k + 1] = s[(k + 1) - 1] /\ (k + 1) - 1 = k
      BY <1>1, <1>2, <2>3
    <3> QED BY <2>1, <3>1 DEF IsIn
  <2> QED BY <1>2, <2>2, <2>3
<1>6. IsIn(e, r)
  BY <1>1, <1>2 DEF IsIn
<1> QED BY <1>3, <1>4, <1>5, <1>6 DEF r, Distinct

\* Unlinking a node.
LEMMA RemoveDistinct ==
  ASSUME NEW S, NEW s \in Seq(S), NEW i \in 1..Len(s), Distinct(s)
  PROVE  /\ Distinct(RemoveAt(s, i))
         /\ \A x : IsIn(x, RemoveAt(s, i)) <=> x # s[i] /\ IsIn(x, s)
<1> DEFINE r == RemoveAt(s, i)
           old(m) == IF m < i THEN m ELSE m + 1
<1>1. /\ Len(r) = Len(s) - 1
      /\ \A k \in 1..(Len(s) - 1) : r[k] = IF k < i THEN s[k] ELSE s[k + 1]
  BY RemoveAtElements
<1> HIDE DEF r
<1>2. Len(s) \in Nat /\ i \in Int
  OBVIOUS
<1>3. \A m \in 1..Len(r) : old(m) \in 1..Len(s) /\ old(m) # i /\ r[m] = s[old(m)]
  BY <1>1, <1>2
<1>4. ASSUME NEW j \in 1..Len(r), NEW k \in 1..Len(r), r[j] = r[k]
      PROVE  j = k
  <2>1. old(j) = old(k)
    BY <1>3, <1>4 DEF Distinct
  <2> QED BY <1>2, <2>1
<1>5. ASSUME NEW x PROVE IsIn(x, r) => x # s[i] /\ IsIn(x, s)
  BY <1>3 DEF IsIn, Distinct
<1>6. ASSUME NEW x, x # s[i], IsIn(x, s) PROVE IsIn(x, r)
  <2>1. PICK k \in 1..Len(s) : s[k] = x
    BY <1>6 DEF IsIn
  <2>2. k # i
    BY <1>6, <2>1
  <2>3. CASE k < i
    BY <1>1, <1>2, <2>1, <2>3 DEF IsIn
  <2>4. CASE k > i
    <3>1. k - 1 \in 1..Len(r) /\ r[k - 1] = s[(k - 1) + 1] /\ (k - 1) + 1 = k
      BY <1>1, <1>2, <2>4
    <3> QED BY <2>1, <3>1 DEF IsIn
  <2> QED BY <1>2, <2>2, <2>3, <2>4
<1> QED BY <1>4, <1>5, <1>6 DEF r, Distinct

\* Unlinking the first node.
LEMMA TailDistinct ==
  ASSUME NEW S, NEW s \in Seq(S), s # <<>>, Distinct(s)
  PROVE  /\ Tail(s) \in Seq(S)
         /\ Len(Tail(s)) = Len(s) - 1
         /\ \A k \in 1..(Len(s) - 1) : Tail(s)[k] = s[k + 1]
         /\ Distinct(Tail(s))
         /\ \A x : IsIn(x, Tail(s)) <=> x # Head(s) /\ IsIn(x, s)
<1> DEFINE r == Tail(s)
<1>1. /\ r \in Seq(S)
      /\ Len(r) = Len(s) - 1
      /\ \A k \in 1..(Len(s) - 1) : r[k] = s[k + 1]
      /\ Head(s) = s[1]
      /\ Len(s) \in Nat \ {0}
  OBVIOUS
<1> HIDE DEF r
<1>2. Distinct(r)
  BY <1>1 DEF Distinct
<1>3. ASSUME NEW x PROVE IsIn(x, r) => x # Head(s) /\ IsIn(x, s)
  BY <1>1 DEF IsIn, Distinct
<1>4. ASSUME NEW x, x # Head(s), IsIn(x, s) PROVE IsIn(x, r)
  <2>1. PICK k \in 1..Len(s) : s[k] = x
    BY <1>4 DEF IsIn
  <2>2. k - 1 \in 1..Len(r) /\ r[k - 1] = s[(k - 1) + 1] /\ (k - 1) + 1 = k
    BY <1>1, <1>4, <2>1
  <2> QED BY <2>1, <2>2 DEF IsIn
<1> QED BY <1>1, <1>2, <1>3, <1>4 DEF r

\* Linking a node at the end.
LEMMA AppendDistinct ==
  ASSUME NEW S, NEW s \in Seq(S), NEW e \in S, Distinct(s), ~IsIn(e, s)
  PROVE  /\ Distinct(Append(s, e))
         /\ \A x : IsIn(x, Append(s, e)) <=> x = e \/ IsIn(x, s)
<1> DEFINE r == Append(s, e)
<1>1. Len(s) \in Nat /\ Len(r) = Len(s) + 1 /\ r[Len(s) + 1] = e /\ \A k \in 1..Len(s) : r[k] = s[k]
  OBVIOUS
<1> HIDE DEF r
<1>2. Distinct(r)
  BY <1>1 DEF Distinct, IsIn
<1>3. ASSUME NEW x PROVE IsIn(x, r) <=> x = e \/ IsIn(x, s)
  BY <1>1 DEF IsIn
<1> QED BY <1>2, <1>3 DEF r

-----------------------------------------------------------------------------
(* Numbers modulo M. *)

\* A multiple of M between -M and M.
LEMMA Small ==
  ASSUME NEW M \in Nat \ {0}, NEW k \in Int, NEW d \in Int, M * k = d, d < M, -M < d
  PROVE  k = 0
<1>1. CASE k >= 1
  <2>1. M * k >= M
    <3>1. M * k = M * (k - 1) + M
      OBVIOUS
    <3>2. M * (k - 1) >= 0
      BY <1>1
    <3>3. M * (k - 1) \in Int
      OBVIOUS
    <3> QED BY <3>1, <3>2, <3>3
  <2> QED BY <2>1
<1>2. CASE k <= -1
  <2>1. M * k <= -M
    <3>1. M * k = M * (k + 1) - M
      OBVIOUS
    <3>2. M * (k + 1) <= 0
      BY <1>2
    <3>3. M * (k + 1) \in Int
      OBVIOUS
    <3> QED BY <3>1, <3>2, <3>3
  <2> QED BY <2>1
<1> QED BY <1>1, <1>2

\* Division with remainder.
LEMMA DivMod ==
  ASSUME NEW M \in Nat \ {0}, NEW a \in Int
  PROVE  /\ a % M \in Nat /\ a % M < M /\ a \div M \in Int
         /\ a = M * (a \div M) + (a % M)
OBVIOUS

\* A remainder is the only one.
LEMMA ModUnique ==
  ASSUME NEW M \in Nat \ {0}, NEW a \in Int, NEW q \in Int, NEW t \in Nat, t < M, a = M * q + t
  PROVE  a % M = t
<1> DEFINE p == a \div M
           s == a % M
           k == p - q
           e == t - s
<1>1. s \in Nat /\ s < M /\ p \in Int /\ a = M * p + s
  BY DivMod
<1> HIDE DEF p, s
<1>2. M * k = e
  <2>1. M * (p - q) = M * p - M * q
    BY <1>1
  <2>2. M * p \in Int /\ M * q \in Int
    BY <1>1
  <2> QED BY <1>1, <2>1, <2>2
<1>3. k \in Int /\ e \in Int /\ e < M /\ -M < e
  BY <1>1
<1> HIDE DEF k, e
<1>4. k = 0
  BY <1>2, <1>3, Small
<1>5. e = 0
  BY <1>2, <1>4
<1>6. s = t
  BY <1>1, <1>5 DEF e
<1> QED BY <1>6 DEF s

\* Multiples of M do not matter.
LEMMA ModShift ==
  ASSUME NEW M \in Nat \ {0}, NEW a \in Int, NEW b \in Int, NEW q \in Int, a = b + M * q
  PROVE  a % M = b % M
<1> DEFINE p == b \div M
           s == b % M
<1>1. s \in Nat /\ s < M /\ p \in Int /\ b = M * p + s
  BY DivMod
<1> HIDE DEF p, s
<1>2. M * (p + q) = M * p + M * q /\ M * p \in Int /\ M * q \in Int
  BY <1>1
<1>3. a = M * (p + q) + s /\ p + q \in Int
  BY <1>1, <1>2
<1>4. a % M = s
  BY <1>1, <1>3, ModUnique
<1> QED BY <1>4 DEF s

\* Numbers may be reduced before they are added or subtracted.
LEMMA ModAdd ==
  ASSUME NEW M \in Nat \ {0}, NEW a \in Int, NEW b \in Int
  PROVE  /\ ((a % M) + b) % M = (a + b) % M
         /\ (b - (a % M)) % M = (b - a) % M
<1> DEFINE s == a % M
           p == a \div M
<1>1. s \in Nat /\ p \in Int /\ a = M * p + s
  BY DivMod
<1> HIDE DEF s, p
<1>2. M * (-p) = -(M * p) /\ M * p \in Int /\ -p \in Int
  BY <1>1
<1>3. s + b = (a + b) + M * (-p) /\ b - s = (b - a) + M * p
  BY <1>1, <1>2
<1>4. (s + b) % M = (a + b) % M
  <2>1. s + b \in Int /\ a + b \in Int
    BY <1>1
  <2> QED BY <1>2, <1>3, <2>1, ModShift
<1>5. (b - s) % M = (b - a) % M
  <2> DEFINE x == b - s
             y == b - a
  <2>1. x \in Int /\ y \in Int /\ x = y + M * p /\ p \in Int
    BY <1>1, <1>3
  <2> HIDE DEF x, y
  <2>2. x % M = y % M
    BY <2>1, ModShift
  <2> QED BY <2>2 DEF x, y
<1> QED BY <1>4, <1>5 DEF s

\* A number that is small enough is its own remainder.
LEMMA ModSmall ==
  ASSUME NEW M \in Nat \ {0}, NEW a \in Int
  PROVE  /\ 0 <= a /\ a < M => a % M = a
         /\ -M <= a /\ a < 0 => a % M = a + M
<1>1. ASSUME 0 <= a, a < M PROVE a % M = a
  <2>1. a \in Nat /\ a = M * 0 + a
    BY <1>1
  <2> QED BY <1>1, <2>1, ModUnique
<1>2. ASSUME -M <= a, a < 0 PROVE a % M = a + M
  <2>1. a + M \in Nat /\ a + M < M /\ a = M * (-1) + (a + M)
    BY <1>2
  <2> QED BY <2>1, ModUnique
<1> QED BY <1>1, <1>2

\* What is the same modulo M is the same modulo a divisor of M.
LEMMA ModDivisor ==
  ASSUME NEW M \in Nat \ {0}, NEW S \in Nat \ {0}, M % S = 0, NEW a \in Int
  PROVE  (a % M) % S = a % S
<1> DEFINE f == M \div S
           s == a % M
           p == a \div M
<1>1. f \in Int /\ M = S * f
  BY DivMod
<1>2. s \in Nat /\ p \in Int /\ a = M * p + s
  BY DivMod
<1> HIDE DEF f, s, p
<1>3. M * p = S * (f * p) /\ f * p \in Int
  <2>1. (S * f) * p = S * (f * p)
    BY <1>1, <1>2
  <2> QED BY <1>1, <1>2, <2>1
<1> DEFINE q == f * p
<1>4. q \in Int /\ S * q \in Int /\ S * (-q) = -(S * q) /\ -q \in Int
  BY <1>3
<1> DEFINE r == -q
<1>5. s = a + S * r /\ s \in Int /\ r \in Int
  BY <1>2, <1>3, <1>4
<1> HIDE DEF r
<1>6. s % S = a % S
  BY <1>5, ModShift
<1> QED BY <1>6 DEF s
=============================================================================
