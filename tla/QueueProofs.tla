---------------------------- MODULE QueueProofs -----------------------------
(***************************************************************************)
(* safe_list.c (SafeList), and the runqueue that keeps its tasks on such   *)
(* lists (Runqueue).                                                       *)
(***************************************************************************)
EXTENDS SafeList, Runqueue, ListLemmas, FiniteSetTheorems

-----------------------------------------------------------------------------
(***************************************************************************)
(* The lists.  For lists of any length and walks nested to any depth: the  *)
(* pointers of safe_list.c stay consistent, and implement the promise of   *)
(* SafeListSpec.                                                           *)
(***************************************************************************)

-----------------------------------------------------------------------------
(* Chains of iterators. *)

\* chain is the chain of node n, forwards and backwards.
ChainOK(f, h, nn, n, chain) ==
  /\ Distinct(chain)
  /\ f[n] = IF chain = <<>> THEN Null ELSE chain[1]
  /\ \A k \in 1..Len(chain) :
       /\ nn[chain[k]] = n
       /\ f[chain[k]] = IF k < Len(chain) THEN chain[k + 1] ELSE Null
       /\ h[chain[k]] = IF k = 1 THEN n ELSE chain[k - 1]

\* The chains of all nodes, with the iterators in D.
ChainsOK(f, h, nn, c, D) ==
  /\ f \in [Nodes \cup Iterators -> Iterators \cup {Null}]
  /\ h \in [Iterators -> Nodes \cup Iterators \cup {Null}]
  /\ nn \in [Iterators -> Nodes]
  /\ D \subseteq Iterators /\ c \in [Nodes -> Seq(D)]
  /\ \A n \in Nodes : ChainOK(f, h, nn, n, c[n])
  /\ \A i \in D : IsIn(i, c[nn[i]])

LEMMA Apart ==
  /\ Null \notin Nodes \cup Iterators
  /\ \A n \in Nodes, i \in Iterators : n # i
  /\ Iterators \subseteq Nat /\ ListHead \in Nodes /\ Elements \subseteq Nodes
BY SafeListAssumption DEF Nodes, Iterators

\* What the elements of a chain are.
LEMMA InChain ==
  ASSUME NEW f, NEW h, NEW nn, NEW c, NEW D, ChainsOK(f, h, nn, c, D), NEW n \in Nodes
  PROVE  /\ c[n] \in Seq(D) /\ Len(c[n]) \in Nat
         /\ \A k \in 1..Len(c[n]) : c[n][k] \in D /\ c[n][k] \in Iterators /\ nn[c[n][k]] = n
         /\ c[n] = <<>> <=> Len(c[n]) = 0
BY DEF ChainsOK, ChainOK

\* Pointers of a chain that no operation has touched.
LEMMA SameChain ==
  ASSUME NEW f, NEW h, NEW nn, NEW n, NEW chain, ChainOK(f, h, nn, n, chain),
         NEW f2, NEW h2, NEW nn2, f2[n] = f[n],
         \A k \in 1..Len(chain) : /\ f2[chain[k]] = f[chain[k]]
                                  /\ h2[chain[k]] = h[chain[k]]
                                  /\ nn2[chain[k]] = nn[chain[k]]
  PROVE  ChainOK(f2, h2, nn2, n, chain)
BY Zenon DEF ChainOK

\* __safe_list_set_iterator: a new iterator in front of the chain of to.
LEMMA SetOK ==
  ASSUME NEW f, NEW h, NEW nn, NEW c, NEW D, ChainsOK(f, h, nn, c, D),
         NEW to \in Nodes, NEW i \in Iterators \ D
  PROVE  LET f2 == [f EXCEPT ![to] = i, ![i] = f[to]]
             nn2 == [nn EXCEPT ![i] = to]
             h2 == [j \in Iterators |-> CASE j = i -> to [] j = f[to] -> i [] OTHER -> h[j]]
         IN  ChainsOK(f2, h2, nn2, [c EXCEPT ![to] = <<i>> \o @], D \cup {i})
<1> DEFINE f2 == [f EXCEPT ![to] = i, ![i] = f[to]]
           nn2 == [nn EXCEPT ![i] = to]
           h2 == [j \in Iterators |-> CASE j = i -> to [] j = f[to] -> i [] OTHER -> h[j]]
           d == <<i>> \o c[to]
           c2 == [c EXCEPT ![to] = d]
<1>1. /\ f \in [Nodes \cup Iterators -> Iterators \cup {Null}]
      /\ h \in [Iterators -> Nodes \cup Iterators \cup {Null}]
      /\ nn \in [Iterators -> Nodes]
      /\ D \subseteq Iterators /\ c \in [Nodes -> Seq(D)]
      /\ \A n \in Nodes : ChainOK(f, h, nn, n, c[n])
      /\ \A j \in D : IsIn(j, c[nn[j]])
  BY DEF ChainsOK
<1>in. \A n \in Nodes : /\ c[n] \in Seq(D) /\ Len(c[n]) \in Nat
                        /\ \A k \in 1..Len(c[n]) : c[n][k] \in D /\ c[n][k] \in Iterators /\ nn[c[n][k]] = n
                        /\ c[n] = <<>> <=> Len(c[n]) = 0
  BY InChain
<1>2. /\ f2 \in [Nodes \cup Iterators -> Iterators \cup {Null}]
      /\ nn2 \in [Iterators -> Nodes]
      /\ h2 \in [Iterators -> Nodes \cup Iterators \cup {Null}]
  BY <1>1, Apart
<1>3. /\ f2[to] = i /\ f2[i] = f[to] /\ \A x \in Nodes \cup Iterators : x # to /\ x # i => f2[x] = f[x]
      /\ nn2[i] = to /\ \A x \in Iterators : x # i => nn2[x] = nn[x]
      /\ h2[i] = to /\ \A x \in Iterators : x # i => h2[x] = IF x = f[to] THEN i ELSE h[x]
  <2>1. to # i /\ i \in Iterators /\ to \in Nodes \cup Iterators
    BY Apart
  <2>2. f2[to] = i /\ f2[i] = f[to] /\ \A x \in Nodes \cup Iterators : x # to /\ x # i => f2[x] = f[x]
    BY <1>1, <2>1
  <2>3. nn2[i] = to /\ \A x \in Iterators : x # i => nn2[x] = nn[x]
    BY <1>1, <2>1
  <2>4. h2[i] = to /\ \A x \in Iterators : x # i => h2[x] = IF x = f[to] THEN i ELSE h[x]
    <3>1. f[to] = IF c[to] = <<>> THEN Null ELSE c[to][1]
      BY <1>1 DEF ChainOK
    <3>2. f[to] # i
      BY <1>in, <3>1, Apart
    <3> QED BY <2>1, <3>2
  <2> QED BY <2>2, <2>3, <2>4
<1>4. /\ d \in Seq(D \cup {i}) /\ Len(d) = Len(c[to]) + 1 /\ d[1] = i /\ d # <<>>
      /\ \A k \in 2..Len(d) : d[k] = c[to][k - 1]
  BY <1>1
<1> HIDE DEF d
<1>5. c2 \in [Nodes -> Seq(D \cup {i})] /\ c2[to] = d /\ \A n \in Nodes : n # to => c2[n] = c[n]
  <2>1. \A n \in Nodes : c[n] \in Seq(D \cup {i})
    BY <1>1
  <2> QED BY <1>1, <1>4, <2>1
<1> HIDE DEF f2, nn2, h2, c2
<1>6. ASSUME NEW n \in Nodes, n # to PROVE ChainOK(f2, h2, nn2, n, c[n])
  <2>1. f[to] # Null => nn[f[to]] = to
    <3>1. f[to] = IF c[to] = <<>> THEN Null ELSE c[to][1]
      BY <1>1 DEF ChainOK
    <3> QED BY <1>in, <3>1
  <2>2. ASSUME NEW k \in 1..Len(c[n]) PROVE c[n][k] \in Iterators /\ c[n][k] # i /\ c[n][k] # to /\ c[n][k] # f[to]
    <3>1. c[n][k] \in D /\ c[n][k] \in Iterators /\ nn[c[n][k]] = n
      BY <1>in
    <3> QED BY <1>6, <2>1, <3>1, Apart
  <2>3. ChainOK(f, h, nn, n, c[n])
    BY <1>1
  <2>4. /\ f2[n] = f[n]
        /\ \A k \in 1..Len(c[n]) : /\ f2[c[n][k]] = f[c[n][k]] /\ h2[c[n][k]] = h[c[n][k]]
                                   /\ nn2[c[n][k]] = nn[c[n][k]]
    BY <1>3, <1>6, <2>2, Apart
  <2> QED BY <2>3, <2>4, SameChain
<1>7. ChainOK(f2, h2, nn2, to, d)
  <2>1. ChainOK(f, h, nn, to, c[to]) /\ Len(c[to]) \in Nat
    BY <1>1, <1>in
  <2>2. ASSUME NEW k \in 1..Len(c[to]) PROVE c[to][k] \in Iterators /\ c[to][k] # i /\ c[to][k] # to
    BY <1>in, Apart
  <2>3. Distinct(d)
    <3>1. ASSUME NEW j \in 1..Len(d), NEW k \in 1..Len(d), d[j] = d[k], j < k PROVE FALSE
      <4>1. k - 1 \in 1..Len(c[to]) /\ k \in 2..Len(d) /\ d[k] = c[to][k - 1]
        BY <1>4, <2>1, <3>1
      <4>2. CASE j = 1
        BY <1>4, <2>2, <3>1, <4>1, <4>2
      <4>3. CASE j > 1
        <5>1. j - 1 \in 1..Len(c[to]) /\ j \in 2..Len(d) /\ d[j] = c[to][j - 1]
          BY <1>4, <2>1, <3>1, <4>3
        <5>2. j - 1 = k - 1
          <6>1. Distinct(c[to])
            BY <2>1 DEF ChainOK
          <6>2. c[to][j - 1] = c[to][k - 1]
            BY <3>1, <4>1, <5>1
          <6> QED BY <4>1, <5>1, <6>1, <6>2 DEF Distinct
        <5>3. j \in Int /\ k \in Int
          OBVIOUS
        <5> QED BY <3>1, <5>2, <5>3
      <4> QED BY <1>4, <4>2, <4>3
    <3>2. \A j, k \in 1..Len(d) : j < k \/ k < j \/ j = k
      OBVIOUS
    <3> QED BY <3>1, <3>2 DEF Distinct
  <2>4. ASSUME NEW k \in 1..Len(d)
        PROVE  /\ nn2[d[k]] = to
               /\ f2[d[k]] = IF k < Len(d) THEN d[k + 1] ELSE Null
               /\ h2[d[k]] = IF k = 1 THEN to ELSE d[k - 1]
    <3>1. CASE k = 1
      <4>1. f[to] = IF Len(d) > 1 THEN d[2] ELSE Null
        BY <1>4, <1>in, <2>1 DEF ChainOK
      <4> QED BY <1>3, <1>4, <3>1, <4>1
    <3>2. CASE k > 1
      <4> DEFINE m == k - 1
      <4>1. m \in 1..Len(c[to]) /\ d[k] = c[to][m] /\ (k < Len(d) <=> m < Len(c[to])) /\ (m = 1 => d[m] = i)
            /\ (m > 1 => d[m] = c[to][m - 1]) /\ (k < Len(d) => d[k + 1] = c[to][m + 1])
        <5>1. /\ Len(d) = Len(c[to]) + 1 /\ d[1] = i
              /\ \A j \in 2..Len(d) : d[j] = c[to][j - 1]
          BY <1>4
        <5>2. k \in 2..Len(d) /\ k \in Int /\ Len(d) \in Int /\ Len(c[to]) \in Int
          BY <2>1, <3>2, <5>1
        <5>3. m \in 1..Len(c[to]) /\ d[k] = c[to][m] /\ (k < Len(d) <=> m < Len(c[to]))
          BY <5>1, <5>2
        <5>4. (m = 1 => d[m] = i) /\ (m > 1 => d[m] = c[to][m - 1])
          BY <5>1, <5>2
        <5>5. ASSUME k < Len(d) PROVE d[k + 1] = c[to][m + 1]
          <6>1. k + 1 \in 2..Len(d) /\ (k + 1) - 1 = m + 1
            BY <5>2, <5>5
          <6> QED BY <5>1, <6>1, SMTT(30)
        <5> QED BY <5>3, <5>4, <5>5
      <4>2. nn2[d[k]] = to /\ f2[d[k]] = IF k < Len(d) THEN d[k + 1] ELSE Null
        BY <1>3, <2>1, <2>2, <4>1 DEF ChainOK
      <4>3. m = 1 <=> d[k] = f[to]
        <5>1. f[to] = c[to][1] /\ 1 \in 1..Len(c[to])
          BY <2>1, <1>in, <4>1 DEF ChainOK
        <5> QED BY <2>1, <4>1, <5>1 DEF ChainOK, Distinct
      <4>4. h2[d[k]] = IF m = 1 THEN i ELSE c[to][m - 1]
        <5>1. h[c[to][m]] = IF m = 1 THEN to ELSE c[to][m - 1]
          BY <2>1, <4>1 DEF ChainOK
        <5>2. d[k] \in Iterators /\ d[k] # i
          BY <2>2, <4>1
        <5> QED BY <1>3, <4>1, <4>3, <5>1, <5>2
      <4> QED BY <3>2, <4>1, <4>2, <4>4
    <3> QED BY <1>4, <3>1, <3>2
  <2> QED BY <1>3, <1>4, <2>3, <2>4 DEF ChainOK
<1>8. ASSUME NEW j \in D \cup {i} PROVE IsIn(j, c2[nn2[j]])
  <2>1. CASE j = i
    BY <1>3, <1>4, <1>5, <2>1 DEF IsIn
  <2>2. CASE j # i
    <3>1. j \in D /\ nn2[j] = nn[j] /\ nn[j] \in Nodes
      BY <1>1, <1>3, <2>2
    <3>2. PICK k \in 1..Len(c[nn[j]]) : c[nn[j]][k] = j
      BY <1>1, <3>1 DEF IsIn
    <3>3. CASE nn[j] # to
      BY <1>5, <3>1, <3>2, <3>3 DEF IsIn
    <3>4. CASE nn[j] = to
      <4>1. k + 1 \in 2..Len(d) /\ d[k + 1] = j /\ k + 1 \in 1..Len(d)
        BY <1>4, <1>in, <3>2, <3>4
      <4> QED BY <1>5, <3>1, <3>4, <4>1 DEF IsIn
    <3> QED BY <3>3, <3>4
  <2> QED BY <2>1, <2>2
<1>9. D \cup {i} \subseteq Iterators
  BY <1>1
<1>10. ChainsOK(f2, h2, nn2, c2, D \cup {i})
  BY <1>2, <1>5, <1>6, <1>7, <1>8, <1>9 DEF ChainsOK
<1> QED BY <1>10, Zenon DEF f2, h2, nn2, c2, d

\* __safe_list_del_iterator: the iterator leaves its chain.
LEMMA DelOK ==
  ASSUME NEW f, NEW h, NEW nn, NEW c, NEW D, ChainsOK(f, h, nn, c, D), NEW i \in D
  PROVE  LET f2 == [f EXCEPT ![h[i]] = f[i]]
             h2 == [j \in Iterators |-> IF j = f[i] THEN h[i] ELSE h[j]]
         IN  \E c2 : ChainsOK(f2, h2, nn, c2, D \ {i})
<1>1. /\ f \in [Nodes \cup Iterators -> Iterators \cup {Null}]
      /\ h \in [Iterators -> Nodes \cup Iterators \cup {Null}]
      /\ nn \in [Iterators -> Nodes]
      /\ D \subseteq Iterators /\ c \in [Nodes -> Seq(D)]
      /\ \A n \in Nodes : ChainOK(f, h, nn, n, c[n])
      /\ \A j \in D : IsIn(j, c[nn[j]])
  BY DEF ChainsOK
<1>in. \A n \in Nodes : /\ c[n] \in Seq(D) /\ Len(c[n]) \in Nat
                        /\ \A k \in 1..Len(c[n]) : c[n][k] \in D /\ c[n][k] \in Iterators /\ nn[c[n][k]] = n
                        /\ c[n] = <<>> <=> Len(c[n]) = 0
  BY InChain
<1> DEFINE at == nn[i]
<1>2. at \in Nodes /\ i \in Iterators
  BY <1>1
<1>3. PICK p \in 1..Len(c[at]) : c[at][p] = i
  BY <1>1 DEF IsIn
<1> DEFINE f2 == [f EXCEPT ![h[i]] = f[i]]
           h2 == [j \in Iterators |-> IF j = f[i] THEN h[i] ELSE h[j]]
           len == Len(c[at])
           d == RemoveAt(c[at], p)
           c2 == [c EXCEPT ![at] = d]
<1>4. /\ f[i] = (IF p < len THEN c[at][p + 1] ELSE Null)
      /\ h[i] = (IF p = 1 THEN at ELSE c[at][p - 1])
      /\ f[at] = c[at][1] /\ len \in Nat /\ p \in Int /\ Distinct(c[at])
  BY <1>1, <1>in, <1>2, <1>3 DEF ChainOK
<1>5. h[i] \in Nodes \cup Iterators
  <2>1. p # 1 => p - 1 \in 1..len
    BY <1>3, <1>4
  <2> QED BY <1>in, <1>2, <1>4, <2>1
<1>6. /\ f2 \in [Nodes \cup Iterators -> Iterators \cup {Null}]
      /\ h2 \in [Iterators -> Nodes \cup Iterators \cup {Null}]
      /\ f2[h[i]] = f[i] /\ \A x \in Nodes \cup Iterators : x # h[i] => f2[x] = f[x]
      /\ \A x \in Iterators : h2[x] = IF x = f[i] THEN h[i] ELSE h[x]
  <2>1. f[i] \in Iterators \cup {Null} /\ h[i] \in Nodes \cup Iterators \cup {Null}
    BY <1>1, <1>2
  <2>2. /\ f2 \in [Nodes \cup Iterators -> Iterators \cup {Null}]
        /\ f2[h[i]] = f[i] /\ \A x \in Nodes \cup Iterators : x # h[i] => f2[x] = f[x]
    BY <1>1, <1>5, <2>1
  <2>3. h2 \in [Iterators -> Nodes \cup Iterators \cup {Null}]
        /\ \A x \in Iterators : h2[x] = IF x = f[i] THEN h[i] ELSE h[x]
    BY <1>1, <2>1
  <2> QED BY <2>2, <2>3
<1>7. /\ d \in Seq(D) /\ Len(d) = len - 1
      /\ \A k \in 1..(len - 1) : d[k] = IF k < p THEN c[at][k] ELSE c[at][k + 1]
  BY <1>in, <1>2, <1>3, RemoveAtElements
<1> HIDE DEF f2, h2, d, len
<1>8. ASSUME NEW k \in 1..(len - 1) PROVE d[k] \in D \ {i} /\ d[k] \in Iterators /\ nn[d[k]] = at
  <2>1. CASE k < p
    <3>1. k \in 1..len /\ k # p /\ d[k] = c[at][k]
      BY <1>4, <1>7, <2>1
    <3> QED BY <1>in, <1>2, <1>3, <1>4, <3>1 DEF Distinct, len
  <2>2. CASE ~(k < p)
    <3>1. k + 1 \in 1..len /\ k + 1 # p /\ d[k] = c[at][k + 1]
      BY <1>4, <1>7, <2>2
    <3> QED BY <1>in, <1>2, <1>3, <1>4, <3>1 DEF Distinct, len
  <2> QED BY <2>1, <2>2
<1>9. d \in Seq(D \ {i})
  <2>1. d = [k \in 1..(len - 1) |-> d[k]] /\ len - 1 \in Nat
    BY <1>3, <1>4, <1>7 DEF len
  <2> QED BY <1>8, <2>1
<1>10. ASSUME NEW n \in Nodes, n # at PROVE c[n] \in Seq(D \ {i}) /\ ChainOK(f2, h2, nn, n, c[n])
  <2>1. f[i] # Null => f[i] \in Iterators /\ nn[f[i]] = at
    <3>1. p < len => p + 1 \in 1..len
      BY <1>3, <1>4 DEF len
    <3> QED BY <1>in, <1>2, <1>4, <3>1 DEF len
  <2>2. h[i] = at \/ (h[i] \in Iterators /\ nn[h[i]] = at)
    <3>1. p # 1 => p - 1 \in 1..len
      BY <1>3, <1>4 DEF len
    <3> QED BY <1>in, <1>2, <1>4, <3>1 DEF len
  <2>3. ASSUME NEW k \in 1..Len(c[n])
        PROVE  c[n][k] \in D \ {i} /\ c[n][k] \in Iterators /\ c[n][k] # h[i] /\ c[n][k] # f[i]
    <3>1. c[n][k] \in D /\ c[n][k] \in Iterators /\ nn[c[n][k]] = n
      BY <1>in
    <3> QED BY <1>2, <1>10, <2>1, <2>2, <3>1, Apart
  <2>4. f2[n] = f[n]
    BY <1>6, <1>10, <2>2, Apart
  <2>5. ChainOK(f, h, nn, n, c[n])
    BY <1>1
  <2>6. \A k \in 1..Len(c[n]) : f2[c[n][k]] = f[c[n][k]] /\ h2[c[n][k]] = h[c[n][k]]
    BY <1>6, <2>3
  <2>7. c[n] \in Seq(D \ {i})
    <3>1. c[n] = [k \in 1..Len(c[n]) |-> c[n][k]] /\ Len(c[n]) \in Nat
      BY <1>in
    <3> QED BY <2>3, <3>1
  <2> QED BY <2>4, <2>5, <2>6, <2>7, SameChain
<1>11. ChainOK(f2, h2, nn, at, d)
  <2>1. Distinct(d)
    BY <1>in, <1>2, <1>3, <1>4, RemoveDistinct, Zenon DEF d, len
  <2>el. \A k \in 1..len : /\ c[at][k] \in Iterators /\ c[at][k] # at
                           /\ nn[c[at][k]] = at
                           /\ f[c[at][k]] = IF k < len THEN c[at][k + 1] ELSE Null
                           /\ h[c[at][k]] = IF k = 1 THEN at ELSE c[at][k - 1]
    <3>1. ChainOK(f, h, nn, at, c[at]) /\ \A k \in 1..len : c[at][k] \in Iterators
      BY <1>1, <1>in, <1>2 DEF len
    <3>2. \A k \in 1..len : c[at][k] # at
      BY <1>2, <3>1, Apart
    <3> QED BY <3>1, <3>2 DEF ChainOK, len
  <2>ne. \A j, k \in 1..len : c[at][j] = c[at][k] => j = k
    BY <1>4 DEF Distinct, len
  <2>p. p \in 1..len
    BY <1>3 DEF len
  <2>fi. p < len => f[i] = c[at][p + 1] /\ p + 1 \in 1..len
    BY <1>4, <2>p
  <2>fn. ~(p < len) => f[i] = Null
    BY <1>4
  <2>hi. p # 1 => h[i] = c[at][p - 1] /\ p - 1 \in 1..len
    BY <1>4, <2>p
  <2>2. f2[at] = IF d = <<>> THEN Null ELSE d[1]
    <3>0. d = <<>> <=> len = 1
      BY <1>4, <1>7, <2>p
    <3>1. CASE p = 1
      <4>1. f2[at] = f[i]
        BY <1>4, <1>6, <3>1
      <4>2. len # 1 => d[1] = c[at][1 + 1] /\ 1 < len
        BY <1>4, <1>7, <2>p, <3>1
      <4> QED BY <2>fi, <2>fn, <3>0, <3>1, <4>1, <4>2
    <3>2. CASE p # 1
      <4>1. h[i] # at
        BY <2>el, <2>hi, <3>2
      <4>2. f2[at] = c[at][1]
        BY <1>2, <1>4, <1>6, <4>1
      <4>3. len # 1 /\ d[1] = c[at][1]
        BY <1>4, <1>7, <2>p, <3>2
      <4> QED BY <3>0, <4>2, <4>3
    <3> QED BY <3>1, <3>2
  <2>3. ASSUME NEW k \in 1..Len(d)
        PROVE  /\ f2[d[k]] = IF k < Len(d) THEN d[k + 1] ELSE Null
               /\ h2[d[k]] = IF k = 1 THEN at ELSE d[k - 1]
    <3>0. k \in 1..(len - 1) /\ k \in Int /\ Len(d) = len - 1
      BY <1>4, <1>7
    <3>1. CASE k < p
      <4>1. /\ k \in 1..len /\ d[k] = c[at][k] /\ k < len
            /\ (k # 1 => k - 1 \in 1..(len - 1) /\ d[k - 1] = c[at][k - 1])
        BY <1>4, <1>7, <2>p, <3>0, <3>1
      <4>2. d[k] # f[i] /\ d[k] \in Iterators
        <5>1. p < len => p + 1 # k
          BY <1>4, <3>1, <3>0
        <5> QED BY <2>el, <2>ne, <2>fi, <2>fn, <4>1, <5>1, Apart
      <4>3. h2[d[k]] = IF k = 1 THEN at ELSE d[k - 1]
        BY <1>6, <2>el, <4>1, <4>2
      <4>4. CASE k = p - 1
        <5>1. d[k] = h[i] /\ f2[d[k]] = f[i]
          BY <1>4, <1>6, <2>hi, <4>1, <4>4, <3>0
        <5>2. k + 1 = p /\ (k < Len(d) <=> p < len) /\ (p < len => d[p] = c[at][p + 1])
          BY <1>4, <1>7, <2>p, <3>0, <4>4
        <5> QED BY <2>fi, <2>fn, <4>3, <5>1, <5>2
      <4>5. CASE k # p - 1
        <5>1. k < p - 1 /\ p # 1 /\ k + 1 \in 1..(len - 1) /\ k < Len(d) /\ d[k + 1] = c[at][k + 1]
          BY <1>4, <1>7, <2>p, <3>0, <3>1, <4>5
        <5>2. d[k] # h[i]
          BY <2>ne, <2>hi, <4>1, <4>5, <5>1
        <5>3. f2[d[k]] = c[at][k + 1]
          BY <1>6, <2>el, <4>1, <5>2
        <5> QED BY <4>3, <5>1, <5>3
      <4> QED BY <4>4, <4>5
    <3>2. CASE ~(k < p)
      <4> DEFINE m == k + 1
      <4>1. /\ m \in 1..len /\ d[k] = c[at][m] /\ (k < Len(d) <=> m < len) /\ m # 1 /\ m - 1 = k
            /\ (k < Len(d) => d[k + 1] = c[at][m + 1])
            /\ (k # p => k # 1 /\ d[k - 1] = c[at][k])
            /\ (k = p /\ k # 1 => d[k - 1] = c[at][p - 1])
        <5>1. p \in 1..len /\ k \in Int /\ len \in Nat /\ k >= p
          BY <1>4, <2>p, <3>0, <3>2
        <5>2. m \in 1..len /\ d[k] = c[at][m] /\ (k < Len(d) <=> m < len) /\ m # 1 /\ m - 1 = k
          BY <1>7, <3>0, <5>1
        <5>3. k < Len(d) => k + 1 \in 1..(len - 1) /\ d[k + 1] = c[at][m + 1]
          BY <1>7, <3>0, <5>1
        <5>4. k # 1 => k - 1 \in 1..(len - 1) /\ d[k - 1] = IF k - 1 < p THEN c[at][k - 1] ELSE c[at][(k - 1) + 1]
          BY <1>7, <3>0, <5>1
        <5>5. k # p => k # 1 /\ ~(k - 1 < p) /\ (k - 1) + 1 = k
          BY <5>1
        <5>6. k = p => k - 1 < p
          BY <5>1
        <5> QED BY <5>2, <5>3, <5>4, <5>5, <5>6
      <4>2. d[k] # h[i] /\ d[k] \in Iterators
        <5>1. m # p - 1
          BY <1>4, <3>0, <3>2
        <5> HIDE DEF m
        <5> QED BY <1>4, <2>el, <2>ne, <2>hi, <4>1, <5>1
      <4>3. f2[d[k]] = IF k < Len(d) THEN d[k + 1] ELSE Null
        <5>1. f2[d[k]] = f[c[at][m]]
          BY <1>6, <4>1, <4>2
        <5> HIDE DEF m
        <5> QED BY <2>el, <4>1, <5>1
      <4>4. h2[d[k]] = IF k = 1 THEN at ELSE d[k - 1]
        <5>1. CASE k = p
          <6>1. p < len /\ d[k] = f[i]
            BY <1>4, <2>fi, <3>0, <4>1, <5>1
          <6>2. h2[d[k]] = h[i]
            BY <1>6, <4>2, <6>1
          <6> QED BY <2>hi, <1>4, <4>1, <5>1, <6>2
        <5>2. CASE k # p
          <6>1. m # p + 1
            BY <1>4, <3>0, <5>2
          <6>2. d[k] # f[i]
            <7> HIDE DEF m
            <7> QED BY <2>el, <2>ne, <2>fi, <2>fn, <4>1, <6>1, Apart
          <6>3. h2[d[k]] = h[c[at][m]]
            BY <1>6, <4>1, <4>2, <6>2
          <6>4. h[c[at][m]] = c[at][m - 1]
            <7> HIDE DEF m
            <7> QED BY <2>el, <4>1
          <6> QED BY <4>1, <5>2, <6>3, <6>4
        <5> QED BY <5>1, <5>2
      <4> QED BY <4>3, <4>4
    <3> QED BY <3>1, <3>2
  <2>4. \A k \in 1..Len(d) : nn[d[k]] = at
    BY <1>7, <1>8
  <2> QED BY <2>1, <2>2, <2>3, <2>4 DEF ChainOK
<1>12. ASSUME NEW j \in D \ {i} PROVE IsIn(j, c2[nn[j]])
  <2>1. nn[j] \in Nodes /\ IsIn(j, c[nn[j]])
    BY <1>1
  <2>2. CASE nn[j] = at
    <3>1. IsIn(j, d)
      <4>1. \A x : IsIn(x, d) <=> x # c[at][p] /\ IsIn(x, c[at])
        BY <1>in, <1>2, <1>3, <1>4, RemoveDistinct, Zenon DEF d, len
      <4> QED BY <1>3, <2>1, <2>2, <4>1
    <3> QED BY <1>1, <2>2, <3>1
  <2>3. CASE nn[j] # at
    BY <1>1, <2>1, <2>3
  <2> QED BY <2>2, <2>3
<1>13. /\ c2 \in [Nodes -> Seq(D \ {i})]
       /\ \A n \in Nodes : ChainOK(f2, h2, nn, n, c2[n])
  <2>1. \A n \in Nodes : c2[n] = IF n = at THEN d ELSE c[n]
    BY <1>1
  <2>2. c2 = [n \in Nodes |-> c2[n]]
    BY <1>1
  <2> HIDE DEF c2, at
  <2> QED BY <1>9, <1>10, <1>11, <2>1, <2>2
<1>14. ChainsOK(f2, h2, nn, c2, D \ {i})
  <2>1. D \ {i} \subseteq Iterators
    BY <1>1
  <2> HIDE DEF c2
  <2> QED BY <1>1, <1>6, <1>12, <1>13, <2>1 DEF ChainsOK
<1> QED BY <1>14, Zenon DEF f2, h2

\* The stack of a walk that is over.
LEMMA GoneOK ==
  ASSUME NEW f, NEW h, NEW nn, NEW c, NEW D, ChainsOK(f, h, nn, c, D), NEW i \in Iterators \ D
  PROVE  ChainsOK([f EXCEPT ![i] = Null], [h EXCEPT ![i] = Null], [nn EXCEPT ![i] = ListHead], c, D)
<1> DEFINE f2 == [f EXCEPT ![i] = Null]
           h2 == [h EXCEPT ![i] = Null]
           nn2 == [nn EXCEPT ![i] = ListHead]
<1>1. /\ f \in [Nodes \cup Iterators -> Iterators \cup {Null}]
      /\ h \in [Iterators -> Nodes \cup Iterators \cup {Null}]
      /\ nn \in [Iterators -> Nodes]
      /\ D \subseteq Iterators /\ c \in [Nodes -> Seq(D)]
      /\ \A n \in Nodes : ChainOK(f, h, nn, n, c[n])
      /\ \A j \in D : IsIn(j, c[nn[j]])
  BY DEF ChainsOK
<1>2. /\ f2 \in [Nodes \cup Iterators -> Iterators \cup {Null}]
      /\ h2 \in [Iterators -> Nodes \cup Iterators \cup {Null}]
      /\ nn2 \in [Iterators -> Nodes]
  BY <1>1, Apart
<1>3. /\ \A x \in Nodes \cup Iterators : x # i => f2[x] = f[x]
      /\ \A x \in Iterators : x # i => h2[x] = h[x] /\ nn2[x] = nn[x]
  BY <1>1
<1> HIDE DEF f2, h2, nn2
<1>4. ASSUME NEW n \in Nodes PROVE ChainOK(f2, h2, nn2, n, c[n])
  <2>1. \A k \in 1..Len(c[n]) : c[n][k] \in D /\ c[n][k] \in Iterators
    BY InChain
  <2>2. n # i
    BY Apart
  <2>3. /\ f2[n] = f[n]
        /\ \A k \in 1..Len(c[n]) : /\ f2[c[n][k]] = f[c[n][k]] /\ h2[c[n][k]] = h[c[n][k]]
                                   /\ nn2[c[n][k]] = nn[c[n][k]]
    BY <1>3, <2>1, <2>2
  <2> QED BY <1>1, <2>3, SameChain
<1>5. \A j \in D : IsIn(j, c[nn2[j]])
  BY <1>1, <1>3
<1>6. ChainsOK(f2, h2, nn2, c, D)
  BY <1>1, <1>2, <1>4, <1>5 DEF ChainsOK
<1> QED BY <1>6 DEF f2, h2, nn2

\* The loop of safe_list_del goes through the whole chain of the node.
LEMMA OneChain ==
  ASSUME NEW f, NEW h, NEW nn, NEW c, NEW D, ChainsOK(f, h, nn, c, D), NEW n \in Nodes,
         NEW chain \in Chains, IsChain([first |-> f, head |-> h, nextNode |-> nn], n, chain)
  PROVE  chain = c[n]
<1> DEFINE b == c[n]
           From(k) == IF k = 0 THEN n ELSE chain[k]
<1>1. chain \in Seq(Iterators) /\ Len(chain) \in Nat /\ chain = [k \in 1..Len(chain) |-> chain[k]]
  BY SafeListAssumption DEF Chains, SeqOf
<1>2. \A k \in 0..Len(chain) : f[From(k)] = IF k < Len(chain) THEN chain[k + 1] ELSE Null
  BY DEF IsChain
<1>3. /\ b \in Seq(D) /\ Len(b) \in Nat /\ b = [k \in 1..Len(b) |-> b[k]]
      /\ \A k \in 1..Len(b) : b[k] \in Iterators /\ b[k] # Null
      /\ b = <<>> <=> Len(b) = 0
  BY InChain, Apart
<1>4. /\ f[n] = IF b = <<>> THEN Null ELSE b[1]
      /\ \A k \in 1..Len(b) : f[b[k]] = IF k < Len(b) THEN b[k + 1] ELSE Null
  BY DEF ChainsOK, ChainOK
<1>5. \A k \in 1..Len(chain) : chain[k] # Null
  BY <1>1, Apart
<1> HIDE DEF b
<1> DEFINE Same(k) == k <= Len(chain) /\ k <= Len(b) /\ (k > 0 => chain[k] = b[k])
           T == {k \in Nat : Same(k) \/ k > Len(chain) \/ k > Len(b)}
<1>6. ASSUME NEW k \in Nat, Same(k)
      PROVE  /\ f[From(k)] = IF k < Len(b) THEN b[k + 1] ELSE Null
             /\ f[From(k)] = IF k < Len(chain) THEN chain[k + 1] ELSE Null
             /\ k < Len(b) <=> k < Len(chain)
  <2>1. f[From(k)] = IF k < Len(b) THEN b[k + 1] ELSE Null
    <3>1. CASE k = 0
      BY <1>3, <1>4, <3>1
    <3>2. CASE k # 0
      <4>1. k \in 1..Len(b) /\ From(k) = b[k]
        BY <1>6, <3>2
      <4> QED BY <1>4, <4>1
    <3> QED BY <3>1, <3>2
  <2>2. f[From(k)] = IF k < Len(chain) THEN chain[k + 1] ELSE Null
    BY <1>1, <1>2, <1>6
  <2>3. (k < Len(b) => k + 1 \in 1..Len(b)) /\ (k < Len(chain) => k + 1 \in 1..Len(chain))
    BY <1>1, <1>3
  <2> QED BY <1>3, <1>5, <2>1, <2>2, <2>3
<1>7. Nat \subseteq T
  <2>1. 0 \in T
    BY <1>1, <1>3
  <2>2. ASSUME NEW k \in Nat, k \in T PROVE k + 1 \in T
    <3>1. CASE Same(k)
      <4>1. k < Len(b) /\ k < Len(chain) => chain[k + 1] = b[k + 1]
        BY <1>6, <3>1
      <4> QED BY <1>1, <1>3, <3>1, <4>1
    <3>2. CASE k > Len(chain) \/ k > Len(b)
      BY <1>1, <1>3, <3>2
    <3> QED BY <2>2, <3>1, <3>2
  <2> HIDE DEF T
  <2> QED BY <2>1, <2>2, Induction
<1>8. Len(chain) = Len(b)
  <2>1. Len(chain) \in T /\ Len(b) \in T
    BY <1>1, <1>3, <1>7
  <2>2. CASE Len(chain) < Len(b)
    <3>1. Same(Len(chain))
      BY <1>1, <1>3, <2>1, <2>2
    <3> QED BY <1>1, <1>6, <2>2, <3>1
  <2>3. CASE Len(b) < Len(chain)
    <3>1. Same(Len(b))
      BY <1>1, <1>3, <2>1, <2>3
    <3> QED BY <1>3, <1>6, <2>3, <3>1
  <2>4. Len(chain) \in Nat /\ Len(b) \in Nat
    BY <1>1, <1>3
  <2> QED BY <2>2, <2>3, <2>4
<1>9. \A k \in 1..Len(b) : chain[k] = b[k]
  BY <1>1, <1>3, <1>7, <1>8
<1> QED BY <1>1, <1>3, <1>8, <1>9 DEF b

\* The end of safe_list_del: the chain of e goes in front of the chain of to.
LEMMA HandOK ==
  ASSUME NEW f, NEW h, NEW nn, NEW c, NEW D, ChainsOK(f, h, nn, c, D),
         NEW e \in Nodes, NEW to \in Nodes, e # to, c[e] # <<>>
  PROVE  LET hand == HandOver([first |-> f, head |-> h, nextNode |-> nn], e, to, c[e])
         IN  \E c2 : ChainsOK(hand.first, hand.head, hand.nextNode, c2, D)
<1> DEFINE b == c[e]
           a == c[to]
           d == b \o a
           lb == Len(b)
           la == Len(a)
           tail == Last(b)
           f2 == [f EXCEPT ![to] = f[e], ![tail] = f[to], ![e] = Null]
           nn2 == [j \in Iterators |-> IF Contains(b, j) THEN to ELSE nn[j]]
           h2 == [j \in Iterators |-> CASE j = f[e] -> to [] j = f[to] -> tail [] OTHER -> h[j]]
           c2 == [c EXCEPT ![to] = d, ![e] = <<>>]
<1>1. /\ f \in [Nodes \cup Iterators -> Iterators \cup {Null}]
      /\ h \in [Iterators -> Nodes \cup Iterators \cup {Null}]
      /\ nn \in [Iterators -> Nodes]
      /\ D \subseteq Iterators /\ c \in [Nodes -> Seq(D)]
      /\ \A n \in Nodes : ChainOK(f, h, nn, n, c[n])
      /\ \A j \in D : IsIn(j, c[nn[j]])
  BY DEF ChainsOK
<1>in. \A n \in Nodes : /\ c[n] \in Seq(D) /\ Len(c[n]) \in Nat
                        /\ \A k \in 1..Len(c[n]) : c[n][k] \in D /\ c[n][k] \in Iterators /\ nn[c[n][k]] = n
                        /\ c[n] = <<>> <=> Len(c[n]) = 0
  BY InChain
<1>2. /\ b \in Seq(D) /\ a \in Seq(D) /\ lb \in Nat \ {0} /\ la \in Nat
      /\ \A k \in 1..lb : b[k] \in D /\ b[k] \in Iterators /\ nn[b[k]] = e /\ b[k] \notin Nodes /\ b[k] # Null
      /\ \A k \in 1..la : a[k] \in D /\ a[k] \in Iterators /\ nn[a[k]] = to /\ a[k] \notin Nodes /\ a[k] # Null
  <2>1. \A x \in Iterators : x \notin Nodes /\ x # Null
    BY Apart
  <2>2. b \in Seq(D) /\ lb \in Nat /\ (b = <<>> <=> lb = 0) /\ \A k \in 1..lb : b[k] \in D /\ b[k] \in Iterators /\ nn[b[k]] = e
    BY <1>in
  <2>3. a \in Seq(D) /\ la \in Nat /\ \A k \in 1..la : a[k] \in D /\ a[k] \in Iterators /\ nn[a[k]] = to
    BY <1>in
  <2>4. b # <<>>
    OBVIOUS
  <2> HIDE DEF a, b, la, lb
  <2> QED BY <2>1, <2>2, <2>3, <2>4
<1>3. ChainOK(f, h, nn, e, b) /\ ChainOK(f, h, nn, to, a)
  BY <1>1
<1>4. /\ tail = b[lb] /\ lb \in 1..lb /\ 1 \in 1..lb
      /\ f[e] = b[1] /\ f[to] = IF la = 0 THEN Null ELSE a[1]
  <2>1. tail = b[lb] /\ lb \in 1..lb /\ 1 \in 1..lb /\ (a = <<>> <=> la = 0) /\ b # <<>>
    BY <1>2 DEF Last
  <2> QED BY <1>3, <2>1 DEF ChainOK
<1>5. /\ d \in Seq(D) /\ Len(d) = lb + la
      /\ \A k \in 1..(lb + la) : d[k] = IF k <= lb THEN b[k] ELSE a[k - lb]
  <2> HIDE DEF a, b
  <2> QED BY <1>2, ConcatElements
<1>6. \A k \in 1..lb : Contains(b, b[k])
  BY DEF Contains
<1>7. \A x : Contains(b, x) => x \in Iterators /\ nn[x] = e
  BY <1>2 DEF Contains
<1>8. c2 \in [Nodes -> Seq(D)] /\ c2[to] = d /\ c2[e] = <<>>
      /\ \A n \in Nodes : n # to /\ n # e => c2[n] = c[n]
  <2>1. d \in Seq(D) /\ c \in [Nodes -> Seq(D)] /\ <<>> \in Seq(D)
    BY <1>1, <1>5
  <2> HIDE DEF d
  <2> QED BY <2>1
<1> HIDE DEF a, b, c2, d, la, lb, tail
<1>9. /\ f2 \in [Nodes \cup Iterators -> Iterators \cup {Null}]
      /\ h2 \in [Iterators -> Nodes \cup Iterators \cup {Null}]
      /\ nn2 \in [Iterators -> Nodes]
  <2>1. f[e] \in Iterators \cup {Null} /\ f[to] \in Iterators \cup {Null} /\ tail \in Iterators
    BY <1>1, <1>2, <1>4
  <2> QED BY <1>1, <2>1
<1>10. /\ f2[to] = b[1] /\ f2[tail] = f[to] /\ f2[e] = Null
       /\ \A x \in Nodes \cup Iterators : x # to /\ x # tail /\ x # e => f2[x] = f[x]
       /\ \A x \in Iterators : nn2[x] = IF Contains(b, x) THEN to ELSE nn[x]
       /\ h2[b[1]] = to
       /\ la # 0 => h2[a[1]] = tail
       /\ \A x \in Iterators : x # f[e] /\ x # f[to] => h2[x] = h[x]
  <2>1. tail \in Iterators /\ tail # to /\ tail # e /\ f[e] = b[1] /\ b[1] \in Iterators
    BY <1>2, <1>4, Apart
  <2>2. la # 0 => f[to] = a[1] /\ a[1] \in Iterators /\ a[1] # b[1]
    <3>1. la # 0 => 1 \in 1..la
      BY <1>2
    <3> QED BY <1>2, <1>4, <3>1
  <2>3. /\ f2[to] = b[1] /\ f2[tail] = f[to] /\ f2[e] = Null
        /\ \A x \in Nodes \cup Iterators : x # to /\ x # tail /\ x # e => f2[x] = f[x]
    BY <1>1, <2>1
  <2>4. \A x \in Iterators : nn2[x] = IF Contains(b, x) THEN to ELSE nn[x]
    OBVIOUS
  <2>5. h2[b[1]] = to
    <3>1. f[to] # b[1]
      BY <1>4, <1>2, <2>2
    <3> QED BY <2>1, <3>1
  <2>6. la # 0 => h2[a[1]] = tail
    BY <2>1, <2>2
  <2>7. \A x \in Iterators : x # f[e] /\ x # f[to] => h2[x] = h[x]
    OBVIOUS
  <2> HIDE DEF f2, h2, nn2
  <2> QED BY <2>3, <2>4, <2>5, <2>6, <2>7
<1> HIDE DEF f2, h2, nn2
<1>11. ASSUME NEW n \in Nodes, n # to, n # e PROVE ChainOK(f2, h2, nn2, n, c[n])
  <2>1. tail \in Iterators /\ nn[tail] = e /\ nn[f[e]] = e /\ (f[to] = Null \/ nn[f[to]] = to)
    <3>1. la # 0 => 1 \in 1..la
      BY <1>2
    <3> QED BY <1>2, <1>4, <3>1
  <2>2. ASSUME NEW k \in 1..Len(c[n])
        PROVE  LET x == c[n][k]
               IN  x \in Iterators /\ x # to /\ x # tail /\ x # e /\ x # f[e] /\ x # f[to] /\ ~Contains(b, x)
    <3>1. c[n][k] \in Iterators /\ nn[c[n][k]] = n
      BY <1>in
    <3> QED BY <1>7, <1>11, <2>1, <3>1, Apart
  <2>3. n # tail
    BY <2>1, Apart
  <2>4. /\ f2[n] = f[n]
        /\ \A k \in 1..Len(c[n]) : /\ f2[c[n][k]] = f[c[n][k]] /\ h2[c[n][k]] = h[c[n][k]]
                                   /\ nn2[c[n][k]] = nn[c[n][k]]
    BY <1>10, <1>11, <2>2, <2>3
  <2>5. ChainOK(f, h, nn, n, c[n])
    BY <1>1
  <2> QED BY <2>4, <2>5, SameChain
<1>12. ChainOK(f2, h2, nn2, e, <<>>)
  BY <1>10 DEF ChainOK, Distinct
<1>13. ChainOK(f2, h2, nn2, to, d)
  <2>b. ASSUME NEW k \in 1..lb
        PROVE  /\ b[k] # to /\ b[k] # e /\ b[k] \in Iterators /\ b[k] # f[to]
               /\ nn2[b[k]] = to
               /\ (k # lb => b[k] # tail) /\ (k # 1 => b[k] # f[e])
               /\ f[b[k]] = IF k < lb THEN b[k + 1] ELSE Null
               /\ h[b[k]] = IF k = 1 THEN e ELSE b[k - 1]
    <3>1. /\ b[k] \in Iterators /\ b[k] \notin Nodes /\ nn[b[k]] = e /\ b[k] # Null
      BY <1>2
    <3>2. /\ f[b[k]] = IF k < lb THEN b[k + 1] ELSE Null
          /\ h[b[k]] = IF k = 1 THEN e ELSE b[k - 1]
          /\ \A j \in 1..lb : b[j] = b[k] => j = k
      BY <1>3 DEF ChainOK, Distinct, lb
    <3>3. b[k] # f[to]
      <4>1. la # 0 => 1 \in 1..la
        BY <1>2
      <4> QED BY <1>2, <1>4, <3>1, <4>1
    <3>4. nn2[b[k]] = to
      BY <1>6, <1>10, <3>1
    <3> QED BY <1>4, <3>1, <3>2, <3>3, <3>4
  <2>a. ASSUME NEW k \in 1..la
        PROVE  /\ a[k] # to /\ a[k] # e /\ a[k] \in Iterators /\ a[k] # f[e] /\ a[k] # tail
               /\ nn2[a[k]] = to
               /\ (k # 1 => a[k] # f[to])
               /\ f[a[k]] = IF k < la THEN a[k + 1] ELSE Null
               /\ h[a[k]] = IF k = 1 THEN to ELSE a[k - 1]
    <3>1. /\ a[k] \in Iterators /\ a[k] \notin Nodes /\ nn[a[k]] = to /\ a[k] # Null
      BY <1>2
    <3>2. /\ f[a[k]] = IF k < la THEN a[k + 1] ELSE Null
          /\ h[a[k]] = IF k = 1 THEN to ELSE a[k - 1]
          /\ \A j \in 1..la : a[j] = a[k] => j = k
      BY <1>3 DEF ChainOK, Distinct, la
    <3>3. a[k] # f[e] /\ a[k] # tail
      BY <1>2, <1>4, <3>1
    <3>4. k # 1 => a[k] # f[to]
      <4>1. 1 \in 1..la /\ la # 0
        BY <1>2
      <4> QED BY <1>4, <3>2, <4>1
    <3>5. nn2[a[k]] = to
      BY <1>7, <1>10, <3>1
    <3> QED BY <3>1, <3>2, <3>3, <3>4, <3>5
  <2>i. lb \in Nat /\ la \in Nat /\ lb > 0 /\ Len(d) = lb + la
    BY <1>2, <1>5
  <2>1. Distinct(d)
    <3>1. \A j, k \in 1..lb : b[j] = b[k] => j = k
      BY <1>3 DEF ChainOK, Distinct, lb
    <3>2. \A j, k \in 1..la : a[j] = a[k] => j = k
      BY <1>3 DEF ChainOK, Distinct, la
    <3>3. \A j \in 1..lb, k \in 1..la : b[j] # a[k]
      BY <1>2
    <3>4. ASSUME NEW j \in 1..Len(d), NEW k \in 1..Len(d), d[j] = d[k] PROVE j = k
      <4>1. ASSUME NEW m \in 1..Len(d)
            PROVE  /\ m <= lb => m \in 1..lb /\ d[m] = b[m]
                   /\ m > lb => m - lb \in 1..la /\ d[m] = a[m - lb]
        BY <1>5, <2>i
      <4>2. CASE j <= lb /\ k <= lb
        BY <3>1, <3>4, <4>1, <4>2
      <4>3. CASE j > lb /\ k > lb
        <5>1. j - lb = k - lb
          BY <3>2, <3>4, <4>1, <4>3
        <5> QED BY <2>i, <5>1
      <4>4. CASE j <= lb /\ k > lb
        BY <3>3, <3>4, <4>1, <4>4
      <4>5. CASE j > lb /\ k <= lb
        BY <3>3, <3>4, <4>1, <4>5
      <4>6. j \in Int /\ k \in Int
        OBVIOUS
      <4> QED BY <2>i, <4>2, <4>3, <4>4, <4>5, <4>6
    <3> QED BY <3>4 DEF Distinct
  <2>2. f2[to] = IF d = <<>> THEN Null ELSE d[1]
    BY <1>5, <1>10, <2>i
  <2>3. ASSUME NEW k \in 1..Len(d)
        PROVE  /\ nn2[d[k]] = to
               /\ f2[d[k]] = IF k < Len(d) THEN d[k + 1] ELSE Null
               /\ h2[d[k]] = IF k = 1 THEN to ELSE d[k - 1]
    <3>1. CASE k <= lb
      <4>1. k \in 1..lb /\ d[k] = b[k] /\ (k < lb => k < Len(d) /\ d[k + 1] = b[k + 1])
            /\ (k # 1 => d[k - 1] = b[k - 1])
        BY <1>5, <2>i, <3>1
      <4>2. nn2[d[k]] = to
        BY <2>b, <4>1
      <4>3. h2[d[k]] = IF k = 1 THEN to ELSE d[k - 1]
        BY <1>10, <2>b, <4>1
      <4>4. CASE k < lb
        BY <1>10, <2>b, <4>1, <4>2, <4>3, <4>4
      <4>5. CASE k = lb
        <5>1. k < Len(d) <=> la # 0
          BY <2>i, <4>5
        <5>2. la # 0 => d[k + 1] = a[1]
          <6>1. la # 0 => k + 1 \in 1..(lb + la) /\ ~(k + 1 <= lb) /\ (k + 1) - lb = 1
            BY <2>i, <4>5
          <6> QED BY <1>5, <6>1
        <5>3. f2[d[k]] = f[to]
          BY <1>4, <1>10, <4>1, <4>5
        <5> QED BY <1>4, <4>2, <4>3, <5>1, <5>2, <5>3
      <4> QED BY <2>i, <3>1, <4>4, <4>5
    <3>2. CASE k > lb
      <4> DEFINE m == k - lb
      <4>1. m \in 1..la /\ d[k] = a[m] /\ (k < Len(d) <=> m < la) /\ k # 1
        BY <1>5, <2>i, <3>2
      <4>2. m < la => d[k + 1] = a[m + 1]
        <5>1. m < la => k + 1 \in 1..(lb + la) /\ ~(k + 1 <= lb) /\ (k + 1) - lb = m + 1
          BY <2>i, <3>2
        <5> QED BY <1>5, <5>1
      <4>3. d[k - 1] = IF m = 1 THEN tail ELSE a[m - 1]
        <5>1. k - 1 \in 1..(lb + la) /\ (m = 1 => k - 1 = lb) /\ (m # 1 => ~(k - 1 <= lb)) /\ (k - 1) - lb = m - 1
          BY <2>i, <3>2
        <5>2. lb <= lb
          BY <2>i
        <5> HIDE DEF m
        <5> QED BY <1>4, <1>5, <5>1, <5>2
      <4>4. h2[d[k]] = d[k - 1]
        <5>1. CASE m = 1
          <6>1. la # 0
            BY <4>1, <5>1, <2>i
          <6> QED BY <1>10, <4>1, <4>3, <5>1, <6>1
        <5>2. CASE m # 1
          <6> HIDE DEF m
          <6> QED BY <1>10, <2>a, <4>1, <4>3, <5>2
        <5> QED BY <5>1, <5>2
      <4>5. nn2[d[k]] = to /\ f2[d[k]] = f[a[m]] /\ f[a[m]] = IF m < la THEN a[m + 1] ELSE Null
        <5> HIDE DEF m
        <5> QED BY <1>10, <2>a, <4>1
      <4> QED BY <4>1, <4>2, <4>4, <4>5
    <3> QED BY <2>i, <3>1, <3>2
  <2> QED BY <2>1, <2>2, <2>3 DEF ChainOK
<1>14. ASSUME NEW j \in D PROVE IsIn(j, c2[nn2[j]])
  <2>0. j \in Iterators /\ nn[j] \in Nodes /\ IsIn(j, c[nn[j]])
    BY <1>1
  <2>1. CASE Contains(b, j)
    <3>1. PICK k \in 1..lb : b[k] = j
      BY <2>1 DEF Contains, lb
    <3>2. k \in 1..Len(d) /\ d[k] = j
      BY <1>2, <1>5, <3>1
    <3> QED BY <1>8, <1>10, <2>0, <2>1, <3>2 DEF IsIn
  <2>2. CASE ~Contains(b, j)
    <3>1. nn2[j] = nn[j]
      BY <1>10, <2>0, <2>2
    <3>2. nn[j] # e
      BY <2>0, <2>2 DEF IsIn, Contains, b
    <3>3. CASE nn[j] = to
      <4>1. PICK k \in 1..la : a[k] = j
        BY <2>0, <3>3 DEF IsIn, a, la
      <4>2. lb + k \in 1..Len(d) /\ ~(lb + k <= lb) /\ (lb + k) - lb = k
        BY <1>2, <1>5
      <4>3. d[lb + k] = j
        BY <1>5, <4>1, <4>2
      <4> QED BY <1>8, <3>1, <3>3, <4>2, <4>3 DEF IsIn
    <3>4. CASE nn[j] # to
      BY <1>8, <2>0, <3>1, <3>2, <3>4
    <3> QED BY <3>3, <3>4
  <2> QED BY <2>1, <2>2
<1>15. \A n \in Nodes : ChainOK(f2, h2, nn2, n, c2[n])
  BY <1>8, <1>11, <1>12, <1>13
<1>16. ChainsOK(f2, h2, nn2, c2, D)
  BY <1>1, <1>8, <1>9, <1>14, <1>15 DEF ChainsOK
<1> DEFINE hand == HandOver([first |-> f, head |-> h, nextNode |-> nn], e, to, b)
<1>17. hand.first = f2 /\ hand.head = h2 /\ hand.nextNode = nn2
  BY DEF HandOver, f2, h2, nn2, tail
<1> QED BY <1>16, <1>17, Zenon DEF b

-----------------------------------------------------------------------------
(* The list. *)

\* The nodes in the order of the list, with the head at both ends.
Node(s, k) == IF k \in 1..Len(s) THEN s[k] ELSE ListHead

\* The pointers of list.h link the elements of s in its order.
LinksOK(nx, pv, s) ==
  /\ nx \in [Nodes -> Nodes \cup {Null}] /\ pv \in [Nodes -> Nodes \cup {Null}]
  /\ s \in Seq(Elements) /\ Distinct(s)
  /\ \A e \in Elements : nx[e] # Null <=> IsIn(e, s)
  /\ \A k \in 0..Len(s) : nx[Node(s, k)] = Node(s, k + 1) /\ pv[Node(s, k + 1)] = Node(s, k)

\* What nodes are; each is at one position.
LEMMA NodeApart ==
  ASSUME NEW s \in Seq(Elements), Distinct(s)
  PROVE  /\ Len(s) \in Nat
         /\ \A k \in Int : Node(s, k) \in Nodes
         /\ \A k \in 1..Len(s) : Node(s, k) = s[k] /\ s[k] \in Elements /\ s[k] # ListHead
         /\ Node(s, 0) = ListHead /\ Node(s, Len(s) + 1) = ListHead
         /\ \A j, k \in 0..Len(s) : Node(s, j) = Node(s, k) => j = k
         /\ \A j, k \in 1..(Len(s) + 1) : Node(s, j) = Node(s, k) => j = k
<1>1. Len(s) \in Nat /\ \A k \in 1..Len(s) : s[k] \in Elements
  OBVIOUS
<1>2. \A k \in 1..Len(s) : Node(s, k) = s[k] /\ s[k] \in Elements /\ s[k] # ListHead
  BY <1>1, SafeListAssumption DEF Node
<1>3. \A k \in Int : Node(s, k) \in Nodes
  BY <1>1, Apart DEF Node, Nodes
<1>4. Node(s, 0) = ListHead /\ Node(s, Len(s) + 1) = ListHead
  BY <1>1 DEF Node
<1>5. \A j, k \in 1..Len(s) : s[j] = s[k] => j = k
  BY DEF Distinct
<1>6. /\ \A k \in 0..Len(s) : k \in 1..Len(s) \/ k = 0
      /\ \A k \in 1..(Len(s) + 1) : k \in 1..Len(s) \/ k = Len(s) + 1
  BY <1>1
<1>7. \A j, k \in 0..Len(s) : Node(s, j) = Node(s, k) => j = k
  BY <1>2, <1>4, <1>5, <1>6
<1>8. \A j, k \in 1..(Len(s) + 1) : Node(s, j) = Node(s, k) => j = k
  BY <1>2, <1>4, <1>5, <1>6
<1> QED BY <1>1, <1>2, <1>3, <1>4, <1>7, <1>8

\* _list_add between the nodes i - 1 and i.
LEMMA LinkOK ==
  ASSUME NEW nx, NEW pv, NEW s, LinksOK(nx, pv, s), NEW i \in 1..(Len(s) + 1),
         NEW e \in Elements, nx[e] = Null
  PROVE  LET p == Node(s, i - 1)
             n == Node(s, i)
         IN  LinksOK([nx EXCEPT ![e] = n, ![p] = e], [pv EXCEPT ![n] = e, ![e] = p], InsertAt(s, i, e))
<1> DEFINE p == Node(s, i - 1)
           n == Node(s, i)
           nx2 == [nx EXCEPT ![e] = n, ![p] = e]
           pv2 == [pv EXCEPT ![n] = e, ![e] = p]
           t == InsertAt(s, i, e)
           len == Len(s)
<1>1. /\ nx \in [Nodes -> Nodes \cup {Null}] /\ pv \in [Nodes -> Nodes \cup {Null}]
      /\ s \in Seq(Elements) /\ Distinct(s) /\ ~IsIn(e, s)
      /\ \A x \in Elements : nx[x] # Null <=> IsIn(x, s)
      /\ \A k \in 0..len : nx[Node(s, k)] = Node(s, k + 1) /\ pv[Node(s, k + 1)] = Node(s, k)
  BY DEF LinksOK
<1>2. /\ len \in Nat /\ i \in 1..(len + 1)
      /\ \A k \in Int : Node(s, k) \in Nodes
      /\ \A k \in 1..len : Node(s, k) = s[k] /\ s[k] # ListHead
      /\ Node(s, 0) = ListHead /\ Node(s, len + 1) = ListHead
      /\ \A j, k \in 0..len : Node(s, j) = Node(s, k) => j = k
      /\ \A j, k \in 1..(len + 1) : Node(s, j) = Node(s, k) => j = k
  BY <1>1, NodeApart
<1>3. /\ t \in Seq(Elements) /\ Len(t) = len + 1
      /\ \A k \in 1..(len + 1) : (k < i => t[k] = s[k]) /\ (k = i => t[k] = e) /\ (k > i => t[k] = s[k - 1])
  BY <1>1, InsertAtEach
<1>4. Distinct(t) /\ \A x : IsIn(x, t) <=> x = e \/ IsIn(x, s)
  BY <1>1, InsertDistinct, Zenon
<1> HIDE DEF t, len
<1>5. \A k \in 0..(len + 1) : Node(s, k) # e
  <2>1. \A k \in 1..len : s[k] # e
    BY <1>1 DEF IsIn, len
  <2>2. e # ListHead
    BY SafeListAssumption
  <2>3. \A k \in 0..(len + 1) : k \in 1..len \/ k = 0 \/ k = len + 1
    BY <1>2
  <2> QED BY <1>2, <2>1, <2>2, <2>3
<1>6. ASSUME NEW k \in 0..(len + 2)
      PROVE  (k < i => Node(t, k) = Node(s, k)) /\ (k = i => Node(t, k) = e) /\ (k > i => Node(t, k) = Node(s, k - 1))
  <2>1. Node(t, k) = IF k \in 1..(len + 1) THEN t[k] ELSE ListHead
    BY <1>3 DEF Node
  <2>2. k < i /\ k # 0 => k \in 1..(len + 1) /\ k \in 1..len
    BY <1>2
  <2>3. k > i => k - 1 \in 1..len \/ k = len + 2
    BY <1>2
  <2>4. k > i /\ k # len + 2 => k \in 1..(len + 1)
    BY <1>2
  <2>5. (len + 2) - 1 = len + 1 /\ ~(len + 2 \in 1..(len + 1)) /\ ~(0 \in 1..(len + 1))
    BY <1>2
  <2> QED BY <1>2, <1>3, <2>1, <2>2, <2>3, <2>4, <2>5
<1>7. p \in Nodes /\ n \in Nodes /\ p # e /\ n # e /\ e \in Nodes
      /\ i - 1 \in 0..len /\ i \in Int
  BY <1>2, <1>5, Apart
<1> HIDE DEF p, n
<1>8. /\ nx2 \in [Nodes -> Nodes \cup {Null}] /\ pv2 \in [Nodes -> Nodes \cup {Null}]
      /\ nx2[e] = n /\ nx2[p] = e /\ \A x \in Nodes : x # e /\ x # p => nx2[x] = nx[x]
      /\ pv2[n] = e /\ pv2[e] = p /\ \A x \in Nodes : x # e /\ x # n => pv2[x] = pv[x]
  BY <1>1, <1>7
<1> HIDE DEF nx2, pv2
<1>9. ASSUME NEW x \in Elements PROVE nx2[x] # Null <=> IsIn(x, t)
  <2>0. x \in Nodes /\ Null \notin Nodes
    BY Apart
  <2>1. CASE x = e
    BY <1>4, <1>7, <1>8, <2>0, <2>1
  <2>2. CASE x = p
    <3>1. i - 1 \in 1..len
      <4>1. i - 1 # 0
        BY <1>2, <2>2, SafeListAssumption DEF p
      <4> QED BY <1>2, <1>7, <4>1
    <3>2. IsIn(x, s)
      BY <1>2, <2>2, <3>1 DEF IsIn, p, len
    <3> QED BY <1>4, <1>7, <1>8, <2>0, <2>2, <3>2
  <2>3. CASE x # e /\ x # p
    BY <1>1, <1>4, <1>8, <2>0, <2>3
  <2> QED BY <2>1, <2>2, <2>3
<1>10. ASSUME NEW k \in 0..Len(t)
       PROVE  nx2[Node(t, k)] = Node(t, k + 1) /\ pv2[Node(t, k + 1)] = Node(t, k)
  <2>0. k \in 0..(len + 2) /\ k + 1 \in 0..(len + 2) /\ k \in Int
    BY <1>2, <1>3
  <2>1. CASE k < i - 1
    <3>1. k < i /\ k + 1 < i /\ k \in 0..len /\ k # i - 1 /\ k + 1 \in 1..(len + 1) /\ k + 1 # i /\ k + 1 \in 0..(len + 1)
      BY <1>2, <2>0, <2>1
    <3>2. Node(t, k) = Node(s, k) /\ Node(t, k + 1) = Node(s, k + 1)
      BY <1>6, <2>0, <3>1
    <3>3. /\ Node(s, k) \in Nodes /\ Node(s, k) # p /\ Node(s, k) # e
          /\ Node(s, k + 1) \in Nodes /\ Node(s, k + 1) # n /\ Node(s, k + 1) # e
      <4>1. k \in 0..(len + 1) /\ k + 1 \in Int
        BY <1>2, <2>0, <3>1
      <4> QED BY <1>2, <1>5, <1>7, <2>0, <3>1, <4>1 DEF p, n
    <3> QED BY <1>1, <1>8, <3>1, <3>2, <3>3
  <2>2. CASE k = i - 1
    <3>1. k < i /\ k + 1 = i
      BY <1>7, <2>2
    <3>2. Node(t, k) = p /\ Node(t, k + 1) = e
      BY <1>6, <2>0, <2>2, <3>1 DEF p
    <3> QED BY <1>8, <3>2
  <2>3. CASE k = i
    <3>1. k + 1 > i /\ (k + 1) - 1 = i
      BY <1>7, <2>3
    <3>2. Node(t, k) = e /\ Node(t, k + 1) = n
      BY <1>6, <2>0, <2>3, <3>1 DEF n
    <3> QED BY <1>8, <3>2
  <2>4. CASE k > i
    <3> DEFINE m == k - 1
    <3>1. m \in 0..len /\ m # i - 1 /\ m + 1 = k /\ k \in 1..(len + 1) /\ k # i /\ k + 1 > i /\ (k + 1) - 1 = k
          /\ k \in 0..(len + 1) /\ m \in 0..(len + 1) /\ m \in Int
      BY <1>2, <1>3, <1>7, <2>4
    <3>2. Node(t, k) = Node(s, m) /\ Node(t, k + 1) = Node(s, k)
      BY <1>6, <2>0, <2>4, <3>1
    <3> HIDE DEF m
    <3>3. /\ Node(s, m) \in Nodes /\ Node(s, m) # p /\ Node(s, m) # e
          /\ Node(s, k) \in Nodes /\ Node(s, k) # n /\ Node(s, k) # e
      BY <1>2, <1>5, <1>7, <2>0, <3>1 DEF p, n
    <3>4. nx[Node(s, m)] = Node(s, k) /\ pv[Node(s, k)] = Node(s, m)
      BY <1>1, <3>1
    <3> QED BY <1>8, <3>2, <3>3, <3>4
  <2> QED BY <1>7, <2>0, <2>1, <2>2, <2>3, <2>4
<1>11. LinksOK(nx2, pv2, t)
  BY <1>3, <1>4, <1>8, <1>9, <1>10 DEF LinksOK
<1> QED BY <1>11 DEF nx2, pv2, n, p, t

\* The pointers in one direction without element e; back are those in the other.
Without(to, back, e) == [to EXCEPT ![back[e]] = to[e], ![e] = Null]

\* list_del of the element q.
LEMMA UnlinkOK ==
  ASSUME NEW nx, NEW pv, NEW s, LinksOK(nx, pv, s), NEW q \in 1..Len(s)
  PROVE  /\ nx[s[q]] = Node(s, q + 1) /\ nx[s[q]] # s[q]
         /\ LinksOK(Without(nx, pv, s[q]), Without(pv, nx, s[q]), RemoveAt(s, q))
<1> DEFINE e == s[q]
           p == Node(s, q - 1)
           n == Node(s, q + 1)
           nx2 == [nx EXCEPT ![p] = n, ![e] = Null]
           pv2 == [pv EXCEPT ![n] = p, ![e] = Null]
           t == RemoveAt(s, q)
           len == Len(s)
<1>1. /\ nx \in [Nodes -> Nodes \cup {Null}] /\ pv \in [Nodes -> Nodes \cup {Null}]
      /\ s \in Seq(Elements) /\ Distinct(s)
      /\ \A x \in Elements : nx[x] # Null <=> IsIn(x, s)
      /\ \A k \in 0..len : nx[Node(s, k)] = Node(s, k + 1) /\ pv[Node(s, k + 1)] = Node(s, k)
  BY DEF LinksOK
<1>2. /\ len \in Nat /\ q \in 1..len
      /\ \A k \in Int : Node(s, k) \in Nodes
      /\ \A k \in 1..len : Node(s, k) = s[k] /\ s[k] \in Elements /\ s[k] # ListHead
      /\ Node(s, 0) = ListHead /\ Node(s, len + 1) = ListHead
      /\ \A j, k \in 0..len : Node(s, j) = Node(s, k) => j = k
      /\ \A j, k \in 1..(len + 1) : Node(s, j) = Node(s, k) => j = k
  BY <1>1, NodeApart
<1>3. /\ t \in Seq(Elements) /\ Len(t) = len - 1
      /\ \A k \in 1..(len - 1) : t[k] = IF k < q THEN s[k] ELSE s[k + 1]
  BY <1>1, RemoveAtElements
<1>4. Distinct(t) /\ \A x : IsIn(x, t) <=> x # e /\ IsIn(x, s)
  BY <1>1, RemoveDistinct, Zenon
<1> HIDE DEF t, len
<1>5. /\ q \in Int /\ q - 1 \in 0..len /\ q \in 0..len /\ q + 1 \in 1..(len + 1) /\ q \in 1..(len + 1)
      /\ (q - 1) + 1 = q /\ q + 1 # q /\ q - 1 # q /\ q - 1 \in Int /\ q + 1 \in Int
  BY <1>2
<1>6. /\ e = Node(s, q) /\ e \in Elements /\ e \in Nodes /\ p \in Nodes /\ n \in Nodes /\ p # e /\ n # e
      /\ nx[e] = n /\ pv[e] = p
  <2>1. e = Node(s, q) /\ e \in Elements /\ e \in Nodes /\ p \in Nodes /\ n \in Nodes
    BY <1>2, <1>5, Apart
  <2>2. p # e /\ n # e
    BY <1>2, <1>5, <2>1
  <2>3. nx[Node(s, q)] = Node(s, q + 1) /\ pv[Node(s, (q - 1) + 1)] = Node(s, q - 1)
    BY <1>1, <1>5
  <2> QED BY <1>5, <2>1, <2>2, <2>3
<1>7. ASSUME NEW k \in 0..len
      PROVE  Node(t, k) = IF k < q THEN Node(s, k) ELSE Node(s, k + 1)
  <2>1. Node(t, k) = IF k \in 1..(len - 1) THEN t[k] ELSE ListHead
    BY <1>3 DEF Node
  <2>2. k < q /\ k # 0 => k \in 1..(len - 1) /\ k \in 1..len
    BY <1>2
  <2>3. ~(k < q) => k # 0 /\ ((k \in 1..(len - 1) /\ k + 1 \in 1..len) \/ k = len)
    BY <1>2
  <2>4. ~(len \in 1..(len - 1)) /\ ~(0 \in 1..(len - 1))
    BY <1>2
  <2> QED BY <1>2, <1>3, <2>1, <2>2, <2>3, <2>4
<1> HIDE DEF p, n, e
<1>8. /\ nx2 \in [Nodes -> Nodes \cup {Null}] /\ pv2 \in [Nodes -> Nodes \cup {Null}]
      /\ nx2[e] = Null /\ nx2[p] = n /\ \A x \in Nodes : x # e /\ x # p => nx2[x] = nx[x]
      /\ pv2[n] = p /\ \A x \in Nodes : x # e /\ x # n => pv2[x] = pv[x]
  BY <1>1, <1>6
<1> HIDE DEF nx2, pv2
<1>9. ASSUME NEW x \in Elements PROVE nx2[x] # Null <=> IsIn(x, t)
  <2>0. x \in Nodes /\ Null \notin Nodes
    BY Apart
  <2>1. CASE x = e
    BY <1>4, <1>8, <2>1
  <2>2. CASE x = p
    <3>1. q - 1 \in 1..len
      <4>1. q - 1 # 0
        BY <1>2, <2>2, SafeListAssumption DEF p
      <4> QED BY <1>2, <1>5, <4>1
    <3>2. IsIn(x, s)
      BY <1>2, <2>2, <3>1 DEF IsIn, p, len
    <3> QED BY <1>4, <1>6, <1>8, <2>0, <2>2, <3>2
  <2>3. CASE x # e /\ x # p
    BY <1>1, <1>4, <1>8, <2>0, <2>3
  <2> QED BY <2>1, <2>2, <2>3
<1>10. ASSUME NEW k \in 0..Len(t)
       PROVE  nx2[Node(t, k)] = Node(t, k + 1) /\ pv2[Node(t, k + 1)] = Node(t, k)
  <2>0. k \in 0..len /\ k + 1 \in 0..len /\ k \in Int /\ k + 1 \in Int /\ k <= len - 1
    BY <1>2, <1>3
  <2>1. CASE k < q - 1
    <3>1. k < q /\ k + 1 < q /\ k # q - 1 /\ k + 1 \in 1..(len + 1) /\ k + 1 # q + 1 /\ k # q /\ k + 1 # q
      BY <1>2, <1>5, <2>0, <2>1
    <3>2. Node(t, k) = Node(s, k) /\ Node(t, k + 1) = Node(s, k + 1)
      BY <1>7, <2>0, <3>1
    <3>3. /\ Node(s, k) \in Nodes /\ Node(s, k) # p /\ Node(s, k) # e
          /\ Node(s, k + 1) \in Nodes /\ Node(s, k + 1) # n /\ Node(s, k + 1) # e
      BY <1>2, <1>5, <1>6, <2>0, <3>1 DEF p, n
    <3>4. nx[Node(s, k)] = Node(s, k + 1) /\ pv[Node(s, k + 1)] = Node(s, k)
      BY <1>1, <2>0
    <3> QED BY <1>8, <3>2, <3>3, <3>4
  <2>2. CASE k = q - 1
    <3>1. k < q /\ ~(k + 1 < q) /\ (k + 1) + 1 = q + 1
      BY <1>5, <2>2
    <3>2. Node(t, k) = p /\ Node(t, k + 1) = n
      BY <1>7, <2>0, <2>2, <3>1 DEF p, n
    <3> QED BY <1>8, <3>2
  <2>3. CASE k >= q
    <3> DEFINE m == k + 1
    <3>1. /\ ~(k < q) /\ ~(m < q) /\ m # q - 1 /\ m # q /\ m + 1 \in 1..(len + 1) /\ m + 1 # q + 1 /\ m + 1 # q
          /\ m \in 0..len /\ m \in Int /\ m + 1 \in Int
      BY <1>2, <1>5, <2>0, <2>3
    <3>2. Node(t, k) = Node(s, m) /\ Node(t, m) = Node(s, m + 1)
      BY <1>7, <2>0, <3>1
    <3>3. k + 1 = m
      OBVIOUS
    <3> HIDE DEF m
    <3>4. /\ Node(s, m) \in Nodes /\ Node(s, m) # p /\ Node(s, m) # e
          /\ Node(s, m + 1) \in Nodes /\ Node(s, m + 1) # n /\ Node(s, m + 1) # e
      BY <1>2, <1>5, <1>6, <2>0, <3>1 DEF p, n
    <3>5. nx[Node(s, m)] = Node(s, m + 1) /\ pv[Node(s, m + 1)] = Node(s, m)
      BY <1>1, <3>1
    <3> QED BY <1>8, <3>2, <3>3, <3>4, <3>5
  <2> QED BY <1>5, <2>0, <2>1, <2>2, <2>3
<1>11. LinksOK(nx2, pv2, t)
  BY <1>3, <1>4, <1>8, <1>9, <1>10 DEF LinksOK
<1>12. nx2 = Without(nx, pv, e) /\ pv2 = Without(pv, nx, e)
  BY <1>6 DEF nx2, pv2, Without
<1> QED BY <1>6, <1>11, <1>12 DEF e, n, p, t

\* The list is sound.
LEMMA LinksListOK ==
  ASSUME NEW s, LinksOK(next, prev, s)
  PROVE  ListOK
<1>1. /\ s \in Seq(Elements) /\ Distinct(s)
      /\ \A x \in Elements : next[x] # Null <=> IsIn(x, s)
      /\ \A k \in 0..Len(s) : next[Node(s, k)] = Node(s, k + 1) /\ prev[Node(s, k + 1)] = Node(s, k)
  BY DEF LinksOK
<1>2. /\ Len(s) \in Nat
      /\ \A k \in Int : Node(s, k) \in Nodes
      /\ \A k \in 1..Len(s) : Node(s, k) = s[k] /\ s[k] \in Elements /\ s[k] # ListHead
      /\ Node(s, 0) = ListHead /\ Node(s, Len(s) + 1) = ListHead
  BY <1>1, NodeApart
<1> DEFINE L == Linked \cup {ListHead}
<1>3. ASSUME NEW n \in L PROVE \E k \in 0..Len(s) : n = Node(s, k)
  <2>1. CASE n = ListHead
    BY <1>2, <2>1
  <2>2. CASE n \in Linked
    <3>1. PICK k \in 1..Len(s) : s[k] = n
      BY <1>1, <2>2 DEF Linked, IsIn
    <3> QED BY <1>2, <3>1
  <2> QED BY <2>1, <2>2
<1>4. ASSUME NEW n \in L PROVE \E k \in 0..Len(s) : n = Node(s, k + 1)
  <2>1. PICK k \in 0..Len(s) : n = Node(s, k)
    BY <1>3
  <2>2. CASE k = 0
    <3>1. Len(s) \in 0..Len(s) /\ n = Node(s, Len(s) + 1)
      BY <1>2, <2>1, <2>2
    <3> QED BY <3>1
  <2>3. CASE k # 0
    <3>1. k - 1 \in 0..Len(s) /\ (k - 1) + 1 = k
      BY <1>2, <2>3
    <3> QED BY <2>1, <3>1
  <2> QED BY <2>2, <2>3
<1>5. ASSUME NEW n \in L PROVE next[n] # Null /\ prev[next[n]] = n /\ next[prev[n]] = n
  <2>1. PICK k \in 0..Len(s) : n = Node(s, k)
    BY <1>3
  <2>2. next[n] = Node(s, k + 1) /\ prev[Node(s, k + 1)] = n /\ k + 1 \in Int
    BY <1>1, <2>1
  <2>3. next[n] # Null
    BY <1>2, <2>2, Apart
  <2>4. PICK j \in 0..Len(s) : n = Node(s, j + 1)
    BY <1>4
  <2>5. prev[n] = Node(s, j) /\ next[Node(s, j)] = n
    BY <1>1, <2>4
  <2> QED BY <2>2, <2>3, <2>5
<1>6. ASSUME NEW S \in SUBSET L, ListHead \in S, \A n \in S : next[n] \in S PROVE S = L
  <2> DEFINE T == {k \in Nat : k <= Len(s) => Node(s, k) \in S}
  <2>1. 0 \in T
    BY <1>2, <1>6
  <2>2. ASSUME NEW k \in Nat, k \in T PROVE k + 1 \in T
    <3>1. k + 1 <= Len(s) => k \in 0..Len(s) /\ k <= Len(s)
      BY <1>2
    <3>2. k + 1 <= Len(s) => Node(s, k + 1) \in S
      BY <1>1, <1>6, <2>2, <3>1
    <3> QED BY <3>2
  <2>3. Nat \subseteq T
    <3> HIDE DEF T
    <3> QED BY <2>1, <2>2, Induction
  <2>4. \A k \in 0..Len(s) : Node(s, k) \in S
    BY <1>2, <2>3
  <2> QED BY <1>3, <2>4
<1> QED BY <1>5, <1>6 DEF ListOK

-----------------------------------------------------------------------------
(* Walks. *)

Walks == [todo : SUBSET Elements, may : SUBSET Elements]

\* A walk that visits node to next is at one position of the list: what it must
\* still visit is behind it, and what is behind it may be visited.
WalkOK(s, to, w) ==
  \E p \in 1..(Len(s) + 1) :
    /\ to = Node(s, p)
    /\ \A x \in w.todo : \E k \in p..Len(s) : s[k] = x
    /\ \A k \in p..Len(s) : s[k] \in w.todo \cup w.may

LEMMA WalkAdd ==
  ASSUME NEW s \in Seq(Elements), Distinct(s), NEW e \in Elements, ~IsIn(e, s),
         NEW i \in 1..(Len(s) + 1), NEW to, NEW w \in Walks, WalkOK(s, to, w)
  PROVE  WalkOK(InsertAt(s, i, e), to, [w EXCEPT !.may = @ \cup {e}])
<1> DEFINE t == InsertAt(s, i, e)
           len == Len(s)
           w2 == [w EXCEPT !.may = @ \cup {e}]
<1>1. PICK p \in 1..(len + 1) :
        /\ to = Node(s, p)
        /\ \A x \in w.todo : \E k \in p..len : s[k] = x
        /\ \A k \in p..len : s[k] \in w.todo \cup w.may
  BY DEF WalkOK
<1>2. /\ t \in Seq(Elements) /\ Len(t) = len + 1 /\ len \in Nat
      /\ \A k \in 1..(len + 1) : (k < i => t[k] = s[k]) /\ (k = i => t[k] = e) /\ (k > i => t[k] = s[k - 1])
  <2>1. len \in Nat
    OBVIOUS
  <2>2. /\ t \in Seq(Elements) /\ Len(t) = len + 1
        /\ \A k \in 1..(len + 1) : (k < i => t[k] = s[k]) /\ (k = i => t[k] = e) /\ (k > i => t[k] = s[k - 1])
    BY InsertAtEach
  <2> QED BY <2>1, <2>2
<1>3. w2.todo = w.todo /\ w2.may = w.may \cup {e}
  BY DEF Walks
<1> DEFINE p2 == IF p < i THEN p ELSE p + 1
<1> HIDE DEF t, len, w2
<1>4. p2 \in 1..(Len(t) + 1) /\ p \in Int /\ i \in Int /\ i \in 1..(len + 1)
  BY <1>2 DEF len
<1>5. to = Node(t, p2)
  <2>1. CASE p < i
    <3>1. p \in 1..len /\ p \in 1..(len + 1) /\ p2 = p
      BY <1>2, <1>4, <2>1
    <3> QED BY <1>1, <1>2, <2>1, <3>1 DEF Node, len
  <2>2. CASE ~(p < i)
    <3>1. /\ p2 = p + 1 /\ p + 1 > i /\ (p + 1) - 1 = p
          /\ p \in 1..len => p + 1 \in 1..(len + 1)
          /\ ~(p \in 1..len) => ~(p + 1 \in 1..(len + 1))
      BY <1>2, <1>4, <2>2
    <3> QED BY <1>1, <1>2, <3>1 DEF Node, len
  <2> QED BY <2>1, <2>2
<1>6. ASSUME NEW x \in w2.todo PROVE \E k \in p2..Len(t) : t[k] = x
  <2>1. PICK k \in p..len : s[k] = x
    BY <1>1, <1>3
  <2>2. CASE k < i
    <3>1. k \in p2..Len(t) /\ k \in 1..(len + 1)
      BY <1>2, <1>4, <2>1, <2>2
    <3> QED BY <1>2, <2>1, <2>2, <3>1
  <2>3. CASE ~(k < i)
    <3>1. k + 1 \in p2..Len(t) /\ k + 1 \in 1..(len + 1) /\ k + 1 > i /\ (k + 1) - 1 = k
      BY <1>2, <1>4, <2>1, <2>3
    <3> QED BY <1>2, <2>1, <3>1
  <2> QED BY <2>2, <2>3
<1>7. ASSUME NEW k \in p2..Len(t) PROVE t[k] \in w2.todo \cup w2.may
  <2>1. k \in 1..(len + 1) /\ k \in Int
    BY <1>2, <1>4
  <2>2. CASE k < i
    <3>1. k \in p..len
      BY <1>2, <1>4, <2>1, <2>2
    <3> QED BY <1>1, <1>2, <1>3, <2>1, <2>2, <3>1
  <2>3. CASE k = i
    BY <1>2, <1>3, <2>1, <2>3
  <2>4. CASE k > i
    <3>1. k - 1 \in p..len
      BY <1>2, <1>4, <2>1, <2>4
    <3> QED BY <1>1, <1>2, <1>3, <2>1, <2>4, <3>1
  <2> QED BY <1>4, <2>1, <2>2, <2>3, <2>4
<1> HIDE DEF p2
<1>8. WalkOK(t, to, w2)
  BY <1>4, <1>5, <1>6, <1>7 DEF WalkOK
<1> QED BY <1>8 DEF t, w2

LEMMA WalkDel ==
  ASSUME NEW s \in Seq(Elements), Distinct(s), NEW q \in 1..Len(s),
         NEW to, NEW w \in Walks, WalkOK(s, to, w)
  PROVE  WalkOK(RemoveAt(s, q), IF to = s[q] THEN Node(s, q + 1) ELSE to,
                [todo |-> w.todo \ {s[q]}, may |-> w.may \ {s[q]}])
<1> DEFINE t == RemoveAt(s, q)
           len == Len(s)
           w2 == [todo |-> w.todo \ {s[q]}, may |-> w.may \ {s[q]}]
           to2 == IF to = s[q] THEN Node(s, q + 1) ELSE to
<1>1. PICK p \in 1..(len + 1) :
        /\ to = Node(s, p)
        /\ \A x \in w.todo : \E k \in p..len : s[k] = x
        /\ \A k \in p..len : s[k] \in w.todo \cup w.may
  BY DEF WalkOK
<1>2. /\ t \in Seq(Elements) /\ Len(t) = len - 1 /\ len \in Nat
      /\ \A k \in 1..(len - 1) : t[k] = IF k < q THEN s[k] ELSE s[k + 1]
  <2>1. len \in Nat
    OBVIOUS
  <2>2. /\ t \in Seq(Elements) /\ Len(t) = len - 1
        /\ \A k \in 1..(len - 1) : t[k] = IF k < q THEN s[k] ELSE s[k + 1]
    BY RemoveAtElements
  <2> QED BY <2>1, <2>2
<1>3. w2.todo = w.todo \ {s[q]} /\ w2.may = w.may \ {s[q]}
  OBVIOUS
<1>n. /\ \A k \in 1..len : Node(s, k) = s[k] /\ s[k] # ListHead
      /\ \A j, k \in 1..(len + 1) : Node(s, j) = Node(s, k) => j = k
      /\ \A j, k \in 1..len : s[j] = s[k] => j = k
  BY NodeApart DEF Distinct
<1> DEFINE p2 == IF p <= q THEN p ELSE p - 1
<1> HIDE DEF t, len, w2
<1>4. p2 \in 1..(Len(t) + 1) /\ p \in Int /\ q \in Int /\ q \in 1..len
  BY <1>2 DEF len
<1>t. ASSUME NEW k \in 1..len PROVE Node(t, k) = IF k < q THEN Node(s, k) ELSE Node(s, k + 1)
  <2>1. CASE k < q
    <3>1. k \in 1..(len - 1)
      BY <1>2, <1>4, <2>1
    <3> QED BY <1>2, <1>n, <2>1, <3>1 DEF Node
  <2>2. CASE ~(k < q)
    <3>1. (k \in 1..(len - 1) <=> k + 1 \in 1..len)
      BY <1>2, <1>4, <2>2
    <3> QED BY <1>2, <2>2, <3>1 DEF Node, len
  <2> QED BY <2>1, <2>2
<1>5. to2 = Node(t, p2)
  <2>0. to = s[q] <=> p = q
    <3>1. q \in 1..(len + 1) /\ Node(s, q) = s[q]
      BY <1>2, <1>4, <1>n
    <3> QED BY <1>1, <1>n, <3>1
  <2>1. CASE p = q
    <3>1. p2 = q /\ ~(q < q)
      BY <1>4, <2>1
    <3> QED BY <1>4, <1>t, <2>0, <2>1, <3>1
  <2>2. CASE p < q
    <3>1. p \in 1..len /\ p2 = p /\ p # q
      BY <1>2, <1>4, <2>2
    <3> QED BY <1>1, <1>t, <2>0, <2>2, <3>1
  <2>3. CASE p > q
    <3>1. p - 1 \in 1..len /\ p2 = p - 1 /\ p # q /\ (p - 1) + 1 = p /\ ~(p - 1 < q)
      BY <1>2, <1>4, <2>3
    <3> QED BY <1>1, <1>t, <2>0, <3>1
  <2> QED BY <1>4, <2>1, <2>2, <2>3
<1>6. ASSUME NEW x \in w2.todo PROVE \E k \in p2..Len(t) : t[k] = x
  <2>1. PICK k \in p..len : s[k] = x
    BY <1>1, <1>3
  <2>2. k # q /\ k \in Int
    BY <1>3, <2>1
  <2>3. CASE k < q
    <3>1. k \in p2..Len(t) /\ k \in 1..(len - 1)
      BY <1>2, <1>4, <2>1, <2>3
    <3> QED BY <1>2, <2>1, <2>3, <3>1
  <2>4. CASE k > q
    <3>1. k - 1 \in p2..Len(t) /\ k - 1 \in 1..(len - 1) /\ ~(k - 1 < q) /\ (k - 1) + 1 = k
      BY <1>2, <1>4, <2>1, <2>4
    <3> QED BY <1>2, <2>1, <3>1
  <2> QED BY <1>4, <2>2, <2>3, <2>4
<1>7. ASSUME NEW k \in p2..Len(t) PROVE t[k] \in w2.todo \cup w2.may
  <2>1. k \in 1..(len - 1) /\ k \in Int
    BY <1>2, <1>4
  <2>2. CASE k < q
    <3>1. k \in p..len /\ k \in 1..len /\ k # q
      BY <1>2, <1>4, <2>1, <2>2
    <3> QED BY <1>1, <1>2, <1>3, <1>4, <1>n, <2>1, <2>2, <3>1
  <2>3. CASE ~(k < q)
    <3>1. k + 1 \in p..len /\ k + 1 \in 1..len /\ k + 1 # q
      BY <1>2, <1>4, <2>1, <2>3
    <3>2. t[k] = s[k + 1] /\ s[k + 1] # s[q] /\ s[k + 1] \in w.todo \cup w.may
      BY <1>1, <1>2, <1>4, <1>n, <2>1, <2>3, <3>1
    <3> QED BY <1>3, <3>2
  <2> QED BY <2>2, <2>3
<1> HIDE DEF p2, to2
<1>8. WalkOK(t, to2, w2)
  BY <1>4, <1>5, <1>6, <1>7 DEF WalkOK
<1> QED BY <1>8 DEF t, w2, to2

\* The next element of a walk, and the end.
LEMMA WalkStep ==
  ASSUME NEW nx, NEW pv, NEW s, LinksOK(nx, pv, s),
         NEW to, NEW w \in Walks, WalkOK(s, to, w)
  PROVE  /\ to \in Nodes /\ (to # ListHead => IsIn(to, s))
         /\ to = ListHead => w.todo = {}
         /\ to # ListHead => /\ to \in w.todo \cup w.may
                             /\ WalkOK(s, nx[to], [todo |-> w.todo \ {to}, may |-> w.may \ {to}])
<1> DEFINE len == Len(s)
           w2 == [todo |-> w.todo \ {to}, may |-> w.may \ {to}]
<1>1. PICK p \in 1..(len + 1) :
        /\ to = Node(s, p)
        /\ \A x \in w.todo : \E k \in p..len : s[k] = x
        /\ \A k \in p..len : s[k] \in w.todo \cup w.may
  BY DEF WalkOK
<1>2. /\ len \in Nat
      /\ \A k \in Int : Node(s, k) \in Nodes
      /\ \A k \in 1..len : Node(s, k) = s[k] /\ s[k] # ListHead
      /\ \A j, k \in 1..len : s[j] = s[k] => j = k
      /\ \A k \in 0..len : nx[Node(s, k)] = Node(s, k + 1)
      /\ Node(s, len + 1) = ListHead
  BY NodeApart DEF LinksOK, Distinct
<1>3. w2.todo = w.todo \ {to} /\ w2.may = w.may \ {to}
  OBVIOUS
<1>4. p \in Int /\ (to = ListHead <=> p = len + 1) /\ (to # ListHead => p \in 1..len /\ to = s[p])
  <2>1. p \in 1..len \/ p = len + 1
    BY <1>1, <1>2
  <2>2. ~(len + 1 \in 1..len)
    BY <1>2
  <2> QED BY <1>1, <1>2, <2>1, <2>2
<1> HIDE DEF len, w2
<1>5. to \in Nodes /\ (to # ListHead => IsIn(to, s))
  BY <1>1, <1>2, <1>4 DEF IsIn, len
<1>6. to = ListHead => w.todo = {}
  BY <1>1, <1>2, <1>4
<1>7. ASSUME to # ListHead PROVE to \in w.todo \cup w.may /\ WalkOK(s, nx[to], w2)
  <2>1. p \in p..len /\ p + 1 \in 1..(len + 1) /\ p \in 0..len
    BY <1>2, <1>4, <1>7
  <2>2. to \in w.todo \cup w.may
    BY <1>1, <1>4, <1>7, <2>1
  <2>3. nx[to] = Node(s, p + 1)
    BY <1>1, <1>2, <2>1
  <2>4. ASSUME NEW x \in w2.todo PROVE \E k \in (p + 1)..len : s[k] = x
    <3>1. PICK k \in p..len : s[k] = x
      BY <1>1, <1>3, <2>4
    <3>2. k # p
      BY <1>3, <1>4, <1>7, <2>4, <3>1
    <3>3. k \in (p + 1)..len
      BY <1>2, <1>4, <3>1, <3>2
    <3> QED BY <3>1, <3>3
  <2>5. ASSUME NEW k \in (p + 1)..len PROVE s[k] \in w2.todo \cup w2.may
    <3>1. k \in p..len /\ k # p /\ k \in 1..len
      BY <1>2, <1>4, <1>7
    <3> QED BY <1>1, <1>2, <1>3, <1>4, <1>7, <3>1
  <2>6. WalkOK(s, nx[to], w2)
    BY <2>1, <2>3, <2>4, <2>5 DEF WalkOK, len
  <2> QED BY <2>2, <2>6
<1> QED BY <1>5, <1>6, <1>7 DEF w2

\* A new walk, after its first element.
LEMMA WalkBegin ==
  ASSUME NEW nx, NEW pv, NEW s, LinksOK(nx, pv, s), nx[ListHead] # ListHead
  PROVE  /\ nx[ListHead] \in Elements /\ IsIn(nx[ListHead], s)
         /\ WalkOK(s, nx[nx[ListHead]],
                   [todo |-> {e \in Elements : nx[e] # Null} \ {nx[ListHead]}, may |-> {}])
<1> DEFINE len == Len(s)
           L == {e \in Elements : nx[e] # Null}
           w == [todo |-> L, may |-> {}]
           to == nx[ListHead]
<1>1. /\ len \in Nat
      /\ \A k \in 1..len : Node(s, k) = s[k] /\ s[k] \in Elements
      /\ \A k \in 0..len : nx[Node(s, k)] = Node(s, k + 1)
      /\ Node(s, len + 1) = ListHead /\ Node(s, 0) = ListHead
  BY NodeApart DEF LinksOK
<1>2. to = Node(s, 1) /\ 1 \in 1..(len + 1)
  BY <1>1
<1>3. \A x : x \in L <=> x \in Elements /\ IsIn(x, s)
  BY DEF LinksOK
<1>4. len # 0
  BY <1>1, <1>2
<1>5. to \in Elements /\ IsIn(to, s)
  BY <1>1, <1>2, <1>4 DEF IsIn
<1>6. w \in Walks /\ w.todo = L /\ w.may = {}
  BY DEF Walks
<1> HIDE DEF L, w, to, len
<1>7. \A x \in w.todo : \E k \in 1..len : s[k] = x
  BY <1>3, <1>6 DEF IsIn, len
<1>8. \A k \in 1..len : s[k] \in w.todo \cup w.may
  BY <1>1, <1>3, <1>6 DEF IsIn, len
<1>9. WalkOK(s, to, w)
  BY <1>2, <1>7, <1>8 DEF WalkOK, len
<1>10. to # ListHead
  BY <1>5, SafeListAssumption
<1>11. WalkOK(s, nx[to], [todo |-> w.todo \ {to}, may |-> w.may \ {to}])
  BY <1>6, <1>9, <1>10, WalkStep
<1>12. [todo |-> w.todo \ {to}, may |-> w.may \ {to}] = [todo |-> L \ {to}, may |-> {}]
  BY <1>6
<1> QED BY <1>5, <1>11, <1>12 DEF L, to

-----------------------------------------------------------------------------
(* The invariant. *)

\* s is the order of the list and c the chain of every node.
Inv(s, c) ==
  /\ LinksOK(next, prev, s)
  /\ cur \in Seq(Elements) /\ Len(cur) <= MaxDepth
  /\ walks \in Seq(Walks) /\ Len(walks) = Len(cur)
  /\ ChainsOK(first, head, nextNode, c, 1..Depth)
  /\ \A w \in 1..Depth : WalkOK(s, nextNode[w], walks[w])

ListInv == \E s, c : Inv(s, c)

PointersOK(ptr, c, D) == ChainsOK(ptr.first, ptr.head, ptr.nextNode, c, D)

LEMMA SetP ==
  ASSUME NEW ptr, NEW c, NEW D, PointersOK(ptr, c, D), NEW n, next[n] \in Nodes, NEW i \in Iterators \ D
  PROVE  LET set == SetIterator(ptr, n, i)
         IN  /\ \E c2 : PointersOK(set, c2, D \cup {i})
             /\ set.nextNode[i] = next[n] /\ \A j \in Iterators : j # i => set.nextNode[j] = ptr.nextNode[j]
<1> DEFINE set == SetIterator(ptr, n, i)
           to == next[n]
<1>1. /\ set.first = [ptr.first EXCEPT ![to] = i, ![i] = ptr.first[to]]
      /\ set.nextNode = [ptr.nextNode EXCEPT ![i] = to]
      /\ set.head = [j \in Iterators |-> CASE j = i -> to [] j = ptr.first[to] -> i [] OTHER -> ptr.head[j]]
  BY DEF SetIterator
<1>2. ptr.nextNode \in [Iterators -> Nodes]
  BY DEF PointersOK, ChainsOK
<1>3. ChainsOK([ptr.first EXCEPT ![to] = i, ![i] = ptr.first[to]],
               [j \in Iterators |-> CASE j = i -> to [] j = ptr.first[to] -> i [] OTHER -> ptr.head[j]],
               [ptr.nextNode EXCEPT ![i] = to], [c EXCEPT ![to] = <<i>> \o @], D \cup {i})
  <2>1. ChainsOK(ptr.first, ptr.head, ptr.nextNode, c, D)
    BY DEF PointersOK
  <2> QED BY <2>1, SetOK
<1> HIDE DEF set
<1>4. PointersOK(set, [c EXCEPT ![to] = <<i>> \o @], D \cup {i})
  BY <1>1, <1>3 DEF PointersOK
<1>5. set.nextNode[i] = to /\ \A j \in Iterators : j # i => set.nextNode[j] = ptr.nextNode[j]
  BY <1>1, <1>2
<1> QED BY <1>4, <1>5 DEF set

LEMMA DelP ==
  ASSUME NEW ptr, NEW c, NEW D, PointersOK(ptr, c, D), NEW i \in D
  PROVE  LET del == DelIterator(ptr, i)
         IN  (\E c2 : PointersOK(del, c2, D \ {i})) /\ del.nextNode = ptr.nextNode
<1> DEFINE del == DelIterator(ptr, i)
<1>1. /\ del.first = [ptr.first EXCEPT ![ptr.head[i]] = ptr.first[i]]
      /\ del.nextNode = ptr.nextNode
      /\ del.head = [j \in Iterators |-> IF j = ptr.first[i] THEN ptr.head[i] ELSE ptr.head[j]]
  BY DEF DelIterator
<1>2. ChainsOK(ptr.first, ptr.head, ptr.nextNode, c, D)
  BY DEF PointersOK
<1>3. \E c2 : ChainsOK([ptr.first EXCEPT ![ptr.head[i]] = ptr.first[i]],
                      [j \in Iterators |-> IF j = ptr.first[i] THEN ptr.head[i] ELSE ptr.head[j]],
                      ptr.nextNode, c2, D \ {i})
  BY <1>2, DelOK
<1> HIDE DEF del
<1>4. \E c2 : PointersOK(del, c2, D \ {i})
  BY <1>1, <1>3 DEF PointersOK
<1> QED BY <1>1, <1>4 DEF del

LEMMA GoneP ==
  ASSUME NEW ptr, NEW c, NEW D, PointersOK(ptr, c, D), NEW i \in Iterators \ D
  PROVE  LET gone == Gone(ptr, i)
         IN  /\ PointersOK(gone, c, D)
             /\ \A j \in Iterators : j # i => gone.nextNode[j] = ptr.nextNode[j]
<1> DEFINE gone == Gone(ptr, i)
<1>1. /\ gone.first = [ptr.first EXCEPT ![i] = Null]
      /\ gone.nextNode = [ptr.nextNode EXCEPT ![i] = ListHead]
      /\ gone.head = [ptr.head EXCEPT ![i] = Null]
  BY DEF Gone
<1>2. ChainsOK(ptr.first, ptr.head, ptr.nextNode, c, D)
  BY DEF PointersOK
<1>3. ptr.nextNode \in [Iterators -> Nodes]
  BY <1>2 DEF ChainsOK
<1>4. ChainsOK([ptr.first EXCEPT ![i] = Null], [ptr.head EXCEPT ![i] = Null],
               [ptr.nextNode EXCEPT ![i] = ListHead], c, D)
  BY <1>2, GoneOK
<1> HIDE DEF gone
<1>5. PointersOK(gone, c, D)
  BY <1>1, <1>4 DEF PointersOK
<1>6. \A j \in Iterators : j # i => gone.nextNode[j] = ptr.nextNode[j]
  BY <1>1, <1>3
<1> QED BY <1>5, <1>6 DEF gone

LEMMA MoveP ==
  ASSUME NEW ptr, NEW c, NEW D, PointersOK(ptr, c, D), NEW n, next[n] \in Nodes, NEW i \in D
  PROVE  LET move == MoveIterator(ptr, n, i)
         IN  /\ \E c2 : PointersOK(move, c2, D)
             /\ move.nextNode[i] = next[n] /\ \A j \in Iterators : j # i => move.nextNode[j] = ptr.nextNode[j]
<1> DEFINE del == DelIterator(ptr, i)
           set == SetIterator(del, n, i)
           D1 == D \ {i}
<1>1. i \in Iterators
  BY DEF PointersOK, ChainsOK
<1>2. del.nextNode = ptr.nextNode /\ \E c2 : PointersOK(del, c2, D1)
  BY DelP
<1>3. PICK c1 : PointersOK(del, c1, D1)
  BY <1>2
<1> HIDE DEF del
<1>4. i \in Iterators \ D1 /\ D1 \cup {i} = D
  BY <1>1
<1> HIDE DEF D1
<1>5. /\ \E c2 : PointersOK(set, c2, D1 \cup {i})
      /\ set.nextNode[i] = next[n] /\ \A j \in Iterators : j # i => set.nextNode[j] = del.nextNode[j]
  <2>1. i \in Iterators \ D1
    BY <1>4
  <2>2. next[n] \in Nodes
    OBVIOUS
  <2>3. \E c2 : PointersOK(SetIterator(del, n, i), c2, D1 \cup {i})
    BY <1>3, <2>1, <2>2, SetP
  <2>4. SetIterator(del, n, i).nextNode = [del.nextNode EXCEPT ![i] = next[n]]
    BY DEF SetIterator
  <2>5. del.nextNode \in [Iterators -> Nodes]
    BY <1>3 DEF PointersOK, ChainsOK
  <2> QED BY <1>1, <2>3, <2>4, <2>5
<1>6. MoveIterator(ptr, n, i) = set
  BY DEF MoveIterator, del
<1> HIDE DEF set
<1> QED BY <1>2, <1>4, <1>5, <1>6

\* What the invariant says of the state.
LEMMA InvFacts ==
  ASSUME NEW s, NEW c, Inv(s, c)
  PROVE  /\ LinksOK(next, prev, s)
         /\ s \in Seq(Elements) /\ Distinct(s) /\ Len(s) \in Nat
         /\ next \in [Nodes -> Nodes \cup {Null}] /\ prev \in [Nodes -> Nodes \cup {Null}]
         /\ \A e \in Elements : e \in Linked <=> IsIn(e, s)
         /\ \A k \in 0..Len(s) : next[Node(s, k)] = Node(s, k + 1) /\ prev[Node(s, k + 1)] = Node(s, k)
         /\ cur \in Seq(Elements) /\ Depth \in 0..MaxDepth /\ Depth = Len(cur)
         /\ walks \in Seq(Walks) /\ Len(walks) = Depth
         /\ ChainsOK(first, head, nextNode, c, 1..Depth) /\ PointersOK(Pointers, c, 1..Depth)
         /\ \A w \in 1..Depth : w \in Iterators /\ walks[w] \in Walks /\ WalkOK(s, nextNode[w], walks[w])
<1>1. /\ LinksOK(next, prev, s)
      /\ cur \in Seq(Elements) /\ Len(cur) <= MaxDepth
      /\ walks \in Seq(Walks) /\ Len(walks) = Len(cur)
      /\ ChainsOK(first, head, nextNode, c, 1..Depth)
      /\ \A w \in 1..Depth : WalkOK(s, nextNode[w], walks[w])
  BY DEF Inv
<1>2. /\ s \in Seq(Elements) /\ Distinct(s) /\ Len(s) \in Nat
      /\ next \in [Nodes -> Nodes \cup {Null}] /\ prev \in [Nodes -> Nodes \cup {Null}]
      /\ \A e \in Elements : e \in Linked <=> IsIn(e, s)
      /\ \A k \in 0..Len(s) : next[Node(s, k)] = Node(s, k + 1) /\ prev[Node(s, k + 1)] = Node(s, k)
  BY <1>1 DEF LinksOK, Linked
<1>3. Depth \in 0..MaxDepth /\ Depth = Len(cur)
  BY <1>1, SafeListAssumption DEF Depth
<1>4. \A w \in 1..Depth : w \in Iterators /\ walks[w] \in Walks
  BY <1>1, <1>3, SafeListAssumption DEF Iterators
<1>5. PointersOK(Pointers, c, 1..Depth)
  BY <1>1 DEF PointersOK, Pointers
<1> QED BY <1>1, <1>2, <1>3, <1>4, <1>5

\* A node that is off the list has no chain.
LEMMA OffList ==
  ASSUME NEW s, NEW c, Inv(s, c), NEW e \in Elements, ~IsIn(e, s)
  PROVE  c[e] = <<>> /\ first[e] = Null /\ first \in [Nodes \cup Iterators -> Iterators \cup {Null}]
<1>1. e \in Nodes /\ e # ListHead
  BY SafeListAssumption DEF Nodes
<1>2. ChainsOK(first, head, nextNode, c, 1..Depth) /\ LinksOK(next, prev, s)
  BY InvFacts
<1>3. /\ c[e] \in Seq(1..Depth) /\ Len(c[e]) \in Nat /\ (c[e] = <<>> <=> Len(c[e]) = 0)
      /\ \A k \in 1..Len(c[e]) : c[e][k] \in 1..Depth /\ nextNode[c[e][k]] = e
  <2> DEFINE D == 1..Depth
  <2>1. ChainsOK(first, head, nextNode, c, D)
    BY <1>2
  <2> HIDE DEF D
  <2>2. /\ c[e] \in Seq(D) /\ Len(c[e]) \in Nat /\ (c[e] = <<>> <=> Len(c[e]) = 0)
        /\ \A k \in 1..Len(c[e]) : c[e][k] \in D /\ nextNode[c[e][k]] = e
    BY <1>1, <2>1, InChain
  <2> QED BY <2>2 DEF D
<1>4. \A w \in 1..Depth : nextNode[w] # ListHead => IsIn(nextNode[w], s)
  <2>1. \A w \in 1..Depth : walks[w] \in Walks /\ WalkOK(s, nextNode[w], walks[w])
    BY InvFacts
  <2> QED BY <1>2, <2>1, WalkStep
<1>5. Len(c[e]) = 0
  <2> SUFFICES ASSUME Len(c[e]) # 0 PROVE FALSE
    OBVIOUS
  <2>1. 1 \in 1..Len(c[e])
    BY <1>3
  <2> QED BY <1>1, <1>3, <1>4, <2>1
<1> QED BY <1>1, <1>2, <1>3, <1>5 DEF ChainsOK, ChainOK

-----------------------------------------------------------------------------
(* The operations. *)

\* safe_list_add and safe_list_add_first.
LEMMA AddStep ==
  ASSUME NEW s, NEW c, Inv(s, c), NEW e \in Elements, e \notin Linked,
         NEW i \in 1..(Len(s) + 1), Link(e, Node(s, i - 1), Node(s, i)), Added(e)
  PROVE  ListInv' /\ Promise!Add(e)
<1> DEFINE t == InsertAt(s, i, e)
<1>1. /\ LinksOK(next, prev, s) /\ s \in Seq(Elements) /\ Distinct(s) /\ ~IsIn(e, s) /\ next[e] = Null
      /\ \A x \in Elements : x \in Linked <=> IsIn(x, s)
      /\ Depth \in Nat /\ walks \in Seq(Walks) /\ Len(walks) = Depth
      /\ \A w \in 1..Depth : walks[w] \in Walks /\ WalkOK(s, nextNode[w], walks[w])
  BY InvFacts DEF Linked
<1>2. first' = first /\ UNCHANGED <<head, nextNode, cur, ret, parity>>
  BY <1>1, OffList DEF Added
<1>3. LinksOK(next, prev, t)'
  <2>1. /\ next' = [next EXCEPT ![e] = Node(s, i), ![Node(s, i - 1)] = e]
        /\ prev' = [prev EXCEPT ![Node(s, i)] = e, ![e] = Node(s, i - 1)]
    BY DEF Link
  <2>2. LinksOK(next', prev', t)
    BY <1>1, <2>1, LinkOK
  <2> QED BY <2>2
<1> DEFINE W(w) == [walks[w] EXCEPT !.may = @ \cup {e}]
<1>4. walks' = [w \in 1..Depth |-> W(w)]
  BY DEF Added
<1>5. \A w \in 1..Depth : W(w) \in Walks
  BY <1>1 DEF Walks
<1>6. \A w \in 1..Depth : WalkOK(t, nextNode[w], W(w))
  BY <1>1, WalkAdd
<1>7. \A x : IsIn(x, t) <=> x = e \/ IsIn(x, s)
  BY <1>1, InsertDistinct, Zenon
<1> HIDE DEF t, W
<1>8. walks' \in Seq(Walks) /\ Len(walks') = Depth /\ \A w \in 1..Depth : walks'[w] = W(w)
  BY <1>1, <1>4, <1>5
<1>9. Depth' = Depth
  BY <1>2 DEF Depth
<1>10. Inv(t, c)'
  BY <1>2, <1>3, <1>6, <1>8, <1>9 DEF Inv, Depth
<1>11. Linked' = Linked \cup {e}
  <2>1. \A x \in Elements : next'[x] # Null <=> IsIn(x, t)
    BY <1>3 DEF LinksOK
  <2> QED BY <1>1, <1>7, <2>1 DEF Linked
<1>12. Promise!Add(e)
  BY <1>1, <1>2, <1>4, <1>11 DEF Promise!Add, W
<1> QED BY <1>10, <1>12 DEF ListInv

\* safe_list_del.
LEMMA DelStep ==
  ASSUME NEW s, NEW c, Inv(s, c), NEW e \in Elements, safe_list_del(e)
  PROVE  ListInv' /\ Promise!Del(e)
<1>1. /\ LinksOK(next, prev, s) /\ s \in Seq(Elements) /\ Distinct(s) /\ IsIn(e, s)
      /\ next \in [Nodes -> Nodes \cup {Null}]
      /\ \A x \in Elements : x \in Linked <=> IsIn(x, s)
      /\ Depth \in Nat /\ walks \in Seq(Walks) /\ Len(walks) = Depth
      /\ \A w \in 1..Depth : w \in Iterators /\ walks[w] \in Walks /\ WalkOK(s, nextNode[w], walks[w])
  BY InvFacts DEF safe_list_del
<1> DEFINE D == 1..Depth
<1>2. PICK q \in 1..Len(s) : s[q] = e
  BY <1>1 DEF IsIn
<1> DEFINE t == RemoveAt(s, q)
           to == next[e]
<1>3. next[e] = Node(s, q + 1) /\ to # e /\ LinksOK(next, prev, t)'
  <2>1. next' = [next EXCEPT ![prev[e]] = next[e], ![e] = Null] /\ prev' = [prev EXCEPT ![next[e]] = prev[e], ![e] = Null]
    BY DEF safe_list_del, Unlink
  <2>2. next[e] = Node(s, q + 1) /\ to # e /\ LinksOK(next', prev', t)
    <3>1. /\ next[s[q]] = Node(s, q + 1) /\ next[s[q]] # s[q]
          /\ LinksOK(Without(next, prev, s[q]), Without(prev, next, s[q]), t)
      BY <1>1, UnlinkOK
    <3> QED BY <1>2, <2>1, <3>1 DEF Without
  <2> QED BY <2>2
<1>4. e \in Nodes /\ to \in Nodes
  <2>1. q + 1 \in Int
    OBVIOUS
  <2> QED BY <1>1, <1>3, <2>1, NodeApart, Apart
<1> DEFINE W(w) == [todo |-> walks[w].todo \ {e}, may |-> walks[w].may \ {e}]
           To(w) == IF nextNode[w] = e THEN to ELSE nextNode[w]
<1>5. walks' = [w \in D |-> W(w)] /\ UNCHANGED <<cur, ret, parity>>
  BY DEF safe_list_del
<1>6. \A w \in D : W(w) \in Walks
  BY <1>1 DEF Walks
<1>7. \A w \in D : WalkOK(t, To(w), W(w))
  BY <1>1, <1>2, <1>3, WalkDel
<1>8. \A x : IsIn(x, t) <=> x # e /\ IsIn(x, s)
  BY <1>1, <1>2, RemoveDistinct, Zenon
<1>9. ChainsOK(first, head, nextNode, c, D)
  BY InvFacts
<1> HIDE DEF t, W
<1>10. walks' \in Seq(Walks) /\ Len(walks') = Depth /\ (\A w \in D : walks'[w] = W(w)) /\ Depth' = Depth
  BY <1>1, <1>5, <1>6 DEF Depth
<1> HIDE DEF D
<1>11. /\ c[e] \in Seq(D) /\ Len(c[e]) \in Nat
       /\ \A k \in 1..Len(c[e]) : c[e][k] \in D /\ nextNode[c[e][k]] = e
       /\ c[e] = <<>> <=> Len(c[e]) = 0
  BY <1>4, <1>9, InChain
<1>12. \A w \in D : Contains(c[e], w) <=> nextNode[w] = e
  <2>1. \A w \in D : IsIn(w, c[nextNode[w]])
    BY <1>9 DEF ChainsOK
  <2> QED BY <1>11, <2>1 DEF IsIn, Contains
<1>13. first[e] = IF c[e] = <<>> THEN Null ELSE c[e][1]
  BY <1>4, <1>9 DEF ChainsOK, ChainOK
<1>14. \E c2 : ChainsOK(first', head', nextNode', c2, D) /\ \A w \in D : nextNode'[w] = To(w)
  <2>1. CASE first[e] = Null
    <3>1. UNCHANGED ivars
      BY <2>1 DEF safe_list_del
    <3>2. c[e] = <<>>
      <4> SUFFICES ASSUME c[e] # <<>> PROVE FALSE
        OBVIOUS
      <4>1. 1 \in 1..Len(c[e])
        BY <1>11
      <4>2. c[e][1] \in Iterators
        BY <1>9, <1>11, <4>1 DEF ChainsOK
      <4> QED BY <1>13, <2>1, <4>2, Apart
    <3>3. \A w \in D : nextNode[w] # e
      BY <1>11, <1>12, <3>2 DEF Contains
    <3> QED BY <1>9, <3>1, <3>3 DEF ivars
  <2>2. CASE first[e] # Null
    <3>1. PICK chain \in Chains : IsChain(Pointers, e, chain) /\ Store(HandOver(Pointers, e, to, chain))
      BY <2>2 DEF safe_list_del
    <3>2. chain = c[e]
      BY <1>4, <1>9, <3>1, OneChain DEF Pointers
    <3>3. c[e] # <<>>
      BY <1>13, <2>2
    <3> DEFINE hand == HandOver(Pointers, e, to, c[e])
    <3>4. first' = hand.first /\ nextNode' = hand.nextNode /\ head' = hand.head
      BY <3>1, <3>2 DEF Store
    <3>5. \E c2 : ChainsOK(hand.first, hand.head, hand.nextNode, c2, D)
      <4>1. e # to
        BY <1>3
      <4> HIDE DEF to
      <4> QED BY <1>4, <1>9, <3>3, <4>1, HandOK DEF Pointers
    <3>6. \A w \in D : hand.nextNode[w] = To(w)
      <4>1. hand.nextNode = [j \in Iterators |-> IF Contains(c[e], j) THEN to ELSE nextNode[j]]
        BY DEF HandOver, Pointers
      <4> QED BY <1>1, <1>12, <4>1 DEF D
    <3> HIDE DEF hand
    <3> QED BY <3>4, <3>5, <3>6
  <2> QED BY <2>1, <2>2
<1>15. PICK c2 : ChainsOK(first', head', nextNode', c2, D) /\ \A w \in D : nextNode'[w] = To(w)
  BY <1>14
<1> HIDE DEF To, to
<1>16. cur \in Seq(Elements) /\ Len(cur) <= MaxDepth /\ Len(cur) = Depth
  BY InvFacts, SafeListAssumption
<1>17. Inv(t, c2)'
  <2>1. ChainsOK(first, head, nextNode, c2, 1..Depth)'
    BY <1>10, <1>15 DEF D
  <2>2. \A w \in 1..Depth' : WalkOK(t, nextNode'[w], walks'[w])
    BY <1>7, <1>10, <1>15 DEF D
  <2>3. cur' \in Seq(Elements) /\ Len(cur') <= MaxDepth /\ Len(walks') = Len(cur')
    BY <1>5, <1>10, <1>16
  <2> QED BY <1>3, <1>10, <2>1, <2>2, <2>3 DEF Inv
<1>18. Linked' = Linked \ {e}
  <2>1. \A x \in Elements : next'[x] # Null <=> IsIn(x, t)
    BY <1>3 DEF LinksOK
  <2> QED BY <1>1, <1>8, <2>1 DEF Linked
<1>19. Promise!Del(e)
  BY <1>1, <1>5, <1>18 DEF Promise!Del, Promise!Visited, W, D
<1> QED BY <1>17, <1>19 DEF ListInv

\* The pointers after a step that does not change the list.
LEMMA NewPointers ==
  ASSUME NEW s, NEW c, Inv(s, c), UNCHANGED lvars, NEW ptr, Store(ptr),
         NEW c2, PointersOK(ptr, c2, 1..Depth'),
         cur' \in Seq(Elements), Len(cur') <= MaxDepth, walks' \in Seq(Walks), Len(walks') = Len(cur'),
         \A w \in 1..Depth' : WalkOK(s, ptr.nextNode[w], walks'[w])
  PROVE  ListInv' /\ Linked' = Linked
<1>1. first' = ptr.first /\ head' = ptr.head /\ nextNode' = ptr.nextNode /\ next' = next /\ prev' = prev
  BY DEF Store, lvars
<1>2. LinksOK(next, prev, s)'
  BY <1>1, InvFacts
<1>3. ChainsOK(first', head', nextNode', c2, 1..Depth')
  BY <1>1 DEF PointersOK
<1>4. Inv(s, c2)'
  BY <1>1, <1>2, <1>3 DEF Inv
<1>5. Linked' = Linked
  BY <1>1 DEF Linked
<1> QED BY <1>4, <1>5 DEF ListInv

\* The end of a walk.
LEMMA ReturnStep ==
  ASSUME NEW s, NEW c, Inv(s, c), cur # <<>>, NEW ptr, NEW c1, PointersOK(ptr, c1, 1..Depth),
         \A j \in Iterators : j # Depth => ptr.nextNode[j] = nextNode[j],
         NEW value, Return(ptr, value)
  PROVE  /\ ListInv' /\ Linked' = Linked
         /\ walks # <<>> /\ walks' = Front(walks) /\ cur' = Front(cur) /\ ret' = value /\ parity' = parity
<1>1. /\ cur \in Seq(Elements) /\ Depth \in 0..MaxDepth /\ Depth = Len(cur) /\ MaxDepth \in Nat
      /\ walks \in Seq(Walks) /\ Len(walks) = Depth
      /\ \A w \in 1..Depth : w \in Iterators /\ WalkOK(s, nextNode[w], walks[w])
  BY InvFacts, SafeListAssumption
<1>2. Depth \in 1..Depth /\ walks # <<>> /\ Depth \in Iterators
  BY <1>1
<1> DEFINE i == Depth
           D == 1..Depth
           del == DelIterator(ptr, i)
           gone == Gone(del, i)
<1>3. /\ Store(gone) /\ UNCHANGED <<next, prev, parity>> /\ ret' = value
      /\ walks' = Front(walks) /\ cur' = Front(cur)
  BY DEF Return
<1>4. /\ cur' \in Seq(Elements) /\ Len(cur') = Depth - 1
      /\ walks' \in Seq(Walks) /\ Len(walks') = Depth - 1
      /\ \A w \in 1..(Depth - 1) : walks'[w] = walks[w]
  BY <1>1, <1>2, <1>3, FrontElements
<1>5. PICK c2 : PointersOK(del, c2, D \ {i})
  <2>1. PointersOK(ptr, c1, D) /\ i \in D
    BY <1>2
  <2> HIDE DEF D, i
  <2> QED BY <2>1, DelP
<1>6. del.nextNode = ptr.nextNode
  BY DEF DelIterator
<1>7. D \ {i} = 1..Depth'
  BY <1>1, <1>4 DEF Depth
<1>8. PointersOK(gone, c2, D \ {i}) /\ \A j \in Iterators : j # i => gone.nextNode[j] = del.nextNode[j]
  <2>1. i \in Iterators \ (D \ {i})
    BY <1>2
  <2> HIDE DEF del, D, i
  <2> QED BY <1>5, <2>1, GoneP
<1> HIDE DEF del, gone
<1>9. \A w \in 1..Depth' : WalkOK(s, gone.nextNode[w], walks'[w])
  <2>1. \A w \in 1..Depth' : w \in 1..(Depth - 1) /\ w \in 1..Depth /\ w # Depth
    BY <1>1, <1>4 DEF Depth
  <2> QED BY <1>1, <1>4, <1>6, <1>8, <2>1
<1>10. UNCHANGED lvars
  BY <1>3 DEF lvars
<1>11. Len(cur') <= MaxDepth /\ Len(walks') = Len(cur')
  BY <1>1, <1>4
<1>12. PointersOK(gone, c2, 1..Depth')
  BY <1>7, <1>8
<1>13. ListInv' /\ Linked' = Linked
  BY <1>3, <1>4, <1>9, <1>10, <1>11, <1>12, NewPointers
<1> QED BY <1>2, <1>3, <1>13

\* safe_list_for_each.
LEMMA ForEachStep ==
  ASSUME NEW s, NEW c, Inv(s, c), safe_list_for_each
  PROVE  ListInv' /\ (Promise!BeginEmpty \/ \E e \in Elements : Promise!Begin(e))
<1>1. /\ LinksOK(next, prev, s) /\ next \in [Nodes -> Nodes \cup {Null}]
      /\ s \in Seq(Elements) /\ Distinct(s) /\ Len(s) \in Nat
      /\ \A x \in Elements : x \in Linked <=> IsIn(x, s)
      /\ \A k \in 0..Len(s) : next[Node(s, k)] = Node(s, k + 1)
      /\ cur \in Seq(Elements) /\ Depth \in 0..MaxDepth /\ Depth = Len(cur) /\ MaxDepth \in Nat
      /\ walks \in Seq(Walks) /\ Len(walks) = Depth
      /\ PointersOK(Pointers, c, 1..Depth)
      /\ \A w \in 1..Depth : w \in Iterators /\ WalkOK(s, nextNode[w], walks[w])
  BY InvFacts, SafeListAssumption
<1> DEFINE i == Depth + 1
           D == 1..Depth
           to == next[ListHead]
           set == SetIterator(Pointers, to, i)
<1>2. Depth < MaxDepth /\ UNCHANGED lvars /\ Begin(i) = set
  BY DEF safe_list_for_each, Begin
<1>3. i \in Iterators \ D /\ D \cup {i} = 1..(Depth + 1) /\ (D \cup {i}) \ {i} = D
  <2>1. Depth \in Nat /\ MaxDepth \in Nat /\ Depth < MaxDepth
    BY <1>1, <1>2
  <2>2. i \in Iterators
    BY <2>1 DEF Iterators
  <2>3. i \notin D /\ D \cup {i} = 1..(Depth + 1)
    BY <2>1
  <2> HIDE DEF D, i
  <2> QED BY <2>2, <2>3
<1>n. /\ \A k \in Int : Node(s, k) \in Nodes
      /\ Node(s, 0) = ListHead
      /\ \A k \in 1..Len(s) : Node(s, k) = s[k] /\ s[k] \in Elements /\ s[k] # ListHead
  BY <1>1, NodeApart
<1>4. to \in Nodes /\ next[to] \in Nodes
  <2>1. to = Node(s, 1)
    BY <1>1, <1>n
  <2>2. CASE Len(s) = 0
    <3>1. to = ListHead
      BY <2>1, <2>2 DEF Node
    <3> QED BY <1>n, <2>1, <3>1
  <2>3. CASE Len(s) # 0
    <3>1. 1 \in 0..Len(s) /\ 1 + 1 \in Int
      BY <1>1, <2>3
    <3> QED BY <1>1, <1>n, <2>1, <3>1
  <2> QED BY <2>2, <2>3
<1>5. PICK c2 : PointersOK(set, c2, D \cup {i})
  <2>1. PointersOK(Pointers, c, D)
    BY <1>1
  <2> HIDE DEF D, i, to
  <2> QED BY <1>3, <1>4, <2>1, SetP
<1>6. set.nextNode[i] = next[to] /\ \A j \in Iterators : j # i => set.nextNode[j] = nextNode[j]
  <2>1. set.nextNode = [nextNode EXCEPT ![i] = next[to]]
    BY DEF SetIterator, Pointers
  <2>2. nextNode \in [Iterators -> Nodes]
    BY <1>1 DEF PointersOK, ChainsOK, Pointers
  <2> HIDE DEF i, set
  <2> QED BY <1>3, <2>1, <2>2
<1>7. \A w \in D : w # i /\ w \in Iterators
  BY <1>1
<1> HIDE DEF set
<1>8. CASE to = ListHead
  <2> DEFINE del == DelIterator(set, i)
             gone == Gone(del, i)
  <2>1. Store(gone) /\ ret' = 0 /\ UNCHANGED <<cur, walks, parity>>
    BY <1>2, <1>8 DEF safe_list_for_each
  <2>2. del.nextNode = set.nextNode
    BY DEF DelIterator
  <2>3. PICK c3 : PointersOK(del, c3, D)
    <3>1. i \in D \cup {i}
      OBVIOUS
    <3> DEFINE E == D \cup {i}
    <3>2. PointersOK(set, c2, E) /\ i \in E /\ E \ {i} = D
      BY <1>3, <1>5
    <3> HIDE DEF E, D, i
    <3> QED BY <3>2, DelP
  <2>4. PointersOK(gone, c3, D) /\ \A j \in Iterators : j # i => gone.nextNode[j] = del.nextNode[j]
    <3> HIDE DEF del, D, i
    <3> QED BY <1>3, <2>3, GoneP
  <2> HIDE DEF del, gone
  <2>5. Depth' = Depth
    BY <2>1 DEF Depth
  <2>6. \A w \in 1..Depth' : WalkOK(s, gone.nextNode[w], walks'[w])
    BY <1>1, <1>6, <1>7, <2>1, <2>2, <2>4, <2>5
  <2>7. PointersOK(gone, c3, 1..Depth') /\ cur' \in Seq(Elements) /\ Len(cur') <= MaxDepth
        /\ walks' \in Seq(Walks) /\ Len(walks') = Len(cur')
    BY <1>1, <2>1, <2>4, <2>5
  <2>8. ListInv' /\ Linked' = Linked
    BY <1>2, <2>1, <2>6, <2>7, NewPointers
  <2>9. Linked = {}
    <3>1. Len(s) = 0
      <4> SUFFICES ASSUME Len(s) # 0 PROVE FALSE
        OBVIOUS
      <4>1. 1 \in 1..Len(s) /\ to = Node(s, 0 + 1)
        BY <1>1, <1>n
      <4> QED BY <1>8, <1>n, <4>1
    <3> QED BY <1>1, <3>1 DEF IsIn, Linked
  <2>10. Promise!BeginEmpty
    BY <2>1, <2>8, <2>9 DEF Promise!BeginEmpty
  <2> QED BY <2>8, <2>10
<1>9. CASE to # ListHead
  <2> DEFINE w0 == [todo |-> Linked \ {to}, may |-> {}]
  <2>1. /\ Store(set) /\ cur' = Append(cur, to) /\ walks' = Append(walks, w0)
        /\ parity' = 1 - parity /\ UNCHANGED ret
    BY <1>2, <1>9 DEF safe_list_for_each
  <2>2. to \in Elements /\ IsIn(to, s) /\ WalkOK(s, next[to], w0)
    BY <1>1, <1>9, WalkBegin DEF Linked
  <2>3. w0 \in Walks
    BY DEF Walks, Linked
  <2> HIDE DEF w0
  <2>4. /\ cur' \in Seq(Elements) /\ Len(cur') = Depth + 1
        /\ walks' \in Seq(Walks) /\ Len(walks') = Depth + 1 /\ walks'[Depth + 1] = w0
        /\ \A w \in 1..Depth : walks'[w] = walks[w]
    <3>1. Len(Append(cur, to)) = Len(cur) + 1 /\ Append(cur, to) \in Seq(Elements)
      BY <1>1, <2>2
    <3>2. /\ Append(walks, w0) \in Seq(Walks) /\ Len(Append(walks, w0)) = Len(walks) + 1
          /\ Append(walks, w0)[Len(walks) + 1] = w0
          /\ \A w \in 1..Len(walks) : Append(walks, w0)[w] = walks[w]
      BY <1>1, <2>3
    <3> QED BY <1>1, <2>1, <3>1, <3>2
  <2>5. Depth' = Depth + 1 /\ Len(cur') <= MaxDepth /\ Len(walks') = Len(cur')
    BY <1>1, <1>2, <2>4 DEF Depth
  <2>6. \A w \in 1..Depth' : WalkOK(s, set.nextNode[w], walks'[w])
    <3>1. \A w \in 1..Depth' : w = i \/ w \in 1..Depth
      BY <1>1, <2>5
    <3> QED BY <1>1, <1>6, <1>7, <2>2, <2>4, <3>1
  <2>7. PointersOK(set, c2, 1..Depth')
    BY <1>3, <1>5, <2>5
  <2>8. ListInv' /\ Linked' = Linked
    BY <1>2, <2>1, <2>4, <2>5, <2>6, <2>7, NewPointers
  <2>9. Promise!Begin(to)
    <3>1. to \in Linked
      BY <1>1, <2>2
    <3>2. Promise!Visited([todo |-> Linked, may |-> {}], to) = w0
      BY DEF Promise!Visited, w0
    <3> QED BY <1>1, <1>2, <2>1, <2>8, <3>1, <3>2 DEF Promise!Begin
  <2> QED BY <2>2, <2>8, <2>9
<1> QED BY <1>8, <1>9

\* Replacing the last element.
LEMMA LastReplaced ==
  ASSUME NEW S, NEW st \in Seq(S), st # <<>>, NEW x \in S
  PROVE  [st EXCEPT ![Len(st)] = x] = Append(Front(st), x)
<1>1. /\ Front(st) \in Seq(S) /\ Len(Front(st)) = Len(st) - 1
      /\ \A k \in 1..(Len(st) - 1) : Front(st)[k] = st[k]
  BY FrontElements
<1> DEFINE a == Append(Front(st), x)
           b == [st EXCEPT ![Len(st)] = x]
           len == Len(st)
<1>2. len \in Nat \ {0}
  OBVIOUS
<1>3. /\ a \in Seq(S) /\ Len(a) = len /\ a[len] = x /\ \A k \in 1..(len - 1) : a[k] = st[k]
  <2> DEFINE f == Front(st)
  <2>1. f \in Seq(S) /\ Len(f) = len - 1 /\ \A k \in 1..(len - 1) : f[k] = st[k]
    BY <1>1
  <2> HIDE DEF f, len
  <2>2. Append(f, x) \in Seq(S) /\ Len(Append(f, x)) = Len(f) + 1 /\ Append(f, x)[Len(f) + 1] = x
        /\ \A k \in 1..Len(f) : Append(f, x)[k] = f[k]
    BY <2>1
  <2> QED BY <1>2, <2>1, <2>2 DEF f
<1>4. /\ b \in Seq(S) /\ Len(b) = len /\ b[len] = x /\ \A k \in 1..(len - 1) : b[k] = st[k]
  BY <1>2
<1> HIDE DEF a, b, len
<1>5. \A k \in 1..len : a[k] = b[k]
  <2>1. \A k \in 1..len : k \in 1..(len - 1) \/ k = len
    BY <1>2
  <2> QED BY <1>3, <1>4, <2>1
<1>6. a = b
  BY <1>3, <1>4, <1>5
<1> QED BY <1>6 DEF a, b, len

LEMMA SameEnds ==
  ASSUME NEW x
  PROVE  Promise!Front(x) = Front(x) /\ Promise!Last(x) = Last(x)
BY DEF Promise!Front, Front, Promise!Last, Last

\* The callback returned 0.
LEMMA CallbackStep ==
  ASSUME NEW s, NEW c, Inv(s, c), VisitReturn
  PROVE  ListInv' /\ (Promise!End \/ \E e \in Elements : Promise!Visit(e))
<1>1. /\ LinksOK(next, prev, s) /\ s \in Seq(Elements) /\ Distinct(s) /\ Len(s) \in Nat
      /\ \A k \in 0..Len(s) : next[Node(s, k)] = Node(s, k + 1)
      /\ cur \in Seq(Elements) /\ Depth \in 0..MaxDepth /\ Depth = Len(cur) /\ MaxDepth \in Nat
      /\ walks \in Seq(Walks) /\ Len(walks) = Depth
      /\ PointersOK(Pointers, c, 1..Depth)
      /\ \A w \in 1..Depth : w \in Iterators /\ walks[w] \in Walks /\ WalkOK(s, nextNode[w], walks[w])
  BY InvFacts, SafeListAssumption
<1> DEFINE i == Depth
           D == 1..Depth
           to == nextNode[i]
           w0 == walks[i]
           move == MoveIterator(Pointers, to, i)
<1>2. cur # <<>> /\ i \in D /\ i \in Iterators /\ walks # <<>> /\ w0 = Last(walks)
  <2>1. cur # <<>>
    BY DEF VisitReturn
  <2>2. Depth \in Nat \ {0}
    BY <1>1, <2>1
  <2> QED BY <1>1, <2>1, <2>2 DEF Last
<1>3. /\ to \in Nodes /\ (to # ListHead => IsIn(to, s))
      /\ to = ListHead => w0.todo = {}
      /\ to # ListHead => /\ to \in w0.todo \cup w0.may
                          /\ WalkOK(s, next[to], [todo |-> w0.todo \ {to}, may |-> w0.may \ {to}])
  <2>1. w0 \in Walks /\ WalkOK(s, to, w0) /\ LinksOK(next, prev, s)
    BY <1>1, <1>2
  <2> HIDE DEF w0, to
  <2> QED BY <2>1, WalkStep
<1>n. /\ \A k \in Int : Node(s, k) \in Nodes
      /\ Node(s, 0) = ListHead
      /\ \A k \in 1..Len(s) : Node(s, k) = s[k] /\ s[k] \in Elements
  BY <1>1, NodeApart
<1>4. next[to] \in Nodes /\ (to # ListHead => to \in Elements)
  <2>1. CASE to = ListHead
    <3>1. next[to] = Node(s, 0 + 1)
      BY <1>1, <1>n, <2>1
    <3> QED BY <1>n, <2>1, <3>1
  <2>2. CASE to # ListHead
    <3>1. PICK k \in 1..Len(s) : s[k] = to
      BY <1>3, <2>2 DEF IsIn
    <3>2. k \in 0..Len(s) /\ k + 1 \in Int
      BY <1>1
    <3> HIDE DEF to
    <3> QED BY <1>1, <1>n, <3>1, <3>2
  <2> QED BY <2>1, <2>2
<1>5. /\ \E c1 : PointersOK(move, c1, D)
      /\ move.nextNode[i] = next[to] /\ \A j \in Iterators : j # i => move.nextNode[j] = nextNode[j]
  <2>1. PointersOK(Pointers, c, D)
    BY <1>1
  <2>2. Pointers.nextNode = nextNode
    BY DEF Pointers
  <2> HIDE DEF D, i, to
  <2>3. /\ \E c1 : PointersOK(move, c1, D)
        /\ move.nextNode[i] = next[to] /\ \A j \in Iterators : j # i => move.nextNode[j] = Pointers.nextNode[j]
    BY <1>2, <1>4, <2>1, MoveP
  <2> QED BY <2>2, <2>3
<1>6. PICK c1 : PointersOK(move, c1, D)
  BY <1>5
<1> HIDE DEF move
<1>7. CASE to = ListHead
  <2>1. Return(move, 0)
    BY <1>7 DEF VisitReturn, move
  <2>2. /\ ListInv' /\ Linked' = Linked
        /\ walks # <<>> /\ walks' = Front(walks) /\ cur' = Front(cur) /\ ret' = 0 /\ parity' = parity
    BY <1>2, <1>5, <1>6, <2>1, ReturnStep
  <2>3. Promise!End
    BY <1>2, <1>3, <1>7, <2>2, SameEnds DEF Promise!End
  <2> QED BY <2>2, <2>3
<1>8. CASE to # ListHead
  <2> DEFINE w1 == [todo |-> w0.todo \ {to}, may |-> w0.may \ {to}]
  <2>1. /\ Store(move) /\ cur' = [cur EXCEPT ![Depth] = to]
        /\ walks' = [walks EXCEPT ![Depth] = w1]
        /\ parity' = 1 - parity /\ UNCHANGED <<next, prev, ret>>
    BY <1>8 DEF VisitReturn, move
  <2>2. w1 \in Walks
    BY <1>1, <1>2 DEF Walks
  <2>3. Promise!Visited(Last(walks), to) = w1
    BY <1>2 DEF Promise!Visited
  <2>4. WalkOK(s, next[to], w1) /\ to \in w0.todo \cup w0.may
    BY <1>3, <1>8
  <2> HIDE DEF w1, w0
  <2>5. cur' = Append(Front(cur), to) /\ walks' = Append(Front(walks), w1)
    <3>1. [cur EXCEPT ![Len(cur)] = to] = Append(Front(cur), to)
      <4>1. cur \in Seq(Elements) /\ cur # <<>> /\ to \in Elements
        BY <1>1, <1>2, <1>4, <1>8
      <4> QED BY <4>1, LastReplaced, Zenon
    <3>2. [walks EXCEPT ![Len(walks)] = w1] = Append(Front(walks), w1)
      <4>1. walks \in Seq(Walks) /\ walks # <<>>
        BY <1>1, <1>2
      <4> QED BY <2>2, <4>1, LastReplaced, Zenon
    <3> QED BY <1>1, <2>1, <3>1, <3>2
  <2>6. /\ cur' \in Seq(Elements) /\ Len(cur') = Depth
        /\ walks' \in Seq(Walks) /\ Len(walks') = Depth /\ walks'[Depth] = w1
        /\ \A w \in 1..Depth : w # Depth => walks'[w] = walks[w]
    <3>1. cur' \in Seq(Elements) /\ Len(cur') = Depth
      BY <1>1, <1>2, <1>4, <1>8, <2>1
    <3> QED BY <1>1, <1>2, <2>1, <2>2, <3>1
  <2>7. Depth' = Depth /\ Len(cur') <= MaxDepth /\ Len(walks') = Len(cur') /\ UNCHANGED lvars
    BY <1>1, <2>1, <2>6 DEF Depth, lvars
  <2>8. \A w \in 1..Depth' : WalkOK(s, move.nextNode[w], walks'[w])
    BY <1>1, <1>5, <2>4, <2>6, <2>7
  <2>9. PointersOK(move, c1, 1..Depth')
    BY <1>6, <2>7
  <2>10. ListInv' /\ Linked' = Linked
    BY <2>1, <2>6, <2>7, <2>8, <2>9, NewPointers
  <2>11. Promise!Visit(to)
    BY <1>2, <2>1, <2>3, <2>4, <2>5, <2>10, SameEnds DEF Promise!Visit, w0
  <2> QED BY <1>4, <1>8, <2>10, <2>11
<1> QED BY <1>7, <1>8

\* The callback returned a value other than 0.
LEMMA BreakStep ==
  ASSUME NEW s, NEW c, Inv(s, c), VisitBreak
  PROVE  ListInv' /\ Promise!Break
<1>1. cur # <<>> /\ Return(Pointers, 1)
  BY DEF VisitBreak
<1>2. PointersOK(Pointers, c, 1..Depth)
  BY InvFacts
<1>3. \A j \in Iterators : j # Depth => Pointers.nextNode[j] = nextNode[j]
  BY DEF Pointers
<1>4. /\ ListInv' /\ Linked' = Linked
      /\ walks # <<>> /\ walks' = Front(walks) /\ cur' = Front(cur) /\ ret' = 1 /\ parity' = parity
  <2> DEFINE ptr == Pointers
  <2>1. PointersOK(ptr, c, 1..Depth) /\ Return(ptr, 1) /\ \A j \in Iterators : j # Depth => ptr.nextNode[j] = nextNode[j]
    BY <1>1, <1>2, <1>3
  <2> HIDE DEF ptr
  <2> QED BY <1>1, <2>1, ReturnStep
<1> QED BY <1>4, SameEnds DEF Promise!Break

-----------------------------------------------------------------------------
(* Every step keeps the invariant and is a step of the promise. *)

LEMMA InitOK == ListInit => ListInv /\ Promise!Init
<1> SUFFICES ASSUME ListInit PROVE ListInv /\ Promise!Init
  OBVIOUS
<1> DEFINE c == [n \in Nodes |-> <<>>]
<1>1. /\ next = [n \in Nodes |-> IF n = ListHead THEN ListHead ELSE Null]
      /\ prev = [n \in Nodes |-> IF n = ListHead THEN ListHead ELSE Null]
      /\ first = [n \in Nodes \cup Iterators |-> Null]
      /\ head = [i \in Iterators |-> Null]
      /\ nextNode = [i \in Iterators |-> ListHead]
      /\ cur = <<>> /\ walks = <<>> /\ ret = 0 /\ parity = 0
  BY DEF ListInit
<1>2. LinksOK(next, prev, <<>>)
  <2>1. ListHead \in Nodes /\ Elements \subseteq Nodes /\ ListHead # Null /\ ListHead \notin Elements
    BY SafeListAssumption, Apart
  <2>2. \A k \in Int : Node(<<>>, k) = ListHead
    BY DEF Node
  <2>3. next[ListHead] = ListHead /\ prev[ListHead] = ListHead /\ \A e \in Elements : next[e] = Null
    BY <1>1, <2>1
  <2>4. \A k \in 0..Len(<<>>) : k \in Int /\ k + 1 \in Int
    OBVIOUS
  <2>5. \A k \in 0..Len(<<>>) : /\ next[Node(<<>>, k)] = Node(<<>>, k + 1)
                               /\ prev[Node(<<>>, k + 1)] = Node(<<>>, k)
    BY <2>2, <2>3, <2>4
  <2>6. \A e \in Elements : next[e] # Null <=> IsIn(e, <<>>)
    BY <2>3 DEF IsIn
  <2>7. next \in [Nodes -> Nodes \cup {Null}] /\ prev \in [Nodes -> Nodes \cup {Null}]
    BY <1>1, <2>1
  <2>8. <<>> \in Seq(Elements) /\ Distinct(<<>>)
    BY DEF Distinct
  <2> QED BY <2>5, <2>6, <2>7, <2>8 DEF LinksOK
<1>3. Depth = 0 /\ 1..Depth = {}
  BY <1>1 DEF Depth
<1>4. ChainsOK(first, head, nextNode, c, 1..Depth)
  <2>1. \A n \in Nodes : first[n] = Null /\ c[n] = <<>>
    BY <1>1
  <2>2. \A n \in Nodes : ChainOK(first, head, nextNode, n, c[n])
    BY <2>1 DEF ChainOK, Distinct
  <2>3. c \in [Nodes -> Seq(1..Depth)]
    OBVIOUS
  <2>4. /\ first \in [Nodes \cup Iterators -> Iterators \cup {Null}]
        /\ head \in [Iterators -> Nodes \cup Iterators \cup {Null}]
        /\ nextNode \in [Iterators -> Nodes]
    BY <1>1, Apart
  <2> HIDE DEF c
  <2> QED BY <1>3, <2>2, <2>3, <2>4 DEF ChainsOK
<1>5. Inv(<<>>, c)
  <2>1. cur \in Seq(Elements) /\ walks \in Seq(Walks) /\ Len(walks) = Len(cur) /\ Len(cur) <= MaxDepth
    BY <1>1, SafeListAssumption
  <2> HIDE DEF c
  <2> QED BY <1>2, <1>3, <1>4, <2>1 DEF Inv
<1>6. Linked = {}
  BY <1>2 DEF Linked, LinksOK, IsIn
<1>7. Promise!Init
  BY <1>1, <1>6 DEF Promise!Init
<1> QED BY <1>5, <1>7 DEF ListInv

LEMMA StepOK == ListInv /\ [ListNext]_listVars => ListInv' /\ [Promise!Next]_(Promise!vars)
<1> SUFFICES ASSUME ListInv, [ListNext]_listVars PROVE ListInv' /\ [Promise!Next]_(Promise!vars)
  OBVIOUS
<1>1. PICK s, c : Inv(s, c)
  BY DEF ListInv
<1>2. ASSUME NEW e \in Elements, safe_list_add(e) PROVE ListInv' /\ Promise!Add(e)
  <2>1. Len(s) \in Nat /\ s \in Seq(Elements) /\ Distinct(s)
        /\ \A k \in 0..Len(s) : prev[Node(s, k + 1)] = Node(s, k)
    BY <1>1, InvFacts
  <2> DEFINE i == Len(s) + 1
  <2>2. Node(s, i) = ListHead
    BY <2>1, NodeApart
  <2>3. Len(s) \in 0..Len(s) /\ i - 1 = Len(s) /\ i \in 1..(Len(s) + 1)
    BY <2>1
  <2>4. prev[ListHead] = Node(s, i - 1)
    BY <2>1, <2>2, <2>3
  <2>5. e \notin Linked /\ Link(e, Node(s, i - 1), Node(s, i)) /\ Added(e)
    BY <1>2, <2>2, <2>4 DEF safe_list_add
  <2> HIDE DEF i
  <2> QED BY <1>1, <2>3, <2>5, AddStep
<1>3. ASSUME NEW e \in Elements, safe_list_add_first(e) PROVE ListInv' /\ Promise!Add(e)
  <2>1. Len(s) \in Nat /\ s \in Seq(Elements) /\ Distinct(s)
        /\ \A k \in 0..Len(s) : next[Node(s, k)] = Node(s, k + 1)
    BY <1>1, InvFacts
  <2>2. Node(s, 0) = ListHead
    BY <2>1, NodeApart
  <2> DEFINE i == 1
  <2>3. 0 \in 0..Len(s) /\ i - 1 = 0 /\ 0 + 1 = i /\ i \in 1..(Len(s) + 1)
    BY <2>1
  <2>4. next[ListHead] = Node(s, i)
    BY <2>1, <2>2, <2>3
  <2>5. e \notin Linked /\ Link(e, Node(s, i - 1), Node(s, i)) /\ Added(e)
    BY <1>3, <2>2, <2>3, <2>4 DEF safe_list_add_first
  <2> HIDE DEF i
  <2> QED BY <1>1, <2>3, <2>5, AddStep
<1>4. ASSUME NEW e \in Elements, safe_list_del(e) PROVE ListInv' /\ Promise!Del(e)
  BY <1>1, <1>4, DelStep
<1>5. ASSUME safe_list_for_each PROVE ListInv' /\ Promise!Next
  BY <1>1, <1>5, ForEachStep DEF Promise!Next
<1>6. ASSUME VisitReturn PROVE ListInv' /\ Promise!Next
  BY <1>1, <1>6, CallbackStep DEF Promise!Next
<1>7. ASSUME VisitBreak PROVE ListInv' /\ Promise!Next
  BY <1>1, <1>7, BreakStep DEF Promise!Next
<1>8. ASSUME UNCHANGED listVars PROVE ListInv' /\ UNCHANGED (Promise!vars)
  <2>1. Inv(s, c)'
    BY <1>1, <1>8 DEF Inv, listVars, Depth
  <2>2. UNCHANGED (Promise!vars)
    BY <1>8 DEF Promise!vars, listVars, Linked
  <2> QED BY <2>1, <2>2 DEF ListInv
<1>9. \A e \in Elements : Promise!Add(e) \/ Promise!Del(e) => Promise!Next
  BY DEF Promise!Next
<1> QED BY <1>2, <1>3, <1>4, <1>5, <1>6, <1>7, <1>8, <1>9 DEF ListNext

\* The invariant says what the property says.
LEMMA InvIterators == ListInv => IteratorsOK
<1> SUFFICES ASSUME NEW s, NEW c, Inv(s, c) PROVE IteratorsOK
  BY DEF ListInv
<1>1. /\ LinksOK(next, prev, s) /\ \A x \in Elements : x \in Linked <=> IsIn(x, s)
      /\ Depth \in 0..MaxDepth /\ MaxDepth \in Nat
      /\ ChainsOK(first, head, nextNode, c, 1..Depth)
      /\ \A w \in 1..Depth : w \in Iterators /\ walks[w] \in Walks /\ WalkOK(s, nextNode[w], walks[w])
  BY InvFacts, SafeListAssumption
<1>2. ListOK
  BY <1>1, LinksListOK
<1> DEFINE D == 1..Depth
<1>3. ChainsOK(first, head, nextNode, c, D) /\ D \subseteq Iterators
  BY <1>1
<1>4. ASSUME NEW n \in Nodes
      PROVE  /\ c[n] \in Chains /\ IsChain(Pointers, n, c[n])
             /\ {c[n][k] : k \in 1..Len(c[n])} = {i \in D : nextNode[i] = n}
  <2> HIDE DEF D
  <2>1. /\ c[n] \in Seq(D) /\ Len(c[n]) \in Nat
        /\ \A k \in 1..Len(c[n]) : c[n][k] \in D /\ c[n][k] \in Iterators /\ nextNode[c[n][k]] = n
        /\ c[n] = <<>> <=> Len(c[n]) = 0
    BY <1>3, InChain
  <2>2. ChainOK(first, head, nextNode, n, c[n]) /\ \A i \in D : IsIn(i, c[nextNode[i]])
    BY <1>3 DEF ChainsOK
  <2>3. Len(c[n]) <= MaxDepth
    <3> DEFINE l == Len(c[n])
    <3>1. IsFiniteSet(1..l) /\ Cardinality(1..l) = l /\ IsFiniteSet(Iterators) /\ Cardinality(Iterators) = MaxDepth
      <4>1. l \in Nat /\ MaxDepth \in Nat
        BY <1>1, <2>1
      <4> HIDE DEF l
      <4>2. ASSUME NEW m \in Nat PROVE IsFiniteSet(1..m) /\ Cardinality(1..m) = m
        <5>1. IsFiniteSet(1..m) /\ Cardinality(1..m) = IF 1 > m THEN 0 ELSE m - 1 + 1
          BY FS_Interval
        <5> QED BY <5>1
      <4> QED BY <4>1, <4>2 DEF Iterators
    <3>2. c[n] \in Injection(1..l, Iterators)
      <4>1. c[n] \in [1..l -> Iterators]
        BY <2>1
      <4>2. \A j, k \in 1..l : c[n][j] = c[n][k] => j = k
        BY <2>2 DEF ChainOK, Distinct
      <4> HIDE DEF l
      <4> QED BY <4>1, <4>2 DEF Injection, IsInjective
    <3> HIDE DEF l
    <3>3. Cardinality(1..l) <= Cardinality(Iterators)
      BY <3>1, <3>2, FS_Injection
    <3> QED BY <3>1, <3>3 DEF l
  <2>4. c[n] \in Chains
    <3>1. c[n] \in [1..Len(c[n]) -> Iterators] /\ Len(c[n]) \in 0..MaxDepth
      BY <1>1, <2>1, <2>3
    <3> QED BY <3>1 DEF Chains, SeqOf
  <2>5. IsChain(Pointers, n, c[n])
    <3>1. ASSUME NEW k \in 0..Len(c[n])
          PROVE  first[IF k = 0 THEN n ELSE c[n][k]] = IF k < Len(c[n]) THEN c[n][k + 1] ELSE Null
      <4>1. CASE k = 0
        BY <2>1, <2>2, <4>1 DEF ChainOK
      <4>2. CASE k # 0
        <5>1. k \in 1..Len(c[n])
          BY <2>1, <4>2
        <5> QED BY <2>2, <4>2, <5>1 DEF ChainOK
      <4> QED BY <4>1, <4>2
    <3>2. Pointers.first = first
      BY DEF Pointers
    <3> QED BY <3>1, <3>2 DEF IsChain
  <2>6. {c[n][k] : k \in 1..Len(c[n])} = {i \in D : nextNode[i] = n}
    BY <2>1, <2>2 DEF IsIn
  <2> QED BY <2>4, <2>5, <2>6
<1>5. ASSUME NEW i \in D PROVE nextNode[i] \in Linked \cup {ListHead} /\ first[head[i]] = i
  <2>1. nextNode[i] \in Nodes /\ (nextNode[i] # ListHead => IsIn(nextNode[i], s))
    BY <1>1, WalkStep
  <2>2. nextNode[i] \in Linked \cup {ListHead}
    BY <1>1, <2>1 DEF Nodes
  <2> DEFINE n == nextNode[i]
  <2>3. ChainOK(first, head, nextNode, n, c[n]) /\ IsIn(i, c[n])
    BY <1>3, <2>1 DEF ChainsOK
  <2> HIDE DEF D, n
  <2>4. PICK k \in 1..Len(c[n]) : c[n][k] = i
    BY <2>3 DEF IsIn
  <2>5. CASE k = 1
    <3>1. head[i] = n /\ first[n] = c[n][1]
      BY <2>3, <2>4, <2>5 DEF ChainOK
    <3> QED BY <2>2, <2>4, <2>5, <3>1
  <2>6. CASE k # 1
    <3>1. k - 1 \in 1..Len(c[n]) /\ k - 1 < Len(c[n]) /\ (k - 1) + 1 = k
      <4>1. Len(c[n]) \in Nat
        BY <1>3, <2>1, InChain DEF n
      <4> QED BY <2>6, <4>1
    <3>2. head[i] = c[n][k - 1] /\ first[c[n][k - 1]] = c[n][(k - 1) + 1]
      BY <2>3, <2>4, <2>6, <3>1 DEF ChainOK
    <3> QED BY <2>2, <2>4, <3>1, <3>2
  <2> QED BY <2>5, <2>6
<1> QED BY <1>2, <1>4, <1>5, Zenon DEF IteratorsOK

LEMMA Invariant == ListSpec => []ListInv
<1>1. ListInit => ListInv
  BY InitOK
<1>2. ListInv /\ [ListNext]_listVars => ListInv'
  BY StepOK
<1> QED BY <1>1, <1>2, PTL DEF ListSpec

\* Whatever callbacks do to the list, for lists of any length and walks nested to
\* any depth: the chain of a node holds the iterators of exactly the walks that
\* visit it next, no pointer into a stack that is gone is followed, and the list is
\* sound.
THEOREM IteratorsAreOK == ListSpec => []IteratorsOK
BY Invariant, InvIterators, PTL

\* safe_list.c implements SafeListSpec: a walk calls back once for every element
\* that stays on the list while it lasts, and never for one that is off it.
THEOREM Implements == ListSpec => Refinement
<1>1. ListInit => Promise!Init
  BY InitOK
<1>2. ListInv /\ [ListNext]_listVars => [Promise!Next]_(Promise!vars)
  BY StepOK
<1> QED BY <1>1, <1>2, Invariant, PTL DEF ListSpec, Refinement, Promise!Spec

-----------------------------------------------------------------------------
(***************************************************************************)
(* The queue.  For any tasks, any limit and any nesting of callbacks: the  *)
(* queue's accounts are right, its interrupted operations find what they go on *)
(* with, and no task that could run is forgotten.                          *)
(***************************************************************************)

-----------------------------------------------------------------------------
(* The inductive invariant. *)

TypeOK ==
  /\ lists \in [ListNames -> Seq(Tasks)]
  /\ queued \in [Tasks -> BOOLEAN] /\ running \in [Tasks -> BOOLEAN]
  /\ cancelled \in [Tasks -> BOOLEAN] /\ timer \in [Tasks -> BOOLEAN]
  /\ proc \in [Tasks -> BOOLEAN]
  /\ running_tasks \in Int
  /\ stopped \in BOOLEAN /\ empty \in BOOLEAN /\ quiet \in BOOLEAN
  /\ q_timer \in {"off", "start", "empty"}

\* What a frame refers to, given the lists and the watched processes: the next
\* task of a walk is on its list, and a task that is being killed is on the
\* active list and not watched any more, so nothing else completes it.
FrameOK(f, ls, pr) ==
  /\ f.k \in {"run", "cancel", "kill", "complete"} => f.t \in Tasks
  /\ f.k \in ListNames /\ f.t \in Tasks => On(f.t, ls[f.k])
  /\ f.k = "kill" => On(f.t, ls["active"]) /\ ~pr[f.t]

\* No task is killed from its own kill callback, nor by a runqueue_kill
\* called from one.
StackOK(st, ls, pr) ==
  /\ st \in Seq(Frame)
  /\ \A i \in 1..Len(st) : FrameOK(st[i], ls, pr)
  /\ \A i, j \in 1..Len(st) : i < j /\ st[i].k = "kill"
       => st[j].k # "killall" /\ ~(st[j].k = "kill" /\ st[j].t = st[i].t)

\* A process is watched only while its task runs, or was watched too early.
Watched == \A t \in Tasks : proc[t] => running[t] \/ t \in early

\* An operation on the stack that will yet look for a task to start, or set
\* the timer.
Resumes(st) == \E i \in 1..Len(st) : st[i].k \in {"start", "complete"}

Wakeup == CanStart /\ ~quiet /\ q_timer # "start" => Resumes(stack)

IInv ==
  /\ TypeOK /\ Accounting /\ NothingLeftBehind /\ Watched
  /\ StackOK(stack, lists, proc) /\ Wakeup

-----------------------------------------------------------------------------
(* Lists. *)

LEMMA OnIsIn == \A t, list : On(t, list) <=> IsIn(t, list)
BY DEF On, IsIn

\* What safe_list_del leaves, and where it sends the iterators.
LEMMA Unlinked ==
  ASSUME RunqueueAssumption, NEW list \in Seq(Tasks), Distinct(list), NEW p \in 1..Len(list)
  PROVE  LET new == RemoveAt(list, p)
             after == Successor(list, p)
         IN /\ new \in Seq(Tasks) /\ Distinct(new) /\ Len(new) = Len(list) - 1
            /\ \A x : On(x, new) <=> x # list[p] /\ On(x, list)
            /\ after \in Tasks \cup {HeadNode} /\ (after \in Tasks => On(after, new))
<1> DEFINE new == RemoveAt(list, p)
           after == Successor(list, p)
<1>1. new \in Seq(Tasks) /\ Len(new) = Len(list) - 1
  BY RemoveAtElements
<1>2. Distinct(new) /\ \A x : On(x, new) <=> x # list[p] /\ On(x, list)
  BY RemoveDistinct, OnIsIn
<1> HIDE DEF new
<1>3. CASE p < Len(list)
  <2>1. after = list[p + 1] /\ p + 1 \in 1..Len(list) /\ after \in Tasks
    BY <1>3 DEF Successor
  <2>2. after # list[p] /\ On(after, list)
    BY <2>1 DEF Distinct, On
  <2> QED BY <1>1, <1>2, <2>1, <2>2 DEF new
<1>4. CASE ~(p < Len(list))
  <2>1. after = HeadNode /\ HeadNode \notin Tasks
    BY <1>4 DEF Successor, RunqueueAssumption
  <2> QED BY <1>1, <1>2, <2>1 DEF new
<1> QED BY <1>3, <1>4

LEMMA TailUnlinked ==
  ASSUME RunqueueAssumption, NEW list \in Seq(Tasks), Distinct(list), list # <<>>
  PROVE  LET new == Tail(list)
             after == Successor(list, 1)
         IN /\ new \in Seq(Tasks) /\ Distinct(new) /\ Len(new) = Len(list) - 1
            /\ \A x : On(x, new) <=> x # Head(list) /\ On(x, list)
            /\ after \in Tasks \cup {HeadNode} /\ (after \in Tasks => On(after, new))
<1> DEFINE new == Tail(list)
           after == Successor(list, 1)
<1>1. new \in Seq(Tasks) /\ Len(new) = Len(list) - 1 /\ Head(list) = list[1] /\ Len(list) \in Nat \ {0}
  OBVIOUS
<1>2. Distinct(new) /\ \A x : On(x, new) <=> x # Head(list) /\ On(x, list)
  BY TailDistinct, OnIsIn
<1> HIDE DEF new
<1>3. CASE 1 < Len(list)
  <2>1. after = list[2] /\ 2 \in 1..Len(list) /\ after \in Tasks
    BY <1>1, <1>3 DEF Successor
  <2>2. after # list[1] /\ On(after, list)
    BY <1>1, <2>1 DEF Distinct, On
  <2> QED BY <1>1, <1>2, <2>1, <2>2 DEF new
<1>4. CASE ~(1 < Len(list))
  <2>1. after = HeadNode /\ HeadNode \notin Tasks
    BY <1>4 DEF Successor, RunqueueAssumption
  <2> QED BY <1>1, <1>2, <2>1 DEF new
<1> QED BY <1>3, <1>4

\* safe_list_add and safe_list_add_first.
LEMMA LinkedOK ==
  ASSUME NEW list \in Seq(Tasks), Distinct(list), NEW t \in Tasks, ~On(t, list), NEW front \in BOOLEAN
  PROVE  LET new == IF front THEN <<t>> \o list ELSE Append(list, t)
         IN /\ new \in Seq(Tasks) /\ Distinct(new) /\ Len(new) = Len(list) + 1 /\ new # <<>>
            /\ \A x : On(x, new) <=> x = t \/ On(x, list)
<1>1. CASE front
  <2> DEFINE new == <<t>> \o list
  <2>1. new \in Seq(Tasks) /\ Len(list) \in Nat /\ Len(new) = Len(list) + 1 /\ new[1] = t
        /\ \A k \in 2..(Len(list) + 1) : new[k] = list[k - 1]
    OBVIOUS
  <2> HIDE DEF new
  <2>2. Distinct(new)
    <3> SUFFICES ASSUME NEW i \in 1..Len(new), NEW j \in 1..Len(new), new[i] = new[j] PROVE i = j
      BY DEF Distinct
    <3>1. CASE i = 1 \/ j = 1
      BY <2>1, <3>1 DEF On
    <3>2. CASE i # 1 /\ j # 1
      <4>1. i - 1 \in 1..Len(list) /\ j - 1 \in 1..Len(list) /\ list[i - 1] = list[j - 1]
        BY <2>1, <3>2
      <4> QED BY <2>1, <4>1 DEF Distinct
    <3> QED BY <3>1, <3>2
  <2>3. ASSUME NEW x PROVE On(x, new) <=> x = t \/ On(x, list)
    <3>1. ASSUME NEW k \in 1..Len(new), new[k] = x, x # t PROVE On(x, list)
      <4>1. k - 1 \in 1..Len(list) /\ list[k - 1] = x
        BY <2>1, <3>1
      <4> QED BY <4>1 DEF On
    <3>2. ASSUME NEW k \in 1..Len(list), list[k] = x PROVE On(x, new)
      <4>1. k + 1 \in 1..Len(new) /\ new[k + 1] = list[(k + 1) - 1] /\ (k + 1) - 1 = k
        BY <2>1
      <4> QED BY <3>2, <4>1 DEF On
    <3>3. On(t, new)
      BY <2>1 DEF On
    <3> QED BY <3>1, <3>2, <3>3 DEF On
  <2> QED BY <1>1, <2>1, <2>2, <2>3 DEF new
<1>2. CASE ~front
  <2> DEFINE new == Append(list, t)
  <2>1. new \in Seq(Tasks) /\ Len(new) = Len(list) + 1 /\ new # <<>>
    OBVIOUS
  <2>2. Distinct(new) /\ \A x : On(x, new) <=> x = t \/ On(x, list)
    BY AppendDistinct, OnIsIn
  <2> HIDE DEF new
  <2> QED BY <1>2, <2>1, <2>2 DEF new
<1> QED BY <1>1, <1>2

-----------------------------------------------------------------------------
(* The stack. *)

LEMMA StackPopped ==
  ASSUME NEW st, NEW ls, NEW pr, StackOK(st, ls, pr), st # <<>>
  PROVE  /\ StackOK(Front(st), ls, pr)
         /\ Len(st) \in 1..Len(st) /\ st[Len(st)] \in Frame /\ FrameOK(st[Len(st)], ls, pr)
         /\ \A i \in 1..Len(Front(st)) : i \in 1..(Len(st) - 1) /\ Front(st)[i] = st[i]
         /\ Resumes(st) /\ st[Len(st)].k \notin {"start", "complete"} => Resumes(Front(st))
<1>1. st \in Seq(Frame) /\ Len(st) \in Nat \ {0}
  BY DEF StackOK
<1>2. Front(st) \in Seq(Frame) /\ Len(Front(st)) = Len(st) - 1 /\ \A i \in 1..(Len(st) - 1) : Front(st)[i] = st[i]
  BY <1>1, FrontElements
<1>3. StackOK(Front(st), ls, pr)
  BY <1>1, <1>2 DEF StackOK
<1>4. Len(st) \in 1..Len(st) /\ st[Len(st)] \in Frame /\ FrameOK(st[Len(st)], ls, pr)
  BY <1>1 DEF StackOK
<1>5. Resumes(st) /\ st[Len(st)].k \notin {"start", "complete"} => Resumes(Front(st))
  BY <1>1, <1>2 DEF Resumes
<1> QED BY <1>1, <1>2, <1>3, <1>4, <1>5

LEMMA StackPushed ==
  ASSUME NEW st, NEW ls, NEW pr, StackOK(st, ls, pr), NEW f \in Frame, FrameOK(f, ls, pr),
         f.k = "killall" => \A i \in 1..Len(st) : st[i].k # "kill",
         f.k = "kill" => \A i \in 1..Len(st) : st[i].k = "kill" => st[i].t # f.t
  PROVE  /\ StackOK(Append(st, f), ls, pr)
         /\ Resumes(st) \/ f.k \in {"start", "complete"} => Resumes(Append(st, f))
<1> DEFINE new == Append(st, f)
<1>1. st \in Seq(Frame) /\ Len(st) \in Nat
  BY DEF StackOK
<1>2. new \in Seq(Frame) /\ Len(new) = Len(st) + 1 /\ new[Len(st) + 1] = f /\ \A i \in 1..Len(st) : new[i] = st[i]
  BY <1>1
<1> HIDE DEF new
<1>3. \A i \in 1..Len(new) : FrameOK(new[i], ls, pr)
  BY <1>1, <1>2 DEF StackOK
<1>4. \A i, j \in 1..Len(new) : i < j /\ new[i].k = "kill"
        => new[j].k # "killall" /\ ~(new[j].k = "kill" /\ new[j].t = new[i].t)
  BY <1>1, <1>2 DEF StackOK
<1>5. Resumes(st) \/ f.k \in {"start", "complete"} => Resumes(new)
  BY <1>1, <1>2 DEF Resumes
<1> QED BY <1>2, <1>3, <1>4, <1>5 DEF StackOK, new

\* Lists that only grow, watches that only end.
LEMMA StackKept ==
  ASSUME NEW st, NEW ls, NEW pr, StackOK(st, ls, pr), NEW ls2, NEW pr2,
         \A l \in ListNames : \A x : On(x, ls[l]) => On(x, ls2[l]),
         \A i \in 1..Len(st) : st[i].k = "kill" => (pr2[st[i].t] => pr[st[i].t])
  PROVE  StackOK(st, ls2, pr2)
<1>1. \A i \in 1..Len(st) : FrameOK(st[i], ls2, pr2)
  BY DEF StackOK, FrameOK, ListNames
<1> QED BY <1>1 DEF StackOK

\* Task t leaves list l.
LEMMA StackAdvanced ==
  ASSUME NEW st, NEW ls, NEW pr, StackOK(st, ls, pr),
         NEW l \in ListNames, NEW t \in Tasks, NEW after \in Tasks \cup {HeadNode}, NEW ls2,
         after \in Tasks => On(after, ls2[l]),
         \A x : On(x, ls[l]) /\ x # t => On(x, ls2[l]),
         \A m \in ListNames : m # l => \A x : On(x, ls[m]) => On(x, ls2[m]),
         l = "active" => \A i \in 1..Len(st) : st[i].k = "kill" => st[i].t # t
  PROVE  LET new == Advanced(st, l, t, after)
         IN /\ StackOK(new, ls2, pr)
            /\ Len(new) = Len(st) /\ \A i \in 1..Len(st) : new[i].k = st[i].k /\ (st[i].k = "kill" => new[i].t = st[i].t)
            /\ Resumes(st) => Resumes(new)
<1> DEFINE new == Advanced(st, l, t, after)
<1>1. st \in Seq(Frame) /\ Len(st) \in Nat /\ \A i \in 1..Len(st) : st[i] \in Frame
  BY DEF StackOK
<1>2. F(l, after) \in Frame /\ F(l, after).k = l /\ F(l, after).t = after
  BY DEF F, Frame
<1>3. \A i \in 1..Len(st) : (IF st[i].k = l /\ st[i].t = t THEN F(l, after) ELSE st[i]) \in Frame
  BY <1>1, <1>2
<1>4. new \in Seq(Frame) /\ Len(new) = Len(st)
      /\ \A i \in 1..Len(st) : new[i] = IF st[i].k = l /\ st[i].t = t THEN F(l, after) ELSE st[i]
  BY <1>1, <1>3 DEF Advanced
<1> HIDE DEF new
<1>5. l # "kill" /\ l \notin Callbacks
  BY DEF ListNames, Callbacks
<1>6. \A i \in 1..Len(st) : new[i].k = st[i].k /\ (st[i].k = "kill" => new[i].t = st[i].t)
  BY <1>2, <1>4, <1>5
<1>7. ASSUME NEW i \in 1..Len(st) PROVE FrameOK(new[i], ls2, pr)
  <2>1. FrameOK(st[i], ls, pr)
    BY DEF StackOK
  <2>2. CASE st[i].k = l /\ st[i].t = t
    BY <1>2, <1>4, <1>5, <2>2 DEF FrameOK, Callbacks
  <2>3. CASE ~(st[i].k = l /\ st[i].t = t)
    <3>1. new[i] = st[i]
      BY <1>4, <2>3
    <3>2. st[i].k \in ListNames /\ st[i].t \in Tasks => On(st[i].t, ls2[st[i].k])
      BY <2>1, <2>3 DEF FrameOK
    <3>3. st[i].k = "kill" => On(st[i].t, ls2["active"]) /\ ~pr[st[i].t]
      BY <2>1 DEF FrameOK, ListNames
    <3> QED BY <2>1, <3>1, <3>2, <3>3 DEF FrameOK
  <2> QED BY <2>2, <2>3
<1>8. \A i, j \in 1..Len(st) : i < j /\ new[i].k = "kill"
        => new[j].k # "killall" /\ ~(new[j].k = "kill" /\ new[j].t = new[i].t)
  BY <1>6 DEF StackOK
<1>9. Resumes(st) => Resumes(new)
  BY <1>4, <1>6 DEF Resumes
<1>10. StackOK(new, ls2, pr)
  BY <1>4, <1>7, <1>8 DEF StackOK
<1> QED BY <1>4, <1>6, <1>9, <1>10 DEF new

-----------------------------------------------------------------------------
(* The operations. *)

\* The accounts without the stack.
Books == TypeOK /\ Accounting /\ NothingLeftBehind /\ Watched

LEMMA BooksLists ==
  ASSUME Books
  PROVE  \A l \in ListNames : lists[l] \in Seq(Tasks) /\ Distinct(lists[l])
BY DEF Books, TypeOK, Accounting, Distinct

LEMMA CompleteInv ==
  ASSUME RunqueueAssumption, Books, NEW t \in Tasks, queued[t], NEW st, StackOK(st, lists, proc),
         \A i \in 1..Len(st) : st[i].k = "kill" => st[i].t # t,
         Complete(t, st), proc' \in [Tasks -> BOOLEAN], proc'[t] => t \in early',
         \A x \in Tasks : proc'[x] => proc[x],
         \A x \in Tasks : x # t /\ x \in early => x \in early',
         UNCHANGED <<stopped, empty, q_timer, quiet>>
  PROVE  IInv'
<1> DEFINE l == Where(t)
<1>1. l \in ListNames /\ (l = "active" <=> running[t])
  BY DEF Where, ListNames
<1>2. PICK p \in 1..Len(lists[l]) :
        /\ lists[l][p] = t
        /\ lists' = [lists EXCEPT ![l] = RemoveAt(lists[l], p)]
        /\ stack' = Append(Advanced(st, l, t, Successor(lists[l], p)), F("complete", t))
  BY DEF Complete
<1> HIDE DEF l
<1> DEFINE new == RemoveAt(lists[l], p)
           after == Successor(lists[l], p)
           adv == Advanced(st, l, t, after)
<1>3. lists[l] \in Seq(Tasks) /\ Distinct(lists[l])
  BY <1>1, BooksLists
<1>4. /\ new \in Seq(Tasks) /\ Distinct(new) /\ Len(new) = Len(lists[l]) - 1
      /\ \A x : On(x, new) <=> x # t /\ On(x, lists[l])
      /\ after \in Tasks \cup {HeadNode} /\ (after \in Tasks => On(after, new))
  BY <1>2, <1>3, Unlinked
<1>5. /\ lists' = [lists EXCEPT ![l] = new] /\ lists \in [ListNames -> Seq(Tasks)]
      /\ stack' = Append(adv, F("complete", t))
  BY <1>2 DEF Books, TypeOK
<1> HIDE DEF new, after
<1>6. lists' \in [ListNames -> Seq(Tasks)] /\ lists'[l] = new /\ \A m \in ListNames : m # l => lists'[m] = lists[m]
  BY <1>1, <1>4, <1>5
<1>7. /\ StackOK(adv, lists', proc) /\ Len(adv) = Len(st)
      /\ \A i \in 1..Len(st) : adv[i].k = st[i].k /\ (st[i].k = "kill" => adv[i].t = st[i].t)
  BY <1>1, <1>4, <1>6, StackAdvanced
<1> HIDE DEF adv
<1>8. StackOK(adv, lists', proc')
  <2>1. \A i \in 1..Len(adv) : adv[i].k = "kill" => adv[i].t \in Tasks
    BY <1>7 DEF StackOK, FrameOK
  <2>2. \A i \in 1..Len(adv) : adv[i].k = "kill" => (proc'[adv[i].t] => proc[adv[i].t])
    BY <2>1
  <2> QED BY <1>7, <2>2, StackKept
<1>9. StackOK(stack', lists', proc') /\ Resumes(stack')
  <2>1. /\ F("complete", t) \in Frame /\ F("complete", t).k = "complete"
        /\ FrameOK(F("complete", t), lists', proc')
    BY DEF F, Frame, Callbacks, FrameOK, ListNames
  <2> QED BY <1>5, <1>8, <2>1, StackPushed
<1>10. /\ running_tasks' = IF running[t] THEN running_tasks - 1 ELSE running_tasks
       /\ timer' = [timer EXCEPT ![t] = FALSE]
       /\ queued' = [queued EXCEPT ![t] = FALSE]
       /\ running' = [running EXCEPT ![t] = FALSE]
       /\ cancelled' = [cancelled EXCEPT ![t] = FALSE]
  BY DEF Complete, StillRunning, TimerCancelled
<1>11. TypeOK'
  BY <1>6, <1>10 DEF Books, TypeOK
<1>12. NothingLeftBehind' /\ Watched'
  BY <1>10 DEF Books, TypeOK, NothingLeftBehind, Watched
<1>13. On(t, lists[l])
  BY <1>2 DEF On
<1>14. ~empty
  <2>1. lists[l] # <<>>
    BY <1>2, <1>3
  <2> QED BY <1>1, <2>1 DEF Books, Accounting, ListNames
<1>15. Accounting'
  <2>1. \A m \in ListNames : Distinct(lists'[m])
    BY <1>4, <1>6, BooksLists
  <2>2. ASSUME NEW x \in Tasks PROVE On(x, lists'["active"]) <=> queued'[x] /\ running'[x]
    BY <1>1, <1>4, <1>6, <1>10 DEF Books, TypeOK, Accounting, ListNames
  <2>3. ASSUME NEW x \in Tasks PROVE On(x, lists'["inactive"]) <=> queued'[x] /\ ~running'[x]
    BY <1>1, <1>4, <1>6, <1>10 DEF Books, TypeOK, Accounting, ListNames
  <2>4. running_tasks' = Len(lists'["active"])
    BY <1>1, <1>4, <1>6, <1>10 DEF Books, TypeOK, Accounting, ListNames
  <2>5. ~empty' /\ (q_timer' = "empty" => empty')
    BY <1>14 DEF Books, Accounting
  <2> QED BY <2>1, <2>2, <2>3, <2>4, <2>5 DEF Accounting, Distinct
<1> QED BY <1>9, <1>11, <1>12, <1>15 DEF IInv, Wakeup

\* A kill frame refers to a task that runs.
LEMMA KillRuns ==
  ASSUME Books, NEW st, StackOK(st, lists, proc), NEW t \in Tasks, ~(queued[t] /\ running[t])
  PROVE  \A i \in 1..Len(st) : st[i].k = "kill" => st[i].t # t
BY DEF Books, Accounting, StackOK, FrameOK

\* Nothing but flags and the stack change.
LEMMA PushedInv ==
  ASSUME Books, NEW st, StackOK(st, lists, proc), NEW t \in Tasks, queued[t], NEW f \in Frame,
         stack' = Append(st, f), FrameOK(f, lists, proc'), f.k # "killall",
         f.k = "kill" => \A i \in 1..Len(st) : st[i].k = "kill" => st[i].t # f.t,
         CanStart /\ ~quiet /\ q_timer # "start" => Resumes(st),
         cancelled' \in {cancelled, [cancelled EXCEPT ![t] = TRUE]},
         timer' \in {timer, [timer EXCEPT ![t] = TRUE], [timer EXCEPT ![t] = FALSE]},
         proc' \in {proc, [proc EXCEPT ![t] = FALSE]},
         UNCHANGED <<lists, queued, running, running_tasks, qvars>>
  PROVE  IInv'
<1>1. TypeOK'
  BY DEF Books, TypeOK, qvars
<1>2. \A x \in Tasks : proc'[x] => proc[x]
  BY DEF Books, TypeOK
<1>3. NothingLeftBehind' /\ Watched'
  BY DEF Books, TypeOK, NothingLeftBehind, Watched, qvars
<1>4. Accounting'
  BY DEF Books, Accounting, qvars
<1>5. StackOK(st, lists, proc')
  <2>1. \A i \in 1..Len(st) : st[i].k = "kill" => (proc'[st[i].t] => proc[st[i].t])
    BY <1>2 DEF StackOK, FrameOK
  <2> QED BY <2>1, StackKept
<1>6. StackOK(stack', lists', proc') /\ (Resumes(st) => Resumes(stack'))
  BY <1>5, StackPushed
<1>7. CanStart' = CanStart
  BY DEF CanStart, qvars
<1>8. Wakeup'
  BY <1>6, <1>7 DEF Wakeup, qvars
<1> QED BY <1>1, <1>3, <1>4, <1>6, <1>8 DEF IInv

LEMMA CancelInv ==
  ASSUME RunqueueAssumption, Books, NEW st, StackOK(st, lists, proc),
         CanStart /\ ~quiet /\ q_timer # "start" => Resumes(st),
         NEW t \in Tasks, queued[t], NEW pending \in BOOLEAN, pending => timer[t], Cancel(t, st, pending)
  PROVE  IInv'
<1>1. CASE running[t]
  <2>1. /\ cancelled' = [cancelled EXCEPT ![t] = TRUE]
        /\ timer' = [timer EXCEPT ![t] = pending \/ t \in CancelTimeout]
        /\ stack' = Append(st, F("cancel", t))
        /\ UNCHANGED <<lists, queued, running, running_tasks, proc, qvars>>
    BY <1>1 DEF Cancel
  <2>2. timer' \in {timer, [timer EXCEPT ![t] = TRUE], [timer EXCEPT ![t] = FALSE]}
    <3>1. (pending \/ t \in CancelTimeout) \in {TRUE, FALSE}
      OBVIOUS
    <3> QED BY <2>1, <3>1
  <2>3. /\ F("cancel", t) \in Frame /\ F("cancel", t).k = "cancel" /\ FrameOK(F("cancel", t), lists, proc')
    BY DEF F, Frame, Callbacks, FrameOK, ListNames
  <2> QED BY <2>1, <2>2, <2>3, PushedInv
<1>2. CASE ~running[t]
  <2>1. Complete(t, st) /\ UNCHANGED <<proc, qvars>>
    BY <1>2 DEF Cancel
  <2>2. \A i \in 1..Len(st) : st[i].k = "kill" => st[i].t # t
    BY <1>2, KillRuns
  <2>3. proc' \in [Tasks -> BOOLEAN] /\ (proc'[t] => t \in early') /\ \A x \in Tasks : proc'[x] => proc[x]
    BY <1>2, <2>1 DEF Books, TypeOK, Watched, qvars
  <2> QED BY <2>1, <2>2, <2>3, CompleteInv DEF qvars
<1> QED BY <1>1, <1>2

LEMMA KillInv ==
  ASSUME RunqueueAssumption, Books, NEW st, StackOK(st, lists, proc),
         CanStart /\ ~quiet /\ q_timer # "start" => Resumes(st),
         NEW t \in Tasks, queued[t], \A i \in 1..Len(st) : st[i].k = "kill" => st[i].t # t,
         NEW pending \in BOOLEAN, pending => timer[t], Kill(t, st, pending)
  PROVE  IInv'
<1>1. CASE running[t]
  <2>1. /\ proc' = [proc EXCEPT ![t] = FALSE]
        /\ timer' = [timer EXCEPT ![t] = pending]
        /\ stack' = Append(st, F("kill", t))
        /\ UNCHANGED <<lists, queued, running, cancelled, running_tasks, qvars>>
    BY <1>1 DEF Kill
  <2>2. timer' \in {timer, [timer EXCEPT ![t] = TRUE], [timer EXCEPT ![t] = FALSE]}
    <3>1. pending \in {TRUE, FALSE}
      OBVIOUS
    <3> QED BY <2>1, <3>1
  <2>3. On(t, lists["active"]) /\ ~proc'[t]
    BY <1>1, <2>1 DEF Books, TypeOK, Accounting
  <2>4. /\ F("kill", t) \in Frame /\ F("kill", t).k = "kill" /\ F("kill", t).t = t
        /\ FrameOK(F("kill", t), lists, proc')
    BY <2>3 DEF F, Frame, Callbacks, FrameOK, ListNames
  <2> QED BY <2>1, <2>2, <2>4, PushedInv
<1>2. CASE ~running[t]
  <2>1. Complete(t, st) /\ UNCHANGED <<proc, qvars>>
    BY <1>2 DEF Kill
  <2>3. proc' \in [Tasks -> BOOLEAN] /\ (proc'[t] => t \in early') /\ \A x \in Tasks : proc'[x] => proc[x]
    BY <1>2, <2>1 DEF Books, TypeOK, Watched, qvars
  <2> QED BY <2>1, <2>3, CompleteInv DEF qvars
<1> QED BY <1>1, <1>2

LEMMA AddInv ==
  ASSUME IInv, NEW t \in Tasks, NEW isrunning \in BOOLEAN, NEW front \in BOOLEAN,
         Add(t, isrunning, front), proc' \in {proc, [proc EXCEPT ![t] = TRUE]},
         proc' # proc => isrunning, \A x \in Tasks : x \in early => x \in early' \/ (x = t /\ isrunning)
  PROVE  IInv'
<1> DEFINE l == IF isrunning THEN "active" ELSE "inactive"
<1>1. l \in ListNames /\ (l = "active" <=> isrunning)
  BY DEF ListNames
<1>2. Books /\ ~queued[t]
  BY DEF IInv, Books, Add, CanAdd
<1>3. lists' = [lists EXCEPT ![l] = IF front THEN <<t>> \o @ ELSE Append(@, t)]
  BY DEF Add
<1> HIDE DEF l
<1> DEFINE new == IF front THEN <<t>> \o lists[l] ELSE Append(lists[l], t)
<1>4. lists[l] \in Seq(Tasks) /\ Distinct(lists[l]) /\ ~On(t, lists[l]) /\ lists \in [ListNames -> Seq(Tasks)]
  BY <1>1, <1>2, BooksLists DEF Books, TypeOK, Accounting, ListNames
<1>5. /\ new \in Seq(Tasks) /\ Distinct(new) /\ Len(new) = Len(lists[l]) + 1
      /\ \A x : On(x, new) <=> x = t \/ On(x, lists[l])
  BY <1>4, LinkedOK
<1>6. lists' = [lists EXCEPT ![l] = new]
  BY <1>3
<1> HIDE DEF new
<1>7. lists' \in [ListNames -> Seq(Tasks)] /\ lists'[l] = new /\ \A m \in ListNames : m # l => lists'[m] = lists[m]
  BY <1>1, <1>4, <1>5, <1>6
<1>8. /\ running_tasks' = IF isrunning THEN running_tasks + 1 ELSE running_tasks
      /\ cancelled' = [cancelled EXCEPT ![t] = FALSE]
      /\ queued' = [queued EXCEPT ![t] = TRUE]
      /\ running' = [running EXCEPT ![t] = isrunning]
      /\ empty' = FALSE /\ q_timer' = "start" /\ quiet' = FALSE
      /\ UNCHANGED <<timer, stopped, stack>>
  BY DEF Add, StartNext
<1>9. TypeOK'
  <2>1. proc' \in [Tasks -> BOOLEAN]
    BY <1>2 DEF Books, TypeOK
  <2>2. /\ queued' \in [Tasks -> BOOLEAN] /\ running' \in [Tasks -> BOOLEAN]
        /\ cancelled' \in [Tasks -> BOOLEAN]
    BY <1>2, <1>8 DEF Books, TypeOK
  <2>3. running_tasks' \in Int
    BY <1>2, <1>8 DEF Books, TypeOK
  <2> QED BY <1>2, <1>7, <1>8, <2>1, <2>2, <2>3 DEF Books, TypeOK
<1>10. NothingLeftBehind' /\ Watched'
  BY <1>2, <1>8 DEF Books, TypeOK, NothingLeftBehind, Watched
<1>11. Accounting'
  <2>1. \A m \in ListNames : Distinct(lists'[m])
    BY <1>2, <1>5, <1>7, BooksLists
  <2>2. ASSUME NEW x \in Tasks PROVE On(x, lists'["active"]) <=> queued'[x] /\ running'[x]
    BY <1>1, <1>2, <1>5, <1>7, <1>8 DEF Books, TypeOK, Accounting, ListNames
  <2>3. ASSUME NEW x \in Tasks PROVE On(x, lists'["inactive"]) <=> queued'[x] /\ ~running'[x]
    BY <1>1, <1>2, <1>5, <1>7, <1>8 DEF Books, TypeOK, Accounting, ListNames
  <2>4. running_tasks' = Len(lists'["active"])
    BY <1>1, <1>2, <1>5, <1>7, <1>8 DEF Books, TypeOK, Accounting, ListNames
  <2> QED BY <1>8, <2>1, <2>2, <2>3, <2>4 DEF Accounting, Distinct
<1>12. \A i \in 1..Len(stack) : stack[i].k = "kill" => stack[i].t # t
  BY <1>2, KillRuns DEF IInv
<1>13. StackOK(stack, lists', proc')
  <2>1. \A m \in ListNames : \A x : On(x, lists[m]) => On(x, lists'[m])
    BY <1>5, <1>7
  <2>2. \A i \in 1..Len(stack) : stack[i].k = "kill" => (proc'[stack[i].t] => proc[stack[i].t])
    <3>1. \A i \in 1..Len(stack) : stack[i].k = "kill" => stack[i].t \in Tasks
      BY DEF IInv, StackOK, FrameOK
    <3>2. \A x \in Tasks : x # t => proc'[x] = proc[x]
      BY <1>2 DEF Books, TypeOK
    <3> QED BY <1>12, <3>1, <3>2
  <2> QED BY <2>1, <2>2, StackKept DEF IInv
<1> QED BY <1>8, <1>9, <1>10, <1>11, <1>13 DEF IInv, Wakeup

-----------------------------------------------------------------------------
(* The steps. *)

\* Frames other than callbacks that refer to a task, and those that do not.
LEMMA PlainFrame ==
  ASSUME RunqueueAssumption, NEW k \in {"active", "inactive", "start", "killall", "killed", "empty"}, NEW ls, NEW pr
  PROVE  F(k, NoTask) \in Frame /\ F(k, NoTask).k = k /\ FrameOK(F(k, NoTask), ls, pr)
BY DEF F, Frame, Callbacks, ListNames, FrameOK, RunqueueAssumption

\* Only the stack changes.
LEMMA StackStep ==
  ASSUME IInv, UNCHANGED <<lists, tvars, proc, running_tasks, qvars>>,
         StackOK(stack', lists, proc), Resumes(stack) => Resumes(stack')
  PROVE  IInv'
<1>1. CanStart' = CanStart
  BY DEF CanStart, qvars
<1> QED BY <1>1 DEF IInv, TypeOK, Accounting, NothingLeftBehind, Watched, Wakeup, tvars, qvars

LEMMA KillingOK ==
  ASSUME NEW t, t \notin Killing
  PROVE  \A i \in 1..Len(stack) : stack[i].k = "kill" => stack[i].t # t
BY DEF Killing

LEMMA ClientInv ==
  ASSUME RunqueueAssumption, IInv, Client
  PROVE  IInv'
<1>1. Books /\ Wakeup /\ StackOK(stack, lists, proc) /\ (CanStart /\ ~quiet /\ q_timer # "start" => Resumes(stack))
  BY DEF IInv, Books, Wakeup
<1>2. ASSUME NEW t \in Tasks, NEW isrunning \in BOOLEAN, NEW front \in BOOLEAN,
             runqueue_task_add(t, isrunning, front)
      PROVE  IInv'
  BY <1>2, AddInv DEF runqueue_task_add
<1>3. ASSUME NEW t \in Tasks, runqueue_task_complete(t) PROVE IInv'
  <2>1. queued[t] /\ ~proc[t] /\ Complete(t, stack) /\ UNCHANGED <<proc, qvars>> /\ t \notin Killing
    BY <1>3 DEF runqueue_task_complete
  <2>2. \A i \in 1..Len(stack) : stack[i].k = "kill" => stack[i].t # t
    BY <2>1, KillingOK
  <2>3. proc' \in [Tasks -> BOOLEAN] /\ ~proc'[t] /\ \A x \in Tasks : proc'[x] => proc[x]
    BY <1>1, <2>1 DEF Books, TypeOK
  <2> QED BY <1>1, <2>1, <2>2, <2>3, CompleteInv DEF qvars
<1>4. ASSUME NEW t \in Tasks, runqueue_task_cancel(t) PROVE IInv'
  <2>1. timer[t] \in BOOLEAN /\ queued[t] /\ Cancel(t, stack, timer[t])
    BY <1>1, <1>4 DEF Books, TypeOK, runqueue_task_cancel
  <2> QED BY <1>1, <2>1, CancelInv
<1>5. ASSUME NEW t \in Tasks, runqueue_task_kill(t) PROVE IInv'
  <2>1. timer[t] \in BOOLEAN /\ queued[t] /\ Kill(t, stack, timer[t])
    BY <1>1, <1>5 DEF Books, TypeOK, runqueue_task_kill
  <2>2. \A i \in 1..Len(stack) : stack[i].k = "kill" => stack[i].t # t
    BY <1>5, KillingOK DEF runqueue_task_kill
  <2> QED BY <1>1, <2>1, <2>2, KillInv
<1>6. ASSUME NEW t \in Tasks, runqueue_process_add(t) PROVE IInv'
  <2>1. proc' = [proc EXCEPT ![t] = TRUE] /\ t \notin Killing
    BY <1>6 DEF runqueue_process_add
  <2>2. CASE /\ queued[t] /\ early' = IF running[t] THEN early ELSE early \cup {t}
             /\ UNCHANGED <<lists, tvars, running_tasks, stopped, empty, q_timer, quiet, stack>>
    <3>1. \A i \in 1..Len(stack) : stack[i].k = "kill" => stack[i].t # t
      BY <2>1, KillingOK
    <3>2. \A i \in 1..Len(stack) : stack[i].k = "kill" => stack[i].t \in Tasks
      BY <1>1 DEF StackOK, FrameOK
    <3>3. proc' \in [Tasks -> BOOLEAN] /\ \A x \in Tasks : x # t => proc'[x] = proc[x]
      BY <1>1, <2>1 DEF Books, TypeOK
    <3>4. StackOK(stack, lists, proc')
      BY <1>1, <3>1, <3>2, <3>3, StackKept
    <3>5. t \in early' \/ running[t]
      BY <2>2
    <3>6. NothingLeftBehind' /\ Watched'
      BY <1>1, <2>2, <3>3, <3>5 DEF Books, NothingLeftBehind, Watched, tvars
    <3>7. CanStart' = CanStart
      BY <2>2 DEF CanStart
    <3> QED BY <1>1, <2>2, <3>3, <3>4, <3>6, <3>7 DEF IInv, Books, TypeOK, Accounting, Wakeup, tvars
  <2>3. CASE Add(t, TRUE, FALSE) /\ UNCHANGED early
    BY <2>1, <2>3, AddInv
  <2> QED BY <1>6, <2>2, <2>3 DEF runqueue_process_add
<1>7. CASE runqueue_cancel_active
  BY <1>1, <1>7, PlainFrame, StackPushed, StackStep DEF runqueue_cancel_active
<1>8. CASE runqueue_cancel_pending
  BY <1>1, <1>8, PlainFrame, StackPushed, StackStep DEF runqueue_cancel_pending
<1>9. CASE runqueue_cancel
  <2> DEFINE f == F("active", NoTask)
             g == F("inactive", NoTask)
             mid == Append(stack, f)
  <2>1. f \in Frame /\ g \in Frame /\ f.k = "active" /\ g.k = "inactive" /\ FrameOK(f, lists, proc) /\ FrameOK(g, lists, proc)
    BY PlainFrame
  <2> HIDE DEF f, g
  <2>2. stack' = Append(mid, g)
    <3>1. stack' = stack \o <<f, g>> /\ stack \in Seq(Frame)
      BY <1>1, <1>9 DEF runqueue_cancel, f, g, StackOK
    <3> QED BY <2>1, <3>1
  <2>3. StackOK(mid, lists, proc) /\ (Resumes(stack) => Resumes(mid))
    BY <1>1, <2>1, StackPushed
  <2> HIDE DEF mid
  <2>4. StackOK(stack', lists, proc) /\ (Resumes(mid) => Resumes(stack'))
    BY <2>1, <2>2, <2>3, StackPushed
  <2> QED BY <1>9, <2>3, <2>4, StackStep DEF runqueue_cancel
<1>10. CASE runqueue_kill
  <2>1. \A i \in 1..Len(stack) : stack[i].k # "kill"
    BY <1>10 DEF runqueue_kill, Killing
  <2> QED BY <1>1, <1>10, <2>1, PlainFrame, StackPushed, StackStep DEF runqueue_kill
<1>11. CASE runqueue_stop
  <2>1. ~CanStart'
    BY <1>11 DEF runqueue_stop, CanStart
  <2> QED BY <1>1, <1>11, <2>1 DEF runqueue_stop, IInv, Books, TypeOK, Accounting, NothingLeftBehind, Watched, Wakeup, tvars
<1>12. CASE runqueue_resume
  <2>1. /\ stopped' = FALSE /\ UNCHANGED <<lists, tvars, proc, running_tasks, empty, stack, early>>
        /\ q_timer' = IF empty THEN q_timer ELSE "start"
        /\ quiet' = IF empty THEN quiet ELSE FALSE
    BY <1>12 DEF runqueue_resume, StartNext
  <2>2. CanStart' /\ q_timer' # "start" => FALSE
    BY <1>1, <2>1 DEF CanStart, Books, Accounting
  <2>3. TypeOK' /\ Accounting' /\ NothingLeftBehind' /\ Watched'
    BY <1>1, <2>1 DEF Books, TypeOK, Accounting, NothingLeftBehind, Watched, tvars
  <2> QED BY <1>1, <2>1, <2>2, <2>3 DEF IInv, Wakeup
<1> QED
  BY <1>2, <1>3, <1>4, <1>5, <1>6, <1>7, <1>8, <1>9, <1>10, <1>11, <1>12 DEF Client

LEMMA UloopInv ==
  ASSUME RunqueueAssumption, IInv, Uloop
  PROVE  IInv'
<1>1. Books /\ StackOK(stack, lists, proc) /\ (CanStart /\ ~quiet /\ q_timer # "start" => Resumes(stack))
  BY DEF IInv, Books, Wakeup
<1>2. stack = <<>> /\ Len(stack) = 0
  BY DEF Uloop, StartTimer, EmptyTimer, TaskTimer, ProcessExit
<1>3. ASSUME NEW k \in {"start", "empty"}, stack' = <<F(k, NoTask)>>, q_timer = k, q_timer' = "off",
             UNCHANGED <<lists, tvars, proc, running_tasks, stopped, empty, quiet, early>>
      PROVE  IInv'
  <2>1. stack' = Append(stack, F(k, NoTask))
    BY <1>2, <1>3
  <2>2. /\ F(k, NoTask) \in Frame /\ F(k, NoTask).k = k /\ FrameOK(F(k, NoTask), lists, proc)
    BY PlainFrame
  <2>3. StackOK(stack', lists, proc) /\ (k = "start" => Resumes(stack'))
    BY <1>1, <2>1, <2>2, StackPushed
  <2>4. TypeOK' /\ Accounting' /\ NothingLeftBehind' /\ Watched'
    BY <1>1, <1>3 DEF Books, TypeOK, Accounting, NothingLeftBehind, Watched, tvars
  <2>5. CanStart' => k = "start"
    BY <1>1, <1>3 DEF CanStart, Books, Accounting
  <2> QED BY <1>3, <2>3, <2>4, <2>5 DEF IInv, Wakeup
<1>4. CASE StartTimer
  BY <1>3, <1>4 DEF StartTimer
<1>5. CASE EmptyTimer
  BY <1>3, <1>5 DEF EmptyTimer
<1>6. ASSUME NEW t \in Tasks, TaskTimer(t) PROVE IInv'
  <2>1. queued[t] /\ (Kill(t, stack, FALSE) \/ Cancel(t, stack, FALSE))
    BY <1>6 DEF TaskTimer
  <2>2. \A i \in 1..Len(stack) : stack[i].k = "kill" => stack[i].t # t
    BY <1>2
  <2> QED BY <1>1, <2>1, <2>2, KillInv, CancelInv
<1>7. ASSUME NEW t \in Tasks, ProcessExit(t) PROVE IInv'
  <2>1. /\ proc' = [proc EXCEPT ![t] = FALSE] /\ early' = early \ {t}
        /\ UNCHANGED <<stopped, empty, q_timer, quiet>>
    BY <1>7 DEF ProcessExit
  <2>3. proc' \in [Tasks -> BOOLEAN] /\ ~proc'[t] /\ \A x \in Tasks : proc'[x] => proc[x]
    BY <1>1, <2>1 DEF Books, TypeOK
  <2>4. \A i \in 1..Len(stack) : stack[i].k = "kill" => stack[i].t # t
    BY <1>2
  <2>5. CASE queued[t]
    BY <1>1, <1>7, <2>1, <2>3, <2>4, <2>5, CompleteInv DEF ProcessExit
  <2>6. CASE ~queued[t]
    <3>1. UNCHANGED <<lists, tvars, running_tasks, stack>>
      BY <1>7, <2>6 DEF ProcessExit
    <3>2. NothingLeftBehind' /\ Watched'
      BY <1>1, <2>1, <2>3, <3>1 DEF Books, NothingLeftBehind, Watched, tvars
    <3>3. StackOK(stack', lists', proc')
      BY <1>1, <1>2, <3>1 DEF StackOK
    <3>4. CanStart' = CanStart
      BY <2>1, <3>1 DEF CanStart
    <3> QED BY <1>1, <2>1, <2>3, <3>1, <3>2, <3>3, <3>4 DEF IInv, Books, TypeOK, Accounting, Wakeup, tvars
  <2> QED BY <2>5, <2>6
<1> QED BY <1>4, <1>5, <1>6, <1>7 DEF Uloop

LEMMA StartTaskInv ==
  ASSUME RunqueueAssumption, IInv, NEW t \in Tasks, StartTask(t)
  PROVE  IInv'
<1> DEFINE old == lists["inactive"]
           act == lists["active"]
           after == Successor(old, 1)
           adv == Advanced(stack, "inactive", t, after)
<1>1. Books /\ StackOK(stack, lists, proc)
  BY DEF IInv, Books
<1>2. /\ old \in Seq(Tasks) /\ Distinct(old) /\ act \in Seq(Tasks) /\ Distinct(act)
  BY <1>1, BooksLists DEF ListNames
<1>3. /\ old # <<>> /\ t = Head(old) /\ t = old[1] /\ On(t, old)
  BY <1>2 DEF StartTask, CanStart, On
<1>4. /\ Tail(old) \in Seq(Tasks) /\ Distinct(Tail(old)) /\ Len(Tail(old)) = Len(old) - 1
      /\ \A x : On(x, Tail(old)) <=> x # t /\ On(x, old)
      /\ after \in Tasks \cup {HeadNode} /\ (after \in Tasks => On(after, Tail(old)))
  BY <1>2, <1>3, TailUnlinked
<1>5. queued[t] /\ ~running[t] /\ ~On(t, act)
  BY <1>1, <1>3 DEF Books, Accounting
<1>6. /\ Append(act, t) \in Seq(Tasks) /\ Distinct(Append(act, t)) /\ Len(Append(act, t)) = Len(act) + 1
      /\ \A x : On(x, Append(act, t)) <=> x = t \/ On(x, act)
  BY <1>2, <1>5, LinkedOK
<1>7. /\ lists' = [active |-> Append(act, t), inactive |-> Tail(old)]
      /\ running' = [running EXCEPT ![t] = TRUE]
      /\ running_tasks' = running_tasks + 1
      /\ timer' = [timer EXCEPT ![t] = timer[t] \/ t \in RunTimeout]
      /\ stack' = Append(adv, F("run", t))
      /\ early' = early \ {t}
      /\ UNCHANGED <<queued, cancelled, proc, stopped, empty, q_timer, quiet>>
  BY DEF StartTask
<1> HIDE DEF old, act, after
<1>8. lists'["active"] = Append(act, t) /\ lists'["inactive"] = Tail(old)
  BY <1>7
<1>9. lists' \in [ListNames -> Seq(Tasks)]
  <2> DEFINE a == Append(act, t)
             b == Tail(old)
             U == Seq(Tasks)
  <2>1. a \in U /\ b \in U /\ lists' = [active |-> a, inactive |-> b]
    BY <1>4, <1>6, <1>7
  <2> HIDE DEF a, b, U, adv
  <2>2. lists' \in [ListNames -> U]
    BY <2>1 DEF ListNames
  <2> QED BY <2>2 DEF U
<1>10. /\ StackOK(adv, lists', proc) /\ (Resumes(stack) => Resumes(adv))
  <2>1. "inactive" \in ListNames /\ \A m \in ListNames : m # "inactive" => m = "active"
    BY DEF ListNames
  <2>2. /\ after \in Tasks => On(after, lists'["inactive"])
        /\ \A x : On(x, lists["inactive"]) /\ x # t => On(x, lists'["inactive"])
        /\ \A x : On(x, lists["active"]) => On(x, lists'["active"])
    BY <1>4, <1>6, <1>8 DEF old, act
  <2> QED BY <1>1, <1>4, <2>1, <2>2, StackAdvanced
<1>11. Resumes(stack)
  <2>1. Len(stack) \in 1..Len(stack) /\ stack[Len(stack)].k = "start"
    BY <1>1, StackPopped DEF StartTask, Executing, Top
  <2> QED BY <2>1 DEF Resumes
<1> HIDE DEF adv
<1>12. F("run", t) \in Frame /\ F("run", t).k = "run" /\ FrameOK(F("run", t), lists', proc)
  BY DEF F, Frame, Callbacks, FrameOK, ListNames
<1>13. StackOK(stack', lists', proc') /\ Resumes(stack')
  BY <1>7, <1>10, <1>11, <1>12, StackPushed
<1>14. TypeOK'
  <2>1. running' \in [Tasks -> BOOLEAN] /\ timer' \in [Tasks -> BOOLEAN] /\ running_tasks' \in Int
    BY <1>1, <1>7 DEF Books, TypeOK
  <2> QED BY <1>1, <1>7, <1>9, <2>1 DEF Books, TypeOK
<1>15. NothingLeftBehind' /\ Watched'
  BY <1>1, <1>5, <1>7 DEF Books, TypeOK, NothingLeftBehind, Watched
<1>16. Accounting'
  <2>1. \A m \in ListNames : Distinct(lists'[m])
    BY <1>4, <1>6, <1>8 DEF ListNames
  <2>2. ASSUME NEW x \in Tasks PROVE On(x, lists'["active"]) <=> queued'[x] /\ running'[x]
    BY <1>1, <1>5, <1>6, <1>7, <1>8 DEF Books, TypeOK, Accounting, act
  <2>3. ASSUME NEW x \in Tasks PROVE On(x, lists'["inactive"]) <=> queued'[x] /\ ~running'[x]
    BY <1>1, <1>4, <1>5, <1>7, <1>8 DEF Books, TypeOK, Accounting, old
  <2>4. running_tasks' = Len(lists'["active"])
    BY <1>1, <1>6, <1>7, <1>8 DEF Books, Accounting, act
  <2>5. ~empty
    BY <1>1, <1>3 DEF Books, Accounting, old
  <2>6. ~empty' /\ (q_timer' = "empty" => empty')
    BY <1>1, <1>7, <2>5 DEF Books, Accounting
  <2> QED BY <2>1, <2>2, <2>3, <2>4, <2>6 DEF Accounting, Distinct
<1> QED BY <1>13, <1>14, <1>15, <1>16 DEF IInv, Wakeup

LEMMA VisitNextInv ==
  ASSUME RunqueueAssumption, IInv, NEW l \in ListNames, VisitNext(l)
  PROVE  IInv'
<1>1. Books /\ StackOK(stack, lists, proc) /\ (CanStart /\ ~quiet /\ q_timer # "start" => Resumes(stack))
  BY DEF IInv, Books, Wakeup
<1>2. stack # <<>> /\ Top.k = l
  BY DEF VisitNext, Executing
<1>3. PICK p \in 1..Len(lists[l]) :
        Cancel(lists[l][p], Append(Popped, F(l, Successor(lists[l], p))), timer[lists[l][p]])
  BY DEF VisitNext
<1> DEFINE t == lists[l][p]
           after == Successor(lists[l], p)
           st == Append(Popped, F(l, after))
<1>4. lists[l] \in Seq(Tasks) /\ Distinct(lists[l])
  BY <1>1, BooksLists
<1>5. t \in Tasks /\ On(t, lists[l])
  BY <1>4 DEF On
<1>6. queued[t] /\ timer[t] \in BOOLEAN
  BY <1>1, <1>5 DEF Books, TypeOK, Accounting, ListNames
<1>7. after \in Tasks \cup {HeadNode} /\ (after \in Tasks => On(after, lists[l]))
  BY <1>4, Unlinked
<1>8. /\ StackOK(Popped, lists, proc) /\ (Resumes(stack) => Resumes(Popped))
  BY <1>1, <1>2, StackPopped DEF Popped, Top, ListNames
<1>9. F(l, after) \in Frame /\ F(l, after).k = l /\ FrameOK(F(l, after), lists, proc)
  BY <1>7 DEF F, Frame, FrameOK, ListNames
<1>10. StackOK(st, lists, proc) /\ (Resumes(stack) => Resumes(st))
  BY <1>8, <1>9, StackPushed DEF ListNames
<1> HIDE DEF t, st
<1>11. Cancel(t, st, timer[t])
  BY <1>3 DEF t, st
<1> QED BY <1>1, <1>5, <1>6, <1>10, <1>11, CancelInv

LEMMA LibraryInv ==
  ASSUME RunqueueAssumption, IInv, Library
  PROVE  IInv'
<1>1. Books /\ StackOK(stack, lists, proc) /\ (CanStart /\ ~quiet /\ q_timer # "start" => Resumes(stack))
  BY DEF IInv, Books, Wakeup
<1>2. stack # <<>>
  BY DEF Library, StartTask, VisitNext, VisitDone, StartDone, KillFirst, KillPending, KillDone,
         CallbackReturn, KillReturn, CompleteReturn, Executing
<1>3. /\ StackOK(Popped, lists, proc) /\ FrameOK(Top, lists, proc)
      /\ Len(stack) \in 1..Len(stack)
      /\ \A i \in 1..Len(Popped) : i \in 1..(Len(stack) - 1) /\ Popped[i] = stack[i]
      /\ Resumes(stack) /\ Top.k \notin {"start", "complete"} => Resumes(Popped)
  BY <1>1, <1>2, StackPopped DEF Popped, Top
<1>4. ASSUME NEW t \in Tasks, StartTask(t) PROVE IInv'
  BY <1>4, StartTaskInv
<1>5. ASSUME NEW l \in ListNames, VisitNext(l) PROVE IInv'
  BY <1>5, VisitNextInv
<1>6. ASSUME NEW l \in ListNames, VisitDone(l) PROVE IInv'
  BY <1>3, <1>6, StackStep DEF VisitDone, Executing, ListNames
<1>7. CASE StartDone
  <2>1. /\ stack' = Popped /\ ~CanStart /\ UNCHANGED <<lists, tvars, proc, running_tasks, stopped, quiet, early>>
        /\ \/ /\ lists["active"] = <<>> /\ lists["inactive"] = <<>>
              /\ empty' = TRUE /\ q_timer' = "empty"
           \/ UNCHANGED <<empty, q_timer>>
    BY <1>7 DEF StartDone
  <2>2. ~CanStart'
    BY <2>1 DEF CanStart
  <2>3. TypeOK'
    <3>1. empty' \in BOOLEAN /\ q_timer' \in {"off", "start", "empty"}
      BY <1>1, <2>1 DEF Books, TypeOK
    <3> QED BY <1>1, <2>1, <3>1 DEF Books, TypeOK, tvars
  <2>4. Accounting'
    BY <1>1, <2>1 DEF Books, Accounting, tvars
  <2>5. NothingLeftBehind' /\ Watched'
    BY <1>1, <2>1 DEF Books, NothingLeftBehind, Watched, tvars
  <2> QED BY <1>3, <2>1, <2>2, <2>3, <2>4, <2>5 DEF IInv, Wakeup
<1>8. CASE KillFirst
  <2> DEFINE t == Head(lists["active"])
  <2>1. Top.k = "killall" /\ lists["active"] # <<>> /\ Kill(t, stack, timer[t])
    BY <1>8 DEF KillFirst, Executing
  <2>2. lists["active"] \in Seq(Tasks)
    BY <1>1, BooksLists DEF ListNames
  <2>3. t \in Tasks /\ On(t, lists["active"])
    BY <2>1, <2>2 DEF On
  <2>4. queued[t] /\ timer[t] \in BOOLEAN
    BY <1>1, <2>3 DEF Books, TypeOK, Accounting
  <2>5. \A i \in 1..Len(stack) : stack[i].k # "kill"
    BY <1>1, <1>3, <2>1 DEF StackOK, Top
  <2> HIDE DEF t
  <2> QED BY <1>1, <2>1, <2>3, <2>4, <2>5, KillInv
<1>9. CASE KillPending
  <2> DEFINE f == F("killed", NoTask)
             g == F("inactive", NoTask)
             mid == Append(Popped, f)
  <2>1. f \in Frame /\ g \in Frame /\ f.k = "killed" /\ g.k = "inactive" /\ FrameOK(f, lists, proc) /\ FrameOK(g, lists, proc)
    BY PlainFrame
  <2> HIDE DEF f, g
  <2>2. stack' = Append(mid, g) /\ Top.k = "killall"
    <3>1. stack' = Popped \o <<f, g>> /\ Popped \in Seq(Frame) /\ Top.k = "killall"
      BY <1>3, <1>9 DEF KillPending, Executing, f, g, StackOK
    <3> HIDE DEF Popped
    <3> QED BY <2>1, <3>1
  <2>3. StackOK(mid, lists, proc) /\ (Resumes(Popped) => Resumes(mid))
    BY <1>3, <2>1, StackPushed
  <2> HIDE DEF mid
  <2>4. StackOK(stack', lists, proc) /\ (Resumes(mid) => Resumes(stack'))
    BY <2>1, <2>2, <2>3, StackPushed
  <2> QED BY <1>3, <1>9, <2>2, <2>3, <2>4, StackStep DEF KillPending
<1>10. CASE KillDone
  <2>1. /\ stack' = Popped /\ q_timer' = "off" /\ quiet' = TRUE
        /\ UNCHANGED <<lists, tvars, proc, running_tasks, stopped, empty, early>>
    BY <1>10 DEF KillDone
  <2>2. TypeOK' /\ Accounting' /\ NothingLeftBehind' /\ Watched'
    BY <1>1, <2>1 DEF Books, TypeOK, Accounting, NothingLeftBehind, Watched, tvars
  <2> QED BY <1>3, <2>1, <2>2 DEF IInv, Wakeup
<1>11. CASE CallbackReturn
  BY <1>3, <1>11, StackStep DEF CallbackReturn
<1>12. CASE KillReturn
  <2> DEFINE t == Top.t
  <2>1. Top.k = "kill" /\ t \in Tasks /\ On(t, lists["active"]) /\ ~proc[t] /\ UNCHANGED <<proc, qvars>>
    BY <1>3, <1>12 DEF KillReturn, Executing, FrameOK
  <2>2. queued[t] /\ Complete(t, Popped)
    BY <1>1, <1>12, <2>1 DEF KillReturn, Books, Accounting
  <2>3. \A i \in 1..Len(Popped) : Popped[i].k = "kill" => Popped[i].t # t
    <3>1. ASSUME NEW i \in 1..Len(Popped), Popped[i].k = "kill" PROVE Popped[i].t # t
      <4>1. i \in 1..Len(stack) /\ i < Len(stack) /\ Popped[i] = stack[i]
        BY <1>3
      <4> QED BY <1>1, <1>3, <2>1, <3>1, <4>1 DEF StackOK, Top
    <3> QED BY <3>1
  <2>4. proc' \in [Tasks -> BOOLEAN] /\ ~proc'[t] /\ \A x \in Tasks : proc'[x] => proc[x]
    BY <1>1, <2>1 DEF Books, TypeOK
  <2> HIDE DEF t
  <2> QED BY <1>1, <1>3, <2>1, <2>2, <2>3, <2>4, CompleteInv DEF qvars
<1>13. CASE CompleteReturn
  <2>1. /\ stack' = Popped /\ UNCHANGED <<lists, tvars, proc, running_tasks, stopped, empty, early>>
        /\ q_timer' = IF empty THEN q_timer ELSE "start"
        /\ quiet' = IF empty THEN quiet ELSE FALSE
    BY <1>13 DEF CompleteReturn, StartNext
  <2>2. CanStart' /\ q_timer' # "start" => FALSE
    BY <1>1, <2>1 DEF CanStart, Books, Accounting
  <2>3. TypeOK' /\ Accounting' /\ NothingLeftBehind' /\ Watched'
    BY <1>1, <2>1 DEF Books, TypeOK, Accounting, NothingLeftBehind, Watched, tvars
  <2> QED BY <1>3, <2>1, <2>2, <2>3 DEF IInv, Wakeup
<1> QED
  BY <1>4, <1>5, <1>6, <1>7, <1>8, <1>9, <1>10, <1>11, <1>12, <1>13 DEF Library

-----------------------------------------------------------------------------
(* The theorems. *)

LEMMA InitInv ==
  ASSUME Init
  PROVE  IInv
<1>1. lists \in [ListNames -> Seq(Tasks)] /\ lists["active"] = <<>> /\ lists["inactive"] = <<>>
  <2>1. lists = [l \in ListNames |-> <<>>]
    BY DEF Init, ListNames
  <2> QED BY <2>1 DEF ListNames
<1>2. TypeOK
  <2>1. /\ queued \in [Tasks -> BOOLEAN] /\ running \in [Tasks -> BOOLEAN]
        /\ cancelled \in [Tasks -> BOOLEAN] /\ timer \in [Tasks -> BOOLEAN]
        /\ proc \in [Tasks -> BOOLEAN]
    BY Zenon DEF Init
  <2>2. /\ running_tasks = 0 /\ q_timer = "off"
        /\ stopped \in BOOLEAN /\ empty \in BOOLEAN /\ quiet \in BOOLEAN
    BY Zenon DEF Init
  <2> QED BY <1>1, <2>1, <2>2 DEF TypeOK
<1>3. Accounting
  <2>1. \A l \in ListNames : lists[l] = <<>>
    BY <1>1 DEF ListNames
  <2> QED BY <1>1, <2>1 DEF Init, Accounting, On
<1>4. NothingLeftBehind /\ Watched
  BY DEF Init, NothingLeftBehind, Watched
<1>5. StackOK(stack, lists, proc)
  <2>1. stack = <<>> /\ stack \in Seq(Frame) /\ Len(stack) = 0
    BY DEF Init
  <2> QED BY <2>1 DEF StackOK
<1>6. Wakeup
  BY <1>1 DEF Wakeup, CanStart
<1> QED BY <1>2, <1>3, <1>4, <1>5, <1>6 DEF IInv

LEMMA Inductive == Spec => []IInv
<1>1. Init => IInv
  BY InitInv
<1>2. IInv /\ [Next]_vars => IInv'
  <2> SUFFICES ASSUME IInv, [Next]_vars PROVE IInv'
    OBVIOUS
  <2>1. CASE UNCHANGED vars
    <3>1. CanStart' = CanStart
      BY <2>1 DEF vars, CanStart
    <3> QED BY <2>1, <3>1 DEF vars, IInv, TypeOK, Accounting, NothingLeftBehind, Watched, Wakeup
  <2> QED BY <2>1, ClientInv, UloopInv, LibraryInv, RunqueueAssumption DEF Next
<1> QED BY <1>1, <1>2, PTL DEF Spec

\* Whatever the callbacks do inside the operations of runqueue.c, and however
\* deeply they nest: flags, lists and running_tasks agree, and empty is only
\* for a queue without tasks.
THEOREM AccountsRight == Spec => []Accounting
<1>1. IInv => Accounting
  BY DEF IInv
<1> QED BY <1>1, Inductive, PTL

\* A task that is off the queue has no timer, no watch and no flag left
\* (runqueue_task_complete, runqueue_process_kill_cb).
THEOREM NothingStaysBehind == Spec => []NothingLeftBehind
<1>1. IInv => NothingLeftBehind
  BY DEF IInv
<1> QED BY <1>1, Inductive, PTL

\* The walks and the kills that callbacks interrupt find what they go on with
\* (safe_list_del, runqueue_task_kill, runqueue_kill).
THEOREM OperationsResume == Spec => []Resumable
<1>1. IInv => Resumable
  BY DEF IInv, StackOK, FrameOK, Resumable
<1> QED BY <1>1, Inductive, PTL

\* When uloop has control and a task can start, the timer that starts it is
\* set, unless runqueue_kill has cancelled it (runqueue_start_next).
THEOREM NoWakeupLost == Spec => []NoLostWakeup
<1>1. IInv => NoLostWakeup
  <2>1. stack = <<>> => ~Resumes(stack)
    BY DEF Resumes
  <2> QED BY <2>1 DEF IInv, Wakeup, NoLostWakeup
<1> QED BY <1>1, Inductive, PTL
=============================================================================
