------------------------ MODULE HeapAllocator_proofs ------------------------
(***************************************************************************)
(* Proofs about HeapAllocator, for a heap of any size and any requests, up *)
(* to the first harm to its lists.                                         *)
(***************************************************************************)
EXTENDS HeapAllocator, NaturalFacts, FiniteSetTheorems, TLAPS

----------------------------------------------------------------------------
(* Following links.                                                        *)

\* g[n] are the addresses that are at most n links from the head of a list.
Follows(m, head, N, g) ==
  g = [n \in 0 .. N |-> IF n = 0 THEN {head}
                        ELSE g[n - 1] \cup {m[p + 1] : p \in g[n - 1] \ {Null}}]

\* There are such sets for every number of links.
LEMMA FollowsExists ==
  ASSUME NEW m, NEW head, NEW N \in Nat
  PROVE  \E g : Follows(m, head, N, g)
<1> DEFINE T == {n \in Nat : \E g : Follows(m, head, n, g)}
<1>1. 0 \in T
  <2> DEFINE g == [n \in 0 .. 0 |-> {head}]
  <2>1. Follows(m, head, 0, g)
    BY DEF Follows
  <2> QED
    BY <2>1
<1>2. ASSUME NEW n \in Nat, n \in T
      PROVE  n + 1 \in T
  <2>1. PICK g : Follows(m, head, n, g)
    BY <1>2
  <2> DEFINE more == g[n] \cup {m[p + 1] : p \in g[n] \ {Null}}
             h == [k \in 0 .. n + 1 |-> IF k = n + 1 THEN more ELSE g[k]]
             rhs(f, k) == IF k = 0 THEN {head}
                          ELSE f[k - 1] \cup {m[p + 1] : p \in f[k - 1] \ {Null}}
  <2>2. \A k \in 0 .. n : g[k] = rhs(g, k)
    BY <2>1 DEF Follows
  <2>3. \A k \in 0 .. n : h[k] = g[k]
    OBVIOUS
  <2>4. h[n + 1] = more
    OBVIOUS
  <2>5. ASSUME NEW k \in 0 .. n + 1
        PROVE  h[k] = rhs(h, k)
    <3>1. CASE k = 0
      <4>1. 0 \in 0 .. n
        OBVIOUS
      <4>2. h[0] = g[0] /\ g[0] = {head}
        BY <2>2, <2>3, <4>1
      <4> HIDE DEF h
      <4> QED
        BY <3>1, <4>2
    <3>2. CASE k \in 1 .. n
      <4>1. k - 1 \in 0 .. n /\ k \in 0 .. n /\ k # 0
        BY <3>2
      <4>2. h[k] = g[k] /\ h[k - 1] = g[k - 1]
        BY <2>3, <4>1
      <4> HIDE DEF h
      <4> QED
        BY <2>2, <4>1, <4>2
    <3>3. CASE k = n + 1
      <4>1. k - 1 = n /\ n \in 0 .. n /\ k # 0
        BY <3>3
      <4>2. h[k - 1] = g[n]
        BY <2>3, <4>1
      <4> HIDE DEF h
      <4> QED
        BY <2>4, <3>3, <4>1, <4>2
    <3> QED
      BY <3>1, <3>2, <3>3
  <2>6. h = [k \in 0 .. n + 1 |-> rhs(h, k)]
    <3>1. h = [k \in 0 .. n + 1 |-> h[k]]
      OBVIOUS
    <3> HIDE DEF h
    <3> QED
      BY <2>5, <3>1
  <2>7. Follows(m, head, n + 1, h)
    BY <2>6 DEF Follows
  <2> QED
    BY <2>7
<1> HIDE DEF T
<1>3. Nat \subseteq T
  BY <1>1, <1>2, SetInduction
<1> QED
  BY <1>3 DEF T

\* A list as ListFrom finds it.
LEMMA ListFollows ==
  ASSUME HeapWords \div Header \in Nat, NEW head
  PROVE  \E g : /\ Follows(mem, head, HeapWords \div Header, g)
                /\ ListFrom(head) = g[HeapWords \div Header] \ {Null}
<1> DEFINE N == HeapWords \div Header
<1>1. \E g : Follows(mem, head, N, g)
  BY FollowsExists
<1> DEFINE reach == CHOOSE g : Follows(mem, head, N, g)
<1>2. Follows(mem, head, N, reach)
  BY <1>1, Zenon
<1>3. ListFrom(head) = reach[N] \ {Null}
  BY Zenon DEF ListFrom, Follows, NextAt
<1> QED
  BY <1>2, <1>3

\* The addresses S are a list: each links to the one with the next smaller key, and
\* the last one to none.
Chain(m, S, key, head) ==
  /\ head \in S /\ Null \notin S
  /\ \A s \in S : key[s] \in Nat /\ key[s] <= key[head]
  /\ \A s, t \in S : key[s] = key[t] => s = t
  /\ \A s \in S : \/ /\ m[s + 1] = Null
                     /\ \A t \in S : key[s] <= key[t]
                  \/ /\ m[s + 1] \in S /\ key[m[s + 1]] < key[s]
                     /\ \A t \in S : key[t] < key[s] => key[t] <= key[m[s + 1]]

\* One more element is found with each link, until all are.
LEMMA OneMoreFound ==
  ASSUME NEW m, NEW S, NEW key, NEW head, Chain(m, S, key, head),
         NEW A, head \in A, NEW s \in S, s \notin A
  PROVE  \E t \in S \cap A : m[t + 1] \in S \ A
<1> DEFINE U == {t \in S \cap A : key[t] > key[s]}
<1>1. head \in U
  <2>1. key[s] <= key[head] /\ key[s] # key[head] /\ key[s] \in Nat /\ key[head] \in Nat
    BY DEF Chain
  <2> QED
    BY <2>1 DEF Chain
<1>2. \E t \in U : \A u \in U : key[t] <= key[u]
  <2> DEFINE K == {key[u] : u \in U}
  <2>1. K \in SUBSET Nat /\ K # {}
    BY <1>1 DEF Chain
  <2> HIDE DEF K
  <2>2. PICK k \in K : \A j \in K : k <= j
    BY <2>1, LeastNumber
  <2> QED
    BY <2>2 DEF K
<1>3. PICK t \in U : \A u \in U : key[t] <= key[u]
  BY <1>2
<1> DEFINE x == m[t + 1]
<1>4. t \in S /\ t \in A /\ key[t] > key[s] /\ key[t] \in Nat /\ key[s] \in Nat
  BY <1>3 DEF Chain
<1>5. x \in S /\ key[x] < key[t] /\ key[s] <= key[x] /\ key[x] \in Nat
  BY <1>4 DEF Chain
<1>6. x \notin A
  <2>1. SUFFICES ASSUME x \in A PROVE FALSE
    OBVIOUS
  <2>2. key[x] # key[s]
    BY <1>5, <2>1 DEF Chain
  <2>3. x \in U
    BY <1>4, <1>5, <2>1, <2>2
  <2> QED
    BY <1>3, <1>4, <1>5, <2>3
<1> QED
  BY <1>4, <1>5, <1>6

\* Following the links of a list for as many times as it has elements finds them
\* all, and nothing else.
LEMMA ChainFound ==
  ASSUME NEW m, NEW S, IsFiniteSet(S), NEW key, NEW head, Chain(m, S, key, head),
         NEW N \in Nat, Cardinality(S) <= N, NEW g, Follows(m, head, N, g)
  PROVE  g[N] \ {Null} = S
<1>1. g[0] = {head} /\ \A n \in 1 .. N : g[n] = g[n - 1] \cup {m[p + 1] : p \in g[n - 1] \ {Null}}
  BY DEF Follows
<1> DEFINE T == {n \in Nat : n <= N => /\ head \in g[n] /\ g[n] \subseteq S \cup {Null}
                                      /\ \/ S \subseteq g[n]
                                         \/ Cardinality(S \cap g[n]) >= n + 1}
<1>2. 0 \in T
  <2>1. S \cap g[0] = {head} /\ head \in S
    BY <1>1 DEF Chain
  <2>2. Cardinality(S \cap g[0]) = 1
    BY <2>1, FS_Singleton
  <2>3. head \in g[0] /\ g[0] \subseteq S \cup {Null} /\ Cardinality(S \cap g[0]) >= 0 + 1
    BY <1>1, <2>1, <2>2
  <2> QED
    BY <2>3
<1>3. ASSUME NEW n \in Nat, n \in T
      PROVE  n + 1 \in T
  <2>1. SUFFICES ASSUME n + 1 <= N
                 PROVE  /\ head \in g[n + 1] /\ g[n + 1] \subseteq S \cup {Null}
                        /\ \/ S \subseteq g[n + 1]
                           \/ Cardinality(S \cap g[n + 1]) >= (n + 1) + 1
    OBVIOUS
  <2>2. /\ head \in g[n] /\ g[n] \subseteq S \cup {Null}
        /\ S \subseteq g[n] \/ Cardinality(S \cap g[n]) >= n + 1
    BY <1>3, <2>1
  <2>3. g[n + 1] = g[n] \cup {m[p + 1] : p \in g[n] \ {Null}}
    <3>1. n + 1 \in 1 .. N /\ (n + 1) - 1 = n
      BY <2>1
    <3> QED
      BY <1>1, <3>1
  <2>4. g[n + 1] \subseteq S \cup {Null}
    <3>1. \A p \in S : m[p + 1] \in S \cup {Null}
      BY DEF Chain
    <3> QED
      BY <2>2, <2>3, <3>1
  <2>5. CASE S \subseteq g[n]
    BY <2>2, <2>3, <2>4, <2>5
  <2>6. CASE ~(S \subseteq g[n])
    <3>1. PICK t \in S \cap g[n] : m[t + 1] \in S \ g[n]
      BY <2>2, <2>6, OneMoreFound
    <3> DEFINE x == m[t + 1]
               A == S \cap g[n]
    <3>2. x \in g[n + 1] /\ x \in S /\ x \notin A
      <4>1. t # Null
        BY <3>1 DEF Chain
      <4> QED
        BY <2>3, <3>1, <4>1
    <3>3. A \cup {x} \subseteq S \cap g[n + 1] /\ A \subseteq S /\ S \cap g[n + 1] \subseteq S
      BY <2>3, <3>2
    <3>4. Cardinality(A) >= n + 1
      BY <2>2, <2>6
    <3> HIDE DEF A, x
    <3>5. IsFiniteSet(A) /\ IsFiniteSet(S \cap g[n + 1])
      BY <3>3, FS_Subset
    <3>6. Cardinality(A \cup {x}) = Cardinality(A) + 1 /\ Cardinality(A) \in Nat
      BY <3>2, <3>5, FS_AddElement, FS_CardinalityType
    <3>7. Cardinality(A \cup {x}) <= Cardinality(S \cap g[n + 1])
      BY <3>3, <3>5, FS_Subset
    <3>8. Cardinality(S \cap g[n + 1]) \in Nat
      BY <3>5, FS_CardinalityType
    <3>9. Cardinality(S \cap g[n + 1]) >= (n + 1) + 1
      BY <3>4, <3>6, <3>7, <3>8
    <3> QED
      BY <2>2, <2>3, <2>4, <3>9
  <2> QED
    BY <2>5, <2>6
<1> HIDE DEF T
<1>4. N \in T
  <2>1. Nat \subseteq T
    BY <1>2, <1>3, SetInduction
  <2> QED
    BY <2>1
<1>5. /\ g[N] \subseteq S \cup {Null}
      /\ S \subseteq g[N] \/ Cardinality(S \cap g[N]) >= N + 1
  BY <1>4 DEF T
<1>6. S \subseteq g[N]
  <2>1. S \cap g[N] \subseteq S
    OBVIOUS
  <2>2. Cardinality(S \cap g[N]) <= Cardinality(S) /\ Cardinality(S) \in Nat
    BY <2>1, FS_Subset, FS_CardinalityType
  <2>3. Cardinality(S \cap g[N]) \in Nat
    BY <2>1, FS_Subset, FS_CardinalityType
  <2> QED
    BY <1>5, <2>2, <2>3
<1>7. Null \notin S
  BY DEF Chain
<1> QED
  BY <1>5, <1>6, <1>7

\* Headers of two words that do not overlap: there are no more than fit the heap.
LEMMA HeadersFit ==
  ASSUME NEW S \in SUBSET (0 .. HeapWords - Header),
         \A s, t \in S : s < t => s + Header <= t
  PROVE  /\ IsFiniteSet(S) /\ HeapWords \div Header \in Nat
         /\ Cardinality(S) <= HeapWords \div Header
<1> DEFINE N == HeapWords \div Header
           f == [s \in S |-> s \div Header]
<1>1. HeapWords \in Nat /\ HeapWords >= 6 /\ Header = 2
  BY HeapAssumption DEF Header
<1>2. N \in Nat /\ N > 0
  BY <1>1
<1>3. ASSUME NEW s \in S
      PROVE  s \div 2 \in 0 .. N - 1
  BY <1>1
<1>4. ASSUME NEW s \in S, NEW t \in S, s \div 2 = t \div 2
      PROVE  s = t
  <2>1. s \in Int /\ t \in Int
    BY <1>1
  <2>2. ~(s + 2 <= t) /\ ~(t + 2 <= s)
    BY <1>4, <2>1
  <2> QED
    BY <1>1, <2>1, <2>2
<1> HIDE DEF N
<1>5. f \in Injection(S, 0 .. N - 1)
  BY <1>1, <1>3, <1>4 DEF Injection, IsInjective
<1>6. IsFiniteSet(0 .. N - 1) /\ Cardinality(0 .. N - 1) = N
  <2>1. 0 \in Int /\ N - 1 \in Int
    BY <1>2
  <2> QED
    BY <1>2, <2>1, FS_Interval
<1> HIDE DEF f
<1>7. IsFiniteSet(S) /\ Cardinality(S) <= N
  BY <1>5, <1>6, FS_Injection
<1> QED
  BY <1>2, <1>7 DEF N

----------------------------------------------------------------------------
(* What a change to the links makes of a list.                             *)

\* The numbers of the addresses and of their places in a list.
LEMMA ChainTypes ==
  ASSUME NEW m, NEW S, NEW key, NEW head, Chain(m, S, key, head)
  PROVE  /\ head \in S
         /\ \A s \in S : key[s] \in Nat /\ s # Null /\ key[s] <= key[head]
         /\ \A s \in S : m[s + 1] # Null => m[s + 1] \in S /\ key[m[s + 1]] < key[s]
BY DEF Chain

\* Only one entry links to another.
LEMMA ChainOneBefore ==
  ASSUME NEW m, NEW S, NEW key, NEW head, Chain(m, S, key, head),
         NEW s \in S, NEW t \in S, m[s + 1] = m[t + 1]
  PROVE  s = t
<1>1. key[s] \in Nat /\ key[t] \in Nat
  BY DEF Chain
<1>2. CASE m[s + 1] = Null
  <2>1. m[s + 1] \notin S /\ m[t + 1] \notin S
    BY <1>2 DEF Chain
  <2>2. key[s] <= key[t] /\ key[t] <= key[s]
    BY <2>1 DEF Chain
  <2> QED
    BY <1>1, <2>2 DEF Chain
<1>3. CASE m[s + 1] # Null
  <2> DEFINE x == m[s + 1]
  <2>1. /\ x \in S /\ key[x] < key[s] /\ key[x] < key[t] /\ key[x] \in Nat
        /\ key[t] < key[s] => key[t] <= key[x]
        /\ key[s] < key[t] => key[s] <= key[x]
    BY <1>3 DEF Chain
  <2>2. key[s] = key[t]
    BY <1>1, <2>1
  <2> QED
    BY <2>2 DEF Chain
<1> QED
  BY <1>2, <1>3

\* A list whose links are kept.
LEMMA ChainKept ==
  ASSUME NEW m, NEW S, NEW key, NEW head, Chain(m, S, key, head),
         NEW m2, \A s \in S : m2[s + 1] = m[s + 1]
  PROVE  Chain(m2, S, key, head)
BY DEF Chain

\* A new entry before the first.
LEMMA ChainPush ==
  ASSUME NEW m, NEW S, NEW key, NEW head, Chain(m, S, key, head),
         NEW x, x \notin S, x # Null,
         NEW m2, m2[x + 1] = head, \A s \in S : m2[s + 1] = m[s + 1],
         NEW key2, key2[x] = key[head] + 1, \A s \in S : key2[s] = key[s]
  PROVE  Chain(m2, S \cup {x}, key2, x)
<1> DEFINE S2 == S \cup {x}
<1>1. key[head] \in Nat /\ head \in S
  BY DEF Chain
<1>2. \A s \in S : key2[s] \in Nat /\ key2[s] <= key[head] /\ key2[s] < key2[x]
  BY <1>1 DEF Chain
<1>3. x \in S2 /\ Null \notin S2 /\ \A s \in S2 : key2[s] \in Nat /\ key2[s] <= key2[x]
  BY <1>1, <1>2 DEF Chain
<1>4. ASSUME NEW s \in S2, NEW t \in S2, key2[s] = key2[t]
      PROVE  s = t
  <2>1. s # x /\ t # x => s = t
    BY <1>4 DEF Chain
  <2>2. s = x <=> t = x
    BY <1>1, <1>2, <1>4
  <2> QED
    BY <2>1, <2>2
<1>5. ASSUME NEW s \in S2
      PROVE  \/ /\ m2[s + 1] = Null
                /\ \A t \in S2 : key2[s] <= key2[t]
             \/ /\ m2[s + 1] \in S2 /\ key2[m2[s + 1]] < key2[s]
                /\ \A t \in S2 : key2[t] < key2[s] => key2[t] <= key2[m2[s + 1]]
  <2>1. CASE s = x
    <3>1. \A t \in S2 : key2[t] < key2[x] => key2[t] <= key2[head]
      BY <1>1, <1>2
    <3> QED
      BY <1>1, <1>2, <2>1, <3>1
  <2>2. CASE s # x /\ m[s + 1] = Null
    <3>1. s \in S /\ \A t \in S : key[s] <= key[t]
      BY <2>2 DEF Chain
    <3>2. key2[s] <= key2[x]
      BY <1>3
    <3> QED
      BY <2>2, <3>1, <3>2
  <2>3. CASE s # x /\ m[s + 1] # Null
    <3>1. s \in S
      BY <2>3
    <3>2. /\ m[s + 1] \in S /\ key[m[s + 1]] < key[s]
          /\ \A t \in S : key[t] < key[s] => key[t] <= key[m[s + 1]]
      BY <2>3, <3>1 DEF Chain
    <3>3. m2[s + 1] = m[s + 1] /\ ~(key2[x] < key2[s])
      BY <1>1, <1>2, <3>1
    <3> QED
      BY <3>1, <3>2, <3>3
  <2> QED
    BY <2>1, <2>2, <2>3
<1> QED
  BY <1>3, <1>4, <1>5 DEF Chain

\* An entry that is not the last is taken out, and the link to it goes on to the next.
LEMMA ChainUnlink ==
  ASSUME NEW m, NEW S, NEW key, NEW head, Chain(m, S, key, head),
         NEW x \in S, m[x + 1] # Null,
         NEW m2, \A s \in S \ {x} : m2[s + 1] = IF m[s + 1] = x THEN m[x + 1] ELSE m[s + 1]
  PROVE  Chain(m2, S \ {x}, key, IF x = head THEN m[x + 1] ELSE head)
<1> DEFINE S2 == S \ {x}
           n == m[x + 1]
           head2 == IF x = head THEN n ELSE head
<1>1. /\ head \in S /\ Null \notin S
      /\ \A s \in S : key[s] \in Nat /\ key[s] <= key[head]
      /\ \A s, t \in S : key[s] = key[t] => s = t
  BY DEF Chain
<1>2. /\ n \in S /\ key[n] < key[x] /\ n # x
      /\ \A t \in S : key[t] < key[x] => key[t] <= key[n]
  <2>1. n \in S /\ key[n] < key[x] /\ \A t \in S : key[t] < key[x] => key[t] <= key[n]
    BY DEF Chain
  <2> QED
    BY <1>1, <2>1
<1>3. head2 \in S2 /\ Null \notin S2
  BY <1>1, <1>2
<1>4. ASSUME NEW s \in S2
      PROVE  key[s] \in Nat /\ key[s] <= key[head2]
  <2>1. CASE x = head
    <3>1. key[s] <= key[x] /\ key[s] # key[x] /\ key[s] \in Nat /\ key[x] \in Nat
      BY <1>1, <2>1
    <3> QED
      BY <1>2, <2>1, <3>1
  <2> QED
    BY <1>1, <2>1
<1>5. ASSUME NEW s \in S2
      PROVE  \/ /\ m2[s + 1] = Null
                /\ \A t \in S2 : key[s] <= key[t]
             \/ /\ m2[s + 1] \in S2 /\ key[m2[s + 1]] < key[s]
                /\ \A t \in S2 : key[t] < key[s] => key[t] <= key[m2[s + 1]]
  <2>1. CASE m[s + 1] = Null
    <3>1. \A t \in S : key[s] <= key[t]
      BY <1>1, <2>1 DEF Chain
    <3>2. m2[s + 1] = Null
      BY <1>1, <2>1
    <3> QED
      BY <3>1, <3>2
  <2>2. CASE m[s + 1] # Null /\ m[s + 1] # x
    <3>1. /\ m[s + 1] \in S /\ key[m[s + 1]] < key[s]
          /\ \A t \in S : key[t] < key[s] => key[t] <= key[m[s + 1]]
      BY <2>2 DEF Chain
    <3> QED
      BY <2>2, <3>1
  <2>3. CASE m[s + 1] = x
    <3>1. /\ key[x] < key[s]
          /\ \A t \in S : key[t] < key[s] => key[t] <= key[x]
      BY <1>1, <2>3 DEF Chain
    <3>2. m2[s + 1] = n /\ key[n] < key[s]
      BY <1>1, <1>2, <2>3, <3>1
    <3>3. ASSUME NEW t \in S2, key[t] < key[s]
          PROVE  key[t] <= key[n]
      <4>1. key[t] <= key[x] /\ key[t] # key[x] /\ key[t] \in Nat /\ key[x] \in Nat
        BY <1>1, <3>1, <3>3
      <4> QED
        BY <1>2, <4>1
    <3> QED
      BY <1>2, <3>2, <3>3
  <2> QED
    BY <2>1, <2>2, <2>3
<1> HIDE DEF head2
<1>6. Chain(m2, S2, key, head2)
  BY <1>1, <1>3, <1>4, <1>5 DEF Chain
<1> QED
  BY <1>6 DEF head2

\* A new entry behind one that is there.
LEMMA ChainInsert ==
  ASSUME NEW m, NEW S, NEW key, NEW head, Chain(m, S, key, head),
         NEW x, x \notin S, x # Null, key[x] \in Nat, NEW r \in S, key[x] < key[r],
         m[r + 1] # Null => key[m[r + 1]] < key[x],
         NEW m2, m2[x + 1] = m[r + 1], m2[r + 1] = x,
         \A s \in S \ {r} : m2[s + 1] = m[s + 1]
  PROVE  Chain(m2, S \cup {x}, key, head)
<1> DEFINE S2 == S \cup {x}
           n == m[r + 1]
<1>1. /\ head \in S /\ Null \notin S
      /\ \A s \in S : key[s] \in Nat /\ key[s] <= key[head]
      /\ \A s, t \in S : key[s] = key[t] => s = t
  BY DEF Chain
<1>2. \A t \in S : key[t] < key[r] => key[t] < key[x]
  <2>1. ASSUME NEW t \in S, key[t] < key[r]
        PROVE  n \in S /\ key[n] \in Nat /\ key[t] \in Nat /\ key[t] <= key[n] /\ key[n] < key[x]
    <3>1. key[t] \in Nat /\ key[r] \in Nat /\ ~(key[r] <= key[t])
      BY <1>1, <2>1
    <3>2. n # Null /\ n \in S /\ key[t] <= key[n]
      BY <2>1, <3>1 DEF Chain
    <3> QED
      BY <1>1, <3>1, <3>2
  <2>2. ASSUME NEW t \in S, key[t] < key[r]
        PROVE  key[t] < key[x]
    BY <2>1, <2>2
  <2> QED
    BY <2>2
<1>3. ASSUME NEW t \in S
      PROVE  key[t] < key[x] \/ key[r] <= key[t]
  BY <1>1, <1>2
<1>4. ASSUME NEW s \in S2
      PROVE  key[s] \in Nat /\ key[s] <= key[head]
  BY <1>1
<1>5. ASSUME NEW s \in S2, NEW t \in S2, key[s] = key[t]
      PROVE  s = t
  <2>1. \A u \in S : key[u] # key[x]
    BY <1>1, <1>3
  <2> QED
    BY <1>1, <1>5, <2>1
<1>6. ASSUME NEW s \in S2
      PROVE  \/ /\ m2[s + 1] = Null
                /\ \A t \in S2 : key[s] <= key[t]
             \/ /\ m2[s + 1] \in S2 /\ key[m2[s + 1]] < key[s]
                /\ \A t \in S2 : key[t] < key[s] => key[t] <= key[m2[s + 1]]
  <2>1. CASE s = r
    <3>1. \A t \in S2 : key[t] < key[r] => key[t] <= key[x]
      BY <1>1, <1>2
    <3> QED
      BY <2>1, <3>1
  <2>2. CASE s = x /\ n = Null
    <3>1. \A t \in S : key[r] <= key[t]
      BY <1>1, <2>2 DEF Chain
    <3>2. \A t \in S2 : key[x] <= key[t]
      BY <1>1, <3>1
    <3> QED
      BY <2>2, <3>2
  <2>3. CASE s = x /\ n # Null
    <3>1. /\ n \in S /\ key[n] < key[x]
          /\ \A t \in S : key[t] < key[r] => key[t] <= key[n]
      BY <2>3 DEF Chain
    <3>2. \A t \in S2 : key[t] < key[x] => key[t] <= key[n]
      BY <1>1, <3>1
    <3> QED
      BY <2>3, <3>1, <3>2
  <2>4. CASE s \in S \ {r} /\ m[s + 1] = Null
    <3>1. \A t \in S : key[s] <= key[t]
      BY <1>1, <2>4 DEF Chain
    <3>2. key[s] <= key[x]
      <4>1. key[s] <= key[r] /\ key[s] # key[r] /\ key[s] \in Nat /\ key[r] \in Nat
        BY <1>1, <2>4, <3>1
      <4> QED
        BY <1>2, <2>4, <4>1
    <3> QED
      BY <2>4, <3>1, <3>2
  <2>5. CASE s \in S \ {r} /\ m[s + 1] # Null
    <3>1. /\ m[s + 1] \in S /\ key[m[s + 1]] < key[s]
          /\ \A t \in S : key[t] < key[s] => key[t] <= key[m[s + 1]]
      BY <2>5 DEF Chain
    <3>2. key[x] < key[s] => key[x] <= key[m[s + 1]]
      <4>1. SUFFICES ASSUME key[x] < key[s] PROVE key[x] <= key[m[s + 1]]
        OBVIOUS
      <4>2. key[r] <= key[s] /\ key[r] # key[s] /\ key[s] \in Nat /\ key[r] \in Nat
        BY <1>1, <1>3, <2>5, <4>1
      <4>3. key[r] <= key[m[s + 1]] /\ key[m[s + 1]] \in Nat
        BY <1>1, <3>1, <4>2
      <4> QED
        BY <4>2, <4>3
    <3>3. m2[s + 1] = m[s + 1]
      BY <2>5
    <3> QED
      BY <3>1, <3>2, <3>3
  <2> QED
    BY <2>1, <2>2, <2>3, <2>4, <2>5
<1>7. key[head] \in Nat /\ head \in S2 /\ Null \notin S2
  BY <1>1
<1> QED
  BY <1>4, <1>5, <1>6, <1>7 DEF Chain

\* An entry gives its place in the list to another.
LEMMA ChainReplace ==
  ASSUME NEW m, NEW S, NEW key, NEW head, Chain(m, S, key, head),
         NEW x \in S, NEW y, y \notin S, y # Null, key[y] \in Nat,
         \A s \in S \ {x} : \/ key[s] < key[x] /\ key[s] < key[y]
                            \/ key[s] > key[x] /\ key[s] > key[y],
         NEW m2, m2[y + 1] = m[x + 1],
         \A s \in S \ {x} : m2[s + 1] = IF m[s + 1] = x THEN y ELSE m[s + 1]
  PROVE  Chain(m2, (S \ {x}) \cup {y}, key, IF x = head THEN y ELSE head)
<1> DEFINE S2 == (S \ {x}) \cup {y}
           head2 == IF x = head THEN y ELSE head
<1>1. /\ head \in S /\ Null \notin S
      /\ \A s \in S : key[s] \in Nat /\ key[s] <= key[head]
      /\ \A s, t \in S : key[s] = key[t] => s = t
  BY DEF Chain
<1>2. head2 \in S2 /\ Null \notin S2
  BY <1>1
<1>3. ASSUME NEW s \in S2
      PROVE  key[s] \in Nat /\ key[s] <= key[head2]
  <2>1. CASE x = head
    <3>1. \A t \in S \ {x} : key[t] < key[y]
      BY <1>1, <2>1
    <3> QED
      BY <1>1, <2>1, <3>1
  <2>2. CASE x # head
    <3>1. key[head] > key[y]
      BY <1>1, <2>2
    <3> QED
      BY <1>1, <2>2, <3>1
  <2> QED
    BY <2>1, <2>2
<1>4. ASSUME NEW s \in S2, NEW t \in S2, key[s] = key[t]
      PROVE  s = t
  <2>1. \A u \in S \ {x} : key[u] # key[y]
    BY <1>1
  <2> QED
    BY <1>1, <1>4, <2>1
<1>5. ASSUME NEW s \in S2
      PROVE  \/ /\ m2[s + 1] = Null
                /\ \A t \in S2 : key[s] <= key[t]
             \/ /\ m2[s + 1] \in S2 /\ key[m2[s + 1]] < key[s]
                /\ \A t \in S2 : key[t] < key[s] => key[t] <= key[m2[s + 1]]
  <2> DEFINE o == IF s = y THEN x ELSE s
  <2>1. o \in S
    OBVIOUS
  <2>2. \A t \in S \ {x} : /\ key[s] <= key[t] <=> key[o] <= key[t]
                           /\ key[t] < key[s] <=> key[t] < key[o]
    BY <1>1
  <2>3. CASE m[o + 1] = Null
    <3>1. \A t \in S : key[o] <= key[t]
      BY <1>1, <2>1, <2>3 DEF Chain
    <3>2. m2[s + 1] = Null
      BY <1>1, <2>3
    <3>3. key[s] <= key[y]
      BY <1>1, <3>1
    <3> HIDE DEF o
    <3> QED
      BY <2>2, <3>1, <3>2, <3>3
  <2>4. CASE m[o + 1] # Null
    <3> DEFINE n == m[o + 1]
    <3>1. /\ n \in S /\ key[n] < key[o]
          /\ \A t \in S : key[t] < key[o] => key[t] <= key[n]
      BY <1>1, <2>1, <2>4 DEF Chain
    <3>2. CASE n = x
      <4>1. s # y /\ m2[s + 1] = y
        BY <1>1, <3>1, <3>2
      <4>2. key[y] < key[s]
        BY <1>1, <3>1, <3>2, <4>1
      <4>3. \A t \in S \ {x} : key[t] < key[s] => key[t] <= key[y]
        BY <1>1, <3>1, <3>2, <4>1
      <4> QED
        BY <1>1, <4>1, <4>2, <4>3
    <3>3. CASE n # x
      <4>1. m2[s + 1] = n /\ n \in S \ {x}
        BY <3>1, <3>3
      <4>2. key[n] < key[s]
        BY <2>2, <3>1, <4>1
      <4>3. \A t \in S \ {x} : key[t] < key[s] => key[t] <= key[n]
        BY <2>2, <3>1
      <4>4. key[y] < key[s] => key[y] <= key[n]
        <5>1. SUFFICES ASSUME key[y] < key[s] PROVE key[y] <= key[n]
          OBVIOUS
        <5>2. s # y /\ s \in S \ {x} /\ o = s
          BY <1>1, <5>1
        <5>3. key[x] < key[s]
          BY <1>1, <5>1, <5>2
        <5>4. key[x] <= key[n] /\ key[x] # key[n]
          BY <1>1, <3>1, <3>3, <5>2, <5>3
        <5> QED
          BY <1>1, <3>1, <4>1, <5>4
      <4> HIDE DEF n
      <4> QED
        BY <4>1, <4>2, <4>3, <4>4
    <3> QED
      BY <3>2, <3>3
  <2> QED
    BY <2>3, <2>4
<1> HIDE DEF head2
<1>6. Chain(m2, S2, key, head2)
  BY <1>2, <1>3, <1>4, <1>5 DEF Chain
<1> QED
  BY <1>6 DEF head2

----------------------------------------------------------------------------
(* How the regions and the blocks share the heap.                          *)

\* The numbers of the heap.
LEMMA Sizes ==
  /\ HeapWords \in Nat /\ HeapWords >= 6 /\ Header = 2 /\ Null = -1
  /\ Top = HeapWords - 2 /\ Top \in Nat
BY HeapAssumption DEF Header, Null, Top

\* The head of the free list is the region that reaches to the header kept back: it
\* alone may be too small for a header of its own.
RegionsFit(m, F, head) ==
  /\ head \in F /\ head + m[head] = Top
  /\ \A f \in F : /\ f \in Header .. Top /\ m[f] \in Nat /\ f + m[f] <= Top
                  /\ f # head => m[f] >= Header

BlocksFit(m, B) ==
  /\ B \subseteq [at : Nat, size : Nat]
  /\ \A b \in B : /\ b.at \in Header .. Top /\ b.size \in Nat /\ b.size >= Header
                  /\ b.at + b.size <= Top /\ m[b.at] = b.size

Disjoint(m, F, B) ==
  /\ \A f, g \in F : f < g => f + m[f] <= g
  /\ \A b, c \in B : b # c => b.at + b.size <= c.at \/ c.at + c.size <= b.at
  /\ \A b \in B, f \in F : b.at + b.size <= f \/ f + m[f] <= b.at

Covered(m, F, B) ==
  \A w \in Header .. Top - 1 : \/ \E f \in F : f <= w /\ w < f + m[f]
                               \/ \E b \in B : b.at <= w /\ w < b.at + b.size

\* The regions at F and the blocks B share the words between the first entry and the
\* header kept back.
Layout(m, F, B, head) ==
  RegionsFit(m, F, head) /\ BlocksFit(m, B) /\ Disjoint(m, F, B) /\ Covered(m, F, B)

Entries(B) == {0} \cup {b.at : b \in B}

\* No two headers overlap.
LEMMA HeadersApart ==
  ASSUME NEW m, NEW F, NEW B, NEW head, Layout(m, F, B, head)
  PROVE  /\ \A f, g \in F : f < g => f + Header <= g
         /\ \A b, c \in B : b # c => b.at + Header <= c.at \/ c.at + Header <= b.at
         /\ \A b \in B, f \in F : b.at + Header <= f \/ f + Header <= b.at
         /\ \A b \in B : b.at < head
         /\ \A f \in F : f <= head
<1>1. ASSUME NEW f \in F
      PROVE  f <= head
  <2>1. SUFFICES ASSUME head < f PROVE FALSE
    BY Sizes DEF Layout, RegionsFit
  <2>2. head + m[head] <= f /\ head + m[head] = Top /\ f + m[f] <= Top /\ m[f] >= 2 /\ f \in Nat
    BY <2>1, Sizes DEF Layout, RegionsFit, Disjoint
  <2> QED
    BY <2>2, Sizes DEF Layout, RegionsFit
<1>2. ASSUME NEW f \in F, NEW g \in F, f < g
      PROVE  f + Header <= g
  <2>1. f # head
    BY <1>1, <1>2, Sizes DEF Layout, RegionsFit
  <2>2. f + m[f] <= g /\ m[f] >= 2 /\ m[f] \in Nat /\ f \in Nat /\ g \in Nat
    BY <1>2, <2>1, Sizes DEF Layout, RegionsFit, Disjoint
  <2> QED
    BY <2>2, Sizes
<1>3. ASSUME NEW b \in B
      PROVE  b.at < head
  <2>1. /\ b.at \in Nat /\ b.size \in Nat /\ b.size >= 2 /\ b.at + b.size <= Top
        /\ head \in Nat /\ m[head] \in Nat /\ head + m[head] = Top
        /\ b.at + b.size <= head \/ head + m[head] <= b.at
    BY Sizes DEF Layout, RegionsFit, BlocksFit, Disjoint
  <2> QED
    BY <2>1, Sizes
<1>4. ASSUME NEW b \in B, NEW f \in F
      PROVE  b.at + Header <= f \/ f + Header <= b.at
  <2>1. /\ b.at \in Nat /\ b.size \in Nat /\ b.size >= 2 /\ f \in Nat /\ m[f] \in Nat
        /\ f # head => m[f] >= 2
        /\ b.at + b.size <= f \/ f + m[f] <= b.at
    BY Sizes DEF Layout, RegionsFit, BlocksFit, Disjoint
  <2>2. f = head => b.at + b.size <= f
    BY <1>3, <2>1, Sizes DEF Layout, RegionsFit
  <2> QED
    BY <2>1, <2>2, Sizes
<1>5. ASSUME NEW b \in B, NEW c \in B, b # c
      PROVE  b.at + Header <= c.at \/ c.at + Header <= b.at
  <2>1. /\ b.at \in Nat /\ b.size \in Nat /\ b.size >= 2
        /\ c.at \in Nat /\ c.size \in Nat /\ c.size >= 2
        /\ b.at + b.size <= c.at \/ c.at + c.size <= b.at
    BY <1>5, Sizes DEF Layout, BlocksFit, Disjoint
  <2> QED
    BY <2>1, Sizes
<1> QED
  BY <1>1, <1>2, <1>3, <1>4, <1>5

\* Only the sizes matter.
LEMMA LayoutKept ==
  ASSUME NEW m, NEW F, NEW B, NEW head, Layout(m, F, B, head),
         NEW m2, \A f \in F : m2[f] = m[f], \A b \in B : m2[b.at] = m[b.at]
  PROVE  Layout(m2, F, B, head)
<1>1. RegionsFit(m2, F, head)
  BY DEF Layout, RegionsFit
<1>2. BlocksFit(m2, B)
  BY DEF Layout, BlocksFit
<1>3. Disjoint(m2, F, B)
  BY DEF Layout, Disjoint
<1>4. Covered(m2, F, B)
  BY DEF Layout, Covered
<1> QED
  BY <1>1, <1>2, <1>3, <1>4 DEF Layout

\* A block becomes a free region where it is.
LEMMA LayoutFreed ==
  ASSUME NEW m, NEW F, NEW B, NEW head, NEW r, r \notin B, Layout(m, F, B \cup {r}, head)
  PROVE  Layout(m, F \cup {r.at}, B, head) /\ r.at \notin F
<1> DEFINE x == r.at
<1>1. /\ x \in Header .. Top /\ r.size \in Nat /\ r.size >= 2 /\ x + r.size <= Top /\ m[x] = r.size
  BY Sizes DEF Layout, BlocksFit
<1>2. x \notin F
  BY <1>1, Sizes DEF Layout, RegionsFit, Disjoint
<1>3. RegionsFit(m, F \cup {x}, head)
  BY <1>1, <1>2, Sizes DEF Layout, RegionsFit
<1>4. BlocksFit(m, B)
  BY DEF Layout, BlocksFit
<1>5. Disjoint(m, F \cup {x}, B)
  <2>1. \A f \in F : x + m[x] <= f \/ f + m[f] <= x
    BY <1>1 DEF Layout, Disjoint
  <2>2. \A f \in F : f \in Nat /\ m[f] \in Nat
    BY Sizes DEF Layout, RegionsFit
  <2>3. ASSUME NEW f \in F \cup {x}, NEW g \in F \cup {x}, f < g
        PROVE  f + m[f] <= g
    <3>1. CASE f \in F /\ g \in F
      BY <2>3, <3>1 DEF Layout, Disjoint
    <3>2. CASE f = x /\ g \in F
      BY <1>1, <2>1, <2>2, <2>3, <3>2, Sizes
    <3>3. CASE f \in F /\ g = x
      BY <1>1, <2>1, <2>2, <2>3, <3>3, Sizes
    <3>4. CASE f = x /\ g = x
      BY <1>1, <2>3, <3>4, Sizes
    <3> QED
      BY <3>1, <3>2, <3>3, <3>4
  <2>4. \A b \in B : b.at + b.size <= x \/ x + m[x] <= b.at
    BY <1>1 DEF Layout, Disjoint
  <2> QED
    BY <2>3, <2>4 DEF Layout, Disjoint
<1>6. Covered(m, F \cup {x}, B)
  BY <1>1 DEF Layout, Covered
<1> QED
  BY <1>2, <1>3, <1>4, <1>5, <1>6 DEF Layout

\* The region at p is cut need words up, where what is left has room for a header.
Cut(m, F, B, head, p, need, m2) ==
  /\ p \in F /\ need \in Nat /\ need >= Header /\ need <= m[p]
  /\ p # head => m[p] - need >= Header
  /\ m2[p] = need /\ m2[p + need] = m[p] - need
  /\ \A f \in F \ {p} : m2[f] = m[f]
  /\ \A b \in B : m2[b.at] = m[b.at]

\* The lower part of a region becomes a block.
LEMMA LayoutSplit ==
  ASSUME NEW m, NEW F, NEW B, NEW head, Layout(m, F, B, head),
         NEW p, NEW need, NEW m2, Cut(m, F, B, head, p, need, m2)
  PROVE  Layout(m2, (F \ {p}) \cup {p + need}, B \cup {[at |-> p, size |-> need]},
                IF p = head THEN p + need ELSE head)
<1> DEFINE q == p + need
           r == [at |-> p, size |-> need]
           F2 == (F \ {p}) \cup {q}
           head2 == IF p = head THEN q ELSE head
<1>0. /\ p \in F /\ need \in Nat /\ need >= Header /\ need <= m[p]
      /\ p # head => m[p] - need >= Header
      /\ m2[p] = need /\ m2[q] = m[p] - need
      /\ \A f \in F \ {p} : m2[f] = m[f]
      /\ \A b \in B : m2[b.at] = m[b.at]
  BY DEF Cut
<1>1. /\ p \in Header .. Top /\ m[p] \in Nat /\ p + m[p] <= Top
      /\ head \in F /\ head + m[head] = Top
  BY <1>0 DEF Layout, RegionsFit
<1>2. /\ q \in Header .. Top /\ m2[q] \in Nat /\ q + m2[q] = p + m[p]
      /\ p < q /\ q <= p + m[p] /\ p \in Nat /\ q \in Nat
      /\ r.at = p /\ r.size = need
  <2>1. p \in Nat /\ q \in Nat /\ p < q /\ q <= p + m[p] /\ Header <= q /\ q <= Top
    BY <1>0, <1>1, Sizes
  <2>2. m[p] - need \in Nat /\ q + (m[p] - need) = p + m[p]
    BY <1>0, <1>1, <2>1
  <2> QED
    BY <1>0, <1>1, <2>1, <2>2, Sizes
<1>3. \A f \in F \ {p} : /\ f \in Header .. Top /\ f \in Nat /\ m[f] \in Nat /\ f + m[f] <= Top
                         /\ f # head => m[f] >= Header
                         /\ m2[f] = m[f]
                         /\ f + m[f] <= p \/ p + m[p] <= f
  <2>1. \A f \in F : f \in Nat /\ f \in Header .. Top /\ m[f] \in Nat /\ f + m[f] <= Top
                         /\ (f # head => m[f] >= Header)
    BY <1>0, Sizes DEF Layout, RegionsFit
  <2>2. \A f \in F : (f < p => f + m[f] <= p) /\ (p < f => p + m[p] <= f)
    BY <1>0 DEF Layout, Disjoint
  <2> QED
    BY <1>0, <1>2, <2>1, <2>2
<1>4. \A b \in B : /\ b.at \in Nat /\ b.at \in Header .. Top /\ b.size \in Nat /\ b.size >= Header
                   /\ b.at + b.size <= Top /\ m2[b.at] = b.size
                   /\ b.at + b.size <= p \/ p + m[p] <= b.at
  BY <1>0, Sizes DEF Layout, BlocksFit, Disjoint
<1>5. RegionsFit(m2, F2, head2)
  <2>1. head2 \in F2 /\ head2 + m2[head2] = Top
    BY <1>0, <1>1, <1>2
  <2>2. ASSUME NEW f \in F2
        PROVE  /\ f \in Header .. Top /\ m2[f] \in Nat /\ f + m2[f] <= Top
               /\ f # head2 => m2[f] >= Header
    <3>1. CASE f = q
      <4>1. q # head2 => p # head
        OBVIOUS
      <4> QED
        BY <1>0, <1>1, <1>2, <3>1, <4>1
    <3>2. CASE f \in F \ {p}
      BY <1>0, <1>1, <1>2, <1>3, <3>2
    <3> QED
      BY <3>1, <3>2
  <2> HIDE DEF head2, F2
  <2> QED
    BY <2>1, <2>2 DEF RegionsFit
<1>6. BlocksFit(m2, B \cup {r})
  <2>1. /\ r.at \in Header .. Top /\ r.size \in Nat /\ r.size >= Header
        /\ r.at + r.size <= Top /\ m2[r.at] = r.size
        /\ r \in [at : Nat, size : Nat]
    BY <1>0, <1>1, <1>2, Sizes
  <2> HIDE DEF r
  <2> QED
    BY <1>4, <2>1 DEF BlocksFit, Layout
<1>7. Disjoint(m2, F2, B \cup {r})
  <2>1. ASSUME NEW f \in F2, NEW g \in F2, f < g
        PROVE  f + m2[f] <= g
    <3>1. CASE f = q /\ g \in F \ {p}
      BY <1>2, <1>3, <2>1, <3>1
    <3>2. CASE f \in F \ {p} /\ g = q
      BY <1>2, <1>3, <2>1, <3>2
    <3>3. CASE f \in F \ {p} /\ g \in F \ {p}
      BY <1>0, <1>3, <2>1, <3>3 DEF Layout, Disjoint
    <3>4. CASE f = q /\ g = q
      BY <1>2, <2>1, <3>4
    <3> QED
      BY <3>1, <3>2, <3>3, <3>4
  <2>2. ASSUME NEW b \in B \cup {r}, NEW c \in B \cup {r}, b # c
        PROVE  b.at + b.size <= c.at \/ c.at + c.size <= b.at
    <3>1. \A d \in B : d.at + d.size <= r.at \/ r.at + r.size <= d.at
      BY <1>2, <1>4
    <3> HIDE DEF r
    <3> QED
      BY <2>2, <3>1 DEF Layout, Disjoint
  <2>3. ASSUME NEW b \in B \cup {r}, NEW f \in F2
        PROVE  b.at + b.size <= f \/ f + m2[f] <= b.at
    <3>1. CASE b = r /\ f = q
      BY <1>2, <3>1
    <3>2. CASE b = r /\ f \in F \ {p}
      BY <1>2, <1>3, <3>2
    <3>3. CASE b \in B /\ f = q
      BY <1>2, <1>4, <3>3
    <3>4. CASE b \in B /\ f \in F \ {p}
      BY <1>3, <3>4 DEF Layout, Disjoint
    <3> QED
      BY <3>1, <3>2, <3>3, <3>4
  <2> QED
    BY <2>1, <2>2, <2>3 DEF Disjoint
<1>8. Covered(m2, F2, B \cup {r})
  <2>1. ASSUME NEW w \in Header .. Top - 1
        PROVE  \/ \E f \in F2 : f <= w /\ w < f + m2[f]
               \/ \E b \in B \cup {r} : b.at <= w /\ w < b.at + b.size
    <3>1. \/ \E f \in F : f <= w /\ w < f + m[f]
          \/ \E b \in B : b.at <= w /\ w < b.at + b.size
      BY <1>0 DEF Layout, Covered
    <3>2. CASE p <= w /\ w < p + m[p]
      <4>1. CASE w < q
        <5>1. r.at <= w /\ w < r.at + r.size
          BY <1>2, <3>2, <4>1
        <5> HIDE DEF r
        <5> QED
          BY <5>1
      <4>2. CASE ~(w < q)
        BY <1>2, <3>2, <4>2, Sizes
      <4> QED
        BY <4>1, <4>2
    <3>3. CASE ~(p <= w /\ w < p + m[p])
      BY <1>3, <3>1, <3>3
    <3> QED
      BY <3>2, <3>3
  <2> QED
    BY <2>1 DEF Covered
<1> HIDE DEF head2, F2, r, q
<1>9. Layout(m2, F2, B \cup {r}, head2)
  BY <1>5, <1>6, <1>7, <1>8 DEF Layout
<1> QED
  BY <1>9 DEF head2, F2, r, q

\* A region grows over the one it touches.
LEMMA LayoutMerged ==
  ASSUME NEW m, NEW F, NEW B, NEW head, Layout(m, F, B, head),
         NEW p \in F, NEW n \in F, n # p, n + m[n] = p,
         NEW m2, m2[n] = m[n] + m[p],
         \A f \in F \ {n, p} : m2[f] = m[f], \A b \in B : m2[b.at] = m[b.at]
  PROVE  Layout(m2, F \ {p}, B, IF p = head THEN n ELSE head)
<1> DEFINE F2 == F \ {p}
           head2 == IF p = head THEN n ELSE head
<1>1. \A f \in F : /\ f \in Nat /\ f \in Header .. Top /\ m[f] \in Nat /\ f + m[f] <= Top
                   /\ f # head => m[f] >= Header
  BY Sizes DEF Layout, RegionsFit
<1>2. head \in F /\ head + m[head] = Top
  BY DEF Layout, RegionsFit
<1>3. n < p /\ m2[n] \in Nat /\ n + m2[n] = p + m[p]
  BY <1>1
<1>4. \A f \in F2 \ {n} : /\ m2[f] = m[f]
                          /\ f < n \/ p + m[p] <= f
  <2>1. \A f \in F2 \ {n} : f < n \/ n + m[n] <= f
    BY <1>1 DEF Layout, Disjoint
  <2>2. \A f \in F2 \ {n} : f < p \/ p + m[p] <= f
    BY <1>1 DEF Layout, Disjoint
  <2> QED
    BY <1>1, <2>1, <2>2
<1>5. RegionsFit(m2, F2, head2)
  <2>1. head2 \in F2 /\ head2 + m2[head2] = Top
    <3>1. head # n
      <4>1. m[p] >= Header \/ p = head
        BY <1>1
      <4> QED
        BY <1>1, <1>2, <1>3, <4>1, Sizes
    <3> QED
      BY <1>2, <1>3, <1>4, <3>1
  <2>2. ASSUME NEW f \in F2
        PROVE  /\ f \in Header .. Top /\ m2[f] \in Nat /\ f + m2[f] <= Top
               /\ f # head2 => m2[f] >= Header
    <3>1. CASE f = n
      <4>1. p # head => m[n] + m[p] >= Header
        BY <1>1, Sizes
      <4> QED
        BY <1>1, <1>3, <3>1, <4>1
    <3>2. CASE f # n
      BY <1>1, <1>4, <3>2
    <3> QED
      BY <3>1, <3>2
  <2> HIDE DEF head2, F2
  <2> QED
    BY <2>1, <2>2 DEF RegionsFit
<1>6. BlocksFit(m2, B)
  BY DEF Layout, BlocksFit
<1>7. Disjoint(m2, F2, B)
  <2>1. ASSUME NEW f \in F2, NEW g \in F2, f < g
        PROVE  f + m2[f] <= g
    <3>1. f # n => f + m[f] <= g
      BY <2>1 DEF Layout, Disjoint
    <3>2. CASE f = n
      BY <1>1, <1>3, <1>4, <2>1, <3>2
    <3> QED
      BY <1>4, <3>1, <3>2
  <2>2. ASSUME NEW b \in B, NEW f \in F2
        PROVE  b.at + b.size <= f \/ f + m2[f] <= b.at
    <3>1. \A g \in F : b.at + b.size <= g \/ g + m[g] <= b.at
      BY DEF Layout, Disjoint
    <3>2. b.at \in Nat /\ b.size \in Nat /\ b.size >= 2
      BY Sizes DEF Layout, BlocksFit
    <3>3. CASE f = n
      BY <1>1, <1>3, <3>1, <3>2, <3>3
    <3>4. CASE f # n
      BY <1>4, <3>1, <3>4
    <3> QED
      BY <3>3, <3>4
  <2> QED
    BY <2>1, <2>2 DEF Layout, Disjoint
<1>8. Covered(m2, F2, B)
  <2>1. ASSUME NEW w \in Header .. Top - 1, NEW f \in F, f <= w, w < f + m[f]
        PROVE  \E g \in F2 : g <= w /\ w < g + m2[g]
    <3>1. CASE f = n \/ f = p
      <4>1. n <= w /\ w < n + m2[n] /\ n \in F2
        BY <1>1, <1>3, <2>1, <3>1, Sizes
      <4> QED
        BY <4>1
    <3>2. CASE f # n /\ f # p
      BY <1>4, <2>1, <3>2
    <3> QED
      BY <3>1, <3>2
  <2> QED
    BY <2>1 DEF Layout, Covered
<1> HIDE DEF head2, F2
<1>9. Layout(m2, F2, B, head2)
  BY <1>5, <1>6, <1>7, <1>8 DEF Layout
<1> QED
  BY <1>9 DEF head2, F2

\* When no two regions touch, and the block and the header behind it reach into no
\* other block, the region that is cut has room for its header, or is the head.
LEMMA RoomForHeader ==
  ASSUME NEW m, NEW F, NEW B, NEW head, Layout(m, F, B, head),
         \A f, g \in F : f < g => f + m[f] # g,
         NEW p \in F, p # head, NEW need \in Nat, need <= m[p],
         \A b \in B : WordsOf(b) \cap (p .. p + need + Header - 1) = {}
  PROVE  m[p] - need >= Header
<1>1. SUFFICES ASSUME m[p] - need < Header
               PROVE  FALSE
  BY Sizes DEF Layout, RegionsFit
<1> DEFINE w == p + m[p]
<1>2. \A f \in F : f \in Header .. Top /\ f \in Nat /\ m[f] \in Nat /\ f + m[f] <= Top
  BY Sizes DEF Layout, RegionsFit
<1>3. head \in F /\ head + m[head] = Top /\ m[p] >= 2
  BY Sizes DEF Layout, RegionsFit
<1>4. p < head /\ w < head
  <2>1. p <= head
    BY HeadersApart
  <2>2. p < head
    BY <1>2, <1>3, <2>1
  <2>3. p + m[p] <= head /\ p + m[p] # head
    BY <1>3, <2>2 DEF Layout, Disjoint
  <2> QED
    BY <1>2, <1>3, <2>2, <2>3
<1>5. w \in Header .. Top - 1
  BY <1>2, <1>3, <1>4, Sizes
<1>6. ASSUME NEW f \in F, f <= w, w < f + m[f]
      PROVE  FALSE
  <2>1. f # p
    BY <1>2, <1>6
  <2>2. f < p => f + m[f] <= p
    BY DEF Layout, Disjoint
  <2>3. p < f => p + m[p] <= f /\ p + m[p] # f
    BY DEF Layout, Disjoint
  <2> QED
    BY <1>2, <1>6, <2>1, <2>2, <2>3
<1>7. ASSUME NEW b \in B, b.at <= w, w < b.at + b.size
      PROVE  FALSE
  <2>1. b.at \in Nat /\ b.size \in Nat
    BY Sizes DEF Layout, BlocksFit
  <2>2. w \in WordsOf(b)
    BY <1>2, <1>7, <2>1 DEF WordsOf
  <2>3. w \in p .. p + need + Header - 1
    BY <1>1, <1>2, Sizes
  <2> QED
    BY <2>2, <2>3
<1> QED
  BY <1>5, <1>6, <1>7 DEF Layout, Covered

----------------------------------------------------------------------------
(* The inductive invariant.                                                *)

\* The free list is in order of address.
Address == [w \in 0 .. HeapWords - 1 |-> w]

Calls == [pc : {"idle", "fit", "find", "order", "merge"}, fn : {"none", "alloc", "free", "expand"},
          p : Int, prev : Int, blk : Int, need : Nat]

\* MM_Free has taken a block off its list before it puts it on the other.
Placed(m, B, c) ==
  B \cup IF c.pc = "order" THEN {[at |-> c.blk, size |-> m[c.blk]]} ELSE {}

\* Regions that touch are the ones MM_Coalesce has not come to.
Apart(m, F, c) == \A f, g \in F : f < g /\ f + m[f] = g => c.pc = "merge" /\ g <= c.p

\* The words of the heap, with its free regions at F and the places of the blocks in
\* their list.
Memory(m, F, B, key, fh, ah, c) ==
  /\ m \in [0 .. HeapWords - 1 -> Int] /\ m[1] = Null
  /\ Layout(m, F, Placed(m, B, c), fh)
  /\ Chain(m, F, Address, fh)
  /\ Chain(m, Entries(B), key, ah)
  /\ Apart(m, F, c)

\* A call walks a list with a pointer to the entry before.
Cursor(m, S, head, c) == \/ c.prev = Null /\ c.p = head
                         \/ c.prev \in S /\ m[c.prev + 1] = c.p

Fitting(m, F, fh, c) == c.need >= Header /\ Cursor(m, F, fh, c)

\* The entries passed so far are not the one that is looked for.
Finding(m, B, key, ah, c) ==
  /\ c.p \in Entries(B) /\ Cursor(m, Entries(B), ah, c)
  /\ \A l \in Entries(B) : key[l] > key[c.p] => l # c.blk

Ordering(m, F, B, fh, c) ==
  /\ Cursor(m, F, fh, c)
  /\ c.prev # Null => c.blk < c.prev
  /\ \A b \in B : b.at # c.blk

Merging(m, F, c) == c.p \in F /\ (c.prev # Null => c.prev \in F /\ m[c.prev + 1] = c.p)

\* Where the call in progress is.
Place(m, F, B, key, fh, ah, c) ==
  /\ c \in Calls
  /\ c.pc = "fit" => Fitting(m, F, fh, c)
  /\ c.pc = "find" => Finding(m, B, key, ah, c)
  /\ c.pc = "order" => Ordering(m, F, B, fh, c)
  /\ c.pc = "merge" => Merging(m, F, c)

Sound(m, F, B, key, fh, ah, c) ==
  Memory(m, F, B, key, fh, ah, c) /\ Place(m, F, B, key, fh, ah, c)

HeapInv ==
  damage = "none" => \E F, key : Sound(mem, F, live, key, freeHead, allocHead, call)

----------------------------------------------------------------------------
(* Steps that walk a list and change nothing.                              *)

\* The lists stay as they are while a call walks them.
LEMMA MemoryWalked ==
  ASSUME NEW m, NEW F, NEW B, NEW key, NEW fh, NEW ah, NEW c,
         Memory(m, F, B, key, fh, ah, c),
         NEW c2, Placed(m, B, c2) = Placed(m, B, c), c.pc = "merge" => Apart(m, F, c2)
  PROVE  Memory(m, F, B, key, fh, ah, c2)
<1>1. Apart(m, F, c2)
  BY DEF Memory, Apart
<1> QED
  BY <1>1 DEF Memory

\* A pointer that walks a list is on it, up to the end, and so is the next.
LEMMA CursorWalks ==
  ASSUME NEW m, NEW S, NEW key, NEW head, Chain(m, S, key, head),
         NEW c, Cursor(m, S, head, c), c.p # Null
  PROVE  /\ c.p \in S
         /\ \A c2 : c2.prev = c.p /\ c2.p = m[c.p + 1] => Cursor(m, S, head, c2)
<1>1. c.p \in S
  BY DEF Chain, Cursor
<1> QED
  BY <1>1 DEF Cursor

\* The addresses on the lists.
LEMMA MemoryAddresses ==
  ASSUME NEW m, NEW F, NEW B, NEW key, NEW fh, NEW ah, NEW c,
         Memory(m, F, B, key, fh, ah, c)
  PROVE  /\ fh \in F /\ ah \in Entries(B)
         /\ \A f \in F : f \in Nat /\ f \in Header .. Top /\ m[f] \in Nat /\ f # Null
         /\ \A x \in Entries(B) : x \in Nat /\ x \in 0 .. Top /\ x # Null
         /\ \A b \in B : b.at \in Nat /\ b.at \in Header .. Top /\ m[b.at] = b.size
         /\ \A w \in 0 .. HeapWords - 1 : m[w] \in Int
         /\ \A w \in 0 .. Top : w \in 0 .. HeapWords - 1 /\ w + 1 \in 0 .. HeapWords - 1
<1>1. fh \in F /\ ah \in Entries(B)
  BY DEF Memory, Chain
<1>2. \A f \in F : f \in Nat /\ f \in Header .. Top /\ m[f] \in Nat /\ f # Null
  BY Sizes DEF Memory, Layout, RegionsFit
<1>3. \A b \in B : b.at \in Nat /\ b.at \in Header .. Top /\ m[b.at] = b.size
  BY Sizes DEF Memory, Layout, BlocksFit, Placed
<1>4. \A x \in Entries(B) : x \in Nat /\ x \in 0 .. Top /\ x # Null
  BY <1>3, Sizes DEF Entries
<1>5. \A w \in 0 .. HeapWords - 1 : m[w] \in Int
  BY DEF Memory
<1>6. \A w \in 0 .. Top : w \in 0 .. HeapWords - 1 /\ w + 1 \in 0 .. HeapWords - 1
  BY Sizes
<1> QED
  BY <1>1, <1>2, <1>3, <1>4, <1>5, <1>6

\* A block with its header has at least the two words of the header.
LEMMA SizeNeededFits ==
  ASSUME NEW bytes \in Nat
  PROVE  SizeNeeded(bytes) \in Nat /\ SizeNeeded(bytes) >= Header
BY Sizes DEF SizeNeeded

\* A call starts at the head of a list.
LEMMA AllocStarts ==
  ASSUME NEW F, NEW key, Sound(mem, F, live, key, freeHead, allocHead, call),
         NEW bytes \in Requests, MM_Alloc(bytes)
  PROVE  Sound(mem', F, live', key, freeHead', allocHead', call')
<1>1. /\ mem' = mem /\ freeHead' = freeHead /\ allocHead' = allocHead /\ live' = live
      /\ call = Idle
      /\ call' = [Idle EXCEPT !.pc = "fit", !.fn = "alloc", !.p = freeHead,
                              !.need = SizeNeeded(bytes)]
  BY DEF MM_Alloc, heads
<1>2. /\ call'.pc = "fit" /\ call'.p = freeHead /\ call'.prev = Null
      /\ call'.need = SizeNeeded(bytes) /\ call.pc = "idle"
  BY <1>1 DEF Idle
<1>3. SizeNeeded(bytes) \in Nat /\ SizeNeeded(bytes) >= Header
  BY HeapAssumption, SizeNeededFits
<1>4. call' \in Calls
  <2>1. freeHead \in Int /\ Null \in Int
    BY MemoryAddresses, Sizes DEF Sound
  <2>2. call' = [pc |-> "fit", fn |-> "alloc", p |-> freeHead, prev |-> Null, blk |-> Null,
                 need |-> SizeNeeded(bytes)]
    BY <1>1 DEF Idle
  <2> QED
    BY <1>3, <2>1, <2>2 DEF Calls
<1>5. Memory(mem, F, live, key, freeHead, allocHead, call')
  BY <1>2, MemoryWalked DEF Sound, Placed
<1>6. Place(mem, F, live, key, freeHead, allocHead, call')
  BY <1>2, <1>3, <1>4 DEF Place, Fitting, Cursor
<1> QED
  BY <1>1, <1>5, <1>6 DEF Sound

LEMMA LookupStarts ==
  ASSUME NEW F, NEW key, Sound(mem, F, live, key, freeHead, allocHead, call),
         call = Idle, NEW fn \in {"free", "expand"}, NEW pointer \in Pointers, NEW need \in Nat,
         NEW c2, c2 = Lookup(fn, pointer, need)
  PROVE  Sound(mem, F, live, key, freeHead, allocHead, c2)
<1>1. /\ c2.pc = "find" /\ c2.p = allocHead /\ c2.prev = Null /\ call.pc = "idle"
  BY DEF Idle, Lookup
<1>2. allocHead \in Entries(live) /\ allocHead \in Int
  BY MemoryAddresses DEF Sound
<1>3. c2 \in Calls
  <2>1. Null \in Int /\ pointer - Header \in Int
    BY Sizes DEF Pointers
  <2>2. c2 = [pc |-> "find", fn |-> fn, p |-> allocHead, prev |-> Null,
              blk |-> pointer - Header, need |-> need]
    BY DEF Idle, Lookup
  <2> QED
    BY <1>2, <2>1, <2>2 DEF Calls
<1>4. Memory(mem, F, live, key, freeHead, allocHead, c2)
  BY <1>1, MemoryWalked DEF Sound, Placed
<1>5. \A l \in Entries(live) : ~(key[l] > key[allocHead])
  BY DEF Sound, Memory, Chain
<1>6. Place(mem, F, live, key, freeHead, allocHead, c2)
  BY <1>1, <1>2, <1>3, <1>5 DEF Place, Finding, Cursor
<1> QED
  BY <1>4, <1>6 DEF Sound

\* A pointer moves on to the next entry.
Moved(m, c) == [c EXCEPT !.prev = c.p, !.p = m[c.p + 1]]

LEMMA CallMoves ==
  ASSUME NEW m, NEW F, NEW B, NEW key, NEW fh, NEW ah, NEW c,
         Memory(m, F, B, key, fh, ah, c), c \in Calls, c.p \in F \cup Entries(B)
  PROVE  LET c2 == Moved(m, c)
         IN  /\ c2 \in Calls /\ c2.pc = c.pc /\ c2.fn = c.fn /\ c2.need = c.need /\ c2.blk = c.blk
             /\ c2.prev = c.p /\ c2.p = m[c.p + 1]
             /\ Placed(m, B, c2) = Placed(m, B, c)
<1> DEFINE c2 == Moved(m, c)
<1>1. c.p \in 0 .. Top
  BY MemoryAddresses, Sizes
<1>2. c.p \in Int /\ m[c.p + 1] \in Int
  <2>1. c.p + 1 \in 0 .. HeapWords - 1
    BY <1>1, MemoryAddresses
  <2> QED
    BY <1>1, <2>1, MemoryAddresses
<1>3. c2.pc = c.pc /\ c2.fn = c.fn /\ c2.need = c.need /\ c2.blk = c.blk
  BY DEF Calls, Moved
<1>4. c2.prev = c.p /\ c2.p = m[c.p + 1] /\ c2 \in Calls
  BY <1>2 DEF Calls, Moved
<1> HIDE DEF c2
<1>5. Placed(m, B, c2) = Placed(m, B, c)
  BY <1>3 DEF Placed
<1> QED
  BY <1>3, <1>4, <1>5 DEF c2

LEMMA FitNextWalks ==
  ASSUME NEW F, NEW key, Sound(mem, F, live, key, freeHead, allocHead, call), FitNext
  PROVE  Sound(mem', F, live', key, freeHead', allocHead', call')
<1>1. /\ mem' = mem /\ freeHead' = freeHead /\ allocHead' = allocHead /\ live' = live
      /\ call.pc = "fit" /\ call.p # Null
      /\ call' = Moved(mem, call)
  BY DEF FitNext, heads, NextAt, Moved
<1>2. call \in Calls /\ call.need >= Header /\ Cursor(mem, F, freeHead, call)
  BY <1>1 DEF Sound, Place, Fitting
<1>3. /\ call.p \in F
      /\ \A c2 : c2.prev = call.p /\ c2.p = mem[call.p + 1] => Cursor(mem, F, freeHead, c2)
  BY <1>1, <1>2, CursorWalks DEF Sound, Memory
<1>4. /\ call' \in Calls /\ call'.pc = call.pc /\ call'.need = call.need
      /\ call'.prev = call.p /\ call'.p = mem[call.p + 1]
      /\ Placed(mem, live, call') = Placed(mem, live, call)
  <2>1. Memory(mem, F, live, key, freeHead, allocHead, call)
    BY DEF Sound
  <2>2. call \in Calls /\ call.p \in F \cup Entries(live)
    BY <1>2, <1>3
  <2> QED
    BY <1>1, <2>1, <2>2, CallMoves
<1>5. Memory(mem, F, live, key, freeHead, allocHead, call')
  BY <1>1, <1>4, MemoryWalked DEF Sound
<1>6. Cursor(mem, F, freeHead, call')
  BY <1>3, <1>4
<1>7. Place(mem, F, live, key, freeHead, allocHead, call')
  BY <1>1, <1>2, <1>4, <1>6 DEF Place, Fitting
<1> QED
  BY <1>1, <1>5, <1>7 DEF Sound

\* What is passed over is not the block that is looked for.
LEMMA FindNextWalks ==
  ASSUME NEW F, NEW key, Sound(mem, F, live, key, freeHead, allocHead, call), FindNext
  PROVE  Sound(mem', F, live', key, freeHead', allocHead', call')
<1> DEFINE S == Entries(live)
           n == mem[call.p + 1]
<1>1. /\ mem' = mem /\ freeHead' = freeHead /\ allocHead' = allocHead /\ live' = live
      /\ call.pc = "find" /\ call.p # call.blk /\ n # Null
      /\ call' = Moved(mem, call)
  BY DEF FindNext, heads, NextAt, IsLast, Moved
<1>2. /\ call \in Calls /\ call.p \in S
      /\ Cursor(mem, S, allocHead, call)
      /\ \A l \in S : key[l] > key[call.p] => l # call.blk
  BY <1>1 DEF Sound, Place, Finding
<1>3. Chain(mem, S, key, allocHead)
  BY DEF Sound, Memory
<1>4. \A c2 : c2.prev = call.p /\ c2.p = mem[call.p + 1] => Cursor(mem, S, allocHead, c2)
  BY <1>2, <1>3, CursorWalks DEF Chain
<1>5. /\ call' \in Calls /\ call'.pc = call.pc /\ call'.need = call.need /\ call'.blk = call.blk
      /\ call'.prev = call.p /\ call'.p = mem[call.p + 1]
      /\ Placed(mem, live, call') = Placed(mem, live, call)
  <2>1. Memory(mem, F, live, key, freeHead, allocHead, call)
    BY DEF Sound
  <2>2. call \in Calls /\ call.p \in F \cup Entries(live)
    BY <1>2
  <2> QED
    BY <1>1, <2>1, <2>2, CallMoves
<1>6. Memory(mem, F, live, key, freeHead, allocHead, call')
  BY <1>1, <1>5, MemoryWalked DEF Sound
<1>7. Cursor(mem, S, allocHead, call')
  BY <1>4, <1>5
<1>8. /\ n \in S
      /\ \A l \in S : key[l] \in Nat /\ (key[l] < key[call.p] => key[l] <= key[n])
      /\ \A l \in S : key[l] = key[call.p] => l = call.p
  BY <1>1, <1>2, <1>3 DEF Chain
<1>9. ASSUME NEW l \in S, key[l] > key[n]
      PROVE  l # call.blk
  <2>1. ~(key[l] < key[call.p])
    BY <1>8, <1>9
  <2>2. key[l] > key[call.p] \/ l = call.p
    BY <1>2, <1>8, <2>1
  <2> QED
    BY <1>1, <1>2, <2>2
<1>10. Place(mem, F, live, key, freeHead, allocHead, call')
  BY <1>1, <1>5, <1>7, <1>8, <1>9 DEF Place, Finding
<1> QED
  BY <1>1, <1>6, <1>10 DEF Sound

LEMMA FindExpandStarts ==
  ASSUME NEW F, NEW key, Sound(mem, F, live, key, freeHead, allocHead, call), FindExpand
  PROVE  Sound(mem', F, live', key, freeHead', allocHead', call')
<1> DEFINE bytes == 4 * mem[call.p] + call.need
<1>1. /\ mem' = mem /\ freeHead' = freeHead /\ allocHead' = allocHead /\ live' = live
      /\ call.pc = "find" /\ mem[call.p + 1] # Null
      /\ call' = [call EXCEPT !.pc = "fit", !.p = freeHead, !.prev = Null,
                              !.need = SizeNeeded(bytes)]
  BY DEF FindExpand, heads, NextAt, SizeAt, IsLast
<1>2. call \in Calls /\ call.p \in Entries(live)
  BY <1>1 DEF Sound, Place, Finding
<1>3. bytes \in Nat
  <2>1. call.p # 0
    BY <1>1, Sizes DEF Sound, Memory
  <2>2. PICK b \in live : b.at = call.p
    BY <1>2, <2>1 DEF Entries
  <2>3. mem[call.p] \in Nat /\ call.need \in Nat
    BY <1>2, <2>2 DEF Sound, Memory, Layout, BlocksFit, Placed, Calls
  <2> QED
    BY <2>3
<1> HIDE DEF bytes
<1>4. SizeNeeded(bytes) \in Nat /\ SizeNeeded(bytes) >= Header
  BY <1>3, SizeNeededFits
<1>5. freeHead \in Int
  BY MemoryAddresses DEF Sound
<1>6. /\ call' \in Calls /\ call'.pc = "fit" /\ call'.p = freeHead /\ call'.prev = Null
      /\ call'.need = SizeNeeded(bytes)
  <2>1. Null \in Int
    BY Sizes
  <2>2. call' = [pc |-> "fit", fn |-> call.fn, p |-> freeHead, prev |-> Null, blk |-> call.blk,
                 need |-> SizeNeeded(bytes)]
    BY <1>1, <1>2 DEF Calls
  <2> QED
    BY <1>2, <1>4, <1>5, <2>1, <2>2 DEF Calls
<1>7. Memory(mem, F, live, key, freeHead, allocHead, call')
  BY <1>1, <1>6, MemoryWalked DEF Sound, Placed
<1>8. Place(mem, F, live, key, freeHead, allocHead, call')
  BY <1>4, <1>6 DEF Place, Fitting, Cursor
<1> QED
  BY <1>1, <1>7, <1>8 DEF Sound

LEMMA OrderNextWalks ==
  ASSUME NEW F, NEW key, Sound(mem, F, live, key, freeHead, allocHead, call), OrderNext
  PROVE  Sound(mem', F, live', key, freeHead', allocHead', call')
<1>1. /\ mem' = mem /\ freeHead' = freeHead /\ allocHead' = allocHead /\ live' = live
      /\ call.pc = "order" /\ call.p > call.blk
      /\ call' = Moved(mem, call)
  BY DEF OrderNext, heads, NextAt, Before, Moved
<1>2. /\ call \in Calls /\ Cursor(mem, F, freeHead, call)
      /\ \A b \in live : b.at # call.blk
  BY <1>1 DEF Sound, Place, Ordering
<1>3. call.p # Null
  <2>1. [at |-> call.blk, size |-> mem[call.blk]] \in Placed(mem, live, call)
    BY <1>1 DEF Placed
  <2>2. call.blk \in Nat
    BY <2>1, Sizes DEF Sound, Memory, Layout, BlocksFit
  <2> QED
    BY <1>1, <1>2, <2>2, Sizes
<1>4. /\ call.p \in F
      /\ \A c2 : c2.prev = call.p /\ c2.p = mem[call.p + 1] => Cursor(mem, F, freeHead, c2)
  BY <1>2, <1>3, CursorWalks DEF Sound, Memory
<1>5. /\ call' \in Calls /\ call'.pc = call.pc /\ call'.need = call.need /\ call'.blk = call.blk
      /\ call'.prev = call.p /\ call'.p = mem[call.p + 1]
      /\ Placed(mem, live, call') = Placed(mem, live, call)
  <2>1. Memory(mem, F, live, key, freeHead, allocHead, call)
    BY DEF Sound
  <2>2. call \in Calls /\ call.p \in F \cup Entries(live)
    BY <1>2, <1>4
  <2> QED
    BY <1>1, <2>1, <2>2, CallMoves
<1>6. Memory(mem, F, live, key, freeHead, allocHead, call')
  BY <1>1, <1>5, MemoryWalked DEF Sound
<1>7. Cursor(mem, F, freeHead, call')
  BY <1>4, <1>5
<1>8. call'.blk < call'.prev
  BY <1>1, <1>2, <1>5 DEF Calls
<1>9. Place(mem, F, live, key, freeHead, allocHead, call')
  BY <1>1, <1>2, <1>5, <1>7, <1>8 DEF Place, Ordering
<1> QED
  BY <1>1, <1>6, <1>9 DEF Sound

\* Regions that touch below the one that is passed touch below the next as well.
LEMMA MergeNextWalks ==
  ASSUME NEW F, NEW key, Sound(mem, F, live, key, freeHead, allocHead, call), MergeNext
  PROVE  Sound(mem', F, live', key, freeHead', allocHead', call')
<1> DEFINE n == mem[call.p + 1]
<1>1. /\ mem' = mem /\ freeHead' = freeHead /\ allocHead' = allocHead /\ live' = live
      /\ call.pc = "merge" /\ n # Null /\ n + mem[n] # call.p
      /\ call' = Moved(mem, call)
  BY DEF MergeNext, heads, NextAt, SizeAt, Adjacent, Moved
<1>2. call \in Calls /\ call.p \in F
  BY <1>1 DEF Sound, Place, Merging
<1>3. /\ call' \in Calls /\ call'.pc = call.pc /\ call'.prev = call.p /\ call'.p = n
      /\ Placed(mem, live, call') = Placed(mem, live, call)
  <2>1. Memory(mem, F, live, key, freeHead, allocHead, call)
    BY DEF Sound
  <2>2. call \in Calls /\ call.p \in F \cup Entries(live)
    BY <1>2
  <2> QED
    BY <1>1, <2>1, <2>2, CallMoves
<1>4. /\ n \in F /\ n \in Nat /\ n < call.p
      /\ \A g \in F : g \in Nat /\ (g < call.p => g <= n)
  <2>1. \A g \in F : g \in Nat /\ Address[g] = g
    BY MemoryAddresses, Sizes DEF Sound, Address
  <2>2. Chain(mem, F, Address, freeHead)
    BY DEF Sound, Memory
  <2>3. /\ n \in F /\ Address[n] < Address[call.p]
        /\ \A g \in F : Address[g] < Address[call.p] => Address[g] <= Address[n]
    BY <1>1, <1>2, <2>2 DEF Chain
  <2> QED
    BY <1>2, <2>1, <2>3
<1>5. Apart(mem, F, call')
  <2>1. ASSUME NEW f \in F, NEW g \in F, f < g, f + mem[f] = g
        PROVE  g <= n
    <3>1. g <= call.p /\ f \in Nat /\ g \in Nat /\ mem[f] \in Nat
      BY <2>1, MemoryAddresses DEF Sound, Memory, Apart
    <3>2. CASE g = call.p
      <4>1. f <= n /\ f # n /\ n < g
        BY <1>1, <1>4, <2>1, <3>2
      <4>2. f + mem[f] <= n
        BY <1>4, <3>1, <4>1 DEF Sound, Memory, Layout, Disjoint
      <4> QED
        BY <1>4, <2>1, <3>1, <4>1, <4>2
    <3>3. CASE g # call.p
      <4>1. call.p \in Nat /\ g < call.p
        <5>1. call.p \in Nat
          BY <1>2, <1>4
        <5> QED
          BY <3>1, <3>3, <5>1
      <4> QED
        BY <1>4, <4>1
    <3> QED
      BY <3>2, <3>3
  <2> QED
    BY <1>1, <1>3, <2>1 DEF Apart
<1>6. Memory(mem, F, live, key, freeHead, allocHead, call')
  BY <1>3, <1>5, MemoryWalked DEF Sound
<1>7. Place(mem, F, live, key, freeHead, allocHead, call')
  BY <1>1, <1>2, <1>3, <1>4 DEF Place, Merging
<1> QED
  BY <1>1, <1>6, <1>7 DEF Sound

\* At the end of the list no regions touch any more.
LEMMA MergeEnds ==
  ASSUME NEW F, NEW key, Sound(mem, F, live, key, freeHead, allocHead, call), MergeDone
  PROVE  Sound(mem', F, live', key, freeHead', allocHead', call')
<1>1. /\ mem' = mem /\ freeHead' = freeHead /\ allocHead' = allocHead /\ live' = live
      /\ call.pc = "merge" /\ mem[call.p + 1] = Null /\ call' = Idle
  BY DEF MergeDone, heads, NextAt
<1>2. call.p \in F
  BY <1>1 DEF Sound, Place, Merging
<1>3. \A g \in F : g \in Nat /\ Address[g] = g
  BY MemoryAddresses, Sizes DEF Sound, Address
<1>4. \A g \in F : call.p <= g
  <2>1. Null \notin F /\ Chain(mem, F, Address, freeHead)
    BY DEF Sound, Memory, Chain
  <2>2. \A g \in F : Address[call.p] <= Address[g]
    BY <1>1, <1>2, <2>1 DEF Chain
  <2> QED
    BY <1>2, <1>3, <2>2
<1>5. Apart(mem, F, call')
  <2>1. ASSUME NEW f \in F, NEW g \in F, f < g, f + mem[f] = g
        PROVE  FALSE
    <3>1. g <= call.p
      BY <2>1 DEF Sound, Memory, Apart
    <3> QED
      BY <1>2, <1>3, <1>4, <2>1, <3>1
  <2> QED
    BY <2>1 DEF Apart
<1>6. call'.pc = "idle" /\ Placed(mem, live, call') = Placed(mem, live, call)
  BY <1>1 DEF Idle, Placed
<1>7. Memory(mem, F, live, key, freeHead, allocHead, call')
  BY <1>5, <1>6, MemoryWalked DEF Sound
<1>8. call' \in Calls
  BY <1>1, Sizes DEF Idle, Calls
<1>9. Place(mem, F, live, key, freeHead, allocHead, call')
  BY <1>6, <1>8 DEF Place
<1> QED
  BY <1>1, <1>7, <1>9 DEF Sound

----------------------------------------------------------------------------
(* Steps that change the lists.                                            *)

\* The word of a size is never the word of a link.
LEMMA SizesAreNotLinks ==
  ASSUME NEW m, NEW F, NEW B, NEW head, Layout(m, F, B, head)
  PROVE  \A x, y \in F \cup Entries(B) : x # y + 1
<1>1. \A f \in F : f \in Nat /\ f >= 2
  BY Sizes DEF Layout, RegionsFit
<1>2. \A b \in B : b.at \in Nat /\ b.at >= 2
  BY Sizes DEF Layout, BlocksFit
<1>3. ASSUME NEW x \in F, NEW y \in F
      PROVE  x # y + 1
  <2>1. (y < x => y + 2 <= x) /\ x \in Nat /\ y \in Nat
    BY <1>1, HeadersApart, Sizes
  <2> QED
    BY <2>1
<1>4. ASSUME NEW b \in B, NEW y \in F
      PROVE  b.at # y + 1 /\ y # b.at + 1
  <2>1. (b.at + 2 <= y \/ y + 2 <= b.at) /\ b.at \in Nat /\ y \in Nat
    BY <1>1, <1>2, HeadersApart, Sizes
  <2> QED
    BY <2>1
<1>5. ASSUME NEW b \in B, NEW c \in B
      PROVE  b.at # c.at + 1
  <2>1. b # c => (b.at + 2 <= c.at \/ c.at + 2 <= b.at)
    BY HeadersApart, Sizes
  <2>2. b.at \in Nat /\ c.at \in Nat
    BY <1>2
  <2> QED
    BY <2>1, <2>2
<1>6. \A x \in Entries(B) : x = 0 \/ \E b \in B : x = b.at
  BY DEF Entries
<1>7. \A x \in F \cup Entries(B) : x \in Nat /\ x # 1
  BY <1>1, <1>2, <1>6
<1>8. ASSUME NEW x \in F \cup Entries(B), NEW y \in F \cup Entries(B)
      PROVE  x # y + 1
  <2>1. CASE x = 0 \/ y = 0
    BY <1>7, <2>1
  <2>2. CASE x # 0 /\ y # 0
    BY <1>3, <1>4, <1>5, <1>6, <2>2
  <2> QED
    BY <2>1, <2>2
<1> QED
  BY <1>8

\* The block is put on the free list at its place.
LEMMA OrderInserts ==
  ASSUME NEW F, NEW key, Sound(mem, F, live, key, freeHead, allocHead, call), OrderInsert
  PROVE  \E G : Sound(mem', G, live', key, freeHead', allocHead', call')
<1> DEFINE x == call.blk
           r == call.prev
           p == call.p
           G == F \cup {x}
           rec == [at |-> x, size |-> mem[x]]
           E == Entries(live)
<1>1. /\ call.pc = "order" /\ ~(p > x) /\ r # Null
      /\ mem' = [mem EXCEPT ![x + 1] = p, ![r + 1] = x]
      /\ call' = [call EXCEPT !.pc = "merge", !.p = r, !.prev = Null]
      /\ freeHead' = freeHead /\ allocHead' = allocHead /\ live' = live
  BY DEF OrderInsert, heads, Before
<1>2. /\ call \in Calls /\ r \in F /\ mem[r + 1] = p /\ x < r
      /\ \A b \in live : b.at # x
  BY <1>1 DEF Sound, Place, Ordering, Cursor
<1>3. /\ mem \in [0 .. HeapWords - 1 -> Int] /\ mem[1] = Null
      /\ Layout(mem, F, live \cup {rec}, freeHead)
      /\ Chain(mem, F, Address, freeHead) /\ Chain(mem, E, key, allocHead)
      /\ \A f, g \in F : f < g => f + mem[f] # g
  BY <1>1 DEF Sound, Memory, Placed, Apart
<1>4. rec.at = x /\ rec \notin live
  BY <1>2
<1>5. Layout(mem, G, live, freeHead) /\ x \notin F
  BY <1>3, <1>4, LayoutFreed
<1>6. /\ \A f \in G : f \in Nat /\ f \in Header .. Top /\ mem[f] \in Nat /\ Address[f] = f
      /\ \A b \in live : b.at \in Nat
      /\ \A e \in E : e \in Nat
  <2>1. \A f \in G : f \in Nat /\ f \in Header .. Top /\ mem[f] \in Nat
    BY <1>5, Sizes DEF Layout, RegionsFit
  <2>2. \A f \in G : f \in 0 .. HeapWords - 1
    BY <2>1, Sizes
  <2>3. \A b \in live : b.at \in Nat
    BY <1>5, Sizes DEF Layout, BlocksFit
  <2>4. \A f \in G : Address[f] = f
    BY <2>2 DEF Address
  <2>5. \A e \in E : e \in Nat
    BY <2>3 DEF Entries
  <2> QED
    BY <2>1, <2>3, <2>4, <2>5
<1>7. \A s, t \in G \cup E : s # t + 1
  BY <1>5, SizesAreNotLinks
<1> HIDE DEF rec
<1>8. /\ x \in G /\ x \in Nat /\ r \in G /\ r \in Nat /\ p \in Int /\ x # r
      /\ x + 1 \in 0 .. HeapWords - 1 /\ r + 1 \in 0 .. HeapWords - 1
  <2>1. x \in G /\ r \in G
    BY <1>2
  <2>2. x \in Header .. Top /\ r \in Header .. Top /\ x \in Nat /\ r \in Nat
    BY <1>6, <2>1
  <2>3. x + 1 \in 0 .. HeapWords - 1 /\ r + 1 \in 0 .. HeapWords - 1
    BY <2>2, Sizes
  <2>4. p \in Int
    BY <1>2 DEF Calls
  <2> QED
    BY <1>2, <2>1, <2>2, <2>3, <2>4
<1>9. /\ mem'[x + 1] = p /\ mem'[r + 1] = x
      /\ \A w \in 0 .. HeapWords - 1 : w # x + 1 /\ w # r + 1 => mem'[w] = mem[w]
      /\ mem' \in [0 .. HeapWords - 1 -> Int]
  BY <1>1, <1>3, <1>8
<1>10. \A w \in 0 .. Top : w \in 0 .. HeapWords - 1 /\ w + 1 \in 0 .. HeapWords - 1
  BY Sizes
<1>11. \A f \in G \cup E : f \in 0 .. Top
  <2>1. \A b \in live : b.at \in Header .. Top
    BY <1>5 DEF Layout, BlocksFit
  <2> QED
    BY <1>6, <2>1, Sizes DEF Entries
<1>12. \A f \in G \cup E : mem'[f] = mem[f]
  BY <1>7, <1>8, <1>9, <1>10, <1>11
<1>13. ASSUME NEW f \in G \cup E, f # x, f # r
       PROVE  mem'[f + 1] = mem[f + 1]
  <2>1. f + 1 \in 0 .. HeapWords - 1 /\ f \in Nat
    BY <1>6, <1>10, <1>11
  <2>2. f + 1 # x + 1 /\ f + 1 # r + 1
    BY <1>8, <1>13, <2>1
  <2> QED
    BY <1>9, <2>1, <2>2
<1>14. x \notin E /\ \A f \in F : f \notin E
  <2>1. x # 0 /\ \A f \in F : f # 0
    BY <1>6, Sizes
  <2>2. \A b \in live, f \in F : b.at # f
    <3>1. \A b \in live, f \in F : b.at + 2 <= f \/ f + 2 <= b.at
      BY <1>5, HeadersApart, Sizes
    <3> QED
      BY <1>6, <3>1
  <2> QED
    BY <1>2, <2>1, <2>2 DEF Entries
<1>15. mem'[1] = Null
  <2>1. 0 \in E
    BY DEF Entries
  <2>2. 0 + 1 = 1
    OBVIOUS
  <2> QED
    BY <1>2, <1>3, <1>13, <1>14, <2>1, <2>2
<1>16. Layout(mem', G, live, freeHead)
  <2>1. \A b \in live : b.at \in E
    BY DEF Entries
  <2> QED
    BY <1>5, <1>12, <2>1, LayoutKept
<1>17. Chain(mem', G, Address, freeHead)
  <2>1. p # Null => p \in F /\ p # x
    BY <1>2, <1>3, <1>5, ChainTypes
  <2>2. mem[r + 1] # Null => Address[mem[r + 1]] < Address[x]
    BY <1>1, <1>2, <1>6, <1>8, <2>1
  <2>3. Address[x] \in Nat /\ Address[x] < Address[r] /\ x # Null
    BY <1>2, <1>6, <1>8, Sizes
  <2>4. \A s \in F \ {r} : mem'[s + 1] = mem[s + 1]
    BY <1>5, <1>13
  <2>5. mem'[x + 1] = mem[r + 1] /\ mem'[r + 1] = x
    BY <1>2, <1>9
  <2> HIDE DEF x, r
  <2> QED
    BY <1>2, <1>3, <1>5, <2>2, <2>3, <2>4, <2>5, ChainInsert
<1>18. Chain(mem', E, key, allocHead)
  <2>1. \A s \in E : mem'[s + 1] = mem[s + 1]
    BY <1>2, <1>13, <1>14
  <2> QED
    BY <1>3, <2>1, ChainKept
<1>19. /\ call' \in Calls /\ call'.pc = "merge" /\ call'.p = r /\ call'.prev = Null
  <2>1. call' = [pc |-> "merge", fn |-> call.fn, p |-> r, prev |-> Null, blk |-> call.blk,
                 need |-> call.need]
    BY <1>1, <1>2 DEF Calls
  <2>2. Null \in Int
    BY Sizes
  <2> QED
    BY <1>2, <1>8, <2>1, <2>2 DEF Calls
<1>20. Apart(mem', G, call')
  <2>1. ASSUME NEW f \in G, NEW g \in G, f < g, f + mem'[f] = g
        PROVE  g <= r
    <3>1. mem'[f] = mem[f]
      BY <1>12
    <3>2. CASE g = x
      BY <1>2, <1>8, <3>2
    <3>3. CASE f = x /\ g \in F
      <4>1. x + mem[x] <= r
        BY <1>2, <1>5, <1>8 DEF Layout, Disjoint
      <4> QED
        BY <2>1, <3>1, <3>3, <4>1
    <3>4. CASE f \in F /\ g \in F
      BY <1>3, <2>1, <3>1, <3>4
    <3> QED
      BY <3>2, <3>3, <3>4
  <2> QED
    BY <1>19, <2>1 DEF Apart
<1>21. Memory(mem', G, live, key, freeHead, allocHead, call')
  <2>1. Placed(mem', live, call') = live
    BY <1>19 DEF Placed
  <2> QED
    BY <1>9, <1>15, <1>16, <1>17, <1>18, <1>20, <2>1 DEF Memory
<1>22. Place(mem', G, live, key, freeHead, allocHead, call')
  BY <1>8, <1>19 DEF Place, Merging
<1> QED
  BY <1>1, <1>21, <1>22 DEF Sound

\* The link from r to x is made to point to y, or x is the first and no link is changed.
Redirected(m, S, head, x, r, y, m2) ==
  /\ r \notin S => x = head
  /\ r \in S => m[r + 1] = x /\ m2[r + 1] = y
  /\ \A s \in S \ {x} : s # r => m2[s + 1] = m[s + 1]

\* Then no other link to x is left.
LEMMA ChainRedirected ==
  ASSUME NEW m, NEW S, NEW key, NEW head, Chain(m, S, key, head),
         NEW x \in S, NEW r, NEW y, NEW m2, Redirected(m, S, head, x, r, y, m2)
  PROVE  /\ x = head <=> r \notin S
         /\ \A s \in S \ {x} : m2[s + 1] = IF m[s + 1] = x THEN y ELSE m[s + 1]
<1>1. /\ \A s \in S : key[s] \in Nat /\ key[s] <= key[head] /\ s # Null
      /\ \A s \in S : m[s + 1] # Null => key[m[s + 1]] < key[s]
  BY ChainTypes
<1>2. \A s \in S : m[s + 1] = x => x # head /\ r \in S /\ s = r
  <2>1. ASSUME NEW s \in S, m[s + 1] = x
        PROVE  x # head /\ r \in S /\ s = r
    <3>1. key[x] < key[s] /\ key[s] <= key[head] /\ key[x] \in Nat /\ key[s] \in Nat
      BY <1>1, <2>1
    <3>2. x # head
      BY <1>1, <3>1
    <3>3. r \in S /\ m[r + 1] = m[s + 1]
      BY <2>1, <3>2 DEF Redirected
    <3> QED
      BY <3>2, <3>3, ChainOneBefore
  <2> QED
    BY <2>1
<1> QED
  BY <1>2 DEF Redirected

\* The block is taken off the list of allocations.
LEMMA FindRemoves ==
  ASSUME NEW F, NEW key, Sound(mem, F, live, key, freeHead, allocHead, call), FindRemove
  PROVE  Sound(mem', F, live', key, freeHead', allocHead', call')
<1> DEFINE x == call.p
           r == call.prev
           n == mem[x + 1]
           E == Entries(live)
           rec == [at |-> x, size |-> mem[x]]
<1>1. /\ call.pc = "find" /\ x = call.blk /\ n # Null
      /\ r = Null => allocHead' = n /\ mem' = mem
      /\ r # Null => mem' = [mem EXCEPT ![r + 1] = n] /\ allocHead' = allocHead
      /\ live' = {b \in live : b.at # x}
      /\ call' = [call EXCEPT !.pc = "order", !.p = freeHead, !.prev = Null]
      /\ freeHead' = freeHead
  BY DEF FindRemove, IsLast, NextAt
<1>2. call \in Calls /\ x \in E /\ Cursor(mem, E, allocHead, call)
  BY <1>1 DEF Sound, Place, Finding
<1>3. /\ mem \in [0 .. HeapWords - 1 -> Int] /\ mem[1] = Null
      /\ Layout(mem, F, live, freeHead)
      /\ Chain(mem, F, Address, freeHead) /\ Chain(mem, E, key, allocHead)
      /\ \A f, g \in F : f < g => f + mem[f] # g
  BY <1>1 DEF Sound, Memory, Placed, Apart
<1>4. /\ Null \notin E
      /\ \A e \in E : e \in Nat /\ e \in 0 .. Top /\ e + 1 \in 0 .. HeapWords - 1
      /\ \A f \in F : f \in Nat /\ f \in 0 .. Top /\ f + 1 \in 0 .. HeapWords - 1 /\ f # 0
      /\ freeHead \in F /\ \A b \in live : b.at \in E
  <2>1. \A e \in E : e \in Nat /\ e \in 0 .. Top
    BY MemoryAddresses DEF Sound
  <2>2. \A f \in F : f \in Nat /\ f \in 0 .. Top /\ f # 0
    BY MemoryAddresses, Sizes DEF Sound
  <2>3. \A w \in 0 .. Top : w + 1 \in 0 .. HeapWords - 1
    BY Sizes
  <2>4. freeHead \in F /\ Null \notin E
    BY <1>3 DEF Chain
  <2> QED
    BY <2>1, <2>2, <2>3, <2>4 DEF Entries
<1>5. x # 0
  BY <1>1, <1>3
<1>6. rec \in live /\ \A b \in live : b.at = x => b = rec
  <2>1. PICK b \in live : b.at = x
    BY <1>2, <1>5 DEF Entries
  <2>2. \A c \in live : c.at = x => c = rec
    BY <1>3 DEF Layout, BlocksFit
  <2> QED
    BY <2>1, <2>2
<1>7. live' \cup {rec} = live /\ rec.at = x /\ rec \notin live'
  BY <1>1, <1>6
<1> HIDE DEF rec
<1>8. Entries(live') = E \ {x}
  BY <1>1, <1>5 DEF Entries
<1>9. /\ r # Null => r \in E /\ mem[r + 1] = x
      /\ r = Null => x = allocHead
  BY <1>2, <1>4 DEF Cursor
<1>10. n \in Int
  BY <1>2, <1>3, <1>4
<1>11. /\ mem' \in [0 .. HeapWords - 1 -> Int]
       /\ r # Null => mem'[r + 1] = n
       /\ \A w \in 0 .. HeapWords - 1 : (r # Null => w # r + 1) => mem'[w] = mem[w]
  BY <1>1, <1>3, <1>4, <1>9, <1>10
<1>12. \A f \in F \cup E : mem'[f] = mem[f]
  <2>1. \A s, t \in F \cup E : s # t + 1
    BY <1>3, SizesAreNotLinks
  <2>2. \A f \in F \cup E : f \in 0 .. HeapWords - 1
    BY <1>4, Sizes
  <2> QED
    BY <1>9, <1>11, <2>1, <2>2
<1>13. \A f \in F : f \notin E
  <2>1. \A b \in live, f \in F : b.at + 2 <= f \/ f + 2 <= b.at
    BY <1>3, HeadersApart, Sizes
  <2> QED
    BY <1>4, <2>1 DEF Entries
<1>14. \A f \in F : mem'[f + 1] = mem[f + 1]
  <2>1. ASSUME NEW f \in F
        PROVE  r # Null => f + 1 # r + 1
    <3>1. r # Null => r \in Nat /\ f # r
      BY <1>4, <1>9, <1>13
    <3> QED
      BY <1>4, <3>1
  <2> QED
    BY <1>4, <1>11, <2>1
<1>15. \A s \in E : s # r => mem'[s + 1] = mem[s + 1]
  <2>1. ASSUME NEW s \in E, s # r
        PROVE  r # Null => s + 1 # r + 1
    <3>1. r # Null => r \in Nat
      BY <1>4, <1>9
    <3> QED
      BY <1>4, <2>1, <3>1
  <2> QED
    BY <1>4, <1>11, <2>1
<1>16. /\ x = allocHead <=> r \notin E
       /\ \A s \in E \ {x} : mem'[s + 1] = IF mem[s + 1] = x THEN n ELSE mem[s + 1]
  <2>1. r \notin E => x = allocHead
    BY <1>9
  <2>2. r \in E => mem[r + 1] = x /\ mem'[r + 1] = n
    BY <1>4, <1>9, <1>11
  <2>3. \A s \in E \ {x} : s # r => mem'[s + 1] = mem[s + 1]
    BY <1>15
  <2>4. Redirected(mem, E, allocHead, x, r, n, mem')
    BY <2>1, <2>2, <2>3 DEF Redirected
  <2>5. Chain(mem, E, key, allocHead) /\ x \in E
    BY <1>2, <1>3
  <2> HIDE DEF x, r, n, E
  <2> QED
    BY <2>4, <2>5, ChainRedirected
<1>17. Chain(mem', E \ {x}, key, allocHead')
  <2>1. allocHead' = IF x = allocHead THEN n ELSE allocHead
    BY <1>1, <1>4, <1>9, <1>16
  <2> HIDE DEF x, E
  <2>2. Chain(mem', E \ {x}, key, IF x = allocHead THEN mem[x + 1] ELSE allocHead)
    BY <1>1, <1>2, <1>3, <1>16, ChainUnlink
  <2> QED
    BY <2>1, <2>2
<1>18. Chain(mem', F, Address, freeHead)
  BY <1>3, <1>14, ChainKept
<1>19. Layout(mem', F, live, freeHead)
  BY <1>3, <1>4, <1>12, LayoutKept
<1>20. mem'[1] = Null
  <2>1. 0 \in E /\ 0 + 1 = 1
    BY DEF Entries
  <2>2. r # 0
    <3>1. SUFFICES ASSUME r = 0 PROVE FALSE
      OBVIOUS
    <3>2. mem[1] = x /\ x # Null
      BY <1>2, <1>4, <1>9, <2>1, <3>1, Sizes
    <3> QED
      BY <1>3, <3>2
  <2> QED
    BY <1>3, <1>15, <2>1, <2>2
<1>21. /\ call' \in Calls /\ call'.pc = "order" /\ call'.p = freeHead /\ call'.prev = Null
       /\ call'.blk = x
  <2>1. call' = [pc |-> "order", fn |-> call.fn, p |-> freeHead, prev |-> Null, blk |-> call.blk,
                 need |-> call.need]
    BY <1>1, <1>2 DEF Calls
  <2>2. Null \in Int /\ freeHead \in Int
    BY <1>4, Sizes
  <2> QED
    BY <1>1, <1>2, <2>1, <2>2 DEF Calls
<1>22. Placed(mem', live', call') = live
  <2>1. [at |-> call'.blk, size |-> mem'[call'.blk]] = rec
    BY <1>2, <1>12, <1>21 DEF rec
  <2> QED
    BY <1>7, <1>21, <2>1 DEF Placed
<1>23. Apart(mem', F, call')
  BY <1>3, <1>12 DEF Apart
<1>24. Memory(mem', F, live', key, freeHead, allocHead', call')
  BY <1>8, <1>11, <1>17, <1>18, <1>19, <1>20, <1>22, <1>23 DEF Memory
<1>25. Place(mem', F, live', key, freeHead, allocHead', call')
  <2>1. \A b \in live' : b.at # call'.blk
    BY <1>1, <1>21
  <2> QED
    BY <1>21, <2>1 DEF Place, Ordering, Cursor
<1> QED
  BY <1>1, <1>24, <1>25 DEF Sound

\* Two regions that touch become one, when the region before them is known or the
\* upper one is the head.
LEMMA MergeJoins ==
  ASSUME NEW F, NEW key, Sound(mem, F, live, key, freeHead, allocHead, call),
         Merge, damage' = "none"
  PROVE  \E G : Sound(mem', G, live', key, freeHead', allocHead', call')
<1> DEFINE p == call.p
           r == call.prev
           n == mem[p + 1]
           sum == mem[n] + mem[p]
           G == F \ {p}
           E == Entries(live)
<1>1. /\ call.pc = "merge" /\ n # Null /\ n + mem[n] = p
      /\ r = Null => p = freeHead
      /\ r = Null => mem' = [mem EXCEPT ![n] = sum]
      /\ r # Null => mem' = [[mem EXCEPT ![n] = sum] EXCEPT ![r + 1] = n]
      /\ freeHead' = IF p = freeHead THEN n ELSE freeHead
      /\ call' = [call EXCEPT !.p = n]
      /\ allocHead' = allocHead /\ live' = live
  BY DEF Merge, NextAt, SizeAt, Adjacent, Joined
<1>2. /\ call \in Calls /\ p \in F
      /\ r # Null => r \in F /\ mem[r + 1] = p
  BY <1>1 DEF Sound, Place, Merging
<1>3. /\ mem \in [0 .. HeapWords - 1 -> Int] /\ mem[1] = Null
      /\ Layout(mem, F, live, freeHead)
      /\ Chain(mem, F, Address, freeHead) /\ Chain(mem, E, key, allocHead)
      /\ \A f, g \in F : f < g /\ f + mem[f] = g => g <= p
  BY <1>1 DEF Sound, Memory, Placed, Apart
<1>4. /\ Null \notin F
      /\ \A e \in E : e \in Nat /\ e \in 0 .. Top /\ e + 1 \in 0 .. HeapWords - 1
      /\ \A f \in F : /\ f \in Nat /\ f >= 2 /\ f \in 0 .. Top /\ f + 1 \in 0 .. HeapWords - 1
                      /\ mem[f] \in Nat /\ Address[f] = f
      /\ \A b \in live : b.at \in E
  <2>1. \A e \in E : e \in Nat /\ e \in 0 .. Top
    BY MemoryAddresses DEF Sound
  <2>2. \A f \in F : f \in Nat /\ f \in 0 .. Top /\ f >= 2 /\ mem[f] \in Nat
    BY MemoryAddresses, Sizes DEF Sound
  <2>3. \A w \in 0 .. Top : w + 1 \in 0 .. HeapWords - 1 /\ Address[w] = w
    BY Sizes DEF Address
  <2>4. Null \notin F
    BY <1>3 DEF Chain
  <2> QED
    BY <2>1, <2>2, <2>3, <2>4 DEF Entries
<1>5. /\ n \in F /\ n < p /\ \A g \in F : g < p => g <= n
  <2>1. /\ n \in F /\ Address[n] < Address[p]
        /\ \A g \in F : Address[g] < Address[p] => Address[g] <= Address[n]
    BY <1>1, <1>2, <1>3 DEF Chain
  <2> QED
    BY <1>2, <1>4, <2>1
<1>6. r # Null => p < r
  <2>1. r # Null => Address[p] < Address[r]
    BY <1>2, <1>3, <1>4, ChainTypes
  <2> QED
    BY <1>2, <1>4, <2>1
<1>7. /\ n \in Nat /\ n \in 0 .. HeapWords - 1 /\ sum \in Nat
      /\ r # Null => r + 1 \in 0 .. HeapWords - 1 /\ r \in Nat /\ r + 1 # n
  <2>1. n \in Nat /\ n \in 0 .. HeapWords - 1 /\ sum \in Nat
    BY <1>2, <1>4, <1>5, Sizes
  <2>2. r # Null => r + 1 \in 0 .. HeapWords - 1 /\ r \in Nat
    BY <1>2, <1>4
  <2> QED
    BY <1>2, <1>4, <1>5, <1>6, <2>1, <2>2
<1> HIDE DEF sum
<1>8. /\ mem' \in [0 .. HeapWords - 1 -> Int] /\ mem'[n] = sum
      /\ r # Null => mem'[r + 1] = n
      /\ \A w \in 0 .. HeapWords - 1 : w # n /\ (r # Null => w # r + 1) => mem'[w] = mem[w]
  <2>1. CASE r = Null
    BY <1>1, <1>3, <1>7, <2>1
  <2>2. CASE r # Null
    <3> DEFINE m1 == [mem EXCEPT ![n] = sum]
    <3>1. /\ m1 \in [0 .. HeapWords - 1 -> Int] /\ m1[n] = sum
          /\ \A w \in 0 .. HeapWords - 1 : w # n => m1[w] = mem[w]
      BY <1>3, <1>7
    <3>2. mem' = [m1 EXCEPT ![r + 1] = n]
      BY <1>1, <2>2
    <3> HIDE DEF m1
    <3> QED
      BY <1>7, <2>2, <3>1, <3>2
  <2> QED
    BY <2>1, <2>2
<1>9. \A s, t \in F \cup E : s # t + 1
  BY <1>3, SizesAreNotLinks
<1>10. \A f \in F : f \notin E
  <2>1. \A b \in live, f \in F : b.at + 2 <= f \/ f + 2 <= b.at
    BY <1>3, HeadersApart, Sizes
  <2> QED
    BY <1>4, <2>1 DEF Entries
<1>11. ASSUME NEW f \in F \cup E, f # n
       PROVE  mem'[f] = mem[f]
  <2>1. f \in 0 .. HeapWords - 1 /\ (r # Null => f # r + 1)
    BY <1>2, <1>4, <1>9, Sizes
  <2> QED
    BY <1>8, <1>11, <2>1
<1>12. ASSUME NEW f \in F \cup E, r # Null => f # r
       PROVE  mem'[f + 1] = mem[f + 1]
  <2>1. f + 1 \in 0 .. HeapWords - 1 /\ f + 1 # n
    BY <1>4, <1>5, <1>9
  <2>2. r # Null => f + 1 # r + 1
    BY <1>4, <1>7, <1>12
  <2> QED
    BY <1>8, <2>1, <2>2
<1>13. mem'[1] = Null
  <2>1. 0 \in E /\ 0 + 1 = 1
    BY DEF Entries
  <2>2. r # Null => 0 # r
    BY <1>2, <1>4
  <2> QED
    BY <1>3, <1>12, <2>1, <2>2
<1>14. Layout(mem', G, live, freeHead')
  <2>1. mem'[n] = mem[n] + mem[p]
    BY <1>8 DEF sum
  <2>2. \A f \in F \ {n, p} : mem'[f] = mem[f]
    BY <1>11
  <2>3. \A b \in live : mem'[b.at] = mem[b.at]
    BY <1>4, <1>5, <1>10, <1>11
  <2>4. n # p
    BY <1>2, <1>4, <1>5
  <2>5. n + mem[n] = p /\ p \in F /\ n \in F /\ Layout(mem, F, live, freeHead)
    BY <1>1, <1>2, <1>3, <1>5
  <2> HIDE DEF n, p
  <2>6. Layout(mem', F \ {p}, live, IF p = freeHead THEN n ELSE freeHead)
    BY <2>1, <2>2, <2>3, <2>4, <2>5, LayoutMerged
  <2> QED
    BY <1>1, <2>6 DEF n
<1>15. Chain(mem', G, Address, freeHead')
  <2>1. r \notin F => p = freeHead
    BY <1>1, <1>2
  <2>2. r \in F => mem[r + 1] = p /\ mem'[r + 1] = n
    BY <1>2, <1>4, <1>8
  <2>3. \A s \in F \ {p} : s # r => mem'[s + 1] = mem[s + 1]
    BY <1>12
  <2>4. Redirected(mem, F, freeHead, p, r, n, mem')
    BY <2>1, <2>2, <2>3 DEF Redirected
  <2>5. Chain(mem, F, Address, freeHead) /\ p \in F /\ mem[p + 1] # Null
    BY <1>1, <1>2, <1>3
  <2> HIDE DEF p, r, n
  <2>6. \A s \in F \ {p} : mem'[s + 1] = IF mem[s + 1] = p THEN n ELSE mem[s + 1]
    BY <2>4, <2>5, ChainRedirected
  <2>7. \A s \in F \ {p} : mem'[s + 1] = IF mem[s + 1] = p THEN mem[p + 1] ELSE mem[s + 1]
    BY <2>6 DEF n
  <2>8. Chain(mem', F \ {p}, Address, IF p = freeHead THEN mem[p + 1] ELSE freeHead)
    BY <2>5, <2>7, ChainUnlink
  <2> QED
    BY <1>1, <2>8 DEF n
<1>16. Chain(mem', E, key, allocHead)
  <2>1. \A s \in E : mem'[s + 1] = mem[s + 1]
    BY <1>2, <1>10, <1>12
  <2> QED
    BY <1>3, <2>1, ChainKept
<1>17. /\ call' \in Calls /\ call'.pc = "merge" /\ call'.p = n /\ call'.prev = r
  <2>1. call' = [pc |-> "merge", fn |-> call.fn, p |-> n, prev |-> r, blk |-> call.blk,
                 need |-> call.need]
    BY <1>1, <1>2 DEF Calls
  <2> QED
    BY <1>2, <1>7, <2>1 DEF Calls
<1>18. Apart(mem', G, call')
  <2>1. ASSUME NEW f \in G, NEW g \in G, f < g, f + mem'[f] = g
        PROVE  g <= n
    <3>1. f \in F /\ g \in F /\ g # p /\ f # p
      OBVIOUS
    <3>2. CASE f = n
      <4>1. p + mem[p] = g
        <5>1. n + (mem[n] + mem[p]) = g
          BY <1>8, <2>1, <3>2 DEF sum
        <5>2. n + mem[n] = p /\ n \in Nat /\ mem[n] \in Nat /\ mem[p] \in Nat
          BY <1>1, <1>2, <1>4, <1>5
        <5> HIDE DEF n, p
        <5> QED
          BY <5>1, <5>2
      <4>2. p < g
        BY <1>2, <1>4, <1>5, <2>1, <3>1, <3>2
      <4>3. g <= p
        BY <1>2, <1>3, <3>1, <4>1, <4>2
      <4> QED
        BY <1>2, <1>4, <3>1, <4>2, <4>3
    <3>3. CASE f # n
      <4>1. f + mem[f] = g
        BY <1>11, <2>1, <3>1, <3>3
      <4>2. g <= p
        BY <1>3, <2>1, <3>1, <4>1
      <4> QED
        BY <1>2, <1>4, <1>5, <3>1, <4>2
    <3> QED
      BY <3>2, <3>3
  <2> QED
    BY <1>17, <2>1 DEF Apart
<1>19. Memory(mem', G, live, key, freeHead', allocHead, call')
  <2>1. Placed(mem', live, call') = live
    BY <1>17 DEF Placed
  <2> QED
    BY <1>8, <1>13, <1>14, <1>15, <1>16, <1>18, <2>1 DEF Memory
<1>20. Place(mem', G, live, key, freeHead', allocHead, call')
  <2>1. n \in G
    BY <1>2, <1>4, <1>5
  <2>2. r # Null => r \in G /\ mem'[r + 1] = n
    BY <1>2, <1>4, <1>6, <1>8
  <2> QED
    BY <1>17, <2>1, <2>2 DEF Place, Merging
<1> QED
  BY <1>1, <1>19, <1>20 DEF Sound

\* The words of the heap after FitTake: p and q are the headers of the block and of
\* what is left of the region, r + 1 the link that led to the region.
TakenWords(m, p, q, r, fh, need, ah) ==
  LET m1 == [m EXCEPT ![q] = m[p] - need]
      m2 == IF p = fh THEN m1 ELSE [m1 EXCEPT ![r + 1] = q]
      m3 == [m2 EXCEPT ![q + 1] = m2[p + 1], ![p] = need, ![p + 1] = ah]
  IN  [w \in DOMAIN m |-> IF w \in p + Header .. q - 1 THEN 0 ELSE m3[w]]

\* The addresses that lie so that no word is written twice.
TakesApart(m, p, q, r, fh, need, ah) ==
  /\ m \in [0 .. HeapWords - 1 -> Int] /\ need \in Int /\ ah \in Int
  /\ p \in Nat /\ q \in Nat /\ p + 2 <= q /\ q + 1 \in 0 .. HeapWords - 1
  /\ p # fh => r \in Nat /\ r + 1 \in 0 .. HeapWords - 1 /\ (r + 1 < p \/ q + 2 <= r)

LEMMA WordsTaken ==
  ASSUME NEW m, NEW p, NEW q, NEW r, NEW fh, NEW need, NEW ah,
         TakesApart(m, p, q, r, fh, need, ah)
  PROVE  LET m2 == TakenWords(m, p, q, r, fh, need, ah)
         IN  /\ m2 \in [0 .. HeapWords - 1 -> Int]
             /\ m2[p] = need /\ m2[p + 1] = ah /\ m2[q] = m[p] - need /\ m2[q + 1] = m[p + 1]
             /\ p # fh => m2[r + 1] = q
             /\ \A w \in 0 .. HeapWords - 1 :
                  (w < p \/ q + 2 <= w) /\ (p # fh => w # r + 1) => m2[w] = m[w]
<1> DEFINE D == 0 .. HeapWords - 1
           a1 == [m EXCEPT ![q] = m[p] - need]
           a2 == IF p = fh THEN a1 ELSE [a1 EXCEPT ![r + 1] = q]
           b1 == [a2 EXCEPT ![q + 1] = a2[p + 1]]
           b2 == [b1 EXCEPT ![p] = need]
           a3 == [b2 EXCEPT ![p + 1] = ah]
           a4 == TakenWords(m, p, q, r, fh, need, ah)
<1>0. /\ m \in [0 .. HeapWords - 1 -> Int] /\ need \in Int /\ ah \in Int
      /\ p \in Nat /\ q \in Nat /\ p + 2 <= q /\ q + 1 \in 0 .. HeapWords - 1
      /\ p # fh => r \in Nat /\ r + 1 \in 0 .. HeapWords - 1 /\ (r + 1 < p \/ q + 2 <= r)
  BY DEF TakesApart
<1>1. /\ p \in D /\ p + 1 \in D /\ q \in D /\ q + 1 \in D
      /\ p # q /\ p + 1 # q /\ p # q + 1 /\ p + 1 # q + 1 /\ q # q + 1 /\ p # p + 1
      /\ p # fh => r + 1 # p /\ r + 1 # p + 1 /\ r + 1 # q /\ r + 1 # q + 1 /\ r + 1 \in D
  BY <1>0, Sizes
<1>2. /\ a1 \in [D -> Int] /\ a1[q] = m[p] - need
      /\ \A w \in D : w # q => a1[w] = m[w]
  BY <1>0, <1>1
<1> HIDE DEF a1
<1>3. /\ a2 \in [D -> Int] /\ a2[q] = m[p] - need
      /\ p # fh => a2[r + 1] = q
      /\ \A w \in D : w # q /\ (p # fh => w # r + 1) => a2[w] = m[w]
  <2>1. CASE p = fh
    BY <1>0, <1>1, <1>2, <2>1
  <2>2. CASE p # fh
    BY <1>0, <1>1, <1>2, <2>2
  <2> QED
    BY <2>1, <2>2
<1>4. a4 = [w \in D |-> IF w \in p + Header .. q - 1 THEN 0 ELSE a3[w]]
  BY <1>0 DEF TakenWords, a1
<1> HIDE DEF a2
<1>5. a2[p + 1] = m[p + 1] /\ a2[p + 1] \in Int
  BY <1>0, <1>1, <1>3
<1>6. /\ b1 \in [D -> Int] /\ b1[q + 1] = m[p + 1]
      /\ \A w \in D : w # q + 1 => b1[w] = a2[w]
  BY <1>1, <1>3, <1>5
<1> HIDE DEF b1
<1>7. /\ b2 \in [D -> Int] /\ b2[p] = need
      /\ \A w \in D : w # p => b2[w] = b1[w]
  BY <1>0, <1>1, <1>6
<1> HIDE DEF b2
<1>8. /\ a3 \in [D -> Int] /\ a3[p + 1] = ah
      /\ \A w \in D : w # p + 1 => a3[w] = b2[w]
  BY <1>0, <1>1, <1>7
<1> HIDE DEF a3, a4
<1>9. /\ a4 \in [D -> Int]
      /\ \A w \in D : w \notin p + Header .. q - 1 => a4[w] = a3[w]
  BY <1>4, <1>8
<1>10. /\ p \notin p + Header .. q - 1 /\ p + 1 \notin p + Header .. q - 1
       /\ q \notin p + Header .. q - 1 /\ q + 1 \notin p + Header .. q - 1
       /\ p # fh => r + 1 \notin p + Header .. q - 1
       /\ \A w \in D : w < p \/ q + 2 <= w => w \notin p + Header .. q - 1
  BY <1>0, Sizes
<1>11. a4[p] = need /\ a4[p + 1] = ah
  BY <1>1, <1>7, <1>8, <1>9, <1>10
<1>12. a4[q] = m[p] - need /\ a4[q + 1] = m[p + 1]
  BY <1>1, <1>3, <1>6, <1>7, <1>8, <1>9, <1>10
<1>13. p # fh => a4[r + 1] = q
  BY <1>1, <1>3, <1>6, <1>7, <1>8, <1>9, <1>10
<1>14. ASSUME NEW w \in D, w < p \/ q + 2 <= w, p # fh => w # r + 1
       PROVE  a4[w] = m[w]
  <2>1. w # p /\ w # p + 1 /\ w # q /\ w # q + 1
    BY <1>0, <1>14
  <2>2. a4[w] = a3[w]
    BY <1>9, <1>10, <1>14
  <2> QED
    BY <1>3, <1>6, <1>7, <1>8, <1>14, <2>1, <2>2
<1> QED
  BY <1>9, <1>11, <1>12, <1>13, <1>14 DEF a4

\* A region that fits is cut, and its lower part becomes a block.
LEMMA FitTakes ==
  ASSUME NEW F, NEW key, Sound(mem, F, live, key, freeHead, allocHead, call),
         FitTake, damage = "none", damage' = "none"
  PROVE  \E G, key2 : Sound(mem', G, live', key2, freeHead', allocHead', call')
<1> DEFINE p == call.p
           r == call.prev
           need == call.need
           q == p + need
           rec == [at |-> p, size |-> need]
           G == (F \ {p}) \cup {q}
           E == Entries(live)
           E2 == E \cup {p}
           key2 == [e \in E2 |-> IF e = p THEN key[allocHead] + 1 ELSE key[e]]
<1>1. /\ call.pc = "fit" /\ p # Null /\ mem[p] >= need
      /\ mem' = TakenWords(mem, p, q, r, freeHead, need, allocHead)
      /\ freeHead' = IF p = freeHead THEN q ELSE freeHead
      /\ allocHead' = p
      /\ live' = live \cup {rec}
      /\ \A b \in live : WordsOf(b) \cap (p .. p + need + Header - 1) = {}
      /\ call' = IF call.fn = "alloc" THEN Idle
                 ELSE [call EXCEPT !.pc = "find", !.fn = "free", !.p = p, !.prev = Null]
  BY DEF FitTake, Fits, SizeAt, TakenWords, Spills
<1>2. /\ call \in Calls /\ need \in Nat /\ need >= 2 /\ Cursor(mem, F, freeHead, call)
  BY <1>1, Sizes DEF Sound, Place, Fitting, Calls
<1>3. /\ mem \in [0 .. HeapWords - 1 -> Int] /\ mem[1] = Null
      /\ Layout(mem, F, live, freeHead)
      /\ Chain(mem, F, Address, freeHead) /\ Chain(mem, E, key, allocHead)
      /\ \A f, g \in F : f < g => f + mem[f] # g
  BY <1>1 DEF Sound, Memory, Placed, Apart
<1>4. p \in F
  BY <1>1, <1>2, <1>3, CursorWalks
<1>5. /\ \A e \in E : e \in Nat /\ e \in 0 .. Top /\ e + 1 \in 0 .. HeapWords - 1
      /\ \A f \in F : /\ f \in Nat /\ f >= 2 /\ f \in 0 .. Top /\ f + 1 \in 0 .. HeapWords - 1
                      /\ mem[f] \in Nat /\ f + mem[f] <= Top
      /\ \A w \in 0 .. Top : Address[w] = w /\ w + 1 \in 0 .. HeapWords - 1
      /\ freeHead \in F /\ allocHead \in E /\ \A b \in live : b.at \in E
  <2>1. \A e \in E : e \in Nat /\ e \in 0 .. Top
    BY MemoryAddresses DEF Sound
  <2>2. \A f \in F : f \in Nat /\ f \in 0 .. Top /\ f >= 2 /\ mem[f] \in Nat
    BY MemoryAddresses, Sizes DEF Sound
  <2>3. \A w \in 0 .. Top : w + 1 \in 0 .. HeapWords - 1 /\ Address[w] = w
    BY Sizes DEF Address
  <2>4. freeHead \in F /\ allocHead \in E
    BY MemoryAddresses DEF Sound
  <2>5. \A f \in F : f + mem[f] <= Top
    BY <1>3 DEF Layout, RegionsFit
  <2> QED
    BY <2>1, <2>2, <2>3, <2>4, <2>5 DEF Entries
<1>6. /\ p \in Nat /\ q \in Nat /\ p + 2 <= q /\ q <= p + mem[p] /\ q \in 0 .. Top
      /\ q + 1 \in 0 .. HeapWords - 1 /\ p \in 0 .. Top /\ mem[p] \in Nat /\ p >= 2
  <2>1. p \in Nat /\ mem[p] \in Nat /\ p + mem[p] <= Top /\ p >= 2 /\ p \in 0 .. Top
    BY <1>4, <1>5
  <2>2. q \in Nat /\ p + 2 <= q /\ q <= p + mem[p]
    BY <1>1, <1>2, <2>1
  <2>3. q \in 0 .. Top
    BY <2>1, <2>2, Sizes
  <2>4. q + 1 \in 0 .. HeapWords - 1
    BY <1>5, <2>3
  <2> QED
    BY <2>1, <2>2, <2>3, <2>4
<1>7. p # freeHead => mem[p] - need >= 2 /\ q + 2 <= p + mem[p]
  <2>1. p # freeHead => mem[p] - need >= Header
    BY <1>1, <1>2, <1>3, <1>4, RoomForHeader
  <2> QED
    BY <1>2, <1>6, <2>1, Sizes
\* Every other entry lies below the block, or above the new header.
<1>8. ASSUME NEW f \in F, f # p
      PROVE  f + 2 <= p \/ (p # freeHead /\ q + 2 <= f)
  <2>1. (f < p => f + 2 <= p) /\ (p < f => p + mem[p] <= f)
    BY <1>3, <1>4, HeadersApart, Sizes DEF Layout, Disjoint
  <2>2. f <= freeHead
    BY <1>3, HeadersApart
  <2> QED
    BY <1>4, <1>5, <1>6, <1>7, <1>8, <2>1, <2>2
<1>9. ASSUME NEW b \in live
      PROVE  b.at + 2 <= p \/ (p # freeHead /\ q + 2 <= b.at)
  <2>1. /\ b.at + b.size <= p \/ p + mem[p] <= b.at
        /\ b.size \in Nat /\ b.size >= 2 /\ b.at \in Nat /\ b.at + b.size <= Top
    BY <1>3, <1>4, Sizes DEF Layout, Disjoint, BlocksFit
  <2>2. p = freeHead => p + mem[p] = Top
    BY <1>3 DEF Layout, RegionsFit
  <2> QED
    BY <1>6, <1>7, <2>1, <2>2, Sizes
<1>10. ASSUME NEW e \in E
       PROVE  e + 2 <= p \/ (p # freeHead /\ q + 2 <= e)
  <2>1. e = 0 \/ \E b \in live : e = b.at
    BY DEF Entries
  <2> QED
    BY <1>6, <1>9, <2>1
<1>11. /\ p = freeHead <=> r \notin F
       /\ p # freeHead => r \in F /\ mem[r + 1] = p /\ r # p /\ q + 2 <= r
       /\ r \in F => p < r
  <2>1. r \in F => mem[r + 1] = p
    <3>1. Null \notin F
      BY <1>3 DEF Chain
    <3> QED
      BY <1>2, <3>1 DEF Cursor
  <2>2. r \in F => p < r
    <3>1. r \in F => Address[p] < Address[r]
      BY <1>1, <1>3, <1>4, <2>1, ChainTypes
    <3> QED
      BY <1>5, <1>6, <3>1
  <2>3. p # freeHead => r \in F
    BY <1>2 DEF Cursor
  <2>4. p = freeHead => r \notin F
    <3>1. r \in F => r <= freeHead
      BY <1>3, HeadersApart
    <3> QED
      BY <1>5, <1>6, <2>2, <3>1
  <2>5. p # freeHead => q + 2 <= r
    BY <1>5, <1>6, <1>8, <2>2, <2>3
  <2> QED
    BY <1>6, <2>1, <2>2, <2>3, <2>4, <2>5
<1>12. /\ mem' \in [0 .. HeapWords - 1 -> Int]
       /\ mem'[p] = need /\ mem'[p + 1] = allocHead
       /\ mem'[q] = mem[p] - need /\ mem'[q + 1] = mem[p + 1]
       /\ p # freeHead => mem'[r + 1] = q
       /\ \A w \in 0 .. HeapWords - 1 :
            (w < p \/ q + 2 <= w) /\ (p # freeHead => w # r + 1) => mem'[w] = mem[w]
  <2>1. need \in Int /\ allocHead \in Int
    BY <1>2, <1>5
  <2>2. p # freeHead => r \in Nat /\ r + 1 \in 0 .. HeapWords - 1 /\ (r + 1 < p \/ q + 2 <= r)
    BY <1>5, <1>11
  <2>3. mem' = TakenWords(mem, p, q, r, freeHead, need, allocHead)
    BY <1>1
  <2>4. /\ mem \in [0 .. HeapWords - 1 -> Int] /\ p \in Nat /\ q \in Nat /\ p + 2 <= q
        /\ q + 1 \in 0 .. HeapWords - 1
    BY <1>3, <1>6
  <2> HIDE DEF p, q, r, need
  <2> DEFINE m2 == TakenWords(mem, p, q, r, freeHead, need, allocHead)
  <2>5. /\ m2 \in [0 .. HeapWords - 1 -> Int]
        /\ m2[p] = need /\ m2[p + 1] = allocHead /\ m2[q] = mem[p] - need /\ m2[q + 1] = mem[p + 1]
        /\ p # freeHead => m2[r + 1] = q
        /\ \A w \in 0 .. HeapWords - 1 :
             (w < p \/ q + 2 <= w) /\ (p # freeHead => w # r + 1) => m2[w] = mem[w]
    <3>1. TakesApart(mem, p, q, r, freeHead, need, allocHead)
      BY <2>1, <2>2, <2>4 DEF TakesApart
    <3> QED
      BY <3>1, WordsTaken
  <2> HIDE DEF m2
  <2> QED
    BY <2>3, <2>5 DEF m2
<1>13. \A s, t \in F \cup E : s # t + 1
  BY <1>3, SizesAreNotLinks
<1>14. ASSUME NEW f \in F \cup E, f # p
       PROVE  /\ mem'[f] = mem[f]
              /\ f # r \/ p = freeHead => mem'[f + 1] = mem[f + 1]
  <2>1. f \in Nat /\ f \in 0 .. HeapWords - 1 /\ f + 1 \in 0 .. HeapWords - 1
    BY <1>5, Sizes
  <2>2. f + 2 <= p \/ q + 2 <= f
    BY <1>8, <1>10, <1>14
  <2>3. p # freeHead => f # r + 1
    BY <1>11, <1>13
  <2>4. p # freeHead /\ f # r => f + 1 # r + 1
    <3>1. p # freeHead => r \in Nat
      BY <1>5, <1>11
    <3> QED
      BY <2>1, <3>1
  <2>5. (f < p \/ q + 2 <= f) /\ (f + 1 < p \/ q + 2 <= f + 1)
    BY <1>6, <2>1, <2>2
  <2> HIDE DEF p, q, r
  <2> QED
    BY <1>12, <2>1, <2>3, <2>4, <2>5
<1>15. p \notin E /\ \A f \in F : f \notin E
  <2>1. p \notin E
    BY <1>5, <1>6, <1>10
  <2>2. \A b \in live, f \in F : b.at + 2 <= f \/ f + 2 <= b.at
    BY <1>3, HeadersApart, Sizes
  <2> QED
    BY <1>5, <2>1, <2>2 DEF Entries
<1>16. mem'[1] = Null
  <2>1. 0 \in E /\ 0 + 1 = 1 /\ 0 # p
    BY <1>6 DEF Entries
  <2>2. p # freeHead => 0 # r
    BY <1>5, <1>11
  <2> QED
    BY <1>3, <1>14, <2>1, <2>2
<1>17. Layout(mem', G, live', freeHead')
  <2>1. /\ Layout(mem, F, live, freeHead) /\ p \in F /\ need \in Nat /\ need >= Header
        /\ need <= mem[p] /\ q = p + need
        /\ p # freeHead => mem[p] - need >= Header
    BY <1>1, <1>2, <1>3, <1>4, <1>6, <1>7, Sizes
  <2>2. mem'[p] = need /\ mem'[q] = mem[p] - need
    BY <1>12
  <2>3. \A f \in F \ {p} : mem'[f] = mem[f]
    BY <1>14
  <2>4. \A b \in live : mem'[b.at] = mem[b.at]
    BY <1>5, <1>14, <1>15
  <2> HIDE DEF p, q, need
  <2>5. Layout(mem', (F \ {p}) \cup {q}, live \cup {[at |-> p, size |-> need]},
                     IF p = freeHead THEN q ELSE freeHead)
    <3>1. Cut(mem, F, live, freeHead, p, need, mem')
      BY <2>1, <2>2, <2>3, <2>4 DEF Cut
    <3>2. Layout(mem', (F \ {p}) \cup {p + need}, live \cup {[at |-> p, size |-> need]},
                       IF p = freeHead THEN p + need ELSE freeHead)
      BY <2>1, <3>1, LayoutSplit
    <3> QED
      BY <2>1, <3>2
  <2> QED
    BY <1>1, <2>5
<1>18. Chain(mem', G, Address, freeHead')
  <2>1. r \notin F => p = freeHead
    BY <1>11
  <2>2. r \in F => mem[r + 1] = p /\ mem'[r + 1] = q
    BY <1>11, <1>12
  <2>3. \A s \in F \ {p} : s # r => mem'[s + 1] = mem[s + 1]
    BY <1>14
  <2>4. Redirected(mem, F, freeHead, p, r, q, mem')
    BY <2>1, <2>2, <2>3 DEF Redirected
  <2>5. Chain(mem, F, Address, freeHead) /\ p \in F
    BY <1>3, <1>4
  <2>6. q \notin F /\ q # Null /\ Address[q] \in Nat
    BY <1>5, <1>6, <1>8, Sizes
  <2>7. \A s \in F \ {p} : \/ Address[s] < Address[p] /\ Address[s] < Address[q]
                           \/ Address[s] > Address[p] /\ Address[s] > Address[q]
    BY <1>5, <1>6, <1>8
  <2>8. mem'[q + 1] = mem[p + 1]
    BY <1>12
  <2> HIDE DEF p, q, r
  <2>9. \A s \in F \ {p} : mem'[s + 1] = IF mem[s + 1] = p THEN q ELSE mem[s + 1]
    BY <2>4, <2>5, ChainRedirected
  <2>10. Chain(mem', (F \ {p}) \cup {q}, Address, IF p = freeHead THEN q ELSE freeHead)
    BY <2>5, <2>6, <2>7, <2>8, <2>9, ChainReplace
  <2> QED
    BY <1>1, <2>10
<1>19. Chain(mem', E2, key2, p)
  <2>1. key2[p] = key[allocHead] + 1 /\ \A s \in E : key2[s] = key[s]
    BY <1>15
  <2>2. \A s \in E : mem'[s + 1] = mem[s + 1]
    BY <1>11, <1>14, <1>15
  <2>3. mem'[p + 1] = allocHead /\ p \notin E /\ p # Null
    BY <1>1, <1>12, <1>15
  <2>4. Chain(mem, E, key, allocHead)
    BY <1>3
  <2> HIDE DEF p, key2
  <2> QED
    BY <2>1, <2>2, <2>3, <2>4, ChainPush
<1>20. Entries(live') = E2
  <2>1. live' = live \cup {rec} /\ rec.at = p
    BY <1>1
  <2> HIDE DEF rec, p
  <2> QED
    BY <2>1 DEF Entries
<1>21. Apart(mem', G, call')
  <2>1. ASSUME NEW f \in G, NEW g \in G, f < g, f + mem'[f] = g
        PROVE  FALSE
    <3>1. CASE f \in F \ {p} /\ g \in F \ {p}
      BY <1>3, <1>14, <2>1, <3>1
    <3>2. CASE f = q /\ g \in F \ {p}
      <4>1. p + mem[p] = g
        <5>1. q + (mem[p] - need) = g
          BY <1>12, <2>1, <3>2
        <5> QED
          BY <1>2, <1>6, <5>1
      <4>2. p < g
        BY <1>5, <1>6, <2>1, <3>2
      <4> QED
        BY <1>3, <1>4, <3>2, <4>1, <4>2
    <3>3. CASE f \in F \ {p} /\ g = q
      <4>1. f + mem[f] = q /\ f < q
        BY <1>14, <2>1, <3>3
      <4>2. f + 2 <= p
        BY <1>5, <1>6, <1>8, <3>3, <4>1
      <4>3. f + mem[f] <= p
        BY <1>3, <1>4, <1>5, <1>6, <3>3, <4>2 DEF Layout, Disjoint
      <4> QED
        BY <1>6, <4>1, <4>3
    <3>4. CASE f = q /\ g = q
      BY <1>6, <2>1, <3>4
    <3> QED
      BY <3>1, <3>2, <3>3, <3>4
  <2> QED
    BY <2>1 DEF Apart
<1>22. /\ call' \in Calls /\ call'.pc \in {"idle", "find"}
       /\ call'.pc = "find" => call'.p = p /\ call'.prev = Null
  <2>1. Null \in Int /\ p \in Int
    BY <1>6, Sizes
  <2>2. CASE call.fn = "alloc"
    BY <1>1, <2>1, <2>2 DEF Idle, Calls
  <2>3. CASE call.fn # "alloc"
    <3>1. call' = [pc |-> "find", fn |-> "free", p |-> p, prev |-> Null, blk |-> call.blk,
                   need |-> call.need]
      BY <1>1, <1>2, <2>3 DEF Calls
    <3> QED
      BY <1>2, <2>1, <3>1 DEF Calls
  <2> QED
    BY <2>2, <2>3
<1>23. Memory(mem', G, live', key2, freeHead', p, call')
  <2>1. Placed(mem', live', call') = live'
    BY <1>22 DEF Placed
  <2> QED
    BY <1>12, <1>16, <1>17, <1>18, <1>19, <1>20, <1>21, <2>1 DEF Memory
<1>24. Place(mem', G, live', key2, freeHead', p, call')
  <2>1. \A l \in Entries(live') : ~(key2[l] > key2[p])
    BY <1>19, <1>20 DEF Chain
  <2>2. p \in Entries(live')
    BY <1>20
  <2> HIDE DEF key2, p
  <2> QED
    BY <1>22, <2>1, <2>2 DEF Place, Finding, Cursor
<1> HIDE DEF key2, G
<1> QED
  BY <1>1, <1>23, <1>24 DEF Sound

----------------------------------------------------------------------------
(* The invariant holds.                                                    *)

Control == halt \in {"no", "oom", "invalid"} /\ damage \in {"none", "relink", "spill"}

\* MM_AllocInit makes one region and no block.
LEMMA InitSound ==
  ASSUME Init
  PROVE  HeapInv
<1> DEFINE key == [e \in {0} |-> 0]
           F == {Header}
           D == 0 .. HeapWords - 1
<1>1. /\ mem = [w \in D |-> CASE w = 0 -> 0
                             [] w = 1 -> Null
                             [] w = Header -> Top - Header
                             [] w = Header + 1 -> Null
                             [] OTHER -> 0]
      /\ freeHead = Header /\ allocHead = 0 /\ call = Idle /\ live = {}
  BY DEF Init
<1>2. 0 \in D /\ 1 \in D /\ 2 \in D /\ 3 \in D /\ Top - 2 \in Int
  BY Sizes
<1>3. /\ mem[1] = Null /\ mem[2] = Top - 2 /\ mem[3] = Null
      /\ mem \in [D -> Int]
  <2>1. mem[1] = Null /\ mem[2] = Top - 2 /\ mem[3] = Null
    BY <1>1, <1>2, Sizes
  <2>2. ASSUME NEW w \in D
        PROVE  mem[w] \in Int
    BY <1>1, <1>2, <2>2, Sizes
  <2>3. mem = [w \in D |-> mem[w]]
    BY <1>1
  <2> QED
    BY <2>1, <2>2, <2>3
<1>4. Entries(live) = {0} /\ Placed(mem, live, call) = {}
  BY <1>1 DEF Entries, Placed, Idle
<1>5. Layout(mem, F, {}, Header)
  <2>1. RegionsFit(mem, F, Header) /\ BlocksFit(mem, {}) /\ Disjoint(mem, F, {})
    BY <1>3, Sizes DEF RegionsFit, BlocksFit, Disjoint
  <2>2. Covered(mem, F, {})
    BY <1>3, Sizes DEF Covered
  <2> QED
    BY <2>1, <2>2 DEF Layout
<1>6. Chain(mem, F, Address, Header)
  <2>1. Address[2] = 2
    BY <1>2 DEF Address
  <2> QED
    BY <1>3, <2>1, Sizes DEF Chain
<1>7. Chain(mem, {0}, key, 0)
  BY <1>3, Sizes DEF Chain
<1>8. Apart(mem, F, call)
  BY Sizes DEF Apart
<1>9. call \in Calls /\ call.pc = "idle"
  BY <1>1, Sizes DEF Idle, Calls
<1> HIDE DEF key, F, D
<1>10. Sound(mem, F, live, key, freeHead, allocHead, call)
  BY <1>1, <1>3, <1>4, <1>5, <1>6, <1>7, <1>8, <1>9 DEF Sound, Memory, Place, D
<1> QED
  BY <1>10 DEF HeapInv

\* Harm to the lists is never undone.
LEMMA HarmStays ==
  ASSUME [Next]_vars, damage' = "none"
  PROVE  damage = "none"
<1>1. CASE FitTake
  BY <1>1 DEF FitTake
<1>2. CASE Merge
  BY <1>2 DEF Merge
<1>3. CASE ~FitTake /\ ~Merge
  BY <1>3 DEF Next, MM_Alloc, MM_Free, MM_Expand, FitNext, FitFail, FindNext, FindInvalid,
             FindRemove, FindExpand, OrderNext, OrderInsert, MergeNext, MergeDone, vars
<1> QED
  BY <1>1, <1>2, <1>3

LEMMA StepSound ==
  ASSUME HeapInv, [Next]_vars
  PROVE  HeapInv'
<1>1. SUFFICES ASSUME damage' = "none"
               PROVE  (\E F, key : Sound(mem, F, live, key, freeHead, allocHead, call))'
  BY DEF HeapInv
<1>2. damage = "none"
  BY <1>1, HarmStays
<1>3. PICK F, key : Sound(mem, F, live, key, freeHead, allocHead, call)
  BY <1>2 DEF HeapInv
<1>4. ASSUME NEW bytes \in Requests, MM_Alloc(bytes)
      PROVE  Sound(mem', F, live', key, freeHead', allocHead', call')
  BY <1>3, <1>4, AllocStarts
<1>5. ASSUME NEW pointer \in Pointers, MM_Free(pointer)
      PROVE  Sound(mem', F, live', key, freeHead', allocHead', call')
  <2>1. /\ call = Idle /\ call' = Lookup("free", pointer, 0)
        /\ mem' = mem /\ freeHead' = freeHead /\ allocHead' = allocHead /\ live' = live
    BY <1>5 DEF MM_Free, heads
  <2>2. Sound(mem, F, live, key, freeHead, allocHead, Lookup("free", pointer, 0))
    BY <1>3, <2>1, LookupStarts
  <2> QED
    BY <2>1, <2>2
<1>6. ASSUME NEW pointer \in Pointers, NEW extra \in Extras, MM_Expand(pointer, extra)
      PROVE  Sound(mem', F, live', key, freeHead', allocHead', call')
  <2>1. /\ call = Idle /\ call' = Lookup("expand", pointer, extra) /\ extra \in Nat
        /\ mem' = mem /\ freeHead' = freeHead /\ allocHead' = allocHead /\ live' = live
    BY <1>6, HeapAssumption DEF MM_Expand, heads
  <2>2. Sound(mem, F, live, key, freeHead, allocHead, Lookup("expand", pointer, extra))
    BY <1>3, <2>1, LookupStarts
  <2> QED
    BY <2>1, <2>2
<1>7. CASE FitNext
  BY <1>3, <1>7, FitNextWalks
<1>8. CASE FitTake
  BY <1>1, <1>2, <1>3, <1>8, FitTakes
<1>9. CASE FindNext
  BY <1>3, <1>9, FindNextWalks
<1>10. CASE FindRemove
  BY <1>3, <1>10, FindRemoves
<1>11. CASE FindExpand
  BY <1>3, <1>11, FindExpandStarts
<1>12. CASE OrderNext
  BY <1>3, <1>12, OrderNextWalks
<1>13. CASE OrderInsert
  BY <1>3, <1>13, OrderInserts
<1>14. CASE Merge
  BY <1>1, <1>3, <1>14, MergeJoins
<1>15. CASE MergeNext
  BY <1>3, <1>15, MergeNextWalks
<1>16. CASE MergeDone
  BY <1>3, <1>16, MergeEnds
<1>17. CASE FitFail \/ FindInvalid \/ UNCHANGED vars
  <2>1. /\ mem' = mem /\ freeHead' = freeHead /\ allocHead' = allocHead /\ live' = live
        /\ call' = call
    BY <1>17 DEF FitFail, FindInvalid, vars, heads
  <2> QED
    BY <1>3, <2>1
<1> QED
  BY <1>4, <1>5, <1>6, <1>7, <1>8, <1>9, <1>10, <1>11, <1>12, <1>13, <1>14, <1>15, <1>16, <1>17
     DEF Next

LEMMA StepControl ==
  ASSUME Control, [Next]_vars
  PROVE  Control'
<1>1. CASE FitTake
  BY <1>1 DEF FitTake, Control
<1>2. CASE Merge
  BY <1>2 DEF Merge, Control
<1>3. CASE ~FitTake /\ ~Merge
  BY <1>3 DEF Next, MM_Alloc, MM_Free, MM_Expand, FitNext, FitFail, FindNext, FindInvalid,
             FindRemove, FindExpand, OrderNext, OrderInsert, MergeNext, MergeDone, vars, Control
<1> QED
  BY <1>1, <1>2, <1>3

LEMMA HeapSound == Spec => [](Control /\ HeapInv)
<1>1. Init => Control /\ HeapInv
  BY InitSound DEF Init, Control
<1>2. Control /\ HeapInv /\ [Next]_vars => (Control /\ HeapInv)'
  BY StepSound, StepControl
<1> QED
  BY <1>1, <1>2, PTL DEF Spec

----------------------------------------------------------------------------
(* What follows from the invariant.                                        *)

\* The lists that are found by following the links.
LEMMA ListsFound ==
  ASSUME NEW F, NEW key, Sound(mem, F, live, key, freeHead, allocHead, call)
  PROVE  FreeList = F /\ AllocList = Entries(live)
<1>1. /\ Layout(mem, F, Placed(mem, live, call), freeHead)
      /\ Chain(mem, F, Address, freeHead) /\ Chain(mem, Entries(live), key, allocHead)
  BY DEF Sound, Memory
<1>2. /\ \A f \in F : f \in Nat /\ f \in 0 .. HeapWords - Header
      /\ \A e \in Entries(live) : e \in Nat /\ e \in 0 .. HeapWords - Header
      /\ \A b \in live : b.at >= 2
  BY MemoryAddresses, Sizes DEF Sound
<1>3. \A f, g \in F : f < g => f + Header <= g
  BY <1>1, HeadersApart
<1>4. ASSUME NEW s \in Entries(live), NEW t \in Entries(live), s < t
      PROVE  s + Header <= t
  <2>1. \A e \in Entries(live) : e = 0 \/ \E b \in live : e = b.at
    BY DEF Entries
  <2>2. \A b, c \in live : b # c => b.at + 2 <= c.at \/ c.at + 2 <= b.at
    <3>1. live \subseteq Placed(mem, live, call)
      BY DEF Placed
    <3> QED
      BY <1>1, <3>1, HeadersApart, Sizes
  <2>3. t # 0
    BY <1>2, <1>4
  <2>4. PICK c \in live : t = c.at
    BY <2>1, <2>3
  <2>5. CASE s = 0
    BY <1>2, <2>4, <2>5, Sizes
  <2>6. CASE s # 0
    <3>1. PICK b \in live : s = b.at
      BY <2>1, <2>6
    <3>2. s + 2 <= t \/ t + 2 <= s
      BY <1>2, <1>4, <2>2, <2>4, <3>1
    <3> QED
      BY <1>2, <1>4, <3>2, Sizes
  <2> QED
    BY <2>5, <2>6
<1>5. /\ IsFiniteSet(F) /\ HeapWords \div Header \in Nat
      /\ Cardinality(F) <= HeapWords \div Header
  <2>1. F \in SUBSET (0 .. HeapWords - Header)
    BY <1>2
  <2> QED
    BY <1>3, <2>1, HeadersFit
<1>6. /\ IsFiniteSet(Entries(live))
      /\ Cardinality(Entries(live)) <= HeapWords \div Header
  <2>1. Entries(live) \in SUBSET (0 .. HeapWords - Header)
    BY <1>2
  <2> QED
    BY <1>4, <2>1, HeadersFit
<1>7. ListFrom(freeHead) = F
  <2>1. PICK g : /\ Follows(mem, freeHead, HeapWords \div Header, g)
                 /\ ListFrom(freeHead) = g[HeapWords \div Header] \ {Null}
    BY <1>5, ListFollows
  <2> QED
    BY <1>1, <1>5, <2>1, ChainFound
<1>8. ListFrom(allocHead) = Entries(live)
  <2>1. PICK g : /\ Follows(mem, allocHead, HeapWords \div Header, g)
                 /\ ListFrom(allocHead) = g[HeapWords \div Header] \ {Null}
    BY <1>5, ListFollows
  <2> QED
    BY <1>1, <1>5, <1>6, <2>1, ChainFound
<1> QED
  BY <1>7, <1>8 DEF FreeList, AllocList

\* The heap between two calls.
LEMMA QuietHeap ==
  ASSUME HeapInv, Quiet
  PROVE  /\ Layout(mem, FreeList, live, freeHead)
         /\ Chain(mem, FreeList, Address, freeHead)
         /\ AllocList = Entries(live)
         /\ \A f, g \in FreeList : f < g => f + mem[f] # g
<1>1. PICK F, key : Sound(mem, F, live, key, freeHead, allocHead, call)
  BY DEF HeapInv, Quiet
<1>2. FreeList = F /\ AllocList = Entries(live)
  BY <1>1, ListsFound
<1>3. call.pc = "idle"
  BY DEF Quiet, Idle
<1> QED
  BY <1>1, <1>2, <1>3 DEF Sound, Memory, Placed, Apart

LEMMA TiledBetweenCalls ==
  ASSUME HeapInv
  PROVE  HeapTiled
<1>1. SUFFICES ASSUME Quiet
               PROVE  /\ UNION {WordsOf(b) : b \in live \cup Regions} = Header .. Top - 1
                      /\ \A b, c \in live \cup Regions : b # c => WordsOf(b) \cap WordsOf(c) = {}
  BY DEF HeapTiled
<1> DEFINE F == FreeList
<1>2. Layout(mem, F, live, freeHead)
  BY <1>1, QuietHeap
<1>3. /\ \A f \in F : [at |-> f, size |-> mem[f]] \in Regions
      /\ \A b \in Regions : \E f \in F : b = [at |-> f, size |-> mem[f]]
  BY DEF Regions, SizeAt
<1>4. ASSUME NEW b \in live \cup Regions
      PROVE  /\ b.at \in Nat /\ b.size \in Nat /\ b.at >= Header /\ b.at + b.size <= Top
             /\ \/ b \in live
                \/ \E f \in F : b.at = f /\ b.size = mem[f] /\ b = [at |-> f, size |-> mem[f]]
  <2>1. CASE b \in live
    BY <1>2, <2>1, Sizes DEF Layout, BlocksFit
  <2>2. CASE b \in Regions
    <3>1. PICK f \in F : b = [at |-> f, size |-> mem[f]]
      BY <1>3, <2>2
    <3>2. f \in Nat /\ mem[f] \in Nat /\ f >= Header /\ f + mem[f] <= Top
      BY <1>2, Sizes DEF Layout, RegionsFit
    <3> QED
      BY <3>1, <3>2
  <2> QED
    BY <2>1, <2>2
<1>5. ASSUME NEW b \in live \cup Regions, NEW c \in live \cup Regions, b # c
      PROVE  b.at + b.size <= c.at \/ c.at + c.size <= b.at
  <2>1. CASE b \in live /\ c \in live
    BY <1>2, <1>5, <2>1 DEF Layout, Disjoint
  <2>2. CASE b \in live /\ c \notin live
    BY <1>2, <1>4, <2>2 DEF Layout, Disjoint
  <2>3. CASE b \notin live /\ c \in live
    BY <1>2, <1>4, <2>3 DEF Layout, Disjoint
  <2>4. CASE b \notin live /\ c \notin live
    <3>1. PICK f \in F : b.at = f /\ b.size = mem[f] /\ b = [at |-> f, size |-> mem[f]]
      BY <1>4, <2>4
    <3>2. PICK g \in F : c.at = g /\ c.size = mem[g] /\ c = [at |-> g, size |-> mem[g]]
      BY <1>4, <2>4
    <3>3. f # g /\ f \in Nat /\ g \in Nat
      BY <1>4, <1>5, <3>1, <3>2
    <3> QED
      BY <1>2, <3>1, <3>2, <3>3 DEF Layout, Disjoint
  <2> QED
    BY <2>1, <2>2, <2>3, <2>4
<1>6. \A b, c \in live \cup Regions : b # c => WordsOf(b) \cap WordsOf(c) = {}
  BY <1>4, <1>5 DEF WordsOf
<1>7. ASSUME NEW w \in Header .. Top - 1
      PROVE  \E b \in live \cup Regions : w \in WordsOf(b)
  <2>1. CASE \E f \in F : f <= w /\ w < f + mem[f]
    <3>1. PICK f \in F : f <= w /\ w < f + mem[f]
      BY <2>1
    <3> DEFINE b == [at |-> f, size |-> mem[f]]
    <3>2. b \in live \cup Regions /\ b.at = f /\ b.size = mem[f]
      BY <1>3
    <3>3. f \in Nat /\ mem[f] \in Nat /\ w \in Int
      BY <1>4, <3>2, Sizes
    <3> HIDE DEF b
    <3>4. w \in WordsOf(b)
      BY <3>1, <3>2, <3>3 DEF WordsOf
    <3> QED
      BY <3>2, <3>4
  <2>2. CASE \E b \in live : b.at <= w /\ w < b.at + b.size
    <3>1. PICK b \in live : b.at <= w /\ w < b.at + b.size
      BY <2>2
    <3>2. b.at \in Nat /\ b.size \in Nat /\ w \in Int
      BY <1>4, Sizes
    <3> QED
      BY <3>1, <3>2 DEF WordsOf
  <2> QED
    BY <1>2, <2>1, <2>2 DEF Layout, Covered
<1>8. ASSUME NEW b \in live \cup Regions, NEW w \in WordsOf(b)
      PROVE  w \in Header .. Top - 1
  BY <1>4, Sizes DEF WordsOf
<1>9. UNION {WordsOf(b) : b \in live \cup Regions} = Header .. Top - 1
  BY <1>7, <1>8
<1> QED
  BY <1>6, <1>9

LEMMA SoundFreeList ==
  ASSUME HeapInv
  PROVE  FreeListSound
<1>1. ASSUME damage = "none", call.pc = "order", ~Before(call.p, call.blk)
      PROVE  call.prev # Null
  <2>1. PICK F, key : Sound(mem, F, live, key, freeHead, allocHead, call)
    BY <1>1 DEF HeapInv
  <2> DEFINE rec == [at |-> call.blk, size |-> mem[call.blk]]
  <2>2. SUFFICES ASSUME call.prev = Null PROVE FALSE
    OBVIOUS
  <2>3. Chain(mem, F, Address, freeHead) /\ Layout(mem, F, live \cup {rec}, freeHead)
    BY <1>1, <2>1 DEF Sound, Memory, Placed
  <2>4. call.p = freeHead /\ call.p \in Int /\ call.blk \in Int
    BY <1>1, <2>1, <2>2, <2>3 DEF Sound, Place, Ordering, Cursor, Chain, Calls
  <2>5. call.blk < freeHead
    <3>1. rec.at = call.blk /\ rec \in live \cup {rec}
      OBVIOUS
    <3> HIDE DEF rec
    <3> QED
      BY <2>3, <3>1, HeadersApart
  <2> QED
    BY <1>1, <2>4, <2>5 DEF Before
<1>2. ASSUME Quiet
      PROVE  /\ \A f \in FreeList : NextAt(f) # Null => NextAt(f) + SizeAt(NextAt(f)) < f
             /\ \A b \in live : b.at < freeHead
  <2>1. /\ Layout(mem, FreeList, live, freeHead) /\ Chain(mem, FreeList, Address, freeHead)
        /\ \A f, g \in FreeList : f < g => f + mem[f] # g
    BY <1>2, QuietHeap
  <2>2. ASSUME NEW f \in FreeList, mem[f + 1] # Null
        PROVE  mem[f + 1] + mem[mem[f + 1]] < f
    <3> DEFINE n == mem[f + 1]
    <3>1. n \in FreeList /\ Address[n] < Address[f]
      BY <2>1, <2>2, ChainTypes
    <3>2. \A g \in FreeList : g \in Nat /\ mem[g] \in Nat /\ Address[g] = g
      BY <2>1, Sizes DEF Layout, RegionsFit, Address
    <3>3. n < f /\ n \in Nat /\ f \in Nat /\ mem[n] \in Nat
      BY <3>1, <3>2
    <3>4. n + mem[n] <= f /\ n + mem[n] # f
      BY <2>1, <3>1, <3>3 DEF Layout, Disjoint
    <3> QED
      BY <3>3, <3>4
  <2>3. \A b \in live : b.at < freeHead
    BY <2>1, HeadersApart
  <2> QED
    BY <2>2, <2>3 DEF NextAt, SizeAt
<1> QED
  BY <1>1, <1>2 DEF FreeListSound

LEMMA BlocksListed ==
  ASSUME HeapInv
  PROVE  LiveBlocksListed
<1>1. SUFFICES ASSUME Quiet
               PROVE  /\ AllocList = {0} \cup {b.at : b \in live}
                      /\ \A b \in live : mem[b.at] = b.size
  BY DEF LiveBlocksListed, SizeAt
<1>2. Layout(mem, FreeList, live, freeHead) /\ AllocList = Entries(live)
  BY <1>1, QuietHeap
<1> QED
  BY <1>2 DEF Layout, BlocksFit, Entries

LEMMA TypesUntilHarm ==
  ASSUME Control, HeapInv
  PROVE  damage = "none" => TypeOK
<1>1. SUFFICES ASSUME damage = "none" PROVE TypeOK
  OBVIOUS
<1>2. PICK F, key : Sound(mem, F, live, key, freeHead, allocHead, call)
  BY <1>1 DEF HeapInv
<1>3. /\ mem \in [0 .. HeapWords - 1 -> Int]
      /\ freeHead \in 0 .. HeapWords - Header /\ allocHead \in 0 .. HeapWords - Header
  BY <1>2, MemoryAddresses, Sizes DEF Sound, Memory
<1> QED
  BY <1>3 DEF TypeOK, Control

\* A lookup ends with a live block, or halts when there is none.
LEMMA LookupDecides ==
  ASSUME HeapInv, Next, call.pc = "find", damage = "none"
  PROVE  LET held == \E b \in live : b.at = call.blk
         IN  (halt' = "invalid" => ~held) /\ (call'.pc # "find" => held)
<1> DEFINE held == \E b \in live : b.at = call.blk
           E == Entries(live)
<1>1. PICK F, key : Sound(mem, F, live, key, freeHead, allocHead, call)
  BY DEF HeapInv
<1>2. /\ call \in Calls /\ call.p \in E /\ Chain(mem, E, key, allocHead) /\ mem[1] = Null
      /\ \A l \in E : key[l] > key[call.p] => l # call.blk
  BY <1>1 DEF Sound, Memory, Place, Finding
<1>3. 0 \in E /\ \A e \in E : e = 0 <=> ~(\E b \in live : b.at = e)
  <2>1. \A b \in live : b.at >= 2
    BY <1>1, MemoryAddresses, Sizes DEF Sound
  <2> QED
    BY <2>1 DEF Entries
\* Only the first entry of all is the last of the list.
<1>4. mem[call.p + 1] = Null <=> call.p = 0
  <2>1. 0 + 1 = 1
    OBVIOUS
  <2> QED
    BY <1>2, <1>3, <2>1, ChainOneBefore
<1>5. CASE FindNext
  BY <1>2, <1>5 DEF FindNext, Running, Calls
<1>6. CASE FindInvalid
  <2>1. call.p = 0 /\ call' = call
    BY <1>4, <1>6 DEF FindInvalid, IsLast, NextAt
  <2>2. \A l \in E : key[l] \in Nat /\ key[0] <= key[l] /\ (key[l] = key[0] => l = 0)
    BY <1>2, <1>3, <1>4, <2>1 DEF Chain
  <2>3. \A b \in live : b.at \in E /\ b.at # 0
    BY <1>3 DEF Entries
  <2>4. \A b \in live : key[b.at] > key[call.p]
    BY <1>3, <2>1, <2>2, <2>3
  <2>5. ~held
    BY <1>2, <2>3, <2>4
  <2> QED
    BY <2>1, <2>5
<1>7. CASE FindRemove \/ FindExpand
  <2>1. call.p = call.blk /\ mem[call.p + 1] # Null /\ halt = "no" /\ halt' = halt
    BY <1>7 DEF FindRemove, FindExpand, IsLast, NextAt, Running
  <2>2. held
    BY <1>2, <1>3, <1>4, <2>1
  <2> QED
    BY <2>1, <2>2
<1>8. CASE ~(FindNext \/ FindInvalid \/ FindRemove \/ FindExpand)
  <2>1. Idle.pc = "idle"
    BY DEF Idle
  <2> QED
    BY <1>8, <2>1 DEF Next, MM_Alloc, MM_Free, MM_Expand, FitNext, FitTake, FitFail, OrderNext,
                     OrderInsert, Merge, MergeNext, MergeDone
<1> QED
  BY <1>5, <1>6, <1>7, <1>8

\* A block that is handed out lies in a free region, whatever it spills into.
LEMMA TakeAllocates ==
  ASSUME HeapInv, FitTake, damage = "none"
  PROVE  Promise!Next
<1> DEFINE p == call.p
           need == call.need
           Words == Header .. Top - 1
           rec == [at |-> p, size |-> need]
<1>1. PICK F, key : Sound(mem, F, live, key, freeHead, allocHead, call)
  BY DEF HeapInv
<1>2. /\ call.pc = "fit" /\ p # Null /\ mem[p] >= need /\ live' = live \cup {rec}
  BY DEF FitTake, Fits, SizeAt
<1>3. /\ need \in Nat /\ need >= Header /\ Cursor(mem, F, freeHead, call)
      /\ Layout(mem, F, live, freeHead) /\ Chain(mem, F, Address, freeHead)
  BY <1>1, <1>2 DEF Sound, Memory, Place, Fitting, Placed, Calls
<1>4. p \in F
  BY <1>2, <1>3, CursorWalks
<1>5. /\ p \in Nat /\ p >= 2 /\ mem[p] \in Nat /\ p + mem[p] <= Top
      /\ \A b \in live : /\ b.at \in Nat /\ b.size \in Nat
                         /\ b.at + b.size <= p \/ p + mem[p] <= b.at
  BY <1>3, <1>4, Sizes DEF Layout, RegionsFit, BlocksFit, Disjoint
<1>6. p \in Words /\ need \in Words /\ p .. p + need - 1 \subseteq Words
  BY <1>2, <1>3, <1>5, Sizes
<1>7. \A b \in live : (p .. p + need - 1) \cap (b.at .. b.at + b.size - 1) = {}
  BY <1>2, <1>3, <1>5
<1>8. rec.at = p /\ rec.size = need
  OBVIOUS
<1>9. Promise!Alloc(p, need)
  BY <1>2, <1>3, <1>6, <1>7, <1>8 DEF Promise!Alloc, Promise!WordsOf
<1> QED
  BY <1>6, <1>9 DEF Promise!Next

\* With room for the header, the words that are written are the region's own.
LEMMA RoomKeepsApart ==
  ASSUME HeapInv, FitTake, damage = "none", Spills(call.p, call.need)
  PROVE  SizeAt(call.p) < call.need + Header
<1> DEFINE p == call.p
           need == call.need
           touched == p .. p + need + Header - 1
<1>1. PICK F, key : Sound(mem, F, live, key, freeHead, allocHead, call)
  BY DEF HeapInv
<1>2. FreeList = F /\ call.pc = "fit" /\ p # Null
  BY <1>1, ListsFound DEF FitTake
<1>3. /\ need \in Nat /\ Cursor(mem, F, freeHead, call)
      /\ Layout(mem, F, live, freeHead) /\ Chain(mem, F, Address, freeHead)
  BY <1>1, <1>2 DEF Sound, Memory, Place, Fitting, Placed, Calls
<1>4. p \in F
  BY <1>2, <1>3, CursorWalks
<1>5. p \in Nat /\ mem[p] \in Nat /\ \A f \in F : f \in Nat
  BY <1>3, <1>4, Sizes DEF Layout, RegionsFit
<1>6. SUFFICES ASSUME p + need + 2 <= p + mem[p]
               PROVE  FALSE
  BY <1>3, <1>5, Sizes DEF SizeAt
<1>7. ASSUME NEW b \in live
      PROVE  WordsOf(b) \cap touched = {}
  <2>1. /\ b.at \in Nat /\ b.size \in Nat
        /\ b.at + b.size <= p \/ p + mem[p] <= b.at
    BY <1>3, <1>4, Sizes DEF Layout, BlocksFit, Disjoint
  <2> QED
    BY <1>3, <1>5, <1>6, <2>1, Sizes DEF WordsOf
<1>8. ASSUME NEW f \in F, f # p
      PROVE  {f, f + 1} \cap touched = {}
  <2>1. f + 2 <= p \/ p + mem[p] <= f
    BY <1>3, <1>4, <1>5, <1>8, HeadersApart, Sizes DEF Layout, Disjoint
  <2> QED
    BY <1>3, <1>5, <1>6, <2>1, Sizes
<1> QED
  BY <1>2, <1>7, <1>8 DEF Spills

LEMMA RemoveFrees ==
  ASSUME HeapInv, FindRemove, damage = "none"
  PROVE  Promise!Next
<1>1. PICK F, key : Sound(mem, F, live, key, freeHead, allocHead, call)
  BY DEF HeapInv
<1>2. /\ call.pc = "find" /\ call.p = call.blk /\ mem[call.p + 1] # Null
      /\ live' = {b \in live : b.at # call.blk}
  BY DEF FindRemove, IsLast, NextAt
<1>3. /\ call.p \in Entries(live) /\ mem[1] = Null /\ Layout(mem, F, live, freeHead)
  BY <1>1, <1>2 DEF Sound, Memory, Place, Finding, Placed
<1>4. call.p # 0
  BY <1>2, <1>3
<1>5. PICK b \in live : b.at = call.blk
  BY <1>2, <1>3, <1>4 DEF Entries
<1>6. \A c \in live : c.at = b.at => c = b
  BY <1>3 DEF Layout, BlocksFit
<1>7. live' = live \ {b}
  BY <1>2, <1>5, <1>6
<1> QED
  BY <1>5, <1>7 DEF Promise!Next, Promise!Free

LEMMA StepKeepsPromise ==
  ASSUME HeapInv, [Next]_vars, damage = "none"
  PROVE  Promise!Next \/ UNCHANGED live
<1>1. CASE FitTake
  BY <1>1, TakeAllocates
<1>2. CASE FindRemove
  BY <1>2, RemoveFrees
<1>3. CASE ~FitTake /\ ~FindRemove
  BY <1>3 DEF Next, MM_Alloc, MM_Free, MM_Expand, FitNext, FitFail, FindNext, FindInvalid,
             FindExpand, OrderNext, OrderInsert, Merge, MergeNext, MergeDone, vars
<1> QED
  BY <1>1, <1>2, <1>3

----------------------------------------------------------------------------
(* The theorems.                                                           *)

\* Until the lists are first harmed, the heads stay in the heap and every word of it
\* is a number, whatever the clients pass to MM_Free and MM_Expand.
THEOREM TypeCorrect == Spec => [](damage = "none" => TypeOK)
BY HeapSound, TypesUntilHarm, PTL

\* Freeing, merging and splitting lose no word of the heap and hand none out twice.
THEOREM NothingLost == Spec => []HeapTiled
BY HeapSound, TiledBetweenCalls, PTL

\* MM_Free never reaches its insertion with a NULL psPreviousFree, and between calls
\* no two regions of the free list touch.
THEOREM ListInOrder == Spec => []FreeListSound
BY HeapSound, SoundFreeList, PTL

\* The list of allocations is the live blocks and the entry MM_AllocInit made.
THEOREM BlocksOnList == Spec => []LiveBlocksListed
BY HeapSound, BlocksListed, PTL

\* MM_Free and MM_Expand halt for a pointer that is to no live block, and only for one.
THEOREM LookupsDecided == Spec => InvalidFreeHalts
<1>1. (Control /\ HeapInv) /\ [Next]_vars
      => [call.pc = "find" /\ damage = "none" =>
            LET held == \E b \in live : b.at = call.blk
            IN  /\ halt' = "invalid" => ~held
                /\ call'.pc # "find" => held]_vars
  BY LookupDecides
<1> QED
  BY <1>1, HeapSound, PTL DEF Spec, InvalidFreeHalts

\* With room for the free header behind it, a block never reaches into another one.
THEOREM SpillsLackRoom == Spec => SpillsOnlyWithoutRoom
<1>1. (Control /\ HeapInv) /\ [Next]_vars
      => [damage = "none" /\ damage' = "spill" => SizeAt(call.p) < call.need + Header]_vars
  <2>1. SUFFICES ASSUME HeapInv, Next, damage = "none", damage' = "spill"
                 PROVE  SizeAt(call.p) < call.need + Header
    OBVIOUS
  <2>2. CASE FitTake
    <3>1. Spills(call.p, call.need)
      BY <2>1, <2>2 DEF FitTake
    <3> QED
      BY <2>1, <2>2, <3>1, RoomKeepsApart
  <2>3. CASE Merge
    BY <2>1, <2>3 DEF Merge
  <2>4. CASE ~FitTake /\ ~Merge
    BY <2>1, <2>4 DEF Next, MM_Alloc, MM_Free, MM_Expand, FitNext, FitFail, FindNext,
                      FindInvalid, FindRemove, FindExpand, OrderNext, OrderInsert, MergeNext,
                      MergeDone
  <2> QED
    BY <2>2, <2>3, <2>4
<1> QED
  BY <1>1, HeapSound, PTL DEF Spec, SpillsOnlyWithoutRoom

\* Each step of the loops does what the promise to clients allows, or nothing that a
\* client sees, up to the step that first harms the lists.
THEOREM PromiseKept == Spec => KeepsPromise
<1>1. Init => Promise!Init
  BY DEF Init, Promise!Init
<1>2. (Control /\ HeapInv) /\ [Next]_vars
      => [damage = "none" => Promise!Next \/ UNCHANGED live]_vars
  BY StepKeepsPromise
<1> QED
  BY <1>1, <1>2, HeapSound, PTL DEF Spec, KeepsPromise
=============================================================================
