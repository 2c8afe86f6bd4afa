---------------------------- MODULE Library_proofs ----------------------------
(***************************************************************************)
(* Proofs about Library, for any memory and any calls.  The operations on  *)
(* areas and on strings leave exactly the bytes they were asked for; the   *)
(* comparisons and searches agree with their definitions on sequences;     *)
(* snprintf keeps to its buffer and cuts and ends its text, and number     *)
(* fills its field; the search for "quiet" and sscanf stay in their texts; *)
(* and the processor reads descriptors as they were set.                   *)
(***************************************************************************)
EXTENDS Library, NaturalFacts, SequenceTheorems, FiniteSetTheorems, TLAPS

----------------------------------------------------------------------------
(* Moves.  Chunk(m, d, s, n) is also what a copy of n bytes is to leave.   *)

\* A move leaves the addresses there are.
LEMMA ChunkDomain ==
  ASSUME NEW m, NEW d, NEW s, NEW n
  PROVE  DOMAIN Chunk(m, d, s, n) = DOMAIN m
BY DEF Chunk

\* Nothing is moved.
LEMMA ChunkNone ==
  ASSUME NEW m, m = [i \in DOMAIN m |-> m[i]], NEW d \in Nat, NEW s \in Nat
  PROVE  Chunk(m, d, s, 0) = m
BY DEF Chunk

\* Two moves going up are one, unless the first overwrites what the second reads.
LEMMA ChunksUp ==
  ASSUME NEW m, NEW d \in Nat, NEW s \in Nat, NEW a \in Nat, NEW b \in Nat,
         d <= s \/ d >= s + a + b, s .. s + a + b - 1 \subseteq DOMAIN m
  PROVE  Chunk(Chunk(m, d, s, a), d + a, s + a, b) = Chunk(m, d, s, a + b)
<1> DEFINE first == Chunk(m, d, s, a)
<1>1. DOMAIN first = DOMAIN m
  BY ChunkDomain
<1>2. \A i \in DOMAIN m : first[i] = IF i \in d .. d + a - 1 THEN m[s + i - d] ELSE m[i]
  BY DEF Chunk
<1> HIDE DEF first
<1>3. ASSUME NEW i \in DOMAIN m
      PROVE  (IF i \in d + a .. (d + a) + b - 1 THEN first[(s + a) + i - (d + a)] ELSE first[i])
             = (IF i \in d .. d + (a + b) - 1 THEN m[s + i - d] ELSE m[i])
  <2>1. CASE i \in d + a .. (d + a) + b - 1
    <3>1. /\ (s + a) + i - (d + a) = s + i - d /\ i \in d .. d + (a + b) - 1
          /\ s + i - d \in s .. s + a + b - 1 /\ ~(s + i - d \in d .. d + a - 1)
      BY <2>1
    <3>2. first[s + i - d] = m[s + i - d]
      BY <1>2, <3>1
    <3> QED
      BY <2>1, <3>1, <3>2
  <2>2. CASE i \notin d + a .. (d + a) + b - 1
    <3>1. i \in d .. d + a - 1 <=> i \in d .. d + (a + b) - 1
      BY <2>2
    <3> QED
      BY <1>2, <2>2, <3>1
  <2> QED
    BY <2>1, <2>2
<1>4. Chunk(first, d + a, s + a, b) = Chunk(m, d, s, a + b)
  BY <1>1, <1>3 DEF Chunk
<1> QED
  BY <1>4 DEF first

\* Two moves going down, to an area that does not begin below the one that is read.
LEMMA ChunksDown ==
  ASSUME NEW m, NEW d \in Nat, NEW s \in Nat, NEW a \in Nat, NEW b \in Nat,
         d >= s, s .. s + a + b - 1 \subseteq DOMAIN m
  PROVE  Chunk(Chunk(m, d + b, s + b, a), d, s, b) = Chunk(m, d, s, a + b)
<1> DEFINE first == Chunk(m, d + b, s + b, a)
<1>1. DOMAIN first = DOMAIN m
  BY ChunkDomain
<1>2. \A i \in DOMAIN m :
        first[i] = IF i \in d + b .. (d + b) + a - 1 THEN m[(s + b) + i - (d + b)] ELSE m[i]
  BY DEF Chunk
<1> HIDE DEF first
<1>3. ASSUME NEW i \in DOMAIN m
      PROVE  (IF i \in d .. d + b - 1 THEN first[s + i - d] ELSE first[i])
             = (IF i \in d .. d + (a + b) - 1 THEN m[s + i - d] ELSE m[i])
  <2>1. CASE i \in d .. d + b - 1
    <3>1. /\ i \in d .. d + (a + b) - 1 /\ s + i - d \in s .. s + a + b - 1
          /\ ~(s + i - d \in d + b .. (d + b) + a - 1)
      BY <2>1
    <3>2. first[s + i - d] = m[s + i - d]
      BY <1>2, <3>1
    <3> QED
      BY <2>1, <3>1, <3>2
  <2>2. CASE i \in d + b .. (d + b) + a - 1
    <3>1. /\ i \in d .. d + (a + b) - 1 /\ i \notin d .. d + b - 1
          /\ (s + b) + i - (d + b) = s + i - d
      BY <2>2
    <3> QED
      BY <1>2, <2>2, <3>1
  <2>3. CASE i \notin d .. d + b - 1 /\ i \notin d + b .. (d + b) + a - 1
    <3>1. i \notin d .. d + (a + b) - 1
      BY <2>3
    <3> QED
      BY <1>2, <2>3, <3>1
  <2> QED
    BY <2>1, <2>2, <2>3
<1>4. Chunk(first, d, s, b) = Chunk(m, d, s, a + b)
  BY <1>1, <1>3 DEF Chunk
<1> QED
  BY <1>4 DEF first

\* n bytes can be copied from s to d, and by going up.
Copyable(m, d, s, n) ==
  /\ m = [i \in DOMAIN m |-> m[i]] /\ d \in Nat /\ s \in Nat /\ n \in Nat
  /\ s .. s + n - 1 \subseteq DOMAIN m

Upwards(d, s, n) == d <= s \/ d >= s + n

\* g[j] is the memory after j moves of w bytes going up, and going down.
MovedUp(m, d, s, w, k, g) ==
  g = [j \in 0 .. k |-> IF j = 0 THEN m
                        ELSE Chunk(g[j - 1], d + w * (j - 1), s + w * (j - 1), w)]
MovedDown(m, d, s, n, g) ==
  g = [j \in 0 .. n |-> IF j = 0 THEN m ELSE Chunk(g[j - 1], d + n - j, s + n - j, 1)]

\* A loop that goes up copies the whole area, whatever it moves at a time.
LEMMA LoopUp ==
  ASSUME NEW m, m = [i \in DOMAIN m |-> m[i]], NEW d \in Nat, NEW s \in Nat,
         NEW w \in Nat, NEW k \in Nat, NEW n \in Nat, w * k = n,
         d <= s \/ d >= s + n, s .. s + n - 1 \subseteq DOMAIN m
  PROVE  MoveUp(m, d, s, w, k) = Chunk(m, d, s, n)
<1> DEFINE h == [j \in 0 .. k |-> Chunk(m, d, s, w * j)]
<1>1. ASSUME NEW j \in 0 .. k, j # 0
      PROVE  Chunk(Chunk(m, d, s, w * (j - 1)), d + w * (j - 1), s + w * (j - 1), w)
             = Chunk(m, d, s, w * j)
  <2>1. /\ j - 1 \in Nat /\ w * (j - 1) \in Nat /\ w * j \in Nat
        /\ w * j = w * (j - 1) + w /\ w * j <= w * k
    BY <1>1
  <2> DEFINE a == w * (j - 1)
  <2>2. a \in Nat /\ a + w = w * j /\ a + w <= n
    BY <2>1
  <2> HIDE DEF a
  <2>3. d <= s \/ d >= s + a + w
    BY <2>2
  <2>4. s .. s + a + w - 1 \subseteq DOMAIN m
    BY <2>2
  <2>5. Chunk(Chunk(m, d, s, a), d + a, s + a, w) = Chunk(m, d, s, a + w)
    BY <2>2, <2>3, <2>4, ChunksUp
  <2> QED
    BY <2>2, <2>5 DEF a
<1>2. w * 0 = 0 /\ Chunk(m, d, s, 0) = m
  <2>1. Chunk(m, d, s, 0) = m
    BY ChunkNone
  <2>2. w * 0 = 0
    OBVIOUS
  <2> QED
    BY <2>1, <2>2
<1>3. MovedUp(m, d, s, w, k, h)
  <2>1. ASSUME NEW j \in 0 .. k
        PROVE  Chunk(m, d, s, w * j) =
                 IF j = 0 THEN m ELSE Chunk(h[j - 1], d + w * (j - 1), s + w * (j - 1), w)
    <3>1. j # 0 => j - 1 \in 0 .. k
      OBVIOUS
    <3> QED
      BY <1>1, <1>2, <3>1
  <2> QED
    BY <2>1 DEF MovedUp
<1> HIDE DEF h
<1> DEFINE after == CHOOSE g : MovedUp(m, d, s, w, k, g)
<1>4. MovedUp(m, d, s, w, k, after)
  BY <1>3, Zenon
<1>5. MoveUp(m, d, s, w, k) = after[k]
  BY Zenon DEF MoveUp, MovedUp
<1> HIDE DEF after
<1> DEFINE X == {j \in Nat : j <= k => after[j] = Chunk(m, d, s, w * j)}
<1>6. 0 \in X
  BY <1>2, <1>4 DEF MovedUp
<1>7. ASSUME NEW j \in Nat, j \in X
      PROVE  j + 1 \in X
  <2> SUFFICES ASSUME j + 1 <= k PROVE after[j + 1] = Chunk(m, d, s, w * (j + 1))
    OBVIOUS
  <2>1. j + 1 \in 0 .. k /\ j + 1 # 0 /\ (j + 1) - 1 = j /\ j <= k
    OBVIOUS
  <2>2. after[j + 1] = Chunk(after[j], d + w * j, s + w * j, w)
    BY <1>4, <2>1 DEF MovedUp
  <2>3. after[j] = Chunk(m, d, s, w * j)
    BY <1>7, <2>1
  <2>4. Chunk(Chunk(m, d, s, w * j), d + w * j, s + w * j, w) = Chunk(m, d, s, w * (j + 1))
    BY <1>1, <2>1
  <2> QED
    BY <2>2, <2>3, <2>4
<1> HIDE DEF X
<1>8. Nat \subseteq X
  BY <1>6, <1>7, SetInduction
<1> QED
  BY <1>5, <1>8 DEF X

LEMMA MoveUpCopies ==
  ASSUME NEW m, NEW d, NEW s, NEW n, Copyable(m, d, s, n), Upwards(d, s, n),
         NEW w \in Nat, NEW k \in Nat, w * k = n
  PROVE  MoveUp(m, d, s, w, k) = Chunk(m, d, s, n)
BY LoopUp DEF Copyable, Upwards

\* So does one that goes down a byte at a time, if the area is not moved down.
LEMMA MoveDownCopies ==
  ASSUME NEW m, NEW d, NEW s, NEW n, Copyable(m, d, s, n), d >= s
  PROVE  MoveDown(m, d, s, n) = Chunk(m, d, s, n)
<1>0. /\ m = [i \in DOMAIN m |-> m[i]] /\ d \in Nat /\ s \in Nat /\ n \in Nat
      /\ s .. s + n - 1 \subseteq DOMAIN m
  BY DEF Copyable
<1> DEFINE upper(j) == Chunk(m, d + n - j, s + n - j, j)
           h == [j \in 0 .. n |-> upper(j)]
<1>1. ASSUME NEW j \in 0 .. n, j # 0
      PROVE  Chunk(upper(j - 1), d + n - j, s + n - j, 1) = upper(j)
  <2> DEFINE to == d + n - j
             from == s + n - j
             a == j - 1
  <2>1. /\ to \in Nat /\ from \in Nat /\ a \in Nat /\ 1 \in Nat /\ to >= from
        /\ d + n - (j - 1) = to + 1 /\ s + n - (j - 1) = from + 1 /\ a + 1 = j
    BY <1>0, <1>1
  <2>4. from .. from + a + 1 - 1 \subseteq DOMAIN m
    <3>1. from >= s /\ from + a + 1 - 1 = s + n - 1
      BY <1>0, <1>1
    <3> QED
      BY <1>0, <2>1, <3>1
  <2>2. upper(j - 1) = Chunk(m, to + 1, from + 1, a) /\ upper(j) = Chunk(m, to, from, a + 1)
    BY <2>1
  <2> HIDE DEF upper, to, from, a
  <2>3. Chunk(Chunk(m, to + 1, from + 1, a), to, from, 1) = Chunk(m, to, from, a + 1)
    BY <2>1, <2>4, ChunksDown
  <2> QED
    BY <2>2, <2>3 DEF to, from
<1>2. upper(0) = m
  <2>1. d + n - 0 \in Nat /\ s + n - 0 \in Nat
    BY <1>0
  <2> QED
    BY <1>0, <2>1, ChunkNone
<1>3. upper(n) = Chunk(m, d, s, n)
  <2>1. d + n - n = d /\ s + n - n = s
    BY <1>0
  <2> QED
    BY <2>1
<1> HIDE DEF upper
<1>4. MovedDown(m, d, s, n, h)
  <2>1. ASSUME NEW j \in 0 .. n
        PROVE  upper(j) = IF j = 0 THEN m ELSE Chunk(h[j - 1], d + n - j, s + n - j, 1)
    <3>1. j # 0 => j - 1 \in 0 .. n
      BY <1>0
    <3> QED
      BY <1>1, <1>2, <3>1
  <2> QED
    BY <2>1 DEF MovedDown
<1> HIDE DEF h
<1> DEFINE after == CHOOSE g : MovedDown(m, d, s, n, g)
<1>5. MovedDown(m, d, s, n, after)
  BY <1>4, Zenon
<1>6. MoveDown(m, d, s, n) = after[n]
  BY Zenon DEF MoveDown, MovedDown
<1> HIDE DEF after
<1> DEFINE X == {j \in Nat : j <= n => after[j] = upper(j)}
<1>7. 0 \in X
  BY <1>2, <1>5 DEF MovedDown
<1>8. ASSUME NEW j \in Nat, j \in X
      PROVE  j + 1 \in X
  <2> SUFFICES ASSUME j + 1 <= n PROVE after[j + 1] = upper(j + 1)
    OBVIOUS
  <2>1. j + 1 \in 0 .. n /\ j + 1 # 0 /\ (j + 1) - 1 = j /\ j <= n
    BY <1>0
  <2>2. after[j + 1] = Chunk(after[j], d + n - (j + 1), s + n - (j + 1), 1)
    BY <1>5, <2>1 DEF MovedDown
  <2>3. after[j] = upper(j)
    BY <1>8, <2>1
  <2>4. Chunk(upper(j), d + n - (j + 1), s + n - (j + 1), 1) = upper(j + 1)
    BY <1>1, <2>1
  <2> QED
    BY <2>2, <2>3, <2>4
<1> HIDE DEF X
<1>9. Nat \subseteq X
  BY <1>7, <1>8, SetInduction
<1> QED
  BY <1>0, <1>3, <1>6, <1>9 DEF X

----------------------------------------------------------------------------
(* The operations on areas.                                                *)

\* The remainders by four and by two.
LEMMA Remainders ==
  ASSUME NEW n \in Nat
  PROVE  /\ n \div 4 \in Nat /\ n \div 2 \in Nat /\ n % 2 \in 0 .. 1 /\ (n \div 2) % 2 \in 0 .. 1
         /\ n % 4 = 0 => n = 4 * (n \div 4)
         /\ n % 4 = 2 => n = 4 * (n \div 4) + 2
         /\ n = (n % 2) + 2 * ((n \div 2) % 2) + 4 * (n \div 4)
         /\ n = 2 * (n \div 2) + (n % 2)
<1> DEFINE q == n \div 4
           e == n \div 2
           f == e \div 2
           u == n % 4
           v == n % 2
           w == e % 2
<1>1. q \in Nat /\ u \in Nat /\ u < 4 /\ n = 4 * q + u
  BY Division
<1>2. e \in Nat /\ v \in Nat /\ v < 2 /\ n = 2 * e + v
  BY Division
<1> HIDE DEF q, e, u, v
<1>3. f \in Nat /\ w \in Nat /\ w < 2 /\ e = 2 * f + w
  BY <1>2, Division
<1> HIDE DEF f, w
<1>4. f = q
  BY <1>1, <1>2, <1>3
<1>5. /\ q \in Nat /\ e \in Nat /\ v \in 0 .. 1 /\ w \in 0 .. 1
      /\ u = 0 => n = 4 * q
      /\ u = 2 => n = 4 * q + 2
      /\ n = v + 2 * w + 4 * q
      /\ n = 2 * e + v
  BY <1>1, <1>2, <1>3, <1>4
<1> QED
  BY <1>5 DEF q, e, u, v, w

\* A first part of n bytes that has been copied, and the rest as one move.
LEMMA RestCopied ==
  ASSUME NEW m, NEW d, NEW s, NEW n, Copyable(m, d, s, n), Upwards(d, s, n),
         NEW a \in Nat, NEW b \in Nat, a + b = n
  PROVE  Chunk(Chunk(m, d, s, a), d + a, s + a, b) = Chunk(m, d, s, n)
BY ChunksUp DEF Copyable, Upwards

\* A first part of n bytes has been copied, and a loop copies the rest.
LEMMA RestMoved ==
  ASSUME NEW m, NEW d, NEW s, NEW n, Copyable(m, d, s, n), Upwards(d, s, n),
         NEW a \in Nat, NEW w \in Nat, NEW k \in Nat, a + w * k = n
  PROVE  MoveUp(Chunk(m, d, s, a), d + a, s + a, w, k) = Chunk(m, d, s, n)
<1> DEFINE first == Chunk(m, d, s, a)
           b == w * k
<1>1. b \in Nat /\ a + b = n
  OBVIOUS
<1> HIDE DEF b
<1>2. first = [i \in DOMAIN first |-> first[i]] /\ DOMAIN first = DOMAIN m
  BY DEF Chunk
<1>3. \A i \in s + a .. s + a + b - 1 : i \in s .. s + n - 1
  BY <1>1 DEF Copyable
<1> HIDE DEF first
<1>4. Copyable(first, d + a, s + a, b) /\ Upwards(d + a, s + a, b)
  BY <1>1, <1>2, <1>3 DEF Copyable, Upwards
<1>5. MoveUp(first, d + a, s + a, w, k) = Chunk(first, d + a, s + a, b)
  BY <1>4, MoveUpCopies DEF b
<1> QED
  BY <1>1, <1>5, RestCopied DEF first

\* Each variant of memcpy copies the area, when it is used on what it is for.
LEMMA MemcpyCopies ==
  ASSUME NEW m, NEW d, NEW s, NEW n, Copyable(m, d, s, n), Upwards(d, s, n)
  PROVE  /\ n % 4 = 0 => memcpy_by4(m, d, s, n) = Chunk(m, d, s, n)
         /\ n % 4 = 2 => memcpy_by2(m, d, s, n) = Chunk(m, d, s, n)
         /\ memcpy_g(m, d, s, n) = Chunk(m, d, s, n)
<1> DEFINE k == n \div 4
           b == n % 2
           h == 2 * ((n \div 2) % 2)
<1>1. n \in Nat /\ d \in Nat /\ s \in Nat
  BY DEF Copyable
<1>2. /\ k \in Nat /\ b \in Nat /\ h \in Nat /\ b + h \in Nat /\ (b + h) + 4 * k = n
      /\ n % 4 = 0 => 4 * k = n
      /\ n % 4 = 2 => 4 * k + 2 = n
  BY <1>1, Remainders
<1> HIDE DEF k, b, h
<1>3. ASSUME n % 4 = 0
      PROVE  MoveUp(m, d, s, 4, k) = Chunk(m, d, s, n)
  BY <1>2, <1>3, MoveUpCopies
<1>4. ASSUME n % 4 = 2
      PROVE  Chunk(MoveUp(m, d, s, 4, k), d + 4 * k, s + 4 * k, 2) = Chunk(m, d, s, n)
  <2> DEFINE a == 4 * k
  <2>1. a \in Nat /\ a + 2 = n /\ a <= n
    BY <1>1, <1>2, <1>4
  <2>2. Copyable(m, d, s, a) /\ Upwards(d, s, a)
    <3> HIDE DEF a
    <3>1. \A i \in s .. s + a - 1 : i \in s .. s + n - 1
      BY <1>1, <2>1
    <3> QED
      BY <1>1, <2>1, <3>1 DEF Copyable, Upwards
  <2>3. MoveUp(m, d, s, 4, k) = Chunk(m, d, s, a)
    BY <1>2, <2>2, MoveUpCopies
  <2> HIDE DEF a
  <2>4. Chunk(Chunk(m, d, s, a), d + a, s + a, 2) = Chunk(m, d, s, n)
    BY <2>1, RestCopied
  <2> QED
    BY <2>3, <2>4 DEF a
<1>5. MoveUp(Chunk(Chunk(m, d, s, b), d + b, s + b, h), d + b + h, s + b + h, 4, k)
      = Chunk(m, d, s, n)
  <2> DEFINE c == b + h
  <2>1. c \in Nat /\ c + 4 * k = n /\ c <= n /\ d + b + h = d + c /\ s + b + h = s + c
    BY <1>1, <1>2
  <2>2. Copyable(m, d, s, c) /\ Upwards(d, s, c)
    <3> HIDE DEF c
    <3>1. \A i \in s .. s + c - 1 : i \in s .. s + n - 1
      BY <1>1, <2>1
    <3> QED
      BY <1>1, <2>1, <3>1 DEF Copyable, Upwards
  <2>3. Chunk(Chunk(m, d, s, b), d + b, s + b, h) = Chunk(m, d, s, c)
    BY <1>2, <2>2, RestCopied
  <2> HIDE DEF c
  <2>4. MoveUp(Chunk(m, d, s, c), d + c, s + c, 4, k) = Chunk(m, d, s, n)
    BY <1>2, <2>1, RestMoved
  <2> QED
    BY <2>1, <2>3, <2>4
<1>6. n % 4 = 0 => memcpy_by4(m, d, s, n) = Chunk(m, d, s, n)
  BY <1>3 DEF memcpy_by4, k
<1>7. n % 4 = 2 => memcpy_by2(m, d, s, n) = Chunk(m, d, s, n)
  BY <1>4 DEF memcpy_by2, k
<1>8. memcpy_g(m, d, s, n) = Chunk(m, d, s, n)
  BY <1>5 DEF memcpy_g, k, b, h
<1> QED
  BY <1>6, <1>7, <1>8

\* memmove copies any area to anywhere, over itself too.
LEMMA MemmoveCopies ==
  ASSUME NEW m, NEW d, NEW s, NEW n, Copyable(m, d, s, n)
  PROVE  memmove(m, d, s, n) = Chunk(m, d, s, n)
<1>1. CASE d < s
  <2>1. n \in Nat /\ 1 * n = n /\ Upwards(d, s, n) /\ 1 \in Nat
    BY <1>1 DEF Copyable, Upwards
  <2>2. MoveUp(m, d, s, 1, n) = Chunk(m, d, s, n)
    BY <2>1, MoveUpCopies
  <2> QED
    BY <1>1, <2>2 DEF memmove
<1>2. CASE ~(d < s)
  <2>1. d >= s
    BY <1>2 DEF Copyable
  <2>2. MoveDown(m, d, s, n) = Chunk(m, d, s, n)
    BY <2>1, MoveDownCopies
  <2> QED
    BY <1>2, <2>2 DEF memmove
<1> QED
  BY <1>1, <1>2

\* Two stores to areas next to each other are one.
LEMMA StoresJoin ==
  ASSUME NEW m, NEW d \in Nat, NEW a \in Nat, NEW b \in Nat, NEW c
  PROVE  Store(Store(m, d, a, c), d + a, b, c) = Store(m, d, a + b, c)
<1>1. \A i : i \in d .. d + (a + b) - 1 <=> i \in d .. d + a - 1 \/ i \in d + a .. (d + a) + b - 1
  OBVIOUS
<1> QED
  BY <1>1 DEF Store

\* Each variant of memset sets the area.
LEMMA MemsetSets ==
  ASSUME NEW m, NEW d \in Nat, NEW c, NEW n \in Nat
  PROVE  /\ n % 4 = 0 => memset_by4(m, d, c, n) = Store(m, d, n, c)
         /\ n % 4 = 2 => memset_by2(m, d, c, n) = Store(m, d, n, c)
         /\ memset_cg(m, d, c, n) = Store(m, d, n, c)
<1> DEFINE four == 4 * (n \div 4)
           two == 2 * (n \div 2)
           odd == n % 2
<1>1. /\ four \in Nat /\ two \in Nat /\ odd \in Nat /\ 2 \in Nat
      /\ n % 4 = 0 => four = n
      /\ n % 4 = 2 => four + 2 = n
      /\ two + odd = n
  BY Remainders
<1> HIDE DEF four, two, odd
<1>2. n % 4 = 2 => Store(Store(m, d, four, c), d + four, 2, c) = Store(m, d, n, c)
  BY <1>1, StoresJoin
<1>3. Store(Store(m, d, two, c), d + two, odd, c) = Store(m, d, n, c)
  BY <1>1, StoresJoin
<1>4. n % 4 = 0 => memset_by4(m, d, c, n) = Store(m, d, n, c)
  BY <1>1 DEF memset_by4, four
<1>5. n % 4 = 2 => memset_by2(m, d, c, n) = Store(m, d, n, c)
  BY <1>2 DEF memset_by2, four
<1>6. memset_cg(m, d, c, n) = Store(m, d, n, c)
  BY <1>3 DEF memset_cg, two, odd
<1> QED
  BY <1>4, <1>5, <1>6

----------------------------------------------------------------------------
(* CopiesExactly.                                                          *)

\* What an operation on an area is to leave.
Wanted(l) ==
  [a \in DOMAIN l.old |->
     IF a \notin Area(l.d, l.n) THEN l.old[a]
     ELSE IF l.fn = "memset" THEN l.s ELSE l.old[a - l.d + l.s]]

\* An area was copied or set as it was to be, and nothing is printed behind it.
AreaInv ==
  /\ last.fn \in {"memcpy", "memmove", "memset"} => mem = Wanted(last)
  /\ last # NoCall => out.pc = "idle"

\* One move of n bytes, or one store, is that.
LEMMA ChunkWanted ==
  ASSUME NEW m, NEW d \in Nat, NEW s \in Nat, NEW n \in Nat, NEW fn \in {"memcpy", "memmove"}
  PROVE  Chunk(m, d, s, n) = Wanted([fn |-> fn, d |-> d, s |-> s, n |-> n, old |-> m])
<1>1. ASSUME NEW a \in d .. d + n - 1
      PROVE  s + a - d = a - d + s
  OBVIOUS
<1> QED
  BY <1>1 DEF Chunk, Wanted, Area

LEMMA StoreWanted ==
  ASSUME NEW m, NEW d, NEW c, NEW n
  PROVE  Store(m, d, n, c) = Wanted([fn |-> "memset", d |-> d, s |-> c, n |-> n, old |-> m])
BY DEF Store, Wanted, Area

\* Areas at Places of up to MaxCount bytes lie in the memory.
LEMMA AreasInMemory ==
  ASSUME mem \in Blocks, NEW d \in Places, NEW s \in Places, NEW n \in Counts
  PROVE  Copyable(mem, d, s, n)
<1>1. /\ mem \in [DOMAIN Scratch -> 0 .. 255] /\ d \in Nat /\ s \in Nat /\ n \in Nat
      /\ MaxCount \in Nat /\ n <= MaxCount /\ s .. s + MaxCount - 1 \subseteq DOMAIN Scratch
  BY LibraryAssumption DEF Counts
<1>2. DOMAIN mem = DOMAIN Scratch /\ mem = [i \in DOMAIN mem |-> mem[i]]
  BY <1>1
<1>3. \A i \in s .. s + n - 1 : i \in s .. s + MaxCount - 1
  BY <1>1
<1> QED
  BY <1>1, <1>2, <1>3 DEF Copyable

LEMMA MemcpyWanted ==
  ASSUME mem \in Blocks, NEW d \in Places, NEW s \in Places, NEW n \in Counts, Memcpy(d, s, n)
  PROVE  /\ mem' = Wanted(last') /\ last'.fn = "memcpy" /\ out' = out
<1>1. Copyable(mem, d, s, n)
  BY AreasInMemory
<1>2. d \in Nat /\ s \in Nat /\ n \in Nat
  BY <1>1 DEF Copyable
<1>3. Upwards(d, s, n)
  BY DEF Memcpy, Upwards
<1>4. /\ n % 4 = 0 => memcpy_by4(mem, d, s, n) = Chunk(mem, d, s, n)
      /\ n % 4 = 2 => memcpy_by2(mem, d, s, n) = Chunk(mem, d, s, n)
      /\ memcpy_g(mem, d, s, n) = Chunk(mem, d, s, n)
  BY <1>1, <1>3, MemcpyCopies
<1>5. Writes("memcpy", d, s, n, Chunk(mem, d, s, n))
  BY <1>4 DEF Memcpy
<1>6. Chunk(mem, d, s, n)
      = Wanted([fn |-> "memcpy", d |-> d, s |-> s, n |-> n, old |-> mem])
  BY <1>2, ChunkWanted
<1> QED
  BY <1>5, <1>6 DEF Writes, Others

LEMMA MemmoveWanted ==
  ASSUME mem \in Blocks, NEW d \in Places, NEW s \in Places, NEW n \in Counts, Memmove(d, s, n)
  PROVE  /\ mem' = Wanted(last') /\ last'.fn = "memmove" /\ out' = out
<1>1. Copyable(mem, d, s, n)
  BY AreasInMemory
<1>2. d \in Nat /\ s \in Nat /\ n \in Nat
  BY <1>1 DEF Copyable
<1>3. memmove(mem, d, s, n) = Chunk(mem, d, s, n)
  BY <1>1, MemmoveCopies
<1>4. Chunk(mem, d, s, n)
      = Wanted([fn |-> "memmove", d |-> d, s |-> s, n |-> n, old |-> mem])
  BY <1>2, ChunkWanted
<1> QED
  BY <1>3, <1>4 DEF Memmove, Writes, Others

LEMMA MemsetWanted ==
  ASSUME NEW d \in Places, NEW c, NEW n \in Counts, Memset(d, c, n)
  PROVE  /\ mem' = Wanted(last') /\ last'.fn = "memset" /\ out' = out
<1>1. d \in Nat /\ n \in Nat
  BY LibraryAssumption DEF Counts
<1>2. Writes("memset", d, c, n, Store(mem, d, n, c))
  BY <1>1, MemsetSets DEF Memset
<1> QED
  BY <1>2, StoreWanted DEF Writes, Others

\* Only an operation on an area changes what it is judged by.
LEMMA AreaStep == AreaInv /\ [Next]_vars => AreaInv'
<1> SUFFICES ASSUME AreaInv, [Next]_vars PROVE AreaInv'
  OBVIOUS
<1>1. CASE CopyArea
  <2>1. mem \in Blocks /\ out.pc = "idle"
    BY <1>1 DEF CopyArea, Idle, Resting
  <2>2. mem' = Wanted(last') /\ out' = out
    BY <1>1, <2>1, MemcpyWanted, MemmoveWanted DEF CopyArea
  <2> QED
    BY <2>1, <2>2 DEF AreaInv
<1>2. CASE SetArea
  <2>1. out.pc = "idle"
    BY <1>2 DEF SetArea, Idle, Resting
  <2>2. mem' = Wanted(last') /\ out' = out
    BY <1>2, MemsetWanted DEF SetArea
  <2> QED
    BY <2>1, <2>2 DEF AreaInv
<1>3. CASE CopyString
  <2>1. out.pc = "idle"
    BY <1>3 DEF CopyString, Idle, Resting
  <2>2. last'.fn \in {"strcpy", "strncpy", "strcat", "strncat"} /\ out' = out
    BY <1>3 DEF CopyString, Strcpy, Strncpy, Strcat, Strncat, Writes, Others
  <2> QED
    BY <2>1, <2>2 DEF AreaInv
<1>4. CASE Snprintf
  BY <1>4 DEF Snprintf, Idle, Resting, AreaInv, NoCall
<1>5. CASE Printing
  <2>1. out.pc = "items"
    BY <1>5 DEF Printing, FormatStep, Put, Literal, CharConversion, StringConversion,
                PointerConversion, CountConversion, PercentConversion, NumberConversion,
                UnknownConversion, Terminate, At, Ready
  <2>2. last = NoCall /\ last' = last
    BY <1>5, <2>1 DEF Printing, AreaInv
  <2> QED
    BY <2>2 DEF AreaInv, NoCall
<1>6. CASE UNCHANGED <<mem, out, last>>
  BY <1>6 DEF AreaInv, Wanted, Area
<1>7. Sscanf \/ ReadBack \/ Parse \/ Scanning \/ Searching \/ Describe \/ UNCHANGED vars
      => UNCHANGED <<mem, out, last>>
  BY DEF Sscanf, ReadBack, Parse, Scanning, Searching, Describe, vars
<1> QED
  BY <1>1, <1>2, <1>3, <1>4, <1>5, <1>6, <1>7 DEF Next

\* Whichever variant of memcpy, memmove or memset a count selects, exactly the bytes
\* asked for are written, for any count and any memory: memcpy on areas that do not
\* overlap upwards, memmove on any.
THEOREM AreasCopied == Spec => []CopiesExactly
<1>1. Init => AreaInv
  BY DEF Init, AreaInv, NoCall, OutIdle
<1>2. AreaInv => CopiesExactly
  <2> SUFFICES ASSUME AreaInv, last.fn \in {"memcpy", "memmove", "memset"}
               PROVE  mem = [a \in Cells |->
                               IF a \notin Area(last.d, last.n) THEN last.old[a]
                               ELSE IF last.fn = "memset" THEN last.s
                               ELSE last.old[a - last.d + last.s]]
    BY DEF CopiesExactly
  <2>1. mem = Wanted(last)
    BY DEF AreaInv
  <2>2. DOMAIN mem = DOMAIN last.old
    BY <2>1 DEF Wanted
  <2> QED
    BY <2>1, <2>2 DEF Wanted, Cells
<1> QED
  BY <1>1, <1>2, AreaStep, PTL DEF Spec

----------------------------------------------------------------------------
(* Fields of descriptors.                                                  *)

\* The numbers of values.
LEMMA BitNumbers ==
  /\ Digit \in Nat \ {0} /\ Bits8 \in Nat \ {0} /\ Bits12 \in Nat \ {0}
  /\ Bits16 \in Nat \ {0} /\ Bits20 \in Nat \ {0} /\ Bits24 \in Nat \ {0} /\ Bits32 \in Nat \ {0}
<1>1. ASSUME NEW a \in Nat \ {0}, NEW b \in Nat \ {0}
      PROVE  a * b \in Nat \ {0}
  OBVIOUS
<1>2. Digit \in Nat \ {0}
  BY DescriptorAssumption
<1>3. Bits8 \in Nat \ {0}
  BY <1>1, <1>2 DEF Bits8
<1>4. Bits12 \in Nat \ {0} /\ Bits16 \in Nat \ {0}
  BY <1>1, <1>2, <1>3 DEF Bits12, Bits16
<1>5. Bits20 \in Nat \ {0} /\ Bits24 \in Nat \ {0} /\ Bits32 \in Nat \ {0}
  BY <1>1, <1>2, <1>3, <1>4 DEF Bits20, Bits24, Bits32
<1> QED
  BY <1>2, <1>3, <1>4, <1>5

\* The order in which factors are multiplied does not matter.
LEMMA BitProducts ==
  /\ Bits20 = Bits16 * Digit /\ Bits24 = Bits16 * Bits8 /\ Bits32 = Bits24 * Bits8
  /\ Bits32 = Bits12 * Bits20
<1>1. ASSUME NEW a \in Nat, NEW b \in Nat, NEW c \in Nat
      PROVE  a * b = b * a /\ (a * b) * c = a * (b * c)
  OBVIOUS
<1>2. /\ Digit \in Nat /\ Bits8 \in Nat /\ Bits16 \in Nat /\ Bits12 \in Nat
  BY BitNumbers
<1>3. Bits20 = Bits16 * Digit /\ Bits24 = Bits16 * Bits8
  BY <1>1, <1>2 DEF Bits20, Bits24
<1>4. Bits24 * Bits8 = Bits16 * (Bits8 * Bits8)
  BY <1>1, <1>2, <1>3
<1>5. Bits12 * Bits20 = Bits32
  <2>1. Bits12 * Bits20 = (Digit * Bits8) * (Bits16 * Digit)
    BY <1>3 DEF Bits12
  <2>2. (Digit * Bits8) * (Bits16 * Digit) = ((Bits8 * Digit) * Digit) * Bits16
    <3>1. Bits16 * Digit \in Nat /\ Digit * Bits8 \in Nat /\ Bits8 * Digit \in Nat
      BY <1>2
    <3>2. (Digit * Bits8) * (Bits16 * Digit) = (Digit * Bits8) * (Digit * Bits16)
      BY <1>1, <1>2
    <3>3. (Digit * Bits8) * (Digit * Bits16) = ((Digit * Bits8) * Digit) * Bits16
      BY <1>1, <1>2, <3>1
    <3> QED
      BY <1>1, <1>2, <3>2, <3>3
  <2>3. (Bits8 * Digit) * Digit = Bits8 * (Digit * Digit)
    BY <1>1, <1>2
  <2> QED
    BY <2>1, <2>2, <2>3 DEF Bits8, Bits16, Bits32
<1> QED
  BY <1>3, <1>4, <1>5 DEF Bits16, Bits32

\* A number below a product has a quotient below the other factor.
LEMMA Below ==
  ASSUME NEW a \in Nat, NEW b \in Nat \ {0}, NEW n \in Nat, a < b * n
  PROVE  a \div b \in Nat /\ a \div b < n
<1>1. b * n = n * b
  OBVIOUS
<1>2. a \div b \in 0 .. n - 1
  BY <1>1, DivLess
<1> QED
  BY <1>2

\* The three fields of a base are put together again.
LEMMA BaseRead ==
  ASSUME NEW base \in 0 .. Bits32 - 1
  PROVE  /\ base % Bits16 \in Nat /\ (base \div Bits16) % Bits8 \in Nat
         /\ (base \div Bits24) % Bits8 \in Nat
         /\ (base % Bits16)
            + Bits16 * (((base \div Bits16) % Bits8) + Bits8 * ((base \div Bits24) % Bits8))
            = base
<1> DEFINE r == base % Bits16
           q == base \div Bits16
           u == q % Bits8
           t == q \div Bits8
<1>1. /\ Bits8 \in Nat \ {0} /\ Bits16 \in Nat \ {0} /\ Bits24 \in Nat \ {0} /\ Bits32 \in Nat \ {0}
      /\ base \in Nat /\ base < Bits32
  BY BitNumbers
<1>2. q \in Nat /\ r \in Nat /\ r < Bits16 /\ base = Bits16 * q + r
  BY <1>1, Division
<1> HIDE DEF q, r
<1>3. t \in Nat /\ u \in Nat /\ u < Bits8 /\ q = Bits8 * t + u
  BY <1>1, <1>2, Division
<1> HIDE DEF t, u
<1> DEFINE rest == Bits16 * u + r
<1>4. rest \in Nat /\ rest < Bits24
  <2>1. /\ Bits16 * u \in Nat /\ Bits16 * (u + 1) = Bits16 * u + Bits16
        /\ u + 1 <= Bits8
    BY <1>1, <1>3
  <2>2. Bits16 * (u + 1) <= Bits16 * Bits8
    BY <1>1, <1>3, <2>1, Cancel
  <2> QED
    BY <1>1, <1>2, <2>1, <2>2, BitProducts
<1>5. base = Bits24 * t + rest
  <2>1. Bits16 * (Bits8 * t + u) = Bits16 * (Bits8 * t) + Bits16 * u
    BY <1>1, <1>3
  <2>2. Bits16 * (Bits8 * t) = (Bits16 * Bits8) * t
    BY <1>1, <1>3
  <2>3. Bits16 * (Bits8 * t) \in Nat /\ Bits16 * u \in Nat
    BY <1>1, <1>3
  <2> QED
    BY <1>2, <1>3, <2>1, <2>2, <2>3, BitProducts
<1> HIDE DEF rest
<1>6. base \div Bits24 = t
  BY <1>1, <1>3, <1>4, <1>5, DivUnique
<1>7. t % Bits8 = t
  <2>1. base < Bits24 * Bits8
    BY <1>1, BitProducts
  <2>2. t < Bits8
    BY <1>1, <1>6, <2>1, Below
  <2> QED
    BY <1>1, <1>3, <2>2, ModSmall
<1>8. r + Bits16 * (u + Bits8 * t) = base
  <2>1. u + Bits8 * t = q
    BY <1>1, <1>3
  <2>2. Bits16 * q \in Nat
    BY <1>1, <1>2
  <2> QED
    BY <1>2, <2>1, <2>2
<1> QED
  BY <1>2, <1>3, <1>6, <1>7, <1>8 DEF r, q, u

\* The two parts of a gate's handler are put together again.
LEMMA HandlerRead ==
  ASSUME NEW handler \in 0 .. Bits32 - 1
  PROVE  /\ handler % Bits16 \in Nat /\ handler \div Bits16 \in Nat
         /\ (handler % Bits16) + Bits16 * (handler \div Bits16) = handler
<1> DEFINE r == handler % Bits16
           q == handler \div Bits16
<1>1. Bits16 \in Nat \ {0} /\ Bits32 \in Nat \ {0} /\ handler \in Nat
  BY BitNumbers
<1>2. q \in Nat /\ r \in Nat /\ handler = Bits16 * q + r
  BY <1>1, Division
<1> HIDE DEF q, r
<1>3. r + Bits16 * q = handler
  <2>1. Bits16 * q \in Nat
    BY <1>1, <1>2
  <2> QED
    BY <1>2, <2>1
<1> QED
  BY <1>2, <1>3 DEF q, r

\* The bits of the field that a limit shares with the two flags.
LEMMA FlagNumbers ==
  /\ Big \in Nat /\ Page \in Nat /\ Page = Big + Big /\ Digit <= Big
  /\ \E k \in Nat : Big = Digit * k
<1> DEFINE k == Digit \div 4
<1>1. Digit \in Nat \ {0} /\ Digit % 4 = 0
  BY DescriptorAssumption
<1>2. k \in Nat /\ Digit = 4 * k
  BY <1>1, Quotient
<1>3. Digit \div 2 = 2 * k
  <2>1. (2 * (2 * k) + 0) \div 2 = 2 * k
    <3>1. 2 * k \in Nat /\ 0 \in Nat /\ 2 \in Nat \ {0} /\ 0 < 2
      BY <1>2
    <3> QED
      BY <3>1, DivUnique
  <2>2. Digit = 2 * (2 * k) + 0
    BY <1>2
  <2> QED
    BY <2>1, <2>2
<1>4. Big = k * Digit
  BY DEF Big
<1>5. Page = (2 * k) * Digit
  BY <1>3 DEF Page
<1> HIDE DEF k
<1>6. /\ k * Digit \in Nat /\ (2 * k) * Digit = k * Digit + k * Digit /\ k * Digit = Digit * k
  BY <1>1, <1>2
<1>7. Digit <= Digit * k
  <2>1. 1 <= k
    BY <1>1, <1>2
  <2>2. Digit * 1 <= Digit * k
    BY <1>1, <1>2, <2>1, Cancel
  <2> QED
    BY <1>1, <2>2
<1> QED
  BY <1>2, <1>4, <1>5, <1>6, <1>7

\* The upper part of a limit and the flags are told apart again.
LEMMA LimitHighRead ==
  ASSUME NEW old, NEW limit, NEW u \in Nat, u < Digit,
         (Units(limit) \div Bits16) % Digit = u
  PROVE  /\ LimitHigh(old, limit) \in Nat
         /\ LimitHigh(old, limit) % Digit = u
         /\ LimitHigh(old, limit) >= Page <=> Coarse(limit)
<1>1. Digit \in Nat \ {0}
  BY BitNumbers
<1>2. PICK k \in Nat : Big = Digit * k
  BY FlagNumbers
<1>3. Big \in Nat /\ Page \in Nat /\ Page = Big + Big /\ Digit <= Big
  BY FlagNumbers
<1>4. ASSUME NEW a \in Nat
      PROVE  (Digit * a + u) % Digit = u
  BY <1>1, ModUnique
<1>5. CASE Coarse(limit)
  <2>1. LimitHigh(old, limit) = Big + Page + u
    BY <1>5 DEF LimitHigh
  <2>2. Big + Page = Digit * (3 * k)
    <3>1. Digit * (3 * k) = Digit * k + Digit * k + Digit * k
      BY <1>1
    <3> QED
      BY <1>2, <1>3, <3>1
  <2>3. (Digit * (3 * k) + u) % Digit = u
    <3>1. 3 * k \in Nat
      OBVIOUS
    <3> QED
      BY <1>4, <3>1
  <2> QED
    BY <1>3, <1>5, <2>1, <2>2, <2>3
<1>6. CASE ~Coarse(limit)
  <2>1. LimitHigh(old, limit) = Big + u
    BY <1>3, <1>6 DEF LimitHigh
  <2> QED
    BY <1>1, <1>2, <1>3, <1>4, <1>6, <2>1
<1> QED
  BY <1>5, <1>6

\* The two parts of a number of 20 bits.
LEMMA TwentyBits ==
  ASSUME NEW n \in Nat, n < Bits20
  PROVE  \E q \in Nat, low \in Nat :
           /\ q < Digit /\ q = (n \div Bits16) % Digit /\ low = n % Bits16
           /\ low + Bits16 * q = n
<1> DEFINE low == n % Bits16
           q == n \div Bits16
<1>1. Digit \in Nat \ {0} /\ Bits16 \in Nat \ {0}
  BY BitNumbers
<1>2. low \in Nat /\ n = Bits16 * q + low
  BY <1>1, ModFromDiv
<1>3. q \in Nat /\ q < Digit
  <2>1. n < Bits16 * Digit
    BY BitProducts
  <2> QED
    BY <1>1, <2>1, Below
<1>4. q % Digit = q
  <2> HIDE DEF q
  <2> QED
    BY <1>1, <1>2, <1>3, ModSmall
<1>5. low + Bits16 * q = n
  <2> HIDE DEF q, low
  <2>1. Bits16 * q \in Nat
    BY <1>1, <1>3
  <2> QED
    BY <1>2, <1>3, <2>1
<1> QED
  BY <1>2, <1>3, <1>4, <1>5

\* A limit of up to 20 bits is read as it was set, another one as the last byte of
\* its page.
LEMMA LimitRead ==
  ASSUME NEW limit \in 0 .. Bits32 - 1, NEW old, NEW e,
         e.limitLow = Units(limit) % Bits16, e.limitHigh = LimitHigh(old, limit)
  PROVE  /\ e.limitLow \in Nat /\ e.limitHigh \in Nat
         /\ SegmentLimit(e) \in Nat /\ limit <= SegmentLimit(e)
         /\ SegmentLimit(e) < limit + (IF Coarse(limit) THEN Bits12 ELSE 1)
<1> DEFINE p == limit \div Bits12
<1>1. /\ Digit \in Nat \ {0} /\ Bits12 \in Nat \ {0} /\ Bits16 \in Nat \ {0}
      /\ Bits20 \in Nat \ {0} /\ Bits32 \in Nat \ {0} /\ limit \in Nat /\ limit < Bits32
  BY BitNumbers
<1>2. p \in Nat /\ Bits12 * p <= limit /\ limit < Bits12 * (p + 1) /\ p < Bits20
  <2>1. limit < Bits12 * Bits20
    BY <1>1, BitProducts
  <2> QED
    BY <1>1, <2>1, Quotient, Below
<1>3. PICK n \in Nat : n = Units(limit) /\ n = IF Coarse(limit) THEN p ELSE limit
  BY <1>1, <1>2 DEF Units
<1> HIDE DEF p
<1>4. n < Bits20
  BY <1>1, <1>2, <1>3 DEF Coarse
<1>5. PICK q \in Nat, low \in Nat :
        /\ q < Digit /\ q = (n \div Bits16) % Digit /\ low = n % Bits16
        /\ low + Bits16 * q = n
  BY <1>4, TwentyBits
<1>8. /\ e.limitHigh \in Nat /\ e.limitHigh % Digit = q /\ (e.limitHigh >= Page <=> Coarse(limit))
  <2>1. (Units(limit) \div Bits16) % Digit = q
    BY <1>3, <1>5
  <2> QED
    BY <1>5, <2>1, LimitHighRead
<1>9. e.limitLow = low
  BY <1>3, <1>5
<1>10. e.limitLow + Bits16 * (e.limitHigh % Digit) = n
  BY <1>5, <1>8, <1>9
<1>11. SegmentLimit(e) = IF Coarse(limit) THEN Bits12 * n + Bits12 - 1 ELSE n
  BY <1>8, <1>10 DEF SegmentLimit
<1>12. CASE Coarse(limit)
  <2>1. Bits12 * (p + 1) = Bits12 * p + Bits12 /\ Bits12 * p \in Nat
    BY <1>1, <1>2
  <2> QED
    BY <1>1, <1>2, <1>3, <1>5, <1>8, <1>9, <1>11, <1>12, <2>1
<1>13. CASE ~Coarse(limit)
  BY <1>1, <1>3, <1>5, <1>8, <1>9, <1>11, <1>13
<1> QED
  BY <1>12, <1>13

----------------------------------------------------------------------------
(* DescriptorsRead.                                                        *)

Address == 0 .. Bits32 - 1

\* An entry of the table of segments, and what it was last asked to be.
SegmentOf(e, w) ==
  /\ e \in [limitLow : Nat, baseLow : Nat, baseMiddle : Nat, attributes : Nat,
            limitHigh : Nat, baseHigh : Nat]
  /\ w \in [base : Address, limit : Address, access : Nat]
  /\ SegmentBase(e) = w.base /\ e.attributes = w.access
  /\ w.limit <= SegmentLimit(e)
  /\ SegmentLimit(e) < w.limit + (IF Coarse(w.limit) THEN Bits12 ELSE 1)

GateFlags == {"none", "interrupt", "task", "call"}

GateOf(g, w) ==
  /\ g \in [baseLow : Nat, baseHigh : Nat, flags : GateFlags]
  /\ w \in [handler : Address, flags : GateFlags]
  /\ GateHandler(g) = w.handler /\ g.flags = w.flags

TablesInv ==
  /\ gdt = [i \in Segments |-> gdt[i]] /\ idt = [v \in Vectors |-> idt[v]]
  /\ wanted = [segments |-> [i \in Segments |-> wanted.segments[i]],
               gates |-> [v \in Vectors |-> wanted.gates[v]]]
  /\ \A i \in Segments : SegmentOf(gdt[i], wanted.segments[i])
  /\ \A v \in Vectors : GateOf(idt[v], wanted.gates[v])

\* A setter changes its own fields of an entry, and the others are read as before.
LEMMA BaseSet ==
  ASSUME NEW e, NEW w, SegmentOf(e, w), NEW base \in Address
  PROVE  SegmentOf([e EXCEPT !.baseLow = base % Bits16,
                             !.baseMiddle = (base \div Bits16) % Bits8,
                             !.baseHigh = (base \div Bits24) % Bits8],
                   [w EXCEPT !.base = base])
<1>1. PICK low \in Nat, middle \in Nat, high \in Nat :
        /\ low = base % Bits16 /\ middle = (base \div Bits16) % Bits8
        /\ high = (base \div Bits24) % Bits8
        /\ low + Bits16 * (middle + Bits8 * high) = base
  BY BaseRead DEF Address
<1> DEFINE f == [e EXCEPT !.baseLow = low, !.baseMiddle = middle, !.baseHigh = high]
           x == [w EXCEPT !.base = base]
<1>2. /\ f \in [limitLow : Nat, baseLow : Nat, baseMiddle : Nat, attributes : Nat,
                limitHigh : Nat, baseHigh : Nat]
      /\ f.baseLow = low /\ f.baseMiddle = middle /\ f.baseHigh = high
      /\ f.attributes = e.attributes /\ f.limitLow = e.limitLow /\ f.limitHigh = e.limitHigh
  BY DEF SegmentOf
<1>3. /\ x \in [base : Address, limit : Address, access : Nat]
      /\ x.base = base /\ x.limit = w.limit /\ x.access = w.access
  BY DEF SegmentOf
<1> HIDE DEF f, x
<1>4. SegmentBase(f) = x.base
  BY <1>1, <1>2, <1>3 DEF SegmentBase
<1>5. SegmentLimit(f) = SegmentLimit(e)
  BY <1>2 DEF SegmentLimit
<1>6. SegmentOf(f, x)
  BY <1>2, <1>3, <1>4, <1>5 DEF SegmentOf
<1> QED
  BY <1>1, <1>6 DEF f, x

LEMMA LimitSet ==
  ASSUME NEW e, NEW w, SegmentOf(e, w), NEW limit \in Address
  PROVE  SegmentOf([e EXCEPT !.limitLow = Units(limit) % Bits16,
                             !.limitHigh = LimitHigh(@, limit)],
                   [w EXCEPT !.limit = limit])
<1> DEFINE low == Units(limit) % Bits16
           high == LimitHigh(e.limitHigh, limit)
           f == [e EXCEPT !.limitLow = low, !.limitHigh = high]
           x == [w EXCEPT !.limit = limit]
<1> HIDE DEF low, high
<1>1. f.limitLow = low /\ f.limitHigh = high
  BY DEF SegmentOf
<1>2. /\ f.limitLow \in Nat /\ f.limitHigh \in Nat
      /\ limit <= SegmentLimit(f)
      /\ SegmentLimit(f) < limit + (IF Coarse(limit) THEN Bits12 ELSE 1)
  <2> HIDE DEF f
  <2> QED
    BY <1>1, LimitRead DEF low, high, Address
<1>3. /\ f \in [limitLow : Nat, baseLow : Nat, baseMiddle : Nat, attributes : Nat,
                limitHigh : Nat, baseHigh : Nat]
      /\ f.baseLow = e.baseLow /\ f.baseMiddle = e.baseMiddle /\ f.baseHigh = e.baseHigh
      /\ f.attributes = e.attributes
  BY <1>1, <1>2 DEF SegmentOf
<1>4. /\ x \in [base : Address, limit : Address, access : Nat]
      /\ x.base = w.base /\ x.limit = limit /\ x.access = w.access
  BY DEF SegmentOf
<1> HIDE DEF f, x
<1>5. SegmentBase(f) = SegmentBase(e)
  BY <1>3 DEF SegmentBase
<1>6. SegmentOf(f, x)
  BY <1>2, <1>3, <1>4, <1>5 DEF SegmentOf
<1> QED
  BY <1>6 DEF f, x, low, high

LEMMA AccessSet ==
  ASSUME NEW e, NEW w, SegmentOf(e, w), NEW access \in Nat
  PROVE  SegmentOf([e EXCEPT !.attributes = access], [w EXCEPT !.access = access])
<1> DEFINE f == [e EXCEPT !.attributes = access]
           x == [w EXCEPT !.access = access]
<1>1. /\ f \in [limitLow : Nat, baseLow : Nat, baseMiddle : Nat, attributes : Nat,
                limitHigh : Nat, baseHigh : Nat]
      /\ f.baseLow = e.baseLow /\ f.baseMiddle = e.baseMiddle /\ f.baseHigh = e.baseHigh
      /\ f.attributes = access /\ f.limitLow = e.limitLow /\ f.limitHigh = e.limitHigh
  BY DEF SegmentOf
<1>2. /\ x \in [base : Address, limit : Address, access : Nat]
      /\ x.base = w.base /\ x.limit = w.limit /\ x.access = access
  BY DEF SegmentOf
<1> HIDE DEF f, x
<1>3. SegmentBase(f) = SegmentBase(e) /\ SegmentLimit(f) = SegmentLimit(e)
  BY <1>1 DEF SegmentBase, SegmentLimit
<1>4. SegmentOf(f, x)
  BY <1>1, <1>2, <1>3 DEF SegmentOf
<1> QED
  BY <1>4 DEF f, x

LEMMA GateSet ==
  ASSUME NEW handler \in Address, NEW flags \in GateFlags
  PROVE  GateOf([baseLow |-> handler % Bits16, baseHigh |-> handler \div Bits16, flags |-> flags],
                [handler |-> handler, flags |-> flags])
<1>1. PICK low \in Nat, high \in Nat :
        low = handler % Bits16 /\ high = handler \div Bits16 /\ low + Bits16 * high = handler
  BY HandlerRead DEF Address
<1>2. GateOf([baseLow |-> low, baseHigh |-> high, flags |-> flags],
             [handler |-> handler, flags |-> flags])
  BY <1>1 DEF GateOf, GateHandler
<1> QED
  BY <1>1, <1>2

\* One entry of a table is set, the others stay.
LEMMA OneSegment ==
  ASSUME TablesInv, NEW i \in Segments, NEW e, NEW w, SegmentOf(e, w),
         gdt' = [gdt EXCEPT ![i] = e], wanted' = [wanted EXCEPT !.segments[i] = w],
         UNCHANGED idt
  PROVE  TablesInv'
<1> DEFINE segments == wanted'.segments
           gates == wanted'.gates
<1>1. /\ segments = [j \in Segments |-> IF j = i THEN w ELSE wanted.segments[j]]
      /\ gates = wanted.gates /\ gates = [v \in Vectors |-> wanted.gates[v]]
      /\ wanted' = [segments |-> segments, gates |-> gates]
  BY DEF TablesInv
<1>2. gdt' = [j \in Segments |-> IF j = i THEN e ELSE gdt[j]]
  BY DEF TablesInv
<1> HIDE DEF segments, gates
<1>3. wanted'.segments = segments /\ wanted'.gates = gates
  BY <1>1
<1>4. wanted' = [segments |-> [j \in Segments |-> wanted'.segments[j]],
                 gates |-> [v \in Vectors |-> wanted'.gates[v]]]
  <2>1. segments = [j \in Segments |-> segments[j]] /\ gates = [v \in Vectors |-> gates[v]]
    BY <1>1
  <2> QED
    BY <1>1, <1>3, <2>1
<1>5. \A j \in Segments : SegmentOf(gdt'[j], wanted'.segments[j])
  BY <1>1, <1>2, <1>3 DEF TablesInv
<1>6. \A v \in Vectors : GateOf(idt'[v], wanted'.gates[v])
  BY <1>1, <1>3 DEF TablesInv
<1>7. gdt' = [j \in Segments |-> gdt'[j]] /\ idt' = [v \in Vectors |-> idt'[v]]
  BY <1>2 DEF TablesInv
<1> QED
  BY <1>4, <1>5, <1>6, <1>7 DEF TablesInv

LEMMA OneGate ==
  ASSUME TablesInv, NEW v \in Vectors, NEW g, NEW w, GateOf(g, w),
         idt' = [idt EXCEPT ![v] = g], wanted' = [wanted EXCEPT !.gates[v] = w],
         UNCHANGED gdt
  PROVE  TablesInv'
<1> DEFINE segments == wanted'.segments
           gates == wanted'.gates
<1>1. /\ gates = [j \in Vectors |-> IF j = v THEN w ELSE wanted.gates[j]]
      /\ segments = wanted.segments /\ segments = [j \in Segments |-> wanted.segments[j]]
      /\ wanted' = [segments |-> segments, gates |-> gates]
  BY DEF TablesInv
<1>2. idt' = [j \in Vectors |-> IF j = v THEN g ELSE idt[j]]
  BY DEF TablesInv
<1> HIDE DEF segments, gates
<1>3. wanted'.segments = segments /\ wanted'.gates = gates
  BY <1>1
<1>4. wanted' = [segments |-> [j \in Segments |-> wanted'.segments[j]],
                 gates |-> [j \in Vectors |-> wanted'.gates[j]]]
  <2>1. segments = [j \in Segments |-> segments[j]] /\ gates = [j \in Vectors |-> gates[j]]
    BY <1>1
  <2> QED
    BY <1>1, <1>3, <2>1
<1>5. \A j \in Segments : SegmentOf(gdt'[j], wanted'.segments[j])
  BY <1>1, <1>3 DEF TablesInv
<1>6. \A j \in Vectors : GateOf(idt'[j], wanted'.gates[j])
  BY <1>1, <1>2, <1>3 DEF TablesInv
<1>7. gdt' = [j \in Segments |-> gdt'[j]] /\ idt' = [j \in Vectors |-> idt'[j]]
  BY <1>2 DEF TablesInv
<1> QED
  BY <1>4, <1>5, <1>6, <1>7 DEF TablesInv

\* Each call of a setter.
LEMMA DescribeKeeps == TablesInv /\ Describe => TablesInv'
<1> SUFFICES ASSUME TablesInv, Describe PROVE TablesInv'
  OBVIOUS
<1>1. \A s \in Selectors : Index(s) \in Segments
  BY DEF Segments
<1>2. ASSUME NEW s \in Selectors, NEW a \in Addresses, Descriptor_SetBase(s, a)
      PROVE  TablesInv'
  <2> DEFINE i == Index(s)
             e == [gdt[i] EXCEPT !.baseLow = a % Bits16,
                                 !.baseMiddle = (a \div Bits16) % Bits8,
                                 !.baseHigh = (a \div Bits24) % Bits8]
             w == [wanted.segments[i] EXCEPT !.base = a]
  <2>1. i \in Segments /\ a \in Address /\ SegmentOf(gdt[i], wanted.segments[i])
    BY <1>1, LibraryAssumption DEF TablesInv, Address
  <2>2. SegmentOf(e, w)
    BY <2>1, BaseSet
  <2>3. gdt' = [gdt EXCEPT ![i] = e] /\ wanted' = [wanted EXCEPT !.segments[i] = w]
        /\ UNCHANGED idt
    BY <1>2, <2>1 DEF Descriptor_SetBase, TablesInv
  <2> HIDE DEF i, e, w
  <2> QED
    BY <2>1, <2>2, <2>3, OneSegment
<1>3. ASSUME NEW s \in Selectors, NEW l \in Limits, Descriptor_SetLimit(s, l)
      PROVE  TablesInv'
  <2> DEFINE i == Index(s)
             e == [gdt[i] EXCEPT !.limitLow = Units(l) % Bits16,
                                 !.limitHigh = LimitHigh(@, l)]
             w == [wanted.segments[i] EXCEPT !.limit = l]
  <2>1. i \in Segments /\ l \in Address /\ SegmentOf(gdt[i], wanted.segments[i])
    BY <1>1, LibraryAssumption DEF TablesInv, Address
  <2>2. SegmentOf(e, w)
    BY <2>1, LimitSet
  <2>3. gdt' = [gdt EXCEPT ![i] = e] /\ wanted' = [wanted EXCEPT !.segments[i] = w]
        /\ UNCHANGED idt
    BY <1>3, <2>1 DEF Descriptor_SetLimit, TablesInv
  <2> HIDE DEF i, e, w
  <2> QED
    BY <2>1, <2>2, <2>3, OneSegment
<1>4. ASSUME NEW s \in Selectors, Descriptor_SetAccess(s, 146)
      PROVE  TablesInv'
  <2> DEFINE i == Index(s)
             e == [gdt[i] EXCEPT !.attributes = 146]
             w == [wanted.segments[i] EXCEPT !.access = 146]
  <2>1. i \in Segments /\ 146 \in Nat /\ SegmentOf(gdt[i], wanted.segments[i])
    BY <1>1 DEF TablesInv
  <2>2. SegmentOf(e, w)
    BY <2>1, AccessSet
  <2>3. gdt' = [gdt EXCEPT ![i] = e] /\ wanted' = [wanted EXCEPT !.segments[i] = w]
        /\ UNCHANGED idt
    BY <1>4, <2>1 DEF Descriptor_SetAccess, TablesInv
  <2> HIDE DEF i, e, w
  <2> QED
    BY <2>1, <2>2, <2>3, OneSegment
<1>5. ASSUME NEW v \in Vectors, NEW a \in Addresses, NEW flags \in {"interrupt", "task", "call"},
             SetGate(flags, v, a)
      PROVE  TablesInv'
  <2> DEFINE g == [baseLow |-> a % Bits16, baseHigh |-> a \div Bits16, flags |-> flags]
             w == [handler |-> a, flags |-> flags]
  <2>1. a \in Address /\ flags \in GateFlags
    <3>1. a \in Address
      BY LibraryAssumption DEF Address
    <3>2. flags \in GateFlags
      BY DEF GateFlags
    <3> QED
      BY <3>1, <3>2
  <2>2. GateOf(g, w)
    BY <2>1, GateSet
  <2>3. idt' = [idt EXCEPT ![v] = g] /\ wanted' = [wanted EXCEPT !.gates[v] = w]
        /\ UNCHANGED gdt
    BY <1>5 DEF SetGate
  <2> HIDE DEF g, w
  <2> QED
    BY <2>2, <2>3, OneGate
<1> QED
  BY <1>2, <1>3, <1>4, <1>5 DEF Describe

\* The empty tables.
LEMMA TablesStart == TablesInit => TablesInv
<1> SUFFICES ASSUME TablesInit PROVE TablesInv
  OBVIOUS
<1>1. 0 \in Address /\ Bits20 \in Nat \ {0} /\ Bits8 \in Nat /\ Bits16 \in Nat /\ Digit \in Nat \ {0}
  BY BitNumbers DEF Address
<1>2. Page > 0
  BY FlagNumbers, <1>1
<1>3. ~Coarse(0)
  BY <1>1 DEF Coarse
<1>4. Bits8 * 0 = 0 /\ Bits16 * 0 = 0 /\ 0 % Digit = 0
  <2>1. 0 % Digit = 0
    BY <1>1, ModSmall
  <2> QED
    BY <1>1, <2>1
<1> DEFINE e == NoSegment
           w == [base |-> 0, limit |-> 0, access |-> 0]
<1>5. /\ e.baseLow = 0 /\ e.baseMiddle = 0 /\ e.baseHigh = 0 /\ e.limitLow = 0
      /\ e.limitHigh = 0 /\ e.attributes = 0
      /\ e \in [limitLow : Nat, baseLow : Nat, baseMiddle : Nat, attributes : Nat,
                limitHigh : Nat, baseHigh : Nat]
  BY DEF NoSegment
<1>6. w.base = 0 /\ w.limit = 0 /\ w.access = 0
      /\ w \in [base : Address, limit : Address, access : Nat]
  BY <1>1
<1> HIDE DEF e, w
<1>7. SegmentBase(e) = 0
  BY <1>4, <1>5 DEF SegmentBase
<1>8. SegmentLimit(e) = 0
  BY <1>2, <1>4, <1>5, FlagNumbers DEF SegmentLimit
<1>9. SegmentOf(e, w)
  BY <1>3, <1>5, <1>6, <1>7, <1>8 DEF SegmentOf
<1>10. GateOf(NoGate, [handler |-> 0, flags |-> "none"])
  <2>1. PICK none \in GateFlags : none = "none"
    BY DEF GateFlags
  <2>2. 0 + Bits16 * 0 = 0 /\ 0 \in Address
    BY <1>1, <1>4
  <2>3. GateOf([baseLow |-> 0, baseHigh |-> 0, flags |-> none], [handler |-> 0, flags |-> none])
    BY <2>2 DEF GateOf, GateHandler
  <2> QED
    BY <2>1, <2>3 DEF NoGate
<1> QED
  BY <1>9, <1>10 DEF TablesInit, TablesInv, e, w

\* In whatever order the setters are called, on the same entry or on others, the
\* processor reads the base, the access bits and the handler that were last asked for,
\* and a limit that is the one asked for, or the end of its page, for fields of any
\* width.
THEOREM DescriptorsReadBack == Spec => []DescriptorsRead
<1>1. Init => TablesInv
  BY TablesStart DEF Init
<1>2. TablesInv /\ [Next]_vars => TablesInv'
  <2> SUFFICES ASSUME TablesInv, [Next]_vars PROVE TablesInv'
    OBVIOUS
  <2>1. CASE Describe
    BY <2>1, DescribeKeeps
  <2>2. CASE UNCHANGED tables
    BY <2>2 DEF tables, TablesInv
  <2>3. \/ CopyArea \/ SetArea \/ CopyString \/ Snprintf \/ Sscanf \/ ReadBack \/ Parse
        \/ Printing \/ Scanning \/ Searching \/ UNCHANGED vars
        => UNCHANGED tables
    BY DEF CopyArea, Memcpy, Memmove, SetArea, Memset, CopyString, Strcpy, Strncpy, Strcat,
           Strncat, Writes, Others, Snprintf, Sscanf, ReadBack, Parse, Printing, Scanning,
           Searching, vars
  <2> QED
    BY <2>1, <2>2, <2>3 DEF Next
<1>3. TablesInv => DescriptorsRead
  <2> SUFFICES ASSUME TablesInv PROVE DescriptorsRead
    OBVIOUS
  <2>1. ASSUME NEW v \in Vectors
        PROVE  [handler |-> GateHandler(idt[v]), flags |-> idt[v].flags] = wanted.gates[v]
    <3>1. GateOf(idt[v], wanted.gates[v])
      BY DEF TablesInv
    <3> QED
      BY <3>1 DEF GateOf
  <2>2. \A i \in Segments : SegmentOf(gdt[i], wanted.segments[i])
    BY DEF TablesInv
  <2> QED
    BY <2>1, <2>2 DEF DescriptorsRead, SegmentOf
<1> QED
  BY <1>1, <1>2, <1>3, PTL DEF Spec

----------------------------------------------------------------------------
(* The texts that snprintf makes.                                          *)

\* g holds, for each number up to n, its last character behind the text of what is left
\* of it when that is taken off.
Spelt(g, n, D, c) ==
  /\ g = [j \in 0 .. n |-> g[j]]
  /\ \A j \in 0 .. n : g[j] = IF D[j] = 0 THEN c[j] ELSE g[D[j]] \o c[j]

Shrinks(D) == D \in [Nat -> Nat] /\ \A n \in Nat : D[n] # 0 => D[n] < n

\* Two of them agree as far as both go.
LEMMA SpeltOnce ==
  ASSUME NEW D, NEW c, Shrinks(D), NEW n \in Nat, NEW k \in Nat, NEW g, NEW h,
         Spelt(g, n, D, c), Spelt(h, k, D, c), NEW i \in Nat, i <= n, i <= k
  PROVE  g[i] = h[i]
<1> DEFINE B == {j \in Nat : j <= n /\ j <= k /\ g[j] # h[j]}
<1>1. SUFFICES ASSUME B # {} PROVE FALSE
  OBVIOUS
<1>2. PICK j \in B : \A l \in B : j <= l
  <2>1. B \in SUBSET Nat
    OBVIOUS
  <2> HIDE DEF B
  <2> QED
    BY <1>1, <2>1, LeastNumber
<1>3. j \in Nat /\ j <= n /\ j <= k /\ g[j] # h[j]
  BY <1>2
<1>4. D[j] \in Nat /\ (D[j] # 0 => D[j] < j)
  BY <1>3 DEF Shrinks
<1>5. D[j] # 0 => g[D[j]] = h[D[j]]
  BY <1>2, <1>3, <1>4
<1>6. /\ g[j] = IF D[j] = 0 THEN c[j] ELSE g[D[j]] \o c[j]
      /\ h[j] = IF D[j] = 0 THEN c[j] ELSE h[D[j]] \o c[j]
  BY <1>3 DEF Spelt
<1> QED
  BY <1>3, <1>5, <1>6

\* There is one for every n.
LEMMA SpeltUpTo ==
  ASSUME NEW D, NEW c, Shrinks(D)
  PROVE  \A n \in Nat : \E g : Spelt(g, n, D, c)
<1> DEFINE X == {n \in Nat : \E g : Spelt(g, n, D, c)}
<1>1. 0 \in X
  <2> DEFINE g == [j \in 0 .. 0 |-> c[j]]
  <2>1. D[0] = 0
    BY DEF Shrinks
  <2>2. Spelt(g, 0, D, c)
    BY <2>1 DEF Spelt
  <2> QED
    BY <2>2
<1>2. ASSUME NEW n \in Nat, n \in X PROVE n + 1 \in X
  <2>1. PICK g : Spelt(g, n, D, c)
    BY <1>2
  <2> DEFINE last1 == IF D[n + 1] = 0 THEN c[n + 1] ELSE g[D[n + 1]] \o c[n + 1]
             h == [j \in 0 .. n + 1 |-> IF j = n + 1 THEN last1 ELSE g[j]]
  <2>2. h[n + 1] = last1 /\ \A j \in 0 .. n : h[j] = g[j]
    OBVIOUS
  <2>3. h = [j \in 0 .. n + 1 |-> h[j]]
    OBVIOUS
  <2> HIDE DEF h
  <2>4. ASSUME NEW j \in 0 .. n + 1
        PROVE  h[j] = IF D[j] = 0 THEN c[j] ELSE h[D[j]] \o c[j]
    <3>1. D[j] \in Nat /\ (D[j] # 0 => D[j] < j)
      BY DEF Shrinks
    <3>2. D[j] # 0 => h[D[j]] = g[D[j]]
      BY <2>2, <3>1
    <3>3. CASE j = n + 1
      BY <2>2, <3>2, <3>3
    <3>4. CASE j # n + 1
      <4>1. j \in 0 .. n
        BY <3>4
      <4>2. g[j] = IF D[j] = 0 THEN c[j] ELSE g[D[j]] \o c[j]
        BY <2>1, <4>1 DEF Spelt
      <4> QED
        BY <2>2, <3>2, <4>1, <4>2
    <3> QED
      BY <3>3, <3>4
  <2>5. Spelt(h, n + 1, D, c)
    BY <2>3, <2>4 DEF Spelt
  <2> QED
    BY <2>5
<1> HIDE DEF X
<1>3. Nat \subseteq X
  BY <1>1, <1>2, SetInduction
<1> QED
  BY <1>3 DEF X

Spells(f, D, c) == f = [n \in Nat |-> IF D[n] = 0 THEN c[n] ELSE f[D[n]] \o c[n]]

\* So there is a function to choose for the texts of all numbers.
LEMMA SpeltAll ==
  ASSUME NEW D, NEW c, Shrinks(D)
  PROVE  \E f : Spells(f, D, c)
<1> DEFINE upto(n) == CHOOSE g : Spelt(g, n, D, c)
           f == [n \in Nat |-> upto(n)[n]]
<1>1. \A n \in Nat : Spelt(upto(n), n, D, c)
  <2> TAKE n \in Nat
  <2>1. \E g : Spelt(g, n, D, c)
    BY SpeltUpTo
  <2> QED
    BY <2>1, Zenon
<1> HIDE DEF upto
<1>2. ASSUME NEW n \in Nat
      PROVE  f[n] = IF D[n] = 0 THEN c[n] ELSE f[D[n]] \o c[n]
  <2>1. D[n] \in Nat /\ (D[n] # 0 => D[n] < n)
    BY DEF Shrinks
  <2>2. upto(n)[n] = IF D[n] = 0 THEN c[n] ELSE upto(n)[D[n]] \o c[n]
    BY <1>1 DEF Spelt
  <2>3. D[n] # 0 => upto(n)[D[n]] = upto(D[n])[D[n]]
    BY <1>1, <2>1, SpeltOnce
  <2> QED
    BY <2>1, <2>2, <2>3
<1>3. Spells(f, D, c)
  BY <1>2, Zenon DEF Spells
<1> QED
  BY <1>3

\* What is chosen has texts of characters in S only, none of them empty.
LEMMA SpeltTexts ==
  ASSUME NEW D, NEW c, NEW S, Shrinks(D), c \in [Nat -> Seq(S)], \A n \in Nat : Len(c[n]) >= 1,
         NEW f, Spells(f, D, c)
  PROVE  \A n \in Nat : f[n] \in Seq(S) /\ Len(f[n]) >= 1
<1> DEFINE Good(n) == f[n] \in Seq(S) /\ Len(f[n]) >= 1
           B == {n \in Nat : ~Good(n)}
<1>1. SUFFICES ASSUME B # {} PROVE FALSE
  OBVIOUS
<1>2. PICK n \in Nat : ~Good(n) /\ \A l \in Nat : l < n => Good(l)
  <2>1. B \in SUBSET Nat
    OBVIOUS
  <2>2. PICK n \in B : \A l \in B : n <= l
    <3> HIDE DEF B
    <3> QED
      BY <1>1, <2>1, LeastNumber
  <2>3. n \in Nat /\ ~Good(n)
    BY <2>2
  <2>4. ASSUME NEW l \in Nat, l < n PROVE Good(l)
    <3>1. l \notin B
      BY <2>2, <2>3, <2>4
    <3> QED
      BY <3>1
  <2> QED
    BY <2>3, <2>4
<1>3. D[n] \in Nat /\ (D[n] # 0 => D[n] < n)
  BY DEF Shrinks
<1>4. f[n] = IF D[n] = 0 THEN c[n] ELSE f[D[n]] \o c[n]
  BY DEF Spells
<1>5. c[n] \in Seq(S) /\ Len(c[n]) >= 1
  OBVIOUS
<1>6. CASE D[n] = 0
  BY <1>2, <1>4, <1>5, <1>6
<1>7. CASE D[n] # 0
  <2>1. Good(D[n])
    <3> HIDE DEF Good
    <3> QED
      BY <1>2, <1>3, <1>7
  <2> DEFINE before == f[D[n]]
             end == c[n]
  <2>2. before \in Seq(S) /\ end \in Seq(S) /\ Len(before) >= 1 /\ Len(end) >= 1
    BY <1>5, <2>1
  <2>3. f[n] = before \o end
    BY <1>4, <1>7
  <2> HIDE DEF before, end
  <2>4. before \o end \in Seq(S) /\ Len(before \o end) = Len(before) + Len(end)
    BY <2>2, ConcatProperties
  <2>5. Len(before) \in Nat /\ Len(end) \in Nat
    BY <2>2, LenProperties
  <2>6. Len(before \o end) >= 1
    BY <2>2, <2>4, <2>5
  <2>7. Len(f[n]) >= 1 /\ f[n] \in Seq(S)
    BY <2>3, <2>4, <2>6, Zenon
  <2> QED
    BY <1>2, <2>7
<1> QED
  BY <1>6, <1>7

\* Quotient and remainder exist.
LEMMA Divided ==
  ASSUME NEW a \in Nat, NEW b \in Nat \ {0}
  PROVE  \E q \in Nat, r \in Nat : q = a \div b /\ r = a % b /\ r < b /\ a = b * q + r
<1> DEFINE q == a \div b
           r == a % b
<1>1. q \in Nat /\ r \in Nat /\ r < b /\ a = b * q + r
  BY Division
<1>2. q = a \div b /\ r = a % b
  OBVIOUS
<1> HIDE DEF q, r
<1> QED
  BY <1>1, <1>2

\* The division in two steps is one.
LEMMA DoDivDivides ==
  ASSUME NEW n \in Nat, NEW base \in Nat \ {0}
  PROVE  /\ do_div(n, base).quot \in Nat /\ do_div(n, base).mod \in 0 .. base - 1
         /\ n = base * do_div(n, base).quot + do_div(n, base).mod
<1>1. Word \in Nat \ {0}
  BY WordAssumption, ShortAssumption
<1>2. PICK high \in Nat, low \in Nat : high = n \div Word /\ low = n % Word /\ n = Word * high + low
  BY <1>1, Divided
<1>3. PICK hq \in Nat, hm \in Nat : hq = high \div base /\ hm = high % base /\ high = base * hq + hm
  BY Divided
<1>4. PICK rest \in Nat : rest = hm * Word + low
  BY <1>1, <1>2, <1>3
<1>5. PICK rq \in Nat, rm \in Nat :
        rq = rest \div base /\ rm = rest % base /\ rest = base * rq + rm /\ rm < base
  BY Divided
<1>6. do_div(n, base) = [quot |-> hq * Word + rq, mod |-> rm]
  BY <1>2, <1>3, <1>4, <1>5 DEF do_div
<1>7. hq * Word + rq \in Nat
  BY <1>1, <1>3, <1>5
<1>8. n = base * (hq * Word + rq) + rm
  <2>1. base * (hq * Word + rq) = (base * hq) * Word + base * rq
    BY <1>1, <1>3, <1>5
  <2>2. (base * hq + hm) * Word = (base * hq) * Word + hm * Word
    BY <1>1, <1>3
  <2>3. Word * high = high * Word
    BY <1>1, <1>2
  <2> DEFINE a == (base * hq) * Word
             b == hm * Word
             d == base * rq
  <2>4. a \in Nat /\ b \in Nat /\ d \in Nat
    BY <1>1, <1>3, <1>5
  <2>5. n = (a + b) + low /\ b + low = d + rm /\ base * (hq * Word + rq) = a + d
    BY <1>2, <1>3, <1>4, <1>5, <2>1, <2>2, <2>3
  <2> HIDE DEF a, b, d
  <2> QED
    BY <1>2, <1>5, <2>4, <2>5
<1>9. rm \in 0 .. base - 1
  BY <1>5
<1> QED
  BY <1>6, <1>7, <1>8, <1>9

\* What is left of a number with its last digit taken off is smaller, if there is any.
LEMMA DoDivShrinks ==
  ASSUME NEW n \in Nat, NEW base \in Nat, base >= 2, do_div(n, base).quot # 0
  PROVE  do_div(n, base).quot < n
<1>1. PICK q \in Nat, r \in Nat : q = do_div(n, base).quot /\ n = base * q + r
  <2>1. base \in Nat \ {0} /\ 0 .. base - 1 \subseteq Nat
    OBVIOUS
  <2> QED
    BY <2>1, DoDivDivides
<1>2. q >= 1 /\ base * q >= 2 * q
  <2>1. q >= 1
    BY <1>1
  <2>2. (base - 2) * q >= 0 /\ (base - 2) * q = base * q - 2 * q
    BY <1>1
  <2> QED
    BY <1>1, <2>1, <2>2
<1> QED
  BY <1>1, <1>2

\* The characters of digits, letters among them.
DigitChars == 48 .. 102

\* The digits of a number are a text of digits.
LEMMA DigitsSpelt ==
  ASSUME NEW num \in Nat, NEW base \in {8, 10, 16}, NEW large \in BOOLEAN
  PROVE  Digits(num, base, large) \in Seq(DigitChars) /\ Len(Digits(num, base, large)) >= 1
<1> DEFINE D == [n \in Nat |-> do_div(n, base).quot]
           c == [n \in Nat |-> <<DigitChar(do_div(n, base).mod, large)>>]
           from == CHOOSE f : f = [n \in Nat |->
                     IF do_div(n, base).quot = 0 THEN <<DigitChar(do_div(n, base).mod, large)>>
                     ELSE f[do_div(n, base).quot] \o <<DigitChar(do_div(n, base).mod, large)>>]
<1>1. base \in Nat \ {0} /\ base >= 2 /\ base <= 16
  OBVIOUS
<1>2. Shrinks(D)
  BY <1>1, DoDivDivides, DoDivShrinks DEF Shrinks
<1>3. ASSUME NEW n \in Nat
      PROVE  c[n] \in Seq(DigitChars) /\ Len(c[n]) >= 1
  <2>1. PICK d \in 0 .. base - 1 : d = do_div(n, base).mod
    BY <1>1, DoDivDivides
  <2>2. DigitChar(d, large) \in DigitChars
    BY <1>1 DEF DigitChar, DigitChars, Zero
  <2>3. c[n] = <<DigitChar(d, large)>>
    BY <2>1
  <2> QED
    BY <2>2, <2>3
<1>4. c = [n \in Nat |-> c[n]] /\ c \in [Nat -> Seq(DigitChars)]
  <2>1. c = [n \in Nat |-> c[n]]
    OBVIOUS
  <2> HIDE DEF c
  <2> QED
    BY <1>3, <2>1
<1>5. \A f : Spells(f, D, c) <=>
        f = [n \in Nat |->
               IF do_div(n, base).quot = 0 THEN <<DigitChar(do_div(n, base).mod, large)>>
               ELSE f[do_div(n, base).quot] \o <<DigitChar(do_div(n, base).mod, large)>>]
  BY DEF Spells
<1>6. \E f : Spells(f, D, c)
  <2> HIDE DEF D, c
  <2> QED
    BY <1>2, SpeltAll
<1>7. Spells(from, D, c)
  <2>1. \E f : f = [n \in Nat |->
                     IF do_div(n, base).quot = 0 THEN <<DigitChar(do_div(n, base).mod, large)>>
                     ELSE f[do_div(n, base).quot] \o <<DigitChar(do_div(n, base).mod, large)>>]
    BY <1>5, <1>6, Zenon
  <2>2. from = [n \in Nat |->
                     IF do_div(n, base).quot = 0 THEN <<DigitChar(do_div(n, base).mod, large)>>
                     ELSE from[do_div(n, base).quot] \o <<DigitChar(do_div(n, base).mod, large)>>]
    BY <2>1, Zenon
  <2> QED
    BY <1>5, <2>2, Zenon
<1>8. Digits(num, base, large) = from[num]
  BY Zenon DEF Digits
<1> HIDE DEF D, c, from
<1>9. \A n \in Nat : from[n] \in Seq(DigitChars) /\ Len(from[n]) >= 1
  BY <1>2, <1>3, <1>4, <1>7, SpeltTexts
<1> QED
  BY <1>8, <1>9

\* Characters in a row.
LEMMA RepeatText ==
  ASSUME NEW S, NEW c \in S, NEW n \in Int
  PROVE  /\ Repeat(c, n) \in Seq(S) /\ Len(Repeat(c, n)) = IF n > 0 THEN n ELSE 0
         /\ \A k \in 1 .. n : Repeat(c, n)[k] = c
         /\ n <= 0 => Repeat(c, n) = <<>>
<1> DEFINE r == [k \in 1 .. n |-> c]
           l == IF n > 0 THEN n ELSE 0
<1>1. l \in Nat /\ 1 .. n = 1 .. l
  OBVIOUS
<1>2. r \in [1 .. l -> S]
  BY <1>1
<1>3. r \in Seq(S) /\ Len(r) = l
  <2> HIDE DEF r, l
  <2> QED
    BY <1>1, <1>2, IsASeq, LenProperties
<1>4. n <= 0 => r = <<>>
  <2> SUFFICES ASSUME n <= 0 PROVE r = <<>>
    OBVIOUS
  <2>1. l = 0
    OBVIOUS
  <2> HIDE DEF r, l
  <2> QED
    BY <1>3, <2>1, EmptySeq
<1>5. \A k \in 1 .. n : r[k] = c
  OBVIOUS
<1> QED
  BY <1>3, <1>4, <1>5 DEF Repeat

\* Texts that are put together.
LEMMA JoinedFour ==
  ASSUME NEW S, NEW s \in Seq(S), NEW x \in Seq(S), NEW y \in Seq(S), NEW t \in Seq(S)
  PROVE  /\ s \o x \o y \o t \in Seq(S)
         /\ Len(s \o x \o y \o t) = Len(s) + Len(x) + Len(y) + Len(t)
<1>1. s \o x \in Seq(S) /\ Len(s \o x) = Len(s) + Len(x)
  BY ConcatProperties
<1>2. (s \o x) \o y \in Seq(S) /\ Len((s \o x) \o y) = Len(s \o x) + Len(y)
  BY <1>1, ConcatProperties
<1>3. ((s \o x) \o y) \o t \in Seq(S) /\ Len(((s \o x) \o y) \o t) = Len((s \o x) \o y) + Len(t)
  BY <1>2, ConcatProperties
<1> QED
  BY <1>1, <1>2, <1>3

Three(S, a, b, c) == a \in Seq(S) /\ b \in Seq(S) /\ c \in Seq(S)

\* Putting together is associative, and what the empty parts leave.
LEMMA Associative ==
  ASSUME NEW S, NEW a, NEW b, NEW c, Three(S, a, b, c)
  PROVE  (a \o b) \o c = a \o (b \o c)
BY ConcatAssociative DEF Three

LEMMA PaddedLeft ==
  ASSUME NEW S, NEW p, NEW s, NEW x, NEW y, NEW t, Three(S, p, s, x), Three(S, p, y, t)
  PROVE  p \o s \o x \o <<>> \o y \o t \o <<>> = p \o (s \o x \o y \o t)
<1>0. p \in Seq(S) /\ s \in Seq(S) /\ x \in Seq(S) /\ y \in Seq(S) /\ t \in Seq(S)
  BY DEF Three
<1>1. PICK sx \in Seq(S) : sx = s \o x
  BY <1>0, ConcatProperties
<1>2. PICK sxy \in Seq(S) : sxy = sx \o y
  BY <1>0, ConcatProperties
<1>3. PICK all \in Seq(S) : all = sxy \o t
  BY <1>0, ConcatProperties
<1>4. (p \o s) \o x = p \o sx
  <2>0. Three(S, p, s, x)
    BY <1>0 DEF Three
  <2>1. (p \o s) \o x = p \o (s \o x)
    BY <2>0, Associative
  <2> QED
    BY <1>1, <2>1
<1>5. (p \o sx) \o <<>> = p \o sx /\ (p \o all) \o <<>> = p \o all
  <2>1. p \o sx \in Seq(S) /\ p \o all \in Seq(S)
    BY <1>0, ConcatProperties
  <2> QED
    BY <2>1, ConcatEmptySeq
<1>6. (p \o sx) \o y = p \o sxy
  <2>0. Three(S, p, sx, y)
    BY <1>0 DEF Three
  <2>1. (p \o sx) \o y = p \o (sx \o y)
    BY <2>0, Associative
  <2> QED
    BY <1>2, <2>1
<1>7. (p \o sxy) \o t = p \o all
  <2>0. Three(S, p, sxy, t)
    BY <1>0 DEF Three
  <2>1. (p \o sxy) \o t = p \o (sxy \o t)
    BY <2>0, Associative
  <2> QED
    BY <1>3, <2>1
<1> QED
  BY <1>1, <1>2, <1>3, <1>4, <1>5, <1>6, <1>7, Zenon

LEMMA PaddedRight ==
  ASSUME NEW S, NEW s \in Seq(S), NEW x \in Seq(S), NEW y \in Seq(S), NEW t \in Seq(S), NEW q
  PROVE  <<>> \o s \o x \o <<>> \o y \o t \o q = (s \o x \o y \o t) \o q
<1>1. s \o x \in Seq(S)
  BY ConcatProperties
<1>2. <<>> \o s = s /\ (s \o x) \o <<>> = s \o x
  BY <1>1, ConcatEmptySeq
<1> QED
  BY <1>2

LEMMA PaddedInside ==
  ASSUME NEW S, NEW s \in Seq(S), NEW x \in Seq(S), NEW z \in Seq(S), NEW y \in Seq(S),
         NEW t \in Seq(S)
  PROVE  /\ <<>> \o s \o x \o z \o y \o t \o <<>> \in Seq(S)
         /\ Len(<<>> \o s \o x \o z \o y \o t \o <<>>)
            = Len(s) + Len(x) + Len(y) + Len(t) + Len(z)
<1>1. <<>> \o s = s
  BY ConcatEmptySeq
<1>2. s \o x \o z \o y \in Seq(S) /\ Len(s \o x \o z \o y) = Len(s) + Len(x) + Len(z) + Len(y)
  BY JoinedFour
<1>3. (s \o x \o z \o y) \o t \in Seq(S)
      /\ Len((s \o x \o z \o y) \o t) = Len(s \o x \o z \o y) + Len(t)
  BY <1>2, ConcatProperties
<1>4. (s \o x \o z \o y \o t) \o <<>> = s \o x \o z \o y \o t
  BY <1>3, ConcatEmptySeq
<1>5. Len(s) \in Nat /\ Len(x) \in Nat /\ Len(y) \in Nat /\ Len(t) \in Nat /\ Len(z) \in Nat
  BY LenProperties
<1>6. Len(s \o x \o z \o y \o t) = Len(s) + Len(x) + Len(y) + Len(t) + Len(z)
  BY <1>2, <1>3, <1>5
<1> QED
  BY <1>1, <1>3, <1>4, <1>6

\* The parts of a number's text, and the text without the field's blanks and zeros.
SignOf(num, flags) == IF "sign" \notin flags THEN <<>>
                      ELSE IF num < 0 THEN <<Minus>>
                      ELSE IF "+" \in flags THEN <<Plus>>
                      ELSE IF " " \in flags THEN <<Blank>> ELSE <<>>
PrefixOf(base, flags) == IF "#" \notin flags THEN <<>>
                         ELSE IF base = 16 THEN <<Zero, DigitChar(33, "large" \in flags)>>
                         ELSE IF base = 8 THEN <<Zero>> ELSE <<>>
DigitsOf(num, base, flags) == Digits(IF num < 0 THEN -num ELSE num, base, "large" \in flags)
DigitCount(num, base, prec, flags) ==
  LET tmp == DigitsOf(num, base, flags) IN IF Len(tmp) > prec THEN Len(tmp) ELSE prec
ZerosOf(num, base, prec, flags) ==
  Repeat(Zero, DigitCount(num, base, prec, flags) - Len(DigitsOf(num, base, flags)))
Bare(num, base, prec, flags) ==
  SignOf(num, flags) \o PrefixOf(base, flags) \o ZerosOf(num, base, prec, flags)
  \o DigitsOf(num, base, flags)

NumberChars == 32 .. 120

\* The parts are texts, as long as number reckons.
LEMMA NumberParts ==
  ASSUME NEW num \in Int, NEW base \in {8, 10, 16}, NEW prec \in Int, NEW flags
  PROVE  /\ SignOf(num, flags) \in Seq(NumberChars)
         /\ PrefixOf(base, flags) \in Seq(NumberChars)
         /\ DigitsOf(num, base, flags) \in Seq(NumberChars)
         /\ Len(DigitsOf(num, base, flags)) >= 1
         /\ DigitsOf(num, base, flags)[1] # Blank
         /\ ZerosOf(num, base, prec, flags) \in Seq(NumberChars)
         /\ DigitCount(num, base, prec, flags) \in Nat
         /\ Len(ZerosOf(num, base, prec, flags)) + Len(DigitsOf(num, base, flags))
            = DigitCount(num, base, prec, flags)
<1> DEFINE large == "large" \in flags
           n == IF num < 0 THEN -num ELSE num
           tmp == DigitsOf(num, base, flags)
<1>1. SignOf(num, flags) \in Seq(NumberChars)
  <2>1. /\ Minus \in NumberChars /\ Plus \in NumberChars /\ Blank \in NumberChars
    BY DEF Minus, Plus, Blank, NumberChars
  <2>2. <<>> \in Seq(NumberChars) /\ <<Minus>> \in Seq(NumberChars)
        /\ <<Plus>> \in Seq(NumberChars) /\ <<Blank>> \in Seq(NumberChars)
    BY <2>1
  <2> QED
    BY <2>2, Zenon DEF SignOf
<1>2. PrefixOf(base, flags) \in Seq(NumberChars)
  <2>1. Zero \in NumberChars /\ DigitChar(33, TRUE) \in NumberChars
        /\ DigitChar(33, FALSE) \in NumberChars
    BY DEF Zero, DigitChar, NumberChars
  <2>2. DigitChar(33, large) \in NumberChars
    BY <2>1 DEF DigitChar
  <2> HIDE DEF large
  <2>3. \A c : c = DigitChar(33, "large" \in flags) => c \in NumberChars
    BY <2>2 DEF large
  <2> QED
    BY <2>1, <2>3 DEF PrefixOf
<1>3. tmp \in Seq(DigitChars) /\ Len(tmp) >= 1
  <2>1. n \in Nat /\ large \in BOOLEAN
    OBVIOUS
  <2>2. tmp = Digits(n, base, large)
    BY DEF DigitsOf
  <2> HIDE DEF n, large, tmp
  <2> QED
    BY <2>1, <2>2, DigitsSpelt
<1>4. tmp \in Seq(NumberChars) /\ tmp[1] # Blank
  <2>1. DigitChars \subseteq NumberChars /\ Blank \notin DigitChars
    BY DEF DigitChars, NumberChars, Blank
  <2>2. Len(tmp) \in Nat
    BY <1>3, LenProperties
  <2>3. tmp[1] \in DigitChars
    <3>1. 1 \in 1 .. Len(tmp)
      BY <1>3, <2>2
    <3> HIDE DEF tmp
    <3> QED
      BY <1>3, <3>1, ElementOfSeq
  <2> HIDE DEF tmp
  <2>4. tmp \in Seq(NumberChars)
    BY <1>3, <2>1, SeqMonotonic
  <2> QED
    BY <2>1, <2>3, <2>4
<1> HIDE DEF tmp
<1> DEFINE l == Len(tmp)
           digits == IF l > prec THEN l ELSE prec
<1>5. l \in Nat
  BY <1>4, LenProperties
<1>6. digits - l \in Nat
  BY <1>5
<1>7. ZerosOf(num, base, prec, flags) = Repeat(Zero, digits - l)
  BY Zenon DEF ZerosOf, DigitCount, tmp
<1> HIDE DEF l
<1>8. /\ Repeat(Zero, digits - l) \in Seq(NumberChars)
      /\ Len(Repeat(Zero, digits - l)) = IF digits - l > 0 THEN digits - l ELSE 0
  <2>1. Zero \in NumberChars
    BY DEF Zero, NumberChars
  <2>2. PICK d \in Int : d = digits - l
    BY <1>6
  <2>3. Repeat(Zero, d) \in Seq(NumberChars) /\ Len(Repeat(Zero, d)) = IF d > 0 THEN d ELSE 0
    BY <2>1, RepeatText
  <2> QED
    BY <2>2, <2>3
<1>9. Len(Repeat(Zero, digits - l)) + l = digits
  BY <1>5, <1>6, <1>8
<1>10. /\ tmp \in Seq(NumberChars) /\ Len(tmp) >= 1 /\ tmp[1] # Blank
       /\ Len(ZerosOf(num, base, prec, flags)) + Len(tmp)
          = digits
       /\ digits \in Nat
  BY <1>3, <1>4, <1>5, <1>6, <1>7, <1>9 DEF l
<1>11. digits = DigitCount(num, base, prec, flags)
  BY Zenon DEF DigitCount, l, tmp
<1> HIDE DEF digits
<1> QED
  BY <1>1, <1>2, <1>7, <1>8, <1>10, <1>11, Zenon DEF tmp

\* The bare text is as long as its parts.
LEMMA BareText ==
  ASSUME NEW num \in Int, NEW base \in {8, 10, 16}, NEW prec \in Int, NEW flags
  PROVE  LET bare == Bare(num, base, prec, flags)
         IN  /\ bare \in Seq(NumberChars) /\ Len(bare) \in Nat /\ Len(bare) >= 1
             /\ Len(bare) = Len(SignOf(num, flags)) + Len(PrefixOf(base, flags))
                            + DigitCount(num, base, prec, flags)
<1> DEFINE s == SignOf(num, flags)
           x == PrefixOf(base, flags)
           y == ZerosOf(num, base, prec, flags)
           t == DigitsOf(num, base, flags)
           digits == DigitCount(num, base, prec, flags)
           bare == Bare(num, base, prec, flags)
<1>1. /\ s \in Seq(NumberChars) /\ x \in Seq(NumberChars)
      /\ y \in Seq(NumberChars) /\ t \in Seq(NumberChars)
      /\ Len(t) >= 1 /\ digits \in Nat /\ Len(y) + Len(t) = digits
  BY NumberParts, Zenon
<1>2. bare = s \o x \o y \o t
  BY DEF Bare
<1> HIDE DEF s, x, y, t, digits, bare
<1>3. bare \in Seq(NumberChars) /\ Len(bare) = Len(s) + Len(x) + Len(y) + Len(t)
  BY <1>1, <1>2, JoinedFour
<1>4. Len(s) \in Nat /\ Len(x) \in Nat /\ Len(y) \in Nat /\ Len(t) \in Nat
  BY <1>1, LenProperties
<1>6. /\ bare \in Seq(NumberChars) /\ Len(bare) \in Nat /\ Len(bare) >= 1
      /\ Len(bare) = Len(s) + Len(x) + digits
  <2>1. PICK ns \in Nat, nx \in Nat, ny \in Nat, nt \in Nat :
          ns = Len(s) /\ nx = Len(x) /\ ny = Len(y) /\ nt = Len(t)
    BY <1>4
  <2>2. nt >= 1 /\ ny + nt = digits /\ Len(bare) = ns + nx + ny + nt
    BY <1>1, <1>3, <2>1
  <2>3. Len(bare) \in Nat /\ Len(bare) >= 1 /\ Len(bare) = ns + nx + digits
    BY <1>1, <2>2
  <2> QED
    BY <1>3, <2>1, <2>3
<1> QED
  BY <1>6, Zenon DEF bare, s, x, digits

IsField(text, p, s, x, z, y, t, q) == text = p \o s \o x \o z \o y \o t \o q
IsBare(bare, s, x, y, t) == bare = s \o x \o y \o t
Parts(S, s, x, y, t) == s \in Seq(S) /\ x \in Seq(S) /\ y \in Seq(S) /\ t \in Seq(S)

\* A field with blanks on the left.
LEMMA FieldLeft ==
  ASSUME NEW S, NEW text, NEW bare, NEW p, NEW s, NEW x, NEW y, NEW t, p \in Seq(S), Parts(S, s, x, y, t),
         IsField(text, p, s, x, <<>>, y, t, <<>>), IsBare(bare, s, x, y, t)
  PROVE  text = p \o bare
<1>1. Three(S, p, s, x) /\ Three(S, p, y, t)
  BY DEF Three, Parts
<1>2. p \o s \o x \o <<>> \o y \o t \o <<>> = p \o (s \o x \o y \o t)
  BY <1>1, PaddedLeft
<1> QED
  BY <1>2 DEF IsField, IsBare

\* A field with blanks on the right.
LEMMA FieldRight ==
  ASSUME NEW S, NEW text, NEW bare, NEW q, NEW s, NEW x, NEW y, NEW t, Parts(S, s, x, y, t),
         IsField(text, <<>>, s, x, <<>>, y, t, q), IsBare(bare, s, x, y, t)
  PROVE  text = bare \o q
<1>1. s \in Seq(S) /\ x \in Seq(S) /\ y \in Seq(S) /\ t \in Seq(S)
  BY DEF Parts
<1>2. <<>> \o s \o x \o <<>> \o y \o t \o q = (s \o x \o y \o t) \o q
  BY <1>1, PaddedRight
<1> QED
  BY <1>2 DEF IsField, IsBare

\* A field with zeros inside.
LEMMA FieldInside ==
  ASSUME NEW S, NEW text, NEW bare, NEW z, NEW s, NEW x, NEW y, NEW t, z \in Seq(S), Parts(S, s, x, y, t),
         IsField(text, <<>>, s, x, z, y, t, <<>>), IsBare(bare, s, x, y, t)
  PROVE  text \in Seq(S) /\ Len(text) = Len(bare) + Len(z)
<1>1. s \in Seq(S) /\ x \in Seq(S) /\ y \in Seq(S) /\ t \in Seq(S)
  BY DEF Parts
<1>2. /\ <<>> \o s \o x \o z \o y \o t \o <<>> \in Seq(S)
      /\ Len(<<>> \o s \o x \o z \o y \o t \o <<>>)
         = Len(s) + Len(x) + Len(y) + Len(t) + Len(z)
  BY <1>1, PaddedInside
<1>3. text \in Seq(S) /\ Len(text) = Len(s) + Len(x) + Len(y) + Len(t) + Len(z)
  BY <1>2 DEF IsField
<1>4. Len(bare) = Len(s) + Len(x) + Len(y) + Len(t)
  <2>1. Len(s \o x \o y \o t) = Len(s) + Len(x) + Len(y) + Len(t)
    BY <1>1, JoinedFour
  <2> QED
    BY <2>1 DEF IsBare
<1> QED
  BY <1>3, <1>4

\* A number's text, with blanks on one side, or zeros inside, as many as fill the
\* field.
Shaped(text, bare, size, flags) ==
  /\ text \in Seq(NumberChars)
  /\ size > Len(bare) => Len(text) = size
  /\ size <= Len(bare) => Len(text) = Len(bare)
  /\ size <= Len(bare) => text = bare
  /\ \E blanks \in Seq(NumberChars), d \in Int :
       /\ blanks = Repeat(Blank, d)
       /\ "-" \in flags => text = bare \o blanks
       /\ "-" \notin flags /\ "0" \notin flags => text = blanks \o bare

\* So is what number makes of any number.
LEMMA NumberShape ==
  ASSUME NEW num \in Int, NEW base \in {8, 10, 16}, NEW size \in Int, NEW prec \in Int, NEW flags
  PROVE  Shaped(number(num, base, size, prec, flags), Bare(num, base, prec, flags), size, flags)
<1> DEFINE left == "-" \in flags
           zero == "0" \in flags /\ ~left
           sg == SignOf(num, flags)
           px == PrefixOf(base, flags)
           zs == ZerosOf(num, base, prec, flags)
           ds == DigitsOf(num, base, flags)
           digits == DigitCount(num, base, prec, flags)
           room == Room(size, sg, px, digits)
           lp == Repeat(Blank, IF zero \/ left THEN 0 ELSE room)
           iz == Repeat(Zero, IF zero THEN room ELSE 0)
           rq == Repeat(Blank, IF left THEN room ELSE 0)
           bare == Bare(num, base, prec, flags)
           text == number(num, base, size, prec, flags)
<1>1. /\ sg \in Seq(NumberChars) /\ px \in Seq(NumberChars)
      /\ zs \in Seq(NumberChars) /\ ds \in Seq(NumberChars)
  BY NumberParts
<1>2. /\ bare \in Seq(NumberChars) /\ Len(bare) \in Nat
      /\ Len(bare) = Len(sg) + Len(px) + digits
  BY BareText, ZenonT(60)
<1>3. bare = sg \o px \o zs \o ds
  BY DEF Bare
<1>4. text = lp \o sg \o px \o iz \o zs \o ds \o rq
  BY Zenon DEF number, SignOf, PrefixOf, DigitCount, ZerosOf, DigitsOf
<1>5. room = size - Len(sg) - Len(px) - digits
  BY DEF Room
<1> HIDE DEF room
<1>6. Repeat(Blank, 0) = <<>> /\ Repeat(Zero, 0) = <<>>
  <2>1. Blank \in NumberChars /\ Zero \in NumberChars
    BY DEF Blank, Zero, NumberChars
  <2>2. /\ Repeat(Blank, 0) \in Seq(NumberChars) /\ Repeat(Blank, 0) = <<>>
        /\ Repeat(Zero, 0) \in Seq(NumberChars) /\ Repeat(Zero, 0) = <<>>
    BY <2>1, RepeatText
  <2> QED
    BY <2>2
<1>7. /\ left => lp = <<>> /\ iz = <<>> /\ rq = Repeat(Blank, room)
      /\ zero => lp = <<>> /\ iz = Repeat(Zero, room) /\ rq = <<>>
      /\ ~left /\ ~zero => lp = Repeat(Blank, room) /\ iz = <<>> /\ rq = <<>>
  BY <1>6
<1> HIDE DEF sg, px, zs, ds, lp, iz, rq, bare, text
<1>8. digits \in Int
  BY NumberParts
<1> HIDE DEF digits
<1>9. PICK r \in Int : r = room /\ r = size - Len(bare)
  <2>1. Len(sg) \in Nat /\ Len(px) \in Nat
    BY <1>1, LenProperties
  <2>2. room = size - Len(bare)
    BY <1>2, <1>5, <1>8, <2>1
  <2> QED
    BY <1>2, <2>2
<1>10. PICK rb, rz :
         /\ rb \in Seq(NumberChars) /\ rz \in Seq(NumberChars)
         /\ rb = Repeat(Blank, r) /\ rz = Repeat(Zero, r)
         /\ Len(rb) = (IF r > 0 THEN r ELSE 0) /\ Len(rz) = (IF r > 0 THEN r ELSE 0)
  <2>1. Blank \in NumberChars /\ Zero \in NumberChars
    BY DEF Blank, Zero, NumberChars
  <2> QED
    BY <2>1, RepeatText
<1>11. Parts(NumberChars, sg, px, zs, ds) /\ IsBare(bare, sg, px, zs, ds)
  BY <1>1, <1>3 DEF Parts, IsBare
<1>12. /\ left => IsField(text, <<>>, sg, px, <<>>, zs, ds, rb)
       /\ zero => IsField(text, <<>>, sg, px, rz, zs, ds, <<>>)
       /\ ~left /\ ~zero => IsField(text, rb, sg, px, <<>>, zs, ds, <<>>)
  BY <1>4, <1>7, <1>9, <1>10 DEF IsField
<1>13. /\ left => text = bare \o rb
       /\ ~left /\ ~zero => text = rb \o bare
       /\ zero => text \in Seq(NumberChars) /\ Len(text) = Len(bare) + Len(rz)
  <2>1. ASSUME left PROVE text = bare \o rb
    BY <1>11, <1>12, <2>1, FieldRight, Zenon
  <2>2. ASSUME ~left /\ ~zero PROVE text = rb \o bare
    BY <1>10, <1>11, <1>12, <2>2, FieldLeft, Zenon
  <2>3. ASSUME zero PROVE text \in Seq(NumberChars) /\ Len(text) = Len(bare) + Len(rz)
    <3>1. IsField(text, <<>>, sg, px, rz, zs, ds, <<>>)
      BY <1>12, <2>3
    <3> QED
      BY <1>10, <1>11, <3>1, FieldInside
  <2> QED
    BY <2>1, <2>2, <2>3
<1> HIDE DEF left, zero
<1>14. /\ bare \o rb \in Seq(NumberChars) /\ Len(bare \o rb) = Len(bare) + Len(rb)
       /\ rb \o bare \in Seq(NumberChars) /\ Len(rb \o bare) = Len(bare) + Len(rb)
  <2>1. bare \in Seq(NumberChars) /\ rb \in Seq(NumberChars)
    BY <1>2, <1>10
  <2> QED
    BY <2>1, ConcatProperties
<1>15. Len(text) = Len(bare) + (IF r > 0 THEN r ELSE 0) /\ text \in Seq(NumberChars)
  BY <1>10, <1>13, <1>14
<1>16. /\ size > Len(bare) => Len(text) = size
       /\ size <= Len(bare) => Len(text) = Len(bare)
  BY <1>2, <1>9, <1>15
<1>17. /\ rb \in Seq(NumberChars) /\ rb = Repeat(Blank, r) /\ r \in Int
       /\ left => text = bare \o rb
       /\ ~left /\ ~zero => text = rb \o bare
  BY <1>9, <1>10, <1>13
<1>18. ASSUME size <= Len(bare) PROVE text = bare
  <2>1. rb = <<>> /\ rz = <<>>
    BY <1>2, <1>9, <1>10, <1>18, EmptySeq
  <2>2. left \/ zero \/ (~left /\ ~zero)
    BY Zenon
  <2>3. zero => text = bare \o rb
    <3>1. zero => IsField(text, <<>>, sg, px, <<>>, zs, ds, rb)
      BY <1>12, <2>1
    <3> QED
      BY <1>11, <3>1, FieldRight, Zenon
  <2>4. bare \o <<>> = bare /\ <<>> \o bare = bare
    BY <1>2, ConcatEmptySeq
  <2> QED
    BY <1>13, <2>1, <2>2, <2>3, <2>4
<1> QED
  BY <1>15, <1>16, <1>17, <1>18 DEF Shaped, text, bare, left, zero

\* The flag for a blank in the sign's place is not there.
Unspaced(flags) == " " \notin flags

\* Without the flag for it, no blank is in the bare text.
LEMMA BareDark ==
  ASSUME NEW num \in Int, NEW base \in {8, 10, 16}, NEW prec \in Int, NEW flags,
         Unspaced(flags)
  PROVE  /\ Bare(num, base, prec, flags)[1] # Blank
         /\ Bare(num, base, prec, flags) \in Seq(NumberChars)
         /\ Len(Bare(num, base, prec, flags)) \in Nat \ {0}
<1> DEFINE Dark == 33 .. 120
           sg == SignOf(num, flags)
           px == PrefixOf(base, flags)
           zs == ZerosOf(num, base, prec, flags)
           ds == DigitsOf(num, base, flags)
           bare == Bare(num, base, prec, flags)
<1>1. sg \in Seq(Dark)
  <2>1. /\ Minus \in Dark /\ Plus \in Dark
    BY DEF Minus, Plus
  <2>2. <<>> \in Seq(Dark) /\ <<Minus>> \in Seq(Dark) /\ <<Plus>> \in Seq(Dark)
    BY <2>1
  <2> HIDE DEF Dark
  <2> QED
    BY <2>2, Zenon DEF SignOf, Unspaced
<1>2. px \in Seq(Dark)
  <2>1. Zero \in Dark /\ DigitChar(33, TRUE) \in Dark /\ DigitChar(33, FALSE) \in Dark
    BY DEF Zero, DigitChar
  <2> DEFINE large == "large" \in flags
  <2>2. DigitChar(33, large) \in Dark
    BY <2>1 DEF DigitChar
  <2> HIDE DEF large
  <2>3. \A c : c = DigitChar(33, "large" \in flags) => c \in Dark
    BY <2>2 DEF large
  <2> HIDE DEF Dark
  <2> QED
    BY <2>1, <2>3 DEF PrefixOf
<1>3. ds \in Seq(Dark)
  <2> DEFINE n == IF num < 0 THEN -num ELSE num
             large == "large" \in flags
  <2>1. n \in Nat /\ large \in BOOLEAN
    OBVIOUS
  <2>2. ds = Digits(n, base, large)
    BY DEF DigitsOf
  <2>3. DigitChars \subseteq Dark
    BY DEF DigitChars
  <2> HIDE DEF n, large, ds, Dark
  <2>4. ds \in Seq(DigitChars)
    BY <2>1, <2>2, DigitsSpelt
  <2> QED
    BY <2>3, <2>4, SeqMonotonic
<1>4. zs \in Seq(Dark)
  <2>1. Zero \in Dark
    BY DEF Zero
  <2>2. ds \in Seq(NumberChars) /\ DigitCount(num, base, prec, flags) \in Nat
    BY NumberParts
  <2>3. Len(ds) \in Nat
    BY <2>2, LenProperties
  <2> DEFINE d == DigitCount(num, base, prec, flags) - Len(ds)
  <2>4. d \in Int
    BY <2>2, <2>3
  <2>5. zs = Repeat(Zero, d)
    BY DEF ZerosOf
  <2> HIDE DEF d, ds, Dark, zs
  <2> QED
    BY <2>1, <2>4, <2>5, RepeatText
<1>5. bare = sg \o px \o zs \o ds
  BY DEF Bare
<1>6. bare \in Seq(NumberChars) /\ Len(bare) \in Nat /\ Len(bare) >= 1
  BY BareText
<1> HIDE DEF sg, px, zs, ds, bare
<1>7. bare \in Seq(Dark)
  <2> HIDE DEF Dark
  <2> QED
    BY <1>1, <1>2, <1>3, <1>4, <1>5, JoinedFour
<1>8. bare[1] \in Dark
  <2>1. 1 \in 1 .. Len(bare)
    BY <1>6
  <2> HIDE DEF Dark
  <2> QED
    BY <1>7, <2>1, ElementOfSeq
<1>9. bare[1] # Blank
  BY <1>8 DEF Blank
<1> QED
  BY <1>6, <1>9 DEF bare

\* Strip takes away what was put in front.
LEMMA StripLead ==
  ASSUME NEW S, NEW c \in S, NEW n \in Int, NEW x \in Seq(S), Len(x) \in Nat \ {0}, x[1] # c
  PROVE  Strip(Repeat(c, n) \o x, c) = x
<1> DEFINE b == Repeat(c, n)
           l == IF n > 0 THEN n ELSE 0
<1>0. l \in Nat /\ 1 .. l = 1 .. n
  OBVIOUS
<1>1. b \in Seq(S) /\ Len(b) = l /\ \A k \in 1 .. l : b[k] = c
  BY <1>0, RepeatText
<1> HIDE DEF b, l
<1> DEFINE y == b \o x
<1>a. PICK h \in Nat \ {0} : h = Len(x)
  OBVIOUS
<1>2. /\ Len(y) = l + h /\ y \in Seq(S)
      /\ \A k \in 1 .. l + h : y[k] = IF k <= l THEN b[k] ELSE x[k - l]
  BY <1>1, <1>a, ConcatProperties
<1> HIDE DEF y
<1> DEFINE P(k) == (k > Len(y) \/ y[k] # c) /\ \A j \in 1 .. k - 1 : y[j] = c
<1>3. l + 1 \in 1 .. Len(y) + 1 /\ P(l + 1)
  <2>1. y[l + 1] = x[1]
    <3>1. l + 1 \in 1 .. l + h /\ ~(l + 1 <= l) /\ (l + 1) - l = 1
      BY <1>0, <1>2
    <3> QED
      BY <1>0, <1>2, <3>1
  <2>2. \A j \in 1 .. (l + 1) - 1 : y[j] = c
    <3>1. ASSUME NEW j \in 1 .. (l + 1) - 1 PROVE y[j] = c
      <4>1. j \in 1 .. l + h /\ j <= l /\ j \in 1 .. l
        BY <1>0, <1>2
      <4> QED
        BY <1>1, <1>2, <4>1
    <3> QED
      BY <3>1
  <2> QED
    BY <1>0, <1>2, <2>1, <2>2
<1>4. ASSUME NEW k \in 1 .. Len(y) + 1, P(k) PROVE k = l + 1
  <2>1. CASE k < l + 1
    <3>1. k \in 1 .. l + h /\ k <= l /\ k \in 1 .. l /\ ~(k > Len(y))
      BY <1>0, <1>2, <2>1
    <3>2. y[k] = c
      BY <1>1, <1>2, <3>1
    <3> QED
      BY <1>4, <3>1, <3>2
  <2>2. CASE k > l + 1
    <3>1. l + 1 \in 1 .. k - 1
      BY <1>0, <1>2, <2>2
    <3>2. y[l + 1] = c
      BY <1>4, <3>1
    <3>3. l + 1 \in 1 .. l + h /\ ~(l + 1 <= l) /\ (l + 1) - l = 1
      BY <1>0, <1>2
    <3>4. y[l + 1] = x[1]
      BY <1>2, <3>3
    <3> QED
      BY <3>2, <3>4
  <2> QED
    BY <1>0, <1>2, <2>1, <2>2
<1> DEFINE from == CHOOSE k \in 1 .. Len(y) + 1 : P(k)
<1>5. from = l + 1
  <2> HIDE DEF P
  <2>1. from \in 1 .. Len(y) + 1 /\ P(from)
    BY <1>3
  <2> HIDE DEF from
  <2> QED
    BY <1>4, <2>1
<1>6. Strip(y, c) = SubSeq(y, l + 1, l + h)
  BY <1>2, <1>5 DEF Strip
<1>7. SubSeq(y, l + 1, l + h) = x
  <2>1. l + 1 \in Len(b) + 1 .. Len(b) + Len(x) /\ l + h \in Len(b) + 1 .. Len(b) + Len(x)
    BY <1>0, <1>1, <1>a
  <2>2. SubSeq(b \o x, l + 1, l + h) = SubSeq(x, (l + 1) - Len(b), (l + h) - Len(b))
    BY <1>1, <2>1, SubSeqOfConcat2
  <2>3. (l + 1) - Len(b) = 1 /\ (l + h) - Len(b) = Len(x)
    BY <1>0, <1>1, <1>a
  <2> QED
    BY <2>2, <2>3, SubSeqFull DEF y
<1> QED
  BY <1>6, <1>7 DEF b, y

\* What is cut off behind a text is what was put there.
LEMMA UptoFirst ==
  ASSUME NEW S, NEW x \in Seq(S), NEW y \in Seq(S)
  PROVE  Upto(x \o y, Len(x)) = x
<1>1. x \o y \in Seq(S) /\ Len(x \o y) = Len(x) + Len(y) /\ Len(x) \in Nat /\ Len(y) \in Nat
  BY ConcatProperties, LenProperties
<1>2. Least(Len(x), Len(x \o y)) = Len(x)
  BY <1>1 DEF Least
<1>3. SubSeq(x \o y, 1, Len(x)) = x
  <2>1. CASE Len(x) = 0
    <3>1. x = <<>>
      BY <2>1, EmptySeq
    <3>2. SubSeq(x \o y, 1, Len(x)) = <<>>
      BY <2>1, SubSeqEmpty
    <3> QED
      BY <3>1, <3>2
  <2>2. CASE Len(x) # 0
    <3>1. 1 \in 1 .. Len(x) /\ Len(x) \in 1 .. Len(x)
      BY <1>1, <2>2
    <3>2. SubSeq(x \o y, 1, Len(x)) = SubSeq(x, 1, Len(x))
      BY <3>1, SubSeqOfConcat1
    <3> QED
      BY <3>2, SubSeqFull
  <2> QED
    BY <2>1, <2>2
<1> QED
  BY <1>2, <1>3 DEF Upto

\* FieldFilled holds of every number, base, width, precision and set of flags
\* that a format can give.
LEMMA FieldsFilled ==
  ASSUME NEW v \in Int, NEW base \in {8, 10, 16}, NEW size \in Int, NEW prec \in Int,
         NEW flags, Unspaced(flags)
  PROVE  LET bare  == number(v, base, None, prec, flags)
             field == number(v, base, size, prec, flags)
         IN  /\ Len(bare) \in Nat
             /\ size > Len(bare) => Len(field) = size
             /\ size <= Len(bare) => Len(field) = Len(bare)
             /\ "-" \in flags => Upto(field, Len(bare)) = bare
             /\ flags \cap {"-", "0"} = {} => Strip(field, Blank) = bare
<1> DEFINE bare  == number(v, base, None, prec, flags)
           field == number(v, base, size, prec, flags)
           b == Bare(v, base, prec, flags)
<1>1. b \in Seq(NumberChars) /\ Len(b) \in Nat \ {0} /\ b[1] # Blank
  BY BareDark
<1>2. None \in Int /\ None <= Len(b)
  BY <1>1 DEF None
<1>3. Shaped(bare, b, None, flags) /\ Shaped(field, b, size, flags)
  BY <1>2, NumberShape
<1> HIDE DEF bare, field, b
<1>4. bare = b
  BY <1>1, <1>2, <1>3 DEF Shaped
<1>5. /\ size > Len(b) => Len(field) = size
      /\ size <= Len(b) => Len(field) = Len(b)
  BY <1>3 DEF Shaped
<1>6. PICK blanks \in Seq(NumberChars), d \in Int :
        /\ blanks = Repeat(Blank, d)
        /\ "-" \in flags => field = b \o blanks
        /\ "-" \notin flags /\ "0" \notin flags => field = blanks \o b
  BY <1>3 DEF Shaped
<1>7. Blank \in NumberChars
  BY DEF Blank, NumberChars
<1>9. Upto(b \o blanks, Len(b)) = b
  BY <1>1, UptoFirst
<1>10. Strip(blanks \o b, Blank) = b
  BY <1>1, <1>6, <1>7, StripLead
<1>11. /\ Len(bare) \in Nat
       /\ size > Len(bare) => Len(field) = size
       /\ size <= Len(bare) => Len(field) = Len(bare)
       /\ "-" \in flags => Upto(field, Len(bare)) = bare
       /\ "-" \notin flags /\ "0" \notin flags => Strip(field, Blank) = bare
  BY <1>1, <1>4, <1>5, <1>6, <1>9, <1>10
<1> QED
  BY <1>11 DEF bare, field

\* The field width only adds blanks on the side that the flags say, or zeros inside, to
\* the text that number() writes, and no more than fill the field.
THEOREM NumbersFilled == Spec => []FieldFilled
<1>1. {1 - Word, -9, 0, 7, 10, Word, Word * Word - 1} \subseteq Int
  BY WordAssumption, ShortAssumption
<1>2. FieldFilled
  <2> SUFFICES ASSUME Idle, mem = Scratch,
                      NEW v \in {1 - Word, -9, 0, 7, 10, Word, Word * Word - 1},
                      NEW base \in {8, 10, 16}, NEW flags \in SUBSET {"-", "0", "+", "#", "sign"},
                      NEW size \in -1 .. 7, NEW prec \in -1 .. 7, v >= 0 \/ "sign" \in flags
               PROVE  LET bare  == number(v, base, None, prec, flags)
                          field == number(v, base, size, prec, flags)
                      IN  /\ Len(field) = (IF size > Len(bare) THEN size ELSE Len(bare))
                          /\ "-" \in flags => Upto(field, Len(bare)) = bare
                          /\ flags \cap {"-", "0"} = {} => Strip(field, Blank) = bare
    BY DEF FieldFilled
  <2>1. v \in Int /\ size \in Int /\ prec \in Int
    BY <1>1
  <2>2. Unspaced(flags)
    BY Zenon DEF Unspaced
  <2> DEFINE bare  == number(v, base, None, prec, flags)
             field == number(v, base, size, prec, flags)
  <2>3. /\ Len(bare) \in Nat
        /\ size > Len(bare) => Len(field) = size
        /\ size <= Len(bare) => Len(field) = Len(bare)
        /\ "-" \in flags => Upto(field, Len(bare)) = bare
        /\ flags \cap {"-", "0"} = {} => Strip(field, Blank) = bare
    BY <2>1, <2>2, FieldsFilled
  <2> HIDE DEF bare, field
  <2>4. Len(field) = IF size > Len(bare) THEN size ELSE Len(bare)
    BY <2>1, <2>3
  <2> QED
    BY <2>3, <2>4 DEF bare, field
<1>3. QED
  BY <1>2, PTL

----------------------------------------------------------------------------
(* The arguments that items take.                                          *)

Uses(item) == (IF item.width = Star THEN 1 ELSE 0) + (IF item.prec = Star THEN 1 ELSE 0)
              + (IF item.conv \in {"literal", "%", "unknown"} THEN 0 ELSE 1)

\* g counts the arguments of the first items, up to k of them.
Takes(g, format, k) ==
  g = [j \in 0 .. k |->
        IF j = 0 THEN 0
        ELSE g[j - 1] + (IF format[j].width = Star THEN 1 ELSE 0)
                      + (IF format[j].prec = Star THEN 1 ELSE 0)
                      + (IF format[j].conv \in {"literal", "%", "unknown"} THEN 0 ELSE 1)]

\* Such a function counts item by item, there is one for every k, and they all agree.
LEMMA TakesStep ==
  ASSUME NEW format, NEW k \in Nat, NEW g, Takes(g, format, k)
  PROVE  /\ g[0] = 0 /\ g \in [0 .. k -> Nat]
         /\ \A j \in 1 .. k : g[j] = g[j - 1] + Uses(format[j])
<1>1. g[0] = 0 /\ DOMAIN g = 0 .. k /\ g = [j \in 0 .. k |-> g[j]]
  BY DEF Takes
<1>2. \A j \in 0 .. k : j # 0 =>
        g[j] = g[j - 1] + (IF format[j].width = Star THEN 1 ELSE 0)
                      + (IF format[j].prec = Star THEN 1 ELSE 0)
                      + (IF format[j].conv \in {"literal", "%", "unknown"} THEN 0 ELSE 1)
  BY DEF Takes
<1> DEFINE X == {j \in Nat : j <= k => g[j] \in Nat}
<1>3. 0 \in X
  BY <1>1
<1>4. ASSUME NEW j \in Nat, j \in X PROVE j + 1 \in X
  <2>1. CASE j + 1 <= k
    <3>1. PICK a \in {0, 1}, b \in {0, 1}, c \in {0, 1} :
            g[j + 1] = g[(j + 1) - 1] + a + b + c
      BY <1>2, <2>1
    <3>2. (j + 1) - 1 = j /\ g[j] \in Nat
      BY <1>4, <2>1
    <3> QED
      BY <3>1, <3>2
  <2> QED
    BY <2>1
<1> HIDE DEF X
<1>5. Nat \subseteq X
  BY <1>3, <1>4, SetInduction
<1>6. \A j \in 0 .. k : g[j] \in Nat
  BY <1>5 DEF X
<1>7. ASSUME NEW j \in 1 .. k PROVE g[j] = g[j - 1] + Uses(format[j])
  <2> DEFINE a == IF format[j].width = Star THEN 1 ELSE 0
             b == IF format[j].prec = Star THEN 1 ELSE 0
             c == IF format[j].conv \in {"literal", "%", "unknown"} THEN 0 ELSE 1
  <2>1. g[j] = g[j - 1] + a + b + c
    BY <1>2
  <2>2. a \in Nat /\ b \in Nat /\ c \in Nat /\ Uses(format[j]) = a + b + c /\ g[j - 1] \in Nat
    BY <1>6 DEF Uses
  <2> HIDE DEF a, b, c
  <2> QED
    BY <2>1, <2>2
<1> QED
  BY <1>1, <1>6, <1>7

LEMMA TakesOnce ==
  ASSUME NEW format, NEW k \in Nat, NEW n \in Nat, NEW g, NEW h,
         Takes(g, format, k), Takes(h, format, n), NEW i \in Nat, i <= k, i <= n
  PROVE  g[i] = h[i]
<1>1. /\ g[0] = 0 /\ \A j \in 1 .. k : g[j] = g[j - 1] + Uses(format[j])
      /\ h[0] = 0 /\ \A j \in 1 .. n : h[j] = h[j - 1] + Uses(format[j])
  BY TakesStep
<1> DEFINE X == {j \in Nat : j <= k /\ j <= n => g[j] = h[j]}
<1>2. 0 \in X
  BY <1>1
<1>3. ASSUME NEW j \in Nat, j \in X PROVE j + 1 \in X
  <2>1. CASE j + 1 <= k /\ j + 1 <= n
    <3>1. j + 1 \in 1 .. k /\ j + 1 \in 1 .. n /\ (j + 1) - 1 = j /\ g[j] = h[j]
      BY <1>3, <2>1
    <3> QED
      BY <1>1, <3>1
  <2> QED
    BY <2>1
<1> HIDE DEF X
<1>4. Nat \subseteq X
  BY <1>2, <1>3, SetInduction
<1> QED
  BY <1>4 DEF X

LEMMA TakesExists ==
  ASSUME NEW format
  PROVE  \A k \in Nat : \E g : Takes(g, format, k)
<1> DEFINE X == {k \in Nat : \E g : Takes(g, format, k)}
<1>1. 0 \in X
  <2>1. Takes([j \in 0 .. 0 |-> 0], format, 0)
    BY DEF Takes
  <2> QED
    BY <2>1
<1>2. ASSUME NEW k \in Nat, k \in X PROVE k + 1 \in X
  <2>1. PICK g : Takes(g, format, k)
    BY <1>2
  <2> DEFINE e == g[k] + (IF format[k + 1].width = Star THEN 1 ELSE 0)
                  + (IF format[k + 1].prec = Star THEN 1 ELSE 0)
                  + (IF format[k + 1].conv \in {"literal", "%", "unknown"} THEN 0 ELSE 1)
             h == [j \in 0 .. k + 1 |-> IF j = k + 1 THEN e ELSE g[j]]
  <2>2. h[k + 1] = e /\ \A j \in 0 .. k : h[j] = g[j]
    OBVIOUS
  <2>3. h = [j \in 0 .. k + 1 |-> h[j]]
    OBVIOUS
  <2> HIDE DEF h
  <2>4. ASSUME NEW j \in 0 .. k + 1
        PROVE  h[j] = IF j = 0 THEN 0
                      ELSE h[j - 1] + (IF format[j].width = Star THEN 1 ELSE 0)
                      + (IF format[j].prec = Star THEN 1 ELSE 0)
                      + (IF format[j].conv \in {"literal", "%", "unknown"} THEN 0 ELSE 1)
    <3>1. CASE j = k + 1
      <4>1. j # 0 /\ j - 1 = k /\ j - 1 \in 0 .. k
        BY <3>1
      <4>2. h[j - 1] = g[k] /\ h[j] = e
        BY <2>2, <3>1, <4>1
      <4> QED
        BY <3>1, <4>1, <4>2
    <3>2. CASE j # k + 1
      <4>1. j \in 0 .. k /\ (j # 0 => j - 1 \in 0 .. k)
        BY <3>2
      <4>2. g[j] = IF j = 0 THEN 0
                   ELSE g[j - 1] + (IF format[j].width = Star THEN 1 ELSE 0)
                      + (IF format[j].prec = Star THEN 1 ELSE 0)
                      + (IF format[j].conv \in {"literal", "%", "unknown"} THEN 0 ELSE 1)
        BY <2>1, <4>1 DEF Takes
      <4>3. h[j] = g[j] /\ (j # 0 => h[j - 1] = g[j - 1])
        BY <2>2, <4>1
      <4> HIDE DEF e
      <4> QED
        BY <4>2, <4>3
    <3> QED
      BY <3>1, <3>2
  <2> HIDE DEF e
  <2>5. Takes(h, format, k + 1)
    BY <2>3, <2>4, Zenon DEF Takes
  <2> QED
    BY <2>5
<1> HIDE DEF X
<1>3. Nat \subseteq X
  BY <1>1, <1>2, SetInduction
<1> QED
  BY <1>3 DEF X

\* An item takes its own arguments behind those of the items before it.
LEMMA TakenNext ==
  ASSUME NEW format, NEW k \in Nat
  PROVE  /\ Taken(format, 0) = 0 /\ Taken(format, k) \in Nat
         /\ Taken(format, k + 1) = Taken(format, k) + Uses(format[k + 1])
<1> DEFINE upto(n) == CHOOSE g : Takes(g, format, n)
<1>1. \A n \in Nat : Takes(upto(n), format, n)
  <2> TAKE n \in Nat
  <2>1. \E g : Takes(g, format, n)
    BY TakesExists
  <2> QED
    BY <2>1, Zenon
<1>2. \A n \in Nat : Taken(format, n) = upto(n)[n]
  BY Zenon DEF Taken, Takes
<1> HIDE DEF upto
<1>3. k + 1 \in Nat /\ k + 1 \in 1 .. k + 1 /\ (k + 1) - 1 = k /\ k <= k + 1 /\ 0 \in Nat
  OBVIOUS
<1>4. upto(k + 1)[k + 1] = upto(k + 1)[k] + Uses(format[k + 1])
  BY <1>1, <1>3, TakesStep
<1>5. upto(k + 1)[k] = upto(k)[k]
  BY <1>1, <1>3, TakesOnce
<1>6. upto(k)[k] \in Nat /\ upto(0)[0] = 0
  BY <1>1, <1>3, TakesStep
<1> QED
  BY <1>2, <1>3, <1>4, <1>5, <1>6

----------------------------------------------------------------------------
(* Searches.                                                               *)

\* at[k] is where a search that begins at k stops.
Seeks(at, Halt) == at = [k \in Nat |-> IF k \in Halt THEN k ELSE at[k + 1]]

\* There is such a function for any places to stop at.
LEMMA SeekExists ==
  ASSUME NEW Halt
  PROVE  \E at : Seeks(at, Halt)
<1> DEFINE Later(k) == {j \in Nat : j >= k /\ j \in Halt}
           first(k) == CHOOSE j \in Later(k) : \A i \in Later(k) : j <= i
           at == [k \in Nat |-> IF Later(k) = {} THEN 0 ELSE first(k)]
<1>1. ASSUME NEW k \in Nat, Later(k) # {}
      PROVE  first(k) \in Later(k) /\ \A i \in Later(k) : first(k) <= i
  <2> DEFINE L == Later(k)
  <2>1. L \in SUBSET Nat /\ L # {}
    BY <1>1
  <2> HIDE DEF L
  <2>2. \E j \in L : \A i \in L : j <= i
    BY <2>1, LeastNumber
  <2>3. LET f == CHOOSE j \in L : \A i \in L : j <= i IN f \in L /\ \A i \in L : f <= i
    BY <2>2, Zenon
  <2> QED
    BY <2>3, Zenon DEF L
<1>2. ASSUME NEW k \in Nat PROVE at[k] = IF k \in Halt THEN k ELSE at[k + 1]
  <2> HIDE DEF first
  <2>1. CASE k \in Halt
    <3>1. k \in Later(k)
      BY <2>1
    <3>2. first(k) \in Nat /\ first(k) >= k /\ first(k) <= k
      BY <1>1, <3>1
    <3> QED
      BY <2>1, <3>1, <3>2
  <2>2. CASE k \notin Halt
    <3>1. Later(k) = Later(k + 1)
      <4>1. ASSUME NEW j \in Nat PROVE (j >= k /\ j \in Halt) <=> (j >= k + 1 /\ j \in Halt)
        BY <2>2
      <4> QED
        BY <4>1
    <3>2. first(k) = first(k + 1)
      BY <3>1 DEF first
    <3> HIDE DEF Later
    <3> QED
      BY <2>2, <3>1, <3>2
  <2> QED
    BY <2>1, <2>2
<1> HIDE DEF Later, first
<1>3. at = [k \in Nat |-> at[k]]
  OBVIOUS
<1> HIDE DEF at
<1>4. Seeks(at, Halt)
  BY <1>2, <1>3, Zenon DEF Seeks
<1> QED
  BY <1>4

\* It stops at the first place there is, if there is one.
LEMMA SeekFirst ==
  ASSUME NEW Halt, NEW at, Seeks(at, Halt), NEW a \in Nat, NEW e \in Nat, a <= e, e \in Halt
  PROVE  /\ at[a] \in Nat /\ a <= at[a] /\ at[a] <= e /\ at[a] \in Halt
         /\ \A j \in Nat : a <= j /\ j < at[a] => j \notin Halt
<1> DEFINE Found(i) == /\ at[i] \in Nat /\ i <= at[i] /\ at[i] <= e /\ at[i] \in Halt
                       /\ \A j \in Nat : i <= j /\ j < at[i] => j \notin Halt
           X == {d \in Nat : d <= e => Found(e - d)}
<1>1. \A k \in Nat : at[k] = IF k \in Halt THEN k ELSE at[k + 1]
  BY DEF Seeks
<1>2. ASSUME NEW i \in Nat, i <= e, i \in Halt PROVE Found(i)
  <2>1. at[i] = i
    BY <1>1, <1>2
  <2> QED
    BY <1>2, <2>1
<1>3. 0 \in X
  <2>1. e - 0 = e
    OBVIOUS
  <2>2. Found(e)
    BY <1>2
  <2> QED
    BY <2>1, <2>2
<1>4. ASSUME NEW d \in Nat, d \in X PROVE d + 1 \in X
  <2> SUFFICES ASSUME d + 1 <= e PROVE Found(e - (d + 1))
    OBVIOUS
  <2>1. PICK i \in Nat : i = e - (d + 1) /\ i <= e /\ i + 1 = e - d
    OBVIOUS
  <2>2. Found(i + 1)
    BY <1>4, <2>1
  <2>3. CASE i \in Halt
    <3>1. Found(i)
      <4> HIDE DEF Found
      <4> QED
        BY <1>2, <2>1, <2>3
    <3> QED
      BY <2>1, <3>1
  <2>4. CASE i \notin Halt
    <3>1. at[i] = at[i + 1]
      BY <1>1, <2>4
    <3>2. PICK p \in Nat : p = at[i] /\ i + 1 <= p /\ p <= e /\ p \in Halt
      BY <2>2, <3>1
    <3>3. ASSUME NEW j \in Nat, i <= j, j < p PROVE j \notin Halt
      <4>1. j = i \/ i + 1 <= j
        BY <3>3
      <4> QED
        BY <2>2, <2>4, <3>1, <3>2, <3>3, <4>1
    <3>4. Found(i)
      BY <3>2, <3>3
    <3> QED
      BY <2>1, <3>4
  <2> QED
    BY <2>3, <2>4
<1> HIDE DEF X
<1>5. Nat \subseteq X
  BY <1>3, <1>4, SetInduction
<1>6. PICK d \in Nat : d = e - a /\ a = e - d
  OBVIOUS
<1>7. Found(e - d)
  <2> HIDE DEF Found
  <2> QED
    BY <1>5, <1>6 DEF X
<1> QED
  BY <1>6, <1>7

\* The first byte of S from a on, when there is one.
LEMMA FirstOfFinds ==
  ASSUME NEW m, NEW S, NEW a \in Nat, NEW e \in Nat, a <= e, m[e] \in S
  PROVE  /\ FirstOf(m, a, S) \in Nat /\ a <= FirstOf(m, a, S) /\ FirstOf(m, a, S) <= e
         /\ m[FirstOf(m, a, S)] \in S
         /\ \A j \in Nat : a <= j /\ j < FirstOf(m, a, S) => m[j] \notin S
<1> DEFINE Halt == {i \in Nat : m[i] \in S}
           at == CHOOSE f : f = [i \in Nat |-> IF m[i] \in S THEN i ELSE f[i + 1]]
<1>1. \A f : Seeks(f, Halt) <=> f = [i \in Nat |-> IF m[i] \in S THEN i ELSE f[i + 1]]
  BY DEF Seeks
<1>2. Seeks(at, Halt)
  <2>1. \E f : f = [i \in Nat |-> IF m[i] \in S THEN i ELSE f[i + 1]]
    <3>1. \E f : Seeks(f, Halt)
      BY SeekExists
    <3> HIDE DEF Halt
    <3> QED
      BY <1>1, <3>1, Zenon
  <2>2. at = [i \in Nat |-> IF m[i] \in S THEN i ELSE at[i + 1]]
    BY <2>1, Zenon
  <2> HIDE DEF Halt
  <2> QED
    BY <1>1, <2>2, Zenon
<1>3. FirstOf(m, a, S) = at[a]
  BY Zenon DEF FirstOf
<1>4. e \in Halt
  OBVIOUS
<1> HIDE DEF at
<1>5. /\ at[a] \in Nat /\ a <= at[a] /\ at[a] <= e /\ at[a] \in Halt
      /\ \A j \in Nat : a <= j /\ j < at[a] => j \notin Halt
  <2> HIDE DEF Halt
  <2> QED
    BY <1>2, <1>4, SeekFirst
<1> QED
  BY <1>3, <1>5

\* strnlen stops at the count or at a NUL, whichever comes first.
LEMMA StrnlenFinds ==
  ASSUME NEW m, NEW s \in Nat, NEW n \in Int, NEW e \in Nat, m[s + e] = Nul \/ e = n
  PROVE  /\ strnlen(m, s, n) \in Nat /\ strnlen(m, s, n) <= e
         /\ strnlen(m, s, n) = n \/ m[s + strnlen(m, s, n)] = Nul
         /\ \A j \in Nat : j < strnlen(m, s, n) => j # n /\ m[s + j] # Nul
<1> DEFINE Halt == {k \in Nat : k = n \/ m[s + k] = Nul}
           at == CHOOSE f : f = [k \in Nat |-> IF k = n \/ m[s + k] = Nul THEN k ELSE f[k + 1]]
<1>1. \A f : Seeks(f, Halt) <=> f = [k \in Nat |-> IF k = n \/ m[s + k] = Nul THEN k ELSE f[k + 1]]
  BY DEF Seeks
<1>2. Seeks(at, Halt)
  <2>1. \E f : f = [k \in Nat |-> IF k = n \/ m[s + k] = Nul THEN k ELSE f[k + 1]]
    <3>1. \E f : Seeks(f, Halt)
      BY SeekExists
    <3> HIDE DEF Halt
    <3> QED
      BY <1>1, <3>1, Zenon
  <2>2. at = [k \in Nat |-> IF k = n \/ m[s + k] = Nul THEN k ELSE at[k + 1]]
    BY <2>1, Zenon
  <2> HIDE DEF Halt
  <2> QED
    BY <1>1, <2>2, Zenon
<1>3. strnlen(m, s, n) = at[0]
  BY Zenon DEF strnlen
<1>4. e \in Halt /\ 0 \in Nat /\ 0 <= e
  OBVIOUS
<1> HIDE DEF at
<1>5. /\ at[0] \in Nat /\ 0 <= at[0] /\ at[0] <= e /\ at[0] \in Halt
      /\ \A j \in Nat : 0 <= j /\ j < at[0] => j \notin Halt
  <2> HIDE DEF Halt
  <2> QED
    BY <1>2, <1>4, SeekFirst
<1> QED
  BY <1>3, <1>5

----------------------------------------------------------------------------
(* The buffer.                                                             *)

\* The last address, and the last one of the buffer.
LastCell == CHOOSE top \in DOMAIN Scratch : DOMAIN Scratch = 0 .. top /\ Sizes \subseteq 0 .. top
EndOf(size) == IF Buf + size - 1 > LastCell THEN LastCell ELSE Buf + size - 1

Byte == 0 .. 255

\* The addresses begin at 0, and the buffer lies among them.
LEMMA Memory ==
  /\ LastCell \in Nat /\ DOMAIN Scratch = 0 .. LastCell /\ Sizes \subseteq 0 .. LastCell
  /\ Buf \in Nat /\ 1 <= Buf /\ Buf <= LastCell /\ Scratch \in [0 .. LastCell -> Byte]
<1>1. \E top \in DOMAIN Scratch : DOMAIN Scratch = 0 .. top /\ Sizes \subseteq 0 .. top
  BY PrintAssumption, Zenon
<1>2. /\ LastCell \in DOMAIN Scratch /\ DOMAIN Scratch = 0 .. LastCell
      /\ Sizes \subseteq 0 .. LastCell
  BY <1>1, Zenon DEF LastCell
<1>3. Buf \in DOMAIN Scratch \ {0} /\ Scratch \in [DOMAIN Scratch -> Byte]
  BY PrintAssumption, Zenon DEF Byte
<1> QED
  BY <1>2, <1>3

LEMMA TopCell == ASSUME DOMAIN mem = DOMAIN Scratch PROVE Top = LastCell /\ LastCell \in Nat
<1>1. LastCell \in Nat /\ Cells = 0 .. LastCell
  BY Memory DEF Cells
<1>2. LastCell \in Cells /\ \A b \in Cells : b <= LastCell
  BY <1>1
<1>3. Top \in Cells /\ \A b \in Cells : b <= Top
  BY <1>2, Zenon DEF Top
<1>4. Top <= LastCell /\ LastCell <= Top /\ Top \in Nat
  BY <1>1, <1>2, <1>3
<1> QED
  BY <1>1, <1>4

\* The end that is computed is the last address of the buffer, for every size.
LEMMA BufferEnd ==
  ASSUME DOMAIN mem = DOMAIN Scratch, NEW size \in Sizes
  PROVE  /\ EndOf(size) \in Int /\ Buf - 1 <= EndOf(size) /\ EndOf(size) <= LastCell
         /\ size \in Nat /\ (size > 0 => Buf <= EndOf(size))
         /\ End(size) = EndOf(size) /\ BufferOf(size) = Buf .. EndOf(size)
<1>1. /\ LastCell \in Nat /\ Buf \in Nat /\ 1 <= Buf /\ Buf <= LastCell
      /\ size \in Nat /\ size <= LastCell /\ Cells = 0 .. LastCell
  BY Memory DEF Cells
<1>2. Top = LastCell
  BY TopCell
<1>3. PICK n \in Nat : n = Buf + size - 1
  BY <1>1
<1>4. CASE n <= LastCell
  <2>1. n % (LastCell + 1) = n
    BY <1>1, <1>4, ModSmall
  <2>2. End(size) = n
    BY <1>1, <1>2, <1>3, <2>1 DEF End
  <2>3. EndOf(size) = n
    BY <1>1, <1>3, <1>4 DEF EndOf
  <2>4. BufferOf(size) = Buf .. n
    BY <1>1, <1>2, <1>3, <1>4 DEF BufferOf, Area
  <2> QED
    BY <1>1, <1>3, <1>4, <2>2, <2>3, <2>4
<1>5. CASE n > LastCell
  <2>1. PICK r \in Nat : r = n - (LastCell + 1) /\ r < Buf - 1 /\ r < LastCell + 1
    BY <1>1, <1>3, <1>5
  <2>2. n % (LastCell + 1) = r
    <3>1. LastCell + 1 \in Nat \ {0} /\ n = (LastCell + 1) * 1 + r /\ 1 \in Nat
      BY <1>1, <2>1
    <3> QED
      BY <1>1, <2>1, <3>1, ModUnique
  <2>3. End(size) = LastCell
    BY <1>1, <1>2, <1>3, <2>1, <2>2 DEF End
  <2>4. EndOf(size) = LastCell
    BY <1>1, <1>3, <1>5 DEF EndOf
  <2>5. BufferOf(size) = Buf .. LastCell
    BY <1>1, <1>2, <1>3, <1>5 DEF BufferOf
  <2> QED
    BY <1>1, <1>3, <1>5, <2>3, <2>4, <2>5
<1> QED
  BY <1>4, <1>5, <1>1

\* What is left of a sequence behind its first k elements.
Rest(s, k) == SubSeq(s, k + 1, Len(s))

\* Its length and elements, its head and tail, and what is left of it in turn.
LEMMA RestOf ==
  ASSUME NEW S, NEW s \in Seq(S), NEW k \in Nat, k <= Len(s)
  PROVE  /\ Rest(s, k) \in Seq(S) /\ Len(Rest(s, k)) = Len(s) - k
         /\ \A i \in 1 .. Len(s) - k : Rest(s, k)[i] = s[k + i] /\ s[k + i] \in S
<1>1. PICK l \in Nat : l = Len(s)
  BY LenProperties
<1>2. \A i \in 1 .. l : s[i] \in S
  BY <1>1, ElementOfSeq
<1>3. \A i \in k + 1 .. l : s[i] \in S
  BY <1>2
<1>4. /\ SubSeq(s, k + 1, l) \in Seq(S)
      /\ Len(SubSeq(s, k + 1, l)) = (IF k + 1 <= l THEN l - (k + 1) + 1 ELSE 0)
      /\ \A i \in 1 .. l - (k + 1) + 1 : SubSeq(s, k + 1, l)[i] = s[(k + 1) + i - 1]
  BY <1>3, SubSeqProperties
<1>5. ASSUME NEW i \in 1 .. l - k
      PROVE  SubSeq(s, k + 1, l)[i] = s[k + i] /\ s[k + i] \in S
  <2>1. i \in 1 .. l - (k + 1) + 1 /\ (k + 1) + i - 1 = k + i /\ k + i \in 1 .. l
    BY <1>1
  <2> QED
    BY <1>2, <1>4, <2>1
<1>6. Len(SubSeq(s, k + 1, l)) = l - k
  BY <1>1, <1>4
<1> QED
  BY <1>1, <1>4, <1>5, <1>6 DEF Rest

LEMMA RestHead ==
  ASSUME NEW S, NEW s \in Seq(S), NEW k \in Nat, k <= Len(s), Rest(s, k) # <<>>
  PROVE  /\ k + 1 <= Len(s) /\ Head(Rest(s, k)) = s[k + 1] /\ s[k + 1] \in S
         /\ Tail(Rest(s, k)) = Rest(s, k + 1)
<1>1. PICK l \in Nat : l = Len(s)
  BY LenProperties
<1>2. Rest(s, k) \in Seq(S) /\ Len(Rest(s, k)) = l - k
  BY <1>1, RestOf
<1>3. k + 1 <= l
  <2>1. l - k # 0
    BY <1>2, EmptySeq
  <2> QED
    BY <1>1, <2>1
<1>4. k + 1 \in 1 .. l /\ l \in k + 1 .. l
  BY <1>3
<1>5. Head(SubSeq(s, k + 1, l)) = s[k + 1] /\ Tail(SubSeq(s, k + 1, l)) = SubSeq(s, (k + 1) + 1, l)
  BY <1>1, <1>4, HeadTailOfSubSeq
<1>6. s[k + 1] \in S
  BY <1>1, <1>4, ElementOfSeq
<1> QED
  BY <1>1, <1>3, <1>5, <1>6 DEF Rest

LEMMA RestRest ==
  ASSUME NEW S, NEW s \in Seq(S), NEW k \in Nat, NEW j \in Nat, k + j <= Len(s)
  PROVE  SubSeq(Rest(s, k), j + 1, Len(Rest(s, k))) = Rest(s, k + j)
<1>1. PICK l \in Nat : l = Len(s)
  BY LenProperties
<1> DEFINE r == Rest(s, k)
           a == Rest(r, j)
           b == Rest(s, k + j)
<1>0. k <= Len(s) /\ k + j \in Nat
  BY <1>1
<1>2. r \in Seq(S) /\ Len(r) = Len(s) - k /\ \A i \in 1 .. Len(s) - k : r[i] = s[k + i]
  BY <1>0, RestOf
<1>5. b \in Seq(S) /\ Len(b) = Len(s) - (k + j) /\ \A i \in 1 .. Len(s) - (k + j) : b[i] = s[(k + j) + i]
  BY <1>0, RestOf
<1> HIDE DEF r
<1>3. j <= Len(r) /\ Len(r) - j = l - (k + j)
  BY <1>1, <1>2
<1>4. a \in Seq(S) /\ Len(a) = Len(r) - j /\ \A i \in 1 .. Len(r) - j : a[i] = r[j + i]
  BY <1>2, <1>3, RestOf
<1> HIDE DEF a, b
<1>6. ASSUME NEW i \in 1 .. Len(a) PROVE a[i] = b[i]
  <2>1. /\ i \in 1 .. Len(r) - j /\ i \in 1 .. Len(s) - (k + j) /\ j + i \in 1 .. Len(s) - k
        /\ k + (j + i) = (k + j) + i
    BY <1>1, <1>2, <1>3, <1>4
  <2> QED
    BY <1>2, <1>4, <1>5, <2>1
<1>7. a = b
  <2>1. Len(a) = Len(b)
    BY <1>1, <1>3, <1>4, <1>5
  <2> QED
    BY <1>4, <1>5, <1>6, <2>1, SeqEqual
<1> QED
  BY <1>7 DEF a, b, r, Rest

----------------------------------------------------------------------------
(* snprintf's call in progress.                                            *)

\* The first n characters that have a place before `end' are there.
Shown(m, text, n, end) == \A j \in 1 .. n : Buf + j - 1 <= end => m[Buf + j - 1] = text[j]

\* As much of the text as leaves room for a NUL, and the NUL.
Ended(m, text, size) ==
  LET n == IF Buf + Len(text) <= EndOf(size) THEN Len(text) ELSE EndOf(size) - Buf
  IN  size > 0 => m[Buf + n] = Nul /\ \A j \in 1 .. n : m[Buf + j - 1] = text[j]

\* The memory outside the buffer is as it was.
Untouched(m, size) == \A a \in 0 .. LastCell : a \notin Buf .. EndOf(size) => m[a] = Scratch[a]

\* What is left of the format and of the arguments begins at the same item.
InStep(o) ==
  \E k \in Nat : /\ k <= Len(o.plan[1]) /\ o.items = Rest(o.plan[1], k)
                 /\ Taken(o.plan[1], k) <= Len(o.plan[2])
                 /\ o.args = Rest(o.plan[2], Taken(o.plan[1], k))

IsOut(o) == o = [pc |-> o.pc, size |-> o.size, items |-> o.items, args |-> o.args, str |-> o.str,
                 todo |-> o.todo, count |-> o.count, ret |-> o.ret, old |-> o.old,
                 text |-> o.text, plan |-> o.plan]

\* Characters to write: bytes, and places to load them from.
Marks == {c \in Int : -1 - LastCell <= c /\ c <= 255}

\* Where the writing stands behind n characters, and how far that is as the code counts it.
Behind(n) == (Buf + n) % (LastCell + 1)
Distance(str) ==
  LET d == (str - Buf) % (LastCell + 1) IN IF d > LastCell \div 2 THEN d - (LastCell + 1) ELSE d

\* The text does not go round the end of the memory.
Unbroken(text) == Buf + Len(text) <= LastCell

Printed(o, m) ==
  /\ IsOut(o) /\ o.size \in Sizes /\ o.old = Scratch /\ o.plan \in Formats
  /\ m \in [0 .. LastCell -> Byte]
  /\ o.text \in Seq(Byte) /\ o.str = Behind(Len(o.text)) /\ o.todo \in Seq(Marks)
  /\ o.pc = "items" => InStep(o)
  /\ o.pc = "done" => o.ret = Distance(o.str)
  /\ Unbroken(o.text) =>
       /\ Untouched(m, o.size)
       /\ o.pc = "items" => Shown(m, o.text, Len(o.text), EndOf(o.size))
       /\ o.pc = "done" => Ended(m, o.text, o.size)

\* The invariant.
PrintInv == /\ out.pc \in {"idle", "items", "done"}
            /\ out.pc # "idle" => Printed(out, mem)
            /\ out.pc = "idle" => out = OutIdle

\* A format of the assumption.
LEMMA FormatFacts ==
  ASSUME NEW f \in Formats
  PROVE  /\ f[1] \in Seq(Items) /\ f[2] \in Seq(Int)
         /\ \A k \in 1 .. Len(f[1]) :
              /\ Taken(f[1], k) <= Len(f[2])
              /\ f[1][k].conv = "s" /\ f[2][Taken(f[1], k)] # Null =>
                   \A size \in Sizes : \E e \in DOMAIN Scratch :
                     /\ f[2][Taken(f[1], k)] \in 0 .. e
                     /\ Scratch[e] = Nul /\ e \notin Buf .. Buf + size - 1
<1>1. f \in Seq(Items) \X Seq(Int)
  BY PrintAssumption, Zenon
<1>2. f[1] \in Seq(Items) /\ f[2] \in Seq(Int)
  BY <1>1
<1> QED
  BY <1>2, PrintAssumption, Zenon

\* The item at the front, its arguments, and what is left when it is done.
LEMMA ItemFacts ==
  ASSUME NEW o, o.plan \in Formats, InStep(o), o.items # <<>>
  PROVE  \E k \in Nat, t \in Nat :
           /\ k + 1 \in 1 .. Len(o.plan[1]) /\ Head(o.items) = o.plan[1][k + 1]
           /\ Head(o.items) \in Items
           /\ t + Uses(Head(o.items)) = Taken(o.plan[1], k + 1)
           /\ t + Uses(Head(o.items)) <= Len(o.plan[2])
           /\ \A i \in 1 .. Uses(Head(o.items)) : o.args[i] = o.plan[2][t + i] /\ o.args[i] \in Int
           /\ Tail(o.items) = Rest(o.plan[1], k + 1)
           /\ SubSeq(o.args, Uses(Head(o.items)) + 1, Len(o.args))
              = Rest(o.plan[2], Taken(o.plan[1], k + 1))
<1> DEFINE f == o.plan[1]
           a == o.plan[2]
           u == Uses(Head(o.items))
<1>1. f \in Seq(Items) /\ a \in Seq(Int) /\ \A k \in 1 .. Len(f) : Taken(f, k) <= Len(a)
  BY FormatFacts
<1>2. PICK k \in Nat : /\ k <= Len(f) /\ o.items = Rest(f, k)
                       /\ Taken(f, k) <= Len(a) /\ o.args = Rest(a, Taken(f, k))
  BY DEF InStep
<1> HIDE DEF f, a
<1>3. /\ k + 1 <= Len(f) /\ Head(o.items) = f[k + 1] /\ f[k + 1] \in Items
      /\ Tail(o.items) = Rest(f, k + 1)
  BY <1>1, <1>2, RestHead
<1>4. k + 1 \in 1 .. Len(f)
  BY <1>1, <1>3, LenProperties
<1>5. PICK t \in Nat : t = Taken(f, k)
  BY TakenNext
<1>6. u \in Nat
  BY DEF Uses
<1>7. Taken(f, k + 1) = t + u
  BY <1>3, <1>5, TakenNext
<1> HIDE DEF u
<1>8. t + u <= Len(a)
  BY <1>1, <1>4, <1>7
<1>9. PICK l \in Nat : l = Len(a)
  BY <1>1, LenProperties
<1>10. \A i \in 1 .. Len(a) - t : Rest(a, t)[i] = a[t + i] /\ a[t + i] \in Int
  BY <1>1, <1>2, <1>5, RestOf
<1>11. ASSUME NEW i \in 1 .. u PROVE o.args[i] = a[t + i] /\ o.args[i] \in Int
  <2>1. i \in 1 .. Len(a) - t
    BY <1>6, <1>8, <1>9
  <2> QED
    BY <1>2, <1>5, <1>10, <2>1
<1>12. SubSeq(o.args, u + 1, Len(o.args)) = Rest(a, t + u)
  BY <1>1, <1>2, <1>5, <1>6, <1>8, RestRest
<1>13. /\ k + 1 \in 1 .. Len(f) /\ Head(o.items) = f[k + 1] /\ Head(o.items) \in Items
       /\ t + u = Taken(f, k + 1) /\ t + u <= Len(a)
       /\ \A i \in 1 .. u : o.args[i] = a[t + i] /\ o.args[i] \in Int
       /\ Tail(o.items) = Rest(f, k + 1)
       /\ SubSeq(o.args, u + 1, Len(o.args)) = Rest(a, Taken(f, k + 1))
  BY <1>3, <1>4, <1>7, <1>8, <1>11, <1>12, Zenon
<1> QED
  BY <1>5, <1>13, Zenon DEF u, f, a

\* Where the writing stands.
LEMMA BehindNext ==
  ASSUME NEW n \in Nat
  PROVE  /\ Behind(n) \in 0 .. LastCell
         /\ Buf + n <= LastCell => Behind(n) = Buf + n
         /\ Behind(n + 1) = (Behind(n) + 1) % (LastCell + 1)
<1>1. LastCell \in Nat /\ Buf \in Nat
  BY Memory
<1>2. PICK x \in Nat, b \in Nat \ {0} : x = Buf + n /\ b = LastCell + 1
  BY <1>1
<1>3. PICK q \in Nat, r \in Nat : q = x \div b /\ r = x % b /\ x = b * q + r /\ r < b
  <2>1. PICK q \in Nat : q = x \div b
    BY <1>2, Quotient
  <2>2. PICK r \in Nat : r = x % b /\ x = b * q + r
    BY <1>2, <2>1, ModFromDiv
  <2> QED
    BY <1>2, <2>1, <2>2
<1>4. Behind(n) = r /\ Behind(n + 1) = (x + 1) % b
  <2>1. Buf + (n + 1) = x + 1
    BY <1>1, <1>2
  <2> QED
    BY <1>2, <1>3, <2>1 DEF Behind
<1>5. (x + 1) % b = (r + 1) % b
  <2>1. CASE r + 1 < b
    <3>1. PICK s \in Nat : s = r + 1
      OBVIOUS
    <3>2. x + 1 = b * q + s
      BY <1>3, <3>1
    <3>3. (b * q + s) % b = s /\ s % b = s
      BY <2>1, <3>1, ModUnique, ModSmall
    <3> QED
      BY <3>1, <3>2, <3>3
  <2>2. CASE r + 1 = b
    <3>1. PICK p \in Nat : p = q + 1
      OBVIOUS
    <3>2. x + 1 = b * p + 0 /\ r + 1 = b * 1 + 0
      BY <1>3, <2>2, <3>1
    <3>3. (b * p + 0) % b = 0 /\ (b * 1 + 0) % b = 0
      BY ModUnique
    <3> QED
      BY <3>2, <3>3
  <2> QED
    BY <1>3, <2>1, <2>2
<1>6. x <= LastCell => r = x
  BY <1>1, <1>2, <1>3, ModSmall
<1> QED
  BY <1>1, <1>2, <1>3, <1>4, <1>5, <1>6

\* The code's count is the text's length when that is a positive int.
LEMMA DistanceOf ==
  ASSUME NEW n \in Nat, Buf + n <= LastCell
  PROVE  n <= LastCell \div 2 => Distance(Behind(n)) = n
<1>1. LastCell \in Nat /\ Buf \in Nat
  BY Memory
<1>2. Behind(n) - Buf = n
  BY <1>1, BehindNext
<1>3. n % (LastCell + 1) = n
  BY <1>1, ModSmall
<1>4. LastCell \div 2 \in Nat
  BY <1>1
<1> QED
  BY <1>2, <1>3, <1>4 DEF Distance

EndInMemory(size) ==
  EndOf(size) \in Int /\ EndOf(size) <= LastCell /\ Buf - 1 <= EndOf(size)

\* What writing a character does to the memory.
Stored(m, str, end, c) == IF str <= end THEN [m EXCEPT ![str] = c] ELSE m

LEMMA StoredByte ==
  ASSUME NEW m \in [0 .. LastCell -> Byte], NEW str \in 0 .. LastCell, NEW end \in Int,
         NEW c \in Byte
  PROVE  /\ Stored(m, str, end, c) \in [0 .. LastCell -> Byte]
         /\ \A a \in 0 .. LastCell :
              Stored(m, str, end, c)[a] = IF a = str /\ str <= end THEN c ELSE m[a]
<1> HIDE DEF Byte
<1> QED
  BY DEF Stored

\* A character is put behind the text there is.
LEMMA PutShows ==
  ASSUME NEW m \in [0 .. LastCell -> Byte], NEW text \in Seq(Byte), NEW c \in Byte,
         NEW size \in Sizes, EndInMemory(size), Shown(m, text, Len(text), EndOf(size)),
         Untouched(m, size), Unbroken(text),
         NEW w, w = Stored(m, Buf + Len(text), EndOf(size), c)
  PROVE  Untouched(w, size) /\ Shown(w, Append(text, c), Len(Append(text, c)), EndOf(size))
<1>1. PICK t \in Nat, e \in Int : t = Len(text) /\ e = EndOf(size)
  BY LenProperties DEF EndInMemory
<1>2. LastCell \in Nat /\ Buf \in Nat /\ 1 <= Buf /\ e <= LastCell /\ Buf + t <= LastCell
  BY <1>1, Memory DEF EndInMemory, Unbroken
<1>3. PICK str \in 0 .. LastCell : str = Buf + t
  BY <1>2
<1>4. \A a \in 0 .. LastCell : w[a] = IF a = str /\ str <= e THEN c ELSE m[a]
  <2>1. w = Stored(m, str, e, c)
    BY <1>1, <1>3
  <2>2. \A a \in 0 .. LastCell :
          Stored(m, str, e, c)[a] = IF a = str /\ str <= e THEN c ELSE m[a]
    BY StoredByte
  <2> QED
    BY <2>1, <2>2
<1>5. ASSUME NEW a \in 0 .. LastCell, a \notin Buf .. e PROVE w[a] = Scratch[a]
  <2>1. ~(a = str /\ str <= e)
    BY <1>2, <1>3, <1>5
  <2> QED
    BY <1>1, <1>4, <1>5, <2>1 DEF Untouched
<1>6. /\ Len(Append(text, c)) = t + 1 /\ Append(text, c)[t + 1] = c
      /\ \A j \in 1 .. t : Append(text, c)[j] = text[j]
  BY <1>1, AppendProperties
<1>7. \A j \in 1 .. t : Buf + j - 1 <= e => m[Buf + j - 1] = text[j]
  BY <1>1 DEF Shown
<1>8. ASSUME NEW j \in 1 .. t + 1, Buf + j - 1 <= e
      PROVE  w[Buf + j - 1] = Append(text, c)[j]
  <2>1. PICK a \in 0 .. LastCell : a = Buf + j - 1
    BY <1>2, <1>8
  <2>2. CASE j = t + 1
    <3>1. a = str /\ str <= e
      BY <1>2, <1>3, <1>8, <2>1, <2>2
    <3> QED
      BY <1>4, <1>6, <2>1, <2>2, <3>1
  <2>3. CASE j # t + 1
    <3>1. j \in 1 .. t /\ a # str
      BY <1>2, <1>3, <2>1, <2>3
    <3> QED
      BY <1>4, <1>6, <1>7, <1>8, <2>1, <3>1
  <2> QED
    BY <2>2, <2>3
<1> QED
  BY <1>1, <1>5, <1>6, <1>8 DEF Untouched, Shown

\* A character to write is a byte, wherever it comes from.
LEMMA MarkByte ==
  ASSUME NEW m \in [0 .. LastCell -> Byte], NEW c \in Marks
  PROVE  (IF c < 0 THEN m[Load(c)] ELSE c) \in Byte
<1>1. LastCell \in Nat /\ c \in Int /\ -1 - LastCell <= c /\ c <= 255
  BY Memory DEF Marks
<1>2. c < 0 => Load(c) \in 0 .. LastCell
  BY <1>1 DEF Load
<1>3. ~(c < 0) => c \in Byte
  BY <1>1 DEF Byte
<1>4. \A a \in 0 .. LastCell : m[a] \in Byte
  OBVIOUS
<1> HIDE DEF Byte, Marks, Load
<1> QED
  BY <1>2, <1>3, <1>4

\* So a character that is put keeps the invariant.
LEMMA PutPrints ==
  ASSUME Printed(out, mem), Put
  PROVE  Printed(out', mem') /\ out'.pc = "items"
<1> DEFINE h == Head(out.todo)
<1>1. /\ IsOut(out) /\ out.size \in Sizes /\ out.old = Scratch /\ out.plan \in Formats
      /\ mem \in [0 .. LastCell -> Byte] /\ InStep(out) /\ out.pc = "items"
      /\ out.text \in Seq(Byte) /\ out.str = Behind(Len(out.text))
      /\ out.todo \in Seq(Marks) /\ out.todo # <<>>
  BY DEF Printed, Put
<1>2. Unbroken(out.text) =>
        Untouched(mem, out.size) /\ Shown(mem, out.text, Len(out.text), EndOf(out.size))
  BY <1>1 DEF Printed
<1>3. DOMAIN mem = DOMAIN Scratch
  BY <1>1, Memory
<1>4. EndInMemory(out.size) /\ End(out.size) = EndOf(out.size)
  BY <1>1, <1>3, BufferEnd DEF EndInMemory
<1>5. Top = LastCell /\ LastCell \in Nat /\ Buf \in Nat
  BY <1>3, TopCell, Memory
<1>6. h \in Marks /\ Tail(out.todo) \in Seq(Marks)
  BY <1>1, HeadTailProperties
<1>7. PICK c \in Byte : c = IF h < 0 THEN mem[Load(h)] ELSE h
  BY <1>1, <1>6, MarkByte
<1>8. /\ mem' = Stored(mem, out.str, EndOf(out.size), c)
      /\ out' = [out EXCEPT !.todo = Tail(@), !.str = After(@), !.text = Append(@, c)]
  BY <1>4, <1>7, Zenon DEF Put, Stored
<1>9. /\ IsOut(out') /\ out'.pc = out.pc /\ out'.size = out.size /\ out'.old = out.old
      /\ out'.plan = out.plan /\ out'.items = out.items /\ out'.args = out.args
      /\ out'.todo = Tail(out.todo) /\ out'.str = After(out.str)
      /\ out'.text = Append(out.text, c)
  BY <1>1, <1>8 DEF IsOut
<1>10. PICK t \in Nat : t = Len(out.text)
  BY <1>1, LenProperties
<1>11. Append(out.text, c) \in Seq(Byte) /\ Len(Append(out.text, c)) = t + 1
  BY <1>1, <1>10, AppendProperties
<1>12. /\ Behind(t) \in 0 .. LastCell /\ Behind(t + 1) = (Behind(t) + 1) % (LastCell + 1)
       /\ Buf + t <= LastCell => Behind(t) = Buf + t
  BY <1>10, BehindNext
<1>13. out'.str = Behind(Len(out'.text))
  BY <1>1, <1>5, <1>9, <1>10, <1>11, <1>12 DEF After
<1>14. mem' \in [0 .. LastCell -> Byte]
  BY <1>1, <1>4, <1>8, <1>10, <1>12, StoredByte DEF EndInMemory
<1>15. InStep(out')
  BY <1>1, <1>9, Zenon DEF InStep
<1>16. ASSUME Unbroken(out'.text)
       PROVE  Untouched(mem', out.size)
              /\ Shown(mem', out'.text, Len(out'.text), EndOf(out.size))
  <2>1. Unbroken(out.text)
    BY <1>5, <1>9, <1>10, <1>11, <1>16 DEF Unbroken
  <2>2. out.str = Buf + Len(out.text)
    BY <1>1, <1>10, <1>12, <2>1 DEF Unbroken
  <2>3. ASSUME NEW m, NEW text, NEW size, NEW w, m = mem, text = out.text, size = out.size, w = mem'
        PROVE  Untouched(w, size) /\ Shown(w, Append(text, c), Len(Append(text, c)), EndOf(size))
    <3>1. /\ m \in [0 .. LastCell -> Byte] /\ text \in Seq(Byte) /\ size \in Sizes
          /\ EndInMemory(size) /\ Shown(m, text, Len(text), EndOf(size)) /\ Untouched(m, size)
          /\ Unbroken(text) /\ w = Stored(m, Buf + Len(text), EndOf(size), c)
      BY <1>1, <1>2, <1>4, <1>8, <2>1, <2>2, <2>3
    <3> QED
      BY <3>1, PutShows
  <2> QED
    BY <1>9, <2>3
<1> QED
  BY <1>1, <1>6, <1>9, <1>11, <1>13, <1>14, <1>15, <1>16 DEF Printed

\* The next state's call, when an item is taken.
LEMMA EmitFields ==
  ASSUME IsOut(out), NEW chars, NEW taken, Emit(chars, taken)
  PROVE  /\ IsOut(out') /\ out'.pc = out.pc /\ out'.size = out.size /\ out'.old = out.old
         /\ out'.plan = out.plan /\ out'.items = Tail(out.items)
         /\ out'.str = out.str /\ out'.text = out.text /\ out'.todo = chars /\ mem' = mem
         /\ out'.args = SubSeq(out.args, taken + 1, Len(out.args))
BY DEF IsOut, Emit

\* The items and arguments that are left are in step again.
LEMMA StepKept ==
  ASSUME NEW o, o.plan \in Formats, InStep(o), o.items # <<>>, NEW p, p.plan = o.plan,
         p.items = Tail(o.items),
         p.args = SubSeq(o.args, Uses(Head(o.items)) + 1, Len(o.args))
  PROVE  InStep(p)
<1>1. PICK k \in Nat, t \in Nat :
        /\ k + 1 \in 1 .. Len(o.plan[1])
        /\ t + Uses(Head(o.items)) = Taken(o.plan[1], k + 1)
        /\ t + Uses(Head(o.items)) <= Len(o.plan[2])
        /\ Tail(o.items) = Rest(o.plan[1], k + 1)
        /\ SubSeq(o.args, Uses(Head(o.items)) + 1, Len(o.args))
           = Rest(o.plan[2], Taken(o.plan[1], k + 1))
  BY ItemFacts
<1>2. k + 1 \in Nat /\ k + 1 <= Len(o.plan[1])
  <2>1. Len(o.plan[1]) \in Nat
    BY FormatFacts, LenProperties
  <2> QED
    BY <1>1, <2>1
<1>3. Taken(o.plan[1], k + 1) <= Len(o.plan[2])
  BY <1>1
<1> QED
  BY <1>1, <1>2, <1>3 DEF InStep

\* So an item that is taken keeps the invariant.
LEMMA EmitMarks ==
  ASSUME Printed(out, mem), out.pc = "items", out.items # <<>>, NEW chars \in Seq(Marks),
         Emit(chars, Uses(Item))
  PROVE  Printed(out', mem') /\ out'.pc = "items"
<1>1. IsOut(out) /\ out.plan \in Formats /\ InStep(out)
  BY DEF Printed
<1>2. /\ IsOut(out') /\ out'.pc = out.pc /\ out'.size = out.size /\ out'.old = out.old
      /\ out'.plan = out.plan /\ out'.items = Tail(out.items)
      /\ out'.str = out.str /\ out'.text = out.text /\ out'.todo = chars /\ mem' = mem
      /\ out'.args = SubSeq(out.args, Uses(Item) + 1, Len(out.args))
  BY <1>1, EmitFields
<1>3. InStep(out')
  BY <1>1, <1>2, StepKept DEF Item
<1> QED
  BY <1>2, <1>3 DEF Printed

LEMMA EmitPrints ==
  ASSUME Printed(out, mem), out.pc = "items", out.items # <<>>, NEW chars \in Seq(Byte),
         Emit(chars, Uses(Item))
  PROVE  Printed(out', mem') /\ out'.pc = "items"
<1>1. Byte \subseteq Marks
  BY Memory DEF Byte, Marks
<1>2. chars \in Seq(Marks)
  BY <1>1, SeqMonotonic
<1> QED
  BY <1>2, EmitMarks

\* The conversions that take an argument.
Plain == {"literal", "%", "unknown"}

\* What the parameters of an item are, and that its width, precision and argument are numbers.
LEMMA ItemShape ==
  ASSUME NEW item \in Items
  PROVE  /\ item.width \in {None, Star} \cup Nat /\ item.prec \in {None, Star} \cup Nat
         /\ item.ch \in Byte
         /\ item.conv = "literal" => item.width = None /\ item.prec = None
BY DEF Items, Character, Directive, Byte, Nul

LEMMA ItemNumbers ==
  ASSUME Item \in Items, \A i \in 1 .. Uses(Item) : out.args[i] \in Int
  PROVE  /\ field_width \in Int /\ precision \in Int
         /\ Item.conv \in Plain => Uses(Item) = Stars
         /\ Item.conv \notin Plain => Uses(Item) = Stars + 1 /\ Value \in Int
         /\ Stars \in Nat
<1>1. Item.width \in Int /\ Item.prec \in Int
  <2>1. Item.width \in {None, Star} \cup Nat /\ Item.prec \in {None, Star} \cup Nat
    BY ItemShape
  <2> QED
    BY <2>1 DEF None, Star
<1>2. Stars \in Nat /\ (Item.width = Star => Stars >= 1) /\ (Item.prec = Star => Stars >= 1)
  BY DEF Stars
<1>3. /\ Item.conv \in Plain => Uses(Item) = Stars
      /\ Item.conv \notin Plain => Uses(Item) = Stars + 1
      /\ Uses(Item) >= Stars
  BY <1>2 DEF Uses, Stars, Plain
<1>4. Item.width = Star => out.args[1] \in Int
  BY <1>2, <1>3
<1>5. Item.prec = Star => out.args[Stars] \in Int
  BY <1>2, <1>3
<1>6. field_width \in Int
  BY <1>1, <1>4 DEF field_width
<1>7. precision \in Int
  BY <1>1, <1>5 DEF precision
<1>8. Item.conv \notin Plain => Value \in Int
  BY <1>2, <1>3 DEF Value
<1> QED
  BY <1>2, <1>3, <1>6, <1>7, <1>8

\* Texts in a field, texts of numbers, and the text for a NULL pointer.
LEMMA PaddedText ==
  ASSUME NEW S, Blank \in S, NEW text \in Seq(S), field_width \in Int
  PROVE  Padded(text) \in Seq(S)
<1>1. PICK d \in Int : d = field_width - Len(text)
  <2>1. PICK l \in Nat : l = Len(text)
    BY LenProperties
  <2>2. PICK w \in Int : w = field_width
    OBVIOUS
  <2>3. w - l = field_width - Len(text) /\ w - l \in Int
    BY <2>1, <2>2
  <2> QED
    BY <2>3
<1>3. Repeat(Blank, d) \in Seq(S)
  BY RepeatText
<1>4. text \o Repeat(Blank, d) \in Seq(S) /\ Repeat(Blank, d) \o text \in Seq(S)
  BY <1>3, ConcatProperties
<1> QED
  BY <1>1, <1>4 DEF Padded

LEMMA NumberText ==
  ASSUME NEW num \in Int, NEW base \in {8, 10, 16}, NEW size \in Int, NEW prec \in Int, NEW flags
  PROVE  number(num, base, size, prec, flags) \in Seq(Byte)
<1>1. number(num, base, size, prec, flags) \in Seq(NumberChars)
  BY NumberShape DEF Shaped
<1>2. NumberChars \subseteq Byte
  BY DEF NumberChars, Byte
<1> QED
  BY <1>1, <1>2, SeqMonotonic

LEMMA NullTexts ==
  NullText \in Seq(Byte) /\ \A n \in Int : n <= Len(NullText) => SubSeq(NullText, 1, n) \in Seq(Byte)
<1>1. NullText \in Seq(Byte) /\ Len(NullText) = 6
  BY DEF NullText, Byte
<1>2. ASSUME NEW n \in Int, n <= Len(NullText) PROVE SubSeq(NullText, 1, n) \in Seq(Byte)
  <2>1. \A i \in 1 .. n : i \in 1 .. Len(NullText)
    BY <1>1, <1>2
  <2>2. \A i \in 1 .. n : NullText[i] \in Byte
    BY <1>1, <2>1, ElementOfSeq
  <2> QED
    BY <2>2, SubSeqProperties
<1> QED
  BY <1>1, <1>2

\* The places of a string that ends in the memory, cut to a count.
LEMMA CutString ==
  ASSUME NEW m, NEW s \in Nat, NEW e \in 0 .. LastCell, s <= e,
         m[e] = Nul, NEW n \in Int
  PROVE  [k \in 1 .. strnlen(m, s, n) |-> Load(s + k - 1)] \in Seq(Marks)
<1>1. LastCell \in Nat /\ e \in Nat
  BY Memory
<1>2. PICK d \in Nat : d = e - s /\ s + d = e
  BY <1>1
<1>3. PICK l \in Nat : l = strnlen(m, s, n) /\ l <= d
  BY <1>2, StrnlenFinds
<1>4. \A k \in 1 .. l : Load(s + k - 1) \in Marks
  BY <1>1, <1>2, <1>3 DEF Load, Marks
<1> DEFINE r == [k \in 1 .. l |-> Load(s + k - 1)]
<1>5. r \in [1 .. l -> Marks]
  BY <1>4
<1> HIDE DEF r, Marks
<1>6. r \in Seq(Marks)
  BY <1>5, IsASeq, LenProperties
<1> QED
  BY <1>3, <1>6 DEF r

\* What a step of the format has in hand.
LEMMA AtItem ==
  ASSUME Printed(out, mem), out.pc = "items", out.items # <<>>
  PROVE  /\ Item \in Items /\ field_width \in Int /\ precision \in Int /\ Stars \in Nat
         /\ Item.conv \in Plain => Uses(Item) = Stars
         /\ Item.conv \notin Plain => Uses(Item) = Stars + 1 /\ Value \in Int
         /\ Item.conv = "s" /\ Value # Null => Value \in Nat
<1>1. out.plan \in Formats /\ InStep(out) /\ out.size \in Sizes
  BY DEF Printed
<1>2. PICK k \in Nat, t \in Nat :
        /\ k + 1 \in 1 .. Len(out.plan[1]) /\ Item = out.plan[1][k + 1] /\ Item \in Items
        /\ t + Uses(Item) = Taken(out.plan[1], k + 1)
        /\ \A i \in 1 .. Uses(Item) : out.args[i] = out.plan[2][t + i] /\ out.args[i] \in Int
  BY <1>1, ItemFacts DEF Item
<1>3. /\ field_width \in Int /\ precision \in Int /\ Stars \in Nat
      /\ Item.conv \in Plain => Uses(Item) = Stars
      /\ Item.conv \notin Plain => Uses(Item) = Stars + 1 /\ Value \in Int
  BY <1>2, ItemNumbers
<1>4. ASSUME Item.conv = "s", Value # Null
      PROVE  Value \in Nat
  <2>1. Uses(Item) = Stars + 1 /\ Stars + 1 \in 1 .. Stars + 1
    BY <1>3, <1>4 DEF Plain
  <2>2. Value = out.plan[2][Taken(out.plan[1], k + 1)]
    BY <1>2, <2>1 DEF Value
  <2>3. \E e \in DOMAIN Scratch : Value \in 0 .. e
    BY <1>1, <1>2, <1>4, <2>2, FormatFacts
  <2> QED
    BY <2>3, Memory
<1> QED
  BY <1>2, <1>3, <1>4

\* Every conversion writes a text and takes its arguments.
LEMMA LiteralPrints ==
  ASSUME Printed(out, mem), Literal PROVE Printed(out', mem') /\ out'.pc = "items"
<1>1. out.pc = "items" /\ out.items # <<>> /\ Item.conv = "literal" /\ Emit(<<Item.ch>>, 0)
  BY DEF Literal, At, Ready
<1>2. Item \in Items /\ Uses(Item) = Stars
  BY <1>1, AtItem DEF Plain
<1>3. Item.ch \in Byte /\ Item.width = None /\ Item.prec = None
  BY <1>1, <1>2, ItemShape
<1>4. Uses(Item) = 0
  BY <1>2, <1>3 DEF Stars, None, Star
<1>5. <<Item.ch>> \in Seq(Byte)
  BY <1>3
<1> QED
  BY <1>1, <1>4, <1>5, EmitPrints

LEMMA CharPrints ==
  ASSUME Printed(out, mem), CharConversion PROVE Printed(out', mem') /\ out'.pc = "items"
<1>1. /\ out.pc = "items" /\ out.items # <<>> /\ Item.conv = "c"
      /\ Emit(Padded(<<Value % 256>>), Stars + 1)
  BY DEF CharConversion, At, Ready
<1>2. Uses(Item) = Stars + 1 /\ Value \in Int /\ field_width \in Int
  BY <1>1, AtItem DEF Plain
<1>3. Value % 256 \in Byte
  BY <1>2 DEF Byte
<1>4. PICK b \in Byte : b = Value % 256
  BY <1>3
<1>5. <<b>> \in Seq(Byte)
  OBVIOUS
<1>6. Padded(<<b>>) \in Seq(Byte)
  <2>1. Blank \in Byte
    BY DEF Blank, Byte
  <2> QED
    BY <1>2, <1>5, <2>1, PaddedText
<1> QED
  BY <1>1, <1>2, <1>4, <1>6, EmitPrints

LEMMA StringPrints ==
  ASSUME Printed(out, mem), StringConversion PROVE Printed(out', mem') /\ out'.pc = "items"
<1> DEFINE text == IF Value # Null
                   THEN [k \in 1 .. strnlen(mem, Value, precision) |-> Load(Value + k - 1)]
                   ELSE IF precision = None THEN NullText
                   ELSE SubSeq(NullText, 1, Least(precision, Len(NullText)))
<1>1. /\ out.pc = "items" /\ out.items # <<>> /\ Item.conv = "s" /\ Emit(Padded(text), Stars + 1)
      /\ Value # Null => \E e \in Cells : Value <= e /\ mem[e] = Nul
  BY DEF StringConversion, At, Ready
<1>2. /\ Uses(Item) = Stars + 1 /\ Value \in Int /\ field_width \in Int /\ precision \in Int
      /\ Value # Null => Value \in Nat
  BY <1>1, AtItem DEF Plain
<1>3. Cells = 0 .. LastCell
  BY DEF Printed, Cells
<1>4. Value # Null => [k \in 1 .. strnlen(mem, Value, precision) |-> Load(Value + k - 1)] \in Seq(Marks)
  BY <1>1, <1>2, <1>3, CutString
<1>5. NullText \in Seq(Byte) /\ SubSeq(NullText, 1, Least(precision, Len(NullText))) \in Seq(Byte)
  <2>1. PICK p \in Int, l \in Nat : p = precision /\ l = Len(NullText)
    BY <1>2, NullTexts, LenProperties
  <2>2. Least(p, l) \in Int /\ Least(p, l) <= l
    BY DEF Least
  <2> QED
    BY <2>1, <2>2, NullTexts
<1>6. Byte \subseteq Marks /\ Blank \in Marks
  BY Memory DEF Byte, Marks, Blank
<1>7. text \in Seq(Marks)
  <2>1. /\ NullText \in Seq(Marks)
        /\ SubSeq(NullText, 1, Least(precision, Len(NullText))) \in Seq(Marks)
    BY <1>5, <1>6, SeqMonotonic
  <2> QED
    BY <1>4, <2>1
<1> HIDE DEF text
<1>8. Padded(text) \in Seq(Marks)
  BY <1>2, <1>6, <1>7, PaddedText
<1> QED
  BY <1>1, <1>2, <1>8, EmitMarks

LEMMA PointerPrints ==
  ASSUME Printed(out, mem), PointerConversion PROVE Printed(out', mem') /\ out'.pc = "items"
<1> DEFINE width == IF field_width = None THEN 2 * PointerBytes ELSE field_width
           flags == IF field_width = None THEN Flags \cup {"0"} ELSE Flags
           text == number(Value % Word, 16, width, precision, flags)
<1>1. /\ out.pc = "items" /\ out.items # <<>> /\ Item.conv = "p" /\ Emit(text, Stars + 1)
  BY DEF PointerConversion, At, Ready
<1>2. Uses(Item) = Stars + 1 /\ Value \in Int /\ field_width \in Int /\ precision \in Int
  BY <1>1, AtItem DEF Plain
<1>3. PointerBytes \in Nat
  BY PrintAssumption, Zenon
<1>4. width \in Int
  BY <1>2, <1>3
<1>5. Value % Word \in Int
  BY <1>2, WordAssumption, ShortAssumption
<1> HIDE DEF width, flags
<1>6. text \in Seq(Byte)
  BY <1>2, <1>4, <1>5, NumberText
<1> HIDE DEF text
<1> QED
  BY <1>1, <1>2, <1>6, EmitPrints

LEMMA PercentPrints ==
  ASSUME Printed(out, mem), PercentConversion PROVE Printed(out', mem') /\ out'.pc = "items"
<1>1. out.pc = "items" /\ out.items # <<>> /\ Item.conv = "%" /\ Emit(<<37>>, Stars)
  BY DEF PercentConversion, At, Ready
<1>2. Uses(Item) = Stars
  BY <1>1, AtItem DEF Plain
<1>3. <<37>> \in Seq(Byte)
  BY DEF Byte
<1> QED
  BY <1>1, <1>2, <1>3, EmitPrints

LEMMA UnknownPrints ==
  ASSUME Printed(out, mem), UnknownConversion PROVE Printed(out', mem') /\ out'.pc = "items"
<1> DEFINE text == IF Item.ch = Nul THEN <<37>> ELSE <<37, Item.ch>>
<1>1. out.pc = "items" /\ out.items # <<>> /\ Item.conv = "unknown" /\ Emit(text, Stars)
  BY DEF UnknownConversion, At, Ready
<1>2. Uses(Item) = Stars /\ Item \in Items
  BY <1>1, AtItem DEF Plain
<1>3. 37 \in Byte /\ Item.ch \in Byte
  BY <1>2, ItemShape DEF Byte
<1>4. text \in Seq(Byte)
  BY <1>3
<1> HIDE DEF text
<1> QED
  BY <1>1, <1>2, <1>4, EmitPrints

LEMMA NumberPrints ==
  ASSUME Printed(out, mem), NumberConversion PROVE Printed(out', mem') /\ out'.pc = "items"
<1> DEFINE base  == CASE Item.conv = "o" -> 8 [] Item.conv \in {"X", "x"} -> 16 [] OTHER -> 10
           large == IF Item.conv = "X" THEN {"large"} ELSE {}
           sign  == IF Item.conv \in {"d", "i"} THEN {"sign"} ELSE {}
           text  == number(Argument(sign # {}), base, field_width, precision,
                           Flags \cup large \cup sign)
<1>1. /\ out.pc = "items" /\ out.items # <<>> /\ Item.conv \in {"o", "X", "x", "d", "i", "u"}
      /\ Emit(text, Stars + 1)
  BY DEF NumberConversion, At, Ready
<1>2. Uses(Item) = Stars + 1 /\ Value \in Int /\ field_width \in Int /\ precision \in Int
  BY <1>1, AtItem DEF Plain
<1>3. base \in {8, 10, 16}
  OBVIOUS
<1> HIDE DEF base, large, sign
<1>4. Argument(sign # {}) \in Int
  <2>1. Word \in Nat \ {0} /\ Short \in Nat \ {0} /\ Word * Word \in Nat \ {0}
    BY WordAssumption, ShortAssumption
  <2>2. Modulus \in Nat \ {0}
    BY <2>1 DEF Modulus
  <2>3. PICK v \in Int : v = Value % Modulus
    BY <1>2, <2>2
  <2> QED
    BY <2>2, <2>3 DEF Argument
<1>5. text \in Seq(Byte)
  BY <1>2, <1>3, <1>4, NumberText
<1> HIDE DEF text
<1> QED
  BY <1>1, <1>2, <1>5, EmitPrints

LEMMA CountPrints ==
  ASSUME Printed(out, mem), CountConversion PROVE Printed(out', mem') /\ out'.pc = "items"
<1>1. /\ out.pc = "items" /\ out.items # <<>> /\ Item.conv = "n" /\ mem' = mem
      /\ out' = [out EXCEPT !.items = Tail(@), !.count = Counted(out.str),
                            !.args = SubSeq(@, Stars + 2, Len(@))]
  BY DEF CountConversion, At, Ready
<1>2. Uses(Item) = Stars + 1 /\ Stars \in Nat
  BY <1>1, AtItem DEF Plain
<1>3. Uses(Item) + 1 = Stars + 2
  BY <1>2
<1>4. IsOut(out) /\ InStep(out) /\ out.plan \in Formats
  BY <1>1 DEF Printed
<1>5. /\ IsOut(out') /\ out'.pc = out.pc /\ out'.size = out.size /\ out'.old = out.old
      /\ out'.plan = out.plan /\ out'.items = Tail(out.items) /\ out'.str = out.str
      /\ out'.text = out.text /\ out'.todo = out.todo
      /\ out'.args = SubSeq(out.args, Stars + 2, Len(out.args))
  BY <1>1, <1>4 DEF IsOut
<1>6. InStep(out')
  BY <1>1, <1>3, <1>4, <1>5, StepKept DEF Item
<1> QED
  BY <1>1, <1>5, <1>6 DEF Printed

\* The NUL is the last byte that is written.
LEMMA NulEnds ==
  ASSUME NEW m \in [0 .. LastCell -> Byte], NEW text \in Seq(Byte), NEW size \in Sizes,
         EndInMemory(size), size > 0 => Buf <= EndOf(size), size \in Nat, Unbroken(text),
         Untouched(m, size), Shown(m, text, Len(text), EndOf(size)),
         NEW w, w = [a \in 0 .. LastCell |->
                       IF a \in Terminator(Buf + Len(text), EndOf(size), size) THEN Nul ELSE m[a]]
  PROVE  Untouched(w, size) /\ Ended(w, text, size)
<1>1. PICK t \in Nat, e \in Int : t = Len(text) /\ e = EndOf(size)
  BY LenProperties DEF EndInMemory
<1>2. /\ Buf - 1 <= e /\ e <= LastCell /\ (size > 0 => Buf <= e)
      /\ Buf \in Nat /\ 1 <= Buf /\ LastCell \in Nat /\ Buf + t <= LastCell
  BY <1>1, Memory DEF EndInMemory, Unbroken
<1> DEFINE N == Terminator(Buf + t, e, size)
<1>3. \A a \in 0 .. LastCell : w[a] = IF a \in N THEN Nul ELSE m[a]
  BY <1>1
<1>4. N \subseteq Buf .. e
  BY <1>2 DEF Terminator
<1>5. \A j \in 1 .. t : Buf + j - 1 <= e => m[Buf + j - 1] = text[j]
  BY <1>1 DEF Shown
<1>6. \A a \in 0 .. LastCell : a \notin Buf .. e => m[a] = Scratch[a]
  BY <1>1 DEF Untouched
<1> DEFINE n == IF Buf + t <= e THEN t ELSE e - Buf
<1>7. ASSUME size > 0
      PROVE  w[Buf + n] = Nul /\ \A j \in 1 .. n : w[Buf + j - 1] = text[j]
  <2>1. N = {Buf + n} /\ n \in Nat /\ n <= t /\ Buf + n <= e
    BY <1>2, <1>7 DEF Terminator
  <2> HIDE DEF n, N
  <2>2. Buf + n \in 0 .. LastCell
    BY <1>2, <2>1
  <2>3. ASSUME NEW j \in 1 .. n PROVE w[Buf + j - 1] = text[j]
    <3>1. /\ Buf + j - 1 \in 0 .. LastCell /\ Buf + j - 1 # Buf + n /\ j \in 1 .. t
          /\ Buf + j - 1 <= e
      BY <1>2, <2>1
    <3> QED
      BY <1>3, <1>5, <2>1, <3>1
  <2> QED
    BY <1>3, <2>1, <2>2, <2>3
<1>8. Untouched(w, size)
  <2> HIDE DEF N
  <2> QED
    BY <1>1, <1>3, <1>4, <1>6 DEF Untouched
<1>9. Ended(w, text, size)
  BY <1>1, <1>7 DEF Ended
<1> QED
  BY <1>8, <1>9

LEMMA TerminatePrints ==
  ASSUME Printed(out, mem), Terminate PROVE Printed(out', mem') /\ out'.pc = "done"
<1>1. /\ IsOut(out) /\ out.size \in Sizes /\ out.old = Scratch /\ out.plan \in Formats
      /\ mem \in [0 .. LastCell -> Byte] /\ out.todo \in Seq(Marks)
      /\ out.text \in Seq(Byte) /\ out.str = Behind(Len(out.text)) /\ out.pc = "items"
  BY DEF Printed, Terminate, Ready
<1>2. DOMAIN mem = DOMAIN Scratch /\ DOMAIN mem = 0 .. LastCell
  BY <1>1, Memory
<1>3. Counted(out.str) = Distance(out.str)
  BY <1>2, TopCell DEF Counted, Distance
<1>4. /\ IsOut(out') /\ out'.pc = "done" /\ out'.size = out.size /\ out'.old = out.old
      /\ out'.plan = out.plan /\ out'.str = out.str /\ out'.text = out.text
      /\ out'.todo = out.todo /\ out'.ret = Distance(out.str)
  BY <1>1, <1>3 DEF IsOut, Terminate
<1>5. /\ EndInMemory(out.size) /\ out.size \in Nat /\ (out.size > 0 => Buf <= EndOf(out.size))
      /\ End(out.size) = EndOf(out.size)
  BY <1>1, <1>2, BufferEnd DEF EndInMemory
<1> DEFINE N == Terminator(out.str, EndOf(out.size), out.size)
<1>6. mem' = [a \in 0 .. LastCell |-> IF a \in N THEN Nul ELSE mem[a]]
  BY <1>2, <1>5 DEF Terminate, Cells
<1>7. mem' \in [0 .. LastCell -> Byte]
  <2>1. Nul \in Byte
    BY DEF Nul, Byte
  <2> HIDE DEF N, Byte
  <2> QED
    BY <1>1, <1>6, <2>1
<1>8. ASSUME Unbroken(out.text)
      PROVE  Untouched(mem', out.size) /\ Ended(mem', out.text, out.size)
  <2>1. Untouched(mem, out.size) /\ Shown(mem, out.text, Len(out.text), EndOf(out.size))
    BY <1>1, <1>8 DEF Printed
  <2>2. out.str = Buf + Len(out.text)
    <3>1. Len(out.text) \in Nat
      BY <1>1, LenProperties
    <3> QED
      BY <1>1, <1>8, <3>1, BehindNext DEF Unbroken
  <2>3. ASSUME NEW m, NEW text, NEW size, NEW w, m = mem, text = out.text, size = out.size, w = mem'
        PROVE  Untouched(w, size) /\ Ended(w, text, size)
    <3>1. /\ m \in [0 .. LastCell -> Byte] /\ text \in Seq(Byte) /\ size \in Sizes
          /\ EndInMemory(size) /\ (size > 0 => Buf <= EndOf(size)) /\ size \in Nat
          /\ Unbroken(text) /\ Untouched(m, size) /\ Shown(m, text, Len(text), EndOf(size))
          /\ w = [a \in 0 .. LastCell |->
                    IF a \in Terminator(Buf + Len(text), EndOf(size), size) THEN Nul ELSE m[a]]
      BY <1>1, <1>5, <1>6, <1>8, <2>1, <2>2, <2>3
    <3> QED
      BY <3>1, NulEnds
  <2> QED
    BY <2>3
<1> QED
  BY <1>1, <1>4, <1>7, <1>8 DEF Printed

\* The call begins with nothing written and the whole format to go.
LEMMA PrintStarts ==
  ASSUME out.pc = "idle", NEW size \in Sizes, NEW f \in Formats, mem = Scratch, out = OutIdle,
         vsnprintf(size, f[1], f[2])
  PROVE  Printed(out', mem') /\ out'.pc = "items"
<1>1. f \in Seq(Items) \X Seq(Int) /\ f[1] \in Seq(Items) /\ f[2] \in Seq(Int)
  BY PrintAssumption, FormatFacts, Zenon
<1>2. <<f[1], f[2]>> = f
  BY <1>1
<1>3. /\ out'.pc = "items" /\ out'.size = size /\ out'.items = f[1] /\ out'.args = f[2]
      /\ out'.old = Scratch /\ out'.plan = f /\ out'.text = <<>> /\ out'.str = Buf /\ mem' = Scratch
      /\ out'.todo = <<>>
      /\ IsOut(out')
  BY <1>2 DEF vsnprintf, OutIdle, IsOut
<1>4. /\ LastCell \in Nat /\ DOMAIN Scratch = 0 .. LastCell /\ Buf \in Nat
      /\ Scratch \in [0 .. LastCell -> Byte]
  BY Memory
<1>5. <<>> \in Seq(Byte) /\ <<>> \in Seq(Marks) /\ Len(<<>>) = 0
  BY EmptySeq
<1>6. Shown(Scratch, <<>>, 0, EndOf(size))
  BY DEF Shown
<1>7. InStep(out')
  <2>1. Taken(f[1], 0) = 0 /\ Len(f[1]) \in Nat /\ Len(f[2]) \in Nat
    BY <1>1, TakenNext, LenProperties
  <2>2. Rest(f[1], 0) = f[1] /\ Rest(f[2], 0) = f[2]
    BY <1>1, SubSeqFull DEF Rest
  <2>3. /\ 0 \in Nat /\ 0 <= Len(f[1]) /\ out'.items = Rest(f[1], 0) /\ Taken(f[1], 0) <= Len(f[2])
        /\ out'.args = Rest(f[2], Taken(f[1], 0)) /\ out'.plan[1] = f[1] /\ out'.plan[2] = f[2]
    BY <1>3, <2>1, <2>2
  <2> QED
    BY <2>3, Zenon DEF InStep
<1>8. Untouched(Scratch, size)
  BY DEF Untouched
<1>9. Buf = Behind(0)
  BY Memory, BehindNext
<1> QED
  BY <1>3, <1>4, <1>5, <1>6, <1>7, <1>8, <1>9 DEF Printed

\* No step of the library breaks the invariant.
LEMMA PrintStep == PrintInv /\ [Next]_vars => PrintInv'
<1> SUFFICES ASSUME PrintInv, [Next]_vars PROVE PrintInv'
  OBVIOUS
<1> USE DEF PrintInv
<1>1. ASSUME out' = out, mem' = mem PROVE PrintInv'
  BY <1>1
<1>2. ASSUME Idle, out' = out PROVE PrintInv'
  BY <1>2 DEF Idle, Resting
<1>3. CASE CopyArea
  <2>1. Idle /\ out' = out
    BY <1>3 DEF CopyArea, Memcpy, Memmove, Writes, Others
  <2> QED
    BY <1>2, <2>1
<1>4. CASE SetArea
  <2>1. Idle /\ out' = out
    BY <1>4 DEF SetArea, Memset, Writes, Others
  <2> QED
    BY <1>2, <2>1
<1>5. CASE CopyString
  <2>1. Idle /\ out' = out
    BY <1>5 DEF CopyString, Strcpy, Strncpy, Strcat, Strncat, Writes, Others
  <2> QED
    BY <1>2, <2>1
<1>6. CASE Snprintf
  <2>1. PICK size \in Sizes, f \in Formats : vsnprintf(size, f[1], f[2])
    BY <1>6 DEF Snprintf
  <2>2. out.pc = "idle" /\ mem = Scratch
    BY <1>6 DEF Snprintf, Idle, Resting
  <2>3. Printed(out', mem') /\ out'.pc = "items"
    BY <2>1, <2>2, PrintStarts
  <2> QED
    BY <2>3
<1>7. CASE Printing
  <2>1. FormatStep
    BY <1>7 DEF Printing
  <2>2. out.pc = "items"
    BY <2>1 DEF FormatStep, Put, Literal, CharConversion, StringConversion,
                PointerConversion, CountConversion, PercentConversion, NumberConversion,
                UnknownConversion, Terminate, At, Ready
  <2>3. Printed(out, mem)
    BY <2>2
  <2>4. Printed(out', mem') /\ out'.pc \in {"items", "done"}
    BY <2>1, <2>3, LiteralPrints, CharPrints, StringPrints, PointerPrints, CountPrints,
       PercentPrints, NumberPrints, UnknownPrints, TerminatePrints, PutPrints DEF FormatStep
  <2> QED
    BY <2>4
<1>8. CASE Sscanf \/ ReadBack \/ Parse \/ Scanning \/ Searching \/ Describe
  <2>1. out' = out /\ mem' = mem
    BY <1>8 DEF Sscanf, ReadBack, Parse, Scanning, Searching, Describe
  <2> QED
    BY <1>1, <2>1
<1>9. CASE UNCHANGED vars
  <2>1. out' = out /\ mem' = mem
    BY <1>9 DEF vars
  <2> QED
    BY <1>1, <2>1
<1> QED
  BY <1>3, <1>4, <1>5, <1>6, <1>7, <1>8, <1>9 DEF Next

LEMMA PrintInvariant == Spec => []PrintInv
<1>1. Init => PrintInv
  BY DEF Init, PrintInv, OutIdle
<1>2. PrintInv /\ [Next]_vars => PrintInv'
  BY PrintStep
<1> QED
  BY <1>1, <1>2, PTL DEF Spec

\* vsnprintf writes no byte outside the buffer it was given, at any moment of the call, for
\* any size, any format and any arguments, as long as the text has not reached the end of
\* the memory.
THEOREM BufferRespected == Spec => []BufferKept
<1>1. PrintInv => BufferKept
  <2> SUFFICES ASSUME PrintInv, out.pc # "idle", InMemory,
                      NEW a \in Cells \ BufferOf(out.size)
               PROVE  mem[a] = out.old[a]
    BY DEF BufferKept
  <2>1. Printed(out, mem)
    BY DEF PrintInv
  <2>2. /\ out.size \in Sizes /\ out.old = Scratch /\ mem \in [0 .. LastCell -> Byte]
        /\ Untouched(mem, out.size) /\ DOMAIN mem = DOMAIN Scratch
    <3>1. mem \in [0 .. LastCell -> Byte] /\ DOMAIN mem = DOMAIN Scratch
      BY <2>1, Memory DEF Printed
    <3>2. Unbroken(out.text)
      BY <3>1, TopCell DEF InMemory, Unbroken
    <3> QED
      BY <2>1, <3>1, <3>2 DEF Printed
  <2>3. BufferOf(out.size) = Buf .. EndOf(out.size)
    BY <2>2, BufferEnd
  <2>4. a \in 0 .. LastCell /\ a \notin Buf .. EndOf(out.size)
    BY <2>2, <2>3 DEF Cells
  <2> QED
    BY <2>2, <2>4 DEF Untouched
<1> QED
  BY <1>1, PrintInvariant, PTL

\* vsnprintf returns the length of the whole text, and leaves in the buffer as much of it as
\* fits in front of a NUL, for a text that does not reach the end of the memory.
THEOREM TextsTruncated == Spec => []TextTruncated
<1>1. PrintInv => TextTruncated
  <2> SUFFICES ASSUME PrintInv, out.pc = "done", InMemory PROVE TextTruncated
    BY DEF TextTruncated
  <2>1. Printed(out, mem)
    BY DEF PrintInv
  <2>2. /\ out.size \in Sizes /\ mem \in [0 .. LastCell -> Byte] /\ DOMAIN mem = DOMAIN Scratch
        /\ out.text \in Seq(Byte) /\ Ended(mem, out.text, out.size)
        /\ Len(out.text) <= Top \div 2 => out.ret = Len(out.text)
    <3>1. /\ mem \in [0 .. LastCell -> Byte] /\ DOMAIN mem = DOMAIN Scratch
          /\ out.text \in Seq(Byte) /\ out.ret = Distance(Behind(Len(out.text)))
      BY <2>1, Memory DEF Printed
    <3>2. Top = LastCell
      BY <3>1, TopCell
    <3>3. Unbroken(out.text)
      BY <3>2 DEF InMemory, Unbroken
    <3>4. Len(out.text) \in Nat
      BY <3>1, LenProperties
    <3>5. Len(out.text) <= Top \div 2 => out.ret = Len(out.text)
      BY <3>1, <3>2, <3>3, <3>4, DistanceOf DEF Unbroken
    <3> QED
      BY <2>1, <3>1, <3>3, <3>5 DEF Printed
  <2>3. /\ BufferOf(out.size) = Buf .. EndOf(out.size) /\ EndOf(out.size) \in Int
        /\ Buf - 1 <= EndOf(out.size) /\ out.size \in Nat /\ (out.size > 0 => Buf <= EndOf(out.size))
    BY <2>2, BufferEnd
  <2>4. Buf \in Nat
    BY Memory
  <2> DEFINE room == Cardinality(BufferOf(out.size))
             kept == Upto(out.text, room - 1)
             n == IF Buf + Len(out.text) <= EndOf(out.size) THEN Len(out.text) ELSE EndOf(out.size) - Buf
  <2>5. room = EndOf(out.size) - Buf + 1
    <3>1. PICK e \in Int : e = EndOf(out.size)
      BY <2>3
    <3>2. Cardinality(Buf .. e) = IF Buf > e THEN 0 ELSE e - Buf + 1
      BY <2>4, FS_Interval
    <3> QED
      BY <2>3, <2>4, <3>1, <3>2
  <2>6. PICK t \in Nat, e \in Int : t = Len(out.text) /\ e = EndOf(out.size)
    BY <2>2, <2>3, LenProperties
  <2>7. room > 0 => out.size > 0
    <3>1. out.size = 0 => EndOf(out.size) = Buf - 1
      BY <2>4, Memory DEF EndOf
    <3> QED
      BY <2>3, <2>4, <2>5, <3>1
  <2>8. ASSUME room > 0
        PROVE  Len(kept) = n /\ n \in Nat /\ \A k \in 1 .. n : kept[k] = out.text[k]
    <3>1. n \in Nat /\ n <= t /\ Least(room - 1, Len(out.text)) = n
      BY <2>3, <2>4, <2>5, <2>6, <2>8 DEF Least
    <3>2. kept = SubSeq(out.text, 1, n)
      BY <3>1, Zenon DEF Upto
    <3> HIDE DEF n, kept
    <3>3. \A i \in 1 .. n : i \in 1 .. Len(out.text)
      BY <2>6, <3>1
    <3>4. \A i \in 1 .. n : out.text[i] \in Byte
      BY <2>2, <3>3, ElementOfSeq
    <3>5. /\ Len(SubSeq(out.text, 1, n)) = (IF 1 <= n THEN n - 1 + 1 ELSE 0)
          /\ \A i \in 1 .. n - 1 + 1 : SubSeq(out.text, 1, n)[i] = out.text[1 + i - 1]
      BY <3>1, <3>4, SubSeqProperties
    <3>6. \A i \in 1 .. n : i \in 1 .. n - 1 + 1 /\ 1 + i - 1 = i
      BY <3>1
    <3> QED
      BY <3>1, <3>2, <3>5, <3>6
  <2>9. room > 0 => mem[Buf + n] = Nul /\ \A j \in 1 .. n : mem[Buf + j - 1] = out.text[j]
    BY <2>2, <2>7 DEF Ended
  <2>10. room > 0 => /\ \A k \in 1 .. Len(kept) : mem[Buf + k - 1] = kept[k]
                     /\ mem[Buf + Len(kept)] = Nul
    <3> HIDE DEF room, kept, n
    <3> QED
      BY <2>8, <2>9
  <2> QED
    BY <2>2, <2>10 DEF TextTruncated
<1> QED
  BY <1>1, PrintInvariant, PTL

----------------------------------------------------------------------------
(* Strings.                                                                *)

\* The string at s ends before f, and is what lies in front of its end.
LEMMA StringEnds ==
  ASSUME NEW m, NEW s \in Nat, NEW f \in Nat, s <= f, m[f] = Nul
  PROVE  /\ strlen(m, s) \in Nat /\ s + strlen(m, s) <= f /\ m[s + strlen(m, s)] = Nul
         /\ \A k \in Nat : k < strlen(m, s) => m[s + k] # Nul
<1>1. m[f] \in {Nul}
  OBVIOUS
<1>2. /\ FirstOf(m, s, {Nul}) \in Nat /\ s <= FirstOf(m, s, {Nul}) /\ FirstOf(m, s, {Nul}) <= f
      /\ m[FirstOf(m, s, {Nul})] \in {Nul}
      /\ \A j \in Nat : s <= j /\ j < FirstOf(m, s, {Nul}) => m[j] \notin {Nul}
  BY <1>1, FirstOfFinds
<1>3. PICK e \in Nat : e = FirstOf(m, s, {Nul})
  BY <1>2
<1>4. PICK l \in Nat : l = strlen(m, s) /\ s + l = e
  BY <1>2, <1>3 DEF strlen
<1>5. ASSUME NEW k \in Nat, k < l PROVE m[s + k] # Nul
  <2>1. s + k \in Nat /\ s <= s + k /\ s + k < e
    BY <1>4, <1>5
  <2> QED
    BY <1>2, <1>3, <2>1
<1> QED
  BY <1>2, <1>3, <1>4, <1>5

\* The string itself, as a sequence.
LEMMA StringShape ==
  ASSUME NEW m, NEW s \in Nat, strlen(m, s) \in Nat
  PROVE  /\ StringAt(m, s) \in Seq({m[i] : i \in Nat}) /\ Len(StringAt(m, s)) = strlen(m, s)
         /\ \A k \in 1 .. strlen(m, s) : StringAt(m, s)[k] = m[s + k - 1]
<1>1. PICK l \in Nat : l = strlen(m, s)
  OBVIOUS
<1>2. StringAt(m, s) = [k \in 1 .. l |-> m[s + k - 1]]
  BY <1>1 DEF StringAt
<1>3. \A k \in 1 .. l : s + k - 1 \in Nat
  OBVIOUS
<1>4. [k \in 1 .. l |-> m[s + k - 1]] \in [1 .. l -> {m[i] : i \in Nat}]
  BY <1>3
<1>5. [k \in 1 .. l |-> m[s + k - 1]] \in Seq({m[i] : i \in Nat})
  BY <1>4, IsASeq
<1>6. Len([k \in 1 .. l |-> m[s + k - 1]]) = l
  BY <1>4, LenProperties, <1>5
<1> QED
  BY <1>1, <1>2, <1>5, <1>6

\* A string of l characters at s, in a memory with the addresses from 0 to top.
Holds(m, s, l, top) ==
  DOMAIN m = 0 .. top /\ m = [i \in DOMAIN m |-> m[i]] /\ s + l <= top /\ m[s + l] = Nul

\* Areas that share nothing can be copied going up.
LEMMA ApartUpwards ==
  ASSUME NEW m, NEW top \in Nat, NEW d \in Nat, NEW s \in Nat, NEW j \in Nat, NEW k \in Nat,
         NEW room \in Nat, NEW l \in Nat, Holds(m, s, l, top),
         Area(d, room) \cap Area(s, l + 1) = {}, j + k <= room, k <= l + 1
  PROVE  MoveUp(m, d + j, s, 1, k) = Chunk(m, d + j, s, k)
<1> DEFINE e == d + j
<1>1. e \in Nat /\ 1 \in Nat /\ 1 * k = k
  OBVIOUS
<1>2. Copyable(m, e, s, k)
  <2>1. DOMAIN m = 0 .. top /\ s + l <= top
    BY DEF Holds
  <2>2. s .. s + k - 1 \subseteq DOMAIN m
    BY <2>1
  <2> QED
    BY <1>1, <2>2 DEF Copyable, Holds
<1>3. Upwards(e, s, k)
  <2> SUFFICES ASSUME ~(e <= s), ~(e >= s + k) PROVE FALSE
    BY DEF Upwards
  <2>1. e \in d .. d + room - 1 /\ e \in s .. s + (l + 1) - 1
    OBVIOUS
  <2> QED
    BY <2>1 DEF Area
<1> HIDE DEF e
<1>4. MoveUp(m, e, s, 1, k) = Chunk(m, e, s, k)
  BY <1>1, <1>2, <1>3, MoveUpCopies
<1> QED
  BY <1>4 DEF e

\* The first j bytes at d as they were, k more from s, z NULs, and no other byte changed.
Spliced(m, r, d, s, j, k, z) ==
  /\ DOMAIN r = DOMAIN m
  /\ \A a \in DOMAIN m : a \notin Area(d, j + k + z) => r[a] = m[a]
  /\ \A i \in 0 .. j - 1 : r[d + i] = m[d + i]
  /\ \A i \in 0 .. k - 1 : r[d + (j + i)] = m[s + i]
  /\ \A i \in 0 .. z - 1 : r[d + (j + k + i)] = Nul

\* That is what a copy leaves, with NULs behind it.
LEMMA JoinedBytes ==
  ASSUME NEW m, NEW top \in Nat, DOMAIN m = 0 .. top, NEW d \in Nat, NEW s \in Nat, NEW j \in Nat,
         NEW k \in Nat, NEW z \in Nat, NEW r, NEW e \in Nat, e = d + j, NEW n \in Nat, n = j + k + z,
         r = Store(Chunk(m, e, s, k), e + k, z, Nul), d + n <= top + 1
  PROVE  Spliced(m, r, d, s, j, k, z)
<1> DEFINE q == Chunk(m, e, s, k)
<1>1. /\ DOMAIN q = 0 .. top
      /\ \A a \in 0 .. top : q[a] = IF a \in e .. e + k - 1 THEN m[s + a - e] ELSE m[a]
  BY DEF Chunk
<1> HIDE DEF q
<1>2. r = Store(q, e + k, z, Nul)
  BY DEF q
<1>3. /\ DOMAIN r = 0 .. top
      /\ \A a \in 0 .. top : r[a] = IF a \in e + k .. e + k + z - 1 THEN Nul ELSE q[a]
  BY <1>1, <1>2 DEF Store
<1>4. ASSUME NEW a \in 0 .. top, a \notin Area(d, n) PROVE r[a] = m[a]
  <2>1. a \notin e + k .. e + k + z - 1 /\ a \notin e .. e + k - 1
    BY <1>4 DEF Area
  <2> QED
    BY <1>1, <1>3, <2>1
<1>5. ASSUME NEW i \in 0 .. j - 1 PROVE r[d + i] = m[d + i]
  <2>1. PICK a \in 0 .. top : a = d + i /\ a < e
    OBVIOUS
  <2>2. a \notin e + k .. e + k + z - 1 /\ a \notin e .. e + k - 1
    BY <2>1
  <2> QED
    BY <1>1, <1>3, <2>1, <2>2
<1>6. ASSUME NEW i \in 0 .. k - 1 PROVE r[d + (j + i)] = m[s + i]
  <2>1. PICK a \in 0 .. top : a = d + (j + i)
    OBVIOUS
  <2>2. a \notin e + k .. e + k + z - 1 /\ a \in e .. e + k - 1 /\ s + a - e = s + i
    BY <2>1
  <2> QED
    BY <1>1, <1>3, <2>1, <2>2
<1>7. ASSUME NEW i \in 0 .. z - 1 PROVE r[d + (j + k + i)] = Nul
  <2>1. PICK a \in 0 .. top : a = d + (j + k + i)
    OBVIOUS
  <2>2. a \in e + k .. e + k + z - 1
    BY <2>1
  <2> QED
    BY <1>3, <2>1, <2>2
<1> QED
  BY <1>3, <1>4, <1>5, <1>6, <1>7 DEF Spliced

\* What StringsJoined asks of the memory r that an operation has left of o.
Joins(o, r, kept, cut, d, reach, until) ==
  LET all == kept \o cut
  IN  /\ \A a \in DOMAIN r \ Area(d, reach) : r[a] = o[a]
      /\ \A k \in 1 .. Len(all) : r[d + k - 1] = all[k]
      /\ \A k \in Len(all) .. until : r[d + k] = Nul

\* x is the n bytes at s.
IsText(m, s, n, x) ==
  x \in Seq({m[i] : i \in Nat}) /\ Len(x) = n /\ \A i \in 1 .. n : x[i] = m[s + i - 1]

\* The bytes of r: the first j of d as they were, c from s, NULs, and no other changed.
Becomes(o, r, d, s, j, c, reach, until) ==
  /\ \A a \in DOMAIN r : a \notin Area(d, reach) => r[a] = o[a]
  /\ \A i \in 0 .. j - 1 : r[d + i] = o[d + i]
  /\ \A i \in 0 .. c - 1 : r[d + (j + i)] = o[s + i]
  /\ \A i \in j + c .. until : r[d + i] = Nul

\* The bytes of the two strings, one behind the other, and NULs behind them.
LEMMA TogetherJoins ==
  ASSUME NEW o, NEW r, NEW d \in Nat, NEW s \in Nat, NEW j \in Nat, NEW c \in Nat,
         NEW reach, NEW until \in Int, NEW kept, NEW cut,
         IsText(o, d, j, kept), IsText(o, s, c, cut), Becomes(o, r, d, s, j, c, reach, until)
  PROVE  Joins(o, r, kept, cut, d, reach, until)
<1> DEFINE all == kept \o cut
<1>1. /\ Len(all) = j + c
      /\ \A i \in 1 .. j + c : all[i] = IF i <= j THEN kept[i] ELSE cut[i - j]
  <2>1. kept \in Seq({o[i] : i \in Nat}) /\ cut \in Seq({o[i] : i \in Nat}) /\ Len(kept) = j /\ Len(cut) = c
    BY DEF IsText
  <2> QED
    BY <2>1, ConcatProperties
<1> HIDE DEF all
<1>2. ASSUME NEW i \in 1 .. j + c PROVE r[d + i - 1] = all[i]
  <2>1. CASE i <= j
    <3>1. i \in 1 .. j /\ i - 1 \in 0 .. j - 1 /\ d + (i - 1) = d + i - 1
      BY <2>1
    <3>2. all[i] = kept[i] /\ kept[i] = o[d + i - 1]
      BY <1>1, <2>1, <3>1 DEF IsText
    <3>3. r[d + (i - 1)] = o[d + (i - 1)]
      BY <3>1 DEF Becomes
    <3> QED
      BY <3>1, <3>2, <3>3
  <2>2. CASE i > j
    <3>1. PICK h \in 0 .. c - 1 : h = i - j - 1
      BY <2>2
    <3>2. d + (j + h) = d + i - 1 /\ i - j \in 1 .. c /\ s + (i - j) - 1 = s + h
      BY <3>1
    <3>3. all[i] = cut[i - j] /\ cut[i - j] = o[s + (i - j) - 1]
      BY <1>1, <2>2, <3>2 DEF IsText
    <3>4. r[d + (j + h)] = o[s + h]
      BY DEF Becomes
    <3> QED
      BY <3>2, <3>3, <3>4
  <2> QED
    BY <2>1, <2>2
<1> QED
  BY <1>1, <1>2 DEF Joins, all, Becomes

\* The memory when k bytes of s were copied behind the first j of d, and z NULs stored.
Result(m, d, s, j, k, z) == Store(MoveUp(m, d + j, s, 1, k), (d + j) + k, z, Nul)

\* k bytes of the string of l characters at s can be copied there, c of them characters.
Fits(m, d, s, l, j, k, z, c) ==
  /\ DOMAIN m = 0 .. LastCell /\ m = [i \in DOMAIN m |-> m[i]] /\ d \in Nat
  /\ Holds(m, s, l, LastCell)
  /\ \E room \in Nat : Area(d, room) \cap Area(s, l + 1) = {} /\ j + k <= room
  /\ k <= l + 1 /\ d + j + k + z <= LastCell + 1
  /\ c = k \/ (c = l /\ k = l + 1)

\* Such a copy is a single move.
LEMMA FitsMove ==
  ASSUME NEW m, NEW d \in Nat, NEW s \in Nat, NEW l \in Nat, NEW j \in Nat, NEW k \in Nat,
         NEW z \in Nat, NEW c \in Nat, Fits(m, d, s, l, j, k, z, c)
  PROVE  MoveUp(m, d + j, s, 1, k) = Chunk(m, d + j, s, k)
<1>1. PICK top \in Nat : top = LastCell /\ Holds(m, s, l, top)
  BY Memory DEF Fits
<1>2. PICK room \in Nat : Area(d, room) \cap Area(s, l + 1) = {} /\ j + k <= room
  BY DEF Fits
<1>3. k <= l + 1
  BY DEF Fits
<1> QED
  BY <1>1, <1>2, <1>3, ApartUpwards

\* What a copy of k bytes of a string leaves: its first c characters, and NULs.
LEMMA CopyBecomes ==
  ASSUME NEW m, NEW d \in Nat, NEW s \in Nat, NEW l \in Nat, NEW j \in Nat, NEW k \in Nat,
         NEW z \in Nat, NEW c \in Nat, Fits(m, d, s, l, j, k, z, c),
         NEW reach \in Nat, j + k + z <= reach, NEW until \in Int, until <= j + k + z - 1
  PROVE  /\ Becomes(m, Result(m, d, s, j, k, z), d, s, j, c, reach, until)
         /\ z = 0 => Result(m, d, s, j, k, z) = MoveUp(m, d + j, s, 1, k)
<1>20. PICK top \in Nat : top = LastCell /\ Holds(m, s, l, top) /\ d + j + k + z <= top + 1
  BY Memory DEF Fits
<1>22. k <= l + 1 /\ (c = k \/ (c = l /\ k = l + 1))
  BY DEF Fits
<1> DEFINE r == Store(Chunk(m, d + j, s, k), (d + j) + k, z, Nul)
<1>0. DOMAIN m = 0 .. top /\ s + l <= top /\ m[s + l] = Nul
  BY <1>20 DEF Holds
<1>1. MoveUp(m, d + j, s, 1, k) = Chunk(m, d + j, s, k)
  BY FitsMove
<1> HIDE DEF r
<1>8. r = Store(Chunk(m, d + j, s, k), (d + j) + k, z, Nul)
  BY DEF r
<1>9. Spliced(m, r, d, s, j, k, z)
  <2>1. PICK e \in Nat, n \in Nat : e = d + j /\ n = j + k + z /\ d + n <= top + 1
    BY <1>20
  <2>2. r = Store(Chunk(m, e, s, k), e + k, z, Nul)
    BY <1>8, <2>1
  <2> QED
    BY <1>0, <2>1, <2>2, JoinedBytes
<1>2. PICK n \in Nat :
        /\ n = j + k + z
        /\ DOMAIN r = 0 .. top
        /\ \A a \in 0 .. top : a \notin Area(d, n) => r[a] = m[a]
        /\ \A i \in 0 .. j - 1 : r[d + i] = m[d + i]
        /\ \A i \in 0 .. k - 1 : r[d + (j + i)] = m[s + i]
        /\ \A i \in 0 .. z - 1 : r[d + (j + k + i)] = Nul
  BY <1>0, <1>9 DEF Spliced
<1>3. c <= k /\ \A i \in 0 .. c - 1 : r[d + (j + i)] = m[s + i]
  <2>1. c <= k
    BY <1>22
  <2>2. ASSUME NEW i \in 0 .. c - 1 PROVE r[d + (j + i)] = m[s + i]
    <3>1. i \in 0 .. k - 1
      BY <2>1
    <3> QED
      BY <1>2, <3>1
  <2> QED
    BY <2>1, <2>2
<1>4. ASSUME NEW i \in j + c .. until PROVE r[d + i] = Nul
  <2>1. CASE i >= j + k
    <3>1. PICK h \in 0 .. z - 1 : i = j + k + h
      <4>1. i - (j + k) \in 0 .. z - 1 /\ i = j + k + (i - (j + k))
        BY <2>1
      <4> QED
        BY <4>1
    <3> QED
      BY <1>2, <3>1
  <2>2. CASE i < j + k
    <3>1. c = l /\ k = l + 1 /\ i = j + l /\ l \in 0 .. k - 1
      BY <1>22, <2>2
    <3> QED
      BY <1>0, <1>2, <3>1
  <2> QED
    BY <2>1, <2>2
<1>5. \A a \in 0 .. top : a \notin Area(d, reach) => r[a] = m[a]
  <2>1. \A a \in 0 .. top : a \notin Area(d, reach) => a \notin Area(d, n)
    BY <1>0, <1>2 DEF Area
  <2> QED
    BY <1>2, <2>1
<1>7. Becomes(m, r, d, s, j, c, reach, until) /\ DOMAIN r = DOMAIN m
  BY <1>0, <1>2, <1>3, <1>4, <1>5, Zenon DEF Becomes
<1>10. r = Result(m, d, s, j, k, z)
  BY <1>1, Zenon DEF r, Result
<1>11. z = 0 => r = Chunk(m, d + j, s, k)
  <2>1. ASSUME NEW q, q = Chunk(m, d + j, s, k) PROVE Store(q, (d + j) + k, 0, Nul) = q
    BY <2>1 DEF Store, Chunk
  <2> QED
    BY <1>8, <2>1
<1> QED
  BY <1>1, <1>7, <1>10, <1>11

\* The memory still holds bytes.
LEMMA CopiedBytes ==
  ASSUME NEW m, NEW d \in Nat, NEW s \in Nat, NEW l \in Nat, NEW j \in Nat, NEW k \in Nat,
         NEW z \in Nat, NEW c \in Nat, Fits(m, d, s, l, j, k, z, c), m \in [0 .. LastCell -> Byte]
  PROVE  Result(m, d, s, j, k, z) \in [0 .. LastCell -> Byte]
<1>1. PICK top \in Nat : top = LastCell /\ Holds(m, s, l, top)
  BY Memory DEF Fits
<1>3. k <= l + 1 /\ s + l <= top
  BY <1>1 DEF Fits, Holds
<1>9. m \in [0 .. top -> Byte]
  BY <1>1
<1>4. MoveUp(m, d + j, s, 1, k) = Chunk(m, d + j, s, k)
  BY FitsMove
<1>5. PICK e \in Nat : e = d + j
  OBVIOUS
<1> DEFINE q == Chunk(m, e, s, k)
<1>6. q \in [0 .. top -> Byte]
  <2>1. ASSUME NEW i \in e .. e + k - 1 PROVE m[s + i - e] \in Byte
    <3>1. s + i - e \in 0 .. top
      BY <1>3
    <3> QED
      BY <1>9, <3>1
  <2> QED
    BY <1>9, <2>1 DEF Chunk
<1> HIDE DEF q
<1>7. Nul \in Byte
  BY DEF Nul, Byte
<1>8. Store(q, e + k, z, Nul) \in [0 .. top -> Byte]
  BY <1>6, <1>7 DEF Store
<1> QED
  BY <1>1, <1>4, <1>5, <1>8 DEF Result, q

\* A string is its bytes, and so are its first n characters.
LEMMA StringText ==
  ASSUME NEW m, NEW s \in Nat, NEW l \in Nat, strlen(m, s) = l
  PROVE  IsText(m, s, l, StringAt(m, s))
<1>1. strlen(m, s) \in Nat
  OBVIOUS
<1>2. /\ StringAt(m, s) \in Seq({m[i] : i \in Nat}) /\ Len(StringAt(m, s)) = strlen(m, s)
      /\ \A k \in 1 .. strlen(m, s) : StringAt(m, s)[k] = m[s + k - 1]
  BY <1>1, StringShape
<1> QED
  BY <1>2 DEF IsText

LEMMA CutText ==
  ASSUME NEW m, NEW s \in Nat, NEW l \in Nat, strlen(m, s) = l, NEW n \in Nat
  PROVE  IsText(m, s, Least(n, l), SubSeq(StringAt(m, s), 1, Least(n, Len(StringAt(m, s)))))
<1> DEFINE x == StringAt(m, s)
           S == {m[i] : i \in Nat}
<1>1. x \in Seq(S) /\ Len(x) = l /\ \A i \in 1 .. l : x[i] = m[s + i - 1]
  <2>1. IsText(m, s, l, StringAt(m, s))
    BY StringText
  <2> QED
    BY <2>1, Zenon DEF IsText
<1> HIDE DEF x, S
<1>2. PICK c \in Nat : c = Least(n, l) /\ c <= l
  BY DEF Least
<1>3. \A i \in 1 .. c : i \in 1 .. l /\ x[i] \in S
  BY <1>1, <1>2, ElementOfSeq
<1>4. /\ SubSeq(x, 1, c) \in Seq(S) /\ Len(SubSeq(x, 1, c)) = (IF 1 <= c THEN c - 1 + 1 ELSE 0)
      /\ \A i \in 1 .. c - 1 + 1 : SubSeq(x, 1, c)[i] = x[1 + i - 1]
  BY <1>3, SubSeqProperties
<1>5. Len(SubSeq(x, 1, c)) = c /\ \A i \in 1 .. c : SubSeq(x, 1, c)[i] = x[i]
  <2>1. \A i \in 1 .. c : i \in 1 .. c - 1 + 1 /\ 1 + i - 1 = i
    BY <1>2
  <2> QED
    BY <1>2, <1>4, <2>1
<1>6. IsText(m, s, c, SubSeq(x, 1, c))
  BY <1>1, <1>3, <1>4, <1>5 DEF IsText, S
<1> QED
  BY <1>1, <1>2, <1>6 DEF x

\* Nothing is kept of the first string when it is not appended to.
LEMMA NoText ==
  ASSUME NEW m, NEW s
  PROVE  IsText(m, s, 0, <<>>)
<1>1. <<>> \in Seq({m[i] : i \in Nat}) /\ Len(<<>>) = 0
  BY EmptySeq
<1> QED
  BY <1>1 DEF IsText

\* What StringsJoined asks of a call.
JoinedAs(fn, d, s, n, o, r) ==
  LET src   == StringAt(o, s)
      kept  == IF fn \in {"strcat", "strncat"} THEN StringAt(o, d) ELSE <<>>
      cut   == IF fn \in {"strcpy", "strcat"} THEN src
               ELSE IF fn = "strncpy" THEN SubSeq(src, 1, Least(n, Len(src)))
               ELSE SubSeq(src, 1, Least(Rounds(n), Len(src)))
      reach == CASE fn = "strncpy" -> n
                 [] fn = "strncat" -> Len(kept) + Least(Rounds(n), Len(src) + 1) + 1
                 [] OTHER -> Len(kept \o cut) + 1
  IN  Joins(o, r, kept, cut, d, reach, IF fn = "strncpy" THEN n - 1 ELSE Len(kept \o cut))

LEMMA JoinedCall ==
  ASSUME last.fn \in {"strcpy", "strncpy", "strcat", "strncat"} =>
           JoinedAs(last.fn, last.d, last.s, last.n, last.old, mem)
  PROVE  StringsJoined
BY DEF JoinedAs, StringsJoined, Joins, Cells

\* The texts of two places end in memory, with room behind.
LEMMA TextsHold ==
  ASSUME NEW m \in Texts, NEW d \in Places, NEW s \in Places
  PROVE  /\ d \in Nat /\ s \in Nat /\ strlen(m, d) \in Nat /\ strlen(m, s) \in Nat
         /\ Holds(m, d, strlen(m, d), LastCell) /\ Holds(m, s, strlen(m, s), LastCell)
         /\ LastCell \in Nat /\ MaxCount \in Nat
         /\ d + strlen(m, d) + strlen(m, s) + MaxCount + 1 <= LastCell
         /\ d + MaxCount <= LastCell + 1
<1>1. d \in Nat /\ s \in Nat /\ MaxCount \in Nat /\ d .. d + MaxCount - 1 \subseteq DOMAIN Scratch
  BY LibraryAssumption
<1>2. LastCell \in Nat /\ DOMAIN Scratch = 0 .. LastCell
  BY Memory
<1>3. m \in [DOMAIN Scratch -> 0 .. 255]
  BY TextAssumption
<1>4. PICK e \in DOMAIN Scratch, f \in DOMAIN Scratch :
        /\ d <= e /\ m[e] = Nul /\ s <= f /\ m[f] = Nul
        /\ e + (f - s) + MaxCount + 1 \in DOMAIN Scratch
  BY TextAssumption
<1>5. e \in Nat /\ f \in Nat /\ e <= LastCell /\ f <= LastCell
  BY <1>2, <1>4
<1>6. /\ strlen(m, s) \in Nat /\ s + strlen(m, s) <= f /\ m[s + strlen(m, s)] = Nul
  BY <1>1, <1>4, <1>5, StringEnds
<1>7. /\ strlen(m, d) \in Nat /\ d + strlen(m, d) <= e /\ m[d + strlen(m, d)] = Nul
  BY <1>1, <1>4, <1>5, StringEnds
<1>8. DOMAIN m = 0 .. LastCell /\ m = [i \in DOMAIN m |-> m[i]]
  BY <1>2, <1>3
<1>9. Holds(m, d, strlen(m, d), LastCell) /\ Holds(m, s, strlen(m, s), LastCell)
  <2>1. s + strlen(m, s) <= LastCell /\ d + strlen(m, d) <= LastCell
    BY <1>1, <1>2, <1>5, <1>6, <1>7
  <2> QED
    BY <1>6, <1>7, <1>8, <2>1, Zenon DEF Holds
<1>10. e + (f - s) + MaxCount + 1 <= LastCell
  BY <1>1, <1>2, <1>4, <1>5
<1>11. d + MaxCount <= LastCell + 1
  <2>1. CASE MaxCount = 0
    <3>1. d <= LastCell
      BY <1>1, <1>2, <1>4, <1>5
    <3>2. d + MaxCount = d
      BY <1>1, <2>1
    <3> QED
      BY <1>1, <1>2, <3>1, <3>2
  <2>2. CASE MaxCount > 0
    <3>1. d + MaxCount - 1 \in d .. d + MaxCount - 1
      BY <1>1, <2>2
    <3> QED
      BY <1>1, <1>2, <3>1
  <2> QED
    BY <1>1, <2>1, <2>2
<1> QED
  BY <1>1, <1>2, <1>4, <1>5, <1>6, <1>7, <1>9, <1>10, <1>11

\* So a copy joins the two texts.
LEMMA CopyJoins ==
  ASSUME NEW m, NEW d \in Nat, NEW s \in Nat, NEW l \in Nat, NEW j \in Nat, NEW k \in Nat,
         NEW z \in Nat, NEW c \in Nat, Fits(m, d, s, l, j, k, z, c),
         NEW reach \in Nat, j + k + z <= reach, NEW until \in Int, until <= j + k + z - 1,
         NEW kept, NEW cut, IsText(m, d, j, kept), IsText(m, s, c, cut)
  PROVE  /\ Joins(m, Result(m, d, s, j, k, z), kept, cut, d, reach, until)
         /\ z = 0 => Result(m, d, s, j, k, z) = MoveUp(m, d + j, s, 1, k)
<1>3. /\ Becomes(m, Result(m, d, s, j, k, z), d, s, j, c, reach, until)
      /\ z = 0 => Result(m, d, s, j, k, z) = MoveUp(m, d + j, s, 1, k)
  BY CopyBecomes
<1>5. Joins(m, Result(m, d, s, j, k, z), kept, cut, d, reach, until)
  BY <1>3, TogetherJoins
<1> QED
  BY <1>3, <1>5

\* A memory of bytes.
IsMemory(m) == m \in [0 .. LastCell -> Byte]

LEMMA TextBytes ==
  ASSUME NEW m \in Texts
  PROVE  m \in [0 .. LastCell -> Byte]
BY TextAssumption, Memory DEF Byte

\* What a copy needs in order to fit.
LEMMA FitsRoom ==
  ASSUME NEW m, NEW d \in Nat, NEW s, NEW l \in Nat, Holds(m, s, l, LastCell), NEW j \in Nat,
         NEW k \in Nat, NEW z \in Nat, NEW c \in Nat, NEW room \in Nat,
         Area(d, room) \cap Area(s, l + 1) = {}, j + k <= room, k <= l + 1,
         d + j + k + z <= LastCell + 1, c = k \/ (c = l /\ k = l + 1)
  PROVE  Fits(m, d, s, l, j, k, z, c)
<1>1. DOMAIN m = 0 .. LastCell /\ m = [i \in DOMAIN m |-> m[i]]
  BY Zenon DEF Holds
<1> QED
  BY <1>1, Zenon DEF Fits

\* Each operation on strings leaves what is asked of it.
LEMMA StrcpyJoins ==
  ASSUME NEW m \in Texts, NEW d \in Nat, NEW s \in Nat, d \in Places, s \in Places, NEW n,
         Area(d, strlen(m, s) + 1) \cap Area(s, strlen(m, s) + 1) = {}
  PROVE  JoinedAs("strcpy", d, s, n, m, strcpy(m, d, s)) /\ IsMemory(strcpy(m, d, s))
<1>1. PICK l \in Nat : l = strlen(m, s) /\ d + l <= LastCell
  BY TextsHold
<1>2. d \in Nat /\ s \in Nat /\ Holds(m, s, l, LastCell) /\ LastCell \in Nat
  BY <1>1, TextsHold
<1> DEFINE src == StringAt(m, s)
           kept == <<>>
<1>10. PICK j \in Nat, z \in Nat : j = 0 /\ z = 0
  OBVIOUS
<1>11. PICK k \in Nat, until \in Int : k = l + 1 /\ until = l
  OBVIOUS
<1>3. /\ j = 0 /\ k = l + 1 /\ z = 0 /\ until = l /\ until <= j + k + z - 1
      /\ j + k <= k /\ d + j + k + z <= LastCell + 1 /\ j + k + z <= k /\ d + j = d
  BY <1>1, <1>2, <1>10, <1>11
<1>4. IsText(m, d, j, kept) /\ IsText(m, s, l, src) /\ Area(d, k) \cap Area(s, l + 1) = {}
  BY <1>1, <1>2, <1>3, NoText, StringText
<1>9. Fits(m, d, s, l, j, k, z, l)
  <2>1. k <= l + 1 /\ (l = k \/ (l = l /\ k = l + 1))
    BY <1>3
  <2> QED
    BY <1>2, <1>3, <1>4, <2>1, FitsRoom
<1>5. /\ Joins(m, Result(m, d, s, j, k, z), kept, src, d, k, until)
      /\ Result(m, d, s, j, k, z) = MoveUp(m, d + j, s, 1, k)
  <2>1. j + k + z <= k /\ until <= j + k + z - 1
    BY <1>3
  <2> HIDE DEF src, kept
  <2>2. /\ Joins(m, Result(m, d, s, j, k, z), kept, src, d, k, until)
        /\ z = 0 => Result(m, d, s, j, k, z) = MoveUp(m, d + j, s, 1, k)
    BY <1>4, <1>9, <2>1, CopyJoins
  <2> QED
    BY <1>3, <2>2
<1>6. strcpy(m, d, s) = Result(m, d, s, j, k, z)
  BY <1>1, <1>2, <1>3, <1>5 DEF strcpy
<1>7. Len(kept \o src) = l
  <2>1. kept \in Seq({m[i] : i \in Nat}) /\ src \in Seq({m[i] : i \in Nat}) /\ Len(kept) = 0 /\ Len(src) = l
    BY <1>3, <1>4 DEF IsText
  <2> HIDE DEF src, kept
  <2> QED
    BY <2>1, ConcatProperties
<1>12. IsMemory(strcpy(m, d, s))
  <2>1. m \in [0 .. LastCell -> Byte]
    BY TextBytes
  <2>2. Result(m, d, s, j, k, z) \in [0 .. LastCell -> Byte]
    BY <1>9, <1>10, <1>11, <2>1, CopiedBytes
  <2> QED
    BY <1>6, <2>2 DEF IsMemory
<1> HIDE DEF src, kept
<1> QED
  BY <1>3, <1>5, <1>6, <1>7, <1>12 DEF JoinedAs, src, kept

LEMMA StrcatJoins ==
  ASSUME NEW m \in Texts, NEW d \in Nat, NEW s \in Nat, d \in Places, s \in Places, NEW n,
         Area(d, strlen(m, d) + strlen(m, s) + 1) \cap Area(s, strlen(m, s) + 1) = {}
  PROVE  JoinedAs("strcat", d, s, n, m, strcat(m, d, s)) /\ IsMemory(strcat(m, d, s))
<1>1. PICK l \in Nat, j \in Nat :
        l = strlen(m, s) /\ j = strlen(m, d) /\ d + j + l + 1 <= LastCell
  BY TextsHold
<1>2. Holds(m, s, l, LastCell) /\ LastCell \in Nat
  BY <1>1, TextsHold
<1> DEFINE src == StringAt(m, s)
           kept == StringAt(m, d)
<1>10. PICK k \in Nat, z \in Nat : k = l + 1 /\ z = 0
  OBVIOUS
<1>11. PICK until \in Int, room \in Nat : until = j + l /\ room = j + l + 1
  OBVIOUS
<1>3. /\ k = l + 1 /\ z = 0 /\ until = j + l /\ room = j + l + 1
      /\ j + k <= room /\ d + j + k + z <= LastCell + 1
      /\ j + k + z <= room /\ until <= j + k + z - 1
  BY <1>1, <1>2, <1>10, <1>11
<1>4. IsText(m, d, j, kept) /\ IsText(m, s, l, src) /\ Area(d, room) \cap Area(s, l + 1) = {}
  BY <1>1, <1>3, StringText
<1>9. Fits(m, d, s, l, j, k, z, l)
  <2>1. k <= l + 1 /\ (l = k \/ (l = l /\ k = l + 1))
    BY <1>3
  <2> QED
    BY <1>2, <1>3, <1>4, <2>1, FitsRoom
<1>5. /\ Joins(m, Result(m, d, s, j, k, z), kept, src, d, room, until)
      /\ Result(m, d, s, j, k, z) = MoveUp(m, d + j, s, 1, k)
  <2>1. j + k + z <= room /\ until <= j + k + z - 1
    BY <1>3
  <2> HIDE DEF src, kept
  <2>2. /\ Joins(m, Result(m, d, s, j, k, z), kept, src, d, room, until)
        /\ z = 0 => Result(m, d, s, j, k, z) = MoveUp(m, d + j, s, 1, k)
    BY <1>4, <1>9, <2>1, CopyJoins
  <2> QED
    BY <1>3, <2>2
<1>6. strcat(m, d, s) = Result(m, d, s, j, k, z)
  BY <1>1, <1>2, <1>3, <1>5 DEF strcat, strcpy
<1>7. Len(kept \o src) = until /\ Len(kept \o src) + 1 = room
  <2>1. /\ kept \in Seq({m[i] : i \in Nat}) /\ src \in Seq({m[i] : i \in Nat})
        /\ Len(kept) = j /\ Len(src) = l
    BY <1>4 DEF IsText
  <2> HIDE DEF src, kept
  <2>2. Len(kept \o src) = j + l
    BY <2>1, ConcatProperties
  <2> QED
    BY <1>3, <2>2
<1>12. IsMemory(strcat(m, d, s))
  <2>1. m \in [0 .. LastCell -> Byte]
    BY TextBytes
  <2>2. Result(m, d, s, j, k, z) \in [0 .. LastCell -> Byte]
    BY <1>9, <1>10, <1>11, <2>1, CopiedBytes
  <2> QED
    BY <1>6, <2>2 DEF IsMemory
<1> HIDE DEF src, kept
<1> QED
  BY <1>5, <1>6, <1>7, <1>12 DEF JoinedAs, src, kept

\* A copy is cut at the count or takes the NUL with it.
LEMMA LeastTwo ==
  ASSUME NEW n \in Nat, NEW l \in Nat
  PROVE  \E k, c \in Nat :
           /\ k = Least(n, l + 1) /\ c = Least(n, l) /\ k <= n /\ k <= l + 1 /\ c <= k
           /\ c = k \/ (c = l /\ k = l + 1)
<1>1. CASE n <= l
  BY <1>1 DEF Least
<1>2. CASE n > l
  BY <1>2 DEF Least
<1> QED
  BY <1>1, <1>2

LEMMA StrncpyJoins ==
  ASSUME NEW m \in Texts, NEW d \in Nat, NEW s \in Nat, d \in Places, s \in Places,
         NEW n \in Nat, n <= MaxCount, Area(d, n) \cap Area(s, strlen(m, s) + 1) = {}
  PROVE  JoinedAs("strncpy", d, s, n, m, strncpy(m, d, s, n)) /\ IsMemory(strncpy(m, d, s, n))
<1>1. PICK l \in Nat : l = strlen(m, s) /\ d + n <= LastCell + 1
  BY TextsHold
<1>2. Holds(m, s, l, LastCell) /\ LastCell \in Nat
  BY <1>1, TextsHold
<1> DEFINE cut == SubSeq(StringAt(m, s), 1, Least(n, Len(StringAt(m, s))))
           kept == <<>>
<1>10. PICK k \in Nat, c \in Nat :
         /\ k = Least(n, l + 1) /\ c = Least(n, l) /\ k <= n /\ k <= l + 1
         /\ c = k \/ (c = l /\ k = l + 1)
  BY LeastTwo
<1>11. PICK j \in Nat, z \in Nat, until \in Int : j = 0 /\ z = n - k /\ until = n - 1
  BY <1>10
<1>3. /\ j = 0 /\ z = n - k /\ until = n - 1
      /\ j + k <= n /\ d + j + k + z <= LastCell + 1 /\ j + k + z <= n
      /\ until <= j + k + z - 1 /\ d + j = d
  BY <1>1, <1>2, <1>10, <1>11
<1>4. IsText(m, d, j, kept) /\ IsText(m, s, c, cut) /\ Area(d, n) \cap Area(s, l + 1) = {}
  BY <1>1, <1>3, <1>10, NoText, CutText
<1>9. Fits(m, d, s, l, j, k, z, c)
  <2>1. k <= l + 1 /\ (c = k \/ (c = l /\ k = l + 1))
    BY <1>10
  <2> QED
    BY <1>2, <1>3, <1>4, <2>1, FitsRoom
<1>5. Joins(m, Result(m, d, s, j, k, z), kept, cut, d, n, until)
  <2>1. j + k + z <= n /\ until <= j + k + z - 1
    BY <1>3
  <2> HIDE DEF cut, kept
  <2> QED
    BY <1>4, <1>9, <2>1, CopyJoins
<1>6. strncpy(m, d, s, n) = Result(m, d, s, j, k, z)
  BY <1>1, <1>3, <1>10 DEF strncpy, Result
<1>12. IsMemory(strncpy(m, d, s, n))
  <2>1. m \in [0 .. LastCell -> Byte]
    BY TextBytes
  <2>2. Result(m, d, s, j, k, z) \in [0 .. LastCell -> Byte]
    BY <1>9, <1>10, <1>11, <2>1, CopiedBytes
  <2> QED
    BY <1>6, <2>2 DEF IsMemory
<1> HIDE DEF cut, kept
<1> QED
  BY <1>3, <1>5, <1>6, <1>12 DEF JoinedAs, cut, kept

LEMMA StrncatJoins ==
  ASSUME NEW m \in Texts, NEW d \in Nat, NEW s \in Nat, d \in Places, s \in Places,
         NEW n \in Nat,
         Area(d, strlen(m, d) + Least(Rounds(n), strlen(m, s) + 1) + 1) \cap Area(s, strlen(m, s) + 1) = {}
  PROVE  JoinedAs("strncat", d, s, n, m, strncat(m, d, s, n)) /\ IsMemory(strncat(m, d, s, n))
<1>1. PICK l \in Nat, j \in Nat :
        l = strlen(m, s) /\ j = strlen(m, d) /\ d + j + l + 1 <= LastCell
  BY TextsHold
<1>8. PICK r \in Nat : r = Rounds(n) /\ r <= n
  BY DEF Rounds
<1>2. Holds(m, s, l, LastCell) /\ LastCell \in Nat
  BY <1>1, TextsHold
<1> DEFINE cut == SubSeq(StringAt(m, s), 1, Least(r, Len(StringAt(m, s))))
           kept == StringAt(m, d)
<1>10. PICK k \in Nat, c \in Nat :
         /\ k = Least(r, l + 1) /\ c = Least(r, l) /\ k <= r /\ k <= l + 1 /\ c <= k
         /\ c = k \/ (c = l /\ k = l + 1)
  BY LeastTwo
<1>13. PICK w \in Nat : w = Least(r, l + 1) /\ k <= w /\ w <= l + 1
  BY <1>10
<1>18. PICK room \in Nat : room = j + w + 1
  OBVIOUS
<1>19. PICK until \in Int : until = j + c
  OBVIOUS
<1>11. PICK z \in Nat : z = 1 /\ until = j + c /\ room = j + w + 1
  BY <1>18, <1>19
<1>3. /\ z = 1 /\ until = j + c /\ room = j + w + 1
      /\ j + k <= room /\ d + j + k + z <= LastCell + 1 /\ j + k + z <= room
      /\ until <= j + k + z - 1
  BY <1>1, <1>2, <1>10, <1>11, <1>13
<1>4. IsText(m, d, j, kept) /\ IsText(m, s, c, cut) /\ Area(d, room) \cap Area(s, l + 1) = {}
  BY <1>1, <1>3, <1>8, <1>10, <1>13, StringText, CutText
<1>9. Fits(m, d, s, l, j, k, z, c)
  <2>1. k <= l + 1 /\ (c = k \/ (c = l /\ k = l + 1))
    BY <1>10
  <2> QED
    BY <1>2, <1>3, <1>4, <2>1, FitsRoom
<1>5. Joins(m, Result(m, d, s, j, k, z), kept, cut, d, room, until)
  <2>1. j + k + z <= room /\ until <= j + k + z - 1
    BY <1>3
  <2> HIDE DEF cut, kept
  <2> QED
    BY <1>4, <1>9, <2>1, CopyJoins
<1>6. strncat(m, d, s, n) = Result(m, d, s, j, k, z)
  BY <1>1, <1>3, <1>8, <1>10 DEF strncat, Result
<1>14. Len(StringAt(m, s)) = l
  BY <1>1, <1>2, StringText DEF IsText
<1>7. Len(kept \o cut) = until /\ Len(kept) + Least(r, l + 1) + 1 = room
  <2>1. /\ kept \in Seq({m[i] : i \in Nat}) /\ cut \in Seq({m[i] : i \in Nat})
        /\ Len(kept) = j /\ Len(cut) = c
    BY <1>4 DEF IsText
  <2> HIDE DEF cut, kept
  <2>2. Len(kept \o cut) = j + c
    BY <2>1, ConcatProperties
  <2> QED
    BY <1>3, <1>13, <2>1, <2>2
<1>12. IsMemory(strncat(m, d, s, n))
  <2>1. m \in [0 .. LastCell -> Byte]
    BY TextBytes
  <2>2. Result(m, d, s, j, k, z) \in [0 .. LastCell -> Byte]
    BY <1>9, <1>10, <1>11, <2>1, CopiedBytes
  <2> QED
    BY <1>6, <2>2 DEF IsMemory
<1> HIDE DEF cut, kept
<1> QED
  BY <1>5, <1>6, <1>7, <1>8, <1>12, <1>14 DEF JoinedAs, cut, kept

\* A string was copied as it was to be, and nothing is printed behind it.
JoinInv ==
  /\ last.fn \in {"strcpy", "strncpy", "strcat", "strncat"} =>
       JoinedAs(last.fn, last.d, last.s, last.n, last.old, mem)
  /\ last # NoCall => out.pc = "idle"

LEMMA JoinCall ==
  ASSUME CopyString
  PROVE  JoinedAs(last'.fn, last'.d, last'.s, last'.n, last'.old, mem') /\ out' = out
<1>0. mem \in Texts
  BY DEF CopyString
<1>1. PICK d \in Places, s \in Places, n \in Counts \cup LongCounts :
        Strcpy(d, s) \/ (n \in Counts /\ Strncpy(d, s, n)) \/ Strcat(d, s) \/ Strncat(d, s, n)
  <2>1. 0 \in Counts
    BY LibraryAssumption DEF Counts
  <2> QED
    BY <2>1 DEF CopyString
<1>2. d \in Nat /\ s \in Nat /\ n \in Nat /\ (n \in Counts => n <= MaxCount)
  BY LibraryAssumption, WordAssumption DEF Counts, LongCounts, HalfWord
<1>3. CASE Strcpy(d, s)
  <2>1. JoinedAs("strcpy", d, s, 0, mem, strcpy(mem, d, s))
    BY <1>0, <1>2, <1>3, StrcpyJoins DEF Strcpy, Apart
  <2> QED
    BY <1>3, <2>1 DEF Strcpy, Writes, Others
<1>4. CASE n \in Counts /\ Strncpy(d, s, n)
  <2>1. JoinedAs("strncpy", d, s, n, mem, strncpy(mem, d, s, n))
    BY <1>0, <1>2, <1>4, StrncpyJoins DEF Strncpy, Apart
  <2> QED
    BY <1>4, <2>1 DEF Strncpy, Writes, Others
<1>5. CASE Strcat(d, s)
  <2>1. JoinedAs("strcat", d, s, 0, mem, strcat(mem, d, s))
    BY <1>0, <1>2, <1>5, StrcatJoins DEF Strcat, Apart
  <2> QED
    BY <1>5, <2>1 DEF Strcat, Writes, Others
<1>6. CASE Strncat(d, s, n)
  <2>1. JoinedAs("strncat", d, s, n, mem, strncat(mem, d, s, n))
    BY <1>0, <1>2, <1>6, StrncatJoins DEF Strncat, Apart
  <2> QED
    BY <1>6, <2>1 DEF Strncat, Writes, Others
<1> QED
  BY <1>1, <1>3, <1>4, <1>5, <1>6

\* Only an operation on strings changes what it is judged by.
LEMMA JoinStep == JoinInv /\ [Next]_vars => JoinInv'
<1> SUFFICES ASSUME JoinInv, [Next]_vars PROVE JoinInv'
  OBVIOUS
<1>1. CASE CopyArea
  <2>1. out.pc = "idle"
    BY <1>1 DEF CopyArea, Idle, Resting
  <2>2. last'.fn \in {"memcpy", "memmove"} /\ out' = out
    BY <1>1 DEF CopyArea, Memcpy, Memmove, Writes, Others
  <2> QED
    BY <2>1, <2>2 DEF JoinInv
<1>2. CASE SetArea
  <2>1. out.pc = "idle"
    BY <1>2 DEF SetArea, Idle, Resting
  <2>2. last'.fn = "memset" /\ out' = out
    BY <1>2 DEF SetArea, Memset, Writes, Others
  <2> QED
    BY <2>1, <2>2 DEF JoinInv
<1>3. CASE CopyString
  <2>1. out.pc = "idle"
    BY <1>3 DEF CopyString, Idle, Resting
  <2> QED
    BY <1>3, <2>1, JoinCall DEF JoinInv
<1>4. CASE Snprintf
  BY <1>4 DEF Snprintf, Idle, Resting, JoinInv, NoCall
<1>5. CASE Printing
  <2>1. out.pc = "items"
    BY <1>5 DEF Printing, FormatStep, Put, Literal, CharConversion, StringConversion,
                PointerConversion, CountConversion, PercentConversion, NumberConversion,
                UnknownConversion, Terminate, At, Ready
  <2>2. last = NoCall /\ last' = last
    BY <1>5, <2>1 DEF Printing, JoinInv
  <2> QED
    BY <2>2 DEF JoinInv, NoCall
<1>6. CASE UNCHANGED <<mem, out, last>>
  <2>1. mem' = mem /\ out' = out /\ last' = last
    BY <1>6
  <2> QED
    BY <2>1 DEF JoinInv
<1>7. Sscanf \/ ReadBack \/ Parse \/ Scanning \/ Searching \/ Describe \/ UNCHANGED vars
      => UNCHANGED <<mem, out, last>>
  BY DEF Sscanf, ReadBack, Parse, Scanning, Searching, Describe, vars
<1> QED
  BY <1>1, <1>2, <1>3, <1>4, <1>5, <1>6, <1>7 DEF Next

\* strcpy, strncpy, strcat and strncat leave the whole text, or as much of it as the count
\* says, and the NULs that belong behind it, for strings and counts of any length (nothing
\* is appended for a count that, less one, is below zero as a signed word), and touch no byte behind
\* that.
THEOREM StringsEnded == Spec => []StringsJoined
<1>1. Init => JoinInv
  BY DEF Init, JoinInv, NoCall, OutIdle
<1>2. JoinInv => StringsJoined
  BY JoinedCall DEF JoinInv
<1> QED
  BY <1>1, <1>2, JoinStep, PTL DEF Spec

\* f[k] is what g says of the place where a search that begins at k stops.
Finds(f, D, Halt, g) == f = [k \in D |-> IF k \in Halt THEN g[k] ELSE f[k + 1]]

\* There is such a function if the search does not leave the places D.
LEMMA FindsExists ==
  ASSUME NEW D, D \subseteq Nat, NEW Halt, NEW g, \A k \in D : k \notin Halt => k + 1 \in D
  PROVE  \E f : Finds(f, D, Halt, g)
<1>1. PICK at : Seeks(at, Halt)
  BY SeekExists
<1>2. \A k \in Nat : at[k] = IF k \in Halt THEN k ELSE at[k + 1]
  BY <1>1 DEF Seeks
<1> DEFINE f == [k \in D |-> g[at[k]]]
<1>3. ASSUME NEW k \in D PROVE g[at[k]] = IF k \in Halt THEN g[k] ELSE f[k + 1]
  <2>1. k \in Nat
    OBVIOUS
  <2>2. CASE k \in Halt
    BY <1>2, <2>1, <2>2
  <2>3. CASE k \notin Halt
    <3>1. k + 1 \in D /\ at[k] = at[k + 1]
      BY <1>2, <2>1, <2>3
    <3> QED
      BY <2>3, <3>1
  <2> QED
    BY <2>2, <2>3
<1>4. f = [k \in D |-> IF k \in Halt THEN g[k] ELSE f[k + 1]]
  BY <1>3
<1> HIDE DEF f
<1> QED
  BY <1>4 DEF Finds

\* r is what g says of the first place to stop from p to e.
StopsAt(r, Halt, g, p, e) ==
  \E i \in p .. e : r = g[i] /\ i \in Halt /\ \A j \in p .. i - 1 : j \notin Halt

\* The search that begins at p stops at the first place to stop, which is not behind e.
LEMMA FindsFirst ==
  ASSUME NEW D, D \subseteq Nat, NEW Halt, NEW g, \A k \in D : k \notin Halt => k + 1 \in D,
         NEW f, Finds(f, D, Halt, g), NEW p \in Nat, p \in D, NEW e \in Nat, p <= e, e \in Halt
  PROVE  StopsAt(f[p], Halt, g, p, e)
<1>1. PICK at : Seeks(at, Halt)
  BY SeekExists
<1>2. p \in Nat
  OBVIOUS
<1>3. /\ at[p] \in Nat /\ p <= at[p] /\ at[p] <= e /\ at[p] \in Halt
      /\ \A j \in Nat : p <= j /\ j < at[p] => j \notin Halt
  BY <1>1, <1>2, SeekFirst
<1>4. PICK i \in Nat : i = at[p] /\ p <= i /\ i <= e
  BY <1>3
<1>5. i \in Halt /\ \A j \in Nat : p <= j /\ j < i => j \notin Halt
  BY <1>3, <1>4
<1>6. \A k \in D : f[k] = IF k \in Halt THEN g[k] ELSE f[k + 1]
  BY DEF Finds
<1> DEFINE X == {d \in Nat : p + d <= i => p + d \in D /\ f[p] = f[p + d]}
<1>7. 0 \in X
  <2>1. p + 0 = p
    BY <1>2
  <2> QED
    BY <2>1
<1>8. ASSUME NEW d \in Nat, d \in X PROVE d + 1 \in X
  <2> SUFFICES ASSUME p + (d + 1) <= i PROVE p + (d + 1) \in D /\ f[p] = f[p + (d + 1)]
    OBVIOUS
  <2>1. PICK h \in Nat : h = p + d /\ h + 1 = p + (d + 1) /\ h < i /\ p <= h
    BY <1>2, <1>4
  <2>2. h \in D /\ f[p] = f[h]
    BY <1>8, <2>1
  <2>3. h \notin Halt
    BY <1>5, <2>1
  <2>4. h + 1 \in D /\ f[h] = f[h + 1]
    BY <1>6, <2>2, <2>3
  <2> QED
    BY <2>1, <2>2, <2>4
<1> HIDE DEF X
<1>9. Nat \subseteq X
  BY <1>7, <1>8, SetInduction
<1>10. i - p \in Nat /\ p + (i - p) = i
  BY <1>2, <1>4
<1>11. i \in D /\ f[p] = f[i]
  BY <1>2, <1>4, <1>9, <1>10 DEF X
<1>12. f[p] = g[i]
  BY <1>5, <1>6, <1>11
<1>13. i \in p .. e
  BY <1>2, <1>4
<1>14. \A j \in p .. i - 1 : j \notin Halt
  BY <1>2, <1>4, <1>5
<1> QED
  BY <1>5, <1>12, <1>13, <1>14 DEF StopsAt

\* The same for a search that may go on for ever.
LEMMA FindsNat ==
  ASSUME NEW Halt, NEW g
  PROVE  /\ \E f : Finds(f, Nat, Halt, g)
         /\ \A f : Finds(f, Nat, Halt, g) =>
              \A p, e \in Nat : p <= e /\ e \in Halt =>
                \E i \in p .. e : f[p] = g[i] /\ i \in Halt /\ \A j \in p .. i - 1 : j \notin Halt
<1>1. PICK D : D = Nat
  OBVIOUS
<1>2. D \subseteq Nat /\ \A k \in D : k \notin Halt => k + 1 \in D
  BY <1>1
<1>3. \E f : Finds(f, D, Halt, g)
  BY <1>2, FindsExists
<1>4. ASSUME NEW f, Finds(f, D, Halt, g), NEW p \in Nat, NEW e \in Nat, p <= e, e \in Halt, p \in D
      PROVE  StopsAt(f[p], Halt, g, p, e)
  BY <1>2, <1>4, FindsFirst
<1> QED
  BY <1>1, <1>3, <1>4 DEF StopsAt

----------------------------------------------------------------------------
(* The command line.                                                       *)

\* A search stops at the first place that is in Halt, if the function it is says so.
LEMMA SearchStops ==
  ASSUME NEW Halt, NEW f, Seeks(f, Halt), NEW p \in Nat, NEW e \in Nat, p <= e, e \in Halt
  PROVE  \E i \in p .. e : f[p] = i /\ i \in Halt /\ \A j \in p .. i - 1 : j \notin Halt
<1>1. /\ f[p] \in Nat /\ p <= f[p] /\ f[p] <= e /\ f[p] \in Halt
      /\ \A j \in Nat : p <= j /\ j < f[p] => j \notin Halt
  BY SeekFirst
<1>2. PICK i \in Nat : i = f[p]
  BY <1>1
<1>3. i \in p .. e /\ i \in Halt
  BY <1>1, <1>2
<1>4. \A j \in p .. i - 1 : j \notin Halt
  BY <1>1, <1>2
<1> QED
  BY <1>2, <1>3, <1>4

\* White space is skipped up to the first other character, and a word ends at white space or
\* at the end of the line.
LEMMA SkipSpaceStops ==
  ASSUME NEW m, NEW p \in Nat, NEW e \in Nat, p <= e, ~isspace(m[e])
  PROVE  \E i \in p .. e : /\ SkipSpace(m, p) = i /\ ~isspace(m[i])
                           /\ \A j \in p .. i - 1 : isspace(m[j])
<1> DEFINE Halt == {i \in Nat : ~isspace(m[i])}
           at == CHOOSE f : f = [i \in Nat |-> IF isspace(m[i]) THEN f[i + 1] ELSE i]
<1>1. \A f : Seeks(f, Halt) <=> f = [i \in Nat |-> IF isspace(m[i]) THEN f[i + 1] ELSE i]
  <2>1. ASSUME NEW f
        PROVE  [i \in Nat |-> IF i \in Halt THEN i ELSE f[i + 1]]
               = [i \in Nat |-> IF isspace(m[i]) THEN f[i + 1] ELSE i]
    OBVIOUS
  <2> HIDE DEF Halt
  <2> QED
    BY <2>1, Zenon DEF Seeks
<1>2. Seeks(at, Halt)
  <2>1. \E f : f = [i \in Nat |-> IF isspace(m[i]) THEN f[i + 1] ELSE i]
    <3>1. \E f : Seeks(f, Halt)
      BY SeekExists
    <3> HIDE DEF Halt
    <3> QED
      BY <1>1, <3>1, Zenon
  <2>2. at = [i \in Nat |-> IF isspace(m[i]) THEN at[i + 1] ELSE i]
    BY <2>1, Zenon
  <2> HIDE DEF Halt
  <2> QED
    BY <1>1, <2>2, Zenon
<1>3. SkipSpace(m, p) = at[p]
  BY Zenon DEF SkipSpace
<1>4. e \in Halt
  OBVIOUS
<1> HIDE DEF at
<1>5. \E i \in p .. e : at[p] = i /\ i \in Halt /\ \A j \in p .. i - 1 : j \notin Halt
  <2> HIDE DEF Halt
  <2> QED
    BY <1>2, <1>4, SearchStops
<1> QED
  BY <1>3, <1>5

LEMMA WordStops ==
  ASSUME NEW p \in Nat, NEW e \in Nat, p <= e, mem[e] = Nul
  PROVE  \E i \in p .. e : /\ EndOfWord(p) = i /\ (mem[i] = Nul \/ isspace(mem[i]))
                           /\ \A j \in p .. i - 1 : mem[j] # Nul /\ ~isspace(mem[j])
<1> DEFINE Halt == {k \in Nat : mem[k] = Nul \/ isspace(mem[k])}
           at == CHOOSE f : f = [k \in Nat |-> IF mem[k] = Nul \/ isspace(mem[k]) THEN k ELSE f[k + 1]]
<1>1. \A f : Seeks(f, Halt) <=> f = [k \in Nat |-> IF mem[k] = Nul \/ isspace(mem[k]) THEN k ELSE f[k + 1]]
  BY DEF Seeks
<1>2. Seeks(at, Halt)
  <2>1. \E f : f = [k \in Nat |-> IF mem[k] = Nul \/ isspace(mem[k]) THEN k ELSE f[k + 1]]
    <3>1. \E f : Seeks(f, Halt)
      BY SeekExists
    <3> HIDE DEF Halt
    <3> QED
      BY <1>1, <3>1, Zenon
  <2>2. at = [k \in Nat |-> IF mem[k] = Nul \/ isspace(mem[k]) THEN k ELSE at[k + 1]]
    BY <2>1, Zenon
  <2> HIDE DEF Halt
  <2> QED
    BY <1>1, <2>2, Zenon
<1>3. EndOfWord(p) = at[p]
  BY Zenon DEF EndOfWord
<1>4. e \in Halt
  OBVIOUS
<1> HIDE DEF at
<1>5. \E i \in p .. e : at[p] = i /\ i \in Halt /\ \A j \in p .. i - 1 : j \notin Halt
  <2> HIDE DEF Halt
  <2> QED
    BY <1>2, <1>4, SearchStops
<1> QED
  BY <1>3, <1>5

\* Where strncmp stops: k characters are equal and no NULs.
Compared(m, s, t, n, k) ==
  /\ strncmp(m, s, t, n) = IF k = Rounds(n) THEN 0 ELSE Sign(m[s + k], m[t + k])
  /\ k = Rounds(n) \/ m[s + k] # m[t + k] \/ m[s + k] = Nul
  /\ \A j \in 0 .. k - 1 : j # Rounds(n) /\ m[s + j] = m[t + j] /\ m[s + j] # Nul

\* strncmp says what it finds at the count, at a difference or at a NUL.
LEMMA StrncmpFinds ==
  ASSUME NEW m, NEW s \in Nat, NEW t \in Nat, NEW n, NEW e \in Nat,
         e = Rounds(n) \/ m[s + e] # m[t + e] \/ m[s + e] = Nul
  PROVE  \E k \in 0 .. e : Compared(m, s, t, n, k)
<1> DEFINE Halt == {k \in Nat : k = Rounds(n) \/ m[s + k] # m[t + k] \/ m[s + k] = Nul}
           g == [k \in Nat |-> IF k = Rounds(n) THEN 0 ELSE Sign(m[s + k], m[t + k])]
           at == CHOOSE f : f = [k \in Nat |-> IF k = Rounds(n) THEN 0
                                  ELSE IF m[s + k] # m[t + k] \/ m[s + k] = Nul
                                  THEN Sign(m[s + k], m[t + k]) ELSE f[k + 1]]
<1>1. \A f : Finds(f, Nat, Halt, g)
             <=> f = [k \in Nat |-> IF k = Rounds(n) THEN 0
                                  ELSE IF m[s + k] # m[t + k] \/ m[s + k] = Nul
                                  THEN Sign(m[s + k], m[t + k]) ELSE f[k + 1]]
  <2>1. ASSUME NEW f
        PROVE  [k \in Nat |-> IF k \in Halt THEN g[k] ELSE f[k + 1]]
               = [k \in Nat |-> IF k = Rounds(n) THEN 0
                                  ELSE IF m[s + k] # m[t + k] \/ m[s + k] = Nul
                                  THEN Sign(m[s + k], m[t + k]) ELSE f[k + 1]]
    OBVIOUS
  <2> HIDE DEF Halt, g
  <2> QED
    BY <2>1, Zenon DEF Finds
<1>2. Finds(at, Nat, Halt, g)
  <2>1. \E f : f = [k \in Nat |-> IF k = Rounds(n) THEN 0
                                  ELSE IF m[s + k] # m[t + k] \/ m[s + k] = Nul
                                  THEN Sign(m[s + k], m[t + k]) ELSE f[k + 1]]
    <3>1. \E f : Finds(f, Nat, Halt, g)
      <4> HIDE DEF Halt, g
      <4> QED
        BY FindsNat
    <3> HIDE DEF Halt, g
    <3> QED
      BY <1>1, <3>1, Zenon
  <2>2. at = [k \in Nat |-> IF k = Rounds(n) THEN 0
                                  ELSE IF m[s + k] # m[t + k] \/ m[s + k] = Nul
                                  THEN Sign(m[s + k], m[t + k]) ELSE at[k + 1]]
    BY <2>1, Zenon
  <2> HIDE DEF Halt, g
  <2> QED
    BY <1>1, <2>2, Zenon
<1>3. strncmp(m, s, t, n) = at[0]
  BY Zenon DEF strncmp
<1>4. e \in Halt
  OBVIOUS
<1> HIDE DEF at
<1>5. \E k \in 0 .. e : at[0] = g[k] /\ k \in Halt /\ \A j \in 0 .. k - 1 : j \notin Halt
  <2>1. 0 \in Nat /\ 0 <= e
    OBVIOUS
  <2> HIDE DEF Halt, g
  <2> QED
    BY <1>2, <1>4, <2>1, FindsNat
<1>6. PICK k \in 0 .. e : at[0] = g[k] /\ k \in Halt /\ \A j \in 0 .. k - 1 : j \notin Halt
  BY <1>5
<1>7. g[k] = IF k = Rounds(n) THEN 0 ELSE Sign(m[s + k], m[t + k])
  OBVIOUS
<1>8. \A j \in 0 .. k - 1 : j # Rounds(n) /\ m[s + j] = m[t + j] /\ m[s + j] # Nul
  BY <1>6
<1> QED
  BY <1>3, <1>6, <1>7, <1>8 DEF Compared

\* Five characters at q that are no NULs compare equal to the same five characters only.
LEMMA FiveEqual ==
  ASSUME 5 <= HalfWord, NEW m, NEW s \in Nat, NEW q \in Nat, NEW e \in Nat, m[s + e] = Nul,
         \A j \in 0 .. e : m[s + j] \in Byte, \A j \in 0 .. 4 : m[q + j] # Nul /\ m[q + j] \in Byte
  PROVE  strncmp(m, s, q, 5) = 0 <=> \A j \in 0 .. 4 : m[s + j] = m[q + j]
<1>1. PICK k \in 0 .. e :
           /\ k <= 5
           /\ strncmp(m, s, q, 5) = IF k = 5 THEN 0 ELSE Sign(m[s + k], m[q + k])
           /\ k = 5 \/ m[s + k] # m[q + k] \/ m[s + k] = Nul
           /\ \A j \in 0 .. k - 1 : j # 5 /\ m[s + j] = m[q + j] /\ m[s + j] # Nul
  <2>1. PICK n \in Int : n = 5 /\ Rounds(n) = n
    BY WordAssumption DEF Rounds, HalfWord
  <2>2. e = Rounds(n) \/ m[s + e] # m[q + e] \/ m[s + e] = Nul
    OBVIOUS
  <2>5. PICK k \in 0 .. e : Compared(m, s, q, n, k)
    BY <2>2, StrncmpFinds
  <2>3. /\ strncmp(m, s, q, n) = IF k = n THEN 0 ELSE Sign(m[s + k], m[q + k])
        /\ k = n \/ m[s + k] # m[q + k] \/ m[s + k] = Nul
        /\ \A j \in 0 .. k - 1 : j # n /\ m[s + j] = m[q + j] /\ m[s + j] # Nul
    BY <2>1, <2>5 DEF Compared
  <2>4. k <= 5
    <3> SUFFICES ASSUME k > 5 PROVE FALSE
      OBVIOUS
    <3>1. 5 \in 0 .. k - 1
      OBVIOUS
    <3> QED
      BY <2>1, <2>3, <3>1
  <2> QED
    BY <2>1, <2>3, <2>4
<1>2. CASE k = 5
  <2>1. \A j \in 0 .. 4 : j \in 0 .. k - 1
    BY <1>2
  <2> QED
    BY <1>1, <1>2, <2>1
<1>3. CASE k # 5
  <2>1. k \in 0 .. 4
    BY <1>1, <1>3
  <2>2. m[s + k] # m[q + k]
    BY <1>1, <1>3, <2>1
  <2>3. PICK a \in Byte, b \in Byte : a = m[s + k] /\ b = m[q + k] /\ a # b
    BY <2>1, <2>2
  <2>4. Sign(a, b) # 0
    BY <2>3 DEF Sign, Byte
  <2> QED
    BY <1>1, <1>3, <2>1, <2>2, <2>3, <2>4
<1> QED
  BY <1>2, <1>3

\* A word begins at k, and its first five characters are "quiet".
Asked(m, k) == isspace(m[k - 1]) /\ \A j \in 0 .. 4 : m[k + j] = m[Quiet + j]

\* Quiet mode is on if one of the words up to the index asked for it.
QuietInv ==
  /\ parse.pc \in {"idle", "words", "done"} /\ g_bQuietMode \in BOOLEAN
  /\ parse.pc = "idle" => g_bQuietMode = FALSE
  /\ parse.pc # "idle" =>
       /\ mem \in CommandLines /\ out.pc = "idle" /\ parse.i \in 0 .. strlen(mem, 0)
       /\ g_bQuietMode <=> \E k \in 1 .. parse.i : Asked(mem, k)
  /\ parse.pc = "words" => isspace(mem[parse.i])
  /\ parse.pc = "done" => parse.i = strlen(mem, 0)

\* A command line of l characters.
IsLine(m, l) ==
  /\ l \in Nat /\ strlen(m, 0) = l /\ m[l] = Nul /\ \A k \in 0 .. l - 1 : m[k] # Nul
  /\ \A k \in 0 .. l : m[k] \in Byte
  /\ \A j \in 0 .. 4 : m[Quiet + j] # Nul /\ m[Quiet + j] \in Byte /\ ~isspace(m[Quiet + j])

LEMMA LineFacts ==
  ASSUME NEW m \in CommandLines
  PROVE  IsLine(m, strlen(m, 0)) /\ Quiet \in Nat
<1>1. /\ m \in [DOMAIN Scratch -> 0 .. 255] /\ Quiet \in Nat
      /\ \E e \in DOMAIN Scratch : m[e] = Nul
      /\ \A k \in Quiet .. Quiet + 4 : k \in DOMAIN m /\ m[k] # Nul /\ ~isspace(m[k])
  BY CommandAssumption
<1>2. LastCell \in Nat /\ DOMAIN Scratch = 0 .. LastCell
  BY Memory
<1>3. PICK e \in 0 .. LastCell : m[e] = Nul
  BY <1>1, <1>2
<1>4. /\ strlen(m, 0) \in Nat /\ 0 + strlen(m, 0) <= e /\ m[0 + strlen(m, 0)] = Nul
      /\ \A k \in Nat : k < strlen(m, 0) => m[0 + k] # Nul
  <2>1. PICK s \in Nat : s = 0 /\ s <= e /\ e \in Nat
    BY <1>2, <1>3
  <2>2. /\ strlen(m, s) \in Nat /\ s + strlen(m, s) <= e /\ m[s + strlen(m, s)] = Nul
        /\ \A k \in Nat : k < strlen(m, s) => m[s + k] # Nul
    BY <1>3, <2>1, StringEnds
  <2> QED
    BY <2>1, <2>2
<1>5. PICK l \in Nat : l = strlen(m, 0)
  BY <1>4
<1>6. l <= LastCell /\ m[l] = Nul /\ \A k \in 0 .. l - 1 : m[k] # Nul
  BY <1>2, <1>3, <1>4, <1>5
<1>7. \A k \in 0 .. l : m[k] \in Byte
  BY <1>1, <1>2, <1>6 DEF Byte
<1>8. ASSUME NEW j \in 0 .. 4
      PROVE  m[Quiet + j] # Nul /\ m[Quiet + j] \in Byte /\ ~isspace(m[Quiet + j])
  <2>1. Quiet + j \in Quiet .. Quiet + 4
    BY <1>1
  <2> QED
    BY <1>1, <2>1 DEF Byte
<1> QED
  BY <1>1, <1>5, <1>6, <1>7, <1>8 DEF IsLine

LEMMA NulDark == ~isspace(Nul)
BY DEF isspace, Spaces, Nul, Blank

\* The first word begins the line, and does not count.
LEMMA ParseBegins ==
  ASSUME NEW l \in Nat, IsLine(mem, l)
  PROVE  \E i \in 0 .. l : /\ EndOfWord(0) = i /\ (mem[i] = Nul => i = l)
                           /\ mem[i] = Nul \/ isspace(mem[i])
                           /\ \A k \in 1 .. i : ~Asked(mem, k)
<1>1. PICK i \in 0 .. l : /\ EndOfWord(0) = i /\ (mem[i] = Nul \/ isspace(mem[i]))
                          /\ \A j \in 0 .. i - 1 : mem[j] # Nul /\ ~isspace(mem[j])
  <2>1. mem[l] = Nul /\ 0 <= l /\ 0 \in Nat
    BY DEF IsLine
  <2> QED
    BY <2>1, WordStops
<1>2. mem[i] = Nul => i = l
  BY DEF IsLine
<1>3. ASSUME NEW k \in 1 .. i PROVE ~Asked(mem, k)
  <2>1. k - 1 \in 0 .. i - 1
    OBVIOUS
  <2> QED
    BY <1>1, <2>1 DEF Asked
<1> QED
  BY <1>1, <1>2, <1>3

\* The next word begins behind the white space at p; it alone can ask.
LEMMA WordParsed ==
  ASSUME NEW l \in Nat, IsLine(mem, l), Quiet \in Nat, NEW p \in 0 .. l, isspace(mem[p])
  PROVE  \E i \in 0 .. l, n \in 0 .. l :
           /\ SkipSpace(mem, p) = i /\ EndOfWord(i) = n /\ p <= n /\ (mem[n] = Nul => n = l)
           /\ mem[n] = Nul \/ isspace(mem[n])
           /\ (\E k \in p + 1 .. n : Asked(mem, k)) <=> IsQuiet(i, n)
           /\ ~Asked(mem, p)
<1>1. mem[l] = Nul /\ ~isspace(mem[l]) /\ p \in Nat /\ p <= l
  BY NulDark DEF IsLine
<1>2. PICK i \in p .. l : /\ SkipSpace(mem, p) = i /\ ~isspace(mem[i])
                          /\ \A j \in p .. i - 1 : isspace(mem[j])
  BY <1>1, SkipSpaceStops
<1>3. i \in Nat /\ i <= l /\ p < i
  BY <1>2
<1>4. PICK n \in i .. l : /\ EndOfWord(i) = n /\ (mem[n] = Nul \/ isspace(mem[n]))
                          /\ \A j \in i .. n - 1 : mem[j] # Nul /\ ~isspace(mem[j])
  BY <1>1, <1>3, WordStops
<1>5. mem[n] = Nul => n = l
  BY <1>3 DEF IsLine
<1>6. ASSUME NEW k \in p .. n, Asked(mem, k) PROVE k = i
  <2>1. mem[k + 0] = mem[Quiet + 0] /\ ~isspace(mem[Quiet + 0])
    BY <1>6 DEF Asked, IsLine
  <2>2. k \in Nat /\ ~isspace(mem[k])
    BY <2>1
  <2>3. ~(k <= i - 1)
    BY <1>2, <2>2
  <2>4. ~(k - 1 \in i .. n - 1)
    BY <1>4, <1>6 DEF Asked
  <2> QED
    BY <2>3, <2>4
<1>7. IsQuiet(i, n) <=> \A j \in 0 .. 4 : mem[i + j] = mem[Quiet + j]
  <2>1. PICK e \in Nat : e = l - i
    BY <1>3
  <2>2. mem[i + e] = Nul
    BY <1>1, <1>3, <2>1
  <2>3. ASSUME NEW j \in 0 .. e PROVE mem[i + j] \in Byte
    <3>1. i + j \in 0 .. l
      BY <1>3, <2>1
    <3> QED
      BY <3>1 DEF IsLine
  <2>4. \A j \in 0 .. 4 : mem[Quiet + j] # Nul /\ mem[Quiet + j] \in Byte
    BY DEF IsLine
  <2>5. strncmp(mem, i, Quiet, 5) = 0 <=> \A j \in 0 .. 4 : mem[i + j] = mem[Quiet + j]
    BY <1>3, <2>2, <2>3, <2>4, FiveEqual, CommandAssumption
  <2> QED
    BY <2>5 DEF IsQuiet
<1>8. i - 1 \in p .. i - 1 /\ isspace(mem[i - 1])
  BY <1>2, <1>3
<1>9. Asked(mem, i) <=> IsQuiet(i, n)
  BY <1>7, <1>8 DEF Asked
<1>10. (\E k \in p + 1 .. n : Asked(mem, k)) <=> IsQuiet(i, n)
  <2>1. ASSUME NEW k \in p + 1 .. n, Asked(mem, k) PROVE IsQuiet(i, n)
    BY <1>6, <1>9, <2>1
  <2>2. i \in p + 1 .. n
    BY <1>3
  <2> QED
    BY <1>9, <2>1, <2>2
<1>11. ~Asked(mem, p)
  <2>1. p \in p .. n
    BY <1>3
  <2> QED
    BY <1>3, <1>6, <2>1
<1>12. i \in 0 .. l /\ n \in 0 .. l /\ p <= n
  BY <1>3
<1> QED
  BY <1>2, <1>4, <1>5, <1>10, <1>11, <1>12

LEMMA QuietBegins ==
  ASSUME QuietInv, Parse
  PROVE  QuietInv'
<1>1. /\ mem \in CommandLines /\ out.pc = "idle" /\ g_bQuietMode = FALSE
      /\ mem' = mem /\ out' = out /\ g_bQuietMode' = g_bQuietMode
  BY DEF Parse, ParseBegin, Idle, Resting, QuietInv
<1>2. PICK l \in Nat : l = strlen(mem, 0) /\ IsLine(mem, l)
  BY <1>1, LineFacts DEF IsLine
<1>3. PICK i \in 0 .. l : /\ EndOfWord(0) = i /\ (mem[i] = Nul => i = l)
                          /\ mem[i] = Nul \/ isspace(mem[i])
                          /\ \A k \in 1 .. i : ~Asked(mem, k)
  BY <1>2, ParseBegins
<1>4. parse' = [pc |-> IF mem[i] = Nul THEN "done" ELSE "words", i |-> i]
  BY <1>3 DEF Parse, ParseBegin
<1>5. parse'.i = i /\ parse'.pc = IF mem[i] = Nul THEN "done" ELSE "words"
  BY <1>4
<1>6. CASE mem[i] = Nul
  <2>1. parse'.pc = "done" /\ i = l
    BY <1>3, <1>5, <1>6
  <2> QED
    BY <1>1, <1>2, <1>3, <1>5, <2>1 DEF QuietInv
<1>7. CASE mem[i] # Nul
  <2>1. parse'.pc = "words" /\ isspace(mem[i])
    BY <1>3, <1>5, <1>7
  <2> QED
    BY <1>1, <1>2, <1>3, <1>5, <2>1 DEF QuietInv
<1> QED
  BY <1>6, <1>7

LEMMA QuietGoesOn ==
  ASSUME QuietInv, Searching
  PROVE  QuietInv'
<1>1. /\ mem \in CommandLines /\ out.pc = "idle" /\ g_bQuietMode \in BOOLEAN
      /\ mem' = mem /\ out' = out /\ isspace(mem[parse.i]) /\ parse.i \in 0 .. strlen(mem, 0)
      /\ g_bQuietMode <=> \E k \in 1 .. parse.i : Asked(mem, k)
  BY DEF Searching, ParseWord, QuietInv
<1>2. PICK l \in Nat : l = strlen(mem, 0) /\ IsLine(mem, l)
  BY <1>1, LineFacts DEF IsLine
<1>3. PICK p \in 0 .. l : p = parse.i
  BY <1>1, <1>2
<1>4. Quiet \in Nat
  BY CommandAssumption
<1>5. PICK i \in 0 .. l, n \in 0 .. l :
           /\ SkipSpace(mem, p) = i /\ EndOfWord(i) = n /\ p <= n /\ (mem[n] = Nul => n = l)
           /\ mem[n] = Nul \/ isspace(mem[n])
           /\ (\E k \in p + 1 .. n : Asked(mem, k)) <=> IsQuiet(i, n)
           /\ ~Asked(mem, p)
  BY <1>1, <1>2, <1>3, <1>4, WordParsed
<1>6. /\ parse' = [pc |-> IF mem[n] = Nul THEN "done" ELSE "words", i |-> n]
      /\ g_bQuietMode' = (g_bQuietMode \/ IsQuiet(i, n))
  BY <1>3, <1>5 DEF Searching, ParseWord
<1>7. parse'.i = n /\ parse'.pc = IF mem[n] = Nul THEN "done" ELSE "words"
  BY <1>6
<1>8. g_bQuietMode' <=> \E k \in 1 .. n : Asked(mem, k)
  <2>1. \A k \in 1 .. n : k \in 1 .. p \/ k \in p + 1 .. n
    BY <1>5
  <2>2. \A k : k \in 1 .. p \/ k \in p + 1 .. n => k \in 1 .. n
    BY <1>5
  <2>3. g_bQuietMode <=> \E k \in 1 .. p : Asked(mem, k)
    BY <1>1, <1>3
  <2>4. (\E k \in p + 1 .. n : Asked(mem, k)) <=> IsQuiet(i, n)
    BY <1>5
  <2> QED
    BY <1>6, <2>1, <2>2, <2>3, <2>4, Zenon
<1>9. g_bQuietMode' \in BOOLEAN
  <2>1. (g_bQuietMode \/ IsQuiet(i, n)) \in BOOLEAN
    BY Zenon
  <2> QED
    BY <1>6, <2>1
<1>10. CASE mem[n] = Nul
  <2>1. parse'.pc = "done" /\ n = l
    BY <1>5, <1>7, <1>10
  <2> QED
    BY <1>1, <1>2, <1>5, <1>7, <1>8, <1>9, <2>1 DEF QuietInv
<1>11. CASE mem[n] # Nul
  <2>1. parse'.pc = "words" /\ isspace(mem[n])
    BY <1>5, <1>7, <1>11
  <2> QED
    BY <1>1, <1>2, <1>5, <1>7, <1>8, <1>9, <2>1 DEF QuietInv
<1> QED
  BY <1>10, <1>11

LEMMA QuietStep == QuietInv /\ [Next]_vars => QuietInv'
<1> SUFFICES ASSUME QuietInv, [Next]_vars PROVE QuietInv'
  OBVIOUS
<1>1. ASSUME parse.pc = "idle", parse' = parse, g_bQuietMode' = g_bQuietMode PROVE QuietInv'
  BY <1>1 DEF QuietInv
<1>2. ASSUME parse' = parse, g_bQuietMode' = g_bQuietMode, mem' = mem, out' = out PROVE QuietInv'
  BY <1>2 DEF QuietInv, Asked
<1>3. CASE CopyArea
  BY <1>1, <1>3 DEF CopyArea, Memcpy, Memmove, Writes, Others, Idle, Resting
<1>4. CASE SetArea
  BY <1>1, <1>4 DEF SetArea, Memset, Writes, Others, Idle, Resting
<1>5. CASE CopyString
  BY <1>1, <1>5 DEF CopyString, Strcpy, Strncpy, Strcat, Strncat, Writes, Others, Idle, Resting
<1>6. CASE Snprintf
  BY <1>1, <1>6 DEF Snprintf, Idle, Resting
<1>7. CASE Sscanf \/ ReadBack \/ Scanning \/ Describe
  BY <1>2, <1>7 DEF Sscanf, ReadBack, Scanning, Describe
<1>8. CASE Parse
  BY <1>8, QuietBegins
<1>9. CASE Printing
  <2>1. out.pc = "items"
    BY <1>9 DEF Printing, FormatStep, Put, Literal, CharConversion, StringConversion,
                PointerConversion, CountConversion, PercentConversion, NumberConversion,
                UnknownConversion, Terminate, At, Ready
  <2>2. parse.pc = "idle"
    BY <2>1 DEF QuietInv
  <2> QED
    BY <1>1, <1>9, <2>2 DEF Printing
<1>10. CASE Searching
  BY <1>10, QuietGoesOn
<1>11. CASE UNCHANGED vars
  BY <1>2, <1>11 DEF vars
<1> QED
  BY <1>3, <1>4, <1>5, <1>6, <1>7, <1>8, <1>9, <1>10, <1>11 DEF Next

LEMMA QuietInvariant == Spec => []QuietInv
<1>1. Init => QuietInv
  <2> SUFFICES ASSUME Init PROVE QuietInv
    OBVIOUS
  <2>1. parse = ParseIdle /\ g_bQuietMode = FALSE
    BY DEF Init
  <2>2. parse.pc = "idle"
    BY <2>1 DEF ParseIdle
  <2> QED
    BY <2>1, <2>2 DEF QuietInv
<1> QED
  BY <1>1, QuietStep, PTL DEF Spec

\* Quiet mode ends up on exactly if a word of the command line behind the first begins with
\* "quiet", for any command line.
THEOREM QuietWhenAsked == Spec => []QuietAsked
<1>1. QuietInv => QuietAsked
  BY DEF QuietInv, QuietAsked, Asked
<1> QED
  BY <1>1, QuietInvariant, PTL

----------------------------------------------------------------------------
(* A loop with a value: the digits of sscanf.                              *)

\* f[q][v] is where a loop that is at q with the value v ends, and with which value.
Loops(f, p, e, Halt, s) ==
  f = [q \in p .. e |-> [v \in Nat |-> IF q \in Halt THEN [str |-> q, v |-> v]
                                       ELSE f[q + 1][s[q][v]]]]

\* The loop may stop at e, and its steps give numbers.
Stepping(p, e, Halt, s) ==
  e \in Halt /\ \A q \in p .. e : q \notin Halt => \A v \in Nat : s[q][v] \in Nat

\* w comes of v in the steps from q to i.
Runs(s, q, i, v, w) ==
  \E r \in [q .. i -> Nat] : /\ r[q] = v /\ r[i] = w
                             /\ \A j \in q .. i - 1 : r[j + 1] = s[j][r[j]]

LEMMA RunsNone ==
  ASSUME NEW s, NEW q \in Nat, NEW v \in Nat, NEW w
  PROVE  Runs(s, q, q, v, w) <=> w = v
<1>1. Runs(s, q, q, v, w) => w = v
  BY DEF Runs
<1>2. w = v => Runs(s, q, q, v, w)
  <2> DEFINE r == [j \in q .. q |-> v]
  <2>1. r \in [q .. q -> Nat] /\ r[q] = v /\ \A j \in q .. q - 1 : FALSE
    OBVIOUS
  <2> HIDE DEF r
  <2> QED
    BY <2>1 DEF Runs
<1> QED
  BY <1>1, <1>2

LEMMA RunsOne ==
  ASSUME NEW s, NEW q \in Nat, NEW i \in Nat, q < i, NEW v \in Nat, NEW w, s[q][v] \in Nat
  PROVE  Runs(s, q, i, v, w) <=> Runs(s, q + 1, i, s[q][v], w)
<1>1. ASSUME Runs(s, q, i, v, w) PROVE Runs(s, q + 1, i, s[q][v], w)
  <2>1. PICK r \in [q .. i -> Nat] : /\ r[q] = v /\ r[i] = w
                                     /\ \A j \in q .. i - 1 : r[j + 1] = s[j][r[j]]
    BY <1>1 DEF Runs
  <2> DEFINE r2 == [j \in q + 1 .. i |-> r[j]]
  <2>2. r2 \in [q + 1 .. i -> Nat]
    BY <2>1
  <2>3. r2[q + 1] = s[q][v]
    <3>1. q \in q .. i - 1 /\ q + 1 \in q + 1 .. i
      OBVIOUS
    <3> QED
      BY <2>1, <3>1
  <2>4. r2[i] = w
    BY <2>1
  <2>5. ASSUME NEW j \in q + 1 .. i - 1 PROVE r2[j + 1] = s[j][r2[j]]
    <3>1. j \in q .. i - 1 /\ j \in q + 1 .. i /\ j + 1 \in q + 1 .. i
      OBVIOUS
    <3> QED
      BY <2>1, <3>1
  <2> HIDE DEF r2
  <2> QED
    BY <2>2, <2>3, <2>4, <2>5 DEF Runs
<1>2. ASSUME Runs(s, q + 1, i, s[q][v], w) PROVE Runs(s, q, i, v, w)
  <2>1. PICK r \in [q + 1 .. i -> Nat] : /\ r[q + 1] = s[q][v] /\ r[i] = w
                                     /\ \A j \in q + 1 .. i - 1 : r[j + 1] = s[j][r[j]]
    BY <1>2 DEF Runs
  <2> DEFINE r2 == [j \in q .. i |-> IF j = q THEN v ELSE r[j]]
  <2>2. r2 \in [q .. i -> Nat]
    <3>1. \A j \in q .. i : j # q => j \in q + 1 .. i
      OBVIOUS
    <3> QED
      BY <2>1, <3>1
  <2>3. r2[q] = v /\ r2[i] = w
    BY <2>1
  <2>5. ASSUME NEW j \in q .. i - 1 PROVE r2[j + 1] = s[j][r2[j]]
    <3>1. j \in q .. i /\ j + 1 \in q .. i /\ j + 1 # q
      OBVIOUS
    <3>2. CASE j = q
      BY <2>1, <3>1, <3>2
    <3>3. CASE j # q
      <4>1. j \in q + 1 .. i - 1
        BY <3>3
      <4> QED
        BY <2>1, <3>1, <3>3, <4>1
    <3> QED
      BY <3>2, <3>3
  <2> HIDE DEF r2
  <2> QED
    BY <2>2, <2>3, <2>5 DEF Runs
<1> QED
  BY <1>1, <1>2

\* There is such a function.
LEMMA LoopExists ==
  ASSUME NEW p \in Nat, NEW e \in Nat, NEW Halt, NEW s, Stepping(p, e, Halt, s)
  PROVE  \E f : Loops(f, p, e, Halt, s)
<1>1. PICK at : Seeks(at, Halt)
  BY SeekExists
<1>2. \A q \in Nat : at[q] = IF q \in Halt THEN q ELSE at[q + 1]
  BY <1>1 DEF Seeks
<1>3. ASSUME NEW q \in p .. e PROVE at[q] \in Nat /\ q <= at[q] /\ at[q] <= e /\ at[q] \in Halt
  <2>1. q \in Nat /\ q <= e /\ e \in Halt
    BY DEF Stepping
  <2> QED
    BY <1>1, <2>1, SeekFirst
<1> DEFINE last1(q, v) == CHOOSE w : Runs(s, q, at[q], v, w)
           f == [q \in p .. e |-> [v \in Nat |-> [str |-> at[q], v |-> last1(q, v)]]]
<1>4. ASSUME NEW q \in p .. e, NEW v \in Nat
      PROVE  [str |-> at[q], v |-> last1(q, v)]
             = IF q \in Halt THEN [str |-> q, v |-> v] ELSE f[q + 1][s[q][v]]
  <2>1. q \in Nat
    OBVIOUS
  <2>2. CASE q \in Halt
    <3>1. at[q] = q
      BY <1>2, <2>1, <2>2
    <3>2. \A w : Runs(s, q, q, v, w) <=> w = v
      BY <2>1, RunsNone
    <3>3. last1(q, v) = v
      BY <3>1, <3>2, Zenon
    <3> QED
      BY <2>2, <3>1, <3>3
  <2>3. CASE q \notin Halt
    <3>1. q # e /\ s[q][v] \in Nat
      BY <2>3 DEF Stepping
    <3>2. q + 1 \in p .. e
      BY <3>1
    <3>3. at[q] = at[q + 1]
      BY <1>2, <2>1, <2>3
    <3>4. PICK i \in Nat : i = at[q] /\ q < i
      BY <1>3, <3>2, <3>3
    <3>5. \A w : Runs(s, q, i, v, w) <=> Runs(s, q + 1, i, s[q][v], w)
      BY <2>1, <3>1, <3>4, RunsOne
    <3>6. last1(q, v) = last1(q + 1, s[q][v])
      BY <3>3, <3>4, <3>5, Zenon
    <3> HIDE DEF last1
    <3>7. f[q + 1][s[q][v]] = [str |-> at[q + 1], v |-> last1(q + 1, s[q][v])]
      BY <3>1, <3>2
    <3> QED
      BY <2>3, <3>3, <3>6, <3>7
  <2> QED
    BY <2>2, <2>3
<1> HIDE DEF last1
<1>5. f = [q \in p .. e |-> [v \in Nat |-> IF q \in Halt THEN [str |-> q, v |-> v]
                                       ELSE f[q + 1][s[q][v]]]]
  BY <1>4
<1> HIDE DEF f
<1> QED
  BY <1>5 DEF Loops

\* The loop's result r: a place to stop, and a number.
EndsAt(r, Halt, p, e) == \E i \in p .. e, w \in Nat : r = [str |-> i, v |-> w] /\ i \in Halt

\* It ends at a place to stop, with a number.
LEMMA LoopEnds ==
  ASSUME NEW p \in Nat, NEW e \in Nat, NEW Halt, NEW s, Stepping(p, e, Halt, s), p <= e,
         NEW f, Loops(f, p, e, Halt, s), NEW v \in Nat
  PROVE  EndsAt(f[p][v], Halt, p, e)
<1>1. PICK at : Seeks(at, Halt)
  BY SeekExists
<1>2. e \in Halt
  BY DEF Stepping
<1>3. /\ at[p] \in Nat /\ p <= at[p] /\ at[p] <= e /\ at[p] \in Halt
      /\ \A j \in Nat : p <= j /\ j < at[p] => j \notin Halt
  BY <1>1, <1>2, SeekFirst
<1>4. PICK i \in Nat : i = at[p] /\ p <= i /\ i <= e
  BY <1>3
<1>5. i \in Halt /\ \A j \in Nat : p <= j /\ j < i => j \notin Halt
  BY <1>3, <1>4
<1>6. ASSUME NEW q \in p .. e, NEW u \in Nat
      PROVE  f[q][u] = IF q \in Halt THEN [str |-> q, v |-> u] ELSE f[q + 1][s[q][u]]
  <2>1. f[q] = [w \in Nat |-> IF q \in Halt THEN [str |-> q, v |-> w] ELSE f[q + 1][s[q][w]]]
    BY Zenon DEF Loops
  <2> QED
    BY <2>1
<1> DEFINE X == {d \in Nat : p + d <= i => \E u \in Nat : f[p][v] = f[p + d][u]}
<1>7. 0 \in X
  <2>1. p + 0 = p
    OBVIOUS
  <2> QED
    BY <2>1
<1>8. ASSUME NEW d \in Nat, d \in X PROVE d + 1 \in X
  <2> SUFFICES ASSUME p + (d + 1) <= i PROVE \E u \in Nat : f[p][v] = f[p + (d + 1)][u]
    OBVIOUS
  <2>1. PICK h \in Nat : h = p + d /\ h + 1 = p + (d + 1) /\ h < i /\ p <= h
    BY <1>4
  <2>2. PICK u \in Nat : f[p][v] = f[h][u]
    BY <1>8, <2>1
  <2>3. h \notin Halt /\ h \in p .. e
    BY <1>4, <1>5, <2>1
  <2>4. f[h][u] = f[h + 1][s[h][u]] /\ s[h][u] \in Nat
    BY <1>6, <2>3 DEF Stepping
  <2> QED
    BY <2>1, <2>2, <2>4
<1> HIDE DEF X
<1>9. Nat \subseteq X
  BY <1>7, <1>8, SetInduction
<1>10. i - p \in Nat /\ p + (i - p) = i /\ i \in p .. e
  BY <1>4
<1>11. PICK u \in Nat : f[p][v] = f[i][u]
  BY <1>9, <1>10 DEF X
<1>12. f[p][v] = [str |-> i, v |-> u]
  BY <1>5, <1>6, <1>10, <1>11
<1> QED
  BY <1>5, <1>10, <1>12 DEF EndsAt

----------------------------------------------------------------------------
(* sscanf reads in its text.                                               *)

\* A text of bytes from the address from on, with its first NUL at e.
TextAt(from, e) ==
  /\ from \in Nat /\ e \in Nat /\ from <= e /\ mem[e] = Nul
  /\ \A j \in from .. e - 1 : mem[j] # Nul
  /\ \A j \in from .. e : mem[j] \in Byte

\* The next address to fetch, with one character read ahead in the text, and none kept.
InText(from, e, p) == p \in Nat /\ from + 1 <= p /\ p <= e + 1 /\ in.kept.at = 0

\* What is read ahead.
LEMMA AheadByte ==
  ASSUME NEW from, NEW e, TextAt(from, e), NEW p \in Nat, InText(from, e, p)
  PROVE  /\ from \in Nat /\ e \in Nat
         /\ p = e + 1 => Ahead(p) = -1
         /\ p # e + 1 => Ahead(p) \in Byte /\ p <= e
<1>1. from \in Nat /\ e \in Nat /\ from <= e /\ mem[e] = Nul
  BY DEF TextAt
<1>2. from + 1 <= p /\ p <= e + 1 /\ p # in.kept.at
  BY <1>1 DEF InText
<1>3. p = e + 1 => Ahead(p) = -1
  BY <1>1, <1>2 DEF Ahead
<1>4. ASSUME p # e + 1 PROVE Ahead(p) \in Byte /\ p <= e
  <2>1. p - 1 \in from .. e - 1 /\ p - 1 \in from .. e
    BY <1>1, <1>2, <1>4
  <2> QED
    BY <1>1, <1>2, <2>1 DEF Ahead, TextAt
<1> QED
  BY <1>1, <1>3, <1>4

\* Characters that may be passed over are so up to the end of the text at most.
LEMMA PassStops ==
  ASSUME NEW from, NEW e, TextAt(from, e), NEW p \in Nat, InText(from, e, p), NEW S, -1 \notin S
  PROVE  \E q \in Nat : Pass(p, S) = q /\ p <= q /\ InText(from, e, q)
<1> DEFINE Halt == {q \in Nat : Ahead(q) \notin S}
           at == CHOOSE f : f = [q \in Nat |-> IF Ahead(q) \in S THEN f[q + 1] ELSE q]
<1>1. \A f : Seeks(f, Halt) <=> f = [q \in Nat |-> IF Ahead(q) \in S THEN f[q + 1] ELSE q]
  <2>1. ASSUME NEW f
        PROVE  [q \in Nat |-> IF q \in Halt THEN q ELSE f[q + 1]]
               = [q \in Nat |-> IF Ahead(q) \in S THEN f[q + 1] ELSE q]
    OBVIOUS
  <2> HIDE DEF Halt
  <2> QED
    BY <2>1, Zenon DEF Seeks
<1>2. Seeks(at, Halt)
  <2>1. \E f : f = [q \in Nat |-> IF Ahead(q) \in S THEN f[q + 1] ELSE q]
    <3>1. \E f : Seeks(f, Halt)
      BY SeekExists
    <3> HIDE DEF Halt
    <3> QED
      BY <1>1, <3>1, Zenon
  <2>2. at = [q \in Nat |-> IF Ahead(q) \in S THEN at[q + 1] ELSE q]
    BY <2>1, Zenon
  <2> HIDE DEF Halt
  <2> QED
    BY <1>1, <2>2, Zenon
<1>3. Pass(p, S) = at[p]
  BY Zenon DEF Pass
<1>4. from \in Nat /\ e \in Nat /\ from <= e /\ from + 1 <= p /\ p <= e + 1 /\ in.kept.at = 0
  BY DEF TextAt, InText
<1>5. PICK h \in Nat : h = e + 1
  BY <1>4
<1>6. h \in Halt
  <2>1. Ahead(h) = -1
    BY <1>4, <1>5 DEF Ahead, TextAt
  <2> QED
    BY <2>1
<1> HIDE DEF at
<1>7. \E i \in p .. h : at[p] = i /\ i \in Halt /\ \A j \in p .. i - 1 : j \notin Halt
  <2>1. p <= h
    BY <1>4, <1>5
  <2> HIDE DEF Halt
  <2> QED
    BY <1>2, <1>6, <2>1, SearchStops
<1> QED
  BY <1>3, <1>4, <1>5, <1>7 DEF InText

LEMMA BlanksStop ==
  ASSUME NEW from, NEW e, TextAt(from, e), NEW p \in Nat, InText(from, e, p)
  PROVE  \E q \in Nat : SkipBlanks(p) = q /\ p <= q /\ InText(from, e, q)
<1>1. -1 \notin Spaces
  BY DEF Spaces, Blank
<1> QED
  BY <1>1, PassStops DEF SkipBlanks

LEMMA DecimalsStop ==
  ASSUME NEW from, NEW e, TextAt(from, e), NEW p \in Nat, InText(from, e, p)
  PROVE  \E q \in Nat : SkipDigits(p) = q /\ p <= q /\ InText(from, e, q)
<1>1. -1 \notin Zero .. 57
  BY DEF Zero
<1> QED
  BY <1>1, PassStops DEF SkipDigits

\* So do the characters of %c and %s.
LEMMA SpanStops ==
  ASSUME NEW from, NEW e, TextAt(from, e), NEW p \in Nat, InText(from, e, p),
         NEW width, NEW stopsAtBlank
  PROVE  \E q \in Nat : Span(p, width, stopsAtBlank) = q /\ p <= q /\ InText(from, e, q)
<1> DEFINE ends(q) == q - p = width \/ Ahead(q) = -1 \/ (stopsAtBlank /\ isspace(Ahead(q)))
           Halt == {q \in Nat : ends(q)}
           at == CHOOSE f : f = [q \in Nat |-> IF ends(q) THEN q ELSE f[q + 1]]
<1>1. \A f : Seeks(f, Halt) <=> f = [q \in Nat |-> IF ends(q) THEN q ELSE f[q + 1]]
  <2>1. ASSUME NEW f
        PROVE  [q \in Nat |-> IF q \in Halt THEN q ELSE f[q + 1]]
               = [q \in Nat |-> IF ends(q) THEN q ELSE f[q + 1]]
    <3> HIDE DEF ends
    <3> QED
      OBVIOUS
  <2> HIDE DEF Halt, ends
  <2> QED
    BY <2>1, Zenon DEF Seeks
<1>2. Seeks(at, Halt)
  <2>1. \E f : f = [q \in Nat |-> IF ends(q) THEN q ELSE f[q + 1]]
    <3>1. \E f : Seeks(f, Halt)
      BY SeekExists
    <3> HIDE DEF Halt, ends
    <3> QED
      BY <1>1, <3>1, Zenon
  <2>2. at = [q \in Nat |-> IF ends(q) THEN q ELSE at[q + 1]]
    <3> HIDE DEF ends
    <3> QED
      BY <2>1, Zenon
  <2> HIDE DEF Halt, ends
  <2> QED
    BY <1>1, <2>2, Zenon
<1>3. Span(p, width, stopsAtBlank) = at[p]
  BY Zenon DEF Span
<1>4. from \in Nat /\ e \in Nat /\ from <= e /\ from + 1 <= p /\ p <= e + 1 /\ in.kept.at = 0
  BY DEF TextAt, InText
<1>5. PICK h \in Nat : h = e + 1
  BY <1>4
<1>6. h \in Halt
  <2>1. Ahead(h) = -1
    BY <1>4, <1>5 DEF Ahead, TextAt
  <2> QED
    BY <2>1
<1> HIDE DEF at
<1>7. \E i \in p .. h : at[p] = i /\ i \in Halt /\ \A j \in p .. i - 1 : j \notin Halt
  <2>1. p <= h
    BY <1>4, <1>5
  <2> HIDE DEF Halt
  <2> QED
    BY <1>2, <1>6, <2>1, SearchStops
<1> HIDE DEF Halt
<1> QED
  BY <1>3, <1>4, <1>5, <1>7 DEF InText

\* What a digit is worth.
LEMMA DigitRange ==
  ASSUME NEW c \in Byte
  PROVE  ScanDigit(c) \in Nat
<1>1. c \in Nat
  BY DEF Byte
<1> DEFINE d == IF (c \div 32) % 2 = 1 THEN c ELSE c + 32
<1>2. d \in Nat
  BY <1>1
<1> HIDE DEF d
<1>3. (IF d >= 97 THEN d - 97 + 10 ELSE IF c \in Zero .. 57 THEN c - Zero ELSE 255) \in Nat
  BY <1>1, <1>2 DEF Zero
<1> QED
  BY <1>3 DEF ScanDigit, d

\* The digits end within the text.
LEMMA DigitsStop ==
  ASSUME NEW from, NEW e, TextAt(from, e), NEW p \in Nat, InText(from, e, p),
         NEW div \in Nat, NEW width
  PROVE  \E q \in Nat, w \in Nat :
           ScanDigits(p, div, width) = [str |-> q, v |-> w] /\ p <= q /\ InText(from, e, q)
<1>0. from \in Nat /\ e \in Nat /\ from <= e /\ from + 1 <= p /\ p <= e + 1 /\ mem[e] = Nul
      /\ in.kept.at = 0
  BY DEF TextAt, InText
<1> DEFINE final == IF Ahead(p) = -1 THEN p ELSE FirstOf(mem, p, {Nul}) + 1
<1>1. PICK h \in Nat : h = e + 1
  BY <1>0
<1>2. final = h
  <2>1. CASE Ahead(p) = -1
    <3>1. p = e + 1
      BY <2>1, AheadByte DEF Byte
    <3> QED
      BY <1>1, <2>1, <3>1
  <2>2. CASE Ahead(p) # -1
    <3>1. p <= e /\ from <= p
      BY <1>0, <2>2, AheadByte
    <3>2. mem[e] \in {Nul} /\ e \in Nat
      BY <1>0
    <3>3. /\ FirstOf(mem, p, {Nul}) \in Nat /\ p <= FirstOf(mem, p, {Nul})
          /\ FirstOf(mem, p, {Nul}) <= e /\ mem[FirstOf(mem, p, {Nul})] \in {Nul}
      BY <3>1, <3>2, FirstOfFinds
    <3>4. PICK i \in Nat : i = FirstOf(mem, p, {Nul}) /\ p <= i /\ i <= e /\ mem[i] = Nul
      BY <3>3
    <3>5. ~(i \in from .. e - 1)
      BY <3>4 DEF TextAt
    <3>6. i = e
      BY <1>0, <3>1, <3>4, <3>5
    <3> QED
      BY <1>1, <2>2, <3>4, <3>6
  <2> QED
    BY <2>1, <2>2
<1> HIDE DEF final
<1> DEFINE c(q) == ScanDigit(Ahead(q))
           next(q, v) == IF (v * div) % Word < v THEN Word - 1 ELSE (((v * div) % Word) + c(q)) % Word
           ends(q) == q - p = width \/ Ahead(q) = -1 \/ c(q) >= div
           Halt == {q \in Nat : ends(q)}
           s == [q \in Nat |-> [v \in Nat |-> next(q, v)]]
           Is(f) == f = [q \in p .. h |->
                     [v \in Nat |-> IF ends(q) THEN [str |-> q, v |-> v] ELSE f[q + 1][next(q, v)]]]
           loop == CHOOSE f : Is(f)
<1>3. Stepping(p, h, Halt, s)
  <2>1. h \in Halt
    <3>1. Ahead(h) = -1
      BY <1>0, <1>1 DEF Ahead
    <3> QED
      BY <3>1
  <2>2. ASSUME NEW q \in p .. h, q \notin Halt, NEW v \in Nat PROVE s[q][v] \in Nat
    <3>1. q \in Nat /\ q # h
      BY <2>1, <2>2
    <3>2. InText(from, e, q)
      BY <1>0, <1>1 DEF InText
    <3>3. Ahead(q) \in Byte
      BY <1>1, <3>1, <3>2, AheadByte
    <3>4. PICK digit \in Nat : digit = c(q)
      BY <3>3, DigitRange
    <3>5. Word \in Nat \ {0}
      BY WordAssumption, ShortAssumption
    <3>6. PICK d \in Nat : d = (v * div) % Word
      BY <3>5
    <3>7. (d + digit) % Word \in Nat /\ Word - 1 \in Nat
      BY <3>5
    <3>8. next(q, v) \in Nat
      <4> HIDE DEF c
      <4> QED
        BY <3>4, <3>6, <3>7
    <3> HIDE DEF next
    <3> QED
      BY <3>1, <3>8
  <2> HIDE DEF Halt, s
  <2> QED
    BY <2>1, <2>2 DEF Stepping
<1>4. \A f : Loops(f, p, h, Halt, s) <=> Is(f)
  <2>1. ASSUME NEW f
        PROVE  [q \in p .. h |-> [v \in Nat |-> IF q \in Halt THEN [str |-> q, v |-> v]
                                                ELSE f[q + 1][s[q][v]]]]
               = [q \in p .. h |-> [v \in Nat |-> IF ends(q) THEN [str |-> q, v |-> v]
                                                  ELSE f[q + 1][next(q, v)]]]
    <3> HIDE DEF ends, next
    <3>1. \A q \in p .. h : q \in Nat /\ (q \in Halt <=> ends(q))
      OBVIOUS
    <3>2. \A q \in Nat, v \in Nat : s[q][v] = next(q, v)
      OBVIOUS
    <3> HIDE DEF Halt, s
    <3> QED
      BY <3>1, <3>2
  <2> HIDE DEF Halt, s, ends, next
  <2> QED
    BY <2>1, Zenon DEF Loops
<1>5. Loops(loop, p, h, Halt, s)
  <2>1. \E f : Loops(f, p, h, Halt, s)
    <3> HIDE DEF Halt, s
    <3> QED
      BY <1>3, LoopExists
  <2> HIDE DEF Halt, s, Is
  <2>2. \E f : Is(f)
    BY <1>4, <2>1, Zenon
  <2>3. Is(loop)
    BY <2>2, Zenon
  <2> QED
    BY <1>4, <2>3, Zenon
<1>6. ScanDigits(p, div, width) = loop[p][0]
  BY <1>2, Zenon DEF ScanDigits, final
<1> HIDE DEF loop
<1>7. EndsAt(loop[p][0], Halt, p, h)
  <2>1. p <= h /\ Stepping(p, h, Halt, s) /\ Loops(loop, p, h, Halt, s)
    BY <1>0, <1>1, <1>3, <1>5
  <2> HIDE DEF Halt, s
  <2>2. \A v \in Nat : EndsAt(loop[p][v], Halt, p, h)
    BY <2>1, LoopEnds
  <2> QED
    BY <2>2
<1> HIDE DEF Halt, s
<1>8. PICK q \in p .. h, w \in Nat : loop[p][0] = [str |-> q, v |-> w]
  BY <1>7 DEF EndsAt
<1> QED
  BY <1>0, <1>1, <1>6, <1>8 DEF InText

\* A character that is not the end leaves room for the next one.
LEMMA NextInText ==
  ASSUME NEW from, NEW e, TextAt(from, e), NEW p \in Nat, InText(from, e, p), Ahead(p) # -1
  PROVE  p + 1 \in Nat /\ InText(from, e, p + 1)
<1>1. p <= e /\ from + 1 <= p /\ in.kept.at = 0 /\ from \in Nat /\ e \in Nat
  BY AheadByte DEF InText
<1> QED
  BY <1>1 DEF InText

\* An integer ends within the text.
LEMMA IntegerStops ==
  ASSUME NEW from, NEW e, TextAt(from, e), NEW p \in Nat, InText(from, e, p),
         NEW conv, NEW width
  PROVE  \E q \in Nat : ScanInteger(conv, width, p).str = q /\ InText(from, e, q)
<1>1. PICK p0 \in Nat : SkipBlanks(p) = p0 /\ InText(from, e, p0)
  BY BlanksStop
<1> DEFINE neg == Ahead(p0) = Minus
           zero(p2) == width = NoWidth /\ Div(conv) \in {0, 16} /\ Ahead(p2) = Zero
           hex(p2) == zero(p2) /\ Ahead(p2 + 1) \in {88, 120}
           base(p2) == IF hex(p2) THEN 16 ELSE IF Div(conv) # 0 \/ width # NoWidth THEN Div(conv)
                       ELSE IF zero(p2) THEN 8 ELSE 10
           start(p2) == p2 + (IF hex(p2) THEN 2 ELSE IF zero(p2) THEN 1 ELSE 0)
<1>2. PICK p1 \in Nat : p1 = (IF neg THEN p0 + 1 ELSE p0) /\ InText(from, e, p1)
  <2>1. neg => Ahead(p0) # -1
    BY DEF Minus
  <2> QED
    BY <1>1, <2>1, NextInText
<1>3. PICK p2 \in Nat : p2 = (IF Ahead(p1) = Plus THEN p1 + 1 ELSE p1) /\ InText(from, e, p2)
  <2>1. Ahead(p1) = Plus => Ahead(p1) # -1
    BY DEF Plus
  <2> QED
    BY <1>2, <2>1, NextInText
<1>4. PICK p3 \in Nat : p3 = start(p2) /\ InText(from, e, p3)
  <2>1. ASSUME zero(p2) PROVE p2 + 1 \in Nat /\ InText(from, e, p2 + 1)
    <3>1. Ahead(p2) # -1
      BY <2>1 DEF Zero
    <3> QED
      BY <1>3, <3>1, NextInText
  <2>2. ASSUME hex(p2) PROVE p2 + 2 \in Nat /\ InText(from, e, p2 + 2)
    <3>1. PICK p4 \in Nat : p4 = p2 + 1 /\ p4 + 1 = p2 + 2
      OBVIOUS
    <3>2. Ahead(p4) # -1 /\ InText(from, e, p4)
      BY <2>1, <2>2, <3>1
    <3> QED
      BY <3>1, <3>2, NextInText
  <2>3. CASE hex(p2)
    BY <2>2, <2>3
  <2>4. CASE zero(p2) /\ ~hex(p2)
    BY <2>1, <2>4
  <2>5. CASE ~zero(p2)
    BY <1>3, <2>5
  <2> QED
    BY <2>3, <2>4, <2>5
<1>5. PICK div \in Nat : div = base(p2)
  <2>1. Div(conv) \in Nat
    <3> DEFINE d == CASE conv \in {"p", "X", "x"} -> 16 [] conv = "d" -> 10
                      [] conv = "o" -> 8 [] OTHER -> 0
    <3>1. d \in Nat
      OBVIOUS
    <3> QED
      BY <3>1, Zenon DEF Div
  <2> QED
    BY <2>1
<1>6. PICK q \in Nat, w \in Nat : ScanDigits(p3, div, width) = [str |-> q, v |-> w] /\ InText(from, e, q)
  BY <1>4, DigitsStop
<1> DEFINE r == ScanDigits(p3, div, width)
           minus == neg /\ conv \in {"d", "i", "o"} /\ r.v < HalfWord
<1>7. ScanInteger(conv, width, p) = [r EXCEPT !.v = IF minus THEN (Word - @) % Word ELSE @]
  <2> HIDE DEF r
  <2> DEFINE of(x, y0, y1, y2) ==
        LET n == Ahead(y0) = Minus
            m == n /\ conv \in {"d", "i", "o"} /\ x.v < HalfWord
        IN  [x EXCEPT !.v = IF m THEN (Word - @) % Word ELSE @]
  <2> QED
    BY <1>1, <1>2, <1>3, <1>4, <1>5, Zenon DEF ScanInteger, r
<1>8. ScanInteger(conv, width, p).str = q
  BY <1>6, <1>7
<1> QED
  BY <1>6, <1>8

\* So does a number in floating point, unless its exponent letter ends the text.
LEMMA FloatStops ==
  ASSUME NEW from, NEW e, TextAt(from, e), NEW p \in Nat, InText(from, e, p),
         from < e => mem[e - 1] \notin Exponents
  PROVE  \E q \in Nat : ScanFloat(p).str = q /\ InText(from, e, q) /\ ~ScanFloat(p).lost
<1>1. PICK p0 \in Nat : SkipBlanks(p) = p0 /\ InText(from, e, p0)
  BY BlanksStop
<1>2. PICK p1 \in Nat : p1 = (IF Ahead(p0) = Minus THEN p0 + 1 ELSE p0) /\ InText(from, e, p1)
  <2>1. Ahead(p0) = Minus => Ahead(p0) # -1
    BY DEF Minus
  <2> QED
    BY <1>1, <2>1, NextInText
<1>3. PICK p2 \in Nat : p2 = (IF Ahead(p1) = Plus THEN p1 + 1 ELSE p1) /\ InText(from, e, p2)
  <2>1. Ahead(p1) = Plus => Ahead(p1) # -1
    BY DEF Plus
  <2> QED
    BY <1>2, <2>1, NextInText
<1>4. PICK p3 \in Nat : SkipDigits(p2) = p3 /\ InText(from, e, p3)
  BY <1>3, DecimalsStop
<1>5. PICK p4 \in Nat :
        p4 = (IF Ahead(p3) = Point THEN SkipDigits(p3 + 1) ELSE p3) /\ InText(from, e, p4)
  <2>1. Ahead(p3) = Point => Ahead(p3) # -1
    BY DEF Point
  <2>2. ASSUME Ahead(p3) = Point PROVE p3 + 1 \in Nat /\ InText(from, e, p3 + 1)
    BY <1>4, <2>1, <2>2, NextInText
  <2>3. ASSUME Ahead(p3) = Point
        PROVE  \E q \in Nat : SkipDigits(p3 + 1) = q /\ InText(from, e, q)
    <3>1. PICK a \in Nat : a = p3 + 1
      OBVIOUS
    <3> QED
      BY <2>2, <2>3, <3>1, DecimalsStop
  <2> QED
    BY <1>4, <2>3
<1>6. PICK letter \in BOOLEAN : letter <=> Ahead(p4) \in Exponents
  OBVIOUS
<1>7. letter => Ahead(p4) # -1 /\ p4 + 1 \in Nat /\ InText(from, e, p4 + 1)
  <2>1. letter => Ahead(p4) # -1
    BY <1>6 DEF Exponents
  <2> QED
    BY <1>5, <2>1, NextInText
<1>8. letter => Ahead(p4 + 1) # -1
  <2> SUFFICES ASSUME letter, Ahead(p4 + 1) = -1 PROVE FALSE
    OBVIOUS
  <2>1. PICK a \in Nat : a = p4 + 1 /\ InText(from, e, a)
    BY <1>7
  <2>2. a = e + 1 /\ e \in Nat /\ from \in Nat
    BY <2>1, AheadByte DEF Byte
  <2>3. p4 = e /\ from < e /\ p4 # in.kept.at
    BY <1>5, <2>1, <2>2 DEF InText
  <2>4. Ahead(p4) = mem[e - 1]
    BY <1>6, <1>7, <2>3 DEF Ahead
  <2> QED
    BY <1>6, <2>3, <2>4
<1>9. PICK signed \in BOOLEAN : signed <=> letter /\ Ahead(p4 + 1) \in {Plus, Minus}
  OBVIOUS
<1>10. PICK q \in Nat : q = (IF signed THEN SkipDigits(p4 + 2) ELSE p4) /\ InText(from, e, q)
  <2>1. ASSUME signed PROVE \E q \in Nat : SkipDigits(p4 + 2) = q /\ InText(from, e, q)
    <3>1. PICK a \in Nat, c \in Nat : a = p4 + 1 /\ c = p4 + 2 /\ c = a + 1
      OBVIOUS
    <3>2. Ahead(a) # -1 /\ InText(from, e, a)
      BY <1>7, <1>8, <1>9, <2>1, <3>1
    <3>3. InText(from, e, c)
      BY <3>1, <3>2, NextInText
    <3> QED
      BY <3>1, <3>3, DecimalsStop
  <2> QED
    BY <1>5, <2>1
<1> DEFINE lost == letter /\ Ahead(p4 + 1) = -1
<1>11. /\ ScanFloat(p).str = IF signed THEN SkipDigits(p4 + 2) ELSE IF lost THEN p4 + 1 ELSE p4
       /\ ScanFloat(p).lost = lost
  BY <1>1, <1>2, <1>3, <1>4, <1>5, <1>6, <1>9 DEF ScanFloat
<1>12. ~lost
  BY <1>8
<1> QED
  BY <1>10, <1>11, <1>12

----------------------------------------------------------------------------
(* sscanf's call in progress.                                              *)

\* The first NUL of the text.
TextEnd(from) == from + strlen(mem, from)

\* The format has no character 255, and no directive for a floating point number unless
\* the last character is no exponent letter.
Harmless(i) ==
  \A k \in 1 .. Len(i.format) :
    /\ i.format[k].ch # 255
    /\ i.format[k].conv = "f" /\ i.from < TextEnd(i.from) => mem[TextEnd(i.from) - 1] \notin Exponents

IsIn(i) == i = [pc |-> i.pc, from |-> i.from, items |-> i.items, str |-> i.str, n |-> i.n,
                ret |-> i.ret, stored |-> i.stored, format |-> i.format, kept |-> i.kept]

\* The items left are the last ones of the format; the others counted once at most.
ItemsLeft(i) ==
  \E k \in Nat : k <= Len(i.format) /\ i.items = Rest(i.format, k) /\ i.n <= k

\* The pointer is in the text; it is one byte ahead until the call returns.
InPlace(i) ==
  \/ InText(i.from, TextEnd(i.from), i.str)
  \/ i.pc = "done" /\ i.str \in i.from .. TextEnd(i.from)

Scanned(i) ==
  /\ IsIn(i) /\ i.from \in Nat /\ TextEnd(i.from) \in Nat /\ TextAt(i.from, TextEnd(i.from))
  /\ i.format \in Seq(ScanItems) /\ (i.pc = "items" => ItemsLeft(i))
  /\ i.n \in 0 .. Len(i.format) /\ (Harmless(i) => InPlace(i))

\* The invariant: memory and the other calls rest while sscanf runs.
ScanInv ==
  /\ in.pc \in {"idle", "items", "end", "done"}
  /\ in.pc = "idle" => in = InIdle
  /\ in.pc # "idle" => Scanned(in) /\ out.pc \in {"idle", "done"}

\* Where there is a NUL, there is a text.
LEMMA TextBegins ==
  ASSUME NEW from \in Nat, NEW e \in Nat, from <= e, e <= LastCell, mem[e] = Nul,
         IsMemory(mem)
  PROVE  TextEnd(from) \in Nat /\ TextAt(from, TextEnd(from))
<1>1. /\ strlen(mem, from) \in Nat /\ from + strlen(mem, from) <= e
      /\ mem[from + strlen(mem, from)] = Nul
      /\ \A k \in Nat : k < strlen(mem, from) => mem[from + k] # Nul
  BY StringEnds
<1>2. PICK l \in Nat : l = strlen(mem, from) /\ TextEnd(from) = from + l
  BY <1>1 DEF TextEnd
<1>3. mem[from + l] = Nul /\ from + l <= LastCell
  BY <1>1, <1>2, Memory
<1>4. ASSUME NEW j \in from .. from + l - 1 PROVE mem[j] # Nul
  <2>1. PICK k \in Nat : k = j - from /\ k < l /\ from + k = j
    OBVIOUS
  <2> QED
    BY <1>1, <1>2, <2>1
<1>5. ASSUME NEW j \in from .. from + l PROVE mem[j] \in Byte
  <2>1. j \in 0 .. LastCell
    BY <1>3, Memory
  <2> QED
    BY <2>1 DEF IsMemory
<1> QED
  BY <1>2, <1>3, <1>4, <1>5 DEF TextAt

\* The call begins at the first character.
LEMMA ScanBegins ==
  ASSUME in = InIdle, NEW from \in Nat, TextEnd(from) \in Nat, TextAt(from, TextEnd(from)),
         NEW format \in Seq(ScanItems), sscanf(from, format), mem' = mem
  PROVE  in'.pc = "items" /\ Scanned(in)'
<1>1. in' = [pc |-> "items", from |-> from, items |-> format, str |-> from + 1, n |-> 0, ret |-> 0,
             stored |-> <<>>, format |-> format, kept |-> in.kept]
  BY DEF sscanf, InIdle
<1>2. IsIn(in') /\ in'.pc = "items" /\ in'.from = from /\ in'.items = format
      /\ in'.str = from + 1 /\ in'.n = 0 /\ in'.format = format
      /\ in'.kept.at = 0 /\ in.kept.at = 0
  BY <1>1 DEF IsIn, InIdle, NoneKept
<1>3. TextEnd(from)' = TextEnd(from) /\ TextAt(from, TextEnd(from))'
  BY DEF TextEnd, TextAt
<1>5. ItemsLeft(in')
  <2>1. Len(format) \in Nat /\ Rest(format, 0) = format
    BY LenProperties, SubSeqFull DEF Rest
  <2> QED
    BY <1>2, <2>1 DEF ItemsLeft
<1>6. InText(from, TextEnd(from), from + 1)
  BY <1>2 DEF TextAt, InText
<1>7. InPlace(in)'
  <2>1. TextEnd(in.from)' = TextEnd(from)
    BY <1>2 DEF TextEnd
  <2> QED
    BY <1>2, <1>6, <2>1 DEF InPlace, InText
<1>8. (TextEnd(from) \in Nat)'
  BY <1>3
<1>9. in'.n \in 0 .. Len(in'.format)
  BY <1>2, LenProperties
<1> QED
  BY <1>2, <1>3, <1>5, <1>7, <1>8, <1>9 DEF Scanned

\* The item at the front of the format.
LEMMA ScanItemFacts ==
  ASSUME Scanned(in), in.pc = "items", in.items # <<>>
  PROVE  /\ ScanItem \in ScanItems
         /\ Harmless(in) => ScanItem.ch # 255
         /\ Harmless(in) /\ ScanItem.conv = "f" /\ in.from < TextEnd(in.from)
              => mem[TextEnd(in.from) - 1] \notin Exponents
         /\ \E k \in Nat : /\ k <= Len(in.format) /\ Tail(in.items) = Rest(in.format, k)
                          /\ in.n + 1 <= k
<1>1. in.format \in Seq(ScanItems) /\ Len(in.format) \in Nat
  BY LenProperties DEF Scanned
<1>2. PICK k \in Nat : k <= Len(in.format) /\ in.items = Rest(in.format, k) /\ in.n <= k
  BY DEF Scanned, ItemsLeft
<1>5. in.n \in Nat
  BY <1>1 DEF Scanned
<1>3. /\ k + 1 <= Len(in.format) /\ Head(in.items) = in.format[k + 1] /\ in.format[k + 1] \in ScanItems
      /\ Tail(in.items) = Rest(in.format, k + 1)
  BY <1>1, <1>2, RestHead
<1>4. k + 1 \in 1 .. Len(in.format)
  BY <1>1, <1>3
<1> QED
  BY <1>2, <1>3, <1>4, <1>5 DEF ScanItem, Harmless

\* An item that goes on: none is counted twice, and the pointer is still in the text.
LEMMA ScanGoesOn ==
  ASSUME Scanned(in), in.pc = "items", in.items # <<>>, mem' = mem,
         NEW str, NEW n \in Nat, n <= in.n + 1, NEW stored, NEW kept,
         in' = [in EXCEPT !.items = Tail(@), !.str = str, !.n = n, !.kept = kept,
                          !.stored = stored],
         Harmless(in) => InText(in.from, TextEnd(in.from), str) /\ kept = in.kept
  PROVE  in'.pc = "items" /\ Scanned(in)'
<1>1. in' = [pc |-> in.pc, from |-> in.from, items |-> Tail(in.items), str |-> str, n |-> n,
             ret |-> in.ret, stored |-> stored, format |-> in.format, kept |-> kept]
  BY DEF Scanned, IsIn
<1>2. /\ IsIn(in') /\ in'.pc = "items" /\ in'.from = in.from /\ in'.items = Tail(in.items)
      /\ in'.str = str /\ in'.n = n /\ in'.format = in.format /\ in'.kept = kept
  BY <1>1 DEF IsIn
<1>3. PICK k \in Nat : /\ k <= Len(in.format) /\ Tail(in.items) = Rest(in.format, k)
                       /\ in.n + 1 <= k
  BY ScanItemFacts
<1>4. /\ (TextEnd(in.from) \in Nat)' /\ TextAt(in.from, TextEnd(in.from))'
      /\ TextEnd(in.from)' = TextEnd(in.from)
  <2>1. TextEnd(in.from)' = TextEnd(in.from)
    BY <1>2 DEF TextEnd
  <2>2. TextEnd(in.from) \in Nat /\ TextAt(in.from, TextEnd(in.from))
    BY DEF Scanned
  <2> QED
    BY <1>2, <2>1, <2>2 DEF TextAt
<1>5. ItemsLeft(in') /\ in'.n \in 0 .. Len(in'.format)
  <2>1. in.n \in Nat /\ Len(in.format) \in Nat
    BY LenProperties DEF Scanned
  <2>2. n <= k
    BY <1>3, <2>1
  <2> QED
    BY <1>2, <1>3, <2>1, <2>2 DEF ItemsLeft
<1>6. Harmless(in)' => InPlace(in)'
  <2>1. Harmless(in)' => Harmless(in)
    BY <1>2, <1>4 DEF Harmless
  <2> QED
    BY <1>2, <1>4, <2>1 DEF InPlace, InText
<1>7. in'.from \in Nat /\ in'.format \in Seq(ScanItems)
  BY <1>2 DEF Scanned
<1> QED
  BY <1>2, <1>4, <1>5, <1>6, <1>7 DEF Scanned

LEMMA ScanAdvances ==
  ASSUME Scanned(in), in.pc = "items", in.items # <<>>, mem' = mem,
         NEW str, NEW got, NEW counts, Advance(str, got, counts),
         Harmless(in) => InText(in.from, TextEnd(in.from), str)
  PROVE  in'.pc = "items" /\ Scanned(in)'
<1>1. in.n \in Nat
  BY LenProperties DEF Scanned
<1>2. PICK n \in Nat : n = (IF counts /\ ~ScanItem.discard THEN in.n + 1 ELSE in.n)
  BY <1>1
<1>3. PICK stored : stored = IF ScanItem.discard THEN in.stored ELSE in.stored \o got
  OBVIOUS
<1>4. in' = [in EXCEPT !.items = Tail(@), !.str = str, !.n = n, !.kept = in.kept,
                       !.stored = stored]
  BY <1>2, <1>3 DEF Advance, Scanned, IsIn
<1>5. n <= in.n + 1
  BY <1>1, <1>2
<1> QED
  BY <1>4, <1>5, ScanGoesOn

\* Before the call returns, the pointer is one byte ahead of a place in the text.
LEMMA PlaceAhead ==
  ASSUME Scanned(in), in.pc # "done", Harmless(in)
  PROVE  /\ in.str \in Nat /\ TextAt(in.from, TextEnd(in.from))
         /\ InText(in.from, TextEnd(in.from), in.str)
BY DEF Scanned, InPlace, InText

\* The call ends: only pc, the result and the pointer change.
LEMMA ScanEnds ==
  ASSUME Scanned(in), mem' = mem, NEW pc \in {"end", "done"}, NEW ret, NEW str,
         in' = [in EXCEPT !.pc = pc, !.ret = ret, !.str = str],
         Harmless(in) =>
           \/ InText(in.from, TextEnd(in.from), str)
           \/ pc = "done" /\ str \in in.from .. TextEnd(in.from)
  PROVE  in'.pc = pc /\ Scanned(in)'
<1>1. in' = [pc |-> pc, from |-> in.from, items |-> in.items, str |-> str, n |-> in.n,
             ret |-> ret, stored |-> in.stored, format |-> in.format, kept |-> in.kept]
  BY DEF Scanned, IsIn
<1>2. /\ IsIn(in') /\ in'.pc = pc /\ in'.from = in.from /\ in'.str = str /\ in'.n = in.n
      /\ in'.format = in.format /\ in'.kept = in.kept
  BY <1>1 DEF IsIn
<1>3. /\ (TextEnd(in.from) \in Nat)' /\ TextAt(in.from, TextEnd(in.from))'
      /\ TextEnd(in.from)' = TextEnd(in.from)
  <2>1. TextEnd(in.from)' = TextEnd(in.from)
    BY <1>2 DEF TextEnd
  <2>2. TextEnd(in.from) \in Nat /\ TextAt(in.from, TextEnd(in.from))
    BY DEF Scanned
  <2> QED
    BY <1>2, <2>1, <2>2 DEF TextAt
<1>4. Harmless(in)' => InPlace(in)'
  <2>1. Harmless(in)' => Harmless(in)
    BY <1>2, <1>3 DEF Harmless
  <2> QED
    BY <1>2, <1>3, <2>1 DEF InPlace, InText
<1>5. in'.from \in Nat /\ in'.format \in Seq(ScanItems) /\ (in'.pc # "items")
      /\ (in.n \in 0 .. Len(in.format))'
  BY <1>2 DEF Scanned
<1> QED
  BY <1>2, <1>3, <1>4, <1>5 DEF Scanned

----------------------------------------------------------------------------
(* The steps of a call, one by one.                                        *)

LEMMA StopEnds ==
  ASSUME Scanned(in), in.pc = "items", mem' = mem, Stop
  PROVE  in'.pc = "end" /\ Scanned(in)'
<1>1. in' = [in EXCEPT !.pc = "end", !.ret = in.ret, !.str = in.str]
  BY DEF Stop, Scanned, IsIn
<1>2. Harmless(in) => InText(in.from, TextEnd(in.from), in.str)
  BY PlaceAhead
<1> QED
  BY <1>1, <1>2, ScanEnds

LEMMA WhiteSpaceScans ==
  ASSUME Scanned(in), WhiteSpace, mem' = mem
  PROVE  in'.pc = "items" /\ Scanned(in)'
<1>1. in.pc = "items" /\ in.items # <<>> /\ Advance(SkipBlanks(in.str), <<>>, FALSE)
  BY DEF WhiteSpace, ScanAt
<1>2. ASSUME Harmless(in)
      PROVE  InText(in.from, TextEnd(in.from), SkipBlanks(in.str))
  BY <1>1, <1>2, PlaceAhead, BlanksStop
<1> QED
  BY <1>1, <1>2, ScanAdvances

LEMMA MatchScans ==
  ASSUME Scanned(in), MatchCharacter, mem' = mem
  PROVE  in'.pc \in {"items", "end"} /\ Scanned(in)'
<1>1. in.pc = "items" /\ in.items # <<>>
  BY DEF MatchCharacter, ScanAt
<1>2. CASE Ahead(in.str) % 256 = ScanItem.ch
  <2>1. Advance(in.str + 1, <<>>, FALSE)
    BY <1>2 DEF MatchCharacter
  <2>2. ASSUME Harmless(in)
        PROVE  InText(in.from, TextEnd(in.from), in.str + 1)
    <3>1. ScanItem.ch # 255
      BY <1>1, <2>2, ScanItemFacts
    <3>2. (-1) % 256 = 255
      <4>1. \A m \in Int : m % 256 \in 0 .. 255 /\ m = 256 * (m \div 256) + (m % 256) /\ m \div 256 \in Int
        OBVIOUS
      <4>2. PICK m \in Int : m = -1
        OBVIOUS
      <4>3. PICK q \in Int, r \in 0 .. 255 : q = m \div 256 /\ r = m % 256 /\ m = 256 * q + r
        BY <4>1
      <4>4. r = 255
        BY <4>2, <4>3
      <4> QED
        BY <4>2, <4>3, <4>4
    <3>3. Ahead(in.str) # -1
      BY <1>2, <3>1, <3>2
    <3> QED
      BY <1>1, <2>2, <3>3, PlaceAhead, NextInText
  <2> QED
    BY <1>1, <2>1, <2>2, ScanAdvances
<1>3. CASE Ahead(in.str) % 256 # ScanItem.ch
  <2>1. Stop
    BY <1>3 DEF MatchCharacter
  <2> QED
    BY <1>1, <2>1, StopEnds
<1> QED
  BY <1>2, <1>3

LEMMA IntegerScans ==
  ASSUME Scanned(in), Integer, mem' = mem
  PROVE  in'.pc = "items" /\ Scanned(in)'
<1> DEFINE r == ScanInteger(ScanItem.conv, ScanItem.width, in.str)
           got == <<<<r.v % (IF ScanItem.qual = "h" THEN Short ELSE Word)>>>>
<1>1. in.pc = "items" /\ in.items # <<>> /\ Advance(r.str, got, r.str > in.str)
  BY DEF Integer, ScanAt
<1>3. ASSUME Harmless(in) PROVE InText(in.from, TextEnd(in.from), r.str)
  BY <1>1, <1>3, PlaceAhead, IntegerStops
<1> HIDE DEF r, got
<1> QED
  BY <1>1, <1>3, ScanAdvances

LEMMA FloatScans ==
  ASSUME Scanned(in), Float, mem' = mem
  PROVE  in'.pc = "items" /\ Scanned(in)'
<1> DEFINE r == ScanFloat(in.str)
<1>1. in.pc = "items" /\ in.items # <<>> /\ ScanItem.conv = "f"
  BY DEF Float, ScanAt
<1>2. PICK n \in Nat : n = in.n + 1
  BY LenProperties DEF Scanned
<1>3. PICK kept : kept = IF r.lost THEN [at |-> r.str, ch |-> Ahead(r.str - 1)] ELSE in.kept
  OBVIOUS
<1>4. PICK stored : stored = IF ScanItem.discard THEN in.stored ELSE Append(in.stored, r.text)
  OBVIOUS
<1>5. in' = [in EXCEPT !.items = Tail(@), !.str = r.str, !.n = n, !.kept = kept, !.stored = stored]
  BY <1>2, <1>3, <1>4 DEF Float
<1>6. ASSUME Harmless(in) PROVE InText(in.from, TextEnd(in.from), r.str) /\ kept = in.kept
  <2>1. /\ in.str \in Nat /\ TextAt(in.from, TextEnd(in.from))
        /\ InText(in.from, TextEnd(in.from), in.str)
    BY <1>1, <1>6, PlaceAhead
  <2>2. in.from < TextEnd(in.from) => mem[TextEnd(in.from) - 1] \notin Exponents
    BY <1>1, <1>6, ScanItemFacts
  <2>3. InText(in.from, TextEnd(in.from), r.str) /\ ~r.lost
    BY <2>1, <2>2, FloatStops
  <2> QED
    BY <1>3, <2>3
<1> HIDE DEF r
<1>7. n <= in.n + 1
  BY <1>2
<1> QED
  BY <1>1, <1>5, <1>6, <1>7, ScanGoesOn

\* The two kinds of spans.
LEMMA SpansStay ==
  ASSUME NEW from, NEW e, TextAt(from, e), NEW p \in Nat, InText(from, e, p), NEW width
  PROVE  InText(from, e, Span(p, width, FALSE)) /\ InText(from, e, Span(p, width, TRUE))
<1>1. \A b : \E q \in Nat : Span(p, width, b) = q /\ p <= q /\ InText(from, e, q)
  BY SpanStops
<1> QED
  BY <1>1, Zenon

LEMMA CharactersScan ==
  ASSUME Scanned(in), Characters, mem' = mem
  PROVE  in'.pc = "items" /\ Scanned(in)'
<1> DEFINE q == Span(in.str, IF ScanItem.width = NoWidth THEN 1 ELSE ScanItem.width, FALSE)
<1>1. in.pc = "items" /\ in.items # <<>> /\ Advance(q, <<Bytes(in.str, q)>>, TRUE)
  BY DEF Characters, ScanAt
<1>2. ASSUME Harmless(in) PROVE InText(in.from, TextEnd(in.from), q)
  <2>1. PICK w : w = IF ScanItem.width = NoWidth THEN 1 ELSE ScanItem.width
    OBVIOUS
  <2>2. /\ in.str \in Nat /\ TextAt(in.from, TextEnd(in.from))
        /\ InText(in.from, TextEnd(in.from), in.str)
    BY <1>1, <1>2, PlaceAhead
  <2>3. InText(in.from, TextEnd(in.from), Span(in.str, w, FALSE))
    BY <2>2, SpansStay
  <2> QED
    BY <2>1, <2>3
<1> HIDE DEF q
<1> QED
  BY <1>1, <1>2, ScanAdvances

LEMMA StringScans ==
  ASSUME Scanned(in), String, mem' = mem
  PROVE  in'.pc = "items" /\ Scanned(in)'
<1> DEFINE p == SkipBlanks(in.str)
           q == Span(p, ScanItem.width, TRUE)
<1>1. in.pc = "items" /\ in.items # <<>> /\ Advance(q, <<Bytes(p, q)>>, TRUE)
  BY DEF String, ScanAt
<1>2. ASSUME Harmless(in) PROVE InText(in.from, TextEnd(in.from), q)
  <2>1. p \in Nat /\ InText(in.from, TextEnd(in.from), p)
    BY <1>1, <1>2, PlaceAhead, BlanksStop
  <2> HIDE DEF p
  <2>2. TextAt(in.from, TextEnd(in.from))
    BY <1>1, <1>2, PlaceAhead
  <2> QED
    BY <2>1, <2>2, SpansStay
<1> HIDE DEF p, q
<1> QED
  BY <1>1, <1>2, ScanAdvances

LEMMA ConsumedScans ==
  ASSUME Scanned(in), Consumed, mem' = mem
  PROVE  in'.pc = "items" /\ Scanned(in)'
<1> DEFINE x == <<(in.str - in.from - 1) % 256>>
<1>1. in.pc = "items" /\ in.items # <<>> /\ Advance(in.str, <<x>>, FALSE)
  BY DEF Consumed, ScanAt
<1>2. Harmless(in) => InText(in.from, TextEnd(in.from), in.str)
  BY <1>1, PlaceAhead
<1> HIDE DEF x
<1> QED
  BY <1>1, <1>2, ScanAdvances

LEMMA FormatEndScans ==
  ASSUME Scanned(in), FormatEnds, mem' = mem
  PROVE  in'.pc = "done" /\ Scanned(in)'
<1>1. in.pc = "items" /\ in' = [in EXCEPT !.pc = "done", !.ret = 0, !.str = in.str]
  BY DEF FormatEnds, ScanAt, Scanned, IsIn
<1>2. Harmless(in) => InText(in.from, TextEnd(in.from), in.str)
  BY <1>1, PlaceAhead
<1>3. PICK ret : ret = 0
  OBVIOUS
<1>4. in' = [in EXCEPT !.pc = "done", !.ret = ret, !.str = in.str]
  BY <1>1, <1>3
<1> QED
  BY <1>2, <1>4, ScanEnds

\* The character read ahead is put back, unless nothing was read.
LEMMA ReturnScans ==
  ASSUME Scanned(in), Return, mem' = mem
  PROVE  in'.pc = "done" /\ Scanned(in)'
<1>1. in.pc # "done"
  BY DEF Return
<1>2. PICK ret, str : /\ in' = [in EXCEPT !.pc = "done", !.ret = ret, !.str = str]
                      /\ str = in.str \/ str = in.str - 1
  <2>1. CASE Ahead(in.str) = -1 /\ in.n = 0
    <3>1. in' = [in EXCEPT !.pc = "done", !.ret = EOF, !.str = in.str]
      BY <2>1 DEF Return, Scanned, IsIn
    <3> QED
      BY <3>1
  <2>2. CASE ~(Ahead(in.str) = -1 /\ in.n = 0)
    <3>1. in' = [in EXCEPT !.pc = "done", !.ret = in.n, !.str = in.str - 1]
      BY <2>2 DEF Return, Scanned, IsIn
    <3> QED
      BY <3>1
  <2> QED
    BY <2>1, <2>2
<1>3. ASSUME Harmless(in)
      PROVE  \/ InText(in.from, TextEnd(in.from), str)
             \/ "done" = "done" /\ str \in in.from .. TextEnd(in.from)
  <2>1. InText(in.from, TextEnd(in.from), in.str) /\ in.from \in Nat /\ TextEnd(in.from) \in Nat
    BY <1>1, <1>3, PlaceAhead DEF TextAt
  <2>2. str = in.str - 1 => str \in in.from .. TextEnd(in.from)
    BY <2>1 DEF InText
  <2> QED
    BY <1>2, <2>1, <2>2
<1> QED
  BY <1>2, <1>3, ScanEnds

\* A directive without width is an item of sscanf.
LEMMA NulIsByte == Nul \in 0 .. 255
BY DEF Nul

LEMMA IsScanItem ==
  ASSUME NEW C, NEW Q, NEW W, NEW B, NEW H,
         NEW conv \in C, NEW qual \in Q, NEW width \in W, NEW discard \in B, NEW ch \in H
  PROVE  [conv |-> conv, qual |-> qual, width |-> width, discard |-> discard, ch |-> ch]
         \in [conv : C, qual : Q, width : W, discard : B, ch : H]
OBVIOUS

LEMMA DirectiveItem ==
  ASSUME NEW conv \in Directives, NEW qual \in {"", "h", "l", "L", "Z"}
  PROVE  Read(conv, qual, NoWidth, FALSE) \in ScanItems
<1>1. PICK C, B, W : C = {"white", "match", "%"} \cup Directives /\ B = BOOLEAN /\ W = {NoWidth} \cup Nat
  BY Zenon
<1>2. conv \in C /\ FALSE \in B /\ NoWidth \in W
  BY <1>1, Zenon
<1>3. PICK no, w : no = FALSE /\ w = NoWidth
  BY Zenon
<1>4. no \in B /\ w \in W
  BY <1>2, <1>3, Zenon
<1>5. [conv |-> conv, qual |-> qual, width |-> w, discard |-> no, ch |-> Nul]
      \in [conv : C, qual : {"", "h", "l", "L", "Z"}, width : W, discard : B, ch : 0 .. 255]
  BY <1>2, <1>4, NulIsByte, IsScanItem, Zenon
<1>6. Read(conv, qual, NoWidth, FALSE)
      = [conv |-> conv, qual |-> qual, width |-> w, discard |-> no, ch |-> Nul]
  BY <1>3, Zenon DEF Read
<1> QED
  BY <1>1, <1>5, <1>6, Zenon DEF ScanItems

\* The directives of sscanf that read what a format wrote.
LEMMA ReadingItems ==
  ASSUME NEW format \in Seq(Items)
  PROVE  Reading(format) \in Seq(ScanItems)
<1>1. PICK l \in Nat : l = Len(format)
  BY LenProperties
<1> DEFINE item(k) ==
      CASE format[k].conv = "literal" -> IF isspace(format[k].ch) THEN White ELSE Match(format[k].ch)
        [] format[k].conv = "%" -> Match(37)
        [] OTHER -> Read(format[k].conv, format[k].qual, NoWidth, FALSE)
<1>2. ASSUME NEW k \in 1 .. l PROVE item(k) \in ScanItems
  <2>1. PICK f \in Items : f = format[k]
    BY <1>1, ElementOfSeq
  <2>2. f.ch \in 0 .. 255
    BY DEF Items, Character, Directive, Nul
  <2>3. White \in ScanItems
    BY DEF White, Read, ScanItems, Nul, NoWidth, Directives
  <2>4. \A c \in 0 .. 255 : Match(c) \in ScanItems
    BY DEF Match, Read, ScanItems, Nul, NoWidth, Directives
  <2>5. f.conv \notin {"literal", "%"} =>
          /\ f.conv \in {"c", "s", "p", "n", "o", "X", "x", "d", "i", "u", "unknown"}
          /\ f.qual \in {"", "h", "l", "L", "Z"}
    BY DEF Items, Character, Directive
  <2>6. f.conv \notin {"literal", "%"} => Read(f.conv, f.qual, NoWidth, FALSE) \in ScanItems
    <3>1. \A conv \in Directives, qual \in {"", "h", "l", "L", "Z"} :
            Read(conv, qual, NoWidth, FALSE) \in ScanItems
      BY DirectiveItem
    <3>2. f.conv \notin {"literal", "%"} => f.conv \in Directives
      BY <2>5 DEF Directives
    <3> QED
      BY <2>5, <3>1, <3>2
  <2>7. 37 \in 0 .. 255
    OBVIOUS
  <2>8. CASE f.conv = "literal"
    <3>1. item(k) = IF isspace(f.ch) THEN White ELSE Match(f.ch)
      BY <2>1, <2>8
    <3> QED
      BY <2>2, <2>3, <2>4, <3>1
  <2>9. CASE f.conv = "%"
    <3>1. item(k) = Match(37)
      BY <2>1, <2>9
    <3> QED
      BY <2>4, <2>7, <3>1
  <2>10. CASE f.conv \notin {"literal", "%"}
    <3>1. item(k) = Read(f.conv, f.qual, NoWidth, FALSE)
      BY <2>1, <2>10
    <3> QED
      BY <2>6, <2>10, <3>1
  <2> QED
    BY <2>8, <2>9, <2>10
<1>3. Reading(format) = [k \in 1 .. l |-> item(k)]
  BY <1>1, Zenon DEF Reading
<1> HIDE DEF item
<1> QED
  BY <1>1, <1>2, <1>3

\* Nothing changes that sscanf depends on.
LEMMA ScanRests ==
  ASSUME ScanInv, in' = in, mem' = mem \/ in.pc = "idle", out' = out \/ in.pc = "idle"
  PROVE  ScanInv'
<1>1. CASE in.pc = "idle"
  <2>1. in = InIdle
    BY <1>1 DEF ScanInv
  <2>2. in' = InIdle
    BY <2>1
  <2> QED
    BY <1>1, <2>2 DEF ScanInv
<1>2. CASE in.pc # "idle"
  <2>1. Scanned(in) /\ in' = in /\ mem' = mem /\ out' = out
    BY <1>2 DEF ScanInv
  <2>2. Scanned(in)'
    BY <2>1 DEF Scanned, IsIn, TextEnd, TextAt, ItemsLeft, Harmless, InPlace, InText
  <2> QED
    BY <1>2, <2>1, <2>2 DEF ScanInv
<1> QED
  BY <1>1, <1>2

\* sscanf on a prepared text.
LEMMA SscanfBegins ==
  ASSUME ScanInv, Sscanf
  PROVE  ScanInv'
<1>1. /\ mem \in Inputs /\ out.pc = "idle" /\ in.pc = "idle" /\ in = InIdle
      /\ mem' = mem /\ out' = out
  BY DEF Sscanf, Idle, Resting, ScanInv
<1>2. PICK format \in ScanFormats : sscanf(0, format)
  BY DEF Sscanf
<1>3. /\ mem \in [DOMAIN Scratch -> 0 .. 255] /\ format \in Seq(ScanItems)
      /\ \E e \in DOMAIN Scratch : mem[e] = Nul
  BY <1>1, ScanAssumption
<1>4. LastCell \in Nat /\ DOMAIN Scratch = 0 .. LastCell
  BY Memory
<1>5. IsMemory(mem)
  BY <1>3, <1>4 DEF IsMemory, Byte
<1>6. PICK e \in Nat : e <= LastCell /\ mem[e] = Nul
  BY <1>3, <1>4
<1>7. PICK from \in Nat : from = 0 /\ from <= e
  BY <1>6
<1>8. TextEnd(from) \in Nat /\ TextAt(from, TextEnd(from))
  BY <1>5, <1>6, <1>7, TextBegins
<1>9. sscanf(from, format)
  BY <1>2, <1>7
<1>10. in'.pc = "items" /\ Scanned(in)'
  BY <1>1, <1>3, <1>8, <1>9, ScanBegins
<1> QED
  BY <1>1, <1>10 DEF ScanInv

\* sscanf on what snprintf wrote: its text has a NUL in the buffer.
LEMMA ReadBackBegins ==
  ASSUME ScanInv, PrintInv, ReadBack
  PROVE  ScanInv'
<1>1. /\ out.pc = "done" /\ out.size > 0 /\ in.pc = "idle" /\ in = InIdle
      /\ mem' = mem /\ out' = out /\ sscanf(Buf, Reading(out.plan[1]))
  BY DEF ReadBack, ScanInv
<1>2. /\ out.size \in Sizes /\ out.plan \in Formats /\ mem \in [0 .. LastCell -> Byte]
      /\ out.text \in Seq(Byte) /\ Ended(mem, out.text, out.size)
  <2>1. Printed(out, mem)
    BY <1>1 DEF PrintInv
  <2>2. DOMAIN mem = DOMAIN Scratch
    BY <2>1, Memory DEF Printed
  <2>3. Unbroken(out.text)
    BY <2>2, TopCell DEF ReadBack, InMemory, Unbroken
  <2> QED
    BY <1>1, <2>1, <2>3 DEF Printed
<1>3. /\ EndOf(out.size) \in Int /\ out.size \in Nat /\ Buf <= EndOf(out.size) /\ EndOf(out.size) <= LastCell
  BY <1>1, <1>2, BufferEnd, Memory DEF EndOf
<1>4. Buf \in Nat /\ LastCell \in Nat
  BY Memory
<1>5. IsMemory(mem)
  BY <1>2 DEF IsMemory
<1>6. PICK n \in Int : n = IF Buf + Len(out.text) <= EndOf(out.size) THEN Len(out.text)
                            ELSE EndOf(out.size) - Buf
  BY <1>2, <1>3, <1>4, LenProperties
<1>7. mem[Buf + n] = Nul
  BY <1>1, <1>2, <1>6 DEF Ended
<1>8. PICK e \in Nat : Buf <= e /\ e <= LastCell /\ mem[e] = Nul
  <2>1. PICK t \in Nat : t = Len(out.text)
    BY <1>2, LenProperties
  <2>2. Buf + n \in Nat /\ Buf <= Buf + n /\ Buf + n <= LastCell
    BY <1>3, <1>4, <1>6, <2>1
  <2> QED
    BY <1>7, <2>2
<1>9. TextEnd(Buf) \in Nat /\ TextAt(Buf, TextEnd(Buf))
  BY <1>4, <1>5, <1>8, TextBegins
<1>10. Reading(out.plan[1]) \in Seq(ScanItems)
  <2>1. out.plan[1] \in Seq(Items)
    BY <1>2, FormatFacts
  <2> QED
    BY <2>1, ReadingItems
<1>11. in'.pc = "items" /\ Scanned(in)'
  BY <1>1, <1>4, <1>9, <1>10, ScanBegins
<1> QED
  BY <1>1, <1>11 DEF ScanInv

LEMMA ScanInvStep == ScanInv /\ PrintInv /\ [Next]_vars => ScanInv'
<1> SUFFICES ASSUME ScanInv, PrintInv, [Next]_vars PROVE ScanInv'
  OBVIOUS
<1>1. CASE CopyArea
  BY <1>1, ScanRests DEF CopyArea, Memcpy, Memmove, Writes, Others, Idle, Resting
<1>2. CASE SetArea
  BY <1>2, ScanRests DEF SetArea, Memset, Writes, Others, Idle, Resting
<1>3. CASE CopyString
  BY <1>3, ScanRests DEF CopyString, Strcpy, Strncpy, Strcat, Strncat, Writes, Others, Idle, Resting
<1>4. CASE Snprintf
  BY <1>4, ScanRests DEF Snprintf, Idle, Resting
<1>5. CASE Parse \/ Searching \/ Describe
  BY <1>5, ScanRests DEF Parse, Searching, Describe
<1>6. CASE Sscanf
  BY <1>6, SscanfBegins
<1>7. CASE ReadBack
  BY <1>7, ReadBackBegins
<1>8. CASE Printing
  <2>1. out.pc = "items"
    BY <1>8 DEF Printing, FormatStep, Put, Literal, CharConversion, StringConversion,
                PointerConversion, CountConversion, PercentConversion, NumberConversion,
                UnknownConversion, Terminate, At, Ready
  <2>2. in.pc = "idle"
    BY <2>1 DEF ScanInv
  <2> QED
    BY <1>8, <2>2, ScanRests DEF Printing
<1>9. CASE Scanning
  <2>1. ScanStep /\ mem' = mem /\ out' = out
    BY <1>9 DEF Scanning
  <2>2. in.pc # "idle"
    BY <2>1 DEF ScanStep, WhiteSpace, MatchCharacter, NothingLeft, Integer, Float, Characters,
                String, Consumed, Unknown, FormatEnds, Return, ScanAt
  <2>3. Scanned(in) /\ out.pc \in {"idle", "done"}
    BY <2>2 DEF ScanInv
  <2>4. (NothingLeft \/ Unknown) => in.pc = "items" /\ Stop
    BY DEF NothingLeft, Unknown, ScanAt
  <2>5. in'.pc \in {"items", "end", "done"} /\ Scanned(in)'
    BY <2>1, <2>3, <2>4, WhiteSpaceScans, MatchScans, IntegerScans, FloatScans, CharactersScan,
       StringScans, ConsumedScans, StopEnds, FormatEndScans, ReturnScans DEF ScanStep
  <2> QED
    BY <2>1, <2>3, <2>5 DEF ScanInv
<1>10. CASE UNCHANGED vars
  BY <1>10, ScanRests DEF vars
<1> QED
  BY <1>1, <1>2, <1>3, <1>4, <1>5, <1>6, <1>7, <1>8, <1>9, <1>10 DEF Next

LEMMA ScanInvariant == Spec => []ScanInv
<1>1. Init => ScanInv
  BY DEF Init, ScanInv, InIdle
<1> QED
  BY <1>1, ScanInvStep, PrintInvariant, PTL DEF Spec

\* sscanf reads no byte behind the NUL that ends its text, for any format without a
\* character 255 and any text; with a directive for floating point numbers, for any text
\* whose last character is no exponent letter.
THEOREM TextsBounded == Spec => []ReadsInText
<1>1. ScanInv => ReadsInText
  <2> SUFFICES ASSUME ScanInv, in.pc # "idle", Harmless(in)
               PROVE  in.str <= in.from + strlen(mem, in.from) + 1
    BY DEF ReadsInText, Harmless, TextEnd
  <2>1. /\ in.from \in Nat /\ TextEnd(in.from) \in Nat
        /\ in.str \in Int /\ in.str <= TextEnd(in.from) + 1
    BY DEF ScanInv, Scanned, InPlace, InText
  <2>2. TextEnd(in.from) = in.from + strlen(mem, in.from)
    BY DEF TextEnd
  <2> QED
    BY <2>1, <2>2
<1> QED
  BY <1>1, ScanInvariant, PTL

----------------------------------------------------------------------------
(* Types: the memory holds bytes, whoever writes it.                       *)

\* The memories to begin with.
LEMMA StartBytes ==
  ASSUME mem \in Blocks \cup Texts \cup CommandLines \cup {Scratch} \cup Inputs
  PROVE  IsMemory(mem)
<1>1. DOMAIN Scratch = 0 .. LastCell /\ Scratch \in [0 .. LastCell -> Byte]
  BY Memory
<1>2. /\ Blocks \subseteq [DOMAIN Scratch -> 0 .. 255] /\ Texts \subseteq [DOMAIN Scratch -> 0 .. 255]
      /\ CommandLines \subseteq [DOMAIN Scratch -> 0 .. 255]
      /\ Inputs \subseteq [DOMAIN Scratch -> 0 .. 255]
  BY LibraryAssumption, TextAssumption, CommandAssumption, ScanAssumption, Zenon
<1>3. mem \in [DOMAIN Scratch -> 0 .. 255]
  BY <1>1, <1>2 DEF Byte
<1> QED
  BY <1>1, <1>3 DEF IsMemory, Byte

\* An operation on an area leaves bytes.
LEMMA WantedBytes ==
  ASSUME NEW m, IsMemory(m), NEW d \in Nat, NEW s \in Nat, NEW n \in Nat, NEW fn,
         fn = "memset" => s \in Byte, fn # "memset" => s .. s + n - 1 \subseteq DOMAIN m
  PROVE  IsMemory(Wanted([fn |-> fn, d |-> d, s |-> s, n |-> n, old |-> m]))
<1>1. m \in [0 .. LastCell -> Byte] /\ LastCell \in Nat
  BY Memory DEF IsMemory
<1> DEFINE w(a) == IF a \notin Area(d, n) THEN m[a] ELSE IF fn = "memset" THEN s ELSE m[a - d + s]
<1>2. ASSUME NEW a \in 0 .. LastCell PROVE w(a) \in Byte
  <2>1. CASE a \notin Area(d, n)
    BY <1>1, <2>1
  <2>2. CASE a \in Area(d, n) /\ fn = "memset"
    BY <2>2
  <2>3. CASE a \in Area(d, n) /\ fn # "memset"
    <3>1. a - d + s \in s .. s + n - 1
      BY <1>1, <2>3 DEF Area
    <3>2. a - d + s \in 0 .. LastCell
      BY <1>1, <2>3, <3>1
    <3> QED
      BY <1>1, <2>3, <3>2
  <2> QED
    BY <2>1, <2>2, <2>3
<1>3. Wanted([fn |-> fn, d |-> d, s |-> s, n |-> n, old |-> m]) = [a \in 0 .. LastCell |-> w(a)]
  BY <1>1 DEF Wanted
<1> HIDE DEF w
<1> QED
  BY <1>2, <1>3 DEF IsMemory

LEMMA AreaBytes ==
  ASSUME CopyArea \/ SetArea
  PROVE  IsMemory(mem')
<1>1. mem \in Blocks
  BY DEF CopyArea, SetArea
<1>2. IsMemory(mem) /\ mem \in [DOMAIN Scratch -> 0 .. 255]
  BY <1>1, StartBytes, LibraryAssumption
<1>3. CASE CopyArea
  <2>1. PICK d \in Places, s \in Places, n \in Counts : Memcpy(d, s, n) \/ Memmove(d, s, n)
    BY <1>3 DEF CopyArea
  <2>2. /\ d \in Nat /\ s \in Nat /\ n \in Nat /\ s .. s + n - 1 \subseteq DOMAIN mem
    BY <1>1, AreasInMemory DEF Copyable
  <2>3. /\ mem' = Wanted(last')
        /\ \E fn \in {"memcpy", "memmove"} : last' = [fn |-> fn, d |-> d, s |-> s, n |-> n, old |-> mem]
    BY <1>1, <2>1, MemcpyWanted, MemmoveWanted DEF Memcpy, Memmove, Writes
  <2>4. PICK fn \in {"memcpy", "memmove"} : last' = [fn |-> fn, d |-> d, s |-> s, n |-> n, old |-> mem]
    BY <2>3
  <2>5. fn # "memset"
    OBVIOUS
  <2> QED
    BY <1>2, <2>2, <2>3, <2>4, <2>5, WantedBytes
<1>4. CASE SetArea
  <2>1. PICK d \in Places, n \in Counts : Memset(d, Blank, n)
    BY <1>4 DEF SetArea
  <2>2. d \in Nat /\ n \in Nat /\ Blank \in Nat /\ Blank \in Byte
    BY LibraryAssumption DEF Counts, Blank, Byte
  <2>3. mem' = Wanted(last') /\ last' = [fn |-> "memset", d |-> d, s |-> Blank, n |-> n, old |-> mem]
    BY <2>1, MemsetWanted DEF Memset, Writes
  <2>4. PICK fn : fn = "memset"
    OBVIOUS
  <2>5. IsMemory(Wanted([fn |-> fn, d |-> d, s |-> Blank, n |-> n, old |-> mem]))
    BY <1>2, <2>2, <2>4, WantedBytes
  <2> QED
    BY <2>3, <2>4, <2>5
<1> QED
  BY <1>3, <1>4

LEMMA StringBytes ==
  ASSUME CopyString
  PROVE  IsMemory(mem')
<1>1. mem \in Texts
  BY DEF CopyString
<1>2. PICK d \in Places, s \in Places, n \in Counts \cup LongCounts :
        Strcpy(d, s) \/ (n \in Counts /\ Strncpy(d, s, n)) \/ Strcat(d, s) \/ Strncat(d, s, n)
  <2>1. 0 \in Counts
    BY LibraryAssumption DEF Counts
  <2> QED
    BY <2>1 DEF CopyString
<1>3. d \in Nat /\ s \in Nat /\ n \in Nat /\ (n \in Counts => n <= MaxCount)
  BY LibraryAssumption, WordAssumption DEF Counts, LongCounts, HalfWord
<1>4. CASE Strcpy(d, s)
  BY <1>1, <1>3, <1>4, StrcpyJoins DEF Strcpy, Apart, Writes
<1>5. CASE n \in Counts /\ Strncpy(d, s, n)
  BY <1>1, <1>3, <1>5, StrncpyJoins DEF Strncpy, Apart, Writes
<1>6. CASE Strcat(d, s)
  BY <1>1, <1>3, <1>6, StrcatJoins DEF Strcat, Apart, Writes
<1>7. CASE Strncat(d, s, n)
  BY <1>1, <1>3, <1>7, StrncatJoins DEF Strncat, Apart, Writes
<1> QED
  BY <1>2, <1>4, <1>5, <1>6, <1>7

LEMMA BytesStep == IsMemory(mem) /\ PrintInv /\ [Next]_vars => IsMemory(mem')
<1> SUFFICES ASSUME IsMemory(mem), PrintInv, [Next]_vars PROVE IsMemory(mem')
  OBVIOUS
<1>1. CASE CopyArea \/ SetArea
  BY <1>1, AreaBytes
<1>2. CASE CopyString
  BY <1>2, StringBytes
<1>3. CASE Snprintf
  BY <1>3 DEF Snprintf, vsnprintf
<1>4. CASE Printing
  <2>1. FormatStep
    BY <1>4 DEF Printing
  <2>2. out.pc = "items"
    BY <2>1 DEF FormatStep, Put, Literal, CharConversion, StringConversion,
                PointerConversion, CountConversion, PercentConversion, NumberConversion,
                UnknownConversion, Terminate, At, Ready
  <2>3. Printed(out, mem)
    BY <2>2 DEF PrintInv
  <2>4. Printed(out', mem')
    BY <2>1, <2>2, <2>3, LiteralPrints, CharPrints, StringPrints, PointerPrints, CountPrints,
       PercentPrints, NumberPrints, UnknownPrints, TerminatePrints, PutPrints DEF FormatStep
  <2> QED
    BY <2>4 DEF Printed, IsMemory
<1>5. CASE Sscanf \/ ReadBack \/ Parse \/ Scanning \/ Searching \/ Describe \/ UNCHANGED vars
  BY <1>5 DEF Sscanf, ReadBack, Parse, Scanning, Searching, Describe, vars
<1> QED
  BY <1>1, <1>2, <1>3, <1>4, <1>5 DEF Next

\* The memory holds bytes throughout, and every call keeps its place: vsnprintf writes next
\* where the printed text's length says, round the end of the memory, and sscanf counts no more than there are directives.
THEOREM LibraryTypes == Spec => []TypeOK
<1>1. Init => IsMemory(mem)
  BY StartBytes DEF Init
<1>2. IsMemory(mem) /\ PrintInv /\ [Next]_vars => IsMemory(mem)'
  BY BytesStep
<1>3. IsMemory(mem) /\ PrintInv /\ ScanInv /\ QuietInv => TypeOK
  <2> SUFFICES ASSUME IsMemory(mem), PrintInv, ScanInv, QuietInv PROVE TypeOK
    OBVIOUS
  <2>1. mem \in [DOMAIN Scratch -> 0 .. 255]
    BY Memory DEF IsMemory, Byte
  <2>2. out.str = (Buf + Len(out.text)) % (Top + 1)
    <3>0. Top = LastCell
      BY <2>1, TopCell
    <3>1. CASE out.pc = "idle"
      <4>1. out.str = Buf /\ out.text = <<>> /\ Buf \in Nat
        BY <3>1, Memory DEF PrintInv, OutIdle
      <4>2. Len(out.text) = 0 /\ Behind(0) = Buf
        BY <4>1, EmptySeq, Memory, BehindNext
      <4> QED
        BY <3>0, <4>1, <4>2 DEF Behind
    <3>2. CASE out.pc # "idle"
      BY <3>0, <3>2 DEF PrintInv, Printed, Behind
    <3> QED
      BY <3>1, <3>2
  <2>3. in.n \in 0 .. Len(in.format)
    <3>1. CASE in.pc = "idle"
      <4>1. in.n = 0 /\ in.format = <<>>
        BY <3>1 DEF ScanInv, InIdle
      <4> QED
        BY <4>1, EmptySeq
    <3>2. CASE in.pc # "idle"
      BY <3>2 DEF ScanInv, Scanned
    <3> QED
      BY <3>1, <3>2
  <2> QED
    BY <2>1, <2>2, <2>3 DEF TypeOK, PrintInv, ScanInv, QuietInv
<1> QED
  BY <1>1, <1>2, <1>3, PrintInvariant, ScanInvariant, QuietInvariant, PTL DEF Spec

----------------------------------------------------------------------------
(* Comparing strings.                                                      *)

\* The same first k elements.
LEMMA SamePrefix ==
  ASSUME NEW S, NEW x \in Seq(S), NEW y \in Seq(S), NEW k \in Nat, k <= Len(x), k <= Len(y)
  PROVE  SubSeq(x, 1, k) = SubSeq(y, 1, k) <=> \A j \in 1 .. k : x[j] = y[j]
<1>1. PICK a \in Nat : a = Len(x) /\ k <= a
  BY LenProperties
<1>2. PICK b \in Nat : b = Len(y) /\ k <= b
  BY LenProperties
<1>3. \A i \in 1 .. k : x[i] \in S /\ y[i] \in S
  <2>1. \A i \in 1 .. k : i \in 1 .. Len(x) /\ i \in 1 .. Len(y)
    BY <1>1, <1>2
  <2> QED
    BY <2>1, ElementOfSeq
<1>4. /\ SubSeq(x, 1, k) \in Seq(S) /\ Len(SubSeq(x, 1, k)) = (IF 1 <= k THEN k - 1 + 1 ELSE 0)
      /\ \A i \in 1 .. k - 1 + 1 : SubSeq(x, 1, k)[i] = x[1 + i - 1]
  BY <1>3, SubSeqProperties
<1>5. /\ SubSeq(y, 1, k) \in Seq(S) /\ Len(SubSeq(y, 1, k)) = (IF 1 <= k THEN k - 1 + 1 ELSE 0)
      /\ \A i \in 1 .. k - 1 + 1 : SubSeq(y, 1, k)[i] = y[1 + i - 1]
  BY <1>3, SubSeqProperties
<1>6. \A i \in 1 .. k : i \in 1 .. k - 1 + 1 /\ 1 + i - 1 = i
  OBVIOUS
<1>7. Len(SubSeq(x, 1, k)) = k /\ \A i \in 1 .. k : SubSeq(x, 1, k)[i] = x[i]
  BY <1>4, <1>6
<1>8. Len(SubSeq(y, 1, k)) = k /\ \A i \in 1 .. k : SubSeq(y, 1, k)[i] = y[i]
  BY <1>5, <1>6
<1>9. ASSUME \A j \in 1 .. k : x[j] = y[j] PROVE SubSeq(x, 1, k) = SubSeq(y, 1, k)
  <2>1. \A i \in 1 .. Len(SubSeq(x, 1, k)) : SubSeq(x, 1, k)[i] = SubSeq(y, 1, k)[i]
    BY <1>7, <1>8, <1>9
  <2>2. Len(SubSeq(x, 1, k)) = Len(SubSeq(y, 1, k))
    BY <1>7, <1>8
  <2> QED
    BY <1>4, <1>5, <2>1, <2>2, SeqEqual
<1> QED
  BY <1>7, <1>8, <1>9

\* x and y have the same first k bytes, and the next one, if there is any, differs.
Differs(x, y, k) ==
  /\ k <= Len(x) /\ k <= Len(y) /\ \A j \in 1 .. k : x[j] = y[j]
  /\ k < Len(x) /\ k < Len(y) => x[k + 1] # y[k + 1]

\* What Order says then.
LEMMA OrderFound ==
  ASSUME NEW x \in Seq(Byte), NEW y \in Seq(Byte), NEW k \in Nat, Differs(x, y, k)
  PROVE  /\ k = Len(x) /\ k = Len(y) => Order(x, y) = 0
         /\ k = Len(x) /\ k < Len(y) => Order(x, y) = -1
         /\ k < Len(x) /\ k = Len(y) => Order(x, y) = 1
         /\ k < Len(x) /\ k < Len(y) => Order(x, y) = Sign(x[k + 1], y[k + 1])
<1>1. PICK a \in Nat : a = Len(x) /\ k <= a
  BY LenProperties DEF Differs
<1>2. PICK b \in Nat : b = Len(y) /\ k <= b
  BY LenProperties DEF Differs
<1>3. \A j \in 1 .. k : x[j] = y[j]
  BY DEF Differs
<1>4. /\ \A i \in 1 .. a : x[i] \in Nat
      /\ \A i \in 1 .. b : y[i] \in Nat
  <2>1. \A c \in Byte : c \in Nat
    BY DEF Byte
  <2> QED
    BY <1>1, <1>2, <2>1, ElementOfSeq
<1>5. x = y <=> k = a /\ k = b
  <2>1. ASSUME x = y PROVE k = a /\ k = b
    <3>1. a = b
      BY <1>1, <1>2, <2>1
    <3>2. k < a => x[k + 1] # x[k + 1]
      BY <1>1, <1>2, <2>1, <3>1 DEF Differs
    <3> QED
      BY <1>1, <3>1, <3>2
  <2>2. ASSUME k = a, k = b PROVE x = y
    BY <1>1, <1>2, <1>3, <2>2, SeqEqual
  <2> QED
    BY <2>1, <2>2
<1>6. Precedes(x, y) <=> k < b /\ (k = a \/ x[k + 1] < y[k + 1])
  <2>1. ASSUME k < b, k = a \/ x[k + 1] < y[k + 1] PROVE Precedes(x, y)
    <3>1. SubSeq(x, 1, k) = SubSeq(y, 1, k)
      BY <1>1, <1>2, <1>3, SamePrefix
    <3>2. k \in 0 .. Len(x)
      BY <1>1
    <3> QED
      BY <1>1, <1>2, <2>1, <3>1, <3>2, Zenon DEF Precedes
  <2>2. ASSUME Precedes(x, y) PROVE k < b /\ (k = a \/ x[k + 1] < y[k + 1])
    <3>1. PICK h \in 0 .. Len(x) : /\ h < Len(y) /\ SubSeq(x, 1, h) = SubSeq(y, 1, h)
                                   /\ h = Len(x) \/ x[h + 1] < y[h + 1]
      BY <2>2, Zenon DEF Precedes
    <3>2. h \in Nat /\ h <= a /\ h < b /\ (h = a \/ x[h + 1] < y[h + 1])
      BY <1>1, <1>2, <3>1
    <3>3. \A j \in 1 .. h : x[j] = y[j]
      BY <1>1, <1>2, <3>1, <3>2, SamePrefix
    <3>4. ~(h < k)
      <4> SUFFICES ASSUME h < k PROVE FALSE
        OBVIOUS
      <4>1. h + 1 \in 1 .. k /\ h # a /\ h + 1 \in 1 .. a
        BY <1>1, <3>2
      <4>2. x[h + 1] = y[h + 1] /\ x[h + 1] < y[h + 1] /\ x[h + 1] \in Nat
        BY <1>3, <1>4, <3>2, <4>1
      <4> QED
        BY <4>2
    <3>5. ~(k < h)
      <4> SUFFICES ASSUME k < h PROVE FALSE
        OBVIOUS
      <4>1. k + 1 \in 1 .. h /\ k < a /\ k < b
        BY <3>2
      <4>2. x[k + 1] = y[k + 1]
        BY <3>3, <4>1
      <4>3. x[k + 1] # y[k + 1]
        BY <1>1, <1>2, <4>1 DEF Differs
      <4> QED
        BY <4>2, <4>3
    <3>6. h = k
      BY <3>2, <3>4, <3>5
    <3> QED
      BY <3>2, <3>6
  <2> QED
    BY <2>1, <2>2
<1>7. k < a /\ k < b => x[k + 1] # y[k + 1] /\ x[k + 1] \in Nat /\ y[k + 1] \in Nat
  BY <1>1, <1>2, <1>4 DEF Differs
<1>8. Order(x, y) = IF x = y THEN 0 ELSE IF Precedes(x, y) THEN -1 ELSE 1
  BY Zenon DEF Order
<1>9. k < a /\ k < b => Sign(x[k + 1], y[k + 1]) = IF x[k + 1] < y[k + 1] THEN -1 ELSE 1
  BY <1>7 DEF Sign
<1> QED
  BY <1>1, <1>2, <1>5, <1>6, <1>8, <1>9

\* A string of l bytes at s.
IsString(m, s, l) ==
  /\ strlen(m, s) = l /\ m[s + l] = Nul
  /\ \A k \in 0 .. l - 1 : m[s + k] # Nul
  /\ \A k \in 0 .. l : m[s + k] \in Byte

\* What the texts have at their places: a string, and bytes behind it.
LEMMA PlaceString ==
  ASSUME NEW m \in Texts, NEW s \in Places
  PROVE  /\ s \in Nat /\ strlen(m, s) \in Nat /\ IsString(m, s, strlen(m, s))
         /\ MaxCount \in Nat /\ \A k \in 0 .. MaxCount - 1 : m[s + k] \in Byte
<1>1. /\ s \in Nat /\ strlen(m, s) \in Nat /\ LastCell \in Nat /\ MaxCount \in Nat
      /\ Holds(m, s, strlen(m, s), LastCell) /\ s + MaxCount <= LastCell + 1
  BY TextsHold
<1>2. PICK l \in Nat : l = strlen(m, s)
  BY <1>1
<1>3. s + l <= LastCell /\ m[s + l] = Nul
  BY <1>1, <1>2 DEF Holds
<1>4. m \in [0 .. LastCell -> Byte]
  <2>1. m \in [DOMAIN Scratch -> 0 .. 255]
    BY TextAssumption
  <2> QED
    BY <2>1, Memory DEF Byte
<1>5. \A k \in Nat : k < l => m[s + k] # Nul
  <2>1. s + l \in Nat /\ s <= s + l
    BY <1>1
  <2> QED
    BY <1>1, <1>2, <1>3, <2>1, StringEnds
<1>6. \A k \in 0 .. l : m[s + k] \in Byte
  <2>1. \A k \in 0 .. l : s + k \in 0 .. LastCell
    BY <1>1, <1>3
  <2> QED
    BY <1>4, <2>1
<1>7. \A k \in 0 .. MaxCount - 1 : m[s + k] \in Byte
  <2>1. \A k \in 0 .. MaxCount - 1 : s + k \in 0 .. LastCell
    BY <1>1
  <2> QED
    BY <1>4, <2>1
<1>8. \A k \in 0 .. l - 1 : m[s + k] # Nul
  BY <1>5
<1> QED
  BY <1>1, <1>2, <1>3, <1>6, <1>7, <1>8 DEF IsString

\* x is the c bytes at s, and they are bytes.
AreBytes(m, s, c) == \A k \in 0 .. c - 1 : m[s + k] \in Byte
IsBytes(m, s, c, x) == x \in Seq(Byte) /\ Len(x) = c /\ \A k \in 0 .. c - 1 : x[k + 1] = m[s + k]

LEMMA TextOfBytes ==
  ASSUME NEW m, NEW s \in Nat, NEW c \in Nat, NEW x, IsText(m, s, c, x), AreBytes(m, s, c)
  PROVE  IsBytes(m, s, c, x)
<1>1. Len(x) = c /\ \A i \in 1 .. c : x[i] = m[s + i - 1]
  BY DEF IsText
<1>2. PICK S : x \in Seq(S)
  BY DEF IsText
<1>3. ASSUME NEW k \in 0 .. c - 1 PROVE x[k + 1] = m[s + k]
  <2>1. k + 1 \in 1 .. c /\ s + (k + 1) - 1 = s + k
    OBVIOUS
  <2>2. x[k + 1] = m[s + (k + 1) - 1]
    BY <1>1, <2>1
  <2> QED
    BY <2>1, <2>2
<1>4. ASSUME NEW i \in 1 .. Len(x) PROVE x[i] \in Byte
  <2>1. PICK k \in 0 .. c - 1 : i = k + 1
    BY <1>1
  <2> QED
    BY <1>3, <2>1 DEF AreBytes
<1>5. x \in Seq(Byte)
  BY <1>2, <1>4
<1> QED
  BY <1>1, <1>3, <1>5 DEF IsBytes

\* strncmp gives the order of the strings as far as the count goes; a count below zero
\* never runs out.
LEMMA StrncmpOrders ==
  ASSUME NEW m, NEW s \in Nat, NEW t \in Nat, NEW l \in Nat, NEW h \in Nat,
         IsString(m, s, l), IsString(m, t, h), NEW n, NEW r \in Int, r = Rounds(n), NEW a \in Nat, NEW b \in Nat,
         r < 0 => a = l /\ b = h, r >= 0 => a = Least(r, l) /\ b = Least(r, h),
         NEW x, NEW y, IsText(m, s, a, x), IsText(m, t, b, y)
  PROVE  strncmp(m, s, t, n) = Order(x, y)
<1>1. /\ m[s + l] = Nul /\ m[t + h] = Nul
      /\ \A k \in 0 .. l - 1 : m[s + k] # Nul
      /\ \A k \in 0 .. h - 1 : m[t + k] # Nul
      /\ \A k \in 0 .. l : m[s + k] \in Byte
      /\ \A k \in 0 .. h : m[t + k] \in Byte
  BY DEF IsString
<1>2. a <= l /\ b <= h /\ (r >= 0 => a <= r /\ b <= r) /\ (a = r \/ a = l) /\ (b = r \/ b = h)
  BY DEF Least
<1>3. /\ x \in Seq(Byte) /\ Len(x) = a /\ \A k \in 0 .. a - 1 : x[k + 1] = m[s + k]
  <2>1. AreBytes(m, s, a)
    BY <1>1, <1>2 DEF AreBytes
  <2>2. IsBytes(m, s, a, x)
    BY <2>1, TextOfBytes
  <2> QED
    BY <2>2 DEF IsBytes
<1>4. /\ y \in Seq(Byte) /\ Len(y) = b /\ \A k \in 0 .. b - 1 : y[k + 1] = m[t + k]
  <2>1. AreBytes(m, t, b)
    BY <1>1, <1>2 DEF AreBytes
  <2>2. IsBytes(m, t, b, y)
    BY <2>1, TextOfBytes
  <2> QED
    BY <2>2 DEF IsBytes
<1>5. PICK k \in 0 .. l : Compared(m, s, t, n, k)
  BY <1>1, StrncmpFinds
<1>6. /\ strncmp(m, s, t, n) = IF k = r THEN 0 ELSE Sign(m[s + k], m[t + k])
      /\ k = r \/ m[s + k] # m[t + k] \/ m[s + k] = Nul
      /\ \A j \in 0 .. k - 1 : j # r /\ m[s + j] = m[t + j] /\ m[s + j] # Nul
  BY <1>5 DEF Compared
<1>7. k \in Nat /\ k <= a /\ k <= b
  <2>1. k <= h
    <3> SUFFICES ASSUME h < k PROVE FALSE
      OBVIOUS
    <3>1. h \in 0 .. k - 1
      OBVIOUS
    <3> QED
      BY <1>1, <1>6, <3>1
  <2>2. r >= 0 => k <= r
    <3> SUFFICES ASSUME r >= 0, r < k PROVE FALSE
      OBVIOUS
    <3>1. r \in 0 .. k - 1
      OBVIOUS
    <3> QED
      BY <1>6, <3>1
  <2> QED
    BY <1>2, <2>1, <2>2
<1>8. k < a => x[k + 1] = m[s + k] /\ m[s + k] # Nul /\ k < l
  BY <1>1, <1>2, <1>3, <1>7
<1>9. k < b => y[k + 1] = m[t + k] /\ m[t + k] # Nul /\ k < h
  BY <1>1, <1>2, <1>4, <1>7
<1>10. k < a \/ k < b => k # r
  BY <1>2, <1>7
<1>11. Differs(x, y, k)
  <2>1. ASSUME NEW j \in 1 .. k PROVE x[j] = y[j]
    <3>1. PICK i \in 0 .. k - 1 : j = i + 1
      OBVIOUS
    <3>2. i \in 0 .. a - 1 /\ i \in 0 .. b - 1
      BY <1>7
    <3>3. x[i + 1] = m[s + i] /\ y[i + 1] = m[t + i]
      BY <1>3, <1>4, <3>2
    <3> QED
      BY <1>6, <3>1, <3>3
  <2>2. k < a /\ k < b => x[k + 1] # y[k + 1]
    BY <1>6, <1>8, <1>9, <1>10
  <2> QED
    BY <1>3, <1>4, <1>7, <2>1, <2>2 DEF Differs
<1>12. /\ k = a /\ k = b => Order(x, y) = 0
       /\ k = a /\ k < b => Order(x, y) = -1
       /\ k < a /\ k = b => Order(x, y) = 1
       /\ k < a /\ k < b => Order(x, y) = Sign(x[k + 1], y[k + 1])
  BY <1>3, <1>4, <1>7, <1>11, OrderFound
<1>13. \A c \in Byte : c # Nul => Sign(Nul, c) = -1 /\ Sign(c, Nul) = 1
  BY DEF Sign, Nul, Byte
<1>14. CASE k = a /\ k = b
  <2>1. CASE k = r
    BY <1>6, <1>12, <1>14, <2>1
  <2>2. CASE k # r
    <3>1. k = l /\ k = h
      BY <1>2, <1>14, <2>2
    <3>2. m[s + k] = Nul /\ m[t + k] = Nul
      BY <1>1, <3>1
    <3>3. Sign(Nul, Nul) = 0
      BY DEF Sign, Nul
    <3> QED
      BY <1>6, <1>12, <1>14, <2>2, <3>2, <3>3
  <2> QED
    BY <2>1, <2>2
<1>15. CASE k = a /\ k < b
  <2>1. k # r /\ k = l
    BY <1>2, <1>10, <1>15
  <2>2. m[s + k] = Nul /\ m[t + k] \in Byte /\ m[t + k] # Nul
    BY <1>1, <1>7, <1>9, <1>15, <2>1
  <2> QED
    BY <1>6, <1>12, <1>13, <1>15, <2>1, <2>2
<1>16. CASE k < a /\ k = b
  <2>1. k # r /\ k = h
    BY <1>2, <1>10, <1>16
  <2>2. m[t + k] = Nul /\ m[s + k] \in Byte /\ m[s + k] # Nul
    BY <1>1, <1>7, <1>8, <1>16, <2>1
  <2> QED
    BY <1>6, <1>12, <1>13, <1>16, <2>1, <2>2
<1>17. CASE k < a /\ k < b
  BY <1>6, <1>8, <1>9, <1>10, <1>12, <1>17
<1> QED
  BY <1>7, <1>14, <1>15, <1>16, <1>17

\* strcmp is strncmp with a count that never runs out.
LEMMA StrcmpIsStrncmp ==
  ASSUME NEW m, NEW s, NEW t, NEW n \in Int, n < 0
  PROVE  strcmp(m, s, t) = strncmp(m, s, t, n)
<1> DEFINE is1(f) == f = [k \in Nat |-> IF m[s + k] # m[t + k] \/ m[s + k] = Nul
                          THEN Sign(m[s + k], m[t + k]) ELSE f[k + 1]]
           is2(f) == f = [k \in Nat |-> IF k = Rounds(n) THEN 0
                       ELSE IF m[s + k] # m[t + k] \/ m[s + k] = Nul
                       THEN Sign(m[s + k], m[t + k]) ELSE f[k + 1]]
           at1 == CHOOSE f : is1(f)
           at2 == CHOOSE f : is2(f)
<1>1. ASSUME NEW f PROVE is1(f) <=> is2(f)
  <2>1. \A k \in Nat : k # Rounds(n)
    BY WordAssumption DEF Rounds, HalfWord
  <2> QED
    BY <2>1
<1>2. \A f : is1(f) <=> is2(f)
  <2> HIDE DEF is1, is2
  <2> QED
    BY <1>1
<1>3. at1 = at2
  <2> HIDE DEF is1, is2
  <2> QED
    BY <1>2, Zenon
<1>4. strcmp(m, s, t) = at1[0]
  BY Zenon DEF strcmp
<1>5. strncmp(m, s, t, n) = at2[0]
  BY Zenon DEF strncmp
<1> HIDE DEF at1, at2
<1> QED
  BY <1>3, <1>4, <1>5

\* Where memcmp stops: at the count or at a difference.
MemDiffers(m, s, t, n, k) ==
  /\ memcmp(m, s, t, n) = IF k = n THEN 0 ELSE Sign(m[s + k], m[t + k])
  /\ k \in 0 .. n /\ (k = n \/ m[s + k] # m[t + k])
  /\ \A j \in 0 .. k - 1 : m[s + j] = m[t + j]

LEMMA MemcmpFinds ==
  ASSUME NEW m, NEW s, NEW t, NEW n \in Nat
  PROVE  \E k \in Nat : MemDiffers(m, s, t, n, k)
<1> DEFINE D == 0 .. n
           Halt == {k \in Nat : k = n \/ m[s + k] # m[t + k]}
           g == [k \in Nat |-> IF k = n THEN 0 ELSE Sign(m[s + k], m[t + k])]
           is(f) == f = [k \in 0 .. n |-> IF k = n THEN 0
                          ELSE IF m[s + k] # m[t + k] THEN Sign(m[s + k], m[t + k])
                          ELSE f[k + 1]]
           at == CHOOSE f : is(f)
<1>1. \A f : Finds(f, D, Halt, g) <=> is(f)
  <2>1. ASSUME NEW f
        PROVE  [k \in D |-> IF k \in Halt THEN g[k] ELSE f[k + 1]]
               = [k \in 0 .. n |-> IF k = n THEN 0
                          ELSE IF m[s + k] # m[t + k] THEN Sign(m[s + k], m[t + k])
                          ELSE f[k + 1]]
    OBVIOUS
  <2> HIDE DEF Halt, g, D
  <2> QED
    BY <2>1, Zenon DEF Finds
<1>2. D \subseteq Nat /\ (\A k \in D : k \notin Halt => k + 1 \in D) /\ n \in Halt
  OBVIOUS
<1>3. Finds(at, D, Halt, g)
  <2>1. \E f : Finds(f, D, Halt, g)
    <3> HIDE DEF Halt, g, D
    <3> QED
      BY <1>2, FindsExists
  <2> HIDE DEF Halt, g, D, is
  <2>2. \E f : is(f)
    BY <1>1, <2>1, Zenon
  <2>3. is(at)
    BY <2>2, Zenon
  <2> QED
    BY <1>1, <2>3, Zenon
<1>4. memcmp(m, s, t, n) = at[0]
  BY Zenon DEF memcmp
<1> HIDE DEF at
<1>5. PICK z \in D : z = 0 /\ z \in Nat /\ z <= n
  OBVIOUS
<1>6. StopsAt(at[z], Halt, g, z, n)
  <2> HIDE DEF Halt, g, D
  <2> QED
    BY <1>2, <1>3, <1>5, FindsFirst
<1>7. PICK k \in z .. n : at[z] = g[k] /\ k \in Halt /\ \A j \in z .. k - 1 : j \notin Halt
  BY <1>6 DEF StopsAt
<1>8. k \in 0 .. n /\ memcmp(m, s, t, n) = g[k]
  BY <1>4, <1>5, <1>7
<1>9. \A j \in 0 .. k - 1 : m[s + j] = m[t + j]
  BY <1>5, <1>7
<1>10. (k = n \/ m[s + k] # m[t + k]) /\ k \in Nat /\ g[k] = IF k = n THEN 0 ELSE Sign(m[s + k], m[t + k])
  BY <1>7, <1>8
<1> QED
  BY <1>8, <1>9, <1>10 DEF MemDiffers

\* memcmp gives the order of two areas of n bytes.
AreasOrdered(m, s, t, n) ==
  memcmp(m, s, t, n) = Order([k \in 1 .. n |-> m[s + k - 1]], [k \in 1 .. n |-> m[t + k - 1]])

LEMMA MemcmpOrders ==
  ASSUME NEW m, NEW s \in Nat, NEW t \in Nat, NEW n \in Nat, AreBytes(m, s, n), AreBytes(m, t, n)
  PROVE  AreasOrdered(m, s, t, n)
<1> DEFINE B(a) == [k \in 1 .. n |-> m[a + k - 1]]
<1>1. ASSUME NEW a \in Nat, AreBytes(m, a, n)
      PROVE  B(a) \in Seq(Byte) /\ Len(B(a)) = n /\ \A k \in 1 .. n : B(a)[k] = m[a + k - 1]
  <2>1. ASSUME NEW k \in 1 .. n PROVE m[a + k - 1] \in Byte
    <3>1. PICK i \in 0 .. n - 1 : i = k - 1 /\ a + i = a + k - 1
      OBVIOUS
    <3> QED
      BY <1>1, <3>1 DEF AreBytes
  <2>2. B(a) \in [1 .. n -> Byte]
    BY <2>1
  <2>3. B(a) \in Seq(Byte) /\ DOMAIN B(a) = 1 .. n
    BY <2>2, IsASeq
  <2>4. Len(B(a)) = n
    BY <2>3, LenProperties
  <2> QED
    BY <2>3, <2>4
<1>2. PICK x : x = B(s) /\ x \in Seq(Byte) /\ Len(x) = n /\ \A k \in 1 .. n : x[k] = m[s + k - 1]
  BY <1>1
<1>3. PICK y : y = B(t) /\ y \in Seq(Byte) /\ Len(y) = n /\ \A k \in 1 .. n : y[k] = m[t + k - 1]
  BY <1>1
<1> HIDE DEF B
<1>4. PICK k \in Nat : MemDiffers(m, s, t, n, k)
  BY MemcmpFinds
<1>5. /\ memcmp(m, s, t, n) = IF k = n THEN 0 ELSE Sign(m[s + k], m[t + k])
      /\ k \in 0 .. n /\ (k = n \/ m[s + k] # m[t + k])
      /\ \A j \in 0 .. k - 1 : m[s + j] = m[t + j]
  BY <1>4 DEF MemDiffers
<1>6. k < n => x[k + 1] = m[s + k] /\ y[k + 1] = m[t + k]
  <2> SUFFICES ASSUME k < n PROVE x[k + 1] = m[s + k] /\ y[k + 1] = m[t + k]
    OBVIOUS
  <2>1. k + 1 \in 1 .. n /\ s + (k + 1) - 1 = s + k /\ t + (k + 1) - 1 = t + k
    OBVIOUS
  <2>2. x[k + 1] = m[s + (k + 1) - 1] /\ y[k + 1] = m[t + (k + 1) - 1]
    BY <1>2, <1>3, <2>1
  <2> QED
    BY <2>1, <2>2
<1>7. Differs(x, y, k)
  <2>1. ASSUME NEW j \in 1 .. k PROVE x[j] = y[j]
    <3>1. PICK i \in 0 .. k - 1 : j = i + 1
      OBVIOUS
    <3>2. j \in 1 .. n /\ s + j - 1 = s + i /\ t + j - 1 = t + i
      BY <1>5, <3>1
    <3>3. x[j] = m[s + j - 1] /\ y[j] = m[t + j - 1]
      BY <1>2, <1>3, <3>2
    <3> QED
      BY <1>5, <3>1, <3>2, <3>3
  <2> QED
    BY <1>2, <1>3, <1>5, <1>6, <2>1 DEF Differs
<1>8. /\ k = n => Order(x, y) = 0
      /\ k < n => Order(x, y) = Sign(x[k + 1], y[k + 1])
  BY <1>2, <1>3, <1>7, OrderFound
<1>9. memcmp(m, s, t, n) = Order(x, y)
  BY <1>5, <1>6, <1>8
<1> QED
  BY <1>2, <1>3, <1>9 DEF B, AreasOrdered

\* Where memscan stops: at the count or at the byte.
ScanStops(m, s, c, n, k) ==
  /\ memscan(m, s, c, n) = s + k /\ k \in 0 .. n /\ (k = n \/ m[s + k] = c)
  /\ \A j \in 0 .. k - 1 : m[s + j] # c

LEMMA MemscanFinds ==
  ASSUME NEW m, NEW s \in Nat, NEW c, NEW n \in Nat
  PROVE  \E k \in Nat : ScanStops(m, s, c, n, k)
<1> DEFINE D == 0 .. n
           Halt == {k \in Nat : k = n \/ m[s + k] = c}
           g == [k \in Nat |-> s + k]
           is(f) == f = [k \in 0 .. n |-> IF k = n \/ m[s + k] = c THEN s + k ELSE f[k + 1]]
           at == CHOOSE f : is(f)
<1>1. \A f : Finds(f, D, Halt, g) <=> is(f)
  <2>1. ASSUME NEW f
        PROVE  [k \in D |-> IF k \in Halt THEN g[k] ELSE f[k + 1]]
               = [k \in 0 .. n |-> IF k = n \/ m[s + k] = c THEN s + k ELSE f[k + 1]]
    OBVIOUS
  <2> HIDE DEF Halt, g, D
  <2> QED
    BY <2>1, Zenon DEF Finds
<1>2. D \subseteq Nat /\ (\A k \in D : k \notin Halt => k + 1 \in D) /\ n \in Halt
  OBVIOUS
<1>3. Finds(at, D, Halt, g)
  <2>1. \E f : Finds(f, D, Halt, g)
    <3> HIDE DEF Halt, g, D
    <3> QED
      BY <1>2, FindsExists
  <2> HIDE DEF Halt, g, D, is
  <2>2. \E f : is(f)
    BY <1>1, <2>1, Zenon
  <2>3. is(at)
    BY <2>2, Zenon
  <2> QED
    BY <1>1, <2>3, Zenon
<1>4. memscan(m, s, c, n) = at[0]
  BY Zenon DEF memscan
<1> HIDE DEF at
<1>5. PICK z \in D : z = 0 /\ z \in Nat /\ z <= n
  OBVIOUS
<1>6. StopsAt(at[z], Halt, g, z, n)
  <2> HIDE DEF Halt, g, D
  <2> QED
    BY <1>2, <1>3, <1>5, FindsFirst
<1>7. PICK k \in z .. n : at[z] = g[k] /\ k \in Halt /\ \A j \in z .. k - 1 : j \notin Halt
  BY <1>6 DEF StopsAt
<1>8. k \in 0 .. n /\ k \in Nat /\ memscan(m, s, c, n) = s + k
  BY <1>4, <1>5, <1>7
<1>9. k = n \/ m[s + k] = c
  BY <1>7
<1>10. \A j \in 0 .. k - 1 : m[s + j] # c
  <2>1. \A j \in 0 .. k - 1 : j \in z .. k - 1 /\ j \in Nat
    BY <1>5, <1>8
  <2> QED
    BY <1>7, <2>1
<1> QED
  BY <1>8, <1>9, <1>10 DEF ScanStops

\* memscan and memchr find the first place of a byte.
ByteFound(m, s, c, n) ==
  /\ IsFirst(memscan(m, s, c, n), {p \in Area(s, n) : m[p] = c} \cup {s + n})
  /\ IsFirst(memchr(m, s, c, n), {p \in Area(s, n) : m[p] = c})

LEMMA MemscanFirst ==
  ASSUME NEW m, NEW s \in Nat, NEW c, NEW n \in Nat
  PROVE  ByteFound(m, s, c, n)
<1> DEFINE S == {p \in Area(s, n) : m[p] = c}
<1>0. PICK k \in Nat : ScanStops(m, s, c, n, k)
  BY MemscanFinds
<1>1. /\ memscan(m, s, c, n) = s + k /\ k \in 0 .. n /\ (k = n \/ m[s + k] = c)
      /\ \A j \in 0 .. k - 1 : m[s + j] # c
  BY <1>0 DEF ScanStops
<1>2. \A q \in S : s + k <= q
  <2> SUFFICES ASSUME NEW q \in S, q < s + k PROVE FALSE
    BY DEF Area
  <2>1. PICK j \in 0 .. k - 1 : q = s + j
    BY DEF Area
  <2> QED
    BY <1>1, <2>1
<1>3. k # n => s + k \in S
  BY <1>1 DEF Area
<1>4. k = n => S = {}
  <2> SUFFICES ASSUME k = n, NEW q \in S PROVE FALSE
    OBVIOUS
  <2>1. s + k <= q /\ q \in s .. s + n - 1
    BY <1>2 DEF Area
  <2> QED
    BY <2>1
<1>5. memchr(m, s, c, n) = IF s + k = s + n THEN Null ELSE s + k
  BY <1>1 DEF memchr
<1> HIDE DEF S
<1>6. IsFirst(s + k, S \cup {s + n})
  <2>1. s + k \in S \cup {s + n}
    BY <1>1, <1>3
  <2>2. s + k <= s + n
    BY <1>1
  <2>3. \A q \in S \cup {s + n} : s + k <= q
    BY <1>2, <2>2
  <2> QED
    BY <2>1, <2>3 DEF IsFirst
<1>7. IsFirst(memchr(m, s, c, n), S)
  <2>1. CASE k = n
    BY <1>4, <1>5, <2>1 DEF IsFirst
  <2>2. CASE k # n
    <3>1. s + k # s + n
      BY <2>2
    <3> QED
      BY <1>2, <1>3, <1>5, <2>2, <3>1 DEF IsFirst
  <2> QED
    BY <2>1, <2>2
<1> QED
  BY <1>1, <1>6, <1>7 DEF S, ByteFound

\* strnlen is the length, cut to the count.
LEMMA StrnlenLeast ==
  ASSUME NEW m, NEW s \in Nat, NEW l \in Nat, IsString(m, s, l), NEW n \in Nat
  PROVE  strnlen(m, s, n) = Least(n, l)
<1>1. m[s + l] = Nul /\ \A k \in 0 .. l - 1 : m[s + k] # Nul
  BY DEF IsString
<1>2. PICK c \in Nat : c = Least(n, l) /\ c <= n /\ c <= l /\ (c = n \/ c = l)
  BY DEF Least
<1>3. n \in Int /\ (m[s + c] = Nul \/ c = n)
  BY <1>1, <1>2
<1>4. /\ strnlen(m, s, n) \in Nat /\ strnlen(m, s, n) <= c
      /\ strnlen(m, s, n) = n \/ m[s + strnlen(m, s, n)] = Nul
  BY <1>3, StrnlenFinds
<1>5. PICK r \in Nat : r = strnlen(m, s, n) /\ r <= c /\ (r = n \/ m[s + r] = Nul)
  BY <1>4
<1>6. ~(r < c)
  <2> SUFFICES ASSUME r < c PROVE FALSE
    OBVIOUS
  <2>1. r \in 0 .. l - 1 /\ r # n
    BY <1>2
  <2> QED
    BY <1>1, <1>5, <2>1
<1> QED
  BY <1>2, <1>5, <1>6

\* The first byte of S and NUL is in the string, or its end.
LEMMA StringFirst ==
  ASSUME NEW m, NEW s \in Nat, NEW l \in Nat, IsString(m, s, l), NEW S
  PROVE  /\ FirstOf(m, s, S \cup {Nul}) \in Nat
         /\ s <= FirstOf(m, s, S \cup {Nul}) /\ FirstOf(m, s, S \cup {Nul}) <= s + l
         /\ FirstOf(m, s, S \cup {Nul}) = s + l \/ m[FirstOf(m, s, S \cup {Nul})] \in S
         /\ \A q \in s .. s + l : q < FirstOf(m, s, S \cup {Nul}) => m[q] \notin S /\ m[q] # Nul
<1>1. m[s + l] = Nul /\ \A k \in 0 .. l - 1 : m[s + k] # Nul
  BY DEF IsString
<1>2. PICK e \in Nat : e = s + l /\ s <= e
  OBVIOUS
<1>3. m[e] \in S \cup {Nul}
  BY <1>1, <1>2
<1>4. /\ FirstOf(m, s, S \cup {Nul}) \in Nat /\ s <= FirstOf(m, s, S \cup {Nul})
      /\ FirstOf(m, s, S \cup {Nul}) <= e /\ m[FirstOf(m, s, S \cup {Nul})] \in S \cup {Nul}
      /\ \A j \in Nat : s <= j /\ j < FirstOf(m, s, S \cup {Nul}) => m[j] \notin S \cup {Nul}
  BY <1>2, <1>3, FirstOfFinds
<1>5. PICK p \in Nat : p = FirstOf(m, s, S \cup {Nul})
  BY <1>4
<1>6. /\ s <= p /\ p <= s + l /\ m[p] \in S \cup {Nul}
      /\ \A j \in Nat : s <= j /\ j < p => m[j] \notin S \cup {Nul}
  BY <1>2, <1>4, <1>5
<1>7. p = s + l \/ m[p] \in S
  <2> SUFFICES ASSUME p # s + l, m[p] = Nul PROVE FALSE
    BY <1>6
  <2>1. PICK k \in 0 .. l - 1 : p = s + k
    BY <1>6
  <2> QED
    BY <1>1, <2>1
<1>8. \A q \in s .. s + l : q < p => m[q] \notin S /\ m[q] # Nul
  BY <1>6
<1> QED
  BY <1>5, <1>6, <1>7, <1>8

\* strchr finds the first place of a character, which may be the NUL.
LEMMA StrchrFirst ==
  ASSUME NEW m, NEW s \in Nat, NEW l \in Nat, IsString(m, s, l), NEW c
  PROVE  IsFirst(strchr(m, s, c), {p \in Area(s, l + 1) : m[p] = c})
<1> DEFINE S == {p \in Area(s, l + 1) : m[p] = c}
<1>1. m[s + l] = Nul
  BY DEF IsString
<1>2. PICK C : C = {c}
  OBVIOUS
<1>3. /\ FirstOf(m, s, C \cup {Nul}) \in Nat
      /\ s <= FirstOf(m, s, C \cup {Nul}) /\ FirstOf(m, s, C \cup {Nul}) <= s + l
      /\ FirstOf(m, s, C \cup {Nul}) = s + l \/ m[FirstOf(m, s, C \cup {Nul})] \in C
      /\ \A q \in s .. s + l : q < FirstOf(m, s, C \cup {Nul}) => m[q] \notin C /\ m[q] # Nul
  BY StringFirst
<1>4. C \cup {Nul} = {c, Nul}
  BY <1>2
<1>5. PICK p \in Nat : p = FirstOf(m, s, {c, Nul})
  BY <1>3, <1>4
<1>6. /\ s <= p /\ p <= s + l /\ (p = s + l \/ m[p] = c)
      /\ \A q \in s .. s + l : q < p => m[q] # c
  BY <1>2, <1>3, <1>4, <1>5
<1>7. strchr(m, s, c) = IF m[p] = c THEN p ELSE Null
  BY <1>5, Zenon DEF strchr
<1>8. Area(s, l + 1) = s .. s + l
  BY DEF Area
<1>9. ASSUME NEW q \in S PROVE p <= q
  <2>1. q \in s .. s + l /\ m[q] = c
    BY <1>8
  <2> QED
    BY <1>6, <2>1
<1>10. CASE m[p] = c
  <2>1. p \in S
    BY <1>6, <1>8, <1>10
  <2>2. strchr(m, s, c) = p /\ \A q \in S : p <= q
    BY <1>7, <1>9, <1>10
  <2> HIDE DEF S
  <2>3. S # {}
    BY <2>1
  <2>4. IsFirst(p, S)
    BY <2>1, <2>2, <2>3 DEF IsFirst
  <2> QED
    BY <2>2, <2>4 DEF S
<1>11. CASE m[p] # c
  <2>1. S = {}
    <3> SUFFICES ASSUME NEW q \in S PROVE FALSE
      OBVIOUS
    <3>1. q \in s .. s + l /\ m[q] = c /\ p <= q /\ p = s + l
      BY <1>6, <1>8, <1>9, <1>11
    <3>2. q = p
      BY <3>1
    <3> QED
      BY <1>11, <3>1, <3>2
  <2>2. strchr(m, s, c) = Null
    BY <1>7, <1>11
  <2> HIDE DEF S
  <2>3. IsFirst(Null, S)
    BY <2>1 DEF IsFirst
  <2> QED
    BY <2>2, <2>3 DEF S
<1> QED
  BY <1>10, <1>11

\* strcspn finds the first character that the other string has too.
SpanFound(m, s, t, l, h, y) ==
  IsFirst(s + strcspn(m, s, t), {p \in Area(s, l) : \E k \in 1 .. h : y[k] = m[p]} \cup {s + l})

LEMMA StrcspnFirst ==
  ASSUME NEW m, NEW s \in Nat, NEW t \in Nat, NEW l \in Nat, NEW h \in Nat,
         IsString(m, s, l), IsString(m, t, h), NEW y, IsBytes(m, t, h, y)
  PROVE  SpanFound(m, s, t, l, h, y)
<1> DEFINE S == {p \in Area(s, l) : \E k \in 1 .. h : y[k] = m[p]}
<1>1. strlen(m, t) = h
  BY DEF IsString
<1>2. PICK C : C = Accepts(m, t)
  OBVIOUS
<1>3. \A v : v \in C <=> \E k \in 1 .. h : y[k] = v
  <2>1. \A i \in t .. t + h - 1 : \E k \in 1 .. h : y[k] = m[i]
    <3> SUFFICES ASSUME NEW i \in t .. t + h - 1 PROVE \E k \in 1 .. h : y[k] = m[i]
      OBVIOUS
    <3>1. PICK j \in 0 .. h - 1 : i = t + j
      OBVIOUS
    <3>2. y[j + 1] = m[i] /\ j + 1 \in 1 .. h
      BY <3>1 DEF IsBytes
    <3> QED
      BY <3>2
  <2>2. \A k \in 1 .. h : \E i \in t .. t + h - 1 : y[k] = m[i]
    <3> SUFFICES ASSUME NEW k \in 1 .. h PROVE \E i \in t .. t + h - 1 : y[k] = m[i]
      OBVIOUS
    <3>1. PICK j \in 0 .. h - 1 : k = j + 1
      OBVIOUS
    <3>2. y[k] = m[t + j] /\ t + j \in t .. t + h - 1
      BY <3>1 DEF IsBytes
    <3> QED
      BY <3>2
  <2>3. C = {m[i] : i \in t .. t + h - 1}
    BY <1>1, <1>2 DEF Accepts
  <2> QED
    BY <2>1, <2>2, <2>3
<1>4. /\ FirstOf(m, s, C \cup {Nul}) \in Nat
      /\ s <= FirstOf(m, s, C \cup {Nul}) /\ FirstOf(m, s, C \cup {Nul}) <= s + l
      /\ FirstOf(m, s, C \cup {Nul}) = s + l \/ m[FirstOf(m, s, C \cup {Nul})] \in C
      /\ \A q \in s .. s + l : q < FirstOf(m, s, C \cup {Nul}) => m[q] \notin C /\ m[q] # Nul
  BY StringFirst
<1>5. PICK p \in Nat : p = FirstOf(m, s, C \cup {Nul})
  BY <1>4
<1>6. /\ s <= p /\ p <= s + l /\ (p = s + l \/ m[p] \in C)
      /\ \A q \in s .. s + l : q < p => m[q] \notin C
  BY <1>4, <1>5
<1>7. s + strcspn(m, s, t) = p
  <2>1. strcspn(m, s, t) = p - s
    BY <1>2, <1>5, Zenon DEF strcspn
  <2> QED
    BY <2>1
<1>8. Area(s, l) = s .. s + l - 1
  BY DEF Area
<1>9. ASSUME NEW q \in S PROVE p <= q
  <2>1. q \in s .. s + l /\ m[q] \in C
    BY <1>3, <1>8
  <2> QED
    BY <1>6, <2>1
<1>10. p \in S \cup {s + l}
  <2>1. CASE p = s + l
    BY <2>1
  <2>2. CASE p # s + l
    <3>1. p \in s .. s + l - 1 /\ m[p] \in C
      BY <1>6, <2>2
    <3>2. p \in S
      BY <1>3, <1>8, <3>1
    <3> QED
      BY <3>2
  <2> QED
    BY <2>1, <2>2
<1> HIDE DEF S
<1>11. \A q \in S \cup {s + l} : p <= q
  BY <1>6, <1>9
<1>12. IsFirst(p, S \cup {s + l})
  BY <1>10, <1>11 DEF IsFirst
<1> QED
  BY <1>7, <1>12 DEF S, SpanFound

\* Where strrchr's result comes from: the last place of the character, at or before l.
LastPlace(r, m, s, c, l) ==
  \/ r = Null /\ \A k \in 0 .. l : m[s + k] # c
  \/ \E i \in 0 .. l : r = s + i /\ m[s + i] = c /\ \A k \in i + 1 .. l : m[s + k] # c

\* Its function counts down; from the other end it is a search like the others.
LEMMA StrrchrFinds ==
  ASSUME NEW m, NEW s \in Nat, NEW l \in Nat, strlen(m, s) = l, NEW c
  PROVE  LastPlace(strrchr(m, s, c), m, s, c, l)
<1> DEFINE D == 0 .. l + 1
           Halt == {i \in Nat : i = l + 1 \/ m[s + (l - i)] = c}
           g == [i \in Nat |-> IF i = l + 1 THEN Null ELSE s + (l - i)]
           is(f) == f = [k \in -1 .. l |->
                           IF k = -1 THEN Null ELSE IF m[s + k] = c THEN s + k ELSE f[k - 1]]
           at == CHOOSE f : is(f)
           back(f) == [i \in D |-> f[l - i]]
           forth(h) == [k \in -1 .. l |-> h[l - k]]
<1>1. D \subseteq Nat /\ (\A k \in D : k \notin Halt => k + 1 \in D) /\ l + 1 \in Halt /\ l + 1 \in Nat
  OBVIOUS
<1>2. ASSUME NEW h, Finds(h, D, Halt, g) PROVE is(forth(h))
  <2>1. \A i \in D : h[i] = IF i \in Halt THEN g[i] ELSE h[i + 1]
    <3> HIDE DEF D, Halt, g
    <3> QED
      BY <1>2 DEF Finds
  <2>2. ASSUME NEW k \in -1 .. l
        PROVE  h[l - k] = IF k = -1 THEN Null ELSE IF m[s + k] = c THEN s + k ELSE forth(h)[k - 1]
    <3>1. PICK i \in D : i = l - k /\ l - i = k /\ i \in Nat /\ (i = l + 1 <=> k = -1)
      OBVIOUS
    <3>2. h[i] = IF i \in Halt THEN g[i] ELSE h[i + 1]
      BY <2>1
    <3>3. i \in Halt <=> k = -1 \/ m[s + k] = c
      BY <3>1
    <3>4. g[i] = IF k = -1 THEN Null ELSE s + k
      BY <3>1
    <3>5. k # -1 => forth(h)[k - 1] = h[i + 1]
      <4> SUFFICES ASSUME k # -1 PROVE forth(h)[k - 1] = h[i + 1]
        OBVIOUS
      <4>1. k - 1 \in -1 .. l /\ l - (k - 1) = i + 1
        BY <3>1
      <4> QED
        BY <4>1
    <3> HIDE DEF Halt, g, forth, D
    <3> QED
      BY <3>1, <3>2, <3>3, <3>4, <3>5
  <2>3. forth(h) = [k \in -1 .. l |-> IF k = -1 THEN Null ELSE
                      IF m[s + k] = c THEN s + k ELSE forth(h)[k - 1]]
    BY <2>2
  <2> QED
    BY <2>3
<1>3. ASSUME NEW f, is(f) PROVE Finds(back(f), D, Halt, g)
  <2>1. \A k \in -1 .. l : f[k] = IF k = -1 THEN Null ELSE IF m[s + k] = c THEN s + k ELSE f[k - 1]
    BY <1>3
  <2>2. ASSUME NEW i \in D
        PROVE  f[l - i] = IF i \in Halt THEN g[i] ELSE back(f)[i + 1]
    <3>1. PICK k \in -1 .. l : k = l - i /\ i \in Nat /\ (i = l + 1 <=> k = -1)
      OBVIOUS
    <3>2. f[k] = IF k = -1 THEN Null ELSE IF m[s + k] = c THEN s + k ELSE f[k - 1]
      BY <2>1
    <3>3. i \in Halt <=> k = -1 \/ m[s + k] = c
      BY <3>1
    <3>4. g[i] = IF k = -1 THEN Null ELSE s + k
      BY <3>1
    <3>5. k # -1 => back(f)[i + 1] = f[k - 1]
      <4> SUFFICES ASSUME k # -1 PROVE back(f)[i + 1] = f[k - 1]
        OBVIOUS
      <4>1. i + 1 \in D /\ l - (i + 1) = k - 1
        BY <3>1
      <4> QED
        BY <4>1
    <3> HIDE DEF Halt, g, back, D
    <3> QED
      BY <3>1, <3>2, <3>3, <3>4, <3>5
  <2>3. back(f) = [i \in D |-> IF i \in Halt THEN g[i] ELSE back(f)[i + 1]]
    BY <2>2
  <2> HIDE DEF D, Halt, g, back
  <2> QED
    BY <2>3 DEF Finds
<1>4. is(at)
  <2>1. \E h : Finds(h, D, Halt, g)
    <3> HIDE DEF D, Halt, g
    <3> QED
      BY <1>1, FindsExists
  <2> HIDE DEF is, forth, D, Halt, g
  <2>2. \E f : is(f)
    BY <1>2, <2>1
  <2> QED
    BY <2>2, Zenon
<1>5. strrchr(m, s, c) = at[l]
  <2>1. strlen(m, s) = l
    OBVIOUS
  <2> QED
    BY <2>1, Zenon DEF strrchr
<1>6. PICK h : h = back(at)
  OBVIOUS
<1>7. Finds(h, D, Halt, g)
  <2> HIDE DEF is, back, D, Halt, g, at
  <2> QED
    BY <1>3, <1>4, <1>6
<1> HIDE DEF at, is
<1>8. PICK z \in D : z = 0 /\ z \in Nat /\ z <= l + 1 /\ l - z = l
  OBVIOUS
<1>9. StopsAt(h[z], Halt, g, z, l + 1)
  <2>1. PICK e \in Nat : e = l + 1 /\ z <= e /\ e \in Halt
    BY <1>1, <1>8
  <2>2. StopsAt(h[z], Halt, g, z, e)
    <3> HIDE DEF Halt, g, D
    <3> QED
      BY <1>1, <1>7, <1>8, <2>1, FindsFirst
  <2> QED
    BY <2>1, <2>2
<1>10. PICK i \in z .. l + 1 : h[z] = g[i] /\ i \in Halt /\ \A j \in z .. i - 1 : j \notin Halt
  BY <1>9 DEF StopsAt
<1>11. strrchr(m, s, c) = g[i]
  <2>1. h[z] = at[l - z]
    BY <1>6, <1>8
  <2> QED
    BY <1>5, <1>8, <1>10, <2>1
<1>12. i \in Nat /\ i <= l + 1 /\ \A k \in l - i + 1 .. l : m[s + k] # c
  <2>1. i \in Nat /\ i <= l + 1
    BY <1>8, <1>10
  <2>2. ASSUME NEW k \in l - i + 1 .. l PROVE m[s + k] # c
    <3>1. PICK j \in Nat : j = l - k /\ l - j = k /\ j \in z .. i - 1
      BY <1>8, <2>1
    <3> QED
      BY <1>10, <3>1
  <2> QED
    BY <2>1, <2>2
<1>13. CASE i = l + 1
  <2>1. strrchr(m, s, c) = Null
    BY <1>11, <1>12, <1>13
  <2>2. l - i + 1 = 0
    BY <1>13
  <2> QED
    BY <1>12, <2>1, <2>2 DEF LastPlace
<1>14. CASE i # l + 1
  <2>1. PICK k \in 0 .. l : k = l - i
    BY <1>12, <1>14
  <2>2. strrchr(m, s, c) = s + k /\ m[s + k] = c
    BY <1>10, <1>11, <1>12, <1>14, <2>1
  <2>3. \A q \in k + 1 .. l : m[s + q] # c
    BY <1>12, <2>1
  <2> QED
    BY <2>2, <2>3 DEF LastPlace
<1> QED
  BY <1>13, <1>14

\* strrchr finds the last place of a character.
LEMMA StrrchrLast ==
  ASSUME NEW m, NEW s \in Nat, NEW l \in Nat, strlen(m, s) = l, NEW c,
         NEW hits, hits = {p \in Area(s, l + 1) : m[p] = c}
  PROVE  IF hits = {} THEN strrchr(m, s, c) = Null
         ELSE strrchr(m, s, c) \in hits /\ \A q \in hits : q <= strrchr(m, s, c)
<1>1. PICK r : r = strrchr(m, s, c)
  OBVIOUS
<1>2. LastPlace(r, m, s, c, l)
  BY <1>1, StrrchrFinds
<1>3. Area(s, l + 1) = s .. s + l
  BY DEF Area
<1>4. \A q \in hits : \E k \in 0 .. l : q = s + k /\ m[s + k] = c
  <2> SUFFICES ASSUME NEW q \in hits PROVE \E k \in 0 .. l : q = s + k /\ m[s + k] = c
    OBVIOUS
  <2>1. q \in s .. s + l /\ m[q] = c
    BY <1>3
  <2>2. PICK k \in 0 .. l : q = s + k
    BY <2>1
  <2> QED
    BY <2>1, <2>2
<1>5. CASE r = Null /\ \A k \in 0 .. l : m[s + k] # c
  <2>1. hits = {}
    BY <1>4, <1>5
  <2> QED
    BY <1>1, <1>5, <2>1
<1>6. CASE \E i \in 0 .. l : r = s + i /\ m[s + i] = c /\ \A k \in i + 1 .. l : m[s + k] # c
  <2>1. PICK i \in 0 .. l : r = s + i /\ m[s + i] = c /\ \A k \in i + 1 .. l : m[s + k] # c
    BY <1>6
  <2>2. r \in hits
    BY <1>3, <2>1
  <2>3. ASSUME NEW q \in hits PROVE q <= r
    <3>1. PICK k \in 0 .. l : q = s + k /\ m[s + k] = c
      BY <1>4
    <3>2. k <= i
      <4> SUFFICES ASSUME i < k PROVE FALSE
        OBVIOUS
      <4>1. k \in i + 1 .. l
        OBVIOUS
      <4> QED
        BY <2>1, <3>1, <4>1
    <3> QED
      BY <2>1, <3>1, <3>2
  <2> QED
    BY <1>1, <2>2, <2>3
<1> QED
  BY <1>2, <1>5, <1>6 DEF LastPlace

\* memcmp is zero when all bytes are the same.
ZeroWhenSame(m, s, t, n) ==
  memcmp(m, s, t, n) = 0 <=> \A j \in 0 .. n - 1 : m[s + j] = m[t + j]

LEMMA MemcmpZero ==
  ASSUME NEW m, NEW s \in Nat, NEW t \in Nat, NEW n \in Nat, AreBytes(m, s, n), AreBytes(m, t, n)
  PROVE  ZeroWhenSame(m, s, t, n)
<1>1. PICK k \in Nat : MemDiffers(m, s, t, n, k)
  BY MemcmpFinds
<1>2. /\ memcmp(m, s, t, n) = IF k = n THEN 0 ELSE Sign(m[s + k], m[t + k])
      /\ k \in 0 .. n /\ (k = n \/ m[s + k] # m[t + k])
      /\ \A j \in 0 .. k - 1 : m[s + j] = m[t + j]
  BY <1>1 DEF MemDiffers
<1>3. CASE k = n
  BY <1>2, <1>3 DEF ZeroWhenSame
<1>4. CASE k # n
  <2>1. k \in 0 .. n - 1 /\ m[s + k] \in Byte /\ m[t + k] \in Byte /\ m[s + k] # m[t + k]
    BY <1>2, <1>4 DEF AreBytes
  <2>2. \A a, b \in Byte : a # b => Sign(a, b) # 0
    BY DEF Sign, Byte
  <2> QED
    BY <1>2, <1>4, <2>1, <2>2 DEF ZeroWhenSame
<1> QED
  BY <1>3, <1>4

\* It compares a string with a part of another one.
ZeroAtMatch(m, s, t, h, x, y, k) ==
  memcmp(m, s + k, t, h) = 0 <=> SubSeq(x, k + 1, k + h) = y

LEMMA MemcmpMatches ==
  ASSUME NEW m, NEW s \in Nat, NEW t \in Nat, NEW l \in Nat, NEW h \in Nat,
         NEW x, NEW y, IsBytes(m, s, l, x), IsBytes(m, t, h, y), NEW k \in Nat, k + h <= l
  PROVE  ZeroAtMatch(m, s, t, h, x, y, k)
<1>1. x \in Seq(Byte) /\ Len(x) = l /\ \A i \in 0 .. l - 1 : x[i + 1] = m[s + i]
  BY DEF IsBytes
<1>2. y \in Seq(Byte) /\ Len(y) = h /\ \A i \in 0 .. h - 1 : y[i + 1] = m[t + i]
  BY DEF IsBytes
<1>3. \A i \in 1 .. l : x[i] \in Byte
  BY <1>1, ElementOfSeq
<1>4. \A i \in 1 .. h : y[i] \in Byte
  BY <1>2, ElementOfSeq
<1>5. PICK p \in Nat : p = s + k
  OBVIOUS
<1>6. \A j \in 0 .. h - 1 : m[p + j] = x[k + j + 1] /\ m[p + j] \in Byte
  <2> SUFFICES ASSUME NEW j \in 0 .. h - 1 PROVE m[p + j] = x[k + j + 1] /\ m[p + j] \in Byte
    OBVIOUS
  <2>1. PICK i \in 0 .. l - 1 : i = k + j /\ i + 1 = k + j + 1 /\ s + i = p + j /\ i + 1 \in 1 .. l
    BY <1>5
  <2> QED
    BY <1>1, <1>3, <2>1
<1>7. \A j \in 0 .. h - 1 : m[t + j] = y[j + 1] /\ m[t + j] \in Byte
  <2>1. \A j \in 0 .. h - 1 : j + 1 \in 1 .. h
    OBVIOUS
  <2> QED
    BY <1>2, <1>4, <2>1
<1>8. memcmp(m, p, t, h) = 0 <=> \A j \in 0 .. h - 1 : m[p + j] = m[t + j]
  <2>1. AreBytes(m, p, h) /\ AreBytes(m, t, h)
    BY <1>6, <1>7 DEF AreBytes
  <2>2. ZeroWhenSame(m, p, t, h)
    BY <2>1, MemcmpZero
  <2> QED
    BY <2>2 DEF ZeroWhenSame
<1>9. PICK a \in Nat, b \in Nat : a = k + 1 /\ b = k + h /\ b <= l
  OBVIOUS
<1>10. /\ SubSeq(x, a, b) \in Seq(Byte) /\ Len(SubSeq(x, a, b)) = (IF a <= b THEN b - a + 1 ELSE 0)
       /\ \A i \in 1 .. b - a + 1 : SubSeq(x, a, b)[i] = x[a + i - 1]
  <2>1. \A i \in a .. b : x[i] \in Byte
    BY <1>3, <1>9
  <2> QED
    BY <1>1, <2>1, SubSeqProperties
<1>11. PICK w : w = SubSeq(x, a, b)
  OBVIOUS
<1>12. w \in Seq(Byte) /\ Len(w) = h
  BY <1>9, <1>10, <1>11
<1>13. \A j \in 0 .. h - 1 : w[j + 1] = x[k + j + 1]
  <2> SUFFICES ASSUME NEW j \in 0 .. h - 1 PROVE w[j + 1] = x[k + j + 1]
    OBVIOUS
  <2>1. j + 1 \in 1 .. b - a + 1 /\ a + (j + 1) - 1 = k + j + 1
    BY <1>9
  <2>2. w[j + 1] = x[a + (j + 1) - 1]
    BY <1>10, <1>11, <2>1
  <2> QED
    BY <2>1, <2>2
<1>14. w = y <=> \A j \in 0 .. h - 1 : w[j + 1] = y[j + 1]
  <2>1. ASSUME \A j \in 0 .. h - 1 : w[j + 1] = y[j + 1] PROVE w = y
    <3>1. ASSUME NEW i \in 1 .. Len(w) PROVE w[i] = y[i]
      <4>1. PICK j \in 0 .. h - 1 : i = j + 1
        BY <1>12
      <4> QED
        BY <2>1, <4>1
    <3> QED
      BY <1>2, <1>12, <3>1, SeqEqual
  <2> QED
    BY <2>1
<1> QED
  BY <1>5, <1>6, <1>7, <1>8, <1>9, <1>11, <1>13, <1>14 DEF ZeroAtMatch

\* Where strstr stops.
StrstrStops(m, s, t, l, h, p) ==
  /\ strstr(m, s, t) = IF l - (p - s) < h THEN Null ELSE p
  /\ s <= p /\ (l - (p - s) < h \/ memcmp(m, p, t, h) = 0)
  /\ \A q \in s .. p - 1 : memcmp(m, q, t, h) # 0

LEMMA StrstrFinds ==
  ASSUME NEW m, NEW s \in Nat, NEW t \in Nat, NEW l \in Nat, NEW h \in Nat, h # 0,
         strlen(m, s) = l, strlen(m, t) = h
  PROVE  \E p \in Nat : StrstrStops(m, s, t, l, h, p)
<1> DEFINE D == s .. s + l + 1
           Halt == {p \in Nat : l - (p - s) < h \/ memcmp(m, p, t, h) = 0}
           g == [p \in Nat |-> IF l - (p - s) < h THEN Null ELSE p]
           is(f) == f = [p \in s .. s + l + 1 |-> IF l - (p - s) < h THEN Null
                           ELSE IF memcmp(m, p, t, h) = 0 THEN p ELSE f[p + 1]]
           at == CHOOSE f : is(f)
<1>1. \A f : Finds(f, D, Halt, g) <=> is(f)
  <2>1. ASSUME NEW f
        PROVE  [p \in D |-> IF p \in Halt THEN g[p] ELSE f[p + 1]]
               = [p \in s .. s + l + 1 |-> IF l - (p - s) < h THEN Null
                           ELSE IF memcmp(m, p, t, h) = 0 THEN p ELSE f[p + 1]]
    OBVIOUS
  <2> HIDE DEF Halt, g, D
  <2> QED
    BY <2>1, Zenon DEF Finds
<1>2. /\ D \subseteq Nat /\ (\A p \in D : p \notin Halt => p + 1 \in D)
      /\ s + l + 1 \in Halt /\ s \in D
  OBVIOUS
<1>3. Finds(at, D, Halt, g)
  <2>1. \E f : Finds(f, D, Halt, g)
    <3> HIDE DEF Halt, g, D
    <3> QED
      BY <1>2, FindsExists
  <2> HIDE DEF Halt, g, D, is
  <2>2. \E f : is(f)
    BY <1>1, <2>1, Zenon
  <2>3. is(at)
    BY <2>2, Zenon
  <2> QED
    BY <1>1, <2>3, Zenon
<1>4. strstr(m, s, t) = at[s]
  <2>1. strlen(m, s) = l /\ strlen(m, t) = h /\ h # 0
    OBVIOUS
  <2> QED
    BY <2>1, Zenon DEF strstr
<1> HIDE DEF at
<1>5. PICK e \in Nat : e = s + l + 1 /\ s <= e
  OBVIOUS
<1>6. StopsAt(at[s], Halt, g, s, e)
  <2>1. e \in Halt
    BY <1>2, <1>5
  <2> HIDE DEF Halt, g, D
  <2> QED
    BY <1>2, <1>3, <1>5, <2>1, FindsFirst
<1>7. PICK p \in s .. e : at[s] = g[p] /\ p \in Halt /\ \A q \in s .. p - 1 : q \notin Halt
  BY <1>6 DEF StopsAt
<1>8. p \in Nat /\ s <= p
  BY <1>7
<1>9. strstr(m, s, t) = IF l - (p - s) < h THEN Null ELSE p
  BY <1>4, <1>7, <1>8
<1>10. l - (p - s) < h \/ memcmp(m, p, t, h) = 0
  BY <1>7
<1>11. \A q \in s .. p - 1 : memcmp(m, q, t, h) # 0
  BY <1>7, <1>8
<1> QED
  BY <1>8, <1>9, <1>10, <1>11 DEF StrstrStops

\* strstr finds the first place of a string in another one.
PartFound(m, s, t, l, h, x, y) ==
  IsFirst(strstr(m, s, t), {s + k : k \in {k \in 0 .. l - h : SubSeq(x, k + 1, k + h) = y}})

LEMMA StrstrFirst ==
  ASSUME NEW m, NEW s \in Nat, NEW t \in Nat, NEW l \in Nat, NEW h \in Nat,
         strlen(m, s) = l, strlen(m, t) = h,
         NEW x, NEW y, IsBytes(m, s, l, x), IsBytes(m, t, h, y)
  PROVE  PartFound(m, s, t, l, h, x, y)
<1> DEFINE S == {s + k : k \in {k \in 0 .. l - h : SubSeq(x, k + 1, k + h) = y}}
<1>1. \A k \in Nat : k + h <= l => (memcmp(m, s + k, t, h) = 0 <=> SubSeq(x, k + 1, k + h) = y)
  <2>1. \A k \in Nat : k + h <= l => ZeroAtMatch(m, s, t, h, x, y, k)
    BY MemcmpMatches
  <2> QED
    BY <2>1, Zenon DEF ZeroAtMatch
<1>2. \A q : q \in S <=> \E k \in 0 .. l - h : q = s + k /\ memcmp(m, s + k, t, h) = 0
  <2>1. \A k \in 0 .. l - h : memcmp(m, s + k, t, h) = 0 <=> SubSeq(x, k + 1, k + h) = y
    <3>1. \A k \in 0 .. l - h : k \in Nat /\ k + h <= l
      OBVIOUS
    <3> QED
      BY <1>1, <3>1
  <2> QED
    BY <2>1
<1>3. CASE h = 0
  <2>1. strstr(m, s, t) = s
    BY <1>3, Zenon DEF strstr
  <2>2. s \in S
    <3>1. SubSeq(x, 0 + 1, 0 + h) = y
      <4>1. PICK k \in Nat : k = 0 /\ k + h <= l
        BY <1>3
      <4>2. AreBytes(m, s + k, h) /\ AreBytes(m, t, h)
        BY <1>3 DEF AreBytes
      <4>3. PICK p \in Nat : p = s + k
        BY <4>1
      <4>4. memcmp(m, p, t, h) = 0 <=> \A j \in 0 .. h - 1 : m[p + j] = m[t + j]
        <5>1. ZeroWhenSame(m, p, t, h)
          BY <4>2, <4>3, MemcmpZero
        <5> QED
          BY <5>1 DEF ZeroWhenSame
      <4>5. memcmp(m, s + k, t, h) = 0
        BY <1>3, <4>3, <4>4
      <4> QED
        BY <1>1, <4>1, <4>5
    <3>2. 0 \in 0 .. l - h /\ s = s + 0
      BY <1>3
    <3> QED
      BY <3>1, <3>2
  <2>3. \A q \in S : s <= q
    BY <1>2
  <2> HIDE DEF S
  <2>4. IsFirst(s, S)
    BY <2>2, <2>3 DEF IsFirst
  <2> QED
    BY <2>1, <2>4 DEF S, PartFound
<1>4. CASE h # 0
  <2>1. PICK p \in Nat : StrstrStops(m, s, t, l, h, p)
    BY <1>4, StrstrFinds
  <2>2. /\ strstr(m, s, t) = IF l - (p - s) < h THEN Null ELSE p
        /\ s <= p /\ (l - (p - s) < h \/ memcmp(m, p, t, h) = 0)
        /\ \A q \in s .. p - 1 : memcmp(m, q, t, h) # 0
    BY <2>1 DEF StrstrStops
  <2>3. \A q \in S : p <= q /\ q <= s + (l - h)
    <3> SUFFICES ASSUME NEW q \in S PROVE p <= q /\ q <= s + (l - h)
      OBVIOUS
    <3>1. PICK k \in 0 .. l - h : q = s + k /\ memcmp(m, s + k, t, h) = 0
      BY <1>2
    <3>2. q \notin s .. p - 1
      BY <2>2, <3>1
    <3> QED
      BY <3>1, <3>2
  <2>4. CASE l - (p - s) < h
    <3>1. S = {}
      <4> HIDE DEF S
      <4> SUFFICES ASSUME NEW q \in S PROVE FALSE
        OBVIOUS
      <4>1. PICK k \in 0 .. l - h : q = s + k
        BY <1>2
      <4> QED
        BY <2>3, <2>4, <4>1
    <3>2. strstr(m, s, t) = Null
      BY <2>2, <2>4
    <3> HIDE DEF S
    <3>3. IsFirst(Null, S)
      BY <3>1 DEF IsFirst
    <3> QED
      BY <3>2, <3>3 DEF S, PartFound
  <2>5. CASE ~(l - (p - s) < h)
    <3>1. strstr(m, s, t) = p /\ memcmp(m, p, t, h) = 0
      BY <2>2, <2>5
    <3>2. p \in S
      <4>1. PICK k \in 0 .. l - h : p = s + k
        BY <2>2, <2>5
      <4> HIDE DEF S
      <4> QED
        BY <1>2, <3>1, <4>1
    <3> HIDE DEF S
    <3>3. IsFirst(p, S)
      BY <2>3, <3>2 DEF IsFirst
    <3> QED
      BY <3>1, <3>3 DEF S, PartFound
  <2> QED
    BY <2>4, <2>5
<1> QED
  BY <1>3, <1>4

\* What the comparisons and the searches give at two places of a text: with no count,
\* with a count of any size, and with one for an area.
PlainAgree(m, s, t, c) ==
  LET x == StringAt(m, s)
      y == StringAt(m, t)
      hits == {p \in Area(s, Len(x) + 1) : m[p] = c}
  IN  /\ strcmp(m, s, t) = Order(x, y)
      /\ IsFirst(strchr(m, s, c), hits)
      /\ IF hits = {} THEN strrchr(m, s, c) = Null
         ELSE strrchr(m, s, c) \in hits /\ \A q \in hits : q <= strrchr(m, s, c)
      /\ IsFirst(s + strcspn(m, s, t), {p \in Area(s, Len(x)) :
                    \E k \in 1 .. Len(y) : y[k] = m[p]} \cup {s + Len(x)})
      /\ IsFirst(strstr(m, s, t), {s + k : k \in {k \in 0 .. Len(x) - Len(y) :
                    SubSeq(x, k + 1, k + Len(y)) = y}})

CountedAgree(m, s, t, n) ==
  LET x == StringAt(m, s)
      y == StringAt(m, t)
  IN  /\ strncmp(m, s, t, n) = Order(Upto(x, Rounds(n)), Upto(y, Rounds(n)))
      /\ strnlen(m, s, n) = Len(Upto(x, n))

AreasAgree(m, s, t, n, c) ==
  LET B(a) == [k \in 1 .. n |-> m[a + k - 1]]
      found == {p \in Area(s, n) : m[p] = c}
  IN  /\ n > 0 => memcmp(m, s, t, n) = Order(B(s), B(t))
      /\ IsFirst(memchr(m, s, c, n), found)
      /\ IsFirst(memscan(m, s, c, n), found \cup {s + n})

\* The strings at two places of a text.
BothStrings(m, s, t, l, h, x, y) ==
  /\ s \in Nat /\ t \in Nat /\ l \in Nat /\ h \in Nat
  /\ strlen(m, s) = l /\ strlen(m, t) = h /\ IsString(m, s, l) /\ IsString(m, t, h)
  /\ x = StringAt(m, s) /\ y = StringAt(m, t) /\ Len(x) = l /\ Len(y) = h
  /\ IsText(m, s, l, x) /\ IsText(m, t, h, y)
  /\ IsBytes(m, s, l, x) /\ IsBytes(m, t, h, y)

LEMMA TwoStrings ==
  ASSUME NEW m \in Texts, NEW s \in Places, NEW t \in Places
  PROVE  \E l \in Nat, h \in Nat : \E x, y : BothStrings(m, s, t, l, h, x, y)
<1>1. /\ s \in Nat /\ strlen(m, s) \in Nat /\ IsString(m, s, strlen(m, s))
      /\ MaxCount \in Nat /\ \A k \in 0 .. MaxCount - 1 : m[s + k] \in Byte
  BY PlaceString
<1>2. /\ t \in Nat /\ strlen(m, t) \in Nat /\ IsString(m, t, strlen(m, t))
      /\ \A k \in 0 .. MaxCount - 1 : m[t + k] \in Byte
  BY PlaceString
<1>3. PICK l \in Nat : l = strlen(m, s)
  BY <1>1
<1>4. PICK h \in Nat : h = strlen(m, t)
  BY <1>2
<1>5. IsString(m, s, l) /\ IsString(m, t, h)
  BY <1>1, <1>2, <1>3, <1>4
<1>7. PICK x : x = StringAt(m, s)
  OBVIOUS
<1>8. PICK y : y = StringAt(m, t)
  OBVIOUS
<1>9. IsText(m, s, l, x)
  <2>1. IsText(m, s, l, StringAt(m, s))
    BY <1>1, <1>3, StringText
  <2> QED
    BY <1>7, <2>1
<1>10. IsText(m, t, h, y)
  <2>1. IsText(m, t, h, StringAt(m, t))
    BY <1>2, <1>4, StringText
  <2> QED
    BY <1>8, <2>1
<1>11. IsBytes(m, s, l, x) /\ Len(x) = l
  <2>1. AreBytes(m, s, l)
    BY <1>5 DEF IsString, AreBytes
  <2>2. IsBytes(m, s, l, x)
    BY <1>1, <1>9, <2>1, TextOfBytes
  <2> QED
    BY <2>2 DEF IsBytes
<1>12. IsBytes(m, t, h, y) /\ Len(y) = h
  <2>1. AreBytes(m, t, h)
    BY <1>5 DEF IsString, AreBytes
  <2>2. IsBytes(m, t, h, y)
    BY <1>2, <1>10, <2>1, TextOfBytes
  <2> QED
    BY <2>2 DEF IsBytes
<1> QED
  BY <1>1, <1>2, <1>3, <1>4, <1>5, <1>7, <1>8, <1>9, <1>10, <1>11, <1>12 DEF BothStrings

LEMMA TextsAgree ==
  ASSUME NEW m \in Texts, NEW s \in Places, NEW t \in Places, NEW c
  PROVE  PlainAgree(m, s, t, c)
<1>1. PICK l \in Nat, h \in Nat : \E x, y : BothStrings(m, s, t, l, h, x, y)
  BY TwoStrings
<1>2. PICK x, y : BothStrings(m, s, t, l, h, x, y)
  BY <1>1
<1>3. /\ s \in Nat /\ t \in Nat /\ strlen(m, s) = l /\ strlen(m, t) = h
      /\ IsString(m, s, l) /\ IsString(m, t, h)
  BY <1>2 DEF BothStrings
<1>4. /\ StringAt(m, s) = x /\ StringAt(m, t) = y /\ Len(x) = l /\ Len(y) = h
      /\ IsText(m, s, l, x) /\ IsText(m, t, h, y)
      /\ IsBytes(m, s, l, x) /\ IsBytes(m, t, h, y)
  BY <1>2 DEF BothStrings
<1>13. strcmp(m, s, t) = Order(x, y)
  <2>1. PICK i \in Int : i < 0 /\ i = -1 /\ i = Rounds(i)
    BY WordAssumption DEF Rounds, HalfWord
  <2>2. strcmp(m, s, t) = strncmp(m, s, t, i)
    BY <2>1, StrcmpIsStrncmp
  <2>3. i < 0 => l = l /\ h = h
    OBVIOUS
  <2>4. i >= 0 => l = Least(i, l) /\ h = Least(i, h)
    BY <2>1
  <2>5. strncmp(m, s, t, i) = Order(x, y)
    <3>1. /\ s \in Nat /\ t \in Nat /\ IsString(m, s, l) /\ IsString(m, t, h)
          /\ IsText(m, s, l, x) /\ IsText(m, t, h, y) /\ i = Rounds(i)
      BY <1>3, <1>4, <2>1
    <3> QED
      BY <2>3, <2>4, <3>1, StrncmpOrders
  <2> QED
    BY <2>2, <2>5
<1>21. IsFirst(strchr(m, s, c), {p \in Area(s, l + 1) : m[p] = c})
  BY <1>3, StrchrFirst
<1>22. PICK hits : hits = {p \in Area(s, l + 1) : m[p] = c}
  OBVIOUS
<1>23. IF hits = {} THEN strrchr(m, s, c) = Null
       ELSE strrchr(m, s, c) \in hits /\ \A q \in hits : q <= strrchr(m, s, c)
  BY <1>3, <1>22, StrrchrLast
<1>25. IsFirst(s + strcspn(m, s, t),
               {p \in Area(s, l) : \E k \in 1 .. h : y[k] = m[p]} \cup {s + l})
  <2>1. SpanFound(m, s, t, l, h, y)
    BY <1>3, <1>4, StrcspnFirst
  <2> QED
    BY <2>1, Zenon DEF SpanFound
<1>26. IsFirst(strstr(m, s, t),
               {s + k : k \in {k \in 0 .. l - h : SubSeq(x, k + 1, k + h) = y}})
  <2>1. strlen(m, s) = l /\ strlen(m, t) = h
    BY <1>3
  <2>2. PartFound(m, s, t, l, h, x, y)
    BY <1>3, <1>4, <2>1, StrstrFirst
  <2> QED
    BY <2>2, Zenon DEF PartFound
<1>27. IsFirst(strchr(m, s, c), hits)
  BY <1>21, <1>22
<1>29. Len(StringAt(m, s)) = l /\ Len(StringAt(m, t)) = h
  BY <1>4
<1> QED
  BY <1>4, <1>13, <1>22, <1>23, <1>25, <1>26, <1>27, <1>29, Zenon DEF PlainAgree

LEMMA CountsAgree ==
  ASSUME NEW m \in Texts, NEW s \in Places, NEW t \in Places, NEW n \in Nat
  PROVE  CountedAgree(m, s, t, n)
<1>1. PICK l \in Nat, h \in Nat : \E x, y : BothStrings(m, s, t, l, h, x, y)
  BY TwoStrings
<1>2. PICK x, y : BothStrings(m, s, t, l, h, x, y)
  BY <1>1
<1>3. /\ s \in Nat /\ t \in Nat /\ strlen(m, s) = l /\ strlen(m, t) = h
      /\ IsString(m, s, l) /\ IsString(m, t, h)
  BY <1>2 DEF BothStrings
<1>4. /\ StringAt(m, s) = x /\ StringAt(m, t) = y /\ Len(x) = l /\ Len(y) = h
      /\ IsText(m, s, l, x) /\ IsText(m, t, h, y)
      /\ IsBytes(m, s, l, x) /\ IsBytes(m, t, h, y)
  BY <1>2 DEF BothStrings
<1>5. PICK r \in Nat : r = Rounds(n)
  BY DEF Rounds
<1>14. PICK a \in Nat : a = Least(r, l)
  BY DEF Least
<1>15. PICK b \in Nat : b = Least(r, h)
  BY DEF Least
<1>16. IsText(m, s, a, Upto(x, r))
  <2>1. IsText(m, s, Least(r, l), SubSeq(StringAt(m, s), 1, Least(r, Len(StringAt(m, s)))))
    BY <1>3, CutText
  <2> QED
    BY <1>4, <1>14, <2>1 DEF Upto
<1>17. IsText(m, t, b, Upto(y, r))
  <2>1. IsText(m, t, Least(r, h), SubSeq(StringAt(m, t), 1, Least(r, Len(StringAt(m, t)))))
    BY <1>3, CutText
  <2> QED
    BY <1>4, <1>15, <2>1 DEF Upto
<1>18. strncmp(m, s, t, n) = Order(Upto(x, r), Upto(y, r))
  <2>1. r < 0 => a = l /\ b = h
    OBVIOUS
  <2>2. r >= 0 => a = Least(r, l) /\ b = Least(r, h)
    BY <1>14, <1>15
  <2> QED
    BY <1>3, <1>5, <1>16, <1>17, <2>1, <2>2, StrncmpOrders
<1>20. strnlen(m, s, n) = Len(Upto(x, n))
  <2>1. IsText(m, s, Least(n, l), SubSeq(StringAt(m, s), 1, Least(n, Len(StringAt(m, s)))))
    BY <1>3, CutText
  <2>2. Len(Upto(x, n)) = Least(n, l)
    BY <1>4, <2>1 DEF Upto, IsText
  <2>3. strnlen(m, s, n) = Least(n, l)
    BY <1>3, StrnlenLeast
  <2> QED
    BY <2>2, <2>3
<1> QED
  BY <1>4, <1>5, <1>18, <1>20, Zenon DEF CountedAgree

LEMMA AreasMatch ==
  ASSUME NEW m \in Texts, NEW s \in Places, NEW t \in Places, NEW n \in Counts, NEW c
  PROVE  AreasAgree(m, s, t, n, c)
<1>1. /\ s \in Nat /\ t \in Nat /\ MaxCount \in Nat
      /\ \A k \in 0 .. MaxCount - 1 : m[s + k] \in Byte /\ m[t + k] \in Byte
  BY PlaceString
<1>6. n \in Nat /\ n <= MaxCount
  BY <1>1 DEF Counts
<1>19. memcmp(m, s, t, n) = Order([k \in 1 .. n |-> m[s + k - 1]], [k \in 1 .. n |-> m[t + k - 1]])
  <2>1. AreBytes(m, s, n) /\ AreBytes(m, t, n)
    BY <1>1, <1>6 DEF AreBytes
  <2>2. AreasOrdered(m, s, t, n)
    BY <1>1, <1>6, <2>1, MemcmpOrders
  <2> QED
    BY <2>2, Zenon DEF AreasOrdered
<1>24. /\ IsFirst(memscan(m, s, c, n), {p \in Area(s, n) : m[p] = c} \cup {s + n})
       /\ IsFirst(memchr(m, s, c, n), {p \in Area(s, n) : m[p] = c})
  <2>1. ByteFound(m, s, c, n)
    BY <1>1, <1>6, MemscanFirst
  <2> QED
    BY <2>1, Zenon DEF ByteFound
<1> QED
  BY <1>19, <1>24, Zenon DEF AreasAgree

\* What SearchesAgree says of two places.
AgreeAt(m, s, t, c) ==
  LET x == StringAt(m, s)
      y == StringAt(m, t)
      hits == {p \in Area(s, Len(x) + 1) : m[p] = c}
  IN  /\ strcmp(m, s, t) = Order(x, y)
      /\ \A n \in Counts \cup LongCounts :
           /\ strncmp(m, s, t, n) = Order(Upto(x, Rounds(n)), Upto(y, Rounds(n)))
           /\ strnlen(m, s, n) = Len(Upto(x, n))
      /\ \A n \in Counts :
           LET B(a) == [k \in 1 .. n |-> m[a + k - 1]]
               found == {p \in Area(s, n) : m[p] = c}
           IN  /\ n > 0 => memcmp(m, s, t, n) = Order(B(s), B(t))
               /\ IsFirst(memchr(m, s, c, n), found)
               /\ IsFirst(memscan(m, s, c, n), found \cup {s + n})
      /\ IsFirst(strchr(m, s, c), hits)
      /\ IF hits = {} THEN strrchr(m, s, c) = Null
         ELSE strrchr(m, s, c) \in hits /\ \A q \in hits : q <= strrchr(m, s, c)
      /\ IsFirst(s + strcspn(m, s, t), {p \in Area(s, Len(x)) :
                    \E k \in 1 .. Len(y) : y[k] = m[p]} \cup {s + Len(x)})
      /\ IsFirst(strstr(m, s, t), {s + k : k \in {k \in 0 .. Len(x) - Len(y) :
                    SubSeq(x, k + 1, k + Len(y)) = y}})

LEMMA PartsAgree ==
  ASSUME NEW m, NEW s, NEW t, NEW c, PlainAgree(m, s, t, c),
         \A n \in Counts \cup LongCounts : CountedAgree(m, s, t, n),
         \A n \in Counts : AreasAgree(m, s, t, n, c)
  PROVE  AgreeAt(m, s, t, c)
BY Zenon DEF AgreeAt, PlainAgree, CountedAgree, AreasAgree

\* The comparisons give the order of two strings and the searches the first place
\* there is (strrchr the last one), on every text, for every two places, count and
\* character: NULL, or the end, if there is none; with a count that, less one, is
\* below zero as a signed word strncmp gives 0 whatever the strings are.
THEOREM StringsSearched == Spec => []SearchesAgree
<1>1. SearchesAgree
  <2> SUFFICES ASSUME mem \in Texts
               PROVE  \A s, t \in Places, c \in {Nul, 97} : AgreeAt(mem, s, t, c)
    BY Zenon DEF SearchesAgree, AgreeAt
  <2>1. Counts \cup LongCounts \subseteq Nat
    BY LibraryAssumption, WordAssumption DEF Counts, LongCounts, HalfWord
  <2> QED
    BY <2>1, TextsAgree, CountsAgree, AreasMatch, PartsAgree
<1> QED
  BY <1>1, PTL
----------------------------------------------------------------------------
(* Numbers that were written are read back.                                *)

\* The digits before the last, and the last.
LEMMA DigitsUnfold ==
  ASSUME NEW n \in Nat, NEW base \in 2 .. 36, NEW large
  PROVE  Digits(n, base, large) =
           IF do_div(n, base).quot = 0 THEN <<DigitChar(do_div(n, base).mod, large)>>
           ELSE Digits(do_div(n, base).quot, base, large) \o <<DigitChar(do_div(n, base).mod, large)>>
<1> DEFINE D == [k \in Nat |-> do_div(k, base).quot]
           c == [k \in Nat |-> <<DigitChar(do_div(k, base).mod, large)>>]
           from == CHOOSE f : f = [k \in Nat |->
                     IF do_div(k, base).quot = 0 THEN <<DigitChar(do_div(k, base).mod, large)>>
                     ELSE f[do_div(k, base).quot] \o <<DigitChar(do_div(k, base).mod, large)>>]
<1>1. base \in Nat \ {0} /\ base >= 2 /\ base \in Nat
  OBVIOUS
<1>2. Shrinks(D)
  BY <1>1, DoDivDivides, DoDivShrinks DEF Shrinks
<1>3. \A f : Spells(f, D, c) <=>
        f = [k \in Nat |->
               IF do_div(k, base).quot = 0 THEN <<DigitChar(do_div(k, base).mod, large)>>
               ELSE f[do_div(k, base).quot] \o <<DigitChar(do_div(k, base).mod, large)>>]
  BY DEF Spells
<1>4. \E f : Spells(f, D, c)
  <2> HIDE DEF D, c
  <2> QED
    BY <1>2, SpeltAll
<1>5. Spells(from, D, c)
  <2>1. \E f : f = [k \in Nat |->
                     IF do_div(k, base).quot = 0 THEN <<DigitChar(do_div(k, base).mod, large)>>
                     ELSE f[do_div(k, base).quot] \o <<DigitChar(do_div(k, base).mod, large)>>]
    BY <1>3, <1>4, Zenon
  <2>2. from = [k \in Nat |->
                     IF do_div(k, base).quot = 0 THEN <<DigitChar(do_div(k, base).mod, large)>>
                     ELSE from[do_div(k, base).quot] \o <<DigitChar(do_div(k, base).mod, large)>>]
    BY <2>1, Zenon
  <2> QED
    BY <1>3, <2>2, Zenon
<1>6. \A k \in Nat : Digits(k, base, large) = from[k]
  BY Zenon DEF Digits
<1>7. \A k \in Nat : from[k] = IF D[k] = 0 THEN c[k] ELSE from[D[k]] \o c[k]
  <2> HIDE DEF D, c, from
  <2> QED
    BY <1>5 DEF Spells
<1>8. do_div(n, base).quot \in Nat
  BY <1>1, DoDivDivides
<1> HIDE DEF from
<1>9. D[n] = do_div(n, base).quot /\ c[n] = <<DigitChar(do_div(n, base).mod, large)>>
  OBVIOUS
<1> HIDE DEF D, c
<1> QED
  BY <1>6, <1>7, <1>8, <1>9

\* A number is zero, or has a rest and a last digit.  Induction takes them apart.
DigitsParts(n, base, large, q, d) ==
  /\ q \in Nat /\ d \in 0 .. base - 1 /\ n = base * q + d /\ (q # 0 => q < n)
  /\ Digits(n, base, large) = IF q = 0 THEN <<DigitChar(d, large)>>
                              ELSE Digits(q, base, large) \o <<DigitChar(d, large)>>

LEMMA DigitsSplit ==
  ASSUME NEW n \in Nat, NEW base \in 2 .. 36, NEW large
  PROVE  \E q, d : DigitsParts(n, base, large, q, d)
<1>1. base \in Nat \ {0} /\ base >= 2 /\ base \in Nat
  OBVIOUS
<1>2. PICK q, d : q = do_div(n, base).quot /\ d = do_div(n, base).mod
  OBVIOUS
<1>3. q \in Nat /\ d \in 0 .. base - 1 /\ n = base * q + d
  BY <1>1, <1>2, DoDivDivides
<1>4. q # 0 => q < n
  BY <1>1, <1>2, DoDivShrinks
<1>5. Digits(n, base, large) = IF q = 0 THEN <<DigitChar(d, large)>>
                              ELSE Digits(q, base, large) \o <<DigitChar(d, large)>>
  BY <1>2, DigitsUnfold
<1>6. DigitsParts(n, base, large, q, d)
  BY <1>3, <1>4, <1>5, Zenon DEF DigitsParts
<1> QED
  BY <1>6

\* The characters of digits in a base.
CharsOf(base, large) == {DigitChar(d, large) : d \in 0 .. base - 1}

\* The digits of a number are characters of its base, at least one, the first not
\* a zero if the number is not.
WellSpelt(n, base, large) ==
  /\ Digits(n, base, large) \in Seq(CharsOf(base, large))
  /\ Len(Digits(n, base, large)) >= 1
  /\ n # 0 => Digits(n, base, large)[1] # Zero

LEMMA DigitsWell ==
  ASSUME NEW n \in Nat, NEW base \in 2 .. 36, NEW large
  PROVE  WellSpelt(n, base, large)
<1> DEFINE B == {k \in Nat : ~WellSpelt(k, base, large)}
<1>1. SUFFICES ASSUME B # {} PROVE FALSE
  OBVIOUS
<1>2. PICK m \in Nat : ~WellSpelt(m, base, large) /\ \A l \in Nat : l < m => WellSpelt(l, base, large)
  <2>1. B \in SUBSET Nat
    OBVIOUS
  <2>2. PICK m \in B : \A l \in B : m <= l
    <3> HIDE DEF B
    <3> QED
      BY <1>1, <2>1, LeastNumber
  <2>3. ASSUME NEW l \in Nat, l < m PROVE WellSpelt(l, base, large)
    BY <2>2, <2>3
  <2> QED
    BY <2>2, <2>3
<1>3. PICK q, d : DigitsParts(m, base, large, q, d)
  BY DigitsSplit
<1>4. q \in Nat /\ d \in 0 .. base - 1 /\ m = base * q + d /\ (q # 0 => q < m)
  BY <1>3 DEF DigitsParts
<1> DEFINE S == CharsOf(base, large)
           c == DigitChar(d, large)
<1>5. c \in S
  BY <1>4 DEF CharsOf
<1>6. d # 0 => c # Zero
  BY <1>4 DEF DigitChar, Zero
<1>7. CASE q = 0
  <2>1. Digits(m, base, large) = <<c>>
    BY <1>3, <1>7 DEF DigitsParts
  <2>2. m = d
    BY <1>4, <1>7
  <2> HIDE DEF c, S
  <2>3. <<c>> \in Seq(S) /\ Len(<<c>>) >= 1 /\ <<c>>[1] = c
    BY <1>5
  <2>4. WellSpelt(m, base, large)
    BY <1>6, <2>1, <2>2, <2>3 DEF WellSpelt, S
  <2> QED
    BY <1>2, <2>4
<1>8. CASE q # 0
  <2>1. WellSpelt(q, base, large)
    BY <1>2, <1>4, <1>8
  <2>2. PICK before : before = Digits(q, base, large)
    OBVIOUS
  <2>3. Digits(m, base, large) = before \o <<c>>
    BY <1>3, <1>8, <2>2 DEF DigitsParts
  <2>4. before \in Seq(S) /\ Len(before) >= 1 /\ before[1] # Zero
    BY <1>8, <2>1, <2>2 DEF WellSpelt
  <2> HIDE DEF c, S
  <2>5. <<c>> \in Seq(S) /\ Len(<<c>>) = 1
    BY <1>5
  <2>6. /\ before \o <<c>> \in Seq(S) /\ Len(before \o <<c>>) = Len(before) + Len(<<c>>)
        /\ \A i \in 1 .. Len(before) : (before \o <<c>>)[i] = before[i]
    BY <2>4, <2>5, ConcatProperties
  <2>7. Len(before) \in Nat /\ 1 \in 1 .. Len(before)
    BY <2>4, LenProperties
  <2>8. Len(before \o <<c>>) >= 1 /\ (before \o <<c>>)[1] # Zero
    BY <2>4, <2>5, <2>6, <2>7
  <2>9. WellSpelt(m, base, large)
    BY <2>3, <2>6, <2>8 DEF WellSpelt, S
  <2> QED
    BY <1>2, <2>9
<1> QED
  BY <1>7, <1>8

\* A digit at a place, and a value that fits with it.
DigitIn(m, q, d, large) == m[q] = DigitChar(d, large)
FitsWord(v, b, d) == v * b + d < Word

\* A loop f over places, with a value so far, takes the characters ds from p on as
\* digits.
Follows(f, p, ds, base, large) ==
  \A k \in 1 .. Len(ds), d \in 0 .. base - 1, v \in Nat :
    DigitIn(ds, k, d, large) /\ FitsWord(v, base, d)
    => f[p + k - 1][v] = f[p + k][v * base + d]

ReadsBack(n, base, large) ==
  n < Word => \A f : \A p \in Nat :
    Follows(f, p, Digits(n, base, large), base, large)
    => f[p][0] = f[p + Len(Digits(n, base, large))][n]

\* Such a loop has the number after its digits.
LEMMA DigitsRead ==
  ASSUME NEW n \in Nat, NEW base \in 2 .. 36, NEW large
  PROVE  ReadsBack(n, base, large)
<1> DEFINE B == {k \in Nat : ~ReadsBack(k, base, large)}
<1>1. SUFFICES ASSUME B # {} PROVE FALSE
  OBVIOUS
<1>2. PICK m \in Nat : ~ReadsBack(m, base, large) /\ \A l \in Nat : l < m => ReadsBack(l, base, large)
  <2>1. B \in SUBSET Nat
    OBVIOUS
  <2>2. PICK m \in B : \A l \in B : m <= l
    <3> HIDE DEF B
    <3> QED
      BY <1>1, <2>1, LeastNumber
  <2>3. ASSUME NEW l \in Nat, l < m PROVE ReadsBack(l, base, large)
    BY <2>2, <2>3
  <2> QED
    BY <2>2, <2>3
<1>3. PICK q, d : DigitsParts(m, base, large, q, d)
  BY DigitsSplit
<1>4. q \in Nat /\ d \in 0 .. base - 1 /\ m = base * q + d /\ (q # 0 => q < m)
  BY <1>3 DEF DigitsParts
<1>5. m = q * base + d /\ d \in Nat
  BY <1>4
<1> DEFINE c == DigitChar(d, large)
<1>6. ASSUME m < Word, NEW f, NEW p \in Nat, Follows(f, p, Digits(m, base, large), base, large)
      PROVE  f[p][0] = f[p + Len(Digits(m, base, large))][m]
  <2>1. CASE q = 0
    <3>1. Digits(m, base, large) = <<c>> /\ m = d
      BY <1>3, <1>4, <2>1 DEF DigitsParts
    <3> HIDE DEF c
    <3>2. Len(<<c>>) = 1 /\ 1 \in 1 .. Len(<<c>>) /\ DigitIn(<<c>>, 1, d, large)
      BY DEF DigitIn, c
    <3>3. 0 * base + d = m /\ 0 \in Nat /\ p + 1 - 1 = p /\ FitsWord(0, base, d)
      BY <1>4, <1>6, <3>1 DEF FitsWord
    <3>4. f[p + 1 - 1][0] = f[p + 1][0 * base + d]
      BY <1>4, <1>6, <3>1, <3>2, <3>3, Zenon DEF Follows
    <3> QED
      BY <3>1, <3>2, <3>3, <3>4
  <2>2. CASE q # 0
    <3>1. PICK ds : ds = Digits(q, base, large)
      OBVIOUS
    <3>2. Digits(m, base, large) = ds \o <<c>>
      BY <1>3, <2>2, <3>1 DEF DigitsParts
    <3> DEFINE S == CharsOf(base, large)
    <3>3. ds \in Seq(S)
      BY <1>4, <3>1, DigitsWell DEF WellSpelt
    <3>4. c \in S
      BY <1>4 DEF CharsOf
    <3> HIDE DEF c, S
    <3>5. <<c>> \in Seq(S) /\ Len(<<c>>) = 1 /\ <<c>>[1] = c
      BY <3>4
    <3>6. /\ Len(ds \o <<c>>) = Len(ds) + Len(<<c>>)
          /\ \A i \in 1 .. Len(ds) : (ds \o <<c>>)[i] = ds[i]
          /\ \A i \in 1 .. Len(<<c>>) : (ds \o <<c>>)[Len(ds) + i] = <<c>>[i]
      BY <3>3, <3>5, ConcatProperties
    <3>7. PICK l \in Nat : l = Len(ds)
      BY <3>3, LenProperties
    <3>8. Len(ds \o <<c>>) = l + 1 /\ (ds \o <<c>>)[l + 1] = c /\ \A i \in 1 .. l : (ds \o <<c>>)[i] = ds[i]
      BY <3>5, <3>6, <3>7
    <3>9. Follows(f, p, ds, base, large)
      <4> SUFFICES ASSUME NEW k \in 1 .. Len(ds), NEW e \in 0 .. base - 1, NEW v \in Nat,
                          DigitIn(ds, k, e, large) /\ FitsWord(v, base, e)
                   PROVE  f[p + k - 1][v] = f[p + k][v * base + e]
        BY DEF Follows
      <4>1. k \in 1 .. Len(ds \o <<c>>) /\ DigitIn(ds \o <<c>>, k, e, large)
        BY <3>7, <3>8 DEF DigitIn
      <4> QED
        BY <1>6, <3>2, <4>1, Zenon DEF Follows
    <3>10. q < Word
      <4>1. Word \in Nat
        BY WordAssumption, ShortAssumption
      <4> QED
        BY <1>4, <1>6, <2>2, <4>1
    <3>11. ReadsBack(q, base, large)
      BY <1>2, <1>4, <2>2
    <3>12. f[p][0] = f[p + l][q]
      BY <3>1, <3>7, <3>9, <3>10, <3>11 DEF ReadsBack
    <3>13. f[p + (l + 1) - 1][q] = f[p + (l + 1)][q * base + d]
      <4>1. l + 1 \in 1 .. Len(ds \o <<c>>) /\ DigitIn(ds \o <<c>>, l + 1, d, large)
        BY <3>8 DEF c, DigitIn
      <4>2. FitsWord(q, base, d)
        BY <1>5, <1>6 DEF FitsWord
      <4> QED
        BY <1>4, <1>6, <3>2, <4>1, <4>2, Zenon DEF Follows
    <3>14. p + (l + 1) - 1 = p + l
      OBVIOUS
    <3> QED
      BY <1>5, <3>2, <3>8, <3>12, <3>13, <3>14
  <2> QED
    BY <2>1, <2>2
<1>7. ReadsBack(m, base, large)
  BY <1>6 DEF ReadsBack
<1> QED
  BY <1>2, <1>7

\* A loop f over the places p to h with a value so far: at a place and a value in H
\* it ends with the result r, else the value becomes s.
Descends(f, p, h, H, r, s) ==
  f = [q \in p .. h |-> [v \in Nat |-> IF <<q, v>> \in H THEN r[q][v] ELSE f[q + 1][s[q][v]]]]

\* There is one if it ends at h.
LEMMA DescentExists ==
  ASSUME NEW p \in Nat, NEW h \in Nat, NEW H, NEW r, NEW s, \A v \in Nat : <<h, v>> \in H
  PROVE  \E f : Descends(f, p, h, H, r, s)
<1> DEFINE X == {n \in Nat : p <= h - n => \E f : Descends(f, h - n, h, H, r, s)}
<1>1. 0 \in X
  <2> DEFINE g == [q \in h .. h |-> [v \in Nat |-> r[q][v]]]
  <2>1. \A v \in Nat : <<h, v>> \in H
    OBVIOUS
  <2>2. Descends(g, h, h, H, r, s)
    <3>1. \A q \in h .. h : q = h
      OBVIOUS
    <3>2. g = [q \in h .. h |-> [v \in Nat |-> IF <<q, v>> \in H THEN r[q][v] ELSE g[q + 1][s[q][v]]]]
      BY <2>1, <3>1
    <3> HIDE DEF g
    <3> QED
      BY <3>2 DEF Descends
  <2>3. h - 0 = h
    OBVIOUS
  <2> HIDE DEF g
  <2> QED
    BY <2>2, <2>3
<1>2. ASSUME NEW n \in Nat, n \in X PROVE n + 1 \in X
  <2> SUFFICES ASSUME p <= h - (n + 1)
               PROVE  \E f : Descends(f, h - (n + 1), h, H, r, s)
    OBVIOUS
  <2>1. PICK l \in Nat : l = h - (n + 1) /\ l + 1 = h - n /\ p <= l + 1 /\ l < h
    OBVIOUS
  <2>2. PICK g : Descends(g, l + 1, h, H, r, s)
    BY <1>2, <2>1
  <2> DEFINE first == [v \in Nat |-> IF <<l, v>> \in H THEN r[l][v] ELSE g[l + 1][s[l][v]]]
             f == [q \in l .. h |-> IF q = l THEN first ELSE g[q]]
  <2>3. \A q \in l + 1 .. h : f[q] = g[q]
    BY <2>1
  <2>5. ASSUME NEW q \in l .. h
        PROVE  f[q] = [v \in Nat |-> IF <<q, v>> \in H THEN r[q][v] ELSE f[q + 1][s[q][v]]]
    <3>1. CASE q = l
      <4>1. l + 1 \in l + 1 .. h
        BY <2>1
      <4>2. f[l + 1] = g[l + 1]
        BY <2>3, <4>1
      <4>3. f[l] = first
        BY <2>1
      <4> HIDE DEF f
      <4> QED
        BY <3>1, <4>2, <4>3
    <3>2. CASE q # l
      <4>1. q \in l + 1 .. h
        BY <2>1, <3>2
      <4>2. g[q] = [v \in Nat |-> IF <<q, v>> \in H THEN r[q][v] ELSE g[q + 1][s[q][v]]]
        BY <2>2, <4>1 DEF Descends
      <4>3. CASE q = h
        <5>1. \A v \in Nat : <<q, v>> \in H
          BY <4>3
        <5>2. f[q] = g[q]
          BY <2>3, <4>1
        <5> HIDE DEF f
        <5> QED
          BY <4>2, <5>1, <5>2
      <4>4. CASE q # h
        <5>1. q + 1 \in l + 1 .. h
          BY <2>1, <4>1, <4>4
        <5>2. f[q] = g[q] /\ f[q + 1] = g[q + 1]
          BY <2>3, <4>1, <5>1
        <5> HIDE DEF f
        <5> QED
          BY <4>2, <5>2
      <4> QED
        BY <4>3, <4>4
    <3> QED
      BY <3>1, <3>2
  <2>6. f = [q \in l .. h |-> f[q]]
    OBVIOUS
  <2> HIDE DEF f
  <2>7. Descends(f, l, h, H, r, s)
    BY <2>5, <2>6 DEF Descends
  <2> QED
    BY <2>1, <2>7
<1> HIDE DEF X
<1>3. Nat \subseteq X
  BY <1>1, <1>2, SetInduction
<1>4. CASE p <= h
  <2>1. h - p \in Nat /\ h - (h - p) = p
    BY <1>4
  <2> QED
    BY <1>3, <1>4, <2>1 DEF X
<1>5. CASE h < p
  <2>1. p .. h = {}
    BY <1>5
  <2>2. Descends([q \in {} |-> 0], p, h, H, r, s)
    <3>1. \A f : Descends(f, p, h, H, r, s) <=>
            f = [q \in {} |-> [v \in Nat |-> IF <<q, v>> \in H THEN r[q][v] ELSE f[q + 1][s[q][v]]]]
      BY <2>1 DEF Descends
    <3> QED
      BY <3>1
  <2> QED
    BY <2>2
<1> QED
  BY <1>4, <1>5

----------------------------------------------------------------------------
(* strtoul.                                                                *)

\* One turn of its loop at place q with the value v.
Turn(f, m, b, q, v) ==
  IF m[q] = Nul \/ DigitValue(m[q]) >= b THEN [v |-> v, end |-> q]
  ELSE IF Overflows((v * b) % Word, v) THEN [v |-> 0, end |-> Null]
  ELSE f[q + 1][(((v * b) % Word) + DigitValue(m[q])) % Word]

\* f is the loop from p to the NUL at h.
ConvertsBy(f, m, p, h, b) ==
  /\ Convert(m, p, b) = f[p][0]
  /\ \A q \in p .. h, v \in Nat : f[q][v] = Turn(f, m, b, q, v)

LEMMA ConvertLoop ==
  ASSUME NEW m, NEW p \in Nat, NEW h \in Nat, h = FirstOf(m, p, {Nul}), m[h] = Nul, NEW b
  PROVE  \E f : ConvertsBy(f, m, p, h, b)
<1> DEFINE ends(q) == m[q] = Nul \/ DigitValue(m[q]) >= b
           over(v) == Overflows((v * b) % Word, v)
           H == {x \in Nat \X Nat : ends(x[1]) \/ over(x[2])}
           r == [q \in Nat |-> [v \in Nat |-> IF ends(q) THEN [v |-> v, end |-> q] ELSE [v |-> 0, end |-> Null]]]
           s == [q \in Nat |-> [v \in Nat |-> (((v * b) % Word) + DigitValue(m[q])) % Word]]
           Is(f) == f = [q \in p .. h |-> [v \in Nat |-> Turn(f, m, b, q, v)]]
           loop == CHOOSE f : Is(f)
<1>1. \E f : Descends(f, p, h, H, r, s)
  <2>1. \A v \in Nat : <<h, v>> \in H
    <3>1. ends(h)
      OBVIOUS
    <3> HIDE DEF ends, over
    <3> QED
      BY <3>1
  <2> HIDE DEF H, r, s
  <2> QED
    BY <2>1, DescentExists
<1>2. \A f : Descends(f, p, h, H, r, s) <=> Is(f)
  <2>1. ASSUME NEW f
        PROVE  [q \in p .. h |-> [v \in Nat |-> IF <<q, v>> \in H THEN r[q][v] ELSE f[q + 1][s[q][v]]]]
               = [q \in p .. h |-> [v \in Nat |-> Turn(f, m, b, q, v)]]
    <3>1. \A q \in Nat, v \in Nat : <<q, v>> \in H <=> ends(q) \/ over(v)
      <4> HIDE DEF ends, over
      <4> QED
        OBVIOUS
    <3>2. \A q \in Nat, v \in Nat : r[q][v] = IF ends(q) THEN [v |-> v, end |-> q] ELSE [v |-> 0, end |-> Null]
      <4> HIDE DEF ends
      <4> QED
        OBVIOUS
    <3>3. \A q \in Nat, v \in Nat : s[q][v] = (((v * b) % Word) + DigitValue(m[q])) % Word
      OBVIOUS
    <3>4. \A q \in Nat, v \in Nat : Turn(f, m, b, q, v) =
            IF ends(q) THEN [v |-> v, end |-> q] ELSE IF over(v) THEN [v |-> 0, end |-> Null]
            ELSE f[q + 1][(((v * b) % Word) + DigitValue(m[q])) % Word]
      BY DEF Turn
    <3>5. \A q \in p .. h : q \in Nat
      OBVIOUS
    <3> HIDE DEF H, r, s, ends, over
    <3>6. \A q \in p .. h, v \in Nat :
            (IF <<q, v>> \in H THEN r[q][v] ELSE f[q + 1][s[q][v]]) = Turn(f, m, b, q, v)
      <4> SUFFICES ASSUME NEW q \in Nat, NEW v \in Nat
                   PROVE  (IF <<q, v>> \in H THEN r[q][v] ELSE f[q + 1][s[q][v]]) = Turn(f, m, b, q, v)
        BY <3>5
      <4>1. <<q, v>> \in H <=> ends(q) \/ over(v)
        BY <3>1
      <4>2. r[q][v] = IF ends(q) THEN [v |-> v, end |-> q] ELSE [v |-> 0, end |-> Null]
        BY <3>2
      <4>3. s[q][v] = (((v * b) % Word) + DigitValue(m[q])) % Word
        BY <3>3
      <4>4. Turn(f, m, b, q, v) = IF ends(q) THEN [v |-> v, end |-> q] ELSE IF over(v) THEN [v |-> 0, end |-> Null]
                                  ELSE f[q + 1][(((v * b) % Word) + DigitValue(m[q])) % Word]
        BY <3>4
      <4> QED
        BY <4>1, <4>2, <4>3, <4>4, Zenon
    <3> QED
      BY <3>6
  <2> HIDE DEF H, r, s
  <2> QED
    BY <2>1, Zenon DEF Descends
<1>3. Is(loop)
  <2> HIDE DEF H, r, s, Is
  <2>1. \E f : Is(f)
    BY <1>1, <1>2, Zenon
  <2> QED
    BY <2>1, Zenon
<1>4. Convert(m, p, b) = loop[p][0]
  BY Zenon DEF Convert, Turn
<1> HIDE DEF loop
<1>5. \A q \in p .. h, v \in Nat : loop[q][v] = Turn(loop, m, b, q, v)
  <2>1. loop = [q \in p .. h |-> [v \in Nat |-> Turn(loop, m, b, q, v)]]
    BY <1>3
  <2>2. PICK g : g = [q \in p .. h |-> [v \in Nat |-> Turn(loop, m, b, q, v)]]
    OBVIOUS
  <2>3. \A q \in p .. h, v \in Nat : g[q][v] = Turn(loop, m, b, q, v)
    BY <2>2
  <2> QED
    BY <2>1, <2>2, <2>3
<1>6. ConvertsBy(loop, m, p, h, b)
  BY <1>4, <1>5 DEF ConvertsBy
<1> QED
  BY <1>6

\* What the characters of digits are, and are not.
LEMMA DigitCharacter ==
  ASSUME NEW d \in 0 .. 35, NEW large
  PROVE  /\ DigitChar(d, large) \in (48 .. 57) \cup (65 .. 90) \cup (97 .. 122)
         /\ DigitValue(DigitChar(d, large)) = d
         /\ DigitChar(d, large) # Nul
         /\ d < 16 => DigitChar(d, large) \notin {88, 120}
BY DEF DigitChar, DigitValue, Zero, Nul

\* Where a text stands in memory.
SpeltIn(m, a, s) == \A k \in 1 .. Len(s) : m[a + k - 1] = s[k]

\* What a turn should do there.
TakesDigit(f, m, b, q, v, d) == Turn(f, m, b, q, v) = f[q + 1][v * b + d]

\* A turn at a digit that still fits.
LEMMA TurnAtDigit ==
  ASSUME NEW f, NEW m, NEW b \in 2 .. 36, NEW q, NEW v \in Nat, NEW d \in 0 .. b - 1, NEW large,
         DigitIn(m, q, d, large), FitsWord(v, b, d)
  PROVE  TakesDigit(f, m, b, q, v, d)
<1>0. m[q] = DigitChar(d, large) /\ v * b + d < Word
  BY DEF DigitIn, FitsWord
<1>1. Word \in Nat \ {0} /\ d \in 0 .. 35 /\ d \in Nat /\ b \in Nat
  BY WordAssumption, ShortAssumption
<1>2. m[q] # Nul /\ DigitValue(m[q]) = d
  BY <1>0, <1>1, DigitCharacter
<1>3. PICK w \in Nat : w = v * b
  BY <1>1
<1>4. w >= v
  <2>1. v * b = v + v * (b - 1) /\ v * (b - 1) \in Nat
    BY <1>1
  <2> QED
    BY <1>3, <2>1
<1>5. w % Word = w
  <2>1. w < Word
    BY <1>0, <1>1, <1>3
  <2> QED
    BY <1>1, <2>1, ModSmall
<1>6. (w + d) % Word = w + d
  BY <1>0, <1>1, <1>3, ModSmall
<1>7. ~Overflows(w, v)
  BY <1>3, <1>4 DEF Overflows
<1>8. ~(d >= b)
  BY <1>1
<1> QED
  BY <1>2, <1>3, <1>5, <1>6, <1>7, <1>8 DEF Turn, TakesDigit

\* What stands at a place where digits of a base stand.
LEMMA HeldDigit ==
  ASSUME NEW m, NEW a \in Nat, NEW n \in Nat, NEW b \in 2 .. 36, NEW large,
         SpeltIn(m, a, Digits(n, b, large)), NEW j \in Nat, a <= j, j < a + Len(Digits(n, b, large))
  PROVE  \E d \in 0 .. b - 1 : DigitIn(m, j, d, large)
<1>1. PICK ds : ds = Digits(n, b, large)
  OBVIOUS
<1>2. ds \in Seq(CharsOf(b, large))
  BY <1>1, DigitsWell DEF WellSpelt
<1>3. Len(ds) \in Nat
  BY <1>2, LenProperties
<1>4. PICK k \in 1 .. Len(ds) : j = a + k - 1
  <2>1. (j - a) + 1 \in 1 .. Len(ds) /\ j = a + ((j - a) + 1) - 1
    BY <1>1, <1>3
  <2> QED
    BY <2>1
<1>5. m[j] = ds[k]
  BY <1>1, <1>4 DEF SpeltIn
<1>6. ds[k] \in CharsOf(b, large)
  <2> DEFINE S == CharsOf(b, large)
  <2> HIDE DEF S
  <2>1. ds \in Seq(S)
    BY <1>2 DEF S
  <2>2. ds[k] \in S
    BY <1>4, <2>1, ElementOfSeq
  <2> QED
    BY <2>2 DEF S
<1> QED
  BY <1>5, <1>6 DEF CharsOf, DigitIn

NoDigit(c, b) == c = Nul \/ DigitValue(c) >= b

\* Digits at a, or behind a zero there, and behind them at q something else; and
\* the text has an end from there on.
DigitsAt(m, a, z, n, b, large, q) ==
  /\ z \in {0, 1} /\ (z = 1 => m[a] = Zero)
  /\ SpeltIn(m, a + z, Digits(n, b, large)) /\ q = a + z + Len(Digits(n, b, large))
  /\ NoDigit(m[q], b)
EndsAfter(m, q, e) == e \in Nat /\ q <= e /\ m[e] = Nul

Converts(m, a, b, n, q) == Convert(m, a, b) = [v |-> n, end |-> q]

\* The loop of strtoul reads back such a number.
LEMMA ConvertsDigits ==
  ASSUME NEW m, NEW a \in Nat, NEW z, NEW n \in Nat, n < Word, NEW b \in 2 .. 36, NEW large,
         NEW q \in Nat, DigitsAt(m, a, z, n, b, large, q), NEW e, EndsAfter(m, q, e)
  PROVE  Converts(m, a, b, n, q)
<1>0. /\ z \in {0, 1} /\ (z = 1 => m[a] = Zero)
      /\ SpeltIn(m, a + z, Digits(n, b, large)) /\ q = a + z + Len(Digits(n, b, large))
      /\ NoDigit(m[q], b) /\ e \in Nat /\ q <= e /\ m[e] = Nul
  BY DEF DigitsAt, EndsAfter
<1>1. Word \in Nat \ {0} /\ b \in Nat /\ z \in Nat /\ a + z \in Nat
  BY <1>0, WordAssumption, ShortAssumption
<1>2. PICK l \in Nat : l = Len(Digits(n, b, large)) /\ q = a + z + l
  <2>1. Digits(n, b, large) \in Seq(CharsOf(b, large))
    BY DigitsWell DEF WellSpelt
  <2>2. Len(Digits(n, b, large)) \in Nat
    BY <2>1, LenProperties
  <2> QED
    BY <1>0, <2>2
<1>3. \A j \in Nat : a + z <= j /\ j < q => \E d \in 0 .. b - 1 : DigitIn(m, j, d, large)
  <2> SUFFICES ASSUME NEW j \in Nat, a + z <= j, j < q PROVE \E d \in 0 .. b - 1 : DigitIn(m, j, d, large)
    OBVIOUS
  <2>1. PICK i \in Nat : i = a + z
    BY <1>1
  <2>2. i <= j /\ j < i + Len(Digits(n, b, large)) /\ SpeltIn(m, i, Digits(n, b, large))
    BY <1>0, <1>2, <2>1
  <2> QED
    BY <2>2, HeldDigit, Zenon
<1>4. Zero = DigitChar(0, large)
  BY DEF Zero, DigitChar
<1>5. \A j \in Nat : a <= j /\ j < q => m[j] # Nul
  <2> SUFFICES ASSUME NEW j \in Nat, a <= j, j < q PROVE m[j] # Nul
    OBVIOUS
  <2>1. CASE a + z <= j
    <3>1. PICK d \in 0 .. b - 1 : DigitIn(m, j, d, large)
      BY <1>3, <2>1
    <3>2. d \in 0 .. 35
      OBVIOUS
    <3> QED
      BY <3>1, <3>2, DigitCharacter DEF DigitIn
  <2>2. CASE j < a + z
    <3>1. z = 1 /\ j = a
      BY <1>0, <2>2
    <3> QED
      BY <1>0, <3>1 DEF Zero, Nul
  <2> QED
    BY <1>1, <2>1, <2>2
<1>6. a <= q /\ q \in Nat
  BY <1>1, <1>2
<1>7. PICK h \in Nat : h = FirstOf(m, a, {Nul}) /\ a <= h /\ h <= e /\ m[h] = Nul
  <2>1. a <= e /\ m[e] \in {Nul} /\ e \in Nat
    BY <1>0, <1>6
  <2>2. /\ FirstOf(m, a, {Nul}) \in Nat /\ a <= FirstOf(m, a, {Nul}) /\ FirstOf(m, a, {Nul}) <= e
        /\ m[FirstOf(m, a, {Nul})] \in {Nul}
    BY <2>1, FirstOfFinds
  <2> QED
    BY <2>2
<1>8. q <= h
  BY <1>5, <1>7
<1>9. PICK f : ConvertsBy(f, m, a, h, b)
  BY <1>7, ConvertLoop
<1>10. Convert(m, a, b) = f[a][0] /\ \A j \in a .. h, v \in Nat : f[j][v] = Turn(f, m, b, j, v)
  BY <1>9 DEF ConvertsBy
<1>11. Follows(f, a + z, Digits(n, b, large), b, large)
  <2> SUFFICES ASSUME NEW k \in 1 .. l, NEW d \in 0 .. b - 1, NEW v \in Nat,
                      DigitIn(Digits(n, b, large), k, d, large), FitsWord(v, b, d)
               PROVE  f[a + z + k - 1][v] = f[a + z + k][v * b + d]
    BY <1>2 DEF Follows
  <2>1. PICK j \in Nat : j = a + z + k - 1 /\ j + 1 = a + z + k /\ a <= j /\ j < q
    BY <1>1, <1>2
  <2>2. DigitIn(m, j, d, large)
    BY <1>0, <1>2, <2>1 DEF SpeltIn, DigitIn
  <2>3. j \in a .. h
    BY <1>8, <2>1
  <2>4. f[j][v] = Turn(f, m, b, j, v)
    BY <1>10, <2>3
  <2>5. Turn(f, m, b, j, v) = f[j + 1][v * b + d]
    <3>1. FitsWord(v, b, d)
      OBVIOUS
    <3>2. TakesDigit(f, m, b, j, v, d)
      BY <2>2, <3>1, TurnAtDigit, Zenon
    <3> QED
      BY <3>2 DEF TakesDigit
  <2> QED
    BY <2>1, <2>4, <2>5
<1>12. f[a + z][0] = f[a + z + l][n]
  <2>1. ReadsBack(n, b, large)
    BY DigitsRead
  <2> QED
    BY <1>1, <1>2, <1>11, <2>1, Zenon DEF ReadsBack
<1>13. f[a][0] = f[a + z][0]
  <2>1. CASE z = 0
    BY <2>1
  <2>2. CASE z = 1
    <3>1. 0 * b + 0 < Word /\ 0 * b + 0 = 0 /\ 0 \in 0 .. b - 1
      BY <1>1
    <3>2. Turn(f, m, b, a, 0) = f[a + 1][0 * b + 0]
      <4>1. DigitIn(m, a, 0, large) /\ FitsWord(0, b, 0) /\ 0 \in Nat
        BY <1>0, <1>4, <2>2, <3>1 DEF DigitIn, FitsWord
      <4>2. TakesDigit(f, m, b, a, 0, 0)
        BY <3>1, <4>1, TurnAtDigit, Zenon
      <4> QED
        BY <4>2 DEF TakesDigit
    <3>3. a \in a .. h
      BY <1>7
    <3> QED
      BY <1>10, <2>2, <3>1, <3>2, <3>3
  <2> QED
    BY <1>0, <2>1, <2>2
<1>14. f[q][n] = [v |-> n, end |-> q]
  <2>1. q \in a .. h
    BY <1>6, <1>8
  <2>2. f[q][n] = Turn(f, m, b, q, n)
    BY <1>10, <2>1
  <2> QED
    BY <1>0, <2>2 DEF Turn, NoDigit
<1> QED
  BY <1>2, <1>10, <1>12, <1>13, <1>14 DEF Converts

\* White space at the front is skipped, here at most one blank.
LEMMA SkipsOne ==
  ASSUME NEW m, NEW p \in Nat
  PROVE  /\ ~isspace(m[p]) => SkipSpace(m, p) = p
         /\ isspace(m[p]) /\ ~isspace(m[p + 1]) => SkipSpace(m, p) = p + 1
<1> DEFINE Halt == {i \in Nat : ~isspace(m[i])}
           Is(f) == f = [i \in Nat |-> IF isspace(m[i]) THEN f[i + 1] ELSE i]
           at == CHOOSE f : Is(f)
<1>1. \A f : Seeks(f, Halt) <=> Is(f)
  <2>1. \A f : [k \in Nat |-> IF k \in Halt THEN k ELSE f[k + 1]]
               = [i \in Nat |-> IF isspace(m[i]) THEN f[i + 1] ELSE i]
    OBVIOUS
  <2> HIDE DEF Halt
  <2> QED
    BY <2>1, Zenon DEF Seeks
<1>2. Is(at)
  <2>1. \E f : Seeks(f, Halt)
    <3> HIDE DEF Halt
    <3> QED
      BY SeekExists
  <2> HIDE DEF Halt, Is
  <2> QED
    BY <1>1, <2>1, Zenon
<1>3. SkipSpace(m, p) = at[p]
  BY Zenon DEF SkipSpace
<1>4. \A i \in Nat : at[i] = IF isspace(m[i]) THEN at[i + 1] ELSE i
  <2>1. at = [i \in Nat |-> IF isspace(m[i]) THEN at[i + 1] ELSE i]
    BY <1>2
  <2> HIDE DEF at
  <2> QED
    BY <2>1
<1> HIDE DEF at
<1> QED
  BY <1>3, <1>4

\* Two texts in a row are the one and behind it the other.
LEMMA SpeltJoined ==
  ASSUME NEW S, NEW s \in Seq(S), NEW t \in Seq(S), NEW m, NEW a \in Nat, SpeltIn(m, a, s \o t)
  PROVE  SpeltIn(m, a, s) /\ SpeltIn(m, a + Len(s), t)
<1>1. PICK l \in Nat, k \in Nat : l = Len(s) /\ k = Len(t)
  BY LenProperties
<1>2. /\ Len(s \o t) = l + k
      /\ \A i \in 1 .. l : (s \o t)[i] = s[i]
      /\ \A i \in 1 .. k : (s \o t)[l + i] = t[i]
  BY <1>1, ConcatProperties
<1>3. ASSUME NEW i \in 1 .. l PROVE m[a + i - 1] = s[i]
  <2>1. i \in 1 .. Len(s \o t)
    BY <1>2
  <2>2. m[a + i - 1] = (s \o t)[i]
    BY <2>1 DEF SpeltIn
  <2> QED
    BY <1>2, <2>2
<1>4. ASSUME NEW i \in 1 .. k PROVE m[a + l + i - 1] = t[i]
  <2>1. PICK j \in 1 .. Len(s \o t) : j = l + i /\ a + j - 1 = a + l + i - 1
    BY <1>2
  <2>2. m[a + j - 1] = (s \o t)[j]
    BY <2>1 DEF SpeltIn
  <2> QED
    BY <1>2, <2>1, <2>2
<1> QED
  BY <1>1, <1>3, <1>4 DEF SpeltIn

\* What strtoul passes over before prefix and digits: p is the place behind it.
Front(m, i, p) ==
  LET p0 == SkipSpace(m, i) IN p = IF m[p0] = Plus THEN p0 + 1 ELSE p0

NoLead(c) == ~isspace(c) /\ c # Plus /\ c # Minus

LEMMA FrontPassed ==
  ASSUME NEW m, NEW i \in Nat
  PROVE  /\ NoLead(m[i]) => Front(m, i, i) /\ SkipSpace(m, i) = i
         /\ m[i] = Plus => Front(m, i, i + 1) /\ SkipSpace(m, i) = i
         /\ m[i] = Minus => SkipSpace(m, i) = i
         /\ m[i] = Blank /\ NoLead(m[i + 1]) => Front(m, i, i + 1) /\ SkipSpace(m, i) = i + 1
         /\ m[i] = Blank /\ m[i + 1] = Minus => SkipSpace(m, i) = i + 1
<1>1. /\ ~isspace(m[i]) => SkipSpace(m, i) = i
      /\ isspace(m[i]) /\ ~isspace(m[i + 1]) => SkipSpace(m, i) = i + 1
  BY SkipsOne
<1>2. ~isspace(Plus) /\ isspace(Blank) /\ ~isspace(Minus)
  BY DEF isspace, Spaces, Plus, Blank, Minus
<1> QED
  BY <1>1, <1>2, Zenon DEF Front, NoLead

LeadingZeros == {<<>>, <<Zero>>, <<Zero, 120>>}

\* The bases b of digits behind such zeros that strtoul takes with a given base.
TakenIn(b, base, zeros, v) ==
  \/ b = base /\ zeros # <<Zero, 120>>
  \/ b = 10 /\ base = 0 /\ zeros = <<>> /\ v # 0
  \/ b = 8 /\ base = 0 /\ zeros = <<Zero>>
  \/ b = 16 /\ base \in {0, 16} /\ zeros = <<Zero, 120>>

\* A number at a, spelt behind zeros, and the place q behind its digits.
NumberAt(m, a, zeros, n, b, large, q) ==
  /\ a \in Nat /\ zeros \in LeadingZeros
  /\ SpeltIn(m, a, zeros) /\ SpeltIn(m, a + Len(zeros), Digits(n, b, large))
  /\ q = a + Len(zeros) + Len(Digits(n, b, large)) /\ m[q] \in {Nul, 47}

\* The characters of such a number.
NumberPlaced(m, a, zeros, n, b, large, q) ==
  /\ a \in Nat /\ q \in Nat /\ a < q /\ a + 1 <= q
  /\ Len(zeros) \in Nat /\ Len(Digits(n, b, large)) \in Nat /\ Len(Digits(n, b, large)) >= 1
  /\ zeros # <<>> => m[a] = Zero
  /\ zeros = <<Zero, 120>> => m[a + 1] = 120
  /\ zeros = <<>> => (n # 0 => m[a] # Zero)
  /\ NoLead(m[a])
  /\ b <= 16 /\ zeros # <<Zero, 120>> => m[a + 1] \notin {88, 120}
  /\ NoDigit(m[q], b)

LEMMA NumberCharacters ==
  ASSUME NEW m, NEW a, NEW zeros, NEW n \in Nat, NEW b \in 2 .. 36, NEW large, NEW q,
         NumberAt(m, a, zeros, n, b, large, q)
  PROVE  NumberPlaced(m, a, zeros, n, b, large, q)
<1>1. PICK ds : ds = Digits(n, b, large)
  OBVIOUS
<1>2. ds \in Seq(CharsOf(b, large)) /\ Len(ds) >= 1 /\ (n # 0 => ds[1] # Zero)
  BY <1>1, DigitsWell DEF WellSpelt
<1>3. PICK l \in Nat : l = Len(ds) /\ l >= 1
  BY <1>2, LenProperties
<1>4. a \in Nat /\ zeros \in LeadingZeros /\ SpeltIn(m, a, zeros) /\ q = a + Len(zeros) + l
  BY <1>1, <1>3 DEF NumberAt
<1>5. SpeltIn(m, a + Len(zeros), ds) /\ m[q] \in {Nul, 47}
  BY <1>1 DEF NumberAt
<1>6. PICK z \in {0, 1, 2} : z = Len(zeros)
  BY <1>4 DEF LeadingZeros
<1>7. a \in Nat /\ q \in Nat /\ a < q /\ a + 1 <= q /\ q = a + z + l
  BY <1>3, <1>4, <1>6
<1>8. zeros # <<>> => m[a] = Zero
  <2> SUFFICES ASSUME zeros # <<>> PROVE m[a] = Zero
    OBVIOUS
  <2>1. 1 \in 1 .. Len(zeros) /\ zeros[1] = Zero /\ a + 1 - 1 = a
    BY <1>4 DEF LeadingZeros
  <2>2. m[a + 1 - 1] = zeros[1]
    BY <1>4, <2>1 DEF SpeltIn
  <2> QED
    BY <2>1, <2>2
<1>9. zeros = <<Zero, 120>> => m[a + 1] = 120
  <2> SUFFICES ASSUME zeros = <<Zero, 120>> PROVE m[a + 1] = 120
    OBVIOUS
  <2>1. 2 \in 1 .. Len(zeros) /\ zeros[2] = 120 /\ a + 2 - 1 = a + 1
    BY <1>4
  <2>2. m[a + 2 - 1] = zeros[2]
    BY <1>4, <2>1 DEF SpeltIn
  <2> QED
    BY <2>1, <2>2
<1>10. zeros = <<>> => (n # 0 => m[a] # Zero)
  <2> SUFFICES ASSUME zeros = <<>> PROVE m[a] = ds[1]
    BY <1>2
  <2>1. Len(zeros) = 0 /\ a + 0 + 1 - 1 = a /\ 1 \in 1 .. Len(ds)
    BY <1>3, <1>4
  <2>2. m[a + Len(zeros) + 1 - 1] = ds[1]
    BY <1>5, <2>1 DEF SpeltIn
  <2> QED
    BY <2>1, <2>2
<1>11. \A j \in Nat : a + z <= j /\ j < q => \E d \in 0 .. b - 1 : DigitIn(m, j, d, large)
  <2> SUFFICES ASSUME NEW j \in Nat, a + z <= j, j < q PROVE \E d \in 0 .. b - 1 : DigitIn(m, j, d, large)
    OBVIOUS
  <2>1. PICK i \in Nat : i = a + z
    BY <1>7
  <2>2. i <= j /\ j < i + Len(Digits(n, b, large)) /\ SpeltIn(m, i, Digits(n, b, large))
    BY <1>1, <1>3, <1>5, <1>6, <1>7, <2>1
  <2> QED
    BY <2>2, HeldDigit, Zenon
<1>12. NoLead(m[a])
  <2>1. CASE zeros # <<>>
    BY <1>8, <2>1 DEF NoLead, isspace, Spaces, Zero, Plus, Minus, Blank
  <2>2. CASE zeros = <<>>
    <3>1. a + z <= a
      BY <1>6, <1>7, <2>2
    <3>2. PICK d \in 0 .. b - 1 : DigitIn(m, a, d, large)
      BY <1>7, <1>11, <3>1
    <3>3. DigitChar(d, large) \in (48 .. 57) \cup (65 .. 90) \cup (97 .. 122)
      <4>1. d \in 0 .. 35
        OBVIOUS
      <4> QED
        BY <4>1, DigitCharacter
    <3> QED
      BY <3>2, <3>3 DEF NoLead, DigitIn, isspace, Spaces, Zero, Plus, Minus, Blank
  <2> QED
    BY <2>1, <2>2
<1>13. b <= 16 /\ zeros # <<Zero, 120>> => m[a + 1] \notin {88, 120}
  <2> SUFFICES ASSUME b <= 16, zeros # <<Zero, 120>> PROVE m[a + 1] \notin {88, 120}
    OBVIOUS
  <2>1. a + z <= a + 1
    <3>1. z # 2
      BY <1>4, <1>6 DEF LeadingZeros
    <3> QED
      BY <1>6, <1>7, <3>1
  <2>2. CASE a + 1 = q
    BY <1>5, <2>2 DEF Nul
  <2>3. CASE a + 1 # q
    <3>1. PICK j \in Nat : j = a + 1 /\ a + z <= j /\ j < q
      BY <1>7, <2>1, <2>3
    <3>2. PICK d \in 0 .. b - 1 : DigitIn(m, j, d, large)
      BY <1>11, <3>1
    <3>3. d \in 0 .. 35 /\ d < 16
      OBVIOUS
    <3>4. DigitChar(d, large) \notin {88, 120}
      BY <3>3, DigitCharacter
    <3> QED
      BY <3>1, <3>2, <3>4 DEF DigitIn
  <2> QED
    BY <2>2, <2>3
<1>14. NoDigit(m[q], b)
  <2>1. DigitValue(47) = 255
    BY DEF DigitValue, Zero
  <2>2. 255 >= b
    OBVIOUS
  <2> QED
    BY <1>5, <2>1, <2>2 DEF NoDigit
<1> QED
  BY <1>1, <1>2, <1>3, <1>6, <1>7, <1>8, <1>9, <1>10, <1>12, <1>13, <1>14 DEF NumberPlaced

\* strtoul reads such a number.
Reads(m, i, base, n, q) == strtoul(m, i, base) = [v |-> n, end |-> q]

LEMMA UnsignedRead ==
  ASSUME NEW m, NEW i \in Nat, NEW a, Front(m, i, a), NEW zeros, NEW n \in Nat, n < Word,
         NEW b \in 2 .. 36, NEW large, NEW q, NumberAt(m, a, zeros, n, b, large, q),
         NEW base, TakenIn(b, base, zeros, n), NEW e, EndsAfter(m, q, e)
  PROVE  Reads(m, i, base, n, q)
<1>1. /\ a \in Nat /\ q \in Nat /\ a < q /\ a + 1 <= q
      /\ Len(zeros) \in Nat /\ Len(Digits(n, b, large)) \in Nat
      /\ zeros # <<>> => m[a] = Zero
      /\ zeros = <<Zero, 120>> => m[a + 1] = 120
      /\ zeros = <<>> => (n # 0 => m[a] # Zero)
      /\ b <= 16 /\ zeros # <<Zero, 120>> => m[a + 1] \notin {88, 120}
      /\ NoDigit(m[q], b)
  <2>1. NumberPlaced(m, a, zeros, n, b, large, q)
    BY NumberCharacters, Zenon
  <2> QED
    BY <2>1 DEF NumberPlaced
<1>2. /\ zeros \in LeadingZeros /\ SpeltIn(m, a + Len(zeros), Digits(n, b, large))
      /\ q = a + Len(zeros) + Len(Digits(n, b, large))
  BY DEF NumberAt
<1> DEFINE hex == base \in {0, 16} /\ m[a] = Zero /\ m[a + 1] \in {88, 120}
           bb == IF hex THEN 16 ELSE IF base # 0 THEN base ELSE IF m[a] = Zero THEN 8 ELSE 10
<1>3. strtoul(m, i, base) = Convert(m, IF hex THEN a + 2 ELSE a, bb)
  BY Zenon DEF strtoul, Front
<1>4. CASE zeros = <<Zero, 120>>
  <2>1. b = 16 /\ hex /\ Len(zeros) = 2
    BY <1>1, <1>4 DEF TakenIn
  <2>2. PICK p \in Nat : p = a + 2
    BY <1>1
  <2>3. DigitsAt(m, p, 0, n, b, large, q)
    BY <1>1, <1>2, <2>1, <2>2 DEF DigitsAt
  <2>4. Converts(m, p, b, n, q)
    <3>1. p \in Nat /\ q \in Nat /\ EndsAfter(m, q, e) /\ n < Word
      BY <1>1
    <3> QED
      BY <2>3, <3>1, ConvertsDigits, Zenon
  <2>5. strtoul(m, i, base) = Convert(m, p, b)
    BY <1>3, <2>1, <2>2
  <2> QED
    BY <2>4, <2>5 DEF Converts, Reads
<1>5. CASE zeros # <<Zero, 120>>
  <2>1. PICK z \in {0, 1} : z = Len(zeros) /\ (z = 1 => m[a] = Zero)
    BY <1>1, <1>2, <1>5 DEF LeadingZeros
  <2>2. Converts(m, a, b, n, q)
    <3>1. DigitsAt(m, a, z, n, b, large, q)
      BY <1>1, <1>2, <2>1 DEF DigitsAt
    <3>2. a \in Nat /\ q \in Nat /\ EndsAfter(m, q, e) /\ n < Word
      BY <1>1
    <3> QED
      BY <3>1, <3>2, ConvertsDigits, Zenon
  <2>3. ~hex /\ bb = b
    <3>1. CASE b = base
      <4>1. ~hex
        <5>1. CASE base \in {0, 16}
          <6>1. b <= 16
            BY <3>1, <5>1
          <6> QED
            BY <1>1, <1>5, <6>1
        <5> QED
          BY <5>1
      <4>2. base # 0
        BY <3>1
      <4> QED
        BY <3>1, <4>1, <4>2
    <3>2. CASE b = 10 /\ base = 0 /\ zeros = <<>> /\ n # 0
      BY <1>1, <3>2
    <3>3. CASE b = 8 /\ base = 0 /\ zeros = <<Zero>>
      <4>1. m[a + 1] \notin {88, 120} /\ m[a] = Zero
        BY <1>1, <1>5, <3>3
      <4> QED
        BY <3>3, <4>1
    <3> QED
      BY <1>5, <3>1, <3>2, <3>3 DEF TakenIn
  <2> HIDE DEF hex, bb
  <2> QED
    BY <1>3, <2>2, <2>3 DEF Converts, Reads
<1> QED
  BY <1>4, <1>5

\* A memory with a text at 0, characters that are no digits behind it and a NUL at the end.
TextMemory(x, top) ==
  [a \in 0 .. top |-> IF a < Len(x) THEN x[a + 1] ELSE IF a = top THEN Nul ELSE 47]

Leads == {<<>>, <<Blank>>, <<Plus>>}
Signs == {<<>>, <<Minus>>}

\* A lead, a sign and a number, each where the one before ends.
TextParts(m, lead, sign, zeros, n, b, large, l, top) ==
  /\ SpeltIn(m, 0, lead) /\ SpeltIn(m, Len(lead), sign)
  /\ NumberAt(m, Len(lead) + Len(sign), zeros, n, b, large, l) /\ EndsAfter(m, l, top)

\* m and l are the memory with such a text and the text's length.
TextFor(x, m, l, lead, sign, zeros, n, b, large, top) ==
  /\ x = lead \o sign \o zeros \o Digits(n, b, large)
  /\ l = Len(x) /\ l <= top /\ m = TextMemory(x, top)
TextOf(m, l, lead, sign, zeros, n, b, large, top) ==
  \E x : TextFor(x, m, l, lead, sign, zeros, n, b, large, top)

LEMMA NumberTextParts ==
  ASSUME NEW lead \in Leads, NEW sign \in Signs, NEW zeros \in LeadingZeros, NEW n \in Nat,
         NEW b \in 2 .. 36, NEW large, NEW top \in Nat,
         NEW m, NEW l, TextOf(m, l, lead, sign, zeros, n, b, large, top)
  PROVE  TextParts(m, lead, sign, zeros, n, b, large, l, top)
<1>0. PICK x : TextFor(x, m, l, lead, sign, zeros, n, b, large, top)
  BY Zenon DEF TextOf
<1>7. /\ x = lead \o sign \o zeros \o Digits(n, b, large)
      /\ l = Len(x) /\ l <= top /\ m = TextMemory(x, top)
  BY <1>0 DEF TextFor
<1>22. PICK S : S = {Blank, Plus, Minus, Zero, 120} \cup CharsOf(b, large)
  OBVIOUS
<1>1. lead \in Seq(S) /\ sign \in Seq(S) /\ zeros \in Seq(S)
  <2>1. <<>> \in Seq(S) /\ <<Minus>> \in Seq(S) /\ <<Blank>> \in Seq(S) /\ <<Plus>> \in Seq(S)
    BY <1>22
  <2>2. <<Zero>> \in Seq(S) /\ <<Zero, 120>> \in Seq(S)
    BY <1>22
  <2> QED
    BY <2>1, <2>2 DEF Leads, Signs, LeadingZeros
<1>2. PICK ds : ds = Digits(n, b, large)
  OBVIOUS
<1>3. ds \in Seq(S)
  <2>1. ds \in Seq(CharsOf(b, large))
    BY <1>2, DigitsWell DEF WellSpelt
  <2>2. CharsOf(b, large) \subseteq S
    BY <1>22
  <2> QED
    BY <2>1, <2>2, SeqMonotonic
<1>4. PICK front : front = lead \o sign /\ front \in Seq(S) /\ Len(front) = Len(lead) + Len(sign)
  BY <1>1, ConcatProperties
<1>5. PICK body : body = front \o zeros /\ body \in Seq(S) /\ Len(body) = Len(front) + Len(zeros)
  BY <1>1, <1>4, ConcatProperties
<1>6. x = body \o ds /\ x \in Seq(S) /\ Len(x) = Len(body) + Len(ds)
  <2>1. x = body \o ds
    BY <1>2, <1>4, <1>5, <1>7
  <2>2. body \o ds \in Seq(S) /\ Len(body \o ds) = Len(body) + Len(ds)
    BY <1>3, <1>5, ConcatProperties
  <2> QED
    BY <2>1, <2>2
<1>8. l \in Nat /\ l = Len(x) /\ l <= top
  BY <1>6, <1>7, LenProperties
<1>9. \A a \in 0 .. top : m[a] = IF a < l THEN x[a + 1] ELSE IF a = top THEN Nul ELSE 47
  BY <1>7, <1>8 DEF TextMemory
<1>10. SpeltIn(m, 0, x)
  <2> SUFFICES ASSUME NEW k \in 1 .. l PROVE m[0 + k - 1] = x[k]
    BY <1>8 DEF SpeltIn
  <2>1. PICK j \in 0 .. top : j = 0 + k - 1 /\ j < l /\ j + 1 = k
    <3>1. k - 1 \in 0 .. top /\ k - 1 = 0 + k - 1 /\ k - 1 < l /\ (k - 1) + 1 = k
      BY <1>8
    <3> QED
      BY <3>1
  <2> QED
    BY <1>9, <2>1
<1>11. m[l] \in {Nul, 47} /\ m[top] = Nul
  <2>1. l \in 0 .. top /\ top \in 0 .. top /\ ~(l < l) /\ ~(top < l)
    BY <1>8
  <2> QED
    BY <1>9, <2>1
<1>12. SpeltIn(m, 0, body) /\ SpeltIn(m, 0 + Len(body), ds)
  BY <1>3, <1>5, <1>6, <1>10, SpeltJoined
<1>13. SpeltIn(m, 0, front) /\ SpeltIn(m, 0 + Len(front), zeros)
  BY <1>1, <1>4, <1>5, <1>12, SpeltJoined
<1>14. SpeltIn(m, 0, lead) /\ SpeltIn(m, 0 + Len(lead), sign)
  BY <1>1, <1>4, <1>13, SpeltJoined
<1>15. PICK i \in Nat, j \in Nat, k \in Nat : i = Len(lead) /\ j = Len(sign) /\ k = Len(zeros)
  BY <1>1, LenProperties
<1>16. Len(ds) \in Nat
  BY <1>3, LenProperties
<1>17. 0 + Len(lead) = i /\ 0 + Len(front) = i + j /\ 0 + Len(body) = i + j + k /\ l = i + j + k + Len(ds)
  BY <1>4, <1>5, <1>6, <1>8, <1>15, <1>16
<1>18. NumberAt(m, i + j, zeros, n, b, large, l)
  <2>1. i + j \in Nat /\ (i + j) + Len(zeros) = 0 + Len(body) /\ i + j = 0 + Len(front)
    BY <1>15, <1>17
  <2>2. SpeltIn(m, i + j, zeros) /\ SpeltIn(m, (i + j) + Len(zeros), Digits(n, b, large))
    BY <1>2, <1>12, <1>13, <2>1
  <2>3. l = (i + j) + Len(zeros) + Len(Digits(n, b, large))
    BY <1>2, <1>15, <1>17
  <2> QED
    BY <1>11, <2>1, <2>2, <2>3 DEF NumberAt
<1>19. EndsAfter(m, l, top)
  BY <1>8, <1>11 DEF EndsAfter
<1>20. SpeltIn(m, Len(lead), sign)
  <2>1. 0 + Len(lead) = Len(lead)
    BY <1>15
  <2> QED
    BY <1>14, <2>1
<1>21. NumberAt(m, Len(lead) + Len(sign), zeros, n, b, large, l)
  <2>1. Len(lead) + Len(sign) = i + j
    BY <1>15
  <2> QED
    BY <1>18, <2>1
<1>23. TextParts(m, lead, sign, zeros, n, b, large, l, top)
  BY <1>14, <1>19, <1>20, <1>21 DEF TextParts
<1> QED
  BY <1>23

\* What strtoul and strtol make of it.
UnsignedIs(m, base, n, l) == strtoul(m, 0, base) = [v |-> n, end |-> l]
SignedIs(m, base, v, l) == strtol(m, 0, base) = [v |-> v, end |-> l]

LEMMA TextUnsigned ==
  ASSUME NEW m, NEW lead \in Leads, NEW zeros, NEW n \in Nat, n < Word, NEW b \in 2 .. 36,
         NEW large, NEW l, NEW top, TextParts(m, lead, <<>>, zeros, n, b, large, l, top),
         NEW base, TakenIn(b, base, zeros, n)
  PROVE  UnsignedIs(m, base, n, l) /\ (n < HalfWord => SignedIs(m, base, n, l))
<1>1. PICK a \in Nat : a = Len(lead) /\ a \in {0, 1}
  BY DEF Leads
<1>2. SpeltIn(m, 0, lead) /\ NumberAt(m, a, zeros, n, b, large, l) /\ EndsAfter(m, l, top)
  <2>1. a + Len(<<>>) = a
    BY <1>1
  <2> QED
    BY <1>1, <2>1 DEF TextParts
<1>3. NoLead(m[a])
  <2>1. NumberPlaced(m, a, zeros, n, b, large, l)
    BY <1>2, NumberCharacters, Zenon
  <2> QED
    BY <2>1 DEF NumberPlaced
<1>4. a = 1 => m[0] = lead[1]
  <2> SUFFICES ASSUME a = 1 PROVE m[0] = lead[1]
    OBVIOUS
  <2>1. 1 \in 1 .. Len(lead) /\ 0 + 1 - 1 = 0
    BY <1>1
  <2>2. m[0 + 1 - 1] = lead[1]
    BY <1>2, <2>1 DEF SpeltIn
  <2> QED
    BY <2>1, <2>2
<1>5. PICK p \in Nat : SkipSpace(m, 0) = p /\ m[p] # Minus /\ Front(m, 0, a) /\ Front(m, p, a)
  <2>1. CASE lead = <<>>
    <3>1. a = 0
      BY <1>1, <2>1
    <3>2. Front(m, 0, 0) /\ SkipSpace(m, 0) = 0
      BY <1>3, <3>1, FrontPassed
    <3> QED
      BY <1>3, <3>1, <3>2 DEF NoLead
  <2>2. CASE lead = <<Blank>>
    <3>1. a = 1 /\ m[0] = Blank /\ 0 + 1 = 1
      BY <1>1, <1>4, <2>2
    <3>2. Front(m, 0, 1) /\ SkipSpace(m, 0) = 1
      <4>1. Front(m, 0, 0 + 1) /\ SkipSpace(m, 0) = 0 + 1
        BY <1>3, <3>1, FrontPassed
      <4> QED
        BY <3>1, <4>1
    <3>3. Front(m, 1, 1)
      BY <1>3, <3>1, FrontPassed
    <3> QED
      BY <1>3, <3>1, <3>2, <3>3 DEF NoLead
  <2>3. CASE lead = <<Plus>>
    <3>1. a = 1 /\ m[0] = Plus /\ 0 + 1 = 1
      BY <1>1, <1>4, <2>3
    <3>2. Front(m, 0, 1) /\ SkipSpace(m, 0) = 0
      <4>1. Front(m, 0, 0 + 1) /\ SkipSpace(m, 0) = 0
        BY <3>1, FrontPassed
      <4> QED
        BY <3>1, <4>1
    <3>3. Plus # Minus
      BY DEF Plus, Minus
    <3> QED
      BY <3>1, <3>2, <3>3
  <2> QED
    BY <2>1, <2>2, <2>3 DEF Leads
<1>6. strtoul(m, 0, base) = [v |-> n, end |-> l]
  <2>1. Reads(m, 0, base, n, l)
    BY <1>2, <1>5, UnsignedRead
  <2> QED
    BY <2>1 DEF Reads
<1>7. strtoul(m, p, base) = [v |-> n, end |-> l]
  <2>1. Reads(m, p, base, n, l)
    BY <1>2, <1>5, UnsignedRead
  <2> QED
    BY <2>1 DEF Reads
<1>8. n < HalfWord => strtol(m, 0, base) = [v |-> n, end |-> l]
  <2> SUFFICES ASSUME n < HalfWord PROVE strtol(m, 0, base) = [v |-> n, end |-> l]
    OBVIOUS
  <2>1. HalfWord \in Int
    BY WordAssumption, ShortAssumption DEF HalfWord
  <2>2. ~(n > HalfWord) /\ n # HalfWord
    BY <2>1
  <2>3. strtol(m, 0, base) = [strtoul(m, p, base) EXCEPT !.v =
          IF strtoul(m, p, base).v > HalfWord \/ strtoul(m, p, base).v = HalfWord THEN 0
          ELSE strtoul(m, p, base).v]
    BY <1>5 DEF strtol
  <2> QED
    BY <1>7, <2>2, <2>3
<1> QED
  BY <1>6, <1>8 DEF UnsignedIs, SignedIs

LEMMA TextNegative ==
  ASSUME NEW m, NEW lead \in Leads, lead # <<Plus>>, NEW zeros, NEW n \in Nat, n < Word, NEW b \in 2 .. 36,
         NEW large, NEW l, NEW top, TextParts(m, lead, <<Minus>>, zeros, n, b, large, l, top),
         NEW base, TakenIn(b, base, zeros, n), n <= HalfWord
  PROVE  SignedIs(m, base, -n, l)
<1>1. PICK a \in Nat : a = Len(lead) /\ a \in {0, 1}
  BY DEF Leads
<1>2. SpeltIn(m, 0, lead) /\ SpeltIn(m, a, <<Minus>>) /\ NumberAt(m, a + 1, zeros, n, b, large, l) /\ EndsAfter(m, l, top)
  <2>1. a + Len(<<Minus>>) = a + 1
    BY <1>1
  <2> QED
    BY <1>1, <2>1 DEF TextParts
<1>3. NoLead(m[a + 1])
  <2>1. NumberPlaced(m, a + 1, zeros, n, b, large, l)
    BY <1>2, NumberCharacters, Zenon
  <2> QED
    BY <2>1 DEF NumberPlaced
<1>4. m[a] = Minus
  <2>1. 1 \in 1 .. Len(<<Minus>>) /\ a + 1 - 1 = a /\ <<Minus>>[1] = Minus
    BY <1>1
  <2>2. m[a + 1 - 1] = <<Minus>>[1]
    BY <1>2, <2>1 DEF SpeltIn
  <2> QED
    BY <2>1, <2>2
<1>5. SkipSpace(m, 0) = a
  <2>1. CASE lead = <<>>
    <3>1. a = 0
      BY <1>1, <2>1
    <3> QED
      BY <1>4, <3>1, FrontPassed
  <2>2. CASE lead = <<Blank>>
    <3>1. a = 1 /\ 1 \in 1 .. Len(lead) /\ 0 + 1 - 1 = 0 /\ lead[1] = Blank
      BY <1>1, <2>2
    <3>2. m[0 + 1 - 1] = lead[1]
      BY <1>2, <3>1 DEF SpeltIn
    <3>3. m[0] = Blank /\ m[0 + 1] = Minus /\ 0 + 1 = 1
      BY <1>4, <3>1, <3>2
    <3> QED
      BY <3>1, <3>3, FrontPassed
  <2> QED
    BY <2>1, <2>2 DEF Leads
<1>6. Front(m, a + 1, a + 1) /\ a + 1 \in Nat
  BY <1>1, <1>3, FrontPassed
<1>7. strtoul(m, a + 1, base) = [v |-> n, end |-> l]
  <2>1. Reads(m, a + 1, base, n, l)
    <3>1. PICK i \in Nat : i = a + 1
      BY <1>6
    <3>2. Reads(m, i, base, n, l)
      BY <1>2, <1>6, <3>1, UnsignedRead
    <3> QED
      BY <3>1, <3>2
  <2> QED
    BY <2>1 DEF Reads
<1>8. HalfWord \in Int /\ ~(n > HalfWord)
  BY WordAssumption, ShortAssumption DEF HalfWord
<1>9. strtol(m, 0, base) = [strtoul(m, a + 1, base) EXCEPT !.v =
          IF strtoul(m, a + 1, base).v > HalfWord THEN 0 ELSE -strtoul(m, a + 1, base).v]
  BY <1>4, <1>5 DEF strtol
<1>10. strtol(m, 0, base) = [v |-> -n, end |-> l]
  BY <1>7, <1>8, <1>9
<1> QED
  BY <1>10 DEF SignedIs

\* strtol and strtoul read back any number of a word, spelt in any of the bases
\* that digits exist for, behind what they pass over.
THEOREM NumbersReadBack == Spec => []NumbersConverted
<1>1. NumbersConverted
  <2> SUFFICES ASSUME Idle, mem = Scratch,
                      NEW n \in 0 .. Word - 1, NEW b \in Bases, NEW base \in Bases \cup {0},
                      NEW large \in BOOLEAN, NEW lead \in Leads, NEW zeros \in LeadingZeros
               PROVE
        LET text(sign) == lead \o sign \o zeros \o Digits(n, b, large)
            m(sign)    == [a \in Cells |-> IF a < Len(text(sign)) THEN text(sign)[a + 1]
                                           ELSE IF a = Top THEN Nul ELSE 47]
        IN  TakenIn(b, base, zeros, n) /\ Len(text(<<Minus>>)) <= Top =>
              /\ strtoul(m(<<>>), 0, base) = [v |-> n, end |-> Len(text(<<>>))]
              /\ n < HalfWord => strtol(m(<<>>), 0, base).v = n
              /\ n <= HalfWord /\ lead # <<Plus>> =>
                   strtol(m(<<Minus>>), 0, base) = [v |-> -n, end |-> Len(text(<<Minus>>))]
    BY DEF NumbersConverted, TakenIn, Leads, LeadingZeros
  <2> DEFINE text(sign) == lead \o sign \o zeros \o Digits(n, b, large)
             at(sign) == [a \in Cells |-> IF a < Len(text(sign)) THEN text(sign)[a + 1]
                                          ELSE IF a = Top THEN Nul ELSE 47]
  <2>1. Word \in Nat /\ n \in Nat /\ n < Word
    BY WordAssumption, ShortAssumption
  <2>2. b \in 2 .. 36
    BY LibraryAssumption
  <2>3. LastCell \in Nat /\ Cells = 0 .. LastCell /\ Top = LastCell
    <3>1. LastCell \in Nat /\ Cells = 0 .. LastCell
      BY Memory DEF Cells
    <3>2. LastCell \in Cells /\ \A c \in Cells : c <= LastCell
      BY <3>1
    <3>3. Top \in Cells /\ \A c \in Cells : c <= Top
      BY <3>2, Zenon DEF Top
    <3>4. Top <= LastCell /\ LastCell <= Top /\ Top \in Nat
      BY <3>1, <3>2, <3>3
    <3> QED
      BY <3>1, <3>4
  <2>4. PICK x, y : x = text(<<>>) /\ y = text(<<Minus>>)
    OBVIOUS
  <2>5. PICK m, w : m = TextMemory(x, LastCell) /\ w = TextMemory(y, LastCell)
    OBVIOUS
  <2>6. at(<<>>) = m /\ at(<<Minus>>) = w
    <3> HIDE DEF text
    <3> QED
      BY <2>3, <2>4, <2>5 DEF TextMemory
  <2>7. SUFFICES ASSUME TakenIn(b, base, zeros, n), Len(y) <= LastCell
                 PROVE  /\ UnsignedIs(m, base, n, Len(x))
                        /\ n < HalfWord => SignedIs(m, base, n, Len(x))
                        /\ n <= HalfWord /\ lead # <<Plus>> => SignedIs(w, base, -n, Len(y))
    <3> HIDE DEF text, at
    <3>1. ASSUME TakenIn(b, base, zeros, n), Len(text(<<Minus>>)) <= Top
          PROVE  /\ strtoul(at(<<>>), 0, base) = [v |-> n, end |-> Len(text(<<>>))]
                 /\ n < HalfWord => strtol(at(<<>>), 0, base).v = n
                 /\ n <= HalfWord /\ lead # <<Plus>> =>
                      strtol(at(<<Minus>>), 0, base) = [v |-> -n, end |-> Len(text(<<Minus>>))]
      <4>1. Len(y) <= LastCell
        BY <2>3, <2>4, <3>1
      <4>2. /\ UnsignedIs(m, base, n, Len(x))
            /\ n < HalfWord => SignedIs(m, base, n, Len(x))
            /\ n <= HalfWord /\ lead # <<Plus>> => SignedIs(w, base, -n, Len(y))
        BY <3>1, <4>1
      <4> QED
        BY <2>4, <2>6, <4>2 DEF UnsignedIs, SignedIs
    <3> QED
      BY <3>1 DEF text, at
  <2>8. x = lead \o <<>> \o zeros \o Digits(n, b, large) /\ y = lead \o <<Minus>> \o zeros \o Digits(n, b, large)
    BY <2>4
  <2> HIDE DEF text, at
  <2>9. Len(x) <= LastCell
    <3> DEFINE S == {Blank, Plus, Minus, Zero, 120} \cup CharsOf(b, large)
    <3>1. lead \in Seq(S) /\ <<>> \in Seq(S) /\ <<Minus>> \in Seq(S) /\ zeros \in Seq(S)
      <4>1. <<>> \in Seq(S) /\ <<Minus>> \in Seq(S) /\ <<Blank>> \in Seq(S) /\ <<Plus>> \in Seq(S)
        OBVIOUS
      <4>2. <<Zero>> \in Seq(S) /\ <<Zero, 120>> \in Seq(S)
        OBVIOUS
      <4> HIDE DEF S
      <4> QED
        BY <4>1, <4>2 DEF Leads, LeadingZeros
    <3>2. Digits(n, b, large) \in Seq(S)
      <4>1. Digits(n, b, large) \in Seq(CharsOf(b, large))
        BY <2>1, <2>2, DigitsWell DEF WellSpelt
      <4>2. CharsOf(b, large) \subseteq S
        OBVIOUS
      <4> HIDE DEF S
      <4> QED
        BY <4>1, <4>2, SeqMonotonic
    <3> HIDE DEF S
    <3>3. /\ Len(x) = Len(lead) + Len(<<>>) + Len(zeros) + Len(Digits(n, b, large))
          /\ Len(y) = Len(lead) + Len(<<Minus>>) + Len(zeros) + Len(Digits(n, b, large))
      BY <2>8, <3>1, <3>2, JoinedFour
    <3>4. Len(lead) \in Nat /\ Len(zeros) \in Nat /\ Len(Digits(n, b, large)) \in Nat
      BY <3>1, <3>2, LenProperties
    <3>5. Len(<<>>) = 0 /\ Len(<<Minus>>) = 1
      OBVIOUS
    <3> QED
      BY <2>3, <2>7, <3>3, <3>4, <3>5
  <2>10. TextParts(m, lead, <<>>, zeros, n, b, large, Len(x), LastCell)
    <3>1. <<>> \in Signs
      BY DEF Signs
    <3> QED
      <4>1. TextOf(m, Len(x), lead, <<>>, zeros, n, b, large, LastCell)
        BY <2>5, <2>8, <2>9, Zenon DEF TextOf, TextFor
      <4> QED
        BY <2>1, <2>2, <2>3, <3>1, <4>1, NumberTextParts, Zenon
  <2>11. TextParts(w, lead, <<Minus>>, zeros, n, b, large, Len(y), LastCell)
    <3>1. <<Minus>> \in Signs
      BY DEF Signs
    <3> QED
      <4>1. TextOf(w, Len(y), lead, <<Minus>>, zeros, n, b, large, LastCell)
        BY <2>5, <2>7, <2>8, Zenon DEF TextOf, TextFor
      <4> QED
        BY <2>1, <2>2, <2>3, <3>1, <4>1, NumberTextParts, Zenon
  <2>12. UnsignedIs(m, base, n, Len(x)) /\ (n < HalfWord => SignedIs(m, base, n, Len(x)))
    BY <2>1, <2>2, <2>7, <2>10, TextUnsigned
  <2>13. n <= HalfWord /\ lead # <<Plus>> => SignedIs(w, base, -n, Len(y))
    BY <2>1, <2>2, <2>7, <2>11, TextNegative
  <2> QED
    BY <2>12, <2>13
<1>2. QED
  BY <1>1, PTL
=============================================================================
