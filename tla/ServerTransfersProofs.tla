------------------------ MODULE ServerTransfersProofs ------------------------
(***************************************************************************)
(* Proofs about the server's transfer manager.                             *)
(***************************************************************************)
EXTENDS ServerTransfers, TLAPS, WellFoundedInduction, SequenceTheorems,
        FiniteSetTheorems

-----------------------------------------------------------------------------
(* Without: what erasing transfers from the deque returns.                  *)

\* A nonempty set of naturals has a least element: induction, stated without
\* an operator parameter.
LEMMA NatMin ==
  ASSUME NEW S, S \subseteq Nat, S # {}
  PROVE  \E n \in S : \A m \in S : n <= m
<1> DEFINE LT == {ss \in Nat \X Nat : ss[1] < ss[2]}
<1>1. IsWellFoundedOn(LT, Nat)
  BY NatLessThanWellFounded, Zenon DEF OpToRel
<1>2. \A m, n \in Nat : m < n => <<m, n>> \in LT
  OBVIOUS
<1> HIDE DEF LT
<1>3. PICK n \in S : \A m \in S : ~ (<<m, n>> \in LT)
  BY <1>1, WFMin
<1>4. ASSUME NEW m \in S PROVE n <= m
  <2>1. m \in Nat /\ n \in Nat OBVIOUS
  <2>2. ~(m < n) BY <1>2, <1>3, <2>1
  <2> QED BY <2>1, <2>2
<1>5. QED
  BY <1>4

\* The recursive function in Without is well defined.
LEMMA WithoutDef ==
  ASSUME NEW S, NEW q \in Seq(S), NEW D
  PROVE  \E kept :
           /\ kept = [m \in 0..Len(q) |->
                IF m = 0 THEN <<>>
                ELSE IF Key(q[m]) \in D THEN kept[m - 1]
                ELSE Append(kept[m - 1], q[m])]
           /\ Without(q, D) = kept[Len(q)]
<1> DEFINE B(g, n) == [m \in 0..n |->
          IF m = 0 THEN <<>>
          ELSE IF Key(q[m]) \in D THEN g[m - 1] ELSE Append(g[m - 1], q[m])]
<1> DEFINE Bad == {n \in Nat : n <= Len(q) /\ ~ \E g : g = B(g, n)}
<1> DEFINE G == CHOOSE g : g = B(g, Len(q))
<1>1. Bad = {}
  <2>1. SUFFICES ASSUME Bad # {} PROVE FALSE
    OBVIOUS
  <2>2. PICK n \in Bad : \A m \in Bad : n <= m
    <3>1. Bad \subseteq Nat OBVIOUS
    <3> HIDE DEF Bad
    <3> QED BY <2>1, <3>1, NatMin
  <2>3. n \in Nat /\ n <= Len(q) /\ Len(q) \in Nat OBVIOUS
  <2>4. CASE n = 0
    <3> DEFINE g == [m \in 0..0 |-> <<>>]
    <3>1. g = B(g, 0) OBVIOUS
    <3> QED BY <3>1, <2>4, <2>2
  <2>5. CASE n # 0
    <3>1. n - 1 \in Nat /\ n - 1 <= Len(q) /\ ~(n <= n - 1)
      BY <2>3, <2>5
    <3>2. n - 1 \notin Bad
      <4> HIDE DEF Bad
      <4> QED BY <3>1, <2>2
    <3>3. PICK g : g = B(g, n - 1)
      BY <3>1, <3>2
    <3> DEFINE h == [m \in 0..n |->
          IF m < n THEN g[m]
          ELSE IF Key(q[n]) \in D THEN g[n - 1] ELSE Append(g[n - 1], q[n])]
    <3>4. ASSUME NEW m \in 0..n PROVE h[m] = B(h, n)[m]
      <4>1. CASE m = 0 BY <4>1, <3>3, <3>1, <2>5
      <4>2. CASE m # 0 /\ m < n
        <5>1. m \in 0..(n-1) /\ m - 1 \in 0..n /\ m - 1 < n BY <4>2, <3>1
        <5>2. g[m] = B(g, n-1)[m] BY <3>3
        <5>3. h[m-1] = g[m-1] /\ h[m] = g[m] BY <5>1, <4>2
        <5> QED BY <5>1, <5>2, <5>3, <4>2
      <4>3. CASE m = n BY <4>3, <2>5, <3>1
      <4> QED BY <4>1, <4>2, <4>3
    <3>5. h = B(h, n) BY <3>4
    <3> QED BY <3>5, <2>2
  <2> QED BY <2>4, <2>5
<1>2. \E g : g = B(g, Len(q))
  <2>1. Len(q) \in Nat /\ Len(q) <= Len(q) OBVIOUS
  <2> QED BY <2>1, <1>1
<1>3. G = B(G, Len(q)) BY <1>2
<1>4. Without(q, D) = G[Len(q)] BY DEF Without
<1> QED BY <1>3, <1>4

\* "r is what is left of the first n elements of q": e maps the places of r,
\* in order, onto the places of q whose keys are not in D.
Leaves(r, e, q, n, D) ==
    /\ e \in [1..Len(r) -> 1..n]
    /\ \A i, j \in 1..Len(r) : i < j => e[i] < e[j]
    /\ \A i \in 1..Len(r) : r[i] = q[e[i]] /\ Key(r[i]) \notin D
    /\ \A m \in 1..n : Key(q[m]) \notin D => \E i \in 1..Len(r) : e[i] = m

\* Without returns a subsequence: everything whose key is not in D, in the
\* same order, and nothing else.
LEMMA WithoutLeaves ==
  ASSUME NEW S, NEW q \in Seq(S), NEW D
  PROVE  /\ Without(q, D) \in Seq(S)
         /\ \E e : Leaves(Without(q, D), e, q, Len(q), D)
<1>1. PICK g : /\ g = [m \in 0..Len(q) |->
                    IF m = 0 THEN <<>>
                    ELSE IF Key(q[m]) \in D THEN g[m - 1]
                    ELSE Append(g[m - 1], q[m])]
               /\ Without(q, D) = g[Len(q)]
  BY WithoutDef
<1>2. Len(q) \in Nat
  OBVIOUS
<1>3. g[0] = <<>>
  BY <1>1, <1>2
<1>4. ASSUME NEW m \in 1..Len(q)
      PROVE  g[m] = IF Key(q[m]) \in D THEN g[m - 1] ELSE Append(g[m - 1], q[m])
  <2>1. m \in 0..Len(q) /\ m # 0
    BY <1>2
  <2> QED BY <1>1, <2>1, Zenon
<1> DEFINE Good(n) == g[n] \in Seq(S) /\ \E e : Leaves(g[n], e, q, n, D)
           Bad == {n \in Nat : n <= Len(q) /\ ~ Good(n)}
<1>5. Good(0)
  <2>1. Leaves(<<>>, <<>>, q, 0, D)
    BY DEF Leaves
  <2> QED BY <2>1, <1>3
<1>6. ASSUME NEW n \in 1..Len(q), Good(n - 1)
      PROVE  Good(n)
  <2>1. PICK e : Leaves(g[n - 1], e, q, n - 1, D)
    BY <1>6
  <2>2. g[n - 1] \in Seq(S) /\ q[n] \in S /\ n \in Nat /\ n - 1 \in Nat
    BY <1>6, <1>2
  <2> DEFINE r == g[n - 1]
  <2> HIDE DEF r
  <2>3. CASE Key(q[n]) \in D
    <3>1. g[n] = g[n - 1] BY <2>3, <1>4
    <3>2. Leaves(g[n - 1], e, q, n, D)
      <4>1. e \in [1..Len(g[n - 1]) -> 1..n]
        BY <2>1, <2>2 DEF Leaves
      <4>2. \A m \in 1..n : Key(q[m]) \notin D => m \in 1..(n - 1)
        BY <2>3, <2>2
      <4> QED BY <4>1, <4>2, <2>1 DEF Leaves
    <3> QED BY <3>1, <3>2, <2>2
  <2>4. CASE Key(q[n]) \notin D
    <3> DEFINE s == g[n - 1]
               L == Len(s)
               d == [i \in 1..(L + 1) |-> IF i = L + 1 THEN n ELSE e[i]]
    <3>1. g[n] = Append(s, q[n]) BY <2>4, <1>4
    <3>2. s \in Seq(S) /\ L \in Nat BY <2>2
    <3>3. Leaves(s, e, q, n - 1, D) BY <2>1
    <3> HIDE DEF s
    <3>4. /\ g[n] \in Seq(S) /\ Len(g[n]) = L + 1 /\ g[n][L + 1] = q[n]
          /\ \A i \in 1..L : g[n][i] = s[i]
      BY <3>1, <3>2, <2>2
    <3>5. d \in [1..Len(g[n]) -> 1..n]
      BY <3>2, <3>3, <3>4, <2>2 DEF Leaves
    <3>6. ASSUME NEW i \in 1..Len(g[n]), NEW j \in 1..Len(g[n]), i < j
          PROVE  d[i] < d[j]
      <4>1. i \in 1..L /\ e[i] \in 1..(n - 1) /\ d[i] = e[i]
        BY <3>2, <3>3, <3>4, <3>6 DEF Leaves
      <4>2. CASE j = L + 1
        BY <4>1, <4>2, <3>4, <2>2
      <4>3. CASE j # L + 1
        <5>1. j \in 1..L /\ d[j] = e[j] BY <4>3, <3>2, <3>4
        <5> QED BY <4>1, <5>1, <3>3, <3>6 DEF Leaves
      <4> QED BY <4>2, <4>3
    <3>7. \A i \in 1..Len(g[n]) : g[n][i] = q[d[i]] /\ Key(g[n][i]) \notin D
      BY <3>2, <3>3, <3>4, <2>2, <2>4 DEF Leaves
    <3>8. ASSUME NEW m \in 1..n, Key(q[m]) \notin D
          PROVE  \E i \in 1..Len(g[n]) : d[i] = m
      <4>1. CASE m = n
        BY <4>1, <3>2, <3>4
      <4>2. CASE m # n
        <5>1. m \in 1..(n - 1) BY <4>2, <2>2
        <5>2. PICK i \in 1..L : e[i] = m BY <5>1, <3>8, <3>3 DEF Leaves
        <5>3. i \in 1..(L + 1) /\ i # L + 1 BY <3>2
        <5> QED BY <5>2, <5>3, <3>4
      <4> QED BY <4>1, <4>2
    <3>9. Leaves(g[n], d, q, n, D)
      <4> HIDE DEF d
      <4> QED BY <3>5, <3>6, <3>7, <3>8 DEF Leaves
    <3> QED BY <3>4, <3>9
  <2> QED BY <2>3, <2>4
<1>7. Bad = {}
  <2>1. SUFFICES ASSUME Bad # {} PROVE FALSE
    OBVIOUS
  <2>2. PICK n \in Bad : \A m \in Bad : n <= m
    <3>1. Bad \subseteq Nat OBVIOUS
    <3> HIDE DEF Bad
    <3> QED BY <2>1, <3>1, NatMin
  <2>3. n \in Nat /\ n <= Len(q) /\ ~Good(n)
    OBVIOUS
  <2> HIDE DEF Good
  <2>4. n # 0
    BY <2>3, <1>5
  <2>5. n - 1 \in Nat /\ n - 1 <= Len(q) /\ ~(n <= n - 1) /\ n \in 1..Len(q)
    BY <2>3, <2>4, <1>2
  <2>6. n - 1 \notin Bad
    <3> HIDE DEF Bad
    <3> QED BY <2>2, <2>5
  <2>7. Good(n - 1)
    BY <2>5, <2>6
  <2> QED BY <2>3, <2>5, <2>7, <1>6
<1>8. Good(Len(q))
  <2> HIDE DEF Good
  <2> QED BY <1>7, <1>2
<1> QED BY <1>8, <1>1

-----------------------------------------------------------------------------
(* What holds of a queue of transfers, wherever it is kept.                 *)

QueueOK(q, C) ==
    /\ q \in Seq(Transfer)
    /\ \A i, j \in DOMAIN q : Key(q[i]) = Key(q[j]) => i = j
    /\ \A i, j \in DOMAIN q :
          (i < j /\ q[i].player = q[j].player) => q[j].next = 0
    /\ \A i \in DOMAIN q : q[i].next < q[i].total /\ q[i].player \in C

\* Erasing transfers keeps a queue in order, and erasing all those of D
\* leaves none of D.
LEMMA WithoutOK ==
  ASSUME NEW C, NEW q, QueueOK(q, C), NEW D
  PROVE  /\ QueueOK(Without(q, D), C)
         /\ \A i \in DOMAIN Without(q, D) : Key(Without(q, D)[i]) \notin D
<1> DEFINE r == Without(q, D)
<1>1. q \in Seq(Transfer)
  BY DEF QueueOK
<1>2. r \in Seq(Transfer) /\ \E e : Leaves(r, e, q, Len(q), D)
  BY <1>1, WithoutLeaves
<1> HIDE DEF r
<1>3. PICK e : Leaves(r, e, q, Len(q), D)
  BY <1>2
<1>4. DOMAIN r = 1..Len(r) /\ DOMAIN q = 1..Len(q) /\ Len(q) \in Nat /\ Len(r) \in Nat
  BY <1>1, <1>2
<1>5. ASSUME NEW i \in DOMAIN r
      PROVE  e[i] \in DOMAIN q /\ r[i] = q[e[i]] /\ Key(r[i]) \notin D
  BY <1>3, <1>4 DEF Leaves
<1>6. ASSUME NEW i \in DOMAIN r, NEW j \in DOMAIN r, i < j
      PROVE  e[i] < e[j]
  BY <1>3, <1>4, <1>6 DEF Leaves
<1>7. ASSUME NEW i \in DOMAIN r, NEW j \in DOMAIN r, Key(r[i]) = Key(r[j])
      PROVE  i = j
  <2>1. e[i] = e[j]
    BY <1>5, <1>7 DEF QueueOK
  <2>2. ~(i < j) /\ ~(j < i)
    BY <2>1, <1>5, <1>6, <1>4
  <2> QED BY <2>2, <1>4
<1>8. ASSUME NEW i \in DOMAIN r, NEW j \in DOMAIN r,
             i < j, r[i].player = r[j].player
      PROVE  r[j].next = 0
  BY <1>5, <1>6, <1>8 DEF QueueOK
<1>9. \A i \in DOMAIN r : r[i].next < r[i].total /\ r[i].player \in C
  BY <1>5 DEF QueueOK
<1> QED
  BY <1>2, <1>5, <1>7, <1>8, <1>9 DEF QueueOK, r

\* A new transfer at the back of a queue that has none of its key.
LEMMA AppendOK ==
  ASSUME NEW C, NEW q, QueueOK(q, C), NEW t \in Transfer,
         t.next = 0, t.player \in C,
         \A i \in DOMAIN q : Key(q[i]) # Key(t)
  PROVE  QueueOK(Append(q, t), C)
<1> DEFINE r == Append(q, t)
<1>1. q \in Seq(Transfer) /\ Len(q) \in Nat /\ DOMAIN q = 1..Len(q)
  BY DEF QueueOK
<1>2. /\ r \in Seq(Transfer) /\ DOMAIN r = 1..(Len(q) + 1)
      /\ r[Len(q) + 1] = t /\ \A i \in DOMAIN q : r[i] = q[i]
  BY <1>1
<1>3. t.next < t.total
  BY DEF Transfer
<1> HIDE DEF r
<1>4. ASSUME NEW i \in DOMAIN r
      PROVE  \/ i = Len(q) + 1 /\ r[i] = t
             \/ i \in DOMAIN q /\ r[i] = q[i] /\ i < Len(q) + 1
  BY <1>1, <1>2
<1>5. ASSUME NEW i \in DOMAIN r, NEW j \in DOMAIN r, Key(r[i]) = Key(r[j])
      PROVE  i = j
  BY <1>4, <1>5 DEF QueueOK
<1>6. ASSUME NEW i \in DOMAIN r, NEW j \in DOMAIN r,
             i < j, r[i].player = r[j].player
      PROVE  r[j].next = 0
  <2>1. i \in DOMAIN q /\ r[i] = q[i]
    BY <1>4, <1>6, <1>1, <1>2
  <2> QED BY <1>4, <1>6, <2>1 DEF QueueOK
<1>7. \A i \in DOMAIN r : r[i].next < r[i].total /\ r[i].player \in C
  BY <1>3, <1>4 DEF QueueOK
<1> QED BY <1>2, <1>5, <1>6, <1>7 DEF QueueOK, r

\* The places of a queue whose transfer at k + 1 is taken out: those up to
\* k stay, the others move up by one.
LEMMA TakenOut ==
  ASSUME NEW S, NEW r \in Seq(S), NEW b \in Seq(S), b # <<>>
  PROVE  /\ r \o b \in Seq(S) /\ r \o Tail(b) \in Seq(S)
         /\ DOMAIN (r \o b) = 1..(Len(r) + Len(b))
         /\ DOMAIN (r \o Tail(b)) = 1..(Len(r) + Len(b) - 1)
         /\ (r \o b)[Len(r) + 1] = Head(b)
         /\ \A i \in 1..Len(r) :
               (r \o b)[i] = r[i] /\ (r \o Tail(b))[i] = r[i]
         /\ \A i \in (Len(r) + 1)..(Len(r) + Len(b) - 1) :
               (r \o Tail(b))[i] = (r \o b)[i + 1]
<1>1. /\ Len(r) \in Nat /\ Len(b) \in Nat \ {0} /\ Tail(b) \in Seq(S)
      /\ Len(Tail(b)) = Len(b) - 1 /\ Head(b) = b[1]
      /\ \A i \in 1..(Len(b) - 1) : Tail(b)[i] = b[i + 1]
  OBVIOUS
<1>2. ASSUME NEW c \in Seq(S)
      PROVE  /\ r \o c \in Seq(S) /\ Len(r \o c) = Len(r) + Len(c)
             /\ \A i \in 1..(Len(r) + Len(c)) :
                   (r \o c)[i] = IF i <= Len(r) THEN r[i] ELSE c[i - Len(r)]
  BY ConcatProperties
<1>3. ASSUME NEW i \in (Len(r) + 1)..(Len(r) + Len(b) - 1)
      PROVE  (r \o Tail(b))[i] = (r \o b)[i + 1]
  <2>1. (r \o Tail(b))[i] = Tail(b)[i - Len(r)]
    BY <1>1, <1>2
  <2>2. (r \o b)[i + 1] = b[i + 1 - Len(r)]
    BY <1>1, <1>2
  <2>3. Tail(b)[i - Len(r)] = b[(i - Len(r)) + 1]
    BY <1>1
  <2> QED BY <2>1, <2>2, <2>3, <1>1
<1>4. (r \o b)[Len(r) + 1] = Head(b)
  BY <1>1, <1>2
<1>5. \A i \in 1..Len(r) : (r \o b)[i] = r[i] /\ (r \o Tail(b))[i] = r[i]
  BY <1>1, <1>2
<1>6. /\ r \o b \in Seq(S) /\ r \o Tail(b) \in Seq(S)
      /\ DOMAIN (r \o b) = 1..(Len(r) + Len(b))
      /\ DOMAIN (r \o Tail(b)) = 1..(Len(r) + Len(b) - 1)
  BY <1>1, <1>2
<1> QED BY <1>3, <1>4, <1>5, <1>6

\* The same queue with another transfer in place of the one at Len(r) + 1.
LEMMA PutBack ==
  ASSUME NEW S, NEW r \in Seq(S), NEW b \in Seq(S), b # <<>>, NEW t \in S
  PROVE  /\ Append(r, t) \o Tail(b) \in Seq(S)
         /\ DOMAIN (Append(r, t) \o Tail(b)) = DOMAIN (r \o b)
         /\ \A i \in DOMAIN (r \o b) :
               (Append(r, t) \o Tail(b))[i] =
                   IF i = Len(r) + 1 THEN t ELSE (r \o b)[i]
<1> DEFINE a == Append(r, t)
<1>1. /\ Len(r) \in Nat /\ Len(b) \in Nat \ {0} /\ Tail(b) \in Seq(S)
      /\ Len(Tail(b)) = Len(b) - 1
      /\ \A i \in 1..(Len(b) - 1) : Tail(b)[i] = b[i + 1]
  OBVIOUS
<1>2. /\ a \in Seq(S) /\ Len(a) = Len(r) + 1 /\ a[Len(r) + 1] = t
      /\ \A i \in 1..Len(r) : a[i] = r[i]
  OBVIOUS
<1> HIDE DEF a
<1>3. /\ r \o b \in Seq(S) /\ Len(r \o b) = Len(r) + Len(b)
      /\ \A i \in 1..(Len(r) + Len(b)) :
            (r \o b)[i] = IF i <= Len(r) THEN r[i] ELSE b[i - Len(r)]
  BY ConcatProperties
<1>4. /\ a \o Tail(b) \in Seq(S) /\ Len(a \o Tail(b)) = Len(r) + Len(b)
      /\ \A i \in 1..(Len(r) + Len(b)) :
            (a \o Tail(b))[i] =
               IF i <= Len(r) + 1 THEN a[i] ELSE Tail(b)[i - (Len(r) + 1)]
  <2>1. Len(a) + Len(Tail(b)) = Len(r) + Len(b)
    BY <1>1, <1>2
  <2> DEFINE c == Tail(b)
  <2>2. a \in Seq(S) /\ c \in Seq(S) /\ Len(a) = Len(r) + 1
        /\ Len(a) + Len(c) = Len(r) + Len(b)
    BY <2>1, <1>1, <1>2
  <2> HIDE DEF c
  <2>3. /\ a \o c \in Seq(S) /\ Len(a \o c) = Len(a) + Len(c)
        /\ \A i \in 1..(Len(a) + Len(c)) :
              (a \o c)[i] = IF i <= Len(a) THEN a[i] ELSE c[i - Len(a)]
    BY <2>2, ConcatProperties
  <2> QED BY <2>2, <2>3 DEF c
<1>5. ASSUME NEW i \in 1..(Len(r) + Len(b))
      PROVE  (a \o Tail(b))[i] = IF i = Len(r) + 1 THEN t ELSE (r \o b)[i]
  <2>1. CASE i <= Len(r)
    BY <2>1, <1>1, <1>2, <1>3, <1>4
  <2>2. CASE i = Len(r) + 1
    BY <2>2, <1>1, <1>2, <1>4
  <2>3. CASE i > Len(r) + 1 /\ i \in Nat
    <3>1. Tail(b)[i - (Len(r) + 1)] = b[(i - (Len(r) + 1)) + 1]
      BY <2>3, <1>1
    <3>2. (i - (Len(r) + 1)) + 1 = i - Len(r)
      BY <1>1
    <3>3. (r \o b)[i] = b[i - Len(r)]
      BY <2>3, <1>1, <1>3
    <3>4. (a \o Tail(b))[i] = Tail(b)[i - (Len(r) + 1)]
      BY <2>3, <1>1, <1>4
    <3>5. i # Len(r) + 1
      BY <2>3, <1>1
    <3> QED BY <3>1, <3>2, <3>3, <3>4, <3>5
  <2>4. i \in Nat /\ Len(r) \in Nat
    BY <1>1
  <2>5. i <= Len(r) \/ i = Len(r) + 1 \/ i > Len(r) + 1
    BY <2>4
  <2> QED BY <2>1, <2>2, <2>3, <2>4, <2>5
<1> QED BY <1>3, <1>4, <1>5 DEF a

\* A transfer dropped by the tick.
LEMMA DropOK ==
  ASSUME NEW C, NEW r \in Seq(Transfer), NEW b \in Seq(Transfer), b # <<>>,
         QueueOK(r \o b, C)
  PROVE  QueueOK(r \o Tail(b), C)
<1> DEFINE old == r \o b
           new == r \o Tail(b)
           from(i) == IF i <= Len(r) THEN i ELSE i + 1
<1>1. Len(r) \in Nat /\ Len(b) \in Nat \ {0}
  OBVIOUS
<1>2. /\ new \in Seq(Transfer)
      /\ DOMAIN old = 1..(Len(r) + Len(b))
      /\ DOMAIN new = 1..(Len(r) + Len(b) - 1)
      /\ \A i \in 1..Len(r) : old[i] = r[i] /\ new[i] = r[i]
      /\ \A i \in (Len(r) + 1)..(Len(r) + Len(b) - 1) : new[i] = old[i + 1]
  BY TakenOut
<1>3. QueueOK(old, C)
  OBVIOUS
<1> HIDE DEF old, new
<1>4. ASSUME NEW i \in DOMAIN new
      PROVE  from(i) \in DOMAIN old /\ new[i] = old[from(i)]
  BY <1>1, <1>2
<1>5. ASSUME NEW i \in DOMAIN new, NEW j \in DOMAIN new
      PROVE  (i < j => from(i) < from(j)) /\ (from(i) = from(j) => i = j)
  BY <1>1, <1>2
<1> HIDE DEF from
<1>6. ASSUME NEW i \in DOMAIN new, NEW j \in DOMAIN new, Key(new[i]) = Key(new[j])
      PROVE  i = j
  BY <1>3, <1>4, <1>5, <1>6 DEF QueueOK
<1>7. ASSUME NEW i \in DOMAIN new, NEW j \in DOMAIN new,
             i < j, new[i].player = new[j].player
      PROVE  new[j].next = 0
  BY <1>3, <1>4, <1>5, <1>7 DEF QueueOK
<1>8. \A i \in DOMAIN new : new[i].next < new[i].total /\ new[i].player \in C
  BY <1>3, <1>4 DEF QueueOK
<1> QED BY <1>2, <1>6, <1>7, <1>8 DEF QueueOK, new

\* A transfer put back by the tick, some chunks further.  It can have chunks
\* out only if no transfer of its player was put back before it.
LEMMA PutBackOK ==
  ASSUME NEW C, NEW r \in Seq(Transfer), NEW b \in Seq(Transfer), b # <<>>,
         QueueOK(r \o b, C), NEW t \in Transfer,
         Key(t) = Key(Head(b)), t.next < t.total,
         t.next = Head(b).next
           \/ \A i \in DOMAIN r : r[i].player # t.player
  PROVE  QueueOK(Append(r, t) \o Tail(b), C)
<1> DEFINE old == r \o b
           new == Append(r, t) \o Tail(b)
           k == Len(r) + 1
<1>1. Len(r) \in Nat /\ Len(b) \in Nat \ {0}
  OBVIOUS
<1>2. /\ DOMAIN old = 1..(Len(r) + Len(b))
      /\ old[k] = Head(b)
      /\ \A i \in 1..Len(r) : old[i] = r[i]
  BY TakenOut
<1>3. /\ new \in Seq(Transfer)
      /\ DOMAIN new = DOMAIN old
      /\ \A i \in DOMAIN old : new[i] = IF i = k THEN t ELSE old[i]
  BY PutBack
<1>4. QueueOK(old, C)
  OBVIOUS
<1> HIDE DEF old, new
<1>5. k \in DOMAIN old /\ t.player = old[k].player
  BY <1>1, <1>2 DEF Key
<1>6. ASSUME NEW i \in DOMAIN old
      PROVE  Key(new[i]) = Key(old[i]) /\ new[i].player = old[i].player
  BY <1>2, <1>3, <1>5
<1>7. ASSUME NEW i \in DOMAIN old, NEW j \in DOMAIN old,
             i < j, new[i].player = new[j].player
      PROVE  new[j].next = 0
  <2>1. old[j].next = 0
    BY <1>4, <1>6, <1>7 DEF QueueOK
  <2>2. CASE j # k
    BY <2>1, <2>2, <1>3
  <2>3. CASE j = k
    <3>1. i \in DOMAIN r /\ r[i].player = t.player
      BY <2>3, <1>1, <1>2, <1>5, <1>6, <1>7
    <3>2. t.next = Head(b).next
      BY <3>1
    <3> QED BY <3>2, <2>1, <2>3, <1>2, <1>3
  <2> QED BY <2>2, <2>3
<1>8. ASSUME NEW i \in DOMAIN old
      PROVE  new[i].next < new[i].total /\ new[i].player \in C
  BY <1>3, <1>4, <1>5 DEF QueueOK
<1> QED BY <1>3, <1>4, <1>6, <1>7, <1>8 DEF QueueOK, new

-----------------------------------------------------------------------------
(* The inductive invariant.  The safety invariants are not inductive by      *)
(* themselves: a transfer may be put back with chunks out only because       *)
(* WorkConserving says that no transfer of the same player was put back      *)
(* before it, and a tick may take the whole deque only because its own       *)
(* deques are empty outside of it.                                           *)

TickOwnsQueue ==
    IF ticking THEN activeTransfers = <<>>
               ELSE currentBatch = <<>> /\ remainingTransfers = <<>>

IndInv ==
    /\ TypeOK
    /\ TickOwnsQueue
    /\ QueueOK(Queue, connected)
    /\ WorkConserving

\* The three safety invariants of the queue are parts of QueueOK.
LEMMA QueueOKIsSafe ==
  QueueOK(Queue, connected)
     => OneTransferPerFile /\ FirstComeFirstServed /\ QueueIsLive
BY DEF QueueOK, OneTransferPerFile, FirstComeFirstServed, QueueIsLive

\* Outside of a tick the queue is the deque.
LEMMA IdleQueue ==
  ASSUME TypeOK, currentBatch = <<>>, remainingTransfers = <<>>
  PROVE  Queue = activeTransfers
<1>1. <<>> \o <<>> = <<>> /\ <<>> \o activeTransfers = activeTransfers
  BY ConcatEmptySeq, <<>> \in Seq(Transfer) DEF TypeOK
<1> QED BY <1>1 DEF Queue

\* Inside, it is what was put back, then what is left of the batch.
LEMMA TickQueue ==
  ASSUME TypeOK, activeTransfers = <<>>
  PROVE  Queue = remainingTransfers \o currentBatch
<1>1. remainingTransfers \o currentBatch \in Seq(Transfer)
  BY ConcatProperties DEF TypeOK
<1>2. (remainingTransfers \o currentBatch) \o <<>>
         = remainingTransfers \o currentBatch
  BY <1>1, ConcatEmptySeq
<1> QED BY <1>2 DEF Queue

\* What the server sends has the type of messages.
LEMMA ChunkCountType ==
  ASSUME NEW c \in Contents
  PROVE  ChunkCount(c) \in Nat \ {0}
<1> DEFINE z == CompressedSize[c]
           n == FileChunkSize
<1>1. z \in Nat \ {0} /\ n \in Nat \ {0}
  BY ServerAssumption
<1> HIDE DEF z, n
<1>2. z + n - 1 \in Nat /\ z + n - 1 >= n
  BY <1>1
<1>3. (z + n - 1) \div n \in Nat \ {0}
  BY <1>1, <1>2
<1> QED BY <1>3 DEF ChunkCount, z, n

LEMMA ChunkMsgType ==
  ASSUME NEW f \in Files, NEW c \in Contents, NEW i \in Nat
  PROVE  ChunkMsg(f, c, i) \in Message
<1> DEFINE offset == i * FileChunkSize
           size == CompressedSize[c]
<1>1. FileChunkSize \in Nat /\ size \in Nat
  BY ServerAssumption
<1>2. offset \in Nat
  BY <1>1
<1>3. (IF offset <= size /\ size - offset < FileChunkSize
       THEN size - offset ELSE FileChunkSize) \in 0..FileChunkSize
  <2> HIDE DEF offset, size
  <2> QED BY <1>1, <1>2
<1> QED BY <1>3 DEF ChunkMsg, Message

LEMMA QuietType == Quiet \in [Players -> Seq(Message)]
BY DEF Quiet

LEMMA SendType ==
  ASSUME NEW p \in Players, NEW msgs \in Seq(Message), Send(p, msgs)
  PROVE  out' \in [Players -> Seq(Message)]
BY QuietType DEF Send

LEMMA LoadType ==
  ASSUME TypeOK, NEW f \in Files
  PROVE  /\ Loaded(f) \in Contents \cup {NoContent}
         /\ LoadCache(f) => cache' \in [Files -> Contents \cup {NoContent}]
BY DEF TypeOK, Loaded, LoadCache

-----------------------------------------------------------------------------
(* Every action preserves it.                                               *)

LEMMA InitInv == Init => IndInv
<1> SUFFICES ASSUME Init PROVE IndInv
  OBVIOUS
<1>1. TypeOK
  <2>1. 0 \in 0..ChunksPerPlayerPerTick
    BY ServerAssumption
  <2>2. sentPerPlayer \in [Players -> 0..ChunksPerPlayerPerTick]
    BY <2>1 DEF Init
  <2>3. <<>> \in Seq(Transfer)
    OBVIOUS
  <2> QED BY <2>2, <2>3, QuietType DEF Init, TypeOK
<1>2. Queue = <<>>
  BY <1>1, IdleQueue DEF Init
<1>3. QueueOK(Queue, connected)
  BY <1>2 DEF QueueOK
<1>4. TickOwnsQueue /\ WorkConserving
  BY DEF Init, TickOwnsQueue, WorkConserving
<1> QED BY <1>1, <1>3, <1>4 DEF IndInv

\* The actions outside of a tick change the deque and keep it in order.
LEMMA IdleStep ==
  ASSUME IndInv, ~ticking, UNCHANGED tickVars, TypeOK',
         QueueOK(activeTransfers', connected')
  PROVE  IndInv'
<1>1. /\ currentBatch = <<>> /\ remainingTransfers = <<>>
      /\ currentBatch' = <<>> /\ remainingTransfers' = <<>> /\ ~ticking'
  BY DEF IndInv, TickOwnsQueue, tickVars
<1>2. Queue' = activeTransfers'
  <2>1. <<>> \o <<>> = <<>> /\ <<>> \o activeTransfers' = activeTransfers'
    BY ConcatEmptySeq, <<>> \in Seq(Transfer) DEF TypeOK
  <2> QED BY <2>1, <1>1 DEF Queue
<1>3. WorkConserving'
  BY <1>1 DEF WorkConserving
<1> QED BY <1>1, <1>2, <1>3 DEF IndInv, TickOwnsQueue

LEMMA IdleQueueOK ==
  ASSUME IndInv, ~ticking
  PROVE  QueueOK(activeTransfers, connected)
BY IdleQueue DEF IndInv, TickOwnsQueue

LEMMA SessionInv ==
  ASSUME IndInv, NEW p \in Players, Session(p)
  PROVE  IndInv'
<1>1. ~ticking /\ UNCHANGED tickVars /\ TypeOK
  BY DEF IndInv, Session, IncomingConnection, PlayerConnect, PlayerInit,
        PlayerDisconnect
<1>2. QueueOK(activeTransfers, connected)
  BY <1>1, IdleQueueOK
<1>3. CASE IncomingConnection(p)
  <2>1. TypeOK'
    BY <1>1, <1>3, QuietType DEF IncomingConnection, TypeOK, tickVars
  <2>2. QueueOK(activeTransfers', connected')
    BY <1>2, <1>3 DEF IncomingConnection, QueueOK
  <2> QED BY <1>1, <2>1, <2>2, IdleStep
<1>6. CASE PlayerConnect(p)
  <2>1. TypeOK'
    BY <1>1, <1>6, QuietType DEF PlayerConnect, TypeOK, tickVars
  <2>2. QueueOK(activeTransfers', connected')
    BY <1>2, <1>6 DEF PlayerConnect
  <2> QED BY <1>1, <2>1, <2>2, IdleStep
<1>4. CASE PlayerInit(p)
  <2>1. TypeOK'
    BY <1>1, <1>4, QuietType DEF PlayerInit, TypeOK, tickVars
  <2>2. QueueOK(activeTransfers', connected')
    BY <1>2, <1>4 DEF PlayerInit
  <2> QED BY <1>1, <2>1, <2>2, IdleStep
<1>5. CASE PlayerDisconnect(p)
  <2> DEFINE r == Without(activeTransfers, {p} \X Files)
  <2>1. /\ QueueOK(r, connected)
        /\ \A i \in DOMAIN r : Key(r[i]) \notin {p} \X Files
    BY <1>2, WithoutOK
  <2> HIDE DEF r
  <2>2. r \in Seq(Transfer)
    BY <2>1 DEF QueueOK
  <2>3. activeTransfers' = r
    BY <1>5 DEF PlayerDisconnect, r
  <2>4. TypeOK'
    BY <1>1, <1>5, <2>2, <2>3, QuietType DEF PlayerDisconnect, TypeOK, tickVars
  <2>5. \A i \in DOMAIN r : r[i].player # p
    <3>1. \A i \in DOMAIN r : r[i] \in Transfer
      BY <2>2
    <3> QED BY <2>1, <3>1 DEF Transfer, Key
  <2>6. QueueOK(r, connected')
    BY <2>1, <2>5, <1>5 DEF PlayerDisconnect, QueueOK
  <2> QED BY <1>1, <2>3, <2>4, <2>6, IdleStep
<1> QED BY <1>3, <1>4, <1>5, <1>6 DEF Session

\* CancelTransfer and CancelTransfersForModel.
LEMMA EraseInv ==
  ASSUME IndInv, ~ticking, NEW D, activeTransfers' = Without(activeTransfers, D),
         out' = Quiet, UNCHANGED <<connected, extended, disk, cache, tickVars>>
  PROVE  IndInv'
<1>1. QueueOK(activeTransfers, connected)
  BY IdleQueueOK
<1>2. QueueOK(activeTransfers', connected)
  BY <1>1, WithoutOK
<1>3. activeTransfers' \in Seq(Transfer)
  BY <1>2 DEF QueueOK
<1>4. TypeOK'
  BY <1>3, QuietType DEF IndInv, TypeOK, tickVars
<1> QED BY <1>2, <1>4, IdleStep

LEMMA RequestInv ==
  ASSUME IndInv, NEW p \in Players, NEW f \in Files, OnRequestFile(p, f)
  PROVE  IndInv'
<1> DEFINE others == Without(activeTransfers, {<<p, f>>})
<1>1. ~ticking /\ UNCHANGED tickVars /\ TypeOK /\ p \in connected
  BY DEF IndInv, OnRequestFile, TypeOK
<1>2. /\ QueueOK(others, connected)
      /\ \A i \in DOMAIN others : Key(others[i]) # <<p, f>>
  BY <1>1, IdleQueueOK, WithoutOK
<1>3. others \in Seq(Transfer)
  BY <1>2 DEF QueueOK
<1>4. UNCHANGED <<connected, extended, disk, tickVars>>
  BY DEF OnRequestFile
<1>5. CASE activeTransfers' = others /\ out' = Quiet /\ UNCHANGED cache
  <2>1. TypeOK'
    BY <1>1, <1>3, <1>4, <1>5, QuietType DEF TypeOK, tickVars
  <2> QED BY <1>1, <1>2, <1>4, <1>5, <2>1, IdleStep
<1>6. CASE LoadCache(f) /\ activeTransfers' = others /\ Send(p, <<CancelMsg(f)>>)
  <2>1. <<CancelMsg(f)>> \in Seq(Message)
    BY DEF CancelMsg, Message
  <2>2. /\ out' \in [Players -> Seq(Message)]
        /\ cache' \in [Files -> Contents \cup {NoContent}]
    BY <1>1, <1>6, <2>1, SendType, LoadType
  <2>3. TypeOK'
    BY <1>1, <1>3, <1>4, <1>6, <2>2 DEF TypeOK, tickVars
  <2> QED BY <1>1, <1>2, <1>4, <1>6, <2>3, IdleStep
<1>7. CASE /\ LoadCache(f) /\ Loaded(f) # NoContent
           /\ activeTransfers' =
                 Append(others, [player |-> p, file |-> f, next |-> 0,
                                 total |-> ChunkCount(Loaded(f))])
           /\ Send(p, <<BeginMsg(f, Loaded(f))>>)
  <2> DEFINE t == [player |-> p, file |-> f, next |-> 0,
                   total |-> ChunkCount(Loaded(f))]
  <2>1. Loaded(f) \in Contents /\ ChunkCount(Loaded(f)) \in Nat \ {0}
    BY <1>1, <1>7, LoadType, ChunkCountType
  <2>2. /\ t \in Transfer /\ t.next = 0 /\ t.player \in connected
        /\ \A i \in DOMAIN others : Key(others[i]) # Key(t)
    BY <1>1, <1>2, <2>1 DEF Transfer, Key
  <2>3. QueueOK(activeTransfers', connected)
    <3> HIDE DEF t, others
    <3>1. QueueOK(Append(others, t), connected)
      BY <1>2, <2>2, AppendOK
    <3> QED BY <3>1, <1>7 DEF t, others
  <2>4. <<BeginMsg(f, Loaded(f))>> \in Seq(Message)
    BY <2>1 DEF BeginMsg, Message
  <2>5. /\ out' \in [Players -> Seq(Message)]
        /\ cache' \in [Files -> Contents \cup {NoContent}]
    BY <1>1, <1>7, <2>4, SendType, LoadType
  <2>6. activeTransfers' \in Seq(Transfer)
    BY <2>3 DEF QueueOK
  <2>7. TypeOK'
    BY <1>1, <1>4, <2>5, <2>6 DEF TypeOK, tickVars
  <2> QED BY <1>1, <1>4, <2>3, <2>7, IdleStep
<1> QED BY <1>5, <1>6, <1>7 DEF OnRequestFile

\* InvalidateCache and ReplaceFile touch no transfer.
LEMMA FilesInv ==
  ASSUME IndInv,
         UNCHANGED <<connected, extended, activeTransfers, tickVars>>,
         disk' \in [Files -> Contents \cup {NoContent}],
         cache' \in [Files -> Contents \cup {NoContent}],
         out' = Quiet
  PROVE  IndInv'
<1>1. TypeOK'
  BY QuietType DEF IndInv, TypeOK, tickVars
<1>2. Queue' = Queue
  BY DEF Queue, tickVars
<1> QED BY <1>1, <1>2 DEF IndInv, TickOwnsQueue, WorkConserving, tickVars

LEMMA TickBeginInv ==
  ASSUME IndInv, TickBegin
  PROVE  IndInv'
<1>1. TypeOK'
  <2>1. sentPerPlayer' \in [Players -> 0..ChunksPerPlayerPerTick]
    <3>1. 0 \in 0..ChunksPerPlayerPerTick
      BY ServerAssumption
    <3> QED BY <3>1 DEF TickBegin
  <2>2. <<>> \in Seq(Transfer)
    OBVIOUS
  <2> QED BY <2>1, <2>2, QuietType DEF IndInv, TypeOK, TickBegin
<1>2. Queue' = activeTransfers
  <2>1. <<>> \o activeTransfers = activeTransfers
        /\ activeTransfers \o <<>> = activeTransfers
    BY ConcatEmptySeq DEF IndInv, TypeOK
  <2> QED BY <2>1 DEF TickBegin, Queue
<1>3. QueueOK(Queue', connected')
  BY <1>2, IdleQueueOK DEF TickBegin
<1>4. TickOwnsQueue' /\ WorkConserving'
  BY DEF TickBegin, TickOwnsQueue, WorkConserving
<1> QED BY <1>1, <1>3, <1>4 DEF IndInv

LEMMA TickEndInv ==
  ASSUME IndInv, TickEnd
  PROVE  IndInv'
<1>1. /\ remainingTransfers \in Seq(Transfer)
      /\ activeTransfers = <<>> /\ currentBatch = <<>>
  BY DEF IndInv, TypeOK, TickOwnsQueue, TickEnd
<1>2. activeTransfers' = remainingTransfers
  BY <1>1, ConcatEmptySeq DEF TickEnd
<1>3. Queue = remainingTransfers /\ Queue' = remainingTransfers
  <2>1. /\ <<>> \o remainingTransfers = remainingTransfers
        /\ remainingTransfers \o <<>> = remainingTransfers
        /\ <<>> \o <<>> = <<>>
    BY <1>1, ConcatEmptySeq, <<>> \in Seq(Transfer)
  <2> QED BY <2>1, <1>1, <1>2 DEF TickEnd, Queue
<1>4. TypeOK'
  BY <1>1, <1>2, QuietType DEF IndInv, TypeOK, TickEnd
<1>5. QueueOK(Queue', connected')
  BY <1>3 DEF IndInv, TickEnd
<1>6. TickOwnsQueue' /\ WorkConserving'
  BY DEF TickEnd, TickOwnsQueue, WorkConserving
<1> QED BY <1>4, <1>5, <1>6 DEF IndInv

\* The head of the batch, while a tick runs.
LEMMA HeadOK ==
  ASSUME IndInv, ticking, currentBatch # <<>>
  PROVE  /\ activeTransfers = <<>>
         /\ remainingTransfers \in Seq(Transfer)
         /\ currentBatch \in Seq(Transfer)
         /\ QueueOK(remainingTransfers \o currentBatch, connected)
         /\ Head(currentBatch) \in Transfer
         /\ Head(currentBatch).next < Head(currentBatch).total
<1>1. /\ activeTransfers = <<>> /\ remainingTransfers \in Seq(Transfer)
      /\ currentBatch \in Seq(Transfer)
  BY DEF IndInv, TypeOK, TickOwnsQueue
<1>2. QueueOK(remainingTransfers \o currentBatch, connected)
  BY <1>1, TickQueue DEF IndInv
<1>3. Head(currentBatch) \in Transfer
  BY <1>1
<1>4. Head(currentBatch).next < Head(currentBatch).total
  <2> DEFINE q == remainingTransfers \o currentBatch
             k == Len(remainingTransfers) + 1
  <2>1. k \in DOMAIN q /\ q[k] = Head(currentBatch)
    <3>1. Len(remainingTransfers) \in Nat /\ Len(currentBatch) \in Nat \ {0}
      BY <1>1
    <3>2. DOMAIN q = 1..(Len(remainingTransfers) + Len(currentBatch))
          /\ q[k] = Head(currentBatch)
      BY <1>1, TakenOut
    <3> QED BY <3>1, <3>2
  <2> QED BY <2>1, <1>2 DEF QueueOK
<1> QED BY <1>1, <1>2, <1>3, <1>4

\* What a pass sends of a transfer: k chunks, at least one, within the budget
\* and within what is left.
LEMMA AffordableType ==
  ASSUME TypeOK, NEW t \in Transfer, t.next < t.total,
         sentPerPlayer[t.player] < ChunksPerPlayerPerTick
  PROVE  LET k == Affordable(t) IN
         /\ k \in Nat \ {0} /\ t.next + k <= t.total
         /\ sentPerPlayer[t.player] + k \in 0..ChunksPerPlayerPerTick
         /\ t.next + k < t.total
               => sentPerPlayer[t.player] + k = ChunksPerPlayerPerTick
<1> DEFINE b == sentPerPlayer[t.player]
           m == ChunksPerPlayerPerTick
<1>1. b \in 0..m /\ m \in Nat /\ t.next \in Nat /\ t.total \in Nat /\ b < m
  BY ServerAssumption DEF TypeOK, Transfer
<1> HIDE DEF b, m
<1>2. Affordable(t) = IF m - b < t.total - t.next THEN m - b ELSE t.total - t.next
  BY DEF Affordable, b, m
<1> DEFINE k == Affordable(t)
<1>3. /\ k \in Nat \ {0} /\ t.next + k <= t.total
      /\ b + k \in 0..m
      /\ t.next + k < t.total => b + k = m
  <2> HIDE DEF k
  <2>1. k = IF m - b < t.total - t.next THEN m - b ELSE t.total - t.next
    BY <1>2 DEF k
  <2> QED BY <2>1, <1>1
<1> QED BY <1>3 DEF b, m

LEMMA PacketsType ==
  ASSUME NEW t \in Transfer, NEW k \in Nat, NEW c \in Contents
  PROVE  Packets(t, k, c) \in Seq(Message)
<1> DEFINE chunks == [i \in 1..k |-> ChunkMsg(t.file, c, t.next + i - 1)]
<1>1. t.file \in Files /\ t.next \in Nat
  BY DEF Transfer
<1>2. \A i \in 1..k : ChunkMsg(t.file, c, t.next + i - 1) \in Message
  <2> TAKE i \in 1..k
  <2>1. t.next + i - 1 \in Nat
    BY <1>1
  <2> QED BY <2>1, <1>1, ChunkMsgType
<1>3. chunks \in Seq(Message)
  BY <1>2
<1>4. EndMsg(t.file) \in Message
  BY <1>1 DEF EndMsg, Message
<1>5. Append(chunks, EndMsg(t.file)) \in Seq(Message)
  <2> HIDE DEF chunks
  <2> QED BY <1>3, <1>4
<1> QED BY <1>3, <1>5 DEF Packets

\* Common to the three outcomes of a pass: the queue after it is what was put
\* back followed by the rest of the batch.
LEMMA PassStep ==
  ASSUME IndInv, TickTransfer, TypeOK',
         QueueOK(remainingTransfers' \o Tail(currentBatch), connected),
         WorkConserving'
  PROVE  IndInv'
<1>1. /\ activeTransfers = <<>> /\ activeTransfers' = <<>> /\ ticking'
      /\ currentBatch' = Tail(currentBatch) /\ connected' = connected
  BY DEF IndInv, TickTransfer, TickOwnsQueue
<1>2. remainingTransfers' \o currentBatch' \in Seq(Transfer)
  BY ConcatProperties DEF TypeOK
<1>3. Queue' = remainingTransfers' \o currentBatch'
  BY <1>1, <1>2, ConcatEmptySeq DEF Queue
<1>4. QueueOK(Queue', connected')
  BY <1>1, <1>3
<1>5. TickOwnsQueue'
  BY <1>1 DEF TickOwnsQueue
<1> QED BY <1>4, <1>5 DEF IndInv

LEMMA DropInv ==
  ASSUME IndInv, TickTransfer, DropTransfer(Head(currentBatch))
  PROVE  IndInv'
<1>1. /\ remainingTransfers \in Seq(Transfer)
      /\ currentBatch \in Seq(Transfer) /\ currentBatch # <<>>
      /\ QueueOK(remainingTransfers \o currentBatch, connected)
  BY HeadOK DEF TickTransfer
<1>2. QueueOK(remainingTransfers' \o Tail(currentBatch), connected)
  BY <1>1, DropOK DEF DropTransfer
<1>3. TypeOK'
  BY <1>1, QuietType DEF IndInv, TypeOK, TickTransfer, DropTransfer
<1>4. WorkConserving'
  BY DEF IndInv, WorkConserving, DropTransfer
<1> QED BY <1>2, <1>3, <1>4, PassStep

LEMMA DeferInv ==
  ASSUME IndInv, TickTransfer, DeferTransfer(Head(currentBatch))
  PROVE  IndInv'
<1> DEFINE t == Head(currentBatch)
<1>1. /\ remainingTransfers \in Seq(Transfer)
      /\ currentBatch \in Seq(Transfer) /\ currentBatch # <<>>
      /\ QueueOK(remainingTransfers \o currentBatch, connected)
      /\ t \in Transfer /\ t.next < t.total
  BY HeadOK DEF TickTransfer
<1>2. remainingTransfers' = Append(remainingTransfers, t)
  BY DEF DeferTransfer
<1>3. t.player \in Players /\ t.file \in Files
  BY <1>1 DEF Transfer
<1>4. cache' \in [Files -> Contents \cup {NoContent}]
  BY <1>3, LoadType DEF DeferTransfer, IndInv
<1>5. sentPerPlayer[t.player] = ChunksPerPlayerPerTick
      /\ sentPerPlayer' = sentPerPlayer
  <2>1. sentPerPlayer[t.player] \in 0..ChunksPerPlayerPerTick
    BY <1>3 DEF IndInv, TypeOK
  <2>2. sentPerPlayer[t.player] >= ChunksPerPlayerPerTick
    BY DEF DeferTransfer
  <2> QED BY <2>1, <2>2, ServerAssumption DEF DeferTransfer
<1> HIDE DEF t
<1>6. QueueOK(remainingTransfers' \o Tail(currentBatch), connected)
  BY <1>1, <1>2, PutBackOK DEF t
<1>7. TypeOK'
  BY <1>1, <1>2, <1>4, QuietType DEF IndInv, TypeOK, TickTransfer, DeferTransfer
<1>8. WorkConserving'
  <2>1. ASSUME NEW i \in DOMAIN remainingTransfers'
        PROVE  \/ i \in DOMAIN remainingTransfers
                    /\ remainingTransfers'[i] = remainingTransfers[i]
               \/ remainingTransfers'[i] = t
    BY <1>1, <1>2
  <2> QED BY <2>1, <1>5 DEF IndInv, WorkConserving
<1> QED BY <1>6, <1>7, <1>8, PassStep

LEMMA PumpInv ==
  ASSUME IndInv, TickTransfer, PumpTransfer(Head(currentBatch))
  PROVE  IndInv'
<1> DEFINE t == Head(currentBatch)
           k == Affordable(t)
           u == [t EXCEPT !.next = @ + k]
<1>1. /\ remainingTransfers \in Seq(Transfer)
      /\ currentBatch \in Seq(Transfer) /\ currentBatch # <<>>
      /\ QueueOK(remainingTransfers \o currentBatch, connected)
      /\ t \in Transfer /\ t.next < t.total
  BY HeadOK DEF TickTransfer
<1>2. /\ t.player \in Players /\ t.file \in Files
      /\ t.next \in Nat /\ t.total \in Nat
  BY <1>1 DEF Transfer
<1>3. sentPerPlayer[t.player] < ChunksPerPlayerPerTick
  BY DEF PumpTransfer
<1>4. /\ k \in Nat \ {0} /\ t.next + k <= t.total
      /\ sentPerPlayer[t.player] + k \in 0..ChunksPerPlayerPerTick
      /\ t.next + k < t.total
            => sentPerPlayer[t.player] + k = ChunksPerPlayerPerTick
  BY <1>1, <1>3, AffordableType DEF IndInv
<1>5. Loaded(t.file) \in Contents
  BY <1>2, LoadType DEF PumpTransfer, IndInv
<1>6. /\ cache' \in [Files -> Contents \cup {NoContent}]
      /\ out' \in [Players -> Seq(Message)]
  <2>1. Packets(t, k, Loaded(t.file)) \in Seq(Message)
    BY <1>1, <1>4, <1>5, PacketsType
  <2>2. LoadCache(t.file) /\ Send(t.player, Packets(t, k, Loaded(t.file)))
    BY DEF PumpTransfer
  <2>3. TypeOK
    BY DEF IndInv
  <2> HIDE DEF t, k
  <2> QED BY <2>1, <2>2, <2>3, <1>2, SendType, LoadType
<1>7. /\ sentPerPlayer' = [sentPerPlayer EXCEPT ![t.player] = @ + k]
      /\ sentPerPlayer' \in [Players -> 0..ChunksPerPlayerPerTick]
  <2>1. sentPerPlayer' = [sentPerPlayer EXCEPT ![t.player] = @ + k]
    BY DEF PumpTransfer
  <2>2. sentPerPlayer \in [Players -> 0..ChunksPerPlayerPerTick]
    BY DEF IndInv, TypeOK
  <2> HIDE DEF t, k
  <2> QED BY <2>1, <2>2, <1>2, <1>4
<1>8. remainingTransfers' = IF t.next + k >= t.total THEN remainingTransfers
                            ELSE Append(remainingTransfers, u)
  BY DEF PumpTransfer
\* Nothing of this player has been put back: its budget would be used up.
<1>9. \A i \in DOMAIN remainingTransfers :
         remainingTransfers[i].player # t.player
  BY <1>3, <1>2, ServerAssumption DEF IndInv, WorkConserving, TypeOK
<1>10. u \in Transfer /\ Key(u) = Key(t) /\ u.player = t.player
       /\ u.next = t.next + k /\ u.total = t.total
  <2> HIDE DEF k, t
  <2>1. t.next + k \in Nat
    BY <1>2, <1>4
  <2>2. /\ u.player = t.player /\ u.file = t.file
        /\ u.next = t.next + k /\ u.total = t.total
    BY <1>1 DEF Transfer
  <2>3. u \in Transfer
    BY <1>1, <2>1 DEF Transfer
  <2> QED BY <2>2, <2>3 DEF Key
<1>11. ASSUME NEW i \in DOMAIN remainingTransfers
       PROVE  remainingTransfers[i].player \in Players
  <2>1. remainingTransfers[i] \in Transfer
    BY <1>1
  <2> QED BY <2>1 DEF Transfer
<1> HIDE DEF t, k, u
<1>12. CASE t.next + k >= t.total
  <2>1. remainingTransfers' = remainingTransfers
    BY <1>8, <1>12
  <2>2. QueueOK(remainingTransfers' \o Tail(currentBatch), connected)
    BY <2>1, <1>1, DropOK
  <2>3. TypeOK'
    BY <1>1, <2>1, <1>6, <1>7 DEF IndInv, TypeOK, TickTransfer
  <2>4. WorkConserving'
    <3>1. ASSUME NEW i \in DOMAIN remainingTransfers
          PROVE  sentPerPlayer'[remainingTransfers[i].player]
                   = ChunksPerPlayerPerTick
      <4>1. remainingTransfers[i].player \in Players
        BY <1>11
      <4> QED BY <4>1, <1>7, <1>9 DEF IndInv, WorkConserving, TypeOK
    <3> QED BY <3>1, <2>1 DEF WorkConserving
  <2> QED BY <2>2, <2>3, <2>4, PassStep
<1>13. CASE ~(t.next + k >= t.total)
  <2>1. remainingTransfers' = Append(remainingTransfers, u)
    BY <1>8, <1>13
  <2>2. t.next + k < t.total
    BY <1>13, <1>2, <1>4
  <2>3. QueueOK(Append(remainingTransfers, u) \o Tail(currentBatch), connected)
    <3>1. Key(u) = Key(Head(currentBatch)) /\ u.next < u.total
          /\ \A i \in DOMAIN remainingTransfers :
                remainingTransfers[i].player # u.player
      BY <1>9, <1>10, <2>2 DEF t
    <3> QED BY <3>1, <1>1, <1>10, PutBackOK
  <2>4. TypeOK'
    BY <1>1, <2>1, <1>6, <1>7, <1>10 DEF IndInv, TypeOK, TickTransfer
  <2>5. WorkConserving'
    <3>1. ASSUME NEW i \in DOMAIN remainingTransfers'
          PROVE  sentPerPlayer'[remainingTransfers'[i].player]
                   = ChunksPerPlayerPerTick
      <4>1. CASE i \in DOMAIN remainingTransfers
                 /\ remainingTransfers'[i] = remainingTransfers[i]
        <5>1. remainingTransfers[i].player \in Players
          BY <1>11, <4>1
        <5> QED BY <4>1, <5>1, <1>7, <1>9 DEF IndInv, WorkConserving, TypeOK
      <4>2. CASE remainingTransfers'[i] = u
        BY <4>2, <1>2, <1>4, <1>7, <1>10, <2>2 DEF IndInv, TypeOK
      <4> QED BY <4>1, <4>2, <1>1, <1>10, <2>1
    <3> QED BY <3>1 DEF WorkConserving
  <2> QED BY <2>1, <2>3, <2>4, <2>5, PassStep
<1> QED BY <1>12, <1>13

-----------------------------------------------------------------------------
(* The theorems *)

LEMMA StepInv == IndInv /\ [Next]_vars => IndInv'
<1> SUFFICES ASSUME IndInv, [Next]_vars PROVE IndInv'
  OBVIOUS
<1>1. CASE \E p \in Players : Session(p)
  BY <1>1, SessionInv
<1>2. CASE \E p \in Players, f \in Files : ClientPacket(p, f)
  <2>1. PICK p \in Players, f \in Files : ClientPacket(p, f)
    BY <1>2
  <2>2. CASE OnRequestFile(p, f)
    BY <2>2, RequestInv
  <2>3. CASE CancelTransfer(p, f)
    BY <2>3, EraseInv DEF CancelTransfer
  <2> QED BY <2>1, <2>2, <2>3 DEF ClientPacket
<1>3. CASE Script
  <2>1. CASE \E m \in Models : CancelTransfersForModel(m)
    BY <2>1, EraseInv DEF CancelTransfersForModel
  <2>2. CASE \E f \in Files : InvalidateCache(f)
    <3>1. PICK f \in Files : InvalidateCache(f)
      BY <2>2
    <3>2. /\ disk' \in [Files -> Contents \cup {NoContent}]
          /\ cache' \in [Files -> Contents \cup {NoContent}]
      BY <3>1 DEF InvalidateCache, IndInv, TypeOK
    <3> QED BY <3>1, <3>2, FilesInv DEF InvalidateCache
  <2> QED BY <1>3, <2>1, <2>2 DEF Script
<1>4. CASE \E f \in Files, c \in Contents \cup {NoContent} : ReplaceFile(f, c)
  <2>1. PICK f \in Files, c \in Contents \cup {NoContent} : ReplaceFile(f, c)
    BY <1>4
  <2>2. /\ disk' \in [Files -> Contents \cup {NoContent}]
        /\ cache' \in [Files -> Contents \cup {NoContent}]
    BY <2>1 DEF ReplaceFile, IndInv, TypeOK
  <2> QED BY <2>1, <2>2, FilesInv DEF ReplaceFile
<1>5. CASE Tick
  <2>1. CASE TickTransfer
    BY <2>1, DropInv, DeferInv, PumpInv DEF TickTransfer
  <2> QED BY <1>5, <2>1, TickBeginInv, TickEndInv DEF Tick
<1>6. CASE UNCHANGED vars
  BY <1>6 DEF vars, tickVars, IndInv, TypeOK, TickOwnsQueue, Queue,
              WorkConserving
<1> QED BY <1>1, <1>2, <1>3, <1>4, <1>5, <1>6 DEF Next

LEMMA Invariance == Spec => []IndInv
BY InitInv, StepInv, PTL DEF Spec

\* The variables of the transfer manager always have their types; the budget
\* of a tick (sentPerPlayer) is never exceeded.
THEOREM TypeCorrect == Spec => []TypeOK
<1>1. IndInv => TypeOK
  BY DEF IndInv
<1> QED BY <1>1, Invariance, PTL

\* For any number of players, files and limits: OnRequestFile's erase keeps
\* one transfer per player and file, across the deques of a running tick.
THEOREM OneTransfer == Spec => []OneTransferPerFile
<1>1. IndInv => OneTransferPerFile
  BY QueueOKIsSafe DEF IndInv
<1> QED BY <1>1, Invariance, PTL

\* ProcessTick never interleaves the chunks of two files of one player.
THEOREM InOrder == Spec => []FirstComeFirstServed
<1>1. IndInv => FirstComeFirstServed
  BY QueueOKIsSafe DEF IndInv
<1> QED BY <1>1, Invariance, PTL

\* A queued transfer has chunks left and an owner who is connected.
THEOREM Live == Spec => []QueueIsLive
<1>1. IndInv => QueueIsLive
  BY QueueOKIsSafe DEF IndInv
<1> QED BY <1>1, Invariance, PTL

\* A tick puts a transfer back only when its player's budget is used up.
THEOREM BudgetUsed == Spec => []WorkConserving
<1>1. IndInv => WorkConserving
  BY DEF IndInv
<1> QED BY <1>1, Invariance, PTL

-----------------------------------------------------------------------------
(* How many transfers a player has.                                         *)

\* r holds no transfer that q has not, up to how far it has got.
KeysFrom(r, q) ==
    \A i \in DOMAIN r : \E j \in DOMAIN q : Key(q[j]) = Key(r[i])

LEMMA OwnedFinite ==
  ASSUME NEW q \in Seq(Transfer), NEW p
  PROVE  /\ IsFiniteSet(Owned(q, p))
         /\ Cardinality(Owned(q, p)) \in Nat
         /\ Owned(q, p) \subseteq 1..Len(q)
<1>1. Owned(q, p) \subseteq 1..Len(q) /\ Len(q) \in Nat
  BY DEF Owned
<1>2. IsFiniteSet(1..Len(q))
  BY <1>1, FS_Interval
<1>3. IsFiniteSet(Owned(q, p))
  BY <1>1, <1>2, FS_Subset
<1> QED BY <1>1, <1>3, FS_CardinalityType

\* Where every key is in the queue once, no player has more transfers in r
\* than in q: the transfers of r are mapped one to one into those of q.
LEMMA OwnedBound ==
  ASSUME NEW C, NEW r, QueueOK(r, C), NEW q \in Seq(Transfer),
         KeysFrom(r, q), NEW p
  PROVE  Cardinality(Owned(r, p)) <= Cardinality(Owned(q, p))
<1> DEFINE e == [i \in Owned(r, p) |->
                   CHOOSE j \in DOMAIN q : Key(q[j]) = Key(r[i])]
<1>1. ASSUME NEW i \in Owned(r, p)
      PROVE  e[i] \in DOMAIN q /\ Key(q[e[i]]) = Key(r[i])
  <2>1. i \in DOMAIN r
    BY DEF Owned
  <2>2. \E j \in DOMAIN q : Key(q[j]) = Key(r[i])
    BY <2>1 DEF KeysFrom
  <2> QED BY <2>2
<1>2. ASSUME NEW i \in Owned(r, p)
      PROVE  e[i] \in Owned(q, p)
  <2>1. r[i].player = p
    BY DEF Owned
  <2>2. q[e[i]].player = r[i].player
    BY <1>1 DEF Key
  <2> QED BY <1>1, <2>1, <2>2 DEF Owned
<1>3. ASSUME NEW i \in Owned(r, p), NEW j \in Owned(r, p), e[i] = e[j]
      PROVE  i = j
  <2>1. Key(r[i]) = Key(r[j])
    BY <1>1, <1>3
  <2> QED BY <2>1 DEF Owned, QueueOK
<1>4. e \in [Owned(r, p) -> Owned(q, p)]
  BY <1>2
<1>5. e \in Injection(Owned(r, p), Owned(q, p))
  <2> HIDE DEF e
  <2> QED BY <1>3, <1>4 DEF Injection, IsInjective
<1> QED BY <1>5, OwnedFinite, FS_Injection

\* A new transfer is one more of its player's and none of anybody else's.
LEMMA OwnedAppend ==
  ASSUME NEW q \in Seq(Transfer), NEW t \in Transfer, NEW p
  PROVE  Cardinality(Owned(Append(q, t), p)) =
           Cardinality(Owned(q, p)) + (IF t.player = p THEN 1 ELSE 0)
<1> DEFINE k == Len(q) + 1
           r == Append(q, t)
<1>1. Len(q) \in Nat /\ DOMAIN q = 1..Len(q)
  OBVIOUS
<1>2. DOMAIN r = 1..k /\ r[k] = t /\ \A i \in DOMAIN q : r[i] = q[i]
  BY <1>1
<1> HIDE DEF r
<1>3. Owned(r, p) = IF t.player = p THEN Owned(q, p) \cup {k} ELSE Owned(q, p)
  BY <1>1, <1>2 DEF Owned
<1>4. k \notin Owned(q, p)
  BY <1>1 DEF Owned
<1>5. IsFiniteSet(Owned(q, p)) /\ Cardinality(Owned(q, p)) \in Nat
  BY OwnedFinite
<1>6. CASE t.player = p
  <2>1. Cardinality(Owned(q, p) \cup {k}) = Cardinality(Owned(q, p)) + 1
    BY <1>4, <1>5, FS_AddElement
  <2> QED BY <2>1, <1>3, <1>6 DEF r
<1>7. CASE t.player # p
  BY <1>3, <1>5, <1>7 DEF r
<1> QED BY <1>6, <1>7

LEMMA WithoutKeys ==
  ASSUME NEW q \in Seq(Transfer), NEW D
  PROVE  \A i \in DOMAIN Without(q, D) :
            \E j \in DOMAIN q : Without(q, D)[i] = q[j]
<1> DEFINE r == Without(q, D)
<1>1. r \in Seq(Transfer) /\ \E e : Leaves(r, e, q, Len(q), D)
  BY WithoutLeaves
<1> HIDE DEF r
<1>2. PICK e : Leaves(r, e, q, Len(q), D)
  BY <1>1
<1>3. \A i \in DOMAIN r : e[i] \in DOMAIN q /\ r[i] = q[e[i]]
  BY <1>1, <1>2 DEF Leaves
<1> QED BY <1>3 DEF r

\* r is q without the transfer of that key.
Rest(r, q, key) ==
    /\ r \in Seq(Transfer)
    /\ \A i \in DOMAIN r : Key(r[i]) # key /\ \E j \in DOMAIN q : r[i] = q[j]
    /\ \A j \in DOMAIN q : Key(q[j]) # key => \E i \in DOMAIN r : r[i] = q[j]

LEMMA WithoutRest ==
  ASSUME NEW q \in Seq(Transfer), NEW key
  PROVE  Rest(Without(q, {key}), q, key)
<1> DEFINE r == Without(q, {key})
<1>1. r \in Seq(Transfer) /\ \E e : Leaves(r, e, q, Len(q), {key})
  BY WithoutLeaves
<1> HIDE DEF r
<1>2. PICK e : Leaves(r, e, q, Len(q), {key})
  BY <1>1
<1>3. \A i \in DOMAIN r : /\ e[i] \in DOMAIN q /\ r[i] = q[e[i]]
                          /\ Key(r[i]) # key
  BY <1>1, <1>2 DEF Leaves
<1>4. ASSUME NEW j \in DOMAIN q, Key(q[j]) # key
      PROVE  \E i \in DOMAIN r : r[i] = q[j]
  <2>1. PICK i \in 1..Len(r) : e[i] = j
    BY <1>2, <1>4 DEF Leaves
  <2>2. i \in DOMAIN r
    BY <1>1
  <2> QED BY <2>1, <2>2, <1>3
<1> QED BY <1>1, <1>3, <1>4 DEF r, Rest

-----------------------------------------------------------------------------
(* The four kinds of steps, as far as the queue and the packets go.         *)

\* Transfers may be given up, and the players get nothing.
Fewer ==
    /\ out' = Quiet
    /\ \A i \in DOMAIN Queue' : \E j \in DOMAIN Queue : Queue'[i] = Queue[j]

Started(p, f) ==
    \E c \in Contents : \E others :
        /\ Rest(others, Queue, <<p, f>>)
        /\ QueueOK(others, connected)
        /\ Cardinality(Owned(others, p)) < MaxActiveTransfersPerPlayer
        /\ Queue' = Append(others, [player |-> p, file |-> f, next |-> 0,
                                    total |-> ChunkCount(c)])
        /\ Send(p, <<BeginMsg(f, c)>>)

Refused(p, f) ==
    /\ Rest(Queue', Queue, <<p, f>>)
    /\ Send(p, <<CancelMsg(f)>>)

\* k chunks of the transfer at place n, whose player has no other file with
\* chunks out.
Pumped(n, k) ==
    LET t == Queue[n] IN
    /\ t.next + k <= t.total
    /\ \E c \in Contents : Send(t.player, Packets(t, k, c))
    /\ \/ t.next + k = t.total /\ Rest(Queue', Queue, Key(t))
       \/ /\ t.next + k < t.total
          /\ DOMAIN Queue' = DOMAIN Queue
          /\ \A i \in DOMAIN Queue :
                Queue'[i] = IF i = n THEN [t EXCEPT !.next = @ + k] ELSE Queue[i]
    /\ \A j \in DOMAIN Queue \ {n} :
          Queue[j].player = t.player => Queue[j].next = 0

LEMMA IdleQueues ==
  ASSUME IndInv, IndInv', ~ticking, UNCHANGED tickVars
  PROVE  Queue = activeTransfers /\ Queue' = activeTransfers'
<1>1. Queue = activeTransfers
  BY IdleQueue DEF IndInv, TickOwnsQueue
<1>2. currentBatch' = <<>> /\ remainingTransfers' = <<>>
      /\ activeTransfers' \in Seq(Transfer)
  BY DEF IndInv, TickOwnsQueue, TypeOK, tickVars
<1>3. <<>> \o <<>> = <<>> /\ <<>> \o activeTransfers' = activeTransfers'
  BY <1>2, ConcatEmptySeq, <<>> \in Seq(Transfer)
<1> QED BY <1>1, <1>2, <1>3 DEF Queue

LEMMA SameQueue ==
  ASSUME Queue' = Queue, out' = Quiet
  PROVE  Fewer
BY DEF Fewer

LEMMA EraseFewer ==
  ASSUME IndInv, IndInv', ~ticking, UNCHANGED tickVars, out' = Quiet,
         NEW D, activeTransfers' = Without(activeTransfers, D)
  PROVE  Fewer
<1>1. activeTransfers \in Seq(Transfer)
  BY DEF IndInv, TypeOK
<1>2. Queue = activeTransfers /\ Queue' = activeTransfers'
  BY IdleQueues
<1> QED BY <1>1, <1>2, WithoutKeys DEF Fewer

LEMMA SessionFewer ==
  ASSUME IndInv, IndInv', NEW p \in Players, Session(p)
  PROVE  Fewer
<1>1. CASE PlayerDisconnect(p)
  BY <1>1, EraseFewer DEF PlayerDisconnect
<1>2. CASE IncomingConnection(p) \/ PlayerConnect(p) \/ PlayerInit(p)
  <2>1. UNCHANGED <<activeTransfers, tickVars>> /\ out' = Quiet
    BY <1>2 DEF IncomingConnection, PlayerConnect, PlayerInit
  <2> QED BY <2>1, SameQueue DEF Queue, tickVars
<1> QED BY <1>1, <1>2 DEF Session

LEMMA RequestKind ==
  ASSUME IndInv, IndInv', NEW p \in Players, NEW f \in Files,
         OnRequestFile(p, f)
  PROVE  Fewer \/ Started(p, f) \/ Refused(p, f)
<1> DEFINE others == Without(activeTransfers, {<<p, f>>})
<1>1. ~ticking /\ UNCHANGED tickVars /\ TypeOK
  BY DEF OnRequestFile, IndInv
<1>2. Queue = activeTransfers /\ Queue' = activeTransfers'
      /\ activeTransfers \in Seq(Transfer)
  BY <1>1, IdleQueues DEF IndInv, TypeOK
<1>3. Rest(others, Queue, <<p, f>>)
  BY <1>2, WithoutRest
<1>4. QueueOK(others, connected)
  BY <1>1, IdleQueueOK, WithoutOK
<1> HIDE DEF others
<1>5. CASE activeTransfers' = others /\ out' = Quiet
  BY <1>2, <1>3, <1>5 DEF Fewer, Rest
<1>6. CASE activeTransfers' = others /\ Send(p, <<CancelMsg(f)>>)
  BY <1>2, <1>3, <1>6 DEF Refused
<1>7. CASE /\ Cardinality(Owned(others, p)) < MaxActiveTransfersPerPlayer
           /\ Loaded(f) # NoContent
           /\ activeTransfers' =
                 Append(others, [player |-> p, file |-> f, next |-> 0,
                                 total |-> ChunkCount(Loaded(f))])
           /\ Send(p, <<BeginMsg(f, Loaded(f))>>)
  <2>1. Loaded(f) \in Contents
    BY <1>1, <1>7, LoadType
  <2> QED BY <2>1, <1>2, <1>3, <1>4, <1>7 DEF Started
<1> QED BY <1>5, <1>6, <1>7 DEF OnRequestFile, others

\* The queue before and after a pass of the tick.
LEMMA PassQueues ==
  ASSUME IndInv, IndInv', TickTransfer
  PROVE  /\ Queue = remainingTransfers \o currentBatch
         /\ Queue' = remainingTransfers' \o Tail(currentBatch)
         /\ remainingTransfers \in Seq(Transfer)
         /\ currentBatch \in Seq(Transfer) /\ currentBatch # <<>>
<1>1. /\ activeTransfers = <<>> /\ activeTransfers' = <<>>
      /\ currentBatch' = Tail(currentBatch) /\ currentBatch # <<>>
  BY DEF IndInv, TickTransfer, TickOwnsQueue
<1>2. Queue = remainingTransfers \o currentBatch
  BY <1>1, TickQueue DEF IndInv
<1>3. remainingTransfers' \o currentBatch' \in Seq(Transfer)
  BY ConcatProperties DEF IndInv, TypeOK
<1>4. Queue' = remainingTransfers' \o currentBatch'
  BY <1>1, <1>3, ConcatEmptySeq DEF Queue
<1> QED BY <1>1, <1>2, <1>4 DEF IndInv, TypeOK

\* The transfer at the head of the batch taken out of the queue.
LEMMA TakenRest ==
  ASSUME NEW C, NEW r \in Seq(Transfer), NEW b \in Seq(Transfer), b # <<>>,
         QueueOK(r \o b, C)
  PROVE  Rest(r \o Tail(b), r \o b, Key(Head(b)))
<1> DEFINE old == r \o b
           new == r \o Tail(b)
           k == Len(r) + 1
<1>1. Len(r) \in Nat /\ Len(b) \in Nat \ {0}
  OBVIOUS
<1>2. /\ new \in Seq(Transfer)
      /\ DOMAIN old = 1..(Len(r) + Len(b))
      /\ DOMAIN new = 1..(Len(r) + Len(b) - 1)
      /\ old[k] = Head(b)
      /\ \A i \in 1..Len(r) : old[i] = r[i] /\ new[i] = r[i]
      /\ \A i \in (Len(r) + 1)..(Len(r) + Len(b) - 1) : new[i] = old[i + 1]
  BY TakenOut
<1>3. QueueOK(old, C)
  OBVIOUS
<1> HIDE DEF old, new
<1>4. k \in DOMAIN old
  BY <1>1, <1>2
<1>5. ASSUME NEW i \in DOMAIN new
      PROVE  \E j \in DOMAIN old \ {k} : new[i] = old[j]
  <2>1. CASE i <= Len(r)
    BY <2>1, <1>1, <1>2
  <2>2. CASE ~(i <= Len(r))
    <3>1. i \in (Len(r) + 1)..(Len(r) + Len(b) - 1) /\ i + 1 \in DOMAIN old
          /\ i + 1 # k
      BY <2>2, <1>1, <1>2
    <3> QED BY <3>1, <1>2
  <2> QED BY <2>1, <2>2
<1>6. ASSUME NEW i \in DOMAIN new
      PROVE  Key(new[i]) # Key(Head(b)) /\ \E j \in DOMAIN old : new[i] = old[j]
  <2>1. PICK j \in DOMAIN old \ {k} : new[i] = old[j]
    BY <1>5
  <2>2. Key(old[j]) # Key(old[k])
    BY <1>3, <1>4, <2>1 DEF QueueOK
  <2> QED BY <2>1, <2>2, <1>2
<1>7. ASSUME NEW j \in DOMAIN old, Key(old[j]) # Key(Head(b))
      PROVE  \E i \in DOMAIN new : new[i] = old[j]
  <2>1. j # k
    BY <1>2, <1>7
  <2>2. CASE j < k
    <3>1. j \in 1..Len(r) /\ j \in DOMAIN new
      BY <2>2, <1>1, <1>2
    <3> QED BY <3>1, <1>2
  <2>3. CASE j > k
    <3>1. j - 1 \in (Len(r) + 1)..(Len(r) + Len(b) - 1)
          /\ j - 1 \in DOMAIN new /\ (j - 1) + 1 = j
      BY <2>3, <1>1, <1>2
    <3>2. new[j - 1] = old[(j - 1) + 1]
      BY <3>1, <1>2
    <3> QED BY <3>1, <3>2
  <2>4. j \in Nat /\ k \in Nat
    BY <1>1, <1>2
  <2> QED BY <2>1, <2>2, <2>3, <2>4
<1> QED BY <1>2, <1>6, <1>7 DEF Rest, old, new

LEMMA DropFewer ==
  ASSUME IndInv, IndInv', TickTransfer, DropTransfer(Head(currentBatch))
  PROVE  Fewer
<1>1. /\ Queue = remainingTransfers \o currentBatch
      /\ Queue' = remainingTransfers' \o Tail(currentBatch)
      /\ remainingTransfers \in Seq(Transfer)
      /\ currentBatch \in Seq(Transfer) /\ currentBatch # <<>>
  BY PassQueues
<1>2. remainingTransfers' = remainingTransfers /\ out' = Quiet
  BY DEF DropTransfer
<1>3. Rest(Queue', Queue, Key(Head(currentBatch)))
  BY <1>1, <1>2, TakenRest DEF IndInv
<1> QED BY <1>2, <1>3 DEF Fewer, Rest

LEMMA DeferFewer ==
  ASSUME IndInv, IndInv', TickTransfer, DeferTransfer(Head(currentBatch))
  PROVE  Fewer
<1> DEFINE t == Head(currentBatch)
<1>1. /\ Queue = remainingTransfers \o currentBatch
      /\ Queue' = remainingTransfers' \o Tail(currentBatch)
      /\ remainingTransfers \in Seq(Transfer)
      /\ currentBatch \in Seq(Transfer) /\ currentBatch # <<>>
  BY PassQueues
<1>2. remainingTransfers' = Append(remainingTransfers, t) /\ out' = Quiet
  BY DEF DeferTransfer
<1>3. t \in Transfer
  BY <1>1
<1>4. Queue[Len(remainingTransfers) + 1] = t
  BY <1>1, TakenOut
<1> HIDE DEF t
<1>5. /\ DOMAIN Queue' = DOMAIN Queue
      /\ \A i \in DOMAIN Queue :
            Queue'[i] = IF i = Len(remainingTransfers) + 1 THEN t ELSE Queue[i]
  BY <1>1, <1>2, <1>3, PutBack
<1>6. \A i \in DOMAIN Queue : Queue'[i] = Queue[i]
  BY <1>4, <1>5
<1> QED BY <1>2, <1>5, <1>6 DEF Fewer

LEMMA PumpKind ==
  ASSUME IndInv, IndInv', TickTransfer, PumpTransfer(Head(currentBatch))
  PROVE  \E n \in DOMAIN Queue, k \in Nat \ {0} : Pumped(n, k)
<1> DEFINE t == Head(currentBatch)
           k == Affordable(t)
           n == Len(remainingTransfers) + 1
           u == [t EXCEPT !.next = @ + k]
<1>1. /\ Queue = remainingTransfers \o currentBatch
      /\ Queue' = remainingTransfers' \o Tail(currentBatch)
      /\ remainingTransfers \in Seq(Transfer)
      /\ currentBatch \in Seq(Transfer) /\ currentBatch # <<>>
  BY PassQueues
<1>2. t \in Transfer /\ t.next < t.total /\ QueueOK(Queue, connected)
  BY HeadOK DEF TickTransfer, IndInv
<1>3. t.player \in Players /\ t.file \in Files
      /\ t.next \in Nat /\ t.total \in Nat
  BY <1>2 DEF Transfer
<1>4. sentPerPlayer[t.player] < ChunksPerPlayerPerTick
  BY DEF PumpTransfer
<1>5. k \in Nat \ {0} /\ t.next + k <= t.total
  BY <1>2, <1>4, AffordableType DEF IndInv
<1>6. \E c \in Contents : Send(t.player, Packets(t, k, c))
  <2>1. Loaded(t.file) \in Contents
    BY <1>3, LoadType DEF PumpTransfer, IndInv
  <2> QED BY <2>1 DEF PumpTransfer
<1>7. remainingTransfers' = IF t.next + k >= t.total THEN remainingTransfers
                            ELSE Append(remainingTransfers, u)
  BY DEF PumpTransfer
<1>8. \A i \in DOMAIN remainingTransfers :
         remainingTransfers[i].player # t.player
  BY <1>4, <1>3, ServerAssumption DEF IndInv, WorkConserving, TypeOK
<1>9. /\ n \in DOMAIN Queue /\ Queue[n] = t
      /\ \A i \in DOMAIN Queue :
            i < n => i \in DOMAIN remainingTransfers
                       /\ Queue[i] = remainingTransfers[i]
      /\ DOMAIN Queue \subseteq Nat /\ n \in Nat
  <2>1. Len(remainingTransfers) \in Nat /\ Len(currentBatch) \in Nat \ {0}
        /\ DOMAIN remainingTransfers = 1..Len(remainingTransfers)
    BY <1>1
  <2>2. /\ DOMAIN Queue = 1..(Len(remainingTransfers) + Len(currentBatch))
        /\ Queue[n] = t
        /\ \A i \in 1..Len(remainingTransfers) : Queue[i] = remainingTransfers[i]
    BY <1>1, TakenOut
  <2> QED BY <2>1, <2>2
<1>10. u \in Transfer
  <2>1. t.next + k \in Nat
    BY <1>3, <1>5
  <2> HIDE DEF t, k
  <2> QED BY <2>1, <1>2 DEF Transfer
<1> HIDE DEF t, k
<1>11. ASSUME NEW j \in DOMAIN Queue \ {n}, Queue[j].player = t.player
       PROVE  Queue[j].next = 0
  <2>1. CASE j < n
    BY <2>1, <1>8, <1>9, <1>11
  <2>2. CASE n < j
    BY <2>2, <1>2, <1>9, <1>11 DEF QueueOK
  <2> HIDE DEF n
  <2> QED BY <2>1, <2>2, <1>9
<1>12. CASE t.next + k = t.total
  <2>1. Queue' = remainingTransfers \o Tail(currentBatch)
    BY <1>1, <1>3, <1>5, <1>7, <1>12
  <2>2. Rest(Queue', Queue, Key(t))
    BY <2>1, <1>1, <1>2, TakenRest DEF t
  <2> HIDE DEF n, u
  <2>3. Pumped(n, k)
    BY <2>2, <1>5, <1>6, <1>9, <1>11, <1>12 DEF Pumped
  <2> QED BY <2>3, <1>5, <1>9
<1>13. CASE t.next + k < t.total
  <2>1. remainingTransfers' = Append(remainingTransfers, u)
    BY <1>3, <1>5, <1>7, <1>13
  <2> HIDE DEF u
  <2>2. /\ DOMAIN Queue' = DOMAIN Queue
        /\ \A i \in DOMAIN Queue : Queue'[i] = IF i = n THEN u ELSE Queue[i]
    BY <2>1, <1>1, <1>10, PutBack
  <2> HIDE DEF n
  <2>3. Pumped(n, k)
    BY <2>2, <1>5, <1>6, <1>9, <1>11, <1>13 DEF Pumped, u
  <2> QED BY <2>3, <1>5, <1>9
<1> QED BY <1>3, <1>5, <1>12, <1>13

LEMMA StepKinds ==
  ASSUME IndInv, IndInv', Next
  PROVE  \/ Fewer
         \/ \E p \in Players, f \in Files : Started(p, f) \/ Refused(p, f)
         \/ \E n \in DOMAIN Queue, k \in Nat \ {0} : Pumped(n, k)
<1>1. CASE \E p \in Players : Session(p)
  BY <1>1, SessionFewer
<1>2. CASE \E p \in Players, f \in Files : ClientPacket(p, f)
  <2>1. PICK p \in Players, f \in Files : ClientPacket(p, f)
    BY <1>2
  <2>2. CASE OnRequestFile(p, f)
    BY <2>2, RequestKind
  <2>3. CASE CancelTransfer(p, f)
    BY <2>3, EraseFewer DEF CancelTransfer
  <2> QED BY <2>1, <2>2, <2>3 DEF ClientPacket
<1>3. CASE \E m \in Models : CancelTransfersForModel(m)
  BY <1>3, EraseFewer DEF CancelTransfersForModel
<1>4. CASE \/ \E f \in Files : InvalidateCache(f)
           \/ \E f \in Files, c \in Contents \cup {NoContent} : ReplaceFile(f, c)
  <2>1. UNCHANGED <<activeTransfers, tickVars>> /\ out' = Quiet
    BY <1>4 DEF InvalidateCache, ReplaceFile
  <2> QED BY <2>1, SameQueue DEF Queue, tickVars
<1>5. CASE TickBegin
  <2>1. activeTransfers \in Seq(Transfer) /\ Queue = activeTransfers
    BY <1>5, IdleQueue DEF TickBegin, IndInv, TypeOK, TickOwnsQueue
  <2>2. <<>> \o activeTransfers = activeTransfers
        /\ activeTransfers \o <<>> = activeTransfers
    BY <2>1, ConcatEmptySeq
  <2>3. Queue' = activeTransfers /\ out' = Quiet
    BY <2>2, <1>5 DEF TickBegin, Queue
  <2> QED BY <2>1, <2>3, SameQueue
<1>6. CASE TickTransfer
  BY <1>6, DropFewer, DeferFewer, PumpKind DEF TickTransfer
<1>7. CASE TickEnd
  <2>1. /\ remainingTransfers \in Seq(Transfer) /\ activeTransfers = <<>>
        /\ currentBatch = <<>>
    BY <1>7 DEF TickEnd, IndInv, TypeOK, TickOwnsQueue
  <2>2. /\ <<>> \o remainingTransfers = remainingTransfers
        /\ remainingTransfers \o <<>> = remainingTransfers
        /\ <<>> \o <<>> = <<>>
    BY <2>1, ConcatEmptySeq, <<>> \in Seq(Transfer)
  <2>3. Queue' = Queue /\ out' = Quiet
    BY <2>1, <2>2, <1>7 DEF TickEnd, Queue
  <2> QED BY <2>3, SameQueue
<1> QED BY <1>1, <1>2, <1>3, <1>4, <1>5, <1>6, <1>7 DEF Next, Script, Tick

LEMMA RestKeys ==
  ASSUME NEW r, NEW q, NEW key, Rest(r, q, key)
  PROVE  KeysFrom(r, q)
BY DEF Rest, KeysFrom

LEMMA StartedType ==
  ASSUME NEW p \in Players, NEW f \in Files, NEW c \in Contents
  PROVE  [player |-> p, file |-> f, next |-> 0, total |-> ChunkCount(c)]
            \in Transfer
BY ChunkCountType DEF Transfer

\* Only an accepted request can bring a player closer to its limit.
LEMMA LimitStep ==
  ASSUME IndInv, IndInv', TransferLimit, [Next]_vars
  PROVE  TransferLimit'
<1>1. /\ QueueOK(Queue, connected) /\ QueueOK(Queue', connected')
      /\ Queue \in Seq(Transfer) /\ Queue' \in Seq(Transfer)
      /\ MaxActiveTransfersPerPlayer \in Nat
  BY ServerAssumption DEF IndInv, QueueOK
<1>2. ASSUME NEW r, NEW C, QueueOK(r, C), KeysFrom(r, Queue), NEW p \in Players
      PROVE  Cardinality(Owned(r, p)) <= MaxActiveTransfersPerPlayer
  <2>1. Cardinality(Owned(r, p)) <= Cardinality(Owned(Queue, p))
    BY <1>1, <1>2, OwnedBound
  <2>2. Cardinality(Owned(Queue, p)) <= MaxActiveTransfersPerPlayer
    BY DEF TransferLimit
  <2>3. Cardinality(Owned(r, p)) \in Nat /\ Cardinality(Owned(Queue, p)) \in Nat
    BY <1>1, <1>2, OwnedFinite DEF QueueOK
  <2> QED BY <2>1, <2>2, <2>3, <1>1
<1>3. CASE KeysFrom(Queue', Queue)
  BY <1>1, <1>2, <1>3 DEF TransferLimit
<1>4. CASE \E p \in Players, f \in Files : Started(p, f)
  <2>1. PICK p \in Players, f \in Files : Started(p, f)
    BY <1>4
  <2>1a. PICK c \in Contents : \E others :
           /\ Rest(others, Queue, <<p, f>>)
           /\ QueueOK(others, connected)
           /\ Cardinality(Owned(others, p)) < MaxActiveTransfersPerPlayer
           /\ Queue' = Append(others, [player |-> p, file |-> f, next |-> 0,
                                       total |-> ChunkCount(c)])
    BY <2>1 DEF Started
  <2>2. PICK others :
           /\ Rest(others, Queue, <<p, f>>)
           /\ QueueOK(others, connected)
           /\ Cardinality(Owned(others, p)) < MaxActiveTransfersPerPlayer
           /\ Queue' = Append(others, [player |-> p, file |-> f, next |-> 0,
                                       total |-> ChunkCount(c)])
    BY <2>1a
  <2> DEFINE t == [player |-> p, file |-> f, next |-> 0,
                   total |-> ChunkCount(c)]
  <2>3. t \in Transfer /\ t.player = p
    BY StartedType
  <2>4. Queue' = Append(others, t) /\ others \in Seq(Transfer)
    BY <2>2 DEF Rest
  <2> HIDE DEF t
  <2>5. ASSUME NEW p2 \in Players
        PROVE  Cardinality(Owned(Queue', p2)) <= MaxActiveTransfersPerPlayer
    <3>1. Cardinality(Owned(Queue', p2)) =
            Cardinality(Owned(others, p2)) + (IF t.player = p2 THEN 1 ELSE 0)
      BY <2>3, <2>4, OwnedAppend
    <3>2. Cardinality(Owned(others, p2)) \in Nat
      BY <2>4, OwnedFinite
    <3>3. Cardinality(Owned(others, p2)) <= MaxActiveTransfersPerPlayer
      BY <2>2, <1>2, RestKeys
    <3>4. CASE p2 = p
      <4>1. Cardinality(Owned(others, p2)) < MaxActiveTransfersPerPlayer
        BY <2>2, <3>4
      <4> QED BY <3>1, <3>2, <3>4, <4>1, <2>3, <1>1
    <3>5. CASE p2 # p
      BY <3>1, <3>2, <3>3, <3>5, <2>3
    <3> QED BY <3>4, <3>5
  <2> QED BY <2>5 DEF TransferLimit
<1>5. CASE Fewer \/ \E p \in Players, f \in Files : Refused(p, f)
  <2>1. KeysFrom(Queue', Queue)
    <3>1. CASE Fewer
      BY <3>1 DEF Fewer, KeysFrom
    <3>2. CASE \E p \in Players, f \in Files : Refused(p, f)
      BY <3>2, RestKeys DEF Refused
    <3> QED BY <3>1, <3>2, <1>5
  <2> QED BY <2>1, <1>3
<1>6. CASE \E n \in DOMAIN Queue, k \in Nat \ {0} : Pumped(n, k)
  <2>1. PICK n \in DOMAIN Queue, k \in Nat \ {0} : Pumped(n, k)
    BY <1>6
  <2> DEFINE t == Queue[n]
             u == [t EXCEPT !.next = @ + k]
  <2>2. CASE Rest(Queue', Queue, Key(t))
    BY <2>2, <1>3, RestKeys
  <2>3. CASE /\ DOMAIN Queue' = DOMAIN Queue
             /\ \A i \in DOMAIN Queue :
                   Queue'[i] = IF i = n THEN u ELSE Queue[i]
    <3>1. Key(u) = Key(t)
      BY <1>1 DEF Key, Transfer
    <3> HIDE DEF u
    <3>2. \A i \in DOMAIN Queue' : Key(Queue[i]) = Key(Queue'[i])
      BY <2>3, <3>1
    <3>3. KeysFrom(Queue', Queue)
      BY <3>2, <2>3 DEF KeysFrom
    <3> QED BY <3>3, <1>3
  <2> QED BY <2>1, <2>2, <2>3 DEF Pumped
<1>7. CASE UNCHANGED vars
  BY <1>7 DEF vars, tickVars, Queue, TransferLimit
<1> QED BY <1>4, <1>5, <1>6, <1>7, StepKinds

LEMMA LimitInvariance == Spec => [](IndInv /\ TransferLimit)
<1>1. Init => TransferLimit
  <2> SUFFICES ASSUME Init PROVE TransferLimit
    OBVIOUS
  <2>1. IndInv /\ Queue = <<>>
    <3>1. IndInv
      BY InitInv
    <3> QED BY <3>1, IdleQueue DEF Init, IndInv
  <2>2. \A p \in Players : Owned(Queue, p) = {}
    BY <2>1 DEF Owned
  <2> QED BY <2>2, FS_EmptySet, ServerAssumption DEF TransferLimit
<1>2. IndInv /\ IndInv' /\ TransferLimit /\ [Next]_vars => TransferLimit'
  BY LimitStep
<1> QED BY <1>1, <1>2, Invariance, PTL DEF Spec

\* For any limit: repeated requests, transfers put back and a tick that runs
\* never let a player have more transfers than MaxActiveTransfersPerPlayer.
THEOREM WithinLimit == Spec => []TransferLimit
BY LimitInvariance, PTL

-----------------------------------------------------------------------------
(* The streams of ChunkStreams, read off a queue.                           *)

StreamIn(q, pf) ==
    LET places == {i \in DOMAIN q : Key(q[i]) = pf}
        t      == q[CHOOSE i \in places : TRUE]
    IN IF places = {} THEN [next |-> 0, total |-> 0]
                      ELSE [next |-> t.next, total |-> t.total]

Stream == [pf \in Players \X Files |-> StreamOf(pf)]
Packs == [p \in Players |-> [i \in DOMAIN out[p] |-> Shape(out[p][i])]]

LEMMA StreamIsIn ==
  /\ Stream = [pf \in Players \X Files |-> StreamIn(Queue, pf)]
  /\ Stream' = [pf \in Players \X Files |-> StreamIn(Queue', pf)]
BY DEF Stream, StreamOf, StreamIn

\* With unique keys, a transfer is its player's stream of its file.
LEMMA StreamAt ==
  ASSUME NEW C, NEW q, QueueOK(q, C), NEW i \in DOMAIN q
  PROVE  StreamIn(q, Key(q[i])) = [next |-> q[i].next, total |-> q[i].total]
<1> DEFINE places == {j \in DOMAIN q : Key(q[j]) = Key(q[i])}
<1>1. places = {i}
  BY DEF QueueOK
<1>2. (CHOOSE j \in places : TRUE) = i
  BY <1>1
<1> HIDE DEF places
<1>3. StreamIn(q, Key(q[i])) =
        IF places = {} THEN [next |-> 0, total |-> 0]
        ELSE [next |-> q[CHOOSE j \in places : TRUE].next,
              total |-> q[CHOOSE j \in places : TRUE].total]
  BY DEF StreamIn, places
<1> QED BY <1>1, <1>2, <1>3

LEMMA StreamNone ==
  ASSUME NEW q, NEW pf, \A i \in DOMAIN q : Key(q[i]) # pf
  PROVE  StreamIn(q, pf) = [next |-> 0, total |-> 0]
<1>1. {i \in DOMAIN q : Key(q[i]) = pf} = {}
  OBVIOUS
<1> QED BY <1>1 DEF StreamIn

LEMMA StreamFewer ==
  ASSUME NEW C, NEW q, QueueOK(q, C), NEW D, NEW r, QueueOK(r, D),
         \A i \in DOMAIN r : \E j \in DOMAIN q : r[i] = q[j],
         NEW pf
  PROVE  StreamIn(r, pf) \in {[next |-> 0, total |-> 0], StreamIn(q, pf)}
<1>1. CASE \A i \in DOMAIN r : Key(r[i]) # pf
  BY <1>1, StreamNone
<1>2. CASE \E i \in DOMAIN r : Key(r[i]) = pf
  <2>1. PICK i \in DOMAIN r : Key(r[i]) = pf
    BY <1>2
  <2>2. PICK j \in DOMAIN q : r[i] = q[j]
    OBVIOUS
  <2>3. StreamIn(r, pf) = [next |-> r[i].next, total |-> r[i].total]
    BY <2>1, StreamAt
  <2>4. StreamIn(q, pf) = [next |-> q[j].next, total |-> q[j].total]
    BY <2>1, <2>2, StreamAt
  <2> QED BY <2>2, <2>3, <2>4
<1> QED BY <1>1, <1>2

LEMMA StreamRest ==
  ASSUME NEW C, NEW q, QueueOK(q, C), NEW D, NEW r, QueueOK(r, D),
         NEW key, Rest(r, q, key), NEW pf
  PROVE  StreamIn(r, pf) = IF pf = key THEN [next |-> 0, total |-> 0]
                                       ELSE StreamIn(q, pf)
<1>1. CASE pf = key
  <2>1. \A i \in DOMAIN r : Key(r[i]) # pf
    BY <1>1 DEF Rest
  <2> QED BY <2>1, <1>1, StreamNone
<1>2. CASE pf # key /\ \A i \in DOMAIN q : Key(q[i]) # pf
  <2>1. \A i \in DOMAIN r : Key(r[i]) # pf
    BY <1>2 DEF Rest
  <2> QED BY <2>1, <1>2, StreamNone
<1>3. CASE pf # key /\ \E i \in DOMAIN q : Key(q[i]) = pf
  <2>1. PICK j \in DOMAIN q : Key(q[j]) = pf
    BY <1>3
  <2>2. PICK i \in DOMAIN r : r[i] = q[j]
    BY <1>3, <2>1 DEF Rest
  <2>3. StreamIn(q, pf) = [next |-> q[j].next, total |-> q[j].total]
    BY <2>1, StreamAt
  <2>4. StreamIn(r, pf) = [next |-> r[i].next, total |-> r[i].total]
    BY <2>1, <2>2, StreamAt
  <2> QED BY <1>3, <2>2, <2>3, <2>4
<1> QED BY <1>1, <1>2, <1>3

LEMMA StreamAppend ==
  ASSUME NEW C, NEW q, QueueOK(q, C), NEW D, NEW t \in Transfer,
         QueueOK(Append(q, t), D), NEW pf
  PROVE  StreamIn(Append(q, t), pf) =
           IF pf = Key(t) THEN [next |-> t.next, total |-> t.total]
                          ELSE StreamIn(q, pf)
<1> DEFINE r == Append(q, t)
           k == Len(q) + 1
<1>1. q \in Seq(Transfer) /\ Len(q) \in Nat /\ DOMAIN q = 1..Len(q)
  BY DEF QueueOK
<1>2. DOMAIN r = 1..k /\ r[k] = t /\ \A i \in DOMAIN q : r[i] = q[i]
  BY <1>1
<1>3. QueueOK(r, D)
  OBVIOUS
<1> HIDE DEF r
<1>4. k \in DOMAIN r /\ DOMAIN q \subseteq DOMAIN r
      /\ \A i \in DOMAIN r : i = k \/ i \in DOMAIN q
  BY <1>1, <1>2
<1> HIDE DEF k
<1>5. CASE pf = Key(t)
  <2>1. StreamIn(r, Key(r[k])) = [next |-> r[k].next, total |-> r[k].total]
    BY <1>3, <1>4, StreamAt
  <2> QED BY <2>1, <1>2, <1>5 DEF r
<1>6. CASE pf # Key(t) /\ \A i \in DOMAIN q : Key(q[i]) # pf
  <2>1. \A i \in DOMAIN r : Key(r[i]) # pf
    BY <1>2, <1>4, <1>6
  <2> QED BY <2>1, <1>6, StreamNone DEF r
<1>7. CASE pf # Key(t) /\ \E i \in DOMAIN q : Key(q[i]) = pf
  <2>1. PICK j \in DOMAIN q : Key(q[j]) = pf
    BY <1>7
  <2>2. StreamIn(q, pf) = [next |-> q[j].next, total |-> q[j].total]
    BY <2>1, StreamAt
  <2>3. j \in DOMAIN r /\ r[j] = q[j]
    BY <1>2, <1>4
  <2>4. StreamIn(r, pf) = [next |-> r[j].next, total |-> r[j].total]
    BY <2>1, <2>3, <1>3, StreamAt
  <2> QED BY <1>7, <2>2, <2>3, <2>4 DEF r
<1> QED BY <1>5, <1>6, <1>7

LEMMA StreamReplace ==
  ASSUME NEW C, NEW q, QueueOK(q, C), NEW D, NEW r, QueueOK(r, D),
         NEW n \in DOMAIN q, NEW t, Key(t) = Key(q[n]),
         DOMAIN r = DOMAIN q,
         \A i \in DOMAIN q : r[i] = IF i = n THEN t ELSE q[i],
         NEW pf
  PROVE  StreamIn(r, pf) =
           IF pf = Key(t) THEN [next |-> t.next, total |-> t.total]
                          ELSE StreamIn(q, pf)
<1>1. CASE pf = Key(t)
  <2>1. r[n] = t /\ n \in DOMAIN r
    OBVIOUS
  <2> QED BY <2>1, <1>1, StreamAt
<1>2. CASE pf # Key(t) /\ \A i \in DOMAIN q : Key(q[i]) # pf
  <2>1. \A i \in DOMAIN r : Key(r[i]) # pf
    BY <1>2
  <2> QED BY <2>1, <1>2, StreamNone
<1>3. CASE pf # Key(t) /\ \E i \in DOMAIN q : Key(q[i]) = pf
  <2>1. PICK j \in DOMAIN q : Key(q[j]) = pf
    BY <1>3
  <2>2. j # n /\ r[j] = q[j] /\ j \in DOMAIN r
    BY <1>3, <2>1
  <2>3. StreamIn(q, pf) = [next |-> q[j].next, total |-> q[j].total]
    BY <2>1, StreamAt
  <2>4. StreamIn(r, pf) = [next |-> r[j].next, total |-> r[j].total]
    BY <2>1, <2>2, StreamAt
  <2> QED BY <1>3, <2>2, <2>3, <2>4
<1> QED BY <1>1, <1>2, <1>3

-----------------------------------------------------------------------------
(* The packets of ChunkStreams.                                             *)

Shapes(msgs) == [i \in DOMAIN msgs |-> Shape(msgs[i])]

LEMMA PacksQuiet ==
  ASSUME out' = Quiet
  PROVE  Packs' = Streams!Quiet
<1>1. \A p \in Players : [i \in DOMAIN out'[p] |-> Shape(out'[p][i])] = <<>>
  BY DEF Quiet
<1> QED BY <1>1 DEF Packs, Streams!Quiet

LEMMA PacksSend ==
  ASSUME NEW p \in Players, NEW msgs, Send(p, msgs)
  PROVE  Packs' = [Streams!Quiet EXCEPT ![p] = Shapes(msgs)]
<1>1. ASSUME NEW r \in Players
      PROVE  out'[r] = IF r = p THEN msgs ELSE <<>>
  BY DEF Send, Quiet
<1>2. [i \in DOMAIN <<>> |-> Shape(<<>>[i])] = <<>>
  OBVIOUS
<1>3. ASSUME NEW r \in Players
      PROVE  [i \in DOMAIN out'[r] |-> Shape(out'[r][i])]
               = IF r = p THEN Shapes(msgs) ELSE <<>>
  BY <1>1, <1>2 DEF Shapes
<1> QED BY <1>3 DEF Packs, Streams!Quiet

LEMMA ShapesOne ==
  ASSUME NEW m
  PROVE  Shapes(<<m>>) = <<Shape(m)>>
BY DEF Shapes

LEMMA TableSeq ==
  ASSUME NEW n \in Nat, NEW s, s = [i \in 1..n |-> s[i]]
  PROVE  /\ s \in Seq({s[i] : i \in 1..n})
         /\ DOMAIN s = 1..n /\ Len(s) = n
<1>1. s \in [1..n -> {s[i] : i \in 1..n}]
  OBVIOUS
<1> QED BY <1>1

LEMMA ShapesPackets ==
  ASSUME NEW t \in Transfer, NEW k \in Nat, NEW c
  PROVE  LET chunks == [i \in 1..k |-> Streams!Chunk(t.file, t.next + i - 1)]
         IN Shapes(Packets(t, k, c)) =
              IF t.next + k < t.total THEN chunks
              ELSE Append(chunks, Streams!End(t.file))
<1> DEFINE msgs == [i \in 1..k |-> ChunkMsg(t.file, c, t.next + i - 1)]
           chunks == [i \in 1..k |-> Streams!Chunk(t.file, t.next + i - 1)]
<1>1. ASSUME NEW i \in 1..k
      PROVE  Shape(msgs[i]) = chunks[i]
  BY DEF Shape, ChunkMsg, Streams!Chunk
<1>2. /\ msgs \in Seq({msgs[i] : i \in 1..k})
      /\ chunks \in Seq({chunks[i] : i \in 1..k})
      /\ DOMAIN msgs = 1..k /\ DOMAIN chunks = 1..k
      /\ Len(msgs) = k /\ Len(chunks) = k
  <2>1. msgs = [i \in 1..k |-> msgs[i]] /\ chunks = [i \in 1..k |-> chunks[i]]
    OBVIOUS
  <2> HIDE DEF msgs, chunks
  <2> QED BY <2>1, TableSeq
<1>3. Shapes(msgs) = chunks
  <2> HIDE DEF msgs
  <2> QED BY <1>1, <1>2 DEF Shapes
<1>4. Shape(EndMsg(t.file)) = Streams!End(t.file)
  BY DEF Shape, EndMsg, Streams!End
<1>5. Shapes(Append(msgs, EndMsg(t.file))) = Append(chunks, Streams!End(t.file))
  <2> DEFINE e == EndMsg(t.file)
             a == Append(msgs, e)
             b == Append(chunks, Streams!End(t.file))
  <2> HIDE DEF msgs, chunks, e
  <2>1. DOMAIN a = 1..(k + 1) /\ a[k + 1] = e /\ \A i \in 1..k : a[i] = msgs[i]
    BY <1>2
  <2>2. /\ DOMAIN b = 1..(k + 1) /\ b[k + 1] = Streams!End(t.file)
        /\ \A i \in 1..k : b[i] = chunks[i]
        /\ b = [i \in 1..(k + 1) |-> b[i]]
    BY <1>2
  <2> HIDE DEF a, b
  <2>3. ASSUME NEW i \in 1..(k + 1)
        PROVE  Shape(a[i]) = b[i]
    <3>1. CASE i = k + 1
      BY <3>1, <2>1, <2>2, <1>4 DEF e
    <3>2. CASE i # k + 1
      <4>1. i \in 1..k
        BY <3>2
      <4> QED BY <4>1, <2>1, <2>2, <1>1
    <3> QED BY <3>1, <3>2
  <2>4. Shapes(a) = [i \in 1..(k + 1) |-> b[i]]
    BY <2>1, <2>3 DEF Shapes
  <2> QED BY <2>2, <2>4 DEF a, b, e
<1>6. t.next \in Nat /\ t.total \in Nat
  BY DEF Transfer
<1>7. Packets(t, k, c) = IF t.next + k < t.total THEN msgs
                         ELSE Append(msgs, EndMsg(t.file))
  BY <1>6 DEF Packets
<1> HIDE DEF msgs
<1> QED BY <1>3, <1>5, <1>7

-----------------------------------------------------------------------------
(* Every step of the transfer manager is a step of ChunkStreams.            *)

LEMMA QueuesOK ==
  ASSUME IndInv, IndInv'
  PROVE  /\ QueueOK(Queue, connected) /\ QueueOK(Queue', connected')
         /\ Queue \in Seq(Transfer) /\ Queue' \in Seq(Transfer)
BY DEF IndInv, QueueOK

LEMMA RefinesFewer ==
  ASSUME IndInv, IndInv', Fewer
  PROVE  Streams!Abandon
<1>1. Packs' = Streams!Quiet
  BY PacksQuiet DEF Fewer
<1>2. ASSUME NEW pf \in Players \X Files
      PROVE  Stream'[pf] \in {Streams!Closed, Stream[pf]}
  <2>1. StreamIn(Queue', pf) \in
          {[next |-> 0, total |-> 0], StreamIn(Queue, pf)}
    BY QueuesOK, StreamFewer DEF Fewer
  <2> QED BY <2>1, StreamIsIn DEF Streams!Closed
<1>3. DOMAIN Stream' = Players \X Files
  BY StreamIsIn
<1> QED BY <1>1, <1>2, <1>3 DEF Streams!Abandon, Stream, Packs

LEMMA RefinesStarted ==
  ASSUME IndInv, IndInv', NEW p \in Players, NEW f \in Files, Started(p, f)
  PROVE  Streams!Start(p, f)
<1>1a. PICK c \in Contents : \E others :
         /\ Rest(others, Queue, <<p, f>>)
         /\ QueueOK(others, connected)
         /\ Queue' = Append(others, [player |-> p, file |-> f, next |-> 0,
                                     total |-> ChunkCount(c)])
         /\ Send(p, <<BeginMsg(f, c)>>)
  BY DEF Started
<1>1. PICK others :
         /\ Rest(others, Queue, <<p, f>>)
         /\ QueueOK(others, connected)
         /\ Queue' = Append(others, [player |-> p, file |-> f, next |-> 0,
                                     total |-> ChunkCount(c)])
         /\ Send(p, <<BeginMsg(f, c)>>)
  BY <1>1a
<1> DEFINE t == [player |-> p, file |-> f, next |-> 0, total |-> ChunkCount(c)]
           n == ChunkCount(c)
<1>2. t \in Transfer /\ Key(t) = <<p, f>> /\ t.next = 0 /\ t.total = n
  BY StartedType DEF Key
<1>3. n \in {ChunkCount(d) : d \in Contents}
  OBVIOUS
<1>4. Packs' = [Streams!Quiet EXCEPT ![p] = <<Streams!Begin(f, n)>>]
  <2>1. Shape(BeginMsg(f, c)) = Streams!Begin(f, n)
    BY DEF Shape, BeginMsg, Streams!Begin
  <2> QED BY <2>1, <1>1, PacksSend, ShapesOne
<1>5. Queue' = Append(others, t)
  BY <1>1
<1> HIDE DEF t, n
<1>6. ASSUME NEW pf \in Players \X Files
      PROVE  Stream'[pf] = IF pf = <<p, f>> THEN Streams!Open(n) ELSE Stream[pf]
  <2>1. StreamIn(Queue', pf) =
          IF pf = <<p, f>> THEN [next |-> 0, total |-> n]
                           ELSE StreamIn(others, pf)
    <3>1. QueueOK(Append(others, t), connected')
      BY <1>5, QueuesOK
    <3>2. StreamIn(Append(others, t), pf) =
            IF pf = Key(t) THEN [next |-> t.next, total |-> t.total]
                           ELSE StreamIn(others, pf)
      BY <3>1, <1>1, <1>2, StreamAppend
    <3> QED BY <3>2, <1>2, <1>5
  <2>2. pf # <<p, f>> => StreamIn(others, pf) = StreamIn(Queue, pf)
    BY <1>1, QueuesOK, StreamRest
  <2> QED BY <2>1, <2>2, StreamIsIn DEF Streams!Open
<1>7. Stream' = [Stream EXCEPT ![<<p, f>>] = Streams!Open(n)]
  BY <1>6, StreamIsIn
<1> QED BY <1>3, <1>4, <1>7 DEF Streams!Start, Streams!Send, Stream, Packs

LEMMA RefinesRefused ==
  ASSUME IndInv, IndInv', NEW p \in Players, NEW f \in Files, Refused(p, f)
  PROVE  Streams!Refuse(p, f)
<1>1. Packs' = [Streams!Quiet EXCEPT ![p] = <<Streams!Cancel(f)>>]
  <2>1. Shape(CancelMsg(f)) = Streams!Cancel(f)
    BY DEF Shape, CancelMsg, Streams!Cancel
  <2> QED BY <2>1, PacksSend, ShapesOne DEF Refused
<1>2. ASSUME NEW pf \in Players \X Files
      PROVE  Stream'[pf] = IF pf = <<p, f>> THEN Streams!Closed ELSE Stream[pf]
  <2>1. StreamIn(Queue', pf) =
          IF pf = <<p, f>> THEN [next |-> 0, total |-> 0]
                           ELSE StreamIn(Queue, pf)
    BY QueuesOK, StreamRest DEF Refused
  <2> QED BY <2>1, StreamIsIn DEF Streams!Closed
<1>3. Stream' = [Stream EXCEPT ![<<p, f>>] = Streams!Closed]
  BY <1>2, StreamIsIn
<1> QED BY <1>1, <1>3 DEF Streams!Refuse, Streams!Send, Stream, Packs

LEMMA RefinesPumped ==
  ASSUME IndInv, IndInv', NEW n \in DOMAIN Queue, NEW k \in Nat \ {0},
         Pumped(n, k)
  PROVE  \E p \in Players, f \in Files :
           /\ k \in 1..(Stream[<<p, f>>].total - Stream[<<p, f>>].next)
           /\ Streams!Continue(p, f, k)
<1> DEFINE t == Queue[n]
           u == [t EXCEPT !.next = @ + k]
<1>1. t \in Transfer
  BY QueuesOK
<1>2. PICK p \in Players, f \in Files :
         /\ p = t.player /\ f = t.file /\ Key(t) = <<p, f>>
         /\ t.next \in Nat /\ t.total \in Nat \ {0}
  BY <1>1 DEF Transfer, Key
<1> DEFINE s == Stream[<<p, f>>]
           chunks == [i \in 1..k |-> Streams!Chunk(f, s.next + i - 1)]
<1>3. s = [next |-> t.next, total |-> t.total]
  BY <1>2, QueuesOK, StreamAt, StreamIsIn
<1>4. t.next + k <= t.total
  BY DEF Pumped
<1>5. k \in 1..(s.total - s.next) /\ s # Streams!Closed
  BY <1>2, <1>3, <1>4 DEF Streams!Closed
<1>6. Packs' = [Streams!Quiet EXCEPT ![p] =
                  IF s.next + k < s.total THEN chunks
                  ELSE Append(chunks, Streams!End(f))]
  <2>1. PICK c \in Contents : Send(p, Packets(t, k, c))
    BY <1>2 DEF Pumped
  <2>2. Packs' = [Streams!Quiet EXCEPT ![p] = Shapes(Packets(t, k, c))]
    BY <2>1, <1>2, PacksSend
  <2>3. Shapes(Packets(t, k, c)) = IF s.next + k < s.total THEN chunks
                                   ELSE Append(chunks, Streams!End(f))
    <3>1. k \in Nat
      OBVIOUS
    <3> QED BY <3>1, <1>1, <1>2, <1>3, ShapesPackets
  <2> QED BY <2>2, <2>3
<1>7. ASSUME NEW g \in Files \ {f}
      PROVE  Stream[<<p, g>>].next = 0
  <2>1. CASE \A j \in DOMAIN Queue : Key(Queue[j]) # <<p, g>>
    <3>1. StreamIn(Queue, <<p, g>>) = [next |-> 0, total |-> 0]
      BY <2>1, StreamNone
    <3> QED BY <3>1, <1>2, StreamIsIn
  <2>2. CASE \E j \in DOMAIN Queue : Key(Queue[j]) = <<p, g>>
    <3>1. PICK j \in DOMAIN Queue : Key(Queue[j]) = <<p, g>>
      BY <2>2
    <3>2. j # n /\ Queue[j].player = p
      BY <3>1, <1>2 DEF Key
    <3>3. Queue[j].next = 0
      BY <3>2, <1>2 DEF Pumped
    <3>4. StreamIn(Queue, <<p, g>>) =
            [next |-> Queue[j].next, total |-> Queue[j].total]
      BY <3>1, QueuesOK, StreamAt
    <3> QED BY <3>3, <3>4, <1>2, StreamIsIn
  <2> QED BY <2>1, <2>2
<1>8. CASE s.next + k < s.total
  <2>1. /\ DOMAIN Queue' = DOMAIN Queue
        /\ \A i \in DOMAIN Queue : Queue'[i] = IF i = n THEN u ELSE Queue[i]
    BY <1>2, <1>3, <1>8 DEF Pumped
  <2>2. Key(u) = Key(t) /\ u.next = t.next + k /\ u.total = t.total
    BY <1>1 DEF Key, Transfer
  <2> HIDE DEF u
  <2>3. ASSUME NEW pf \in Players \X Files
        PROVE  Stream'[pf] = IF pf = <<p, f>>
                             THEN [next |-> s.next + k, total |-> s.total]
                             ELSE Stream[pf]
    <3>1. StreamIn(Queue', pf) =
            IF pf = Key(u) THEN [next |-> u.next, total |-> u.total]
                           ELSE StreamIn(Queue, pf)
      BY <2>1, <2>2, QueuesOK, StreamReplace
    <3> QED BY <3>1, <2>2, <1>2, <1>3, StreamIsIn
  <2> HIDE DEF t
  <2>4. Stream' = [Stream EXCEPT ![<<p, f>>].next = s.next + k]
    <3>1. [s EXCEPT !.next = s.next + k]
            = [next |-> s.next + k, total |-> s.total]
      <4> HIDE DEF s
      <4> QED BY <1>3
    <3>2. DOMAIN Stream = Players \X Files /\ DOMAIN Stream' = Players \X Files
          /\ Stream' = [pf \in Players \X Files |-> Stream'[pf]]
      BY StreamIsIn
    <3> DEFINE v == [next |-> s.next + k, total |-> s.total]
    <3>3. [Stream EXCEPT ![<<p, f>>].next = s.next + k]
            = [pf \in Players \X Files |-> IF pf = <<p, f>> THEN v ELSE Stream[pf]]
      BY <3>1, <3>2, Zenon
    <3> HIDE DEF v, s
    <3> QED BY <2>3, <3>2, <3>3 DEF v
  <2> HIDE DEF s, chunks
  <2>5. Streams!Continue(p, f, k)
    BY <2>4, <1>5, <1>6, <1>7, <1>8
       DEF Streams!Continue, Streams!Send, Stream, Packs, s, chunks
  <2> QED BY <2>5, <1>2, <1>5 DEF s
<1>9. CASE ~(s.next + k < s.total)
  <2>1. Rest(Queue', Queue, <<p, f>>)
    BY <1>2, <1>3, <1>4, <1>9 DEF Pumped
  <2>2. ASSUME NEW pf \in Players \X Files
        PROVE  Stream'[pf] = IF pf = <<p, f>> THEN Streams!Closed
                             ELSE Stream[pf]
    <3>1. StreamIn(Queue', pf) =
            IF pf = <<p, f>> THEN [next |-> 0, total |-> 0]
                             ELSE StreamIn(Queue, pf)
      BY <2>1, QueuesOK, StreamRest
    <3> QED BY <3>1, StreamIsIn DEF Streams!Closed
  <2>3. Stream' = [Stream EXCEPT ![<<p, f>>] = Streams!Closed]
    BY <2>2, <1>2, StreamIsIn
  <2> HIDE DEF t, s, chunks
  <2>4. Streams!Continue(p, f, k)
    BY <2>3, <1>5, <1>6, <1>7, <1>9
       DEF Streams!Continue, Streams!Send, Stream, Packs, s, chunks
  <2> QED BY <2>4, <1>2, <1>5 DEF s
<1> QED BY <1>8, <1>9

LEMMA StreamsNext ==
  ASSUME IndInv, IndInv', Next
  PROVE  Streams!Next
<1>1. CASE Fewer
  BY <1>1, RefinesFewer DEF Streams!Next
<1>2. CASE \E p \in Players, f \in Files : Started(p, f) \/ Refused(p, f)
  BY <1>2, RefinesStarted, RefinesRefused DEF Streams!Next
<1>3. CASE \E n \in DOMAIN Queue, k \in Nat \ {0} : Pumped(n, k)
  BY <1>3, RefinesPumped DEF Streams!Next, Stream
<1> QED BY <1>1, <1>2, <1>3, StepKinds

LEMMA StreamsStep ==
  ASSUME IndInv, IndInv', [Next]_vars
  PROVE  [Streams!Next]_(Streams!vars)
<1>1. CASE UNCHANGED vars
  <2>1. Queue' = Queue /\ out' = out
    BY <1>1 DEF vars, tickVars, Queue
  <2>2. Stream' = Stream /\ Packs' = Packs
    BY <2>1, StreamIsIn DEF Packs
  <2> QED BY <2>2 DEF Streams!vars, Stream, Packs
<1> QED BY <1>1, StreamsNext

LEMMA StreamsInit ==
  ASSUME Init
  PROVE  Streams!Init
<1>1. Queue = <<>>
  BY InitInv, IdleQueue DEF Init, IndInv
<1>2. \A pf \in Players \X Files : StreamIn(Queue, pf) = [next |-> 0, total |-> 0]
  BY <1>1, StreamNone
<1>3. Stream = [pf \in Players \X Files |-> Streams!Closed]
  BY <1>2, StreamIsIn DEF Streams!Closed
<1>4. Packs = Streams!Quiet
  <2>1. \A p \in Players : [i \in DOMAIN out[p] |-> Shape(out[p][i])] = <<>>
    BY DEF Init, Quiet
  <2> QED BY <2>1 DEF Packs, Streams!Quiet
<1> QED BY <1>3, <1>4 DEF Streams!Init, Stream, Packs

\* The transfer manager implements ChunkStreams: whatever the deques, the
\* budget and the other players do, a player receives of a file BEGIN, its
\* chunks in order and once each, and END with the last, and no chunk of
\* another file in between.
THEOREM Refinement == Spec => ImplementsStreams
<1>1. Init => Streams!Init
  BY StreamsInit
<1>2. IndInv /\ IndInv' /\ [Next]_vars => [Streams!Next]_(Streams!vars)
  BY StreamsStep
<1> QED BY <1>1, <1>2, Invariance, PTL DEF Spec, ImplementsStreams, Streams!Spec

-----------------------------------------------------------------------------
(* What one player sees of one file in a step: the form in which the promise *)
(* is used where the packets arrive (ClientProofs).                          *)

NoStream == [next |-> 0, total |-> 0]

\* The chunks from the next one on, k of them.
NextChunks(f, s, k) ==
    [i \in 1..k |-> [type |-> "chunk", file |-> f, number |-> s.next + i - 1]]

\* The packets w take the stream of f from s to t.
Seen(f, s, w, t) ==
    \/ w = <<>> /\ t \in {s, NoStream}
    \/ t = s /\ \A i \in DOMAIN w : w[i].file # f
    \/ \E n \in Nat :
          /\ w = <<[type |-> "begin", file |-> f, number |-> n]>>
          /\ t = [next |-> 0, total |-> n]
    \/ /\ w = <<[type |-> "cancel", file |-> f, number |-> 0]>>
       /\ t = NoStream
    \/ \E k \in Nat \ {0} :
          /\ s.next + k < s.total
          /\ w = NextChunks(f, s, k)
          /\ t = [next |-> s.next + k, total |-> s.total]
    \/ \E k \in Nat \ {0} :
          /\ s.next + k = s.total
          /\ w = Append(NextChunks(f, s, k),
                         [type |-> "end", file |-> f, number |-> 0])
          /\ t = NoStream

LEMMA StreamType ==
  ASSUME IndInv, NEW p \in Players, NEW f \in Files
  PROVE  Stream[<<p, f>>] \in [next : Nat, total : Nat]
<1>1. CASE \A j \in DOMAIN Queue : Key(Queue[j]) # <<p, f>>
  <2>1. StreamIn(Queue, <<p, f>>) = [next |-> 0, total |-> 0]
    BY <1>1, StreamNone
  <2> QED BY <2>1, StreamIsIn
<1>2. CASE \E j \in DOMAIN Queue : Key(Queue[j]) = <<p, f>>
  <2>1. PICK j \in DOMAIN Queue : Key(Queue[j]) = <<p, f>>
    BY <1>2
  <2>2. StreamIn(Queue, <<p, f>>) =
          [next |-> Queue[j].next, total |-> Queue[j].total]
    BY <2>1, StreamAt DEF IndInv
  <2>3. Queue[j] \in Transfer
    BY <2>1 DEF IndInv, QueueOK
  <2>4. Queue[j].next \in Nat /\ Queue[j].total \in Nat
    BY <2>3 DEF Transfer
  <2> QED BY <2>2, <2>4, StreamIsIn
<1> QED BY <1>1, <1>2

LEMMA PlayerSees ==
  ASSUME IndInv, IndInv', Next, NEW p \in Players, NEW f \in Files
  PROVE  Seen(f, Stream[<<p, f>>], Packs'[p], Stream'[<<p, f>>])
<1> DEFINE s == Stream[<<p, f>>]
           t == Stream'[<<p, f>>]
           w == Packs'[p]
<1>1. DOMAIN Stream = Players \X Files /\ DOMAIN Streams!Quiet = Players
  BY DEF Stream, Streams!Quiet
<1>2. CASE Streams!Abandon
  <2>1. w = <<>> /\ t \in {s, Streams!Closed}
    BY <1>2 DEF Streams!Abandon, Streams!Quiet, Stream, Packs
  <2> QED BY <2>1 DEF Seen, Streams!Closed, NoStream
<1>3. ASSUME NEW q \in Players, NEW g \in Files, NEW msgs, NEW u,
             Packs' = [Streams!Quiet EXCEPT ![q] = msgs],
             Stream' = [Stream EXCEPT ![<<q, g>>] = u]
      PROVE  /\ q # p => w = <<>> /\ t = s
             /\ q = p => w = msgs /\ t = IF g = f THEN u ELSE s
  <2>2. Streams!Quiet[p] = <<>>
    BY DEF Streams!Quiet
  <2>3. q # p => w = <<>> /\ t = s
    BY <2>2, <1>1, <1>3
  <2>4. q = p => w = msgs
    BY <1>1, <1>3
  <2>5. q = p /\ g = f => t = u
    BY <1>1, <1>3
  <2>6. q = p /\ g # f => t = s
    BY <1>1, <1>3
  <2> QED BY <2>3, <2>4, <2>5, <2>6
<1>4. ASSUME NEW q \in Players, NEW g \in Files, Streams!Start(q, g)
      PROVE  Seen(f, s, w, t)
  <2>1. PICK n \in {ChunkCount(c) : c \in Contents} :
          /\ Packs' = [Streams!Quiet EXCEPT ![q] = <<Streams!Begin(g, n)>>]
          /\ Stream' = [Stream EXCEPT ![<<q, g>>] = Streams!Open(n)]
    BY <1>4 DEF Streams!Start, Streams!Send, Stream, Packs
  <2>2. n \in Nat
    BY ChunkCountType
  <2>3. CASE q = p /\ g = f
    <3>1. w = <<Streams!Begin(g, n)>> /\ t = Streams!Open(n)
      <4> HIDE DEF w, t, s
      <4> QED BY <2>1, <2>3, <1>3, Zenon
    <3> QED BY <3>1, <2>2, <2>3 DEF Seen, Streams!Begin, Streams!Open
  <2>4. CASE q = p /\ g # f
    <3>1. w = <<Streams!Begin(g, n)>> /\ t = s
      BY <2>1, <2>4, <1>3
    <3> QED BY <3>1, <2>4 DEF Seen, Streams!Begin
  <2>5. CASE q # p
    BY <2>1, <2>5, <1>3 DEF Seen
  <2> QED BY <2>3, <2>4, <2>5
<1>5. ASSUME NEW q \in Players, NEW g \in Files, Streams!Refuse(q, g)
      PROVE  Seen(f, s, w, t)
  <2>1. /\ Packs' = [Streams!Quiet EXCEPT ![q] = <<Streams!Cancel(g)>>]
        /\ Stream' = [Stream EXCEPT ![<<q, g>>] = Streams!Closed]
    BY <1>5 DEF Streams!Refuse, Streams!Send, Stream, Packs
  <2>2. CASE q = p /\ g = f
    BY <2>1, <2>2, <1>3 DEF Seen, Streams!Cancel, Streams!Closed, NoStream
  <2>3. CASE q = p /\ g # f
    <3>1. w = <<Streams!Cancel(g)>> /\ t = s
      BY <2>1, <2>3, <1>3
    <3> QED BY <3>1, <2>3 DEF Seen, Streams!Cancel
  <2>4. CASE q # p
    BY <2>1, <2>4, <1>3 DEF Seen
  <2> QED BY <2>2, <2>3, <2>4
<1>6. ASSUME NEW q \in Players, NEW g \in Files,
             NEW k \in 1..(Stream[<<q, g>>].total - Stream[<<q, g>>].next),
             Streams!Continue(q, g, k)
      PROVE  Seen(f, s, w, t)
  <2> DEFINE r == Stream[<<q, g>>]
             chunks == NextChunks(g, r, k)
  <2>1. /\ r.next \in Nat /\ r.total \in Nat
        /\ r = [next |-> r.next, total |-> r.total]
    BY StreamType
  <2>2. k \in Nat \ {0} /\ r.next + k <= r.total
    BY <2>1
  <2>3. /\ DOMAIN chunks = 1..k
        /\ chunks \in Seq({chunks[i] : i \in 1..k}) /\ Len(chunks) = k
        /\ \A i \in 1..k : chunks[i].file = g
    <3>1. chunks = [i \in 1..k |-> chunks[i]]
      BY DEF NextChunks
    <3>2. \A i \in 1..k : chunks[i].file = g
      BY DEF NextChunks
    <3> HIDE DEF chunks
    <3> QED BY <3>1, <3>2, <2>2, TableSeq
  <2>4. CASE r.next + k < r.total
    <3>1. /\ Packs' = [Streams!Quiet EXCEPT ![q] = chunks]
          /\ Stream' = [Stream EXCEPT ![<<q, g>>].next = r.next + k]
      BY <1>6, <2>4 DEF Streams!Continue, Streams!Send, Stream, Packs, NextChunks,
           Streams!Chunk
    <3> DEFINE u == [next |-> r.next + k, total |-> r.total]
    <3>2. [r EXCEPT !.next = r.next + k] = u
      <4> HIDE DEF r
      <4> QED BY <2>1
    <3>3. Stream' = [Stream EXCEPT ![<<q, g>>] = u]
      BY <3>1, <3>2, <1>1
    <3>4. /\ q # p => w = <<>> /\ t = s
          /\ q = p => w = chunks /\ t = IF g = f THEN u ELSE s
      <4> HIDE DEF u, w, t, s, chunks, r
      <4> QED BY <3>1, <3>3, <1>3, Zenon
    <3> HIDE DEF chunks
    <3>5. CASE q = p /\ g = f
      BY <3>4, <3>5, <2>2, <2>4 DEF Seen, chunks
    <3> QED BY <3>4, <3>5, <2>3 DEF Seen
  <2>5. CASE ~(r.next + k < r.total)
    <3> DEFINE msgs == Append(chunks, Streams!End(g))
    <3>1. /\ Packs' = [Streams!Quiet EXCEPT ![q] = msgs]
          /\ Stream' = [Stream EXCEPT ![<<q, g>>] = Streams!Closed]
      BY <1>6, <2>5 DEF Streams!Continue, Streams!Send, Stream, Packs, NextChunks,
           Streams!Chunk
    <3> HIDE DEF chunks
    <3>2. /\ DOMAIN msgs = 1..(k + 1) /\ \A i \in 1..(k + 1) : msgs[i].file = g
      BY <2>2, <2>3 DEF Streams!End
    <3> HIDE DEF msgs
    <3>3. /\ q # p => w = <<>> /\ t = s
          /\ q = p => w = msgs /\ t = IF g = f THEN Streams!Closed ELSE s
      <4> HIDE DEF w, t, s
      <4> QED BY <3>1, <1>3, Zenon
    <3>4. CASE q = p /\ g = f
      <4>1. s.next + k = s.total
        BY <2>1, <2>2, <2>5, <3>4
      <4> QED BY <4>1, <3>3, <3>4, <2>2 DEF Seen, chunks, msgs, Streams!End,
              Streams!Closed, NoStream
    <3> QED BY <3>3, <3>4, <3>2 DEF Seen
  <2> QED BY <2>4, <2>5
<1>7. Streams!Next
  BY StreamsNext
<1> HIDE DEF s, t, w
<1>8. \/ Streams!Abandon
      \/ \E q \in Players, g \in Files :
            \/ Streams!Start(q, g) \/ Streams!Refuse(q, g)
            \/ \E k \in 1..(Stream[<<q, g>>].total - Stream[<<q, g>>].next) :
                  Streams!Continue(q, g, k)
  BY <1>7 DEF Streams!Next, Stream
<1> QED BY <1>2, <1>4, <1>5, <1>6, <1>8 DEF s, t, w

\* At the start there are no streams.
LEMMA NoStreams ==
  ASSUME Init, NEW p \in Players, NEW f \in Files
  PROVE  Stream[<<p, f>>] = NoStream
BY StreamsInit DEF Streams!Init, Streams!Closed, NoStream, Stream

\* A BEGIN has the number of chunks of the version it announces.
Announces(m) == m.type = "begin" => m.total = ChunkCount(m.content)

LEMMA BeginsAnnounce ==
  ASSUME IndInv, IndInv', Next, NEW p \in Players, NEW i \in DOMAIN out'[p]
  PROVE  Announces(out'[p][i])
<1>1. ASSUME NEW q \in Players, NEW msgs, Send(q, msgs),
             \A j \in DOMAIN msgs : Announces(msgs[j])
      PROVE  Announces(out'[p][i])
  BY <1>1 DEF Send, Quiet
<1>2. CASE Fewer
  BY <1>2 DEF Fewer, Quiet
<1>3. ASSUME NEW q \in Players, NEW f \in Files, Started(q, f)
      PROVE  Announces(out'[p][i])
  <2>1. PICK c \in Contents : Send(q, <<BeginMsg(f, c)>>)
    BY <1>3 DEF Started
  <2>2. Announces(BeginMsg(f, c))
    BY DEF Announces, BeginMsg
  <2> QED BY <2>1, <2>2, <1>1
<1>4. ASSUME NEW q \in Players, NEW f \in Files, Refused(q, f)
      PROVE  Announces(out'[p][i])
  BY <1>4, <1>1 DEF Refused, CancelMsg, Announces
<1>5. ASSUME NEW n \in DOMAIN Queue, NEW k \in Nat \ {0}, Pumped(n, k)
      PROVE  Announces(out'[p][i])
  <2>1. Queue[n] \in Transfer
    BY DEF IndInv, QueueOK
  <2>2. PICK c \in Contents : Send(Queue[n].player, Packets(Queue[n], k, c))
    BY <1>5 DEF Pumped
  <2>3. Queue[n].player \in Players
    BY <2>1 DEF Transfer
  <2>4. \A j \in DOMAIN Packets(Queue[n], k, c) :
           Announces(Packets(Queue[n], k, c)[j])
    <3> DEFINE t == Queue[n]
               msgs == [j \in 1..k |-> ChunkMsg(t.file, c, t.next + j - 1)]
    <3>1. \A j \in 1..k : Announces(msgs[j])
      BY DEF Announces, ChunkMsg
    <3>2. Announces(EndMsg(t.file))
      BY DEF Announces, EndMsg
    <3>3. msgs \in Seq({msgs[j] : j \in 1..k}) /\ DOMAIN msgs = 1..k
          /\ Len(msgs) = k
      <4>1. msgs = [j \in 1..k |-> msgs[j]]
        OBVIOUS
      <4> HIDE DEF msgs
      <4> QED BY <4>1, TableSeq
    <3>4. Packets(t, k, c) \in {msgs, Append(msgs, EndMsg(t.file))}
      BY DEF Packets
    <3> HIDE DEF msgs, t
    <3>5. \A j \in DOMAIN Append(msgs, EndMsg(t.file)) :
             Announces(Append(msgs, EndMsg(t.file))[j])
      BY <3>1, <3>2, <3>3
    <3> QED BY <3>1, <3>3, <3>4, <3>5 DEF t
  <2> QED BY <2>2, <2>3, <2>4, <1>1
<1> QED BY <1>2, <1>3, <1>4, <1>5, StepKinds
=============================================================================
