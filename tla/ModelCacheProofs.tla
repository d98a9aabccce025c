--------------------------- MODULE ModelCacheProofs ---------------------------
(***************************************************************************)
(* Proofs about the client's cache of assets.  What is proved is what the  *)
(* runs check: the address of the server outlives the process's end and    *)
(* cache.json can be written (Forgetful and SavesFail are FALSE).          *)
(***************************************************************************)
EXTENDS ModelCache, TLAPS, FiniteSetTheorems, SequenceTheorems

-----------------------------------------------------------------------------
(* What an operation may leave to do on disk.                               *)

PathsOf(k) == {p \in Paths : p[1] = k}

StepType ==
    [op : {"remove", "begin"}, path : Paths, as : {None}]
    \cup [op : {"finish"}, path : Paths, as : Hashes]
    \cup [op : {"tear"}, path : {None}, as : {None}]
    \cup [op : {"save"}, path : {None}, as : Manifests]

IsWrite(step) == step.op \in {"begin", "finish"}

\* In w there is a step of that kind on that file.
Has(w, op, p) == \E i \in DOMAIN w : w[i].op = op /\ w[i].path = p
Saves(w) == \E i \in DOMAIN w : w[i].op = "save"

\* A plan ends what it begins: a torn manifest is written again, a file that is
\* begun is finished, or removed if the records a do not have it; whatever is
\* written is one file, and it is written before the manifest names it.
Plan(w, a) ==
    /\ w \in Seq(StepType)
    /\ \A i \in DOMAIN w : w[i].op = "tear" =>
          \E j \in DOMAIN w : i < j /\ w[j].op = "save"
    /\ \A i \in DOMAIN w : w[i].op = "begin" =>
          \E j \in DOMAIN w :
             /\ i < j /\ w[j].path = w[i].path
             /\ \/ w[j].op = "finish"
                \/ w[j].op = "remove" /\ a[w[i].path[1]] = None
    /\ \A i \in DOMAIN w : w[i].op = "save" =>
          /\ w[i].as = a
          /\ \A j \in DOMAIN w : i < j => ~IsWrite(w[j])
    /\ \A i \in DOMAIN w : w[i].op = "finish" =>
          /\ a[w[i].path[1]] = Record(w[i].as, w[i].path)
          /\ w[i].path = PathOf(w[i].path[1], w[i].as)
    /\ \A i, j \in DOMAIN w :
          IsWrite(w[i]) /\ IsWrite(w[j]) => w[i].path = w[j].path

LEMMA PlanTail ==
  ASSUME NEW w, NEW a, Plan(w, a), w # <<>>
  PROVE  /\ Plan(Tail(w), a)
         /\ Head(w) \in StepType
         /\ \A op, p : Has(Tail(w), op, p) => Has(w, op, p)
         /\ \A op, p : Has(w, op, p) =>
               Has(Tail(w), op, p) \/ (Head(w).op = op /\ Head(w).path = p)
         /\ Saves(w) => Saves(Tail(w)) \/ Head(w).op = "save"
<1> DEFINE t == Tail(w)
<1>1. /\ w \in Seq(StepType) /\ Len(w) \in Nat \ {0} /\ DOMAIN w = 1..Len(w)
      /\ t \in Seq(StepType) /\ DOMAIN t = 1..(Len(w) - 1)
      /\ \A i \in 1..(Len(w) - 1) : t[i] = w[i + 1]
      /\ Head(w) = w[1]
  BY DEF Plan
<1> HIDE DEF t
<1>2. ASSUME NEW i \in DOMAIN t
      PROVE  i + 1 \in DOMAIN w /\ t[i] = w[i + 1] /\ i \in Nat
  BY <1>1
<1>3. ASSUME NEW i \in DOMAIN w
      PROVE  i = 1 \/ (i - 1 \in DOMAIN t /\ t[i - 1] = w[i])
  <2>1. CASE i # 1
    <3>1. i - 1 \in 1..(Len(w) - 1) /\ (i - 1) + 1 = i
      BY <1>1, <2>1
    <3> QED BY <3>1, <1>1
  <2> QED BY <2>1
<1>4. ASSUME NEW i \in DOMAIN t, NEW j \in DOMAIN w, i + 1 < j
      PROVE  j - 1 \in DOMAIN t /\ t[j - 1] = w[j] /\ i < j - 1
  <2>1. j \in Nat /\ i \in Nat /\ j # 1
    BY <1>1, <1>2, <1>4
  <2> QED BY <2>1, <1>3, <1>4
<1>5. ASSUME NEW i \in DOMAIN t, t[i].op = "tear"
      PROVE  \E j \in DOMAIN t : i < j /\ t[j].op = "save"
  <2>1. PICK j \in DOMAIN w : i + 1 < j /\ w[j].op = "save"
    BY <1>2, <1>5 DEF Plan
  <2> QED BY <2>1, <1>4
<1>6. ASSUME NEW i \in DOMAIN t, t[i].op = "begin"
      PROVE  \E j \in DOMAIN t :
                /\ i < j /\ t[j].path = t[i].path
                /\ \/ t[j].op = "finish"
                   \/ t[j].op = "remove" /\ a[t[i].path[1]] = None
  <2>1. PICK j \in DOMAIN w :
          /\ i + 1 < j /\ w[j].path = w[i + 1].path
          /\ \/ w[j].op = "finish"
             \/ w[j].op = "remove" /\ a[w[i + 1].path[1]] = None
    BY <1>2, <1>6 DEF Plan
  <2> QED BY <2>1, <1>2, <1>4
<1>7. ASSUME NEW i \in DOMAIN t, t[i].op = "save"
      PROVE  /\ t[i].as = a
             /\ \A j \in DOMAIN t : i < j => ~IsWrite(t[j])
  <2>1. \A j \in DOMAIN w : i + 1 < j => ~IsWrite(w[j])
    BY <1>2, <1>7 DEF Plan
  <2>2. \A j \in DOMAIN t : i < j => i + 1 < j + 1
    BY <1>2
  <2> QED BY <2>1, <2>2, <1>2, <1>7 DEF Plan
<1>8. \A i \in DOMAIN t : t[i].op = "finish" =>
         /\ a[t[i].path[1]] = Record(t[i].as, t[i].path)
         /\ t[i].path = PathOf(t[i].path[1], t[i].as)
  BY <1>2 DEF Plan
<1>9. \A i, j \in DOMAIN t :
         IsWrite(t[i]) /\ IsWrite(t[j]) => t[i].path = t[j].path
  BY <1>2 DEF Plan
<1>10. Plan(t, a)
  BY <1>1, <1>5, <1>6, <1>7, <1>8, <1>9 DEF Plan
<1>11. Head(w) \in StepType
  BY <1>1
<1>12. \A op, p : Has(t, op, p) => Has(w, op, p)
  BY <1>2 DEF Has
<1>13. \A op, p : Has(w, op, p) =>
          Has(t, op, p) \/ (Head(w).op = op /\ Head(w).path = p)
  BY <1>1, <1>3 DEF Has
<1>14. Saves(w) => Saves(t) \/ Head(w).op = "save"
  BY <1>1, <1>3 DEF Saves
<1> QED BY <1>10, <1>11, <1>12, <1>13, <1>14 DEF t

\* Two plans one after the other, of which the second writes no file.
LEMMA PlanConcat ==
  ASSUME NEW v, NEW w, NEW a, Plan(v, a), Plan(w, a),
         \A i \in DOMAIN w : ~IsWrite(w[i])
  PROVE  /\ Plan(v \o w, a)
         /\ \A op, p : Has(v \o w, op, p) <=> Has(v, op, p) \/ Has(w, op, p)
         /\ Saves(v \o w) <=> Saves(v) \/ Saves(w)
<1> DEFINE c == v \o w
           n == Len(v)
<1>1. /\ v \in Seq(StepType) /\ w \in Seq(StepType)
      /\ n \in Nat /\ Len(w) \in Nat
      /\ DOMAIN v = 1..n /\ DOMAIN w = 1..Len(w)
  BY DEF Plan
<1>2. /\ c \in Seq(StepType) /\ Len(c) = n + Len(w)
      /\ \A i \in 1..(n + Len(w)) : c[i] = IF i <= n THEN v[i] ELSE w[i - n]
  BY <1>1, ConcatProperties
<1>3. DOMAIN c = 1..(n + Len(w))
  BY <1>2
<1> HIDE DEF c
<1>4. ASSUME NEW i \in DOMAIN v
      PROVE  i \in DOMAIN c /\ c[i] = v[i]
  BY <1>1, <1>2, <1>3
<1>5. ASSUME NEW i \in DOMAIN w
      PROVE  n + i \in DOMAIN c /\ c[n + i] = w[i]
  <2>1. n + i \in 1..(n + Len(w)) /\ ~(n + i <= n) /\ (n + i) - n = i
    BY <1>1
  <2> QED BY <2>1, <1>2, <1>3
<1>6. ASSUME NEW i \in DOMAIN c
      PROVE  \/ i \in DOMAIN v /\ c[i] = v[i]
             \/ \E j \in DOMAIN w : i = n + j /\ c[i] = w[j]
  <2>1. CASE i <= n
    BY <2>1, <1>1, <1>2, <1>3
  <2>2. CASE ~(i <= n)
    <3>1. i - n \in DOMAIN w /\ i = n + (i - n) /\ c[i] = w[i - n]
      BY <2>2, <1>1, <1>2, <1>3
    <3> QED BY <3>1
  <2> QED BY <2>1, <2>2
<1> HIDE DEF n
<1>7. ASSUME NEW i \in DOMAIN v, NEW j \in DOMAIN w
      PROVE  i < n + j
  BY <1>1 DEF n
<1>8. ASSUME NEW i \in DOMAIN w, NEW j \in DOMAIN w
      PROVE  i < j <=> n + i < n + j
  BY <1>1
<1>9. \A i \in DOMAIN c : c[i].op = "tear" =>
         \E j \in DOMAIN c : i < j /\ c[j].op = "save"
  <2> TAKE i \in DOMAIN c
  <2> HAVE c[i].op = "tear"
  <2>1. CASE i \in DOMAIN v /\ c[i] = v[i]
    BY <2>1, <1>4 DEF Plan
  <2>2. CASE \E j \in DOMAIN w : i = n + j /\ c[i] = w[j]
    BY <2>2, <1>5, <1>8 DEF Plan
  <2> QED BY <2>1, <2>2, <1>6
<1>10. ASSUME NEW i \in DOMAIN c, IsWrite(c[i])
       PROVE  i \in DOMAIN v /\ c[i] = v[i]
  BY <1>6, <1>10
<1>11. \A i \in DOMAIN c : c[i].op = "begin" =>
         \E j \in DOMAIN c :
            /\ i < j /\ c[j].path = c[i].path
            /\ \/ c[j].op = "finish"
               \/ c[j].op = "remove" /\ a[c[i].path[1]] = None
  <2> TAKE i \in DOMAIN c
  <2> HAVE c[i].op = "begin"
  <2>1. i \in DOMAIN v /\ c[i] = v[i]
    BY <1>10 DEF IsWrite
  <2>2. PICK j \in DOMAIN v :
            /\ i < j /\ v[j].path = v[i].path
            /\ \/ v[j].op = "finish"
               \/ v[j].op = "remove" /\ a[v[i].path[1]] = None
    BY <2>1 DEF Plan
  <2> QED BY <2>1, <2>2, <1>4
<1>12. \A i \in DOMAIN c : c[i].op = "save" =>
          /\ c[i].as = a
          /\ \A j \in DOMAIN c : i < j => ~IsWrite(c[j])
  <2> TAKE i \in DOMAIN c
  <2> HAVE c[i].op = "save"
  <2>1. c[i].as = a
    BY <1>6 DEF Plan
  <2>2. ASSUME NEW j \in DOMAIN c, i < j, IsWrite(c[j])
        PROVE  FALSE
    <3>1. j \in DOMAIN v /\ c[j] = v[j]
      BY <1>10, <2>2
    <3>2. CASE i \in DOMAIN v /\ c[i] = v[i]
      BY <3>1, <3>2, <2>2 DEF Plan
    <3>3. CASE \E m \in DOMAIN w : i = n + m
      <4>1. j < i
        BY <3>1, <3>3, <1>7
      <4>2. i \in Nat /\ j \in Nat
        BY <1>1, <3>1, <3>3
      <4> QED BY <4>1, <4>2, <2>2
    <3> QED BY <3>2, <3>3, <1>6
  <2> QED BY <2>1, <2>2
<1>13. \A i \in DOMAIN c : c[i].op = "finish" =>
          /\ a[c[i].path[1]] = Record(c[i].as, c[i].path)
          /\ c[i].path = PathOf(c[i].path[1], c[i].as)
  BY <1>6 DEF Plan
<1>14. \A i, j \in DOMAIN c :
          IsWrite(c[i]) /\ IsWrite(c[j]) => c[i].path = c[j].path
  BY <1>10 DEF Plan
<1>15. Plan(c, a)
  BY <1>2, <1>9, <1>11, <1>12, <1>13, <1>14 DEF Plan
<1>16. \A op, p : Has(c, op, p) <=> Has(v, op, p) \/ Has(w, op, p)
  BY <1>4, <1>5, <1>6 DEF Has
<1>17. Saves(c) <=> Saves(v) \/ Saves(w)
  BY <1>4, <1>5, <1>6 DEF Saves
<1> QED BY <1>15, <1>16, <1>17 DEF c

LEMMA PlanNone ==
  ASSUME NEW a
  PROVE  /\ Plan(<<>>, a) /\ ~Saves(<<>>)
         /\ \A op, p : ~Has(<<>>, op, p)
BY DEF Plan, Has, Saves

LEMMA PlanErase ==
  ASSUME NEW a, NEW p \in Paths
  PROVE  /\ Plan(<<Erase(p)>>, a) /\ ~Saves(<<Erase(p)>>)
         /\ ~IsWrite(<<Erase(p)>>[1])
         /\ \A op, q : Has(<<Erase(p)>>, op, q) <=> op = "remove" /\ q = p
<1>1. Erase(p) \in StepType
  BY DEF Erase, StepType
<1>2. Erase(p).op = "remove" /\ Erase(p).path = p
  BY DEF Erase
<1>3. <<Erase(p)>> \in Seq(StepType)
  BY <1>1
<1> QED BY <1>2, <1>3 DEF Plan, Has, Saves, IsWrite

LEMMA PlanSave ==
  ASSUME NEW a \in Manifests
  PROVE  /\ Plan(SaveManifest(a), a) /\ Saves(SaveManifest(a))
         /\ \A i \in DOMAIN SaveManifest(a) : ~IsWrite(SaveManifest(a)[i])
         /\ \A op, p : Has(SaveManifest(a), op, p) => op \in {"tear", "save"}
<1> DEFINE w == SaveManifest(a)
<1>1. Tear \in StepType /\ Save(a) \in StepType
  BY DEF Tear, Save, StepType
<1>2. /\ w \in Seq(StepType) /\ DOMAIN w = {1, 2}
      /\ w[1].op = "tear" /\ w[2].op = "save" /\ w[2].as = a
  BY <1>1 DEF SaveManifest, Tear, Save
<1> HIDE DEF w
<1>3. ~IsWrite(w[1]) /\ ~IsWrite(w[2])
  BY <1>2 DEF IsWrite
<1>4. Plan(w, a)
  BY <1>2, <1>3 DEF Plan
<1> QED BY <1>2, <1>3, <1>4 DEF Has, Saves, w

\* A file removed, and its record with it.
LEMMA PlanEraseSave ==
  ASSUME NEW a \in Manifests, NEW p \in Paths
  PROVE  LET w == <<Erase(p)>> \o SaveManifest(a) IN
         /\ Plan(w, a) /\ Saves(w)
         /\ \A q : ~Has(w, "begin", q) /\ ~Has(w, "finish", q)
         /\ \A q : Has(w, "remove", q) <=> q = p
<1> DEFINE e == <<Erase(p)>>
           m == SaveManifest(a)
<1>1. /\ Plan(e, a)
      /\ \A op, q : Has(e, op, q) <=> op = "remove" /\ q = p
  BY PlanErase
<1>2. /\ Plan(m, a) /\ Saves(m)
      /\ \A i \in DOMAIN m : ~IsWrite(m[i])
      /\ \A op, q : Has(m, op, q) => op \in {"tear", "save"}
  BY PlanSave
<1> HIDE DEF e, m
<1>3. /\ Plan(e \o m, a)
      /\ \A op, q : Has(e \o m, op, q) <=> Has(e, op, q) \/ Has(m, op, q)
      /\ Saves(e \o m)
  BY <1>1, <1>2, PlanConcat
<1>4. /\ \A q : ~Has(e \o m, "begin", q) /\ ~Has(e \o m, "finish", q)
      /\ \A q : Has(e \o m, "remove", q) <=> q = p
  BY <1>1, <1>2, <1>3
<1> QED BY <1>3, <1>4 DEF e, m

\* Store, and a write that fails.
LEMMA PlanWrite ==
  ASSUME NEW a, NEW k \in Keys, NEW h \in Hashes, PathOf(k, h) \in Paths,
         NEW last, \/ last = Finish(PathOf(k, h), h) /\ a[k] = Record(h, PathOf(k, h))
                   \/ last = Erase(PathOf(k, h)) /\ a[k] = None
  PROVE  LET w == <<Begin(PathOf(k, h)), last>> IN
         /\ Plan(w, a) /\ ~Saves(w)
         /\ \A op, q : Has(w, op, q) <=>
               q = PathOf(k, h) /\ op \in {"begin", last.op}
<1> DEFINE p == PathOf(k, h)
           w == <<Begin(p), last>>
<1>1. p[1] = k
  BY DEF PathOf
<1>2. Begin(p) \in StepType /\ last \in StepType /\ last.path = p
  BY DEF Begin, Finish, Erase, StepType
<1>3. /\ w \in Seq(StepType) /\ DOMAIN w = {1, 2}
      /\ w[1].op = "begin" /\ w[1].path = p /\ w[2] = last
  BY <1>2 DEF Begin
<1>4. \/ last.op = "finish" /\ last.as = h /\ a[k] = Record(h, p)
      \/ last.op = "remove" /\ a[k] = None
  BY DEF Finish, Erase
<1> HIDE DEF p, w
<1>5. Plan(w, a)
  BY <1>1, <1>2, <1>3, <1>4 DEF Plan, IsWrite, p
<1>6. ~Saves(w)
  BY <1>3, <1>4 DEF Saves
<1>7. \A op, q : Has(w, op, q) <=> q = p /\ op \in {"begin", last.op}
  BY <1>2, <1>3 DEF Has
<1> QED BY <1>5, <1>6, <1>7 DEF p, w

\* The sequence of a finite set has its members.
LEMMA SetToSeqMembers ==
  ASSUME NEW R, IsFiniteSet(R)
  PROVE  /\ Cardinality(R) \in Nat
         /\ SetToSeq(R) \in [1..Cardinality(R) -> R]
<1>1. Cardinality(R) \in Nat /\ ExistsBijection(1..Cardinality(R), R)
  BY FS_CardinalityType
<1>2. \E f \in [1..Cardinality(R) -> R] : IsInjective(f)
  BY <1>1 DEF ExistsBijection, Bijection, Injection, Surjection
<1> QED BY <1>1, <1>2 DEF SetToSeq

LEMMA PlanSweep ==
  ASSUME NEW a, NEW R, R \subseteq Paths, IsFiniteSet(R)
  PROVE  LET w == [i \in 1 .. Cardinality(R) |-> Erase(SetToSeq(R)[i])] IN
         /\ Plan(w, a)
         /\ \A op, q : Has(w, op, q) => op = "remove" /\ q \in R
<1> DEFINE w == [i \in 1 .. Cardinality(R) |-> Erase(SetToSeq(R)[i])]
<1>1. /\ Cardinality(R) \in Nat
      /\ \A i \in 1..Cardinality(R) : SetToSeq(R)[i] \in R
  BY SetToSeqMembers
<1>2. \A i \in 1..Cardinality(R) :
         /\ w[i] \in StepType /\ w[i].op = "remove" /\ w[i].path \in R
  BY <1>1 DEF Erase, StepType
<1>3. w \in Seq(StepType) /\ DOMAIN w = 1..Cardinality(R)
  <2>1. w \in [1..Cardinality(R) -> StepType]
    BY <1>2
  <2> HIDE DEF w
  <2> QED BY <2>1, <1>1
<1> HIDE DEF w
<1> QED BY <1>2, <1>3 DEF Plan, Has, IsWrite, w

-----------------------------------------------------------------------------
(* The inductive invariant.  The safety invariants speak of a client that   *)
(* is idle; what makes them true is what holds between any two steps on     *)
(* disk, where the process may end.                                         *)

Reliable == Forgetful = FALSE /\ SavesFail = FALSE

Types ==
    /\ running \in BOOLEAN /\ connection \in {"none", "on", "off"}
    /\ server \in Servers /\ loadedFor \in Servers \cup {None}
    /\ assets \in Manifests /\ manifest \in [Servers -> Manifests]
    /\ disk \in [Servers -> [Paths -> Contents]]
    /\ wanted \in [Keys -> Hashes \cup {None}]
    /\ kept \in [Servers -> [Keys -> Hashes \cup {None}]]
    /\ dropped \in [Servers -> SUBSET Keys]

\* A process that does not run has nothing left to do; one that runs has the
\* records of the current server.
RunInv ==
    /\ ~running => work = <<>> /\ connection = "none"
    /\ running => loadedFor = server
    /\ connection = "none" => \A k \in Keys : wanted[k] = None

\* cache.json is what is in memory, or will be.
SavedInv == running => manifest[server] = assets \/ Saves(work)

\* The file that is being written has no record in cache.json and no twin.
WriteInv ==
    \A p \in Paths : Has(work, "begin", p) \/ Has(work, "finish", p) =>
        /\ manifest[server][p[1]] = None
        /\ p[2] = "wav" => p[1] \in Sounds
        /\ \A q \in PathsOf(p[1]) : q # p => disk[server][q] = None

\* The file of a record has the recorded hash, unless it is gone, and no twin;
\* a sound has one file.
Matches(k, r, files) ==
    /\ files[r.path] \in {None, r.hash}
    /\ \A q \in PathsOf(k) : q # r.path => files[q] = None
DiskInv ==
    \A s \in Servers :
      /\ \A k \in Keys : manifest[s][k] # None => Matches(k, manifest[s][k], disk[s])
      /\ \A k \in Keys : None \in {disk[s][<<k, "ogg">>], disk[s][<<k, "wav">>]}
      /\ \A k \in Keys \ Sounds : disk[s][<<k, "wav">>] = None

\* So it is in memory, but for the file that is being written.
MemoryInv ==
    running => \A k \in Keys : assets[k] # None =>
        /\ \/ disk[server][assets[k].path] \in {None, assets[k].hash}
           \/ Has(work, "finish", assets[k].path)
        /\ \A q \in PathsOf(k) : q # assets[k].path => disk[server][q] = None

\* A file in transfer is nowhere else.
WantedInv ==
    \A k \in Keys : wanted[k] # None =>
        /\ assets[k] = None /\ kept[server][k] = None
        /\ \A p \in PathsOf(k) :
              /\ ~Has(work, "finish", p)
              /\ disk[server][p] = None \/ Has(work, "remove", p)

DroppedInv ==
    \A s \in Servers : \A k \in dropped[s] : \A p \in PathsOf(k) :
        /\ disk[s][p] = None \/ (s = server /\ Has(work, "remove", p))
        /\ s = server => ~Has(work, "finish", p)

KeptInv ==
    \A s \in Servers, k \in Keys : kept[s][k] # None =>
        LET p == PathOf(k, kept[s][k])
            r == Record(kept[s][k], p)
        IN /\ disk[s][p] = kept[s][k] \/ (s = server /\ Has(work, "finish", p))
           /\ manifest[s][k] \in {None, r}
           /\ s = server =>
                 /\ running => assets[k] \in {None, r}
                 /\ \A q \in PathsOf(k) : ~Has(work, "remove", q)

CacheInv ==
    /\ Types /\ Plan(work, assets)
    /\ RunInv /\ SavedInv /\ WriteInv /\ DiskInv /\ MemoryInv
    /\ WantedInv /\ DroppedInv /\ KeptInv

-----------------------------------------------------------------------------
(* Between two operations.                                                  *)

LEMMA PathFacts ==
  ASSUME NEW k \in Keys
  PROVE  /\ PathsOf(k) = {<<k, "ogg">>, <<k, "wav">>}
         /\ PathsOf(k) \subseteq Paths
         /\ \A h : PathOf(k, h) \in PathsOf(k)
         /\ \A h : PathOf(k, h) = <<k, "wav">> => k \in Sounds
         /\ CheckPath(k) \in PathsOf(k)
         /\ \A p \in Paths : p[1] \in Keys /\ p \in PathsOf(p[1])
         /\ <<k, "ogg">> # <<k, "wav">>
BY DEF PathsOf, Paths, PathOf, CheckPath

LEMMA RecordFacts ==
  ASSUME NEW a \in Manifests, NEW k \in Keys, a[k] # None
  PROVE  /\ a[k].hash \in Hashes /\ a[k].path \in PathsOf(k)
         /\ a[k] = Record(a[k].hash, a[k].path)
BY DEF Manifests, PathsOf, Record

LEMMA ManifestFacts ==
  /\ NoRecords \in Manifests
  /\ \A a \in Manifests, k \in Keys : [a EXCEPT ![k] = None] \in Manifests
  /\ \A a \in Manifests, k \in Keys, h \in Hashes, p \in Paths :
        p \in PathsOf(k) => [a EXCEPT ![k] = Record(h, p)] \in Manifests
  /\ \A h, p : Record(h, p).hash = h /\ Record(h, p).path = p
  /\ \A h \in Hashes, p \in Paths : Record(h, p) # None
BY RecordAssumption DEF Manifests, NoRecords, Record, PathsOf

LEMMA IdleFacts ==
  ASSUME CacheInv, running, work = <<>>
  PROVE  /\ Records = assets /\ manifest[server] = assets
         /\ \A op, p : ~Has(work, op, p)
         /\ \A k \in Keys : assets[k] # None => Matches(k, assets[k], disk[server])
         /\ \A k \in Keys : wanted[k] # None =>
               /\ assets[k] = None /\ kept[server][k] = None
               /\ \A p \in PathsOf(k) : disk[server][p] = None
         /\ \A k \in dropped[server] : \A p \in PathsOf(k) : disk[server][p] = None
         /\ \A k \in Keys : kept[server][k] # None =>
               LET p == PathOf(k, kept[server][k])
               IN /\ disk[server][p] = kept[server][k]
                  /\ assets[k] \in {None, Record(kept[server][k], p)}
<1>1. (\A op, p : ~Has(work, op, p)) /\ ~Saves(work)
  BY PlanNone
<1>2. Records = assets /\ manifest[server] = assets
  BY <1>1 DEF CacheInv, RunInv, SavedInv, Records
<1>3. server \in Servers
  BY DEF CacheInv, Types
<1>4. \A k \in Keys : assets[k] # None => Matches(k, assets[k], disk[server])
  BY <1>1 DEF CacheInv, MemoryInv, Matches
<1>5. \A k \in Keys : wanted[k] # None =>
         /\ assets[k] = None /\ kept[server][k] = None
         /\ \A p \in PathsOf(k) : disk[server][p] = None
  BY <1>1 DEF CacheInv, WantedInv
<1>6. \A k \in dropped[server] : \A p \in PathsOf(k) : disk[server][p] = None
  BY <1>1, <1>3 DEF CacheInv, DroppedInv
<1>7. \A k \in Keys : kept[server][k] # None =>
         LET p == PathOf(k, kept[server][k])
         IN /\ disk[server][p] = kept[server][k]
            /\ assets[k] \in {None, Record(kept[server][k], p)}
  BY <1>1, <1>3 DEF CacheInv, KeptInv
<1> QED BY <1>1, <1>2, <1>4, <1>5, <1>6, <1>7

\* The three outcomes of TryGet exclude each other.
LEMMA Outcomes ==
  ASSUME NEW a, NEW k, NEW h
  PROVE  /\ Recorded(a, k, h) =>
               /\ ~Found(a, k, h) /\ Hit(a, k, h) = a[k].path
               /\ AfterTryGet(a, k, h) = a /\ StepsOfTryGet(a, k, h) = <<>>
         /\ Found(a, k, h) =>
               /\ ~Recorded(a, k, h) /\ Hit(a, k, h) = CheckPath(k)
               /\ AfterTryGet(a, k, h) = [a EXCEPT ![k] = Record(h, CheckPath(k))]
               /\ StepsOfTryGet(a, k, h) = SaveManifest(AfterTryGet(a, k, h))
         /\ ~Recorded(a, k, h) /\ ~Found(a, k, h) =>
               /\ Hit(a, k, h) = None
               /\ AfterTryGet(a, k, h) = [a EXCEPT ![k] = None]
               /\ StepsOfTryGet(a, k, h) =
                     IF a[k] # None
                     THEN <<Erase(a[k].path)>> \o SaveManifest(AfterTryGet(a, k, h))
                     ELSE <<Erase(CheckPath(k))>>
<1>1. ~(Recorded(a, k, h) /\ Found(a, k, h))
  BY DEF Recorded, Found
<1>2. CASE Recorded(a, k, h)
  BY <1>1, <1>2 DEF Hit, AfterTryGet, StepsOfTryGet
<1>3. CASE Found(a, k, h)
  BY <1>1, <1>3 DEF Hit, AfterTryGet, StepsOfTryGet
<1>4. CASE ~Recorded(a, k, h) /\ ~Found(a, k, h)
  BY <1>4 DEF Hit, AfterTryGet, StepsOfTryGet
<1> QED BY <1>1, <1>2, <1>3, <1>4

\* What a hit gives has the hash, whatever the files are otherwise.
LEMMA HitIsTrue ==
  ASSUME CacheInv, running, work = <<>>, NEW k \in Keys, NEW h \in Hashes,
         Hit(assets, k, h) # None
  PROVE  Files[Hit(assets, k, h)] = h
<1>1. CASE Recorded(assets, k, h)
  <2>1. Hit(assets, k, h) = assets[k].path
    BY <1>1, Outcomes
  <2>2. assets[k] # None /\ assets[k].hash = h
        /\ Files[assets[k].path] \notin {None, Empty}
    BY <1>1 DEF Recorded, There
  <2>3. Files[assets[k].path] \in {None, assets[k].hash}
    BY <2>2, IdleFacts DEF Matches, Files
  <2> QED BY <2>1, <2>2, <2>3
<1>2. CASE Found(assets, k, h)
  <2>1. Hit(assets, k, h) = CheckPath(k)
    BY <1>2, Outcomes
  <2>2. Files[CheckPath(k)] = h
    BY <1>2 DEF Found
  <2> QED BY <2>1, <2>2
<1>3. Recorded(assets, k, h) \/ Found(assets, k, h)
  BY Outcomes
<1> QED BY <1>1, <1>2, <1>3

\* The files of a key: none, or one that TryGet looks at.
LEMMA OneFile ==
  ASSUME CacheInv, NEW k \in Keys, NEW p \in PathsOf(k), Files[p] # None
  PROVE  CheckPath(k) = p /\ \A q \in PathsOf(k) : q # p => Files[q] = None
<1>1. /\ None \in {Files[<<k, "ogg">>], Files[<<k, "wav">>]}
      /\ k \notin Sounds => Files[<<k, "wav">>] = None
  BY DEF CacheInv, Types, DiskInv, Files
<1>2. p \in {<<k, "ogg">>, <<k, "wav">>}
      /\ PathsOf(k) = {<<k, "ogg">>, <<k, "wav">>}
  BY PathFacts
<1> QED BY <1>1, <1>2 DEF CheckPath

\* An operation that writes no file.
LEMMA QuietOperation ==
  ASSUME CacheInv, running, work = <<>>, Types',
         UNCHANGED <<running, connection, server, storage>>,
         loadedFor' = server, Plan(work', assets'),
         assets' = assets \/ Saves(work'),
         \A p : ~Has(work', "begin", p) /\ ~Has(work', "finish", p),
         \A k \in Keys : assets'[k] # None => Matches(k, assets'[k], disk[server]),
         connection = "on" \/ wanted' = wanted,
         WantedInv', DroppedInv', KeptInv'
  PROVE  CacheInv'
<1>1. disk' = disk /\ manifest' = manifest /\ server' = server /\ running'
  BY DEF storage
<1>2. RunInv'
  BY <1>1 DEF CacheInv, RunInv
<1>3. SavedInv'
  BY <1>1, IdleFacts DEF SavedInv
<1>4. WriteInv' /\ DiskInv'
  BY <1>1 DEF CacheInv, WriteInv, DiskInv
<1>5. MemoryInv'
  BY <1>1 DEF MemoryInv, Matches
<1> QED BY <1>2, <1>3, <1>4, <1>5 DEF CacheInv

LEMMA TryGetInv ==
  ASSUME CacheInv, NEW k \in Keys, NEW h \in Hashes, TryGet(k, h)
  PROVE  CacheInv'
<1> DEFINE a == assets
           cp == CheckPath(k)
<1>1. /\ running /\ work = <<>> /\ connection = "on" /\ Records = a
      /\ UNCHANGED <<running, connection, server, storage, dropped>>
      /\ loadedFor' = server
      /\ assets' = AfterTryGet(a, k, h) /\ work' = StepsOfTryGet(a, k, h)
  BY IdleFacts DEF TryGet, Operate
<1>2. Types
  BY DEF CacheInv
<1>3. a \in Manifests /\ server \in Servers /\ k \in Keys
  BY <1>2 DEF Types
<1>4. cp \in PathsOf(k) /\ PathsOf(k) \subseteq Paths
  BY PathFacts
<1>5. disk' = disk /\ manifest' = manifest
  BY <1>1 DEF storage
<1>6. CASE Recorded(a, k, h)
  <2>1. assets' = assets /\ work' = <<>>
    BY <1>1, <1>6, Outcomes
  <2>2. Hit(a, k, h) # None
    <3>1. a[k].path \in PathsOf(k) /\ a[k].path \in Paths
      BY <1>3, <1>4, <1>6, RecordFacts DEF Recorded
    <3> QED BY <3>1, <1>6, Outcomes, RecordAssumption
  <2>3. wanted' = wanted /\ kept' = kept
    BY <2>2, <1>1 DEF TryGet
  <2>4. Types'
    BY <1>1, <1>2, <2>1, <2>3, <1>5 DEF Types
  <2> QED
    BY <1>1, <1>5, <2>1, <2>3, <2>4 DEF CacheInv, RunInv, SavedInv, WriteInv,
       DiskInv, MemoryInv, WantedInv, DroppedInv, KeptInv
<1>7. CASE Found(a, k, h)
  <2> DEFINE r == Record(h, cp)
             b == [a EXCEPT ![k] = r]
  <2>1. assets' = b /\ work' = SaveManifest(b) /\ Hit(a, k, h) = cp
    BY <1>1, <1>7, Outcomes
  <2>2. wanted' = wanted /\ kept' = kept
    <3>1. cp # None
      BY <1>4, RecordAssumption
    <3> QED BY <3>1, <2>1, <1>1 DEF TryGet
  <2>3. a[k] = None /\ Files[cp] = h /\ h # None
    BY <1>7, CacheAssumption DEF Found
  <2>4. r.path = cp /\ r.hash = h /\ cp \in Paths
    BY <1>4, ManifestFacts
  <2> HIDE DEF cp, r
  <2>5. b \in Manifests
    BY <1>3, <1>4, <2>4, ManifestFacts DEF r
  <2>6. b[k] = r /\ \A j \in Keys \ {k} : b[j] = a[j]
    BY <1>3 DEF Manifests
  <2> HIDE DEF b
  <2>7. /\ Plan(work', assets') /\ Saves(work')
        /\ \A p : ~Has(work', "begin", p) /\ ~Has(work', "finish", p)
                 /\ ~Has(work', "remove", p)
    BY <2>1, <2>5, PlanSave
  <2>8. Types'
    BY <1>1, <1>2, <1>5, <2>1, <2>2, <2>5 DEF Types
  <2>9. \A q \in PathsOf(k) : q # cp => Files[q] = None
    BY <1>4, <2>3, OneFile
  <2>10. ASSUME NEW j \in Keys, assets'[j] # None
         PROVE  Matches(j, assets'[j], disk[server])
    <3>1. CASE j = k
      BY <3>1, <2>1, <2>3, <2>4, <2>6, <2>9 DEF Matches, Files
    <3>2. CASE j # k
      BY <3>2, <2>1, <2>6, <2>10, <1>1, IdleFacts
    <3> QED BY <3>1, <3>2
  <2>11. WantedInv'
    <3> SUFFICES ASSUME NEW j \in Keys, wanted[j] # None
                 PROVE  /\ assets'[j] = None /\ kept[server][j] = None
                        /\ \A p \in PathsOf(j) : disk[server][p] = None
      BY <1>1, <1>5, <2>2, <2>7 DEF WantedInv
    <3>1. /\ a[j] = None /\ kept[server][j] = None
          /\ \A p \in PathsOf(j) : disk[server][p] = None
      BY <1>1, IdleFacts
    <3>2. j # k
      BY <3>1, <2>3, <1>4 DEF Files
    <3> QED BY <3>1, <3>2, <2>1, <2>6
  <2>12. DroppedInv'
    BY <1>1, <1>5, <2>7, PlanNone DEF CacheInv, DroppedInv
  <2>13. KeptInv'
    <3> SUFFICES ASSUME NEW s \in Servers, NEW j \in Keys, kept[s][j] # None
                 PROVE  LET p == PathOf(j, kept[s][j])
                            t == Record(kept[s][j], p)
                        IN /\ disk[s][p] = kept[s][j]
                           /\ manifest[s][j] \in {None, t}
                           /\ s = server => assets'[j] \in {None, t}
      BY <1>1, <1>5, <2>2, <2>7 DEF KeptInv
    <3> DEFINE p == PathOf(j, kept[s][j])
               t == Record(kept[s][j], p)
    <3>1. disk[s][p] = kept[s][j] /\ manifest[s][j] \in {None, t}
          /\ (s = server => a[j] \in {None, t})
      BY <1>1, PlanNone DEF CacheInv, KeptInv
    <3>2. CASE s = server /\ j = k
      <4>1. p \in PathsOf(k) /\ Files[p] # None
        BY <3>1, <3>2, PathFacts DEF Files
      <4>2. p = cp
        BY <4>1, OneFile DEF cp
      <4>3. kept[s][j] = h
        BY <3>1, <3>2, <4>2, <2>3 DEF Files
      <4> QED BY <3>1, <3>2, <4>2, <4>3, <2>1, <2>6 DEF r
    <3>3. CASE ~(s = server /\ j = k)
      BY <3>1, <3>3, <2>1, <2>6
    <3> QED BY <3>2, <3>3
  <2> QED BY <1>1, <2>2, <2>7, <2>8, <2>10, <2>11, <2>12, <2>13, QuietOperation
<1>8. CASE ~Recorded(a, k, h) /\ ~Found(a, k, h)
  <2> DEFINE b == [a EXCEPT ![k] = None]
             x == IF a[k] # None THEN a[k].path ELSE cp
  <2>1. /\ assets' = b /\ Hit(a, k, h) = None
        /\ work' = IF a[k] # None THEN <<Erase(x)>> \o SaveManifest(b)
                   ELSE <<Erase(x)>>
    BY <1>1, <1>8, Outcomes
  <2>2. /\ wanted' = [wanted EXCEPT ![k] = IF @ = None THEN h ELSE @]
        /\ kept' = [kept EXCEPT ![server][k] = None]
    BY <2>1, <1>1 DEF TryGet
  <2>3. x \in PathsOf(k) /\ x \in Paths
    BY <1>3, <1>4, RecordFacts
  <2>4. b \in Manifests
    BY <1>3, ManifestFacts
  <2>5. b[k] = None /\ \A j \in Keys \ {k} : b[j] = a[j]
    BY <1>3 DEF Manifests
  <2>6. \A p \in PathsOf(k) : p # x => Files[p] = None
    <3>1. CASE a[k] # None
      BY <3>1, <1>1, IdleFacts DEF Matches, Files
    <3>2. CASE a[k] = None
      BY <3>2, OneFile
    <3> QED BY <3>1, <3>2
  <2>7. a[k] = None => b = a
    BY <1>3 DEF Manifests
  <2> HIDE DEF b, x, cp
  <2>8. /\ Plan(work', assets')
        /\ assets' = assets \/ Saves(work')
        /\ \A p : ~Has(work', "begin", p) /\ ~Has(work', "finish", p)
        /\ \A p : Has(work', "remove", p) <=> p = x
    <3>1. CASE a[k] # None
      <4>1. work' = <<Erase(x)>> \o SaveManifest(b)
        BY <3>1, <2>1
      <4> DEFINE w == <<Erase(x)>> \o SaveManifest(b)
      <4>2. /\ Plan(w, b) /\ Saves(w)
            /\ \A q : ~Has(w, "begin", q) /\ ~Has(w, "finish", q)
            /\ \A q : Has(w, "remove", q) <=> q = x
        BY <2>3, <2>4, PlanEraseSave
      <4>3. work' = w /\ assets' = b
        BY <4>1, <2>1
      <4> HIDE DEF w
      <4> QED BY <4>2, <4>3
    <3>2. CASE a[k] = None
      <4>1. work' = <<Erase(x)>> /\ assets' = assets
        BY <3>2, <2>1, <2>7
      <4> QED BY <4>1, <2>3, PlanErase
    <3> QED BY <3>1, <3>2
  <2>9. /\ kept'[server][k] = None
        /\ \A s \in Servers, j \in Keys :
              kept'[s][j] # None => ~(s = server /\ j = k) /\ kept'[s][j] = kept[s][j]
        /\ \A s \in Servers, j \in Keys :
              ~(s = server /\ j = k) => kept'[s][j] = kept[s][j]
    BY <2>2, <1>2, <1>3 DEF Types
  <2>10. Types'
    <3>1. wanted' \in [Keys -> Hashes \cup {None}]
          /\ kept' \in [Servers -> [Keys -> Hashes \cup {None}]]
      BY <2>2, <1>2, <1>3 DEF Types
    <3> QED BY <3>1, <1>1, <1>2, <1>5, <2>1, <2>4 DEF Types
  <2>11. ASSUME NEW j \in Keys, assets'[j] # None
         PROVE  Matches(j, assets'[j], disk[server])
    BY <2>11, <2>1, <2>5, <1>1, IdleFacts
  <2>12. WantedInv'
    <3> SUFFICES ASSUME NEW j \in Keys, wanted'[j] # None
                 PROVE  /\ assets'[j] = None /\ kept'[server][j] = None
                        /\ \A p \in PathsOf(j) : disk[server][p] = None \/ p = x
      BY <1>1, <1>5, <2>8 DEF WantedInv
    <3>1. CASE j = k
      BY <3>1, <2>1, <2>5, <2>6, <2>9 DEF Files
    <3>2. CASE j # k
      <4>1. wanted[j] # None
        BY <3>2, <2>2, <1>2 DEF Types
      <4> QED BY <3>2, <4>1, <1>1, <1>3, <2>1, <2>5, <2>9, IdleFacts
    <3> QED BY <3>1, <3>2
  <2>13. DroppedInv'
    BY <1>1, <1>5, <2>8, PlanNone DEF CacheInv, DroppedInv
  <2>14. KeptInv'
    <3> SUFFICES ASSUME NEW s \in Servers, NEW j \in Keys, kept'[s][j] # None
                 PROVE  LET p == PathOf(j, kept'[s][j])
                            t == Record(kept'[s][j], p)
                        IN /\ disk[s][p] = kept'[s][j]
                           /\ manifest[s][j] \in {None, t}
                           /\ s = server => /\ assets'[j] \in {None, t}
                                            /\ x \notin PathsOf(j)
      BY <1>1, <1>5, <2>8 DEF KeptInv
    <3>1. kept'[s][j] = kept[s][j] /\ ~(s = server /\ j = k)
      BY <2>9
    <3> DEFINE p == PathOf(j, kept[s][j])
               t == Record(kept[s][j], p)
    <3>2. disk[s][p] = kept[s][j] /\ manifest[s][j] \in {None, t}
          /\ (s = server => a[j] \in {None, t})
      BY <1>1, <3>1, PlanNone DEF CacheInv, KeptInv
    <3>3. s = server => x \notin PathsOf(j)
      BY <2>3, <3>1 DEF PathsOf
    <3> QED BY <3>1, <3>2, <3>3, <2>1, <2>5
  <2> QED BY <1>1, <2>8, <2>10, <2>11, <2>12, <2>13, <2>14, QuietOperation
<1> QED BY <1>6, <1>7, <1>8

LEMMA StoreInv ==
  ASSUME CacheInv, NEW k \in Keys, Store(k)
  PROVE  CacheInv'
<1> DEFINE h == wanted[k]
           p == PathOf(k, h)
           r == Record(h, p)
           b == [assets EXCEPT ![k] = r]
           w == <<Begin(p), Finish(p, h)>>
           v == SaveManifest(b)
<1>1. /\ running /\ work = <<>> /\ h # None /\ Records = assets
      /\ UNCHANGED <<running, connection, server, storage, counts>>
      /\ loadedFor' = server /\ assets' = b /\ work' = w \o v
      /\ wanted' = [wanted EXCEPT ![k] = None]
      /\ kept' = [kept EXCEPT ![server][k] = h]
      /\ dropped' = [dropped EXCEPT ![server] = @ \ {k}]
  BY IdleFacts DEF Store, Operate, StoreSteps
<1>2. Types /\ disk' = disk /\ manifest' = manifest
  BY <1>1 DEF CacheInv, storage
<1>3. h \in Hashes /\ server \in Servers /\ assets \in Manifests
  BY <1>1, <1>2 DEF Types
<1>4. p \in PathsOf(k) /\ p \in Paths /\ p[1] = k /\ (p[2] = "wav" => k \in Sounds)
      /\ r.hash = h /\ r.path = p /\ r # None
  BY <1>3, PathFacts, ManifestFacts DEF PathOf
<1>5. b \in Manifests /\ b[k] = r /\ \A j \in Keys \ {k} : b[j] = assets[j]
  <2>1. b \in Manifests
    BY <1>3, <1>4, ManifestFacts
  <2> QED BY <2>1, <1>3 DEF Manifests
<1>6. /\ assets[k] = None /\ kept[server][k] = None /\ manifest[server][k] = None
      /\ \A q \in PathsOf(k) : disk[server][q] = None
  BY <1>1, IdleFacts
<1>7. /\ Plan(w, b) /\ \A op, q : Has(w, op, q) <=> q = p /\ op \in {"begin", "finish"}
  <2>1. Finish(p, h).op = "finish"
    BY DEF Finish
  <2> HIDE DEF b
  <2> QED BY <2>1, <1>3, <1>4, <1>5, PlanWrite
<1>8. /\ Plan(v, b) /\ Saves(v) /\ \A i \in DOMAIN v : ~IsWrite(v[i])
      /\ \A op, q : Has(v, op, q) => op \in {"tear", "save"}
  BY <1>5, PlanSave
<1> HIDE DEF h, p, r, b, w, v
<1>9. /\ Plan(work', assets') /\ Saves(work')
      /\ \A op, q : Has(work', op, q) <=> Has(w, op, q) \/ Has(v, op, q)
  BY <1>1, <1>7, <1>8, PlanConcat
<1>10. /\ \A q : Has(work', "begin", q) <=> q = p
       /\ \A q : Has(work', "finish", q) <=> q = p
       /\ \A q : ~Has(work', "remove", q)
  BY <1>7, <1>8, <1>9
<1>11. Types'
  <2>1. wanted' \in [Keys -> Hashes \cup {None}]
        /\ kept' \in [Servers -> [Keys -> Hashes \cup {None}]]
        /\ dropped' \in [Servers -> SUBSET Keys]
    BY <1>1, <1>2, <1>3 DEF Types
  <2> QED BY <2>1, <1>1, <1>2, <1>5 DEF Types
<1>12. RunInv'
  BY <1>1 DEF CacheInv, RunInv, h
<1>13. WriteInv'
  BY <1>1, <1>2, <1>4, <1>6, <1>10 DEF WriteInv
<1>14. DiskInv'
  BY <1>2 DEF CacheInv, DiskInv
<1>15. MemoryInv'
  <2> SUFFICES ASSUME NEW j \in Keys, b[j] # None
               PROVE  /\ disk[server][b[j].path] \in {None, b[j].hash}
                           \/ Has(work', "finish", b[j].path)
                      /\ \A q \in PathsOf(j) : q # b[j].path => disk[server][q] = None
    BY <1>1, <1>2 DEF MemoryInv
  <2>1. CASE j = k
    BY <2>1, <1>4, <1>5, <1>6, <1>10
  <2>2. CASE j # k
    BY <2>2, <1>1, <1>5, IdleFacts DEF Matches
  <2> QED BY <2>1, <2>2
<1>16. WantedInv'
  <2> SUFFICES ASSUME NEW j \in Keys, wanted'[j] # None
               PROVE  /\ b[j] = None /\ kept'[server][j] = None
                      /\ \A q \in PathsOf(j) : q # p /\ disk[server][q] = None
    BY <1>1, <1>2, <1>10 DEF WantedInv
  <2>1. j # k /\ wanted[j] # None
    BY <1>1, <1>2 DEF Types
  <2>2. kept'[server][j] = kept[server][j]
    BY <1>1, <1>2, <1>3, <2>1 DEF Types
  <2>3. \A q \in PathsOf(j) : q # p
    BY <1>4, <2>1 DEF PathsOf
  <2> QED BY <2>1, <2>2, <2>3, <1>1, <1>5, IdleFacts
<1>17. DroppedInv'
  <2> SUFFICES ASSUME NEW s \in Servers, NEW j \in dropped'[s], NEW q \in PathsOf(j)
               PROVE  disk[s][q] = None /\ (s = server => q # p)
    BY <1>1, <1>2, <1>10 DEF DroppedInv
  <2>1. j \in dropped[s] /\ (s = server => j # k)
    BY <1>1, <1>2 DEF Types
  <2>2. disk[s][q] = None
    BY <2>1, <1>1, PlanNone DEF CacheInv, DroppedInv
  <2>3. q = p => j = k
    BY <1>4 DEF PathsOf
  <2> QED BY <2>1, <2>2, <2>3
<1>18. KeptInv'
  <2> SUFFICES ASSUME NEW s \in Servers, NEW j \in Keys, kept'[s][j] # None
               PROVE  LET q == PathOf(j, kept'[s][j])
                          t == Record(kept'[s][j], q)
                      IN /\ disk[s][q] = kept'[s][j] \/ (s = server /\ q = p)
                         /\ manifest[s][j] \in {None, t}
                         /\ s = server => b[j] \in {None, t}
    BY <1>1, <1>2, <1>10 DEF KeptInv
  <2>1. CASE s = server /\ j = k
    <3>1. kept'[s][j] = h
      BY <2>1, <1>1, <1>2, <1>3 DEF Types
    <3> QED BY <2>1, <3>1, <1>5, <1>6 DEF p, r
  <2>2. CASE ~(s = server /\ j = k)
    <3>1. kept'[s][j] = kept[s][j]
      BY <2>2, <1>1, <1>2, <1>3 DEF Types
    <3> DEFINE q == PathOf(j, kept[s][j])
               t == Record(kept[s][j], q)
    <3>2. disk[s][q] = kept[s][j] /\ manifest[s][j] \in {None, t}
          /\ (s = server => assets[j] \in {None, t})
      BY <1>1, <3>1, PlanNone DEF CacheInv, KeptInv
    <3> QED BY <2>2, <3>1, <3>2, <1>5
  <2> QED BY <2>1, <2>2
<1> QED BY <1>9, <1>11, <1>12, <1>13, <1>14, <1>15, <1>16, <1>17, <1>18
        DEF CacheInv, SavedInv

LEMMA StoreFailsInv ==
  ASSUME CacheInv, NEW k \in Keys, StoreFails(k)
  PROVE  CacheInv'
<1> DEFINE h == wanted[k]
           p == PathOf(k, h)
           w == <<Begin(p), Erase(p)>>
<1>1. /\ running /\ work = <<>> /\ h # None /\ Records = assets
      /\ UNCHANGED <<running, connection, server, storage, wanted, history>>
      /\ loadedFor' = server /\ assets' = assets /\ work' \in {<<>>, w}
  BY IdleFacts DEF StoreFails, Operate
<1>2. Types /\ disk' = disk /\ manifest' = manifest /\ kept' = kept
      /\ dropped' = dropped
  BY <1>1 DEF CacheInv, storage, history
<1>3. h \in Hashes /\ server \in Servers /\ assets \in Manifests
  BY <1>1, <1>2 DEF Types
<1>4. p \in PathsOf(k) /\ p \in Paths /\ p[1] = k /\ (p[2] = "wav" => k \in Sounds)
  BY <1>3, PathFacts DEF PathOf
<1>5. /\ assets[k] = None /\ kept[server][k] = None /\ manifest[server] = assets
      /\ \A q \in PathsOf(k) : disk[server][q] = None
  BY <1>1, IdleFacts
<1>6. /\ Plan(w, assets)
      /\ \A op, q : Has(w, op, q) <=> q = p /\ op \in {"begin", "remove"}
  <2>1. Erase(p).op = "remove"
    BY DEF Erase
  <2> QED BY <2>1, <1>3, <1>4, <1>5, PlanWrite
<1> HIDE DEF h, p, w
<1>7. /\ Plan(work', assets')
      /\ \A q : Has(work', "begin", q) => q = p
      /\ \A q : Has(work', "remove", q) => q = p
      /\ \A q : ~Has(work', "finish", q)
  BY <1>1, <1>6, PlanNone
<1>8. Types'
  BY <1>1, <1>2, <1>3 DEF Types
<1>9. RunInv' /\ SavedInv'
  BY <1>1, <1>2, <1>5 DEF CacheInv, RunInv, SavedInv
<1>10. WriteInv'
  BY <1>1, <1>2, <1>4, <1>5, <1>7 DEF WriteInv
<1>11. DiskInv'
  BY <1>2 DEF CacheInv, DiskInv
<1>12. MemoryInv'
  BY <1>1, <1>2, IdleFacts DEF MemoryInv, Matches
<1>13. WantedInv'
  BY <1>1, <1>2, <1>7, IdleFacts DEF WantedInv
<1>14. DroppedInv'
  BY <1>1, <1>2, <1>7, PlanNone DEF CacheInv, DroppedInv
<1>15. KeptInv'
  <2> SUFFICES ASSUME NEW s \in Servers, NEW j \in Keys, kept[s][j] # None
               PROVE  LET q == PathOf(j, kept[s][j])
                          t == Record(kept[s][j], q)
                      IN /\ disk[s][q] = kept[s][j]
                         /\ manifest[s][j] \in {None, t}
                         /\ s = server => /\ assets[j] \in {None, t}
                                          /\ p \notin PathsOf(j)
    BY <1>1, <1>2, <1>7 DEF KeptInv
  <2> DEFINE q == PathOf(j, kept[s][j])
             t == Record(kept[s][j], q)
  <2>1. disk[s][q] = kept[s][j] /\ manifest[s][j] \in {None, t}
        /\ (s = server => assets[j] \in {None, t})
    BY <1>1, PlanNone DEF CacheInv, KeptInv
  <2>2. s = server => p \notin PathsOf(j)
    BY <1>4, <1>5 DEF PathsOf
  <2> QED BY <2>1, <2>2
<1> QED BY <1>7, <1>8, <1>9, <1>10, <1>11, <1>12, <1>13, <1>14, <1>15 DEF CacheInv

\* Files removed after what is planned so far.
LEMMA PlanAlsoErase ==
  ASSUME NEW w, NEW a, Plan(w, a), NEW p \in Paths
  PROVE  /\ Plan(w \o <<Erase(p)>>, a)
         /\ Saves(w \o <<Erase(p)>>) <=> Saves(w)
         /\ \A op, q : Has(w \o <<Erase(p)>>, op, q)
                         <=> Has(w, op, q) \/ (op = "remove" /\ q = p)
<1> DEFINE e == <<Erase(p)>>
<1>1. /\ Plan(e, a) /\ ~Saves(e) /\ ~IsWrite(e[1]) /\ DOMAIN e = {1}
      /\ \A op, q : Has(e, op, q) <=> op = "remove" /\ q = p
  BY PlanErase
<1> HIDE DEF e
<1>2. /\ Plan(w \o e, a)
      /\ Saves(w \o e) <=> Saves(w)
      /\ \A op, q : Has(w \o e, op, q) <=> Has(w, op, q) \/ Has(e, op, q)
  BY <1>1, PlanConcat
<1> QED BY <1>1, <1>2 DEF e

LEMMA InvalidateInv ==
  ASSUME CacheInv, NEW k \in Keys, Invalidate(k)
  PROVE  CacheInv'
<1> DEFINE a == assets
           b == [a EXCEPT ![k] = None]
           first == IF a[k] # None
                    THEN <<Erase(a[k].path)>> \o SaveManifest(b) ELSE <<>>
           second == first \o <<Erase(<<k, "ogg">>)>>
           third == second \o (IF k \in Sounds THEN <<Erase(<<k, "wav">>)>> ELSE <<>>)
<1>1. /\ running /\ work = <<>> /\ connection = "on" /\ Records = a
      /\ UNCHANGED <<running, connection, server, storage, wanted>>
      /\ loadedFor' = server /\ assets' = b /\ work' = third
      /\ kept' = [kept EXCEPT ![server][k] = None]
      /\ dropped' = [dropped EXCEPT ![server] = @ \cup {k}]
  BY IdleFacts DEF Invalidate, Operate, InvalidateSteps
<1>2. Types /\ disk' = disk /\ manifest' = manifest
  BY <1>1 DEF CacheInv, storage
<1>3. a \in Manifests /\ server \in Servers
  BY <1>2 DEF Types
<1>4. PathsOf(k) = {<<k, "ogg">>, <<k, "wav">>} /\ PathsOf(k) \subseteq Paths
  BY PathFacts
<1>5. b \in Manifests /\ b[k] = None /\ (\A j \in Keys \ {k} : b[j] = a[j])
      /\ (a[k] = None => b = a)
  <2>1. b \in Manifests
    BY <1>3, ManifestFacts
  <2> QED BY <2>1, <1>3 DEF Manifests
<1> HIDE DEF b
<1>6. /\ Plan(first, b) /\ (a[k] # None => Saves(first))
      /\ \A q : ~Has(first, "begin", q) /\ ~Has(first, "finish", q)
      /\ \A q : Has(first, "remove", q) => q \in PathsOf(k)
  <2>1. CASE a[k] # None
    <3>1. a[k].path \in PathsOf(k) /\ a[k].path \in Paths
      BY <2>1, <1>3, <1>4, RecordFacts
    <3> DEFINE w == <<Erase(a[k].path)>> \o SaveManifest(b)
    <3>2. /\ Plan(w, b) /\ Saves(w)
          /\ \A q : ~Has(w, "begin", q) /\ ~Has(w, "finish", q)
          /\ \A q : Has(w, "remove", q) <=> q = a[k].path
      BY <3>1, <1>5, PlanEraseSave
    <3>3. first = w
      BY <2>1
    <3> HIDE DEF w, first
    <3> QED BY <3>1, <3>2, <3>3
  <2>2. CASE a[k] = None
    <3>1. first = <<>>
      BY <2>2
    <3> HIDE DEF first
    <3> QED BY <2>2, <3>1, PlanNone
  <2> QED BY <2>1, <2>2
<1> HIDE DEF first
<1>7. /\ Plan(second, b) /\ (Saves(second) <=> Saves(first))
      /\ \A op, q : Has(second, op, q)
                      <=> Has(first, op, q) \/ (op = "remove" /\ q = <<k, "ogg">>)
  BY <1>4, <1>6, PlanAlsoErase
<1> HIDE DEF second
<1>8. /\ Plan(third, b) /\ (Saves(third) <=> Saves(first))
      /\ \A op, q : Has(third, op, q)
            <=> Has(second, op, q) \/ (k \in Sounds /\ op = "remove" /\ q = <<k, "wav">>)
  <2>1. CASE k \in Sounds
    <3>1. third = second \o <<Erase(<<k, "wav">>)>>
      BY <2>1
    <3> HIDE DEF third
    <3> DEFINE p == <<k, "wav">>
    <3>2. p \in Paths /\ third = second \o <<Erase(p)>>
      BY <3>1, <1>4
    <3> HIDE DEF p
    <3>3. /\ Plan(third, b) /\ (Saves(third) <=> Saves(second))
          /\ \A op, q : Has(third, op, q)
                          <=> Has(second, op, q) \/ (op = "remove" /\ q = p)
      BY <3>2, <1>7, PlanAlsoErase
    <3> QED BY <2>1, <3>3, <1>7 DEF p
  <2>2. CASE k \notin Sounds
    <3>1. third = second
      <4>1. third = second \o <<>> /\ second \in Seq(StepType)
        BY <2>2, <1>7 DEF Plan
      <4> HIDE DEF third
      <4> QED BY <4>1, ConcatEmptySeq
    <3> HIDE DEF third
    <3> QED BY <2>2, <3>1, <1>7
  <2> QED BY <2>1, <2>2
<1> HIDE DEF third
<1>9. /\ Plan(work', assets') /\ (assets' = assets \/ Saves(work'))
      /\ \A q : ~Has(work', "begin", q) /\ ~Has(work', "finish", q)
      /\ \A q : Has(work', "remove", q) => q \in PathsOf(k)
      /\ \A q \in PathsOf(k) : Has(work', "remove", q) \/ (k \notin Sounds /\ q[2] = "wav")
  BY <1>1, <1>4, <1>5, <1>6, <1>7, <1>8
<1>10. /\ kept'[server][k] = None
       /\ \A s \in Servers, j \in Keys :
             kept'[s][j] # None => ~(s = server /\ j = k) /\ kept'[s][j] = kept[s][j]
       /\ \A s \in Servers, j \in Keys :
             ~(s = server /\ j = k) => kept'[s][j] = kept[s][j]
  BY <1>1, <1>2, <1>3 DEF Types
<1>11. Types'
  <2>1. kept' \in [Servers -> [Keys -> Hashes \cup {None}]]
        /\ dropped' \in [Servers -> SUBSET Keys]
    BY <1>1, <1>2, <1>3 DEF Types
  <2> QED BY <2>1, <1>1, <1>2, <1>3, <1>5 DEF Types
<1>12. ASSUME NEW j \in Keys, assets'[j] # None
       PROVE  Matches(j, assets'[j], disk[server])
  BY <1>12, <1>1, <1>5, IdleFacts
<1>13. WantedInv'
  <2> SUFFICES ASSUME NEW j \in Keys, wanted[j] # None
               PROVE  /\ assets'[j] = None /\ kept'[server][j] = None
                      /\ \A p \in PathsOf(j) : disk[server][p] = None
    BY <1>1, <1>2, <1>9 DEF WantedInv
  <2>1. /\ a[j] = None /\ kept[server][j] = None
        /\ \A p \in PathsOf(j) : disk[server][p] = None
    BY <1>1, IdleFacts
  <2> QED BY <2>1, <1>1, <1>3, <1>5, <1>10
<1>14. DroppedInv'
  <2> SUFFICES ASSUME NEW s \in Servers, NEW j \in dropped'[s], NEW p \in PathsOf(j)
               PROVE  disk[s][p] = None \/ (s = server /\ Has(work', "remove", p))
    BY <1>1, <1>2, <1>9 DEF DroppedInv
  <2>1. CASE j \in dropped[s]
    BY <2>1, <1>1, PlanNone DEF CacheInv, DroppedInv
  <2>2. CASE s = server /\ j = k
    <3>1. k \notin Sounds => disk[server][<<k, "wav">>] = None
      BY <1>3 DEF CacheInv, DiskInv
    <3> QED BY <2>2, <3>1, <1>4, <1>9
  <2> QED BY <2>1, <2>2, <1>1, <1>2, <1>3 DEF Types
<1>15. KeptInv'
  <2> SUFFICES ASSUME NEW s \in Servers, NEW j \in Keys, kept'[s][j] # None
               PROVE  LET p == PathOf(j, kept'[s][j])
                          t == Record(kept'[s][j], p)
                      IN /\ disk[s][p] = kept'[s][j]
                         /\ manifest[s][j] \in {None, t}
                         /\ s = server => /\ assets'[j] \in {None, t}
                                          /\ PathsOf(j) \cap PathsOf(k) = {}
    BY <1>1, <1>2, <1>9 DEF KeptInv
  <2>1. kept'[s][j] = kept[s][j] /\ ~(s = server /\ j = k)
    BY <1>10
  <2> DEFINE p == PathOf(j, kept[s][j])
             t == Record(kept[s][j], p)
  <2>2. disk[s][p] = kept[s][j] /\ manifest[s][j] \in {None, t}
        /\ (s = server => a[j] \in {None, t})
    BY <1>1, <2>1, PlanNone DEF CacheInv, KeptInv
  <2>3. s = server => PathsOf(j) \cap PathsOf(k) = {}
    BY <2>1 DEF PathsOf
  <2> QED BY <2>1, <2>2, <2>3, <1>1, <1>5
<1> QED BY <1>1, <1>9, <1>11, <1>12, <1>13, <1>14, <1>15, QuietOperation

-----------------------------------------------------------------------------
(* The steps on disk.                                                       *)

\* What the plan says of its first step and the rest.
LEMMA PlanHead ==
  ASSUME NEW w, NEW a, Plan(w, a), w # <<>>
  PROVE  LET n == Head(w)
             t == Tail(w)
         IN /\ n.op = "tear" => Saves(t)
            /\ n.op = "begin" =>
                  \/ Has(t, "finish", n.path)
                  \/ Has(t, "remove", n.path) /\ a[n.path[1]] = None
            /\ n.op = "save" =>
                  n.as = a /\ \A p : ~Has(w, "begin", p) /\ ~Has(w, "finish", p)
            /\ n.op = "finish" =>
                  a[n.path[1]] = Record(n.as, n.path) /\ n.path = PathOf(n.path[1], n.as)
            /\ IsWrite(n) => \A p : Has(t, "begin", p) \/ Has(t, "finish", p) => p = n.path
            /\ \A p : Has(t, "finish", p) => \E h \in Hashes : a[p[1]] = Record(h, p)
<1> DEFINE n == Head(w)
           t == Tail(w)
<1>1. /\ w \in Seq(StepType) /\ Len(w) \in Nat \ {0} /\ DOMAIN w = 1..Len(w)
      /\ DOMAIN t = 1..(Len(w) - 1)
      /\ \A i \in 1..(Len(w) - 1) : t[i] = w[i + 1]
      /\ n = w[1]
  BY DEF Plan
<1> HIDE DEF n, t
<1>2. 1 \in DOMAIN w
  BY <1>1
<1>3. \A i \in DOMAIN w : 1 < i => i - 1 \in DOMAIN t /\ t[i - 1] = w[i]
  <2> TAKE i \in DOMAIN w
  <2> HAVE 1 < i
  <2>1. i - 1 \in 1..(Len(w) - 1) /\ (i - 1) + 1 = i
    BY <1>1
  <2> QED BY <2>1, <1>1
<1>4. \A i \in DOMAIN t : i + 1 \in DOMAIN w /\ t[i] = w[i + 1] /\ 1 < i + 1
  BY <1>1
<1>5. n.op = "tear" => Saves(t)
  BY <1>1, <1>2, <1>3 DEF Plan, Saves
<1>6. n.op = "begin" =>
         \/ Has(t, "finish", n.path)
         \/ Has(t, "remove", n.path) /\ a[n.path[1]] = None
  BY <1>1, <1>2, <1>3 DEF Plan, Has
<1>7. ASSUME n.op = "save"
      PROVE  n.as = a /\ \A p : ~Has(w, "begin", p) /\ ~Has(w, "finish", p)
  <2>1. n.as = a /\ \A j \in DOMAIN w : 1 < j => ~IsWrite(w[j])
    BY <1>7, <1>1, <1>2 DEF Plan
  <2>2. \A j \in DOMAIN w : ~IsWrite(w[j])
    <3>1. \A j \in DOMAIN w : 1 < j \/ j = 1
      BY <1>1
    <3> QED BY <3>1, <2>1, <1>1, <1>7 DEF IsWrite
  <2> QED BY <2>1, <2>2 DEF Has, IsWrite
<1>8. n.op = "finish" =>
         a[n.path[1]] = Record(n.as, n.path) /\ n.path = PathOf(n.path[1], n.as)
  BY <1>1, <1>2 DEF Plan
<1>9. IsWrite(n) => \A p : Has(t, "begin", p) \/ Has(t, "finish", p) => p = n.path
  BY <1>1, <1>2, <1>4 DEF Plan, Has, IsWrite
<1>10. ASSUME NEW p, Has(t, "finish", p)
       PROVE  \E h \in Hashes : a[p[1]] = Record(h, p)
  <2>1. PICK i \in DOMAIN w : w[i].op = "finish" /\ w[i].path = p
    BY <1>10, <1>4 DEF Has
  <2>2. a[p[1]] = Record(w[i].as, p)
    BY <2>1 DEF Plan
  <2>3. w[i] \in StepType
    BY <1>1, <2>1
  <2>4. w[i].as \in Hashes
    BY <2>1, <2>3 DEF StepType
  <2> QED BY <2>2, <2>4
<1> QED BY <1>5, <1>6, <1>7, <1>8, <1>9, <1>10 DEF n, t

LEMMA StepInv ==
  ASSUME CacheInv, Reliable, Step
  PROVE  CacheInv'
<1> DEFINE n == Head(work)
           t == Tail(work)
           p == n.path
           k == p[1]
<1>1. /\ work # <<>> /\ work' = t
      /\ UNCHANGED <<running, connection, server, loadedFor, assets, wanted, kept, dropped>>
      /\ running /\ Types
  BY DEF Step, CacheInv, RunInv, memory, history
<1>2. server \in Servers /\ assets \in Manifests
  BY <1>1 DEF Types
<1>3. /\ Plan(t, assets) /\ n \in StepType
      /\ \A op, q : Has(t, op, q) => Has(work, op, q)
      /\ \A op, q : Has(work, op, q) => Has(t, op, q) \/ (n.op = op /\ p = q)
      /\ Saves(work) => Saves(t) \/ n.op = "save"
  BY <1>1, PlanTail DEF CacheInv
<1>4. /\ n.op = "tear" => Saves(t)
      /\ n.op = "begin" =>
            Has(t, "finish", p) \/ (Has(t, "remove", p) /\ assets[k] = None)
      /\ n.op = "save" =>
            n.as = assets /\ \A q : ~Has(work, "begin", q) /\ ~Has(work, "finish", q)
      /\ n.op = "finish" => assets[k] = Record(n.as, p) /\ p = PathOf(k, n.as)
      /\ IsWrite(n) => \A q : Has(t, "begin", q) \/ Has(t, "finish", q) => q = p
      /\ \A q : Has(t, "finish", q) => \E h \in Hashes : assets[q[1]] = Record(h, q)
  BY <1>1, PlanHead DEF CacheInv
<1>5. Has(work, n.op, p)
  <2>1. n = work[1] /\ 1 \in DOMAIN work
    BY <1>1 DEF CacheInv, Plan
  <2> QED BY <2>1 DEF Has
<1>6. /\ n.op \in {"remove", "begin", "finish", "tear", "save"}
      /\ n.op \in {"remove", "begin", "finish"} => p \in Paths
      /\ n.op = "finish" => n.as \in Hashes
      /\ n.op = "save" => n.as \in Manifests
  <2> HIDE DEF n
  <2> QED BY <1>3 DEF StepType
<1>7. RunInv'
  BY <1>1 DEF CacheInv, RunInv
<1>8. /\ n.op = "remove" => disk' = [disk EXCEPT ![server][p] = None] /\ manifest' = manifest
      /\ n.op = "begin" =>
            /\ manifest' = manifest
            /\ \E c \in {Torn, Empty, disk[server][p]} :
                  disk' = [disk EXCEPT ![server][p] = c]
      /\ n.op = "finish" =>
            disk' = [disk EXCEPT ![server][p] = n.as] /\ manifest' = manifest
      /\ n.op = "tear" =>
            /\ disk' = disk
            /\ \E a \in {NoRecords, manifest[server]} :
                  manifest' = [manifest EXCEPT ![server] = a]
      /\ n.op = "save" => disk' = disk /\ manifest' = [manifest EXCEPT ![server] = n.as]
  BY <1>6 DEF Step, Files, Reliable
<1> HIDE DEF n, t, p, k
<1>9. \A q : Has(t, "finish", q) => Has(work, "finish", q)
  BY <1>3
<1>10. CASE n.op = "remove"
  <2>1. /\ disk' = [disk EXCEPT ![server][p] = None] /\ manifest' = manifest
        /\ p \in Paths
    BY <1>6, <1>8, <1>10
  <2>2. /\ disk'[server][p] = None
        /\ \A s \in Servers, q \in Paths :
              disk'[s][q] = None \/ (disk'[s][q] = disk[s][q] /\ ~(s = server /\ q = p))
        /\ \A s \in Servers, q \in Paths : ~(s = server /\ q = p) => disk'[s][q] = disk[s][q]
    BY <2>1, <1>1, <1>2 DEF Types
  <2>3. \A q : /\ Has(work, "finish", q) => Has(t, "finish", q)
               /\ Has(work, "remove", q) => Has(t, "remove", q) \/ q = p
    BY <1>3, <1>10
  <2>4. \A j \in Keys : PathsOf(j) \subseteq Paths /\ <<j, "ogg">> \in Paths /\ <<j, "wav">> \in Paths
    BY PathFacts
  <2>5. Types'
    BY <2>1, <1>1, <1>2 DEF Types, Contents
  <2>6. SavedInv'
    BY <2>1, <1>1, <1>3, <1>10 DEF CacheInv, SavedInv
  <2>7. WriteInv'
    <3> SUFFICES ASSUME NEW q \in Paths, Has(t, "begin", q) \/ Has(t, "finish", q)
                 PROVE  /\ manifest[server][q[1]] = None
                        /\ q[2] = "wav" => q[1] \in Sounds
                        /\ \A x \in PathsOf(q[1]) : x # q => disk'[server][x] = None
      BY <2>1, <1>1 DEF WriteInv
    <3>1. /\ manifest[server][q[1]] = None
          /\ q[2] = "wav" => q[1] \in Sounds
          /\ \A x \in PathsOf(q[1]) : x # q => disk[server][x] = None
      BY <1>3 DEF CacheInv, WriteInv
    <3>2. PathsOf(q[1]) \subseteq Paths
      BY DEF PathsOf
    <3> QED BY <3>1, <3>2, <2>2, <1>2
  <2>8. DiskInv'
    <3> SUFFICES ASSUME NEW s \in Servers
                 PROVE  /\ \A j \in Keys : manifest[s][j] # None
                              => Matches(j, manifest[s][j], disk'[s])
                        /\ \A j \in Keys : None \in {disk'[s][<<j, "ogg">>], disk'[s][<<j, "wav">>]}
                        /\ \A j \in Keys \ Sounds : disk'[s][<<j, "wav">>] = None
      BY <2>1, <1>1 DEF DiskInv
    <3>1. ASSUME NEW j \in Keys, manifest[s][j] # None
          PROVE  Matches(j, manifest[s][j], disk'[s])
      <4>1. Matches(j, manifest[s][j], disk[s])
        BY <3>1 DEF CacheInv, DiskInv
      <4>2. manifest[s][j].path \in Paths
        BY <3>1, <1>1, <2>4, RecordFacts DEF Types
      <4> QED BY <4>1, <4>2, <2>2, <2>4 DEF Matches
    <3>2. \A j \in Keys : None \in {disk'[s][<<j, "ogg">>], disk'[s][<<j, "wav">>]}
      BY <2>2, <2>4 DEF CacheInv, DiskInv
    <3>3. \A j \in Keys \ Sounds : disk'[s][<<j, "wav">>] = None
      BY <2>2, <2>4 DEF CacheInv, DiskInv
    <3> QED BY <3>1, <3>2, <3>3
  <2>9. MemoryInv'
    <3> SUFFICES ASSUME NEW j \in Keys, assets[j] # None
                 PROVE  /\ \/ disk'[server][assets[j].path] \in {None, assets[j].hash}
                           \/ Has(t, "finish", assets[j].path)
                        /\ \A q \in PathsOf(j) : q # assets[j].path => disk'[server][q] = None
      BY <1>1 DEF MemoryInv
    <3>1. /\ \/ disk[server][assets[j].path] \in {None, assets[j].hash}
             \/ Has(work, "finish", assets[j].path)
          /\ \A q \in PathsOf(j) : q # assets[j].path => disk[server][q] = None
      BY <1>1 DEF CacheInv, MemoryInv
    <3>2. assets[j].path \in Paths
      BY <1>2, <2>4, RecordFacts
    <3> QED BY <3>1, <3>2, <2>2, <2>3, <2>4, <1>2
  <2>10. WantedInv'
    <3> SUFFICES ASSUME NEW j \in Keys, wanted[j] # None
                 PROVE  /\ assets[j] = None /\ kept[server][j] = None
                        /\ \A q \in PathsOf(j) :
                              /\ ~Has(t, "finish", q)
                              /\ disk'[server][q] = None \/ Has(t, "remove", q)
      BY <1>1 DEF WantedInv
    <3>1. /\ assets[j] = None /\ kept[server][j] = None
          /\ \A q \in PathsOf(j) :
                /\ ~Has(work, "finish", q)
                /\ disk[server][q] = None \/ Has(work, "remove", q)
      BY DEF CacheInv, WantedInv
    <3> QED BY <3>1, <1>2, <1>9, <2>2, <2>3, <2>4
  <2>11. DroppedInv'
    <3> SUFFICES ASSUME NEW s \in Servers, NEW j \in dropped[s], NEW q \in PathsOf(j)
                 PROVE  /\ disk'[s][q] = None \/ (s = server /\ Has(t, "remove", q))
                        /\ s = server => ~Has(t, "finish", q)
      BY <1>1 DEF DroppedInv
    <3>1. /\ disk[s][q] = None \/ (s = server /\ Has(work, "remove", q))
          /\ s = server => ~Has(work, "finish", q)
      BY DEF CacheInv, DroppedInv
    <3>2. q \in Paths
      BY DEF PathsOf
    <3> QED BY <3>1, <3>2, <1>9, <2>2, <2>3
  <2>12. KeptInv'
    <3> SUFFICES ASSUME NEW s \in Servers, NEW j \in Keys, kept[s][j] # None
                 PROVE  LET q == PathOf(j, kept[s][j])
                            r == Record(kept[s][j], q)
                        IN /\ disk'[s][q] = kept[s][j] \/ (s = server /\ Has(t, "finish", q))
                           /\ manifest[s][j] \in {None, r}
                           /\ s = server =>
                                 /\ assets[j] \in {None, r}
                                 /\ \A x \in PathsOf(j) : ~Has(t, "remove", x)
      BY <1>1, <2>1 DEF KeptInv
    <3> DEFINE q == PathOf(j, kept[s][j])
               r == Record(kept[s][j], q)
    <3>1. /\ disk[s][q] = kept[s][j] \/ (s = server /\ Has(work, "finish", q))
          /\ manifest[s][j] \in {None, r}
          /\ s = server =>
                /\ assets[j] \in {None, r}
                /\ \A x \in PathsOf(j) : ~Has(work, "remove", x)
      BY <1>1 DEF CacheInv, KeptInv
    <3>2. q \in PathsOf(j) /\ q \in Paths
      BY PathFacts
    <3>3. ~(s = server /\ q = p)
      BY <3>1, <3>2, <1>5, <1>10
    <3> QED BY <3>1, <3>2, <3>3, <2>2, <2>3, <1>3
  <2> QED BY <1>1, <1>3, <1>7, <2>5, <2>6, <2>7, <2>8, <2>9, <2>10, <2>11, <2>12 DEF CacheInv
<1>11. CASE n.op \in {"begin", "finish"}
  <2>1. /\ manifest' = manifest /\ p \in Paths
        /\ \E c \in Contents :
              /\ disk' = [disk EXCEPT ![server][p] = c]
              /\ n.op = "finish" => c = n.as
    <3>1. {Torn, Empty, disk[server][p]} \subseteq Contents /\ p \in Paths
      BY <1>1, <1>2, <1>6, <1>11 DEF Types, Contents
    <3> QED BY <3>1, <1>6, <1>8, <1>11 DEF Contents
  <2>2. /\ n.op = "finish" => disk'[server][p] = n.as
        /\ \A s \in Servers, q \in Paths : ~(s = server /\ q = p) => disk'[s][q] = disk[s][q]
    BY <2>1, <1>1, <1>2 DEF Types
  <2>3. /\ manifest[server][k] = None /\ (p[2] = "wav" => k \in Sounds)
        /\ \A q \in PathsOf(k) : q # p => disk[server][q] = None
    BY <2>1, <1>5, <1>11 DEF CacheInv, WriteInv, k
  <2>4. k \in Keys /\ p \in PathsOf(k)
    BY <2>1 DEF k, Paths, PathsOf
  <2>5. \A j \in Keys :
          /\ PathsOf(j) = {<<j, "ogg">>, <<j, "wav">>} /\ PathsOf(j) \subseteq Paths
          /\ p \in PathsOf(j) => j = k
    BY PathFacts DEF PathsOf, k
  <2>6. Types'
    BY <2>1, <1>1, <1>2 DEF Types
  <2>7. SavedInv'
    BY <2>1, <1>1, <1>3, <1>11 DEF CacheInv, SavedInv
  <2>8. WriteInv'
    <3> SUFFICES ASSUME NEW q \in Paths, Has(t, "begin", q) \/ Has(t, "finish", q)
                 PROVE  /\ manifest[server][q[1]] = None
                        /\ q[2] = "wav" => q[1] \in Sounds
                        /\ \A x \in PathsOf(q[1]) : x # q => disk'[server][x] = None
      BY <2>1, <1>1 DEF WriteInv
    <3>1. q = p
      BY <1>4, <1>11 DEF IsWrite
    <3> QED BY <3>1, <2>2, <2>3, <2>4, <2>5, <1>2 DEF k
  <2>9. DiskInv'
    <3> SUFFICES ASSUME NEW s \in Servers
                 PROVE  /\ \A j \in Keys : manifest[s][j] # None
                              => Matches(j, manifest[s][j], disk'[s])
                        /\ \A j \in Keys : None \in {disk'[s][<<j, "ogg">>], disk'[s][<<j, "wav">>]}
                        /\ \A j \in Keys \ Sounds : disk'[s][<<j, "wav">>] = None
      BY <2>1, <1>1 DEF DiskInv
    <3>1. ASSUME NEW j \in Keys, manifest[s][j] # None
          PROVE  Matches(j, manifest[s][j], disk'[s])
      <4>1. Matches(j, manifest[s][j], disk[s]) /\ ~(s = server /\ j = k)
        BY <3>1, <2>3 DEF CacheInv, DiskInv
      <4>2. manifest[s][j].path \in PathsOf(j)
        BY <3>1, <1>1, RecordFacts DEF Types
      <4> QED BY <4>1, <4>2, <2>2, <2>5 DEF Matches
    <3>2. ASSUME NEW j \in Keys
          PROVE  /\ None \in {disk'[s][<<j, "ogg">>], disk'[s][<<j, "wav">>]}
                 /\ j \notin Sounds => disk'[s][<<j, "wav">>] = None
      <4>1. /\ None \in {disk[s][<<j, "ogg">>], disk[s][<<j, "wav">>]}
            /\ j \notin Sounds => disk[s][<<j, "wav">>] = None
        BY DEF CacheInv, DiskInv
      <4>2. CASE s = server /\ j = k
        <5>1. \A q \in PathsOf(k) : q # p => disk'[server][q] = None
          BY <2>2, <2>3, <2>5, <1>2, <2>4
        <5>2. k \notin Sounds => p = <<k, "ogg">>
          BY <2>3, <2>4, <2>5
        <5>3. <<k, "ogg">> # <<k, "wav">>
          BY PathFacts, <2>4
        <5> QED BY <4>2, <5>1, <5>2, <5>3, <2>4, <2>5
      <4>3. CASE ~(s = server /\ j = k)
        BY <4>1, <4>3, <2>2, <2>5
      <4> QED BY <4>2, <4>3
    <3> QED BY <3>1, <3>2
  <2>10. MemoryInv'
    <3> SUFFICES ASSUME NEW j \in Keys, assets[j] # None
                 PROVE  /\ \/ disk'[server][assets[j].path] \in {None, assets[j].hash}
                           \/ Has(t, "finish", assets[j].path)
                        /\ \A q \in PathsOf(j) : q # assets[j].path => disk'[server][q] = None
      BY <1>1 DEF MemoryInv
    <3>1. /\ \/ disk[server][assets[j].path] \in {None, assets[j].hash}
             \/ Has(work, "finish", assets[j].path)
          /\ \A q \in PathsOf(j) : q # assets[j].path => disk[server][q] = None
      BY <1>1 DEF CacheInv, MemoryInv
    <3>2. assets[j].path \in PathsOf(j)
      BY <1>2, RecordFacts
    <3>3. CASE j = k
      <4>1. n.op = "begin" => Has(t, "finish", p) /\ assets[k].path = p
        <5>1. n.op = "begin" => Has(t, "finish", p)
          BY <3>3, <1>4
        <5>2. Has(t, "finish", p) => \E h \in Hashes : assets[k] = Record(h, p)
          BY <1>4 DEF k
        <5> QED BY <5>1, <5>2, ManifestFacts
      <4>2. n.op = "finish" => assets[k].path = p /\ assets[k].hash = n.as
        BY <1>4, ManifestFacts
      <4>3. \A q \in PathsOf(k) : q # p => disk'[server][q] = None
        BY <2>2, <2>3, <2>4, <2>5, <1>2
      <4> QED BY <3>3, <4>1, <4>2, <4>3, <2>2, <1>11
    <3>4. CASE j # k
      <4>1. assets[j].path # p
        BY <3>2, <3>4, <2>5
      <4>2. Has(work, "finish", assets[j].path) => Has(t, "finish", assets[j].path)
        BY <4>1, <1>3
      <4> QED BY <3>1, <3>2, <3>4, <4>1, <4>2, <2>2, <2>5, <1>2
    <3> QED BY <3>3, <3>4
  <2>11. WantedInv'
    <3> SUFFICES ASSUME NEW j \in Keys, wanted[j] # None
                 PROVE  /\ assets[j] = None /\ kept[server][j] = None
                        /\ \A q \in PathsOf(j) :
                              /\ ~Has(t, "finish", q)
                              /\ disk'[server][q] = None \/ Has(t, "remove", q)
      BY <1>1 DEF WantedInv
    <3>1. /\ assets[j] = None /\ kept[server][j] = None
          /\ \A q \in PathsOf(j) :
                /\ ~Has(work, "finish", q)
                /\ disk[server][q] = None \/ Has(work, "remove", q)
      BY DEF CacheInv, WantedInv
    <3>2. \A q : Has(work, "remove", q) => Has(t, "remove", q)
      BY <1>3, <1>11
    <3>3. p \in PathsOf(j) => Has(t, "remove", p)
      BY <3>1, <1>4, <1>5, <1>9, <1>11
    <3> QED BY <3>1, <3>2, <3>3, <1>2, <1>9, <2>2, <2>5
  <2>12. DroppedInv'
    <3> SUFFICES ASSUME NEW s \in Servers, NEW j \in dropped[s], NEW q \in PathsOf(j)
                 PROVE  /\ disk'[s][q] = None \/ (s = server /\ Has(t, "remove", q))
                        /\ s = server => ~Has(t, "finish", q)
      BY <1>1 DEF DroppedInv
    <3>1. /\ disk[s][q] = None \/ (s = server /\ Has(work, "remove", q))
          /\ s = server => ~Has(work, "finish", q)
      BY DEF CacheInv, DroppedInv
    <3>2. q \in Paths
      BY DEF PathsOf
    <3>3. Has(work, "remove", q) => Has(t, "remove", q)
      BY <1>3, <1>11
    <3>4. s = server /\ q = p => Has(t, "remove", p)
      BY <3>1, <1>4, <1>5, <1>9, <1>11
    <3> QED BY <3>1, <3>2, <3>3, <3>4, <1>9, <2>2
  <2>13. KeptInv'
    <3> SUFFICES ASSUME NEW s \in Servers, NEW j \in Keys, kept[s][j] # None
                 PROVE  LET q == PathOf(j, kept[s][j])
                            r == Record(kept[s][j], q)
                        IN /\ disk'[s][q] = kept[s][j] \/ (s = server /\ Has(t, "finish", q))
                           /\ manifest[s][j] \in {None, r}
                           /\ s = server =>
                                 /\ assets[j] \in {None, r}
                                 /\ \A x \in PathsOf(j) : ~Has(t, "remove", x)
      BY <1>1, <2>1 DEF KeptInv
    <3> DEFINE q == PathOf(j, kept[s][j])
               r == Record(kept[s][j], q)
    <3>1. /\ disk[s][q] = kept[s][j] \/ (s = server /\ Has(work, "finish", q))
          /\ manifest[s][j] \in {None, r}
          /\ s = server =>
                /\ assets[j] \in {None, r}
                /\ \A x \in PathsOf(j) : ~Has(work, "remove", x)
      BY <1>1 DEF CacheInv, KeptInv
    <3>2. q \in PathsOf(j) /\ q \in Paths
      BY PathFacts
    <3>3. r.path = q /\ r.hash = kept[s][j]
      BY ManifestFacts
    <3> HIDE DEF q, r
    <3>4. ASSUME s = server, j = k
          PROVE  disk'[s][q] = kept[s][j] \/ Has(t, "finish", q)
      <4>1. CASE n.op = "begin"
        <5>1. Has(t, "finish", p)
          BY <3>1, <3>4, <4>1, <2>4, <1>3, <1>4
        <5>2. \E h \in Hashes : assets[k] = Record(h, p)
          BY <5>1, <1>4 DEF k
        <5>3. assets[k].path = p /\ assets[k] # None
          BY <5>2, <2>1, ManifestFacts
        <5> QED BY <5>1, <5>3, <3>1, <3>3, <3>4
      <4>2. CASE n.op = "finish"
        <5>1. assets[k] = Record(n.as, p) /\ n.as \in Hashes
          BY <4>2, <1>4, <1>6
        <5>2. assets[k].path = p /\ assets[k] # None /\ assets[k].hash = n.as
          BY <5>1, <2>1, ManifestFacts
        <5> QED BY <4>2, <5>2, <3>1, <3>3, <3>4, <2>2
      <4> QED BY <4>1, <4>2, <1>11
    <3>5. ASSUME ~(s = server /\ j = k)
          PROVE  disk'[s][q] = kept[s][j] \/ (s = server /\ Has(t, "finish", q))
      <4>1. ~(s = server /\ q = p)
        BY <3>2, <3>5, <2>5
      <4> QED BY <3>1, <3>2, <4>1, <2>2, <1>3
    <3> QED BY <3>1, <3>4, <3>5, <1>3 DEF q, r
  <2> QED BY <1>1, <1>3, <1>7, <2>6, <2>7, <2>8, <2>9, <2>10, <2>11, <2>12, <2>13 DEF CacheInv
<1>12. CASE n.op \in {"tear", "save"}
  <2>1. /\ disk' = disk
        /\ \E a \in {NoRecords, manifest[server], assets} :
              manifest' = [manifest EXCEPT ![server] = a]
    BY <1>4, <1>8, <1>12
  <2>2. /\ \A s \in Servers \ {server} : manifest'[s] = manifest[s]
        /\ n.op = "save" => manifest'[server] = assets
        /\ n.op = "tear" => Saves(t) /\ manifest'[server] \in {NoRecords, manifest[server]}
    BY <2>1, <1>1, <1>2, <1>4, <1>8, <1>12 DEF Types
  <2>3. \A q : /\ Has(work, "finish", q) => Has(t, "finish", q)
               /\ Has(work, "remove", q) => Has(t, "remove", q)
    BY <1>3, <1>12
  <2>4. Types'
    <3>1. manifest' \in [Servers -> Manifests]
      BY <2>1, <1>1, <1>2, ManifestFacts DEF Types
    <3> QED BY <3>1, <2>1, <1>1 DEF Types
  <2>5. SavedInv'
    BY <2>2, <1>1, <1>12 DEF SavedInv
  <2>6. \A j \in Keys : NoRecords[j] = None
    BY DEF NoRecords
  <2>7. WriteInv'
    <3> SUFFICES ASSUME NEW q \in Paths, Has(t, "begin", q) \/ Has(t, "finish", q)
                 PROVE  /\ manifest'[server][q[1]] = None
                        /\ q[2] = "wav" => q[1] \in Sounds
                        /\ \A x \in PathsOf(q[1]) : x # q => disk[server][x] = None
      BY <2>1, <1>1 DEF WriteInv
    <3>1. n.op = "tear" /\ q[1] \in Keys
      BY <1>3, <1>4, <1>12 DEF Paths
    <3>2. /\ manifest[server][q[1]] = None
          /\ q[2] = "wav" => q[1] \in Sounds
          /\ \A x \in PathsOf(q[1]) : x # q => disk[server][x] = None
      BY <1>3 DEF CacheInv, WriteInv
    <3> QED BY <3>1, <3>2, <2>2, <2>6
  <2>8. DiskInv'
    <3> SUFFICES ASSUME NEW s \in Servers, NEW j \in Keys, manifest'[s][j] # None
                 PROVE  Matches(j, manifest'[s][j], disk[s])
      BY <2>1 DEF CacheInv, DiskInv
    <3>1. CASE manifest'[s] = manifest[s]
      BY <3>1 DEF CacheInv, DiskInv
    <3>2. CASE s = server /\ n.op = "save"
      <4>1. manifest'[s] = assets /\ \A q : ~Has(work, "finish", q)
        BY <3>2, <2>2, <1>4
      <4> QED BY <3>2, <4>1, <1>1 DEF CacheInv, MemoryInv, Matches
    <3>3. CASE s = server /\ n.op = "tear" /\ manifest'[s] # manifest[s]
      BY <3>3, <2>2, <2>6
    <3> QED BY <3>1, <3>2, <3>3, <2>2, <1>12
  <2>9. MemoryInv'
    BY <2>1, <2>3, <1>1 DEF CacheInv, MemoryInv
  <2>10. WantedInv'
    BY <2>1, <2>3, <1>1, <1>9 DEF CacheInv, WantedInv
  <2>11. DroppedInv'
    BY <2>1, <2>3, <1>1, <1>9 DEF CacheInv, DroppedInv
  <2>12. KeptInv'
    <3> SUFFICES ASSUME NEW s \in Servers, NEW j \in Keys, kept[s][j] # None
                 PROVE  LET q == PathOf(j, kept[s][j])
                            r == Record(kept[s][j], q)
                        IN /\ disk[s][q] = kept[s][j] \/ (s = server /\ Has(t, "finish", q))
                           /\ manifest'[s][j] \in {None, r}
                           /\ s = server =>
                                 /\ assets[j] \in {None, r}
                                 /\ \A x \in PathsOf(j) : ~Has(t, "remove", x)
      BY <1>1, <2>1 DEF KeptInv
    <3> DEFINE q == PathOf(j, kept[s][j])
               r == Record(kept[s][j], q)
    <3>1. /\ disk[s][q] = kept[s][j] \/ (s = server /\ Has(work, "finish", q))
          /\ manifest[s][j] \in {None, r}
          /\ s = server =>
                /\ assets[j] \in {None, r}
                /\ \A x \in PathsOf(j) : ~Has(work, "remove", x)
      BY <1>1 DEF CacheInv, KeptInv
    <3> HIDE DEF q, r
    <3>2. manifest'[s][j] \in {None, r}
      BY <3>1, <2>2, <2>6, <1>12
    <3> QED BY <3>1, <3>2, <2>3, <1>3 DEF q, r
  <2> QED BY <1>1, <1>3, <1>7, <2>4, <2>5, <2>7, <2>8, <2>9, <2>10, <2>11, <2>12 DEF CacheInv
<1> QED BY <1>6, <1>10, <1>11, <1>12

-----------------------------------------------------------------------------
(* The process and the connection.                                          *)

LEMMA PathsFinite == IsFiniteSet(Paths)
<1>1. IsFiniteSet({"ogg"}) /\ IsFiniteSet({"wav"})
  BY FS_Singleton
<1>2. IsFiniteSet({"ogg"} \cup {"wav"})
  BY <1>1, FS_Union
<1>3. {"ogg"} \cup {"wav"} = {"ogg", "wav"}
  OBVIOUS
<1> QED BY <1>2, <1>3, CacheAssumption, FS_Product DEF Paths

LEMMA KeptWithoutFacts ==
  ASSUME Types, NEW s \in Servers, NEW P
  PROVE  /\ KeptWithout(s, P) \in [Servers -> [Keys -> Hashes \cup {None}]]
         /\ \A z \in Servers, k \in Keys : KeptWithout(s, P)[z][k] # None =>
               /\ KeptWithout(s, P)[z][k] = kept[z][k]
               /\ z = s => PathsOf(k) \cap P = {}
<1> DEFINE m == [k \in Keys |->
                   IF {<<k, "ogg">>, <<k, "wav">>} \cap P # {} THEN None ELSE kept[s][k]]
<1>1. KeptWithout(s, P) = [kept EXCEPT ![s] = m]
  BY DEF Types, KeptWithout
<1>2. m \in [Keys -> Hashes \cup {None}]
  BY DEF Types
<1>3. \A k \in Keys : m[k] # None => m[k] = kept[s][k] /\ PathsOf(k) \cap P = {}
  BY PathFacts
<1> HIDE DEF m
<1> QED BY <1>1, <1>2, <1>3 DEF Types

\* Nothing is under way.
LEMMA QuietFacts ==
  ASSUME CacheInv, work = <<>>
  PROVE  /\ \A op, p : ~Has(work, op, p)
         /\ ~Saves(work)
         /\ \A s \in Servers, k \in Keys :
               manifest[s][k] # None => Matches(k, manifest[s][k], disk[s])
         /\ \A s \in Servers : \A k \in dropped[s] : \A p \in PathsOf(k) : disk[s][p] = None
         /\ \A s \in Servers, k \in Keys : kept[s][k] # None =>
               LET p == PathOf(k, kept[s][k])
                   r == Record(kept[s][k], p)
               IN disk[s][p] = kept[s][k] /\ manifest[s][k] \in {None, r}
BY PlanNone DEF CacheInv, DiskInv, DroppedInv, KeptInv

LEMMA StartInv ==
  ASSUME CacheInv, Start
  PROVE  CacheInv'
<1> DEFINE a == manifest[Home]
<1>1. PICK R \in SUBSET {p \in Paths : disk[Home][p] # None}, over \in BOOLEAN :
        Sweep(R, over)
  BY DEF Start
<1> DEFINE sweep == [i \in 1 .. Cardinality(R) |-> Erase(SetToSeq(R)[i])]
           last == IF over THEN SaveManifest(a) ELSE <<>>
<1>2. /\ ~running /\ running' /\ server' = Home /\ loadedFor' = Home /\ assets' = a
      /\ UNCHANGED <<connection, disk, manifest, wanted, dropped>>
      /\ work' = sweep \o last /\ kept' = KeptWithout(Home, R)
      /\ running' \in BOOLEAN
  BY <1>1 DEF Start, Sweep, storage
<1>3. /\ Types /\ Home \in Servers /\ a \in Manifests /\ work = <<>>
      /\ connection = "none" /\ \A k \in Keys : wanted[k] = None
  BY <1>2, CacheAssumption DEF CacheInv, Types, RunInv
<1>4. R \subseteq Paths /\ IsFiniteSet(R)
  BY PathsFinite, FS_Subset
<1>5. /\ Plan(sweep, a)
      /\ \A op, q : Has(sweep, op, q) => op = "remove" /\ q \in R
  BY <1>4, PlanSweep
<1>6. /\ Plan(last, a) /\ (\A i \in DOMAIN last : ~IsWrite(last[i]))
      /\ \A op, q : Has(last, op, q) => op \in {"tear", "save"}
  <2>1. CASE over
    <3>1. last = SaveManifest(a)
      BY <2>1
    <3> HIDE DEF last, a
    <3> QED BY <3>1, <1>3, PlanSave
  <2>2. CASE ~over
    <3>1. last = <<>>
      BY <2>2
    <3> HIDE DEF last
    <3> QED BY <3>1, PlanNone
  <2> QED BY <2>1, <2>2
<1> HIDE DEF sweep, last
<1> HIDE DEF a
<1>7. /\ Plan(work', assets')
      /\ \A q : ~Has(work', "begin", q) /\ ~Has(work', "finish", q)
      /\ \A q : Has(work', "remove", q) => q \in R
  <2>1. /\ Plan(sweep \o last, a)
        /\ \A op, q : Has(sweep \o last, op, q) <=> Has(sweep, op, q) \/ Has(last, op, q)
    BY <1>5, <1>6, PlanConcat
  <2>2. work' = sweep \o last /\ assets' = a
    BY <1>2
  <2>3. /\ \A q : ~Has(sweep \o last, "begin", q) /\ ~Has(sweep \o last, "finish", q)
        /\ \A q : Has(sweep \o last, "remove", q) => q \in R
    BY <2>1, <1>5, <1>6
  <2> QED BY <2>1, <2>2, <2>3
<1>8. /\ kept' \in [Servers -> [Keys -> Hashes \cup {None}]]
      /\ \A s \in Servers, k \in Keys : kept'[s][k] # None =>
            kept'[s][k] = kept[s][k] /\ (s = Home => PathsOf(k) \cap R = {})
  BY <1>2, <1>3, KeptWithoutFacts
<1>9. Types'
  BY <1>2, <1>3, <1>8 DEF Types
<1>10. RunInv' /\ SavedInv' /\ WriteInv' /\ DiskInv' /\ WantedInv'
  BY <1>2, <1>3, <1>7 DEF CacheInv, RunInv, SavedInv, WriteInv, DiskInv, WantedInv, a
<1>11. MemoryInv'
  BY <1>2, <1>3, QuietFacts DEF MemoryInv, Matches, a
<1>12. DroppedInv'
  BY <1>2, <1>3, <1>7, QuietFacts DEF DroppedInv
<1>13. KeptInv'
  <2> SUFFICES ASSUME NEW s \in Servers, NEW k \in Keys, kept'[s][k] # None
               PROVE  LET p == PathOf(k, kept'[s][k])
                          r == Record(kept'[s][k], p)
                      IN /\ disk[s][p] = kept'[s][k]
                         /\ manifest[s][k] \in {None, r}
                         /\ s = Home => /\ a[k] \in {None, r}
                                        /\ PathsOf(k) \cap R = {}
    BY <1>2, <1>7 DEF KeptInv
  <2> QED BY <1>3, <1>8, QuietFacts DEF a
<1> QED BY <1>7, <1>9, <1>10, <1>11, <1>12, <1>13 DEF CacheInv

LEMMA LeaveInv ==
  ASSUME CacheInv, Leave
  PROVE  CacheInv'
<1> DEFINE m == SaveManifest(assets)
<1>1. /\ running /\ connection' = "off" /\ work' = work \o m
      /\ wanted' = [k \in Keys |-> None] /\ Types
      /\ UNCHANGED <<running, server, loadedFor, assets, disk, manifest, kept, dropped>>
  BY DEF CacheInv, Leave, memory, storage, history
<1>2. assets \in Manifests
  BY <1>1 DEF Types
<1>3. /\ Plan(m, assets) /\ Saves(m) /\ (\A i \in DOMAIN m : ~IsWrite(m[i]))
      /\ \A op, p : Has(m, op, p) => op \in {"tear", "save"}
  BY <1>2, PlanSave
<1> HIDE DEF m
<1>4. /\ Plan(work', assets') /\ Saves(work')
      /\ \A op, p : Has(work', op, p) <=> Has(work, op, p) \/ Has(m, op, p)
  BY <1>1, <1>3, PlanConcat DEF CacheInv
<1>5. /\ \A p : Has(work', "begin", p) <=> Has(work, "begin", p)
      /\ \A p : Has(work', "finish", p) <=> Has(work, "finish", p)
      /\ \A p : Has(work', "remove", p) <=> Has(work, "remove", p)
  BY <1>3, <1>4
<1>6. Types' /\ RunInv' /\ SavedInv' /\ WantedInv' /\ DiskInv'
  BY <1>1, <1>4 DEF CacheInv, Types, RunInv, SavedInv, WantedInv, DiskInv
<1>7. WriteInv' /\ MemoryInv'
  BY <1>1, <1>5 DEF CacheInv, WriteInv, MemoryInv
<1>8. DroppedInv' /\ KeptInv'
  BY <1>1, <1>5 DEF CacheInv, DroppedInv, KeptInv
<1> QED BY <1>4, <1>6, <1>7, <1>8 DEF CacheInv

\* The process ends in order: what is in memory was saved before.
LEMMA QuitInv ==
  ASSUME CacheInv, Reliable, Quit
  PROVE  CacheInv'
<1>1. /\ running /\ work = <<>> /\ ~running' /\ connection' = "none"
      /\ manifest' = [manifest EXCEPT ![server] = assets]
      /\ wanted' = [k \in Keys |-> None] /\ Types
      /\ UNCHANGED <<server, loadedFor, assets, disk, work, kept, dropped>>
      /\ running' \in BOOLEAN
  BY DEF CacheInv, Quit, Reliable, memory, history
<1>2. manifest[server] = assets
  BY <1>1, IdleFacts
<1>3. manifest' = manifest
  BY <1>1, <1>2 DEF Types
<1>4. \A op, p : ~Has(work, op, p)
  BY <1>1, QuietFacts
<1>5. Types' /\ RunInv' /\ SavedInv' /\ WriteInv' /\ DiskInv' /\ MemoryInv' /\ WantedInv'
  BY <1>1, <1>3, <1>4
     DEF CacheInv, Types, RunInv, SavedInv, WriteInv, DiskInv, MemoryInv, WantedInv
<1>6. DroppedInv' /\ KeptInv' /\ Plan(work', assets')
  BY <1>1, <1>3, <1>4 DEF CacheInv, DroppedInv, KeptInv
<1> QED BY <1>5, <1>6 DEF CacheInv

LEMMA CrashInv ==
  ASSUME CacheInv, Crash
  PROVE  CacheInv'
<1> DEFINE W == Unfinished({"begin", "finish"})
           D == Unfinished({"remove"})
<1>1. /\ running /\ ~running' /\ connection' = "none" /\ work' = <<>>
      /\ wanted' = [k \in Keys |-> None] /\ Types
      /\ kept' = KeptWithout(server, W)
      /\ dropped' = [dropped EXCEPT ![server] = @ \ {p[1] : p \in D}]
      /\ UNCHANGED <<server, loadedFor, assets, disk, manifest>>
      /\ running' \in BOOLEAN /\ server \in Servers
  BY DEF CacheInv, Types, Crash, memory, storage
<1>2. /\ \A p : Has(work, "finish", p) => p \in W
      /\ \A p : Has(work, "remove", p) => p \in D
  BY DEF Has, Unfinished
<1> HIDE DEF W, D
<1>3. /\ kept' \in [Servers -> [Keys -> Hashes \cup {None}]]
      /\ \A s \in Servers, k \in Keys : kept'[s][k] # None =>
            kept'[s][k] = kept[s][k] /\ (s = server => PathsOf(k) \cap W = {})
  BY <1>1, KeptWithoutFacts
<1>4. /\ dropped' \in [Servers -> SUBSET Keys]
      /\ \A s \in Servers : \A k \in dropped'[s] :
            k \in dropped[s] /\ (s = server => \A p \in D : p[1] # k)
  BY <1>1 DEF Types
<1>5. Plan(work', assets') /\ \A op, p : ~Has(work', op, p)
  BY <1>1, PlanNone
<1>6. Types'
  BY <1>1, <1>3, <1>4 DEF Types
<1>7. RunInv' /\ SavedInv' /\ WriteInv' /\ DiskInv' /\ MemoryInv' /\ WantedInv'
  BY <1>1, <1>5
     DEF CacheInv, RunInv, SavedInv, WriteInv, DiskInv, MemoryInv, WantedInv
<1>8. DroppedInv'
  <2> SUFFICES ASSUME NEW s \in Servers, NEW k \in dropped'[s], NEW p \in PathsOf(k)
               PROVE  disk[s][p] = None
    BY <1>1, <1>5 DEF DroppedInv
  <2>1. disk[s][p] = None \/ (s = server /\ Has(work, "remove", p))
    BY <1>4 DEF CacheInv, DroppedInv
  <2> QED BY <2>1, <1>2, <1>4 DEF PathsOf
<1>9. KeptInv'
  <2> SUFFICES ASSUME NEW s \in Servers, NEW k \in Keys, kept'[s][k] # None
               PROVE  LET p == PathOf(k, kept'[s][k])
                          r == Record(kept'[s][k], p)
                      IN /\ disk[s][p] = kept'[s][k]
                         /\ manifest[s][k] \in {None, r}
    BY <1>1, <1>5 DEF KeptInv
  <2> DEFINE p == PathOf(k, kept[s][k])
             r == Record(kept[s][k], p)
  <2>1. /\ disk[s][p] = kept[s][k] \/ (s = server /\ Has(work, "finish", p))
        /\ manifest[s][k] \in {None, r}
    BY <1>3 DEF CacheInv, KeptInv
  <2>2. p \in PathsOf(k)
    BY PathFacts
  <2> QED BY <2>1, <2>2, <1>2, <1>3
<1> QED BY <1>5, <1>6, <1>7, <1>8, <1>9 DEF CacheInv

LEMMA ConnectInv ==
  ASSUME CacheInv, NEW s \in Servers, Connect(s)
  PROVE  CacheInv'
<1>1. /\ running /\ running' /\ work = <<>> /\ work' = work /\ connection' = "on"
      /\ connection = "none" \/ server = s
      /\ server' = s /\ loadedFor' = s /\ assets' = manifest[s] /\ Types
      /\ UNCHANGED <<running, disk, manifest, wanted, kept, dropped>>
  BY DEF CacheInv, Connect, storage, history
<1>2. Plan(work', assets') /\ \A op, p : ~Has(work, op, p) /\ ~Has(work', op, p)
  BY <1>1, PlanNone
<1>3. Types'
  BY <1>1 DEF Types
<1>4. RunInv' /\ SavedInv' /\ WriteInv' /\ DiskInv'
  BY <1>1, <1>2 DEF CacheInv, RunInv, SavedInv, WriteInv, DiskInv
<1>5. MemoryInv'
  BY <1>1, QuietFacts DEF MemoryInv, Matches
<1>6. WantedInv'
  <2>1. CASE connection = "none"
    BY <2>1, <1>1 DEF CacheInv, RunInv, WantedInv
  <2>2. CASE server = s
    BY <2>2, <1>1, IdleFacts, <1>2 DEF WantedInv
  <2> QED BY <2>1, <2>2, <1>1
<1>7. DroppedInv'
  BY <1>1, <1>2, QuietFacts DEF DroppedInv
<1>8. KeptInv'
  BY <1>1, <1>2, QuietFacts DEF KeptInv
<1> QED BY <1>2, <1>3, <1>4, <1>5, <1>6, <1>7, <1>8 DEF CacheInv

-----------------------------------------------------------------------------
(* The invariant and what follows from it.                                  *)

LEMMA CacheInit ==
  ASSUME Init
  PROVE  CacheInv
<1>1. Plan(work, assets) /\ \A op, p : ~Has(work, op, p)
  BY PlanNone DEF Init
<1>2. Types
  BY ManifestFacts, CacheAssumption DEF Init, Types, Contents, NoRecords
<1>3. RunInv /\ SavedInv /\ WriteInv /\ MemoryInv /\ WantedInv /\ DroppedInv
  BY <1>1 DEF Init, RunInv, SavedInv, WriteInv, MemoryInv, WantedInv, DroppedInv
<1>4. DiskInv
  BY PathFacts DEF Init, DiskInv, NoRecords
<1>5. KeptInv
  BY DEF Init, KeptInv, NoRecords
<1> QED BY <1>1, <1>2, <1>3, <1>4, <1>5 DEF CacheInv

LEMMA CacheInvariance ==
  ASSUME Reliable
  PROVE  Spec => []CacheInv
<1>1. Init => CacheInv
  BY CacheInit
<1>2. CacheInv /\ [Next]_vars => CacheInv'
  <2> SUFFICES ASSUME CacheInv, [Next]_vars
               PROVE  CacheInv'
    OBVIOUS
  <2>1. CASE UNCHANGED vars
    BY <2>1 DEF vars, CacheInv, Types, RunInv, SavedInv, WriteInv, DiskInv, MemoryInv,
       WantedInv, DroppedInv, KeptInv
  <2>2. ASSUME NEW k \in Keys, NEW h \in Hashes, TryGet(k, h)
        PROVE  CacheInv'
    BY <2>2, TryGetInv
  <2>3. ASSUME NEW k \in Keys, Store(k) \/ StoreFails(k) \/ Invalidate(k)
        PROVE  CacheInv'
    BY <2>3, StoreInv, StoreFailsInv, InvalidateInv
  <2>4. CASE Step
    BY <2>4, StepInv
  <2>5. CASE Start \/ Leave \/ Quit \/ Crash
    BY <2>5, StartInv, LeaveInv, QuitInv, CrashInv
  <2>6. ASSUME NEW s \in Servers, Connect(s)
        PROVE  CacheInv'
    BY <2>6, ConnectInv
  <2> QED BY <2>1, <2>2, <2>3, <2>4, <2>5, <2>6 DEF Next
<1> QED BY <1>1, <1>2, PTL DEF Spec

\* What TryGet gives out has the hash asked for, whatever was torn, lost or
\* changed before and in whichever run of the game, though a hit by the records
\* reads no file (ModelCache::TryGet).
THEOREM HitsAreTrue ==
  ASSUME Reliable
  PROVE  Spec => []ReturnsExpected
<1>1. CacheInv => ReturnsExpected
  BY HitIsTrue, IdleFacts DEF ReturnsExpected, Idle
<1> QED BY <1>1, CacheInvariance, PTL

\* A file that was stored is found again, also after a crash that took the
\* manifest, until it is given up, swept or changed (ModelCache::Store and the
\* fallback of TryGet).
THEOREM OneTransferIsEnough ==
  ASSUME Reliable
  PROVE  Spec => []StoredIsFound
<1>1. ASSUME CacheInv, Idle, NEW k \in Keys, kept[server][k] # None
      PROVE  Hit(Records, k, kept[server][k]) # None
  <2> DEFINE h == kept[server][k]
             p == PathOf(k, h)
             r == Record(h, p)
  <2>1. running /\ work = <<>> /\ server \in Servers /\ h \in Hashes
    BY <1>1 DEF Idle, CacheInv, Types
  <2>2. disk[server][p] = h /\ assets[k] \in {None, r} /\ Records = assets
    BY <1>1, <2>1, IdleFacts
  <2>3. p \in PathsOf(k) /\ p \in Paths /\ p # None /\ h \notin {None, Empty}
    BY <2>1, PathFacts, CacheAssumption, RecordAssumption
  <2>4. r.hash = h /\ r.path = p
    BY ManifestFacts
  <2> HIDE DEF h, p, r
  <2>5. CASE assets[k] = r /\ r # None
    <3>1. Recorded(assets, k, h)
      BY <2>2, <2>3, <2>4, <2>5 DEF Recorded, There, Files
    <3>2. Hit(assets, k, h) = assets[k].path
      <4>1. ~Found(assets, k, h)
        BY <3>1 DEF Recorded, Found
      <4> QED BY <3>1, <4>1 DEF Hit
    <3>3. Hit(assets, k, h) = p
      BY <3>2, <2>4, <2>5
    <3> QED BY <3>3, <2>2, <2>3 DEF h
  <2>6. CASE assets[k] = None
    <3>1. CheckPath(k) = p
      BY <1>1, <2>2, <2>3, OneFile DEF Files
    <3>2. Found(assets, k, h)
      BY <3>1, <2>2, <2>6 DEF Found, Files
    <3> QED BY <3>1, <3>2, <2>2, <2>3, Outcomes DEF h
  <2> QED BY <2>2, <2>5, <2>6
<1>2. CacheInv => StoredIsFound
  BY <1>1 DEF StoredIsFound
<1> QED BY <1>2, CacheInvariance, PTL

\* A file that turned out to be no model is not given out again before it was
\* transferred again, whatever is left of it on disk (ModelCache::Invalidate).
THEOREM InvalidatedStaysAway ==
  ASSUME Reliable
  PROVE  Spec => []InvalidatedIsGone
<1>1. ASSUME CacheInv, Idle, NEW k \in dropped[server], NEW h \in Hashes
      PROVE  Hit(Records, k, h) = None
  <2>1. running /\ work = <<>> /\ k \in Keys
    BY <1>1 DEF Idle, CacheInv, Types
  <2>2. Records = assets /\ \A p \in PathsOf(k) : Files[p] = None
    BY <1>1, <2>1, IdleFacts DEF Files
  <2>3. ~Recorded(assets, k, h)
    <3>1. assets[k] # None => assets[k].path \in PathsOf(k)
      BY <1>1, <2>1, RecordFacts DEF CacheInv, Types
    <3> QED BY <3>1, <2>2 DEF Recorded, There
  <2>4. ~Found(assets, k, h)
    BY <2>1, <2>2, PathFacts, CacheAssumption DEF Found
  <2>5. Hit(assets, k, h) = None
    BY <2>3, <2>4, Outcomes
  <2> QED BY <2>2, <2>5
<1>2. CacheInv => InvalidatedIsGone
  BY <1>1 DEF InvalidatedIsGone
<1> QED BY <1>2, CacheInvariance, PTL
=============================================================================
