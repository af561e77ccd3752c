---------------------- MODULE CameraFilesysQueueProofs ----------------------
(* The list of downloaded pictures behaves as the order of use it stands    *)
(* for: CameraFilesys implements LruQueue, for every tree and every number  *)
(* of pictures to keep.                                                     *)
(*                                                                          *)
(* The links are related to the order by the ranks of CameraFilesysProofs,  *)
(* which rise from lru_first to lru_last: what is proved of the list in     *)
(* terms of ranks (OrderIsRank) says what a walk of it shows.  Pruning      *)
(* takes the lowest rank off while too many are held, and so leaves those   *)
(* with few higher ones.  Every other change of the list keeps the ranks of *)
(* what it leaves, and what it takes off was under a dirty mark, is freed,  *)
(* or lies in the folder being cleared: LosesOnly follows that through the  *)
(* listings a call sets off.                                                *)
EXTENDS CameraFilesysProofs, FunctionTheorems

-----------------------------------------------------------------------------
(* The order of the list *)

Before(l, rank) == {q \in Held(l) \X Held(l) : rank[q[1]] < rank[q[2]]}

\* Ranks rise along the list as it is walked.
Rising(w, n, l, rank) ==
  /\ n \in 0 .. Cardinality(Entries)
  /\ w \in [1 .. n -> Entries] /\ Len(w) = n
  /\ n = 0 <=> l.first = Nil
  /\ n > 0 => w[1] = l.first /\ w[n] = l.last
  /\ Held(l) = {w[i] : i \in 1 .. n}
  /\ \A i \in 1 .. n, j \in 1 .. n : i < j => rank[w[i]] < rank[w[j]]

LEMMA EntriesAreCounted == Cardinality(Entries) \in Nat
  BY EntriesAreFinite, FS_CardinalityType

LEMMA WalkRises ==
  ASSUME NEW l, NEW rank, Ordered(l, rank)
  PROVE  \E n \in 0 .. Cardinality(Entries) : Rising(Walk(l), n, l, rank)
  <1> DEFINE w == Walk(l)
  <1>1. PICK n \in 0 .. Cardinality(Entries) :
          /\ w \in [1 .. n -> Entries]
          /\ Len(w) = n
          /\ n = 0 <=> l.first = Nil
          /\ n > 0 => w[1] = l.first /\ w[n] = l.last
          /\ \A i \in 1 .. n - 1 : w[i + 1] = l.next[w[i]] /\ l.prev[w[i + 1]] = w[i]
          /\ Held(l) = {w[i] : i \in 1 .. n}
    BY WalkMeetsAll DEF Walked
  <1> HIDE DEF w
  <1>2. n \in Nat
    BY <1>1, EntriesAreCounted
  <1>3. rank \in [Entries -> Nat]
    BY DEF Ordered
  <1>4. ASSUME NEW i \in 1 .. n - 1 PROVE rank[w[i]] < rank[w[i + 1]]
    <2>1. i \in 1 .. n /\ i + 1 \in 1 .. n
      BY <1>2
    <2>2. w[i] \in Held(l) /\ w[i + 1] \in Entries /\ w[i + 1] = l.next[w[i]] /\ l.prev[w[i + 1]] = w[i]
      BY <1>1, <2>1
    <2>3. w[i + 1] # Nil
      BY <2>2, NilIsNoEntry
    <2>4. w[i + 1] \in Held(l) \ {l.first}
      BY <2>2, <2>3 DEF Ordered
    <2>5. QED BY <2>2, <2>4 DEF Ordered
  <1>5. ASSUME NEW i \in 1 .. n, NEW j \in 1 .. n, i < j PROVE rank[w[i]] < rank[w[j]]
    <2> DEFINE S == {k \in Nat : i + k \in 1 .. n /\ k > 0 => rank[w[i]] < rank[w[i + k]]}
    <2>1. 0 \in S
      OBVIOUS
    <2>2. ASSUME NEW k \in 0 .. n - i - 1, k \in S PROVE k + 1 \in S
      <3>1. i + k \in 1 .. n - 1 /\ i + k + 1 \in 1 .. n /\ k \in Nat /\ i + (k + 1) = (i + k) + 1
        BY <1>2
      <3>2. rank[w[i + k]] < rank[w[i + k + 1]]
        BY <1>4, <3>1
      <3>3. w[i] \in Entries /\ w[i + k] \in Entries /\ w[i + k + 1] \in Entries
        BY <1>1, <3>1
      <3>4. rank[w[i]] \in Nat /\ rank[w[i + k]] \in Nat /\ rank[w[i + k + 1]] \in Nat
        BY <1>3, <3>3
      <3>5. k = 0 \/ rank[w[i]] < rank[w[i + k]]
        BY <2>2, <3>1
      <3>6. rank[w[i]] < rank[w[i + k + 1]]
        <4>1. CASE k = 0
          BY <3>2, <4>1
        <4>2. CASE rank[w[i]] < rank[w[i + k]]
          BY <3>2, <3>4, <4>2
        <4>3. QED BY <3>5, <4>1, <4>2
      <3>7. QED BY <3>1, <3>6
    <2>3. n - i \in Nat
      BY <1>2
    <2> HIDE DEF S
    <2>4. \A k \in 0 .. n - i : k \in S
      BY <2>1, <2>2, <2>3, UpTo
    <2>5. j - i \in S
      BY <1>2, <1>5, <2>4
    <2>6. i + (j - i) = j /\ j - i > 0 /\ j - i \in Nat
      BY <1>2, <1>5
    <2>7. QED BY <2>5, <2>6 DEF S
  <1>6. Rising(w, n, l, rank)
    BY <1>1, <1>5 DEF Rising
  <1>7. QED BY <1>6 DEF w

\* What the walk shows: the held files, and which of two is used longer ago.
LEMMA OrderIsRank ==
  ASSUME NEW l, NEW rank, Ordered(l, rank)
  PROVE  Downloads(l) = Held(l) /\ InOrderOfUse(l) = Before(l, rank)
  <1> DEFINE w == Walk(l)
  <1>1. PICK n \in 0 .. Cardinality(Entries) : Rising(w, n, l, rank)
    BY WalkRises
  <1> HIDE DEF w
  <1>2. n \in Nat /\ Len(w) = n /\ DOMAIN w = 1 .. n
    BY <1>1, EntriesAreCounted DEF Rising
  <1>3. Held(l) = {w[i] : i \in 1 .. n}
    BY <1>1 DEF Rising
  <1>4. \A i \in 1 .. n : w[i] \in Held(l) /\ rank[w[i]] \in Nat
    BY <1>1, <1>3 DEF Rising, Ordered
  <1>5. \A i \in 1 .. n, j \in 1 .. n : i < j <=> rank[w[i]] < rank[w[j]]
    <2> TAKE i \in 1 .. n, j \in 1 .. n
    <2>1. i < j => rank[w[i]] < rank[w[j]]
      BY <1>1 DEF Rising
    <2>2. j < i => rank[w[j]] < rank[w[i]]
      BY <1>1 DEF Rising
    <2>3. i = j => ~(rank[w[i]] < rank[w[j]])
      BY <1>4
    <2>4. QED BY <1>2, <1>4, <2>1, <2>2, <2>3
  <1>6. Downloads(l) = Held(l)
    BY DEF Downloads, Held
  <1>7. InOrderOfUse(l) = UNION {{w[i]} \X {w[j] : j \in i + 1 .. n} : i \in 1 .. n}
    BY <1>2 DEF InOrderOfUse, w
  <1>8. ASSUME NEW q \in Before(l, rank) PROVE q \in InOrderOfUse(l)
    <2>1. PICK i \in 1 .. n, j \in 1 .. n : q = <<w[i], w[j]>> /\ rank[w[i]] < rank[w[j]]
      BY <1>3 DEF Before
    <2>2. j \in i + 1 .. n
      BY <1>2, <1>5, <2>1
    <2>3. QED BY <1>7, <2>1, <2>2
  <1>9. ASSUME NEW q \in InOrderOfUse(l) PROVE q \in Before(l, rank)
    <2>1. PICK i \in 1 .. n : q \in {w[i]} \X {w[j] : j \in i + 1 .. n}
      BY <1>7
    <2>2. PICK j \in i + 1 .. n : q = <<w[i], w[j]>>
      BY <2>1
    <2>3. j \in 1 .. n /\ i < j
      BY <1>2
    <2>4. QED BY <1>4, <1>5, <2>2, <2>3 DEF Before
  <1>10. QED BY <1>6, <1>8, <1>9

\* The list starts with the file used longest ago and ends with the last one.
LEMMA EndsAreExtreme ==
  ASSUME NEW l, NEW rank, Ordered(l, rank), NEW d \in Held(l)
  PROVE  /\ l.first # Nil
         /\ d # l.first => rank[l.first] < rank[d]
         /\ d # l.last => rank[d] < rank[l.last]
  <1> DEFINE w == Walk(l)
  <1>1. PICK n \in 0 .. Cardinality(Entries) : Rising(w, n, l, rank)
    BY WalkRises
  <1> HIDE DEF w
  <1>2. PICK i \in 1 .. n : d = w[i]
    BY <1>1 DEF Rising
  <1>3. n \in Nat /\ n > 0 /\ 1 \in 1 .. n /\ n \in 1 .. n
    BY EntriesAreCounted
  <1>4. l.first = w[1] /\ l.last = w[n] /\ l.first # Nil
    BY <1>1, <1>3 DEF Rising
  <1>5. d # l.first => 1 < i
    BY <1>2, <1>3, <1>4
  <1>6. d # l.last => i < n
    BY <1>2, <1>3, <1>4
  <1>7. QED BY <1>1, <1>2, <1>3, <1>4, <1>5, <1>6 DEF Rising

\* Two held files never have the same rank, and the walk counts them.
LEMMA HeldAreCounted ==
  ASSUME NEW l, NEW rank, Ordered(l, rank)
  PROVE  /\ IsFiniteSet(Held(l))
         /\ Cardinality(Held(l)) \in 0 .. Cardinality(Entries)
         /\ \A d \in Held(l), e \in Held(l) : d # e => rank[d] < rank[e] \/ rank[e] < rank[d]
  <1> DEFINE w == Walk(l)
  <1>1. PICK n \in 0 .. Cardinality(Entries) : Rising(w, n, l, rank)
    BY WalkRises
  <1> HIDE DEF w
  <1>2. Held(l) \in SUBSET Entries
    BY DEF Held
  <1>3. IsFiniteSet(Held(l)) /\ Cardinality(Held(l)) <= Cardinality(Entries) /\ Cardinality(Held(l)) \in Nat
    BY <1>2, EntriesAreFinite, FS_Subset, FS_CardinalityType
  <1>4. ASSUME NEW d \in Held(l), NEW e \in Held(l), d # e PROVE rank[d] < rank[e] \/ rank[e] < rank[d]
    <2>1. PICK i \in 1 .. n, j \in 1 .. n : d = w[i] /\ e = w[j]
      BY <1>1 DEF Rising
    <2>2. i # j /\ i \in Int /\ j \in Int
      BY <1>4, <2>1
    <2>3. i < j \/ j < i
      BY <2>2
    <2>4. QED BY <1>1, <2>1, <2>3 DEF Rising
  <1>5. QED BY <1>3, <1>4, EntriesAreCounted

LEMMA CachedAreHeld ==
  ASSUME NEW x, Linked(x.lru), \A e \in Held(x.lru) : x.normal[e] # "none"
  PROVE  CachedPictures(x) = Cardinality(Held(x.lru))
  <1> DEFINE w == Walk(x.lru)
  <1>1. PICK rank \in [Entries -> Nat] : Ordered(x.lru, rank)
    BY DEF Linked
  <1>2. PICK n \in 0 .. Cardinality(Entries) : Rising(w, n, x.lru, rank)
    BY <1>1, WalkRises
  <1> HIDE DEF w
  <1>3. n \in Nat /\ w \in [1 .. n -> Held(x.lru)] /\ DOMAIN w = 1 .. n /\ Held(x.lru) = {w[i] : i \in 1 .. n}
    BY <1>2, EntriesAreCounted DEF Rising
  <1>4. ASSUME NEW i \in 1 .. n, NEW j \in 1 .. n, w[i] = w[j] PROVE i = j
    <2>1. rank[w[i]] \in Nat
      BY <1>1, <1>2 DEF Rising
    <2>2. ~(rank[w[i]] < rank[w[j]]) /\ ~(rank[w[j]] < rank[w[i]])
      BY <1>4, <2>1
    <2>3. ~(i < j) /\ ~(j < i)
      BY <1>2, <2>2 DEF Rising
    <2>4. QED BY <1>3, <2>3
  <1>5. ExistsBijection(1 .. n, Held(x.lru))
    <2>1. w \in Injection(1 .. n, Held(x.lru))
      BY <1>3, <1>4, Fun_IsInj
    <2>2. w \in Surjection(1 .. n, Held(x.lru))
      <3>1. \A t \in Held(x.lru) : \E s \in 1 .. n : w[s] = t
        BY <1>3
      <3>2. w \in [1 .. n -> Held(x.lru)]
        BY <1>3
      <3>3. QED BY <3>1, <3>2 DEF Surjection
    <2>3. QED BY <2>1, <2>2 DEF Bijection, ExistsBijection
  <1>6. IsFiniteSet(1 .. n) /\ Cardinality(1 .. n) = n
    <2>1. n \in Nat /\ n \in Int /\ 1 \in Int
      BY <1>3
    <2>2. IsFiniteSet(1 .. n) /\ Cardinality(1 .. n) = IF 1 > n THEN 0 ELSE n - 1 + 1
      BY ONLY <2>1, FS_Interval
    <2>3. QED BY <2>1, <2>2
  <1>7. Cardinality(Held(x.lru)) = n
    BY <1>5, <1>6, FS_Bijection
  <1>8. {i \in DOMAIN w : x.normal[w[i]] # "none"} = 1 .. n
    BY <1>3
  <1>9. QED BY <1>6, <1>7, <1>8 DEF CachedPictures, w

-----------------------------------------------------------------------------
(* Pruning keeps the newest.  It goes on until few enough are held, each    *)
(* time with the oldest, so what goes has as many newer ones as may stay.   *)

Newer(l, rank, a) == {f \in Held(l) : rank[a] < rank[f]}

NewestHeld(l, rank) == {a \in Held(l) : Cardinality(Newer(l, rank, a)) < Keep}

\* y is what is left of x when some of the oldest are gone.
OldestGone(y, x, rank) ==
  /\ Slimmer(y, x)
  /\ Ordered(y.lru, rank)
  /\ \A a \in Held(y.lru) : Newer(x.lru, rank, a) \subseteq Held(y.lru)
  /\ \A a \in Held(x.lru) \ Held(y.lru) : Cardinality(Newer(x.lru, rank, a)) >= Keep

LEMMA FewAreHeld ==
  ASSUME NEW x, NEW rank, NEW y, OldestGone(y, x, rank), Holds(x)
  PROVE  CachedPictures(y) = Cardinality(Held(y.lru)) /\ Cardinality(Held(y.lru)) \in 0 .. Cardinality(Entries)
  <1>1. /\ Linked(y.lru) /\ Ordered(y.lru, rank)
        /\ \A e \in Held(y.lru) : e \in Held(x.lru) /\ y.normal[e] = x.normal[e]
    BY DEF OldestGone, Slimmer, Held
  <1>2. \A e \in Held(y.lru) : y.normal[e] # "none"
    BY <1>1 DEF Holds
  <1>3. QED BY <1>1, <1>2, CachedAreHeld, HeldAreCounted

LEMMA OneMoreGone ==
  ASSUME NEW x, NEW rank, Ordered(x.lru, rank), Holds(x), NEW y, OldestGone(y, x, rank), CachedPictures(y) > Keep
  PROVE  /\ OldestGone(FreeFirst(y), x, rank)
         /\ Cardinality(Held(FreeFirst(y).lru)) = Cardinality(Held(y.lru)) - 1
  <1> DEFINE e == y.lru.first
             z == FreeFirst(y)
             count == Cardinality(Held(y.lru))
  <1>1. /\ Slimmer(y, x) /\ Ordered(y.lru, rank) /\ Linked(y.lru) /\ y \in TreeType
        /\ Held(y.lru) \subseteq Held(x.lru) /\ Held(y.lru) \subseteq Entries
    BY DEF OldestGone, Slimmer, Held
  <1>2. count > Keep /\ count \in Nat /\ IsFiniteSet(Held(y.lru)) /\ Keep \in Nat
    <2>1. count > Keep /\ count \in 0 .. Cardinality(Entries)
      BY FewAreHeld
    <2>2. IsFiniteSet(Held(y.lru))
      BY <1>1, HeldAreCounted
    <2>3. QED BY <2>1, <2>2, EntriesAreCounted, BoundsAreNatural
  <1>3. e # Nil /\ e \in Held(y.lru)
    <2>1. e # Nil
      BY <1>1, CachedHaveFirst
    <2>2. QED BY <1>1, <2>1 DEF Ordered
  <1>4. Slimmer(z, y) /\ Held(z.lru) = Held(y.lru) \ {e} /\ Ordered(z.lru, rank)
    BY <1>1, <1>3, FreeFirstSlims
  <1> HIDE DEF z, e, count
  <1>5. Cardinality(Held(y.lru) \ {e}) = count - 1
    BY <1>2, <1>3, FS_RemoveElement DEF count
  <1>6. \A d \in Held(y.lru) : d # e => rank[e] < rank[d]
    BY <1>1, EndsAreExtreme DEF e
  <1>7. \A d \in Held(x.lru) : rank[d] \in Nat
    BY DEF Held, Ordered
  <1>8. ASSUME NEW a \in Held(z.lru) PROVE Newer(x.lru, rank, a) \subseteq Held(z.lru)
    <2>1. a \in Held(y.lru) /\ a # e /\ rank[e] < rank[a]
      BY <1>4, <1>6
    <2>2. Newer(x.lru, rank, a) \subseteq Held(y.lru)
      BY <2>1 DEF OldestGone
    <2>3. e \notin Newer(x.lru, rank, a)
      BY <1>1, <1>3, <1>7, <2>1 DEF Newer
    <2>4. QED BY <1>4, <2>2, <2>3
  <1>9. Newer(x.lru, rank, e) = Held(y.lru) \ {e}
    <2>1. Newer(x.lru, rank, e) \subseteq Held(y.lru)
      BY <1>3 DEF OldestGone
    <2>2. e \notin Newer(x.lru, rank, e)
      BY <1>1, <1>3, <1>7 DEF Newer
    <2>3. Held(y.lru) \ {e} \subseteq Newer(x.lru, rank, e)
      BY <1>1, <1>6 DEF Newer
    <2>4. QED BY <2>1, <2>2, <2>3
  <1>10. ASSUME NEW a \in Held(x.lru) \ Held(z.lru) PROVE Cardinality(Newer(x.lru, rank, a)) >= Keep
    <2>1. CASE a = e
      BY <1>2, <1>5, <1>9, <2>1
    <2>2. CASE a # e
      BY <1>4, <2>2 DEF OldestGone
    <2>3. QED BY <2>1, <2>2
  <1>11. Slimmer(z, x)
    BY <1>1, <1>4, SlimmerStill
  <1>12. QED BY <1>4, <1>5, <1>8, <1>10, <1>11 DEF OldestGone, z, count

LEMMA PruneKeepsNewest ==
  ASSUME NEW x \in TreeType, NEW rank, Ordered(x.lru, rank), Holds(x)
  PROVE  LET y == Prune(x)
         IN  /\ Slimmer(y, x) /\ Ordered(y.lru, rank)
             /\ Held(y.lru) = NewestHeld(x.lru, rank)
  <1> DEFINE N == Cardinality(Entries)
             Few(y, k) == Cardinality(Held(y.lru)) <= Keep \/ Cardinality(Held(y.lru)) <= N - k
  <1>0. N \in Nat /\ Keep \in Nat
    BY EntriesAreCounted, BoundsAreNatural
  <1>1. PICK Freed : /\ Freed[0] = x
                     /\ \A k \in 0 .. N - 1 :
                          Freed[k + 1] = IF CachedPictures(Freed[k]) > Keep THEN FreeFirst(Freed[k]) ELSE Freed[k]
                     /\ Prune(x) = Freed[N]
    BY ONLY PruneSteps
  <1> DEFINE S == {k \in 0 .. N : OldestGone(Freed[k], x, rank) /\ Few(Freed[k], k)}
  <1>2. 0 \in S
    <2>1. Slimmer(x, x)
      BY DEF Slimmer, Holds
    <2>2. \A a \in Held(x.lru) : Newer(x.lru, rank, a) \subseteq Held(x.lru)
      BY DEF Newer
    <2>3. OldestGone(x, x, rank)
      BY <2>1, <2>2 DEF OldestGone
    <2>4. Few(x, 0)
      BY <1>0, HeldAreCounted
    <2>5. QED BY <1>0, <1>1, <2>3, <2>4
  <1>3. ASSUME NEW k \in 0 .. N - 1, k \in S PROVE k + 1 \in S
    <2> DEFINE y == Freed[k]
    <2>1. OldestGone(y, x, rank) /\ Few(y, k) /\ k + 1 \in 0 .. N
      BY <1>0, <1>3
    <2> HIDE DEF y
    <2>2. CachedPictures(y) = Cardinality(Held(y.lru)) /\ Cardinality(Held(y.lru)) \in Nat
      BY <1>0, <2>1, FewAreHeld
    <2>3. CASE CachedPictures(y) > Keep
      <3>1. /\ OldestGone(FreeFirst(y), x, rank)
            /\ Cardinality(Held(FreeFirst(y).lru)) = Cardinality(Held(y.lru)) - 1
        BY <2>1, <2>3, OneMoreGone
      <3>2. Few(FreeFirst(y), k + 1)
        BY <1>0, <2>1, <2>2, <2>3, <3>1
      <3>3. Freed[k + 1] = FreeFirst(y)
        BY <1>1, <2>3 DEF y
      <3>4. QED BY <2>1, <3>1, <3>2, <3>3
    <2>4. CASE ~(CachedPictures(y) > Keep)
      <3>1. Few(y, k + 1)
        BY <1>0, <2>2, <2>4
      <3>2. Freed[k + 1] = y
        BY <1>1, <2>4 DEF y
      <3>3. QED BY <2>1, <3>1, <3>2
    <2>5. QED BY <2>3, <2>4
  <1> DEFINE y == Prune(x)
  <1>4. N \in S
    <2> HIDE DEF S, N
    <2>1. N \in 0 .. N
      BY <1>0
    <2>2. QED BY <1>0, <1>2, <1>3, <2>1, UpTo
  <1>5. OldestGone(y, x, rank) /\ Few(y, N)
    BY <1>1, <1>4
  <1> HIDE DEF y
  <1>6. Cardinality(Held(y.lru)) \in Nat /\ Cardinality(Held(y.lru)) <= Keep
    <2>1. Cardinality(Held(y.lru)) \in 0 .. N
      BY <1>5, FewAreHeld
    <2>2. QED BY <1>0, <1>5, <2>1
  <1>7. IsFiniteSet(Held(y.lru))
    BY <1>5, HeldAreCounted DEF OldestGone
  <1>8. Held(y.lru) \subseteq Held(x.lru)
    BY <1>5 DEF OldestGone, Slimmer
  <1>9. ASSUME NEW a \in Held(y.lru) PROVE Cardinality(Newer(x.lru, rank, a)) < Keep
    <2> DEFINE more == Newer(x.lru, rank, a)
               others == Held(y.lru) \ {a}
    <2>1. a \notin more /\ more \subseteq others
      <3>1. more \subseteq Held(y.lru)
        BY <1>5 DEF OldestGone
      <3>2. rank[a] \in Nat
        BY DEF Ordered, Held
      <3>3. a \notin more
        BY <3>2 DEF Newer
      <3>4. QED BY <3>1, <3>3
    <2> HIDE DEF more
    <2>2. IsFiniteSet(others) /\ Cardinality(others) = Cardinality(Held(y.lru)) - 1
      BY <1>7, FS_RemoveElement
    <2> HIDE DEF others
    <2>3. IsFiniteSet(more) /\ Cardinality(more) <= Cardinality(others)
      BY <2>1, <2>2, FS_Subset
    <2>4. Cardinality(more) \in Nat
      BY <2>3, FS_CardinalityType
    <2>5. Cardinality(more) < Keep
      BY <1>0, <1>6, <2>2, <2>3, <2>4
    <2>6. QED BY <2>5 DEF more
  <1>10. ASSUME NEW a \in Held(x.lru) \ Held(y.lru) PROVE ~(Cardinality(Newer(x.lru, rank, a)) < Keep)
    <2>1. Newer(x.lru, rank, a) \subseteq Held(x.lru) /\ IsFiniteSet(Held(x.lru))
      BY HeldAreCounted DEF Newer
    <2>2. Cardinality(Newer(x.lru, rank, a)) \in Nat
      BY <2>1, FS_Subset, FS_CardinalityType
    <2>3. Cardinality(Newer(x.lru, rank, a)) >= Keep
      BY <1>5 DEF OldestGone
    <2>4. QED BY <1>0, <2>2, <2>3
  <1>11. Held(y.lru) = NewestHeld(x.lru, rank)
    BY <1>8, <1>9, <1>10 DEF NewestHeld
  <1>12. QED BY <1>5, <1>11 DEF OldestGone, y

\* A download used: m is what l leaves of it, with e as the newest.
UsedLast(m, l, rank, e) ==
  LET others == NewestHeld(l, rank) \ {e}
  IN  \E higher \in [Entries -> Nat] :
        /\ Ordered(m, higher)
        /\ Held(m) = others \cup {e}
        /\ Before(m, higher) = (Before(l, rank) \cap (others \X others)) \cup (others \X {e})

LEMMA AttachIsUse ==
  ASSUME NEW x, Sound(x), NEW rank, Ordered(x.lru, rank), NEW e \in x.files
  PROVE  UsedLast(Attach(x, e).lru, x.lru, rank, e)
  <1> DEFINE y == Prune(x)
             l == Unlink(e, y.lru)
             m == AddLast(e, l)
             z == Update(x, e)
             a == Attach(x, e)
             others == NewestHeld(x.lru, rank) \ {e}
  <1>1. x \in TreeType /\ Holds(x) /\ e \in Entries /\ rank \in [Entries -> Nat]
    BY DEF Sound, TreeType, Ordered
  <1>2. y \in TreeType /\ Ordered(y.lru, rank) /\ Held(y.lru) = NewestHeld(x.lru, rank)
    <2>1. Slimmer(y, x) /\ Ordered(y.lru, rank) /\ Held(y.lru) = NewestHeld(x.lru, rank)
      BY <1>1, PruneKeepsNewest
    <2>2. QED BY <2>1 DEF Slimmer
  <1> HIDE DEF y
  <1>3. Ordered(l, rank) /\ Held(l) = others
    BY <1>1, <1>2, UnlinkTakesOff
  <1>4. e \notin Held(l) /\ Held(l) \subseteq Entries
    BY <1>3 DEF Held
  <1> HIDE DEF l
  <1>5. /\ Held(m) = Held(l) \cup {e}
        /\ \E higher \in [Entries -> Nat] :
             /\ Ordered(m, higher)
             /\ \A d \in Entries \ {e} : higher[d] = rank[d]
             /\ l.first # Nil => higher[l.last] < higher[e]
    BY <1>1, <1>3, <1>4, AddLastOrders
  <1>6. PICK higher \in [Entries -> Nat] :
          /\ Ordered(m, higher)
          /\ \A d \in Entries \ {e} : higher[d] = rank[d]
          /\ l.first # Nil => higher[l.last] < higher[e]
    BY <1>5
  <1>7. m \in ListType /\ Linked(m)
    BY <1>6 DEF Ordered, Linked
  <1>8. z = [y EXCEPT !.lru = m]
    BY DEF Update, y, l
  <1> HIDE DEF m, z
  <1>9. z.lru = m /\ z \in TreeType
    BY <1>2, <1>7, <1>8 DEF TreeType
  <1>10. a = [z EXCEPT !.normal[e] = "current"]
    <2>1. ListIntact(z.lru)
      BY <1>7, <1>9, LinkedIsIntact
    <2>2. QED BY <2>1 DEF Attach, z
  <1> HIDE DEF a
  <1>11. a.lru = m
    BY <1>9, <1>10 DEF TreeType
  <1> HIDE DEF others
  <1>12. ASSUME NEW d \in others PROVE d # e /\ higher[d] = rank[d] /\ higher[d] < higher[e]
    <2>1. d \in Held(l) /\ d # e /\ d \in Entries
      BY <1>3, <1>4
    <2>2. /\ l.first # Nil
          /\ d # l.last => rank[d] < rank[l.last]
      BY <1>3, <2>1, EndsAreExtreme
    <2>3. l.last \in Held(l) /\ l.last # e /\ l.last \in Entries
      BY <1>3, <1>4, <2>2 DEF Ordered
    <2>4. higher[d] = rank[d] /\ higher[l.last] = rank[l.last] /\ higher[l.last] < higher[e]
      BY <1>6, <2>1, <2>2, <2>3
    <2>5. higher[d] \in Nat /\ higher[l.last] \in Nat /\ higher[e] \in Nat
      BY <1>1, <2>1, <2>3
    <2>6. CASE d = l.last
      BY <2>1, <2>4, <2>6
    <2>7. CASE d # l.last
      BY <2>1, <2>2, <2>4, <2>5, <2>7
    <2>8. QED BY <2>6, <2>7
  <1>13. Held(m) = others \cup {e}
    BY <1>3, <1>5
  <1>14. others \subseteq Held(x.lru) /\ e \notin others
    BY DEF others, NewestHeld
  <1>15. ASSUME NEW c \in Held(m), NEW d \in Held(m)
         PROVE  higher[c] < higher[d] <=> c \in others /\ (d = e \/ (d \in others /\ rank[c] < rank[d]))
    <2>1. higher[c] \in Nat /\ higher[d] \in Nat
      BY DEF Held
    <2>2. CASE c \in others /\ d \in others
      BY <1>12, <1>14, <2>2
    <2>3. CASE c \in others /\ d = e
      BY <1>12, <2>3
    <2>4. CASE c = e /\ d \in others
      BY <1>12, <1>14, <2>1, <2>4
    <2>5. CASE c = e /\ d = e
      BY <1>14, <2>1, <2>5
    <2>6. QED BY <1>13, <2>2, <2>3, <2>4, <2>5
  <1>16. Before(m, higher) = (Before(x.lru, rank) \cap (others \X others)) \cup (others \X {e})
    <2>1. ASSUME NEW q \in Before(m, higher)
          PROVE  q \in (Before(x.lru, rank) \cap (others \X others)) \cup (others \X {e})
      <3>1. PICK c \in Held(m), d \in Held(m) : q = <<c, d>> /\ higher[c] < higher[d]
        BY DEF Before
      <3>2. c \in others /\ (d = e \/ (d \in others /\ rank[c] < rank[d]))
        BY <1>15, <3>1
      <3>3. QED BY <1>14, <3>1, <3>2 DEF Before
    <2>2. ASSUME NEW q \in (Before(x.lru, rank) \cap (others \X others)) \cup (others \X {e})
          PROVE  q \in Before(m, higher)
      <3>1. PICK c \in others, d \in others \cup {e} : q = <<c, d>>
        OBVIOUS
      <3>2. d = e \/ (d \in others /\ rank[c] < rank[d])
        BY <3>1 DEF Before
      <3>3. higher[c] < higher[d]
        BY <1>13, <1>15, <3>2
      <3>4. QED BY <1>13, <3>1, <3>3 DEF Before
    <2>3. QED BY <2>1, <2>2
  <1>17. QED BY <1>6, <1>11, <1>13, <1>16 DEF UsedLast, a, others

-----------------------------------------------------------------------------
(* What the other calls do to the list.  Some held files go and the order   *)
(* of the others stays (Trims).  A listing lets go only of files whose      *)
(* folder, or a folder above it, is dirty, and none of the files it keeps   *)
(* becomes doubtful by it (Guarded): D are the files that may go.           *)

Doubt(x) ==
  {e \in Entries : \/ e[1] \in x.filesDirty
                   \/ \E p \in x.foldersDirty : e[1] \in Below(p)}

Trims(m, l) == Held(m) \subseteq Held(l) /\ \A rank : Ordered(l, rank) => Ordered(m, rank)

Guarded(x, D) == Sound(x) /\ Doubt(x) \cap Held(x.lru) \subseteq D

LosesOnly(y, x, D) ==
  /\ Guarded(y, D)
  /\ Trims(y.lru, x.lru)
  /\ Held(x.lru) \ Held(y.lru) \subseteq D

LEMMA LosesNothing ==
  ASSUME NEW x, NEW D, Guarded(x, D)
  PROVE  LosesOnly(x, x, D)
  BY DEF LosesOnly, Trims

LEMMA LosesStep ==
  ASSUME NEW x, NEW y, NEW z, NEW D, LosesOnly(y, x, D), LosesOnly(z, y, D)
  PROVE  LosesOnly(z, x, D)
  BY DEF LosesOnly, Trims

LEMMA HeldInFolders ==
  ASSUME NEW x, Sound(x), NEW e \in Held(x.lru)
  PROVE  e \in Entries /\ e \in x.files /\ e[1] \in Paths /\ e[1] \in x.folders
  BY EntryParts DEF Sound, Holds, Rooted, Held

LEMMA BelowBelow ==
  ASSUME NEW p \in Paths, NEW q \in Paths, NEW r \in Paths, r \in Below(q), q \in Below(p)
  PROVE  r \in Below(p)
  <1>1. PICK k \in 0 .. Len(r) - 1 : q = Way(r, k)
    BY BelowIsOnWay
  <1>2. PICK j \in 0 .. Len(q) - 1 : p = Way(q, j)
    BY BelowIsOnWay
  <1>3. Len(r) \in Nat
    BY PathType
  <1>4. k \in 0 .. Len(r) /\ Len(q) = k
    BY <1>1, <1>3, WayType
  <1>5. j \in 0 .. k /\ j \in 0 .. Len(r) - 1
    BY <1>2, <1>3, <1>4
  <1>6. p = Way(r, j)
    BY <1>1, <1>2, <1>4, <1>5, WayOfWay
  <1>7. QED BY <1>5, <1>6, BelowIsOnWay

LEMMA DropTrims ==
  ASSUME NEW x, Sound(x), NEW gone \in SUBSET Entries
  PROVE  LET m == DropEntries(x, gone).lru
         IN  Held(m) = Held(x.lru) \ gone /\ Trims(m, x.lru)
  <1> DEFINE linked == {e \in gone : x.lru.prev[e] # Nil}
             m == FoldSet(Unlink, x.lru, linked)
             y == DropEntries(x, gone)
  <1>1. x \in TreeType
    BY DEF Sound
  <1>2. y.lru = m
    BY <1>1 DEF DropEntries, TreeType
  <1>3. linked \in SUBSET Entries
    OBVIOUS
  <1> HIDE DEF m
  <1>4. Held(x.lru) \ linked = Held(x.lru) \ gone
    BY DEF Held
  <1> HIDE DEF linked
  <1>5. ASSUME NEW rank, Ordered(x.lru, rank) PROVE Ordered(m, rank) /\ Held(m) = Held(x.lru) \ linked
    BY <1>3, <1>5, FoldTakesOff DEF m
  <1>6. PICK rank : Ordered(x.lru, rank)
    BY DEF Sound, Holds, Linked
  <1>7. Held(m) = Held(x.lru) \ gone
    BY <1>4, <1>5, <1>6
  <1>8. QED BY <1>2, <1>5, <1>7 DEF Trims

LEMMA LoadFoldersLoses ==
  ASSUME NEW x, NEW D, Guarded(x, D), NEW p \in Paths, NEW w, CameraHolds(device)
  PROVE  LosesOnly(LoadFolders(x, p, w), x, D)
  <1> DEFINE y == LoadFolders(x, p, w)
             gone == UNION {In(q) : q \in x.folders \cap Below(p)}
             others == x.folders \ Below(p)
             listed == {q \in device.dirs : q # Root /\ Front(q) = p}
  <1>1. Sound(x) /\ x \in TreeType
    BY DEF Guarded, Sound
  <1>2. CASE p \notin x.foldersDirty \/ p \in w.folders
    BY <1>2, LosesNothing DEF LoadFolders
  <1>3. CASE p \in x.foldersDirty /\ p \notin w.folders
    <2>1. /\ Sound(y)
          /\ y.foldersDirty = ((x.foldersDirty \cap others) \ {p}) \cup listed
          /\ y.filesDirty = (x.filesDirty \cap others) \cup listed
          /\ y.files = {e \in x.files : e[1] \in others}
          /\ p \in others /\ others \cap listed = {}
      BY <1>1, <1>3, LoadFoldersIs
    <2>2. gone \in SUBSET Entries /\ \A e \in Entries : e \in gone <=> e[1] \in x.folders \cap Below(p)
      <3>1. x.folders \cap Below(p) \in SUBSET Paths
        BY <1>1 DEF TreeType
      <3>2. \A e \in Entries : e \in gone <=> e[1] \in x.folders \cap Below(p)
        BY <3>1, TreeFiles
      <3>3. \A q \in Paths : In(q) \subseteq Entries
        BY InIs
      <3>4. QED BY <3>1, <3>2, <3>3
    <2>3. y.lru = DropEntries(x, gone).lru
      <3>1. DropEntries(x, gone) \in TreeType
        BY <1>1, <2>2, DropIs DEF Sound
      <3> HIDE DEF gone
      <3>2. QED BY <1>3, <3>1 DEF LoadFolders, TreeType, gone
    <2> HIDE DEF y, gone, listed
    <2>4. Held(y.lru) = Held(x.lru) \ gone /\ Trims(y.lru, x.lru)
      BY <1>1, <2>2, <2>3, DropTrims
    <2>5. ASSUME NEW e \in Held(x.lru), e \in gone PROVE e \in D
      <3>1. e \in Entries /\ e[1] \in Below(p)
        BY <1>1, <2>2, <2>5, HeldInFolders
      <3>2. QED BY <1>3, <2>5, <3>1 DEF Doubt, Guarded
    <2>6. ASSUME NEW e \in Held(y.lru), e \in Doubt(y) PROVE e \in D
      <3>1. e \in Held(x.lru) /\ e \in Entries /\ e[1] \in others /\ e[1] \in Paths
        BY <2>1, <2>4, HeldInFolders
      <3>2. CASE e[1] \in y.filesDirty
        <4>1. e[1] \in x.filesDirty
          BY <2>1, <3>1, <3>2
        <4>2. QED BY <3>1, <4>1 DEF Doubt, Guarded
      <3>3. CASE e[1] \notin y.filesDirty
        <4>1. PICK q \in y.foldersDirty : e[1] \in Below(q)
          BY <2>6, <3>3 DEF Doubt
        <4>2. CASE q \in x.foldersDirty
          BY <3>1, <4>1, <4>2 DEF Doubt, Guarded
        <4>3. CASE q \in listed
          <5>1. q \in Paths /\ q # Root /\ Front(q) = p
            BY <4>3 DEF listed, CameraHolds
          <5>2. q \in Below(p)
            BY <5>1, BelowByParent
          <5>3. e[1] \in Below(p)
            BY <3>1, <4>1, <5>1, <5>2, BelowBelow
          <5>4. QED BY <3>1, <5>3
        <4>4. QED BY <2>1, <4>1, <4>2, <4>3
      <3>4. QED BY <3>2, <3>3
    <2>7. QED BY <2>1, <2>4, <2>5, <2>6 DEF LosesOnly, Guarded, y
  <1>4. QED BY <1>2, <1>3

LEMMA LookupLoses ==
  ASSUME NEW x, NEW D, Guarded(x, D), NEW p \in Paths, NEW w, CameraHolds(device)
  PROVE  LosesOnly(Lookup(x, p, w), x, D)
  <1>0. Len(p) \in Nat
    BY PathType
  <1>1. PICK Clean : /\ Clean[0] = x
                     /\ \A k \in 0 .. Len(p) - 1 : Clean[k + 1] = LoadFolders(Clean[k], Way(p, k), w)
                     /\ Lookup(x, p, w) = Clean[Len(p)]
    BY ONLY p \in Paths, LookupSteps
  <1> DEFINE N == Len(p)
             S == {k \in 0 .. N : LosesOnly(Clean[k], x, D)}
  <1>2. 0 \in S
    BY <1>0, <1>1, LosesNothing
  <1>3. ASSUME NEW k \in 0 .. N - 1, k \in S PROVE k + 1 \in S
    <2>1. k \in 0 .. N /\ k + 1 \in 0 .. N
      BY <1>0
    <2>2. LosesOnly(Clean[k], x, D) /\ Guarded(Clean[k], D)
      BY <1>3 DEF LosesOnly
    <2>3. Way(p, k) \in Paths
      BY <2>1, WayType
    <2>4. LosesOnly(LoadFolders(Clean[k], Way(p, k), w), Clean[k], D)
      BY <2>2, <2>3, LoadFoldersLoses
    <2>5. LosesOnly(Clean[k + 1], x, D)
      BY <1>1, <2>2, <2>4, LosesStep
    <2>6. QED BY <2>1, <2>5
  <1>4. N \in S
    <2> HIDE DEF S, N
    <2>1. N \in Nat /\ N \in 0 .. N
      BY <1>0 DEF N
    <2>2. QED BY <1>2, <1>3, <2>1, UpTo
  <1>5. QED BY <1>1, <1>4

LEMMA LoadFilesLoses ==
  ASSUME NEW x, NEW D, Guarded(x, D), NEW p \in Paths, NEW stored \in SUBSET Entries, NEW w
  PROVE  LosesOnly(LoadFilesFrom(stored, x, p, w), x, D)
  <1> DEFINE y == LoadFilesFrom(stored, x, p, w)
  <1>1. Sound(x) /\ x \in TreeType /\ In(p) \in SUBSET Entries /\ \A e \in Entries : e \in In(p) <=> e[1] = p
    BY InIs DEF Guarded, Sound
  <1>2. CASE p \notin x.filesDirty
    BY <1>2, LosesNothing DEF LoadFilesFrom
  <1>3. CASE p \in x.filesDirty
    <2>1. Sound(y) /\ y.foldersDirty = x.foldersDirty /\ y.filesDirty = x.filesDirty \ {p}
      <3>1. FilesLoaded(y, x, p, stored, w)
        BY <1>1, <1>3, LoadFilesIs
      <3>2. QED BY <3>1 DEF FilesLoaded
    <2>2. y.lru = DropEntries(x, In(p)).lru
      <3>1. DropEntries(x, In(p)) \in TreeType
        BY <1>1, DropIs DEF Sound
      <3>2. QED BY <1>3, <3>1 DEF LoadFilesFrom, TreeType
    <2> HIDE DEF y
    <2>3. Held(y.lru) = Held(x.lru) \ In(p) /\ Trims(y.lru, x.lru)
      BY <1>1, <2>2, DropTrims
    <2>4. ASSUME NEW e \in Held(x.lru), e \in In(p) PROVE e \in D
      <3>1. e \in Entries /\ e[1] \in x.filesDirty
        BY <1>1, <1>3, <2>4, HeldInFolders
      <3>2. QED BY <2>4, <3>1 DEF Doubt, Guarded
    <2>5. Doubt(y) \subseteq Doubt(x)
      BY <2>1 DEF Doubt
    <2>6. QED BY <2>1, <2>3, <2>4, <2>5 DEF LosesOnly, Guarded, y
  <1>4. QED BY <1>2, <1>3

LEMMA ListedLoses ==
  ASSUME NEW x, NEW D, Guarded(x, D), NEW p \in Paths, NEW w, CameraHolds(device)
  PROVE  LosesOnly(Listed(x, p, w), x, D)
  <1> DEFINE y == Lookup(x, p, w)
  <1>1. LosesOnly(y, x, D)
    BY LookupLoses
  <1>2. Guarded(y, D) /\ device.files \in SUBSET Entries
    BY <1>1 DEF LosesOnly, CameraHolds
  <1> HIDE DEF y
  <1>3. LosesOnly(LoadFilesFrom(device.files, y, p, w), y, D)
    BY <1>2, LoadFilesLoses
  <1>4. QED BY <1>1, <1>3, LosesStep DEF Listed, LoadFiles, y

LEMMA NewFolderLoses ==
  ASSUME NEW x, NEW D, Guarded(x, D), NEW q \in Paths \ x.folders, q # Root, Front(q) \in x.folders
  PROVE  LosesOnly(NewFolder(x, q), x, D)
  <1> DEFINE y == NewFolder(x, q)
  <1>1. Sound(x) /\ x \in TreeType
    BY DEF Guarded, Sound
  <1>2. /\ y \in TreeType /\ y.lru = x.lru /\ y.folders = x.folders \cup {q}
        /\ y.foldersDirty = x.foldersDirty \cup {q} /\ y.filesDirty = x.filesDirty \cup {q}
        /\ y.unread = x.unread /\ y.files = x.files /\ y.normal = x.normal /\ y.info = x.info
        /\ y.twice = IF q \in x.folders THEN x.twice \cup {q} ELSE x.twice
    BY <1>1 DEF NewFolder, TreeType
  <1> HIDE DEF y
  <1>3. Rooted(y)
    BY <1>1, <1>2 DEF Sound, Rooted
  <1>4. Sound(y)
    BY <1>1, <1>2, <1>3, SoundAgain
  <1>5. ASSUME NEW e \in Held(x.lru), e \in Doubt(y) PROVE e \in Doubt(x)
    <2>1. e \in Entries /\ e[1] \in x.folders /\ e[1] \in Paths
      BY <1>1, HeldInFolders
    <2>2. e[1] \notin Below(q)
      <3>1. SUFFICES ASSUME e[1] \in Below(q) PROVE FALSE
        OBVIOUS
      <3>2. PICK k \in 0 .. Len(e[1]) - 1 : q = Way(e[1], k)
        BY <2>1, <3>1, BelowIsOnWay
      <3>3. k \in 0 .. Len(e[1])
        BY <2>1, <3>2, PathType
      <3>4. Way(e[1], k) \in x.folders
        BY <1>1, <2>1, <3>3, TreeHasWay
      <3>5. QED BY <3>2, <3>4
    <2>3. QED BY <1>2, <1>5, <2>1, <2>2 DEF Doubt
  <1>6. QED BY <1>2, <1>4, <1>5 DEF LosesOnly, Guarded, Trims, y

\* The entry is made in the end, and that concerns no list.
LEMMA AppendLoses ==
  ASSUME NEW x, NEW D, Guarded(x, D), NEW h, NEW n, Current(x, device, h, n), CameraHolds(device),
         NEW e \in Entries, NEW w, e[1] \in device.dirs, e \in device.files \cup h
  PROVE  LosesOnly(AppendFile(x, e, w), x, D)
  <1> DEFINE p == e[1]
             y == Lookup(x, p, w)
             f == Appended(y, p)
             z == IF p \in y.folders THEN y ELSE NewFolder(y, f)
             filled == IF f \in z.filesDirty THEN Listed(z, p, w) ELSE z
             a == AppendFile(x, e, w)
  <1>1. p \in Paths /\ Sound(a)
    BY EntryParts, AppendCurrent DEF Current
  <1>2. LosesOnly(y, x, D) /\ Guarded(y, D) /\ Sound(y)
    BY <1>1, LookupLoses DEF LosesOnly, Guarded
  <1>3. a = IF f \in z.filesDirty /\ ~ListsFiles(z, p, w) THEN filled
            ELSE [filled EXCEPT !.files = @ \cup {<<f, e[2]>>}]
    BY DEF AppendFile
  <1> HIDE DEF a, y
  <1>4. LosesOnly(z, y, D)
    <2>1. CASE p \in y.folders
      BY <1>2, <2>1, LosesNothing
    <2>2. CASE p \notin y.folders
      <3>1. PICK k \in 0 .. Len(p) - 1 :
              f = Way(p, k + 1) /\ f \notin y.folders /\ Way(p, k) \in y.folders
        BY <1>1, <1>2, <2>2, AppendedIs
      <3>2. k + 1 \in 1 .. Len(p) /\ (k + 1) - 1 = k
        BY <1>1, PathType
      <3>3. f \in Paths /\ f # Root /\ Front(f) \in y.folders
        BY <1>1, <3>1, <3>2, WayParent
      <3> HIDE DEF f
      <3>4. LosesOnly(NewFolder(y, f), y, D)
        BY <1>2, <3>1, <3>3, NewFolderLoses
      <3>5. QED BY <2>2, <3>4
    <2>3. QED BY <2>1, <2>2
  <1> HIDE DEF z, f
  <1>5. Guarded(z, D)
    BY <1>4 DEF LosesOnly
  <1>6. LosesOnly(filled, z, D)
    BY <1>1, <1>5, ListedLoses, LosesNothing
  <1> HIDE DEF filled
  <1>7. LosesOnly(filled, x, D)
    BY <1>2, <1>4, <1>6, LosesStep
  <1>8. a.lru = filled.lru /\ a.filesDirty = filled.filesDirty /\ a.foldersDirty = filled.foldersDirty
    BY <1>3, <1>7 DEF LosesOnly, Guarded, Sound, TreeType
  <1>9. Doubt(a) = Doubt(filled)
    BY <1>8 DEF Doubt
  <1>10. QED BY <1>1, <1>7, <1>8, <1>9 DEF LosesOnly, Guarded, a

-----------------------------------------------------------------------------
(* The steps that use no download only take files off the list.             *)

LEMMA TrimsStep ==
  ASSUME NEW l, NEW m, NEW k, Trims(m, l), Trims(k, m)
  PROVE  Trims(k, l)
  BY DEF Trims

LEMMA TrimsSelf == \A l : Trims(l, l)
  BY DEF Trims

LEMMA EmptyTrims ==
  ASSUME NEW l
  PROVE  Trims(EmptyList, l)
  <1>1. Ordered(EmptyList, [e \in Entries |-> 0]) /\ Held(EmptyList) = {}
    BY EmptyOrdered
  <1>2. EmptyList.first = Nil
    BY DEF EmptyList
  <1>3. ASSUME NEW rank, Ordered(l, rank) PROVE Ordered(EmptyList, rank)
    BY <1>1, <1>2, <1>3 DEF Ordered
  <1>4. QED BY <1>1, <1>3 DEF Trims

LEMMA SettledIsGuarded ==
  ASSUME Settled
  PROVE  /\ Guarded(fs, Doubtful) /\ Sound(fs) /\ fs \in TreeType
         /\ CameraHolds(device) /\ device.files \in SUBSET Entries
         /\ Current(fs, device, host, news)
  <1>1. Doubt(fs) \subseteq Doubtful
    BY DEF Doubt, Doubtful, Below
  <1>2. QED BY <1>1 DEF Settled, Current, Guarded, Sound, CameraHolds

LEMMA LosesTrims ==
  ASSUME NEW x, NEW y, NEW D, LosesOnly(y, x, D)
  PROVE  Guarded(y, D) /\ Sound(y) /\ y \in TreeType /\ Trims(y.lru, x.lru)
  BY DEF LosesOnly, Guarded, Sound

LEMMA InfoKeepsList ==
  ASSUME NEW x \in TreeType, NEW e, NEW i
  PROVE  WithInfo(x, e, i).lru = x.lru
  BY DEF WithInfo, TreeType

\* A call that uses no download lets go of files of D at most.
LetsGo(D) == Trims(fs'.lru, fs.lru) /\ Held(fs.lru) \ Held(fs'.lru) \subseteq D

Keeps == LetsGo(Doubtful \cup (Entries \ fs'.files)) \/ \E p \in Paths : LetsGo(Doubtful \cup In(p))

LEMMA LostKeepsList ==
  ASSUME NEW x \in TreeType, NEW e
  PROVE  Lost(x, e).lru = x.lru
  <1>1. Outdated(x, e).lru = x.lru /\ Outdated(x, e).lost = x.lost
    BY DEF Outdated, TreeType
  <1>2. Lost(x, e).lru = Outdated(x, e).lru
    BY DEF Lost, Outdated, TreeType
  <1>3. QED BY <1>1, <1>2

LEMMA ListedKeeps ==
  ASSUME NEW x, LosesOnly(x, fs, Doubtful), fs'.lru = x.lru
  PROVE  Keeps
  BY DEF LosesOnly, Keeps, LetsGo

LEMMA DropLetsGo ==
  ASSUME NEW x, NEW D, LosesOnly(x, fs, D), NEW gone \in SUBSET Entries, fs'.lru = DropEntries(x, gone).lru
  PROVE  LetsGo(D \cup gone)
  <1>1. Held(fs'.lru) = Held(x.lru) \ gone /\ Trims(fs'.lru, x.lru)
    BY LosesTrims, DropTrims
  <1>2. Trims(fs'.lru, fs.lru) /\ Held(fs.lru) \ Held(x.lru) \subseteq D
    BY <1>1, TrimsStep DEF LosesOnly
  <1>3. QED BY <1>1, <1>2 DEF LetsGo

LEMMA DropKeeps ==
  ASSUME NEW x, LosesOnly(x, fs, Doubtful), NEW gone \in SUBSET Entries, fs'.lru = DropEntries(x, gone).lru,
         gone \cap fs'.files = {}
  PROVE  Keeps
  <1>1. LetsGo(Doubtful \cup gone)
    BY DropLetsGo
  <1>2. QED BY <1>1 DEF LetsGo, Keeps

LEMMA ListingKeeps ==
  ASSUME Settled, NEW p \in Paths, NEW w, LookupFolder(p, w) \/ ListFiles(p, w) \/ ListFolders(p, w)
  PROVE  Keeps
  <1> DEFINE x == Lookup(fs, p, w)
  <1>1. LosesOnly(x, fs, Doubtful)
    BY SettledIsGuarded, LookupLoses
  <1>2. LosesOnly(Listed(fs, p, w), fs, Doubtful)
    BY SettledIsGuarded, ListedLoses
  <1>3. fs' \in {x, LoadFolders(x, p, w), Listed(fs, p, w)}
    BY DEF LookupFolder, ListFiles, ListFolders, Leaves
  <1> HIDE DEF x
  <1>4. LosesOnly(LoadFolders(x, p, w), x, Doubtful)
    BY <1>1, SettledIsGuarded, LosesTrims, LoadFoldersLoses
  <1>5. LosesOnly(LoadFolders(x, p, w), fs, Doubtful)
    BY <1>1, <1>4, LosesStep
  <1>6. LosesOnly(fs', fs, Doubtful)
    BY <1>1, <1>2, <1>3, <1>5
  <1>7. QED BY <1>6, ListedKeeps

LEMMA DeleteAllKeeps ==
  ASSUME Settled, NEW p \in Paths, NEW w, DeleteAll(p, w)
  PROVE  Keeps
  <1> DEFINE u == Lookup(fs, p, w)
             x == MarkDirty(u, p)
             mine == device.files \cap In(p)
             gone == [DropEntries(x, In(p)) EXCEPT !.filesDirty = @ \ {p}]
             D == Doubtful \cup In(p)
  <1>1. LosesOnly(u, fs, Doubtful) /\ Current(u, device, host, news)
    BY SettledIsGuarded, LookupLoses, LookupCurrent
  <1>2. /\ p \in u.folders
        /\ \/ Leaves(gone)
           \/ \E first \in SUBSET mine, v \in {w, [w EXCEPT !.files = {p}]} :
                 LET y == LoadFilesFrom(device.files \ first, x, p, v)
                 IN  \E then \in SUBSET ((mine \cap y.files) \ first) :
                       \/ Leaves(DropEntries(y, then))
                       \/ \E e \in mine : Leaves(Lost(DropEntries(y, then), e))
    BY DEF DeleteAll
  <1> HIDE DEF u
  <1>3. In(p) \in SUBSET Entries /\ \A e \in Entries : e \in In(p) <=> e[1] = p
    BY InIs
  <1>4. /\ x.lru = u.lru /\ x.foldersDirty = u.foldersDirty /\ x.filesDirty = u.filesDirty \cup {p}
    BY <1>1, LosesTrims DEF MarkDirty, TreeType
  <1>5. Sound(x) /\ x \in TreeType
    BY <1>1, <1>2, MarkDirtyCurrent DEF Current, Sound
  <1> HIDE DEF x
  <1>6. Doubt(x) \subseteq Doubt(u) \cup In(p)
    BY <1>3, <1>4 DEF Doubt
  <1>7. LosesOnly(x, fs, D)
    BY <1>1, <1>4, <1>5, <1>6 DEF LosesOnly, Guarded
  <1> HIDE DEF D
  <1>8. SUFFICES LetsGo(D)
    BY DEF D, Keeps
  <1>9. CASE Leaves(gone)
    <2>1. DropEntries(x, In(p)) \in TreeType
      BY <1>3, <1>5, DropIs DEF Sound
    <2>2. fs'.lru = DropEntries(x, In(p)).lru
      BY <1>9, <2>1 DEF Leaves, TreeType
    <2>3. LetsGo(D \cup In(p))
      BY <1>3, <1>7, <2>2, DropLetsGo
    <2>4. QED BY <2>3 DEF D
  <1>10. ASSUME NEW first \in SUBSET mine, NEW v,
                NEW then \in SUBSET mine,
                LET z == DropEntries(LoadFilesFrom(device.files \ first, x, p, v), then)
                IN  Leaves(z) \/ \E e \in mine : Leaves(Lost(z, e))
         PROVE  LetsGo(D)
    <2> DEFINE stored == device.files \ first
               y == LoadFilesFrom(stored, x, p, v)
               z == DropEntries(y, then)
    <2>0. stored \in SUBSET Entries /\ then \in SUBSET Entries /\ (fs' = z \/ \E e : fs' = Lost(z, e))
      BY <1>10, SettledIsGuarded DEF Leaves
    <2> HIDE DEF stored
    <2>2. LosesOnly(y, x, D)
      BY <1>7, <2>0, LosesTrims, LoadFilesLoses
    <2>1. fs'.lru = z.lru
      <3>1. Sound(y)
        BY <2>2, LosesTrims
      <3> HIDE DEF y
      <3>2. z \in TreeType
        BY <2>0, <3>1, DropIs DEF Sound
      <3> HIDE DEF z
      <3>3. QED BY <2>0, <3>2, LostKeepsList
    <2> HIDE DEF y
    <2>3. LosesOnly(y, fs, D)
      BY <1>7, <2>2, LosesStep
    <2>4. LetsGo(D \cup then)
      BY <2>0, <2>1, <2>3, DropLetsGo
    <2>5. D \cup then = D
      BY DEF D
    <2>6. QED BY <2>4, <2>5
  <1>11. QED BY <1>2, <1>9, <1>10

LEMMA MakeDirKeeps ==
  ASSUME Settled, NEW p \in Paths, NEW name, NEW answered, NEW w, MakeDir(p, name, answered, w)
  PROVE  Keeps
  <1> DEFINE x == Lookup(fs, p, w)
  <1>1. LosesOnly(x, fs, Doubtful)
    BY SettledIsGuarded, LookupLoses
  <1>2. \E q : fs' = NewFolder(x, q) \/ fs' = [x EXCEPT !.lostDirs = @ \cup {q}]
    BY DEF MakeDir, Leaves
  <1> HIDE DEF x
  <1>3. x \in TreeType
    BY <1>1, LosesTrims
  <1>4. ASSUME NEW q PROVE NewFolder(x, q).lru = x.lru
    BY <1>3 DEF NewFolder, TreeType
  <1>5. fs'.lru = x.lru
    <2>1. PICK q : fs' = NewFolder(x, q) \/ fs' = [x EXCEPT !.lostDirs = @ \cup {q}]
      BY <1>2
    <2>2. CASE fs' = NewFolder(x, q)
      BY <1>4, <2>2
    <2>3. CASE fs' = [x EXCEPT !.lostDirs = @ \cup {q}]
      BY <1>3, <2>3 DEF TreeType
    <2>4. QED BY <2>1, <2>2, <2>3
  <1>6. QED BY <1>1, <1>5, ListedKeeps

LEMMA RemoveDirKeeps ==
  ASSUME Settled, NEW p \in Paths, NEW name, NEW w, RemoveDir(p, name, w)
  PROVE  Keeps
  <1> DEFINE u == Lookup(fs, p, w)
             x == LoadFolders(u, p, w)
             q == Append(p, name)
  <1>1. LosesOnly(u, fs, Doubtful)
    BY SettledIsGuarded, LookupLoses
  <1>2. /\ RemovableDir(x, q)
        /\ FolderDeleted(x, q) \/ \E tree : fs' = [x EXCEPT !.lostDirs = @ \cup tree]
    BY DEF RemoveDir, Leaves
  <1> HIDE DEF u
  <1>3. LosesOnly(x, u, Doubtful)
    BY <1>1, SettledIsGuarded, LosesTrims, LoadFoldersLoses
  <1>4. LosesOnly(x, fs, Doubtful)
    BY <1>1, <1>3, LosesStep
  <1> HIDE DEF x, q
  <1>5. Sound(x) /\ x \in TreeType /\ Trims(x.lru, fs.lru)
    BY <1>4, LosesTrims
  <1>6. In(q) \in SUBSET Entries
    BY <1>2, <1>5, InIs DEF RemovableDir, TreeType
  <1>7. DropEntries(x, In(q)) \in TreeType
    BY <1>5, <1>6, DropIs DEF Sound
  <1>8. CASE FolderDeleted(x, q)
    <2>1. DropEntries(x, In(q)).files = x.files \ In(q)
      BY <1>5, <1>6, DropIs
    <2>2. /\ WithoutFolder(x, q) \in TreeType
          /\ WithoutFolder(x, q).lru = DropEntries(x, In(q)).lru
          /\ WithoutFolder(x, q).files = DropEntries(x, In(q)).files
      BY <1>7 DEF WithoutFolder, TreeType
    <2>3. fs'.lru = WithoutFolder(x, q).lru /\ fs'.files = WithoutFolder(x, q).files
      <3> DEFINE z == WithoutFolder(x, q)
      <3>1. \/ fs' = z
            \/ \E D, F, T : fs' = [z EXCEPT !.folders = @ \cup {q}, !.foldersDirty = @ \cup D, !.filesDirty = @ \cup F,
                                            !.lostDirs = @ \cup {q}, !.twice = @ \cup T]
        BY <1>8 DEF FolderDeleted, Leaves
      <3> HIDE DEF z
      <3>2. z \in TreeType
        BY <2>2 DEF z
      <3>3. fs'.lru = z.lru /\ fs'.files = z.files
        BY <3>1, <3>2 DEF TreeType
      <3>4. QED BY <3>3 DEF z
    <2>4. QED BY <1>4, <1>6, <2>1, <2>2, <2>3, DropKeeps
  <1>9. ASSUME NEW tree, fs' = [x EXCEPT !.lostDirs = @ \cup tree] PROVE Keeps
    <2>1. fs'.lru = x.lru
      BY <1>5, <1>9 DEF TreeType
    <2>2. QED BY <1>4, <2>1, ListedKeeps
  <1>10. QED BY <1>2, <1>8, <1>9

LEMMA FileCallKeeps ==
  ASSUME Settled, NEW e \in Entries, NEW w,
         \/ GetInfo(e, w) \/ DeleteFileNoop(e, w)
         \/ \E answered : DeleteFile(e, answered, w) \/ PutFile(e, answered, w)
         \/ \E field, outcome : SetInfo(e, field, outcome, w)
  PROVE  Keeps
  <1> DEFINE x == Listed(fs, e[1], w)
             y == Lookup(fs, e[1], w)
  <1>0. e[1] \in Paths
    BY EntryParts
  <1>1. LosesOnly(x, fs, Doubtful) /\ LosesOnly(y, fs, Doubtful)
    BY <1>0, SettledIsGuarded, ListedLoses, LookupLoses
  <1>2. CASE GetInfo(e, w)
    <2>1. fs' = WithInfo(x, e, "current")
      BY <1>2 DEF GetInfo, Leaves, WithInfo
    <2> HIDE DEF x
    <2>2. QED BY <1>1, <2>1, LosesTrims, InfoKeepsList, ListedKeeps
  <1>3. ASSUME NEW field, NEW outcome, SetInfo(e, field, outcome, w) PROVE Keeps
    <2>1. fs' = AfterSetInfo(x, e, field, outcome)
      BY <1>3 DEF SetInfo, Leaves
    <2> HIDE DEF x
    <2>2. fs'.lru = x.lru
      <3>1. CASE outcome # "done"
        BY <1>1, <2>1, <3>1, LosesTrims DEF AfterSetInfo, TreeType
      <3>2. CASE outcome = "done" /\ field = "permissions"
        BY <2>1, <3>2 DEF AfterSetInfo
      <3>3. CASE outcome = "done" /\ field # "permissions"
        <4>1. ~(outcome # "done") /\ ~(outcome = "done" /\ field = "permissions")
          BY <3>3
        <4>2. fs' = [x EXCEPT !.info[e] = IF @ = "current" THEN "old" ELSE @]
          BY <2>1, <4>1 DEF AfterSetInfo
        <4>3. QED BY <1>1, <4>2, LosesTrims DEF TreeType
      <3>4. QED BY <3>1, <3>2, <3>3
    <2>3. QED BY <1>1, <2>2, ListedKeeps
  <1>4. CASE fs' = DropEntries(x, {e})
    <2> HIDE DEF x
    <2>1. DropEntries(x, {e}).files = x.files \ {e}
      BY <1>1, LosesTrims, DropIs
    <2>2. QED BY <1>1, <1>4, <2>1, DropKeeps
  <1>5. CASE fs' = Lost(x, e)
    <2> HIDE DEF x
    <2>1. QED BY <1>1, <1>5, LosesTrims, LostKeepsList, ListedKeeps
  <1>6. CASE fs' = Stored(y, e) \/ fs' = Lost(y, e)
    <2> HIDE DEF y
    <2>1. y \in TreeType
      BY <1>1, LosesTrims
    <2>2. Outdated(y, e).lru = y.lru /\ WithFile(y, e).lru = y.lru /\ Lost(y, e).lru = y.lru
      BY <2>1, LostKeepsList DEF Outdated, WithFile, TreeType
    <2>3. Stored(y, e) = Outdated(y, e) \/ Stored(y, e) = WithFile(y, e)
      BY DEF Stored, WithFile
    <2>4. QED BY <1>1, <1>6, <2>2, <2>3, ListedKeeps
  <1>7. ASSUME NEW answered, DeleteFile(e, answered, w)
        PROVE  fs' = DropEntries(x, {e}) \/ fs' = Lost(x, e)
    BY <1>7 DEF DeleteFile, Leaves
  <1>8. ASSUME NEW answered, PutFile(e, answered, w)
        PROVE  fs' = Stored(y, e) \/ fs' = Lost(y, e)
    BY <1>8 DEF PutFile, Leaves
  <1>9. ASSUME DeleteFileNoop(e, w) PROVE fs' = DropEntries(x, {e})
    BY <1>9 DEF DeleteFileNoop, Leaves
  <1>10. QED BY <1>2, <1>3, <1>4, <1>5, <1>6, <1>7, <1>8, <1>9

LEMMA SameListKeeps ==
  ASSUME fs'.lru = fs.lru
  PROVE  Keeps
  BY TrimsSelf DEF Keeps, LetsGo

LEMMA EmptiedKeeps ==
  ASSUME Settled, fs' = Emptied(fs)
  PROVE  Keeps
  <1>1. fs' = EmptyTree
    BY SettledIsGuarded, EmptiedIs
  <1>2. fs'.lru = EmptyList /\ fs'.files = {}
    BY <1>1 DEF EmptyTree
  <1>3. Held(fs.lru) \subseteq Entries
    BY DEF Held
  <1>4. QED BY <1>2, <1>3, EmptyTrims DEF Keeps, LetsGo

LEMMA HandleEventKeeps ==
  ASSUME Settled, NEW w, HandleEvent(w)
  PROVE  Keeps
  <1> DEFINE kind == Head(news)[1]
             e == Head(news)[2]
             x == AppendFile(fs, e, w)
             i == CASE e \notin x.files -> x.info[e]
                    [] e \in x.files /\ kind = "Changed" -> "dirty"
                    [] OTHER -> IF e \in InfoUsed THEN "current" ELSE x.info[e]
  <1>1. news # << >> /\ fs' = Handled(kind, e, w)
    BY DEF HandleEvent, Leaves
  <1>2. kind \in Kinds /\ e \in Entries
    BY <1>1, ToldFirst DEF Settled, NewsTyped
  <1>3. CASE kind = "Removed"
    <2>1. fs' = Emptied(fs)
      BY <1>1, <1>3 DEF Handled
    <2>2. QED BY <2>1, EmptiedKeeps
  <1>4. CASE kind # "Removed" /\ e \notin device.files
    <2>1. ~(kind = "Removed")
      BY <1>4
    <2>2. fs' = fs
      BY <1>1, <1>4, <2>1 DEF Handled
    <2>3. QED BY <2>2, SameListKeeps
  <1>5. CASE kind # "Removed" /\ e \in device.files
    <2>1. fs' = WithInfo(x, e, i)
      <3>1. ~(kind = "Removed") /\ ~(kind # "Removed" /\ e \notin device.files)
        BY <1>5
      <3>2. QED BY <1>1, <3>1 DEF Handled, WithInfo
    <2>2. e[1] \in device.dirs /\ e \in device.files \cup host
      BY <1>2, <1>5, SettledIsGuarded DEF CameraHolds
    <2> HIDE DEF i
    <2>3. LosesOnly(x, fs, Doubtful)
      BY <1>2, <2>2, SettledIsGuarded, AppendLoses
    <2> HIDE DEF x
    <2>4. QED BY <2>1, <2>3, LosesTrims, InfoKeepsList, ListedKeeps
  <1>6. QED BY <1>3, <1>4, <1>5

LEMMA CameraKeeps ==
  ASSUME Settled, Camera
  PROVE  Keeps
  <1>1. PICK e \in Entries : CameraAdds(e) \/ CameraRemoves(e) \/ CameraChanges(e)
    BY DEF Camera
  <1>2. fs' = Outdated(fs, e) \/ fs' = [fs EXCEPT !.info[e] = "old"]
    BY <1>1 DEF CameraAdds, CameraRemoves, CameraChanges
  <1>3. fs'.lru = fs.lru
    BY <1>2, SettledIsGuarded DEF Outdated, TreeType
  <1>4. QED BY <1>3, SameListKeeps

-----------------------------------------------------------------------------
(* The refinement.  A call that only takes files off forgets or clears      *)
(* them; one that attaches a picture to its entry uses it, and what went    *)
(* with the listing before was doubtful.                                    *)

QueueStep == [Queue!Next]_(Queue!vars)

LEMMA DoubtfulAreItems == Doubtful \in SUBSET Entries
  BY DEF Doubtful

LEMMA SameCount == \A S : Queue!Cardinality(S) = Cardinality(S)
  BY DEF Cardinality, Queue!Cardinality, IsFiniteSet, Queue!IsFiniteSet

\* The terms of LruQueue, before and after a step.
LEMMA QueueIs ==
  ASSUME NEW rank, Ordered(fs.lru, rank), NEW higher, Ordered(fs'.lru, higher)
  PROVE  /\ Downloads(fs.lru) = Held(fs.lru) /\ InOrderOfUse(fs.lru) = Before(fs.lru, rank)
         /\ Downloads(fs.lru)' = Held(fs'.lru) /\ InOrderOfUse(fs.lru)' = Before(fs'.lru, higher)
  <1>1. Downloads(fs.lru) = Held(fs.lru) /\ InOrderOfUse(fs.lru) = Before(fs.lru, rank)
    BY OrderIsRank
  <1>2. Downloads(fs'.lru) = Held(fs'.lru) /\ InOrderOfUse(fs'.lru) = Before(fs'.lru, higher)
    BY OrderIsRank
  <1>3. QED BY <1>1, <1>2 DEF Downloads, InOrderOfUse

\* What every step leaves: held files are files of the tree.
LEMMA ItemsAre ==
  ASSUME Settled'
  PROVE  /\ fs'.files \in SUBSET Entries /\ Doubtful' \in SUBSET Entries
         /\ Held(fs'.lru) \subseteq fs'.files
         /\ \E rank : Ordered(fs'.lru, rank)
  <1>1. Current(fs', device', host', news')
    BY DEF Settled
  <1>2. Sound(fs')
    BY <1>1 DEF Current
  <1>3. Doubtful' \in SUBSET Entries
    BY DEF Doubtful
  <1>4. QED BY <1>2, <1>3 DEF Sound, TreeType, Holds, Linked

LEMMA KeepsForgets ==
  ASSUME Settled, Settled', Keeps
  PROVE  QueueStep
  <1>1. PICK rank : Ordered(fs.lru, rank)
    BY SettledIsGuarded DEF Sound, Holds, Linked
  <1>2. ASSUME NEW D, LetsGo(D) PROVE Queue!LetGo(D)
    <2>1. Ordered(fs'.lru, rank) /\ Held(fs'.lru) \subseteq Held(fs.lru) /\ Held(fs.lru) \ Held(fs'.lru) \subseteq D
      BY <1>1, <1>2 DEF LetsGo, Trims
    <2>2. Before(fs'.lru, rank) = Before(fs.lru, rank) \cap (Held(fs'.lru) \X Held(fs'.lru))
      BY <2>1 DEF Before
    <2>3. /\ Downloads(fs.lru)' \in SUBSET Downloads(fs.lru)
          /\ Downloads(fs.lru) \ Downloads(fs.lru)' \subseteq D
          /\ InOrderOfUse(fs.lru)' = InOrderOfUse(fs.lru) \cap (Downloads(fs.lru)' \X Downloads(fs.lru)')
      BY <1>1, <2>1, <2>2, QueueIs
    <2>4. QED BY <2>3 DEF Queue!LetGo, Queue!Among
  <1>3. Downloads(fs.lru)' \in SUBSET fs'.files
    <2>1. PICK higher : Ordered(fs'.lru, higher)
      BY ItemsAre
    <2>2. Downloads(fs.lru)' = Held(fs'.lru)
      BY <1>1, <2>1, QueueIs
    <2>3. QED BY <2>2, ItemsAre
  <1>4. CASE LetsGo(Doubtful \cup (Entries \ fs'.files))
    <2>1. Queue!Forget
      BY <1>2, <1>4 DEF Queue!Forget
    <2>2. QED BY <1>3, <2>1, ItemsAre DEF QueueStep, Queue!Next
  <1>5. ASSUME NEW p \in Paths, LetsGo(Doubtful \cup In(p)) PROVE QueueStep
    <2>1. Queue!Clear(In(p))
      BY <1>2, <1>5 DEF Queue!Clear
    <2>2. \E folder \in {In(q) : q \in Paths} : Queue!Clear(folder)
      BY <2>1
    <2>3. QED BY <1>3, <2>2, ItemsAre DEF QueueStep, Queue!Next
  <1>6. QED BY <1>4, <1>5 DEF Keeps

LEMMA AttachUses ==
  ASSUME Settled, Settled', NEW x, LosesOnly(x, fs, Doubtful), NEW e \in x.files, fs'.lru = Attach(x, e).lru
  PROVE  QueueStep
  <1>1. PICK rank : Ordered(fs.lru, rank)
    BY SettledIsGuarded DEF Sound, Holds, Linked
  <1> DEFINE others == NewestHeld(x.lru, rank) \ {e}
             lost == Held(fs.lru) \ Held(x.lru)
  <1>2. /\ Sound(x) /\ Ordered(x.lru, rank) /\ Held(x.lru) \subseteq Held(fs.lru)
        /\ lost \in SUBSET Doubtful /\ e \in Entries
    BY <1>1 DEF LosesOnly, Guarded, Trims, Sound, TreeType
  <1>3. PICK higher \in [Entries -> Nat] :
          /\ Ordered(fs'.lru, higher)
          /\ Held(fs'.lru) = others \cup {e}
          /\ Before(fs'.lru, higher) = (Before(x.lru, rank) \cap (others \X others)) \cup (others \X {e})
    <2>1. UsedLast(fs'.lru, x.lru, rank, e)
      BY <1>2, AttachIsUse
    <2>2. QED BY <2>1 DEF UsedLast
  <1>4. Held(x.lru) = Held(fs.lru) \ lost
    BY <1>2
  <1>5. others \subseteq Held(x.lru)
    BY DEF NewestHeld
  <1>6. Before(x.lru, rank) \cap (others \X others) = Before(fs.lru, rank) \cap (others \X others)
    BY <1>2, <1>5 DEF Before
  <1>7. NewestHeld(x.lru, rank) =
          {a \in Held(fs.lru) \ lost : Cardinality({f \in Held(fs.lru) \ lost : <<a, f>> \in Before(fs.lru, rank)}) < Keep}
    <2>1. ASSUME NEW a \in Held(x.lru)
          PROVE  Newer(x.lru, rank, a) = {f \in Held(x.lru) : <<a, f>> \in Before(fs.lru, rank)}
      BY <1>2 DEF Newer, Before
    <2>2. QED BY <1>4, <2>1 DEF NewestHeld
  <1>8. /\ Downloads(fs.lru) = Held(fs.lru) /\ InOrderOfUse(fs.lru) = Before(fs.lru, rank)
        /\ Downloads(fs.lru)' = Held(fs'.lru) /\ InOrderOfUse(fs.lru)' = Before(fs'.lru, higher)
    BY <1>1, <1>3, QueueIs
  <1>9. others = Queue!Newest(Downloads(fs.lru) \ lost) \ {e}
    BY <1>7, <1>8, SameCount DEF Queue!Newest
  <1> HIDE DEF others, lost
  <1>10. /\ Downloads(fs.lru)' = others \cup {e}
         /\ InOrderOfUse(fs.lru)' = Queue!Among(others) \cup (others \X {e})
    BY <1>3, <1>6, <1>8 DEF Queue!Among
  <1>11. Queue!Use(e)
    BY <1>2, <1>9, <1>10 DEF Queue!Use
  <1>12. Downloads(fs.lru)' \in SUBSET fs'.files
    BY <1>8, ItemsAre
  <1>13. QED BY <1>2, <1>11, <1>12, ItemsAre DEF QueueStep, Queue!Next

LEMMA SetFileNoopUses ==
  ASSUME Settled, Settled', NEW e \in Entries, NEW w, SetFileNoop(e, w)
  PROVE  QueueStep
  <1> DEFINE x == Listed(fs, e[1], w)
             a == Attach(x, e)
  <1>1. LosesOnly(x, fs, Doubtful) /\ Current(x, device, host, news)
    BY EntryParts, SettledIsGuarded, ListedLoses, ListedCurrent
  <1>2. e \in x.files /\ e \in device.files /\ \E i : fs' = [a EXCEPT !.info[e] = i]
    BY DEF SetFileNoop, Leaves
  <1> HIDE DEF x
  <1>3. Current(a, device, host, news)
    BY <1>1, <1>2, AttachCurrent
  <1> HIDE DEF a
  <1>4. fs'.lru = a.lru
    BY <1>2, <1>3 DEF Current, Sound, TreeType
  <1>5. QED BY <1>1, <1>2, <1>4, AttachUses DEF a

LEMMA CaptureToHostUses ==
  ASSUME Settled, Settled', NEW name \in FileNames, NEW w, CaptureToHost(name, w)
  PROVE  QueueStep
  <1> DEFINE e == <<Root, name>>
             x == AppendFile(fs, e, w)
             a == Attach(x, e)
  <1>1. e \in Entries /\ e[1] = Root
    BY RootIsPath DEF Entries
  <1>2. IF e \in x.files THEN \E i : fs' = WithInfo(a, e, i) ELSE fs' = x
    BY DEF CaptureToHost, WithInfo, Leaves
  <1> HIDE DEF e
  <1>3. Current(fs, device, host \cup {e}, news) /\ CameraHolds(device)
    <2>1. host \cap fs.files \subseteq host \cup {e}
      OBVIOUS
    <2>2. QED BY <2>1, HostCurrent DEF Settled
  <1>4. e[1] \in device.dirs /\ e \in device.files \cup (host \cup {e})
    BY <1>1, <1>3 DEF CameraHolds
  <1>5. Current(x, device, host \cup {e}, news)
    BY <1>1, <1>3, <1>4, AppendCurrent
  <1>6. ASSUME NEW D, Guarded(fs, D) PROVE LosesOnly(x, fs, D)
    BY <1>1, <1>3, <1>4, <1>6, AppendLoses
  <1> HIDE DEF x
  <1>7. CASE e \notin x.files
    <2>1. LosesOnly(x, fs, Doubtful) /\ fs' = x
      BY <1>2, <1>6, <1>7, SettledIsGuarded
    <2>2. QED BY <2>1, ListedKeeps, KeepsForgets
  <1>8. CASE e \in x.files
    <2>1. LosesOnly(x, fs, Doubtful)
      BY <1>6, SettledIsGuarded
    <2>2. Current(a, device, host \cup {e}, news)
      BY <1>5, <1>8, AttachCurrent
    <2> HIDE DEF a
    <2>3. fs'.lru = a.lru
      BY <1>2, <1>8, <2>2, InfoKeepsList DEF Current, Sound
    <2>4. QED BY <1>8, <2>1, <2>3, AttachUses DEF a
  <1>9. QED BY <1>7, <1>8

LEMMA NextIsQueueStep ==
  ASSUME Settled, [Next]_vars
  PROVE  QueueStep
  <1>0. Settled'
    BY NextSettled, StutterSettled
  <1>1. CASE Reset
    <2>1. fs' = Emptied(fs)
      BY <1>1 DEF Reset, Leaves
    <2>2. QED BY <1>0, <2>1, EmptiedKeeps, KeepsForgets
  <1>2. ASSUME NEW p \in Paths, FolderCall(p) PROVE QueueStep
    <2>1. PICK w \in Failures(p) :
            \/ LookupFolder(p, w) \/ ListFiles(p, w) \/ ListFolders(p, w) \/ DeleteAll(p, w)
            \/ \E d \in FolderNames : RemoveDir(p, d, w) \/ \E answered : MakeDir(p, d, answered, w)
      BY <1>2 DEF FolderCall
    <2>2. Keeps
      BY <2>1, ListingKeeps, DeleteAllKeeps, MakeDirKeeps, RemoveDirKeeps
    <2>3. QED BY <1>0, <2>2, KeepsForgets
  <1>3. ASSUME NEW e \in Entries, FileCall(e) PROVE QueueStep
    <2>1. PICK w \in Failures(e[1]) :
            \/ SetFileNoop(e, w)
            \/ GetInfo(e, w) \/ DeleteFileNoop(e, w)
            \/ \E answered : DeleteFile(e, answered, w) \/ PutFile(e, answered, w)
            \/ \E field, outcome : SetInfo(e, field, outcome, w)
      BY <1>3 DEF FileCall
    <2>2. CASE SetFileNoop(e, w)
      BY <1>0, <2>2, SetFileNoopUses
    <2>3. CASE ~SetFileNoop(e, w)
      <3>1. Keeps
        BY <2>1, <2>3, FileCallKeeps
      <3>2. QED BY <1>0, <3>1, KeepsForgets
    <2>4. QED BY <2>2, <2>3
  <1>4. CASE Driver
    <2>1. \/ \E w : \E n \in FileNames : CaptureToHost(n, w)
          \/ \E w : HandleEvent(w)
      BY <1>4 DEF Driver
    <2>2. QED BY <1>0, <2>1, CaptureToHostUses, HandleEventKeeps, KeepsForgets
  <1>5. CASE Camera
    BY <1>0, <1>5, CameraKeeps, KeepsForgets
  <1>6. CASE UNCHANGED vars
    <2>1. fs' = fs
      BY <1>6 DEF vars
    <2>2. QED BY <1>0, <2>1, SameListKeeps, KeepsForgets
  <1>7. QED BY <1>1, <1>2, <1>3, <1>4, <1>5, <1>6 DEF Next

LEMMA InitIsQueueInit == Init => Queue!Init
  <1>1. SUFFICES ASSUME Init PROVE Queue!Init
    OBVIOUS
  <1>2. fs.lru = EmptyList
    BY <1>1 DEF Init, EmptyTree
  <1>3. Ordered(EmptyList, [e \in Entries |-> 0]) /\ Held(EmptyList) = {}
    BY EmptyOrdered
  <1>4. Downloads(fs.lru) = {} /\ InOrderOfUse(fs.lru) = {}
    BY <1>2, <1>3, OrderIsRank DEF Before
  <1>5. fs.files \in SUBSET Entries
    BY <1>1 DEF Init, EmptyTree
  <1>6. QED BY <1>4, <1>5, DoubtfulAreItems DEF Queue!Init

(* gp_filesystem_lru_update and gp_filesystem_lru_free implement the queue: *)
(* only the pictures used longest ago make room, and no other is lost but   *)
(* with its entry, when its folder is read again or to be cleared.          *)
THEOREM ImplementsQueue == Spec => KeepsRecentlyUsed
  <1>1. Init => Queue!Init
    BY InitIsQueueInit
  <1>2. Settled /\ [Next]_vars => [Queue!Next]_(Queue!vars)
    BY NextIsQueueStep DEF QueueStep
  <1>3. Spec => []Settled
    BY AlwaysSettled
  <1>4. QED BY <1>1, <1>2, <1>3, PTL DEF Spec, KeepsRecentlyUsed, Queue!Spec

=============================================================================
