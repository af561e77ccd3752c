------------------------ MODULE CameraFilesysProofs ------------------------
(***************************************************************************)
(* Proofs about CameraFilesys, for trees of any depth, any cache size and  *)
(* any number of waiting events: the types, that the list of downloads is  *)
(* intact, that clean folders are exact, and that what is held of a file   *)
(* is the camera's.                                                        *)
(*                                                                         *)
(* None is inductive.  A clean folder vouches only if the folder above it  *)
(* does, so the tree must hang together (Rooted) and an unknown folder in  *)
(* a clean one must belong to a file not announced yet, and still there    *)
(* (Known); a freed entry must hold nothing (Blank); and that the walk of  *)
(* the list ends needs an order that removals keep (Ordered).  Current     *)
(* collects this for a tree x, a camera d, the host's files h and the      *)
(* events n, each of which some step changes alone.  The lemmas follow the *)
(* calls of the code: what DropEntries, LoadFolders, Lookup, LoadFiles,    *)
(* AppendFile and Attach make of a current tree is current.                *)
(***************************************************************************)
EXTENDS CameraFilesys, FiniteSetTheorems, WellFoundedInduction, SequenceTheorems, TLAPS

-----------------------------------------------------------------------------
(* Counting up to n.  The induction theorems of the library range over      *)
(* predicates; this one ranges over sets, for the recursive functions here. *)

LEMMA LeastNumber ==
  ASSUME NEW T \in SUBSET Nat, T # {}
  PROVE  \E k \in T : \A j \in T : ~(j < k)
  <1>1. PICK k \in T : \A j \in T : <<j, k>> \notin OpToRel(<, Nat)
    BY NatLessThanWellFounded, WFMin
  <1>2. ASSUME NEW j \in Nat, NEW i \in Nat, j < i PROVE <<j, i>> \in OpToRel(<, Nat)
    BY <1>2 DEF OpToRel
  <1>3. QED BY <1>1, <1>2

LEMMA UpTo ==
  ASSUME NEW n \in Nat, NEW S, 0 \in S, \A k \in 0 .. n - 1 : k \in S => k + 1 \in S
  PROVE  \A k \in 0 .. n : k \in S
  <1> DEFINE T == {k \in 0 .. n : k \notin S}
  <1>1. SUFFICES ASSUME T # {} PROVE FALSE
    OBVIOUS
  <1>2. PICK k \in T : \A j \in T : ~(j < k)
    <2>1. T \in SUBSET Nat
      OBVIOUS
    <2>2. QED BY <1>1, <2>1, LeastNumber
  <1>3. k # 0 /\ k \in 0 .. n
    OBVIOUS
  <1>4. k - 1 \in 0 .. n - 1 /\ k - 1 < k /\ (k - 1) + 1 = k /\ k - 1 \in 0 .. n
    BY <1>3
  <1>5. k - 1 \in S
    BY <1>2, <1>4
  <1>6. QED BY <1>4, <1>5

-----------------------------------------------------------------------------
(* Paths: the way to a folder leads over its parent, Front(p).              *)

Way(p, k) == SubSeq(p, 1, k)

LEMMA PathType ==
  ASSUME NEW p \in Paths
  PROVE  /\ Len(p) \in 0 .. MaxDepth
         /\ p \in [1 .. Len(p) -> FolderNames]
         /\ p \in Seq(FolderNames)
  <1>1. PICK n \in 0 .. MaxDepth : p \in [1 .. n -> FolderNames]
    BY DEF Paths
  <1>2. p \in Seq(FolderNames) /\ Len(p) = n
    BY <1>1, BoundsAreNatural
  <1>3. QED BY <1>1, <1>2

LEMMA WayType ==
  ASSUME NEW p \in Paths, NEW k \in 0 .. Len(p)
  PROVE  /\ Way(p, k) \in Paths
         /\ Len(Way(p, k)) = k
         /\ \A i \in 1 .. k : Way(p, k)[i] = p[i]
  <1>1. p \in Seq(FolderNames) /\ Len(p) \in 0 .. MaxDepth
    BY PathType
  <1>2. \A i \in 1 .. k : p[i] \in FolderNames
    BY <1>1
  <1>3. /\ Way(p, k) \in Seq(FolderNames) /\ Len(Way(p, k)) = k
        /\ \A i \in 1 .. k : Way(p, k)[i] = p[i]
    BY <1>1, <1>2 DEF Way
  <1>4. k \in 0 .. MaxDepth
    BY <1>1, BoundsAreNatural
  <1>5. Way(p, k) \in [1 .. k -> FolderNames]
    BY <1>3
  <1>6. QED BY <1>3, <1>4, <1>5 DEF Paths

\* Two paths of one length are equal if their names are.
LEMMA SamePath ==
  ASSUME NEW p \in Paths, NEW q \in Paths, Len(p) = Len(q), \A i \in 1 .. Len(p) : p[i] = q[i]
  PROVE  p = q
  <1>1. p \in [1 .. Len(p) -> FolderNames] /\ q \in [1 .. Len(p) -> FolderNames]
    BY PathType
  <1>2. QED BY <1>1

LEMMA RootIsPath == Root \in Paths /\ Len(Root) = 0 /\ \A p \in Paths : Len(p) = 0 => p = Root
  <1>1. Root \in [1 .. 0 -> FolderNames] /\ Len(Root) = 0
    BY DEF Root
  <1>2. Root \in Paths
    BY <1>1, BoundsAreNatural DEF Paths
  <1>3. \A p \in Paths : Len(p) = 0 => p = Root
    BY <1>1, <1>2, SamePath
  <1>4. QED BY <1>1, <1>2, <1>3

LEMMA WayEnds ==
  ASSUME NEW p \in Paths
  PROVE  Way(p, 0) = Root /\ Way(p, Len(p)) = p
  <1>1. Len(p) \in Nat
    BY PathType
  <1>2. Way(p, 0) \in Paths /\ Len(Way(p, 0)) = 0
    BY <1>1, WayType
  <1>3. /\ Way(p, Len(p)) \in Paths /\ Len(Way(p, Len(p))) = Len(p)
        /\ \A i \in 1 .. Len(p) : Way(p, Len(p))[i] = p[i]
    BY <1>1, WayType
  <1>4. QED BY <1>2, <1>3, RootIsPath, SamePath

LEMMA ParentType ==
  ASSUME NEW p \in Paths, p # Root
  PROVE  Len(p) >= 1 /\ Front(p) = Way(p, Len(p) - 1) /\ Front(p) \in Paths /\ Len(Front(p)) = Len(p) - 1
  <1>1. Len(p) \in Nat /\ Len(p) # 0
    BY PathType, RootIsPath
  <1>2. Front(p) = Way(p, Len(p) - 1)
    BY DEF Front, Way
  <1>3. QED BY <1>1, <1>2, WayType

LEMMA WayOfWay ==
  ASSUME NEW p \in Paths, NEW k \in 0 .. Len(p), NEW j \in 0 .. k
  PROVE  Way(Way(p, k), j) = Way(p, j)
  <1>0. Len(p) \in Nat
    BY PathType
  <1>1. Way(p, k) \in Paths /\ Len(Way(p, k)) = k /\ \A i \in 1 .. k : Way(p, k)[i] = p[i]
    BY WayType
  <1>2. /\ Way(Way(p, k), j) \in Paths /\ Len(Way(Way(p, k), j)) = j
        /\ \A i \in 1 .. j : Way(Way(p, k), j)[i] = Way(p, k)[i]
    BY <1>1, WayType
  <1>3. Way(p, j) \in Paths /\ Len(Way(p, j)) = j /\ \A i \in 1 .. j : Way(p, j)[i] = p[i]
    BY <1>0, WayType
  <1>4. \A i \in 1 .. j : Way(Way(p, k), j)[i] = Way(p, j)[i]
    BY <1>0, <1>1, <1>2, <1>3
  <1>5. QED BY <1>2, <1>3, <1>4, SamePath

\* The parent of a folder on the way is the one before.
LEMMA WayParent ==
  ASSUME NEW p \in Paths, NEW k \in 1 .. Len(p)
  PROVE  Way(p, k) \in Paths \ {Root} /\ Front(Way(p, k)) = Way(p, k - 1)
  <1>0. Len(p) \in Nat
    BY PathType
  <1>1. Way(p, k) \in Paths /\ Len(Way(p, k)) = k
    BY <1>0, WayType
  <1>2. Way(p, k) # Root
    BY <1>1, RootIsPath
  <1>3. Front(Way(p, k)) = Way(Way(p, k), k - 1)
    BY <1>1, <1>2, ParentType
  <1>4. Way(Way(p, k), k - 1) = Way(p, k - 1)
    BY <1>0, WayOfWay
  <1>5. QED BY <1>1, <1>2, <1>3, <1>4

LEMMA PrefixIsOnWay ==
  ASSUME NEW p \in Paths, NEW q \in Paths
  PROVE  IsPrefix(q, p) <=> \E k \in 0 .. Len(p) : q = Way(p, k)
  <1>0. Len(p) \in Nat /\ Len(q) \in Nat
    BY PathType
  <1>1. ASSUME IsPrefix(q, p) PROVE \E k \in 0 .. Len(p) : q = Way(p, k)
    <2>1. Len(q) <= Len(p) /\ Way(q, Len(q)) = Way(p, Len(q))
      BY <1>1 DEF IsPrefix, Way
    <2>2. q = Way(p, Len(q))
      BY <2>1, WayEnds
    <2>3. QED BY <1>0, <2>1, <2>2
  <1>2. ASSUME NEW k \in 0 .. Len(p), q = Way(p, k) PROVE IsPrefix(q, p)
    <2>1. Len(q) = k
      BY <1>2, WayType
    <2>2. Way(q, Len(q)) = Way(p, Len(q))
      BY <1>2, <2>1, WayEnds
    <2>3. QED BY <1>0, <2>1, <2>2 DEF IsPrefix, Way
  <1>3. QED BY <1>1, <1>2

LEMMA BelowIsOnWay ==
  ASSUME NEW p \in Paths, NEW q \in Paths
  PROVE  p \in Below(q) <=> \E k \in 0 .. Len(p) - 1 : q = Way(p, k)
  <1>0. Len(p) \in Nat
    BY PathType
  <1>1. p \in Below(q) <=> IsPrefix(q, p) /\ q # p
    BY DEF Below, IsStrictPrefix
  <1>2. IsPrefix(q, p) <=> \E k \in 0 .. Len(p) : q = Way(p, k)
    BY PrefixIsOnWay
  <1>3. \A k \in 0 .. Len(p) - 1 : Way(p, k) # p
    BY <1>0, WayType
  <1>4. Way(p, Len(p)) = p
    BY WayEnds
  <1>5. QED BY <1>0, <1>1, <1>2, <1>3, <1>4

\* Below a folder is what it is the parent of, and what is below that.
LEMMA BelowByParent ==
  ASSUME NEW p \in Paths, NEW q \in Paths
  PROVE  p \in Below(q) <=> p # Root /\ (Front(p) = q \/ Front(p) \in Below(q))
  <1>0. Len(p) \in Nat
    BY PathType
  <1>1. p \in Below(q) <=> \E k \in 0 .. Len(p) - 1 : q = Way(p, k)
    BY BelowIsOnWay
  <1>2. CASE p = Root
    BY <1>1, <1>2, RootIsPath
  <1>3. CASE p # Root
    <2>1. Len(p) >= 1 /\ Front(p) = Way(p, Len(p) - 1) /\ Front(p) \in Paths /\ Len(Front(p)) = Len(p) - 1
      BY <1>3, ParentType
    <2>2. Front(p) \in Below(q) <=> \E k \in 0 .. Len(p) - 2 : q = Way(Front(p), k)
      <3>1. Front(p) \in Below(q) <=> \E k \in 0 .. Len(Front(p)) - 1 : q = Way(Front(p), k)
        BY <2>1, BelowIsOnWay
      <3>2. Len(Front(p)) - 1 = Len(p) - 2
        BY <1>0, <2>1
      <3>3. QED BY <3>1, <3>2
    <2>3. \A k \in 0 .. Len(p) - 2 : Way(Front(p), k) = Way(p, k)
      BY <1>0, <2>1, WayOfWay
    <2>4. QED BY <1>0, <1>1, <1>3, <2>1, <2>2, <2>3
  <1>4. QED BY <1>2, <1>3

LEMMA NotBelow ==
  ASSUME NEW p \in Paths
  PROVE  Root \notin Below(p) /\ p \notin Below(p) /\ Below(p) \subseteq Paths
  <1>1. Root \notin Below(p)
    BY RootIsPath, BelowByParent
  <1>2. p \notin Below(p) /\ Below(p) \subseteq Paths
    BY DEF Below, IsStrictPrefix
  <1>3. QED BY <1>1, <1>2

\* The children of a folder are those whose parent it is.
LEMMA ChildrenByParent ==
  ASSUME NEW S \in SUBSET Paths, NEW p \in Paths
  PROVE  ChildrenIn(S, p) = {q \in S : q # Root /\ Front(q) = p}
  <1>1. ASSUME NEW q \in S PROVE IsStrictPrefix(p, q) /\ Len(q) = Len(p) + 1 <=> q # Root /\ Front(q) = p
    <2>0. q \in Paths /\ Len(q) \in Nat /\ Len(p) \in Nat
      BY PathType
    <2>1. ASSUME IsStrictPrefix(p, q), Len(q) = Len(p) + 1 PROVE q # Root /\ Front(q) = p
      <3>1. q # Root
        BY <2>0, <2>1, RootIsPath
      <3>2. PICK k \in 0 .. Len(q) : p = Way(q, k)
        BY <2>0, <2>1, PrefixIsOnWay DEF IsStrictPrefix
      <3>3. Len(p) = k
        BY <2>0, <3>2, WayType
      <3>4. QED BY <2>0, <2>1, <3>1, <3>2, <3>3, ParentType
    <2>2. ASSUME q # Root, Front(q) = p PROVE IsStrictPrefix(p, q) /\ Len(q) = Len(p) + 1
      <3>1. Len(q) >= 1 /\ p = Way(q, Len(q) - 1) /\ Len(p) = Len(q) - 1
        BY <2>0, <2>2, ParentType
      <3>2. IsPrefix(p, q)
        BY <2>0, <3>1, PrefixIsOnWay
      <3>3. QED BY <2>0, <3>1, <3>2 DEF IsStrictPrefix
    <2>3. QED BY <2>1, <2>2
  <1>2. QED BY <1>1 DEF ChildrenIn

LEMMA AppendIsChild ==
  ASSUME NEW p \in Paths, NEW name \in FolderNames, Append(p, name) \in Paths
  PROVE  Append(p, name) # Root /\ Front(Append(p, name)) = p
  <1> DEFINE q == Append(p, name)
  <1>0. Len(p) \in Nat /\ p \in Seq(FolderNames) /\ Len(q) \in Nat /\ q \in Seq(FolderNames)
    BY PathType
  <1> HIDE DEF q
  <1>1. Len(q) = Len(p) + 1 /\ \A i \in 1 .. Len(p) : q[i] = p[i]
    BY <1>0 DEF q
  <1>2. q # Root
    BY <1>0, <1>1, RootIsPath
  <1>q. q \in Paths
    BY DEF q
  <1>3. Front(q) \in Paths /\ Len(Front(q)) = Len(p) /\ Front(q) = Way(q, Len(p))
    BY <1>0, <1>1, <1>2, <1>q, ParentType
  <1>4. \A i \in 1 .. Len(p) : Front(q)[i] = q[i]
    BY <1>0, <1>1, <1>3, <1>q, WayType
  <1>5. Front(q) = p
    BY <1>1, <1>3, <1>4, SamePath
  <1>6. QED BY <1>2, <1>5 DEF q

-----------------------------------------------------------------------------
(* The list of downloads.  Held(l) is what it holds.  rank, in which the    *)
(* entries come from lru_first on, stays the same when entries go; it is    *)
(* what makes the walk end.                                                 *)

ListType ==
  [first : Entries \cup {Nil}, last : Entries \cup {Nil},
   prev : [Entries -> Entries \cup {Nil}], next : [Entries -> Entries \cup {Nil}]]

Held(l) == {e \in Entries : l.prev[e] # Nil}

\* Links and ends agree, and links lead to higher ranks.
Ordered(l, rank) ==
  /\ l \in ListType
  /\ rank \in [Entries -> Nat]
  /\ l.first = Nil => l.last = Nil /\ Held(l) = {}
  /\ l.first # Nil => /\ l.first \in Held(l) /\ l.last \in Held(l)
                      /\ l.prev[l.first] = l.first /\ l.next[l.last] = Nil
  /\ \A e \in Held(l) \ {l.first} :
       l.prev[e] \in Held(l) /\ l.next[l.prev[e]] = e /\ rank[l.prev[e]] < rank[e]
  /\ \A e \in Held(l) :
       /\ l.next[e] # Nil => l.next[e] \in Held(l) \ {l.first} /\ l.prev[l.next[e]] = e
       /\ l.next[e] = Nil => e = l.last
  /\ \A e \in Entries \ Held(l) : l.next[e] = Nil

Linked(l) == \E rank \in [Entries -> Nat] : Ordered(l, rank)

\* Of any entries one comes first.
LEMMA LeastRank ==
  ASSUME NEW rank \in [Entries -> Nat], NEW S \in SUBSET Entries, S # {}
  PROVE  \E e \in S : \A d \in S : ~(rank[d] < rank[e])
  <1> DEFINE T == {rank[e] : e \in S}
  <1>1. T \in SUBSET Nat /\ T # {}
    OBVIOUS
  <1>2. PICK k \in T : \A j \in T : ~(j < k)
    BY <1>1, LeastNumber
  <1>3. PICK e \in S : k = rank[e]
    OBVIOUS
  <1>4. \A d \in S : ~(rank[d] < rank[e])
    BY <1>2, <1>3
  <1>5. QED BY <1>4

LEMMA EmptyOrdered == Ordered(EmptyList, [e \in Entries |-> 0]) /\ Held(EmptyList) = {}
  <1>1. EmptyList \in ListType
    BY DEF EmptyList, ListType
  <1>2. Held(EmptyList) = {}
    BY DEF EmptyList, Held
  <1>3. EmptyList.first = Nil /\ EmptyList.last = Nil /\ \A e \in Entries : EmptyList.next[e] = Nil
    BY DEF EmptyList
  <1>4. [e \in Entries |-> 0] \in [Entries -> Nat]
    OBVIOUS
  <1>5. QED BY <1>1, <1>2, <1>3, <1>4 DEF Ordered

\* Taking the first off leaves the others as they were.
LEMMA FirstGoes ==
  ASSUME NEW l, NEW rank, Ordered(l, rank), l.first # Nil, NEW m \in ListType,
         LET e == l.first
             after == l.next[e]
         IN  /\ m.first = after
             /\ m.last = IF after = Nil THEN Nil ELSE l.last
             /\ \A d \in Entries :
                  /\ m.prev[d] = IF d = e THEN Nil ELSE IF d = after THEN d ELSE l.prev[d]
                  /\ m.next[d] = IF d = e THEN Nil ELSE l.next[d]
  PROVE  Ordered(m, rank) /\ Held(m) = Held(l) \ {l.first}
  <1> DEFINE e == l.first
             after == l.next[e]
  <1>1. /\ e \in Entries /\ e \in Held(l) /\ l.prev[e] = e
        /\ l.last \in Held(l) /\ l.next[l.last] = Nil /\ l.last \in Entries
        /\ rank \in [Entries -> Nat]
    BY NilIsNoEntry DEF Ordered, ListType, Held
  <1>2. after # Nil => after \in Held(l) /\ after \in Entries /\ after # e /\ l.prev[after] = e
    BY <1>1 DEF Ordered, Held
  <1>3. after = Nil => e = l.last /\ Held(l) = {e}
    <2>1. SUFFICES ASSUME after = Nil, NEW d \in Held(l), d # e PROVE FALSE
      BY <1>1 DEF Ordered
    <2>2. l.last = e
      BY <1>1, <2>1 DEF Ordered
    <2>3. DEFINE others == Held(l) \ {e}
    <2>4. others \in SUBSET Entries /\ others # {}
      BY <2>1 DEF Held
    <2>5. PICK c \in others : \A b \in others : ~(rank[b] < rank[c])
      BY <1>1, <2>4, LeastRank
    <2>6. l.prev[c] \in Held(l) /\ l.next[l.prev[c]] = c /\ rank[l.prev[c]] < rank[c]
      BY <2>5 DEF Ordered
    <2>7. l.prev[c] # e
      BY <2>1, <2>5, <2>6, NilIsNoEntry DEF Held
    <2>8. QED BY <2>5, <2>6, <2>7
  <1>4. Held(m) = Held(l) \ {e}
    BY <1>1, <1>2, NilIsNoEntry DEF Held
  <1>5. m.first = after /\ m.last = IF after = Nil THEN Nil ELSE l.last
    OBVIOUS
  <1>6. /\ m.first = Nil => m.last = Nil /\ Held(m) = {}
        /\ m.first # Nil => /\ m.first \in Held(m) /\ m.last \in Held(m)
                            /\ m.prev[m.first] = m.first /\ m.next[m.last] = Nil
    <2>1. CASE after = Nil
      BY <1>3, <1>4, <1>5, <2>1
    <2>2. CASE after # Nil
      <3>1. l.last # e
        BY <1>1, <1>2, <2>2
      <3>2. QED BY <1>1, <1>2, <1>4, <1>5, <2>2, <3>1
    <2>3. QED BY <2>1, <2>2
  <1>7. ASSUME NEW d \in Held(m) \ {m.first}
        PROVE  m.prev[d] \in Held(m) /\ m.next[m.prev[d]] = d /\ rank[m.prev[d]] < rank[d]
    <2>1. d \in Held(l) /\ d # e /\ d # after /\ d \in Entries
      BY <1>4, <1>5, <1>7 DEF Held
    <2>2. l.prev[d] \in Held(l) /\ l.next[l.prev[d]] = d /\ rank[l.prev[d]] < rank[d]
      BY <2>1 DEF Ordered
    <2>3. l.prev[d] # e
      BY <2>1, <2>2
    <2>4. l.prev[d] \in Entries
      BY <2>2 DEF Held
    <2>5. m.prev[d] = l.prev[d] /\ m.next[l.prev[d]] = l.next[l.prev[d]]
      BY <2>1, <2>3, <2>4
    <2>6. QED BY <1>4, <2>2, <2>3, <2>5
  <1>8. ASSUME NEW d \in Held(m)
        PROVE  /\ m.next[d] # Nil => m.next[d] \in Held(m) \ {m.first} /\ m.prev[m.next[d]] = d
               /\ m.next[d] = Nil => d = m.last
    <2>1. d \in Held(l) /\ d # e /\ d \in Entries
      BY <1>4, <1>8 DEF Held
    <2>2. m.next[d] = l.next[d]
      BY <2>1
    <2>3. /\ l.next[d] # Nil => l.next[d] \in Held(l) \ {e} /\ l.prev[l.next[d]] = d
          /\ l.next[d] = Nil => d = l.last
      BY <2>1 DEF Ordered
    <2>4. l.next[d] # Nil => l.next[d] # after /\ m.prev[l.next[d]] = d
      <3>1. l.next[d] # Nil => l.next[d] \in Entries
        BY <2>3 DEF Held
      <3>2. QED BY <1>2, <2>1, <2>3, <3>1
    <2>5. after # Nil
      BY <1>3, <2>1
    <2>6. QED BY <1>4, <1>5, <2>2, <2>3, <2>4, <2>5
  <1>9. \A d \in Entries \ Held(m) : m.next[d] = Nil
    BY <1>1, <1>4 DEF Ordered
  <1> HIDE DEF e, after
  <1>10. Ordered(m, rank)
    BY <1>1, <1>6, <1>7, <1>8, <1>9 DEF Ordered
  <1>11. QED BY <1>4, <1>10 DEF e

\* Taking another one off joins its neighbours.
LEMMA LaterGoes ==
  ASSUME NEW l, NEW rank, Ordered(l, rank), NEW e \in Held(l), e # l.first, NEW m \in ListType,
         LET before == l.prev[e]
             after == l.next[e]
         IN  /\ m.first = l.first
             /\ m.last = IF l.last = e THEN before ELSE l.last
             /\ \A d \in Entries :
                  /\ m.prev[d] = IF d = e THEN Nil ELSE IF d = after THEN before ELSE l.prev[d]
                  /\ m.next[d] = IF d = e THEN Nil ELSE IF d = before THEN after ELSE l.next[d]
  PROVE  Ordered(m, rank) /\ Held(m) = Held(l) \ {e}
  <1> DEFINE before == l.prev[e]
             after == l.next[e]
  <1>1. /\ e \in Entries /\ rank \in [Entries -> Nat] /\ l.first # Nil
        /\ l.first \in Held(l) /\ l.first \in Entries
        /\ l.last \in Held(l) /\ l.next[l.last] = Nil /\ l.last \in Entries
        /\ l.prev[l.first] = l.first
    BY NilIsNoEntry DEF Ordered, ListType, Held
  <1>2. /\ before \in Held(l) /\ before \in Entries /\ l.next[before] = e
        /\ rank[before] < rank[e] /\ before # e /\ before # Nil
    BY <1>1, NilIsNoEntry DEF Ordered, Held
  <1>3. after # Nil => /\ after \in Held(l) /\ after \in Entries /\ after # e /\ l.prev[after] = e
                       /\ after # l.first /\ rank[e] < rank[after] /\ after # before
    <2>1. after # Nil => after \in Held(l) \ {l.first} /\ l.prev[after] = e
      BY <1>1 DEF Ordered
    <2>2. after # Nil => rank[e] < rank[after] /\ after \in Entries
      BY <2>1 DEF Ordered, Held
    <2>3. QED BY <1>1, <1>2, <2>1, <2>2
  <1>4. after = Nil <=> e = l.last
    BY <1>1 DEF Ordered
  <1>5. Held(m) = Held(l) \ {e}
    BY <1>1, <1>2, <1>3, NilIsNoEntry DEF Held
  <1>6. m.first = l.first /\ m.last = IF l.last = e THEN before ELSE l.last
    OBVIOUS
  <1>7. /\ m.first \in Held(m) /\ m.last \in Held(m)
        /\ m.prev[m.first] = m.first /\ m.next[m.last] = Nil
    <2>1. m.first \in Held(m) /\ m.last \in Held(m)
      BY <1>1, <1>2, <1>5, <1>6
    <2>2. m.prev[m.first] = m.first
      BY <1>1, <1>3, <1>6
    <2>3. m.next[m.last] = Nil
      <3>1. CASE l.last = e
        BY <1>2, <1>4, <1>6, <3>1
      <3>2. CASE l.last # e
        <4>1. l.last # before
          BY <1>1, <1>2, <3>2, NilIsNoEntry
        <4>2. QED BY <1>1, <1>6, <3>2, <4>1
      <3>3. QED BY <3>1, <3>2
    <2>4. QED BY <2>1, <2>2, <2>3
  <1>8. ASSUME NEW d \in Held(m) \ {m.first}
        PROVE  m.prev[d] \in Held(m) /\ m.next[m.prev[d]] = d /\ rank[m.prev[d]] < rank[d]
    <2>1. d \in Held(l) /\ d # e /\ d # l.first /\ d \in Entries
      BY <1>5, <1>6, <1>8 DEF Held
    <2>2. l.prev[d] \in Held(l) /\ l.next[l.prev[d]] = d /\ rank[l.prev[d]] < rank[d] /\ l.prev[d] \in Entries
      BY <2>1 DEF Ordered, Held
    <2>3. CASE d = after
      <3>1. m.prev[d] = before /\ m.next[before] = after
        BY <1>2, <2>1, <2>3
      <3>2. after # Nil
        BY <2>1, <2>3, NilIsNoEntry
      <3>3. rank[before] < rank[after]
        BY <1>1, <1>2, <1>3, <3>2
      <3>4. QED BY <1>2, <1>5, <2>3, <3>1, <3>3
    <2>4. CASE d # after
      <3>1. m.prev[d] = l.prev[d]
        BY <2>1, <2>4
      <3>2. l.prev[d] # e /\ l.prev[d] # before
        BY <1>2, <2>1, <2>2, <2>4
      <3>3. m.next[l.prev[d]] = l.next[l.prev[d]]
        BY <2>2, <3>2
      <3>4. QED BY <1>5, <2>2, <3>1, <3>2, <3>3
    <2>5. QED BY <2>3, <2>4
  <1>9. ASSUME NEW d \in Held(m)
        PROVE  /\ m.next[d] # Nil => m.next[d] \in Held(m) \ {m.first} /\ m.prev[m.next[d]] = d
               /\ m.next[d] = Nil => d = m.last
    <2>1. d \in Held(l) /\ d # e /\ d \in Entries
      BY <1>5, <1>9 DEF Held
    <2>2. CASE d = before
      <3>1. m.next[d] = after
        BY <2>1, <2>2
      <3>2. after # Nil => m.prev[after] = before
        BY <1>3
      <3>3. after = Nil => m.last = before
        BY <1>4, <1>6
      <3>4. QED BY <1>3, <1>5, <1>6, <2>2, <3>1, <3>2, <3>3
    <2>3. CASE d # before
      <3>1. m.next[d] = l.next[d]
        BY <2>1, <2>3
      <3>2. /\ l.next[d] # Nil => l.next[d] \in Held(l) \ {l.first} /\ l.prev[l.next[d]] = d
            /\ l.next[d] = Nil => d = l.last
        BY <2>1 DEF Ordered
      <3>3. l.next[d] # Nil => l.next[d] # e /\ l.next[d] # after /\ l.next[d] \in Entries
        <4>1. l.next[d] # Nil => l.next[d] \in Entries
          BY <3>2 DEF Held
        <4>2. l.next[d] # Nil => l.next[d] # e
          BY <2>3, <3>2
        <4>3. l.next[d] # Nil => l.next[d] # after
          BY <1>3, <2>1, <3>2
        <4>4. QED BY <4>1, <4>2, <4>3
      <3>4. l.next[d] # Nil => m.prev[l.next[d]] = d
        BY <3>2, <3>3
      <3>5. QED BY <1>5, <1>6, <2>1, <3>1, <3>2, <3>3, <3>4
    <2>4. QED BY <2>2, <2>3
  <1>10. \A d \in Entries \ Held(m) : m.next[d] = Nil
    <2>1. SUFFICES ASSUME NEW d \in Entries \ Held(m) PROVE m.next[d] = Nil
      OBVIOUS
    <2>2. CASE d = e
      BY <2>2
    <2>3. CASE d # e
      <3>1. d \notin Held(l) /\ l.next[d] = Nil /\ d # before
        BY <1>2, <1>5, <2>3 DEF Ordered
      <3>2. QED BY <2>3, <3>1
    <2>4. QED BY <2>2, <2>3
  <1> HIDE DEF before, after
  <1>11. m.first # Nil
    BY <1>1, <1>6
  <1>12. Ordered(m, rank)
    BY <1>1, <1>7, <1>8, <1>9, <1>10, <1>11 DEF Ordered
  <1>13. QED BY <1>5, <1>12

\* gp_filesystem_lru_remove_one takes one entry off the list.
LEMMA UnlinkTakesOff ==
  ASSUME NEW l, NEW rank, Ordered(l, rank), NEW e \in Entries
  PROVE  Ordered(Unlink(e, l), rank) /\ Held(Unlink(e, l)) = Held(l) \ {e}
  <1> DEFINE before == l.prev[e]
             after == l.next[e]
             m == Unlink(e, l)
  <1>1. CASE l.prev[e] = Nil
    BY <1>1 DEF Unlink, Held
  <1>2. CASE l.prev[e] # Nil
    <2>1. /\ l \in ListType /\ e \in Held(l) /\ l.first # Nil
          /\ before \in Entries /\ after \in Entries \cup {Nil}
          /\ l.prev \in [Entries -> Entries \cup {Nil}] /\ l.next \in [Entries -> Entries \cup {Nil}]
      BY <1>2 DEF Ordered, ListType, Held
    <2>2. /\ l.prev[l.first] = l.first /\ l.next[l.last] = Nil
          /\ e # l.first => before # e
          /\ after = Nil => e = l.last
          /\ after # Nil => after # e /\ after # l.first
      BY <2>1, NilIsNoEntry DEF Ordered, Held
    <2>3. e = l.first /\ e = l.last <=> e = l.first /\ after = Nil
      BY <2>2
    <2>4. m \in ListType
      BY <1>2, <2>1 DEF Unlink, ListType
    <2>5. CASE e = l.first
      <3>1. m.first = after /\ m.last = IF after = Nil THEN Nil ELSE l.last
        <4>1. before = e
          BY <2>2, <2>5
        <4>2. QED BY <1>2, <2>2, <2>3, <2>5, <4>1 DEF Unlink
      <3>2. \A d \in Entries :
               /\ m.prev[d] = IF d = e THEN Nil ELSE IF d = after THEN d ELSE l.prev[d]
               /\ m.next[d] = IF d = e THEN Nil ELSE l.next[d]
        <4>1. before = e
          BY <2>2, <2>5
        <4>2. ASSUME NEW d \in Entries PROVE m.prev[d] = IF d = e THEN Nil ELSE IF d = after THEN d ELSE l.prev[d]
          <5>1. CASE after = Nil
            BY <1>2, <2>1, <2>3, <2>5, <5>1, NilIsNoEntry DEF Unlink
          <5>2. CASE after # Nil
            BY <1>2, <2>1, <2>3, <2>5, <5>2 DEF Unlink
          <5>3. QED BY <5>1, <5>2
        <4>3. ASSUME NEW d \in Entries PROVE m.next[d] = IF d = e THEN Nil ELSE l.next[d]
          BY <1>2, <2>1, <4>1 DEF Unlink
        <4>4. QED BY <4>2, <4>3
      <3> HIDE DEF m
      <3>3. QED BY <2>1, <2>4, <2>5, <3>1, <3>2, FirstGoes DEF m
    <2>6. CASE e # l.first
      <3>1. m.first = l.first /\ m.last = IF l.last = e THEN before ELSE l.last
        BY <1>2, <2>6 DEF Unlink
      <3>2. \A d \in Entries :
               /\ m.prev[d] = IF d = e THEN Nil ELSE IF d = after THEN before ELSE l.prev[d]
               /\ m.next[d] = IF d = e THEN Nil ELSE IF d = before THEN after ELSE l.next[d]
        <4>1. ASSUME NEW d \in Entries PROVE m.prev[d] = IF d = e THEN Nil ELSE IF d = after THEN before ELSE l.prev[d]
          <5>1. CASE after = Nil
            BY <1>2, <2>1, <2>6, <5>1, NilIsNoEntry DEF Unlink
          <5>2. CASE after # Nil
            BY <1>2, <2>1, <2>6, <5>2 DEF Unlink
          <5>3. QED BY <5>1, <5>2
        <4>2. ASSUME NEW d \in Entries PROVE m.next[d] = IF d = e THEN Nil ELSE IF d = before THEN after ELSE l.next[d]
          BY <1>2, <2>1, <2>2, <2>6 DEF Unlink
        <4>3. QED BY <4>1, <4>2
      <3> HIDE DEF m
      <3>3. QED BY <2>1, <2>4, <2>6, <3>1, <3>2, LaterGoes DEF m
    <2>7. QED BY <2>5, <2>6
  <1>3. QED BY <1>1, <1>2

\* A new one at the end, as when a download is used.
LEMMA AddLastOrders ==
  ASSUME NEW l, NEW rank, Ordered(l, rank), NEW e \in Entries, e \notin Held(l)
  PROVE  /\ Held(AddLast(e, l)) = Held(l) \cup {e}
         /\ \E higher \in [Entries -> Nat] :
              /\ Ordered(AddLast(e, l), higher)
              /\ \A d \in Entries \ {e} : higher[d] = rank[d]
              /\ l.first # Nil => higher[l.last] < higher[e]
  <1> DEFINE m == AddLast(e, l)
  <1>1. Ordered(l, rank) /\ rank \in [Entries -> Nat]
    BY DEF Ordered
  <1>2. /\ l \in ListType /\ l.prev[e] = Nil /\ l.next[e] = Nil /\ e # Nil
        /\ l.prev \in [Entries -> Entries \cup {Nil}] /\ l.next \in [Entries -> Entries \cup {Nil}]
        /\ l.last \in Entries \cup {Nil}
    BY <1>1, NilIsNoEntry DEF Ordered, ListType, Held
  <1>3. CASE l.first = Nil
    <2>1. m.first = e /\ m.last = e /\ m \in ListType
      BY <1>2, <1>3 DEF AddLast, ListType
    <2>2. \A d \in Entries : m.prev[d] = (IF d = e THEN e ELSE l.prev[d]) /\ m.next[d] = l.next[d]
      BY <1>2, <1>3 DEF AddLast, ListType
    <2>3. Held(l) = {}
      BY <1>1, <1>3 DEF Ordered
    <2>4. \A d \in Entries : l.next[d] = Nil
      BY <1>1, <2>3 DEF Ordered
    <2> HIDE DEF m
    <2>5. Held(m) = {e}
      BY <1>2, <2>2, <2>3 DEF Held
    <2>6. Ordered(m, rank)
      BY <1>1, <1>2, <2>1, <2>2, <2>4, <2>5 DEF Ordered
    <2>7. \E higher \in [Entries -> Nat] :
            /\ Ordered(m, higher)
            /\ \A d \in Entries \ {e} : higher[d] = rank[d]
            /\ l.first # Nil => higher[l.last] < higher[e]
      <3>1. rank \in [Entries -> Nat] /\ \A d \in Entries \ {e} : rank[d] = rank[d]
        BY <1>1
      <3>2. l.first # Nil => rank[l.last] < rank[e]
        BY <1>3
      <3>3. QED BY ONLY <2>6, <3>1, <3>2
    <2>8. QED BY <2>3, <2>5, <2>7 DEF m
  <1>4. CASE l.first # Nil
    <2> DEFINE last == l.last
               higher == [rank EXCEPT ![e] = rank[last] + 1]
    <2>1. last \in Held(l) /\ last \in Entries /\ last # e /\ l.next[last] = Nil
      BY <1>1, <1>2, <1>4 DEF Ordered, Held
    <2>2. m.first = l.first /\ m.last = e /\ m \in ListType
      BY <1>2, <1>4 DEF AddLast, ListType
    <2>3. \A d \in Entries : /\ m.prev[d] = IF d = e THEN last ELSE l.prev[d]
                             /\ m.next[d] = IF d = last THEN e ELSE l.next[d]
      BY <1>2, <1>4, <2>1 DEF AddLast, ListType
    <2>4. /\ higher \in [Entries -> Nat] /\ higher[last] < higher[e]
          /\ \A d \in Entries \ {e} : higher[d] = rank[d]
      BY <1>1, <2>1
    <2> HIDE DEF m, higher, last
    <2>5. Held(m) = Held(l) \cup {e}
      BY <1>2, <2>1, <2>3, NilIsNoEntry DEF Held
    <2>6. /\ m.first # Nil /\ m.first \in Held(m) /\ m.last \in Held(m)
          /\ m.prev[m.first] = m.first /\ m.next[m.last] = Nil
      <3>1. l.first \in Held(l) /\ l.prev[l.first] = l.first /\ l.first \in Entries
        BY <1>1, <1>4 DEF Ordered, Held
      <3>2. QED BY <1>2, <1>4, <2>1, <2>2, <2>3, <2>5, <3>1
    <2>7. ASSUME NEW d \in Held(m) \ {m.first}
          PROVE  m.prev[d] \in Held(m) /\ m.next[m.prev[d]] = d /\ higher[m.prev[d]] < higher[d]
      <3>1. CASE d = e
        BY <2>1, <2>3, <2>4, <2>5, <3>1
      <3>2. CASE d # e
        <4>1. /\ d \in Entries /\ l.prev[d] \in Held(l) /\ l.next[l.prev[d]] = d
              /\ rank[l.prev[d]] < rank[d] /\ l.prev[d] \in Entries
          BY <1>1, <2>2, <2>5, <2>7, <3>2 DEF Ordered, Held
        <4>2. l.prev[d] # e /\ l.prev[d] # last
          BY <1>2, <2>1, <4>1, NilIsNoEntry
        <4>3. QED BY <2>3, <2>4, <2>5, <3>2, <4>1, <4>2
      <3>3. QED BY <3>1, <3>2
    <2>8. ASSUME NEW d \in Held(m)
          PROVE  /\ m.next[d] # Nil => m.next[d] \in Held(m) \ {m.first} /\ m.prev[m.next[d]] = d
                 /\ m.next[d] = Nil => d = m.last
      <3>0. d \in Entries
        BY DEF Held
      <3>1. CASE d = last
        <4>1. e # l.first
          BY <1>1, <1>4 DEF Ordered
        <4>2. QED BY <2>2, <2>3, <2>5, <3>0, <3>1, <4>1, <1>2
      <3>2. CASE d = e
        BY <1>2, <2>1, <2>2, <2>3, <3>2
      <3>3. CASE d # e /\ d # last
        <4>1. /\ l.next[d] # Nil /\ l.next[d] \in Held(l) \ {l.first} /\ l.prev[l.next[d]] = d
          BY <1>1, <2>5, <3>3 DEF Ordered, last
        <4>2. l.next[d] # e /\ l.next[d] \in Entries
          BY <4>1 DEF Held
        <4>3. QED BY <2>2, <2>3, <2>5, <3>0, <3>3, <4>1, <4>2
      <3>4. QED BY <3>1, <3>2, <3>3
    <2>9. \A d \in Entries \ Held(m) : m.next[d] = Nil
      BY <1>1, <2>1, <2>3, <2>5 DEF Ordered
    <2>10. Ordered(m, higher)
      BY <2>2, <2>4, <2>6, <2>7, <2>8, <2>9 DEF Ordered
    <2>11. QED BY <2>4, <2>5, <2>10 DEF m, last
  <1>5. QED BY <1>3, <1>4

LEMMA AddLastHolds ==
  ASSUME NEW l, Linked(l), NEW e \in Entries, e \notin Held(l)
  PROVE  Linked(AddLast(e, l)) /\ Held(AddLast(e, l)) = Held(l) \cup {e}
  <1>1. PICK rank \in [Entries -> Nat] : Ordered(l, rank)
    BY DEF Linked
  <1>2. QED BY <1>1, AddLastOrders DEF Linked

\* Entries freed together go from the list one after the other.
LEMMA FoldTakesOff ==
  ASSUME NEW l, NEW rank, Ordered(l, rank), NEW S \in SUBSET Entries
  PROVE  Ordered(FoldSet(Unlink, l, S), rank) /\ Held(FoldSet(Unlink, l, S)) = Held(l) \ S
  <1> DEFINE One(s) == CHOOSE x \in s : TRUE
             Equation(f, D) == f = [s \in D |-> IF s = {} THEN l ELSE Unlink(One(s), f[s \ {One(s)}])]
             UpToSize(n) == {s \in SUBSET S : Cardinality(s) <= n}
  <1>1. IsFiniteSet(S) /\ Cardinality(S) \in Nat /\ \A s \in SUBSET S : IsFiniteSet(s) /\ Cardinality(s) \in Nat /\ Cardinality(s) <= Cardinality(S)
    <2>1. IsFiniteSet(S)
      BY EntriesAreFinite, FS_Subset
    <2>2. ASSUME NEW s \in SUBSET S PROVE IsFiniteSet(s) /\ Cardinality(s) \in Nat /\ Cardinality(s) <= Cardinality(S)
      BY <2>1, FS_Subset, FS_CardinalityType
    <2>3. Cardinality(S) \in Nat
      BY <2>1, FS_CardinalityType
    <2>4. QED BY <2>1, <2>2, <2>3
  <1>2. \A s \in SUBSET S : s # {} =>
           One(s) \in s /\ s \ {One(s)} \in SUBSET S /\ Cardinality(s \ {One(s)}) = Cardinality(s) - 1
    BY <1>1, FS_RemoveElement
  <1>3. \E f : Equation(f, SUBSET S)
    <2> DEFINE P == {n \in Nat : \E f : Equation(f, UpToSize(n))}
    <2>1. 0 \in P
      <3>1. UpToSize(0) = {{}}
        <4>1. \A s \in SUBSET S : Cardinality(s) <= 0 <=> s = {}
          BY <1>1, FS_EmptySet
        <4>2. QED BY <4>1
      <3>2. Equation([s \in {{}} |-> l], {{}})
        OBVIOUS
      <3>3. QED BY <3>1, <3>2
    <2>2. ASSUME NEW n \in 0 .. Cardinality(S) - 1, n \in P PROVE n + 1 \in P
      <3>0. n \in Nat
        OBVIOUS
      <3>1. PICK f : Equation(f, UpToSize(n))
        BY <2>2
      <3> DEFINE g == [s \in UpToSize(n + 1) |-> IF s = {} THEN l ELSE Unlink(One(s), f[s \ {One(s)}])]
      <3>2. ASSUME NEW s \in UpToSize(n) PROVE s \in UpToSize(n + 1) /\ f[s] = g[s]
        <4>1. s \in UpToSize(n + 1)
          BY <1>1, <3>0
        <4>2. QED BY <3>1, <4>1
      <3>3. \A s \in UpToSize(n + 1) : s # {} => s \ {One(s)} \in UpToSize(n)
        BY <1>1, <1>2, <3>0
      <3>4. \A s \in UpToSize(n + 1) : s # {} => f[s \ {One(s)}] = g[s \ {One(s)}]
        BY <3>2, <3>3
      <3> HIDE DEF UpToSize, One
      <3>5. Equation(g, UpToSize(n + 1))
        BY <3>4
      <3> HIDE DEF g, Equation
      <3>6. n + 1 \in Nat /\ \E h : Equation(h, UpToSize(n + 1))
        BY <3>0, <3>5
      <3>7. QED BY <3>6
    <2>3. Cardinality(S) \in P
      <3> HIDE DEF P
      <3>1. Cardinality(S) \in 0 .. Cardinality(S)
        BY <1>1
      <3>2. QED BY <1>1, <2>1, <2>2, <3>1, UpTo
    <2>4. UpToSize(Cardinality(S)) = SUBSET S
      BY <1>1
    <2> HIDE DEF UpToSize, Equation
    <2>5. QED BY <2>3, <2>4
  <1> DEFINE F == CHOOSE f : Equation(f, SUBSET S)
  <1>4. Equation(F, SUBSET S)
    <2> HIDE DEF Equation
    <2>1. QED BY <1>3
  <1>5. FoldSet(Unlink, l, S) = F[S]
    BY DEF FoldSet, MapThenFoldSet
  <1> HIDE DEF F
  <1> DEFINE Good(s) == Ordered(F[s], rank) /\ Held(F[s]) = Held(l) \ s
             Q == {n \in Nat : \A s \in SUBSET S : Cardinality(s) = n => Good(s)}
  <1>6. 0 \in Q
    <2>1. \A s \in SUBSET S : Cardinality(s) = 0 => s = {}
      BY <1>1, FS_EmptySet
    <2>2. F[{}] = l
      BY <1>4
    <2>3. QED BY <2>1, <2>2
  <1>7. ASSUME NEW n \in 0 .. Cardinality(S) - 1, n \in Q PROVE n + 1 \in Q
    <2>1. SUFFICES ASSUME NEW s \in SUBSET S, Cardinality(s) = n + 1 PROVE Good(s)
      OBVIOUS
    <2>2. s # {}
      <3>1. Cardinality({}) = 0
        BY FS_EmptySet
      <3>2. QED BY <2>1, <3>1
    <2> DEFINE x == One(s)
               t == s \ {x}
    <2>3. x \in s /\ t \in SUBSET S /\ Cardinality(t) = n
      BY <1>2, <2>1, <2>2
    <2>4. Good(t)
      BY <1>7, <2>3
    <2>5. F[s] = Unlink(x, F[t])
      BY <1>4, <2>2
    <2>6. s = t \cup {x} /\ x \in Entries
      BY <2>3
    <2> HIDE DEF x, t, One, F
    <2>7. Ordered(F[s], rank) /\ Held(F[s]) = Held(F[t]) \ {x}
      BY <2>4, <2>5, <2>6, UnlinkTakesOff
    <2>8. QED BY <2>4, <2>6, <2>7
  <1>8. Cardinality(S) \in Q
    <2> HIDE DEF Q
    <2>1. Cardinality(S) \in 0 .. Cardinality(S)
      BY <1>1
    <2>2. QED BY <1>1, <1>6, <1>7, <2>1, UpTo
  <1>9. QED BY <1>5, <1>8

\* Walking from lru_first to the end meets each entry held once, in order.
Walked(w, l) ==
  \E n \in 0 .. Cardinality(Entries) :
    /\ w \in [1 .. n -> Entries]
    /\ Len(w) = n
    /\ n = 0 <=> l.first = Nil
    /\ n > 0 => w[1] = l.first /\ w[n] = l.last
    /\ \A i \in 1 .. n - 1 : w[i + 1] = l.next[w[i]] /\ l.prev[w[i + 1]] = w[i]
    /\ Held(l) = {w[i] : i \in 1 .. n}

LEMMA WalkSteps ==
  ASSUME NEW l
  PROVE  \E At : /\ At = [i \in 1 .. Cardinality(Entries) + 1 |->
                            IF i = 1 THEN l.first
                            ELSE IF At[i - 1] = Nil THEN Nil ELSE l.next[At[i - 1]]]
                 /\ Walk(l) = [i \in {k \in 1 .. Cardinality(Entries) + 1 : At[k] # Nil} |-> At[i]]
  <1> DEFINE Equation(f, n) == f = [i \in 1 .. n + 1 |->
                                      IF i = 1 THEN l.first
                                      ELSE IF f[i - 1] = Nil THEN Nil ELSE l.next[f[i - 1]]]
             N == Cardinality(Entries)
             P == {n \in Nat : \E f : Equation(f, n)}
  <1>1. N \in Nat
    BY EntriesAreFinite, FS_CardinalityType
  <1>2. 0 \in P
    <2>1. Equation([i \in 1 .. 0 + 1 |-> l.first], 0)
      OBVIOUS
    <2>2. QED BY <2>1
  <1>3. ASSUME NEW n \in 0 .. N - 1, n \in P PROVE n + 1 \in P
    <2>1. PICK f : Equation(f, n)
      BY <1>3
    <2> DEFINE g == [i \in 1 .. (n + 1) + 1 |->
                       IF i = 1 THEN l.first ELSE IF f[i - 1] = Nil THEN Nil ELSE l.next[f[i - 1]]]
    <2>2. \A i \in 1 .. n + 1 : g[i] = f[i]
      BY <2>1
    <2>3. g = [i \in 1 .. (n + 1) + 1 |->
                 IF i = 1 THEN l.first ELSE IF f[i - 1] = Nil THEN Nil ELSE l.next[f[i - 1]]]
      OBVIOUS
    <2> HIDE DEF g
    <2>4. \A i \in 1 .. (n + 1) + 1 : i # 1 => f[i - 1] = g[i - 1]
      <3>1. \A i \in 1 .. (n + 1) + 1 : i # 1 => i - 1 \in 1 .. n + 1
        BY <1>1
      <3>2. QED BY <2>2, <3>1
    <2>5. Equation(g, n + 1)
      BY <2>3, <2>4
    <2> HIDE DEF Equation
    <2>6. n + 1 \in Nat /\ \E h : Equation(h, n + 1)
      BY <2>5
    <2>7. QED BY <2>6
  <1>4. N \in P
    <2> HIDE DEF P, N
    <2>1. N \in 0 .. N
      BY <1>1
    <2>2. QED BY <1>1, <1>2, <1>3, <2>1, UpTo
  <1> DEFINE F == CHOOSE f : Equation(f, N)
  <1>5. Equation(F, N)
    <2> HIDE DEF Equation
    <2>1. QED BY <1>4
  <1>6. Walk(l) = [i \in {k \in 1 .. N + 1 : F[k] # Nil} |-> F[i]]
    BY DEF Walk
  <1> HIDE DEF F
  <1>7. QED BY <1>5, <1>6

LEMMA WalkMeetsAll ==
  ASSUME NEW l, NEW rank, Ordered(l, rank)
  PROVE  Walked(Walk(l), l)
  <1> DEFINE N == Cardinality(Entries)
             w == Walk(l)
  <1>0. N \in Nat
    BY EntriesAreFinite, FS_CardinalityType
  <1>1. PICK At : /\ At = [i \in 1 .. N + 1 |->
                             IF i = 1 THEN l.first
                             ELSE IF At[i - 1] = Nil THEN Nil ELSE l.next[At[i - 1]]]
                  /\ w = [i \in {k \in 1 .. N + 1 : At[k] # Nil} |-> At[i]]
    BY WalkSteps
  <1> HIDE DEF N, w
  <1>2. /\ At[1] = l.first
        /\ \A k \in 1 .. N : At[k + 1] = IF At[k] = Nil THEN Nil ELSE l.next[At[k]]
    BY <1>0, <1>1
  <1>3. \A k \in 0 .. N : At[k + 1] = Nil \/ At[k + 1] \in Held(l)
    <2> DEFINE S == {k \in 0 .. N : At[k + 1] = Nil \/ At[k + 1] \in Held(l)}
    <2>1. 0 \in S
      BY <1>0, <1>2 DEF Ordered
    <2>2. ASSUME NEW k \in 0 .. N - 1, k \in S PROVE k + 1 \in S
      <3>1. k + 1 \in 1 .. N /\ k + 1 \in 0 .. N
        BY <1>0
      <3>2. At[(k + 1) + 1] = IF At[k + 1] = Nil THEN Nil ELSE l.next[At[k + 1]]
        BY <1>2, <3>1
      <3>3. At[k + 1] \in Held(l) => l.next[At[k + 1]] = Nil \/ l.next[At[k + 1]] \in Held(l)
        BY DEF Ordered
      <3>4. QED BY <2>2, <3>1, <3>2, <3>3
    <2> HIDE DEF S
    <2>3. \A k \in 0 .. N : k \in S
      BY <1>0, <2>1, <2>2, UpTo
    <2>4. QED BY <2>3 DEF S
  <1>4. \A k \in 1 .. N + 1 : At[k] = Nil \/ At[k] \in Held(l)
    <2>1. \A k \in 1 .. N + 1 : k - 1 \in 0 .. N /\ (k - 1) + 1 = k
      BY <1>0
    <2>2. QED BY <1>3, <2>1
  <1>5. \A k \in 1 .. N : At[k + 1] # Nil =>
           /\ At[k] # Nil /\ At[k + 1] = l.next[At[k]] /\ l.prev[At[k + 1]] = At[k]
           /\ rank[At[k]] < rank[At[k + 1]]
    <2>1. SUFFICES ASSUME NEW k \in 1 .. N, At[k + 1] # Nil
                   PROVE  /\ At[k] # Nil /\ At[k + 1] = l.next[At[k]] /\ l.prev[At[k + 1]] = At[k]
                          /\ rank[At[k]] < rank[At[k + 1]]
      OBVIOUS
    <2>2. At[k] # Nil /\ At[k + 1] = l.next[At[k]]
      BY <1>2, <2>1
    <2>3. k \in 1 .. N + 1
      BY <1>0
    <2>4. At[k] \in Held(l)
      BY <1>4, <2>2, <2>3
    <2>5. At[k + 1] \in Held(l) \ {l.first} /\ l.prev[At[k + 1]] = At[k]
      BY <2>1, <2>2, <2>4 DEF Ordered
    <2>6. rank[At[k]] < rank[At[k + 1]]
      BY <2>5 DEF Ordered
    <2>7. QED BY <2>2, <2>5, <2>6
  <1>6. \A m \in 0 .. N : \A i \in 1 .. m : At[m + 1] # Nil => At[i] # Nil /\ rank[At[i]] < rank[At[m + 1]]
    <2> DEFINE S == {m \in 0 .. N : \A i \in 1 .. m : At[m + 1] # Nil => At[i] # Nil /\ rank[At[i]] < rank[At[m + 1]]}
    <2>1. 0 \in S
      BY <1>0
    <2>2. ASSUME NEW m \in 0 .. N - 1, m \in S PROVE m + 1 \in S
      <3>1. m + 1 \in 1 .. N /\ m + 1 \in 0 .. N
        BY <1>0
      <3>2. SUFFICES ASSUME NEW i \in 1 .. m + 1, At[(m + 1) + 1] # Nil
                     PROVE  At[i] # Nil /\ rank[At[i]] < rank[At[(m + 1) + 1]]
        BY <3>1
      <3>3. At[m + 1] # Nil /\ rank[At[m + 1]] < rank[At[(m + 1) + 1]]
        BY <1>5, <3>1, <3>2
      <3>4. CASE i = m + 1
        BY <3>3, <3>4
      <3>5. CASE i # m + 1
        <4>1. i \in 1 .. m
          BY <3>1, <3>5
        <4>2. At[i] # Nil /\ rank[At[i]] < rank[At[m + 1]]
          BY <2>2, <3>3, <4>1
        <4>3. i \in 1 .. N + 1 /\ m + 1 \in 1 .. N + 1 /\ (m + 1) + 1 \in 1 .. N + 1
          BY <1>0, <4>1
        <4>4. rank[At[i]] \in Nat /\ rank[At[m + 1]] \in Nat /\ rank[At[(m + 1) + 1]] \in Nat
          BY <1>4, <3>2, <3>3, <4>2, <4>3 DEF Ordered, Held
        <4>5. QED BY <3>3, <4>2, <4>4
      <3>6. QED BY <3>4, <3>5
    <2> HIDE DEF S
    <2>3. \A m \in 0 .. N : m \in S
      BY <1>0, <2>1, <2>2, UpTo
    <2>4. QED BY <2>3 DEF S
  <1>7. \E k \in 1 .. N + 1 : At[k] = Nil
    <2>1. SUFFICES ASSUME \A k \in 1 .. N + 1 : At[k] # Nil PROVE FALSE
      OBVIOUS
    <2>2. \A k \in 1 .. N + 1 : At[k] \in Entries
      BY <1>4, <2>1 DEF Held
    <2>3. [k \in 1 .. N + 1 |-> At[k]] \in [1 .. N + 1 -> Entries]
      BY <2>2
    <2>4. IsFiniteSet(1 .. N + 1) /\ Cardinality(1 .. N + 1) = N + 1
      BY <1>0, FS_Interval
    <2>5. PICK i \in 1 .. N + 1, j \in 1 .. N + 1 : i # j /\ At[i] = At[j]
      <3> DEFINE f == [k \in 1 .. N + 1 |-> At[k]]
      <3>1. Cardinality(Entries) < Cardinality(1 .. N + 1)
        BY <1>0, <2>4 DEF N
      <3>2. f \in [1 .. N + 1 -> Entries]
        BY <2>3
      <3> HIDE DEF f
      <3>3. \E i, j \in 1 .. N + 1 : i # j /\ f[i] = f[j]
        BY <2>4, <3>1, <3>2, EntriesAreFinite, FS_PigeonHole
      <3>4. QED BY <3>3 DEF f
    <2>6. ASSUME NEW a \in 1 .. N + 1, NEW b \in 1 .. N + 1, a < b PROVE At[a] # At[b]
      <3>1. b - 1 \in 0 .. N /\ a \in 1 .. b - 1 /\ (b - 1) + 1 = b
        BY <1>0, <2>6
      <3>2. rank[At[a]] < rank[At[b]]
        BY <1>6, <2>1, <3>1
      <3>3. rank[At[a]] \in Nat
        BY <2>2 DEF Ordered
      <3>4. QED BY <3>2, <3>3
    <2>7. QED BY <1>0, <2>5, <2>6
  <1>8. PICK n \in 0 .. N : At[n + 1] = Nil /\ \A k \in 1 .. n : At[k] # Nil
    <2> DEFINE T == {k \in 1 .. N + 1 : At[k] = Nil}
    <2>1. T \in SUBSET Nat /\ T # {}
      BY <1>0, <1>7
    <2>2. PICK k \in T : \A j \in T : ~(j < k)
      BY <2>1, LeastNumber
    <2>3. k - 1 \in 0 .. N /\ (k - 1) + 1 = k
      BY <1>0
    <2>4. \A j \in 1 .. k - 1 : At[j] # Nil
      <3>1. \A j \in 1 .. k - 1 : j \in 1 .. N + 1 /\ j < k
        BY <1>0
      <3>2. QED BY <2>2, <3>1
    <2>5. QED BY <2>2, <2>3, <2>4
  <1>9. {k \in 1 .. N + 1 : At[k] # Nil} = 1 .. n
    <2>1. ASSUME NEW k \in 1 .. N + 1, At[k] # Nil PROVE k \in 1 .. n
      <3>1. SUFFICES ASSUME k > n PROVE FALSE
        BY <1>0
      <3>2. k # n + 1
        BY <1>8, <2>1
      <3>3. k - 1 \in 0 .. N /\ n + 1 \in 1 .. k - 1 /\ (k - 1) + 1 = k
        BY <1>0, <3>1, <3>2
      <3>4. QED BY <1>6, <1>8, <2>1, <3>3
    <2>2. ASSUME NEW k \in 1 .. n PROVE k \in 1 .. N + 1 /\ At[k] # Nil
      BY <1>0, <1>8
    <2>3. QED BY <2>1, <2>2
  <1>10. w = [i \in 1 .. n |-> At[i]]
    BY <1>1, <1>9
  <1>11. \A i \in 1 .. n : w[i] = At[i] /\ At[i] \in Held(l)
    BY <1>4, <1>9, <1>10
  <1>12. w \in [1 .. n -> Entries] /\ Len(w) = n
    <2>1. w \in [1 .. n -> Entries]
      BY <1>10, <1>11 DEF Held
    <2>2. w \in Seq(Entries) /\ Len(w) = n
      BY <1>0, <2>1
    <2>3. QED BY <2>1, <2>2
  <1>13. \A i \in 1 .. n - 1 : w[i + 1] = l.next[w[i]] /\ l.prev[w[i + 1]] = w[i]
    <2>1. SUFFICES ASSUME NEW i \in 1 .. n - 1 PROVE w[i + 1] = l.next[w[i]] /\ l.prev[w[i + 1]] = w[i]
      OBVIOUS
    <2>2. i \in 1 .. N /\ i \in 1 .. n /\ i + 1 \in 1 .. n
      BY <1>0
    <2>3. At[i + 1] # Nil
      BY <1>8, <2>2
    <2>4. QED BY <1>5, <1>11, <2>2, <2>3
  <1>14. n = 0 <=> l.first = Nil
    <2>1. CASE n = 0
      BY <1>2, <1>8, <2>1
    <2>2. CASE n # 0
      <3>1. 1 \in 1 .. n
        BY <1>0, <2>2
      <3>2. QED BY <1>2, <1>8, <2>2, <3>1
    <2>3. QED BY <2>1, <2>2
  <1>15. n > 0 => w[1] = l.first /\ w[n] = l.last
    <2>1. SUFFICES ASSUME n > 0 PROVE w[1] = l.first /\ w[n] = l.last
      OBVIOUS
    <2>2. 1 \in 1 .. n /\ n \in 1 .. n /\ n \in 1 .. N
      BY <1>0, <2>1
    <2>3. l.next[At[n]] = Nil
      BY <1>2, <1>8, <2>2
    <2>4. QED BY <1>2, <1>11, <2>2, <2>3 DEF Ordered
  <1>16. Held(l) = {w[i] : i \in 1 .. n}
    <2> DEFINE missed == {e \in Held(l) : \A i \in 1 .. n : w[i] # e}
    <2>1. missed = {}
      <3>1. SUFFICES ASSUME missed # {} PROVE FALSE
        OBVIOUS
      <3>2. missed \in SUBSET Entries /\ rank \in [Entries -> Nat]
        BY DEF Held, Ordered
      <3>3. PICK c \in missed : \A b \in missed : ~(rank[b] < rank[c])
        BY <3>1, <3>2, LeastRank
      <3>4. c # l.first /\ n > 0
        <4>1. l.first # Nil
          BY <3>3 DEF Ordered
        <4>2. n > 0 /\ 1 \in 1 .. n
          BY <1>0, <1>14, <4>1
        <4>3. QED BY <1>15, <3>3, <4>2
      <3>5. l.prev[c] \in Held(l) /\ l.next[l.prev[c]] = c /\ rank[l.prev[c]] < rank[c]
        BY <3>3, <3>4 DEF Ordered
      <3>6. PICK i \in 1 .. n : w[i] = l.prev[c]
        BY <3>3, <3>5
      <3>7. c # Nil
        BY <3>3, NilIsNoEntry DEF Held
      <3>8. CASE i = n
        <4>1. n \in 1 .. N
          BY <1>0, <3>4
        <4>2. At[n + 1] = l.next[At[n]]
          BY <1>2, <1>8, <3>6, <3>8, <4>1
        <4>3. QED BY <1>8, <1>11, <3>5, <3>6, <3>7, <3>8, <4>2
      <3>9. CASE i # n
        <4>1. i \in 1 .. n - 1 /\ i + 1 \in 1 .. n
          BY <1>0, <3>9
        <4>2. w[i + 1] = c
          BY <1>13, <3>5, <3>6, <4>1
        <4>3. QED BY <3>3, <4>1, <4>2
      <3>10. QED BY <3>8, <3>9
    <2>2. \A i \in 1 .. n : w[i] \in Held(l)
      BY <1>11
    <2>3. QED BY <2>1, <2>2
  <1>17. QED BY <1>12, <1>13, <1>14, <1>15, <1>16 DEF Walked, w, N

\* gp_filesystem_lru_check finds nothing wrong.
LEMMA LinkedIsIntact ==
  ASSUME NEW l, Linked(l)
  PROVE  ListIntact(l) /\ Walked(Walk(l), l)
  <1>1. PICK rank \in [Entries -> Nat] : Ordered(l, rank)
    BY DEF Linked
  <1>2. Walked(Walk(l), l)
    BY <1>1, WalkMeetsAll
  <1> DEFINE w == Walk(l)
  <1> HIDE DEF w
  <1>3. PICK n \in 0 .. Cardinality(Entries) :
          /\ w \in [1 .. n -> Entries] /\ Len(w) = n
          /\ n = 0 <=> l.first = Nil
          /\ n > 0 => w[1] = l.first /\ w[n] = l.last
          /\ \A i \in 1 .. n - 1 : w[i + 1] = l.next[w[i]] /\ l.prev[w[i + 1]] = w[i]
    BY <1>2 DEF Walked, w
  <1>4. Cardinality(Entries) \in Nat
    BY EntriesAreFinite, FS_CardinalityType
  <1>5. Len(w) <= Cardinality(Entries) /\ DOMAIN w = 1 .. n
    BY <1>3, <1>4
  <1>6. ASSUME NEW i \in 1 .. n PROVE l.prev[w[i]] = w[IF i = 1 THEN 1 ELSE i - 1]
    <2>1. CASE i = 1
      <3>1. w[1] = l.first /\ l.first # Nil
        BY <1>3, <1>4, <2>1
      <3>2. l.prev[l.first] = l.first
        BY <1>1, <3>1 DEF Ordered
      <3>3. QED BY <2>1, <3>1, <3>2
    <2>2. CASE i # 1
      <3>1. i - 1 \in 1 .. n - 1 /\ (i - 1) + 1 = i
        BY <1>4, <2>2
      <3>2. QED BY <1>3, <2>2, <3>1
    <2>3. QED BY <2>1, <2>2
  <1>7. ListIntact(l)
    BY <1>5, <1>6 DEF ListIntact, w
  <1>8. QED BY <1>2, <1>7

-----------------------------------------------------------------------------
(* The invariants.  The tree is sound by itself: folders hang together from *)
(* the root, nothing is held of what is not in it, and the list holds only  *)
(* entries with content.                                                    *)

TreeType ==
  [folders : SUBSET Paths, foldersDirty : SUBSET Paths, filesDirty : SUBSET Paths,
   files : SUBSET Entries,
   normal : [Entries -> {"none", "current", "old"}],
   info : [Entries -> {"dirty", "current", "old"}],
   lru : ListType, unread : SUBSET Paths, twice : SUBSET Paths,
   lost : SUBSET Entries, lostDirs : SUBSET Paths]

Rooted(x) ==
  /\ Root \in x.folders
  /\ \A p \in x.folders \ {Root} : Front(p) \in x.folders
  /\ x.foldersDirty \subseteq x.folders /\ x.filesDirty \subseteq x.folders
  /\ x.unread \subseteq x.folders /\ x.twice \subseteq x.folders
  /\ \A e \in x.files : e[1] \in x.folders

Blank(x) == \A e \in Entries \ x.files : x.normal[e] = "none" /\ x.info[e] = "dirty"

Holds(x) == Linked(x.lru) /\ \A e \in Held(x.lru) : e \in x.files /\ x.normal[e] # "none"

Sound(x) == x \in TreeType /\ Rooted(x) /\ Blank(x) /\ Holds(x)

(* The camera's own tree, and the events n still to be handled. *)

CameraHolds(d) ==
  /\ d \in [dirs : SUBSET Paths, files : SUBSET Entries]
  /\ Root \in d.dirs /\ \A p \in d.dirs \ {Root} : Front(p) \in d.dirs
  /\ \A e \in d.files : e[1] \in d.dirs

Kinds == {"Added", "Removed", "Changed"}
Told(n, kind) == {e \in Entries : \E i \in DOMAIN n : n[i] = <<kind, e>>}
Removing(n) == Told(n, "Removed") # {}

(* Folders are the camera's; one the tree does not know, in a folder that   *)
(* counts as clean, came with a file still to be announced.  Neither is     *)
(* said of a folder made or removed by a call that failed.                  *)
Known(x, d, n) ==
  /\ x.folders \subseteq d.dirs \cup x.lostDirs
  /\ \/ Removing(n)
     \/ \A q \in d.dirs \ (x.folders \cup x.lostDirs \cup {Root}) :
          Front(q) \in x.folders \ x.foldersDirty =>
             \E e \in Told(n, "Added") \cap d.files : IsPrefix(q, e[1])

(* The files of a folder that counts as clean are the camera's and the      *)
(* host's; one the tree lacks is still to be announced.  Of a file whose    *)
(* deletion or upload was made by a call that failed nothing is said.       *)
Exact(x, d, h, n) ==
  \/ Removing(n)
  \/ \A e \in Entries \ x.lost : e[1] \in x.folders \ x.filesDirty =>
       /\ e \in x.files => e \in d.files \cup h
       /\ e \in d.files \ Told(n, "Added") /\ e[1] \notin x.unread => e \in x.files

(* What is held of a file, its content or its information, is held of one   *)
(* there is, and old only as long as the camera's word of it is awaited.    *)
Vouched(x, d, h, n) ==
  \/ Removing(n)
  \/ \A e \in x.files \ x.lost :
       /\ x.normal[e] # "none" \/ x.info[e] # "dirty" => e \in d.files \cup h
       /\ x.normal[e] # "old"
       /\ "mtime" \notin InfoFields /\ x.info[e] = "old" => e \in d.files \cap Told(n, "Changed")

Current(x, d, h, n) == Sound(x) /\ Known(x, d, n) /\ Exact(x, d, h, n) /\ Vouched(x, d, h, n)

-----------------------------------------------------------------------------
(* Operations on the tree.                                                  *)

LEMMA EntryParts == \A e \in Entries : e[1] \in Paths /\ e[2] \in FileNames /\ e = <<e[1], e[2]>>
  BY DEF Entries

LEMMA InIs ==
  ASSUME NEW p \in Paths
  PROVE  In(p) \subseteq Entries /\ \A e \in Entries : e \in In(p) <=> e[1] = p
  BY EntryParts DEF In, Entries

\* Deleted entries leave nothing behind, and nothing else changes.
LEMMA DropIs ==
  ASSUME NEW x, Sound(x), NEW gone \in SUBSET Entries
  PROVE  LET y == DropEntries(x, gone)
         IN  /\ Sound(y)
             /\ y.folders = x.folders /\ y.foldersDirty = x.foldersDirty
             /\ y.filesDirty = x.filesDirty /\ y.unread = x.unread
             /\ y.twice = x.twice /\ y.lost = x.lost \ gone /\ y.lostDirs = x.lostDirs
             /\ y.files = x.files \ gone
             /\ \A e \in Entries : /\ y.normal[e] = IF e \in gone THEN "none" ELSE x.normal[e]
                                   /\ y.info[e] = IF e \in gone THEN "dirty" ELSE x.info[e]
  <1> DEFINE y == DropEntries(x, gone)
             held == {e \in gone : x.lru.prev[e] # Nil}
  <1>1. x \in TreeType
    BY DEF Sound
  <1>2. PICK rank \in [Entries -> Nat] : Ordered(x.lru, rank)
    BY DEF Sound, Holds, Linked
  <1>3. Ordered(FoldSet(Unlink, x.lru, held), rank) /\ Held(FoldSet(Unlink, x.lru, held)) = Held(x.lru) \ held
    BY <1>2, FoldTakesOff
  <1>4. /\ y.folders = x.folders /\ y.foldersDirty = x.foldersDirty
        /\ y.filesDirty = x.filesDirty /\ y.unread = x.unread
        /\ y.twice = x.twice /\ y.lost = x.lost \ gone /\ y.lostDirs = x.lostDirs
        /\ y.files = x.files \ gone
        /\ y.lru = FoldSet(Unlink, x.lru, held)
        /\ \A e \in Entries : /\ y.normal[e] = IF e \in gone THEN "none" ELSE x.normal[e]
                              /\ y.info[e] = IF e \in gone THEN "dirty" ELSE x.info[e]
    BY <1>1 DEF DropEntries, TreeType
  <1>5. y.lru \in ListType
    BY <1>3, <1>4 DEF Ordered
  <1>6. y \in TreeType
    <2>1. FoldSet(Unlink, x.lru, held) \in ListType
      BY <1>3 DEF Ordered
    <2> HIDE DEF held
    <2>2. /\ [e \in Entries |-> IF e \in gone THEN "none" ELSE x.normal[e]] \in [Entries -> {"none", "current", "old"}]
          /\ [e \in Entries |-> IF e \in gone THEN "dirty" ELSE x.info[e]] \in [Entries -> {"dirty", "current", "old"}]
      BY <1>1 DEF TreeType
    <2>3. y = [x EXCEPT !.files = @ \ gone, !.lost = @ \ gone,
                        !.normal = [e \in Entries |-> IF e \in gone THEN "none" ELSE x.normal[e]],
                        !.info = [e \in Entries |-> IF e \in gone THEN "dirty" ELSE x.info[e]],
                        !.lru = FoldSet(Unlink, x.lru, held)]
      BY DEF DropEntries, held
    <2> HIDE DEF y
    <2>4. QED BY <1>1, <2>1, <2>2, <2>3 DEF TreeType
  <1> HIDE DEF y
  <1>7. Rooted(y)
    BY <1>4 DEF Sound, Rooted
  <1>8. Blank(y)
    BY <1>4 DEF Sound, Blank
  <1>9. Held(y.lru) = Held(x.lru) \ gone
    BY <1>3, <1>4 DEF Held
  <1>10. Holds(y)
    <2>1. Linked(y.lru)
      BY <1>2, <1>3, <1>4 DEF Linked
    <2>2. \A e \in Held(y.lru) : e \in y.files /\ y.normal[e] # "none"
      <3>1. \A e \in Held(x.lru) : e \in Entries /\ e \in x.files /\ x.normal[e] # "none"
        BY DEF Sound, Holds, Held
      <3>2. QED BY <1>4, <1>9, <3>1
    <2>3. QED BY <2>1, <2>2 DEF Holds
  <1>11. QED BY <1>4, <1>6, <1>7, <1>8, <1>10 DEF Sound, y

\* A tree that differs in its marks and folders only, but is well rooted.
LEMMA SoundAgain ==
  ASSUME NEW x, Sound(x), NEW y \in TreeType,
         y.files = x.files, y.normal = x.normal, y.info = x.info, y.lru = x.lru,
         Rooted(y)
  PROVE  Sound(y)
  BY DEF Sound, Blank, Holds

\* A listing of subfolders: what was known below is gone, the rest stays.
LEMMA LoadFoldersIs ==
  ASSUME NEW x, Sound(x), NEW p \in Paths, NEW w, CameraHolds(device),
         p \in x.foldersDirty, p \notin w.folders
  PROVE  LET y == LoadFolders(x, p, w)
             others == x.folders \ Below(p)
             listed == {q \in device.dirs : q # Root /\ Front(q) = p}
         IN  /\ Sound(y)
             /\ y.folders = others \cup listed
             /\ y.foldersDirty = ((x.foldersDirty \cap others) \ {p}) \cup listed
             /\ y.filesDirty = (x.filesDirty \cap others) \cup listed
             /\ y.unread = x.unread \cap others
             /\ y.lostDirs = x.lostDirs \ Below(p) /\ x.lost \ y.lost \subseteq {e \in Entries : e[1] \notin others}
             /\ y.lost \subseteq x.lost
             /\ y.files = {e \in x.files : e[1] \in others}
             /\ \A e \in y.files : y.normal[e] = x.normal[e] /\ y.info[e] = x.info[e]
             /\ p \in others /\ others \cap listed = {}
  <1> DEFINE y == LoadFolders(x, p, w)
             others == x.folders \ Below(p)
             listed == {q \in device.dirs : q # Root /\ Front(q) = p}
             gone == UNION {In(q) : q \in x.folders \cap Below(p)}
             z == DropEntries(x, gone)
  <1>1. x \in TreeType /\ x.folders \subseteq Paths /\ p \in x.folders /\ device.dirs \subseteq Paths
    BY DEF Sound, TreeType, Rooted, CameraHolds
  <1>2. ChildrenIn(device.dirs, p) = listed
    BY <1>1, ChildrenByParent
  <1>3. gone \subseteq Entries /\ \A e \in Entries : e \in gone <=> e[1] \in x.folders \cap Below(p)
    BY <1>1, InIs, EntryParts
  <1>4. y = [z EXCEPT !.folders = others \cup listed,
                      !.foldersDirty = ((@ \cap others) \ {p}) \cup listed,
                      !.filesDirty = (@ \cap others) \cup listed,
                      !.unread = @ \cap others,
                      !.lostDirs = @ \ Below(p), !.twice = @ \ Below(p)]
    BY <1>2 DEF LoadFolders
  <1> HIDE DEF gone
  <1>5. /\ Sound(z)
        /\ z.folders = x.folders /\ z.foldersDirty = x.foldersDirty
        /\ z.filesDirty = x.filesDirty /\ z.unread = x.unread
        /\ z.twice = x.twice /\ z.lost = x.lost \ gone /\ z.lostDirs = x.lostDirs
        /\ z.files = x.files \ gone
        /\ \A e \in Entries : /\ z.normal[e] = IF e \in gone THEN "none" ELSE x.normal[e]
                              /\ z.info[e] = IF e \in gone THEN "dirty" ELSE x.info[e]
    BY <1>3, DropIs
  <1>6. /\ others \cup listed \in SUBSET Paths
        /\ ((z.foldersDirty \cap others) \ {p}) \cup listed \in SUBSET Paths
        /\ (z.filesDirty \cap others) \cup listed \in SUBSET Paths
        /\ z.unread \cap others \in SUBSET Paths
        /\ z.lostDirs \ Below(p) \in SUBSET Paths /\ z.twice \ Below(p) \in SUBSET Paths
    BY <1>1, <1>5 DEF Sound, TreeType
  <1> HIDE DEF z, y
  <1>7. y = [z EXCEPT !.folders = others \cup listed,
                      !.foldersDirty = ((z.foldersDirty \cap others) \ {p}) \cup listed,
                      !.filesDirty = (z.filesDirty \cap others) \cup listed,
                      !.unread = z.unread \cap others,
                      !.lostDirs = z.lostDirs \ Below(p), !.twice = z.twice \ Below(p)]
    BY <1>4
  <1>8. /\ y.folders = others \cup listed
        /\ y.foldersDirty = ((z.foldersDirty \cap others) \ {p}) \cup listed
        /\ y.filesDirty = (z.filesDirty \cap others) \cup listed
        /\ y.unread = z.unread \cap others
        /\ y.lostDirs = z.lostDirs \ Below(p) /\ y.twice = z.twice \ Below(p) /\ y.lost = z.lost
        /\ y.files = z.files /\ y.normal = z.normal /\ y.info = z.info /\ y.lru = z.lru
        /\ y \in TreeType
    <2> HIDE DEF others, listed
    <2>1. QED BY <1>5, <1>6, <1>7 DEF Sound, TreeType
  <1>9. y.files = {e \in x.files : e[1] \in others}
    <2>1. \A e \in x.files : e \in Entries /\ e[1] \in x.folders
      BY <1>1 DEF Sound, Rooted, TreeType
    <2>2. QED BY <1>3, <1>5, <1>8, <2>1
  <1>10. \A e \in y.files : y.normal[e] = x.normal[e] /\ y.info[e] = x.info[e]
    <2>1. \A e \in y.files : e \in Entries /\ e \notin gone
      BY <1>1, <1>5, <1>8 DEF TreeType
    <2>2. QED BY <1>5, <1>8, <2>1
  <1>11. p \in others /\ others \cap listed = {} /\ Root \in others
    <2>1. p \notin Below(p) /\ Root \notin Below(p)
      BY NotBelow
    <2>2. \A q \in listed : q \in Below(p)
      BY <1>1, BelowByParent
    <2>3. QED BY <1>1, <2>1, <2>2 DEF Sound, Rooted
  <1>12. Rooted(y)
    <2>1. ASSUME NEW q \in y.folders \ {Root} PROVE Front(q) \in y.folders
      <3>1. CASE q \in listed
        BY <1>8, <1>11, <3>1
      <3>2. CASE q \in others
        <4>1. q \in Paths /\ Front(q) \in x.folders
          BY <1>1, <2>1, <3>2 DEF Sound, Rooted
        <4>2. Front(q) \notin Below(p)
          BY <2>1, <3>2, <4>1, BelowByParent
        <4>3. QED BY <1>8, <4>1, <4>2
      <3>3. QED BY <1>8, <2>1, <3>1, <3>2
    <2>2. \A e \in y.files : e[1] \in y.folders
      BY <1>8, <1>9
    <2>3. y.twice \subseteq y.folders
      BY <1>1, <1>5, <1>8 DEF Sound, Rooted
    <2> HIDE DEF others, listed
    <2>4. QED BY <1>8, <1>11, <2>1, <2>2, <2>3 DEF Rooted
  <1>13. Sound(y)
    BY <1>5, <1>8, <1>12, SoundAgain
  <1>14. x.lost \ y.lost \subseteq {e \in Entries : e[1] \notin others} /\ y.lost \subseteq x.lost
    <2>1. \A e \in x.lost : e \in Entries
      BY <1>1 DEF TreeType
    <2>2. QED BY <1>3, <1>5, <1>8, <2>1
  <1> HIDE DEF others, listed
  <1>15. QED BY <1>5, <1>8, <1>9, <1>10, <1>11, <1>13, <1>14 DEF y, others, listed

\* A listing of subfolders takes the camera's word.
LEMMA LoadFoldersCurrent ==
  ASSUME NEW x, NEW p \in Paths, NEW w, NEW h, NEW n, CameraHolds(device), Current(x, device, h, n)
  PROVE  Current(LoadFolders(x, p, w), device, h, n)
  <1> DEFINE y == LoadFolders(x, p, w)
             others == x.folders \ Below(p)
             listed == {q \in device.dirs : q # Root /\ Front(q) = p}
  <1>1. CASE p \notin x.foldersDirty \/ p \in w.folders
    BY <1>1 DEF LoadFolders
  <1>2. CASE p \in x.foldersDirty /\ p \notin w.folders
    <2>1. Sound(x) /\ x \in TreeType /\ x.folders \subseteq Paths /\ device.dirs \subseteq Paths
      BY DEF Current, Sound, TreeType, CameraHolds
    <2>2. /\ Sound(y)
          /\ y.folders = others \cup listed
          /\ y.foldersDirty = ((x.foldersDirty \cap others) \ {p}) \cup listed
          /\ y.filesDirty = (x.filesDirty \cap others) \cup listed
          /\ y.unread = x.unread \cap others
          /\ y.lostDirs = x.lostDirs \ Below(p) /\ x.lost \ y.lost \subseteq {e \in Entries : e[1] \notin others}
          /\ y.files = {e \in x.files : e[1] \in others}
          /\ \A e \in y.files : y.normal[e] = x.normal[e] /\ y.info[e] = x.info[e]
          /\ p \in others /\ others \cap listed = {}
      BY <1>2, <2>1, LoadFoldersIs
    <2> HIDE DEF y
    <2>3. Known(y, device, n)
      <3>1. y.folders \subseteq device.dirs \cup y.lostDirs
        BY <2>2 DEF Current, Known
      <3>2. ASSUME ~Removing(n), NEW q \in device.dirs \ (y.folders \cup y.lostDirs \cup {Root}),
                   Front(q) \in y.folders \ y.foldersDirty
            PROVE  \E e \in Told(n, "Added") \cap device.files : IsPrefix(q, e[1])
        <4>1. q \in Paths /\ Front(q) # p
          BY <2>1, <2>2, <3>2
        <4>2. Front(q) \in others \ x.foldersDirty
          BY <2>2, <3>2, <4>1
        <4>3. q \notin Below(p)
          BY <4>1, <4>2, BelowByParent
        <4>4. q \notin x.folders \cup x.lostDirs
          BY <2>2, <3>2, <4>3
        <4>5. QED BY <3>2, <4>2, <4>4 DEF Current, Known
      <3>3. QED BY <3>1, <3>2 DEF Known
    <2>4. Exact(y, device, h, n)
      <3>1. SUFFICES ASSUME ~Removing(n), NEW e \in Entries \ y.lost, e[1] \in y.folders \ y.filesDirty
                     PROVE  /\ e \in y.files => e \in device.files \cup h
                            /\ e \in device.files \ Told(n, "Added") /\ e[1] \notin y.unread => e \in y.files
        BY DEF Exact
      <3>2. e[1] \in others \ x.filesDirty /\ e \notin x.lost
        BY <2>2, <3>1
      <3>3. /\ e \in x.files => e \in device.files \cup h
            /\ e \in device.files \ Told(n, "Added") /\ e[1] \notin x.unread => e \in x.files
        BY <3>1, <3>2 DEF Current, Exact
      <3> HIDE DEF others, listed
      <3>4. QED BY <2>2, <3>2, <3>3
    <2>5. Vouched(y, device, h, n)
      <3> HIDE DEF others, listed
      <3>1. \A e \in y.files \ y.lost : /\ e \in x.files \ x.lost
                                       /\ y.normal[e] = x.normal[e] /\ y.info[e] = x.info[e]
        BY <2>2
      <3>2. QED BY <3>1 DEF Current, Vouched
    <2>6. QED BY <2>2, <2>3, <2>4, <2>5 DEF Current, y
  <1>3. QED BY <1>1, <1>2

\* Of the folders on the way to p, one that counts as clean has the next.
WayKnown(x, p) ==
  \A k \in 0 .. Len(p) - 1 : Way(p, k) \in x.folders \ x.foldersDirty => Way(p, k + 1) \in x.folders

LEMMA CameraHasWay ==
  ASSUME NEW d, CameraHolds(d), NEW p \in d.dirs
  PROVE  \A k \in 0 .. Len(p) : Way(p, k) \in d.dirs
  <1>0. p \in Paths /\ Len(p) \in Nat /\ d.dirs \subseteq Paths
    BY PathType DEF CameraHolds
  <1> DEFINE S == {k \in 0 .. Len(p) : Way(p, Len(p) - k) \in d.dirs}
  <1>1. 0 \in S
    <2>1. Way(p, Len(p)) \in d.dirs /\ Len(p) - 0 = Len(p)
      BY <1>0, WayEnds
    <2>2. QED BY <1>0, <2>1
  <1>2. ASSUME NEW k \in 0 .. Len(p) - 1, k \in S PROVE k + 1 \in S
    <2>1. Len(p) - k \in 1 .. Len(p) /\ (Len(p) - k) - 1 = Len(p) - (k + 1)
      BY <1>0
    <2>2. Way(p, Len(p) - k) \in Paths \ {Root} /\ Front(Way(p, Len(p) - k)) = Way(p, Len(p) - (k + 1))
      BY <1>0, <2>1, WayParent
    <2>3. Way(p, Len(p) - k) \in d.dirs
      BY <1>2
    <2>4. Way(p, Len(p) - (k + 1)) \in d.dirs
      BY <2>2, <2>3 DEF CameraHolds
    <2>5. QED BY <1>0, <2>4
  <1> HIDE DEF S
  <1>3. \A k \in 0 .. Len(p) : k \in S
    BY <1>0, <1>1, <1>2, UpTo
  <1>4. ASSUME NEW k \in 0 .. Len(p) PROVE Way(p, k) \in d.dirs
    <2>1. Len(p) - k \in 0 .. Len(p) /\ Len(p) - (Len(p) - k) = k
      BY <1>0
    <2>2. Len(p) - k \in S
      BY <1>3, <2>1
    <2>3. QED BY <2>1, <2>2 DEF S
  <1>5. QED BY <1>4

\* The same of the tree, which is rooted like the camera.
LEMMA TreeHasWay ==
  ASSUME NEW x, Sound(x), NEW p \in x.folders
  PROVE  \A k \in 0 .. Len(p) : Way(p, k) \in x.folders
  <1>1. CameraHolds([dirs |-> x.folders, files |-> x.files])
    BY DEF Sound, TreeType, Rooted, CameraHolds
  <1>2. QED BY <1>1, CameraHasWay

LEMMA LoadFoldersWay ==
  ASSUME NEW x, Sound(x), NEW p \in device.dirs, NEW w, CameraHolds(device), WayKnown(x, p),
         NEW j \in 0 .. Len(p)
  PROVE  WayKnown(LoadFolders(x, Way(p, j), w), p)
  <1> DEFINE r == Way(p, j)
             y == LoadFolders(x, r, w)
             others == x.folders \ Below(r)
             listed == {q \in device.dirs : q # Root /\ Front(q) = r}
  <1>0. p \in Paths /\ Len(p) \in Nat /\ r \in Paths
    BY PathType, WayType DEF CameraHolds
  <1>1. CASE r \notin x.foldersDirty \/ r \in w.folders
    BY <1>1 DEF LoadFolders
  <1>2. CASE r \in x.foldersDirty /\ r \notin w.folders
    <2>1. /\ y.folders = others \cup listed
          /\ y.foldersDirty = ((x.foldersDirty \cap others) \ {r}) \cup listed
      <3> HIDE DEF r
      <3>1. QED BY <1>0, <1>2, LoadFoldersIs
    <2> HIDE DEF y
    <2>2. SUFFICES ASSUME NEW k \in 0 .. Len(p) - 1, Way(p, k) \in y.folders \ y.foldersDirty
                   PROVE  Way(p, k + 1) \in y.folders
      BY DEF WayKnown, y
    <2>3. /\ k + 1 \in 1 .. Len(p) /\ (k + 1) - 1 = k /\ k + 1 \in 0 .. Len(p)
      BY <1>0
    <2>4. /\ Way(p, k + 1) \in Paths \ {Root} /\ Front(Way(p, k + 1)) = Way(p, k)
          /\ Way(p, k + 1) \in device.dirs
      BY <1>0, <2>3, WayParent, CameraHasWay
    <2>5. CASE Way(p, k) = r
      BY <2>1, <2>4, <2>5
    <2>6. CASE Way(p, k) # r
      <3>1. Way(p, k) \in others \ x.foldersDirty
        BY <2>1, <2>2, <2>6
      <3>2. Way(p, k + 1) \in x.folders
        BY <2>2, <3>1 DEF WayKnown
      <3>3. Way(p, k + 1) \notin Below(r)
        BY <1>0, <2>4, <2>6, <3>1, BelowByParent
      <3>4. QED BY <2>1, <3>2, <3>3
    <2>7. QED BY <2>5, <2>6
  <1>3. QED BY <1>1, <1>2

\* A folder not known, or to be asked for its files, is not relied on.
Unlisted(x, f) == f \in x.folders => f \in x.filesDirty

LEMMA LoadFoldersUnlisted ==
  ASSUME NEW x, Sound(x), NEW p \in Paths, NEW w, CameraHolds(device), NEW f, Unlisted(x, f)
  PROVE  Unlisted(LoadFolders(x, p, w), f)
  <1>1. CASE p \notin x.foldersDirty \/ p \in w.folders
    BY <1>1 DEF LoadFolders
  <1>2. CASE p \in x.foldersDirty /\ p \notin w.folders
    <2> DEFINE y == LoadFolders(x, p, w)
               others == x.folders \ Below(p)
               listed == {q \in device.dirs : q # Root /\ Front(q) = p}
    <2>1. y.folders = others \cup listed /\ y.filesDirty = (x.filesDirty \cap others) \cup listed
      BY <1>2, LoadFoldersIs
    <2> HIDE DEF y, listed
    <2>2. QED BY <2>1 DEF Unlisted, y
  <1>3. QED BY <1>1, <1>2

\* The lookup of a path is a listing for each folder on the way.
LEMMA LookupSteps ==
  ASSUME NEW x, NEW p \in Paths, NEW w
  PROVE  \E Clean : /\ Clean[0] = x
                    /\ \A k \in 0 .. Len(p) - 1 : Clean[k + 1] = LoadFolders(Clean[k], Way(p, k), w)
                    /\ Lookup(x, p, w) = Clean[Len(p)]
  <1> DEFINE Equation(f, n) == f = [k \in 0 .. n |->
                                      IF k = 0 THEN x ELSE LoadFolders(f[k - 1], SubSeq(p, 1, k - 1), w)]
             N == Len(p)
             P == {n \in Nat : \E f : Equation(f, n)}
  <1>1. N \in Nat
    BY PathType
  <1>2. 0 \in P
    <2>1. Equation([k \in 0 .. 0 |-> x], 0)
      OBVIOUS
    <2>2. QED BY <2>1
  <1>3. ASSUME NEW n \in 0 .. N - 1, n \in P PROVE n + 1 \in P
    <2>0. n \in Nat
      OBVIOUS
    <2>1. PICK f : Equation(f, n)
      BY <1>3
    <2> DEFINE g == [k \in 0 .. n + 1 |-> IF k = 0 THEN x ELSE LoadFolders(f[k - 1], SubSeq(p, 1, k - 1), w)]
    <2>2. \A k \in 0 .. n : g[k] = f[k]
      BY <2>1
    <2>3. g = [k \in 0 .. n + 1 |-> IF k = 0 THEN x ELSE LoadFolders(f[k - 1], SubSeq(p, 1, k - 1), w)]
      OBVIOUS
    <2> HIDE DEF g
    <2>4. \A k \in 0 .. n + 1 : k # 0 => f[k - 1] = g[k - 1]
      <3>1. \A k \in 0 .. n + 1 : k # 0 => k - 1 \in 0 .. n
        BY <2>0
      <3>2. QED BY <2>2, <3>1
    <2>5. Equation(g, n + 1)
      BY <2>3, <2>4
    <2> HIDE DEF Equation
    <2>6. n + 1 \in Nat /\ \E c : Equation(c, n + 1)
      BY <2>0, <2>5
    <2>7. QED BY <2>6
  <1>4. N \in P
    <2> HIDE DEF P, N
    <2>1. N \in 0 .. N
      BY <1>1
    <2>2. QED BY <1>1, <1>2, <1>3, <2>1, UpTo
  <1> DEFINE F == CHOOSE f : Equation(f, N)
  <1>5. Equation(F, N)
    <2> HIDE DEF Equation
    <2>1. QED BY <1>4
  <1>6. Lookup(x, p, w) = F[N]
    BY DEF Lookup
  <1> HIDE DEF F
  <1>7. F[0] = x
    BY <1>1, <1>5
  <1>8. ASSUME NEW k \in 0 .. N - 1 PROVE F[k + 1] = LoadFolders(F[k], Way(p, k), w)
    <2>1. k + 1 \in 0 .. N /\ k + 1 # 0 /\ (k + 1) - 1 = k
      BY <1>1
    <2>2. F[k + 1] = LoadFolders(F[(k + 1) - 1], SubSeq(p, 1, (k + 1) - 1), w)
      BY <1>5, <2>1
    <2>3. QED BY <2>1, <2>2 DEF Way
  <1>9. QED BY <1>6, <1>7, <1>8

LEMMA LookupCurrent ==
  ASSUME NEW x, NEW p \in Paths, NEW w, NEW h, NEW n, CameraHolds(device), Current(x, device, h, n)
  PROVE  /\ Current(Lookup(x, p, w), device, h, n)
         /\ p \in device.dirs /\ WayKnown(x, p) => WayKnown(Lookup(x, p, w), p)
         /\ \A f : Unlisted(x, f) => Unlisted(Lookup(x, p, w), f)
  <1>1. PICK Clean : /\ Clean[0] = x
                     /\ \A k \in 0 .. Len(p) - 1 : Clean[k + 1] = LoadFolders(Clean[k], Way(p, k), w)
                     /\ Lookup(x, p, w) = Clean[Len(p)]
    <2>1. p \in Paths
      OBVIOUS
    <2>2. QED BY ONLY <2>1, LookupSteps
  <1> DEFINE S == {k \in 0 .. Len(p) : Current(Clean[k], device, h, n)}
             T == {k \in 0 .. Len(p) : WayKnown(Clean[k], p)}
  <1>2. Len(p) \in Nat /\ \A k \in 0 .. Len(p) - 1 : k \in 0 .. Len(p) /\ k + 1 \in 0 .. Len(p)
    BY PathType
  <1>3. \A k \in 0 .. Len(p) : Current(Clean[k], device, h, n)
    <2>1. 0 \in S
      BY <1>1, <1>2
    <2>2. ASSUME NEW k \in 0 .. Len(p) - 1, k \in S PROVE k + 1 \in S
      <3>1. Way(p, k) \in Paths
        BY <1>2, WayType
      <3>2. Current(LoadFolders(Clean[k], Way(p, k), w), device, h, n)
        BY <2>2, <3>1, LoadFoldersCurrent
      <3>3. QED BY <1>1, <1>2, <3>2
    <2> HIDE DEF S
    <2>3. \A k \in 0 .. Len(p) : k \in S
      BY <1>2, <2>1, <2>2, UpTo
    <2>4. QED BY <2>3 DEF S
  <1>4. ASSUME p \in device.dirs, WayKnown(x, p) PROVE WayKnown(Lookup(x, p, w), p)
    <2>1. 0 \in T
      BY <1>1, <1>2, <1>4
    <2>2. ASSUME NEW k \in 0 .. Len(p) - 1, k \in T PROVE k + 1 \in T
      <3>1. Sound(Clean[k]) /\ WayKnown(Clean[k], p)
        BY <1>2, <1>3, <2>2 DEF Current
      <3>2. WayKnown(LoadFolders(Clean[k], Way(p, k), w), p)
        BY <1>2, <1>4, <3>1, LoadFoldersWay
      <3>3. QED BY <1>1, <1>2, <3>2
    <2> HIDE DEF T
    <2>3. \A k \in 0 .. Len(p) : k \in T
      BY <1>2, <2>1, <2>2, UpTo
    <2>4. Len(p) \in T
      BY <1>2, <2>3
    <2>5. QED BY <1>1, <2>4 DEF T
  <1>5. ASSUME NEW f, Unlisted(x, f) PROVE Unlisted(Lookup(x, p, w), f)
    <2> DEFINE U == {k \in 0 .. Len(p) : Unlisted(Clean[k], f)}
    <2>1. 0 \in U
      BY <1>1, <1>2, <1>5
    <2>2. ASSUME NEW k \in 0 .. Len(p) - 1, k \in U PROVE k + 1 \in U
      <3>1. Sound(Clean[k]) /\ Unlisted(Clean[k], f) /\ Way(p, k) \in Paths
        BY <1>2, <1>3, <2>2, WayType DEF Current
      <3>2. Unlisted(LoadFolders(Clean[k], Way(p, k), w), f)
        BY <3>1, LoadFoldersUnlisted
      <3>3. QED BY <1>1, <1>2, <3>2
    <2> HIDE DEF U
    <2>3. \A k \in 0 .. Len(p) : k \in U
      BY <1>2, <2>1, <2>2, UpTo
    <2>4. Len(p) \in U
      BY <1>2, <2>3
    <2>5. QED BY <1>1, <2>4 DEF U
  <1>6. Current(Clean[Len(p)], device, h, n)
    BY <1>2, <1>3
  <1>7. QED BY <1>1, <1>4, <1>5, <1>6

\* Every folder on the way to a known one is known.
LEMMA PrefixKnown ==
  ASSUME NEW x, Sound(x), NEW p \in x.folders, NEW q \in Paths, IsPrefix(q, p)
  PROVE  q \in x.folders
  <1>1. p \in Paths
    BY DEF Sound, TreeType
  <1>2. PICK k \in 0 .. Len(p) : q = Way(p, k)
    BY <1>1, PrefixIsOnWay
  <1>3. QED BY <1>2, TreeHasWay

\* A listing of files: what was held of the folder's files is forgotten.
FilesLoaded(y, x, p, stored, w) ==
  /\ Sound(y)
  /\ y.folders = x.folders /\ y.foldersDirty = x.foldersDirty
  /\ y.filesDirty = x.filesDirty \ {p}
  /\ y.unread = IF p \in w.files THEN x.unread \cup {p} ELSE x.unread
  /\ y.lost = x.lost \ In(p) /\ y.lostDirs = x.lostDirs
  /\ y.files = (x.files \ In(p)) \cup (IF p \in w.files THEN {} ELSE stored \cap In(p))
  /\ \A e \in Entries : /\ y.normal[e] = IF e \in In(p) THEN "none" ELSE x.normal[e]
                        /\ y.info[e] = IF e \in In(p) THEN "dirty" ELSE x.info[e]

LEMMA LoadFilesIs ==
  ASSUME NEW x, Sound(x), NEW p \in x.filesDirty, NEW stored \in SUBSET Entries, NEW w
  PROVE  FilesLoaded(LoadFilesFrom(stored, x, p, w), x, p, stored, w)
  <1> DEFINE y == LoadFilesFrom(stored, x, p, w)
             z == DropEntries(x, In(p))
             found == IF p \in w.files THEN {} ELSE stored \cap In(p)
             unread == IF p \in w.files THEN x.unread \cup {p} ELSE x.unread
  <1>1. p \in Paths /\ p \in x.folders /\ x \in TreeType
    BY DEF Sound, Rooted, TreeType
  <1>2. In(p) \in SUBSET Entries /\ \A e \in Entries : e \in In(p) <=> e[1] = p
    BY <1>1, InIs
  <1>3. /\ Sound(z) /\ z \in TreeType
        /\ z.folders = x.folders /\ z.foldersDirty = x.foldersDirty
        /\ z.filesDirty = x.filesDirty /\ z.unread = x.unread
        /\ z.twice = x.twice /\ z.lost = x.lost \ In(p) /\ z.lostDirs = x.lostDirs
        /\ z.files = x.files \ In(p)
        /\ \A e \in Entries : /\ z.normal[e] = IF e \in In(p) THEN "none" ELSE x.normal[e]
                              /\ z.info[e] = IF e \in In(p) THEN "dirty" ELSE x.info[e]
    <2>1. Sound(z) => z \in TreeType
      BY DEF Sound
    <2>2. QED BY <1>2, <2>1, DropIs
  <1>4. y = IF p \in w.files
            THEN [[z EXCEPT !.filesDirty = @ \ {p}] EXCEPT !.unread = @ \cup {p}]
            ELSE [[z EXCEPT !.filesDirty = @ \ {p}] EXCEPT !.files = @ \cup (stored \cap In(p))]
    BY DEF LoadFilesFrom
  <1> HIDE DEF z, y
  <1>5. /\ y.folders = z.folders /\ y.foldersDirty = z.foldersDirty
        /\ y.filesDirty = z.filesDirty \ {p} /\ y.unread = unread
        /\ y.twice = z.twice /\ y.lost = z.lost /\ y.lostDirs = z.lostDirs
        /\ y.files = z.files \cup found
        /\ y.normal = z.normal /\ y.info = z.info /\ y.lru = z.lru
        /\ y \in TreeType
    <2>1. CASE p \in w.files
      BY <1>1, <1>3, <1>4, <2>1 DEF TreeType
    <2>2. CASE p \notin w.files
      BY <1>1, <1>2, <1>3, <1>4, <2>2 DEF TreeType
    <2>3. QED BY <2>1, <2>2
  <1>6. Rooted(y)
    <2>1. Rooted(x) /\ Rooted(z)
      BY <1>3 DEF Sound
    <2>2. \A e \in found : e[1] = p
      BY <1>2
    <2> HIDE DEF found
    <2>3. \A e \in y.files : e[1] \in y.folders
      BY <1>1, <1>3, <1>5, <2>1, <2>2 DEF Rooted
    <2>4. y.unread \subseteq y.folders
      BY <1>1, <1>3, <1>5, <2>1 DEF Rooted
    <2>5. QED BY <1>3, <1>5, <2>1, <2>3, <2>4 DEF Rooted
  <1>7. Blank(y)
    BY <1>3, <1>5 DEF Sound, Blank
  <1>8. Holds(y)
    BY <1>3, <1>5 DEF Sound, Holds
  <1>9. Sound(y)
    BY <1>5, <1>6, <1>7, <1>8 DEF Sound
  <1>10. QED BY <1>3, <1>5, <1>9 DEF FilesLoaded, y

\* A listing of files takes the camera's word, also when files of the
\* folder have been deleted that it still knew.
LEMMA LoadFilesCurrent ==
  ASSUME NEW x, NEW d, NEW h, NEW n, CameraHolds(d), Current(x, d, h, n),
         NEW p \in x.filesDirty, NEW w, NEW S \in SUBSET In(p),
         NEW stored, stored = d.files \ S,
         NEW c, c.dirs = d.dirs, c.files = stored,
         NEW y, FilesLoaded(y, x, p, stored, w)
  PROVE  Current(y, c, h, n)
  <1>1. /\ Sound(x) /\ p \in Paths /\ p \in x.folders
        /\ c.dirs = d.dirs /\ c.files = stored /\ stored \in SUBSET Entries
    BY DEF Current, Sound, Rooted, TreeType, CameraHolds
  <1>2. In(p) \subseteq Entries /\ \A e \in Entries : e \in In(p) <=> e[1] = p
    BY <1>1, InIs
  <1>3. /\ Sound(y)
        /\ y.folders = x.folders /\ y.foldersDirty = x.foldersDirty
        /\ y.filesDirty = x.filesDirty \ {p}
        /\ y.unread = IF p \in w.files THEN x.unread \cup {p} ELSE x.unread
        /\ y.lost = x.lost \ In(p) /\ y.lostDirs = x.lostDirs
        /\ y.files = (x.files \ In(p)) \cup (IF p \in w.files THEN {} ELSE stored \cap In(p))
        /\ \A e \in Entries : /\ y.normal[e] = IF e \in In(p) THEN "none" ELSE x.normal[e]
                              /\ y.info[e] = IF e \in In(p) THEN "dirty" ELSE x.info[e]
    BY DEF FilesLoaded
  <1>4. Known(y, c, n)
    <2>1. ASSUME ~Removing(n), NEW q \in d.dirs \ (x.folders \cup x.lostDirs \cup {Root}),
                 Front(q) \in x.folders \ x.foldersDirty
          PROVE  \E e \in Told(n, "Added") \cap stored : IsPrefix(q, e[1])
      <3>1. PICK e \in Told(n, "Added") \cap d.files : IsPrefix(q, e[1])
        BY <2>1 DEF Current, Known
      <3>2. q \in Paths
        BY <2>1 DEF CameraHolds
      <3>3. e \notin S
        <4>1. e \in In(p) => e[1] = p
          BY <1>2
        <4>2. e[1] # p
          BY <1>1, <2>1, <3>1, <3>2, PrefixKnown
        <4>3. QED BY <4>1, <4>2
      <3>4. QED BY <3>1, <3>3
    <2>2. x.folders \subseteq d.dirs \cup x.lostDirs
      BY DEF Current, Known
    <2>3. QED BY <1>1, <1>3, <2>1, <2>2 DEF Known
  <1>5. Exact(y, c, h, n)
    <2>1. SUFFICES ASSUME ~Removing(n), NEW e \in Entries \ y.lost, e[1] \in y.folders \ y.filesDirty
                   PROVE  /\ e \in y.files => e \in stored \cup h
                          /\ e \in stored \ Told(n, "Added") /\ e[1] \notin y.unread => e \in y.files
      BY <1>1 DEF Exact
    <2>2. CASE e[1] = p
      BY <1>2, <1>3, <2>2
    <2>3. CASE e[1] # p
      <3>1. e \notin In(p) /\ e \notin x.lost /\ e[1] \in x.folders \ x.filesDirty /\ (e[1] \in y.unread <=> e[1] \in x.unread)
        BY <1>2, <1>3, <2>1, <2>3
      <3>2. /\ e \in x.files => e \in d.files \cup h
            /\ e \in d.files \ Told(n, "Added") /\ e[1] \notin x.unread => e \in x.files
        BY <2>1, <3>1 DEF Current, Exact
      <3>3. QED BY <1>3, <3>1, <3>2
    <2>4. QED BY <2>2, <2>3
  <1>6. Vouched(y, c, h, n)
    <2>1. SUFFICES ASSUME ~Removing(n), NEW e \in y.files \ y.lost
                   PROVE  /\ y.normal[e] # "none" \/ y.info[e] # "dirty" => e \in stored \cup h
                          /\ y.normal[e] # "old"
                          /\ "mtime" \notin InfoFields /\ y.info[e] = "old" => e \in stored \cap Told(n, "Changed")
      BY <1>1 DEF Vouched
    <2>2. e \in Entries
      BY <1>3 DEF Sound, TreeType
    <2>3. CASE e \in In(p)
      BY <1>3, <2>2, <2>3
    <2>4. CASE e \notin In(p)
      <3>1. e \in x.files \ x.lost /\ y.normal[e] = x.normal[e] /\ y.info[e] = x.info[e] /\ e \notin S
        BY <1>3, <2>1, <2>2, <2>4
      <3>2. /\ x.normal[e] # "none" \/ x.info[e] # "dirty" => e \in d.files \cup h
            /\ x.normal[e] # "old"
            /\ "mtime" \notin InfoFields /\ x.info[e] = "old" => e \in d.files \cap Told(n, "Changed")
        BY <2>1, <3>1 DEF Current, Vouched
      <3>3. QED BY <3>1, <3>2
    <2>5. QED BY <2>3, <2>4
  <1>7. QED BY <1>3, <1>4, <1>5, <1>6 DEF Current

\* lookup_folder_file and gp_filesystem_list_files take the camera's word.
LEMMA ListedCurrent ==
  ASSUME NEW x, NEW p \in Paths, NEW w, NEW h, NEW n, CameraHolds(device), Current(x, device, h, n)
  PROVE  LET a == Listed(x, p, w)
         IN  /\ Current(a, device, h, n)
             /\ p \in device.dirs /\ WayKnown(x, p) => WayKnown(a, p)
             /\ \A f : f # p /\ Unlisted(x, f) => Unlisted(a, f)
             /\ Unlisted(x, p) /\ p \in a.folders => p \in a.unread \/ device.files \cap In(p) \subseteq a.files
             /\ ListsFiles(x, p, w) => p \in a.folders
             /\ Unlisted(x, p) /\ ~ListsFiles(x, p, w) /\ p \in a.folders => p \in a.unread
  <1> DEFINE y == Lookup(x, p, w)
             a == Listed(x, p, w)
  <1>1. /\ Current(y, device, h, n) /\ Sound(y)
        /\ p \in device.dirs /\ WayKnown(x, p) => WayKnown(y, p)
        /\ \A f : Unlisted(x, f) => Unlisted(y, f)
    BY LookupCurrent DEF Current
  <1>2. a = LoadFilesFrom(device.files, y, p, w)
    BY DEF Listed, LoadFiles
  <1>3. ListsFiles(x, p, w) <=> p \in y.folders /\ ~(p \in y.filesDirty /\ p \in w.files)
    BY DEF ListsFiles
  <1> HIDE DEF y, a
  <1>4. CASE p \notin y.filesDirty
    <2>1. a = y
      BY <1>2, <1>4 DEF LoadFilesFrom
    <2>2. QED BY <1>1, <1>3, <1>4, <2>1 DEF Unlisted, a
  <1>5. CASE p \in y.filesDirty
    <2>1. FilesLoaded(a, y, p, device.files, w)
      BY <1>1, <1>2, <1>5, LoadFilesIs DEF CameraHolds
    <2>2. {} \in SUBSET In(p) /\ device.files = device.files \ {}
      OBVIOUS
    <2>3. Current(a, device, h, n)
      BY <1>1, <1>5, <2>1, <2>2, LoadFilesCurrent
    <2>4. /\ a.folders = y.folders /\ a.foldersDirty = y.foldersDirty
          /\ a.filesDirty = y.filesDirty \ {p}
          /\ p \in a.unread \/ device.files \cap In(p) \subseteq a.files
          /\ p \in w.files => p \in a.unread
      BY <2>1 DEF FilesLoaded
    <2>5. QED BY <1>1, <1>3, <1>5, <2>3, <2>4 DEF Unlisted, WayKnown, a
  <1>6. QED BY <1>4, <1>5

\* A folder that the camera has, in a known one; it is to be listed.
LEMMA NewFolderCurrent ==
  ASSUME NEW x, NEW d, NEW h, NEW n, CameraHolds(d), Current(x, d, h, n),
         NEW q \in Paths, q # Root, Front(q) \in x.folders,
         NEW c, c.dirs = d.dirs \cup {q}, c.files = d.files
  PROVE  Current(NewFolder(x, q), c, h, n)
  <1> DEFINE y == NewFolder(x, q)
  <1>1. Sound(x) /\ x \in TreeType /\ Rooted(x)
    BY DEF Current, Sound
  <1>2. /\ y.folders = x.folders \cup {q} /\ y.foldersDirty = x.foldersDirty \cup {q}
        /\ y.filesDirty = x.filesDirty \cup {q} /\ y.unread = x.unread
        /\ y.lost = x.lost /\ y.lostDirs = x.lostDirs
        /\ y.twice = IF q \in x.folders THEN x.twice \cup {q} ELSE x.twice
        /\ y.files = x.files /\ y.normal = x.normal /\ y.info = x.info /\ y.lru = x.lru
        /\ y \in TreeType
    BY <1>1 DEF NewFolder, TreeType
  <1> HIDE DEF y
  <1>3. Rooted(y)
    BY <1>1, <1>2 DEF Rooted
  <1>4. Sound(y)
    BY <1>1, <1>2, <1>3, SoundAgain
  <1>5. Known(y, c, n)
    BY <1>2 DEF Current, Known
  <1>6. Exact(y, c, h, n)
    BY <1>2 DEF Current, Exact
  <1>7. Vouched(y, c, h, n)
    BY <1>2 DEF Current, Vouched
  <1>8. QED BY <1>4, <1>5, <1>6, <1>7 DEF Current, y

\* A file that is there, or in a folder still to be listed.
LEMMA AddFileCurrent ==
  ASSUME NEW x, NEW d, NEW h, NEW n, Current(x, d, h, n),
         NEW e \in Entries, e[1] \in x.folders, e \in d.files \cup h \/ e[1] \in x.filesDirty
  PROVE  LET y == [x EXCEPT !.files = @ \cup {e}]
         IN  /\ Current(y, d, h, n)
             /\ y.folders = x.folders /\ y.foldersDirty = x.foldersDirty /\ y.unread = x.unread
             /\ y.twice = x.twice /\ y.lost = x.lost /\ y.lostDirs = x.lostDirs
             /\ y.files = x.files \cup {e}
  <1> DEFINE y == [x EXCEPT !.files = @ \cup {e}]
  <1>1. Sound(x) /\ x \in TreeType /\ Rooted(x) /\ Blank(x) /\ Holds(x)
    BY DEF Current, Sound
  <1>2. /\ y.folders = x.folders /\ y.foldersDirty = x.foldersDirty
        /\ y.filesDirty = x.filesDirty /\ y.unread = x.unread
        /\ y.twice = x.twice /\ y.lost = x.lost /\ y.lostDirs = x.lostDirs
        /\ y.files = x.files \cup {e} /\ y.normal = x.normal /\ y.info = x.info /\ y.lru = x.lru
        /\ y \in TreeType
    BY <1>1 DEF TreeType
  <1> HIDE DEF y
  <1>3. Rooted(y)
    BY <1>1, <1>2 DEF Rooted
  <1>4. Blank(y)
    BY <1>1, <1>2 DEF Blank
  <1>5. Holds(y)
    BY <1>1, <1>2 DEF Holds
  <1>6. Known(y, d, n)
    BY <1>2 DEF Current, Known
  <1>7. Exact(y, d, h, n)
    BY <1>2 DEF Current, Exact
  <1>8. Vouched(y, d, h, n)
    <2>1. e \notin x.files => y.normal[e] = "none" /\ y.info[e] = "dirty"
      BY <1>1, <1>2 DEF Blank
    <2>2. QED BY <1>2, <2>1 DEF Current, Vouched
  <1>9. QED BY <1>2, <1>3, <1>4, <1>5, <1>6, <1>7, <1>8 DEF Current, Sound, y

\* Where append_folder stops: at the first folder of the way that is missing.
LEMMA AppendedIs ==
  ASSUME NEW x, Sound(x), NEW p \in Paths
  PROVE  LET f == Appended(x, p)
         IN  /\ p \in x.folders => f = p
             /\ p \notin x.folders =>
                  \E k \in 0 .. Len(p) - 1 :
                    f = Way(p, k + 1) /\ f \notin x.folders /\ Way(p, k) \in x.folders
  <1> DEFINE Stops(k) == /\ SubSeq(p, 1, k) \in x.folders
                         /\ k = Len(p) \/ SubSeq(p, 1, k + 1) \notin x.folders
             known == CHOOSE k \in 0 .. Len(p) : Stops(k)
             f == Appended(x, p)
  <1>0. Len(p) \in Nat
    BY PathType
  <1>1. f = SubSeq(p, 1, IF known = Len(p) THEN known ELSE known + 1)
    BY DEF Appended
  <1>2. \E k \in 0 .. Len(p) : Stops(k)
    <2>1. SUFFICES ASSUME \A k \in 0 .. Len(p) : ~Stops(k) PROVE FALSE
      OBVIOUS
    <2> DEFINE S == {k \in 0 .. Len(p) : Way(p, k) \in x.folders}
    <2>2. 0 \in S
      BY <1>0, WayEnds DEF Sound, Rooted
    <2>3. ASSUME NEW k \in 0 .. Len(p) - 1, k \in S PROVE k + 1 \in S
      <3>1. k \in 0 .. Len(p) /\ k + 1 \in 0 .. Len(p) /\ k # Len(p)
        BY <1>0
      <3>2. QED BY <2>1, <2>3, <3>1 DEF Way
    <2> HIDE DEF S
    <2>4. Len(p) \in S
      <3>1. \A k \in 0 .. Len(p) : k \in S
        BY <1>0, <2>2, <2>3, UpTo
      <3>2. QED BY <1>0, <3>1
    <2>5. Stops(Len(p)) /\ Len(p) \in 0 .. Len(p)
      BY <1>0, <2>4 DEF S, Way
    <2>6. QED BY <2>1, <2>5
  <1>3. known \in 0 .. Len(p) /\ Stops(known)
    <2> HIDE DEF Stops
    <2>1. QED BY <1>2
  <1> HIDE DEF known, f
  <1>4. ASSUME p \in x.folders PROVE f = p
    <2>1. known = Len(p)
      <3>1. SUFFICES ASSUME known # Len(p) PROVE FALSE
        OBVIOUS
      <3>2. known + 1 \in 0 .. Len(p)
        BY <1>0, <1>3, <3>1
      <3>3. Way(p, known + 1) \in x.folders
        BY <1>4, <3>2, TreeHasWay
      <3>4. QED BY <1>3, <3>1, <3>3 DEF Way
    <2>2. QED BY <1>1, <2>1, WayEnds DEF Way
  <1>5. ASSUME p \notin x.folders
        PROVE  \E k \in 0 .. Len(p) - 1 : f = Way(p, k + 1) /\ f \notin x.folders /\ Way(p, k) \in x.folders
    <2>1. known # Len(p)
      BY <1>3, <1>5, WayEnds DEF Way
    <2>2. known \in 0 .. Len(p) - 1
      BY <1>0, <1>3, <2>1
    <2>3. QED BY <1>1, <1>3, <2>1, <2>2 DEF Way
  <1>6. QED BY <1>4, <1>5 DEF f

\* gp_filesystem_append of a file that is there: the tree stays current, and
\* knows the file then, unless a listing failed.
LEMMA AppendCurrent ==
  ASSUME NEW x, NEW e \in Entries, NEW w, NEW h, NEW n, CameraHolds(device), Current(x, device, h, n),
         e[1] \in device.dirs, e \in device.files \cup h
  PROVE  LET a == AppendFile(x, e, w)
         IN  /\ Current(a, device, h, n)
             /\ WayKnown(a, e[1])
             /\ e \in device.files /\ e[1] \in a.folders \ a.unread => e \in a.files
  <1> DEFINE p == e[1]
             y == Lookup(x, p, w)
             f == Appended(y, p)
             z == IF p \in y.folders THEN y ELSE NewFolder(y, f)
             filled == IF f \in z.filesDirty THEN Listed(z, p, w) ELSE z
             a == AppendFile(x, e, w)
             added == [filled EXCEPT !.files = @ \cup {<<f, e[2]>>}]
  <1>1. p \in Paths /\ e = <<p, e[2]>> /\ e[2] \in FileNames /\ Len(p) \in Nat
    BY EntryParts, PathType
  <1>2. a = IF f \in z.filesDirty /\ ~ListsFiles(z, p, w) THEN filled ELSE added
    BY DEF AppendFile
  <1>3. Current(y, device, h, n) /\ Sound(y)
    BY <1>1, LookupCurrent DEF Current
  <1>4. /\ p \in y.folders => f = p
        /\ p \notin y.folders =>
             \E k \in 0 .. Len(p) - 1 : f = Way(p, k + 1) /\ f \notin y.folders /\ Way(p, k) \in y.folders
    BY <1>1, <1>3, AppendedIs
  <1> HIDE DEF a, y, f, added
  <1>5. /\ Current(z, device, h, n) /\ Sound(z) /\ WayKnown(z, p)
        /\ f \in Paths /\ f \in z.folders /\ IsPrefix(f, p)
        /\ f \notin z.filesDirty => f = p
        /\ f \in z.filesDirty => Unlisted(z, p) /\ Unlisted(z, f)
    <2>1. CASE p \in y.folders
      <3>1. z = y /\ f = p
        BY <1>4, <2>1
      <3>2. WayKnown(y, p)
        <4>1. \A k \in 0 .. Len(p) - 1 : k + 1 \in 0 .. Len(p)
          BY <1>1
        <4>2. QED BY <1>3, <2>1, <4>1, TreeHasWay DEF WayKnown
      <3>3. IsPrefix(p, p)
        BY <1>1 DEF IsPrefix
      <3>4. QED BY <1>1, <1>3, <2>1, <3>1, <3>2, <3>3 DEF Unlisted
    <2>2. CASE p \notin y.folders
      <3>1. PICK k \in 0 .. Len(p) - 1 : f = Way(p, k + 1) /\ f \notin y.folders /\ Way(p, k) \in y.folders
        BY <1>4, <2>2
      <3>2. k + 1 \in 1 .. Len(p) /\ (k + 1) - 1 = k /\ k + 1 \in 0 .. Len(p)
        BY <1>1
      <3>3. f \in Paths \ {Root} /\ Front(f) = Way(p, k)
        BY <1>1, <3>1, <3>2, WayParent
      <3>4. f \in device.dirs
        BY <3>1, <3>2, CameraHasWay
      <3>5. z = NewFolder(y, f)
        BY <2>2
      <3> HIDE DEF z
      <3>6. Current(z, device, h, n) /\ Sound(z)
        <4>1. device.dirs = device.dirs \cup {f}
          BY <3>4
        <4>2. Current(NewFolder(y, f), device, h, n)
          BY <1>3, <3>1, <3>3, <4>1, NewFolderCurrent
        <4>3. QED BY <3>5, <4>2 DEF Current
      <3>7. /\ z.folders = y.folders \cup {f} /\ z.foldersDirty = y.foldersDirty \cup {f}
            /\ z.filesDirty = y.filesDirty \cup {f}
        BY <1>3, <3>5 DEF NewFolder, Sound, TreeType
      <3>8. WayKnown(z, p)
        <4>1. SUFFICES ASSUME NEW j \in 0 .. Len(p) - 1, Way(p, j) \in z.folders \ z.foldersDirty
                       PROVE  Way(p, j + 1) \in z.folders
          BY DEF WayKnown
        <4>2. Way(p, j) \in y.folders
          BY <3>7, <4>1
        <4>3. j <= k
          <5>1. SUFFICES ASSUME k + 1 <= j PROVE FALSE
            BY <1>1
          <5>2. j \in 0 .. Len(p) /\ k + 1 \in 0 .. j
            BY <1>1, <5>1
          <5>3. Way(Way(p, j), k + 1) = f /\ Len(Way(p, j)) = j
            BY <1>1, <3>1, <5>2, WayOfWay, WayType
          <5>4. f \in y.folders
            BY <1>3, <4>2, <5>2, <5>3, TreeHasWay
          <5>5. QED BY <3>1, <5>4
        <4>4. CASE j = k
          BY <3>1, <3>7, <4>4
        <4>5. CASE j # k
          <5>1. j + 1 \in 0 .. k /\ k \in 0 .. Len(p)
            BY <1>1, <4>3, <4>5
          <5>2. Way(Way(p, k), j + 1) = Way(p, j + 1) /\ Len(Way(p, k)) = k
            BY <1>1, <5>1, WayOfWay, WayType
          <5>3. Way(p, j + 1) \in y.folders
            BY <1>3, <3>1, <5>1, <5>2, TreeHasWay
          <5>4. QED BY <3>7, <5>3
        <4>6. QED BY <4>4, <4>5
      <3>9. IsPrefix(f, p)
        BY <1>1, <3>1, <3>2, <3>3, PrefixIsOnWay
      <3>10. f \in z.folders /\ f \in z.filesDirty /\ Unlisted(z, p) /\ Unlisted(z, f)
        BY <2>2, <3>7 DEF Unlisted
      <3>11. QED BY <3>3, <3>6, <3>8, <3>9, <3>10
    <2>3. QED BY <2>1, <2>2
  <1> HIDE DEF z
  <1>6. <<f, e[2]>> \in Entries /\ <<f, e[2]>>[1] = f
    BY <1>1, <1>5 DEF Entries
  <1>7. CASE f \notin z.filesDirty
    <2>1. f = p /\ <<f, e[2]>> = e /\ filled = z /\ a = [z EXCEPT !.files = @ \cup {e}]
      BY <1>1, <1>2, <1>5, <1>7 DEF added
    <2>2. /\ Current(a, device, h, n)
          /\ a.folders = z.folders /\ a.foldersDirty = z.foldersDirty
          /\ a.files = z.files \cup {e}
      BY <1>5, <2>1, AddFileCurrent
    <2>3. WayKnown(a, p)
      BY <1>5, <2>2 DEF WayKnown
    <2>4. QED BY <2>2, <2>3 DEF a
  <1>8. CASE f \in z.filesDirty
    <2>1. filled = Listed(z, p, w)
      BY <1>8
    <2> HIDE DEF filled
    <2>2. /\ Current(filled, device, h, n) /\ WayKnown(filled, p)
          /\ f # p => Unlisted(filled, f)
          /\ p \in filled.folders => p \in filled.unread \/ device.files \cap In(p) \subseteq filled.files
          /\ ListsFiles(z, p, w) => p \in filled.folders
      BY <1>1, <1>5, <1>8, <2>1, ListedCurrent
    <2>3. e \in device.files => e \in device.files \cap In(p)
      BY <1>1, InIs
    <2>4. CASE ~ListsFiles(z, p, w)
      <3>1. a = filled
        BY <1>2, <1>8, <2>4
      <3>2. QED BY <2>2, <2>3, <3>1 DEF a
    <2>5. CASE ListsFiles(z, p, w)
      <3>1. a = [filled EXCEPT !.files = @ \cup {<<f, e[2]>>}]
        BY <1>2, <2>5 DEF added
      <3>2. p \in filled.folders /\ Sound(filled)
        BY <2>2, <2>5 DEF Current
      <3>3. f \in filled.folders
        BY <1>5, <3>2, PrefixKnown
      <3>4. <<f, e[2]>> \in device.files \cup h \/ f \in filled.filesDirty
        BY <1>1, <2>2, <3>3 DEF Unlisted
      <3>5. /\ Current(a, device, h, n)
            /\ a.folders = filled.folders /\ a.foldersDirty = filled.foldersDirty
            /\ a.unread = filled.unread
            /\ a.twice = filled.twice /\ a.lost = filled.lost /\ a.lostDirs = filled.lostDirs
            /\ a.files = filled.files \cup {<<f, e[2]>>}
        BY <1>6, <2>2, <3>1, <3>3, <3>4, AddFileCurrent
      <3>6. WayKnown(a, p)
        BY <2>2, <3>5 DEF WayKnown
      <3>7. QED BY <2>2, <2>3, <3>5, <3>6 DEF a
    <2>6. QED BY <2>4, <2>5
  <1>9. QED BY <1>7, <1>8

-----------------------------------------------------------------------------
(* Pruning lets go of downloaded pictures and of nothing else.              *)

Slimmer(y, x) ==
  /\ y \in TreeType
  /\ y.folders = x.folders /\ y.foldersDirty = x.foldersDirty /\ y.filesDirty = x.filesDirty
  /\ y.unread = x.unread /\ y.files = x.files /\ y.info = x.info
  /\ y.twice = x.twice /\ y.lost = x.lost /\ y.lostDirs = x.lostDirs
  /\ Linked(y.lru) /\ Held(y.lru) \subseteq Held(x.lru)
  /\ \A e \in Entries : /\ y.normal[e] \in {x.normal[e], "none"}
                        /\ e \in Held(y.lru) => y.normal[e] = x.normal[e]

LEMMA FreeFirstSlims ==
  ASSUME NEW x \in TreeType, Linked(x.lru), x.lru.first # Nil
  PROVE  /\ Slimmer(FreeFirst(x), x)
         /\ Held(FreeFirst(x).lru) = Held(x.lru) \ {x.lru.first}
         /\ \A rank : Ordered(x.lru, rank) => Ordered(FreeFirst(x).lru, rank)
  <1> DEFINE l == x.lru
             e == l.first
             after == l.next[e]
             m == [l EXCEPT !.first = after,
                            !.last = IF after = Nil THEN Nil ELSE @,
                            !.prev = [d \in Entries |->
                                        IF d = e THEN Nil ELSE IF d = after THEN d ELSE @[d]],
                            !.next[e] = Nil]
             y == FreeFirst(x)
  <1>1. PICK rank \in [Entries -> Nat] : Ordered(l, rank)
    BY DEF Linked
  <1>2. /\ l \in ListType /\ l.first \in Entries \cup {Nil} /\ l.last \in Entries \cup {Nil}
        /\ l.prev \in [Entries -> Entries \cup {Nil}] /\ l.next \in [Entries -> Entries \cup {Nil}]
        /\ e \in Entries /\ after \in Entries \cup {Nil}
    BY DEF TreeType, ListType
  <1>3. y = [x EXCEPT !.lru = m, !.normal[e] = "none"]
    BY DEF FreeFirst
  <1>4. m \in ListType
    BY <1>2 DEF ListType
  <1>5. /\ m.first = after /\ m.last = IF after = Nil THEN Nil ELSE l.last
        /\ \A d \in Entries :
             /\ m.prev[d] = IF d = e THEN Nil ELSE IF d = after THEN d ELSE l.prev[d]
             /\ m.next[d] = IF d = e THEN Nil ELSE l.next[d]
    BY <1>2 DEF ListType
  <1> HIDE DEF m
  <1>6. ASSUME NEW order, Ordered(l, order) PROVE Ordered(m, order) /\ Held(m) = Held(l) \ {e}
    BY <1>4, <1>5, <1>6, FirstGoes
  <1> HIDE DEF y
  <1>7. /\ y \in TreeType /\ y.lru = m
        /\ y.folders = x.folders /\ y.foldersDirty = x.foldersDirty /\ y.filesDirty = x.filesDirty
        /\ y.unread = x.unread /\ y.files = x.files /\ y.info = x.info
        /\ y.twice = x.twice /\ y.lost = x.lost /\ y.lostDirs = x.lostDirs
        /\ \A d \in Entries : y.normal[d] = IF d = e THEN "none" ELSE x.normal[d]
    <2> HIDE DEF e, l
    <2>1. e \in Entries
      BY <1>2
    <2>2. QED BY <1>3, <1>4, <2>1 DEF TreeType
  <1>8. Linked(y.lru)
    BY <1>1, <1>6, <1>7 DEF Linked
  <1>9. Held(y.lru) = Held(l) \ {e} /\ \A order : Ordered(l, order) => Ordered(y.lru, order)
    BY <1>1, <1>6, <1>7
  <1>10. Slimmer(y, x)
    BY <1>7, <1>8, <1>9 DEF Slimmer
  <1>11. QED BY <1>9, <1>10 DEF y

LEMMA SlimmerStill ==
  ASSUME NEW x, NEW y, NEW z, Slimmer(y, x), Slimmer(z, y)
  PROVE  Slimmer(z, x)
  BY DEF Slimmer

\* Where a picture counts, the list begins with one.
LEMMA CachedHaveFirst ==
  ASSUME NEW x, Linked(x.lru), CachedPictures(x) > Keep
  PROVE  x.lru.first # Nil
  <1>1. SUFFICES ASSUME x.lru.first = Nil PROVE FALSE
    OBVIOUS
  <1> DEFINE w == Walk(x.lru)
             S == {i \in DOMAIN w : x.normal[w[i]] # "none"}
  <1>2. Walked(w, x.lru)
    BY LinkedIsIntact
  <1> HIDE DEF w
  <1>3. PICK n \in 0 .. Cardinality(Entries) : w \in [1 .. n -> Entries] /\ (n = 0 <=> x.lru.first = Nil)
    BY <1>2 DEF Walked
  <1>4. S = {}
    BY <1>1, <1>3
  <1>5. Cardinality(S) = 0
    BY <1>4, FS_EmptySet
  <1>6. CachedPictures(x) = 0
    BY <1>5 DEF CachedPictures, w
  <1>7. QED BY <1>6, BoundsAreNatural

LEMMA PruneSteps ==
  ASSUME NEW x
  PROVE  \E Freed : /\ Freed[0] = x
                    /\ \A k \in 0 .. Cardinality(Entries) - 1 :
                         Freed[k + 1] = IF CachedPictures(Freed[k]) > Keep THEN FreeFirst(Freed[k]) ELSE Freed[k]
                    /\ Prune(x) = Freed[Cardinality(Entries)]
  <1> DEFINE N == Cardinality(Entries)
             Equation(f, n) == f = [k \in 0 .. n |->
                                      IF k = 0 THEN x
                                      ELSE IF CachedPictures(f[k - 1]) > Keep THEN FreeFirst(f[k - 1]) ELSE f[k - 1]]
             P == {n \in Nat : \E f : Equation(f, n)}
  <1>1. N \in Nat
    BY EntriesAreFinite, FS_CardinalityType
  <1>2. 0 \in P
    <2>1. Equation([k \in 0 .. 0 |-> x], 0)
      OBVIOUS
    <2>2. QED BY <2>1
  <1>3. ASSUME NEW n \in 0 .. N - 1, n \in P PROVE n + 1 \in P
    <2>0. n \in Nat
      OBVIOUS
    <2>1. PICK f : Equation(f, n)
      BY <1>3
    <2> DEFINE g == [k \in 0 .. n + 1 |->
                       IF k = 0 THEN x
                       ELSE IF CachedPictures(f[k - 1]) > Keep THEN FreeFirst(f[k - 1]) ELSE f[k - 1]]
    <2>2. \A k \in 0 .. n : g[k] = f[k]
      BY <2>1
    <2>3. g = [k \in 0 .. n + 1 |->
                 IF k = 0 THEN x
                 ELSE IF CachedPictures(f[k - 1]) > Keep THEN FreeFirst(f[k - 1]) ELSE f[k - 1]]
      OBVIOUS
    <2> HIDE DEF g
    <2>4. \A k \in 0 .. n + 1 : k # 0 => f[k - 1] = g[k - 1]
      <3>1. \A k \in 0 .. n + 1 : k # 0 => k - 1 \in 0 .. n
        BY <2>0
      <3>2. QED BY <2>2, <3>1
    <2>5. Equation(g, n + 1)
      BY <2>3, <2>4
    <2> HIDE DEF Equation
    <2>6. n + 1 \in Nat /\ \E c : Equation(c, n + 1)
      BY <2>0, <2>5
    <2>7. QED BY <2>6
  <1>4. N \in P
    <2> HIDE DEF P, N
    <2>1. N \in 0 .. N
      BY <1>1
    <2>2. QED BY <1>1, <1>2, <1>3, <2>1, UpTo
  <1> DEFINE F == CHOOSE f : Equation(f, N)
  <1>5. Equation(F, N)
    <2> HIDE DEF Equation
    <2>1. QED BY <1>4
  <1>6. Prune(x) = F[N]
    BY DEF Prune
  <1> HIDE DEF F
  <1>7. F[0] = x
    BY <1>1, <1>5
  <1>8. ASSUME NEW k \in 0 .. N - 1
        PROVE F[k + 1] = IF CachedPictures(F[k]) > Keep THEN FreeFirst(F[k]) ELSE F[k]
    <2>1. k + 1 \in 0 .. N /\ k + 1 # 0 /\ (k + 1) - 1 = k
      BY <1>1
    <2>2. F[k + 1] = IF CachedPictures(F[(k + 1) - 1]) > Keep THEN FreeFirst(F[(k + 1) - 1]) ELSE F[(k + 1) - 1]
      BY <1>5, <2>1
    <2>3. QED BY <2>1, <2>2
  <1>9. QED BY <1>6, <1>7, <1>8

LEMMA PruneSlims ==
  ASSUME NEW x \in TreeType, Linked(x.lru)
  PROVE  Slimmer(Prune(x), x)
  <1> DEFINE N == Cardinality(Entries)
  <1>0. N \in Nat
    BY EntriesAreFinite, FS_CardinalityType
  <1>1. PICK Freed : /\ Freed[0] = x
                     /\ \A k \in 0 .. N - 1 :
                          Freed[k + 1] = IF CachedPictures(Freed[k]) > Keep THEN FreeFirst(Freed[k]) ELSE Freed[k]
                     /\ Prune(x) = Freed[N]
    BY ONLY PruneSteps
  <1> DEFINE S == {k \in 0 .. N : Slimmer(Freed[k], x)}
  <1>2. 0 \in S
    <2>1. Slimmer(x, x)
      BY DEF Slimmer
    <2>2. QED BY <1>0, <1>1, <2>1
  <1>3. ASSUME NEW k \in 0 .. N - 1, k \in S PROVE k + 1 \in S
    <2>1. Slimmer(Freed[k], x) /\ Freed[k] \in TreeType /\ Linked(Freed[k].lru) /\ k + 1 \in 0 .. N
      BY <1>0, <1>3 DEF Slimmer
    <2>2. CASE CachedPictures(Freed[k]) > Keep
      <3>1. Slimmer(FreeFirst(Freed[k]), Freed[k])
        BY <2>1, <2>2, CachedHaveFirst, FreeFirstSlims
      <3>2. Freed[k + 1] = FreeFirst(Freed[k])
        BY <1>1, <2>2
      <3>3. QED BY <2>1, <3>1, <3>2, SlimmerStill
    <2>3. CASE ~(CachedPictures(Freed[k]) > Keep)
      BY <1>1, <2>1, <2>3
    <2>4. QED BY <2>2, <2>3
  <1>4. N \in S
    <2> HIDE DEF S, N
    <2>1. N \in 0 .. N
      BY <1>0
    <2>2. QED BY <1>0, <1>2, <1>3, <2>1, UpTo
  <1>5. QED BY <1>1, <1>4

\* Content attached to a file that there is; the picture is the last to go.
LEMMA AttachCurrent ==
  ASSUME NEW x, NEW d, NEW h, NEW n, Current(x, d, h, n), NEW e \in x.files, e \in d.files \cup h
  PROVE  LET a == Attach(x, e)
         IN  Current(a, d, h, n) /\ a.files = x.files /\ a.info = x.info
  <1> DEFINE y == Prune(x)
             l == Unlink(e, y.lru)
             m == AddLast(e, l)
             z == Update(x, e)
             a == Attach(x, e)
  <1>1. Sound(x) /\ x \in TreeType /\ Linked(x.lru) /\ e \in Entries
    BY DEF Current, Sound, Holds, TreeType
  <1>2. Slimmer(y, x) /\ y \in TreeType /\ Linked(y.lru)
    <2>1. Slimmer(y, x)
      BY <1>1, PruneSlims
    <2>2. QED BY <2>1 DEF Slimmer
  <1> HIDE DEF y
  <1>3. Linked(l) /\ Held(l) = Held(y.lru) \ {e}
    <2>1. PICK rank \in [Entries -> Nat] : Ordered(y.lru, rank)
      BY <1>2 DEF Linked
    <2>2. Ordered(l, rank) /\ Held(l) = Held(y.lru) \ {e}
      BY <1>1, <2>1, UnlinkTakesOff
    <2>3. QED BY <2>2 DEF Linked
  <1> HIDE DEF l
  <1>4. Linked(m) /\ Held(m) = Held(y.lru) \cup {e}
    <2>1. Linked(m) /\ Held(m) = Held(l) \cup {e}
      BY <1>1, <1>3, AddLastHolds
    <2>2. QED BY <1>1, <1>3, <2>1
  <1>5. m \in ListType
    BY <1>4 DEF Linked, Ordered
  <1>6. z = [y EXCEPT !.lru = m]
    BY DEF Update, y, l
  <1> HIDE DEF m, z
  <1>7. z.lru = m
    BY <1>2, <1>6 DEF TreeType
  <1>8. a = [z EXCEPT !.normal[e] = "current"]
    <2>1. ListIntact(z.lru)
      BY <1>4, <1>7, LinkedIsIntact
    <2>2. QED BY <2>1 DEF Attach, z
  <1> HIDE DEF a
  <1>9. /\ a \in TreeType /\ a.lru = m
        /\ a.folders = y.folders /\ a.foldersDirty = y.foldersDirty /\ a.filesDirty = y.filesDirty
        /\ a.unread = y.unread /\ a.files = y.files /\ a.info = y.info
        /\ a.twice = y.twice /\ a.lost = y.lost /\ a.lostDirs = y.lostDirs
        /\ \A b \in Entries : a.normal[b] = IF b = e THEN "current" ELSE y.normal[b]
    BY <1>1, <1>2, <1>5, <1>6, <1>8 DEF TreeType
  <1>10. /\ a.folders = x.folders /\ a.foldersDirty = x.foldersDirty /\ a.filesDirty = x.filesDirty
         /\ a.unread = x.unread /\ a.files = x.files /\ a.info = x.info
         /\ a.twice = x.twice /\ a.lost = x.lost /\ a.lostDirs = x.lostDirs
         /\ \A b \in Entries : a.normal[b] = IF b = e THEN "current" ELSE y.normal[b]
         /\ \A b \in Entries : /\ y.normal[b] \in {x.normal[b], "none"}
                               /\ b \in Held(y.lru) => y.normal[b] = x.normal[b]
         /\ Held(y.lru) \subseteq Held(x.lru)
    BY <1>2, <1>9 DEF Slimmer
  <1>11. Rooted(a)
    BY <1>1, <1>10 DEF Sound, Rooted
  <1>12. Blank(a)
    BY <1>1, <1>10 DEF Sound, Blank
  <1>13. Holds(a)
    <2>1. \A b \in Held(x.lru) : b \in Entries /\ b \in x.files /\ x.normal[b] # "none"
      BY <1>1 DEF Sound, Holds, Held
    <2>2. \A b \in Held(m) : b \in a.files /\ a.normal[b] # "none"
      BY <1>1, <1>4, <1>10, <2>1
    <2>3. QED BY <1>4, <1>9, <2>2 DEF Holds
  <1>14. Known(a, d, n)
    BY <1>10 DEF Current, Known
  <1>15. Exact(a, d, h, n)
    BY <1>10 DEF Current, Exact
  <1>16. Vouched(a, d, h, n)
    <2>1. SUFFICES ASSUME ~Removing(n), NEW b \in x.files \ x.lost
                   PROVE  /\ a.normal[b] # "none" \/ a.info[b] # "dirty" => b \in d.files \cup h
                          /\ a.normal[b] # "old"
                          /\ "mtime" \notin InfoFields /\ a.info[b] = "old" => b \in d.files \cap Told(n, "Changed")
      BY <1>10 DEF Vouched
    <2>2. /\ x.normal[b] # "none" \/ x.info[b] # "dirty" => b \in d.files \cup h
          /\ x.normal[b] # "old"
          /\ "mtime" \notin InfoFields /\ x.info[b] = "old" => b \in d.files \cap Told(n, "Changed")
      BY <2>1 DEF Current, Vouched
    <2>3. b \in Entries
      BY <1>1, <2>1 DEF TreeType
    <2>4. QED BY <1>10, <2>2, <2>3
  <1>17. QED BY <1>9, <1>10, <1>11, <1>12, <1>13, <1>14, <1>15, <1>16 DEF Current, Sound, a

-----------------------------------------------------------------------------
(* What else a step changes: the files of the host, the events to come, the *)
(* information of a file, a folder, or the camera behind the tree's back.   *)

\* While a removal waits to be handled, the tree is bound to its folders only.
LEMMA RemovingCurrent ==
  ASSUME NEW x, NEW d, NEW h, NEW n, Sound(x), x.folders \subseteq d.dirs \cup x.lostDirs, Removing(n)
  PROVE  Current(x, d, h, n)
  BY DEF Current, Known, Exact, Vouched

LEMMA EmptyTreeCurrent ==
  ASSUME NEW d, NEW h, NEW n, CameraHolds(d)
  PROVE  Current(EmptyTree, d, h, n) /\ EmptyTree.files = {}
  <1> DEFINE x == EmptyTree
  <1>1. /\ x.folders = {Root} /\ x.foldersDirty = {Root} /\ x.filesDirty = {Root} /\ x.files = {}
        /\ x.normal = [e \in Entries |-> "none"] /\ x.info = [e \in Entries |-> "dirty"]
        /\ x.lru = EmptyList /\ x.unread = {} /\ x.twice = {} /\ x.lost = {} /\ x.lostDirs = {}
    BY DEF EmptyTree
  <1>2. x \in TreeType
    <2>1. Root \in Paths /\ EmptyList \in ListType
      BY RootIsPath, EmptyOrdered DEF Ordered
    <2>2. QED BY <2>1 DEF EmptyTree, TreeType
  <1> HIDE DEF x
  <1>3. Linked(x.lru) /\ Held(x.lru) = {}
    <2>1. [e \in Entries |-> 0] \in [Entries -> Nat]
      OBVIOUS
    <2>2. QED BY <1>1, <2>1, EmptyOrdered DEF Linked
  <1>4. Sound(x)
    BY <1>1, <1>2, <1>3 DEF Sound, Rooted, Blank, Holds
  <1>5. Known(x, d, n) /\ Exact(x, d, h, n) /\ Vouched(x, d, h, n)
    BY <1>1 DEF Known, Exact, Vouched, CameraHolds
  <1>6. QED BY <1>1, <1>4, <1>5 DEF Current, x

LEMMA HostCurrent ==
  ASSUME NEW x, NEW d, NEW h, NEW n, Current(x, d, h, n), NEW g, h \cap x.files \subseteq g
  PROVE  Current(x, d, g, n)
  <1>1. x.files \subseteq Entries /\ \A e \in x.files : e \in d.files \cup h => e \in d.files \cup g
    BY DEF Current, Sound, TreeType
  <1>2. Exact(x, d, g, n)
    BY <1>1 DEF Current, Exact
  <1>3. Vouched(x, d, g, n)
    BY <1>1 DEF Current, Vouched
  <1>4. QED BY <1>2, <1>3 DEF Current

LEMMA NewsCurrent ==
  ASSUME NEW x, NEW d, NEW h, NEW n, Current(x, d, h, n),
         NEW m, \A kind \in Kinds : Told(n, kind) \subseteq Told(m, kind)
  PROVE  Current(x, d, h, m)
  <1>1. /\ Told(n, "Added") \subseteq Told(m, "Added")
        /\ Told(n, "Changed") \subseteq Told(m, "Changed")
        /\ Removing(n) => Removing(m)
    BY DEF Kinds, Removing
  <1>2. Known(x, d, m)
    BY <1>1 DEF Current, Known
  <1>3. Exact(x, d, h, m)
    BY <1>1 DEF Current, Exact
  <1>4. Vouched(x, d, h, m)
    BY <1>1 DEF Current, Vouched
  <1>5. QED BY <1>2, <1>3, <1>4 DEF Current

WithInfo(x, e, i) == [x EXCEPT !.info[e] = i]

LEMMA InfoCurrent ==
  ASSUME NEW x, NEW d, NEW h, NEW n, Current(x, d, h, n), NEW e \in x.files,
         NEW i \in {"dirty", "current", "old"},
         i # "dirty" => Removing(n) \/ e \in x.lost \cup d.files \cup h,
         i = "old" => "mtime" \in InfoFields \/ Removing(n) \/ e \in x.lost \cup (d.files \cap Told(n, "Changed"))
  PROVE  Current(WithInfo(x, e, i), d, h, n) /\ WithInfo(x, e, i).files = x.files
  <1> DEFINE y == WithInfo(x, e, i)
  <1>1. Sound(x) /\ x \in TreeType /\ e \in Entries
    BY DEF Current, Sound, TreeType
  <1>2. /\ y.folders = x.folders /\ y.foldersDirty = x.foldersDirty /\ y.filesDirty = x.filesDirty
        /\ y.files = x.files /\ y.unread = x.unread /\ y.normal = x.normal /\ y.lru = x.lru
        /\ y.twice = x.twice /\ y.lost = x.lost /\ y.lostDirs = x.lostDirs
        /\ \A b \in Entries : y.info[b] = IF b = e THEN i ELSE x.info[b]
        /\ y \in TreeType
    BY <1>1 DEF WithInfo, TreeType
  <1> HIDE DEF y
  <1>3. Rooted(y) /\ Holds(y)
    BY <1>1, <1>2 DEF Sound, Rooted, Holds
  <1>4. Blank(y)
    BY <1>1, <1>2 DEF Sound, Blank
  <1>5. Known(y, d, n)
    BY <1>2 DEF Current, Known
  <1>6. Exact(y, d, h, n)
    BY <1>2 DEF Current, Exact
  <1>7. Vouched(y, d, h, n)
    <2>1. SUFFICES ASSUME ~Removing(n), NEW b \in x.files \ x.lost
                   PROVE  /\ y.normal[b] # "none" \/ y.info[b] # "dirty" => b \in d.files \cup h
                          /\ y.normal[b] # "old"
                          /\ "mtime" \notin InfoFields /\ y.info[b] = "old" => b \in d.files \cap Told(n, "Changed")
      BY <1>2 DEF Vouched
    <2>2. /\ x.normal[b] # "none" \/ x.info[b] # "dirty" => b \in d.files \cup h
          /\ x.normal[b] # "old"
          /\ "mtime" \notin InfoFields /\ x.info[b] = "old" => b \in d.files \cap Told(n, "Changed")
      BY <2>1 DEF Current, Vouched
    <2>3. b \in Entries
      BY <1>1, <2>1 DEF TreeType
    <2>4. QED BY <1>2, <2>1, <2>2, <2>3
  <1>8. QED BY <1>2, <1>3, <1>4, <1>5, <1>6, <1>7 DEF Current, Sound, y

\* Files deleted on the camera, or known to the host only, and from the tree.
LEMMA DropCurrent ==
  ASSUME NEW x, NEW d, NEW h, NEW n, CameraHolds(d), Current(x, d, h, n), NEW S \in SUBSET x.files,
         NEW c, c.dirs = d.dirs, c.files = d.files \ S
  PROVE  Current(DropEntries(x, S), c, h, n)
  <1> DEFINE y == DropEntries(x, S)
  <1>1. Sound(x) /\ x.files \subseteq Entries /\ x.folders \subseteq Paths /\ Rooted(x)
    BY DEF Current, Sound, TreeType
  <1>2. /\ Sound(y)
        /\ y.folders = x.folders /\ y.foldersDirty = x.foldersDirty
        /\ y.filesDirty = x.filesDirty /\ y.unread = x.unread
        /\ y.twice = x.twice /\ y.lost = x.lost \ S /\ y.lostDirs = x.lostDirs
        /\ y.files = x.files \ S
        /\ \A e \in Entries : /\ y.normal[e] = IF e \in S THEN "none" ELSE x.normal[e]
                              /\ y.info[e] = IF e \in S THEN "dirty" ELSE x.info[e]
    <2>1. S \in SUBSET Entries
      BY <1>1
    <2>2. QED BY <1>1, <2>1, DropIs
  <1> HIDE DEF y
  <1>3. Known(y, c, n)
    <2>1. SUFFICES ASSUME ~Removing(n), NEW q \in d.dirs \ (x.folders \cup x.lostDirs \cup {Root}),
                          Front(q) \in x.folders \ x.foldersDirty
                   PROVE  \E e \in Told(n, "Added") \cap c.files : IsPrefix(q, e[1])
      <3>1. y.folders \subseteq c.dirs \cup y.lostDirs
        BY <1>2 DEF Current, Known
      <3>2. QED BY <1>2, <3>1 DEF Known
    <2>2. PICK e \in Told(n, "Added") \cap d.files : IsPrefix(q, e[1])
      BY <2>1 DEF Current, Known
    <2>3. e \notin x.files
      <3>1. q \in Paths
        BY <2>1 DEF CameraHolds
      <3>2. e \in x.files => e[1] \in x.folders
        BY <1>1 DEF Rooted
      <3>3. QED BY <1>1, <2>1, <2>2, <3>1, <3>2, PrefixKnown
    <2>4. QED BY <2>2, <2>3
  <1>4. Exact(y, c, h, n)
    BY <1>2 DEF Current, Exact
  <1>5. Vouched(y, c, h, n)
    <2>1. SUFFICES ASSUME ~Removing(n), NEW b \in x.files \ (S \cup x.lost)
                   PROVE  /\ y.normal[b] # "none" \/ y.info[b] # "dirty" => b \in c.files \cup h
                          /\ y.normal[b] # "old"
                          /\ "mtime" \notin InfoFields /\ y.info[b] = "old" => b \in c.files \cap Told(n, "Changed")
      BY <1>2 DEF Vouched
    <2>2. /\ x.normal[b] # "none" \/ x.info[b] # "dirty" => b \in d.files \cup h
          /\ x.normal[b] # "old"
          /\ "mtime" \notin InfoFields /\ x.info[b] = "old" => b \in d.files \cap Told(n, "Changed")
      BY <2>1 DEF Current, Vouched
    <2>3. b \in Entries /\ y.normal[b] = x.normal[b] /\ y.info[b] = x.info[b]
      BY <1>1, <1>2, <2>1
    <2>4. QED BY <2>1, <2>2, <2>3
  <1>6. QED BY <1>2, <1>3, <1>4, <1>5 DEF Current, y

\* Outdated touches the content and the information of one file.
OnlyAged(y, x, e) ==
  /\ Sound(y)
  /\ y.folders = x.folders /\ y.foldersDirty = x.foldersDirty /\ y.filesDirty = x.filesDirty
  /\ y.unread = x.unread /\ y.files = x.files
  /\ y.twice = x.twice /\ y.lost = x.lost /\ y.lostDirs = x.lostDirs
  /\ \A b \in Entries : y.normal[b] = IF b = e /\ x.normal[b] # "none" THEN "old" ELSE x.normal[b]
  /\ \A b \in Entries : y.info[b] = IF b = e /\ x.info[b] # "dirty" THEN "old" ELSE x.info[b]

LEMMA OutdatedAges ==
  ASSUME NEW x, Sound(x), NEW e \in Entries
  PROVE  OnlyAged(Outdated(x, e), x, e)
  <1> DEFINE y == Outdated(x, e)
  <1>1. x \in TreeType
    BY DEF Sound
  <1>2. /\ y \in TreeType
        /\ y.folders = x.folders /\ y.foldersDirty = x.foldersDirty /\ y.filesDirty = x.filesDirty
        /\ y.unread = x.unread /\ y.files = x.files /\ y.lru = x.lru
        /\ y.twice = x.twice /\ y.lost = x.lost /\ y.lostDirs = x.lostDirs
        /\ \A b \in Entries : y.normal[b] = IF b = e /\ x.normal[b] # "none" THEN "old" ELSE x.normal[b]
        /\ \A b \in Entries : y.info[b] = IF b = e /\ x.info[b] # "dirty" THEN "old" ELSE x.info[b]
    BY <1>1 DEF Outdated, TreeType
  <1> HIDE DEF y
  <1>3. Rooted(y)
    BY <1>2 DEF Sound, Rooted
  <1>4. Blank(y)
    BY <1>2 DEF Sound, Blank
  <1>5. Holds(y)
    BY <1>2 DEF Sound, Holds, Held
  <1>6. QED BY <1>2, <1>3, <1>4, <1>5 DEF Sound, OnlyAged, y

\* Of a file that is not there nothing is held, so that nothing ages.
LEMMA OutdatedCurrent ==
  ASSUME NEW x, NEW d, NEW h, NEW n, Current(x, d, h, n), NEW e \in Entries, e \notin d.files \cup h
  PROVE  LET y == Outdated(x, e)
         IN  /\ Current(y, d, h, n)
             /\ y.folders = x.folders /\ y.foldersDirty = x.foldersDirty /\ y.filesDirty = x.filesDirty
             /\ y.unread = x.unread /\ y.files = x.files
             /\ y.twice = x.twice /\ y.lost = x.lost /\ y.lostDirs = x.lostDirs
  <1> DEFINE y == Outdated(x, e)
  <1>1. OnlyAged(y, x, e)
    BY OutdatedAges DEF Current
  <1> HIDE DEF y
  <1>2. /\ Sound(y)
        /\ y.folders = x.folders /\ y.foldersDirty = x.foldersDirty /\ y.filesDirty = x.filesDirty
        /\ y.unread = x.unread /\ y.files = x.files
        /\ y.twice = x.twice /\ y.lost = x.lost /\ y.lostDirs = x.lostDirs
        /\ \A b \in Entries : y.normal[b] = IF b = e /\ x.normal[b] # "none" THEN "old" ELSE x.normal[b]
        /\ \A b \in Entries : y.info[b] = IF b = e /\ x.info[b] # "dirty" THEN "old" ELSE x.info[b]
    BY <1>1 DEF OnlyAged
  <1>3. Known(y, d, n)
    BY <1>2 DEF Current, Known
  <1>4. Exact(y, d, h, n)
    BY <1>2 DEF Current, Exact
  <1>5. ASSUME ~Removing(n), NEW b \in x.files \ x.lost
        PROVE  b \in Entries /\ y.normal[b] = x.normal[b] /\ y.info[b] = x.info[b]
    <2>1. b \in Entries
      BY DEF Current, Sound, TreeType
    <2>2. x.normal[b] # "none" \/ x.info[b] # "dirty" => b \in d.files \cup h
      BY <1>5 DEF Current, Vouched
    <2>3. QED BY <1>2, <2>1, <2>2
  <1>6. Vouched(y, d, h, n)
    BY <1>2, <1>5 DEF Current, Vouched
  <1>7. QED BY <1>2, <1>3, <1>4, <1>6 DEF Current, y

LEMMA MarkDirtyCurrent ==
  ASSUME NEW x, NEW d, NEW h, NEW n, Current(x, d, h, n), NEW p \in x.folders
  PROVE  Current(MarkDirty(x, p), d, h, n) /\ p \in MarkDirty(x, p).filesDirty
  <1> DEFINE y == MarkDirty(x, p)
  <1>1. Sound(x) /\ x \in TreeType /\ Rooted(x) /\ p \in Paths
    BY DEF Current, Sound, TreeType
  <1>2. /\ y.folders = x.folders /\ y.foldersDirty = x.foldersDirty
        /\ y.filesDirty = x.filesDirty \cup {p} /\ y.unread = x.unread \ {p}
        /\ y.twice = x.twice /\ y.lost = x.lost /\ y.lostDirs = x.lostDirs
        /\ y.files = x.files /\ y.normal = x.normal /\ y.info = x.info /\ y.lru = x.lru
        /\ y \in TreeType
    <2>1. y = [x EXCEPT !.filesDirty = x.filesDirty \cup {p}, !.unread = x.unread \ {p}]
      BY DEF MarkDirty
    <2>2. x.filesDirty \cup {p} \in SUBSET Paths /\ x.unread \ {p} \in SUBSET Paths
      BY <1>1 DEF TreeType
    <2> HIDE DEF y
    <2>3. QED BY <1>1, <2>1, <2>2 DEF TreeType
  <1> HIDE DEF y
  <1>3. Rooted(y)
    BY <1>1, <1>2 DEF Rooted
  <1>4. Sound(y)
    BY <1>1, <1>2, <1>3, SoundAgain
  <1>5. Known(y, d, n)
    BY <1>2 DEF Current, Known
  <1>6. Exact(y, d, h, n)
    BY <1>2 DEF Current, Exact
  <1>7. Vouched(y, d, h, n)
    BY <1>2 DEF Current, Vouched
  <1>8. QED BY <1>2, <1>4, <1>5, <1>6, <1>7 DEF Current, y

\* A folder emptied by the driver is a folder listed that has nothing left.
LEMMA EmptiedIsLoaded ==
  ASSUME NEW x, Sound(x), NEW p \in x.filesDirty, NEW stored \in SUBSET Entries, stored \cap In(p) = {}
  PROVE  FilesLoaded([DropEntries(x, In(p)) EXCEPT !.filesDirty = @ \ {p}], x, p, stored,
                     [folders |-> {}, files |-> {}])
  <1> DEFINE y == [DropEntries(x, In(p)) EXCEPT !.filesDirty = @ \ {p}]
             none == [folders |-> {}, files |-> {}]
             z == LoadFilesFrom(stored, x, p, none)
  <1>1. FilesLoaded(z, x, p, stored, none)
    BY LoadFilesIs
  <1>2. z = [y EXCEPT !.files = @ \cup {}]
    BY DEF LoadFilesFrom
  <1>3. p \in Paths
    BY DEF Sound, Rooted, TreeType
  <1>4. DropEntries(x, In(p)) \in TreeType
    <2>1. In(p) \in SUBSET Entries
      BY <1>3, InIs
    <2>2. Sound(DropEntries(x, In(p)))
      BY <2>1, DropIs
    <2>3. QED BY <2>2 DEF Sound
  <1>5. y \in TreeType
    BY <1>4 DEF TreeType
  <1> HIDE DEF y, z
  <1>6. z = y
    BY <1>2, <1>5 DEF TreeType
  <1>7. QED BY <1>1, <1>6 DEF y

\* A file stored on the camera that the tree has, too.
LEMMA StoredCurrent ==
  ASSUME NEW x, NEW d, NEW h, NEW n, Current(x, d, h, n), NEW e \in x.files,
         NEW c, c.dirs = d.dirs, c.files = d.files \cup {e}
  PROVE  Current(x, c, h, n)
  <1>1. Known(x, c, n)
    BY DEF Current, Known
  <1>2. Exact(x, c, h, n)
    BY DEF Current, Exact
  <1>3. Vouched(x, c, h, n)
    BY DEF Current, Vouched
  <1>4. QED BY <1>1, <1>2, <1>3 DEF Current

WithFile(x, e) == [x EXCEPT !.files = @ \cup {e}, !.normal[e] = "current"]

\* A file uploaded enters the tree with its content.
LEMMA PutCurrent ==
  ASSUME NEW x, NEW d, NEW h, NEW n, Current(x, d, h, n),
         NEW e \in Entries, e[1] \in x.folders, e \notin x.files,
         NEW c, c.dirs = d.dirs, c.files = d.files \cup {e}
  PROVE  Current(WithFile(x, e), c, h, n)
  <1> DEFINE y == WithFile(x, e)
  <1>1. Sound(x) /\ x \in TreeType
    BY DEF Current, Sound
  <1>2. /\ y.folders = x.folders /\ y.foldersDirty = x.foldersDirty /\ y.filesDirty = x.filesDirty
        /\ y.files = x.files \cup {e} /\ y.unread = x.unread /\ y.info = x.info /\ y.lru = x.lru
        /\ y.twice = x.twice /\ y.lost = x.lost /\ y.lostDirs = x.lostDirs
        /\ \A b \in Entries : y.normal[b] = IF b = e THEN "current" ELSE x.normal[b]
        /\ y \in TreeType
    BY <1>1 DEF WithFile, TreeType
  <1> HIDE DEF y
  <1>3. Rooted(y)
    BY <1>1, <1>2 DEF Sound, Rooted
  <1>4. Blank(y)
    BY <1>1, <1>2 DEF Sound, Blank
  <1>5. Holds(y)
    BY <1>1, <1>2 DEF Sound, Holds, Held
  <1>6. Known(y, c, n)
    BY <1>2 DEF Current, Known
  <1>7. Exact(y, c, h, n)
    BY <1>2 DEF Current, Exact
  <1>8. Vouched(y, c, h, n)
    <2>1. SUFFICES ASSUME ~Removing(n), NEW b \in y.files \ y.lost
                   PROVE  /\ y.normal[b] # "none" \/ y.info[b] # "dirty" => b \in c.files \cup h
                          /\ y.normal[b] # "old"
                          /\ "mtime" \notin InfoFields /\ y.info[b] = "old" => b \in c.files \cap Told(n, "Changed")
      BY DEF Vouched
    <2>2. CASE b = e
      <3>1. x.info[e] = "dirty"
        BY <1>1 DEF Sound, Blank
      <3>2. QED BY <1>2, <2>2, <3>1
    <2>3. CASE b # e
      <3>1. b \in x.files \ x.lost /\ b \in Entries
        BY <1>1, <1>2, <2>1, <2>3 DEF TreeType
      <3>2. /\ x.normal[b] # "none" \/ x.info[b] # "dirty" => b \in d.files \cup h
            /\ x.normal[b] # "old"
            /\ "mtime" \notin InfoFields /\ x.info[b] = "old" => b \in d.files \cap Told(n, "Changed")
        BY <2>1, <3>1 DEF Current, Vouched
      <3>3. QED BY <1>2, <2>3, <3>1, <3>2
    <2>4. QED BY <2>2, <2>3
  <1>9. QED BY <1>2, <1>3, <1>4, <1>5, <1>6, <1>7, <1>8 DEF Current, Sound, y

\* A file stored or deleted by a call that failed: of it nothing is said.
LEMMA LostCurrent ==
  ASSUME NEW x, NEW d, NEW h, NEW n, CameraHolds(d), Current(x, d, h, n),
         NEW e \in Entries, e[1] \in x.folders,
         NEW c, c.dirs = d.dirs, c.files \ {e} = d.files \ {e}
  PROVE  Current(Lost(x, e), c, h, n)
  <1> DEFINE o == Outdated(x, e)
             y == Lost(x, e)
  <1>1. Sound(x) /\ x.folders \in SUBSET Paths /\ x.files \in SUBSET Entries
    BY DEF Current, Sound, TreeType
  <1>2. OnlyAged(o, x, e)
    BY <1>1, OutdatedAges
  <1> HIDE DEF o
  <1>3. Sound(o) /\ o \in TreeType /\ Rooted(o)
    BY <1>2 DEF OnlyAged, Sound
  <1>4. y = [o EXCEPT !.lost = @ \cup {e}]
    BY DEF Lost, o
  <1>5. /\ y.folders = o.folders /\ y.foldersDirty = o.foldersDirty /\ y.filesDirty = o.filesDirty
        /\ y.unread = o.unread /\ y.twice = o.twice /\ y.lostDirs = o.lostDirs
        /\ y.files = o.files /\ y.normal = o.normal /\ y.info = o.info /\ y.lru = o.lru
        /\ y.lost = o.lost \cup {e} /\ y \in TreeType
    BY <1>3, <1>4 DEF TreeType
  <1> HIDE DEF y
  <1>6. Sound(y)
    <2>1. Rooted(y)
      BY <1>3, <1>5 DEF Rooted
    <2>2. QED BY <1>3, <1>5, <2>1, SoundAgain
  <1>7. /\ y.folders = x.folders /\ y.foldersDirty = x.foldersDirty /\ y.filesDirty = x.filesDirty
        /\ y.unread = x.unread /\ y.lostDirs = x.lostDirs /\ y.files = x.files
        /\ y.lost = x.lost \cup {e}
    BY <1>2, <1>5 DEF OnlyAged
  <1>8. \A b \in Entries \ y.lost :
          /\ b \in Entries \ x.lost /\ y.normal[b] = x.normal[b] /\ y.info[b] = x.info[b]
          /\ b \in c.files <=> b \in d.files
    BY <1>2, <1>5, <1>7 DEF OnlyAged
  <1>9. Known(y, c, n)
    <2>1. ASSUME ~Removing(n), NEW q \in d.dirs \ (x.folders \cup x.lostDirs \cup {Root}),
                 Front(q) \in x.folders \ x.foldersDirty
          PROVE  \E b \in Told(n, "Added") \cap c.files : IsPrefix(q, b[1])
      <3>1. PICK b \in Told(n, "Added") \cap d.files : IsPrefix(q, b[1])
        BY <2>1 DEF Current, Known
      <3>2. q \in Paths
        BY <2>1 DEF CameraHolds
      <3>3. b # e
        BY <1>1, <2>1, <3>1, <3>2, PrefixKnown
      <3>4. QED BY <3>1, <3>3
    <2>2. x.folders \subseteq c.dirs \cup x.lostDirs
      BY DEF Current, Known
    <2>3. QED BY <1>7, <2>1, <2>2 DEF Known
  <1>10. Exact(y, c, h, n)
    BY <1>7, <1>8 DEF Current, Exact
  <1>11. Vouched(y, c, h, n)
    <2>1. SUFFICES ASSUME ~Removing(n), NEW b \in y.files \ y.lost
                   PROVE  /\ y.normal[b] # "none" \/ y.info[b] # "dirty" => b \in c.files \cup h
                          /\ y.normal[b] # "old"
                          /\ "mtime" \notin InfoFields /\ y.info[b] = "old" => b \in c.files \cap Told(n, "Changed")
      BY DEF Vouched
    <2>2. b \in x.files \ x.lost /\ b \in Entries \ y.lost
      BY <1>1, <1>7, <2>1
    <2>3. /\ x.normal[b] # "none" \/ x.info[b] # "dirty" => b \in d.files \cup h
          /\ x.normal[b] # "old"
          /\ "mtime" \notin InfoFields /\ x.info[b] = "old" => b \in d.files \cap Told(n, "Changed")
      BY <2>1, <2>2 DEF Current, Vouched
    <2>4. y.normal[b] = x.normal[b] /\ y.info[b] = x.info[b] /\ (b \in c.files <=> b \in d.files)
      BY ONLY <1>8, <2>2
    <2>5. b \in d.files \cup h => b \in c.files \cup h
      BY <2>4
    <2>6. b \in d.files \cap Told(n, "Changed") => b \in c.files \cap Told(n, "Changed")
      BY <2>4
    <2> HIDE DEF Told
    <2>7. QED BY <2>3, <2>4, <2>5, <2>6
  <1>12. QED BY <1>6, <1>9, <1>10, <1>11 DEF Current, y

\* Folders made or removed by a call that failed: of them nothing is said.
LEMMA LostDirsCurrent ==
  ASSUME NEW x, NEW d, NEW h, NEW n, CameraHolds(d), Current(x, d, h, n), NEW D \in SUBSET Paths,
         NEW c, c.dirs \subseteq d.dirs \cup D, d.dirs \subseteq c.dirs \cup D, c.files \subseteq d.files,
         \A e \in d.files \ c.files :
            e \notin x.files /\ \A r \in Paths : IsPrefix(r, e[1]) => r \in x.folders \cup D
  PROVE  Current([x EXCEPT !.lostDirs = @ \cup D], c, h, n)
  <1> DEFINE y == [x EXCEPT !.lostDirs = @ \cup D]
  <1>1. Sound(x) /\ x \in TreeType /\ Rooted(x) /\ d.dirs \subseteq Paths
    BY DEF Current, Sound, CameraHolds
  <1>2. /\ y.folders = x.folders /\ y.foldersDirty = x.foldersDirty /\ y.filesDirty = x.filesDirty
        /\ y.unread = x.unread /\ y.twice = x.twice /\ y.lost = x.lost
        /\ y.files = x.files /\ y.normal = x.normal /\ y.info = x.info /\ y.lru = x.lru
        /\ y.lostDirs = x.lostDirs \cup D /\ y \in TreeType
    BY <1>1 DEF TreeType
  <1> HIDE DEF y
  <1>3. Sound(y)
    <2>1. Rooted(y)
      BY <1>1, <1>2 DEF Rooted
    <2>2. QED BY <1>1, <1>2, <2>1, SoundAgain
  <1>4. Known(y, c, n)
    <2>1. ASSUME ~Removing(n), NEW q \in c.dirs \ (y.folders \cup y.lostDirs \cup {Root}),
                 Front(q) \in y.folders \ y.foldersDirty
          PROVE  \E b \in Told(n, "Added") \cap c.files : IsPrefix(q, b[1])
      <3>1. q \in d.dirs \ (x.folders \cup x.lostDirs \cup {Root}) /\ q \notin D /\ q \in Paths
        BY <1>1, <1>2, <2>1
      <3>2. PICK b \in Told(n, "Added") \cap d.files : IsPrefix(q, b[1])
        BY <1>2, <2>1, <3>1 DEF Current, Known
      <3>3. b \in c.files
        BY <3>1, <3>2
      <3>4. QED BY <3>2, <3>3
    <2>2. y.folders \subseteq c.dirs \cup y.lostDirs
      BY <1>2 DEF Current, Known
    <2>3. QED BY <2>1, <2>2 DEF Known
  <1>5. Exact(y, c, h, n)
    BY <1>2 DEF Current, Exact
  <1>6. Vouched(y, c, h, n)
    BY <1>2 DEF Current, Vouched
  <1>7. QED BY <1>3, <1>4, <1>5, <1>6 DEF Current, y

\* A file the camera stores, in folders it creates, and will announce.
LEMMA AddsCurrent ==
  ASSUME NEW x, NEW d, NEW h, NEW n, CameraHolds(d), Current(x, d, h, n), NEW e \in Entries,
         e \in Told(n, "Added"),
         NEW c, c.dirs = d.dirs \cup ({p \in Paths : IsPrefix(p, e[1])} \ d.dirs), c.files = d.files \cup {e}
  PROVE  Current(x, c, h, n)
  <1>1. Known(x, c, n)
    <2>1. x.folders \subseteq c.dirs \cup x.lostDirs
      BY DEF Current, Known
    <2>2. ASSUME ~Removing(n), NEW q \in c.dirs \ (x.folders \cup x.lostDirs \cup {Root}),
                 Front(q) \in x.folders \ x.foldersDirty
          PROVE  \E b \in Told(n, "Added") \cap c.files : IsPrefix(q, b[1])
      <3>1. CASE q \in d.dirs
        BY <2>2, <3>1 DEF Current, Known
      <3>2. CASE q \notin d.dirs
        <4>1. IsPrefix(q, e[1])
          BY <2>2, <3>2
        <4>2. QED BY <4>1
      <3>3. QED BY <3>1, <3>2
    <2>3. QED BY <2>1, <2>2 DEF Known
  <1>2. Exact(x, c, h, n)
    BY DEF Current, Exact
  <1>3. Vouched(x, c, h, n)
    BY DEF Current, Vouched
  <1>4. QED BY <1>1, <1>2, <1>3 DEF Current

LEMMA AddsHolds ==
  ASSUME NEW d, CameraHolds(d), NEW e \in Entries,
         NEW c, c = [dirs |-> d.dirs \cup ({p \in Paths : IsPrefix(p, e[1])} \ d.dirs),
                     files |-> d.files \cup {e}]
  PROVE  CameraHolds(c)
  <1>0. e[1] \in Paths /\ Len(e[1]) \in Nat
    BY EntryParts, PathType
  <1>1. c \in [dirs : SUBSET Paths, files : SUBSET Entries]
    BY DEF CameraHolds
  <1>2. c.dirs = d.dirs \cup ({p \in Paths : IsPrefix(p, e[1])} \ d.dirs) /\ c.files = d.files \cup {e}
    OBVIOUS
  <1>3. ASSUME NEW p \in c.dirs \ {Root} PROVE Front(p) \in c.dirs
    <2>1. CASE p \in d.dirs
      BY <1>2, <1>3, <2>1 DEF CameraHolds
    <2>2. CASE p \notin d.dirs
      <3>1. p \in Paths /\ IsPrefix(p, e[1])
        BY <1>2, <1>3, <2>2
      <3>2. PICK k \in 0 .. Len(e[1]) : p = Way(e[1], k)
        BY <1>0, <3>1, PrefixIsOnWay
      <3>3. k # 0
        BY <1>0, <1>3, <3>2, WayEnds
      <3>4. k \in 1 .. Len(e[1]) /\ k - 1 \in 0 .. Len(e[1])
        BY <1>0, <3>2, <3>3
      <3>5. Front(p) = Way(e[1], k - 1) /\ Front(p) \in Paths
        <4>1. Front(Way(e[1], k)) = Way(e[1], k - 1)
          BY ONLY <1>0, <3>4, WayParent
        <4>2. Way(e[1], k - 1) \in Paths
          BY ONLY <1>0, <3>4, WayType
        <4>3. QED BY <3>2, <4>1, <4>2
      <3>6. IsPrefix(Front(p), e[1])
        BY <1>0, <3>4, <3>5, PrefixIsOnWay
      <3>7. QED BY <1>2, <3>5, <3>6
    <2>3. QED BY <2>1, <2>2
  <1>4. ASSUME NEW b \in c.files PROVE b[1] \in c.dirs
    <2>1. IsPrefix(e[1], e[1])
      BY <1>0 DEF IsPrefix
    <2>2. QED BY <1>0, <1>2, <1>4, <2>1 DEF CameraHolds
  <1> HIDE DEF CameraHolds
  <1>5. Root \in c.dirs
    BY <1>2 DEF CameraHolds
  <1>6. QED BY <1>1, <1>3, <1>4, <1>5 DEF CameraHolds

\* What is told by the events, from the first on.
LEMMA ToldFirst ==
  ASSUME NEW n \in Seq(Kinds \X Entries), n # << >>
  PROVE  /\ Head(n)[1] \in Kinds /\ Head(n)[2] \in Entries /\ Tail(n) \in Seq(Kinds \X Entries)
         /\ Len(Tail(n)) <= Len(n)
         /\ \A kind : Told(n, kind) = Told(Tail(n), kind) \cup (IF kind = Head(n)[1] THEN {Head(n)[2]} ELSE {})
  <1>1. /\ Len(n) \in Nat /\ Len(n) >= 1 /\ n[1] = Head(n) /\ Head(n) \in Kinds \X Entries
        /\ Tail(n) \in Seq(Kinds \X Entries) /\ Len(Tail(n)) = Len(n) - 1
        /\ \A i \in 1 .. Len(n) - 1 : Tail(n)[i] = n[i + 1]
    OBVIOUS
  <1>2. Head(n) = <<Head(n)[1], Head(n)[2]>> /\ Head(n)[1] \in Kinds /\ Head(n)[2] \in Entries
    BY <1>1
  <1>3. ASSUME NEW kind, NEW e \in Entries
        PROVE  (\E i \in DOMAIN n : n[i] = <<kind, e>>) <=>
                 \/ \E i \in DOMAIN Tail(n) : Tail(n)[i] = <<kind, e>>
                 \/ kind = Head(n)[1] /\ e = Head(n)[2]
    <2>1. ASSUME NEW i \in DOMAIN n, n[i] = <<kind, e>>, i # 1
          PROVE  i - 1 \in DOMAIN Tail(n) /\ Tail(n)[i - 1] = <<kind, e>>
      <3>1. i \in 1 .. Len(n) /\ i - 1 \in 1 .. Len(n) - 1 /\ (i - 1) + 1 = i
        BY <1>1, <2>1
      <3>2. QED BY <1>1, <2>1, <3>1
    <2>2. ASSUME NEW i \in DOMAIN Tail(n), Tail(n)[i] = <<kind, e>>
          PROVE  i + 1 \in DOMAIN n /\ n[i + 1] = <<kind, e>>
      <3>1. i \in 1 .. Len(n) - 1
        BY <1>1
      <3>2. QED BY <1>1, <2>2, <3>1
    <2>3. 1 \in DOMAIN n
      BY <1>1
    <2>4. n[1] = <<kind, e>> <=> kind = Head(n)[1] /\ e = Head(n)[2]
      BY <1>1, <1>2
    <2>5. QED BY <2>1, <2>2, <2>3, <2>4
  <1>4. ASSUME NEW kind
        PROVE  Told(n, kind) = Told(Tail(n), kind) \cup (IF kind = Head(n)[1] THEN {Head(n)[2]} ELSE {})
    <2>1. \A e \in Entries : e \in Told(n, kind) <=>
                               e \in Told(Tail(n), kind) \/ (kind = Head(n)[1] /\ e = Head(n)[2])
      BY <1>3 DEF Told
    <2>2. Told(n, kind) \subseteq Entries /\ Told(Tail(n), kind) \subseteq Entries
      BY DEF Told
    <2>3. QED BY <1>2, <2>1, <2>2
  <1>5. Len(Tail(n)) <= Len(n)
    BY <1>1
  <1>6. QED BY <1>1, <1>2, <1>4, <1>5

\* An event handled, or one of a file that is gone: the rest tell enough.
LEMMA TailCurrent ==
  ASSUME NEW y, NEW d, NEW h, NEW n \in Seq(Kinds \X Entries), n # << >>, Current(y, d, h, n),
         CameraHolds(d),
         NEW k, k = Head(n)[1], NEW e, e = Head(n)[2], k # "Removed",
         \/ e \notin d.files
         \/ /\ WayKnown(y, e[1])
            /\ e[1] \in y.folders \ y.unread => e \in y.files
            /\ k = "Changed" /\ e \in y.files => y.info[e] # "old"
  PROVE  Current(y, d, h, Tail(n))
  <1> DEFINE m == Tail(n)
  <1>1. /\ k \in Kinds /\ e \in Entries
        /\ \A kind : Told(n, kind) = Told(m, kind) \cup (IF kind = k THEN {e} ELSE {})
    BY ToldFirst
  <1> HIDE DEF m
  <1>2. Told(n, "Removed") = Told(m, "Removed") /\ (Removing(n) <=> Removing(m))
    BY <1>1 DEF Removing
  <1>3. Sound(y) /\ y.folders \subseteq d.dirs \cup y.lostDirs
    BY DEF Current, Known
  <1>4. CASE Removing(m)
    BY <1>3, <1>4, RemovingCurrent DEF m
  <1>5. CASE ~Removing(m)
    <2>1. Known(y, d, m)
      <3>1. ASSUME NEW q \in d.dirs \ (y.folders \cup y.lostDirs \cup {Root}), Front(q) \in y.folders \ y.foldersDirty
            PROVE  \E b \in Told(m, "Added") \cap d.files : IsPrefix(q, b[1])
        <4>1. PICK b \in Told(n, "Added") \cap d.files : IsPrefix(q, b[1])
          BY <1>2, <1>5, <3>1 DEF Current, Known
        <4>2. CASE b \in Told(m, "Added")
          BY <4>1, <4>2
        <4>3. CASE b \notin Told(m, "Added")
          <5>1. b = e /\ e \in d.files
            BY <1>1, <4>1, <4>3
          <5>2. WayKnown(y, e[1])
            BY <5>1
          <5>3. q \in Paths /\ e[1] \in Paths /\ Len(e[1]) \in Nat
            BY <1>1, <3>1, EntryParts, PathType DEF CameraHolds
          <5>4. PICK j \in 0 .. Len(e[1]) : q = Way(e[1], j)
            BY <4>1, <5>1, <5>3, PrefixIsOnWay
          <5>5. j # 0
            BY <3>1, <5>3, <5>4, WayEnds
          <5>6. j \in 1 .. Len(e[1]) /\ j - 1 \in 0 .. Len(e[1]) - 1 /\ (j - 1) + 1 = j
            BY <5>3, <5>4, <5>5
          <5>7. Front(q) = Way(e[1], j - 1)
            BY <5>3, <5>4, <5>6, WayParent
          <5>8. Way(e[1], (j - 1) + 1) \in y.folders
            BY <3>1, <5>2, <5>6, <5>7 DEF WayKnown
          <5>9. QED BY <3>1, <5>4, <5>6, <5>8
        <4>4. QED BY <4>2, <4>3
      <3>2. QED BY <1>3, <3>1 DEF Known
    <2>2. Exact(y, d, h, m)
      <3>1. SUFFICES ASSUME NEW b \in Entries \ y.lost, b[1] \in y.folders \ y.filesDirty
                     PROVE  /\ b \in y.files => b \in d.files \cup h
                            /\ b \in d.files \ Told(m, "Added") /\ b[1] \notin y.unread => b \in y.files
        BY DEF Exact
      <3>2. /\ b \in y.files => b \in d.files \cup h
            /\ b \in d.files \ Told(n, "Added") /\ b[1] \notin y.unread => b \in y.files
        BY <1>2, <1>5, <3>1 DEF Current, Exact
      <3>3. CASE b = e
        BY <3>1, <3>2, <3>3
      <3>4. CASE b # e
        BY <1>1, <3>2, <3>4
      <3>5. QED BY <3>3, <3>4
    <2>3. Vouched(y, d, h, m)
      <3>1. SUFFICES ASSUME NEW b \in y.files \ y.lost
                     PROVE  /\ y.normal[b] # "none" \/ y.info[b] # "dirty" => b \in d.files \cup h
                            /\ y.normal[b] # "old"
                            /\ "mtime" \notin InfoFields /\ y.info[b] = "old" => b \in d.files \cap Told(m, "Changed")
        BY DEF Vouched
      <3>2. /\ y.normal[b] # "none" \/ y.info[b] # "dirty" => b \in d.files \cup h
            /\ y.normal[b] # "old"
            /\ "mtime" \notin InfoFields /\ y.info[b] = "old" => b \in d.files \cap Told(n, "Changed")
        BY <1>2, <1>5, <3>1 DEF Current, Vouched
      <3>3. b \in Told(n, "Changed") => b \in Told(m, "Changed") \/ (k = "Changed" /\ b = e)
        BY <1>1
      <3>4. QED BY <3>1, <3>2, <3>3
    <2>4. QED BY <1>3, <2>1, <2>2, <2>3 DEF Current, m
  <1>6. QED BY <1>4, <1>5

\* Where no child is known, nothing below is known.
LEMMA NothingBelow ==
  ASSUME NEW x, Sound(x), NEW q \in x.folders, ChildrenIn(x.folders, q) = {}
  PROVE  /\ \A r \in x.folders : r \notin Below(q)
         /\ \A r \in x.folders \ {Root} : Front(r) # q
  <1>1. x.folders \in SUBSET Paths /\ q \in Paths
    BY DEF Sound, TreeType
  <1>2. ChildrenIn(x.folders, q) = {r \in x.folders : r # Root /\ Front(r) = q}
    BY <1>1, ChildrenByParent
  <1>3. \A r \in x.folders \ {Root} : Front(r) # q
    BY <1>2
  <1>4. ASSUME NEW r \in x.folders, r \in Below(q) PROVE FALSE
    <2>1. r \in Paths /\ Len(r) \in Nat
      BY <1>1, PathType
    <2>2. PICK k \in 0 .. Len(r) - 1 : q = Way(r, k)
      BY <1>1, <1>4, <2>1, BelowIsOnWay
    <2>3. k + 1 \in 1 .. Len(r) /\ k + 1 \in 0 .. Len(r) /\ (k + 1) - 1 = k
      BY <2>1
    <2>4. Way(r, k + 1) \in x.folders
      BY <2>3, TreeHasWay
    <2>5. Way(r, k + 1) # Root /\ Front(Way(r, k + 1)) = q
      BY <2>1, <2>2, <2>3, WayParent
    <2>6. QED BY <1>3, <2>4, <2>5
  <1>5. QED BY <1>3, <1>4

LEMMA TreeFiles ==
  ASSUME NEW S \in SUBSET Paths
  PROVE  \A e \in Entries : e \in UNION {In(r) : r \in S} <=> e[1] \in S
  <1>1. \A r \in S : \A e \in Entries : e \in In(r) <=> e[1] = r
    BY InIs
  <1>2. QED BY <1>1

\* A path that begins with two folders has one of them below the other.
LEMMA OneBelowOther ==
  ASSUME NEW p \in Paths, NEW q \in Paths, NEW r \in Paths, IsPrefix(q, p), IsPrefix(r, p)
  PROVE  IsPrefix(q, r) \/ q \in Below(r)
  <1>0. Len(p) \in Nat
    BY PathType
  <1>1. PICK i \in 0 .. Len(p) : q = Way(p, i)
    BY PrefixIsOnWay
  <1>2. PICK j \in 0 .. Len(p) : r = Way(p, j)
    BY PrefixIsOnWay
  <1>3. CASE i <= j
    <2>1. i \in 0 .. j /\ Len(r) = j
      BY <1>0, <1>2, <1>3, WayType
    <2>2. Way(Way(p, j), i) = Way(p, i)
      BY <1>0, <2>1, WayOfWay
    <2>3. q = Way(r, i) /\ i \in 0 .. Len(r)
      BY <1>1, <1>2, <2>1, <2>2
    <2>4. QED BY <2>3, PrefixIsOnWay
  <1>4. CASE j < i
    <2>1. j \in 0 .. i - 1 /\ j \in 0 .. i /\ Len(q) = i
      BY <1>0, <1>1, <1>4, WayType
    <2>2. Way(Way(p, i), j) = Way(p, j)
      BY <1>0, <2>1, WayOfWay
    <2>3. r = Way(q, j) /\ j \in 0 .. Len(q) - 1
      BY <1>1, <1>2, <2>1, <2>2
    <2>4. QED BY <2>3, BelowIsOnWay
  <1>5. QED BY <1>0, <1>3, <1>4

LEMMA WithoutFolderIs ==
  ASSUME NEW x, Sound(x), NEW q \in Paths
  PROVE  WithoutFolder(x, q).folders = x.folders \ {q} /\ WithoutFolder(x, q).files = x.files \ In(q)
  <1> DEFINE z == DropEntries(x, In(q))
  <1>1. In(q) \in SUBSET Entries
    BY InIs
  <1>2. z.folders = x.folders /\ z.files = x.files \ In(q) /\ z \in TreeType
    BY <1>1, DropIs DEF Sound
  <1>3. WithoutFolder(x, q) = [z EXCEPT !.folders = @ \ {q}, !.foldersDirty = @ \ {q}, !.filesDirty = @ \ {q},
                                        !.unread = @ \ {q}, !.lostDirs = @ \ {q}, !.twice = @ \ {q}]
    BY DEF WithoutFolder
  <1> HIDE DEF z
  <1>4. QED BY <1>2, <1>3 DEF TreeType

\* A folder that the tree has no more of is removed, whatever the camera has in it.
LEMMA WithoutFolderCurrent ==
  ASSUME NEW x, NEW d, NEW h, NEW n, CameraHolds(d), Current(x, d, h, n),
         NEW q \in x.folders \ {Root}, RemovableDir(x, q),
         NEW tree, tree = {q} \cup Below(q),
         NEW c, c = [dirs |-> d.dirs \ tree, files |-> d.files \ UNION {In(r) : r \in tree}]
  PROVE  Current(WithoutFolder(x, q), c, h, n) /\ CameraHolds(c)
  <1> DEFINE y == WithoutFolder(x, q)
             z == DropEntries(x, In(q))
  <1>1. Sound(x) /\ x \in TreeType /\ Rooted(x) /\ x.folders \subseteq d.dirs \cup x.lostDirs /\ q \in Paths
        /\ x.folders \subseteq Paths /\ x.files \subseteq Entries
    BY DEF Current, Sound, TreeType, Known
  <1>2. q \in x.folders /\ ChildrenIn(x.folders, q) = {} /\ In(q) \cap x.files = {}
    BY DEF RemovableDir
  <1>3. In(q) \in SUBSET Entries /\ \A e \in Entries : e \in In(q) <=> e[1] = q
    BY <1>1, InIs
  <1>4. /\ Sound(z) /\ z \in TreeType
        /\ z.folders = x.folders /\ z.foldersDirty = x.foldersDirty
        /\ z.filesDirty = x.filesDirty /\ z.unread = x.unread
        /\ z.twice = x.twice /\ z.lost = x.lost \ In(q) /\ z.lostDirs = x.lostDirs
        /\ z.files = x.files
        /\ \A e \in Entries : /\ z.normal[e] = IF e \in In(q) THEN "none" ELSE x.normal[e]
                              /\ z.info[e] = IF e \in In(q) THEN "dirty" ELSE x.info[e]
    <2>1. /\ Sound(z)
          /\ z.folders = x.folders /\ z.foldersDirty = x.foldersDirty
          /\ z.filesDirty = x.filesDirty /\ z.unread = x.unread
          /\ z.twice = x.twice /\ z.lost = x.lost \ In(q) /\ z.lostDirs = x.lostDirs
          /\ z.files = x.files \ In(q)
          /\ \A e \in Entries : /\ z.normal[e] = IF e \in In(q) THEN "none" ELSE x.normal[e]
                                /\ z.info[e] = IF e \in In(q) THEN "dirty" ELSE x.info[e]
      BY <1>1, <1>3, DropIs
    <2>2. z.files = x.files
      BY <1>2, <2>1
    <2>3. QED BY <2>1, <2>2 DEF Sound
  <1>5. y = [z EXCEPT !.folders = @ \ {q}, !.foldersDirty = @ \ {q}, !.filesDirty = @ \ {q}, !.unread = @ \ {q},
                      !.lostDirs = @ \ {q}, !.twice = @ \ {q}]
    BY DEF WithoutFolder
  <1> HIDE DEF y, z
  <1>6. /\ y.folders = x.folders \ {q} /\ y.foldersDirty = x.foldersDirty \ {q}
        /\ y.filesDirty = x.filesDirty \ {q} /\ y.unread = x.unread \ {q}
        /\ y.lostDirs = x.lostDirs \ {q} /\ y.twice = x.twice \ {q} /\ y.lost = x.lost \ In(q)
        /\ y.files = x.files /\ y.normal = z.normal /\ y.info = z.info /\ y.lru = z.lru
        /\ y \in TreeType
    BY <1>4, <1>5 DEF TreeType
  <1>7. \A e \in x.files : e[1] \in x.folders \ {q}
    BY <1>1, <1>2, <1>3 DEF Rooted
  <1>8. \A r \in x.folders : r \notin Below(q)
    BY <1>1, <1>2, NothingBelow
  <1>9. \A r \in x.folders \ {Root} : Front(r) # q
    BY <1>1, <1>2, NothingBelow
  <1>10. Rooted(y)
    BY <1>1, <1>6, <1>7, <1>9 DEF Rooted
  <1>11. y.files = z.files
    BY <1>4, <1>6
  <1>12. Sound(y)
    BY <1>4, <1>6, <1>10, <1>11 DEF Sound, Blank, Holds
  <1>13. tree \subseteq Paths /\ Root \notin tree
    BY <1>1, NotBelow
  <1>14. \A e \in Entries : e \in UNION {In(r) : r \in tree} <=> e[1] \in tree
    BY <1>13, TreeFiles
  <1>15. c.dirs = d.dirs \ tree /\ c.files = {e \in d.files : e[1] \notin tree}
    BY <1>14 DEF CameraHolds
  <1>16. CameraHolds(c)
    <2>1. c \in [dirs : SUBSET Paths, files : SUBSET Entries]
      BY DEF CameraHolds
    <2>2. Root \in c.dirs
      BY <1>13, <1>15 DEF CameraHolds
    <2>3. ASSUME NEW r \in c.dirs \ {Root} PROVE Front(r) \in c.dirs
      <3>1. r \in Paths /\ Front(r) \in d.dirs /\ r \notin tree
        BY <1>15, <2>3 DEF CameraHolds
      <3>2. Front(r) \notin tree
        BY <1>1, <2>3, <3>1, BelowByParent
      <3>3. QED BY <1>15, <3>1, <3>2
    <2>4. \A e \in c.files : e[1] \in c.dirs
      BY <1>15 DEF CameraHolds
    <2> HIDE DEF CameraHolds
    <2>5. QED BY ONLY <2>1, <2>2, <2>3, <2>4 DEF CameraHolds
  <1>17. \A r \in y.folders : r \notin tree
    BY <1>6, <1>8
  <1>18. Known(y, c, n)
    <2>1. y.folders \subseteq c.dirs \cup y.lostDirs
      BY <1>1, <1>6, <1>15, <1>17
    <2>2. ASSUME ~Removing(n), NEW r \in c.dirs \ (y.folders \cup y.lostDirs \cup {Root}),
                 Front(r) \in y.folders \ y.foldersDirty
          PROVE  \E e \in Told(n, "Added") \cap c.files : IsPrefix(r, e[1])
      <3>1. r \in d.dirs /\ r \notin tree /\ r \in Paths /\ r \notin x.folders \cup x.lostDirs
        BY <1>6, <1>15, <2>2 DEF CameraHolds
      <3>2. Front(r) \in x.folders \ x.foldersDirty
        BY <1>6, <2>2
      <3>3. PICK e \in Told(n, "Added") \cap d.files : IsPrefix(r, e[1])
        BY <2>2, <3>1, <3>2 DEF Current, Known
      <3>4. e[1] \notin tree
        <4>1. SUFFICES ASSUME e[1] \in tree PROVE FALSE
          OBVIOUS
        <4>2. e[1] \in Paths /\ IsPrefix(q, e[1])
          BY <1>1, <1>13, <4>1 DEF Below, IsStrictPrefix, IsPrefix
        <4>3. IsPrefix(r, q) \/ r \in Below(q)
          BY <1>1, <3>1, <3>3, <4>2, OneBelowOther
        <4>4. ~IsPrefix(r, q)
          BY <1>1, <3>1, PrefixKnown
        <4>5. QED BY <3>1, <4>3, <4>4
      <3>5. QED BY <1>15, <3>3, <3>4
    <2>3. QED BY <2>1, <2>2 DEF Known
  <1>19. Exact(y, c, h, n)
    <2>1. SUFFICES ASSUME ~Removing(n), NEW e \in Entries \ y.lost, e[1] \in y.folders \ y.filesDirty
                   PROVE  /\ e \in y.files => e \in c.files \cup h
                          /\ e \in c.files \ Told(n, "Added") /\ e[1] \notin y.unread => e \in y.files
      BY DEF Exact
    <2>2. e[1] \in x.folders \ x.filesDirty /\ e[1] \notin tree /\ e[1] # q /\ (e[1] \in y.unread <=> e[1] \in x.unread)
      BY <1>6, <1>17, <2>1
    <2>5. e \notin x.lost
      BY <1>3, <1>6, <2>1, <2>2
    <2>3. /\ e \in x.files => e \in d.files \cup h
          /\ e \in d.files \ Told(n, "Added") /\ e[1] \notin x.unread => e \in x.files
      BY <2>1, <2>2, <2>5 DEF Current, Exact
    <2>4. QED BY <1>6, <1>15, <2>2, <2>3
  <1>20. Vouched(y, c, h, n)
    <2>0. y.files \ y.lost \subseteq x.files \ x.lost
      BY <1>2, <1>6
    <2>1. SUFFICES ASSUME ~Removing(n), NEW b \in x.files \ x.lost
                   PROVE  /\ y.normal[b] # "none" \/ y.info[b] # "dirty" => b \in c.files \cup h
                          /\ y.normal[b] # "old"
                          /\ "mtime" \notin InfoFields /\ y.info[b] = "old" => b \in c.files \cap Told(n, "Changed")
      BY <2>0 DEF Vouched
    <2>2. /\ x.normal[b] # "none" \/ x.info[b] # "dirty" => b \in d.files \cup h
          /\ x.normal[b] # "old"
          /\ "mtime" \notin InfoFields /\ x.info[b] = "old" => b \in d.files \cap Told(n, "Changed")
      BY <2>1 DEF Current, Vouched
    <2>3. b \in Entries /\ b \notin In(q) /\ b[1] \notin tree
      <3>1. b \in Entries /\ b \notin In(q)
        BY <1>1, <1>2, <2>1
      <3>2. b[1] \in y.folders
        BY <1>6, <1>7, <2>1
      <3>3. QED BY <1>17, <3>1, <3>2
    <2>4. y.normal[b] = x.normal[b] /\ y.info[b] = x.info[b]
      BY <1>4, <1>6, <2>3
    <2>5. b \in d.files => b \in c.files
      BY <1>15, <2>3
    <2>6. QED BY <2>2, <2>4, <2>5
  <1>21. QED BY <1>12, <1>16, <1>18, <1>19, <1>20 DEF Current, y

\* Of a folder entered twice the older entry is left, of nothing on the camera.
LEMMA ExposedCurrent ==
  ASSUME NEW x, NEW c, NEW h, NEW n, CameraHolds(c), Current(x, c, h, n),
         NEW q \in Paths \ c.dirs, q # Root, Front(q) \in x.folders, In(q) \cap x.files = {},
         NEW D \in SUBSET {q}, NEW F \in SUBSET {q}, NEW T \in SUBSET {q}
  PROVE  Current([x EXCEPT !.folders = @ \cup {q}, !.foldersDirty = @ \cup D, !.filesDirty = @ \cup F,
                           !.lostDirs = @ \cup {q}, !.twice = @ \cup T], c, h, n)
  <1> DEFINE y == [x EXCEPT !.folders = @ \cup {q}, !.foldersDirty = @ \cup D, !.filesDirty = @ \cup F,
                            !.lostDirs = @ \cup {q}, !.twice = @ \cup T]
  <1>1. Sound(x) /\ x \in TreeType /\ Rooted(x) /\ c.dirs \subseteq Paths
    BY DEF Current, Sound, CameraHolds
  <1>2. /\ y.folders = x.folders \cup {q} /\ y.foldersDirty = x.foldersDirty \cup D
        /\ y.filesDirty = x.filesDirty \cup F /\ y.unread = x.unread /\ y.twice = x.twice \cup T
        /\ y.lost = x.lost /\ y.lostDirs = x.lostDirs \cup {q}
        /\ y.files = x.files /\ y.normal = x.normal /\ y.info = x.info /\ y.lru = x.lru
    BY <1>1 DEF TreeType
  <1>9. y \in TreeType
    <2>1. /\ x.folders \cup {q} \in SUBSET Paths /\ x.foldersDirty \cup D \in SUBSET Paths
          /\ x.filesDirty \cup F \in SUBSET Paths /\ x.lostDirs \cup {q} \in SUBSET Paths
          /\ x.twice \cup T \in SUBSET Paths
      BY <1>1 DEF TreeType
    <2>2. y = [x EXCEPT !.folders = x.folders \cup {q}, !.foldersDirty = x.foldersDirty \cup D,
                        !.filesDirty = x.filesDirty \cup F, !.lostDirs = x.lostDirs \cup {q},
                        !.twice = x.twice \cup T]
      OBVIOUS
    <2> HIDE DEF y
    <2>3. QED BY <1>1, <2>1, <2>2 DEF TreeType
  <1> HIDE DEF y
  <1>3. Sound(y)
    <2>1. Rooted(y)
      BY <1>1, <1>2 DEF Rooted
    <2>2. QED BY <1>1, <1>2, <1>9, <2>1, SoundAgain
  <1>4. \A r \in c.dirs \ {Root} : Front(r) # q
    BY DEF CameraHolds
  <1>5. Known(y, c, n)
    BY <1>2, <1>4 DEF Current, Known
  <1>6. Exact(y, c, h, n)
    <2>1. SUFFICES ASSUME ~Removing(n), NEW e \in Entries \ y.lost, e[1] \in y.folders \ y.filesDirty
                   PROVE  /\ e \in y.files => e \in c.files \cup h
                          /\ e \in c.files \ Told(n, "Added") /\ e[1] \notin y.unread => e \in y.files
      BY DEF Exact
    <2>2. CASE e[1] = q
      <3>1. e \in In(q)
        BY <2>2, InIs
      <3>2. e \notin c.files
        BY <2>2 DEF CameraHolds
      <3>3. QED BY <1>2, <3>1, <3>2
    <2>3. CASE e[1] # q
      BY <1>2, <2>1, <2>3 DEF Current, Exact
    <2>4. QED BY <2>2, <2>3
  <1>7. Vouched(y, c, h, n)
    BY <1>2 DEF Current, Vouched
  <1>8. QED BY <1>3, <1>5, <1>6, <1>7 DEF Current, y

\* A removal that failed took some of the folder's tree, or all of it.
LEMMA TreeLostCurrent ==
  ASSUME NEW x, NEW d, NEW h, NEW n, CameraHolds(d), Current(x, d, h, n),
         NEW q \in x.folders \ {Root}, RemovableDir(x, q),
         NEW tree, tree = {q} \cup Below(q),
         NEW dirs \in SUBSET tree, NEW files \in SUBSET UNION {In(r) : r \in tree},
         \A r \in dirs : Below(r) \subseteq dirs, UNION {In(r) : r \in dirs} \subseteq files,
         NEW c, c = [dirs |-> d.dirs \ dirs, files |-> d.files \ files]
  PROVE  Current([x EXCEPT !.lostDirs = @ \cup tree], c, h, n) /\ CameraHolds(c)
  <1>1. Sound(x) /\ Rooted(x) /\ q \in Paths /\ x.folders \subseteq Paths /\ x.files \subseteq Entries
    BY DEF Current, Sound, TreeType
  <1>2. tree \in SUBSET Paths /\ Root \notin tree
    BY <1>1, NotBelow DEF Below
  <1>3. \A r \in x.folders : r \notin Below(q)
    BY <1>1, NothingBelow DEF RemovableDir
  <1>4. \A e \in Entries : e \in UNION {In(r) : r \in tree} <=> e[1] \in tree
    BY <1>2, TreeFiles
  <1>5. \A e \in Entries : e[1] \in dirs => e \in files
    <2>1. dirs \in SUBSET Paths
      BY <1>2
    <2>2. \A e \in Entries : e \in UNION {In(r) : r \in dirs} <=> e[1] \in dirs
      BY <2>1, TreeFiles
    <2>3. QED BY <2>2
  <1>6. c.dirs = d.dirs \ dirs /\ c.files = d.files \ files
    OBVIOUS
  <1>7. CameraHolds(c)
    <2>1. c \in [dirs : SUBSET Paths, files : SUBSET Entries]
      BY DEF CameraHolds
    <2>2. Root \in c.dirs
      BY <1>2, <1>6 DEF CameraHolds
    <2>3. ASSUME NEW r \in c.dirs \ {Root} PROVE Front(r) \in c.dirs
      <3>1. r \in Paths /\ Front(r) \in d.dirs /\ Front(r) \in Paths /\ r \notin dirs
        BY <1>6, <2>3 DEF CameraHolds
      <3>2. r \in Below(Front(r))
        BY <2>3, <3>1, BelowByParent
      <3>3. QED BY <1>6, <3>1, <3>2
    <2>4. \A e \in c.files : e[1] \in c.dirs
      BY <1>5, <1>6 DEF CameraHolds
    <2> HIDE DEF CameraHolds
    <2>5. QED BY ONLY <2>1, <2>2, <2>3, <2>4 DEF CameraHolds
  <1>8. ASSUME NEW e \in d.files \ c.files
        PROVE  e \notin x.files /\ \A r \in Paths : IsPrefix(r, e[1]) => r \in x.folders \cup tree
    <2>1. e \in Entries /\ e[1] \in tree
      BY <1>4, <1>6, <1>8 DEF CameraHolds
    <2>2. e \notin x.files
      <3>1. e \in x.files => e[1] \in x.folders
        BY <1>1 DEF Rooted
      <3>2. e[1] = q => e \in In(q)
        BY <1>1, <2>1, InIs
      <3>3. QED BY <1>3, <2>1, <3>1, <3>2 DEF RemovableDir
    <2>3. ASSUME NEW r \in Paths, IsPrefix(r, e[1]) PROVE r \in x.folders \cup tree
      <3>1. e[1] \in Paths /\ IsPrefix(q, e[1])
        BY <1>1, <1>2, <2>1 DEF Below, IsStrictPrefix, IsPrefix
      <3>2. IsPrefix(r, q) \/ r \in Below(q)
        BY <1>1, <2>3, <3>1, OneBelowOther
      <3>3. QED BY <1>1, <2>3, <3>2, PrefixKnown
    <2>4. QED BY <2>2, <2>3
  <1>9. Current([x EXCEPT !.lostDirs = @ \cup tree], c, h, n)
    <2>1. c.dirs \subseteq d.dirs \cup tree /\ d.dirs \subseteq c.dirs \cup tree /\ c.files \subseteq d.files
      BY <1>6
    <2>2. QED BY ONLY CameraHolds(d), Current(x, d, h, n), <1>2, <1>8, <2>1, LostDirsCurrent
  <1>10. QED BY <1>7, <1>9

-----------------------------------------------------------------------------
(* The inductive invariant and the steps.                                   *)

NewsTyped(n) == n \in Seq(Kinds \X Entries) /\ Len(n) <= MaxNews

Settled ==
  /\ CameraHolds(device)
  /\ Current(fs, device, host, news)
  /\ host \in SUBSET Entries /\ host \cap device.files = {}
  /\ NewsTyped(news)

\* A call that leaves a current tree leaves all settled.
LEMMA LeavesSettled ==
  ASSUME Settled, NEW y, Leaves(y), NEW c, NEW m, device' = c, news' = m,
         CameraHolds(c), c.files \cap host = {}, NewsTyped(m), Current(y, c, host, m)
  PROVE  Settled'
  <1>1. fs' = y /\ host' = host \cap y.files
    BY DEF Leaves
  <1>2. Current(y, c, host', m)
    BY <1>1, HostCurrent
  <1>3. host' \in SUBSET Entries /\ host' \cap c.files = {}
    BY <1>1 DEF Settled
  <1>4. CameraHolds(device') /\ Current(fs', device', host', news') /\ NewsTyped(news')
    BY <1>1, <1>2
  <1>5. host' \in SUBSET Entries /\ host' \cap device'.files = {}
    BY <1>3
  <1> HIDE DEF CameraHolds, Current, NewsTyped
  <1>6. QED BY <1>4, <1>5 DEF Settled

\* The same where camera and events stay.
LEMMA CallSettled ==
  ASSUME Settled, NEW y, Leaves(y), UNCHANGED <<device, news>>, Current(y, device, host, news)
  PROVE  Settled'
  <1>1. device' = device /\ news' = news
    OBVIOUS
  <1>2. CameraHolds(device) /\ device.files \cap host = {} /\ NewsTyped(news)
    BY DEF Settled
  <1>3. QED BY <1>1, <1>2, LeavesSettled

LEMMA InitSettled == Init => Settled
  <1> SUFFICES ASSUME Init PROVE Settled
    OBVIOUS
  <1>1. CameraHolds(device)
    BY DEF Init, CameraHolds
  <1>2. Current(fs, device, host, news)
    BY <1>1, EmptyTreeCurrent DEF Init
  <1>3. NewsTyped(news)
    BY BoundsAreNatural DEF Init, NewsTyped
  <1>4. QED BY <1>1, <1>2, <1>3 DEF Init, Settled

LEMMA StutterSettled == Settled /\ UNCHANGED vars => Settled'
  <1> SUFFICES ASSUME Settled, UNCHANGED vars PROVE Settled'
    OBVIOUS
  <1>1. device' = device /\ fs' = fs /\ host' = host /\ news' = news
    BY DEF vars
  <1>2. QED BY <1>1 DEF Settled

LEMMA LookupFolderSettled ==
  ASSUME Settled, NEW p \in Paths, NEW w, LookupFolder(p, w)
  PROVE  Settled'
  <1>1. Current(Lookup(fs, p, w), device, host, news)
    BY LookupCurrent DEF Settled
  <1>2. QED BY <1>1, CallSettled DEF LookupFolder

LEMMA ListFilesSettled ==
  ASSUME Settled, NEW p \in Paths, NEW w, ListFiles(p, w)
  PROVE  Settled'
  <1>1. Current(Listed(fs, p, w), device, host, news)
    BY ListedCurrent DEF Settled
  <1>2. QED BY <1>1, CallSettled DEF ListFiles

LEMMA ListFoldersSettled ==
  ASSUME Settled, NEW p \in Paths, NEW w, ListFolders(p, w)
  PROVE  Settled'
  <1> DEFINE x == Lookup(fs, p, w)
             y == IF p \in x.folders THEN LoadFolders(x, p, w) ELSE x
  <1>1. Current(x, device, host, news)
    BY LookupCurrent DEF Settled
  <1>2. Leaves(y) /\ UNCHANGED <<device, news>>
    BY DEF ListFolders
  <1> HIDE DEF x
  <1>3. Current(y, device, host, news)
    <2>1. Current(LoadFolders(x, p, w), device, host, news)
      BY <1>1, LoadFoldersCurrent DEF Settled
    <2>2. QED BY <1>1, <2>1
  <1> HIDE DEF y
  <1>4. QED BY <1>2, <1>3, CallSettled

LEMMA GetInfoSettled ==
  ASSUME Settled, NEW e \in Entries, NEW w, GetInfo(e, w)
  PROVE  Settled'
  <1> DEFINE x == Listed(fs, e[1], w)
             y == WithInfo(x, e, "current")
  <1>1. Current(x, device, host, news)
    BY EntryParts, ListedCurrent DEF Settled
  <1>2. e \in x.files \cap device.files /\ Leaves(y) /\ UNCHANGED <<device, news>>
    BY DEF GetInfo, WithInfo
  <1> HIDE DEF x
  <1>3. Current(y, device, host, news)
    BY <1>1, <1>2, InfoCurrent
  <1> HIDE DEF y
  <1>4. QED BY <1>2, <1>3, CallSettled

\* What a current tree holds of a file allows its information to stay.
LEMMA InfoMayStay ==
  ASSUME NEW x, NEW d, NEW h, NEW n, Current(x, d, h, n), NEW e \in x.files
  PROVE  /\ x.info[e] \in {"dirty", "current", "old"}
         /\ x.info[e] # "dirty" => Removing(n) \/ e \in x.lost \cup d.files \cup h
         /\ x.info[e] = "old" => "mtime" \in InfoFields \/ Removing(n) \/ e \in x.lost \cup (d.files \cap Told(n, "Changed"))
  <1>1. x.info[e] \in {"dirty", "current", "old"}
    BY DEF Current, Sound, TreeType
  <1>2. QED BY <1>1 DEF Current, Vouched

LEMMA SetInfoSettled ==
  ASSUME Settled, NEW e \in Entries, NEW field \in InfoFields, NEW outcome \in {"done", "partly", "refused"},
         NEW w, SetInfo(e, field, outcome, w)
  PROVE  Settled'
  <1> DEFINE x == Listed(fs, e[1], w)
             y == AfterSetInfo(x, e, field, outcome)
  <1>1. Current(x, device, host, news)
    BY EntryParts, ListedCurrent DEF Settled
  <1>2. e \in x.files /\ Leaves(y) /\ UNCHANGED <<device, news>> /\ (outcome # "refused" => e \in device.files)
    BY DEF SetInfo
  <1> HIDE DEF x
  <1>3. CASE outcome # "done"
    <2>1. y = WithInfo(x, e, "dirty")
      BY <1>3 DEF AfterSetInfo, WithInfo
    <2>2. Current(WithInfo(x, e, "dirty"), device, host, news)
      BY <1>1, <1>2, InfoCurrent
    <2> HIDE DEF y
    <2>3. QED BY <1>2, <2>1, <2>2, CallSettled
  <1>4. CASE outcome = "done" /\ field = "permissions"
    <2>1. y = x
      BY <1>4 DEF AfterSetInfo
    <2> HIDE DEF y
    <2>2. QED BY <1>1, <1>2, <2>1, CallSettled
  <1>5. CASE outcome = "done" /\ field # "permissions"
    <2> DEFINE i == IF x.info[e] = "current" THEN "old" ELSE x.info[e]
    <2>1. "mtime" \in InfoFields
      BY <1>5, BoundsAreNatural
    <2>2. y = [x EXCEPT !.info[e] = IF @ = "current" THEN "old" ELSE @]
      <3>1. ~(outcome # "done")
        BY <1>5
      <3>2. ~(outcome = "done" /\ field = "permissions")
        BY <1>5
      <3>3. QED BY <3>1, <3>2 DEF AfterSetInfo
    <2>3. y = WithInfo(x, e, i)
      BY <2>2 DEF WithInfo
    <2>4. i \in {"dirty", "current", "old"} /\ (i # "dirty" => e \in device.files \cup host)
      BY <1>1, <1>2, <1>5, InfoMayStay
    <2> HIDE DEF i, y
    <2>5. Current(WithInfo(x, e, i), device, host, news)
      BY <1>1, <1>2, <2>1, <2>4, InfoCurrent
    <2>6. QED BY <1>2, <2>3, <2>5, CallSettled
  <1>6. QED BY <1>3, <1>4, <1>5

LEMMA SetFileNoopSettled ==
  ASSUME Settled, NEW e \in Entries, NEW w, SetFileNoop(e, w)
  PROVE  Settled'
  <1> DEFINE x == Listed(fs, e[1], w)
             a == Attach(x, e)
  <1>1. Current(x, device, host, news)
    BY EntryParts, ListedCurrent DEF Settled
  <1>2. e \in x.files /\ e \in device.files /\ UNCHANGED <<device, news>>
    BY DEF SetFileNoop
  <1>3. PICK i \in {x.info[e], IF x.info[e] = "dirty" THEN "current" ELSE x.info[e]} :
          Leaves([a EXCEPT !.info[e] = i])
    BY DEF SetFileNoop
  <1> HIDE DEF x
  <1>4. Current(a, device, host, news) /\ a.files = x.files /\ a.info = x.info
    BY <1>1, <1>2, AttachCurrent
  <1> HIDE DEF a
  <1>5. /\ a.info[e] \in {"dirty", "current", "old"}
        /\ a.info[e] = "old" => "mtime" \in InfoFields \/ Removing(news) \/ e \in a.lost \cup (device.files \cap Told(news, "Changed"))
    BY <1>2, <1>4, InfoMayStay
  <1>6. /\ i \in {"dirty", "current", "old"}
        /\ i = "old" => "mtime" \in InfoFields \/ Removing(news) \/ e \in a.lost \cup (device.files \cap Told(news, "Changed"))
    BY <1>3, <1>4, <1>5
  <1>7. Current(WithInfo(a, e, i), device, host, news)
    BY <1>2, <1>4, <1>6, InfoCurrent
  <1>8. Leaves(WithInfo(a, e, i))
    BY <1>3 DEF WithInfo
  <1>9. QED BY <1>2, <1>7, <1>8, CallSettled

LEMMA DeleteFileSettled ==
  ASSUME Settled, NEW e \in Entries, NEW answered \in BOOLEAN, NEW w, DeleteFile(e, answered, w)
  PROVE  Settled'
  <1> DEFINE x == Listed(fs, e[1], w)
             y == IF answered THEN DropEntries(x, {e}) ELSE Lost(x, e)
             c == [device EXCEPT !.files = @ \ {e}]
  <1>1. Current(x, device, host, news)
    BY EntryParts, ListedCurrent DEF Settled
  <1>2. e \in x.files /\ device' = c /\ news' = news /\ Leaves(y)
    BY DEF DeleteFile
  <1> HIDE DEF x
  <1>3. c.dirs = device.dirs /\ c.files = device.files \ {e} /\ CameraHolds(c) /\ c.files \cap host = {}
    BY DEF Settled, CameraHolds
  <1> HIDE DEF c
  <1>4. Current(y, c, host, news)
    <2>1. CASE answered
      <3>1. {e} \in SUBSET x.files
        BY <1>2
      <3>2. Current(DropEntries(x, {e}), c, host, news)
        BY <1>1, <1>3, <3>1, DropCurrent DEF Settled
      <3>3. QED BY <2>1, <3>2
    <2>2. CASE ~answered
      <3>1. e[1] \in x.folders /\ c.files \ {e} = device.files \ {e}
        BY <1>1, <1>2, <1>3 DEF Current, Sound, Rooted
      <3>2. Current(Lost(x, e), c, host, news)
        BY <1>1, <1>3, <3>1, LostCurrent DEF Settled
      <3>3. QED BY <2>2, <3>2
    <2>3. QED BY <2>1, <2>2
  <1> HIDE DEF y
  <1>5. NewsTyped(news)
    BY DEF Settled
  <1>6. QED BY <1>2, <1>3, <1>4, <1>5, LeavesSettled

LEMMA DeleteFileNoopSettled ==
  ASSUME Settled, NEW e \in Entries, NEW w, DeleteFileNoop(e, w)
  PROVE  Settled'
  <1> DEFINE x == Listed(fs, e[1], w)
             y == DropEntries(x, {e})
  <1>1. Current(x, device, host, news)
    BY EntryParts, ListedCurrent DEF Settled
  <1>2. e \in x.files /\ e \in host /\ UNCHANGED <<device, news>> /\ Leaves(y)
    BY DEF DeleteFileNoop
  <1> HIDE DEF x
  <1>3. Current(y, device, host, news)
    <2>1. {e} \in SUBSET x.files /\ device.files = device.files \ {e}
      BY <1>2 DEF Settled
    <2>2. QED BY <1>1, <2>1, DropCurrent DEF Settled
  <1> HIDE DEF y
  <1>4. QED BY <1>2, <1>3, CallSettled

\* The folder is listed after some of its files were deleted, and of those
\* listed some more are deleted.
LEMMA OneByOneCurrent ==
  ASSUME Settled, NEW x, Current(x, device, host, news), NEW p \in x.filesDirty,
         NEW first \in SUBSET (device.files \cap In(p)), NEW v,
         NEW y, y = LoadFilesFrom(device.files \ first, x, p, v),
         NEW then \in SUBSET y.files,
         NEW b, b.dirs = device.dirs, b.files = device.files \ (first \cup then)
  PROVE  Current(DropEntries(y, then), b, host, news) /\ p \in DropEntries(y, then).folders
  <1> DEFINE a == [device EXCEPT !.files = @ \ first]
  <1>1. CameraHolds(device) /\ Sound(x)
    BY DEF Settled, Current
  <1>2. a.dirs = device.dirs /\ a.files = device.files \ first /\ CameraHolds(a)
    BY <1>1 DEF CameraHolds
  <1>3. first \in SUBSET In(p) /\ device.files \ first \in SUBSET Entries
    BY <1>1 DEF CameraHolds
  <1> HIDE DEF a
  <1>4. FilesLoaded(y, x, p, device.files \ first, v)
    BY <1>1, <1>3, LoadFilesIs
  <1>5. Current(y, a, host, news)
    BY <1>1, <1>2, <1>3, <1>4, LoadFilesCurrent
  <1>6. Current(DropEntries(y, then), b, host, news)
    <2>1. b.dirs = a.dirs /\ b.files = a.files \ then
      BY <1>2
    <2>2. QED BY <1>2, <1>5, <2>1, DropCurrent
  <1>7. p \in y.folders
    BY <1>1, <1>4 DEF FilesLoaded, Sound, Rooted
  <1>8. Sound(y) /\ then \in SUBSET Entries
    BY <1>5 DEF Current, Sound, TreeType
  <1>9. DropEntries(y, then).folders = y.folders
    BY ONLY <1>8, DropIs
  <1>10. QED BY <1>6, <1>7, <1>9

LEMMA DeleteAllSettled ==
  ASSUME Settled, NEW p \in Paths, NEW w, DeleteAll(p, w)
  PROVE  Settled'
  <1> DEFINE u == Lookup(fs, p, w)
             x == MarkDirty(u, p)
             mine == device.files \cap In(p)
             gone == [DropEntries(x, In(p)) EXCEPT !.filesDirty = @ \ {p}]
  <1>1. Current(u, device, host, news)
    BY LookupCurrent DEF Settled
  <1>2. /\ p \in u.folders /\ news' = news
        /\ \/ device' = [device EXCEPT !.files = @ \ mine] /\ Leaves(gone)
           \/ \E first \in SUBSET mine, v \in {w, [w EXCEPT !.files = {p}]} :
                 LET y == LoadFilesFrom(device.files \ first, x, p, v)
                     listed == (mine \cap y.files) \ first
                 IN  \E then \in SUBSET listed :
                       \/ /\ device' = [device EXCEPT !.files = @ \ (first \cup then)]
                          /\ Leaves(DropEntries(y, then))
                       \/ \E e \in listed \ then :
                             /\ device' = [device EXCEPT !.files = @ \ (first \cup then \cup {e})]
                             /\ Leaves(Lost(DropEntries(y, then), e))
    BY ZenonT(30) DEF DeleteAll
  <1> HIDE DEF u
  <1>3. Current(x, device, host, news) /\ p \in x.filesDirty /\ Sound(x)
    BY <1>1, <1>2, MarkDirtyCurrent DEF Current
  <1> HIDE DEF x
  <1>4. CameraHolds(device) /\ NewsTyped(news) /\ device.files \cap host = {} /\ device.files \in SUBSET Entries
    BY DEF Settled, CameraHolds
  <1>5. CASE device' = [device EXCEPT !.files = @ \ mine] /\ Leaves(gone)
    <2> DEFINE c == [device EXCEPT !.files = @ \ mine]
    <2>1. /\ c.dirs = device.dirs /\ c.files = device.files \ mine /\ CameraHolds(c)
          /\ c.files \cap host = {}
      BY <1>4 DEF CameraHolds
    <2>2. c.files \in SUBSET Entries /\ c.files \cap In(p) = {} /\ mine \in SUBSET In(p)
      BY <1>4, <2>1
    <2> HIDE DEF c, mine
    <2>3. FilesLoaded(gone, x, p, c.files, [folders |-> {}, files |-> {}])
      BY <1>3, <2>2, EmptiedIsLoaded
    <2> HIDE DEF gone
    <2>4. Current(gone, c, host, news)
      BY <1>3, <1>4, <2>1, <2>2, <2>3, LoadFilesCurrent
    <2>5. device' = c
      BY <1>5 DEF c
    <2>6. QED BY <1>2, <1>4, <1>5, <2>1, <2>4, <2>5, LeavesSettled
  <1>7. ASSUME NEW first \in SUBSET mine, NEW v,
               NEW then \in SUBSET LoadFilesFrom(device.files \ first, x, p, v).files,
               device' = [device EXCEPT !.files = @ \ (first \cup then)],
               Leaves(DropEntries(LoadFilesFrom(device.files \ first, x, p, v), then))
        PROVE  Settled'
    <2> DEFINE b == [device EXCEPT !.files = @ \ (first \cup then)]
               y == LoadFilesFrom(device.files \ first, x, p, v)
    <2>1. device' = b /\ Leaves(DropEntries(y, then)) /\ first \in SUBSET (device.files \cap In(p))
          /\ y = LoadFilesFrom(device.files \ first, x, p, v) /\ then \in SUBSET y.files
      BY <1>7
    <2>2. /\ b.dirs = device.dirs /\ b.files = device.files \ (first \cup then)
          /\ CameraHolds(b) /\ b.files \cap host = {}
      BY <1>4 DEF CameraHolds
    <2> HIDE DEF b, mine, y
    <2>3. Current(DropEntries(y, then), b, host, news)
      BY <1>3, <2>1, <2>2, OneByOneCurrent
    <2>4. QED BY <1>2, <1>4, <2>1, <2>2, <2>3, LeavesSettled
  <1>8. ASSUME NEW first \in SUBSET mine, NEW v,
               NEW then \in SUBSET LoadFilesFrom(device.files \ first, x, p, v).files, NEW e \in mine,
               device' = [device EXCEPT !.files = @ \ (first \cup then \cup {e})],
               Leaves(Lost(DropEntries(LoadFilesFrom(device.files \ first, x, p, v), then), e))
        PROVE  Settled'
    <2> DEFINE b == [device EXCEPT !.files = @ \ (first \cup then)]
               c == [device EXCEPT !.files = @ \ (first \cup then \cup {e})]
               y == LoadFilesFrom(device.files \ first, x, p, v)
               z == DropEntries(y, then)
    <2>1. device' = c /\ Leaves(Lost(z, e)) /\ first \in SUBSET (device.files \cap In(p))
          /\ y = LoadFilesFrom(device.files \ first, x, p, v) /\ then \in SUBSET y.files
      BY <1>8
    <2>2. b.dirs = device.dirs /\ b.files = device.files \ (first \cup then) /\ CameraHolds(b)
      BY <1>4 DEF CameraHolds
    <2>3. e \in Entries /\ e[1] = p
      <3>1. p \in Paths /\ e \in In(p) /\ e \in Entries
        BY <1>3, <1>4, <1>8 DEF Sound, Rooted, TreeType
      <3>2. QED BY <3>1, InIs
    <2>4. /\ c.dirs = device.dirs /\ c.files = device.files \ (first \cup then \cup {e})
          /\ CameraHolds(c) /\ c.files \cap host = {}
      BY <1>4 DEF CameraHolds
    <2> HIDE DEF b, c, mine, y
    <2>5. Current(z, b, host, news) /\ p \in z.folders
      BY <1>3, <2>1, <2>2, OneByOneCurrent
    <2> HIDE DEF z
    <2>6. Current(Lost(z, e), c, host, news)
      <3>1. c.dirs = b.dirs /\ c.files \ {e} = b.files \ {e}
        BY <2>2, <2>4
      <3>2. QED BY <2>2, <2>3, <2>5, <3>1, LostCurrent
    <2>7. QED BY <1>2, <1>4, <2>1, <2>4, <2>6, LeavesSettled
  <1>9. QED
    <2>1. CASE device' = [device EXCEPT !.files = @ \ mine] /\ Leaves(gone)
      BY <1>5, <2>1
    <2>2. CASE \E first \in SUBSET mine, v \in {w, [w EXCEPT !.files = {p}]} :
                 LET y == LoadFilesFrom(device.files \ first, x, p, v)
                     listed == (mine \cap y.files) \ first
                 IN  \E then \in SUBSET listed :
                       \/ /\ device' = [device EXCEPT !.files = @ \ (first \cup then)]
                          /\ Leaves(DropEntries(y, then))
                       \/ \E e \in listed \ then :
                             /\ device' = [device EXCEPT !.files = @ \ (first \cup then \cup {e})]
                             /\ Leaves(Lost(DropEntries(y, then), e))
      <3>0. PICK first \in SUBSET mine, v \in {w, [w EXCEPT !.files = {p}]} :
              \E then \in SUBSET ((mine \cap LoadFilesFrom(device.files \ first, x, p, v).files) \ first) :
                 \/ /\ device' = [device EXCEPT !.files = @ \ (first \cup then)]
                    /\ Leaves(DropEntries(LoadFilesFrom(device.files \ first, x, p, v), then))
                 \/ \E e \in ((mine \cap LoadFilesFrom(device.files \ first, x, p, v).files) \ first) \ then :
                      /\ device' = [device EXCEPT !.files = @ \ (first \cup then \cup {e})]
                      /\ Leaves(Lost(DropEntries(LoadFilesFrom(device.files \ first, x, p, v), then), e))
        BY <2>2, Zenon
      <3>1. PICK then \in SUBSET ((mine \cap LoadFilesFrom(device.files \ first, x, p, v).files) \ first) :
              \/ /\ device' = [device EXCEPT !.files = @ \ (first \cup then)]
                 /\ Leaves(DropEntries(LoadFilesFrom(device.files \ first, x, p, v), then))
              \/ \E e \in mine :
                   /\ device' = [device EXCEPT !.files = @ \ (first \cup then \cup {e})]
                   /\ Leaves(Lost(DropEntries(LoadFilesFrom(device.files \ first, x, p, v), then), e))
        BY <3>0
      <3>2. then \in SUBSET LoadFilesFrom(device.files \ first, x, p, v).files
        OBVIOUS
      <3> HIDE DEF mine, gone
      <3>3. QED BY <1>7, <1>8, <3>1, <3>2
    <2>3. QED BY <1>2, <2>1, <2>2

LEMMA PutFileSettled ==
  ASSUME Settled, NEW e \in Entries, NEW answered \in BOOLEAN, NEW w, PutFile(e, answered, w)
  PROVE  Settled'
  <1> DEFINE x == Lookup(fs, e[1], w)
             c == [device EXCEPT !.files = @ \cup {e}]
             y == IF answered THEN Stored(x, e) ELSE Lost(x, e)
  <1>1. Current(x, device, host, news)
    BY EntryParts, LookupCurrent DEF Settled
  <1>2. /\ e[1] \in x.folders /\ e[1] \in device.dirs /\ e \notin device.files /\ e \notin host
        /\ device' = c /\ news' = news /\ Leaves(y)
    BY DEF PutFile
  <1> HIDE DEF x
  <1>3. /\ c.dirs = device.dirs /\ c.files = device.files \cup {e} /\ CameraHolds(c)
        /\ c.files \cap host = {}
    BY <1>2 DEF Settled, CameraHolds
  <1> HIDE DEF c
  <1>4. Current(Stored(x, e), c, host, news)
    <2>1. CASE e \in x.files
      <3>1. Stored(x, e) = Outdated(x, e)
        BY <2>1 DEF Stored
      <3>2. Current(Outdated(x, e), device, host, news) /\ Outdated(x, e).files = x.files
        BY <1>1, <1>2, OutdatedCurrent
      <3>3. Current(Outdated(x, e), c, host, news)
        BY <1>3, <2>1, <3>2, StoredCurrent
      <3>4. QED BY <3>1, <3>3
    <2>2. CASE e \notin x.files
      <3>1. Stored(x, e) = WithFile(x, e)
        BY <2>2 DEF Stored, WithFile
      <3>2. Current(WithFile(x, e), c, host, news)
        BY <1>1, <1>2, <1>3, <2>2, PutCurrent
      <3>3. QED BY <3>1, <3>2
    <2>3. QED BY <2>1, <2>2
  <1>5. Current(Lost(x, e), c, host, news)
    <2>1. c.files \ {e} = device.files \ {e}
      BY <1>3
    <2>2. QED BY <1>1, <1>2, <1>3, <2>1, LostCurrent DEF Settled
  <1>6. Current(y, c, host, news)
    BY <1>4, <1>5
  <1> HIDE DEF y
  <1>7. NewsTyped(news)
    BY DEF Settled
  <1>8. QED BY <1>2, <1>3, <1>6, <1>7, LeavesSettled

LEMMA MakeDirSettled ==
  ASSUME Settled, NEW p \in Paths, NEW name \in FolderNames, NEW answered \in BOOLEAN, NEW w,
         MakeDir(p, name, answered, w)
  PROVE  Settled'
  <1> DEFINE x == Lookup(fs, p, w)
             q == Append(p, name)
             c == [device EXCEPT !.dirs = @ \cup {q}]
             unknown == [x EXCEPT !.lostDirs = @ \cup {q}]
             y == IF answered THEN NewFolder(x, q) ELSE unknown
  <1>1. Current(x, device, host, news)
    BY LookupCurrent DEF Settled
  <1>2. /\ p \in x.folders /\ p \in device.dirs /\ q \in Paths /\ q \notin device.dirs
        /\ device' = c /\ news' = news /\ Leaves(y)
    BY DEF MakeDir
  <1>3. q # Root /\ Front(q) = p
    BY <1>2, AppendIsChild
  <1> HIDE DEF x, q
  <1>4. c.dirs = device.dirs \cup {q} /\ c.files = device.files /\ c.files \cap host = {} /\ CameraHolds(c)
    <2>1. c.dirs = device.dirs \cup {q} /\ c.files = device.files
      BY DEF Settled, CameraHolds
    <2>2. c \in [dirs : SUBSET Paths, files : SUBSET Entries]
      BY <1>2 DEF Settled, CameraHolds
    <2> HIDE DEF c
    <2>3. QED BY <1>2, <1>3, <2>1, <2>2 DEF Settled, CameraHolds
  <1> HIDE DEF c
  <1>5. Current(NewFolder(x, q), c, host, news)
    BY <1>1, <1>2, <1>3, <1>4, NewFolderCurrent DEF Settled
  <1>6. Current(unknown, c, host, news)
    <2>1. {q} \in SUBSET Paths /\ c.dirs \subseteq device.dirs \cup {q} /\ device.dirs \subseteq c.dirs \cup {q}
      BY <1>2, <1>4
    <2>2. QED BY <1>1, <1>4, <2>1, LostDirsCurrent DEF Settled
  <1>7. Current(y, c, host, news)
    BY <1>5, <1>6
  <1> HIDE DEF y
  <1>8. NewsTyped(news)
    BY DEF Settled
  <1>9. QED BY <1>2, <1>4, <1>7, <1>8, LeavesSettled

LEMMA RemoveDirSettled ==
  ASSUME Settled, NEW p \in Paths, NEW name \in FolderNames, NEW w, RemoveDir(p, name, w)
  PROVE  Settled'
  <1> DEFINE u == Lookup(fs, p, w)
             x == LoadFolders(u, p, w)
             q == Append(p, name)
             tree == {q} \cup Below(q)
             c == [dirs |-> device.dirs \ tree, files |-> device.files \ UNION {In(r) : r \in tree}]
  <1>1. Current(u, device, host, news)
    BY LookupCurrent DEF Settled
  <1>2. Current(x, device, host, news)
    <2> HIDE DEF u
    <2>1. QED BY <1>1, LoadFoldersCurrent DEF Settled
  <1>3. /\ RemovableDir(x, q) /\ q \in device.dirs /\ p \in x.folders /\ news' = news
        /\ \/ device' = c /\ FolderDeleted(x, q)
           \/ \E dirs \in SUBSET tree, files \in SUBSET UNION {In(r) : r \in tree} :
                /\ \A r \in dirs : Below(r) \subseteq dirs
                /\ UNION {In(r) : r \in dirs} \subseteq files
                /\ device' = [dirs |-> device.dirs \ dirs, files |-> device.files \ files]
                /\ Leaves([x EXCEPT !.lostDirs = @ \cup tree])
    BY DEF RemoveDir
  <1> HIDE DEF x
  <1>4. q \in x.folders /\ q \in Paths /\ p \in x.folders
    BY <1>2, <1>3 DEF RemovableDir, Current, Sound, TreeType
  <1>5. q \in x.folders \ {Root} /\ q # Root /\ Front(q) = p
    BY <1>4, AppendIsChild
  <1>6. p # q
    <2>1. p \in Paths /\ Len(p) \in Nat /\ Len(q) = Len(p) + 1
      BY AppendIsChild, PathType
    <2>2. QED BY <2>1
  <1> HIDE DEF q, tree
  <1>7. CameraHolds(device) /\ NewsTyped(news) /\ device.files \cap host = {}
    BY DEF Settled
  <1>8. tree = {q} \cup Below(q) /\ c = [dirs |-> device.dirs \ tree, files |-> device.files \ UNION {In(r) : r \in tree}]
    BY DEF tree
  <1>9. ASSUME device' = c, FolderDeleted(x, q) PROVE Settled'
    <2> DEFINE z == WithoutFolder(x, q)
               Older(D, F, T) == [z EXCEPT !.folders = @ \cup {q}, !.foldersDirty = @ \cup D, !.filesDirty = @ \cup F,
                                           !.lostDirs = @ \cup {q}, !.twice = @ \cup T]
    <2>1. c.files \cap host = {} /\ c.dirs = device.dirs \ tree
      BY <1>7
    <2> HIDE DEF c
    <2>2. Current(z, c, host, news) /\ CameraHolds(c)
      BY <1>2, <1>3, <1>5, <1>7, <1>8, WithoutFolderCurrent
    <2>3. \/ Leaves(z)
          \/ \E D \in SUBSET {q}, F \in SUBSET {q}, T \in SUBSET {q} : Leaves(Older(D, F, T))
      BY <1>9 DEF FolderDeleted
    <2>4. ASSUME NEW D \in SUBSET {q}, NEW F \in SUBSET {q}, NEW T \in SUBSET {q}
          PROVE  Current(Older(D, F, T), c, host, news)
      <3>1. q \in Paths \ c.dirs
        BY <1>4, <1>8, <2>1
      <3>2. z.folders = x.folders \ {q} /\ z.files \subseteq x.files
        BY <1>2, <1>4, WithoutFolderIs DEF Current
      <3>3. Front(q) \in z.folders /\ In(q) \cap z.files = {}
        BY <1>3, <1>4, <1>5, <1>6, <3>2 DEF RemovableDir
      <3> HIDE DEF z
      <3>4. QED BY <1>5, <2>2, <3>1, <3>3, ExposedCurrent
    <2> HIDE DEF z, Older
    <2>5. QED BY <1>3, <1>7, <1>9, <2>1, <2>2, <2>3, <2>4, LeavesSettled
  <1>10. ASSUME NEW dirs \in SUBSET tree, NEW files \in SUBSET UNION {In(r) : r \in tree},
                \A r \in dirs : Below(r) \subseteq dirs, UNION {In(r) : r \in dirs} \subseteq files,
                device' = [dirs |-> device.dirs \ dirs, files |-> device.files \ files],
                Leaves([x EXCEPT !.lostDirs = @ \cup tree])
         PROVE  Settled'
    <2> DEFINE b == [dirs |-> device.dirs \ dirs, files |-> device.files \ files]
               y == [x EXCEPT !.lostDirs = @ \cup tree]
    <2>1. b.files \cap host = {} /\ device' = b /\ Leaves(y)
      BY <1>7, <1>10
    <2> HIDE DEF b
    <2>2. Current(y, b, host, news) /\ CameraHolds(b)
      <3>1. b = [dirs |-> device.dirs \ dirs, files |-> device.files \ files]
        BY DEF b
      <3>2. tree = {q} \cup Below(q)
        BY <1>8
      <3>3. /\ Current(x, device, host, news) /\ CameraHolds(device) /\ RemovableDir(x, q)
            /\ q \in x.folders \ {Root}
        BY <1>2, <1>3, <1>5, <1>7
      <3>4. /\ dirs \in SUBSET tree /\ files \in SUBSET UNION {In(r) : r \in tree}
            /\ \A r \in dirs : Below(r) \subseteq dirs
            /\ UNION {In(r) : r \in dirs} \subseteq files
        BY <1>10
      <3>5. QED BY ONLY <3>1, <3>2, <3>3, <3>4, TreeLostCurrent
    <2> HIDE DEF y
    <2>3. QED BY <1>3, <1>7, <2>1, <2>2, LeavesSettled
  <1> HIDE DEF c
  <1>11. QED BY <1>3, <1>9, <1>10

LEMMA EmptiedIs ==
  ASSUME NEW x, NEW d, NEW h, NEW n, Current(x, d, h, n)
  PROVE  Emptied(x) = EmptyTree
  <1>1. ListIntact(x.lru)
    BY LinkedIsIntact DEF Current, Sound, Holds
  <1>2. QED BY <1>1 DEF Emptied

LEMMA ResetSettled ==
  ASSUME Settled, Reset
  PROVE  Settled'
  <1>1. Emptied(fs) = EmptyTree
    BY EmptiedIs DEF Settled
  <1>2. Current(EmptyTree, device, host, news)
    BY EmptyTreeCurrent DEF Settled
  <1>3. QED BY <1>1, <1>2, CallSettled DEF Reset

LEMMA CaptureToHostSettled ==
  ASSUME Settled, NEW name \in FileNames, NEW w, CaptureToHost(name, w)
  PROVE  Settled'
  <1> DEFINE e == <<Root, name>>
             x == AppendFile(fs, e, w)
             a == Attach(x, e)
             i == IF e \in InfoUsed THEN "current" ELSE a.info[e]
  <1>1. e \in Entries /\ e[1] = Root
    BY RootIsPath DEF Entries
  <1>2. /\ e \notin device.files /\ e \notin host /\ UNCHANGED <<device, news>>
        /\ IF e \in x.files
           THEN fs' = WithInfo(a, e, i) /\ host' = (host \cap x.files) \cup {e}
           ELSE Leaves(x)
    BY DEF CaptureToHost, WithInfo
  <1> HIDE DEF e
  <1>3. Current(fs, device, host \cup {e}, news)
    <2>1. host \cap fs.files \subseteq host \cup {e}
      OBVIOUS
    <2>2. QED BY <2>1, HostCurrent DEF Settled
  <1>4. Current(x, device, host \cup {e}, news)
    <2>1. e[1] \in device.dirs /\ e \in device.files \cup (host \cup {e}) /\ CameraHolds(device)
      BY <1>1 DEF Settled, CameraHolds
    <2>2. QED BY <1>1, <1>3, <2>1, AppendCurrent
  <1> HIDE DEF x
  <1>5. CASE e \notin x.files
    <2>1. (host \cup {e}) \cap x.files \subseteq host
      BY <1>5
    <2>2. Current(x, device, host, news)
      BY <1>4, <2>1, HostCurrent
    <2>3. QED BY <1>2, <1>5, <2>2, CallSettled
  <1>6. CASE e \in x.files
    <2>1. fs' = WithInfo(a, e, i) /\ host' = (host \cap x.files) \cup {e} /\ device' = device /\ news' = news
      BY <1>2, <1>6
    <2>2. Current(a, device, host \cup {e}, news) /\ a.files = x.files
      BY <1>4, <1>6, AttachCurrent
    <2> HIDE DEF a
    <2>3. /\ i \in {"dirty", "current", "old"}
          /\ i = "old" => "mtime" \in InfoFields \/ Removing(news) \/ e \in a.lost \cup (device.files \cap Told(news, "Changed"))
      BY <1>6, <2>2, InfoMayStay
    <2> HIDE DEF i
    <2>4. Current(WithInfo(a, e, i), device, host \cup {e}, news) /\ WithInfo(a, e, i).files = a.files
      BY <1>6, <2>2, <2>3, InfoCurrent
    <2>5. (host \cup {e}) \cap WithInfo(a, e, i).files \subseteq host'
      BY <2>1, <2>2, <2>4
    <2>6. Current(fs', device', host', news')
      BY <2>1, <2>4, <2>5, HostCurrent
    <2>7. host' \in SUBSET Entries /\ host' \cap device'.files = {}
      BY <1>1, <1>2, <2>1 DEF Settled
    <2>8. CameraHolds(device') /\ NewsTyped(news')
      BY <2>1 DEF Settled
    <2> HIDE DEF CameraHolds, Current, NewsTyped
    <2>9. QED BY <2>6, <2>7, <2>8 DEF Settled
  <1>7. QED BY <1>5, <1>6

\* A report is one more event, and takes back none.
LEMMA ReportsMore ==
  ASSUME NewsTyped(news), NEW kind \in Kinds, NEW e \in Entries, Reports(kind, e)
  PROVE  /\ NewsTyped(news')
         /\ \A k \in Kinds : Told(news, k) \subseteq Told(news', k)
         /\ e \in Told(news', kind)
  <1>1. news' = Append(news, <<kind, e>>) /\ Len(news) < MaxNews /\ <<kind, e>> \in Kinds \X Entries
        /\ news \in Seq(Kinds \X Entries)
    BY DEF Reports, NewsTyped
  <1>2. /\ news' \in Seq(Kinds \X Entries) /\ Len(news') = Len(news) + 1
        /\ news'[Len(news) + 1] = <<kind, e>>
        /\ \A i \in 1 .. Len(news) : news'[i] = news[i]
        /\ Len(news) \in Nat
    BY <1>1
  <1>3. NewsTyped(news')
    BY <1>1, <1>2, BoundsAreNatural DEF NewsTyped
  <1>4. DOMAIN news = 1 .. Len(news) /\ DOMAIN news' = 1 .. Len(news) + 1
    BY <1>1, <1>2
  <1>5. ASSUME NEW k \in Kinds, NEW b \in Told(news, k) PROVE b \in Told(news', k)
    <2>1. PICK i \in DOMAIN news : news[i] = <<k, b>>
      BY DEF Told
    <2>2. i \in DOMAIN news' /\ news'[i] = <<k, b>>
      BY <1>2, <1>4, <2>1
    <2>3. b \in Entries
      BY DEF Told
    <2>4. QED BY <2>2, <2>3 DEF Told
  <1>6. e \in Told(news', kind)
    <2>1. Len(news) + 1 \in DOMAIN news'
      BY <1>2, <1>4
    <2>2. QED BY <1>2, <2>1 DEF Told
  <1>7. QED BY <1>3, <1>5, <1>6

LEMMA CameraAddsSettled ==
  ASSUME Settled, NEW e \in Entries, CameraAdds(e)
  PROVE  Settled'
  <1> DEFINE missing == {p \in Paths : IsPrefix(p, e[1])} \ device.dirs
             c == [dirs |-> device.dirs \cup missing, files |-> device.files \cup {e}]
             y == Outdated(fs, e)
  <1>1. /\ e \notin device.files /\ e \notin host /\ device' = c /\ fs' = y
        /\ Reports("Added", e) /\ host' = host
    BY DEF CameraAdds
  <1>2. Current(y, device, host, news)
    BY <1>1, OutdatedCurrent DEF Settled
  <1> HIDE DEF y
  <1>3. /\ NewsTyped(news') /\ \A k \in Kinds : Told(news, k) \subseteq Told(news', k)
        /\ e \in Told(news', "Added")
    BY <1>1, ReportsMore DEF Settled, Kinds
  <1>4. Current(y, device, host, news')
    BY <1>2, <1>3, NewsCurrent
  <1>5. c.dirs = device.dirs \cup missing /\ c.files = device.files \cup {e}
    OBVIOUS
  <1>6. CameraHolds(c)
    BY AddsHolds DEF Settled
  <1> HIDE DEF c
  <1>7. Current(y, c, host, news')
    BY <1>3, <1>4, <1>5, AddsCurrent DEF Settled
  <1>8. host' \in SUBSET Entries /\ host' \cap device'.files = {}
    BY <1>1, <1>5 DEF Settled
  <1>9. Current(fs', device', host', news') /\ CameraHolds(device')
    BY <1>1, <1>6, <1>7
  <1> HIDE DEF CameraHolds, Current, NewsTyped
  <1>10. QED BY <1>3, <1>8, <1>9 DEF Settled

LEMMA CameraRemovesSettled ==
  ASSUME Settled, NEW e \in Entries, CameraRemoves(e)
  PROVE  Settled'
  <1> DEFINE c == [device EXCEPT !.files = @ \ {e}]
             y == Outdated(fs, e)
  <1>1. device' = c /\ fs' = y /\ Reports("Removed", e) /\ host' = host
    BY DEF CameraRemoves
  <1>2. Sound(y) /\ y.folders = fs.folders /\ y.lostDirs = fs.lostDirs
    <2>1. OnlyAged(y, fs, e)
      BY OutdatedAges DEF Settled, Current
    <2>2. QED BY <2>1 DEF OnlyAged
  <1> HIDE DEF y
  <1>3. NewsTyped(news') /\ e \in Told(news', "Removed")
    BY <1>1, ReportsMore DEF Settled, Kinds
  <1>4. c.dirs = device.dirs /\ c.files = device.files \ {e} /\ CameraHolds(c)
    BY DEF Settled, CameraHolds
  <1> HIDE DEF c
  <1>5. y.folders \subseteq c.dirs \cup y.lostDirs /\ Removing(news')
    BY <1>2, <1>3, <1>4 DEF Settled, Current, Known, Removing
  <1>6. Current(y, c, host, news')
    BY <1>2, <1>5, RemovingCurrent
  <1>7. host' \in SUBSET Entries /\ host' \cap device'.files = {}
    BY <1>1, <1>4 DEF Settled
  <1>8. Current(fs', device', host', news') /\ CameraHolds(device')
    BY <1>1, <1>4, <1>6
  <1> HIDE DEF CameraHolds, Current, NewsTyped
  <1>9. QED BY <1>3, <1>7, <1>8 DEF Settled

LEMMA CameraChangesSettled ==
  ASSUME Settled, NEW e \in Entries, CameraChanges(e)
  PROVE  Settled'
  <1> DEFINE y == WithInfo(fs, e, "old")
  <1>1. /\ e \in device.files /\ fs.info[e] = "current" /\ device' = device /\ fs' = y
        /\ Reports("Changed", e) /\ host' = host
    BY DEF CameraChanges, WithInfo
  <1>2. e \in fs.files
    BY <1>1 DEF Settled, Current, Sound, Blank
  <1> HIDE DEF y
  <1>3. /\ NewsTyped(news') /\ \A k \in Kinds : Told(news, k) \subseteq Told(news', k)
        /\ e \in Told(news', "Changed")
    BY <1>1, ReportsMore DEF Settled, Kinds
  <1>4. Current(fs, device, host, news')
    BY <1>3, NewsCurrent DEF Settled
  <1>5. Current(y, device, host, news')
    BY <1>1, <1>2, <1>3, <1>4, InfoCurrent DEF y
  <1>6. /\ Current(fs', device', host', news') /\ CameraHolds(device')
        /\ host' \in SUBSET Entries /\ host' \cap device'.files = {}
    BY <1>1, <1>5 DEF Settled
  <1> HIDE DEF CameraHolds, Current, NewsTyped
  <1>7. QED BY <1>3, <1>6 DEF Settled

LEMMA HandleEventSettled ==
  ASSUME Settled, NEW w, HandleEvent(w)
  PROVE  Settled'
  <1> DEFINE kind == Head(news)[1]
             e == Head(news)[2]
             m == Tail(news)
             y == Handled(kind, e, w)
             x == AppendFile(fs, e, w)
  <1>1. news # << >> /\ Leaves(y) /\ news' = m /\ device' = device
    BY DEF HandleEvent
  <1>2. /\ CameraHolds(device) /\ Current(fs, device, host, news) /\ device.files \cap host = {}
        /\ news \in Seq(Kinds \X Entries) /\ Len(news) <= MaxNews
    BY DEF Settled, NewsTyped
  <1>3. kind \in Kinds /\ e \in Entries /\ m \in Seq(Kinds \X Entries) /\ Len(m) <= Len(news)
    BY <1>1, <1>2, ToldFirst
  <1>4. NewsTyped(m)
    <2>1. Len(m) \in Nat /\ Len(news) \in Nat
      BY <1>2, <1>3
    <2>2. QED BY <1>2, <1>3, <2>1, BoundsAreNatural DEF NewsTyped
  <1>5. SUFFICES Current(y, device, host, m)
    <2> HIDE DEF y, m
    <2>1. QED BY <1>1, <1>2, <1>4, LeavesSettled
  <1>6. CASE kind = "Removed"
    <2>1. y = Emptied(fs)
      BY <1>6 DEF Handled
    <2>2. Emptied(fs) = EmptyTree
      BY <1>2, EmptiedIs
    <2> HIDE DEF y, m
    <2>3. QED BY <1>2, <2>1, <2>2, EmptyTreeCurrent
  <1>7. CASE kind # "Removed" /\ e \notin device.files
    <2>1. y = fs
      <3>1. ~(kind = "Removed")
        BY <1>7
      <3>2. QED BY <1>7, <3>1 DEF Handled
    <2> HIDE DEF y
    <2>2. QED BY <1>1, <1>2, <1>7, <2>1, TailCurrent
  <1>8. CASE kind # "Removed" /\ e \in device.files
    <2> DEFINE i == IF kind = "Changed" THEN "dirty"
                    ELSE IF e \in InfoUsed THEN "current" ELSE x.info[e]
    <2>1. y = [x EXCEPT !.info[e] =
                 CASE e \notin x.files -> @
                   [] e \in x.files /\ kind = "Changed" -> "dirty"
                   [] OTHER -> IF e \in InfoUsed THEN "current" ELSE @]
      <3>1. ~(kind = "Removed") /\ ~(kind # "Removed" /\ e \notin device.files)
        BY <1>8
      <3>2. QED BY <3>1 DEF Handled
    <2>2. y = WithInfo(x, e, CASE e \notin x.files -> x.info[e]
                               [] e \in x.files /\ kind = "Changed" -> "dirty"
                               [] OTHER -> IF e \in InfoUsed THEN "current" ELSE x.info[e])
      BY <2>1 DEF WithInfo
    <2>3. (e \notin x.files => y = WithInfo(x, e, x.info[e])) /\ (e \in x.files => y = WithInfo(x, e, i))
      <3>1. CASE e \notin x.files
        BY <2>2, <3>1
      <3>2. CASE e \in x.files /\ kind = "Changed"
        <4>1. i = "dirty"
          BY <3>2
        <4> HIDE DEF i
        <4>2. QED BY <2>2, <3>2, <4>1
      <3>3. CASE e \in x.files /\ kind # "Changed"
        <4>1. i = IF e \in InfoUsed THEN "current" ELSE x.info[e]
          BY <3>3
        <4>2. ~(e \notin x.files) /\ ~(e \in x.files /\ kind = "Changed")
          BY <3>3
        <4> HIDE DEF i
        <4>3. y = WithInfo(x, e, IF e \in InfoUsed THEN "current" ELSE x.info[e])
          BY <2>2, <4>2
        <4>4. QED BY <3>3, <4>1, <4>3
      <3>4. QED BY <3>1, <3>2, <3>3
    <2> HIDE DEF y
    <2>4. e[1] \in device.dirs /\ e \in device.files \cup host
      BY <1>2, <1>8 DEF CameraHolds
    <2>5. /\ Current(x, device, host, news) /\ WayKnown(x, e[1])
          /\ e \in device.files /\ e[1] \in x.folders \ x.unread => e \in x.files
      BY <1>2, <1>3, <2>4, AppendCurrent
    <2> HIDE DEF x
    <2>6. CASE e \notin x.files
      <3>1. y = x
        BY <1>3, <2>3, <2>5, <2>6 DEF WithInfo, Current, Sound, TreeType
      <3>2. QED BY <1>1, <1>2, <1>8, <2>5, <2>6, <3>1, TailCurrent
    <2>7. CASE e \in x.files
      <3>1. /\ i \in {"dirty", "current", "old"}
            /\ i = "old" => "mtime" \in InfoFields \/ Removing(news) \/ e \in x.lost \cup (device.files \cap Told(news, "Changed"))
            /\ kind = "Changed" => i = "dirty"
        BY <2>5, <2>7, InfoMayStay
      <3> HIDE DEF i
      <3>2. Current(WithInfo(x, e, i), device, host, news)
        BY <2>4, <2>5, <2>7, <3>1, InfoCurrent
      <3>3. /\ y.folders = x.folders /\ y.foldersDirty = x.foldersDirty /\ y.unread = x.unread
            /\ y.twice = x.twice /\ y.lost = x.lost /\ y.lostDirs = x.lostDirs
            /\ y.files = x.files /\ y.info[e] = i /\ y = WithInfo(x, e, i)
        BY <1>3, <2>3, <2>5, <2>7 DEF WithInfo, Current, Sound, TreeType
      <3>4. WayKnown(y, e[1])
        BY <2>5, <3>3 DEF WayKnown
      <3>5. e[1] \in y.folders \ y.unread => e \in y.files
        BY <2>7, <3>3
      <3>6. kind = "Changed" /\ e \in y.files => y.info[e] # "old"
        BY <3>1, <3>3
      <3>7. Current(y, device, host, news)
        BY <3>2, <3>3
      <3> HIDE DEF kind, e, m
      <3>8. kind = Head(news)[1] /\ e = Head(news)[2] /\ m = Tail(news)
        BY DEF kind, e, m
      <3>9. QED BY <1>1, <1>2, <1>8, <3>4, <3>5, <3>6, <3>7, <3>8, TailCurrent
    <2>8. QED BY <2>6, <2>7
  <1>9. QED BY <1>6, <1>7, <1>8

LEMMA NextSettled == Settled /\ Next => Settled'
  <1> SUFFICES ASSUME Settled, Next PROVE Settled'
    OBVIOUS
  <1>1. CASE Reset
    BY <1>1, ResetSettled
  <1>2. ASSUME NEW p \in Paths, FolderCall(p) PROVE Settled'
    <2>1. PICK w \in Failures(p) :
            \/ LookupFolder(p, w) \/ ListFiles(p, w) \/ ListFolders(p, w) \/ DeleteAll(p, w)
            \/ \E d \in FolderNames : RemoveDir(p, d, w) \/ \E answered \in BOOLEAN : MakeDir(p, d, answered, w)
      BY <1>2 DEF FolderCall
    <2>2. QED BY <2>1, LookupFolderSettled, ListFilesSettled, ListFoldersSettled, DeleteAllSettled,
                 MakeDirSettled, RemoveDirSettled
  <1>3. ASSUME NEW e \in Entries, FileCall(e) PROVE Settled'
    <2>1. PICK w \in Failures(e[1]) :
            \/ SetFileNoop(e, w) \/ DeleteFileNoop(e, w) \/ GetInfo(e, w)
            \/ \E answered \in BOOLEAN : DeleteFile(e, answered, w) \/ PutFile(e, answered, w)
            \/ \E field \in InfoFields, outcome \in {"done", "partly", "refused"} : SetInfo(e, field, outcome, w)
      BY <1>3 DEF FileCall
    <2>2. QED BY <2>1, SetFileNoopSettled, DeleteFileSettled, DeleteFileNoopSettled, PutFileSettled,
                 GetInfoSettled, SetInfoSettled
  <1>4. CASE Driver
    <2>1. \/ \E w \in Failures(Root), name \in FileNames : CaptureToHost(name, w)
          \/ \E w : HandleEvent(w)
      BY <1>4 DEF Driver
    <2>2. QED BY <2>1, CaptureToHostSettled, HandleEventSettled
  <1>5. CASE Camera
    <2>1. PICK e \in Entries : CameraAdds(e) \/ CameraRemoves(e) \/ CameraChanges(e)
      BY <1>5 DEF Camera
    <2>2. QED BY <2>1, CameraAddsSettled, CameraRemovesSettled, CameraChangesSettled
  <1>6. QED BY <1>1, <1>2, <1>3, <1>4, <1>5 DEF Next

LEMMA AlwaysSettled == Spec => []Settled
  <1>1. Settled /\ [Next]_vars => Settled'
    BY NextSettled, StutterSettled
  <1>2. QED BY InitSettled, <1>1, PTL DEF Spec

-----------------------------------------------------------------------------
(* What follows.                                                            *)

LEMMA ToldIsPending ==
  ASSUME NewsTyped(news)
  PROVE  /\ Removing(news) => RemovalPending
         /\ \A kind \in Kinds : Told(news, kind) \subseteq AboutPending({kind})
  <1>1. ASSUME NEW kind \in Kinds, NEW e \in Told(news, kind)
        PROVE  \E i \in DOMAIN news : news[i][1] = kind /\ news[i][2] = e
    <2>1. PICK i \in DOMAIN news : news[i] = <<kind, e>>
      BY DEF Told
    <2>2. news[i][1] = kind /\ news[i][2] = e
      BY <2>1
    <2>3. QED BY <2>2
  <1>2. \A kind \in Kinds : Told(news, kind) \subseteq AboutPending({kind})
    BY <1>1 DEF AboutPending
  <1>3. Removing(news) => RemovalPending
    BY <1>1 DEF Removing, RemovalPending, Kinds
  <1>4. QED BY <1>2, <1>3

(* Whatever the calls, failures and events, tree, list and events keep      *)
(* their types, no file is in a folder that is not known, and marks are set *)
(* on known folders only.                                                   *)
THEOREM TypeCorrect == Spec => []TypeOK
  <1>1. Settled => TypeOK
    <2> SUFFICES ASSUME Settled PROVE TypeOK
      OBVIOUS
    <2>1. /\ fs \in TreeType /\ Rooted(fs) /\ fs.lru \in ListType
          /\ device \in [dirs : SUBSET Paths, files : SUBSET Entries] /\ host \in SUBSET Entries
      BY DEF Settled, Current, Sound, CameraHolds, TreeType
    <2>2. Len(news) <= MaxNews /\ \A i \in DOMAIN news : news[i] \in {"Added", "Removed", "Changed"} \X Entries
      BY DEF Settled, NewsTyped, Kinds
    <2>3. QED BY <2>1, <2>2 DEF TypeOK, TreeType, ListType, Rooted
  <1>2. QED BY <1>1, AlwaysSettled, PTL

(* The list of downloads is what gp_filesystem_lru_check expects and holds  *)
(* exactly entries of the tree with content: no entry freed by a listing, a *)
(* deletion or a reset is still linked, and none off the list has a link.   *)
THEOREM ListStaysIntact == Spec => []LruIntact
  <1>1. Settled => LruIntact
    <2> SUFFICES ASSUME Settled PROVE LruIntact
      OBVIOUS
    <2> DEFINE l == fs.lru
               w == Walk(l)
               held == {w[i] : i \in DOMAIN w}
    <2>1. Linked(l) /\ \A e \in Held(l) : e \in fs.files /\ fs.normal[e] # "none"
      BY DEF Settled, Current, Sound, Holds
    <2>2. ListIntact(l) /\ Walked(w, l)
      BY <2>1, LinkedIsIntact
    <2>3. PICK rank \in [Entries -> Nat] : Ordered(l, rank)
      BY <2>1 DEF Linked
    <2> HIDE DEF l, w
    <2>4. PICK n \in 0 .. Cardinality(Entries) :
            /\ w \in [1 .. n -> Entries] /\ Len(w) = n
            /\ n = 0 <=> l.first = Nil
            /\ n > 0 => w[n] = l.last
            /\ Held(l) = {w[i] : i \in 1 .. n}
      BY <2>2 DEF Walked
    <2>5. held = Held(l)
      BY <2>4
    <2>6. l.last = IF w = << >> THEN Nil ELSE Last(w)
      <3>1. n \in Nat
        BY EntriesAreFinite, FS_CardinalityType
      <3>2. CASE n = 0
        <4>1. w = << >>
          BY <2>4, <3>2
        <4>2. l.last = Nil
          BY <2>3, <2>4, <3>2 DEF Ordered
        <4>3. QED BY <4>1, <4>2
      <3>3. CASE n > 0
        <4>1. w # << >>
          BY <2>4, <3>1, <3>3
        <4>2. QED BY <2>4, <3>3, <4>1 DEF Last
      <3>4. QED BY <3>1, <3>2, <3>3
    <2>7. \A e \in Entries \ Held(l) : l.prev[e] = Nil /\ l.next[e] = Nil
      BY <2>3 DEF Ordered, Held
    <2> HIDE DEF held
    <2>8. QED BY <2>1, <2>2, <2>5, <2>6, <2>7 DEF LruIntact, l, w, held
  <1>2. QED BY <1>1, AlwaysSettled, PTL

(* A folder that counts as clean lists the files that the camera and the    *)
(* host have of it, whatever was deleted in part, captured, uploaded or     *)
(* listed before, unless an event about it waits or its listing failed, and *)
(* but for the very files that a failed call deleted or stored after all.   *)
THEOREM CleanFoldersAreExact == Spec => []CleanIsExact
  <1>1. Settled => CleanIsExact
    <2> SUFFICES ASSUME Settled, ~RemovalPending,
                        NEW p \in fs.folders \ fs.filesDirty,
                        NEW e \in In(p) \ (AboutPending({"Added"}) \cup fs.lost)
                 PROVE  /\ e \in fs.files => e \in device.files \cup host
                        /\ e \in device.files /\ p \notin fs.unread => e \in fs.files
      BY DEF CleanIsExact
    <2>1. ~Removing(news) /\ e \notin Told(news, "Added")
      BY ToldIsPending DEF Settled, Kinds
    <2>2. p \in Paths
      BY DEF Settled, Current, Sound, TreeType
    <2>3. e \in Entries /\ e[1] = p
      BY <2>2, InIs
    <2>4. Exact(fs, device, host, news)
      BY DEF Settled, Current
    <2>5. QED BY <2>1, <2>3, <2>4 DEF Exact
  <1>2. QED BY <1>1, AlwaysSettled, PTL

(* Every folder in the tree is on the camera, and a folder whose subfolders *)
(* count as clean knows them all, but those of files still to be announced  *)
(* and those that a failed call made or removed after all.                  *)
THEOREM KnownFoldersAreExact == Spec => []KnownFoldersExact
  <1>1. Settled => KnownFoldersExact
    <2> SUFFICES ASSUME Settled PROVE KnownFoldersExact
      OBVIOUS
    <2>1. Known(fs, device, news) /\ fs.folders \subseteq device.dirs \cup fs.lostDirs /\ device.dirs \in SUBSET Paths
      BY DEF Settled, Current, Known, CameraHolds
    <2>2. ASSUME ~RemovalPending, NEW p \in fs.folders \ fs.foldersDirty,
                 NEW q \in ChildrenIn(device.dirs, p) \ (fs.folders \cup fs.lostDirs)
          PROVE  \E e \in AboutPending({"Added"}) : IsPrefix(q, e[1])
      <3>1. ~Removing(news) /\ Told(news, "Added") \subseteq AboutPending({"Added"})
        BY <2>2, ToldIsPending DEF Settled, Kinds
      <3>2. p \in Paths
        BY <2>2 DEF Settled, Current, Sound, TreeType
      <3>3. q \in device.dirs /\ q # Root /\ Front(q) = p
        <4>1. ChildrenIn(device.dirs, p) = {r \in device.dirs : r # Root /\ Front(r) = p}
          BY <2>1, <3>2, ChildrenByParent
        <4>2. QED BY <2>2, <4>1
      <3>4. \E e \in Told(news, "Added") \cap device.files : IsPrefix(q, e[1])
        BY <2>1, <2>2, <3>1, <3>3 DEF Known
      <3>5. QED BY <3>1, <3>4
    <2>3. QED BY <2>1, <2>2 DEF KnownFoldersExact
  <1>2. QED BY <1>1, AlwaysSettled, PTL

(* Where of a file's information only the permissions can be set, content   *)
(* and information that the tree holds are the camera's own until an event  *)
(* waits that says otherwise.  A time that is set goes unnoticed: then the  *)
(* information kept is the old one.                                         *)
THEOREM HeldIsCurrent == ASSUME "mtime" \notin InfoFields PROVE Spec => []ServesCurrent
  <1>1. Settled => ServesCurrent
    <2> SUFFICES ASSUME Settled, NEW e \in fs.files \ fs.lost
                 PROVE  /\ fs.normal[e] = "old" => RemovalPending
                        /\ fs.info[e] = "old" => RemovalPending \/ e \in AboutPending({"Changed"})
      BY DEF ServesCurrent
    <2>1. /\ Removing(news) => RemovalPending
          /\ Told(news, "Changed") \subseteq AboutPending({"Changed"})
      BY ToldIsPending DEF Settled, Kinds
    <2>2. Vouched(fs, device, host, news)
      BY DEF Settled, Current
    <2>3. QED BY <2>1, <2>2 DEF Vouched
  <1>2. QED BY <1>1, AlwaysSettled, PTL
=============================================================================
