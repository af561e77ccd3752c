-------------------------- MODULE PTPEventsProofs --------------------------
(***************************************************************************)
(* Proofs about PTPEvents over InterruptPool: the types, that the count of *)
(* active transfers is right whatever fails, and that each event arrives   *)
(* once and in order - for a pool of any size, and any number of packets,  *)
(* faults, closings and resets.                                            *)
(*                                                                         *)
(* The count is right because the slots that are taken are known: each is  *)
(* submitted, or has ended and is still to be reported, or was left by a   *)
(* callback that could not submit again.  A close finds none of the last   *)
(* two kinds left when it ends, as cancelling empties the others' slots    *)
(* and every transfer it did cancel is freed (Reaping, Finishing).         *)
(*                                                                         *)
(* The order of the events is an account of the places a packet passes on  *)
(* its way: each step moves the first of one place behind the last of the  *)
(* next, and what leaves the way was taken or dropped (Placed).            *)
(***************************************************************************)
EXTENDS PTPEvents, FiniteSetTheorems, SequenceTheorems, TLAPS

USE DEF Ends, Events

End == [status : Ends, packet : Packet \cup {NoPacket}, pooled : BOOLEAN]
Result == [status : Ends, packet : Packet \cup {NoPacket}]

-----------------------------------------------------------------------------
(* Sequences.                                                               *)

\* Two sequences, one after the other, place by place.
LEMMA Concatenated ==
  ASSUME NEW S, NEW u \in Seq(S), NEW v \in Seq(S)
  PROVE  /\ u \o v \in Seq(S)
         /\ Len(u \o v) = Len(u) + Len(v)
         /\ DOMAIN (u \o v) = 1..(Len(u) + Len(v))
         /\ \A i \in 1..Len(u) : (u \o v)[i] = u[i]
         /\ \A i \in 1..Len(v) : (u \o v)[Len(u) + i] = v[i]
<1>. DEFINE w == u \o v
<1>0. Len(u) \in Nat /\ Len(v) \in Nat
  OBVIOUS
<1>1. /\ w \in Seq(S) /\ Len(w) = Len(u) + Len(v)
      /\ \A i \in 1..(Len(u) + Len(v)) : w[i] = IF i <= Len(u) THEN u[i] ELSE v[i - Len(u)]
  BY ConcatProperties, Zenon
<1>. HIDE DEF w
<1>2. DOMAIN w = 1..(Len(u) + Len(v))
  BY <1>1
<1>3. ASSUME NEW i \in 1..Len(u) PROVE w[i] = u[i]
  <2>1. i \in 1..(Len(u) + Len(v)) /\ i <= Len(u)
    BY <1>0
  <2>. QED  BY <1>1, <2>1, Zenon
<1>4. ASSUME NEW i \in 1..Len(v) PROVE w[Len(u) + i] = v[i]
  <2>1. /\ Len(u) + i \in 1..(Len(u) + Len(v)) /\ ~(Len(u) + i <= Len(u))
        /\ (Len(u) + i) - Len(u) = i
    BY <1>0
  <2>. QED  BY <1>1, <2>1, Zenon
<1>. QED  BY <1>1, <1>2, <1>3, <1>4 DEF w

\* A sequence without its k-th element, place by place.
LEMMA Removed ==
  ASSUME NEW S, NEW s \in Seq(S), NEW k \in DOMAIN s
  PROVE  LET t == SubSeq(s, 1, k - 1) \o SubSeq(s, k + 1, Len(s))
         IN  /\ t \in Seq(S)
             /\ DOMAIN t = 1..(Len(s) - 1)
             /\ \A i \in 1..(Len(s) - 1) : t[i] = s[IF i < k THEN i ELSE i + 1]
<1>. DEFINE u == SubSeq(s, 1, k - 1)
            v == SubSeq(s, k + 1, Len(s))
<1>0. Len(s) \in Nat /\ k \in Nat /\ 1 <= k /\ k <= Len(s)
      /\ \A i \in 1..Len(s) : s[i] \in S
  OBVIOUS
<1>1. /\ u \in Seq(S) /\ Len(u) = k - 1
      /\ \A i \in 1..(k - 1) : u[i] = s[i]
  <2>1. \A i \in 1..(k - 1) : s[i] \in S
    BY <1>0
  <2>2. 1 \in Int /\ k - 1 \in Int
    BY <1>0
  <2>3. /\ u \in Seq(S) /\ Len(u) = (IF 1 <= k - 1 THEN k - 1 - 1 + 1 ELSE 0)
        /\ \A i \in 1..(k - 1 - 1 + 1) : u[i] = s[1 + i - 1]
    BY <2>1, <2>2, SubSeqProperties
  <2>. HIDE DEF u
  <2>4. Len(u) = k - 1
    BY <1>0, <2>3
  <2>5. ASSUME NEW i \in 1..(k - 1) PROVE u[i] = s[i]
    <3>1. i \in 1..(k - 1 - 1 + 1) /\ 1 + i - 1 = i
      BY <1>0
    <3>. QED  BY <2>3, <3>1, Zenon
  <2>. QED  BY <2>3, <2>4, <2>5
<1>2. /\ v \in Seq(S) /\ Len(v) = Len(s) - k
      /\ \A i \in 1..(Len(s) - k) : v[i] = s[k + i]
  <2>1. \A i \in (k + 1)..Len(s) : s[i] \in S
    BY <1>0
  <2>2. k + 1 \in Int /\ Len(s) \in Int
    BY <1>0
  <2>3. /\ v \in Seq(S) /\ Len(v) = (IF k + 1 <= Len(s) THEN Len(s) - (k + 1) + 1 ELSE 0)
        /\ \A i \in 1..(Len(s) - (k + 1) + 1) : v[i] = s[k + 1 + i - 1]
    BY <2>1, <2>2, SubSeqProperties
  <2>. HIDE DEF v
  <2>4. Len(v) = Len(s) - k
    BY <1>0, <2>3
  <2>5. ASSUME NEW i \in 1..(Len(s) - k) PROVE v[i] = s[k + i]
    <3>1. i \in 1..(Len(s) - (k + 1) + 1) /\ k + 1 + i - 1 = k + i
      BY <1>0
    <3>. QED  BY <2>3, <3>1, Zenon
  <2>. QED  BY <2>3, <2>4, <2>5
<1>. HIDE DEF u, v
<1>. DEFINE t == u \o v
<1>3. /\ t \in Seq(S)
      /\ DOMAIN t = 1..(Len(u) + Len(v))
      /\ \A i \in 1..Len(u) : t[i] = u[i]
      /\ \A i \in 1..Len(v) : t[Len(u) + i] = v[i]
  <2>1. u \in Seq(S) /\ v \in Seq(S)
    BY <1>1, <1>2
  <2>. QED  BY <2>1, Concatenated
<1>. HIDE DEF t
<1>4. DOMAIN t = 1..(Len(s) - 1)
  <2>1. Len(u) + Len(v) = Len(s) - 1
    BY <1>0, <1>1, <1>2
  <2>. QED  BY <1>3, <2>1, Zenon
<1>5. ASSUME NEW i \in 1..(Len(s) - 1)
      PROVE  t[i] = s[IF i < k THEN i ELSE i + 1]
  <2>1. CASE i < k
    <3>1. i \in 1..(k - 1)
      BY <1>0, <2>1
    <3>2. t[i] = u[i] /\ u[i] = s[i]
      BY <1>1, <1>3, <3>1, Zenon
    <3>. QED  BY <2>1, <3>2, Zenon
  <2>2. CASE ~(i < k)
    <3>. DEFINE j == i - (k - 1)
    <3>1. j \in 1..(Len(s) - k) /\ (k - 1) + j = i /\ k + j = i + 1
      BY <1>0, <2>2
    <3>. HIDE DEF j
    <3>2. t[i] = v[j] /\ v[j] = s[i + 1]
      BY <1>1, <1>2, <1>3, <3>1, Zenon
    <3>. QED  BY <2>2, <3>2, Zenon
  <2>. QED  BY <2>1, <2>2, Zenon
<1>. QED  BY <1>3, <1>4, <1>5, Zenon DEF t, u, v

-----------------------------------------------------------------------------
(* The transfers of a sequence that the pool still knows.                   *)

PooledOf(s) == {i \in DOMAIN s : s[i].pooled}
Counted(s) == Cardinality(PooledOf(s))

LEMMA PooledFinite ==
  ASSUME NEW s \in Seq(End)
  PROVE  IsFiniteSet(PooledOf(s)) /\ Counted(s) \in Nat /\ (Counted(s) = 0 <=> PooledOf(s) = {})
<1>1. IsFiniteSet(1..Len(s))
  BY FS_Interval
<1>2. PooledOf(s) \in SUBSET (1..Len(s))
  BY DEF PooledOf
<1>3. IsFiniteSet(PooledOf(s))
  BY <1>1, <1>2, FS_Subset
<1>. QED  BY <1>3, FS_CardinalityType, FS_EmptySet DEF Counted

\* What is true of t, which is s and then c.
Appended(s, c, t) ==
  /\ t \in Seq(End) /\ Len(t) = Len(s) + 1
  /\ \A i \in DOMAIN t :
       \/ i \in DOMAIN s /\ t[i] = s[i]
       \/ t[i] = c
  /\ Counted(t) = Counted(s) + (IF c.pooled THEN 1 ELSE 0)
  /\ \A i \in PooledOf(t) :
       \/ c.pooled
       \/ i \in PooledOf(s) /\ t[i] = s[i]

LEMMA AppendCounts ==
  ASSUME NEW s \in Seq(End), NEW c \in End
  PROVE  Appended(s, c, Append(s, c))
<1>. DEFINE t == Append(s, c)
<1>0. t \in Seq(End) /\ Len(t) = Len(s) + 1 /\ t[Len(s) + 1] = c
      /\ (\A i \in 1..Len(s) : t[i] = s[i])
  OBVIOUS
<1>1. Len(s) + 1 \notin PooledOf(s)
  BY DEF PooledOf
<1>2. Counted(t) = Counted(s) + (IF c.pooled THEN 1 ELSE 0)
  <2>1. CASE c.pooled
    <3>1. PooledOf(t) = PooledOf(s) \cup {Len(s) + 1}
      BY <1>0, <2>1 DEF PooledOf
    <3>. QED  BY <1>1, <2>1, <3>1, PooledFinite, FS_AddElement DEF Counted
  <2>2. CASE ~c.pooled
    <3>1. PooledOf(t) = PooledOf(s)
      BY <1>0, <2>2 DEF PooledOf
    <3>. QED  BY <2>2, <3>1, PooledFinite DEF Counted
  <2>. QED  BY <2>1, <2>2
<1>3. \A i \in PooledOf(t) : c.pooled \/ (i \in PooledOf(s) /\ t[i] = s[i])
  BY <1>0 DEF PooledOf
<1>4. \A i \in DOMAIN t : \/ i \in DOMAIN s /\ t[i] = s[i]
                          \/ t[i] = c
  BY <1>0
<1>5. Appended(s, c, t)
  <2>. HIDE DEF t
  <2>. QED  BY <1>0, <1>2, <1>3, <1>4 DEF Appended
<1>. QED  BY <1>5

LEMMA TailCounts ==
  ASSUME NEW s \in Seq(End), s # <<>>
  PROVE  /\ Head(s) \in End /\ Tail(s) \in Seq(End) /\ Len(s) = Len(Tail(s)) + 1
         /\ Counted(s) = Counted(Tail(s)) + (IF Head(s).pooled THEN 1 ELSE 0)
         /\ \A i \in PooledOf(Tail(s)) : i + 1 \in PooledOf(s) /\ Tail(s)[i] = s[i + 1]
<1>. DEFINE t == Tail(s)
            P == PooledOf(s) \ {1}
            f == [i \in PooledOf(t) |-> i + 1]
<1>0. Head(s) = s[1] /\ s[1] \in End /\ t \in Seq(End) /\ Len(s) = Len(t) + 1
      /\ (\A i \in 1..Len(t) : t[i] = s[i + 1])
  OBVIOUS
<1>1. \A i \in PooledOf(t) : i \in Nat /\ i + 1 \in P
  BY <1>0 DEF PooledOf
<1>2. \A j \in P : j - 1 \in PooledOf(t) /\ f[j - 1] = j
  BY <1>0 DEF PooledOf
<1>3. f \in Bijection(PooledOf(t), P)
  <2>1. f \in [PooledOf(t) -> P]
    BY <1>1
  <2>2. \A i, j \in PooledOf(t) : f[i] = f[j] => i = j
    BY <1>1
  <2>3. \A j \in P : \E i \in PooledOf(t) : f[i] = j
    BY <1>2
  <2>. HIDE DEF f, P
  <2>. QED  BY <2>1, <2>2, <2>3 DEF Bijection, Injection, IsInjective, Surjection
<1>4. Cardinality(P) = Counted(t)
  <2>. HIDE DEF f, P
  <2>. QED  BY <1>0, <1>3, PooledFinite, FS_Bijection DEF ExistsBijection, Counted
<1>5. Cardinality(P) = IF 1 \in PooledOf(s) THEN Counted(s) - 1 ELSE Counted(s)
  BY PooledFinite, FS_RemoveElement DEF Counted
<1>6. 1 \in PooledOf(s) <=> Head(s).pooled
  BY <1>0 DEF PooledOf
<1>7. Counted(s) = Counted(t) + (IF Head(s).pooled THEN 1 ELSE 0)
  BY <1>0, <1>4, <1>5, <1>6, PooledFinite
<1>. QED  BY <1>0, <1>1, <1>7 DEF PooledOf

LEMMA EmptyCounts ==
  ASSUME NEW s \in Seq(End), s = <<>>
  PROVE  PooledOf(s) = {} /\ Counted(s) = 0
<1>1. DOMAIN s = {}
  OBVIOUS
<1>2. PooledOf(s) = {}
  BY <1>1, Zenon DEF PooledOf
<1>. QED  BY <1>2, FS_EmptySet DEF Counted

\* The ends that CancelAll leaves behind: those that were there, and n that were
\* cancelled.
AfterCancel(s, n, t) ==
  /\ t \in Seq(End) /\ Len(t) = Len(s) + n /\ Counted(t) = n
  /\ \A i \in PooledOf(t) : t[i].status = "cancelled"
  /\ \A i \in DOMAIN t : t[i].status = "completed" =>
       i \in DOMAIN s /\ s[i].status = "completed" /\ t[i].packet = s[i].packet

LEMMA CancelCounts ==
  ASSUME NEW s \in Seq(End), NEW n \in Nat, NEW asCancelled \in BOOLEAN
  PROVE  AfterCancel(s, n,
           [i \in DOMAIN s |->
              [status |-> IF asCancelled THEN "cancelled" ELSE s[i].status,
               packet |-> IF asCancelled THEN NoPacket ELSE s[i].packet,
               pooled |-> FALSE]]
           \o [i \in 1..n |-> Cancelled])
<1>. DEFINE e(i) == [status |-> IF asCancelled THEN "cancelled" ELSE s[i].status,
                     packet |-> IF asCancelled THEN NoPacket ELSE s[i].packet,
                     pooled |-> FALSE]
            old == [i \in DOMAIN s |-> e(i)]
            new == [i \in 1..n |-> Cancelled]
            t == old \o new
<1>1. old \in Seq(End) /\ Len(old) = Len(s)
  <2>1. \A i \in 1..Len(s) : e(i) \in End
    <3>. SUFFICES ASSUME NEW i \in 1..Len(s)
                  PROVE  e(i) \in End
      OBVIOUS
    <3>1. s[i] \in End
      OBVIOUS
    <3>2. s[i].status \in Ends /\ s[i].packet \in Packet \cup {NoPacket}
      BY <3>1 DEF End
    <3>. QED  BY <3>2 DEF End
  <2>. HIDE DEF e
  <2>. QED  BY <2>1
<1>2. new \in Seq(End) /\ Len(new) = n /\ \A i \in 1..n : new[i] = Cancelled
  <2>1. Cancelled \in End
    BY DEF End, Cancelled
  <2>. QED  BY <2>1
<1>3. \A i \in 1..Len(s) : old[i].pooled = FALSE
        /\ (old[i].status = "completed" => s[i].status = "completed" /\ old[i].packet = s[i].packet)
  OBVIOUS
<1>4. t \in Seq(End) /\ Len(t) = Len(s) + n
      /\ (\A i \in 1..Len(s) : t[i] = old[i])
      /\ (\A i \in (Len(s) + 1)..(Len(s) + n) : t[i] = Cancelled)
  <2>. HIDE DEF old, new
  <2>. QED  BY <1>1, <1>2
<1>5. PooledOf(t) = (Len(s) + 1)..(Len(s) + n)
  <2>. HIDE DEF t, old, new
  <2>. QED  BY <1>3, <1>4 DEF PooledOf, Cancelled
<1>6. Counted(t) = n
  <2>. HIDE DEF t, old, new
  <2>. QED  BY <1>5, FS_Interval DEF Counted
<1>. HIDE DEF t, old, new
<1>7. \A i \in PooledOf(t) : t[i].status = "cancelled"
  BY <1>4, <1>5 DEF Cancelled
<1>8. \A i \in DOMAIN t : t[i].status = "completed" =>
        i \in DOMAIN s /\ s[i].status = "completed" /\ t[i].packet = s[i].packet
  BY <1>3, <1>4 DEF Cancelled
<1>9. AfterCancel(s, n, t)
  BY <1>4, <1>6, <1>7, <1>8 DEF AfterCancel
<1>. QED  BY <1>9 DEF t, old, new, e

-----------------------------------------------------------------------------
(* The inductive invariant.                                                 *)

Accounted ==
  /\ active = inFlight + loose + Len(ended) + forgotten
  /\ inFlight + Counted(ended) <= slots
  /\ ~dh => slots = 0 /\ inFlight = 0 /\ loose = 0 /\ ended = <<>> /\ irqs = <<>>

\* Once transfers were cancelled the pool has no others, and each that libusb
\* has still to report is freed when it is.
Reaping ==
  pc \in {"reap", "finish"} =>
    /\ inFlight = 0
    /\ \A i \in PooledOf(ended) : ended[i].status = "cancelled"
    /\ slots = Counted(ended)

\* When all were reported none is left.
Finishing == pc = "finish" => PooledOf(ended) = {}

\* Only a port whose handle is open is at work.
Handled == ~dh => pc = "idle" /\ ~inUse

\* What completed brought a packet.
Filled ==
  /\ \A i \in DOMAIN ended : ended[i].status = "completed" => ended[i].packet \in Packet
  /\ \A i \in DOMAIN irqs : irqs[i].status = "completed" => irqs[i].packet \in Packet
  /\ ret.status = "completed" => ret.packet \in Packet

PoolInv == PoolTypeOK /\ Accounted /\ Reaping /\ Finishing /\ Handled /\ Filled

IInv == TypeOK /\ PoolInv

-----------------------------------------------------------------------------
(* The device, and the ends of transfers.                                   *)

LEMMA EndKeeps ==
  ASSUME PoolInv, NEW status \in Ends \ {"cancelled"}, NEW p \in Packet \cup {NoPacket},
         status = "completed" => p \in Packet,
         NEW pooled \in BOOLEAN, Ended(status, p, pooled),
         faults' \in 0..MaxFaults, owed' \in Seq(Packet)
  PROVE  PoolInv'
<1>. DEFINE c == [status |-> status, packet |-> p, pooled |-> pooled]
<1>. USE DEF PoolInv
<1>1. ended \in Seq(End) /\ c \in End /\ c.pooled = pooled /\ ended' = Append(ended, c)
      /\ c.status = status /\ c.packet = p
  BY DEF PoolTypeOK, End, Ended
<1>2. /\ ended' \in Seq(End)
      /\ Counted(ended') = Counted(ended) + (IF pooled THEN 1 ELSE 0)
      /\ \A i \in PooledOf(ended') : pooled \/ (i \in PooledOf(ended) /\ ended'[i] = ended[i])
      /\ Counted(ended) \in Nat /\ Counted(ended') \in Nat
      /\ Len(ended') = Len(ended) + 1
      /\ \A i \in DOMAIN ended' : (i \in DOMAIN ended /\ ended'[i] = ended[i]) \/ ended'[i] = c
  <2>. HIDE DEF c
  <2>1. Appended(ended, c, ended')
    BY <1>1, AppendCounts, Zenon
  <2>2. Counted(ended) \in Nat /\ Counted(ended') \in Nat
    BY <1>1, <2>1, PooledFinite DEF Appended
  <2>. QED  BY <1>1, <2>1, <2>2 DEF Appended
<1>. HIDE DEF c
<1>3. pc' = pc /\ slots' = slots /\ (~pooled => inFlight' = inFlight)
      /\ (~pooled => loose > 0 /\ loose' = loose - 1)
      /\ (pooled => inFlight > 0 /\ inFlight' = inFlight - 1 /\ loose' = loose)
  <2>1. pc' = pc /\ slots' = slots
    BY DEF Ended
  <2>2. CASE pooled
    BY <2>1, <2>2 DEF Ended
  <2>3. CASE ~pooled
    BY <2>1, <2>3 DEF Ended
  <2>. QED  BY <2>1, <2>2, <2>3
<1>4. pc \in {"reap", "finish"} => ~pooled
  BY <1>3 DEF Reaping, PoolTypeOK
<1>5. PoolTypeOK'
  <2>1. ended' \in Seq(End)
    BY <1>2 DEF Appended
  <2>2. UNCHANGED <<dh, inUse, slots, active, irqs, pc, closing, ret, packets, cuts>>
        /\ UNCHANGED ghosts
    BY DEF Ended, handle
  <2>3. inFlight' \in 0..NB_INTERRUPT_TRANSFERS /\ loose' \in Nat
    BY <1>3, PoolAssumption DEF PoolTypeOK
  <2>. QED  BY <2>1, <2>2, <2>3 DEF PoolTypeOK, End, ghosts
<1>6. Accounted'
  <2>1. inFlight \in Nat /\ loose \in Nat /\ forgotten \in Nat /\ slots \in Nat
    BY PoolAssumption DEF PoolTypeOK
  <2>2. active' = inFlight' + loose' + Len(ended') + forgotten'
    <3>1. Len(ended') = Len(ended) + 1 /\ Len(ended) \in Nat
      BY <1>1, <1>2
    <3>2. active' = active /\ forgotten' = forgotten
      BY DEF Ended, ghosts
    <3>3. inFlight' + loose' = inFlight + loose - 1
      BY <2>1, <1>3
    <3>. QED  BY <2>1, <3>1, <3>2, <3>3 DEF Accounted
  <2>3. inFlight' + Counted(ended') <= slots'
    BY <1>2, <2>1 DEF Ended, Accounted
  <2>4. dh' = dh /\ dh
    BY <2>1 DEF Ended, Accounted, handle
  <2>. QED  BY <2>2, <2>3, <2>4 DEF Accounted
<1>7. Reaping'
  <2>. SUFFICES ASSUME pc \in {"reap", "finish"}
                PROVE  /\ inFlight' = 0
                       /\ \A i \in PooledOf(ended') : ended'[i].status = "cancelled"
                       /\ slots' = Counted(ended')
    BY <1>3 DEF Reaping
  <2>. QED  BY <1>2, <1>3, <1>4 DEF Reaping
<1>8. Finishing'
  <2>. SUFFICES ASSUME pc = "finish"
                PROVE  PooledOf(ended') = {}
    BY <1>3 DEF Finishing
  <2>. QED  BY <1>2, <1>4 DEF Finishing
<1>9. Handled'
  BY DEF Ended, Handled, handle
<1>10. Filled'
  BY <1>1, <1>2 DEF Ended, Filled
<1>. QED  BY <1>5, <1>6, <1>7, <1>8, <1>9, <1>10

LEMMA DeviceKeeps ==
  ASSUME PoolInv, Occurs \/ DeviceSends \/ TransferFails, PoolAssumption
  PROVE  PoolInv'
<1>1. CASE Occurs
  <2>1. owed' \in Seq(Packet) /\ packets' \in 0..MaxPackets
    <3>1. PICK size \in 1..2 :
            /\ packets + size <= MaxPackets
            /\ packets' = packets + size
            /\ owed' = owed \o [i \in 1..size |->
                                  [n |-> packets + i, first |-> i = 1, more |-> i < size]]
      BY <1>1 DEF Occurs
    <3>. DEFINE new == [i \in 1..size |->
                          [n |-> packets + i, first |-> i = 1, more |-> i < size]]
    <3>2. packets \in 0..MaxPackets /\ owed \in Seq(Packet) /\ MaxPackets \in Nat
      BY DEF PoolInv, PoolTypeOK, PoolAssumption
    <3>3. new \in Seq(Packet)
      BY <3>1, <3>2 DEF Packet
    <3>. HIDE DEF new
    <3>. QED  BY <3>1, <3>2, <3>3 DEF new
  <2>. QED  BY <1>1, <2>1 DEF Occurs, handle, pool, ghosts, PoolInv, PoolTypeOK, Accounted,
               Reaping, Finishing, Handled, Filled
<1>2. CASE DeviceSends
  <2>1. PICK pooled \in BOOLEAN : Ended("completed", Head(owed), pooled)
    BY <1>2 DEF DeviceSends
  <2>2. owed \in Seq(Packet) /\ owed # <<>> /\ owed' = Tail(owed)
    BY <1>2 DEF DeviceSends, PoolInv, PoolTypeOK
  <2>3. Head(owed) \in Packet /\ owed' \in Seq(Packet)
    BY <2>2
  <2>4. faults' \in 0..MaxFaults
    BY <1>2 DEF DeviceSends, Fault, PoolInv, PoolTypeOK, PoolAssumption
  <2>. QED  BY <2>1, <2>3, <2>4, EndKeeps
<1>3. CASE TransferFails
  <2>1. PICK status \in {"error", "gone"}, pooled \in BOOLEAN :
          Fault(status) /\ Ended(status, NoPacket, pooled)
    BY <1>3 DEF TransferFails
  <2>2. faults' \in 0..MaxFaults /\ owed' \in Seq(Packet)
    BY <1>3, <2>1 DEF TransferFails, Fault, PoolInv, PoolTypeOK, PoolAssumption
  <2>. QED  BY <2>1, <2>2, EndKeeps
<1>. QED  BY <1>1, <1>2, <1>3

-----------------------------------------------------------------------------
(* The callback.                                                            *)

LEMMA CallbackKeeps ==
  ASSUME PoolInv, Callback, PoolAssumption
  PROVE  PoolInv'
<1>. DEFINE c == Head(ended)
<1>. USE DEF PoolInv
<1>1. ended \in Seq(End) /\ ended # <<>> /\ ended' = Tail(ended) /\ pc \in Events
      /\ (Freed(c) \/ Resubmitted(c))
      /\ irqs' = (IF Queues(c) THEN Append(irqs, Returned(c.status, c.packet)) ELSE irqs)
  BY DEF PoolTypeOK, End, Callback
<1>2. /\ c \in End /\ ended' \in Seq(End) /\ Len(ended) = Len(ended') + 1
      /\ Counted(ended) = Counted(ended') + (IF c.pooled THEN 1 ELSE 0)
      /\ \A i \in PooledOf(ended') : i + 1 \in PooledOf(ended) /\ ended'[i] = ended[i + 1]
  BY <1>1, TailCounts
<1>3. /\ Counted(ended) \in Nat /\ Counted(ended') \in Nat
      /\ Len(ended') \in Nat
      /\ c = ended[1]
      /\ \A i \in DOMAIN ended' : i + 1 \in DOMAIN ended /\ ended'[i] = ended[i + 1]
  <2>1. Counted(ended) \in Nat /\ Counted(ended') \in Nat
    BY <1>1, <1>2, PooledFinite
  <2>2. /\ Len(ended') \in Nat
        /\ c = ended[1]
        /\ \A i \in DOMAIN ended' : i + 1 \in DOMAIN ended /\ ended'[i] = ended[i + 1]
    BY <1>1
  <2>. QED  BY <2>1, <2>2
<1>4. c.pooled /\ pc \in {"reap", "finish"} => c.status = "cancelled"
  BY <1>1, <1>3 DEF Reaping, PooledOf
<1>. HIDE DEF c
<1>5. /\ c.status \in Ends /\ c.packet \in Packet \cup {NoPacket} /\ c.pooled \in BOOLEAN
      /\ (c.status = "completed" => c.packet \in Packet)
  <2>1. c.status = "completed" => c.packet \in Packet
    BY <1>1, <1>3 DEF Filled
  <2>. QED  BY <1>2, <2>1 DEF End
<1>6. /\ inFlight \in Nat /\ loose \in Nat /\ forgotten \in Nat /\ slots \in Nat
      /\ active \in Nat /\ NB_INTERRUPT_TRANSFERS \in Nat /\ slots <= NB_INTERRUPT_TRANSFERS
  BY PoolAssumption DEF PoolTypeOK
<1>7. irqs' \in Seq(Result) /\ \A i \in DOMAIN irqs' :
        irqs'[i].status = "completed" => irqs'[i].packet \in Packet
  <2>1. irqs \in Seq(Result)
    BY DEF PoolTypeOK, Result
  <2>2. Returned(c.status, c.packet) \in Result
    BY <1>5 DEF Returned, Result
  <2>3. CASE Queues(c)
    <3>1. irqs' = Append(irqs, Returned(c.status, c.packet))
      BY <1>1, <2>3
    <3>. DEFINE r == Returned(c.status, c.packet)
    <3>2. r.status = "completed" => r.packet \in Packet
      BY <1>5 DEF Returned
    <3>. HIDE DEF r
    <3>. QED  BY <2>1, <2>2, <3>1, <3>2 DEF r, Filled
  <2>4. CASE ~Queues(c)
    BY <1>1, <2>1, <2>4 DEF Filled
  <2>. QED  BY <2>3, <2>4
<1>8. /\ slots' \in Nat /\ inFlight' \in Nat /\ loose' \in Nat /\ active' \in Nat
      /\ forgotten' \in Nat /\ faults' \in 0..MaxFaults
      /\ slots' <= slots
      /\ active' = inFlight' + loose' + Len(ended') + forgotten'
      /\ inFlight' + Counted(ended') <= slots'
      /\ (pc \in {"reap", "finish"} => inFlight' = inFlight /\ slots' = Counted(ended'))
  <2>1. faults \in 0..MaxFaults /\ MaxFaults \in Nat
    BY PoolAssumption DEF PoolTypeOK
  <2>2. /\ active = inFlight + loose + Len(ended') + 1 + forgotten
        /\ inFlight + Counted(ended') + (IF c.pooled THEN 1 ELSE 0) <= slots
        /\ pc \in {"reap", "finish"} =>
             slots = Counted(ended') + (IF c.pooled THEN 1 ELSE 0)
    <3>1. active = inFlight + loose + Len(ended) + forgotten
          /\ inFlight + Counted(ended) <= slots
          /\ (pc \in {"reap", "finish"} => slots = Counted(ended))
      BY DEF Accounted, Reaping
    <3>2. Len(ended) = Len(ended') + 1
          /\ Counted(ended) = Counted(ended') + (IF c.pooled THEN 1 ELSE 0)
      BY <1>2
    <3>. QED  BY <1>3, <1>6, <3>1, <3>2
  <2>3. CASE Freed(c)
    <3>1. CASE c.pooled
      <4>. slots' = slots - 1 /\ active' = active - 1 /\ forgotten' = forgotten
           /\ inFlight' = inFlight /\ loose' = loose /\ faults' = faults
        BY <2>3, <3>1 DEF Freed
      <4>. QED  BY <1>3, <1>6, <2>1, <2>2, <3>1
    <3>2. CASE ~c.pooled
      <4>. slots' = slots /\ active' = active /\ forgotten' = forgotten + 1
           /\ inFlight' = inFlight /\ loose' = loose /\ faults' = faults
        BY <2>3, <3>2 DEF Freed
      <4>. QED  BY <1>3, <1>6, <2>1, <2>2, <3>2
    <3>. QED  BY <3>1, <3>2
  <2>4. CASE Resubmitted(c)
    <3>1. slots' = slots /\ forgotten' = forgotten /\ c.status = "completed"
      BY <2>4 DEF Resubmitted
    <3>2. pc \in {"reap", "finish"} => ~c.pooled
      BY <1>4, <3>1
    <3>3. CASE c.pooled /\ inFlight' = inFlight + 1 /\ loose' = loose
               /\ active' = active /\ faults' = faults
      <4>1. active' = inFlight' + loose' + Len(ended') + forgotten'
        BY <1>3, <1>6, <2>2, <3>1, <3>3
      <4>2. inFlight' + Counted(ended') <= slots' /\ pc \notin {"reap", "finish"}
        BY <1>3, <1>6, <2>2, <3>1, <3>2, <3>3
      <4>. QED  BY <1>6, <2>1, <3>1, <3>3, <4>1, <4>2
    <3>4. CASE ~c.pooled /\ loose' = loose + 1 /\ inFlight' = inFlight
               /\ active' = active /\ faults' = faults
      BY <1>3, <1>6, <2>1, <2>2, <3>1, <3>2, <3>4
    <3>5. CASE Fault("submit") /\ active' = active - 1 /\ inFlight' = inFlight
               /\ loose' = loose
      <4>. faults' \in 0..MaxFaults
        BY <2>1, <3>5 DEF Fault
      <4>. QED  BY <1>3, <1>6, <2>2, <3>1, <3>2, <3>5
    <3>. QED  BY <2>4, <3>3, <3>4, <3>5 DEF Resubmitted
  <2>. QED  BY <1>1, <2>3, <2>4
<1>9. UNCHANGED <<dh, inUse, pc, closing, ret, owed, packets, cuts, dropped>> /\ dh /\ pc # "finish"
  <2>1. UNCHANGED <<dh, inUse, pc, closing, ret, owed, packets, cuts, dropped>>
    BY DEF Callback, handle
  <2>2. pc \in Events
    BY <1>1
  <2>3. pc # "finish" /\ pc # "idle"
    BY <2>2
  <2>4. dh
    BY <2>3, Zenon DEF Handled
  <2>. QED  BY <2>1, <2>3, <2>4
<1>10. PoolTypeOK'
  <2>1. slots' \in 0..NB_INTERRUPT_TRANSFERS /\ inFlight' \in 0..NB_INTERRUPT_TRANSFERS
    <3>. HIDE DEF PoolInv
    <3>1. Counted(ended') \in Nat
      BY <1>3
    <3>2. slots' \in Nat /\ slots' <= slots /\ inFlight' \in Nat
          /\ inFlight' + Counted(ended') <= slots'
      BY <1>8
    <3>3. slots \in Nat /\ NB_INTERRUPT_TRANSFERS \in Nat /\ slots <= NB_INTERRUPT_TRANSFERS
      BY <1>6
    <3>4. slots' <= NB_INTERRUPT_TRANSFERS /\ inFlight' <= slots'
      BY <3>1, <3>2, <3>3
    <3>. QED  BY <3>2, <3>3, <3>4
  <2>. QED  BY <1>2, <1>7, <1>8, <1>9, <2>1 DEF PoolTypeOK, End, Result
<1>11. Accounted'
  BY <1>8, <1>9 DEF Accounted
<1>12. Reaping'
  <2>. SUFFICES ASSUME pc \in {"reap", "finish"}
                PROVE  /\ inFlight' = 0
                       /\ \A i \in PooledOf(ended') : ended'[i].status = "cancelled"
                       /\ slots' = Counted(ended')
    BY <1>9 DEF Reaping
  <2>. QED  BY <1>2, <1>8 DEF Reaping
<1>13. Finishing' /\ Handled'
  BY <1>9 DEF Finishing, Handled
<1>14. Filled'
  BY <1>3, <1>7, <1>9 DEF Filled
<1>. QED  BY <1>10, <1>11, <1>12, <1>13, <1>14

-----------------------------------------------------------------------------
(* gp_libusb1_check_int and opening.                                        *)

Answer == [status : Ends \cup {"none", "timeout"}, packet : Packet \cup {NoPacket}]
Full(r) == r.status = "completed" => r.packet \in Packet

LEMMA ServeTypes ==
  ASSUME PoolInv, Serve
  PROVE  /\ ret' \in Answer /\ Full(ret')
         /\ irqs' \in Seq(Result) /\ \A i \in DOMAIN irqs' : Full(irqs'[i])
<1>1. PICK k \in 1..Len(irqs) : ret' = irqs[k] /\ irqs' = SubSeq(irqs, k + 1, Len(irqs))
  BY DEF Serve
<1>2. irqs \in Seq(Result) /\ \A i \in 1..Len(irqs) : Full(irqs[i])
  BY DEF PoolInv, PoolTypeOK, Result, Filled, Full
<1>3. irqs[k] \in Result /\ Full(irqs[k])
  BY <1>2
<1>4. /\ irqs' \in Seq(Result)
      /\ \A i \in DOMAIN irqs' : i + k \in 1..Len(irqs) /\ irqs'[i] = irqs[i + k]
  BY <1>1, <1>2
<1>5. \A i \in DOMAIN irqs' : Full(irqs'[i])
  BY <1>2, <1>4
<1>. QED  BY <1>1, <1>3, <1>4, <1>5 DEF Result, Answer

LEMMA NoneTypes == \A status \in {"none", "timeout", "error"} :
                     Returned(status, NoPacket) \in Answer /\ Full(Returned(status, NoPacket))
  BY DEF Returned, Answer, Full

\* The pool may grow while nothing is being reaped.
LEMMA QueueKeeps ==
  ASSUME PoolInv, PoolAssumption, pc = "idle", dh', NEW k \in 0..Missing, Queue(k),
         UNCHANGED <<ended, irqs, closing, owed, packets, cuts, ghosts>>,
         faults' \in 0..MaxFaults, inUse' \in BOOLEAN, dh' \in BOOLEAN,
         pc' \in {"idle", "wait"}, ret' \in Answer, Full(ret')
  PROVE  PoolInv'
<1>. USE DEF PoolInv
<1>1. /\ inFlight \in Nat /\ loose \in Nat /\ forgotten \in Nat /\ slots \in Nat
      /\ active \in Nat /\ NB_INTERRUPT_TRANSFERS \in Nat /\ slots <= NB_INTERRUPT_TRANSFERS
      /\ Len(ended) \in Nat
  BY PoolAssumption DEF PoolTypeOK
<1>2. Counted(ended) \in Nat
  BY PooledFinite DEF PoolTypeOK, End
<1>3. /\ slots' = slots + k /\ inFlight' = inFlight + k /\ active' = active + k /\ loose' = loose
      /\ k \in Nat /\ slots + k <= NB_INTERRUPT_TRANSFERS
  BY <1>1 DEF Queue, Missing
<1>4. Accounted'
  BY <1>1, <1>2, <1>3 DEF Accounted, ghosts
<1>5. slots' \in 0..NB_INTERRUPT_TRANSFERS /\ inFlight' \in 0..NB_INTERRUPT_TRANSFERS
      /\ active' \in Nat
  <2>1. inFlight + Counted(ended) <= slots
    BY DEF Accounted
  <2>. QED  BY <1>1, <1>2, <1>3, <2>1
<1>6. PoolTypeOK'
  BY <1>3, <1>5 DEF PoolTypeOK, Answer, ghosts
<1>7. Reaping' /\ Finishing' /\ Handled'
  BY DEF Reaping, Finishing, Handled
<1>8. Filled'
  BY DEF Filled, Full
<1>. QED  BY <1>4, <1>6, <1>7, <1>8

\* Nothing changes but what was returned, what is queued, and where the call is
\* - which must not be where the pool is empty unless it was there before.
LEMMA QuietKeeps ==
  ASSUME PoolInv, PoolAssumption,
         UNCHANGED <<dh, pool, ended, owed, packets, faults, ghosts>>,
         cuts' \in 0..MaxCuts, closing' \in BOOLEAN, inUse' \in BOOLEAN,
         dh \/ (pc' = "idle" /\ ~inUse' /\ irqs' = <<>>),
         \/ pc' \in {"idle", "cancel", "wait", "bulk", "catchUp"}
         \/ pc = "reap" /\ pc' = "finish" /\ ended = <<>>,
         ret' \in Answer, Full(ret'),
         irqs' \in Seq(Result), \A i \in DOMAIN irqs' : Full(irqs'[i])
  PROVE  PoolInv'
<1>. USE DEF PoolInv, pool, ghosts
<1>1. PoolTypeOK'
  BY DEF PoolTypeOK, Answer, Result
<1>2. Accounted'
  BY DEF Accounted
<1>3. Reaping'
  BY DEF Reaping
<1>4. Finishing'
  <2>1. ended = <<>> => PooledOf(ended) = {}
    BY EmptyCounts DEF PoolTypeOK, End
  <2>. QED  BY <2>1 DEF Finishing
<1>5. Handled'
  BY DEF Handled
<1>6. Filled'
  BY DEF Filled, Full
<1>. QED  BY <1>1, <1>2, <1>3, <1>4, <1>5, <1>6

LEMMA ReadTypes ==
  ASSUME PoolInv
  PROVE  /\ ret \in Answer /\ Full(ret)
         /\ irqs \in Seq(Result) /\ \A i \in DOMAIN irqs : Full(irqs[i])
         /\ faults \in 0..MaxFaults /\ cuts \in 0..MaxCuts
         /\ closing \in BOOLEAN /\ inUse \in BOOLEAN /\ dh \in BOOLEAN
         /\ (pc # "idle" \/ inUse => dh)
  BY DEF PoolInv, PoolTypeOK, Filled, Handled, Answer, Result, Full

LEMMA CheckIntKeeps ==
  ASSUME PoolInv, PoolAssumption, NEW waits \in BOOLEAN, CheckInt(waits)
  PROVE  PoolInv'
<1>1. /\ pc = "idle" /\ inUse /\ dh
      /\ UNCHANGED <<handle, ended, closing, owed, packets, cuts, ghosts>>
  BY ReadTypes DEF CheckInt
<1>2. dh' = dh /\ inUse' = inUse
  BY <1>1 DEF handle
<1>3. CASE Serve /\ UNCHANGED <<pool, pc, faults>>
  <2>1. UNCHANGED <<dh, pool, ended, owed, packets, faults, ghosts>>
    BY <1>1, <1>2, <1>3
  <2>2. cuts' = cuts /\ closing' = closing /\ pc' = "idle"
    BY <1>1, <1>3
  <2>. QED  BY <1>1, <1>2, <1>3, <2>1, <2>2, ServeTypes, ReadTypes, QuietKeeps
<1>4. CASE ret' = Returned("timeout", NoPacket) /\ UNCHANGED <<pool, irqs, pc, faults>>
  <2>1. UNCHANGED <<dh, pool, ended, owed, packets, faults, ghosts>>
    BY <1>1, <1>2, <1>4
  <2>2. cuts' = cuts /\ closing' = closing /\ pc' = "idle" /\ irqs' = irqs
    BY <1>1, <1>4
  <2>3. ret' \in Answer /\ Full(ret')
    BY <1>4, NoneTypes
  <2>. QED  BY <1>1, <1>2, <2>1, <2>2, <2>3, ReadTypes, QuietKeeps
<1>5. CASE pc' = "wait" /\ ret' = None /\ UNCHANGED <<irqs, faults>>
           /\ (IF Restarts THEN Queue(Missing) ELSE UNCHANGED pool)
  <2>1. ret' \in Answer /\ Full(ret')
    BY <1>5, NoneTypes DEF None
  <2>2. CASE Restarts
    <3>1. Queue(Missing) /\ Missing \in 0..Missing
      BY <1>5, <2>2, PoolAssumption DEF Missing, PoolInv, PoolTypeOK
    <3>2. UNCHANGED <<ended, irqs, closing, owed, packets, cuts, ghosts, faults>>
      BY <1>1, <1>5
    <3>. QED  BY <1>1, <1>2, <1>5, <2>1, <3>1, <3>2, ReadTypes, QueueKeeps
  <2>3. CASE ~Restarts
    <3>1. UNCHANGED <<dh, pool, ended, owed, packets, faults, ghosts>>
      BY <1>1, <1>2, <1>5, <2>3
    <3>2. cuts' = cuts /\ closing' = closing /\ irqs' = irqs
      BY <1>1, <1>5
    <3>. QED  BY <1>1, <1>2, <1>5, <2>1, <3>1, <3>2, ReadTypes, QuietKeeps
  <2>. QED  BY <2>2, <2>3
<1>6. CASE Fault("urbs") /\ ret' = Returned("error", NoPacket) /\ UNCHANGED <<irqs, pc>>
           /\ \E k \in 0..(NB_INTERRUPT_TRANSFERS - 1) : k < Missing /\ Queue(k)
  <2>1. ret' \in Answer /\ Full(ret')
    BY <1>6, NoneTypes
  <2>2. PICK k \in 0..Missing : Queue(k)
    BY <1>6, PoolAssumption DEF Missing, PoolInv, PoolTypeOK
  <2>3. faults' \in 0..MaxFaults
    BY <1>6, PoolAssumption, ReadTypes DEF Fault
  <2>4. UNCHANGED <<ended, irqs, closing, owed, packets, cuts, ghosts>> /\ pc' = "idle"
    BY <1>1, <1>6
  <2>. QED  BY <1>1, <1>2, <2>1, <2>2, <2>3, <2>4, ReadTypes, QueueKeeps
<1>. QED  BY <1>3, <1>4, <1>5, <1>6 DEF CheckInt

LEMMA OpenKeeps ==
  ASSUME PoolInv, PoolAssumption, Open
  PROVE  PoolInv'
<1>1. Queue(Missing) /\ Missing \in 0..Missing
  BY PoolAssumption DEF Open, Missing, PoolInv, PoolTypeOK
<1>2. /\ pc = "idle" /\ dh' = TRUE /\ inUse' = TRUE
      /\ UNCHANGED <<ended, irqs, closing, owed, packets, cuts, ghosts>>
      /\ pc' = pc /\ ret' = ret /\ faults' = faults
  BY DEF Open, bounds
<1>. QED  BY <1>1, <1>2, ReadTypes, QueueKeeps

\* The calls that only go on, or return.
LEMMA GoingOnKeeps ==
  ASSUME PoolInv, PoolAssumption,
         Bulk \/ BulkDone \/ WaitEnds \/ Cut \/ CaughtUp \/ Reaped \/ ResetDone
  PROVE  PoolInv'
<1>1. CASE WaitEnds
  <2>1. UNCHANGED <<dh, inUse, pool, ended, owed, packets, faults, cuts, closing, ghosts>>
        /\ pc' = "idle" /\ pc = "wait"
    BY <1>1 DEF WaitEnds, handle, bounds
  <2>2. \/ Serve
        \/ \E status \in {"timeout", "error"} : ret' = Returned(status, NoPacket) /\ irqs' = irqs
    BY <1>1 DEF WaitEnds
  <2>3. /\ ret' \in Answer /\ Full(ret')
        /\ irqs' \in Seq(Result) /\ \A i \in DOMAIN irqs' : Full(irqs'[i])
    BY <2>2, ServeTypes, NoneTypes, ReadTypes
  <2>. QED  BY <2>1, <2>3, ReadTypes, QuietKeeps
<1>2. CASE Bulk \/ BulkDone \/ Cut \/ CaughtUp \/ Reaped \/ ResetDone
  <2>1. UNCHANGED <<dh, inUse, pool, ended, owed, packets, faults, ghosts, ret, irqs>>
    BY <1>2 DEF Bulk, BulkDone, Cut, CaughtUp, Reaped, ResetDone, handle, bounds
  <2>2. cuts' \in 0..MaxCuts /\ closing' \in BOOLEAN
    BY <1>2, ReadTypes, PoolAssumption
    DEF Bulk, BulkDone, Cut, CaughtUp, Reaped, ResetDone, bounds
  <2>3. /\ pc # "idle" \/ inUse
        /\ \/ pc' \in {"idle", "cancel", "wait", "bulk", "catchUp"}
           \/ pc = "reap" /\ pc' = "finish" /\ ended = <<>>
    BY <1>2 DEF Bulk, BulkDone, Cut, CaughtUp, Reaped, ResetDone
  <2>. QED  BY <2>1, <2>2, <2>3, ReadTypes, QuietKeeps
<1>. QED  BY <1>1, <1>2

-----------------------------------------------------------------------------
(* Cancelling and closing.                                                  *)

LEMMA UnreadTypes ==
  ASSUME PoolInv, PoolAssumption
  PROVE  Unread(ended) \subseteq 1..MaxPackets /\ Unread(irqs) \subseteq 1..MaxPackets
<1>1. \A p \in Packet \cup {NoPacket} : p.n \in 0..MaxPackets
  BY PoolAssumption DEF Packet, NoPacket
<1>2. \A i \in DOMAIN ended : ended[i].packet \in Packet \cup {NoPacket}
  <2>0. ended \in Seq(End)
    BY DEF PoolInv, PoolTypeOK, End
  <2>1. \A i \in DOMAIN ended : ended[i] \in End
    BY <2>0
  <2>. QED  BY <2>1 DEF End
<1>3. \A i \in DOMAIN irqs : irqs[i].packet \in Packet \cup {NoPacket}
  <2>0. irqs \in Seq(Result)
    BY DEF PoolInv, PoolTypeOK, Result
  <2>1. \A i \in DOMAIN irqs : irqs[i] \in Result
    BY <2>0
  <2>. QED  BY <2>1 DEF Result
<1>. QED  BY <1>1, <1>2, <1>3, PoolAssumption DEF Unread

LEMMA CancelKeeps ==
  ASSUME PoolInv, PoolAssumption, CancelAll
  PROVE  PoolInv'
<1>. USE DEF PoolInv
<1>1. PICK asCancelled \in BOOLEAN :
        /\ ended' =
             [i \in DOMAIN ended |->
                [status |-> IF asCancelled THEN "cancelled" ELSE ended[i].status,
                 packet |-> IF asCancelled THEN NoPacket ELSE ended[i].packet,
                 pooled |-> FALSE]]
             \o [i \in 1..inFlight |-> Cancelled]
        /\ dropped' \in {dropped, dropped \cup Unread(ended)}
  BY DEF CancelAll
<1>2. /\ slots' = inFlight /\ inFlight' = 0 /\ pc = "cancel" /\ pc' = "reap"
      /\ UNCHANGED <<dh, inUse, loose, active, irqs, closing, ret, owed,
                     packets, faults, cuts, forgotten>>
  BY DEF CancelAll, handle, bounds
<1>3. ended \in Seq(End) /\ inFlight \in Nat /\ loose \in Nat /\ forgotten \in Nat
      /\ Len(ended) \in Nat
  BY PoolAssumption DEF PoolTypeOK, End
<1>4. /\ ended' \in Seq(End) /\ Len(ended') = Len(ended) + inFlight
      /\ Counted(ended') = inFlight
      /\ \A i \in PooledOf(ended') : ended'[i].status = "cancelled"
      /\ \A i \in DOMAIN ended' : ended'[i].status = "completed" =>
           i \in DOMAIN ended /\ ended[i].status = "completed"
           /\ ended'[i].packet = ended[i].packet
  <2>1. AfterCancel(ended, inFlight, ended')
    BY <1>1, <1>3, CancelCounts, Zenon
  <2>. QED  BY <2>1 DEF AfterCancel
<1>5. PoolTypeOK'
  <2>1. dropped' \subseteq 1..MaxPackets
    BY <1>1, UnreadTypes, PoolAssumption DEF PoolTypeOK
  <2>. QED  BY <1>2, <1>4, <2>1, PoolAssumption DEF PoolTypeOK, End
<1>6. Accounted'
  <2>1. dh
    BY <1>2, ReadTypes
  <2>2. active' = inFlight' + loose' + Len(ended') + forgotten'
    BY <1>2, <1>3, <1>4 DEF Accounted
  <2>. QED  BY <1>2, <1>3, <1>4, <2>1, <2>2 DEF Accounted
<1>7. Reaping' /\ Finishing'
  BY <1>2, <1>4 DEF Reaping, Finishing
<1>8. Handled'
  BY <1>2, ReadTypes DEF Handled
<1>9. Filled'
  BY <1>2, <1>4 DEF Filled
<1>. QED  BY <1>5, <1>6, <1>7, <1>8, <1>9

LEMMA ClosedKeeps ==
  ASSUME PoolInv, PoolAssumption, Closed
  PROVE  PoolInv'
<1>1. /\ pc = "finish" /\ pc' = "idle" /\ inUse' = FALSE /\ dh
      /\ UNCHANGED <<slots, inFlight, active, closing, ret, owed, packets, cuts>>
  BY ReadTypes DEF Closed
<1>2. slots = 0 /\ inFlight = 0
  BY <1>1, PooledFinite DEF PoolInv, PoolTypeOK, Reaping, Finishing, End
<1>3. CASE /\ dh' = FALSE /\ loose' = 0 /\ ended' = <<>> /\ irqs' = <<>>
           /\ dropped' = dropped \cup Unread(irqs) \cup Unread(ended)
           /\ forgotten' = forgotten + loose + Len(ended)
           /\ faults' = faults
  <2>. USE DEF PoolInv
  <2>1. forgotten \in Nat /\ loose \in Nat /\ Len(ended) \in Nat /\ active \in Nat
        /\ active = loose + Len(ended) + forgotten
    BY <1>2, PoolAssumption DEF PoolTypeOK, Accounted
  <2>2. ended' \in Seq(End) /\ PooledOf(ended') = {} /\ Counted(ended') = 0 /\ Len(ended') = 0
    <3>1. ended' \in Seq(End) /\ Len(ended') = 0
      BY <1>3
    <3>. QED  BY <1>3, <3>1, EmptyCounts
  <2>3. dropped' \subseteq 1..MaxPackets
    BY <1>3, UnreadTypes, PoolAssumption DEF PoolTypeOK
  <2>4. irqs' \in Seq(Result) /\ Len(irqs') = 0
    BY <1>3
  <2>5. PoolTypeOK'
    <3>1. loose' \in Nat /\ forgotten' \in Nat /\ dh' \in BOOLEAN /\ inUse' \in BOOLEAN
      <4>1. loose' = 0 /\ forgotten' = forgotten + loose + Len(ended)
        BY <1>3
      <4>2. dh' \in BOOLEAN /\ inUse' \in BOOLEAN
        BY <1>1, <1>3
      <4>. QED  BY <2>1, <4>1, <4>2
    <3>2. ended' \in Seq(End) /\ irqs' \in Seq(Result) /\ dropped' \subseteq 1..MaxPackets
      BY <2>2, <2>3, <2>4
    <3>3. UNCHANGED <<slots, inFlight, active, closing, ret, owed, packets, faults, cuts>>
          /\ pc' = "idle"
      BY <1>1, <1>3
    <3>. QED  BY <3>1, <3>2, <3>3 DEF PoolTypeOK, End, Result
  <2>6. Accounted'
    BY <1>1, <1>2, <1>3, <2>1, <2>2 DEF Accounted
  <2>7. Reaping' /\ Finishing' /\ Handled'
    BY <1>1, <1>3 DEF Reaping, Finishing, Handled
  <2>8. Filled'
    <3>1. (\A i \in DOMAIN ended' : FALSE) /\ (\A i \in DOMAIN irqs' : FALSE)
      BY <1>3
    <3>. QED  BY <1>1, <3>1 DEF Filled
  <2>. QED  BY <2>5, <2>6, <2>7, <2>8
<1>4. CASE Fault("release") /\ UNCHANGED <<dh, loose, ended, irqs, ghosts>>
  <2>. USE DEF PoolInv
  <2>1. faults' \in 0..MaxFaults
    BY <1>4, PoolAssumption, ReadTypes DEF Fault
  <2>2. PoolTypeOK'
    BY <1>1, <1>4, <2>1 DEF PoolTypeOK, ghosts
  <2>3. Accounted' /\ Reaping' /\ Finishing' /\ Handled' /\ Filled'
    BY <1>1, <1>4 DEF Accounted, Reaping, Finishing, Handled, Filled, ghosts
  <2>. QED  BY <2>2, <2>3
<1>. QED  BY <1>3, <1>4 DEF Closed

-----------------------------------------------------------------------------
(* The driver.                                                              *)

DriverTypes ==
  /\ reading \in {"no", "once", "first", "again", "rest"}
  /\ part \in Seq(Packet)
  /\ events \in Seq(Seq(Packet))
  /\ taken \subseteq 1..MaxPackets

LEMMA DoneKeeps ==
  ASSUME PoolInv, PoolAssumption, Done, inUse, pc = "idle"
  PROVE  PoolInv'
<1>1. /\ ret' = None
      /\ UNCHANGED <<dh, inUse, pool, ended, irqs, pc, closing, owed, packets,
                     faults, cuts, ghosts>>
  BY DEF Done, handle, bounds
<1>2. ret' \in Answer /\ Full(ret')
  BY <1>1, NoneTypes DEF None
<1>3. dh
  BY ReadTypes
<1>. QED  BY <1>1, <1>2, <1>3, ReadTypes, QuietKeeps

LEMMA ReadsKeep ==
  ASSUME PoolInv, PoolAssumption, DriverTypes, Reads
  PROVE  PoolInv' /\ DriverTypes'
<1>. USE DEF DriverTypes
<1>1. CASE CheckAgain
  BY <1>1, CheckIntKeeps DEF CheckAgain
<1>2. CASE CheckFails
  BY <1>2, DoneKeeps DEF CheckFails, Answered, Done
<1>3. CASE ReadEvent
  <2>1. ret.packet \in Packet
    BY <1>3 DEF ReadEvent, Came, PoolInv, Filled
  <2>2. PoolInv'
    BY <1>3, DoneKeeps DEF ReadEvent, Adds, Answered
  <2>3. events' = Append(events, <<ret.packet>>) /\ part' = <<>> /\ taken' = taken
        /\ reading' = "no"
    BY <1>3 DEF ReadEvent, Adds, Done
  <2>. QED  BY <2>1, <2>2, <2>3
<1>4. CASE ReadOn
  <2>1. ret.packet \in Packet
    BY <1>4 DEF ReadOn, Came, PoolInv, Filled
  <2>2. PoolInv'
    BY <1>4, CheckIntKeeps DEF ReadOn
  <2>3. part' = <<ret.packet>> /\ events' = events /\ taken' = taken /\ reading' = "rest"
    BY <1>4 DEF ReadOn
  <2>. QED  BY <2>1, <2>2, <2>3
<1>5. CASE ReadRest
  <2>1. Came => ret.packet \in Packet
    BY <1>5 DEF Came, PoolInv, Filled
  <2>2. PoolInv'
    BY <1>5, DoneKeeps DEF ReadRest, Adds, Answered
  <2>3. events' = Append(events, IF Came THEN Append(part, ret.packet) ELSE part)
        /\ part' = <<>> /\ taken' = taken /\ reading' = "no"
    BY <1>5 DEF ReadRest, Adds, Done
  <2>4. (IF Came THEN Append(part, ret.packet) ELSE part) \in Seq(Packet)
    BY <2>1
  <2>. QED  BY <2>2, <2>3, <2>4
<1>. QED  BY <1>1, <1>2, <1>3, <1>4, <1>5 DEF Reads

LEMMA TakeKeeps ==
  ASSUME PoolInv, PoolAssumption, DriverTypes, TakeEvent
  PROVE  PoolInv' /\ DriverTypes'
<1>1. UNCHANGED <<poolVars, reading, part>>
  BY DEF TakeEvent
<1>2. PoolInv'
  BY <1>1 DEF poolVars, handle, pool, bounds, ghosts, PoolInv, PoolTypeOK, Accounted,
              Reaping, Finishing, Handled, Filled
<1>3. PICK i \in DOMAIN events :
        /\ taken' = taken \cup {events[i][j].n : j \in DOMAIN events[i]}
        /\ events' = SubSeq(events, 1, i - 1) \o SubSeq(events, i + 1, Len(events))
  BY DEF TakeEvent, RemoveAt
<1>4. events \in Seq(Seq(Packet)) /\ taken \subseteq 1..MaxPackets
  BY DEF DriverTypes
<1>5. events' \in Seq(Seq(Packet))
  BY <1>3, <1>4, Removed
<1>6. taken' \subseteq 1..MaxPackets
  <2>1. \A j \in DOMAIN events[i] : events[i][j] \in Packet
    BY <1>3, <1>4
  <2>2. \A p \in Packet : p.n \in 1..MaxPackets
    BY DEF Packet
  <2>. QED  BY <1>3, <1>4, <2>1, <2>2
<1>. QED  BY <1>1, <1>2, <1>5, <1>6 DEF DriverTypes

-----------------------------------------------------------------------------
(* The invariant, and what it shows.                                        *)

LEMMA Initially == Init /\ PoolAssumption => IInv
<1>. SUFFICES ASSUME Init, PoolAssumption
              PROVE  TypeOK /\ PoolInv
  BY DEF IInv
<1>1. PoolTypeOK
  <2>1. /\ NB_INTERRUPT_TRANSFERS \in Nat /\ MaxPackets \in Nat /\ MaxFaults \in Nat
        /\ MaxCuts \in Nat
    BY PoolAssumption
  <2>2. None \in Answer
    BY NoneTypes DEF None
  <2>3. <<>> \in Seq(End) /\ <<>> \in Seq(Result) /\ <<>> \in Seq(Packet)
    OBVIOUS
  <2>4. ended \in Seq(End) /\ irqs \in Seq(Result) /\ owed \in Seq(Packet) /\ ret \in Answer
    <3>1. ended = <<>> /\ irqs = <<>> /\ owed = <<>> /\ ret = None
      BY DEF Init, PoolInit
    <3>. QED  BY <2>2, <2>3, <3>1, Zenon
  <2>5. /\ dh \in BOOLEAN /\ inUse \in BOOLEAN /\ closing \in BOOLEAN
        /\ slots \in 0..NB_INTERRUPT_TRANSFERS /\ inFlight \in 0..NB_INTERRUPT_TRANSFERS
        /\ loose \in Nat /\ active \in Nat /\ forgotten \in Nat /\ pc = "idle"
        /\ packets \in 0..MaxPackets /\ faults \in 0..MaxFaults /\ cuts \in 0..MaxCuts
        /\ dropped = {}
    <3>1. dh = FALSE /\ inUse = FALSE /\ closing = FALSE /\ pc = "idle" /\ dropped = {}
      BY DEF Init, PoolInit
    <3>2. slots = 0 /\ inFlight = 0 /\ loose = 0 /\ active = 0 /\ forgotten = 0
          /\ packets = 0 /\ faults = 0 /\ cuts = 0
      BY DEF Init, PoolInit
    <3>3. /\ 0 \in 0..NB_INTERRUPT_TRANSFERS /\ 0 \in 0..MaxPackets
          /\ 0 \in 0..MaxFaults /\ 0 \in 0..MaxCuts /\ 0 \in Nat
      BY <2>1
    <3>. QED  BY <3>1, <3>2, <3>3, Zenon
  <2>. QED  BY <2>4, <2>5 DEF PoolTypeOK, End, Result, Answer
<1>2. TypeOK
  BY <1>1 DEF Init, TypeOK
<1>3. ended \in Seq(End) /\ ended = <<>> /\ irqs = <<>> /\ Len(ended) = 0
  BY DEF Init, PoolInit
<1>4. PooledOf(ended) = {} /\ Counted(ended) = 0
  BY <1>3, EmptyCounts
<1>5. Accounted /\ Reaping /\ Finishing /\ Handled
  BY <1>3, <1>4 DEF Init, PoolInit, Accounted, Reaping, Finishing, Handled
<1>6. Filled
  <2>1. (\A i \in DOMAIN ended : FALSE) /\ (\A i \in DOMAIN irqs : FALSE)
    BY <1>3
  <2>. QED  BY <2>1 DEF Init, PoolInit, Filled, None, Returned
<1>. QED  BY <1>1, <1>2, <1>5, <1>6 DEF PoolInv

LEMMA Steps == IInv /\ [Next]_vars /\ PoolAssumption => IInv'
<1>. SUFFICES ASSUME PoolInv, DriverTypes, [Next]_vars, PoolAssumption
              PROVE  PoolInv' /\ DriverTypes'
  BY DEF IInv, TypeOK, DriverTypes, PoolInv
<1>1. CASE UNCHANGED vars
  <2>1. UNCHANGED poolVars /\ UNCHANGED driver
    BY <1>1 DEF vars
  <2>2. UNCHANGED <<handle, pool, ended, irqs, pc, closing, ret, owed, bounds, ghosts>>
    BY <2>1 DEF poolVars
  <2>3. PoolTypeOK' /\ Accounted'
    BY <2>2 DEF handle, pool, bounds, ghosts, PoolInv, PoolTypeOK, Accounted
  <2>4. Reaping' /\ Finishing' /\ Handled' /\ Filled'
    BY <2>2 DEF handle, pool, bounds, PoolInv, Reaping, Finishing, Handled, Filled
  <2>. QED  BY <2>1, <2>3, <2>4 DEF PoolInv, driver, DriverTypes
<1>2. CASE (Outside \/ Calls \/ Port) /\ UNCHANGED driver
  <2>1. DriverTypes'
    BY <1>2 DEF driver, DriverTypes
  <2>2. CASE Outside
    BY <2>1, <2>2, DeviceKeeps DEF Outside
  <2>3. CASE Calls
    BY <2>1, <2>3, OpenKeeps, GoingOnKeeps DEF Calls
  <2>4. CASE Port
    BY <2>1, <2>4, CallbackKeeps, GoingOnKeeps, CancelKeeps, ClosedKeeps DEF Port
  <2>. QED  BY <1>2, <2>2, <2>3, <2>4
<1>3. ASSUME NEW waits \in BOOLEAN, Check(waits)
      PROVE  PoolInv' /\ DriverTypes'
  BY <1>3, CheckIntKeeps DEF Check, DriverTypes
<1>4. CASE Reads
  BY <1>4, ReadsKeep
<1>5. CASE TakeEvent
  BY <1>5, TakeKeeps
<1>. QED  BY <1>1, <1>2, <1>3, <1>4, <1>5 DEF Next

THEOREM Invariant == Spec => []IInv
<1>1. Init => IInv
  BY Initially, PoolAssumption
<1>2. IInv /\ [Next]_vars => IInv'
  BY Steps, PoolAssumption
<1>. QED  BY <1>1, <1>2, PTL DEF Spec

\* Every variable has its type: no count becomes negative, and no slot is taken
\* that the array does not have (Callback, Queue, CancelAll).
THEOREM TypeCorrect == Spec => []TypeOK
<1>1. IInv => TypeOK
  BY DEF IInv
<1>. QED  BY <1>1, Invariant, PTL

\* nrofactiveinttransfers counts the transfers that libusb has or has still to
\* report, and those forgotten by a cancellation that came too late; a closed
\* port has none (_cb_irq, _close_async_interrupts, gp_libusb1_close).
THEOREM PoolIsAccounted == Spec => []PoolAccounted
<1>1. IInv => PoolAccounted
  BY DEF IInv, PoolInv, Accounted, PoolAccounted, Pooled, PooledOf, Counted
<1>. QED  BY <1>1, Invariant, PTL

-----------------------------------------------------------------------------
(* The order of the packets.  Each place on the way from the device to the  *)
(* application holds its packets in order, and all of them before those of  *)
(* the places further back; a step moves the first of a place to the end of *)
(* the next.  Nothing is overtaken as nothing is kept back: a result is     *)
(* read before the next is served (Phases), and the callback, which queues  *)
(* errors too, queues them without a packet (Bare).                         *)

Carried == Packet \cup {NoPacket}

InOwed == Numbers(owed)
InEnded == Numbers(Brought(ended))
InIrqs == Numbers(Brought(irqs))
InRet == Numbers(<<ret.packet>>)
InPart == Numbers(part)
InEvents == Present(events)

\* A transfer that did not complete brought nothing.
Empty(r) == r.status # "completed" => r.packet = NoPacket
Bare ==
  /\ \A i \in DOMAIN ended : Empty(ended[i])
  /\ \A i \in DOMAIN irqs : Empty(irqs[i])
  /\ Empty(ret)

Phases ==
  /\ pc = "wait" => ret.packet = NoPacket /\ reading # "no"
  /\ reading = "no" => ret.packet = NoPacket
  /\ reading # "rest" => part = <<>>

EachSorted ==
  /\ InOrder(events)
  /\ Sorted(part)
  /\ Sorted(Brought(irqs))
  /\ Sorted(Brought(ended))
  /\ Sorted(owed)

Behind ==
  /\ Before(InEnded, InOwed)
  /\ Before(InIrqs, InEnded \cup InOwed)
  /\ Before(InRet, InIrqs \cup InEnded \cup InOwed)
  /\ Before(InPart, InRet \cup InIrqs \cup InEnded \cup InOwed)
  /\ Before(InEvents, InPart \cup InRet \cup InIrqs \cup InEnded \cup InOwed)

OnTheWay == InEvents \cup InPart \cup InRet \cup InIrqs \cup InEnded \cup InOwed

Complete ==
  /\ OnTheWay \cap (taken \cup dropped) = {}
  /\ OnTheWay \cup taken \cup dropped = 1..packets

Placed == EachSorted /\ Behind /\ Complete

OrderInv == IInv /\ Bare /\ Phases /\ Placed

-----------------------------------------------------------------------------
(* Sequences of packets, with gaps.                                         *)

LEMMA CarriedNumbers ==
  /\ \A p \in Carried : p.n \in Nat /\ (p.n = 0 <=> p = NoPacket)
  /\ \A p \in Packet : p \in Carried /\ p.n \in Nat \ {0}
  /\ NoPacket \in Carried /\ NoPacket.n = 0
BY PoolAssumption DEF Carried, Packet, NoPacket

LEMMA AppendInOrder ==
  ASSUME NEW s \in Seq(Carried), NEW t \in Seq(Carried), Len(t) = Len(s) + 1,
         \A i \in 1..Len(s) : t[i] = s[i], Sorted(s),
         \A m \in Numbers(s) : t[Len(t)].n # 0 => m < t[Len(t)].n
  PROVE  Sorted(t) /\ Numbers(t) = Numbers(s) \cup ({t[Len(t)].n} \ {0})
<1>1. DOMAIN s = 1..Len(s) /\ DOMAIN t = 1..(Len(s) + 1) /\ Len(s) \in Nat
  OBVIOUS
<1>2. Numbers(t) = Numbers(s) \cup ({t[Len(t)].n} \ {0})
  BY <1>1 DEF Numbers
<1>3. Sorted(t)
  <2>. SUFFICES ASSUME NEW i \in DOMAIN t, NEW j \in DOMAIN t, i < j, t[i].n # 0, t[j].n # 0
                PROVE  t[i].n < t[j].n
    BY DEF Sorted
  <2>1. i \in DOMAIN s /\ t[i] = s[i]
    BY <1>1
  <2>2. CASE j \in DOMAIN s
    BY <1>1, <2>1, <2>2 DEF Sorted
  <2>3. CASE j = Len(t)
    BY <2>1, <2>3 DEF Numbers
  <2>. QED  BY <1>1, <2>2, <2>3
<1>. QED  BY <1>2, <1>3

\* The first k are gone, all but the last of them gaps.
LEMMA RestInOrder ==
  ASSUME NEW s \in Seq(Carried), NEW t \in Seq(Carried), NEW k \in 1..Len(s),
         Len(t) = Len(s) - k, \A i \in 1..Len(t) : t[i] = s[i + k],
         \A i \in 1..(k - 1) : s[i].n = 0, Sorted(s)
  PROVE  /\ Sorted(t)
         /\ Numbers(s) = Numbers(t) \cup ({s[k].n} \ {0})
         /\ Before({s[k].n} \ {0}, Numbers(t))
<1>1. DOMAIN s = 1..Len(s) /\ DOMAIN t = 1..(Len(s) - k) /\ Len(s) \in Nat
  OBVIOUS
<1>2. Numbers(s) = Numbers(t) \cup ({s[k].n} \ {0})
  <2>1. ASSUME NEW m \in Numbers(s) PROVE m \in Numbers(t) \cup ({s[k].n} \ {0})
    <3>1. PICK i \in DOMAIN s : m = s[i].n /\ m # 0
      BY <2>1 DEF Numbers
    <3>2. CASE i < k
      BY <1>1, <3>1, <3>2
    <3>3. CASE i = k
      BY <3>1, <3>3
    <3>4. CASE i > k
      <4>1. i - k \in 1..Len(t) /\ t[i - k] = s[i]
        BY <1>1, <3>4
      <4>. QED  BY <1>1, <3>1, <4>1 DEF Numbers
    <3>. QED  BY <1>1, <3>2, <3>3, <3>4
  <2>2. ASSUME NEW m \in Numbers(t) PROVE m \in Numbers(s)
    <3>1. PICK i \in DOMAIN t : m = t[i].n /\ m # 0
      BY <2>2 DEF Numbers
    <3>2. i + k \in DOMAIN s /\ m = s[i + k].n
      BY <1>1, <3>1
    <3>. QED  BY <3>1, <3>2 DEF Numbers
  <2>3. {s[k].n} \ {0} \subseteq Numbers(s)
    BY <1>1 DEF Numbers
  <2>. QED  BY <2>1, <2>2, <2>3
<1>3. Sorted(t)
  <2>. SUFFICES ASSUME NEW i \in DOMAIN t, NEW j \in DOMAIN t, i < j, t[i].n # 0, t[j].n # 0
                PROVE  t[i].n < t[j].n
    BY DEF Sorted
  <2>1. i + k \in DOMAIN s /\ j + k \in DOMAIN s /\ i + k < j + k
        /\ t[i] = s[i + k] /\ t[j] = s[j + k]
    BY <1>1
  <2>. QED  BY <2>1 DEF Sorted
<1>4. Before({s[k].n} \ {0}, Numbers(t))
  <2>. SUFFICES ASSUME s[k].n # 0, NEW m \in Numbers(t) PROVE s[k].n < m
    BY DEF Before
  <2>1. PICK i \in DOMAIN t : m = t[i].n /\ m # 0
    BY DEF Numbers
  <2>2. i + k \in DOMAIN s /\ k \in DOMAIN s /\ k < i + k /\ m = s[i + k].n
    BY <1>1, <2>1
  <2>. QED  BY <2>1, <2>2 DEF Sorted
<1>. QED  BY <1>2, <1>3, <1>4

LEMMA BroughtTypes ==
  ASSUME NEW s, s \in Seq(End) \/ s \in Seq(Result)
  PROVE  /\ Brought(s) \in Seq(Carried) /\ Len(Brought(s)) = Len(s) /\ Len(s) \in Nat
         /\ DOMAIN Brought(s) = 1..Len(s) /\ DOMAIN s = 1..Len(s)
         /\ \A i \in 1..Len(s) : Brought(s)[i] = s[i].packet /\ s[i].packet \in Carried
<1>1. \A r \in End : r.packet \in Carried
  BY DEF End, Carried
<1>2. \A r \in Result : r.packet \in Carried
  BY DEF Result, Carried
<1>3. DOMAIN s = 1..Len(s) /\ Len(s) \in Nat /\ \A i \in 1..Len(s) : s[i] \in End \/ s[i] \in Result
  OBVIOUS
<1>4. \A i \in 1..Len(s) : s[i].packet \in Carried
  BY <1>1, <1>2, <1>3
<1>. QED  BY <1>3, <1>4 DEF Brought

LEMMA OneNumber ==
  ASSUME NEW p \in Carried
  PROVE  /\ Numbers(<<p>>) = {p.n} \ {0} /\ Sorted(<<p>>)
         /\ Numbers(<<>>) = {} /\ Sorted(<<>>)
<1>1. DOMAIN <<p>> = {1} /\ <<p>>[1] = p
  OBVIOUS
<1>2. DOMAIN <<>> = {}
  OBVIOUS
<1>. QED  BY <1>1, <1>2 DEF Numbers, Sorted

\* The types that the order needs.
LEMMA OrderTypes ==
  ASSUME IInv
  PROVE  /\ ended \in Seq(End) /\ irqs \in Seq(Result) /\ owed \in Seq(Packet)
         /\ owed \in Seq(Carried) /\ part \in Seq(Packet) /\ part \in Seq(Carried)
         /\ events \in Seq(Seq(Packet)) /\ ret.packet \in Carried
         /\ packets \in Nat /\ taken \subseteq Nat /\ dropped \subseteq Nat
         /\ InRet = {ret.packet.n} \ {0}
<1>1. /\ ended \in Seq(End) /\ irqs \in Seq(Result) /\ owed \in Seq(Packet)
      /\ part \in Seq(Packet) /\ events \in Seq(Seq(Packet)) /\ ret.packet \in Carried
      /\ packets \in Nat /\ taken \subseteq Nat /\ dropped \subseteq Nat
  BY PoolAssumption DEF IInv, TypeOK, PoolTypeOK, End, Result, Carried
<1>2. \A s \in Seq(Packet) : s \in Seq(Carried)
  BY CarriedNumbers
<1>. QED  BY <1>1, <1>2, OneNumber DEF InRet

\* All that has a number is a number.
LEMMA NumbersAreNats ==
  ASSUME NEW s \in Seq(Carried)
  PROVE  Numbers(s) \subseteq Nat \ {0}
BY CarriedNumbers DEF Numbers

LEMMA PresentAreNats ==
  ASSUME IInv
  PROVE  OnTheWay \subseteq Nat \ {0}
<1>1. InOwed \subseteq Nat \ {0} /\ InPart \subseteq Nat \ {0}
  BY OrderTypes, NumbersAreNats DEF InOwed, InPart
<1>2. InEnded \subseteq Nat \ {0} /\ InIrqs \subseteq Nat \ {0}
  BY OrderTypes, BroughtTypes, NumbersAreNats DEF InEnded, InIrqs
<1>3. InRet \subseteq Nat \ {0}
  BY OrderTypes, CarriedNumbers
<1>4. \A i \in DOMAIN events : events[i] \in Seq(Carried)
  <2>1. \A s \in Seq(Packet) : s \in Seq(Carried)
    BY CarriedNumbers
  <2>. QED  BY <2>1, OrderTypes
<1>5. InEvents \subseteq Nat \ {0}
  BY <1>4, NumbersAreNats DEF InEvents, Present
<1>. QED  BY <1>1, <1>2, <1>3, <1>5 DEF OnTheWay

-----------------------------------------------------------------------------
(* Steps of the port.                                                       *)

\* Nothing moves.
LEMMA StillPlaced ==
  ASSUME Placed, InRet' = InRet, InIrqs' = InIrqs, InEnded' = InEnded, InOwed' = InOwed,
         Sorted(Brought(irqs))', Sorted(Brought(ended))', Sorted(owed)',
         UNCHANGED <<events, part, taken, packets, dropped>>
  PROVE  Placed'
<1>1. InEvents' = InEvents /\ InPart' = InPart
  BY DEF InEvents, InPart
<1>2. InOrder(events)' /\ Sorted(part)'
  BY DEF Placed, EachSorted
<1>. QED  BY <1>1, <1>2 DEF Placed, EachSorted, Behind, Complete, OnTheWay

LEMMA OccursPlaced ==
  ASSUME OrderInv, IInv', Occurs, UNCHANGED driver
  PROVE  Placed'
<1>. USE DEF OrderInv
<1>1. PICK size \in 1..2 :
        /\ packets' = packets + size
        /\ owed' = owed \o [i \in 1..size |->
                              [n |-> packets + i, first |-> i = 1, more |-> i < size]]
  BY DEF Occurs
<1>2. UNCHANGED <<events, part, taken, dropped, ret, irqs, ended>>
  BY DEF Occurs, driver, ghosts
<1>3. packets \in Nat /\ owed \in Seq(Carried) /\ owed' \in Seq(Carried)
  <2>1. owed' \in Seq(Packet)
    BY DEF IInv, TypeOK, PoolTypeOK
  <2>. QED  BY <2>1, OrderTypes, CarriedNumbers
<1>4. /\ Len(owed) \in Nat /\ DOMAIN owed = 1..Len(owed) /\ DOMAIN owed' = 1..(Len(owed) + size)
      /\ \A i \in 1..Len(owed) : owed'[i] = owed[i]
      /\ \A i \in (Len(owed) + 1)..(Len(owed) + size) : owed'[i].n = packets + (i - Len(owed))
  <2>. DEFINE new == [i \in 1..size |->
                        [n |-> packets + i, first |-> i = 1, more |-> i < size]]
  <2>1. /\ new \in Seq([n : Nat, first : BOOLEAN, more : BOOLEAN]) /\ Len(new) = size
        /\ \A i \in 1..size : new[i].n = packets + i
        /\ DOMAIN new = 1..size /\ new = [i \in 1..size |-> new[i]]
        /\ \A i \in 1..size : new[i] \in [n : Nat, first : BOOLEAN, more : BOOLEAN]
    BY <1>3
  <2>. HIDE DEF new
  <2>2. owed' = owed \o new
    BY <1>1 DEF new
  <2>. DEFINE S == Carried \cup [n : Nat, first : BOOLEAN, more : BOOLEAN]
  <2>3. owed \in Seq(S) /\ new \in Seq(S)
    <3>1. (\A x \in Carried : x \in S)
          /\ \A x \in [n : Nat, first : BOOLEAN, more : BOOLEAN] : x \in S
      OBVIOUS
    <3>. HIDE DEF S
    <3>2. owed \in Seq(S)
      <4>1. /\ Len(owed) \in Nat /\ DOMAIN owed = 1..Len(owed)
            /\ owed = [i \in 1..Len(owed) |-> owed[i]]
            /\ \A i \in 1..Len(owed) : owed[i] \in S
        BY <1>3, <3>1
      <4>. QED  BY <4>1
    <3>3. new \in Seq(S)
      <4>1. size \in Nat /\ \A i \in 1..size : new[i] \in S
        BY <2>1, <3>1
      <4>. QED  BY <2>1, <4>1
    <3>. QED  BY <3>2, <3>3
  <2>. HIDE DEF S
  <2>4. /\ DOMAIN owed' = 1..(Len(owed) + Len(new))
        /\ \A i \in 1..Len(owed) : owed'[i] = owed[i]
        /\ \A i \in 1..Len(new) : owed'[Len(owed) + i] = new[i]
    BY <2>2, <2>3, Concatenated
  <2>5. Len(owed) \in Nat /\ DOMAIN owed = 1..Len(owed)
    BY <1>3
  <2>6. ASSUME NEW i \in (Len(owed) + 1)..(Len(owed) + size)
        PROVE  owed'[i].n = packets + (i - Len(owed))
    <3>1. i - Len(owed) \in 1..size /\ Len(owed) + (i - Len(owed)) = i
      BY <2>5
    <3>. QED  BY <2>1, <2>4, <3>1
  <2>. QED  BY <2>1, <2>4, <2>5, <2>6
<1>5. InOwed' = InOwed \cup ((packets + 1)..(packets + size))
  <2>1. ASSUME NEW m \in InOwed' PROVE m \in InOwed \cup ((packets + 1)..(packets + size))
    <3>1. PICK i \in DOMAIN owed' : m = owed'[i].n /\ m # 0
      BY <2>1 DEF InOwed, Numbers
    <3>. QED  BY <1>3, <1>4, <3>1 DEF InOwed, Numbers
  <2>2. InOwed \subseteq InOwed'
    BY <1>4 DEF InOwed, Numbers
  <2>3. ASSUME NEW m \in (packets + 1)..(packets + size) PROVE m \in InOwed'
    <3>1. /\ m - packets + Len(owed) \in DOMAIN owed'
          /\ owed'[m - packets + Len(owed)].n = m /\ m # 0
      BY <1>3, <1>4
    <3>. QED  BY <3>1 DEF InOwed, Numbers
  <2>. QED  BY <2>1, <2>2, <2>3
<1>6. \A m \in OnTheWay \cup taken \cup dropped : m \in Nat /\ m <= packets
  BY <1>3 DEF Placed, Complete
<1>7. Sorted(owed')
  <2>. SUFFICES ASSUME NEW i \in DOMAIN owed', NEW j \in DOMAIN owed', i < j,
                       owed'[i].n # 0, owed'[j].n # 0
                PROVE  owed'[i].n < owed'[j].n
    BY DEF Sorted
  <2>1. CASE i \in 1..Len(owed) /\ j \in 1..Len(owed)
    BY <1>4, <2>1 DEF Sorted, Placed, EachSorted
  <2>2. CASE i \in 1..Len(owed) /\ j > Len(owed)
    <3>1. owed'[i].n \in InOwed
      BY <1>4, <2>2 DEF InOwed, Numbers
    <3>2. owed'[i].n \in Nat /\ owed'[i].n <= packets
      BY <1>6, <3>1 DEF OnTheWay
    <3>3. owed'[j].n = packets + (j - Len(owed))
      BY <1>4, <2>2
    <3>. QED  BY <1>3, <1>4, <2>2, <3>2, <3>3
  <2>3. CASE i > Len(owed)
    BY <1>3, <1>4, <2>3
  <2>. QED  BY <1>4, <2>1, <2>2, <2>3
<1>8. InEvents' = InEvents /\ InPart' = InPart /\ InRet' = InRet /\ InIrqs' = InIrqs
      /\ InEnded' = InEnded
  BY <1>2 DEF InEvents, InPart, InRet, InIrqs, InEnded
<1>9. EachSorted'
  BY <1>2, <1>7 DEF Placed, EachSorted, Brought
<1>10. Behind'
  <2>1. \A m \in OnTheWay, n \in (packets + 1)..(packets + size) : m < n
    BY <1>3, <1>6
  <2>. QED  BY <1>5, <1>8, <2>1 DEF Placed, Behind, Before, OnTheWay
<1>11. Complete'
  <2>1. OnTheWay' = OnTheWay \cup ((packets + 1)..(packets + size))
    BY <1>5, <1>8 DEF OnTheWay
  <2>2. 1..packets' = 1..packets \cup ((packets + 1)..(packets + size))
    BY <1>1, <1>3
  <2>3. ((packets + 1)..(packets + size)) \cap (taken \cup dropped) = {}
    BY <1>3, <1>6
  <2>. QED  BY <1>2, <2>1, <2>2, <2>3 DEF Placed, Complete
<1>. QED  BY <1>9, <1>10, <1>11 DEF Placed

\* What an end adds to the queue of ends.
LEMMA EndedInOrder ==
  ASSUME OrderInv, NEW status \in Ends, NEW p \in Carried, NEW pooled \in BOOLEAN,
         Ended(status, p, pooled), status # "completed" => p = NoPacket,
         \A m \in InEnded : p.n # 0 => m < p.n
  PROVE  /\ Sorted(Brought(ended))' /\ InEnded' = InEnded \cup ({p.n} \ {0})
         /\ \A i \in DOMAIN ended' : Empty(ended'[i])
<1>. DEFINE c == [status |-> status, packet |-> p, pooled |-> pooled]
<1>1. ended \in Seq(End) /\ ended' = Append(ended, c) /\ c \in End /\ c.packet = p
      /\ c.status = status
  BY OrderTypes DEF Ended, End, Carried, OrderInv
<1>. HIDE DEF c
<1>2. /\ ended' \in Seq(End) /\ Len(ended') = Len(ended) + 1 /\ Len(ended) \in Nat
      /\ DOMAIN ended' = 1..(Len(ended) + 1)
      /\ \A i \in 1..Len(ended) : ended'[i] = ended[i] /\ i \in DOMAIN ended
      /\ ended'[Len(ended) + 1] = c
  BY <1>1
<1>. DEFINE s == Brought(ended)
            t == Brought(ended')
<1>3. /\ s \in Seq(Carried) /\ t \in Seq(Carried) /\ Len(t) = Len(s) + 1 /\ Len(s) = Len(ended)
      /\ \A i \in 1..Len(s) : t[i] = s[i]
      /\ t[Len(t)] = p
  <2>1. s \in Seq(Carried) /\ Len(s) = Len(ended) /\ \A i \in 1..Len(ended) : s[i] = ended[i].packet
    BY <1>1, BroughtTypes
  <2>2. t \in Seq(Carried) /\ Len(t) = Len(ended')
        /\ \A i \in 1..Len(ended') : t[i] = ended'[i].packet
    BY <1>2, BroughtTypes
  <2>. HIDE DEF s, t
  <2>. QED  BY <1>1, <1>2, <2>1, <2>2
<1>4. Sorted(s) /\ Numbers(s) = InEnded
  BY DEF OrderInv, Placed, EachSorted, InEnded
<1>5. Sorted(t) /\ Numbers(t) = Numbers(s) \cup ({p.n} \ {0})
  <2>. HIDE DEF s, t
  <2>1. \A m \in Numbers(s) : t[Len(t)].n # 0 => m < t[Len(t)].n
    BY <1>3, <1>4
  <2>. QED  BY <1>3, <1>4, <2>1, AppendInOrder
<1>6. \A i \in DOMAIN ended' : Empty(ended'[i])
  BY <1>1, <1>2 DEF OrderInv, Bare, Empty
<1>. QED  BY <1>4, <1>5, <1>6 DEF InEnded

LEMMA DeviceSendsPlaced ==
  ASSUME OrderInv, DeviceSends, UNCHANGED driver
  PROVE  Placed' /\ \A i \in DOMAIN ended' : Empty(ended'[i])
<1>. DEFINE p == Head(owed)
<1>1. PICK pooled \in BOOLEAN : Ended("completed", p, pooled)
  BY DEF DeviceSends
<1>2. /\ owed \in Seq(Carried) /\ owed # <<>> /\ owed' = Tail(owed) /\ owed \in Seq(Packet)
      /\ UNCHANGED <<events, part, taken, dropped, ret, irqs, packets>>
  BY <1>1, OrderTypes DEF DeviceSends, Ended, driver, ghosts, OrderInv
<1>3. /\ owed' \in Seq(Carried) /\ 1 \in 1..Len(owed) /\ Len(owed') = Len(owed) - 1
      /\ \A i \in 1..Len(owed') : owed'[i] = owed[i + 1]
      /\ p = owed[1] /\ p \in Packet
  BY <1>2
<1>4. p \in Carried /\ p.n # 0
  BY <1>3, CarriedNumbers
<1>5. Sorted(owed) /\ Behind /\ Complete
  BY DEF OrderInv, Placed, EachSorted
<1>. HIDE DEF p
<1>6. Sorted(owed') /\ InOwed = InOwed' \cup {p.n} /\ Before({p.n}, InOwed')
  <2>1. \A i \in 1..(1 - 1) : owed[i].n = 0
    OBVIOUS
  <2>2. /\ Sorted(owed')
        /\ Numbers(owed) = Numbers(owed') \cup ({p.n} \ {0})
        /\ Before({p.n} \ {0}, Numbers(owed'))
    BY <1>2, <1>3, <1>5, <2>1, RestInOrder
  <2>3. {p.n} \ {0} = {p.n}
    BY <1>4
  <2>. QED  BY <2>2, <2>3 DEF InOwed
<1>7. \A m \in InEnded : m < p.n
  BY <1>5, <1>6 DEF Behind, Before
<1>8. /\ Sorted(Brought(ended))' /\ InEnded' = InEnded \cup {p.n}
      /\ \A i \in DOMAIN ended' : Empty(ended'[i])
  <2>1. {p.n} \ {0} = {p.n}
    BY <1>4
  <2>. QED  BY <1>1, <1>4, <1>7, <2>1, EndedInOrder
<1>9. InEvents' = InEvents /\ InPart' = InPart /\ InRet' = InRet /\ InIrqs' = InIrqs
  BY <1>2 DEF InEvents, InPart, InRet, InIrqs
<1>10. EachSorted'
  BY <1>2, <1>6, <1>8 DEF OrderInv, Placed, EachSorted, Brought
<1>11. InEnded' \cup InOwed' = InEnded \cup InOwed
  BY <1>6, <1>8
<1>12. Before(InEnded', InOwed')
  BY <1>5, <1>6, <1>8 DEF Behind, Before
<1>13. Behind'
  BY <1>5, <1>9, <1>11, <1>12 DEF Behind, Before
<1>14. Complete'
  BY <1>2, <1>5, <1>9, <1>11 DEF Complete, OnTheWay
<1>. QED  BY <1>8, <1>10, <1>13, <1>14 DEF Placed

LEMMA TransferFailsPlaced ==
  ASSUME OrderInv, TransferFails, UNCHANGED driver
  PROVE  Placed' /\ \A i \in DOMAIN ended' : Empty(ended'[i])
<1>1. PICK status \in {"error", "gone"}, pooled \in BOOLEAN : Ended(status, NoPacket, pooled)
  BY DEF TransferFails
<1>2. UNCHANGED <<events, part, taken, dropped, ret, irqs, packets, owed>>
  BY <1>1 DEF TransferFails, Ended, driver, ghosts
<1>3. /\ Sorted(Brought(ended))' /\ InEnded' = InEnded
      /\ \A i \in DOMAIN ended' : Empty(ended'[i])
  BY <1>1, CarriedNumbers, EndedInOrder
<1>4. InRet' = InRet /\ InIrqs' = InIrqs /\ InOwed' = InOwed
      /\ Sorted(Brought(irqs))' /\ Sorted(owed)'
  BY <1>2 DEF InRet, InIrqs, InOwed, OrderInv, Placed, EachSorted, Brought
<1>5. Placed'
  BY <1>2, <1>3, <1>4, StillPlaced DEF OrderInv
<1>. QED  BY <1>3, <1>5

\* The callback moves the first end to the end of the interrupts.
LEMMA CallbackPlaced ==
  ASSUME OrderInv, Callback, UNCHANGED driver
  PROVE  /\ Placed' /\ \A i \in DOMAIN ended' : Empty(ended'[i])
         /\ \A i \in DOMAIN irqs' : Empty(irqs'[i])
<1>. DEFINE c == Head(ended)
            r == Returned(c.status, c.packet)
            p == c.packet
<1>1. /\ ended \in Seq(End) /\ ended # <<>> /\ ended' = Tail(ended)
      /\ irqs' = IF Queues(c) THEN Append(irqs, r) ELSE irqs
      /\ irqs \in Seq(Result)
      /\ UNCHANGED <<events, part, taken, dropped, ret, owed, packets>>
  BY OrderTypes DEF Callback, driver, OrderInv
<1>2. /\ ended' \in Seq(End) /\ 1 \in 1..Len(ended) /\ Len(ended') = Len(ended) - 1
      /\ \A i \in 1..Len(ended') : ended'[i] = ended[i + 1] /\ i + 1 \in DOMAIN ended
      /\ c = ended[1] /\ c \in End /\ DOMAIN ended' = 1..Len(ended') /\ 1 \in DOMAIN ended
  BY <1>1
<1>. HIDE DEF c
<1>3. /\ r \in Result /\ r.packet = p /\ r.status = c.status /\ p \in Carried /\ Empty(c)
  BY <1>2 DEF Returned, End, Result, Carried, OrderInv, Bare
<1>. HIDE DEF r, p
<1>4. EachSorted /\ Behind /\ Complete
  BY DEF OrderInv, Placed
<1>5. /\ Sorted(Brought(ended)') /\ InEnded = InEnded' \cup ({p.n} \ {0})
      /\ Before({p.n} \ {0}, InEnded')
  <2>. DEFINE s == Brought(ended)
              t == Brought(ended')
  <2>1. s \in Seq(Carried) /\ Len(s) = Len(ended) /\ \A i \in 1..Len(ended) : s[i] = ended[i].packet
    BY <1>1, BroughtTypes
  <2>2. t \in Seq(Carried) /\ Len(t) = Len(ended')
        /\ \A i \in 1..Len(ended') : t[i] = ended'[i].packet
    BY <1>2, BroughtTypes
  <2>3. Sorted(s)
    BY <1>4 DEF EachSorted
  <2>4. \A i \in 1..(1 - 1) : s[i].n = 0
    OBVIOUS
  <2>. HIDE DEF s, t
  <2>5. 1 \in 1..Len(s) /\ Len(t) = Len(s) - 1 /\ (\A i \in 1..Len(t) : t[i] = s[i + 1]) /\ s[1] = p
    BY <1>2, <2>1, <2>2 DEF p
  <2>6. /\ Sorted(t) /\ Numbers(s) = Numbers(t) \cup ({p.n} \ {0})
        /\ Before({p.n} \ {0}, Numbers(t))
    BY <2>1, <2>2, <2>3, <2>4, <2>5, RestInOrder
  <2>. QED  BY <2>6 DEF InEnded, s, t
<1>6. \A m \in InIrqs : p.n # 0 => m < p.n
  BY <1>4, <1>5 DEF Behind, Before
<1>7. /\ Sorted(Brought(irqs)') /\ InIrqs' = InIrqs \cup ({p.n} \ {0})
      /\ \A i \in DOMAIN irqs' : Empty(irqs'[i])
  <2>1. CASE ~Queues(c)
    <3>1. p = NoPacket /\ irqs' = irqs
      BY <1>1, <1>3, <2>1 DEF Queues, Empty, p
    <3>. QED  BY <1>4, <3>1, CarriedNumbers DEF InIrqs, EachSorted, OrderInv, Bare, Brought
  <2>2. CASE Queues(c)
    <3>. DEFINE s == Brought(irqs)
                t == Brought(irqs')
    <3>1. irqs' = Append(irqs, r)
      BY <1>1, <2>2
    <3>2. /\ irqs' \in Seq(Result) /\ Len(irqs') = Len(irqs) + 1 /\ Len(irqs) \in Nat
          /\ DOMAIN irqs' = 1..(Len(irqs) + 1)
          /\ \A i \in 1..Len(irqs) : irqs'[i] = irqs[i] /\ i \in DOMAIN irqs
          /\ irqs'[Len(irqs) + 1] = r
      BY <1>1, <1>3, <3>1
    <3>3. s \in Seq(Carried) /\ Len(s) = Len(irqs) /\ \A i \in 1..Len(irqs) : s[i] = irqs[i].packet
      BY <1>1, BroughtTypes
    <3>4. t \in Seq(Carried) /\ Len(t) = Len(irqs')
          /\ \A i \in 1..Len(irqs') : t[i] = irqs'[i].packet
      BY <3>2, BroughtTypes
    <3>5. Sorted(s) /\ Numbers(s) = InIrqs
      BY <1>4 DEF EachSorted, InIrqs
    <3>. HIDE DEF s, t
    <3>6. Len(t) = Len(s) + 1 /\ (\A i \in 1..Len(s) : t[i] = s[i]) /\ t[Len(t)] = p
      BY <1>3, <3>2, <3>3, <3>4
    <3>7. Sorted(t) /\ Numbers(t) = Numbers(s) \cup ({p.n} \ {0})
      <4>1. \A m \in Numbers(s) : t[Len(t)].n # 0 => m < t[Len(t)].n
        BY <1>6, <3>5, <3>6
      <4>. QED  BY <3>3, <3>4, <3>5, <3>6, <4>1, AppendInOrder
    <3>8. \A i \in DOMAIN irqs' : Empty(irqs'[i])
      BY <1>3, <3>2 DEF OrderInv, Bare, Empty, p
    <3>. QED  BY <3>5, <3>7, <3>8 DEF InIrqs, t
  <2>. QED  BY <2>1, <2>2
<1>8. \A i \in DOMAIN ended' : Empty(ended'[i])
  BY <1>2 DEF OrderInv, Bare
<1>9. InEvents' = InEvents /\ InPart' = InPart /\ InRet' = InRet /\ InOwed' = InOwed
  BY <1>1 DEF InEvents, InPart, InRet, InOwed
<1>10. EachSorted'
  BY <1>1, <1>4, <1>5, <1>7 DEF EachSorted
<1>11. InIrqs' \cup InEnded' = InIrqs \cup InEnded
  BY <1>5, <1>7
<1>12. Before(InIrqs', InEnded' \cup InOwed') /\ Before(InEnded', InOwed')
  BY <1>4, <1>5, <1>7, <1>9 DEF Behind, Before
<1>13. Behind'
  <2>1. InIrqs' \cup InEnded' \cup InOwed' = InIrqs \cup InEnded \cup InOwed
    BY <1>9, <1>11
  <2>. QED  BY <1>4, <1>9, <1>12, <2>1 DEF Behind, Before
<1>14. Complete'
  BY <1>1, <1>4, <1>9, <1>11 DEF Complete, OnTheWay
<1>. QED  BY <1>7, <1>8, <1>10, <1>13, <1>14 DEF Placed

\* What check_int serves: the first interrupt, or the last of some errors; or
\* nothing.
Answers == Serve \/ (irqs' = irqs /\ ret'.packet = NoPacket /\ Empty(ret'))

LEMMA NoneIsEmpty ==
  \A status \in {"none", "timeout", "error"} :
    /\ Returned(status, NoPacket).packet = NoPacket
    /\ Empty(Returned(status, NoPacket))
BY DEF Returned, Empty

LEMMA AnswersInOrder ==
  ASSUME OrderInv, IInv', Answers
  PROVE  /\ Sorted(Brought(irqs)') /\ InIrqs = InIrqs' \cup InRet' /\ Before(InRet', InIrqs')
         /\ \A i \in DOMAIN irqs' : Empty(irqs'[i])
         /\ Empty(ret')
<1>1. /\ irqs \in Seq(Result) /\ irqs' \in Seq(Result) /\ ret'.packet \in Carried
      /\ Sorted(Brought(irqs)) /\ \A i \in DOMAIN irqs : Empty(irqs[i])
  <2>1. irqs' \in Seq(Result) /\ ret'.packet \in Carried
    BY DEF IInv, TypeOK, PoolTypeOK, Result, Carried
  <2>. QED  BY <2>1, OrderTypes DEF OrderInv, Placed, EachSorted, Bare
<1>2. InRet' = {ret'.packet.n} \ {0}
  BY <1>1, OneNumber DEF InRet
<1>3. CASE irqs' = irqs /\ ret'.packet = NoPacket /\ Empty(ret')
  <2>1. InRet' = {} /\ InIrqs' = InIrqs
    BY <1>2, <1>3, CarriedNumbers DEF InIrqs
  <2>. QED  BY <1>1, <1>3, <2>1 DEF Before, Brought
<1>4. CASE Serve
  <2>1. PICK k \in 1..Len(irqs) :
          ServedUpTo(k) /\ ret' = irqs[k] /\ irqs' = SubSeq(irqs, k + 1, Len(irqs))
    BY <1>4 DEF Serve
  <2>. DEFINE s == Brought(irqs)
              t == Brought(irqs')
  <2>2. s \in Seq(Carried) /\ Len(s) = Len(irqs) /\ \A i \in 1..Len(irqs) : s[i] = irqs[i].packet
    BY <1>1, BroughtTypes
  <2>3. t \in Seq(Carried) /\ Len(t) = Len(irqs')
        /\ \A i \in 1..Len(irqs') : t[i] = irqs'[i].packet
    BY <1>1, BroughtTypes
  <2>4. /\ Len(irqs') = Len(irqs) - k /\ Len(irqs) \in Nat /\ DOMAIN irqs = 1..Len(irqs)
        /\ DOMAIN irqs' = 1..(Len(irqs) - k)
        /\ \A i \in 1..(Len(irqs) - k) : irqs'[i] = irqs[i + k]
    BY <1>1, <2>1
  <2>0. k \in Nat /\ 1 <= k /\ k <= Len(irqs)
    BY <2>4
  <2>5. \A i \in 1..(k - 1) : irqs[i].packet = NoPacket
    <3>1. CASE irqs[1].status = "completed"
      <4>1. k = 1
        BY <2>1, <3>1 DEF ServedUpTo
      <4>. QED  BY <4>1
    <3>2. CASE irqs[1].status # "completed"
      <4>1. \A i \in 1..k : irqs[i].status # "completed"
        BY <2>1, <3>2 DEF ServedUpTo, Similar
      <4>2. \A i \in 1..(k - 1) : i \in 1..k /\ i \in DOMAIN irqs
        BY <2>0, <2>4
      <4>3. \A i \in DOMAIN irqs : irqs[i].status # "completed" => irqs[i].packet = NoPacket
        BY <1>1 DEF Empty
      <4>. QED  BY <4>1, <4>2, <4>3, Zenon
    <3>. QED  BY <3>1, <3>2
  <2>6. ASSUME NEW i \in DOMAIN irqs' PROVE Empty(irqs'[i])
    <3>1. i + k \in DOMAIN irqs /\ irqs'[i] = irqs[i + k]
      BY <2>0, <2>4
    <3>. QED  BY <1>1, <3>1, Zenon
  <2>7. Empty(ret')
    <3>1. k \in DOMAIN irqs
      BY <2>0, <2>4
    <3>. QED  BY <1>1, <2>1, <3>1, Zenon
  <2>8. Sorted(s) /\ Numbers(s) = InIrqs /\ Numbers(t) = InIrqs'
    BY <1>1 DEF InIrqs
  <2>. HIDE DEF s, t
  <2>9. /\ Len(t) = Len(s) - k /\ (\A i \in 1..Len(t) : t[i] = s[i + k]) /\ k \in 1..Len(s)
        /\ (\A i \in 1..(k - 1) : s[i].n = 0) /\ s[k] = ret'.packet
    <3>1. Len(t) = Len(s) - k /\ k \in 1..Len(s) /\ s[k] = ret'.packet
      BY <2>1, <2>2, <2>3, <2>4
    <3>2. ASSUME NEW i \in 1..Len(t) PROVE t[i] = s[i + k]
      <4>1. i \in 1..(Len(irqs) - k) /\ i \in 1..Len(irqs') /\ i + k \in 1..Len(irqs)
        BY <2>0, <2>3, <2>4, <3>2
      <4>. QED  BY <2>2, <2>3, <2>4, <4>1
    <3>3. ASSUME NEW i \in 1..(k - 1) PROVE s[i].n = 0
      <4>1. i \in 1..Len(irqs)
        BY <2>0, <2>4, <3>3
      <4>. QED  BY <2>2, <2>5, <4>1, CarriedNumbers
    <3>. QED  BY <3>1, <3>2, <3>3
  <2>10. /\ Sorted(t) /\ Numbers(s) = Numbers(t) \cup ({s[k].n} \ {0})
         /\ Before({s[k].n} \ {0}, Numbers(t))
    BY <2>2, <2>3, <2>8, <2>9, RestInOrder
  <2>. QED  BY <1>2, <2>6, <2>7, <2>8, <2>9, <2>10 DEF t
<1>. QED  BY <1>3, <1>4 DEF Answers

\* A result is served when the last one was read, or is read as it is served.
LEMMA AnswersPlaced ==
  ASSUME OrderInv, IInv', Answers, UNCHANGED <<events, ended, owed, taken, dropped, packets>>,
         \/ ret.packet = NoPacket /\ part' = part
         \/ part = <<>> /\ part' = <<ret.packet>>
  PROVE  Placed'
<1>1. /\ Sorted(Brought(irqs)') /\ InIrqs = InIrqs' \cup InRet' /\ Before(InRet', InIrqs')
  BY AnswersInOrder
<1>2. InEvents' = InEvents /\ InEnded' = InEnded /\ InOwed' = InOwed
  BY DEF InEvents, InEnded, InOwed
<1>3. ret.packet \in Carried
  BY OrderTypes DEF OrderInv
<1>4. Sorted(part)' /\ InPart' = InPart \cup InRet /\ (InPart = {} \/ InRet = {})
  <2>1. CASE ret.packet = NoPacket /\ part' = part
    <3>1. InRet = {} /\ InPart' = InPart
      BY <2>1, CarriedNumbers, OrderTypes DEF OrderInv, InPart
    <3>. QED  BY <2>1, <3>1 DEF OrderInv, Placed, EachSorted
  <2>2. CASE part = <<>> /\ part' = <<ret.packet>>
    <3>1. Sorted(part)' /\ InPart' = InRet
      BY <1>3, <2>2, OneNumber DEF InPart, InRet
    <3>2. InPart = {}
      BY <1>3, <2>2, OneNumber DEF InPart
    <3>. QED  BY <3>1, <3>2
  <2>. QED  BY <2>1, <2>2
<1>5. EachSorted /\ Behind /\ Complete
  BY DEF OrderInv, Placed
<1>6. EachSorted'
  BY <1>1, <1>4, <1>5 DEF EachSorted, Brought
<1>7. Behind'
  <2>1. Before(InEnded', InOwed') /\ Before(InIrqs', InEnded' \cup InOwed')
    BY <1>1, <1>2, <1>5 DEF Behind, Before
  <2>2. Before(InRet', InIrqs' \cup InEnded' \cup InOwed')
    BY <1>1, <1>2, <1>5 DEF Behind, Before
  <2>3. Before(InPart', InRet' \cup InIrqs' \cup InEnded' \cup InOwed')
    BY <1>1, <1>2, <1>4, <1>5 DEF Behind, Before
  <2>4. Before(InEvents', InPart' \cup InRet' \cup InIrqs' \cup InEnded' \cup InOwed')
    BY <1>1, <1>2, <1>4, <1>5 DEF Behind, Before
  <2>. QED  BY <2>1, <2>2, <2>3, <2>4 DEF Behind
<1>8. OnTheWay' = OnTheWay
  BY <1>1, <1>2, <1>4 DEF OnTheWay
<1>9. Complete'
  BY <1>5, <1>8 DEF Complete
<1>. QED  BY <1>6, <1>7, <1>9 DEF Placed

LEMMA CheckIntAnswers ==
  ASSUME NEW waits \in BOOLEAN, CheckInt(waits)
  PROVE  /\ Answers /\ UNCHANGED <<ended, owed, dropped, packets>>
         /\ pc = "idle" /\ (pc' = "idle" \/ (pc' = "wait" /\ waits /\ ret'.packet = NoPacket))
<1>1. UNCHANGED <<ended, owed, dropped, packets>> /\ pc = "idle"
  BY DEF CheckInt, ghosts
<1>2. CASE Serve /\ UNCHANGED <<pool, pc, faults>>
  BY <1>1, <1>2 DEF Answers
<1>3. CASE ~waits /\ ret' = Returned("timeout", NoPacket) /\ UNCHANGED <<pool, irqs, pc, faults>>
  BY <1>1, <1>3, NoneIsEmpty DEF Answers
<1>4. CASE waits /\ pc' = "wait" /\ ret' = None /\ UNCHANGED <<irqs, faults>>
  BY <1>1, <1>4, NoneIsEmpty DEF Answers, None
<1>5. CASE ret' = Returned("error", NoPacket) /\ UNCHANGED <<irqs, pc>>
  BY <1>1, <1>5, NoneIsEmpty DEF Answers
<1>. QED  BY <1>2, <1>3, <1>4, <1>5 DEF CheckInt

LEMMA WaitEndsPlaced ==
  ASSUME OrderInv, IInv', WaitEnds, UNCHANGED driver
  PROVE  /\ Placed' /\ \A i \in DOMAIN irqs' : Empty(irqs'[i])
         /\ Empty(ret')
<1>1. /\ pc = "wait" /\ Answers
      /\ UNCHANGED <<events, part, ended, owed, taken, dropped, packets>>
  BY NoneIsEmpty DEF WaitEnds, Answers, driver, bounds, ghosts
<1>2. ret.packet = NoPacket
  BY <1>1 DEF OrderInv, Phases
<1>. QED  BY <1>1, <1>2, AnswersInOrder, AnswersPlaced

\* A cancellation keeps the packets of the ends, or drops them.
LEMMA CancelPlaced ==
  ASSUME OrderInv, IInv', CancelAll, UNCHANGED driver
  PROVE  Placed' /\ \A i \in DOMAIN ended' : Empty(ended'[i])
<1>1. PICK asCancelled \in BOOLEAN :
        /\ ended' =
             [i \in DOMAIN ended |->
                [status |-> IF asCancelled THEN "cancelled" ELSE ended[i].status,
                 packet |-> IF asCancelled THEN NoPacket ELSE ended[i].packet,
                 pooled |-> FALSE]]
             \o [i \in 1..inFlight |-> Cancelled]
        /\ dropped' = IF asCancelled THEN dropped \cup Unread(ended) ELSE dropped
  BY DEF CancelAll
<1>2. /\ UNCHANGED <<events, part, taken, ret, irqs, owed, packets>>
      /\ ended \in Seq(End) /\ ended' \in Seq(End) /\ inFlight \in Nat
      /\ DOMAIN ended = 1..Len(ended) /\ Len(ended) \in Nat
  <2>1. ended' \in Seq(End) /\ inFlight \in Nat
    BY PoolAssumption DEF OrderInv, IInv, TypeOK, PoolTypeOK, End
  <2>2. ended \in Seq(End)
    BY OrderTypes DEF OrderInv
  <2>. QED  BY <2>1, <2>2 DEF CancelAll, driver, bounds
<1>3. /\ Len(ended') = Len(ended) + inFlight /\ DOMAIN ended' = 1..(Len(ended) + inFlight)
      /\ \A i \in 1..Len(ended) :
           /\ ended'[i].packet = IF asCancelled THEN NoPacket ELSE ended[i].packet
           /\ ended'[i].status = IF asCancelled THEN "cancelled" ELSE ended[i].status
      /\ \A i \in (Len(ended) + 1)..(Len(ended) + inFlight) : ended'[i].packet = NoPacket
  <2>. DEFINE e(i) == [status |-> IF asCancelled THEN "cancelled" ELSE ended[i].status,
                       packet |-> IF asCancelled THEN NoPacket ELSE ended[i].packet,
                       pooled |-> FALSE]
              old == [i \in DOMAIN ended |-> e(i)]
              new == [i \in 1..inFlight |-> Cancelled]
  <2>1. \A i \in 1..Len(ended) : e(i) \in End
    <3>. SUFFICES ASSUME NEW i \in 1..Len(ended)
                  PROVE  e(i) \in End
      OBVIOUS
    <3>1. ended[i] \in End
      BY <1>2
    <3>2. ended[i].status \in Ends /\ ended[i].packet \in Packet \cup {NoPacket}
      BY <3>1 DEF End
    <3>. QED  BY <3>2 DEF End
  <2>2. old \in Seq(End) /\ Len(old) = Len(ended) /\ \A i \in 1..Len(ended) : old[i] = e(i)
    <3>. HIDE DEF e
    <3>. QED  BY <1>2, <2>1
  <2>3. new \in Seq(End) /\ Len(new) = inFlight /\ \A i \in 1..inFlight : new[i] = Cancelled
    <3>1. Cancelled \in End
      BY DEF End, Cancelled
    <3>. QED  BY <1>2, <3>1
  <2>. HIDE DEF old, new
  <2>4. ended' = old \o new
    BY <1>1 DEF old, new
  <2>5. /\ Len(ended') = Len(ended) + inFlight /\ DOMAIN ended' = 1..(Len(ended) + inFlight)
        /\ \A i \in 1..Len(ended) : ended'[i] = e(i)
        /\ \A i \in (Len(ended) + 1)..(Len(ended) + inFlight) : ended'[i] = Cancelled
    <3>. HIDE DEF e
    <3>1. Len(ended') = Len(ended) + inFlight
      BY <1>2, <2>2, <2>3, <2>4
    <3>2. DOMAIN ended' = 1..(Len(ended) + inFlight)
      BY <1>2, <3>1
    <3>3. ASSUME NEW i \in 1..Len(ended) PROVE ended'[i] = e(i)
      <4>1. ended'[i] = old[i]
        BY <1>2, <2>2, <2>3, <2>4, <3>3
      <4>. QED  BY <2>2, <3>3, <4>1
    <3>4. ASSUME NEW i \in (Len(ended) + 1)..(Len(ended) + inFlight)
          PROVE  ended'[i] = Cancelled
      <4>1. ended'[i] = new[i - Len(ended)] /\ i - Len(ended) \in 1..inFlight
        BY <1>2, <2>2, <2>3, <2>4, <3>4
      <4>. QED  BY <2>3, <4>1
    <3>. QED  BY <3>1, <3>2, <3>3, <3>4
  <2>6. \A i : /\ e(i).packet = IF asCancelled THEN NoPacket ELSE ended[i].packet
               /\ e(i).status = IF asCancelled THEN "cancelled" ELSE ended[i].status
    OBVIOUS
  <2>7. Cancelled.packet = NoPacket
    BY DEF Cancelled
  <2>. HIDE DEF e
  <2>. QED  BY <2>5, <2>6, <2>7
<1>4. \A i \in DOMAIN ended' : Empty(ended'[i])
  BY <1>2, <1>3 DEF Empty, OrderInv, Bare
<1>. DEFINE s == Brought(ended)
            t == Brought(ended')
<1>5. s \in Seq(Carried) /\ Len(s) = Len(ended) /\ DOMAIN s = 1..Len(ended)
      /\ \A i \in 1..Len(ended) : s[i] = ended[i].packet /\ ended[i].packet \in Carried
  BY <1>2, BroughtTypes
<1>6. t \in Seq(Carried) /\ Len(t) = Len(ended') /\ DOMAIN t = 1..Len(ended')
      /\ \A i \in 1..Len(ended') : t[i] = ended'[i].packet
  BY <1>2, BroughtTypes
<1>7. Sorted(s) /\ Numbers(s) = InEnded
  BY DEF OrderInv, Placed, EachSorted, InEnded
<1>8. Unread(ended) = InEnded
  BY <1>2, <1>5, <1>7 DEF Unread, Numbers
<1>9. InIrqs' = InIrqs /\ InRet' = InRet /\ InOwed' = InOwed /\ InEvents' = InEvents
      /\ InPart' = InPart /\ Numbers(t) = InEnded'
  BY <1>2 DEF InIrqs, InRet, InOwed, InEvents, InPart, InEnded
<1>10. CASE ~asCancelled
  <2>1. DOMAIN t = 1..(Len(ended) + inFlight)
        /\ (\A i \in 1..Len(ended) : t[i] = s[i])
        /\ \A i \in (Len(ended) + 1)..(Len(ended) + inFlight) : t[i].n = 0
    <3>. HIDE DEF s, t
    <3>1. DOMAIN t = 1..(Len(ended) + inFlight)
      BY <1>3, <1>6
    <3>2. ASSUME NEW i \in 1..Len(ended) PROVE t[i] = s[i]
      <4>1. i \in 1..Len(ended')
        BY <1>2, <1>3, <3>2
      <4>. QED  BY <1>3, <1>5, <1>6, <1>10, <3>2, <4>1
    <3>3. ASSUME NEW i \in (Len(ended) + 1)..(Len(ended) + inFlight) PROVE t[i].n = 0
      <4>1. i \in 1..Len(ended')
        BY <1>2, <1>3, <3>3
      <4>. QED  BY <1>3, <1>6, <3>3, <4>1, CarriedNumbers
    <3>. QED  BY <3>1, <3>2, <3>3
  <2>2. Numbers(t) = Numbers(s) /\ Sorted(t)
    <3>. HIDE DEF s, t
    <3>1. \A i \in DOMAIN t : t[i].n # 0 => i \in DOMAIN s /\ t[i] = s[i]
      BY <1>2, <1>5, <2>1
    <3>2. \A i \in DOMAIN s : i \in DOMAIN t /\ t[i] = s[i]
      BY <1>2, <1>5, <2>1
    <3>3. Numbers(t) = Numbers(s)
      BY <3>1, <3>2 DEF Numbers
    <3>4. Sorted(t)
      BY <1>7, <3>1 DEF Sorted
    <3>. QED  BY <3>3, <3>4
  <2>3. dropped' = dropped /\ InEnded' = InEnded
    BY <1>1, <1>7, <1>9, <1>10, <2>2
  <2>4. Sorted(Brought(irqs))' /\ Sorted(owed)' /\ Sorted(Brought(ended))'
    BY <1>2, <2>2 DEF OrderInv, Placed, EachSorted, Brought
  <2>. QED  BY <1>2, <1>4, <1>9, <2>3, <2>4, StillPlaced DEF OrderInv
<1>11. CASE asCancelled
  <2>1. \A i \in DOMAIN t : t[i].n = 0
    <3>. HIDE DEF s, t
    <3>. QED  BY <1>2, <1>3, <1>6, <1>11, CarriedNumbers
  <2>2. Numbers(t) = {} /\ Sorted(t)
    <3>. HIDE DEF s, t
    <3>. QED  BY <2>1 DEF Numbers, Sorted
  <2>3. dropped' = dropped \cup InEnded /\ InEnded' = {}
    BY <1>1, <1>8, <1>9, <1>11, <2>2
  <2>4. EachSorted'
    BY <1>2, <2>2 DEF OrderInv, Placed, EachSorted, Brought
  <2>5. Behind'
    BY <1>9, <2>3 DEF OrderInv, Placed, Behind, Before
  <2>6. InEnded \cap (InEvents \cup InPart \cup InRet \cup InIrqs \cup InOwed) = {}
    <3>1. \A m \in OnTheWay : m \in Nat
      BY PresentAreNats DEF OrderInv
    <3>. QED  BY <3>1 DEF OrderInv, Placed, Behind, Before, OnTheWay
  <2>7. Complete'
    BY <1>2, <1>9, <2>3, <2>6 DEF OrderInv, Placed, Complete, OnTheWay
  <2>. QED  BY <1>4, <2>4, <2>5, <2>7 DEF Placed
<1>. QED  BY <1>10, <1>11

\* A close frees what was not read.
LEMMA ClosedPlaced ==
  ASSUME OrderInv, Closed, UNCHANGED driver
  PROVE  /\ Placed' /\ \A i \in DOMAIN ended' : Empty(ended'[i])
         /\ \A i \in DOMAIN irqs' : Empty(irqs'[i])
<1>1. UNCHANGED <<events, part, taken, ret, owed, packets>>
  BY DEF Closed, driver
<1>2. CASE UNCHANGED <<ended, irqs, dropped>>
  <2>1. InRet' = InRet /\ InIrqs' = InIrqs /\ InEnded' = InEnded /\ InOwed' = InOwed
        /\ Sorted(Brought(irqs))' /\ Sorted(Brought(ended))' /\ Sorted(owed)'
    BY <1>1, <1>2
    DEF InRet, InIrqs, InEnded, InOwed, OrderInv, Placed, EachSorted, Brought
  <2>2. Placed'
    BY <1>1, <1>2, <2>1, StillPlaced DEF OrderInv
  <2>. QED  BY <1>2, <2>2 DEF OrderInv, Bare
<1>3. CASE ended' = <<>> /\ irqs' = <<>> /\ dropped' = dropped \cup Unread(irqs) \cup Unread(ended)
  <2>1. DOMAIN ended' = {} /\ DOMAIN irqs' = {}
    BY <1>3
  <2>2. InEnded' = {} /\ InIrqs' = {} /\ Sorted(Brought(irqs)') /\ Sorted(Brought(ended)')
    BY <2>1 DEF InEnded, InIrqs, Numbers, Brought, Sorted
  <2>3. Unread(irqs) = InIrqs /\ Unread(ended) = InEnded
    <3>1. irqs \in Seq(Result) /\ ended \in Seq(End)
      BY OrderTypes DEF OrderInv
    <3>2. /\ DOMAIN Brought(irqs) = DOMAIN irqs /\ DOMAIN Brought(ended) = DOMAIN ended
          /\ \A i \in DOMAIN irqs : Brought(irqs)[i] = irqs[i].packet
          /\ \A i \in DOMAIN ended : Brought(ended)[i] = ended[i].packet
      BY <3>1, BroughtTypes
    <3>. QED  BY <3>2 DEF Unread, InIrqs, InEnded, Numbers
  <2>4. InRet' = InRet /\ InOwed' = InOwed /\ InEvents' = InEvents /\ InPart' = InPart
    BY <1>1 DEF InRet, InOwed, InEvents, InPart
  <2>5. EachSorted'
    BY <1>1, <2>2 DEF OrderInv, Placed, EachSorted
  <2>6. Behind'
    BY <2>2, <2>4 DEF OrderInv, Placed, Behind, Before
  <2>7. (InEnded \cup InIrqs) \cap (InEvents \cup InPart \cup InRet \cup InOwed) = {}
    <3>1. \A m \in OnTheWay : m \in Nat
      BY PresentAreNats DEF OrderInv
    <3>. QED  BY <3>1 DEF OrderInv, Placed, Behind, Before, OnTheWay
  <2>8. Complete'
    BY <1>1, <1>3, <2>2, <2>3, <2>4, <2>7 DEF OrderInv, Placed, Complete, OnTheWay
  <2>. QED  BY <2>1, <2>5, <2>6, <2>8 DEF Placed
<1>. QED  BY <1>2, <1>3 DEF Closed, ghosts

-----------------------------------------------------------------------------
(* Steps of the driver.                                                     *)

\* ptp_add_event: all that was read of an event goes to the queue.
LEMMA AddsPlaced ==
  ASSUME OrderInv, IInv', NEW event \in Seq(Packet), Adds(event), UNCHANGED taken,
         Sorted(event), Numbers(event) = InPart \cup InRet
  PROVE  Placed'
<1>1. /\ events' = Append(events, event) /\ part' = <<>> /\ ret' = None
      /\ UNCHANGED <<ended, irqs, owed, packets, dropped, taken>>
      /\ events \in Seq(Seq(Packet))
  BY OrderTypes DEF Adds, Done, bounds, ghosts, OrderInv
<1>2. /\ Len(events) \in Nat /\ DOMAIN events = 1..Len(events)
      /\ DOMAIN events' = 1..(Len(events) + 1)
      /\ \A i \in 1..Len(events) : events'[i] = events[i]
      /\ events'[Len(events) + 1] = event
  BY <1>1
<1>3. InPart' = {} /\ InRet' = {} /\ Sorted(part')
  <2>1. ret'.packet = NoPacket
    BY <1>1 DEF None, Returned
  <2>. QED  BY <1>1, <2>1, CarriedNumbers, OneNumber DEF InPart, InRet
<1>4. InIrqs' = InIrqs /\ InEnded' = InEnded /\ InOwed' = InOwed
  BY <1>1 DEF InIrqs, InEnded, InOwed
<1>5. InEvents' = InEvents \cup InPart \cup InRet
  <2>1. InEvents' = InEvents \cup Numbers(event)
    BY <1>2 DEF InEvents, Present
  <2>. QED  BY <2>1
<1>6. EachSorted /\ Behind /\ Complete
  BY DEF OrderInv, Placed
<1>7. InOrder(events')
  <2>1. \A i \in DOMAIN events' : Sorted(events'[i])
    BY <1>2, <1>6 DEF EachSorted, InOrder
  <2>2. ASSUME NEW i \in DOMAIN events', NEW j \in DOMAIN events', i < j
        PROVE  Before(Numbers(events'[i]), Numbers(events'[j]))
    <3>1. CASE j \in 1..Len(events)
      BY <1>2, <1>6, <2>2, <3>1 DEF EachSorted, InOrder
    <3>2. CASE j = Len(events) + 1
      <4>1. i \in DOMAIN events /\ events'[i] = events[i] /\ events'[j] = event
        BY <1>2, <2>2, <3>2
      <4>2. Numbers(events[i]) \subseteq InEvents
        BY <4>1 DEF InEvents, Present
      <4>3. Before(InEvents, InPart \cup InRet)
        BY <1>6 DEF Behind, Before
      <4>. QED  BY <4>1, <4>2, <4>3 DEF Before
    <3>. QED  BY <1>2, <3>1, <3>2
  <2>. QED  BY <2>1, <2>2 DEF InOrder
<1>8. EachSorted'
  BY <1>1, <1>3, <1>6, <1>7 DEF EachSorted, Brought
<1>9. Behind'
  BY <1>3, <1>4, <1>5, <1>6 DEF Behind, Before
<1>10. OnTheWay' = OnTheWay
  BY <1>3, <1>4, <1>5 DEF OnTheWay
<1>11. Complete'
  BY <1>1, <1>6, <1>10 DEF Complete
<1>. QED  BY <1>8, <1>9, <1>11 DEF Placed

\* Nothing was returned: the call ends with nothing new.
LEMMA FailsPlaced ==
  ASSUME OrderInv, Done, UNCHANGED <<part, events, taken>>, ~Came
  PROVE  Placed'
<1>1. ret.packet = NoPacket /\ ret'.packet = NoPacket
      /\ UNCHANGED <<ended, irqs, owed, packets, dropped>>
  BY DEF OrderInv, Bare, Empty, Came, Done, None, Returned, bounds, ghosts
<1>2. InRet' = InRet /\ InIrqs' = InIrqs /\ InEnded' = InEnded /\ InOwed' = InOwed
      /\ Sorted(Brought(irqs))' /\ Sorted(Brought(ended))' /\ Sorted(owed)'
  BY <1>1 DEF InRet, InIrqs, InEnded, InOwed, OrderInv, Placed, EachSorted, Brought
<1>. QED  BY <1>1, <1>2, StillPlaced DEF OrderInv

LEMMA DonePhases ==
  ASSUME OrderInv, Done, pc = "idle", part' = <<>>
  PROVE  Bare' /\ Phases'
<1>1. /\ reading' = "no" /\ ret' = None /\ UNCHANGED <<ended, irqs, pc>>
  BY DEF Done
<1>2. ret'.packet = NoPacket /\ Empty(ret')
  BY <1>1, NoneIsEmpty DEF None
<1>. QED  BY <1>1, <1>2 DEF OrderInv, Bare, Phases

\* A call of check_int by the driver, the last result having been read.
LEMMA CheckIntPhases ==
  ASSUME OrderInv, IInv', NEW waits \in BOOLEAN, CheckInt(waits), reading' # "no",
         reading' # "rest" => part' = <<>>
  PROVE  Bare' /\ Phases'
<1>1. /\ Answers /\ ended' = ended
      /\ (pc' = "idle" \/ (pc' = "wait" /\ ret'.packet = NoPacket))
  BY CheckIntAnswers
<1>2. (\A i \in DOMAIN irqs' : Empty(irqs'[i])) /\ Empty(ret')
  BY <1>1, AnswersInOrder
<1>. QED  BY <1>1, <1>2 DEF OrderInv, Bare, Phases

LEMMA CheckOrdered ==
  ASSUME OrderInv, IInv', NEW waits \in BOOLEAN, Check(waits)
  PROVE  Bare' /\ Phases' /\ Placed'
<1>1. /\ CheckInt(waits) /\ reading = "no" /\ reading' \in {"first", "once"}
      /\ UNCHANGED <<part, events, taken>>
  BY DEF Check
<1>2. Answers /\ UNCHANGED <<ended, owed, dropped, packets>>
  BY <1>1, CheckIntAnswers
<1>3. ret.packet = NoPacket /\ part = <<>>
  BY <1>1 DEF OrderInv, Phases
<1>. QED  BY <1>1, <1>2, <1>3, AnswersPlaced, CheckIntPhases

LEMMA ReadsOrdered ==
  ASSUME OrderInv, IInv', Reads
  PROVE  Bare' /\ Phases' /\ Placed'
<1>0. ret.packet \in Carried /\ part \in Seq(Packet) /\ part \in Seq(Carried)
      /\ InRet = {ret.packet.n} \ {0}
  BY OrderTypes DEF OrderInv
<1>1. CASE CheckAgain
  <2>1. /\ CheckInt(TRUE) /\ reading = "first" /\ reading' = "again" /\ ~Came
        /\ UNCHANGED <<part, events, taken>>
    BY <1>1 DEF CheckAgain, Answered
  <2>2. Answers /\ UNCHANGED <<ended, owed, dropped, packets>>
    BY <2>1, CheckIntAnswers
  <2>3. ret.packet = NoPacket /\ part = <<>>
    BY <2>1 DEF OrderInv, Bare, Empty, Came, Phases
  <2>. QED  BY <2>1, <2>2, <2>3, AnswersPlaced, CheckIntPhases
<1>2. CASE CheckFails
  <2>1. /\ Done /\ ~Came /\ pc = "idle" /\ reading # "rest"
        /\ UNCHANGED <<part, events, taken>>
    BY <1>2 DEF CheckFails, Answered
  <2>2. part' = <<>>
    BY <2>1 DEF OrderInv, Phases
  <2>. QED  BY <2>1, <2>2, FailsPlaced, DonePhases
<1>3. CASE ReadEvent
  <2>1. /\ Adds(<<ret.packet>>) /\ Came /\ pc = "idle" /\ part = <<>> /\ taken' = taken
    BY <1>3 DEF ReadEvent, Answered, OrderInv, Phases
  <2>2. ret.packet \in Packet
    BY <2>1 DEF Came, OrderInv, IInv, PoolInv, Filled
  <2>3. <<ret.packet>> \in Seq(Packet)
    BY <2>2
  <2>4. Sorted(<<ret.packet>>) /\ Numbers(<<ret.packet>>) = InPart \cup InRet
    BY <1>0, <2>1, OneNumber DEF InPart, InRet
  <2>5. Done /\ part' = <<>>
    BY <2>1 DEF Adds
  <2>. QED  BY <2>1, <2>3, <2>4, <2>5, AddsPlaced, DonePhases
<1>4. CASE ReadOn
  <2>1. /\ CheckInt(TRUE) /\ reading' = "rest" /\ part = <<>> /\ part' = <<ret.packet>>
        /\ UNCHANGED <<events, taken>>
    BY <1>4 DEF ReadOn, Answered, OrderInv, Phases
  <2>2. Answers /\ UNCHANGED <<ended, owed, dropped, packets>>
    BY <2>1, CheckIntAnswers
  <2>. QED  BY <2>1, <2>2, AnswersPlaced, CheckIntPhases
<1>5. CASE ReadRest
  <2>. DEFINE event == IF Came THEN Append(part, ret.packet) ELSE part
  <2>1. Adds(event) /\ pc = "idle" /\ taken' = taken
    BY <1>5 DEF ReadRest, Answered
  <2>2. event \in Seq(Packet) /\ Sorted(event) /\ Numbers(event) = InPart \cup InRet
    <3>1. Sorted(part) /\ \A m \in InPart : \A n \in InRet : m < n
      BY DEF OrderInv, Placed, EachSorted, Behind, Before
    <3>2. CASE Came
      <4>1. ret.packet \in Packet /\ event = Append(part, ret.packet)
        BY <3>2 DEF Came, OrderInv, IInv, PoolInv, Filled
      <4>2. /\ event \in Seq(Packet) /\ Len(event) = Len(part) + 1
            /\ (\A i \in 1..Len(part) : event[i] = part[i]) /\ event[Len(event)] = ret.packet
        BY <1>0, <4>1
      <4>. HIDE DEF event
      <4>3. event \in Seq(Carried)
        BY <4>2, CarriedNumbers
      <4>4. \A m \in Numbers(part) : event[Len(event)].n # 0 => m < event[Len(event)].n
        BY <1>0, <3>1, <4>2 DEF InPart
      <4>. QED  BY <1>0, <3>1, <4>2, <4>3, <4>4, AppendInOrder DEF InPart
    <3>3. CASE ~Came
      <4>1. ret.packet = NoPacket /\ event = part
        BY <3>3 DEF OrderInv, Bare, Empty, Came
      <4>. QED  BY <1>0, <3>1, <4>1, CarriedNumbers DEF InPart
    <3>. QED  BY <3>2, <3>3
  <2>. HIDE DEF event
  <2>3. Done /\ part' = <<>>
    BY <2>1 DEF Adds
  <2>. QED  BY <2>1, <2>2, <2>3, AddsPlaced, DonePhases
<1>. QED  BY <1>1, <1>2, <1>3, <1>4, <1>5 DEF Reads

\* One event of the queue, whichever, goes to the application.
LEMMA TakePlaced ==
  ASSUME OrderInv, TakeEvent
  PROVE  Placed'
<1>1. UNCHANGED <<ended, irqs, ret, owed, packets, dropped, part>>
  BY DEF TakeEvent, poolVars, bounds, ghosts
<1>2. PICK k \in DOMAIN events :
        /\ taken' = taken \cup {events[k][j].n : j \in DOMAIN events[k]}
        /\ events' = SubSeq(events, 1, k - 1) \o SubSeq(events, k + 1, Len(events))
  BY DEF TakeEvent, RemoveAt
<1>3. events \in Seq(Seq(Packet)) /\ k \in 1..Len(events) /\ Len(events) \in Nat
      /\ DOMAIN events = 1..Len(events)
  BY OrderTypes DEF OrderInv
\* where a remaining event was
<1>. DEFINE from(i) == IF i < k THEN i ELSE i + 1
<1>4. /\ DOMAIN events' = 1..(Len(events) - 1)
      /\ \A i \in 1..(Len(events) - 1) : events'[i] = events[from(i)]
  <2>1. events \in Seq(Seq(Packet))
    BY <1>3
  <2>. DEFINE t == SubSeq(events, 1, k - 1) \o SubSeq(events, k + 1, Len(events))
  <2>2. /\ DOMAIN t = 1..(Len(events) - 1)
        /\ \A i \in 1..(Len(events) - 1) : t[i] = events[IF i < k THEN i ELSE i + 1]
    BY <2>1, Removed
  <2>3. events' = t
    BY <1>2, Zenon
  <2>. HIDE DEF t
  <2>. QED  BY <2>2, <2>3, Zenon
<1>5. /\ \A i \in DOMAIN events' : from(i) \in DOMAIN events /\ from(i) # k
      /\ \A i, j \in DOMAIN events' : i < j => from(i) < from(j)
  <2>1. DOMAIN events' = 1..(Len(events) - 1)
    BY <1>4, Zenon
  <2>2. \A i \in 1..(Len(events) - 1) : from(i) \in 1..Len(events) /\ from(i) # k
    BY <1>3
  <2>3. \A i, j \in 1..(Len(events) - 1) : i < j => from(i) < from(j)
    BY <1>3
  <2>. HIDE DEF from
  <2>. QED  BY <1>3, <2>1, <2>2, <2>3, Zenon
<1>6. \A i \in DOMAIN events : i # k => \E j \in DOMAIN events' : from(j) = i
  <2>. SUFFICES ASSUME NEW i \in DOMAIN events, i # k
                PROVE  \E j \in DOMAIN events' : from(j) = i
    OBVIOUS
  <2>1. CASE i < k
    <3>1. i \in DOMAIN events' /\ from(i) = i
      BY <1>3, <1>4, <2>1
    <3>. QED  BY <3>1
  <2>2. CASE i > k
    <3>1. i - 1 \in DOMAIN events' /\ from(i - 1) = i
      BY <1>3, <1>4, <2>2
    <3>. QED  BY <3>1
  <2>. QED  BY <1>3, <2>1, <2>2
<1>. HIDE DEF from
<1>7. EachSorted /\ Behind /\ Complete
  BY DEF OrderInv, Placed
<1>8. InOrder(events)
  BY <1>7 DEF EachSorted
<1>9. InOrder(events')
  <2>1. \A i \in DOMAIN events' : Sorted(events'[i])
    BY <1>4, <1>5, <1>8 DEF InOrder
  <2>2. \A i, j \in DOMAIN events' : i < j => Before(Numbers(events'[i]), Numbers(events'[j]))
    BY <1>4, <1>5, <1>8 DEF InOrder
  <2>. QED  BY <2>1, <2>2 DEF InOrder
<1>10. /\ InEvents = InEvents' \cup Numbers(events[k])
       /\ InEvents' \cap Numbers(events[k]) = {}
  <2>1. InEvents' = UNION {Numbers(events[i]) : i \in DOMAIN events \ {k}}
    <3>1. InEvents' = UNION {Numbers(events'[i]) : i \in DOMAIN events'}
      BY DEF InEvents, Present
    <3>2. \A i \in DOMAIN events' : Numbers(events'[i]) = Numbers(events[from(i)])
      BY <1>4
    <3>. QED  BY <1>5, <1>6, <3>1, <3>2
  <2>2. InEvents = UNION {Numbers(events[i]) : i \in DOMAIN events}
    BY DEF InEvents, Present
  <2>3. \A i \in DOMAIN events \ {k} : Numbers(events[i]) \cap Numbers(events[k]) = {}
    <3>. SUFFICES ASSUME NEW i \in DOMAIN events \ {k},
                         NEW m \in Numbers(events[i]), m \in Numbers(events[k])
                  PROVE  FALSE
      OBVIOUS
    <3>1. m \in Nat
      BY <2>2, PresentAreNats DEF OrderInv, OnTheWay
    <3>2. i < k \/ k < i
      BY <1>3
    <3>3. m < m
      BY <1>8, <3>2 DEF InOrder, Before
    <3>. QED  BY <3>1, <3>3
  <2>. QED  BY <2>1, <2>2, <2>3
<1>11. InPart' = InPart /\ InRet' = InRet /\ InIrqs' = InIrqs /\ InEnded' = InEnded
       /\ InOwed' = InOwed
  BY <1>1 DEF InPart, InRet, InIrqs, InEnded, InOwed
<1>12. taken' = taken \cup Numbers(events[k])
  <2>1. \A j \in DOMAIN events[k] : events[k][j].n # 0
    <3>1. events[k] \in Seq(Packet)
      BY <1>3
    <3>. QED  BY <3>1, CarriedNumbers
  <2>. QED  BY <1>2, <2>1 DEF Numbers
<1>13. EachSorted'
  BY <1>1, <1>7, <1>9 DEF EachSorted, Brought
<1>14. Behind'
  BY <1>7, <1>10, <1>11 DEF Behind, Before
<1>15. Numbers(events[k]) \cap (InPart \cup InRet \cup InIrqs \cup InEnded \cup InOwed) = {}
  <2>1. \A m \in OnTheWay : m \in Nat
    BY PresentAreNats DEF OrderInv
  <2>. QED  BY <1>7, <1>10, <2>1 DEF Behind, Before, OnTheWay
<1>16. Complete'
  <2>1. OnTheWay = OnTheWay' \cup Numbers(events[k]) /\ OnTheWay' \cap Numbers(events[k]) = {}
    BY <1>10, <1>11, <1>15 DEF OnTheWay
  <2>. QED  BY <1>1, <1>7, <1>12, <2>1 DEF Complete
<1>. QED  BY <1>13, <1>14, <1>16 DEF Placed

-----------------------------------------------------------------------------
(* The order is kept, and what it shows.                                    *)

LEMMA OrderInitially == Init => OrderInv
<1>. SUFFICES ASSUME Init
              PROVE  OrderInv
  OBVIOUS
<1>1. IInv
  BY Initially, PoolAssumption
<1>2. /\ ended = <<>> /\ irqs = <<>> /\ owed = <<>> /\ part = <<>> /\ events = <<>>
      /\ ret = None /\ pc = "idle" /\ reading = "no" /\ taken = {} /\ dropped = {} /\ packets = 0
  BY DEF Init, PoolInit
<1>3. /\ DOMAIN ended = {} /\ DOMAIN irqs = {} /\ DOMAIN owed = {} /\ DOMAIN part = {}
      /\ DOMAIN events = {}
  BY <1>2
<1>4. ret.packet = NoPacket /\ Empty(ret)
  BY <1>2, NoneIsEmpty DEF None
<1>5. Bare /\ Phases
  BY <1>2, <1>3, <1>4 DEF Bare, Phases
<1>6. DOMAIN Brought(irqs) = {} /\ DOMAIN Brought(ended) = {}
  BY <1>3 DEF Brought
<1>7. EachSorted
  BY <1>3, <1>6 DEF EachSorted, InOrder, Sorted
<1>8. InEvents = {} /\ InPart = {} /\ InIrqs = {} /\ InEnded = {} /\ InOwed = {}
  BY <1>3, <1>6 DEF InEvents, InPart, InIrqs, InEnded, InOwed, Present, Numbers
<1>9. InRet = {}
  BY <1>1, <1>4, OrderTypes, CarriedNumbers
<1>10. Behind
  BY <1>8, <1>9 DEF Behind, Before
<1>11. Complete
  BY <1>2, <1>8, <1>9 DEF Complete, OnTheWay
<1>. QED  BY <1>1, <1>5, <1>7, <1>10, <1>11 DEF OrderInv, Placed

\* Where nothing returns to the driver the phases stay.
LEMMA SamePhases ==
  ASSUME OrderInv, UNCHANGED driver, UNCHANGED ret, pc' = "wait" => pc = "wait"
  PROVE  Phases'
BY DEF OrderInv, Phases, driver

LEMMA PortOrdered ==
  ASSUME OrderInv, IInv', Outside \/ Calls \/ Port, UNCHANGED driver
  PROVE  Bare' /\ Phases' /\ Placed'
<1>. USE DEF OrderInv
<1>1. CASE Occurs
  <2>1. UNCHANGED <<ended, irqs, ret, pc>>
    BY <1>1 DEF Occurs
  <2>. QED  BY <1>1, <2>1, OccursPlaced, SamePhases DEF Bare
<1>2. CASE DeviceSends \/ TransferFails
  <2>1. UNCHANGED <<irqs, ret, pc>>
    BY <1>2 DEF DeviceSends, TransferFails, Ended
  <2>. QED  BY <1>2, <2>1, DeviceSendsPlaced, TransferFailsPlaced, SamePhases DEF Bare
<1>3. CASE Callback
  <2>1. UNCHANGED <<ret, pc>>
    BY <1>3 DEF Callback
  <2>. QED  BY <1>3, <2>1, CallbackPlaced, SamePhases DEF Bare
<1>4. CASE WaitEnds
  <2>1. /\ ended' = ended /\ pc' = "idle" /\ pc = "wait"
    BY <1>4 DEF WaitEnds
  <2>2. Phases'
    BY <2>1 DEF Phases, driver
  <2>. QED  BY <1>4, <2>1, <2>2, WaitEndsPlaced DEF Bare
<1>5. CASE CancelAll
  <2>1. UNCHANGED <<irqs, ret>> /\ pc' = "reap"
    BY <1>5 DEF CancelAll
  <2>. QED  BY <1>5, <2>1, CancelPlaced, SamePhases DEF Bare
<1>6. CASE Closed
  <2>1. ret' = ret /\ pc' = "idle"
    BY <1>6 DEF Closed
  <2>. QED  BY <1>6, <2>1, ClosedPlaced, SamePhases DEF Bare
<1>7. CASE Open \/ Cut \/ Bulk \/ BulkDone \/ CaughtUp \/ Reaped \/ ResetDone
  <2>1. UNCHANGED <<ended, irqs, ret, owed, packets, dropped>> /\ (pc' = "wait" => pc = "wait")
    BY <1>7 DEF Open, Cut, Bulk, BulkDone, CaughtUp, Reaped, ResetDone, bounds, ghosts
  <2>2. InRet' = InRet /\ InIrqs' = InIrqs /\ InEnded' = InEnded /\ InOwed' = InOwed
        /\ Sorted(Brought(irqs))' /\ Sorted(Brought(ended))' /\ Sorted(owed)'
    BY <2>1 DEF InRet, InIrqs, InEnded, InOwed, Placed, EachSorted, Brought
  <2>3. Placed'
    BY <2>1, <2>2, StillPlaced DEF driver
  <2>. QED  BY <2>1, <2>3, SamePhases DEF Bare
<1>. QED  BY <1>1, <1>2, <1>3, <1>4, <1>5, <1>6, <1>7 DEF Outside, Calls, Port

LEMMA OrderSteps == OrderInv /\ [Next]_vars => OrderInv'
<1>. SUFFICES ASSUME OrderInv, [Next]_vars
              PROVE  OrderInv'
  OBVIOUS
<1>1. IInv'
  BY Steps, PoolAssumption DEF OrderInv
<1>2. CASE UNCHANGED vars
  <2>1. UNCHANGED <<ended, irqs, ret, owed, packets, dropped, pc>> /\ UNCHANGED driver
    BY <1>2 DEF vars, poolVars, bounds, ghosts
  <2>2. InRet' = InRet /\ InIrqs' = InIrqs /\ InEnded' = InEnded /\ InOwed' = InOwed
        /\ Sorted(Brought(irqs))' /\ Sorted(Brought(ended))' /\ Sorted(owed)'
    BY <2>1 DEF InRet, InIrqs, InEnded, InOwed, OrderInv, Placed, EachSorted, Brought
  <2>3. Placed'
    BY <2>1, <2>2, StillPlaced DEF driver, OrderInv
  <2>. QED  BY <1>1, <2>1, <2>3, SamePhases DEF OrderInv, Bare
<1>3. CASE (Outside \/ Calls \/ Port) /\ UNCHANGED driver
  BY <1>1, <1>3, PortOrdered DEF OrderInv
<1>4. ASSUME NEW waits \in BOOLEAN, Check(waits)
      PROVE  OrderInv'
  BY <1>1, <1>4, CheckOrdered DEF OrderInv
<1>5. CASE Reads
  BY <1>1, <1>5, ReadsOrdered DEF OrderInv
<1>6. CASE TakeEvent
  <2>1. UNCHANGED <<ended, irqs, ret, pc, reading, part>>
    BY <1>6 DEF TakeEvent, poolVars
  <2>. QED  BY <1>1, <1>6, <2>1, TakePlaced DEF OrderInv, Bare, Phases
<1>. QED  BY <1>2, <1>3, <1>4, <1>5, <1>6 DEF Next

\* The line, place by place.
LEMMA LinePlaces ==
  ASSUME IInv
  PROVE  /\ Len(events) \in Nat
         /\ DOMAIN events = 1..Len(events)
         /\ DOMAIN Line = 1..(Len(events) + 5)
         /\ \A i \in 1..Len(events) : Line[i] = events[i]
         /\ Line[Len(events) + 1] = part
         /\ Line[Len(events) + 2] = <<ret.packet>>
         /\ Line[Len(events) + 3] = Brought(irqs)
         /\ Line[Len(events) + 4] = Brought(ended)
         /\ Line[Len(events) + 5] = owed
<1>1. /\ events \in Seq(Seq(Carried)) /\ part \in Seq(Carried)
      /\ <<ret.packet>> \in Seq(Carried) /\ Brought(irqs) \in Seq(Carried)
      /\ Brought(ended) \in Seq(Carried) /\ owed \in Seq(Carried)
  <2>1. \A s \in Seq(Packet) : s \in Seq(Carried)
    BY CarriedNumbers
  <2>2. events \in Seq(Seq(Carried))
    BY <2>1, OrderTypes
  <2>3. <<ret.packet>> \in Seq(Carried)
    BY OrderTypes
  <2>. QED  BY <2>2, <2>3, OrderTypes, BroughtTypes
<1>. DEFINE S == Seq(Carried)
            r == <<ret.packet>>
            b == Brought(irqs)
            d == Brought(ended)
<1>2. r \in S /\ b \in S /\ d \in S /\ owed \in S /\ part \in S /\ events \in Seq(S)
  BY <1>1
<1>3. Line = events \o <<part>> \o <<r, b, d, owed>>
  BY DEF Line, Underway
<1>. HIDE DEF S, r, b, d
<1>. DEFINE u == events \o <<part>>
            v == <<r, b, d, owed>>
<1>4. /\ u \in Seq(S) /\ Len(u) = Len(events) + 1 /\ u[Len(events) + 1] = part
      /\ \A i \in 1..Len(events) : u[i] = events[i]
  BY <1>2
<1>5. v \in Seq(S) /\ Len(v) = 4 /\ v[1] = r /\ v[2] = b /\ v[3] = d /\ v[4] = owed
  BY <1>2
<1>6. Len(events) \in Nat /\ DOMAIN events = 1..Len(events)
  BY <1>2
<1>. HIDE DEF u, v
<1>7. Line = u \o v
  BY <1>3 DEF u, v
<1>8. /\ DOMAIN Line = 1..(Len(events) + 5)
      /\ \A i \in 1..(Len(events) + 1) : Line[i] = u[i]
      /\ \A i \in 1..4 : Line[Len(events) + 1 + i] = v[i]
  <2>1. /\ DOMAIN (u \o v) = 1..(Len(u) + Len(v))
        /\ \A i \in 1..Len(u) : (u \o v)[i] = u[i]
        /\ \A i \in 1..Len(v) : (u \o v)[Len(u) + i] = v[i]
    <3>1. u \in Seq(S) /\ v \in Seq(S)
      BY <1>4, <1>5
    <3>. QED  BY <3>1, Concatenated
  <2>2. Len(u) + Len(v) = Len(events) + 5
    BY <1>4, <1>5, <1>6
  <2>. QED  BY <1>4, <1>5, <1>7, <2>1, <2>2, Zenon
<1>9. \A i \in 1..Len(events) : Line[i] = events[i]
  BY <1>4, <1>6, <1>8
<1>10. Line[Len(events) + 1] = part
  BY <1>4, <1>6, <1>8
<1>11. /\ Line[Len(events) + 2] = r /\ Line[Len(events) + 3] = b
       /\ Line[Len(events) + 4] = d /\ Line[Len(events) + 5] = owed
  <2>1. /\ Line[Len(events) + 1 + 1] = r /\ Line[Len(events) + 1 + 2] = b
        /\ Line[Len(events) + 1 + 3] = d /\ Line[Len(events) + 1 + 4] = owed
    BY <1>5, <1>8
  <2>2. /\ Len(events) + 1 + 1 = Len(events) + 2 /\ Len(events) + 1 + 2 = Len(events) + 3
        /\ Len(events) + 1 + 3 = Len(events) + 4 /\ Len(events) + 1 + 4 = Len(events) + 5
    BY <1>6
  <2>. QED  BY <2>1, <2>2
<1>. QED  BY <1>6, <1>8, <1>9, <1>10, <1>11 DEF r, b, d

LEMMA PlacedIsOnce == OrderInv => EachEventOnce
<1>. SUFFICES ASSUME OrderInv
              PROVE  EachEventOnce
  OBVIOUS
<1>. DEFINE L == Len(events)
<1>1. /\ L \in Nat /\ DOMAIN events = 1..L /\ DOMAIN Line = 1..(L + 5)
      /\ (\A i \in 1..L : Line[i] = events[i]) /\ Line[L + 1] = part
      /\ Line[L + 2] = <<ret.packet>> /\ Line[L + 3] = Brought(irqs)
      /\ Line[L + 4] = Brought(ended) /\ Line[L + 5] = owed
  BY LinePlaces DEF OrderInv
<1>. HIDE DEF L
<1>2. EachSorted /\ Behind /\ Complete
  BY DEF OrderInv, Placed
<1>3. /\ Numbers(Line[L + 1]) = InPart /\ Numbers(Line[L + 2]) = InRet
      /\ Numbers(Line[L + 3]) = InIrqs /\ Numbers(Line[L + 4]) = InEnded
      /\ Numbers(Line[L + 5]) = InOwed
  BY <1>1 DEF InPart, InRet, InIrqs, InEnded, InOwed
<1>4. \A i \in 1..L : Numbers(Line[i]) \subseteq InEvents
  BY <1>1 DEF InEvents, Present
<1>5. \A i \in DOMAIN Line : Sorted(Line[i])
  <2>1. Sorted(<<ret.packet>>)
    BY OrderTypes, OneNumber DEF OrderInv
  <2>2. \A i \in 1..L : Sorted(Line[i])
    BY <1>1, <1>2 DEF EachSorted, InOrder
  <2>3. /\ Sorted(Line[L + 1]) /\ Sorted(Line[L + 2]) /\ Sorted(Line[L + 3])
        /\ Sorted(Line[L + 4]) /\ Sorted(Line[L + 5])
    BY <1>1, <1>2, <2>1 DEF EachSorted
  <2>4. \A i \in DOMAIN Line : \/ i \in 1..L
                               \/ i \in {L + 1, L + 2, L + 3, L + 4, L + 5}
    BY <1>1
  <2>. QED  BY <2>2, <2>3, <2>4
<1>6. ASSUME NEW i \in DOMAIN Line, NEW j \in DOMAIN Line, i < j
      PROVE  Before(Numbers(Line[i]), Numbers(Line[j]))
  <2>1. CASE i \in 1..L /\ j \in 1..L
    BY <1>1, <1>2, <1>6, <2>1 DEF EachSorted, InOrder
  <2>2. CASE i \in 1..L /\ j \in (L + 1)..(L + 5)
    <3>1. Numbers(Line[j]) \subseteq InPart \cup InRet \cup InIrqs \cup InEnded \cup InOwed
      <4>1. j \in {L + 1, L + 2, L + 3, L + 4, L + 5}
        BY <1>1, <2>2
      <4>. QED  BY <1>3, <4>1
    <3>. QED  BY <1>2, <1>4, <2>2, <3>1 DEF Behind, Before
  <2>3. CASE i = L + 1
    <3>1. j \in {L + 2, L + 3, L + 4, L + 5}
      BY <1>1, <1>6, <2>3
    <3>. QED  BY <1>2, <1>3, <2>3, <3>1 DEF Behind, Before
  <2>4. CASE i = L + 2
    <3>1. j \in {L + 3, L + 4, L + 5}
      BY <1>1, <1>6, <2>4
    <3>. QED  BY <1>2, <1>3, <2>4, <3>1 DEF Behind, Before
  <2>5. CASE i = L + 3
    <3>1. j \in {L + 4, L + 5}
      BY <1>1, <1>6, <2>5
    <3>. QED  BY <1>2, <1>3, <2>5, <3>1 DEF Behind, Before
  <2>6. CASE i = L + 4
    <3>1. j = L + 5
      BY <1>1, <1>6, <2>6
    <3>. QED  BY <1>2, <1>3, <2>6, <3>1 DEF Behind, Before
  <2>7. \/ i \in 1..L /\ j \in 1..L
        \/ i \in 1..L /\ j \in (L + 1)..(L + 5)
        \/ i \in {L + 1, L + 2, L + 3, L + 4}
    BY <1>1, <1>6
  <2>. QED  BY <2>1, <2>2, <2>3, <2>4, <2>5, <2>6, <2>7
<1>7. Present(Line) = OnTheWay
  <2>1. Present(Line) \subseteq OnTheWay
    <3>. SUFFICES ASSUME NEW i \in DOMAIN Line PROVE Numbers(Line[i]) \subseteq OnTheWay
      BY DEF Present
    <3>1. i \in 1..L \/ i \in {L + 1, L + 2, L + 3, L + 4, L + 5}
      BY <1>1
    <3>. QED  BY <1>3, <1>4, <3>1 DEF OnTheWay
  <2>2. InEvents \subseteq Present(Line)
    <3>1. \A i \in DOMAIN events : i \in DOMAIN Line /\ Line[i] = events[i]
      BY <1>1
    <3>. QED  BY <3>1 DEF InEvents, Present
  <2>3. L + 1 \in DOMAIN Line /\ L + 2 \in DOMAIN Line /\ L + 3 \in DOMAIN Line
        /\ L + 4 \in DOMAIN Line /\ L + 5 \in DOMAIN Line
    BY <1>1
  <2>4. InPart \cup InRet \cup InIrqs \cup InEnded \cup InOwed \subseteq Present(Line)
    BY <1>3, <2>3 DEF Present
  <2>. QED  BY <2>1, <2>2, <2>4 DEF OnTheWay
<1>. QED  BY <1>2, <1>5, <1>6, <1>7 DEF EachEventOnce, InOrder, Complete

\* What the device has sent is, at every moment, on its way to the application in
\* the order it was sent, or was taken, or was freed by a close; nothing twice and
\* nothing lost, for any number of transfers, packets and faults (_cb_irq,
\* gp_libusb1_check_int, ptp_usb_event, ptp_add_event).
THEOREM EventsComeOnce == Spec => []EachEventOnce
<1>1. Init => OrderInv
  BY OrderInitially
<1>2. OrderInv /\ [Next]_vars => OrderInv'
  BY OrderSteps
<1>3. OrderInv => EachEventOnce
  BY PlacedIsOnce
<1>. QED  BY <1>1, <1>2, <1>3, PTL DEF Spec

=============================================================================
