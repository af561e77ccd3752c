------------------------ MODULE PentaxCaptureProofs ------------------------
(***************************************************************************)
(* Proofs about PentaxCapture: its types, that the next shutter is held    *)
(* back as long as an image of this session is on the camera, what a       *)
(* published capture has delivered, and, for a camera that nobody operates *)
(* by hand, what a shutter is released over and what may be deleted - for  *)
(* any number of exposures, of files in one and of slots for them.         *)
(*                                                                         *)
(* The code never learns which exposure a candidate is from.  That it is   *)
(* right all the same rests on what the operation's exposure wrote being   *)
(* in sight or published (Balanced) until nothing of it is left in sight   *)
(* (Reconciled), on companions having the primary's basename (Alike), and  *)
(* on the selected candidate being the one in hand (InHand).  Only without *)
(* a hand on the body is the camera empty when the shutter is released     *)
(* (Uncovered), and everything in sight of the new exposure (OnlyOurs).    *)
(***************************************************************************)
EXTENDS PentaxCapture, TLAPS

-----------------------------------------------------------------------------
(* The inductive invariants.                                                *)

\* The companions of a capture's own file are being reconciled.
Companions == pc \in {"look", "fetch", "drop"} /\ ~Claiming

\* The candidate in hand is the one the camera has selected; what has been
\* fetched is with the application, and an orphan on disk.
InHand ==
  /\ pc \in {"transfer", "delete", "fetch", "drop"} => queue # <<>> /\ image = Head(queue)
  /\ pc = "delete" => primary = image
  /\ pc = "publish" \/ Companions => primary \in Image
  /\ pc = "drop" => image \in kept /\ (Claiming => image \in saved)

\* The images that are still to come or to be fetched.
InSight == ToSet(making) \cup ToSet(queue)

\* Exposures are numbered in the order they are made, by whoever makes them.
Numbered ==
  /\ \A i \in InSight : i.exp <= exposures
  /\ \A e \in mine : e <= exposures

\* The obligation is latched while an image of this session is in sight: not
\* between calls only.  It is taken back by a shutter that was refused, when no
\* such image is, and by a publication that followed the last of them.
Unsettled == \E i \in InSight : i.exp \in mine

Owed ==
  /\ Unsettled => capture_output_pending
  /\ pc = "initiate" \/ (pc = "publish" /\ ~incomplete) => ~Unsettled

\* Where the operation in flight stands when the call is at pc.  One that is in
\* flight owes an image, so nothing is claimed as an orphan meanwhile.
Placed ==
  /\ transfer_state # "IDLE" => capture_output_pending
  /\ pc \in {"preconditions", "initiate", "claimed"} => transfer_state = "IDLE"
  /\ pc \in {"look", "fetch", "drop"} /\ Claiming => transfer_state = "IDLE"
  /\ pc \in {"waiting", "transfer", "delete", "publish", "terminate", "verify"} \/ Companions
       => transfer_state \notin {"IDLE", "TRIGGERED"}
  /\ pc \in {"idle", "recovery"} => transfer_state \in {"IDLE", "TRIGGERED"}
  /\ pc = "stop" => transfer_state = "TRIGGERED"
  /\ pc \in {"recovery", "preconditions", "initiate", "claimed"}
       \/ (pc \in {"look", "fetch", "drop"} /\ Claiming) => mode # "finalize"
  /\ transfer_state = "IDLE" => ~bulb_action_active
  /\ transfer_state = "TRIGGERED" => bulb_action_active
  /\ transfer_state \notin {"IDLE", "TRIGGERED"} /\ bulb_action_active => mode = "finalize"

\* The files of an exposure are numbered as they come.
Orderly(s) ==
  \A i, j \in 1..Len(s) : i < j /\ s[i].exp = s[j].exp => s[i].part < s[j].part

Ascending ==
  /\ Orderly(queue) /\ Orderly(making)
  /\ \A i \in ToSet(queue), j \in ToSet(making) : i.exp = j.exp => i.part < j.part

\* A companion comes after the primary, and each after those published before it:
\* there is a slot for every file of an exposure.
Room ==
  /\ pc \in {"initiate", "waiting", "transfer", "delete"} \/ transfer_state = "TRIGGERED"
       => publications = <<>>
  /\ pc = "publish" \/ Companions
       => Len(publications) < MaxParts /\ primary.exp <= exposures
  /\ pc \in {"look", "fetch"} /\ ~Claiming =>
       \A i \in InSight : i.exp = primary.exp => i.part >= Len(publications) + 2
  /\ pc \in {"fetch", "drop"} /\ ~Claiming => image.exp = primary.exp
  /\ pc = "drop" /\ ~Claiming => image.part > Len(publications)

\* The primary has been deleted on the camera and is not published yet.
Taken == IF pc = "publish" \/ Companions THEN {primary} ELSE {}

\* What the host deleted it has, or is about to publish.
Accounted == deleted \subseteq kept \cup Taken

\* The books of the exposure in flight: what it wrote is in sight, published or
\* about to be; only TerminateCapture can abandon some of it.
Balanced ==
  transfer_state # "IDLE" /\ pc \notin {"terminate", "verify"} =>
    /\ own # 0 /\ own <= exposures /\ outputs[own] # {}
    /\ outputs[own] = {i \in InSight \cup ToSet(publications) \cup Taken : i.exp = own}

\* A candidate is deleted after it has been published, and a reconciliation that
\* succeeds leaves none.  A shutter pressed on the body then begins another exposure.
Reconciled ==
  /\ pc = "drop" => image \in ToSet(publications)
  /\ pc = "publish" /\ ~incomplete => \A i \in InSight : i.exp # own

\* The companions published have the primary's basename.
Alike ==
  pc = "publish" \/ Companions => \A i \in ToSet(publications) : i.exp = primary.exp

\* The rest needs a camera that nobody operates by hand.  The shutter is then
\* released over a camera that is still quiet.
Uncovered == pc = "initiate" => queue = <<>> /\ making = <<>>

\* While an operation is in flight everything in sight is of this session.
OnlyOurs ==
  transfer_state # "IDLE" => \A i \in InSight : i.exp \in mine

-----------------------------------------------------------------------------
(* Sequences and their elements.                                            *)

LEMMA NothingIn == ToSet(<<>>) = {}
BY DEF ToSet

LEMMA AmongIn ==
  ASSUME NEW S, NEW s \in Seq(S)
  PROVE  /\ \A i \in 1..Len(s) : s[i] \in ToSet(s)
         /\ \A y \in ToSet(s) : \E i \in 1..Len(s) : y = s[i]
BY DEF ToSet

LEMMA AppendIn ==
  ASSUME NEW S, NEW s \in Seq(S), NEW x \in S
  PROVE  /\ Append(s, x) \in Seq(S) /\ Len(Append(s, x)) = Len(s) + 1
         /\ Append(s, x) # <<>> /\ (s # <<>> => Head(Append(s, x)) = Head(s))
         /\ ToSet(Append(s, x)) = ToSet(s) \cup {x}
<1>1. /\ Append(s, x) \in Seq(S) /\ Len(Append(s, x)) = Len(s) + 1
      /\ Append(s, x) # <<>> /\ (s # <<>> => Head(Append(s, x)) = Head(s))
      /\ \A i \in 1..Len(s) : Append(s, x)[i] = s[i]
      /\ Append(s, x)[Len(s) + 1] = x
  <2>1. /\ Append(s, x) \in Seq(S) /\ Len(Append(s, x)) = Len(s) + 1
        /\ \A i \in 1..Len(s) : Append(s, x)[i] = s[i]
        /\ Append(s, x)[Len(s) + 1] = x
    OBVIOUS
  <2>2. Append(s, x) # <<>>
    BY <2>1
  <2>3. s # <<>> => Head(Append(s, x)) = Head(s)
    BY <2>1
  <2> QED
    BY <2>1, <2>2, <2>3
<1>2. ASSUME NEW y \in ToSet(Append(s, x)) PROVE y \in ToSet(s) \cup {x}
  BY <1>1 DEF ToSet
<1>3. ASSUME NEW y \in ToSet(s) PROVE y \in ToSet(Append(s, x))
  BY <1>1 DEF ToSet
<1>4. x \in ToSet(Append(s, x))
  BY <1>1 DEF ToSet
<1> QED
  BY <1>1, <1>2, <1>3, <1>4

LEMMA TailParts ==
  ASSUME NEW S, NEW s \in Seq(S), s # <<>>
  PROVE  /\ Tail(s) \in Seq(S) /\ Head(s) \in S /\ Head(s) = s[1] /\ 1 \in 1..Len(s)
         /\ Len(Tail(s)) = Len(s) - 1 /\ Len(s) \in Nat
         /\ \A i \in 1..Len(Tail(s)) : Tail(s)[i] = s[i + 1] /\ i + 1 \in 1..Len(s)
<1>1. Head(s) \in S /\ Head(s) = s[1] /\ 1 \in 1..Len(s) /\ Len(s) \in Nat
  OBVIOUS
<1>2. Tail(s) \in Seq(S) /\ Len(Tail(s)) = Len(s) - 1
  OBVIOUS
<1>3. \A i \in 1..Len(Tail(s)) : Tail(s)[i] = s[i + 1]
  OBVIOUS
<1> QED
  BY <1>1, <1>2, <1>3

LEMMA TailIn ==
  ASSUME NEW S, NEW s \in Seq(S), s # <<>>
  PROVE  /\ Tail(s) \in Seq(S) /\ Head(s) \in S
         /\ ToSet(s) = ToSet(Tail(s)) \cup {Head(s)}
<1>1. /\ Tail(s) \in Seq(S) /\ Head(s) \in S /\ Head(s) = s[1] /\ 1 \in 1..Len(s)
      /\ Len(Tail(s)) = Len(s) - 1 /\ Len(s) \in Nat
      /\ \A i \in 1..Len(Tail(s)) : Tail(s)[i] = s[i + 1]
  BY TailParts
<1>2. ASSUME NEW y \in ToSet(s), y # Head(s) PROVE y \in ToSet(Tail(s))
  <2>1. PICK i \in 1..Len(s) : y = s[i]
    BY DEF ToSet
  <2>2. i - 1 \in 1..Len(Tail(s)) /\ y = Tail(s)[i - 1]
    BY <1>1, <1>2, <2>1
  <2> QED
    BY <1>1, <2>2, AmongIn
<1>3. ASSUME NEW y \in ToSet(Tail(s)) PROVE y \in ToSet(s)
  <2>1. PICK i \in 1..Len(Tail(s)) : y = Tail(s)[i]
    BY <1>1 DEF ToSet
  <2>2. i + 1 \in 1..Len(s) /\ y = s[i + 1]
    BY <1>1, <2>1
  <2> QED
    BY <2>2 DEF ToSet
<1>4. Head(s) \in ToSet(s)
  BY <1>1 DEF ToSet
<1> QED
  BY <1>1, <1>2, <1>3, <1>4

LEMMA JoinIn ==
  ASSUME NEW S, NEW s \in Seq(S), NEW t \in Seq(S)
  PROVE  s \o t \in Seq(S) /\ ToSet(s \o t) = ToSet(s) \cup ToSet(t)
<1>1. /\ s \o t \in Seq(S) /\ Len(s \o t) = Len(s) + Len(t)
      /\ \A i \in 1..Len(s) : (s \o t)[i] = s[i]
      /\ \A i \in 1..Len(t) : (s \o t)[Len(s) + i] = t[i]
      /\ Len(s) \in Nat /\ Len(t) \in Nat
  OBVIOUS
<1>2. ASSUME NEW y \in ToSet(s \o t) PROVE y \in ToSet(s) \cup ToSet(t)
  <2>1. PICK i \in 1..Len(s \o t) : y = (s \o t)[i]
    BY <1>1 DEF ToSet
  <2>2. CASE i <= Len(s)
    <3>1. i \in 1..Len(s) /\ y = s[i]
      BY <1>1, <2>1, <2>2
    <3> QED
      BY <3>1 DEF ToSet
  <2>3. CASE i > Len(s)
    <3>1. i - Len(s) \in 1..Len(t) /\ y = t[i - Len(s)]
      BY <1>1, <2>1, <2>3
    <3> QED
      BY <3>1 DEF ToSet
  <2> QED
    BY <1>1, <2>1, <2>2, <2>3
<1>3. ASSUME NEW y \in ToSet(s) PROVE y \in ToSet(s \o t)
  <2>1. PICK i \in 1..Len(s) : y = s[i]
    BY DEF ToSet
  <2>2. i \in 1..Len(s \o t) /\ y = (s \o t)[i]
    BY <1>1, <2>1
  <2> QED
    BY <1>1, <2>2 DEF ToSet
<1>4. ASSUME NEW y \in ToSet(t) PROVE y \in ToSet(s \o t)
  <2>1. PICK i \in 1..Len(t) : y = t[i]
    BY DEF ToSet
  <2>2. Len(s) + i \in 1..Len(s \o t) /\ y = (s \o t)[Len(s) + i]
    BY <1>1, <2>1
  <2> QED
    BY <1>1, <2>2 DEF ToSet
<1> QED
  BY <1>1, <1>2, <1>3, <1>4

LEMMA TypedIn ==
  ASSUME NEW S, NEW s \in Seq(S)
  PROVE  ToSet(s) \subseteq S /\ (ToSet(s) = {} => s = <<>>)
<1>1. s # <<>> => s[1] \in ToSet(s)
  BY AmongIn
<1>2. ToSet(s) \subseteq S
  BY DEF ToSet
<1> QED
  BY <1>1, <1>2

-----------------------------------------------------------------------------
(* The types, a part of the state at a time.                                *)
CameraTypes ==
  /\ making \in Seq(Image) /\ queue \in Seq(Image) /\ held \in BOOLEAN
  /\ exposures \in 0..MaxExposures /\ outputs \in [Exposures -> SUBSET Image]

LatchTypes ==
  /\ transfer_state \in TransferStates
  /\ recovery_required \in BOOLEAN /\ capture_output_pending \in BOOLEAN

BulbTypes ==
  /\ bulb_action_active \in BOOLEAN /\ bulb_action_stop_requested \in BOOLEAN
  /\ bulb_action_timed_fallback \in BOOLEAN

FileTypes ==
  /\ publications \in Seq(Image) /\ Len(publications) <= MaxPublications
  /\ extras \in Seq(Image) /\ Len(extras) <= MaxPublications

CallTypes ==
  /\ pc \in {"idle", "recovery", "preconditions", "look", "fetch", "drop", "claimed",
             "initiate", "waiting", "transfer", "delete", "publish", "stop",
             "terminate", "verify"}
  /\ mode \in {"timed", "start", "finalize"}
  /\ loop \in {"recovery", "preconditions", "companions"}
  /\ image \in Image \cup {NoImage} /\ primary \in Image \cup {NoImage}
  /\ incomplete \in BOOLEAN

GhostTypes ==
  /\ own \in 0..MaxExposures /\ mine \subseteq Exposures
  /\ kept \subseteq Image /\ saved \subseteq Image /\ deleted \subseteq Image

LEMMA TypeParts ==
  TypeOK <=> CameraTypes /\ LatchTypes /\ BulbTypes /\ FileTypes /\ CallTypes /\ GhostTypes
BY DEF TypeOK, CameraTypes, LatchTypes, BulbTypes, FileTypes, CallTypes, GhostTypes

LEMMA TypesNext ==
  ASSUME CameraTypes', LatchTypes', BulbTypes', FileTypes', CallTypes', GhostTypes'
  PROVE  TypeOK'
BY DEF TypeOK, CameraTypes, LatchTypes, BulbTypes, FileTypes, CallTypes, GhostTypes

\* What an action leaves alone keeps its types.
LEMMA SameTypes ==
  ASSUME TypeOK
  PROVE  /\ UNCHANGED camera => CameraTypes'
         /\ UNCHANGED latches => LatchTypes'
         /\ UNCHANGED bulb => BulbTypes'
         /\ UNCHANGED files => FileTypes'
         /\ UNCHANGED call => CallTypes'
         /\ UNCHANGED ghosts => GhostTypes'
<1> USE TypeParts
<1>1. UNCHANGED camera => CameraTypes'
  BY DEF CameraTypes, camera
<1>2. UNCHANGED latches => LatchTypes'
  BY DEF LatchTypes, latches
<1>3. UNCHANGED bulb => BulbTypes'
  BY DEF BulbTypes, bulb
<1>4. UNCHANGED files => FileTypes'
  BY DEF FileTypes, files
<1>5. UNCHANGED call => CallTypes'
  BY DEF CallTypes, call
<1>6. UNCHANGED ghosts => GhostTypes'
  BY DEF GhostTypes, ghosts
<1> QED
  BY <1>1, <1>2, <1>3, <1>4, <1>5, <1>6

LEMMA ImageParts ==
  ASSUME PentaxAssumption
  PROVE  /\ NoImage \notin Image
         /\ \A i \in Image : i.exp \in Nat /\ i.part \in Nat /\ i.exp # 0
                            /\ 1 <= i.part /\ i.part <= MaxParts
BY DEF PentaxAssumption, Image, NoImage, Exposures

LEMMA ExposeType ==
  ASSUME PentaxAssumption, TypeOK, NEW hold \in BOOLEAN, Expose(hold)
  PROVE  CameraTypes' /\ exposures' = exposures + 1 /\ exposures' \in Exposures
<1>1. /\ exposures' = exposures + 1 /\ exposures' \in 1..MaxExposures /\ held' = hold
      /\ queue' = queue
  BY DEF Expose, TypeOK, PentaxAssumption
<1> DEFINE New(n) == [p \in 1..n |-> [exp |-> exposures + 1, part |-> p]]
<1>2. PICK n \in 1..MaxParts : /\ making' = making \o New(n)
                              /\ outputs' = [outputs EXCEPT ![exposures + 1] = ToSet(New(n))]
  BY DEF Expose
<1>3. \A p \in 1..n : [exp |-> exposures + 1, part |-> p] \in Image
  BY <1>1 DEF Image, Exposures, PentaxAssumption
<1>4. New(n) \in Seq(Image)
  BY <1>3 DEF PentaxAssumption
<1>5. ToSet(New(n)) \subseteq Image
  BY <1>4, TypedIn
<1> HIDE DEF New
<1>6. making' \in Seq(Image)
  BY <1>2, <1>4, JoinIn DEF TypeOK
<1>7. outputs' \in [Exposures -> SUBSET Image]
  BY <1>2, <1>5 DEF TypeOK
<1>8. exposures' \in 0..MaxExposures
  BY <1>1
<1>9. queue' \in Seq(Image) /\ held' \in BOOLEAN
  BY <1>1 DEF TypeOK
<1> QED
  BY <1>1, <1>6, <1>7, <1>8, <1>9 DEF CameraTypes, Exposures

LEMMA DeletesType ==
  ASSUME TypeOK, queue # <<>>,
         DeletesCandidate \/ UNCHANGED <<camera, deleted>>
  PROVE  CameraTypes' /\ deleted' \subseteq Image
<1>1. CASE DeletesCandidate
  <2>1. queue' \in Seq(Image) /\ deleted' \subseteq Image
    BY <1>1, TailIn DEF DeletesCandidate, TypeOK
  <2>2. UNCHANGED <<making, held, exposures, outputs>>
    BY <1>1 DEF DeletesCandidate
  <2> QED
    BY <2>1, <2>2 DEF CameraTypes, TypeOK
<1>2. CASE UNCHANGED <<camera, deleted>>
  BY <1>2, SameTypes DEF TypeOK
<1> QED
  BY <1>1, <1>2

LEMMA TerminatedType ==
  ASSUME PentaxAssumption, TypeOK, Terminated
  PROVE  CameraTypes'
<1>1. UNCHANGED queue /\ UNCHANGED exposures /\ held' \in BOOLEAN
  BY DEF Terminated
<1>2. CASE UNCHANGED <<making, outputs>>
  BY <1>1, <1>2 DEF TypeOK, CameraTypes
<1>3. CASE /\ making' = <<>>
           /\ outputs' = [e \in Exposures |-> outputs[e] \ ToSet(making)]
  BY <1>1, <1>3 DEF TypeOK, CameraTypes
<1> QED
  BY <1>2, <1>3, <1>1 DEF Terminated

LEMMA FilesType ==
  ASSUME PentaxAssumption, TypeOK,
         \/ publications' \in {publications, <<>>} /\ extras' \in {extras, <<>>}
         \/ /\ image \in Image /\ (publications' = publications \/ Publishes(image))
            /\ \/ UNCHANGED extras
               \/ Len(extras) < MaxPublications /\ extras' = Append(extras, image)
         \/ primary \in Image /\ (publications' = publications \/ Publishes(primary))
            /\ UNCHANGED extras
  PROVE  FileTypes'
<1>1. ASSUME NEW i \in Image, Publishes(i)
      PROVE  publications' \in Seq(Image) /\ Len(publications') <= MaxPublications
  <2>1. /\ Append(publications, i) \in Seq(Image)
        /\ Len(Append(publications, i)) = Len(publications) + 1
    BY AppendIn DEF TypeOK
  <2>2. Len(publications) \in Nat
    BY DEF TypeOK
  <2> QED
    BY <1>1, <2>1, <2>2 DEF Publishes, PentaxAssumption
<1>2. ASSUME NEW i \in Image, Len(extras) < MaxPublications, extras' = Append(extras, i)
      PROVE  extras' \in Seq(Image) /\ Len(extras') <= MaxPublications
  <2>1. /\ Append(extras, i) \in Seq(Image)
        /\ Len(Append(extras, i)) = Len(extras) + 1
    BY AppendIn DEF TypeOK
  <2>2. Len(extras) \in Nat
    BY DEF TypeOK
  <2> QED
    BY <1>2, <2>1, <2>2 DEF PentaxAssumption
<1>3. <<>> \in Seq(Image) /\ Len(<<>>) <= MaxPublications
  BY DEF PentaxAssumption
<1> QED
  BY <1>1, <1>2, <1>3 DEF TypeOK, FileTypes

LEMMA LoopType ==
  ASSUME TypeOK, LoopFails
  PROVE  /\ recovery_required' \in BOOLEAN /\ incomplete' \in BOOLEAN
         /\ pc' \in {"publish", "idle"}
BY DEF LoopFails, TypeOK

LEMMA AdmitType ==
  ASSUME TypeOK, Admit \/ RefusePreconditions
  PROVE  /\ recovery_required' \in BOOLEAN /\ capture_output_pending' \in BOOLEAN
         /\ bulb_action_timed_fallback' \in BOOLEAN /\ pc' \in {"idle", "initiate"}
         /\ publications' \in {publications, <<>>} /\ extras' \in {extras, <<>>}
BY DEF Admit, RefusePreconditions, TypeOK, files

LEMMA LeaveType ==
  ASSUME TypeOK, Leave
  PROVE  transfer_state' = "IDLE" /\ pc' = "idle" /\ BulbTypes'
BY DEF Leave, ClearBulb, TypeOK, bulb, BulbTypes

LEMMA FrameImage ==
  ASSUME PentaxAssumption, TypeOK, NEW f \in Readings
  PROVE  /\ f.readable \in BOOLEAN /\ f.active \in BOOLEAN
         /\ f.image \in Image \cup {NoImage}
         /\ f.image # NoImage => queue # <<>> /\ f.image = Head(queue)
         /\ Reason(f) = "none" => queue = <<>> /\ making = <<>>
<1>1. f = Frame \/ f = Unreadable
  BY DEF Readings
<1>2. queue # <<>> => Head(queue) \in Image
  BY TailIn DEF TypeOK
<1>3. CASE f = Frame
  <2>1. /\ f.readable /\ f.active = (making # <<>>)
        /\ f.image = IF queue = <<>> THEN NoImage ELSE Head(queue)
    BY <1>3 DEF Frame, Active
  <2>2. f.active \in BOOLEAN
    BY <2>1, Zenon
  <2> QED
    BY <1>2, <2>1, <2>2, ImageParts DEF Reason
<1>4. CASE f = Unreadable
  BY <1>4 DEF Unreadable, Reason
<1> QED
  BY <1>1, <1>3, <1>4

LEMMA InitType ==
  ASSUME PentaxAssumption, Init
  PROVE  TypeOK
<1>1. outputs \in [Exposures -> SUBSET Image]
  BY DEF Init
<1>2. /\ making \in Seq(Image) /\ queue \in Seq(Image)
      /\ publications \in Seq(Image) /\ extras \in Seq(Image)
      /\ Len(publications) = 0 /\ Len(extras) = 0
  BY DEF Init
<1>3. exposures \in 0..MaxExposures /\ own \in 0..MaxExposures
  BY DEF Init, PentaxAssumption
<1>4. Len(publications) <= MaxPublications /\ Len(extras) <= MaxPublications
  BY <1>2 DEF PentaxAssumption
<1>5. /\ held \in BOOLEAN /\ recovery_required \in BOOLEAN
      /\ capture_output_pending \in BOOLEAN /\ bulb_action_active \in BOOLEAN
      /\ bulb_action_stop_requested \in BOOLEAN
      /\ bulb_action_timed_fallback \in BOOLEAN /\ incomplete \in BOOLEAN
  BY Zenon DEF Init
<1>6. /\ image \in Image \cup {NoImage} /\ primary \in Image \cup {NoImage}
      /\ transfer_state \in TransferStates /\ mode \in {"timed", "start", "finalize"}
      /\ loop \in {"recovery", "preconditions", "companions"}
  BY DEF Init, TransferStates
<1>7. /\ mine \subseteq Exposures /\ kept \subseteq Image /\ saved \subseteq Image
      /\ deleted \subseteq Image /\ pc = "idle"
  BY DEF Init
<1> QED
  BY <1>1, <1>2, <1>3, <1>4, <1>5, <1>6, <1>7 DEF TypeOK

LEMMA TypeStep ==
  ASSUME PentaxAssumption, TypeOK, InHand, [Next]_vars
  PROVE  TypeOK'
<1>1. CASE RecoveryProbe
  <2>1. PICK f \in Readings :
          /\ capture_output_pending' = (capture_output_pending /\ ~Releases(f))
          /\ recovery_required' \in {FALSE, recovery_required}
          /\ loop' \in {"recovery", loop}
          /\ pc' \in {"preconditions", "idle", "look"}
    BY <1>1, Zenon DEF RecoveryProbe, Recovered
  <2>2. capture_output_pending' \in BOOLEAN
    BY <2>1, Zenon
  <2>3. UNCHANGED <<camera, transfer_state, bulb, files, mode, image, primary,
                    incomplete, ghosts>>
    BY <1>1 DEF RecoveryProbe
  <2>4. LatchTypes'
    BY <2>1, <2>2, <2>3 DEF TypeOK, LatchTypes
  <2>5. CallTypes'
    BY <2>1, <2>3 DEF TypeOK, CallTypes
  <2> QED
    BY <2>3, <2>4, <2>5, SameTypes, TypesNext
<1>2. CASE Preconditions
  <2>1. /\ recovery_required' \in BOOLEAN /\ capture_output_pending' \in BOOLEAN
        /\ bulb_action_timed_fallback' \in BOOLEAN /\ pc' \in {"idle", "initiate", "look"}
        /\ publications' \in {publications, <<>>} /\ extras' \in {extras, <<>>}
        /\ loop' \in {"preconditions", loop}
    BY <1>2, AdmitType DEF Preconditions, TypeOK, files
  <2>2. UNCHANGED <<camera, transfer_state, bulb_action_active,
                    bulb_action_stop_requested, mode, image, primary, incomplete, ghosts>>
    BY <1>2 DEF Preconditions
  <2>3. LatchTypes' /\ BulbTypes'
    BY <2>1, <2>2 DEF TypeOK, LatchTypes, BulbTypes
  <2>4. CallTypes'
    BY <2>1, <2>2 DEF TypeOK, CallTypes
  <2> QED
    BY <2>1, <2>2, <2>3, <2>4, SameTypes, FilesType, TypesNext
<1>3. CASE Look
  <2>1. /\ recovery_required' \in BOOLEAN /\ incomplete' \in BOOLEAN
        /\ pc' \in {"fetch", "publish", "idle", "claimed"}
        /\ publications' \in {publications, <<>>} /\ extras' \in {extras, <<>>}
        /\ image' \in Image \cup {NoImage}
    BY <1>3, FrameImage, LoopType DEF Look, LoopEnds, TypeOK, files
  <2>2. UNCHANGED <<camera, transfer_state, capture_output_pending, bulb, mode, loop,
                    primary, ghosts>>
    BY <1>3 DEF Look
  <2>3. LatchTypes' /\ CallTypes'
    BY <2>1, <2>2 DEF TypeOK, LatchTypes, CallTypes
  <2> QED
    BY <2>1, <2>2, <2>3, SameTypes, FilesType, TypesNext
<1>4. CASE Fetch
  <2>1. image \in Image
    BY <1>4, TailIn DEF Fetch, InHand, TypeOK
  <2>2. FileTypes'
    BY <1>4, <2>1, FilesType DEF Fetch, files
  <2>3. /\ recovery_required' \in BOOLEAN /\ incomplete' \in BOOLEAN
        /\ pc' \in {"drop", "publish", "idle"}
    BY <1>4, LoopType DEF Fetch, TypeOK
  <2>4. kept' \subseteq Image /\ saved' \subseteq Image
    BY <1>4, <2>1 DEF Fetch, TypeOK
  <2>5. UNCHANGED <<camera, transfer_state, capture_output_pending, bulb, mode, loop,
                    image, primary, own, mine, deleted>>
    BY <1>4 DEF Fetch
  <2>6. LatchTypes' /\ CallTypes' /\ GhostTypes'
    BY <2>3, <2>4, <2>5 DEF TypeOK, LatchTypes, CallTypes, GhostTypes
  <2> QED
    BY <2>2, <2>5, <2>6, SameTypes, TypesNext
<1>5. CASE Drop
  <2>1. CameraTypes' /\ deleted' \subseteq Image
    BY <1>5, DeletesType DEF Drop, InHand
  <2>2. /\ recovery_required' \in BOOLEAN /\ incomplete' \in BOOLEAN
        /\ pc' \in {"look", "publish", "idle"}
    BY <1>5, LoopType DEF Drop, TypeOK
  <2>3. UNCHANGED <<transfer_state, capture_output_pending, bulb, files, mode, loop,
                    image, primary, own, mine, kept, saved>>
    BY <1>5 DEF Drop
  <2>4. LatchTypes' /\ CallTypes' /\ GhostTypes'
    BY <2>1, <2>2, <2>3 DEF TypeOK, LatchTypes, CallTypes, GhostTypes
  <2> QED
    BY <2>1, <2>3, <2>4, SameTypes, TypesNext
<1>6. CASE Claimed
  <2>1. /\ recovery_required' \in BOOLEAN /\ capture_output_pending' \in BOOLEAN
        /\ bulb_action_timed_fallback' \in BOOLEAN
        /\ pc' \in {"idle", "initiate", "preconditions"}
        /\ publications' \in {publications, <<>>} /\ extras' \in {extras, <<>>}
    BY <1>6, AdmitType DEF Claimed, Recovered, TypeOK, files
  <2>2. UNCHANGED <<camera, transfer_state, bulb_action_active,
                    bulb_action_stop_requested, mode, loop, image, primary, incomplete,
                    ghosts>>
    BY <1>6 DEF Claimed
  <2>3. LatchTypes' /\ BulbTypes' /\ CallTypes'
    BY <2>1, <2>2 DEF TypeOK, LatchTypes, BulbTypes, CallTypes
  <2> QED
    BY <2>1, <2>2, <2>3, SameTypes, FilesType, TypesNext
<1>7. CASE Initiate
  <2>1. PICK r \in {"ok", "rejected", "lost"} :
          /\ \/ Fires(mode = "start")
             \/ own' = 0 /\ UNCHANGED <<camera, mine>>
          /\ capture_output_pending' = ~Rejected(r)
          /\ recovery_required' = (r # "ok")
          /\ pc' \in {"waiting", "idle"} /\ transfer_state' \in {"WAITING", "TRIGGERED", "IDLE"}
          /\ bulb_action_active' = (r = "ok" /\ mode = "start")
    BY <1>7 DEF Initiate
  <2>2. /\ capture_output_pending' \in BOOLEAN /\ recovery_required' \in BOOLEAN
        /\ bulb_action_active' \in BOOLEAN
    BY <2>1, Zenon
  <2>3. ASSUME Fires(mode = "start")
        PROVE  CameraTypes' /\ own' \in 0..MaxExposures /\ mine' \subseteq Exposures
    <3>1. (mode = "start") \in BOOLEAN
      OBVIOUS
    <3>2. Expose(mode = "start") /\ own' = exposures + 1 /\ mine' = mine \cup {exposures + 1}
      BY <2>3 DEF Fires
    <3>3. CameraTypes' /\ exposures + 1 \in Exposures
      BY <3>1, <3>2, ExposeType
    <3> QED
      BY <3>2, <3>3 DEF TypeOK, Exposures, PentaxAssumption
  <2>5. CameraTypes' /\ own' \in 0..MaxExposures /\ mine' \subseteq Exposures
    <3>1. CASE Fires(mode = "start")
      BY <2>3, <3>1
    <3>2. CASE own' = 0 /\ UNCHANGED <<camera, mine>>
      <4>1. 0 \in 0..MaxExposures
        BY DEF PentaxAssumption
      <4> QED
        BY <3>2, <4>1, SameTypes DEF TypeOK
    <3> QED
      BY <2>1, <3>1, <3>2
  <2>6. UNCHANGED <<bulb_action_timed_fallback, files, mode, loop, image, primary,
                    incomplete, kept, saved, deleted>> /\ bulb_action_stop_requested' = FALSE
    BY <1>7 DEF Initiate
  <2>7. LatchTypes' /\ BulbTypes'
    BY <2>1, <2>2, <2>6 DEF TypeOK, LatchTypes, BulbTypes, TransferStates
  <2>8. CallTypes' /\ GhostTypes'
    BY <2>1, <2>5, <2>6 DEF TypeOK, CallTypes, GhostTypes
  <2> QED
    BY <2>5, <2>6, <2>7, <2>8, SameTypes, TypesNext
<1>8. CASE Waiting
  <2>1. image' \in Image \cup {NoImage} /\ pc' \in {"transfer", "verify", "terminate"}
        /\ transfer_state' \in TransferStates
    BY <1>8, TailIn DEF Waiting, TypeOK, TransferStates
  <2>2. UNCHANGED <<camera, recovery_required, capture_output_pending, bulb, files, mode,
                    loop, primary, incomplete, ghosts>>
    BY <1>8 DEF Waiting
  <2>3. LatchTypes' /\ CallTypes'
    BY <2>1, <2>2 DEF TypeOK, LatchTypes, CallTypes
  <2> QED
    BY <2>2, <2>3, SameTypes, TypesNext
<1>9. CASE Terminate
  <2>1. CameraTypes'
    BY <1>9, TerminatedType, SameTypes DEF Terminate
  <2>2. /\ UNCHANGED <<latches, bulb, files, mode, loop, image, primary, incomplete, ghosts>>
        /\ pc' = "verify"
    BY <1>9 DEF Terminate
  <2>3. CallTypes'
    BY <2>2 DEF TypeOK, CallTypes
  <2> QED
    BY <2>1, <2>2, <2>3, SameTypes, TypesNext
<1>10. CASE Verify
  <2>1. PICK f \in Readings : recovery_required' = (recovery_required \/ ~f.readable \/ f.active)
    BY <1>10 DEF Verify
  <2>2. recovery_required' \in BOOLEAN
    BY <2>1, Zenon
  <2>3. /\ UNCHANGED <<camera, capture_output_pending, files, mode, loop, image, primary,
                       incomplete, ghosts>>
        /\ Leave
    BY <1>10 DEF Verify
  <2>4. LatchTypes' /\ BulbTypes' /\ CallTypes'
    BY <2>2, <2>3, LeaveType DEF TypeOK, LatchTypes, CallTypes, TransferStates
  <2> QED
    BY <2>3, <2>4, SameTypes, TypesNext
<1>11. CASE Transfer
  <2>1. /\ pc' \in {"delete", "idle"} /\ transfer_state' \in TransferStates
        /\ primary' \in Image \cup {NoImage} /\ recovery_required' \in BOOLEAN
    BY <1>11, LeaveType DEF Transfer, LeavePreserving, TypeOK, TransferStates
  <2>2. BulbTypes'
    BY <1>11, LeaveType, SameTypes DEF Transfer, LeavePreserving
  <2>3. UNCHANGED <<camera, capture_output_pending, files, mode, loop, image,
                    incomplete, ghosts>>
    BY <1>11 DEF Transfer
  <2>4. LatchTypes' /\ CallTypes'
    BY <2>1, <2>3 DEF TypeOK, LatchTypes, CallTypes
  <2> QED
    BY <2>2, <2>3, <2>4, SameTypes, TypesNext
<1>12. CASE Delete
  <2>1. CameraTypes' /\ deleted' \subseteq Image
    BY <1>12, DeletesType DEF Delete, InHand
  <2>2. /\ transfer_state' \in TransferStates /\ recovery_required' \in BOOLEAN
        /\ pc' \in {"look", "idle"} /\ loop' \in {loop, "companions"}
    BY <1>12, LeaveType DEF Delete, LeavePreserving, TypeOK, TransferStates
  <2>3. BulbTypes'
    BY <1>12, LeaveType, SameTypes DEF Delete, LeavePreserving
  <2>4. UNCHANGED <<capture_output_pending, files, mode, image, primary, incomplete,
                    own, mine, kept, saved>>
    BY <1>12 DEF Delete
  <2>5. LatchTypes' /\ CallTypes' /\ GhostTypes'
    BY <2>1, <2>2, <2>4 DEF TypeOK, LatchTypes, CallTypes, GhostTypes
  <2> QED
    BY <2>1, <2>3, <2>4, <2>5, SameTypes, TypesNext
<1>13. CASE Publish
  <2>1. FileTypes'
    BY <1>13, FilesType DEF Publish, InHand
  <2>2. kept' \subseteq Image /\ capture_output_pending' \in BOOLEAN
    BY <1>13 DEF Publish, InHand, TypeOK, Undischarged
  <2>3. /\ LeavePreserving
        /\ UNCHANGED <<camera, mode, loop, image, primary, incomplete, own, mine, saved,
                       deleted>>
    BY <1>13 DEF Publish
  <2>4. LatchTypes' /\ BulbTypes' /\ CallTypes' /\ GhostTypes'
    BY <2>2, <2>3, LeaveType
    DEF LeavePreserving, TypeOK, LatchTypes, CallTypes, GhostTypes, TransferStates
  <2> QED
    BY <2>1, <2>3, <2>4, SameTypes, TypesNext
<1>14. CASE Stop
  <2>1. CameraTypes'
    BY <1>14, SameTypes DEF Stop, CameraTypes, TypeOK
  <2>2. /\ transfer_state' \in TransferStates /\ recovery_required' \in BOOLEAN
        /\ pc' \in {"idle", "waiting"} /\ mode' \in {mode, "finalize"}
    BY <1>14 DEF Stop, Finalize, TypeOK, TransferStates
  <2>3. /\ UNCHANGED <<capture_output_pending, bulb_action_active,
                       bulb_action_timed_fallback, files, loop, image, primary, incomplete,
                       ghosts>>
        /\ bulb_action_stop_requested' = TRUE
    BY <1>14 DEF Stop
  <2>4. LatchTypes' /\ BulbTypes' /\ CallTypes'
    BY <2>2, <2>3 DEF TypeOK, LatchTypes, BulbTypes, CallTypes
  <2> QED
    BY <2>1, <2>3, <2>4, SameTypes, TypesNext
<1>15. CASE CameraStep
  <2>1. CameraTypes'
    <3>1. CASE OffersCandidate
      <4>1. Head(making) \in Image /\ Tail(making) \in Seq(Image)
        BY <3>1, TailIn DEF OffersCandidate, Active, TypeOK
      <4>2. Append(queue, Head(making)) \in Seq(Image)
        BY <4>1, AppendIn DEF TypeOK
      <4> QED
        BY <3>1, <4>1, <4>2 DEF OffersCandidate, TypeOK, CameraTypes
    <3>2. CASE ClosesHeldShutter
      BY <3>2 DEF ClosesHeldShutter, TypeOK, CameraTypes
    <3> QED
      BY <1>15, <3>1, <3>2 DEF CameraStep
  <2>2. UNCHANGED <<latches, bulb, files, call, ghosts>>
    BY <1>15 DEF CameraStep, OffersCandidate, ClosesHeldShutter
  <2> QED
    BY <2>1, <2>2, SameTypes, TypesNext
<1>16. CASE \E m \in {"timed", "start"} : Request(m)
  <2>1. PICK m \in {"timed", "start"} : Request(m)
    BY <1>16
  <2>2. bulb_action_timed_fallback' \in BOOLEAN
    BY <2>1, Zenon DEF Request
  <2>3. /\ UNCHANGED <<camera, latches, bulb_action_active, bulb_action_stop_requested,
                       files, loop, image, primary, incomplete, ghosts>>
        /\ pc' \in {"recovery", "preconditions"} /\ mode' \in {"timed", "start"}
    BY <2>1 DEF Request
  <2>4. BulbTypes' /\ CallTypes'
    BY <2>2, <2>3 DEF TypeOK, BulbTypes, CallTypes
  <2> QED
    BY <2>3, <2>4, SameTypes, TypesNext
<1>17. CASE RefusedStart \/ StopDeferred \/ BulbStop
  <2>1. UNCHANGED <<camera, latches, files, ghosts, bulb_action_active,
                    bulb_action_stop_requested>>
    BY <1>17 DEF RefusedStart, StopDeferred, BulbStop, bulb
  <2>2. bulb_action_timed_fallback' \in BOOLEAN
    BY <1>17 DEF RefusedStart, StopDeferred, BulbStop, bulb, TypeOK
  <2>3. /\ UNCHANGED <<loop, image, primary, incomplete>>
        /\ pc' \in {pc, "recovery", "preconditions", "stop"} /\ mode' \in {mode, "timed"}
    BY <1>17 DEF RefusedStart, StopDeferred, BulbStop, call
  <2>4. BulbTypes' /\ CallTypes'
    BY <2>1, <2>2, <2>3 DEF TypeOK, BulbTypes, CallTypes
  <2> QED
    BY <2>1, <2>4, SameTypes, TypesNext
<1>18. CASE BodyShutter
  BY <1>18, ExposeType, SameTypes, TypesNext DEF BodyShutter
<1>19. CASE Restart
  <2>1. recovery_required' \in BOOLEAN
    BY <1>19, Zenon DEF Restart
  <2>2. LatchTypes' /\ BulbTypes'
    BY <1>19, <2>1 DEF Restart, LatchTypes, BulbTypes, TransferStates
  <2>3. CallTypes' /\ GhostTypes'
    BY <1>19 DEF Restart, TypeOK, CallTypes, GhostTypes, PentaxAssumption
  <2>4. FileTypes' /\ CameraTypes'
    BY <1>19, FilesType, SameTypes DEF Restart
  <2> QED
    BY <2>2, <2>3, <2>4, TypesNext
<1>20. CASE UNCHANGED vars
  BY <1>20, SameTypes, TypesNext DEF vars
<1> QED
  BY <1>1, <1>2, <1>3, <1>4, <1>5, <1>6, <1>7, <1>8, <1>9, <1>10, <1>11, <1>12, <1>13,
     <1>14, <1>15, <1>16, <1>17, <1>18, <1>19, <1>20 DEF Next, CallStep

\* A call that is nowhere near a candidate has none in hand.
LEMMA EmptyHanded ==
  ASSUME pc' \notin {"look", "fetch", "drop", "transfer", "delete", "publish"}
  PROVE  InHand'
BY DEF InHand, Companions

\* The selected candidate stays selected while the camera goes on.
LEMMA InHandStays ==
  ASSUME TypeOK, InHand, UNCHANGED <<call, kept, saved>>,
         queue # <<>> => queue' # <<>> /\ Head(queue') = Head(queue)
  PROVE  InHand'
BY DEF InHand, Companions, Claiming, call

LEMMA InHandStep ==
  ASSUME PentaxAssumption, TypeOK, InHand, [Next]_vars
  PROVE  InHand'
<1>1. CASE RecoveryProbe
  BY <1>1 DEF RecoveryProbe, Recovered, InHand, Companions, Claiming
<1>2. CASE Preconditions
  BY <1>2 DEF Preconditions, Admit, RefusePreconditions, InHand, Companions, Claiming
<1>3. CASE Look
  <2>1. PICK f \in Readings :
          \/ LoopEnds
          \/ f.image # NoImage /\ image' = f.image /\ pc' = "fetch"
          \/ LoopFails
    BY <1>3 DEF Look
  <2>2. UNCHANGED <<queue, loop, primary>> /\ pc = "look"
    BY <1>3 DEF Look, camera
  <2>3. CASE LoopEnds
    BY <2>2, <2>3 DEF LoopEnds, InHand, Companions, Claiming
  <2>4. CASE f.image # NoImage /\ image' = f.image /\ pc' = "fetch"
    BY <2>2, <2>4, FrameImage DEF InHand, Companions, Claiming
  <2>5. CASE LoopFails
    BY <2>2, <2>5 DEF LoopFails, InHand, Companions, Claiming, TypeOK
  <2> QED
    BY <2>1, <2>3, <2>4, <2>5
<1>4. CASE Fetch
  <2>1. UNCHANGED <<queue, loop, image, primary>> /\ pc = "fetch"
    BY <1>4 DEF Fetch, camera
  <2>2. CASE LoopFails
    BY <2>1, <2>2 DEF LoopFails, InHand, Companions, Claiming, TypeOK
  <2>3. CASE /\ pc' = "drop" /\ kept' = kept \cup {image}
             /\ saved' = IF Claiming THEN saved \cup {image} ELSE saved
    BY <2>1, <2>3 DEF InHand, Companions, Claiming
  <2> QED
    BY <1>4, <2>2, <2>3 DEF Fetch
<1>5. CASE Drop
  <2>1. UNCHANGED <<loop, primary>> /\ pc = "drop" /\ (pc' = "look" \/ LoopFails)
    BY <1>5 DEF Drop
  <2> QED
    BY <2>1 DEF LoopFails, InHand, Companions, Claiming, TypeOK
<1>6. CASE Claimed
  BY <1>6, EmptyHanded DEF Claimed, Recovered, Admit, RefusePreconditions
<1>7. CASE Initiate
  BY <1>7, EmptyHanded DEF Initiate
<1>8. CASE Waiting
  BY <1>8 DEF Waiting, InHand, Companions, camera
<1>9. CASE Terminate \/ Verify \/ Publish \/ Stop
  BY <1>9, EmptyHanded
  DEF Terminate, Verify, Publish, Stop, Finalize, LeavePreserving, Leave
<1>10. CASE Transfer
  BY <1>10 DEF Transfer, InHand, Companions, camera, LeavePreserving, Leave
<1>11. CASE Delete
  <2>1. pc = "delete" /\ UNCHANGED primary /\ (pc' = "look" \/ pc' = "idle")
    BY <1>11 DEF Delete, LeavePreserving, Leave
  <2>2. primary \in Image
    BY <2>1, TailIn DEF InHand, TypeOK
  <2> QED
    BY <2>1, <2>2 DEF InHand, Companions
<1>12. CASE CameraStep
  <2>1. CASE OffersCandidate
    <3>1. Head(making) \in Image
      BY <2>1, TailIn DEF OffersCandidate, Active, TypeOK
    <3>2. queue # <<>> => queue' # <<>> /\ Head(queue') = Head(queue)
      BY <2>1, <3>1, AppendIn DEF OffersCandidate, TypeOK
    <3> QED
      BY <2>1, <3>2, InHandStays DEF OffersCandidate, ghosts
  <2>2. CASE ClosesHeldShutter
    BY <2>2, InHandStays DEF ClosesHeldShutter, ghosts
  <2> QED
    BY <1>12, <2>1, <2>2 DEF CameraStep
<1>13. CASE BodyShutter
  BY <1>13, InHandStays DEF BodyShutter, Expose, ghosts
<1>14. CASE (\E m \in {"timed", "start"} : Request(m)) \/ Restart \/ BulbStop
  BY <1>14, EmptyHanded DEF Request, Restart, BulbStop
<1>15. CASE RefusedStart \/ StopDeferred
  BY <1>15, EmptyHanded DEF RefusedStart, StopDeferred, call
<1>16. CASE UNCHANGED vars
  BY <1>16, InHandStays DEF vars, camera, ghosts
<1> QED
  BY <1>1, <1>2, <1>3, <1>4, <1>5, <1>6, <1>7, <1>8, <1>9, <1>10, <1>11, <1>12, <1>13,
     <1>14, <1>15, <1>16 DEF Next, CallStep

LEMMA TypesHold == Spec => [](TypeOK /\ InHand)
<1> USE PentaxAssumption
<1>1. Init => TypeOK /\ InHand
  BY InitType DEF Init, InHand, Companions
<1>2. TypeOK /\ InHand /\ [Next]_vars => TypeOK' /\ InHand'
  BY TypeStep, InHandStep
<1> QED
  BY <1>1, <1>2, PTL DEF Spec

(* Every variable keeps its type, whatever fails and whoever else operates  *)
(* the camera: pentax_capture and the Bulb actions never delete a candidate *)
(* that is not there.                                                       *)
THEOREM TypeCorrect == Spec => []TypeOK
BY TypesHold, PTL

-----------------------------------------------------------------------------
(* What is in sight changes only when the camera exposes.                   *)
LEMMA SameSight ==
  ASSUME UNCHANGED camera
  PROVE  InSight' = InSight /\ UNCHANGED <<exposures, outputs>>
BY DEF InSight, camera

LEMMA OfferKeepsSight ==
  ASSUME TypeOK, OffersCandidate
  PROVE  InSight' = InSight
<1>1. /\ Tail(making) \in Seq(Image) /\ Head(making) \in Image
      /\ ToSet(making) = ToSet(Tail(making)) \cup {Head(making)}
  BY TailIn DEF OffersCandidate, Active, TypeOK
<1>2. ToSet(Append(queue, Head(making))) = ToSet(queue) \cup {Head(making)}
  BY <1>1, AppendIn DEF TypeOK
<1> QED
  BY <1>1, <1>2 DEF OffersCandidate, InSight

LEMMA DeletesFromSight ==
  ASSUME TypeOK, queue # <<>>, DeletesCandidate
  PROVE  InSight = InSight' \cup {Head(queue)}
<1>1. ToSet(queue) = ToSet(Tail(queue)) \cup {Head(queue)}
  BY TailIn DEF TypeOK
<1> QED
  BY <1>1 DEF DeletesCandidate, InSight

LEMMA TerminatesSight ==
  ASSUME Terminated
  PROVE  InSight' \subseteq InSight
BY NothingIn DEF Terminated, InSight

LEMMA ExposesSight ==
  ASSUME PentaxAssumption, TypeOK, NEW hold, Expose(hold)
  PROVE  \E new : /\ InSight' = InSight \cup new
                  /\ new # {} /\ \A i \in new : i.exp = exposures + 1
                  /\ outputs' = [outputs EXCEPT ![exposures + 1] = new]
<1> DEFINE New(n) == [p \in 1..n |-> [exp |-> exposures + 1, part |-> p]]
<1>1. PICK n \in 1..MaxParts : /\ making' = making \o New(n)
                              /\ outputs' = [outputs EXCEPT ![exposures + 1] = ToSet(New(n))]
  BY DEF Expose
<1>2. exposures + 1 \in Exposures
  BY DEF Expose, TypeOK, PentaxAssumption, Exposures
<1>3. \A p \in 1..n : [exp |-> exposures + 1, part |-> p] \in Image
  BY <1>2 DEF Image, PentaxAssumption
<1>4. New(n) \in Seq(Image) /\ Len(New(n)) = n
  BY <1>3 DEF PentaxAssumption
<1>5. \A p \in 1..n : New(n)[p].exp = exposures + 1
  OBVIOUS
<1> HIDE DEF New
<1>6. ToSet(New(n)) # {} /\ \A i \in ToSet(New(n)) : i.exp = exposures + 1
  BY <1>4, <1>5, AmongIn
<1>8. ToSet(making') = ToSet(making) \cup ToSet(New(n))
  BY <1>1, <1>4, JoinIn DEF TypeOK
<1>7. queue' = queue
  BY DEF Expose
<1> QED
  BY <1>1, <1>6, <1>7, <1>8 DEF InSight

LEMMA SightStep ==
  ASSUME PentaxAssumption, TypeOK, InHand, [Next]_vars
  PROVE  \/ /\ InSight' \subseteq InSight /\ UNCHANGED exposures
            /\ mine' = mine \/ (mine' = {} /\ transfer_state' = "IDLE")
         \/ BodyShutter
         \/ Initiate /\ capture_output_pending' /\ Expose(mode = "start")
              /\ mine' = mine \cup {exposures + 1} /\ making = <<>>
<1> USE DEF camera, ghosts
<1>1. UNCHANGED camera => InSight' = InSight /\ UNCHANGED exposures
  BY DEF InSight
<1>2. CASE RecoveryProbe \/ Preconditions \/ Look \/ Fetch \/ Claimed
  BY <1>1, <1>2 DEF RecoveryProbe, Preconditions, Look, Fetch, Claimed
<1>3. CASE Waiting \/ Verify \/ Transfer \/ Publish
  BY <1>1, <1>3 DEF Waiting, Verify, Transfer, Publish
<1>4. CASE Drop \/ Delete
  BY <1>1, <1>4, DeletesFromSight DEF Drop, Delete, InHand, DeletesCandidate
<1>5. CASE Initiate
  <2>1. \/ UNCHANGED <<camera, mine>>
        \/ /\ capture_output_pending' /\ Expose(mode = "start")
           /\ mine' = mine \cup {exposures + 1} /\ making = <<>>
    BY <1>5 DEF Initiate, Fires, Rejected, Active
  <2> QED
    BY <1>1, <1>5, <2>1
<1>6. CASE Terminate
  BY <1>1, <1>6, TerminatesSight DEF Terminate, Terminated
<1>7. CASE Stop
  BY <1>7 DEF Stop, InSight
<1>8. CASE CameraStep
  BY <1>8, OfferKeepsSight DEF CameraStep, OffersCandidate, ClosesHeldShutter, InSight
<1>9. CASE (\E m \in {"timed", "start"} : Request(m)) \/ Restart
  BY <1>1, <1>9 DEF Request, Restart
<1>10. CASE RefusedStart \/ StopDeferred \/ BulbStop
  BY <1>1, <1>10 DEF RefusedStart, StopDeferred, BulbStop
<1>11. CASE UNCHANGED vars
  BY <1>1, <1>11 DEF vars
<1> QED
  BY <1>2, <1>3, <1>4, <1>5, <1>6, <1>7, <1>8, <1>9, <1>10, <1>11 DEF Next, CallStep

LEMMA NumberedStep ==
  ASSUME PentaxAssumption, TypeOK, InHand, Numbered, [Next]_vars
  PROVE  /\ Numbered'
         /\ Unsettled' => Unsettled \/ (Initiate /\ capture_output_pending')
<1>1. exposures \in Nat /\ (\A e \in mine : e \in Nat) /\ (\A i \in InSight : i.exp \in Nat)
  <2>1. InSight \subseteq Image
    BY TypedIn DEF TypeOK, InSight
  <2> QED
    BY <2>1, ImageParts DEF TypeOK, PentaxAssumption, Exposures
<1>2. CASE InSight' \subseteq InSight /\ UNCHANGED exposures /\ (mine' = mine \/ mine' = {})
  BY <1>2 DEF Numbered, Unsettled
<1>3. ASSUME NEW hold, Expose(hold), mine' = mine \/ mine' = mine \cup {exposures + 1}
      PROVE  Numbered' /\ (mine' = mine => (Unsettled' => Unsettled))
  <2>1. PICK new : InSight' = InSight \cup new /\ \A i \in new : i.exp = exposures + 1
    BY <1>3, ExposesSight
  <2>2. exposures' = exposures + 1
    BY <1>3 DEF Expose
  <2> QED
    BY <1>1, <1>3, <2>1, <2>2 DEF Numbered, Unsettled
<1>4. CASE BodyShutter
  BY <1>3, <1>4 DEF BodyShutter, ghosts
<1>5. CASE Initiate /\ capture_output_pending' /\ Expose(mode = "start")
             /\ mine' = mine \cup {exposures + 1}
  BY <1>3, <1>5
<1> QED
  BY <1>2, <1>4, <1>5, SightStep

LEMMA QuietIsSettled ==
  ASSUME PentaxAssumption, TypeOK, NEW f \in Readings, Reason(f) = "none"
  PROVE  ~Unsettled
BY FrameImage, NothingIn DEF Unsettled, InSight

LEMMA OwedStep ==
  ASSUME PentaxAssumption, TypeOK, InHand, Numbered, Owed, [Next]_vars
  PROVE  Owed'
<1>1. Unsettled' => Unsettled \/ (Initiate /\ capture_output_pending')
  BY NumberedStep
<1>2. CASE RecoveryProbe
  <2>1. PICK f \in Readings :
          capture_output_pending' = (capture_output_pending /\ ~Releases(f))
    BY <1>2 DEF RecoveryProbe
  <2>2. pc = "recovery" /\ pc' \notin {"initiate", "publish"}
    BY <1>2 DEF RecoveryProbe, Recovered
  <2>3. Releases(f) => ~Unsettled
    BY QuietIsSettled DEF Releases
  <2>4. ~Initiate
    BY <2>2 DEF Initiate
  <2> QED
    BY <1>1, <2>1, <2>2, <2>3, <2>4, Zenon DEF Owed
<1>3. CASE Preconditions \/ Claimed
  <2>1. \/ \E f \in Readings : Quiet(f)
        \/ capture_output_pending' = capture_output_pending /\ pc' \notin {"initiate", "publish"}
    BY <1>3 DEF Preconditions, Claimed, Recovered, RefusePreconditions
  <2>2. (\E f \in Readings : Quiet(f)) => ~Unsettled
    BY QuietIsSettled DEF Quiet
  <2>3. ~Initiate
    BY <1>3 DEF Initiate, Preconditions, Claimed
  <2> QED
    BY <1>1, <2>1, <2>2, <2>3, Zenon DEF Owed
<1>4. CASE Look
  <2>1. \/ \E f \in Readings : Reason(f) = "none"
        \/ pc' \in {"idle", "fetch"}
        \/ pc' = "publish" /\ incomplete'
    BY <1>4 DEF Look, LoopFails, TypeOK
  <2>2. (\E f \in Readings : Reason(f) = "none") => ~Unsettled
    BY QuietIsSettled
  <2>3. ~Initiate /\ capture_output_pending' = capture_output_pending
    BY <1>4 DEF Initiate, Look
  <2> QED
    BY <1>1, <2>1, <2>2, <2>3, Zenon DEF Owed
<1>5. CASE Fetch \/ Drop
  <2>1. pc' \in {"idle", "look", "drop"} \/ (pc' = "publish" /\ incomplete')
    BY <1>5 DEF Fetch, Drop, LoopFails, TypeOK
  <2>2. ~Initiate /\ capture_output_pending' = capture_output_pending
    BY <1>5 DEF Initiate, Fetch, Drop
  <2> QED
    BY <1>1, <2>1, <2>2, Zenon DEF Owed
<1>6. CASE Initiate
  <2>1. pc = "initiate" /\ pc' \in {"idle", "waiting"}
    BY <1>6 DEF Initiate
  <2> QED
    BY <1>1, <2>1, Zenon DEF Owed
<1>7. CASE Publish
  <2>1. /\ pc = "publish" /\ pc' = "idle"
        /\ capture_output_pending' \in {capture_output_pending, incomplete}
    BY <1>7 DEF Publish, Undischarged, LeavePreserving, Leave
  <2>2. ~Initiate
    BY <2>1 DEF Initiate
  <2> QED
    BY <1>1, <2>1, <2>2 DEF Owed, TypeOK
<1>8. CASE Restart
  BY <1>8 DEF Restart, Owed, Unsettled
<1>9. ASSUME capture_output_pending' = capture_output_pending, ~Initiate,
             \/ pc' \notin {"initiate", "publish"}
             \/ pc' = pc /\ incomplete' = incomplete
      PROVE  Owed'
  <2>1. Unsettled' => Unsettled
    BY <1>1, <1>9
  <2>2. (pc' = "initiate" \/ (pc' = "publish" /\ ~incomplete'))
          => pc = "initiate" \/ (pc = "publish" /\ ~incomplete)
    BY <1>9
  <2>3. Unsettled' => capture_output_pending'
    BY <1>9, <2>1, Zenon DEF Owed
  <2> QED
    BY <2>1, <2>2, <2>3, Zenon DEF Owed
<1>10. CASE Waiting \/ Terminate \/ Verify \/ Transfer \/ Delete \/ Stop
  BY <1>9, <1>10
  DEF Waiting, Terminate, Verify, Transfer, Delete, Stop, Finalize, LeavePreserving,
      Leave, latches, Initiate
<1>11. CASE (\E m \in {"timed", "start"} : Request(m)) \/ RefusedStart \/ StopDeferred \/ BulbStop
  BY <1>9, <1>11 DEF Request, RefusedStart, StopDeferred, BulbStop, latches, call, Initiate
<1>12. CASE CameraStep \/ BodyShutter \/ UNCHANGED vars
  <2>1. UNCHANGED <<capture_output_pending, pc, incomplete>>
    BY <1>12 DEF CameraStep, OffersCandidate, ClosesHeldShutter, BodyShutter, vars,
                 latches, call
  <2>2. CASE ~Initiate
    BY <1>9, <2>1, <2>2
  <2>3. CASE Initiate
    BY <2>1, <2>3 DEF Initiate
  <2> QED
    BY <2>2, <2>3
<1> QED
  BY <1>2, <1>3, <1>4, <1>5, <1>6, <1>7, <1>8, <1>10, <1>11, <1>12 DEF Next, CallStep

LEMMA OwedHolds == Spec => [](Numbered /\ Owed)
<1> USE PentaxAssumption
<1>1. Init => Numbered /\ Owed
  BY NothingIn DEF Init, Numbered, Owed, InSight, Unsettled
<1>2. TypeOK /\ InHand /\ Numbered /\ Owed /\ [Next]_vars => Numbered' /\ Owed'
  BY NumberedStep, OwedStep
<1> QED
  BY <1>1, <1>2, TypesHold, PTL DEF Spec

(* As long as an image of this session is on the camera or in the making,   *)
(* capture_output_pending holds back the next shutter: whatever fails, in   *)
(* whichever order candidates come, and whoever presses the shutter button  *)
(* of the body meanwhile.                                                   *)
THEOREM OutputIsOwed == Spec => []UnsettledIsPending
<1>1. TypeOK /\ Owed => UnsettledIsPending
  BY JoinIn DEF TypeOK, Owed, Unsettled, InSight, UnsettledIsPending
<1> QED
  BY <1>1, TypesHold, OwedHolds, PTL

-----------------------------------------------------------------------------
(* Where an operation stands.                                               *)
LEMMA PlacedStep ==
  ASSUME PentaxAssumption, TypeOK, Placed, [Next]_vars
  PROVE  Placed'
<1> USE DEF Placed, Companions, Claiming
<1>1. CASE RecoveryProbe
  <2>1. PICK f \in Readings :
          /\ capture_output_pending' = (capture_output_pending /\ ~Releases(f))
          /\ \/ pc' = "idle" /\ UNCHANGED loop
             \/ pc' = "preconditions" /\ transfer_state = "IDLE" /\ UNCHANGED loop
             \/ pc' = "look" /\ loop' = "recovery" /\ ~capture_output_pending
    BY <1>1 DEF RecoveryProbe, Recovered, Claimable
  <2>2. UNCHANGED <<transfer_state, bulb, mode>> /\ pc = "recovery"
    BY <1>1 DEF RecoveryProbe
  <2>3. transfer_state # "IDLE" => capture_output_pending'
    BY <2>1 DEF Releases, InFlight
  <2> QED
    BY <2>1, <2>2, <2>3 DEF bulb
<1>2. CASE Preconditions \/ Claimed
  <2>1. /\ pc \in {"preconditions", "claimed"} /\ loop' \in {loop, "preconditions"}
        /\ pc' \in {"idle", "initiate", "look", "preconditions"}
        /\ pc' = "look" => loop' = "preconditions"
    BY <1>2 DEF Preconditions, Claimed, Admit, RefusePreconditions, Recovered
  <2>2. UNCHANGED <<transfer_state, bulb_action_active, mode>>
    BY <1>2 DEF Preconditions, Claimed
  <2> QED
    BY <2>1, <2>2
<1>3. CASE Look \/ Fetch \/ Drop
  <2>1. /\ pc \in {"look", "fetch", "drop"}
        /\ UNCHANGED <<transfer_state, capture_output_pending, bulb, mode, loop>>
    BY <1>3 DEF Look, Fetch, Drop
  <2>2. \/ pc' \in {"look", "fetch", "drop"}
        \/ ~Claiming /\ pc' = "publish"
        \/ Claiming /\ pc' \in {"claimed", "idle"}
    BY <1>3 DEF Look, Fetch, Drop, LoopEnds, LoopFails, TypeOK
  <2> QED
    BY <2>1, <2>2 DEF bulb
<1>4. CASE Initiate
  <2>1. /\ pc' \in {"waiting", "idle"}
        /\ \/ pc' = "waiting" /\ transfer_state' = "WAITING" /\ mode = "timed"
           \/ pc' = "idle" /\ transfer_state' = "TRIGGERED" /\ mode # "timed"
           \/ pc' = "idle" /\ transfer_state' = "IDLE"
        /\ transfer_state' # "IDLE" => capture_output_pending'
        /\ bulb_action_active' <=> transfer_state' # "IDLE" /\ mode = "start"
        /\ mode' = mode
    BY <1>4 DEF Initiate, Rejected
  <2>2. mode \in {"timed", "start"}
    BY <1>4 DEF Initiate, TypeOK
  <2> QED
    BY <2>1, <2>2
<1>5. CASE Waiting \/ Terminate
  <2>1. /\ pc \in {"waiting", "terminate"} /\ pc' \in {"transfer", "verify", "terminate"}
        /\ transfer_state' \in {transfer_state, "TRANSFERRING"}
        /\ UNCHANGED <<capture_output_pending, bulb_action_active, mode>>
    BY <1>5 DEF Waiting, Terminate, latches, bulb
  <2> QED
    BY <2>1
<1>6. ASSUME Leave, UNCHANGED mode, transfer_state \notin {"IDLE", "TRIGGERED"}
      PROVE  Placed'
  <2>1. /\ pc' = "idle" /\ transfer_state' = "IDLE"
        /\ mode = "finalize" => ~bulb_action_active'
        /\ mode # "finalize" => bulb_action_active' = bulb_action_active
    BY <1>6 DEF Leave, ClearBulb, bulb
  <2> QED
    BY <1>6, <2>1
<1>7. CASE Verify \/ Publish
  BY <1>6, <1>7 DEF Verify, Publish, LeavePreserving
<1>8. CASE Transfer
  BY <1>6, <1>8 DEF Transfer, LeavePreserving, bulb
<1>9. CASE Delete
  BY <1>6, <1>9 DEF Delete, LeavePreserving, bulb
<1>10. CASE Stop
  <2>1. /\ pc = "stop" /\ UNCHANGED <<capture_output_pending, bulb_action_active>>
        /\ \/ /\ pc' = "waiting" /\ transfer_state' = "WAITING" /\ mode' = "finalize"
           \/ pc' = "idle" /\ UNCHANGED <<transfer_state, mode>>
    BY <1>10 DEF Stop, Finalize
  <2> QED
    BY <2>1
<1>11. CASE (\E m \in {"timed", "start"} : Request(m)) \/ RefusedStart \/ StopDeferred \/ BulbStop
  <2>1. UNCHANGED <<transfer_state, capture_output_pending, bulb_action_active>>
    BY <1>11 DEF Request, RefusedStart, StopDeferred, BulbStop, latches, bulb
  <2>2. pc = "idle" /\ (pc' \in {"idle", "recovery", "preconditions"} \/ pc' = "stop")
    BY <1>11 DEF Request, RefusedStart, StopDeferred, BulbStop, call
  <2>3. /\ pc' \in {"recovery", "preconditions"} => mode' # "finalize"
        /\ pc' = "preconditions" => transfer_state = "IDLE"
        /\ pc' = "stop" => transfer_state = "TRIGGERED"
    BY <1>11 DEF Request, RefusedStart, StopDeferred, BulbStop, call
  <2> QED
    BY <2>1, <2>2, <2>3
<1>12. CASE CameraStep \/ BodyShutter \/ UNCHANGED vars
  <2>1. UNCHANGED <<latches, bulb, call>>
    BY <1>12 DEF CameraStep, OffersCandidate, ClosesHeldShutter, BodyShutter, vars
  <2> QED
    BY <2>1 DEF latches, bulb, call
<1>13. CASE Restart
  BY <1>13 DEF Restart
<1> QED
  BY <1>1, <1>2, <1>3, <1>4, <1>5, <1>7, <1>8, <1>9, <1>10, <1>11, <1>12, <1>13
  DEF Next, CallStep

LEMMA PlacedHolds == Spec => []Placed
<1> USE PentaxAssumption
<1>1. Init => Placed
  BY DEF Init, Placed, Companions
<1>2. TypeOK /\ Placed /\ [Next]_vars => Placed'
  BY PlacedStep
<1> QED
  BY <1>1, <1>2, TypesHold, PTL DEF Spec

(* Between calls an operation is in flight exactly for a Bulb action that   *)
(* has started, and it owes an image: the stop action always finds it, and  *)
(* no call is refused for an operation that has ended.                      *)
THEOREM FlightAtRest == Spec => []FlightIsBulb
<1>1. TypeOK /\ Placed => FlightIsBulb
  BY DEF TypeOK, Placed, FlightIsBulb
<1> QED
  BY <1>1, TypesHold, PlacedHolds, PTL

-----------------------------------------------------------------------------
(* The order of the files of an exposure.                                   *)
LEMMA OrderlyTail ==
  ASSUME PentaxAssumption, NEW s \in Seq(Image), s # <<>>, Orderly(s)
  PROVE  /\ Orderly(Tail(s))
         /\ \A y \in ToSet(Tail(s)) : y.exp = Head(s).exp => Head(s).part < y.part
<1>1. /\ Tail(s) \in Seq(Image) /\ Head(s) = s[1] /\ 1 \in 1..Len(s) /\ Len(s) \in Nat
      /\ Len(Tail(s)) = Len(s) - 1
      /\ \A i \in 1..Len(Tail(s)) : Tail(s)[i] = s[i + 1] /\ i + 1 \in 1..Len(s)
  BY TailParts
<1>2. ASSUME NEW i \in 1..Len(Tail(s)), NEW j \in 1..Len(Tail(s)), i < j,
             Tail(s)[i].exp = Tail(s)[j].exp
      PROVE  Tail(s)[i].part < Tail(s)[j].part
  BY <1>1, <1>2 DEF Orderly
<1>3. ASSUME NEW y \in ToSet(Tail(s)), y.exp = Head(s).exp
      PROVE  Head(s).part < y.part
  <2>1. PICK i \in 1..Len(Tail(s)) : y = Tail(s)[i]
    BY <1>1, AmongIn
  <2>2. y = s[i + 1] /\ i + 1 \in 1..Len(s) /\ 1 < i + 1
    BY <1>1, <2>1
  <2> QED
    BY <1>1, <1>3, <2>2 DEF Orderly
<1> QED
  BY <1>2, <1>3 DEF Orderly

LEMMA OrderlyAppend ==
  ASSUME PentaxAssumption, NEW s \in Seq(Image), NEW x \in Image, Orderly(s),
         \A y \in ToSet(s) : y.exp = x.exp => y.part < x.part
  PROVE  Orderly(Append(s, x))
<1>1. /\ Len(Append(s, x)) = Len(s) + 1 /\ Len(s) \in Nat
      /\ \A i \in 1..Len(s) : Append(s, x)[i] = s[i] /\ s[i] \in ToSet(s)
      /\ Append(s, x)[Len(s) + 1] = x
  BY AmongIn
<1>2. ASSUME NEW i \in 1..Len(Append(s, x)), NEW j \in 1..Len(Append(s, x)), i < j,
             Append(s, x)[i].exp = Append(s, x)[j].exp
      PROVE  Append(s, x)[i].part < Append(s, x)[j].part
  <2>1. i \in 1..Len(s)
    BY <1>1, <1>2
  <2>2. CASE j \in 1..Len(s)
    BY <1>1, <1>2, <2>1, <2>2 DEF Orderly
  <2>3. CASE j = Len(s) + 1
    BY <1>1, <1>2, <2>1, <2>3
  <2> QED
    BY <1>1, <2>2, <2>3
<1> QED
  BY <1>2 DEF Orderly

LEMMA NothingOrderly == Orderly(<<>>)
BY DEF Orderly

LEMMA AscendingExposes ==
  ASSUME PentaxAssumption, TypeOK, Numbered, Ascending, NEW hold, Expose(hold), making = <<>>
  PROVE  Ascending'
<1> DEFINE New(n) == [p \in 1..n |-> [exp |-> exposures + 1, part |-> p]]
<1>1. PICK n \in 1..MaxParts : making' = making \o New(n)
  BY DEF Expose
<1>2. exposures + 1 \in Exposures
  BY DEF Expose, TypeOK, PentaxAssumption, Exposures
<1>3. \A p \in 1..n : [exp |-> exposures + 1, part |-> p] \in Image
  BY <1>2 DEF Image, PentaxAssumption
<1>4. New(n) \in Seq(Image) /\ Len(New(n)) = n /\ n \in Nat
  BY <1>3 DEF PentaxAssumption
<1>5. making' = New(n)
  BY <1>1, <1>4
<1>6. Orderly(New(n))
  BY <1>4 DEF Orderly
<1>7. \A p \in 1..n : New(n)[p].exp = exposures + 1
  OBVIOUS
<1> HIDE DEF New
<1>8. \A j \in ToSet(New(n)) : j.exp = exposures + 1
  BY <1>4, <1>7, AmongIn
<1>9. \A i \in ToSet(queue) : i.exp \in Nat /\ i.exp <= exposures
  <2>1. ToSet(queue) \subseteq Image
    BY TypedIn DEF TypeOK
  <2> QED
    BY <2>1, ImageParts DEF Numbered, InSight
<1>10. exposures \in Nat
  BY DEF TypeOK
<1>11. \A i \in ToSet(queue), j \in ToSet(New(n)) : i.exp # j.exp
  BY <1>9, <1>10, <1>8
<1>12. queue' = queue
  BY DEF Expose
<1> QED
  BY <1>5, <1>6, <1>11, <1>12 DEF Ascending

LEMMA AscendingStep ==
  ASSUME PentaxAssumption, TypeOK, InHand, Numbered, Ascending, [Next]_vars
  PROVE  Ascending'
<1> USE DEF camera
<1>1. UNCHANGED <<making, queue>> => Ascending'
  BY DEF Ascending
<1>2. CASE RecoveryProbe \/ Preconditions \/ Look \/ Fetch \/ Claimed
  BY <1>1, <1>2 DEF RecoveryProbe, Preconditions, Look, Fetch, Claimed
<1>3. CASE Waiting \/ Verify \/ Transfer \/ Publish \/ Stop \/ Restart
  BY <1>1, <1>3 DEF Waiting, Verify, Transfer, Publish, Stop, Restart
<1>4. CASE Drop \/ Delete
  <2>1. CASE DeletesCandidate
    <3>1. /\ queue # <<>> /\ queue' = Tail(queue) /\ making' = making
      BY <1>4, <2>1 DEF Drop, Delete, InHand, DeletesCandidate
    <3>2. Orderly(Tail(queue)) /\ ToSet(Tail(queue)) \subseteq ToSet(queue)
      BY <3>1, OrderlyTail, TailIn DEF Ascending, TypeOK
    <3> QED
      BY <3>1, <3>2 DEF Ascending
  <2> QED
    BY <1>1, <1>4, <2>1 DEF Drop, Delete
<1>5. CASE Initiate
  BY <1>1, <1>5, AscendingExposes DEF Initiate, Fires, Active
<1>6. CASE Terminate
  BY <1>1, <1>6, NothingOrderly, NothingIn DEF Terminate, Terminated, Ascending
<1>7. CASE OffersCandidate
  <2>1. making # <<>> /\ queue' = Append(queue, Head(making)) /\ making' = Tail(making)
    BY <1>7 DEF OffersCandidate, Active
  <2>2. /\ Head(making) \in Image /\ Tail(making) \in Seq(Image)
        /\ ToSet(making) = ToSet(Tail(making)) \cup {Head(making)}
    BY <2>1, TailIn DEF TypeOK
  <2>3. /\ Orderly(Tail(making))
        /\ \A y \in ToSet(Tail(making)) : y.exp = Head(making).exp => Head(making).part < y.part
    BY <2>1, OrderlyTail DEF Ascending, TypeOK
  <2>4. \A i \in ToSet(queue), j \in ToSet(making) : i.exp = j.exp => i.part < j.part
    BY DEF Ascending
  <2>5. Orderly(Append(queue, Head(making)))
    BY <2>2, <2>4, OrderlyAppend DEF Ascending, TypeOK
  <2>6. ToSet(Append(queue, Head(making))) = ToSet(queue) \cup {Head(making)}
    BY <2>2, AppendIn DEF TypeOK
  <2>7. \A i \in ToSet(queue'), j \in ToSet(making') : i.exp = j.exp => i.part < j.part
    BY <2>1, <2>2, <2>3, <2>4, <2>6
  <2> QED
    BY <2>1, <2>3, <2>5, <2>7 DEF Ascending
<1>8. CASE ClosesHeldShutter
  BY <1>1, <1>8 DEF ClosesHeldShutter
<1>9. CASE (\E m \in {"timed", "start"} : Request(m)) \/ RefusedStart \/ StopDeferred
            \/ BulbStop
  BY <1>1, <1>9 DEF Request, RefusedStart, StopDeferred, BulbStop
<1>10. CASE BodyShutter
  BY <1>10, AscendingExposes DEF BodyShutter, Active
<1>11. CASE UNCHANGED vars
  BY <1>1, <1>11 DEF vars
<1> QED
  BY <1>2, <1>3, <1>4, <1>5, <1>6, <1>7, <1>8, <1>9, <1>10, <1>11
  DEF Next, CallStep, CameraStep

\* The files of its exposure that are left come after the one that is deleted.
LEMMA AfterHead ==
  ASSUME PentaxAssumption, TypeOK, Ascending, queue # <<>>, DeletesCandidate
  PROVE  \A i \in InSight' : i.exp = Head(queue).exp => i.part > Head(queue).part
<1>1. queue' = Tail(queue) /\ making' = making
  BY DEF DeletesCandidate
<1>2. Head(queue) \in ToSet(queue) /\ Head(queue) \in Image
  BY TailIn DEF TypeOK
<1>3. InSight \subseteq Image
  BY TypedIn DEF TypeOK, InSight
<1>4. \A i \in ToSet(Tail(queue)) : i.exp = Head(queue).exp => Head(queue).part < i.part
  BY OrderlyTail DEF Ascending, TypeOK
<1>5. \A i \in ToSet(making) : i.exp = Head(queue).exp => Head(queue).part < i.part
  BY <1>2 DEF Ascending
<1>6. \A i \in InSight' : i \in Image
  BY <1>1, <1>3, DeletesFromSight
<1> QED
  BY <1>1, <1>2, <1>4, <1>5, <1>6, ImageParts DEF InSight

-----------------------------------------------------------------------------
(* There is room for the files of an exposure, so none is deleted in vain.  *)
LEMMA RoomElsewhere ==
  ASSUME pc' \notin {"initiate", "waiting", "transfer", "delete", "look", "fetch", "drop",
                     "publish"},
         transfer_state' # "TRIGGERED"
           \/ (transfer_state = "TRIGGERED" /\ UNCHANGED publications), Room
  PROVE  Room'
BY DEF Room, Companions

LEMMA RoomStays ==
  ASSUME PentaxAssumption, TypeOK, InHand, Numbered, Room,
         UNCHANGED <<transfer_state, publications, pc, loop, image, primary>>,
         \/ InSight' \subseteq InSight /\ UNCHANGED exposures
         \/ \E hold : Expose(hold)
  PROVE  Room'
<1>1. /\ exposures \in Nat /\ exposures' \in {exposures, exposures + 1}
      /\ pc = "publish" \/ Companions => primary.exp \in Nat
  BY ImageParts DEF TypeOK, InHand, Expose
<1>2. /\ pc = "publish" \/ Companions => primary.exp <= exposures'
  BY <1>1 DEF Room
<1>3. ASSUME pc \in {"look", "fetch"}, ~Claiming, NEW i \in InSight', i.exp = primary.exp
      PROVE  i \in InSight
  <2>1. i \in InSight \/ i.exp = exposures + 1
    BY ExposesSight
  <2> QED
    BY <1>1, <1>3, <2>1 DEF Room, Companions
<1> QED
  BY <1>2, <1>3 DEF Room, Companions, Claiming

LEMMA RoomStep ==
  ASSUME PentaxAssumption, TypeOK, InHand, Numbered, Ascending, Placed, Room, [Next]_vars
  PROVE  Room'
<1>0. /\ InSight \subseteq Image /\ exposures \in Nat /\ MaxParts \in Nat \ {0}
      /\ Len(publications) \in Nat
  BY TypedIn DEF TypeOK, InSight, PentaxAssumption
<1>1. CASE RecoveryProbe
  BY <1>1 DEF RecoveryProbe, Recovered, Room, Companions, Claiming, files
<1>2. CASE Preconditions \/ Claimed
  BY <1>2
  DEF Preconditions, Claimed, Admit, RefusePreconditions, Recovered, Placed, Room,
      Companions, Claiming
<1>3. CASE Look
  <2>1. /\ pc = "look" /\ UNCHANGED <<transfer_state, loop, primary, exposures>>
        /\ InSight' = InSight
    BY <1>3, SameSight DEF Look, camera
  <2>2. CASE Claiming
    <3>1. transfer_state = "IDLE" /\ pc' \in {"claimed", "fetch", "idle"}
      BY <1>3, <2>1, <2>2 DEF Look, LoopEnds, LoopFails, Placed, TypeOK, Claiming
    <3> QED
      BY <2>1, <2>2, <3>1 DEF Room, Companions, Claiming
  <2>3. CASE ~Claiming
    <3>1. /\ transfer_state \notin {"IDLE", "TRIGGERED"} /\ UNCHANGED publications
          /\ pc' = "publish" \/ (pc' = "fetch" /\ image'.exp = primary.exp)
      BY <1>3, <2>1, <2>3
      DEF Look, LoopEnds, LoopFails, Placed, Companions, Claiming, IsOwned, files
    <3> QED
      BY <2>1, <2>3, <3>1 DEF Room, Companions, Claiming
  <2> QED
    BY <2>2, <2>3
<1>4. CASE Fetch
  <2>1. /\ pc = "fetch" /\ UNCHANGED <<transfer_state, loop, primary, exposures, image>>
        /\ InSight' = InSight
    BY <1>4, SameSight DEF Fetch, camera
  <2>2. CASE Claiming
    <3>1. transfer_state = "IDLE" /\ pc' \in {"drop", "idle"}
      BY <1>4, <2>1, <2>2 DEF Fetch, LoopFails, Placed, TypeOK, Claiming
    <3> QED
      BY <2>1, <2>2, <3>1 DEF Room, Companions, Claiming
  <2>3. CASE ~Claiming
    <3>1. /\ transfer_state \notin {"IDLE", "TRIGGERED"}
          /\ \/ pc' = "publish" /\ UNCHANGED publications
             \/ pc' = "drop" /\ Publishes(image)
      BY <1>4, <2>1, <2>3 DEF Fetch, LoopFails, Placed, Companions, Claiming, files
    <3>2. /\ image \in InSight /\ image \in Image /\ image.exp = primary.exp
          /\ image.part >= Len(publications) + 2 /\ image.part <= MaxParts
          /\ image.part \in Nat
      <4>1. image \in InSight /\ image \in Image
        BY <2>1, TailIn DEF InHand, TypeOK, InSight
      <4> QED
        BY <2>1, <2>3, <4>1, ImageParts DEF Room
    <3>3. CASE pc' = "publish" /\ UNCHANGED publications
      BY <2>1, <2>3, <3>1, <3>3 DEF Room, Companions, Claiming
    <3>4. CASE pc' = "drop" /\ Publishes(image)
      <4>1. Len(publications') = Len(publications) + 1
        BY <3>2, <3>4, AppendIn DEF Publishes, TypeOK
      <4> QED
        BY <1>0, <2>1, <2>3, <3>1, <3>2, <3>4, <4>1 DEF Room, Companions, Claiming
    <3> QED
      BY <3>1, <3>3, <3>4
  <2> QED
    BY <2>2, <2>3
<1>5. CASE Drop
  <2>1. /\ pc = "drop" /\ UNCHANGED <<transfer_state, loop, primary, image, publications>>
        /\ UNCHANGED exposures
    BY <1>5 DEF Drop, DeletesCandidate, camera, files
  <2>2. CASE Claiming
    <3>1. transfer_state = "IDLE" /\ pc' \in {"look", "idle"}
      BY <1>5, <2>1, <2>2 DEF Drop, LoopFails, Placed, TypeOK, Claiming
    <3> QED
      BY <2>1, <2>2, <3>1 DEF Room, Companions, Claiming
  <2>3. CASE ~Claiming
    <3>1. /\ transfer_state \notin {"IDLE", "TRIGGERED"}
          /\ pc' = "publish" \/ (pc' = "look" /\ DeletesCandidate)
      BY <1>5, <2>1, <2>3 DEF Drop, DropResponses, LoopFails, Placed, Companions, Claiming
    <3>2. CASE pc' = "publish"
      BY <2>1, <2>3, <3>1, <3>2 DEF Room, Companions, Claiming
    <3>3. CASE pc' = "look" /\ DeletesCandidate
      <4>1. \A i \in InSight' : i.exp = image.exp => i.part > image.part
        BY <2>1, <3>3, AfterHead DEF InHand
      <4>2. InSight' \subseteq Image /\ image \in Image
        BY <1>0, <2>1, <3>3, DeletesFromSight, TailIn DEF InHand, TypeOK
      <4>3. image.exp = primary.exp /\ image.part > Len(publications)
        BY <2>1, <2>3 DEF Room
      <4>4. \A i \in InSight' : i.exp = primary.exp => i.part >= Len(publications) + 2
        BY <1>0, <4>1, <4>2, <4>3, ImageParts
      <4> QED
        BY <2>1, <2>3, <3>1, <3>3, <4>4 DEF Room, Companions, Claiming
    <3> QED
      BY <3>1, <3>2, <3>3
  <2> QED
    BY <2>2, <2>3
<1>6. CASE Initiate
  BY <1>6 DEF Initiate, Room, Companions, files
<1>7. CASE Waiting
  BY <1>7 DEF Waiting, Room, Placed, Companions, files
<1>8. CASE Terminate
  BY <1>8, RoomElsewhere DEF Terminate, latches, files, Placed
<1>9. CASE Verify \/ Publish \/ Restart
  BY <1>9, RoomElsewhere DEF Verify, Publish, LeavePreserving, Leave, Restart
<1>10. CASE Transfer
  BY <1>10, RoomElsewhere
  DEF Transfer, Room, Companions, files, LeavePreserving, Leave
<1>11. CASE Delete
  <2>1. CASE pc' = "look" /\ loop' = "companions" /\ DeletesCandidate
    <3>1. /\ pc = "delete" /\ UNCHANGED <<transfer_state, publications, primary>>
          /\ transfer_state # "TRIGGERED" /\ publications = <<>>
          /\ UNCHANGED exposures
      BY <1>11, <2>1 DEF Delete, DeletesCandidate, Room, Placed, files, LeavePreserving, Leave
    <3>2. primary = image /\ image = Head(queue) /\ queue # <<>>
      BY <3>1 DEF InHand
    <3>3. image \in InSight /\ image \in Image
      BY <3>2, TailIn DEF TypeOK, InSight
    <3>4. \A i \in InSight' : i.exp = primary.exp => i.part > primary.part
      BY <2>1, <3>2, AfterHead
    <3>5. InSight' \subseteq Image
      BY <1>0, <2>1, <3>2, DeletesFromSight
    <3>6. /\ Len(publications') = 0 /\ Len(publications') < MaxParts
          /\ primary'.exp <= exposures'
          /\ \A i \in InSight' : i.exp = primary'.exp => i.part >= Len(publications') + 2
      <4>1. Len(publications') = 0
        BY <3>1
      <4>2. \A i \in InSight' : i.exp = primary.exp => i.part >= 2
        BY <3>2, <3>3, <3>4, <3>5, ImageParts
      <4>3. primary.exp <= exposures
        BY <3>2, <3>3 DEF Numbered
      <4> QED
        BY <1>0, <3>1, <4>1, <4>2, <4>3
    <3> QED
      BY <2>1, <3>1, <3>6 DEF Room, Companions, Claiming
  <2>2. CASE LeavePreserving
    BY <2>2, RoomElsewhere DEF LeavePreserving, Leave
  <2>3. (pc' = "look" /\ loop' = "companions" /\ DeletesCandidate) \/ LeavePreserving
    BY <1>11 DEF Delete, DropResponses
  <2> QED
    BY <2>1, <2>2, <2>3
<1>12. CASE Stop
  <2>1. /\ pc = "stop" /\ transfer_state = "TRIGGERED" /\ UNCHANGED publications
        /\ pc' \in {"waiting", "idle"}
    BY <1>12 DEF Stop, Finalize, Placed, files
  <2> QED
    BY <2>1 DEF Room, Companions
<1>13. CASE CameraStep
  <2>1. InSight' = InSight /\ UNCHANGED exposures
    BY <1>13, OfferKeepsSight DEF CameraStep, OffersCandidate, ClosesHeldShutter, InSight
  <2>2. UNCHANGED <<publications, transfer_state, pc, loop, image, primary>>
    BY <1>13 DEF CameraStep, OffersCandidate, ClosesHeldShutter, latches, files, call
  <2> QED
    BY <2>1, <2>2, RoomStays
<1>14. CASE (\E m \in {"timed", "start"} : Request(m)) \/ RefusedStart \/ StopDeferred
             \/ BulbStop
  <2>1. pc' \in {"idle", "recovery", "preconditions", "stop"}
    BY <1>14 DEF Request, RefusedStart, StopDeferred, BulbStop, call
  <2>2. UNCHANGED <<transfer_state, publications>>
    BY <1>14 DEF Request, RefusedStart, StopDeferred, BulbStop, latches, files
  <2> QED
    BY <2>1, <2>2, RoomElsewhere
<1>15. CASE BodyShutter
  <2>1. UNCHANGED <<publications, transfer_state, pc, loop, image, primary>>
    BY <1>15 DEF BodyShutter, latches, files, call
  <2> QED
    BY <1>15, <2>1, RoomStays DEF BodyShutter
<1>16. CASE UNCHANGED vars
  <2>1. InSight' = InSight /\ UNCHANGED exposures
    BY <1>16, SameSight DEF vars, camera
  <2>2. UNCHANGED <<publications, transfer_state, pc, loop, image, primary>>
    BY <1>16 DEF vars, latches, files, call
  <2> QED
    BY <2>1, <2>2, RoomStays
<1> QED
  BY <1>1, <1>2, <1>3, <1>4, <1>5, <1>6, <1>7, <1>8, <1>9, <1>10, <1>11, <1>12,
     <1>13, <1>14, <1>15, <1>16 DEF Next, CallStep

LEMMA AccountedStep ==
  ASSUME PentaxAssumption, MaxParts <= MaxPublications,
         {"publish", "delete_lost", "restart"} \cap Faults = {},
         TypeOK, InHand, Room, Accounted, [Next]_vars
  PROVE  Accounted'
<1>0. ASSUME UNCHANGED deleted, kept \subseteq kept', Taken \subseteq Taken'
      PROVE  Accounted'
  BY <1>0 DEF Accounted
<1>1. CASE Look \/ Fetch
  <2>1. /\ pc \in {"look", "fetch"} /\ UNCHANGED <<deleted, primary, loop>>
        /\ kept \subseteq kept'
    BY <1>1 DEF Look, Fetch, ghosts
  <2>2. ~Claiming => pc' \in {"look", "fetch", "drop", "publish"}
    BY <1>1 DEF Look, Fetch, LoopEnds, LoopFails, Claiming
  <2>3. Taken \subseteq Taken'
    BY <2>1, <2>2 DEF Taken, Companions, Claiming
  <2> QED
    BY <1>0, <2>1, <2>3
<1>2. CASE Drop
  <2>1. /\ pc = "drop" /\ UNCHANGED <<primary, loop, kept>>
        /\ deleted' = deleted \/ deleted' = deleted \cup {image}
    BY <1>2 DEF Drop, DeletesCandidate, InHand
  <2>2. ~Claiming => pc' \in {"look", "publish"}
    BY <1>2 DEF Drop, LoopFails, Claiming
  <2>3. Taken \subseteq Taken'
    BY <2>1, <2>2 DEF Taken, Companions, Claiming
  <2> QED
    BY <2>1, <2>3 DEF Accounted, InHand
<1>3. CASE Delete
  <2>1. Taken = {} /\ kept' = kept
    BY <1>3 DEF Delete, Taken, Companions
  <2>2. CASE pc' = "look" /\ loop' = "companions" /\ DeletesCandidate
    <3>1. Taken' = {Head(queue)} /\ deleted' = deleted \cup {Head(queue)}
      BY <1>3, <2>2 DEF Delete, DeletesCandidate, InHand, Taken, Companions, Claiming
    <3> QED
      BY <2>1, <3>1 DEF Accounted
  <2>3. CASE UNCHANGED deleted
    BY <1>0, <2>1, <2>3
  <2>4. (pc' = "look" /\ loop' = "companions" /\ DeletesCandidate) \/ UNCHANGED deleted
    BY <1>3 DEF Delete, DropResponses
  <2> QED
    BY <2>2, <2>3, <2>4
<1>4. CASE Publish
  <2>1. Len(publications) # MaxPublications
    BY <1>4 DEF Publish, Room, TypeOK, PentaxAssumption
  <2>2. kept' = kept \cup {primary} /\ UNCHANGED deleted
    BY <1>4, <2>1 DEF Publish
  <2>3. Taken = {primary}
    BY <1>4 DEF Publish, Taken
  <2> QED
    BY <2>2, <2>3 DEF Accounted
<1>5. ASSUME UNCHANGED <<deleted, kept>>,
             pc \notin {"look", "fetch", "drop", "publish"} \/ UNCHANGED <<pc, loop, primary>>
      PROVE  Accounted'
  BY <1>0, <1>5 DEF Taken, Companions, Claiming
<1>6. CASE RecoveryProbe \/ Preconditions \/ Claimed
  BY <1>5, <1>6 DEF RecoveryProbe, Preconditions, Claimed, ghosts
<1>7. CASE Initiate \/ Waiting \/ Terminate \/ Verify \/ Transfer \/ Stop
  BY <1>5, <1>7 DEF Initiate, Waiting, Terminate, Verify, Transfer, Stop, ghosts
<1>8. CASE (\E m \in {"timed", "start"} : Request(m)) \/ RefusedStart \/ StopDeferred
            \/ BulbStop
  BY <1>5, <1>8 DEF Request, RefusedStart, StopDeferred, BulbStop, ghosts
<1>9. CASE CameraStep \/ BodyShutter \/ UNCHANGED vars
  <2>1. UNCHANGED <<call, ghosts>>
    BY <1>9 DEF CameraStep, OffersCandidate, ClosesHeldShutter, BodyShutter, vars
  <2> QED
    BY <1>5, <2>1 DEF call, ghosts
<1>10. CASE Restart
  BY <1>10 DEF Restart
<1> QED
  BY <1>1, <1>2, <1>3, <1>4, <1>6, <1>7, <1>8, <1>9, <1>10 DEF Next, CallStep

LEMMA RoomHolds == Spec => [](Ascending /\ Room)
<1> USE PentaxAssumption
<1>1. Init => Ascending /\ Room
  BY NothingIn, NothingOrderly DEF Init, Ascending, Room, Companions
<1>2. TypeOK /\ InHand /\ Numbered /\ Placed /\ Ascending /\ Room /\ [Next]_vars
        => Ascending' /\ Room'
  BY AscendingStep, RoomStep
<1> QED
  BY <1>1, <1>2, TypesHold, OwedHolds, PlacedHolds, PTL DEF Spec

(* Between calls nothing is lost that the host had the camera delete, the   *)
(* primary included, which is deleted before it is published: there is a    *)
(* slot for each file of its exposure.  The process must live and its       *)
(* filesystem take the file, and no answer to a deletion be lost.           *)
THEOREM NoneDeletedInVain ==
  ASSUME MaxParts <= MaxPublications,
         {"publish", "delete_lost", "restart"} \cap Faults = {}
  PROVE  Spec => []DeletedIsKept
<1> USE PentaxAssumption
<1>1. Init => Accounted
  BY DEF Init, Accounted
<1>2. TypeOK /\ InHand /\ Room /\ Accounted /\ [Next]_vars => Accounted'
  BY AccountedStep
<1>3. Accounted => DeletedIsKept
  BY DEF Accounted, DeletedIsKept, Taken, Companions
<1> QED
  BY <1>1, <1>2, <1>3, TypesHold, RoomHolds, PTL DEF Spec

-----------------------------------------------------------------------------
(* What a capture delivers.                                                 *)
\* An operation takes off with a shutter that the camera accepted.
LEMMA TakesOff ==
  ASSUME Placed, [Next]_vars, transfer_state = "IDLE", transfer_state' # "IDLE"
  PROVE  Initiate /\ Fires(mode = "start") /\ capture_output_pending' /\ pc = "initiate"
<1> USE DEF Placed, latches
<1>1. CASE Initiate
  BY <1>1 DEF Initiate, Rejected
<1>2. CASE RecoveryProbe \/ Preconditions \/ Look \/ Fetch \/ Drop \/ Claimed
  BY <1>2 DEF RecoveryProbe, Preconditions, Look, Fetch, Drop, Claimed
<1>3. CASE Waiting \/ Terminate \/ Verify \/ Transfer \/ Delete \/ Publish \/ Stop
  BY <1>3 DEF Waiting, Terminate, Verify, Transfer, Delete, Publish, Stop
<1>4. CASE (\E m \in {"timed", "start"} : Request(m)) \/ Restart \/ BulbStop
            \/ RefusedStart \/ StopDeferred
  BY <1>4 DEF Request, Restart, BulbStop, RefusedStart, StopDeferred
<1>5. CASE CameraStep \/ BodyShutter \/ UNCHANGED vars
  BY <1>5 DEF CameraStep, OffersCandidate, ClosesHeldShutter, BodyShutter, vars
<1> QED
  BY <1>1, <1>2, <1>3, <1>4, <1>5 DEF Next, CallStep

LEMMA TakeOffSight ==
  ASSUME PentaxAssumption, TypeOK, Fires(mode = "start")
  PROVE  /\ own' = exposures + 1 /\ own' \in Exposures /\ own' \in mine'
         /\ exposures' = exposures + 1
         /\ \E new : /\ InSight' = InSight \cup new
                     /\ new # {} /\ \A i \in new : i.exp = own'
                     /\ outputs'[own'] = new
<1>1. Expose(mode = "start") /\ own' = exposures + 1 /\ mine' = mine \cup {exposures + 1}
  BY DEF Fires
<1>2. PICK new : /\ InSight' = InSight \cup new
                 /\ new # {} /\ \A i \in new : i.exp = exposures + 1
                 /\ outputs' = [outputs EXCEPT ![exposures + 1] = new]
  BY <1>1, ExposesSight
<1>3. exposures + 1 \in Exposures /\ exposures' = exposures + 1
  BY <1>1 DEF Expose, TypeOK, PentaxAssumption, Exposures
<1>4. outputs'[exposures + 1] = new
  BY <1>2, <1>3 DEF TypeOK
<1> QED
  BY <1>1, <1>2, <1>3, <1>4

\* What the books are made of, when none of it moves.
LEMMA BalancedStays ==
  ASSUME Balanced,
         transfer_state' # "IDLE" => transfer_state # "IDLE",
         pc' \notin {"terminate", "verify"} => pc \notin {"terminate", "verify"},
         UNCHANGED <<own, exposures, outputs, publications>>, InSight' = InSight, Taken' = Taken
  PROVE  Balanced'
BY DEF Balanced

LEMMA BalancedStep ==
  ASSUME PentaxAssumption, TypeOK, InHand, Numbered, Placed, Room, Reconciled, Balanced,
         [Next]_vars
  PROVE  Balanced'
<1>0. ASSUME transfer_state' = "IDLE" PROVE Balanced'
  BY <1>0 DEF Balanced
<1>1. CASE transfer_state = "IDLE" /\ transfer_state' # "IDLE"
  <2>1. Initiate /\ Fires(mode = "start") /\ pc = "initiate"
    BY <1>1, TakesOff
  <2>2. /\ own' = exposures + 1 /\ own' \in Exposures /\ exposures' = exposures + 1
    BY <2>1, TakeOffSight
  <2>3. PICK new : /\ InSight' = InSight \cup new /\ new # {} /\ \A i \in new : i.exp = own'
                   /\ outputs'[own'] = new
    BY <2>1, TakeOffSight
  <2>4. publications' = <<>> /\ pc' \in {"waiting", "idle"}
    BY <2>1 DEF Initiate, Room, files
  <2>5. Taken' = {} /\ ToSet(publications') = {}
    BY <2>4, NothingIn DEF Taken, Companions
  <2>6. exposures \in Nat /\ \A i \in InSight : i.exp <= exposures /\ i.exp \in Nat
    <3>1. InSight \subseteq Image
      BY TypedIn DEF TypeOK, InSight
    <3> QED
      BY <3>1, ImageParts DEF TypeOK, PentaxAssumption, Numbered
  <2>7. \A i \in InSight : i.exp # own'
    BY <2>2, <2>6
  <2>8. own' # 0 /\ own' <= exposures'
    BY <2>2, <2>6
  <2> QED
    BY <2>3, <2>5, <2>7, <2>8 DEF Balanced
<1>2. CASE RecoveryProbe
  <2>1. /\ pc = "recovery" /\ UNCHANGED <<own, exposures, outputs, publications, transfer_state>>
        /\ InSight' = InSight
        /\ pc' \in {"idle", "preconditions"} \/ (pc' = "look" /\ loop' = "recovery")
    BY <1>2, SameSight DEF RecoveryProbe, Recovered, files, ghosts
  <2>2. Taken' = Taken
    BY <2>1 DEF Taken, Companions, Claiming
  <2> QED
    BY <2>1, <2>2, BalancedStays
<1>3. CASE Preconditions \/ Claimed
  BY <1>0, <1>3 DEF Preconditions, Claimed, Placed
<1>4. CASE Look /\ transfer_state # "IDLE"
  <2>1. /\ pc = "look" /\ ~Claiming
        /\ UNCHANGED <<own, exposures, outputs, transfer_state, loop, primary>> /\ InSight' = InSight
    BY <1>4, SameSight DEF Look, Placed, ghosts
  <2>2. pc' \in {"fetch", "publish"} /\ UNCHANGED publications
    BY <1>4, <2>1 DEF Look, LoopEnds, LoopFails, Claiming, files
  <2>3. Taken' = Taken
    BY <2>1, <2>2 DEF Taken, Companions, Claiming
  <2> QED
    BY <2>1, <2>2, <2>3, BalancedStays
<1>5. CASE Fetch /\ transfer_state # "IDLE"
  <2>1. /\ pc = "fetch" /\ ~Claiming /\ own # 0
        /\ UNCHANGED <<own, exposures, outputs, transfer_state, loop, primary>> /\ InSight' = InSight
    BY <1>5, SameSight DEF Fetch, Placed, Balanced
  <2>2. pc' \in {"drop", "publish"}
    BY <1>5, <2>1 DEF Fetch, LoopFails, Claiming
  <2>3. Taken' = Taken
    BY <2>1, <2>2 DEF Taken, Companions, Claiming
  <2>4. CASE UNCHANGED publications
    BY <2>1, <2>2, <2>3, <2>4, BalancedStays
  <2>5. CASE Publishes(image)
    <3>1. image \in Image /\ image \in InSight
      BY <2>1, TailIn DEF InHand, TypeOK, InSight
    <3>2. ToSet(publications') = ToSet(publications) \cup {image}
      BY <2>5, <3>1, AppendIn DEF Publishes, TypeOK
    <3> QED
      BY <1>5, <2>1, <2>2, <2>3, <3>1, <3>2 DEF Balanced
  <2> QED
    BY <1>5, <2>4, <2>5 DEF Fetch, files
<1>6. CASE Drop /\ transfer_state # "IDLE"
  <2>1. /\ pc = "drop" /\ ~Claiming /\ own # 0
        /\ UNCHANGED <<own, exposures, outputs, transfer_state, loop, primary, publications>>
    BY <1>6 DEF Drop, Placed, Balanced, DeletesCandidate, camera, files
  <2>2. pc' \in {"look", "publish"}
    BY <1>6, <2>1 DEF Drop, LoopFails, Claiming
  <2>3. Taken' = Taken
    BY <2>1, <2>2 DEF Taken, Companions, Claiming
  <2>4. InSight' = InSight \/ InSight = InSight' \cup {image}
    BY <1>6, <2>1, DeletesFromSight, SameSight DEF Drop, InHand
  <2>5. image \in ToSet(publications)
    BY <2>1 DEF Reconciled
  <2> QED
    BY <1>6, <2>1, <2>2, <2>3, <2>4, <2>5 DEF Balanced
<1>7. CASE Initiate /\ transfer_state # "IDLE"
  BY <1>7 DEF Initiate, Placed
<1>8. CASE Waiting \/ Transfer
  <2>1. /\ pc \in {"waiting", "transfer"} /\ transfer_state # "IDLE"
        /\ UNCHANGED <<own, exposures, outputs, publications>> /\ InSight' = InSight
    BY <1>8, SameSight DEF Waiting, Transfer, Placed, files, ghosts
  <2>2. pc' \in {"transfer", "terminate", "verify", "delete"} \/ transfer_state' = "IDLE"
    BY <1>8 DEF Waiting, Transfer, LeavePreserving, Leave
  <2>3. CASE pc' \in {"transfer", "delete"}
    <3>1. Taken' = Taken
      BY <2>1, <2>3 DEF Taken, Companions
    <3> QED
      BY <2>1, <2>3, <3>1, BalancedStays
  <2>4. CASE pc' \in {"terminate", "verify"}
    BY <2>4 DEF Balanced
  <2> QED
    BY <1>0, <2>2, <2>3, <2>4
<1>9. CASE Terminate
  BY <1>9 DEF Terminate, Balanced
<1>10. CASE Verify \/ Publish
  BY <1>0, <1>10 DEF Verify, Publish, LeavePreserving, Leave
<1>11. CASE Delete
  <2>1. CASE pc' = "look" /\ loop' = "companions" /\ DeletesCandidate
    <3>1. /\ pc = "delete" /\ transfer_state # "IDLE" /\ queue # <<>> /\ Head(queue) = primary
          /\ UNCHANGED <<own, exposures, outputs, publications, primary>>
      BY <1>11, <2>1 DEF Delete, DeletesCandidate, Placed, InHand, files
    <3>2. InSight = InSight' \cup {primary}
      BY <2>1, <3>1, DeletesFromSight
    <3>3. Taken = {} /\ Taken' = {primary}
      BY <2>1, <3>1 DEF Taken, Companions, Claiming
    <3> QED
      BY <2>1, <3>1, <3>2, <3>3 DEF Balanced
  <2> QED
    BY <1>0, <1>11, <2>1 DEF Delete, LeavePreserving, Leave
<1>12. CASE Stop
  <2>1. /\ pc = "stop" /\ transfer_state # "IDLE"
        /\ UNCHANGED <<own, exposures, outputs, publications>> /\ InSight' = InSight
    BY <1>12, SameSight DEF Stop, Placed, files, ghosts, InSight, camera
  <2>2. pc' \in {"waiting", "idle"}
    BY <1>12 DEF Stop, Finalize
  <2>3. Taken' = Taken
    BY <2>1, <2>2 DEF Taken, Companions
  <2> QED
    BY <2>1, <2>2, <2>3, BalancedStays
<1>13. CASE CameraStep
  <2>1. InSight' = InSight
    BY <1>13, OfferKeepsSight DEF CameraStep, OffersCandidate, ClosesHeldShutter, InSight
  <2>2. UNCHANGED <<own, exposures, outputs, publications, transfer_state, pc, loop, primary>>
    BY <1>13
    DEF CameraStep, OffersCandidate, ClosesHeldShutter, latches, files, call, ghosts
  <2>3. Taken' = Taken
    BY <2>2 DEF Taken, Companions, Claiming
  <2> QED
    BY <2>1, <2>2, <2>3, BalancedStays
<1>14. CASE (\E m \in {"timed", "start"} : Request(m)) \/ RefusedStart \/ StopDeferred
             \/ BulbStop
  <2>1. /\ pc = "idle" /\ InSight' = InSight
        /\ UNCHANGED <<own, exposures, outputs, publications, transfer_state>>
    BY <1>14, SameSight
    DEF Request, RefusedStart, StopDeferred, BulbStop, latches, files, ghosts
  <2>2. pc' \in {"idle", "recovery", "preconditions", "stop"}
    BY <1>14 DEF Request, RefusedStart, StopDeferred, BulbStop, call
  <2>3. Taken' = Taken
    BY <2>1, <2>2 DEF Taken, Companions
  <2> QED
    BY <2>1, <2>2, <2>3, BalancedStays
<1>15. CASE BodyShutter
  <2>1. /\ Expose(FALSE) /\ exposures' = exposures + 1
        /\ UNCHANGED <<own, publications, transfer_state, pc, loop, primary>>
    BY <1>15 DEF BodyShutter, Expose, latches, files, call, ghosts
  <2>2. PICK new : /\ InSight' = InSight \cup new /\ \A i \in new : i.exp = exposures + 1
                   /\ outputs' = [outputs EXCEPT ![exposures + 1] = new]
    BY <2>1, ExposesSight
  <2>3. Taken' = Taken
    BY <2>1 DEF Taken, Companions, Claiming
  <2>4. SUFFICES ASSUME transfer_state # "IDLE", pc \notin {"terminate", "verify"}
                 PROVE  Balanced'
    BY <2>1 DEF Balanced
  <2>5. exposures \in Nat /\ own \in Nat /\ own <= exposures /\ own # 0
    BY <2>4 DEF TypeOK, PentaxAssumption, Balanced, Exposures
  <2>6. own # exposures + 1 /\ own <= exposures'
    BY <2>1, <2>5
  <2>7. outputs'[own] = outputs[own]
    BY <2>2, <2>6 DEF TypeOK
  <2> QED
    BY <2>1, <2>2, <2>3, <2>4, <2>5, <2>6, <2>7 DEF Balanced
<1>16. CASE Restart
  BY <1>0, <1>16 DEF Restart
<1>17. CASE UNCHANGED vars
  <2>1. /\ InSight' = InSight /\ UNCHANGED <<own, exposures, outputs, publications, transfer_state>>
        /\ UNCHANGED <<pc, loop, primary>>
    BY <1>17, SameSight DEF vars, latches, files, call, ghosts
  <2>2. Taken' = Taken
    BY <2>1 DEF Taken, Companions, Claiming
  <2> QED
    BY <2>1, <2>2, BalancedStays
<1> QED
  BY <1>0, <1>1, <1>2, <1>3, <1>4, <1>5, <1>6, <1>7, <1>8, <1>9, <1>10, <1>11, <1>12,
     <1>13, <1>14, <1>15, <1>16, <1>17 DEF Next, CallStep

LEMMA ReconciledStep ==
  ASSUME PentaxAssumption, TypeOK, InHand, Placed, Balanced, Reconciled, [Next]_vars
  PROVE  Reconciled'
<1>0. ASSUME pc' \notin {"drop", "publish"} PROVE Reconciled'
  BY <1>0 DEF Reconciled
<1>1. CASE Look
  <2>1. /\ pc' # "drop" /\ InSight' = InSight
        /\ \/ \E f \in Readings : Reason(f) = "none"
           \/ pc' = "publish" => incomplete'
    BY <1>1, SameSight DEF Look, LoopEnds, LoopFails, TypeOK
  <2>2. (\E f \in Readings : Reason(f) = "none") => InSight = {}
    BY FrameImage, NothingIn DEF InSight
  <2> QED
    BY <2>1, <2>2 DEF Reconciled
<1>2. CASE Fetch
  <2>1. CASE Publishes(image) /\ pc' = "drop" /\ UNCHANGED image
    <3>1. image \in Image
      BY <1>2, TailIn DEF Fetch, InHand, TypeOK
    <3>2. image' \in ToSet(publications')
      BY <2>1, <3>1, AppendIn DEF Publishes, TypeOK
    <3> QED
      BY <2>1, <3>2 DEF Reconciled
  <2>2. CASE LoopFails
    BY <2>2 DEF LoopFails, Reconciled, TypeOK
  <2> QED
    BY <1>2, <2>1, <2>2 DEF Fetch
<1>3. CASE Drop
  BY <1>3 DEF Drop, LoopFails, Reconciled, TypeOK
<1>4. CASE RecoveryProbe \/ Preconditions \/ Claimed
  BY <1>0, <1>4
  DEF RecoveryProbe, Preconditions, Claimed, Recovered, Admit, RefusePreconditions
<1>5. CASE Initiate \/ Waiting \/ Terminate \/ Verify \/ Transfer \/ Delete \/ Publish \/ Stop
  BY <1>0, <1>5
  DEF Initiate, Waiting, Terminate, Verify, Transfer, Delete, Publish, Stop, Finalize,
      LeavePreserving, Leave
<1>6. CASE (\E m \in {"timed", "start"} : Request(m)) \/ Restart \/ BulbStop
            \/ RefusedStart \/ StopDeferred
  BY <1>0, <1>6 DEF Request, Restart, BulbStop, RefusedStart, StopDeferred, call
<1>7. CASE CameraStep \/ UNCHANGED vars
  <2>1. InSight' = InSight
    BY <1>7, OfferKeepsSight
    DEF CameraStep, OffersCandidate, ClosesHeldShutter, InSight, vars, camera
  <2>2. UNCHANGED <<pc, incomplete, image, publications, own>>
    BY <1>7
    DEF CameraStep, OffersCandidate, ClosesHeldShutter, vars, call, files, ghosts
  <2> QED
    BY <2>1, <2>2 DEF Reconciled
<1>8. CASE BodyShutter
  <2>1. Expose(FALSE) /\ UNCHANGED <<pc, incomplete, image, publications, own>>
    BY <1>8 DEF BodyShutter, call, files, ghosts
  <2>2. PICK new : InSight' = InSight \cup new /\ \A i \in new : i.exp = exposures + 1
    BY <2>1, ExposesSight
  <2>3. pc = "publish" => own # exposures + 1
    BY DEF Placed, Balanced, TypeOK, PentaxAssumption, Exposures
  <2> QED
    BY <2>1, <2>2, <2>3 DEF Reconciled
<1> QED
  BY <1>1, <1>2, <1>3, <1>4, <1>5, <1>6, <1>7, <1>8 DEF Next, CallStep

LEMMA AlikeStep ==
  ASSUME PentaxAssumption, TypeOK, InHand, Placed, Room, Alike, [Next]_vars
  PROVE  Alike'
<1>0. ASSUME pc' # "publish", ~Companions' PROVE Alike'
  BY <1>0 DEF Alike
<1>1. CASE Look \/ Drop
  <2>1. /\ pc \in {"look", "drop"} /\ UNCHANGED <<loop, primary>>
        /\ Claiming => pc' # "publish"
        /\ ~Claiming => UNCHANGED publications
    BY <1>1 DEF Look, Drop, LoopEnds, LoopFails, Claiming, TypeOK, files
  <2> QED
    BY <2>1 DEF Alike, Companions, Claiming
<1>2. CASE Fetch
  <2>1. pc = "fetch" /\ UNCHANGED <<loop, primary, image>>
    BY <1>2 DEF Fetch
  <2>2. CASE Claiming
    <3>1. pc' # "publish"
      BY <1>2, <2>2 DEF Fetch, LoopFails, Claiming, TypeOK
    <3> QED
      BY <1>0, <2>1, <2>2, <3>1 DEF Companions, Claiming
  <2>3. CASE ~Claiming
    <3>1. image \in Image /\ image.exp = primary.exp
      BY <2>1, <2>3, TailIn DEF InHand, TypeOK, Room
    <3>2. UNCHANGED publications \/ Publishes(image)
      BY <1>2 DEF Fetch, files
    <3>3. ToSet(publications') \subseteq ToSet(publications) \cup {image}
      BY <3>1, <3>2, AppendIn DEF Publishes, TypeOK
    <3> QED
      BY <2>1, <2>3, <3>1, <3>3 DEF Alike, Companions, Claiming
  <2> QED
    BY <2>2, <2>3
<1>3. CASE Delete
  <2>1. pc = "delete" /\ UNCHANGED publications
    BY <1>3 DEF Delete, files
  <2>2. publications' = <<>>
    BY <2>1 DEF Room
  <2> QED
    BY <2>2, NothingIn DEF Alike
<1>4. CASE RecoveryProbe \/ Preconditions \/ Claimed
  BY <1>0, <1>4
  DEF RecoveryProbe, Preconditions, Claimed, Recovered, Admit, RefusePreconditions,
      Companions, Claiming
<1>5. CASE Initiate \/ Waiting \/ Terminate \/ Verify \/ Transfer \/ Publish \/ Stop
  BY <1>0, <1>5
  DEF Initiate, Waiting, Terminate, Verify, Transfer, Publish, Stop, Finalize,
      LeavePreserving, Leave, Companions
<1>6. CASE (\E m \in {"timed", "start"} : Request(m)) \/ Restart \/ BulbStop \/ StopDeferred
  BY <1>0, <1>6 DEF Request, Restart, BulbStop, StopDeferred, Companions
<1>7. CASE CameraStep \/ BodyShutter \/ RefusedStart \/ UNCHANGED vars
  <2>1. UNCHANGED <<pc, loop, primary, publications>>
    BY <1>7
    DEF CameraStep, OffersCandidate, ClosesHeldShutter, BodyShutter, RefusedStart,
        vars, files, call
  <2> QED
    BY <2>1 DEF Alike, Companions, Claiming
<1> QED
  BY <1>1, <1>2, <1>3, <1>4, <1>5, <1>6, <1>7 DEF Next, CallStep

LEMMA BooksHold == Spec => [](Balanced /\ Reconciled /\ Alike)
<1> USE PentaxAssumption
<1> DEFINE I == Balanced /\ Reconciled /\ Alike
<1>1. Init => I
  BY DEF Init, Balanced, Reconciled, Alike, Companions
<1>2. TypeOK /\ InHand /\ Numbered /\ Placed /\ Room /\ I /\ [Next]_vars => I'
  BY BalancedStep, ReconciledStep, AlikeStep
<1> QED
  BY <1>1, <1>2, TypesHold, OwedHolds, PlacedHolds, RoomHolds, PTL DEF Spec

(* A capture that is published, its obligation discharged, has delivered    *)
(* exactly the images of the exposure it made: the primary and every        *)
(* companion, and none of another exposure, although the body's shutter may *)
(* have been pressed at any moment: then the basename tells them apart, or  *)
(* the capture is reported as incomplete.                                   *)
THEOREM DeliversExposure == Spec => SuccessDeliversExposure
<1> USE PentaxAssumption
<1> DEFINE A == pc = "publish" /\ primary' \in ToSet(publications') /\ ~capture_output_pending'
                  => ToSet(publications') = OutputsOf(own)
<1>1. TypeOK /\ InHand /\ Placed /\ Balanced /\ Reconciled /\ Alike /\ [Next]_vars => [A]_vars
  <2> SUFFICES ASSUME TypeOK, InHand, Placed, Balanced, Reconciled, Alike, [Next]_vars,
                      pc = "publish", primary' \in ToSet(publications'),
                      ~capture_output_pending'
               PROVE  ToSet(publications') = OutputsOf(own)
    OBVIOUS
  <2>1. capture_output_pending
    BY DEF Placed
  <2>2. Publish \/ Restart
    <3>1. ~UNCHANGED capture_output_pending
      BY <2>1
    <3> QED
      BY <3>1
      DEF Next, CallStep, CameraStep, RecoveryProbe, Preconditions, Look, Fetch, Drop,
          Claimed, Initiate, Waiting, Terminate, Verify, Transfer, Delete, Stop,
          OffersCandidate, ClosesHeldShutter, Request, RefusedStart, StopDeferred,
          BulbStop, BodyShutter, vars, latches
  <2>3. ~Restart
    BY NothingIn DEF Restart
  <2>4. Publishes(primary) /\ ~incomplete
    <3>1. ~UNCHANGED <<publications, kept, capture_output_pending>>
      BY <2>1
    <3>2. Publishes(primary) /\ capture_output_pending' = incomplete
      BY <2>2, <2>3, <3>1 DEF Publish, Undischarged
    <3> QED
      BY <3>2, Zenon
  <2>5. ToSet(publications') = ToSet(publications) \cup {primary}
    BY <2>4, AppendIn DEF Publishes, InHand, TypeOK
  <2>6. \A i \in InSight : i.exp # own
    BY <2>4 DEF Reconciled
  <2>7. /\ own # 0 /\ outputs[own] # {}
        /\ outputs[own] = {i \in InSight \cup ToSet(publications) \cup {primary} : i.exp = own}
    BY DEF Balanced, Placed, Taken
  <2>8. \A i \in ToSet(publications') : i.exp = primary.exp
    BY <2>5 DEF Alike
  <2>9. primary.exp = own
    BY <2>5, <2>6, <2>7, <2>8
  <2> QED
    BY <2>5, <2>6, <2>7, <2>8, <2>9 DEF OutputsOf
<1> QED
  BY <1>1, TypesHold, PlacedHolds, BooksHold, PTL DEF Spec, SuccessDeliversExposure

-----------------------------------------------------------------------------
(* A camera that nobody operates by hand.                                   *)
LEMMA UncoveredStep ==
  ASSUME PentaxAssumption, TypeOK, Uncovered, "body" \notin Faults, [Next]_vars
  PROVE  Uncovered'
<1>1. CASE Preconditions \/ Claimed
  <2>1. \/ pc' # "initiate"
        \/ \E f \in Readings : Reason(f) = "none"
    BY <1>1 DEF Preconditions, Claimed, Quiet, Admit, RefusePreconditions, Recovered
  <2>2. UNCHANGED <<making, queue>>
    BY <1>1 DEF Preconditions, Claimed, camera
  <2> QED
    BY <2>1, <2>2, FrameImage DEF Uncovered
<1>2. CASE RecoveryProbe \/ Look \/ Fetch \/ Drop
  <2>1. pc' # "initiate"
    BY <1>2 DEF RecoveryProbe, Recovered, Look, LoopEnds, Fetch, Drop, LoopFails, TypeOK
  <2> QED
    BY <2>1 DEF Uncovered
<1>3. CASE Initiate \/ Waiting \/ Terminate \/ Verify \/ Transfer \/ Delete \/ Publish \/ Stop
  <2>1. pc' # "initiate"
    BY <1>3
    DEF Initiate, Waiting, Terminate, Verify, Transfer, Delete, Publish, Stop, Finalize,
        LeavePreserving, Leave
  <2> QED
    BY <2>1 DEF Uncovered
<1>4. CASE CameraStep
  BY <1>4 DEF CameraStep, OffersCandidate, ClosesHeldShutter, Active, Uncovered, call, files
<1>5. CASE (\E m \in {"timed", "start"} : Request(m)) \/ Restart \/ BulbStop
  BY <1>5 DEF Request, Restart, BulbStop, Uncovered
<1>6. CASE RefusedStart \/ StopDeferred
  BY <1>6 DEF RefusedStart, StopDeferred, call, Uncovered
<1>7. CASE BodyShutter
  BY <1>7 DEF BodyShutter
<1>8. CASE UNCHANGED vars
  BY <1>8 DEF vars, camera, call, files, Uncovered
<1> QED
  BY <1>1, <1>2, <1>3, <1>4, <1>5, <1>6, <1>7, <1>8 DEF Next, CallStep

LEMMA OnlyOursStep ==
  ASSUME PentaxAssumption, TypeOK, InHand, Placed, Uncovered, OnlyOurs,
         "body" \notin Faults, [Next]_vars
  PROVE  OnlyOurs'
<1> SUFFICES ASSUME transfer_state' # "IDLE"
             PROVE  \A i \in InSight' : i.exp \in mine'
  BY DEF OnlyOurs
<1>1. CASE transfer_state = "IDLE"
  <2>1. Fires(mode = "start") /\ pc = "initiate"
    BY <1>1, TakesOff
  <2>2. InSight = {}
    BY <2>1, NothingIn DEF Uncovered, InSight
  <2> QED
    BY <2>1, <2>2, TakeOffSight
<1>2. CASE transfer_state # "IDLE"
  <2>1. ~Initiate
    BY <1>2 DEF Initiate, Placed
  <2>2. ~BodyShutter
    BY DEF BodyShutter
  <2> QED
    BY <1>2, <2>1, <2>2, SightStep DEF OnlyOurs
<1> QED
  BY <1>1, <1>2

LEMMA UncoveredHolds ==
  ASSUME "body" \notin Faults
  PROVE  Spec => [](Uncovered /\ OnlyOurs)
<1> USE PentaxAssumption
<1>1. Init => Uncovered /\ OnlyOurs
  BY DEF Init, Uncovered, OnlyOurs
<1>2. TypeOK /\ InHand /\ Placed /\ Uncovered /\ OnlyOurs /\ [Next]_vars
        => Uncovered' /\ OnlyOurs'
  BY UncoveredStep, OnlyOursStep
<1> QED
  BY <1>1, <1>2, TypesHold, PlacedHolds, PTL DEF Spec

(* The shutter is released only over a quiet camera (issue #34): no image   *)
(* waits to be fetched that the new capture could take for its own, and no  *)
(* exposure is in progress, although the camera answers the preconditions   *)
(* in one exchange and the shutter in another.                              *)
THEOREM QuietShutter ==
  ASSUME "body" \notin Faults
  PROVE  Spec => ShutterOverQuietCamera
<1> USE PentaxAssumption
<1> DEFINE A == own' # own /\ own' # 0 => queue = <<>> /\ making = <<>>
<1>1. TypeOK /\ Uncovered /\ [Next]_vars => [A]_vars
  <2> SUFFICES ASSUME TypeOK, Uncovered, [Next]_vars, own' # own, own' # 0
               PROVE  queue = <<>> /\ making = <<>>
    OBVIOUS
  <2>1. pc = "initiate"
    BY DEF Next, CallStep, CameraStep, RecoveryProbe, Preconditions, Look, Fetch, Drop,
           Claimed, Initiate, Waiting, Terminate, Verify, Transfer, Delete, Publish,
           Stop, OffersCandidate, ClosesHeldShutter, Request, RefusedStart,
           StopDeferred, BulbStop, BodyShutter, Restart, vars, ghosts
  <2> QED
    BY <2>1 DEF Uncovered
<1> QED
  BY <1>1, TypesHold, UncoveredHolds, PTL DEF Spec, ShutterOverQuietCamera

(* DeleteTransferCandidate reaches only images of this session's exposures  *)
(* and orphans that have been written to disk before: the selected          *)
(* candidate cannot have changed between its transfer and its deletion.     *)
THEOREM OnlyOwnedAreDeleted ==
  ASSUME "body" \notin Faults
  PROVE  Spec => DeletesOnlyOwned
<1> USE PentaxAssumption
<1> DEFINE A == \A i \in deleted' \ deleted : i \in saved \/ i.exp \in mine
<1>1. TypeOK /\ InHand /\ Placed /\ OnlyOurs /\ [Next]_vars => [A]_vars
  <2> SUFFICES ASSUME TypeOK, InHand, Placed, OnlyOurs, [Next]_vars
               PROVE  A
    OBVIOUS
  <2>1. \/ deleted' = deleted
        \/ pc \in {"delete", "drop"} /\ deleted' = deleted \cup {Head(queue)}
    BY DEF Next, CallStep, CameraStep, RecoveryProbe, Preconditions, Look, Fetch, Drop,
           Claimed, Initiate, Waiting, Terminate, Verify, Transfer, Delete, Publish,
           Stop, OffersCandidate, ClosesHeldShutter, Request, RefusedStart,
           StopDeferred, BulbStop, BodyShutter, Restart, DeletesCandidate, vars, ghosts
  <2>2. pc \in {"delete", "drop"} => queue # <<>> /\ Head(queue) = image /\ image \in InSight
    BY TailIn DEF InHand, TypeOK, InSight
  <2>3. CASE pc = "drop" /\ Claiming
    BY <2>1, <2>2, <2>3 DEF InHand
  <2>4. CASE pc \in {"delete", "drop"} /\ transfer_state # "IDLE"
    BY <2>1, <2>2, <2>4 DEF OnlyOurs
  <2>5. pc \in {"delete", "drop"} => (pc = "drop" /\ Claiming) \/ transfer_state # "IDLE"
    BY DEF Placed, Companions
  <2> QED
    BY <2>1, <2>3, <2>4, <2>5
<1> QED
  BY <1>1, TypesHold, PlacedHolds, UncoveredHolds, PTL DEF Spec, DeletesOnlyOwned

=============================================================================
