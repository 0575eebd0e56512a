------------------------- MODULE DvRecvQueue_proofs -------------------------
(***************************************************************************)
(* Theorems about DvRecvQueue, for every ring size, every width of the     *)
(* counters that is a multiple of it and every number of receives.         *)
(***************************************************************************)
EXTENDS DvRecvQueue, TLAPS

(***************************************************************************)
(* The inductive invariant.                                                *)
(***************************************************************************)

(* What the doorbell record stands for as the driver stored it last, and   *)
(* the receives written so far, those not counted yet included.            *)
published == IF pc = "dbr" THEN posted - nreq ELSE posted
written   == IF pc = "write" THEN posted + nreq ELSE posted

(* No barrier follows the doorbell record, so the device may see any older *)
(* count: it is known only that it saw no count before it was published.   *)
CountersOrdered ==
  /\ acked <= done
  /\ Announced <= published
  /\ published <= posted
  /\ posted <= acked + WqeCnt
  /\ pc = "write" => nreq <= num /\ posted + num <= acked + WqeCnt

(* The wrapped counters are the history counters, wrapped.                 *)
IndicesWrap ==
  /\ head = posted % CtrMod
  /\ dbStored = published % DbMod
  /\ pc = "write" => ind = Slot(posted + nreq)

(* Every receive not used is in the ring; and in the ring as the device    *)
(* sees it once its count has been published.                              *)
RingHolds ==
  /\ \A r \in Nat : done <= r /\ r < written => wqeStored[Slot(r)] = r
  /\ \A r \in Nat : done <= r /\ r < published => wqeSeen[Slot(r)] = r

IndInv == TypeOK /\ CountersOrdered /\ IndicesWrap /\ RingHolds

(***************************************************************************)
(* Remainders: the ring is indexed by counters that wrap and are masked    *)
(* again to a slot number; a smaller modulus divides a larger one.         *)
(***************************************************************************)
(* Quotient and remainder of an integer by a positive d.                   *)
LEMMA DivMod ==
  ASSUME NEW d \in Nat \ {0}, NEW a \in Int
  PROVE  /\ (a % d) \in 0..(d-1)
         /\ (a \div d) \in Int
         /\ a = (d * (a \div d)) + (a % d)
  OBVIOUS

(* The same as the existence of the two numbers, to name them in a proof.  *)
LEMMA DivModExists ==
  ASSUME NEW d \in Nat \ {0}, NEW a \in Int
  PROVE  \E q \in Int, r \in 0..(d-1) : a = (d * q) + r /\ r = a % d
<1>1. (a \div d) \in Int /\ (a % d) \in 0..(d-1)
  BY DivMod
<1>2. a = (d * (a \div d)) + (a % d)
  BY DivMod
<1> QED
  BY <1>1, <1>2

(* They are the only numbers with that property.                           *)
LEMMA DivModUnique ==
  ASSUME NEW d \in Nat \ {0}, NEW q \in Int, NEW r \in 0..(d-1)
  PROVE  ((q * d) + r) % d = r
  OBVIOUS

(* A number that is its own remainder.                                     *)
LEMMA SmallMod ==
  ASSUME NEW d \in Nat \ {0}, NEW r \in 0..(d-1)
  PROVE  r % d = r
  OBVIOUS

LEMMA Regroup ==
  ASSUME NEW d \in Int, NEW k \in Int, NEW q \in Int, NEW s \in Int, NEW t \in Int
  PROVE  ((k * d) * q) + ((d * s) + t) = (((k * q) + s) * d) + t
<1>1. (k * d) * q = (k * q) * d
  OBVIOUS
<1>2. ((k * q) + s) * d = ((k * q) * d) + (d * s)
  OBVIOUS
<1> QED
  BY <1>1, <1>2

(* A counter that wraps at a multiple of d selects the slot of the counter *)
(* that does not wrap.                                                     *)
LEMMA ModMod ==
  ASSUME NEW d \in Nat \ {0}, NEW m \in Nat \ {0}, m % d = 0, NEW a \in Int
  PROVE  (a % m) % d = a % d
<1>0. PICK k \in Int : m = k * d
  BY DivModExists
<1>1. PICK q \in Int, r \in 0..(m-1) : a = (m * q) + r /\ r = a % m
  BY DivModExists
<1>2. PICK s \in Int, t \in 0..(d-1) : r = (d * s) + t /\ t = r % d
  <2>1. r \in Int
    OBVIOUS
  <2> QED
    BY <2>1, DivModExists
<1>3. a = (((k * q) + s) * d) + t
  <2>1. a = ((k * d) * q) + ((d * s) + t)
    BY <1>0, <1>1, <1>2
  <2>2. t \in Int
    OBVIOUS
  <2>3. ((k * d) * q) + ((d * s) + t) = (((k * q) + s) * d) + t
    BY <2>2, Regroup
  <2> QED
    BY <2>1, <2>3
<1>4. a % d = t
  <2>1. ((k * q) + s) \in Int
    OBVIOUS
  <2> QED
    BY <1>3, <2>1, DivModUnique
<1> QED
  BY <1>1, <1>2, <1>4

(* Adding before or after wrapping is the same.                            *)
LEMMA ModAdd ==
  ASSUME NEW d \in Nat \ {0}, NEW a \in Int, NEW n \in Int
  PROVE  ((a % d) + n) % d = (a + n) % d
<1>1. PICK q \in Int, r \in 0..(d-1) : a = (d * q) + r /\ r = a % d
  BY DivModExists
<1>2. PICK p \in Int, t \in 0..(d-1) : r + n = (d * p) + t /\ t = (r + n) % d
  <2>1. r + n \in Int
    OBVIOUS
  <2> QED
    BY ONLY <2>1, d \in Nat \ {0}, DivModExists
<1>3. a + n = ((q + p) * d) + t /\ (q + p) \in Int
  BY <1>1, <1>2
<1>4. (((q + p) * d) + t) % d = t
  BY ONLY <1>3, d \in Nat \ {0}, t \in 0..(d-1), DivModUnique
<1> QED
  BY <1>1, <1>2, <1>3, <1>4

(* In particular by one.                                                   *)
LEMMA ModSucc ==
  ASSUME NEW d \in Nat \ {0}, NEW a \in Int
  PROVE  ((a % d) + 1) % d = (a + 1) % d
<1>1. 1 \in Int
  OBVIOUS
<1> QED
  BY ONLY <1>1, d \in Nat \ {0}, a \in Int, ModAdd

(* Fewer than d consecutive numbers have distinct slots.                   *)
LEMMA ModDistinct ==
  ASSUME NEW d \in Nat \ {0}, NEW a \in Int, NEW b \in Int, a < b, b < a + d
  PROVE  a % d # b % d
<1> SUFFICES ASSUME a % d = b % d
             PROVE  FALSE
  OBVIOUS
<1>1. PICK p \in Int, r \in 0..(d-1) : a = (d * p) + r /\ r = a % d
  BY DivModExists
<1>2. PICK q \in Int : b = (d * q) + r
  BY <1>1, DivModExists
<1>3. b - a = d * (q - p)
  BY <1>1, <1>2
<1>4. 0 < q - p /\ q - p < 1
  BY <1>3
<1> QED
  BY <1>4

(***************************************************************************)
(* Slots, and the count the device computes from the doorbell record.      *)
(***************************************************************************)
LEMMA ConstantsNat ==
  /\ WqeCnt \in Nat \ {0} /\ DbMod \in Nat \ {0} /\ CtrMod \in Nat \ {0}
  /\ WqeCnt < DbMod
  BY WqeCntAssumption, DbModAssumption, CtrModAssumption

LEMMA SlotType == \A n \in Int : Slot(n) \in Slots
  BY ConstantsNat, DivMod DEF Slot, Slots

(* head wraps at a multiple of the range of the doorbell record, and that  *)
(* at a multiple of the ring size.                                         *)
LEMMA WrappedSlot ==
  ASSUME NEW n \in Nat
  PROVE  Slot(n % CtrMod) = Slot(n) /\ (n % CtrMod) % DbMod = n % DbMod
<1>1. n \in Int /\ CtrMod % DbMod = 0 /\ DbMod % WqeCnt = 0 /\ DbMod \in Int /\ CtrMod \in Int
  BY ConstantsNat, CtrModAssumption, DbModAssumption
<1>2. (n % CtrMod) % DbMod = n % DbMod
  BY ONLY <1>1, ConstantsNat, ModMod
<1>3. CtrMod % WqeCnt = 0
  <2>1. (CtrMod % DbMod) % WqeCnt = CtrMod % WqeCnt
    BY ONLY <1>1, ConstantsNat, ModMod
  <2>2. 0 % WqeCnt = 0
    BY ConstantsNat, SmallMod
  <2> QED
    BY <1>1, <2>1, <2>2
<1>4. (n % CtrMod) % WqeCnt = n % WqeCnt
  BY ONLY <1>1, <1>3, ConstantsNat, ModMod
<1> QED
  BY <1>2, <1>4 DEF Slot

LEMMA DistinctSlots ==
  ASSUME NEW a \in Int, NEW b \in Int, a < b, b < a + WqeCnt
  PROVE  Slot(a) # Slot(b)
  BY ConstantsNat, ModDistinct DEF Slot

LEMMA NextSlot ==
  ASSUME NEW n \in Int
  PROVE  Slot(Slot(n) + 1) = Slot(n + 1)
  BY ONLY ConstantsNat, ModSucc DEF Slot

(* Unwrapping a wrapped count that is less than a lap ahead.               *)
LEMMA Unwrap ==
  ASSUME NEW d \in Int, NEW a \in Int, d <= a, a < d + DbMod
  PROVE  d + (((a % DbMod) - d) % DbMod) = a
<1>1. PICK q \in Int, r \in 0..(DbMod-1) : a = (DbMod * q) + r /\ r = a % DbMod
  BY ConstantsNat, DivModExists
<1>2. (a % DbMod) - d = ((-q) * DbMod) + (a - d)
  BY <1>1, ConstantsNat
<1>3. (a - d) \in 0..(DbMod-1) /\ -q \in Int
  BY <1>1, ConstantsNat
<1>4. (((-q) * DbMod) + (a - d)) % DbMod = a - d
  BY ONLY <1>3, ConstantsNat, DivModUnique
<1> QED
  BY <1>2, <1>4

(* What the device computes is within a lap of what it has used, and wraps *)
(* to what it saw.                                                         *)
LEMMA AnnouncedRange ==
  ASSUME TypeOK
  PROVE  /\ Announced \in Nat
         /\ done <= Announced /\ Announced < done + DbMod
         /\ Announced % DbMod = dbSeen
<1> USE ConstantsNat
<1>1. done \in Nat /\ dbSeen \in 0..DbMod-1 /\ dbSeen - done \in Int
  BY DEF TypeOK
<1>2. PICK q \in Int, r \in 0..(DbMod-1) :
        dbSeen - done = (DbMod * q) + r /\ r = (dbSeen - done) % DbMod
  BY <1>1, DivModExists
<1>3. Announced = done + r
  BY <1>2 DEF Announced
<1>4. Announced = ((-q) * DbMod) + dbSeen /\ -q \in Int
  BY <1>1, <1>2, <1>3
<1>5. Announced % DbMod = dbSeen
  <2>1. (((-q) * DbMod) + dbSeen) % DbMod = dbSeen
    BY ONLY <1>1, <1>4, ConstantsNat, DivModUnique
  <2> QED
    BY <1>4, <2>1
<1> QED
  BY <1>1, <1>3, <1>5

(***************************************************************************)
(* The invariant is inductive: one lemma per group of actions.             *)
(***************************************************************************)
LEMMA InitIndInv == Init => IndInv
<1> SUFFICES ASSUME Init
             PROVE  IndInv
  OBVIOUS
<1> USE ConstantsNat DEF Init
<1>1. TypeOK
  BY DEF TypeOK, NoWqe, Slots
<1>2. published = 0 /\ written = 0
  BY DEF published, written
<1>3. 0 % CtrMod = 0 /\ 0 % DbMod = 0
  BY SmallMod
<1>4. Announced = 0
  BY <1>3 DEF Announced
<1>5. CountersOrdered /\ IndicesWrap /\ RingHolds
  BY <1>2, <1>3, <1>4 DEF CountersOrdered, IndicesWrap, RingHolds
<1> QED
  BY <1>1, <1>5 DEF IndInv

LEMMA PostRecvKeeps ==
  ASSUME IndInv, NEW n \in 1..WqeCnt, PostRecv(n)
  PROVE  IndInv'
<1> USE ConstantsNat DEF IndInv, PostRecv
<1>1. posted \in Nat /\ head = posted % CtrMod
  BY DEF TypeOK, IndicesWrap
<1>2. ind' = Slot(posted) /\ posted + 0 = posted
  BY <1>1, WrappedSlot
<1>3. TypeOK'
  <2>1. ind' \in Slots
    BY <1>1, <1>2, SlotType
  <2> QED
    BY <2>1 DEF TypeOK
<1>4. published' = published /\ written' = written /\ Announced' = Announced
  BY <1>1 DEF published, written, Announced
<1>5. CountersOrdered'
  BY <1>4 DEF CountersOrdered, TypeOK
<1>6. IndicesWrap'
  BY <1>1, <1>2, <1>4 DEF IndicesWrap
<1>7. RingHolds'
  BY <1>4 DEF RingHolds
<1> QED
  BY <1>3, <1>5, <1>6, <1>7

(* The slot a WQE is written to belongs to no receive the device may still *)
(* use: the receives outstanding are fewer than the slots.                 *)
LEMMA WriteWqeKeeps ==
  ASSUME IndInv, WriteWqe
  PROVE  IndInv'
<1> USE ConstantsNat DEF IndInv, WriteWqe
<1> DEFINE w == posted + nreq
<1>1. w \in Nat /\ nreq \in Nat /\ ind = Slot(w) /\ Slot(w) \in Slots
  BY SlotType DEF TypeOK, IndicesWrap
<1>2. written = w /\ written' = w + 1
  BY <1>1 DEF written, TypeOK
<1>3. published' = published /\ Announced' = Announced
  BY DEF published, Announced
<1>4. TypeOK'
  <2>1. wqeStored' \in [Slots -> Int]
    BY <1>1 DEF TypeOK
  <2>2. ind' \in Slots
    BY <1>1, SlotType DEF Slots
  <2> QED
    BY <1>1, <2>1, <2>2 DEF TypeOK
<1>5. CountersOrdered'
  BY <1>1, <1>3 DEF CountersOrdered, TypeOK
<1>6. IndicesWrap'
  <2>1. ind' = Slot(w + 1) /\ w + 1 = posted' + nreq'
    BY <1>1, NextSlot DEF TypeOK
  <2> QED
    BY <1>3, <2>1 DEF IndicesWrap
<1>7. RingHolds'
  <2>1. ASSUME NEW r \in Nat, done <= r, r < w
        PROVE  wqeStored'[Slot(r)] = r
    <3>1. w < r + WqeCnt
      BY <1>1, <2>1 DEF CountersOrdered, TypeOK
    <3>2. Slot(r) # Slot(w)
      BY <1>1, <2>1, <3>1, DistinctSlots
    <3>3. wqeStored[Slot(r)] = r
      BY <1>2, <2>1 DEF RingHolds
    <3> QED
      BY <1>1, <3>2, <3>3 DEF TypeOK
  <2>2. wqeStored'[Slot(w)] = w
    BY <1>1 DEF TypeOK
  <2>3. \A r \in Nat : r < w + 1 => r < w \/ r = w
    BY <1>1
  <2>4. \A r \in Nat : done' <= r /\ r < written' => wqeStored'[Slot(r)] = r
    BY <1>2, <2>1, <2>2, <2>3
  <2> QED
    BY <1>3, <2>4 DEF RingHolds
<1> QED
  BY <1>4, <1>5, <1>6, <1>7

LEMMA CountWqesKeeps ==
  ASSUME IndInv, CountWqes
  PROVE  IndInv'
<1> USE ConstantsNat DEF IndInv, CountWqes
<1>1. posted \in Nat /\ nreq \in Nat /\ posted + nreq \in Nat /\ head = posted % CtrMod
  BY DEF TypeOK, IndicesWrap
<1>2. published' = published /\ written' = written /\ Announced' = Announced
  BY <1>1 DEF published, written, Announced
<1>3. TypeOK'
  <2>1. head' \in 0..CtrMod-1
    BY <1>1, DivMod DEF TypeOK
  <2> QED
    BY <1>1, <2>1 DEF TypeOK
<1>4. CountersOrdered'
  <2>1. nreq <= num /\ posted + num <= acked + WqeCnt
    BY DEF CountersOrdered
  <2>2. Announced <= published /\ published = posted /\ acked <= done
    BY DEF CountersOrdered, published
  <2>3. pc' = "dbr" /\ posted' = posted + nreq /\ num \in Nat /\ acked \in Nat
    BY DEF TypeOK
  <2> QED
    BY <1>1, <1>2, <2>1, <2>2, <2>3 DEF CountersOrdered
<1>5. IndicesWrap'
  <2>1. posted \in Int /\ nreq \in Int
    BY <1>1
  <2>2. ((posted % CtrMod) + nreq) % CtrMod = (posted + nreq) % CtrMod
    BY ONLY <2>1, ConstantsNat, ModAdd
  <2> QED
    BY <1>1, <1>2, <2>2 DEF IndicesWrap
<1>6. RingHolds'
  BY <1>2 DEF RingHolds
<1> QED
  BY <1>3, <1>4, <1>5, <1>6

(* The barrier puts the WQEs in the device's sight before their count.     *)
LEMMA StoreDbrKeeps ==
  ASSUME IndInv, StoreDbr
  PROVE  IndInv'
<1> USE ConstantsNat DEF IndInv, StoreDbr, Barrier
<1>1. posted \in Nat /\ dbStored' = posted % DbMod
  BY WrappedSlot DEF TypeOK, IndicesWrap
<1>2. published' = posted /\ written' = posted /\ written = posted /\ Announced' = Announced
  BY DEF published, written, Announced
<1>3. TypeOK'
  <2>1. posted \in Int
    BY <1>1
  <2>2. posted % DbMod \in 0..DbMod-1
    BY ONLY <2>1, ConstantsNat, DivMod
  <2> QED
    BY <1>1, <2>2 DEF TypeOK
<1>4. CountersOrdered'
  BY <1>1, <1>2, AnnouncedRange DEF CountersOrdered, TypeOK, published
<1>5. IndicesWrap'
  BY <1>1, <1>2 DEF IndicesWrap
<1>6. RingHolds'
  BY <1>2 DEF RingHolds
<1> QED
  BY <1>3, <1>4, <1>5, <1>6

LEMMA ReapKeeps ==
  ASSUME IndInv, Reap
  PROVE  IndInv'
<1> USE ConstantsNat DEF IndInv, Reap, driverVars
<1>1. TypeOK'
  BY DEF TypeOK
<1>2. published' = published /\ written' = written /\ Announced' = Announced
  BY DEF published, written, Announced
<1>3. CountersOrdered'
  BY <1>2 DEF CountersOrdered, TypeOK
<1>4. IndicesWrap' /\ RingHolds'
  BY <1>2 DEF IndicesWrap, RingHolds
<1> QED
  BY <1>1, <1>3, <1>4

(* A receive not used yet fits in the ring with all that were published.   *)
LEMMA PublishedFits ==
  ASSUME IndInv
  PROVE  /\ published \in Nat /\ done <= published /\ published < done + DbMod
         /\ Announced <= published
<1> USE ConstantsNat DEF IndInv
<1>1. published \in Int
  BY DEF published, TypeOK
<1> QED
  BY <1>1, AnnouncedRange DEF CountersOrdered, TypeOK

LEMMA DrainKeeps ==
  ASSUME IndInv, Drain
  PROVE  IndInv'
<1> USE ConstantsNat DEF IndInv, driverVars
<1>1. ASSUME NEW s \in Slots, DrainWqe(s)
      PROVE  IndInv'
  <2> USE <1>1 DEF DrainWqe
  <2>1. TypeOK'
    <3>1. wqeSeen' \in [Slots -> Int]
      BY DEF TypeOK
    <3> QED
      BY <3>1 DEF TypeOK
  <2>2. published' = published /\ written' = written /\ Announced' = Announced
    BY DEF published, written, Announced
  <2>3. CountersOrdered' /\ IndicesWrap'
    BY <2>2 DEF CountersOrdered, IndicesWrap
  <2>4. RingHolds'
    <3>1. published <= written
      BY DEF CountersOrdered, published, written, TypeOK
    <3>2. published \in Int /\ written \in Int
      BY DEF published, written, TypeOK
    <3>3. ASSUME NEW r \in Nat, done <= r, r < published
          PROVE  wqeSeen'[Slot(r)] = r
      <4>1. wqeSeen[Slot(r)] = r /\ wqeStored[Slot(r)] = r /\ Slot(r) \in Slots
        BY <3>1, <3>2, <3>3, SlotType DEF RingHolds
      <4> QED
        BY <4>1 DEF TypeOK
    <3> QED
      BY <2>2, <3>3 DEF RingHolds
  <2> QED
    BY <2>1, <2>3, <2>4
<1>2. CASE DrainDbr
  <2> USE <1>2 DEF DrainDbr
  <2>1. TypeOK'
    BY DEF TypeOK
  <2>2. published' = published /\ written' = written
    BY DEF published, written
  <2>3. Announced' = published
    <3>1. published \in Int /\ done \in Int /\ done <= published /\ published < done + DbMod
      BY PublishedFits DEF TypeOK
    <3>2. done + (((published % DbMod) - done) % DbMod) = published
      BY ONLY <3>1, Unwrap
    <3> QED
      BY <3>2 DEF Announced, IndicesWrap
  <2>4. CountersOrdered'
    BY <2>2, <2>3, PublishedFits DEF CountersOrdered
  <2>5. IndicesWrap' /\ RingHolds'
    BY <2>2 DEF IndicesWrap, RingHolds
  <2> QED
    BY <2>1, <2>4, <2>5
<1> QED
  BY <1>1, <1>2 DEF Drain

(* The device uses only receives the doorbell record announced to it, and  *)
(* using one does not change how many were.                                *)
LEMMA ReceiveIsAnnounced ==
  ASSUME IndInv, HcaReceive
  PROVE  done < Announced /\ Announced' = Announced
<1> USE ConstantsNat DEF IndInv, HcaReceive
<1>1. /\ done \in Int /\ Announced \in Int /\ done <= Announced
      /\ Announced < done + DbMod /\ Announced % DbMod = dbSeen
  BY AnnouncedRange DEF TypeOK
<1>2. done < Announced
  BY <1>1
<1>3. done + 1 \in Int /\ done + 1 <= Announced /\ Announced < (done + 1) + DbMod
  BY <1>1, <1>2
<1>4. (done + 1) + (((Announced % DbMod) - (done + 1)) % DbMod) = Announced
  BY ONLY <1>1, <1>3, Unwrap
<1>5. Announced' = (done + 1) + ((dbSeen - (done + 1)) % DbMod)
  BY DEF Announced
<1> QED
  BY <1>1, <1>2, <1>4, <1>5

LEMMA ReceiveKeeps ==
  ASSUME IndInv, HcaReceive
  PROVE  IndInv'
<1> USE ConstantsNat DEF IndInv, HcaReceive, driverVars
<1>1. TypeOK'
  BY DEF TypeOK
<1>2. published' = published /\ written' = written /\ Announced' = Announced
  BY ReceiveIsAnnounced DEF published, written
<1>3. CountersOrdered'
  BY <1>2 DEF CountersOrdered, TypeOK
<1>4. IndicesWrap'
  BY <1>2 DEF IndicesWrap
<1>5. RingHolds'
  BY <1>2 DEF RingHolds, TypeOK
<1> QED
  BY <1>1, <1>3, <1>4, <1>5

LEMMA NextIndInv ==
  ASSUME IndInv, [Next]_vars
  PROVE  IndInv'
<1>1. CASE UNCHANGED vars
  BY <1>1 DEF vars, IndInv, TypeOK, CountersOrdered, IndicesWrap, RingHolds,
              published, written, Announced
<1>2. CASE Call
  BY <1>2, PostRecvKeeps DEF Call
<1>3. CASE Post
  BY <1>3, WriteWqeKeeps, CountWqesKeeps, StoreDbrKeeps DEF Post
<1> QED
  BY <1>1, <1>2, <1>3, ReapKeeps, DrainKeeps, ReceiveKeeps DEF Next

(* The invariant holds in every state the driver and the device reach.     *)
THEOREM Invariance == Spec => []IndInv
  BY InitIndInv, NextIndInv, PTL DEF Spec

(***************************************************************************)
(* What the runs check, for every value of the constants.                  *)
(***************************************************************************)

(* Type correctness: head stays a 32-bit number and the doorbell record a  *)
(* 16-bit one.                                                             *)
THEOREM TypeCorrect == Spec => []TypeOK
  BY Invariance, PTL DEF IndInv

(* A message never lands in the buffer of an older receive nor in one      *)
(* whose WQE has not reached the device.                                   *)
THEOREM OffersIntact == Spec => []AnnouncedIntact
<1>1. ASSUME IndInv
      PROVE  AnnouncedIntact
  <2>1. ASSUME NEW r \in done..Announced-1
        PROVE  wqeSeen[Slot(r)] = r
    <3>1. r \in Nat /\ done <= r /\ r < published
      BY <1>1, PublishedFits, AnnouncedRange DEF IndInv, TypeOK
    <3> QED
      BY <1>1, <3>1 DEF IndInv, RingHolds
  <2> QED
    BY <2>1 DEF AnnouncedIntact
<1> QED
  BY <1>1, Invariance, PTL

(* The receive queue implements the abstract channel: receives are used in *)
(* order, each once, and none that was not posted.                         *)
THEOREM Refinement == Spec => ImplementsChannel
<1>1. Init => Channel!Init
  BY DEF Init, Channel!Init
<1>2. ASSUME IndInv, [Next]_vars
      PROVE  [Channel!Next]_(Channel!vars)
  <2> USE ConstantsNat DEF IndInv, Channel!vars
  <2>1. CASE UNCHANGED vars
    BY <2>1 DEF vars
  <2>2. CASE CountWqes
    <3>1. /\ posted' = posted + nreq /\ done' = done /\ acked' = acked
          /\ nreq \in Nat /\ posted + nreq - acked <= WqeCnt /\ nreq <= WqeCnt
      BY <1>2, <2>2, PublishedFits DEF CountWqes, CountersOrdered, TypeOK, published
    <3>2. CASE nreq = 0
      BY <1>2, <3>1, <3>2 DEF TypeOK
    <3>3. CASE nreq # 0
      BY <3>1, <3>3 DEF Channel!Next, Channel!Ask
    <3> QED
      BY <3>2, <3>3
  <2>3. CASE Reap
    <3>1. acked' = acked + 1 /\ acked + 1 <= done /\ posted' = posted /\ done' = done
      BY <1>2, <2>3 DEF Reap, driverVars, TypeOK
    <3>2. 1 \in 1..WqeCnt
      OBVIOUS
    <3> QED
      BY <3>1, <3>2 DEF Channel!Next, Channel!Tell
  <2>4. CASE HcaReceive
    <3>1. done < posted
      BY <1>2, <2>4, ReceiveIsAnnounced, PublishedFits, AnnouncedRange
      DEF CountersOrdered, TypeOK
    <3> QED
      BY <2>4, <3>1 DEF HcaReceive, driverVars, Channel!Next, Channel!Finish
  <2>5. CASE Call \/ WriteWqe \/ StoreDbr \/ Drain
    BY <2>5 DEF Call, PostRecv, WriteWqe, StoreDbr, Drain, DrainWqe, DrainDbr, driverVars
  <2> QED
    BY <1>2, <2>1, <2>2, <2>3, <2>4, <2>5 DEF Next, Post
<1>3. QED
  BY <1>1, <1>2, Invariance, PTL DEF Spec, ImplementsChannel, Channel!Spec
=============================================================================
