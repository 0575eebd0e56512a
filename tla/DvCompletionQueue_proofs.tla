---------------------- MODULE DvCompletionQueue_proofs ----------------------
(***************************************************************************)
(* Theorems about DvCompletionQueue, for every ring size, every width of   *)
(* the counters that is a multiple of it, and every number of requests.    *)
(***************************************************************************)
EXTENDS DvCompletionQueue, TLAPS

(***************************************************************************)
(* The inductive invariant.                                                *)
(***************************************************************************)

(* The history counters are ordered, and the caller's discipline bounds    *)
(* the requests that were not reported yet.                                *)
CountersOrdered ==
  /\ consumed <= produced
  /\ produced <= submitted
  /\ submitted <= reported + NCqe
  /\ reported \in Nat
  /\ writing => produced < submitted

(* The wrapped counters of the code are the history counters, wrapped; the *)
(* device sees a consumer index that was published since the last request. *)
IndicesWrap ==
  /\ cons_index = consumed % CtrMod
  /\ ciStored = reported % CiMod
  /\ \E c \in 0..reported : ciSeen = c % CiMod /\ submitted <= c + NCqe

(* The last NCqe entries written hold a completion of their own lap, those *)
(* never written are invalid, and those not taken yet are intact.          *)
RingHolds ==
  /\ \A e \in Nat : e < produced /\ produced <= e + NCqe =>
       /\ cqe[Slot(e)].op # CQE_INVALID
       /\ cqe[Slot(e)].own = LapBit(e)
  /\ \A e \in Nat : produced <= e /\ e < NCqe => cqe[Slot(e)].op = CQE_INVALID
  /\ \A e \in Nat : consumed <= e /\ e < produced => cqe[Slot(e)].id = e
  /\ writing => cqe[Slot(produced)].id = produced

(* Between its two loads the driver knows the entry was written once.      *)
OpcodeSeen == pc = "owner" => cqe[Slot(cons_index)].op # CQE_INVALID

IndInv == TypeOK /\ CountersOrdered /\ IndicesWrap /\ RingHolds /\ OpcodeSeen

(***************************************************************************)
(* Remainders: the ring is indexed by counters that wrap and are masked    *)
(* again to a slot number; a smaller modulus divides a larger one.         *)
(***************************************************************************)
(* Quotient and remainder of an integer by a positive d.                   *)
LEMMA DivMod ==
  ASSUME NEW d \in Nat \ {0}, NEW a \in Int
  PROVE  /\ (a % d) \in 0..(d-1)
         /\ (a \div d) \in Int
         /\ a = (d * (a \div d)) + (a % d)
  OBVIOUS

(* The same as the existence of the two numbers, to name them in a proof.  *)
LEMMA DivModExists ==
  ASSUME NEW d \in Nat \ {0}, NEW a \in Int
  PROVE  \E q \in Int, r \in 0..(d-1) : a = (d * q) + r /\ r = a % d
<1>1. (a \div d) \in Int /\ (a % d) \in 0..(d-1)
  BY DivMod
<1>2. a = (d * (a \div d)) + (a % d)
  BY DivMod
<1> QED
  BY <1>1, <1>2

(* They are the only numbers with that property.                           *)
LEMMA DivModUnique ==
  ASSUME NEW d \in Nat \ {0}, NEW q \in Int, NEW r \in 0..(d-1)
  PROVE  ((q * d) + r) % d = r
  OBVIOUS

(* A number that is its own remainder.                                     *)
LEMMA SmallMod ==
  ASSUME NEW d \in Nat \ {0}, NEW r \in 0..(d-1)
  PROVE  r % d = r
  OBVIOUS

LEMMA Regroup ==
  ASSUME NEW d \in Int, NEW k \in Int, NEW q \in Int, NEW s \in Int, NEW t \in Int
  PROVE  ((k * d) * q) + ((d * s) + t) = (((k * q) + s) * d) + t
<1>1. (k * d) * q = (k * q) * d
  OBVIOUS
<1>2. ((k * q) + s) * d = ((k * q) * d) + (d * s)
  OBVIOUS
<1> QED
  BY <1>1, <1>2

(* A counter that wraps at a multiple of d selects the slot of the counter *)
(* that does not wrap.                                                     *)
LEMMA ModMod ==
  ASSUME NEW d \in Nat \ {0}, NEW m \in Nat \ {0}, m % d = 0, NEW a \in Int
  PROVE  (a % m) % d = a % d
<1>0. PICK k \in Int : m = k * d
  BY DivModExists
<1>1. PICK q \in Int, r \in 0..(m-1) : a = (m * q) + r /\ r = a % m
  BY DivModExists
<1>2. PICK s \in Int, t \in 0..(d-1) : r = (d * s) + t /\ t = r % d
  <2>1. r \in Int
    OBVIOUS
  <2> QED
    BY <2>1, DivModExists
<1>3. a = (((k * q) + s) * d) + t
  <2>1. a = ((k * d) * q) + ((d * s) + t)
    BY <1>0, <1>1, <1>2
  <2>2. t \in Int
    OBVIOUS
  <2>3. ((k * d) * q) + ((d * s) + t) = (((k * q) + s) * d) + t
    BY <2>2, Regroup
  <2> QED
    BY <2>1, <2>3
<1>4. a % d = t
  <2>1. ((k * q) + s) \in Int
    OBVIOUS
  <2> QED
    BY <1>3, <2>1, DivModUnique
<1> QED
  BY <1>1, <1>2, <1>4

(* Adding before or after wrapping is the same.                            *)
LEMMA ModAdd ==
  ASSUME NEW d \in Nat \ {0}, NEW a \in Int, NEW n \in Int
  PROVE  ((a % d) + n) % d = (a + n) % d
<1>1. PICK q \in Int, r \in 0..(d-1) : a = (d * q) + r /\ r = a % d
  BY DivModExists
<1>2. PICK p \in Int, t \in 0..(d-1) : r + n = (d * p) + t /\ t = (r + n) % d
  <2>1. r + n \in Int
    OBVIOUS
  <2> QED
    BY ONLY <2>1, d \in Nat \ {0}, DivModExists
<1>3. a + n = ((q + p) * d) + t /\ (q + p) \in Int
  BY <1>1, <1>2
<1>4. (((q + p) * d) + t) % d = t
  BY ONLY <1>3, d \in Nat \ {0}, t \in 0..(d-1), DivModUnique
<1> QED
  BY <1>1, <1>2, <1>3, <1>4

(* In particular by one.                                                   *)
LEMMA ModSucc ==
  ASSUME NEW d \in Nat \ {0}, NEW a \in Int
  PROVE  ((a % d) + 1) % d = (a + 1) % d
<1>1. 1 \in Int
  OBVIOUS
<1> QED
  BY ONLY <1>1, d \in Nat \ {0}, a \in Int, ModAdd

(* Going once round a ring ends at the same slot.                          *)
LEMMA ModLap ==
  ASSUME NEW d \in Nat \ {0}, NEW a \in Int
  PROVE  (a + d) % d = a % d
<1>1. PICK q \in Int, r \in 0..(d-1) : a = (d * q) + r /\ r = a % d
  BY DivModExists
<1>2. a + d = ((q + 1) * d) + r /\ (q + 1) \in Int
  BY <1>1
<1> QED
  BY <1>1, <1>2, DivModUnique

(* Fewer than d consecutive numbers have distinct slots.                   *)
LEMMA ModDistinct ==
  ASSUME NEW d \in Nat \ {0}, NEW a \in Int, NEW b \in Int, a < b, b < a + d
  PROVE  a % d # b % d
<1> SUFFICES ASSUME a % d = b % d
             PROVE  FALSE
  OBVIOUS
<1>1. PICK p \in Int, r \in 0..(d-1) : a = (d * p) + r /\ r = a % d
  BY DivModExists
<1>2. PICK q \in Int : b = (d * q) + r
  BY <1>1, DivModExists
<1>3. b - a = d * (q - p)
  BY <1>1, <1>2
<1>4. 0 < q - p /\ q - p < 1
  BY <1>3
<1> QED
  BY <1>4

(* The difference of two wrapped counters, wrapped, is their distance.     *)
LEMMA ModDistance ==
  ASSUME NEW d \in Nat \ {0}, NEW a \in Int, NEW b \in Int, a <= b, b < a + d
  PROVE  (b - (a % d)) % d = b - a
<1>1. PICK q \in Int, r \in 0..(d-1) : a = (d * q) + r /\ r = a % d
  BY DivModExists
<1>2. b - (a % d) = (q * d) + (b - a)
  BY <1>1
<1>3. (b - a) \in 0..(d-1)
  OBVIOUS
<1> QED
  BY <1>2, <1>3, DivModUnique

(***************************************************************************)
(* Slots and lap bits.                                                     *)
(***************************************************************************)
LEMMA ConstantsNat == NCqe \in Nat \ {0} /\ CtrMod \in Nat \ {0} /\ CiMod \in Nat \ {0}
  BY NCqeAssumption, CtrModAssumption, CiModAssumption

LEMMA SlotType == \A e \in Nat : Slot(e) \in 0..NCqe-1
  BY ConstantsNat, DivMod DEF Slot

LEMMA LapBitType == \A e \in Nat : LapBit(e) \in {0, 1}
  BY DEF LapBit

(* The wrapped consumer index selects the slot and the lap bit of the      *)
(* unwrapped one.                                                          *)
LEMMA WrappedIndex ==
  ASSUME NEW e \in Nat
  PROVE  Slot(e % CtrMod) = Slot(e) /\ LapBit(e % CtrMod) = LapBit(e)
<1>1. 2 * NCqe \in Nat \ {0} /\ CtrMod % (2 * NCqe) = 0 /\ e \in Int
  BY ConstantsNat, CtrModAssumption
<1>2. (e % CtrMod) % (2 * NCqe) = e % (2 * NCqe)
  BY <1>1, ConstantsNat, ModMod
<1>3. CtrMod % NCqe = 0
  <2>1. PICK k \in Int : CtrMod = (2 * NCqe) * k
    BY <1>1, ConstantsNat, DivModExists
  <2>2. CtrMod = ((2 * k) * NCqe) + 0 /\ 2 * k \in Int /\ 0 \in 0..NCqe-1
    BY <2>1, ConstantsNat
  <2> QED
    BY <2>2, ConstantsNat, DivModUnique
<1>4. (e % CtrMod) % NCqe = e % NCqe
  BY <1>1, <1>3, ConstantsNat, ModMod
<1> QED
  BY <1>2, <1>4 DEF Slot, LapBit

(* One lap later the slot is the same and the bit has flipped.             *)
LEMMA NextLap ==
  ASSUME NEW e \in Nat
  PROVE  Slot(e + NCqe) = Slot(e) /\ LapBit(e + NCqe) # LapBit(e)
<1> DEFINE D == 2 * NCqe
<1>1. D \in Nat \ {0} /\ NCqe \in Nat \ {0} /\ e \in Int
  BY ConstantsNat
<1>2. Slot(e + NCqe) = Slot(e)
  BY <1>1, ModLap DEF Slot
<1>3. PICK q \in Int, r \in 0..(D-1) : e = (D * q) + r /\ r = e % D
  BY <1>1, DivModExists
<1>4. CASE r < NCqe
  <2>1. e + NCqe = (q * D) + (r + NCqe)
    BY <1>1, <1>3
  <2>2. r + NCqe \in 0..(D-1)
    BY <1>1, <1>4
  <2>3. (e + NCqe) % D = r + NCqe
    BY <1>1, <2>1, <2>2, DivModUnique
  <2> QED
    BY <1>1, <1>2, <1>3, <1>4, <2>3 DEF LapBit
<1>5. CASE r >= NCqe
  <2>1. e + NCqe = ((q + 1) * D) + (r - NCqe) /\ q + 1 \in Int
    BY <1>1, <1>3
  <2>2. r - NCqe \in 0..(D-1)
    BY <1>1, <1>5
  <2>3. (e + NCqe) % D = r - NCqe
    BY <1>1, <2>1, <2>2, DivModUnique
  <2> QED
    BY <1>1, <1>2, <1>3, <1>5, <2>3 DEF LapBit
<1> QED
  BY <1>1, <1>4, <1>5

(* Two entries less than a lap apart are in different slots.               *)
LEMMA DistinctSlots ==
  ASSUME NEW a \in Nat, NEW b \in Nat, a # b, a < b + NCqe, b < a + NCqe
  PROVE  Slot(a) # Slot(b)
<1>1. a \in Int /\ b \in Int
  OBVIOUS
<1>2. CASE a < b
  BY <1>1, <1>2, ConstantsNat, ModDistinct DEF Slot
<1>3. CASE b < a
  BY <1>1, <1>3, ConstantsNat, ModDistinct DEF Slot
<1> QED
  BY <1>2, <1>3

(***************************************************************************)
(* The test of get_sw_cqe is exact.                                        *)
(***************************************************************************)
LEMMA SwOwnedExact ==
  ASSUME IndInv
  PROVE  OwnedIffPending
<1> USE DEF IndInv
<1>1. consumed \in Nat /\ produced \in Nat /\ submitted \in Nat /\ NCqe \in Nat \ {0}
  BY ConstantsNat DEF TypeOK
<1>2. /\ Slot(cons_index) = Slot(consumed)
      /\ LapBit(cons_index) = LapBit(consumed)
  BY <1>1, WrappedIndex DEF IndicesWrap
<1>3. consumed <= produced /\ produced <= consumed + NCqe
  BY <1>1 DEF CountersOrdered, reported, TypeOK
<1>4. CASE consumed < produced
  BY <1>1, <1>2, <1>3, <1>4 DEF RingHolds, OwnedIffPending, SwOwned
<1>5. CASE consumed = produced /\ produced < NCqe
  <2>1. cqe[Slot(consumed)].op = CQE_INVALID
    BY <1>1, <1>5 DEF RingHolds
  <2> QED
    BY <1>1, <1>2, <1>5, <2>1 DEF OwnedIffPending, SwOwned
<1>6. CASE consumed = produced /\ produced >= NCqe
  <2> DEFINE e == consumed - NCqe
  <2>1. e \in Nat /\ e < produced /\ produced <= e + NCqe /\ e + NCqe = consumed
    BY <1>1, <1>6
  <2>2. cqe[Slot(e)].own = LapBit(e)
    BY <2>1 DEF RingHolds
  <2>3. cqe[Slot(consumed)].own # LapBit(consumed)
    BY <2>1, <2>2, NextLap
  <2> QED
    BY <1>1, <1>2, <1>6, <2>3 DEF OwnedIffPending, SwOwned
<1> QED
  BY <1>1, <1>3, <1>4, <1>5, <1>6

(***************************************************************************)
(* The invariant is inductive: one lemma per action, then the theorem.     *)
(***************************************************************************)
LEMMA InitIndInv == Init => IndInv
<1> SUFFICES ASSUME Init
             PROVE  IndInv
  OBVIOUS
<1> USE ConstantsNat DEF Init
<1>1. TypeOK
  <2>1. cqe \in [0..NCqe-1 -> [op : Opcodes, own : {0, 1}, id : Int]]
    BY DEF Opcodes
  <2>2. 0 \in 0..CtrMod-1 /\ 0 \in 0..CiMod-1
    OBVIOUS
  <2> QED
    BY <2>1, <2>2 DEF TypeOK
<1>2. CountersOrdered
  BY DEF CountersOrdered, reported
<1>3. IndicesWrap
  <2>1. 0 % CtrMod = 0 /\ 0 % CiMod = 0
    BY SmallMod
  <2> QED
    BY <2>1 DEF IndicesWrap, reported
<1>4. RingHolds
  BY SlotType DEF RingHolds, CQE_INVALID
<1> QED
  BY <1>1, <1>2, <1>3, <1>4 DEF IndInv, OpcodeSeen

LEMMA SubmitKeeps ==
  ASSUME IndInv, NEW n \in 1..NCqe, Submit(n)
  PROVE  IndInv'
<1> USE ConstantsNat DEF IndInv, Submit, driverVars, deviceVars, TypeOK
<1>1. TypeOK'
  OBVIOUS
<1>2. CountersOrdered'
  BY DEF CountersOrdered, reported
<1>3. IndicesWrap'
  <2>1. reported' = reported /\ reported = consumed
    BY DEF reported
  <2>2. ciSeen' = reported % CiMod /\ reported \in 0..reported
    BY <2>1 DEF IndicesWrap
  <2>3. submitted' <= reported + NCqe
    BY <2>1
  <2> QED
    BY <2>1, <2>2, <2>3 DEF IndicesWrap
<1>4. RingHolds'
  BY DEF RingHolds
<1> QED
  BY <1>1, <1>2, <1>3, <1>4 DEF OpcodeSeen

LEMMA PollStartKeeps ==
  ASSUME IndInv, NEW n \in 1..MaxNe, PollStart(n)
  PROVE  IndInv'
<1> USE ConstantsNat DEF IndInv, PollStart, deviceVars, TypeOK
<1>1. TypeOK'
  BY BoundAssumption
<1>2. reported' = reported
  BY DEF reported
<1>3. CountersOrdered' /\ IndicesWrap'
  BY <1>2 DEF CountersOrdered, IndicesWrap
<1>4. RingHolds'
  BY DEF RingHolds
<1> QED
  BY <1>1, <1>3, <1>4 DEF OpcodeSeen

LEMMA ReadOpcodeKeeps ==
  ASSUME IndInv, ReadOpcode
  PROVE  IndInv'
<1> USE ConstantsNat DEF IndInv, ReadOpcode, deviceVars, TypeOK
<1>1. TypeOK'
  OBVIOUS
<1>2. CountersOrdered' /\ IndicesWrap'
  BY DEF CountersOrdered, IndicesWrap, reported
<1>3. RingHolds'
  BY DEF RingHolds
<1> QED
  BY <1>1, <1>2, <1>3 DEF OpcodeSeen

LEMMA SeeOldLapKeeps ==
  ASSUME IndInv, SeeOldLap
  PROVE  IndInv'
<1> USE ConstantsNat DEF IndInv, SeeOldLap, deviceVars, TypeOK
<1>1. TypeOK'
  OBVIOUS
<1>2. CountersOrdered' /\ IndicesWrap'
  BY DEF CountersOrdered, IndicesWrap, reported
<1>3. RingHolds'
  BY DEF RingHolds
<1> QED
  BY <1>1, <1>2, <1>3 DEF OpcodeSeen

(* An entry is taken only when one is pending: both loads of op_own agree  *)
(* with what SwOwned says of the entry now, since the device does not      *)
(* write an entry that was not taken.                                      *)
LEMMA TakeIsPending ==
  ASSUME IndInv, TakeCqe
  PROVE  consumed < produced
  BY SwOwnedExact DEF IndInv, TakeCqe, OpcodeSeen, OwnedIffPending, SwOwned

LEMMA TakeCqeKeeps ==
  ASSUME IndInv, TakeCqe
  PROVE  IndInv'
<1> USE ConstantsNat DEF IndInv, TakeCqe, deviceVars, TypeOK
<1>1. consumed < produced
  BY TakeIsPending
<1>2. reported' = reported
  BY DEF reported
<1>3. cons_index' = consumed' % CtrMod
  <2>1. consumed \in Int
    OBVIOUS
  <2>2. ((consumed % CtrMod) + 1) % CtrMod = (consumed + 1) % CtrMod
    BY ONLY <2>1, ConstantsNat, ModSucc
  <2> QED
    BY <2>2 DEF IndicesWrap
<1>4. TypeOK'
  <2>1. cons_index' \in 0..CtrMod-1
    BY <1>3, DivMod
  <2> QED
    BY <2>1
<1>5. CountersOrdered'
  BY <1>1, <1>2 DEF CountersOrdered
<1>6. IndicesWrap'
  BY <1>2, <1>3 DEF IndicesWrap
<1>7. RingHolds'
  <2>1. cqe' = cqe /\ produced' = produced /\ writing' = writing
    OBVIOUS
  <2>2. \A e \in Nat : consumed' <= e => consumed <= e
    OBVIOUS
  <2> QED
    BY <2>1, <2>2 DEF RingHolds
<1> QED
  BY <1>4, <1>5, <1>6, <1>7 DEF OpcodeSeen

LEMMA SetCiKeeps ==
  ASSUME IndInv, SetCi
  PROVE  IndInv'
<1> USE ConstantsNat DEF IndInv, SetCi, deviceVars, TypeOK
<1>1. reported' = consumed /\ reported <= consumed
  BY DEF reported
<1>2. ciStored' = consumed % CiMod
  <2>1. CtrMod % CiMod = 0
    BY CiModAssumption
  <2>2. consumed \in Int
    OBVIOUS
  <2>3. (consumed % CtrMod) % CiMod = consumed % CiMod
    BY ONLY <2>1, <2>2, ConstantsNat, ModMod
  <2> QED
    BY <2>3 DEF IndicesWrap
<1>3. TypeOK'
  <2>1. ciStored' \in 0..CiMod-1
    BY <1>2, DivMod
  <2> QED
    BY <2>1
<1>4. CountersOrdered'
  BY <1>1 DEF CountersOrdered, reported
<1>5. IndicesWrap'
  <2>1. \E c \in 0..consumed : ciSeen = c % CiMod /\ submitted <= c + NCqe
    <3>1. PICK c \in 0..reported : ciSeen = c % CiMod /\ submitted <= c + NCqe
      BY DEF IndicesWrap
    <3>2. c \in 0..consumed
      BY <1>1 DEF CountersOrdered
    <3> QED
      BY <3>1, <3>2
  <2> QED
    BY <1>1, <1>2, <2>1 DEF IndicesWrap
<1>6. RingHolds'
  BY DEF RingHolds
<1> QED
  BY <1>3, <1>4, <1>5, <1>6 DEF OpcodeSeen

LEMMA DrainCiKeeps ==
  ASSUME IndInv, DrainCi
  PROVE  IndInv'
<1> USE ConstantsNat DEF IndInv, DrainCi, driverVars, deviceVars, TypeOK
<1>1. TypeOK'
  OBVIOUS
<1>2. CountersOrdered'
  BY DEF CountersOrdered, reported
<1>3. IndicesWrap'
  <2>1. reported' = reported
    BY DEF reported
  <2>2. ciSeen' = reported % CiMod /\ reported \in 0..reported
    BY DEF IndicesWrap, CountersOrdered
  <2> QED
    BY <2>1, <2>2 DEF IndicesWrap, CountersOrdered
<1>4. RingHolds'
  BY DEF RingHolds
<1> QED
  BY <1>1, <1>2, <1>3, <1>4 DEF OpcodeSeen

(* The body of the entry being written is not one the driver may still     *)
(* read: the caller's discipline keeps it less than a lap ahead.           *)
LEMMA HcaWriteBodyKeeps ==
  ASSUME IndInv, HcaWriteBody
  PROVE  IndInv'
<1> USE ConstantsNat DEF IndInv, HcaWriteBody, driverVars
<1>1. produced \in Nat /\ Slot(produced) \in 0..NCqe-1
  BY SlotType DEF TypeOK
<1>2. /\ cqe' \in [0..NCqe-1 -> [op : Opcodes, own : {0, 1}, id : Int]]
      /\ cqe'[Slot(produced)].id = produced
      /\ \A s \in 0..NCqe-1 : cqe'[s].op = cqe[s].op /\ cqe'[s].own = cqe[s].own
      /\ \A s \in 0..NCqe-1 : s # Slot(produced) => cqe'[s] = cqe[s]
  <2> DEFINE Entry == [op : Opcodes, own : {0, 1}, id : Int]
             new   == [cqe[Slot(produced)] EXCEPT !.id = produced]
  <2>1. cqe \in [0..NCqe-1 -> Entry]
    BY DEF TypeOK
  <2>2. cqe' = [cqe EXCEPT ![Slot(produced)] = new]
    OBVIOUS
  <2>3. cqe[Slot(produced)] \in Entry
    BY <1>1, <2>1
  <2>4. /\ new \in Entry
        /\ new.id = produced
        /\ new.op = cqe[Slot(produced)].op
        /\ new.own = cqe[Slot(produced)].own
    BY <1>1, <2>3
  <2> QED
    BY <1>1, <2>1, <2>2, <2>4
<1>3. TypeOK'
  BY <1>2 DEF TypeOK
<1>4. CountersOrdered' /\ IndicesWrap'
  BY DEF CountersOrdered, IndicesWrap, reported
<1>5. RingHolds'
  <2>1. ASSUME NEW e \in Nat, e < produced, produced <= e + NCqe
        PROVE  cqe'[Slot(e)].op # CQE_INVALID /\ cqe'[Slot(e)].own = LapBit(e)
    BY <1>2, <2>1, SlotType DEF RingHolds
  <2>2. ASSUME NEW e \in Nat, produced <= e, e < NCqe
        PROVE  cqe'[Slot(e)].op = CQE_INVALID
    BY <1>2, <2>2, SlotType DEF RingHolds
  <2>3. ASSUME NEW e \in Nat, consumed <= e, e < produced
        PROVE  cqe'[Slot(e)].id = e
    <3>1. produced < e + NCqe
      <4>1. reported <= consumed /\ reported \in Nat
        BY DEF CountersOrdered, reported, TypeOK
      <4> QED
        BY <2>3, <4>1 DEF CountersOrdered, TypeOK
    <3>2. Slot(e) # Slot(produced)
      BY <1>1, <2>3, <3>1, DistinctSlots
    <3> QED
      BY <1>2, <2>3, <3>2, SlotType DEF RingHolds
  <2> QED
    BY <1>2, <2>1, <2>2, <2>3 DEF RingHolds
<1>6. OpcodeSeen'
  <2>1. cons_index \in Nat
    BY DEF TypeOK
  <2> QED
    BY <1>2, <2>1, SlotType DEF OpcodeSeen
<1> QED
  BY <1>3, <1>4, <1>5, <1>6

LEMMA HcaWriteOwnerKeeps ==
  ASSUME IndInv, NEW op \in HwOpcodes, HcaWriteOwner(op)
  PROVE  IndInv'
<1> USE ConstantsNat DEF IndInv, HcaWriteOwner, driverVars
<1>1. produced \in Nat /\ Slot(produced) \in 0..NCqe-1 /\ LapBit(produced) \in {0, 1}
  BY SlotType, LapBitType DEF TypeOK
<1>2. op \in Opcodes /\ op # CQE_INVALID
  BY DEF Opcodes, HwOpcodes, CQE_INVALID
<1>3. /\ cqe' \in [0..NCqe-1 -> [op : Opcodes, own : {0, 1}, id : Int]]
      /\ cqe'[Slot(produced)].op = op /\ cqe'[Slot(produced)].own = LapBit(produced)
      /\ \A s \in 0..NCqe-1 : cqe'[s].id = cqe[s].id
      /\ \A s \in 0..NCqe-1 : s # Slot(produced) => cqe'[s] = cqe[s]
  BY <1>1, <1>2 DEF TypeOK
<1>4. TypeOK'
  <2>1. produced' \in Nat
    BY <1>1
  <2>2. writing' \in BOOLEAN
    OBVIOUS
  <2> QED
    BY <1>3, <2>1, <2>2 DEF TypeOK
<1>5. CountersOrdered' /\ IndicesWrap'
  <2>1. reported' = reported
    BY DEF reported
  <2>2. consumed' <= produced' /\ produced' <= submitted'
    BY DEF CountersOrdered, TypeOK
  <2> QED
    BY <2>1, <2>2 DEF CountersOrdered, IndicesWrap
<1>6. RingHolds'
  <2>1. ASSUME NEW e \in Nat, e < produced + 1, produced + 1 <= e + NCqe
        PROVE  cqe'[Slot(e)].op # CQE_INVALID /\ cqe'[Slot(e)].own = LapBit(e)
    <3>1. CASE e = produced
      BY <1>2, <1>3, <3>1
    <3>2. CASE e # produced
      <4>1. e < produced /\ produced < e + NCqe
        BY <1>1, <2>1, <3>2
      <4>2. Slot(e) # Slot(produced)
        BY <1>1, <4>1, DistinctSlots
      <4> QED
        BY <1>1, <1>3, <4>1, <4>2, SlotType DEF RingHolds
    <3> QED
      BY <3>1, <3>2
  <2>2. ASSUME NEW e \in Nat, produced + 1 <= e, e < NCqe
        PROVE  cqe'[Slot(e)].op = CQE_INVALID
    <3>1. Slot(e) # Slot(produced)
      BY <1>1, <2>2, DistinctSlots
    <3> QED
      BY <1>1, <1>3, <2>2, <3>1, SlotType DEF RingHolds
  <2>3. ASSUME NEW e \in Nat, consumed <= e, e < produced + 1
        PROVE  cqe'[Slot(e)].id = e
    BY <1>1, <1>3, <2>3, SlotType DEF RingHolds
  <2>4. produced' = produced + 1 /\ consumed' = consumed /\ writing' = FALSE
    OBVIOUS
  <2> QED
    BY <2>1, <2>2, <2>3, <2>4 DEF RingHolds
<1>7. OpcodeSeen'
  <2>1. Slot(cons_index) \in 0..NCqe-1
    BY SlotType DEF TypeOK
  <2> QED
    BY <1>2, <1>3, <2>1 DEF OpcodeSeen
<1> QED
  BY <1>4, <1>5, <1>6, <1>7

LEMMA NextIndInv ==
  ASSUME IndInv, [Next]_vars
  PROVE  IndInv'
<1>1. CASE UNCHANGED vars
  BY <1>1 DEF vars, IndInv, TypeOK, CountersOrdered, IndicesWrap, RingHolds,
              OpcodeSeen, reported
<1>2. CASE \E n \in 1..NCqe : Submit(n)
  BY <1>2, SubmitKeeps
<1>3. CASE \E n \in 1..MaxNe : PollStart(n)
  BY <1>3, PollStartKeeps
<1>4. CASE Poll
  BY <1>4, ReadOpcodeKeeps, SeeOldLapKeeps, TakeCqeKeeps, SetCiKeeps DEF Poll
<1>5. CASE DrainCi
  BY <1>5, DrainCiKeeps
<1>6. CASE Hca
  BY <1>6, HcaWriteBodyKeeps, HcaWriteOwnerKeeps DEF Hca
<1> QED
  BY <1>1, <1>2, <1>3, <1>4, <1>5, <1>6 DEF Next

(* The invariant holds in every state the driver and the device reach.     *)
THEOREM Invariance == Spec => []IndInv
  BY InitIndInv, NextIndInv, PTL DEF Spec

(***************************************************************************)
(* What the runs check, for every value of the constants.                  *)
(***************************************************************************)

(* Type correctness: in particular cons_index stays a 32-bit number and    *)
(* the doorbell record a 24-bit one.                                       *)
THEOREM TypeCorrect == Spec => []TypeOK
  BY Invariance, PTL DEF IndInv

(* The owner-bit test of get_sw_cqe never takes an old entry for a new one *)
(* and never misses a new one.                                             *)
THEOREM OwnershipExact == Spec => []OwnedIffPending
  BY Invariance, SwOwnedExact, PTL

(* get_next_cqe hands out every completion once, in order and complete.    *)
THEOREM TakesInOrder == Spec => TakesNextIntact
<1> DEFINE Intact == consumed' # consumed => /\ consumed' = consumed + 1
                                             /\ consumed < produced
                                             /\ cqe[Slot(cons_index)].id = consumed
<1>1. ASSUME IndInv, [Next]_vars
      PROVE  [Intact]_vars
  <2>1. CASE TakeCqe
    <3>1. consumed < produced /\ consumed \in Nat
      BY <1>1, <2>1, TakeIsPending DEF IndInv, TypeOK
    <3>2. cqe[Slot(consumed)].id = consumed
      BY <1>1, <3>1 DEF IndInv, RingHolds
    <3>3. Slot(cons_index) = Slot(consumed)
      BY <1>1, <3>1, WrappedIndex DEF IndInv, IndicesWrap
    <3> QED
      BY <2>1, <3>1, <3>2, <3>3 DEF TakeCqe
  <2>2. CASE ~TakeCqe
    <3>1. UNCHANGED consumed
      BY <1>1, <2>2 DEF Next, vars, Submit, PollStart, Poll, ReadOpcode, SeeOldLap,
           SetCi, DrainCi, Hca, HcaWriteBody, HcaWriteOwner, driverVars
    <3> QED
      BY <3>1
  <2> QED
    BY <2>1, <2>2
<1>2. QED
  BY <1>1, Invariance, PTL DEF Spec, TakesNextIntact

(* The device computes the distance from a published consumer index that   *)
(* lags the real one: entries in use are never fewer than entries unread,  *)
(* and never more than requests outstanding.                               *)
LEMMA UsedBounds ==
  ASSUME IndInv
  PROVE  CiCoversUnread /\ NoOverrun
<1> USE ConstantsNat DEF IndInv
<1>1. PICK c \in 0..reported : ciSeen = c % CiMod /\ submitted <= c + NCqe
  BY DEF IndicesWrap
<1>2. /\ c \in Int /\ produced \in Int /\ submitted \in Int /\ consumed \in Int
      /\ c <= consumed /\ c <= produced /\ produced <= submitted
  BY <1>1 DEF CountersOrdered, reported, TypeOK
<1>3. produced < c + CiMod
  BY <1>1, <1>2, CiModAssumption
<1>4. UsedPerDevice = produced - c
  <2>1. (produced - (c % CiMod)) % CiMod = produced - c
    BY ONLY <1>2, <1>3, ConstantsNat, ModDistance
  <2> QED
    BY <1>1, <2>1 DEF UsedPerDevice
<1> QED
  BY <1>1, <1>2, <1>4 DEF CiCoversUnread, NoOverrun

(* The device never reuses an entry the driver has still to read.          *)
THEOREM UnreadProtected == Spec => []CiCoversUnread
  BY Invariance, UsedBounds, PTL

(* The device always has room for the next completion.                     *)
THEOREM OverrunFree == Spec => []NoOverrun
  BY Invariance, UsedBounds, PTL

(* The completion queue implements the abstract channel: taking an entry   *)
(* is invisible to the caller, returning from pp_dv_poll_cq tells it of    *)
(* all entries the call has taken.                                         *)
THEOREM Refinement == Spec => ImplementsChannel
<1>1. Init => Channel!Init
  BY DEF Init, Channel!Init, reported
<1>2. ASSUME IndInv, [Next]_vars
      PROVE  [Channel!Next]_(Channel!vars)
  <2> USE ConstantsNat DEF IndInv, Channel!vars
  <2> DEFINE Same == UNCHANGED <<submitted, produced, reported>>
  <2>1. CASE UNCHANGED vars
    BY <1>2, <2>1 DEF vars, reported
  <2>2. ASSUME NEW n \in 1..NCqe, Submit(n)
        PROVE  Channel!Ask
    <3>1. reported' = reported /\ produced' = produced
      BY <2>2 DEF Submit, driverVars, deviceVars, reported
    <3>2. reported = consumed
      BY <2>2 DEF Submit, reported
    <3> QED
      BY <2>2, <3>1, <3>2 DEF Submit, Channel!Ask
  <2>3. ASSUME NEW n \in 1..MaxNe, PollStart(n)
        PROVE  Same
    BY <1>2, <2>3 DEF PollStart, deviceVars, reported, TypeOK
  <2>4. ASSUME ReadOpcode \/ SeeOldLap \/ TakeCqe
        PROVE  Same
    BY <1>2, <2>4 DEF ReadOpcode, SeeOldLap, TakeCqe, deviceVars, reported, TypeOK
  <2>5. CASE SetCi
    <3>1. /\ submitted' = submitted /\ produced' = produced
          /\ reported = consumed - npolled /\ reported' = consumed
      BY <2>5 DEF SetCi, deviceVars, reported
    <3>2. /\ npolled \in Nat /\ reported' = reported + npolled
          /\ reported + npolled <= produced
      BY <1>2, <3>1 DEF TypeOK, CountersOrdered
    <3>3. CASE npolled = 0
      BY <3>1, <3>2, <3>3, <1>2 DEF TypeOK
    <3>4. CASE npolled # 0
      <4>1. npolled \in 1..NCqe
        BY <1>2, <3>1, <3>2, <3>4 DEF CountersOrdered, TypeOK
      <4> QED
        BY <3>1, <3>2, <4>1 DEF Channel!Next, Channel!Tell
    <3> QED
      BY <3>3, <3>4
  <2>6. CASE DrainCi
    BY <2>6 DEF DrainCi, driverVars, deviceVars, reported
  <2>7. CASE HcaWriteBody
    BY <2>7 DEF HcaWriteBody, driverVars, reported
  <2>8. ASSUME NEW op \in HwOpcodes, HcaWriteOwner(op)
        PROVE  Channel!Finish
    <3>1. reported' = reported /\ submitted' = submitted
      BY <2>8 DEF HcaWriteOwner, driverVars, reported
    <3>2. produced < submitted /\ produced' = produced + 1
      BY <1>2, <2>8 DEF HcaWriteOwner, CountersOrdered
    <3> QED
      BY <3>1, <3>2 DEF Channel!Finish
  <2> QED
    BY <1>2, <2>1, <2>2, <2>3, <2>4, <2>5, <2>6, <2>7, <2>8
       DEF Next, Poll, Hca, Channel!Next
<1>3. QED
  BY <1>1, <1>2, Invariance, PTL DEF Spec, ImplementsChannel, Channel!Spec
==============================================================================
