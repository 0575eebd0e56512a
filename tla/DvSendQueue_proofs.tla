------------------------- MODULE DvSendQueue_proofs -------------------------
(***************************************************************************)
(* Theorems about DvSendQueue, for every ring size, every width of the     *)
(* counters that is a multiple of it, every number of requests and every   *)
(* number of retransmissions.                                              *)
(***************************************************************************)
EXTENDS DvSendQueue, TLAPS

(***************************************************************************)
(* The inductive invariant.                                                *)
(***************************************************************************)

(* What the doorbell record stands for: as the driver stored it last, and  *)
(* as the device sees it.                                                  *)
published == IF pc = "dbr" THEN posted - 1 ELSE posted
announced == IF dbSeen = dbStored THEN published ELSE posted - 1

(* Requests of the running call that have no WQE yet.                      *)
toWrite == CASE pc = "idle" -> 0 [] pc = "write" -> left [] OTHER -> left - 1

CountersOrdered ==
  /\ acked <= done
  /\ done <= hwNext
  /\ hwNext <= announced
  /\ posted + toWrite <= acked + MaxPost
  /\ pc # "idle" => left >= 1
  /\ pc \in {"dbr", "ring"} => posted >= 1

(* The wrapped counters are the history counters, wrapped, and the device  *)
(* lags the doorbell record only between its store and the next barrier.   *)
IndicesWrap ==
  /\ cur_post = posted % CtrMod
  /\ dbStored = published % DbMod
  /\ dbSeen = announced % DbMod
  /\ dbSeen # dbStored => pc = "ring"

(* Every request not completed is intact in the ring, and the device lags  *)
(* only in the slot written last, until the first barrier.                 *)
RingHolds ==
  /\ \A r \in Nat : done <= r /\ r < posted => Intact(wqeStored, r)
  /\ \A p \in Slots \X Units :
       wqeSeen[p] # wqeStored[p] => pc = "dbr" /\ p[1] = Slot(posted - 1)

IndInv == TypeOK /\ CountersOrdered /\ IndicesWrap /\ RingHolds

(***************************************************************************)
(* Remainders: the ring is indexed by counters that wrap and are masked    *)
(* again to a slot number; a smaller modulus divides a larger one.         *)
(***************************************************************************)
(* Quotient and remainder of an integer by a positive d.                   *)
LEMMA DivMod ==
  ASSUME NEW d \in Nat \ {0}, NEW a \in Int
  PROVE  /\ (a % d) \in 0..(d-1)
         /\ (a \div d) \in Int
         /\ a = (d * (a \div d)) + (a % d)
  OBVIOUS

(* The same as the existence of the two numbers, to name them in a proof.  *)
LEMMA DivModExists ==
  ASSUME NEW d \in Nat \ {0}, NEW a \in Int
  PROVE  \E q \in Int, r \in 0..(d-1) : a = (d * q) + r /\ r = a % d
<1>1. (a \div d) \in Int /\ (a % d) \in 0..(d-1)
  BY DivMod
<1>2. a = (d * (a \div d)) + (a % d)
  BY DivMod
<1> QED
  BY <1>1, <1>2

(* They are the only numbers with that property.                           *)
LEMMA DivModUnique ==
  ASSUME NEW d \in Nat \ {0}, NEW q \in Int, NEW r \in 0..(d-1)
  PROVE  ((q * d) + r) % d = r
  OBVIOUS

(* A number that is its own remainder.                                     *)
LEMMA SmallMod ==
  ASSUME NEW d \in Nat \ {0}, NEW r \in 0..(d-1)
  PROVE  r % d = r
  OBVIOUS

LEMMA Regroup ==
  ASSUME NEW d \in Int, NEW k \in Int, NEW q \in Int, NEW s \in Int, NEW t \in Int
  PROVE  ((k * d) * q) + ((d * s) + t) = (((k * q) + s) * d) + t
<1>1. (k * d) * q = (k * q) * d
  OBVIOUS
<1>2. ((k * q) + s) * d = ((k * q) * d) + (d * s)
  OBVIOUS
<1> QED
  BY <1>1, <1>2

(* A counter that wraps at a multiple of d selects the slot of the counter *)
(* that does not wrap.                                                     *)
LEMMA ModMod ==
  ASSUME NEW d \in Nat \ {0}, NEW m \in Nat \ {0}, m % d = 0, NEW a \in Int
  PROVE  (a % m) % d = a % d
<1>0. PICK k \in Int : m = k * d
  BY DivModExists
<1>1. PICK q \in Int, r \in 0..(m-1) : a = (m * q) + r /\ r = a % m
  BY DivModExists
<1>2. PICK s \in Int, t \in 0..(d-1) : r = (d * s) + t /\ t = r % d
  <2>1. r \in Int
    OBVIOUS
  <2> QED
    BY <2>1, DivModExists
<1>3. a = (((k * q) + s) * d) + t
  <2>1. a = ((k * d) * q) + ((d * s) + t)
    BY <1>0, <1>1, <1>2
  <2>2. t \in Int
    OBVIOUS
  <2>3. ((k * d) * q) + ((d * s) + t) = (((k * q) + s) * d) + t
    BY <2>2, Regroup
  <2> QED
    BY <2>1, <2>3
<1>4. a % d = t
  <2>1. ((k * q) + s) \in Int
    OBVIOUS
  <2> QED
    BY <1>3, <2>1, DivModUnique
<1> QED
  BY <1>1, <1>2, <1>4

(* Adding before or after wrapping is the same.                            *)
LEMMA ModAdd ==
  ASSUME NEW d \in Nat \ {0}, NEW a \in Int, NEW n \in Int
  PROVE  ((a % d) + n) % d = (a + n) % d
<1>1. PICK q \in Int, r \in 0..(d-1) : a = (d * q) + r /\ r = a % d
  BY DivModExists
<1>2. PICK p \in Int, t \in 0..(d-1) : r + n = (d * p) + t /\ t = (r + n) % d
  <2>1. r + n \in Int
    OBVIOUS
  <2> QED
    BY ONLY <2>1, d \in Nat \ {0}, DivModExists
<1>3. a + n = ((q + p) * d) + t /\ (q + p) \in Int
  BY <1>1, <1>2
<1>4. (((q + p) * d) + t) % d = t
  BY ONLY <1>3, d \in Nat \ {0}, t \in 0..(d-1), DivModUnique
<1> QED
  BY <1>1, <1>2, <1>3, <1>4

(* In particular by one.                                                   *)
LEMMA ModSucc ==
  ASSUME NEW d \in Nat \ {0}, NEW a \in Int
  PROVE  ((a % d) + 1) % d = (a + 1) % d
<1>1. 1 \in Int
  OBVIOUS
<1> QED
  BY ONLY <1>1, d \in Nat \ {0}, a \in Int, ModAdd

(* Fewer than d consecutive numbers have distinct slots.                   *)
LEMMA ModDistinct ==
  ASSUME NEW d \in Nat \ {0}, NEW a \in Int, NEW b \in Int, a < b, b < a + d
  PROVE  a % d # b % d
<1> SUFFICES ASSUME a % d = b % d
             PROVE  FALSE
  OBVIOUS
<1>1. PICK p \in Int, r \in 0..(d-1) : a = (d * p) + r /\ r = a % d
  BY DivModExists
<1>2. PICK q \in Int : b = (d * q) + r
  BY <1>1, DivModExists
<1>3. b - a = d * (q - p)
  BY <1>1, <1>2
<1>4. 0 < q - p /\ q - p < 1
  BY <1>3
<1> QED
  BY <1>4

(***************************************************************************)
(* Slots, layouts and intact WQEs.                                         *)
(***************************************************************************)
LEMMA ConstantsNat ==
  /\ WqeCnt \in Nat \ {0} /\ DbMod \in Nat \ {0} /\ CtrMod \in Nat \ {0}
  /\ MaxPost \in Nat /\ MaxPost <= WqeCnt /\ WqeCnt < DbMod
  BY WqeCntAssumption, MaxPostAssumption, DbModAssumption, CtrModAssumption

LEMMA SlotType == \A n \in Int : Slot(n) \in Slots
  BY ConstantsNat, DivMod DEF Slot, Slots

(* cur_post wraps at a multiple of the ring size.                          *)
LEMMA WrappedSlot ==
  ASSUME NEW n \in Nat
  PROVE  Slot(n % CtrMod) = Slot(n) /\ (n % CtrMod) % DbMod = n % DbMod
<1>1. n \in Int /\ CtrMod % DbMod = 0 /\ DbMod % WqeCnt = 0 /\ DbMod \in Int
  BY ConstantsNat, CtrModAssumption, DbModAssumption
<1>2. (n % CtrMod) % DbMod = n % DbMod
  BY ONLY <1>1, ConstantsNat, ModMod
<1>3. CtrMod % WqeCnt = 0
  <2>0. DbMod % WqeCnt = 0 /\ CtrMod \in Int
    BY <1>1, ConstantsNat
  <2>1. (CtrMod % DbMod) % WqeCnt = CtrMod % WqeCnt
    BY ONLY <2>0, ConstantsNat, ModMod
  <2>2. 0 % WqeCnt = 0
    BY ConstantsNat, SmallMod
  <2> QED
    BY <1>1, <2>1, <2>2
<1>4. (n % CtrMod) % WqeCnt = n % WqeCnt
  BY ONLY <1>1, <1>3, ConstantsNat, ModMod
<1> QED
  BY <1>2, <1>4 DEF Slot

LEMMA DistinctSlots ==
  ASSUME NEW a \in Int, NEW b \in Int, a < b, b < a + WqeCnt
  PROVE  Slot(a) # Slot(b)
  BY ConstantsNat, ModDistinct DEF Slot

LEMMA LayoutFacts ==
  ASSUME NEW op \in Opcodes
  PROVE  /\ Len(Layout(op)) \in 1..3
         /\ Layout(op)[1] = "ctrl"
         /\ \A u \in 1..Len(Layout(op)) : Layout(op)[u] \in {"ctrl", "raddr", "data"}
  BY DEF Layout, Opcodes

(* Whether a WQE is intact depends on its own slot only.                   *)
LEMMA IntactBySlot ==
  ASSUME NEW m, NEW n, NEW r \in Nat, Intact(m, r),
         \A u \in Units : n[<<Slot(r), u>>] = m[<<Slot(r), u>>]
  PROVE  Intact(n, r)
<1> DEFINE op == m[<<Slot(r), 1>>].op
<1>1. 1 \in Units /\ op \in Opcodes
  BY DEF Intact, Units
<1>2. n[<<Slot(r), 1>>] = m[<<Slot(r), 1>>]
  BY <1>1
<1>3. \A u \in 1..Len(Layout(op)) : u \in Units
  BY <1>1, LayoutFacts DEF Units
<1> QED
  BY <1>1, <1>2, <1>3 DEF Intact

(* What WriteWqe writes is intact.                                         *)
LEMMA WrittenIntact ==
  ASSUME NEW m, NEW r \in Nat, NEW op \in Opcodes,
         \A u \in 1..Len(Layout(op)) :
           m[<<Slot(r), u>>] = [seg |-> Layout(op)[u], op |-> op, req |-> r]
  PROVE  Intact(m, r)
<1>1. m[<<Slot(r), 1>>].op = op
  <2>1. 1 \in 1..Len(Layout(op))
    BY LayoutFacts
  <2>2. m[<<Slot(r), 1>>] = [seg |-> Layout(op)[1], op |-> op, req |-> r]
    BY <2>1
  <2> QED
    BY <2>2
<1> QED
  BY <1>1 DEF Intact

(***************************************************************************)
(* The invariant is inductive: one lemma per group of actions.             *)
(***************************************************************************)
LEMMA InitIndInv == Init => IndInv
<1> SUFFICES ASSUME Init
             PROVE  IndInv
  OBVIOUS
<1> USE ConstantsNat DEF Init
<1>1. TypeOK
  <2>1. NoUnit \in Content
    BY DEF NoUnit, Content
  <2>2. wqeStored \in [Slots \X Units -> Content]
    BY <2>1
  <2>3. 0 \in 0..DbMod-1 /\ 0 \in 0..CtrMod-1 /\ "SEND_IMM" \in Opcodes
    BY DEF Opcodes
  <2> QED
    BY <2>2, <2>3 DEF TypeOK
<1>2. published = 0 /\ announced = 0 /\ toWrite = 0
  BY DEF published, announced, toWrite
<1>3. CountersOrdered
  BY <1>2 DEF CountersOrdered
<1>4. IndicesWrap
  <2>1. 0 % CtrMod = 0 /\ 0 % DbMod = 0
    BY SmallMod
  <2> QED
    BY <1>2, <2>1 DEF IndicesWrap
<1>5. RingHolds
  BY DEF RingHolds
<1> QED
  BY <1>1, <1>3, <1>4, <1>5 DEF IndInv

LEMMA CallKeeps ==
  ASSUME IndInv, NEW n \in 0..MaxPost+1, NEW op \in Opcodes, NEW inline \in BOOLEAN,
         PostSend(n, op, inline) \/ RefuseSend(n, op, inline)
  PROVE  IndInv'
<1> USE ConstantsNat DEF IndInv, seenVars, deviceVars
<1>1. CASE PostSend(n, op, inline)
  <2> USE <1>1 DEF PostSend, Valid
  <2>1. TypeOK'
    BY DEF TypeOK
  <2>2. published' = published /\ announced' = announced /\ toWrite' = n
    BY DEF published, announced, toWrite
  <2>3. CountersOrdered'
    BY <2>2 DEF CountersOrdered, TypeOK
  <2>4. IndicesWrap'
    BY <2>2 DEF IndicesWrap
  <2>5. RingHolds'
    BY DEF RingHolds
  <2> QED
    BY <2>1, <2>3, <2>4, <2>5
<1>2. CASE RefuseSend(n, op, inline)
  <2> USE <1>2 DEF RefuseSend
  <2>1. TypeOK'
    BY DEF TypeOK
  <2>2. published' = published /\ announced' = announced /\ toWrite' = toWrite
    BY DEF published, announced, toWrite
  <2>3. CountersOrdered' /\ IndicesWrap' /\ RingHolds'
    BY <2>2 DEF CountersOrdered, IndicesWrap, RingHolds
  <2> QED
    BY <2>1, <2>3
<1> QED
  BY <1>1, <1>2

(* The slot a WQE is written to belongs to no request the device may still *)
(* fetch: the requests outstanding are fewer than the slots.               *)
LEMMA WriteWqeKeeps ==
  ASSUME IndInv, WriteWqe
  PROVE  IndInv'
<1> USE ConstantsNat DEF IndInv, WriteWqe, seenVars, deviceVars
<1> DEFINE L == Len(Layout(opcode))
           Unit(u) == [seg |-> Layout(opcode)[u], op |-> opcode, req |-> posted]
<1>1. posted \in Nat /\ opcode \in Opcodes /\ left \in Nat /\ Slot(cur_post) = Slot(posted)
  BY WrappedSlot DEF TypeOK, IndicesWrap
<1>2. L \in 1..3 /\ \A u \in 1..L : Unit(u) \in Content
  BY <1>1, LayoutFacts DEF Content
<1>3. \A p \in Slots \X Units :
        wqeStored'[p] = IF p[1] = Slot(posted) /\ p[2] <= L THEN Unit(p[2]) ELSE wqeStored[p]
  BY <1>1
<1>4. TypeOK'
  <2>1. ASSUME NEW p \in Slots \X Units
        PROVE  wqeStored'[p] \in Content
    BY <1>2, <1>3 DEF TypeOK, Units
  <2>2. wqeStored' \in [Slots \X Units -> Content]
    BY <2>1
  <2>3. cur_post' \in 0..CtrMod-1
    BY DivMod DEF TypeOK
  <2> QED
    BY <2>2, <2>3 DEF TypeOK
<1>5. published' = published /\ announced' = announced /\ toWrite' = toWrite - 1
  BY DEF published, announced, toWrite, IndicesWrap, TypeOK
<1>6. CountersOrdered'
  <2>1. pc' = "dbr" /\ posted' = posted + 1 /\ toWrite = left
    BY DEF toWrite
  <2> QED
    BY <1>1, <1>5, <2>1 DEF CountersOrdered, TypeOK
<1>7. IndicesWrap'
  <2>1. cur_post' = posted' % CtrMod
    <3>1. posted \in Int
      BY <1>1
    <3>2. ((posted % CtrMod) + 1) % CtrMod = (posted + 1) % CtrMod
      BY ONLY <3>1, ConstantsNat, ModSucc
    <3> QED
      BY <3>2 DEF IndicesWrap
  <2> QED
    BY <1>5, <2>1 DEF IndicesWrap
<1>8. RingHolds'
  <2>1. ASSUME NEW r \in Nat, done <= r, r < posted
        PROVE  Intact(wqeStored', r)
    <3>1. posted < r + WqeCnt
      <4>1. posted + left <= acked + MaxPost /\ left >= 1 /\ acked <= done
        BY DEF CountersOrdered, toWrite
      <4> QED
        BY <1>1, <2>1, <4>1 DEF TypeOK
    <3>2. Slot(r) # Slot(posted) /\ Slot(r) \in Slots
      BY <1>1, <2>1, <3>1, DistinctSlots, SlotType
    <3>3. \A u \in Units : wqeStored'[<<Slot(r), u>>] = wqeStored[<<Slot(r), u>>]
      BY <1>3, <3>2
    <3>4. Intact(wqeStored, r)
      BY <2>1 DEF RingHolds
    <3>5. r \in Nat
      OBVIOUS
    <3> QED
      BY ONLY <3>3, <3>4, <3>5, IntactBySlot
  <2>2. Intact(wqeStored', posted)
    <3>1. ASSUME NEW u \in 1..L
          PROVE  wqeStored'[<<Slot(posted), u>>] = Unit(u)
      BY <1>1, <1>2, <1>3, SlotType DEF Units
    <3> QED
      BY <1>1, <3>1, WrittenIntact
  <2>3. ASSUME NEW p \in Slots \X Units, wqeSeen'[p] # wqeStored'[p]
        PROVE  pc' = "dbr" /\ p[1] = Slot(posted' - 1)
    BY <1>1, <1>3, <2>3 DEF RingHolds
  <2>4. \A r \in Nat : done' <= r /\ r < posted' => Intact(wqeStored', r)
    <3>1. \A r \in Nat : r < posted + 1 => r < posted \/ r = posted
      BY <1>1
    <3> QED
      BY <2>1, <2>2, <3>1
  <2> QED
    BY <2>3, <2>4 DEF RingHolds
<1> QED
  BY <1>4, <1>6, <1>7, <1>8

(* The barriers put the WQE, and then the doorbell record, in the device's *)
(* sight before the next store.                                            *)
LEMMA StoreDbrKeeps ==
  ASSUME IndInv, StoreDbr
  PROVE  IndInv'
<1> USE ConstantsNat DEF IndInv, StoreDbr, seenVars, deviceVars, Barrier
<1>1. posted \in Nat /\ posted >= 1 /\ posted \in Int /\ posted - 1 \in Int
  BY DEF TypeOK, CountersOrdered
<1>2. dbStored' = posted % DbMod
  BY <1>1, WrappedSlot DEF IndicesWrap
<1>3. dbSeen = (posted - 1) % DbMod /\ announced = posted - 1
  BY DEF IndicesWrap, published, announced
<1>4. dbSeen' # dbStored'
  <2>1. posted - 1 < posted /\ posted < (posted - 1) + DbMod
    BY <1>1
  <2>2. (posted - 1) % DbMod # posted % DbMod
    BY ONLY <1>1, <2>1, ConstantsNat, ModDistinct
  <2> QED
    BY <1>2, <1>3, <2>2
<1>5. published' = posted /\ announced' = announced /\ toWrite' = toWrite
  BY <1>3, <1>4 DEF published, announced, toWrite
<1>6. TypeOK'
  <2>1. dbStored' \in 0..DbMod-1
    BY <1>1, <1>2, DivMod
  <2> QED
    BY <2>1 DEF TypeOK
<1>7. CountersOrdered'
  BY <1>5 DEF CountersOrdered
<1>8. IndicesWrap'
  BY <1>2, <1>3, <1>5 DEF IndicesWrap
<1>9. RingHolds'
  BY DEF RingHolds
<1> QED
  BY <1>6, <1>7, <1>8, <1>9

LEMMA RingUarKeeps ==
  ASSUME IndInv, RingUar
  PROVE  IndInv'
<1> USE ConstantsNat DEF IndInv, RingUar, deviceVars, Barrier
<1>1. TypeOK'
  BY DEF TypeOK, CountersOrdered
<1>2. published' = published /\ announced' = announced
  BY DEF published, announced
<1>3. toWrite' = toWrite
  BY DEF toWrite, TypeOK
<1>4. CountersOrdered'
  BY <1>2, <1>3 DEF CountersOrdered, TypeOK
<1>5. IndicesWrap'
  BY <1>2 DEF IndicesWrap
<1>6. RingHolds'
  BY DEF RingHolds
<1> QED
  BY <1>1, <1>4, <1>5, <1>6

LEMMA ReapKeeps ==
  ASSUME IndInv, Reap
  PROVE  IndInv'
<1> USE ConstantsNat DEF IndInv, Reap, driverVars, seenVars, deviceVars
<1>1. TypeOK'
  BY DEF TypeOK
<1>2. published' = published /\ announced' = announced /\ toWrite' = toWrite
  BY DEF published, announced, toWrite
<1>3. CountersOrdered'
  <2>1. toWrite \in Int
    BY DEF toWrite, TypeOK
  <2> QED
    BY <1>2, <2>1 DEF CountersOrdered, TypeOK
<1>4. IndicesWrap' /\ RingHolds'
  BY <1>2 DEF IndicesWrap, RingHolds
<1> QED
  BY <1>1, <1>3, <1>4

LEMMA DrainKeeps ==
  ASSUME IndInv, Drain
  PROVE  IndInv'
<1> USE ConstantsNat DEF IndInv, driverVars, seenVars, deviceVars
<1>1. ASSUME NEW p \in Slots \X Units, DrainUnit(p)
      PROVE  IndInv'
  <2> USE <1>1 DEF DrainUnit
  <2>1. TypeOK'
    <3>1. wqeSeen' \in [Slots \X Units -> Content]
      BY DEF TypeOK
    <3> QED
      BY <3>1 DEF TypeOK
  <2>2. published' = published /\ announced' = announced /\ toWrite' = toWrite
    BY DEF published, announced, toWrite
  <2>3. CountersOrdered' /\ IndicesWrap'
    BY <2>2 DEF CountersOrdered, IndicesWrap
  <2>4. RingHolds'
    BY DEF RingHolds, TypeOK
  <2> QED
    BY <2>1, <2>3, <2>4
<1>2. CASE DrainDbr
  <2> USE <1>2 DEF DrainDbr
  <2>1. TypeOK'
    BY DEF TypeOK
  <2>2. pc = "ring" /\ published = posted /\ announced = posted - 1
    BY DEF IndicesWrap, published, announced
  <2>3. published' = posted /\ announced' = posted /\ toWrite' = toWrite
    BY <2>2 DEF published, announced, toWrite
  <2>4. CountersOrdered'
    BY <2>2, <2>3 DEF CountersOrdered, TypeOK
  <2>5. IndicesWrap' /\ RingHolds'
    BY <2>2, <2>3 DEF IndicesWrap, RingHolds
  <2> QED
    BY <2>1, <2>4, <2>5
<1>3. CASE DrainRing
  <2> USE <1>3 DEF DrainRing
  <2>1. TypeOK'
    BY DEF TypeOK
  <2>2. published' = published /\ announced' = announced /\ toWrite' = toWrite
    BY DEF published, announced, toWrite
  <2>3. CountersOrdered' /\ IndicesWrap' /\ RingHolds'
    BY <2>2 DEF CountersOrdered, IndicesWrap, RingHolds
  <2> QED
    BY <2>1, <2>3
<1> QED
  BY <1>1, <1>2, <1>3 DEF Drain

(* The device fetches only what the doorbell record announced.             *)
LEMMA FetchIsAnnounced ==
  ASSUME IndInv, HcaFetch
  PROVE  hwNext < announced
<1>1. hwNext % DbMod # announced % DbMod
  BY DEF IndInv, HcaFetch, Pending, IndicesWrap
<1>2. hwNext <= announced /\ hwNext \in Int /\ announced \in Int
  BY DEF IndInv, CountersOrdered, TypeOK, announced, published
<1> QED
  BY <1>1, <1>2

LEMMA HcaKeeps ==
  ASSUME IndInv, Hca \/ Rewind
  PROVE  IndInv'
<1> USE ConstantsNat DEF IndInv, driverVars, seenVars
<1>1. Hca \/ Rewind => published' = published /\ announced' = announced /\ toWrite' = toWrite
  BY DEF published, announced, toWrite, Hca, Rewind, HcaFetch, HcaSleep, HcaComplete,
         HcaRewind
<1>2. CASE HcaFetch
  <2>1. hwNext < announced
    BY <1>2, FetchIsAnnounced
  <2>2. TypeOK'
    BY <1>2 DEF HcaFetch, TypeOK
  <2>3. CountersOrdered'
    BY <1>1, <1>2, <2>1 DEF HcaFetch, Hca, CountersOrdered, TypeOK, announced, published
  <2>4. IndicesWrap' /\ RingHolds'
    BY <1>1, <1>2 DEF HcaFetch, Hca, IndicesWrap, RingHolds
  <2> QED
    BY <2>2, <2>3, <2>4
<1>3. CASE HcaSleep
  <2>1. TypeOK'
    BY <1>3 DEF HcaSleep, TypeOK
  <2>2. CountersOrdered' /\ IndicesWrap' /\ RingHolds'
    BY <1>1, <1>3 DEF HcaSleep, Hca, CountersOrdered, IndicesWrap, RingHolds
  <2> QED
    BY <2>1, <2>2
<1>4. CASE HcaComplete
  <2>1. TypeOK'
    BY <1>4 DEF HcaComplete, TypeOK
  <2>2. CountersOrdered'
    BY <1>1, <1>4 DEF HcaComplete, Hca, CountersOrdered, TypeOK
  <2>3. IndicesWrap'
    BY <1>1, <1>4 DEF HcaComplete, Hca, IndicesWrap
  <2>4. RingHolds'
    BY <1>4 DEF HcaComplete, RingHolds, TypeOK
  <2> QED
    BY <2>1, <2>2, <2>3, <2>4
<1>5. ASSUME NEW n \in done..hwNext-1, HcaRewind(n)
      PROVE  IndInv'
  <2>1. n \in Nat /\ done <= n /\ n <= announced
    BY DEF TypeOK, CountersOrdered, announced, published
  <2>2. TypeOK'
    BY <1>5, <2>1 DEF HcaRewind, TypeOK
  <2>3. CountersOrdered' /\ IndicesWrap' /\ RingHolds'
    BY <1>1, <1>5, <2>1 DEF HcaRewind, Rewind, CountersOrdered, IndicesWrap, RingHolds
  <2> QED
    BY <2>2, <2>3
<1> QED
  BY <1>2, <1>3, <1>4, <1>5 DEF Hca, Rewind

LEMMA NextIndInv ==
  ASSUME IndInv, [Next]_vars
  PROVE  IndInv'
<1>1. CASE UNCHANGED vars
  BY <1>1 DEF vars, IndInv, TypeOK, CountersOrdered, IndicesWrap, RingHolds,
              published, announced, toWrite
<1>2. CASE Call
  BY <1>2, CallKeeps DEF Call
<1>3. CASE Post
  BY <1>3, WriteWqeKeeps, StoreDbrKeeps, RingUarKeeps DEF Post
<1> QED
  BY <1>1, <1>2, <1>3, ReapKeeps, DrainKeeps, HcaKeeps DEF Next

(* The invariant holds in every state the driver and the device reach.     *)
THEOREM Invariance == Spec => []IndInv
  BY InitIndInv, NextIndInv, PTL DEF Spec

(***************************************************************************)
(* What the runs check, for every value of the constants.                  *)
(***************************************************************************)

(* Type correctness: cur_post stays a 32-bit number and the doorbell       *)
(* record a 16-bit one.                                                    *)
THEOREM TypeCorrect == Spec => []TypeOK
  BY Invariance, PTL DEF IndInv

(* What the device computes from the record is what was announced.         *)
LEMMA AnnouncedValue ==
  ASSUME IndInv
  PROVE  Announced = announced /\ announced \in Int
<1> USE ConstantsNat DEF IndInv
<1>1. done \in Int /\ announced \in Int /\ posted \in Int /\ toWrite \in Int
  BY DEF TypeOK, announced, published, toWrite
<1>2. done <= announced /\ announced < done + DbMod
  <2>1. toWrite >= 0
    BY DEF toWrite, CountersOrdered, TypeOK
  <2>2. announced <= posted /\ posted <= done + MaxPost
    BY <1>1, <2>1 DEF CountersOrdered, announced, published, TypeOK
  <2> QED
    BY <1>1, <2>2 DEF CountersOrdered, TypeOK
<1>3. ((announced % DbMod) - done) % DbMod = announced - done
  <2>1. PICK q \in Int, r \in 0..(DbMod-1) : announced = (DbMod * q) + r /\ r = announced % DbMod
    BY <1>1, DivModExists
  <2>2. (announced % DbMod) - done = ((-q) * DbMod) + (announced - done)
    BY <1>1, <2>1
  <2>3. (announced - done) \in 0..(DbMod-1) /\ -q \in Int
    BY <1>1, <1>2
  <2> QED
    BY <2>2, <2>3, DivModUnique
<1> QED
  BY <1>1, <1>3 DEF Announced, IndicesWrap

(* The device never assembles a WQE from two requests, nor from stores     *)
(* that have not all reached it, at the first fetch or at any later one.   *)
THEOREM FetchesIntact == Spec => []AnnouncedIntact
<1>1. ASSUME IndInv
      PROVE  AnnouncedIntact
  <2> USE ConstantsNat DEF IndInv
  <2>1. ASSUME NEW r \in done..Announced-1
        PROVE  Intact(wqeSeen, r)
    <3>1. r \in Nat /\ done <= r /\ r < announced /\ r < posted /\ posted \in Int
      BY <1>1, AnnouncedValue DEF TypeOK, announced, published
    <3>2. Intact(wqeStored, r)
      BY <1>1, <3>1 DEF RingHolds
    <3>3. \A u \in Units : wqeSeen[<<Slot(r), u>>] = wqeStored[<<Slot(r), u>>]
      <4>1. Slot(r) \in Slots
        BY <3>1, SlotType
      <4>2. CASE pc # "dbr"
        BY <1>1, <4>1, <4>2 DEF RingHolds
      <4>3. CASE pc = "dbr"
        <5>1. r < posted - 1
          BY <1>1, <3>1, <4>3 DEF IndicesWrap, announced, published
        <5>2. posted - 1 < r + WqeCnt
          BY <1>1, <3>1, <4>3 DEF CountersOrdered, toWrite, TypeOK
        <5>3. Slot(r) # Slot(posted - 1)
          BY <3>1, <5>1, <5>2, DistinctSlots
        <5> QED
          BY <1>1, <4>1, <5>3 DEF RingHolds
      <4> QED
        BY <4>2, <4>3
    <3> QED
      BY ONLY <3>1, <3>2, <3>3, IntactBySlot
  <2> QED
    BY <2>1 DEF AnnouncedIntact
<1> QED
  BY <1>1, Invariance, PTL

(* The send queue implements the abstract channel: requests complete in    *)
(* order, each once, and none that was not posted.                         *)
THEOREM Refinement == Spec => ImplementsChannel
<1>1. Init => Channel!Init
  BY DEF Init, Channel!Init
<1>2. ASSUME IndInv, [Next]_vars
      PROVE  [Channel!Next]_(Channel!vars)
  <2> USE ConstantsNat DEF IndInv, Channel!vars
  <2>1. CASE UNCHANGED vars
    BY <2>1 DEF vars
  <2>2. CASE WriteWqe
    <3>1. posted' = posted + 1 /\ done' = done /\ acked' = acked
      BY <2>2 DEF WriteWqe, deviceVars
    <3>2. 1 \in 1..MaxPost
      BY MaxPostAssumption
    <3>3. posted + 1 - acked <= MaxPost
      <4>1. toWrite = left /\ left >= 1
        BY <1>2, <2>2 DEF WriteWqe, CountersOrdered, toWrite
      <4> QED
        BY <1>2, <4>1 DEF CountersOrdered, TypeOK
    <3> QED
      BY <3>1, <3>2, <3>3 DEF Channel!Next, Channel!Ask
  <2>3. CASE Reap
    <3>1. acked' = acked + 1 /\ acked + 1 <= done /\ posted' = posted /\ done' = done
      BY <1>2, <2>3 DEF Reap, driverVars, deviceVars, TypeOK
    <3>2. 1 \in 1..MaxPost
      BY MaxPostAssumption
    <3> QED
      BY <3>1, <3>2 DEF Channel!Next, Channel!Tell
  <2>4. CASE HcaComplete
    <3>1. done < posted
      BY <1>2, <2>4 DEF HcaComplete, CountersOrdered, TypeOK, announced, published
    <3> QED
      BY <2>4, <3>1 DEF HcaComplete, driverVars, Channel!Next, Channel!Finish
  <2>5. CASE Call \/ StoreDbr \/ RingUar \/ Drain \/ Rewind \/ HcaFetch \/ HcaSleep
    BY <2>5 DEF Call, PostSend, RefuseSend, StoreDbr, RingUar, Drain, DrainUnit, DrainDbr,
         DrainRing, Rewind, HcaRewind, HcaFetch, HcaSleep, driverVars, deviceVars
  <2> QED
    BY <1>2, <2>1, <2>2, <2>3, <2>4, <2>5 DEF Next, Post, Hca
<1>3. QED
  BY <1>1, <1>2, Invariance, PTL DEF Spec, ImplementsChannel, Channel!Spec
=============================================================================
