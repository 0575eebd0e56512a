----------------------------- MODULE DvSendQueue -----------------------------
(***************************************************************************)
(* The send queue of pp_dv.c: a ring of work queue entries (WQEs) in host  *)
(* memory.  pp_dv_post_send writes one WQE per request, publishes the new  *)
(* producer count, modulo 2^16, in a doorbell record, and rings the queue  *)
(* by a write to the device's UAR page.  The device (external) reads the   *)
(* doorbell record while it is awake, goes to sleep when it has fetched    *)
(* everything, and is woken by the ring.                                   *)
(*                                                                         *)
(* Stores reach the device later than they are made and in any order; only *)
(* udma_to_device_barrier() waits for them.  So every location has two     *)
(* copies, what the driver stored and what the device sees, and a drain    *)
(* step per location; a barrier is the guard that the copies agree.        *)
(***************************************************************************)
EXTENDS Integers, Sequences

CONSTANTS
  WqeCnt,    \* entries in the ring (sq.wqe_cnt: 512)
  MaxPost,   \* requests the queue was sized for (sq.max_post: 102)
  PpMaxWr,   \* PP_MAX_WR: 64
  DbMod,     \* range of the producer count in the doorbell record (2^16)
  CtrMod,    \* range of the unsigned cur_post (2^32)
  MaxWr,     \* bound on the requests posted in a behaviour
  MaxRewinds \* bound on the retransmissions in a behaviour

ASSUME WqeCntAssumption  == WqeCnt \in Nat \ {0}
ASSUME MaxPostAssumption == MaxPost \in 1..WqeCnt /\ PpMaxWr \in Nat
ASSUME DbModAssumption   == DbMod \in Nat /\ DbMod > WqeCnt /\ DbMod % WqeCnt = 0
ASSUME CtrModAssumption  == CtrMod \in Nat \ {0} /\ CtrMod % DbMod = 0
ASSUME BoundAssumption   == MaxWr \in Nat /\ MaxRewinds \in Nat

VARIABLES
  wqeStored, \* the ring as the driver stored it, by 16-byte unit
  wqeSeen,   \* the ring as the device sees it
  dbStored,  \* dvqp->db[MLX5_SND_DBR] as the driver stored it
  dbSeen,    \* the same record as the device sees it
  ringing,   \* a UAR write is on its way to the device
  cur_post,  \* dvqp->sq.cur_post
  pc,        \* where the driver is in pp_dv_post_send, "idle" outside it
  opcode,    \* argument of the running pp_dv_post_send
  left,      \* requests of the running call still to be posted
  ret,       \* value the last pp_dv_post_send returned
  awake,     \* the device is reading the doorbell record
  hwNext,    \* the next request the device fetches
  rewinds,   \* retransmissions so far
  posted,    \* WQEs written so far
  done,      \* requests the device has completed so far
  acked      \* completions the caller has polled so far

driverVars == <<wqeStored, dbStored, cur_post, pc, opcode, left, ret, posted>>
deviceVars == <<awake, hwNext, rewinds, done>>
seenVars   == <<wqeSeen, dbSeen, ringing>>
vars == <<wqeStored, wqeSeen, dbStored, dbSeen, ringing, cur_post, pc, opcode,
          left, ret, awake, hwNext, rewinds, posted, done, acked>>

Slots == 0..WqeCnt-1
Units == 1..3  \* the 16-byte units of a WQE the driver writes
EINVAL == 22

Opcodes == {"SEND_IMM", "RDMA_WRITE_IMM"}

(* The segments of a WQE, one unit each: set_raddr_seg for RDMA only.      *)
Layout(op) == IF op = "SEND_IMM" THEN <<"ctrl", "data">>
                                 ELSE <<"ctrl", "raddr", "data">>

(* A unit holds one segment of one request; NoUnit is memory never written.*)
NoUnit  == [seg |-> "none", op |-> "none", req |-> -1]
Content == [seg : {"none", "ctrl", "raddr", "data"}, op : Opcodes \cup {"none"},
            req : Int]

Slot(n) == n % WqeCnt  \* n & (wqe_cnt - 1)

(* The WQE of request r in memory m is complete: every unit its control    *)
(* segment announces holds the segment that belongs there, of request r.   *)
Intact(m, r) ==
  LET ctrl == m[<<Slot(r), 1>>]
  IN  /\ ctrl.op \in Opcodes
      /\ \A u \in 1..Len(Layout(ctrl.op)) :
           m[<<Slot(r), u>>] = [seg |-> Layout(ctrl.op)[u], op |-> ctrl.op, req |-> r]

(* udma_to_device_barrier: the stores before it are visible to the device. *)
Barrier == wqeSeen = wqeStored /\ dbSeen = dbStored

(***************************************************************************)
(* pp_create_qp_dv: zeroed buffer and doorbell record.                     *)
(***************************************************************************)
Init ==
  /\ wqeStored = [p \in Slots \X Units |-> NoUnit]
  /\ wqeSeen = wqeStored
  /\ dbStored = 0 /\ dbSeen = 0 /\ ringing = FALSE
  /\ cur_post = 0 /\ pc = "idle" /\ opcode = "SEND_IMM" /\ left = 0 /\ ret = 0
  /\ awake = FALSE /\ hwNext = 0 /\ rewinds = 0
  /\ posted = 0 /\ done = 0 /\ acked = 0

(***************************************************************************)
(* pp_dv_post_send.  The code bounds the requests of one call but does not *)
(* count those outstanding; that is left to the callers, who post no more  *)
(* than the queue was sized for.                                           *)
(***************************************************************************)
Valid(n, inline) == n # 0 /\ n <= MaxPost /\ n <= PpMaxWr /\ ~inline

PostSend(n, op, inline) ==
  /\ pc = "idle"
  /\ Valid(n, inline)
  /\ posted + n - acked <= MaxPost
  /\ posted + n <= MaxWr
  /\ pc' = "write" /\ opcode' = op /\ left' = n
  /\ UNCHANGED <<wqeStored, dbStored, cur_post, ret, posted, acked, seenVars, deviceVars>>

RefuseSend(n, op, inline) ==
  /\ pc = "idle"
  /\ ~Valid(n, inline)
  /\ ret' = EINVAL
  /\ UNCHANGED <<wqeStored, dbStored, cur_post, pc, opcode, left, posted, acked,
                 seenVars, deviceVars>>

(* post_send_one: write the WQE of the next request and count it.          *)
WriteWqe ==
  /\ pc = "write"
  /\ wqeStored' = [p \in Slots \X Units |->
                     IF p[1] = Slot(cur_post) /\ p[2] <= Len(Layout(opcode))
                     THEN [seg |-> Layout(opcode)[p[2]], op |-> opcode, req |-> posted]
                     ELSE wqeStored[p]]
  /\ cur_post' = (cur_post + 1) % CtrMod  \* 32 or 48 bytes take one 64-byte block
  /\ posted' = posted + 1
  /\ pc' = "dbr"
  /\ UNCHANGED <<dbStored, opcode, left, ret, acked, seenVars, deviceVars>>

StoreDbrUnmasked ==  \* broken: not masked to 16 bits
  /\ pc = "dbr"
  /\ Barrier
  /\ dbStored' = cur_post
  /\ pc' = "ring"
  /\ UNCHANGED <<wqeStored, cur_post, opcode, left, ret, posted, acked, seenVars,
                 deviceVars>>

StoreDbrNoBarrier ==  \* broken: no barrier after the WQE
  /\ pc = "dbr"
  /\ dbStored' = cur_post % DbMod
  /\ pc' = "ring"
  /\ UNCHANGED <<wqeStored, cur_post, opcode, left, ret, posted, acked, seenVars,
                 deviceVars>>

StoreDbrAhead ==  \* broken: announces one WQE too many
  /\ pc = "dbr"
  /\ Barrier
  /\ dbStored' = (cur_post + 1) % DbMod
  /\ pc' = "ring"
  /\ UNCHANGED <<wqeStored, cur_post, opcode, left, ret, posted, acked, seenVars,
                 deviceVars>>

(* post_send_db: a barrier, the doorbell record, a barrier, the UAR write. *)
StoreDbr ==
  /\ pc = "dbr"
  /\ Barrier
  /\ dbStored' = cur_post % DbMod
  /\ pc' = "ring"
  /\ UNCHANGED <<wqeStored, cur_post, opcode, left, ret, posted, acked, seenVars,
                 deviceVars>>

RingUarNoBarrier ==  \* broken: no barrier after the doorbell record
  /\ pc = "ring"
  /\ ringing' = TRUE
  /\ left' = left - 1
  /\ pc' = IF left = 1 THEN "idle" ELSE "write"
  /\ ret' = IF left = 1 THEN 0 ELSE ret
  /\ UNCHANGED <<wqeStored, dbStored, cur_post, opcode, posted, acked, wqeSeen, dbSeen,
                 deviceVars>>

RingUar ==
  /\ pc = "ring"
  /\ Barrier
  /\ ringing' = TRUE
  /\ left' = left - 1
  /\ pc' = IF left = 1 THEN "idle" ELSE "write"
  /\ ret' = IF left = 1 THEN 0 ELSE ret
  /\ UNCHANGED <<wqeStored, dbStored, cur_post, opcode, posted, acked, wqeSeen, dbSeen,
                 deviceVars>>

(* The caller polls a completion and learns that a request is done.        *)
Reap ==
  /\ pc = "idle"
  /\ acked < done
  /\ acked' = acked + 1
  /\ UNCHANGED <<driverVars, seenVars, deviceVars>>

(***************************************************************************)
(* Stores become visible to the device.                                    *)
(***************************************************************************)
DrainUnit(p) ==
  /\ wqeSeen[p] # wqeStored[p]
  /\ wqeSeen' = [wqeSeen EXCEPT ![p] = wqeStored[p]]
  /\ UNCHANGED <<driverVars, dbSeen, ringing, deviceVars, acked>>

DrainDbr ==
  /\ dbSeen # dbStored
  /\ dbSeen' = dbStored
  /\ UNCHANGED <<driverVars, wqeSeen, ringing, deviceVars, acked>>

DrainRing ==
  /\ ringing
  /\ ringing' = FALSE
  /\ awake' = TRUE
  /\ UNCHANGED <<driverVars, wqeSeen, dbSeen, hwNext, rewinds, done, acked>>

(***************************************************************************)
(* The device (external).                                                  *)
(***************************************************************************)
Pending == hwNext % DbMod # dbSeen

HcaFetch ==
  /\ awake /\ Pending
  /\ hwNext' = hwNext + 1
  /\ UNCHANGED <<driverVars, seenVars, awake, rewinds, done, acked>>

HcaSleep ==
  /\ awake /\ ~Pending
  /\ awake' = FALSE
  /\ UNCHANGED <<driverVars, seenVars, hwNext, rewinds, done, acked>>

(* A lost packet, a timeout or a receiver that was not ready: the RC       *)
(* transport goes back to a request it has not completed and fetches it    *)
(* again (dvqp_rtr2rts sets the retry counts).                             *)
HcaRewind(n) ==
  /\ rewinds < MaxRewinds
  /\ rewinds' = rewinds + 1
  /\ hwNext' = n
  /\ awake' = TRUE
  /\ UNCHANGED <<driverVars, seenVars, done, acked>>

HcaComplete ==
  /\ done < hwNext
  /\ done' = done + 1
  /\ UNCHANGED <<driverVars, seenVars, awake, hwNext, rewinds, acked>>

------------------------------------------------------------------------------
Call  == \E n \in 0..MaxPost+1, op \in Opcodes, inline \in BOOLEAN :
           PostSend(n, op, inline) \/ RefuseSend(n, op, inline)
Post  == WriteWqe \/ StoreDbr \/ RingUar
Drain == (\E p \in Slots \X Units : DrainUnit(p)) \/ DrainDbr \/ DrainRing
Rewind == \E n \in done..hwNext-1 : HcaRewind(n)
Hca   == HcaFetch \/ HcaSleep \/ HcaComplete

Next == Call \/ Post \/ Reap \/ Drain \/ Rewind \/ Hca

Spec == Init /\ [][Next]_vars

(* The driver runs, stores drain, the device works and the caller polls.   *)
Fairness ==
  /\ WF_vars(Post)
  /\ WF_vars(Drain)
  /\ WF_vars(HcaFetch)
  /\ WF_vars(HcaComplete)
  /\ WF_vars(Reap)

FairSpec == Spec /\ Fairness

------------------------------------------------------------------------------
(* Type invariant: the values of every variable, indices in their widths.  *)
TypeOK ==
  /\ wqeStored \in [Slots \X Units -> Content]
  /\ wqeSeen \in [Slots \X Units -> Content]
  /\ dbStored \in 0..DbMod-1 /\ dbSeen \in 0..DbMod-1
  /\ ringing \in BOOLEAN /\ awake \in BOOLEAN
  /\ cur_post \in 0..CtrMod-1
  /\ pc \in {"idle", "write", "dbr", "ring"}
  /\ opcode \in Opcodes /\ left \in Nat /\ ret \in {0, EINVAL}
  /\ hwNext \in Nat /\ rewinds \in Nat
  /\ posted \in Nat /\ done \in Nat /\ acked \in Nat

(* Requests the doorbell record has announced to the device, unwrapped.    *)
Announced == done + ((dbSeen - done) % DbMod)

(* Every request announced and not completed is intact in the memory the   *)
(* device sees.  It may fetch any of them now, again after a rewind, and   *)
(* never assembles a WQE from two requests or from stores still on their   *)
(* way.                                                                    *)
AnnouncedIntact == \A r \in done..Announced-1 : Intact(wqeSeen, r)

(* The queue is a CompletionChannel: the device completes in order, and    *)
(* never a request that was not posted.                                    *)
Channel == INSTANCE CompletionChannel
             WITH Capacity <- MaxPost, asked <- posted, told <- acked

ImplementsChannel == Channel!Spec

(* No lost wake-up: every request posted is executed, however the ring and *)
(* the doorbell record race with the device going to sleep.                *)
EveryRequestExecuted == \A k \in 1..MaxWr : posted >= k ~> done >= k
==============================================================================
