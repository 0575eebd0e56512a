----------------------------- MODULE DvRecvQueue -----------------------------
(***************************************************************************)
(* The receive queue of pp_dv.c: pp_dv_post_recv writes one WQE per        *)
(* receive, counts them all at once, and publishes the count, modulo 2^16, *)
(* in a doorbell record.  There is no ring of a bell and no barrier after  *)
(* the record: the device (external) reads it when a message arrives, and  *)
(* a message that finds no receive is refused (receiver not ready) and     *)
(* comes again.                                                            *)
(*                                                                         *)
(* As in DvSendQueue every location has two copies, what the driver stored *)
(* and what the device sees, with a drain step per location.  A WQE is one *)
(* 16-byte data segment, so it drains as a whole.                          *)
(***************************************************************************)
EXTENDS Integers

CONSTANTS
  WqeCnt, \* entries in the ring (rq.wqe_cnt: 64), one WQE each
  DbMod,  \* range of the count in the doorbell record (2^16)
  CtrMod, \* range of the unsigned head (2^32)
  MaxWr   \* bound on the receives posted in a behaviour

ASSUME WqeCntAssumption == WqeCnt \in Nat \ {0}
ASSUME DbModAssumption  == DbMod \in Nat /\ DbMod > WqeCnt /\ DbMod % WqeCnt = 0
ASSUME CtrModAssumption == CtrMod \in Nat \ {0} /\ CtrMod % DbMod = 0
ASSUME BoundAssumption  == MaxWr \in Nat

VARIABLES
  wqeStored, \* the ring as the driver stored it: which receive a slot holds
  wqeSeen,   \* the ring as the device sees it
  dbStored,  \* dvqp->db[MLX5_RCV_DBR] as the driver stored it
  dbSeen,    \* the same record as the device sees it
  head,      \* dvqp->rq.head
  pc,        \* where the driver is in pp_dv_post_recv, "idle" outside it
  ind,       \* its local: the next slot to write
  nreq,      \* its local: WQEs written by the running call
  num,       \* its argument num_post
  posted,    \* receives counted in head so far
  done,      \* receives the device has used so far
  acked      \* receive completions the caller has polled so far

driverVars == <<wqeStored, dbStored, head, pc, ind, nreq, num, posted>>
vars == <<wqeStored, wqeSeen, dbStored, dbSeen, head, pc, ind, nreq, num, posted,
          done, acked>>

Slots == 0..WqeCnt-1
Slot(n) == n % WqeCnt  \* n & (wqe_cnt - 1)
NoWqe == -1            \* zeroed memory

Barrier == wqeSeen = wqeStored /\ dbSeen = dbStored

(* pp_create_qp_dv: zeroed buffer and doorbell record.                     *)
Init ==
  /\ wqeStored = [s \in Slots |-> NoWqe]
  /\ wqeSeen = wqeStored
  /\ dbStored = 0 /\ dbSeen = 0
  /\ head = 0 /\ pc = "idle" /\ ind = 0 /\ nreq = 0 /\ num = 0
  /\ posted = 0 /\ done = 0 /\ acked = 0

(***************************************************************************)
(* pp_dv_post_recv.  It checks nothing; its callers post what the queue    *)
(* can hold on top of the receives they have not polled.                   *)
(***************************************************************************)
PostRecv(n) ==
  /\ pc = "idle"
  /\ posted + n - acked <= WqeCnt
  /\ posted + n <= MaxWr
  /\ pc' = "write" /\ num' = n /\ nreq' = 0 /\ ind' = Slot(head)
  /\ UNCHANGED <<wqeStored, wqeSeen, dbStored, dbSeen, head, posted, done, acked>>

(* One turn of the loop.                                                   *)
WriteWqe ==
  /\ pc = "write"
  /\ nreq < num
  /\ wqeStored' = [wqeStored EXCEPT ![ind] = posted + nreq]
  /\ ind' = Slot(ind + 1)
  /\ nreq' = nreq + 1
  /\ UNCHANGED <<wqeSeen, dbStored, dbSeen, head, pc, num, posted, done, acked>>

CountWqesOneMore ==  \* broken: one WQE too many is counted
  /\ pc = "write"
  /\ nreq = num
  /\ head' = (head + nreq + 1) % CtrMod
  /\ posted' = posted + nreq
  /\ pc' = "dbr"
  /\ UNCHANGED <<wqeStored, wqeSeen, dbStored, dbSeen, ind, nreq, num, done, acked>>

CountWqesAsSlot ==  \* broken: head is the next slot, not a running count
  /\ pc = "write"
  /\ nreq = num
  /\ head' = ind
  /\ posted' = posted + nreq
  /\ pc' = "dbr"
  /\ UNCHANGED <<wqeStored, wqeSeen, dbStored, dbSeen, ind, nreq, num, done, acked>>

(* The loop ends and its WQEs are counted.                                 *)
CountWqes ==
  /\ pc = "write"
  /\ nreq = num
  /\ head' = (head + nreq) % CtrMod
  /\ posted' = posted + nreq
  /\ pc' = "dbr"
  /\ UNCHANGED <<wqeStored, wqeSeen, dbStored, dbSeen, ind, nreq, num, done, acked>>

StoreDbrUnmasked ==  \* broken: not masked to 16 bits
  /\ pc = "dbr"
  /\ Barrier
  /\ dbStored' = head
  /\ pc' = "idle"
  /\ UNCHANGED <<wqeStored, wqeSeen, dbSeen, head, ind, nreq, num, posted, done, acked>>

StoreDbrNoBarrier ==  \* broken: no barrier after the WQEs
  /\ pc = "dbr"
  /\ dbStored' = head % DbMod
  /\ pc' = "idle"
  /\ UNCHANGED <<wqeStored, wqeSeen, dbSeen, head, ind, nreq, num, posted, done, acked>>

(* A barrier, the doorbell record, and the function returns 0.             *)
StoreDbr ==
  /\ pc = "dbr"
  /\ Barrier
  /\ dbStored' = head % DbMod
  /\ pc' = "idle"
  /\ UNCHANGED <<wqeStored, wqeSeen, dbSeen, head, ind, nreq, num, posted, done, acked>>

(* The caller polls a completion and learns that a receive is done.        *)
Reap ==
  /\ pc = "idle"
  /\ acked < done
  /\ acked' = acked + 1
  /\ UNCHANGED <<driverVars, wqeSeen, dbSeen, done>>

(***************************************************************************)
(* Stores become visible to the device.                                    *)
(***************************************************************************)
DrainWqe(s) ==
  /\ wqeSeen[s] # wqeStored[s]
  /\ wqeSeen' = [wqeSeen EXCEPT ![s] = wqeStored[s]]
  /\ UNCHANGED <<driverVars, dbSeen, done, acked>>

DrainDbr ==
  /\ dbSeen # dbStored
  /\ dbSeen' = dbStored
  /\ UNCHANGED <<driverVars, wqeSeen, done, acked>>

(***************************************************************************)
(* The device (external) puts an arriving message in the next receive.     *)
(***************************************************************************)
HcaReceive ==
  /\ done % DbMod # dbSeen
  /\ done' = done + 1
  /\ UNCHANGED <<driverVars, wqeSeen, dbSeen, acked>>

------------------------------------------------------------------------------
Call  == \E n \in 1..WqeCnt : PostRecv(n)
Post  == WriteWqe \/ CountWqes \/ StoreDbr
Drain == (\E s \in Slots : DrainWqe(s)) \/ DrainDbr

Next == Call \/ Post \/ Reap \/ Drain \/ HcaReceive

Spec == Init /\ [][Next]_vars

(* The driver runs, stores drain, messages keep arriving, the caller polls.*)
Fairness == WF_vars(Post) /\ WF_vars(Drain) /\ WF_vars(HcaReceive) /\ WF_vars(Reap)

FairSpec == Spec /\ Fairness

------------------------------------------------------------------------------
(* Type invariant: the values of every variable, indices in their widths.  *)
TypeOK ==
  /\ wqeStored \in [Slots -> Int] /\ wqeSeen \in [Slots -> Int]
  /\ dbStored \in 0..DbMod-1 /\ dbSeen \in 0..DbMod-1
  /\ head \in 0..CtrMod-1
  /\ pc \in {"idle", "write", "dbr"}
  /\ ind \in Slots /\ nreq \in Nat /\ num \in Nat
  /\ posted \in Nat /\ done \in Nat /\ acked \in Nat

(* Receives the doorbell record has announced to the device, unwrapped.    *)
Announced == done + ((dbSeen - done) % DbMod)

(* Every receive announced and not used is in its slot of the memory the   *)
(* device sees: a message never lands in the buffer of an older receive,   *)
(* nor in one whose WQE has not reached the device.                        *)
AnnouncedIntact == \A r \in done..Announced-1 : wqeSeen[Slot(r)] = r

(* The queue is a CompletionChannel: receives are used in order, each by   *)
(* one message, and none that was not posted.                              *)
Channel == INSTANCE CompletionChannel
             WITH Capacity <- WqeCnt, asked <- posted, told <- acked

ImplementsChannel == Channel!Spec

(* Every receive posted is offered to the device, though no barrier        *)
(* follows the store of the doorbell record.                               *)
EveryReceiveOffered == \A k \in 1..MaxWr : posted >= k ~> Announced >= k
==============================================================================
