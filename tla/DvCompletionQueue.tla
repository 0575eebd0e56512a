-------------------------- MODULE DvCompletionQueue --------------------------
(***************************************************************************)
(* The completion queue of pp_dv.c: a ring of NCqe entries in host memory. *)
(* The device (external) fills entries and never reads them; the driver    *)
(* polls them and never writes them after pp_create_cq_dv.  There is no    *)
(* shared index: an entry carries an owner bit that flips on every lap of  *)
(* the ring, and pp_dv_poll_cq compares it with the lap bit of its own     *)
(* 32-bit consumer index.  The consumer index is published, modulo 2^24,   *)
(* in a doorbell record the device reads to know which entries are free.   *)
(*                                                                         *)
(* `submitted', `produced' and `consumed' count requests without wrapping. *)
(* They are history: the code keeps only cons_index, which wraps.          *)
(***************************************************************************)
EXTENDS Integers

CONSTANTS
  NCqe,   \* entries in the ring (ncqe: 256)
  CtrMod, \* range of the uint32_t cons_index (2^32)
  CiMod,  \* range of the consumer index in the doorbell record (2^24)
  MaxNe,  \* bound on the ne of one pp_dv_poll_cq (the clients pass 1)
  MaxWr   \* bound on the requests submitted in a behaviour

ASSUME NCqeAssumption   == NCqe \in Nat \ {0}
ASSUME CtrModAssumption == CtrMod \in Nat \ {0} /\ CtrMod % (2 * NCqe) = 0
ASSUME CiModAssumption  == CiMod \in Nat /\ CiMod > NCqe /\ CtrMod % CiMod = 0
ASSUME BoundAssumption  == MaxNe \in Nat \ {0} /\ MaxWr \in Nat

VARIABLES
  cqe,        \* the ring: op and own of op_own, id for the rest of the entry
  cons_index, \* dvcq->cons_index
  ciStored,   \* dvcq->db[MLX5_CQ_SET_CI] as the driver wrote it last
  ciSeen,     \* the same record as the device sees it
  pc,         \* where the driver is in pp_dv_poll_cq, "idle" outside it
  ne,         \* argument of the running pp_dv_poll_cq
  npolled,    \* its loop counter
  ret,        \* value the last pp_dv_poll_cq returned
  writing,    \* the device has written an entry but not yet its op_own
  submitted,  \* requests handed to the device so far
  produced,   \* entries the device has completely written so far
  consumed    \* entries get_next_cqe has taken so far

driverVars == <<cons_index, ciStored, pc, ne, npolled, ret, consumed>>
deviceVars == <<cqe, writing, produced>>
vars == <<cqe, cons_index, ciStored, ciSeen, pc, ne, npolled, ret, writing,
          submitted, produced, consumed>>

CQE_INVALID == "INVALID"
HwOpcodes   == {"DONE", "ERROR"} \* what a device writes: a success or an error
Opcodes     == HwOpcodes \cup {CQE_INVALID}

(* n & (ncqe - 1), the slot of index n; and !!(n & ncqe), its lap bit.     *)
Slot(n)   == n % NCqe
LapBit(n) == IF n % (2 * NCqe) >= NCqe THEN 1 ELSE 0

(* get_sw_cqe: the entry at index n belongs to software.                   *)
SwOwned(n) == /\ cqe[Slot(n)].op # CQE_INVALID
              /\ cqe[Slot(n)].own = LapBit(n)

(* Broken: the ring is left zeroed, and opcode 0 is a valid one.           *)
InitNotInvalidated ==
  /\ cqe = [s \in 0..NCqe-1 |-> [op |-> "DONE", own |-> 0, id |-> -1]]
  /\ cons_index = 0 /\ ciStored = 0 /\ ciSeen = 0
  /\ pc = "idle" /\ ne = 0 /\ npolled = 0 /\ ret = 0
  /\ writing = FALSE
  /\ submitted = 0 /\ produced = 0 /\ consumed = 0

(***************************************************************************)
(* pp_create_cq_dv: the ring is invalidated, indices and record are zero.  *)
(***************************************************************************)
Init ==
  /\ cqe = [s \in 0..NCqe-1 |-> [op |-> CQE_INVALID, own |-> 0, id |-> -1]]
  /\ cons_index = 0 /\ ciStored = 0 /\ ciSeen = 0
  /\ pc = "idle" /\ ne = 0 /\ npolled = 0 /\ ret = 0
  /\ writing = FALSE
  /\ submitted = 0 /\ produced = 0 /\ consumed = 0

(***************************************************************************)
(* The caller posts n work requests (pp_dv_post_send, pp_dv_post_recv).    *)
(* Nothing in the code checks the ring for room: the callers post only     *)
(* what it can hold on top of the requests they have not polled yet.  The  *)
(* barrier before the queue's doorbell makes the last ciStored visible.    *)
(***************************************************************************)
Submit(n) ==
  /\ pc = "idle"
  /\ submitted + n - consumed <= NCqe
  /\ submitted + n <= MaxWr
  /\ submitted' = submitted + n
  /\ ciSeen' = ciStored
  /\ UNCHANGED <<driverVars, deviceVars>>

(***************************************************************************)
(* pp_dv_poll_cq, with poll_one_cq, get_next_cqe, get_sw_cqe and parse_cqe *)
(* inlined.  get_sw_cqe loads op_own twice, for the opcode and again for   *)
(* the owner bit; the device may write between the two.                    *)
(***************************************************************************)
PollStartKeepsCount(n) ==  \* broken: npolled is not reset
  /\ pc = "idle"
  /\ pc' = "opcode"
  /\ ne' = n
  /\ UNCHANGED <<cons_index, ciStored, ciSeen, npolled, ret, submitted, consumed, deviceVars>>

PollStart(n) ==
  /\ pc = "idle"
  /\ pc' = "opcode"
  /\ ne' = n
  /\ npolled' = 0
  /\ UNCHANGED <<cons_index, ciStored, ciSeen, ret, submitted, consumed, deviceVars>>

ReadOpcodeWaits ==  \* broken: spins on an entry that is not there yet
  /\ pc = "opcode"
  /\ pc' = IF cqe[Slot(cons_index)].op = CQE_INVALID THEN "opcode" ELSE "owner"
  /\ UNCHANGED <<cons_index, ciStored, ciSeen, ne, npolled, ret, submitted,
                 consumed, deviceVars>>

(* First load: an entry never written ends the loop, another is read again.*)
ReadOpcode ==
  /\ pc = "opcode"
  /\ pc' = IF cqe[Slot(cons_index)].op = CQE_INVALID THEN "set_ci" ELSE "owner"
  /\ UNCHANGED <<cons_index, ciStored, ciSeen, ne, npolled, ret, submitted,
                 consumed, deviceVars>>

(* Second load: the entry is of an earlier lap, CQ_EMPTY ends the loop.    *)
SeeOldLap ==
  /\ pc = "owner"
  /\ cqe[Slot(cons_index)].own # LapBit(cons_index)
  /\ pc' = "set_ci"
  /\ UNCHANGED <<cons_index, ciStored, ciSeen, ne, npolled, ret, submitted,
                 consumed, deviceVars>>

TakeCqeAnyLap ==  \* broken: the owner bit is not looked at
  /\ pc = "owner"
  /\ cons_index' = (cons_index + 1) % CtrMod
  /\ consumed' = consumed + 1
  /\ npolled' = npolled + 1
  /\ pc' = IF npolled + 1 < ne THEN "opcode" ELSE "set_ci"
  /\ UNCHANGED <<ciStored, ciSeen, ne, ret, submitted, deviceVars>>

(* Second load: the entry is new.  parse_cqe answers CQ_OK whatever its    *)
(* opcode is, so the loop goes on until it has taken ne entries.           *)
TakeCqe ==
  /\ pc = "owner"
  /\ cqe[Slot(cons_index)].own = LapBit(cons_index)
  /\ cons_index' = (cons_index + 1) % CtrMod
  /\ consumed' = consumed + 1
  /\ npolled' = npolled + 1
  /\ pc' = IF npolled + 1 < ne THEN "opcode" ELSE "set_ci"
  /\ UNCHANGED <<ciStored, ciSeen, ne, ret, submitted, deviceVars>>

SetCiUnmasked ==  \* broken: not masked to the width of the record
  /\ pc = "set_ci"
  /\ ciStored' = cons_index
  /\ ret' = npolled
  /\ pc' = "idle"
  /\ UNCHANGED <<cons_index, ciSeen, ne, npolled, submitted, consumed, deviceVars>>

SetCiAhead ==  \* broken: one entry too many is freed
  /\ pc = "set_ci"
  /\ ciStored' = (cons_index + 1) % CiMod
  /\ ret' = npolled
  /\ pc' = "idle"
  /\ UNCHANGED <<cons_index, ciSeen, ne, npolled, submitted, consumed, deviceVars>>

SetCiForgotten ==  \* broken: the record is not written
  /\ pc = "set_ci"
  /\ ciStored' = ciStored
  /\ ret' = npolled
  /\ pc' = "idle"
  /\ UNCHANGED <<cons_index, ciSeen, ne, npolled, submitted, consumed, deviceVars>>

(* The doorbell record is stored, with no barrier after it, on every call. *)
SetCi ==
  /\ pc = "set_ci"
  /\ ciStored' = cons_index % CiMod
  /\ ret' = npolled
  /\ pc' = "idle"
  /\ UNCHANGED <<cons_index, ciSeen, ne, npolled, submitted, consumed, deviceVars>>

(* The store leaves the write buffer some time later.                      *)
DrainCi ==
  /\ ciSeen # ciStored
  /\ ciSeen' = ciStored
  /\ UNCHANGED <<driverVars, submitted, deviceVars>>

(***************************************************************************)
(* The device (external) completes the oldest request: it writes the entry *)
(* and then, last, its op_own byte.  Requests complete in order.           *)
(***************************************************************************)
HcaWriteBody ==
  /\ produced < submitted
  /\ ~writing
  /\ writing' = TRUE
  /\ cqe' = [cqe EXCEPT ![Slot(produced)].id = produced]
  /\ UNCHANGED <<driverVars, ciSeen, submitted, produced>>

HcaWriteOwner(op) ==
  /\ writing
  /\ writing' = FALSE
  /\ cqe' = [cqe EXCEPT ![Slot(produced)].op = op,
                        ![Slot(produced)].own = LapBit(produced)]
  /\ produced' = produced + 1
  /\ UNCHANGED <<driverVars, ciSeen, submitted>>

------------------------------------------------------------------------------
Poll == ReadOpcode \/ SeeOldLap \/ TakeCqe \/ SetCi
Hca  == HcaWriteBody \/ \E op \in HwOpcodes : HcaWriteOwner(op)

Next ==
  \/ \E n \in 1..NCqe : Submit(n)
  \/ \E n \in 1..MaxNe : PollStart(n)
  \/ Poll
  \/ DrainCi
  \/ Hca

Spec == Init /\ [][Next]_vars

(* The client spins on pp_dv_poll_cq, the device makes progress.           *)
Fairness ==
  /\ WF_vars(\E n \in 1..MaxNe : PollStart(n))
  /\ WF_vars(Poll)
  /\ WF_vars(Hca)

FairSpec == Spec /\ Fairness

------------------------------------------------------------------------------
(* Type invariant: the values of every variable, indices in their widths.  *)
TypeOK ==
  /\ cqe \in [0..NCqe-1 -> [op : Opcodes, own : {0, 1}, id : Int]]
  /\ cons_index \in 0..CtrMod-1
  /\ ciStored \in 0..CiMod-1
  /\ ciSeen \in 0..CiMod-1
  /\ pc \in {"idle", "opcode", "owner", "set_ci"}
  /\ ne \in Nat /\ npolled \in Nat /\ ret \in Nat
  /\ writing \in BOOLEAN
  /\ submitted \in Nat /\ produced \in Nat /\ consumed \in Nat

(* get_sw_cqe finds an entry at the consumer index exactly when there is a *)
(* completion that was not taken: no entry of an earlier lap is taken for  *)
(* new, none is missed, on any lap and when cons_index wraps.              *)
OwnedIffPending == SwOwned(cons_index) <=> consumed < produced

(* What get_next_cqe hands out is the next completion, completely written, *)
(* and each is handed out once.                                            *)
TakesNextIntact ==
  [][consumed' # consumed => /\ consumed' = consumed + 1
                             /\ consumed < produced
                             /\ cqe[Slot(cons_index)].id = consumed]_vars

(* Entries in use as the device computes them from the doorbell record.    *)
UsedPerDevice == (produced - ciSeen) % CiMod

(* The published consumer index never frees an entry that was not taken:   *)
(* the device counts at least the entries the driver has still to read.    *)
CiCoversUnread == UsedPerDevice >= produced - consumed

(* Whenever a completion is due the device sees a free entry: it never     *)
(* raises a CQ overrun, though the code checks for none (README.md,        *)
(* "There's no wq overflow check").                                        *)
NoOverrun == produced < submitted => UsedPerDevice < NCqe

(* The queue is a CompletionChannel: a poll that returns n tells its       *)
(* caller of n further completions; those a running poll has taken are not *)
(* told yet.                                                               *)
reported == IF pc = "idle" THEN consumed ELSE consumed - npolled

Channel == INSTANCE CompletionChannel
             WITH Capacity <- NCqe, asked <- submitted, done <- produced,
                  told <- reported

ImplementsChannel == Channel!Spec

(* Every request submitted is reported by some later poll.                 *)
EveryRequestReported ==
  \A k \in 1..MaxWr : submitted >= k ~> reported >= k
==============================================================================
