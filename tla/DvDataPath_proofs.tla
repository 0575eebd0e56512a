-------------------------- MODULE DvDataPath_proofs --------------------------
(***************************************************************************)
(* Theorems about DvDataPath, for every number of buffers, all ring sizes  *)
(* and all widths of the counters that are multiples of them.  What the    *)
(* proofs of the three queues say of each queue alone is cited here, and   *)
(* what is proved is that the traffic function is a caller and the device  *)
(* a device as those proofs assume them.                                   *)
(***************************************************************************)
EXTENDS DvDataPath, TLAPS

SQP == INSTANCE DvSendQueue_proofs WITH
       WqeCnt <- SqWqeCnt, MaxPost <- N, PpMaxWr <- N, MaxWr <- N,
       wqeStored <- sq_wqeStored, wqeSeen <- sq_wqeSeen,
       dbStored <- sq_dbStored, dbSeen <- sq_dbSeen, ringing <- sq_ringing,
       cur_post <- sq_cur_post, pc <- sq_pc, opcode <- sq_opcode,
       left <- sq_left, ret <- sq_ret, awake <- sq_awake,
       hwNext <- sq_hwNext, rewinds <- sq_rewinds, posted <- sq_posted,
       done <- sq_done, acked <- sq_acked

RQP == INSTANCE DvRecvQueue_proofs WITH
       WqeCnt <- RqWqeCnt, MaxWr <- N, wqeStored <- rq_wqeStored,
       wqeSeen <- rq_wqeSeen, dbStored <- rq_dbStored, dbSeen <- rq_dbSeen,
       head <- rq_head, pc <- rq_pc, ind <- rq_ind, nreq <- rq_nreq,
       num <- rq_num, posted <- rq_posted, done <- rq_done, acked <- rq_acked

CQP == INSTANCE DvCompletionQueue_proofs WITH
       MaxNe <- 1, MaxWr <- 2 * N, cqe <- cq_cqe,
       cons_index <- cq_cons_index, ciStored <- cq_ciStored,
       ciSeen <- cq_ciSeen, pc <- cq_pc, ne <- cq_ne, npolled <- cq_npolled,
       ret <- cq_ret, writing <- cq_writing, submitted <- cq_submitted,
       produced <- cq_produced, consumed <- cq_consumed

(***************************************************************************)
(* The inductive invariant.                                                *)
(***************************************************************************)
BeforeSend == {"fill", "post_send"}
PollsSend  == {"poll_send", "count_send"}
BeforeRecv == {"clear", "post_recv"}
PollsRecv  == {"poll_recv", "count_recv"}
Stages == BeforeSend \cup {"sending"} \cup PollsSend \cup BeforeRecv
            \cup {"receiving"} \cup PollsRecv \cup {"done"}

Counting == stage \in {"count_send", "count_recv"}

(* Each queue alone is as its own proofs have it.                          *)
QueuesRight == SQP!IndInv /\ RQP!IndInv /\ CQP!IndInv

ClientTypes ==
  /\ stage \in Stages /\ num_comp \in Nat
  /\ mrbuf \in [Bufs -> Payloads] /\ shown \in [Bufs -> Payloads]

(* What has happened to the requests by the stage the caller is in.        *)
SendsRight ==
  /\ stage = "sending" => sq_pc # "idle" /\ sq_posted + SQP!toWrite = N
  /\ stage # "sending" => sq_pc = "idle"
  /\ stage \in BeforeSend => sq_posted = 0
  /\ stage \notin BeforeSend \cup {"sending"} => sq_posted = N
  /\ stage \in BeforeSend \cup {"sending"} => sq_acked = 0
  /\ stage \in PollsSend => sq_acked = num_comp /\ num_comp < N
  /\ stage \notin BeforeSend \cup {"sending"} \cup PollsSend => sq_acked = N

RecvsRight ==
  /\ stage = "receiving" =>
       /\ rq_num = N /\ rq_acked = 0
       /\ \/ rq_pc = "write" /\ rq_posted = 0
          \/ rq_pc = "dbr" /\ rq_posted = N /\ rq_nreq = N
  /\ stage # "receiving" => rq_pc = "idle"
  /\ stage \notin PollsRecv \cup {"receiving", "done"} => rq_posted = 0
  /\ stage \in PollsRecv => rq_posted = N /\ rq_acked = num_comp /\ num_comp < N
  /\ stage = "done" => rq_posted = N /\ rq_acked = N

(* The completion queue is about the requests of both queues, and the      *)
(* caller has counted what it was told of: the count is one behind between *)
(* the end of a poll and what the caller makes of it.                      *)
CompletionsRight ==
  /\ cq_submitted = SQP!published + RQP!published
  /\ cq_produced + (IF cq_writing THEN 1 ELSE 0) = sq_done + rq_done
  /\ ~Counting => cq_pc = "idle" /\ cq_consumed = sq_acked + rq_acked
  /\ Counting /\ cq_pc = "idle" =>
       cq_ret \in {0, 1} /\ cq_consumed = sq_acked + rq_acked + cq_ret
  /\ cq_pc # "idle" => /\ cq_ne = 1 /\ cq_npolled \in {0, 1}
                       /\ cq_consumed = sq_acked + rq_acked + cq_npolled
                       /\ cq_pc # "set_ci" => cq_npolled = 0

(* The buffers hold pings while requests are outstanding, and what arrived *)
(* once they are used.                                                     *)
ContentsRight ==
  /\ \A t \in wire : t[2] = "ping"
  /\ stage \in {"post_send", "sending"} \cup PollsSend =>
       \A i \in Bufs : mrbuf[i] = "ping"
  /\ \A i \in Bufs : i < rq_done => mrbuf[i] = "pong"
  /\ \A i \in Bufs : i < rq_acked => shown[i] = "pong"

IndInv == /\ QueuesRight /\ ClientTypes /\ SendsRight /\ RecvsRight
          /\ CompletionsRight /\ ContentsRight

(***************************************************************************)
(* What the assumptions of the three queues' modules become here.          *)
(***************************************************************************)
LEMMA SqAssumptions ==
  /\ SqWqeCnt \in Nat \ {0} /\ N \in 1..SqWqeCnt /\ N \in Nat \ {0}
  /\ DbMod \in Nat /\ DbMod > SqWqeCnt /\ DbMod % SqWqeCnt = 0
  /\ CtrMod \in Nat \ {0} /\ CtrMod % DbMod = 0
  /\ N \in Nat /\ MaxRewinds \in Nat
  BY SizesAssumption, RingsAssumption, WrapAssumption

LEMMA RqAssumptions ==
  /\ RqWqeCnt \in Nat \ {0} /\ N \in 1..RqWqeCnt
  /\ DbMod \in Nat /\ DbMod > RqWqeCnt /\ DbMod % RqWqeCnt = 0
  /\ CtrMod \in Nat \ {0} /\ CtrMod % DbMod = 0
  /\ N \in Nat
  BY SizesAssumption, RingsAssumption, WrapAssumption

LEMMA CqAssumptions ==
  /\ NCqe \in Nat \ {0}
  /\ CtrMod \in Nat \ {0} /\ CtrMod % (2 * NCqe) = 0
  /\ CiMod \in Nat /\ CiMod > NCqe /\ CtrMod % CiMod = 0
  /\ 1 \in Nat \ {0} /\ 2 * N \in Nat
  BY SizesAssumption, RingsAssumption, WrapAssumption

(***************************************************************************)
(* A step of a queue here is a step of that queue's module, and so it      *)
(* keeps what the proofs of that module have shown.                        *)
(***************************************************************************)
LEMMA SqInit == SQ!Init => SQP!IndInv
<1>1. SQ!Init => SQP!Init
  BY DEF SQ!Init, SQP!Init, SQ!Slots, SQP!Slots, SQ!Units, SQP!Units, SQ!NoUnit, SQP!NoUnit
<1> QED
  BY <1>1, SQP!InitIndInv, SqAssumptions

LEMMA SqStays ==
  ASSUME SQP!IndInv, UNCHANGED sqVars
  PROVE  SQP!IndInv'
<1>1. UNCHANGED SQP!vars
  BY DEF sqVars, sqRest, SQP!vars
<1> QED
  BY <1>1, SQP!NextIndInv, SqAssumptions

LEMMA SqPosts ==
  ASSUME SQP!IndInv,
         SQ!PostSend(N, "SEND_IMM", FALSE) \/ SQ!WriteWqe \/ SQ!StoreDbr \/ SQ!RingUar
  PROVE  SQP!IndInv'
<1> USE DEF SQ!Slots, SQP!Slots, SQ!Units, SQP!Units, SQ!Slot, SQP!Slot, SQ!Layout, SQP!Layout,
            SQ!Barrier, SQP!Barrier, SQ!driverVars, SQP!driverVars, SQ!seenVars, SQP!seenVars,
            SQ!deviceVars, SQP!deviceVars
<1>1. CASE SQ!PostSend(N, "SEND_IMM", FALSE)
  <2>1. SQP!PostSend(N, "SEND_IMM", FALSE)
    BY <1>1 DEF SQ!PostSend, SQP!PostSend, SQ!Valid, SQP!Valid
  <2>2. N \in 0..N+1 /\ "SEND_IMM" \in SQP!Opcodes /\ FALSE \in BOOLEAN
    BY SqAssumptions DEF SQP!Opcodes
  <2> QED
    BY <2>1, <2>2, SQP!NextIndInv, SqAssumptions DEF SQP!Next, SQP!Call
<1>2. CASE SQ!WriteWqe
  <2>1. SQP!WriteWqe
    BY <1>2 DEF SQ!WriteWqe, SQP!WriteWqe
  <2> QED
    BY <2>1, SQP!WriteWqeKeeps, SqAssumptions
<1>3. CASE SQ!StoreDbr
  <2>1. SQP!StoreDbr
    BY <1>3 DEF SQ!StoreDbr, SQP!StoreDbr
  <2> QED
    BY <2>1, SQP!StoreDbrKeeps, SqAssumptions
<1>4. CASE SQ!RingUar
  <2>1. SQP!RingUar
    BY <1>4 DEF SQ!RingUar, SQP!RingUar
  <2> QED
    BY <2>1, SQP!RingUarKeeps, SqAssumptions
<1> QED
  BY <1>1, <1>2, <1>3, <1>4

LEMMA SqReaps ==
  ASSUME SQP!IndInv, sq_pc = "idle", sq_acked < sq_done, sq_acked' = sq_acked + 1,
         UNCHANGED sqRest
  PROVE  SQP!IndInv'
<1>1. SQP!Reap
  BY DEF SQP!Reap, SQP!driverVars, SQP!seenVars, SQP!deviceVars, sqRest
<1> QED
  BY <1>1, SQP!ReapKeeps, SqAssumptions

LEMMA SqDrains ==
  ASSUME SQP!IndInv, SQ!Drain
  PROVE  SQP!IndInv'
<1>1. SQP!Drain
  BY DEF SQ!Drain, SQP!Drain, SQ!DrainUnit, SQP!DrainUnit, SQ!DrainDbr, SQP!DrainDbr,
         SQ!DrainRing, SQP!DrainRing, SQ!Slots, SQP!Slots, SQ!Units, SQP!Units,
         SQ!driverVars, SQP!driverVars, SQ!deviceVars, SQP!deviceVars
<1> QED
  BY <1>1, SQP!DrainKeeps, SqAssumptions

LEMMA SqWorks ==
  ASSUME SQP!IndInv, SQ!HcaFetch \/ SQ!HcaSleep \/ SQ!Rewind \/ SQ!HcaComplete
  PROVE  SQP!IndInv'
<1>1. SQP!Hca \/ SQP!Rewind
  BY DEF SQ!HcaFetch, SQP!HcaFetch, SQ!HcaSleep, SQP!HcaSleep, SQ!HcaComplete, SQP!HcaComplete,
         SQ!Rewind, SQP!Rewind, SQ!HcaRewind, SQP!HcaRewind, SQP!Hca, SQ!Pending, SQP!Pending,
         SQ!driverVars, SQP!driverVars, SQ!seenVars, SQP!seenVars
<1> QED
  BY <1>1, SQP!NextIndInv, SqAssumptions DEF SQP!Next

LEMMA RqInit == RQ!Init => RQP!IndInv
<1>1. RQ!Init => RQP!Init
  BY DEF RQ!Init, RQP!Init, RQ!Slots, RQP!Slots, RQ!NoWqe, RQP!NoWqe
<1> QED
  BY <1>1, RQP!InitIndInv, RqAssumptions

LEMMA RqStays ==
  ASSUME RQP!IndInv, UNCHANGED rqVars
  PROVE  RQP!IndInv'
<1>1. UNCHANGED RQP!vars
  BY DEF rqVars, rqRest, RQP!vars
<1> QED
  BY <1>1, RQP!NextIndInv, RqAssumptions

LEMMA RqPosts ==
  ASSUME RQP!IndInv, RQ!PostRecv(N) \/ RQ!WriteWqe \/ RQ!CountWqes \/ RQ!StoreDbr
  PROVE  RQP!IndInv'
<1> USE DEF RQ!Slot, RQP!Slot, RQ!Barrier, RQP!Barrier
<1>1. CASE RQ!PostRecv(N)
  <2>1. RQP!PostRecv(N)
    BY <1>1 DEF RQ!PostRecv, RQP!PostRecv
  <2> QED
    BY <2>1, RQP!PostRecvKeeps, RqAssumptions
<1>2. CASE RQ!WriteWqe
  <2>1. RQP!WriteWqe
    BY <1>2 DEF RQ!WriteWqe, RQP!WriteWqe
  <2> QED
    BY <2>1, RQP!WriteWqeKeeps, RqAssumptions
<1>3. CASE RQ!CountWqes
  <2>1. RQP!CountWqes
    BY <1>3 DEF RQ!CountWqes, RQP!CountWqes
  <2> QED
    BY <2>1, RQP!CountWqesKeeps, RqAssumptions
<1>4. CASE RQ!StoreDbr
  <2>1. RQP!StoreDbr
    BY <1>4 DEF RQ!StoreDbr, RQP!StoreDbr
  <2> QED
    BY <2>1, RQP!StoreDbrKeeps, RqAssumptions
<1> QED
  BY <1>1, <1>2, <1>3, <1>4

LEMMA RqReaps ==
  ASSUME RQP!IndInv, rq_pc = "idle", rq_acked < rq_done, rq_acked' = rq_acked + 1,
         UNCHANGED rqRest
  PROVE  RQP!IndInv'
<1>1. RQP!Reap
  BY DEF RQP!Reap, RQP!driverVars, rqRest
<1> QED
  BY <1>1, RQP!ReapKeeps, RqAssumptions

LEMMA RqWorks ==
  ASSUME RQP!IndInv, RQ!Drain \/ RQ!HcaReceive
  PROVE  RQP!IndInv'
<1> USE DEF RQ!driverVars, RQP!driverVars
<1>1. CASE RQ!Drain
  <2>1. RQP!Drain
    BY <1>1 DEF RQ!Drain, RQP!Drain, RQ!DrainWqe, RQP!DrainWqe, RQ!DrainDbr, RQP!DrainDbr,
                RQ!Slots, RQP!Slots
  <2> QED
    BY <2>1, RQP!DrainKeeps, RqAssumptions
<1>2. CASE RQ!HcaReceive
  <2>1. RQP!HcaReceive
    BY <1>2 DEF RQ!HcaReceive, RQP!HcaReceive
  <2> QED
    BY <2>1, RQP!ReceiveKeeps, RqAssumptions
<1> QED
  BY <1>1, <1>2

LEMMA CqInit == CQ!Init => CQP!IndInv
<1>1. CQ!Init => CQP!Init
  BY DEF CQ!Init, CQP!Init, CQ!CQE_INVALID, CQP!CQE_INVALID
<1> QED
  BY <1>1, CQP!InitIndInv, CqAssumptions

LEMMA CqStays ==
  ASSUME CQP!IndInv, UNCHANGED cqVars
  PROVE  CQP!IndInv'
<1>1. UNCHANGED CQP!vars
  BY DEF cqVars, CQP!vars
<1> QED
  BY <1>1, CQP!NextIndInv, CqAssumptions

LEMMA CqCalls ==
  ASSUME CQP!IndInv, NEW n \in 1..NCqe, CQ!Submit(n) \/ CQ!PollStart(1) \/ CQ!Poll
  PROVE  CQP!IndInv'
<1> USE DEF CQ!driverVars, CQP!driverVars, CQ!deviceVars, CQP!deviceVars, CQ!Slot, CQP!Slot,
            CQ!LapBit, CQP!LapBit, CQ!CQE_INVALID, CQP!CQE_INVALID
<1>1. CASE CQ!Submit(n)
  <2>1. CQP!Submit(n)
    BY <1>1 DEF CQ!Submit, CQP!Submit
  <2> QED
    BY <2>1, CQP!SubmitKeeps, CqAssumptions
<1>2. CASE CQ!PollStart(1)
  <2>1. CQP!PollStart(1) /\ 1 \in 1..1
    BY <1>2 DEF CQ!PollStart, CQP!PollStart
  <2> QED
    BY <2>1, CQP!PollStartKeeps, CqAssumptions
<1>3. CASE CQ!Poll
  <2>1. CQP!Poll
    BY <1>3 DEF CQ!Poll, CQP!Poll, CQ!ReadOpcode, CQP!ReadOpcode, CQ!SeeOldLap, CQP!SeeOldLap,
                CQ!TakeCqe, CQP!TakeCqe, CQ!SetCi, CQP!SetCi
  <2> QED
    BY <2>1, CQP!NextIndInv, CqAssumptions DEF CQP!Next
<1> QED
  BY <1>1, <1>2, <1>3

LEMMA CqWorks ==
  ASSUME CQP!IndInv, CQ!DrainCi \/ CQ!HcaWriteBody \/ CQ!HcaWriteOwner("DONE")
  PROVE  CQP!IndInv'
<1> USE DEF CQ!driverVars, CQP!driverVars, CQ!deviceVars, CQP!deviceVars, CQ!Slot, CQP!Slot,
            CQ!LapBit, CQP!LapBit
<1>1. CASE CQ!DrainCi
  <2>1. CQP!DrainCi
    BY <1>1 DEF CQ!DrainCi, CQP!DrainCi
  <2> QED
    BY <2>1, CQP!DrainCiKeeps, CqAssumptions
<1>2. CASE CQ!HcaWriteBody
  <2>1. CQP!HcaWriteBody
    BY <1>2 DEF CQ!HcaWriteBody, CQP!HcaWriteBody
  <2> QED
    BY <2>1, CQP!HcaWriteBodyKeeps, CqAssumptions
<1>3. CASE CQ!HcaWriteOwner("DONE")
  <2>1. CQP!HcaWriteOwner("DONE") /\ "DONE" \in CQP!HwOpcodes
    BY <1>3 DEF CQ!HcaWriteOwner, CQP!HcaWriteOwner, CQP!HwOpcodes
  <2> QED
    BY <2>1, CQP!HcaWriteOwnerKeeps, CqAssumptions
<1> QED
  BY <1>1, <1>2, <1>3

(***************************************************************************)
(* What is needed of the queues' invariants.                               *)
(***************************************************************************)
LEMMA SqFacts ==
  ASSUME SQP!IndInv
  PROVE  /\ sq_posted \in Nat /\ sq_done \in Nat /\ sq_acked \in Nat
         /\ sq_hwNext \in Nat /\ sq_left \in Nat
         /\ SQP!published \in Int /\ SQP!toWrite \in Nat
         /\ sq_acked <= sq_done /\ sq_done <= sq_hwNext
         /\ sq_hwNext <= SQP!published /\ SQP!published <= sq_posted
         /\ sq_posted + SQP!toWrite <= sq_acked + N
         /\ sq_pc # "idle" => sq_left >= 1
         /\ sq_pc \in {"idle", "write", "dbr", "ring"}
<1> USE DEF SQP!IndInv, SQP!TypeOK, SQP!CountersOrdered
<1>1. SQP!published \in Int /\ SQP!toWrite \in Nat /\ SQP!announced \in Int
  BY DEF SQP!published, SQP!toWrite, SQP!announced
<1>2. SQP!announced <= SQP!published /\ SQP!published <= sq_posted
  BY DEF SQP!announced, SQP!published, SQP!IndicesWrap
<1> QED
  BY <1>1, <1>2

LEMMA RqFacts ==
  ASSUME RQP!IndInv
  PROVE  /\ rq_posted \in Nat /\ rq_done \in Nat /\ rq_acked \in Nat
         /\ rq_nreq \in Nat /\ rq_num \in Nat
         /\ RQP!published \in Nat
         /\ rq_acked <= rq_done /\ rq_done <= RQP!published /\ RQP!published <= rq_posted
         /\ rq_pc \in {"idle", "write", "dbr"}
<1>1. RQP!published \in Nat /\ rq_done <= RQP!published
  BY RQP!PublishedFits, RqAssumptions
<1> QED
  BY <1>1 DEF RQP!IndInv, RQP!TypeOK, RQP!CountersOrdered

LEMMA CqFacts ==
  ASSUME CQP!IndInv
  PROVE  /\ cq_submitted \in Nat /\ cq_produced \in Nat /\ cq_consumed \in Nat
         /\ cq_writing \in BOOLEAN /\ cq_ne \in Nat /\ cq_npolled \in Nat /\ cq_ret \in Nat
         /\ cq_consumed <= cq_produced /\ cq_produced <= cq_submitted
         /\ cq_writing => cq_produced < cq_submitted
         /\ cq_pc \in {"idle", "opcode", "owner", "set_ci"}
  BY DEF CQP!IndInv, CQP!TypeOK, CQP!CountersOrdered

(* The completions the device writes are one queue's at a time: receives   *)
(* are posted when all sends have been told, sends before any receive.     *)
LEMMA OneQueueAtATime ==
  ASSUME IndInv
  PROVE  /\ rq_posted > 0 => sq_done = N /\ sq_hwNext = N /\ sq_posted = N /\ sq_acked = N
         /\ stage \in BeforeSend \cup {"sending"} \cup PollsSend \cup BeforeRecv => rq_done = 0
         /\ stage \notin BeforeSend \cup {"sending"} \cup PollsSend =>
              sq_done = N /\ sq_hwNext = N /\ sq_posted = N /\ sq_acked = N
<1>1. SQP!IndInv /\ RQP!IndInv /\ N \in Nat
  BY SqAssumptions DEF IndInv, QueuesRight
<1> QED
  BY <1>1, SqFacts, RqFacts
  DEF IndInv, SendsRight, RecvsRight, ClientTypes, Stages, BeforeSend, PollsSend, BeforeRecv, PollsRecv

(***************************************************************************)
(* The invariant is inductive: one lemma per part of the next-state        *)
(* relation.                                                               *)
(***************************************************************************)
LEMMA InitIndInv == Init => IndInv
<1> SUFFICES ASSUME Init
             PROVE  IndInv
  OBVIOUS
<1>1. QueuesRight
  BY SqInit, RqInit, CqInit DEF Init, QueuesRight
<1>2. ClientTypes /\ SendsRight /\ RecvsRight
  BY DEF Init, SQ!Init, RQ!Init, ClientTypes, SendsRight, RecvsRight, Stages, BeforeSend,
         PollsSend, BeforeRecv, PollsRecv, Payloads
<1>3. CompletionsRight
  BY DEF Init, SQ!Init, RQ!Init, CQ!Init, CompletionsRight, Counting, SQP!published, RQP!published
<1>4. ContentsRight
  BY RqAssumptions DEF Init, RQ!Init, ContentsRight, PollsSend, Bufs
<1> QED
  BY <1>1, <1>2, <1>3, <1>4 DEF IndInv

(* The caller's own steps: they touch no queue.                            *)
LEMMA FillClearKeeps ==
  ASSUME IndInv, Fill \/ Clear
  PROVE  IndInv'
<1> USE DEF IndInv, Fill, Clear
<1>1. QueuesRight'
  BY SqStays, RqStays, CqStays DEF QueuesRight
<1>2. SQP!published' = SQP!published /\ SQP!toWrite' = SQP!toWrite /\ RQP!published' = RQP!published
  BY DEF SQP!published, SQP!toWrite, RQP!published, sqVars, sqRest, rqVars, rqRest
<1>3. ClientTypes' /\ SendsRight' /\ RecvsRight'
  BY <1>2 DEF ClientTypes, SendsRight, RecvsRight, Stages, BeforeSend, PollsSend, BeforeRecv,
              PollsRecv, Payloads, sqVars, sqRest, rqVars, rqRest
<1>4. CompletionsRight'
  BY <1>2 DEF CompletionsRight, Counting, sqVars, sqRest, rqVars, rqRest, cqVars
<1>5. ContentsRight'
  <2>1. rq_done = 0 /\ rq_acked = 0
    BY OneQueueAtATime, RqFacts DEF BeforeSend, BeforeRecv, QueuesRight
  <2> QED
    BY <2>1, SqAssumptions DEF ContentsRight, PollsSend, Bufs, sqVars, sqRest, rqVars, rqRest
<1> QED
  BY <1>1, <1>3, <1>4, <1>5

LEMMA PostSendKeeps ==
  ASSUME IndInv, PostSend
  PROVE  IndInv'
<1> USE DEF IndInv, PostSend
<1>1. QueuesRight'
  BY SqPosts, RqStays, CqStays DEF QueuesRight
<1>2. /\ sq_pc = "idle" /\ sq_pc' = "write" /\ sq_left' = N
      /\ UNCHANGED <<sq_posted, sq_done, sq_acked>>
  BY DEF SQ!PostSend, SQ!deviceVars
<1>3. SQP!published' = SQP!published /\ SQP!toWrite' = N /\ RQP!published' = RQP!published
  BY <1>2 DEF SQP!published, SQP!toWrite, RQP!published, rqVars, rqRest
<1>4. ClientTypes' /\ SendsRight' /\ RecvsRight'
  BY <1>2, <1>3, SqAssumptions
  DEF ClientTypes, SendsRight, RecvsRight, Stages, BeforeSend, PollsSend, BeforeRecv,
      PollsRecv, Payloads, rqVars, rqRest
<1>5. CompletionsRight'
  BY <1>2, <1>3 DEF CompletionsRight, Counting, rqVars, rqRest, cqVars
<1>6. ContentsRight'
  BY DEF ContentsRight, PollsSend, Bufs, rqVars, rqRest
<1> QED
  BY <1>1, <1>4, <1>5, <1>6

(* pp_dv_post_send: the completion queue learns of a request when its      *)
(* doorbell record is stored.                                              *)
LEMMA SendingKeeps ==
  ASSUME IndInv, Sending
  PROVE  IndInv'
<1> USE SqAssumptions DEF IndInv, Sending
<1>0. 1 \in 1..NCqe
  BY CqAssumptions
<1>1. QueuesRight'
  BY <1>0, SqPosts, RqStays, CqStays, CqCalls DEF QueuesRight
<1>2. /\ UNCHANGED <<sq_done, sq_acked>>
      /\ UNCHANGED <<cq_pc, cq_ne, cq_npolled, cq_ret, cq_writing, cq_produced, cq_consumed>>
      /\ sq_pc # "idle"
  BY DEF SQ!WriteWqe, SQ!RingUar, SQ!StoreDbr, SQ!deviceVars, CQ!Submit, CQ!driverVars,
         CQ!deviceVars, cqVars
<1>3. RQP!published' = RQP!published
  BY DEF RQP!published, rqVars, rqRest
<1>4. \/ /\ sq_posted' = sq_posted + 1 /\ SQP!toWrite' = SQP!toWrite - 1 /\ sq_pc' # "idle"
         /\ SQP!published' = SQP!published /\ cq_submitted' = cq_submitted
      \/ /\ sq_posted' = sq_posted /\ SQP!toWrite' = SQP!toWrite /\ sq_pc' # "idle"
         /\ SQP!published' = SQP!published + 1 /\ cq_submitted' = cq_submitted + 1
      \/ /\ sq_posted' = sq_posted /\ SQP!toWrite' = SQP!toWrite
         /\ sq_pc' = "idle" => SQP!toWrite = 0
         /\ SQP!published' = SQP!published /\ cq_submitted' = cq_submitted
  <2> USE SqFacts, CqFacts DEF QueuesRight
  <2>1. CASE SQ!WriteWqe /\ UNCHANGED cqVars
    <3>1. /\ sq_pc = "write" /\ sq_pc' = "dbr" /\ sq_posted' = sq_posted + 1
          /\ sq_left' = sq_left /\ cq_submitted' = cq_submitted
      BY <2>1 DEF SQ!WriteWqe, cqVars
    <3>2. SQP!published = sq_posted /\ SQP!published' = sq_posted' - 1
      BY <3>1 DEF SQP!published
    <3>3. SQP!toWrite = sq_left /\ SQP!toWrite' = sq_left' - 1
      BY <3>1 DEF SQP!toWrite
    <3>4. SQP!published' = SQP!published
      BY <3>1, <3>2
    <3> QED
      BY <3>1, <3>3, <3>4
  <2>2. CASE SQ!RingUar /\ UNCHANGED cqVars
    BY <2>2 DEF SQ!RingUar, SQP!published, SQP!toWrite, cqVars
  <2>3. CASE SQ!StoreDbr /\ CQ!Submit(1)
    BY <2>3 DEF SQ!StoreDbr, CQ!Submit, SQP!published, SQP!toWrite
  <2> QED
    BY <2>1, <2>2, <2>3
<1>5. stage = "sending" /\ stage' \in {"sending", "poll_send"} /\ num_comp' = 0
  OBVIOUS
<1>6. /\ sq_posted \in Nat /\ SQP!toWrite \in Int /\ SQP!published \in Int
      /\ RQP!published \in Nat /\ cq_submitted \in Nat
  BY SqFacts, RqFacts, CqFacts DEF QueuesRight
<1>7. ClientTypes' /\ RecvsRight'
  BY DEF ClientTypes, RecvsRight, Stages, BeforeSend, PollsSend, BeforeRecv, PollsRecv,
         Payloads, rqVars, rqRest
<1>8. SendsRight'
  <2>1. sq_posted + SQP!toWrite = N /\ sq_acked = 0 /\ N \in Nat \ {0}
    BY <1>5 DEF SendsRight
  <2>2. /\ sq_posted' + SQP!toWrite' = N
        /\ stage' = "poll_send" => sq_posted' = N
    BY <1>4, <1>5, <1>6, <2>1
  <2>3. sq_acked' = 0 /\ (stage' = "sending" <=> sq_pc' # "idle")
    BY <1>2, <2>1
  <2> QED
    BY ONLY <1>5, <2>1, <2>2, <2>3 DEF SendsRight, BeforeSend, PollsSend, BeforeRecv
<1>9. CompletionsRight'
  <2>1. cq_submitted' = SQP!published' + RQP!published'
    BY <1>3, <1>4, <1>6 DEF CompletionsRight
  <2> QED
    BY <1>2, <1>5, <2>1 DEF CompletionsRight, Counting, rqVars, rqRest
<1>10. ContentsRight'
  BY DEF ContentsRight, PollsSend, Bufs, rqVars, rqRest
<1> QED
  BY <1>1, <1>7, <1>8, <1>9, <1>10

(* pp_dv_poll_cq is entered, and runs.                                     *)
LEMMA PollCqKeeps ==
  ASSUME IndInv, PollSend \/ PollRecv
  PROVE  IndInv'
<1> USE DEF IndInv, PollSend, PollRecv, PollCq
<1>0. 1 \in 1..NCqe
  BY CqAssumptions
<1>1. QueuesRight'
  BY <1>0, SqStays, RqStays, CqCalls DEF QueuesRight
<1>2. SQP!published' = SQP!published /\ SQP!toWrite' = SQP!toWrite /\ RQP!published' = RQP!published
  BY DEF SQP!published, SQP!toWrite, RQP!published, sqVars, sqRest, rqVars, rqRest
<1>3. ClientTypes' /\ SendsRight' /\ RecvsRight'
  BY <1>2 DEF ClientTypes, SendsRight, RecvsRight, Stages, BeforeSend, PollsSend, BeforeRecv,
              PollsRecv, Payloads, sqVars, sqRest, rqVars, rqRest
<1>4. CompletionsRight'
  <2>1. /\ cq_pc' = "opcode" /\ cq_ne' = 1 /\ cq_npolled' = 0 /\ cq_ret' = cq_ret
        /\ UNCHANGED <<cq_submitted, cq_produced, cq_consumed, cq_writing>>
    BY DEF CQ!PollStart, CQ!deviceVars
  <2>2. sq_acked \in Nat /\ rq_acked \in Nat
    BY SqFacts, RqFacts DEF QueuesRight
  <2>3. UNCHANGED <<sq_done, sq_acked, rq_done, rq_acked>>
    BY DEF sqVars, sqRest, rqVars, rqRest
  <2>4. cq_consumed = sq_acked + rq_acked + 0
    BY <2>2 DEF CompletionsRight, Counting
  <2>5. stage' \in {"count_send", "count_recv"}
    OBVIOUS
  <2> QED
    BY <1>2, <2>1, <2>3, <2>4, <2>5 DEF CompletionsRight, Counting
<1>5. ContentsRight'
  BY DEF ContentsRight, PollsSend, Bufs, rqVars, rqRest
<1> QED
  BY <1>1, <1>3, <1>4, <1>5

LEMMA PollingKeeps ==
  ASSUME IndInv, Polling
  PROVE  IndInv'
<1> USE DEF IndInv, Polling
<1>0. 1 \in 1..NCqe
  BY CqAssumptions
<1>1. QueuesRight'
  BY <1>0, SqStays, RqStays, CqCalls DEF QueuesRight
<1>2. SQP!published' = SQP!published /\ SQP!toWrite' = SQP!toWrite /\ RQP!published' = RQP!published
  BY DEF SQP!published, SQP!toWrite, RQP!published, sqVars, sqRest, rqVars, rqRest
<1>3. ClientTypes' /\ SendsRight' /\ RecvsRight'
  BY <1>2 DEF ClientTypes, SendsRight, RecvsRight, Stages, BeforeSend, PollsSend, BeforeRecv,
              PollsRecv, Payloads, client, sqVars, sqRest, rqVars, rqRest
<1>4. CompletionsRight'
  <2>1. Counting /\ Counting'
    BY DEF Counting, client
  <2>2. UNCHANGED <<sq_done, sq_acked, rq_done, rq_acked, cq_submitted, cq_produced, cq_writing>>
    BY DEF CQ!Poll, CQ!ReadOpcode, CQ!SeeOldLap, CQ!TakeCqe, CQ!SetCi, CQ!deviceVars,
           sqVars, sqRest, rqVars, rqRest
  <2>3. /\ cq_pc # "idle" /\ cq_ne = 1 /\ cq_npolled \in {0, 1}
        /\ cq_consumed = sq_acked + rq_acked + cq_npolled
        /\ cq_pc # "set_ci" => cq_npolled = 0
    BY DEF CompletionsRight, CQ!Poll, CQ!ReadOpcode, CQ!SeeOldLap, CQ!TakeCqe, CQ!SetCi
  <2>4. \/ /\ cq_pc' # "idle" /\ cq_ne' = 1 /\ cq_npolled' \in {0, 1}
           /\ cq_consumed' = sq_acked + rq_acked + cq_npolled'
           /\ cq_pc' # "set_ci" => cq_npolled' = 0
        \/ /\ cq_pc' = "idle" /\ cq_ret' \in {0, 1}
           /\ cq_consumed' = sq_acked + rq_acked + cq_ret'
    <3>1. CASE CQ!ReadOpcode
      BY <2>3, <3>1 DEF CQ!ReadOpcode
    <3>2. CASE CQ!SeeOldLap
      BY <2>3, <3>2 DEF CQ!SeeOldLap
    <3>3. CASE CQ!TakeCqe
      <4>1. cq_npolled = 0 /\ cq_npolled' = cq_npolled + 1 /\ cq_consumed' = cq_consumed + 1
        BY <2>3, <3>3 DEF CQ!TakeCqe
      <4>2. cq_pc' = "set_ci" /\ cq_ne' = 1
        BY <2>3, <3>3, <4>1 DEF CQ!TakeCqe
      <4>3. cq_npolled' = 1 /\ cq_consumed = sq_acked + rq_acked
        BY <2>3, <4>1, SqFacts, RqFacts DEF QueuesRight
      <4>4. cq_consumed' = sq_acked + rq_acked + 1
        BY <4>1, <4>3
      <4> QED
        BY <4>2, <4>3, <4>4
    <3>4. CASE CQ!SetCi
      BY <2>3, <3>4 DEF CQ!SetCi
    <3> QED
      BY <3>1, <3>2, <3>3, <3>4 DEF CQ!Poll
  <2>5. cq_submitted' = SQP!published' + RQP!published'
    BY <1>2, <2>2 DEF CompletionsRight
  <2>6. cq_produced' + (IF cq_writing' THEN 1 ELSE 0) = sq_done' + rq_done'
    BY <2>2 DEF CompletionsRight
  <2> QED
    BY <2>1, <2>2, <2>4, <2>5, <2>6 DEF CompletionsRight
<1>5. ContentsRight'
  BY DEF ContentsRight, PollsSend, Bufs, client, rqVars, rqRest
<1> QED
  BY <1>1, <1>3, <1>4, <1>5

(* pp_dv_post_recv.                                                        *)
LEMMA PostRecvKeeps ==
  ASSUME IndInv, PostRecv
  PROVE  IndInv'
<1> USE DEF IndInv, PostRecv
<1>1. QueuesRight'
  BY SqStays, RqPosts, CqStays DEF QueuesRight
<1>2. /\ rq_pc = "idle" /\ rq_pc' = "write" /\ rq_num' = N
      /\ UNCHANGED <<rq_posted, rq_done, rq_acked>>
  BY DEF RQ!PostRecv
<1>3. SQP!published' = SQP!published /\ SQP!toWrite' = SQP!toWrite /\ RQP!published' = RQP!published
  BY <1>2 DEF SQP!published, SQP!toWrite, RQP!published, sqVars, sqRest
<1>4. rq_posted = 0 /\ rq_acked = 0 /\ rq_done = 0
  BY RqFacts DEF RecvsRight, PollsRecv, QueuesRight
<1>5. ClientTypes' /\ SendsRight' /\ RecvsRight'
  BY <1>2, <1>3, <1>4
  DEF ClientTypes, SendsRight, RecvsRight, Stages, BeforeSend, PollsSend, BeforeRecv,
      PollsRecv, Payloads, sqVars, sqRest
<1>6. CompletionsRight'
  BY <1>2, <1>3 DEF CompletionsRight, Counting, sqVars, sqRest, cqVars
<1>7. ContentsRight'
  BY <1>2 DEF ContentsRight, PollsSend, Bufs
<1> QED
  BY <1>1, <1>5, <1>6, <1>7

(* The receives are counted together, and the completion queue learns of   *)
(* all N when the doorbell record is stored.                               *)
LEMMA ReceivingKeeps ==
  ASSUME IndInv, Receiving
  PROVE  IndInv'
<1> USE DEF IndInv, Receiving
<1>0. rq_num = N /\ N \in 1..NCqe /\ 1 \in 1..NCqe /\ N \in Nat \ {0}
  BY CqAssumptions, SizesAssumption DEF RecvsRight
<1>1. QueuesRight'
  BY <1>0, SqStays, RqPosts, CqStays, CqCalls DEF QueuesRight
<1>2. /\ UNCHANGED <<rq_done, rq_acked, rq_num>>
      /\ UNCHANGED <<cq_pc, cq_ne, cq_npolled, cq_ret, cq_writing, cq_produced, cq_consumed>>
      /\ rq_pc # "idle"
  BY DEF RQ!WriteWqe, RQ!CountWqes, RQ!StoreDbr, CQ!Submit, CQ!driverVars, CQ!deviceVars, cqVars
<1>3. SQP!published' = SQP!published /\ SQP!toWrite' = SQP!toWrite
  BY DEF SQP!published, SQP!toWrite, sqVars, sqRest
<1>4. \/ /\ rq_pc' = "write" /\ rq_posted' = 0 /\ stage' = "receiving"
         /\ RQP!published = 0 /\ RQP!published' = 0 /\ cq_submitted' = cq_submitted
      \/ /\ rq_pc' = "dbr" /\ rq_posted' = N /\ rq_nreq' = N /\ stage' = "receiving"
         /\ RQP!published = 0 /\ RQP!published' = 0 /\ cq_submitted' = cq_submitted
      \/ /\ rq_pc' = "idle" /\ rq_posted' = N /\ stage' = "poll_recv"
         /\ RQP!published = 0 /\ RQP!published' = N /\ cq_submitted' = cq_submitted + N
  <2>1. CASE RQ!WriteWqe /\ UNCHANGED cqVars
    <3>1. rq_pc = "write" /\ rq_pc' = "write" /\ rq_posted = 0 /\ rq_posted' = 0
      BY <2>1 DEF RQ!WriteWqe, RecvsRight
    <3> QED
      BY <2>1, <3>1 DEF RQP!published, cqVars
  <2>2. CASE RQ!CountWqes /\ UNCHANGED cqVars
    <3>1. /\ rq_pc = "write" /\ rq_pc' = "dbr" /\ rq_posted = 0 /\ rq_nreq = N
          /\ rq_posted' = rq_posted + rq_nreq /\ rq_nreq' = rq_nreq
      BY <1>0, <2>2 DEF RQ!CountWqes, RecvsRight
    <3>2. rq_posted' = N /\ rq_nreq' = N
      BY <1>0, <3>1
    <3>3. RQP!published = 0 /\ RQP!published' = 0
      BY <1>0, <3>1, <3>2 DEF RQP!published
    <3> QED
      BY <2>2, <3>1, <3>2, <3>3 DEF cqVars
  <2>3. CASE RQ!StoreDbr /\ CQ!Submit(rq_num)
    <3>1. /\ rq_pc = "dbr" /\ rq_pc' = "idle" /\ rq_posted = N /\ rq_nreq = N
          /\ rq_posted' = rq_posted /\ cq_submitted' = cq_submitted + N
      BY <1>0, <2>3 DEF RQ!StoreDbr, CQ!Submit, RecvsRight
    <3> QED
      BY <1>0, <3>1 DEF RQP!published
  <2> QED
    BY <2>1, <2>2, <2>3
<1>5. stage = "receiving" /\ stage' \in {"receiving", "poll_recv"} /\ num_comp' = 0
  OBVIOUS
<1>6. rq_acked = 0 /\ rq_acked' = 0 /\ rq_num' = N
  BY <1>0, <1>2 DEF RecvsRight
<1>7. ClientTypes' /\ SendsRight'
  BY <1>3 DEF ClientTypes, SendsRight, Stages, BeforeSend, PollsSend, BeforeRecv, PollsRecv,
              Payloads, sqVars, sqRest
<1>8. RecvsRight'
  BY ONLY <1>0, <1>4, <1>5, <1>6 DEF RecvsRight, PollsRecv
<1>9. CompletionsRight'
  <2>1. SQP!published \in Int /\ cq_submitted \in Nat
    BY SqFacts, CqFacts DEF QueuesRight
  <2>2. cq_submitted' = SQP!published' + RQP!published'
    BY <1>0, <1>3, <1>4, <2>1 DEF CompletionsRight
  <2> QED
    BY <1>2, <1>5, <2>2 DEF CompletionsRight, Counting, sqVars, sqRest
<1>10. ContentsRight'
  BY <1>2 DEF ContentsRight, PollsSend, Bufs
<1> QED
  BY <1>1, <1>7, <1>8, <1>9, <1>10

(* A poll returned.  It told of a completion of the queue that this loop   *)
(* waits for, for the other queue has none to tell.                        *)
LEMMA CountedIsDone ==
  ASSUME IndInv, Counting, cq_pc = "idle"
  PROVE  /\ cq_ret \in {0, 1}
         /\ cq_ret = 0 => cq_consumed = sq_acked + rq_acked
         /\ cq_ret = 1 => cq_consumed = sq_acked + rq_acked + 1
         /\ stage = "count_send" /\ cq_ret = 1 => sq_acked < sq_done
         /\ stage = "count_recv" /\ cq_ret = 1 => rq_acked < rq_done
<1>1. /\ sq_acked \in Nat /\ sq_done \in Nat /\ rq_acked \in Nat /\ rq_done \in Nat
      /\ rq_acked <= rq_done
      /\ cq_produced \in Nat /\ cq_consumed \in Nat /\ cq_consumed <= cq_produced
  BY SqFacts, RqFacts, CqFacts DEF IndInv, QueuesRight
<1>2. cq_ret \in {0, 1} /\ cq_consumed = sq_acked + rq_acked + cq_ret
  BY DEF IndInv, CompletionsRight
<1>3. cq_produced <= sq_done + rq_done
  BY <1>1 DEF IndInv, CompletionsRight
<1>4. stage = "count_send" => rq_done = 0
  BY OneQueueAtATime DEF PollsSend
<1>5. stage = "count_recv" => sq_done = N /\ sq_acked = N
  BY OneQueueAtATime DEF BeforeSend, PollsSend
<1>6. CASE cq_ret = 0
  BY <1>1, <1>2, <1>6
<1>7. CASE cq_ret = 1
  <2>1. sq_acked + rq_acked + 1 <= sq_done + rq_done
    BY <1>1, <1>2, <1>3, <1>7
  <2>2. stage = "count_send" => sq_acked < sq_done
    BY <1>1, <1>4, <2>1
  <2>3. stage = "count_recv" => rq_acked < rq_done
    BY <1>1, <1>5, <2>1, SqAssumptions
  <2> QED
    BY <1>2, <1>7, <2>2, <2>3
<1> QED
  BY <1>2, <1>6, <1>7

LEMMA CountSendKeeps ==
  ASSUME IndInv, CountSend
  PROVE  IndInv'
<1> USE DEF IndInv, CountSend
<1>0. /\ sq_acked \in Nat /\ num_comp \in Nat /\ N \in Nat \ {0} /\ sq_pc = "idle"
      /\ rq_acked = 0 /\ sq_acked = num_comp /\ num_comp < N /\ sq_posted = N
      /\ rq_acked' = rq_acked /\ rq_posted' = rq_posted
      /\ sq_done' = sq_done /\ rq_done' = rq_done /\ sq_posted' = sq_posted
      /\ sq_pc' = sq_pc /\ rq_pc' = rq_pc
  <2>1. rq_acked = 0 /\ sq_acked \in Nat /\ N \in Nat \ {0}
    BY OneQueueAtATime, SqFacts, RqFacts, SqAssumptions DEF QueuesRight, PollsSend
  <2> QED
    BY <2>1 DEF SendsRight, ClientTypes, PollsSend, BeforeSend, sqRest, rqVars, rqRest
<1>1. /\ SQP!published' = SQP!published /\ RQP!published' = RQP!published
      /\ SQP!toWrite' = SQP!toWrite
  BY DEF SQP!published, SQP!toWrite, RQP!published, sqRest, rqVars, rqRest
<1>2. /\ cq_ret \in {0, 1}
      /\ cq_ret = 0 => cq_consumed = sq_acked + rq_acked
      /\ cq_ret = 1 => cq_consumed = sq_acked + rq_acked + 1 /\ sq_acked < sq_done
  BY CountedIsDone DEF Counting
<1>3. \/ /\ cq_ret = 0 /\ stage' = "poll_send" /\ num_comp' = num_comp /\ sq_acked' = sq_acked
      \/ /\ cq_ret = 1 /\ num_comp' = num_comp + 1 /\ sq_acked' = sq_acked + 1
         /\ stage' = IF num_comp + 1 = N THEN "clear" ELSE "poll_send"
  BY <1>2 DEF Counted
<1>4. QueuesRight'
  <2>1. RQP!IndInv' /\ CQP!IndInv'
    BY RqStays, CqStays DEF QueuesRight
  <2>2. SQP!IndInv'
    <3>1. CASE cq_ret = 0
      BY <1>3, <3>1, SqStays DEF QueuesRight, sqVars
    <3>2. CASE cq_ret = 1
      BY <1>0, <1>2, <1>3, <3>2, SqReaps DEF QueuesRight
    <3> QED
      BY <1>2, <3>1, <3>2
  <2> QED
    BY <2>1, <2>2 DEF QueuesRight
<1>5. /\ num_comp' \in Nat /\ sq_acked' = num_comp'
      /\ \/ stage' = "poll_send" /\ num_comp' < N
         \/ stage' = "clear" /\ num_comp' = N
  BY <1>0, <1>3
<1>6. ClientTypes' /\ RecvsRight'
  BY <1>0, <1>5 DEF ClientTypes, RecvsRight, Stages, BeforeSend, PollsSend, BeforeRecv, PollsRecv,
     Payloads, rqVars, rqRest
<1>7. SendsRight'
  BY ONLY <1>0, <1>5 DEF SendsRight, BeforeSend, PollsSend, BeforeRecv
<1>8. CompletionsRight'
  <2>1. cq_consumed = sq_acked' + rq_acked'
    BY <1>0, <1>2, <1>3
  <2> QED
    BY <1>0, <1>1, <1>5, <2>1 DEF CompletionsRight, Counting, cqVars
<1>9. ContentsRight'
  BY <1>0 DEF ContentsRight, PollsSend, Bufs
<1> QED
  BY <1>4, <1>6, <1>7, <1>8, <1>9

LEMMA CountRecvKeeps ==
  ASSUME IndInv, CountRecv
  PROVE  IndInv'
<1> USE DEF IndInv, CountRecv
<1>0. /\ rq_acked \in Nat /\ num_comp \in Nat /\ N \in Nat \ {0} /\ sq_acked \in Nat
      /\ sq_acked = N /\ sq_pc = "idle" /\ sq_posted = N /\ rq_pc = "idle" /\ rq_posted = N
      /\ rq_acked = num_comp /\ num_comp < N
      /\ sq_acked' = sq_acked /\ rq_posted' = rq_posted
      /\ sq_done' = sq_done /\ rq_done' = rq_done /\ sq_posted' = sq_posted
      /\ sq_pc' = sq_pc /\ rq_pc' = rq_pc /\ rq_num' = rq_num /\ rq_nreq' = rq_nreq
  <2>1. rq_acked \in Nat /\ sq_acked \in Nat /\ N \in Nat \ {0}
    BY SqFacts, RqFacts, SqAssumptions DEF QueuesRight
  <2> QED
    BY <2>1 DEF SendsRight, RecvsRight, ClientTypes, PollsSend, PollsRecv, BeforeSend, sqVars,
                sqRest, rqRest
<1>1. /\ SQP!published' = SQP!published /\ RQP!published' = RQP!published
      /\ SQP!toWrite' = SQP!toWrite
  BY DEF SQP!published, SQP!toWrite, RQP!published, sqVars, sqRest, rqRest
<1>2. /\ cq_ret \in {0, 1}
      /\ cq_ret = 0 => cq_consumed = sq_acked + rq_acked
      /\ cq_ret = 1 => cq_consumed = sq_acked + rq_acked + 1 /\ rq_acked < rq_done
  BY CountedIsDone DEF Counting
<1>3. \/ /\ cq_ret = 0 /\ stage' = "poll_recv" /\ num_comp' = num_comp
         /\ rq_acked' = rq_acked /\ shown' = shown
      \/ /\ cq_ret = 1 /\ num_comp' = num_comp + 1 /\ rq_acked' = rq_acked + 1
         /\ stage' = IF num_comp + 1 = N THEN "done" ELSE "poll_recv"
         /\ shown' = [shown EXCEPT ![num_comp] = mrbuf[num_comp]]
  BY <1>2 DEF Counted
<1>4. QueuesRight'
  <2>1. SQP!IndInv' /\ CQP!IndInv'
    BY SqStays, CqStays DEF QueuesRight
  <2>2. RQP!IndInv'
    <3>1. CASE cq_ret = 0
      BY <1>3, <3>1, RqStays DEF QueuesRight, rqVars
    <3>2. CASE cq_ret = 1
      BY <1>0, <1>2, <1>3, <3>2, RqReaps DEF QueuesRight
    <3> QED
      BY <1>2, <3>1, <3>2
  <2> QED
    BY <2>1, <2>2 DEF QueuesRight
<1>5. /\ num_comp' \in Nat /\ rq_acked' = num_comp'
      /\ \/ stage' = "poll_recv" /\ num_comp' < N
         \/ stage' = "done" /\ num_comp' = N
  BY <1>0, <1>3
<1>6. ClientTypes'
  <2>1. num_comp \in Bufs
    BY <1>0 DEF Bufs
  <2>2. mrbuf[num_comp] \in Payloads
    BY <2>1 DEF ClientTypes
  <2>3. shown' \in [Bufs -> Payloads]
    BY <1>3, <2>2 DEF ClientTypes
  <2> QED
    BY <1>5, <2>3 DEF ClientTypes, Stages, PollsRecv
<1>7. SendsRight'
  BY ONLY <1>0, <1>5 DEF SendsRight, BeforeSend, PollsSend, BeforeRecv
<1>8. RecvsRight'
  BY ONLY <1>0, <1>5 DEF RecvsRight, PollsRecv
<1>9. CompletionsRight'
  <2>1. cq_consumed = sq_acked' + rq_acked'
    BY <1>0, <1>2, <1>3
  <2> QED
    BY <1>0, <1>1, <1>5, <2>1 DEF CompletionsRight, Counting, cqVars
<1>10. ContentsRight'
  <2>1. ASSUME NEW i \in Bufs, i < rq_acked'
        PROVE  shown'[i] = "pong"
    <3>1. i \in Nat
      BY <1>0 DEF Bufs
    <3>2. CASE i < rq_acked
      <4>1. i # num_comp
        BY <1>0, <3>1, <3>2
      <4>2. shown[i] = "pong"
        BY <3>2 DEF ContentsRight
      <4> QED
        BY <1>3, <4>1, <4>2 DEF ClientTypes
    <3>3. CASE ~(i < rq_acked)
      <4>1. cq_ret = 1 /\ i = num_comp
        BY <1>0, <1>3, <2>1, <3>1, <3>3
      <4>2. mrbuf[i] = "pong"
        BY <1>0, <1>2, <4>1 DEF ContentsRight
      <4> QED
        BY <1>3, <4>1, <4>2 DEF ClientTypes
    <3> QED
      BY <3>2, <3>3
  <2> QED
    BY <1>0, <1>5, <2>1 DEF ContentsRight, PollsSend
<1> QED
  BY <1>4, <1>6, <1>7, <1>8, <1>9, <1>10

(* A step that only moves stores on, or the device between its requests.   *)
LEMMA SilentKeeps ==
  ASSUME IndInv, QueuesRight', UNCHANGED client,
         UNCHANGED <<sq_pc, sq_left, sq_posted, sq_done, sq_acked>>,
         UNCHANGED <<rq_pc, rq_nreq, rq_num, rq_posted, rq_done, rq_acked>>,
         UNCHANGED <<cq_pc, cq_ne, cq_npolled, cq_ret, cq_writing, cq_submitted, cq_produced,
                     cq_consumed>>
  PROVE  IndInv'
<1> USE DEF IndInv, client
<1>1. SQP!published' = SQP!published /\ SQP!toWrite' = SQP!toWrite /\ RQP!published' = RQP!published
  BY DEF SQP!published, SQP!toWrite, RQP!published
<1>2. ClientTypes'
  BY DEF ClientTypes
<1>3. SendsRight' /\ RecvsRight'
  BY <1>1 DEF SendsRight, RecvsRight
<1>4. CompletionsRight'
  BY <1>1 DEF CompletionsRight, Counting
<1>5. ContentsRight'
  BY DEF ContentsRight
<1> QED
  BY <1>2, <1>3, <1>4, <1>5

LEMMA DrainsKeep ==
  ASSUME IndInv, Drain
  PROVE  IndInv'
<1> USE DEF IndInv, Drain
<1>1. CASE SQ!Drain /\ UNCHANGED <<rqVars, cqVars>>
  <2>1. QueuesRight'
    BY <1>1, SqDrains, RqStays, CqStays DEF QueuesRight
  <2>2. UNCHANGED <<sq_pc, sq_left, sq_posted, sq_done, sq_acked>>
    BY <1>1 DEF SQ!Drain, SQ!DrainUnit, SQ!DrainDbr, SQ!DrainRing, SQ!driverVars, SQ!deviceVars
  <2> QED
    BY <1>1, <2>1, <2>2, SilentKeeps DEF rqVars, rqRest, cqVars
<1>2. CASE RQ!Drain /\ UNCHANGED <<sqVars, cqVars>>
  <2>1. QueuesRight'
    BY <1>2, SqStays, RqWorks, CqStays DEF QueuesRight
  <2>2. UNCHANGED <<rq_pc, rq_nreq, rq_num, rq_posted, rq_done, rq_acked>>
    BY <1>2 DEF RQ!Drain, RQ!DrainWqe, RQ!DrainDbr, RQ!driverVars
  <2> QED
    BY <1>2, <2>1, <2>2, SilentKeeps DEF sqVars, sqRest, cqVars
<1>3. CASE CQ!DrainCi /\ UNCHANGED <<sqVars, rqVars>>
  <2>1. QueuesRight'
    BY <1>3, SqStays, RqStays, CqWorks DEF QueuesRight
  <2>2. UNCHANGED <<cq_pc, cq_ne, cq_npolled, cq_ret, cq_writing, cq_submitted, cq_produced,
                    cq_consumed>>
    BY <1>3 DEF CQ!DrainCi, CQ!driverVars, CQ!deviceVars
  <2> QED
    BY <1>3, <2>1, <2>2, SilentKeeps DEF sqVars, sqRest, rqVars, rqRest
<1> QED
  BY <1>1, <1>2, <1>3

LEMMA SqDeviceKeeps ==
  ASSUME IndInv, SqDevice
  PROVE  IndInv'
<1> USE DEF IndInv, SqDevice
<1>1. QueuesRight'
  BY SqWorks, RqStays, CqStays DEF QueuesRight
<1>2. UNCHANGED <<sq_pc, sq_left, sq_posted, sq_done, sq_acked>>
  BY DEF SQ!HcaSleep, SQ!Rewind, SQ!HcaRewind, SQ!driverVars
<1> QED
  BY <1>1, <1>2, SilentKeeps DEF rqVars, rqRest, cqVars

(* What is fetched is a request of the buffers' first use, be it for the   *)
(* first time or again.                                                    *)
LEMMA FetchesPing ==
  ASSUME IndInv, SQ!HcaFetch
  PROVE  sq_hwNext \in Bufs /\ mrbuf[sq_hwNext] = "ping"
<1> USE DEF IndInv
<1>1. SQP!HcaFetch
  BY DEF SQ!HcaFetch, SQP!HcaFetch, SQ!Pending, SQP!Pending, SQ!driverVars, SQP!driverVars,
         SQ!seenVars, SQP!seenVars
<1>2. sq_hwNext < SQP!announced
  BY <1>1, SQP!FetchIsAnnounced, SqAssumptions DEF QueuesRight
<1>3. SQP!announced \in Int /\ SQP!announced <= sq_posted
  <2>1. sq_posted \in Nat
    BY SqFacts DEF QueuesRight
  <2> QED
    BY <2>1 DEF SQP!announced, SQP!published
<1>4. sq_hwNext \in Nat /\ sq_posted \in Nat /\ SQP!toWrite \in Nat /\ N \in Nat
  BY SqFacts, SqAssumptions DEF QueuesRight
<1>5. sq_hwNext < sq_posted
  BY <1>2, <1>3, <1>4
<1>6. stage \in {"sending"} \cup PollsSend
  <2>1. stage \notin BeforeSend
    BY <1>4, <1>5 DEF SendsRight
  <2>2. sq_hwNext # sq_posted
    BY <1>4, <1>5
  <2> QED
    BY <2>1, <2>2, OneQueueAtATime
<1>7. sq_posted <= N
  <2>1. CASE stage = "sending"
    BY <1>4, <2>1 DEF SendsRight
  <2>2. CASE stage \in PollsSend
    BY <1>4, <2>2 DEF SendsRight, PollsSend, BeforeSend
  <2> QED
    BY <1>6, <2>1, <2>2
<1>8. sq_hwNext \in Bufs
  BY <1>4, <1>5, <1>7 DEF Bufs
<1> QED
  BY <1>6, <1>8 DEF ContentsRight

LEMMA TransmitKeeps ==
  ASSUME IndInv, Transmit
  PROVE  IndInv'
<1> USE DEF IndInv, Transmit
<1>1. QueuesRight'
  BY SqWorks, RqStays, CqStays DEF QueuesRight
<1>2. UNCHANGED <<sq_pc, sq_left, sq_posted, sq_done, sq_acked>>
  BY DEF SQ!HcaFetch, SQ!driverVars
<1>3. SQP!published' = SQP!published /\ SQP!toWrite' = SQP!toWrite /\ RQP!published' = RQP!published
  BY <1>2 DEF SQP!published, SQP!toWrite, RQP!published, rqVars, rqRest
<1>4. ClientTypes' /\ SendsRight' /\ RecvsRight'
  BY <1>2, <1>3 DEF ClientTypes, SendsRight, RecvsRight, rqVars, rqRest
<1>5. CompletionsRight'
  BY <1>2, <1>3 DEF CompletionsRight, Counting, rqVars, rqRest, cqVars
<1>6. ContentsRight'
  <2>1. mrbuf[sq_hwNext] = "ping"
    BY FetchesPing
  <2>2. \A t \in wire' : t[2] = "ping"
    BY <2>1 DEF ContentsRight
  <2> QED
    BY <2>2 DEF ContentsRight, rqVars, rqRest
<1> QED
  BY <1>1, <1>4, <1>5, <1>6

(* A request completes and its completion is begun.                        *)
LEMMA SendCompletesKeeps ==
  ASSUME IndInv, SendCompletes
  PROVE  IndInv'
<1> USE DEF IndInv, SendCompletes, client
<1>1. QueuesRight'
  BY SqWorks, RqStays, CqWorks DEF QueuesRight
<1>2. UNCHANGED <<sq_pc, sq_left, sq_posted, sq_acked>> /\ sq_done' = sq_done + 1
  BY DEF SQ!HcaComplete, SQ!driverVars
<1>3. SQP!published' = SQP!published /\ SQP!toWrite' = SQP!toWrite /\ RQP!published' = RQP!published
  BY <1>2 DEF SQP!published, SQP!toWrite, RQP!published, rqVars, rqRest
<1>4. ClientTypes' /\ SendsRight' /\ RecvsRight'
  BY <1>2, <1>3 DEF ClientTypes, SendsRight, RecvsRight, rqVars, rqRest
<1>5. CompletionsRight'
  <2>1. /\ cq_writing = FALSE /\ cq_writing' = TRUE
        /\ UNCHANGED <<cq_pc, cq_ne, cq_npolled, cq_ret, cq_submitted, cq_produced, cq_consumed>>
    BY CqFacts DEF QueuesRight, CQ!HcaWriteBody, CQ!driverVars
  <2>2. sq_done \in Nat /\ rq_done \in Nat /\ cq_produced \in Nat
    BY SqFacts, RqFacts, CqFacts DEF QueuesRight
  <2>3. cq_produced + 1 = (sq_done + 1) + rq_done
    BY <2>1, <2>2 DEF CompletionsRight
  <2> QED
    BY <1>2, <1>3, <2>1, <2>3 DEF CompletionsRight, Counting, rqVars, rqRest
<1>6. ContentsRight'
  BY DEF ContentsRight, rqVars, rqRest
<1> QED
  BY <1>1, <1>4, <1>5, <1>6

(* A message uses a receive whose doorbell record was stored, and finds    *)
(* its WQE.                                                                *)
LEMMA ArrivesInPosted ==
  ASSUME IndInv, RQ!HcaReceive
  PROVE  rq_done < RQP!published /\ rq_wqeSeen[RQ!Slot(rq_done)] = rq_done
<1> USE DEF IndInv
<1>1. RQP!HcaReceive
  BY DEF RQ!HcaReceive, RQP!HcaReceive, RQ!driverVars, RQP!driverVars
<1>2. rq_done < RQP!Announced
  BY <1>1, RQP!ReceiveIsAnnounced, RqAssumptions DEF QueuesRight
<1>3. RQP!Announced <= RQP!published
  BY RQP!PublishedFits, RqAssumptions DEF QueuesRight
<1>4. rq_done \in Nat /\ RQP!published \in Nat /\ RQP!published <= rq_posted /\ rq_posted \in Nat
  BY RqFacts DEF QueuesRight
<1>5. RQP!Announced \in Int
  <2>1. DbMod \in Nat \ {0} /\ rq_dbSeen \in Int
    BY RqAssumptions, SizesAssumption DEF QueuesRight, RQP!IndInv, RQP!TypeOK
  <2> QED
    BY <1>4, <2>1 DEF RQP!Announced
<1>6. rq_done < RQP!published
  BY <1>2, <1>3, <1>4, <1>5
<1>7. RQ!Slot(rq_done) = RQP!Slot(rq_done)
  BY DEF RQ!Slot, RQP!Slot
<1> QED
  BY <1>4, <1>6, <1>7 DEF QueuesRight, RQP!IndInv, RQP!RingHolds

(* A message goes to the buffer of the oldest receive.                     *)
LEMMA MessageArrivesKeeps ==
  ASSUME IndInv, MessageArrives
  PROVE  IndInv'
<1> USE DEF IndInv, MessageArrives
<1>1. QueuesRight'
  BY SqStays, RqWorks, CqWorks DEF QueuesRight
<1>2. /\ UNCHANGED <<rq_pc, rq_nreq, rq_num, rq_posted, rq_acked>> /\ rq_done' = rq_done + 1
      /\ UNCHANGED <<stage, num_comp, wire, shown>>
      /\ UNCHANGED <<sq_pc, sq_left, sq_posted, sq_done, sq_acked>>
  BY DEF RQ!HcaReceive, RQ!driverVars, sqVars, sqRest
<1>3. SQP!published' = SQP!published /\ SQP!toWrite' = SQP!toWrite /\ RQP!published' = RQP!published
  BY <1>2 DEF SQP!published, SQP!toWrite, RQP!published
<1>4. rq_wqeSeen[RQ!Slot(rq_done)] = rq_done /\ rq_done \in Nat /\ rq_posted > 0
  BY ArrivesInPosted, RqFacts DEF QueuesRight
<1>5. mrbuf' = [mrbuf EXCEPT ![rq_done] = "pong"]
  BY <1>4
<1>6. ClientTypes'
  <2>1. mrbuf' \in [Bufs -> Payloads]
    BY <1>5 DEF ClientTypes, Payloads
  <2> QED
    BY <1>2, <2>1 DEF ClientTypes
<1>7. SendsRight' /\ RecvsRight'
  BY <1>2, <1>3 DEF SendsRight, RecvsRight
<1>8. CompletionsRight'
  <2>1. /\ cq_writing = FALSE /\ cq_writing' = TRUE
        /\ UNCHANGED <<cq_pc, cq_ne, cq_npolled, cq_ret, cq_submitted, cq_produced, cq_consumed>>
    BY CqFacts DEF QueuesRight, CQ!HcaWriteBody, CQ!driverVars
  <2>2. sq_done \in Nat /\ cq_produced \in Nat
    BY SqFacts, CqFacts DEF QueuesRight
  <2>3. cq_produced + 1 = sq_done + (rq_done + 1)
    BY <1>4, <2>1, <2>2 DEF CompletionsRight
  <2> QED
    BY <1>2, <1>3, <2>1, <2>3 DEF CompletionsRight, Counting
<1>9. ContentsRight'
  <2>1. stage \notin {"post_send", "sending"} \cup PollsSend
    <3>1. rq_posted # 0
      BY <1>4
    <3> QED
      BY <3>1 DEF RecvsRight, PollsSend, PollsRecv
  <2>2. ASSUME NEW i \in Bufs, i < rq_done + 1
        PROVE  mrbuf'[i] = "pong"
    <3>1. i \in Int
      BY SqAssumptions DEF Bufs
    <3>2. CASE i = rq_done
      BY <1>5, <3>2 DEF ClientTypes
    <3>3. CASE i # rq_done
      <4>1. i < rq_done
        BY <1>4, <2>2, <3>1, <3>3
      <4>2. mrbuf[i] = "pong"
        BY <4>1 DEF ContentsRight
      <4> QED
        BY <1>5, <3>3, <4>2 DEF ClientTypes
    <3> QED
      BY <3>2, <3>3
  <2> QED
    BY <1>2, <2>1, <2>2 DEF ContentsRight
<1> QED
  BY <1>1, <1>6, <1>7, <1>8, <1>9

(* The entry is handed to the driver.                                      *)
LEMMA EntryOwnedKeeps ==
  ASSUME IndInv, EntryOwned
  PROVE  IndInv'
<1> USE DEF IndInv, EntryOwned, client
<1>1. QueuesRight'
  BY SqStays, RqStays, CqWorks DEF QueuesRight
<1>2. SQP!published' = SQP!published /\ SQP!toWrite' = SQP!toWrite /\ RQP!published' = RQP!published
  BY DEF SQP!published, SQP!toWrite, RQP!published, sqVars, sqRest, rqVars, rqRest
<1>3. ClientTypes' /\ SendsRight' /\ RecvsRight'
  BY <1>2 DEF ClientTypes, SendsRight, RecvsRight, sqVars, sqRest, rqVars, rqRest
<1>4. CompletionsRight'
  <2>1. /\ cq_writing /\ cq_writing' = FALSE /\ cq_produced' = cq_produced + 1
        /\ UNCHANGED <<cq_pc, cq_ne, cq_npolled, cq_ret, cq_submitted, cq_consumed>>
    BY DEF CQ!HcaWriteOwner, CQ!driverVars
  <2>2. cq_produced + 1 = sq_done + rq_done
    BY <2>1 DEF CompletionsRight
  <2>3. cq_produced \in Nat
    BY CqFacts DEF QueuesRight
  <2>4. cq_produced' + (IF cq_writing' THEN 1 ELSE 0) = sq_done + rq_done
    BY <2>1, <2>2, <2>3
  <2> QED
    BY <1>2, <2>1, <2>4 DEF CompletionsRight, Counting, sqVars, sqRest, rqVars, rqRest
<1>5. ContentsRight'
  BY DEF ContentsRight, rqVars, rqRest
<1> QED
  BY <1>1, <1>3, <1>4, <1>5

LEMMA NextIndInv == IndInv /\ [Next]_vars => IndInv'
<1> SUFFICES ASSUME IndInv, [Next]_vars
             PROVE  IndInv'
  OBVIOUS
<1>1. CASE Caller
  BY <1>1, FillClearKeeps, PostSendKeeps, SendingKeeps, PollCqKeeps, CountSendKeeps,
     PostRecvKeeps, ReceivingKeeps, CountRecvKeeps, PollingKeeps DEF Caller
<1>2. CASE Drain
  BY <1>2, DrainsKeep
<1>3. CASE Transmit \/ SqDevice \/ SendCompletes \/ MessageArrives \/ EntryOwned
  BY <1>3, TransmitKeeps, SqDeviceKeeps, SendCompletesKeeps, MessageArrivesKeeps, EntryOwnedKeeps
<1>4. CASE UNCHANGED vars
  <2>1. QueuesRight'
    BY <1>4, SqStays, RqStays, CqStays DEF IndInv, QueuesRight, vars
  <2> QED
    BY <1>4, <2>1, SilentKeeps DEF vars, sqVars, sqRest, rqVars, rqRest, cqVars
<1> QED
  BY <1>1, <1>2, <1>3, <1>4 DEF Next

(***************************************************************************)
(* The theorems.                                                           *)
(***************************************************************************)

(* The inductive invariant holds in every behaviour.                       *)
THEOREM Invariance == Spec => []IndInv
  BY InitIndInv, NextIndInv, PTL DEF Spec

(* The buffers are shared by both directions and by the device, and still  *)
(* every message sent, on a retransmission too, is the ping that           *)
(* client_traffic_dv wrote, and every message it shows is one received.    *)
THEOREM BuffersAreRight == Spec => []BuffersRight
<1>1. ASSUME IndInv
      PROVE  BuffersRight
  <2>1. rq_acked \in Nat /\ N \in Nat
    BY <1>1, RqFacts, SqAssumptions DEF IndInv, QueuesRight
  <2>2. ASSUME NEW i \in Bufs, rq_acked > i
        PROVE  shown[i] = "pong"
    BY <1>1, <2>1, <2>2 DEF IndInv, ContentsRight, Bufs
  <2> QED
    BY <1>1, <2>2 DEF IndInv, ContentsRight, BuffersRight
<1> QED
  BY <1>1, Invariance, PTL

(* There is always room for what client_traffic_dv posts and for what the  *)
(* device completes, though nothing in the code counts: the guards under   *)
(* which the queues are modelled never hold it up.                         *)
THEOREM RoomIsAlways == Spec => []RoomAlways
<1>1. ASSUME IndInv
      PROVE  RoomAlways
  <2> USE <1>1 DEF IndInv
  <2>1. stage = "post_send" => sq_posted = 0 /\ sq_acked = 0 /\ rq_posted = 0
    BY DEF SendsRight, RecvsRight, BeforeSend, PollsRecv
  <2>2. stage = "post_recv" => sq_posted = N /\ sq_acked = N /\ rq_posted = 0
    BY DEF SendsRight, RecvsRight, BeforeSend, PollsSend, PollsRecv
  <2>3. rq_posted = 0 => rq_done = 0 /\ rq_acked = 0
    BY RqFacts DEF QueuesRight
  <2>4. stage \in {"post_send", "post_recv"} =>
          cq_submitted = sq_posted + rq_posted /\ cq_consumed = sq_acked + rq_acked
    <3>1. stage \in {"post_send", "post_recv"} => sq_pc = "idle" /\ rq_pc = "idle" /\ ~Counting
      BY DEF SendsRight, RecvsRight, Counting
    <3> QED
      BY <3>1 DEF CompletionsRight, SQP!published, RQP!published
  <2>5. CQ!NoOverrun
    <3>1. CQP!NoOverrun
      BY CQP!UsedBounds, CqAssumptions DEF QueuesRight
    <3> QED
      BY <3>1 DEF CQP!NoOverrun, CQ!NoOverrun, CQP!UsedPerDevice, CQ!UsedPerDevice
  <2>6. stage \in {"receiving", "poll_recv", "count_recv", "done"} => sq_acked = N /\ sq_done = N
    BY OneQueueAtATime DEF BeforeSend, PollsSend
  <2>7. N \in Nat /\ N <= SqWqeCnt /\ N <= RqWqeCnt /\ N <= NCqe
    BY SizesAssumption
  <2>8. stage = "post_send" => sq_posted + N - sq_acked = N
    BY <2>1, <2>7
  <2>9. stage = "post_recv" => rq_posted + N - rq_acked = N
    BY <2>2, <2>3, <2>7
  <2>10. stage \in {"post_send", "post_recv"} => cq_submitted + N - cq_consumed = N
    BY <2>1, <2>2, <2>3, <2>4, <2>7
  <2> QED
    BY <2>5, <2>6, <2>7, <2>8, <2>9, <2>10 DEF RoomAlways
<1> QED
  BY <1>1, Invariance, PTL

(* Each queue's part of a step is a step of that queue's own module.       *)
LEMMA SqStep ==
  ASSUME IndInv, Next
  PROVE  [SQ!Next]_(SQ!vars)
<1> USE DEF SQ!Next, SQ!vars
<1>1. CASE Caller
  <2>1. CASE Fill \/ PollSend \/ Clear \/ PostRecv \/ Receiving \/ PollRecv \/ CountRecv \/ Polling
    BY <2>1 DEF Fill, PollSend, PollRecv, PollCq, Clear, PostRecv, Receiving, CountRecv, Polling,
                sqVars, sqRest
  <2>2. CASE PostSend
    <3>1. N \in 0..N+1 /\ "SEND_IMM" \in SQ!Opcodes /\ FALSE \in BOOLEAN
      BY SqAssumptions DEF SQ!Opcodes
    <3> QED
      BY <2>2, <3>1 DEF PostSend, SQ!Call
  <2>3. CASE Sending
    BY <2>3 DEF Sending, SQ!Post
  <2>4. CASE CountSend
    <3>1. sq_pc = "idle"
      BY <2>4 DEF CountSend, IndInv, SendsRight
    <3>2. cq_ret > 0 => sq_acked < sq_done
      BY <2>4, CountedIsDone DEF CountSend, Counting
    <3> QED
      BY <2>4, <3>1, <3>2 DEF CountSend, SQ!Reap, SQ!driverVars, SQ!seenVars, SQ!deviceVars, sqRest
  <2> QED
    BY <1>1, <2>1, <2>2, <2>3, <2>4 DEF Caller
<1>2. CASE Drain
  BY <1>2 DEF Drain, sqVars, sqRest
<1>3. CASE Transmit \/ SqDevice \/ SendCompletes
  BY <1>3 DEF Transmit, SqDevice, SendCompletes, SQ!Hca
<1>4. CASE MessageArrives \/ EntryOwned
  BY <1>4 DEF MessageArrives, EntryOwned, sqVars, sqRest
<1> QED
  BY <1>1, <1>2, <1>3, <1>4 DEF Next

LEMMA RqStep ==
  ASSUME IndInv, Next
  PROVE  [RQ!Next]_(RQ!vars)
<1> USE DEF RQ!Next, RQ!vars
<1>1. CASE Caller
  <2>1. CASE Fill \/ PostSend \/ Sending \/ PollSend \/ CountSend \/ Clear \/ PollRecv \/ Polling
    BY <2>1 DEF Fill, PostSend, Sending, PollSend, PollRecv, PollCq, CountSend, Clear, Polling,
                rqVars, rqRest
  <2>2. CASE PostRecv
    <3>1. N \in 1..RqWqeCnt
      BY RqAssumptions
    <3> QED
      BY <2>2, <3>1 DEF PostRecv, RQ!Call
  <2>3. CASE Receiving
    BY <2>3 DEF Receiving, RQ!Post
  <2>4. CASE CountRecv
    <3>1. rq_pc = "idle"
      BY <2>4 DEF CountRecv, IndInv, RecvsRight
    <3>2. cq_ret > 0 => rq_acked < rq_done
      BY <2>4, CountedIsDone DEF CountRecv, Counting
    <3> QED
      BY <2>4, <3>1, <3>2 DEF CountRecv, RQ!Reap, RQ!driverVars, rqRest
  <2> QED
    BY <1>1, <2>1, <2>2, <2>3, <2>4 DEF Caller
<1>2. CASE Drain
  BY <1>2 DEF Drain, rqVars, rqRest
<1>3. CASE Transmit \/ SqDevice \/ SendCompletes \/ EntryOwned
  BY <1>3 DEF Transmit, SqDevice, SendCompletes, EntryOwned, rqVars, rqRest
<1>4. CASE MessageArrives
  BY <1>4 DEF MessageArrives
<1> QED
  BY <1>1, <1>2, <1>3, <1>4 DEF Next

LEMMA CqStep ==
  ASSUME IndInv, Next
  PROVE  [CQ!Next]_(CQ!vars)
<1> USE DEF CQ!Next, CQ!vars
<1>1. CASE Caller
  <2>1. CASE Fill \/ PostSend \/ CountSend \/ Clear \/ PostRecv \/ CountRecv
    BY <2>1 DEF Fill, PostSend, CountSend, Clear, PostRecv, CountRecv, cqVars
  <2>2. CASE Sending
    <3>1. 1 \in 1..NCqe
      BY CqAssumptions
    <3> QED
      BY <2>2, <3>1 DEF Sending, cqVars
  <2>3. CASE Receiving
    <3>1. rq_num = N /\ N \in 1..NCqe
      BY <2>3, SizesAssumption, CqAssumptions DEF Receiving, IndInv, RecvsRight
    <3> QED
      BY <2>3, <3>1 DEF Receiving, cqVars
  <2>4. CASE PollSend \/ PollRecv
    <3>1. 1 \in 1..1
      OBVIOUS
    <3> QED
      BY <2>4, <3>1 DEF PollSend, PollRecv, PollCq
  <2>5. CASE Polling
    BY <2>5 DEF Polling
  <2> QED
    BY <1>1, <2>1, <2>2, <2>3, <2>4, <2>5 DEF Caller
<1>2. CASE Drain
  BY <1>2 DEF Drain, cqVars
<1>3. CASE Transmit \/ SqDevice
  BY <1>3 DEF Transmit, SqDevice, cqVars
<1>4. CASE SendCompletes \/ MessageArrives
  BY <1>4 DEF SendCompletes, MessageArrives, CQ!Hca
<1>5. CASE EntryOwned
  <2>1. "DONE" \in CQ!HwOpcodes
    BY DEF CQ!HwOpcodes
  <2> QED
    BY <1>5, <2>1 DEF EntryOwned, CQ!Hca
<1> QED
  BY <1>1, <1>2, <1>3, <1>4, <1>5 DEF Next

(* The queues of the data path are the queues of the three modules: the    *)
(* traffic function is a caller as they assume it, one that learns of a    *)
(* completion only when its queue has completed a request, and the device  *)
(* a device as they assume it.  All that is proved of them holds here.     *)
THEOREM QueuesComposed == Spec => SQ!Spec /\ RQ!Spec /\ CQ!Spec
<1>1. Init => SQ!Init /\ RQ!Init /\ CQ!Init
  BY DEF Init
<1>2. ASSUME IndInv, [Next]_vars
      PROVE  [SQ!Next]_(SQ!vars) /\ [RQ!Next]_(RQ!vars) /\ [CQ!Next]_(CQ!vars)
  <2>1. CASE Next
    BY <1>2, <2>1, SqStep, RqStep, CqStep
  <2>2. CASE UNCHANGED vars
    BY <2>2 DEF vars, sqVars, sqRest, rqVars, rqRest, cqVars, SQ!vars, RQ!vars, CQ!vars
  <2> QED
    BY <1>2, <2>1, <2>2
<1> QED
  BY <1>1, <1>2, Invariance, PTL DEF Spec, SQ!Spec, RQ!Spec, CQ!Spec

(***************************************************************************)
(* The refinement: requests and receives are one CompletionChannel.        *)
(***************************************************************************)

(* Requests are asked one by one, receives all at once.                    *)
LEMMA AskStep ==
  ASSUME IndInv, Sending \/ Receiving
  PROVE  [Channel!Next]_(Channel!vars)
<1> USE DEF IndInv, Channel!vars
<1>0. N \in Nat \ {0} /\ 1 \in 1..N /\ N \in 1..N
  BY SizesAssumption
<1>1. /\ sq_posted \in Nat /\ sq_acked \in Nat /\ rq_posted \in Nat /\ rq_acked \in Nat
      /\ SQP!toWrite \in Nat
  BY SqFacts, RqFacts DEF QueuesRight
<1>2. CASE Sending
  <2>1. UNCHANGED <<rq_posted, rq_done, rq_acked, sq_done, sq_acked>>
    BY <1>2 DEF Sending, SQ!WriteWqe, SQ!RingUar, SQ!StoreDbr, SQ!deviceVars, rqVars, rqRest
  <2>2. CASE SQ!RingUar \/ SQ!StoreDbr
    BY <2>1, <2>2 DEF SQ!RingUar, SQ!StoreDbr
  <2>3. CASE SQ!WriteWqe
    <3>1. sq_pc = "write" /\ sq_posted' = sq_posted + 1
      BY <2>3 DEF SQ!WriteWqe
    <3>2. sq_left >= 1 /\ sq_left \in Nat
      BY <3>1, SqFacts DEF QueuesRight
    <3>3. SQP!toWrite = sq_left
      BY <3>1 DEF SQP!toWrite
    <3>4. sq_posted + SQP!toWrite = N /\ rq_posted = 0
      BY <1>2 DEF Sending, SendsRight, RecvsRight, PollsRecv
    <3>5. (sq_posted + rq_posted) + 1 - (sq_acked + rq_acked) <= N
      BY <1>0, <1>1, <3>2, <3>3, <3>4
    <3>6. sq_posted' + rq_posted' = (sq_posted + rq_posted) + 1
      BY <1>1, <2>1, <3>1
    <3>7. sq_done' + rq_done' = sq_done + rq_done /\ sq_acked' + rq_acked' = sq_acked + rq_acked
      BY <2>1
    <3> QED
      BY <1>0, <3>5, <3>6, <3>7 DEF Channel!Next, Channel!Ask
  <2> QED
    BY <1>2, <2>2, <2>3 DEF Sending
<1>3. CASE Receiving
  <2>1. UNCHANGED <<sq_posted, sq_done, sq_acked, rq_done, rq_acked>>
    BY <1>3 DEF Receiving, RQ!WriteWqe, RQ!CountWqes, RQ!StoreDbr, sqVars, sqRest
  <2>2. CASE RQ!WriteWqe \/ RQ!StoreDbr
    BY <2>1, <2>2 DEF RQ!WriteWqe, RQ!StoreDbr
  <2>3. CASE RQ!CountWqes
    <3>1. rq_posted = 0 /\ rq_acked = 0 /\ rq_nreq = N /\ rq_posted' = rq_posted + rq_nreq
      BY <1>3, <2>3 DEF Receiving, RQ!CountWqes, RecvsRight
    <3>2. sq_posted = N /\ sq_acked = N
      BY <1>3 DEF Receiving, SendsRight, BeforeSend, PollsSend
    <3>3. (sq_posted + rq_posted) + N - (sq_acked + rq_acked) <= N
      BY <1>0, <3>1, <3>2
    <3>4. sq_posted' + rq_posted' = (sq_posted + rq_posted) + N
      BY <1>0, <2>1, <3>1, <3>2
    <3>5. sq_done' + rq_done' = sq_done + rq_done /\ sq_acked' + rq_acked' = sq_acked + rq_acked
      BY <2>1
    <3> QED
      BY <1>0, <3>3, <3>4, <3>5 DEF Channel!Next, Channel!Ask
  <2> QED
    BY <1>3, <2>2, <2>3 DEF Receiving
<1> QED
  BY <1>2, <1>3

(* The device finishes a request or uses a receive.                        *)
LEMMA FinishStep ==
  ASSUME IndInv, SendCompletes \/ MessageArrives
  PROVE  [Channel!Next]_(Channel!vars)
<1> USE DEF IndInv
<1>1. /\ sq_posted \in Nat /\ sq_done \in Nat /\ rq_posted \in Nat /\ rq_done \in Nat
      /\ sq_done <= sq_posted /\ rq_done <= rq_posted
  <2>1. SQP!published \in Int /\ RQP!published \in Nat /\ sq_hwNext \in Nat
    BY SqFacts, RqFacts DEF QueuesRight
  <2>2. sq_done <= sq_hwNext /\ sq_hwNext <= SQP!published /\ SQP!published <= sq_posted
    BY SqFacts DEF QueuesRight
  <2>3. sq_posted \in Nat /\ sq_done \in Nat /\ rq_posted \in Nat /\ rq_done \in Nat
    BY SqFacts, RqFacts DEF QueuesRight
  <2>4. rq_done <= RQP!published /\ RQP!published <= rq_posted
    BY RqFacts DEF QueuesRight
  <2> QED
    BY <2>1, <2>2, <2>3, <2>4
<1>2. CASE SendCompletes
  <2>1. /\ sq_done < sq_hwNext /\ sq_done' = sq_done + 1
        /\ UNCHANGED <<sq_posted, sq_acked, rq_posted, rq_done, rq_acked>>
    BY <1>2 DEF SendCompletes, SQ!HcaComplete, SQ!driverVars, rqVars, rqRest
  <2>2. sq_done < sq_posted
    <3>1. /\ sq_hwNext \in Nat /\ SQP!published \in Int
          /\ sq_hwNext <= SQP!published /\ SQP!published <= sq_posted
      BY SqFacts DEF QueuesRight
    <3> QED
      BY <1>1, <2>1, <3>1
  <2>3. sq_done + rq_done < sq_posted + rq_posted
    BY <1>1, <2>2
  <2>4. sq_done' + rq_done' = (sq_done + rq_done) + 1
    BY <1>1, <2>1
  <2> QED
    BY <2>1, <2>3, <2>4 DEF Channel!Next, Channel!Finish
<1>3. CASE MessageArrives
  <2>1. /\ rq_done' = rq_done + 1
        /\ UNCHANGED <<sq_posted, sq_done, sq_acked, rq_posted, rq_acked>>
    BY <1>3 DEF MessageArrives, RQ!HcaReceive, RQ!driverVars, sqVars, sqRest
  <2>2. rq_done < RQP!published
    BY <1>3, ArrivesInPosted DEF MessageArrives
  <2>3. rq_done < rq_posted
    BY <1>1, <2>2, RqFacts DEF QueuesRight
  <2>4. sq_done + rq_done < sq_posted + rq_posted
    BY <1>1, <2>3
  <2>5. sq_done' + rq_done' = (sq_done + rq_done) + 1
    BY <1>1, <2>1
  <2> QED
    BY <2>1, <2>4, <2>5 DEF Channel!Next, Channel!Finish
<1> QED
  BY <1>2, <1>3

(* The loop counts a completion.                                           *)
LEMMA TellStep ==
  ASSUME IndInv, CountSend \/ CountRecv
  PROVE  [Channel!Next]_(Channel!vars)
<1> USE DEF IndInv, Channel!vars
<1>0. 1 \in 1..N
  BY SizesAssumption
<1>1. /\ sq_acked \in Nat /\ sq_done \in Nat /\ rq_acked \in Nat /\ rq_done \in Nat
      /\ sq_acked <= sq_done /\ rq_acked <= rq_done
  BY SqFacts, RqFacts DEF QueuesRight
<1>2. cq_ret \in {0, 1}
  BY CountedIsDone DEF CountSend, CountRecv, Counting
<1>3. CASE CountSend
  <2>1. UNCHANGED <<sq_posted, sq_done, rq_posted, rq_done, rq_acked>>
    BY <1>3 DEF CountSend, sqRest, rqVars, rqRest
  <2>2. CASE cq_ret = 0
    BY <1>3, <2>1, <2>2 DEF CountSend
  <2>3. CASE cq_ret = 1
    <3>1. sq_acked' = sq_acked + 1
      BY <1>3, <2>3 DEF CountSend
    <3>2. sq_acked < sq_done
      BY <1>3, <2>3, CountedIsDone DEF CountSend, Counting
    <3>3. (sq_acked + rq_acked) + 1 <= sq_done + rq_done
      BY <1>1, <3>2
    <3>4. sq_acked' + rq_acked' = (sq_acked + rq_acked) + 1
      BY <1>1, <2>1, <3>1
    <3> QED
      BY <1>0, <2>1, <3>3, <3>4 DEF Channel!Next, Channel!Tell
  <2> QED
    BY <1>2, <2>2, <2>3
<1>4. CASE CountRecv
  <2>1. UNCHANGED <<sq_posted, sq_done, sq_acked, rq_posted, rq_done>>
    BY <1>4 DEF CountRecv, sqVars, sqRest, rqRest
  <2>2. CASE cq_ret = 0
    BY <1>4, <2>1, <2>2 DEF CountRecv
  <2>3. CASE cq_ret = 1
    <3>1. rq_acked' = rq_acked + 1
      BY <1>4, <2>3 DEF CountRecv
    <3>2. rq_acked < rq_done
      BY <1>4, <2>3, CountedIsDone DEF CountRecv, Counting
    <3>3. (sq_acked + rq_acked) + 1 <= sq_done + rq_done
      BY <1>1, <3>2
    <3>4. sq_acked' + rq_acked' = (sq_acked + rq_acked) + 1
      BY <1>1, <2>1, <3>1
    <3> QED
      BY <1>0, <2>1, <3>3, <3>4 DEF Channel!Next, Channel!Tell
  <2> QED
    BY <1>2, <2>2, <2>3
<1> QED
  BY <1>3, <1>4

(* Both queues and the completion queue they share implement the abstract  *)
(* channel with N requests outstanding: the caller is told of each request *)
(* and each receive once, in order, and of none that is not complete.      *)
THEOREM Refinement == Spec => ImplementsChannel
<1>1. Init => Channel!Init
  BY DEF Init, SQ!Init, RQ!Init, Channel!Init
<1>2. ASSUME IndInv, [Next]_vars
      PROVE  [Channel!Next]_(Channel!vars)
  <2>1. CASE Sending \/ Receiving
    BY <1>2, <2>1, AskStep
  <2>2. CASE SendCompletes \/ MessageArrives
    BY <1>2, <2>2, FinishStep
  <2>3. CASE CountSend \/ CountRecv
    BY <1>2, <2>3, TellStep
  <2>4. CASE Fill \/ PollSend \/ Clear \/ PollRecv \/ Polling \/ EntryOwned \/ UNCHANGED vars
    BY <2>4 DEF Fill, PollSend, PollRecv, PollCq, Clear, Polling, EntryOwned, vars, sqVars, sqRest,
                rqVars, rqRest, Channel!vars
  <2>5. CASE PostSend \/ PostRecv
    BY <2>5 DEF PostSend, PostRecv, SQ!PostSend, SQ!deviceVars, RQ!PostRecv, sqVars, sqRest,
                rqVars, rqRest, Channel!vars
  <2>6. CASE Transmit \/ SqDevice
    BY <2>6 DEF Transmit, SqDevice, SQ!HcaFetch, SQ!HcaSleep, SQ!Rewind, SQ!HcaRewind,
                SQ!driverVars, rqVars, rqRest, Channel!vars
  <2>7. CASE Drain
    BY <2>7 DEF Drain, SQ!Drain, SQ!DrainUnit, SQ!DrainDbr, SQ!DrainRing, SQ!driverVars,
                SQ!deviceVars, RQ!Drain, RQ!DrainWqe, RQ!DrainDbr, RQ!driverVars, sqVars, sqRest,
                rqVars, rqRest, Channel!vars
  <2> QED
    BY <1>2, <2>1, <2>2, <2>3, <2>4, <2>5, <2>6, <2>7 DEF Next, Caller
<1> QED
  BY <1>1, <1>2, Invariance, PTL DEF Spec, ImplementsChannel, Channel!Spec
=============================================================================
