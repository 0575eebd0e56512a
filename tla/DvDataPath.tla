------------------------------ MODULE DvDataPath ------------------------------
(***************************************************************************)
(* client_traffic_dv of client.dv.c and client.vfio.c with the queues it   *)
(* uses: the send queue, the receive queue, and one completion queue for   *)
(* both.  The modules of the three queues each assume a caller who posts   *)
(* what they can hold and a device that completes their requests; here the *)
(* caller is the traffic function and the device is one.                   *)
(*                                                                         *)
(* The same N buffers are sent, cleared and received into.  The device     *)
(* reads a buffer when it transmits a request, and again when it           *)
(* retransmits it.  The server (external) answers when it has everything.  *)
(***************************************************************************)
EXTENDS Integers, FiniteSets

CONSTANTS
  N,         \* PP_MAX_WR: requests, receives and buffers (64)
  SqWqeCnt,  \* entries of the send queue (512)
  RqWqeCnt,  \* entries of the receive queue (64)
  NCqe,      \* entries of the completion queue (256)
  DbMod,     \* range of the counts in the queue pair's doorbell records (2^16)
  CiMod,     \* range of the consumer index in its doorbell record (2^24)
  CtrMod,    \* range of the counters (2^32)
  MaxRewinds \* bound on the retransmissions

ASSUME SizesAssumption ==
  /\ N \in Nat \ {0} /\ N <= SqWqeCnt /\ N <= RqWqeCnt /\ N <= NCqe
  /\ MaxRewinds \in Nat
ASSUME RingsAssumption ==
  /\ SqWqeCnt \in Nat \ {0} /\ RqWqeCnt \in Nat \ {0} /\ NCqe \in Nat \ {0}
  /\ DbMod \in Nat /\ CiMod \in Nat /\ CtrMod \in Nat \ {0}
  /\ DbMod > SqWqeCnt /\ DbMod > RqWqeCnt /\ CiMod > NCqe
ASSUME WrapAssumption ==  \* all are powers of two
  /\ DbMod % SqWqeCnt = 0 /\ DbMod % RqWqeCnt = 0
  /\ CtrMod % DbMod = 0 /\ CtrMod % (2 * NCqe) = 0 /\ CtrMod % CiMod = 0

VARIABLES
  stage,    \* where client_traffic_dv is
  num_comp, \* its count of completions
  mrbuf,    \* what each buffer holds
  wire,     \* what was transmitted: requests, with what their buffers held
  shown,    \* what dump_msg_short found in each buffer
  sq_wqeStored, sq_wqeSeen, sq_dbStored, sq_dbSeen, sq_ringing, sq_cur_post,
  sq_pc, sq_opcode, sq_left, sq_ret, sq_awake, sq_hwNext, sq_rewinds,
  sq_posted, sq_done, sq_acked,
  rq_wqeStored, rq_wqeSeen, rq_dbStored, rq_dbSeen, rq_head, rq_pc, rq_ind,
  rq_nreq, rq_num, rq_posted, rq_done, rq_acked,
  cq_cqe, cq_cons_index, cq_ciStored, cq_ciSeen, cq_pc, cq_ne, cq_npolled,
  cq_ret, cq_writing, cq_submitted, cq_produced, cq_consumed

client == <<stage, num_comp, mrbuf, wire, shown>>

SQ == INSTANCE DvSendQueue WITH
       WqeCnt <- SqWqeCnt, MaxPost <- N, PpMaxWr <- N, MaxWr <- N,
       wqeStored <- sq_wqeStored, wqeSeen <- sq_wqeSeen,
       dbStored <- sq_dbStored, dbSeen <- sq_dbSeen, ringing <- sq_ringing,
       cur_post <- sq_cur_post, pc <- sq_pc, opcode <- sq_opcode,
       left <- sq_left, ret <- sq_ret, awake <- sq_awake,
       hwNext <- sq_hwNext, rewinds <- sq_rewinds, posted <- sq_posted,
       done <- sq_done, acked <- sq_acked

RQ == INSTANCE DvRecvQueue WITH
       WqeCnt <- RqWqeCnt, MaxWr <- N, wqeStored <- rq_wqeStored,
       wqeSeen <- rq_wqeSeen, dbStored <- rq_dbStored, dbSeen <- rq_dbSeen,
       head <- rq_head, pc <- rq_pc, ind <- rq_ind, nreq <- rq_nreq,
       num <- rq_num, posted <- rq_posted, done <- rq_done, acked <- rq_acked

CQ == INSTANCE DvCompletionQueue WITH
       MaxNe <- 1, MaxWr <- 2 * N, cqe <- cq_cqe,
       cons_index <- cq_cons_index, ciStored <- cq_ciStored,
       ciSeen <- cq_ciSeen, pc <- cq_pc, ne <- cq_ne, npolled <- cq_npolled,
       ret <- cq_ret, writing <- cq_writing, submitted <- cq_submitted,
       produced <- cq_produced, consumed <- cq_consumed

sqRest == <<sq_wqeStored, sq_wqeSeen, sq_dbStored, sq_dbSeen, sq_ringing,
           sq_cur_post, sq_pc, sq_opcode, sq_left, sq_ret, sq_awake,
           sq_hwNext, sq_rewinds, sq_posted, sq_done>>
rqRest == <<rq_wqeStored, rq_wqeSeen, rq_dbStored, rq_dbSeen, rq_head, rq_pc,
           rq_ind, rq_nreq, rq_num, rq_posted, rq_done>>
cqVars == <<cq_cqe, cq_cons_index, cq_ciStored, cq_ciSeen, cq_pc, cq_ne,
           cq_npolled, cq_ret, cq_writing, cq_submitted, cq_produced,
           cq_consumed>>
sqVars == <<sqRest, sq_acked>>
rqVars == <<rqRest, rq_acked>>

vars == <<client, sqVars, rqVars, cqVars>>

Bufs     == 0..N-1
Payloads == {"ping", "zero", "pong"}

(* pp_ctx_init, pp_create_cq_dv and pp_create_qp_dv are over.              *)
Init ==
  /\ stage = "fill" /\ num_comp = 0
  /\ mrbuf = [i \in Bufs |-> "zero"]
  /\ wire = {} /\ shown = [i \in Bufs |-> "zero"]
  /\ SQ!Init /\ RQ!Init /\ CQ!Init

(***************************************************************************)
(* The caller.                                                             *)
(***************************************************************************)
Fill ==
  /\ stage = "fill"
  /\ mrbuf' = [i \in Bufs |-> "ping"]
  /\ stage' = "post_send"
  /\ UNCHANGED <<num_comp, wire, shown, sqVars, rqVars, cqVars>>

PostSend ==
  /\ stage = "post_send"
  /\ SQ!PostSend(N, "SEND_IMM", FALSE)
  /\ stage' = "sending"
  /\ UNCHANGED <<num_comp, mrbuf, wire, shown, rqVars, cqVars>>

(* pp_dv_post_send runs.  Its barriers wait for the record of the          *)
(* completion queue, too.                                                  *)
Sending ==
  /\ stage = "sending"
  /\ \/ (SQ!WriteWqe \/ SQ!RingUar) /\ UNCHANGED cqVars
     \/ SQ!StoreDbr /\ CQ!Submit(1)
  /\ stage' = IF sq_pc' = "idle" THEN "poll_send" ELSE "sending"
  /\ num_comp' = 0
  /\ UNCHANGED <<mrbuf, wire, shown, rqVars>>

(* One call of pp_dv_poll_cq, for one completion.                          *)
PollCq(from, to) ==
  /\ stage = from
  /\ CQ!PollStart(1)
  /\ stage' = to
  /\ UNCHANGED <<num_comp, mrbuf, wire, shown, sqVars, rqVars>>

Polling ==
  /\ stage \in {"count_send", "count_recv"}
  /\ CQ!Poll
  /\ UNCHANGED <<client, sqVars, rqVars>>

CountedAnyPoll(again, next) ==  \* broken: polls are counted, not completions
  /\ num_comp' = num_comp + 1
  /\ stage' = IF num_comp + 1 = N THEN next ELSE again

(* It returned: another round, or on to the next stage after N.  That the  *)
(* queue of this loop has completed a request (the guard of SQ!Reap and of *)
(* RQ!Reap) is not looked at; ImplementsChannel shows that it has.         *)
Counted(again, next) ==
  IF cq_ret > 0
  THEN /\ num_comp' = num_comp + 1
       /\ stage' = IF num_comp + 1 = N THEN next ELSE again
  ELSE stage' = again /\ UNCHANGED num_comp

CountSend ==
  /\ stage = "count_send" /\ cq_pc = "idle"
  /\ Counted("poll_send", "clear")
  /\ sq_acked' = IF cq_ret > 0 THEN sq_acked + 1 ELSE sq_acked
  /\ UNCHANGED <<mrbuf, wire, shown, sqRest, rqVars, cqVars>>

Clear ==
  /\ stage = "clear"
  /\ mrbuf' = [i \in Bufs |-> "zero"]
  /\ stage' = "post_recv"
  /\ UNCHANGED <<num_comp, wire, shown, sqVars, rqVars, cqVars>>

PostRecv ==
  /\ stage = "post_recv"
  /\ RQ!PostRecv(N)
  /\ stage' = "receiving"
  /\ UNCHANGED <<num_comp, mrbuf, wire, shown, sqVars, cqVars>>

Receiving ==
  /\ stage = "receiving"
  /\ \/ (RQ!WriteWqe \/ RQ!CountWqes) /\ UNCHANGED cqVars
     \/ RQ!StoreDbr /\ CQ!Submit(rq_num)
  /\ stage' = IF rq_pc' = "idle" THEN "poll_recv" ELSE "receiving"
  /\ num_comp' = 0
  /\ UNCHANGED <<mrbuf, wire, shown, sqVars>>

(* dump_msg_short(num_comp): the buffer of the next receive, in order.     *)
CountRecv ==
  /\ stage = "count_recv" /\ cq_pc = "idle"
  /\ Counted("poll_recv", "done")
  /\ IF cq_ret > 0
     THEN /\ rq_acked' = rq_acked + 1
          /\ shown' = [shown EXCEPT ![num_comp] = mrbuf[num_comp]]
     ELSE UNCHANGED <<rq_acked, shown>>
  /\ UNCHANGED <<mrbuf, wire, sqVars, rqRest, cqVars>>

(***************************************************************************)
(* Stores become visible to the device.                                    *)
(***************************************************************************)
Drain ==
  /\ \/ SQ!Drain /\ UNCHANGED <<rqVars, cqVars>>
     \/ (RQ!Drain) /\ UNCHANGED <<sqVars, cqVars>>
     \/ CQ!DrainCi /\ UNCHANGED <<sqVars, rqVars>>
  /\ UNCHANGED client

(***************************************************************************)
(* The device (external): request and buffer r go together, for each queue *)
(* is filled once.  It writes the data of a message and uses the receive   *)
(* before it begins the entry that tells of it; the op_own comes last.     *)
(***************************************************************************)
Transmit ==
  /\ SQ!HcaFetch
  /\ wire' = wire \cup {<<sq_hwNext, mrbuf[sq_hwNext]>>}
  /\ UNCHANGED <<stage, num_comp, mrbuf, shown, rqVars, cqVars>>

SqDevice ==
  /\ SQ!HcaSleep \/ SQ!Rewind
  /\ UNCHANGED <<client, rqVars, cqVars>>

SendCompletes ==
  /\ SQ!HcaComplete /\ CQ!HcaWriteBody
  /\ UNCHANGED <<client, rqVars>>

(* The server answers when it has received N messages.                     *)
MessageArrives ==
  /\ \A r \in Bufs : \E p \in Payloads : <<r, p>> \in wire
  /\ RQ!HcaReceive /\ CQ!HcaWriteBody
  /\ mrbuf' = [mrbuf EXCEPT ![rq_wqeSeen[RQ!Slot(rq_done)]] = "pong"]
  /\ UNCHANGED <<stage, num_comp, wire, shown, sqVars>>

EntryOwned ==
  /\ CQ!HcaWriteOwner("DONE")
  /\ UNCHANGED <<client, sqVars, rqVars>>

------------------------------------------------------------------------------
PollSend == PollCq("poll_send", "count_send")
PollRecv == PollCq("poll_recv", "count_recv")

Caller == \/ Fill \/ PostSend \/ Sending \/ PollSend \/ CountSend
          \/ Clear \/ PostRecv \/ Receiving \/ PollRecv \/ CountRecv \/ Polling

Next == \/ Caller \/ Drain
        \/ Transmit \/ SqDevice \/ SendCompletes \/ MessageArrives \/ EntryOwned

Spec == Init /\ [][Next]_vars

(* The caller runs, stores drain, the device works, the server answers.    *)
Fairness ==
  /\ WF_vars(Caller) /\ WF_vars(Drain)
  /\ WF_vars(Transmit) /\ WF_vars(SendCompletes)
  /\ WF_vars(MessageArrives) /\ WF_vars(EntryOwned)

FairSpec == Spec /\ Fairness

------------------------------------------------------------------------------
(* The buffers are shared by the two directions and by the device.  What   *)
(* goes out is a ping, on a retransmission too, though the caller clears   *)
(* the buffers; and what is shown of a receive that was counted is what    *)
(* arrived.                                                                *)
BuffersRight ==
  /\ \A t \in wire : t[2] = "ping"
  /\ \A i \in Bufs : rq_acked > i => shown[i] = "pong"

(* What the modules of the queues ask of their caller, and nothing counts: *)
(* when the caller posts there is room in the queue and for the            *)
(* completions, when the device completes it sees a free entry, and the    *)
(* receives begin when the last send is reported.                          *)
RoomAlways ==
  /\ stage = "post_send" => sq_posted + N - sq_acked <= SqWqeCnt
  /\ stage = "post_recv" => rq_posted + N - rq_acked <= RqWqeCnt
  /\ stage \in {"post_send", "post_recv"} => cq_submitted + N - cq_consumed <= NCqe
  /\ CQ!NoOverrun
  /\ stage \in {"receiving", "poll_recv", "count_recv", "done"} => sq_acked = N /\ sq_done = N

(* Both queues and their completion queue are one CompletionChannel that   *)
(* has N requests outstanding at most.                                     *)
Channel == INSTANCE CompletionChannel WITH
  Capacity <- N, asked <- sq_posted + rq_posted, done <- sq_done + rq_done,
  told <- sq_acked + rq_acked

ImplementsChannel == Channel!Spec

(* The traffic ends: the doorbells, the device's sleep, retransmissions    *)
(* and polls that find nothing never leave it waiting.                     *)
TrafficEnds == <>(stage = "done")
==============================================================================
