----------------------------- MODULE DvQueuePair -----------------------------
(***************************************************************************)
(* How large the rings of pp_dv.c become, and what the device is told of   *)
(* them: pp_create_cq_dv, pp_create_qp_dv and the three transitions of     *)
(* pp_move2rts_dv.  The driver works with the numbers it computes from the *)
(* capabilities asked for; the device works with the fields of the         *)
(* commands and contexts, logarithms mostly, each only as wide as          *)
(* mlx5_ifc.h lays it out.  Calls that fail for want of memory or of a     *)
(* device are the business of Lifecycle; here a command fails if the       *)
(* device cannot make sense of it.                                         *)
(*                                                                         *)
(* pp_ctx_init asks for one set of capabilities (64, 64, 1, 1, 64); the    *)
(* arithmetic is looked at for others, too.  Values stay below 2^31.       *)
(*                                                                         *)
(* The specification is QpSpec, so that a module may extend this one and   *)
(* PortBringUp.                                                            *)
(***************************************************************************)
EXTENDS Integers

CONSTANTS
  SendWrs,   \* values of max_send_wr looked at (64)
  RecvWrs,   \* values of max_recv_wr (64)
  Sges,      \* values of max_send_sge and max_recv_sge (1)
  Inlines,   \* values of max_inline_data (64)
  Numbers,   \* numbers the device may give to its objects
  Stack,     \* what a local variable that was never assigned may hold
  PageSize,  \* sysconf(_SC_PAGESIZE)
  PpMaxWr,   \* PP_MAX_WR: 64
  LogCqSize  \* PP_MAX_LOG_CQ_SIZE: 8

ASSUME CapsAssumption == /\ SendWrs \subseteq Nat \ {0} /\ RecvWrs \subseteq Nat \ {0}
                         /\ Sges \subseteq Nat \ {0} /\ Inlines \subseteq Nat

(* The context has four bits for the logarithm of a ring's entries and     *)
(* three for that of a receive, in units of 16 bytes; for the send ring    *)
(* see SendAssumption below.                                               *)
ASSUME RecvAssumption == /\ \A wr \in RecvWrs : wr <= 2^15
                         /\ \A sge \in Sges : sge <= 2^7
ASSUME NumbersAssumption == Numbers \subseteq 0..(2^24 - 1) /\ Numbers # {}
ASSUME StackAssumption == Stack \subseteq Int /\ Stack # {}

(* pp_common.h: the completion queue has four entries for each of the      *)
(* PP_MAX_WR requests, and its size in bytes is an int.                    *)
ASSUME SizeAssumption ==
  /\ PageSize \in Nat \ {0} /\ PpMaxWr \in Nat \ {0, 1}
  /\ LogCqSize \in 0..24 /\ 4 * PpMaxWr <= 2^LogCqSize

VARIABLES
  cap,    \* ppc->cap, the capabilities asked for
  roce,   \* whether ppc->port_attr.link_layer is Ethernet
  call,   \* the last call that returned
  cq,     \* ncqe, buflen and cqn of struct pp_dv_cq
  sq, rq, \* struct dv_wq of the two rings
  buflen, \* dvqp->buflen
  qpn,    \* dvqp->qpn
  cqc,    \* the device's context of the completion queue
  qpc,    \* the device's context of the queue pair
  hw      \* the device's own: the numbers it gave, the queue pair's state

qpVars == <<cap, roce, call, cq, sq, rq, buflen, qpn, cqc, qpc, hw>>

Caps == [max_send_wr : SendWrs, max_recv_wr : RecvWrs, max_send_sge : Sges,
         max_recv_sge : Sges, max_inline_data : Inlines]

(***************************************************************************)
(* ccan/ilog.h: the length of a number in bits, as a constant expression   *)
(* and with the compiler's count of leading zeros.                         *)
(***************************************************************************)
STATIC_ILOG0(v) == IF v # 0 THEN 1 ELSE 0
STATIC_ILOG1(v) == IF (v \div 2) % 2 # 0 THEN 2 ELSE STATIC_ILOG0(v)
STATIC_ILOG2(v) == IF (v \div 4) % 4 # 0 THEN 2 + STATIC_ILOG1(v \div 4) ELSE STATIC_ILOG1(v)
STATIC_ILOG3(v) == IF (v \div 16) % 16 # 0 THEN 4 + STATIC_ILOG2(v \div 16)
                                           ELSE STATIC_ILOG2(v)
STATIC_ILOG4(v) == IF (v \div 256) % 256 # 0 THEN 8 + STATIC_ILOG3(v \div 256)
                                             ELSE STATIC_ILOG3(v)
STATIC_ILOG_32(v) == IF (v \div 65536) % 65536 # 0 THEN 16 + STATIC_ILOG4(v \div 65536)
                                                   ELSE STATIC_ILOG4(v)

clz(v)    == CHOOSE k \in 1..31 : v \div 2^(31 - k) = 1
ilog32(v) == IF v = 0 THEN 0 ELSE 32 - clz(v)
ilog64(v) == IF v = 0 THEN 0 ELSE 64 - (32 + clz(v))

(***************************************************************************)
(* util/util.h, ccan/minmax.h, and sizes of the structures of mlx5dv.h.    *)
(***************************************************************************)
align(val, a)         == ((val + a - 1) \div a) * a  \* a is a power of two
roundup_pow_of_two(n) == IF n = 1 THEN 1 ELSE 2^ilog64(n - 1)
DIV_ROUND_UP(n, d)    == (n + d - 1) \div d
max(a, b)             == IF a > b THEN a ELSE b

(* The fields of f and those of g that f does not have.                    *)
Over(f, g) == [x \in DOMAIN f \cup DOMAIN g |-> IF x \in DOMAIN f THEN f[x] ELSE g[x]]

SEND_WQE_BB == 64
CTRL_SEG    == 16
RADDR_SEG   == 16
DATA_SEG    == 16
INL_SEG     == 4

(***************************************************************************)
(* The sizes of the rings.                                                 *)
(***************************************************************************)

(* inl_size is assigned only if inline data is asked for, and read always: *)
(* junk is what it holds otherwise.                                        *)
calc_rc_send_wqe(c, junk) ==
  LET overhead == 192
      inl_size == IF c.max_inline_data # 0
                  THEN overhead + align(INL_SEG + c.max_inline_data, 16)
                  ELSE junk
  IN  align(max(overhead + c.max_send_sge * DATA_SEG, inl_size), SEND_WQE_BB)

calc_sq_size_whole(c, junk) ==  \* broken: max_post counts blocks, not WQEs
  LET wqe_size == calc_rc_send_wqe(c, junk)
      wq_size  == roundup_pow_of_two(c.max_send_wr * wqe_size)
  IN  [wqe_cnt |-> wq_size \div SEND_WQE_BB, wqe_shift |-> STATIC_ILOG_32(SEND_WQE_BB) - 1,
       max_post |-> wq_size \div SEND_WQE_BB, size |-> wq_size]

calc_sq_size(c, junk) ==
  LET wqe_size == calc_rc_send_wqe(c, junk)
      wq_size  == roundup_pow_of_two(c.max_send_wr * wqe_size)
  IN  [wqe_cnt |-> wq_size \div SEND_WQE_BB, wqe_shift |-> STATIC_ILOG_32(SEND_WQE_BB) - 1,
       max_post |-> wq_size \div wqe_size, size |-> wq_size]

(* The send ring has at most 2^15 blocks, for the same field of four bits; *)
(* with junk, all that is assumed is that the product is an int.           *)
ASSUME SendAssumption ==
  \A c \in Caps, junk \in Stack :
    c.max_send_wr * calc_rc_send_wqe(c, junk)
      <= IF c.max_inline_data # 0 THEN 2^21 ELSE 2^30

calc_recv_wqe(c) == roundup_pow_of_two(DATA_SEG * max(c.max_recv_sge, 1))

calc_rq_size_unscaled(c) ==  \* broken: the entry's logarithm is taken of the entry
  LET wqe_size == calc_recv_wqe(c)
      wq_size  == max(roundup_pow_of_two(c.max_recv_wr) * wqe_size, SEND_WQE_BB)
      wqe_cnt  == wq_size \div wqe_size
  IN  [wqe_cnt |-> wqe_cnt, wqe_shift |-> ilog32(wqe_size), size |-> wq_size,
       max_post |-> 2^ilog32(wqe_cnt - 1)]

calc_rq_size(c) ==
  LET wqe_size == calc_recv_wqe(c)
      wq_size  == max(roundup_pow_of_two(c.max_recv_wr) * wqe_size, SEND_WQE_BB)
      wqe_cnt  == wq_size \div wqe_size
  IN  [wqe_cnt |-> wqe_cnt, wqe_shift |-> ilog32(wqe_size - 1), size |-> wq_size,
       max_post |-> 2^ilog32(wqe_cnt - 1)]

(* calc_wq_size: the receive ring first, then the send ring.               *)
calc_wq_size(c, junk) ==
  LET s == calc_sq_size(c, junk)
      r == calc_rq_size(c)
  IN  [sq |-> Over(s, [offset |-> r.size]), rq |-> Over(r, [offset |-> 0]),
       size |-> s.size + r.size]

(***************************************************************************)
(* mlx5_ifc.h: opcodes, and the widths of the fields the driver fills or   *)
(* reads.  DEVX_SET (external) cuts a value to its field.                  *)
(***************************************************************************)
MLX5_CMD_OP_CREATE_CQ   == 1024
MLX5_CMD_OP_CREATE_QP   == 1280
MLX5_CMD_OP_RST2INIT_QP == 1282
MLX5_CMD_OP_INIT2RTR_QP == 1283
MLX5_CMD_OP_RTR2RTS_QP  == 1284

create_cq_in   == [opcode |-> 16, cq_umem_valid |-> 1]
create_cq_out  == [cqn |-> 24]
create_qp_in   == [opcode |-> 16, wq_umem_valid |-> 1]
create_qp_out  == [qpn |-> 24]
rst2init_qp_in == [opcode |-> 16, qpn |-> 24]
init2rtr_qp_in == [opcode |-> 16, qpn |-> 24]
rtr2rts_qp_in  == [opcode |-> 16, qpn |-> 24]

CqcBits == [log_cq_size |-> 5, cqe_sz |-> 3, dbr_umem_valid |-> 1]
AdsBits == [ack_timeout |-> 5, hop_limit |-> 8, vhca_port_num |-> 8, udp_sport |-> 16]
QpcBits == Over(
  [log_rq_size |-> 4, log_rq_stride |-> 3, log_sq_size |-> 4, pm_state |-> 2,
   cqn_snd |-> 24, cqn_rcv |-> 24, dbr_umem_valid |-> 1,
   mtu |-> 3, log_msg_max |-> 5, min_rnr_nak |-> 5, retry_count |-> 3,
   rnr_retry |-> 3, log_sra_max |-> 3, rre |-> 1, rwe |-> 1], AdsBits)

DEVX_SET(bits, fields) == [f \in DOMAIN fields |-> fields[f] % 2^bits[f]]

(***************************************************************************)
(* What the driver asks for.                                               *)
(***************************************************************************)
CqFields == [log_cq_size |-> LogCqSize, cqe_sz |-> 0, dbr_umem_valid |-> 1]

CreateFieldsRounded(cqn, s, r) ==  \* broken: the logarithm of one entry more
  [pm_state |-> 3, log_rq_size |-> ilog32(r.wqe_cnt - 1),
   log_rq_stride |-> r.wqe_shift - 4, log_sq_size |-> ilog32(s.wqe_cnt),
   cqn_snd |-> cqn, cqn_rcv |-> cqn, dbr_umem_valid |-> 1]

CreateFields(cqn, s, r) ==
  [pm_state |-> 3, log_rq_size |-> ilog32(r.wqe_cnt - 1),
   log_rq_stride |-> r.wqe_shift - 4, log_sq_size |-> ilog32(s.wqe_cnt - 1),
   cqn_snd |-> cqn, cqn_rcv |-> cqn, dbr_umem_valid |-> 1]

InitFields == [pm_state |-> 3, vhca_port_num |-> 1, rre |-> 1, rwe |-> 1]

RtrFieldsLonger(ether) ==  \* broken: the logarithm of 4 GB does not fit its field
  Over([mtu |-> 3, log_msg_max |-> 32, vhca_port_num |-> 1, min_rnr_nak |-> 12],
       IF ether THEN [udp_sport |-> 52445, hop_limit |-> 64] ELSE <<>>)

RtrFields(ether) ==
  Over([mtu |-> 3, log_msg_max |-> 30, vhca_port_num |-> 1, min_rnr_nak |-> 12],
       IF ether THEN [udp_sport |-> 52445, hop_limit |-> 64] ELSE <<>>)

RtsFields == [retry_count |-> 7, rnr_retry |-> 7, log_sra_max |-> 20, ack_timeout |-> 14,
              vhca_port_num |-> 1]

(***************************************************************************)
(* The device (external): it creates an object in memory it can reach, and *)
(* moves a queue pair it knows from one state to the next.                 *)
(***************************************************************************)
HwMoves ==
  [op \in {MLX5_CMD_OP_RST2INIT_QP, MLX5_CMD_OP_INIT2RTR_QP, MLX5_CMD_OP_RTR2RTS_QP} |->
     CASE op = MLX5_CMD_OP_RST2INIT_QP -> <<"reset", "init">>
       [] op = MLX5_CMD_OP_INIT2RTR_QP -> <<"init", "rtr">>
       [] op = MLX5_CMD_OP_RTR2RTS_QP  -> <<"rtr", "rts">>]

CreatesCq(cmd) == cmd.opcode = MLX5_CMD_OP_CREATE_CQ /\ cmd.cq_umem_valid = 1
CreatesQp(cmd) == cmd.opcode = MLX5_CMD_OP_CREATE_QP /\ cmd.wq_umem_valid = 1
MovesQp(cmd)   == /\ cmd.opcode \in DOMAIN HwMoves /\ cmd.qpn = hw.qpn
                  /\ HwMoves[cmd.opcode][1] = hw.state

(***************************************************************************)
(* The calls.                                                              *)
(***************************************************************************)
Nowhere == [wqe_cnt |-> 0, wqe_shift |-> 0, size |-> 0, max_post |-> 0, offset |-> 0]

QpInit ==
  /\ cap \in Caps /\ roce \in BOOLEAN /\ call = "start"
  /\ cq = [ncqe |-> 0, buflen |-> 0, cqn |-> 0] /\ cqc = <<>>
  /\ sq = Nowhere /\ rq = Nowhere /\ buflen = 0 /\ qpn = 0 /\ qpc = <<>>
  /\ hw = [cqn |-> 0, qpn |-> 0, state |-> "none"]

pp_create_cq_dv ==
  /\ call = "start"
  /\ LET cmd == DEVX_SET(create_cq_in, [opcode |-> MLX5_CMD_OP_CREATE_CQ, cq_umem_valid |-> 1])
     IN  IF CreatesCq(cmd)
         THEN \E n \in Numbers :
                /\ call' = "cq" /\ hw' = [hw EXCEPT !.cqn = n]
                /\ cqc' = DEVX_SET(CqcBits, CqFields)
                /\ cq' = [ncqe |-> 2^LogCqSize, cqn |-> DEVX_SET(create_cq_out, [cqn |-> n]).cqn,
                          buflen |-> align(roundup_pow_of_two(64 * 2^LogCqSize), PageSize)]
         ELSE call' = "failed" /\ UNCHANGED <<hw, cqc, cq>>
  /\ UNCHANGED <<cap, roce, sq, rq, buflen, qpn, qpc>>

pp_create_qp_dv ==
  /\ call = "cq"
  /\ LET cmd == DEVX_SET(create_qp_in, [opcode |-> MLX5_CMD_OP_CREATE_QP, wq_umem_valid |-> 1])
     IN  \E junk \in Stack :
           LET w == calc_wq_size(cap, junk)
           IN  /\ sq' = w.sq /\ rq' = w.rq
               /\ buflen' = align(w.size, PageSize)
               /\ IF CreatesQp(cmd)
                  THEN \E n \in Numbers :
                         /\ call' = "reset" /\ hw' = [hw EXCEPT !.qpn = n, !.state = "reset"]
                         /\ qpn' = DEVX_SET(create_qp_out, [qpn |-> n]).qpn
                         /\ qpc' = DEVX_SET(QpcBits, CreateFields(cq.cqn, w.sq, w.rq))
                  ELSE call' = "failed" /\ UNCHANGED <<hw, qpn, qpc>>
  /\ UNCHANGED <<cap, roce, cq, cqc>>

Modify(layout, opcode, to, fields) ==
  /\ LET cmd == DEVX_SET(layout, [opcode |-> opcode, qpn |-> qpn])
     IN  IF MovesQp(cmd)
         THEN /\ call' = to /\ hw' = [hw EXCEPT !.state = HwMoves[cmd.opcode][2]]
              /\ qpc' = Over(DEVX_SET(QpcBits, fields), qpc)
         ELSE call' = "failed" /\ UNCHANGED <<hw, qpc>>
  /\ UNCHANGED <<cap, roce, cq, cqc, sq, rq, buflen, qpn>>

dvqp_rst2init ==
  /\ call = "reset"
  /\ Modify(rst2init_qp_in, MLX5_CMD_OP_RST2INIT_QP, "init", InitFields)

dvqp_init2rtr ==
  /\ call = "init"
  /\ Modify(init2rtr_qp_in, MLX5_CMD_OP_INIT2RTR_QP, "rtr", RtrFields(roce))

dvqp_rtr2rts ==
  /\ call = "rtr"
  /\ Modify(rtr2rts_qp_in, MLX5_CMD_OP_RTR2RTS_QP, "rts", RtsFields)

QpNext == \/ pp_create_cq_dv \/ pp_create_qp_dv
          \/ dvqp_rst2init \/ dvqp_init2rtr \/ dvqp_rtr2rts

QpSpec == QpInit /\ [][QpNext]_qpVars

------------------------------------------------------------------------------
PowersOfTwo == {2^k : k \in 0..30}
Created == call \in {"reset", "init", "rtr", "rts"}

(* No size depends on what happened to be on the stack.                    *)
Determined == cap.max_inline_data # 0

(* The largest WQE the driver writes, in blocks: post_send_one counts with *)
(* DIV_ROUND_UP what it has written.                                       *)
Blocks == DIV_ROUND_UP(CTRL_SEG + RADDR_SEG + DATA_SEG, SEND_WQE_BB)

(* What the queue modules assume of the rings: a power of two of entries,  *)
(* less than the 2^16 of the doorbell record, room for every request the   *)
(* queue was asked for and for every one it admits; and the completion     *)
(* queue, whose size is a constant of its own, has room for both rings.    *)
(* Without inline data only the size of the send ring is open.             *)
RingsHoldRequests ==
  Created =>
    /\ {sq.wqe_cnt, rq.wqe_cnt, cq.ncqe} \subseteq PowersOfTwo
    /\ rq.wqe_cnt < 65536 /\ (Determined => sq.wqe_cnt < 65536)
    /\ sq.max_post >= cap.max_send_wr /\ sq.max_post * Blocks <= sq.wqe_cnt
    /\ rq.max_post >= cap.max_recv_wr /\ rq.max_post <= rq.wqe_cnt
    /\ cap.max_send_wr <= PpMaxWr /\ cap.max_recv_wr <= PpMaxWr =>
         sq.max_post + rq.max_post <= cq.ncqe

(* The two rings lie in one buffer, side by side and inside it, and no     *)
(* entry of the send ring straddles the end where qend wraps it.           *)
RingsApart ==
  Created =>
    /\ rq.offset + rq.wqe_cnt * 2^rq.wqe_shift <= sq.offset
    /\ sq.offset + sq.wqe_cnt * 2^sq.wqe_shift <= buflen
    /\ sq.offset % SEND_WQE_BB = 0 /\ buflen % PageSize = 0
    /\ cq.ncqe * 64 <= cq.buflen

(* Driver and device agree: on the state of the queue pair, on which queue *)
(* its completions go to, and on the rings: no logarithm is off by one,    *)
(* and none outgrows its field.  No command is refused.                    *)
DeviceAgrees ==
  /\ call # "failed"
  /\ Created =>
    /\ hw.state = call /\ hw.qpn = qpn
    /\ {qpc.cqn_snd, qpc.cqn_rcv} = {hw.cqn}
    /\ 2^cqc.log_cq_size = cq.ncqe
    /\ Determined => 2^qpc.log_sq_size = sq.wqe_cnt
    /\ 2^qpc.log_rq_size = rq.wqe_cnt
    /\ 16 * 2^qpc.log_rq_stride = 2^rq.wqe_shift

(* What the driver has passed to the commands so far.                      *)
Layers(stage, ether, created) ==
  Over(IF stage = "rts" THEN RtsFields ELSE <<>>,
       Over(IF stage \in {"rtr", "rts"} THEN RtrFields(ether) ELSE <<>>,
            Over(IF stage \in {"init", "rtr", "rts"} THEN InitFields ELSE <<>>, created)))

Passed == Layers(call, roce, IF Created THEN CreateFields(cq.cqn, sq, rq) ELSE <<>>)

(* Nothing the driver passes is cut on its way, but the logarithm of the   *)
(* outstanding reads: 20 does not fit three bits and arrives as 4.         *)
OnlyReadsCut ==
  \A f \in DOMAIN Passed :
    CASE f = "log_sra_max" -> qpc[f] = 4
      [] f = "log_sq_size" -> Determined => qpc[f] = Passed[f]
      [] OTHER -> qpc[f] = Passed[f]
==============================================================================
