------------------------------- MODULE PingPong -------------------------------
(***************************************************************************)
(* The traffic between the server (server.c) and a client (client.dv.c and *)
(* client.vfio.c, or client.verb.c).  The client sends N pings; the server *)
(* receives them, dumps them, and writes them back as N pongs with         *)
(* RDMA_WRITE_WITH_IMM from the same buffers.  Each program is a sequence  *)
(* of stages; nothing synchronises the two but sleep().                    *)
(*                                                                         *)
(* Queues are seen as CompletionChannel promises them: what is posted      *)
(* completes in order.  Between the queues lies the reliable-connection    *)
(* transport (external), which gives up after bounded retries: its queue   *)
(* pair then goes to error and flushes every outstanding request.          *)
(***************************************************************************)
EXTENDS Integers, Sequences

CONSTANTS
  N,          \* messages each way (PP_MAX_WR: 64)
  ClientKind, \* "verb", "dv" or "vfio"
  RnrRetry,   \* retries on receiver-not-ready (3; the dv client sets 7, no limit)
  MaxFaults,  \* bound on the times the network makes a sender give up
  Timely      \* the sleeps outlast what they are there to wait for

ASSUME NAssumption    == N \in Nat \ {0}
ASSUME KindAssumption == ClientKind \in {"verb", "dv", "vfio"} /\ Timely \in BOOLEAN
ASSUME BoundAssumption == RnrRetry \in Nat /\ MaxFaults \in Nat

VARIABLES
  pc,        \* stage of each program
  qp,        \* state of each queue pair
  cq,        \* completions in each completion queue, not polled yet
  ncomp,     \* completions the running poll loop has counted
  posted,    \* sends each side has posted
  recvs,     \* receives each side has posted
  delivered, \* messages of each side that its peer has received
  acked,     \* messages of each side that its queue pair has completed
  rnr,       \* receiver-not-ready answers each sender got
  faults,    \* times the network made a sender give up
  body,      \* the next pong is in the client's memory but for its last packet
  buf,       \* contents of the N buffers of each side
  got        \* contents of each pong when its completion was generated

progVars == <<pc, ncomp>>
wireVars == <<posted, recvs, delivered, acked, rnr, faults, body>>
vars == <<pc, qp, cq, ncomp, posted, recvs, delivered, acked, rnr, faults, body,
          buf, got>>

Sides == {"client", "server"}
Peer(s) == IF s = "client" THEN "server" ELSE "client"
Msgs == 1..N

(* client_traffic_verb.                                                    *)
VerbProgram ==
  <<"connect", "nap", "send", "pollSend", "reset", "recv", "pollRecv", "done">>

DvProgramClearsLate ==  \* broken: cleared after the receives are posted
  <<"connect", "nap", "send", "pollSend", "recv", "reset", "pollRecv", "done">>

(* client_traffic_dv of client.dv.c, and of client.vfio.c, a copy of it.   *)
DvProgram ==
  <<"connect", "nap", "send", "pollSend", "reset", "recv", "pollRecv", "done">>
VfioProgram == DvProgram

(* server_traffic_verb.                                                    *)
ServerProgram ==
  <<"connect", "reset", "recv", "pollRecv", "nap", "send", "pollSend", "done">>

ClientProgram == CASE ClientKind = "verb" -> VerbProgram
                   [] ClientKind = "dv"   -> DvProgram
                   [] ClientKind = "vfio" -> VfioProgram

Program == [client |-> ClientProgram, server |-> ServerProgram]
After(s, stage) == LET i == CHOOSE i \in 1..7 : Program[s][i] = stage
                   IN  Program[s][i + 1]
Finished(s) == pc[s] \in {"done", "failed"}

(* A buffer holds what the client filled it with, what dump_msg_short left *)
(* of it (byte 16 zeroed), zeros, part of each, or nothing known.          *)
Cut(c) == IF c = "ping" THEN "cut" ELSE c

Init ==
  /\ pc = [s \in Sides |-> "connect"]
  /\ qp = [s \in Sides |-> "init"]
  /\ cq = [s \in Sides |-> <<>>]
  /\ ncomp = [s \in Sides |-> 0]
  /\ posted = [s \in Sides |-> 0] /\ recvs = [s \in Sides |-> 0]
  /\ delivered = [s \in Sides |-> 0] /\ acked = [s \in Sides |-> 0]
  /\ rnr = [s \in Sides |-> 0] /\ faults = 0 /\ body = FALSE
  /\ buf = [s \in Sides |-> [i \in Msgs |-> "junk"]]
  /\ got = [i \in Msgs |-> "junk"]

Advance(s) == pc' = [pc EXCEPT ![s] = After(s, pc[s])]

(***************************************************************************)
(* The programs.                                                           *)
(***************************************************************************)

(* pp_move2rts_verb, pp_move2rts_dv.                                       *)
Connect(s) ==
  /\ pc[s] = "connect"
  /\ qp' = [qp EXCEPT ![s] = "rts"]
  /\ Advance(s)
  /\ UNCHANGED <<cq, ncomp, wireVars, buf, got>>

(* sleep(1) in the client before it sends, sleep(2) in the server before   *)
(* it replies: meant to last until the peer has posted its receives.       *)
Nap(s) ==
  /\ pc[s] = "nap"
  /\ Timely => recvs[Peer(s)] = N
  /\ Advance(s)
  /\ UNCHANGED <<qp, cq, ncomp, wireVars, buf, got>>

(* prepare_send_wr_verb and ibv_post_send, or mem_string and               *)
(* pp_dv_post_send: the client fills its buffers, the server replies with  *)
(* what is in them.                                                        *)
PostSend(s) ==
  /\ pc[s] = "send"
  /\ posted' = [posted EXCEPT ![s] = N]
  /\ buf' = IF s = "client" THEN [buf EXCEPT ![s] = [i \in Msgs |-> "ping"]] ELSE buf
  /\ Advance(s)
  /\ UNCHANGED <<qp, cq, ncomp, recvs, delivered, acked, rnr, faults, body, got>>

(* memset, in prepare_recv_wr_verb or in client_traffic_dv.                *)
Reset(s) ==
  /\ pc[s] = "reset"
  /\ buf' = [buf EXCEPT ![s] = [i \in Msgs |-> "zero"]]
  /\ Advance(s)
  /\ UNCHANGED <<qp, cq, ncomp, wireVars, got>>

Entries(n, kind, ok) == [i \in 1..n |-> [kind |-> kind, ok |-> ok]]

(* ibv_post_recv, pp_dv_post_recv: a queue pair in error flushes them.     *)
PostRecv(s) ==
  /\ pc[s] = "recv"
  /\ recvs' = [recvs EXCEPT ![s] = N]
  /\ cq' = IF qp[s] = "err" THEN [cq EXCEPT ![s] = @ \o Entries(N, "recv", FALSE)] ELSE cq
  /\ Advance(s)
  /\ UNCHANGED <<qp, ncomp, posted, delivered, acked, rnr, faults, body, buf, got>>

ChecksNothing(s) == FALSE  \* broken: no caller looks at a completion's status

(* poll_cq_verb takes what ibv_poll_cq finds, up to what is missing, and   *)
(* fails if a completion is an error.  pp_dv_poll_cq takes one, and        *)
(* parse_cqe answers CQ_OK whatever it is.  A received message is dumped.  *)
Checks(s) == s = "server" \/ ClientKind = "verb"

CountPolledNoReset(s, n) ==  \* broken: the next loop goes on counting
  /\ ncomp' = [ncomp EXCEPT ![s] = ncomp[s] + n]
  /\ buf' = IF pc[s] = "pollSend" THEN buf
            ELSE [buf EXCEPT ![s] = [i \in Msgs |->
                    IF i \in ncomp[s]+1..ncomp[s]+n THEN Cut(@[i]) ELSE @[i]]]
  /\ IF ncomp[s] + n = N THEN Advance(s) ELSE UNCHANGED pc

CountPolledOneLess(s, n) ==  \* broken: the loop ends one completion early
  /\ ncomp' = [ncomp EXCEPT ![s] = IF ncomp[s] + n >= N - 1 THEN 0 ELSE ncomp[s] + n]
  /\ buf' = IF pc[s] = "pollSend" THEN buf
            ELSE [buf EXCEPT ![s] = [i \in Msgs |->
                    IF i \in ncomp[s]+1..ncomp[s]+n THEN Cut(@[i]) ELSE @[i]]]
  /\ IF ncomp[s] + n >= N - 1 THEN Advance(s) ELSE UNCHANGED pc

CountPolled(s, n) ==
  /\ ncomp' = [ncomp EXCEPT ![s] = IF ncomp[s] + n = N THEN 0 ELSE ncomp[s] + n]
  /\ buf' = IF pc[s] = "pollSend" THEN buf
            ELSE [buf EXCEPT ![s] = [i \in Msgs |->
                    IF i \in ncomp[s]+1..ncomp[s]+n THEN Cut(@[i]) ELSE @[i]]]
  /\ IF ncomp[s] + n = N THEN Advance(s) ELSE UNCHANGED pc

Poll(s) ==
  /\ pc[s] \in {"pollSend", "pollRecv"}
  /\ \E n \in 1..(IF Checks(s) THEN N - ncomp[s] ELSE 1) :
       /\ n <= Len(cq[s])
       /\ cq' = [cq EXCEPT ![s] = SubSeq(@, n + 1, Len(@))]
       /\ IF Checks(s) /\ \E i \in 1..n : ~cq[s][i].ok
          THEN pc' = [pc EXCEPT ![s] = "failed"] /\ UNCHANGED <<ncomp, buf>>
          ELSE CountPolled(s, n)
  /\ UNCHANGED <<qp, wireVars, got>>

(* main destroys the queue pair once the traffic function has returned.    *)
Destroy(s) ==
  /\ Finished(s)
  /\ qp[s] # "gone"
  /\ qp' = [qp EXCEPT ![s] = "gone"]
  /\ UNCHANGED <<progVars, cq, wireVars, buf, got>>

(***************************************************************************)
(* The transport (external).                                               *)
(***************************************************************************)
Connected == \A s \in Sides : qp[s] = "rts"
Sending(s) == qp[s] = "rts" /\ delivered[s] < posted[s]

(* An RDMA write lands without asking for a receive; only its last packet, *)
(* which carries the immediate, takes one.                                 *)
LandBody ==
  /\ Connected /\ Sending("server") /\ ~body
  /\ body' = TRUE
  /\ LET i == delivered["server"] + 1
     IN  buf' = [buf EXCEPT !["client"][i] = buf["server"][i]]
  /\ UNCHANGED <<progVars, qp, cq, posted, recvs, delivered, acked, rnr, faults, got>>

(* A message reaches a receive of the peer and completes it.               *)
Deliver(s) ==
  /\ Connected /\ Sending(s)
  /\ delivered[s] < recvs[Peer(s)]
  /\ s = "server" => body
  /\ LET i == delivered[s] + 1
     IN  IF s = "client"
         THEN buf' = [buf EXCEPT !["server"][i] = buf["client"][i]] /\ UNCHANGED got
         ELSE got' = [got EXCEPT ![i] = IF buf["client"][i] = buf["server"][i]
                                        THEN buf["client"][i] ELSE "torn"]
              /\ UNCHANGED buf
  /\ delivered' = [delivered EXCEPT ![s] = @ + 1]
  /\ cq' = [cq EXCEPT ![Peer(s)] = Append(@, [kind |-> "recv", ok |-> TRUE])]
  /\ body' = IF s = "server" THEN FALSE ELSE body
  /\ UNCHANGED <<progVars, qp, posted, recvs, acked, rnr, faults>>

(* The acknowledgement comes back and the send completes.                  *)
Ack(s) ==
  /\ qp[s] = "rts"
  /\ acked[s] < delivered[s]
  /\ acked' = [acked EXCEPT ![s] = @ + 1]
  /\ cq' = [cq EXCEPT ![s] = Append(@, [kind |-> "send", ok |-> TRUE])]
  /\ UNCHANGED <<progVars, qp, posted, recvs, delivered, rnr, faults, body, buf, got>>

(* The queue pair goes to error and flushes what is outstanding.           *)
GiveUp(s) ==
  /\ qp' = [qp EXCEPT ![s] = "err"]
  /\ cq' = [cq EXCEPT ![s] = @ \o Entries(posted[s] - acked[s], "send", FALSE)
                               \o Entries(recvs[s] - delivered[Peer(s)], "recv", FALSE)]
  /\ UNCHANGED <<progVars, posted, recvs, delivered, acked, body, buf, got>>

(* The peer has no receive posted: a bounded number of retries.  The dv    *)
(* client's rnr_retry of 7 means it retries for ever.                      *)
RetriesRnr(s) == s = "server" \/ ClientKind = "verb"

ReceiverNotReady(s) ==
  /\ Connected /\ Sending(s)
  /\ delivered[s] >= recvs[Peer(s)]
  /\ RetriesRnr(s)
  /\ s = "server" => body
  /\ UNCHANGED faults
  /\ IF rnr[s] < RnrRetry
     THEN rnr' = [rnr EXCEPT ![s] = @ + 1]
          /\ UNCHANGED <<progVars, qp, cq, posted, recvs, delivered, acked, body, buf, got>>
     ELSE GiveUp(s) /\ UNCHANGED rnr

(* The peer's queue pair is not there yet, is in error, or is gone.        *)
PeerUnreachable(s) ==
  /\ Sending(s)
  /\ qp[Peer(s)] # "rts"
  /\ GiveUp(s)
  /\ UNCHANGED <<rnr, faults>>

(* The network loses every retry of a message or of its acknowledgement.   *)
NetworkFault(s) ==
  /\ qp[s] = "rts" /\ acked[s] < posted[s]
  /\ faults < MaxFaults
  /\ faults' = faults + 1
  /\ GiveUp(s)
  /\ UNCHANGED rnr

------------------------------------------------------------------------------
Step(s) == \/ Connect(s) \/ Nap(s) \/ PostSend(s) \/ Reset(s) \/ PostRecv(s)
           \/ Poll(s) \/ Destroy(s)
Carry(s) == Deliver(s) \/ Ack(s) \/ PeerUnreachable(s)
Hinder(s) == ReceiverNotReady(s) \/ NetworkFault(s)

Next == LandBody \/ \E s \in Sides : Step(s) \/ Carry(s) \/ Hinder(s)

Spec == Init /\ [][Next]_vars

(* Both programs run; the transport delivers, acknowledges or gives up.    *)
Fairness == /\ \A s \in Sides : WF_vars(Step(s)) /\ WF_vars(Carry(s))
            /\ WF_vars(LandBody)

FairSpec == Spec /\ Fairness

------------------------------------------------------------------------------
Stages == {"connect", "nap", "send", "pollSend", "reset", "recv", "pollRecv", "done", "failed"}

(* Type invariant: stages, queue pair states, counters up to N.            *)
TypeOK ==
  /\ pc \in [Sides -> Stages]
  /\ qp \in [Sides -> {"init", "rts", "err", "gone"}]
  /\ \A s \in Sides : \A i \in 1..Len(cq[s]) :
       cq[s][i] \in [kind : {"send", "recv"}, ok : BOOLEAN]
  /\ \A s \in Sides : ncomp[s] \in 0..N-1 /\ posted[s] \in {0, N} /\ recvs[s] \in {0, N}
  /\ \A s \in Sides : acked[s] \in 0..delivered[s] /\ delivered[s] \in 0..posted[s]
  /\ rnr \in [Sides -> 0..RnrRetry] /\ faults \in 0..MaxFaults /\ body \in BOOLEAN
  /\ buf \in [Sides -> [Msgs -> {"junk", "ping", "cut", "zero"}]]
  /\ got \in [Msgs -> {"junk", "ping", "cut", "zero", "torn"}]

(* A side that says it is done has had its own messages received and its   *)
(* peer's delivered: error completions are never counted as success.       *)
DoneMeansDelivered ==
  \A s \in Sides : pc[s] = "done" => delivered[s] = N /\ delivered[Peer(s)] = N

(* Send and receive completions share one queue and no poll loop looks at  *)
(* what it counts: a loop must find completions of its own kind only.      *)
OwnCompletions ==
  \A s \in Sides : \A i \in 1..Len(cq[s]) :
     /\ pc[s] = "pollSend" => cq[s][i].kind = "send"
     /\ pc[s] = "pollRecv" => cq[s][i].kind = "recv"

(* A pong is what the server's buffer held: the client's memset and the    *)
(* server's writes into the same buffers do not meet.                      *)
PongsWhole == \A i \in 1..delivered["server"] : got[i] = buf["server"][i]

(* client.verb.c: 'Get "pong" with same data'.                             *)
PongSameData == \A i \in 1..delivered["server"] : got[i] = "ping"

(* Each side finishes, or waits for messages of a peer that failed: there  *)
(* is no timeout in either poll loop, and no other way to hang.            *)
FinishOrOrphan ==
  <>[](\A s \in Sides : Finished(s) \/ (pc[s] = "pollRecv" /\ pc[Peer(s)] = "failed"))

(* If the sleeps are long enough and the network delivers, both succeed.   *)
BothSucceed == <>(\A s \in Sides : pc[s] = "done")
===============================================================================
