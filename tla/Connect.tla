------------------------------- MODULE Connect -------------------------------
(***************************************************************************)
(* How a server and a client get from their queue pairs to a connection:   *)
(* sock_server and sock_client of sock.c, pp_exchange_info, and the moves  *)
(* of pp_move2rts_verb and pp_move2rts_dv, which put what the peer sent    *)
(* into the queue pair.  Each program sends one message and reads once.    *)
(*                                                                         *)
(* More than one program of a kind may run: SO_REUSEPORT lets a server     *)
(* listen beside one that still waits, and a client that comes while       *)
(* another is served sits in the backlog.  Sockets (external) are streams: *)
(* a read returns some non-empty part of what was sent.                    *)
(***************************************************************************)
EXTENDS Integers, Sequences

CONSTANTS
  Servers, Clients,
  DvClients, \* the clients among them that use pp_dv.c
  Lengths,   \* how much a read may return, in half fields (HalfFields is all)
  None,
  MaxDeaths  \* bound on the programs that fail or are killed in a behaviour

Procs == Servers \cup Clients

(* struct pp_exchange_info, in the order of its fields.                    *)
Fields     == {"qpn", "psn", "gid", "lid", "addr", "mrkey"}
Position   == [qpn |-> 1, psn |-> 2, gid |-> 3, lid |-> 4, addr |-> 5, mrkey |-> 6]
HalfFields == 12

ASSUME ProcsAssumption   == Servers \cap Clients = {} /\ DvClients \subseteq Clients
                            /\ None \notin Procs
ASSUME LengthsAssumption == Lengths \subseteq 1..HalfFields /\ HalfFields \in Lengths
ASSUME BoundAssumption   == MaxDeaths \in Nat

VARIABLES
  ethernet,  \* the link layer is Ethernet, not InfiniBand
  little,    \* which hosts are little-endian
  pc,        \* stage of each program
  backlog,   \* connections each listening socket has not handed out yet
  conn,      \* the other end of each program's connection
  sent,      \* what each program has sent, as bytes
  recvbuf,   \* what each program has read, as bytes
  got,       \* how much of it, in half fields
  remote,    \* struct pp_exchange_info of the peer, as each program knows it
  qpc,       \* the context of each queue pair
  deaths     \* programs that failed or were killed

host == <<ethernet, little>>
vars == <<ethernet, little, pc, backlog, conn, sent, recvbuf, got, remote, qpc, deaths>>

(* A word is what a program has in a field, or its bytes in reverse.       *)
Word(p, f) == [who |-> p, field |-> f, reversed |-> FALSE]
Zero == [who |-> None, field |-> "zero", reversed |-> FALSE]
Torn == [who |-> None, field |-> "torn", reversed |-> FALSE]
Words == [who : Procs, field : Fields, reversed : BOOLEAN] \cup {Zero, Torn}

Reverse(w) == IF w.who = None THEN w ELSE [w EXCEPT !.reversed = ~@]

htobeForgotten(p, v) == v  \* broken: sent as it is in the register

(* Conversions, and what a store and a load do to the bytes of a word.     *)
htobe(p, v) == IF little[p] THEN Reverse(v) ELSE v
betoh(p, v) == IF little[p] THEN Reverse(v) ELSE v
Store(p, v) == IF little[p] THEN Reverse(v) ELSE v
Load(p, b)  == IF little[p] THEN Reverse(b) ELSE b

(***************************************************************************)
(* pp_exchange_info: the message out, and the message in.                  *)
(***************************************************************************)
(* The gid is bytes and is not converted; one of gid and lid stays zero.   *)
LocalInfo(p) ==
  [f \in Fields |->
     CASE f = "gid" -> IF ethernet THEN Word(p, f) ELSE Zero
       [] f = "lid" -> IF ethernet THEN Zero ELSE Store(p, htobe(p, Word(p, f)))
       [] OTHER     -> Store(p, htobe(p, Word(p, f)))]

(* The first n half fields of a message, in a buffer of zeros.             *)
Prefix(bytes, n) ==
  [f \in Fields |-> IF 2 * Position[f] <= n THEN bytes[f]
                    ELSE IF 2 * Position[f] = n + 1 THEN Torn ELSE Zero]

Decode(p, bytes) ==
  [f \in Fields |-> IF f = "gid" THEN bytes[f] ELSE betoh(p, Load(p, bytes[f]))]

NoInfo == [f \in Fields |-> Zero]

NoContext == [state |-> "none", remote_qpn |-> Zero, next_rcv_psn |-> Zero,
              path |-> Zero, next_send_psn |-> Zero]

Init ==
  /\ ethernet \in BOOLEAN /\ little \in [Procs -> BOOLEAN]
  /\ pc = [p \in Procs |-> "prepare"]
  /\ backlog = [s \in Servers |-> <<>>]
  /\ conn = [p \in Procs |-> None]
  /\ sent = [p \in Procs |-> NoInfo] /\ recvbuf = [p \in Procs |-> NoInfo]
  /\ got = [p \in Procs |-> 0]
  /\ remote = [p \in Procs |-> NoInfo]
  /\ qpc = [p \in Procs |-> NoContext]
  /\ deaths = 0

Goto(p, stage) == pc' = [pc EXCEPT ![p] = stage]

(***************************************************************************)
(* Before the exchange: pp_create_cq_qp_verb leaves the queue pair in INIT *)
(* and pp_create_qp_dv leaves it in RESET.                                 *)
(***************************************************************************)
Prepare(p) ==
  /\ pc[p] = "prepare"
  /\ qpc' = [qpc EXCEPT ![p].state = IF p \in DvClients THEN "reset" ELSE "init"]
  /\ Goto(p, IF p \in Servers THEN "listen" ELSE "connect")
  /\ UNCHANGED <<host, backlog, conn, sent, recvbuf, got, remote, deaths>>

(***************************************************************************)
(* sock_server.  The value given for the two options together is that of   *)
(* SO_REUSEPORT, so bind succeeds though another server is listening.      *)
(***************************************************************************)
Listen(s) ==
  /\ pc[s] = "listen"
  /\ Goto(s, "accept")
  /\ UNCHANGED <<host, backlog, conn, sent, recvbuf, got, remote, qpc, deaths>>

Accept(s) ==
  /\ pc[s] = "accept"
  /\ backlog[s] # <<>>
  /\ conn' = [conn EXCEPT ![s] = Head(backlog[s])]
  /\ backlog' = [backlog EXCEPT ![s] = Tail(@)]
  /\ Goto(s, "read")
  /\ UNCHANGED <<host, sent, recvbuf, got, remote, qpc, deaths>>

(* The socket it listens on is closed only when the program ends.          *)
Listening(s) == pc[s] \notin {"prepare", "listen", "exited"}

(***************************************************************************)
(* sock_client: one attempt to connect.                                    *)
(***************************************************************************)
ConnectTo(c, s) ==
  /\ pc[c] = "connect"
  /\ Listening(s)
  /\ conn' = [conn EXCEPT ![c] = s]
  /\ backlog' = [backlog EXCEPT ![s] = Append(@, c)]
  /\ Goto(c, "send")
  /\ UNCHANGED <<host, sent, recvbuf, got, remote, qpc, deaths>>

Refused(c) ==
  /\ pc[c] = "connect"
  /\ \A s \in Servers : ~Listening(s)
  /\ Goto(c, "exited")
  /\ UNCHANGED <<host, backlog, conn, sent, recvbuf, got, remote, qpc, deaths>>

(***************************************************************************)
(* Both: one send, one read.  The server reads first.                      *)
(***************************************************************************)
Moves(p) == IF p \in DvClients THEN "rst2init" ELSE "init2rtr"

ServerSend(s) ==
  /\ pc[s] = "send"
  /\ sent' = [sent EXCEPT ![s] = LocalInfo(s)]
  /\ remote' = [remote EXCEPT ![s] = Decode(s, recvbuf[s])]
  /\ Goto(s, Moves(s))
  /\ UNCHANGED <<host, backlog, conn, recvbuf, got, qpc, deaths>>

ClientSend(c) ==
  /\ pc[c] = "send"
  /\ sent' = [sent EXCEPT ![c] = LocalInfo(c)]
  /\ Goto(c, "read")
  /\ UNCHANGED <<host, backlog, conn, recvbuf, got, remote, qpc, deaths>>

(* What the other end has sent into this connection can be read.           *)
Arrived(p) == LET q == conn[p] IN q # None /\ conn[q] = p /\ sent[q] # NoInfo

ServerRead(s, n) ==
  /\ pc[s] = "read"
  /\ Arrived(s)
  /\ recvbuf' = [recvbuf EXCEPT ![s] = Prefix(sent[conn[s]], n)]
  /\ got' = [got EXCEPT ![s] = n]
  /\ Goto(s, "send")
  /\ UNCHANGED <<host, backlog, conn, sent, remote, qpc, deaths>>

ClientReadAny(c, n) ==  \* broken: what another connection was sent is read
  /\ pc[c] = "read"
  /\ sent[conn[c]] # NoInfo
  /\ recvbuf' = [recvbuf EXCEPT ![c] = Prefix(sent[conn[c]], n)]
  /\ got' = [got EXCEPT ![c] = n]
  /\ remote' = [remote EXCEPT ![c] = Decode(c, Prefix(sent[conn[c]], n))]
  /\ Goto(c, Moves(c))
  /\ UNCHANGED <<host, backlog, conn, sent, qpc, deaths>>

ClientRead(c, n) ==
  /\ pc[c] = "read"
  /\ Arrived(c)
  /\ recvbuf' = [recvbuf EXCEPT ![c] = Prefix(sent[conn[c]], n)]
  /\ got' = [got EXCEPT ![c] = n]
  /\ remote' = [remote EXCEPT ![c] = Decode(c, Prefix(sent[conn[c]], n))]
  /\ Goto(c, Moves(c))
  /\ UNCHANGED <<host, backlog, conn, sent, qpc, deaths>>

PeerGoneIgnored(p) == FALSE  \* broken: a read waits on for a peer that is gone

(* The other end has ended: a read ends, or fails even though something    *)
(* was sent, and so may a send.                                            *)
PeerGone(p) ==
  /\ pc[p] \in {"read", "send"}
  /\ pc[conn[p]] = "exited"
  /\ Goto(p, "exited")
  /\ UNCHANGED <<host, backlog, conn, sent, recvbuf, got, remote, qpc, deaths>>

(***************************************************************************)
(* pp_move2rts_dv, pp_move2rts_verb.                                       *)
(***************************************************************************)
Rst2Init(p) ==
  /\ pc[p] = "rst2init"
  /\ qpc' = [qpc EXCEPT ![p].state = "init"]
  /\ Goto(p, "init2rtr")
  /\ UNCHANGED <<host, backlog, conn, sent, recvbuf, got, remote, deaths>>

Init2Rtr(p) ==
  /\ pc[p] = "init2rtr"
  /\ qpc' = [qpc EXCEPT ![p] = [@ EXCEPT
               !.state = "rtr",
               !.remote_qpn = remote[p]["qpn"],
               !.next_rcv_psn = remote[p]["psn"],
               !.path = IF ethernet THEN remote[p]["gid"] ELSE remote[p]["lid"]]]
  /\ Goto(p, "rtr2rts")
  /\ UNCHANGED <<host, backlog, conn, sent, recvbuf, got, remote, deaths>>

Rtr2Rts(p) ==
  /\ pc[p] = "rtr2rts"
  /\ qpc' = [qpc EXCEPT ![p] = [@ EXCEPT !.state = "rts", !.next_send_psn = Word(p, "psn")]]
  /\ Goto(p, "traffic")
  /\ UNCHANGED <<host, backlog, conn, sent, recvbuf, got, remote, deaths>>

(* The traffic is over, for better or worse; PingPong tells how.           *)
Leave(p) ==
  /\ pc[p] = "traffic"
  /\ Goto(p, "exited")
  /\ UNCHANGED <<host, backlog, conn, sent, recvbuf, got, remote, qpc, deaths>>

(* A call fails, or a signal comes: the program ends, its sockets close.   *)
Die(p) ==
  /\ pc[p] \notin {"traffic", "exited"}
  /\ deaths < MaxDeaths
  /\ deaths' = deaths + 1
  /\ Goto(p, "exited")
  /\ UNCHANGED <<host, backlog, conn, sent, recvbuf, got, remote, qpc>>

------------------------------------------------------------------------------
ServerStep(s) == \/ Listen(s) \/ Accept(s) \/ ServerSend(s)
                 \/ \E n \in Lengths : ServerRead(s, n)
ClientStep(c) == \/ \E s \in Servers : ConnectTo(c, s)
                 \/ Refused(c) \/ ClientSend(c)
                 \/ \E n \in Lengths : ClientRead(c, n)
Step(p) == \/ Prepare(p) \/ PeerGone(p)
           \/ Rst2Init(p) \/ Init2Rtr(p) \/ Rtr2Rts(p)

Next == \/ \E s \in Servers : ServerStep(s)
        \/ \E c \in Clients : ClientStep(c)
        \/ \E p \in Procs : Step(p) \/ Leave(p) \/ Die(p)

Spec == Init /\ [][Next]_vars

(* Every program takes its next step if it can; traffic need not end.      *)
Fairness == /\ \A s \in Servers : WF_vars(ServerStep(s))
            /\ \A c \in Clients : WF_vars(ClientStep(c))
            /\ \A p \in Procs : WF_vars(Step(p))

FairSpec == Spec /\ Fairness

------------------------------------------------------------------------------
Stages == {"prepare", "listen", "accept", "connect", "send", "read", "rst2init",
           "init2rtr", "rtr2rts", "traffic", "exited"}
Infos  == [Fields -> Words]

(* Type invariant: the values of every variable.                           *)
TypeOK ==
  /\ ethernet \in BOOLEAN /\ little \in [Procs -> BOOLEAN]
  /\ pc \in [Procs -> Stages]
  /\ backlog \in [Servers -> Seq(Clients)]
  /\ conn \in [Procs -> Procs \cup {None}]
  /\ \A c \in Clients : conn[c] \in Servers \cup {None}
  /\ \A s \in Servers : conn[s] \in Clients \cup {None}
  /\ sent \in [Procs -> Infos] /\ recvbuf \in [Procs -> Infos] /\ remote \in [Procs -> Infos]
  /\ got \in [Procs -> 0..HalfFields]
  /\ qpc \in [Procs -> [state : {"none", "reset", "init", "rtr", "rts"}, remote_qpn : Words,
                        next_rcv_psn : Words, path : Words, next_send_psn : Words]]
  /\ deaths \in 0..MaxDeaths

Ready(p) == qpc[p].state \in {"rtr", "rts"}
Whole(p) == got[p] = HalfFields

(* A queue pair that is ready after a whole read is set to its program's   *)
(* own peer: its number, the packet number it sends with once it sends,    *)
(* its address, and what an RDMA write needs, whatever byte orders meet    *)
(* and whoever else connects, waits or dies.                               *)
Paired ==
  \A p \in Procs : Ready(p) /\ Whole(p) =>
    LET q == conn[p]
    IN  /\ q # None /\ conn[q] = p
        /\ qpc[p].remote_qpn = Word(q, "qpn")
        /\ qpc[p].path = Word(q, IF ethernet THEN "gid" ELSE "lid")
        /\ remote[p]["addr"] = Word(q, "addr") /\ remote[p]["mrkey"] = Word(q, "mrkey")
        /\ qpc[q].state = "rts" => qpc[p].next_rcv_psn = qpc[q].next_send_psn

(* No two queue pairs are set to the same peer, and a client that is ready *)
(* has a server that has read from it: the server answers one client and   *)
(* only after it.                                                          *)
OnePeer ==
  /\ \A p, q \in Procs :
       /\ Ready(p) /\ Ready(q) /\ p # q
       /\ qpc[p].remote_qpn = qpc[q].remote_qpn
       => qpc[p].remote_qpn \in {Zero, Torn}
  /\ \A c \in Clients : Ready(c) => conn[conn[c]] = c /\ got[conn[c]] > 0

(* A server that nobody will connect to; a client whose server is busy     *)
(* with another.                                                           *)
Deserted(s) == /\ pc[s] = "accept"
               /\ \A c \in Clients : pc[c] = "exited" \/ conn[c] \notin {None, s}
Queued(c)   == /\ pc[c] = "read" /\ conn[conn[c]] # c
               /\ pc[conn[c]] = "traffic"

(* Every program gets ready for traffic or ends, but for those two: accept *)
(* and read have no timeout and connect no retry.                          *)
ExchangeEnds ==
  \A p \in Procs : <>[](\/ pc[p] \in {"traffic", "exited"}
                        \/ p \in Servers /\ Deserted(p)
                        \/ p \in Clients /\ Queued(p))
==============================================================================
