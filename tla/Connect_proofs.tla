--------------------------- MODULE Connect_proofs ---------------------------
(***************************************************************************)
(* Theorems about Connect, for every set of servers and of clients, every  *)
(* way the reads may be cut and every number of deaths.                    *)
(***************************************************************************)
EXTENDS Connect, TLAPS

(***************************************************************************)
(* The inductive invariant.                                                *)
(***************************************************************************)

(* The message of p as it should be on the wire.                           *)
Message(p) ==
  [f \in Fields |-> CASE f = "gid" -> IF ethernet THEN Word(p, f) ELSE Zero
                      [] f = "lid" -> IF ethernet THEN Zero ELSE Word(p, f)
                      [] OTHER     -> Word(p, f)]

Unconnected == {"prepare", "listen", "accept", "connect"}
Moving      == {"rst2init", "init2rtr", "rtr2rts", "traffic"}

SentRight == \A p \in Procs : sent[p] \in {NoInfo, Message(p)}

(* A connection has two ends, though the server may not know of it yet.    *)
ConnsRight ==
  /\ \A p \in Procs : pc[p] \in Unconnected => conn[p] = None
  /\ \A s \in Servers : \A i \in 1..Len(backlog[s]) : conn[backlog[s][i]] = s
  /\ \A s \in Servers : conn[s] # None => conn[conn[s]] = s

(* What was read is the beginning of the message of the other end, who     *)
(* knows of the connection; and a server sends only after it has read.     *)
ReadsRight ==
  /\ \A p \in Procs : got[p] > 0 => /\ conn[p] # None /\ conn[conn[p]] = p
                                    /\ sent[conn[p]] # NoInfo
                                    /\ recvbuf[p] = Prefix(Message(conn[p]), got[p])
  /\ \A s \in Servers : pc[s] = "send" \/ sent[s] # NoInfo => got[s] > 0
  /\ \A p \in Procs : pc[p] \in Moving => got[p] > 0 /\ remote[p] = recvbuf[p]

(* What a queue pair is set to is what was read.                           *)
SetFromRead(p) ==
  /\ pc[p] \in {"rtr2rts", "traffic", "exited"}
  /\ got[p] > 0 /\ remote[p] = recvbuf[p]
  /\ qpc[p].remote_qpn = recvbuf[p]["qpn"]
  /\ qpc[p].next_rcv_psn = recvbuf[p]["psn"]
  /\ qpc[p].path = recvbuf[p][IF ethernet THEN "gid" ELSE "lid"]
  /\ qpc[p].state = "rts" => qpc[p].next_send_psn = Word(p, "psn")

ContextsRight ==
  \A p \in Procs : /\ Ready(p) => SetFromRead(p)
                   /\ pc[p] \in {"rtr2rts", "traffic"} => Ready(p)

IndInv == TypeOK /\ SentRight /\ ConnsRight /\ ReadsRight /\ ContextsRight

------------------------------------------------------------------------------
(***************************************************************************)
(* Words and messages.                                                     *)
(***************************************************************************)
LEMMA WordTypes ==
  /\ \A p \in Procs, f \in Fields : Word(p, f) \in Words /\ Word(p, f).who = p
  /\ Zero \in Words /\ Torn \in Words
  BY DEF Words, Word, Zero, Torn

(* Turning the bytes of a word round twice changes nothing.                *)
LEMMA ReverseTwice ==
  ASSUME NEW w \in Words
  PROVE  Reverse(w) \in Words /\ Reverse(Reverse(w)) = w
<1>1. CASE w \in {Zero, Torn}
  BY <1>1 DEF Reverse, Zero, Torn, Words
<1>2. CASE w \in [who : Procs, field : Fields, reversed : BOOLEAN]
  <2> DEFINE v == [who |-> w.who, field |-> w.field, reversed |-> ~w.reversed]
  <2>1. w.who # None /\ w.reversed \in BOOLEAN
    BY <1>2, ProcsAssumption
  <2>2. Reverse(w) = v
    BY <1>2, <2>1 DEF Reverse
  <2>3. v \in [who : Procs, field : Fields, reversed : BOOLEAN] /\ v.who # None
    BY <1>2, <2>1
  <2>4. Reverse(v) = [who |-> v.who, field |-> v.field, reversed |-> ~v.reversed]
    BY <2>3 DEF Reverse
  <2>5. (~v.reversed) = w.reversed
    BY <2>1
  <2>6. Reverse(v) = w
    BY <1>2, <2>4, <2>5
  <2> QED
    BY <2>2, <2>3, <2>6 DEF Words
<1> QED
  BY <1>1, <1>2 DEF Words

(* Whatever the byte order of the sender, the same bytes go out; whatever  *)
(* that of the receiver, it makes the same of them.                        *)
LEMMA SendsMessage ==
  ASSUME NEW p \in Procs
  PROVE  LocalInfo(p) = Message(p)
<1>1. \A f \in Fields : Store(p, htobe(p, Word(p, f))) = Word(p, f)
  BY WordTypes, ReverseTwice DEF Store, htobe
<1> QED
  BY <1>1 DEF LocalInfo, Message

LEMMA DecodesMessage ==
  ASSUME NEW p \in Procs, NEW b \in Infos
  PROVE  Decode(p, b) = b
<1>1. \A f \in Fields : betoh(p, Load(p, b[f])) = b[f]
  BY ReverseTwice DEF betoh, Load, Infos
<1> QED
  BY <1>1 DEF Decode, Infos

LEMMA InfoTypes ==
  /\ NoInfo \in Infos
  /\ \A p \in Procs : Message(p) \in Infos
  /\ \A b \in Infos, n \in 0..HalfFields : Prefix(b, n) \in Infos
<1>1. NoInfo \in Infos
  BY WordTypes DEF NoInfo, Infos
<1>2. \A p \in Procs : Message(p) \in Infos
  BY WordTypes DEF Message, Infos
<1>3. \A b \in Infos, n \in 0..HalfFields : Prefix(b, n) \in Infos
  BY WordTypes DEF Prefix, Infos
<1> QED
  BY <1>1, <1>2, <1>3

LEMMA MessageNotEmpty == \A p \in Procs : Message(p) # NoInfo
<1>1. ASSUME NEW p \in Procs
      PROVE  Message(p)["qpn"] # NoInfo["qpn"]
  <2>1. Message(p)["qpn"] = Word(p, "qpn") /\ NoInfo["qpn"] = Zero
    BY DEF Message, NoInfo, Fields
  <2>2. Word(p, "qpn").who = p /\ Zero.who = None /\ p # None
    BY ProcsAssumption DEF Word, Zero
  <2> QED
    BY <2>1, <2>2
<1> QED
  BY <1>1

LEMMA LengthRange == \A n \in Lengths : n \in 1..12 /\ n \in Nat /\ n > 0
  BY LengthsAssumption DEF HalfFields

(* A whole message is all of it.                                           *)
LEMMA PrefixWhole ==
  ASSUME NEW b \in Infos
  PROVE  Prefix(b, HalfFields) = b
<1>1. \A f \in Fields : 2 * Position[f] <= HalfFields
  BY DEF Fields, Position, HalfFields
<1> QED
  BY <1>1 DEF Prefix, Infos

(***************************************************************************)
(* Programs that end, or go on without touching anything else.             *)
(***************************************************************************)
LEMMA GotoKeeps ==
  ASSUME IndInv, NEW p \in Procs, NEW stage \in Stages, Goto(p, stage),
         stage \in Unconnected => pc[p] \in Unconnected,
         stage \in {"listen", "accept", "connect", "exited"},
         UNCHANGED <<host, backlog, conn, sent, recvbuf, got, remote, qpc>>,
         deaths' \in 0..MaxDeaths
  PROVE  IndInv'
<1>1. /\ pc' = [pc EXCEPT ![p] = stage] /\ pc \in [Procs -> Stages]
      /\ UNCHANGED <<ethernet, little, backlog, conn, sent, recvbuf, got, remote, qpc>>
  BY DEF Goto, host, IndInv, TypeOK
<1>2. TypeOK'
  BY <1>1 DEF IndInv, TypeOK
<1>3. SentRight'
  BY <1>1 DEF IndInv, SentRight, Message
<1>4. ConnsRight'
  BY <1>1 DEF IndInv, ConnsRight
<1>5. ReadsRight'
  BY <1>1 DEF IndInv, ReadsRight, Message, Moving
<1>6. ContextsRight'
  <2>1. ASSUME NEW q \in Procs, Ready(q)'
        PROVE  SetFromRead(q)'
    <3>1. SetFromRead(q)
      BY <1>1, <2>1 DEF IndInv, ContextsRight, Ready
    <3>2. pc'[q] \in {"rtr2rts", "traffic", "exited"}
      BY <1>1, <3>1 DEF SetFromRead, Unconnected
    <3> QED
      BY <1>1, <3>1, <3>2 DEF SetFromRead
  <2>2. ASSUME NEW q \in Procs, pc'[q] \in {"rtr2rts", "traffic"}
        PROVE  Ready(q)'
    BY <1>1, <2>2 DEF IndInv, ContextsRight, Ready
  <2> QED
    BY <2>1, <2>2 DEF ContextsRight
<1> QED
  BY <1>2, <1>3, <1>4, <1>5, <1>6 DEF IndInv

LEMMA PrepareKeeps ==
  ASSUME IndInv, NEW p \in Procs, Prepare(p)
  PROVE  IndInv'
<1> DEFINE st == IF p \in DvClients THEN "reset" ELSE "init"
           stage == IF p \in Servers THEN "listen" ELSE "connect"
<1>1. /\ pc' = [pc EXCEPT ![p] = stage] /\ pc \in [Procs -> Stages] /\ pc[p] = "prepare"
      /\ qpc' = [qpc EXCEPT ![p].state = st]
      /\ UNCHANGED <<ethernet, little, backlog, conn, sent, recvbuf, got, remote, deaths>>
  BY DEF Prepare, Goto, host, IndInv, TypeOK
<1>2. stage \in Unconnected /\ stage \in Stages /\ stage \in {"listen", "connect"}
      /\ st \in {"reset", "init"}
  BY DEF Unconnected, Stages
<1> HIDE DEF st, stage
<1>3. TypeOK'
  <2>1. qpc' \in [Procs -> [state : {"none", "reset", "init", "rtr", "rts"}, remote_qpn : Words,
                  next_rcv_psn : Words, path : Words, next_send_psn : Words]]
    BY <1>1, <1>2 DEF IndInv, TypeOK
  <2> QED
    BY <1>1, <1>2, <2>1 DEF IndInv, TypeOK
<1>4. SentRight'
  BY <1>1 DEF IndInv, SentRight, Message
<1>5. ConnsRight'
  BY <1>1 DEF IndInv, ConnsRight, Unconnected
<1>6. ReadsRight'
  BY <1>1, <1>2 DEF IndInv, ReadsRight, Message, Moving
<1>7. qpc'[p].state = st /\ \A q \in Procs : q # p => qpc'[q] = qpc[q]
  BY <1>1 DEF IndInv, TypeOK
<1>8. ContextsRight'
  <2>1. ASSUME NEW q \in Procs, q # p
        PROVE  /\ Ready(q)' = Ready(q) /\ pc'[q] = pc[q] /\ SetFromRead(q)' = SetFromRead(q)
    BY <1>1, <1>7, <2>1 DEF Ready, SetFromRead
  <2>2. ~Ready(p)' /\ pc'[p] = stage
    BY <1>1, <1>2, <1>7 DEF Ready
  <2> QED
    BY <1>2, <2>1, <2>2 DEF IndInv, ContextsRight
<1> QED
  BY <1>3, <1>4, <1>5, <1>6, <1>8 DEF IndInv

(***************************************************************************)
(* Connections.                                                            *)
(***************************************************************************)
LEMMA AcceptKeeps ==
  ASSUME IndInv, NEW s \in Servers, Accept(s)
  PROVE  IndInv'
<1> DEFINE c == Head(backlog[s])
<1>1. /\ pc' = [pc EXCEPT ![s] = "read"] /\ pc \in [Procs -> Stages] /\ pc[s] = "accept"
      /\ conn' = [conn EXCEPT ![s] = c] /\ conn \in [Procs -> Procs \cup {None}]
      /\ backlog' = [backlog EXCEPT ![s] = Tail(backlog[s])] /\ backlog \in [Servers -> Seq(Clients)]
      /\ backlog[s] # <<>> /\ s \in Procs
      /\ UNCHANGED <<ethernet, little, sent, recvbuf, got, remote, qpc, deaths>>
  BY DEF Accept, Goto, host, IndInv, TypeOK, Procs
<1>2. c \in Clients /\ c # s /\ c \in Procs /\ c # None /\ s # None
  BY <1>1, ProcsAssumption DEF Procs
<1>3. conn[s] = None
  BY <1>1 DEF IndInv, ConnsRight, Unconnected
<1>4. conn[c] = s
  <2>1. 1 \in 1..Len(backlog[s]) /\ c = backlog[s][1]
    BY <1>1
  <2> QED
    BY <2>1 DEF IndInv, ConnsRight
<1>5. \A t \in Servers : \A i \in 1..Len(backlog'[t]) :
        backlog'[t][i] \in Clients /\ \E j \in 1..Len(backlog[t]) : backlog'[t][i] = backlog[t][j]
  <2>1. ASSUME NEW i \in 1..Len(Tail(backlog[s]))
        PROVE  /\ Tail(backlog[s])[i] = backlog[s][i+1] /\ i + 1 \in 1..Len(backlog[s])
               /\ backlog[s][i+1] \in Clients
    BY <1>1
  <2>2. \A t \in Servers : t # s => backlog'[t] = backlog[t] /\ backlog[t] \in Seq(Clients)
    BY <1>1
  <2>3. backlog'[s] = Tail(backlog[s])
    BY <1>1
  <2>4. ASSUME NEW t \in Servers, NEW i \in 1..Len(backlog'[t])
        PROVE  backlog'[t][i] \in Clients /\ \E j \in 1..Len(backlog[t]) : backlog'[t][i] = backlog[t][j]
    <3>1. CASE t = s
      BY <2>1, <2>3, <2>4, <3>1
    <3>2. CASE t # s
      BY <2>2, <2>4, <3>2
    <3> QED
      BY <3>1, <3>2
  <2> QED
    BY <2>4
<1> HIDE DEF c
<1>6. \A q \in Procs : q # s => conn'[q] = conn[q]
  BY <1>1
<1>7. TypeOK'
  <2>1. backlog' \in [Servers -> Seq(Clients)]
    BY <1>1
  <2>2. conn' \in [Procs -> Procs \cup {None}]
    BY <1>1, <1>2
  <2>3. /\ \A d \in Clients : conn'[d] \in Servers \cup {None}
        /\ \A t \in Servers : conn'[t] \in Clients \cup {None}
    BY <1>1, <1>2, <1>6, ProcsAssumption DEF IndInv, TypeOK, Procs
  <2>4. pc' \in [Procs -> Stages]
    BY <1>1 DEF Stages
  <2> QED
    BY <1>1, <2>1, <2>2, <2>3, <2>4 DEF IndInv, TypeOK
<1>8. SentRight'
  BY <1>1 DEF IndInv, SentRight, Message
<1>9. ConnsRight'
  <2>1. \A q \in Procs : pc'[q] \in Unconnected => conn'[q] = None
    BY <1>1, <1>6 DEF IndInv, ConnsRight, Unconnected
  <2>2. \A t \in Servers : \A i \in 1..Len(backlog'[t]) : conn'[backlog'[t][i]] = t
    <3> SUFFICES ASSUME NEW t \in Servers, NEW i \in 1..Len(backlog'[t])
                 PROVE  conn'[backlog'[t][i]] = t
      OBVIOUS
    <3>1. backlog'[t][i] \in Clients /\ conn[backlog'[t][i]] = t
      BY <1>5 DEF IndInv, ConnsRight
    <3>2. backlog'[t][i] \in Procs /\ backlog'[t][i] # s
      BY <3>1, ProcsAssumption DEF Procs
    <3> QED
      BY <1>6, <3>1, <3>2
  <2>3. \A t \in Servers : conn'[t] # None => conn'[conn'[t]] = t
    <3> SUFFICES ASSUME NEW t \in Servers, conn'[t] # None
                 PROVE  conn'[conn'[t]] = t
      OBVIOUS
    <3>1. CASE t = s
      BY <1>1, <1>2, <1>4, <1>6, <3>1
    <3>2. CASE t # s
      <4>1. t \in Procs /\ conn'[t] = conn[t] /\ conn[t] \in Clients /\ conn[conn[t]] = t
        BY <1>6, <3>2 DEF Procs, IndInv, TypeOK, ConnsRight
      <4>2. conn[t] \in Procs /\ conn[t] # s
        BY <4>1, ProcsAssumption DEF Procs
      <4> QED
        BY <1>6, <4>1, <4>2
    <3> QED
      BY <3>1, <3>2
  <2> QED
    BY <2>1, <2>2, <2>3 DEF ConnsRight
<1>10. \A q \in Procs : got[q] > 0 => q # s /\ conn[q] # s
  BY <1>1, <1>3, ProcsAssumption DEF IndInv, ReadsRight
<1>11. ReadsRight'
  <2>1. \A q \in Procs : got[q] > 0 => /\ conn'[q] # None /\ conn'[conn'[q]] = q
                                       /\ sent[conn'[q]] # NoInfo
                                       /\ recvbuf[q] = Prefix(Message(conn'[q]), got[q])
    BY <1>1, <1>6, <1>10 DEF IndInv, ReadsRight, TypeOK
  <2>2. \A t \in Servers : pc'[t] = "send" \/ sent'[t] # NoInfo => got'[t] > 0
    BY <1>1 DEF IndInv, ReadsRight, Procs
  <2>3. \A q \in Procs : pc'[q] \in Moving => got'[q] > 0 /\ remote'[q] = recvbuf'[q]
    BY <1>1 DEF IndInv, ReadsRight, Moving
  <2> QED
    BY <1>1, <2>1, <2>2, <2>3 DEF ReadsRight, Message
<1>12. ContextsRight'
  <2>1. ASSUME NEW q \in Procs
        PROVE  /\ Ready(q)' => SetFromRead(q)'
               /\ pc'[q] \in {"rtr2rts", "traffic"} => Ready(q)'
    BY <1>1 DEF IndInv, ContextsRight, Ready, SetFromRead
  <2> QED
    BY <2>1 DEF ContextsRight
<1> QED
  BY <1>7, <1>8, <1>9, <1>11, <1>12 DEF IndInv

LEMMA ConnectKeeps ==
  ASSUME IndInv, NEW c \in Clients, NEW s \in Servers, ConnectTo(c, s)
  PROVE  IndInv'
<1>1. /\ pc' = [pc EXCEPT ![c] = "send"] /\ pc \in [Procs -> Stages] /\ pc[c] = "connect"
      /\ conn' = [conn EXCEPT ![c] = s] /\ conn \in [Procs -> Procs \cup {None}]
      /\ backlog' = [backlog EXCEPT ![s] = Append(backlog[s], c)]
      /\ backlog \in [Servers -> Seq(Clients)]
      /\ c \in Procs /\ s \in Procs
      /\ UNCHANGED <<ethernet, little, sent, recvbuf, got, remote, qpc, deaths>>
  BY DEF ConnectTo, Goto, host, IndInv, TypeOK, Procs
<1>2. c \notin Servers /\ c # None /\ s # None
  BY <1>1, ProcsAssumption
<1>3. conn[c] = None
  BY <1>1 DEF IndInv, ConnsRight, Unconnected
<1>4. \A q \in Procs : q # c => conn'[q] = conn[q]
  BY <1>1
<1>6. TypeOK'
  <2>1. backlog' \in [Servers -> Seq(Clients)]
    BY <1>1
  <2>2. conn' \in [Procs -> Procs \cup {None}]
    BY <1>1
  <2>3. /\ \A d \in Clients : conn'[d] \in Servers \cup {None}
        /\ \A t \in Servers : conn'[t] \in Clients \cup {None}
    BY <1>1, <1>2, <1>4 DEF IndInv, TypeOK, Procs
  <2>4. pc' \in [Procs -> Stages]
    BY <1>1 DEF Stages
  <2> QED
    BY <1>1, <2>1, <2>2, <2>3, <2>4 DEF IndInv, TypeOK
<1>7. SentRight'
  BY <1>1 DEF IndInv, SentRight, Message
<1>8. ConnsRight'
  <2>1. \A q \in Procs : pc'[q] \in Unconnected => conn'[q] = None
    BY <1>1, <1>4 DEF IndInv, ConnsRight, Unconnected
  <2>2. ASSUME NEW t \in Servers, NEW i \in 1..Len(backlog'[t])
        PROVE  conn'[backlog'[t][i]] = t
    <3>1. CASE i \in 1..Len(backlog[t])
      <4>1. backlog'[t][i] = backlog[t][i] /\ backlog[t][i] \in Clients
        BY <1>1, <3>1
      <4>2. conn[backlog[t][i]] = t /\ t # None
        BY <3>1, ProcsAssumption DEF IndInv, ConnsRight, Procs
      <4>3. backlog[t][i] # c /\ backlog[t][i] \in Procs
        BY <1>3, <4>1, <4>2 DEF Procs
      <4> QED
        BY <1>4, <4>1, <4>2, <4>3
    <3>2. CASE i \notin 1..Len(backlog[t])
      <4>1. t = s /\ backlog'[t][i] = c
        BY <1>1, <3>2
      <4> QED
        BY <1>1, <4>1
    <3> QED
      BY <3>1, <3>2
  <2>3. ASSUME NEW t \in Servers, conn'[t] # None
        PROVE  conn'[conn'[t]] = t
    <3>1. t \in Procs /\ t # c /\ t # None
      BY <1>2, ProcsAssumption DEF Procs
    <3>2. conn'[t] = conn[t] /\ conn[conn[t]] = t /\ conn[t] \in Procs
      BY <1>1, <1>4, <2>3, <3>1 DEF IndInv, ConnsRight
    <3>3. conn[t] # c
      BY <1>3, <3>1, <3>2
    <3> QED
      BY <1>4, <3>2, <3>3
  <2> QED
    BY <2>1, <2>2, <2>3 DEF ConnsRight
<1>9. ASSUME NEW q \in Procs, got[q] > 0
      PROVE  conn'[q] = conn[q] /\ conn'[conn[q]] = conn[conn[q]]
  <2>1. conn[q] \in Procs /\ conn[conn[q]] = q /\ q # None
    BY <1>1, <1>9, ProcsAssumption DEF IndInv, ReadsRight
  <2>2. q # c /\ conn[q] # c
    BY <1>3, <2>1, ProcsAssumption DEF Procs
  <2> QED
    BY <1>4, <2>1, <2>2
<1>10. ReadsRight'
  <2>1. \A q \in Procs : got[q] > 0 => /\ conn'[q] # None /\ conn'[conn'[q]] = q
                                       /\ sent[conn'[q]] # NoInfo
                                       /\ recvbuf[q] = Prefix(Message(conn'[q]), got[q])
    BY <1>9 DEF IndInv, ReadsRight
  <2>2. \A t \in Servers : pc'[t] = "send" \/ sent'[t] # NoInfo => got'[t] > 0
    BY <1>1, <1>2 DEF IndInv, ReadsRight, Procs
  <2>3. \A q \in Procs : pc'[q] \in Moving => got'[q] > 0 /\ remote'[q] = recvbuf'[q]
    BY <1>1 DEF IndInv, ReadsRight, Moving
  <2> QED
    BY <1>1, <2>1, <2>2, <2>3 DEF ReadsRight, Message
<1>11. ContextsRight'
  <2>1. ASSUME NEW q \in Procs
        PROVE  /\ Ready(q)' => SetFromRead(q)'
               /\ pc'[q] \in {"rtr2rts", "traffic"} => Ready(q)'
    BY <1>1 DEF IndInv, ContextsRight, Ready, SetFromRead
  <2> QED
    BY <2>1 DEF ContextsRight
<1> QED
  BY <1>6, <1>7, <1>8, <1>10, <1>11 DEF IndInv

(***************************************************************************)
(* Messages.                                                               *)
(***************************************************************************)
LEMMA ServerSendKeeps ==
  ASSUME IndInv, NEW s \in Servers, ServerSend(s)
  PROVE  IndInv'
<1>1. /\ s \in Procs /\ Moves(s) = "init2rtr" /\ recvbuf[s] \in Infos
  BY ProcsAssumption DEF Procs, Moves, IndInv, TypeOK
<1>2. /\ pc' = [pc EXCEPT ![s] = "init2rtr"] /\ pc \in [Procs -> Stages] /\ pc[s] = "send"
      /\ sent' = [sent EXCEPT ![s] = Message(s)] /\ sent \in [Procs -> Infos]
      /\ remote' = [remote EXCEPT ![s] = recvbuf[s]] /\ remote \in [Procs -> Infos]
      /\ UNCHANGED <<ethernet, little, backlog, conn, recvbuf, got, qpc, deaths>>
  BY <1>1, SendsMessage, DecodesMessage DEF ServerSend, Goto, host, IndInv, TypeOK
<1>3. got[s] > 0
  BY <1>2 DEF IndInv, ReadsRight
<1>4. TypeOK'
  <2>1. sent' \in [Procs -> Infos] /\ remote' \in [Procs -> Infos]
    BY <1>1, <1>2, InfoTypes
  <2> QED
    BY <1>2, <2>1 DEF IndInv, TypeOK, Stages
<1>5. SentRight'
  BY <1>2 DEF IndInv, SentRight, Message
<1>6. ConnsRight'
  BY <1>2 DEF IndInv, ConnsRight, Unconnected
<1>7. ReadsRight'
  <2>1. \A q \in Procs : got[q] > 0 => /\ conn[q] # None /\ conn[conn[q]] = q
                                       /\ sent'[conn[q]] # NoInfo
                                       /\ recvbuf[q] = Prefix(Message(conn[q]), got[q])
    BY <1>1, <1>2, MessageNotEmpty DEF IndInv, ReadsRight, TypeOK
  <2>2. \A t \in Servers : pc'[t] = "send" \/ sent'[t] # NoInfo => got'[t] > 0
    BY <1>2, <1>3 DEF IndInv, ReadsRight, Procs
  <2>3. \A q \in Procs : pc'[q] \in Moving => got'[q] > 0 /\ remote'[q] = recvbuf'[q]
    BY <1>1, <1>2, <1>3 DEF IndInv, ReadsRight, Moving
  <2> QED
    BY <1>2, <2>1, <2>2, <2>3 DEF ReadsRight, Message
<1>8. ContextsRight'
  <2>1. ASSUME NEW q \in Procs
        PROVE  /\ Ready(q)' => SetFromRead(q)'
               /\ pc'[q] \in {"rtr2rts", "traffic"} => Ready(q)'
    BY <1>1, <1>2 DEF IndInv, ContextsRight, Ready, SetFromRead
  <2> QED
    BY <2>1 DEF ContextsRight
<1> QED
  BY <1>4, <1>5, <1>6, <1>7, <1>8 DEF IndInv

LEMMA ClientSendKeeps ==
  ASSUME IndInv, NEW c \in Clients, ClientSend(c)
  PROVE  IndInv'
<1>1. c \in Procs /\ c \notin Servers
  BY ProcsAssumption DEF Procs
<1>2. /\ pc' = [pc EXCEPT ![c] = "read"] /\ pc \in [Procs -> Stages] /\ pc[c] = "send"
      /\ sent' = [sent EXCEPT ![c] = Message(c)] /\ sent \in [Procs -> Infos]
      /\ UNCHANGED <<ethernet, little, backlog, conn, recvbuf, got, remote, qpc, deaths>>
  BY <1>1, SendsMessage DEF ClientSend, Goto, host, IndInv, TypeOK
<1>3. TypeOK'
  <2>1. sent' \in [Procs -> Infos]
    BY <1>1, <1>2, InfoTypes
  <2> QED
    BY <1>2, <2>1 DEF IndInv, TypeOK, Stages
<1>4. SentRight'
  BY <1>2 DEF IndInv, SentRight, Message
<1>5. ConnsRight'
  BY <1>2 DEF IndInv, ConnsRight, Unconnected
<1>6. ReadsRight'
  <2>1. \A q \in Procs : got[q] > 0 => /\ conn[q] # None /\ conn[conn[q]] = q
                                       /\ sent'[conn[q]] # NoInfo
                                       /\ recvbuf[q] = Prefix(Message(conn[q]), got[q])
    BY <1>1, <1>2, MessageNotEmpty DEF IndInv, ReadsRight, TypeOK
  <2>2. \A t \in Servers : pc'[t] = "send" \/ sent'[t] # NoInfo => got'[t] > 0
    BY <1>1, <1>2 DEF IndInv, ReadsRight, Procs
  <2>3. \A q \in Procs : pc'[q] \in Moving => got'[q] > 0 /\ remote'[q] = recvbuf'[q]
    BY <1>1, <1>2 DEF IndInv, ReadsRight, Moving
  <2> QED
    BY <1>2, <2>1, <2>2, <2>3 DEF ReadsRight, Message
<1>7. ContextsRight'
  <2>1. ASSUME NEW q \in Procs
        PROVE  /\ Ready(q)' => SetFromRead(q)'
               /\ pc'[q] \in {"rtr2rts", "traffic"} => Ready(q)'
    BY <1>1, <1>2 DEF IndInv, ContextsRight, Ready, SetFromRead
  <2> QED
    BY <2>1 DEF ContextsRight
<1> QED
  BY <1>3, <1>4, <1>5, <1>6, <1>7 DEF IndInv

(* What a read returns is the beginning of what the other end sent.        *)
LEMMA ArrivedIsMessage ==
  ASSUME IndInv, NEW p \in Procs, Arrived(p)
  PROVE  /\ conn[p] \in Procs /\ conn[p] # None /\ conn[conn[p]] = p
         /\ sent[conn[p]] = Message(conn[p]) /\ sent[conn[p]] # NoInfo
<1>1. conn[p] # None /\ conn[conn[p]] = p /\ sent[conn[p]] # NoInfo
  BY DEF Arrived
<1>2. conn[p] \in Procs
  BY <1>1 DEF IndInv, TypeOK
<1> QED
  BY <1>1, <1>2 DEF IndInv, SentRight

LEMMA ServerReadKeeps ==
  ASSUME IndInv, NEW s \in Servers, NEW n \in Lengths, ServerRead(s, n)
  PROVE  IndInv'
<1> DEFINE b == Prefix(Message(conn[s]), n)
<1>1. s \in Procs
  BY DEF Procs
<1>2. /\ conn[s] \in Procs /\ conn[s] # None /\ conn[conn[s]] = s
      /\ sent[conn[s]] = Message(conn[s]) /\ sent[conn[s]] # NoInfo
  BY <1>1, ArrivedIsMessage DEF ServerRead
<1>3. b \in Infos /\ n \in 0..HalfFields /\ n > 0
  BY <1>2, InfoTypes, LengthRange DEF HalfFields
<1>4. /\ pc' = [pc EXCEPT ![s] = "send"] /\ pc \in [Procs -> Stages] /\ pc[s] = "read"
      /\ recvbuf' = [recvbuf EXCEPT ![s] = b] /\ recvbuf \in [Procs -> Infos]
      /\ got' = [got EXCEPT ![s] = n] /\ got \in [Procs -> 0..HalfFields]
      /\ UNCHANGED <<ethernet, little, backlog, conn, sent, remote, qpc, deaths>>
  BY <1>2 DEF ServerRead, Goto, host, IndInv, TypeOK
<1> HIDE DEF b
<1>5. /\ recvbuf'[s] = b /\ got'[s] = n
      /\ \A q \in Procs : q # s => recvbuf'[q] = recvbuf[q] /\ got'[q] = got[q] /\ pc'[q] = pc[q]
  BY <1>1, <1>4
<1>6. TypeOK'
  BY <1>3, <1>4 DEF IndInv, TypeOK, Stages
<1>7. SentRight'
  BY <1>4 DEF IndInv, SentRight, Message
<1>8. ConnsRight'
  BY <1>4 DEF IndInv, ConnsRight, Unconnected
<1>9. ReadsRight'
  <2>1. \A q \in Procs : got'[q] > 0 => /\ conn[q] # None /\ conn[conn[q]] = q
                                        /\ sent[conn[q]] # NoInfo
                                        /\ recvbuf'[q] = Prefix(Message(conn[q]), got'[q])
    BY <1>2, <1>5 DEF IndInv, ReadsRight, b
  <2>2. \A t \in Servers : pc'[t] = "send" \/ sent'[t] # NoInfo => got'[t] > 0
    BY <1>3, <1>4, <1>5 DEF IndInv, ReadsRight, Procs
  <2>3. \A q \in Procs : pc'[q] \in Moving => got'[q] > 0 /\ remote'[q] = recvbuf'[q]
    BY <1>1, <1>4, <1>5 DEF IndInv, ReadsRight, Moving
  <2> QED
    BY <1>4, <2>1, <2>2, <2>3 DEF ReadsRight, Message
<1>10. ContextsRight'
  <2>1. ASSUME NEW q \in Procs
        PROVE  /\ Ready(q)' => SetFromRead(q)'
               /\ pc'[q] \in {"rtr2rts", "traffic"} => Ready(q)'
    BY <1>1, <1>4, <1>5 DEF IndInv, ContextsRight, Ready, SetFromRead
  <2> QED
    BY <2>1 DEF ContextsRight
<1> QED
  BY <1>6, <1>7, <1>8, <1>9, <1>10 DEF IndInv

LEMMA ClientReadKeeps ==
  ASSUME IndInv, NEW c \in Clients, NEW n \in Lengths, ClientRead(c, n)
  PROVE  IndInv'
<1> DEFINE b == Prefix(Message(conn[c]), n)
<1>1. c \in Procs /\ c \notin Servers
  BY ProcsAssumption DEF Procs
<1>2. /\ conn[c] \in Procs /\ conn[c] # None /\ conn[conn[c]] = c
      /\ sent[conn[c]] = Message(conn[c]) /\ sent[conn[c]] # NoInfo
  BY <1>1, ArrivedIsMessage DEF ClientRead
<1>3. b \in Infos /\ n \in 0..HalfFields /\ n > 0
  BY <1>2, InfoTypes, LengthRange DEF HalfFields
<1>4. Moves(c) \in {"rst2init", "init2rtr"}
  BY DEF Moves
<1>5. /\ pc' = [pc EXCEPT ![c] = Moves(c)] /\ pc \in [Procs -> Stages] /\ pc[c] = "read"
      /\ recvbuf' = [recvbuf EXCEPT ![c] = b] /\ recvbuf \in [Procs -> Infos]
      /\ got' = [got EXCEPT ![c] = n] /\ got \in [Procs -> 0..HalfFields]
      /\ remote' = [remote EXCEPT ![c] = b] /\ remote \in [Procs -> Infos]
      /\ UNCHANGED <<ethernet, little, backlog, conn, sent, qpc, deaths>>
  BY <1>1, <1>2, <1>3, DecodesMessage DEF ClientRead, Goto, host, IndInv, TypeOK
<1> HIDE DEF b
<1>6. /\ recvbuf'[c] = b /\ got'[c] = n /\ remote'[c] = b /\ pc'[c] = Moves(c)
      /\ \A q \in Procs : q # c => /\ recvbuf'[q] = recvbuf[q] /\ got'[q] = got[q]
                                   /\ remote'[q] = remote[q] /\ pc'[q] = pc[q]
  BY <1>1, <1>5
<1>7. TypeOK'
  BY <1>3, <1>4, <1>5 DEF IndInv, TypeOK, Stages
<1>8. SentRight'
  BY <1>5 DEF IndInv, SentRight, Message
<1>9. ConnsRight'
  BY <1>4, <1>5 DEF IndInv, ConnsRight, Unconnected
<1>10. ReadsRight'
  <2>1. \A q \in Procs : got'[q] > 0 => /\ conn[q] # None /\ conn[conn[q]] = q
                                        /\ sent[conn[q]] # NoInfo
                                        /\ recvbuf'[q] = Prefix(Message(conn[q]), got'[q])
    BY <1>2, <1>6 DEF IndInv, ReadsRight, b
  <2>2. \A t \in Servers : pc'[t] = "send" \/ sent'[t] # NoInfo => got'[t] > 0
    BY <1>1, <1>5, <1>6 DEF IndInv, ReadsRight, Procs
  <2>3. \A q \in Procs : pc'[q] \in Moving => got'[q] > 0 /\ remote'[q] = recvbuf'[q]
    BY <1>3, <1>6 DEF IndInv, ReadsRight
  <2> QED
    BY <1>5, <2>1, <2>2, <2>3 DEF ReadsRight, Message
<1>11. ContextsRight'
  <2>1. ASSUME NEW q \in Procs
        PROVE  /\ Ready(q)' => SetFromRead(q)'
               /\ pc'[q] \in {"rtr2rts", "traffic"} => Ready(q)'
    BY <1>4, <1>5, <1>6 DEF IndInv, ContextsRight, Ready, SetFromRead
  <2> QED
    BY <2>1 DEF ContextsRight
<1> QED
  BY <1>7, <1>8, <1>9, <1>10, <1>11 DEF IndInv

(***************************************************************************)
(* The moves of the queue pair.                                            *)
(***************************************************************************)
LEMMA MoveKeeps ==
  ASSUME IndInv, NEW p \in Procs, Rst2Init(p) \/ Init2Rtr(p) \/ Rtr2Rts(p)
  PROVE  IndInv'
<1> DEFINE Contexts == [state : {"none", "reset", "init", "rtr", "rts"}, remote_qpn : Words,
                        next_rcv_psn : Words, path : Words, next_send_psn : Words]
<1>1. /\ qpc \in [Procs -> Contexts] /\ pc \in [Procs -> Stages] /\ remote[p] \in Infos
      /\ UNCHANGED <<ethernet, little, backlog, conn, sent, recvbuf, got, remote, deaths>>
  BY DEF Rst2Init, Init2Rtr, Rtr2Rts, host, IndInv, TypeOK
<1>2. PICK x \in Contexts, stage \in {"init2rtr", "rtr2rts", "traffic"} :
        /\ qpc' = [qpc EXCEPT ![p] = x] /\ pc' = [pc EXCEPT ![p] = stage]
        /\ pc[p] \in Moving
        /\ stage = "init2rtr" => x.state = "init"
        /\ stage \in {"rtr2rts", "traffic"} =>
             /\ x.state \in {"rtr", "rts"}
             /\ x.remote_qpn = remote[p]["qpn"] /\ x.next_rcv_psn = remote[p]["psn"]
             /\ x.path = remote[p][IF ethernet THEN "gid" ELSE "lid"]
             /\ x.state = "rts" => x.next_send_psn = Word(p, "psn")
  <2>1. CASE Rst2Init(p)
    <3> DEFINE x == [qpc[p] EXCEPT !.state = "init"]
    <3>1. x \in Contexts /\ x.state = "init"
      BY <1>1
    <3>2. qpc' = [qpc EXCEPT ![p] = x] /\ pc' = [pc EXCEPT ![p] = "init2rtr"] /\ pc[p] \in Moving
      BY <1>1, <2>1 DEF Rst2Init, Goto, Moving
    <3> QED
      BY <3>1, <3>2
  <2>2. CASE Init2Rtr(p)
    <3> DEFINE path == IF ethernet THEN remote[p]["gid"] ELSE remote[p]["lid"]
               x == [qpc[p] EXCEPT !.state = "rtr", !.remote_qpn = remote[p]["qpn"],
                       !.next_rcv_psn = remote[p]["psn"], !.path = path]
    <3>0. /\ qpc[p] \in Contexts /\ remote[p]["qpn"] \in Words /\ remote[p]["psn"] \in Words
          /\ path \in Words /\ path = remote[p][IF ethernet THEN "gid" ELSE "lid"]
      BY <1>1 DEF Infos, Fields
    <3> HIDE DEF path
    <3>1. x \in Contexts
      BY <3>0
    <3>2. /\ x.state = "rtr" /\ x.remote_qpn = remote[p]["qpn"] /\ x.next_rcv_psn = remote[p]["psn"]
          /\ x.path = remote[p][IF ethernet THEN "gid" ELSE "lid"]
      BY <3>0
    <3>3. qpc' = [qpc EXCEPT ![p] = x] /\ pc' = [pc EXCEPT ![p] = "rtr2rts"] /\ pc[p] \in Moving
      BY <1>1, <2>2 DEF Init2Rtr, Goto, Moving, path
    <3> HIDE DEF x
    <3> QED
      BY <3>1, <3>2, <3>3
  <2>3. CASE Rtr2Rts(p)
    <3> DEFINE x == [qpc[p] EXCEPT !.state = "rts", !.next_send_psn = Word(p, "psn")]
    <3>0. qpc[p] \in Contexts /\ Word(p, "psn") \in Words
      BY <1>1, WordTypes DEF Fields
    <3>1. x \in Contexts
      BY <3>0
    <3>2. Ready(p) /\ SetFromRead(p)
      BY <2>3 DEF Rtr2Rts, IndInv, ContextsRight
    <3>3. /\ x.state = "rts" /\ x.remote_qpn = remote[p]["qpn"]
          /\ x.next_rcv_psn = remote[p]["psn"] /\ x.next_send_psn = Word(p, "psn")
          /\ x.path = remote[p][IF ethernet THEN "gid" ELSE "lid"]
      BY <1>1, <3>2 DEF SetFromRead
    <3>4. qpc' = [qpc EXCEPT ![p] = x] /\ pc' = [pc EXCEPT ![p] = "traffic"] /\ pc[p] \in Moving
      BY <1>1, <2>3 DEF Rtr2Rts, Goto, Moving
    <3> HIDE DEF x
    <3> QED
      BY <3>1, <3>3, <3>4
  <2> QED
    BY <2>1, <2>2, <2>3
<1>3. /\ qpc'[p] = x /\ pc'[p] = stage
      /\ \A q \in Procs : q # p => qpc'[q] = qpc[q] /\ pc'[q] = pc[q]
  BY <1>1, <1>2
<1>4. got[p] > 0 /\ remote[p] = recvbuf[p]
  BY <1>2 DEF IndInv, ReadsRight
<1>5. TypeOK'
  <2>1. qpc' \in [Procs -> Contexts] /\ pc' \in [Procs -> Stages]
    BY <1>1, <1>2 DEF Stages
  <2> QED
    BY <1>1, <2>1 DEF IndInv, TypeOK
<1>6. SentRight'
  BY <1>1 DEF IndInv, SentRight, Message
<1>7. ConnsRight'
  BY <1>1, <1>3 DEF IndInv, ConnsRight, Unconnected
<1>8. ReadsRight'
  <2>1. \A t \in Servers : pc'[t] = "send" \/ sent'[t] # NoInfo => got'[t] > 0
    BY <1>1, <1>3 DEF IndInv, ReadsRight, Procs
  <2>2. \A q \in Procs : pc'[q] \in Moving => got'[q] > 0 /\ remote'[q] = recvbuf'[q]
    BY <1>1, <1>3, <1>4 DEF IndInv, ReadsRight
  <2> QED
    BY <1>1, <2>1, <2>2 DEF IndInv, ReadsRight, Message
<1>9. ContextsRight'
  <2>1. ASSUME NEW q \in Procs, q # p
        PROVE  /\ Ready(q)' => SetFromRead(q)'
               /\ pc'[q] \in {"rtr2rts", "traffic"} => Ready(q)'
    BY <1>1, <1>3, <2>1 DEF IndInv, ContextsRight, Ready, SetFromRead
  <2>2. Ready(p)' => stage \in {"rtr2rts", "traffic"}
    BY <1>2, <1>3 DEF Ready
  <2>3. stage \in {"rtr2rts", "traffic"} => Ready(p)' /\ SetFromRead(p)'
    BY <1>1, <1>2, <1>3, <1>4 DEF Ready, SetFromRead
  <2> QED
    BY <1>3, <2>1, <2>2, <2>3 DEF ContextsRight
<1> QED
  BY <1>5, <1>6, <1>7, <1>8, <1>9 DEF IndInv

------------------------------------------------------------------------------
LEMMA InitHolds == Init => IndInv
<1> SUFFICES ASSUME Init
             PROVE  IndInv
  OBVIOUS
<1> USE DEF Init
<1>1. TypeOK
  <2>1. sent \in [Procs -> Infos] /\ recvbuf \in [Procs -> Infos] /\ remote \in [Procs -> Infos]
    BY InfoTypes
  <2>2. qpc \in [Procs -> [state : {"none", "reset", "init", "rtr", "rts"}, remote_qpn : Words,
                  next_rcv_psn : Words, path : Words, next_send_psn : Words]]
    BY WordTypes DEF NoContext
  <2>3. /\ pc \in [Procs -> Stages] /\ conn \in [Procs -> Procs \cup {None}]
        /\ \A p \in Procs : conn[p] = None
        /\ backlog \in [Servers -> Seq(Clients)]
    BY DEF Stages
  <2>4. got \in [Procs -> 0..HalfFields] /\ deaths \in 0..MaxDeaths
    BY BoundAssumption DEF HalfFields
  <2> QED
    BY <2>1, <2>2, <2>3, <2>4 DEF TypeOK, Procs
<1>2. SentRight
  BY DEF SentRight
<1>3. ConnsRight
  BY DEF ConnsRight, Procs
<1>4. ReadsRight
  BY DEF ReadsRight, Moving, Procs
<1>5. ContextsRight
  BY DEF ContextsRight, Ready, NoContext
<1> QED
  BY <1>1, <1>2, <1>3, <1>4, <1>5 DEF IndInv

LEMMA NextKeeps == IndInv /\ [Next]_vars => IndInv'
<1> SUFFICES ASSUME IndInv, [Next]_vars
             PROVE  IndInv'
  OBVIOUS
<1>t. deaths \in 0..MaxDeaths
  BY DEF IndInv, TypeOK
<1> DEFINE Ends(p, stage) ==
             /\ Goto(p, stage) /\ stage \in {"listen", "accept", "connect", "exited"}
             /\ stage \in Unconnected => pc[p] \in Unconnected
             /\ UNCHANGED <<host, backlog, conn, sent, recvbuf, got, remote, qpc>>
             /\ deaths' \in 0..MaxDeaths
<1>1. ASSUME NEW p \in Procs, NEW stage, Ends(p, stage)
      PROVE  IndInv'
  BY <1>1, GotoKeeps DEF Stages
<1>2. ASSUME NEW s \in Servers, ServerStep(s)
      PROVE  IndInv'
  <2>1. CASE Listen(s)
    <3>1. s \in Procs /\ Ends(s, "accept")
      BY <1>t, <2>1 DEF Listen, Procs, Unconnected
    <3> QED
      BY <1>1, <3>1
  <2> QED
    BY <1>2, <2>1, AcceptKeeps, ServerSendKeeps, ServerReadKeeps DEF ServerStep
<1>3. ASSUME NEW c \in Clients, ClientStep(c)
      PROVE  IndInv'
  <2>1. CASE Refused(c)
    <3>1. c \in Procs /\ Ends(c, "exited")
      BY <1>t, <2>1 DEF Refused, Procs, Unconnected
    <3> QED
      BY <1>1, <3>1
  <2> QED
    BY <1>3, <2>1, ConnectKeeps, ClientSendKeeps, ClientReadKeeps DEF ClientStep
<1>4. ASSUME NEW p \in Procs, Step(p) \/ Leave(p) \/ Die(p)
      PROVE  IndInv'
  <2>1. CASE PeerGone(p)
    <3>1. Ends(p, "exited")
      BY <1>t, <2>1 DEF PeerGone, Unconnected
    <3> QED
      BY <1>1, <3>1
  <2>2. CASE Leave(p)
    <3>1. Ends(p, "exited")
      BY <1>t, <2>2 DEF Leave, Unconnected
    <3> QED
      BY <1>1, <3>1
  <2>3. CASE Die(p)
    <3>1. deaths' \in 0..MaxDeaths
      <4>1. deaths < MaxDeaths /\ deaths' = deaths + 1
        BY <2>3 DEF Die
      <4> QED
        BY ONLY <1>t, <4>1, BoundAssumption
    <3>2. Ends(p, "exited")
      BY <2>3, <3>1 DEF Die, Unconnected
    <3> QED
      BY <1>1, <3>2
  <2> QED
    BY <1>4, <2>1, <2>2, <2>3, PrepareKeeps, MoveKeeps DEF Step
<1>5. CASE UNCHANGED vars
  BY <1>5 DEF vars, IndInv, TypeOK, SentRight, ConnsRight, ReadsRight, ContextsRight,
              Message, SetFromRead, Ready
<1> QED
  BY <1>2, <1>3, <1>4, <1>5 DEF Next

------------------------------------------------------------------------------
(* The inductive invariant holds in every reachable state: what is sent is *)
(* the same bytes from either byte order, both ends of a connection agree  *)
(* who they are, and a queue pair is set from what its program read.       *)
THEOREM Invariance == Spec => []IndInv
  BY InitHolds, NextKeeps, PTL DEF Spec

(* Every variable keeps its type.                                          *)
THEOREM TypeCorrect == Spec => []TypeOK
  BY Invariance, PTL DEF IndInv

(* After a whole read a queue pair is set to its own peer.                 *)
THEOREM PairsRight == Spec => []Paired
<1>1. ASSUME IndInv
      PROVE  Paired
  <2> SUFFICES ASSUME NEW p \in Procs, Ready(p), Whole(p)
               PROVE  Paired!(p)!2
    BY DEF Paired
  <2> DEFINE q == conn[p]
  <2>1. SetFromRead(p)
    BY <1>1 DEF IndInv, ContextsRight
  <2>2. q # None /\ conn[q] = p /\ recvbuf[p] = Prefix(Message(q), HalfFields)
    BY <1>1, <2>1 DEF IndInv, ReadsRight, SetFromRead, Whole
  <2>3. q \in Procs
    BY <1>1, <2>2 DEF IndInv, TypeOK
  <2>4. recvbuf[p] = Message(q) /\ remote[p] = Message(q)
    BY <2>1, <2>2, <2>3, InfoTypes, PrefixWhole DEF SetFromRead
  <2>5. /\ Message(q)["qpn"] = Word(q, "qpn") /\ Message(q)["psn"] = Word(q, "psn")
        /\ Message(q)["addr"] = Word(q, "addr") /\ Message(q)["mrkey"] = Word(q, "mrkey")
        /\ Message(q)[IF ethernet THEN "gid" ELSE "lid"] = Word(q, IF ethernet THEN "gid" ELSE "lid")
    BY DEF Message, Fields
  <2>6. qpc[q].state = "rts" => qpc[q].next_send_psn = Word(q, "psn")
    BY <1>1, <2>3 DEF IndInv, ContextsRight, Ready, SetFromRead
  <2> HIDE DEF q
  <2>7. /\ qpc[p].remote_qpn = Word(q, "qpn") /\ qpc[p].next_rcv_psn = Word(q, "psn")
        /\ qpc[p].path = Word(q, IF ethernet THEN "gid" ELSE "lid")
        /\ remote[p]["addr"] = Word(q, "addr") /\ remote[p]["mrkey"] = Word(q, "mrkey")
    BY <2>1, <2>4, <2>5 DEF SetFromRead
  <2> QED
    BY <2>2, <2>6, <2>7 DEF q
<1> QED
  BY <1>1, Invariance, PTL

(* No two queue pairs are set to one peer, and a client that is ready has  *)
(* a server that has read from it.                                         *)
THEOREM PeersUnique == Spec => []OnePeer
<1>1. ASSUME IndInv
      PROVE  OnePeer
  <2>1. ASSUME NEW p \in Procs, Ready(p)
        PROVE  /\ conn[p] \in Procs /\ conn[conn[p]] = p
               /\ qpc[p].remote_qpn \in {Zero, Torn, Word(conn[p], "qpn")}
    <3>1. SetFromRead(p) /\ got[p] \in Nat
      BY <1>1, <2>1 DEF IndInv, ContextsRight, TypeOK, HalfFields
    <3>2. /\ conn[p] \in Procs /\ conn[conn[p]] = p
          /\ qpc[p].remote_qpn = Prefix(Message(conn[p]), got[p])["qpn"]
      BY <1>1, <3>1 DEF IndInv, ReadsRight, TypeOK, SetFromRead
    <3>3. Message(conn[p])["qpn"] = Word(conn[p], "qpn")
      BY DEF Message, Fields
    <3>4. Prefix(Message(conn[p]), got[p])["qpn"] \in {Zero, Torn, Message(conn[p])["qpn"]}
      BY DEF Prefix, Fields
    <3> QED
      BY <3>2, <3>3, <3>4
  <2>2. ASSUME NEW p \in Procs, NEW q \in Procs, Ready(p), Ready(q), p # q,
               qpc[p].remote_qpn = qpc[q].remote_qpn
        PROVE  qpc[p].remote_qpn \in {Zero, Torn}
    <3>1. SUFFICES ASSUME qpc[p].remote_qpn \notin {Zero, Torn}
                   PROVE  FALSE
      OBVIOUS
    <3>2. Word(conn[p], "qpn") = Word(conn[q], "qpn")
      BY <2>1, <2>2, <3>1
    <3>3. conn[p] = conn[q]
      BY <2>1, <2>2, <3>2, WordTypes DEF Fields
    <3> QED
      BY <2>1, <2>2, <3>3
  <2>3. ASSUME NEW c \in Clients, Ready(c)
        PROVE  conn[conn[c]] = c /\ got[conn[c]] > 0
    <3>1. c \in Procs /\ conn[c] \in Procs /\ conn[conn[c]] = c
      BY <2>1, <2>3 DEF Procs
    <3>2. conn[c] \in Servers
      BY <1>1, <3>1, ProcsAssumption DEF IndInv, TypeOK
    <3> QED
      BY <1>1, <2>3, <3>1, <3>2 DEF IndInv, ReadsRight, ContextsRight, SetFromRead
  <2> QED
    BY <2>2, <2>3 DEF OnePeer
<1> QED
  BY <1>1, Invariance, PTL
=============================================================================
