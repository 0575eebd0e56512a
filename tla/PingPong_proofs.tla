-------------------------- MODULE PingPong_proofs --------------------------
(***************************************************************************)
(* Theorems about PingPong, for every number of messages, every client,    *)
(* every limit of the retries and every number of faults; however short    *)
(* the sleeps, but for PongsAreWhole, which is about sleeps that suffice.  *)
(***************************************************************************)
EXTENDS PingPong, TLAPS

(***************************************************************************)
(* The inductive invariant.                                                *)
(***************************************************************************)
Entry == [kind : {"send", "recv"}, ok : BOOLEAN]

Types ==
  /\ pc \in [Sides -> Stages] /\ qp \in [Sides -> {"init", "rts", "err", "gone"}]
  /\ cq \in [Sides -> Seq(Entry)] /\ ncomp \in [Sides -> 0..N-1]
  /\ posted \in [Sides -> {0, N}] /\ recvs \in [Sides -> {0, N}]
  /\ delivered \in [Sides -> Nat] /\ acked \in [Sides -> Nat]
  /\ rnr \in [Sides -> 0..RnrRetry] /\ faults \in 0..MaxFaults /\ body \in BOOLEAN
  /\ buf \in [Sides -> [Msgs -> {"junk", "ping", "cut", "zero"}]]
  /\ got \in [Msgs -> {"junk", "ping", "cut", "zero", "torn"}]

(* The stages after the sends, and after the receives, were posted.        *)
SendsPosted(s) == IF s = "client" THEN {"pollSend", "reset", "recv", "pollRecv", "done"}
                                  ELSE {"pollSend", "done"}
RecvsPosted(s) == IF s = "client" THEN {"pollRecv", "done"}
                                  ELSE {"pollRecv", "nap", "send", "pollSend", "done"}

(* What is on the wire, against what the programs have posted.             *)
WireRight(s) ==
  /\ acked[s] <= delivered[s] /\ delivered[s] <= posted[s] /\ delivered[s] <= recvs[Peer(s)]
  /\ pc[s] # "failed" => /\ posted[s] = IF pc[s] \in SendsPosted(s) THEN N ELSE 0
                         /\ recvs[s] = IF pc[s] \in RecvsPosted(s) THEN N ELSE 0
  /\ qp[s] = "init" <=> pc[s] = "connect"
  /\ qp[s] = "gone" => Finished(s)
  /\ qp[s] = "err" => posted[s] = N

(* Completions generated so far, successful or not; and successful.        *)
Generated(s, kind) ==
  IF kind = "send" THEN (IF qp[s] = "err" THEN posted[s] ELSE acked[s])
                   ELSE (IF qp[s] = "err" THEN recvs[s] ELSE delivered[Peer(s)])
Successful(s, kind) == IF kind = "send" THEN acked[s] ELSE delivered[Peer(s)]

(* The client's first loop counts sends and the server's receives.         *)
First(s)  == IF s = "client" THEN "send" ELSE "recv"
Second(s) == IF s = "client" THEN "recv" ELSE "send"
InSecond(s) == pc[s] \in IF s = "client" THEN {"reset", "recv", "pollRecv"}
                                         ELSE {"nap", "send", "pollSend"}
Kind(s) == IF InSecond(s) THEN Second(s) ELSE First(s)

(* What a loop has counted and what the completion queue holds make up the *)
(* completions of the loop's kind; the first loop left none behind.  Of a  *)
(* program that checks, all that were counted were successful.             *)
LoopRight(s) ==
  ~Finished(s) =>
    /\ Len(cq[s]) + ncomp[s] = Generated(s, Kind(s))
    /\ \A i \in 1..Len(cq[s]) :
         cq[s][i].kind = Kind(s) /\ (cq[s][i].ok => ncomp[s] + i <= Successful(s, Kind(s)))
    /\ Checks(s) => ncomp[s] <= Successful(s, Kind(s))
    /\ pc[s] \notin {"pollSend", "pollRecv"} => ncomp[s] = 0
    /\ InSecond(s) => /\ Generated(s, First(s)) = N
                      /\ Checks(s) => Successful(s, First(s)) = N

EndRight(s) == pc[s] = "done" /\ Checks(s) => acked[s] = N /\ delivered[Peer(s)] = N

SideRight(s) == WireRight(s) /\ LoopRight(s) /\ EndRight(s)
IndInv == Types /\ \A s \in Sides : SideRight(s)

------------------------------------------------------------------------------
(***************************************************************************)
(* The programs, and lists of flushed requests.                            *)
(***************************************************************************)
LEMMA PeerFacts == \A s \in Sides : Peer(s) \in Sides /\ Peer(s) # s /\ Peer(Peer(s)) = s
                                    /\ (\A t \in Sides : t = s \/ t = Peer(s))
  BY DEF Sides, Peer

LEMMA ProgramIs == Program = [client |-> DvProgram, server |-> ServerProgram]
  BY KindAssumption DEF Program, ClientProgram, VerbProgram, VfioProgram, DvProgram

LEMMA ClientAfter ==
  /\ After("client", "connect") = "nap" /\ After("client", "nap") = "send"
  /\ After("client", "send") = "pollSend" /\ After("client", "pollSend") = "reset"
  /\ After("client", "reset") = "recv" /\ After("client", "recv") = "pollRecv"
  /\ After("client", "pollRecv") = "done"
<1> DEFINE P == Program["client"]
<1>1. /\ P[1] = "connect" /\ P[2] = "nap" /\ P[3] = "send" /\ P[4] = "pollSend"
      /\ P[5] = "reset" /\ P[6] = "recv" /\ P[7] = "pollRecv" /\ P[8] = "done"
  BY ProgramIs DEF DvProgram
<1>2. \A i \in 1..7 : i = 1 \/ i = 2 \/ i = 3 \/ i = 4 \/ i = 5 \/ i = 6 \/ i = 7
  OBVIOUS
<1>3. \A x : After("client", x) = P[(CHOOSE i \in 1..7 : P[i] = x) + 1]
  BY DEF After
<1> HIDE DEF P
<1>4. /\ \A i \in 1..7 : P[i] = "connect" <=> i = 1
      /\ \A i \in 1..7 : P[i] = "nap" <=> i = 2
      /\ \A i \in 1..7 : P[i] = "send" <=> i = 3
      /\ \A i \in 1..7 : P[i] = "pollSend" <=> i = 4
      /\ \A i \in 1..7 : P[i] = "reset" <=> i = 5
      /\ \A i \in 1..7 : P[i] = "recv" <=> i = 6
      /\ \A i \in 1..7 : P[i] = "pollRecv" <=> i = 7
  BY <1>1, <1>2
<1>5. ASSUME NEW x, NEW k \in 1..7, \A i \in 1..7 : P[i] = x <=> i = k
      PROVE  (CHOOSE i \in 1..7 : P[i] = x) = k
  BY <1>5
<1> QED
  BY <1>1, <1>3, <1>4, <1>5

LEMMA ServerAfter ==
  /\ After("server", "connect") = "reset" /\ After("server", "reset") = "recv"
  /\ After("server", "recv") = "pollRecv" /\ After("server", "pollRecv") = "nap"
  /\ After("server", "nap") = "send" /\ After("server", "send") = "pollSend"
  /\ After("server", "pollSend") = "done"
<1> DEFINE P == Program["server"]
<1>1. /\ P[1] = "connect" /\ P[2] = "reset" /\ P[3] = "recv" /\ P[4] = "pollRecv"
      /\ P[5] = "nap" /\ P[6] = "send" /\ P[7] = "pollSend" /\ P[8] = "done"
  BY ProgramIs DEF ServerProgram
<1>2. \A i \in 1..7 : i = 1 \/ i = 2 \/ i = 3 \/ i = 4 \/ i = 5 \/ i = 6 \/ i = 7
  OBVIOUS
<1>3. \A x : After("server", x) = P[(CHOOSE i \in 1..7 : P[i] = x) + 1]
  BY DEF After
<1> HIDE DEF P
<1>4. /\ \A i \in 1..7 : P[i] = "connect" <=> i = 1
      /\ \A i \in 1..7 : P[i] = "reset" <=> i = 2
      /\ \A i \in 1..7 : P[i] = "recv" <=> i = 3
      /\ \A i \in 1..7 : P[i] = "pollRecv" <=> i = 4
      /\ \A i \in 1..7 : P[i] = "nap" <=> i = 5
      /\ \A i \in 1..7 : P[i] = "send" <=> i = 6
      /\ \A i \in 1..7 : P[i] = "pollSend" <=> i = 7
  BY <1>1, <1>2
<1>5. ASSUME NEW x, NEW k \in 1..7, \A i \in 1..7 : P[i] = x <=> i = k
      PROVE  (CHOOSE i \in 1..7 : P[i] = x) = k
  BY <1>5
<1> QED
  BY <1>1, <1>3, <1>4, <1>5

LEMMA EntriesFacts ==
  ASSUME NEW n \in Nat, NEW kind \in {"send", "recv"}, NEW ok \in BOOLEAN
  PROVE  /\ Entries(n, kind, ok) \in Seq(Entry) /\ Len(Entries(n, kind, ok)) = n
         /\ \A i \in 1..n : Entries(n, kind, ok)[i] = [kind |-> kind, ok |-> ok]
  BY DEF Entries, Entry

(* A step of one side that leaves the other's variables alone.             *)
LEMMA Undisturbed ==
  ASSUME NEW s \in Sides, SideRight(s),
         pc'[s] = pc[s], qp'[s] = qp[s], cq'[s] = cq[s], ncomp'[s] = ncomp[s],
         posted'[s] = posted[s], recvs'[s] = recvs[s], acked'[s] = acked[s],
         delivered'[s] = delivered[s], delivered'[Peer(s)] = delivered[Peer(s)],
         recvs'[Peer(s)] \in {recvs[Peer(s)], N},
         posted[s] \in {0, N}, delivered[s] \in Nat, N \in Nat
  PROVE  SideRight(s)'
<1>1. WireRight(s)'
  BY DEF SideRight, WireRight, Finished
<1>2. LoopRight(s)'
  BY DEF SideRight, LoopRight, Finished, Generated, Successful, InSecond, Kind
<1>3. EndRight(s)'
  BY DEF SideRight, EndRight
<1> QED
  BY <1>1, <1>2, <1>3 DEF SideRight

LEMMA SideFacts ==
  ASSUME IndInv, NEW s \in Sides
  PROVE  /\ N \in Nat \ {0} /\ Peer(s) \in Sides /\ SideRight(s)
         /\ pc[s] \in Stages /\ qp[s] \in {"init", "rts", "err", "gone"}
         /\ cq[s] \in Seq(Entry) /\ Len(cq[s]) \in Nat /\ ncomp[s] \in Nat /\ ncomp[s] < N
         /\ posted[s] \in {0, N} /\ recvs[s] \in {0, N} /\ recvs[Peer(s)] \in {0, N}
         /\ delivered[s] \in Nat /\ delivered[Peer(s)] \in Nat /\ acked[s] \in Nat
         /\ delivered[Peer(s)] <= recvs[s]
<1>1. N \in Nat \ {0} /\ Peer(s) \in Sides /\ Types /\ SideRight(s) /\ SideRight(Peer(s))
      /\ Peer(Peer(s)) = s
  BY NAssumption, PeerFacts DEF IndInv
<1>2. ncomp[s] \in 0..N-1 /\ cq[s] \in Seq(Entry)
  BY <1>1 DEF Types
<1>3. delivered[Peer(s)] <= recvs[s]
  BY <1>1 DEF SideRight, WireRight
<1> QED
  BY <1>1, <1>2, <1>3 DEF Types

(***************************************************************************)
(* The programs.                                                           *)
(***************************************************************************)

(* A step that posts nothing and counts nothing.                           *)
LEMMA QuietKeeps ==
  ASSUME IndInv, NEW s \in Sides, NEW stage \in Stages,
         pc' = [pc EXCEPT ![s] = stage],
         <<pc[s], stage>> \in IF s = "client"
           THEN {<<"connect", "nap">>, <<"nap", "send">>, <<"reset", "recv">>}
           ELSE {<<"connect", "reset">>, <<"reset", "recv">>, <<"nap", "send">>},
         qp' = IF pc[s] = "connect" THEN [qp EXCEPT ![s] = "rts"] ELSE qp,
         UNCHANGED <<cq, ncomp, wireVars>>
  PROVE  \A t \in Sides : SideRight(t)'
<1> USE DEF wireVars
<1>1. pc \in [Sides -> Stages] /\ qp \in [Sides -> {"init", "rts", "err", "gone"}]
  BY DEF IndInv, Types
<1>2. WireRight(s) /\ LoopRight(s) /\ ~Finished(s) /\ pc'[s] = stage /\ stage \notin {"done", "failed"}
  BY <1>1, SideFacts DEF SideRight, Finished
<1>3. qp'[s] = IF pc[s] = "connect" THEN "rts" ELSE qp[s]
  BY <1>1
<1>4. WireRight(s)'
  BY <1>2, <1>3, SideFacts DEF WireRight, SendsPosted, RecvsPosted, Finished, Sides
<1>5. Kind(s)' = Kind(s) /\ (InSecond(s)' => InSecond(s))
  BY <1>2 DEF Kind, InSecond, First, Second, Sides
<1>6. \A kind : Generated(s, kind)' = Generated(s, kind) /\ Successful(s, kind)' = Successful(s, kind)
  BY <1>2, <1>3 DEF Generated, Successful, WireRight
<1>7. LoopRight(s)'
  BY <1>2, <1>5, <1>6 DEF LoopRight
<1>8. SideRight(s)'
  BY <1>2, <1>4, <1>7 DEF SideRight, EndRight
<1>9. SideRight(Peer(s))'
  <2>1. Peer(s) \in Sides /\ Peer(s) # s
    BY PeerFacts
  <2>2. pc'[Peer(s)] = pc[Peer(s)] /\ qp'[Peer(s)] = qp[Peer(s)]
    BY <1>1, <2>1
  <2> QED
    BY <2>1, <2>2, SideFacts, Undisturbed
<1> QED
  BY <1>8, <1>9, PeerFacts

LEMMA ConnectKeeps ==
  ASSUME IndInv, NEW s \in Sides, Connect(s)
  PROVE  IndInv'
<1> DEFINE stage == After(s, "connect")
<1>1. /\ pc[s] = "connect" /\ pc' = [pc EXCEPT ![s] = stage] /\ qp' = [qp EXCEPT ![s] = "rts"]
      /\ UNCHANGED <<cq, ncomp, wireVars, buf, got>>
  BY DEF Connect, Advance
<1>2. stage = IF s = "client" THEN "nap" ELSE "reset"
  BY ClientAfter, ServerAfter DEF Sides
<1> HIDE DEF stage
<1>3. stage \in Stages /\ \A t \in Sides : SideRight(t)'
  BY <1>1, <1>2, QuietKeeps DEF Stages
<1>4. Types'
  BY <1>1, <1>3 DEF IndInv, Types, wireVars
<1> QED
  BY <1>3, <1>4 DEF IndInv

LEMMA NapKeeps ==
  ASSUME IndInv, NEW s \in Sides, Nap(s)
  PROVE  IndInv'
<1> DEFINE stage == After(s, "nap")
<1>1. /\ pc[s] = "nap" /\ pc' = [pc EXCEPT ![s] = stage]
      /\ UNCHANGED <<qp, cq, ncomp, wireVars, buf, got>>
  BY DEF Nap, Advance
<1>2. stage = "send"
  BY ClientAfter, ServerAfter DEF Sides
<1> HIDE DEF stage
<1>3. stage \in Stages /\ \A t \in Sides : SideRight(t)'
  BY <1>1, <1>2, QuietKeeps DEF Stages
<1>4. Types'
  BY <1>1, <1>3 DEF IndInv, Types, wireVars
<1> QED
  BY <1>3, <1>4 DEF IndInv

LEMMA ResetKeeps ==
  ASSUME IndInv, NEW s \in Sides, Reset(s)
  PROVE  IndInv'
<1> DEFINE stage == After(s, "reset")
<1>1. /\ pc[s] = "reset" /\ pc' = [pc EXCEPT ![s] = stage]
      /\ buf' = [buf EXCEPT ![s] = [i \in Msgs |-> "zero"]]
      /\ UNCHANGED <<qp, cq, ncomp, wireVars, got>>
  BY DEF Reset, Advance
<1>2. stage = "recv"
  BY ClientAfter, ServerAfter DEF Sides
<1> HIDE DEF stage
<1>3. stage \in Stages /\ \A t \in Sides : SideRight(t)'
  BY <1>1, <1>2, QuietKeeps DEF Stages
<1>4. buf' \in [Sides -> [Msgs -> {"junk", "ping", "cut", "zero"}]]
  BY <1>1 DEF IndInv, Types
<1>5. Types'
  BY <1>1, <1>3, <1>4 DEF IndInv, Types, wireVars
<1> QED
  BY <1>3, <1>5 DEF IndInv

LEMMA PostSendKeeps ==
  ASSUME IndInv, NEW s \in Sides, PostSend(s)
  PROVE  IndInv'
<1>1. /\ pc[s] = "send" /\ pc' = [pc EXCEPT ![s] = "pollSend"]
      /\ posted' = [posted EXCEPT ![s] = N]
      /\ buf' = IF s = "client" THEN [buf EXCEPT ![s] = [i \in Msgs |-> "ping"]] ELSE buf
      /\ UNCHANGED <<qp, cq, ncomp, recvs, delivered, acked, rnr, faults, body, got>>
  BY ClientAfter, ServerAfter DEF PostSend, Advance, Sides
<1>2. /\ pc \in [Sides -> Stages] /\ posted \in [Sides -> {0, N}]
      /\ pc'[s] = "pollSend" /\ posted'[s] = N /\ posted[s] = 0 /\ qp[s] # "err" /\ ~Finished(s)
  BY <1>1, SideFacts DEF IndInv, Types, SideRight, WireRight, SendsPosted, Finished
<1>3. WireRight(s)'
  BY <1>1, <1>2, SideFacts DEF SideRight, WireRight, SendsPosted, RecvsPosted, Finished, Sides
<1>4. Kind(s)' = Kind(s) /\ (InSecond(s)' => InSecond(s))
  BY <1>1, <1>2 DEF Kind, InSecond, First, Second, Sides
<1>5. \A kind : Generated(s, kind)' = Generated(s, kind) /\ Successful(s, kind)' = Successful(s, kind)
  BY <1>1, <1>2 DEF Generated, Successful
<1>6. LoopRight(s)'
  BY <1>1, <1>2, <1>4, <1>5, SideFacts DEF SideRight, LoopRight
<1>7. SideRight(s)'
  BY <1>2, <1>3, <1>6 DEF SideRight, EndRight
<1>8. SideRight(Peer(s))'
  <2>1. Peer(s) \in Sides /\ Peer(s) # s
    BY PeerFacts
  <2>2. pc'[Peer(s)] = pc[Peer(s)] /\ posted'[Peer(s)] = posted[Peer(s)]
    BY <1>1, <1>2, <2>1
  <2> QED
    BY <1>1, <2>1, <2>2, SideFacts, Undisturbed
<1>9. Types'
  <2>1. buf' \in [Sides -> [Msgs -> {"junk", "ping", "cut", "zero"}]]
    BY <1>1 DEF IndInv, Types
  <2>2. pc' \in [Sides -> Stages] /\ posted' \in [Sides -> {0, N}]
    BY <1>1, <1>2 DEF Stages
  <2> QED
    BY <1>1, <2>1, <2>2 DEF IndInv, Types
<1> QED
  BY <1>7, <1>8, <1>9, PeerFacts DEF IndInv

LEMMA PostRecvKeeps ==
  ASSUME IndInv, NEW s \in Sides, PostRecv(s)
  PROVE  IndInv'
<1>1. /\ pc[s] = "recv" /\ pc' = [pc EXCEPT ![s] = "pollRecv"]
      /\ recvs' = [recvs EXCEPT ![s] = N]
      /\ cq' = IF qp[s] = "err" THEN [cq EXCEPT ![s] = cq[s] \o Entries(N, "recv", FALSE)] ELSE cq
      /\ UNCHANGED <<qp, ncomp, posted, delivered, acked, rnr, faults, body, buf, got>>
  BY ClientAfter, ServerAfter DEF PostRecv, Advance, Sides
<1>t. SideRight(s) /\ ~Finished(s) /\ pc[s] # "failed" /\ pc[s] # "done"
  BY <1>1, SideFacts DEF Finished
<1>w. recvs[s] = 0 /\ qp[s] \in {"rts", "err"}
  BY <1>1, <1>t, SideFacts DEF SideRight, WireRight, RecvsPosted
<1>2. /\ pc \in [Sides -> Stages] /\ recvs \in [Sides -> {0, N}] /\ cq \in [Sides -> Seq(Entry)]
      /\ pc'[s] = "pollRecv" /\ recvs'[s] = N /\ recvs[s] = 0 /\ ~Finished(s) /\ N \in Nat \ {0}
      /\ delivered[Peer(s)] = 0 /\ cq[s] \in Seq(Entry) /\ ncomp[s] = 0
      /\ qp[s] \in {"rts", "err"}
  <2>1. pc \in [Sides -> Stages] /\ recvs \in [Sides -> {0, N}] /\ cq \in [Sides -> Seq(Entry)]
    BY DEF IndInv, Types
  <2>2. ncomp[s] = 0
    BY <1>1, <1>t DEF SideRight, LoopRight
  <2>3. delivered[Peer(s)] = 0
    BY <1>w, SideFacts
  <2> QED
    BY <1>1, <1>t, <1>w, <2>1, <2>2, <2>3, SideFacts
<1>3. WireRight(s)'
  BY <1>1, <1>2, SideFacts, PeerFacts DEF SideRight, WireRight, SendsPosted, RecvsPosted, Finished, Sides
<1>4. Kind(s)' = "recv" /\ Kind(s) = "recv" /\ (InSecond(s)' <=> InSecond(s))
      /\ (InSecond(s) => First(s) = "send")
  BY <1>1, <1>2 DEF Kind, InSecond, First, Second, Sides
<1>5. Generated(s, "send")' = Generated(s, "send")
      /\ \A kind : Successful(s, kind)' = Successful(s, kind)
  BY <1>1 DEF Generated, Successful
<1>6. /\ Len(cq[s]) = 0 /\ Generated(s, "recv")' = IF qp[s] = "err" THEN N ELSE 0
      /\ Successful(s, "recv") = 0
  <2>1. Generated(s, "recv") = 0 /\ Successful(s, "recv") = 0
    BY <1>2 DEF Generated, Successful
  <2>2. Len(cq[s]) + ncomp[s] = Generated(s, "recv")
    BY <1>t, <1>4 DEF SideRight, LoopRight
  <2>3. Generated(s, "recv")' = IF qp[s] = "err" THEN N ELSE 0
    BY <1>1, <1>2 DEF Generated
  <2> QED
    BY <1>2, <2>1, <2>2, <2>3, SideFacts
<1>7. /\ Len(cq'[s]) = IF qp[s] = "err" THEN N ELSE 0
      /\ cq' \in [Sides -> Seq(Entry)]
      /\ \A i \in 1..Len(cq'[s]) : cq'[s][i] = [kind |-> "recv", ok |-> FALSE]
  <2>1. CASE qp[s] = "err"
    <3> DEFINE new == Entries(N, "recv", FALSE)
    <3>1. /\ new \in Seq(Entry) /\ Len(new) = N
          /\ \A i \in 1..N : new[i] = [kind |-> "recv", ok |-> FALSE]
      BY <1>2, EntriesFacts
    <3> HIDE DEF new
    <3>2. cq[s] \o new = new
      BY <1>2, <1>6, <3>1
    <3>3. cq' = [cq EXCEPT ![s] = new]
      BY <1>1, <2>1, <3>2 DEF new
    <3> QED
      BY <1>2, <2>1, <3>1, <3>3
  <2>2. CASE qp[s] # "err"
    BY <1>1, <1>2, <1>6, <2>2
  <2> QED
    BY <2>1, <2>2
<1>8. LoopRight(s)'
  <2>1. Len(cq'[s]) + ncomp'[s] = Generated(s, "recv")'
    <3>1. ncomp'[s] = 0 /\ Len(cq'[s]) = IF qp[s] = "err" THEN N ELSE 0
      BY <1>1, <1>2, <1>7
    <3> QED
      BY <1>2, <1>6, <3>1
  <2>2. InSecond(s)' => Generated(s, First(s))' = N /\ (Checks(s) => Successful(s, First(s))' = N)
    BY <1>2, <1>4, <1>5, SideFacts DEF SideRight, LoopRight
  <2>3. ncomp'[s] <= Successful(s, "recv")'
    BY <1>1, <1>2, <1>5, <1>6
  <2>4. First(s)' = First(s) /\ Checks(s)' = Checks(s)
    BY DEF First, Checks
  <2>5. pc'[s] = "pollRecv" /\ \A i \in 1..Len(cq'[s]) : cq'[s][i].kind = "recv" /\ ~cq'[s][i].ok
    BY <1>2, <1>7
  <2> QED
    BY <1>4, <2>1, <2>2, <2>3, <2>4, <2>5 DEF LoopRight
<1>9. SideRight(s)'
  BY <1>2, <1>3, <1>8 DEF SideRight, EndRight
<1>10. SideRight(Peer(s))'
  <2>1. Peer(s) \in Sides /\ Peer(s) # s /\ Peer(Peer(s)) = s
    BY PeerFacts
  <2>2. /\ pc'[Peer(s)] = pc[Peer(s)] /\ recvs'[Peer(s)] = recvs[Peer(s)]
        /\ cq'[Peer(s)] = cq[Peer(s)]
    BY <1>1, <1>2, <2>1
  <2> QED
    BY <1>1, <1>2, <2>1, <2>2, SideFacts, Undisturbed
<1>11. Types'
  <2>1. pc' \in [Sides -> Stages] /\ recvs' \in [Sides -> {0, N}]
    BY <1>1, <1>2 DEF Stages
  <2> QED
    BY <1>1, <1>7, <2>1 DEF IndInv, Types
<1> QED
  BY <1>9, <1>10, <1>11, PeerFacts DEF IndInv

LEMMA GeneratedRange ==
  ASSUME IndInv, NEW s \in Sides, NEW kind \in {"send", "recv"}
  PROVE  /\ Generated(s, kind) \in Nat /\ Generated(s, kind) <= N
         /\ Successful(s, kind) \in Nat /\ Successful(s, kind) <= Generated(s, kind)
<1>1. acked[s] <= delivered[s] /\ delivered[s] <= posted[s]
  BY SideFacts DEF SideRight, WireRight
<1> QED
  BY <1>1, SideFacts DEF Generated, Successful

(* Completions leave the queue from its head.                              *)
LEMMA Polled ==
  ASSUME NEW q \in Seq(Entry), NEW n \in 1..Len(q)
  PROVE  /\ SubSeq(q, n + 1, Len(q)) \in Seq(Entry)
         /\ Len(SubSeq(q, n + 1, Len(q))) = Len(q) - n
         /\ \A i \in 1..Len(q)-n : SubSeq(q, n + 1, Len(q))[i] = q[n + i]
  OBVIOUS

LEMMA PollTypes ==
  ASSUME IndInv, NEW s \in Sides, NEW n \in Nat,
         buf' = IF pc[s] = "pollSend" THEN buf
                ELSE [buf EXCEPT ![s] = [i \in Msgs |->
                        IF i \in ncomp[s]+1..ncomp[s]+n THEN Cut(buf[s][i]) ELSE buf[s][i]]]
  PROVE  buf' \in [Sides -> [Msgs -> {"junk", "ping", "cut", "zero"}]]
  BY DEF IndInv, Types, Cut

(* A loop goes on.                                                         *)
LEMMA CountGoesOn ==
  ASSUME IndInv, NEW s \in Sides, pc[s] \in {"pollSend", "pollRecv"},
         NEW n \in 1..Len(cq[s]), ncomp[s] + n # N,
         Checks(s) => \A i \in 1..n : cq[s][i].ok,
         cq'[s] = SubSeq(cq[s], n + 1, Len(cq[s])), ncomp'[s] = ncomp[s] + n,
         UNCHANGED <<pc, qp, wireVars>>
  PROVE  SideRight(s)' /\ ncomp[s] + n \in 0..N-1
<1> USE DEF wireVars
<1>1. SideRight(s) /\ ~Finished(s) /\ cq[s] \in Seq(Entry) /\ Len(cq[s]) \in Nat
      /\ ncomp[s] \in Nat /\ N \in Nat
  BY SideFacts DEF Finished
<1>2. Kind(s) \in {"send", "recv"}
  BY DEF Kind, First, Second
<1>3. /\ Len(cq[s]) + ncomp[s] = Generated(s, Kind(s))
      /\ \A i \in 1..Len(cq[s]) :
           cq[s][i].kind = Kind(s) /\ (cq[s][i].ok => ncomp[s] + i <= Successful(s, Kind(s)))
  BY <1>1 DEF SideRight, LoopRight
<1>4. ncomp[s] + n \in 0..N-1
  BY <1>1, <1>2, <1>3, GeneratedRange
<1>5. /\ Len(cq'[s]) = Len(cq[s]) - n
      /\ \A i \in 1..Len(cq'[s]) : n + i \in 1..Len(cq[s]) /\ cq'[s][i] = cq[s][n + i]
  BY <1>1, Polled
<1>6. Kind(s)' = Kind(s) /\ InSecond(s)' = InSecond(s) /\ First(s)' = First(s) /\ Checks(s)' = Checks(s)
      /\ \A kind : Generated(s, kind)' = Generated(s, kind) /\ Successful(s, kind)' = Successful(s, kind)
  BY DEF Kind, InSecond, First, Second, Generated, Successful, Checks
<1>7. Len(cq'[s]) + ncomp'[s] = Generated(s, Kind(s))
  BY <1>1, <1>3, <1>5
<1>8. ASSUME NEW i \in 1..Len(cq'[s])
      PROVE  cq'[s][i].kind = Kind(s) /\ (cq'[s][i].ok => ncomp'[s] + i <= Successful(s, Kind(s)))
  <2>1. n + i \in 1..Len(cq[s]) /\ cq'[s][i] = cq[s][n + i]
    BY <1>5, <1>8
  <2>2. ncomp'[s] + i = ncomp[s] + (n + i)
    BY <1>1, <1>5, <1>8
  <2> QED
    BY <1>3, <2>1, <2>2
<1>9. Checks(s) => ncomp'[s] <= Successful(s, Kind(s))
  BY <1>3
<1>10. LoopRight(s)'
  BY <1>1, <1>6, <1>7, <1>8, <1>9 DEF SideRight, LoopRight
<1>11. WireRight(s)' /\ EndRight(s)'
  BY <1>1 DEF SideRight, WireRight, EndRight, Finished
<1> QED
  BY <1>4, <1>10, <1>11 DEF SideRight

(* A loop has counted what it waits for: nothing is left in the queue.     *)
LEMMA CountEnds ==
  ASSUME IndInv, NEW s \in Sides, pc[s] \in {"pollSend", "pollRecv"},
         NEW n \in 1..Len(cq[s]), ncomp[s] + n = N,
         Checks(s) => \A i \in 1..n : cq[s][i].ok,
         cq'[s] = SubSeq(cq[s], n + 1, Len(cq[s])), ncomp'[s] = 0,
         pc'[s] = After(s, pc[s]), UNCHANGED <<qp, wireVars>>
  PROVE  SideRight(s)' /\ pc'[s] \in Stages
<1> USE DEF wireVars
<1>1. SideRight(s) /\ ~Finished(s) /\ cq[s] \in Seq(Entry) /\ Len(cq[s]) \in Nat
      /\ ncomp[s] \in Nat /\ N \in Nat /\ pc[s] # "failed"
  BY SideFacts DEF Finished
<1>2. Kind(s) \in {"send", "recv"}
  BY DEF Kind, First, Second
<1>3. /\ Len(cq[s]) + ncomp[s] = Generated(s, Kind(s))
      /\ \A i \in 1..Len(cq[s]) : cq[s][i].ok => ncomp[s] + i <= Successful(s, Kind(s))
      /\ InSecond(s) => (Checks(s) => Successful(s, First(s)) = N)
  BY <1>1 DEF SideRight, LoopRight
<1>4. /\ Generated(s, Kind(s)) \in Nat /\ Generated(s, Kind(s)) <= N
      /\ Successful(s, Kind(s)) \in Nat /\ Successful(s, Kind(s)) <= Generated(s, Kind(s))
  BY <1>2, GeneratedRange
<1>5. Len(cq[s]) = n /\ Generated(s, Kind(s)) = N /\ Len(cq'[s]) = 0
  BY <1>1, <1>3, <1>4, Polled
<1>6. Checks(s) => Successful(s, Kind(s)) = N
  BY <1>3, <1>4, <1>5
<1>7. First(s)' = First(s) /\ Second(s)' = Second(s) /\ Checks(s)' = Checks(s)
      /\ \A kind : Generated(s, kind)' = Generated(s, kind) /\ Successful(s, kind)' = Successful(s, kind)
  BY DEF First, Second, Generated, Successful, Checks
<1>8. pc'[s] = IF InSecond(s) THEN "done" ELSE IF s = "client" THEN "reset" ELSE "nap"
  <2>1. CASE s = "client"
    BY <2>1, ClientAfter, <1>1 DEF InSecond
  <2>2. CASE s = "server"
    BY <2>2, ServerAfter, <1>1 DEF InSecond
  <2> QED
    BY <2>1, <2>2 DEF Sides
<1>9. CASE ~InSecond(s)
  <2>1. Kind(s) = First(s) /\ InSecond(s)' /\ Kind(s)' = Second(s)
        /\ pc'[s] = IF s = "client" THEN "reset" ELSE "nap"
    BY <1>7, <1>8, <1>9 DEF Kind, InSecond
  <2>2. pc[s] = IF s = "client" THEN "pollSend" ELSE "pollRecv"
    BY <1>9 DEF InSecond, Sides
  <2>3. Generated(s, Second(s)) = 0
    <3>1. CASE s = "client"
      <4>1. recvs[s] = 0 /\ Second(s) = "recv"
        BY <1>1, <2>2, <3>1 DEF SideRight, WireRight, RecvsPosted, Second
      <4> QED
        BY <4>1, SideFacts DEF Generated
    <3>2. CASE s # "client"
      <4>1. posted[s] = 0 /\ Second(s) = "send" /\ acked[s] <= delivered[s] /\ delivered[s] <= posted[s]
        BY <1>1, <2>2, <3>2 DEF SideRight, WireRight, SendsPosted, Second
      <4> QED
        BY <4>1, SideFacts DEF Generated
    <3> QED
      BY <3>1, <3>2
  <2>4. Successful(s, Second(s)) \in Nat
    BY GeneratedRange DEF Second
  <2>5. LoopRight(s)'
    BY <1>5, <1>6, <1>7, <2>1, <2>3, <2>4 DEF LoopRight
  <2>6. WireRight(s)'
    BY <1>1, <2>1, <2>2 DEF SideRight, WireRight, SendsPosted, RecvsPosted, Finished
  <2>7. EndRight(s)'
    BY <2>1 DEF EndRight
  <2> QED
    BY <2>1, <2>5, <2>6, <2>7 DEF SideRight, Stages
<1>10. CASE InSecond(s)
  <2>1. Kind(s) = Second(s) /\ pc'[s] = "done" /\ Finished(s)'
    BY <1>8, <1>10 DEF Kind, Finished
  <2>2. pc[s] = IF s = "client" THEN "pollRecv" ELSE "pollSend"
    BY <1>10 DEF InSecond, Sides
  <2>3. EndRight(s)'
    BY <1>3, <1>6, <1>7, <1>10, <2>1 DEF EndRight, First, Second, Successful
  <2>4. WireRight(s)'
    BY <1>1, <2>1, <2>2 DEF SideRight, WireRight, SendsPosted, RecvsPosted, Finished
  <2>5. LoopRight(s)'
    BY <2>1 DEF LoopRight
  <2> QED
    BY <2>1, <2>3, <2>4, <2>5 DEF SideRight, Stages
<1> QED
  BY <1>9, <1>10

LEMMA PollKeeps ==
  ASSUME IndInv, NEW s \in Sides, Poll(s)
  PROVE  IndInv'
<1>1. PICK n \in 1..(IF Checks(s) THEN N - ncomp[s] ELSE 1) :
        /\ n <= Len(cq[s])
        /\ cq' = [cq EXCEPT ![s] = SubSeq(cq[s], n + 1, Len(cq[s]))]
        /\ IF Checks(s) /\ \E i \in 1..n : ~cq[s][i].ok
           THEN pc' = [pc EXCEPT ![s] = "failed"] /\ UNCHANGED <<ncomp, buf>>
           ELSE CountPolled(s, n)
  BY DEF Poll
<1>2. pc[s] \in {"pollSend", "pollRecv"} /\ UNCHANGED <<qp, wireVars, got>>
  BY DEF Poll
<1>3. n \in 1..Len(cq[s]) /\ n \in Nat /\ cq[s] \in Seq(Entry)
  BY <1>1, SideFacts
<1>4. /\ cq'[s] = SubSeq(cq[s], n + 1, Len(cq[s])) /\ cq' \in [Sides -> Seq(Entry)]
      /\ \A t \in Sides : t # s => cq'[t] = cq[t]
  BY <1>1, <1>3, Polled DEF IndInv, Types
<1>5. pc \in [Sides -> Stages] /\ ncomp \in [Sides -> 0..N-1] /\ N \in Nat \ {0}
  BY NAssumption DEF IndInv, Types
<1>6. ASSUME pc' \in [Sides -> Stages], ncomp' \in [Sides -> 0..N-1],
             \A t \in Sides : t # s => pc'[t] = pc[t] /\ ncomp'[t] = ncomp[t],
             SideRight(s)', buf' \in [Sides -> [Msgs -> {"junk", "ping", "cut", "zero"}]]
      PROVE  IndInv'
  <2>1. Peer(s) \in Sides /\ Peer(s) # s
    BY PeerFacts
  <2>2. SideRight(Peer(s))'
    BY <1>2, <1>4, <1>6, <2>1, SideFacts, Undisturbed DEF wireVars
  <2>3. Types'
    BY <1>2, <1>4, <1>6 DEF IndInv, Types, wireVars
  <2> QED
    BY <1>6, <2>2, <2>3, PeerFacts DEF IndInv
<1>7. CASE Checks(s) /\ \E i \in 1..n : ~cq[s][i].ok
  <2>1. pc' = [pc EXCEPT ![s] = "failed"] /\ UNCHANGED <<ncomp, buf>>
    BY <1>1, <1>7
  <2>2. pc'[s] = "failed" /\ pc' \in [Sides -> Stages] /\ \A t \in Sides : t # s => pc'[t] = pc[t]
    BY <1>5, <2>1 DEF Stages
  <2>3. WireRight(s)'
    BY <1>2, <2>2, SideFacts DEF SideRight, WireRight, Finished, wireVars
  <2>4. LoopRight(s)' /\ EndRight(s)'
    BY <2>2 DEF LoopRight, EndRight, Finished
  <2>5. buf' \in [Sides -> [Msgs -> {"junk", "ping", "cut", "zero"}]]
    BY <2>1 DEF IndInv, Types
  <2> QED
    BY <1>5, <1>6, <2>1, <2>2, <2>3, <2>4, <2>5 DEF SideRight
<1>8. CASE ~(Checks(s) /\ \E i \in 1..n : ~cq[s][i].ok)
  <2>1. /\ ncomp' = [ncomp EXCEPT ![s] = IF ncomp[s] + n = N THEN 0 ELSE ncomp[s] + n]
        /\ IF ncomp[s] + n = N THEN pc' = [pc EXCEPT ![s] = After(s, pc[s])] ELSE UNCHANGED pc
    BY <1>1, <1>8 DEF CountPolled, Advance
  <2>2. buf' \in [Sides -> [Msgs -> {"junk", "ping", "cut", "zero"}]]
    <3>1. buf' = IF pc[s] = "pollSend" THEN buf
                 ELSE [buf EXCEPT ![s] = [i \in Msgs |->
                         IF i \in ncomp[s]+1..ncomp[s]+n THEN Cut(buf[s][i]) ELSE buf[s][i]]]
      BY <1>1, <1>8 DEF CountPolled
    <3> QED
      BY <1>3, <3>1, PollTypes
  <2>3. Checks(s) => \A i \in 1..n : cq[s][i].ok
    BY <1>8
  <2>4. CASE ncomp[s] + n = N
    <3>1. pc' = [pc EXCEPT ![s] = After(s, pc[s])] /\ ncomp' = [ncomp EXCEPT ![s] = 0]
      BY <2>1, <2>4
    <3>2. pc'[s] = After(s, pc[s]) /\ ncomp'[s] = 0 /\ ncomp' \in [Sides -> 0..N-1]
          /\ \A t \in Sides : t # s => pc'[t] = pc[t] /\ ncomp'[t] = ncomp[t]
      BY <1>5, <3>1
    <3>3. SideRight(s)' /\ pc'[s] \in Stages
      BY <1>2, <1>3, <1>4, <2>3, <2>4, <3>2, CountEnds
    <3>4. pc' \in [Sides -> Stages]
      BY <1>5, <3>1, <3>2, <3>3
    <3> QED
      BY <1>6, <2>2, <3>2, <3>3, <3>4
  <2>5. CASE ncomp[s] + n # N
    <3>1. pc' = pc /\ ncomp' = [ncomp EXCEPT ![s] = ncomp[s] + n]
      BY <2>1, <2>5
    <3>2. ncomp'[s] = ncomp[s] + n
          /\ \A t \in Sides : t # s => pc'[t] = pc[t] /\ ncomp'[t] = ncomp[t]
      BY <1>5, <3>1
    <3>3. SideRight(s)' /\ ncomp[s] + n \in 0..N-1
      BY <1>2, <1>3, <1>4, <2>3, <2>5, <3>1, <3>2, CountGoesOn
    <3>4. ncomp' \in [Sides -> 0..N-1] /\ pc' \in [Sides -> Stages]
      BY <1>5, <3>1, <3>3
    <3> QED
      BY <1>6, <2>2, <3>2, <3>3, <3>4
  <2> QED
    BY <2>4, <2>5
<1> QED
  BY <1>7, <1>8

LEMMA DestroyKeeps ==
  ASSUME IndInv, NEW s \in Sides, Destroy(s)
  PROVE  IndInv'
<1>1. /\ Finished(s) /\ qp' = [qp EXCEPT ![s] = "gone"]
      /\ UNCHANGED <<pc, ncomp, cq, posted, recvs, delivered, acked, rnr, faults, body, buf, got>>
  BY DEF Destroy, progVars, wireVars
<1>2. Types' /\ qp'[s] = "gone" /\ \A t \in Sides : t # s => qp'[t] = qp[t]
  BY <1>1 DEF IndInv, Types
<1>3. SideRight(s)'
  <2>1. WireRight(s)'
    BY <1>1, <1>2, SideFacts DEF SideRight, WireRight, Finished
  <2>2. LoopRight(s)' /\ EndRight(s)'
    BY <1>1, SideFacts DEF SideRight, LoopRight, EndRight, Finished, Checks
  <2> QED
    BY <2>1, <2>2 DEF SideRight
<1>4. SideRight(Peer(s))'
  BY <1>1, <1>2, PeerFacts, SideFacts, Undisturbed
<1> QED
  BY <1>2, <1>3, <1>4, PeerFacts DEF IndInv

(***************************************************************************)
(* The transport.                                                          *)
(***************************************************************************)

(* A success is added to the queue of a side whose loop, if it runs, waits *)
(* for that kind.                                                          *)
LEMMA SuccessKeeps ==
  ASSUME IndInv, NEW s \in Sides, NEW kind \in {"send", "recv"}, qp[s] = "rts",
         ~Finished(s) => Kind(s) = kind /\ pc[s] \in {"pollSend", "pollRecv"},
         cq'[s] = Append(cq[s], [kind |-> kind, ok |-> TRUE]),
         acked'[s] = IF kind = "send" THEN acked[s] + 1 ELSE acked[s],
         delivered'[Peer(s)] = IF kind = "recv" THEN delivered[Peer(s)] + 1 ELSE delivered[Peer(s)],
         acked'[s] <= N, delivered'[Peer(s)] <= N,
         UNCHANGED <<pc, qp, ncomp>>
  PROVE  LoopRight(s)' /\ EndRight(s)'
<1>1. SideRight(s) /\ cq[s] \in Seq(Entry) /\ Len(cq[s]) \in Nat /\ ncomp[s] \in Nat /\ N \in Nat
      /\ acked[s] \in Nat /\ delivered[Peer(s)] \in Nat
  BY SideFacts
<1>2. EndRight(s)'
  BY <1>1 DEF SideRight, EndRight, Checks
<1>3. LoopRight(s)'
  <2> SUFFICES ASSUME ~Finished(s) PROVE LoopRight(s)'
    BY DEF LoopRight, Finished
  <2>1. Kind(s) = kind /\ Kind(s)' = kind /\ pc[s] \in {"pollSend", "pollRecv"} /\ ~Finished(s)'
    BY DEF Kind, First, Second, InSecond, Finished
  <2>2. Generated(s, kind)' = Generated(s, kind) + 1 /\ Successful(s, kind)' = Successful(s, kind) + 1
        /\ Generated(s, kind) = Successful(s, kind) /\ Successful(s, kind) \in Nat
    BY <1>1 DEF Generated, Successful
  <2>3. /\ Len(cq[s]) + ncomp[s] = Generated(s, kind)
        /\ \A i \in 1..Len(cq[s]) :
             cq[s][i].kind = kind /\ (cq[s][i].ok => ncomp[s] + i <= Successful(s, kind))
        /\ Checks(s) => ncomp[s] <= Successful(s, kind)
    BY <1>1, <2>1 DEF SideRight, LoopRight
  <2>4. Len(cq'[s]) = Len(cq[s]) + 1 /\ cq'[s][Len(cq[s]) + 1] = [kind |-> kind, ok |-> TRUE]
        /\ \A i \in 1..Len(cq[s]) : cq'[s][i] = cq[s][i]
    BY <1>1
  <2>5. Len(cq'[s]) + ncomp'[s] = Generated(s, kind)'
    BY <1>1, <2>2, <2>3, <2>4
  <2>6. ASSUME NEW i \in 1..Len(cq'[s])
        PROVE  cq'[s][i].kind = kind /\ (cq'[s][i].ok => ncomp'[s] + i <= Successful(s, kind)')
    <3>1. CASE i \in 1..Len(cq[s])
      BY <1>1, <2>2, <2>3, <2>4, <3>1
    <3>2. CASE i = Len(cq[s]) + 1
      BY <1>1, <2>2, <2>3, <2>4, <3>2
    <3> QED
      BY <1>1, <2>4, <3>1, <3>2
  <2>7. Checks(s)' => ncomp'[s] <= Successful(s, kind)'
    BY <1>1, <2>2, <2>3 DEF Checks
  <2>8. InSecond(s)' => Generated(s, First(s))' = N /\ (Checks(s)' => Successful(s, First(s))' = N)
    <3> SUFFICES ASSUME InSecond(s) 
                 PROVE  Generated(s, First(s))' = N /\ (Checks(s)' => Successful(s, First(s))' = N)
      BY DEF InSecond
    <3>1. kind = Second(s) /\ First(s)' = First(s) /\ Checks(s)' = Checks(s)
          /\ First(s) = IF kind = "send" THEN "recv" ELSE "send"
      BY <2>1 DEF Kind, First, Second, Checks
    <3>2. Generated(s, First(s)) = N /\ (Checks(s) => Successful(s, First(s)) = N)
      BY <1>1 DEF SideRight, LoopRight
    <3>3. /\ Generated(s, First(s))' = Generated(s, First(s))
          /\ Successful(s, First(s))' = Successful(s, First(s))
      BY <3>1 DEF Generated, Successful
    <3> QED
      BY <3>1, <3>2, <3>3
  <2> QED
    BY <2>1, <2>5, <2>6, <2>7, <2>8 DEF LoopRight
<1> QED
  BY <1>2, <1>3

LEMMA LandBodyKeeps ==
  ASSUME IndInv, LandBody
  PROVE  IndInv'
<1>1. /\ body' = TRUE
      /\ buf' = [buf EXCEPT !["client"][delivered["server"] + 1] =
                              buf["server"][delivered["server"] + 1]]
      /\ UNCHANGED <<pc, ncomp, qp, cq, posted, recvs, delivered, acked, rnr, faults, got>>
      /\ delivered["server"] < posted["server"]
  BY DEF LandBody, Sending, progVars
<1>2. delivered["server"] + 1 \in Msgs
  BY <1>1, SideFacts DEF Sides, Msgs
<1>3. buf' \in [Sides -> [Msgs -> {"junk", "ping", "cut", "zero"}]]
  BY <1>1, <1>2 DEF IndInv, Types, Sides
<1>4. Types'
  BY <1>1, <1>3 DEF IndInv, Types
<1>5. \A s \in Sides : SideRight(s)'
  BY <1>1, SideFacts, Undisturbed
<1> QED
  BY <1>4, <1>5 DEF IndInv

(* What the transport still carries was posted and is still waited for.    *)
LEMMA Awaited ==
  ASSUME IndInv, NEW s \in Sides, qp[s] = "rts"
  PROVE  /\ delivered[Peer(s)] < recvs[s] =>
              recvs[s] = N
              /\ (~Finished(s) => Kind(s) = "recv" /\ pc[s] = "pollRecv")
         /\ acked[s] < posted[s] =>
              posted[s] = N
              /\ (~Finished(s) => Kind(s) = "send" /\ pc[s] = "pollSend")
<1>1. /\ SideRight(s) /\ posted[s] \in {0, N} /\ recvs[s] \in {0, N} /\ N \in Nat
      /\ delivered[Peer(s)] \in Nat /\ acked[s] \in Nat /\ pc[s] \in Stages
  BY SideFacts
<1>2. ASSUME ~Finished(s), delivered[Peer(s)] < recvs[s]
      PROVE  Kind(s) = "recv" /\ pc[s] = "pollRecv"
  <2>1. recvs[s] = N /\ pc[s] \in RecvsPosted(s) /\ pc[s] # "done"
    BY <1>1, <1>2 DEF SideRight, WireRight, Finished
  <2>2. s = "server" /\ InSecond(s) => FALSE
    BY <1>1, <1>2, <2>1 DEF SideRight, LoopRight, First, Generated
  <2> QED
    BY <2>1, <2>2 DEF RecvsPosted, InSecond, Kind, First, Second, Sides
<1>3. ASSUME ~Finished(s), acked[s] < posted[s]
      PROVE  Kind(s) = "send" /\ pc[s] = "pollSend"
  <2>1. posted[s] = N /\ pc[s] \in SendsPosted(s) /\ pc[s] # "done"
    BY <1>1, <1>3 DEF SideRight, WireRight, Finished
  <2>2. s = "client" /\ InSecond(s) => FALSE
    BY <1>1, <1>3, <2>1 DEF SideRight, LoopRight, First, Generated
  <2> QED
    BY <2>1, <2>2 DEF SendsPosted, InSecond, Kind, First, Second, Sides
<1> QED
  BY <1>1, <1>2, <1>3

LEMMA DeliverKeeps ==
  ASSUME IndInv, NEW s \in Sides, Deliver(s)
  PROVE  IndInv'
<1> DEFINE q == Peer(s)
           i == delivered[s] + 1
<1>1. /\ qp[s] = "rts" /\ qp[q] = "rts" /\ delivered[s] < posted[s] /\ delivered[s] < recvs[q]
      /\ delivered' = [delivered EXCEPT ![s] = delivered[s] + 1]
      /\ cq' = [cq EXCEPT ![q] = Append(cq[q], [kind |-> "recv", ok |-> TRUE])]
      /\ UNCHANGED <<pc, ncomp, qp, posted, recvs, acked, rnr, faults>>
  BY PeerFacts DEF Deliver, Connected, Sending, progVars
<1>2. q \in Sides /\ q # s /\ Peer(q) = s /\ N \in Nat
  BY PeerFacts, NAssumption
<1>3. i \in Msgs
  BY <1>1, SideFacts DEF Msgs
<1>4. /\ buf' \in [Sides -> [Msgs -> {"junk", "ping", "cut", "zero"}]]
      /\ got' \in [Msgs -> {"junk", "ping", "cut", "zero", "torn"}]
      /\ body' \in BOOLEAN
  <2>1. CASE s = "client"
    <3>1. buf' = [buf EXCEPT !["server"][i] = buf["client"][i]] /\ got' = got /\ body' = body
      BY <2>1 DEF Deliver
    <3> QED
      BY <1>3, <3>1 DEF IndInv, Types, Sides
  <2>2. CASE s # "client"
    <3>1. /\ got' = [got EXCEPT ![i] = IF buf["client"][i] = buf["server"][i]
                                       THEN buf["client"][i] ELSE "torn"]
          /\ buf' = buf /\ body' \in {FALSE, body}
      BY <2>2 DEF Deliver
    <3> QED
      BY <1>3, <3>1 DEF IndInv, Types, Sides
  <2> QED
    BY <2>1, <2>2
<1> HIDE DEF i
<1>5. /\ delivered' \in [Sides -> Nat] /\ cq' \in [Sides -> Seq(Entry)]
      /\ delivered'[s] = delivered[s] + 1 /\ delivered'[q] = delivered[q]
      /\ cq'[s] = cq[s] /\ cq'[q] = Append(cq[q], [kind |-> "recv", ok |-> TRUE])
  BY <1>1, <1>2 DEF IndInv, Types, Entry
<1>6. Types'
  BY <1>1, <1>4, <1>5 DEF IndInv, Types
<1>7. delivered[s] < recvs[q] /\ delivered'[s] <= N /\ acked[q] <= N
      /\ (~Finished(q) => Kind(q) = "recv" /\ pc[q] = "pollRecv")
  <2>1. delivered[s] < recvs[q] /\ delivered[Peer(q)] = delivered[s]
    BY <1>1, <1>2
  <2>2. recvs[q] = N /\ (~Finished(q) => Kind(q) = "recv" /\ pc[q] = "pollRecv")
    BY <1>1, <1>2, <2>1, Awaited
  <2>3. acked[q] <= delivered[q] /\ delivered[q] <= posted[q] /\ posted[q] \in {0, N}
        /\ acked[q] \in Nat /\ delivered[q] \in Nat /\ delivered[s] \in Nat
    BY <1>2, SideFacts DEF SideRight, WireRight
  <2> QED
    BY <1>2, <1>5, <2>1, <2>2, <2>3
<1>8. LoopRight(q)' /\ EndRight(q)'
  BY <1>1, <1>2, <1>5, <1>7, SuccessKeeps
<1>9. LoopRight(s)' /\ EndRight(s)'
  BY <1>1, <1>5, SideFacts
     DEF SideRight, LoopRight, EndRight, Finished, Generated, Successful, InSecond, Kind, First,
         Second, Checks
<1>10. WireRight(s)' /\ WireRight(q)'
  <2>1. WireRight(s) /\ WireRight(q) /\ delivered[s] \in Nat /\ acked[s] \in Nat
        /\ posted[s] \in {0, N} /\ recvs[q] \in {0, N}
    BY <1>2, SideFacts DEF SideRight
  <2>2. WireRight(s)'
    BY <1>1, <1>2, <1>5, <2>1 DEF WireRight, Finished
  <2>3. WireRight(q)'
    BY <1>1, <1>2, <1>5, <2>1 DEF WireRight, Finished
  <2> QED
    BY <2>2, <2>3
<1> QED
  BY <1>6, <1>8, <1>9, <1>10, PeerFacts DEF IndInv, SideRight

LEMMA AckKeeps ==
  ASSUME IndInv, NEW s \in Sides, Ack(s)
  PROVE  IndInv'
<1>1. /\ qp[s] = "rts" /\ acked[s] < delivered[s]
      /\ acked' = [acked EXCEPT ![s] = acked[s] + 1]
      /\ cq' = [cq EXCEPT ![s] = Append(cq[s], [kind |-> "send", ok |-> TRUE])]
      /\ UNCHANGED <<pc, ncomp, qp, posted, recvs, delivered, rnr, faults, body, buf, got>>
  BY DEF Ack, progVars
<1>2. /\ acked' \in [Sides -> Nat] /\ cq' \in [Sides -> Seq(Entry)]
      /\ acked'[s] = acked[s] + 1 /\ cq'[s] = Append(cq[s], [kind |-> "send", ok |-> TRUE])
      /\ \A t \in Sides : t # s => acked'[t] = acked[t] /\ cq'[t] = cq[t]
  BY <1>1 DEF IndInv, Types, Entry
<1>3. Types'
  BY <1>1, <1>2 DEF IndInv, Types
<1>4. /\ acked[s] \in Nat /\ delivered[s] \in Nat /\ posted[s] \in {0, N} /\ N \in Nat
      /\ delivered[s] <= posted[s] /\ delivered[Peer(s)] \in Nat
      /\ delivered[Peer(s)] <= recvs[s] /\ recvs[s] \in {0, N}
  BY SideFacts DEF SideRight, WireRight
<1>5. acked[s] < posted[s] /\ acked'[s] <= N /\ delivered'[Peer(s)] <= N
  BY <1>1, <1>2, <1>4
<1>6. ~Finished(s) => Kind(s) = "send" /\ pc[s] = "pollSend"
  BY <1>1, <1>5, Awaited
<1>7. LoopRight(s)' /\ EndRight(s)'
  BY <1>1, <1>2, <1>5, <1>6, SuccessKeeps
<1>8. WireRight(s)'
  BY <1>1, <1>2, <1>4, SideFacts DEF SideRight, WireRight, Finished
<1>9. SideRight(Peer(s))'
  BY <1>1, <1>2, PeerFacts, SideFacts, Undisturbed
<1> QED
  BY <1>3, <1>7, <1>8, <1>9, PeerFacts DEF IndInv, SideRight

(* A queue pair that goes to error flushes the requests of one kind only:  *)
(* what the program waits for.                                             *)
LEMMA GiveUpKeeps ==
  ASSUME IndInv, NEW s \in Sides, qp[s] = "rts", acked[s] < posted[s], GiveUp(s),
         rnr' = rnr, faults' \in 0..MaxFaults
  PROVE  IndInv'
<1> DEFINE flushedSends == Entries(posted[s] - acked[s], "send", FALSE)
           flushedRecvs == Entries(recvs[s] - delivered[Peer(s)], "recv", FALSE)
<1>1. /\ qp' = [qp EXCEPT ![s] = "err"]
      /\ cq' = [cq EXCEPT ![s] = (cq[s] \o flushedSends) \o flushedRecvs]
      /\ UNCHANGED <<pc, ncomp, posted, recvs, delivered, acked, body, buf, got>>
  BY DEF GiveUp, progVars
<1>2. /\ SideRight(s) /\ N \in Nat /\ acked[s] \in Nat /\ delivered[Peer(s)] \in Nat
      /\ recvs[s] \in {0, N} /\ delivered[Peer(s)] <= recvs[s] /\ cq[s] \in Seq(Entry)
      /\ Len(cq[s]) \in Nat /\ ncomp[s] \in Nat
  BY SideFacts
<1>3. posted[s] = N /\ (~Finished(s) => Kind(s) = "send" /\ pc[s] = "pollSend")
  BY Awaited
<1>4. /\ posted[s] - acked[s] \in Nat /\ recvs[s] - delivered[Peer(s)] \in Nat
  BY <1>2, <1>3
<1>5. /\ flushedSends \in Seq(Entry) /\ flushedRecvs \in Seq(Entry)
      /\ Len(flushedSends) = N - acked[s] /\ Len(flushedRecvs) = recvs[s] - delivered[Peer(s)]
      /\ \A i \in 1..Len(flushedSends) : flushedSends[i] = [kind |-> "send", ok |-> FALSE]
  BY <1>3, <1>4, EntriesFacts
<1> HIDE DEF flushedSends, flushedRecvs
<1>6. /\ qp' \in [Sides -> {"init", "rts", "err", "gone"}] /\ cq' \in [Sides -> Seq(Entry)]
      /\ qp'[s] = "err" /\ cq'[s] = (cq[s] \o flushedSends) \o flushedRecvs
      /\ \A t \in Sides : t # s => qp'[t] = qp[t] /\ cq'[t] = cq[t]
  <2>1. (cq[s] \o flushedSends) \o flushedRecvs \in Seq(Entry)
    BY <1>2, <1>5
  <2>2. qp \in [Sides -> {"init", "rts", "err", "gone"}] /\ cq \in [Sides -> Seq(Entry)]
    BY DEF IndInv, Types
  <2> DEFINE longer == (cq[s] \o flushedSends) \o flushedRecvs
  <2>3. longer \in Seq(Entry) /\ cq' = [cq EXCEPT ![s] = longer]
    BY <1>1, <2>1
  <2> HIDE DEF longer
  <2>4. cq' \in [Sides -> Seq(Entry)] /\ cq'[s] = longer /\ \A t \in Sides : t # s => cq'[t] = cq[t]
    BY <2>2, <2>3
  <2>5. /\ qp' \in [Sides -> {"init", "rts", "err", "gone"}] /\ qp'[s] = "err"
        /\ \A t \in Sides : t # s => qp'[t] = qp[t]
    BY <1>1, <2>2
  <2> QED
    BY <2>4, <2>5 DEF longer
<1>7. Types'
  BY <1>1, <1>6 DEF IndInv, Types
<1>8. WireRight(s)'
  BY <1>1, <1>2, <1>3, <1>6 DEF SideRight, WireRight, Finished
<1>9. EndRight(s)'
  BY <1>1, <1>2 DEF SideRight, EndRight, Checks
<1>10. LoopRight(s)'
  <2> SUFFICES ASSUME ~Finished(s) PROVE LoopRight(s)'
    BY <1>1 DEF LoopRight, Finished
  <2>1. Kind(s) = "send" /\ Kind(s)' = "send" /\ pc'[s] = "pollSend"
        /\ (InSecond(s)' <=> s # "client") /\ InSecond(s)' = InSecond(s)
    BY <1>1, <1>3 DEF Kind, First, Second, InSecond
  <2>2. /\ Len(cq[s]) + ncomp[s] = acked[s]
        /\ \A i \in 1..Len(cq[s]) :
             cq[s][i].kind = "send" /\ (cq[s][i].ok => ncomp[s] + i <= acked[s])
        /\ Checks(s) => ncomp[s] <= acked[s]
    BY <1>2, <2>1 DEF SideRight, LoopRight, Generated, Successful
  <2>3. delivered[Peer(s)] = recvs[s]
    <3>1. CASE s = "client"
      <4>1. recvs[s] = 0
        BY <1>1, <1>2, <2>1, <3>1 DEF SideRight, WireRight, RecvsPosted
      <4> QED
        BY <1>2, <4>1
    <3>2. CASE s # "client"
      <4>1. InSecond(s) /\ First(s) = "recv"
        BY <2>1, <3>2 DEF First
      <4>2. delivered[Peer(s)] = N
        BY <1>2, <4>1 DEF SideRight, LoopRight, Generated
      <4> QED
        BY <1>2, <4>2
    <3> QED
      BY <3>1, <3>2
  <2>4. cq'[s] = cq[s] \o flushedSends
    <3>1. Len(flushedRecvs) = 0
      BY <1>2, <1>5, <2>3
    <3>2. flushedRecvs = <<>>
      BY <1>5, <3>1
    <3> QED
      BY <1>2, <1>5, <1>6, <3>2
  <2>5. /\ Len(cq'[s]) = Len(cq[s]) + (N - acked[s])
        /\ \A i \in 1..Len(cq[s]) : cq'[s][i] = cq[s][i]
        /\ \A i \in Len(cq[s])+1..Len(cq'[s]) :
             i - Len(cq[s]) \in 1..Len(flushedSends) /\ cq'[s][i] = flushedSends[i - Len(cq[s])]
    <3> DEFINE a == cq[s]
               b == flushedSends
    <3>1. a \in Seq(Entry) /\ b \in Seq(Entry) /\ Len(b) = N - acked[s]
      BY <1>2, <1>5
    <3> HIDE DEF a, b
    <3>2. /\ Len(a \o b) = Len(a) + Len(b)
          /\ \A i \in 1..Len(a) : (a \o b)[i] = a[i]
          /\ \A i \in Len(a)+1..Len(a)+Len(b) :
               i - Len(a) \in 1..Len(b) /\ (a \o b)[i] = b[i - Len(a)]
      BY <3>1
    <3> QED
      BY <2>4, <3>1, <3>2 DEF a, b
  <2>6. Generated(s, "send")' = N /\ Successful(s, "send")' = acked[s]
    BY <1>1, <1>3, <1>6 DEF Generated, Successful
  <2>7. Len(cq'[s]) + ncomp'[s] = Generated(s, "send")'
    BY <1>1, <1>2, <2>2, <2>5, <2>6
  <2>8. ASSUME NEW i \in 1..Len(cq'[s])
        PROVE  cq'[s][i].kind = "send" /\ (cq'[s][i].ok => ncomp'[s] + i <= Successful(s, "send")')
    <3>1. CASE i \in 1..Len(cq[s])
      BY <1>1, <2>2, <2>5, <2>6, <3>1
    <3>2. CASE i \in Len(cq[s])+1..Len(cq'[s])
      BY <1>5, <2>5, <3>2
    <3> QED
      BY <1>2, <1>3, <1>4, <2>5, <3>1, <3>2
  <2>9. Checks(s)' => ncomp'[s] <= Successful(s, "send")'
    BY <1>1, <2>2, <2>6 DEF Checks
  <2>10. ASSUME InSecond(s)'
         PROVE  Generated(s, First(s))' = N /\ (Checks(s)' => Successful(s, First(s))' = N)
    <3>1. First(s)' = "recv" /\ First(s) = "recv" /\ InSecond(s)
      BY <2>1, <2>10 DEF First
    <3>2. delivered[Peer(s)] = N
      BY <1>2, <3>1 DEF SideRight, LoopRight, Generated
    <3>3. Generated(s, "recv")' = N /\ Successful(s, "recv")' = N
      BY <1>1, <1>6, <2>3, <3>2 DEF Generated, Successful
    <3> QED
      BY <3>1, <3>3
  <2> QED
    BY <1>1, <2>1, <2>7, <2>8, <2>9, <2>10 DEF LoopRight
<1>11. SideRight(Peer(s))'
  BY <1>1, <1>6, PeerFacts, SideFacts, Undisturbed
<1> QED
  BY <1>7, <1>8, <1>9, <1>10, <1>11, PeerFacts DEF IndInv, SideRight

(* A queue pair that has not had all its messages received has sends left. *)
LEMMA SendsLeft ==
  ASSUME IndInv, NEW s \in Sides, Sending(s)
  PROVE  qp[s] = "rts" /\ acked[s] < posted[s]
<1>1. acked[s] <= delivered[s] /\ delivered[s] < posted[s] /\ qp[s] = "rts"
  BY SideFacts DEF SideRight, WireRight, Sending
<1> QED
  BY <1>1, NAssumption, SideFacts

LEMMA ReceiverNotReadyKeeps ==
  ASSUME IndInv, NEW s \in Sides, ReceiverNotReady(s)
  PROVE  IndInv'
<1>1. Sending(s) /\ faults' = faults
  BY DEF ReceiverNotReady
<1>2. CASE rnr[s] < RnrRetry
  <2>1. /\ rnr' = [rnr EXCEPT ![s] = rnr[s] + 1]
        /\ UNCHANGED <<pc, ncomp, qp, cq, posted, recvs, delivered, acked, body, buf, got>>
    BY <1>2 DEF ReceiverNotReady, progVars
  <2>2. rnr' \in [Sides -> 0..RnrRetry]
    BY <1>2, <2>1, BoundAssumption DEF IndInv, Types
  <2>3. Types'
    BY <1>1, <2>1, <2>2 DEF IndInv, Types
  <2>4. \A t \in Sides : SideRight(t)'
    BY <2>1, NAssumption, SideFacts, Undisturbed
  <2> QED
    BY <2>3, <2>4 DEF IndInv
<1>3. CASE ~(rnr[s] < RnrRetry)
  <2>1. GiveUp(s) /\ rnr' = rnr
    BY <1>3 DEF ReceiverNotReady
  <2>2. faults' \in 0..MaxFaults
    BY <1>1 DEF IndInv, Types
  <2> QED
    BY <1>1, <2>1, <2>2, SendsLeft, GiveUpKeeps
<1> QED
  BY <1>2, <1>3

LEMMA PeerUnreachableKeeps ==
  ASSUME IndInv, NEW s \in Sides, PeerUnreachable(s)
  PROVE  IndInv'
<1>1. Sending(s) /\ GiveUp(s) /\ rnr' = rnr /\ faults' = faults
  BY DEF PeerUnreachable
<1>2. faults' \in 0..MaxFaults
  BY <1>1 DEF IndInv, Types
<1> QED
  BY <1>1, <1>2, SendsLeft, GiveUpKeeps

LEMMA NetworkFaultKeeps ==
  ASSUME IndInv, NEW s \in Sides, NetworkFault(s)
  PROVE  IndInv'
<1>1. /\ qp[s] = "rts" /\ acked[s] < posted[s] /\ GiveUp(s) /\ rnr' = rnr
      /\ faults < MaxFaults /\ faults' = faults + 1
  BY DEF NetworkFault
<1>2. faults' \in 0..MaxFaults
  BY <1>1, BoundAssumption DEF IndInv, Types
<1> QED
  BY <1>1, <1>2, GiveUpKeeps

------------------------------------------------------------------------------
(***************************************************************************)
(* The theorems.                                                           *)
(***************************************************************************)
LEMMA InitHolds == Init => IndInv
<1> SUFFICES ASSUME Init PROVE IndInv
  OBVIOUS
<1>1. Types
  <2>1. ncomp \in [Sides -> 0..N-1] /\ rnr \in [Sides -> 0..RnrRetry] /\ faults \in 0..MaxFaults
    BY NAssumption, BoundAssumption DEF Init
  <2>2. cq \in [Sides -> Seq(Entry)]
    BY DEF Init
  <2>3. /\ posted \in [Sides -> {0, N}] /\ recvs \in [Sides -> {0, N}]
        /\ delivered \in [Sides -> Nat] /\ acked \in [Sides -> Nat] /\ body \in BOOLEAN
    BY DEF Init
  <2>4. /\ pc \in [Sides -> Stages] /\ qp \in [Sides -> {"init", "rts", "err", "gone"}]
    BY DEF Init, Stages
  <2>5. /\ buf \in [Sides -> [Msgs -> {"junk", "ping", "cut", "zero"}]]
        /\ got \in [Msgs -> {"junk", "ping", "cut", "zero", "torn"}]
    BY DEF Init
  <2> QED
    BY <2>1, <2>2, <2>3, <2>4, <2>5 DEF Types
<1>2. ASSUME NEW s \in Sides
      PROVE  SideRight(s)
  <2>1. /\ pc[s] = "connect" /\ qp[s] = "init" /\ cq[s] = <<>> /\ ncomp[s] = 0 /\ posted[s] = 0
        /\ recvs[s] = 0 /\ recvs[Peer(s)] = 0 /\ delivered[s] = 0 /\ delivered[Peer(s)] = 0
        /\ acked[s] = 0
    BY PeerFacts DEF Init
  <2>2. WireRight(s)
    BY <2>1 DEF WireRight, SendsPosted, RecvsPosted
  <2>3. ~InSecond(s) /\ \A kind : Generated(s, kind) = 0 /\ Successful(s, kind) = 0
    BY <2>1 DEF InSecond, Generated, Successful
  <2>4. LoopRight(s)
    BY <2>1, <2>3 DEF LoopRight
  <2> QED
    BY <2>1, <2>2, <2>4 DEF SideRight, EndRight
<1> QED
  BY <1>1, <1>2 DEF IndInv

LEMMA NextKeeps == IndInv /\ [Next]_vars => IndInv'
<1> SUFFICES ASSUME IndInv, [Next]_vars PROVE IndInv'
  OBVIOUS
<1>1. CASE LandBody
  BY <1>1, LandBodyKeeps
<1>2. ASSUME NEW s \in Sides, Step(s)
      PROVE  IndInv'
  BY <1>2, ConnectKeeps, NapKeeps, PostSendKeeps, ResetKeeps, PostRecvKeeps, PollKeeps, DestroyKeeps
     DEF Step
<1>3. ASSUME NEW s \in Sides, Carry(s)
      PROVE  IndInv'
  BY <1>3, DeliverKeeps, AckKeeps, PeerUnreachableKeeps DEF Carry
<1>4. ASSUME NEW s \in Sides, Hinder(s)
      PROVE  IndInv'
  BY <1>4, ReceiverNotReadyKeeps, NetworkFaultKeeps DEF Hinder
<1>5. CASE UNCHANGED vars
  <2>1. UNCHANGED <<pc, qp, cq, ncomp, posted, recvs, delivered, acked, rnr, faults, body, buf, got>>
    BY <1>5 DEF vars
  <2>2. Types'
    BY <2>1 DEF IndInv, Types
  <2>3. \A t \in Sides : SideRight(t)'
    BY <2>1, NAssumption, SideFacts, Undisturbed
  <2> QED
    BY <2>2, <2>3 DEF IndInv
<1> QED
  BY <1>1, <1>2, <1>3, <1>4, <1>5 DEF Next

(* What a loop has counted and what its queue holds are the completions of *)
(* the kind it waits for; a checking program counts successes only.        *)
THEOREM Invariance == Spec => []IndInv
  BY InitHolds, NextKeeps, PTL DEF Spec

(* Stages, queue pair states and counters stay in their ranges; what is    *)
(* acknowledged was received, and what was received was sent.              *)
THEOREM TypeCorrect == Spec => []TypeOK
<1>1. ASSUME IndInv
      PROVE  TypeOK
  <2>1. Types
    BY <1>1 DEF IndInv
  <2>2. ASSUME NEW s \in Sides
        PROVE  /\ \A i \in 1..Len(cq[s]) : cq[s][i] \in [kind : {"send", "recv"}, ok : BOOLEAN]
               /\ ncomp[s] \in 0..N-1 /\ posted[s] \in {0, N} /\ recvs[s] \in {0, N}
               /\ acked[s] \in 0..delivered[s] /\ delivered[s] \in 0..posted[s]
    <3>1. cq[s] \in Seq(Entry) /\ ncomp[s] \in 0..N-1
      BY <2>1 DEF Types
    <3>2. \A i \in 1..Len(cq[s]) : cq[s][i] \in Entry
      BY <3>1
    <3>3. acked[s] <= delivered[s] /\ delivered[s] <= posted[s]
      BY <1>1, SideFacts DEF SideRight, WireRight
    <3>4. acked[s] \in 0..delivered[s] /\ delivered[s] \in 0..posted[s]
      BY <1>1, <3>3, SideFacts
    <3> QED
      BY <1>1, <3>1, <3>2, <3>4, SideFacts DEF Entry
  <2> QED
    BY <2>1, <2>2 DEF TypeOK, Types
<1> QED
  BY <1>1, Invariance, PTL

(* No poll loop of either program, and none of them looks at what it       *)
(* counts, ever finds a completion of the other kind in the shared queue.  *)
THEOREM CompletionsOwn == Spec => []OwnCompletions
<1>1. ASSUME IndInv
      PROVE  OwnCompletions
  <2>1. ASSUME NEW s \in Sides, NEW i \in 1..Len(cq[s]), pc[s] \in {"pollSend", "pollRecv"}
        PROVE  cq[s][i].kind = IF pc[s] = "pollSend" THEN "send" ELSE "recv"
    <3>1. Kind(s) = IF pc[s] = "pollSend" THEN "send" ELSE "recv"
      BY <2>1 DEF Kind, First, Second, InSecond, Sides
    <3>2. ~Finished(s) /\ SideRight(s)
      BY <1>1, <2>1, SideFacts DEF Finished
    <3> QED
      BY <2>1, <3>1, <3>2 DEF SideRight, LoopRight
  <2> QED
    BY <2>1 DEF OwnCompletions
<1> QED
  BY <1>1, Invariance, PTL

(* When both programs check the completions, one that says it is done has  *)
(* had all its messages received and all its peer's delivered, whatever    *)
(* the sleeps, the retries and the network did.                            *)
THEOREM DoneDelivered ==
  ASSUME ClientKind = "verb"
  PROVE  Spec => []DoneMeansDelivered
<1>1. ASSUME IndInv
      PROVE  DoneMeansDelivered
  <2>1. ASSUME NEW s \in Sides, pc[s] = "done"
        PROVE  delivered[s] = N /\ delivered[Peer(s)] = N
    <3>1. EndRight(s) /\ WireRight(s) /\ Checks(s)
      BY <1>1, SideFacts DEF SideRight, Checks
    <3>2. acked[s] = N /\ delivered[Peer(s)] = N /\ acked[s] <= delivered[s]
          /\ delivered[s] <= posted[s]
      BY <2>1, <3>1 DEF EndRight, WireRight
    <3> QED
      BY <1>1, <3>2, SideFacts
  <2> QED
    BY <2>1 DEF DoneMeansDelivered
<1> QED
  BY <1>1, Invariance, PTL

------------------------------------------------------------------------------
(***************************************************************************)
(* The contents of the pongs, when the sleeps are long enough.             *)
(***************************************************************************)

(* The server's nap is over only when the client has posted its receives,  *)
(* and so after the client's memset; its own receives are over by then.    *)
RepliesLate ==
  /\ pc["server"] = "send" \/ posted["server"] = N =>
       recvs["client"] = N /\ delivered["client"] = N
  /\ posted["server"] = N => pc["server"] \in {"pollSend", "done", "failed"}

(* The part of a pong that has landed is still there when the rest comes.  *)
BodyWhole ==
  body => /\ posted["server"] = N /\ delivered["server"] < N
          /\ qp["client"] = "rts" =>
               buf["client"][delivered["server"] + 1] = buf["server"][delivered["server"] + 1]

ReplyInv == RepliesLate /\ BodyWhole /\ PongsWhole

(* Where the programs are once the server has replied, and before.         *)
LEMMA ReplyFacts ==
  ASSUME IndInv, ReplyInv
  PROVE  /\ posted["server"] = N =>
              /\ pc["client"] \in {"pollRecv", "done", "failed"}
              /\ pc["server"] \in {"pollSend", "done", "failed"}
              /\ posted["client"] = delivered["client"]
         /\ posted["server"] # N => delivered["server"] = 0 /\ body = FALSE
         /\ delivered["server"] \in Nat /\ delivered["server"] <= N
         /\ delivered["client"] \in Nat /\ delivered["client"] <= N
<1>1. "client" \in Sides /\ "server" \in Sides
  BY DEF Sides
<1>2. /\ SideRight("client") /\ SideRight("server") /\ N \in Nat \ {0}
      /\ pc["client"] \in Stages /\ recvs["client"] \in {0, N}
      /\ posted["client"] \in {0, N} /\ posted["server"] \in {0, N}
      /\ delivered["client"] \in Nat /\ delivered["server"] \in Nat /\ body \in BOOLEAN
  BY <1>1, SideFacts DEF IndInv, Types
<1>3. delivered["client"] <= posted["client"] /\ delivered["server"] <= posted["server"]
  BY <1>2 DEF SideRight, WireRight
<1>4. recvs["client"] = N => pc["client"] \in {"pollRecv", "done", "failed"}
  BY <1>2 DEF SideRight, WireRight, RecvsPosted
<1> QED
  BY <1>2, <1>3, <1>4 DEF ReplyInv, RepliesLate, BodyWhole

(* Before the server replies there is no pong to be whole.                 *)
LEMMA BeforeReplies ==
  ASSUME IndInv, ReplyInv, posted["server"] # N,
         posted'["server"] = posted["server"], delivered'["server"] = delivered["server"],
         body' = body,
         pc'["server"] = "send" => recvs'["client"] = N /\ delivered'["client"] = N
  PROVE  ReplyInv'
<1>1. delivered'["server"] = 0 /\ body' = FALSE
  BY ReplyFacts
<1>2. RepliesLate' /\ BodyWhole'
  BY <1>1 DEF RepliesLate, BodyWhole
<1>3. PongsWhole'
  BY <1>1 DEF PongsWhole
<1> QED
  BY <1>2, <1>3 DEF ReplyInv

(* A step that changes no buffer and delivers nothing.                     *)
LEMMA BuffersRest ==
  ASSUME ReplyInv, UNCHANGED <<posted, recvs, delivered, body, buf, got>>,
         qp'["client"] = "rts" => qp["client"] = "rts" \/ body = FALSE,
         \/ pc'["server"] \in {pc["server"], "done", "failed"}
         \/ posted["server"] # N /\ pc'["server"] # "send"
  PROVE  ReplyInv'
<1>1. RepliesLate'
  BY DEF ReplyInv, RepliesLate
<1>2. BodyWhole'
  BY DEF ReplyInv, BodyWhole
<1>3. PongsWhole'
  BY DEF ReplyInv, PongsWhole
<1> QED
  BY <1>1, <1>2, <1>3 DEF ReplyInv

LEMMA ProgramReplies ==
  ASSUME Timely, IndInv, ReplyInv, NEW s \in Sides,
         Connect(s) \/ Nap(s) \/ PostSend(s) \/ Reset(s) \/ PostRecv(s) \/ Destroy(s)
  PROVE  ReplyInv'
<1>1. /\ pc \in [Sides -> Stages] /\ qp \in [Sides -> {"init", "rts", "err", "gone"}]
      /\ posted \in [Sides -> {0, N}] /\ recvs \in [Sides -> {0, N}] /\ N \in Nat \ {0}
      /\ "client" \in Sides /\ "server" \in Sides /\ s \in {"client", "server"}
      /\ Peer("client") = "server" /\ Peer("server") = "client"
  BY NAssumption DEF IndInv, Types, Sides, Peer
<1>2. pc[s] \in {"connect", "reset", "recv"} => posted["server"] # N
  BY <1>1, ReplyFacts
<1>3. CASE Connect(s)
  <2>1. UNCHANGED <<posted, recvs, delivered, body, buf, got>> /\ pc[s] = "connect"
        /\ pc'["server"] \in {pc["server"], "reset"}
    BY <1>1, <1>3, ServerAfter DEF Connect, Advance, wireVars
  <2>2. \/ posted["server"] # N /\ pc'["server"] # "send"
        \/ pc'["server"] = pc["server"]
    BY <1>2, <2>1
  <2>3. body = FALSE
    BY <1>2, <2>1, ReplyFacts
  <2> QED
    BY <2>1, <2>2, <2>3, BuffersRest
<1>4. CASE Nap(s)
  <2>1. /\ UNCHANGED <<qp, posted, recvs, delivered, body, buf, got>> /\ pc[s] = "nap"
        /\ pc' = [pc EXCEPT ![s] = "send"] /\ recvs[Peer(s)] = N
    BY <1>1, <1>4, ClientAfter, ServerAfter DEF Nap, Advance, wireVars
  <2>2. CASE s = "client"
    <3>1. pc'["server"] = pc["server"]
      BY <1>1, <2>1, <2>2
    <3> QED
      BY <2>1, <3>1, BuffersRest
  <2>3. CASE s = "server"
    <3>1. delivered["client"] = N
      BY <1>1, <2>1, <2>3, SideFacts DEF SideRight, LoopRight, Finished, InSecond, First, Successful,
         Checks
    <3>2. posted["server"] # N
      BY <2>1, <2>3, ReplyFacts
    <3> QED
      BY <1>1, <2>1, <2>3, <3>1, <3>2, BeforeReplies
  <2> QED
    BY <1>1, <2>2, <2>3
<1>5. CASE PostSend(s)
  <2>1. /\ UNCHANGED <<qp, recvs, delivered, body, got>> /\ pc[s] = "send"
        /\ pc' = [pc EXCEPT ![s] = "pollSend"] /\ posted' = [posted EXCEPT ![s] = N]
        /\ s = "server" => buf' = buf
    BY <1>1, <1>5, ClientAfter, ServerAfter DEF PostSend, Advance
  <2>2. CASE s = "client"
    <3>1. pc'["server"] = pc["server"] /\ posted'["server"] = posted["server"]
      BY <1>1, <2>1, <2>2
    <3>2. posted["server"] # N
      BY <2>1, <2>2, ReplyFacts
    <3> QED
      BY <2>1, <3>1, <3>2, BeforeReplies DEF ReplyInv, RepliesLate
  <2>3. CASE s = "server"
    <3>1. posted["server"] # N
      BY <2>1, <2>3, ReplyFacts
    <3>2. delivered'["server"] = 0 /\ body' = FALSE
      BY <2>1, <3>1, ReplyFacts
    <3>3. recvs'["client"] = N /\ delivered'["client"] = N /\ pc'["server"] = "pollSend"
      BY <1>1, <2>1, <2>3 DEF ReplyInv, RepliesLate
    <3>4. PongsWhole'
      BY <3>2 DEF PongsWhole
    <3> QED
      BY <3>2, <3>3, <3>4 DEF ReplyInv, RepliesLate, BodyWhole
  <2> QED
    BY <1>1, <2>2, <2>3
<1>6. CASE Reset(s) \/ PostRecv(s)
  <2>1. /\ pc[s] \in {"reset", "recv"} /\ UNCHANGED <<posted, delivered, body>>
        /\ pc'["server"] \in {pc["server"], "recv", "pollRecv"}
        /\ recvs'["client"] \in {recvs["client"], N}
    BY <1>1, <1>6, ServerAfter DEF Reset, PostRecv, Advance, wireVars
  <2> QED
    BY <1>2, <2>1, BeforeReplies DEF ReplyInv, RepliesLate
<1>7. CASE Destroy(s)
  <2>1. /\ UNCHANGED <<pc, posted, recvs, delivered, body, buf, got>>
        /\ qp'["client"] \in {qp["client"], "gone"}
    BY <1>1, <1>7 DEF Destroy, progVars, wireVars
  <2> QED
    BY <2>1, BuffersRest
<1> QED
  BY <1>3, <1>4, <1>5, <1>6, <1>7

(* A poll zeroes bytes of the messages it counts, which were delivered     *)
(* entirely: the pong that is landing is not among them.                   *)
LEMMA PollReplies ==
  ASSUME IndInv, ReplyInv, NEW s \in Sides, Poll(s)
  PROVE  ReplyInv'
<1>1. /\ pc \in [Sides -> Stages] /\ "client" \in Sides /\ "server" \in Sides
      /\ s \in {"client", "server"} /\ N \in Nat \ {0}
      /\ buf \in [Sides -> [Msgs -> {"junk", "ping", "cut", "zero"}]]
  BY NAssumption DEF IndInv, Types, Sides
<1>2. /\ pc[s] \in {"pollSend", "pollRecv"}
      /\ UNCHANGED <<qp, posted, recvs, delivered, body, got>>
  BY DEF Poll, wireVars
<1>3. PICK n \in 1..(IF Checks(s) THEN N - ncomp[s] ELSE 1) :
        /\ n <= Len(cq[s])
        /\ \/ pc' = [pc EXCEPT ![s] = "failed"] /\ UNCHANGED <<ncomp, buf>>
           \/ CountPolled(s, n)
  BY DEF Poll
<1>4. n \in Nat /\ n <= Len(cq[s])
  BY <1>1, <1>3, SideFacts
<1>5. \/ buf' = buf
      \/ /\ pc[s] = "pollRecv"
         /\ buf' = [buf EXCEPT ![s] = [i \in Msgs |->
                      IF i \in ncomp[s]+1..ncomp[s]+n THEN Cut(buf[s][i]) ELSE buf[s][i]]]
  BY <1>2, <1>3 DEF CountPolled
<1>6. pc' = pc \/ pc' = [pc EXCEPT ![s] = "failed"] \/ pc' = [pc EXCEPT ![s] = After(s, pc[s])]
  BY <1>3 DEF CountPolled, Advance
<1>7. \/ pc'["server"] \in {pc["server"], "done", "failed"}
      \/ pc["server"] = "pollRecv" /\ pc'["server"] = "nap"
  BY <1>1, <1>2, <1>6, ServerAfter
<1>8. pc["server"] = "pollRecv" => posted["server"] # N
  BY ReplyFacts
<1>9. CASE buf' = buf
  BY <1>2, <1>7, <1>8, <1>9, BuffersRest
<1>10. CASE posted["server"] # N
  <2>1. pc'["server"] = "send" => recvs'["client"] = N /\ delivered'["client"] = N
    BY <1>2, <1>7 DEF ReplyInv, RepliesLate
  <2> QED
    BY <1>2, <1>10, <2>1, BeforeReplies
<1>11. CASE buf' # buf /\ posted["server"] = N
  <2>1. s = "client" /\ pc["client"] = "pollRecv"
    BY <1>1, <1>5, <1>11, ReplyFacts
  <2>2. buf'["server"] = buf["server"]
    BY <1>1, <1>5, <1>11, <2>1
  <2>3. RepliesLate'
    <3>1. pc'["server"] = pc["server"]
      BY <1>1, <1>6, <2>1
    <3> QED
      BY <1>2, <3>1 DEF ReplyInv, RepliesLate
  <2>4. PongsWhole'
    BY <1>2, <2>2 DEF ReplyInv, PongsWhole
  <2>5. ASSUME body, qp["client"] = "rts"
        PROVE  buf'["client"][delivered["server"] + 1] = buf["client"][delivered["server"] + 1]
    <3>1. /\ Len(cq["client"]) + ncomp["client"] = Generated("client", "recv")
          /\ Len(cq["client"]) \in Nat /\ ncomp["client"] \in Nat
      BY <1>1, <2>1, SideFacts DEF SideRight, LoopRight, Finished, Kind, InSecond, Second
    <3>2. Generated("client", "recv") = delivered["server"]
      BY <2>5 DEF Generated, Peer
    <3>3. delivered["server"] \in Nat
      BY ReplyFacts
    <3>4. ncomp["client"] + n <= delivered["server"]
      BY <1>4, <2>1, <3>1, <3>2, <3>3
    <3>5. delivered["server"] + 1 \notin ncomp["client"]+1..ncomp["client"]+n
      BY <1>4, <3>1, <3>3, <3>4
    <3>6. delivered["server"] + 1 \in Msgs
      BY <1>1, <2>5, <3>3 DEF ReplyInv, BodyWhole, Msgs
    <3> QED
      BY <1>1, <1>5, <1>11, <2>1, <3>5, <3>6
  <2>6. BodyWhole'
    BY <1>2, <2>2, <2>5 DEF ReplyInv, BodyWhole
  <2> QED
    BY <2>3, <2>4, <2>6 DEF ReplyInv
<1> QED
  BY <1>9, <1>10, <1>11

LEMMA LandBodyReplies ==
  ASSUME IndInv, ReplyInv, LandBody
  PROVE  ReplyInv'
<1> DEFINE i == delivered["server"] + 1
<1>1. /\ "client" \in Sides /\ "server" \in Sides /\ N \in Nat \ {0}
      /\ posted["server"] \in {0, N} /\ delivered["server"] \in Nat
      /\ buf \in [Sides -> [Msgs -> {"junk", "ping", "cut", "zero"}]]
  BY NAssumption, ReplyFacts DEF IndInv, Types, Sides
<1>2. /\ delivered["server"] < posted["server"]
      /\ UNCHANGED <<pc, qp, posted, recvs, delivered, got>>
      /\ buf' = [buf EXCEPT !["client"][i] = buf["server"][i]]
  BY DEF LandBody, Sending, progVars
<1>3. posted["server"] = N /\ i \in Msgs
  BY <1>1, <1>2 DEF Msgs
<1>4. buf'["server"] = buf["server"] /\ buf'["client"][i] = buf["server"][i]
  BY <1>1, <1>2, <1>3
<1> HIDE DEF i
<1>5. RepliesLate'
  BY <1>2 DEF ReplyInv, RepliesLate
<1>6. BodyWhole'
  BY <1>2, <1>3, <1>4 DEF BodyWhole, i
<1>7. PongsWhole'
  BY <1>2, <1>4 DEF ReplyInv, PongsWhole
<1> QED
  BY <1>5, <1>6, <1>7 DEF ReplyInv

LEMMA DeliverReplies ==
  ASSUME IndInv, ReplyInv, NEW s \in Sides, Deliver(s)
  PROVE  ReplyInv'
<1> DEFINE i == delivered["server"] + 1
<1>1. /\ "client" \in Sides /\ "server" \in Sides /\ N \in Nat \ {0} /\ s \in {"client", "server"}
      /\ delivered \in [Sides -> Nat] /\ posted["server"] \in {0, N}
      /\ posted["client"] \in {0, N} /\ got \in [Msgs -> {"junk", "ping", "cut", "zero", "torn"}]
  BY NAssumption DEF IndInv, Types, Sides
<1>2. /\ delivered[s] < posted[s] /\ qp["client"] = "rts"
      /\ UNCHANGED <<pc, qp, posted, recvs>>
      /\ delivered' = [delivered EXCEPT ![s] = delivered[s] + 1]
      /\ s = "client" => body' = body
      /\ s = "server" => body /\ body' = FALSE /\ buf' = buf
  BY <1>1 DEF Deliver, Connected, Sending, progVars
<1>3. CASE s = "client"
  <2>1. posted["client"] # delivered["client"]
    BY <1>1, <1>2, <1>3
  <2>2. posted["server"] # N
    BY <2>1, ReplyFacts
  <2>3. pc["server"] # "send"
    BY <1>1, <1>2, <1>3 DEF ReplyInv, RepliesLate
  <2>4. delivered'["server"] = delivered["server"]
    BY <1>1, <1>2, <1>3
  <2> QED
    BY <1>2, <1>3, <2>2, <2>3, <2>4, BeforeReplies
<1>4. CASE s = "server"
  <2>1. /\ delivered'["server"] = i /\ delivered'["client"] = delivered["client"]
        /\ i \in Msgs
    BY <1>1, <1>2, <1>4 DEF Msgs
  <2>2. got' = [got EXCEPT ![i] = IF buf["client"][i] = buf["server"][i]
                                  THEN buf["client"][i] ELSE "torn"]
    BY <1>4 DEF Deliver
  <2>3. buf["client"][i] = buf["server"][i]
    BY <1>2, <1>4 DEF ReplyInv, BodyWhole
  <2>4. RepliesLate' /\ BodyWhole'
    BY <1>2, <1>4, <2>1 DEF ReplyInv, RepliesLate, BodyWhole
  <2>5. ASSUME NEW k \in 1..i
        PROVE  got'[k] = buf["server"][k]
    <3>1. CASE k = i
      BY <1>1, <2>1, <2>2, <2>3, <3>1
    <3>2. CASE k # i
      <4>1. k \in 1..delivered["server"]
        BY <1>1, <3>2
      <4>2. got[k] = buf["server"][k]
        BY <4>1 DEF ReplyInv, PongsWhole
      <4>3. k \in Msgs
        BY <1>1, <2>1 DEF Msgs
      <4> QED
        BY <1>1, <2>1, <2>2, <3>2, <4>2, <4>3
    <3> QED
      BY <3>1, <3>2
  <2>6. PongsWhole'
    BY <1>2, <1>4, <2>1, <2>5 DEF PongsWhole
  <2> QED
    BY <2>4, <2>6 DEF ReplyInv
<1> QED
  BY <1>1, <1>3, <1>4

LEMMA GivesUpReplies ==
  ASSUME IndInv, ReplyInv, NEW s \in Sides,
         Ack(s) \/ PeerUnreachable(s) \/ ReceiverNotReady(s) \/ NetworkFault(s)
  PROVE  ReplyInv'
<1>1. qp \in [Sides -> {"init", "rts", "err", "gone"}] /\ "client" \in Sides
  BY DEF IndInv, Types, Sides
<1>2. /\ UNCHANGED <<pc, posted, recvs, delivered, body, buf, got>>
      /\ qp'["client"] \in {qp["client"], "err"}
  BY <1>1 DEF Ack, PeerUnreachable, ReceiverNotReady, NetworkFault, GiveUp, progVars
<1> QED
  BY <1>2, BuffersRest

LEMMA ReplyKeeps ==
  ASSUME Timely
  PROVE  IndInv /\ ReplyInv /\ [Next]_vars => ReplyInv'
<1> SUFFICES ASSUME IndInv, ReplyInv, [Next]_vars
             PROVE  ReplyInv'
  OBVIOUS
<1>1. CASE LandBody
  BY <1>1, LandBodyReplies
<1>2. ASSUME NEW s \in Sides, Step(s)
      PROVE  ReplyInv'
  BY <1>2, ProgramReplies, PollReplies DEF Step
<1>3. ASSUME NEW s \in Sides, Carry(s) \/ Hinder(s)
      PROVE  ReplyInv'
  BY <1>3, DeliverReplies, GivesUpReplies DEF Carry, Hinder
<1>4. CASE UNCHANGED vars
  BY <1>4, BuffersRest DEF vars
<1> QED
  BY <1>1, <1>2, <1>3, <1>4 DEF Next

(* When the sleeps outlast what they wait for, every pong the client gets  *)
(* is what the server's buffer held: neither the memset nor the zeroing of *)
(* messages already shown meets a write of the server into the same        *)
(* buffers, whatever the network does.                                     *)
THEOREM PongsAreWhole ==
  ASSUME Timely
  PROVE  Spec => []PongsWhole
<1>1. Init => ReplyInv
  <2>1. ASSUME Init
        PROVE  ReplyInv
    <3>1. "client" \in Sides /\ "server" \in Sides /\ N \in Nat \ {0}
      BY NAssumption DEF Sides
    <3>2. /\ pc["server"] = "connect" /\ posted["server"] = 0 /\ delivered["server"] = 0
          /\ body = FALSE
      BY <2>1, <3>1 DEF Init
    <3>3. PongsWhole
      BY <3>2 DEF PongsWhole
    <3> QED
      BY <3>1, <3>2, <3>3 DEF ReplyInv, RepliesLate, BodyWhole
  <2> QED
    BY <2>1
<1>2. IndInv /\ IndInv' /\ ReplyInv /\ [Next]_vars => ReplyInv'
  BY ReplyKeeps
<1>3. ReplyInv => PongsWhole
  BY DEF ReplyInv
<1> QED
  BY <1>1, <1>2, <1>3, Invariance, PTL DEF Spec
=============================================================================
