---------------------------- MODULE Setup_proofs ----------------------------
(***************************************************************************)
(* Theorems about what a program sets up before it has a peer: its port    *)
(* (PortBringUp, for every number of faults) and its queue pair            *)
(* (DvQueuePair, for all capabilities within the assumptions of that       *)
(* module, all numbers of objects and all page sizes).  The two are        *)
(* independent of each other and have no name in common.                   *)
(***************************************************************************)
EXTENDS PortBringUp, DvQueuePair, TLAPS

------------------------------------------------------------------------------
(*                                 The port                                *)


(***************************************************************************)
(* The inductive invariant: no port is up unless it was raised, and the    *)
(* other end of its cable with it.  It rests on the writes of              *)
(* pp_config_port never taking a port down.                                *)
(***************************************************************************)
UpMeansRaised ==
  /\ port["server"].admin = MLX5_PORT_UP
  /\ \A s \in Sides : port[s].state # IBV_PORT_DOWN => Raised(s)

PortInv == TypeOK /\ UpMeansRaised /\ ReadyIsReal

------------------------------------------------------------------------------
(***************************************************************************)
(* What a MAD says is what the port is: the address survives its two bytes *)
(* and the state its nibble.  A MAD that was refused says that the port    *)
(* cannot be used.                                                         *)
(***************************************************************************)
LEMMA DecodesPortInfo ==
  ASSUME NEW p \in Ports
  PROVE  Decode(PortInfo(p)) = [lid |-> p.lid, state |-> p.state]
<1>1. p.lid \in {258, 65535} /\ p.state \in 1..5
  BY DEF Ports, States, Lid, NoLid, IBV_PORT_DOWN, IBV_PORT_ACTIVE_DEFER
<1>2. 256 * (p.lid \div 256) + (p.lid % 256) = p.lid
  BY ONLY <1>1
<1>3. (16 * 3 + p.state) % 16 = p.state
  BY ONLY <1>1
<1> QED
  BY <1>2, <1>3 DEF Decode, PortInfo

LEMMA DecodesNothing ==
  /\ Decode(NoPortInfo) = [lid |-> 0, state |-> IBV_PORT_NOP]
  /\ \A s \in Sides : ~Usable(s, Decode(NoPortInfo))
<1>1. Decode(NoPortInfo) = [lid |-> 0, state |-> 0]
  BY DEF Decode, NoPortInfo
<1> QED
  BY <1>1 DEF Usable, IBV_PORT_NOP, IBV_PORT_ACTIVE

(***************************************************************************)
(* One lemma for each kind of step.                                        *)
(***************************************************************************)

(* Programs that are not ready change stage, and nothing else happens.     *)
LEMMA GotoKeeps ==
  ASSUME PortInv, NEW s \in Sides, NEW stage \in Stages \ {"ready"}, Goto(s, stage),
         UNCHANGED <<cabled, port, paos, attr, asked, faults>>, lost' \in BOOLEAN
  PROVE  PortInv'
<1>1. TypeOK'
  BY DEF PortInv, TypeOK, Goto
<1>2. UpMeansRaised'
  BY DEF PortInv, UpMeansRaised, Raised
<1>3. \A t \in Sides : Ready(t)' => Ready(t)
  BY DEF PortInv, TypeOK, Goto, Ready
<1>4. ReadyIsReal'
  BY <1>3 DEF PortInv, ReadyIsReal
<1> QED
  BY <1>1, <1>2, <1>4 DEF PortInv

(* A call of pp_config_port raises the vfio client's port or leaves it.    *)
LEMMA AccessRegKeeps ==
  ASSUME PortInv, NEW in \in [admin_status : {0, MLX5_PORT_UP}, ase : {0, 1}],
         NEW write \in BOOLEAN, write => in.admin_status = MLX5_PORT_UP,
         NEW next \in {"paos_set", "paos_check", "mad_ifc"},
         AccessReg(in, write, next)
  PROVE  PortInv'
<1> DEFINE old == port["vfio"].admin
           new == Admin(old, in, write)
<1>1. new \in {old, MLX5_PORT_UP}
  <2>1. CASE write
    BY <2>1 DEF Admin
  <2>2. CASE ~write
    BY <2>2 DEF Admin, op_mod, MLX5_ACCESS_REGISTER_IN_OP_MOD_WRITE
  <2> QED
    BY <2>1, <2>2
<1>2. PICK a \in {old, MLX5_PORT_UP}, stage \in {next, "mad_ifc"} :
        /\ port' = [port EXCEPT !["vfio"].admin = a] /\ Goto("vfio", stage)
        /\ paos' = in /\ lost' \in BOOLEAN /\ UNCHANGED <<cabled, attr, asked, faults>>
  <2>1. port = [port EXCEPT !["vfio"].admin = old]
    BY DEF PortInv, TypeOK, Ports
  <2>2. UNCHANGED lost => lost' \in BOOLEAN
    BY DEF PortInv, TypeOK
  <2>3. /\ paos' = in /\ UNCHANGED <<cabled, attr, asked, faults>>
        /\ \/ port' = [port EXCEPT !["vfio"].admin = new] /\ Goto("vfio", next) /\ UNCHANGED lost
           \/ /\ port' \in {port, [port EXCEPT !["vfio"].admin = new]}
              /\ Goto("vfio", "mad_ifc") /\ lost' = TRUE
    BY DEF AccessReg
  <2> HIDE DEF new, old
  <2> QED
    BY <1>1, <2>1, <2>2, <2>3
<1>3. a \in {MLX5_PORT_UP, MLX5_PORT_DOWN} /\ (old = MLX5_PORT_UP => a = MLX5_PORT_UP)
  BY DEF PortInv, TypeOK, Ports, Sides
<1>4. TypeOK'
  <2>1. port' \in [Sides -> Ports]
    BY <1>2, <1>3 DEF PortInv, TypeOK, Ports, Sides
  <2>2. pc' \in [Sides -> Stages]
    BY <1>2 DEF PortInv, TypeOK, Goto, Stages
  <2> QED
    BY <1>2, <2>1, <2>2 DEF PortInv, TypeOK
<1>5. \A s \in Sides : port'[s].state = port[s].state
                       /\ (port[s].admin = MLX5_PORT_UP => port'[s].admin = MLX5_PORT_UP)
  BY <1>2, <1>3 DEF PortInv, TypeOK, Ports, Sides
<1>6. UpMeansRaised'
  BY <1>2, <1>5 DEF PortInv, UpMeansRaised, Raised, Sides, Other
<1>7. ReadyIsReal'
  <2>1. \A s \in Sides : Ready(s)' => Ready(s)
    BY <1>2 DEF PortInv, TypeOK, Goto, Ready
  <2> QED
    BY <1>2, <1>5, <2>1 DEF PortInv, ReadyIsReal, Sides
<1> QED
  BY <1>4, <1>6, <1>7 DEF PortInv

(* An answer that is the truth, or one that cannot be used.                *)
LEMMA AnswerKeeps ==
  ASSUME PortInv, NEW s \in Sides, ~Ready(s), faults' \in 0..MaxFaults,
         NEW a \in [lid : {0, Lid, NoLid}, state : {IBV_PORT_NOP} \cup States],
         a = [lid |-> port[s].lid, state |-> port[s].state] \/ ~Usable(s, a),
         Answer(s, a)
  PROVE  PortInv'
<1>1. /\ attr' = [attr EXCEPT ![s] = a] /\ asked' = [asked EXCEPT ![s] = port[s]]
      /\ pc' \in {pc, [pc EXCEPT ![s] = "ready"]}
      /\ ~Usable(s, a) => pc' = pc
      /\ UNCHANGED <<cabled, port, paos, lost>>
  BY DEF Answer, Goto
<1>2. TypeOK'
  BY <1>1 DEF PortInv, TypeOK, Stages
<1>3. UpMeansRaised'
  BY <1>1 DEF PortInv, UpMeansRaised, Raised
<1>4. ASSUME NEW t \in Sides, Ready(t)', t # s
      PROVE  Ready(t) /\ attr'[t] = attr[t] /\ asked'[t] = asked[t]
  BY <1>1, <1>4 DEF PortInv, TypeOK, Ready
<1>5. ASSUME Ready(s)'
      PROVE  /\ Usable(s, a) /\ a = [lid |-> port[s].lid, state |-> port[s].state]
             /\ attr'[s] = a /\ asked'[s] = port[s]
  BY <1>1, <1>5 DEF PortInv, TypeOK, Ready
<1>6. ASSUME Ready(s)'
      PROVE  /\ port[s].state \in {IBV_PORT_ACTIVE, IBV_PORT_ACTIVE_DEFER}
             /\ s = "vfio" => port[s].lid # NoLid
             /\ Raised(s)
  <2>1. port[s] \in Ports
    BY DEF PortInv, TypeOK
  <2>2. port[s].state \in 1..5 /\ (s = "vfio" => port[s].state >= 4 /\ port[s].lid # NoLid)
                               /\ (s # "vfio" => port[s].state = 4)
    BY <1>5, <1>6, <2>1 DEF Usable, Ports, States, IBV_PORT_DOWN, IBV_PORT_ACTIVE, IBV_PORT_ACTIVE_DEFER
  <2>3. port[s].state # IBV_PORT_DOWN
    BY <2>2 DEF IBV_PORT_DOWN
  <2> QED
    BY <2>2, <2>3 DEF PortInv, UpMeansRaised, IBV_PORT_ACTIVE, IBV_PORT_ACTIVE_DEFER
<1>7. ReadyIsReal'
  <2>1. ASSUME NEW t \in Sides, Ready(t)', t # s
        PROVE  ReadyIsReal!(t)!2'
    BY <1>1, <1>4, <2>1 DEF PortInv, ReadyIsReal
  <2>2. ASSUME Ready(s)'
        PROVE  ReadyIsReal!(s)!2'
    BY <1>1, <1>5, <1>6, <2>2 DEF Raised, Sides, Other
  <2> QED
    BY <2>1, <2>2 DEF ReadyIsReal
<1> QED
  BY <1>2, <1>3, <1>7 DEF PortInv

(* The fabric: no port becomes up that was not raised.                     *)
LEMMA PortsKeep ==
  ASSUME PortInv, port' \in [Sides -> Ports], faults' \in 0..MaxFaults,
         UNCHANGED <<cabled, pc, paos, attr, asked, lost>>,
         \A s \in Sides : /\ port'[s].admin = port[s].admin
                          /\ port'[s].state # IBV_PORT_DOWN => Raised(s)
  PROVE  PortInv'
<1>1. TypeOK'
  BY DEF PortInv, TypeOK
<1>2. UpMeansRaised'
  BY DEF PortInv, UpMeansRaised, Raised, Sides, Other
<1>3. ReadyIsReal'
  BY DEF PortInv, ReadyIsReal, Ready, Sides
<1> QED
  BY <1>1, <1>2, <1>3 DEF PortInv

LEMMA PortStepKeeps ==
  ASSUME PortInv, NEW s \in Sides, NEW new \in Ports, PortStep(s, new),
         faults' \in 0..MaxFaults, new.admin = port[s].admin,
         new.state # IBV_PORT_DOWN => Raised(s)
  PROVE  PortInv'
<1>1. /\ port' = [port EXCEPT ![s] = new] /\ port \in [Sides -> Ports]
      /\ UNCHANGED <<cabled, pc, paos, attr, asked, lost>>
  BY DEF PortStep, PortInv, TypeOK
<1>2. \A t \in Sides : /\ port'[t].admin = port[t].admin
                       /\ port'[t].state # IBV_PORT_DOWN => Raised(t)
  BY <1>1 DEF PortInv, UpMeansRaised
<1>3. port' \in [Sides -> Ports]
  BY <1>1
<1> QED
  BY <1>1, <1>2, <1>3, PortsKeep

------------------------------------------------------------------------------
LEMMA InitHolds == Init => PortInv
<1> SUFFICES ASSUME Init
             PROVE  PortInv
  OBVIOUS
<1> USE DEF Init
<1>1. PICK a \in {MLX5_PORT_UP, MLX5_PORT_DOWN} :
        port = [s \in Sides |-> [Down EXCEPT !.admin =
                  IF s = "vfio" THEN a ELSE MLX5_PORT_UP]]
  OBVIOUS
<1>2. Down \in Ports
  BY DEF Down, Ports, States, IBV_PORT_DOWN, IBV_PORT_ACTIVE_DEFER
<1>3. \A s \in Sides : /\ port[s] \in Ports /\ port[s].state = IBV_PORT_DOWN
                       /\ s # "vfio" => port[s].admin = MLX5_PORT_UP
  BY <1>1, <1>2 DEF Down, Ports
<1>4. TypeOK
  <2>1. port \in [Sides -> Ports]
    BY <1>1, <1>3
  <2>2. asked \in [Sides -> Ports] /\ lost \in BOOLEAN /\ cabled \in BOOLEAN
    BY <1>2
  <2>3. faults \in 0..MaxFaults
    BY BoundAssumption
  <2>4. pc \in [Sides -> Stages]
    BY DEF Stages
  <2>5. attr \in [Sides -> [lid : {0, Lid, NoLid}, state : {IBV_PORT_NOP} \cup States]]
    OBVIOUS
  <2>6. paos \in [admin_status : {0, MLX5_PORT_UP}, ase : {0, 1}]
    OBVIOUS
  <2> QED
    BY <2>1, <2>2, <2>3, <2>4, <2>5, <2>6 DEF TypeOK
<1>5. UpMeansRaised
  BY <1>3 DEF UpMeansRaised, Sides
<1>6. ReadyIsReal
  BY DEF ReadyIsReal, Ready
<1> QED
  BY <1>4, <1>5, <1>6 DEF PortInv

LEMMA VfioKeeps == PortInv /\ Vfio => PortInv'
<1> SUFFICES ASSUME PortInv, Vfio
             PROVE  PortInv'
  OBVIOUS
<1>t. TypeOK /\ "vfio" \in Sides /\ port["vfio"] \in Ports
  BY DEF PortInv, TypeOK, Sides
<1>1. CASE pp_query_hca_cap \/ setup_sighandler \/ setup_event_routine
  <2>1. \E stage \in Stages \ {"ready"} : Goto("vfio", stage)
    BY <1>1 DEF pp_query_hca_cap, setup_sighandler, setup_event_routine, Call, Stages
  <2>2. UNCHANGED <<cabled, port, paos, attr, asked, lost, faults>>
    BY <1>1 DEF pp_query_hca_cap, setup_sighandler, setup_event_routine, Call
  <2>3. lost' \in BOOLEAN
    BY <1>t, <2>2 DEF TypeOK
  <2> QED
    BY <1>t, <2>1, <2>2, <2>3, GotoKeeps
<1>2. CASE PaosQuery
  <2> DEFINE reg == [admin_status |-> 0, ase |-> 0]
  <2>1. reg \in [admin_status : {0, MLX5_PORT_UP}, ase : {0, 1}] /\ AccessReg(reg, FALSE, "paos_set")
    BY <1>2 DEF PaosQuery
  <2> HIDE DEF reg
  <2> QED
    BY <2>1, AccessRegKeeps
<1>3. CASE PaosSet
  <2> DEFINE reg == [paos EXCEPT !.admin_status = MLX5_PORT_UP, !.ase = 1]
  <2>1. reg \in [admin_status : {0, MLX5_PORT_UP}, ase : {0, 1}]
    BY <1>t DEF TypeOK
  <2>2. reg.admin_status = MLX5_PORT_UP
    BY <1>t DEF TypeOK
  <2>3. AccessReg(reg, TRUE, "paos_check")
    BY <1>3 DEF PaosSet
  <2> HIDE DEF reg
  <2> QED
    BY <2>1, <2>2, <2>3, AccessRegKeeps
<1>4. CASE PaosCheck
  <2>1. paos \in [admin_status : {0, MLX5_PORT_UP}, ase : {0, 1}] /\ AccessReg(paos, FALSE, "mad_ifc")
    BY <1>t, <1>4 DEF PaosCheck, TypeOK
  <2> QED
    BY <2>1, AccessRegKeeps
<1>5. CASE MadIfcPort
  <2> DEFINE a == [lid |-> port["vfio"].lid, state |-> port["vfio"].state]
  <2>1. Answer("vfio", a) /\ ~Ready("vfio") /\ faults' \in 0..MaxFaults
    BY <1>t, <1>5, DecodesPortInfo DEF MadIfcPort, Ready, TypeOK
  <2>2. a \in [lid : {0, Lid, NoLid}, state : {IBV_PORT_NOP} \cup States]
    BY <1>t DEF Ports
  <2> QED
    BY <1>t, <2>1, <2>2, AnswerKeeps
<1> QED
  BY <1>1, <1>2, <1>3, <1>4, <1>5 DEF Vfio

LEMMA FabricKeeps ==
  ASSUME PortInv, NEW s \in Sides, Fabric(s) \/ Defer(s)
  PROVE  PortInv'
<1> DEFINE p == port[s]
<1>1. /\ p \in Ports /\ p.state \in 1..5 /\ faults \in 0..MaxFaults
      /\ p.state # IBV_PORT_DOWN => Raised(s)
  BY DEF PortInv, TypeOK, UpMeansRaised, Ports, States, IBV_PORT_DOWN, IBV_PORT_ACTIVE_DEFER
<1>2. CASE LinkUp(s)
  <2>1. PortStep(s, [p EXCEPT !.state = IBV_PORT_INIT]) /\ Raised(s) /\ faults' = faults
    BY <1>2 DEF LinkUp
  <2>2. [p EXCEPT !.state = IBV_PORT_INIT] \in Ports
    BY <1>1 DEF Ports, States, IBV_PORT_INIT, IBV_PORT_DOWN, IBV_PORT_ACTIVE_DEFER
  <2>3. [p EXCEPT !.state = IBV_PORT_INIT].admin = p.admin
    BY <1>1 DEF Ports
  <2> QED
    BY <1>1, <2>1, <2>2, <2>3, PortStepKeeps
<1>3. CASE SmAssign(s)
  <2>1. PortStep(s, [p EXCEPT !.lid = Lid]) /\ Raised(s) /\ faults' = faults
    BY <1>1, <1>3 DEF SmAssign
  <2>2. [p EXCEPT !.lid = Lid] \in Ports /\ [p EXCEPT !.lid = Lid].admin = p.admin
    BY <1>1 DEF Ports
  <2> QED
    BY <1>1, <2>1, <2>2, PortStepKeeps
<1>4. CASE SmActivate(s)
  <2>1. /\ PortStep(s, [p EXCEPT !.state = p.state + 1]) /\ p.state \in 2..3 /\ faults' = faults
    BY <1>4 DEF SmActivate, IBV_PORT_INIT, IBV_PORT_ARMED
  <2>2. [p EXCEPT !.state = p.state + 1] \in Ports /\ Raised(s)
    BY <1>1, <2>1 DEF Ports, States, IBV_PORT_DOWN, IBV_PORT_ACTIVE_DEFER
  <2>3. [p EXCEPT !.state = p.state + 1].admin = p.admin
    BY <1>1 DEF Ports
  <2> QED
    BY <1>1, <2>1, <2>2, <2>3, PortStepKeeps
<1>5. CASE Recover(s)
  <2>1. /\ PortStep(s, [p EXCEPT !.state = IBV_PORT_ACTIVE]) /\ p.state = 5 /\ faults' = faults
    BY <1>5 DEF Recover, IBV_PORT_ACTIVE_DEFER
  <2>2. [p EXCEPT !.state = IBV_PORT_ACTIVE] \in Ports /\ Raised(s)
    BY <1>1, <2>1 DEF Ports, States, IBV_PORT_DOWN, IBV_PORT_ACTIVE, IBV_PORT_ACTIVE_DEFER
  <2>3. [p EXCEPT !.state = IBV_PORT_ACTIVE].admin = p.admin
    BY <1>1 DEF Ports
  <2> QED
    BY <1>1, <2>1, <2>2, <2>3, PortStepKeeps
<1>6. CASE Defer(s)
  <2>1. /\ PortStep(s, [p EXCEPT !.state = IBV_PORT_ACTIVE_DEFER]) /\ p.state = 4
        /\ faults' \in 0..MaxFaults
    BY <1>1, <1>6, BoundAssumption DEF Defer, IBV_PORT_ACTIVE
  <2>2. [p EXCEPT !.state = IBV_PORT_ACTIVE_DEFER] \in Ports /\ Raised(s)
    BY <1>1, <2>1 DEF Ports, States, IBV_PORT_DOWN, IBV_PORT_ACTIVE_DEFER
  <2>3. [p EXCEPT !.state = IBV_PORT_ACTIVE_DEFER].admin = p.admin
    BY <1>1 DEF Ports
  <2> QED
    BY <1>1, <2>1, <2>2, <2>3, PortStepKeeps
<1> QED
  BY <1>2, <1>3, <1>4, <1>5, <1>6 DEF Fabric

LEMMA DropKeeps ==
  ASSUME PortInv, NEW s \in Sides, Drop(s)
  PROVE  PortInv'
<1>1. /\ port \in [Sides -> Ports] /\ faults' \in 0..MaxFaults
      /\ UNCHANGED <<cabled, pc, paos, attr, asked, lost>>
  <2>1. faults \in 0..MaxFaults /\ faults < MaxFaults /\ faults' = faults + 1
    BY DEF Drop, PortInv, TypeOK
  <2>2. UNCHANGED <<cabled, pc, paos, attr, asked, lost>>
    BY DEF Drop
  <2>3. faults' \in 0..MaxFaults
    BY ONLY <2>1, BoundAssumption
  <2> QED
    BY <2>2, <2>3 DEF PortInv, TypeOK
<1>2. PICK lid \in {port[s].lid, NoLid} :
        port' = [t \in Sides |->
          IF t = s THEN [port[t] EXCEPT !.state = IBV_PORT_DOWN, !.lid = lid]
          ELSE IF cabled THEN [port[t] EXCEPT !.state = IBV_PORT_DOWN] ELSE port[t]]
  BY DEF Drop
<1>3. IBV_PORT_DOWN \in States
  BY DEF States, IBV_PORT_DOWN, IBV_PORT_ACTIVE_DEFER
<1>4. ASSUME NEW t \in Sides
      PROVE  /\ port'[t] \in Ports /\ port'[t].admin = port[t].admin
             /\ port'[t].state \in {IBV_PORT_DOWN, port[t].state}
  <2>1. port[t] \in Ports /\ port[s] \in Ports
    BY <1>1
  <2>2. CASE t = s
    BY <1>2, <1>3, <2>1, <2>2 DEF Ports
  <2>3. CASE t # s
    BY <1>2, <1>3, <2>1, <2>3 DEF Ports
  <2> QED
    BY <2>2, <2>3
<1>5. port' \in [Sides -> Ports]
  BY <1>2, <1>4
<1>6. \A t \in Sides : port'[t].state # IBV_PORT_DOWN => Raised(t)
  BY <1>4 DEF PortInv, UpMeansRaised
<1> QED
  BY <1>1, <1>4, <1>5, <1>6, PortsKeep

LEMMA NextKeeps == PortInv /\ [Next]_vars => PortInv'
<1> SUFFICES ASSUME PortInv, [Next]_vars
             PROVE  PortInv'
  OBVIOUS
<1>t. TypeOK /\ port \in [Sides -> Ports]
  BY DEF PortInv, TypeOK
<1>1. CASE Vfio
  BY <1>1, VfioKeeps
<1>2. CASE MadRefused
  <2>1. /\ Answer("vfio", Decode(NoPortInfo)) /\ ~Ready("vfio") /\ "vfio" \in Sides
        /\ faults' \in 0..MaxFaults
    BY <1>t, <1>2, BoundAssumption DEF MadRefused, Ready, TypeOK, Sides
  <2>2. Decode(NoPortInfo) \in [lid : {0, Lid, NoLid}, state : {IBV_PORT_NOP} \cup States]
    BY DecodesNothing
  <2> QED
    BY <2>1, <2>2, DecodesNothing, AnswerKeeps
<1>3. CASE QueryPort
  <2> DEFINE a == [lid |-> port["server"].lid, state |-> port["server"].state]
  <2>1. Answer("server", a) /\ ~Ready("server") /\ "server" \in Sides /\ faults' \in 0..MaxFaults
    BY <1>t, <1>3 DEF QueryPort, Ready, TypeOK, Sides
  <2>2. a \in [lid : {0, Lid, NoLid}, state : {IBV_PORT_NOP} \cup States]
    BY <1>t, <2>1 DEF Ports
  <2> QED
    BY <2>1, <2>2, AnswerKeeps
<1>4. ASSUME NEW s \in Sides, QueryFails(s)
      PROVE  PortInv'
  <2>1. /\ Goto(s, "failed") /\ "failed" \in Stages \ {"ready"} /\ lost' \in BOOLEAN
        /\ UNCHANGED <<cabled, port, paos, attr, asked, faults>>
    BY <1>t, <1>4 DEF QueryFails, Stages, TypeOK
  <2> QED
    BY <2>1, GotoKeeps
<1>5. ASSUME NEW s \in Sides, Fabric(s) \/ Defer(s) \/ Drop(s)
      PROVE  PortInv'
  BY <1>5, FabricKeeps, DropKeeps
<1>6. CASE UNCHANGED vars
  BY <1>6 DEF vars, PortInv, TypeOK, UpMeansRaised, Raised, ReadyIsReal, Ready
<1> QED
  BY <1>1, <1>2, <1>3, <1>4, <1>5, <1>6 DEF Next

------------------------------------------------------------------------------
(* The inductive invariant holds in every reachable state: a port is up    *)
(* only if pp_config_port or an administrator raised it, and the other end *)
(* of its cable as well.                                                   *)
THEOREM PortInvariance == Spec => []PortInv
  BY InitHolds, NextKeeps, PTL DEF Spec

(* Every variable keeps its type.                                          *)
THEOREM PortTypes == Spec => []TypeOK
  BY PortInvariance, PTL DEF PortInv

(* A program that leaves its loop has the attributes of a port that was    *)
(* active and raised, the vfio client one with an address.                 *)
THEOREM ReadyHonest == Spec => []ReadyIsReal
  BY PortInvariance, PTL DEF PortInv

------------------------------------------------------------------------------
(*                              The queue pair                             *)


(***************************************************************************)
(* Powers of two, up to the largest an int holds.                          *)
(***************************************************************************)
LEMMA Powers ==
  /\ 2^0 = 1 /\ 2^1 = 2 /\ 2^2 = 4 /\ 2^3 = 8
  /\ 2^4 = 16 /\ 2^5 = 32 /\ 2^6 = 64 /\ 2^7 = 128
  /\ 2^8 = 256 /\ 2^9 = 512 /\ 2^10 = 1024 /\ 2^11 = 2048
  /\ 2^12 = 4096 /\ 2^13 = 8192 /\ 2^14 = 16384 /\ 2^15 = 32768
  /\ 2^16 = 65536 /\ 2^17 = 131072 /\ 2^18 = 262144 /\ 2^19 = 524288
  /\ 2^20 = 1048576 /\ 2^21 = 2097152 /\ 2^22 = 4194304 /\ 2^23 = 8388608
  /\ 2^24 = 16777216 /\ 2^25 = 33554432 /\ 2^26 = 67108864 /\ 2^27 = 134217728
  /\ 2^28 = 268435456 /\ 2^29 = 536870912 /\ 2^30 = 1073741824 /\ 2^31 = 2147483648
  OBVIOUS

LEMMA Exponents ==
  ASSUME NEW k \in 0..31
  PROVE  \/ k = 0 \/ k = 1 \/ k = 2 \/ k = 3 \/ k = 4 \/ k = 5
         \/ k = 6 \/ k = 7 \/ k = 8 \/ k = 9 \/ k = 10 \/ k = 11
         \/ k = 12 \/ k = 13 \/ k = 14 \/ k = 15 \/ k = 16 \/ k = 17
         \/ k = 18 \/ k = 19 \/ k = 20 \/ k = 21 \/ k = 22 \/ k = 23
         \/ k = 24 \/ k = 25 \/ k = 26 \/ k = 27 \/ k = 28 \/ k = 29
         \/ k = 30 \/ k = 31
  OBVIOUS

LEMMA Doubles ==
  ASSUME NEW k \in 0..30
  PROVE  2^k \in Nat \ {0} /\ 2^(k + 1) = 2 * 2^k
<1> DEFINE D(i) == 2^i \in Nat \ {0} /\ 2^(i + 1) = 2 * 2^i
<1>1. /\ D(0) /\ D(1) /\ D(2) /\ D(3) /\ D(4) /\ D(5) /\ D(6) /\ D(7)
      /\ D(8) /\ D(9) /\ D(10) /\ D(11) /\ D(12) /\ D(13) /\ D(14) /\ D(15)
      /\ D(16) /\ D(17) /\ D(18) /\ D(19) /\ D(20) /\ D(21) /\ D(22) /\ D(23)
      /\ D(24) /\ D(25) /\ D(26) /\ D(27) /\ D(28) /\ D(29) /\ D(30)
  BY Powers
<1> HIDE DEF D
<1>2. k \in 0..31 /\ k # 31
  OBVIOUS
<1>3. D(k)
  BY <1>1, <1>2, Exponents
<1> QED
  BY <1>3 DEF D

LEMMA PowerTyped ==
  ASSUME NEW k \in 0..31
  PROVE  2^k \in Nat \ {0}
<1>1. CASE k = 31
  BY <1>1, Powers
<1>2. CASE k \in 0..30
  BY <1>2, Doubles
<1> QED
  BY <1>1, <1>2

(* They grow with the exponent.                                            *)
LEMMA PowersGrow ==
  ASSUME NEW a \in 0..31, NEW b \in 0..31, a <= b
  PROVE  2^a <= 2^b
<1> DEFINE M(n) == \A i \in 0..n : 2^i <= 2^n
<1>1. ASSUME NEW n \in 0..30, M(n)
      PROVE  M(n + 1)
  <2> SUFFICES ASSUME NEW i \in 0..n + 1
               PROVE  2^i <= 2^(n + 1)
    OBVIOUS
  <2>1. 2^n \in Nat /\ 2^(n + 1) = 2 * 2^n
    BY Doubles
  <2>2. CASE i = n + 1
    BY <2>1, <2>2
  <2>3. CASE i \in 0..n
    <3>1. i \in 0..30
      BY <2>3
    <3>2. 2^i \in Nat
      BY <3>1, Doubles
    <3>3. 2^i <= 2^n
      BY <2>3, <1>1
    <3> QED
      BY <2>1, <3>2, <3>3
  <2> QED
    BY <2>2, <2>3
<1>2. M(0)
  OBVIOUS
<1> HIDE DEF M
<1>3. \A n \in 0..30 : M(n) => M(n + 1)
  BY <1>1
<1>4. /\ M(1) /\ M(2) /\ M(3) /\ M(4) /\ M(5) /\ M(6) /\ M(7) /\ M(8)
      /\ M(9) /\ M(10) /\ M(11) /\ M(12) /\ M(13) /\ M(14) /\ M(15)
  BY <1>2, <1>3
<1>5. /\ M(16) /\ M(17) /\ M(18) /\ M(19) /\ M(20) /\ M(21) /\ M(22) /\ M(23)
      /\ M(24) /\ M(25) /\ M(26) /\ M(27) /\ M(28) /\ M(29) /\ M(30) /\ M(31)
  BY <1>4, <1>3
<1>6. M(b)
  BY <1>2, <1>4, <1>5, Exponents
<1> QED
  BY <1>6 DEF M

LEMMA PowersOrder ==
  ASSUME NEW a \in 0..31, NEW b \in 0..31
  PROVE  /\ a < b => 2 * 2^a <= 2^b
         /\ 2^a < 2^b => a < b
<1>1. 2^a \in Nat /\ 2^b \in Nat
  BY PowerTyped
<1>2. ASSUME a < b
      PROVE  2 * 2^a <= 2^b
  <2>1. a \in 0..30 /\ (a + 1) \in 0..31 /\ a + 1 <= b
    BY <1>2
  <2>2. 2^(a + 1) = 2 * 2^a
    BY <2>1, Doubles
  <2>3. 2^(a + 1) <= 2^b
    BY <2>1, PowersGrow
  <2> QED
    BY <2>2, <2>3
<1>3. ASSUME 2^a < 2^b, ~(a < b)
      PROVE  FALSE
  <2>0. b <= a
    BY <1>3
  <2>1. 2^b <= 2^a
    BY <2>0, PowersGrow
  <2> QED
    BY <1>1, <1>3, <2>1
<1> QED
  BY <1>2, <1>3

LEMMA Sixtyfourfold ==
  ASSUME NEW k \in 0..25
  PROVE  2^(k + 6) = 64 * 2^k /\ 2^k \in Nat
<1> DEFINE S(i) == 2^(i + 6) = 64 * 2^i /\ 2^i \in Nat
<1>1. /\ S(0) /\ S(1) /\ S(2) /\ S(3) /\ S(4) /\ S(5) /\ S(6) /\ S(7)
      /\ S(8) /\ S(9) /\ S(10) /\ S(11) /\ S(12) /\ S(13) /\ S(14) /\ S(15)
      /\ S(16) /\ S(17) /\ S(18) /\ S(19) /\ S(20) /\ S(21) /\ S(22) /\ S(23)
      /\ S(24) /\ S(25)
  BY Powers
<1> HIDE DEF S
<1>2. k \in 0..31 /\ k < 26
  OBVIOUS
<1>3. S(k)
  BY <1>1, <1>2, Exponents
<1> QED
  BY <1>3 DEF S

(***************************************************************************)
(* Lengths in bits, and rounding up.                                       *)
(***************************************************************************)
LEMMA QuotientBounds ==
  ASSUME NEW a \in Nat, NEW b \in Nat \ {0}, NEW lo \in Nat, NEW hi \in Nat,
         lo * b <= a, a < hi * b
  PROVE  (a \div b) \in Nat /\ lo <= (a \div b) /\ (a \div b) < hi
<1>1. PICK q \in Int, r \in 0..b-1 : a = b * q + r /\ q = a \div b
  <2>1. (a \div b) \in Int /\ (a % b) \in 0..b-1 /\ a = b * (a \div b) + (a % b)
    OBVIOUS
  <2> QED
    BY <2>1
<1>2. lo <= q
  <2>1. lo * b < (q + 1) * b
    BY <1>1
  <2> QED
    BY <2>1
<1>3. q < hi
  <2>1. q * b < hi * b
    BY <1>1
  <2> QED
    BY <2>1
<1> QED
  BY <1>1, <1>2, <1>3

LEMMA QuotientIsOne ==
  ASSUME NEW v \in Nat, NEW p \in Nat \ {0}
  PROVE  v \div p = 1 <=> p <= v /\ v < 2 * p
  OBVIOUS

(* Every number has a length.                                              *)
LEMMA LengthExists ==
  ASSUME NEW v \in Nat \ {0}, v < 2^31
  PROVE  \E m \in 0..30 : 2^m <= v /\ v < 2^(m + 1)
  BY Powers

LEMMA IlogsRight ==
  ASSUME NEW v \in Nat \ {0}, NEW m \in 0..30, 2^m <= v, v < 2^(m + 1)
  PROVE  ilog32(v) = m + 1 /\ ilog64(v) = m + 1
<1>1. \A k \in 1..31 : v \div 2^(31 - k) = 1 <=> k = 31 - m
  <2> SUFFICES ASSUME NEW k \in 1..31
               PROVE  v \div 2^(31 - k) = 1 <=> k = 31 - m
    OBVIOUS
  <2> DEFINE n == 31 - k
  <2>1. n \in 0..30 /\ n \in 0..31 /\ m \in 0..31
    OBVIOUS
  <2>2. 2^n \in Nat \ {0} /\ 2^m \in Nat \ {0} /\ v < 2 * 2^m
    BY <2>1, Doubles
  <2>3. v \div 2^n = 1 <=> 2^n <= v /\ v < 2 * 2^n
    BY <2>2, QuotientIsOne
  <2>4. m < n => 2 * 2^m <= 2^n
    BY <2>1, PowersOrder
  <2>5. n < m => 2 * 2^n <= 2^m
    BY <2>1, PowersOrder
  <2>6. v \div 2^n = 1 <=> n = m
    <3> HIDE DEF n
    <3> QED
      BY <2>1, <2>2, <2>3, <2>4, <2>5
  <2> QED
    BY <2>6
<1>2. clz(v) = 31 - m
  <2>1. (31 - m) \in 1..31
    OBVIOUS
  <2> QED
    BY <1>1, <2>1 DEF clz
<1> QED
  BY <1>2 DEF ilog32, ilog64

LEMMA RoundsUp ==
  ASSUME NEW n \in Nat \ {0}, n <= 2^30
  PROVE  \E j \in 0..30 : roundup_pow_of_two(n) = 2^j /\ n <= 2^j /\ 2^j < 2 * n
<1>1. CASE n = 1
  <2>1. roundup_pow_of_two(n) = 1
    BY <1>1 DEF roundup_pow_of_two
  <2> QED
    BY <1>1, <2>1, Powers
<1>2. CASE n # 1
  <2>1. (n - 1) \in Nat \ {0} /\ n - 1 < 2^30 /\ n - 1 < 2^31
    BY <1>2, Powers
  <2>2. PICK m \in 0..30 : 2^m <= n - 1 /\ n - 1 < 2^(m + 1)
    BY <2>1, LengthExists
  <2>3. roundup_pow_of_two(n) = 2^(m + 1)
    BY <1>2, <2>1, <2>2, IlogsRight DEF roundup_pow_of_two
  <2>4. 2^m \in Nat /\ 2^(m + 1) = 2 * 2^m
    BY Doubles
  <2>5. m < 30
    <3>1. 2^m < 2^30
      BY <2>1, <2>2, <2>4, Powers
    <3>2. m \in 0..31 /\ 30 \in 0..31
      OBVIOUS
    <3> QED
      BY <3>1, <3>2, PowersOrder
  <2>6. (m + 1) \in 0..30 /\ n <= 2^(m + 1) /\ 2^(m + 1) < 2 * n
    BY <2>2, <2>4, <2>5
  <2> QED
    BY <2>3, <2>6
<1> QED
  BY <1>1, <1>2

(* The logarithm of a ring of 2^k entries, as the driver takes it.         *)
LEMMA IlogOfPower ==
  ASSUME NEW k \in 0..30
  PROVE  ilog32(2^k - 1) = k
<1>1. CASE k = 0
  BY <1>1, Powers DEF ilog32
<1>2. CASE k # 0
  <2> DEFINE m == k - 1
  <2>1. m \in 0..30 /\ m + 1 = k
    BY <1>2
  <2>2. 2^m \in Nat \ {0} /\ 2^(m + 1) = 2 * 2^m
    BY <2>1, Doubles
  <2>3. 2^(m + 1) = 2^k
    BY <2>1
  <2> DEFINE v == 2^k - 1
  <2>4. v \in Nat \ {0} /\ 2^m <= v /\ v < 2^(m + 1)
    BY <2>2, <2>3
  <2> HIDE DEF v
  <2>5. ilog32(v) = m + 1
    BY <2>1, <2>4, IlogsRight
  <2> QED
    BY <2>5 DEF v
<1> QED
  BY <1>1, <1>2

LEMMA Aligned ==
  ASSUME NEW v \in Nat, NEW a \in Nat \ {0}
  PROVE  /\ align(v, a) \in Nat /\ v <= align(v, a)
         /\ align(v, a) % a = 0
<1> DEFINE q == (v + a - 1) \div a
<1>1. q \in Int /\ v <= q * a /\ q * a < v + a
  OBVIOUS
<1>2. (q * a) % a = 0
  BY <1>1
<1> QED
  BY <1>1, <1>2 DEF align

LEMMA Constants ==
  /\ STATIC_ILOG_32(SEND_WQE_BB) - 1 = 6 /\ Blocks = 1 /\ SEND_WQE_BB = 64
  BY DEF STATIC_ILOG_32, STATIC_ILOG4, STATIC_ILOG3, STATIC_ILOG2, STATIC_ILOG1, STATIC_ILOG0,
         SEND_WQE_BB, Blocks, DIV_ROUND_UP, CTRL_SEG, RADDR_SEG, DATA_SEG

(***************************************************************************)
(* The two rings.                                                          *)
(***************************************************************************)
CapsOf(s, m, g, h, i) ==
  [max_send_wr |-> s, max_recv_wr |-> m, max_send_sge |-> g,
   max_recv_sge |-> h, max_inline_data |-> i]

LEMMA CapsShape ==
  ASSUME NEW c \in Caps
  PROVE  \E s, m, g, h \in Nat \ {0}, i \in Nat :
           c = CapsOf(s, m, g, h, i) /\ m <= 32768 /\ h <= 128
<1>1. PICK s \in SendWrs, m \in RecvWrs, g \in Sges, h \in Sges, i \in Inlines :
           c = CapsOf(s, m, g, h, i)
  <2> DEFINE s == c.max_send_wr
             m == c.max_recv_wr
             g == c.max_send_sge
             h == c.max_recv_sge
             i == c.max_inline_data
  <2>1. s \in SendWrs /\ m \in RecvWrs /\ g \in Sges /\ h \in Sges /\ i \in Inlines
    BY DEF Caps
  <2>2. c = CapsOf(s, m, g, h, i)
    BY DEF Caps, CapsOf
  <2> HIDE DEF s, m, g, h, i
  <2> QED
    BY <2>1, <2>2
<1>2. s \in Nat \ {0} /\ m \in Nat \ {0} /\ g \in Nat \ {0} /\ h \in Nat \ {0} /\ i \in Nat
  BY CapsAssumption
<1>3. m <= 32768 /\ h <= 128
  BY RecvAssumption, Powers
<1> QED
  BY <1>1, <1>2, <1>3

(* A WQE has room for its control segments, whatever is on the stack.      *)
LEMMA SendWqeTyped ==
  ASSUME NEW c \in Caps, NEW junk \in Stack
  PROVE  calc_rc_send_wqe(c, junk) \in Nat /\ calc_rc_send_wqe(c, junk) >= 208
<1>1. PICK s, m, g, h \in Nat \ {0}, i \in Nat :
        c = CapsOf(s, m, g, h, i) /\ m <= 32768 /\ h <= 128
  BY CapsShape
<1> DEFINE inl == IF i # 0 THEN 192 + align(4 + i, 16) ELSE junk
           whole == max(192 + g * 16, inl)
<1>2. inl \in Int
  <2>1. (4 + i) \in Nat /\ 16 \in Nat \ {0}
    OBVIOUS
  <2>2. align(4 + i, 16) \in Nat
    BY <2>1, Aligned
  <2> QED
    BY <2>2, StackAssumption
<1>3. whole \in Nat /\ whole >= 208
  <2> HIDE DEF inl
  <2> QED
    BY <1>2 DEF max
<1>4. calc_rc_send_wqe(c, junk) = align(whole, SEND_WQE_BB)
  BY <1>1 DEF CapsOf, calc_rc_send_wqe, INL_SEG, DATA_SEG
<1> HIDE DEF whole
<1> QED
  BY <1>3, <1>4, Aligned, Constants

LEMMA SendRing ==
  ASSUME NEW c \in Caps, NEW junk \in Stack
  PROVE  LET r == calc_sq_size(c, junk)
         IN  \E k \in 2..24 :
               /\ r.wqe_cnt = 2^k /\ r.wqe_shift = 6 /\ r.size = 64 * 2^k
               /\ r.max_post \in Nat /\ r.max_post <= 2^k
               /\ c.max_send_wr <= r.max_post /\ r.max_post < 2 * c.max_send_wr
               /\ c.max_inline_data # 0 => k <= 15
<1>0. PICK s \in Nat \ {0}, i \in Nat : c.max_send_wr = s /\ c.max_inline_data = i
  <2>1. PICK s, m, g, h \in Nat \ {0}, i \in Nat :
          c = CapsOf(s, m, g, h, i) /\ m <= 32768 /\ h <= 128
    BY CapsShape
  <2> QED
    BY <2>1 DEF CapsOf
<1> DEFINE w == calc_rc_send_wqe(c, junk)
           n == s * w
           size == roundup_pow_of_two(n)
<1>1. w \in Nat /\ w >= 208
  BY SendWqeTyped
<1>2. n \in Nat /\ n >= 208 /\ n <= 2^30 /\ (i # 0 => n <= 2^21)
  <2>1. n <= IF i # 0 THEN 2^21 ELSE 2^30
    BY <1>0, SendAssumption
  <2> HIDE DEF w
  <2>2. n \in Nat /\ n >= 208
    BY <1>1
  <2> HIDE DEF n
  <2> QED
    BY <2>1, <2>2, Powers
<1>3. PICK j \in 0..30 : size = 2^j /\ n <= 2^j /\ 2^j < 2 * n
  <2> HIDE DEF n
  <2>1. n \in Nat \ {0}
    BY <1>2
  <2> QED
    BY <1>2, <2>1, RoundsUp
<1> DEFINE k == j - 6
<1>4. k \in 0..25 /\ j \in 0..31 /\ k + 6 = j
  <2>1. 2^7 < 2^j
    <3> HIDE DEF n
    <3> QED
      BY <1>2, <1>3, Powers, PowerTyped
  <2>2. 7 \in 0..31 /\ j \in 0..31
    OBVIOUS
  <2>3. 7 < j
    BY <2>1, <2>2, PowersOrder
  <2> QED
    BY <2>3
<1>5. 2^j = 64 * 2^k /\ 2^k \in Nat
  <2> HIDE DEF k
  <2>1. 2^(k + 6) = 64 * 2^k /\ 2^k \in Nat
    BY <1>4, Sixtyfourfold
  <2> QED
    BY <1>4, <2>1
<1>6. k \in 2..24
  <2>1. 2^7 < 2^j
    <3> HIDE DEF n
    <3> QED
      BY <1>2, <1>3, Powers, PowerTyped
  <2>2. 7 \in 0..31 /\ j \in 0..31
    OBVIOUS
  <2>3. 7 < j
    BY <2>1, <2>2, PowersOrder
  <2> QED
    BY <2>3
<1>7. i # 0 => k <= 15
  <2> SUFFICES ASSUME i # 0
               PROVE  j < 22
    OBVIOUS
  <2>1. 2^j < 2^22
    <3> HIDE DEF n
    <3> QED
      BY <1>2, <1>3, Powers, PowerTyped
  <2>2. 22 \in 0..31
    OBVIOUS
  <2>3. j < 22
    BY <2>1, <2>2, <1>4, PowersOrder
  <2> QED
    BY <2>3
<1>8. LET r == calc_sq_size(c, junk)
      IN  r.wqe_cnt = 2^j \div 64 /\ r.wqe_shift = 6 /\ r.size = 2^j /\ r.max_post = 2^j \div w
  BY <1>0, <1>3, Constants DEF calc_sq_size
<1>9. 2^j \div 64 = 2^k
  <2> HIDE DEF k
  <2> QED
    BY <1>5
<1>10. /\ (2^j \div w) \in Nat /\ s <= (2^j \div w)
       /\ (2^j \div w) < 2 * s
  <2>1. s * w <= 2^j /\ 2^j < (2 * s) * w
    <3>1. (2 * s) * w = 2 * n
      <4> HIDE DEF w
      <4> QED
        BY <1>1
    <3> QED
      BY <1>3, <3>1
  <2>2. 2^j \in Nat
    BY <1>4, PowerTyped
  <2>3. w \in Nat \ {0} /\ s \in Nat /\ 2 * s \in Nat
    <3> HIDE DEF w
    <3> QED
      BY <1>1
  <2> HIDE DEF w
  <2> QED
    BY <2>1, <2>2, <2>3, QuotientBounds
<1>11. (2^j \div w) < 2^k + 1
  <2>1. 2^j \in Nat /\ w \in Nat \ {0} /\ 0 \in Nat /\ (2^k + 1) \in Nat /\ 0 * w <= 2^j
    BY <1>1, <1>5, <1>4, PowerTyped
  <2>2. 2^j < (2^k + 1) * w
    <3> HIDE DEF k, w
    <3>1. 64 * 2^k <= w * 2^k
      BY <1>1, <1>5
    <3> QED
      BY <1>1, <1>5, <3>1
  <2> HIDE DEF w, k
  <2> QED
    BY <2>1, <2>2, QuotientBounds
<1>12. (2^j \div w) <= 2^k
  <2> HIDE DEF w, k
  <2> QED
    BY <1>5, <1>10, <1>11
<1> HIDE DEF w, k, n, size
<1> QED
  BY <1>0, <1>5, <1>6, <1>7, <1>8, <1>9, <1>10, <1>12

LEMMA RecvRing ==
  ASSUME NEW c \in Caps
  PROVE  LET r == calc_rq_size(c)
         IN  \E a \in 4..11, b \in 0..15 :
               /\ r.wqe_cnt = 2^b /\ r.wqe_shift = a /\ r.max_post = 2^b
               /\ r.size = 2^b * 2^a /\ r.size \in Nat /\ r.size % 64 = 0
               /\ c.max_recv_wr <= 2^b /\ (2^b < 2 * c.max_recv_wr \/ 2^b <= 4)
<1>0. PICK m, h \in Nat \ {0} : /\ c.max_recv_wr = m /\ max(c.max_recv_sge, 1) = h
                                /\ m <= 32768 /\ h <= 128
  <2>1. PICK s, m, g, h \in Nat \ {0}, i \in Nat :
          c = CapsOf(s, m, g, h, i) /\ m <= 32768 /\ h <= 128
    BY CapsShape
  <2>2. max(h, 1) = h
    BY DEF max
  <2> QED
    BY <2>1, <2>2 DEF CapsOf
<1> DEFINE n == DATA_SEG * h
           w == calc_recv_wqe(c)
           e == roundup_pow_of_two(m)
           size == max(e * w, SEND_WQE_BB)
           cnt == size \div w
<1>1. n \in Nat /\ 16 <= n /\ n <= 2048
  BY <1>0 DEF DATA_SEG
<1>2. PICK a \in 4..11 : w = 2^a
  <2>1. n \in Nat \ {0} /\ n <= 2^30
    <3> HIDE DEF n
    <3> QED
      BY <1>1, Powers
  <2>2. PICK i \in 0..30 : roundup_pow_of_two(n) = 2^i /\ n <= 2^i /\ 2^i < 2 * n
    <3> HIDE DEF n
    <3> QED
      BY <2>1, RoundsUp
  <2>3. i \in 0..31 /\ 3 \in 0..31 /\ 12 \in 0..31
    OBVIOUS
  <2>6. 2^i \in Nat
    BY <2>3, PowerTyped
  <2>4. 2^3 < 2^i /\ 2^i < 2^12
    <3> HIDE DEF n
    <3> QED
      BY <1>1, <2>2, <2>6, Powers
  <2>5. 3 < i /\ i < 12
    BY <2>3, <2>4, PowersOrder
  <2> QED
    <3>1. i \in 4..11
      BY <2>5
    <3>2. w = 2^i
      BY <1>0, <2>2 DEF calc_recv_wqe
    <3> HIDE DEF w
    <3> QED
      BY <3>1, <3>2
<1>3. PICK d \in 0..15 : e = 2^d /\ m <= 2^d /\ 2^d < 2 * m
  <2>1. m <= 2^30
    BY <1>0, Powers
  <2>2. PICK i \in 0..30 : e = 2^i /\ m <= 2^i /\ 2^i < 2 * m
    BY <2>1, RoundsUp
  <2>3. i \in 0..31 /\ 16 \in 0..31
    OBVIOUS
  <2>6. 2^i \in Nat
    BY <2>3, PowerTyped
  <2>4. 2^i < 2^16
    BY <1>0, <2>2, <2>6, Powers
  <2>5. i < 16
    BY <2>3, <2>4, PowersOrder
  <2>7. i \in 0..15
    BY <2>5
  <2> HIDE DEF e
  <2> QED
    BY <2>2, <2>7
<1>4. 2^a \in Nat \ {0} /\ 2^d \in Nat \ {0} /\ a \in 0..31 /\ d \in 0..31
  <2>1. a \in 0..31 /\ d \in 0..31
    OBVIOUS
  <2> QED
    BY <2>1, PowerTyped
<1>5. size = max(2^d * 2^a, 64)
  BY <1>2, <1>3, Constants
<1>6. LET r == calc_rq_size(c)
      IN  /\ r.wqe_cnt = cnt /\ r.wqe_shift = ilog32(w - 1) /\ r.size = size
          /\ r.max_post = 2^ilog32(cnt - 1)
  BY <1>0 DEF calc_rq_size
<1>7. ilog32(w - 1) = a
  <2>1. a \in 0..30
    OBVIOUS
  <2>2. ilog32(2^a - 1) = a
    BY <2>1, IlogOfPower
  <2> QED
    BY <1>2, <2>2
<1>8. \E b \in 0..15 : /\ cnt = 2^b /\ size = 2^b * 2^a /\ size % 64 = 0
                       /\ m <= 2^b /\ (2^b < 2 * m \/ 2^b <= 4)
  <2>1. CASE 2^d * 2^a >= 64
    <3>1. size = 2^d * 2^a
      <4> HIDE DEF size
      <4> QED
        BY <1>4, <1>5, <2>1 DEF max
    <3>2. cnt = 2^d
      <4>1. (2^d * 2^a) \div 2^a = 2^d
        BY <1>4
      <4> QED
        BY <1>2, <3>1, <4>1
    <3>3. (2^d * 2^a) % 64 = 0
      <4>1. CASE a >= 6
        <5> DEFINE i == a - 6
        <5>1. i \in 0..25 /\ i + 6 = a
          BY <4>1
        <5> HIDE DEF i
        <5>2. 2^(i + 6) = 64 * 2^i /\ 2^i \in Nat
          BY <5>1, Sixtyfourfold
        <5>3. 2^d * 2^a = 64 * (2^d * 2^i) /\ 2^d * 2^i \in Nat
          BY <1>4, <5>1, <5>2
        <5> QED
          BY <5>3
      <4>2. CASE a = 4
        <5>1. 2^1 < 2^d /\ 1 \in 0..31
          BY <1>4, <2>1, <4>2, Powers
        <5>2. d \in 2..15
          <6>1. 1 < d
            BY <1>4, <5>1, PowersOrder
          <6> QED
            BY <6>1
        <5> DEFINE i == d - 2
        <5>3. i \in 0..25 /\ i + 1 \in 0..30 /\ i \in 0..30 /\ (i + 1) + 1 = d
          BY <5>2
        <5> HIDE DEF i
        <5>4. 2^i \in Nat /\ 2^(i + 1) = 2 * 2^i /\ 2^((i + 1) + 1) = 2 * 2^(i + 1)
          BY <5>3, Doubles
        <5>5. 2^d * 2^a = 64 * 2^i
          BY <4>2, <5>3, <5>4, Powers
        <5> QED
          BY <5>4, <5>5
      <4>3. CASE a = 5
        <5>1. 2^0 < 2^d /\ 0 \in 0..31
          BY <1>4, <2>1, <4>3, Powers
        <5>2. d \in 1..15
          <6>1. 0 < d
            BY <1>4, <5>1, PowersOrder
          <6> QED
            BY <6>1
        <5> DEFINE i == d - 1
        <5>3. i \in 0..30 /\ i + 1 = d
          BY <5>2
        <5> HIDE DEF i
        <5>4. 2^i \in Nat /\ 2^(i + 1) = 2 * 2^i
          BY <5>3, Doubles
        <5>5. 2^d * 2^a = 64 * 2^i
          BY <4>3, <5>3, <5>4, Powers
        <5> QED
          BY <5>4, <5>5
      <4> QED
        BY <4>1, <4>2, <4>3
    <3> HIDE DEF size, cnt
    <3> QED
      BY <1>3, <3>1, <3>2, <3>3
  <2>2. CASE ~(2^d * 2^a >= 64)
    <3>1. size = 64
      <4> HIDE DEF size
      <4>1. 2^d * 2^a \in Nat
        BY <1>4
      <4> QED
        BY <1>5, <2>2, <4>1 DEF max
    <3>2. 2^a < 64 /\ 2^d * 16 < 64
      <4>1. 2^a <= 2^d * 2^a
        BY <1>4
      <4>2. 2^4 <= 2^a
        <5>1. 4 \in 0..31 /\ 4 <= a
          OBVIOUS
        <5> QED
          BY <1>4, <5>1, PowersGrow
      <4>3. 2^d * 16 <= 2^d * 2^a
        BY <1>4, <4>2, Powers
      <4> QED
        BY <1>4, <2>2, <4>1, <4>3
    <3>3. a \in {4, 5}
      <4>1. 2^a < 2^6 /\ 6 \in 0..31
        BY <3>2, Powers
      <4>2. a < 6
        BY <1>4, <4>1, PowersOrder
      <4> QED
        BY <4>2
    <3>4. CASE a = 4
      <4>1. cnt = 2^2 /\ size = 2^2 * 2^a /\ size % 64 = 0 /\ 2^2 = 4
        BY <1>2, <3>1, <3>4, Powers
      <4>2. m <= 2^2
        <5> HIDE DEF e, cnt, size
        <5>1. 2^d < 4
          BY <1>4, <3>2
        <5> QED
          BY <1>0, <1>3, <1>4, <4>1, <5>1
      <4> QED
        BY <4>1, <4>2
    <3>5. CASE a = 5
      <4>1. cnt = 2^1 /\ size = 2^1 * 2^a /\ size % 64 = 0 /\ 2^1 = 2
        BY <1>2, <3>1, <3>5, Powers
      <4>2. m <= 2^1
        <5> HIDE DEF e, cnt, size
        <5>1. 2^d * 32 < 64
          BY <2>2, <3>5, <1>4, Powers
        <5>2. 2^d < 2
          BY <1>4, <5>1
        <5> QED
          BY <1>0, <1>3, <1>4, <5>2, <4>1
      <4> QED
        BY <4>1, <4>2
    <3> QED
      BY <3>3, <3>4, <3>5
  <2> QED
    BY <2>1, <2>2
<1>9. PICK b \in 0..15 : /\ cnt = 2^b /\ size = 2^b * 2^a /\ size % 64 = 0
                         /\ m <= 2^b /\ (2^b < 2 * m \/ 2^b <= 4)
  BY <1>8
<1>10. 2^ilog32(cnt - 1) = 2^b
  <2>0. b \in 0..30
    OBVIOUS
  <2>1. ilog32(2^b - 1) = b
    BY <2>0, IlogOfPower
  <2> QED
    BY <1>9, <2>1
<1>11. size \in Nat
  <2>0. b \in 0..31
    OBVIOUS
  <2>1. 2^b \in Nat
    BY <2>0, PowerTyped
  <2> HIDE DEF size
  <2> QED
    BY <1>4, <1>9, <2>1
<1> DEFINE r == calc_rq_size(c)
<1>12. /\ r.wqe_cnt = 2^b /\ r.wqe_shift = a /\ r.max_post = 2^b
       /\ r.size = 2^b * 2^a /\ r.size \in Nat /\ r.size % 64 = 0
  <2> HIDE DEF size, cnt, w, e, n
  <2> QED
    BY <1>6, <1>7, <1>9, <1>10, <1>11
<1>13. c.max_recv_wr <= 2^b /\ (2^b < 2 * c.max_recv_wr \/ 2^b <= 4)
  BY <1>0, <1>9
<1> HIDE DEF size, cnt, w, e, n, r
<1> QED
  BY <1>12, <1>13 DEF r

(***************************************************************************)
(* Records laid over each other.                                           *)
(***************************************************************************)
LEMMA OverFacts ==
  ASSUME NEW f, NEW g
  PROVE  /\ DOMAIN Over(f, g) = DOMAIN f \cup DOMAIN g
         /\ \A x \in DOMAIN f : Over(f, g)[x] = f[x]
         /\ \A x \in DOMAIN g : x \notin DOMAIN f => Over(f, g)[x] = g[x]
  BY DEF Over

Covers(new, top, old) ==
  /\ DOMAIN new = DOMAIN top \cup DOMAIN old
  /\ \A f \in DOMAIN top : new[f] = top[f]
  /\ \A f \in DOMAIN old : f \notin DOMAIN top => new[f] = old[f]

LEMMA NoFields ==
  ASSUME NEW g
  PROVE  DOMAIN <<>> = {} /\ DOMAIN Over(<<>>, g) = DOMAIN g /\ \A x \in DOMAIN g : Over(<<>>, g)[x] = g[x]
<1> DEFINE none == <<>>
<1>1. DOMAIN none = {}
  OBVIOUS
<1> HIDE DEF none
<1>2. /\ DOMAIN Over(none, g) = DOMAIN none \cup DOMAIN g
      /\ \A x \in DOMAIN g : x \notin DOMAIN none => Over(none, g)[x] = g[x]
  BY OverFacts
<1>3. DOMAIN Over(none, g) = DOMAIN g /\ \A x \in DOMAIN g : Over(none, g)[x] = g[x]
  BY <1>1, <1>2
<1> QED
  BY <1>1, <1>3 DEF none

LEMMA OverCovers ==
  ASSUME NEW f, NEW g, NEW h,
         DOMAIN h = DOMAIN g, \A x \in DOMAIN g : h[x] = g[x]
  PROVE  Covers(Over(f, g), f, h)
<1>1. /\ DOMAIN Over(f, g) = DOMAIN f \cup DOMAIN g
      /\ \A x \in DOMAIN f : Over(f, g)[x] = f[x]
      /\ \A x \in DOMAIN g : x \notin DOMAIN f => Over(f, g)[x] = g[x]
  BY OverFacts
<1> DEFINE o == Over(f, g)
<1> HIDE DEF o
<1>2. /\ DOMAIN o = DOMAIN f \cup DOMAIN g
      /\ \A x \in DOMAIN f : o[x] = f[x]
      /\ \A x \in DOMAIN g : x \notin DOMAIN f => o[x] = g[x]
  BY <1>1 DEF o
<1>3. Covers(o, f, h)
  BY <1>2 DEF Covers
<1> QED
  BY <1>3 DEF o

(* Each transition lays its fields over those passed before.               *)
LEMMA LayersGrow ==
  ASSUME NEW ether, NEW top
  PROVE  /\ Covers(Layers("reset", ether, top), <<>>, top)
         /\ Covers(Layers("init", ether, top), InitFields, Layers("reset", ether, top))
         /\ Covers(Layers("rtr", ether, top), RtrFields(ether), Layers("init", ether, top))
         /\ Covers(Layers("rts", ether, top), RtsFields, Layers("rtr", ether, top))
<1> DEFINE none == <<>>
           rtr  == RtrFields(ether)
           one  == Over(none, top)
           two  == Over(InitFields, top)
           three == Over(rtr, two)
<1>1. /\ Layers("reset", ether, top) = Over(none, Over(none, one))
      /\ Layers("init", ether, top) = Over(none, Over(none, two))
      /\ Layers("rtr", ether, top) = Over(none, three)
      /\ Layers("rts", ether, top) = Over(RtsFields, three)
  BY DEF Layers
<1> HIDE DEF three, two, one, rtr
<1>2. \A g : DOMAIN Over(none, g) = DOMAIN g /\ \A x \in DOMAIN g : Over(none, g)[x] = g[x]
  BY NoFields
<1>0. DOMAIN none = {}
  OBVIOUS
<1> HIDE DEF none
<1>3. DOMAIN one = DOMAIN top /\ \A x \in DOMAIN top : one[x] = top[x]
  BY <1>2 DEF one
<1>4. /\ DOMAIN Over(none, Over(none, one)) = DOMAIN top
      /\ \A x \in DOMAIN top : Over(none, Over(none, one))[x] = top[x]
  BY <1>2, <1>3
<1>5. /\ DOMAIN Over(none, Over(none, two)) = DOMAIN two
      /\ \A x \in DOMAIN two : Over(none, Over(none, two))[x] = two[x]
  BY <1>2
<1>6. DOMAIN Over(none, three) = DOMAIN three /\ \A x \in DOMAIN three : Over(none, three)[x] = three[x]
  BY <1>2
<1>7. Covers(Layers("reset", ether, top), none, top)
  BY <1>0, <1>1, <1>4 DEF Covers
<1>8. Covers(Layers("init", ether, top), InitFields, Layers("reset", ether, top))
  <2>1. Covers(two, InitFields, Over(none, Over(none, one)))
    BY <1>4, OverCovers DEF two
  <2> QED
    BY <1>1, <1>5, <2>1 DEF Covers
<1>9. Covers(Layers("rtr", ether, top), rtr, Layers("init", ether, top))
  <2>1. Covers(three, rtr, Over(none, Over(none, two)))
    BY <1>5, OverCovers DEF three
  <2> QED
    BY <1>1, <1>6, <2>1 DEF Covers
<1>10. Covers(Layers("rts", ether, top), RtsFields, Layers("rtr", ether, top))
  BY <1>1, <1>6, OverCovers
<1> QED
  BY <1>7, <1>8, <1>9, <1>10 DEF none, rtr

(***************************************************************************)
(* The widths of the fields, and what fits them.                           *)
(***************************************************************************)
LEMMA Widths ==
  /\ QpcBits.log_rq_size = 4 /\ QpcBits.log_rq_stride = 3 /\ QpcBits.log_sq_size = 4
  /\ QpcBits.pm_state = 2 /\ QpcBits.cqn_snd = 24 /\ QpcBits.cqn_rcv = 24
  /\ QpcBits.dbr_umem_valid = 1 /\ QpcBits.mtu = 3 /\ QpcBits.log_msg_max = 5
  /\ QpcBits.min_rnr_nak = 5 /\ QpcBits.retry_count = 3 /\ QpcBits.rnr_retry = 3
  /\ QpcBits.log_sra_max = 3 /\ QpcBits.rre = 1 /\ QpcBits.rwe = 1
  /\ QpcBits.ack_timeout = 5 /\ QpcBits.hop_limit = 8 /\ QpcBits.vhca_port_num = 8
  /\ QpcBits.udp_sport = 16
<1> DEFINE own == [log_rq_size |-> 4, log_rq_stride |-> 3, log_sq_size |-> 4, pm_state |-> 2,
                   cqn_snd |-> 24, cqn_rcv |-> 24, dbr_umem_valid |-> 1,
                   mtu |-> 3, log_msg_max |-> 5, min_rnr_nak |-> 5, retry_count |-> 3,
                   rnr_retry |-> 3, log_sra_max |-> 3, rre |-> 1, rwe |-> 1]
<1>1. QpcBits = Over(own, AdsBits)
  BY DEF QpcBits
<1>2. /\ \A f \in DOMAIN own : QpcBits[f] = own[f]
      /\ \A f \in DOMAIN AdsBits : f \notin DOMAIN own => QpcBits[f] = AdsBits[f]
  <2> DEFINE ads == AdsBits
  <2> HIDE DEF own, ads
  <2>1. /\ \A f \in DOMAIN own : Over(own, ads)[f] = own[f]
        /\ \A f \in DOMAIN ads : f \notin DOMAIN own => Over(own, ads)[f] = ads[f]
    BY OverFacts
  <2>2. QpcBits = Over(own, ads)
    BY <1>1 DEF ads
  <2> QED
    BY <2>1, <2>2 DEF ads
<1>3. DOMAIN own = {"log_rq_size", "log_rq_stride", "log_sq_size", "pm_state", "cqn_snd",
                    "cqn_rcv", "dbr_umem_valid", "mtu", "log_msg_max", "min_rnr_nak",
                    "retry_count", "rnr_retry", "log_sra_max", "rre", "rwe"}
  OBVIOUS
<1>4. DOMAIN AdsBits = {"ack_timeout", "hop_limit", "vhca_port_num", "udp_sport"}
  BY DEF AdsBits
<1>5. /\ own.log_rq_size = 4 /\ own.log_rq_stride = 3 /\ own.log_sq_size = 4
      /\ own.pm_state = 2 /\ own.cqn_snd = 24 /\ own.cqn_rcv = 24
      /\ own.dbr_umem_valid = 1 /\ own.mtu = 3 /\ own.log_msg_max = 5
      /\ own.min_rnr_nak = 5 /\ own.retry_count = 3 /\ own.rnr_retry = 3
      /\ own.log_sra_max = 3 /\ own.rre = 1 /\ own.rwe = 1
  OBVIOUS
<1>6. /\ AdsBits.ack_timeout = 5 /\ AdsBits.hop_limit = 8 /\ AdsBits.vhca_port_num = 8
      /\ AdsBits.udp_sport = 16
  BY DEF AdsBits
<1> HIDE DEF own
<1> QED
  BY <1>2, <1>3, <1>4, <1>5, <1>6

(* Fields of a layer arrive whole, up to those named.                      *)
Fits(fields, but) ==
  \A f \in DOMAIN fields \ but : fields[f] % 2^QpcBits[f] = fields[f]

LEMMA InitFits == Fits(InitFields, {})
<1> DEFINE F == InitFields
<1>1. /\ DOMAIN F = {"pm_state", "vhca_port_num", "rre", "rwe"}
      /\ F["pm_state"] = 3 /\ F["vhca_port_num"] = 1 /\ F["rre"] = 1 /\ F["rwe"] = 1
  BY DEF InitFields
<1>2. 3 % 2^2 = 3 /\ 1 % 2^8 = 1 /\ 1 % 2^1 = 1
  BY Powers
<1> HIDE DEF F
<1>3. \A f \in DOMAIN F : F[f] % 2^QpcBits[f] = F[f]
  BY <1>1, <1>2, Widths
<1> QED
  BY <1>3 DEF Fits, F

LEMMA RtsFits ==
  /\ Fits(RtsFields, {"log_sra_max"})
  /\ RtsFields["log_sra_max"] % 2^QpcBits["log_sra_max"] = 4
<1> DEFINE F == RtsFields
<1>1. /\ DOMAIN F = {"retry_count", "rnr_retry", "log_sra_max", "ack_timeout", "vhca_port_num"}
      /\ F["retry_count"] = 7 /\ F["rnr_retry"] = 7 /\ F["log_sra_max"] = 20
      /\ F["ack_timeout"] = 14 /\ F["vhca_port_num"] = 1
  BY DEF RtsFields
<1>2. 7 % 2^3 = 7 /\ 14 % 2^5 = 14 /\ 1 % 2^8 = 1 /\ 20 % 2^3 = 4
  BY Powers
<1> HIDE DEF F
<1>3. \A f \in DOMAIN F \ {"log_sra_max"} : F[f] % 2^QpcBits[f] = F[f]
  BY <1>1, <1>2, Widths
<1>4. F["log_sra_max"] % 2^QpcBits["log_sra_max"] = 4
  BY <1>1, <1>2, Widths
<1> QED
  BY <1>3, <1>4 DEF Fits, F

LEMMA RtrFits ==
  ASSUME NEW ether
  PROVE  /\ Fits(RtrFields(ether), {})
         /\ DOMAIN RtrFields(ether) \subseteq {"mtu", "log_msg_max", "vhca_port_num",
                                               "min_rnr_nak", "udp_sport", "hop_limit"}
<1> DEFINE own == [mtu |-> 3, log_msg_max |-> 30, vhca_port_num |-> 1, min_rnr_nak |-> 12]
           eth == IF ether THEN [udp_sport |-> 52445, hop_limit |-> 64] ELSE <<>>
           F   == Over(own, eth)
<1>1. RtrFields(ether) = F
  BY DEF RtrFields
<1>2. /\ DOMAIN own = {"mtu", "log_msg_max", "vhca_port_num", "min_rnr_nak"}
      /\ own["mtu"] = 3 /\ own["log_msg_max"] = 30 /\ own["vhca_port_num"] = 1
      /\ own["min_rnr_nak"] = 12
  OBVIOUS
<1>3. \/ eth = <<>>
      \/ /\ DOMAIN eth = {"udp_sport", "hop_limit"}
         /\ eth["udp_sport"] = 52445 /\ eth["hop_limit"] = 64
  OBVIOUS
<1>4. \/ DOMAIN eth = {}
      \/ /\ DOMAIN eth = {"udp_sport", "hop_limit"}
         /\ eth["udp_sport"] = 52445 /\ eth["hop_limit"] = 64
  <2> HIDE DEF eth
  <2> QED
    BY <1>3, NoFields
<1>5. 3 % 2^3 = 3 /\ 30 % 2^5 = 30 /\ 1 % 2^8 = 1 /\ 12 % 2^5 = 12
      /\ 52445 % 2^16 = 52445 /\ 64 % 2^8 = 64
  BY Powers
<1> HIDE DEF own, eth
<1>6. /\ DOMAIN F = DOMAIN own \cup DOMAIN eth
      /\ \A x \in DOMAIN own : F[x] = own[x]
      /\ \A x \in DOMAIN eth : x \notin DOMAIN own => F[x] = eth[x]
  BY OverFacts
<1> HIDE DEF F
<1>7. \A f \in DOMAIN own : F[f] % 2^QpcBits[f] = F[f]
  <2>1. /\ F["mtu"] = 3 /\ F["log_msg_max"] = 30 /\ F["vhca_port_num"] = 1
        /\ F["min_rnr_nak"] = 12
    BY <1>2, <1>6
  <2>2. /\ QpcBits["mtu"] = 3 /\ QpcBits["log_msg_max"] = 5 /\ QpcBits["vhca_port_num"] = 8
        /\ QpcBits["min_rnr_nak"] = 5
    BY Widths
  <2>3. /\ F["mtu"] % 2^QpcBits["mtu"] = F["mtu"]
        /\ F["log_msg_max"] % 2^QpcBits["log_msg_max"] = F["log_msg_max"]
        /\ F["vhca_port_num"] % 2^QpcBits["vhca_port_num"] = F["vhca_port_num"]
        /\ F["min_rnr_nak"] % 2^QpcBits["min_rnr_nak"] = F["min_rnr_nak"]
    BY <1>5, <2>1, <2>2, SMT
  <2> QED
    BY <1>2, <2>3, Zenon
<1>8. \A f \in DOMAIN eth : f \notin DOMAIN own => F[f] % 2^QpcBits[f] = F[f]
  <2> SUFFICES ASSUME DOMAIN eth = {"udp_sport", "hop_limit"},
                      eth["udp_sport"] = 52445, eth["hop_limit"] = 64
               PROVE  \A f \in DOMAIN eth : F[f] % 2^QpcBits[f] = F[f]
    BY <1>4
  <2>1. F["udp_sport"] = 52445 /\ F["hop_limit"] = 64
    BY <1>2, <1>6
  <2>2. QpcBits["udp_sport"] = 16 /\ QpcBits["hop_limit"] = 8
    BY Widths
  <2>3. /\ F["udp_sport"] % 2^QpcBits["udp_sport"] = F["udp_sport"]
        /\ F["hop_limit"] % 2^QpcBits["hop_limit"] = F["hop_limit"]
    BY <1>5, <2>1, <2>2, SMT
  <2> QED
    BY <2>3
<1>9. Fits(F, {})
  BY <1>6, <1>7, <1>8 DEF Fits
<1>10. DOMAIN F \subseteq {"mtu", "log_msg_max", "vhca_port_num",
                           "min_rnr_nak", "udp_sport", "hop_limit"}
  BY <1>2, <1>4, <1>6
<1> QED
  BY <1>1, <1>9, <1>10

CreateNames == {"pm_state", "log_rq_size", "log_rq_stride", "log_sq_size",
                "cqn_snd", "cqn_rcv", "dbr_umem_valid"}

(* F holds the logarithms k and b of the rings, the size of an entry in    *)
(* units of 16 bytes, and the number of the completion queue.              *)
Describes(F, cqn, k, a, b) ==
  /\ DOMAIN F = CreateNames
  /\ F["log_rq_size"] = b /\ F["log_rq_stride"] = a - 4 /\ F["log_sq_size"] = k
  /\ F["cqn_snd"] = cqn /\ F["cqn_rcv"] = cqn
  /\ Fits(F, {"log_sq_size"})
  /\ k <= 15 => F["log_sq_size"] % 2^QpcBits["log_sq_size"] = F["log_sq_size"]

LEMMA CreateFits ==
  ASSUME NEW cqn \in Numbers, NEW s, NEW r, NEW k \in 2..24, NEW a \in 4..11, NEW b \in 0..15,
         s.wqe_cnt = 2^k, r.wqe_cnt = 2^b, r.wqe_shift = a
  PROVE  Describes(CreateFields(cqn, s, r), cqn, k, a, b)
<1> DEFINE F == CreateFields(cqn, s, r)
<1>1. ilog32(2^k - 1) = k /\ ilog32(2^b - 1) = b
  <2>1. k \in 0..30 /\ b \in 0..30
    OBVIOUS
  <2> QED
    BY <2>1, IlogOfPower
<1>2. /\ DOMAIN F = {"pm_state", "log_rq_size", "log_rq_stride", "log_sq_size",
                     "cqn_snd", "cqn_rcv", "dbr_umem_valid"}
      /\ F["pm_state"] = 3 /\ F["log_rq_size"] = ilog32(r.wqe_cnt - 1)
      /\ F["log_rq_stride"] = r.wqe_shift - 4 /\ F["log_sq_size"] = ilog32(s.wqe_cnt - 1)
      /\ F["cqn_snd"] = cqn /\ F["cqn_rcv"] = cqn /\ F["dbr_umem_valid"] = 1
  BY DEF CreateFields
<1> HIDE DEF F
<1>3. F["log_rq_size"] = b /\ F["log_rq_stride"] = a - 4 /\ F["log_sq_size"] = k
  BY <1>1, <1>2
<1>4. b % 2^4 = b
  BY Powers
<1>5. (a - 4) % 2^3 = a - 4
  BY Powers
<1>6. k <= 15 => k % 2^4 = k
  BY Powers
<1>7. cqn % 2^24 = cqn
  <2>1. cqn \in 0..(2^24 - 1)
    BY NumbersAssumption
  <2>2. cqn \in Nat /\ cqn < 2^24 /\ 2^24 \in Nat
    BY <2>1, Powers
  <2> QED
    BY <2>2
<1>8. 3 % 2^2 = 3 /\ 1 % 2^1 = 1
  BY Powers
<1>9. \A f \in DOMAIN F \ {"log_sq_size"} : F[f] % 2^QpcBits[f] = F[f]
  BY <1>2, <1>3, <1>4, <1>5, <1>7, <1>8, Widths
<1>10. k <= 15 => F["log_sq_size"] % 2^QpcBits["log_sq_size"] = F["log_sq_size"]
  BY <1>3, <1>6, Widths
<1> QED
  BY <1>2, <1>3, <1>9, <1>10 DEF Describes, CreateNames, Fits, F

(***************************************************************************)
(* All the fields passed so far.                                           *)
(***************************************************************************)
LEMMA FitsGrow ==
  ASSUME NEW new, NEW top, NEW old, NEW but,
         Covers(new, top, old), Fits(top, but), Fits(old, but)
  PROVE  Fits(new, but)
  BY DEF Covers, Fits

Cuts == {"log_sra_max", "log_sq_size"}

(* The fields of the creation are still there, but for the path migration  *)
(* that rst2init passes again, and all fit but two.                        *)
Holds(passed, created) ==
  /\ Fits(passed, Cuts)
  /\ \A f \in CreateNames \ {"pm_state"} : f \in DOMAIN passed /\ passed[f] = created[f]

LEMMA HoldsGrows ==
  ASSUME NEW created, NEW new, NEW top, NEW old, Holds(old, created),
         Covers(new, top, old), Fits(top, Cuts),
         \A f \in DOMAIN top : f \notin CreateNames \ {"pm_state"}
  PROVE  Holds(new, created)
<1>1. Fits(new, Cuts)
  BY FitsGrow DEF Holds
<1>2. \A f \in CreateNames \ {"pm_state"} : f \in DOMAIN new /\ new[f] = created[f]
  BY DEF Holds, Covers
<1> QED
  BY <1>1, <1>2 DEF Holds

LEMMA LayersHold ==
  ASSUME NEW ether, NEW created, DOMAIN created = CreateNames,
         Fits(created, {"log_sq_size"}), NEW stage \in {"reset", "init", "rtr", "rts"}
  PROVE  LET P == Layers(stage, ether, created)
         IN  /\ Holds(P, created)
             /\ "log_sra_max" \in DOMAIN P => P["log_sra_max"] = RtsFields["log_sra_max"]
<1> DEFINE P(s) == Layers(s, ether, created)
           none == <<>>
<1>1. /\ Covers(P("reset"), none, created)
      /\ Covers(P("init"), InitFields, P("reset"))
      /\ Covers(P("rtr"), RtrFields(ether), P("init"))
      /\ Covers(P("rts"), RtsFields, P("rtr"))
  BY LayersGrow
<1>2. DOMAIN none = {}
  BY NoFields
<1> HIDE DEF P, none
<1>3. /\ Fits(none, Cuts) /\ Fits(InitFields, Cuts) /\ Fits(RtrFields(ether), Cuts)
      /\ Fits(RtsFields, Cuts) /\ Fits(created, Cuts)
  <2>1. \A g : Fits(g, {}) => Fits(g, Cuts)
    BY DEF Fits
  <2>2. \A g, f : Fits(g, {f}) /\ f \in Cuts => Fits(g, Cuts)
    BY DEF Fits
  <2>3. Fits(none, {})
    BY <1>2 DEF Fits
  <2> QED
    BY <2>1, <2>2, <2>3, InitFits, RtrFits, RtsFits DEF Cuts
<1>4. /\ DOMAIN InitFields = {"pm_state", "vhca_port_num", "rre", "rwe"}
      /\ DOMAIN RtsFields = {"retry_count", "rnr_retry", "log_sra_max", "ack_timeout",
                             "vhca_port_num"}
      /\ DOMAIN RtrFields(ether) \subseteq {"mtu", "log_msg_max", "vhca_port_num",
                                            "min_rnr_nak", "udp_sport", "hop_limit"}
  BY RtrFits DEF InitFields, RtsFields
<1>5. Holds(created, created)
  BY <1>3 DEF Holds
<1>6. Holds(P("reset"), created)
  BY <1>1, <1>2, <1>3, <1>5, HoldsGrows
<1>7. Holds(P("init"), created)
  <2>1. \A f \in DOMAIN InitFields : f \notin CreateNames \ {"pm_state"}
    BY <1>4 DEF CreateNames
  <2> QED
    BY <1>1, <1>3, <1>6, <2>1, HoldsGrows
<1>8. Holds(P("rtr"), created)
  <2>1. \A f \in DOMAIN RtrFields(ether) : f \notin CreateNames \ {"pm_state"}
    BY <1>4 DEF CreateNames
  <2> QED
    BY <1>1, <1>3, <1>7, <2>1, HoldsGrows
<1>9. Holds(P("rts"), created)
  <2>1. \A f \in DOMAIN RtsFields : f \notin CreateNames \ {"pm_state"}
    BY <1>4 DEF CreateNames
  <2> QED
    BY <1>1, <1>3, <1>8, <2>1, HoldsGrows
<1>10. /\ "log_sra_max" \notin DOMAIN P("reset") /\ "log_sra_max" \notin DOMAIN P("init")
       /\ "log_sra_max" \notin DOMAIN P("rtr")
       /\ P("rts")["log_sra_max"] = RtsFields["log_sra_max"]
  BY <1>1, <1>2, <1>4 DEF Covers, CreateNames
<1>11. Holds(P(stage), created)
  BY <1>6, <1>7, <1>8, <1>9
<1>12. "log_sra_max" \in DOMAIN P(stage) => P(stage)["log_sra_max"] = RtsFields["log_sra_max"]
  BY <1>10
<1> QED
  BY <1>11, <1>12 DEF P

(***************************************************************************)
(* The inductive invariant: what the driver holds is what it computed, and *)
(* what the device holds is what it was passed, cut to the fields.         *)
(***************************************************************************)
Calls == {"start", "cq", "reset", "init", "rtr", "rts"}

ShapesRight ==
  /\ cap \in Caps /\ roce \in BOOLEAN /\ call \in Calls
  /\ DOMAIN hw = {"cqn", "qpn", "state"} /\ hw = [x \in DOMAIN hw |-> hw[x]]

CqRight ==
  call # "start" =>
    /\ hw.cqn \in Numbers
    /\ cq = [ncqe |-> 2^LogCqSize, cqn |-> hw.cqn,
             buflen |-> align(roundup_pow_of_two(64 * 2^LogCqSize), PageSize)]
    /\ cqc = DEVX_SET(CqcBits, CqFields)

RingsRight ==
  Created =>
    \E junk \in Stack :
      LET w == calc_wq_size(cap, junk)
      IN  sq = w.sq /\ rq = w.rq /\ buflen = align(w.size, PageSize)

QpRight == Created => hw.state = call /\ hw.qpn = qpn /\ qpn \in Numbers

Cut(fields, passed) ==
  /\ DOMAIN fields = DOMAIN passed
  /\ \A f \in DOMAIN passed : fields[f] = passed[f] % 2^QpcBits[f]

CutRight == Created => Cut(qpc, Layers(call, roce, CreateFields(cq.cqn, sq, rq)))

QpInv == ShapesRight /\ CqRight /\ RingsRight /\ QpRight /\ CutRight

LEMMA QpInitRight == QpInit => QpInv
<1> SUFFICES ASSUME QpInit
             PROVE  QpInv
  OBVIOUS
<1>1. call = "start" /\ ~Created
  BY DEF QpInit, Created
<1>2. ShapesRight
  BY DEF QpInit, ShapesRight, Calls
<1> QED
  BY <1>1, <1>2 DEF QpInv, CqRight, RingsRight, QpRight, CutRight

(* The numbers of commands and objects fit the fields of the commands.     *)
LEMMA NumbersFit ==
  ASSUME NEW n \in Numbers
  PROVE  n % 2^24 = n
<1>1. n \in 0..(2^24 - 1)
  BY NumbersAssumption
<1>2. n \in Nat /\ n < 2^24 /\ 2^24 \in Nat
  BY <1>1, Powers
<1> QED
  BY <1>2

LEMMA CreateCqRight ==
  ASSUME QpInv, pp_create_cq_dv
  PROVE  QpInv'
<1> DEFINE cmd == DEVX_SET(create_cq_in, [opcode |-> MLX5_CMD_OP_CREATE_CQ, cq_umem_valid |-> 1])
<1>1. CreatesCq(cmd)
  <2>1. cmd.opcode = 1024 % 2^16 /\ cmd.cq_umem_valid = 1 % 2^1
    BY DEF DEVX_SET, create_cq_in, MLX5_CMD_OP_CREATE_CQ
  <2>2. 1024 % 2^16 = 1024 /\ 1 % 2^1 = 1
    BY Powers
  <2> HIDE DEF cmd
  <2> QED
    BY <2>1, <2>2 DEF CreatesCq, MLX5_CMD_OP_CREATE_CQ
<1>2. PICK n \in Numbers :
        /\ call = "start" /\ call' = "cq" /\ hw' = [hw EXCEPT !.cqn = n]
        /\ cqc' = DEVX_SET(CqcBits, CqFields)
        /\ cq' = [ncqe |-> 2^LogCqSize, cqn |-> DEVX_SET(create_cq_out, [cqn |-> n]).cqn,
                  buflen |-> align(roundup_pow_of_two(64 * 2^LogCqSize), PageSize)]
        /\ UNCHANGED <<cap, roce, sq, rq, buflen, qpn, qpc>>
  <2> HIDE DEF cmd
  <2>1. pp_create_cq_dv <=>
          /\ call = "start"
          /\ IF CreatesCq(cmd)
             THEN \E n \in Numbers :
                    /\ call' = "cq" /\ hw' = [hw EXCEPT !.cqn = n]
                    /\ cqc' = DEVX_SET(CqcBits, CqFields)
                    /\ cq' = [ncqe |-> 2^LogCqSize,
                              cqn |-> DEVX_SET(create_cq_out, [cqn |-> n]).cqn,
                              buflen |-> align(roundup_pow_of_two(64 * 2^LogCqSize), PageSize)]
             ELSE call' = "failed" /\ UNCHANGED <<hw, cqc, cq>>
          /\ UNCHANGED <<cap, roce, sq, rq, buflen, qpn, qpc>>
    BY DEF pp_create_cq_dv, cmd
  <2> QED
    BY <1>1, <2>1
<1>3. DEVX_SET(create_cq_out, [cqn |-> n]).cqn = n
  <2>1. DEVX_SET(create_cq_out, [cqn |-> n]).cqn = n % 2^24
    BY DEF DEVX_SET, create_cq_out
  <2> QED
    BY <2>1, NumbersFit
<1>4. hw'.cqn = n /\ DOMAIN hw' = DOMAIN hw /\ hw' = [x \in DOMAIN hw' |-> hw'[x]]
  BY <1>2 DEF QpInv, ShapesRight
<1>5. ShapesRight'
  BY <1>2, <1>4 DEF QpInv, ShapesRight, Calls
<1>6. CqRight'
  BY <1>2, <1>3, <1>4 DEF CqRight
<1>7. ~Created'
  BY <1>2 DEF Created
<1> QED
  BY <1>5, <1>6, <1>7 DEF QpInv, RingsRight, QpRight, CutRight

LEMMA CreateQpRight ==
  ASSUME QpInv, pp_create_qp_dv
  PROVE  QpInv'
<1> DEFINE cmd == DEVX_SET(create_qp_in, [opcode |-> MLX5_CMD_OP_CREATE_QP, wq_umem_valid |-> 1])
<1>1. CreatesQp(cmd)
  <2>1. cmd.opcode = 1280 % 2^16 /\ cmd.wq_umem_valid = 1 % 2^1
    BY DEF DEVX_SET, create_qp_in, MLX5_CMD_OP_CREATE_QP
  <2>2. 1280 % 2^16 = 1280 /\ 1 % 2^1 = 1
    BY Powers
  <2> HIDE DEF cmd
  <2> QED
    BY <2>1, <2>2 DEF CreatesQp, MLX5_CMD_OP_CREATE_QP
<1>2. PICK junk \in Stack, n \in Numbers :
        /\ call = "cq" /\ call' = "reset" /\ hw' = [hw EXCEPT !.qpn = n, !.state = "reset"]
        /\ sq' = calc_wq_size(cap, junk).sq /\ rq' = calc_wq_size(cap, junk).rq
        /\ buflen' = align(calc_wq_size(cap, junk).size, PageSize)
        /\ qpn' = DEVX_SET(create_qp_out, [qpn |-> n]).qpn
        /\ qpc' = DEVX_SET(QpcBits, CreateFields(cq.cqn, sq', rq'))
        /\ UNCHANGED <<cap, roce, cq, cqc>>
  <2> HIDE DEF cmd
  <2>1. /\ call = "cq" /\ UNCHANGED <<cap, roce, cq, cqc>>
        /\ \E junk \in Stack :
             /\ sq' = calc_wq_size(cap, junk).sq /\ rq' = calc_wq_size(cap, junk).rq
             /\ buflen' = align(calc_wq_size(cap, junk).size, PageSize)
             /\ IF CreatesQp(cmd)
                THEN \E n \in Numbers :
                       /\ call' = "reset" /\ hw' = [hw EXCEPT !.qpn = n, !.state = "reset"]
                       /\ qpn' = DEVX_SET(create_qp_out, [qpn |-> n]).qpn
                       /\ qpc' = DEVX_SET(QpcBits, CreateFields(cq.cqn, sq', rq'))
                ELSE call' = "failed" /\ UNCHANGED <<hw, qpn, qpc>>
    BY DEF pp_create_qp_dv, cmd
  <2> QED
    BY <1>1, <2>1
<1>3. DEVX_SET(create_qp_out, [qpn |-> n]).qpn = n
  <2>1. DEVX_SET(create_qp_out, [qpn |-> n]).qpn = n % 2^24
    BY DEF DEVX_SET, create_qp_out
  <2> QED
    BY <2>1, NumbersFit
<1>4. /\ hw'.cqn = hw.cqn /\ hw'.qpn = n /\ hw'.state = "reset" /\ DOMAIN hw' = DOMAIN hw
      /\ hw' = [x \in DOMAIN hw' |-> hw'[x]]
  BY <1>2 DEF QpInv, ShapesRight
<1>5. ShapesRight'
  BY <1>2, <1>4 DEF QpInv, ShapesRight, Calls
<1>6. CqRight'
  BY <1>2, <1>4 DEF QpInv, CqRight
<1>7. RingsRight'
  <2>1. LET w == calc_wq_size(cap, junk)
        IN  sq' = w.sq /\ rq' = w.rq /\ buflen' = align(w.size, PageSize)
    BY <1>2
  <2>2. cap' = cap
    BY <1>2
  <2> QED
    BY <2>1, <2>2 DEF RingsRight
<1>8. QpRight'
  BY <1>2, <1>3, <1>4 DEF QpRight
<1>9. CutRight'
  <2> DEFINE C == CreateFields(cq.cqn, sq', rq')
             P == Layers("reset", roce, C)
             none == <<>>
  <2>1. Covers(P, none, C) /\ DOMAIN none = {}
    BY LayersGrow, NoFields
  <2>2. qpc' = [f \in DOMAIN C |-> C[f] % 2^QpcBits[f]]
    BY <1>2 DEF DEVX_SET
  <2>3. (Layers(call, roce, CreateFields(cq.cqn, sq, rq)))' = P
    BY <1>2
  <2> HIDE DEF C, P, none
  <2>4. Cut(qpc', P)
    BY <2>1, <2>2 DEF Cut, Covers
  <2> QED
    BY <2>3, <2>4 DEF CutRight, Cut
<1> QED
  BY <1>5, <1>6, <1>7, <1>8, <1>9 DEF QpInv

(* A transition that the device knows, with fields laid over those passed  *)
(* before.                                                                 *)
ModifyLayout == [opcode |-> 16, qpn |-> 24]

LEMMA ModifyRight ==
  ASSUME QpInv, Created, NEW opcode \in DOMAIN HwMoves, NEW to \in {"init", "rtr", "rts"},
         opcode % 2^16 = opcode, HwMoves[opcode][1] = call, HwMoves[opcode][2] = to,
         NEW fields, Modify(ModifyLayout, opcode, to, fields),
         \A C : Covers(Layers(to, roce, C), fields, Layers(call, roce, C))
  PROVE  QpInv'
<1> DEFINE cmd == DEVX_SET(ModifyLayout, [opcode |-> opcode, qpn |-> qpn])
<1>0. hw.state = call /\ hw.qpn = qpn /\ qpn \in Numbers /\ call # "start"
  BY DEF QpInv, QpRight, Created
<1>1. cmd.opcode = opcode /\ cmd.qpn = qpn
  <2>1. cmd.opcode = opcode % 2^16 /\ cmd.qpn = qpn % 2^24
    BY DEF DEVX_SET, ModifyLayout
  <2> HIDE DEF cmd
  <2> QED
    BY <1>0, <2>1, NumbersFit
<1> HIDE DEF cmd
<1>2. MovesQp(cmd)
  BY <1>0, <1>1 DEF MovesQp
<1>3. /\ call' = to /\ hw' = [hw EXCEPT !.state = HwMoves[cmd.opcode][2]]
      /\ qpc' = Over(DEVX_SET(QpcBits, fields), qpc)
      /\ UNCHANGED <<cap, roce, cq, cqc, sq, rq, buflen, qpn>>
  BY <1>2 DEF Modify, cmd
<1>4. /\ hw'.cqn = hw.cqn /\ hw'.qpn = hw.qpn /\ hw'.state = to /\ DOMAIN hw' = DOMAIN hw
      /\ hw' = [x \in DOMAIN hw' |-> hw'[x]]
  BY <1>1, <1>3 DEF QpInv, ShapesRight
<1>5. ShapesRight'
  BY <1>3, <1>4 DEF QpInv, ShapesRight, Calls
<1>6. CqRight'
  BY <1>0, <1>3, <1>4 DEF QpInv, CqRight
<1>7. RingsRight'
  <2>1. PICK junk \in Stack :
          LET w == calc_wq_size(cap, junk)
          IN  sq = w.sq /\ rq = w.rq /\ buflen = align(w.size, PageSize)
    BY DEF QpInv, RingsRight
  <2> QED
    BY <1>3, <2>1 DEF RingsRight
<1>8. QpRight'
  BY <1>0, <1>3, <1>4 DEF QpRight
<1>9. CutRight'
  <2> DEFINE C == CreateFields(cq.cqn, sq, rq)
             old == Layers(call, roce, C)
             new == Layers(to, roce, C)
             top == DEVX_SET(QpcBits, fields)
  <2>1. Cut(qpc, old) /\ Covers(new, fields, old)
    BY DEF QpInv, CutRight
  <2>2. DOMAIN top = DOMAIN fields /\ \A f \in DOMAIN fields : top[f] = fields[f] % 2^QpcBits[f]
    BY DEF DEVX_SET
  <2>3. qpc' = Over(top, qpc)
    BY <1>3
  <2>4. (Layers(call, roce, CreateFields(cq.cqn, sq, rq)))' = new
    BY <1>3
  <2> HIDE DEF C, old, new, top
  <2>5. /\ DOMAIN qpc' = DOMAIN top \cup DOMAIN qpc
        /\ \A f \in DOMAIN top : qpc'[f] = top[f]
        /\ \A f \in DOMAIN qpc : f \notin DOMAIN top => qpc'[f] = qpc[f]
    <3>1. /\ DOMAIN Over(top, qpc) = DOMAIN top \cup DOMAIN qpc
          /\ \A f \in DOMAIN top : Over(top, qpc)[f] = top[f]
          /\ \A f \in DOMAIN qpc : f \notin DOMAIN top => Over(top, qpc)[f] = qpc[f]
      BY OverFacts
    <3> QED
      BY <2>3, <3>1
  <2>6. Cut(qpc', new)
    BY <2>1, <2>2, <2>5 DEF Cut, Covers
  <2> QED
    BY <2>4, <2>6 DEF CutRight, Cut
<1> QED
  BY <1>5, <1>6, <1>7, <1>8, <1>9 DEF QpInv

LEMMA MovesRight ==
  /\ DOMAIN HwMoves = {1282, 1283, 1284}
  /\ HwMoves[1282] = <<"reset", "init">> /\ HwMoves[1283] = <<"init", "rtr">>
  /\ HwMoves[1284] = <<"rtr", "rts">>
  /\ 1282 % 2^16 = 1282 /\ 1283 % 2^16 = 1283 /\ 1284 % 2^16 = 1284
<1>1. 1282 % 2^16 = 1282 /\ 1283 % 2^16 = 1283 /\ 1284 % 2^16 = 1284
  BY Powers
<1>2. DOMAIN HwMoves = {1282, 1283, 1284}
  BY DEF HwMoves, MLX5_CMD_OP_RST2INIT_QP, MLX5_CMD_OP_INIT2RTR_QP, MLX5_CMD_OP_RTR2RTS_QP
<1>3. HwMoves[1282] = <<"reset", "init">>
  BY DEF HwMoves, MLX5_CMD_OP_RST2INIT_QP, MLX5_CMD_OP_INIT2RTR_QP, MLX5_CMD_OP_RTR2RTS_QP
<1>4. HwMoves[1283] = <<"init", "rtr">>
  BY DEF HwMoves, MLX5_CMD_OP_RST2INIT_QP, MLX5_CMD_OP_INIT2RTR_QP, MLX5_CMD_OP_RTR2RTS_QP
<1>5. HwMoves[1284] = <<"rtr", "rts">>
  BY DEF HwMoves, MLX5_CMD_OP_RST2INIT_QP, MLX5_CMD_OP_INIT2RTR_QP, MLX5_CMD_OP_RTR2RTS_QP
<1> QED
  BY <1>1, <1>2, <1>3, <1>4, <1>5

LEMMA TransitionsRight ==
  ASSUME QpInv, dvqp_rst2init \/ dvqp_init2rtr \/ dvqp_rtr2rts
  PROVE  QpInv'
<1>1. ASSUME dvqp_rst2init
      PROVE  QpInv'
  <2>1. call = "reset" /\ Created /\ Modify(ModifyLayout, 1282, "init", InitFields)
    BY <1>1 DEF dvqp_rst2init, Created, ModifyLayout, rst2init_qp_in, MLX5_CMD_OP_RST2INIT_QP
  <2>2. \A C : Covers(Layers("init", roce, C), InitFields, Layers("reset", roce, C))
    BY LayersGrow
  <2> QED
    BY <2>1, <2>2, MovesRight, ModifyRight
<1>2. ASSUME dvqp_init2rtr
      PROVE  QpInv'
  <2>1. call = "init" /\ Created /\ Modify(ModifyLayout, 1283, "rtr", RtrFields(roce))
    BY <1>2 DEF dvqp_init2rtr, Created, ModifyLayout, init2rtr_qp_in, MLX5_CMD_OP_INIT2RTR_QP
  <2>2. \A C : Covers(Layers("rtr", roce, C), RtrFields(roce), Layers("init", roce, C))
    BY LayersGrow
  <2> QED
    BY <2>1, <2>2, MovesRight, ModifyRight
<1>3. ASSUME dvqp_rtr2rts
      PROVE  QpInv'
  <2>1. call = "rtr" /\ Created /\ Modify(ModifyLayout, 1284, "rts", RtsFields)
    BY <1>3 DEF dvqp_rtr2rts, Created, ModifyLayout, rtr2rts_qp_in, MLX5_CMD_OP_RTR2RTS_QP
  <2>2. \A C : Covers(Layers("rts", roce, C), RtsFields, Layers("rtr", roce, C))
    BY LayersGrow
  <2> QED
    BY <2>1, <2>2, MovesRight, ModifyRight
<1> QED
  BY <1>1, <1>2, <1>3

LEMMA StutterRight ==
  ASSUME QpInv, UNCHANGED qpVars
  PROVE  QpInv'
<1>1. ShapesRight' /\ CqRight' /\ QpRight' /\ Created' = Created
  BY DEF QpInv, qpVars, ShapesRight, CqRight, QpRight, Created
<1>2. RingsRight'
  BY DEF QpInv, RingsRight, qpVars, Created
<1>3. CutRight'
  BY DEF QpInv, CutRight, Cut, qpVars, Created
<1> QED
  BY <1>1, <1>2, <1>3 DEF QpInv

LEMMA QpInvariance == QpSpec => []QpInv
<1>1. ASSUME QpInv, [QpNext]_qpVars
      PROVE  QpInv'
  BY <1>1, CreateCqRight, CreateQpRight, TransitionsRight, StutterRight DEF QpNext
<1> QED
  BY QpInitRight, <1>1, PTL DEF QpSpec

(***************************************************************************)
(* The rings and their logarithms, in the numbers that decide them.        *)
(***************************************************************************)
LEMMA CreatedRings ==
  ASSUME QpInv, Created
  PROVE  \E k \in 2..24, a \in 4..11, b \in 0..15, p \in Nat :
           /\ sq.wqe_cnt = 2^k /\ sq.wqe_shift = 6 /\ sq.max_post = p
           /\ sq.offset = 2^b * 2^a /\ sq.offset \in Nat /\ sq.offset % 64 = 0
           /\ rq.wqe_cnt = 2^b /\ rq.wqe_shift = a /\ rq.max_post = 2^b /\ rq.offset = 0
           /\ buflen = align(64 * 2^k + 2^b * 2^a, PageSize)
           /\ p <= 2^k /\ cap.max_send_wr <= p /\ p < 2 * cap.max_send_wr
           /\ Determined => k <= 15
           /\ cap.max_recv_wr <= 2^b /\ (2^b < 2 * cap.max_recv_wr \/ 2^b <= 4)
<1>1. PICK junk \in Stack :
        LET w == calc_wq_size(cap, junk)
        IN  sq = w.sq /\ rq = w.rq /\ buflen = align(w.size, PageSize)
  BY DEF QpInv, RingsRight
<1> DEFINE s == calc_sq_size(cap, junk)
           r == calc_rq_size(cap)
<1>2. cap \in Caps
  BY DEF QpInv, ShapesRight
<1>3. PICK k \in 2..24 :
        /\ s.wqe_cnt = 2^k /\ s.wqe_shift = 6 /\ s.size = 64 * 2^k
        /\ s.max_post \in Nat /\ s.max_post <= 2^k
        /\ cap.max_send_wr <= s.max_post /\ s.max_post < 2 * cap.max_send_wr
        /\ cap.max_inline_data # 0 => k <= 15
  BY <1>2, SendRing
<1>4. PICK a \in 4..11, b \in 0..15 :
        /\ r.wqe_cnt = 2^b /\ r.wqe_shift = a /\ r.max_post = 2^b
        /\ r.size = 2^b * 2^a /\ r.size \in Nat /\ r.size % 64 = 0
        /\ cap.max_recv_wr <= 2^b /\ (2^b < 2 * cap.max_recv_wr \/ 2^b <= 4)
  BY <1>2, RecvRing
<1>5. /\ sq = Over(s, [offset |-> r.size]) /\ rq = Over(r, [offset |-> 0])
      /\ buflen = align(s.size + r.size, PageSize)
  <2>1. LET w == calc_wq_size(cap, junk)
        IN  /\ w.sq = Over(s, [offset |-> r.size]) /\ w.rq = Over(r, [offset |-> 0])
            /\ w.size = s.size + r.size
    BY DEF calc_wq_size
  <2> QED
    BY <1>1, <2>1
<1>6. DOMAIN s = {"wqe_cnt", "wqe_shift", "max_post", "size"}
  BY DEF calc_sq_size
<1>7. DOMAIN r = {"wqe_cnt", "wqe_shift", "max_post", "size"}
  BY DEF calc_rq_size
<1> HIDE DEF s, r
<1>8. /\ sq.wqe_cnt = s.wqe_cnt /\ sq.wqe_shift = s.wqe_shift /\ sq.max_post = s.max_post
      /\ sq.offset = r.size
  <2> DEFINE o == [offset |-> r.size]
  <2>1. DOMAIN o = {"offset"} /\ o["offset"] = r.size
    OBVIOUS
  <2> HIDE DEF o
  <2>2. /\ \A x \in DOMAIN s : Over(s, o)[x] = s[x]
        /\ \A x \in DOMAIN o : x \notin DOMAIN s => Over(s, o)[x] = o[x]
    BY OverFacts
  <2>3. sq = Over(s, o)
    BY <1>5 DEF o
  <2> QED
    BY <1>6, <2>1, <2>2, <2>3
<1>9. /\ rq.wqe_cnt = r.wqe_cnt /\ rq.wqe_shift = r.wqe_shift /\ rq.max_post = r.max_post
      /\ rq.offset = 0
  <2> DEFINE o == [offset |-> 0]
  <2>1. DOMAIN o = {"offset"} /\ o["offset"] = 0
    OBVIOUS
  <2> HIDE DEF o
  <2>2. /\ \A x \in DOMAIN r : Over(r, o)[x] = r[x]
        /\ \A x \in DOMAIN o : x \notin DOMAIN r => Over(r, o)[x] = o[x]
    BY OverFacts
  <2>3. rq = Over(r, o)
    BY <1>5 DEF o
  <2> QED
    BY <1>7, <2>1, <2>2, <2>3
<1>10. /\ sq.wqe_cnt = 2^k /\ sq.wqe_shift = 6
       /\ sq.offset = 2^b * 2^a /\ sq.offset \in Nat /\ sq.offset % 64 = 0
       /\ sq.max_post \in Nat /\ sq.max_post <= 2^k
       /\ cap.max_send_wr <= sq.max_post /\ sq.max_post < 2 * cap.max_send_wr
  BY <1>3, <1>4, <1>8
<1>11. rq.wqe_cnt = 2^b /\ rq.wqe_shift = a /\ rq.max_post = 2^b /\ rq.offset = 0
  BY <1>4, <1>9
<1>12. buflen = align(64 * 2^k + 2^b * 2^a, PageSize)
  BY <1>3, <1>4, <1>5
<1> QED
  BY <1>3, <1>4, <1>10, <1>11, <1>12 DEF Determined

LEMMA CreatedCq ==
  ASSUME QpInv, Created
  PROVE  /\ cq.ncqe = 2^LogCqSize /\ cq.cqn = hw.cqn /\ hw.cqn \in Numbers
         /\ cq.buflen = align(roundup_pow_of_two(64 * 2^LogCqSize), PageSize)
         /\ cqc.log_cq_size = LogCqSize
<1>1. /\ hw.cqn \in Numbers
      /\ cq = [ncqe |-> 2^LogCqSize, cqn |-> hw.cqn,
               buflen |-> align(roundup_pow_of_two(64 * 2^LogCqSize), PageSize)]
      /\ cqc = DEVX_SET(CqcBits, CqFields)
  BY DEF QpInv, CqRight, Created
<1>2. cqc.log_cq_size = LogCqSize % 2^5
  BY <1>1 DEF DEVX_SET, CqcBits, CqFields
<1>3. LogCqSize % 2^5 = LogCqSize
  BY SizeAssumption, Powers
<1> QED
  BY <1>1, <1>2, <1>3

(***************************************************************************)
(* The rings hold the requests they were asked for, and those they admit;  *)
(* the completion queue has an entry for each.                             *)
(***************************************************************************)
THEOREM RingsAreLarge == QpSpec => []RingsHoldRequests
<1>1. ASSUME QpInv, Created
      PROVE  /\ {sq.wqe_cnt, rq.wqe_cnt, cq.ncqe} \subseteq PowersOfTwo
             /\ rq.wqe_cnt < 65536 /\ (Determined => sq.wqe_cnt < 65536)
             /\ sq.max_post >= cap.max_send_wr /\ sq.max_post * Blocks <= sq.wqe_cnt
             /\ rq.max_post >= cap.max_recv_wr /\ rq.max_post <= rq.wqe_cnt
             /\ cap.max_send_wr <= PpMaxWr /\ cap.max_recv_wr <= PpMaxWr =>
                  sq.max_post + rq.max_post <= cq.ncqe
  <2>1. PICK k \in 2..24, a \in 4..11, b \in 0..15, p \in Nat :
          /\ sq.wqe_cnt = 2^k /\ sq.max_post = p
          /\ rq.wqe_cnt = 2^b /\ rq.max_post = 2^b
          /\ p <= 2^k /\ cap.max_send_wr <= p /\ p < 2 * cap.max_send_wr
          /\ Determined => k <= 15
          /\ cap.max_recv_wr <= 2^b /\ (2^b < 2 * cap.max_recv_wr \/ 2^b <= 4)
    BY <1>1, CreatedRings
  <2>2. PICK s \in Nat \ {0}, m \in Nat \ {0} : cap.max_send_wr = s /\ cap.max_recv_wr = m
    <3>1. cap \in Caps
      BY <1>1 DEF QpInv, ShapesRight
    <3>2. cap.max_send_wr \in Nat \ {0} /\ cap.max_recv_wr \in Nat \ {0}
      BY <3>1, CapsAssumption DEF Caps
    <3> QED
      BY <3>2
  <2>3. cq.ncqe = 2^LogCqSize
    BY <1>1, CreatedCq
  <2>4. k \in 0..31 /\ b \in 0..31 /\ 15 \in 0..31 /\ LogCqSize \in 0..31
    BY SizeAssumption
  <2>5. 2^k \in Nat /\ 2^b \in Nat /\ 2^LogCqSize \in Nat
    BY <2>4, PowerTyped
  <2>6. {sq.wqe_cnt, rq.wqe_cnt, cq.ncqe} \subseteq PowersOfTwo
    <3>1. k \in 0..30 /\ b \in 0..30 /\ LogCqSize \in 0..30
      BY SizeAssumption
    <3> QED
      BY <2>1, <2>3, <3>1 DEF PowersOfTwo
  <2>7. 2^b < 65536
    <3>1. b <= 15
      OBVIOUS
    <3>2. 2^b <= 2^15
      BY <2>4, <3>1, PowersGrow
    <3> QED
      BY <2>5, <3>2, Powers
  <2>8. Determined => 2^k < 65536
    <3> SUFFICES ASSUME k <= 15
                 PROVE  2^k < 65536
      BY <2>1
    <3>1. 2^k <= 2^15
      BY <2>4, PowersGrow
    <3> QED
      BY <2>5, <3>1, Powers
  <2>9. s <= PpMaxWr /\ m <= PpMaxWr => p + 2^b <= 2^LogCqSize
    <3>1. PpMaxWr \in Nat /\ PpMaxWr >= 2 /\ 4 * PpMaxWr <= 2^LogCqSize
      BY SizeAssumption
    <3>2. p < 2 * s /\ (2^b < 2 * m \/ 2^b <= 4)
      BY <2>1, <2>2
    <3> QED
      BY <2>5, <3>1, <3>2
  <2>10. p * Blocks = p
    BY Constants
  <2> QED
    BY <2>1, <2>2, <2>3, <2>5, <2>6, <2>7, <2>8, <2>9, <2>10
<1>2. QpInv => RingsHoldRequests
  BY <1>1 DEF RingsHoldRequests
<1> QED
  BY QpInvariance, <1>2, PTL

(***************************************************************************)
(* The rings lie side by side, whatever the page size.                     *)
(***************************************************************************)
THEOREM RingsLieApart == QpSpec => []RingsApart
<1>1. ASSUME QpInv, Created
      PROVE  /\ rq.offset + rq.wqe_cnt * 2^rq.wqe_shift <= sq.offset
             /\ sq.offset + sq.wqe_cnt * 2^sq.wqe_shift <= buflen
             /\ sq.offset % SEND_WQE_BB = 0 /\ buflen % PageSize = 0
             /\ cq.ncqe * 64 <= cq.buflen
  <2>1. PICK k \in 2..24, a \in 4..11, b \in 0..15 :
          /\ sq.wqe_cnt = 2^k /\ sq.wqe_shift = 6
          /\ sq.offset = 2^b * 2^a /\ sq.offset \in Nat /\ sq.offset % 64 = 0
          /\ rq.wqe_cnt = 2^b /\ rq.wqe_shift = a /\ rq.offset = 0
          /\ buflen = align(64 * 2^k + 2^b * 2^a, PageSize)
    BY <1>1, CreatedRings
  <2>2. k \in 0..31 /\ LogCqSize \in 0..31 /\ LogCqSize \in 0..25 /\ 30 \in 0..31
    BY SizeAssumption
  <2>3. 2^k \in Nat /\ 2^LogCqSize \in Nat \ {0}
    BY <2>2, PowerTyped
  <2>4. PICK o \in Nat : o = 2^b * 2^a
    BY <2>1
  <2>5. /\ 64 * 2^k + o <= buflen /\ buflen % PageSize = 0 /\ buflen \in Nat
    <3>1. (64 * 2^k + o) \in Nat
      BY <2>3
    <3>2. PageSize \in Nat \ {0}
      BY SizeAssumption
    <3>3. buflen = align(64 * 2^k + o, PageSize)
      BY <2>1, <2>4
    <3> QED
      BY <3>1, <3>2, <3>3, Aligned
  <2>6. 64 * 2^LogCqSize <= cq.buflen
    <3> DEFINE n == 64 * 2^LogCqSize
    <3>1. n \in Nat \ {0} /\ n <= 2^30
      <4>1. 2^LogCqSize <= 2^24
        <5>1. 24 \in 0..31 /\ LogCqSize <= 24
          BY SizeAssumption
        <5> QED
          BY <2>2, <5>1, PowersGrow
      <4> QED
        BY <2>3, <4>1, Powers
    <3> HIDE DEF n
    <3>2. PICK j \in 0..30 : roundup_pow_of_two(n) = 2^j /\ n <= 2^j
      BY <3>1, RoundsUp
    <3>3. j \in 0..31
      OBVIOUS
    <3>4. 2^j \in Nat /\ PageSize \in Nat \ {0}
      BY <3>3, PowerTyped, SizeAssumption
    <3>5. 2^j <= align(2^j, PageSize) /\ align(2^j, PageSize) \in Nat
      BY <3>4, Aligned
    <3>6. cq.buflen = align(2^j, PageSize)
      BY <1>1, <3>2, CreatedCq DEF n
    <3>7. n <= cq.buflen
      BY <3>1, <3>2, <3>4, <3>5, <3>6
    <3> QED
      BY <3>7 DEF n
  <2>7. cq.ncqe = 2^LogCqSize
    BY <1>1, CreatedCq
  <2>8. rq.offset + rq.wqe_cnt * 2^rq.wqe_shift = o
    BY <2>1, <2>4
  <2>9. sq.offset + sq.wqe_cnt * 2^sq.wqe_shift = 64 * 2^k + o
    <3>1. 2^6 = 64
      BY Powers
    <3> QED
      BY <2>1, <2>3, <2>4, <3>1
  <2>10. cq.ncqe * 64 = 64 * 2^LogCqSize
    BY <2>3, <2>7
  <2>11. sq.offset % SEND_WQE_BB = 0
    BY <2>1, Constants
  <2>12. sq.offset = o
    BY <2>1, <2>4
  <2> QED
    BY <2>5, <2>6, <2>8, <2>9, <2>10, <2>11, <2>12
<1>2. QpInv => RingsApart
  BY <1>1 DEF RingsApart
<1> QED
  BY QpInvariance, <1>2, PTL

(***************************************************************************)
(* What the device holds of the queue pair, field by field.                *)
(***************************************************************************)
LEMMA DeviceHolds ==
  ASSUME QpInv, Created
  PROVE  /\ Passed = Layers(call, roce, CreateFields(cq.cqn, sq, rq))
         /\ \A f \in DOMAIN Passed \ Cuts : qpc[f] = Passed[f]
         /\ "log_sra_max" \in DOMAIN Passed => qpc["log_sra_max"] = 4
         /\ Determined => qpc["log_sq_size"] = Passed["log_sq_size"]
         /\ qpc["cqn_snd"] = hw.cqn /\ qpc["cqn_rcv"] = hw.cqn
         /\ Determined => 2^qpc["log_sq_size"] = sq.wqe_cnt
         /\ 2^qpc["log_rq_size"] = rq.wqe_cnt
         /\ qpc["log_rq_stride"] = rq.wqe_shift - 4
<1> DEFINE C == CreateFields(cq.cqn, sq, rq)
<1>1. PICK k \in 2..24, a \in 4..11, b \in 0..15 :
        /\ sq.wqe_cnt = 2^k /\ rq.wqe_cnt = 2^b /\ rq.wqe_shift = a
        /\ Determined => k <= 15
  BY CreatedRings
<1>2. cq.cqn = hw.cqn /\ hw.cqn \in Numbers
  BY CreatedCq
<1>3. Describes(C, cq.cqn, k, a, b)
  <2>1. cq.cqn \in Numbers
    BY <1>2
  <2>2. sq.wqe_cnt = 2^k /\ rq.wqe_cnt = 2^b /\ rq.wqe_shift = a
    BY <1>1
  <2> QED
    BY <2>1, <2>2, CreateFits
<1>4. Passed = Layers(call, roce, C)
  BY DEF Passed
<1>5. call \in {"reset", "init", "rtr", "rts"}
  BY DEF Created
<1> HIDE DEF C
<1>6. DOMAIN C = CreateNames /\ Fits(C, {"log_sq_size"})
  BY <1>3 DEF Describes
<1>7. /\ Holds(Passed, C)
      /\ "log_sra_max" \in DOMAIN Passed => Passed["log_sra_max"] = RtsFields["log_sra_max"]
  BY <1>4, <1>5, <1>6, LayersHold
<1>8. \A f \in DOMAIN Passed : qpc[f] = Passed[f] % 2^QpcBits[f]
  BY <1>4 DEF QpInv, CutRight, Cut, C
<1>9. \A f \in DOMAIN Passed \ Cuts : qpc[f] = Passed[f]
  BY <1>7, <1>8 DEF Holds, Fits
<1>10. "log_sra_max" \in DOMAIN Passed => qpc["log_sra_max"] = 4
  BY <1>7, <1>8, RtsFits
<1>11. \A f \in CreateNames \ {"pm_state"} : f \in DOMAIN Passed /\ Passed[f] = C[f]
  BY <1>7 DEF Holds
<1>12. Determined => qpc["log_sq_size"] = k /\ qpc["log_sq_size"] = Passed["log_sq_size"]
  <2>1. C["log_sq_size"] = k
        /\ (Determined => C["log_sq_size"] % 2^QpcBits["log_sq_size"] = C["log_sq_size"])
    BY <1>1, <1>3 DEF Describes
  <2>2. Passed["log_sq_size"] = C["log_sq_size"] /\ "log_sq_size" \in DOMAIN Passed
    BY <1>11 DEF CreateNames
  <2>3. qpc["log_sq_size"] = C["log_sq_size"] % 2^QpcBits["log_sq_size"]
    BY <1>8, <2>2
  <2> QED
    BY <2>1, <2>2, <2>3
<1>13. /\ qpc["cqn_snd"] = cq.cqn /\ qpc["cqn_rcv"] = cq.cqn
       /\ qpc["log_rq_size"] = b /\ qpc["log_rq_stride"] = a - 4
  <2>1. \A f \in {"cqn_snd", "cqn_rcv", "log_rq_size", "log_rq_stride"} : qpc[f] = C[f]
    BY <1>9, <1>11 DEF CreateNames, Cuts
  <2>2. /\ C["cqn_snd"] = cq.cqn /\ C["cqn_rcv"] = cq.cqn
        /\ C["log_rq_size"] = b /\ C["log_rq_stride"] = a - 4
    BY <1>3 DEF Describes
  <2> QED
    BY <2>1, <2>2
<1> QED
  BY <1>1, <1>2, <1>4, <1>9, <1>10, <1>12, <1>13 DEF C

(***************************************************************************)
(* Driver and device agree on the state of the queue pair, its completion  *)
(* queue and its rings.                                                    *)
(***************************************************************************)
THEOREM DeviceAlwaysAgrees == QpSpec => []DeviceAgrees
<1>1. ASSUME QpInv
      PROVE  DeviceAgrees
  <2>1. call # "failed"
    BY <1>1 DEF QpInv, ShapesRight, Calls
  <2>2. ASSUME Created
        PROVE  /\ hw.state = call /\ hw.qpn = qpn
               /\ {qpc.cqn_snd, qpc.cqn_rcv} = {hw.cqn}
               /\ 2^cqc.log_cq_size = cq.ncqe
               /\ Determined => 2^qpc.log_sq_size = sq.wqe_cnt
               /\ 2^qpc.log_rq_size = rq.wqe_cnt
               /\ 16 * 2^qpc.log_rq_stride = 2^rq.wqe_shift
    <3>1. hw.state = call /\ hw.qpn = qpn
      BY <1>1, <2>2 DEF QpInv, QpRight
    <3>2. 2^cqc.log_cq_size = cq.ncqe
      BY <1>1, <2>2, CreatedCq
    <3>3. {qpc.cqn_snd, qpc.cqn_rcv} = {hw.cqn}
      BY <1>1, <2>2, DeviceHolds
    <3>4. Determined => 2^qpc.log_sq_size = sq.wqe_cnt
      BY <1>1, <2>2, DeviceHolds
    <3>5. 2^qpc.log_rq_size = rq.wqe_cnt
      BY <1>1, <2>2, DeviceHolds
    <3>6. 16 * 2^qpc.log_rq_stride = 2^rq.wqe_shift
      <4>1. PICK a \in 4..11 : rq.wqe_shift = a
        BY <1>1, <2>2, CreatedRings
      <4>2. qpc.log_rq_stride = a - 4
        BY <1>1, <2>2, <4>1, DeviceHolds
      <4>3. 16 * 2^(a - 4) = 2^a
        <5> DEFINE S(i) == 16 * 2^(i - 4) = 2^i
        <5>1. S(4) /\ S(5) /\ S(6) /\ S(7) /\ S(8) /\ S(9) /\ S(10) /\ S(11)
          BY Powers
        <5>2. a = 4 \/ a = 5 \/ a = 6 \/ a = 7 \/ a = 8 \/ a = 9 \/ a = 10 \/ a = 11
          OBVIOUS
        <5> HIDE DEF S
        <5>3. S(a)
          BY <5>1, <5>2
        <5> QED
          BY <5>3 DEF S
      <4> QED
        BY <4>1, <4>2, <4>3
    <3> QED
      BY <3>1, <3>2, <3>3, <3>4, <3>5, <3>6
  <2> QED
    BY <2>1, <2>2 DEF DeviceAgrees
<1> QED
  BY QpInvariance, <1>1, PTL

(***************************************************************************)
(* No field is cut on its way but the one of the outstanding reads.        *)
(***************************************************************************)
THEOREM NothingElseIsCut == QpSpec => []OnlyReadsCut
<1>1. ASSUME QpInv, NEW f \in DOMAIN Passed
      PROVE  CASE f = "log_sra_max" -> qpc[f] = 4
               [] f = "log_sq_size" -> Determined => qpc[f] = Passed[f]
               [] OTHER -> qpc[f] = Passed[f]
  <2>1. Created
    <3> SUFFICES ASSUME ~Created
                 PROVE  DOMAIN Passed = {}
      BY <1>1
    <3> DEFINE none == <<>>
    <3>1. DOMAIN none = {} /\ \A g : DOMAIN Over(none, g) = DOMAIN g
      BY NoFields
    <3>2. Passed = Over(none, Over(none, Over(none, none)))
      BY DEF Passed, Layers, Created
    <3> HIDE DEF none
    <3> QED
      BY <3>1, <3>2
  <2> QED
    BY <1>1, <2>1, DeviceHolds DEF Cuts
<1>2. QpInv => OnlyReadsCut
  BY <1>1 DEF OnlyReadsCut
<1> QED
  BY QpInvariance, <1>2, PTL
=============================================================================
