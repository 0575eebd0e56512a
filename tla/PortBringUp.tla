----------------------------- MODULE PortBringUp -----------------------------
(***************************************************************************)
(* How two programs wait until their ports can be used.  The vfio client   *)
(* (vfio_init of client.vfio.c, with pp_vfio.c) raises its port itself and *)
(* asks for its attributes with MADs; the server, like any program over    *)
(* the kernel driver, asks ibv_query_port (pp_open_ibvdevice).  Neither    *)
(* loop has a limit.                                                       *)
(*                                                                         *)
(* The ports, the link and the subnet manager are external.  The two ports *)
(* may share one cable: then neither comes up unless both are raised.      *)
(***************************************************************************)
EXTENDS Integers

CONSTANT MaxFaults  \* bound on dropped links, deferrals and MADs refused

ASSUME BoundAssumption == MaxFaults \in Nat

Sides == {"vfio", "server"}
Other(s) == IF s = "vfio" THEN "server" ELSE "vfio"

(* enum mlx5_port_status, and the port states of ibv_query_port.           *)
MLX5_PORT_UP   == 1
MLX5_PORT_DOWN == 2

IBV_PORT_NOP    == 0
IBV_PORT_DOWN   == 1
IBV_PORT_INIT   == 2
IBV_PORT_ARMED  == 3
IBV_PORT_ACTIVE == 4
IBV_PORT_ACTIVE_DEFER == 5

NoLid == 65535
Lid   == 258  \* any other; its two bytes differ

VARIABLES
  cabled,  \* the two ports are at the ends of one cable
  port,    \* what each port is
  pc,      \* stage of each program
  paos,    \* the paos_reg that is sent
  attr,    \* ppc->port_attr, as far as the programs use it
  asked,   \* what the port was when it was last asked
  lost,    \* a call of pp_config_port failed
  faults   \* faults so far

vars == <<cabled, port, pc, paos, attr, asked, lost, faults>>

------------------------------------------------------------------------------
(***************************************************************************)
(* mlx5_core_access_reg: the register after a call, and op_mod.            *)
(***************************************************************************)
MLX5_ACCESS_REGISTER_IN_OP_MOD_WRITE == 0

op_mod(write) == IF write THEN 0 ELSE 1

(* A write with ase set enables or disables the port; nothing else does.   *)
Admin(old, in, write) ==
  IF op_mod(write) = MLX5_ACCESS_REGISTER_IN_OP_MOD_WRITE /\ in.ase = 1
  THEN in.admin_status ELSE old

(***************************************************************************)
(* The bytes of a PortInfo that matter (its other nibbles are not zero),   *)
(* and what pp_query_mad_ifc_port makes of them.                           *)
(***************************************************************************)
PortInfo(p) ==
  [b16 |-> p.lid \div 256, b17 |-> p.lid % 256, b32 |-> 16 * 3 + p.state]

NoPortInfo == [b16 |-> 0, b17 |-> 0, b32 |-> 0]

DecodeUnmasked(data) ==  \* broken: the speed is taken for part of the state
  [lid |-> 256 * data.b16 + data.b17, state |-> data.b32]

Decode(data) == [lid |-> 256 * data.b16 + data.b17, state |-> data.b32 % 16]

UsableAnyLid(s, a) ==  \* broken: does not wait for the subnet manager
  IF s = "vfio" THEN a.state >= IBV_PORT_ACTIVE ELSE a.state = IBV_PORT_ACTIVE

Usable(s, a) ==
  IF s = "vfio" THEN a.state >= IBV_PORT_ACTIVE /\ a.lid # NoLid
                ELSE a.state = IBV_PORT_ACTIVE

------------------------------------------------------------------------------
Down == [admin |-> MLX5_PORT_DOWN, state |-> IBV_PORT_DOWN, lid |-> NoLid]

Init ==
  /\ cabled \in BOOLEAN
  /\ port \in {[s \in Sides |-> [Down EXCEPT !.admin =
                 IF s = "vfio" THEN a ELSE MLX5_PORT_UP]] : a \in {MLX5_PORT_UP, MLX5_PORT_DOWN}}
  /\ pc = [s \in Sides |-> IF s = "vfio" THEN "hca_cap" ELSE "query_port"]
  /\ paos = [admin_status |-> 0, ase |-> 0]
  /\ attr = [s \in Sides |-> [lid |-> 0, state |-> IBV_PORT_NOP]]
  /\ asked = [s \in Sides |-> Down]
  /\ lost = FALSE
  /\ faults = 0

Goto(s, stage) == pc' = [pc EXCEPT ![s] = stage]

(***************************************************************************)
(* vfio_init, before it raises the port.  A call that fails ends it.       *)
(***************************************************************************)
Call(from, to) ==
  /\ pc["vfio"] = from
  /\ Goto("vfio", to) \/ Goto("vfio", "failed")
  /\ UNCHANGED <<cabled, port, paos, attr, asked, lost, faults>>

pp_query_hca_cap    == Call("hca_cap", "sigaction")
setup_sighandler    == Call("sigaction", "pthread_create")
setup_event_routine == Call("pthread_create", "paos_query")

(***************************************************************************)
(* pp_config_port: mlx5_set_port_admin_status asks, sets and asks again,   *)
(* and returns when a call fails; what it returns is dropped.              *)
(***************************************************************************)
(* One call.  It may fail before the device acts on it or after.           *)
AccessReg(in, write, next) ==
  /\ paos' = in
  /\ LET done == [port EXCEPT !["vfio"].admin = Admin(@, in, write)]
     IN  \/ port' = done /\ Goto("vfio", next) /\ UNCHANGED lost
         \/ port' \in {port, done} /\ Goto("vfio", "mad_ifc") /\ lost' = TRUE
  /\ UNCHANGED <<cabled, attr, asked, faults>>

PaosQuery ==
  /\ pc["vfio"] = "paos_query"
  /\ AccessReg([admin_status |-> 0, ase |-> 0], FALSE, "paos_set")

PaosSetNoAse ==  \* broken: without ase the device ignores the status
  /\ pc["vfio"] = "paos_set"
  /\ AccessReg([paos EXCEPT !.admin_status = MLX5_PORT_UP], TRUE, "paos_check")

PaosSet ==
  /\ pc["vfio"] = "paos_set"
  /\ AccessReg([paos EXCEPT !.admin_status = MLX5_PORT_UP, !.ase = 1], TRUE, "paos_check")

(* The register sent is the one of the set; that it is not what was set is *)
(* one more error that is dropped.                                         *)
PaosCheck ==
  /\ pc["vfio"] = "paos_check"
  /\ AccessReg(paos, FALSE, "mad_ifc")

(***************************************************************************)
(* The two loops.                                                          *)
(***************************************************************************)
(* The answer a replaces the attributes, and the loop may end.             *)
Answer(s, a) ==
  /\ attr' = [attr EXCEPT ![s] = a]
  /\ asked' = [asked EXCEPT ![s] = port[s]]
  /\ IF Usable(s, a) THEN Goto(s, "ready") ELSE UNCHANGED pc
  /\ UNCHANGED <<cabled, port, paos, lost>>

MadIfcPort ==
  /\ pc["vfio"] = "mad_ifc"
  /\ Answer("vfio", Decode(PortInfo(port["vfio"])))
  /\ UNCHANGED faults

(* The command succeeds but the MAD was refused: its status is not looked  *)
(* at, and there are no data.                                              *)
MadRefused ==
  /\ pc["vfio"] = "mad_ifc"
  /\ faults < MaxFaults
  /\ faults' = faults + 1
  /\ Answer("vfio", Decode(NoPortInfo))

QueryPort ==
  /\ pc["server"] = "query_port"
  /\ Answer("server", [lid |-> port["server"].lid, state |-> port["server"].state])
  /\ UNCHANGED faults

QueryFails(s) ==
  /\ pc[s] \in {"mad_ifc", "query_port"}
  /\ Goto(s, "failed")
  /\ UNCHANGED <<cabled, port, paos, attr, asked, lost, faults>>

(***************************************************************************)
(* The link and the subnet manager.                                        *)
(***************************************************************************)
Raised(s) == port[s].admin = MLX5_PORT_UP /\ (cabled => port[Other(s)].admin = MLX5_PORT_UP)

PortStep(s, new) ==
  /\ port' = [port EXCEPT ![s] = new]
  /\ UNCHANGED <<cabled, pc, paos, attr, asked, lost>>

LinkUp(s) ==
  /\ port[s].state = IBV_PORT_DOWN /\ Raised(s)
  /\ PortStep(s, [port[s] EXCEPT !.state = IBV_PORT_INIT])
  /\ UNCHANGED faults

SmAssign(s) ==
  /\ port[s].state # IBV_PORT_DOWN /\ port[s].lid = NoLid
  /\ PortStep(s, [port[s] EXCEPT !.lid = Lid])
  /\ UNCHANGED faults

SmActivate(s) ==
  /\ port[s].state \in {IBV_PORT_INIT, IBV_PORT_ARMED}
  /\ PortStep(s, [port[s] EXCEPT !.state = @ + 1])
  /\ UNCHANGED faults

Defer(s) ==
  /\ port[s].state = IBV_PORT_ACTIVE
  /\ faults < MaxFaults /\ faults' = faults + 1
  /\ PortStep(s, [port[s] EXCEPT !.state = IBV_PORT_ACTIVE_DEFER])

Recover(s) ==
  /\ port[s].state = IBV_PORT_ACTIVE_DEFER
  /\ PortStep(s, [port[s] EXCEPT !.state = IBV_PORT_ACTIVE])
  /\ UNCHANGED faults

(* A shared cable takes both ends down; an address may be lost with it.    *)
Drop(s) ==
  /\ port[s].state # IBV_PORT_DOWN
  /\ faults < MaxFaults /\ faults' = faults + 1
  /\ \E lid \in {port[s].lid, NoLid} :
       port' = [t \in Sides |->
         IF t = s THEN [port[t] EXCEPT !.state = IBV_PORT_DOWN, !.lid = lid]
         ELSE IF cabled THEN [port[t] EXCEPT !.state = IBV_PORT_DOWN] ELSE port[t]]
  /\ UNCHANGED <<cabled, pc, paos, attr, asked, lost>>

------------------------------------------------------------------------------
Vfio == \/ pp_query_hca_cap \/ setup_sighandler \/ setup_event_routine
        \/ PaosQuery \/ PaosSet \/ PaosCheck \/ MadIfcPort
Fabric(s) == LinkUp(s) \/ SmAssign(s) \/ SmActivate(s) \/ Recover(s)

Next == \/ Vfio \/ MadRefused \/ QueryPort
        \/ \E s \in Sides : QueryFails(s) \/ Fabric(s) \/ Defer(s) \/ Drop(s)

Spec == Init /\ [][Next]_vars

(* Programs go on (a sleep ends), links come up, and the subnet manager    *)
(* gets round to every port.  No call needs to fail.                       *)
Fairness == /\ WF_vars(Vfio) /\ WF_vars(QueryPort)
            /\ \A s \in Sides : WF_vars(Fabric(s)) /\ WF_vars(SmAssign(s))

FairSpec == Spec /\ Fairness

------------------------------------------------------------------------------
Stages == {"hca_cap", "sigaction", "pthread_create", "paos_query", "paos_set", "paos_check",
           "mad_ifc", "query_port", "ready", "failed"}
States == IBV_PORT_DOWN..IBV_PORT_ACTIVE_DEFER
Ports  == [admin : {MLX5_PORT_UP, MLX5_PORT_DOWN}, state : States, lid : {Lid, NoLid}]

(* Type invariant: the values of every variable.                           *)
TypeOK ==
  /\ cabled \in BOOLEAN /\ lost \in BOOLEAN /\ faults \in 0..MaxFaults
  /\ port \in [Sides -> Ports] /\ asked \in [Sides -> Ports]
  /\ pc \in [Sides -> Stages]
  /\ paos \in [admin_status : {0, MLX5_PORT_UP}, ase : {0, 1}]
  /\ attr \in [Sides -> [lid : {0, Lid, NoLid}, state : {IBV_PORT_NOP} \cup States]]

Ready(s) == pc[s] = "ready"

(* A program that goes on has the attributes its port had when it was      *)
(* asked last: it was active, raised (with the other end of its cable), and*)
(* the address the vfio client sends to its peer is one that the subnet    *)
(* manager gave.                                                           *)
ReadyIsReal ==
  \A s \in Sides : Ready(s) =>
    /\ asked[s].state \in {IBV_PORT_ACTIVE, IBV_PORT_ACTIVE_DEFER}
    /\ asked[s].admin = MLX5_PORT_UP
    /\ attr[s] = [lid |-> asked[s].lid, state |-> asked[s].state]
    /\ s = "vfio" => asked[s].lid # NoLid
    /\ cabled => port["vfio"].admin = MLX5_PORT_UP

(* Whether a program may wait for ever: the vfio client's port is not      *)
(* raised, for the call that raises it failed, and the error was dropped.  *)
Stranded == port["vfio"].admin = MLX5_PORT_DOWN /\ (lost \/ pc["vfio"] = "failed")

(* Both loops end but for one cause: the call that raises the port, or one *)
(* before it, failed.  Then the vfio client waits for ever, if it has not  *)
(* ended, and so does the server at the other end of its cable.            *)
BringUpEnds ==
  /\ <>(pc["vfio"] \in {"ready", "failed"} \/ Stranded)
  /\ <>(pc["server"] \in {"ready", "failed"} \/ (cabled /\ Stranded))
==============================================================================
