------------------------------ MODULE Lifecycle ------------------------------
(***************************************************************************)
(* The life of one program: main of server.c, client.verb.c, client.dv.c   *)
(* and client.vfio.c.  A program takes its resources one by one; any step  *)
(* may fail, and then a chain of goto labels, first in the function that   *)
(* failed and then in main, gives back what was taken.  A run that         *)
(* succeeds ends with main's labels, too.                                  *)
(*                                                                         *)
(* The vfio client also has an event thread, which uses the device context *)
(* until main cancels and joins it.                                        *)
(***************************************************************************)
EXTENDS Integers, Sequences, Functions

CONSTANT NBufs  \* buffers a program registers (PP_MAX_WR: 64)

ASSUME NBufsAssumption == NBufs \in Nat

VARIABLES
  kind,   \* the program
  at,     \* the next step of it
  todo,   \* what the labels reached have still to give back
  failed, \* the step that failed, "none" so far
  live,   \* resources held
  thread  \* where the event thread is, "none" before it is created

vars == <<kind, at, todo, failed, live, thread>>

Kinds == {"server", "verb", "dv", "vfio"}

(* A resource is named by its owner and what it is.                        *)
DevList == <<"ctx", "dev_list">>
Ctx     == <<"ctx", "ibctx">>
Pd      == <<"ctx", "pd">>
Buf(i)  == <<"mrbuf", i>>
Mr(i)   == <<"mr", i>>
Thread  == <<"vfio", "event_tid">>
Nothing == <<"none", "none">>

Bufs(n) == [i \in 1..n |-> Buf(i)]
Mrs(n)  == [i \in 1..n |-> Mr(i)]

(* A step: what it is called, what it takes if it succeeds, and the        *)
(* releases its failure leads to.                                          *)
Step(name, get, undo) == [name |-> name, get |-> get, undo |-> undo]

(***************************************************************************)
(* pp_ctx_init and pp_ctx_cleanup.  Until the device is open and its port  *)
(* is up a failure returns at once.                                        *)
(***************************************************************************)
CtxCleanupPastEnd ==  \* broken: one region too many
  Mrs(NBufs + 1) \o Bufs(NBufs) \o <<Pd, Ctx>>

CtxCleanup == Mrs(NBufs) \o Bufs(NBufs) \o <<Pd, Ctx>>

(* Each buffer in turn is allocated and registered: two steps.             *)
RegisterBufs ==
  [j \in 1..2 * NBufs |->
     LET i == (j + 1) \div 2
     IN  IF j % 2 = 1 THEN Step("memalign", Buf(i), Bufs(i - 1) \o <<Pd, Ctx>>)
                      ELSE Step("reg_mr", Mr(i), Mrs(i - 1) \o Bufs(i) \o <<Pd, Ctx>>)]

(* pp_open_ibvdevice, or its counterpart for vfio: no label at all.        *)
OpenDevice(k) ==
  <<Step("device_list", DevList, <<>>), Step("open_device", Ctx, <<>>)>>
    \o (IF k = "vfio" THEN <<>> ELSE <<Step("query_port", Nothing, <<>>)>>)

CtxInit(k) ==
  OpenDevice(k) \o <<Step("alloc_pd", Pd, <<Ctx>>)>> \o RegisterBufs

(***************************************************************************)
(* pp_create_cq_dv and pp_create_qp_dv: the k-th resource taken, when it   *)
(* fails, goes to the label that skips the first 6 - k releases.           *)
(***************************************************************************)
QueueGets   == <<"db", "db_umem", "buf", "buff_umem", "uar", "obj">>

QueueUnwindSwapped ==  \* broken: memory is freed before the device lets go of it
  <<"uar", "buf", "buff_umem", "db_umem", "db">>

QueueUnwindTwice ==  \* broken: one release comes twice and another not at all
  <<"uar", "uar", "buf", "db_umem", "db">>

QueueUnwind == <<"uar", "buff_umem", "buf", "db_umem", "db">>

CreateQueue(q, first, rest, outer) ==
  <<Step(first, Nothing, outer)>>
    \o [k \in 1..6 |-> Step(rest, <<q, QueueGets[k]>>,
          [j \in 1..k-1 |-> <<q, QueueUnwind[6 - k + j]>>] \o outer)]

(* pp_destroy_cq_dv, pp_destroy_qp_dv.                                     *)
DestroyQueue(q) ==
  [k \in 1..6 |-> <<q, IF k = 1 THEN "obj" ELSE QueueUnwind[k - 1]>>]

(* pp_create_cq_qp_verb, pp_destroy_cq_qp_verb.                            *)
CreateVerb(outer) ==
  <<Step("create_cq", <<"verb", "cq">>, outer),
    Step("create_qp", <<"verb", "qp">>, <<<<"verb", "cq">>>> \o outer),
    Step("modify_qp", Nothing, <<<<"verb", "qp">>, <<"verb", "cq">>>> \o outer)>>

(* pp_exchange_info.  sock_server calls exit when it cannot listen.        *)
Exchange(k, outer) ==
  <<Step("query_gid", Nothing, outer)>>
    \o (IF k = "server" THEN <<Step("listen", Nothing, <<>>)>> ELSE <<>>)
    \o <<Step("socket", Nothing, outer)>>

(* pp_move2rts_dv and its three transitions; pp_move2rts_verb has two, for *)
(* its queue pair is in INIT already.                                      *)
Move2rts(k, outer) ==
  (IF k \in {"server", "verb"} THEN <<>> ELSE <<Step("rst2init", Nothing, outer)>>)
    \o <<Step("init2rtr", Nothing, outer), Step("rtr2rts", Nothing, outer)>>

(* Whatever these and the traffic return, main goes on to its first label. *)
Connected(k, outer) ==
  Exchange(k, outer) \o Move2rts(k, outer) \o <<Step("traffic", Nothing, outer)>>

(***************************************************************************)
(* main of each program, with its out_ labels as `outer' sequences.        *)
(***************************************************************************)
MainVerb(k) ==
  LET out == <<<<"verb", "qp">>, <<"verb", "cq">>>> \o CtxCleanup
  IN  CtxInit(k) \o CreateVerb(CtxCleanup) \o Connected(k, out)

MainServer == MainVerb("server")

MainDv ==
  LET outCq == DestroyQueue("cq") \o CtxCleanup
  IN  CtxInit("dv") \o CreateQueue("cq", "query_eqn", "create_cq", CtxCleanup)
        \o CreateQueue("qp", "init_obj", "create_qp", outCq)
        \o Connected("dv", DestroyQueue("qp") \o outCq)

(* vfio_init and vfio_cleanup.  pp_config_port never fails; a failure to   *)
(* query the port goes past the label that stops the thread.               *)
VfioInit ==
  <<Step("query_hca_cap", Nothing, CtxCleanup), Step("sigaction", Nothing, CtxCleanup),
    Step("pthread_create", Thread, CtxCleanup), Step("mad_ifc_port", Nothing, CtxCleanup)>>

MainVfio ==
  LET outVfio == <<Thread>> \o CtxCleanup
      outCq == DestroyQueue("cq") \o outVfio
  IN  CtxInit("vfio") \o VfioInit \o CreateQueue("cq", "query_eqn", "create_cq", outVfio)
        \o CreateQueue("qp", "init_obj", "create_qp", outCq)
        \o Connected("vfio", DestroyQueue("qp") \o outCq)

Main(k) == CASE k = "server" -> MainServer
             [] k = "verb" -> MainVerb("verb")
             [] k = "dv" -> MainDv
             [] k = "vfio" -> MainVfio

Program == Main(kind)
Running == failed = "none" /\ at <= Len(Program)
Exited  == ~Running /\ todo = <<>>

(***************************************************************************)
(* The program.                                                            *)
(***************************************************************************)
Init ==
  /\ kind \in Kinds
  /\ at = 1 /\ todo = <<>> /\ failed = "none" /\ live = {} /\ thread = "none"

(* The step succeeds; the last one leads to main's labels, too.            *)
Succeed ==
  /\ Running
  /\ LET step == Program[at]
     IN  /\ live' = IF step.get = Nothing THEN live ELSE live \cup {step.get}
         /\ thread' = IF step.get = Thread THEN "start" ELSE thread
         /\ todo' = IF at = Len(Program) THEN step.undo ELSE todo
  /\ at' = at + 1
  /\ UNCHANGED <<kind, failed>>

Fail ==
  /\ Running
  /\ failed' = Program[at].name
  /\ todo' = Program[at].undo
  /\ UNCHANGED <<kind, at, live, thread>>

(* One release.  pthread_join waits until the thread has ended.            *)
Release ==
  /\ todo # <<>>
  /\ Head(todo) = Thread => thread = "dead"
  /\ live' = live \ {Head(todo)}
  /\ todo' = Tail(todo)
  /\ thread' = IF Head(todo) = Thread THEN "joined" ELSE thread
  /\ UNCHANGED <<kind, at, failed>>

CancelForgotten == FALSE  \* broken: the thread is joined but not cancelled

(* pthread_cancel: the thread ends at its next cancellation point, at once *)
(* unless it is processing events.                                         *)
Cancel ==
  /\ todo # <<>> /\ Head(todo) = Thread
  /\ thread \in {"start", "wait", "process"}
  /\ thread' = IF thread = "process" THEN "cancelled" ELSE "dead"
  /\ UNCHANGED <<kind, at, todo, failed, live>>

(***************************************************************************)
(* vfio_poll_eq_event_routine, until the process exits.                    *)
(***************************************************************************)
ThreadSteps(from, to) ==
  /\ thread = from
  /\ ~Exited
  /\ thread' \in to
  /\ UNCHANGED <<kind, at, todo, failed, live>>

ThreadOpen    == ThreadSteps("start", {"wait", "dead"})
ThreadWake    == ThreadSteps("wait", {"process", "dead"})
ThreadProcess == ThreadSteps("process", {"wait"})
ThreadEnd     == ThreadSteps("cancelled", {"dead"})

------------------------------------------------------------------------------
Unwind == Release \/ Cancel
Events == ThreadOpen \/ ThreadWake \/ ThreadProcess \/ ThreadEnd

Next == Succeed \/ Fail \/ Unwind \/ Events

Spec == Init /\ [][Next]_vars

(* Calls return and a thread that is processing events finishes; events    *)
(* need not come.                                                          *)
Fairness == WF_vars(Succeed \/ Fail) /\ WF_vars(Unwind)
            /\ WF_vars(ThreadProcess \/ ThreadEnd)

FairSpec == Spec /\ Fairness

------------------------------------------------------------------------------
Resources ==
  {DevList, Ctx, Pd, Thread} \cup Range(Bufs(NBufs)) \cup Range(Mrs(NBufs))
    \cup ({"cq", "qp"} \X Range(QueueGets)) \cup {<<"verb", "cq">>, <<"verb", "qp">>}

(* Type invariant: steps of the program, known resources.                  *)
TypeOK ==
  /\ kind \in Kinds /\ at \in 1..Len(Program) + 1
  /\ failed \in {"none"} \cup {Program[i].name : i \in 1..Len(Program)}
  /\ Range(todo) \subseteq Resources /\ live \subseteq Resources
  /\ thread \in {"none", "start", "wait", "process", "cancelled", "dead", "joined"}

(* What is released is held: no label is entered too early, none twice.    *)
ReleasesHeld == [][todo # <<>> /\ todo' = Tail(todo) => Head(todo) \in live]_vars

(* What a resource needs while it is held.                                 *)
QueueNeeds(q, what) ==
  CASE what \in {"db", "buf"} -> {}
    [] what = "db_umem" -> {Ctx, <<q, "db">>}
    [] what = "buff_umem" -> {Ctx, <<q, "buf">>}
    [] what = "uar" -> {Ctx}
    [] what = "obj" -> {<<q, u>> : u \in {"db_umem", "buff_umem", "uar"}}
                         \cup (IF q = "qp" THEN {Pd, <<"cq", "obj">>} ELSE {})

Needs(r) ==
  CASE r \in {DevList, Ctx} -> {}
    [] r \in {Pd, Thread, <<"verb", "cq">>} -> {Ctx}
    [] r = <<"verb", "qp">> -> {Pd, <<"verb", "cq">>}
    [] r[1] = "mrbuf" -> {}
    [] r[1] = "mr" -> {Pd, Buf(r[2])}
    [] r[1] \in {"cq", "qp"} -> QueueNeeds(r[1], r[2])

(* Nothing goes away under something that needs it, on any path but two:   *)
(* when memalign fails after a buffer was registered, and when vfio_init   *)
(* fails with the event thread running, labels that would have been needed *)
(* are skipped.                                                            *)
NeedsMet ==
  \/ \A r \in live : Needs(r) \subseteq live
  \/ failed = "memalign" /\ \A r \in live : r[1] # "mr" => Needs(r) \subseteq live
  \/ failed = "mad_ifc_port" /\ \A r \in live \ {Thread} : Needs(r) \subseteq live

(* A program that returns from main has given everything back, but for the *)
(* list of devices, always, and what three failures leave: of query_port   *)
(* the device, of memalign the regions, of mad_ifc_port the thread.        *)
ExitsClean ==
  Exited /\ failed # "listen" => live \subseteq
    {DevList} \cup (IF failed = "query_port" THEN {Ctx} ELSE {})
              \cup (IF failed = "memalign" THEN Range(Mrs(NBufs)) ELSE {})
              \cup (IF failed = "mad_ifc_port" THEN {Thread} ELSE {})

(* Every failure leads to an exit: joining the event thread never blocks   *)
(* for ever, whether events come or not and even if the thread has died.   *)
FailureExits == failed # "none" ~> Exited
==============================================================================
