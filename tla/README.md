# dvpingpong in TLA+

dvpingpong is a ping-pong over RDMA: a server on the verbs API, and three
clients, on the verbs API (`client.verb.c`), on mlx5dv, with rings of its own in
host memory (`client.dv.c`), and on mlx5dv over VFIO (`client.vfio.c`).  The
modules here model its own logic: the rings and what the device is told of them,
the data path made of them, the traffic, how two programs get their ports up and
their queue pairs connected, and the life of the programs.  The device, the RC
transport, sockets, the link and the subnet manager, and the libraries are
external; they are modelled by what the code relies on.

## The system

| Part | Source | State | Operations | What makes it correct |
|---|---|---|---|---|
| Completion queue | `pp_dv.c` 16-132, 571-666 | ring of entries with owner bits, `cons_index`, doorbell record | `pp_dv_poll_cq` and what it calls | each completion is taken once, in order, whole, on every lap; no entry is freed early; no overrun |
| Send queue | `pp_dv.c` 484-569 | ring of WQEs, `cur_post`, doorbell record | `pp_dv_post_send` | the device never fetches half a WQE or a mixture of two, now or at a retransmission; no lost wake-up |
| Receive queue | `pp_dv.c` 669-693 | ring of WQEs, `head`, doorbell record | `pp_dv_post_recv` | the device never uses a stale receive; every receive is offered |
| Queue pair | `pp_dv.c` 16-482, `ccan/ilog.h` | sizes of the rings, contexts of the device | `calc_*`, creation, the transitions to RTS | rings are powers of two, hold `max_post` requests, fit the buffer; driver and device take them to be the same |
| Data path | `client.dv.c` 15-77, `client.vfio.c`, on the three queues | buffers, count of completions | `client_traffic_dv` | what is sent is a ping, retransmitted or not; what is read is a pong; there is room at every post |
| Traffic | `server.c`, `client.*.c`, `pp_verb.c` 131-225 | buffers, completions polled | post, poll, print, clear | success means delivered; loops count their own completions; pongs are whole |
| Life of a program | `main` of all four, create and destroy functions | resources held | acquire, fail, unwind | nothing used after release, released twice, or lost |
| Event thread | `client.vfio.c` 76-205 | where the thread is | open, wake, process, cancel | gone before its context |
| Port bring-up | `pp_vfio.c`, `client.vfio.c` 162-197, `pp_common.c` 52-66 | port state and attributes | PAOS, MAD_IFC, `ibv_query_port` | programs go on with a port that is active; who may wait for ever |
| Exchange | `sock.c`, `pp_common.c` 195-260, the moves to RTR and RTS | two messages on a socket, queue pair contexts | connect, accept, send, read, move | queue pairs are set to each other, whatever the byte orders and whoever else connects |
| Vendored headers | `mlx5_ifc.h`, `ccan/`, `util/` | none | macros, barriers | widths of fields and integer helpers as they are, barriers as documented |

The parts meet as follows.  `main` creates the queues, exchanges connection data
and moves the queue pair to RTS; the traffic function posts to the send and the
receive queue and polls the one completion queue both share.  Driver and device
share memory only: rings, doorbell records, and one write to a UAR page.  Client
and server share nothing but the connection and the wall clock (`sleep`).

Before that, each program waits for its port, in a loop without a limit; the vfio
client raises its own port first.  The server then waits in `accept`.

What is hard here: two parties on the same memory without locks, where stores
reach the device late and out of order; counters of several widths that wrap
(2^32 in memory, 2^24 and 2^16 in the records); rings with no check for room;
completions of two kinds in one queue; programs synchronised by sleeping;
waits without a limit that depend on another program; structures converted twice
between hosts; sizes passed on as logarithms in narrow fields; and chains of
`goto` labels.  `PROJECT.json` lists each such place with its line and
the property that looks at it.

## The modules

| Module | What it is |
|---|---|
| `CompletionChannel` | abstract: a caller asks, the device finishes in order, the caller is told, at most `Capacity` outstanding |
| `DvCompletionQueue` | the completion queue; implements `CompletionChannel` |
| `DvSendQueue` | the send queue; implements `CompletionChannel` |
| `DvRecvQueue` | the receive queue; implements `CompletionChannel` |
| `PingPong` | client and server over the transport, on queues that behave as `CompletionChannel` says |
| `DvQueuePair` | how large the rings become and what the device is told, up to RTS |
| `DvDataPath` | `client_traffic_dv` on instances of the three queue modules; implements `CompletionChannel` |
| `PortBringUp` | the vfio client's and the server's wait for their ports |
| `Connect` | servers and clients from their queue pairs to a connection |
| `Lifecycle` | every `main`, with a failure at every step, and the event thread |
| `DvCompletionQueue_proofs`, `DvSendQueue_proofs`, `DvRecvQueue_proofs`, `DvDataPath_proofs`, `PingPong_proofs`, `Connect_proofs`, `Lifecycle_proofs` | the theorems, each module about the one it is named after |
| `Setup_proofs` | the theorems about `PortBringUp` and `DvQueuePair`, which share no names |

Operators named as broken (`SetCiAhead`, `StoreDbrNoBarrier`, ...) stand before
the definition they would replace.  No specification uses them: each is the
mutant that shows that a property can fail.

### DvCompletionQueue

`cqe` is the ring (`op` and `own` are the two fields of `op_own`, `id` is the
rest of an entry), `cons_index` the consumer index, `ciStored` and `ciSeen` the
doorbell record as the driver wrote it and as the device sees it.  `Submit` stands
for the caller who posts requests.  `PollStart`, `ReadOpcode`, `SeeOldLap`,
`TakeCqe` and `SetCi` are `pp_dv_poll_cq` with everything inlined, cut where the
device may come in between: `get_sw_cqe` loads `op_own` twice.  `HcaWriteBody` and
`HcaWriteOwner` are the device, which writes `op_own` last.  An `ERROR` entry is
counted as any other, for `parse_cqe` answers `CQ_OK` to all; so `CQ_POLL_ERR`
never arises.  `submitted`, `produced` and `consumed` are history.

### DvSendQueue and DvRecvQueue

Every location of memory has two copies, stored and seen.  A drain step, in no
particular order, brings one location in sight of the device;
`udma_to_device_barrier` is the guard that all have been.  That is the strongest
meaning its comment gives it (`util/udma_barrier.h`); on x86 it is a compiler
barrier and stores drain in order, so the hardware does less than the model
allows.  A send WQE drains by units of 16 bytes (`Layout`), a receive WQE is one
unit.  The device fetches while the record announces more (`Pending`), sleeps
when it does not, and is woken by the write to the UAR.  `HcaRewind` goes back to
a request not completed, as a retransmission does, so a WQE must stay whole until
its completion.  Neither `pp_dv_post_send` nor `pp_dv_post_recv` checks for room
(the repository's README: "There's no wq overflow check"): the guard of `PostSend`
on the sum of outstanding requests is what its callers do, who post `PP_MAX_WR`
once and poll them all.

### DvQueuePair

The arithmetic is that of the code, macro by macro: `STATIC_ILOG_32` and `ilog32`
of `ccan/ilog.h`, `roundup_pow_of_two`, `calc_sq_size` and `calc_rq_size`.
`pp_create_cq_dv`, `pp_create_qp_dv` and the three transitions fill commands and
contexts; `DEVX_SET` (external) cuts each value to the width that `mlx5_ifc.h`
gives its field.  The device works with what is left: `hw` is its own record of
the numbers it gave and of the queue pair's state, and a command it cannot make
sense of leads to "failed".  `inl_size` is read uninitialised when no inline data
is asked for: `Stack` is what it may hold.  Values stay below 2^31; addresses,
keys and page sizes in the commands are left out.

### DvDataPath

Three instances, `SQ`, `RQ` and `CQ`, and the caller.  A step of the caller is a
step of one of them: when `StoreDbr` of a work queue publishes requests,
`Submit` of the completion queue tells it to expect their completions.  The
device's steps join two queues: `SendCompletes` is `HcaComplete` of the one and
`HcaWriteBody` of the other, `MessageArrives` writes the buffer, uses a receive and
begins an entry.  `CountSend` and `CountRecv` do not look at which queue an entry
belongs to, as the code does not; `ImplementsChannel` and `RoomAlways` show that
they need not.  `Transmit` reads the buffer, again after `Rewind`.  Error
completions, and a server that fails, are `PingPong`'s.  A refusal of
`pp_dv_post_send` (more requests than the ring has) cannot happen at these sizes.

### PortBringUp

A port is what an administrator set (`admin`), the state of its link, and its LID.
`PaosQuery`, `PaosSet` and `PaosCheck` are the three calls of
`mlx5_set_port_admin_status`; each may fail before or after the device acted on
it, and then the bring-up goes on with the loop, for `pp_config_port` drops the
error.  `PaosCheck` sends the register of the set again, as a read.  `Answer` is one
round of either loop: attributes are decoded from the bytes of the MAD
(`PortInfo`, `Decode`), stored, and tested.  `MadRefused` is a command that succeeds
with a MAD that does not: its status is not looked at.  `LinkUp`, `SmAssign`,
`SmActivate`, `Defer`, `Recover` and `Drop` are the fabric; `cabled` says that the
two ports share a cable, which comes up only if both ends are raised.

### Connect

Any number of servers and clients.  Words have an owner, a field and a byte order,
so that `htobe`, the store, the load and `betoh` are what they are on either kind of
host.  `Prefix` is what a short read leaves in the buffer of zeros.  Several servers
may listen: the option given to `setsockopt` is `SO_REUSEADDR | SO_REUSEPORT`, which
as numbers is `SO_REUSEPORT`.  The limit of the backlog (3) is not reached.  `Die`
ends a program at any step of its own, and its sockets close.

### PingPong

Each side is a sequence of stages (`ClientProgram`, `ServerProgram`), one action
per stage, `Poll` for the two loops.  `buf` holds what the N buffers contain, by
kind: filled, cut by `dump_msg_short`, zeroed.  The transport delivers, acknowledges,
answers receiver-not-ready, or gives up; a queue pair that gave up flushes its
requests as error completions.  An RDMA write lands in two steps, for its body
needs no receive and only its last packet takes one.  `Checks` tells who looks at a
completion's status.  Messages post in one step, for each side posts its N before
it does anything else; the rings below have been looked at message by message.

### Lifecycle

A program is a sequence of steps, each with the resource it takes and the releases
its failure leads to, composed as the code composes them: the labels of the
function that failed, then those of `main`.  `QueueUnwind` is the label chain of
`pp_create_cq_dv` and `pp_create_qp_dv`.  The event thread runs beside it until it
is cancelled and joined.  `FailureExits` needs `pthread_cancel`: `epoll_wait` has no
timeout and events need not come.

## The runs

| Run | Bounds | Shows |
|---|---|---|
| `cq` | 2 entries, index modulo 8, record modulo 4, polls of 1 or 2, 10 requests | five laps: index and record wrap, every slot is reused in both lap parities. `OwnedIffPending`, `TakesNextIntact`, `CiCoversUnread`, `NoOverrun`, the refinement, and that every request is reported |
| `sq` | 2 slots, calls of 1 or 2, record modulo 4, counter modulo 8, 9 requests, 1 retransmission | all slots full at once, both counters wrap, every order of drains. `AnnouncedIntact`, the refinement, `EveryRequestExecuted` |
| `rq` | 3 slots, record modulo 6, counter modulo 12, 14 receives | as above; 3 slots tell a running count from a slot number |
| `pingpong_verb` | N = 3, 1 retry, 1 network failure, sleeps that guarantee nothing | `DoneMeansDelivered`, `OwnCompletions`, `FinishOrOrphan` |
| `pingpong_dv` | N = 3, no failure, sleeps long enough | `PongsWhole`, `BothSucceed` |
| `sizes` | 9 * 7 * 4 * 4 * 7 sets of capabilities, at and around powers of two and up to the largest the types allow; 2 object numbers, 3 stack contents, both link layers | `RingsHoldRequests`, `RingsApart`, `DeviceAgrees`, `OnlyReadsCut` |
| `datapath` | 4 requests on rings of 4 entries, records modulo 8, 2 retransmissions | all rings full, the completion queue in its second lap. `BuffersRight`, `RoomAlways`, the refinement, `TrafficEnds` |
| `port` | one failing MAD, drop or deferral; on one cable or not; any call may fail | `ReadyIsReal`, `BringUpEnds` |
| `connect` | 1 server, a verbs and a dv client, reads of half a field, half the message or all, 1 death, every mixture of byte orders, both link layers | `Paired`, `OnePeer`, `ExchangeEnds` |
| `lifecycle` | 3 buffers, all four programs | `NeedsMet`, `ReleasesHeld`, `ExitsClean`, `FailureExits` |
| `finding_dv_false_success` | N = 2, 1 failure | violated, see below |
| `finding_same_data` | N = 2, no failure | violated, see below |

A ring is symmetric in its slots, so what can go wrong does so at the reuse of a
slot, at a full ring, and at a wrap: each happens in the bounds above, more than
once, and the proofs cover the rest.  In `connect` two clients are what it takes for
one to be served and the other to wait or to die; every pair of programs behaves
as these do, and the theorems are about any number of both.  In `port` one fault
is enough to undo what was waited for, and each kind of fault comes first in some
behaviour.  Deadlock is looked for in `cq` and `sq`, where the caller can always
call; `rq` stops at its bound `MaxWr`, all others because programs end.

Fairness.  `cq`: the client calls `pp_dv_poll_cq` in a loop, a running poll goes on,
the device makes progress; nothing is assumed of the delayed store of the index.
`sq` and `rq`: a running post goes on, stores drain, the device fetches and
completes while it may, the caller polls; sleeping and retransmitting are not
assumed.  `PingPong`: each program takes its next step if it can, and the transport
delivers, acknowledges or gives up.  `Lifecycle`: calls return, with success or not,
and a thread that is processing events finishes; events need not arrive.
`DvDataPath`: the caller runs, stores drain, the device works and the server
answers.  `PortBringUp`: programs go on, since a sleep ends; a link between raised
ports comes up and the subnet manager gets round to every port; no call is forced
to fail.  `Connect`: every program takes its next step if it can; traffic, once
begun, need not end, and nobody need die.

### What the runs say about the code

* `finding_dv_false_success`: `parse_cqe` returns `CQ_OK` for an error entry
  (`pp_dv.c:618`), so the dv clients never see the `CQ_POLL_ERR` they test for
  (`client.dv.c:43`), and end with "traffic test done" after the network lost
  everything.  The verbs programs do not: `DoneMeansDelivered` holds for them.
* `finding_same_data`: the pong is not "with same data" (`client.verb.c:48`), for
  `dump_msg_short` zeroes byte 16 of the buffer the server replies from.
* `PongsWhole` and `BothSucceed` need the sleeps to be long enough (`Timely`): with
  a reply before the client has posted its receives, the client's memset meets the
  body of an RDMA write.  `DoneMeansDelivered` does not need it.
* `FinishOrOrphan` names the one way to hang: no poll loop has a timeout, so a
  program whose peer failed waits for its messages for ever.
* `NeedsMet` and `ExitsClean` name the paths that do not unwind: a `memalign` that
  fails after a buffer was registered leaves the regions, with their memory freed
  under them; a port query that fails leaves the device open; in the vfio client a
  failure to query the port closes the context under the running event thread.
  The list of devices is never freed.  `sock_server` ends the process with `exit`
  when it cannot listen.
* `BringUpEnds` names the one way for the bring-up to hang: the call that raises the
  port fails, the error is dropped (`pp_vfio.c:90`), and the vfio client waits for
  ever for a port nobody will raise; a server at the other end of its cable waits
  with it.
* `ExchangeEnds` names two programs that wait for ever in the exchange: a server
  that no client will connect to, since a client tries once, and a client in the
  backlog of a server that serves another, for a server accepts once.
* `Paired` is about a whole read.  After a short one (`sock.c:53`, `sock.c:108`) the
  code goes on with zeros for the rest; `OnePeer` still holds, for a queue pair
  number that did not arrive is nobody's.
* `OnlyReadsCut`: `log_sra_max` is given 20 in a field of three bits (`pp_dv.c:453`) and
  arrives as 4.  Nothing else that the model follows is cut.
* Without inline data (`max_inline_data` of 0) the size of the send ring depends on
  an uninitialised variable (`pp_dv.c:145`); the programs ask for 64.

## The proofs

All theorems hold for every value of the constants that satisfies the assumptions
of the module: for the completion queue that the index wraps at a multiple of
twice the ring size and of the record's range, which is more than the ring size;
for the other two that the ring size divides the record's range, which is larger
and divides the counter's.  The code's numbers (256, 2^32 and 2^24; 512 or 64,
2^16 and 2^32) satisfy them, and the comments of the constants give them.

* Completion queue (`IndInv`).  What a slot holds is determined by the counters:
  the entry of the last lap in which it was written.  With the bound on what is
  outstanding, the owner bit at `cons_index` is that of the current lap exactly if
  the completion is there (`OwnershipExact`); while the driver is between its two
  loads the first stays true, for the device never takes an entry back
  (`TakesInOrder`).  The record as seen is an index that was published earlier, so
  it lags and never leads (`UnreadProtected`, `OverrunFree`).  Requests outstanding
  number at most the entries, which the modulus exceeds: that is why the device
  computes the right number from a wrapped index.
* Send queue.  Between the barriers the device lags in one place at a time: in the
  slot written last, until the first barrier, or in the doorbell record, after it.
  All requests that are not completed are whole in memory, because at most
  `MaxPost` of them are in `WqeCnt` slots.  `AnnouncedIntact` alone is not inductive:
  it says nothing of the copies not yet seen.
* Receive queue.  No barrier follows the record, so the device may see an older
  count, through the next call too; the invariant bounds what it sees by what was
  published and keeps every published receive in sight.
* Queue pair.  No capabilities are enumerated: a ring only has to be one that the
  context's fields can describe (`RecvAssumption`, and `SendAssumption` for the size with the
  WQE worked out), and the completion queue to have four entries for each of the
  `PP_MAX_WR` requests, as `pp_common.h` defines it.  The lemmas are about the operators:
  `ilog32` of `2^k - 1` is `k` (`IlogOfPower`), `roundup_pow_of_two` gives a power of two below
  twice its argument (`RoundsUp`), `align` a multiple (`Aligned`); they cover every exponent up
  to 30, the range of an `int`.  From them the rings in terms of their exponents
  (`SendRing`, `RecvRing`): with inline data the send ring has at most 2^15 blocks, without
  it 2^24, whatever was on the stack.  The invariant says that the driver holds what
  it computed and the device what it was passed, cut to the fields' widths
  (`CutRight`); a transition lays its fields over the earlier ones (`LayersGrow`), and each
  layer fits (`CreateFits`, `InitFits`, `RtrFits`, `RtsFits`).  The properties alone are not
  inductive: `DeviceAgrees` and `OnlyReadsCut` speak of the context, not of where its fields
  came from.
* Data path.  The proofs of the three queues are cited through INSTANCE: `QueuesRight`
  is their three invariants, and what remains to prove is that the traffic function
  and the device, joined, are callers and devices as those proofs have them
  (`QueuesComposed`).  The completion queue is told of the requests of both rings:
  its count of requests submitted is what the two work queues have published, its
  count of completions written what they have completed, and its count of those
  taken what the loops have counted.  One loop has ended before the other ring is
  posted to, so an entry that a loop counts is of the ring it waits for, though the code does
  not look (`RoomIsAlways`), and `num_comp` is exact.  A buffer is filled before its request
  is posted and cleared only after all sends have completed, so that a
  retransmission finds the ping (`BuffersAreRight`).  `RingsAssumption` and
  `WrapAssumption` are those of the three queues: at least N entries in each ring,
  2 * N in the completion queue, and moduli that the ring sizes divide, all powers of
  two in the code.
* For each queue and for the data path, `Refinement`: initial states map to initial states and every step
  to a step of `CompletionChannel` or a stutter.

* Traffic (`IndInv` of `PingPong_proofs`: `WireRight`, `LoopRight`, `EndRight`).  For each
  side, what its poll loop has counted plus what is in its completion queue are the
  completions generated of the kind the loop waits for, and all entries are of that
  kind; of a program that checks, only successes were counted.  It is inductive
  because a loop ends when it has counted N, which is all there can be of its kind,
  so it leaves an empty queue; and because a queue pair goes to error only with
  sends outstanding, when its program waits for sends and has no receive left to
  flush.  From it `CompletionsOwn`, for every client, and `DoneDelivered`, for the
  verbs client; for the dv client `finding_dv_false_success` refutes it.  Neither
  needs `Timely`: the sleeps matter to the content of the buffers only.
  `PongsAreWhole` does assume it, as `PongsWhole` is about sleeps that suffice: the
  body of a pong then lands only after the client has cleared its buffers and
  posted its receives, and what the server replies from is a ping that
  `dump_msg_short` has cut (`ReplyInv`).
* Port bring-up (`UpMeansRaised`).  A port that is not down was raised, and the other
  end of its cable with it; so what the loops test implies what they do not.  It
  rests on the writes of `pp_config_port` never taking a port down, and on the
  bytes of a MAD decoding to what was encoded (`DecodesPortInfo`).
* Exchange (`SentRight`, `ConnsRight`, `ReadsRight`, `ContextsRight`).  Whatever the byte
  order of a host, the two conversions on its way out cancel (`SendsMessage`), and
  so do those on the way in (`DecodesMessage`): there is one form of each message on
  the wire.  A connection a server knows has two ends that know each other; what a
  program has read is a beginning of the message of that end; what a queue pair is
  set to is what was read.  `PairsRight` and `PeersUnique` follow, for any number of
  programs.
* Life of a program.  Each resource has a rank above those of all it needs (`Rank`), and
  every chain of labels releases in falling rank, from exactly what is held at its
  step (`StepRight`).  A part of a program `Leads` from what is held before it to what is
  held after it, and parts that fit compose (`LeadsThen`); so each function of the
  code is looked at once, and the four programs are their compositions.  Then what
  is held is what the finished steps took, or what a label has still to release, or
  what the named failures leave (`HeldRight`, `Stranded`); that gives `ExitsAreClean` and
  `ReleasesAreHeld`, and the falling ranks give `NeedsAreMet`.  They hold for every number
  of buffers; the code has 64 and the run 3.

Every invariant and every refinement that the passing runs check is also proved.
Only model-checked is what needs fairness (`EveryRequestExecuted`, `FinishOrOrphan`,
`TrafficEnds`, `BringUpEnds`, `ExchangeEnds`, `FailureExits` and their like), which the
prover cannot reason about.

## Not modelled, and the plan

Not modelled:

* what is in a WQE or a command beyond the fields named above: addresses, keys and
  lengths, logging, the signal handler (it prints), the library's and the
  device's inside.  Completion entries carry no content the code reads.
* most of `mlx5_ifc.h`: it lays out commands that no code here sends.
* the barrier macros of `util/udma_barrier.h` and `util/mmio.h` by their instructions;
  they are what their comments promise.

Seen while reading and outside the properties, for a reviewer of the code:
`epoll_fd` of the event thread is never closed; the vfio client never sets
`link_layer`, so it takes the LID path; `pp_query_mad_ifc_port` reads 16 of the 32
bits of the capability mask; `pp_exchange_info` sends the lkey of a buffer where the
peer uses it as the rkey.

What could be added next: the assumptions of the ring modules, derived from
`DvQueuePair` instead of stated beside it.
