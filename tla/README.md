# Verification of rdma_prototype

TLA+ models, TLC runs and TLAPS proofs about the RDMA prototype of this
repository: a C shim over libfabric (`naive/fabric_shim.c`), a Rust ownership
layer (`src/transport.rs`) and two programs that exchange hello, world and ack
over one reliable connection (`src/bin/clients.rs`, `src/bin/server.rs`).

## The system

```
 clients.rs : Exchange            server.rs : Exchange          state machines, no resources
        |  poll / send                   |  poll / post_recv / send
 transport.rs : Connection        Connection, Listener, Request two slots, pending flags, Drop
        |  FFI, one driving thread       |
 fabric_shim.c : handles          fabric_shim.c : handles       reference counts, pending lists
        |  fi_* calls, completions       |
     libfabric verbs  <=== reliable connection ===>  libfabric verbs
```

| Component | State it keeps | Operations | What is hard | What makes it correct |
| --- | --- | --- | --- | --- |
| Shim, handle graph (`fabric_shim.c` 269-466, 541-781) | `children`, `users`, `pending`, `count`; parent pointers; `used`, `attached`, `retired`, `ready`, `closing`; per operation `cq` and `mr` | open and close of eight handle types, register, post, poll, shutdown | composite opens that fail half way, closes the provider refuses, completions between calls, entries that survive their endpoint | counts are exact; nothing outlives its parent; nothing the provider holds is freed, closed or reused; the documented cleanup order works |
| Shim, EQ polling and requests (481-539) | `info` wrapper and its request handle | `shim_eq_poll`, `shim_connect`, `shim_accept`, `shim_reject` | ownership of the CONNREQ info; a reject consumes the request even if it fails | a request is answered once, before its endpoint goes |
| Shim, queries (35-267) | none kept | `shim_info_open`, `shim_info_free`, `shim_print_info` | cleanup on each failure | one configuration or none |
| Ownership layer (`transport.rs`) | raw handles, the buffer and `pending` flag of each slot, `cm_started`, `closing`, `handled` | `bind`, `wait_request`, `initialize`, `from_request`, `connect`, `post_recv`, `send`, `poll`, `close`, `Drop` | partial initialisation, cleanup that fails midway and is retried, an error that drops events | buffers live as long as the NIC may use them; flags tell the truth |
| Client and server (`bin/*.rs`) | `Exchange` structs, a deadline | `on_event`, `next_message`, `posted`, `complete`, the loops | completions and CM events in any order, EAGAIN, a peer that leaves early, deadlines | no false protocol error; success means what it says; both end |
| C example (`examples/shim_pingpong.c`) | phase, buffers | `progress`, `wait_event`, `wait_data`, `cleanup` | a shutdown that overtakes the last completion | as above |
| `ffi.rs`, `fabric.rs`, `build.rs`, empty `chunk.rs`, `download.rs`, `protocol.rs` | none | | | |

The layers call downwards only; nothing calls back. All handles belong to one
driving thread, so concurrency is between that thread and the provider (which
completes requests and queues events between any two calls) and between the two
processes.

## Modules

`FabricShim.tla` is the handle graph. A variable per handle type maps each
handle to the record of its struct; a handle that does not exist has a null
parent pointer (`None`). `wr` and `cqe` are the provider's own view: the request
it still holds for an operation, and the CQ in which an entry names the
operation's context. An action is a whole call that changes something; a call
refused without any effect (EINVAL, EBUSY, EAGAIN, ENOMEM, a provider error) is
a stuttering step. A failed call that does change something is an action:
`EndpointOpenRolledBack` (the CQs are spent), `EndpointOpen` with
`ready = FALSE` (kept so the request can be rejected, or because the rollback
was refused), `EndpointCloseRefused` (only `closing` is set), `ListenerOpen`
with `ready = FALSE`. The caller may do anything the header allows, in any
order; it does not use a consumed handle. Provider behaviour is external:
`Complete` may happen between any two calls, and closing an endpoint drops its
requests but may leave an entry in a CQ for any of them (`ProviderCloseEp`),
which is what the header and the comment in `Connection::close` warn of.
Not in this module: operation identifiers, and buffer addresses, lengths and
`max_msg`, which are in `MrBounds`.

`MrBounds.tla` is the range check of `post_message` alone, with the wrapping
arithmetic of `uintptr_t`: one MR that is closed and registered elsewhere when
idle, and the buffer in flight on it. That the MR cannot move under the buffer
is taken from `FabricShim` (`BorrowsPinned`). `MrBoundsProofs.tla` proves it
for every size of the address space.

`MCFabricShim.tla` gives the symmetry of the handles; `FabricShimProofs.tla`
holds the proofs.

`InfoOwnership.tla` is the rest of the shim: who owns a `struct fi_info` and a
`shim_info`. A native info (hints, a result list, a copy, a request) is a cell
of `Natives`, a wrapper one of `Wrappers`; a freed cell may be allocated again.
`call` holds the local variables of the call in progress, so `shim_info_open`
is a step per allocation and per entry of the result list, with `Cleanup` its
cleanup label, and events arrive in between. A CM event that is no CONNREQ may
carry an info, a CONNREQ may lack it; both have their lines in `shim_eq_poll`.
The caller frees each `shim_info` once and may reject it as often as it likes.
`MCInfoOwnership.tla` gives the result lists, `InfoOwnershipProofs.tla` the
proofs.

`Transport.tla` is `run()` of one program (`Role`) over an instance of
`FabricShim`: an action of the program is an action of the shim together with
what Rust does about it. `pc` names the handle that is opened next, or the place
after that; `owner` is the innermost struct alive; `raw` are the raw pointers
that are not null, and `lost` the objects whose owner was dropped while they
were open. `SetupFails` is the `?` of every call up to accept or connect, with
each way the shim's composite opens can fail; `FailureLeadsTo` is where the `?`
goes. A close is a step per handle in the order of the `close!` lines (`Rank`),
each of which may be refused (`CloseFails`): an explicit close then reports its
error and Drop tries again, a failing Drop gives up (`GiveUp`), with the buffers
forgotten. A request is taken, accepted, rejected by `from_request` or by its
Drop; a call that would answer it once more sets `request` to `again`. What the application says is left to `Exchange`; here it uses any free
slot and ends when it likes.

`Loan.tla` is what such a program owes the NIC: memory that is registered or
lent is never freed, only given up. `Transport` implements it through the
mapping `Memory`. `TransportProofs.tla` holds the proofs.

`Network.tla` is the provider and the network from a program's side: posted
receives, in-order messages, send requests that complete when the peer has
placed the message, TX, RX and event queues, breaks and shutdowns, with events
in no fixed order between queues. The server's connected event may come after
the first message; a shutdown may overtake completions. It is external code,
modelled from how the programs use it, and shared by the next two modules.
`NetworkProofs.tla` holds the lemmas about its steps that both of them need.

`Exchange.tla` is both Rust programs over `Network`. `pc` is the place in the
loop: `wait` (listener), `init` (the receive loop of `initialize`), `cm` (accept
or connect), `tx`, `rx`, `eq` (the three reads of `Connection::poll`), `handle`
(events to `on_event`, one per step), `repost`, `send`, `close`, `done`. `cli`
and `srv` are the two `Exchange` structs field by field, `conn` the two pending
flags. The `?` operator is `Fail`: the loop ends and the gathered events are
lost with their vector. `ExchangeProofs.tla` holds the proofs.

`PingPong.tla` is the C example over `Network`, both roles. `Script` is the
straight line of `main()`, `pc` the phase in it, and `poll` the place within
the phase: `head` (the loop's deadline check and, in a submission, the post),
`tx`, `rx`, `eq` (the reads of `progress`), `back` (its return), `out`. Entering
a phase clears the flag of its operation (`Advance`), as `post_receive` and
`send_message` do first. The server's one EQ serves its listener and its
endpoint, so `Knock`, the request of another client (a stranger), may turn up in
any wait. If the server accepts a stranger, that client stays silent.
`PingPongProofs.tla` holds the proofs.

`Handshake.tla` is what the programs promise each other: a conversation of
three messages spoken in turn, in which a side may give up and reports success
only at the end. `HandshakeProofs.tla` proves that the sides stay in step.
`Exchange` and `PingPong` are each shown, and proved, to implement it, through a mapping
`Conversation`: the number of messages a side has taken part in is read off its
`Exchange` struct, or off its place in the script.

## Runs

| Run | Question | Size |
| --- | --- | --- |
| `shim_one_domain` | does any sequence of calls break a count, a parent, a borrow, a context, a CQ's capacity, the cleanup order, or a request in flight? | one fabric, domain, EQ, listener and MR; 2 endpoints, 4 CQs, 3 operations, capacity 2; about 15 thousand states under symmetry |
| `shim_two_fabrics` | can pointers cross from one fabric or domain to another? | 2 fabrics, 2 domains, 2 EQs, 1 endpoint, 2 CQs; about 24 thousand states |
| `mr_bounds` | does the range check admit exactly what lies inside the MR? | an address space of 10 bytes, every MR, limit and buffer in it; 6 thousand states |
| `info_ownership` | does any sequence of queries, polls, rejections and frees, with any allocation failing, lose or share an info, or a connection request? | 4 native infos, 2 wrappers, 2 events, 7 result lists; 600 thousand states under symmetry |
| `transport_server` | does a program lose an object, free a buffer too early, answer its request twice or too late, or never end, when any open fails and any close is refused? | one server, CQ capacity 1; 1.8 thousand states |
| `transport_client` | does the client, whose setup fails in other ways, lose an object? | one client, CQ capacity 1; 0.5 thousand states |
| `pingpong_faults` | the questions of `exchange_faults` for the C example, and what becomes of other clients' requests | all faults, one stranger; 210 thousand states |
| `pingpong_reliable` | what can go wrong for the C example when nothing fails? | no faults, no stranger; 1.5 thousand states |
| `pingpong_shutdown` | is "connection ended before completion" true when it is printed? No: see below | as `pingpong_reliable` |
| `exchange_faults` | what do the programs report, and do they end, when anything fails at any moment? | all faults; 120 thousand states |
| `exchange_reliable` | do both succeed when nothing fails? | no faults; 2 thousand states |

No counter of `FabricShim` needs a bound: the handles are finite and a consumed
one may be opened again, so runs are of any length. Two endpoints with four CQs
let one endpoint be closed and another opened while the old CQs still hold
stale entries; three operations on CQs of capacity two let a CQ fill up; one MR
shared by all operations makes its count go up to three. The second instance
exists for the argument checks, which need two of everything above a CQ.
`Exchange` has no bound either: each side sends at most two messages, and every
queue is finite because of the slots. `PingPong` bounds the strangers by one: a
second would only repeat the first, as the server answers requests one at a time;
the theorems cover any number.
`Transport` needs no bound. Its CQs of capacity one are always large enough,
since each serves one operation; the theorems cover any capacity.
`InfoOwnership` bounds what has come through the EQ by `MaxEvents`; four native
cells are a call's hints, list and copy and one more, and when they run out an
allocation fails, as every allocation may. The result lists contain an empty one, one for
each test of the filter, and fitting entries behind others. Deadlock is not
checked in the exchange, example and transport runs, where the programs end. It
is checked in the shim and ownership runs.

Each property:

* `CountersExact`, `ParentsOutlive`, `BorrowsPinned`, `ContextsPinned`,
  `CqNeverOverruns`, `CleanupOrder`, `InFlightStable` are stated in
  `FabricShim`, each above its definition. `ContextsPinned` also says that no
  poll ever answers EIO for an unknown context.
* `HeldInside`, `FittingAccepted`: the range check is neither too lax nor too
  strict, at both ends of the MR and of the address space.
* `NoReceiverNotReady`: no message reaches a live endpoint without a receive.
* `NoProtocolError`: two programs of this repository never accuse each other.
* `SlotsCoverProvider`: a slot marked free is free.
* `ClientOkMeansDelivered`: what the client's success says about the server's
  NIC, beyond what `Handshake` says of both sides. Neither side's success implies
  the other's: the server may still time out after the client has succeeded, and
  the client may fail after the server has. That is all two endpoints can agree
  on, and `Handshake` states it.
* `ImplementsHandshake`, `ImplementsLoan`: refinement. `Termination`,
  `BothSucceed`, `OnePasses`: liveness.
* `HandlesTracked`: no raw pointer dangles and no object is forgotten, a half
  opened endpoint left in an out pointer included. `NothingBusy`: the order of
  the closes is right. `OkMeansClosed`: a program that says so has closed
  everything. `FreeSlotsAreFree`: the flags of the slots. (`FreedIsReturned`, the
  memory of the slots, is proved; the runs check the stronger `ImplementsLoan`.)
* `AnsweredOnce`, `AnsweredInTime` (`Transport`): an accept or a reject is
  only attempted while the request is pending. A failed `shim_accept` leaves it
  pending, as `from_request` takes it to; a `shim_reject` ends it even if it
  fails, and none may follow. It is answered before its info is freed and before
  the endpoint with its CM identifier is closed.
* `OneOwner`: each info and each wrapper has one owner, and a call that fails
  gives nothing out. `AskedFor`: what is given out is what was asked for
  (it does not say that it is the first entry of the list that fits).
  `RequestsDelivered`: an event with a request is consumed only into a wrapper.
* `FlagsCoverProvider`, `RequestsAnswered`: the example's flags, and that no
  request it has read, the session's own or another client's, is forgotten or
  answered twice.

## Finding

`progress()` of the C example reads the TX CQ, the RX CQ and then the EQ, and
ends the exchange on a shutdown event. A completion may arrive between the reads:
`pingpong_shutdown` shows it in the CQ while the program reports "connection
ended before completion" and fails, although its comment says that both CQs are
driven before a shutdown is considered. One more read of the CQs after the
shutdown event would settle it; the Rust programs drain theirs. `OnePasses`
shows that at most one of the two programs is hit.

## Fairness

`Termination` assumes only that each program is scheduled (`WF` of its steps)
and that a loop which keeps coming back to `while Instant::now() < deadline`
finds in the end that the deadline has passed (`SF` of `Timeout`, since the
check is only reached once per round). It assumes nothing of the provider, the
network or the peer. `BothSucceed` is about a provider that delivers:
connection events, placements and acknowledgements happen (`WF`), a submission
is not answered with EAGAIN for ever (`SF` of `Send` and `Repost`), and no
deadline passes.

`Transport` assumes that the program is scheduled (`WF` of `Step`) and that an
application loop that keeps coming round ends (`SF` of `Finish`), by its deadline
at the latest; nothing of the provider, which may refuse every close for ever.
`PingPong` has the assumptions of `Exchange`, with the deadline of each loop in
`SF` of `Timeout`; `OnePasses` those of `BothSucceed`.

## Proofs

The theorems of `FabricShimProofs` hold for every value of the constants, under
the three assumptions of `FabricShim`: the handle sets that are counted are finite, the
null pointer is no handle, the CQ capacity is positive (`shim_cq_open` refuses
zero).

`Inductive` proves `Spec => []IInv`. `IInv` is what the properties need to be
inductive. Exact counters alone are not: that a decrement cannot wrap needs the
pointer being dropped to be counted; that closing an endpoint returns exactly
the right MRs needs the pending list of a CQ to be the set of operations that
point to it (`OpsLinked`); that no other endpoint is hurt needs a CQ to serve
one endpoint (`CqsSpent`); that a polled or closed CQ leaves the provider's
requests alone needs a request to agree with the shim's record of it
(`WorkLinked`); and pointers must be all there or all null
(`PointersTogether`). The proof has one lemma per action and, under it, one
step per conjunct. Cardinality enters in one place: when one handle changes one
pointer, the count of the old target goes down by one and that of the new one
up (`CountMoved` and its instances); the counter changes by the same `Delta`.
What an action leaves alone is left to the `Frame` lemmas.

From `IInv` follow the theorems on all eight properties of `shim_one_domain`:
`TypeCorrect`, `CountersAlwaysExact`, `ParentsAlwaysOutlive`,
`BorrowsAlwaysPinned`, `ContextsAlwaysPinned`, `CqsNeverOverrun`,
`CleanupAlwaysOrdered` and the action property `InFlightAlwaysStable`.

`StaysInStep` in `HandshakeProofs` proves that the sides of the conversation
are never more than a message apart. `ExchangeProofs` and `PingPongProofs` have a
`StaysInStep` each, which carries it over to the programs.

`MrBoundsProofs` shows that the check, computed with wrapping subtraction, is
equivalent to containment over the integers (`InRangeIsFits`), for neither
subtraction wraps once the conditions before it hold. `BuffersAlwaysInside`
needs one thing more, that the fit of the buffer in flight is inductive: it is,
because the MR moves only when idle. `FittingAlwaysAccepted` is the converse.
The only assumption is that there is an address.

`TransportProofs` begins with composition. `ShimSound` shows that every step of
a program is a step of its `FabricShim` instance or leaves the shim alone, and
`UsesShim` that therefore `Spec` implies the specification of `FabricShim`: the shim's `IInv` and all eight of its
theorems hold under both programs, and the inductive proof may use them.
`Inductive` proves `Spec => []IInv`. The parts of `IInv` say, for the program's
place, which pointers are set (`After` opens, `Rank` closes: the pointers held
are an upper part of one order), what each pointer refers to, that a slot's flag
is up exactly when its operation is submitted, and which state of the request,
its info and `handled` go with which place. From it follow `HandlesAlwaysTracked`,
`FreedAlwaysReturned`, `FreeSlotsAlwaysFree`, `NothingEverBusy`,
`OkAlwaysMeansClosed`, `AnsweredAtMostOnce`, the action property
`AnsweredAlwaysInTime`, and the refinement `LoanImplemented`, for either role
and any capacity.

`InfoOwnershipProofs` needs to know the owners in the middle of a call, where
`OneOwner` says little. Its `IInv` says which local variables are set at which
place (`LocalsSet`), that every wrapper is the caller's or the call's
(`WrappersOwned`), that the kind of a native cell tells who owns it
(`CellsOwned`) and that no two owners share one (`Apart`); that only requests
have a handle and only a CONNREQ carries a pending one (`Pending`); and that the
entry at hand passed the filter, also while events arrive (`Asked`). From it
follow `OneOwnerAlways`, `AskedForAlways`, `RequestsAlwaysDelivered` and
`TypeCorrect`, for any cells, lists and bound on the events. The assumptions are
that null is no cell and that the lists are lists.

`NetworkProofs` is about the provider as these programs use it: one send and one
receive slot each, so every queue holds at most one entry, and none while the
request it would answer is still out (`ShortQueues`). It has a lemma per step of
`Network`, which says what the step does to the single entries and that the
queues stay short, if no second request is posted. That none is posted is for
the proofs about the programs to show.

`ExchangeProofs` proves `Spec => []IInv` for both Rust programs and any choice of
faults. The properties alone are far from inductive, for what a program may
conclude depends on requests, messages, completions and gathered events that
are still on their way:

* `Control` and `Gathered` say what is known at each place of the loop: the
  verdict, which kinds of event the vector may hold, and each only once.
* `Connected` says how far the connection must be, since a program that handles
  a message has been connected even if it has not read that event yet.
* `Slots` is `SlotsCoverProvider` with the events that are gathered: a slot in
  use has no unhandled event of its own.
* `Journeys` is the heart. From the step that says a message to the step that
  hears it, it is in one place: on the wire, in the CQ, or in the vector; and
  the messages follow each other. Hence no message comes twice, or early, and
  `on_event` never finds a protocol error.
* `Sends` ties a busy send slot to a message whose completion is awaited, so a
  `sent` event is never one too many.
* `Receives` says that a message which is not heard yet and may be under way
  finds a receive. It makes `NoReceiverNotReady` inductive: it covers the
  receives that are posted before the message they are for exists.
* `AckReaches`: a send of ack that has completed, or will complete well, has
  reached the server's CQ. The client's success depends on it.

`PingPongProofs` does the same for the C example, for any number of strangers. There
the script fixes what has been said, so there is no vector and less to say about
events. `Flags` must also say that a flag is down and its queue empty when its
receive or send is about to be posted, because the post itself cannot tell.
`Answers` counts: the requests read are those answered and at most one in hand,
and those read, still to come and waiting in the EQ are never more than those
of all strangers and the client; the sum needs the number of requests in the EQ,
which every event that is queued or read in any order changes (`KnockAdded`,
`KnockRead`). That the client's own request is read at most once is part of
`Connected`.

From these follow all safety properties of the exchange and example runs that
pass: `TypeCorrect`, `ReceiverReady`, `FlagsAreTrue` in both; `NeitherAtFault`
and `AckDelivered` for the Rust programs; `RequestsAlwaysAnswered` for the
example. `Refinement` in both proves `ImplementsHandshake`: `Spec` implies
`Conversation!Spec`. A step that says or hears a message is `Advance`, for
`Journeys` tells that a message that is heard has been said; the end of a
program is `Conclude`, and `Control` tells that it is a success only after the
third message; anything else stutters. `StaysInStep` follows from `IInv` too.
The assumption is that `Strangers` is a number; nothing is assumed about the
faults.

Only model-checked: liveness (`Termination`, `BothSucceed`, `OnePasses`), for
the prover has no rules for fairness.

## Plan

What is still to be written: the handles of the C example over `FabricShim`,
with closes tried once, in its own order, and the buffers freed only after their
MRs.

## Not modelled

Printing (`shim_print_info`, `fabric.rs`, event logging), argument parsing,
error texts, `ffi.rs` (declarations), `build.rs`, the empty placeholder files.
The handles of the C example, and what its `cleanup` does about a close that
fails: it tries each once and the process exits. Retrying the very first receive
on EAGAIN calls `poll` and drops its result; before accept or connect the model's
provider queues no event, so this is a stuttering step. Provider-internal waiting
and process crashes are outside the code: no state survives a process.
