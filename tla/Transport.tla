------------------------------ MODULE Transport ------------------------------
(***************************************************************************)
(* Who owns what in src/transport.rs, and in which order it is opened and  *)
(* closed: the run() of one program, server or client, over the C shim.    *)
(*                                                                         *)
(* Every call of the program is an action of FabricShim taken with the     *)
(* program's own state: its place (pc), the raw pointers it holds, the     *)
(* memory of its two slots and the connection request it has taken.  The   *)
(* provider may fail any open, refuse any close, and complete or fail      *)
(* requests between any two calls.  What the application says over the     *)
(* connection is the subject of Exchange; here it submits what a free slot *)
(* allows, polls, and ends when it likes.                                  *)
(***************************************************************************)
EXTENDS Integers

CONSTANTS
  Role,        \* the program: "server" or "client"
  Capacity     \* the size of its CQs, 16 in the code

ASSUME RoleKnown == Role \in {"server", "client"}
ASSUME CapacityPositive == Capacity \in Nat \ {0}

Slots == {"tx", "rx"}
Null == "null"

(* The objects of the shim, named after the Rust field that holds them.    *)
Handles == {"fabric", "listener_eq", "listener", "domain", "eq", "tx_cq",
            "rx_cq", "ep", "tx_mr", "tx_op", "rx_mr", "rx_op"}
Cq == [tx |-> "tx_cq", rx |-> "rx_cq"]
Mr == [tx |-> "tx_mr", rx |-> "rx_mr"]
Op == [tx |-> "tx_op", rx |-> "rx_op"]
Dir == [tx |-> "send", rx |-> "recv"]

VARIABLES fabric, domain, eq, cq, listener, ep, mr, op, wr, cqe   \* FabricShim
VARIABLES
  pc,           \* the handle to open next, or where the program is
  owner,        \* the innermost struct alive: "fabric", "listener" or "conn"
  raw,          \* the raw pointers that are not null
  lost,         \* objects whose Rust owner was dropped while they were open
  bytes,        \* per slot: "none", "owned", "freed", or "leaked" by forget
  pending,      \* per slot: its pending flag
  cm_started,   \* of the Connection
  request,      \* "none", "pending", "accepted" or "rejected" at the provider,
                \* "again" if it was to be answered once more
  handled,      \* of the Request
  info,         \* whether the program holds the info of the request
  failed        \* whether the result of run() is an error so far

Shim == INSTANCE FabricShim WITH
  Fabrics <- {"fabric"}, Domains <- {"domain"}, Eqs <- {"listener_eq", "eq"},
  Cqs <- {"tx_cq", "rx_cq"}, Listeners <- {"listener"}, Eps <- {"ep"},
  Mrs <- {"tx_mr", "rx_mr"}, Ops <- {"tx_op", "rx_op"}, None <- Null

shim == <<fabric, domain, eq, cq, listener, ep, mr, op, wr, cqe>>
slots == <<bytes, pending>>
req == <<request, handled, info>>
vars == <<shim, pc, owner, raw, lost, slots, cm_started, req, failed>>

Init ==
  /\ Shim!Init
  /\ pc = "fabric" /\ owner = "fabric"
  /\ raw = {} /\ lost = {}
  /\ bytes = [s \in Slots |-> "none"]
  /\ pending = [s \in Slots |-> FALSE]
  /\ cm_started = FALSE
  /\ request = "none" /\ handled = FALSE /\ info = FALSE
  /\ failed = FALSE

-----------------------------------------------------------------------------
(* Opening: Fabric::open, Listener::bind, Connection::initialize.          *)

(* What comes after each open; a Connection starts out empty.              *)
After ==
  [fabric |-> IF Role = "server" THEN "listener_eq" ELSE "empty",
   listener_eq |-> "listener", listener |-> "wait",
   domain |-> "eq", eq |-> "tx_cq", tx_cq |-> "rx_cq", rx_cq |-> "ep",
   ep |-> "tx_mr", tx_mr |-> "tx_op", tx_op |-> "rx_mr", rx_mr |-> "rx_op",
   rx_op |-> "post"]

ShimOpen(h) ==
  \/ h = "fabric" /\ Shim!FabricOpen(h)
  \/ h = "domain" /\ Shim!DomainOpen(h, "fabric")
  \/ h \in {"listener_eq", "eq"} /\ Shim!EqOpen(h, "fabric")
  \/ h \in {"tx_cq", "rx_cq"} /\ Shim!CqOpen(h, "domain")
  \/ h = "listener" /\ Shim!ListenerOpen(h, "fabric", "listener_eq", TRUE)
  \/ h = "ep" /\ Shim!EndpointOpen(h, "domain", "eq", "tx_cq", "rx_cq", TRUE, FALSE)
  \/ h = "tx_mr" /\ Shim!MrRegister(h, "domain", {"send"})
  \/ h = "rx_mr" /\ Shim!MrRegister(h, "domain", {"recv"})
  \/ h \in {"tx_op", "rx_op"} /\ Shim!OpCreate(h)

Open ==
  /\ pc \in Handles
  /\ ShimOpen(pc)
  /\ raw' = raw \cup {pc}
  /\ pc' = After[pc]
  /\ owner' = IF pc = "fabric" /\ Role = "server" THEN "listener" ELSE owner
  /\ UNCHANGED <<lost, slots, cm_started, req, failed>>

EmptyStarted ==          \* mutant: the Connection believes it has an endpoint
  /\ pc = "empty"
  /\ bytes' = [s \in Slots |-> "owned"]
  /\ owner' = "conn"
  /\ pc' = "domain"
  /\ cm_started' = TRUE
  /\ UNCHANGED <<shim, raw, lost, pending, req, failed>>

(* Connection::empty allocates both buffers.                               *)
Empty ==
  /\ pc = "empty"
  /\ bytes' = [s \in Slots |-> "owned"]
  /\ owner' = "conn"
  /\ pc' = "domain"
  /\ UNCHANGED <<shim, raw, lost, pending, cm_started, req, failed>>

(* A failed composite open may leave an object in the out pointer: one the *)
(* provider refused to roll back, or the endpoint of a request.            *)
ShimHalfOpen(h) ==
  \/ h = "listener" /\ Shim!ListenerOpen(h, "fabric", "listener_eq", FALSE)
  \/ h = "ep" /\ Shim!EndpointOpen(h, "domain", "eq", "tx_cq", "rx_cq",
                                   FALSE, Role = "client")

ShimHalfOpenForgotten(h) ==   \* mutant: the out pointer is not written
  UNCHANGED shim \/ ShimHalfOpen(h)

(* Or it leaves none, although the CQs of an endpoint may be spent.        *)
ShimOpenFails(h) ==
  \/ UNCHANGED shim
  \/ h = "ep" /\ Role = "client"
     /\ Shim!EndpointOpenRolledBack(h, "domain", "eq", "tx_cq", "rx_cq")

FailureDropsFirst ==     \* mutant: from_request drops conn before it rejects
  IF pc = "wait" THEN "close" ELSE "drop"

(* Where `?` leads: a server rejects the request before it drops conn, a   *)
(* bound listener is closed explicitly, all else is dropped.               *)
FailureLeadsTo ==
  IF owner = "conn" /\ Role = "server" THEN "reject"
  ELSE IF pc = "wait" THEN "close" ELSE "drop"

SetupFails ==
  /\ pc \in Handles \cup {"wait", "post", "start"}
  /\ \/ ShimOpenFails(pc) /\ UNCHANGED raw
     \/ ShimHalfOpen(pc) /\ raw' = raw \cup {pc}
  /\ failed' = TRUE
  /\ pc' = FailureLeadsTo
  /\ UNCHANGED <<owner, lost, slots, cm_started, req>>

(* Listener::wait_request returns the request of a client.                 *)
TakeRequest ==
  /\ pc = "wait"
  /\ request' = "pending" /\ info' = TRUE
  /\ pc' = "empty"
  /\ UNCHANGED <<shim, owner, raw, lost, slots, cm_started, handled, failed>>

-----------------------------------------------------------------------------
(* Submitting and polling.                                                 *)

SubmitKeepsFlag(s) ==    \* mutant: the slot is not marked pending
  /\ Shim!Post("ep", Op[s], Mr[s], Dir[s])
  /\ UNCHANGED pending

Submit(s) ==
  /\ Shim!Post("ep", Op[s], Mr[s], Dir[s])
  /\ pending' = [pending EXCEPT ![s] = TRUE]

(* The receive loop at the end of initialize.  EAGAIN repeats it, with a   *)
(* poll that finds nothing: a stuttering step.                             *)
FirstReceive ==
  /\ pc = "post"
  /\ Submit("rx")
  /\ pc' = "start"
  /\ UNCHANGED <<owner, raw, lost, bytes, cm_started, req, failed>>

(* A call of shim_accept or shim_reject that consumes the provider's handle *)
(* of the request, which is valid only while the request is pending.       *)
Answer(verdict) == request' = IF request = "pending" THEN verdict ELSE "again"

Accept ==
  /\ Answer("accepted")
  /\ handled' = TRUE

(* shim_accept in from_request, shim_connect in connect.                   *)
StartCm ==
  /\ pc = "start"
  /\ cm_started' = TRUE
  /\ IF Role = "server" THEN Accept /\ pc' = "drop_request"
                        ELSE UNCHANGED <<request, handled>> /\ pc' = "poll_tx"
  /\ UNCHANGED <<shim, owner, raw, lost, slots, info, failed>>

(* post_recv and send of an application that looks at its slots first.     *)
Use(s) ==
  /\ pc = "app"
  /\ ~pending[s]
  /\ Submit(s)
  /\ UNCHANGED <<pc, owner, raw, lost, bytes, cm_started, req, failed>>

NextRound ==
  /\ pc = "app"
  /\ pc' = "poll_tx"
  /\ UNCHANGED <<shim, owner, raw, lost, slots, cm_started, req, failed>>

(* The application is done, or has given up: conn.close().                 *)
Finish(error) ==
  /\ pc = "app"
  /\ failed' = error
  /\ pc' = "close"
  /\ UNCHANGED <<shim, owner, raw, lost, slots, cm_started, req>>

(* Connection::poll, one step per queue.  An entry frees its slot unless   *)
(* it is an error, which ends the exchange like a failure of the read.     *)
Poll(s) ==
  /\ pc = IF s = "tx" THEN "poll_tx" ELSE "poll_rx"
  /\ \/ /\ cqe[Op[s]] # Cq[s]
        /\ pc' = IF s = "tx" THEN "poll_rx" ELSE "poll_eq"
        /\ UNCHANGED <<shim, pending, failed>>
     \/ /\ pending[s]
        /\ Shim!CqPoll(Cq[s], Op[s])
        /\ pending' = [pending EXCEPT ![s] = FALSE]
        /\ pc' = IF s = "tx" THEN "poll_rx" ELSE "poll_eq"
        /\ UNCHANGED failed
     \/ /\ Shim!CqPoll(Cq[s], Op[s]) \/ UNCHANGED shim
        /\ failed' = TRUE
        /\ pc' = "close"
        /\ UNCHANGED pending
  /\ UNCHANGED <<owner, raw, lost, bytes, cm_started, req>>

PollEq ==
  /\ pc = "poll_eq"
  /\ \/ pc' = "app" /\ UNCHANGED failed
     \/ pc' = "close" /\ failed' = TRUE
  /\ UNCHANGED <<shim, owner, raw, lost, slots, cm_started, req>>

-----------------------------------------------------------------------------
(* The request: Request::reject, and its Drop.                             *)

RejectUntilOk ==         \* mutant: handled is set only if shim_reject succeeds
  IF handled THEN UNCHANGED <<request, handled>>
  ELSE Answer("rejected") /\ handled' \in BOOLEAN

(* fi_reject consumes the request even if it reports an error, so handled  *)
(* is set before the call.                                                 *)
RejectOnce ==
  IF handled THEN UNCHANGED <<request, handled>>
  ELSE Answer("rejected") /\ handled' = TRUE

(* from_request after a failed setup.                                      *)
Reject ==
  /\ pc = "reject"
  /\ RejectOnce
  /\ pc' = "drop"
  /\ UNCHANGED <<shim, owner, raw, lost, slots, cm_started, info, failed>>

(* The request goes out of scope: after accept, or after a failed setup.   *)
DropRequest ==
  /\ pc = "drop_request"
  /\ RejectOnce
  /\ info' = FALSE
  /\ pc' = IF owner = "conn" THEN "poll_tx" ELSE "close"
  /\ UNCHANGED <<shim, owner, raw, lost, slots, cm_started, failed>>

-----------------------------------------------------------------------------
(* Closing.  pc = "close" is an explicit close of the innermost struct,    *)
(* pc = "drop" the one of its Drop, which finds nothing left to do if the  *)
(* explicit one has succeeded.  Each close! leaves at the first failure.   *)

RankOpsFirst ==          \* mutant: the slots are closed before the CQs
  [ep |-> 1, tx_cq |-> 6, rx_cq |-> 7, tx_op |-> 2, tx_mr |-> 3, rx_op |-> 4,
   rx_mr |-> 5, eq |-> 8, domain |-> 9, listener |-> 10, listener_eq |-> 11,
   fabric |-> 12]

(* The order in which Connection, Listener and Fabric close their fields.  *)
Rank ==
  [ep |-> 1, tx_cq |-> 2, rx_cq |-> 3, tx_op |-> 4, tx_mr |-> 5, rx_op |-> 6,
   rx_mr |-> 7, eq |-> 8, domain |-> 9, listener |-> 10, listener_eq |-> 11,
   fabric |-> 12]

Owned(o) ==
  CASE o = "conn" -> Handles \ {"listener", "listener_eq", "fabric"}
    [] o = "listener" -> {"listener", "listener_eq"}
    [] o = "fabric" -> {"fabric"}

Held == raw \cap Owned(owner)

Closing == pc \in {"close", "drop"} /\ ~cm_started

(* Slot::close gives its memory back after both of its handles.            *)
SlotDue(s) ==
  /\ owner = "conn" /\ bytes[s] = "owned"
  /\ \A h \in Held : Rank[h] > Rank[Mr[s]]

Due(h) ==
  /\ h \in Held
  /\ \A g \in Held : Rank[h] <= Rank[g]
  /\ \A s \in Slots : ~SlotDue(s)

ShimClose(h) ==
  \/ h = "ep" /\ \E stale \in SUBSET {"tx_op", "rx_op"} : Shim!EndpointClose(h, stale)
  \/ h \in {"tx_cq", "rx_cq"} /\ Shim!CqClose(h)
  \/ h \in {"tx_op", "rx_op"} /\ Shim!OpFree(h)
  \/ h \in {"tx_mr", "rx_mr"} /\ Shim!MrClose(h)
  \/ h \in {"eq", "listener_eq"} /\ Shim!EqClose(h)
  \/ h = "domain" /\ Shim!DomainClose(h)
  \/ h = "listener" /\ Shim!ListenerClose(h)
  \/ h = "fabric" /\ Shim!FabricClose(h)

(* A connection that was started is shut down first, once; the shim's      *)
(* answer is ignored.                                                      *)
ShutDown ==
  /\ pc \in {"close", "drop"}
  /\ cm_started
  /\ Shim!Shutdown("ep")
  /\ cm_started' = FALSE
  /\ UNCHANGED <<pc, owner, raw, lost, slots, req, failed>>

FreeSlot(s) ==
  /\ Closing
  /\ SlotDue(s)
  /\ bytes' = [bytes EXCEPT ![s] = "freed"]
  /\ pending' = [pending EXCEPT ![s] = FALSE]
  /\ UNCHANGED <<shim, pc, owner, raw, lost, cm_started, req, failed>>

CloseHandle(h) ==
  /\ Closing
  /\ Due(h)
  /\ ShimClose(h)
  /\ raw' = raw \ {h}
  /\ UNCHANGED <<pc, owner, lost, slots, cm_started, req, failed>>

(* What is left of the program when the innermost struct is gone.          *)
Leave ==
  /\ owner' = IF owner = "conn" /\ Role = "server" THEN "listener" ELSE "fabric"
  /\ pc' = IF owner = "fabric" THEN "done"
           ELSE IF owner = "conn" /\ info THEN "drop_request" ELSE "close"

ForgetNothing ==         \* mutant: the buffers are dropped with their slots
  [s \in Slots |-> IF owner = "conn" /\ bytes[s] = "owned" THEN "freed"
                                                         ELSE bytes[s]]

(* std::mem::forget of the buffers a failed close has left.                *)
Forget ==
  [s \in Slots |-> IF owner = "conn" /\ bytes[s] = "owned" THEN "leaked"
                                                         ELSE bytes[s]]

CleanupErrorIgnored ==   \* mutant: finish looks at the result alone
  /\ pc' = "drop"
  /\ UNCHANGED <<owner, raw, lost, bytes, failed>>

(* An explicit close reports its failure (finish); the Drop follows.       *)
CleanupError ==
  /\ pc' = "drop"
  /\ failed' = TRUE
  /\ UNCHANGED <<owner, raw, lost, bytes>>

DropTriesAgain ==        \* mutant: the Drop does not give up
  /\ pc' = "close"
  /\ UNCHANGED <<owner, raw, lost, bytes, failed>>

(* A Drop that fails gives up what is left: the objects stay open and the  *)
(* buffers allocated until the process exits.                              *)
GiveUp ==
  /\ lost' = lost \cup Held
  /\ raw' = raw \ Held
  /\ bytes' = Forget
  /\ Leave
  /\ UNCHANGED failed

(* The shim or the provider refuses to close a handle.                     *)
CloseFails(h) ==
  /\ Closing
  /\ Due(h)
  /\ IF h = "ep" THEN Shim!EndpointCloseRefused(h) ELSE UNCHANGED shim
  /\ IF pc = "close" THEN CleanupError ELSE GiveUp
  /\ UNCHANGED <<pending, cm_started, req>>

Closed ==
  /\ Closing
  /\ Held = {}
  /\ \A s \in Slots : ~SlotDue(s)
  /\ Leave
  /\ UNCHANGED <<shim, raw, lost, slots, cm_started, req, failed>>

(* The provider finishes a request.                                        *)
Complete(o) ==
  /\ Shim!Complete(o)
  /\ UNCHANGED <<pc, owner, raw, lost, slots, cm_started, req, failed>>

-----------------------------------------------------------------------------
Step ==
  \/ Open \/ Empty \/ SetupFails \/ TakeRequest \/ FirstReceive \/ StartCm
  \/ \E s \in Slots : Use(s) \/ Poll(s)
  \/ PollEq \/ NextRound
  \/ Reject \/ DropRequest
  \/ ShutDown \/ Closed
  \/ \E s \in Slots : FreeSlot(s)
  \/ \E h \in Handles : CloseHandle(h) \/ CloseFails(h)

Next ==
  \/ Step
  \/ \E error \in BOOLEAN : Finish(error)
  \/ \E o \in {"tx_op", "rx_op"} : Complete(o)

Spec == Init /\ [][Next]_vars

(* The program is scheduled, and an application loop that keeps coming     *)
(* round ends, by its deadline at the latest.                              *)
FairSpec ==
  Spec /\ WF_vars(Step) /\ SF_vars(\E error \in BOOLEAN : Finish(error))

-----------------------------------------------------------------------------
(* Properties.                                                             *)

(* The types, and that a Connection shuts down only an endpoint it has.    *)
TypeOK ==
  /\ pc \in Handles \cup {"empty", "wait", "post", "start", "drop_request",
              "poll_tx", "poll_rx", "poll_eq", "app", "reject", "close",
              "drop", "done"}
  /\ owner \in {"fabric", "listener", "conn"}
  /\ raw \subseteq Handles /\ lost \subseteq Handles
  /\ bytes \in [Slots -> {"none", "owned", "freed", "leaked"}]
  /\ pending \in [Slots -> BOOLEAN]
  /\ cm_started \in BOOLEAN /\ (cm_started => "ep" \in raw)
  /\ request \in {"none", "pending", "accepted", "rejected", "again"}
  /\ handled \in BOOLEAN /\ info \in BOOLEAN /\ failed \in BOOLEAN

(* Whether the object of a handle exists in the shim.                      *)
Exists(h) ==
  \/ h = "fabric" /\ fabric[h].open
  \/ h = "domain" /\ domain[h].fabric # Null
  \/ h \in {"listener_eq", "eq"} /\ eq[h].fabric # Null
  \/ h \in {"tx_cq", "rx_cq"} /\ cq[h].domain # Null
  \/ h = "listener" /\ listener[h].fabric # Null
  \/ h = "ep" /\ ep[h].domain # Null
  \/ h \in {"tx_mr", "rx_mr"} /\ mr[h].domain # Null
  \/ h \in {"tx_op", "rx_op"} /\ op[h].open

(* No pointer dangles and no object is forgotten: through every failed     *)
(* open, half opened object, refused close and retry by Drop, the program  *)
(* points to exactly the objects that exist and were not given up.         *)
HandlesTracked ==
  /\ \A h \in Handles : Exists(h) <=> h \in raw \cup lost
  /\ raw \cap lost = {}

(* "Do not release memory until MR close succeeds": a buffer is freed only *)
(* when it is neither registered nor held by the NIC.                      *)
FreedIsReturned ==
  \A s \in Slots : bytes[s] = "freed" =>
    ~Exists(Mr[s]) /\ wr[Op[s]].mr # Mr[s]

(* A slot whose flag is down may be read or filled by the program: its     *)
(* operation is not submitted, so no post is ever answered with EBUSY.     *)
FreeSlotsAreFree ==
  \A s \in Slots : ~pending[s] => op[Op[s]].cq = Null /\ wr[Op[s]].ep = Null

(* What makes the shim answer a close with EBUSY.                          *)
Busy(h) ==
  \/ h \in {"tx_cq", "rx_cq"} /\ cq[h].attached
  \/ h \in {"tx_op", "rx_op"} /\ op[h].cq # Null
  \/ h \in {"tx_mr", "rx_mr"} /\ mr[h].pending # 0
  \/ h \in {"eq", "listener_eq"} /\ eq[h].users # 0
  \/ h = "domain" /\ domain[h].children # 0
  \/ h = "fabric" /\ fabric[h].children # 0

(* The cleanup never stands in its own way: the shim refuses a close for a *)
(* dependent handle only if the provider has refused to close that handle. *)
NothingBusy ==
  \A h \in Handles : Closing /\ Due(h) /\ lost = {} => ~Busy(h)

(* "resources closed" is printed only when it is true.                     *)
OkMeansClosed ==
  pc = "done" /\ ~failed =>
    (\A h \in Handles : ~Exists(h)) /\ (\A s \in Slots : bytes[s] = "freed")

(* "Never attempt rejection twice with the same provider handle": on every *)
(* path through from_request and the Drops, whichever calls fail, a        *)
(* request is accepted or rejected only while it waits for its answer.     *)
AnsweredOnce == request # "again"

(* "A CONNREQ must be accepted or rejected before freeing its info", and   *)
(* rejected before its endpoint and the CM identifier in it are closed.    *)
AnsweredInTime ==
  [][/\ (info /\ ~info') => request' \in {"accepted", "rejected"}
     /\ Exists("ep") /\ ~Exists("ep")' => request # "pending"]_vars

(* Every program ends, refused closes and endless EAGAINs included.        *)
Termination == <>(pc = "done")

(* The memory of the slots, seen as loans to the NIC.                      *)
Memory ==
  INSTANCE Loan WITH
    Buffers <- Slots,
    state <- [s \in Slots |->
       IF bytes[s] # "owned" THEN bytes[s]
       ELSE IF wr[Op[s]].mr = Mr[s] THEN "lent"
       ELSE IF mr[Mr[s]].domain # Null THEN "registered" ELSE "owned"]

ImplementsLoan == Memory!Spec
=============================================================================
