----------------------------- MODULE FabricShim -----------------------------
(***************************************************************************)
(* The C shim over libfabric (naive/fabric_shim.c): the graph of handles   *)
(* it gives out, the reference counts that keep a parent open while its    *)
(* children exist, and the bookkeeping of submitted operations.            *)
(*                                                                         *)
(* A caller may make any sequence of calls with handles it still owns, as  *)
(* fabric_shim.h allows ("never use a consumed handle").  All handles      *)
(* belong to one driving thread, so a shim call is one step; the provider  *)
(* runs beside it, and completes work requests between calls.              *)
(*                                                                         *)
(* A call that is refused (EINVAL, EBUSY, EAGAIN, EACCES, ENOMEM, a        *)
(* provider error) and leaves every object as it was is a stuttering step  *)
(* and is not written out; a failed call that does change something is.    *)
(***************************************************************************)
EXTENDS Integers, FiniteSets

CONSTANTS
  Fabrics, Domains, Eqs, Cqs, Listeners, Eps, Mrs, Ops, \* handles of each type
  Capacity,    \* the size given to shim_cq_open
  None         \* the null pointer

Access == {"send", "recv"}

ASSUME HandlesFinite ==
  /\ IsFiniteSet(Domains) /\ IsFiniteSet(Eqs) /\ IsFiniteSet(Cqs)
  /\ IsFiniteSet(Listeners) /\ IsFiniteSet(Eps) /\ IsFiniteSet(Mrs)
  /\ IsFiniteSet(Ops)
ASSUME NoneIsNoHandle ==
  None \notin Fabrics \cup Domains \cup Eqs \cup Cqs \cup Eps \cup Mrs
ASSUME CapacityPositive == Capacity \in Nat \ {0}

(***************************************************************************)
(* The objects of the shim.  A handle with a parent exists exactly while   *)
(* its parent pointer is not None.                                         *)
(***************************************************************************)
VARIABLES
  fabric,      \* [open, children]
  domain,      \* [fabric, children]
  eq,          \* [fabric, users]
  cq,          \* [domain, pending, count, used, attached, retired]
  listener,    \* [fabric, eq, ready]
  ep,          \* [domain, eq, tx, rx, ready, closing]
  mr,          \* [domain, access, pending]
  op           \* [open, cq, mr]

(***************************************************************************)
(* The provider's own view of submitted operations.                        *)
(***************************************************************************)
VARIABLES
  wr,          \* per operation: the work request a native EP still holds
  cqe          \* per operation: the native CQ with an entry naming its context

objects == <<fabric, domain, eq, cq, listener, ep, mr, op>>
provider == <<wr, cqe>>
vars == <<fabric, domain, eq, cq, listener, ep, mr, op, wr, cqe>>

NoFabric == [open |-> FALSE, children |-> 0]
NoDomain == [fabric |-> None, children |-> 0]
NoEq == [fabric |-> None, users |-> 0]
NoCq == [domain |-> None, pending |-> {}, count |-> 0,
         used |-> FALSE, attached |-> FALSE, retired |-> FALSE]
NoListener == [fabric |-> None, eq |-> None, ready |-> FALSE]
NoEp == [domain |-> None, eq |-> None, tx |-> None, rx |-> None,
         ready |-> FALSE, closing |-> FALSE]
NoMr == [domain |-> None, access |-> {}, pending |-> 0]
NoOp == [open |-> FALSE, cq |-> None, mr |-> None]
NoWr == [ep |-> None, cq |-> None, mr |-> None]

Init ==
  /\ fabric = [f \in Fabrics |-> NoFabric]
  /\ domain = [d \in Domains |-> NoDomain]
  /\ eq = [q \in Eqs |-> NoEq]
  /\ cq = [c \in Cqs |-> NoCq]
  /\ listener = [l \in Listeners |-> NoListener]
  /\ ep = [e \in Eps |-> NoEp]
  /\ mr = [m \in Mrs |-> NoMr]
  /\ op = [o \in Ops |-> NoOp]
  /\ wr = [o \in Ops |-> NoWr]
  /\ cqe = [o \in Ops |-> None]

-----------------------------------------------------------------------------
(* Opening and closing the parents.                                        *)

FabricOpen(f) ==
  /\ ~fabric[f].open
  /\ fabric' = [fabric EXCEPT ![f].open = TRUE]
  /\ UNCHANGED <<domain, eq, cq, listener, ep, mr, op, wr, cqe>>

DomainOpen(d, f) ==
  /\ domain[d].fabric = None
  /\ fabric[f].open
  /\ domain' = [domain EXCEPT ![d].fabric = f]
  /\ fabric' = [fabric EXCEPT ![f].children = @ + 1]
  /\ UNCHANGED <<eq, cq, listener, ep, mr, op, wr, cqe>>

EqOpen(q, f) ==
  /\ eq[q].fabric = None
  /\ fabric[f].open
  /\ eq' = [eq EXCEPT ![q].fabric = f]
  /\ fabric' = [fabric EXCEPT ![f].children = @ + 1]
  /\ UNCHANGED <<domain, cq, listener, ep, mr, op, wr, cqe>>

CqOpen(c, d) ==
  /\ cq[c].domain = None
  /\ domain[d].fabric # None
  /\ cq' = [cq EXCEPT ![c].domain = d]
  /\ domain' = [domain EXCEPT ![d].children = @ + 1]
  /\ UNCHANGED <<fabric, eq, listener, ep, mr, op, wr, cqe>>

FabricClose(f) ==
  /\ fabric[f].open
  /\ fabric[f].children = 0
  /\ fabric' = [fabric EXCEPT ![f] = NoFabric]
  /\ UNCHANGED <<domain, eq, cq, listener, ep, mr, op, wr, cqe>>

DomainCloseUnchecked(d) ==      \* mutant: the EBUSY check is missing
  /\ domain[d].fabric # None
  /\ fabric' = [fabric EXCEPT ![domain[d].fabric].children = @ - 1]
  /\ domain' = [domain EXCEPT ![d] = NoDomain]
  /\ UNCHANGED <<eq, cq, listener, ep, mr, op, wr, cqe>>

DomainClose(d) ==
  /\ domain[d].fabric # None
  /\ domain[d].children = 0
  /\ fabric' = [fabric EXCEPT ![domain[d].fabric].children = @ - 1]
  /\ domain' = [domain EXCEPT ![d] = NoDomain]
  /\ UNCHANGED <<eq, cq, listener, ep, mr, op, wr, cqe>>

EqClose(q) ==
  /\ eq[q].fabric # None
  /\ eq[q].users = 0
  /\ fabric' = [fabric EXCEPT ![eq[q].fabric].children = @ - 1]
  /\ eq' = [eq EXCEPT ![q] = NoEq]
  /\ UNCHANGED <<domain, cq, listener, ep, mr, op, wr, cqe>>

-----------------------------------------------------------------------------
(* Passive endpoints.                                                      *)

(* shim_listener_open.  Bind or listen may fail; the rollback close then   *)
(* normally leaves nothing behind (a stuttering step), but when the        *)
(* provider refuses it the caller gets a handle that is not ready.         *)
ListenerOpen(l, f, q, ready) ==
  /\ listener[l].fabric = None
  /\ fabric[f].open
  /\ eq[q].fabric = f
  /\ listener' = [listener EXCEPT ![l] = [fabric |-> f, eq |-> q, ready |-> ready]]
  /\ fabric' = [fabric EXCEPT ![f].children = @ + 1]
  /\ eq' = [eq EXCEPT ![q].users = @ + 1]
  /\ UNCHANGED <<domain, cq, ep, mr, op, wr, cqe>>

ListenerClose(l) ==
  /\ listener[l].fabric # None
  /\ eq' = [eq EXCEPT ![listener[l].eq].users = @ - 1]
  /\ fabric' = [fabric EXCEPT ![listener[l].fabric].children = @ - 1]
  /\ listener' = [listener EXCEPT ![l] = NoListener]
  /\ UNCHANGED <<domain, cq, ep, mr, op, wr, cqe>>

-----------------------------------------------------------------------------
(* Operations: release_op and retire_cq on a set of operations.            *)

(* The MRs after each operation in S has dropped the MR it borrows.        *)
MrsReturned(S) ==
  [m \in Mrs |->
     [mr[m] EXCEPT !.pending = @ - Cardinality({o \in S : op[o].mr = m})]]

(* release_op: the operation no longer belongs to a CQ or borrows an MR.   *)
Released(S) ==
  [o \in Ops |-> IF o \in S THEN [op[o] EXCEPT !.cq = None, !.mr = None]
                            ELSE op[o]]

(* mutant of Unborrowed: retiring also frees the context for reuse         *)
UnborrowedAndReleased(S) == Released(S)

(* retire_cq: the buffers are returned, the contexts stay with the CQ.     *)
Unborrowed(S) ==
  [o \in Ops |-> IF o \in S THEN [op[o] EXCEPT !.mr = None] ELSE op[o]]

RetiredStillAttached(c) == [cq[c] EXCEPT !.retired = TRUE] \* mutant

Retired(c) == [cq[c] EXCEPT !.attached = FALSE, !.retired = TRUE]

-----------------------------------------------------------------------------
(* Active endpoints.                                                       *)

EndpointArgsAnyFabric(e, d, q, t, r) ==   \* mutant: the EQ is not compared
  /\ ep[e].domain = None
  /\ domain[d].fabric # None
  /\ eq[q].fabric # None
  /\ t # r
  /\ cq[t].domain = d /\ cq[r].domain = d
  /\ ~cq[t].used /\ ~cq[r].used

(* The argument check of shim_endpoint_open.                               *)
EndpointArgs(e, d, q, t, r) ==
  /\ ep[e].domain = None
  /\ domain[d].fabric # None
  /\ eq[q].fabric = domain[d].fabric
  /\ t # r
  /\ cq[t].domain = d /\ cq[r].domain = d
  /\ ~cq[t].used /\ ~cq[r].used

(* shim_endpoint_open that leaves an endpoint: ready when every bind and   *)
(* the enable succeeded; not ready and not closing when one failed on      *)
(* request info (the endpoint is kept so that the request can be           *)
(* rejected); not ready and closing when the rollback close was refused.   *)
EndpointOpen(e, d, q, t, r, ready, closing) ==
  /\ EndpointArgs(e, d, q, t, r)
  /\ ~(ready /\ closing)
  /\ ep' = [ep EXCEPT ![e] = [domain |-> d, eq |-> q, tx |-> t, rx |-> r,
                              ready |-> ready, closing |-> closing]]
  /\ domain' = [domain EXCEPT ![d].children = @ + 1]
  /\ eq' = [eq EXCEPT ![q].users = @ + 1]
  /\ cq' = [cq EXCEPT ![t].used = TRUE, ![t].attached = TRUE,
                      ![r].used = TRUE, ![r].attached = TRUE]
  /\ UNCHANGED <<fabric, listener, mr, op, wr, cqe>>

(* A bind or enable failed and the rollback close succeeded: no endpoint,  *)
(* but the two CQs are spent, for a CQ serves one endpoint in its life.    *)
EndpointOpenRolledBack(e, d, q, t, r) ==
  /\ EndpointArgs(e, d, q, t, r)
  /\ cq' = [cq EXCEPT ![t].used = TRUE, ![t].retired = TRUE,
                      ![r].used = TRUE, ![r].retired = TRUE]
  /\ UNCHANGED <<fabric, domain, eq, listener, ep, mr, op, wr, cqe>>

Shutdown(e) ==
  /\ ep[e].domain # None
  /\ ep[e].ready
  /\ ep' = [ep EXCEPT ![e].closing = TRUE]
  /\ UNCHANGED <<fabric, domain, eq, cq, listener, mr, op, wr, cqe>>

(* The provider refuses to close: only the closing mark remains.           *)
EndpointCloseRefused(e) ==
  /\ ep[e].domain # None
  /\ ep' = [ep EXCEPT ![e].closing = TRUE]
  /\ UNCHANGED <<fabric, domain, eq, cq, listener, mr, op, wr, cqe>>

WorkOf(e) == {o \in Ops : wr[o].ep = e}

(* The provider drops the work requests of a closed EP.  An unfinished one *)
(* may leave an entry in its CQ ("a CQ can still reference an unfinished   *)
(* op after endpoint close"): stale is the set of those that do.           *)
ProviderCloseEp(e, stale) ==
  /\ stale \subseteq WorkOf(e)
  /\ wr' = [o \in Ops |-> IF o \in WorkOf(e) THEN NoWr ELSE wr[o]]
  /\ cqe' = [o \in Ops |-> IF o \in stale THEN wr[o].cq ELSE cqe[o]]

EndpointCloseKeepsEq(e, stale) ==    \* mutant: eq->users-- is forgotten
  LET t == ep[e].tx
      r == ep[e].rx
      S == cq[t].pending \cup cq[r].pending
  IN /\ ep[e].domain # None
     /\ ProviderCloseEp(e, stale)
     /\ cq' = [cq EXCEPT ![t] = Retired(t), ![r] = Retired(r)]
     /\ mr' = MrsReturned(S)
     /\ op' = Unborrowed(S)
     /\ domain' = [domain EXCEPT ![ep[e].domain].children = @ - 1]
     /\ ep' = [ep EXCEPT ![e] = NoEp]
     /\ UNCHANGED <<fabric, eq, listener>>

EndpointClose(e, stale) ==
  LET t == ep[e].tx
      r == ep[e].rx
      S == cq[t].pending \cup cq[r].pending
  IN /\ ep[e].domain # None
     /\ ProviderCloseEp(e, stale)
     /\ cq' = [cq EXCEPT ![t] = Retired(t), ![r] = Retired(r)]
     /\ mr' = MrsReturned(S)
     /\ op' = Unborrowed(S)
     /\ eq' = [eq EXCEPT ![ep[e].eq].users = @ - 1]
     /\ domain' = [domain EXCEPT ![ep[e].domain].children = @ - 1]
     /\ ep' = [ep EXCEPT ![e] = NoEp]
     /\ UNCHANGED <<fabric, listener>>

-----------------------------------------------------------------------------
(* Memory regions and operations.                                          *)

MrRegister(m, d, access) ==
  /\ mr[m].domain = None
  /\ domain[d].fabric # None
  /\ mr' = [mr EXCEPT ![m] = [domain |-> d, access |-> access, pending |-> 0]]
  /\ domain' = [domain EXCEPT ![d].children = @ + 1]
  /\ UNCHANGED <<fabric, eq, cq, listener, ep, op, wr, cqe>>

MrCloseUnchecked(m) ==               \* mutant: the EBUSY check is missing
  /\ mr[m].domain # None
  /\ domain' = [domain EXCEPT ![mr[m].domain].children = @ - 1]
  /\ mr' = [mr EXCEPT ![m] = NoMr]
  /\ UNCHANGED <<fabric, eq, cq, listener, ep, op, wr, cqe>>

MrClose(m) ==
  /\ mr[m].domain # None
  /\ mr[m].pending = 0
  /\ domain' = [domain EXCEPT ![mr[m].domain].children = @ - 1]
  /\ mr' = [mr EXCEPT ![m] = NoMr]
  /\ UNCHANGED <<fabric, eq, cq, listener, ep, op, wr, cqe>>

OpCreate(o) ==
  /\ ~op[o].open
  /\ op' = [op EXCEPT ![o].open = TRUE]
  /\ UNCHANGED <<fabric, domain, eq, cq, listener, ep, mr, wr, cqe>>

OpFree(o) ==
  /\ op[o].open
  /\ op[o].cq = None
  /\ op' = [op EXCEPT ![o] = NoOp]
  /\ UNCHANGED <<fabric, domain, eq, cq, listener, ep, mr, wr, cqe>>

(* The CQ that reports an operation of the given direction.                *)
ReportsTo(e, dir) == IF dir = "recv" THEN ep[e].rx ELSE ep[e].tx

PostArgsAnyDomain(e, o, m, dir) ==        \* mutant: the domains are not compared
  /\ ep[e].domain # None /\ op[o].open /\ mr[m].domain # None
  /\ ep[e].ready /\ ~ep[e].closing
  /\ dir \in mr[m].access

(* What post_message refuses before it asks the provider; the range check  *)
(* of the buffer is arithmetic on addresses and is not part of this module.*)
PostArgs(e, o, m, dir) ==
  /\ ep[e].domain # None /\ op[o].open /\ mr[m].domain # None
  /\ ep[e].ready /\ ~ep[e].closing
  /\ mr[m].domain = ep[e].domain
  /\ dir \in mr[m].access

RoomOffByOne(c) == cq[c].count <= Capacity   \* mutant

Room(c) == cq[c].count < Capacity

BusyUnchecked(o) == FALSE                    \* mutant

Busy(o) == op[o].cq # None

(* post_message when fi_send or fi_recv accepts the request.               *)
Post(e, o, m, dir) ==
  LET c == ReportsTo(e, dir)
  IN /\ PostArgs(e, o, m, dir)
     /\ ~Busy(o)
     /\ Room(c)
     /\ op' = [op EXCEPT ![o].mr = m, ![o].cq = c]
     /\ cq' = [cq EXCEPT ![c].pending = @ \cup {o}, ![c].count = @ + 1]
     /\ mr' = [mr EXCEPT ![m].pending = @ + 1]
     /\ wr' = [wr EXCEPT ![o] = [ep |-> e, cq |-> c, mr |-> m]]
     /\ UNCHANGED <<fabric, domain, eq, listener, ep, cqe>>

(* The provider finishes a request, well or badly, and queues its context. *)
Complete(o) ==
  /\ wr[o] # NoWr
  /\ cqe' = [cqe EXCEPT ![o] = wr[o].cq]
  /\ wr' = [wr EXCEPT ![o] = NoWr]
  /\ UNCHANGED objects

CqPollDoubleReturn(c, o) ==   \* mutant: the MR count is dropped twice
  /\ cq[c].domain # None
  /\ ~cq[c].retired
  /\ cqe[o] = c
  /\ cqe' = [cqe EXCEPT ![o] = None]
  /\ IF o \in cq[c].pending
     THEN /\ cq' = [cq EXCEPT ![c].pending = @ \ {o}, ![c].count = @ - 1]
          /\ mr' = [m \in Mrs |-> [mr[m] EXCEPT !.pending =
                       @ - IF op[o].mr = m THEN 2 ELSE 0]]
          /\ op' = Released({o})
     ELSE UNCHANGED <<cq, mr, op>>
  /\ UNCHANGED <<fabric, domain, eq, listener, ep, wr>>

(* shim_cq_poll that takes an entry, successful or not.  A context that is *)
(* not on the pending list is reported as EIO and changes no object.       *)
CqPoll(c, o) ==
  /\ cq[c].domain # None
  /\ ~cq[c].retired
  /\ cqe[o] = c
  /\ cqe' = [cqe EXCEPT ![o] = None]
  /\ IF o \in cq[c].pending
     THEN /\ cq' = [cq EXCEPT ![c].pending = @ \ {o}, ![c].count = @ - 1]
          /\ mr' = MrsReturned({o})
          /\ op' = Released({o})
     ELSE UNCHANGED <<cq, mr, op>>
  /\ UNCHANGED <<fabric, domain, eq, listener, ep, wr>>

CqClose(c) ==
  /\ cq[c].domain # None
  /\ ~cq[c].attached
  /\ mr' = MrsReturned(cq[c].pending)
  /\ op' = Released(cq[c].pending)
  /\ domain' = [domain EXCEPT ![cq[c].domain].children = @ - 1]
  /\ cq' = [cq EXCEPT ![c] = NoCq]
  /\ cqe' = [o \in Ops |-> IF cqe[o] = c THEN None ELSE cqe[o]]
  /\ UNCHANGED <<fabric, eq, listener, ep, wr>>

-----------------------------------------------------------------------------
Setup ==
  \/ \E f \in Fabrics : FabricOpen(f)
  \/ \E d \in Domains, f \in Fabrics : DomainOpen(d, f)
  \/ \E q \in Eqs, f \in Fabrics : EqOpen(q, f)
  \/ \E c \in Cqs, d \in Domains : CqOpen(c, d)
  \/ \E l \in Listeners, f \in Fabrics, q \in Eqs, ready \in BOOLEAN :
        ListenerOpen(l, f, q, ready)
  \/ \E e \in Eps, d \in Domains, q \in Eqs, t, r \in Cqs :
        \/ EndpointOpenRolledBack(e, d, q, t, r)
        \/ \E ready, closing \in BOOLEAN :
              EndpointOpen(e, d, q, t, r, ready, closing)
  \/ \E m \in Mrs, d \in Domains, access \in (SUBSET Access) \ {{}} :
        MrRegister(m, d, access)
  \/ \E o \in Ops : OpCreate(o)

Transfer ==
  \/ \E e \in Eps, o \in Ops, m \in Mrs, dir \in Access : Post(e, o, m, dir)
  \/ \E c \in Cqs, o \in Ops : CqPoll(c, o)
  \/ \E o \in Ops : Complete(o)

Teardown ==
  \/ \E e \in Eps : Shutdown(e) \/ EndpointCloseRefused(e)
  \/ \E e \in Eps, stale \in SUBSET Ops : EndpointClose(e, stale)
  \/ \E l \in Listeners : ListenerClose(l)
  \/ \E m \in Mrs : MrClose(m)
  \/ \E o \in Ops : OpFree(o)
  \/ \E c \in Cqs : CqClose(c)
  \/ \E q \in Eqs : EqClose(q)
  \/ \E d \in Domains : DomainClose(d)
  \/ \E f \in Fabrics : FabricClose(f)

Next == Setup \/ Transfer \/ Teardown

Spec == Init /\ [][Next]_vars

-----------------------------------------------------------------------------
(* Properties.                                                             *)

FabricObject == [open : BOOLEAN, children : Nat]
DomainObject == [fabric : Fabrics \cup {None}, children : Nat]
EqObject == [fabric : Fabrics \cup {None}, users : Nat]
CqObject == [domain : Domains \cup {None}, pending : SUBSET Ops, count : Nat,
             used : BOOLEAN, attached : BOOLEAN, retired : BOOLEAN]
ListenerObject == [fabric : Fabrics \cup {None}, eq : Eqs \cup {None},
                   ready : BOOLEAN]
EpObject == [domain : Domains \cup {None}, eq : Eqs \cup {None},
             tx : Cqs \cup {None}, rx : Cqs \cup {None},
             ready : BOOLEAN, closing : BOOLEAN]
MrObject == [domain : Domains \cup {None}, access : SUBSET Access, pending : Nat]
OpObject == [open : BOOLEAN, cq : Cqs \cup {None}, mr : Mrs \cup {None}]
WorkRequest == [ep : Eps \cup {None}, cq : Cqs \cup {None}, mr : Mrs \cup {None}]

(* Every counter stays a natural number and every pointer names a handle   *)
(* of the right type: no decrement of a size_t in the shim wraps around.   *)
TypeOK ==
  /\ fabric \in [Fabrics -> FabricObject]
  /\ domain \in [Domains -> DomainObject]
  /\ eq \in [Eqs -> EqObject]
  /\ cq \in [Cqs -> CqObject]
  /\ listener \in [Listeners -> ListenerObject]
  /\ ep \in [Eps -> EpObject]
  /\ mr \in [Mrs -> MrObject]
  /\ op \in [Ops -> OpObject]
  /\ wr \in [Ops -> WorkRequest]
  /\ cqe \in [Ops -> Cqs \cup {None}]

DomainsOf(f) == {d \in Domains : domain[d].fabric = f}
EqsOf(f) == {q \in Eqs : eq[q].fabric = f}
ListenersOf(f) == {l \in Listeners : listener[l].fabric = f}
CqsOf(d) == {c \in Cqs : cq[c].domain = d}
EpsOf(d) == {e \in Eps : ep[e].domain = d}
MrsOf(d) == {m \in Mrs : mr[m].domain = d}
ListenersOn(q) == {l \in Listeners : listener[l].eq = q}
EpsOn(q) == {e \in Eps : ep[e].eq = q}
Borrowers(m) == {o \in Ops : op[o].mr = m}
OpsOn(c) == {o \in Ops : op[o].cq = c}

FabricChildrenExact ==
  \A f \in Fabrics : fabric[f].children =
    Cardinality(DomainsOf(f)) + Cardinality(EqsOf(f)) + Cardinality(ListenersOf(f))
DomainChildrenExact ==
  \A d \in Domains : domain[d].children =
    Cardinality(CqsOf(d)) + Cardinality(EpsOf(d)) + Cardinality(MrsOf(d))
EqUsersExact ==
  \A q \in Eqs : eq[q].users =
    Cardinality(ListenersOn(q)) + Cardinality(EpsOn(q))
MrPendingExact == \A m \in Mrs : mr[m].pending = Cardinality(Borrowers(m))
CqCountExact == \A c \in Cqs : cq[c].count = Cardinality(OpsOn(c))

(* Each reference count is the number of handles that refer to the object, *)
(* through every open, failed open, close, refused close, post, poll and   *)
(* retirement.  Too low and a parent is closed under its children; too     *)
(* high and it can never be closed.                                        *)
CountersExact ==
  /\ FabricChildrenExact
  /\ DomainChildrenExact
  /\ EqUsersExact
  /\ MrPendingExact
  /\ CqCountExact

(* No object outlives what it was opened on: every pointer of a live       *)
(* object leads to a live object, up to the fabric.                        *)
ParentsOutlive ==
  /\ \A d \in Domains : domain[d].fabric # None => fabric[domain[d].fabric].open
  /\ \A q \in Eqs : eq[q].fabric # None => fabric[eq[q].fabric].open
  /\ \A c \in Cqs : cq[c].domain # None => domain[cq[c].domain].fabric # None
  /\ \A m \in Mrs : mr[m].domain # None => domain[mr[m].domain].fabric # None
  /\ \A l \in Listeners : listener[l].fabric # None =>
        /\ fabric[listener[l].fabric].open
        /\ eq[listener[l].eq].fabric = listener[l].fabric
  /\ \A e \in Eps : ep[e].domain # None =>
        /\ domain[ep[e].domain].fabric # None
        /\ eq[ep[e].eq].fabric = domain[ep[e].domain].fabric
        /\ \A c \in {ep[e].tx, ep[e].rx} :
              cq[c].domain = ep[e].domain /\ cq[c].attached /\ ~cq[c].retired

(* While the provider may still read or write a buffer, its MR is          *)
(* registered in the endpoint's domain and cannot be closed: the shim's    *)
(* record of who borrows what agrees with what the provider was handed.    *)
BorrowsPinned ==
  \A o \in Ops : wr[o].ep # None =>
    /\ ep[wr[o].ep].domain # None
    /\ mr[wr[o].mr].domain = ep[wr[o].ep].domain
    /\ mr[wr[o].mr].pending > 0
    /\ op[o].mr = wr[o].mr

(* The context of an operation is not freed, and the operation not reused, *)
(* while a work request or a CQ entry names it, entries left behind by a   *)
(* closed endpoint included; and every entry names a context that is still *)
(* on the pending list of its CQ, so that no poll answers EIO.             *)
ContextsPinned ==
  \A o \in Ops : \A c \in Cqs :
    c \in {wr[o].cq, cqe[o]} =>
      /\ op[o].open
      /\ op[o].cq = c
      /\ o \in cq[c].pending
      /\ cq[c].domain # None

(* A native CQ never has to hold more entries than it was opened for, even *)
(* if every request in flight completes before the next poll.              *)
CqNeverOverruns ==
  \A c \in Cqs :
    Cardinality({o \in Ops : c \in {wr[o].cq, cqe[o]}}) <= Capacity

(* README "typical cleanup order": endpoint, CQs, contexts, MRs, passive   *)
(* endpoint, EQ, domain, fabric.  Followed in that order, the shim refuses *)
(* no close with EBUSY, whatever happened before, failed opens included.   *)
CleanupOrder ==
  LET noEp == \A e \in Eps : ep[e].domain = None
      noCq == \A c \in Cqs : cq[c].domain = None
      noMr == \A m \in Mrs : mr[m].domain = None
      noListener == \A l \in Listeners : listener[l].fabric = None
      noEq == \A q \in Eqs : eq[q].fabric = None
      noDomain == \A d \in Domains : domain[d].fabric = None
  IN /\ noEp => \A c \in Cqs : ~cq[c].attached
     /\ noEp => \A m \in Mrs : mr[m].pending = 0
     /\ noCq => \A o \in Ops : op[o].cq = None
     /\ noEp /\ noListener => \A q \in Eqs : eq[q].users = 0
     /\ noEp /\ noCq /\ noMr => \A d \in Domains : domain[d].children = 0
     /\ noListener /\ noEq /\ noDomain =>
           \A f \in Fabrics : fabric[f].children = 0

(* A request the provider holds is not submitted a second time: until its  *)
(* completion it keeps the endpoint, the CQ and the MR it was posted with. *)
InFlightStable ==
  [][\A o \in Ops : wr[o].ep # None /\ wr'[o].ep # None =>
        UNCHANGED <<wr[o], op[o]>>]_vars

-----------------------------------------------------------------------------
(* The inductive invariant of the proofs: the properties above follow from *)
(* the exact counters together with the facts below.                       *)

Uses(e, c) == ep[e].domain # None /\ c \in {ep[e].tx, ep[e].rx}

(* An endpoint or a listener has all of its pointers or none; an endpoint  *)
(* has two CQs, both spent, and shares neither.                            *)
PointersTogether ==
  /\ \A l \in Listeners : listener[l].fabric = None <=> listener[l].eq = None
  /\ \A e \in Eps :
        /\ ep[e].domain = None <=> ep[e].eq = None
        /\ ep[e].domain = None <=> ep[e].tx = None
        /\ ep[e].domain = None <=> ep[e].rx = None
        /\ ep[e].domain # None => ep[e].tx # ep[e].rx

CqsSpent ==
  /\ \A c \in Cqs : cq[c].retired => cq[c].used
  /\ \A c \in Cqs : cq[c].attached => \E e \in Eps : Uses(e, c)
  /\ \A e \in Eps : \A c \in Cqs : Uses(e, c) => cq[c].used
  /\ \A e1, e2 \in Eps : \A c \in Cqs : Uses(e1, c) /\ Uses(e2, c) => e1 = e2

(* The pending list of a CQ and the cq pointers of the operations agree,   *)
(* and only an operation on an attached CQ borrows an MR.                  *)
OpsLinked ==
  /\ \A c \in Cqs : cq[c].pending = OpsOn(c)
  /\ \A c \in Cqs : cq[c].count <= Capacity
  /\ \A o \in Ops : op[o].cq # None => op[o].open /\ cq[op[o].cq].domain # None
  /\ \A o \in Ops : op[o].mr # None =>
        /\ op[o].cq # None
        /\ cq[op[o].cq].attached
        /\ mr[op[o].mr].domain # None

(* What the provider holds is what the shim believes it handed over.       *)
WorkLinked ==
  /\ \A o \in Ops : wr[o] # NoWr =>
        /\ wr[o].ep # None /\ wr[o].cq # None /\ wr[o].mr # None
        /\ Uses(wr[o].ep, wr[o].cq)
        /\ op[o].cq = wr[o].cq /\ op[o].mr = wr[o].mr
        /\ mr[wr[o].mr].domain = ep[wr[o].ep].domain
        /\ cqe[o] = None
  /\ \A o \in Ops : cqe[o] # None => op[o].cq = cqe[o]

IInv ==
  /\ TypeOK
  /\ CountersExact
  /\ ParentsOutlive
  /\ PointersTogether
  /\ CqsSpent
  /\ OpsLinked
  /\ WorkLinked
=============================================================================
