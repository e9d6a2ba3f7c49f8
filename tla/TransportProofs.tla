--------------------------- MODULE TransportProofs ---------------------------
(***************************************************************************)
(* Proofs about Transport.  First that the program uses the shim as        *)
(* FabricShim allows, so that everything FabricShimProofs proves holds of  *)
(* the composition; then, with that, an inductive invariant over the       *)
(* places of the program, from which its properties follow.                *)
(*                                                                         *)
(* Transport and FabricShimProofs each hold an instance of the shim: Shim  *)
(* is the one the program's actions name, ShimP the one with the theorems. *)
(* The first lemmas carry a step of the one over to the other.             *)
(***************************************************************************)
EXTENDS Transport, FiniteSetTheorems, TLAPS

ShimP == INSTANCE FabricShimProofs WITH
  Fabrics <- {"fabric"}, Domains <- {"domain"}, Eqs <- {"listener_eq", "eq"},
  Cqs <- {"tx_cq", "rx_cq"}, Listeners <- {"listener"}, Eps <- {"ep"},
  Mrs <- {"tx_mr", "rx_mr"}, Ops <- {"tx_op", "rx_op"}, None <- Null

(* A set of at most two handles is finite.                                 *)
LEMMA PairFinite == ASSUME NEW a, NEW b PROVE IsFiniteSet({a, b})
<1>1. IsFiniteSet({a}) /\ {a, b} = {a} \cup {b}
  BY FS_Singleton
<1> QED
  BY <1>1, FS_AddElement

(* The assumptions of FabricShim, for the handles of one program.          *)
LEMMA ShimAssumptions ==
  /\ /\ IsFiniteSet({"domain"}) /\ IsFiniteSet({"listener_eq", "eq"})
     /\ IsFiniteSet({"tx_cq", "rx_cq"}) /\ IsFiniteSet({"listener"})
     /\ IsFiniteSet({"ep"}) /\ IsFiniteSet({"tx_mr", "rx_mr"})
     /\ IsFiniteSet({"tx_op", "rx_op"})
  /\ Null \notin {"fabric"} \cup {"domain"} \cup {"listener_eq", "eq"}
              \cup {"tx_cq", "rx_cq"} \cup {"ep"} \cup {"tx_mr", "rx_mr"}
  /\ Capacity \in Nat \ {0}
<1>1. \A a : IsFiniteSet({a})
  BY FS_Singleton
<1>2. \A a, b : IsFiniteSet({a, b})
  BY PairFinite
<1>3. Null \notin {"fabric"} \cup {"domain"} \cup {"listener_eq", "eq"}
              \cup {"tx_cq", "rx_cq"} \cup {"ep"} \cup {"tx_mr", "rx_mr"}
  BY DEF Null
<1> QED
  BY <1>1, <1>2, <1>3, CapacityPositive

(* Finiteness is the same in both instances.                               *)
LEMMA SameFinite == \A S : ShimP!IsFiniteSet(S) <=> IsFiniteSet(S)
  BY DEF ShimP!IsFiniteSet, IsFiniteSet

(* Cardinality is the same in both instances.                              *)
LEMMA SameCardinality == \A S : ShimP!Cardinality(S) = Cardinality(S)
  BY DEF ShimP!Cardinality, Cardinality

(* So is what the shim makes of the MRs of operations it takes back.       *)
LEMMA SameReturned == \A S : Shim!MrsReturned(S) = ShimP!MrsReturned(S)
  BY DEF ShimP!Cardinality, Shim!Cardinality, Shim!MrsReturned,
     ShimP!MrsReturned

(* Each call the program makes of the shim is a step FabricShim allows:    *)
(* opens, opens that fail, posts, polls, completions, closes, shutdown.    *)
LEMMA OpenIsShim ==
  ASSUME NEW h \in Handles, ShimOpen(h)
  PROVE  ShimP!Setup
<1>1. CASE h = "fabric"
  BY <1>1 DEF ShimOpen, ShimP!Setup, Shim!FabricOpen, ShimP!FabricOpen
<1>2. CASE h = "domain"
  BY <1>2 DEF ShimOpen, ShimP!Setup, Shim!DomainOpen, ShimP!DomainOpen
<1>3. CASE h \in {"listener_eq", "eq"}
  BY <1>3 DEF ShimOpen, ShimP!Setup, Shim!EqOpen, ShimP!EqOpen
<1>4. CASE h \in {"tx_cq", "rx_cq"}
  BY <1>4 DEF ShimOpen, ShimP!Setup, Shim!CqOpen, ShimP!CqOpen
<1>5. CASE h = "listener"
  BY <1>5 DEF ShimOpen, ShimP!Setup, Shim!ListenerOpen, ShimP!ListenerOpen
<1>6. CASE h = "ep"
  BY <1>6 DEF ShimOpen, ShimP!Setup, Shim!EndpointOpen, ShimP!EndpointOpen,
       Shim!EndpointArgs, ShimP!EndpointArgs
<1>7. CASE h \in {"tx_mr", "rx_mr"}
  BY <1>7 DEF ShimOpen, ShimP!Setup, Shim!MrRegister, ShimP!MrRegister,
     ShimP!Access
<1>8. CASE h \in {"tx_op", "rx_op"}
  BY <1>8 DEF ShimOpen, ShimP!Setup, Shim!OpCreate, ShimP!OpCreate
<1> QED
  BY <1>1, <1>2, <1>3, <1>4, <1>5, <1>6, <1>7, <1>8 DEF ShimOpen

(* A failed open is a step of the shim, or none.                           *)
LEMMA FailedOpenIsShim ==
  ASSUME NEW h \in Handles, ShimHalfOpen(h) \/ ShimOpenFails(h)
  PROVE  ShimP!Setup \/ UNCHANGED shim
<1>1. CASE h = "listener" /\ ShimHalfOpen(h)
  BY <1>1 DEF ShimHalfOpen, ShimP!Setup, Shim!ListenerOpen, ShimP!ListenerOpen
<1>2. CASE h = "ep" /\ ShimHalfOpen(h)
  BY <1>2 DEF ShimHalfOpen, ShimP!Setup, Shim!EndpointOpen, ShimP!EndpointOpen,
       Shim!EndpointArgs, ShimP!EndpointArgs
<1>3. CASE ShimOpenFails(h)
  BY <1>3 DEF ShimOpenFails, ShimP!Setup, Shim!EndpointOpenRolledBack,
       ShimP!EndpointOpenRolledBack, Shim!EndpointArgs, ShimP!EndpointArgs
<1> QED
  BY <1>1, <1>2, <1>3 DEF ShimHalfOpen

(* A post is a step of the shim.                                           *)
LEMMA PostIsShim ==
  ASSUME NEW s \in Slots, Shim!Post("ep", Op[s], Mr[s], Dir[s])
  PROVE  ShimP!Transfer
<1>1. Op[s] \in {"tx_op", "rx_op"} /\ Mr[s] \in {"tx_mr", "rx_mr"} /\ Dir[s] \in ShimP!Access
  BY DEF Slots, Op, Mr, Dir, ShimP!Access
<1>2. ShimP!Post("ep", Op[s], Mr[s], Dir[s])
  BY DEF Shim!Post, ShimP!Post, Shim!PostArgs, ShimP!PostArgs, Shim!Busy,
         ShimP!Busy, Shim!Room, ShimP!Room, Shim!ReportsTo, ShimP!ReportsTo
<1> QED
  BY <1>1, <1>2 DEF ShimP!Transfer

(* A poll is a step of the shim.                                           *)
LEMMA PollIsShim ==
  ASSUME NEW s \in Slots, Shim!CqPoll(Cq[s], Op[s])
  PROVE  ShimP!Transfer
<1>1. Op[s] \in {"tx_op", "rx_op"} /\ Cq[s] \in {"tx_cq", "rx_cq"}
  BY DEF Slots, Op, Cq
<1>2. ShimP!CqPoll(Cq[s], Op[s])
  BY SameReturned DEF Shim!CqPoll, ShimP!CqPoll, Shim!Released, ShimP!Released
<1> QED
  BY <1>1, <1>2 DEF ShimP!Transfer

(* A completion is a step of the shim.                                     *)
LEMMA CompleteIsShim ==
  ASSUME NEW o \in {"tx_op", "rx_op"}, Shim!Complete(o)
  PROVE  ShimP!Transfer
  BY DEF ShimP!Transfer, Shim!Complete, ShimP!Complete, Shim!NoWr, ShimP!NoWr,
         Shim!objects, ShimP!objects

(* A close is a step of the shim.                                          *)
LEMMA CloseIsShim ==
  ASSUME NEW h \in Handles, ShimClose(h)
  PROVE  ShimP!Teardown
<1>1. CASE h = "ep"
  <2>1. PICK stale \in SUBSET {"tx_op", "rx_op"} : Shim!EndpointClose("ep", stale)
    BY <1>1 DEF ShimClose
  <2>2. ShimP!EndpointClose("ep", stale)
    BY <2>1, SameReturned
    DEF Shim!EndpointClose, ShimP!EndpointClose, Shim!ProviderCloseEp,
        ShimP!ProviderCloseEp, Shim!WorkOf, ShimP!WorkOf, Shim!NoWr, ShimP!NoWr,
        Shim!Retired, ShimP!Retired, Shim!Unborrowed, ShimP!Unborrowed,
        Shim!NoEp, ShimP!NoEp
  <2> QED
    BY <2>2 DEF ShimP!Teardown
<1>2. CASE h \in {"tx_cq", "rx_cq"}
  <2>1. ShimP!CqClose(h)
    BY <1>2, SameReturned DEF ShimClose, Shim!CqClose, ShimP!CqClose,
        Shim!Released, ShimP!Released, Shim!NoCq, ShimP!NoCq
  <2> QED
    BY <1>2, <2>1 DEF ShimP!Teardown
<1>3. CASE h \in {"tx_op", "rx_op"}
  BY <1>3 DEF ShimClose, Shim!OpFree, ShimP!OpFree, Shim!NoOp, ShimP!NoOp,
     ShimP!Teardown
<1>4. CASE h \in {"tx_mr", "rx_mr"}
  BY <1>4 DEF ShimClose, Shim!MrClose, ShimP!MrClose, Shim!NoMr, ShimP!NoMr,
     ShimP!Teardown
<1>5. CASE h \in {"eq", "listener_eq"}
  BY <1>5 DEF ShimClose, Shim!EqClose, ShimP!EqClose, Shim!NoEq, ShimP!NoEq,
     ShimP!Teardown
<1>6. CASE h = "domain"
  BY <1>6 DEF ShimClose, Shim!DomainClose, ShimP!DomainClose, Shim!NoDomain,
     ShimP!NoDomain, ShimP!Teardown
<1>7. CASE h = "listener"
  BY <1>7 DEF ShimClose, Shim!ListenerClose, ShimP!ListenerClose,
     Shim!NoListener, ShimP!NoListener, ShimP!Teardown
<1>8. CASE h = "fabric"
  BY <1>8 DEF ShimClose, Shim!FabricClose, ShimP!FabricClose, Shim!NoFabric,
     ShimP!NoFabric, ShimP!Teardown
<1> QED
  BY <1>1, <1>2, <1>3, <1>4, <1>5, <1>6, <1>7, <1>8 DEF ShimClose

(* Shutdown and a refused close of the endpoint are steps of the shim.     *)
LEMMA ShutdownIsShim ==
  ASSUME Shim!Shutdown("ep") \/ Shim!EndpointCloseRefused("ep")
  PROVE  ShimP!Teardown
  BY DEF Shim!Shutdown, Shim!EndpointCloseRefused, ShimP!Shutdown,
         ShimP!EndpointCloseRefused, ShimP!Teardown

(* Every run of the program is a run of the shim: no call of it, in any    *)
(* order of failures, leaves what FabricShim specifies.                    *)
THEOREM UsesShim == Spec => ShimP!Spec
<1>1. Init => ShimP!Init
  BY DEF Init, Shim!Init, ShimP!Init, Shim!NoFabric, Shim!NoDomain, Shim!NoEq,
     Shim!NoCq, Shim!NoListener, Shim!NoEp, Shim!NoMr, Shim!NoOp, Shim!NoWr,
     ShimP!NoFabric, ShimP!NoDomain, ShimP!NoEq, ShimP!NoCq, ShimP!NoListener,
     ShimP!NoEp, ShimP!NoMr, ShimP!NoOp, ShimP!NoWr
<1>2. ASSUME [Next]_vars PROVE [ShimP!Next]_(ShimP!vars)
  <2> SUFFICES ASSUME Next PROVE ShimP!Next \/ UNCHANGED shim
    BY <1>2 DEF vars, shim, ShimP!vars
  <2> USE DEF ShimP!Next
  <2>1. CASE Open
    BY <2>1, OpenIsShim DEF Open
  <2>2. CASE SetupFails
    <3>1. CASE pc \in Handles
      BY <2>2, <3>1, FailedOpenIsShim DEF SetupFails
    <3>2. CASE pc \in {"wait", "post", "start"}
      BY <2>2, <3>2 DEF SetupFails, ShimHalfOpen, ShimOpenFails
    <3> QED
      BY <2>2, <3>1, <3>2 DEF SetupFails
  <2>3. CASE FirstReceive
    BY <2>3, PostIsShim DEF FirstReceive, Submit, Slots
  <2>4. ASSUME NEW s \in Slots, Use(s) PROVE ShimP!Next
    BY <2>4, PostIsShim DEF Use, Submit
  <2>5. ASSUME NEW s \in Slots, Poll(s) PROVE ShimP!Next \/ UNCHANGED shim
    BY <2>5, PollIsShim DEF Poll
  <2>6. CASE ShutDown
    BY <2>6, ShutdownIsShim DEF ShutDown
  <2>7. ASSUME NEW h \in Handles, CloseHandle(h) PROVE ShimP!Next
    BY <2>7, CloseIsShim DEF CloseHandle
  <2>8. ASSUME NEW h \in Handles, CloseFails(h) PROVE ShimP!Next \/ UNCHANGED shim
    BY <2>8, ShutdownIsShim DEF CloseFails
  <2>9. ASSUME NEW o \in {"tx_op", "rx_op"}, Complete(o) PROVE ShimP!Next
    BY <2>9, CompleteIsShim DEF Complete
  <2>10. ASSUME NEW s \in Slots, FreeSlot(s) PROVE UNCHANGED shim
    BY <2>10 DEF FreeSlot
  <2>11. ASSUME NEW error \in BOOLEAN, Finish(error) PROVE UNCHANGED shim
    BY <2>11 DEF Finish
  <2>12. CASE Empty \/ TakeRequest \/ StartCm \/ PollEq \/ NextRound \/ Reject
              \/ DropRequest \/ Closed
    BY <2>12 DEF Empty, TakeRequest, StartCm, PollEq, NextRound, Reject,
       DropRequest, Closed
  <2> QED
    BY <2>1, <2>2, <2>3, <2>4, <2>5, <2>6, <2>7, <2>8, <2>9, <2>10, <2>11, <2>12
    DEF Next, Step
<1> QED
  BY <1>1, <1>2, PTL DEF Spec, ShimP!Spec

-----------------------------------------------------------------------------
(* The objects that exist, and the slots whose operation is not submitted. *)
Existing == {h \in Handles : Exists(h)}
IdleSlots == {s \in Slots : op[Op[s]].cq = Null /\ wr[Op[s]].ep = Null}

(* What each call does to the existing objects: an open adds its own, a    *)
(* close removes its own, and nothing else adds or removes any.            *)
LEMMA FabricOpenEffect ==
  ASSUME ShimP!TypeOK, Shim!FabricOpen("fabric")
  PROVE  "fabric" \notin Existing /\ Existing' = Existing \cup {"fabric"}
<1>1. /\ ~(fabric["fabric"].open)
      /\ fabric'["fabric"].open
  BY DEF Shim!FabricOpen, ShimP!TypeOK, ShimP!FabricObject, Null
<1>2. UNCHANGED <<domain, eq, cq, listener, ep, mr, op>>
  BY DEF Shim!FabricOpen
<1>3. \A g \in Handles : Exists(g)' <=> Exists(g) \/ g = "fabric"
  BY <1>1, <1>2 DEF Exists
<1>4. ~Exists("fabric") /\ "fabric" \in Handles
  BY <1>1 DEF Handles, Exists
<1> QED
  BY <1>3, <1>4 DEF Existing

(* An open of the domain adds that object.                                 *)
LEMMA DomainOpenEffect ==
  ASSUME ShimP!TypeOK, Shim!DomainOpen("domain", "fabric")
  PROVE  "domain" \notin Existing /\ Existing' = Existing \cup {"domain"}
<1>1. /\ ~(domain["domain"].fabric # Null)
      /\ domain'["domain"].fabric # Null
      /\ fabric'["fabric"].open = fabric["fabric"].open
  BY DEF Shim!DomainOpen, ShimP!TypeOK, ShimP!DomainObject, ShimP!FabricObject,
     Null
<1>2. UNCHANGED <<eq, cq, listener, ep, mr, op>>
  BY DEF Shim!DomainOpen
<1>3. \A g \in Handles : Exists(g)' <=> Exists(g) \/ g = "domain"
  BY <1>1, <1>2 DEF Exists
<1>4. ~Exists("domain") /\ "domain" \in Handles
  BY <1>1 DEF Handles, Exists
<1> QED
  BY <1>3, <1>4 DEF Existing

(* An open of an EQ adds that object.                                      *)
LEMMA EqOpenEffect ==
  ASSUME ShimP!TypeOK, NEW h \in {"listener_eq", "eq"},
         Shim!EqOpen(h, "fabric")
  PROVE  h \notin Existing /\ Existing' = Existing \cup {h}
<1>1. /\ ~(eq[h].fabric # Null)
      /\ eq'[h].fabric # Null
      /\ \A q \in {"listener_eq", "eq"} : q # h => eq'[q].fabric = eq[q].fabric
      /\ fabric'["fabric"].open = fabric["fabric"].open
  BY DEF Shim!EqOpen, ShimP!TypeOK, ShimP!EqObject, ShimP!FabricObject, Null
<1>2. UNCHANGED <<domain, cq, listener, ep, mr, op>>
  BY DEF Shim!EqOpen
<1>3. \A g \in Handles : Exists(g)' <=> Exists(g) \/ g = h
  BY <1>1, <1>2 DEF Exists
<1>4. ~Exists(h) /\ h \in Handles
  BY <1>1 DEF Handles, Exists
<1> QED
  BY <1>3, <1>4 DEF Existing

(* An open of the CQ adds that object.                                     *)
LEMMA CqOpenEffect ==
  ASSUME ShimP!TypeOK, NEW h \in {"tx_cq", "rx_cq"},
         Shim!CqOpen(h, "domain")
  PROVE  h \notin Existing /\ Existing' = Existing \cup {h}
<1>1. /\ ~(cq[h].domain # Null)
      /\ cq'[h].domain # Null
      /\ \A c \in {"tx_cq", "rx_cq"} : c # h => cq'[c].domain = cq[c].domain
      /\ domain'["domain"].fabric = domain["domain"].fabric
  BY DEF Shim!CqOpen, ShimP!TypeOK, ShimP!CqObject, ShimP!DomainObject, Null
<1>2. UNCHANGED <<fabric, eq, listener, ep, mr, op>>
  BY DEF Shim!CqOpen
<1>3. \A g \in Handles : Exists(g)' <=> Exists(g) \/ g = h
  BY <1>1, <1>2 DEF Exists
<1>4. ~Exists(h) /\ h \in Handles
  BY <1>1 DEF Handles, Exists
<1> QED
  BY <1>3, <1>4 DEF Existing

(* An open of the listener adds that object.                               *)
LEMMA ListenerOpenEffect ==
  ASSUME ShimP!TypeOK, NEW ready,
         Shim!ListenerOpen("listener", "fabric", "listener_eq", ready)
  PROVE  "listener" \notin Existing /\ Existing' = Existing \cup {"listener"}
<1>1. /\ ~(listener["listener"].fabric # Null)
      /\ listener'["listener"].fabric # Null
      /\ fabric'["fabric"].open = fabric["fabric"].open
      /\ \A q \in {"listener_eq", "eq"} : eq'[q].fabric = eq[q].fabric
  BY DEF Shim!ListenerOpen, ShimP!TypeOK, ShimP!ListenerObject,
     ShimP!FabricObject, ShimP!EqObject, Null
<1>2. UNCHANGED <<domain, cq, ep, mr, op>>
  BY DEF Shim!ListenerOpen
<1>3. \A g \in Handles : Exists(g)' <=> Exists(g) \/ g = "listener"
  BY <1>1, <1>2 DEF Exists
<1>4. ~Exists("listener") /\ "listener" \in Handles
  BY <1>1 DEF Handles, Exists
<1> QED
  BY <1>3, <1>4 DEF Existing

(* An open of the endpoint adds that object.                               *)
LEMMA EndpointOpenEffect ==
  ASSUME ShimP!TypeOK, NEW ready, NEW closing,
         Shim!EndpointOpen("ep", "domain", "eq", "tx_cq", "rx_cq", ready, closing)
  PROVE  "ep" \notin Existing /\ Existing' = Existing \cup {"ep"}
<1>1. /\ ~(ep["ep"].domain # Null)
      /\ ep'["ep"].domain # Null
      /\ domain'["domain"].fabric = domain["domain"].fabric
      /\ \A q \in {"listener_eq", "eq"} : eq'[q].fabric = eq[q].fabric
      /\ \A c \in {"tx_cq", "rx_cq"} : cq'[c].domain = cq[c].domain
  BY DEF Shim!EndpointOpen, Shim!EndpointArgs, ShimP!TypeOK, ShimP!EpObject,
     ShimP!DomainObject, ShimP!EqObject, ShimP!CqObject, Null
<1>2. UNCHANGED <<fabric, listener, mr, op>>
  BY DEF Shim!EndpointOpen
<1>3. \A g \in Handles : Exists(g)' <=> Exists(g) \/ g = "ep"
  BY <1>1, <1>2 DEF Exists
<1>4. ~Exists("ep") /\ "ep" \in Handles
  BY <1>1 DEF Handles, Exists
<1> QED
  BY <1>3, <1>4 DEF Existing

(* An endpoint open that is rolled back opens nothing.                     *)
LEMMA RolledBackEffect ==
  ASSUME ShimP!TypeOK, Shim!EndpointOpenRolledBack("ep", "domain", "eq", "tx_cq", "rx_cq")
  PROVE  Existing' = Existing
<1>1. /\ \A c \in {"tx_cq", "rx_cq"} : cq'[c].domain = cq[c].domain
  BY DEF Shim!EndpointOpenRolledBack, ShimP!TypeOK, ShimP!CqObject, Null
<1>2. UNCHANGED <<fabric, domain, eq, listener, ep, mr, op>>
  BY DEF Shim!EndpointOpenRolledBack
<1>3. \A g \in Handles : Exists(g)' <=> Exists(g)
  BY <1>1, <1>2 DEF Exists
<1> QED
  BY <1>3 DEF Existing

(* A registration adds its MR.                                             *)
LEMMA MrRegisterEffect ==
  ASSUME ShimP!TypeOK, NEW h \in {"tx_mr", "rx_mr"}, NEW access,
         Shim!MrRegister(h, "domain", access)
  PROVE  h \notin Existing /\ Existing' = Existing \cup {h}
<1>1. /\ ~(mr[h].domain # Null)
      /\ mr'[h].domain # Null
      /\ \A m \in {"tx_mr", "rx_mr"} : m # h => mr'[m].domain = mr[m].domain
      /\ domain'["domain"].fabric = domain["domain"].fabric
  BY DEF Shim!MrRegister, ShimP!TypeOK, ShimP!MrObject, ShimP!DomainObject, Null
<1>2. UNCHANGED <<fabric, eq, cq, listener, ep, op>>
  BY DEF Shim!MrRegister
<1>3. \A g \in Handles : Exists(g)' <=> Exists(g) \/ g = h
  BY <1>1, <1>2 DEF Exists
<1>4. ~Exists(h) /\ h \in Handles
  BY <1>1 DEF Handles, Exists
<1> QED
  BY <1>3, <1>4 DEF Existing

(* The creation of an operation adds it.                                   *)
LEMMA OpCreateEffect ==
  ASSUME ShimP!TypeOK, NEW h \in {"tx_op", "rx_op"},
         Shim!OpCreate(h)
  PROVE  h \notin Existing /\ Existing' = Existing \cup {h}
<1>1. /\ ~(op[h].open)
      /\ op'[h].open
      /\ \A o \in {"tx_op", "rx_op"} : o # h => op'[o].open = op[o].open
  BY DEF Shim!OpCreate, ShimP!TypeOK, ShimP!OpObject, Null
<1>2. UNCHANGED <<fabric, domain, eq, cq, listener, ep, mr>>
  BY DEF Shim!OpCreate
<1>3. \A g \in Handles : Exists(g)' <=> Exists(g) \/ g = h
  BY <1>1, <1>2 DEF Exists
<1>4. ~Exists(h) /\ h \in Handles
  BY <1>1 DEF Handles, Exists
<1> QED
  BY <1>3, <1>4 DEF Existing

(* A post neither opens nor closes anything,                               *)
LEMMA PostEffect ==
  ASSUME ShimP!TypeOK, NEW s \in Slots,
         Shim!Post("ep", Op[s], Mr[s], Dir[s])
  PROVE  Existing' = Existing
<1>1. /\ \A o \in {"tx_op", "rx_op"} : op'[o].open = op[o].open
      /\ \A c \in {"tx_cq", "rx_cq"} : cq'[c].domain = cq[c].domain
      /\ \A m \in {"tx_mr", "rx_mr"} : mr'[m].domain = mr[m].domain
  BY DEF Shim!Post, Shim!ReportsTo, ShimP!TypeOK, ShimP!OpObject,
     ShimP!CqObject, ShimP!MrObject, Null
<1>2. UNCHANGED <<fabric, domain, eq, listener, ep>>
  BY DEF Shim!Post
<1>3. \A g \in Handles : Exists(g)' <=> Exists(g)
  BY <1>1, <1>2 DEF Exists
<1> QED
  BY <1>3 DEF Existing

(* nor does a poll,                                                        *)
LEMMA PollEffect ==
  ASSUME ShimP!TypeOK, NEW s \in Slots,
         Shim!CqPoll(Cq[s], Op[s])
  PROVE  Existing' = Existing
<1> USE DEF ShimP!TypeOK, ShimP!OpObject, ShimP!CqObject, ShimP!MrObject
<1>1. \/ UNCHANGED <<cq, mr, op>>
      \/ /\ cq' = [cq EXCEPT ![Cq[s]].pending = @ \ {Op[s]}, ![Cq[s]].count = @ - 1]
         /\ mr' = Shim!MrsReturned({Op[s]})
         /\ op' = Shim!Released({Op[s]})
  BY DEF Shim!CqPoll
<1>2. \A o \in {"tx_op", "rx_op"} : op'[o].open = op[o].open
  <2>1. \A o \in {"tx_op", "rx_op"} :
          Shim!Released({Op[s]})[o].open = op[o].open
    BY DEF Shim!Released
  <2> QED
    BY <1>1, <2>1
<1>3. \A c \in {"tx_cq", "rx_cq"} : cq'[c].domain = cq[c].domain
  BY <1>1
<1>4. \A m \in {"tx_mr", "rx_mr"} : mr'[m].domain = mr[m].domain
  BY <1>1 DEF Shim!MrsReturned
<1>5. UNCHANGED <<fabric, domain, eq, listener, ep>>
  BY DEF Shim!CqPoll
<1>6. \A g \in Handles : Exists(g)' <=> Exists(g)
  BY <1>2, <1>3, <1>4, <1>5 DEF Exists
<1> QED
  BY <1>6 DEF Existing

(* a completion,                                                           *)
LEMMA CompleteEffect ==
  ASSUME ShimP!TypeOK, NEW o,
         Shim!Complete(o)
  PROVE  Existing' = Existing
<1>1. /\ fabric'["fabric"].open = fabric["fabric"].open
  BY DEF Shim!Complete, Shim!objects, ShimP!TypeOK, ShimP!FabricObject, Null
<1>2. UNCHANGED <<domain, eq, cq, listener, ep, mr, op>>
  BY DEF Shim!Complete, Shim!objects
<1>3. \A g \in Handles : Exists(g)' <=> Exists(g)
  BY <1>1, <1>2 DEF Exists
<1> QED
  BY <1>3 DEF Existing

(* a shutdown,                                                             *)
LEMMA ShutdownEffect ==
  ASSUME ShimP!TypeOK, Shim!Shutdown("ep")
  PROVE  Existing' = Existing
<1>1. /\ ep'["ep"].domain = ep["ep"].domain
  BY DEF Shim!Shutdown, ShimP!TypeOK, ShimP!EpObject, Null
<1>2. UNCHANGED <<fabric, domain, eq, cq, listener, mr, op>>
  BY DEF Shim!Shutdown
<1>3. \A g \in Handles : Exists(g)' <=> Exists(g)
  BY <1>1, <1>2 DEF Exists
<1> QED
  BY <1>3 DEF Existing

(* or a refused close of the endpoint.                                     *)
LEMMA CloseRefusedEffect ==
  ASSUME ShimP!TypeOK, Shim!EndpointCloseRefused("ep")
  PROVE  Existing' = Existing
<1>1. /\ ep'["ep"].domain = ep["ep"].domain
  BY DEF Shim!EndpointCloseRefused, ShimP!TypeOK, ShimP!EpObject, Null
<1>2. UNCHANGED <<fabric, domain, eq, cq, listener, mr, op>>
  BY DEF Shim!EndpointCloseRefused
<1>3. \A g \in Handles : Exists(g)' <=> Exists(g)
  BY <1>1, <1>2 DEF Exists
<1> QED
  BY <1>3 DEF Existing

(* A close of the endpoint removes that object.                            *)
LEMMA EndpointCloseEffect ==
  ASSUME ShimP!TypeOK, NEW stale,
         Shim!EndpointClose("ep", stale)
  PROVE  Existing' = Existing \ {"ep"}
<1> USE DEF ShimP!TypeOK
<1>1. ep'["ep"].domain = Null
  BY DEF Shim!EndpointClose, Shim!NoEp
<1>2. \A c \in {"tx_cq", "rx_cq"} : cq'[c].domain = cq[c].domain
  <2>1. PICK t, r : cq' = [cq EXCEPT ![t] = Shim!Retired(t), ![r] = Shim!Retired(r)]
    BY DEF Shim!EndpointClose
  <2>2. \A c \in {"tx_cq", "rx_cq"} : Shim!Retired(c).domain = cq[c].domain
    BY DEF Shim!Retired, ShimP!CqObject
  <2>3. \A c \in {"tx_cq", "rx_cq"} : cq'[c] \in {cq[c], Shim!Retired(c)}
    BY <2>1
  <2> QED
    BY <2>2, <2>3
<1>3. \A m \in {"tx_mr", "rx_mr"} : mr'[m].domain = mr[m].domain
  BY DEF Shim!EndpointClose, Shim!MrsReturned, ShimP!MrObject
<1>4. \A o \in {"tx_op", "rx_op"} : op'[o].open = op[o].open
  BY DEF Shim!EndpointClose, Shim!Unborrowed, ShimP!OpObject
<1>5. \A q \in {"listener_eq", "eq"} : eq'[q].fabric = eq[q].fabric
  BY DEF Shim!EndpointClose, ShimP!EqObject
<1>6. domain'["domain"].fabric = domain["domain"].fabric
  BY DEF Shim!EndpointClose, ShimP!DomainObject
<1>7. UNCHANGED <<fabric, listener>>
  BY DEF Shim!EndpointClose
<1>8. \A g \in Handles : Exists(g)' <=> Exists(g) /\ g # "ep"
  BY ONLY <1>1, <1>2, <1>3, <1>4, <1>5, <1>6, <1>7 DEF Exists, Handles
<1> QED
  BY <1>8 DEF Existing

(* A close of the CQ removes that object.                                  *)
LEMMA CqCloseEffect ==
  ASSUME ShimP!TypeOK, NEW h \in {"tx_cq", "rx_cq"},
         Shim!CqClose(h)
  PROVE  Existing' = Existing \ {h}
<1>1. /\ ~(cq'[h].domain # Null)
      /\ \A c \in {"tx_cq", "rx_cq"} : c # h => cq'[c].domain = cq[c].domain
      /\ \A m \in {"tx_mr", "rx_mr"} : mr'[m].domain = mr[m].domain
      /\ \A o \in {"tx_op", "rx_op"} : op'[o].open = op[o].open
      /\ domain'["domain"].fabric = domain["domain"].fabric
  BY DEF Shim!CqClose, Shim!NoCq, Shim!MrsReturned, Shim!Released,
     ShimP!TypeOK, ShimP!CqObject, ShimP!MrObject, ShimP!OpObject,
     ShimP!DomainObject, Null
<1>2. UNCHANGED <<fabric, eq, listener, ep>>
  BY DEF Shim!CqClose
<1>3. \A g \in Handles : Exists(g)' <=> Exists(g) /\ g # h
  BY <1>1, <1>2 DEF Exists
<1> QED
  BY <1>3 DEF Existing

(* Freeing an operation removes it.                                        *)
LEMMA OpFreeEffect ==
  ASSUME ShimP!TypeOK, NEW h \in {"tx_op", "rx_op"},
         Shim!OpFree(h)
  PROVE  Existing' = Existing \ {h}
<1>1. /\ ~(op'[h].open)
      /\ \A o \in {"tx_op", "rx_op"} : o # h => op'[o].open = op[o].open
  BY DEF Shim!OpFree, Shim!NoOp, ShimP!TypeOK, ShimP!OpObject, Null
<1>2. UNCHANGED <<fabric, domain, eq, cq, listener, ep, mr>>
  BY DEF Shim!OpFree
<1>3. \A g \in Handles : Exists(g)' <=> Exists(g) /\ g # h
  BY <1>1, <1>2 DEF Exists
<1> QED
  BY <1>3 DEF Existing

(* A close of an MR removes that object.                                   *)
LEMMA MrCloseEffect ==
  ASSUME ShimP!TypeOK, NEW h \in {"tx_mr", "rx_mr"},
         Shim!MrClose(h)
  PROVE  Existing' = Existing \ {h}
<1>1. /\ ~(mr'[h].domain # Null)
      /\ \A m \in {"tx_mr", "rx_mr"} : m # h => mr'[m].domain = mr[m].domain
      /\ domain'["domain"].fabric = domain["domain"].fabric
  BY DEF Shim!MrClose, Shim!NoMr, ShimP!TypeOK, ShimP!MrObject,
     ShimP!DomainObject, Null
<1>2. UNCHANGED <<fabric, eq, cq, listener, ep, op>>
  BY DEF Shim!MrClose
<1>3. \A g \in Handles : Exists(g)' <=> Exists(g) /\ g # h
  BY <1>1, <1>2 DEF Exists
<1> QED
  BY <1>3 DEF Existing

(* A close of an EQ removes that object.                                   *)
LEMMA EqCloseEffect ==
  ASSUME ShimP!TypeOK, NEW h \in {"listener_eq", "eq"},
         Shim!EqClose(h)
  PROVE  Existing' = Existing \ {h}
<1>1. /\ ~(eq'[h].fabric # Null)
      /\ \A q \in {"listener_eq", "eq"} : q # h => eq'[q].fabric = eq[q].fabric
      /\ fabric'["fabric"].open = fabric["fabric"].open
  BY DEF Shim!EqClose, Shim!NoEq, ShimP!TypeOK, ShimP!EqObject,
     ShimP!FabricObject, Null
<1>2. UNCHANGED <<domain, cq, listener, ep, mr, op>>
  BY DEF Shim!EqClose
<1>3. \A g \in Handles : Exists(g)' <=> Exists(g) /\ g # h
  BY <1>1, <1>2 DEF Exists
<1> QED
  BY <1>3 DEF Existing

(* A close of the domain removes that object.                              *)
LEMMA DomainCloseEffect ==
  ASSUME ShimP!TypeOK, Shim!DomainClose("domain")
  PROVE  Existing' = Existing \ {"domain"}
<1>1. /\ ~(domain'["domain"].fabric # Null)
      /\ fabric'["fabric"].open = fabric["fabric"].open
  BY DEF Shim!DomainClose, Shim!NoDomain, ShimP!TypeOK, ShimP!DomainObject,
     ShimP!FabricObject, Null
<1>2. UNCHANGED <<eq, cq, listener, ep, mr, op>>
  BY DEF Shim!DomainClose
<1>3. \A g \in Handles : Exists(g)' <=> Exists(g) /\ g # "domain"
  BY <1>1, <1>2 DEF Exists
<1> QED
  BY <1>3 DEF Existing

(* A close of the listener removes that object.                            *)
LEMMA ListenerCloseEffect ==
  ASSUME ShimP!TypeOK, Shim!ListenerClose("listener")
  PROVE  Existing' = Existing \ {"listener"}
<1>1. /\ ~(listener'["listener"].fabric # Null)
      /\ fabric'["fabric"].open = fabric["fabric"].open
      /\ \A q \in {"listener_eq", "eq"} : eq'[q].fabric = eq[q].fabric
  BY DEF Shim!ListenerClose, Shim!NoListener, ShimP!TypeOK,
     ShimP!ListenerObject, ShimP!FabricObject, ShimP!EqObject, Null
<1>2. UNCHANGED <<domain, cq, ep, mr, op>>
  BY DEF Shim!ListenerClose
<1>3. \A g \in Handles : Exists(g)' <=> Exists(g) /\ g # "listener"
  BY <1>1, <1>2 DEF Exists
<1> QED
  BY <1>3 DEF Existing

(* A close of the fabric removes that object.                              *)
LEMMA FabricCloseEffect ==
  ASSUME ShimP!TypeOK, Shim!FabricClose("fabric")
  PROVE  Existing' = Existing \ {"fabric"}
<1>1. /\ ~(fabric'["fabric"].open)
  BY DEF Shim!FabricClose, Shim!NoFabric, ShimP!TypeOK, ShimP!FabricObject, Null
<1>2. UNCHANGED <<domain, eq, cq, listener, ep, mr, op>>
  BY DEF Shim!FabricClose
<1>3. \A g \in Handles : Exists(g)' <=> Exists(g) /\ g # "fabric"
  BY <1>1, <1>2 DEF Exists
<1> QED
  BY <1>3 DEF Existing
-----------------------------------------------------------------------------
(* The same for the operations: only a post makes an idle slot busy.       *)

(* A step that submits nothing keeps every idle slot idle.                 *)
LEMMA IdleKept ==
  ASSUME \A o \in {"tx_op", "rx_op"} : op[o].cq = Null => op'[o].cq = Null,
         \A o \in {"tx_op", "rx_op"} : wr[o].ep = Null => wr'[o].ep = Null
  PROVE  IdleSlots \subseteq IdleSlots'
  BY DEF IdleSlots, Slots, Op

(* An open, complete or half, adds one object and submits nothing.         *)
LEMMA OpenEffect ==
  ASSUME ShimP!TypeOK, NEW h \in Handles, ShimOpen(h) \/ ShimHalfOpen(h)
  PROVE  /\ h \notin Existing /\ Existing' = Existing \cup {h}
         /\ IdleSlots \subseteq IdleSlots'
<1>1. h \notin Existing /\ Existing' = Existing \cup {h}
  BY FabricOpenEffect, DomainOpenEffect, EqOpenEffect, CqOpenEffect,
     ListenerOpenEffect, EndpointOpenEffect, MrRegisterEffect, OpCreateEffect
  DEF ShimOpen, ShimHalfOpen
<1>2. CASE h \in {"tx_op", "rx_op"} /\ Shim!OpCreate(h)
  <2>1. \A o \in {"tx_op", "rx_op"} : op'[o].cq = op[o].cq
    BY <1>2 DEF Shim!OpCreate, ShimP!TypeOK, ShimP!OpObject
  <2> QED
    BY <1>1, <1>2, <2>1, IdleKept DEF Shim!OpCreate
<1>3. CASE UNCHANGED <<op, wr>>
  BY <1>1, <1>3 DEF IdleSlots
<1>4. (h \in {"tx_op", "rx_op"} /\ Shim!OpCreate(h)) \/ UNCHANGED <<op, wr>>
  BY DEF ShimOpen, ShimHalfOpen, Shim!FabricOpen, Shim!DomainOpen, Shim!EqOpen,
     Shim!CqOpen, Shim!ListenerOpen, Shim!EndpointOpen, Shim!MrRegister
<1> QED
  BY <1>1, <1>2, <1>3, <1>4

(* An open that leaves nothing behind adds none.                           *)
LEMMA OpenFailsEffect ==
  ASSUME ShimP!TypeOK, NEW h, ShimOpenFails(h)
  PROVE  Existing' = Existing /\ IdleSlots' = IdleSlots
<1>1. CASE UNCHANGED shim
  BY <1>1 DEF shim, Existing, Exists, IdleSlots
<1>2. CASE Shim!EndpointOpenRolledBack("ep", "domain", "eq", "tx_cq", "rx_cq")
  BY <1>2, RolledBackEffect DEF Shim!EndpointOpenRolledBack, IdleSlots
<1> QED
  BY <1>1, <1>2 DEF ShimOpenFails

(* A close removes one object and submits nothing.                         *)
LEMMA CloseEffect ==
  ASSUME ShimP!TypeOK, NEW h \in Handles, ShimClose(h)
  PROVE  Existing' = Existing \ {h} /\ IdleSlots \subseteq IdleSlots'
<1>1. Existing' = Existing \ {h}
  BY FabricCloseEffect, DomainCloseEffect, EqCloseEffect, CqCloseEffect,
     ListenerCloseEffect, EndpointCloseEffect, MrCloseEffect, OpFreeEffect
  DEF ShimClose
<1>2. ASSUME NEW stale, Shim!EndpointClose("ep", stale)
      PROVE  IdleSlots \subseteq IdleSlots'
  <2>1. \A o \in {"tx_op", "rx_op"} : op'[o].cq = op[o].cq
    BY <1>2 DEF Shim!EndpointClose, Shim!Unborrowed, ShimP!TypeOK,
       ShimP!OpObject
  <2>2. \A o \in {"tx_op", "rx_op"} : wr[o].ep = Null => wr'[o].ep = Null
    BY <1>2 DEF Shim!EndpointClose, Shim!ProviderCloseEp, Shim!NoWr,
       ShimP!TypeOK, ShimP!WorkRequest
  <2> QED
    BY <2>1, <2>2, IdleKept
<1>3. ASSUME NEW c, Shim!CqClose(c) PROVE IdleSlots \subseteq IdleSlots'
  <2>1. \A o \in {"tx_op", "rx_op"} : op[o].cq = Null => op'[o].cq = Null
    BY <1>3 DEF Shim!CqClose, Shim!Released, ShimP!TypeOK, ShimP!OpObject
  <2> QED
    BY <1>3, <2>1, IdleKept DEF Shim!CqClose
<1>4. ASSUME NEW o \in {"tx_op", "rx_op"}, Shim!OpFree(o)
      PROVE  IdleSlots \subseteq IdleSlots'
  BY <1>4, IdleKept DEF Shim!OpFree, Shim!NoOp, ShimP!TypeOK
<1>5. CASE UNCHANGED <<op, wr>>
  BY <1>1, <1>5 DEF IdleSlots
<1>6. \/ \E stale : Shim!EndpointClose("ep", stale)
      \/ \E c : Shim!CqClose(c)
      \/ \E o \in {"tx_op", "rx_op"} : Shim!OpFree(o)
      \/ UNCHANGED <<op, wr>>
  BY DEF ShimClose, Shim!MrClose, Shim!EqClose, Shim!DomainClose,
     Shim!ListenerClose, Shim!FabricClose
<1> QED
  BY <1>1, <1>2, <1>3, <1>4, <1>5, <1>6

(* Shutdown, a refused close, a completion and a stutter do neither.       *)
LEMMA QuietEffect ==
  ASSUME ShimP!TypeOK,
         \/ Shim!Shutdown("ep") \/ Shim!EndpointCloseRefused("ep")
         \/ UNCHANGED shim
         \/ \E o \in {"tx_op", "rx_op"} : Shim!Complete(o)
  PROVE  Existing' = Existing /\ IdleSlots \subseteq IdleSlots'
<1>1. CASE UNCHANGED shim
  BY <1>1 DEF shim, Existing, Exists, IdleSlots
<1>2. CASE Shim!Shutdown("ep")
  BY <1>2, ShutdownEffect DEF Shim!Shutdown, IdleSlots
<1>3. CASE Shim!EndpointCloseRefused("ep")
  BY <1>3, CloseRefusedEffect DEF Shim!EndpointCloseRefused, IdleSlots
<1>4. ASSUME NEW o \in {"tx_op", "rx_op"}, Shim!Complete(o)
      PROVE  Existing' = Existing /\ IdleSlots \subseteq IdleSlots'
  <2>1. Existing' = Existing
    BY <1>4, CompleteEffect
  <2>2. \A k \in {"tx_op", "rx_op"} : wr[k].ep = Null => wr'[k].ep = Null
    BY <1>4 DEF Shim!Complete, Shim!NoWr, ShimP!TypeOK
  <2> QED
    BY <1>4, <2>1, <2>2, IdleKept DEF Shim!Complete, Shim!objects
<1> QED
  BY <1>1, <1>2, <1>3, <1>4

(* A post makes only its own slot busy.                                    *)
LEMMA PostIdle ==
  ASSUME ShimP!TypeOK, NEW s \in Slots, Shim!Post("ep", Op[s], Mr[s], Dir[s])
  PROVE  Existing' = Existing /\ IdleSlots \ {s} \subseteq IdleSlots'
<1>1. \A k \in Slots \ {s} : op'[Op[k]] = op[Op[k]] /\ wr'[Op[k]] = wr[Op[k]]
  BY DEF Shim!Post, ShimP!TypeOK, Slots, Op
<1> QED
  BY <1>1, PostEffect DEF IdleSlots

(* What FabricShim's invariant says about the operations of this program.  *)
LEMMA PolledIdle ==
  ASSUME ShimP!IInv, NEW s \in Slots, Shim!CqPoll(Cq[s], Op[s])
  PROVE  /\ Existing' = Existing
         /\ IdleSlots \cup {s} \subseteq IdleSlots'
<1> USE DEF ShimP!IInv
<1>1. Op[s] \in {"tx_op", "rx_op"} /\ Cq[s] \in {"tx_cq", "rx_cq"}
  BY DEF Slots, Op, Cq
<1>2. op[Op[s]].cq = Cq[s] /\ wr[Op[s]] = ShimP!NoWr
  BY <1>1 DEF Shim!CqPoll, ShimP!WorkLinked, Null
<1>3. Op[s] \in cq[Cq[s]].pending
  BY <1>1, <1>2 DEF ShimP!OpsLinked, ShimP!OpsOn
<1>4. op' = Shim!Released({Op[s]}) /\ wr' = wr
  BY <1>3 DEF Shim!CqPoll
<1>5. \A o \in {"tx_op", "rx_op"} :
         /\ op[o].cq = Null => op'[o].cq = Null
         /\ o = Op[s] => op'[o].cq = Null
  BY <1>4 DEF Shim!Released, ShimP!TypeOK, ShimP!OpObject
<1>6. IdleSlots \subseteq IdleSlots'
  BY <1>4, <1>5, IdleKept
<1>7. s \in IdleSlots'
  BY <1>1, <1>2, <1>4, <1>5 DEF IdleSlots, ShimP!NoWr
<1> QED
  BY <1>6, <1>7, PollEffect

(* An operation that does not exist is not submitted.                      *)
LEMMA GoneIdle ==
  ASSUME ShimP!IInv, NEW s \in Slots, Op[s] \notin Existing
  PROVE  s \in IdleSlots
<1> USE DEF ShimP!IInv
<1>1. Op[s] \in {"tx_op", "rx_op"} /\ Op[s] \in Handles
  BY DEF Slots, Op, Handles
<1>2. ~op[Op[s]].open
  BY <1>1 DEF Existing, Exists
<1>3. op[Op[s]].cq = Null
  BY <1>1, <1>2 DEF ShimP!OpsLinked
<1>4. wr[Op[s]] = ShimP!NoWr
  BY <1>1, <1>3 DEF ShimP!WorkLinked
<1> QED
  BY <1>3, <1>4 DEF IdleSlots, ShimP!NoWr
-----------------------------------------------------------------------------
(* The inductive invariant.                                                *)

(* HandlesTracked, FreeSlotsAreFree and FreedIsReturned, over those sets.  *)
Tracked == Existing = raw \cup lost /\ raw \cap lost = {}
FreeIdle == \A s \in Slots : pending[s] \/ s \in IdleSlots
FreedGone == \A s \in Slots : bytes[s] = "freed" => Mr[s] \notin Existing
ListenerBound == listener["listener"].eq \in {Null, "listener_eq"}

(* The places of the program, in the order it reaches them.                *)
BeforeConn == {"fabric", "listener_eq", "listener", "wait", "empty"}
BeforeEp == {"domain", "eq", "tx_cq", "rx_cq", "ep"}
AfterEp == {"tx_mr", "tx_op", "rx_mr", "rx_op", "post", "start"}
Running == {"poll_tx", "poll_rx", "poll_eq", "app"}
ServerPlaces == {"listener_eq", "listener", "wait", "reject", "drop_request"}
Leaving == {"reject", "close", "drop", "drop_request", "done"}

(* Which struct is alive at each place, what it has allocated, and whose   *)
(* handles may still be open.                                              *)
Nested ==
  /\ pc \in BeforeConn => /\ owner # "conn" /\ raw \cap Owned("conn") = {}
                          /\ \A s \in Slots : bytes[s] = "none"
  /\ pc \in BeforeEp \cup AfterEp \cup Running =>
        owner = "conn" /\ \A s \in Slots : bytes[s] = "owned"
  /\ pc = "drop_request" /\ owner = "conn" => \A s \in Slots : bytes[s] = "owned"
  /\ pc = "reject" => owner = "conn"
  /\ pc \in {"listener_eq", "listener", "wait"} => owner = "listener"
  /\ pc \in AfterEp => "ep" \in raw
  /\ owner = "conn" => \A s \in Slots : bytes[s] \in {"owned", "freed"}
  /\ raw \cap Owned("conn") # {} => owner = "conn"
  /\ raw \cap Owned("listener") # {} => owner \in {"listener", "conn"}
  /\ Role = "client" => /\ pc \notin ServerPlaces /\ owner # "listener"
                        /\ raw \cap Owned("listener") = {}
  /\ pc = "done" => raw = {} /\ owner # "conn"

(* What the program has given up, and what an error-free run has freed.    *)
Accounted ==
  /\ lost # {} => failed /\ owner # "conn" /\ pc \in Leaving \ {"reject"}
  /\ pc \in {"reject", "drop"} => failed
  /\ pc \in Leaving /\ owner # "conn" /\ ~failed =>
        \A s \in Slots : bytes[s] = "freed"

(* The connection request.                                                 *)
RequestState ==
  /\ handled <=> request \in {"accepted", "rejected"}
  /\ request # "again"
  /\ pc \in BeforeConn \ {"empty"} => request = "none"
  /\ Role = "client" => request = "none" /\ ~info
  /\ pc \in {"empty", "reject"} \cup BeforeEp \cup AfterEp /\ Role = "server" =>
        request = "pending" /\ info
  /\ request = "pending" => pc \in {"empty", "reject"} \cup BeforeEp \cup AfterEp
  /\ info => request # "none"
  /\ pc = "drop_request" => info

IInv ==
  /\ TypeOK
  /\ Tracked
  /\ FreeIdle
  /\ FreedGone
  /\ ListenerBound
  /\ Nested
  /\ Accounted
  /\ RequestState

(* Which struct the handles of the slots belong to.                        *)
LEMMA SlotNames ==
  /\ \A s \in Slots : /\ Mr[s] \in Owned("conn") /\ Op[s] \in Owned("conn")
                      /\ Mr[s] \in Handles /\ Op[s] \in Handles
                      /\ Mr[s] \notin {"fabric", "listener_eq", "listener"}
  /\ Owned("conn") = {"domain", "eq", "tx_cq", "rx_cq", "ep", "tx_mr", "tx_op",
                      "rx_mr", "rx_op"}
  /\ Owned("listener") = {"listener", "listener_eq"}
  /\ Owned("fabric") = {"fabric"}
  /\ Owned("conn") \subseteq Handles
  BY DEF Slots, Mr, Op, Owned, Handles

(* Most steps leave the listener alone.                                    *)
LEMMA ListenerStays ==
  ASSUME ListenerBound, UNCHANGED listener
  PROVE  ListenerBound'
  BY DEF ListenerBound

(* The invariant is kept by an open,                                       *)
LEMMA OpenInv ==
  ASSUME ShimP!TypeOK, IInv, Open
  PROVE  IInv'
<1>1. /\ pc \in Handles /\ ShimOpen(pc)
      /\ raw' = raw \cup {pc} /\ pc' = After[pc]
      /\ owner' = IF pc = "fabric" /\ Role = "server" THEN "listener" ELSE owner
      /\ UNCHANGED <<lost, bytes, pending, cm_started, request, handled, info, failed>>
  BY DEF Open, slots, req
<1>2. /\ pc \notin Existing /\ Existing' = Existing \cup {pc}
      /\ IdleSlots \subseteq IdleSlots'
  BY <1>1, OpenEffect
<1>3. TypeOK'
  BY <1>1, RoleKnown DEF TypeOK, IInv, After, Handles
<1>4. Tracked'
  BY <1>1, <1>2 DEF Tracked, IInv
<1>5. FreeIdle'
  BY <1>1, <1>2 DEF FreeIdle, IInv
<1>6. FreedGone'
  BY <1>1, <1>2, SlotNames DEF FreedGone, IInv, Nested, BeforeConn, BeforeEp,
     AfterEp, Handles
<1>7. ListenerBound'
  BY <1>1 DEF IInv, ListenerBound, ShimOpen, Shim!FabricOpen, Shim!DomainOpen,
     Shim!EqOpen,
     Shim!CqOpen, Shim!ListenerOpen, Shim!EndpointOpen, Shim!MrRegister, Shim!OpCreate, ShimP!TypeOK
<1>8. Nested'
  BY <1>1, SlotNames, RoleKnown DEF IInv, Nested, BeforeConn, BeforeEp,
     AfterEp, Running, ServerPlaces, Handles, After, TypeOK
<1>9. Accounted'
  BY <1>1, RoleKnown DEF IInv, Accounted, Leaving, Handles, After
<1>10. RequestState'
  BY <1>1, RoleKnown DEF IInv, RequestState, BeforeConn, BeforeEp, AfterEp,
     Handles, After
<1> QED
  BY <1>3, <1>4, <1>5, <1>6, <1>7, <1>8, <1>9, <1>10 DEF IInv

(* by Connection::empty,                                                   *)
LEMMA EmptyInv == ASSUME IInv, ShimP!TypeOK, Empty PROVE IInv'
<1>1. /\ pc = "empty" /\ pc' = "domain" /\ owner' = "conn"
      /\ bytes' = [s \in Slots |-> "owned"]
      /\ UNCHANGED <<raw, lost, pending, cm_started, request, handled, info, failed>>
      /\ UNCHANGED shim
  BY DEF Empty, req
<1>2. Existing' = Existing /\ IdleSlots \subseteq IdleSlots' /\ UNCHANGED listener
  BY <1>1, QuietEffect DEF shim
<1>3. TypeOK'
  BY <1>1 DEF TypeOK, IInv, Handles
<1>4. Tracked' /\ FreeIdle' /\ FreedGone' /\ ListenerBound'
  BY <1>1, <1>2 DEF Tracked, FreeIdle, FreedGone, ListenerBound, IInv
<1>5. Nested'
  BY <1>1, SlotNames, RoleKnown DEF IInv, Nested, BeforeConn, BeforeEp,
     AfterEp, Running, ServerPlaces
<1>6. Accounted' /\ RequestState'
  BY <1>1, RoleKnown DEF IInv, Nested, Accounted, RequestState, BeforeConn,
     BeforeEp, AfterEp, Leaving
<1> QED
  BY <1>3, <1>4, <1>5, <1>6 DEF IInv

(* by a setup that fails,                                                  *)
LEMMA SetupFailsInv == ASSUME IInv, ShimP!TypeOK, SetupFails PROVE IInv'
<1>1. /\ pc \in Handles \cup {"wait", "post", "start"}
      /\ pc' = FailureLeadsTo /\ failed' = TRUE
      /\ \/ ShimOpenFails(pc) /\ UNCHANGED raw
         \/ ShimHalfOpen(pc) /\ pc \in Handles /\ raw' = raw \cup {pc}
      /\ UNCHANGED <<owner, lost, bytes, pending, cm_started, request, handled, info>>
  BY DEF SetupFails, slots, req, ShimHalfOpen, Handles
<1>2. /\ IdleSlots \subseteq IdleSlots'
      /\ \/ Existing' = Existing /\ raw' = raw
         \/ /\ pc \notin Existing /\ Existing' = Existing \cup {pc}
            /\ pc \in {"listener", "ep"} /\ raw' = raw \cup {pc}
  BY <1>1, OpenEffect, OpenFailsEffect DEF ShimHalfOpen
<1>3. TypeOK'
  BY <1>1 DEF TypeOK, IInv, FailureLeadsTo, Handles
<1>4. Tracked'
  BY <1>1, <1>2 DEF Tracked, IInv
<1>5. FreeIdle'
  BY <1>1, <1>2 DEF FreeIdle, IInv
<1>6. FreedGone'
  BY <1>1, <1>2, SlotNames DEF FreedGone, IInv, Slots, Mr
<1>7. ListenerBound'
  BY <1>1 DEF IInv, ListenerBound, ShimHalfOpen, ShimOpenFails, shim,
     Shim!ListenerOpen, Shim!EndpointOpen, Shim!EndpointOpenRolledBack,
     ShimP!TypeOK
<1>8. Nested'
  BY <1>1, <1>2, SlotNames, RoleKnown DEF IInv, Nested, BeforeConn, BeforeEp,
     AfterEp, Running, ServerPlaces, Handles, FailureLeadsTo
<1>9. Accounted' /\ RequestState'
  BY <1>1, RoleKnown DEF IInv, Nested, Accounted, RequestState, BeforeConn,
     BeforeEp, AfterEp, Leaving, Handles, FailureLeadsTo, TypeOK
<1> QED
  BY <1>3, <1>4, <1>5, <1>6, <1>7, <1>8, <1>9 DEF IInv

(* by the steps that touch neither the shim nor what the program holds,    *)
LEMMA PlaceInv ==
  ASSUME IInv, ShimP!TypeOK,
         \/ TakeRequest \/ StartCm \/ NextRound \/ PollEq \/ Reject
         \/ DropRequest \/ \E error \in BOOLEAN : Finish(error)
  PROVE  IInv'
<1>1. UNCHANGED shim /\ UNCHANGED <<owner, raw, lost, bytes, pending>>
  BY DEF TakeRequest, StartCm, NextRound, PollEq, Reject, DropRequest, Finish,
     slots
<1>2. Existing' = Existing /\ IdleSlots \subseteq IdleSlots' /\ UNCHANGED listener
  BY <1>1, QuietEffect DEF shim
<1>3. Tracked' /\ FreeIdle' /\ FreedGone' /\ ListenerBound'
  BY <1>1, <1>2 DEF Tracked, FreeIdle, FreedGone, ListenerBound, IInv
<1>4. /\ IInv
      /\ \/ /\ pc = "wait" /\ pc' = "empty" /\ request' = "pending"
            /\ info' = TRUE
            /\ UNCHANGED <<cm_started, handled, failed>>
         \/ /\ pc = "start" /\ cm_started' = TRUE
            /\ \/ /\ Role = "server" /\ request' = "accepted"
                  /\ handled' = TRUE /\ pc' = "drop_request"
               \/ /\ Role = "client" /\ UNCHANGED <<request, handled>>
                  /\ pc' = "poll_tx"
            /\ UNCHANGED <<info, failed>>
         \/ /\ pc \in Running /\ pc' \in Running /\ pc # "drop_request"
            /\ UNCHANGED <<cm_started, request, handled, info, failed>>
         \/ /\ pc \in Running /\ pc' = "close" /\ failed' \in BOOLEAN
            /\ UNCHANGED <<cm_started, request, handled, info>>
         \/ /\ pc = "reject" /\ pc' = "drop" /\ handled' = TRUE
            /\ request' = IF handled THEN request ELSE "rejected"
            /\ UNCHANGED <<cm_started, info, failed>>
         \/ /\ pc = "drop_request" /\ handled' = TRUE /\ info' = FALSE
            /\ pc' = IF owner = "conn" THEN "poll_tx" ELSE "close"
            /\ request' = IF handled THEN request ELSE "rejected"
            /\ UNCHANGED <<cm_started, failed>>
  <2>1. CASE TakeRequest
    BY <2>1 DEF TakeRequest
  <2>2. CASE StartCm
    <3>1. Role = "server" => request = "pending"
      BY <2>2 DEF StartCm, IInv, RequestState, AfterEp
    <3> QED
      BY <2>2, <3>1, RoleKnown DEF StartCm, Accept, Answer
  <2>3. CASE NextRound \/ PollEq \/ \E error \in BOOLEAN : Finish(error)
    BY <2>3 DEF NextRound, PollEq, Finish, Running, req, IInv, TypeOK
  <2>4. CASE Reject \/ DropRequest
    <3>1. ~handled => request = "pending"
      <4>1. request # "none"
        BY <2>4, RoleKnown DEF Reject, DropRequest, IInv, RequestState,
           Nested, ServerPlaces
      <4> QED
        BY <4>1 DEF IInv, TypeOK, RequestState
    <3>2. /\ handled' = TRUE
          /\ request' = IF handled THEN request ELSE "rejected"
      BY <2>4, <3>1 DEF Reject, DropRequest, RejectOnce, Answer, IInv, TypeOK
    <3> QED
      BY <2>4, <3>2 DEF Reject, DropRequest
  <2> QED
    BY <2>1, <2>2, <2>3, <2>4
<1>5. TypeOK'
  <2>1. /\ cm_started' \in BOOLEAN /\ handled' \in BOOLEAN
        /\ info' \in BOOLEAN /\ failed' \in BOOLEAN
    BY <1>4, Zenon DEF IInv, TypeOK
  <2>2. cm_started' => cm_started \/ pc = "start"
    BY <1>4, Zenon
  <2>3. cm_started' => "ep" \in raw
    BY <2>2 DEF IInv, TypeOK, Nested, AfterEp
  <2> QED
    BY <1>1, <1>4, <2>1, <2>3 DEF IInv, TypeOK, Running
<1>6. Nested'
  BY <1>1, <1>4, RoleKnown DEF IInv, Nested, BeforeConn, BeforeEp, AfterEp,
     Running, ServerPlaces
<1>7. Accounted'
  BY <1>1, <1>4 DEF IInv, Accounted, Nested, BeforeConn, BeforeEp, AfterEp,
     Running, Leaving
<1>8. RequestState'
  <2>1. handled' <=> request' \in {"accepted", "rejected"}
    <3>1. handled <=> request \in {"accepted", "rejected"}
      BY DEF IInv, RequestState
    <3>2. CASE UNCHANGED <<request, handled>>
      BY <3>1, <3>2, Zenon
    <3>3. CASE handled' = TRUE /\ request' = IF handled THEN request ELSE "rejected"
      BY <3>1, <3>3
    <3>4. CASE handled' = TRUE /\ request' = "accepted"
      BY <3>4
    <3>5. CASE pc = "wait" /\ request' = "pending" /\ UNCHANGED handled
      <4>1. request = "none"
        BY <3>5 DEF IInv, RequestState, BeforeConn
      <4>2. ~handled
        BY <3>1, <4>1
      <4> QED
        BY <3>5, <4>2
    <3> QED
      BY <1>4, <3>2, <3>3, <3>4, <3>5, Zenon
  <2>2. Role = "client" => request' = "none" /\ ~info'
    BY <1>4 DEF IInv, RequestState, Nested, ServerPlaces
  <2>3. /\ info' => request' # "none"
        /\ pc' = "drop_request" => info'
    <3>1. CASE info' = info /\ request' = request /\ pc' # "drop_request"
      BY <3>1 DEF IInv, RequestState
    <3>2. CASE info' = info /\ request' # "none"
               /\ (pc' = "drop_request" => Role = "server" /\ pc = "start")
      BY <3>2 DEF IInv, RequestState, AfterEp
    <3> QED
      BY <1>4, <3>1, <3>2 DEF Running
  <2>4. request' # "again"
    BY <1>4, Zenon DEF IInv, RequestState
  <2> QED
    BY <1>4, <2>1, <2>2, <2>3, <2>4, RoleKnown DEF IInv, RequestState, BeforeConn,
       BeforeEp, AfterEp, Running, ServerPlaces
<1> QED
  BY <1>3, <1>5, <1>6, <1>7, <1>8 DEF IInv

(* by the submission of a request,                                         *)
LEMMA SubmitInv ==
  ASSUME IInv, ShimP!TypeOK, FirstReceive \/ \E s \in Slots : Use(s)
  PROVE  IInv'
<1>1. PICK s \in Slots :
        /\ Shim!Post("ep", Op[s], Mr[s], Dir[s])
        /\ pending' = [pending EXCEPT ![s] = TRUE]
        /\ \/ pc = "post" /\ pc' = "start"
           \/ pc = "app" /\ pc' = "app"
        /\ UNCHANGED <<owner, raw, lost, bytes, cm_started, request, handled,
                       info, failed>>
  <2>1. CASE FirstReceive
    BY <2>1 DEF FirstReceive, Submit, req, Slots
  <2>2. CASE \E s \in Slots : Use(s)
    BY <2>2 DEF Use, Submit, req
  <2> QED
    BY <2>1, <2>2
<1>2. Existing' = Existing /\ IdleSlots \ {s} \subseteq IdleSlots'
  BY <1>1, PostIdle
<1>3. TypeOK'
  BY <1>1 DEF TypeOK, IInv
<1>4. Tracked' /\ FreedGone'
  BY <1>1, <1>2 DEF Tracked, FreedGone, IInv
<1>5. FreeIdle'
  BY <1>1, <1>2 DEF FreeIdle, IInv, TypeOK
<1>6. ListenerBound'
  BY <1>1, ListenerStays DEF IInv, Shim!Post
<1>7. Nested' /\ Accounted' /\ RequestState'
  BY <1>1 DEF IInv, Nested, Accounted, RequestState, BeforeConn, BeforeEp,
     AfterEp, Running, ServerPlaces, Leaving
<1> QED
  BY <1>3, <1>4, <1>5, <1>6, <1>7 DEF IInv

(* by the poll of a queue,                                                 *)
LEMMA PollInv ==
  ASSUME IInv, ShimP!IInv, NEW s \in Slots, Poll(s)
  PROVE  IInv'
<1>1. /\ pc \in {"poll_tx", "poll_rx"}
      /\ \/ pc' \in {"poll_rx", "poll_eq"} /\ failed' = failed
         \/ pc' = "close" /\ failed' = TRUE
      /\ \/ UNCHANGED shim /\ UNCHANGED pending
         \/ /\ Shim!CqPoll(Cq[s], Op[s])
            /\ pending' \in {pending, [pending EXCEPT ![s] = FALSE]}
      /\ UNCHANGED <<owner, raw, lost, bytes, cm_started, request, handled, info>>
  BY DEF Poll, req, Slots
<1>2. ShimP!TypeOK
  BY DEF ShimP!IInv
<1>3. /\ Existing' = Existing /\ IdleSlots \subseteq IdleSlots' /\ listener' = listener
      /\ \/ pending' = pending
         \/ s \in IdleSlots' /\ pending' = [pending EXCEPT ![s] = FALSE]
  <2>1. CASE UNCHANGED shim /\ UNCHANGED pending
    BY <2>1, <1>2, QuietEffect DEF shim
  <2>2. CASE /\ Shim!CqPoll(Cq[s], Op[s])
             /\ pending' \in {pending, [pending EXCEPT ![s] = FALSE]}
    <3>1. listener' = listener
      BY <2>2 DEF Shim!CqPoll
    <3> QED
      BY <2>2, <3>1, PolledIdle
  <2> QED
    BY <1>1, <2>1, <2>2
<1>4. TypeOK'
  BY <1>1, <1>3 DEF TypeOK, IInv
<1>5. Tracked' /\ FreedGone' /\ ListenerBound'
  BY <1>1, <1>3 DEF Tracked, FreedGone, ListenerBound, IInv
<1>6. FreeIdle'
  BY <1>1, <1>3 DEF FreeIdle, IInv, TypeOK
<1>7. Nested' /\ Accounted' /\ RequestState'
  BY <1>1 DEF IInv, Nested, Accounted, RequestState, BeforeConn, BeforeEp,
     AfterEp, Running, ServerPlaces, Leaving
<1> QED
  BY <1>4, <1>5, <1>6, <1>7 DEF IInv

(* by shutdown and by what the provider does on its own,                   *)
LEMMA QuietInv ==
  ASSUME IInv, ShimP!TypeOK, ShutDown \/ \E o \in {"tx_op", "rx_op"} : Complete(o)
  PROVE  IInv'
<1>1. /\ UNCHANGED <<pc, owner, raw, lost, bytes, pending, request, handled,
                     info, failed>>
      /\ cm_started' = cm_started \/ cm_started' = FALSE
  BY DEF ShutDown, Complete, slots, req
<1>2. Existing' = Existing /\ IdleSlots \subseteq IdleSlots'
  BY QuietEffect DEF ShutDown, Complete
<1>3. UNCHANGED listener
  BY DEF ShutDown, Complete, Shim!Shutdown, Shim!Complete, Shim!objects
<1>4. TypeOK'
  <2>1. cm_started \in BOOLEAN
    BY DEF IInv, TypeOK
  <2>2. CASE cm_started' = cm_started
    BY <1>1, <2>1, <2>2 DEF IInv, TypeOK
  <2>3. CASE cm_started' = FALSE
    BY <1>1, <2>3 DEF IInv, TypeOK
  <2> QED
    BY <1>1, <2>2, <2>3
<1>5. Tracked' /\ FreeIdle' /\ FreedGone' /\ ListenerBound'
  BY <1>1, <1>2, <1>3 DEF IInv, Tracked, FreeIdle, FreedGone, ListenerBound
<1>6. Nested' /\ Accounted' /\ RequestState'
  BY <1>1 DEF IInv, Nested, Accounted, RequestState
<1> QED
  BY <1>4, <1>5, <1>6 DEF IInv

(* A slot that is due has neither of its handles left.                     *)
LEMMA DueSlotGone ==
  ASSUME IInv, NEW s \in Slots, SlotDue(s)
  PROVE  owner = "conn" /\ Mr[s] \notin Existing /\ Op[s] \notin Existing
<1>1. Rank[Op[s]] \in Nat /\ Rank[Mr[s]] \in Nat /\ Rank[Op[s]] < Rank[Mr[s]]
  BY DEF Rank, Op, Mr, Slots
<1>2. owner = "conn" /\ lost = {}
  BY DEF SlotDue, IInv, Accounted
<1>3. Mr[s] \notin raw /\ Op[s] \notin raw
  BY <1>1, <1>2, SlotNames DEF SlotDue, Held
<1> QED
  BY <1>2, <1>3 DEF IInv, Tracked

(* by the release of a buffer,                                             *)
LEMMA FreeSlotInv ==
  ASSUME IInv, ShimP!IInv, NEW s \in Slots, FreeSlot(s)
  PROVE  IInv'
<1>1. /\ pc \in {"close", "drop"} /\ bytes' = [bytes EXCEPT ![s] = "freed"]
      /\ pending' = [pending EXCEPT ![s] = FALSE] /\ UNCHANGED shim
      /\ UNCHANGED <<pc, owner, raw, lost, cm_started, request, handled, info, failed>>
  BY DEF FreeSlot, Closing, req
<1>2. owner = "conn" /\ Mr[s] \notin Existing /\ s \in IdleSlots
  BY DueSlotGone, GoneIdle DEF FreeSlot
<1>3. Existing' = Existing /\ IdleSlots \subseteq IdleSlots' /\ UNCHANGED listener
  BY <1>1, QuietEffect DEF shim, ShimP!IInv
<1>4. TypeOK'
  BY <1>1 DEF TypeOK, IInv
<1>5. Tracked' /\ ListenerBound' /\ FreeIdle' /\ FreedGone'
  BY <1>1, <1>2, <1>3 DEF Tracked, FreedGone, ListenerBound, FreeIdle, IInv,
     TypeOK
<1>6. Nested'
  BY <1>1, <1>2 DEF IInv, TypeOK, Nested, BeforeConn, BeforeEp, AfterEp,
     Running, ServerPlaces
<1>7. Accounted' /\ RequestState'
  BY <1>1, <1>2 DEF IInv, Accounted, RequestState
<1> QED
  BY <1>4, <1>5, <1>6, <1>7 DEF IInv

(* by a close that succeeds,                                               *)
LEMMA CloseHandleInv ==
  ASSUME IInv, ShimP!TypeOK, NEW h \in Handles, CloseHandle(h)
  PROVE  IInv'
<1>1. /\ pc \in {"close", "drop"} /\ ~cm_started /\ ShimClose(h) /\ h \in raw
      /\ raw' = raw \ {h}
      /\ UNCHANGED <<pc, owner, lost, bytes, pending, cm_started, request,
                     handled, info, failed>>
  BY DEF CloseHandle, Closing, Due, Held, slots, req
<1>2. Existing' = Existing \ {h} /\ IdleSlots \subseteq IdleSlots'
  BY <1>1, CloseEffect
<1>3. ListenerBound'
  BY <1>1 DEF IInv, ListenerBound, ShimClose, Shim!EndpointClose, Shim!CqClose,
     Shim!OpFree, Shim!MrClose, Shim!EqClose, Shim!DomainClose,
     Shim!ListenerClose, Shim!NoListener, Shim!FabricClose, ShimP!TypeOK
<1>4. TypeOK'
  BY <1>1 DEF TypeOK, IInv
<1>5. Tracked' /\ FreeIdle' /\ FreedGone'
  BY <1>1, <1>2 DEF Tracked, FreedGone, FreeIdle, IInv
<1>6. Nested' /\ Accounted' /\ RequestState'
  BY <1>1 DEF IInv, Nested, Accounted, RequestState, BeforeConn, BeforeEp,
     AfterEp, Running, ServerPlaces
<1> QED
  BY <1>3, <1>4, <1>5, <1>6 DEF IInv

(* by a close that fails, explicit or in a Drop,                           *)
LEMMA CloseFailsInv ==
  ASSUME IInv, ShimP!TypeOK, NEW h \in Handles, CloseFails(h)
  PROVE  IInv'
<1>1. Existing' = Existing /\ IdleSlots \subseteq IdleSlots' /\ UNCHANGED listener
  BY QuietEffect DEF CloseFails, shim, Shim!EndpointCloseRefused
<1>2. /\ pc \in {"close", "drop"} /\ ~cm_started
      /\ UNCHANGED <<pending, cm_started, request, handled, info>>
  BY DEF CloseFails, Closing, req
<1>3. ListenerBound' /\ FreeIdle'
  BY <1>1, <1>2 DEF ListenerBound, FreeIdle, IInv
<1>4. CASE CleanupError
  BY <1>1, <1>2, <1>3, <1>4 DEF CleanupError, IInv, TypeOK, Tracked, FreedGone,
     Nested, Accounted, RequestState, BeforeConn, BeforeEp, AfterEp, Running,
     ServerPlaces, Leaving
<1>5. CASE pc = "drop" /\ GiveUp
  <2>1. /\ pc = "drop" /\ failed /\ failed' = failed
        /\ lost' = lost \cup (raw \cap Owned(owner))
        /\ raw' = raw \ Owned(owner)
        /\ owner' = IF owner = "conn" /\ Role = "server" THEN "listener" ELSE "fabric"
        /\ pc' = IF owner = "fabric" THEN "done"
                 ELSE IF owner = "conn" /\ info THEN "drop_request" ELSE "close"
    BY <1>5 DEF GiveUp, Leave, Held, IInv, Accounted
  <2>2. /\ bytes' \in [Slots -> {"none", "owned", "freed", "leaked"}]
        /\ \A s \in Slots : bytes'[s] = "freed" => bytes[s] = "freed"
    BY <1>5 DEF GiveUp, Forget, IInv, TypeOK
  <2>3. owner \in {"fabric", "listener", "conn"} /\ owner' # "conn"
    BY <2>1 DEF IInv, TypeOK
  <2>4. TypeOK'
    BY <1>2, <2>1, <2>2, <2>3, SlotNames DEF IInv, TypeOK, Handles
  <2>5. Tracked' /\ FreedGone'
    BY <1>1, <2>1, <2>2 DEF IInv, Tracked, FreedGone
  <2>6. Nested'
    <3>1. pc' = "done" => raw' = {}
      BY <2>1, SlotNames DEF IInv, Nested, TypeOK, Handles
    <3>2. raw' \cap Owned("conn") = {}
      BY <2>1, <2>3, SlotNames DEF IInv, Nested
    <3>3. raw' \cap Owned("listener") # {} => owner' = "listener"
      BY <2>1, <2>3, RoleKnown DEF IInv, Nested
    <3>4. Role = "client" => pc' # "drop_request" /\ owner' = "fabric"
      BY <2>1 DEF IInv, Nested, RequestState
    <3>5. Role = "client" => raw' \cap Owned("listener") = {}
      BY <2>1 DEF IInv, Nested
    <3> QED
      BY <2>1, <2>3, <3>1, <3>2, <3>3, <3>4, <3>5 DEF Nested, BeforeConn,
         BeforeEp, AfterEp, Running, ServerPlaces
  <2>7. Accounted' /\ RequestState'
    BY <2>1, <2>3, <1>2 DEF IInv, Accounted, RequestState, BeforeConn, BeforeEp,
       AfterEp, Running, Leaving
  <2> QED
    BY <1>3, <2>4, <2>5, <2>6, <2>7 DEF IInv
<1> QED
  BY <1>2, <1>4, <1>5 DEF CloseFails

(* and by a close that finds nothing left.                                 *)
LEMMA ClosedInv == ASSUME IInv, ShimP!TypeOK, Closed PROVE IInv'
<1>1. /\ pc \in {"close", "drop"} /\ ~cm_started
      /\ raw \cap Owned(owner) = {}
      /\ owner' = IF owner = "conn" /\ Role = "server" THEN "listener" ELSE "fabric"
      /\ pc' = IF owner = "fabric" THEN "done"
               ELSE IF owner = "conn" /\ info THEN "drop_request" ELSE "close"
      /\ UNCHANGED shim
      /\ UNCHANGED <<raw, lost, bytes, pending, cm_started, request, handled, info, failed>>
  BY DEF Closed, Closing, Leave, Held, slots, req
<1>2. Existing' = Existing /\ IdleSlots \subseteq IdleSlots' /\ UNCHANGED listener
  BY <1>1, QuietEffect DEF shim
<1>3. owner = "conn" => \A s \in Slots : bytes[s] = "freed"
  BY <1>1 DEF Closed, SlotDue, IInv, Nested, Held
<1>4. owner \in {"fabric", "listener", "conn"} /\ owner' # "conn"
  BY <1>1 DEF IInv, TypeOK
<1>5. TypeOK'
  BY <1>1, <1>4 DEF IInv, TypeOK
<1>6. Tracked' /\ FreeIdle' /\ FreedGone' /\ ListenerBound'
  BY <1>1, <1>2 DEF Tracked, FreeIdle, FreedGone, ListenerBound, IInv
<1>7. Nested'
  BY <1>1, <1>4, SlotNames, RoleKnown DEF IInv, Nested, BeforeConn, BeforeEp,
     AfterEp, Running, ServerPlaces, RequestState, TypeOK, Handles
<1>8. Accounted' /\ RequestState'
  BY <1>1, <1>3, <1>4 DEF IInv, Accounted, RequestState, BeforeConn, BeforeEp,
     AfterEp, Running, Leaving
<1> QED
  BY <1>5, <1>6, <1>7, <1>8 DEF IInv

(* It holds at the start,                                                  *)
LEMMA InitInv == ASSUME Init PROVE IInv
<1> USE DEF Init
<1>1. TypeOK
  BY DEF TypeOK, Handles
<1>2. Existing = {}
  BY DEF Existing, Exists, Handles, Shim!Init, Shim!NoFabric, Shim!NoDomain,
     Shim!NoEq, Shim!NoCq, Shim!NoListener, Shim!NoEp, Shim!NoMr, Shim!NoOp
<1>3. IdleSlots = Slots
  BY DEF IdleSlots, Slots, Op, Shim!Init, Shim!NoOp, Shim!NoWr
<1>4. Tracked /\ FreeIdle /\ FreedGone
  BY <1>2, <1>3 DEF Tracked, FreeIdle, FreedGone
<1>5. ListenerBound
  BY DEF ListenerBound, Shim!Init, Shim!NoListener
<1>6. Nested
  BY SlotNames DEF Nested, BeforeConn, BeforeEp, AfterEp, Running, ServerPlaces
<1>7. Accounted /\ RequestState
  BY DEF Accounted, RequestState, BeforeConn, BeforeEp, AfterEp, Running,
     Leaving
<1> QED
  BY <1>1, <1>4, <1>5, <1>6, <1>7 DEF IInv

(* and in a stutter,                                                       *)
LEMMA StutterInv == ASSUME IInv, UNCHANGED vars PROVE IInv'
<1>1. UNCHANGED <<pc, owner, raw, lost, bytes, pending, cm_started, request,
                  handled, info, failed, listener>>
  BY DEF vars, shim, slots, req
<1>2. Existing' = Existing /\ IdleSlots' = IdleSlots
  BY DEF vars, shim, Existing, Exists, IdleSlots
<1>3. TypeOK'
  BY <1>1 DEF IInv, TypeOK
<1>4. Tracked' /\ FreeIdle' /\ FreedGone' /\ ListenerBound'
  BY <1>1, <1>2 DEF IInv, Tracked, FreeIdle, FreedGone, ListenerBound
<1>5. Nested' /\ Accounted' /\ RequestState'
  BY <1>1 DEF IInv, Nested, Accounted, RequestState
<1> QED
  BY <1>3, <1>4, <1>5 DEF IInv

(* and so in every step.                                                   *)
LEMMA StepInv == ASSUME IInv, ShimP!IInv, [Next]_vars PROVE IInv'
<1> ShimP!TypeOK
  BY DEF ShimP!IInv
<1>1. CASE Next
  <2>1. CASE Open \/ Empty \/ SetupFails
    BY <2>1, OpenInv, EmptyInv, SetupFailsInv
  <2>2. CASE \/ TakeRequest \/ StartCm \/ NextRound \/ PollEq \/ Reject
             \/ DropRequest \/ \E error \in BOOLEAN : Finish(error)
    BY <2>2, PlaceInv
  <2>3. CASE FirstReceive \/ \E s \in Slots : Use(s)
    BY <2>3, SubmitInv
  <2>4. CASE \E s \in Slots : Poll(s) \/ FreeSlot(s)
    BY <2>4, PollInv, FreeSlotInv
  <2>5. CASE ShutDown \/ \E o \in {"tx_op", "rx_op"} : Complete(o)
    BY <2>5, QuietInv
  <2>6. CASE Closed \/ \E h \in Handles : CloseHandle(h) \/ CloseFails(h)
    BY <2>6, ClosedInv, CloseHandleInv, CloseFailsInv
  <2> QED
    BY <1>1, <2>1, <2>2, <2>3, <2>4, <2>5, <2>6 DEF Next, Step
<1>2. CASE UNCHANGED vars
  BY <1>2, StutterInv
<1> QED
  BY <1>1, <1>2

(* FabricShim's theorems hold of every object of the program.              *)
THEOREM ShimSound == Spec => []ShimP!IInv /\ []ShimP!CleanupOrder
<1>1. ShimP!Spec => []ShimP!IInv
  BY ShimAssumptions, SameFinite, ShimP!Inductive
<1>2. ShimP!Spec => []ShimP!CleanupOrder
  BY ShimAssumptions, SameFinite, ShimP!CleanupAlwaysOrdered
<1> QED
  BY <1>1, <1>2, UsesShim, PTL

(* The inductive invariant holds in every state of the program.            *)
THEOREM Inductive == Spec => []IInv
<1>1. Init => IInv
  BY InitInv
<1>2. IInv /\ ShimP!IInv /\ [Next]_vars => IInv'
  BY StepInv
<1> QED
  BY <1>1, <1>2, ShimSound, PTL DEF Spec

(* The types, and that only an endpoint the program has is shut down.      *)
THEOREM TypeCorrect == Spec => []TypeOK
<1>1. IInv => TypeOK
  BY DEF IInv
<1> QED
  BY <1>1, Inductive, PTL

(* Whatever fails, the program's pointers lead to exactly the objects that *)
(* are open and were not given up.                                         *)
THEOREM HandlesAlwaysTracked == Spec => []HandlesTracked
<1>1. IInv => HandlesTracked
  BY DEF IInv, Tracked, Existing, HandlesTracked, TypeOK
<1> QED
  BY <1>1, Inductive, PTL

(* No buffer is freed while it is registered or in the hands of the NIC.   *)
THEOREM FreedAlwaysReturned == Spec => []FreedIsReturned
<1>1. ASSUME IInv, ShimP!IInv PROVE FreedIsReturned
  <2> SUFFICES ASSUME NEW s \in Slots, bytes[s] = "freed"
               PROVE  ~Exists(Mr[s]) /\ wr[Op[s]].mr # Mr[s]
    BY DEF FreedIsReturned
  <2>1. ~Exists(Mr[s])
    BY <1>1, SlotNames DEF IInv, FreedGone, Existing
  <2>2. Mr[s] \in {"tx_mr", "rx_mr"} /\ Op[s] \in {"tx_op", "rx_op"} /\ Mr[s] # Null
    BY DEF Mr, Op, Slots, Null
  <2>3. ASSUME wr[Op[s]].mr = Mr[s] PROVE FALSE
    <3>1. wr[Op[s]] # ShimP!NoWr
      BY <2>2, <2>3 DEF ShimP!NoWr
    <3>2. /\ mr[Mr[s]].domain = ep[wr[Op[s]].ep].domain
          /\ ep[wr[Op[s]].ep].domain # Null
      BY <1>1, <2>2, <2>3, <3>1 DEF ShimP!IInv, ShimP!WorkLinked, ShimP!Uses
    <3> QED
      BY <2>1, <2>2, <3>2 DEF Exists
  <2> QED
    BY <2>1, <2>3
<1> QED
  BY <1>1, Inductive, ShimSound, PTL

(* A slot whose flag is down is free in the shim and at the provider.      *)
THEOREM FreeSlotsAlwaysFree == Spec => []FreeSlotsAreFree
<1>1. IInv => FreeSlotsAreFree
  BY DEF IInv, FreeIdle, IdleSlots, FreeSlotsAreFree
<1> QED
  BY <1>1, Inductive, PTL

(* The EQ of the connection has no user but the endpoint.                  *)
LEMMA UnusedEq ==
  ASSUME ListenerBound, ShimP!IInv, ep["ep"].domain = Null
  PROVE  eq["eq"].users = 0
<1> USE DEF ShimP!IInv
<1>1. ShimP!Cardinality({}) = 0
  BY FS_EmptySet, SameCardinality
<1>2. ShimP!ListenersOn("eq") = {}
  BY DEF ShimP!ListenersOn, ListenerBound, Null
<1>3. ShimP!EpsOn("eq") = {}
  BY DEF ShimP!EpsOn, ShimP!PointersTogether, Null
<1>4. eq["eq"].users = ShimP!Cardinality(ShimP!ListenersOn("eq"))
                       + ShimP!Cardinality(ShimP!EpsOn("eq"))
  BY DEF ShimP!CountersExact, ShimP!EqUsersExact
<1> QED
  BY <1>1, <1>2, <1>3, <1>4

(* The order of the closes never meets an EBUSY of its own making.         *)
THEOREM NothingEverBusy == Spec => []NothingBusy
<1>1. ASSUME IInv, ShimP!IInv, ShimP!CleanupOrder PROVE NothingBusy
  <2> SUFFICES ASSUME NEW h \in Handles, Closing, Due(h), lost = {}
               PROVE  ~Busy(h)
    BY DEF NothingBusy
  <2> USE DEF Handles
  <2>1. \A g \in Handles : Exists(g) <=> g \in raw
    BY <1>1 DEF IInv, Tracked, Existing
  <2>2. \A g \in Handles : Rank[g] \in Nat
    BY DEF Rank
  <2>3. /\ h \in Owned(owner)
        /\ \A g \in Owned(owner) : Rank[g] < Rank[h] => ~Exists(g)
    BY <2>1, <2>2, SlotNames, <1>1 DEF Due, Held, IInv, TypeOK
  <2>4. owner # "conn" => \A g \in Owned("conn") : ~Exists(g)
    BY <1>1, <2>1, SlotNames DEF IInv, Nested
  <2>5. owner = "fabric" => \A g \in Owned("listener") : ~Exists(g)
    BY <1>1, <2>1, SlotNames DEF IInv, Nested
  <2>6. CASE h \in Owned("conn")
    <3>1. owner = "conn"
      BY <1>1, <2>1, <2>6 DEF IInv, Nested, Due, Held
    <3>2. h # "ep" => ep["ep"].domain = Null
      BY <2>3, <2>6, <3>1, SlotNames DEF Rank, Exists
    <3>3. h \notin {"ep", "tx_cq", "rx_cq"} =>
            \A c \in {"tx_cq", "rx_cq"} : cq[c].domain = Null
      BY <2>3, <2>6, <3>1, SlotNames DEF Rank, Exists
    <3>4. h = "domain" => \A m \in {"tx_mr", "rx_mr"} : mr[m].domain = Null
      BY <2>3, <3>1, SlotNames DEF Rank, Exists
    <3>5. h = "eq" => eq["eq"].users = 0
      BY <1>1, <3>2, UnusedEq DEF IInv
    <3> QED
      BY <1>1, <2>6, <3>2, <3>3, <3>4, <3>5, SlotNames DEF Busy,
         ShimP!CleanupOrder
  <2>7. CASE h = "listener_eq"
    <3>1. owner = "listener"
      BY <1>1, <2>3, <2>7, SlotNames DEF IInv, TypeOK
    <3>2. listener["listener"].fabric = Null /\ ep["ep"].domain = Null
      BY <2>3, <2>4, <2>7, <3>1, SlotNames DEF Rank, Exists
    <3> QED
      BY <1>1, <2>7, <3>2 DEF Busy, ShimP!CleanupOrder
  <2>8. CASE h = "fabric"
    <3>1. owner = "fabric"
      BY <1>1, <2>3, <2>8, SlotNames DEF IInv, TypeOK
    <3>2. /\ listener["listener"].fabric = Null /\ domain["domain"].fabric = Null
          /\ \A q \in {"listener_eq", "eq"} : eq[q].fabric = Null
      BY <2>4, <2>5, <3>1, SlotNames DEF Exists
    <3> QED
      BY <1>1, <2>8, <3>2 DEF Busy, ShimP!CleanupOrder
  <2>9. CASE h = "listener"
    BY <2>9 DEF Busy
  <2> QED
    BY <2>6, <2>7, <2>8, <2>9, SlotNames
<1> QED
  BY <1>1, Inductive, ShimSound, PTL

(* A run that reports no error has closed and freed everything.            *)
THEOREM OkAlwaysMeansClosed == Spec => []OkMeansClosed
<1>1. IInv => OkMeansClosed
  BY DEF IInv, Tracked, Existing, Nested, Accounted, Leaving, OkMeansClosed
<1> QED
  BY <1>1, Inductive, PTL

(* A request is accepted or rejected only while it is pending: no path     *)
(* through from_request and the Drops attempts a second answer.            *)
THEOREM AnsweredAtMostOnce == Spec => []AnsweredOnce
<1>1. IInv => AnsweredOnce
  BY DEF IInv, RequestState, AnsweredOnce
<1> QED
  BY <1>1, Inductive, PTL

(* It is answered before its info is freed and its endpoint closed.        *)
THEOREM AnsweredAlwaysInTime == Spec => AnsweredInTime
<1>1. ASSUME IInv, IInv', ShimP!IInv, [Next]_vars
      PROVE  /\ (info /\ ~info') => request' \in {"accepted", "rejected"}
             /\ Exists("ep") /\ ~Exists("ep")' => request # "pending"
  <2>1. ASSUME info, ~info' PROVE request' \in {"accepted", "rejected"}
    <3>1. DropRequest
      BY <1>1, <2>1 DEF Next, Step, vars, req, Open, Empty, SetupFails,
         TakeRequest, StartCm, FirstReceive, Use, Poll, PollEq, NextRound, Reject,
         ShutDown, Closed, FreeSlot, CloseHandle, CloseFails, Finish, Complete
    <3>2. handled'
      BY <1>1, <3>1 DEF DropRequest, RejectOnce, IInv, TypeOK
    <3> QED
      BY <1>1, <3>2 DEF IInv, RequestState
  <2>2. ASSUME Exists("ep"), ~Exists("ep")', request = "pending" PROVE FALSE
    <3>1. pc \notin {"close", "drop"}
      BY <1>1, <2>2 DEF IInv, RequestState, BeforeEp, AfterEp
    <3>2. "ep" \in raw \cup lost /\ "ep" \notin raw' \cup lost'
      BY <1>1, <2>2 DEF IInv, Tracked, Existing, Handles
    <3>3. raw \subseteq raw' /\ lost \subseteq lost'
      BY <1>1, <3>1 DEF Next, Step, vars, Open, Empty, SetupFails,
         TakeRequest, StartCm, FirstReceive, Use, Poll, PollEq, NextRound, Reject,
         DropRequest, ShutDown, Closed, FreeSlot, CloseHandle, CloseFails,
         Closing, Finish, Complete
    <3> QED
      BY <3>2, <3>3
  <2> QED
    BY <2>1, <2>2
<1> QED
  BY <1>1, Inductive, ShimSound, PTL DEF Spec, AnsweredInTime
-----------------------------------------------------------------------------
(* The program implements Loan.  A slot is lent while its work request is  *)
(* outstanding at the provider, registered while its MR exists.            *)
Lent == {s \in Slots : wr[Op[s]].mr = Mr[s]}
Loans == [s \in Slots |->
   IF bytes[s] # "owned" THEN bytes[s]
   ELSE IF s \in Lent THEN "lent"
   ELSE IF Mr[s] \in Existing THEN "registered" ELSE "owned"]

(* Loans is the state that Transport gives to Loan.                        *)
LEMMA LoansAreMemory ==
  /\ Loans = [s \in Slots |->
       IF bytes[s] # "owned" THEN bytes[s]
       ELSE IF wr[Op[s]].mr = Mr[s] THEN "lent"
       ELSE IF mr[Mr[s]].domain # Null THEN "registered" ELSE "owned"]
  /\ Loans' = [s \in Slots |->
       IF bytes'[s] # "owned" THEN bytes'[s]
       ELSE IF wr'[Op[s]].mr = Mr[s] THEN "lent"
       ELSE IF mr'[Mr[s]].domain # Null THEN "registered" ELSE "owned"]
<1>1. \A s \in Slots : /\ Mr[s] \in Existing <=> mr[Mr[s]].domain # Null
                       /\ Mr[s] \in Existing' <=> mr'[Mr[s]].domain # Null
  BY DEF Existing, Exists, Slots, Mr, Handles
<1> QED
  BY <1>1 DEF Loans, Lent

(* Moving the buffers S, and those only, is a step of Loan.                *)
LEMMA LoanMoves ==
  ASSUME NEW S \in SUBSET Slots, NEW from, NEW to,
         \A s \in S : Loans[s] \in from /\ Loans'[s] = to,
         \A s \in Slots \ S : Loans'[s] = Loans[s]
  PROVE  Memory!Move(S, from, to)
<1>1. Loans' = [b \in Slots |-> IF b \in S THEN to ELSE Loans[b]]
  BY DEF Loans
<1> QED
  BY <1>1, LoansAreMemory DEF Memory!Move

(* Only what is registered, over an open endpoint, is lent.                *)
LEMMA LentIsHeld ==
  ASSUME ShimP!IInv, NEW s \in Lent
  PROVE  Mr[s] \in Existing /\ "ep" \in Existing
<1>1. /\ Mr[s] \in {"tx_mr", "rx_mr"} /\ Op[s] \in {"tx_op", "rx_op"}
      /\ Mr[s] # Null /\ wr[Op[s]].mr = Mr[s]
  BY DEF Mr, Op, Slots, Null, Lent
<1>2. wr[Op[s]] # ShimP!NoWr
  BY <1>1 DEF ShimP!NoWr
<1>3. /\ mr[Mr[s]].domain = ep[wr[Op[s]].ep].domain
      /\ ep[wr[Op[s]].ep].domain # Null
      /\ wr[Op[s]].ep = "ep"
  BY <1>1, <1>2 DEF ShimP!IInv, ShimP!TypeOK, ShimP!WorkRequest,
     ShimP!WorkLinked, ShimP!Uses
<1> QED
  BY <1>1, <1>3 DEF Existing, Exists, Handles

(* What the steps do to Lent.                                              *)
LEMMA LentKept ==
  ASSUME UNCHANGED wr
  PROVE  Lent' = Lent
  BY DEF Lent

(* A completion and the close of the endpoint hand requests back.          *)
LEMMA LentShrinks ==
  ASSUME ShimP!TypeOK,
         (\E o \in {"tx_op", "rx_op"} : Shim!Complete(o))
            \/ \E stale : Shim!EndpointClose("ep", stale)
  PROVE  Lent' \subseteq Lent
<1>1. \A o \in {"tx_op", "rx_op"} : wr'[o] \in {wr[o], Shim!NoWr}
  BY DEF Shim!Complete, Shim!EndpointClose, Shim!ProviderCloseEp, ShimP!TypeOK
<1> QED
  BY <1>1 DEF Lent, Slots, Op, Mr, Null, Shim!NoWr

(* A buffer keeps its state when neither its MR nor its request changes.   *)
LEMMA LoansKept ==
  ASSUME NEW s \in Slots, bytes'[s] = bytes[s], s \in Lent' <=> s \in Lent,
         Mr[s] \in Existing' <=> Mr[s] \in Existing
  PROVE  Loans'[s] = Loans[s]
  BY DEF Loans

(* And so do all of them.                                                  *)
LEMMA LoansKeptAll ==
  ASSUME UNCHANGED bytes, Lent' = Lent,
         \A s \in Slots : Mr[s] \in Existing' <=> Mr[s] \in Existing
  PROVE  Loans' = Loans
<1>1. \A s \in Slots : Loans'[s] = Loans[s]
  BY LoansKept
<1> QED
  BY <1>1 DEF Loans

(* Each step moves the buffers as a step of Loan does, or leaves them.     *)
LEMMA OpenLoan ==
  ASSUME IInv, ShimP!IInv, Open
  PROVE  Memory!Next \/ Loans' = Loans
<1>1. /\ pc \in Handles /\ ShimOpen(pc) /\ UNCHANGED bytes
      /\ pc \notin Existing /\ Existing' = Existing \cup {pc}
  BY OpenEffect DEF Open, slots, ShimP!IInv
<1>2. Lent' = Lent
  <2>1. UNCHANGED wr
    BY <1>1 DEF ShimOpen, Shim!FabricOpen, Shim!DomainOpen, Shim!EqOpen,
       Shim!CqOpen, Shim!ListenerOpen, Shim!EndpointOpen, Shim!MrRegister,
       Shim!OpCreate
  <2> QED
    BY <2>1, LentKept
<1>3. CASE \A s \in Slots : pc # Mr[s]
  BY <1>1, <1>2, <1>3, LoansKeptAll
<1>4. ASSUME NEW s \in Slots, pc = Mr[s] PROVE Memory!Next
  <2>1. s \notin Lent /\ bytes[s] = "owned"
    BY <1>1, <1>4, LentIsHeld DEF IInv, Nested, AfterEp, Slots, Mr
  <2>2. Loans[s] = "owned" /\ Loans'[s] = "registered"
    BY <1>1, <1>2, <1>4, <2>1 DEF Loans
  <2>3. \A t \in Slots \ {s} : Mr[t] # pc
    BY <1>4 DEF Slots, Mr
  <2>4. \A t \in Slots \ {s} : Loans'[t] = Loans[t]
    BY <1>1, <1>2, <2>3, LoansKept
  <2>5. Memory!Register({s})
    BY <2>2, <2>4, LoanMoves DEF Memory!Register
  <2> QED
    BY <2>5 DEF Memory!Next
<1> QED
  BY <1>3, <1>4

(* The buffers come to be with the Connection.                             *)
LEMMA EmptyLoan ==
  ASSUME IInv, ShimP!IInv, Empty
  PROVE  Memory!Next
<1>1. /\ pc = "empty" /\ UNCHANGED shim /\ bytes' = [s \in Slots |-> "owned"]
  BY DEF Empty
<1>2. Existing' = Existing /\ Lent' = Lent
  BY <1>1, LentKept DEF shim, Existing, Exists
<1>3. \A s \in Slots : bytes[s] = "none" /\ Mr[s] \notin Existing
  BY <1>1, SlotNames DEF IInv, Nested, BeforeConn, Tracked, Accounted, Leaving
<1>4. Lent = {}
  BY <1>3, LentIsHeld DEF Lent
<1>5. \A s \in Slots : Loans[s] = "none" /\ Loans'[s] = "owned"
  BY <1>1, <1>2, <1>3, <1>4 DEF Loans
<1>6. Memory!Allocate(Slots)
  BY <1>5, LoanMoves DEF Memory!Allocate
<1> QED
  BY <1>6 DEF Memory!Next

(* A request lends its buffer.                                             *)
LEMMA SubmitLoan ==
  ASSUME IInv, ShimP!IInv, FirstReceive \/ \E s \in Slots : Use(s)
  PROVE  Memory!Next
<1>1. PICK s \in Slots : /\ Shim!Post("ep", Op[s], Mr[s], Dir[s])
                         /\ pc \in {"post", "app"} /\ UNCHANGED bytes
  BY DEF FirstReceive, Use, Submit, Slots
<1>2. bytes[s] = "owned"
  BY <1>1 DEF IInv, Nested, AfterEp, Running
<1>3. Mr[s] \in Existing
  BY <1>1 DEF Shim!Post, Shim!PostArgs, Existing, Exists, Slots, Mr, Handles
<1>4. s \notin Lent
  <2>1. Op[s] \in {"tx_op", "rx_op"} /\ op[Op[s]].cq = Null /\ Mr[s] # Null
    BY <1>1 DEF Shim!Post, Shim!Busy, Op, Mr, Slots, Null
  <2>2. wr[Op[s]] = ShimP!NoWr
    BY <2>1 DEF ShimP!IInv, ShimP!WorkLinked
  <2> QED
    BY <2>1, <2>2 DEF Lent, ShimP!NoWr
<1>5. Lent' = Lent \cup {s}
  <2>1. /\ wr'[Op[s]].mr = Mr[s]
        /\ \A t \in Slots \ {s} : wr'[Op[t]] = wr[Op[t]]
    BY <1>1 DEF Shim!Post, ShimP!IInv, ShimP!TypeOK, Slots, Op
  <2> QED
    BY <2>1 DEF Lent
<1>6. Existing' = Existing
  BY <1>1, PostIdle DEF ShimP!IInv
<1>7. Loans[s] = "registered" /\ Loans'[s] = "lent"
  BY <1>1, <1>2, <1>3, <1>4, <1>5, <1>6 DEF Loans
<1>8. \A t \in Slots \ {s} : Loans'[t] = Loans[t]
  BY <1>1, <1>5, <1>6, LoansKept
<1>9. Memory!Lend({s})
  BY <1>7, <1>8, LoanMoves DEF Memory!Lend
<1> QED
  BY <1>9 DEF Memory!Next

(* A completion or the close of the endpoint hands buffers back.           *)
LEMMA ReturnLoan ==
  ASSUME ShimP!IInv, UNCHANGED bytes, Lent' \subseteq Lent,
         \A s \in Slots : Mr[s] \in Existing' <=> Mr[s] \in Existing
  PROVE  Memory!Next
<1>1. PICK S \in SUBSET Slots : S = {s \in Lent \ Lent' : bytes[s] = "owned"}
  BY DEF Lent
<1>2. \A s \in S : Loans[s] = "lent" /\ Loans'[s] = "registered"
  BY <1>1, LentIsHeld DEF Loans
<1>3. \A s \in Slots \ S : Loans'[s] = Loans[s]
  BY <1>1 DEF Loans
<1>4. Memory!Return(S)
  BY <1>1, <1>2, <1>3, LoanMoves DEF Memory!Return
<1> QED
  BY <1>4 DEF Memory!Next

(* A close takes back, unregisters, or moves no buffer.                    *)
LEMMA CloseHandleLoan ==
  ASSUME IInv, ShimP!IInv, NEW h \in Handles, CloseHandle(h)
  PROVE  Memory!Next \/ Loans' = Loans
<1>1. /\ Due(h) /\ ShimClose(h) /\ UNCHANGED bytes /\ Existing' = Existing \ {h}
  BY CloseEffect DEF CloseHandle, slots, ShimP!IInv
<1>2. CASE h = "ep"
  <2>1. Lent' \subseteq Lent
    BY <1>1, <1>2, LentShrinks DEF ShimClose, ShimP!IInv
  <2> QED
    BY <1>1, <1>2, <2>1, SlotNames, ReturnLoan DEF Mr, Slots
<1>3. CASE h # "ep"
  <2>1. Lent' = Lent
    BY <1>1, <1>3, LentKept DEF ShimClose, Shim!CqClose, Shim!OpFree,
       Shim!MrClose, Shim!EqClose, Shim!DomainClose, Shim!ListenerClose,
       Shim!FabricClose
  <2>2. CASE \A s \in Slots : h # Mr[s]
    BY <1>1, <2>1, <2>2, LoansKeptAll
  <2>3. ASSUME NEW s \in Slots, h = Mr[s] PROVE Memory!Next \/ Loans' = Loans
    <3>1. owner = "conn" /\ lost = {} /\ h \in raw
      BY <1>1, <2>3, SlotNames DEF IInv, Nested, Accounted, Due, Held
    <3>2. "ep" \notin raw
      BY <1>1, <2>3, <3>1, SlotNames DEF Due, Held, Rank, Mr, Slots
    <3>3. s \notin Lent
      BY <3>1, <3>2, LentIsHeld DEF IInv, Tracked
    <3>4. h \in Existing
      BY <3>1 DEF IInv, Tracked
    <3>5. \A t \in Slots \ {s} : Mr[t] # h
      BY <2>3 DEF Slots, Mr
    <3>6. \A t \in Slots \ {s} : Loans'[t] = Loans[t]
      BY <1>1, <2>1, <3>5, LoansKept
    <3>7. CASE bytes[s] = "owned"
      <4>1. Loans[s] = "registered" /\ Loans'[s] = "owned"
        BY <1>1, <2>1, <2>3, <3>3, <3>4, <3>7 DEF Loans
      <4>2. Memory!Unregister({s})
        BY <3>6, <4>1, LoanMoves DEF Memory!Unregister
      <4> QED
        BY <4>2 DEF Memory!Next
    <3>8. CASE bytes[s] # "owned"
      <4>1. Loans'[s] = Loans[s]
        BY <1>1, <3>8 DEF Loans
      <4> QED
        BY <3>6, <4>1 DEF Loans
    <3> QED
      BY <3>7, <3>8
  <2> QED
    BY <2>2, <2>3
<1> QED
  BY <1>2, <1>3

(* A slot frees a buffer it owns.                                          *)
LEMMA FreeSlotLoan ==
  ASSUME IInv, ShimP!IInv, NEW s \in Slots, FreeSlot(s)
  PROVE  Memory!Next
<1>1. /\ UNCHANGED shim /\ bytes' = [bytes EXCEPT ![s] = "freed"]
      /\ bytes[s] = "owned" /\ Mr[s] \notin Existing
  BY DueSlotGone DEF FreeSlot, SlotDue
<1>2. Existing' = Existing /\ Lent' = Lent
  BY <1>1, LentKept DEF shim, Existing, Exists
<1>3. Loans[s] = "owned" /\ Loans'[s] = "freed"
  BY <1>1, LentIsHeld DEF Loans, IInv, TypeOK
<1>4. \A t \in Slots \ {s} : Loans'[t] = Loans[t]
  BY <1>1, <1>2, LoansKept DEF IInv, TypeOK
<1>5. Memory!Free({s})
  BY <1>3, <1>4, LoanMoves DEF Memory!Free
<1> QED
  BY <1>5 DEF Memory!Next

(* A failed close gives up the buffers or moves none.                      *)
LEMMA CloseFailsLoan ==
  ASSUME IInv, ShimP!IInv, NEW h \in Handles, CloseFails(h)
  PROVE  Memory!Next \/ Loans' = Loans
<1>1. Existing' = Existing
  BY QuietEffect DEF CloseFails, shim, ShimP!IInv
<1>2. Lent' = Lent
  BY LentKept DEF CloseFails, shim, Shim!EndpointCloseRefused
<1>3. CASE UNCHANGED bytes
  BY <1>1, <1>2, <1>3, LoansKeptAll
<1>4. CASE GiveUp
  <2>9. PICK S \in SUBSET Slots :
           S = {s \in Slots : owner = "conn" /\ bytes[s] = "owned"}
    OBVIOUS
  <2>1. \A s \in S : Loans'[s] = "leaked"
                     /\ Loans[s] \in {"owned", "registered", "lent"}
    BY <1>4, <2>9 DEF GiveUp, Forget, Loans
  <2>2. \A s \in Slots \ S : bytes'[s] = bytes[s]
    BY <1>4, <2>9 DEF GiveUp, Forget
  <2>3. \A s \in Slots \ S : Loans'[s] = Loans[s]
    BY <1>1, <1>2, <2>2, LoansKept
  <2>4. Memory!GiveUp(S)
    BY <2>1, <2>3, LoanMoves DEF Memory!GiveUp
  <2> QED
    BY <2>4 DEF Memory!Next
<1> QED
  BY <1>3, <1>4 DEF CloseFails, CleanupError

(* The remaining steps leave every buffer where it is.                     *)
LEMMA OtherLoan ==
  ASSUME IInv, ShimP!IInv,
         \/ SetupFails \/ TakeRequest \/ StartCm \/ NextRound \/ PollEq \/ Reject
         \/ DropRequest \/ ShutDown \/ Closed \/ UNCHANGED vars
         \/ \E s \in Slots : Poll(s)
         \/ \E error \in BOOLEAN : Finish(error)
  PROVE  Loans' = Loans
<1> ShimP!TypeOK
  BY DEF ShimP!IInv
<1>1. CASE SetupFails
  <2>1. UNCHANGED wr /\ UNCHANGED bytes
    BY <1>1 DEF SetupFails, slots, ShimHalfOpen, ShimOpenFails, shim,
       Shim!ListenerOpen, Shim!EndpointOpen, Shim!EndpointOpenRolledBack
  <2>2. \A s \in Slots : Mr[s] \in Existing' <=> Mr[s] \in Existing
    <3>1. CASE ShimOpenFails(pc)
      BY <3>1, OpenFailsEffect
    <3>2. CASE ShimHalfOpen(pc)
      <4>1. pc \in {"listener", "ep"} /\ pc \in Handles
        BY <3>2 DEF ShimHalfOpen, Handles
      <4>2. Existing' = Existing \cup {pc}
        BY <3>2, <4>1, OpenEffect
      <4> QED
        BY <4>1, <4>2 DEF Slots, Mr
    <3> QED
      BY <1>1, <3>1, <3>2 DEF SetupFails
  <2> QED
    BY <2>1, <2>2, LentKept, LoansKeptAll
<1>2. CASE \E s \in Slots : Poll(s)
  <2>1. UNCHANGED wr /\ UNCHANGED bytes
    BY <1>2 DEF Poll, Shim!CqPoll, shim
  <2>2. Existing' = Existing
    <3>1. (\E s \in Slots : Shim!CqPoll(Cq[s], Op[s])) \/ UNCHANGED shim
      BY <1>2 DEF Poll
    <3> QED
      BY <3>1, PollEffect, QuietEffect
  <2> QED
    BY <2>1, <2>2, LentKept, LoansKeptAll
<1>3. CASE ShutDown
  <2>1. UNCHANGED wr /\ UNCHANGED bytes
    BY <1>3 DEF ShutDown, Shim!Shutdown, slots
  <2>2. Existing' = Existing
    BY <1>3, QuietEffect DEF ShutDown
  <2> QED
    BY <2>1, <2>2, LentKept, LoansKeptAll
<1>4. CASE UNCHANGED shim /\ UNCHANGED bytes
  BY <1>4, QuietEffect, LentKept, LoansKeptAll DEF shim
<1>5. SetupFails \/ ShutDown \/ (\E s \in Slots : Poll(s))
        \/ (UNCHANGED shim /\ UNCHANGED bytes)
  BY DEF TakeRequest, StartCm, NextRound, PollEq, Reject, DropRequest, Closed,
     Finish, vars, slots
<1> QED
  BY <1>1, <1>2, <1>3, <1>4, <1>5

(* The program lends, takes back and frees the memory of its slots as Loan *)
(* allows, and frees nothing it has given up.                              *)
THEOREM LoanImplemented == Spec => ImplementsLoan
<1>1. ASSUME Init PROVE Memory!Init
  <2>1. bytes = [s \in Slots |-> "none"]
    BY <1>1 DEF Init
  <2>2. \A s \in Slots : Loans[s] = "none"
    BY <2>1 DEF Loans
  <2> QED
    BY <2>2, LoansAreMemory DEF Memory!Init, Loans
<1>2. ASSUME IInv, ShimP!IInv, [Next]_vars PROVE Memory!Next \/ Loans' = Loans
  <2>1. ASSUME NEW o \in {"tx_op", "rx_op"}, Complete(o) PROVE Memory!Next
    <3>1. UNCHANGED bytes /\ Shim!Complete(o)
      BY <2>1 DEF Complete, slots
    <3>2. Existing' = Existing /\ Lent' \subseteq Lent
      BY <1>2, <3>1, CompleteEffect, LentShrinks DEF ShimP!IInv
    <3> QED
      BY <1>2, <3>1, <3>2, ReturnLoan
  <2> QED
    BY <1>2, <2>1, OpenLoan, EmptyLoan, SubmitLoan, CloseHandleLoan,
       FreeSlotLoan, CloseFailsLoan, OtherLoan DEF Next, Step
<1>3. (IInv /\ ShimP!IInv) /\ [Next]_vars => Memory!Next \/ Loans' = Loans
  BY <1>2
<1>4. (IInv /\ ShimP!IInv) /\ [Next]_vars =>
        [Memory!Next]_([s \in Slots |->
            IF bytes[s] # "owned" THEN bytes[s]
            ELSE IF wr[Op[s]].mr = Mr[s] THEN "lent"
            ELSE IF mr[Mr[s]].domain # Null THEN "registered" ELSE "owned"])
  BY <1>3, LoansAreMemory
<1> QED
  BY <1>1, <1>4, Inductive, ShimSound, PTL
  DEF Spec, ImplementsLoan, Memory!Spec
=============================================================================
