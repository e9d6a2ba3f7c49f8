-------------------------- MODULE FabricShimProofs --------------------------
(***************************************************************************)
(* Proofs about FabricShim, for any number of handles of every type.       *)
(***************************************************************************)
EXTENDS FabricShim, FiniteSetTheorems, TLAPS

-----------------------------------------------------------------------------
(* Finiteness of the sets the counters count.                              *)

(* Every set of handles that a counter counts is finite.                   *)
LEMMA Finite ==
  /\ \A f \in Fabrics : /\ IsFiniteSet(DomainsOf(f))
                         /\ IsFiniteSet(EqsOf(f))
                         /\ IsFiniteSet(ListenersOf(f))
  /\ \A d \in Domains : /\ IsFiniteSet(CqsOf(d))
                         /\ IsFiniteSet(EpsOf(d))
                         /\ IsFiniteSet(MrsOf(d))
  /\ \A q \in Eqs : IsFiniteSet(ListenersOn(q)) /\ IsFiniteSet(EpsOn(q))
  /\ \A m \in Mrs : IsFiniteSet(Borrowers(m))
  /\ \A c \in Cqs : IsFiniteSet(OpsOn(c))
<1>1. \A f : /\ DomainsOf(f) \in SUBSET Domains
             /\ EqsOf(f) \in SUBSET Eqs
             /\ ListenersOf(f) \in SUBSET Listeners
  BY DEF DomainsOf, EqsOf, ListenersOf
<1>2. \A d : /\ CqsOf(d) \in SUBSET Cqs
             /\ EpsOf(d) \in SUBSET Eps
             /\ MrsOf(d) \in SUBSET Mrs
  BY DEF CqsOf, EpsOf, MrsOf
<1>3. \A q : ListenersOn(q) \in SUBSET Listeners /\ EpsOn(q) \in SUBSET Eps
  BY DEF ListenersOn, EpsOn
<1>4. \A m : Borrowers(m) \in SUBSET Ops
  BY DEF Borrowers
<1>5. \A c : OpsOn(c) \in SUBSET Ops
  BY DEF OpsOn
<1> QED
  BY <1>1, <1>2, <1>3, <1>4, <1>5, FS_Subset, HandlesFinite

(* The cardinality of a finite set is a natural number.                    *)
LEMMA CardNat == ASSUME NEW S, IsFiniteSet(S) PROVE Cardinality(S) \in Nat
  BY FS_CardinalityType

(* A finite set whose cardinality is zero is empty.                        *)
LEMMA CardZero == ASSUME NEW S, IsFiniteSet(S), Cardinality(S) = 0 PROVE S = {}
  BY FS_EmptySet

-----------------------------------------------------------------------------
(* One handle changes its parent: how the sets the counters count follow.  *)

(* Two finite sets that differ at one element at most.                     *)
LEMMA CountMoved ==
  ASSUME NEW H, IsFiniteSet(H), NEW h \in H,
         NEW S \in SUBSET H, NEW T \in SUBSET H,
         \A k \in H : k # h => (k \in S <=> k \in T)
  PROVE  Cardinality(T) =
           Cardinality(S) + (IF h \in S THEN IF h \in T THEN 0 ELSE -1
                                        ELSE IF h \in T THEN 1 ELSE 0)
<1>1. IsFiniteSet(S) /\ Cardinality(S) \in Nat
  BY FS_Subset, FS_CardinalityType
<1>2. CASE h \in T /\ h \notin S
  <2>1. T = S \cup {h}
    BY <1>2
  <2> QED
    BY <1>1, <1>2, <2>1, FS_AddElement
<1>3. CASE h \in S /\ h \notin T
  <2>1. T = S \ {h}
    BY <1>3
  <2> QED
    BY <1>1, <1>3, <2>1, FS_RemoveElement
<1>4. CASE h \in S <=> h \in T
  <2>1. T = S
    BY <1>4
  <2> QED
    BY <1>1, <1>4, <2>1
<1> QED
  BY <1>2, <1>3, <1>4

(* How much the count of g changes when a pointer goes from old to new.    *)
Delta(old, new, g) ==
  IF new = g THEN IF old = g THEN 0 ELSE 1 ELSE IF old = g THEN -1 ELSE 0

(* A domain is opened on a fabric or closed.                               *)
LEMMA DomainMoved ==
  ASSUME NEW d \in Domains,
         \A k \in Domains : k # d => domain'[k].fabric = domain[k].fabric
  PROVE  \A g : Cardinality(DomainsOf(g)') = Cardinality(DomainsOf(g))
                + Delta(domain[d].fabric, domain'[d].fabric, g)
<1> TAKE g
<1> DEFINE S == DomainsOf(g)
           T == DomainsOf(g)'
<1>1. S \in SUBSET Domains /\ T \in SUBSET Domains
  BY DEF DomainsOf
<1>2. \A k \in Domains : k # d => (k \in S <=> k \in T)
  BY DEF DomainsOf
<1>3. /\ d \in S <=> domain[d].fabric = g
      /\ d \in T <=> domain'[d].fabric = g
  BY DEF DomainsOf
<1> HIDE DEF S, T
<1> QED
  BY <1>1, <1>2, <1>3, CountMoved, HandlesFinite DEF Delta, S, T

(* An EQ is opened on a fabric or closed.                                  *)
LEMMA EqMoved ==
  ASSUME NEW q \in Eqs,
         \A k \in Eqs : k # q => eq'[k].fabric = eq[k].fabric
  PROVE  \A g : Cardinality(EqsOf(g)') = Cardinality(EqsOf(g))
                + Delta(eq[q].fabric, eq'[q].fabric, g)
<1> TAKE g
<1> DEFINE S == EqsOf(g)
           T == EqsOf(g)'
<1>1. S \in SUBSET Eqs /\ T \in SUBSET Eqs
  BY DEF EqsOf
<1>2. \A k \in Eqs : k # q => (k \in S <=> k \in T)
  BY DEF EqsOf
<1>3. /\ q \in S <=> eq[q].fabric = g
      /\ q \in T <=> eq'[q].fabric = g
  BY DEF EqsOf
<1> HIDE DEF S, T
<1> QED
  BY <1>1, <1>2, <1>3, CountMoved, HandlesFinite DEF Delta, S, T

(* A listener is opened on a fabric or closed.                             *)
LEMMA ListenerMoved ==
  ASSUME NEW l \in Listeners,
         \A k \in Listeners : k # l => listener'[k].fabric = listener[k].fabric
  PROVE  \A g : Cardinality(ListenersOf(g)') = Cardinality(ListenersOf(g))
                + Delta(listener[l].fabric, listener'[l].fabric, g)
<1> TAKE g
<1> DEFINE S == ListenersOf(g)
           T == ListenersOf(g)'
<1>1. S \in SUBSET Listeners /\ T \in SUBSET Listeners
  BY DEF ListenersOf
<1>2. \A k \in Listeners : k # l => (k \in S <=> k \in T)
  BY DEF ListenersOf
<1>3. /\ l \in S <=> listener[l].fabric = g
      /\ l \in T <=> listener'[l].fabric = g
  BY DEF ListenersOf
<1> HIDE DEF S, T
<1> QED
  BY <1>1, <1>2, <1>3, CountMoved, HandlesFinite DEF Delta, S, T

(* A listener is bound to an EQ or no longer.                              *)
LEMMA ListenerRebound ==
  ASSUME NEW l \in Listeners,
         \A k \in Listeners : k # l => listener'[k].eq = listener[k].eq
  PROVE  \A g : Cardinality(ListenersOn(g)') = Cardinality(ListenersOn(g))
                + Delta(listener[l].eq, listener'[l].eq, g)
<1> TAKE g
<1> DEFINE S == ListenersOn(g)
           T == ListenersOn(g)'
<1>1. S \in SUBSET Listeners /\ T \in SUBSET Listeners
  BY DEF ListenersOn
<1>2. \A k \in Listeners : k # l => (k \in S <=> k \in T)
  BY DEF ListenersOn
<1>3. /\ l \in S <=> listener[l].eq = g
      /\ l \in T <=> listener'[l].eq = g
  BY DEF ListenersOn
<1> HIDE DEF S, T
<1> QED
  BY <1>1, <1>2, <1>3, CountMoved, HandlesFinite DEF Delta, S, T

(* A CQ is opened on a domain or closed.                                   *)
LEMMA CqMoved ==
  ASSUME NEW c \in Cqs,
         \A k \in Cqs : k # c => cq'[k].domain = cq[k].domain
  PROVE  \A g : Cardinality(CqsOf(g)') = Cardinality(CqsOf(g))
                + Delta(cq[c].domain, cq'[c].domain, g)
<1> TAKE g
<1> DEFINE S == CqsOf(g)
           T == CqsOf(g)'
<1>1. S \in SUBSET Cqs /\ T \in SUBSET Cqs
  BY DEF CqsOf
<1>2. \A k \in Cqs : k # c => (k \in S <=> k \in T)
  BY DEF CqsOf
<1>3. /\ c \in S <=> cq[c].domain = g
      /\ c \in T <=> cq'[c].domain = g
  BY DEF CqsOf
<1> HIDE DEF S, T
<1> QED
  BY <1>1, <1>2, <1>3, CountMoved, HandlesFinite DEF Delta, S, T

(* An endpoint is opened on a domain or closed.                            *)
LEMMA EpMoved ==
  ASSUME NEW e \in Eps,
         \A k \in Eps : k # e => ep'[k].domain = ep[k].domain
  PROVE  \A g : Cardinality(EpsOf(g)') = Cardinality(EpsOf(g))
                + Delta(ep[e].domain, ep'[e].domain, g)
<1> TAKE g
<1> DEFINE S == EpsOf(g)
           T == EpsOf(g)'
<1>1. S \in SUBSET Eps /\ T \in SUBSET Eps
  BY DEF EpsOf
<1>2. \A k \in Eps : k # e => (k \in S <=> k \in T)
  BY DEF EpsOf
<1>3. /\ e \in S <=> ep[e].domain = g
      /\ e \in T <=> ep'[e].domain = g
  BY DEF EpsOf
<1> HIDE DEF S, T
<1> QED
  BY <1>1, <1>2, <1>3, CountMoved, HandlesFinite DEF Delta, S, T

(* An endpoint is bound to an EQ or no longer.                             *)
LEMMA EpRebound ==
  ASSUME NEW e \in Eps,
         \A k \in Eps : k # e => ep'[k].eq = ep[k].eq
  PROVE  \A g : Cardinality(EpsOn(g)') = Cardinality(EpsOn(g))
                + Delta(ep[e].eq, ep'[e].eq, g)
<1> TAKE g
<1> DEFINE S == EpsOn(g)
           T == EpsOn(g)'
<1>1. S \in SUBSET Eps /\ T \in SUBSET Eps
  BY DEF EpsOn
<1>2. \A k \in Eps : k # e => (k \in S <=> k \in T)
  BY DEF EpsOn
<1>3. /\ e \in S <=> ep[e].eq = g
      /\ e \in T <=> ep'[e].eq = g
  BY DEF EpsOn
<1> HIDE DEF S, T
<1> QED
  BY <1>1, <1>2, <1>3, CountMoved, HandlesFinite DEF Delta, S, T

(* An MR is registered in a domain or closed.                              *)
LEMMA MrMoved ==
  ASSUME NEW m \in Mrs,
         \A k \in Mrs : k # m => mr'[k].domain = mr[k].domain
  PROVE  \A g : Cardinality(MrsOf(g)') = Cardinality(MrsOf(g))
                + Delta(mr[m].domain, mr'[m].domain, g)
<1> TAKE g
<1> DEFINE S == MrsOf(g)
           T == MrsOf(g)'
<1>1. S \in SUBSET Mrs /\ T \in SUBSET Mrs
  BY DEF MrsOf
<1>2. \A k \in Mrs : k # m => (k \in S <=> k \in T)
  BY DEF MrsOf
<1>3. /\ m \in S <=> mr[m].domain = g
      /\ m \in T <=> mr'[m].domain = g
  BY DEF MrsOf
<1> HIDE DEF S, T
<1> QED
  BY <1>1, <1>2, <1>3, CountMoved, HandlesFinite DEF Delta, S, T

(* An operation borrows an MR or returns it.                               *)
LEMMA BorrowerMoved ==
  ASSUME NEW o \in Ops,
         \A k \in Ops : k # o => op'[k].mr = op[k].mr
  PROVE  \A g : Cardinality(Borrowers(g)') = Cardinality(Borrowers(g))
                + Delta(op[o].mr, op'[o].mr, g)
<1> TAKE g
<1> DEFINE S == Borrowers(g)
           T == Borrowers(g)'
<1>1. S \in SUBSET Ops /\ T \in SUBSET Ops
  BY DEF Borrowers
<1>2. \A k \in Ops : k # o => (k \in S <=> k \in T)
  BY DEF Borrowers
<1>3. /\ o \in S <=> op[o].mr = g
      /\ o \in T <=> op'[o].mr = g
  BY DEF Borrowers
<1> HIDE DEF S, T
<1> QED
  BY <1>1, <1>2, <1>3, CountMoved, HandlesFinite DEF Delta, S, T

(* An operation is put on the list of a CQ or taken off it.                *)
LEMMA OpMoved ==
  ASSUME NEW o \in Ops,
         \A k \in Ops : k # o => op'[k].cq = op[k].cq
  PROVE  \A g : Cardinality(OpsOn(g)') = Cardinality(OpsOn(g))
                + Delta(op[o].cq, op'[o].cq, g)
<1> TAKE g
<1> DEFINE S == OpsOn(g)
           T == OpsOn(g)'
<1>1. S \in SUBSET Ops /\ T \in SUBSET Ops
  BY DEF OpsOn
<1>2. \A k \in Ops : k # o => (k \in S <=> k \in T)
  BY DEF OpsOn
<1>3. /\ o \in S <=> op[o].cq = g
      /\ o \in T <=> op'[o].cq = g
  BY DEF OpsOn
<1> HIDE DEF S, T
<1> QED
  BY <1>1, <1>2, <1>3, CountMoved, HandlesFinite DEF Delta, S, T

-----------------------------------------------------------------------------
(* The types of the pointers, field by field.                              *)
LEMMA PointerTypes ==
  ASSUME TypeOK
  PROVE  /\ \A d \in Domains : domain[d].fabric \in Fabrics \cup {None}
         /\ \A q \in Eqs : eq[q].fabric \in Fabrics \cup {None}
         /\ \A c \in Cqs : cq[c].domain \in Domains \cup {None}
         /\ \A m \in Mrs : mr[m].domain \in Domains \cup {None}
         /\ \A l \in Listeners : /\ listener[l].fabric \in Fabrics \cup {None}
                                  /\ listener[l].eq \in Eqs \cup {None}
         /\ \A e \in Eps : /\ ep[e].domain \in Domains \cup {None}
                            /\ ep[e].eq \in Eqs \cup {None}
                            /\ ep[e].tx \in Cqs \cup {None}
                            /\ ep[e].rx \in Cqs \cup {None}
         /\ \A o \in Ops : /\ op[o].cq \in Cqs \cup {None}
                            /\ op[o].mr \in Mrs \cup {None}
         /\ \A o \in Ops : /\ wr[o].ep \in Eps \cup {None}
                            /\ wr[o].cq \in Cqs \cup {None}
                            /\ wr[o].mr \in Mrs \cup {None}
<1>1. \A d \in Domains : domain[d].fabric \in Fabrics \cup {None}
  BY DEF TypeOK, DomainObject
<1>2. \A q \in Eqs : eq[q].fabric \in Fabrics \cup {None}
  BY DEF TypeOK, EqObject
<1>3. \A c \in Cqs : cq[c].domain \in Domains \cup {None}
  BY DEF TypeOK, CqObject
<1>4. \A m \in Mrs : mr[m].domain \in Domains \cup {None}
  BY DEF TypeOK, MrObject
<1>5. \A l \in Listeners : /\ listener[l].fabric \in Fabrics \cup {None}
                           /\ listener[l].eq \in Eqs \cup {None}
  BY DEF TypeOK, ListenerObject
<1>6. \A e \in Eps : /\ ep[e].domain \in Domains \cup {None}
                     /\ ep[e].eq \in Eqs \cup {None}
                     /\ ep[e].tx \in Cqs \cup {None}
                     /\ ep[e].rx \in Cqs \cup {None}
  BY DEF TypeOK, EpObject
<1>7. \A o \in Ops : op[o].cq \in Cqs \cup {None} /\ op[o].mr \in Mrs \cup {None}
  BY DEF TypeOK, OpObject
<1>8. \A o \in Ops : /\ wr[o].ep \in Eps \cup {None}
                     /\ wr[o].cq \in Cqs \cup {None}
                     /\ wr[o].mr \in Mrs \cup {None}
  BY DEF TypeOK, WorkRequest
<1> QED
  BY <1>1, <1>2, <1>3, <1>4, <1>5, <1>6, <1>7, <1>8

-----------------------------------------------------------------------------
(* What a part of the invariant depends on: if none of it changes, neither *)
(* does the part.                                                          *)

(* No open object changes its parent, and none is opened or closed.        *)
SameParents ==
  /\ \A d \in Domains : domain'[d].fabric = domain[d].fabric
  /\ \A q \in Eqs : eq'[q].fabric = eq[q].fabric
  /\ \A c \in Cqs : cq'[c].domain = cq[c].domain
  /\ \A m \in Mrs : mr'[m].domain = mr[m].domain

SameListeners ==
  \A l \in Listeners : /\ listener'[l].fabric = listener[l].fabric
                       /\ listener'[l].eq = listener[l].eq

SameEps ==
  \A e \in Eps : /\ ep'[e].domain = ep[e].domain /\ ep'[e].eq = ep[e].eq
                 /\ ep'[e].tx = ep[e].tx /\ ep'[e].rx = ep[e].rx

SameAttachment ==
  \A c \in Cqs : /\ cq'[c].attached = cq[c].attached
                 /\ cq'[c].used = cq[c].used /\ cq'[c].retired = cq[c].retired

(* The child count of a fabric depends on its domains, EQs and listeners.  *)
LEMMA FrameFabricChildren ==
  ASSUME FabricChildrenExact,
         \A f \in Fabrics : fabric'[f].children = fabric[f].children,
         \A d \in Domains : domain'[d].fabric = domain[d].fabric,
         \A q \in Eqs : eq'[q].fabric = eq[q].fabric,
         SameListeners
  PROVE  FabricChildrenExact'
<1>1. \A f : /\ DomainsOf(f)' = DomainsOf(f)
             /\ EqsOf(f)' = EqsOf(f)
             /\ ListenersOf(f)' = ListenersOf(f)
  BY DEF DomainsOf, EqsOf, ListenersOf, SameListeners
<1> QED
  BY <1>1 DEF FabricChildrenExact

(* The child count of a domain depends on its CQs, endpoints and MRs.      *)
LEMMA FrameDomainChildren ==
  ASSUME DomainChildrenExact,
         \A d \in Domains : domain'[d].children = domain[d].children,
         \A c \in Cqs : cq'[c].domain = cq[c].domain,
         \A e \in Eps : ep'[e].domain = ep[e].domain,
         \A m \in Mrs : mr'[m].domain = mr[m].domain
  PROVE  DomainChildrenExact'
<1>1. \A d : /\ CqsOf(d)' = CqsOf(d)
             /\ EpsOf(d)' = EpsOf(d)
             /\ MrsOf(d)' = MrsOf(d)
  BY DEF CqsOf, EpsOf, MrsOf
<1> QED
  BY <1>1 DEF DomainChildrenExact

(* The user count of an EQ depends on the endpoints bound to it.           *)
LEMMA FrameEqUsers ==
  ASSUME EqUsersExact,
         \A q \in Eqs : eq'[q].users = eq[q].users,
         SameListeners,
         \A e \in Eps : ep'[e].eq = ep[e].eq
  PROVE  EqUsersExact'
<1>1. \A q : ListenersOn(q)' = ListenersOn(q) /\ EpsOn(q)' = EpsOn(q)
  BY DEF ListenersOn, EpsOn, SameListeners
<1> QED
  BY <1>1 DEF EqUsersExact

(* The pending count of an MR depends on the operations that borrow it.    *)
LEMMA FrameMrPending ==
  ASSUME MrPendingExact,
         \A m \in Mrs : mr'[m].pending = mr[m].pending,
         \A o \in Ops : op'[o].mr = op[o].mr
  PROVE  MrPendingExact'
<1>1. \A m : Borrowers(m)' = Borrowers(m)
  BY DEF Borrowers
<1> QED
  BY <1>1 DEF MrPendingExact

(* The count of a CQ depends on the operations that point to it.           *)
LEMMA FrameCqCount ==
  ASSUME CqCountExact,
         \A c \in Cqs : cq'[c].count = cq[c].count,
         \A o \in Ops : op'[o].cq = op[o].cq
  PROVE  CqCountExact'
<1>1. \A c : OpsOn(c)' = OpsOn(c)
  BY DEF OpsOn
<1> QED
  BY <1>1 DEF CqCountExact

(* Whether parents outlive their children depends on who is open and who   *)
(* points to whom.                                                         *)
LEMMA FrameParents ==
  ASSUME TypeOK, ParentsOutlive, PointersTogether,
         \A f \in Fabrics : fabric'[f].open = fabric[f].open,
         SameParents, SameListeners, SameEps, SameAttachment
  PROVE  ParentsOutlive'
<1> USE DEF SameParents, SameListeners, SameEps, SameAttachment
<1> QED
  BY PointerTypes DEF ParentsOutlive, PointersTogether

(* The shape of listeners and endpoints depends on nothing else.           *)
LEMMA FramePointers ==
  ASSUME PointersTogether, SameListeners, SameEps
  PROVE  PointersTogether'
  BY DEF PointersTogether, SameListeners, SameEps

(* Who uses a CQ depends on the endpoints and the marks on the CQs.        *)
LEMMA FrameCqsSpent ==
  ASSUME CqsSpent, SameEps, SameAttachment
  PROVE  CqsSpent'
<1>1. \A e \in Eps : \A c : Uses(e, c)' = Uses(e, c)
  BY DEF Uses, SameEps
<1> QED
  BY <1>1 DEF CqsSpent, SameAttachment

(* The links of the operations survive any step that touches neither them, *)
(* nor the pending lists, nor what is open and attached.                   *)
LEMMA FrameOpsLinked ==
  ASSUME TypeOK, OpsLinked, SameAttachment,
         \A c \in Cqs : /\ cq'[c].pending = cq[c].pending
                        /\ cq'[c].count = cq[c].count
                        /\ cq'[c].domain = cq[c].domain,
         \A m \in Mrs : mr'[m].domain = mr[m].domain,
         op' = op
  PROVE  OpsLinked'
<1>1. \A c : OpsOn(c)' = OpsOn(c)
  BY DEF OpsOn
<1>2. \A o \in Ops : op[o].cq \in Cqs \cup {None} /\ op[o].mr \in Mrs \cup {None}
  BY DEF TypeOK, OpObject
<1> QED
  BY <1>1, <1>2 DEF OpsLinked, SameAttachment

(* The provider's work survives any step that touches neither it, nor the  *)
(* operations and endpoints, nor the domains of the MRs.                   *)
LEMMA FrameWorkLinked ==
  ASSUME TypeOK, WorkLinked, SameEps,
         \A m \in Mrs : mr'[m].domain = mr[m].domain,
         op' = op, wr' = wr, cqe' = cqe
  PROVE  WorkLinked'
<1>1. \A e \in Eps : \A c : Uses(e, c)' = Uses(e, c)
  BY DEF Uses, SameEps
<1> QED
  BY <1>1 DEF TypeOK, WorkRequest, WorkLinked, SameEps

-----------------------------------------------------------------------------
(* Every action preserves the invariant.  The parts an action leaves alone *)
(* are left to the frame lemmas.                                           *)

(* A counter that counts somebody is positive.                             *)
LEMMA CardPositive ==
  ASSUME NEW S, IsFiniteSet(S), NEW x \in S
  PROVE  Cardinality(S) \in Nat \ {0}
  BY FS_CardinalityType, FS_EmptySet

(* A fabric, a domain or an EQ that somebody points to has a positive      *)
(* count, so that the count can be decremented.                            *)
LEMMA ChildCounted ==
  ASSUME CountersExact
  PROVE  /\ \A f \in Fabrics :
              DomainsOf(f) # {} \/ EqsOf(f) # {} \/ ListenersOf(f) # {} =>
                fabric[f].children - 1 \in Nat
         /\ \A d \in Domains :
              CqsOf(d) # {} \/ EpsOf(d) # {} \/ MrsOf(d) # {} =>
                domain[d].children - 1 \in Nat
         /\ \A q \in Eqs :
              ListenersOn(q) # {} \/ EpsOn(q) # {} => eq[q].users - 1 \in Nat
<1>1. \A S : IsFiniteSet(S) =>
        Cardinality(S) \in Nat /\ (S # {} => Cardinality(S) > 0)
  BY CardPositive, CardNat
<1>2. ASSUME NEW f \in Fabrics,
             DomainsOf(f) # {} \/ EqsOf(f) # {} \/ ListenersOf(f) # {}
      PROVE  fabric[f].children - 1 \in Nat
  BY <1>1, <1>2, Finite DEF CountersExact, FabricChildrenExact
<1>3. ASSUME NEW d \in Domains,
             CqsOf(d) # {} \/ EpsOf(d) # {} \/ MrsOf(d) # {}
      PROVE  domain[d].children - 1 \in Nat
  BY <1>1, <1>3, Finite DEF CountersExact, DomainChildrenExact
<1>4. ASSUME NEW q \in Eqs, ListenersOn(q) # {} \/ EpsOn(q) # {}
      PROVE  eq[q].users - 1 \in Nat
  BY <1>1, <1>4, Finite DEF CountersExact, EqUsersExact
<1> QED
  BY <1>2, <1>3, <1>4

(* shim_fabric_open preserves the invariant.                               *)
LEMMA FabricOpenInv ==
  ASSUME IInv, NEW f \in Fabrics, FabricOpen(f)
  PROVE  IInv'
<1> USE DEF IInv, CountersExact, SameParents, SameListeners, SameEps, SameAttachment
<1>1. TypeOK'
  <2>1. fabric[f] \in FabricObject
    BY DEF TypeOK
  <2>2. [fabric[f] EXCEPT !.open = TRUE] \in FabricObject
    BY <2>1 DEF FabricObject
  <2> QED
    BY <2>2 DEF TypeOK, FabricOpen
<1>2. FabricChildrenExact'
  BY FrameFabricChildren DEF TypeOK, FabricOpen
<1>3. DomainChildrenExact' /\ EqUsersExact' /\ MrPendingExact' /\ CqCountExact'
  BY FrameDomainChildren, FrameEqUsers, FrameMrPending, FrameCqCount DEF FabricOpen
<1>4. ParentsOutlive'
  BY DEF TypeOK, ParentsOutlive, PointersTogether, FabricOpen
<1>5. PointersTogether' /\ CqsSpent' /\ OpsLinked' /\ WorkLinked'
  BY FramePointers, FrameCqsSpent, FrameOpsLinked, FrameWorkLinked DEF FabricOpen
<1> QED
  BY <1>1, <1>2, <1>3, <1>4, <1>5

(* shim_domain_open preserves the invariant.                               *)
LEMMA DomainOpenInv ==
  ASSUME IInv, NEW d \in Domains, NEW f \in Fabrics, DomainOpen(d, f)
  PROVE  IInv'
<1> USE DEF IInv, CountersExact, SameParents, SameListeners, SameEps, SameAttachment
<1>0. f # None
  BY NoneIsNoHandle
<1>1. TypeOK'
  <2>1. domain[d] \in DomainObject /\ fabric[f] \in FabricObject
    BY DEF TypeOK
  <2>2. /\ [domain[d] EXCEPT !.fabric = f] \in DomainObject
        /\ [fabric[f] EXCEPT !.children = @ + 1] \in FabricObject
    BY <2>1 DEF DomainObject, FabricObject
  <2> QED
    BY <2>2 DEF TypeOK, DomainOpen
<1>2. FabricChildrenExact'
  <2>1. \A g : Cardinality(DomainsOf(g)') =
                 Cardinality(DomainsOf(g)) + Delta(None, f, g)
    BY DomainMoved DEF TypeOK, DomainOpen
  <2>2. \A g : EqsOf(g)' = EqsOf(g) /\ ListenersOf(g)' = ListenersOf(g)
    BY DEF EqsOf, ListenersOf, DomainOpen
  <2>3. \A g \in Fabrics :
          fabric'[g].children = fabric[g].children + Delta(None, f, g)
    BY NoneIsNoHandle DEF TypeOK, FabricObject, DomainOpen, Delta
  <2> QED
    BY <2>1, <2>2, <2>3, Finite, CardNat DEF FabricChildrenExact, Delta
<1>3. DomainChildrenExact' /\ EqUsersExact' /\ MrPendingExact' /\ CqCountExact'
  BY FrameDomainChildren, FrameEqUsers, FrameMrPending, FrameCqCount
  DEF TypeOK, DomainOpen
<1>4. ParentsOutlive'
  BY <1>0 DEF TypeOK, ParentsOutlive, PointersTogether, DomainOpen
<1>5. PointersTogether' /\ CqsSpent' /\ OpsLinked' /\ WorkLinked'
  BY FramePointers, FrameCqsSpent, FrameOpsLinked, FrameWorkLinked DEF DomainOpen
<1> QED
  BY <1>1, <1>2, <1>3, <1>4, <1>5

(* shim_eq_open preserves the invariant.                                   *)
LEMMA EqOpenInv ==
  ASSUME IInv, NEW q \in Eqs, NEW f \in Fabrics, EqOpen(q, f)
  PROVE  IInv'
<1> USE DEF IInv, CountersExact, SameParents, SameListeners, SameEps, SameAttachment
<1>0. f # None
  BY NoneIsNoHandle
<1>1. TypeOK'
  <2>1. eq[q] \in EqObject /\ fabric[f] \in FabricObject
    BY DEF TypeOK
  <2>2. /\ [eq[q] EXCEPT !.fabric = f] \in EqObject
        /\ [fabric[f] EXCEPT !.children = @ + 1] \in FabricObject
    BY <2>1 DEF EqObject, FabricObject
  <2> QED
    BY <2>2 DEF TypeOK, EqOpen
<1>2. FabricChildrenExact'
  <2>1. \A g : Cardinality(EqsOf(g)') = Cardinality(EqsOf(g)) + Delta(None, f, g)
    BY EqMoved DEF TypeOK, EqOpen
  <2>2. \A g : DomainsOf(g)' = DomainsOf(g) /\ ListenersOf(g)' = ListenersOf(g)
    BY DEF DomainsOf, ListenersOf, EqOpen
  <2>3. \A g \in Fabrics :
          fabric'[g].children = fabric[g].children + Delta(None, f, g)
    BY NoneIsNoHandle DEF TypeOK, FabricObject, EqOpen, Delta
  <2> QED
    BY <2>1, <2>2, <2>3, Finite, CardNat DEF FabricChildrenExact, Delta
<1>3. DomainChildrenExact' /\ EqUsersExact' /\ MrPendingExact' /\ CqCountExact'
  BY FrameDomainChildren, FrameEqUsers, FrameMrPending, FrameCqCount
  DEF TypeOK, EqOpen
<1>4. ParentsOutlive'
  BY <1>0 DEF TypeOK, ParentsOutlive, PointersTogether, EqOpen
<1>5. PointersTogether' /\ CqsSpent' /\ OpsLinked' /\ WorkLinked'
  BY FramePointers, FrameCqsSpent, FrameOpsLinked, FrameWorkLinked DEF EqOpen
<1> QED
  BY <1>1, <1>2, <1>3, <1>4, <1>5

(* shim_cq_open preserves the invariant.                                   *)
LEMMA CqOpenInv ==
  ASSUME IInv, NEW c \in Cqs, NEW d \in Domains, CqOpen(c, d)
  PROVE  IInv'
<1> USE DEF IInv, CountersExact, SameParents, SameListeners, SameEps, SameAttachment
<1>0. d # None
  BY NoneIsNoHandle
<1>1. TypeOK'
  <2>1. cq[c] \in CqObject /\ domain[d] \in DomainObject
    BY DEF TypeOK
  <2>2. /\ [cq[c] EXCEPT !.domain = d] \in CqObject
        /\ [domain[d] EXCEPT !.children = @ + 1] \in DomainObject
    BY <2>1 DEF CqObject, DomainObject
  <2> QED
    BY <2>2 DEF TypeOK, CqOpen
<1>2. DomainChildrenExact'
  <2>1. \A g : Cardinality(CqsOf(g)') = Cardinality(CqsOf(g)) + Delta(None, d, g)
    BY CqMoved DEF TypeOK, CqOpen
  <2>2. \A g : EpsOf(g)' = EpsOf(g) /\ MrsOf(g)' = MrsOf(g)
    BY DEF EpsOf, MrsOf, CqOpen
  <2>3. \A g \in Domains :
          domain'[g].children = domain[g].children + Delta(None, d, g)
    BY NoneIsNoHandle DEF TypeOK, DomainObject, CqOpen, Delta
  <2> QED
    BY <2>1, <2>2, <2>3, Finite, CardNat DEF DomainChildrenExact, Delta
<1>3. FabricChildrenExact' /\ EqUsersExact' /\ MrPendingExact' /\ CqCountExact'
  BY FrameFabricChildren, FrameEqUsers, FrameMrPending, FrameCqCount
  DEF TypeOK, CqOpen
<1>4. ParentsOutlive'
  BY <1>0 DEF TypeOK, ParentsOutlive, PointersTogether, CqOpen
<1>5. PointersTogether' /\ CqsSpent' /\ WorkLinked'
  BY FramePointers, FrameCqsSpent, FrameWorkLinked DEF TypeOK, CqOpen
<1>6. OpsLinked'
  <2>1. \A k : OpsOn(k)' = OpsOn(k)
    BY DEF OpsOn, CqOpen
  <2> QED
    BY <1>0, <2>1 DEF TypeOK, OpsLinked, CqOpen
<1> QED
  BY <1>1, <1>2, <1>3, <1>4, <1>5, <1>6

(* shim_fabric_close preserves the invariant: the exact count says that    *)
(* nothing is left that points to the fabric.                              *)
LEMMA FabricCloseInv ==
  ASSUME IInv, NEW f \in Fabrics, FabricClose(f)
  PROVE  IInv'
<1> USE DEF IInv, CountersExact, SameParents, SameListeners, SameEps, SameAttachment
<1>1. TypeOK'
  BY DEF TypeOK, FabricClose, NoFabric, FabricObject
<1>2. FabricChildrenExact'
  BY FrameFabricChildren DEF TypeOK, FabricClose, NoFabric
<1>3. DomainChildrenExact' /\ EqUsersExact' /\ MrPendingExact' /\ CqCountExact'
  BY FrameDomainChildren, FrameEqUsers, FrameMrPending, FrameCqCount DEF FabricClose
<1>4. DomainsOf(f) = {} /\ EqsOf(f) = {} /\ ListenersOf(f) = {}
  <2>1. Cardinality(DomainsOf(f)) + Cardinality(EqsOf(f)) + Cardinality(ListenersOf(f)) = 0
    BY DEF FabricChildrenExact, FabricClose
  <2>2. /\ IsFiniteSet(DomainsOf(f))
        /\ IsFiniteSet(EqsOf(f))
        /\ IsFiniteSet(ListenersOf(f))
    BY Finite
  <2>3. /\ Cardinality(DomainsOf(f)) = 0
        /\ Cardinality(EqsOf(f)) = 0
        /\ Cardinality(ListenersOf(f)) = 0
    BY <2>1, <2>2, CardNat
  <2> QED
    BY <2>2, <2>3, CardZero
<1>5. ParentsOutlive'
  BY <1>4, NoneIsNoHandle
  DEF TypeOK, ParentsOutlive, PointersTogether, FabricClose, DomainsOf, EqsOf, ListenersOf
<1>6. PointersTogether' /\ CqsSpent' /\ OpsLinked' /\ WorkLinked'
  BY FramePointers, FrameCqsSpent, FrameOpsLinked, FrameWorkLinked DEF FabricClose
<1> QED
  BY <1>1, <1>2, <1>3, <1>5, <1>6

(* shim_domain_close preserves the invariant.                              *)
LEMMA DomainCloseInv ==
  ASSUME IInv, NEW d \in Domains, DomainClose(d)
  PROVE  IInv'
<1> USE DEF IInv, CountersExact, SameParents, SameListeners, SameEps, SameAttachment
<1> DEFINE f == domain[d].fabric
<1>0. f \in Fabrics /\ f # None /\ d \in DomainsOf(f)
  BY DEF TypeOK, DomainObject, DomainClose, DomainsOf
<1>1. FabricChildrenExact'
  <2>1. \A g : Cardinality(DomainsOf(g)') =
                 Cardinality(DomainsOf(g)) + Delta(f, None, g)
    BY DomainMoved DEF TypeOK, DomainClose, NoDomain
  <2>2. \A g : EqsOf(g)' = EqsOf(g) /\ ListenersOf(g)' = ListenersOf(g)
    BY DEF EqsOf, ListenersOf, DomainClose
  <2>3. \A g \in Fabrics :
          fabric'[g].children = fabric[g].children + Delta(f, None, g)
    BY <1>0, NoneIsNoHandle DEF TypeOK, FabricObject, DomainClose, Delta
  <2> QED
    BY <2>1, <2>2, <2>3, Finite, CardNat DEF FabricChildrenExact, Delta
<1>2. TypeOK'
  <2>1. /\ fabric[f] \in FabricObject
        /\ fabric[f].children - 1 \in Nat
    BY <1>0, ChildCounted DEF TypeOK, DomainsOf
  <2>2. /\ NoDomain \in DomainObject
        /\ [fabric[f] EXCEPT !.children = @ - 1] \in FabricObject
    BY <2>1 DEF NoDomain, DomainObject, FabricObject
  <2> QED
    BY <1>0, <2>2 DEF TypeOK, DomainClose
<1>3. DomainChildrenExact' /\ EqUsersExact' /\ MrPendingExact' /\ CqCountExact'
  BY FrameDomainChildren, FrameEqUsers, FrameMrPending, FrameCqCount
  DEF TypeOK, DomainClose, NoDomain
<1>4. CqsOf(d) = {} /\ EpsOf(d) = {} /\ MrsOf(d) = {}
  <2>1. Cardinality(CqsOf(d)) + Cardinality(EpsOf(d)) + Cardinality(MrsOf(d)) = 0
    BY DEF DomainChildrenExact, DomainClose
  <2>2. /\ IsFiniteSet(CqsOf(d))
        /\ IsFiniteSet(EpsOf(d))
        /\ IsFiniteSet(MrsOf(d))
    BY Finite
  <2>3. /\ Cardinality(CqsOf(d)) = 0
        /\ Cardinality(EpsOf(d)) = 0
        /\ Cardinality(MrsOf(d)) = 0
    BY <2>1, <2>2, CardNat
  <2> QED
    BY <2>2, <2>3, CardZero
<1>5. ParentsOutlive'
  BY <1>0, <1>4, NoneIsNoHandle
  DEF TypeOK, ParentsOutlive, PointersTogether, DomainClose, NoDomain, CqsOf, EpsOf, MrsOf
<1>6. PointersTogether' /\ CqsSpent' /\ OpsLinked' /\ WorkLinked'
  BY FramePointers, FrameCqsSpent, FrameOpsLinked, FrameWorkLinked DEF DomainClose
<1> QED
  BY <1>1, <1>2, <1>3, <1>5, <1>6

(* shim_eq_close preserves the invariant.                                  *)
LEMMA EqCloseInv ==
  ASSUME IInv, NEW q \in Eqs, EqClose(q)
  PROVE  IInv'
<1> USE DEF IInv, CountersExact, SameParents, SameListeners, SameEps, SameAttachment
<1> DEFINE f == eq[q].fabric
<1>0. f \in Fabrics /\ f # None /\ q # None
  BY NoneIsNoHandle DEF TypeOK, EqObject, EqClose
<1>1. FabricChildrenExact'
  <2>1. \A g : Cardinality(EqsOf(g)') = Cardinality(EqsOf(g)) + Delta(f, None, g)
    BY EqMoved DEF TypeOK, EqClose, NoEq
  <2>2. \A g : DomainsOf(g)' = DomainsOf(g) /\ ListenersOf(g)' = ListenersOf(g)
    BY DEF DomainsOf, ListenersOf, EqClose
  <2>3. \A g \in Fabrics :
          fabric'[g].children = fabric[g].children + Delta(f, None, g)
    BY <1>0, NoneIsNoHandle DEF TypeOK, FabricObject, EqClose, Delta
  <2> QED
    BY <2>1, <2>2, <2>3, Finite, CardNat DEF FabricChildrenExact, Delta
<1>2. TypeOK'
  <2>1. /\ fabric[f] \in FabricObject
        /\ fabric[f].children - 1 \in Nat
    BY <1>0, ChildCounted DEF TypeOK, EqsOf
  <2>2. /\ NoEq \in EqObject
        /\ [fabric[f] EXCEPT !.children = @ - 1] \in FabricObject
    BY <2>1 DEF NoEq, EqObject, FabricObject
  <2> QED
    BY <1>0, <2>2 DEF TypeOK, EqClose
<1>3. DomainChildrenExact' /\ EqUsersExact' /\ MrPendingExact' /\ CqCountExact'
  BY FrameDomainChildren, FrameEqUsers, FrameMrPending, FrameCqCount
  DEF TypeOK, EqClose, NoEq
<1>4. ListenersOn(q) = {} /\ EpsOn(q) = {}
  <2>1. Cardinality(ListenersOn(q)) + Cardinality(EpsOn(q)) = 0
    BY DEF EqUsersExact, EqClose
  <2>2. Cardinality(ListenersOn(q)) = 0 /\ Cardinality(EpsOn(q)) = 0
    BY <2>1, Finite, CardNat
  <2> QED
    BY <2>2, Finite, CardZero
<1>5. ParentsOutlive'
  BY <1>0, <1>4, NoneIsNoHandle
  DEF TypeOK, ParentsOutlive, PointersTogether, EqClose, NoEq, ListenersOn, EpsOn
<1>6. PointersTogether' /\ CqsSpent' /\ OpsLinked' /\ WorkLinked'
  BY FramePointers, FrameCqsSpent, FrameOpsLinked, FrameWorkLinked DEF EqClose
<1> QED
  BY <1>1, <1>2, <1>3, <1>5, <1>6

(* shim_listener_open preserves the invariant.                             *)
LEMMA ListenerOpenInv ==
  ASSUME IInv, NEW l \in Listeners, NEW f \in Fabrics, NEW q \in Eqs,
         NEW ready \in BOOLEAN, ListenerOpen(l, f, q, ready)
  PROVE  IInv'
<1> USE DEF IInv, CountersExact, SameParents, SameListeners, SameEps, SameAttachment
<1> DEFINE new == [fabric |-> f, eq |-> q, ready |-> ready]
<1>0. f # None /\ q # None /\ listener[l].fabric = None /\ listener[l].eq = None
  BY NoneIsNoHandle DEF PointersTogether, ListenerOpen
<1>1. TypeOK'
  <2>1. fabric[f] \in FabricObject /\ eq[q] \in EqObject
    BY DEF TypeOK
  <2>2. /\ new \in ListenerObject
        /\ [fabric[f] EXCEPT !.children = @ + 1] \in FabricObject
        /\ [eq[q] EXCEPT !.users = @ + 1] \in EqObject
    BY <2>1 DEF ListenerObject, FabricObject, EqObject
  <2> QED
    BY <2>2 DEF TypeOK, ListenerOpen
<1>2. listener'[l] = new /\ \A k \in Listeners : k # l => listener'[k] = listener[k]
  BY DEF TypeOK, ListenerOpen
<1>3. FabricChildrenExact'
  <2>1. \A g : Cardinality(ListenersOf(g)') =
                 Cardinality(ListenersOf(g)) + Delta(None, f, g)
    BY <1>0, <1>2, ListenerMoved
  <2>2. \A g : DomainsOf(g)' = DomainsOf(g) /\ EqsOf(g)' = EqsOf(g)
    BY DEF DomainsOf, EqsOf, TypeOK, EqObject, ListenerOpen
  <2>3. \A g \in Fabrics :
          fabric'[g].children = fabric[g].children + Delta(None, f, g)
    BY NoneIsNoHandle DEF TypeOK, FabricObject, ListenerOpen, Delta
  <2> QED
    BY <2>1, <2>2, <2>3, Finite, CardNat DEF FabricChildrenExact, Delta
<1>4. EqUsersExact'
  <2>1. \A g : Cardinality(ListenersOn(g)') =
                 Cardinality(ListenersOn(g)) + Delta(None, q, g)
    BY <1>0, <1>2, ListenerRebound
  <2>2. \A g : EpsOn(g)' = EpsOn(g)
    BY DEF EpsOn, ListenerOpen
  <2>3. \A g \in Eqs : eq'[g].users = eq[g].users + Delta(None, q, g)
    BY NoneIsNoHandle DEF TypeOK, EqObject, ListenerOpen, Delta
  <2> QED
    BY <2>1, <2>2, <2>3, Finite, CardNat DEF EqUsersExact, Delta
<1>5. DomainChildrenExact' /\ MrPendingExact' /\ CqCountExact'
  BY FrameDomainChildren, FrameMrPending, FrameCqCount DEF ListenerOpen
<1>6. ParentsOutlive'
  <2>1. /\ \A g \in Fabrics : fabric'[g].open = fabric[g].open
        /\ \A k \in Eqs : eq'[k].fabric = eq[k].fabric
    BY DEF TypeOK, FabricObject, EqObject, ListenerOpen
  <2> QED
    BY <1>0, <1>2, <2>1, PointerTypes DEF ParentsOutlive, PointersTogether, ListenerOpen
<1>7. PointersTogether'
  BY <1>0, <1>2 DEF PointersTogether, ListenerOpen
<1>8. CqsSpent' /\ OpsLinked' /\ WorkLinked'
  BY FrameCqsSpent, FrameOpsLinked, FrameWorkLinked DEF ListenerOpen
<1> QED
  BY <1>1, <1>3, <1>4, <1>5, <1>6, <1>7, <1>8

(* shim_listener_close preserves the invariant.                            *)
LEMMA ListenerCloseInv ==
  ASSUME IInv, NEW l \in Listeners, ListenerClose(l)
  PROVE  IInv'
<1> USE DEF IInv, CountersExact, SameParents, SameListeners, SameEps, SameAttachment
<1> DEFINE f == listener[l].fabric
           q == listener[l].eq
<1>0. f \in Fabrics /\ q \in Eqs /\ f # None /\ q # None
  BY PointerTypes DEF PointersTogether, ListenerClose
<1>1. TypeOK'
  <2>1. fabric[f] \in FabricObject /\ eq[q] \in EqObject
    BY <1>0 DEF TypeOK
  <2>2. l \in ListenersOf(f) /\ l \in ListenersOn(q)
    BY DEF ListenersOf, ListenersOn
  <2>3. fabric[f].children - 1 \in Nat /\ eq[q].users - 1 \in Nat
    BY <1>0, <2>2, ChildCounted
  <2>4. /\ NoListener \in ListenerObject
        /\ [fabric[f] EXCEPT !.children = @ - 1] \in FabricObject
        /\ [eq[q] EXCEPT !.users = @ - 1] \in EqObject
    BY <2>1, <2>3 DEF NoListener, ListenerObject, FabricObject, EqObject
  <2> QED
    BY <1>0, <2>4 DEF TypeOK, ListenerClose
<1>2. /\ listener'[l].fabric = None /\ listener'[l].eq = None
      /\ \A k \in Listeners : k # l => listener'[k] = listener[k]
  BY DEF TypeOK, ListenerClose, NoListener
<1>3. FabricChildrenExact'
  <2>1. \A g : Cardinality(ListenersOf(g)') =
                 Cardinality(ListenersOf(g)) + Delta(f, None, g)
    BY <1>2, ListenerMoved
  <2>2. \A g : DomainsOf(g)' = DomainsOf(g) /\ EqsOf(g)' = EqsOf(g)
    BY DEF DomainsOf, EqsOf, TypeOK, EqObject, ListenerClose
  <2>3. \A g \in Fabrics :
          fabric'[g].children = fabric[g].children + Delta(f, None, g)
    BY <1>0, NoneIsNoHandle DEF TypeOK, FabricObject, ListenerClose, Delta
  <2> QED
    BY <2>1, <2>2, <2>3, Finite, CardNat DEF FabricChildrenExact, Delta
<1>4. EqUsersExact'
  <2>1. \A g : Cardinality(ListenersOn(g)') =
                 Cardinality(ListenersOn(g)) + Delta(q, None, g)
    BY <1>2, ListenerRebound
  <2>2. \A g : EpsOn(g)' = EpsOn(g)
    BY DEF EpsOn, ListenerClose
  <2>3. \A g \in Eqs : eq'[g].users = eq[g].users + Delta(q, None, g)
    BY <1>0, NoneIsNoHandle DEF TypeOK, EqObject, ListenerClose, Delta
  <2> QED
    BY <2>1, <2>2, <2>3, Finite, CardNat DEF EqUsersExact, Delta
<1>5. DomainChildrenExact' /\ MrPendingExact' /\ CqCountExact'
  BY FrameDomainChildren, FrameMrPending, FrameCqCount DEF ListenerClose
<1>6. ParentsOutlive'
  <2>1. /\ \A g \in Fabrics : fabric'[g].open = fabric[g].open
        /\ \A k \in Eqs : eq'[k].fabric = eq[k].fabric
    BY DEF TypeOK, FabricObject, EqObject, ListenerClose
  <2>2. UNCHANGED <<domain, cq, ep, mr>>
    BY DEF ListenerClose
  <2>3. \A k \in Listeners : listener'[k].fabric # None =>
          /\ fabric'[listener'[k].fabric].open
          /\ eq'[listener'[k].eq].fabric = listener'[k].fabric
    BY <1>2, <2>1, PointerTypes DEF ParentsOutlive, PointersTogether
  <2> QED
    BY <2>1, <2>2, <2>3, PointerTypes DEF ParentsOutlive, PointersTogether
<1>7. PointersTogether'
  BY <1>2 DEF PointersTogether, ListenerClose
<1>8. CqsSpent' /\ OpsLinked' /\ WorkLinked'
  BY FrameCqsSpent, FrameOpsLinked, FrameWorkLinked DEF ListenerClose
<1> QED
  BY <1>1, <1>3, <1>4, <1>5, <1>6, <1>7, <1>8

(* shim_endpoint_open that leaves an endpoint preserves the invariant.     *)
LEMMA EndpointOpenInv ==
  ASSUME IInv, NEW e \in Eps, NEW d \in Domains, NEW q \in Eqs,
         NEW t \in Cqs, NEW r \in Cqs, NEW ready \in BOOLEAN, NEW closing \in BOOLEAN,
         EndpointOpen(e, d, q, t, r, ready, closing)
  PROVE  IInv'
<1> USE DEF IInv, CountersExact, SameParents, SameListeners, SameEps, SameAttachment
<1> DEFINE new == [domain |-> d, eq |-> q, tx |-> t, rx |-> r,
                   ready |-> ready, closing |-> closing]
<1>0. /\ d # None /\ q # None /\ t # None /\ r # None /\ t # r
      /\ ep[e].domain = None /\ ep[e].eq = None
      /\ cq[t].domain = d /\ cq[r].domain = d
      /\ ~cq[t].used /\ ~cq[r].used
  BY NoneIsNoHandle DEF PointersTogether, EndpointOpen, EndpointArgs
<1>1. TypeOK'
  <2>1. cq[t] \in CqObject /\ cq[r] \in CqObject /\ domain[d] \in DomainObject
          /\ eq[q] \in EqObject
    BY DEF TypeOK
  <2>2. /\ [cq[t] EXCEPT !.used = TRUE] \in CqObject
        /\ [cq[r] EXCEPT !.used = TRUE] \in CqObject
    BY <2>1 DEF CqObject
  <2>3. /\ [[cq[t] EXCEPT !.used = TRUE] EXCEPT !.attached = TRUE] \in CqObject
        /\ [[cq[r] EXCEPT !.used = TRUE] EXCEPT !.attached = TRUE] \in CqObject
    BY <2>2 DEF CqObject
  <2>4. cq' \in [Cqs -> CqObject]
    BY <1>0, <2>3 DEF TypeOK, EndpointOpen
  <2>5. /\ new \in EpObject
        /\ [domain[d] EXCEPT !.children = @ + 1] \in DomainObject
        /\ [eq[q] EXCEPT !.users = @ + 1] \in EqObject
    BY <2>1 DEF EpObject, DomainObject, EqObject
  <2> QED
    BY <2>4, <2>5 DEF TypeOK, EndpointOpen
<1>2. ep'[e] = new /\ \A k \in Eps : k # e => ep'[k] = ep[k]
  BY DEF TypeOK, EndpointOpen
<1>3. /\ \A c \in Cqs : /\ cq'[c].domain = cq[c].domain
                        /\ cq'[c].pending = cq[c].pending
                        /\ cq'[c].count = cq[c].count
                        /\ cq'[c].retired = cq[c].retired
      /\ \A c \in Cqs : c \notin {t, r} => cq'[c] = cq[c]
      /\ cq'[t].used /\ cq'[t].attached /\ cq'[r].used /\ cq'[r].attached
  <2>1. cq[t] \in CqObject /\ cq[r] \in CqObject
    BY DEF TypeOK
  <2>2. /\ cq'[t] = [[cq[t] EXCEPT !.used = TRUE] EXCEPT !.attached = TRUE]
        /\ cq'[r] = [[cq[r] EXCEPT !.used = TRUE] EXCEPT !.attached = TRUE]
        /\ \A c \in Cqs : c \notin {t, r} => cq'[c] = cq[c]
    BY <1>0 DEF TypeOK, EndpointOpen
  <2>3. /\ cq'[t].domain = cq[t].domain /\ cq'[t].pending = cq[t].pending
        /\ cq'[t].count = cq[t].count /\ cq'[t].retired = cq[t].retired
    BY <2>1, <2>2 DEF CqObject
  <2>4. /\ cq'[r].domain = cq[r].domain /\ cq'[r].pending = cq[r].pending
        /\ cq'[r].count = cq[r].count /\ cq'[r].retired = cq[r].retired
    BY <2>1, <2>2 DEF CqObject
  <2>5. cq'[t].used /\ cq'[t].attached
    BY <2>1, <2>2 DEF CqObject
  <2>6. cq'[r].used /\ cq'[r].attached
    BY <2>1, <2>2 DEF CqObject
  <2> QED
    BY <2>2, <2>3, <2>4, <2>5, <2>6
<1>4. /\ \A k \in Domains : domain'[k].fabric = domain[k].fabric
      /\ \A k \in Eqs : eq'[k].fabric = eq[k].fabric
  BY DEF TypeOK, DomainObject, EqObject, EndpointOpen
<1>5. DomainChildrenExact'
  <2>1. \A g : Cardinality(EpsOf(g)') = Cardinality(EpsOf(g)) + Delta(None, d, g)
    BY <1>0, <1>2, EpMoved
  <2>2. \A g : CqsOf(g)' = CqsOf(g) /\ MrsOf(g)' = MrsOf(g)
    BY <1>3 DEF CqsOf, MrsOf, EndpointOpen
  <2>3. \A g \in Domains :
          domain'[g].children = domain[g].children + Delta(None, d, g)
    BY NoneIsNoHandle DEF TypeOK, DomainObject, EndpointOpen, Delta
  <2> QED
    BY <2>1, <2>2, <2>3, Finite, CardNat DEF DomainChildrenExact, Delta
<1>6. EqUsersExact'
  <2>1. \A g : Cardinality(EpsOn(g)') = Cardinality(EpsOn(g)) + Delta(None, q, g)
    BY <1>0, <1>2, EpRebound
  <2>2. \A g : ListenersOn(g)' = ListenersOn(g)
    BY DEF ListenersOn, EndpointOpen
  <2>3. \A g \in Eqs : eq'[g].users = eq[g].users + Delta(None, q, g)
    BY NoneIsNoHandle DEF TypeOK, EqObject, EndpointOpen, Delta
  <2> QED
    BY <2>1, <2>2, <2>3, Finite, CardNat DEF EqUsersExact, Delta
<1>7. FabricChildrenExact' /\ MrPendingExact' /\ CqCountExact'
  BY <1>3, <1>4, FrameFabricChildren, FrameMrPending, FrameCqCount DEF EndpointOpen
<1>8. ~cq[t].retired /\ ~cq[r].retired
  BY <1>0 DEF CqsSpent
<1>9. \A k \in Eps, c \in Cqs :
        Uses(k, c)' <=> IF k = e THEN c \in {t, r} ELSE Uses(k, c)
  BY <1>0, <1>2 DEF Uses
<1>10. \A k \in Eps : ~Uses(k, t) /\ ~Uses(k, r)
  BY <1>0 DEF CqsSpent
<1>11. ParentsOutlive'
  <2>1. \A k \in Eps : ep'[k].domain # None =>
          /\ domain'[ep'[k].domain].fabric # None
          /\ eq'[ep'[k].eq].fabric = domain'[ep'[k].domain].fabric
          /\ \A c \in {ep'[k].tx, ep'[k].rx} :
               cq'[c].domain = ep'[k].domain /\ cq'[c].attached /\ ~cq'[c].retired
    <3> TAKE k \in Eps
    <3>1. CASE k = e
      <4>1. domain[d].fabric # None /\ eq[q].fabric = domain[d].fabric
        BY DEF EndpointOpen, EndpointArgs
      <4> QED
        BY <1>0, <1>2, <1>3, <1>4, <1>8, <3>1, <4>1
    <3>2. CASE k # e
      BY <1>2, <1>3, <1>4, <3>2, PointerTypes DEF ParentsOutlive, PointersTogether
    <3> QED
      BY <3>1, <3>2
  <2> QED
    <3>1. UNCHANGED <<fabric, listener, mr>>
      BY DEF EndpointOpen
    <3> QED
      BY <1>3, <1>4, <2>1, <3>1, PointerTypes DEF ParentsOutlive, PointersTogether
<1>12. PointersTogether'
  BY <1>0, <1>2 DEF PointersTogether, EndpointOpen
<1>13. CqsSpent'
  <2>1. \A c \in Cqs : cq'[c].attached => \E k \in Eps : Uses(k, c)'
    <3> SUFFICES ASSUME NEW c \in Cqs, cq'[c].attached
                 PROVE  \E k \in Eps : Uses(k, c)'
      OBVIOUS
    <3>1. CASE c \in {t, r}
      BY <1>9, <3>1
    <3>2. CASE c \notin {t, r}
      <4>1. ~Uses(e, c)
        BY <1>0 DEF Uses
      <4>2. cq[c].attached
        BY <1>3, <3>2
      <4> QED
        BY <1>9, <4>1, <4>2 DEF CqsSpent
    <3> QED
      BY <3>1, <3>2
  <2>2. \A c \in Cqs : cq'[c].retired => cq'[c].used
    BY <1>3 DEF CqsSpent
  <2>3. \A k \in Eps : \A c \in Cqs : Uses(k, c)' => cq'[c].used
    BY <1>3, <1>9 DEF CqsSpent
  <2>4. \A k1, k2 \in Eps : \A c \in Cqs : Uses(k1, c)' /\ Uses(k2, c)' => k1 = k2
    BY <1>9, <1>10 DEF CqsSpent
  <2> QED
    BY <2>1, <2>2, <2>3, <2>4 DEF CqsSpent
<1>14. OpsLinked'
  <2>1. \A k : OpsOn(k)' = OpsOn(k)
    BY DEF OpsOn, EndpointOpen
  <2>2. \A c \in Cqs : cq[c].attached => cq'[c].attached
    BY <1>3
  <2> QED
    <3>1. UNCHANGED <<op, mr>>
      BY DEF EndpointOpen
    <3> QED
      BY <1>3, <2>1, <2>2, <3>1, PointerTypes DEF OpsLinked
<1>15. WorkLinked'
  <2>1. \A o \in Ops : wr[o] # NoWr => wr[o].ep # e
    BY <1>0 DEF WorkLinked, Uses
  <2> QED
    BY <1>2, <1>9, <2>1, PointerTypes DEF WorkLinked, EndpointOpen
<1> QED
  BY <1>1, <1>5, <1>6, <1>7, <1>11, <1>12, <1>13, <1>14, <1>15

(* shim_endpoint_open that is rolled back preserves the invariant.         *)
LEMMA EndpointOpenRolledBackInv ==
  ASSUME IInv, NEW e \in Eps, NEW d \in Domains, NEW q \in Eqs,
         NEW t \in Cqs, NEW r \in Cqs, EndpointOpenRolledBack(e, d, q, t, r)
  PROVE  IInv'
<1> USE DEF IInv, CountersExact, SameParents, SameListeners, SameEps, SameAttachment
<1>0. t # r /\ ~cq[t].used /\ ~cq[r].used
  BY DEF EndpointOpenRolledBack, EndpointArgs
<1>1. TypeOK'
  <2>1. cq[t] \in CqObject /\ cq[r] \in CqObject
    BY DEF TypeOK
  <2>2. /\ [cq[t] EXCEPT !.used = TRUE] \in CqObject
        /\ [cq[r] EXCEPT !.used = TRUE] \in CqObject
    BY <2>1 DEF CqObject
  <2>3. /\ [[cq[t] EXCEPT !.used = TRUE] EXCEPT !.retired = TRUE] \in CqObject
        /\ [[cq[r] EXCEPT !.used = TRUE] EXCEPT !.retired = TRUE] \in CqObject
    BY <2>2 DEF CqObject
  <2> QED
    BY <1>0, <2>3 DEF TypeOK, EndpointOpenRolledBack
<1>2. /\ \A c \in Cqs : /\ cq'[c].domain = cq[c].domain
                        /\ cq'[c].pending = cq[c].pending
                        /\ cq'[c].count = cq[c].count
                        /\ cq'[c].attached = cq[c].attached
      /\ \A c \in Cqs : c \notin {t, r} => cq'[c] = cq[c]
      /\ cq'[t].used /\ cq'[r].used
      /\ UNCHANGED <<fabric, domain, eq, listener, ep, mr, op, wr, cqe>>
  BY <1>0 DEF TypeOK, CqObject, EndpointOpenRolledBack
<1>3. /\ FabricChildrenExact' /\ DomainChildrenExact' /\ EqUsersExact'
      /\ MrPendingExact' /\ CqCountExact'
  BY <1>2, FrameFabricChildren, FrameDomainChildren, FrameEqUsers, FrameMrPending,
     FrameCqCount DEF EndpointOpenRolledBack
<1>4. \A k \in Eps : ~Uses(k, t) /\ ~Uses(k, r)
  BY <1>0 DEF CqsSpent
<1>5. ParentsOutlive'
  <2>1. \A k \in Eps : ep[k].domain # None =>
          \A c \in {ep[k].tx, ep[k].rx} : c \in Cqs /\ c \notin {t, r}
    BY <1>4, PointerTypes DEF Uses, PointersTogether
  <2>2. \A k \in Eps : ep[k].domain # None =>
          \A c \in {ep[k].tx, ep[k].rx} : cq'[c] = cq[c]
    BY <1>2, <2>1
  <2> QED
    BY <1>2, <2>2, PointerTypes DEF ParentsOutlive, PointersTogether
<1>6. PointersTogether' /\ WorkLinked'
  BY FramePointers, FrameWorkLinked DEF EndpointOpenRolledBack
<1>7. CqsSpent'
  <2>1. \A k \in Eps : \A c : Uses(k, c)' = Uses(k, c)
    BY DEF Uses, EndpointOpenRolledBack
  <2> QED
    BY <1>2, <1>4, <2>1 DEF CqsSpent
<1>8. OpsLinked'
  <2>1. \A k : OpsOn(k)' = OpsOn(k)
    BY DEF OpsOn, EndpointOpenRolledBack
  <2> QED
    BY <1>2, <2>1, PointerTypes DEF OpsLinked
<1> QED
  BY <1>1, <1>3, <1>5, <1>6, <1>7, <1>8

(* A step that only marks an endpoint preserves the invariant.             *)
LEMMA EndpointMarkedInv ==
  ASSUME IInv, NEW e \in Eps, Shutdown(e) \/ EndpointCloseRefused(e)
  PROVE  IInv'
<1> USE DEF IInv, CountersExact, SameParents, SameListeners, SameEps, SameAttachment
<1>1. /\ ep' = [ep EXCEPT ![e].closing = TRUE]
      /\ UNCHANGED <<fabric, domain, eq, cq, listener, mr, op, wr, cqe>>
  BY DEF Shutdown, EndpointCloseRefused
<1>2. TypeOK'
  <2>1. ep[e] \in EpObject
    BY DEF TypeOK
  <2>2. [ep[e] EXCEPT !.closing = TRUE] \in EpObject
    BY <2>1 DEF EpObject
  <2> QED
    BY <1>1, <2>2 DEF TypeOK
<1>3. SameEps
  BY <1>1 DEF TypeOK, EpObject
<1>4. /\ FabricChildrenExact' /\ DomainChildrenExact' /\ EqUsersExact'
      /\ MrPendingExact' /\ CqCountExact'
  BY <1>1, <1>3, FrameFabricChildren, FrameDomainChildren, FrameEqUsers,
     FrameMrPending, FrameCqCount
<1>5. /\ ParentsOutlive' /\ PointersTogether' /\ CqsSpent'
      /\ OpsLinked' /\ WorkLinked'
  BY <1>1, <1>3, FrameParents, FramePointers, FrameCqsSpent, FrameOpsLinked,
     FrameWorkLinked
<1> QED
  BY <1>2, <1>4, <1>5

(* shim_mr_register preserves the invariant.                               *)
LEMMA MrRegisterInv ==
  ASSUME IInv, NEW m \in Mrs, NEW d \in Domains, NEW access \in SUBSET Access,
         MrRegister(m, d, access)
  PROVE  IInv'
<1> USE DEF IInv, CountersExact, SameParents, SameListeners, SameEps, SameAttachment
<1> DEFINE new == [domain |-> d, access |-> access, pending |-> 0]
<1>0. d # None /\ mr[m].domain = None
  BY NoneIsNoHandle DEF MrRegister
<1>1. TypeOK'
  <2>1. domain[d] \in DomainObject
    BY DEF TypeOK
  <2>2. /\ new \in MrObject
        /\ [domain[d] EXCEPT !.children = @ + 1] \in DomainObject
    BY <2>1 DEF MrObject, DomainObject
  <2> QED
    BY <2>2 DEF TypeOK, MrRegister
<1>2. /\ mr'[m] = new
      /\ \A k \in Mrs : k # m => mr'[k] = mr[k]
      /\ \A k \in Domains : domain'[k].fabric = domain[k].fabric
      /\ UNCHANGED <<fabric, eq, cq, listener, ep, op, wr, cqe>>
  BY DEF TypeOK, DomainObject, MrRegister
<1>3. Borrowers(m) = {}
  BY <1>0, NoneIsNoHandle DEF Borrowers, OpsLinked
<1>4. MrPendingExact'
  <2>1. mr[m].pending = 0
    BY <1>3, FS_EmptySet DEF MrPendingExact
  <2> QED
    BY <1>2, <2>1, FrameMrPending
<1>5. DomainChildrenExact'
  <2>1. \A g : Cardinality(MrsOf(g)') = Cardinality(MrsOf(g)) + Delta(None, d, g)
    BY <1>0, <1>2, MrMoved
  <2>2. \A g : CqsOf(g)' = CqsOf(g) /\ EpsOf(g)' = EpsOf(g)
    BY <1>2 DEF CqsOf, EpsOf
  <2>3. \A g \in Domains :
          domain'[g].children = domain[g].children + Delta(None, d, g)
    BY NoneIsNoHandle DEF TypeOK, DomainObject, MrRegister, Delta
  <2> QED
    BY <2>1, <2>2, <2>3, Finite, CardNat DEF DomainChildrenExact, Delta
<1>6. FabricChildrenExact' /\ EqUsersExact' /\ CqCountExact'
  BY <1>2, FrameFabricChildren, FrameEqUsers, FrameCqCount
<1>7. ParentsOutlive'
  <2>1. domain[d].fabric # None
    BY DEF MrRegister
  <2> QED
    BY <1>2, <2>1, PointerTypes DEF ParentsOutlive, PointersTogether
<1>8. PointersTogether' /\ CqsSpent'
  BY <1>2, FramePointers, FrameCqsSpent
<1>9. \A o \in Ops : op[o].mr # m
  BY <1>3 DEF Borrowers
<1>10. OpsLinked'
  <2>1. \A k : OpsOn(k)' = OpsOn(k)
    BY <1>2 DEF OpsOn
  <2> QED
    BY <1>2, <1>9, <2>1, PointerTypes DEF OpsLinked
<1>11. WorkLinked'
  <2>1. \A e \in Eps : \A c : Uses(e, c)' = Uses(e, c)
    BY <1>2 DEF Uses
  <2> QED
    BY <1>2, <1>9, <2>1, PointerTypes DEF WorkLinked
<1> QED
  BY <1>1, <1>4, <1>5, <1>6, <1>7, <1>8, <1>10, <1>11

(* shim_mr_close preserves the invariant: its exact count says that no     *)
(* operation borrows the MR.                                               *)
LEMMA MrCloseInv ==
  ASSUME IInv, NEW m \in Mrs, MrClose(m)
  PROVE  IInv'
<1> USE DEF IInv, CountersExact, SameParents, SameListeners, SameEps, SameAttachment
<1> DEFINE d == mr[m].domain
<1>0. d \in Domains /\ d # None
  BY PointerTypes DEF MrClose
<1>1. TypeOK'
  <2>1. domain[d] \in DomainObject
    BY <1>0 DEF TypeOK
  <2>2. m \in MrsOf(d)
    BY DEF MrsOf
  <2>3. domain[d].children - 1 \in Nat
    BY <1>0, <2>2, ChildCounted
  <2>4. /\ NoMr \in MrObject
        /\ [domain[d] EXCEPT !.children = @ - 1] \in DomainObject
    BY <2>1, <2>3 DEF NoMr, MrObject, DomainObject
  <2> QED
    BY <1>0, <2>4 DEF TypeOK, MrClose
<1>2. /\ mr'[m] = NoMr
      /\ \A k \in Mrs : k # m => mr'[k] = mr[k]
      /\ \A k \in Domains : domain'[k].fabric = domain[k].fabric
      /\ UNCHANGED <<fabric, eq, cq, listener, ep, op, wr, cqe>>
  BY <1>0 DEF TypeOK, DomainObject, MrClose
<1>3. Borrowers(m) = {}
  <2>1. Cardinality(Borrowers(m)) = 0
    BY DEF MrPendingExact, MrClose
  <2> QED
    BY <2>1, Finite, CardZero
<1>4. MrPendingExact'
  BY <1>2, FrameMrPending DEF MrClose, NoMr
<1>5. DomainChildrenExact'
  <2>1. \A g : Cardinality(MrsOf(g)') = Cardinality(MrsOf(g)) + Delta(d, None, g)
    BY <1>2, MrMoved DEF NoMr
  <2>2. \A g : CqsOf(g)' = CqsOf(g) /\ EpsOf(g)' = EpsOf(g)
    BY <1>2 DEF CqsOf, EpsOf
  <2>3. \A g \in Domains :
          domain'[g].children = domain[g].children + Delta(d, None, g)
    BY <1>0, NoneIsNoHandle DEF TypeOK, DomainObject, MrClose, Delta
  <2> QED
    BY <2>1, <2>2, <2>3, Finite, CardNat DEF DomainChildrenExact, Delta
<1>6. FabricChildrenExact' /\ EqUsersExact' /\ CqCountExact'
  BY <1>2, FrameFabricChildren, FrameEqUsers, FrameCqCount
<1>7. ParentsOutlive'
  BY <1>2, PointerTypes DEF ParentsOutlive, PointersTogether, NoMr
<1>8. PointersTogether' /\ CqsSpent'
  BY <1>2, FramePointers, FrameCqsSpent
<1>9. \A o \in Ops : op[o].mr # m
  BY <1>3 DEF Borrowers
<1>10. OpsLinked'
  <2>1. \A k : OpsOn(k)' = OpsOn(k)
    BY <1>2 DEF OpsOn
  <2> QED
    BY <1>2, <1>9, <2>1, PointerTypes DEF OpsLinked
<1>11. WorkLinked'
  <2>1. \A e \in Eps : \A c : Uses(e, c)' = Uses(e, c)
    BY <1>2 DEF Uses
  <2> QED
    BY <1>2, <1>9, <2>1, PointerTypes DEF WorkLinked
<1> QED
  BY <1>1, <1>4, <1>5, <1>6, <1>7, <1>8, <1>10, <1>11

(* Creating or freeing an operation preserves the invariant.               *)
LEMMA OpLifeInv ==
  ASSUME IInv, NEW o \in Ops, OpCreate(o) \/ OpFree(o)
  PROVE  IInv'
<1> USE DEF IInv, CountersExact, SameParents, SameListeners, SameEps, SameAttachment
<1>1. TypeOK'
  <2>1. op[o] \in OpObject
    BY DEF TypeOK
  <2>2. [op[o] EXCEPT !.open = TRUE] \in OpObject /\ NoOp \in OpObject
    BY <2>1 DEF OpObject, NoOp
  <2> QED
    BY <2>2 DEF TypeOK, OpCreate, OpFree
<1>2. /\ op'[o].cq = op[o].cq /\ op'[o].mr = op[o].mr
      /\ op[o].cq # None => op'[o].open
  <2>1. op[o] \in OpObject
    BY DEF TypeOK
  <2>2. CASE OpCreate(o)
    <3>1. op'[o] = [op[o] EXCEPT !.open = TRUE]
      BY <2>2 DEF TypeOK, OpCreate
    <3> QED
      BY <2>1, <3>1 DEF OpObject
  <2>3. CASE OpFree(o)
    <3>1. op'[o] = NoOp /\ op[o].cq = None
      BY <2>3 DEF TypeOK, OpFree
    <3>2. op[o].mr = None
      BY <3>1 DEF OpsLinked
    <3> QED
      BY <3>1, <3>2 DEF NoOp
  <2> QED
    BY <2>2, <2>3
<1>3. /\ \A k \in Ops : k # o => op'[k] = op[k]
      /\ UNCHANGED <<fabric, domain, eq, cq, listener, ep, mr, wr, cqe>>
  BY DEF TypeOK, OpCreate, OpFree
<1>4. \A k \in Ops : op'[k].cq = op[k].cq /\ op'[k].mr = op[k].mr
  BY <1>2, <1>3
<1>5. /\ FabricChildrenExact' /\ DomainChildrenExact' /\ EqUsersExact'
      /\ MrPendingExact' /\ CqCountExact'
  BY <1>3, <1>4, FrameFabricChildren, FrameDomainChildren, FrameEqUsers,
     FrameMrPending, FrameCqCount
<1>6. ParentsOutlive' /\ PointersTogether' /\ CqsSpent'
  BY <1>3, FrameParents, FramePointers, FrameCqsSpent
<1>7. OpsLinked'
  <2>1. \A k : OpsOn(k)' = OpsOn(k)
    BY <1>4 DEF OpsOn
  <2>2. \A k \in Ops : op[k].cq # None /\ op[k].open => op'[k].open
    BY <1>2, <1>3
  <2> QED
    BY <1>3, <1>4, <2>1, <2>2 DEF OpsLinked
<1>8. WorkLinked'
  <2>1. \A e \in Eps : \A c : Uses(e, c)' = Uses(e, c)
    BY <1>3 DEF Uses
  <2> QED
    BY <1>3, <1>4, <2>1, PointerTypes DEF WorkLinked
<1> QED
  BY <1>1, <1>5, <1>6, <1>7, <1>8

(* A completion of the provider preserves the invariant.                   *)
LEMMA CompleteInv ==
  ASSUME IInv, NEW o \in Ops, Complete(o)
  PROVE  IInv'
<1> USE DEF IInv, CountersExact, SameParents, SameListeners, SameEps, SameAttachment
<1>1. TypeOK'
  <2>1. wr[o].cq \in Cqs \cup {None} /\ NoWr \in WorkRequest
    BY PointerTypes DEF NoWr, WorkRequest
  <2> QED
    BY <2>1 DEF TypeOK, Complete, objects
<1>2. UNCHANGED objects
  BY DEF Complete
<1>3. /\ FabricChildrenExact' /\ DomainChildrenExact' /\ EqUsersExact'
      /\ MrPendingExact' /\ CqCountExact'
  BY <1>2, FrameFabricChildren, FrameDomainChildren, FrameEqUsers,
     FrameMrPending, FrameCqCount DEF objects
<1>4. ParentsOutlive' /\ PointersTogether' /\ CqsSpent' /\ OpsLinked'
  BY <1>2, FrameParents, FramePointers, FrameCqsSpent, FrameOpsLinked DEF objects
<1>5. WorkLinked'
  <2>1. \A e \in Eps : \A c : Uses(e, c)' = Uses(e, c)
    BY <1>2 DEF Uses, objects
  <2>2. /\ wr[o] # NoWr /\ wr'[o] = NoWr /\ cqe'[o] = wr[o].cq
        /\ \A k \in Ops : k # o => wr'[k] = wr[k] /\ cqe'[k] = cqe[k]
    BY DEF TypeOK, Complete
  <2>3. op[o].cq = wr[o].cq
    BY <2>2 DEF WorkLinked
  <2> QED
    BY <1>2, <2>1, <2>2, <2>3, PointerTypes DEF WorkLinked, objects
<1> QED
  BY <1>1, <1>3, <1>4, <1>5

(* post_message preserves the invariant.                                   *)
LEMMA PostInv ==
  ASSUME IInv, NEW e \in Eps, NEW o \in Ops, NEW m \in Mrs, NEW dir \in Access,
         Post(e, o, m, dir)
  PROVE  IInv'
<1> USE DEF IInv, CountersExact, SameParents, SameListeners, SameEps, SameAttachment
<1>0. PICK c \in Cqs :
      /\ c = ReportsTo(e, dir)
      /\ ep[e].domain # None /\ op[o].open /\ mr[m].domain = ep[e].domain
      /\ op[o].cq = None /\ cq[c].count < Capacity
      /\ c # None /\ m # None /\ Uses(e, c)
      /\ cq[c].attached /\ cq[c].domain # None
  <2> DEFINE c == ReportsTo(e, dir)
  <2>1. /\ ep[e].domain # None /\ op[o].open /\ mr[m].domain = ep[e].domain
        /\ op[o].cq = None /\ cq[c].count < Capacity
    BY DEF Post, PostArgs, Busy, Room
  <2>2. c \in {ep[e].tx, ep[e].rx}
    BY DEF ReportsTo
  <2>3. c \in Cqs /\ c # None
    BY <2>1, <2>2, PointerTypes DEF PointersTogether
  <2>4. cq[c].attached /\ cq[c].domain # None
    BY <2>1, <2>2 DEF ParentsOutlive
  <2> QED
    BY <2>1, <2>2, <2>3, <2>4, NoneIsNoHandle DEF Uses
<1>1. /\ op[o] \in OpObject /\ cq[c] \in CqObject /\ mr[m] \in MrObject
  BY <1>0 DEF TypeOK
<1>2. /\ op' = [op EXCEPT ![o] = [[op[o] EXCEPT !.mr = m] EXCEPT !.cq = c]]
      /\ cq' = [cq EXCEPT ![c] =
                  [[cq[c] EXCEPT !.pending = @ \cup {o}] EXCEPT !.count = @ + 1]]
      /\ mr' = [mr EXCEPT ![m] = [mr[m] EXCEPT !.pending = @ + 1]]
      /\ wr' = [wr EXCEPT ![o] = [ep |-> e, cq |-> c, mr |-> m]]
      /\ UNCHANGED <<fabric, domain, eq, listener, ep, cqe>>
  BY <1>0 DEF TypeOK, Post
<1>3. TypeOK'
  <2>1. [[op[o] EXCEPT !.mr = m] EXCEPT !.cq = c] \in OpObject
    BY <1>0, <1>1 DEF OpObject
  <2>2. [cq[c] EXCEPT !.pending = @ \cup {o}] \in CqObject
    BY <1>1 DEF CqObject
  <2>3. \A x \in CqObject : [x EXCEPT !.count = @ + 1] \in CqObject
    BY DEF CqObject
  <2>4. /\ [mr[m] EXCEPT !.pending = @ + 1] \in MrObject
        /\ [ep |-> e, cq |-> c, mr |-> m] \in WorkRequest
    BY <1>0, <1>1 DEF MrObject, WorkRequest
  <2> QED
    BY <1>0, <1>2, <2>1, <2>2, <2>3, <2>4 DEF TypeOK
<1>4. /\ op'[o].cq = c /\ op'[o].mr = m /\ op'[o].open
      /\ \A k \in Ops : k # o => op'[k] = op[k] /\ wr'[k] = wr[k]
      /\ wr'[o].ep = e /\ wr'[o].cq = c /\ wr'[o].mr = m
  BY <1>0, <1>1, <1>2 DEF TypeOK, OpObject
<1>5. /\ cq'[c].pending = cq[c].pending \cup {o}
      /\ cq'[c].count = cq[c].count + 1
      /\ cq'[c].domain = cq[c].domain
      /\ cq'[c].used = cq[c].used
      /\ cq'[c].attached = cq[c].attached
      /\ cq'[c].retired = cq[c].retired
      /\ \A k \in Cqs : k # c => cq'[k] = cq[k]
  <2>1. cq'[c] = [[cq[c] EXCEPT !.pending = @ \cup {o}] EXCEPT !.count = @ + 1]
    BY <1>0, <1>2 DEF TypeOK
  <2>2. \A k \in Cqs : k # c => cq'[k] = cq[k]
    BY <1>2 DEF TypeOK
  <2> QED
    BY <1>1, <2>1, <2>2 DEF CqObject
<1>6. /\ \A k \in Mrs : mr'[k].domain = mr[k].domain
      /\ \A k \in Mrs : mr'[k].pending = mr[k].pending + Delta(None, m, k)
  BY <1>0, <1>1, <1>2, NoneIsNoHandle DEF TypeOK, MrObject, Delta
<1>7. SameAttachment /\ \A k \in Cqs : cq'[k].domain = cq[k].domain
  BY <1>5
<1>8. op[o].mr = None
  BY <1>0 DEF OpsLinked
<1>9. MrPendingExact'
  <2>1. \A g : Cardinality(Borrowers(g)') =
                 Cardinality(Borrowers(g)) + Delta(None, m, g)
    BY <1>4, <1>8, BorrowerMoved
  <2> QED
    BY <1>6, <2>1, Finite, CardNat DEF MrPendingExact
<1>10. CqCountExact'
  <2>1. \A g : Cardinality(OpsOn(g)') = Cardinality(OpsOn(g)) + Delta(None, c, g)
    BY <1>0, <1>4, OpMoved
  <2>2. \A k \in Cqs : cq[k].count \in Nat
    BY DEF TypeOK, CqObject
  <2>3. \A k \in Cqs : cq'[k].count = cq[k].count + Delta(None, c, k)
    BY <1>5, <2>2, NoneIsNoHandle DEF Delta
  <2> QED
    BY <2>1, <2>3, Finite, CardNat DEF CqCountExact
<1>11. FabricChildrenExact' /\ DomainChildrenExact' /\ EqUsersExact'
  BY <1>2, <1>6, <1>7, FrameFabricChildren, FrameDomainChildren, FrameEqUsers
<1>12. ParentsOutlive' /\ PointersTogether' /\ CqsSpent'
  BY <1>2, <1>6, <1>7, FrameParents, FramePointers, FrameCqsSpent
<1>13. OpsLinked'
  <2>1. \A k \in Cqs : cq'[k].pending = OpsOn(k)'
    <3>1. OpsOn(c)' = OpsOn(c) \cup {o}
      BY <1>4 DEF OpsOn
    <3>2. \A k \in Cqs : k # c => OpsOn(k)' = OpsOn(k)
      BY <1>0, <1>4, NoneIsNoHandle DEF OpsOn
    <3> QED
      BY <1>5, <3>1, <3>2 DEF OpsLinked
  <2>2. \A k \in Cqs : cq'[k].count <= Capacity
    <3>1. cq[c].count \in Nat
      BY <1>1 DEF CqObject
    <3> QED
      BY <1>0, <1>5, <3>1, CapacityPositive DEF OpsLinked
  <2>3. \A k \in Ops : op'[k].cq # None =>
          op'[k].open /\ cq'[op'[k].cq].domain # None
    BY <1>0, <1>4, <1>7, PointerTypes DEF OpsLinked
  <2>4. \A k \in Ops : op'[k].mr # None =>
          /\ op'[k].cq # None
          /\ cq'[op'[k].cq].attached
          /\ mr'[op'[k].mr].domain # None
    BY <1>0, <1>4, <1>6, <1>7, PointerTypes DEF OpsLinked
  <2> QED
    BY <2>1, <2>2, <2>3, <2>4 DEF OpsLinked
<1>14. WorkLinked'
  <2>1. \A k \in Eps : \A x : Uses(k, x)' = Uses(k, x)
    BY <1>2 DEF Uses
  <2>2. cqe[o] = None
    BY <1>0 DEF WorkLinked, TypeOK
  <2>3. e # None
    BY NoneIsNoHandle
  <2> QED
    BY <1>0, <1>2, <1>4, <1>6, <2>1, <2>2, <2>3, PointerTypes DEF WorkLinked
<1> QED
  BY <1>3, <1>9, <1>10, <1>11, <1>12, <1>13, <1>14

(* Operations that drop the MR they borrow leave the MR counts exact.      *)
LEMMA MrsReturnedExact ==
  ASSUME TypeOK, MrPendingExact, NEW S \in SUBSET Ops,
         mr' = MrsReturned(S),
         \A o \in Ops : op'[o].mr = IF o \in S THEN None ELSE op[o].mr
  PROVE  /\ MrPendingExact'
         /\ mr' \in [Mrs -> MrObject]
         /\ \A m \in Mrs : mr'[m].domain = mr[m].domain
<1> SUFFICES ASSUME NEW m \in Mrs
             PROVE  /\ mr'[m].pending = Cardinality(Borrowers(m)')
                    /\ mr'[m] \in MrObject
                    /\ mr'[m].domain = mr[m].domain
  BY DEF MrPendingExact, MrsReturned
<1> DEFINE n == Cardinality({o \in S : op[o].mr = m})
<1>1. mr'[m] = [mr[m] EXCEPT !.pending = @ - n] /\ mr[m] \in MrObject
  BY DEF MrsReturned, TypeOK
<1>2. {o \in S : op[o].mr = m} = Borrowers(m) \cap S
  BY DEF Borrowers
<1>3. Borrowers(m)' = Borrowers(m) \ S
  BY NoneIsNoHandle DEF Borrowers
<1>4. /\ Cardinality(Borrowers(m)') = Cardinality(Borrowers(m)) - n
      /\ Cardinality(Borrowers(m)') \in Nat
  BY <1>2, <1>3, Finite, FS_Difference, CardNat
<1>5. mr[m].pending - n = Cardinality(Borrowers(m)')
  BY <1>4 DEF MrPendingExact
<1> QED
  BY <1>1, <1>4, <1>5 DEF MrObject

(* release_op on the operations of S.                                      *)
LEMMA ReleasedOps ==
  ASSUME TypeOK, NEW S \in SUBSET Ops, op' = Released(S)
  PROVE  /\ op' \in [Ops -> OpObject]
         /\ \A o \in Ops : op'[o].open = op[o].open
         /\ \A o \in Ops : op'[o].cq = IF o \in S THEN None ELSE op[o].cq
         /\ \A o \in Ops : op'[o].mr = IF o \in S THEN None ELSE op[o].mr
<1> SUFFICES ASSUME NEW o \in Ops
             PROVE  /\ op'[o] \in OpObject
                    /\ op'[o].open = op[o].open
                    /\ op'[o].cq = IF o \in S THEN None ELSE op[o].cq
                    /\ op'[o].mr = IF o \in S THEN None ELSE op[o].mr
  BY DEF Released
<1>1. op[o] \in OpObject
  BY DEF TypeOK
<1>2. CASE o \notin S
  BY <1>1, <1>2 DEF Released
<1>3. CASE o \in S
  <2>1. op'[o] = [[op[o] EXCEPT !.cq = None] EXCEPT !.mr = None]
    BY <1>3 DEF Released
  <2> QED
    BY <1>1, <1>3, <2>1 DEF OpObject
<1> QED
  BY <1>2, <1>3

(* retire_cq on the operations of S.                                       *)
LEMMA UnborrowedOps ==
  ASSUME TypeOK, NEW S \in SUBSET Ops, op' = Unborrowed(S)
  PROVE  /\ op' \in [Ops -> OpObject]
         /\ \A o \in Ops : op'[o].open = op[o].open
         /\ \A o \in Ops : op'[o].cq = op[o].cq
         /\ \A o \in Ops : op'[o].mr = IF o \in S THEN None ELSE op[o].mr
<1> SUFFICES ASSUME NEW o \in Ops
             PROVE  /\ op'[o] \in OpObject
                    /\ op'[o].open = op[o].open
                    /\ op'[o].cq = op[o].cq
                    /\ op'[o].mr = IF o \in S THEN None ELSE op[o].mr
  BY DEF Unborrowed
<1>1. op[o] \in OpObject
  BY DEF TypeOK
<1>2. CASE o \notin S
  BY <1>1, <1>2 DEF Unborrowed
<1>3. CASE o \in S
  <2>1. op'[o] = [op[o] EXCEPT !.mr = None]
    BY <1>3 DEF Unborrowed
  <2> QED
    BY <1>1, <1>3, <2>1 DEF OpObject
<1> QED
  BY <1>2, <1>3

(* shim_cq_poll preserves the invariant: the entry it takes names an       *)
(* operation of this CQ, whose MR, if it still has one, is counted.        *)
LEMMA CqPollInv ==
  ASSUME IInv, NEW c \in Cqs, NEW o \in Ops, CqPoll(c, o)
  PROVE  IInv'
<1> USE DEF IInv, CountersExact, SameParents, SameListeners, SameEps, SameAttachment
<1>0. cqe[o] = c /\ c # None /\ op[o].cq = c /\ o \in cq[c].pending /\ wr[o] = NoWr
  <2>1. cqe[o] = c /\ c # None
    BY NoneIsNoHandle DEF CqPoll
  <2>2. op[o].cq = c /\ wr[o] = NoWr
    BY <2>1 DEF WorkLinked
  <2> QED
    BY <2>1, <2>2 DEF OpsLinked, OpsOn
<1> DEFINE S == {o}
<1>1. /\ cq' = [cq EXCEPT ![c] =
                  [[cq[c] EXCEPT !.pending = @ \ {o}] EXCEPT !.count = @ - 1]]
      /\ mr' = MrsReturned(S)
      /\ op' = Released(S)
      /\ cqe' = [cqe EXCEPT ![o] = None]
      /\ UNCHANGED <<fabric, domain, eq, listener, ep, wr>>
  <2>1. /\ cq' = [cq EXCEPT ![c].pending = @ \ {o}, ![c].count = @ - 1]
        /\ mr' = MrsReturned(S)
        /\ op' = Released(S)
        /\ cqe' = [cqe EXCEPT ![o] = None]
        /\ UNCHANGED <<fabric, domain, eq, listener, ep, wr>>
    BY <1>0 DEF CqPoll
  <2>2. cq' = [cq EXCEPT ![c] =
                  [[cq[c] EXCEPT !.pending = @ \ {o}] EXCEPT !.count = @ - 1]]
    BY <2>1 DEF TypeOK
  <2> QED
    BY <2>1, <2>2
<1>2. cq[c] \in CqObject /\ cq[c].count - 1 \in Nat
  <2>1. o \in OpsOn(c)
    BY <1>0 DEF OpsOn
  <2>2. Cardinality(OpsOn(c)) \in Nat \ {0}
    BY <2>1, Finite, CardPositive
  <2> QED
    BY <2>2 DEF TypeOK, CqCountExact
<1>3. /\ op' \in [Ops -> OpObject]
      /\ \A k \in Ops : op'[k].open = op[k].open
      /\ \A k \in Ops : op'[k].cq = IF k = o THEN None ELSE op[k].cq
      /\ \A k \in Ops : op'[k].mr = IF k = o THEN None ELSE op[k].mr
  <2>1. S \in SUBSET Ops /\ \A k : k \in S <=> k = o
    OBVIOUS
  <2> HIDE DEF S
  <2>2. /\ op' \in [Ops -> OpObject]
        /\ \A k \in Ops : op'[k].open = op[k].open
        /\ \A k \in Ops : op'[k].cq = IF k \in S THEN None ELSE op[k].cq
        /\ \A k \in Ops : op'[k].mr = IF k \in S THEN None ELSE op[k].mr
    BY <1>1, <2>1, ReleasedOps
  <2> QED
    BY <2>1, <2>2
<1>4. /\ MrPendingExact'
      /\ mr' \in [Mrs -> MrObject]
      /\ \A m \in Mrs : mr'[m].domain = mr[m].domain
  <2>1. S \in SUBSET Ops /\ \A k : k \in S <=> k = o
    OBVIOUS
  <2> HIDE DEF S
  <2>2. \A k \in Ops : op'[k].mr = IF k \in S THEN None ELSE op[k].mr
    BY <1>3, <2>1
  <2> QED
    BY <1>1, <2>1, <2>2, MrsReturnedExact
<1>5. /\ cq'[c].pending = cq[c].pending \ {o}
      /\ cq'[c].count = cq[c].count - 1
      /\ cq'[c].domain = cq[c].domain
      /\ cq'[c].used = cq[c].used
      /\ cq'[c].attached = cq[c].attached
      /\ cq'[c].retired = cq[c].retired
      /\ \A k \in Cqs : k # c => cq'[k] = cq[k]
  <2>1. cq'[c] = [[cq[c] EXCEPT !.pending = @ \ {o}] EXCEPT !.count = @ - 1]
    BY <1>1 DEF TypeOK
  <2>2. \A k \in Cqs : k # c => cq'[k] = cq[k]
    BY <1>1 DEF TypeOK
  <2> QED
    BY <1>2, <2>1, <2>2 DEF CqObject
<1>6. SameAttachment /\ \A k \in Cqs : cq'[k].domain = cq[k].domain
  BY <1>5
<1>7. TypeOK'
  <2>1. /\ [cq[c] EXCEPT !.pending = @ \ {o}] \in CqObject
        /\ [cq[c] EXCEPT !.pending = @ \ {o}].count - 1 \in Nat
    BY <1>2 DEF CqObject
  <2>2. \A x \in CqObject :
          x.count - 1 \in Nat => [x EXCEPT !.count = @ - 1] \in CqObject
    BY DEF CqObject
  <2> QED
    BY <1>1, <1>3, <1>4, <2>1, <2>2 DEF TypeOK
<1>8. CqCountExact'
  <2>1. \A g : Cardinality(OpsOn(g)') = Cardinality(OpsOn(g)) + Delta(c, None, g)
    BY <1>0, <1>3, OpMoved
  <2>2. \A k \in Cqs : cq[k].count \in Nat
    BY DEF TypeOK, CqObject
  <2>3. \A k \in Cqs : cq'[k].count = cq[k].count + Delta(c, None, k)
    BY <1>5, <2>2, NoneIsNoHandle DEF Delta
  <2> QED
    BY <2>1, <2>3, Finite, CardNat DEF CqCountExact
<1>9. FabricChildrenExact' /\ DomainChildrenExact' /\ EqUsersExact'
  BY <1>1, <1>4, <1>6, FrameFabricChildren, FrameDomainChildren, FrameEqUsers
<1>10. ParentsOutlive' /\ PointersTogether' /\ CqsSpent'
  BY <1>1, <1>4, <1>6, FrameParents, FramePointers, FrameCqsSpent
<1>11. OpsLinked'
  <2>1. \A k \in Cqs : cq'[k].pending = OpsOn(k)'
    <3>1. OpsOn(c)' = OpsOn(c) \ {o}
      BY <1>0, <1>3 DEF OpsOn
    <3>2. \A k \in Cqs : k # c => OpsOn(k)' = OpsOn(k)
      BY <1>0, <1>3, NoneIsNoHandle DEF OpsOn
    <3> QED
      BY <1>5, <3>1, <3>2 DEF OpsLinked
  <2>2. \A k \in Cqs : cq'[k].count <= Capacity
    <3>1. cq[c].count \in Nat
      BY DEF TypeOK, CqObject
    <3> QED
      BY <1>5, <3>1, CapacityPositive DEF OpsLinked
  <2> QED
    BY <1>3, <1>4, <1>6, <2>1, <2>2, PointerTypes DEF OpsLinked
<1>12. WorkLinked'
  <2>1. \A k \in Eps : \A x : Uses(k, x)' = Uses(k, x)
    BY <1>1 DEF Uses
  <2>2. cqe'[o] = None /\ \A k \in Ops : k # o => cqe'[k] = cqe[k]
    BY <1>1 DEF TypeOK
  <2>3. \A k \in Ops : wr'[k] # NoWr =>
          /\ k # o /\ wr[k] # NoWr /\ wr'[k] = wr[k]
          /\ op'[k].cq = op[k].cq /\ op'[k].mr = op[k].mr /\ cqe'[k] = cqe[k]
    BY <1>0, <1>1, <1>3, <2>2
  <2>4. \A k \in Ops : cqe'[k] # None =>
          cqe'[k] = cqe[k] /\ op'[k].cq = op[k].cq
    BY <1>3, <2>2
  <2>5. \A k \in Ops : wr'[k] # NoWr =>
          /\ wr'[k].ep # None /\ wr'[k].cq # None /\ wr'[k].mr # None
          /\ Uses(wr'[k].ep, wr'[k].cq)
          /\ op'[k].cq = wr'[k].cq /\ op'[k].mr = wr'[k].mr
          /\ mr[wr'[k].mr].domain = ep[wr'[k].ep].domain
          /\ cqe'[k] = None
    BY <2>3 DEF WorkLinked
  <2>6. \A k \in Ops : wr'[k] # NoWr =>
          /\ Uses(wr[k].ep, wr[k].cq)'
          /\ mr[wr[k].mr].domain' = ep[wr[k].ep].domain'
    <3>1. wr' = wr /\ ep' = ep
      BY <1>1
    <3>2. \A k \in Ops : wr[k].mr # None => wr[k].mr \in Mrs
      BY PointerTypes
    <3> QED
      BY <1>4, <2>3, <2>5, <3>1, <3>2 DEF Uses
  <2>7. \A k \in Ops : cqe'[k] # None => op'[k].cq = cqe'[k]
    BY <2>4 DEF WorkLinked
  <2> QED
    BY <2>5, <2>6, <2>7 DEF WorkLinked
<1> QED
  BY <1>4, <1>7, <1>8, <1>9, <1>10, <1>11, <1>12

(* shim_cq_close preserves the invariant: no endpoint uses a CQ that is    *)
(* not attached, so no work request names the contexts it gives back.      *)
LEMMA CqCloseInv ==
  ASSUME IInv, NEW c \in Cqs, CqClose(c)
  PROVE  IInv'
<1> USE DEF IInv, CountersExact, SameParents, SameListeners, SameEps, SameAttachment
<1>0. PICK S \in SUBSET Ops : S = OpsOn(c) /\ S = cq[c].pending
  <2>1. OpsOn(c) \in SUBSET Ops
    BY DEF OpsOn
  <2> QED
    BY <2>1 DEF OpsLinked
<1>1. PICK d \in Domains : d = cq[c].domain /\ d # None
  BY PointerTypes DEF CqClose
<1>2. /\ mr' = MrsReturned(S)
      /\ op' = Released(S)
      /\ domain' = [domain EXCEPT ![d].children = @ - 1]
      /\ cq' = [cq EXCEPT ![c] = NoCq]
      /\ cqe' = [o \in Ops |-> IF cqe[o] = c THEN None ELSE cqe[o]]
      /\ UNCHANGED <<fabric, eq, listener, ep, wr>>
      /\ ~cq[c].attached
  BY <1>0, <1>1 DEF CqClose
<1>3. /\ op' \in [Ops -> OpObject]
      /\ \A k \in Ops : op'[k].open = op[k].open
      /\ \A k \in Ops : op'[k].cq = IF k \in S THEN None ELSE op[k].cq
      /\ \A k \in Ops : op'[k].mr = IF k \in S THEN None ELSE op[k].mr
  BY <1>2, ReleasedOps
<1>4. /\ MrPendingExact'
      /\ mr' \in [Mrs -> MrObject]
      /\ \A m \in Mrs : mr'[m].domain = mr[m].domain
  BY <1>2, <1>3, MrsReturnedExact
<1>5. cq'[c] = NoCq /\ \A k \in Cqs : k # c => cq'[k] = cq[k]
  BY <1>2 DEF TypeOK
<1>6. \A k \in Domains : domain'[k].fabric = domain[k].fabric
  BY <1>2 DEF TypeOK, DomainObject
<1>7. TypeOK'
  <2>1. domain[d] \in DomainObject
    BY DEF TypeOK
  <2>2. c \in CqsOf(d)
    BY <1>1 DEF CqsOf
  <2>3. domain[d].children - 1 \in Nat
    BY <2>2, ChildCounted
  <2>4. /\ NoCq \in CqObject
        /\ [domain[d] EXCEPT !.children = @ - 1] \in DomainObject
    BY <2>1, <2>3 DEF NoCq, CqObject, DomainObject
  <2> QED
    BY <1>2, <1>3, <1>4, <2>4 DEF TypeOK
<1>8. DomainChildrenExact'
  <2>1. \A g : Cardinality(CqsOf(g)') = Cardinality(CqsOf(g)) + Delta(d, None, g)
    BY <1>1, <1>5, CqMoved DEF NoCq
  <2>2. \A g : EpsOf(g)' = EpsOf(g) /\ MrsOf(g)' = MrsOf(g)
    BY <1>2, <1>4 DEF EpsOf, MrsOf
  <2>3. \A g \in Domains :
          domain'[g].children = domain[g].children + Delta(d, None, g)
    BY <1>2, NoneIsNoHandle DEF TypeOK, DomainObject, Delta
  <2> QED
    BY <2>1, <2>2, <2>3, Finite, CardNat DEF DomainChildrenExact, Delta
<1>9. OpsOn(c)' = {} /\ \A k \in Cqs : k # c => OpsOn(k)' = OpsOn(k)
  BY <1>0, <1>3, NoneIsNoHandle DEF OpsOn
<1>10. CqCountExact'
  <2>1. NoCq.count = 0 /\ Cardinality({}) = 0
    BY FS_EmptySet DEF NoCq
  <2> QED
    BY <1>5, <1>9, <2>1 DEF CqCountExact
<1>11. FabricChildrenExact' /\ EqUsersExact'
  BY <1>2, <1>6, FrameFabricChildren, FrameEqUsers
<1>12. \A e \in Eps : ~Uses(e, c)
  BY <1>2 DEF ParentsOutlive, Uses
<1>13. ParentsOutlive'
  <2>1. \A e \in Eps : ep[e].domain # None =>
          \A k \in {ep[e].tx, ep[e].rx} : cq'[k] = cq[k]
    BY <1>5, <1>12, PointerTypes DEF Uses, PointersTogether
  <2>2. \A k \in Cqs : cq'[k].domain # None => domain'[cq'[k].domain].fabric # None
    BY <1>5, <1>6, PointerTypes DEF ParentsOutlive, NoCq
  <2> QED
    BY <1>2, <1>4, <1>6, <2>1, <2>2, PointerTypes DEF ParentsOutlive, PointersTogether
<1>14. PointersTogether'
  BY <1>2, FramePointers
<1>15. CqsSpent'
  <2>1. \A e \in Eps : \A k : Uses(e, k)' = Uses(e, k)
    BY <1>2 DEF Uses
  <2>2. ~NoCq.retired /\ ~NoCq.attached
    BY DEF NoCq
  <2> QED
    BY <1>5, <1>12, <2>1, <2>2 DEF CqsSpent
<1>16. OpsLinked'
  <2>1. \A k \in Cqs : cq'[k].pending = OpsOn(k)'
    <3>1. NoCq.pending = {}
      BY DEF NoCq
    <3> QED
      BY <1>5, <1>9, <3>1 DEF OpsLinked
  <2>2. \A k \in Cqs : cq'[k].count <= Capacity
    BY <1>5, CapacityPositive DEF OpsLinked, NoCq
  <2>3. \A o \in Ops : op'[o].cq # None => op'[o].cq # c /\ op'[o].cq = op[o].cq
    BY <1>0, <1>3 DEF OpsOn
  <2>4. \A o \in Ops : op'[o].mr # None =>
          op'[o].cq # c /\ op'[o].cq = op[o].cq /\ op'[o].mr = op[o].mr
    BY <1>0, <1>3 DEF OpsOn
  <2> QED
    BY <1>3, <1>4, <1>5, <2>1, <2>2, <2>3, <2>4, PointerTypes DEF OpsLinked
<1>17. WorkLinked'
  <2>1. \A e \in Eps : \A k : Uses(e, k)' = Uses(e, k)
    BY <1>2 DEF Uses
  <2>2. \A o \in Ops : wr[o] # NoWr => o \notin S
    BY <1>0, <1>12, PointerTypes DEF WorkLinked, OpsOn
  <2>3. \A o \in Ops : cqe'[o] # None => cqe'[o] = cqe[o] /\ cqe[o] # c
    BY <1>2
  <2>4. \A o \in Ops : cqe'[o] # None => o \notin S
    BY <1>0, <2>3 DEF WorkLinked, OpsOn
  <2>5. \A o \in Ops : cqe[o] = None => cqe'[o] = None
    BY <1>2
  <2> QED
    BY <1>2, <1>3, <1>4, <2>1, <2>2, <2>3, <2>4, <2>5, PointerTypes DEF WorkLinked
<1> QED
  BY <1>4, <1>7, <1>8, <1>10, <1>11, <1>13, <1>14, <1>15, <1>16, <1>17

(* shim_endpoint_close preserves the invariant: the operations of its two  *)
(* CQs give their MRs back, and no other endpoint uses those CQs.          *)
LEMMA EndpointCloseInv ==
  ASSUME IInv, NEW e \in Eps, NEW stale \in SUBSET Ops, EndpointClose(e, stale)
  PROVE  IInv'
<1> USE DEF IInv, CountersExact, SameParents, SameListeners, SameEps, SameAttachment
<1>0. PICK t \in Cqs, r \in Cqs, q \in Eqs, d \in Domains :
      /\ t = ep[e].tx /\ r = ep[e].rx /\ q = ep[e].eq /\ d = ep[e].domain
      /\ t # None /\ r # None /\ q # None /\ d # None /\ t # r
  BY PointerTypes DEF PointersTogether, EndpointClose
<1>1. PICK S \in SUBSET Ops :
      S = cq[t].pending \cup cq[r].pending /\ S = OpsOn(t) \cup OpsOn(r)
  <2>1. OpsOn(t) \cup OpsOn(r) \in SUBSET Ops
    BY DEF OpsOn
  <2> QED
    BY <2>1 DEF OpsLinked
<1>2. /\ ProviderCloseEp(e, stale)
      /\ cq' = [cq EXCEPT ![t] = Retired(t), ![r] = Retired(r)]
      /\ mr' = MrsReturned(S)
      /\ op' = Unborrowed(S)
      /\ eq' = [eq EXCEPT ![q].users = @ - 1]
      /\ domain' = [domain EXCEPT ![d].children = @ - 1]
      /\ ep' = [ep EXCEPT ![e] = NoEp]
      /\ UNCHANGED <<fabric, listener>>
  BY <1>0, <1>1 DEF EndpointClose
<1>3. /\ op' \in [Ops -> OpObject]
      /\ \A k \in Ops : op'[k].open = op[k].open
      /\ \A k \in Ops : op'[k].cq = op[k].cq
      /\ \A k \in Ops : op'[k].mr = IF k \in S THEN None ELSE op[k].mr
  BY <1>2, UnborrowedOps
<1>4. /\ MrPendingExact'
      /\ mr' \in [Mrs -> MrObject]
      /\ \A m \in Mrs : mr'[m].domain = mr[m].domain
  BY <1>2, <1>3, MrsReturnedExact
<1>5. /\ \A c \in Cqs : /\ cq'[c].domain = cq[c].domain
                        /\ cq'[c].pending = cq[c].pending
                        /\ cq'[c].count = cq[c].count
                        /\ cq'[c].used = cq[c].used
      /\ \A c \in Cqs : c \notin {t, r} => cq'[c] = cq[c]
      /\ ~cq'[t].attached /\ ~cq'[r].attached
      /\ cq' \in [Cqs -> CqObject]
  <2>1. cq[t] \in CqObject /\ cq[r] \in CqObject
    BY DEF TypeOK
  <2>2. /\ cq'[t] = Retired(t) /\ cq'[r] = Retired(r)
        /\ \A c \in Cqs : c \notin {t, r} => cq'[c] = cq[c]
    BY <1>0, <1>2 DEF TypeOK
  <2>3. \A c \in {t, r} : /\ Retired(c).domain = cq[c].domain
                          /\ Retired(c).pending = cq[c].pending
                          /\ Retired(c).count = cq[c].count
                          /\ Retired(c).used = cq[c].used
    BY <2>1 DEF Retired, CqObject
  <2>4. \A c \in {t, r} : ~Retired(c).attached
    BY <2>1 DEF Retired, CqObject
  <2>5. \A c \in {t, r} : [cq[c] EXCEPT !.attached = FALSE] \in CqObject
    BY <2>1 DEF CqObject
  <2>6. \A x \in CqObject : [x EXCEPT !.retired = TRUE] \in CqObject
    BY DEF CqObject
  <2>7. \A c \in {t, r} : Retired(c) \in CqObject
    BY <2>5, <2>6 DEF Retired
  <2>8. cq' \in [Cqs -> CqObject]
    BY <1>2, <2>7 DEF TypeOK
  <2> QED
    BY <2>2, <2>3, <2>4, <2>8
<1>6. ep'[e] = NoEp /\ \A k \in Eps : k # e => ep'[k] = ep[k]
  BY <1>2 DEF TypeOK
<1>7. /\ \A k \in Domains : domain'[k].fabric = domain[k].fabric
      /\ \A k \in Eqs : eq'[k].fabric = eq[k].fabric
  BY <1>2 DEF TypeOK, DomainObject, EqObject
<1>8. /\ \A o \in Ops : wr'[o] = IF wr[o].ep = e THEN NoWr ELSE wr[o]
      /\ \A o \in Ops : cqe'[o] = IF o \in stale THEN wr[o].cq ELSE cqe[o]
      /\ \A o \in stale : wr[o].ep = e
      /\ e # None /\ NoWr.ep = None
  BY <1>2, NoneIsNoHandle DEF ProviderCloseEp, WorkOf, NoWr
<1>9. NoEp.domain = None /\ NoEp.eq = None /\ NoEp.tx = None /\ NoEp.rx = None
  BY DEF NoEp
<1>10. TypeOK'
  <2>1. domain[d] \in DomainObject /\ eq[q] \in EqObject
    BY DEF TypeOK
  <2>2. e \in EpsOf(d) /\ e \in EpsOn(q)
    BY <1>0 DEF EpsOf, EpsOn
  <2>3. domain[d].children - 1 \in Nat /\ eq[q].users - 1 \in Nat
    BY <2>2, ChildCounted
  <2>4. /\ NoEp \in EpObject /\ NoWr \in WorkRequest
        /\ [domain[d] EXCEPT !.children = @ - 1] \in DomainObject
        /\ [eq[q] EXCEPT !.users = @ - 1] \in EqObject
    BY <2>1, <2>3 DEF NoEp, EpObject, NoWr, WorkRequest, DomainObject, EqObject
  <2>5. wr' \in [Ops -> WorkRequest] /\ cqe' \in [Ops -> Cqs \cup {None}]
    BY <1>2, <2>4, PointerTypes DEF TypeOK, ProviderCloseEp
  <2> QED
    BY <1>2, <1>3, <1>4, <1>5, <2>4, <2>5 DEF TypeOK
<1>11. DomainChildrenExact'
  <2>1. \A g : Cardinality(EpsOf(g)') = Cardinality(EpsOf(g)) + Delta(d, None, g)
    BY <1>0, <1>6, <1>9, EpMoved
  <2>2. \A g : CqsOf(g)' = CqsOf(g) /\ MrsOf(g)' = MrsOf(g)
    BY <1>4, <1>5 DEF CqsOf, MrsOf
  <2>3. \A g \in Domains :
          domain'[g].children = domain[g].children + Delta(d, None, g)
    BY <1>2, NoneIsNoHandle DEF TypeOK, DomainObject, Delta
  <2> QED
    BY <2>1, <2>2, <2>3, Finite, CardNat DEF DomainChildrenExact, Delta
<1>12. EqUsersExact'
  <2>1. \A g : Cardinality(EpsOn(g)') = Cardinality(EpsOn(g)) + Delta(q, None, g)
    BY <1>0, <1>6, <1>9, EpRebound
  <2>2. \A g : ListenersOn(g)' = ListenersOn(g)
    BY <1>2 DEF ListenersOn
  <2>3. \A g \in Eqs : eq'[g].users = eq[g].users + Delta(q, None, g)
    BY <1>2, NoneIsNoHandle DEF TypeOK, EqObject, Delta
  <2> QED
    BY <2>1, <2>2, <2>3, Finite, CardNat DEF EqUsersExact, Delta
<1>13. FabricChildrenExact' /\ CqCountExact'
  BY <1>2, <1>3, <1>5, <1>7, FrameFabricChildren, FrameCqCount
<1>14. /\ Uses(e, t) /\ Uses(e, r)
       /\ \A k \in Eps : \A c : k # e => (Uses(k, c)' <=> Uses(k, c))
       /\ \A c : ~Uses(e, c)'
       /\ \A c : Uses(e, c) => c \in {t, r}
  BY <1>0, <1>6, <1>9 DEF Uses
<1>15. \A k \in Eps : k # e => ~Uses(k, t) /\ ~Uses(k, r)
  BY <1>14 DEF CqsSpent
<1>16. ParentsOutlive'
  <2>1. \A k \in Eps : ep'[k].domain # None =>
          /\ domain'[ep'[k].domain].fabric # None
          /\ eq'[ep'[k].eq].fabric = domain'[ep'[k].domain].fabric
          /\ \A c \in {ep'[k].tx, ep'[k].rx} :
               cq'[c].domain = ep'[k].domain /\ cq'[c].attached /\ ~cq'[c].retired
    <3> SUFFICES ASSUME NEW k \in Eps, ep'[k].domain # None
                 PROVE  /\ domain'[ep'[k].domain].fabric # None
                        /\ eq'[ep'[k].eq].fabric = domain'[ep'[k].domain].fabric
                        /\ \A c \in {ep'[k].tx, ep'[k].rx} :
                             /\ cq'[c].domain = ep'[k].domain
                             /\ cq'[c].attached /\ ~cq'[c].retired
      OBVIOUS
    <3>1. k # e /\ ep'[k] = ep[k]
      BY <1>6, <1>9
    <3>2. /\ ep[k].tx \in Cqs /\ ep[k].rx \in Cqs
          /\ ep[k].eq \in Eqs /\ ep[k].domain \in Domains
      BY <3>1, PointerTypes DEF PointersTogether
    <3>3. \A c \in {ep[k].tx, ep[k].rx} : c \in Cqs /\ c \notin {t, r}
      BY <1>15, <3>1, <3>2 DEF Uses
    <3>4. \A c \in {ep[k].tx, ep[k].rx} : cq'[c] = cq[c]
      BY <1>5, <3>3
    <3> QED
      BY <1>7, <3>1, <3>2, <3>4 DEF ParentsOutlive
  <2>2. UNCHANGED <<fabric, listener>>
    BY <1>2
  <2> QED
    BY <1>4, <1>5, <1>7, <2>1, <2>2, PointerTypes DEF ParentsOutlive, PointersTogether
<1>17. PointersTogether'
  <2>1. UNCHANGED listener
    BY <1>2
  <2> QED
    BY <1>6, <1>9, <2>1 DEF PointersTogether
<1>18. CqsSpent'
  <2>1. \A c \in Cqs : cq'[c].attached => \E k \in Eps : Uses(k, c)'
    <3> SUFFICES ASSUME NEW c \in Cqs, cq'[c].attached
                 PROVE  \E k \in Eps : Uses(k, c)'
      OBVIOUS
    <3>1. c \notin {t, r} /\ cq[c].attached
      BY <1>5
    <3>2. PICK k \in Eps : Uses(k, c)
      BY <3>1 DEF CqsSpent
    <3> QED
      BY <1>14, <3>1, <3>2
  <2>2. \A c \in Cqs : cq'[c].retired => cq'[c].used
    BY <1>5, <1>14 DEF CqsSpent
  <2>3. \A k \in Eps : \A c \in Cqs : Uses(k, c)' => cq'[c].used
    BY <1>5, <1>14 DEF CqsSpent
  <2>4. \A k1, k2 \in Eps : \A c \in Cqs : Uses(k1, c)' /\ Uses(k2, c)' => k1 = k2
    BY <1>14 DEF CqsSpent
  <2> QED
    BY <2>1, <2>2, <2>3, <2>4 DEF CqsSpent
<1>19. OpsLinked'
  <2>1. \A k \in Cqs : cq'[k].pending = OpsOn(k)' /\ cq'[k].count <= Capacity
    BY <1>3, <1>5 DEF OpsLinked, OpsOn
  <2>2. \A o \in Ops : op'[o].cq # None => op'[o].open /\ cq'[op'[o].cq].domain # None
    BY <1>3, <1>5, PointerTypes DEF OpsLinked
  <2>3. \A o \in Ops : op'[o].mr # None =>
          op'[o].mr = op[o].mr /\ op[o].cq \notin {t, r}
    BY <1>1, <1>3 DEF OpsOn
  <2>4. \A o \in Ops : op'[o].mr # None =>
          /\ op'[o].cq # None
          /\ cq'[op'[o].cq].attached
          /\ mr'[op'[o].mr].domain # None
    BY <1>3, <1>4, <1>5, <2>3, PointerTypes DEF OpsLinked
  <2> QED
    BY <2>1, <2>2, <2>4 DEF OpsLinked
<1>20. WorkLinked'
  <2>1. \A o \in Ops : wr'[o] # NoWr =>
          /\ wr'[o] = wr[o] /\ wr[o].ep # e /\ cqe'[o] = cqe[o]
          /\ op[o].cq = wr[o].cq /\ Uses(wr[o].ep, wr[o].cq)
    BY <1>8 DEF WorkLinked
  <2>2. \A o \in Ops : wr'[o] # NoWr => wr[o].ep \in Eps /\ op[o].cq \notin {t, r}
    BY <1>15, <2>1, PointerTypes DEF WorkLinked
  <2>3. \A o \in Ops : wr'[o] # NoWr => op'[o].mr = op[o].mr /\ op'[o].cq = op[o].cq
    BY <1>1, <1>3, <2>2 DEF OpsOn
  <2>4. \A o \in Ops : cqe'[o] # None => op'[o].cq = cqe'[o]
    <3> SUFFICES ASSUME NEW o \in Ops, cqe'[o] # None
                 PROVE  op[o].cq = cqe'[o]
      BY <1>3
    <3>1. CASE o \in stale
      BY <1>8, <3>1 DEF WorkLinked
    <3>2. CASE o \notin stale
      BY <1>8, <3>2 DEF WorkLinked
    <3> QED
      BY <3>1, <3>2
  <2>5. \A o \in Ops : wr'[o] # NoWr =>
          /\ wr'[o].ep # None /\ wr'[o].cq # None /\ wr'[o].mr # None
          /\ Uses(wr[o].ep, wr[o].cq)'
          /\ op'[o].cq = wr'[o].cq /\ op'[o].mr = wr'[o].mr
          /\ mr'[wr'[o].mr].domain = ep'[wr'[o].ep].domain
          /\ cqe'[o] = None
    <3> SUFFICES ASSUME NEW o \in Ops, wr'[o] # NoWr
                 PROVE  /\ wr'[o].ep # None /\ wr'[o].cq # None /\ wr'[o].mr # None
                        /\ Uses(wr[o].ep, wr[o].cq)'
                        /\ op'[o].cq = wr'[o].cq /\ op'[o].mr = wr'[o].mr
                        /\ mr'[wr'[o].mr].domain = ep'[wr'[o].ep].domain
                        /\ cqe'[o] = None
      OBVIOUS
    <3>1. /\ wr'[o] = wr[o] /\ wr[o] # NoWr /\ wr[o].ep # e /\ wr[o].ep \in Eps
      BY <2>1, <2>2
    <3>2. /\ wr[o].ep # None /\ wr[o].cq # None /\ wr[o].mr # None
          /\ Uses(wr[o].ep, wr[o].cq)
          /\ op[o].cq = wr[o].cq /\ op[o].mr = wr[o].mr
          /\ mr[wr[o].mr].domain = ep[wr[o].ep].domain
          /\ cqe[o] = None
      BY <3>1 DEF WorkLinked
    <3>3. wr[o].mr \in Mrs /\ ep'[wr[o].ep] = ep[wr[o].ep]
      BY <1>6, <3>1, <3>2, PointerTypes
    <3>4. Uses(wr[o].ep, wr[o].cq)'
      BY <3>1, <3>2, <3>3 DEF Uses
    <3> QED
      BY <1>4, <2>1, <2>3, <3>1, <3>2, <3>3, <3>4
  <2> QED
    BY <2>1, <2>4, <2>5 DEF WorkLinked, Uses
<1> QED
  BY <1>4, <1>10, <1>11, <1>12, <1>13, <1>16, <1>17, <1>18, <1>19, <1>20

-----------------------------------------------------------------------------
(* The invariant holds of every behaviour.                                 *)

(* Nothing is open at first.                                               *)
LEMMA InitInv == Init => IInv
<1> SUFFICES ASSUME Init PROVE IInv
  OBVIOUS
<1>1. /\ \A d \in Domains : domain[d].fabric = None
      /\ \A f \in Fabrics : fabric[f].children = 0
      /\ \A d \in Domains : domain[d].children = 0
      /\ \A q \in Eqs : eq[q].fabric = None /\ eq[q].users = 0
      /\ \A m \in Mrs : mr[m].domain = None /\ mr[m].pending = 0
      /\ \A l \in Listeners : listener[l].fabric = None /\ listener[l].eq = None
  BY DEF Init, NoFabric, NoDomain, NoEq, NoMr, NoListener
<1>2. /\ \A c \in Cqs : cq[c].domain = None /\ cq[c].pending = {} /\ cq[c].count = 0
      /\ \A c \in Cqs : ~cq[c].used
      /\ \A c \in Cqs : ~cq[c].attached
      /\ \A c \in Cqs : ~cq[c].retired
  BY DEF Init, NoCq
<1>3. \A e \in Eps : /\ ep[e].domain = None /\ ep[e].eq = None
                     /\ ep[e].tx = None /\ ep[e].rx = None
  BY DEF Init, NoEp
<1>4. \A o \in Ops : /\ op[o].cq = None /\ op[o].mr = None
                     /\ wr[o] = NoWr /\ cqe[o] = None
  BY DEF Init, NoOp
<1>5. TypeOK
  <2>1. /\ NoFabric \in FabricObject /\ NoDomain \in DomainObject
        /\ NoEq \in EqObject /\ NoListener \in ListenerObject
        /\ NoMr \in MrObject /\ NoOp \in OpObject /\ NoWr \in WorkRequest
    BY DEF NoFabric, FabricObject, NoDomain, DomainObject, NoEq, EqObject,
       NoListener, ListenerObject, NoMr, MrObject, NoOp, OpObject, NoWr, WorkRequest
  <2>2. NoCq \in CqObject /\ NoEp \in EpObject
    BY DEF NoCq, CqObject, NoEp, EpObject
  <2> QED
    BY <2>1, <2>2 DEF Init, TypeOK
<1>6. CountersExact
  <2>1. /\ \A f \in Fabrics : DomainsOf(f) = {} /\ EqsOf(f) = {} /\ ListenersOf(f) = {}
        /\ \A d \in Domains : CqsOf(d) = {} /\ EpsOf(d) = {} /\ MrsOf(d) = {}
        /\ \A q \in Eqs : EpsOn(q) = {}
        /\ \A m \in Mrs : Borrowers(m) = {}
        /\ \A c \in Cqs : OpsOn(c) = {}
    <3>1. \A f \in Fabrics : f # None
      BY NoneIsNoHandle
    <3>2. \A f \in Domains \cup Eqs \cup Mrs \cup Cqs : f # None
      BY NoneIsNoHandle
    <3> QED
      BY <1>1, <1>2, <1>3, <1>4, <3>1, <3>2
         DEF DomainsOf, EqsOf, ListenersOf, CqsOf, EpsOf, MrsOf, EpsOn, Borrowers, OpsOn
  <2>2. \A q \in Eqs : ListenersOn(q) = {}
    BY <1>1, NoneIsNoHandle DEF ListenersOn
  <2>3. Cardinality({}) = 0
    BY FS_EmptySet
  <2>4. FabricChildrenExact
    <3>1. \A f \in Fabrics : /\ Cardinality(DomainsOf(f)) = 0
                             /\ Cardinality(EqsOf(f)) = 0
                             /\ Cardinality(ListenersOf(f)) = 0
      BY <2>1, <2>3
    <3>2. \A f \in Fabrics : fabric[f].children = 0
      BY <1>1
    <3> QED
      BY <3>1, <3>2 DEF FabricChildrenExact
  <2>5. DomainChildrenExact
    <3>1. \A d \in Domains : /\ Cardinality(CqsOf(d)) = 0
                             /\ Cardinality(EpsOf(d)) = 0
                             /\ Cardinality(MrsOf(d)) = 0
      BY <2>1, <2>3
    <3>2. \A d \in Domains : domain[d].children = 0
      BY <1>1
    <3> QED
      BY <3>1, <3>2 DEF DomainChildrenExact
  <2>6. EqUsersExact
    <3>1. \A q \in Eqs : Cardinality(ListenersOn(q)) = 0 /\ Cardinality(EpsOn(q)) = 0
      BY <2>1, <2>2, <2>3
    <3>2. \A q \in Eqs : eq[q].users = 0
      BY <1>1
    <3> QED
      BY <3>1, <3>2 DEF EqUsersExact
  <2>7. MrPendingExact /\ CqCountExact
    <3>1. \A m \in Mrs : mr[m].pending = 0 /\ Cardinality(Borrowers(m)) = 0
      BY <1>1, <2>1, <2>3
    <3>2. \A c \in Cqs : cq[c].count = 0 /\ Cardinality(OpsOn(c)) = 0
      BY <1>2, <2>1, <2>3
    <3> QED
      BY <3>1, <3>2 DEF MrPendingExact, CqCountExact
  <2> QED
    BY <2>4, <2>5, <2>6, <2>7 DEF CountersExact
<1>7. ParentsOutlive /\ PointersTogether
  BY <1>1, <1>2, <1>3 DEF ParentsOutlive, PointersTogether
<1>8. CqsSpent
  BY <1>2, <1>3 DEF CqsSpent, Uses
<1>9. OpsLinked
  <2>1. \A c \in Cqs : OpsOn(c) = {}
    BY <1>4, NoneIsNoHandle DEF OpsOn
  <2>2. \A c \in Cqs : cq[c].pending = {}
    BY <1>2
  <2>3. \A c \in Cqs : cq[c].count <= Capacity
    <3>1. \A c \in Cqs : cq[c].count = 0
      BY <1>2
    <3> QED
      BY <3>1, CapacityPositive
  <2> QED
    BY <1>4, <2>1, <2>2, <2>3 DEF OpsLinked
<1>10. WorkLinked
  BY <1>4 DEF WorkLinked
<1> QED
  BY <1>5, <1>6, <1>7, <1>8, <1>9, <1>10 DEF IInv

(* A step that changes nothing preserves the invariant.                    *)
LEMMA StutterInv ==
  ASSUME IInv, UNCHANGED vars
  PROVE  IInv'
<1> USE DEF IInv, CountersExact, SameParents, SameListeners, SameEps, SameAttachment
<1>1. UNCHANGED <<fabric, domain, eq, cq, listener, ep, mr, op, wr, cqe>>
  BY DEF vars
<1>2. TypeOK'
  BY <1>1 DEF TypeOK
<1>3. /\ FabricChildrenExact' /\ DomainChildrenExact' /\ EqUsersExact'
      /\ MrPendingExact' /\ CqCountExact'
  BY <1>1, FrameFabricChildren, FrameDomainChildren, FrameEqUsers,
     FrameMrPending, FrameCqCount
<1>4. ParentsOutlive' /\ PointersTogether' /\ CqsSpent' /\ OpsLinked' /\ WorkLinked'
  BY <1>1, FrameParents, FramePointers, FrameCqsSpent, FrameOpsLinked, FrameWorkLinked
<1> QED
  BY <1>2, <1>3, <1>4

(* Opening and registering handles preserves the invariant.                *)
LEMMA SetupInv == IInv /\ Setup => IInv'
<1> SUFFICES ASSUME IInv, Setup PROVE IInv'
  OBVIOUS
<1>1. CASE \E f \in Fabrics : FabricOpen(f)
  BY <1>1, FabricOpenInv
<1>2. CASE \E d \in Domains, f \in Fabrics : DomainOpen(d, f)
  BY <1>2, DomainOpenInv
<1>3. CASE \E q \in Eqs, f \in Fabrics : EqOpen(q, f)
  BY <1>3, EqOpenInv
<1>4. CASE \E c \in Cqs, d \in Domains : CqOpen(c, d)
  BY <1>4, CqOpenInv
<1>5. CASE \E l \in Listeners, f \in Fabrics, q \in Eqs, ready \in BOOLEAN :
              ListenerOpen(l, f, q, ready)
  BY <1>5, ListenerOpenInv
<1>6. CASE \E e \in Eps, d \in Domains, q \in Eqs, t, r \in Cqs :
              EndpointOpenRolledBack(e, d, q, t, r)
  BY <1>6, EndpointOpenRolledBackInv
<1>7. CASE \E e \in Eps, d \in Domains, q \in Eqs, t, r \in Cqs :
              \E ready, closing \in BOOLEAN :
                EndpointOpen(e, d, q, t, r, ready, closing)
  BY <1>7, EndpointOpenInv
<1>8. CASE \E m \in Mrs, d \in Domains, access \in (SUBSET Access) \ {{}} :
              MrRegister(m, d, access)
  BY <1>8, MrRegisterInv
<1>9. CASE \E o \in Ops : OpCreate(o)
  BY <1>9, OpLifeInv
<1> QED
  BY <1>1, <1>2, <1>3, <1>4, <1>5, <1>6, <1>7, <1>8, <1>9 DEF Setup

(* Posting, completing and polling preserve the invariant.                 *)
LEMMA TransferInv == IInv /\ Transfer => IInv'
  BY PostInv, CqPollInv, CompleteInv DEF Transfer

(* Shutting down, closing and freeing handles preserves the invariant.     *)
LEMMA TeardownInv == IInv /\ Teardown => IInv'
<1> SUFFICES ASSUME IInv, Teardown PROVE IInv'
  OBVIOUS
<1>1. CASE \E e \in Eps : Shutdown(e) \/ EndpointCloseRefused(e)
  BY <1>1, EndpointMarkedInv
<1>2. CASE \E e \in Eps, stale \in SUBSET Ops : EndpointClose(e, stale)
  BY <1>2, EndpointCloseInv
<1>3. CASE \E l \in Listeners : ListenerClose(l)
  BY <1>3, ListenerCloseInv
<1>4. CASE \E m \in Mrs : MrClose(m)
  BY <1>4, MrCloseInv
<1>5. CASE \E o \in Ops : OpFree(o)
  BY <1>5, OpLifeInv
<1>6. CASE \E c \in Cqs : CqClose(c)
  BY <1>6, CqCloseInv
<1>7. CASE \E q \in Eqs : EqClose(q)
  BY <1>7, EqCloseInv
<1>8. CASE \E d \in Domains : DomainClose(d)
  BY <1>8, DomainCloseInv
<1>9. CASE \E f \in Fabrics : FabricClose(f)
  BY <1>9, FabricCloseInv
<1> QED
  BY <1>1, <1>2, <1>3, <1>4, <1>5, <1>6, <1>7, <1>8, <1>9 DEF Teardown

(* IInv is an inductive invariant of the shim: it holds of every sequence  *)
(* of calls and completions.                                               *)
THEOREM Inductive == Spec => []IInv
<1>1. IInv /\ [Next]_vars => IInv'
  BY SetupInv, TransferInv, TeardownInv, StutterInv DEF Next
<1> QED
  BY <1>1, InitInv, PTL DEF Spec

-----------------------------------------------------------------------------
(* What the invariant says about the properties.                           *)

(* No counter of the shim ever wraps below zero, and no pointer ever names *)
(* a handle of another type.                                               *)
THEOREM TypeCorrect == Spec => []TypeOK
<1>1. IInv => TypeOK
  BY DEF IInv
<1> QED
  BY <1>1, Inductive, PTL

(* Every reference count of the shim is exact in every reachable state.    *)
THEOREM CountersAlwaysExact == Spec => []CountersExact
<1>1. IInv => CountersExact
  BY DEF IInv
<1> QED
  BY <1>1, Inductive, PTL

(* The EBUSY checks of the close calls are enough: no parent is closed     *)
(* under an object that was opened on it.                                  *)
THEOREM ParentsAlwaysOutlive == Spec => []ParentsOutlive
<1>1. IInv => ParentsOutlive
  BY DEF IInv
<1> QED
  BY <1>1, Inductive, PTL

(* A buffer the provider still holds lies in an open MR of the domain of   *)
(* its endpoint, and that MR cannot be closed.                             *)
THEOREM BorrowsAlwaysPinned == Spec => []BorrowsPinned
<1>1. ASSUME IInv PROVE BorrowsPinned
  <2> SUFFICES ASSUME NEW o \in Ops, wr[o].ep # None
               PROVE  /\ ep[wr[o].ep].domain # None
                      /\ mr[wr[o].mr].domain = ep[wr[o].ep].domain
                      /\ mr[wr[o].mr].pending > 0
                      /\ op[o].mr = wr[o].mr
    BY DEF BorrowsPinned
  <2>1. wr[o] # NoWr
    BY DEF NoWr
  <2>2. /\ wr[o].mr # None /\ Uses(wr[o].ep, wr[o].cq)
        /\ op[o].mr = wr[o].mr
        /\ mr[wr[o].mr].domain = ep[wr[o].ep].domain
    BY <1>1, <2>1 DEF IInv, WorkLinked
  <2>3. wr[o].mr \in Mrs /\ o \in Borrowers(wr[o].mr)
    BY <1>1, <2>2, PointerTypes DEF IInv, Borrowers
  <2>4. mr[wr[o].mr].pending \in Nat \ {0}
    BY <1>1, <2>3, Finite, CardPositive DEF IInv, CountersExact, MrPendingExact
  <2> QED
    BY <2>2, <2>4 DEF Uses
<1> QED
  BY <1>1, Inductive, PTL

(* A context that a work request or a CQ entry names is neither freed nor  *)
(* reused, and it is on the pending list of the CQ that will report it.    *)
THEOREM ContextsAlwaysPinned == Spec => []ContextsPinned
<1>1. ASSUME IInv PROVE ContextsPinned
  <2> SUFFICES ASSUME NEW o \in Ops, NEW c \in Cqs, c \in {wr[o].cq, cqe[o]}
               PROVE  /\ op[o].open /\ op[o].cq = c
                      /\ o \in cq[c].pending /\ cq[c].domain # None
    BY DEF ContextsPinned
  <2>1. op[o].cq = c /\ c # None
    <3>1. c # None
      BY NoneIsNoHandle
    <3>2. CASE wr[o].cq = c
      <4>1. wr[o] # NoWr
        BY <3>1, <3>2 DEF NoWr
      <4> QED
        BY <1>1, <3>1, <3>2, <4>1 DEF IInv, WorkLinked
    <3>3. CASE cqe[o] = c
      BY <1>1, <3>1, <3>3 DEF IInv, WorkLinked
    <3> QED
      BY <3>2, <3>3
  <2> QED
    BY <1>1, <2>1 DEF IInv, OpsLinked, OpsOn
<1> QED
  BY <1>1, Inductive, PTL

(* The capacity check of post_message keeps every native CQ within the     *)
(* size it was opened with.                                                *)
THEOREM CqsNeverOverrun == Spec => []CqNeverOverruns
<1>1. ASSUME IInv PROVE CqNeverOverruns
  <2> SUFFICES ASSUME NEW c \in Cqs
               PROVE  Cardinality({o \in Ops : c \in {wr[o].cq, cqe[o]}}) <= Capacity
    BY DEF CqNeverOverruns
  <2> DEFINE R == {o \in Ops : c \in {wr[o].cq, cqe[o]}}
  <2>1. R \in SUBSET OpsOn(c)
    <3> SUFFICES ASSUME NEW o \in Ops, c \in {wr[o].cq, cqe[o]}
                 PROVE  op[o].cq = c
      BY DEF OpsOn
    <3>1. c # None
      BY NoneIsNoHandle
    <3>2. wr[o].cq = c => wr[o] # NoWr
      BY <3>1 DEF NoWr
    <3> QED
      BY <1>1, <3>1, <3>2 DEF IInv, WorkLinked
  <2>2. IsFiniteSet(OpsOn(c))
    BY Finite
  <2> HIDE DEF R
  <2>3. /\ Cardinality(R) <= Cardinality(OpsOn(c))
        /\ Cardinality(R) \in Nat /\ Cardinality(OpsOn(c)) \in Nat
    BY <2>1, <2>2, FS_Subset, FS_CardinalityType
  <2>4. Cardinality(OpsOn(c)) <= Capacity
    BY <1>1 DEF IInv, CountersExact, CqCountExact, OpsLinked
  <2> QED
    BY <2>3, <2>4, CapacityPositive DEF R
<1> QED
  BY <1>1, Inductive, PTL

(* Followed in its order, the README's cleanup meets no EBUSY: what has    *)
(* been closed so far leaves nothing that could keep the next object open. *)
THEOREM CleanupAlwaysOrdered == Spec => []CleanupOrder
<1>1. ASSUME IInv PROVE CleanupOrder
  <2> USE <1>1 DEF IInv, CountersExact
  <2> DEFINE noEp == \A e \in Eps : ep[e].domain = None
             noCq == \A c \in Cqs : cq[c].domain = None
             noMr == \A m \in Mrs : mr[m].domain = None
             noListener == \A l \in Listeners : listener[l].fabric = None
             noEq == \A q \in Eqs : eq[q].fabric = None
             noDomain == \A d \in Domains : domain[d].fabric = None
  <2>1. noEp => \A c \in Cqs : ~cq[c].attached
    BY DEF CqsSpent, Uses
  <2>2. Cardinality({}) = 0
    BY FS_EmptySet
  <2>3. ASSUME noEp, NEW m \in Mrs PROVE mr[m].pending = 0
    <3>1. Borrowers(m) = {}
      BY <2>1, <2>3, NoneIsNoHandle, PointerTypes DEF Borrowers, OpsLinked
    <3>2. Cardinality(Borrowers(m)) = 0
      BY <2>2, <3>1
    <3> QED
      BY <3>2 DEF MrPendingExact
  <2>4. noCq => \A o \in Ops : op[o].cq = None
    BY PointerTypes DEF OpsLinked
  <2>5. ASSUME noEp, noListener, NEW q \in Eqs PROVE eq[q].users = 0
    <3>1. ListenersOn(q) = {} /\ EpsOn(q) = {}
      BY <2>5, NoneIsNoHandle DEF ListenersOn, EpsOn, PointersTogether
    <3>2. Cardinality(ListenersOn(q)) = 0 /\ Cardinality(EpsOn(q)) = 0
      BY <2>2, <3>1
    <3> QED
      BY <3>2 DEF EqUsersExact
  <2>6. ASSUME noEp, noCq, noMr, NEW d \in Domains PROVE domain[d].children = 0
    <3>1. CqsOf(d) = {} /\ EpsOf(d) = {} /\ MrsOf(d) = {}
      BY <2>6, NoneIsNoHandle DEF CqsOf, EpsOf, MrsOf
    <3>2. /\ Cardinality(CqsOf(d)) = 0
          /\ Cardinality(EpsOf(d)) = 0
          /\ Cardinality(MrsOf(d)) = 0
      BY <2>2, <3>1
    <3> QED
      BY <3>2 DEF DomainChildrenExact
  <2>7. ASSUME noListener, noEq, noDomain, NEW f \in Fabrics
        PROVE  fabric[f].children = 0
    <3>1. DomainsOf(f) = {} /\ EqsOf(f) = {} /\ ListenersOf(f) = {}
      BY <2>7, NoneIsNoHandle DEF DomainsOf, EqsOf, ListenersOf
    <3>2. /\ Cardinality(DomainsOf(f)) = 0
          /\ Cardinality(EqsOf(f)) = 0
          /\ Cardinality(ListenersOf(f)) = 0
      BY <2>2, <3>1
    <3> QED
      BY <3>2 DEF FabricChildrenExact
  <2> QED
    BY <2>1, <2>3, <2>4, <2>5, <2>6, <2>7 DEF CleanupOrder
<1> QED
  BY <1>1, Inductive, PTL

(* A request keeps the endpoint, CQ and MR it was posted with until the    *)
(* provider gives it up, whatever else is called meanwhile.                *)
THEOREM InFlightAlwaysStable == Spec => InFlightStable
<1> DEFINE Stable(o) ==
      wr[o].ep # None /\ wr'[o].ep # None => UNCHANGED <<wr[o], op[o]>>
<1>1. ASSUME IInv, [Next]_vars PROVE \A o \in Ops : Stable(o)
  <2> SUFFICES ASSUME NEW o \in Ops, wr[o].ep # None, wr'[o].ep # None
               PROVE  wr'[o] = wr[o] /\ op'[o] = op[o]
    OBVIOUS
  <2>1. PICK k \in Eps, c \in Cqs :
        /\ k = wr[o].ep /\ c = wr[o].cq /\ c # None
        /\ Uses(k, c) /\ op[o].cq = c /\ op[o].open /\ cqe[o] = None
        /\ cq[c].attached /\ wr[o] # NoWr
    <3>1. wr[o] # NoWr
      BY DEF NoWr
    <3>2. /\ wr[o].cq # None /\ Uses(wr[o].ep, wr[o].cq)
          /\ op[o].cq = wr[o].cq /\ cqe[o] = None
      BY <1>1, <3>1 DEF IInv, WorkLinked
    <3>3. wr[o].ep \in Eps /\ wr[o].cq \in Cqs
      BY <1>1, <3>2, PointerTypes DEF IInv
    <3>4. op[o].open /\ cq[wr[o].cq].attached
      BY <1>1, <3>2, <3>3 DEF IInv, OpsLinked, ParentsOutlive, Uses
    <3> QED
      BY <3>1, <3>2, <3>3, <3>4
  <2>2. CASE UNCHANGED <<op, wr>>
    BY <2>2
  <2>3. ASSUME NEW x \in Ops, OpCreate(x) \/ OpFree(x)
        PROVE  wr'[o] = wr[o] /\ op'[o] = op[o]
    BY <1>1, <2>1, <2>3 DEF IInv, TypeOK, OpCreate, OpFree
  <2>4. ASSUME NEW e \in Eps, NEW x \in Ops, NEW m \in Mrs, NEW dir \in Access,
               Post(e, x, m, dir)
        PROVE  wr'[o] = wr[o] /\ op'[o] = op[o]
    <3>1. x # o
      BY <2>1, <2>4 DEF Post, Busy
    <3> QED
      BY <1>1, <2>4, <3>1 DEF IInv, TypeOK, Post
  <2>5. ASSUME NEW x \in Ops, Complete(x)
        PROVE  wr'[o] = wr[o] /\ op'[o] = op[o]
    <3>1. CASE x = o
      BY <1>1, <2>5, <3>1 DEF IInv, TypeOK, Complete, NoWr
    <3>2. CASE x # o
      BY <1>1, <2>5, <3>2 DEF IInv, TypeOK, Complete, objects
    <3> QED
      BY <3>1, <3>2
  <2>6. ASSUME NEW g \in Cqs, NEW x \in Ops, CqPoll(g, x)
        PROVE  wr'[o] = wr[o] /\ op'[o] = op[o]
    <3>1. x # o
      BY <2>1, <2>6, NoneIsNoHandle DEF CqPoll
    <3>2. op' = Released({x}) \/ op' = op
      BY <2>6 DEF CqPoll
    <3>3. wr' = wr
      BY <2>6 DEF CqPoll
    <3> QED
      BY <3>1, <3>2, <3>3 DEF Released
  <2>7. ASSUME NEW g \in Cqs, CqClose(g)
        PROVE  wr'[o] = wr[o] /\ op'[o] = op[o]
    <3>1. ~cq[g].attached /\ op' = Released(cq[g].pending) /\ wr' = wr
      BY <2>7 DEF CqClose
    <3>2. o \notin cq[g].pending
      BY <1>1, <2>1, <3>1 DEF IInv, OpsLinked, OpsOn
    <3> QED
      BY <3>1, <3>2 DEF Released
  <2>8. ASSUME NEW e \in Eps, NEW stale \in SUBSET Ops, EndpointClose(e, stale)
        PROVE  wr'[o] = wr[o] /\ op'[o] = op[o]
    <3>1. PICK S : /\ S = cq[ep[e].tx].pending \cup cq[ep[e].rx].pending
                   /\ op' = Unborrowed(S)
                   /\ wr' = [x \in Ops |-> IF x \in WorkOf(e) THEN NoWr ELSE wr[x]]
                   /\ ep[e].domain # None
      BY <2>8 DEF EndpointClose, ProviderCloseEp
    <3>2. wr'[o] = wr[o] /\ k # e
      BY <2>1, <3>1 DEF WorkOf, NoWr
    <3>3. ep[e].tx \in Cqs /\ ep[e].rx \in Cqs
      BY <1>1, <3>1, PointerTypes DEF IInv, PointersTogether
    <3>4. c # ep[e].tx /\ c # ep[e].rx
      BY <1>1, <2>1, <3>1, <3>2, <3>3 DEF IInv, CqsSpent, Uses
    <3>5. o \notin S
      BY <1>1, <2>1, <3>1, <3>3, <3>4 DEF IInv, OpsLinked, OpsOn
    <3> QED
      BY <3>1, <3>2, <3>5 DEF Unborrowed
  <2>9. CASE Setup
    <3>1. CASE \E f \in Fabrics : FabricOpen(f)
      BY <2>2, <3>1 DEF FabricOpen
    <3>2. CASE \E d \in Domains, f \in Fabrics : DomainOpen(d, f)
      BY <2>2, <3>2 DEF DomainOpen
    <3>3. CASE \E q \in Eqs, f \in Fabrics : EqOpen(q, f)
      BY <2>2, <3>3 DEF EqOpen
    <3>4. CASE \E g \in Cqs, d \in Domains : CqOpen(g, d)
      BY <2>2, <3>4 DEF CqOpen
    <3>5. CASE \E l \in Listeners, f \in Fabrics, q \in Eqs, ready \in BOOLEAN :
                  ListenerOpen(l, f, q, ready)
      BY <2>2, <3>5 DEF ListenerOpen
    <3>6. CASE \E e \in Eps, d \in Domains, q \in Eqs, t, r \in Cqs :
                  EndpointOpenRolledBack(e, d, q, t, r)
      BY <2>2, <3>6 DEF EndpointOpenRolledBack
    <3>7. CASE \E e \in Eps, d \in Domains, q \in Eqs, t, r \in Cqs :
                  \E ready, closing \in BOOLEAN :
                    EndpointOpen(e, d, q, t, r, ready, closing)
      BY <2>2, <3>7 DEF EndpointOpen
    <3>8. CASE \E m \in Mrs, d \in Domains, access \in (SUBSET Access) \ {{}} :
                  MrRegister(m, d, access)
      BY <2>2, <3>8 DEF MrRegister
    <3>9. CASE \E x \in Ops : OpCreate(x)
      BY <2>3, <3>9
    <3> QED
      BY <2>9, <3>1, <3>2, <3>3, <3>4, <3>5, <3>6, <3>7, <3>8, <3>9 DEF Setup
  <2>10. CASE Transfer
    BY <2>4, <2>5, <2>6, <2>10 DEF Transfer
  <2>11. CASE Teardown
    <3>1. \/ UNCHANGED <<op, wr>>
          \/ \E x \in Ops : OpFree(x)
          \/ \E g \in Cqs : CqClose(g)
          \/ \E e \in Eps, stale \in SUBSET Ops : EndpointClose(e, stale)
      BY <2>11 DEF Teardown, Shutdown, EndpointCloseRefused, ListenerClose,
         MrClose, EqClose, DomainClose, FabricClose
    <3> QED
      BY <2>2, <2>3, <2>7, <2>8, <3>1
  <2>12. CASE UNCHANGED vars
    BY <2>12 DEF vars
  <2> QED
    BY <1>1, <2>9, <2>10, <2>11, <2>12 DEF Next
<1>2. IInv /\ [Next]_vars => [\A o \in Ops : Stable(o)]_vars
  BY <1>1
<1> QED
  BY <1>2, Inductive, PTL DEF Spec, InFlightStable
=============================================================================
