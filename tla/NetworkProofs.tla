---------------------------- MODULE NetworkProofs ----------------------------
(***************************************************************************)
(* What the steps of Network do while every queue holds at most one entry, *)
(* as they do under both pairs of programs.                                *)
(***************************************************************************)
EXTENDS Network, SequenceTheorems, TLAPS

(* A queue of at most one entry.                                           *)
One(S) == {<<>>} \cup {<<x>> : x \in S}

(* A receive or its entry, a send or its entry, a message on the way.      *)
ShortQueues ==
  /\ rq \in [Side -> {0, 1}]
  /\ wire \in [Side -> One(Message)]
  /\ txwr \in [Side -> {"none", "sent", "placed"}]
  /\ rcq \in [Side -> One(Message \cup {"err"})]
  /\ tcq \in [Side -> One({"ok", "err"})]
  /\ \A s \in Side : /\ rq[s] = 1 => rcq[s] = <<>>
                     /\ txwr[s] # "none" => tcq[s] = <<>>

(* The other side.                                                         *)
LEMMA PeerSide ==
  ASSUME NEW s \in Side
  PROVE  Peer(s) \in Side /\ Peer(s) # s /\ Peer(Peer(s)) = s
BY DEF Peer, Side

(* Sequences of length one.                                                *)
LEMMA Single ==
  ASSUME NEW x
  PROVE  /\ <<x>> # <<>> /\ Head(<<x>>) = x /\ Tail(<<x>>) = <<>>
         /\ Append(<<>>, x) = <<x>>
         /\ \A y : <<x>> = <<y>> => x = y
OBVIOUS

(* A queue of at most one entry, read.                                     *)
LEMMA OneRead ==
  ASSUME NEW S, NEW q \in One(S), q # <<>>
  PROVE  Head(q) \in S /\ q = <<Head(q)>> /\ Tail(q) = <<>>
<1>1. PICK x \in S : q = <<x>>
  BY DEF One
<1> QED
  BY <1>1, Single

(* The entries of the three kinds of queue.                                *)
LEMMA Entries ==
  /\ <<>> \in One(Message) /\ \A m \in Message : <<m>> \in One(Message)
  /\ <<>> \in One(Message \cup {"err"}) /\ <<"err">> \in One(Message \cup {"err"})
  /\ \A m \in Message : <<m>> \in One(Message \cup {"err"})
  /\ <<>> \in One({"ok", "err"}) /\ <<"ok">> \in One({"ok", "err"})
  /\ <<"err">> \in One({"ok", "err"})
BY DEF One

(* As sequences.                                                           *)
LEMMA OneSeq ==
  ASSUME NEW S
  PROVE  One(S) \subseteq Seq(S)
<1> SUFFICES ASSUME NEW q \in One(S) PROVE q \in Seq(S)
  OBVIOUS
<1>1. CASE q = <<>>
  BY <1>1
<1>2. ASSUME NEW x \in S, q = <<x>> PROVE q \in Seq(S)
  BY <1>2
<1> QED
  BY <1>1, <1>2 DEF One

(* The receives that a break flushes, at most one.                         *)
LEMMA Flushed ==
  ASSUME NEW q \in One(Message \cup {"err"}), NEW n \in {0, 1}, n = 1 => q = <<>>
  PROVE  q \o [i \in 1..n |-> "err"] = IF n = 1 THEN <<"err">> ELSE q
<1>1. CASE n = 0
  <2>1. [i \in 1..n |-> "err"] = <<>>
    BY <1>1
  <2>2. q \in Seq(Message \cup {"err"})
    BY OneSeq
  <2>3. q \o <<>> = q
    BY <2>2
  <2> QED
    BY <1>1, <2>1, <2>3
<1>2. CASE n = 1
  <2>1. [i \in 1..n |-> "err"] = <<"err">>
    BY <1>2
  <2>2. <<>> \o <<"err">> = <<"err">>
    OBVIOUS
  <2> QED
    BY <1>2, <2>1, <2>2
<1> QED
  BY <1>1, <1>2

-----------------------------------------------------------------------------
(* What a program asks for.                                                *)

(* A receive that is taken, or comes back in error.                        *)
LEMMA TakeReceiveOne ==
  ASSUME ShortQueues, NEW s \in Side, rq[s] = 0, rcq[s] = <<>>, TakeReceive(s)
  PROVE  /\ ShortQueues'
         /\ s \in broken => rq' = rq /\ rcq' = [rcq EXCEPT ![s] = <<"err">>]
         /\ s \notin broken => rq' = [rq EXCEPT ![s] = 1] /\ rcq' = rcq
         /\ UNCHANGED <<cm, gone, broken, wire, txwr, tcq>>
<1>1. s \in broken => rq' = rq /\ rcq' = [rcq EXCEPT ![s] = <<"err">>]
  BY Single DEF TakeReceive, ShortQueues
<1>2. s \notin broken => rq' = [rq EXCEPT ![s] = 1] /\ rcq' = rcq
  BY DEF TakeReceive, ShortQueues
<1>3. UNCHANGED <<cm, gone, broken, wire, txwr, tcq>>
  BY DEF TakeReceive
<1>4. ShortQueues'
  <2>1. rq' \in [Side -> {0, 1}] /\ txwr' \in [Side -> {"none", "sent", "placed"}]
    BY <1>1, <1>2, <1>3 DEF ShortQueues
  <2>2. wire' \in [Side -> One(Message)]
    BY <1>1, <1>2, <1>3, Entries DEF ShortQueues
  <2>3. rcq' \in [Side -> One(Message \cup {"err"})]
    BY <1>1, <1>2, <1>3, Entries DEF ShortQueues
  <2>4. tcq' \in [Side -> One({"ok", "err"})]
    BY <1>1, <1>2, <1>3, Entries DEF ShortQueues
  <2>5. ASSUME NEW r \in Side
        PROVE  (rq[r] = 1 => rcq[r] = <<>>)' /\ (txwr[r] # "none" => tcq[r] = <<>>)'
    BY <1>1, <1>2, <1>3 DEF ShortQueues
  <2> QED
    BY <2>1, <2>2, <2>3, <2>4, <2>5 DEF ShortQueues
<1> QED
  BY <1>1, <1>2, <1>3, <1>4

(* A send that is taken while the last one is over and the wire is free.   *)
LEMMA TakeSendOne ==
  ASSUME ShortQueues, NEW s \in Side, NEW m \in Message, TakeSend(s, m),
         txwr[s] = "none", tcq[s] = <<>>, wire[Peer(s)] = <<>>
  PROVE  /\ ShortQueues'
         /\ s \in broken => /\ tcq' = [tcq EXCEPT ![s] = <<"err">>]
                            /\ wire' = wire /\ txwr' = txwr
         /\ s \notin broken => /\ wire' = [wire EXCEPT ![Peer(s)] = <<m>>]
                               /\ txwr' = [txwr EXCEPT ![s] = "sent"] /\ tcq' = tcq
         /\ UNCHANGED <<cm, gone, broken, rq, rcq>>
<1>1. s \in broken => /\ tcq' = [tcq EXCEPT ![s] = <<"err">>]
                      /\ wire' = wire /\ txwr' = txwr
  BY Single DEF TakeSend, ShortQueues
<1>2. s \notin broken => /\ wire' = [wire EXCEPT ![Peer(s)] = <<m>>]
                         /\ txwr' = [txwr EXCEPT ![s] = "sent"] /\ tcq' = tcq
  BY Single, PeerSide DEF TakeSend, ShortQueues
<1>3. UNCHANGED <<cm, gone, broken, rq, rcq>>
  BY DEF TakeSend
<1>4. ShortQueues'
  <2>1. rq' \in [Side -> {0, 1}] /\ txwr' \in [Side -> {"none", "sent", "placed"}]
    BY <1>1, <1>2, <1>3, PeerSide DEF ShortQueues
  <2>2. wire' \in [Side -> One(Message)]
    BY <1>1, <1>2, <1>3, PeerSide, Entries DEF ShortQueues
  <2>3. rcq' \in [Side -> One(Message \cup {"err"})]
    BY <1>1, <1>2, <1>3, PeerSide, Entries DEF ShortQueues
  <2>4. tcq' \in [Side -> One({"ok", "err"})]
    BY <1>1, <1>2, <1>3, PeerSide, Entries DEF ShortQueues
  <2>5. ASSUME NEW r \in Side
        PROVE  (rq[r] = 1 => rcq[r] = <<>>)' /\ (txwr[r] # "none" => tcq[r] = <<>>)'
    BY <1>1, <1>2, <1>3, PeerSide DEF ShortQueues
  <2> QED
    BY <2>1, <2>2, <2>3, <2>4, <2>5 DEF ShortQueues
<1> QED
  BY <1>1, <1>2, <1>3, <1>4

(* The entry of a send is read.                                            *)
LEMMA ReadTxOne ==
  ASSUME ShortQueues, NEW s \in Side, tcq[s] # <<>>, ReadTx(s)
  PROVE  /\ ShortQueues'
         /\ Head(tcq[s]) \in {"ok", "err"} /\ tcq[s] = <<Head(tcq[s])>>
         /\ tcq' = [tcq EXCEPT ![s] = <<>>] /\ txwr[s] = "none"
         /\ UNCHANGED <<cm, gone, broken, rq, wire, txwr, rcq>>
<1>1. tcq[s] \in One({"ok", "err"})
  BY DEF ShortQueues
<1>2. Head(tcq[s]) \in {"ok", "err"} /\ tcq[s] = <<Head(tcq[s])>> /\ Tail(tcq[s]) = <<>>
  BY <1>1, OneRead
<1>3. tcq' = [tcq EXCEPT ![s] = <<>>] /\ txwr[s] = "none"
  BY <1>2 DEF ReadTx, ShortQueues
<1>4. UNCHANGED <<cm, gone, broken, rq, wire, txwr, rcq>>
  BY DEF ReadTx
<1>5. ShortQueues'
  BY <1>3, <1>4, Entries DEF ShortQueues
<1> QED
  BY <1>2, <1>3, <1>4, <1>5

(* The entry of a receive is read: a message or an error.                  *)
LEMMA ReadRxOne ==
  ASSUME ShortQueues, NEW s \in Side, rcq[s] # <<>>, ReadRx(s)
  PROVE  /\ ShortQueues'
         /\ Head(rcq[s]) \in Message \cup {"err"} /\ rcq[s] = <<Head(rcq[s])>>
         /\ rcq' = [rcq EXCEPT ![s] = <<>>] /\ rq[s] = 0
         /\ UNCHANGED <<cm, gone, broken, rq, wire, txwr, tcq>>
<1>1. rcq[s] \in One(Message \cup {"err"})
  BY DEF ShortQueues
<1>2. /\ Head(rcq[s]) \in Message \cup {"err"} /\ rcq[s] = <<Head(rcq[s])>>
      /\ Tail(rcq[s]) = <<>>
  BY <1>1, OneRead
<1>3. rcq' = [rcq EXCEPT ![s] = <<>>] /\ rq[s] = 0
  BY <1>2 DEF ReadRx, ShortQueues
<1>4. UNCHANGED <<cm, gone, broken, rq, wire, txwr, tcq>>
  BY DEF ReadRx
<1>5. ShortQueues'
  BY <1>3, <1>4, Entries DEF ShortQueues
<1> QED
  BY <1>2, <1>3, <1>4, <1>5

(* What is lost with an endpoint is its own, and at most what it sent.     *)
LEMMA CloseEndpointOne ==
  ASSUME ShortQueues, NEW s \in Side, CloseEndpoint(s)
  PROVE  /\ ShortQueues'
         /\ gone' = gone \cup {s}
         /\ rq' = [rq EXCEPT ![s] = 0] /\ txwr' = [txwr EXCEPT ![s] = "none"]
         /\ rcq' = [rcq EXCEPT ![s] = <<>>] /\ tcq' = [tcq EXCEPT ![s] = <<>>]
         /\ eqq' = [eqq EXCEPT ![s] = <<>>]
         /\ wire'[s] = <<>> /\ wire'[Peer(s)] \in {wire[Peer(s)], <<>>}
         /\ UNCHANGED <<est, told, broken>>
<1>1. PICK sent \in Sent(s) : wire' = [wire EXCEPT ![s] = <<>>, ![Peer(s)] = sent]
  BY DEF CloseEndpoint
<1>2. sent \in {wire[Peer(s)], <<>>}
  BY DEF Sent
<1>3. wire'[s] = <<>> /\ wire'[Peer(s)] \in {wire[Peer(s)], <<>>}
  BY <1>1, <1>2, PeerSide DEF ShortQueues
<1>4. wire' \in [Side -> One(Message)]
  BY <1>1, <1>2, PeerSide, Entries DEF ShortQueues
<1>5. ShortQueues'
  BY <1>4, Entries DEF CloseEndpoint, ShortQueues
<1> QED
  BY <1>3, <1>5 DEF CloseEndpoint

-----------------------------------------------------------------------------
(* What the provider does on its own.                                      *)

(* The message on the way fills the receive.                               *)
LEMMA PlaceOne ==
  ASSUME ShortQueues, NEW s \in Side, Place(s)
  PROVE  /\ ShortQueues'
         /\ rq[s] = 1 /\ rcq[s] = <<>> /\ s \notin gone \cup broken
         /\ rq' = [rq EXCEPT ![s] = 0] /\ wire' = [wire EXCEPT ![s] = <<>>]
         /\ \E m \in Message : /\ wire[s] = <<m>>
                               /\ rcq' = [rcq EXCEPT ![s] = <<m>>]
         /\ \/ txwr' = txwr
            \/ txwr[Peer(s)] = "sent" /\ txwr' = [txwr EXCEPT ![Peer(s)] = "placed"]
         /\ UNCHANGED <<cm, gone, broken, tcq>>
<1>1. rq[s] = 1 /\ rcq[s] = <<>> /\ rq' = [rq EXCEPT ![s] = 0]
  <2>1. rq[s] \in {0, 1} /\ rq[s] > 0 /\ rq' = [rq EXCEPT ![s] = rq[s] - 1]
    BY DEF Place, ShortQueues
  <2>2. rq[s] = 1
    BY <2>1
  <2> QED
    BY <2>1, <2>2 DEF ShortQueues
<1>2. wire[s] \in One(Message) /\ wire[s] # <<>>
  BY DEF Place, ShortQueues
<1>3. Head(wire[s]) \in Message /\ wire[s] = <<Head(wire[s])>> /\ Tail(wire[s]) = <<>>
  BY <1>2, OneRead
<1>4. wire' = [wire EXCEPT ![s] = <<>>] /\ rcq' = [rcq EXCEPT ![s] = <<Head(wire[s])>>]
  BY <1>1, <1>3, Single DEF Place, ShortQueues
<1>5. \/ txwr' = txwr
      \/ txwr[Peer(s)] = "sent" /\ txwr' = [txwr EXCEPT ![Peer(s)] = "placed"]
  BY PeerSide DEF Place, ShortQueues
<1>6. s \notin gone \cup broken /\ UNCHANGED <<cm, gone, broken, tcq>>
  BY DEF Place
<1>7. ShortQueues'
  <2>1. rq' \in [Side -> {0, 1}] /\ txwr' \in [Side -> {"none", "sent", "placed"}]
    BY <1>1, <1>3, <1>4, <1>5, <1>6, PeerSide DEF ShortQueues
  <2>2. wire' \in [Side -> One(Message)]
    BY <1>1, <1>3, <1>4, <1>5, <1>6, PeerSide, Entries DEF ShortQueues
  <2>3. rcq' \in [Side -> One(Message \cup {"err"})]
    BY <1>1, <1>3, <1>4, <1>5, <1>6, PeerSide, Entries DEF ShortQueues
  <2>4. tcq' \in [Side -> One({"ok", "err"})]
    BY <1>1, <1>3, <1>4, <1>5, <1>6, PeerSide, Entries DEF ShortQueues
  <2>5. ASSUME NEW r \in Side
        PROVE  (rq[r] = 1 => rcq[r] = <<>>)' /\ (txwr[r] # "none" => tcq[r] = <<>>)'
    BY <1>1, <1>3, <1>4, <1>5, <1>6, PeerSide DEF ShortQueues
  <2> QED
    BY <2>1, <2>2, <2>3, <2>4, <2>5 DEF ShortQueues
<1> QED
  BY <1>1, <1>3, <1>4, <1>5, <1>6, <1>7

(* A send that was placed completes.                                       *)
LEMMA AcknowledgeOne ==
  ASSUME ShortQueues, NEW s \in Side, Acknowledge(s)
  PROVE  /\ ShortQueues'
         /\ txwr[s] = "placed" /\ txwr' = [txwr EXCEPT ![s] = "none"]
         /\ tcq[s] = <<>> /\ tcq' = [tcq EXCEPT ![s] = <<"ok">>]
         /\ UNCHANGED <<cm, gone, broken, rq, wire, rcq>>
<1>1. txwr[s] = "placed" /\ txwr' = [txwr EXCEPT ![s] = "none"] /\ tcq[s] = <<>>
  BY DEF Acknowledge, ShortQueues
<1>2. tcq' = [tcq EXCEPT ![s] = <<"ok">>]
  BY <1>1, Single DEF Acknowledge, ShortQueues
<1>3. UNCHANGED <<cm, gone, broken, rq, wire, rcq>>
  BY DEF Acknowledge
<1>4. ShortQueues'
  BY <1>1, <1>2, <1>3, Entries DEF ShortQueues
<1> QED
  BY <1>1, <1>2, <1>3, <1>4

(* A receive and a send that a break finds end in error.                   *)
LEMMA BreakOne ==
  ASSUME ShortQueues, NEW s \in Side, Break(s)
  PROVE  /\ ShortQueues'
         /\ s \in est /\ s \notin gone /\ broken' = broken \cup {s}
         /\ rq' = [rq EXCEPT ![s] = 0]
         /\ rcq' = [rcq EXCEPT ![s] = IF rq[s] = 1 THEN <<"err">> ELSE rcq[s]]
         /\ txwr' = [txwr EXCEPT ![s] = "none"]
         /\ tcq' = [tcq EXCEPT ![s] = IF txwr[s] = "none" THEN tcq[s] ELSE <<"err">>]
         /\ wire'[s] = <<>> /\ wire'[Peer(s)] \in {wire[Peer(s)], <<>>}
         /\ UNCHANGED <<cm, gone>>
<1>1. PICK sent \in Sent(s) : wire' = [wire EXCEPT ![s] = <<>>, ![Peer(s)] = sent]
  BY DEF Break
<1>2. sent \in {wire[Peer(s)], <<>>}
  BY DEF Sent
<1>3. wire'[s] = <<>> /\ wire'[Peer(s)] \in {wire[Peer(s)], <<>>}
  BY <1>1, <1>2, PeerSide DEF ShortQueues
<1>4. wire' \in [Side -> One(Message)]
  BY <1>1, <1>2, PeerSide, Entries DEF ShortQueues
<1>5. rcq' = [rcq EXCEPT ![s] = IF rq[s] = 1 THEN <<"err">> ELSE rcq[s]]
  <2>1. rcq[s] \o [i \in 1..rq[s] |-> "err"] = IF rq[s] = 1 THEN <<"err">> ELSE rcq[s]
    BY Flushed DEF ShortQueues
  <2> QED
    BY <2>1 DEF Break
<1>6. tcq' = [tcq EXCEPT ![s] = IF txwr[s] = "none" THEN tcq[s] ELSE <<"err">>]
  BY Single DEF Break, ShortQueues
<1>7. /\ rq' = [rq EXCEPT ![s] = 0] /\ txwr' = [txwr EXCEPT ![s] = "none"]
      /\ s \in est /\ s \notin gone /\ broken' = broken \cup {s}
      /\ UNCHANGED <<cm, gone>>
  BY DEF Break
<1>8. ShortQueues'
  <2>1. rq' \in [Side -> {0, 1}] /\ txwr' \in [Side -> {"none", "sent", "placed"}]
    BY <1>4, <1>5, <1>6, <1>7 DEF ShortQueues
  <2>2. wire' \in [Side -> One(Message)]
    BY <1>4, <1>5, <1>6, <1>7, Entries DEF ShortQueues
  <2>3. rcq' \in [Side -> One(Message \cup {"err"})]
    BY <1>4, <1>5, <1>6, <1>7, Entries DEF ShortQueues
  <2>4. tcq' \in [Side -> One({"ok", "err"})]
    BY <1>4, <1>5, <1>6, <1>7, Entries DEF ShortQueues
  <2>5. ASSUME NEW r \in Side
        PROVE  (rq[r] = 1 => rcq[r] = <<>>)' /\ (txwr[r] # "none" => tcq[r] = <<>>)'
    BY <1>4, <1>5, <1>6, <1>7 DEF ShortQueues
  <2> QED
    BY <2>1, <2>2, <2>3, <2>4, <2>5 DEF ShortQueues
<1> QED
  BY <1>3, <1>5, <1>6, <1>7, <1>8
=============================================================================
