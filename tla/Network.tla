------------------------------- MODULE Network -------------------------------
(***************************************************************************)
(* The provider and the network, as the programs of the repository see     *)
(* them: one reliable connection between a client and a server, with a     *)
(* receive queue, a send request and three event queues on either side.    *)
(* It runs between any two calls of a program.                             *)
(***************************************************************************)
EXTENDS Integers, Sequences

Side == {"client", "server"}
Peer(s) == IF s = "client" THEN "server" ELSE "client"
Message == {"hello", "world", "ack"}

VARIABLES
  link,       \* the request: "none", "requested", "accepted", "rejected"
  est,        \* the sides whose EQ was told the connection stands
  told,       \* the sides whose EQ was told it does not, or no longer
  gone,       \* the sides whose endpoint is closed
  broken,     \* the sides whose endpoint is in error and flushes its requests
  rq,         \* per side: posted receives
  wire,       \* per side: messages on their way to it
  txwr,       \* per side: its send request: "none", "sent", "placed" at the peer
  rcq, tcq,   \* per side: entries of its RX and TX CQs
  eqq         \* per side: entries of its EQ

cm == <<link, est, told, eqq>>
nic == <<rq, wire, txwr, rcq, tcq>>
network == <<cm, gone, broken, nic>>

NetworkInit ==
  /\ link = "none" /\ est = {} /\ told = {} /\ gone = {} /\ broken = {}
  /\ rq = [s \in Side |-> 0]
  /\ wire = [s \in Side |-> <<>>]
  /\ txwr = [s \in Side |-> "none"]
  /\ rcq = [s \in Side |-> <<>>]
  /\ tcq = [s \in Side |-> <<>>]
  /\ eqq = [s \in Side |-> <<>>]

NetworkTypeOK ==
  /\ link \in {"none", "requested", "accepted", "rejected"}
  /\ est \subseteq Side /\ told \subseteq Side
  /\ gone \subseteq Side /\ broken \subseteq Side
  /\ rq \in [Side -> Nat]
  /\ wire \in [Side -> Seq(Message)]
  /\ txwr \in [Side -> {"none", "sent", "placed"}]
  /\ rcq \in [Side -> Seq(Message \cup {"err"})]
  /\ tcq \in [Side -> Seq({"ok", "err"})]

-----------------------------------------------------------------------------
(* What a program asks of it.                                              *)

(* A receive the provider takes; on a broken endpoint it comes back as an  *)
(* error entry at once.                                                    *)
TakeReceive(s) ==
  /\ IF s \in broken
     THEN /\ rcq' = [rcq EXCEPT ![s] = Append(@, "err")]
          /\ UNCHANGED rq
     ELSE /\ rq' = [rq EXCEPT ![s] = @ + 1]
          /\ UNCHANGED rcq
  /\ UNCHANGED <<cm, gone, broken, wire, txwr, tcq>>

(* A send it takes: the message is on its way, or flushed at once.         *)
TakeSend(s, msg) ==
  /\ IF s \in broken
     THEN /\ tcq' = [tcq EXCEPT ![s] = Append(@, "err")]
          /\ UNCHANGED <<wire, txwr>>
     ELSE /\ wire' = [wire EXCEPT ![Peer(s)] = Append(@, msg)]
          /\ txwr' = [txwr EXCEPT ![s] = "sent"]
          /\ UNCHANGED tcq
  /\ UNCHANGED <<cm, gone, broken, rq, rcq>>

(* The oldest entry of a queue is read.                                    *)
ReadTx(s) ==
  /\ tcq' = [tcq EXCEPT ![s] = Tail(@)]
  /\ UNCHANGED <<cm, gone, broken, rq, wire, txwr, rcq>>

ReadRx(s) ==
  /\ rcq' = [rcq EXCEPT ![s] = Tail(@)]
  /\ UNCHANGED <<cm, gone, broken, rq, wire, txwr, tcq>>

ReadEq(s) ==
  /\ eqq' = [eqq EXCEPT ![s] = Tail(@)]
  /\ UNCHANGED <<link, est, told, gone, broken, nic>>

(* What may have become of a message that was under way to the peer of an  *)
(* endpoint that breaks or is closed.                                      *)
Sent(s) == {wire[Peer(s)]} \cup (IF txwr[s] = "sent" THEN {<<>>} ELSE {})

(* The endpoint and its queues are closed.                                 *)
CloseEndpoint(s) ==
  /\ gone' = gone \cup {s}
  /\ rq' = [rq EXCEPT ![s] = 0]
  /\ txwr' = [txwr EXCEPT ![s] = "none"]
  /\ rcq' = [rcq EXCEPT ![s] = <<>>]
  /\ tcq' = [tcq EXCEPT ![s] = <<>>]
  /\ eqq' = [eqq EXCEPT ![s] = <<>>]
  /\ \E sent \in Sent(s) : wire' = [wire EXCEPT ![s] = <<>>, ![Peer(s)] = sent]
  /\ UNCHANGED <<est, told, broken>>

-----------------------------------------------------------------------------
(* What it does on its own.                                                *)

(* The client's side of the connection stands first; the server's when the *)
(* client's confirmation arrives, which may be after the first message.    *)
Establish(s) ==
  /\ link = "accepted"
  /\ s \notin est \cup told \cup gone
  /\ IF s = "client" THEN "server" \notin gone ELSE "client" \in est
  /\ est' = est \cup {s}
  /\ eqq' = [eqq EXCEPT ![s] = Append(@, "connected")]
  /\ UNCHANGED <<link, told, gone, broken, nic>>

(* s learns that there is no connection (any more).                        *)
Disconnected(s) ==
  /\ s \notin told \cup gone
  /\ link \in IF s = "server" THEN {"accepted"}
                              ELSE {"requested", "accepted", "rejected"}
  /\ Peer(s) \in gone \cup broken \/ link = "rejected"
  /\ told' = told \cup {s}
  /\ eqq' = [eqq EXCEPT ![s] =
               Append(@, IF s \in est THEN "shutdown" ELSE "refused")]
  /\ UNCHANGED <<link, est, gone, broken, nic>>

(* The first message on the way to s fills a posted receive.               *)
Place(s) ==
  /\ wire[s] # <<>> /\ rq[s] > 0
  /\ s \notin gone \cup broken
  /\ wire' = [wire EXCEPT ![s] = Tail(@)]
  /\ rq' = [rq EXCEPT ![s] = @ - 1]
  /\ rcq' = [rcq EXCEPT ![s] = Append(@, Head(wire[s]))]
  /\ txwr' = [txwr EXCEPT ![Peer(s)] = IF @ = "sent" THEN "placed" ELSE @]
  /\ UNCHANGED <<cm, gone, broken, tcq>>

(* A reliable connection completes a send once the peer's NIC has placed   *)
(* and acknowledged it.                                                    *)
Acknowledge(s) ==
  /\ txwr[s] = "placed"
  /\ txwr' = [txwr EXCEPT ![s] = "none"]
  /\ tcq' = [tcq EXCEPT ![s] = Append(@, "ok")]
  /\ UNCHANGED <<cm, gone, broken, rq, wire, rcq>>

(* An endpoint goes to error: what it was asked for ends in error entries, *)
(* and a message that had not arrived may be lost.                         *)
Break(s) ==
  /\ link = "accepted" /\ s \in est
  /\ s \notin gone \cup broken
  /\ broken' = broken \cup {s}
  /\ rq' = [rq EXCEPT ![s] = 0]
  /\ rcq' = [rcq EXCEPT ![s] = @ \o [i \in 1..rq[s] |-> "err"]]
  /\ txwr' = [txwr EXCEPT ![s] = "none"]
  /\ tcq' = [tcq EXCEPT ![s] = IF txwr[s] = "none" THEN @ ELSE Append(@, "err")]
  /\ \E sent \in Sent(s) : wire' = [wire EXCEPT ![s] = <<>>, ![Peer(s)] = sent]
  /\ UNCHANGED <<cm, gone>>

-----------------------------------------------------------------------------
(* A message never reaches a live endpoint that has no receive posted for  *)
(* it; a reliable connection would break on it.  Both server programs post *)
(* the receive for ack before they send world.                             *)
NoReceiverNotReady ==
  \A s \in Side \ (gone \cup broken) : Len(wire[s]) <= rq[s]
=============================================================================
