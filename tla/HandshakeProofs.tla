--------------------------- MODULE HandshakeProofs ---------------------------
(***************************************************************************)
(* Proof that the conversation of Handshake keeps its two sides in step.   *)
(***************************************************************************)
EXTENDS Handshake, TLAPS

(* Who is behind whom.  A side is past a message of the other side only    *)
(* when the other side has said it.                                        *)
Heard ==
  /\ heard["server"] >= 1 => heard["client"] >= 1
  /\ heard["client"] >= 2 => heard["server"] >= 2
  /\ heard["server"] >= 3 => heard["client"] >= 3

(* Success is reported only at the end of the conversation.                *)
Concluded == \A s \in Side : verdict[s] = "ok" => heard[s] = 3

HInv == TypeOK /\ Heard /\ Concluded

(* The conversation starts with nothing said.                              *)
LEMMA HandshakeInit == Init => HInv
  BY DEF Init, HInv, TypeOK, Heard, Concluded, Side

(* Saying the next message, or hearing one that has been said, keeps the   *)
(* two counts in order.                                                    *)
LEMMA AdvanceKeeps ==
  ASSUME HInv, NEW s \in Side, Advance(s)
  PROVE  HInv'
<1>1. /\ heard[s] \in 0..2 /\ verdict[s] = "none"
      /\ heard' = [heard EXCEPT ![s] = @ + 1] /\ verdict' = verdict
  BY DEF HInv, TypeOK, Advance
<1>2. TypeOK'
  BY <1>1 DEF HInv, TypeOK, Side
<1>3. Concluded'
  BY <1>1 DEF HInv, TypeOK, Concluded, Side
<1>4. Heard'
  <2>1. CASE s = "client"
    <3>1. heard[s] # 1 \/ heard["client"] < heard["server"]
      BY <2>1 DEF Advance, Speaker, Peer
    <3> QED
      BY <1>1, <2>1, <3>1 DEF HInv, TypeOK, Heard, Side
  <2>2. CASE s = "server"
    <3>1. heard[s] = 1 \/ heard["server"] < heard["client"]
      BY <1>1, <2>2 DEF Advance, Speaker, Peer
    <3> QED
      BY <1>1, <2>2, <3>1 DEF HInv, TypeOK, Heard, Side
  <2> QED
    BY <2>1, <2>2 DEF Side
<1> QED
  BY <1>2, <1>3, <1>4 DEF HInv

(* Reporting a result says nothing new.                                    *)
LEMMA ConcludeKeeps ==
  ASSUME HInv, NEW s \in Side, NEW v \in {"ok", "failed"}, Conclude(s, v)
  PROVE  HInv'
<1>1. heard' = heard /\ verdict' = [verdict EXCEPT ![s] = v] /\ (v = "ok" => heard[s] = 3)
  BY DEF Conclude
<1>2. TypeOK' /\ Heard'
  BY <1>1 DEF HInv, TypeOK, Heard
<1>3. Concluded'
  BY <1>1 DEF HInv, TypeOK, Concluded
<1> QED
  BY <1>2, <1>3 DEF HInv

(* The two sides are never more than one message apart, and a side that    *)
(* reports success knows that the other has heard all but the last one:    *)
(* what server.rs and clients.rs mean by a completed exchange.             *)
THEOREM StaysInStep == Spec => []InStep
<1>1. HInv /\ [Next]_vars => HInv'
  <2> SUFFICES ASSUME HInv, [Next]_vars PROVE HInv'
    OBVIOUS
  <2>1. CASE Next
    BY <2>1, AdvanceKeeps, ConcludeKeeps DEF Next
  <2>2. CASE UNCHANGED vars
    BY <2>2 DEF HInv, TypeOK, Heard, Concluded, vars
  <2> QED
    BY <2>1, <2>2
<1>2. HInv => InStep
  BY DEF HInv, TypeOK, Heard, Concluded, InStep, Peer, Side
<1> QED
  BY <1>1, <1>2, HandshakeInit, PTL DEF Spec
=============================================================================
