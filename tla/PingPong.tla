------------------------------- MODULE PingPong -------------------------------
(***************************************************************************)
(* examples/shim_pingpong.c: the C client and the C server, each driving   *)
(* the shim through the phases of main(), over one reliable connection.    *)
(* The phases wait for CM events (wait_event) or for completions           *)
(* (wait_data), each with a deadline of its own; progress() reads the TX   *)
(* CQ, the RX CQ and the EQ, with the provider running between the reads.  *)
(* The server has one EQ, for its listener and for its endpoint, so the    *)
(* requests of other clients may turn up in the middle of the exchange.    *)
(***************************************************************************)
EXTENDS Network, FiniteSets

CONSTANTS
  Faults,     \* which of the failures below an instance explores
  Strangers   \* how many other clients knock on the server's listener

(* "timeout": a deadline passes; "flush": a connection breaks and its work *)
(* requests end in error, or a call on it fails; "setup": a call before    *)
(* the exchange fails.                                                     *)
ASSUME FaultsKnown == Faults \subseteq {"timeout", "flush", "setup"}
ASSUME StrangersNumber == Strangers \in Nat

VARIABLES
  pc,         \* the phase of main() each program is in
  poll,       \* where it is within the phase
  tx_done, rx_done, rx,   \* of its session; rx: the message in the buffer
  request,    \* the session's request: "none", "client" or "stranger"
  strangers,  \* those who have not knocked yet
  taken,      \* requests read from the EQ, of any client
  answered,   \* and of those, the ones accepted or rejected
  verdict     \* "none", "ok", or why main() went to out

session == <<tx_done, rx_done, rx>>
requests == <<request, strangers, taken, answered>>
vars == <<pc, poll, session, requests, verdict, network>>

None == "none"

(* main() from the connection on: the message a phase sends or expects.    *)
ClientScript ==
  <<<<"post", None>>, <<"connect", None>>, <<"connected", None>>,
    <<"send", "hello">>, <<"wait", "world">>,
    <<"send", "ack">>, <<"wait", None>>, <<"end", None>>>>

ServerSendsFirst ==      \* mutant: the server sends without a receive posted
  <<<<"request", None>>, <<"post", None>>, <<"accept", None>>,
    <<"connected", None>>, <<"wait", "hello">>, <<"send", "world">>,
    <<"post", None>>, <<"wait", "ack">>, <<"end", None>>>>

ServerWithoutAck ==      \* mutant: the server does not wait for the ack
  <<<<"request", None>>, <<"post", None>>, <<"accept", None>>,
    <<"connected", None>>, <<"wait", "hello">>, <<"post", None>>,
    <<"send", "world">>, <<"end", None>>>>

ServerScript ==
  <<<<"request", None>>, <<"post", None>>, <<"accept", None>>,
    <<"connected", None>>, <<"wait", "hello">>, <<"post", None>>,
    <<"send", "world">>, <<"wait", "ack">>, <<"end", None>>>>

Script == [client |-> ClientScript, server |-> ServerScript]
Call(s) == Script[s][pc[s]][1]
Text(s) == Script[s][pc[s]][2]

Init ==
  /\ pc = [s \in Side |-> 1]
  /\ poll = [s \in Side |-> "head"]
  /\ tx_done = [s \in Side |-> TRUE]
  /\ rx_done = [s \in Side |-> FALSE]
  /\ rx = [s \in Side |-> None]
  /\ request = None /\ strangers = Strangers /\ taken = 0 /\ answered = 0
  /\ verdict = [s \in Side |-> "none"]
  /\ NetworkInit

-----------------------------------------------------------------------------
At(s, p) == poll' = [poll EXCEPT ![s] = p]

(* goto out.                                                               *)
Fail(s, why) ==
  /\ verdict' = [verdict EXCEPT ![s] = why]
  /\ At(s, "out")
  /\ UNCHANGED pc

AdvanceKeepsSend(s) ==   \* mutant: send_message does not clear tx_done
  LET next == Script[s][pc[s] + 1][1]
  IN /\ pc' = [pc EXCEPT ![s] = @ + 1]
     /\ At(s, "head")
     /\ rx_done' = [rx_done EXCEPT ![s] = @ /\ next # "post"]
     /\ UNCHANGED <<verdict, tx_done>>

AdvanceKeepsReceive(s) ==   \* mutant: post_receive does not clear rx_done
  LET next == Script[s][pc[s] + 1][1]
  IN /\ pc' = [pc EXCEPT ![s] = @ + 1]
     /\ At(s, "head")
     /\ tx_done' = [tx_done EXCEPT ![s] = @ /\ next # "send"]
     /\ UNCHANGED <<verdict, rx_done>>

(* The next phase.  post_receive and send_message begin by clearing the    *)
(* flag of their operation; send_message wants the last send completed.    *)
Advance(s) ==
  LET next == Script[s][pc[s] + 1][1]
  IN IF next = "send" /\ ~tx_done[s]
     THEN Fail(s, "busy") /\ UNCHANGED <<tx_done, rx_done>>
     ELSE /\ pc' = [pc EXCEPT ![s] = @ + 1]
          /\ At(s, "head")
          /\ UNCHANGED verdict
          /\ tx_done' = [tx_done EXCEPT ![s] = @ /\ next # "send"]
          /\ rx_done' = [rx_done EXCEPT ![s] = @ /\ next # "post"]

(* The request of who, if there is one, is rejected and its info freed;    *)
(* the session's client learns of it.                                      *)
Turn(who) ==
  /\ link' = IF who = "client" THEN "rejected" ELSE link
  /\ answered' = IF who \in {"client", "stranger"} THEN answered + 1 ELSE answered

-----------------------------------------------------------------------------
(* wait_event, one event per step.                                         *)

WaitEvent(s) ==
  LET ev == Head(eqq[s])
  IN /\ Call(s) \in {"request", "connected"}
     /\ poll[s] = "head" /\ eqq[s] # <<>>
     /\ eqq' = [eqq EXCEPT ![s] = Tail(@)]
     /\ IF ev \in {"client", "stranger"}
        THEN /\ taken' = taken + 1
             /\ IF Call(s) = "request"
                THEN request' = ev /\ Advance(s) /\ UNCHANGED <<link, answered>>
                ELSE /\ Turn(ev)
                     /\ UNCHANGED <<request, pc, poll, tx_done, rx_done, verdict>>
        ELSE /\ IF ev = Call(s) THEN Advance(s)
                ELSE Fail(s, "event") /\ UNCHANGED <<tx_done, rx_done>>
             /\ UNCHANGED <<request, taken, answered, link>>
     /\ UNCHANGED <<rx, strangers, est, told, gone, broken, nic>>

(* The client's connect puts its request into the server's EQ.             *)
Connect(s) ==
  /\ Call(s) = "connect" /\ poll[s] = "head"
  /\ link' = "requested"
  /\ eqq' = [eqq EXCEPT !["server"] =
               IF "server" \in gone THEN @ ELSE Append(@, "client")]
  /\ Advance(s)
  /\ UNCHANGED <<rx, requests, est, told, gone, broken, nic>>

(* shim_accept, of whoever came first.                                     *)
Accept(s) ==
  /\ Call(s) = "accept" /\ poll[s] = "head"
  /\ link' = IF request = "client" THEN "accepted" ELSE link
  /\ answered' = answered + 1
  /\ Advance(s)
  /\ UNCHANGED <<rx, request, strangers, taken, est, told, eqq, gone, broken, nic>>

SetupFails(s) ==
  /\ "setup" \in Faults
  /\ Call(s) \in {"request", "post", "connect", "accept"}
  /\ poll[s] = "head" /\ pc[s] <= 3
  /\ Fail(s, "setup")
  /\ UNCHANGED <<session, requests, network>>

-----------------------------------------------------------------------------
(* Submissions.  EAGAIN goes round through progress().                     *)

PostReceive(s) ==
  /\ Call(s) = "post" /\ poll[s] = "head"
  /\ TakeReceive(s)
  /\ Advance(s)
  /\ UNCHANGED <<rx, requests>>

SendMessage(s) ==
  /\ Call(s) = "send" /\ poll[s] = "head"
  /\ TakeSend(s, Text(s))
  /\ Advance(s)
  /\ UNCHANGED <<rx, requests>>

(* progress() begins: after EAGAIN, and in every round of wait_data.       *)
Round(s) ==
  /\ Call(s) \in {"post", "send", "wait"} /\ poll[s] = "head"
  /\ At(s, "tx")
  /\ UNCHANGED <<pc, session, requests, verdict, network>>

-----------------------------------------------------------------------------
(* progress().                                                             *)

PollTx(s) ==
  /\ poll[s] = "tx"
  /\ IF tcq[s] = <<>>
     THEN At(s, "rx") /\ UNCHANGED <<pc, tx_done, verdict, network>>
     ELSE /\ ReadTx(s)
          /\ IF Head(tcq[s]) = "err"
             THEN Fail(s, "completion") /\ UNCHANGED tx_done
             ELSE /\ tx_done' = [tx_done EXCEPT ![s] = TRUE]
                  /\ At(s, "rx")
                  /\ UNCHANGED <<pc, verdict>>
  /\ UNCHANGED <<rx_done, rx, requests>>

(* The EQ is read only if something is still missing.                      *)
PollRx(s) ==
  /\ poll[s] = "rx"
  /\ IF rcq[s] = <<>>
     THEN /\ At(s, IF tx_done[s] /\ rx_done[s] THEN "back" ELSE "eq")
          /\ UNCHANGED <<pc, rx_done, rx, verdict, network>>
     ELSE /\ ReadRx(s)
          /\ IF Head(rcq[s]) = "err"
             THEN Fail(s, "completion") /\ UNCHANGED <<rx_done, rx>>
             ELSE /\ rx_done' = [rx_done EXCEPT ![s] = TRUE]
                  /\ rx' = [rx EXCEPT ![s] = Head(rcq[s])]
                  /\ At(s, IF tx_done[s] THEN "back" ELSE "eq")
                  /\ UNCHANGED <<pc, verdict>>
  /\ UNCHANGED <<tx_done, requests>>

PollEq(s) ==
  LET ev == Head(eqq[s])
  IN /\ poll[s] = "eq"
     /\ IF eqq[s] = <<>>
        THEN At(s, "back") /\ UNCHANGED <<pc, verdict, taken, answered, link, eqq>>
        ELSE /\ eqq' = [eqq EXCEPT ![s] = Tail(@)]
             /\ IF ev \in {"refused", "shutdown"}
                THEN Fail(s, "ended") /\ UNCHANGED <<taken, answered, link>>
                ELSE /\ At(s, "back")
                     /\ taken' = IF ev \in {"client", "stranger"} THEN taken + 1 ELSE taken
                     /\ Turn(ev)
                     /\ UNCHANGED <<pc, verdict>>
     /\ UNCHANGED <<session, request, strangers, est, told, gone, broken, nic>>

(* The loop around progress(): wait_data looks at the flags and compares   *)
(* what it received with what it expected.                                 *)
Back(s) ==
  /\ poll[s] = "back"
  /\ IF Call(s) = "wait" /\ tx_done[s] /\ rx_done[s]
     THEN IF Text(s) \notin {None, rx[s]}
          THEN Fail(s, "content") /\ UNCHANGED <<tx_done, rx_done>>
          ELSE Advance(s)
     ELSE At(s, "head") /\ UNCHANGED <<pc, tx_done, rx_done, verdict>>
  /\ UNCHANGED <<rx, requests, network>>

(* status = 0.                                                             *)
Passed(s) ==
  /\ Call(s) = "end" /\ poll[s] = "head"
  /\ verdict' = [verdict EXCEPT ![s] = "ok"]
  /\ At(s, "out")
  /\ UNCHANGED <<pc, session, requests, network>>

(* A poll or a submission fails without an entry.                          *)
CallFails(s) ==
  /\ "flush" \in Faults
  /\ \/ poll[s] \in {"tx", "rx", "eq"}
     \/ poll[s] = "head" /\ pc[s] >= 3 /\ Call(s) \in {"connected", "post", "send"}
  /\ Fail(s, "call")
  /\ UNCHANGED <<session, requests, network>>

TimeoutNotSubmitting(s) ==   \* mutant: EAGAIN is retried without a deadline
  /\ "timeout" \in Faults
  /\ poll[s] = "head" /\ Call(s) \in {"request", "connected", "wait"}
  /\ Fail(s, "timeout")
  /\ UNCHANGED <<session, requests, network>>

(* The deadline, looked at on the way into each loop.                      *)
Timeout(s) ==
  /\ "timeout" \in Faults
  /\ poll[s] = "head" /\ Call(s) \notin {"connect", "accept", "end"}
  /\ Fail(s, "timeout")
  /\ UNCHANGED <<session, requests, network>>

CleanupForgetsRequest(s) ==    \* mutant: the request is freed, not rejected
  /\ poll[s] = "out"
  /\ CloseEndpoint(s)
  /\ At(s, "done")
  /\ UNCHANGED <<pc, session, requests, verdict, link>>

CleanupRejectsAgain(s) ==      \* mutant: the request is rejected even if accepted
  /\ poll[s] = "out"
  /\ IF s = "server" THEN Turn(request) ELSE UNCHANGED <<link, answered>>
  /\ CloseEndpoint(s)
  /\ At(s, "done")
  /\ UNCHANGED <<pc, session, request, strangers, taken, verdict>>

(* cleanup(): a request not accepted is rejected before anything closes.   *)
Cleanup(s) ==
  /\ poll[s] = "out"
  /\ IF s = "server" /\ pc[s] <= 3 THEN Turn(request) ELSE UNCHANGED <<link, answered>>
  /\ CloseEndpoint(s)
  /\ At(s, "done")
  /\ UNCHANGED <<pc, session, request, strangers, taken, verdict>>

(* Another client connects while the server listens.                       *)
Knock ==
  /\ strangers > 0 /\ poll["server"] # "done"
  /\ strangers' = strangers - 1
  /\ eqq' = [eqq EXCEPT !["server"] = Append(@, "stranger")]
  /\ UNCHANGED <<pc, poll, session, request, taken, answered, verdict, link,
                 est, told, gone, broken, nic>>

-----------------------------------------------------------------------------
Step(s) ==
  \/ WaitEvent(s) \/ Connect(s) \/ Accept(s) \/ SetupFails(s)
  \/ PostReceive(s) \/ SendMessage(s) \/ Round(s)
  \/ PollTx(s) \/ PollRx(s) \/ PollEq(s) \/ Back(s) \/ Passed(s)
  \/ CallFails(s) \/ Cleanup(s)

Quiet == UNCHANGED <<pc, poll, session, requests, verdict>>

Deliver(s) ==
  /\ \/ Establish(s) \/ Disconnected(s) \/ Place(s) \/ Acknowledge(s)
     \/ "flush" \in Faults /\ Break(s)
  /\ Quiet

Next ==
  \/ \E s \in Side : Step(s) \/ Timeout(s) \/ Deliver(s)
  \/ Knock

Spec == Init /\ [][Next]_vars

(* Both programs are scheduled; a loop that keeps coming back to its       *)
(* deadline check finds the deadline passed in the end.                    *)
FairSpec ==
  Spec /\ \A s \in Side : WF_vars(Step(s)) /\ SF_vars(Timeout(s))

(* The provider delivers, and does not answer EAGAIN for ever.             *)
ReliableSpec ==
  FairSpec /\ \A s \in Side :
    /\ WF_vars(Establish(s) /\ Quiet) /\ WF_vars(Disconnected(s) /\ Quiet)
    /\ WF_vars(Place(s) /\ Quiet) /\ WF_vars(Acknowledge(s) /\ Quiet)
    /\ SF_vars(PostReceive(s)) /\ SF_vars(SendMessage(s))

-----------------------------------------------------------------------------
(* Properties.                                                             *)

TypeOK ==
  /\ pc["client"] \in 1..8 /\ pc["server"] \in 1..9
  /\ poll \in [Side -> {"head", "tx", "rx", "eq", "back", "out", "done"}]
  /\ tx_done \in [Side -> BOOLEAN] /\ rx_done \in [Side -> BOOLEAN]
  /\ rx \in [Side -> Message \cup {None}]
  /\ request \in {None, "client", "stranger"}
  /\ strangers \in 0..Strangers /\ taken \in 0..Strangers + 1 /\ answered \in 0..taken
  /\ verdict \in [Side -> {"none", "ok", "timeout", "setup", "event", "call",
                           "busy", "completion", "content", "ended"}]
  /\ NetworkTypeOK
  /\ eqq \in [Side -> Seq({"client", "stranger", "connected", "shutdown", "refused"})]

(* tx_done and rx_done are the truth about the buffers: memcpy into tx and *)
(* memcmp of rx happen only while the NIC does not hold them.              *)
FlagsCoverProvider ==
  \A s \in Side :
    /\ tx_done[s] => txwr[s] = "none" /\ tcq[s] = <<>>
    /\ rx_done[s] => rq[s] = 0 /\ rcq[s] = <<>>

(* No request read from the EQ is forgotten or answered twice, be it the   *)
(* session's or another client's: when the server is done each was         *)
(* accepted or rejected, once, whatever phase it turned up in.             *)
RequestsAnswered ==
  poll["server"] = "done" =>
    /\ answered = taken
    /\ request = "client" => link \in {"accepted", "rejected"}

(* "connection ended before completion": a shutdown ends the exchange only *)
(* if a completion that is waited for has not come.                        *)
EndedBeforeCompletion ==
  \A s \in Side : verdict[s] = "ended" /\ poll[s] = "out" =>
    ~ ((tx_done[s] \/ tcq[s] # <<>>) /\ (rx_done[s] \/ rcq[s] # <<>>))

(* Without faults one of the two programs passes: only its shutdown, once  *)
(* it is done, can spoil the exchange of the other.                        *)
OnePasses == <>(\E s \in Side : verdict[s] = "ok")

(* Each program ends, with its endpoint closed.                            *)
Termination == <>(\A s \in Side : poll[s] = "done" /\ s \in gone)

(* The C programs hold the same conversation as the Rust programs.         *)
Conversation ==
  INSTANCE Handshake WITH
    heard <- [s \in Side |->
       Cardinality({k \in 1..(pc[s] - 1) :
          Script[s][k][1] \in {"send", "wait"} /\ Script[s][k][2] # None})],
    verdict <- [s \in Side |->
       IF verdict[s] \in {"none", "ok"} THEN verdict[s] ELSE "failed"]

ImplementsHandshake == Conversation!Spec
=============================================================================
