------------------------------ MODULE Exchange ------------------------------
(***************************************************************************)
(* The two programs of the repository, src/bin/clients.rs and              *)
(* src/bin/server.rs, each driving one Connection of src/transport.rs, and *)
(* the reliable connection between them.  hello, world and ack are sent    *)
(* over it; each side has one send slot and one receive slot.              *)
(*                                                                         *)
(* Both programs are single threaded loops that poll the TX CQ, the RX CQ  *)
(* and the EQ, feed the events to their Exchange state, and send what is   *)
(* next.  The provider runs between any two of their calls.                *)
(***************************************************************************)
EXTENDS Network

CONSTANT Faults     \* which of the failures below an instance explores

(* "timeout": a deadline passes; "flush": a connection breaks and its work *)
(* requests end in error, or a call on it fails; "setup": a call before    *)
(* the exchange fails.                                                     *)
ASSUME FaultsKnown == Faults \subseteq {"timeout", "flush", "setup"}

CmEvent == {"connected", "shutdown", "refused"}
Event == Message \cup {"sent", "connected", "shutdown"}

(* The two programs.                                                       *)
VARIABLES
  pc,         \* where each program is in its loop
  cli, srv,   \* their Exchange structs
  conn,       \* per side: the pending flags of Connection's TX and RX slots
  events,     \* per side: the vector of events poll() has gathered
  verdict     \* per side: what the exchange has returned, "none" before

program == <<pc, cli, srv, conn, events, verdict>>
vars == <<program, network>>

(* The structs Exchange of the client and of the server, as they start.    *)
ClientExchange ==
  [connected |-> FALSE, hello_posted |-> FALSE, hello_completed |-> FALSE,
   world_received |-> FALSE, ack_posted |-> FALSE, ack_completed |-> FALSE,
   peer_closed |-> FALSE]
ServerExchange ==
  [phase |-> "Hello", connected |-> FALSE, sent |-> FALSE, peer_closed |-> FALSE]

Init ==
  /\ pc = [s \in Side |-> IF s = "client" THEN "init" ELSE "wait"]
  /\ cli = ClientExchange /\ srv = ServerExchange
  /\ conn = [s \in Side |-> [tx |-> FALSE, rx |-> FALSE]]
  /\ events = [s \in Side |-> <<>>]
  /\ verdict = [s \in Side |-> "none"]
  /\ NetworkInit

-----------------------------------------------------------------------------
(* Steps shared by both programs.                                          *)

Goto(s, l) == pc' = [pc EXCEPT ![s] = l]

(* The `?` of Rust: the error leaves the loop, and the events gathered so  *)
(* far are dropped with the vector that held them.                         *)
Fail(s, why) ==
  /\ verdict' = [verdict EXCEPT ![s] = why]
  /\ events' = [events EXCEPT ![s] = <<>>]
  /\ Goto(s, "close")

-----------------------------------------------------------------------------
(* Before the exchange.                                                    *)

(* Listener::wait_request finds the connection request.                    *)
WaitRequest ==
  /\ pc["server"] = "wait"
  /\ link = "requested"
  /\ Goto("server", "init")
  /\ UNCHANGED <<cli, srv, conn, events, verdict, network>>

SubmitReceiveNotPending(s) ==    \* mutant: rx.pending is not set
  TakeReceive(s) /\ UNCHANGED conn

(* Connection::post_recv when the provider accepts.                        *)
SubmitReceive(s) ==
  /\ TakeReceive(s)
  /\ conn' = [conn EXCEPT ![s].rx = TRUE]

(* The end of Connection::initialize: the receive loop.  EAGAIN repeats    *)
(* it, a stuttering step, for no event can be queued yet.                  *)
FirstReceive(s) ==
  /\ pc[s] = "init"
  /\ SubmitReceive(s)
  /\ Goto(s, "cm")
  /\ UNCHANGED <<cli, srv, events, verdict>>

(* shim_accept in from_request, shim_connect in connect.                   *)
StartCm(s) ==
  /\ pc[s] = "cm"
  /\ link' = IF s = "server" THEN "accepted" ELSE "requested"
  /\ Goto(s, "tx")
  /\ UNCHANGED <<cli, srv, conn, events, verdict, est, told, eqq, gone, broken, nic>>

(* A call before the exchange fails: a poll of the listener, any call of   *)
(* initialize, the accept or the connect.  The server rejects the request  *)
(* it has taken before its endpoint is closed, if it can.                  *)
SetupFails(s) ==
  /\ "setup" \in Faults
  /\ pc[s] \in {"wait", "init", "cm"}
  /\ link' \in IF s = "server" /\ pc[s] # "wait" THEN {link, "rejected"} ELSE {link}
  /\ Fail(s, "setup")
  /\ UNCHANGED <<cli, srv, conn, est, told, eqq, gone, broken, nic>>

-----------------------------------------------------------------------------
(* Connection::poll: three reads of the provider, in this order.           *)

PollTx(s) ==
  /\ pc[s] = "tx"
  /\ IF tcq[s] = <<>>
     THEN Goto(s, "rx") /\ UNCHANGED <<conn, events, verdict, network>>
     ELSE /\ ReadTx(s)
          /\ IF Head(tcq[s]) = "err"
             THEN Fail(s, "transport") /\ UNCHANGED conn
             ELSE IF ~conn[s].tx
             THEN Fail(s, "protocol") /\ UNCHANGED conn
             ELSE /\ conn' = [conn EXCEPT ![s].tx = FALSE]
                  /\ events' = [events EXCEPT ![s] = Append(@, "sent")]
                  /\ Goto(s, "rx")
                  /\ UNCHANGED verdict
  /\ UNCHANGED <<cli, srv>>

PollRx(s) ==
  /\ pc[s] = "rx"
  /\ IF rcq[s] = <<>>
     THEN Goto(s, "eq") /\ UNCHANGED <<conn, events, verdict, network>>
     ELSE /\ ReadRx(s)
          /\ IF Head(rcq[s]) = "err"
             THEN Fail(s, "transport") /\ UNCHANGED conn
             ELSE IF ~conn[s].rx
             THEN Fail(s, "protocol") /\ UNCHANGED conn
             ELSE /\ conn' = [conn EXCEPT ![s].rx = FALSE]
                  /\ events' = [events EXCEPT ![s] = Append(@, Head(rcq[s]))]
                  /\ Goto(s, "eq")
                  /\ UNCHANGED verdict
  /\ UNCHANGED <<cli, srv>>

PollEq(s) ==
  /\ pc[s] = "eq"
  /\ IF eqq[s] = <<>>
     THEN Goto(s, "handle") /\ UNCHANGED <<events, verdict, network>>
     ELSE /\ ReadEq(s)
          /\ IF Head(eqq[s]) = "refused"
             THEN Fail(s, "transport")
             ELSE /\ events' = [events EXCEPT ![s] = Append(@, Head(eqq[s]))]
                  /\ Goto(s, "handle")
                  /\ UNCHANGED verdict
  /\ UNCHANGED <<cli, srv, conn>>

-----------------------------------------------------------------------------
(* Exchange::on_event, one event per step.                                 *)

ServerAccepts(ev) ==
  ev \in Message => <<srv.phase, ev>> \in {<<"Hello", "hello">>, <<"Ack", "ack">>}

ServerOnEvent(ev) ==
  [srv EXCEPT
     !.connected = @ \/ ev = "connected",
     !.sent = @ \/ ev = "sent",
     !.peer_closed = @ \/ ev = "shutdown",
     !.phase = CASE ev = "hello" -> "Reply" [] ev = "ack" -> "Done" [] OTHER -> @]

(* A send completion belongs to the ack if the ack is out, else to hello.  *)
AckCompletes(ev) == ev = "sent" /\ cli.ack_posted /\ ~cli.ack_completed
HelloCompletes(ev) ==
  ev = "sent" /\ ~AckCompletes(ev) /\ cli.hello_posted /\ ~cli.hello_completed

ClientAccepts(ev) ==
  /\ ev \in Message => cli.hello_posted /\ ~cli.world_received /\ ev = "world"
  /\ ev = "sent" => AckCompletes(ev) \/ HelloCompletes(ev)

ClientOnEvent(ev) ==
  [cli EXCEPT
     !.connected = @ \/ ev = "connected",
     !.world_received = @ \/ ev = "world",
     !.ack_completed = @ \/ AckCompletes(ev),
     !.hello_completed = @ \/ HelloCompletes(ev),
     !.peer_closed = @ \/ ev = "shutdown"]

HandleShutdownFails(s) ==       \* mutant: a shutdown event ends the exchange
  /\ pc[s] = "handle"
  /\ events[s] # <<>>
  /\ LET ev == Head(events[s])
     IN IF ev # "shutdown" /\ (s = "server" => ServerAccepts(ev))
                           /\ (s = "client" => ClientAccepts(ev))
        THEN /\ srv' = IF s = "server" THEN ServerOnEvent(ev) ELSE srv
             /\ cli' = IF s = "client" THEN ClientOnEvent(ev) ELSE cli
             /\ events' = [events EXCEPT ![s] = Tail(@)]
             /\ UNCHANGED <<pc, verdict>>
        ELSE Fail(s, "protocol") /\ UNCHANGED <<srv, cli>>
  /\ UNCHANGED <<conn, network>>

HandleEvent(s) ==
  /\ pc[s] = "handle"
  /\ events[s] # <<>>
  /\ LET ev == Head(events[s])
     IN IF IF s = "server" THEN ServerAccepts(ev) ELSE ClientAccepts(ev)
        THEN /\ srv' = IF s = "server" THEN ServerOnEvent(ev) ELSE srv
             /\ cli' = IF s = "client" THEN ClientOnEvent(ev) ELSE cli
             /\ events' = [events EXCEPT ![s] = Tail(@)]
             /\ UNCHANGED <<pc, verdict>>
        ELSE Fail(s, "protocol") /\ UNCHANGED <<srv, cli>>
  /\ UNCHANGED <<conn, network>>

-----------------------------------------------------------------------------
(* What the loop does once the events are handled.                         *)

ServerComplete == srv.phase = "Done" /\ srv.sent

ServerReplies == srv.connected /\ ~srv.peer_closed /\ srv.phase = "Reply"

ClientCompleteEarly == cli.world_received /\ cli.hello_completed  \* mutant

ClientCompleteWhenPosted ==   \* mutant: the completion of the ack is not awaited
  cli.world_received /\ cli.hello_completed /\ cli.ack_posted

ClientComplete ==
  cli.world_received /\ cli.hello_completed /\ cli.ack_completed

NextMessageEager ==      \* mutant: the completion of hello is not awaited
  CASE ~cli.connected \/ cli.peer_closed -> "none"
    [] ~cli.hello_posted -> "hello"
    [] cli.world_received /\ ~cli.ack_posted -> "ack"
    [] OTHER -> "none"

(* Exchange::next_message.                                                 *)
NextMessage ==
  IF ~cli.connected \/ cli.peer_closed THEN "none"
  ELSE IF ~cli.hello_posted THEN "hello"
  ELSE IF cli.hello_completed /\ cli.world_received /\ ~cli.ack_posted THEN "ack"
  ELSE "none"

NextStepSendFirst(s) ==  \* mutant: the server sends without a receive posted
  IF s = "client" THEN IF NextMessage = "none" THEN "tx" ELSE "send"
  ELSE IF ServerReplies THEN "send" ELSE "tx"

NextStep(s) ==
  IF s = "client" THEN IF NextMessage = "none" THEN "tx" ELSE "send"
  ELSE IF ~ServerReplies THEN "tx"
  ELSE IF conn[s].rx THEN "send" ELSE "repost"

DecideAfterFirst(s) ==   \* mutant: only the first event of a poll is handled
  /\ pc[s] = "handle"
  /\ Len(events[s]) < 2
  /\ IF IF s = "client" THEN ClientComplete ELSE ServerComplete
     THEN verdict' = [verdict EXCEPT ![s] = "ok"] /\ Goto(s, "close")
     ELSE Goto(s, NextStep(s)) /\ UNCHANGED verdict
  /\ UNCHANGED <<cli, srv, conn, events, network>>

Decide(s) ==
  /\ pc[s] = "handle"
  /\ events[s] = <<>>
  /\ IF IF s = "client" THEN ClientComplete ELSE ServerComplete
     THEN verdict' = [verdict EXCEPT ![s] = "ok"] /\ Goto(s, "close")
     ELSE Goto(s, NextStep(s)) /\ UNCHANGED verdict
  /\ UNCHANGED <<cli, srv, conn, events, network>>

(* The server posts the receive for the ack before it sends world.         *)
Repost(s) ==
  /\ pc[s] = "repost"
  /\ SubmitReceive(s)
  /\ Goto(s, "send")
  /\ UNCHANGED <<cli, srv, events, verdict>>

(* Exchange::posted of the client.                                         *)
Posted(msg) ==
  [cli EXCEPT !.hello_posted = @ \/ msg = "hello", !.ack_posted = @ \/ msg = "ack"]

(* Connection::send when the provider accepts: the slot is busy and the    *)
(* message on its way, or flushed at once on a broken endpoint.  The state *)
(* of the exchange advances only now.                                      *)
Send(s) ==
  LET msg == IF s = "server" THEN "world" ELSE NextMessage
  IN /\ pc[s] = "send"
     /\ IF conn[s].tx
        THEN Fail(s, "protocol") /\ UNCHANGED <<cli, srv, conn, network>>
        ELSE /\ conn' = [conn EXCEPT ![s].tx = TRUE]
             /\ srv' = IF msg = "world" THEN [srv EXCEPT !.phase = "Ack"] ELSE srv
             /\ cli' = Posted(msg)
             /\ TakeSend(s, msg)
             /\ Goto(s, "tx")
             /\ UNCHANGED <<events, verdict>>

(* EAGAIN: nothing was submitted, nothing advances, the loop goes round.   *)
Again(s) ==
  /\ pc[s] \in {"repost", "send"}
  /\ Goto(s, "tx")
  /\ UNCHANGED <<cli, srv, conn, events, verdict, network>>

(* A poll or a submission fails in the provider without an entry: the call *)
(* leaves the slots as they were, and its error ends the exchange.         *)
CallFails(s) ==
  /\ "flush" \in Faults
  /\ pc[s] \in {"tx", "rx", "eq", "repost", "send"}
  /\ Fail(s, "transport")
  /\ UNCHANGED <<cli, srv, conn, network>>

TimeoutWhileOpen(s) ==     \* mutant: no deadline once the peer is known to be gone
  /\ "timeout" \in Faults
  /\ pc[s] \in {"tx", "wait"}
  /\ ~(IF s = "client" THEN cli.peer_closed ELSE srv.peer_closed)
  /\ Fail(s, "timeout")
  /\ UNCHANGED <<cli, srv, conn, network>>

(* The deadline is looked at on the way into the loop, and, by the server, *)
(* while it waits for a request.                                           *)
Timeout(s) ==
  /\ "timeout" \in Faults
  /\ pc[s] \in {"tx", "wait"}
  /\ Fail(s, "timeout")
  /\ UNCHANGED <<cli, srv, conn, network>>

(* Connection::close, or the Drop of a half built one: the queues are gone *)
(* and with them the send request; its message may or may not have left.   *)
Close(s) ==
  /\ pc[s] = "close"
  /\ Goto(s, "done")
  /\ CloseEndpoint(s)
  /\ conn' = [conn EXCEPT ![s] = [tx |-> FALSE, rx |-> FALSE]]
  /\ UNCHANGED <<cli, srv, events, verdict, link>>

-----------------------------------------------------------------------------
(* Every step of a program but the one of its deadline.                    *)
Step(s) ==
  \/ s = "server" /\ WaitRequest
  \/ FirstReceive(s) \/ StartCm(s) \/ SetupFails(s)
  \/ PollTx(s) \/ PollRx(s) \/ PollEq(s)
  \/ HandleEvent(s) \/ Decide(s)
  \/ Repost(s) \/ Send(s) \/ Again(s) \/ CallFails(s)
  \/ Close(s)

(* Every step of the provider.                                             *)
Deliver(s) ==
  /\ \/ Establish(s) \/ Disconnected(s) \/ Place(s) \/ Acknowledge(s)
     \/ "flush" \in Faults /\ Break(s)
  /\ UNCHANGED program

Next == \E s \in Side : Step(s) \/ Timeout(s) \/ Deliver(s)

Spec == Init /\ [][Next]_vars

(* Each program is scheduled, and a loop that keeps coming back to its     *)
(* deadline check finds the deadline passed in the end.  Nothing is asked  *)
(* of the provider or of the peer.                                         *)
ProgramFairness ==
  \A s \in Side : WF_vars(Step(s)) /\ SF_vars(Timeout(s))

FairSpec == Spec /\ ProgramFairness

(* The provider delivers, and does not answer EAGAIN for ever.             *)
ProviderFairness ==
  \A s \in Side : /\ WF_vars(Establish(s) /\ UNCHANGED program)
                  /\ WF_vars(Disconnected(s) /\ UNCHANGED program)
                  /\ WF_vars(Place(s) /\ UNCHANGED program)
                  /\ WF_vars(Acknowledge(s) /\ UNCHANGED program)
                  /\ SF_vars(Repost(s)) /\ SF_vars(Send(s))

ReliableSpec == FairSpec /\ ProviderFairness

-----------------------------------------------------------------------------
(* Properties.                                                             *)

(* Between two rounds of a loop no event is left over.                     *)
TypeOK ==
  /\ pc \in [Side -> {"wait", "init", "cm", "tx", "rx", "eq", "handle",
                      "repost", "send", "close", "done"}]
  /\ cli \in [connected : BOOLEAN, hello_posted : BOOLEAN,
              hello_completed : BOOLEAN, world_received : BOOLEAN,
              ack_posted : BOOLEAN, ack_completed : BOOLEAN,
              peer_closed : BOOLEAN]
  /\ srv \in [phase : {"Hello", "Reply", "Ack", "Done"}, connected : BOOLEAN,
              sent : BOOLEAN, peer_closed : BOOLEAN]
  /\ conn \in [Side -> [tx : BOOLEAN, rx : BOOLEAN]]
  /\ events \in [Side -> Seq(Event)]
  /\ verdict \in [Side -> {"none", "ok", "timeout", "setup", "transport", "protocol"}]
  /\ NetworkTypeOK
  /\ eqq \in [Side -> Seq(CmEvent)]
  /\ \A s \in Side : events[s] # <<>> => pc[s] \in {"rx", "eq", "handle"}

(* Two programs of this repository never find each other at fault: no      *)
(* unexpected message or completion, no send or receive slot already in    *)
(* flight, in whatever order completions, CM events and faults arrive.     *)
NoProtocolError == \A s \in Side : verdict[s] # "protocol"

(* The pending flags are the truth about the buffers: a slot that is free  *)
(* for the program to read or fill is one the NIC does not hold and has no *)
(* unread completion for.                                                  *)
SlotsCoverProvider ==
  \A s \in Side :
    /\ ~conn[s].tx => txwr[s] = "none" /\ tcq[s] = <<>>
    /\ ~conn[s].rx => rq[s] = 0 /\ rcq[s] = <<>>

(* "hello sent, world verified, ack sent": when the client says so, the    *)
(* server had verified hello, and the ack is where it will find it, unless *)
(* the server has given up or its endpoint has broken.                     *)
ClientOkMeansDelivered ==
  verdict["client"] = "ok" =>
    /\ srv.phase \in {"Ack", "Done"}
    /\ srv.phase = "Ack" /\ verdict["server"] = "none" =>
          \/ \E i \in DOMAIN rcq["server"] : rcq["server"][i] = "ack"
          \/ \E i \in DOMAIN events["server"] : events["server"][i] = "ack"

(* Whatever the provider, the network and the peer do, both programs end,  *)
(* with their endpoints closed.                                            *)
Termination == <>(\A s \in Side : pc[s] = "done" /\ s \in gone)

(* Without faults both succeed, although the server closes its endpoint as *)
(* soon as it is done and the client may learn of that before it reads its *)
(* last completion.                                                        *)
BothSucceed == <>(\A s \in Side : verdict[s] = "ok")

(* The exchange implements the conversation of Handshake.                  *)
Conversation ==
  INSTANCE Handshake WITH
    heard <- [s \in Side |->
       IF s = "server"
       THEN CASE srv.phase = "Hello" -> 0 [] srv.phase = "Reply" -> 1
              [] srv.phase = "Ack" -> 2   [] srv.phase = "Done" -> 3
       ELSE IF ~cli.hello_posted THEN 0 ELSE IF ~cli.world_received THEN 1
            ELSE IF ~cli.ack_posted THEN 2 ELSE 3],
    verdict <- [s \in Side |->
       IF verdict[s] \in {"none", "ok"} THEN verdict[s] ELSE "failed"]

ImplementsHandshake == Conversation!Spec
=============================================================================
