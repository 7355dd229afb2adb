----------------------------- MODULE UdpSession -----------------------------
(***************************************************************************)
(* The UDP client of UdpClient together with a chat server that keeps to   *)
(* the protocol, over a network that may lose, delay, repeat and reorder.  *)
(*                                                                         *)
(* sent and to_client only grow: a datagram in them may be received at any *)
(* time, any number of times, or never.  The server is not part of the     *)
(* repository; it is modelled from what the client expects of it: it       *)
(* confirms what it receives, answers AUTH and JOIN by a REPLY from a port *)
(* of its own for this user, and sends chat messages, BYE and ERR to a     *)
(* user it has accepted.  A copy of what it knows is confirmed again,      *)
(* which leaves to_client as it is; ERR and BYE it takes as well, but only *)
(* the lines of the user go into the chat.                                 *)
(***************************************************************************)
EXTENDS UdpClient

CONSTANTS
    DynPort,      \* the server's port for this user
    MaxSrvMsgs    \* bound on srv_next

\* The id a UDPMessage keeps when none is read: uint16_t(-1).
DefaultId == IdSpace - 1

\* What a server that keeps to the protocol can send.
ServerDatagrams ==
    [type : {"CONFIRM"}, id : {DefaultId}, ref : Ids, port : {ServerPort, DynPort},
     short : {FALSE}]
    \cup [type : {"REPLY_OK", "REPLY_NOK"}, id : Ids, ref : Ids, port : {DynPort},
          short : {FALSE}]
    \cup [type : {"MSG", "BYE", "ERR"}, id : Ids, ref : {0}, port : {DynPort},
          short : {FALSE}]

ASSUME SessionAssumption ==
    /\ DynPort \in Ports \ {ServerPort, UnsetPort}
    /\ MaxSrvMsgs \in Nat
    /\ ServerDatagrams \subseteq Datagrams

VARIABLES
    to_client,    \* datagrams the server has sent
    srv_known,    \* what has arrived from the client
    srv_log,      \* the lines of the user, in the order of first arrival
    srv_auth,     \* an AUTH has been accepted
    srv_next      \* how many messages of its own the server has sent

server == <<to_client, srv_known, srv_log, srv_auth, srv_next>>
sessionVars == <<vars, server>>

SessionInit ==
    /\ Init
    /\ to_client = {} /\ srv_known = {} /\ srv_log = <<>>
    /\ srv_auth = FALSE /\ srv_next = 0

Datagram(type, id, ref, port) ==
    [type |-> type, id |-> id, ref |-> ref, port |-> port, short |-> FALSE]

Content(p) == [type |-> p.type, id |-> p.id]

SrvId == srv_next % IdSpace

Asks(m) == m.type \in {"AUTH", "JOIN"}

Answer(p, verdict) ==
    {Datagram("CONFIRM", DefaultId, p.id, p.dest)}
    \cup IF Asks(p) THEN {Datagram(verdict, SrvId, p.id, DynPort)} ELSE {}

ServerReceives(p, verdict) ==
    /\ p.dest \in {ServerPort, DynPort}
    /\ p.type \notin {"CONFIRM", "EMPTY"}
    /\ Content(p) \notin srv_known
    /\ srv_known' = srv_known \cup {Content(p)}
    /\ srv_log' = IF p.type \in Typed THEN Append(srv_log, Content(p)) ELSE srv_log
    /\ to_client' = to_client \cup Answer(p, verdict)
    /\ srv_auth' = (srv_auth \/ (p.type = "AUTH" /\ verdict = "REPLY_OK"))
    /\ srv_next' = IF Asks(p) THEN srv_next + 1 ELSE srv_next
    /\ UNCHANGED vars

ServerSpeaks(type) ==
    /\ srv_auth
    /\ srv_next < MaxSrvMsgs
    /\ to_client' = to_client \cup {Datagram(type, SrvId, 0, DynPort)}
    /\ srv_next' = srv_next + 1
    /\ UNCHANGED <<vars, srv_known, srv_log, srv_auth>>

ClientReceives(d) == d \in to_client /\ Receive(d) /\ UNCHANGED server

ClientTimeout == Timeout /\ UNCHANGED server

SessionNext ==
    \/ \E p \in sent, verdict \in {"REPLY_OK", "REPLY_NOK"} : ServerReceives(p, verdict)
    \/ \E type \in {"MSG", "BYE", "ERR"} : ServerSpeaks(type)
    \/ \E d \in to_client : ClientReceives(d)
    \/ ClientTimeout
    \/ (Fail \/ User) /\ UNCHANGED server

SessionSpec == SessionInit /\ [][SessionNext]_sessionVars

\* recvfrom of handle_timeout and exit_program returns, with a datagram or
\* with a timeout, and copies the client drops do not keep arriving for ever;
\* the server sends its REPLY and its CONFIRM until one copy gets through.
\* No timeout is fair by itself: any answer may always be in time.
Fairness ==
    /\ WF_sessionVars(ClientTimeout \/ \E d \in to_client : ClientReceives(d))
    /\ \A d \in Datagrams : WF_sessionVars(pc = "Poll" /\ ClientReceives(d))

FairSession == SessionSpec /\ Fairness

-----------------------------------------------------------------------------
SessionTypeOK ==
    /\ TypeOK
    /\ to_client \subseteq Datagrams
    /\ srv_known \subseteq [type : OutTypes, id : Ids]
    /\ srv_log \in Seq([type : Typed, id : Ids])
    /\ srv_auth \in BOOLEAN /\ srv_next \in Nat

\* The client is in OPEN only when the server has accepted an AUTH of this
\* client: no REPLY to an earlier, refused AUTH or to a JOIN can be taken for it.
OpenIsAccepted == client_state = "OPEN" => srv_auth

\* When the prompt is back, the last message has reached the server and, if it
\* was an AUTH or a JOIN, the REPLY that has been printed answers that message.
PromptMeansAnswered ==
    InputWatched /\ ~recv_failed /\ outgoing # NoMessage =>
        /\ outgoing \in srv_known
        /\ Asks(outgoing) =>
               \E d \in to_client : /\ d.type \in {"REPLY_OK", "REPLY_NOK"}
                                    /\ d.ref = outgoing.id /\ d.id \in seen_ids

\* A CONFIRM goes out only in the step that reads the message it confirms, under
\* that message's id, so the server never takes one for received that the client
\* has not read.
ConfirmsAreReal ==
    [][\A p \in sent' \ sent : p.type = "CONFIRM" =>
           \E d \in to_client : ClientReceives(d) /\ d.type # "CONFIRM" /\ d.id = p.id]_sessionVars

\* No chat message is lost to the search for copies: whatever the client drops as
\* seen it has printed, though REPLYs are noted in the same seen_ids.
DroppedWasPrinted ==
    \A d \in to_client :
        d.type = "MSG" /\ d.id \in seen_ids => \E i \in DOMAIN shown : shown[i] = d.id

Channel == INSTANCE ReliableChannel WITH
    Messages <- [type : Typed, id : Ids],
    pending <- {m \in {Content(p) : p \in sent} : m.type \in Typed /\ m \notin srv_known},
    delivered <- srv_log,
    status <- IF pc \in {"Bye", "Done"} THEN "closed"
              ELSE IF recv_failed THEN "failed" ELSE "open"

\* The client, its retransmissions and a lossy network make a reliable channel.
ChannelSpec == Channel!Spec

\* A message never leaves the user without a prompt for ever: it is confirmed
\* and answered, or the client leaves.  (A receive error has no retry.)
PromptReturns == pc = "Confirm" ~> InputWatched \/ pc = "Done" \/ recv_failed

\* CTRL-C, CTRL-D, BYE and ERR all end the process, whatever the network does.
ExitEnds == pc = "Bye" ~> pc = "Done"

-----------------------------------------------------------------------------
(* What the documentation says and the code does not keep to. *)

\* README.md:114: handle_timeout sees to it that the CONFIRM is taken in, and
\* only its absence ends in a timeout.  A copy of an older CONFIRM, taken for
\* the front of confirm_id_vector, makes the wait deaf to the right one.
ConfirmEndsWait == pc = "Confirm" => outgoing.id \notin acks

\* clients.cpp:425: the port is switched so that new messages go to the new one.
\* A REPLY read in handle_timeout switches to a port nobody noted.
PortFollowsReply == ~change_server_port => peer = DynPort
=============================================================================
