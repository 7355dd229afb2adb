----------------------------- MODULE UdpClient -----------------------------
(***************************************************************************)
(* The UDP side of the chat client: UDPClient::start_udp_chat,             *)
(* handle_timeout, fsm_logic_handler, send_confim_exit and send_error_exit *)
(* (clients.cpp), the SIGINT handler and exit_program (main.cpp), and the  *)
(* classification of datagrams in messages.cpp.                            *)
(*                                                                         *)
(* The program has one thread.  It blocks in three places, and pc names    *)
(* the one it is in: poll() of the main loop ("Poll"), recvfrom() of       *)
(* handle_timeout ("Confirm") and recvfrom() of exit_program ("Bye");      *)
(* "Done" is exit().  An action runs from one blocking call to the next.   *)
(*                                                                         *)
(* The module is an open system: any datagram of Datagrams may arrive at   *)
(* any time, so a lost, late, repeated or unexpected one is covered.       *)
(* UdpSession closes it with a server and a network.  Texts, secrets and   *)
(* display names are not part of a datagram here.                          *)
(*                                                                         *)
(* SendErrorExitOneId, InputWatchedWhileReplyDue, StateKept, SkipNever,    *)
(* NotSeen, RefSeen, OpenInAnyCase, ConfirmReplyByCounter,                 *)
(* ConfirmExpectedReply, AnyConfirm, ResendForever, ResendRenumbered,      *)
(* ResendOnceMore, AnswerInBye and TimeoutInByeUncounted are no part of    *)
(* the model: each is the operator after it with a mistake in it, which a  *)
(* property has to detect.                                                 *)
(***************************************************************************)
EXTENDS Integers, Sequences

CONSTANTS
    IdSpace,      \* how many message ids there are (65536: a uint16_t)
    MaxRetrans,   \* max_udp_retransmission, the -r argument
    Inputs,       \* what check_user_message can make of a typed line
    Datagrams,    \* what may arrive on the socket
    Ports,        \* port numbers
    ServerPort,   \* the port given on the command line
    UnsetPort,    \* what server_port = -1 is as a uint16_t
    MaxMsgs       \* bound on msg_counter: how many lines are typed

Ids == 0 .. IdSpace - 1

InTypes == {"CONFIRM", "REPLY_OK", "REPLY_NOK", "MSG", "ERR", "BYE", "INVALID_MSG"}
Typed == {"AUTH", "JOIN", "MSG", "EMPTY"}
OutTypes == Typed \cup {"CONFIRM", "ERR", "BYE"}
LineTypes == {"AUTH", "JOIN", "MSG", "USER_CMD"}

ASSUME ConstantsAssumption ==
    /\ IdSpace \in Nat \ {0}
    /\ MaxRetrans \in Nat
    /\ MaxMsgs \in Nat
    /\ ServerPort \in Ports /\ UnsetPort \in Ports
    /\ Inputs \subseteq {u \in [type : LineTypes, wire : BOOLEAN] :
                       u.type = "USER_CMD" => ~u.wire}
    /\ Datagrams \subseteq [type : InTypes, id : Ids, ref : Ids,
                            port : Ports, short : BOOLEAN]

VARIABLES
    pc,                 \* the blocking call the process is in
    client_state,       \* cl_info.client_state
    reply_msg_sent,     \* cl_info.reply_msg_sent: a REPLY is awaited
    msg_counter,        \* cl_info.msg_counter
    confirm_msg_sent,   \* a CONFIRM is awaited
    confirm_id_vector,
    reply_id_vector,
    seen_ids,           \* only ever searched, so a set
    change_server_port, \* the switch to the server's dynamic port is still due
    server_port,        \* source port of the last datagram of accept_msg
    peer,               \* dns_results' port, where send_msg sends to
    outgoing,           \* handle_timeout's outgoing_msg
    retry_number,       \* of handle_timeout, then of exit_program
    in_handler,         \* the SIGINT handler is running (SIGINT is blocked)
    ret,                \* why and how exit_program was called
    sent,               \* datagrams handed to sendto so far
    acks,               \* history: ref ids of the CONFIRMs read
    shown,              \* history: ids of the MSGs printed, in order
    recv_failed         \* history: handle_timeout left on a receive error

chat == <<client_state, reply_msg_sent, reply_id_vector, seen_ids>>
confirmation == <<confirm_msg_sent, confirm_id_vector>>
address == <<change_server_port, peer>>
waiting == <<outgoing, retry_number>>
vars == <<pc, chat, msg_counter, confirmation, address, server_port, waiting,
          in_handler, ret, sent, acks, shown, recv_failed>>

Packet(type, id, dest) == [type |-> type, id |-> id, dest |-> dest]
NoMessage == [type |-> "NONE", id |-> 0]

Init ==
    /\ pc = "Poll"
    /\ client_state = "START" /\ reply_msg_sent = FALSE /\ msg_counter = 0
    /\ confirm_msg_sent = FALSE /\ confirm_id_vector = <<>>
    /\ reply_id_vector = <<>> /\ seen_ids = {}
    /\ change_server_port = TRUE /\ server_port = UnsetPort /\ peer = ServerPort
    /\ outgoing = NoMessage /\ retry_number = 0
    /\ in_handler = FALSE /\ ret = "running"
    /\ sent = {} /\ acks = {} /\ shown = <<>> /\ recv_failed = FALSE

-----------------------------------------------------------------------------
(* Sending, and leaving the program. *)

Transmit(packets) == sent' = sent \cup packets

Confirm(id, dest) == Packet("CONFIRM", id, dest)

\* exit_program: the BYE takes the current counter as its id, and the wait for
\* its CONFIRM starts with a retry count of its own.
ExitProgram(send_bye, why, counter, packets) ==
    /\ ret' = why
    /\ IF send_bye
       THEN /\ pc' = "Bye" /\ retry_number' = 0
            /\ Transmit(packets \cup {Packet("BYE", counter % IdSpace, peer)})
       ELSE /\ pc' = "Done" /\ UNCHANGED retry_number
            /\ Transmit(packets)

SendErrorExitOneId(packets) ==
    /\ UNCHANGED msg_counter
    /\ confirm_msg_sent' = TRUE
    /\ ExitProgram(TRUE, "failure", msg_counter,
                   packets \cup {Packet("ERR", msg_counter % IdSpace, peer)})

\* send_error_exit: handle_timeout is called with exit set and leaves at once,
\* so the ERR's own CONFIRM is never waited for.
SendErrorExit(packets) ==
    /\ msg_counter' = msg_counter + 1
    /\ confirm_msg_sent' = TRUE
    /\ ExitProgram(TRUE, "failure", msg_counter + 1,
                   packets \cup {Packet("ERR", msg_counter % IdSpace, peer)})

-----------------------------------------------------------------------------
(* Typed lines. *)

InputWatchedWhileReplyDue == pc = "Poll" /\ ~confirm_msg_sent

\* poll watches standard input only when neither a REPLY nor a CONFIRM is due.
InputWatched == pc = "Poll" /\ ~reply_msg_sent /\ ~confirm_msg_sent

NeedsReply(u) == u.type \in {"AUTH", "JOIN"}

\* Which of the lines that are ready_to_send really go out in each state.
Accepted(u) ==
    IF client_state = "OPEN" THEN u.type # "AUTH" ELSE u.type = "AUTH"

\* The first AUTH leaves START before its CONFIRM and its REPLY are in.
StateKept == client_state
StateAfterSubmit == IF client_state = "START" THEN "AUTH" ELSE client_state

\* A line that is sent.  A line whose formatting failed or produced nothing
\* (wire is FALSE) still goes out, as an empty datagram.
SubmitLine(u) ==
    /\ InputWatched
    /\ msg_counter < MaxMsgs
    /\ Accepted(u)
    /\ LET id == msg_counter % IdSpace
           type == IF u.wire THEN u.type ELSE "EMPTY"
       IN  /\ outgoing' = [type |-> type, id |-> id]
           /\ confirm_id_vector' = Append(confirm_id_vector, id)
           /\ reply_id_vector' = IF NeedsReply(u) THEN Append(reply_id_vector, id)
                                                  ELSE reply_id_vector
           /\ Transmit({Packet(type, id, peer)})
    /\ reply_msg_sent' = NeedsReply(u)
    /\ confirm_msg_sent' = TRUE
    /\ client_state' = StateAfterSubmit
    /\ msg_counter' = msg_counter + 1
    /\ pc' = "Confirm" /\ retry_number' = 0
    /\ UNCHANGED <<seen_ids, address, server_port, in_handler, ret, acks, shown,
                   recv_failed>>

\* A line the state refuses: it is reported, and its id is used up all the same.
RefuseLine(u) ==
    /\ InputWatched
    /\ msg_counter < MaxMsgs
    /\ ~Accepted(u)
    /\ msg_counter' = msg_counter + 1
    /\ UNCHANGED <<pc, chat, confirmation, address, server_port, waiting,
                   in_handler, ret, sent, acks, shown, recv_failed>>

\* CTRL-D.
EndOfInput ==
    /\ InputWatched
    /\ ExitProgram(TRUE, "failure", msg_counter, {})
    /\ UNCHANGED <<chat, msg_counter, confirmation, address, server_port,
                   outgoing, in_handler, acks, shown, recv_failed>>

-----------------------------------------------------------------------------
(* fsm_logic_handler, shared by the main loop and handle_timeout.  The      *)
(* callers say what becomes of server_port, acks and recv_failed.           *)

SkipNever(d) == FALSE

\* validate_unique_id: a CONFIRM and an unknown datagram carry no id to look up.
Skip(d) == d.type \notin {"CONFIRM", "INVALID_MSG"} /\ d.id \in seen_ids

\* process_inbound_msg: what a datagram turns out to be once it is read in full.
Processed(d) ==
    IF ~d.short THEN d.type
    ELSE IF d.type \in {"REPLY_OK", "REPLY_NOK"} THEN "INVALID_MSG"
    ELSE IF d.type = "MSG" THEN "ERR" ELSE d.type

NotSeen(d) == UNCHANGED seen_ids
RefSeen(d) == seen_ids' = seen_ids \cup {d.ref}
MarkSeen(d) == seen_ids' = seen_ids \cup {d.id}

Front(vector) == IF vector = <<>> THEN -1 ELSE Head(vector)

FsmConfirm(d) ==
    /\ Processed(d) = "CONFIRM"
    /\ IF Front(confirm_id_vector) = d.ref
       THEN confirm_id_vector' = Tail(confirm_id_vector) /\ confirm_msg_sent' = FALSE
       ELSE UNCHANGED confirmation
    /\ UNCHANGED <<pc, chat, msg_counter, address, waiting, ret, sent, shown>>

ReplyExpected(d) == reply_msg_sent /\ Front(reply_id_vector) = d.ref

OpenInAnyCase(d) == "OPEN"
StateAfterReply(d) == IF Processed(d) = "REPLY_OK" THEN "OPEN" ELSE client_state

ConfirmReplyByCounter(d) == Transmit({Confirm(msg_counter % IdSpace, peer')})
ConfirmExpectedReply(d) ==
    IF ReplyExpected(d) THEN Transmit({Confirm(d.id, peer')}) ELSE UNCHANGED sent
ConfirmReply(d) == Transmit({Confirm(d.id, peer')})

\* The first REPLY moves the client to the port noted in server_port: that of
\* the REPLY itself in the main loop, whatever was noted before in handle_timeout.
FsmReply(d) ==
    /\ Processed(d) \in {"REPLY_OK", "REPLY_NOK"}
    /\ MarkSeen(d)
    /\ IF client_state = "AUTH" /\ reply_msg_sent /\ change_server_port
       THEN change_server_port' = FALSE /\ peer' = server_port'
       ELSE UNCHANGED address
    /\ IF ReplyExpected(d)
       THEN /\ reply_msg_sent' = FALSE
            /\ reply_id_vector' = Tail(reply_id_vector)
            /\ client_state' = StateAfterReply(d)
       ELSE UNCHANGED <<reply_msg_sent, reply_id_vector, client_state>>
    /\ ConfirmReply(d)
    /\ UNCHANGED <<pc, msg_counter, confirmation, waiting, ret, shown>>

FsmChatMsg(d) ==
    /\ Processed(d) = "MSG" /\ client_state = "OPEN"
    /\ shown' = Append(shown, d.id)
    /\ MarkSeen(d)
    /\ Transmit({Confirm(d.id, peer)})
    /\ UNCHANGED <<pc, client_state, reply_msg_sent, reply_id_vector, msg_counter,
                   confirmation, address, waiting, ret>>

\* A chat message before the REPLY is printed, then answered by ERR.
FsmEarlyMsg(d) ==
    /\ Processed(d) = "MSG" /\ client_state = "AUTH"
    /\ shown' = Append(shown, d.id)
    /\ SendErrorExit({Confirm(d.id, peer)})
    /\ UNCHANGED <<chat, confirm_id_vector, address, outgoing>>

FsmServerErr(d) ==
    /\ Processed(d) = "ERR"
    /\ ExitProgram(TRUE, "failure", msg_counter, {Confirm(d.id, peer)})
    /\ UNCHANGED <<chat, msg_counter, confirmation, address, outgoing, shown>>

FsmServerBye(d) ==
    /\ Processed(d) = "BYE" /\ client_state = "OPEN"
    /\ ExitProgram(FALSE, "failure", msg_counter, {Confirm(d.id, peer)})
    /\ UNCHANGED <<chat, msg_counter, confirmation, address, outgoing, shown>>

\* The CONFIRM of an unknown datagram carries the client's own counter.
FsmInvalid(d) ==
    /\ Processed(d) = "INVALID_MSG" /\ client_state = "OPEN"
    /\ SendErrorExit({Confirm(msg_counter % IdSpace, peer)})
    /\ UNCHANGED <<chat, confirm_id_vector, address, outgoing, shown>>

\* Already seen, or a type the AUTH state has no branch for.
FsmIgnore(d) ==
    /\ Skip(d) \/ (client_state = "AUTH" /\ Processed(d) \in {"BYE", "INVALID_MSG"})
    /\ UNCHANGED <<pc, chat, msg_counter, confirmation, address, waiting, ret, sent,
                   shown>>

\* The START branch is missing: no caller reaches it (StartIsClean below).
FsmLogicHandler(d) ==
    \/ FsmIgnore(d)
    \/ /\ ~Skip(d) /\ client_state # "START"
       /\ \/ FsmConfirm(d)   \/ FsmReply(d)     \/ FsmChatMsg(d) \/ FsmEarlyMsg(d)
          \/ FsmServerErr(d) \/ FsmServerBye(d) \/ FsmInvalid(d)

-----------------------------------------------------------------------------
(* The main loop. *)

NoteAck(d) == acks' = IF d.type = "CONFIRM" THEN acks \cup {d.ref} ELSE acks

\* The checks the main loop makes before it calls fsm_logic_handler.
PollRefuses(d) ==
    /\ ~Skip(d)
    /\ \/ d.type \in {"ERR", "INVALID_MSG"}
       \/ client_state = "START"
       \/ client_state = "AUTH" /\ d.type \in {"BYE", "MSG"}

PollServerErr(d) ==
    /\ d.type = "ERR"
    /\ ExitProgram(TRUE, "failure", msg_counter, {Confirm(d.id, peer)})
    /\ UNCHANGED <<msg_counter, confirm_msg_sent>>

PollUnexpected(d) ==
    /\ d.type # "ERR"
    /\ LET id == IF d.type = "INVALID_MSG" THEN msg_counter % IdSpace ELSE d.id
       IN  SendErrorExit({Confirm(id, peer)})

RefuseInPoll(d) ==
    /\ pc = "Poll"
    /\ PollRefuses(d)
    /\ server_port' = d.port
    /\ NoteAck(d)
    /\ PollServerErr(d) \/ PollUnexpected(d)
    /\ UNCHANGED <<chat, confirm_id_vector, address, outgoing, in_handler, shown,
                   recv_failed>>

ReceiveInPoll(d) ==
    /\ pc = "Poll"
    /\ ~PollRefuses(d)
    /\ server_port' = d.port
    /\ NoteAck(d)
    /\ FsmLogicHandler(d)
    /\ UNCHANGED <<in_handler, recv_failed>>

\* poll or recvfrom reports an error that is not a timeout.
FailInPoll ==
    /\ pc = "Poll"
    /\ ExitProgram(FALSE, "failure", msg_counter, {})
    /\ UNCHANGED <<chat, msg_counter, confirmation, address, server_port,
                   outgoing, in_handler, acks, shown, recv_failed>>

-----------------------------------------------------------------------------
(* handle_timeout: the CONFIRM of outgoing is awaited. *)

AnyConfirm(d) == confirm_msg_sent /\ d.type = "CONFIRM"
ConfirmsOutgoing(d) ==
    confirm_msg_sent /\ d.type = "CONFIRM" /\ d.ref = outgoing.id

\* The id stays in confirm_id_vector: only fsm_logic_handler takes ids out.
OutgoingConfirmed(d) ==
    /\ pc = "Confirm"
    /\ ConfirmsOutgoing(d)
    /\ confirm_msg_sent' = FALSE
    /\ pc' = "Poll"
    /\ NoteAck(d)
    /\ UNCHANGED <<chat, msg_counter, confirm_id_vector, address, server_port, waiting,
                   in_handler, ret, sent, shown, recv_failed>>

\* A local variable hides the member server_addr, and server_port is not noted.
ReceiveInConfirm(d) ==
    /\ pc = "Confirm"
    /\ ~ConfirmsOutgoing(d)
    /\ UNCHANGED <<server_port, in_handler, recv_failed>>
    /\ NoteAck(d)
    /\ FsmLogicHandler(d)

ResendForever ==
    /\ pc = "Confirm"
    /\ Transmit({Packet(outgoing.type, outgoing.id, peer)})
    /\ UNCHANGED <<pc, chat, msg_counter, confirmation, address, server_port, waiting,
                   in_handler, ret, acks, shown, recv_failed>>

ResendRenumbered ==
    /\ pc = "Confirm"
    /\ retry_number # MaxRetrans
    /\ retry_number' = retry_number + 1
    /\ Transmit({Packet(outgoing.type, msg_counter % IdSpace, peer)})
    /\ UNCHANGED <<pc, chat, msg_counter, confirmation, address, server_port,
                   outgoing, in_handler, ret, acks, shown, recv_failed>>

ResendOnceMore ==
    /\ pc = "Confirm"
    /\ retry_number <= MaxRetrans
    /\ retry_number' = retry_number + 1
    /\ Transmit({Packet(outgoing.type, outgoing.id, peer)})
    /\ UNCHANGED <<pc, chat, msg_counter, confirmation, address, server_port,
                   outgoing, in_handler, ret, acks, shown, recv_failed>>

Resend ==
    /\ pc = "Confirm"
    /\ retry_number # MaxRetrans
    /\ retry_number' = retry_number + 1
    /\ Transmit({Packet(outgoing.type, outgoing.id, peer)})
    /\ UNCHANGED <<pc, chat, msg_counter, confirmation, address, server_port,
                   outgoing, in_handler, ret, acks, shown, recv_failed>>

GiveUp ==
    /\ pc = "Confirm"
    /\ retry_number = MaxRetrans
    /\ ExitProgram(TRUE, "timeouts", msg_counter, {})
    /\ UNCHANGED <<chat, msg_counter, confirmation, address, server_port,
                   outgoing, in_handler, acks, shown, recv_failed>>

\* A receive error ends the wait with confirm_msg_sent still set.
FailInConfirm ==
    /\ pc = "Confirm"
    /\ pc' = "Poll" /\ recv_failed' = TRUE
    /\ UNCHANGED <<chat, msg_counter, confirmation, address, server_port, waiting,
                   in_handler, ret, sent, acks, shown>>

-----------------------------------------------------------------------------
(* exit_program: the CONFIRM of the BYE is awaited, and nothing is resent. *)

\* A uint16_t is compared with the int counter itself.
ConfirmsBye(d) == d.type = "CONFIRM" /\ d.ref = msg_counter

AnswerInBye(d) ==
    /\ pc = "Bye"
    /\ UNCHANGED <<server_port, in_handler, recv_failed>>
    /\ NoteAck(d)
    /\ FsmLogicHandler(d)

ReceiveInBye(d) ==
    /\ pc = "Bye"
    /\ pc' = IF ConfirmsBye(d) THEN "Done" ELSE "Bye"
    /\ NoteAck(d)
    /\ UNCHANGED <<chat, msg_counter, confirmation, address, server_port, waiting,
                   in_handler, ret, sent, shown, recv_failed>>

TimeoutInByeUncounted == pc = "Bye" /\ UNCHANGED vars

TimeoutInBye ==
    /\ pc = "Bye"
    /\ IF retry_number = MaxRetrans THEN pc' = "Done" /\ UNCHANGED retry_number
                                    ELSE retry_number' = retry_number + 1 /\ UNCHANGED pc
    /\ UNCHANGED <<chat, msg_counter, confirmation, address, server_port, outgoing,
                   in_handler, ret, sent, acks, shown, recv_failed>>

FailInBye ==
    /\ pc = "Bye"
    /\ pc' = "Done"
    /\ UNCHANGED <<chat, msg_counter, confirmation, address, server_port, waiting,
                   in_handler, ret, sent, acks, shown, recv_failed>>

\* graceful_exit: CTRL-C in any of the three waits, a BYE wait of the main
\* program included, starts an exit_program of its own that never returns.
Interrupt ==
    /\ pc # "Done" /\ ~in_handler
    /\ in_handler' = TRUE
    /\ ExitProgram(client_state # "START", "success", msg_counter, {})
    /\ UNCHANGED <<chat, msg_counter, confirmation, address, server_port, outgoing,
                   acks, shown, recv_failed>>

-----------------------------------------------------------------------------
Receive(d) ==
    \/ RefuseInPoll(d) \/ ReceiveInPoll(d)
    \/ OutgoingConfirmed(d) \/ ReceiveInConfirm(d)
    \/ ReceiveInBye(d)

Timeout == Resend \/ GiveUp \/ TimeoutInBye

Fail == FailInPoll \/ FailInConfirm \/ FailInBye

User ==
    \/ \E u \in Inputs : SubmitLine(u) \/ RefuseLine(u)
    \/ EndOfInput
    \/ Interrupt

Next ==
    \/ \E d \in Datagrams : Receive(d)
    \/ Timeout
    \/ Fail
    \/ User

Spec == Init /\ [][Next]_vars

-----------------------------------------------------------------------------
(* What the client guarantees against any server and any network. *)

TypeOK ==
    /\ pc \in {"Poll", "Confirm", "Bye", "Done"}
    /\ client_state \in {"START", "AUTH", "OPEN"}
    /\ reply_msg_sent \in BOOLEAN /\ confirm_msg_sent \in BOOLEAN
    /\ msg_counter \in Nat
    /\ confirm_id_vector \in Seq(Ids) /\ reply_id_vector \in Seq(Ids)
    /\ seen_ids \subseteq Ids
    /\ change_server_port \in BOOLEAN
    /\ server_port \in Ports /\ peer \in Ports
    /\ outgoing \in [type : Typed \cup {"NONE"}, id : Ids]
    /\ retry_number \in 0 .. MaxRetrans
    /\ in_handler \in BOOLEAN
    /\ ret \in {"running", "success", "failure", "timeouts"}
    /\ sent \subseteq [type : OutTypes, id : Ids, dest : Ports]
    /\ acks \subseteq Ids /\ shown \in Seq(Ids) /\ recv_failed \in BOOLEAN

\* The START branch of fsm_logic_handler is dead code (clients.cpp:403): in
\* START nothing is awaited, nothing was seen, and no wait is entered.
StartIsClean ==
    client_state = "START" =>
        pc # "Confirm" /\ ~reply_msg_sent /\ seen_ids = {} /\ confirm_id_vector = <<>>

\* reply_id_vector and reply_msg_sent, set and cleared at six places of the
\* code, agree: a REPLY is awaited exactly for the last message submitted.
ReplyOutstanding ==
    reply_id_vector = IF reply_msg_sent THEN <<outgoing.id>> ELSE <<>>

\* Stop and wait: back in the main loop, the CONFIRM of the last message has
\* been read, so a further message never overtakes an unconfirmed one.
StopAndWait ==
    pc = "Poll" /\ ~recv_failed /\ outgoing # NoMessage =>
        ~confirm_msg_sent /\ outgoing.id \in acks

\* A chat message is printed once, however often and wherever it arrives.
ShownOnce ==
    \A i, j \in DOMAIN shown : shown[i] = shown[j] => i = j

\* Until the client leaves, it confirms only what it has noted as seen.
ConfirmsAreSeen ==
    pc \in {"Poll", "Confirm"} =>
        \A p \in sent : p.type = "CONFIRM" => p.id \in seen_ids

\* The messages of the client have ids of their own until the counter wraps
\* around.  A line that is submitted has an id under which nothing has been sent
\* yet; whatever else goes out of a line is a copy of the one at hand; and an ERR
\* or a BYE shares its id with no other message, except that CTRL-C in the wait of
\* a BYE says BYE once more.
Submits == pc = "Poll" /\ pc' = "Confirm"

IdsAreNew ==
    [][/\ Submits => \A p \in sent : p.type # "CONFIRM" => p.id # outgoing'.id
       /\ \A p \in sent' \ sent : p.type \in Typed =>
              /\ p.type = outgoing'.type /\ p.id = outgoing'.id
              /\ Submits \/ UNCHANGED outgoing
       /\ \A p \in sent' \ sent, q \in sent' :
              p.type \in {"ERR", "BYE"} /\ q.type # "CONFIRM" /\ p.id = q.id =>
                  p.type = q.type /\ (p.type = "BYE" \/ q \notin sent)]_vars

\* Whatever the client notes as seen it confirms in the same step, to the
\* port it talks to from then on: later copies are dropped without a CONFIRM.
SeenIsConfirmed ==
    [][\A i \in seen_ids' \ seen_ids : Confirm(i, peer') \in sent']_vars

\* Leaving the chat: once exit_program has been called nothing but a BYE goes out,
\* and the exit code is the one it was given, unless CTRL-C ends the wait.
Exits == INSTANCE Departure WITH
    phase <- IF pc = "Bye" THEN "leaving" ELSE IF pc = "Done" THEN "gone" ELSE "chatting",
    code <- IF ret = "running" THEN "none" ELSE IF ret = "timeouts" THEN "failure" ELSE ret,
    said <- {p \in sent : p.type # "BYE"}

DepartureSpec == Exits!Spec

-----------------------------------------------------------------------------
(* What the documentation says and the code does not keep to. *)

\* README.md:186: a faulty line is reported and another one awaited, so it is
\* not sent.  The code sends an empty datagram and waits for its CONFIRM.
FaultyLinesStayLocal == \A p \in sent : p.type # "EMPTY"
=============================================================================
