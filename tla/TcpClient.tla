----------------------------- MODULE TcpClient -----------------------------
(***************************************************************************)
(* The TCP side of the chat client: TCPClient::start_tcp_chat and          *)
(* accept_msg (clients.cpp), TCPMessage::process_inbound_msg               *)
(* (messages.cpp) and the TCP branch of exit_program (main.cpp).           *)
(*                                                                         *)
(* One turn of the main loop is poll ("Poll"), the socket branch ("Serve") *)
(* and the standard input branch ("Input").  accept_msg and getline block, *)
(* so each branch is a step that is enabled only when it can return.  poll *)
(* leaves its verdict in fds[].revents, which the branches read later.     *)
(* The BYE of exit_program ("Bye") is a step of its own: the connection    *)
(* may break, or the user press CTRL-C, between it and what came before.   *)
(*                                                                         *)
(* The server is arbitrary: it sends any messages, stops in the middle of  *)
(* a line, and closes or resets the connection when it likes.  A line that *)
(* is longer than the receive buffer arrives as several messages.          *)
(*                                                                         *)
(* Standard input is a terminal, which hands over one line at a time, or a *)
(* pipe or file, of which std::cin takes all there is into its own buffer, *)
(* where poll does not see it.                                             *)
(*                                                                         *)
(* SendErrWithBye, StdinOpen, AnyReply, OnlyOkIsTaken, ConnectionIgnored   *)
(* and ReadLineAgain are no part of the model: each is the operator after  *)
(* it with a mistake in it, which a property has to detect.  So is ToInput *)
(* in place of EndTurn.                                                    *)
(***************************************************************************)
EXTENDS Naturals, Sequences

CONSTANTS
    Lines,         \* what check_user_message can make of a typed line
    Messages,      \* what the server may send, as process_inbound_msg reads it
    MaxLines,      \* bound on the lines typed
    MaxMessages    \* bound on the messages of the server

\* A line that is not ready to send is LOCAL; one of blanks only, which is, is
\* treated like a MSG with nothing to send.
LineTypes == {"AUTH", "JOIN", "MSG", "LOCAL"}
Verbs == {"REPLY", "MSG", "ERR", "BYE", "OTHER"}
Verdicts == {"OK", "NOK", "OTHER"}

ASSUME ConstantsAssumption ==
    /\ Lines \subseteq [type : LineTypes, wire : BOOLEAN]
    /\ Messages \subseteq [verb : Verbs, verdict : Verdicts, words : Nat, is : BOOLEAN]
    /\ MaxLines \in Nat /\ MaxMessages \in Nat

VARIABLES
    pc,                \* Poll, Serve and Input of the main loop, Bye, Done or Killed
    client_state,      \* cl_info.client_state
    reply_msg_sent,    \* cl_info.reply_msg_sent
    socket_revents,    \* fds[0].revents has POLLIN
    stdin_revents,     \* fds[1].revents has POLLIN or POLLHUP
    terminal,          \* standard input is a terminal
    typed,             \* lines not read yet
    buffered,          \* lines in the buffer of std::cin
    stdin_closed,      \* CTRL-D
    inbox,             \* complete messages not read yet
    half,              \* the beginning of a further message has arrived
    server_closed,
    link,              \* "up", "reset" with the error not reported yet, or "dead"
    in_handler,        \* the SIGINT handler is running (SIGINT is blocked)
    ret,               \* the argument of exit_program, or the signal that killed it
    sent,              \* messages sent, in order
    line_count,        \* lines typed so far
    message_count,     \* messages of the server so far
    requests,          \* history: how many AUTH and JOIN were sent
    replies            \* history: how many REPLYs were accepted

chat == <<client_state, reply_msg_sent>>
revents == <<socket_revents, stdin_revents>>
lines == <<typed, buffered>>
user == <<terminal, lines, stdin_closed, line_count>>
server == <<inbox, half, server_closed, message_count>>
network == <<link, sent>>
exit == <<in_handler, ret>>
history == <<requests, replies>>
vars == <<pc, chat, revents, user, server, network, exit, history>>

Init ==
    /\ pc = "Poll"
    /\ client_state = "START" /\ reply_msg_sent = FALSE
    /\ socket_revents = FALSE /\ stdin_revents = FALSE
    /\ terminal \in BOOLEAN
    /\ typed = <<>> /\ buffered = <<>> /\ stdin_closed = FALSE /\ line_count = 0
    /\ inbox = <<>> /\ half = FALSE /\ server_closed = FALSE /\ message_count = 0
    /\ link = "up" /\ sent = <<>>
    /\ in_handler = FALSE /\ ret = "running"
    /\ requests = 0 /\ replies = 0

-----------------------------------------------------------------------------
(* Sending, and leaving the program. *)

\* send raises SIGPIPE when the error of a broken connection has been reported.
Send(messages, next) ==
    IF link = "dead"
    THEN pc' = "Killed" /\ ret' = "SIGPIPE" /\ UNCHANGED network
    ELSE /\ pc' = next
         /\ sent' = IF link = "up" THEN sent \o messages ELSE sent
         /\ link' = IF link = "up" THEN link ELSE "dead"

\* exit_program.
Leave(send_bye, code) ==
    /\ pc' = IF send_bye THEN "Bye" ELSE "Done"
    /\ ret' = code

SendErrWithBye ==
    /\ pc = "Bye" /\ Send(<<"ERR", "BYE">>, "Done")
    /\ link # "dead" => UNCHANGED ret
    /\ UNCHANGED <<chat, revents, user, server, in_handler, history>>

SendBye ==
    /\ pc = "Bye" /\ Send(<<"BYE">>, "Done")
    /\ link # "dead" => UNCHANGED ret
    /\ UNCHANGED <<chat, revents, user, server, in_handler, history>>

-----------------------------------------------------------------------------
(* poll. *)

SocketReadable == inbox # <<>> \/ half \/ server_closed
StdinOpen == typed # <<>>
StdinReadable == typed # <<>> \/ stdin_closed

\* poll on one descriptor leaves the revents of the other one as they were.
StdinRevents == IF reply_msg_sent THEN stdin_revents ELSE StdinReadable

Poll ==
    /\ pc = "Poll"
    /\ SocketReadable \/ (~reply_msg_sent /\ StdinReadable)
    /\ socket_revents' = SocketReadable
    /\ stdin_revents' = StdinRevents
    /\ pc' = IF SocketReadable THEN "Serve" ELSE "Input"
    /\ UNCHANGED <<chat, user, server, network, exit, history>>

PollFails ==
    /\ pc = "Poll" /\ Leave(FALSE, "failure")
    /\ UNCHANGED <<chat, revents, user, server, network, in_handler, history>>

-----------------------------------------------------------------------------
(* The socket branch. *)

\* process_inbound_msg: the type of a message from its words.
Type(m) ==
    IF m.verb = "BYE" /\ m.words = 1 THEN "BYE"
    ELSE IF m.words < 4 \/ ~m.is THEN "INVALID_MSG"
    ELSE IF m.verb = "REPLY" /\ m.verdict = "OK" THEN "REPLY_OK"
    ELSE IF m.verb = "REPLY" /\ m.verdict = "NOK" THEN "REPLY_NOK"
    ELSE IF m.verb \in {"ERR", "MSG"} THEN m.verb ELSE "INVALID_MSG"

\* accept_msg returns only with a complete line.
Accept(m) ==
    /\ pc = "Serve"
    /\ inbox # <<>>
    /\ m = Type(Head(inbox))
    /\ inbox' = Tail(inbox)
    /\ UNCHANGED <<half, server_closed, message_count, revents, user, in_handler>>

\* A message with no place in the present state: ERR, then BYE.
Unexpected(m) ==
    CASE client_state = "START" -> TRUE
      [] client_state = "AUTH"  -> m \in {"BYE", "MSG", "INVALID_MSG"}
      [] client_state = "OPEN"  -> m = "INVALID_MSG"

RefuseMessage ==
    \E m \in {"BYE", "MSG", "ERR", "INVALID_MSG", "REPLY_OK", "REPLY_NOK"} :
        /\ Accept(m) /\ Unexpected(m)
        /\ Send(<<"ERR">>, "Bye") /\ (link # "dead" => ret' = "failure")
        /\ UNCHANGED <<chat, history>>

ServerErr ==
    /\ Accept("ERR") /\ client_state # "START"
    /\ Leave(TRUE, "failure")
    /\ UNCHANGED <<chat, network, history>>

ServerBye ==
    /\ Accept("BYE") /\ client_state = "OPEN"
    /\ Leave(FALSE, "success")
    /\ UNCHANGED <<chat, network, history>>

\* A chat message ends the turn of the loop.
ToInput == pc' = "Input"
EndTurn == pc' = "Poll"

ChatMessage ==
    /\ Accept("MSG") /\ client_state = "OPEN"
    /\ EndTurn
    /\ UNCHANGED <<chat, network, ret, history>>

AnyReply ==
    \E m \in {"REPLY_OK", "REPLY_NOK"} :
        /\ Accept(m) /\ client_state # "START"
        /\ reply_msg_sent' = FALSE
        /\ client_state' = IF m = "REPLY_OK" THEN "OPEN" ELSE client_state
        /\ pc' = IF client_state = "AUTH" THEN "Poll" ELSE "Input"
        /\ replies' = replies + 1
        /\ UNCHANGED <<network, ret, requests>>

OnlyOkIsTaken ==
    \E m \in {"REPLY_OK", "REPLY_NOK"} :
        /\ Accept(m) /\ client_state # "START" /\ reply_msg_sent
        /\ reply_msg_sent' = (m = "REPLY_NOK")
        /\ client_state' = IF m = "REPLY_OK" THEN "OPEN" ELSE client_state
        /\ pc' = "Poll" /\ replies' = replies + 1
        /\ UNCHANGED <<network, ret, requests>>

\* An expected REPLY ends the turn in AUTH, and goes on to the input in OPEN.
ExpectedReply ==
    \E m \in {"REPLY_OK", "REPLY_NOK"} :
        /\ Accept(m) /\ client_state # "START" /\ reply_msg_sent
        /\ reply_msg_sent' = FALSE
        /\ client_state' = IF m = "REPLY_OK" THEN "OPEN" ELSE client_state
        /\ pc' = IF client_state = "AUTH" THEN "Poll" ELSE "Input"
        /\ replies' = replies + 1
        /\ UNCHANGED <<network, ret, requests>>

StrayReply ==
    /\ Accept("REPLY_OK") \/ Accept("REPLY_NOK")
    /\ client_state # "START" /\ ~reply_msg_sent
    /\ ToInput
    /\ UNCHANGED <<chat, network, ret, history>>

ConnectionIgnored ==
    /\ pc = "Serve" /\ inbox = <<>> /\ server_closed
    /\ ToInput
    /\ UNCHANGED <<chat, revents, user, server, network, exit, history>>

\* recv returns 0, also in the middle of a line.  The -1 that reports a reset is
\* taken for a byte, and the next recv returns 0.
ConnectionLost ==
    /\ pc = "Serve" /\ inbox = <<>> /\ server_closed
    /\ Leave(FALSE, "failure")
    /\ link' = IF link = "up" THEN link ELSE "dead"
    /\ UNCHANGED <<chat, revents, user, server, sent, in_handler, history>>

-----------------------------------------------------------------------------
(* The standard input branch. *)

SkipInput ==
    /\ pc = "Input" /\ ~stdin_revents
    /\ pc' = "Poll"
    /\ UNCHANGED <<chat, revents, user, server, network, exit, history>>

\* Which of the lines that are ready_to_send really go out in each state.
Accepted(u) ==
    /\ u.type # "LOCAL"
    /\ IF client_state = "OPEN" THEN u.type # "AUTH" ELSE u.type = "AUTH"

NeedsReply(u) == u.type \in {"AUTH", "JOIN"}

\* The next line, in the order typed.
NextLine == Head(buffered \o typed)

ReadLineAgain(u) ==
    /\ pc = "Input" /\ stdin_revents
    /\ buffered \o typed # <<>> /\ u = NextLine
    /\ UNCHANGED <<lines, terminal, stdin_closed, line_count, revents, server, in_handler,
                   replies>>

\* getline returns only with a complete line.  When the buffer is empty, a pipe is
\* read as far as it goes.
ReadLine(u) ==
    /\ pc = "Input" /\ stdin_revents
    /\ buffered \o typed # <<>> /\ u = NextLine
    /\ IF buffered # <<>>
       THEN buffered' = Tail(buffered) /\ UNCHANGED typed
       ELSE IF terminal THEN typed' = Tail(typed) /\ UNCHANGED buffered
            ELSE buffered' = Tail(typed) /\ typed' = <<>>
    /\ UNCHANGED <<terminal, stdin_closed, line_count, revents, server, in_handler, replies>>

\* send of a message that could not be formatted sends no bytes.
SubmitLine ==
    \E u \in Lines :
        /\ ReadLine(u) /\ Accepted(u)
        /\ Send(IF u.wire THEN <<u.type>> ELSE <<>>, "Poll")
        /\ link # "dead" => UNCHANGED ret
        /\ reply_msg_sent' = (NeedsReply(u) \/ reply_msg_sent)
        /\ client_state' = IF client_state = "START" THEN "AUTH" ELSE client_state
        /\ requests' = IF NeedsReply(u) THEN requests + 1 ELSE requests

\* A command for the client itself, a faulty line, or one the state refuses.
KeepLine ==
    \E u \in Lines :
        /\ ReadLine(u) /\ ~Accepted(u)
        /\ pc' = "Poll"
        /\ UNCHANGED <<chat, network, ret, requests>>

EndOfInput ==
    /\ pc = "Input" /\ stdin_revents /\ buffered \o typed = <<>> /\ stdin_closed
    /\ Leave(TRUE, "failure")
    /\ UNCHANGED <<chat, revents, user, server, network, in_handler, history>>

\* CTRL-C, in any of the three blocking calls or before a BYE; the handler does
\* not return.
Interrupt ==
    /\ pc \notin {"Done", "Killed"} /\ ~in_handler
    /\ in_handler' = TRUE
    /\ Leave(client_state # "START", "success")
    /\ UNCHANGED <<chat, revents, user, server, network, history>>

-----------------------------------------------------------------------------
(* The user and the server. *)

TypeLine(u) ==
    /\ ~stdin_closed /\ line_count < MaxLines
    /\ typed' = Append(typed, u) /\ line_count' = line_count + 1
    /\ UNCHANGED <<pc, chat, revents, terminal, buffered, stdin_closed, server, network,
                   exit, history>>

CloseStdin ==
    /\ ~stdin_closed /\ stdin_closed' = TRUE
    /\ UNCHANGED <<pc, chat, revents, terminal, lines, line_count, server, network, exit,
                   history>>

ServerSends(m) ==
    /\ ~server_closed /\ message_count < MaxMessages
    /\ inbox' = Append(inbox, m) /\ half' = FALSE
    /\ message_count' = message_count + 1
    /\ UNCHANGED <<pc, chat, revents, user, server_closed, network, exit, history>>

ServerStalls ==
    /\ ~server_closed /\ message_count < MaxMessages
    /\ ~half /\ half' = TRUE
    /\ UNCHANGED <<pc, chat, revents, user, inbox, server_closed, message_count, network,
                   exit, history>>

ServerCloses ==
    /\ ~server_closed /\ server_closed' = TRUE
    /\ UNCHANGED <<pc, chat, revents, user, inbox, half, message_count, network, exit,
                   history>>

\* A reset answers what is sent to a server that has closed, or comes in place of
\* the close when the server has left something unread.  What has arrived before
\* it can still be read.
ServerResets ==
    /\ link = "up"
    /\ link' = IF server_closed THEN "dead" ELSE "reset"
    /\ server_closed' = TRUE
    /\ UNCHANGED <<pc, chat, revents, user, inbox, half, message_count, sent, exit, history>>

Serve ==
    \/ RefuseMessage \/ ServerErr \/ ServerBye \/ ChatMessage
    \/ ExpectedReply \/ StrayReply \/ ConnectionLost

Input == SkipInput \/ SubmitLine \/ KeepLine \/ EndOfInput

Environment ==
    \/ \E u \in Lines : TypeLine(u)
    \/ CloseStdin
    \/ \E m \in Messages : ServerSends(m)
    \/ ServerStalls \/ ServerCloses \/ ServerResets

Next == Poll \/ PollFails \/ Serve \/ Input \/ SendBye \/ Interrupt \/ Environment

Spec == Init /\ [][Next]_vars

\* The process runs whenever its blocking call can return; neither the user nor
\* the server has to do anything.
FairSpec == Spec /\ WF_vars(Poll \/ Serve \/ Input \/ SendBye)

-----------------------------------------------------------------------------
TypeOK ==
    /\ pc \in {"Poll", "Serve", "Input", "Bye", "Done", "Killed"}
    /\ client_state \in {"START", "AUTH", "OPEN"} /\ reply_msg_sent \in BOOLEAN
    /\ socket_revents \in BOOLEAN /\ stdin_revents \in BOOLEAN
    /\ terminal \in BOOLEAN /\ stdin_closed \in BOOLEAN /\ line_count \in 0 .. MaxLines
    /\ typed \in Seq(Lines) /\ buffered \in Seq(Lines)
    /\ inbox \in Seq(Messages) /\ half \in BOOLEAN /\ server_closed \in BOOLEAN
    /\ message_count \in 0 .. MaxMessages
    /\ link \in {"up", "reset", "dead"} /\ sent \in Seq({"AUTH", "JOIN", "MSG", "ERR", "BYE"})
    /\ in_handler \in BOOLEAN /\ ret \in {"running", "success", "failure", "SIGPIPE"}
    /\ requests \in 0 .. line_count /\ replies \in 0 .. message_count

\* One request at a time: every AUTH and JOIN has had its own REPLY before the
\* next one is sent, and no REPLY is accepted that nobody asked for.  The code
\* keeps no count; it relies on which branches end the turn of the loop.
OneRequestAtATime == requests = replies + (IF reply_msg_sent THEN 1 ELSE 0)

\* While a REPLY is awaited no line is read, though fds[1].revents may still say
\* POLLIN from before: every branch that leaves it awaited ends the turn.
InputHeldBack == reply_msg_sent => pc # "Input"

\* Leaving the chat: nothing but a BYE goes out once exit_program has been called,
\* and only CTRL-C, or a broken connection, changes the exit code (main.cpp:27).
Exits == INSTANCE Departure WITH
    phase <- IF pc = "Bye" THEN "leaving"
             ELSE IF pc \in {"Done", "Killed"} THEN "gone" ELSE "chatting",
    code <- IF ret = "running" THEN "none" ELSE IF ret = "SIGPIPE" THEN "failure" ELSE ret,
    said <- {i \in DOMAIN sent : sent[i] # "BYE"}

DepartureSpec == Exits!Spec

Over == pc \in {"Done", "Killed"}

\* accept_msg waits for the rest of a line, or getline for a line.
StuckInRecv == pc = "Serve" /\ inbox = <<>> /\ ~server_closed
StuckInGetline == pc = "Input" /\ buffered \o typed = <<>> /\ ~stdin_closed

\* A REPLY of either kind that has arrived ends the wait for it, whatever has
\* arrived before it, or the client leaves.
ReplyIsTaken ==
    (reply_msg_sent /\ \E i \in DOMAIN inbox : Type(inbox[i]) \in {"REPLY_OK", "REPLY_NOK"})
        ~> (~reply_msg_sent \/ Over)

\* A server that has gone ends the client, whatever it left behind, unless a
\* stale revents has led into a getline that waits for the user.
CloseEnds == server_closed ~> (Over \/ StuckInGetline)

\* Typed lines are read as long as no REPLY is due: those of a terminal at once,
\* those of a pipe, which poll no longer sees, at its end at the latest.
LinesAreRead ==
    ((terminal \/ stdin_closed) /\ buffered \o typed # <<>>)
        ~> (buffered \o typed = <<>> \/ reply_msg_sent \/ StuckInRecv \/ Over)

-----------------------------------------------------------------------------
(* What the documentation says and the code does not keep to. *)

\* README.md:83: with poll, waiting for one source does not hold up the other.
\* After the REPLY to a JOIN the stale revents lead into a getline that blocks.
ServerIsHeard == inbox # <<>> ~> (inbox = <<>> \/ Over)

\* README.md:120: the program ends by exit_program, which frees its memory.  A
\* send to a server that has reset the connection kills the process instead.
EndsByExitProgram == pc # "Killed"
=============================================================================
