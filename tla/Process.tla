------------------------------ MODULE Process ------------------------------
(***************************************************************************)
(* The life of the process: main, graceful_exit and exit_program           *)
(* (main.cpp), the construction and destruction of the client and of its   *)
(* socket (clients.cpp, socket.cpp), name lookup and connect.              *)
(*                                                                         *)
(* pc is the statement the process is at.  SIGINT is registered first, so  *)
(* it may be taken at any of them; the handler never returns, and SIGINT   *)
(* is blocked while it runs.  Of the chat itself only the state and the    *)
(* ways out are kept here: UdpClient and TcpClient are its details, and    *)
(* Departure is what both promise of the ways out.                         *)
(*                                                                         *)
(* plain_milliseconds, FailInPollQuietly, DeleteSocketLater and            *)
(* InterruptWithBye are no part of the model: each is the operator after   *)
(* it with a mistake in it, which a property has to detect.                *)
(***************************************************************************)
EXTENDS ArgParser

VARIABLES
    client_ptr,     \* the global pointer has been set
    life,           \* of the client: "none", "alive", "dying" or "freed"
    socket_fd,      \* "none" (-1), "open" or "closed"
    tv_usec,        \* the receive timeout of the socket; 0 waits for ever
    dns_results,    \* the server's address is known
    connected,      \* connect has succeeded (TCP)
    inbound,        \* a datagram exit_program does not wait for is in the socket
    client_state,   \* cl_info.client_state
    in_handler      \* the SIGINT handler is running

client == <<client_ptr, life>>
network == <<socket_fd, tv_usec, dns_results, connected, inbound>>
vars == <<parserVars, client, network, client_state, in_handler>>

Init ==
    /\ ParserInit
    /\ client_ptr = FALSE /\ life = "none"
    /\ socket_fd = "none" /\ tv_usec = 0 /\ dns_results = FALSE /\ connected = FALSE
    /\ inbound = FALSE
    /\ client_state = "START" /\ in_handler = FALSE

IsUdp == info.sock_type = "udp"

Goto(from, to) ==
    pc = from /\ pc' = to /\ UNCHANGED <<arguments, complaint, status, in_handler>>

\* exit_program: a BYE first if there is one to send, then the end.
ExitProgram(send_bye, code, about) ==
    /\ pc' = IF send_bye THEN "Bye" ELSE "Delete"
    /\ status' = code /\ complaint' = about

Fail(about) ==
    ExitProgram(FALSE, "failure", about) /\ UNCHANGED <<arguments, in_handler>>

-----------------------------------------------------------------------------
(* The start. *)

Parse == ParseArgs /\ UNCHANGED <<client, network, client_state, in_handler>>

NewClient == Goto("New", "Publish") /\ life' = "alive" /\ UNCHANGED <<client_ptr, network, client_state>>

SetClientPtr ==
    Goto("Publish", "Socket") /\ client_ptr' = TRUE /\ UNCHANGED <<life, network, client_state>>

CreateSocket ==
    /\ Goto("Socket", IF IsUdp THEN "Timeout" ELSE "Lookup")
    /\ socket_fd' = "open"
    /\ UNCHANGED <<client, tv_usec, dns_results, connected, inbound, client_state>>

SocketFails ==
    /\ pc = "Socket" /\ Fail("socket")
    /\ UNCHANGED <<client, network, client_state>>

plain_milliseconds == info.udp_timeout

microseconds == info.udp_timeout * 1000

\* setsockopt refuses a tv_usec of a second or more.
MaxUsec == 999999
IsTimeval == microseconds <= MaxUsec

SetTimeout ==
    /\ IsTimeval /\ Goto("Timeout", "Lookup")
    /\ tv_usec' = microseconds
    /\ UNCHANGED <<client, socket_fd, dns_results, connected, inbound, client_state>>

TimeoutFails ==
    /\ pc = "Timeout" /\ ~IsTimeval /\ Fail("timeout")
    /\ UNCHANGED <<client, network, client_state>>

\* Without a host, or with a port that is not a number, there is no address.
Lookup ==
    /\ info.host /\ info.port.says = "number"
    /\ Goto("Lookup", IF IsUdp THEN "Chat" ELSE "Connect")
    /\ dns_results' = TRUE
    /\ UNCHANGED <<client, socket_fd, tv_usec, connected, inbound, client_state>>

LookupFails ==
    /\ pc = "Lookup" /\ Fail("lookup")
    /\ UNCHANGED <<client, network, client_state>>

Connect ==
    /\ Goto("Connect", "Chat")
    /\ connected' = TRUE
    /\ UNCHANGED <<client, socket_fd, tv_usec, dns_results, inbound, client_state>>

ConnectFails ==
    /\ pc = "Connect" /\ Fail("connect")
    /\ UNCHANGED <<client, network, client_state>>

Start ==
    \/ NewClient \/ SetClientPtr \/ CreateSocket \/ SocketFails \/ SetTimeout
    \/ TimeoutFails \/ Lookup \/ LookupFails \/ Connect \/ ConnectFails

-----------------------------------------------------------------------------
(* The chat. *)

\* The first AUTH goes out; the server accepts it.
ChatMoves ==
    /\ Goto("Chat", "Chat")
    /\ client_state' = IF client_state = "START" THEN "AUTH" ELSE "OPEN"
    /\ UNCHANGED <<client, network>>

ChatEnds(send_bye, code) ==
    /\ pc = "Chat"
    /\ ExitProgram(send_bye, code, "chat")
    /\ UNCHANGED <<arguments, client, network, client_state, in_handler>>

\* CTRL-D, an ERR, a message out of place, or no CONFIRM.
LeaveWithBye == ChatEnds(TRUE, "failure")

FailInPollQuietly == ChatEnds(FALSE, "success")

\* An error of poll or of the socket.
FailInPoll == ChatEnds(FALSE, "failure")

\* The server's BYE is a success for the TCP client and a failure for the UDP one.
ServerBye == client_state = "OPEN" /\ ChatEnds(FALSE, IF IsUdp THEN "failure" ELSE "success")

Chat == ChatMoves \/ LeaveWithBye \/ FailInPoll \/ ServerBye

-----------------------------------------------------------------------------
(* The end. *)

\* Over TCP the BYE is sent, and that is all.
SendBye == ~IsUdp /\ Goto("Bye", "Delete") /\ UNCHANGED <<client, network, client_state>>

\* Over UDP its CONFIRM is awaited.  An error of recvfrom ends the wait as well.
ByeConfirmed == IsUdp /\ Goto("Bye", "Delete") /\ UNCHANGED <<client, network, client_state>>

\* The server sends something else: a copy, a chat message, another CONFIRM.
OtherArrives ==
    /\ IsUdp /\ pc = "Bye" /\ ~inbound /\ inbound' = TRUE
    /\ UNCHANGED <<parserVars, client, socket_fd, tv_usec, dns_results, connected, client_state,
                   in_handler>>

\* It is read and thrown away, and recvfrom starts anew with all of its tv_usec: no
\* retry is counted.
IgnoreOther ==
    /\ IsUdp /\ inbound /\ Goto("Bye", "Bye") /\ inbound' = FALSE
    /\ UNCHANGED <<client, socket_fd, tv_usec, dns_results, connected, client_state>>

\* recvfrom has found nothing for tv_usec, and the retries are used up.
ByeTimesOut ==
    /\ IsUdp /\ tv_usec > 0 /\ ~inbound
    /\ Goto("Bye", "Delete") /\ UNCHANGED <<client, network, client_state>>

DeleteSocketLater ==
    /\ Goto("Delete", "Free")
    /\ life' = "dying"
    /\ UNCHANGED <<client_ptr, network, client_state>>

\* delete client_ptr: ~ClientSocket closes the descriptor if there is one, and what
\* has not been read goes with it.
DeleteSocket ==
    /\ Goto("Delete", "Free")
    /\ life' = "dying"
    /\ socket_fd' = IF socket_fd = "open" THEN "closed" ELSE socket_fd
    /\ inbound' = FALSE
    /\ UNCHANGED <<client_ptr, tv_usec, dns_results, connected, client_state>>

\* If close fails, exit_program is called from within the destructor and deletes
\* the client again, whose descriptor fails to close again, and so on until the
\* stack is full.
CloseFails ==
    /\ pc = "Delete" /\ socket_fd = "open"
    /\ pc' = "Crashed" /\ complaint' = "close" /\ life' = "dying"
    /\ UNCHANGED <<arguments, status, client_ptr, network, client_state, in_handler>>

FreeClient ==
    /\ Goto("Free", "Exit") /\ life' = "freed"
    /\ UNCHANGED <<client_ptr, network, client_state>>

Exit == Goto("Exit", "Ended") /\ UNCHANGED <<client, network, client_state>>

Quit == SendBye \/ IgnoreOther \/ ByeTimesOut \/ DeleteSocket \/ FreeClient \/ Exit

-----------------------------------------------------------------------------
(* CTRL-C. *)

Over == {"Ended", "Crashed", "Aborted"}

Signal == pc \notin Over /\ ~in_handler /\ in_handler' = TRUE

InterruptWithBye ==
    /\ Signal /\ client_ptr /\ life = "alive"
    /\ ExitProgram(TRUE, "success", complaint)
    /\ UNCHANGED <<arguments, client, network, client_state>>

\* The client is there: the handler leaves in place of the main program, a BYE of
\* the main program included.
InterruptClient ==
    /\ Signal /\ client_ptr /\ life = "alive"
    /\ ExitProgram(client_state # "START", "success", complaint)
    /\ UNCHANGED <<arguments, client, network, client_state>>

\* client_ptr is null: there is no client_state to read.
InterruptStart ==
    /\ Signal /\ ~client_ptr
    /\ pc' = "Crashed"
    /\ UNCHANGED <<arguments, complaint, status, client, network, client_state>>

\* The client is being deleted or has been: anything may come of it.
InterruptEnd ==
    /\ Signal /\ client_ptr /\ life \in {"dying", "freed"}
    /\ pc' \in {"Crashed", "Ended"} /\ status' \in {status, "success"}
    /\ UNCHANGED <<arguments, complaint, client, network, client_state>>

Interrupt == InterruptClient \/ InterruptStart \/ InterruptEnd

Next ==
    \/ Parse \/ Start \/ Chat \/ Quit \/ Interrupt
    \/ ByeConfirmed \/ OtherArrives \/ CloseFails

Spec == Init /\ [][Next]_vars

\* The one thread runs; a system call of the start returns, and so does recvfrom
\* when there is something to read or, with a timeout set, when there is nothing.
\* How long the chat goes on is up to the user and the server, and so is what
\* arrives in the wait of exit_program.
FairSpec == Spec /\ WF_vars(Parse \/ Start \/ Quit)

-----------------------------------------------------------------------------
TypeOK ==
    /\ pc \in {"Parse", "New", "Publish", "Socket", "Timeout", "Lookup", "Connect",
               "Chat", "Bye", "Delete", "Free", "Exit"} \cup Over
    /\ argv \in Seq(Options) /\ optind \in 1 .. Len(argv) + 1
    /\ info \in [sock_type : {"none", "tcp", "udp"}, host : BOOLEAN, port : Ports,
                 udp_timeout : Words, max_udp_retransmission : Words]
    /\ server_port \in Words
    /\ complaint \in {"none", "protocol", "no protocol", "port", "socket", "timeout",
                      "lookup", "connect", "chat", "close"}
    /\ status \in {"none", "success", "failure"}
    /\ client_ptr \in BOOLEAN /\ life \in {"none", "alive", "dying", "freed"}
    /\ socket_fd \in {"none", "open", "closed"} /\ tv_usec \in 0 .. MaxUsec
    /\ dns_results \in BOOLEAN /\ connected \in BOOLEAN /\ inbound \in BOOLEAN
    /\ client_state \in {"START", "AUTH", "OPEN"} /\ in_handler \in BOOLEAN

\* A command line by README.md:50 is taken as a whole for what it says; only one
\* with a fault in it, or -h, ends the process before there is a client; and a
\* missing or unknown protocol, a port out of range (README.md:96) or a text for a
\* number never gets past the parser.  Left out are zeros, which the code takes for
\* "not given" (Defaults), and numbers out of range (WrongNumbersEnd below).
ArgumentsAsMeant ==
    /\ pc = "New" /\ Acceptable /\ NoZero => info = Meant
    /\ pc = "New" => Given({"t"}) # {} /\ \A i \in DOMAIN argv : IsReadable(argv[i])
    /\ pc \in {"Exit", "Aborted"} /\ life = "none" => ~Acceptable

\* A BYE needs a socket, an address and, over TCP, a connection.  The handler
\* knows nothing of them but client_state.
ByeHasAddress ==
    pc = "Bye" => /\ socket_fd = "open" /\ dns_results
                  /\ IF IsUdp THEN tv_usec > 0 ELSE connected

\* UdpClient takes for granted that recvfrom returns after a while, a millisecond at
\* least, and that a message may be sent again: no command line makes it otherwise.
WaitsAreBounded ==
    pc = "Chat" /\ IsUdp =>
        tv_usec >= 1000 /\ info.max_udp_retransmission >= 1

\* A process that ends has closed its socket and let go of its client, whichever
\* of main and the handler did it.
EndsClosed == pc = "Ended" => socket_fd # "open" /\ life # "alive"

\* The exit code tells a failure: without CTRL-C only -h, and a BYE of the server
\* of a TCP client that is authorized, end in success.
FailureIsTold ==
    pc = "Ended" /\ status # "failure" /\ ~in_handler =>
        /\ status = "success"
        /\ \/ complaint = "none" /\ life = "none"
           \/ complaint = "chat" /\ ~IsUdp /\ client_state = "OPEN"

\* A process that has decided to end does end by itself, unless the server sends it
\* something for ever: every datagram starts the wait for the CONFIRM of the BYE
\* anew.  The two exceptions crash: the socket does not close, and CTRL-C strikes
\* while the client is being deleted.
Leaving == pc \in {"Bye", "Delete", "Free", "Exit"}


-----------------------------------------------------------------------------
(* What the documentation says and the code does not keep to. *)

\* README.md:96: a wrong argument, as for example a port number that is too high,
\* ends the program with an error.  By README.md:55 -d is a uint16 and -r a uint8; the
\* parser goes on with what 16 bits keep of their numbers.
WrongNumbersEnd ==
    pc = "New" =>
        \A i \in Given({"d", "r"}) : argv[i].number \in 0 .. Limit(argv[i].opt)
=============================================================================
