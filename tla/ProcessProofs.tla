--------------------------- MODULE ProcessProofs ---------------------------
(***************************************************************************)
(* Theorems about Process, for every command line.  They rest on one       *)
(* invariant, which says at each statement of the program who owns the     *)
(* client and its socket, what the start has got to, and why it ends.      *)
(***************************************************************************)
EXTENDS Process, TLAPS

\* The client and its socket.
OwnerInv ==
    /\ pc \in {"Parse", "New"} => ~client_ptr /\ life = "none"
    /\ pc = "Publish" => ~client_ptr /\ life = "alive"
    /\ pc \in {"Socket", "Timeout", "Lookup", "Connect", "Chat", "Bye", "Delete"} =>
           client_ptr /\ life = "alive"
    /\ pc = "Free" => client_ptr /\ life = "dying"
    /\ pc = "Exit" => life = IF client_ptr THEN "freed" ELSE "none"
    /\ pc \in {"Parse", "New", "Publish", "Socket"} => socket_fd = "none"
    /\ pc \in {"Timeout", "Lookup", "Connect"} => socket_fd = "open"
    /\ pc \in {"Free", "Exit", "Ended"} => socket_fd # "open"
    /\ pc = "Ended" => life # "alive"

\* The server can be spoken to.
Reached ==
    /\ socket_fd = "open" /\ dns_results
    /\ IF IsUdp THEN tv_usec >= 1000 ELSE connected

\* What the start has got to.  A client that has left START has a server to say
\* BYE to as long as its socket is there.
ReachInv ==
    /\ pc \in {"New", "Publish", "Socket", "Timeout", "Lookup", "Connect", "Chat"} =>
           info.udp_timeout >= 1 /\ info.max_udp_retransmission >= 1
    /\ pc = "Lookup" /\ IsUdp => tv_usec >= 1000
    /\ pc = "Connect" => ~IsUdp /\ dns_results
    /\ pc \in {"Chat", "Bye"} => Reached
    /\ pc = "Delete" /\ client_state # "START" => Reached
    /\ client_state # "START" => pc \in {"Chat", "Bye", "Delete", "Free", "Exit"} \cup Over

\* Why the process ends, known as soon as it is decided.
ReasonInv ==
    pc \in {"Bye", "Delete", "Free", "Exit", "Ended"} /\ status # "failure" /\ ~in_handler =>
        /\ status = "success"
        /\ \/ complaint = "none" /\ life = "none"
           \/ complaint = "chat" /\ ~IsUdp /\ client_state = "OPEN"

IInv == TypeOK /\ OwnerInv /\ ReachInv /\ ReasonInv

-----------------------------------------------------------------------------
(* Types. *)

Places ==
    {"Parse", "New", "Publish", "Socket", "Timeout", "Lookup", "Connect",
     "Chat", "Bye", "Delete", "Free", "Exit"} \cup Over
Complaints ==
    {"none", "protocol", "no protocol", "port", "socket", "timeout", "lookup", "connect",
     "chat", "close"}
Infos ==
    [sock_type : {"none", "tcp", "udp"}, host : BOOLEAN, port : Ports,
     udp_timeout : Words, max_udp_retransmission : Words]

\* TypeOK by the parts that the steps leave alone together.
ControlOK == pc \in Places /\ complaint \in Complaints /\ status \in {"none", "success", "failure"}
ArgumentsOK ==
    /\ argv \in Seq(Options) /\ optind \in 1 .. Len(argv) + 1
    /\ info \in Infos /\ server_port \in Words
ClientOK == client_ptr \in BOOLEAN /\ life \in {"none", "alive", "dying", "freed"}
NetworkOK ==
    /\ socket_fd \in {"none", "open", "closed"} /\ tv_usec \in 0 .. MaxUsec
    /\ dns_results \in BOOLEAN /\ connected \in BOOLEAN /\ inbound \in BOOLEAN
ChatOK == client_state \in {"START", "AUTH", "OPEN"} /\ in_handler \in BOOLEAN

LEMMA TypeParts ==
    TypeOK <=> ControlOK /\ ArgumentsOK /\ ClientOK /\ NetworkOK /\ ChatOK
BY DEF TypeOK, ControlOK, ArgumentsOK, ClientOK, NetworkOK, ChatOK, Places, Complaints, Infos

LEMMA Bounds == MaxWord = 65535 /\ MaxUsec = 999999
BY SMT DEF MaxWord, MaxUsec

LEMMA Remainder ==
    ASSUME NEW n \in Int, NEW m \in Nat \ {0}
    PROVE  n % m \in Int /\ 0 <= n % m /\ n % m < m
OBVIOUS

\* Narrowing an int gives a value of a uint16_t.
LEMMA NarrowedInRange == \A n \in Int : UInt16(n) \in Words
<1>1. MaxWord \in Nat /\ MaxWord + 1 \in Nat \ {0}
  BY Bounds
<1>2. SUFFICES ASSUME NEW n \in Int PROVE UInt16(n) \in Words
  OBVIOUS
<1>3. UInt16(n) \in Int /\ 0 <= UInt16(n) /\ UInt16(n) < MaxWord + 1
  BY <1>1, Remainder DEF UInt16
<1> QED
  BY <1>1, <1>3 DEF Words

LEMMA PartsUnchanged ==
    /\ ArgumentsOK /\ UNCHANGED arguments => ArgumentsOK'
    /\ ClientOK /\ UNCHANGED client => ClientOK'
    /\ NetworkOK /\ UNCHANGED network => NetworkOK'
<1>1. ArgumentsOK /\ UNCHANGED arguments => ArgumentsOK'
  BY DEF ArgumentsOK, arguments
<1>2. ClientOK /\ UNCHANGED client => ClientOK'
  BY DEF ClientOK, client
<1>3. NetworkOK /\ UNCHANGED network => NetworkOK'
  BY DEF NetworkOK, network
<1> QED
  BY <1>1, <1>2, <1>3

\* The option at hand is one, and reading it keeps optind in bounds.
LEMMA OptionType ==
    ASSUME ArgumentsOK, NEW opts, At(opts)
    PROVE  /\ arg.says \in {"tcp", "udp", "number", "tail", "text"} /\ arg.number \in Int
           /\ optind + 1 \in 1 .. Len(argv) + 1
<1>1. optind \in 1 .. Len(argv) /\ Len(argv) \in Nat
  BY DEF ArgumentsOK, At
<1>2. arg \in Options
  BY <1>1 DEF ArgumentsOK, arg
<1> QED
  BY <1>1, <1>2 DEF Options

LEMMA KeepType ==
    ASSUME ControlOK, ArgumentsOK, NEW opts, At(opts), NEW i \in Infos, NEW p \in Words,
           Keep(i, p)
    PROVE  ControlOK' /\ ArgumentsOK'
<1>1. optind + 1 \in 1 .. Len(argv) + 1
  BY OptionType
<1>2. ArgumentsOK'
  BY <1>1 DEF Keep, ArgumentsOK
<1> QED
  BY <1>2 DEF Keep, ControlOK

\* Whatever is on the command line, what is read from it fits its field.
LEMMA ParseType == ASSUME ControlOK, ArgumentsOK, ParseArgs PROVE ControlOK' /\ ArgumentsOK'
<1>0. info \in Infos /\ server_port \in Words
  BY DEF ArgumentsOK
<1>1. \A n \in Int : UInt16(n) \in Words
  BY NarrowedInRange
<1>2. CASE TakeProtocol
  <2>1. [info EXCEPT !.sock_type = arg.says] \in Infos
    BY <1>0, <1>2 DEF TakeProtocol, Infos
  <2> QED
    BY <1>0, <1>2, <2>1, KeepType DEF TakeProtocol
<1>3. CASE TakeHost
  <2>1. [info EXCEPT !.host = TRUE] \in Infos
    BY <1>0 DEF Infos
  <2> QED
    BY <1>0, <1>3, <2>1, KeepType DEF TakeHost
<1>4. CASE TakePort
  <2>1. arg.says \in {"number", "tail"} /\ arg.number \in Words
    BY <1>4 DEF TakePort, IsNumber
  <2>2. [says |-> arg.says, number |-> arg.number] \in Ports
    BY <2>1 DEF Ports
  <2>3. [info EXCEPT !.port = [says |-> arg.says, number |-> arg.number]] \in Infos
    BY <1>0, <2>2 DEF Infos
  <2> QED
    BY <1>4, <2>1, <2>3, KeepType DEF TakePort
<1>5. CASE TakeTimeout
  <2>1. Narrowed \in Words
    BY <1>1, <1>5, OptionType DEF TakeTimeout, Narrowed
  <2>2. [info EXCEPT !.udp_timeout = Narrowed] \in Infos
    BY <1>0, <2>1 DEF Infos
  <2> QED
    BY <1>0, <1>5, <2>2, KeepType DEF TakeTimeout
<1>6. CASE TakeRetransmissions
  <2>1. Narrowed \in Words
    BY <1>1, <1>6, OptionType DEF TakeRetransmissions, Narrowed
  <2>2. [info EXCEPT !.max_udp_retransmission = Narrowed] \in Infos
    BY <1>0, <2>1 DEF Infos
  <2> QED
    BY <1>0, <1>6, <2>2, KeepType DEF TakeRetransmissions
<1>7. CASE SkipOption
  BY <1>0, <1>7, KeepType DEF SkipOption
<1>8. CASE RefuseProtocol \/ RefusePort \/ Throw \/ ShowHelp \/ NoProtocol
  <2>1. UNCHANGED arguments /\ ControlOK'
    BY <1>8 DEF RefuseProtocol, RefusePort, Throw, ShowHelp, NoProtocol, Refuse, ControlOK,
                Places, Complaints, Over
  <2> QED
    BY <2>1, PartsUnchanged
<1>9. CASE ReturnInfo
  <2>1. DefaultPort \in Ports
    BY Bounds, SMT DEF DefaultPort, Ports, Words
  <2>2. 250 \in Words /\ 3 \in Words
    BY Bounds, SMT DEF Words
  <2> DEFINE timeout == IF info.udp_timeout = 0 THEN 250 ELSE info.udp_timeout
             retransmissions == IF info.max_udp_retransmission = 0 THEN 3
                                ELSE info.max_udp_retransmission
             port == IF server_port = 0 THEN DefaultPort ELSE info.port
  <2>3. timeout \in Words /\ retransmissions \in Words /\ port \in Ports
    BY <1>0, <2>1, <2>2 DEF Infos
  <2>4. Defaults = [info EXCEPT !.udp_timeout = timeout,
                                !.max_udp_retransmission = retransmissions, !.port = port]
    BY DEF Defaults
  <2> HIDE DEF timeout, retransmissions, port
  <2>5. Defaults \in Infos
    BY <1>0, <2>3, <2>4 DEF Infos
  <2> QED
    BY <1>9, <2>5 DEF ReturnInfo, ArgumentsOK, ControlOK, Places
<1> QED
  BY <1>2, <1>3, <1>4, <1>5, <1>6, <1>7, <1>8, <1>9 DEF ParseArgs

\* It is inductive: the command line, the start, the chat, the end, CTRL-C.
LEMMA TypeInductive == TypeOK /\ [Next]_vars => TypeOK'
<1> SUFFICES ASSUME TypeOK, [Next]_vars
             PROVE  (ControlOK /\ ArgumentsOK /\ ClientOK /\ NetworkOK /\ ChatOK)'
  BY TypeParts, PTL
<1>0. ControlOK /\ ArgumentsOK /\ ClientOK /\ NetworkOK /\ ChatOK
  BY TypeParts
<1>1. CASE Parse
  <2>1. ChatOK'
    BY <1>0, <1>1 DEF Parse, ChatOK
  <2> QED
    BY <1>0, <1>1, <2>1, ParseType, PartsUnchanged DEF Parse
<1>2. CASE Start
  <2>1. UNCHANGED arguments
    BY <1>2 DEF Start, NewClient, SetClientPtr, CreateSocket, SocketFails, SetTimeout,
                TimeoutFails, Lookup, LookupFails, Connect, ConnectFails, Goto, Fail
  <2>2. ControlOK' /\ ChatOK'
    BY <1>0, <1>2 DEF Start, NewClient, SetClientPtr, CreateSocket, SocketFails, SetTimeout,
                TimeoutFails, Lookup, LookupFails, Connect, ConnectFails, Goto, Fail,
                ExitProgram, ControlOK, ChatOK, Places, Complaints
  <2>3. ClientOK'
    BY <1>0, <1>2 DEF Start, NewClient, SetClientPtr, CreateSocket, SocketFails, SetTimeout,
                TimeoutFails, Lookup, LookupFails, Connect, ConnectFails, ClientOK, client
  <2>4. NetworkOK'
    <3>1. CASE SetTimeout
      <4>1. info.udp_timeout \in Words
        BY <1>0 DEF ArgumentsOK, Infos
      <4>2. info.udp_timeout \in Nat
        BY <4>1, SMT DEF Words
      <4>3. microseconds \in Nat
        BY <4>2, SMT DEF microseconds
      <4>4. microseconds <= MaxUsec
        BY <3>1 DEF SetTimeout, IsTimeval
      <4>5. MaxUsec \in Nat
        BY Bounds, SMT
      <4>6. microseconds \in 0 .. MaxUsec
        BY <4>3, <4>4, <4>5, SMT
      <4> QED
        BY <1>0, <3>1, <4>6 DEF SetTimeout, NetworkOK
    <3>2. CASE ~SetTimeout
      BY <1>0, <1>2, <3>2 DEF Start, NewClient, SetClientPtr, CreateSocket, SocketFails,
                TimeoutFails, Lookup, LookupFails, Connect, ConnectFails, NetworkOK, network
    <3> QED
      BY <3>1, <3>2
  <2> QED
    BY <1>0, <2>1, <2>2, <2>3, <2>4, PartsUnchanged
<1>3. CASE Chat
  <2>1. UNCHANGED <<arguments, client, network>>
    BY <1>3 DEF Chat, ChatMoves, LeaveWithBye, FailInPoll, ServerBye, ChatEnds, Goto
  <2>2. ControlOK' /\ ChatOK'
    BY <1>0, <1>3 DEF Chat, ChatMoves, LeaveWithBye, FailInPoll, ServerBye, ChatEnds, Goto,
                      ExitProgram, ControlOK, ChatOK, Places, Complaints
  <2> QED
    BY <1>0, <2>1, <2>2, PartsUnchanged
<1>4. CASE Quit \/ ByeConfirmed \/ OtherArrives \/ CloseFails
  <2>1. UNCHANGED arguments
    BY <1>4 DEF Quit, SendBye, IgnoreOther, ByeTimesOut, DeleteSocket, FreeClient, Exit,
                ByeConfirmed, OtherArrives, parserVars,
                CloseFails, Goto
  <2>2. ControlOK' /\ ChatOK'
    BY <1>0, <1>4 DEF Quit, SendBye, IgnoreOther, ByeTimesOut, DeleteSocket, FreeClient, Exit,
                      ByeConfirmed, OtherArrives, parserVars,
                      CloseFails, Goto, ControlOK, ChatOK, Places, Complaints, Over
  <2>3. ClientOK' /\ NetworkOK'
    BY <1>0, <1>4 DEF Quit, SendBye, IgnoreOther, ByeTimesOut, DeleteSocket, FreeClient, Exit,
                      ByeConfirmed, OtherArrives, parserVars,
                      CloseFails, ClientOK, NetworkOK, client, network
  <2> QED
    BY <1>0, <2>1, <2>2, <2>3, PartsUnchanged
<1>5. CASE Interrupt
  <2>1. UNCHANGED <<arguments, client, network>>
    BY <1>5 DEF Interrupt, InterruptClient, InterruptStart, InterruptEnd
  <2>2. ControlOK' /\ ChatOK'
    BY <1>0, <1>5 DEF Interrupt, InterruptClient, InterruptStart, InterruptEnd, Signal,
                      ExitProgram, ControlOK, ChatOK, Places, Over
  <2> QED
    BY <1>0, <2>1, <2>2, PartsUnchanged
<1>6. CASE UNCHANGED vars
  <2>1. ControlOK' /\ ChatOK'
    BY <1>0, <1>6 DEF vars, parserVars, ControlOK, ChatOK
  <2> QED
    BY <1>0, <1>6, <2>1, PartsUnchanged DEF vars, parserVars
<1> QED
  BY <1>1, <1>2, <1>3, <1>4, <1>5, <1>6 DEF Next

-----------------------------------------------------------------------------
(* The invariant. *)

LEMMA InitInv == Init => IInv
<1> SUFFICES ASSUME Init PROVE IInv
  OBVIOUS
<1>1. ControlOK
  BY DEF Init, ParserInit, ControlOK, Places, Complaints
<1>2. ArgumentsOK
  <2>1. argv \in Seq(Options)
    BY CommandLinesAssumption DEF Init, ParserInit
  <2>2. 0 \in Words /\ 1 \in 1 .. Len(argv) + 1
    BY <2>1, Bounds, SMT DEF Words
  <2>3. NoInfo \in Infos
    BY <2>2 DEF NoInfo, NoPort, Infos, Ports
  <2> QED
    BY <2>1, <2>2, <2>3 DEF Init, ParserInit, ArgumentsOK
<1>3. ClientOK /\ ChatOK
  BY DEF Init, ClientOK, ChatOK
<1>4. NetworkOK
  <2>1. MaxUsec \in Nat
    BY Bounds, SMT
  <2>2. 0 \in 0 .. MaxUsec
    BY <2>1
  <2> QED
    BY <2>2 DEF Init, NetworkOK
<1>5. OwnerInv /\ ReachInv /\ ReasonInv
  BY DEF Init, ParserInit, OwnerInv, ReachInv, ReasonInv
<1> QED
  BY <1>1, <1>2, <1>3, <1>4, <1>5, TypeParts DEF IInv

\* The parser goes on, returns to main, or ends the process before there is a client.
LEMMA ParseEnds ==
    ASSUME TypeOK, ParseArgs
    PROVE  /\ pc = "Parse"
           /\ \/ pc' = "Parse" /\ UNCHANGED <<complaint, status>>
              \/ pc' \in {"Exit", "Aborted"} /\ status' \in {"failure", "success", "none"}
              \/ pc' = "New" /\ UNCHANGED <<complaint, status>>
                 /\ info'.udp_timeout >= 1 /\ info'.max_udp_retransmission >= 1
           /\ pc' = "Exit" /\ status' # "failure" => status' = "success" /\ complaint' = "none"
<1>1. CASE TakeProtocol \/ TakeHost \/ TakePort \/ TakeTimeout \/ TakeRetransmissions \/ SkipOption
  BY <1>1 DEF TakeProtocol, TakeHost, TakePort, TakeTimeout, TakeRetransmissions, SkipOption,
              At, Keep
<1>2. CASE RefuseProtocol \/ RefusePort \/ Throw \/ ShowHelp \/ NoProtocol
  BY <1>2 DEF RefuseProtocol, RefusePort, Throw, ShowHelp, NoProtocol, At, AllRead, Refuse
<1>3. CASE ReturnInfo
  <2>1. info \in Infos
    BY TypeParts DEF ArgumentsOK
  <2>2. info.udp_timeout \in Nat /\ info.max_udp_retransmission \in Nat
    BY <2>1 DEF Infos, Words
  <2>3. info' = Defaults
    BY <1>3 DEF ReturnInfo
  <2>4. info'.udp_timeout = (IF info.udp_timeout = 0 THEN 250 ELSE info.udp_timeout)
        /\ info'.max_udp_retransmission = (IF info.max_udp_retransmission = 0 THEN 3
                                           ELSE info.max_udp_retransmission)
    BY <2>1, <2>3 DEF Defaults, Infos
  <2> QED
    BY <1>3, <2>2, <2>4 DEF ReturnInfo, AllRead
<1> QED
  BY <1>1, <1>2, <1>3 DEF ParseArgs

\* Who owns the client and its socket, one step per group of statements.
LEMMA OwnerInductive == TypeOK /\ OwnerInv /\ [Next]_vars => OwnerInv'
<1> SUFFICES ASSUME TypeOK, OwnerInv, [Next]_vars PROVE OwnerInv'
  OBVIOUS
<1> USE DEF OwnerInv
<1>1. CASE Parse
  BY <1>1, ParseEnds DEF Parse, client, network
<1>2. CASE NewClient \/ SetClientPtr \/ CreateSocket \/ SocketFails
  BY <1>2 DEF NewClient, SetClientPtr, CreateSocket, SocketFails, Goto, Fail, ExitProgram,
              client, network
<1>3. CASE SetTimeout \/ TimeoutFails \/ Lookup \/ LookupFails \/ Connect \/ ConnectFails
  BY <1>3 DEF SetTimeout, TimeoutFails, Lookup, LookupFails, Connect, ConnectFails, Goto, Fail,
              ExitProgram, client, network
<1>4. CASE Chat
  BY <1>4 DEF Chat, ChatMoves, LeaveWithBye, FailInPoll, ServerBye, ChatEnds, Goto,
              ExitProgram, client, network
<1>5. CASE Quit \/ ByeConfirmed \/ OtherArrives
  BY <1>5 DEF Quit, SendBye, IgnoreOther, ByeTimesOut, DeleteSocket, FreeClient, Exit,
              ByeConfirmed, OtherArrives, parserVars, Goto,
              client, network
<1>6. CASE CloseFails
  BY <1>6 DEF CloseFails
<1>7. CASE Interrupt
  <2>1. CASE InterruptClient
    <3>1. pc' \in {"Bye", "Delete"} /\ client_ptr' /\ life' = "alive"
      BY <2>1 DEF InterruptClient, ExitProgram, client
    <3> QED
      BY <3>1
  <2>2. CASE InterruptStart
    BY <2>2 DEF InterruptStart
  <2>3. CASE InterruptEnd
    <3>1. pc \in {"Free", "Exit"}
      BY <2>3 DEF InterruptEnd, Signal, Over, TypeOK
    <3> QED
      BY <2>3, <3>1 DEF InterruptEnd, client, network
  <2> QED
    BY <1>7, <2>1, <2>2, <2>3 DEF Interrupt
<1>8. CASE UNCHANGED vars
  BY <1>8 DEF vars, parserVars, client, network
<1> QED
  BY <1>1, <1>2, <1>3, <1>4, <1>5, <1>6, <1>7, <1>8 DEF Next, Start

\* What the start has got to.
LEMMA ReachInductive == TypeOK /\ OwnerInv /\ ReachInv /\ [Next]_vars => ReachInv'
<1> SUFFICES ASSUME TypeOK, OwnerInv, ReachInv, [Next]_vars PROVE ReachInv'
  OBVIOUS
<1> USE DEF ReachInv, Reached, IsUdp
<1>1. CASE Parse
  <2>1. pc = "Parse" /\ client_state' = client_state
    BY <1>1, ParseEnds DEF Parse
  <2>2. client_state = "START"
    BY <2>1 DEF Over
  <2> QED
    BY <1>1, <2>1, <2>2, ParseEnds DEF Parse
<1>2. CASE NewClient \/ SetClientPtr \/ CreateSocket \/ SocketFails
  BY <1>2 DEF NewClient, SetClientPtr, CreateSocket, SocketFails, Goto, Fail, ExitProgram,
              arguments, network, Over
<1>3. CASE SetTimeout
  <2>1. /\ pc = "Timeout" /\ pc' = "Lookup" /\ tv_usec' = microseconds
        /\ UNCHANGED <<info, client_state>>
    BY <1>3 DEF SetTimeout, Goto, arguments
  <2>2. client_state = "START" /\ info.udp_timeout >= 1
    BY <2>1 DEF Over
  <2>3. info.udp_timeout \in Nat
    <3>1. info \in Infos
      BY TypeParts DEF ArgumentsOK
    <3> QED
      BY <3>1 DEF Infos, Words
  <2>4. microseconds >= 1000
    BY <2>2, <2>3 DEF microseconds
  <2> QED
    BY <2>1, <2>2, <2>4
<1>4. CASE Lookup \/ Connect
  BY <1>4 DEF Lookup, Connect, Goto, arguments, OwnerInv, Over
<1>5. CASE TimeoutFails \/ LookupFails \/ ConnectFails
  BY <1>5 DEF TimeoutFails, LookupFails, ConnectFails, Fail, ExitProgram, Over
<1>6. CASE Chat
  BY <1>6 DEF Chat, ChatMoves, LeaveWithBye, FailInPoll, ServerBye, ChatEnds, Goto,
              ExitProgram, arguments, network
<1>7. CASE Quit \/ ByeConfirmed \/ OtherArrives
  BY <1>7 DEF Quit, SendBye, IgnoreOther, ByeTimesOut, DeleteSocket, FreeClient, Exit,
              ByeConfirmed, OtherArrives, parserVars, Goto,
              arguments, network, Over
<1>8. CASE CloseFails
  BY <1>8 DEF CloseFails, Over
<1>9. CASE Interrupt
  <2>1. CASE InterruptClient
    <3>1. /\ client_ptr /\ life = "alive" /\ pc \notin Over
          /\ pc' = (IF client_state # "START" THEN "Bye" ELSE "Delete")
          /\ UNCHANGED <<info, socket_fd, tv_usec, dns_results, connected, client_state>>
      BY <2>1 DEF InterruptClient, Signal, ExitProgram, arguments, network
    <3>2. client_state # "START" => pc \in {"Chat", "Bye", "Delete"}
      BY <3>1 DEF OwnerInv
    <3> QED
      BY <3>1, <3>2
  <2>2. CASE InterruptStart \/ InterruptEnd
    BY <2>2 DEF InterruptStart, InterruptEnd, Over
  <2> QED
    BY <1>9, <2>1, <2>2 DEF Interrupt
<1>10. CASE UNCHANGED vars
  BY <1>10 DEF vars, parserVars, arguments, network
<1> QED
  BY <1>1, <1>2, <1>3, <1>4, <1>5, <1>6, <1>7, <1>8, <1>9, <1>10 DEF Next, Start

\* Why the process ends.
LEMMA ReasonInductive == TypeOK /\ OwnerInv /\ ReasonInv /\ [Next]_vars => ReasonInv'
<1> SUFFICES ASSUME TypeOK, OwnerInv, ReasonInv, [Next]_vars PROVE ReasonInv'
  OBVIOUS
<1> USE DEF ReasonInv, IsUdp
<1>1. CASE Parse
  BY <1>1, ParseEnds DEF Parse, client, OwnerInv
<1>2. CASE Start
  BY <1>2 DEF Start, NewClient, SetClientPtr, CreateSocket, SocketFails, SetTimeout,
              TimeoutFails, Lookup, LookupFails, Connect, ConnectFails, Goto, Fail, ExitProgram
<1>3. CASE Chat
  BY <1>3 DEF Chat, ChatMoves, LeaveWithBye, FailInPoll, ServerBye, ChatEnds, Goto,
              ExitProgram, arguments, client
<1>4. CASE Quit \/ ByeConfirmed \/ OtherArrives
  BY <1>4 DEF Quit, SendBye, IgnoreOther, ByeTimesOut, DeleteSocket, FreeClient, Exit,
              ByeConfirmed, OtherArrives, parserVars, Goto,
              arguments, client, OwnerInv
<1>5. CASE CloseFails
  BY <1>5 DEF CloseFails
<1>6. CASE Interrupt
  <2>1. in_handler' \/ pc' = "Crashed"
    BY <1>6 DEF Interrupt, InterruptClient, InterruptStart, InterruptEnd, Signal
  <2> QED
    BY <2>1
<1>7. CASE UNCHANGED vars
  BY <1>7 DEF vars, parserVars, arguments, client
<1> QED
  BY <1>1, <1>2, <1>3, <1>4, <1>5, <1>6, <1>7 DEF Next

LEMMA InvAlways == Spec => []IInv
<1>1. IInv /\ [Next]_vars => IInv'
  BY TypeInductive, OwnerInductive, ReachInductive, ReasonInductive DEF IInv
<1> QED
  BY <1>1, InitInv, PTL DEF Spec

-----------------------------------------------------------------------------
(* What follows from it. *)

\* No command line puts a number into a field it does not fit.
THEOREM ProcessTypeCorrect == Spec => []TypeOK
<1>1. IInv => TypeOK
  BY DEF IInv
<1> QED
  BY <1>1, InvAlways, PTL

\* Wherever CTRL-C strikes, no BYE is attempted without a socket, an address and,
\* over TCP, a connection.
THEOREM ByeAlwaysHasAddress == Spec => []ByeHasAddress
<1>1. IInv => ByeHasAddress
  <2>1. TypeOK => tv_usec \in Int
    BY TypeParts DEF NetworkOK
  <2> QED
    BY <2>1 DEF IInv, ReachInv, Reached, ByeHasAddress
<1> QED
  BY <1>1, InvAlways, PTL

\* No command line makes a wait of the UDP client endless.
THEOREM WaitsAlwaysBounded == Spec => []WaitsAreBounded
<1>1. IInv => WaitsAreBounded
  BY DEF IInv, ReachInv, Reached, WaitsAreBounded
<1> QED
  BY <1>1, InvAlways, PTL

\* Whoever ends the process, main or the handler, has closed the socket first.
THEOREM EndIsClosed == Spec => []EndsClosed
<1>1. IInv => EndsClosed
  BY DEF IInv, OwnerInv, EndsClosed
<1> QED
  BY <1>1, InvAlways, PTL

\* A failure is never reported as a success.
THEOREM FailureIsAlwaysTold == Spec => []FailureIsTold
<1>1. IInv => FailureIsTold
  BY DEF IInv, ReasonInv, FailureIsTold
<1> QED
  BY <1>1, InvAlways, PTL

-----------------------------------------------------------------------------
(* The arguments. *)

\* The options of a kind that have been read, and the last one of them.
Seen(opt) == {i \in 1 .. optind - 1 : argv[i].opt = opt}
IsLatest(opt, i) == i \in Seen(opt) /\ \A j \in Seen(opt) : j <= i

\* What the fields hold while the options are read: what the latest option of the
\* kind says, or what they held at the start.
ProtocolRead ==
    \/ Seen("t") = {} /\ info.sock_type = "none"
    \/ \E i : IsLatest("t", i) /\ info.sock_type = argv[i].says
HostRead == info.host <=> Seen("s") # {}
PortRead ==
    \/ Seen("p") = {} /\ info.port = NoPort /\ server_port = 0
    \/ \E i : /\ IsLatest("p", i) /\ server_port = argv[i].number
              /\ info.port = [says |-> argv[i].says, number |-> argv[i].number]
TimeoutRead ==
    \/ Seen("d") = {} /\ info.udp_timeout = 0
    \/ \E i : IsLatest("d", i) /\ info.udp_timeout = UInt16(argv[i].number)
RetransmissionsRead ==
    \/ Seen("r") = {} /\ info.max_udp_retransmission = 0
    \/ \E i : IsLatest("r", i) /\ info.max_udp_retransmission = UInt16(argv[i].number)

FieldsRead == ProtocolRead /\ HostRead /\ PortRead /\ TimeoutRead /\ RetransmissionsRead

ReadInv == FieldsRead /\ \A i \in 1 .. optind - 1 : IsReadable(argv[i])

\* Reading on makes the option at hand the latest of its kind, and leaves the
\* other kinds alone.
LEMMA SeenStep ==
    ASSUME ArgumentsOK, NEW opts, At(opts), argv' = argv, optind' = optind + 1
    PROVE  /\ \A i \in 1 .. optind' - 1 : i \in 1 .. optind - 1 \/ i = optind
           /\ \A opt : arg.opt # opt => Seen(opt)' = Seen(opt)
           /\ \A opt, i : arg.opt # opt => (IsLatest(opt, i)' <=> IsLatest(opt, i))
           /\ \A opt, i : arg.opt = opt /\ i = optind => IsLatest(opt, i)'
<1>1. optind \in Nat /\ optind >= 1
  BY DEF ArgumentsOK
<1>2. \A i : i \in 1 .. optind' - 1 <=> i \in 1 .. optind - 1 \/ i = optind
  BY <1>1
<1>3. ASSUME NEW opt, arg.opt # opt PROVE Seen(opt)' = Seen(opt)
  BY <1>2, <1>3 DEF Seen, arg
<1>4. ASSUME NEW opt, NEW i, arg.opt # opt PROVE IsLatest(opt, i)' <=> IsLatest(opt, i)
  BY <1>3, <1>4 DEF IsLatest
<1>5. ASSUME NEW opt, NEW i, arg.opt = opt, i = optind PROVE IsLatest(opt, i)'
  <2>1. i \in Seen(opt)'
    BY <1>2, <1>5 DEF Seen, arg
  <2>2. \A j \in Seen(opt)' : j <= i
    BY <1>1, <1>2, <1>5 DEF Seen
  <2> QED
    BY <2>1, <2>2 DEF IsLatest
<1> QED
  BY <1>2, <1>3, <1>4, <1>5

\* The fields of the kinds of options that are not at hand keep what they hold.
LEMMA OthersKeep ==
    ASSUME ArgumentsOK, FieldsRead, NEW opts, At(opts), argv' = argv, optind' = optind + 1
    PROVE  /\ arg.opt # "t" /\ info'.sock_type = info.sock_type => ProtocolRead'
           /\ arg.opt # "s" /\ info'.host = info.host => HostRead'
           /\ arg.opt # "p" /\ info'.port = info.port /\ server_port' = server_port => PortRead'
           /\ arg.opt # "d" /\ info'.udp_timeout = info.udp_timeout => TimeoutRead'
           /\ arg.opt # "r" /\ info'.max_udp_retransmission = info.max_udp_retransmission
                  => RetransmissionsRead'
<1>1. \A opt : arg.opt # opt => Seen(opt)' = Seen(opt)
  BY SeenStep
<1>2. \A opt, i : arg.opt # opt => (IsLatest(opt, i)' <=> IsLatest(opt, i))
  BY SeenStep
<1>3. ASSUME arg.opt # "t", info'.sock_type = info.sock_type PROVE ProtocolRead'
  BY <1>1, <1>2, <1>3 DEF FieldsRead, ProtocolRead
<1>4. ASSUME arg.opt # "s", info'.host = info.host PROVE HostRead'
  BY <1>1, <1>4 DEF FieldsRead, HostRead
<1>5. ASSUME arg.opt # "p", info'.port = info.port, server_port' = server_port PROVE PortRead'
  BY <1>1, <1>2, <1>5 DEF FieldsRead, PortRead
<1>6. ASSUME arg.opt # "d", info'.udp_timeout = info.udp_timeout PROVE TimeoutRead'
  BY <1>1, <1>2, <1>6 DEF FieldsRead, TimeoutRead
<1>7. ASSUME arg.opt # "r", info'.max_udp_retransmission = info.max_udp_retransmission
      PROVE  RetransmissionsRead'
  BY <1>1, <1>2, <1>7 DEF FieldsRead, RetransmissionsRead
<1> QED
  BY <1>3, <1>4, <1>5, <1>6, <1>7

\* An option that is taken is a good one, and its field is what it says.
LEMMA TakeKeepsRead ==
    ASSUME ArgumentsOK, ReadInv, ParseArgs, pc' = "Parse"
    PROVE  ReadInv'
<1>0. info \in Infos /\ FieldsRead
  BY DEF ArgumentsOK, ReadInv
<1>1. ASSUME NEW opts, At(opts), NEW i, NEW p, Keep(i, p), IsReadable(arg), FieldsRead'
      PROVE  ReadInv'
  <2>1. argv' = argv /\ optind' = optind + 1
    BY <1>1 DEF Keep
  <2>2. \A k \in 1 .. optind' - 1 : k \in 1 .. optind - 1 \/ k = optind
    BY <1>1, <2>1, SeenStep
  <2> QED
    BY <1>1, <2>1, <2>2 DEF ReadInv, arg
<1>2. CASE TakeProtocol
  <2>1. /\ At({"t"}) /\ arg.opt = "t" /\ argv' = argv /\ optind' = optind + 1
        /\ info' = [info EXCEPT !.sock_type = arg.says] /\ server_port' = server_port
        /\ arg.says \in {"tcp", "udp"} /\ Keep(info', server_port')
    BY <1>2 DEF TakeProtocol, At, Keep
  <2>2. \E i : IsLatest("t", i)' /\ i = optind
    BY <2>1, SeenStep
  <2>3. info'.sock_type = argv[optind].says
    BY <1>0, <2>1 DEF Infos, arg
  <2>4. ProtocolRead'
    BY <2>1, <2>2, <2>3 DEF ProtocolRead
  <2>5. FieldsRead'
    BY <1>0, <2>1, <2>4, OthersKeep DEF FieldsRead, Infos
  <2>6. IsReadable(arg)
    BY <2>1 DEF IsReadable
  <2> QED
    BY <1>1, <1>2, <2>1, <2>5, <2>6 DEF TakeProtocol
<1>3. CASE TakeHost
  <2>1. /\ At({"s"}) /\ arg.opt = "s" /\ argv' = argv /\ optind' = optind + 1
        /\ info' = [info EXCEPT !.host = TRUE] /\ server_port' = server_port
    BY <1>3 DEF TakeHost, At, Keep
  <2>2. \E i : IsLatest("s", i)' /\ i = optind
    BY <2>1, SeenStep
  <2>3. HostRead'
    BY <1>0, <2>1, <2>2 DEF HostRead, IsLatest, Infos
  <2>4. FieldsRead'
    BY <1>0, <2>1, <2>3, OthersKeep DEF FieldsRead, Infos
  <2>5. IsReadable(arg)
    BY <2>1 DEF IsReadable
  <2> QED
    BY <1>1, <1>3, <2>1, <2>4, <2>5 DEF TakeHost
<1>4. CASE TakePort
  <2>1. /\ At({"p"}) /\ arg.opt = "p" /\ argv' = argv /\ optind' = optind + 1
        /\ info' = [info EXCEPT !.port = [says |-> arg.says, number |-> arg.number]]
        /\ server_port' = arg.number
        /\ arg.says \in {"number", "tail"} /\ arg.number \in Words
    BY <1>4 DEF TakePort, At, Keep, IsNumber
  <2>2. \E i : IsLatest("p", i)' /\ i = optind
    BY <2>1, SeenStep
  <2>3. info'.port = [says |-> argv[optind].says, number |-> argv[optind].number]
    BY <1>0, <2>1 DEF Infos, arg
  <2>4. PortRead'
    BY <2>1, <2>2, <2>3 DEF PortRead, arg
  <2>5. FieldsRead'
    BY <1>0, <2>1, <2>4, OthersKeep DEF FieldsRead, Infos
  <2>6. IsReadable(arg)
    BY <2>1 DEF IsReadable
  <2> QED
    BY <1>1, <1>4, <2>1, <2>5, <2>6 DEF TakePort
<1>5. CASE TakeTimeout
  <2>1. /\ At({"d"}) /\ arg.opt = "d" /\ argv' = argv /\ optind' = optind + 1
        /\ info' = [info EXCEPT !.udp_timeout = UInt16(arg.number)]
        /\ server_port' = server_port /\ arg.says \in {"number", "tail"}
    BY <1>5 DEF TakeTimeout, At, Keep, IsNumber, Narrowed
  <2>2. \E i : IsLatest("d", i)' /\ i = optind
    BY <2>1, SeenStep
  <2>3. info'.udp_timeout = UInt16(argv[optind].number)
    BY <1>0, <2>1 DEF Infos, arg
  <2>4. TimeoutRead'
    BY <2>1, <2>2, <2>3 DEF TimeoutRead
  <2>5. FieldsRead'
    BY <1>0, <2>1, <2>4, OthersKeep DEF FieldsRead, Infos
  <2>6. IsReadable(arg)
    BY <2>1 DEF IsReadable
  <2> QED
    BY <1>1, <1>5, <2>1, <2>5, <2>6 DEF TakeTimeout
<1>6. CASE TakeRetransmissions
  <2>1. /\ At({"r"}) /\ arg.opt = "r" /\ argv' = argv /\ optind' = optind + 1
        /\ info' = [info EXCEPT !.max_udp_retransmission = UInt16(arg.number)]
        /\ server_port' = server_port /\ arg.says \in {"number", "tail"}
    BY <1>6 DEF TakeRetransmissions, At, Keep, IsNumber, Narrowed
  <2>2. \E i : IsLatest("r", i)' /\ i = optind
    BY <2>1, SeenStep
  <2>3. info'.max_udp_retransmission = UInt16(argv[optind].number)
    BY <1>0, <2>1 DEF Infos, arg
  <2>4. RetransmissionsRead'
    BY <2>1, <2>2, <2>3 DEF RetransmissionsRead
  <2>5. FieldsRead'
    BY <1>0, <2>1, <2>4, OthersKeep DEF FieldsRead, Infos
  <2>6. IsReadable(arg)
    BY <2>1 DEF IsReadable
  <2> QED
    BY <1>1, <1>6, <2>1, <2>5, <2>6 DEF TakeRetransmissions
<1>7. CASE SkipOption
  <2>1. /\ At({"?"}) /\ arg.opt = "?" /\ argv' = argv /\ optind' = optind + 1
        /\ info' = info /\ server_port' = server_port
    BY <1>7 DEF SkipOption, At, Keep
  <2>2. FieldsRead'
    BY <1>0, <2>1, OthersKeep DEF FieldsRead
  <2>3. IsReadable(arg)
    BY <2>1 DEF IsReadable
  <2> QED
    BY <1>1, <1>7, <2>1, <2>2, <2>3 DEF SkipOption
<1>8. ~RefuseProtocol /\ ~RefusePort /\ ~Throw /\ ~ShowHelp /\ ~NoProtocol /\ ~ReturnInfo
  BY DEF RefuseProtocol, RefusePort, Throw, ShowHelp, NoProtocol, ReturnInfo, Refuse
<1> QED
  BY <1>2, <1>3, <1>4, <1>5, <1>6, <1>7, <1>8 DEF ParseArgs

\* When all options have been read, the latest one read is the last one given.
LEMMA AllSeen ==
    ASSUME ArgumentsOK, AllRead
    PROVE  /\ 1 .. optind - 1 = DOMAIN argv
           /\ \A opt : Seen(opt) = Given({opt})
           /\ \A opt, i : IsLatest(opt, i) => Given({opt}) # {} /\ Last(opt) = argv[i]
<1>1. optind = Len(argv) + 1 /\ Len(argv) \in Nat /\ DOMAIN argv = 1 .. Len(argv)
  BY DEF ArgumentsOK, AllRead
<1>2. 1 .. optind - 1 = DOMAIN argv
  BY <1>1
<1>3. \A opt : Seen(opt) = Given({opt})
  BY <1>2 DEF Seen, Given
<1>4. ASSUME NEW opt, NEW i, IsLatest(opt, i)
      PROVE  Given({opt}) # {} /\ Last(opt) = argv[i]
  <2> DEFINE G == Given({opt})
             Top(k) == \A j \in G : j <= k
             c == CHOOSE k \in G : Top(k)
  <2>1. i \in G /\ Top(i)
    BY <1>3, <1>4 DEF IsLatest
  <2>2. G \subseteq Int
    BY <1>1 DEF Given
  <2>3. c \in G /\ Top(c)
    <3> HIDE DEF G, Top
    <3> QED
      BY <2>1
  <2>4. c = i
    BY <2>1, <2>2, <2>3
  <2>5. Last(opt) = argv[c]
    BY DEF Last
  <2> QED
    BY <2>1, <2>4, <2>5
<1> QED
  BY <1>2, <1>3, <1>4

\* A number in the range of a uint16_t is what narrowing leaves of it.
LEMMA NarrowedIsNumber == \A n \in Words : UInt16(n) = n
<1> SUFFICES ASSUME NEW n \in Words PROVE UInt16(n) = n
  OBVIOUS
<1>1. n \in Nat /\ n < 65536
  BY Bounds DEF Words
<1>2. n % 65536 = n
  BY <1>1
<1> QED
  BY <1>2, Bounds DEF UInt16

\* Every number the table allows is one of 16 bits.
LEMMA LimitIsWord == ASSUME NEW opt PROVE 0 .. Limit(opt) \subseteq Words
<1>1. 255 <= MaxWord /\ MaxWord \in Nat
  BY Bounds
<1> QED
  BY <1>1 DEF Limit, Words

\* An option the parser gets past is what it says, once all have been read.
LEMMA AllReadable ==
    ASSUME ArgumentsOK, ReadInv, AllRead, info.sock_type # "none"
    PROVE  Given({"t"}) # {} /\ \A i \in DOMAIN argv : IsReadable(argv[i])
BY AllSeen DEF ReadInv, FieldsRead, ProtocolRead

\* On a good command line, with no zero among its numbers, the defaults turn what has
\* been read into what is meant.
LEMMA DefaultsAreMeant ==
    ASSUME ArgumentsOK, ReadInv, AllRead, info.sock_type # "none", Acceptable, NoZero
    PROVE  Defaults = Meant
<1>0. /\ info \in Infos /\ FieldsRead /\ argv \in Seq(Options)
      /\ \A opt : Seen(opt) = Given({opt})
      /\ \A opt, i : IsLatest(opt, i) => Given({opt}) # {} /\ Last(opt) = argv[i]
  BY AllSeen DEF ArgumentsOK, ReadInv
<1>1. Given({"t"}) # {} /\ info.sock_type = Last("t").says
  BY <1>0 DEF FieldsRead, ProtocolRead
<1>2. ASSUME NEW opt \in {"p", "d", "r"}, NEW i, IsLatest(opt, i)
      PROVE  /\ argv[i].says = "number" /\ argv[i].number \in Words
             /\ UInt16(argv[i].number) = argv[i].number
             /\ \A default : Number(opt, default) = argv[i].number
  <2>1. i \in DOMAIN argv /\ argv[i].opt = opt
    BY <1>0, <1>2 DEF IsLatest, Given
  <2>2. argv[i].says = "number" /\ argv[i].number \in 0 .. Limit(opt)
    BY <2>1 DEF Acceptable, IsGood
  <2>3. argv[i].number \in Words
    BY <2>2, LimitIsWord
  <2>4. \A default : Number(opt, default) = argv[i].number
    BY <1>0, <1>2 DEF Number
  <2> QED
    BY <2>2, <2>3, <2>4, NarrowedIsNumber
<1>3. info.host = (Given({"s"}) # {})
  <2>1. info.host \in BOOLEAN
    BY <1>0 DEF Infos
  <2> QED
    BY <1>0, <2>1 DEF FieldsRead, HostRead
<1> DEFINE timeout == IF info.udp_timeout = 0 THEN 250 ELSE info.udp_timeout
           retransmissions ==
               IF info.max_udp_retransmission = 0 THEN 3 ELSE info.max_udp_retransmission
           port == IF server_port = 0 THEN DefaultPort ELSE info.port
           meant == [says |-> "number", number |-> Number("p", DefaultPort.number)]
<1>z. Number("p", DefaultPort.number) # 0 /\ Number("d", 250) # 0 /\ Number("r", 3) # 0
  BY DEF NoZero, Meant
<1>4. timeout = Number("d", 250)
  <2>1. CASE Seen("d") = {} /\ info.udp_timeout = 0
    BY <1>0, <2>1 DEF Number
  <2>2. ASSUME NEW i, IsLatest("d", i), info.udp_timeout = UInt16(argv[i].number)
        PROVE  timeout = Number("d", 250)
    BY <1>2, <1>z, <2>2
  <2> HIDE DEF timeout
  <2> QED
    BY <1>0, <2>1, <2>2 DEF FieldsRead, TimeoutRead
<1>5. retransmissions = Number("r", 3)
  <2>1. CASE Seen("r") = {} /\ info.max_udp_retransmission = 0
    BY <1>0, <2>1 DEF Number
  <2>2. ASSUME NEW i, IsLatest("r", i), info.max_udp_retransmission = UInt16(argv[i].number)
        PROVE  retransmissions = Number("r", 3)
    BY <1>2, <1>z, <2>2
  <2> HIDE DEF retransmissions
  <2> QED
    BY <1>0, <2>1, <2>2 DEF FieldsRead, RetransmissionsRead
<1>6. port = meant
  <2>1. CASE Seen("p") = {} /\ info.port = NoPort /\ server_port = 0
    BY <1>0, <2>1 DEF Number, DefaultPort
  <2>2. ASSUME NEW i, IsLatest("p", i), server_port = argv[i].number,
               info.port = [says |-> argv[i].says, number |-> argv[i].number]
        PROVE  port = meant
    BY <1>2, <1>z, <2>2
  <2>3. \/ Seen("p") = {} /\ info.port = NoPort /\ server_port = 0
        \/ \E i : /\ IsLatest("p", i) /\ server_port = argv[i].number
                 /\ info.port = [says |-> argv[i].says, number |-> argv[i].number]
    BY <1>0 DEF FieldsRead, PortRead
  <2> HIDE DEF port, meant
  <2> QED
    BY <2>1, <2>2, <2>3
<1>7. Defaults = [sock_type |-> info.sock_type, host |-> info.host, port |-> port,
                  udp_timeout |-> timeout, max_udp_retransmission |-> retransmissions]
  <2>1. Defaults = [info EXCEPT !.udp_timeout = timeout,
                                !.max_udp_retransmission = retransmissions, !.port = port]
    BY <1>0 DEF Defaults, Infos
  <2> HIDE DEF port, timeout, retransmissions
  <2> QED
    BY <1>0, <2>1 DEF Infos
<1>8. Meant = [sock_type |-> Last("t").says, host |-> Given({"s"}) # {}, port |-> meant,
               udp_timeout |-> Number("d", 250), max_udp_retransmission |-> Number("r", 3)]
  BY DEF Meant
<1> HIDE DEF port, meant, timeout, retransmissions
<1> QED
  BY <1>1, <1>3, <1>4, <1>5, <1>6, <1>7, <1>8

\* What is refused has a fault in it, or asks for help.
LEMMA RefusedIsFaulty ==
    ASSUME ArgumentsOK, ReadInv, ParseArgs, pc' \in {"Exit", "Aborted"}
    PROVE  ~Acceptable
<1>1. ASSUME NEW opts, At(opts), ~IsReadable(arg) PROVE ~Acceptable
  <2>1. optind \in DOMAIN argv
    BY <1>1 DEF At, ArgumentsOK
  <2> QED
    BY <1>1, <2>1 DEF Acceptable, IsGood, arg
<1>2. CASE RefuseProtocol
  BY <1>1, <1>2 DEF RefuseProtocol, At, IsReadable
<1>3. CASE RefusePort
  BY <1>1, <1>3 DEF RefusePort, At, IsReadable
<1>4. CASE Throw
  BY <1>1, <1>4 DEF Throw, IsNumber, At, IsReadable
<1>5. CASE ShowHelp
  BY <1>1, <1>5 DEF ShowHelp, At, IsReadable
<1>6. CASE NoProtocol
  <2>1. AllRead /\ info.sock_type = "none"
    BY <1>6 DEF NoProtocol
  <2>2. ASSUME NEW i, IsLatest("t", i), info.sock_type = argv[i].says PROVE FALSE
    <3>1. i \in 1 .. optind - 1 /\ argv[i].opt = "t"
      BY <2>2 DEF IsLatest, Seen
    <3>2. argv[i].says \in {"tcp", "udp"}
      BY <3>1 DEF ReadInv, IsReadable
    <3> QED
      BY <2>1, <2>2, <3>2
  <2>3. Seen("t") = {}
    BY <2>2 DEF ReadInv, FieldsRead, ProtocolRead
  <2> QED
    BY <2>1, <2>3, AllSeen DEF Acceptable
<1>7. ~(TakeProtocol \/ TakeHost \/ TakePort \/ TakeTimeout \/ TakeRetransmissions
        \/ SkipOption \/ ReturnInfo)
  BY DEF TakeProtocol, TakeHost, TakePort, TakeTimeout, TakeRetransmissions, SkipOption,
         ReturnInfo, At, Keep
<1> QED
  BY <1>2, <1>3, <1>4, <1>5, <1>6, <1>7 DEF ParseArgs

ArgumentsInv == (pc = "Parse" => ReadInv) /\ ArgumentsAsMeant

LEMMA ArgumentsInit == Init => ArgumentsInv
<1> SUFFICES ASSUME Init PROVE ArgumentsInv
  OBVIOUS
<1>1. optind = 1 /\ info = NoInfo /\ server_port = 0 /\ pc = "Parse"
  BY DEF Init, ParserInit
<1>2. 1 .. optind - 1 = {}
  BY <1>1
<1>3. \A opt : Seen(opt) = {}
  BY <1>2 DEF Seen
<1> QED
  BY <1>1, <1>2, <1>3
  DEF ArgumentsInv, ArgumentsAsMeant, ReadInv, FieldsRead, ProtocolRead, HostRead, PortRead,
      TimeoutRead, RetransmissionsRead, NoInfo

\* After the parser the arguments stay, and no way back leads to main before the client.
LEMMA ArgumentsStay ==
    ASSUME IInv, [Next]_vars, ~Parse
    PROVE  /\ UNCHANGED arguments
           /\ pc' = "Parse" => pc = "Parse"
           /\ pc' = "New" => pc = "New"
           /\ pc' \in {"Exit", "Aborted"} /\ life' = "none" =>
                  pc \in {"Exit", "Aborted"} /\ life = "none"
<1>1. CASE Start
  BY <1>1 DEF Start, NewClient, SetClientPtr, CreateSocket, SocketFails, SetTimeout,
              TimeoutFails, Lookup, LookupFails, Connect, ConnectFails, Goto, Fail, ExitProgram
<1>2. CASE Chat
  BY <1>2 DEF Chat, ChatMoves, LeaveWithBye, FailInPoll, ServerBye, ChatEnds, Goto, ExitProgram
<1>3. CASE Quit \/ ByeConfirmed \/ OtherArrives \/ CloseFails
  BY <1>3 DEF Quit, SendBye, IgnoreOther, ByeTimesOut, DeleteSocket, FreeClient, Exit,
              ByeConfirmed, OtherArrives, parserVars,
              CloseFails, Goto
<1>4. CASE Interrupt
  BY <1>4 DEF Interrupt, InterruptClient, InterruptStart, InterruptEnd, ExitProgram
<1>5. CASE UNCHANGED vars
  BY <1>5 DEF vars, parserVars, client
<1> QED
  BY <1>1, <1>2, <1>3, <1>4, <1>5 DEF Next

LEMMA ArgumentsStep == IInv /\ ArgumentsInv /\ [Next]_vars => ArgumentsInv'
<1> SUFFICES ASSUME IInv, ArgumentsInv, [Next]_vars PROVE ArgumentsInv'
  OBVIOUS
<1>0. TypeOK /\ ArgumentsOK
  BY TypeParts DEF IInv
<1>1. UNCHANGED argv =>
          /\ Acceptable' = Acceptable /\ Meant' = Meant /\ NoZero' = NoZero
          /\ (Given({"t"}) # {})' = (Given({"t"}) # {}) /\ (DOMAIN argv)' = DOMAIN argv
          /\ \A i : IsReadable(argv[i])' = IsReadable(argv[i])
  BY DEF Acceptable, Meant, NoZero, Given, Last, Number, IsReadable, IsGood
<1>2. CASE Parse
  <2>1. pc = "Parse" /\ ParseArgs /\ UNCHANGED life /\ ReadInv
    BY <1>0, <1>2, ParseEnds DEF Parse, client, ArgumentsInv
  <2>2. UNCHANGED argv
    BY <2>1 DEF ParseArgs, TakeProtocol, RefuseProtocol, TakeHost, TakePort, RefusePort,
                TakeTimeout, TakeRetransmissions, Throw, ShowHelp, SkipOption, NoProtocol,
                ReturnInfo, Keep, Refuse, arguments
  <2>3. pc' = "Parse" => ReadInv'
    BY <1>0, <2>1, TakeKeepsRead
  <2>4. ASSUME pc' = "New"
        PROVE  /\ Acceptable /\ NoZero => info' = Meant
               /\ Given({"t"}) # {} /\ \A i \in DOMAIN argv : IsReadable(argv[i])
    <3>1. ReturnInfo
      BY <2>1, <2>4 DEF ParseArgs, TakeProtocol, RefuseProtocol, TakeHost, TakePort, RefusePort,
                TakeTimeout, TakeRetransmissions, Throw, ShowHelp, SkipOption, NoProtocol,
                Keep, Refuse
    <3> QED
      BY <1>0, <2>1, <3>1, DefaultsAreMeant, AllReadable DEF ReturnInfo
  <2>5. pc' \in {"Exit", "Aborted"} => ~Acceptable
    BY <1>0, <2>1, RefusedIsFaulty
  <2> QED
    BY <1>1, <2>2, <2>3, <2>4, <2>5 DEF ArgumentsInv, ArgumentsAsMeant
<1>3. CASE ~Parse
  <2>1. UNCHANGED <<argv, optind, info, server_port>>
    BY <1>3, ArgumentsStay DEF arguments
  <2>2. ReadInv' = ReadInv
    BY <2>1 DEF ReadInv, FieldsRead, ProtocolRead, HostRead, PortRead, TimeoutRead,
                RetransmissionsRead, Seen, IsLatest
  <2> QED
    BY <1>1, <1>3, <2>1, <2>2, ArgumentsStay DEF ArgumentsInv, ArgumentsAsMeant
<1> QED
  BY <1>2, <1>3

\* The options, read one by one and completed by the defaults, give what a command
\* line with numbers in range says as a whole; only a faulty one, or -h, is turned
\* away, and one without a protocol or with a port out of range always is.
THEOREM ArgumentsAreMeant == Spec => []ArgumentsAsMeant
<1>1. ArgumentsInv => ArgumentsAsMeant
  BY DEF ArgumentsInv
<1> QED
  BY <1>1, ArgumentsInit, ArgumentsStep, InvAlways, PTL DEF Spec
=============================================================================
