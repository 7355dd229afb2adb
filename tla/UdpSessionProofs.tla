--------------------------- MODULE UdpSessionProofs ---------------------------
(***************************************************************************)
(* Theorems about UdpSession: the client with a server that keeps to the   *)
(* protocol, over any loss, delay, repetition and reordering, for every    *)
(* value of the constants.  A session is a run of the client, so what is   *)
(* proved of UdpClient holds in it; its own invariants relate what the     *)
(* client has noted to what the server knows.                              *)
(***************************************************************************)
EXTENDS UdpSession, UdpClientIds, UdpClientSafety, FiniteSetTheorems

-----------------------------------------------------------------------------
(* Types, and the client within the session. *)

ServerTypeOK ==
    /\ to_client \subseteq ServerDatagrams
    /\ srv_known \subseteq [type : OutTypes, id : Ids]
    /\ srv_log \in Seq([type : Typed, id : Ids])
    /\ srv_auth \in BOOLEAN /\ srv_next \in Nat

SessionTypeInv == TypeInv /\ ServerTypeOK

\* What the server can send, the client may receive.
LEMMA ServerDatagramType ==
    ASSUME NEW d \in ServerDatagrams
    PROVE  /\ d \in Datagrams /\ ~d.short /\ d.id \in Ids /\ d.ref \in Ids
           /\ d.type \in {"CONFIRM", "REPLY_OK", "REPLY_NOK", "MSG", "BYE", "ERR"}
<1>1. 0 \in Ids
  BY ConstantsAssumption DEF Ids
<1>2. DefaultId \in Ids
  BY ConstantsAssumption DEF DefaultId, Ids
<1> QED
  BY <1>1, <1>2, SessionAssumption DEF ServerDatagrams

\* The ids the server takes are ids.
LEMMA SrvIdType == ASSUME srv_next \in Nat PROVE SrvId \in Ids
BY ModIsId DEF SrvId

LEMMA AnswerType ==
    ASSUME NEW p \in [type : OutTypes, id : Ids, dest : {ServerPort, DynPort}],
           NEW verdict \in {"REPLY_OK", "REPLY_NOK"}, srv_next \in Nat
    PROVE  Answer(p, verdict) \subseteq ServerDatagrams
<1>1. SrvId \in Ids
  BY SrvIdType
<1>2. Datagram("CONFIRM", DefaultId, p.id, p.dest) \in ServerDatagrams
  BY DEF Datagram, ServerDatagrams
<1>3. Datagram(verdict, SrvId, p.id, DynPort) \in ServerDatagrams
  BY <1>1 DEF Datagram, ServerDatagrams
<1> QED
  BY <1>2, <1>3 DEF Answer

\* The steps of the server and those of the client.
ServerStep ==
    \/ \E p \in sent, verdict \in {"REPLY_OK", "REPLY_NOK"} : ServerReceives(p, verdict)
    \/ \E type \in {"MSG", "BYE", "ERR"} : ServerSpeaks(type)

ClientStep ==
    /\ UNCHANGED server
    /\ (\E d \in to_client : Receive(d)) \/ Timeout \/ Fail \/ User

LEMMA SessionSteps ==
    [SessionNext]_sessionVars => ServerStep \/ ClientStep \/ UNCHANGED <<vars, server>>
BY DEF SessionNext, sessionVars, ServerStep, ClientStep, ClientReceives, ClientTimeout

LEMMA ServerKeepsVars == ServerStep => UNCHANGED vars
BY DEF ServerStep, ServerReceives, ServerSpeaks

\* A step of the session is a step of the client, or leaves it alone.
LEMMA StepOfClient == ServerTypeOK /\ [SessionNext]_sessionVars => [Next]_vars
<1> SUFFICES ASSUME ServerTypeOK, [SessionNext]_sessionVars PROVE [Next]_vars
  OBVIOUS
<1>1. ASSUME ClientStep PROVE Next
  <2>1. \A d \in to_client : d \in Datagrams
    BY ServerDatagramType DEF ServerTypeOK
  <2> QED
    BY <1>1, <2>1 DEF ClientStep, Next
<1> QED
  BY <1>1, SessionSteps, ServerKeepsVars

LEMMA ServerTypeStep ==
    TypeInv /\ ServerTypeOK /\ [SessionNext]_sessionVars => ServerTypeOK'
<1> SUFFICES ASSUME TypeInv, ServerTypeOK, [SessionNext]_sessionVars PROVE ServerTypeOK'
  OBVIOUS
<1>1. ASSUME NEW p \in sent, NEW verdict \in {"REPLY_OK", "REPLY_NOK"},
             ServerReceives(p, verdict)
      PROVE  ServerTypeOK'
  <2>1. p \in [type : OutTypes, id : Ids, dest : {ServerPort, DynPort}]
    BY <1>1 DEF TypeInv, TypeOK, ServerReceives
  <2>2. Content(p) \in [type : OutTypes, id : Ids]
    BY <2>1 DEF Content
  <2>3. p.type \in Typed => Content(p) \in [type : Typed, id : Ids]
    BY <2>1 DEF Content
  <2>4. srv_log' \in Seq([type : Typed, id : Ids])
    <3> DEFINE S == [type : Typed, id : Ids]
               c == Content(p)
    <3>1. srv_log \in Seq(S) /\ (p.type \in Typed => c \in S)
      BY <2>3 DEF ServerTypeOK
    <3>2. srv_log' = IF p.type \in Typed THEN Append(srv_log, c) ELSE srv_log
      BY <1>1 DEF ServerReceives
    <3> HIDE DEF S, c
    <3>3. srv_log' \in Seq(S)
      BY <3>1, <3>2
    <3> QED
      BY <3>3 DEF S
  <2>5. Answer(p, verdict) \subseteq ServerDatagrams
    BY <2>1, AnswerType DEF ServerTypeOK
  <2>6. srv_auth' \in BOOLEAN /\ srv_next' \in Nat
    BY <1>1 DEF ServerReceives, ServerTypeOK
  <2> QED
    BY <1>1, <2>2, <2>4, <2>5, <2>6 DEF ServerReceives, ServerTypeOK
<1>2. ASSUME NEW type \in {"MSG", "BYE", "ERR"}, ServerSpeaks(type) PROVE ServerTypeOK'
  <2>1. Datagram(type, SrvId, 0, DynPort) \in ServerDatagrams
    BY SrvIdType DEF Datagram, ServerDatagrams, ServerTypeOK
  <2> QED
    BY <1>2, <2>1 DEF ServerSpeaks, ServerTypeOK
<1>3. ASSUME UNCHANGED server PROVE ServerTypeOK'
  BY <1>3 DEF server, ServerTypeOK
<1> QED
  BY <1>1, <1>2, <1>3, SessionSteps DEF ServerStep, ClientStep

LEMMA SessionTypeAlways == SessionSpec => []SessionTypeInv
<1>1. SessionInit => SessionTypeInv
  <2> SUFFICES ASSUME SessionInit PROVE TypeInv /\ ServerTypeOK
    BY DEF SessionTypeInv
  <2>1. srv_log \in Seq([type : Typed, id : Ids])
    BY DEF SessionInit
  <2> QED
    BY <2>1, InitType DEF SessionInit, ServerTypeOK
<1>2. SessionTypeInv /\ [SessionNext]_sessionVars => SessionTypeInv'
  BY StepType, StepOfClient, ServerTypeStep DEF SessionTypeInv
<1> QED
  BY <1>1, <1>2, PTL DEF SessionSpec

\* Whatever the server and the network do is something the open UdpClient allows
\* for: a session is a run of the client, and every theorem about the client
\* holds in it.
THEOREM SessionIsRunOfClient == SessionSpec => Spec
<1>1. SessionInit => Init
  BY DEF SessionInit
<1>2. SessionTypeInv /\ [SessionNext]_sessionVars => [Next]_vars
  BY StepOfClient DEF SessionTypeInv
<1> QED
  BY <1>1, <1>2, SessionTypeAlways, PTL DEF SessionSpec, Spec

\* Every variable of client and server keeps its type; in particular the server
\* sends nothing the client is not prepared to receive.
THEOREM SessionTypeCorrect == SessionSpec => []SessionTypeOK
<1>1. SessionTypeInv => SessionTypeOK
  BY ServerDatagramType DEF SessionTypeInv, TypeInv, ServerTypeOK, SessionTypeOK
<1> QED
  BY <1>1, SessionTypeAlways, PTL

-----------------------------------------------------------------------------
(* What the steps change of the variables the invariants speak of. *)

NoNewConfirm == \A p \in sent' : p.type = "CONFIRM" => p \in sent

\* A step of the client that neither reads a datagram nor sends a line.
Otherwise == UNCHANGED <<chat, outgoing, acks, shown, server>> /\ NoNewConfirm

\* Only the two loops note ids, and only for a REPLY or a chat message.
LEMMA ReceiveFrame ==
    ASSUME NEW d \in Datagrams, Receive(d)
    PROVE  /\ UNCHANGED outgoing
           /\ acks' = IF d.type = "CONFIRM" THEN acks \cup {d.ref} ELSE acks
           /\ FsmReply(d) \/ FsmChatMsg(d) \/ UNCHANGED chat
<1>1. ASSUME FsmLogicHandler(d)
      PROVE  UNCHANGED outgoing /\ (FsmReply(d) \/ FsmChatMsg(d) \/ UNCHANGED chat)
  <2>1. CASE FsmIgnore(d) \/ FsmConfirm(d)
    BY <2>1 DEF FsmIgnore, FsmConfirm, waiting
  <2>2. CASE FsmReply(d) \/ FsmChatMsg(d)
    BY <2>2 DEF FsmReply, FsmChatMsg, waiting
  <2>3. CASE FsmEarlyMsg(d) \/ FsmInvalid(d) \/ FsmServerErr(d) \/ FsmServerBye(d)
    BY <2>3 DEF FsmEarlyMsg, FsmInvalid, FsmServerErr, FsmServerBye
  <2> QED
    BY <1>1, <2>1, <2>2, <2>3 DEF FsmLogicHandler
<1>2. NoteAck(d)
  BY DEF Receive, RefuseInPoll, ReceiveInPoll, OutgoingConfirmed, ReceiveInConfirm, ReceiveInBye
<1>3. CASE RefuseInPoll(d)
  BY <1>2, <1>3 DEF RefuseInPoll, NoteAck
<1>4. CASE ReceiveInPoll(d) \/ ReceiveInConfirm(d)
  BY <1>1, <1>2, <1>4 DEF ReceiveInPoll, ReceiveInConfirm, NoteAck
<1>5. CASE OutgoingConfirmed(d) \/ ReceiveInBye(d)
  BY <1>2, <1>5 DEF OutgoingConfirmed, ReceiveInBye, NoteAck, waiting
<1> QED
  BY <1>3, <1>4, <1>5 DEF Receive

\* A line that is sent.
LEMMA SubmitFrame ==
    ASSUME TypeOK, NEW u \in Inputs, SubmitLine(u)
    PROVE  /\ NoNewConfirm /\ UNCHANGED <<seen_ids, acks, shown, recv_failed>>
           /\ Asks(outgoing') => reply_msg_sent'
           /\ outgoing'.type = "JOIN" => client_state = "OPEN"
           /\ client_state' # "START" /\ (client_state = "OPEN" => client_state' = "OPEN")
           /\ client_state' = "OPEN" => client_state = "OPEN"
<1> DEFINE type == IF u.wire THEN u.type ELSE "EMPTY"
           id == msg_counter % IdSpace
<1>1. type # "CONFIRM" /\ (type \in {"AUTH", "JOIN"} => type = u.type)
  BY ConstantsAssumption DEF LineTypes
<1>2. /\ outgoing' = [type |-> type, id |-> id]
      /\ sent' = sent \cup {Packet(type, id, peer)}
      /\ reply_msg_sent' = NeedsReply(u)
      /\ client_state' = StateAfterSubmit
      /\ UNCHANGED <<seen_ids, acks, shown, recv_failed>> /\ Accepted(u)
  BY DEF SubmitLine, Transmit
<1> HIDE DEF type, id
<1>3. NoNewConfirm
  BY <1>1, <1>2 DEF NoNewConfirm, Packet
<1>4. outgoing'.type = type
  BY <1>2
<1>5. outgoing'.type = "JOIN" => client_state = "OPEN"
  BY <1>1, <1>2, <1>4 DEF Accepted
<1>6. Asks(outgoing') => reply_msg_sent'
  BY <1>1, <1>2, <1>4 DEF Asks, NeedsReply
<1> QED
  BY <1>2, <1>3, <1>5, <1>6 DEF StateAfterSubmit, TypeOK

\* Every step of a session.
LEMMA SessionFrame ==
    ASSUME TypeOK, ServerTypeOK, [SessionNext]_sessionVars
    PROVE  \/ ServerStep /\ UNCHANGED vars
           \/ \E d \in to_client : Receive(d) /\ UNCHANGED server
           \/ \E u \in Inputs : SubmitLine(u) /\ UNCHANGED server
           \/ Otherwise
<1> DEFINE Rest == UNCHANGED <<chat, outgoing, acks, shown>> /\ NoNewConfirm
<1>0. ASSUME NEW bye, NEW why, NEW counter, ExitProgram(bye, why, counter, {})
      PROVE  NoNewConfirm
  BY <1>0 DEF ExitProgram, Transmit, Packet, NoNewConfirm
<1>1. ASSUME NEW u \in Inputs, RefuseLine(u) PROVE Rest
  BY <1>1 DEF RefuseLine, waiting, NoNewConfirm
<1>2. ASSUME EndOfInput \/ Interrupt PROVE Rest
  BY <1>0, <1>2 DEF EndOfInput, Interrupt
<1>3. ASSUME Timeout PROVE Rest
  <2>1. CASE Resend
    <3>1. outgoing.type # "CONFIRM"
      BY DEF TypeOK, Typed
    <3> QED
      BY <2>1, <3>1 DEF Resend, Transmit, Packet, NoNewConfirm
  <2>2. CASE GiveUp
    BY <1>0, <2>2 DEF GiveUp
  <2>3. CASE TimeoutInBye
    BY <2>3 DEF TimeoutInBye, NoNewConfirm
  <2> QED
    BY <1>3, <2>1, <2>2, <2>3 DEF Timeout
<1>4. ASSUME Fail PROVE Rest
  BY <1>0, <1>4 DEF Fail, FailInPoll, FailInConfirm, FailInBye, NoNewConfirm, waiting
<1>5. ASSUME UNCHANGED vars PROVE Rest
  BY <1>5 DEF vars, waiting, NoNewConfirm
<1>6. ASSUME ClientStep
      PROVE  \/ \E d \in to_client : Receive(d)
             \/ \E u \in Inputs : SubmitLine(u)
             \/ Rest
  <2> HIDE DEF Rest
  <2> QED
    BY <1>1, <1>2, <1>3, <1>4, <1>6 DEF ClientStep, User
<1>7. UNCHANGED server /\ Rest => Otherwise
  BY DEF Otherwise
<1>8. ClientStep => UNCHANGED server
  BY DEF ClientStep
<1> HIDE DEF Rest
<1> QED
  BY <1>5, <1>6, <1>7, <1>8, SessionSteps, ServerKeepsVars

\* Nothing that was sent or is known is taken back.
LEMMA ClientGrows == TypeOK /\ [Next]_vars => sent \subseteq sent'
BY NextStep DEF Step, Quiet, ByeOnly, ErrAndBye, NewLine, SameAgain, Adds

LEMMA ServerGrows ==
    ASSUME ServerTypeOK, [SessionNext]_sessionVars
    PROVE  /\ to_client \subseteq to_client' /\ srv_known \subseteq srv_known'
           /\ (srv_auth => srv_auth')
<1>1. ASSUME UNCHANGED server
      PROVE  UNCHANGED <<to_client, srv_known, srv_auth>>
  BY <1>1 DEF server
<1>2. ASSUME NEW p \in sent, NEW verdict \in {"REPLY_OK", "REPLY_NOK"},
             ServerReceives(p, verdict)
      PROVE  /\ to_client \subseteq to_client' /\ srv_known \subseteq srv_known'
             /\ (srv_auth => srv_auth')
  BY <1>2 DEF ServerReceives
<1>3. ASSUME NEW type \in {"MSG", "BYE", "ERR"}, ServerSpeaks(type)
      PROVE  /\ to_client \subseteq to_client' /\ srv_known \subseteq srv_known'
             /\ (srv_auth => srv_auth')
  BY <1>3 DEF ServerSpeaks
<1> QED
  BY <1>1, <1>2, <1>3, SessionSteps DEF ServerStep, ClientStep

\* What a step sends besides CONFIRM, ERR and BYE is the message at hand.
LEMMA TypedFrame ==
    ASSUME TypeOK, TypeOK', [Next]_vars
    PROVE  \A p \in sent' : p.type \in Typed => p \in sent \/ Content(p) = outgoing'
<1> SUFFICES ASSUME NEW p \in sent', p.type \in Typed, p \notin sent
             PROVE  Content(p) = outgoing'
  OBVIOUS
<1>0. p.type \notin {"CONFIRM", "ERR", "BYE"}
  BY DEF Typed
<1>1. /\ outgoing \in [type : Typed \cup {"NONE"}, id : Ids]
      /\ outgoing' \in [type : Typed \cup {"NONE"}, id : Ids]
  BY DEF TypeOK
<1>2. Content(p) = Message(outgoing'.type, outgoing'.id)
  <2>1. ~Quiet /\ ~ByeOnly /\ ~ErrAndBye
    BY <1>0 DEF Quiet, ByeOnly, ErrAndBye, Adds, Message
  <2>2. CASE NewLine
    BY <1>0, <2>2 DEF NewLine, Adds, Content
  <2>3. CASE SameAgain
    BY <1>0, <2>3 DEF SameAgain, Adds, Content
  <2> QED
    BY <2>1, <2>2, <2>3, NextStep DEF Step
<1> QED
  BY <1>1, <1>2 DEF Message

-----------------------------------------------------------------------------
(* The server accepts before the client is in OPEN. *)

\* A JOIN goes out in OPEN only, so a REPLY_OK to it cannot be the first one.
AcceptedInv ==
    /\ client_state = "OPEN" => srv_auth
    /\ \A d \in to_client : d.type = "REPLY_OK" => srv_auth
    /\ outgoing.type = "JOIN" => client_state = "OPEN"
    /\ \A p \in sent : p.type = "JOIN" => client_state = "OPEN"

LEMMA AcceptedStep ==
    SessionTypeInv /\ SessionTypeInv' /\ AcceptedInv /\ [SessionNext]_sessionVars
        => AcceptedInv'
<1> SUFFICES ASSUME SessionTypeInv, SessionTypeInv', AcceptedInv, [SessionNext]_sessionVars
             PROVE  AcceptedInv'
  OBVIOUS
<1>0. TypeOK /\ TypeOK' /\ ServerTypeOK /\ [Next]_vars
  BY StepOfClient DEF SessionTypeInv, TypeInv
<1>1. srv_auth => srv_auth'
  BY <1>0, ServerGrows
<1>2. \A p \in sent' : p.type = "JOIN" => p \in sent \/ outgoing'.type = "JOIN"
  BY <1>0, TypedFrame DEF Content, Typed
<1>3. CASE ServerStep /\ UNCHANGED vars
  <2>1. UNCHANGED <<client_state, outgoing, sent>>
    BY <1>3 DEF vars, chat, waiting
  <2>2. ASSUME NEW d \in to_client', d.type = "REPLY_OK" PROVE srv_auth'
    <3>1. CASE d \in to_client
      BY <1>1, <2>2, <3>1 DEF AcceptedInv
    <3>2. ASSUME NEW p \in sent, NEW verdict \in {"REPLY_OK", "REPLY_NOK"},
                 ServerReceives(p, verdict), d \notin to_client
          PROVE  srv_auth'
      <4>1. Asks(p) /\ verdict = "REPLY_OK"
        BY <2>2, <3>2 DEF ServerReceives, Answer, Datagram
      <4> QED
        BY <1>1, <3>2, <4>1 DEF ServerReceives, Asks, AcceptedInv
    <3>3. ASSUME NEW type \in {"MSG", "BYE", "ERR"}, ServerSpeaks(type) PROVE srv_auth'
      BY <1>1, <3>3 DEF ServerSpeaks
    <3> QED
      BY <1>3, <3>1, <3>2, <3>3 DEF ServerStep
  <2> QED
    BY <1>1, <2>1, <2>2 DEF AcceptedInv
<1>4. ASSUME NEW d \in to_client, Receive(d), UNCHANGED server PROVE AcceptedInv'
  <2>1. d \in ServerDatagrams /\ d \in Datagrams /\ ~d.short
    BY <1>0, ServerDatagramType DEF ServerTypeOK
  <2>2. UNCHANGED outgoing
    BY <1>4, <2>1, ReceiveFrame
  <2>3. /\ client_state = "OPEN" => client_state' = "OPEN"
        /\ client_state' = "OPEN" => client_state = "OPEN" \/ d.type = "REPLY_OK"
    <3>1. CASE FsmReply(d)
      BY <2>1, <3>1 DEF FsmReply, StateAfterReply, Processed
    <3>2. CASE FsmChatMsg(d)
      BY <3>2 DEF FsmChatMsg
    <3>3. CASE UNCHANGED chat
      BY <3>3 DEF chat
    <3> QED
      BY <1>4, <2>1, <3>1, <3>2, <3>3, ReceiveFrame
  <2>4. UNCHANGED <<to_client, srv_auth>>
    BY <1>4 DEF server
  <2> QED
    BY <1>2, <1>4, <2>2, <2>3, <2>4 DEF AcceptedInv
<1>5. ASSUME NEW u \in Inputs, SubmitLine(u), UNCHANGED server PROVE AcceptedInv'
  BY <1>0, <1>2, <1>5, SubmitFrame DEF AcceptedInv, server
<1>6. CASE Otherwise
  BY <1>2, <1>6 DEF Otherwise, AcceptedInv, server, chat
<1> QED
  BY <1>0, <1>3, <1>4, <1>5, <1>6, SessionFrame

\* However REPLYs are delayed, repeated and overtaken, the client takes itself for
\* authorized only after the server has accepted an AUTH.
THEOREM OpenOnlyIfAccepted == SessionSpec => []OpenIsAccepted
<1>1. SessionInit => AcceptedInv
  BY DEF SessionInit, Init, AcceptedInv, NoMessage
<1>2. AcceptedInv => OpenIsAccepted
  BY DEF AcceptedInv, OpenIsAccepted
<1> QED
  BY <1>1, <1>2, AcceptedStep, SessionTypeAlways, PTL DEF SessionSpec

-----------------------------------------------------------------------------
(* What the server knows is what the client has sent, and what is confirmed  *)
(* is known.                                                                 *)

KnownInv ==
    /\ \A m \in srv_known : m.type \notin {"CONFIRM", "EMPTY"} /\ \E p \in sent : Content(p) = m
    /\ \A d \in to_client : d.type = "CONFIRM" => \E m \in srv_known : m.id = d.ref
    /\ \A i \in acks : \E m \in srv_known : m.id = i

LEMMA KnownStep ==
    SessionTypeInv /\ KnownInv /\ [SessionNext]_sessionVars => KnownInv'
<1> SUFFICES ASSUME SessionTypeInv, KnownInv, [SessionNext]_sessionVars PROVE KnownInv'
  OBVIOUS
<1>0. TypeOK /\ ServerTypeOK /\ [Next]_vars
  BY StepOfClient DEF SessionTypeInv, TypeInv
<1>1. sent \subseteq sent' /\ to_client \subseteq to_client' /\ srv_known \subseteq srv_known'
  BY <1>0, ClientGrows, ServerGrows
<1>2. ASSUME NEW p \in sent, NEW verdict \in {"REPLY_OK", "REPLY_NOK"},
             ServerReceives(p, verdict), UNCHANGED vars
      PROVE  KnownInv'
  <2>1. Content(p).type \notin {"CONFIRM", "EMPTY"} /\ Content(p).id = p.id
    BY <1>2 DEF ServerReceives, Content
  <2>2. srv_known' = srv_known \cup {Content(p)}
    BY <1>2 DEF ServerReceives
  <2>3. \A d \in to_client' : d \in to_client \/ d.type # "CONFIRM" \/ d.ref = p.id
    BY <1>2 DEF ServerReceives, Answer, Datagram
  <2>4. UNCHANGED <<sent, acks>>
    BY <1>2 DEF vars
  <2> QED
    BY <2>1, <2>2, <2>3, <2>4 DEF KnownInv
<1>3. ASSUME NEW type \in {"MSG", "BYE", "ERR"}, ServerSpeaks(type), UNCHANGED vars
      PROVE  KnownInv'
  BY <1>3 DEF ServerSpeaks, Datagram, KnownInv, vars
<1>4. ASSUME NEW d \in to_client, Receive(d), UNCHANGED server PROVE KnownInv'
  <2>1. d \in Datagrams
    BY <1>0, ServerDatagramType DEF ServerTypeOK
  <2>2. acks' = IF d.type = "CONFIRM" THEN acks \cup {d.ref} ELSE acks
    BY <1>4, <2>1, ReceiveFrame
  <2> QED
    BY <1>1, <1>4, <2>2 DEF KnownInv, server
<1>5. ASSUME UNCHANGED <<acks, server>> PROVE KnownInv'
  BY <1>1, <1>5 DEF KnownInv, server
<1> QED
  BY <1>0, <1>2, <1>3, <1>4, <1>5, SessionFrame, SubmitFrame DEF ServerStep, Otherwise

LEMMA KnownAlways == SessionSpec => []KnownInv
<1>1. SessionInit => KnownInv
  BY DEF SessionInit, Init, KnownInv
<1> QED
  BY <1>1, KnownStep, SessionTypeAlways, PTL DEF SessionSpec

-----------------------------------------------------------------------------
(* CONFIRMs of the client. *)

\* In START the client has sent nothing, so nothing is on its way to it.
SilentInStart == client_state = "START" /\ pc \in Active => sent = {}

LEMMA StateFrame ==
    ASSUME [Next]_vars
    PROVE  client_state' = "START" => client_state = "START"
<1>1. ASSUME NEW u \in Inputs, SubmitLine(u) PROVE client_state' # "START"
  BY <1>1 DEF SubmitLine, StateAfterSubmit
<1>2. ASSUME NEW d \in Datagrams, Receive(d)
      PROVE  client_state' = "START" => client_state = "START"
  BY <1>2, ReceiveFrame DEF FsmReply, StateAfterReply, FsmChatMsg, chat
<1>3. ASSUME NEW u \in Inputs, RefuseLine(u) PROVE UNCHANGED client_state
  BY <1>3 DEF RefuseLine, chat
<1>4. ASSUME EndOfInput \/ Interrupt \/ Timeout \/ Fail \/ UNCHANGED vars
      PROVE  UNCHANGED client_state
  BY <1>4 DEF EndOfInput, Interrupt, Timeout, Resend, GiveUp, TimeoutInBye,
              Fail, FailInPoll, FailInConfirm, FailInBye, vars, chat
<1> QED
  BY <1>1, <1>2, <1>3, <1>4 DEF Next, User

LEMMA SilentStep ==
    StartIsClean /\ SilentInStart /\ [Next]_vars => SilentInStart'
<1> SUFFICES ASSUME StartIsClean, SilentInStart, [Next]_vars, client_state' = "START",
                    pc' \in Active
             PROVE  sent' = {}
  BY DEF SilentInStart
<1>1. client_state = "START" /\ pc = "Poll" /\ sent = {}
  BY StateFrame, ActiveStaysActive DEF SilentInStart, StartIsClean, Active
<1>2. ASSUME NEW u \in Inputs, SubmitLine(u) \/ RefuseLine(u) PROVE UNCHANGED sent
  BY <1>2 DEF SubmitLine, StateAfterSubmit, RefuseLine
<1>3. ~EndOfInput /\ ~Interrupt /\ ~FailInPoll
  BY ExitLeaves DEF EndOfInput, Interrupt, FailInPoll, Active
<1>4. ~Timeout /\ ~FailInConfirm /\ ~FailInBye
  BY <1>1 DEF Timeout, Resend, GiveUp, TimeoutInBye, FailInConfirm, FailInBye
<1>5. ASSUME NEW d \in Datagrams, Receive(d) PROVE UNCHANGED sent
  <2>1. ~RefuseInPoll(d)
    BY ExitLeaves DEF RefuseInPoll, PollServerErr, PollUnexpected, Active
  <2>2. ReceiveInPoll(d)
    BY <1>1, <1>5, <2>1 DEF Receive, OutgoingConfirmed, ReceiveInConfirm, ReceiveInBye
  <2> QED
    BY <1>1, <2>2 DEF ReceiveInPoll, FsmLogicHandler, FsmIgnore
<1> QED
  BY <1>1, <1>2, <1>3, <1>4, <1>5 DEF Next, User, Fail, vars

\* What the client confirms, of what the server can send.
LEMMA ConfirmFrame ==
    ASSUME NEW d \in ServerDatagrams, Receive(d),
           d.type = "CONFIRM" => client_state # "START"
    PROVE  \A p \in sent' : p.type = "CONFIRM" =>
               p \in sent \/ (p.id = d.id /\ d.type # "CONFIRM")
<1> DEFINE Answers == \A p \in sent' : p.type = "CONFIRM" =>
                          p \in sent \/ (p.id = d.id /\ d.type # "CONFIRM")
<1>0. ~d.short /\ d.type # "INVALID_MSG" /\ Processed(d) = d.type
  BY ServerDatagramType DEF Processed
<1>1. ASSUME NEW port, sent' = sent \cup {Confirm(d.id, port)}, d.type # "CONFIRM" PROVE Answers
  BY <1>1 DEF Confirm, Packet
<1>2. ASSUME NEW bye, NEW why, NEW counter, d.type # "CONFIRM",
             ExitProgram(bye, why, counter, {Confirm(d.id, peer)}) \/ SendErrorExit({Confirm(d.id, peer)})
      PROVE  Answers
  BY <1>2 DEF ExitProgram, SendErrorExit, Transmit, Confirm, Packet
<1>3. ASSUME FsmLogicHandler(d) PROVE Answers
  <2>1. CASE FsmIgnore(d) \/ FsmConfirm(d)
    BY <2>1 DEF FsmIgnore, FsmConfirm
  <2>2. CASE FsmReply(d)
    BY <1>0, <1>1, <2>2 DEF FsmReply, ConfirmReply, Transmit
  <2>3. CASE FsmChatMsg(d)
    BY <1>0, <1>1, <2>3 DEF FsmChatMsg, Transmit
  <2>4. CASE FsmEarlyMsg(d)
    BY <1>0, <1>2, <2>4 DEF FsmEarlyMsg
  <2>5. CASE FsmServerErr(d) \/ FsmServerBye(d)
    BY <1>0, <1>2, <2>5 DEF FsmServerErr, FsmServerBye
  <2>6. ~FsmInvalid(d)
    BY <1>0 DEF FsmInvalid
  <2> HIDE DEF Answers
  <2> QED
    BY <1>3, <2>1, <2>2, <2>3, <2>4, <2>5, <2>6 DEF FsmLogicHandler
<1>4. CASE RefuseInPoll(d)
  <2>1. d.type # "CONFIRM"
    BY <1>4 DEF RefuseInPoll, PollRefuses
  <2>2. CASE PollServerErr(d)
    BY <1>2, <2>1, <2>2 DEF PollServerErr
  <2>3. CASE PollUnexpected(d)
    BY <1>0, <1>2, <2>1, <2>3 DEF PollUnexpected
  <2> QED
    BY <1>4, <2>2, <2>3 DEF RefuseInPoll
<1>5. CASE ReceiveInPoll(d) \/ ReceiveInConfirm(d)
  BY <1>3, <1>5 DEF ReceiveInPoll, ReceiveInConfirm
<1>6. CASE OutgoingConfirmed(d) \/ ReceiveInBye(d)
  BY <1>6 DEF OutgoingConfirmed, ReceiveInBye
<1> QED
  BY <1>4, <1>5, <1>6 DEF Receive

\* What a step confirms it has read, in that step.
NewConfirmsReal ==
    \A p \in sent' \ sent : p.type = "CONFIRM" =>
        \E d \in to_client : ClientReceives(d) /\ d.type # "CONFIRM" /\ d.id = p.id

LEMMA RealStep ==
    SessionTypeInv /\ KnownInv /\ SilentInStart /\ [SessionNext]_sessionVars => NewConfirmsReal
<1> SUFFICES ASSUME SessionTypeInv, KnownInv, SilentInStart, [SessionNext]_sessionVars
             PROVE  NewConfirmsReal
  OBVIOUS
<1>0. TypeOK /\ ServerTypeOK /\ [Next]_vars
  BY StepOfClient DEF SessionTypeInv, TypeInv
<1>2. ASSUME NEW d \in to_client, Receive(d), UNCHANGED server PROVE NewConfirmsReal
  <2>1. d \in ServerDatagrams /\ ClientReceives(d)
    BY <1>0, <1>2 DEF ServerTypeOK, ClientReceives
  <2>2. CASE pc \in Active
    <3>1. d.type = "CONFIRM" => client_state # "START"
      BY <1>2, <2>2 DEF KnownInv, SilentInStart
    <3> QED
      BY <1>2, <2>1, <3>1, ConfirmFrame DEF NewConfirmsReal
  <2>3. CASE pc \notin Active
    <3>1. ReceiveInBye(d)
      BY <1>2, <2>3 DEF Receive, RefuseInPoll, ReceiveInPoll, OutgoingConfirmed,
                        ReceiveInConfirm, Active
    <3> QED
      BY <3>1 DEF ReceiveInBye, NewConfirmsReal
  <2> QED
    BY <2>2, <2>3
<1>3. ASSUME NoNewConfirm PROVE NewConfirmsReal
  BY <1>3 DEF NoNewConfirm, NewConfirmsReal
<1>4. UNCHANGED vars => NoNewConfirm
  BY DEF vars, NoNewConfirm
<1> QED
  BY <1>0, <1>2, <1>3, <1>4, SessionFrame, SubmitFrame DEF Otherwise

\* The client confirms a message only as it reads it, so the server never stops
\* sending one that has not been read.
THEOREM OnlyRealIsConfirmed == SessionSpec => ConfirmsAreReal
<1>1. SessionInit => SilentInStart
  BY DEF SessionInit, Init, SilentInStart
<1>2. SessionTypeInv /\ [SessionNext]_sessionVars => [Next]_vars
  BY StepOfClient DEF SessionTypeInv
<1>3. SessionTypeInv /\ KnownInv /\ SilentInStart /\ [SessionNext]_sessionVars
          => [\A p \in sent' \ sent : p.type = "CONFIRM" =>
                 \E d \in to_client :
                     ClientReceives(d) /\ d.type # "CONFIRM" /\ d.id = p.id]_sessionVars
  BY RealStep DEF NewConfirmsReal
<1> QED
  BY <1>1, <1>2, <1>3, SilentStep, KnownAlways, SessionTypeAlways, SessionIsRunOfClient,
     StartBranchIsDead, PTL DEF SessionSpec, ConfirmsAreReal

-----------------------------------------------------------------------------
(* The server's ids. *)

\* The server's chat messages and its REPLYs have room in the id space.
ServerNoWrap == MaxSrvMsgs + MaxMsgs < IdSpace

\* The requests the server has answered.
Asked == {m.id : m \in {n \in srv_known : Asks(n)}}

LEMMA AskedBounded ==
    ASSUME TypeOK, Numbered, KnownInv
    PROVE  /\ \A p \in sent : Asks(p) => p.id \in 0 .. MaxMsgs
           /\ Asked \subseteq 0 .. MaxMsgs
<1>1. MaxMsgs \in Nat /\ msg_counter \in Nat /\ msg_counter <= MaxMsgs + 1
  BY ConstantsAssumption DEF TypeOK, Numbered
<1>2. ASSUME NEW p \in sent, Asks(p) PROVE p.id \in 0 .. MaxMsgs
  <2>1. p.type \in Typed /\ p.id \in Nat
    BY <1>2 DEF Asks, Typed, TypeOK, Ids
  <2> QED
    BY <1>1, <2>1 DEF Numbered
<1>3. ASSUME NEW m \in srv_known, Asks(m) PROVE m.id \in 0 .. MaxMsgs
  BY <1>2, <1>3 DEF KnownInv, Content, Asks
<1> QED
  BY <1>2, <1>3 DEF Asked

\* Each request is answered once: it is the server's memory that bounds its ids.
AnsweredOnce == srv_next <= MaxSrvMsgs + Cardinality(Asked)

LEMMA RequestIsNew ==
    ASSUME TypeOK, Numbered, KnownInv, NEW p \in sent, Asks(p), Content(p) \notin srv_known
    PROVE  p.id \notin Asked
<1> SUFFICES ASSUME NEW m \in srv_known, m.id = p.id, Asks(m) PROVE FALSE
  BY DEF Asked
<1>1. PICK q \in sent : Content(q) = m
  BY DEF KnownInv
<1>2. q.id = p.id /\ Asks(q) /\ q.type = m.type
  BY <1>1 DEF Content, Asks
<1>3. q.type = p.type
  BY <1>2, NumberedUnique DEF IdsAreUnique, Asks
<1> QED
  BY <1>1, <1>2, <1>3 DEF Content

\* A step of the server sends one message of its own, with the next id, or none.
SendsOne ==
    \/ srv_next' = srv_next /\ \A d \in to_client' : d \in to_client \/ d.type = "CONFIRM"
    \/ /\ srv_next' = srv_next + 1
       /\ \E e : /\ e.id = srv_next
                 /\ \A d \in to_client' : d \in to_client \/ d.type = "CONFIRM" \/ d = e

LEMMA ServerCounts ==
    ASSUME NoWrap, ServerNoWrap, TypeOK, Numbered, KnownInv, ServerTypeOK, AnsweredOnce, ServerStep
    PROVE  AnsweredOnce' /\ SendsOne
<1>1. MaxMsgs \in Nat /\ MaxSrvMsgs \in Nat /\ IdSpace \in Nat /\ srv_next \in Nat
  BY ConstantsAssumption, SessionAssumption DEF ServerTypeOK
<1>2. Asked \subseteq 0 .. MaxMsgs
  BY AskedBounded
<1>3. IsFiniteSet(0 .. MaxMsgs) /\ Cardinality(0 .. MaxMsgs) = MaxMsgs + 1
  BY <1>1, FS_Interval
<1>4. IsFiniteSet(Asked) /\ Cardinality(Asked) \in Nat
  BY <1>2, <1>3, FS_Subset, FS_CardinalityType
<1>5. ASSUME NEW p \in sent, NEW verdict \in {"REPLY_OK", "REPLY_NOK"},
             ServerReceives(p, verdict)
      PROVE  AnsweredOnce' /\ SendsOne
  <2>1. /\ srv_known' = srv_known \cup {Content(p)} /\ Content(p) \notin srv_known
        /\ to_client' = to_client \cup Answer(p, verdict)
        /\ srv_next' = IF Asks(p) THEN srv_next + 1 ELSE srv_next
    BY <1>5 DEF ServerReceives
  <2>2. Asks(Content(p)) = Asks(p) /\ Content(p).id = p.id
    BY DEF Asks, Content
  <2>3. CASE Asks(p)
    <3>1. p.id \notin Asked
      BY <2>1, <2>3, RequestIsNew
    <3>2. Asked' = Asked \cup {p.id}
      BY <2>1, <2>2, <2>3 DEF Asked
    <3>3. IsFiniteSet(Asked') /\ Cardinality(Asked') = Cardinality(Asked) + 1
      BY <1>4, <3>1, <3>2, FS_AddElement
    <3>4. Asked' \subseteq 0 .. MaxMsgs
      BY <1>2, <2>3, <3>2, AskedBounded
    <3>5. Cardinality(Asked') <= MaxMsgs + 1
      BY <1>3, <3>4, FS_Subset
    <3>6. srv_next < IdSpace
      BY <1>1, <1>4, <3>3, <3>5 DEF AnsweredOnce, ServerNoWrap
    <3>7. SrvId = srv_next
      BY <1>1, <3>6, ModIsCounter DEF SrvId
    <3>8. SendsOne
      <4> DEFINE e == Datagram(verdict, SrvId, p.id, DynPort)
      <4>1. e.id = srv_next
        BY <3>7 DEF Datagram
      <4>2. \A d \in to_client' : d \in to_client \/ d.type = "CONFIRM" \/ d = e
        BY <2>1, <2>3 DEF Answer, Datagram
      <4> HIDE DEF e
      <4> QED
        BY <2>1, <2>3, <4>1, <4>2 DEF SendsOne
    <3> QED
      BY <1>1, <1>4, <2>1, <2>3, <3>3, <3>8 DEF AnsweredOnce
  <2>4. CASE ~Asks(p)
    <3>1. Asked' = Asked
      BY <2>1, <2>2, <2>4 DEF Asked
    <3>2. \A d \in to_client' : d \in to_client \/ d.type = "CONFIRM"
      BY <2>1, <2>4 DEF Answer, Datagram
    <3> QED
      BY <2>1, <2>4, <3>1, <3>2 DEF AnsweredOnce, SendsOne
  <2> QED
    BY <2>3, <2>4
<1>6. ASSUME NEW type \in {"MSG", "BYE", "ERR"}, ServerSpeaks(type)
      PROVE  AnsweredOnce' /\ SendsOne
  <2> DEFINE e == Datagram(type, SrvId, 0, DynPort)
  <2>1. /\ srv_next < MaxSrvMsgs /\ srv_next' = srv_next + 1 /\ UNCHANGED srv_known
        /\ to_client' = to_client \cup {e}
    BY <1>6 DEF ServerSpeaks
  <2>2. srv_next < IdSpace
    BY <1>1, <2>1 DEF ServerNoWrap
  <2>3. e.id = srv_next
    BY <1>1, <2>2, ModIsCounter DEF SrvId, Datagram
  <2> HIDE DEF e
  <2>4. Asked' = Asked
    BY <2>1 DEF Asked
  <2> QED
    BY <1>1, <1>4, <2>1, <2>3, <2>4 DEF AnsweredOnce, SendsOne
<1> QED
  BY <1>5, <1>6 DEF ServerStep

\* The messages of the server are told apart by their ids, and the client has
\* noted no other ids.
ServerNumbered ==
    /\ AnsweredOnce
    /\ \A d \in to_client : d.type # "CONFIRM" => d.id < srv_next
    /\ \A d, e \in to_client :
           d.type # "CONFIRM" /\ e.type # "CONFIRM" /\ d.id = e.id => d = e
    /\ \A i \in seen_ids : \E d \in to_client : d.type # "CONFIRM" /\ d.id = i

LEMMA NotesReal ==
    ASSUME NEW d \in ServerDatagrams, Receive(d)
    PROVE  \/ UNCHANGED seen_ids
           \/ /\ d.type # "CONFIRM" /\ seen_ids' = seen_ids \cup {d.id}
              /\ d.type = "MSG" => FsmChatMsg(d)
<1>1. Processed(d) = d.type /\ d \in Datagrams
  BY ServerDatagramType DEF Processed
<1>2. CASE FsmReply(d)
  BY <1>1, <1>2 DEF FsmReply, MarkSeen
<1>3. CASE FsmChatMsg(d)
  BY <1>1, <1>3 DEF FsmChatMsg, MarkSeen
<1> QED
  BY <1>1, <1>2, <1>3, ReceiveFrame DEF chat

LEMMA ServerNumberedStep ==
    ASSUME NoWrap, ServerNoWrap, SessionTypeInv, Numbered, KnownInv, ServerNumbered,
           [SessionNext]_sessionVars
    PROVE  ServerNumbered'
<1>0. TypeOK /\ ServerTypeOK
  BY DEF SessionTypeInv, TypeInv
<1>1. CASE ServerStep /\ UNCHANGED vars
  <2>1. AnsweredOnce' /\ SendsOne
    BY <1>0, <1>1, ServerCounts DEF ServerNumbered
  <2>2. UNCHANGED seen_ids /\ srv_next \in Nat /\ to_client \subseteq to_client'
    BY <1>0, <1>1, ServerGrows DEF vars, chat, ServerTypeOK
  <2>3. \A d \in to_client : d.id \in Nat
    BY <1>0, ServerDatagramType DEF ServerTypeOK, Ids
  <2>4. CASE srv_next' = srv_next /\ \A d \in to_client' : d \in to_client \/ d.type = "CONFIRM"
    BY <2>1, <2>2, <2>4 DEF ServerNumbered
  <2>5. ASSUME NEW e, e.id = srv_next, srv_next' = srv_next + 1,
               \A d \in to_client' : d \in to_client \/ d.type = "CONFIRM" \/ d = e
        PROVE  ServerNumbered'
    <3>1. \A d \in to_client' :
              d.type # "CONFIRM" => d = e \/ (d \in to_client /\ d.id < srv_next)
      BY <2>5 DEF ServerNumbered
    <3>2. \A d \in to_client' : d.type # "CONFIRM" => d.id < srv_next'
      BY <2>2, <2>3, <2>5, <3>1
    <3>3. \A d, f \in to_client' :
              d.type # "CONFIRM" /\ f.type # "CONFIRM" /\ d.id = f.id => d = f
      BY <2>2, <2>3, <2>5, <3>1 DEF ServerNumbered
    <3> QED
      BY <2>1, <2>2, <3>2, <3>3 DEF ServerNumbered
  <2> QED
    BY <2>1, <2>4, <2>5 DEF SendsOne
<1>2. ASSUME UNCHANGED server,
             \A i \in seen_ids' : i \in seen_ids
                 \/ \E d \in to_client : d.type # "CONFIRM" /\ d.id = i
      PROVE  ServerNumbered'
  <2>1. UNCHANGED AnsweredOnce
    BY <1>2 DEF server, AnsweredOnce, Asked
  <2> QED
    BY <1>2, <2>1 DEF ServerNumbered, server
<1>3. ASSUME NEW d \in to_client, Receive(d), UNCHANGED server PROVE ServerNumbered'
  BY <1>0, <1>2, <1>3, NotesReal DEF ServerTypeOK
<1>4. ASSUME NEW u \in Inputs, SubmitLine(u), UNCHANGED server PROVE ServerNumbered'
  BY <1>0, <1>2, <1>4, SubmitFrame
<1>5. CASE Otherwise
  BY <1>2, <1>5 DEF Otherwise, chat
<1> QED
  BY <1>0, <1>1, <1>3, <1>4, <1>5, SessionFrame

\* The copies the client drops are copies: what it disregards as seen, it has
\* printed, though REPLYs and chat messages are noted in one set of ids.
THEOREM OnlyPrintedIsDropped ==
    ASSUME NoWrap, ServerNoWrap
    PROVE  SessionSpec => []DroppedWasPrinted
<1>1. SessionInit => ServerNumbered /\ DroppedWasPrinted
  <2> SUFFICES ASSUME SessionInit PROVE AnsweredOnce
    BY DEF SessionInit, Init, ServerNumbered, DroppedWasPrinted
  <2>1. Asked = {} /\ Cardinality({}) = 0
    BY FS_EmptySet DEF SessionInit, Asked
  <2> QED
    BY <2>1, SessionAssumption DEF SessionInit, AnsweredOnce
<1>2. SessionTypeInv /\ Numbered /\ KnownInv /\ ServerNumbered /\ [SessionNext]_sessionVars
          => ServerNumbered'
  BY ServerNumberedStep
<1>3. SessionTypeInv /\ ServerNumbered /\ ServerNumbered' /\ DroppedWasPrinted
          /\ [SessionNext]_sessionVars => DroppedWasPrinted'
  <2> SUFFICES ASSUME SessionTypeInv, ServerNumbered, ServerNumbered', DroppedWasPrinted,
                      [SessionNext]_sessionVars,
                      NEW m \in to_client', m.type = "MSG", m.id \in seen_ids'
               PROVE  \E i \in DOMAIN shown' : shown'[i] = m.id
    BY DEF DroppedWasPrinted
  <2>0. TypeOK /\ ServerTypeOK /\ [Next]_vars
    BY StepOfClient DEF SessionTypeInv, TypeInv
  <2>1. \A i \in DOMAIN shown : i \in DOMAIN shown' /\ shown'[i] = shown[i]
    <3>1. shown \in Seq(Ids) /\ \A d \in Datagrams : d.id \in Ids
      BY <2>0, DatagramType DEF TypeOK
    <3>2. UNCHANGED shown \/ \E d \in Datagrams : shown' = Append(shown, d.id)
      BY <2>0, PrintFrame DEF Prints, PrintsNothing
    <3> QED
      BY <3>1, <3>2
  <2>2. ASSUME m.id \in seen_ids PROVE \E i \in DOMAIN shown' : shown'[i] = m.id
    <3>1. PICK d \in to_client : d.type # "CONFIRM" /\ d.id = m.id
      BY <2>2 DEF ServerNumbered
    <3>2. d \in to_client'
      BY <2>0, ServerGrows
    <3>3. m = d
      BY <3>1, <3>2 DEF ServerNumbered
    <3> QED
      BY <2>1, <2>2, <3>3 DEF DroppedWasPrinted
  <2>3. ASSUME NEW d \in to_client, Receive(d), UNCHANGED server, m.id \notin seen_ids
        PROVE  \E i \in DOMAIN shown' : shown'[i] = m.id
    <3>1. d.type # "CONFIRM" /\ d.id = m.id /\ (d.type = "MSG" => FsmChatMsg(d))
      BY <2>0, <2>3, NotesReal DEF ServerTypeOK
    <3>2. m = d
      BY <2>3, <3>1 DEF ServerNumbered, server
    <3>3. shown' = Append(shown, m.id) /\ shown \in Seq(Ids)
      BY <2>0, <3>1, <3>2 DEF FsmChatMsg, TypeOK
    <3> QED
      BY <3>3
  <2>4. ASSUME ServerStep /\ UNCHANGED vars PROVE UNCHANGED seen_ids
    BY <2>4 DEF vars, chat
  <2>5. ASSUME Otherwise PROVE UNCHANGED seen_ids
    BY <2>5 DEF Otherwise, chat
  <2> QED
    BY <2>0, <2>2, <2>3, <2>4, <2>5, SessionFrame, SubmitFrame
<1> QED
  BY <1>1, <1>2, <1>3, SessionTypeAlways, KnownAlways, NumberedAlways, SessionIsRunOfClient, PTL
  DEF SessionSpec

-----------------------------------------------------------------------------
(* The prompt. *)

\* The message at hand has been sent, and the REPLY it is no longer waiting for
\* has been read.
OutgoingSent == outgoing # NoMessage => \E p \in sent : Content(p) = outgoing

RepliedInv ==
    Asks(outgoing) /\ ~reply_msg_sent =>
        \E d \in to_client : /\ d.type \in {"REPLY_OK", "REPLY_NOK"}
                             /\ d.ref = outgoing.id /\ d.id \in seen_ids

LEMMA OutgoingSentStep == TypeOK /\ OutgoingSent /\ [Next]_vars => OutgoingSent'
<1> SUFFICES ASSUME TypeOK, OutgoingSent, [Next]_vars PROVE OutgoingSent'
  OBVIOUS
<1>1. ASSUME NEW u \in Inputs, SubmitLine(u) PROVE OutgoingSent'
  <2> DEFINE type == IF u.wire THEN u.type ELSE "EMPTY"
             id == msg_counter % IdSpace
             q == [type |-> type, id |-> id, dest |-> peer]
  <2>1. q \in sent' /\ outgoing' = [type |-> type, id |-> id]
    BY <1>1 DEF SubmitLine, Transmit, Packet
  <2>2. Content(q) = [type |-> type, id |-> id]
    BY DEF Content
  <2> HIDE DEF q, type, id
  <2>3. \E p \in sent' : Content(p) = outgoing'
    BY <2>1, <2>2
  <2> QED
    BY <2>3 DEF OutgoingSent
<1>2. ASSUME UNCHANGED outgoing PROVE OutgoingSent'
  BY <1>2, ClientGrows DEF OutgoingSent, NoMessage
<1> QED
  BY <1>1, <1>2, ReplyFrame

LEMMA OutgoingSentAlways == Spec => []OutgoingSent
<1>1. Init => OutgoingSent
  BY DEF Init, OutgoingSent
<1> QED
  BY <1>1, OutgoingSentStep, TypeCorrect, PTL DEF Spec

LEMMA RepliedStep ==
    SessionTypeInv /\ ReplyOutstanding /\ RepliedInv /\ [SessionNext]_sessionVars
        => RepliedInv'
<1> SUFFICES ASSUME SessionTypeInv, ReplyOutstanding, RepliedInv, [SessionNext]_sessionVars
             PROVE  RepliedInv'
  OBVIOUS
<1>0. TypeOK /\ ServerTypeOK
  BY DEF SessionTypeInv, TypeInv
<1>1. to_client \subseteq to_client'
  BY <1>0, ServerGrows
<1>2. ASSUME UNCHANGED <<outgoing, reply_msg_sent>>, seen_ids \subseteq seen_ids'
      PROVE  RepliedInv'
  BY <1>1, <1>2 DEF RepliedInv, Asks
<1>3. ASSUME NEW d \in to_client, Receive(d), UNCHANGED server PROVE RepliedInv'
  <2>1. d \in ServerDatagrams /\ d \in Datagrams /\ ~d.short
    BY <1>0, ServerDatagramType DEF ServerTypeOK
  <2>2. UNCHANGED outgoing
    BY <1>3, <2>1, ReceiveFrame
  <2>3. CASE FsmReply(d) /\ ReplyExpected(d)
    <3>1. d.ref = outgoing.id
      BY <2>3 DEF ReplyExpected, ReplyOutstanding, Front
    <3>2. d.type \in {"REPLY_OK", "REPLY_NOK"} /\ d.id \in seen_ids'
      BY <2>1, <2>3 DEF FsmReply, Processed, MarkSeen
    <3> QED
      BY <1>1, <2>2, <3>1, <3>2 DEF RepliedInv
  <2>4. CASE FsmReply(d) /\ ~ReplyExpected(d)
    BY <1>2, <2>2, <2>4 DEF FsmReply, MarkSeen
  <2>5. CASE FsmChatMsg(d)
    BY <1>2, <2>2, <2>5 DEF FsmChatMsg, MarkSeen
  <2>6. CASE UNCHANGED chat
    BY <1>2, <2>2, <2>6 DEF chat
  <2> QED
    BY <1>3, <2>1, <2>3, <2>4, <2>5, <2>6, ReceiveFrame
<1>4. ASSUME NEW u \in Inputs, SubmitLine(u) PROVE RepliedInv'
  BY <1>0, <1>4, SubmitFrame DEF RepliedInv, Asks
<1>5. UNCHANGED vars => UNCHANGED <<chat, outgoing>>
  BY DEF vars, waiting
<1>6. UNCHANGED <<chat, outgoing>> => RepliedInv'
  BY <1>2 DEF chat
<1> QED
  BY <1>0, <1>3, <1>4, <1>5, <1>6, SessionFrame DEF Otherwise

\* A message at the prompt has been confirmed under its id, and only the message
\* itself has that id.
LEMMA OutgoingKnown ==
    ASSUME TypeOK, KnownInv, StopAndWait, IdsAreUnique, OutgoingSent,
           pc = "Poll", ~recv_failed, outgoing # NoMessage
    PROVE  outgoing \in srv_known
<1>1. PICK m \in srv_known : m.id = outgoing.id
  BY DEF StopAndWait, KnownInv
<1>2. PICK p \in sent : Content(p) = m
  BY DEF KnownInv
<1>3. PICK q \in sent : Content(q) = outgoing
  BY DEF OutgoingSent
<1>4. p.type # "CONFIRM" /\ q.type # "CONFIRM" /\ p.id = q.id
  <2>1. m.type # "CONFIRM" /\ outgoing.type # "CONFIRM"
    BY DEF KnownInv, TypeOK, Typed
  <2> QED
    BY <1>1, <1>2, <1>3, <2>1 DEF Content
<1>5. m = outgoing
  BY <1>2, <1>3, <1>4 DEF IdsAreUnique, Content
<1> QED
  BY <1>5

\* The prompt is an answer: it comes back when the server has the message, and the
\* REPLY that was read is the one to this AUTH or JOIN, not to an earlier one.
THEOREM PromptIsAnswered ==
    ASSUME NoWrap
    PROVE  SessionSpec => []PromptMeansAnswered
<1>1. SessionInit => RepliedInv
  BY DEF SessionInit, Init, RepliedInv, NoMessage, Asks
<1>2. SessionTypeInv /\ KnownInv /\ StopAndWait /\ IdsAreUnique /\ OutgoingSent /\ RepliedInv
          => PromptMeansAnswered
  BY OutgoingKnown DEF PromptMeansAnswered, InputWatched, RepliedInv, SessionTypeInv, TypeInv
<1> QED
  BY <1>1, <1>2, RepliedStep, SessionTypeAlways, KnownAlways, SessionIsRunOfClient,
     ReplyAnswersLastMessage, PromptAfterConfirm, IdsUniqueAlways, OutgoingSentAlways, PTL
  DEF SessionSpec

-----------------------------------------------------------------------------
(* The reliable channel. *)

\* As long as every receive has gone well, at most the message at hand has not
\* arrived.
LinesKnown ==
    pc \in Active /\ ~recv_failed =>
        \A p \in sent : p.type \in Typed => Content(p) \in srv_known \/ Content(p) = outgoing

LogKnown == \A i \in DOMAIN srv_log : srv_log[i] \in srv_known

ChannelInv ==
    /\ SessionTypeInv /\ Numbered /\ KnownInv /\ StopAndWait /\ IdsAreUnique
    /\ OutgoingSent /\ LinesKnown /\ LogKnown

\* Only a receive error of handle_timeout is noted as one, and for good.
LEMMA FailFrame ==
    ASSUME [Next]_vars
    PROVE  UNCHANGED recv_failed \/ FailInConfirm
<1>1. ASSUME NEW u \in Inputs, SubmitLine(u) \/ RefuseLine(u) PROVE UNCHANGED recv_failed
  BY <1>1 DEF SubmitLine, RefuseLine
<1>2. ASSUME EndOfInput \/ Interrupt \/ Timeout \/ UNCHANGED vars PROVE UNCHANGED recv_failed
  BY <1>2 DEF EndOfInput, Interrupt, Timeout, Resend, GiveUp, TimeoutInBye, vars
<1>3. ASSUME Fail PROVE UNCHANGED recv_failed \/ FailInConfirm
  BY <1>3 DEF Fail, FailInPoll, FailInBye
<1>4. ASSUME NEW d \in Datagrams, Receive(d) PROVE UNCHANGED recv_failed
  BY <1>4 DEF Receive, RefuseInPoll, ReceiveInPoll, OutgoingConfirmed, ReceiveInConfirm,
              ReceiveInBye
<1> QED
  BY <1>1, <1>2, <1>3, <1>4 DEF Next, User

\* A line is submitted at the prompt, when nothing else is under way.
LEMMA LinesKnownStep ==
    ChannelInv /\ TypeOK' /\ [SessionNext]_sessionVars => LinesKnown'
<1> SUFFICES ASSUME ChannelInv, TypeOK', [SessionNext]_sessionVars, pc' \in Active, ~recv_failed',
                    NEW p \in sent', p.type \in Typed
             PROVE  Content(p) \in srv_known' \/ Content(p) = outgoing'
  BY DEF LinesKnown
<1>0. TypeOK /\ ServerTypeOK /\ [Next]_vars
  BY StepOfClient DEF ChannelInv, SessionTypeInv, TypeInv
<1>1. pc \in Active /\ ~recv_failed
  <2>1. pc \in Active
    BY <1>0, ActiveStaysActive
  <2>2. ~FailInConfirm
    BY DEF FailInConfirm
  <2>3. UNCHANGED recv_failed
    BY <1>0, <2>2, FailFrame
  <2> QED
    BY <2>1, <2>3
<1>2. p \in sent \/ Content(p) = outgoing'
  BY <1>0, TypedFrame
<1>3. p \in sent => Content(p) \in srv_known' \/ Content(p) = outgoing
  BY <1>0, <1>1, ServerGrows DEF ChannelInv, LinesKnown
<1>4. ASSUME NEW u \in Inputs, SubmitLine(u), Content(p) = outgoing
      PROVE  Content(p) \in srv_known'
  <2>1. pc = "Poll"
    BY <1>4 DEF SubmitLine, InputWatched
  <2>2. outgoing # NoMessage
    BY <1>4 DEF NoMessage, Content, Typed
  <2>3. outgoing \in srv_known
    BY <1>0, <1>1, <2>1, <2>2, OutgoingKnown DEF ChannelInv
  <2> QED
    BY <1>0, <1>4, <2>3, ServerGrows
<1> QED
  BY <1>0, <1>2, <1>3, <1>4, ReplyFrame

LEMMA LogStep == ServerTypeOK /\ LogKnown /\ [SessionNext]_sessionVars => LogKnown'
<1> SUFFICES ASSUME ServerTypeOK, LogKnown, [SessionNext]_sessionVars PROVE LogKnown'
  OBVIOUS
<1>1. ASSUME NEW p \in sent, NEW verdict \in {"REPLY_OK", "REPLY_NOK"},
             ServerReceives(p, verdict)
      PROVE  LogKnown'
  <2> DEFINE c == Content(p)
  <2>1. /\ srv_known' = srv_known \cup {c}
        /\ srv_log' = srv_log \/ srv_log' = Append(srv_log, c)
    BY <1>1 DEF ServerReceives
  <2>2. srv_log \in Seq([type : Typed, id : Ids])
    BY DEF ServerTypeOK
  <2> HIDE DEF c
  <2> QED
    BY <2>1, <2>2 DEF LogKnown
<1>2. ASSUME UNCHANGED <<srv_log, srv_known>> PROVE LogKnown'
  BY <1>2 DEF LogKnown
<1> QED
  BY <1>1, <1>2, SessionSteps DEF ServerStep, ServerSpeaks, ClientStep, server

\* What of the lines sent has not arrived, and how the client stands.
Pending == {m \in {Content(p) : p \in sent} : m.type \in Typed /\ m \notin srv_known}
Status == IF pc \in {"Bye", "Done"} THEN "closed" ELSE IF recv_failed THEN "failed" ELSE "open"

\* The first arrival of a line is its delivery; that of an ERR or a BYE is none.
LEMMA ServerDelivers ==
    ASSUME ChannelInv, ServerStep, UNCHANGED vars
    PROVE  [Channel!Next]_(Channel!vars)
<1>1. UNCHANGED <<sent, pc, recv_failed>>
  BY DEF vars
<1>2. ASSUME NEW p \in sent, NEW verdict \in {"REPLY_OK", "REPLY_NOK"},
             ServerReceives(p, verdict)
      PROVE  [Channel!Next]_(Channel!vars)
  <2>1. /\ srv_known' = srv_known \cup {Content(p)} /\ Content(p) \notin srv_known
        /\ srv_log' = IF p.type \in Typed THEN Append(srv_log, Content(p)) ELSE srv_log
    BY <1>2 DEF ServerReceives
  <2>2. Content(p).type = p.type
    BY DEF Content
  <2>3. Pending' = Pending \ {Content(p)}
    BY <1>1, <2>1 DEF Pending
  <2>4. CASE p.type \in Typed
    <3>1. Content(p) \in [type : Typed, id : Ids]
      BY <2>4 DEF Content, ChannelInv, SessionTypeInv, TypeInv, TypeOK
    <3>2. Content(p) \in Pending
      BY <2>1, <2>2, <2>4 DEF Pending
    <3>3. Channel!Deliver(Content(p))
      BY <1>1, <2>1, <2>3, <2>4, <3>2 DEF Channel!Deliver, Pending
    <3> QED
      BY <3>1, <3>3 DEF Channel!Next
  <2>5. CASE p.type \notin Typed
    <3>1. Pending' = Pending
      BY <2>2, <2>3, <2>5 DEF Pending
    <3> QED
      BY <1>1, <2>1, <2>5, <3>1 DEF Channel!vars, Pending
  <2> QED
    BY <2>4, <2>5
<1>3. ASSUME NEW type \in {"MSG", "BYE", "ERR"}, ServerSpeaks(type)
      PROVE  UNCHANGED Channel!vars
  BY <1>1, <1>3 DEF ServerSpeaks, Channel!vars
<1> QED
  BY <1>2, <1>3 DEF ServerStep

\* A line submitted has an id that was never used, and nothing is pending before it
\* unless a receive has failed.
LEMMA LineIsSubmitted ==
    ASSUME NoWrap, ChannelInv, NEW u \in Inputs, SubmitLine(u), UNCHANGED server
    PROVE  [Channel!Next]_(Channel!vars)
<1>0. TypeOK /\ Numbered /\ KnownInv
  BY DEF ChannelInv, SessionTypeInv, TypeInv
<1> DEFINE type == IF u.wire THEN u.type ELSE "EMPTY"
           id == msg_counter % IdSpace
           m == [type |-> type, id |-> id]
           q == [type |-> type, id |-> id, dest |-> peer]
<1>1. type \in Typed
  BY ConstantsAssumption DEF LineTypes, Typed
<1>2. /\ sent' = sent \cup {q} /\ outgoing' = m /\ UNCHANGED recv_failed
      /\ pc = "Poll" /\ pc' = "Confirm" /\ msg_counter < MaxMsgs
  BY DEF SubmitLine, Transmit, Packet, InputWatched
<1>3. id = msg_counter /\ id \in Ids
  <2>1. msg_counter \in Nat /\ MaxMsgs \in Nat /\ IdSpace \in Nat
    BY <1>0, ConstantsAssumption DEF TypeOK
  <2>2. msg_counter < IdSpace
    BY <1>2, <2>1 DEF NoWrap
  <2> QED
    BY <2>1, <2>2, ModIsCounter, ModIsId
<1>4. Content(q) = m /\ m.id = id /\ m.type = type
  BY DEF Content
<1>5. m \in [type : Typed, id : Ids]
  BY <1>1, <1>3
<1> HIDE DEF q, m, id, type
<1>6. \A p \in sent : Content(p) # m
  <2> SUFFICES ASSUME NEW p \in sent, Content(p) = m PROVE FALSE
    OBVIOUS
  <2>1. p.type = type /\ p.id = id
    BY <1>4 DEF Content
  <2>2. p.id < msg_counter
    BY <1>0, <1>1, <2>1 DEF Numbered
  <2> QED
    BY <1>0, <1>3, <2>1, <2>2 DEF TypeOK
<1>7. m \notin srv_known
  BY <1>0, <1>6 DEF KnownInv
<1>8. Pending' = Pending \cup {m}
  BY <1>1, <1>2, <1>4, <1>7 DEF Pending, server
<1>9. m \notin Pending
  BY <1>6 DEF Pending
<1>10. ~Channel!IsDelivered(m)
  BY <1>7 DEF Channel!IsDelivered, ChannelInv, LogKnown
<1>11. ~recv_failed => Pending = {}
  <2> SUFFICES ASSUME ~recv_failed, NEW p \in sent, p.type \in Typed, Content(p) \notin srv_known
               PROVE  FALSE
    BY DEF Pending, Content
  <2>1. Content(p) = outgoing
    BY <1>2 DEF ChannelInv, LinesKnown, Active
  <2>2. outgoing # NoMessage
    BY <2>1 DEF NoMessage, Content, Typed
  <2> QED
    BY <1>0, <1>2, <2>1, <2>2, OutgoingKnown DEF ChannelInv
<1>12. PICK c \in [type : Typed, id : Ids] : c = m
  BY <1>5
<1>13. Channel!Submit(c)
  BY <1>2, <1>8, <1>9, <1>10, <1>11, <1>12
  DEF Channel!Submit, Channel!IsDelivered, Pending, server
<1> QED
  BY <1>13 DEF Channel!Next

\* Resending adds no line; the client fails, leaves, or nothing happens to the channel.
LEMMA ClientKeepsLines ==
    ASSUME ChannelInv, TypeOK', [Next]_vars, UNCHANGED <<outgoing, server>>
    PROVE  [Channel!Next]_(Channel!vars)
<1>0. TypeOK /\ OutgoingSent /\ sent \subseteq sent'
  BY ClientGrows DEF ChannelInv, SessionTypeInv, TypeInv
<1>1. \A p \in sent' : p.type \in Typed => \E q \in sent : Content(p) = Content(q)
  <2> SUFFICES ASSUME NEW p \in sent', p.type \in Typed, p \notin sent
               PROVE  \E q \in sent : Content(p) = Content(q)
    OBVIOUS
  <2>1. Content(p) = outgoing
    BY <1>0, TypedFrame
  <2>2. outgoing # NoMessage
    BY <2>1 DEF NoMessage, Content, Typed
  <2> QED
    BY <1>0, <2>1, <2>2 DEF OutgoingSent
<1>2. Pending' = Pending
  <2>1. \A p \in sent' : Content(p).type = p.type
    BY DEF Content
  <2> QED
    BY <1>0, <1>1, <2>1 DEF Pending, server
<1>3. UNCHANGED srv_log
  BY DEF server
<1>4. \/ UNCHANGED Status
      \/ Status = "open" /\ Status' = "failed"
      \/ Status # "closed" /\ Status' = "closed"
  <2>1. pc \in {"Poll", "Confirm", "Bye", "Done"} /\ pc' \in {"Poll", "Confirm", "Bye", "Done"}
    BY <1>0 DEF TypeOK
  <2>2. recv_failed \in BOOLEAN /\ recv_failed' \in BOOLEAN
    BY <1>0 DEF TypeOK
  <2>3. pc' \in Active => pc \in Active
    BY ActiveStaysActive
  <2>4. recv_failed => recv_failed'
    BY FailFrame DEF FailInConfirm
  <2> QED
    BY <2>1, <2>2, <2>3, <2>4 DEF Status, Active
<1> QED
  BY <1>2, <1>3, <1>4
  DEF Pending, Status, Channel!vars, Channel!Next, Channel!Fail, Channel!Close

\* Retransmission over a network that loses, repeats and reorders makes a channel
\* that delivers each line at most once and in the order typed, and takes the next
\* line only when the last one has arrived.
THEOREM SessionIsChannel ==
    ASSUME NoWrap
    PROVE  SessionSpec => ChannelSpec
<1>1. SessionInit => LinesKnown /\ LogKnown /\ Channel!Init
  BY DEF SessionInit, Init, LinesKnown, LogKnown, Channel!Init
<1>2. ChannelInv /\ SessionTypeInv' /\ [SessionNext]_sessionVars => LinesKnown' /\ LogKnown'
  BY LinesKnownStep, LogStep DEF ChannelInv, SessionTypeInv, TypeInv
<1>3. ChannelInv /\ SessionTypeInv' /\ [SessionNext]_sessionVars => [Channel!Next]_(Channel!vars)
  <2> SUFFICES ASSUME ChannelInv, SessionTypeInv', [SessionNext]_sessionVars
               PROVE  [Channel!Next]_(Channel!vars)
    OBVIOUS
  <2>1. TypeOK /\ TypeOK' /\ ServerTypeOK /\ [Next]_vars
    BY StepOfClient DEF ChannelInv, SessionTypeInv, TypeInv
  <2>2. ASSUME NEW d \in to_client, Receive(d), UNCHANGED server PROVE UNCHANGED outgoing
    BY <2>1, <2>2, ReceiveFrame, ServerDatagramType DEF ServerTypeOK
  <2> QED
    BY <2>1, <2>2, SessionFrame, ServerDelivers, LineIsSubmitted, ClientKeepsLines DEF Otherwise
<1>4. SessionTypeInv /\ Numbered /\ KnownInv /\ StopAndWait /\ IdsAreUnique /\ OutgoingSent
          /\ LinesKnown /\ LogKnown <=> ChannelInv
  BY DEF ChannelInv
<1> QED
  BY <1>1, <1>2, <1>3, <1>4, SessionTypeAlways, KnownAlways, NumberedAlways, SessionIsRunOfClient,
     PromptAfterConfirm, IdsUniqueAlways, OutgoingSentAlways, PTL
  DEF SessionSpec, ChannelSpec, Channel!Spec
=============================================================================
