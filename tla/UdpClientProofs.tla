--------------------------- MODULE UdpClientProofs ---------------------------
(* Theorems about UdpClient, for every value of its constants. *)
EXTENDS UdpClient, TLAPS

\* Every datagram that arrives has an id and a reference of the id space.
LEMMA DatagramType ==
    ASSUME NEW d \in Datagrams
    PROVE  d.type \in InTypes /\ d.id \in Ids /\ d.ref \in Ids /\ d.port \in Ports
BY ConstantsAssumption

\* A counter taken modulo the number of ids is an id.
LEMMA ModIsId == ASSUME NEW n \in Nat PROVE n % IdSpace \in Ids
BY ConstantsAssumption DEF Ids

\* Leaving the program, with what it sends on the way out.
LEMMA ExitType ==
    ASSUME TypeOK, NEW why \in {"success", "failure", "timeouts"}, NEW bye \in BOOLEAN,
           NEW counter \in Nat,
           NEW packets \in SUBSET [type : OutTypes, id : Ids, dest : Ports],
           ExitProgram(bye, why, counter, packets)
    PROVE  /\ pc' \in {"Bye", "Done"}
           /\ ret' \in {"running", "success", "failure", "timeouts"}
           /\ retry_number' \in 0 .. MaxRetrans
           /\ sent' \subseteq [type : OutTypes, id : Ids, dest : Ports]
<1>1. counter % IdSpace \in Ids
  BY ModIsId
<1>2. Packet("BYE", counter % IdSpace, peer) \in [type : OutTypes, id : Ids, dest : Ports]
  BY <1>1 DEF TypeOK, Packet, OutTypes
<1>3. 0 \in 0 .. MaxRetrans
  BY ConstantsAssumption
<1> QED
  BY <1>2, <1>3 DEF ExitProgram, Transmit, TypeOK

\* send_error_exit: the same, with the ERR and the counter.
LEMMA ErrorExitType ==
    ASSUME TypeOK,
           NEW packets \in SUBSET [type : OutTypes, id : Ids, dest : Ports],
           SendErrorExit(packets)
    PROVE  /\ pc' \in {"Bye", "Done"}
           /\ ret' \in {"running", "success", "failure", "timeouts"}
           /\ retry_number' \in 0 .. MaxRetrans
           /\ sent' \subseteq [type : OutTypes, id : Ids, dest : Ports]
           /\ msg_counter' \in Nat /\ confirm_msg_sent' \in BOOLEAN
<1> DEFINE all == packets \cup {Packet("ERR", msg_counter % IdSpace, peer)}
<1>1. msg_counter \in Nat /\ msg_counter + 1 \in Nat /\ msg_counter % IdSpace \in Ids
  BY ModIsId DEF TypeOK
<1>2. all \in SUBSET [type : OutTypes, id : Ids, dest : Ports]
  BY <1>1 DEF TypeOK, Packet, OutTypes
<1>3. ExitProgram(TRUE, "failure", msg_counter + 1, all)
  BY DEF SendErrorExit
<1> HIDE DEF all
<1>4. /\ pc' \in {"Bye", "Done"}
      /\ ret' \in {"running", "success", "failure", "timeouts"}
      /\ retry_number' \in 0 .. MaxRetrans
      /\ sent' \subseteq [type : OutTypes, id : Ids, dest : Ports]
  BY <1>1, <1>2, <1>3, ExitType
<1> QED
  BY <1>1, <1>4 DEF SendErrorExit

\* A CONFIRM to a port is a packet.
LEMMA ConfirmType ==
    ASSUME NEW i \in Ids, NEW p \in Ports
    PROVE  {Confirm(i, p)} \in SUBSET [type : OutTypes, id : Ids, dest : Ports]
BY DEF Confirm, Packet, OutTypes

\* What fsm_logic_handler can change, in the types of TypeOK.
FsmTyped ==
    /\ pc' \in {pc, "Bye", "Done"}
    /\ client_state' \in {"START", "AUTH", "OPEN"}
    /\ reply_msg_sent' \in BOOLEAN /\ confirm_msg_sent' \in BOOLEAN
    /\ msg_counter' \in Nat
    /\ confirm_id_vector' \in Seq(Ids) /\ reply_id_vector' \in Seq(Ids)
    /\ seen_ids' \subseteq Ids
    /\ change_server_port' \in BOOLEAN /\ peer' \in Ports
    /\ outgoing' = outgoing
    /\ retry_number' \in 0 .. MaxRetrans
    /\ ret' \in {"running", "success", "failure", "timeouts"}
    /\ sent' \subseteq [type : OutTypes, id : Ids, dest : Ports]
    /\ shown' \in Seq(Ids)

\* The front of an id vector is an id only when there is one.
LEMMA FrontIsHead ==
    ASSUME NEW v \in Seq(Ids), NEW i \in Ids, Front(v) = i
    PROVE  v # <<>> /\ Head(v) = i /\ Tail(v) \in Seq(Ids)
<1>1. -1 \notin Ids
  BY ConstantsAssumption DEF Ids
<1>2. v # <<>>
  BY <1>1 DEF Front
<1> QED
  BY <1>2 DEF Front

\* fsm_logic_handler keeps the types, whatever arrives and from wherever.
LEMMA FsmType ==
    ASSUME TypeOK, NEW d \in Datagrams, server_port' \in Ports, FsmLogicHandler(d)
    PROVE  FsmTyped
<1>1. d.type \in InTypes /\ d.id \in Ids /\ d.ref \in Ids
  BY DatagramType
<1>2. {Confirm(d.id, peer)} \in SUBSET [type : OutTypes, id : Ids, dest : Ports]
  BY <1>1, ConfirmType DEF TypeOK
<1>3. CASE FsmIgnore(d)
  BY <1>3 DEF FsmIgnore, FsmTyped, TypeOK, chat, confirmation, address, waiting
<1>4. CASE FsmConfirm(d)
  <2>1. CASE Front(confirm_id_vector) = d.ref
    <3>1. Tail(confirm_id_vector) \in Seq(Ids)
      BY <1>1, <2>1, FrontIsHead DEF TypeOK
    <3> QED
      BY <1>4, <2>1, <3>1 DEF FsmConfirm, FsmTyped, TypeOK, chat, address, waiting
  <2>2. CASE Front(confirm_id_vector) # d.ref
    BY <1>4, <2>2 DEF FsmConfirm, FsmTyped, TypeOK, chat, confirmation, address, waiting
  <2> QED
    BY <2>1, <2>2
<1>5. CASE FsmReply(d)
  <2>1. seen_ids' \subseteq Ids
    BY <1>1, <1>5 DEF FsmReply, MarkSeen, TypeOK
  <2>2. change_server_port' \in BOOLEAN /\ peer' \in Ports
    BY <1>5 DEF FsmReply, TypeOK, address
  <2>3. /\ reply_msg_sent' \in BOOLEAN /\ reply_id_vector' \in Seq(Ids)
        /\ client_state' \in {"START", "AUTH", "OPEN"}
    <3>1. CASE ReplyExpected(d)
      <4>1. Tail(reply_id_vector) \in Seq(Ids)
        BY <1>1, <3>1, FrontIsHead DEF ReplyExpected, TypeOK
      <4> QED
        BY <1>5, <3>1, <4>1 DEF FsmReply, StateAfterReply, TypeOK
    <3>2. CASE ~ReplyExpected(d)
      BY <1>5, <3>2 DEF FsmReply, TypeOK
    <3> QED
      BY <3>1, <3>2
  <2>4. sent' \subseteq [type : OutTypes, id : Ids, dest : Ports]
    <3>1. {Confirm(d.id, peer')} \in SUBSET [type : OutTypes, id : Ids, dest : Ports]
      BY <1>1, <2>2, ConfirmType
    <3>2. sent' = sent \cup {Confirm(d.id, peer')}
      BY <1>5 DEF FsmReply, ConfirmReply, Transmit
    <3> QED
      BY <3>1, <3>2 DEF TypeOK
  <2>5. UNCHANGED <<pc, msg_counter, confirmation, waiting, ret, shown>>
    BY <1>5 DEF FsmReply
  <2> QED
    BY <2>1, <2>2, <2>3, <2>4, <2>5 DEF FsmTyped, TypeOK, confirmation, waiting
<1>6. CASE FsmChatMsg(d)
  <2>1. Append(shown, d.id) \in Seq(Ids)
    BY <1>1 DEF TypeOK
  <2>2. sent' = sent \cup {Confirm(d.id, peer)}
    BY <1>6 DEF FsmChatMsg, Transmit
  <2> QED
    BY <1>1, <1>2, <1>6, <2>1, <2>2
    DEF FsmChatMsg, MarkSeen, FsmTyped, TypeOK, confirmation, address, waiting
<1>7. CASE FsmEarlyMsg(d)
  <2>1. Append(shown, d.id) \in Seq(Ids)
    BY <1>1 DEF TypeOK
  <2>2. SendErrorExit({Confirm(d.id, peer)})
    BY <1>7 DEF FsmEarlyMsg
  <2>3. /\ shown' = Append(shown, d.id)
        /\ UNCHANGED <<chat, confirm_id_vector, address, outgoing>>
    BY <1>7 DEF FsmEarlyMsg
  <2> QED
    BY <1>2, <2>1, <2>2, <2>3, ErrorExitType DEF FsmTyped, TypeOK, chat, address
<1>8. CASE FsmServerErr(d)
  <2>1. ExitProgram(TRUE, "failure", msg_counter, {Confirm(d.id, peer)})
    BY <1>8 DEF FsmServerErr
  <2>2. UNCHANGED <<chat, msg_counter, confirmation, address, outgoing, shown>>
    BY <1>8 DEF FsmServerErr
  <2> QED
    BY <1>2, <2>1, <2>2, ExitType DEF FsmTyped, TypeOK, chat, confirmation, address
<1>9. CASE FsmServerBye(d)
  <2>1. ExitProgram(FALSE, "failure", msg_counter, {Confirm(d.id, peer)})
    BY <1>9 DEF FsmServerBye
  <2>2. UNCHANGED <<chat, msg_counter, confirmation, address, outgoing, shown>>
    BY <1>9 DEF FsmServerBye
  <2> QED
    BY <1>2, <2>1, <2>2, ExitType DEF FsmTyped, TypeOK, chat, confirmation, address
<1>10. CASE FsmInvalid(d)
  <2>1. {Confirm(msg_counter % IdSpace, peer)}
            \in SUBSET [type : OutTypes, id : Ids, dest : Ports]
    BY ModIsId, ConfirmType DEF TypeOK
  <2>2. SendErrorExit({Confirm(msg_counter % IdSpace, peer)})
    BY <1>10 DEF FsmInvalid
  <2>3. UNCHANGED <<chat, confirm_id_vector, address, outgoing, shown>>
    BY <1>10 DEF FsmInvalid
  <2> QED
    BY <2>1, <2>2, <2>3, ErrorExitType DEF FsmTyped, TypeOK, chat, address
<1> QED
  BY <1>3, <1>4, <1>5, <1>6, <1>7, <1>8, <1>9, <1>10 DEF FsmLogicHandler

-----------------------------------------------------------------------------
\* There is a message to send again whenever handle_timeout waits.
WaitsForMessage == pc = "Confirm" => outgoing.type \in Typed

TypeInv == TypeOK /\ WaitsForMessage

\* The initial state has the types.
LEMMA InitType == Init => TypeInv
<1> SUFFICES ASSUME Init PROVE TypeOK /\ WaitsForMessage
  BY DEF TypeInv
<1>1. 0 \in Ids /\ 0 \in 0 .. MaxRetrans
  BY ConstantsAssumption DEF Ids
<1>2. outgoing \in [type : Typed \cup {"NONE"}, id : Ids]
  BY <1>1 DEF Init, NoMessage
<1>3. server_port \in Ports /\ peer \in Ports
  BY ConstantsAssumption DEF Init
<1>4. confirm_id_vector \in Seq(Ids) /\ reply_id_vector \in Seq(Ids) /\ shown \in Seq(Ids)
  BY DEF Init
<1>5. /\ seen_ids \subseteq Ids /\ acks \subseteq Ids
      /\ sent \subseteq [type : OutTypes, id : Ids, dest : Ports]
  BY DEF Init
<1> QED
  BY <1>1, <1>2, <1>3, <1>4, <1>5 DEF Init, TypeOK, WaitsForMessage

\* One step per action.
LEMMA StepType == TypeInv /\ [Next]_vars => TypeInv'
<1> SUFFICES ASSUME TypeOK, WaitsForMessage, [Next]_vars PROVE TypeOK' /\ WaitsForMessage'
  BY DEF TypeInv
<1> DEFINE Packets == [type : OutTypes, id : Ids, dest : Ports]
<1>0. {} \in SUBSET Packets
  OBVIOUS
<1>1. ASSUME NEW u \in Inputs, SubmitLine(u) PROVE TypeOK' /\ WaitsForMessage'
  <2> DEFINE id == msg_counter % IdSpace
             type == IF u.wire THEN u.type ELSE "EMPTY"
  <2>0. msg_counter \in Nat /\ 0 \in 0 .. MaxRetrans
    BY ConstantsAssumption DEF TypeOK
  <2>1. id \in Ids /\ 0 \in 0 .. MaxRetrans /\ msg_counter + 1 \in Nat
    <3>1. id \in Ids
      BY <2>0, ModIsId
    <3> HIDE DEF id
    <3> QED
      BY <2>0, <3>1
  <2>2. u.type \in LineTypes /\ (u.type = "USER_CMD" => ~u.wire)
    BY <1>1, ConstantsAssumption
  <2>3. type \in Typed
    BY <2>2 DEF LineTypes, Typed
  <2>4. /\ outgoing' = [type |-> type, id |-> id]
        /\ confirm_id_vector' = Append(confirm_id_vector, id)
        /\ reply_id_vector' = IF NeedsReply(u) THEN Append(reply_id_vector, id)
                                               ELSE reply_id_vector
        /\ sent' = sent \cup {Packet(type, id, peer)}
        /\ reply_msg_sent' = NeedsReply(u)
    BY <1>1 DEF SubmitLine, Transmit
  <2>5. /\ confirm_msg_sent' = TRUE
        /\ client_state' = StateAfterSubmit
        /\ msg_counter' = msg_counter + 1
        /\ pc' = "Confirm" /\ retry_number' = 0
        /\ UNCHANGED <<seen_ids, address, server_port, in_handler, ret, acks, shown,
                       recv_failed>>
    BY <1>1 DEF SubmitLine
  <2> HIDE DEF id, type
  <2>6. sent' \subseteq Packets
    BY <2>1, <2>3, <2>4 DEF Packet, TypeOK, OutTypes
  <2>7. confirm_id_vector' \in Seq(Ids) /\ reply_id_vector' \in Seq(Ids)
    BY <2>1, <2>4 DEF TypeOK
  <2>8. reply_msg_sent' \in BOOLEAN
    BY <2>4 DEF NeedsReply
  <2> QED
    BY <2>1, <2>3, <2>4, <2>5, <2>6, <2>7, <2>8 DEF StateAfterSubmit, TypeOK, WaitsForMessage, address
<1>2. ASSUME NEW u \in Inputs, RefuseLine(u) PROVE TypeOK' /\ WaitsForMessage'
  BY <1>2 DEF RefuseLine, TypeOK, WaitsForMessage, chat, confirmation, address, waiting
<1>3. CASE EndOfInput
  <2>1. ExitProgram(TRUE, "failure", msg_counter, {})
    BY <1>3 DEF EndOfInput
  <2>2. UNCHANGED <<chat, msg_counter, confirmation, address, server_port,
                    outgoing, in_handler, acks, shown, recv_failed>>
    BY <1>3 DEF EndOfInput
  <2>3. msg_counter \in Nat
    BY DEF TypeOK
  <2> QED
    BY <1>0, <2>1, <2>2, <2>3, ExitType DEF TypeOK, WaitsForMessage, chat, confirmation, address
<1>4. ASSUME NEW d \in Datagrams, Receive(d) PROVE TypeOK' /\ WaitsForMessage'
  <2>1. d.type \in InTypes /\ d.id \in Ids /\ d.ref \in Ids /\ d.port \in Ports
    BY DatagramType
  <2>2. ASSUME NoteAck(d) PROVE acks' \subseteq Ids
    BY <2>1, <2>2 DEF NoteAck, TypeOK
  <2>3. CASE RefuseInPoll(d)
    <3>1. /\ server_port' = d.port /\ NoteAck(d)
          /\ UNCHANGED <<chat, confirm_id_vector, address, outgoing, in_handler, shown,
                         recv_failed>>
      BY <2>3 DEF RefuseInPoll
    <3>2. CASE PollServerErr(d)
      <4>1. {Confirm(d.id, peer)} \in SUBSET Packets /\ msg_counter \in Nat
        BY <2>1, ConfirmType DEF TypeOK
      <4>2. ExitProgram(TRUE, "failure", msg_counter, {Confirm(d.id, peer)})
        BY <3>2 DEF PollServerErr
      <4>3. UNCHANGED <<msg_counter, confirm_msg_sent>>
        BY <3>2 DEF PollServerErr
      <4> QED
        BY <2>1, <2>2, <3>1, <4>1, <4>2, <4>3, ExitType DEF TypeOK, WaitsForMessage, chat, address
    <3>3. CASE PollUnexpected(d)
      <4>1. PICK i \in Ids : SendErrorExit({Confirm(i, peer)})
        BY <2>1, <3>3, ModIsId DEF PollUnexpected, TypeOK
      <4>2. {Confirm(i, peer)} \in SUBSET Packets
        BY <4>1, ConfirmType DEF TypeOK
      <4> QED
        BY <2>1, <2>2, <3>1, <4>1, <4>2, ErrorExitType DEF TypeOK, WaitsForMessage, chat, address
    <3> QED
      BY <2>3, <3>2, <3>3 DEF RefuseInPoll
  <2>4. CASE ReceiveInPoll(d)
    <3>1. /\ server_port' = d.port /\ NoteAck(d) /\ FsmLogicHandler(d)
          /\ UNCHANGED <<in_handler, recv_failed>>
      BY <2>4 DEF ReceiveInPoll
    <3>2. FsmTyped
      BY <2>1, <3>1, FsmType
    <3> QED
      BY <2>1, <2>2, <3>1, <3>2 DEF FsmTyped, TypeOK, WaitsForMessage
  <2>5. CASE OutgoingConfirmed(d)
    BY <2>2, <2>5 DEF OutgoingConfirmed, TypeOK, WaitsForMessage, chat, address, waiting
  <2>6. CASE ReceiveInConfirm(d)
    <3>1. /\ NoteAck(d) /\ FsmLogicHandler(d)
          /\ UNCHANGED <<server_port, in_handler, recv_failed>>
      BY <2>6 DEF ReceiveInConfirm
    <3>2. FsmTyped
      BY <3>1, FsmType DEF TypeOK
    <3> QED
      BY <2>2, <3>1, <3>2 DEF FsmTyped, TypeOK, WaitsForMessage
  <2>7. CASE ReceiveInBye(d)
    BY <2>2, <2>7 DEF ReceiveInBye, TypeOK, WaitsForMessage, chat, confirmation, address, waiting
  <2> QED
    BY <1>4, <2>3, <2>4, <2>5, <2>6, <2>7 DEF Receive
<1>5. CASE Resend
  <2>1. outgoing.id \in Ids /\ outgoing.type \in OutTypes
    BY <1>5 DEF TypeOK, WaitsForMessage, OutTypes, Resend
  <2>2. retry_number' \in 0 .. MaxRetrans
    BY <1>5, ConstantsAssumption DEF Resend, TypeOK
  <2> QED
    BY <1>5, <2>1, <2>2 DEF Resend, Transmit, Packet, TypeOK, WaitsForMessage, chat, confirmation, address
<1>6. CASE GiveUp
  <2>1. ExitProgram(TRUE, "timeouts", msg_counter, {})
    BY <1>6 DEF GiveUp
  <2>2. UNCHANGED <<chat, msg_counter, confirmation, address, server_port,
                    outgoing, in_handler, acks, shown, recv_failed>>
    BY <1>6 DEF GiveUp
  <2>3. msg_counter \in Nat
    BY DEF TypeOK
  <2> QED
    BY <1>0, <2>1, <2>2, <2>3, ExitType DEF TypeOK, WaitsForMessage, chat, confirmation, address
<1>7. CASE TimeoutInBye
  <2>1. retry_number' \in 0 .. MaxRetrans
    BY <1>7, ConstantsAssumption DEF TimeoutInBye, TypeOK
  <2> QED
    BY <1>7, <2>1 DEF TimeoutInBye, TypeOK, WaitsForMessage, chat, confirmation, address
<1>8. CASE FailInPoll
  <2>1. ExitProgram(FALSE, "failure", msg_counter, {})
    BY <1>8 DEF FailInPoll
  <2>2. UNCHANGED <<chat, msg_counter, confirmation, address, server_port,
                    outgoing, in_handler, acks, shown, recv_failed>>
    BY <1>8 DEF FailInPoll
  <2>3. msg_counter \in Nat
    BY DEF TypeOK
  <2> QED
    BY <1>0, <2>1, <2>2, <2>3, ExitType DEF TypeOK, WaitsForMessage, chat, confirmation, address
<1>9. CASE FailInConfirm
  BY <1>9 DEF FailInConfirm, TypeOK, WaitsForMessage, chat, confirmation, address, waiting
<1>10. CASE FailInBye
  BY <1>10 DEF FailInBye, TypeOK, WaitsForMessage, chat, confirmation, address, waiting
<1>11. CASE Interrupt
  <2>1. ExitProgram(client_state # "START", "success", msg_counter, {})
    BY <1>11 DEF Interrupt
  <2>2. UNCHANGED <<chat, msg_counter, confirmation, address, server_port, outgoing,
                    acks, shown, recv_failed>>
    BY <1>11 DEF Interrupt
  <2>3. msg_counter \in Nat /\ (client_state # "START") \in BOOLEAN /\ in_handler'
    BY <1>11 DEF TypeOK, Interrupt
  <2> QED
    BY <1>0, <2>1, <2>2, <2>3, ExitType DEF TypeOK, WaitsForMessage, chat, confirmation, address
<1>12. CASE UNCHANGED vars
  BY <1>12 DEF vars, TypeOK, WaitsForMessage, chat, confirmation, address, waiting
<1> QED
  BY <1>1, <1>2, <1>3, <1>4, <1>5, <1>6, <1>7, <1>8, <1>9, <1>10, <1>11, <1>12
  DEF Next, Timeout, Fail, User

\* There is always a message at hand to wait for.
LEMMA TypeInvAlways == Spec => []TypeInv
BY InitType, StepType, PTL DEF Spec

\* Every variable of the client keeps its type.
THEOREM TypeCorrect == Spec => []TypeOK
<1>1. TypeInv => TypeOK
  BY DEF TypeInv
<1> QED
  BY <1>1, TypeInvAlways, PTL
=============================================================================
