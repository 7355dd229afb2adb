--------------------------- MODULE UdpClientSafety ---------------------------
(***************************************************************************)
(* The safety properties of UdpClient, for every value of its constants,   *)
(* whatever the server and the network do.  Each theorem has an invariant  *)
(* and a frame lemma: which actions touch the variables it speaks of.      *)
(***************************************************************************)
EXTENDS UdpClientProofs

-----------------------------------------------------------------------------
(* The REPLY that is awaited. *)

\* Only a submitted line and a processed REPLY touch what ReplyOutstanding
\* speaks of.
LEMMA ReplyFrame ==
    ASSUME [Next]_vars
    PROVE  \/ \E u \in Inputs : SubmitLine(u)
           \/ \E d \in Datagrams : FsmReply(d) /\ UNCHANGED outgoing
           \/ UNCHANGED <<reply_msg_sent, reply_id_vector, outgoing>>
<1> DEFINE Same == UNCHANGED <<reply_msg_sent, reply_id_vector, outgoing>>
<1>1. ASSUME NEW u \in Inputs, RefuseLine(u) PROVE Same
  BY <1>1 DEF RefuseLine, chat, waiting
<1>2. ASSUME EndOfInput \/ Interrupt PROVE Same
  BY <1>2 DEF EndOfInput, Interrupt, chat
<1>3. ASSUME Timeout PROVE Same
  BY <1>3 DEF Timeout, Resend, GiveUp, TimeoutInBye, chat
<1>4. ASSUME Fail PROVE Same
  BY <1>4 DEF Fail, FailInPoll, FailInConfirm, FailInBye, chat, waiting
<1>5. ASSUME NEW d \in Datagrams, FsmLogicHandler(d)
      PROVE  (FsmReply(d) /\ UNCHANGED outgoing) \/ Same
  <2>1. ASSUME FsmReply(d) PROVE UNCHANGED outgoing
    BY <2>1 DEF FsmReply, waiting
  <2>2. ASSUME FsmIgnore(d) PROVE Same
    BY <2>2 DEF FsmIgnore, chat, waiting
  <2>3. ASSUME FsmConfirm(d) \/ FsmChatMsg(d) PROVE Same
    BY <2>3 DEF FsmConfirm, FsmChatMsg, chat, waiting
  <2>4. ASSUME FsmEarlyMsg(d) \/ FsmInvalid(d) PROVE Same
    BY <2>4 DEF FsmEarlyMsg, FsmInvalid, chat
  <2>5. ASSUME FsmServerErr(d) \/ FsmServerBye(d) PROVE Same
    BY <2>5 DEF FsmServerErr, FsmServerBye, chat
  <2> QED
    BY <1>5, <2>1, <2>2, <2>3, <2>4, <2>5 DEF FsmLogicHandler
<1>6. ASSUME NEW d \in Datagrams, Receive(d)
      PROVE  (FsmReply(d) /\ UNCHANGED outgoing) \/ Same
  <2>1. ASSUME RefuseInPoll(d) PROVE Same
    BY <2>1 DEF RefuseInPoll, chat
  <2>2. ASSUME OutgoingConfirmed(d) \/ ReceiveInBye(d) PROVE Same
    BY <2>2 DEF OutgoingConfirmed, ReceiveInBye, chat, waiting
  <2>3. ASSUME ReceiveInPoll(d) \/ ReceiveInConfirm(d) PROVE FsmLogicHandler(d)
    BY <2>3 DEF ReceiveInPoll, ReceiveInConfirm
  <2> QED
    BY <1>5, <1>6, <2>1, <2>2, <2>3 DEF Receive
<1>7. ASSUME UNCHANGED vars PROVE Same
  BY <1>7 DEF vars, chat, waiting
<1> HIDE DEF Same
<1>8. (\E u \in Inputs : SubmitLine(u))
      \/ (\E d \in Datagrams : FsmReply(d) /\ UNCHANGED outgoing) \/ Same
  BY <1>1, <1>2, <1>3, <1>4, <1>6, <1>7 DEF Next, User
<1> QED
  BY <1>8 DEF Same

\* reply_id_vector holds exactly the id the client waits a REPLY for: so a REPLY
\* to anything but the last AUTH or JOIN cannot clear reply_msg_sent, and the
\* erase of its front never meets an empty vector.
THEOREM ReplyAnswersLastMessage == Spec => []ReplyOutstanding
<1>1. Init => ReplyOutstanding
  BY DEF Init, ReplyOutstanding
<1>2. ReplyOutstanding /\ [Next]_vars => ReplyOutstanding'
  <2> SUFFICES ASSUME ReplyOutstanding, [Next]_vars PROVE ReplyOutstanding'
    OBVIOUS
  <2>1. ASSUME NEW u \in Inputs, SubmitLine(u) PROVE ReplyOutstanding'
    <3> DEFINE id == msg_counter % IdSpace
    <3>1. ~reply_msg_sent
      BY <2>1 DEF SubmitLine, InputWatched
    <3>2. reply_id_vector = <<>>
      BY <3>1 DEF ReplyOutstanding
    <3>3. /\ outgoing'.id = id /\ reply_msg_sent' = NeedsReply(u)
          /\ reply_id_vector' = IF NeedsReply(u) THEN Append(reply_id_vector, id)
                                                 ELSE reply_id_vector
      BY <2>1 DEF SubmitLine
    <3> HIDE DEF id
    <3>4. Append(<<>>, id) = <<id>>
      OBVIOUS
    <3> QED
      BY <3>2, <3>3, <3>4 DEF ReplyOutstanding
  <2>2. ASSUME NEW d \in Datagrams, FsmReply(d), UNCHANGED outgoing
        PROVE  ReplyOutstanding'
    <3>1. CASE ReplyExpected(d)
      <4>1. reply_id_vector = <<outgoing.id>>
        BY <3>1 DEF ReplyExpected, ReplyOutstanding
      <4>2. Tail(<<outgoing.id>>) = <<>>
        OBVIOUS
      <4>3. reply_msg_sent' = FALSE /\ reply_id_vector' = Tail(reply_id_vector)
        BY <2>2, <3>1 DEF FsmReply
      <4> QED
        BY <4>1, <4>2, <4>3 DEF ReplyOutstanding
    <3>2. CASE ~ReplyExpected(d)
      BY <2>2, <3>2 DEF FsmReply, ReplyOutstanding
    <3> QED
      BY <3>1, <3>2
  <2>3. CASE UNCHANGED <<reply_msg_sent, reply_id_vector, outgoing>>
    BY <2>3 DEF ReplyOutstanding
  <2> QED
    BY <2>1, <2>2, <2>3, ReplyFrame
<1> QED
  BY <1>1, <1>2, PTL DEF Spec

-----------------------------------------------------------------------------
(* Stop and wait. *)

\* exit_program never comes back to one of the two other waits.
LEMMA ExitLeaves ==
    ASSUME NEW bye, NEW why, NEW counter, NEW packets,
           ExitProgram(bye, why, counter, packets) \/ SendErrorExit(packets)
    PROVE  pc' \in {"Bye", "Done"}
BY DEF ExitProgram, SendErrorExit

\* fsm_logic_handler stays in the wait it was called from or leaves the program;
\* if it stays, it can only clear confirm_msg_sent.
LEMMA FsmStays ==
    ASSUME NEW d \in Datagrams, FsmLogicHandler(d)
    PROVE  \/ pc' \in {"Bye", "Done"}
           \/ /\ UNCHANGED <<pc, outgoing>>
              /\ (confirm_msg_sent' => confirm_msg_sent)
<1>1. CASE FsmIgnore(d) \/ FsmConfirm(d)
  BY <1>1 DEF FsmIgnore, FsmConfirm, confirmation, waiting
<1>2. CASE FsmReply(d) \/ FsmChatMsg(d)
  BY <1>2 DEF FsmReply, FsmChatMsg, confirmation, waiting
<1>3. CASE FsmEarlyMsg(d) \/ FsmInvalid(d)
  BY <1>3, ExitLeaves DEF FsmEarlyMsg, FsmInvalid
<1>4. CASE FsmServerErr(d) \/ FsmServerBye(d)
  BY <1>4, ExitLeaves DEF FsmServerErr, FsmServerBye
<1> QED
  BY <1>1, <1>2, <1>3, <1>4 DEF FsmLogicHandler

\* How the main loop's poll is reached.
LEMMA PollFrame ==
    ASSUME [Next]_vars, pc' = "Poll"
    PROVE  \/ \E d \in Datagrams : OutgoingConfirmed(d)
           \/ FailInConfirm
           \/ /\ UNCHANGED <<pc, outgoing, recv_failed>>
              /\ acks \subseteq acks'
              /\ (confirm_msg_sent' => confirm_msg_sent)
<1> DEFINE Stays == /\ UNCHANGED <<pc, outgoing, recv_failed>>
                    /\ acks \subseteq acks'
                    /\ (confirm_msg_sent' => confirm_msg_sent)
<1>1. ASSUME NEW u \in Inputs, SubmitLine(u) \/ RefuseLine(u) PROVE Stays
  BY <1>1 DEF SubmitLine, RefuseLine, confirmation, waiting
<1>2. ~EndOfInput /\ ~Interrupt
  BY ExitLeaves DEF EndOfInput, Interrupt
<1>3. ASSUME Timeout PROVE Stays
  BY <1>3, ExitLeaves DEF Timeout, Resend, GiveUp, TimeoutInBye, confirmation
<1>4. ASSUME Fail PROVE FailInConfirm
  BY <1>4, ExitLeaves DEF Fail, FailInPoll, FailInBye
<1>5. ASSUME NEW d \in Datagrams, Receive(d) PROVE OutgoingConfirmed(d) \/ Stays
  <2>1. ~RefuseInPoll(d)
    BY ExitLeaves DEF RefuseInPoll, PollServerErr, PollUnexpected
  <2>2. ASSUME ReceiveInBye(d) PROVE FALSE
    BY <2>2 DEF ReceiveInBye
  <2>3. ASSUME ReceiveInPoll(d) \/ ReceiveInConfirm(d) PROVE Stays
    <3>1. FsmLogicHandler(d) /\ NoteAck(d) /\ UNCHANGED recv_failed
      BY <2>3 DEF ReceiveInPoll, ReceiveInConfirm
    <3>2. acks \subseteq acks'
      BY <3>1 DEF NoteAck
    <3> QED
      BY <3>1, <3>2, FsmStays
  <2> QED
    BY <1>5, <2>1, <2>2, <2>3 DEF Receive
<1>6. ASSUME UNCHANGED vars PROVE Stays
  BY <1>6 DEF vars, confirmation, waiting
<1> HIDE DEF Stays
<1>7. (\E d \in Datagrams : OutgoingConfirmed(d)) \/ FailInConfirm \/ Stays
  BY <1>1, <1>2, <1>3, <1>4, <1>5, <1>6 DEF Next, User
<1> QED
  BY <1>7 DEF Stays

\* Unless a receive failed, the client is back at its prompt only after it has
\* read the CONFIRM of the last message, so messages never overtake one another.
THEOREM PromptAfterConfirm == Spec => []StopAndWait
<1>1. Init => StopAndWait
  BY DEF Init, StopAndWait
<1>2. StopAndWait /\ [Next]_vars => StopAndWait'
  <2> SUFFICES ASSUME StopAndWait, [Next]_vars, pc' = "Poll", ~recv_failed',
                      outgoing' # NoMessage
               PROVE  ~confirm_msg_sent' /\ outgoing'.id \in acks'
    BY DEF StopAndWait, NoMessage
  <2>1. ASSUME NEW d \in Datagrams, OutgoingConfirmed(d)
        PROVE  ~confirm_msg_sent' /\ outgoing'.id \in acks'
    BY <2>1 DEF OutgoingConfirmed, ConfirmsOutgoing, NoteAck, waiting
  <2>2. ~FailInConfirm
    BY DEF FailInConfirm
  <2>3. CASE /\ UNCHANGED <<pc, outgoing, recv_failed>>
             /\ acks \subseteq acks'
             /\ (confirm_msg_sent' => confirm_msg_sent)
    BY <2>3 DEF StopAndWait
  <2> QED
    BY <2>1, <2>2, <2>3, PollFrame
<1> QED
  BY <1>1, <1>2, PTL DEF Spec

-----------------------------------------------------------------------------
(* Printing and confirming chat messages. *)

Active == {"Poll", "Confirm"}

\* Nothing but the submission and the two receptions keeps the client active.
LEMMA ActiveStaysActive ==
    ASSUME [Next]_vars, pc' \in Active
    PROVE  pc \in Active
<1>1. ASSUME NEW u \in Inputs, SubmitLine(u) \/ RefuseLine(u) PROVE pc \in Active
  BY <1>1 DEF SubmitLine, RefuseLine, InputWatched, Active
<1>2. ~EndOfInput /\ ~Interrupt
  BY ExitLeaves DEF EndOfInput, Interrupt, Active
<1>3. ASSUME Timeout PROVE pc \in Active
  BY <1>3, ExitLeaves DEF Timeout, Resend, GiveUp, TimeoutInBye, Active
<1>4. ASSUME Fail PROVE pc \in Active
  BY <1>4, ExitLeaves DEF Fail, FailInPoll, FailInConfirm, FailInBye, Active
<1>5. ASSUME NEW d \in Datagrams, Receive(d) PROVE pc \in Active
  <2>1. ~ReceiveInBye(d)
    BY DEF ReceiveInBye, Active
  <2> QED
    BY <1>5, <2>1
    DEF Receive, RefuseInPoll, ReceiveInPoll, OutgoingConfirmed, ReceiveInConfirm, Active
<1> QED
  BY <1>1, <1>2, <1>3, <1>4, <1>5 DEF Next, User, vars

\* What one datagram does to the messages printed and the ids noted.
Prints(d) ==
    /\ d.type = "MSG" /\ ~Skip(d)
    /\ shown' = Append(shown, d.id)
    /\ MarkSeen(d) \/ (UNCHANGED seen_ids /\ pc' \notin Active)

PrintsNothing == UNCHANGED shown /\ seen_ids \subseteq seen_ids'

\* Only a datagram that turns out to be a chat message is one to begin with.
LEMMA ProcessedMsg ==
    ASSUME NEW d \in Datagrams, Processed(d) = "MSG"
    PROVE  d.type = "MSG"
BY DEF Processed

\* fsm_logic_handler prints a chat message whose id is new, or nothing.
LEMMA FsmPrints ==
    ASSUME NEW d \in Datagrams, FsmLogicHandler(d)
    PROVE  Prints(d) \/ PrintsNothing
<1>1. CASE FsmIgnore(d)
  BY <1>1 DEF FsmIgnore, PrintsNothing, chat
<1>2. CASE ~Skip(d) /\ FsmConfirm(d)
  BY <1>2 DEF FsmConfirm, PrintsNothing, chat
<1>3. CASE ~Skip(d) /\ FsmReply(d)
  BY <1>3 DEF FsmReply, MarkSeen, PrintsNothing
<1>4. CASE ~Skip(d) /\ FsmChatMsg(d)
  BY <1>4, ProcessedMsg DEF FsmChatMsg, Prints
<1>5. CASE ~Skip(d) /\ FsmEarlyMsg(d)
  <2>1. pc' \notin Active
    BY <1>5, ExitLeaves DEF FsmEarlyMsg, Active
  <2> QED
    BY <1>5, <2>1, ProcessedMsg DEF FsmEarlyMsg, Prints, chat
<1>6. CASE FsmServerErr(d) \/ FsmServerBye(d) \/ FsmInvalid(d)
  BY <1>6 DEF FsmServerErr, FsmServerBye, FsmInvalid, PrintsNothing, chat
<1> QED
  BY <1>1, <1>2, <1>3, <1>4, <1>5, <1>6 DEF FsmLogicHandler

\* A step prints the message of one datagram, while the client is active, or nothing.
LEMMA PrintFrame ==
    ASSUME [Next]_vars
    PROVE  (\E d \in Datagrams : Prints(d) /\ pc \in Active) \/ PrintsNothing
<1>1. ASSUME NEW u \in Inputs, SubmitLine(u) \/ RefuseLine(u) PROVE PrintsNothing
  BY <1>1 DEF SubmitLine, RefuseLine, PrintsNothing, chat
<1>2. ASSUME EndOfInput \/ Interrupt PROVE PrintsNothing
  BY <1>2 DEF EndOfInput, Interrupt, PrintsNothing, chat
<1>3. ASSUME Timeout PROVE PrintsNothing
  BY <1>3 DEF Timeout, Resend, GiveUp, TimeoutInBye, PrintsNothing, chat
<1>4. ASSUME Fail PROVE PrintsNothing
  BY <1>4 DEF Fail, FailInPoll, FailInConfirm, FailInBye, PrintsNothing, chat
<1>5. ASSUME NEW d \in Datagrams, Receive(d)
      PROVE  (Prints(d) /\ pc \in Active) \/ PrintsNothing
  <2>1. ASSUME RefuseInPoll(d) PROVE PrintsNothing
    BY <2>1 DEF RefuseInPoll, PrintsNothing, chat
  <2>2. ASSUME OutgoingConfirmed(d) \/ ReceiveInBye(d) PROVE PrintsNothing
    BY <2>2 DEF OutgoingConfirmed, ReceiveInBye, PrintsNothing, chat
  <2>3. ASSUME ReceiveInPoll(d) \/ ReceiveInConfirm(d)
        PROVE  FsmLogicHandler(d) /\ pc \in Active
    BY <2>3 DEF ReceiveInPoll, ReceiveInConfirm, Active
  <2> QED
    BY <1>5, <2>1, <2>2, <2>3, FsmPrints DEF Receive
<1>6. ASSUME UNCHANGED vars PROVE PrintsNothing
  BY <1>6 DEF vars, PrintsNothing, chat
<1> QED
  BY <1>1, <1>2, <1>3, <1>4, <1>5, <1>6 DEF Next, User

\* The strengthening: while the client is active, what it has printed it has
\* noted.  (A message printed on the way out is not noted, but none follows.)
ShownAreSeen == pc \in Active => \A i \in DOMAIN shown : shown[i] \in seen_ids

\* However often a chat message arrives, and in whichever of the two waits, it
\* is printed once.
THEOREM PrintedOnce == Spec => []ShownOnce
<1> DEFINE Inv == ShownOnce /\ ShownAreSeen
<1>1. Init => Inv
  BY DEF Init, ShownOnce, ShownAreSeen
<1>2. TypeOK /\ Inv /\ [Next]_vars => Inv'
  <2> SUFFICES ASSUME TypeOK, ShownOnce, ShownAreSeen, [Next]_vars
               PROVE  ShownOnce' /\ ShownAreSeen'
    OBVIOUS
  <2>1. ASSUME NEW d \in Datagrams, Prints(d), pc \in Active
        PROVE  ShownOnce' /\ ShownAreSeen'
    <3>1. d.id \in Ids /\ shown \in Seq(Ids) /\ d.id \notin seen_ids
      BY <2>1, DatagramType DEF TypeOK, Prints, Skip
    <3>2. \A i \in DOMAIN shown : shown[i] # d.id /\ shown[i] \in seen_ids
      BY <2>1, <3>1 DEF ShownAreSeen
    <3>3. /\ DOMAIN shown' = 1 .. Len(shown) + 1 /\ DOMAIN shown = 1 .. Len(shown)
          /\ \A i \in DOMAIN shown : shown'[i] = shown[i]
          /\ shown'[Len(shown) + 1] = d.id
      BY <2>1, <3>1 DEF Prints
    <3>4. \A i \in DOMAIN shown' : i \in DOMAIN shown \/ i = Len(shown) + 1
      BY <3>1, <3>3
    <3>5. ShownOnce'
      BY <3>2, <3>3, <3>4 DEF ShownOnce
    <3>6. ASSUME MarkSeen(d) PROVE \A i \in DOMAIN shown' : shown'[i] \in seen_ids'
      BY <3>2, <3>3, <3>4, <3>6 DEF MarkSeen
    <3> QED
      BY <2>1, <3>5, <3>6 DEF Prints, ShownAreSeen
  <2>2. CASE PrintsNothing
    BY <2>2, ActiveStaysActive DEF PrintsNothing, ShownOnce, ShownAreSeen
  <2> QED
    BY <2>1, <2>2, PrintFrame
<1>3. Inv => ShownOnce
  OBVIOUS
<1> QED
  BY <1>1, <1>2, <1>3, TypeCorrect, PTL DEF Spec

\* What a step sends while the client stays active: no CONFIRM of an id that is
\* not noted.
ConfirmsOnlySeen ==
    \A p \in sent' : p.type = "CONFIRM" => p \in sent \/ p.id \in seen_ids'

\* fsm_logic_handler confirms what it notes, unless it leaves the program.
LEMMA FsmConfirmsSeen ==
    ASSUME NEW d \in Datagrams, FsmLogicHandler(d), pc' \in Active
    PROVE  ConfirmsOnlySeen /\ seen_ids \subseteq seen_ids'
<1>1. CASE FsmIgnore(d)
  BY <1>1 DEF FsmIgnore, ConfirmsOnlySeen, chat
<1>2. CASE FsmConfirm(d)
  BY <1>2 DEF FsmConfirm, ConfirmsOnlySeen, chat
<1>3. CASE FsmReply(d)
  BY <1>3 DEF FsmReply, ConfirmReply, MarkSeen, Transmit, Confirm, Packet, ConfirmsOnlySeen
<1>4. CASE FsmChatMsg(d)
  BY <1>4 DEF FsmChatMsg, MarkSeen, Transmit, Confirm, Packet, ConfirmsOnlySeen
<1>5. ~FsmEarlyMsg(d) /\ ~FsmInvalid(d) /\ ~FsmServerErr(d) /\ ~FsmServerBye(d)
  BY ExitLeaves DEF FsmEarlyMsg, FsmInvalid, FsmServerErr, FsmServerBye, Active
<1> QED
  BY <1>1, <1>2, <1>3, <1>4, <1>5 DEF FsmLogicHandler

\* As long as the client is active, each CONFIRM it has sent is for an id it has
\* noted: the server never takes a message for received that would be taken in
\* again if it came once more.
THEOREM OnlySeenIsConfirmed == Spec => []ConfirmsAreSeen
<1>1. Init => ConfirmsAreSeen
  BY DEF Init, ConfirmsAreSeen
<1>2. TypeInv /\ ConfirmsAreSeen /\ [Next]_vars => ConfirmsAreSeen'
  <2> SUFFICES ASSUME TypeOK, WaitsForMessage, ConfirmsAreSeen, [Next]_vars,
                      pc' \in Active
               PROVE  \A p \in sent' : p.type = "CONFIRM" => p.id \in seen_ids'
    BY DEF TypeInv, ConfirmsAreSeen, Active
  <2>0. \A p \in sent : p.type = "CONFIRM" => p.id \in seen_ids
    BY ActiveStaysActive DEF ConfirmsAreSeen, Active
  <2> SUFFICES ConfirmsOnlySeen /\ seen_ids \subseteq seen_ids'
    BY <2>0 DEF ConfirmsOnlySeen
  <2>1. ASSUME NEW u \in Inputs, SubmitLine(u)
        PROVE  ConfirmsOnlySeen /\ seen_ids \subseteq seen_ids'
    <3> DEFINE type == IF u.wire THEN u.type ELSE "EMPTY"
    <3>1. type # "CONFIRM"
      BY <2>1, ConstantsAssumption DEF LineTypes
    <3>2. /\ sent' = sent \cup {Packet(type, msg_counter % IdSpace, peer)}
          /\ seen_ids' = seen_ids
      BY <2>1 DEF SubmitLine, Transmit
    <3> HIDE DEF type
    <3> QED
      BY <3>1, <3>2 DEF Packet, ConfirmsOnlySeen
  <2>2. ASSUME NEW u \in Inputs, RefuseLine(u)
        PROVE  ConfirmsOnlySeen /\ seen_ids \subseteq seen_ids'
    BY <2>2 DEF RefuseLine, ConfirmsOnlySeen, chat
  <2>3. CASE Resend
    <3>1. outgoing.type # "CONFIRM"
      BY <2>3 DEF Resend, WaitsForMessage, Typed
    <3> QED
      BY <2>3, <3>1 DEF Resend, Transmit, Packet, ConfirmsOnlySeen, chat
  <2>4. CASE TimeoutInBye \/ FailInConfirm \/ FailInBye
    BY <2>4 DEF TimeoutInBye, FailInConfirm, FailInBye, ConfirmsOnlySeen, chat
  <2>5. ~GiveUp /\ ~FailInPoll /\ ~EndOfInput /\ ~Interrupt
    BY ExitLeaves DEF GiveUp, FailInPoll, EndOfInput, Interrupt, Active
  <2>6. ASSUME NEW d \in Datagrams, Receive(d)
        PROVE  ConfirmsOnlySeen /\ seen_ids \subseteq seen_ids'
    <3>1. ~RefuseInPoll(d)
      BY ExitLeaves DEF RefuseInPoll, PollServerErr, PollUnexpected, Active
    <3>2. CASE OutgoingConfirmed(d) \/ ReceiveInBye(d)
      BY <3>2 DEF OutgoingConfirmed, ReceiveInBye, ConfirmsOnlySeen, chat
    <3>3. CASE ReceiveInPoll(d) \/ ReceiveInConfirm(d)
      BY <3>3, FsmConfirmsSeen DEF ReceiveInPoll, ReceiveInConfirm
    <3> QED
      BY <2>6, <3>1, <3>2, <3>3 DEF Receive
  <2>7. CASE UNCHANGED vars
    BY <2>7 DEF vars, ConfirmsOnlySeen, chat
  <2> QED
    BY <2>1, <2>2, <2>3, <2>4, <2>5, <2>6, <2>7 DEF Next, Timeout, Fail, User
<1> QED
  BY <1>1, <1>2, InitType, StepType, PTL DEF Spec

\* Only a REPLY and a chat message add to seen_ids, and both are confirmed in
\* the step that notes them.
THEOREM SeenIsConfirmedAlways == Spec => SeenIsConfirmed
<1> DEFINE Confirmed == \A i \in seen_ids' \ seen_ids : Confirm(i, peer') \in sent'
<1>1. [Next]_vars => [Confirmed]_vars
  <2> SUFFICES ASSUME [Next]_vars PROVE Confirmed
    OBVIOUS
  <2>1. ASSUME UNCHANGED seen_ids PROVE Confirmed
    BY <2>1
  <2>2. ASSUME NEW u \in Inputs, SubmitLine(u) \/ RefuseLine(u) PROVE UNCHANGED seen_ids
    BY <2>2 DEF SubmitLine, RefuseLine, chat
  <2>3. ASSUME EndOfInput \/ Interrupt PROVE UNCHANGED seen_ids
    BY <2>3 DEF EndOfInput, Interrupt, chat
  <2>4. ASSUME Timeout \/ Fail PROVE UNCHANGED seen_ids
    BY <2>4 DEF Timeout, Resend, GiveUp, TimeoutInBye, Fail, FailInPoll, FailInConfirm,
                FailInBye, chat
  <2>5. ASSUME NEW d \in Datagrams, FsmLogicHandler(d) PROVE Confirmed
    <3>1. ASSUME FsmReply(d) PROVE Confirmed
      BY <3>1 DEF FsmReply, ConfirmReply, MarkSeen, Transmit
    <3>2. ASSUME FsmChatMsg(d) PROVE Confirmed
      BY <3>2 DEF FsmChatMsg, MarkSeen, Transmit, address
    <3>3. ASSUME FsmIgnore(d) \/ FsmConfirm(d) PROVE UNCHANGED seen_ids
      BY <3>3 DEF FsmIgnore, FsmConfirm, chat
    <3>4. ASSUME FsmEarlyMsg(d) \/ FsmServerErr(d) \/ FsmServerBye(d) \/ FsmInvalid(d)
          PROVE  UNCHANGED seen_ids
      BY <3>4 DEF FsmEarlyMsg, FsmServerErr, FsmServerBye, FsmInvalid, chat
    <3> QED
      BY <2>1, <2>5, <3>1, <3>2, <3>3, <3>4 DEF FsmLogicHandler
  <2>6. ASSUME NEW d \in Datagrams, Receive(d) PROVE Confirmed
    <3>1. ASSUME RefuseInPoll(d) \/ OutgoingConfirmed(d) \/ ReceiveInBye(d)
          PROVE  UNCHANGED seen_ids
      BY <3>1 DEF RefuseInPoll, OutgoingConfirmed, ReceiveInBye, chat
    <3>2. ASSUME ReceiveInPoll(d) \/ ReceiveInConfirm(d) PROVE FsmLogicHandler(d)
      BY <3>2 DEF ReceiveInPoll, ReceiveInConfirm
    <3> QED
      BY <2>1, <2>5, <2>6, <3>1, <3>2 DEF Receive
  <2>7. ASSUME UNCHANGED vars PROVE UNCHANGED seen_ids
    BY <2>7 DEF vars, chat
  <2> HIDE DEF Confirmed
  <2> QED
    BY <2>1, <2>2, <2>3, <2>4, <2>6, <2>7 DEF Next, User
<1> QED
  BY <1>1, PTL DEF Spec, SeenIsConfirmed

-----------------------------------------------------------------------------
(* The START state. *)

\* In START the main loop refuses whatever arrives, and handle_timeout is not
\* entered, so the START branch of fsm_logic_handler is never taken.
THEOREM StartBranchIsDead == Spec => []StartIsClean
<1> DEFINE Clean == /\ pc # "Confirm" /\ ~reply_msg_sent
                    /\ seen_ids = {} /\ confirm_id_vector = <<>>
<1>1. Init => StartIsClean
  BY DEF Init, StartIsClean
<1>2. StartIsClean /\ [Next]_vars => StartIsClean'
  <2> SUFFICES ASSUME StartIsClean, [Next]_vars, client_state' = "START" PROVE Clean'
    BY DEF StartIsClean
  <2>0. ASSUME client_state = "START" PROVE Clean
    BY <2>0 DEF StartIsClean
  <2>1. ASSUME NEW u \in Inputs, SubmitLine(u) PROVE FALSE
    BY <2>1 DEF SubmitLine, StateAfterSubmit
  <2>2. ASSUME NEW u \in Inputs, RefuseLine(u) PROVE Clean'
    BY <2>0, <2>2 DEF RefuseLine, chat, confirmation
  <2>3. ASSUME EndOfInput \/ Interrupt \/ GiveUp \/ FailInPoll PROVE Clean'
    <3>1. pc' \in {"Bye", "Done"}
      BY <2>3, ExitLeaves DEF EndOfInput, Interrupt, GiveUp, FailInPoll
    <3>2. UNCHANGED <<client_state, reply_msg_sent, seen_ids, confirm_id_vector>>
      BY <2>3 DEF EndOfInput, Interrupt, GiveUp, FailInPoll, chat, confirmation
    <3> QED
      BY <2>0, <3>1, <3>2
  <2>4. ASSUME Resend \/ TimeoutInBye \/ FailInConfirm \/ FailInBye PROVE Clean'
    BY <2>0, <2>4 DEF Resend, TimeoutInBye, FailInConfirm, FailInBye, chat, confirmation
  <2>5. ASSUME NEW d \in Datagrams, Receive(d) PROVE Clean'
    <3>1. CASE RefuseInPoll(d)
      <4>1. pc' \in {"Bye", "Done"}
        BY <3>1, ExitLeaves DEF RefuseInPoll, PollServerErr, PollUnexpected
      <4> QED
        BY <2>0, <3>1, <4>1 DEF RefuseInPoll, chat
    <3>2. CASE ReceiveInBye(d)
      BY <2>0, <3>2 DEF ReceiveInBye, chat, confirmation
    <3>3. CASE OutgoingConfirmed(d)
      BY <2>0, <3>3 DEF OutgoingConfirmed, chat
    <3>4. ASSUME ReceiveInPoll(d) \/ ReceiveInConfirm(d) PROVE FALSE
      <4>1. FsmLogicHandler(d)
        BY <3>4 DEF ReceiveInPoll, ReceiveInConfirm
      <4>2. client_state = "START"
        BY <4>1 DEF FsmLogicHandler, FsmIgnore, FsmConfirm, FsmReply, FsmChatMsg,
                    FsmEarlyMsg, FsmServerErr, FsmServerBye, FsmInvalid, StateAfterReply, chat
      <4>3. ~Skip(d)
        BY <2>0, <4>2 DEF Skip
      <4>4. FALSE
        BY <4>1, <4>2, <4>3 DEF FsmLogicHandler, FsmIgnore
      <4> QED
        BY <4>4
    <3> QED
      BY <2>5, <3>1, <3>2, <3>3, <3>4 DEF Receive
  <2>6. ASSUME UNCHANGED vars PROVE Clean'
    BY <2>0, <2>6 DEF vars, chat, confirmation
  <2> HIDE DEF Clean
  <2> QED
    BY <2>1, <2>2, <2>3, <2>4, <2>5, <2>6 DEF Next, Timeout, Fail, User
<1> QED
  BY <1>1, <1>2, PTL DEF Spec

-----------------------------------------------------------------------------
(* The way out. *)

Reasons == {"success", "failure", "timeouts"}

\* What a step is to the end of the program: it goes on with the chat, it calls
\* exit_program, it waits for the CONFIRM of the BYE, or CTRL-C cuts this short.
GoesOn == pc \in Active /\ pc' \in Active /\ UNCHANGED ret
Exiting == pc \in Active /\ pc' \in {"Bye", "Done"} /\ ret' \in Reasons
Waits == pc = "Bye" /\ pc' \in {"Bye", "Done"} /\ UNCHANGED <<ret, sent>>
CutsShort ==
    /\ pc = "Bye" /\ pc' \in {"Bye", "Done"} /\ ret' = "success"
    /\ \E packets \in SUBSET {Packet("BYE", msg_counter % IdSpace, peer)} :
           sent' = sent \cup packets

\* exit_program leaves one of the two other waits with the reason it was given.
LEMMA ExitExits ==
    ASSUME NEW bye, NEW why \in Reasons, NEW counter, NEW packets,
           ExitProgram(bye, why, counter, packets) \/ SendErrorExit(packets)
    PROVE  pc' \in {"Bye", "Done"} /\ ret' \in Reasons
BY DEF ExitProgram, SendErrorExit, Reasons

\* fsm_logic_handler goes on with the chat or calls exit_program.
LEMMA FsmGoesOn ==
    ASSUME NEW d \in Datagrams, FsmLogicHandler(d), pc \in Active
    PROVE  GoesOn \/ Exiting
<1>1. CASE FsmIgnore(d) \/ FsmConfirm(d) \/ FsmReply(d) \/ FsmChatMsg(d)
  BY <1>1 DEF FsmIgnore, FsmConfirm, FsmReply, FsmChatMsg, GoesOn
<1>2. CASE FsmEarlyMsg(d) \/ FsmInvalid(d) \/ FsmServerErr(d) \/ FsmServerBye(d)
  <2>1. "failure" \in Reasons
    BY DEF Reasons
  <2> QED
    BY <1>2, <2>1, ExitExits DEF FsmEarlyMsg, FsmInvalid, FsmServerErr, FsmServerBye, Exiting
<1> QED
  BY <1>1, <1>2 DEF FsmLogicHandler

\* Every step is one of these.
LEMMA ExitFrame ==
    ASSUME TypeOK, [Next]_vars
    PROVE  GoesOn \/ Exiting \/ Waits \/ CutsShort \/ UNCHANGED <<pc, ret, sent>>
<1> DEFINE Some == GoesOn \/ Exiting \/ Waits \/ CutsShort \/ UNCHANGED <<pc, ret, sent>>
<1>0. "success" \in Reasons /\ "failure" \in Reasons /\ "timeouts" \in Reasons
  BY DEF Reasons
<1>1. ASSUME NEW u \in Inputs, SubmitLine(u) \/ RefuseLine(u) PROVE GoesOn
  BY <1>1 DEF SubmitLine, RefuseLine, InputWatched, GoesOn, Active
<1>2. ASSUME EndOfInput \/ GiveUp \/ FailInPoll PROVE Exiting
  BY <1>0, <1>2, ExitExits DEF EndOfInput, InputWatched, GiveUp, FailInPoll, Exiting, Active
<1>3. ASSUME Resend \/ FailInConfirm PROVE GoesOn
  BY <1>3 DEF Resend, FailInConfirm, GoesOn, Active
<1>4. ASSUME TimeoutInBye \/ FailInBye PROVE Waits
  BY <1>4 DEF TimeoutInBye, FailInBye, Waits
<1>5. ASSUME Interrupt PROVE Exiting \/ CutsShort
  <2>1. pc \in Active \/ pc = "Bye"
    BY <1>5 DEF Interrupt, Active, TypeOK
  <2>2. /\ pc' \in {"Bye", "Done"} /\ ret' = "success"
        /\ \E packets \in SUBSET {Packet("BYE", msg_counter % IdSpace, peer)} :
               sent' = sent \cup packets
    <3>1. ExitProgram(client_state # "START", "success", msg_counter, {})
      BY <1>5 DEF Interrupt
    <3>2. CASE client_state # "START"
      BY <3>1, <3>2 DEF ExitProgram, Transmit
    <3>3. CASE client_state = "START"
      BY <3>1, <3>3 DEF ExitProgram, Transmit
    <3> QED
      BY <3>2, <3>3
  <2> QED
    BY <1>0, <2>1, <2>2 DEF Exiting, CutsShort
<1>6. ASSUME NEW d \in Datagrams, Receive(d) PROVE GoesOn \/ Exiting \/ Waits
  <2>1. ASSUME RefuseInPoll(d) PROVE Exiting
    BY <1>0, <2>1, ExitExits DEF RefuseInPoll, PollServerErr, PollUnexpected, Exiting, Active
  <2>2. ASSUME ReceiveInPoll(d) \/ ReceiveInConfirm(d) PROVE GoesOn \/ Exiting
    BY <2>2, FsmGoesOn DEF ReceiveInPoll, ReceiveInConfirm, Active
  <2>3. ASSUME OutgoingConfirmed(d) PROVE GoesOn
    BY <2>3 DEF OutgoingConfirmed, GoesOn, Active
  <2>4. ASSUME ReceiveInBye(d) PROVE Waits
    BY <2>4 DEF ReceiveInBye, Waits
  <2> QED
    BY <1>6, <2>1, <2>2, <2>3, <2>4 DEF Receive
<1>7. ASSUME UNCHANGED vars PROVE Some
  BY <1>7 DEF vars
<1> HIDE DEF Some
<1>8. ASSUME GoesOn \/ Exiting \/ Waits \/ CutsShort PROVE Some
  BY <1>8 DEF Some
<1>9. Some
  BY <1>1, <1>2, <1>3, <1>4, <1>5, <1>6, <1>7, <1>8 DEF Next, Timeout, Fail, User
<1> QED
  BY <1>9 DEF Some

\* The program has no reason to exit as long as, and only as long as, it chats.
ReasonInv == ret = "running" <=> pc \in Active

\* After exit_program has been called only BYEs are sent, and the exit code is the
\* one it was given or that of CTRL-C: the client implements Departure.
THEOREM UdpLeavesInOrder == Spec => DepartureSpec
<1>1. Init => ReasonInv /\ Exits!Init
  BY DEF Init, ReasonInv, Active, Exits!Init
<1>2. ReasonInv /\ TypeOK /\ [Next]_vars => ReasonInv'
  <2> SUFFICES ASSUME ReasonInv, TypeOK, [Next]_vars PROVE ReasonInv'
    OBVIOUS
  <2>1. "running" \notin Reasons /\ "success" # "running"
    BY DEF Reasons
  <2> QED
    BY <2>1, ExitFrame DEF ReasonInv, GoesOn, Exiting, Waits, CutsShort, Active
<1>3. ReasonInv /\ TypeOK /\ [Next]_vars => [Exits!Next]_(Exits!vars)
  <2> SUFFICES ASSUME ReasonInv, TypeOK, [Next]_vars PROVE [Exits!Next]_(Exits!vars)
    OBVIOUS
  <2>1. CASE GoesOn
    BY <2>1 DEF GoesOn, ReasonInv, Active, Exits!Next, Exits!Talk
  <2>2. CASE Exiting
    BY <2>2 DEF Exiting, ReasonInv, Reasons, Active, Exits!Next, Exits!Leave
  <2>3. CASE Waits
    BY <2>3 DEF Waits, Exits!vars, Exits!Next, Exits!Go
  <2>4. CASE CutsShort
    <3>1. {p \in sent' : p.type # "BYE"} = {p \in sent : p.type # "BYE"}
      BY <2>4 DEF CutsShort, Packet
    <3> QED
      BY <2>4, <3>1 DEF CutsShort, Exits!Next, Exits!InterruptLeaving
  <2>5. CASE UNCHANGED <<pc, ret, sent>>
    BY <2>5 DEF Exits!vars
  <2> QED
    BY <2>1, <2>2, <2>3, <2>4, <2>5, ExitFrame
<1> QED
  BY <1>1, <1>2, <1>3, TypeCorrect, PTL DEF Spec, DepartureSpec, Exits!Spec
=============================================================================
