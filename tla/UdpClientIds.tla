---------------------------- MODULE UdpClientIds ----------------------------
(***************************************************************************)
(* The ids of the messages of UdpClient: as long as the counter does not   *)
(* wrap around, each message has an id of its own.  Every step of the      *)
(* client is one of five kinds, as far as ids are concerned, and each kind *)
(* keeps the invariant Numbered.                                           *)
(***************************************************************************)
EXTENDS UdpClientProofs

\* Every line, an ERR and a BYE have room in the id space.
NoWrap == MaxMsgs + 1 < IdSpace

\* Below the wrap the id of a message is the counter itself.
LEMMA ModIsCounter ==
    ASSUME NEW n \in Nat, n < IdSpace
    PROVE  n % IdSpace = n
BY ConstantsAssumption

Running == pc \in {"Poll", "Confirm"}

\* The counter is above all lines sent, the ERR has the last number before it and
\* the BYE its present value; ERR and BYE are sent by leaving.
Numbered ==
    /\ msg_counter <= IF Running THEN MaxMsgs ELSE MaxMsgs + 1
    /\ pc = "Confirm" => \E p \in sent : p.type = outgoing.type /\ p.id = outgoing.id
    /\ \A p \in sent :
           /\ p.type \in Typed => p.id < msg_counter
           /\ p.type = "ERR" => ~Running /\ p.id + 1 = msg_counter
           /\ p.type = "BYE" => ~Running /\ p.id = msg_counter
    /\ \A p, q \in sent :
           p.type \in Typed =>
               /\ q.type \in Typed /\ p.id = q.id => p.type = q.type
               /\ q.type = "ERR" => p.id < q.id

-----------------------------------------------------------------------------
(* The kinds of steps. *)

Leaves == pc' \in {"Bye", "Done"}

\* What is new in sent, CONFIRMs apart.
Adds(messages) ==
    /\ sent \subseteq sent'
    /\ \A p \in sent' : p \in sent \/ p.type = "CONFIRM" \/ [type |-> p.type, id |-> p.id] \in messages

Message(type, id) == [type |-> type, id |-> id]

\* Nothing but CONFIRMs goes out, and no wait of handle_timeout begins.
Quiet ==
    /\ Adds({})
    /\ UNCHANGED msg_counter
    /\ Running' => Running
    /\ pc' = "Confirm" => pc = "Confirm" /\ UNCHANGED outgoing

ByeOnly ==
    /\ Adds({Message("BYE", msg_counter % IdSpace)})
    /\ UNCHANGED msg_counter
    /\ Leaves

ErrAndBye ==
    /\ Running /\ Leaves
    /\ Adds({Message("ERR", msg_counter % IdSpace), Message("BYE", (msg_counter + 1) % IdSpace)})
    /\ msg_counter' = msg_counter + 1

NewLine ==
    /\ pc = "Poll" /\ msg_counter < MaxMsgs /\ msg_counter' = msg_counter + 1
    /\ \/ /\ pc' = "Poll" /\ UNCHANGED sent
       \/ /\ pc' = "Confirm"
          /\ outgoing'.type \in Typed /\ outgoing'.id = msg_counter % IdSpace
          /\ Adds({Message(outgoing'.type, outgoing'.id)})
          /\ \E p \in sent' : p.type = outgoing'.type /\ p.id = outgoing'.id

SameAgain ==
    /\ pc = "Confirm" /\ pc' = "Confirm" /\ UNCHANGED <<outgoing, msg_counter>>
    /\ Adds({Message(outgoing.type, outgoing.id)})

-----------------------------------------------------------------------------
(* Each kind of step keeps the numbering. *)

\* No message goes out, so nothing is numbered.
LEMMA QuietKeeps == TypeOK /\ Numbered /\ Quiet => Numbered'
<1> SUFFICES ASSUME TypeOK, Numbered, Quiet PROVE Numbered'
  OBVIOUS
<1>1. msg_counter \in Nat /\ MaxMsgs \in Nat /\ msg_counter' = msg_counter
  BY ConstantsAssumption DEF TypeOK, Quiet
<1>2. msg_counter' <= IF Running' THEN MaxMsgs ELSE MaxMsgs + 1
  BY <1>1 DEF Numbered, Quiet
<1>3. sent \subseteq sent' /\ \A p \in sent' : p \in sent \/ p.type = "CONFIRM"
  BY DEF Quiet, Adds
<1>4. pc' = "Confirm" => \E p \in sent' : p.type = outgoing'.type /\ p.id = outgoing'.id
  BY <1>3 DEF Numbered, Quiet
<1>5. (Running' => Running) /\ "CONFIRM" \notin Typed \cup {"ERR", "BYE"}
  BY DEF Quiet, Typed
<1> QED
  BY <1>1, <1>2, <1>3, <1>4, <1>5 DEF Numbered

\* A copy of the message at hand brings no new id.
LEMMA SameAgainKeeps == TypeInv /\ Numbered /\ SameAgain => Numbered'
<1> SUFFICES ASSUME TypeOK, outgoing.type \in Typed, Numbered, SameAgain PROVE Numbered'
  BY DEF TypeInv, WaitsForMessage, SameAgain
<1>1. PICK r \in sent : r.type = outgoing.type /\ r.id = outgoing.id
  BY DEF Numbered, SameAgain
<1>2. \A p \in sent' : \E q \in sent : p.type # "CONFIRM" => p.type = q.type /\ p.id = q.id
  BY <1>1 DEF SameAgain, Adds, Message
<1>3. sent \subseteq sent' /\ pc' = "Confirm" /\ Running /\ Running'
  BY DEF SameAgain, Adds, Running
<1> QED
  BY <1>1, <1>2, <1>3 DEF Numbered, SameAgain, Typed

\* A BYE takes the counter, which no line has yet.
LEMMA ByeOnlyKeeps == NoWrap /\ TypeOK /\ Numbered /\ ByeOnly => Numbered'
<1> SUFFICES ASSUME NoWrap, TypeOK, Numbered, ByeOnly PROVE Numbered'
  OBVIOUS
<1>1. msg_counter \in Nat /\ MaxMsgs \in Nat /\ IdSpace \in Nat /\ msg_counter <= MaxMsgs + 1
  BY ConstantsAssumption DEF TypeOK, Numbered
<1>2. msg_counter % IdSpace = msg_counter
  BY <1>1, ModIsCounter DEF NoWrap
<1>3. \A p \in sent' : p \in sent \/ p.type = "CONFIRM" \/ (p.type = "BYE" /\ p.id = msg_counter)
  BY <1>2 DEF ByeOnly, Adds, Message
<1>4. ~Running' /\ pc' # "Confirm" /\ msg_counter' = msg_counter
  BY DEF ByeOnly, Leaves, Running
<1> QED
  BY <1>1, <1>3, <1>4 DEF Numbered, Typed

\* An ERR takes the counter and raises it for the BYE.
LEMMA ErrAndByeKeeps == NoWrap /\ TypeOK /\ Numbered /\ ErrAndBye => Numbered'
<1> SUFFICES ASSUME NoWrap, TypeOK, Numbered, ErrAndBye PROVE Numbered'
  OBVIOUS
<1>1. /\ msg_counter \in Nat /\ MaxMsgs \in Nat /\ IdSpace \in Nat
      /\ Running /\ msg_counter <= MaxMsgs
  BY ConstantsAssumption DEF TypeOK, Numbered, ErrAndBye
<1>2. msg_counter % IdSpace = msg_counter /\ (msg_counter + 1) % IdSpace = msg_counter + 1
  BY <1>1, ModIsCounter DEF NoWrap
<1>3. \A p \in sent' : \/ p \in sent /\ p.type \notin {"ERR", "BYE"}
                       \/ p.type = "CONFIRM"
                       \/ p.type = "ERR" /\ p.id = msg_counter
                       \/ p.type = "BYE" /\ p.id = msg_counter + 1
  BY <1>1, <1>2 DEF ErrAndBye, Adds, Message, Numbered
<1>4. ~Running' /\ pc' # "Confirm" /\ msg_counter' = msg_counter + 1
  BY DEF ErrAndBye, Leaves, Running
<1>5. \A p \in sent : p.type \in Typed => p.id \in Nat /\ p.id < msg_counter
  BY DEF Numbered, TypeOK, Ids
<1> QED
  BY <1>1, <1>3, <1>4, <1>5 DEF Numbered, Typed

\* A line takes the counter and raises it; none leaves while the client runs on.
LEMMA NewLineKeeps == NoWrap /\ TypeOK /\ Numbered /\ NewLine => Numbered'
<1> SUFFICES ASSUME NoWrap, TypeOK, Numbered, NewLine PROVE Numbered'
  OBVIOUS
<1>1. /\ msg_counter \in Nat /\ MaxMsgs \in Nat /\ IdSpace \in Nat
      /\ Running /\ Running' /\ msg_counter < MaxMsgs /\ msg_counter' = msg_counter + 1
  BY ConstantsAssumption DEF TypeOK, NewLine, Running
<1>2. msg_counter % IdSpace = msg_counter
  BY <1>1, ModIsCounter DEF NoWrap
<1>3. \A p \in sent : /\ p.type \notin {"ERR", "BYE"}
                      /\ p.type \in Typed => p.id \in Nat /\ p.id < msg_counter
  BY <1>1 DEF Numbered, TypeOK, Ids
<1>4. CASE pc' = "Poll" /\ UNCHANGED sent
  BY <1>1, <1>3, <1>4 DEF Numbered, Typed
<1>5. CASE pc' = "Confirm"
  <2>1. \A p \in sent' : \/ p \in sent
                         \/ p.type = "CONFIRM"
                         \/ p.type = outgoing'.type /\ p.id = msg_counter
    BY <1>2, <1>5 DEF NewLine, Adds, Message
  <2>2. outgoing'.type \in Typed
        /\ \E p \in sent' : p.type = outgoing'.type /\ p.id = outgoing'.id
    BY <1>5 DEF NewLine
  <2> QED
    BY <1>1, <1>3, <2>1, <2>2 DEF Numbered, Typed
<1> QED
  BY <1>4, <1>5 DEF NewLine

-----------------------------------------------------------------------------
(* Every step is of one of the kinds. *)

Step == Quiet \/ ByeOnly \/ ErrAndBye \/ NewLine \/ SameAgain

\* exit_program adds a BYE, or nothing, to CONFIRMs.
LEMMA ExitIsByeOnly ==
    ASSUME NEW bye \in BOOLEAN, NEW why, NEW packets,
           \A p \in packets : p.type = "CONFIRM",
           ExitProgram(bye, why, msg_counter, packets), UNCHANGED msg_counter
    PROVE  ByeOnly
BY DEF ExitProgram, Transmit, Packet, ByeOnly, Adds, Message, Leaves

\* send_error_exit adds an ERR and a BYE.
LEMMA ErrorExitIsErrAndBye ==
    ASSUME NEW packets, \A p \in packets : p.type = "CONFIRM",
           SendErrorExit(packets), Running
    PROVE  ErrAndBye
BY DEF SendErrorExit, ExitProgram, Transmit, Packet, ErrAndBye, Adds, Message, Leaves

\* fsm_logic_handler, called from either of the two loops.
LEMMA FsmStep ==
    ASSUME NEW d \in Datagrams, FsmLogicHandler(d), Running
    PROVE  Step
<1>1. \A i, port : \A p \in {Confirm(i, port)} : p.type = "CONFIRM"
  BY DEF Confirm, Packet
<1>2. CASE FsmIgnore(d) \/ FsmConfirm(d)
  BY <1>2 DEF FsmIgnore, FsmConfirm, Step, Quiet, Adds, Running, waiting
<1>3. CASE FsmReply(d)
  BY <1>1, <1>3 DEF FsmReply, ConfirmReply, Transmit, Step, Quiet, Adds, Running, waiting
<1>4. CASE FsmChatMsg(d)
  BY <1>1, <1>4 DEF FsmChatMsg, Transmit, Step, Quiet, Adds, Running, waiting
<1>5. CASE FsmEarlyMsg(d) \/ FsmInvalid(d)
  BY <1>1, <1>5, ErrorExitIsErrAndBye DEF FsmEarlyMsg, FsmInvalid, Step
<1>6. CASE FsmServerErr(d) \/ FsmServerBye(d)
  BY <1>1, <1>6, ExitIsByeOnly DEF FsmServerErr, FsmServerBye, Step
<1> QED
  BY <1>2, <1>3, <1>4, <1>5, <1>6 DEF FsmLogicHandler

\* The other actions.
LEMMA NextStep == TypeOK /\ [Next]_vars => Step
<1> SUFFICES ASSUME TypeOK, [Next]_vars PROVE Step
  OBVIOUS
<1>0. \A i, port : \A p \in {Confirm(i, port)} : p.type = "CONFIRM"
  BY DEF Confirm, Packet
<1>1. ASSUME NEW u \in Inputs, SubmitLine(u) PROVE Step
  <2> DEFINE type == IF u.wire THEN u.type ELSE "EMPTY"
  <2>1. type \in Typed
    BY ConstantsAssumption DEF LineTypes, Typed
  <2>2. /\ outgoing' = [type |-> type, id |-> msg_counter % IdSpace]
        /\ sent' = sent \cup {Packet(type, msg_counter % IdSpace, peer)}
        /\ msg_counter < MaxMsgs /\ msg_counter' = msg_counter + 1
        /\ pc = "Poll" /\ pc' = "Confirm"
    BY <1>1 DEF SubmitLine, Transmit, InputWatched
  <2> HIDE DEF type
  <2> DEFINE new == Packet(type, msg_counter % IdSpace, peer)
  <2>3. new.type = outgoing'.type /\ new.id = outgoing'.id
    BY <2>2 DEF Packet
  <2>4. /\ outgoing'.type \in Typed /\ outgoing'.id = msg_counter % IdSpace
        /\ sent' = sent \cup {new}
    BY <2>1, <2>2
  <2> HIDE DEF new
  <2>5. Adds({Message(outgoing'.type, outgoing'.id)})
    BY <2>3, <2>4 DEF Adds, Message
  <2>6. \E p \in sent' : p.type = outgoing'.type /\ p.id = outgoing'.id
    BY <2>3, <2>4
  <2> QED
    BY <2>2, <2>4, <2>5, <2>6 DEF Step, NewLine
<1>2. ASSUME NEW u \in Inputs, RefuseLine(u) PROVE Step
  BY <1>2 DEF RefuseLine, InputWatched, Step, NewLine
<1>3. CASE EndOfInput \/ GiveUp \/ FailInPoll \/ Interrupt
  <2>1. \E bye \in BOOLEAN, why \in {"success", "failure", "timeouts"} :
            ExitProgram(bye, why, msg_counter, {})
    BY <1>3 DEF EndOfInput, GiveUp, FailInPoll, Interrupt
  <2>2. UNCHANGED msg_counter
    BY <1>3 DEF EndOfInput, GiveUp, FailInPoll, Interrupt
  <2> QED
    BY <2>1, <2>2, ExitIsByeOnly DEF Step
<1>4. CASE Resend
  BY <1>4 DEF Resend, Transmit, Packet, Step, SameAgain, Adds, Message
<1>5. CASE TimeoutInBye \/ FailInConfirm \/ FailInBye
  BY <1>5 DEF TimeoutInBye, FailInConfirm, FailInBye, Step, Quiet, Adds, Running, waiting
<1>6. ASSUME NEW d \in Datagrams, Receive(d) PROVE Step
  <2>1. CASE RefuseInPoll(d)
    <3>1. CASE PollServerErr(d)
      BY <1>0, <3>1, ExitIsByeOnly DEF PollServerErr, Step
    <3>2. CASE PollUnexpected(d)
      BY <1>0, <2>1, <3>2, ErrorExitIsErrAndBye DEF RefuseInPoll, PollUnexpected, Running, Step
    <3> QED
      BY <2>1, <3>1, <3>2 DEF RefuseInPoll
  <2>2. CASE ReceiveInPoll(d) \/ ReceiveInConfirm(d)
    BY <2>2, FsmStep DEF ReceiveInPoll, ReceiveInConfirm, Running
  <2>3. CASE OutgoingConfirmed(d) \/ ReceiveInBye(d)
    BY <2>3 DEF OutgoingConfirmed, ReceiveInBye, Step, Quiet, Adds, Running, waiting
  <2> QED
    BY <1>6, <2>1, <2>2, <2>3 DEF Receive
<1>7. CASE UNCHANGED vars
  BY <1>7 DEF vars, Step, Quiet, Adds, Running, waiting
<1> QED
  BY <1>1, <1>2, <1>3, <1>4, <1>5, <1>6, <1>7 DEF Next, Timeout, Fail, User

\* The numbering holds for ever.
LEMMA NumberedAlways ==
    ASSUME NoWrap
    PROVE  Spec => []Numbered
<1>1. Init => Numbered
  BY ConstantsAssumption DEF Init, Numbered, Running
<1>2. TypeInv /\ Numbered /\ [Next]_vars => Numbered'
  BY NextStep, QuietKeeps, ByeOnlyKeeps, ErrAndByeKeeps, NewLineKeeps, SameAgainKeeps
  DEF Step, TypeInv
<1> QED
  BY <1>1, <1>2, TypeInvAlways, PTL DEF Spec

\* Messages of different types have different ids.
IdsAreUnique ==
    \A p, q \in sent :
        p.type # "CONFIRM" /\ q.type # "CONFIRM" /\ p.id = q.id => p.type = q.type

\* Numbered messages of one id are of one type.
LEMMA NumberedUnique == TypeOK /\ Numbered => IdsAreUnique
<1> SUFFICES ASSUME TypeOK, Numbered, NEW p \in sent, NEW q \in sent,
                    p.type # "CONFIRM", q.type # "CONFIRM", p.id = q.id
             PROVE  p.type = q.type
  BY DEF IdsAreUnique
<1>1. /\ p.type \in Typed \cup {"ERR", "BYE"} /\ q.type \in Typed \cup {"ERR", "BYE"}
      /\ p.id \in Nat /\ q.id \in Nat /\ msg_counter \in Nat
  BY DEF TypeOK, OutTypes, Ids
<1> QED
  BY <1>1 DEF Numbered, Typed

LEMMA IdsUniqueAlways ==
    ASSUME NoWrap
    PROVE  Spec => []IdsAreUnique
BY NumberedAlways, NumberedUnique, TypeCorrect, PTL

-----------------------------------------------------------------------------
(* What a step sends is new. *)

\* Each kind of step sends what it may: a line under the counter, which no message
\* has yet, a copy of the message at hand, or an ERR and a BYE under numbers above
\* all others.
LEMMA StepIsNew ==
    ASSUME NoWrap, TypeOK, TypeOK', Numbered, Numbered', Step
    PROVE  /\ Submits => \A p \in sent : p.type # "CONFIRM" => p.id # outgoing'.id
           /\ \A p \in sent' \ sent : p.type \in Typed =>
                  /\ p.type = outgoing'.type /\ p.id = outgoing'.id
                  /\ Submits \/ UNCHANGED outgoing
<1>1. /\ msg_counter \in Nat /\ MaxMsgs \in Nat /\ IdSpace \in Nat /\ msg_counter <= MaxMsgs + 1
      /\ "CONFIRM" \notin Typed /\ "ERR" \notin Typed /\ "BYE" \notin Typed
  BY ConstantsAssumption DEF TypeOK, Numbered, Typed
<1>2. CASE Quiet
  BY <1>1, <1>2 DEF Quiet, Adds, Submits
<1>3. CASE ByeOnly
  BY <1>1, <1>3 DEF ByeOnly, Adds, Message, Leaves, Submits
<1>4. CASE ErrAndBye
  BY <1>1, <1>4 DEF ErrAndBye, Adds, Message, Leaves, Submits
<1>5. CASE SameAgain
  BY <1>1, <1>5 DEF SameAgain, Adds, Message, Submits
<1>6. CASE NewLine
  <2>1. CASE pc' = "Poll" /\ UNCHANGED sent
    BY <2>1 DEF Submits
  <2>2. CASE pc' = "Confirm"
    <3>1. /\ outgoing'.id = msg_counter /\ Submits
          /\ \A p \in sent' : p \in sent \/ p.type = "CONFIRM"
                                \/ (p.type = outgoing'.type /\ p.id = outgoing'.id)
      <4>1. msg_counter % IdSpace = msg_counter
        BY <1>1, ModIsCounter DEF NoWrap
      <4>2. /\ pc = "Poll" /\ outgoing'.id = msg_counter % IdSpace
            /\ Adds({Message(outgoing'.type, outgoing'.id)})
        BY <1>6, <2>2 DEF NewLine
      <4> QED
        BY <2>2, <4>1, <4>2 DEF Adds, Message, Submits
    <3>2. \A p \in sent : p.type # "CONFIRM" => p.type \in Typed /\ p.id \in Nat
      <4>1. Running
        BY <1>6 DEF NewLine, Running
      <4> QED
        BY <4>1 DEF TypeOK, OutTypes, Ids, Numbered
    <3>3. \A p \in sent : p.type # "CONFIRM" => p.id < msg_counter
      BY <3>2 DEF Numbered
    <3> QED
      BY <1>1, <3>1, <3>2, <3>3
  <2> QED
    BY <1>6, <2>1, <2>2 DEF NewLine
<1> QED
  BY <1>2, <1>3, <1>4, <1>5, <1>6 DEF Step

\* An ERR is sent by a client that has sent no ERR and no BYE, and the numbering
\* keeps it apart from the lines and from its BYE.
LEMMA LastWordsAreNew ==
    ASSUME NoWrap, TypeOK', Numbered, Numbered', Step,
           NEW p \in sent' \ sent, NEW q \in sent',
           p.type \in {"ERR", "BYE"}, q.type # "CONFIRM", p.id = q.id
    PROVE  p.type = q.type /\ (p.type = "BYE" \/ q \notin sent)
<1>1. p.type = q.type
  <2>1. /\ q.type \in Typed \cup {"ERR", "BYE"}
        /\ p.id \in Nat /\ q.id \in Nat /\ msg_counter' \in Nat
    BY DEF TypeOK, OutTypes, Ids
  <2> QED
    BY <2>1 DEF Numbered, Typed
<1>2. CASE p.type = "ERR" /\ q \in sent
  <2>1. q.type = "ERR" /\ ~Running
    BY <1>1, <1>2 DEF Numbered
  <2> QED
    BY <1>2, <2>1 DEF Step, Quiet, ByeOnly, ErrAndBye, NewLine, SameAgain, Adds, Message,
                      Running, Typed
<1> QED
  BY <1>1, <1>2

\* Every message of the client, its ERR and its BYE included, has an id of its
\* own, whatever is received, resent or interrupted: a CONFIRM can only be taken
\* for the message it confirms.
THEOREM MessagesHaveOwnIds ==
    ASSUME NoWrap
    PROVE  Spec => IdsAreNew
<1>1. TypeOK /\ TypeOK' /\ Numbered /\ Numbered' /\ [Next]_vars =>
          [/\ Submits => \A p \in sent : p.type # "CONFIRM" => p.id # outgoing'.id
           /\ \A p \in sent' \ sent : p.type \in Typed =>
                  /\ p.type = outgoing'.type /\ p.id = outgoing'.id
                  /\ Submits \/ UNCHANGED outgoing
           /\ \A p \in sent' \ sent, q \in sent' :
                  p.type \in {"ERR", "BYE"} /\ q.type # "CONFIRM" /\ p.id = q.id =>
                      p.type = q.type /\ (p.type = "BYE" \/ q \notin sent)]_vars
  BY NextStep, StepIsNew, LastWordsAreNew
<1> QED
  BY <1>1, NumberedAlways, TypeCorrect, PTL DEF Spec, IdsAreNew
=============================================================================
