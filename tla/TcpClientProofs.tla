--------------------------- MODULE TcpClientProofs ---------------------------
(* Theorems about TcpClient, for every value of its constants. *)
EXTENDS TcpClient, TLAPS

\* What OneRequestAtATime rests on: when the loop gets to the standard input, no
\* REPLY is awaited, whatever revents it still holds.
OneRequestInv == OneRequestAtATime /\ InputHeldBack /\ replies \in Nat

\* It is inductive: one step per action.
LEMMA OneRequestInductive == Spec => []OneRequestInv
<1>1. Init => OneRequestInv
  BY DEF Init, OneRequestInv, OneRequestAtATime, InputHeldBack
<1>2. OneRequestInv /\ [Next]_vars => OneRequestInv'
  <2> SUFFICES ASSUME OneRequestInv, [Next]_vars PROVE OneRequestInv'
    OBVIOUS
  <2> USE DEF OneRequestInv, OneRequestAtATime, InputHeldBack
  <2>1. CASE Poll
    BY <2>1 DEF Poll, chat, history
  <2>2. CASE PollFails \/ RefuseMessage \/ ServerErr \/ ServerBye \/ ConnectionLost \/ SendBye
    BY <2>2 DEF PollFails, RefuseMessage, ServerErr, ServerBye, ConnectionLost, SendBye, Send,
                Leave, chat, history
  <2>3. CASE ChatMessage
    BY <2>3 DEF ChatMessage, EndTurn, chat, history
  <2>4. CASE ExpectedReply
    BY <2>4 DEF ExpectedReply
  <2>5. CASE StrayReply
    BY <2>5 DEF StrayReply, ToInput, chat, history
  <2>6. CASE SkipInput \/ EndOfInput
    BY <2>6 DEF SkipInput, EndOfInput, Leave, chat, history
  <2>7. CASE SubmitLine
    <3>1. PICK u \in Lines : /\ ReadLine(u)
                             /\ pc' \in {"Poll", "Killed"}
                             /\ reply_msg_sent' = (NeedsReply(u) \/ reply_msg_sent)
                             /\ requests' = IF NeedsReply(u) THEN requests + 1 ELSE requests
      BY <2>7 DEF SubmitLine, Send
    <3>2. ~reply_msg_sent /\ replies' = replies
      BY <3>1 DEF ReadLine
    <3>3. requests = replies
      BY <3>2
    <3> QED
      BY <3>1, <3>2, <3>3
  <2>8. CASE KeepLine
    BY <2>8 DEF KeepLine, ReadLine, chat
  <2>9. CASE Interrupt
    BY <2>9 DEF Interrupt, Leave, chat, history
  <2>10. CASE Environment
    BY <2>10 DEF Environment, TypeLine, CloseStdin, ServerSends, ServerStalls,
                 ServerCloses, ServerResets, chat, history
  <2>11. CASE UNCHANGED vars
    BY <2>11 DEF vars, chat, history
  <2> QED
    BY <2>1, <2>2, <2>3, <2>4, <2>5, <2>6, <2>7, <2>8, <2>9, <2>10, <2>11
    DEF Next, Serve, Input
<1> QED
  BY <1>1, <1>2, PTL DEF Spec

\* Every AUTH and JOIN has had its own REPLY before the next one is sent.
THEOREM OneRequest == Spec => []OneRequestAtATime
<1>1. OneRequestInv => OneRequestAtATime
  BY DEF OneRequestInv
<1> QED
  BY <1>1, OneRequestInductive, PTL

\* No line is read while a REPLY is awaited, whatever revents poll left behind.
THEOREM InputIsHeldBack == Spec => []InputHeldBack
<1>1. OneRequestInv => InputHeldBack
  BY DEF OneRequestInv
<1> QED
  BY <1>1, OneRequestInductive, PTL

-----------------------------------------------------------------------------
(* Types. *)

\* The bounds of requests and replies in TypeOK are not inductive: a line or a
\* message that has not been read yet must not have been counted either.
TypeInv ==
    /\ TypeOK
    /\ requests + Len(buffered) + Len(typed) <= line_count
    /\ replies + Len(inbox) <= message_count

\* What TypeInv says of each part of the state, for steps that leave it alone.
ControlOK ==
    /\ pc \in {"Poll", "Serve", "Input", "Bye", "Done", "Killed"}
    /\ in_handler \in BOOLEAN /\ ret \in {"running", "success", "failure", "SIGPIPE"}
ChatOK == client_state \in {"START", "AUTH", "OPEN"} /\ reply_msg_sent \in BOOLEAN
ReventsOK == socket_revents \in BOOLEAN /\ stdin_revents \in BOOLEAN
NetworkOK ==
    link \in {"up", "reset", "dead"} /\ sent \in Seq({"AUTH", "JOIN", "MSG", "ERR", "BYE"})
UserOK ==
    /\ terminal \in BOOLEAN /\ stdin_closed \in BOOLEAN /\ line_count \in 0 .. MaxLines
    /\ typed \in Seq(Lines) /\ buffered \in Seq(Lines)
    /\ requests \in 0 .. line_count /\ requests + Len(buffered) + Len(typed) <= line_count
ServerOK ==
    /\ inbox \in Seq(Messages) /\ half \in BOOLEAN /\ server_closed \in BOOLEAN
    /\ message_count \in 0 .. MaxMessages
    /\ replies \in 0 .. message_count /\ replies + Len(inbox) <= message_count

LEMMA TypeParts ==
    TypeInv <=> ControlOK /\ ChatOK /\ ReventsOK /\ NetworkOK /\ UserOK /\ ServerOK
BY DEF TypeInv, TypeOK, ControlOK, ChatOK, ReventsOK, NetworkOK, UserOK, ServerOK

LEMMA PartsUnchanged ==
    /\ ChatOK /\ UNCHANGED chat => ChatOK'
    /\ ReventsOK /\ UNCHANGED revents => ReventsOK'
    /\ NetworkOK /\ UNCHANGED network => NetworkOK'
    /\ UserOK /\ UNCHANGED <<user, requests>> => UserOK'
    /\ ServerOK /\ UNCHANGED <<server, replies>> => ServerOK'
<1>1. ChatOK /\ UNCHANGED chat => ChatOK'
  BY DEF ChatOK, chat
<1>2. ReventsOK /\ UNCHANGED revents => ReventsOK'
  BY DEF ReventsOK, revents
<1>3. NetworkOK /\ UNCHANGED network => NetworkOK'
  BY DEF NetworkOK, network
<1>4. UserOK /\ UNCHANGED <<user, requests>> => UserOK'
  BY DEF UserOK, user, lines
<1>5. ServerOK /\ UNCHANGED <<server, replies>> => ServerOK'
  BY DEF ServerOK, server
<1> QED
  BY <1>1, <1>2, <1>3, <1>4, <1>5

LEMMA EmptyTyped == ASSUME NEW S PROVE <<>> \in Seq(S) /\ Len(<<>>) = 0
OBVIOUS

LEMMA OneTyped == ASSUME NEW S, NEW x \in S PROVE <<x>> \in Seq(S)
OBVIOUS

\* Whatever becomes of a send, only messages of the protocol have been sent.
LEMMA SendTyped ==
    ASSUME NetworkOK, NEW messages \in Seq({"AUTH", "JOIN", "MSG", "ERR", "BYE"}), NEW next,
           Send(messages, next)
    PROVE  /\ NetworkOK' /\ pc' \in {next, "Killed"}
           /\ link = "dead" => ret' = "SIGPIPE"
<1> DEFINE Kinds == {"AUTH", "JOIN", "MSG", "ERR", "BYE"}
<1>1. sent \in Seq(Kinds) /\ messages \in Seq(Kinds)
  BY DEF NetworkOK
<1> HIDE DEF Kinds
<1>2. sent \o messages \in Seq(Kinds)
  BY <1>1
<1>3. sent' \in Seq(Kinds) /\ link' \in {"up", "reset", "dead"}
  BY <1>1, <1>2 DEF Send, network, NetworkOK
<1> QED
  BY <1>3 DEF Send, NetworkOK, Kinds

\* accept_msg takes one message from the inbox.
LEMMA AcceptTakesOne ==
    ASSUME TypeInv, NEW m, Accept(m)
    PROVE  /\ inbox' \in Seq(Messages)
           /\ replies + Len(inbox') + 1 <= message_count
           /\ UNCHANGED <<half, server_closed, message_count, revents, user, in_handler>>
BY DEF TypeInv, TypeOK, Accept

\* getline takes one line, from the buffer or from what was typed.
LEMMA ReadTakesOne ==
    ASSUME TypeInv, NEW u, ReadLine(u)
    PROVE  /\ typed' \in Seq(Lines) /\ buffered' \in Seq(Lines)
           /\ requests + Len(buffered') + Len(typed') + 1 <= line_count
           /\ UNCHANGED <<terminal, stdin_closed, line_count, revents, server, in_handler,
                          replies>>
<1>1. /\ typed \in Seq(Lines) /\ buffered \in Seq(Lines)
      /\ requests \in Nat /\ line_count \in Nat
      /\ requests + Len(buffered) + Len(typed) <= line_count
  BY ConstantsAssumption DEF TypeInv, TypeOK
<1>2. UNCHANGED <<terminal, stdin_closed, line_count, revents, server, in_handler, replies>>
  BY DEF ReadLine
<1>3. CASE buffered # <<>>
  <2>1. buffered' = Tail(buffered) /\ typed' = typed
    BY <1>3 DEF ReadLine
  <2>2. Tail(buffered) \in Seq(Lines) /\ Len(Tail(buffered)) = Len(buffered) - 1
    BY <1>1, <1>3
  <2> QED
    BY <1>1, <1>2, <2>1, <2>2
<1>4. CASE buffered = <<>>
  <2>1. buffered \o typed = typed /\ Len(buffered) = 0
    BY <1>1, <1>4
  <2>2. typed # <<>>
    BY <2>1 DEF ReadLine
  <2>3. Tail(typed) \in Seq(Lines) /\ Len(Tail(typed)) = Len(typed) - 1
    BY <1>1, <2>2
  <2>4. CASE terminal
    <3>1. typed' = Tail(typed) /\ buffered' = buffered
      BY <1>4, <2>4 DEF ReadLine
    <3> QED
      BY <1>1, <1>2, <2>1, <2>3, <3>1
  <2>5. CASE ~terminal
    <3>1. buffered' = Tail(typed) /\ typed' = <<>>
      BY <1>4, <2>5 DEF ReadLine
    <3>2. Len(typed') = 0 /\ typed' \in Seq(Lines)
      BY <3>1
    <3> QED
      BY <1>1, <1>2, <2>1, <2>3, <3>1, <3>2
  <2> QED
    BY <2>4, <2>5
<1> QED
  BY <1>3, <1>4

\* It is inductive: the branches of the socket, those of the input, the others.
LEMMA TypeInductive == Spec => []TypeInv
<1>1. Init => TypeInv
  <2>1. /\ 0 \in 0 .. MaxLines /\ 0 \in 0 .. MaxMessages /\ 0 \in 0 .. 0
        /\ 0 + 0 <= 0 /\ 0 + 0 + 0 <= 0
    BY ConstantsAssumption
  <2>2. <<>> \in Seq(Lines) /\ <<>> \in Seq(Messages) /\ Len(<<>>) = 0
    BY EmptyTyped
  <2>3. Init => ControlOK /\ ChatOK /\ ReventsOK
    BY DEF Init, ControlOK, ChatOK, ReventsOK
  <2>4. Init => NetworkOK
    BY EmptyTyped DEF Init, NetworkOK
  <2>5. Init => UserOK
    BY <2>1, <2>2, Zenon DEF Init, UserOK
  <2>6. Init => ServerOK
    BY <2>1, <2>2, Zenon DEF Init, ServerOK
  <2> QED
    BY <2>3, <2>4, <2>5, <2>6, TypeParts
<1>2. TypeInv /\ [Next]_vars => TypeInv'
  <2> SUFFICES ASSUME TypeInv, [Next]_vars
               PROVE  (ControlOK /\ ChatOK /\ ReventsOK /\ NetworkOK /\ UserOK /\ ServerOK)'
    BY TypeParts, PTL
  <2>0. ControlOK /\ ChatOK /\ ReventsOK /\ NetworkOK /\ UserOK /\ ServerOK
    BY TypeParts
  <2>1. CASE Poll
    <3>1. ControlOK' /\ ReventsOK'
      BY <2>1, <2>0 DEF Poll, SocketReadable, StdinRevents, StdinReadable, ControlOK, ReventsOK,
                        exit
    <3> QED
      BY <2>1, <2>0, <3>1, PartsUnchanged DEF Poll, history
  <2>2. CASE PollFails
    BY <2>2, <2>0, PartsUnchanged DEF PollFails, Leave, ControlOK, history
  <2>3. CASE RefuseMessage
    <3>1. PICK m : /\ Accept(m) /\ Send(<<"ERR">>, "Bye") /\ (link # "dead" => ret' = "failure")
                   /\ UNCHANGED <<chat, history>>
      BY <2>3 DEF RefuseMessage
    <3>2. <<"ERR">> \in Seq({"AUTH", "JOIN", "MSG", "ERR", "BYE"})
      OBVIOUS
    <3>3. NetworkOK' /\ ControlOK'
      BY <3>1, <3>2, <2>0, SendTyped, AcceptTakesOne DEF ControlOK
    <3>4. ServerOK'
      BY <3>1, <2>0, AcceptTakesOne DEF ServerOK, history
    <3> QED
      BY <3>1, <3>3, <3>4, <2>0, AcceptTakesOne, PartsUnchanged DEF history
  <2>4. CASE ServerErr \/ ServerBye \/ ChatMessage \/ StrayReply
    <3>1. PICK m : Accept(m)
      BY <2>4 DEF ServerErr, ServerBye, ChatMessage, StrayReply
    <3>2. UNCHANGED <<chat, network, history>> /\ ControlOK'
      BY <2>4, <2>0, <3>1, AcceptTakesOne
      DEF ServerErr, ServerBye, ChatMessage, StrayReply, Leave, EndTurn, ToInput, ControlOK
    <3>3. ServerOK'
      BY <3>1, <3>2, <2>0, AcceptTakesOne DEF ServerOK, history
    <3> QED
      BY <3>1, <3>2, <3>3, <2>0, AcceptTakesOne, PartsUnchanged DEF history
  <2>5. CASE ExpectedReply
    <3>1. PICK m : Accept(m)
      BY <2>5 DEF ExpectedReply
    <3>2. UNCHANGED <<network, requests>> /\ ControlOK' /\ ChatOK'
      BY <2>5, <2>0, <3>1, AcceptTakesOne DEF ExpectedReply, ControlOK, ChatOK
    <3>3. replies' = replies + 1
      BY <2>5 DEF ExpectedReply
    <3>4. ServerOK'
      BY <3>1, <3>3, <2>0, AcceptTakesOne DEF ServerOK
    <3> QED
      BY <3>1, <3>2, <3>4, <2>0, AcceptTakesOne, PartsUnchanged
  <2>6. CASE ConnectionLost
    <3>1. ControlOK' /\ NetworkOK'
      BY <2>6, <2>0 DEF ConnectionLost, Leave, ControlOK, NetworkOK
    <3> QED
      BY <2>6, <3>1, <2>0, PartsUnchanged DEF ConnectionLost, history
  <2>7. CASE SkipInput \/ EndOfInput \/ Interrupt
    <3>1. ControlOK'
      BY <2>7, <2>0 DEF SkipInput, EndOfInput, Interrupt, Leave, ControlOK, exit
    <3> QED
      BY <2>7, <3>1, <2>0, PartsUnchanged DEF SkipInput, EndOfInput, Interrupt, history
  <2>8. CASE SubmitLine
    <3>1. PICK u \in Lines :
             /\ ReadLine(u)
             /\ Send(IF u.wire THEN <<u.type>> ELSE <<>>, "Poll")
             /\ link # "dead" => UNCHANGED ret
             /\ u.type \in {"AUTH", "JOIN", "MSG"}
             /\ reply_msg_sent' = (NeedsReply(u) \/ reply_msg_sent)
             /\ client_state' = IF client_state = "START" THEN "AUTH" ELSE client_state
             /\ requests' = IF NeedsReply(u) THEN requests + 1 ELSE requests
      BY <2>8, ConstantsAssumption DEF SubmitLine, Accepted, LineTypes
    <3>2. ChatOK'
      BY <3>1, <2>0 DEF ChatOK, NeedsReply
    <3>3. (IF u.wire THEN <<u.type>> ELSE <<>>) \in Seq({"AUTH", "JOIN", "MSG", "ERR", "BYE"})
      <4>1. u.type \in {"AUTH", "JOIN", "MSG", "ERR", "BYE"}
        BY <3>1
      <4> QED
        BY <4>1, EmptyTyped, OneTyped
    <3>4. NetworkOK' /\ ControlOK'
      BY <3>1, <3>3, <2>0, SendTyped, ReadTakesOne DEF ControlOK
    <3>5. UserOK'
      BY <3>1, <2>0, ReadTakesOne DEF UserOK
    <3> QED
      BY <3>1, <3>2, <3>4, <3>5, <2>0, ReadTakesOne, PartsUnchanged
  <2>9. CASE KeepLine
    <3>1. PICK u \in Lines : /\ ReadLine(u) /\ pc' = "Poll"
                             /\ UNCHANGED <<chat, network, ret, requests>>
      BY <2>9 DEF KeepLine
    <3>2. ControlOK' /\ UserOK'
      BY <3>1, <2>0, ReadTakesOne DEF ControlOK, UserOK
    <3> QED
      BY <3>1, <3>2, <2>0, ReadTakesOne, PartsUnchanged
  <2>10. CASE SendBye
    <3>1. Send(<<"BYE">>, "Done") /\ (link # "dead" => UNCHANGED ret)
      BY <2>10 DEF SendBye
    <3>2. <<"BYE">> \in Seq({"AUTH", "JOIN", "MSG", "ERR", "BYE"})
      OBVIOUS
    <3>3. UNCHANGED <<chat, revents, user, server, in_handler, history>>
      BY <2>10 DEF SendBye
    <3>4. NetworkOK' /\ ControlOK'
      BY <3>1, <3>2, <3>3, <2>0, SendTyped DEF ControlOK
    <3> QED
      BY <3>3, <3>4, <2>0, PartsUnchanged DEF history
  <2>11. CASE \E u \in Lines : TypeLine(u)
    <3>1. ControlOK' /\ UserOK'
      BY <2>11, <2>0, ConstantsAssumption DEF TypeLine, ControlOK, UserOK, exit, history
    <3> QED
      BY <2>11, <3>1, <2>0, PartsUnchanged DEF TypeLine, history
  <2>12. CASE CloseStdin
    <3>1. ControlOK' /\ UserOK'
      BY <2>12, <2>0 DEF CloseStdin, ControlOK, UserOK, lines, exit, history
    <3> QED
      BY <2>12, <3>1, <2>0, PartsUnchanged DEF CloseStdin, history
  <2>13. CASE \E m \in Messages : ServerSends(m)
    <3>1. PICK m \in Messages : ServerSends(m)
      BY <2>13
    <3>2. ControlOK'
      BY <3>1, <2>0 DEF ServerSends, ControlOK, exit
    <3>3. /\ inbox' = Append(inbox, m) /\ message_count < MaxMessages
          /\ message_count' = message_count + 1 /\ replies' = replies
          /\ half' = FALSE /\ server_closed' = server_closed
      BY <3>1 DEF ServerSends, history
    <3>4. inbox' \in Seq(Messages) /\ Len(inbox') = Len(inbox) + 1
      BY <3>1, <3>3, <2>0 DEF ServerOK
    <3>5. ServerOK'
      <4>1. /\ message_count \in Nat /\ replies \in Nat /\ Len(inbox) \in Nat
            /\ replies + Len(inbox) <= message_count /\ replies <= message_count
            /\ MaxMessages \in Nat
        BY <2>0, ConstantsAssumption DEF ServerOK
      <4>2. /\ message_count' \in 0 .. MaxMessages /\ replies' \in 0 .. message_count'
            /\ replies' + Len(inbox') <= message_count'
        BY <3>3, <3>4, <4>1
      <4>3. half' \in BOOLEAN /\ server_closed' \in BOOLEAN
        BY <3>3, <2>0, Zenon DEF ServerOK
      <4> QED
        BY <3>4, <4>2, <4>3, Zenon DEF ServerOK
    <3> QED
      BY <3>1, <3>2, <3>5, <2>0, PartsUnchanged DEF ServerSends, history
  <2>14. CASE ServerStalls \/ ServerCloses
    <3>1. ControlOK' /\ ServerOK'
      BY <2>14, <2>0 DEF ServerStalls, ServerCloses, ControlOK, ServerOK, exit, history
    <3> QED
      BY <2>14, <3>1, <2>0, PartsUnchanged DEF ServerStalls, ServerCloses, history
  <2>15. CASE ServerResets
    <3>1. ControlOK' /\ ServerOK' /\ NetworkOK'
      BY <2>15, <2>0 DEF ServerResets, ControlOK, ServerOK, NetworkOK, exit, history
    <3> QED
      BY <2>15, <3>1, <2>0, PartsUnchanged DEF ServerResets, history
  <2>16. CASE UNCHANGED vars
    <3>1. ControlOK'
      BY <2>16, <2>0 DEF vars, ControlOK, exit
    <3> QED
      BY <2>16, <3>1, <2>0, PartsUnchanged DEF vars, history
  <2> QED
    BY <2>1, <2>2, <2>3, <2>4, <2>5, <2>6, <2>7, <2>8, <2>9, <2>10, <2>11, <2>12, <2>13,
       <2>14, <2>15, <2>16
    DEF Next, Serve, Input, Environment
<1> QED
  BY <1>1, <1>2, PTL DEF Spec

\* Every variable keeps its type; no line and no message is counted twice.
THEOREM TcpTypeCorrect == Spec => []TypeOK
<1>1. TypeInv => TypeOK
  BY DEF TypeInv
<1> QED
  BY <1>1, TypeInductive, PTL

-----------------------------------------------------------------------------
(* The way out. *)

\* A reason to leave is given when, and only when, the chat is over.
LeavingInv ==
    /\ ret = "running" <=> pc \in {"Poll", "Serve", "Input"}
    /\ pc = "Killed" <=> ret = "SIGPIPE"

\* The client leaves as Departure says: nothing but a BYE after exit_program has
\* been called, and an exit code that only CTRL-C or a broken connection changes.

LEMMA LeavingInductive == Spec => []LeavingInv
<1>1. Init => LeavingInv
  BY DEF Init, LeavingInv
<1>2. LeavingInv /\ TypeInv /\ [Next]_vars => LeavingInv'
  <2> SUFFICES ASSUME LeavingInv, TypeInv, [Next]_vars PROVE LeavingInv'
    OBVIOUS
  <2>0. ret \in {"running", "success", "failure", "SIGPIPE"}
    BY DEF TypeInv, TypeOK
  <2> USE DEF LeavingInv
  <2>1. CASE Poll \/ SkipInput \/ KeepLine \/ ChatMessage \/ StrayReply \/ ExpectedReply
    BY <2>1 DEF Poll, SkipInput, KeepLine, ReadLine, ChatMessage, StrayReply, ExpectedReply,
                Accept, EndTurn, ToInput, exit
  <2>2. CASE PollFails \/ ServerErr \/ ServerBye \/ ConnectionLost \/ EndOfInput \/ Interrupt
    BY <2>2 DEF PollFails, ServerErr, ServerBye, ConnectionLost, EndOfInput, Interrupt, Leave
  <2>3. CASE RefuseMessage
    BY <2>3 DEF RefuseMessage, Send
  <2>4. CASE SubmitLine
    <3>1. pc = "Input" /\ (link # "dead" => ret' = ret)
          /\ (IF link = "dead" THEN pc' = "Killed" /\ ret' = "SIGPIPE" ELSE pc' = "Poll")
      BY <2>4 DEF SubmitLine, ReadLine, Send
    <3> QED
      BY <3>1
  <2>5. CASE SendBye
    <3>1. pc = "Bye" /\ (link # "dead" => ret' = ret)
          /\ (IF link = "dead" THEN pc' = "Killed" /\ ret' = "SIGPIPE" ELSE pc' = "Done")
      BY <2>5 DEF SendBye, Send
    <3> QED
      BY <3>1
  <2>6. CASE Environment \/ UNCHANGED vars
    BY <2>6 DEF Environment, TypeLine, CloseStdin, ServerSends, ServerStalls, ServerCloses,
                ServerResets, vars, exit
  <2> QED
    BY <2>1, <2>2, <2>3, <2>4, <2>5, <2>6 DEF Next, Serve, Input
<1> QED
  BY <1>1, <1>2, TypeInductive, PTL DEF Spec

\* The client leaves as Departure says: nothing but a BYE after exit_program has
\* been called, and an exit code that only CTRL-C or a broken connection changes.
THEOREM LeavesInOrder == Spec => DepartureSpec
<1> DEFINE phase == IF pc = "Bye" THEN "leaving"
                    ELSE IF pc \in {"Done", "Killed"} THEN "gone" ELSE "chatting"
           code == IF ret = "running" THEN "none"
                   ELSE IF ret = "SIGPIPE" THEN "failure" ELSE ret
           said == {i \in DOMAIN sent : sent[i] # "BYE"}
<1>1. Init => Exits!Init
  BY DEF Init, Exits!Init
<1>2. LeavingInv /\ TypeInv /\ [Next]_vars => [Exits!Next]_(Exits!vars)
  <2> SUFFICES ASSUME LeavingInv, TypeInv, [Next]_vars
               PROVE  Exits!Next \/ UNCHANGED <<phase, code, said>>
    BY DEF Exits!vars
  <2>0. ret \in {"running", "success", "failure", "SIGPIPE"}
    BY DEF TypeInv, TypeOK
  <2> USE DEF LeavingInv
  <2>1. CASE Poll \/ SkipInput \/ KeepLine \/ ChatMessage \/ StrayReply \/ ExpectedReply
    BY <2>1 DEF Poll, SkipInput, KeepLine, ReadLine, ChatMessage, StrayReply, ExpectedReply,
                Accept, EndTurn, ToInput, exit, network
  <2>2. CASE PollFails \/ ServerErr \/ ServerBye \/ ConnectionLost \/ EndOfInput
    <3>1. pc \in {"Poll", "Serve", "Input"} /\ sent' = sent /\ pc' \in {"Bye", "Done"}
          /\ ret' \in {"success", "failure"}
      BY <2>2 DEF PollFails, ServerErr, ServerBye, ConnectionLost, EndOfInput, Leave, Accept,
                  network
    <3>2. Exits!Leave
      BY <3>1 DEF Exits!Leave
    <3> QED
      BY <3>2 DEF Exits!Next
  <2>3. CASE RefuseMessage
    <3>1. pc = "Serve" /\ pc' \in {"Bye", "Killed"} /\ ret' \in {"failure", "SIGPIPE"}
      BY <2>3 DEF RefuseMessage, Send, Accept
    <3>2. Exits!Leave
      BY <3>1 DEF Exits!Leave
    <3> QED
      BY <3>2 DEF Exits!Next
  <2>4. CASE SubmitLine
    <3>1. pc = "Input" /\ (link # "dead" => ret' = ret)
          /\ (IF link = "dead" THEN pc' = "Killed" /\ ret' = "SIGPIPE" ELSE pc' = "Poll")
      BY <2>4 DEF SubmitLine, ReadLine, Send
    <3>2. CASE link = "dead"
      BY <3>1, <3>2 DEF Exits!Leave, Exits!Next
    <3>3. CASE link # "dead"
      BY <3>1, <3>3 DEF Exits!Talk, Exits!Next
    <3> QED
      BY <3>2, <3>3
  <2>5. CASE SendBye
    <3>1. pc = "Bye" /\ Send(<<"BYE">>, "Done") /\ (link # "dead" => ret' = ret)
      BY <2>5 DEF SendBye
    <3>2. CASE link = "dead"
      <4>1. pc' = "Killed" /\ ret' = "SIGPIPE" /\ sent' = sent
        BY <3>1, <3>2 DEF Send, network
      <4> QED
        BY <3>1, <4>1 DEF Exits!Break, Exits!Next
    <3>3. CASE link # "dead"
      <4>1. pc' = "Done" /\ ret' = ret /\ sent' \in {sent, Append(sent, "BYE")}
        <5>1. sent \in Seq({"AUTH", "JOIN", "MSG", "ERR", "BYE"})
          BY DEF TypeInv, TypeOK
        <5>2. sent \o <<"BYE">> = Append(sent, "BYE")
          BY <5>1
        <5> QED
          BY <3>1, <3>3, <5>2 DEF Send
      <4>2. {i \in DOMAIN sent' : sent'[i] # "BYE"} = {i \in DOMAIN sent : sent[i] # "BYE"}
        <5>1. sent \in Seq({"AUTH", "JOIN", "MSG", "ERR", "BYE"})
          BY DEF TypeInv, TypeOK
        <5> QED
          BY <4>1, <5>1
      <4> QED
        BY <3>1, <4>1, <4>2 DEF Exits!Go, Exits!Next
    <3> QED
      BY <3>2, <3>3
  <2>6. CASE Interrupt
    <3>1. pc \notin {"Done", "Killed"} /\ pc' \in {"Bye", "Done"} /\ ret' = "success"
          /\ sent' = sent
      BY <2>6 DEF Interrupt, Leave, network
    <3>2. CASE pc = "Bye"
      BY <3>1, <3>2 DEF Exits!InterruptLeaving, Exits!Next
    <3>3. CASE pc # "Bye"
      BY <3>1, <3>3 DEF Exits!Leave, Exits!Next
    <3> QED
      BY <3>2, <3>3
  <2>7. CASE Environment \/ UNCHANGED vars
    BY <2>7 DEF Environment, TypeLine, CloseStdin, ServerSends, ServerStalls, ServerCloses,
                ServerResets, vars, exit, network
  <2> QED
    BY <2>1, <2>2, <2>3, <2>4, <2>5, <2>6, <2>7 DEF Next, Serve, Input
<1> QED
  BY <1>1, <1>2, LeavingInductive, TypeInductive, PTL DEF Spec, DepartureSpec, Exits!Spec
=============================================================================
