--------------------------- MODULE UserInputProofs ---------------------------
(***************************************************************************)
(* Theorems about UserInput, for every set of lines a user may type.  The  *)
(* inductive invariant says what the loop over the words has found out     *)
(* when it has looked at so many of them; what is sent, renamed and put    *)
(* into the buffer follows from it when the loop is over.                  *)
(***************************************************************************)
EXTENDS UserInput, TLAPS

-----------------------------------------------------------------------------
(* What the loop knows. *)

First == line.words[1].says
Param(i) == line.words[i]
WordsAre(n) == Len(line.words) = n

\* The name is that of the client until the line gives another one.
NameKept == msg.dname = dname

GoesOn == msg.ready /\ msg.valid /\ ~msg.left
Reported == ~msg.ready /\ ~msg.valid /\ msg.left

Untouched ==
    fragment = 0 /\ msg.type = "USER_CMD" /\ GoesOn /\ NameKept /\ msg.part = 1

BadCommand ==
    /\ fragment = 1 /\ msg.type = "USER_CMD" /\ Reported /\ NameKept
    /\ First # "text"
    /\ First = "/auth" => ~WordsAre(4)
    /\ First \in {"/join", "/rename"} => ~WordsAre(2)

Help ==
    /\ fragment = 1 /\ First = "/help" /\ msg.type = "HELP"
    /\ ~msg.ready /\ msg.left /\ NameKept

Chat ==
    /\ fragment >= 1 /\ First = "text" /\ msg.type = "MSG" /\ NameKept
    /\ msg.ready /\ (msg.valid <=> Fits(line, "MSG")) /\ (msg.left <=> ~msg.valid)

ParamsFit(n) ==
    /\ n >= 2 => Fits(Param(2), "ID")
    /\ n >= 3 => Fits(Param(3), "SECRET")
    /\ n >= 4 => Fits(Param(4), "DNAME")

Auth ==
    /\ First = "/auth" /\ WordsAre(4) /\ msg.type = "AUTH" /\ fragment \in 1 .. 4
    /\ \/ /\ GoesOn /\ ParamsFit(fragment)
          /\ fragment < 4 => NameKept /\ msg.part = fragment
          /\ fragment = 4 => msg.dname = Name(Param(4))
       \/ Reported /\ NameKept /\ ~ParamsFit(4)

Join ==
    /\ First = "/join" /\ WordsAre(2) /\ msg.type = "JOIN" /\ NameKept /\ fragment \in 1 .. 2
    /\ \/ GoesOn /\ (fragment = 2 => Fits(Param(2), "ID"))
       \/ Reported /\ ~Fits(Param(2), "ID")

Rename ==
    /\ First = "/rename" /\ WordsAre(2) /\ msg.type = "RENAME"
    /\ \/ fragment = 1 /\ GoesOn /\ NameKept
       \/ /\ fragment = 2 /\ ~msg.ready /\ msg.valid /\ ~msg.left
          /\ Fits(Param(2), "ID") /\ msg.dname = Name(Param(2))
       \/ fragment = 2 /\ Reported /\ NameKept /\ ~Fits(Param(2), "ID")

LoopInv ==
    line # NoLine => Untouched \/ BadCommand \/ Help \/ Chat \/ Auth \/ Join \/ Rename

Inv == TypeOK /\ LoopInv /\ NameIsAllowed

-----------------------------------------------------------------------------
(* The loop. *)

LEMMA LimitValues ==
    /\ Limit("ID") = 20 /\ Limit("DNAME") = 20
    /\ Limit("SECRET") = 128 /\ Limit("MSG") = 1400
BY DEF Limit

\* Every word the loop looks at is one of the line.
LEMMA WordType ==
    ASSUME TypeOK, line # NoLine, ~LineIsChecked
    PROVE  /\ ~msg.left /\ fragment \in Nat /\ fragment + 1 \in 1 .. Len(line.words)
           /\ line.words[fragment + 1] \in Words
<1>1. line.words \in Seq(Words) /\ fragment \in 0 .. Len(line.words)
  BY DEF TypeOK, InputLines
<1>2. ~msg.left /\ fragment # Len(line.words)
  BY DEF LineIsChecked
<1>3. Len(line.words) \in Nat
  BY <1>1
<1>4. fragment + 1 \in 1 .. Len(line.words)
  BY <1>1, <1>2, <1>3
<1> QED
  BY <1>1, <1>2, <1>4

LEMMA WordKeepsType ==
    ASSUME NEW m \in Message, NEW word \in Words, NEW text \in InputLines,
           m.type # "HELP"
    PROVE  Word(m, word, text) \in Message
<1>1. Name(word) \in [size : Nat, chars : Chars]
  BY DEF Name, Words
<1>2. Faulty(m) \in Message
  BY DEF Faulty, Message
<1>3. CASE m.type = "USER_CMD"
  <2>1. \A type \in {"AUTH", "JOIN", "RENAME", "MSG"} : [m EXCEPT !.type = type] \in Message
    BY DEF Message
  <2>2. /\ [m EXCEPT !.type = "HELP", !.ready = FALSE, !.left = TRUE] \in Message
        /\ [m EXCEPT !.type = "MSG", !.valid = FALSE, !.left = TRUE] \in Message
    BY DEF Message
  <2>3. word.says \in {"/auth", "/join", "/rename", "/help", "/unknown", "text"}
    BY DEF Words, Commands
  <2>4. Word(m, word, text) = FirstWord(m, word, text)
    BY <1>3 DEF Word
  <2> QED
    BY <1>2, <2>1, <2>2, <2>3, <2>4 DEF FirstWord
<1>4. CASE m.type = "AUTH"
  <2>1. m.part < 3 => [m EXCEPT !.part = m.part + 1] \in Message
    BY DEF Message
  <2>2. [m EXCEPT !.dname = Name(word)] \in Message
    BY <1>1 DEF Message
  <2>3. Word(m, word, text) = AuthWord(m, word)
    BY <1>4 DEF Word
  <2> QED
    BY <1>2, <2>1, <2>2, <2>3 DEF AuthWord
<1>5. CASE m.type = "JOIN"
  BY <1>2, <1>5 DEF Word, JoinWord
<1>6. CASE m.type = "RENAME"
  BY <1>1, <1>2, <1>6 DEF Word, RenameWord, Message
<1>7. CASE m.type = "MSG"
  BY <1>7 DEF Word
<1> QED
  BY <1>3, <1>4, <1>5, <1>6, <1>7 DEF Message

\* What a step of the loop leaves alone, and what it works on.
LEMMA CheckFrame ==
    ASSUME TypeOK, CheckWord
    PROVE  /\ UNCHANGED <<client_state, dname, line, public_name, line_count>>
           /\ line' # NoLine /\ fragment \in Nat /\ fragment' = fragment + 1
           /\ fragment' \in 1 .. Len(line.words) /\ Len(line.words) \in Nat
           /\ line.words[fragment'] \in Words /\ line \in InputLines
           /\ msg' = Word(msg, line.words[fragment'], line) /\ ~msg.left
           /\ msg \in Message
<1>1. line.words \in Seq(Words) /\ line \in InputLines
  BY DEF CheckWord, TypeOK, InputLines
<1> QED
  BY <1>1, WordType DEF CheckWord, TypeOK

LEMMA FirstStep ==
    ASSUME TypeOK, CheckWord, Untouched
    PROVE  (BadCommand \/ Help \/ Chat \/ Auth \/ Join \/ Rename)'
<1> DEFINE w == line.words[1]
<1>0. /\ UNCHANGED <<dname, line>> /\ fragment' = 1 /\ msg \in Message /\ w \in Words
      /\ 1 <= Len(line.words) /\ Len(line.words) \in Nat
      /\ msg' = FirstWord(msg, w, line)
  BY CheckFrame DEF Untouched, Word
<1>1. w.says \in Commands \cup {"text"}
  BY <1>0 DEF Words
<1>2. First' = w.says /\ First = w.says /\ Len(line'.words) = Len(line.words)
  BY <1>0 DEF First
<1>3. msg.type = "USER_CMD" /\ GoesOn /\ NameKept /\ msg.part = 1
  BY DEF Untouched
<1> HIDE DEF w
<1>4. ASSUME msg' = Faulty(msg) PROVE msg'.type = "USER_CMD" /\ Reported' /\ NameKept'
  BY <1>0, <1>3, <1>4 DEF Faulty, Reported, NameKept, Message
<1>5. CASE w.says = "/auth"
  <2>1. CASE WordsAre(4)
    BY <1>0, <1>2, <1>3, <1>5, <2>1
    DEF FirstWord, Auth, WordsAre, GoesOn, NameKept, ParamsFit, Message
  <2>2. CASE ~WordsAre(4)
    BY <1>0, <1>2, <1>4, <1>5, <2>2 DEF FirstWord, BadCommand, WordsAre
  <2> QED
    BY <2>1, <2>2
<1>6. CASE w.says = "/join"
  BY <1>0, <1>2, <1>3, <1>4, <1>6
  DEF FirstWord, Join, BadCommand, WordsAre, GoesOn, NameKept, Message
<1>7. CASE w.says = "/rename"
  BY <1>0, <1>2, <1>3, <1>4, <1>7
  DEF FirstWord, Rename, BadCommand, WordsAre, GoesOn, NameKept, Message
<1>8. CASE w.says = "/help"
  BY <1>0, <1>2, <1>3, <1>8 DEF FirstWord, Help, NameKept, Message
<1>9. CASE w.says = "/unknown"
  BY <1>0, <1>2, <1>4, <1>9 DEF FirstWord, BadCommand
<1>10. CASE w.says = "text"
  <2>1. Fits(line, "MSG")' = Fits(line, "MSG")
    BY <1>0
  <2> QED
    BY <1>0, <1>2, <1>3, <1>10, <2>1 DEF FirstWord, Chat, GoesOn, NameKept, Message
<1> QED
  BY <1>1, <1>5, <1>6, <1>7, <1>8, <1>9, <1>10 DEF Commands

\* The parameters of /auth, one by one: an id, a secret, and a name.
LEMMA AuthStep ==
    ASSUME TypeOK, CheckWord, Auth
    PROVE  Auth'
<1> DEFINE w == line.words[fragment']
<1>0. /\ UNCHANGED <<dname, line>> /\ fragment' = fragment + 1 /\ fragment \in 1 .. 4
      /\ fragment' \in 1 .. 4 /\ msg \in Message /\ msg' = AuthWord(msg, w) /\ ~msg.left
  BY CheckFrame DEF Auth, Word, WordsAre
<1>1. /\ fragment \in 1 .. 3 /\ GoesOn /\ NameKept /\ msg.part = fragment
      /\ ParamsFit(fragment) /\ First = "/auth" /\ WordsAre(4) /\ msg.type = "AUTH"
  BY <1>0 DEF Auth, Reported
<1>2. First' = First /\ WordsAre(4)' /\ \A n \in 1 .. 4 : ParamsFit(n)' = ParamsFit(n)
  BY <1>0, <1>1 DEF First, WordsAre, ParamsFit, Param
<1>3. ASSUME msg' = Faulty(msg), ~ParamsFit(4) PROVE Auth'
  BY <1>0, <1>1, <1>2, <1>3 DEF Faulty, Auth, Reported, NameKept, Message
<1>4. ASSUME msg' = [msg EXCEPT !.part = @ + 1], fragment < 3, ParamsFit(fragment + 1)
      PROVE  Auth'
  BY <1>0, <1>1, <1>2, <1>4 DEF Auth, GoesOn, NameKept, Message
<1>5. CASE fragment = 1
  BY <1>0, <1>1, <1>3, <1>4, <1>5 DEF AuthWord, ParamsFit, Param
<1>6. CASE fragment = 2
  BY <1>0, <1>1, <1>3, <1>4, <1>6 DEF AuthWord, ParamsFit, Param
<1>7. CASE fragment = 3
  <2>1. CASE Fits(w, "DNAME")
    <3>1. msg' = [msg EXCEPT !.dname = Name(w)] /\ w = Param(4) /\ Param(4)' = Param(4)
      BY <1>0, <1>1, <1>7, <2>1 DEF AuthWord, Param
    <3>2. ParamsFit(4)
      BY <1>1, <1>7, <2>1, <3>1 DEF ParamsFit
    <3> QED
      BY <1>0, <1>1, <1>2, <1>7, <3>1, <3>2 DEF Auth, GoesOn, Message
  <2>2. CASE ~Fits(w, "DNAME")
    BY <1>0, <1>1, <1>3, <1>7, <2>2 DEF AuthWord, ParamsFit, Param
  <2> QED
    BY <2>1, <2>2
<1> QED
  BY <1>1, <1>5, <1>6, <1>7

LEMMA JoinStep ==
    ASSUME TypeOK, CheckWord, Join
    PROVE  Join'
<1>0. /\ UNCHANGED <<dname, line>> /\ fragment' = 2 /\ fragment = 1 /\ msg \in Message
      /\ msg' = JoinWord(msg, Param(2)) /\ GoesOn
  BY CheckFrame DEF Join, Word, WordsAre, Param, Reported
<1>1. Fits(Param(2), "ID")' = Fits(Param(2), "ID")
  BY <1>0 DEF Param
<1> QED
  BY <1>0, <1>1 DEF Join, JoinWord, Faulty, First, WordsAre, GoesOn, Reported, NameKept, Message

LEMMA RenameStep ==
    ASSUME TypeOK, CheckWord, Rename
    PROVE  Rename'
<1>0. /\ UNCHANGED <<dname, line>> /\ fragment' = 2 /\ fragment = 1 /\ msg \in Message
      /\ msg' = RenameWord(msg, Param(2)) /\ GoesOn /\ NameKept
  BY CheckFrame DEF Rename, Word, WordsAre, Param, Reported
<1>1. Param(2)' = Param(2) /\ Fits(Param(2), "ID")' = Fits(Param(2), "ID")
  BY <1>0 DEF Param
<1> QED
  BY <1>0, <1>1 DEF Rename, RenameWord, Faulty, First, WordsAre, GoesOn, Reported, NameKept, Message

LEMMA ChatStep ==
    ASSUME TypeOK, CheckWord, Chat
    PROVE  Chat'
<1>0. /\ UNCHANGED <<dname, line>> /\ fragment' = fragment + 1 /\ fragment \in Nat
      /\ UNCHANGED msg
  BY CheckFrame DEF Chat, Word
<1>1. Fits(line, "MSG")' = Fits(line, "MSG")
  BY <1>0
<1> QED
  BY <1>0, <1>1 DEF Chat, First, NameKept

-----------------------------------------------------------------------------
(* The invariant. *)

LEMMA CheckKeeps == ASSUME Inv, CheckWord PROVE Inv'
<1>0. TypeOK /\ line # NoLine /\ ~msg.left
  BY CheckFrame DEF Inv, CheckWord
<1>1. LoopInv'
  <2>1. ~BadCommand /\ ~Help
    BY <1>0 DEF BadCommand, Help, Reported
  <2>2. Untouched \/ Chat \/ Auth \/ Join \/ Rename
    BY <1>0, <2>1 DEF Inv, LoopInv
  <2>3. (Untouched \/ BadCommand \/ Help \/ Chat \/ Auth \/ Join \/ Rename)'
    BY <1>0, <2>2, FirstStep, AuthStep, JoinStep, RenameStep, ChatStep
  <2> QED
    BY <2>3 DEF LoopInv
<1>2. TypeOK'
  <2>1. msg.type # "HELP"
    BY <1>0 DEF Inv, LoopInv, Untouched, BadCommand, Reported, Help, Chat, Auth, Join, Rename
  <2>2. msg' \in Message
    BY <1>0, <2>1, CheckFrame, WordKeepsType
  <2> QED
    BY <1>0, <2>2, CheckFrame DEF TypeOK
<1> QED
  BY <1>0, <1>1, <1>2, CheckFrame DEF Inv, NameIsAllowed

\* A name the line has given is one the protocol allows.
LEMMA NewNameIsAllowed ==
    ASSUME Inv, line # NoLine
    PROVE  msg.dname.size <= 20 /\ msg.dname.chars # "other"
<1>1. CASE NameKept
  BY <1>1 DEF NameKept, Inv, NameIsAllowed
<1>2. CASE Auth /\ ~NameKept
  <2>1. Fits(Param(4), "DNAME") /\ msg.dname = Name(Param(4))
    BY <1>2 DEF Auth, ParamsFit
  <2> QED
    BY <2>1, LimitValues DEF Fits, Name
<1>3. CASE Rename /\ ~NameKept
  <2>1. Fits(Param(2), "ID") /\ msg.dname = Name(Param(2))
    BY <1>3 DEF Rename
  <2> QED
    BY <2>1, LimitValues DEF Fits, Name
<1> QED
  BY <1>1, <1>2, <1>3 DEF Inv, LoopInv, Untouched, BadCommand, Help, Chat, Join

LEMMA UnreadType ==
    ASSUME NEW name \in [size : Nat, chars : Chars]
    PROVE  Unread(name) \in Message
BY DEF Unread, Message

LEMMA NoNameType == NoName \in [size : Nat, chars : Chars]
BY DEF NoName, Chars

LEMMA InvInit == Init => Inv
<1> SUFFICES ASSUME Init PROVE Inv
  OBVIOUS
<1>1. TypeOK
  BY UnreadType, NoNameType, LinesAssumption DEF Init, TypeOK
<1> QED
  BY <1>1 DEF Init, Inv, LoopInv, NameIsAllowed, NoName

LEMMA InvStep == Inv /\ [Next]_vars => Inv'
<1> SUFFICES ASSUME Inv, [Next]_vars PROVE Inv'
  OBVIOUS
<1>0. TypeOK
  BY DEF Inv
<1>1. ASSUME NEW l \in Lines, ReadLine(l) PROVE Inv'
  <2>1. l \in InputLines /\ MaxLines \in Nat
    BY LinesAssumption
  <2>2. Unread(dname) \in Message
    BY <1>0, UnreadType DEF TypeOK
  <2>3. l.words \in Seq(Words) /\ Len(l.words) \in Nat
    BY <2>1 DEF InputLines
  <2>4. TypeOK'
    BY <1>0, <1>1, <2>1, <2>2, <2>3 DEF ReadLine, TypeOK
  <2>5. Untouched'
    BY <1>1 DEF ReadLine, Unread, Untouched, GoesOn, NameKept
  <2> QED
    BY <1>1, <2>4, <2>5 DEF ReadLine, Inv, LoopInv, NameIsAllowed
<1>2. ASSUME ProcessLine PROVE Inv'
  <2>1. line # NoLine
    BY <1>2 DEF ProcessLine, LineIsChecked
  <2>2. dname' \in {dname, msg.dname} /\ public_name' \in {public_name, msg.dname}
    BY <1>2 DEF ProcessLine, TakeName
  <2>3. msg.dname \in [size : Nat, chars : Chars]
    BY <1>0 DEF TypeOK, Message
  <2>4. TypeOK'
    BY <1>0, <1>2, <2>2, <2>3, UnreadType, NoNameType DEF ProcessLine, TypeOK
  <2>5. NameIsAllowed'
    BY <2>1, <2>2, NewNameIsAllowed DEF Inv, NameIsAllowed
  <2> QED
    BY <1>2, <2>4, <2>5 DEF ProcessLine, Inv, LoopInv
<1>3. ASSUME ReplyOk PROVE Inv'
  BY <1>3 DEF ReplyOk, Inv, TypeOK, LoopInv, NameIsAllowed
<1>4. ASSUME UNCHANGED vars PROVE Inv'
  BY <1>4 DEF vars, Inv, TypeOK, LoopInv, NameIsAllowed, Untouched, BadCommand, Help, Chat,
              Auth, Join, Rename, First, Param, WordsAre, ParamsFit, NameKept, GoesOn, Reported
<1> QED
  BY <1>1, <1>2, <1>3, <1>4, CheckKeeps DEF Next

LEMMA InvAlways == Spec => []Inv
BY InvInit, InvStep, PTL DEF Spec

\* Every variable keeps its type: the loop's counter of parameters stays within
\* the three of /auth, and no word is looked for behind the last one.
THEOREM InputTypeCorrect == Spec => []TypeOK
BY InvAlways, PTL DEF Inv

\* Whatever lines are typed in whatever order, the name put into the next message
\* is one the protocol allows.
THEOREM NamesAreAllowed == Spec => []NameIsAllowed
BY InvAlways, PTL DEF Inv

-----------------------------------------------------------------------------
(* When the loop is over. *)

\* The limits of validate_msg_param are those of the grammar.
LEMMA FitsIsGrammar ==
    ASSUME NEW text, text.size \in Nat, text.chars \in Chars
    PROVE  /\ Fits(text, "ID") <=> text.size <= 20 /\ text.chars = "alnum"
           /\ Fits(text, "SECRET") <=> text.size <= 128 /\ text.chars = "alnum"
           /\ Fits(text, "DNAME") <=> text.size <= 20 /\ text.chars # "other"
           /\ Fits(text, "MSG") <=> text.size <= 1400 /\ text.chars # "other"
BY LimitValues DEF Fits, Chars

LEMMA ParamIsWord ==
    ASSUME TypeOK, line # NoLine, NEW i \in 1 .. Len(line.words)
    PROVE  Param(i).size \in Nat /\ Param(i).chars \in Chars
<1>1. line.words \in Seq(Words)
  BY DEF TypeOK, InputLines
<1>2. line.words[i] \in Words
  BY <1>1
<1> QED
  BY <1>2 DEF Param, Words

\* Exactly one case is left, and the grammar tells the cases apart.
LEMMA CheckedLine ==
    ASSUME Inv, LineIsChecked
    PROVE  /\ (Wire(msg) /\ msg.type = "AUTH") <=> IsAuth(line)
           /\ (Wire(msg) /\ msg.type = "JOIN") <=> IsJoin(line)
           /\ (Wire(msg) /\ msg.type = "MSG") <=> IsText(line)
           /\ Wire(msg) => msg.ready
<1> DEFINE Goal == /\ (Wire(msg) /\ msg.type = "AUTH") <=> IsAuth(line)
                   /\ (Wire(msg) /\ msg.type = "JOIN") <=> IsJoin(line)
                   /\ (Wire(msg) /\ msg.type = "MSG") <=> IsText(line)
                   /\ Wire(msg) => msg.ready
<1>0. /\ TypeOK /\ line # NoLine /\ (msg.left \/ fragment = Len(line.words))
      /\ line.words \in Seq(Words) /\ Len(line.words) \in Nat
      /\ line.size \in Nat /\ line.chars \in Chars
  BY DEF Inv, LineIsChecked, TypeOK, InputLines
<1>1. ASSUME Untouched PROVE Goal
  <2>1. Len(line.words) = 0
    BY <1>0, <1>1 DEF Untouched, GoesOn
  <2>2. line.words = <<>>
    BY <1>0, <2>1
  <2> QED
    BY <1>1, <2>1, <2>2 DEF Untouched, Wire, IsAuth, IsJoin, IsText
<1>2. ASSUME BadCommand PROVE Goal
  BY <1>2 DEF BadCommand, Reported, Wire, IsAuth, IsJoin, IsText, First, WordsAre
<1>3. ASSUME Help PROVE Goal
  BY <1>3 DEF Help, Wire, IsAuth, IsJoin, IsText, First
<1>4. ASSUME Chat PROVE Goal
  <2>1. line.words # <<>>
    <3>1. 0 < fragment /\ fragment \in 0 .. Len(line.words)
      BY <1>0, <1>4 DEF Chat, TypeOK
    <3> QED
      BY <1>0, <3>1
  <2>2. ~IsAuth(line) /\ ~IsJoin(line)
    BY <1>4 DEF Chat, First, IsAuth, IsJoin
  <2>3. IsText(line) <=> Fits(line, "MSG")
    BY <1>0, <1>4, <2>1, FitsIsGrammar DEF Chat, First, IsText
  <2>4. msg.type = "MSG" /\ msg.ready /\ (msg.valid <=> Fits(line, "MSG"))
    BY <1>4 DEF Chat
  <2> QED
    BY <2>2, <2>3, <2>4 DEF Wire
<1>5. ASSUME Auth PROVE Goal
  <2>1. First = "/auth" /\ WordsAre(4) /\ msg.type = "AUTH"
    BY <1>5 DEF Auth
  <2>2. ~IsJoin(line) /\ ~IsText(line)
    BY <2>1 DEF First, IsJoin, IsText
  <2>3. /\ Param(2).size \in Nat /\ Param(2).chars \in Chars
        /\ Param(3).size \in Nat /\ Param(3).chars \in Chars
        /\ Param(4).size \in Nat /\ Param(4).chars \in Chars
    BY <1>0, <2>1, ParamIsWord DEF WordsAre
  <2>4. IsAuth(line) <=> ParamsFit(4)
    <3>1. IsAuth(line) <=> /\ IsId(Param(2))
                           /\ Param(3).size <= 128 /\ Param(3).chars = "alnum"
                           /\ Param(4).size <= 20 /\ Param(4).chars # "other"
      BY <2>1 DEF IsAuth, First, WordsAre, Param
    <3> QED
      BY <2>3, <3>1, FitsIsGrammar DEF ParamsFit, IsId
  <2>5. msg.valid <=> ParamsFit(4)
    BY <1>0, <1>5 DEF Auth, GoesOn, Reported, WordsAre
  <2>6. msg.valid <=> msg.ready
    BY <1>5 DEF Auth, GoesOn, Reported
  <2> QED
    BY <2>1, <2>2, <2>4, <2>5, <2>6 DEF Wire
<1>6. ASSUME Join PROVE Goal
  <2>1. First = "/join" /\ WordsAre(2) /\ msg.type = "JOIN"
    BY <1>6 DEF Join
  <2>2. ~IsAuth(line) /\ ~IsText(line)
    BY <2>1 DEF First, IsAuth, IsText
  <2>3. Param(2).size \in Nat /\ Param(2).chars \in Chars
    BY <1>0, <2>1, ParamIsWord DEF WordsAre
  <2>4. IsJoin(line) <=> Fits(Param(2), "ID")
    BY <2>1, <2>3, FitsIsGrammar DEF IsJoin, IsId, First, WordsAre, Param
  <2>5. (msg.valid <=> Fits(Param(2), "ID")) /\ (msg.valid <=> msg.ready)
    BY <1>0, <1>6 DEF Join, GoesOn, Reported, WordsAre
  <2> QED
    BY <2>1, <2>2, <2>4, <2>5 DEF Wire
<1>7. ASSUME Rename PROVE Goal
  BY <1>7 DEF Rename, Wire, IsAuth, IsJoin, IsText, First
<1> HIDE DEF Goal
<1>8. Goal
  BY <1>0, <1>1, <1>2, <1>3, <1>4, <1>5, <1>6, <1>7 DEF Inv, LoopInv
<1> QED
  BY <1>8 DEF Goal

\* The lines that are formatted are the lines of the grammar, each as what it is:
\* no flag, early return or miscounted parameter lets another one through.
THEOREM GrammarIsSent == Spec => []OnlyGrammarIsSent
<1>1. Inv => OnlyGrammarIsSent
  BY CheckedLine DEF OnlyGrammarIsSent
<1> QED
  BY <1>1, InvAlways, PTL

\* What the client modules take for granted of a line that is ready: an AUTH or a
\* JOIN has its text, and only a chat message or a line of blanks may have none.
THEOREM ReadyIsKnown == Spec => []ReadyLinesAreKnown
<1>1. Inv => ReadyLinesAreKnown
  <2> SUFFICES ASSUME Inv, LineIsChecked, msg.ready
               PROVE  /\ msg.type \in {"AUTH", "JOIN", "MSG", "USER_CMD"}
                      /\ msg.type \in {"AUTH", "JOIN"} => Wire(msg)
                      /\ msg.type = "USER_CMD" => ~Wire(msg)
    BY DEF ReadyLinesAreKnown
  <2>1. line # NoLine /\ (msg.left \/ fragment = Len(line.words))
    BY DEF LineIsChecked
  <2>2. Untouched \/ Chat \/ Auth \/ Join \/ Rename
    BY <2>1 DEF Inv, LoopInv, BadCommand, Help, Reported
  <2>3. ~Rename
    BY <2>1 DEF Rename, GoesOn, Reported, WordsAre
  <2> QED
    BY <2>2, <2>3 DEF Untouched, Chat, Auth, Join, GoesOn, Reported, Wire
<1> QED
  BY <1>1, InvAlways, PTL

\* The limits on a line, on its parameters and on a name given by an earlier line
\* add up to less than the buffer, which nothing checks while it is filled.
THEOREM BufferIsEnough == Spec => []FitsBuffer
<1>1. Inv => FitsBuffer
  <2> SUFFICES ASSUME Inv, LineIsChecked, Wire(msg)
               PROVE  TcpSize(msg, line, dname) <= 1500
    BY DEF FitsBuffer, BUFFER_SIZE
  <2>0. TypeOK /\ line # NoLine
    BY DEF Inv, LineIsChecked
  <2>1. /\ dname.size \in Nat /\ dname.size <= 20
        /\ msg.dname.size \in Nat /\ msg.dname.size <= 20
    BY <2>0, NewNameIsAllowed DEF Inv, NameIsAllowed, TypeOK, Message
  <2>2. line.size \in Nat /\ line.words \in Seq(Words) /\ Len(line.words) \in Nat
    BY <2>0 DEF TypeOK, InputLines
  <2>3. CASE msg.type = "AUTH"
    <3>1. IsAuth(line)
      BY <2>3, CheckedLine
    <3>2. line.words[2].size \in Nat /\ line.words[3].size \in Nat
      BY <2>0, <3>1, ParamIsWord DEF IsAuth, Param
    <3> QED
      BY <2>1, <2>3, <3>1, <3>2 DEF IsAuth, IsId, TcpSize
  <2>4. CASE msg.type = "JOIN"
    <3>1. IsJoin(line)
      BY <2>4, CheckedLine
    <3>2. line.words[2].size \in Nat
      BY <2>0, <3>1, ParamIsWord DEF IsJoin, Param
    <3> QED
      BY <2>1, <2>4, <3>1, <3>2 DEF IsJoin, IsId, TcpSize
  <2>5. CASE msg.type = "MSG"
    <3>1. line.size <= 1400
      BY <2>5, CheckedLine DEF IsText
    <3> QED
      BY <2>1, <2>2, <2>5, <3>1 DEF TcpSize
  <2> QED
    BY <2>3, <2>4, <2>5 DEF Wire
<1> QED
  BY <1>1, InvAlways, PTL

\* A command that is reported as faulty renames nobody, even when what is wrong
\* with it is its very name.
THEOREM FaultyKeepsName == Spec => FaultyLinesKeepName
<1>1. Inv /\ [Next]_vars => [line # NoLine /\ line' = NoLine /\ ~msg.valid => dname' = dname]_vars
  <2> SUFFICES ASSUME Inv, Next, line # NoLine, line' = NoLine, ~msg.valid
               PROVE  dname' = dname
    OBVIOUS
  <2>1. ProcessLine
    BY LinesAssumption DEF Next, ReadLine, CheckWord, ReplyOk
  <2>2. NameKept
    BY DEF Inv, LoopInv, Untouched, BadCommand, Help, Chat, Auth, Join, Rename, GoesOn
  <2> QED
    BY <2>1, <2>2 DEF ProcessLine, TakeName, NameKept
<1> QED
  BY <1>1, InvAlways, PTL DEF Spec, FaultyLinesKeepName
=============================================================================
