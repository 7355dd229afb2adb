----------------------------- MODULE UserInput -----------------------------
(***************************************************************************)
(* What the client makes of a typed line: check_user_message and           *)
(* validate_msg_param (messages.cpp), the part of process_outgoing_msg     *)
(* that decides whether there is anything to send, and the standard input  *)
(* branch of the two main loops as far as the display name goes            *)
(* (clients.cpp).                                                          *)
(*                                                                         *)
(* The loop over the words of the line takes one word a step, so that what *)
(* it has found out so far can be stated as an invariant; nothing else     *)
(* happens in between.                                                     *)
(*                                                                         *)
(* A word is known by what it says if it is a command, by its length and   *)
(* by the characters in it; a line by its words and, as one text, by its   *)
(* length and characters.                                                  *)
(*                                                                         *)
(* LongLimit, LooseFit, FaultyButReady, AuthWordPast, RenameWordEarly and  *)
(* RenameWordAnyLength are no part of the model: each is the operator      *)
(* after it with a mistake in it, which a property has to detect.          *)
(***************************************************************************)
EXTENDS Naturals, Sequences

CONSTANTS
    Lines,         \* the lines a user may type
    MaxLines       \* bound on the lines typed

Commands == {"/auth", "/join", "/rename", "/help", "/unknown"}

\* Letters, digits and '-'; printable characters; others (a tab, an accent).
Chars == {"alnum", "print", "other"}

Words == [says : Commands \cup {"text"}, size : Nat, chars : Chars]
InputLines == [words : Seq(Words), size : Nat, chars : Chars]

ASSUME LinesAssumption ==
    /\ Lines \subseteq InputLines
    /\ MaxLines \in Nat

VARIABLES
    client_state,  \* cl_info.client_state
    dname,         \* cl_info.dname, as the size and the characters of the name
    line,          \* the line that has been read, or NoLine
    fragment,      \* how many of its words the loop has looked at
    msg,           \* the message made of the line, so far
    public_name,   \* history: the name of the last /rename or AUTH sent
    line_count

vars == <<client_state, dname, line, fragment, msg, public_name, line_count>>

NoLine == [words |-> <<>>, size |-> 0, chars |-> "none"]
NoName == [size |-> 0, chars |-> "alnum"]
Name(word) == [size |-> word.size, chars |-> word.chars]

-----------------------------------------------------------------------------
(* validate_msg_param and check_user_message. *)

LongLimit(pattern) ==
    CASE pattern \in {"ID", "DNAME"} -> 21 [] pattern = "SECRET" -> 128
      [] pattern = "MSG" -> 1400

Limit(pattern) ==
    CASE pattern \in {"ID", "DNAME"} -> 20 [] pattern = "SECRET" -> 128
      [] pattern = "MSG" -> 1400

LooseFit(text, pattern) ==
    text.size <= Limit(pattern) /\ text.chars \in {"alnum", "print"}

Fits(text, pattern) ==
    /\ text.size <= Limit(pattern)
    /\ text.chars \in IF pattern \in {"ID", "SECRET"} THEN {"alnum"} ELSE {"alnum", "print"}

\* The fields of the message that the loop over its words changes: part counts
\* the parameters of /auth, left says that the loop was left early.
Unread(name) ==
    [type |-> "USER_CMD", ready |-> TRUE, valid |-> TRUE, dname |-> name,
     part |-> 1, left |-> FALSE]

FaultyButReady(m) == [m EXCEPT !.valid = FALSE, !.left = TRUE]
Faulty(m) == [m EXCEPT !.ready = FALSE, !.valid = FALSE, !.left = TRUE]

\* A message that is no command is checked as a whole line.  If it does not fit,
\* ready_to_send stays as it is.
FirstWord(m, word, text) ==
    CASE word.says = "/auth"    -> IF Len(text.words) = 4 THEN [m EXCEPT !.type = "AUTH"] ELSE Faulty(m)
      [] word.says = "/join"    -> IF Len(text.words) = 2 THEN [m EXCEPT !.type = "JOIN"] ELSE Faulty(m)
      [] word.says = "/rename"  -> IF Len(text.words) = 2 THEN [m EXCEPT !.type = "RENAME"] ELSE Faulty(m)
      [] word.says = "/help"    -> [m EXCEPT !.type = "HELP", !.ready = FALSE, !.left = TRUE]
      [] word.says = "/unknown" -> Faulty(m)
      [] word.says = "text"     ->
             IF Fits(text, "MSG") THEN [m EXCEPT !.type = "MSG"]
             ELSE [m EXCEPT !.type = "MSG", !.valid = FALSE, !.left = TRUE]

AuthWordPast(m, word) ==
    LET pattern == <<"ID", "SECRET", "DNAME">>[m.part]
    IN  IF Fits(word, pattern) THEN [m EXCEPT !.part = @ + 1] ELSE Faulty(m)

AuthWord(m, word) ==
    LET pattern == <<"ID", "SECRET", "DNAME">>[m.part]
    IN  IF ~Fits(word, pattern) THEN Faulty(m)
        ELSE IF m.part < 3 THEN [m EXCEPT !.part = @ + 1]
        ELSE [m EXCEPT !.dname = Name(word)]

JoinWord(m, word) == IF Fits(word, "ID") THEN m ELSE Faulty(m)

RenameWordEarly(m, word) ==
    IF Fits(word, "ID") THEN [m EXCEPT !.ready = FALSE, !.dname = Name(word)]
    ELSE [Faulty(m) EXCEPT !.dname = Name(word)]

RenameWordAnyLength(m, word) ==
    IF word.chars = "alnum" THEN [m EXCEPT !.ready = FALSE, !.dname = Name(word)] ELSE Faulty(m)

RenameWord(m, word) ==
    IF Fits(word, "ID") THEN [m EXCEPT !.ready = FALSE, !.dname = Name(word)] ELSE Faulty(m)

Word(m, word, text) ==
    CASE m.type = "USER_CMD" -> FirstWord(m, word, text)
      [] m.type = "AUTH"     -> AuthWord(m, word)
      [] m.type = "JOIN"     -> JoinWord(m, word)
      [] m.type = "RENAME"   -> RenameWord(m, word)
      [] m.type = "MSG"      -> m

\* process_outgoing_msg puts something into the buffer.
Wire(m) == m.valid /\ m.type \in {"AUTH", "JOIN", "MSG"}

\* What the TCP client writes into buffer: "AUTH id AS name USING secret", "JOIN id
\* AS name" or "MSG FROM name IS text", each with CR, LF and a final zero.
TcpSize(m, text, name) ==
    3 + CASE m.type = "AUTH" -> 5 + text.words[2].size + 4 + m.dname.size + 7 + text.words[3].size
          [] m.type = "JOIN" -> 5 + text.words[2].size + 4 + name.size
          [] m.type = "MSG"  -> 9 + name.size + 4 + text.size

BUFFER_SIZE == 1500

-----------------------------------------------------------------------------
Init ==
    /\ client_state = "START" /\ dname = NoName
    /\ line = NoLine /\ fragment = 0 /\ msg = Unread(NoName)
    /\ public_name = NoName /\ line_count = 0

ReadLine(l) ==
    /\ line = NoLine /\ line_count < MaxLines
    /\ line' = l /\ line_count' = line_count + 1
    /\ fragment' = 0 /\ msg' = Unread(dname)
    /\ UNCHANGED <<client_state, dname, public_name>>

\* The loop is over: all words have been looked at, or it was left.
LineIsChecked == line # NoLine /\ (msg.left \/ fragment = Len(line.words))

CheckWord ==
    /\ line # NoLine /\ ~LineIsChecked
    /\ fragment' = fragment + 1
    /\ msg' = Word(msg, line.words[fragment'], line)
    /\ UNCHANGED <<client_state, dname, line, public_name, line_count>>

\* The name is taken over before the state decides whether the line goes out.
TakeName(m) == dname' = IF m.type \in {"AUTH", "RENAME"} THEN m.dname ELSE dname
Sends(m) ==
    m.ready /\ IF client_state = "OPEN" THEN m.type # "AUTH" ELSE m.type = "AUTH"

ProcessLine ==
    /\ LineIsChecked
    /\ TakeName(msg)
    /\ client_state' = IF client_state = "START" /\ Sends(msg) THEN "AUTH" ELSE client_state
    /\ public_name' = IF msg.type = "RENAME" \/ (msg.type = "AUTH" /\ Sends(msg))
                      THEN msg.dname ELSE public_name
    /\ line' = NoLine /\ fragment' = 0 /\ msg' = Unread(NoName)
    /\ UNCHANGED line_count

\* The server accepts the AUTH.
ReplyOk ==
    /\ client_state = "AUTH" /\ line = NoLine
    /\ client_state' = "OPEN"
    /\ UNCHANGED <<dname, line, fragment, msg, public_name, line_count>>

Next == (\E l \in Lines : ReadLine(l)) \/ CheckWord \/ ProcessLine \/ ReplyOk

Spec == Init /\ [][Next]_vars

-----------------------------------------------------------------------------
Message == [type : {"USER_CMD", "AUTH", "JOIN", "RENAME", "HELP", "MSG"},
            ready : BOOLEAN, valid : BOOLEAN, dname : [size : Nat, chars : Chars],
            part : 1 .. 3, left : BOOLEAN]

TypeOK ==
    /\ client_state \in {"START", "AUTH", "OPEN"}
    /\ dname \in [size : Nat, chars : Chars] /\ public_name \in [size : Nat, chars : Chars]
    /\ line \in InputLines \/ line = NoLine
    /\ line # NoLine => fragment \in 0 .. Len(line.words)
    /\ msg \in Message
    /\ line_count \in 0 .. MaxLines

\* The commands of README.md:67, word for word: what the protocol lets a user
\* send, independent of the loop that finds out.
IsText(l) == l.words # <<>> /\ l.words[1].says = "text" /\ l.size <= 1400 /\ l.chars # "other"
IsId(word) == word.size <= 20 /\ word.chars = "alnum"
IsAuth(l) ==
    /\ Len(l.words) = 4 /\ l.words[1].says = "/auth"
    /\ IsId(l.words[2])
    /\ l.words[3].size <= 128 /\ l.words[3].chars = "alnum"
    /\ l.words[4].size <= 20 /\ l.words[4].chars # "other"
IsJoin(l) == Len(l.words) = 2 /\ l.words[1].says = "/join" /\ IsId(l.words[2])

\* Exactly the lines of the grammar are formatted, each as what it is: the loop's
\* flags, its early returns and its counter of parameters agree with the grammar.
OnlyGrammarIsSent ==
    LineIsChecked =>
        /\ (Wire(msg) /\ msg.type = "AUTH") <=> IsAuth(line)
        /\ (Wire(msg) /\ msg.type = "JOIN") <=> IsJoin(line)
        /\ (Wire(msg) /\ msg.type = "MSG") <=> IsText(line)
        /\ Wire(msg) => msg.ready

\* What the client modules take for granted of a line that is ready to send: its
\* type is one of four, and only a chat message or a line of blanks can be ready
\* with nothing to send.
ReadyLinesAreKnown ==
    LineIsChecked /\ msg.ready =>
        /\ msg.type \in {"AUTH", "JOIN", "MSG", "USER_CMD"}
        /\ msg.type \in {"AUTH", "JOIN"} => Wire(msg)
        /\ msg.type = "USER_CMD" => ~Wire(msg)

\* Whatever is typed, in whatever order, a name that goes into a message is one
\* the protocol allows.
NameIsAllowed == dname.size <= 20 /\ dname.chars # "other"

\* What is formatted fits into the buffer, which nothing checks while it is
\* filled: the limits on a line and on a name taken from an earlier one add up.
FitsBuffer ==
    LineIsChecked /\ Wire(msg) => TcpSize(msg, line, dname) <= BUFFER_SIZE

\* A faulty command leaves the name alone, even if its last parameter is a name.
FaultyLinesKeepName ==
    [][line # NoLine /\ line' = NoLine /\ ~msg.valid => dname' = dname]_vars

-----------------------------------------------------------------------------
(* What the documentation says and the code does not keep to. *)

\* README.md:186: a line that is refused is only reported.  An /auth refused in
\* OPEN renames the user all the same.
NameIsPublic == dname = public_name
=============================================================================
