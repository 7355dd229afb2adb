---------------------------- MODULE MCUserInput ----------------------------
(* Instances of UserInput: every short line, and long runs of a few lines. *)
EXTENDS UserInput

Command(says) == [says |-> says, size |-> 5, chars |-> "print"]
Text(size, chars) == [says |-> "text", size |-> size, chars |-> chars]

Line(ws, n, cs) == [words |-> ws, size |-> n, chars |-> cs]

\* Words on both sides of each limit, and a command where a parameter belongs.
ParamWords ==
    {Command("/auth"), Text(20, "alnum"), Text(21, "alnum"), Text(20, "print"),
     Text(20, "other"), Text(128, "alnum"), Text(129, "alnum")}
FirstWords ==
    {Command(c) : c \in {"/auth", "/join", "/rename", "/help", "/unknown"}}
    \cup {Text(20, "alnum")}

\* Every line of up to three words, the /auth lines with a name on either side of
\* its limits, texts around 1400, a line of blanks, and an /auth of five words.
Params == UNION {[1 .. n -> ParamWords] : n \in 0 .. 2}
Names == {w \in ParamWords : w.size <= 21}
ShortLines ==
    {Line(<<w>> \o p, 100, "print") : w \in FirstWords, p \in Params}
    \cup {Line(<<Command("/auth"), u, s, n>>, 100, "print") :
              u \in Names, s \in ParamWords, n \in Names}
    \cup {Line(<<Text(20, "alnum")>>, n, cs) : n \in {1400, 1401}, cs \in Chars}
    \cup {Line(<<>>, 3, "print"),
          Line(<<Command("/auth"), Text(1, "alnum"), Text(1, "alnum"), Text(1, "alnum"),
                 Text(1, "alnum")>>, 20, "print")}

\* Good and bad uses of each command, for runs of several lines.
FewLines ==
    {Line(<<Command("/auth"), Text(8, "alnum"), s, n>>, 60, "print") :
        s \in {Text(9, "alnum"), Text(129, "alnum")},
        n \in {Text(6, "alnum"), Text(20, "print"), Text(21, "alnum")}}
    \cup {Line(<<Command("/rename"), n>>, 30, "print") :
        n \in {Text(7, "alnum"), Text(20, "print"), Text(21, "alnum"), Text(5, "other")}}
    \cup {Line(<<Command("/join"), Text(9, "alnum")>>, 20, "print"),
          Line(<<Text(5, "alnum")>>, 5, "alnum"), Line(<<Command("/help")>>, 5, "print")}
=============================================================================
