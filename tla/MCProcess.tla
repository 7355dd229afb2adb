---------------------------- MODULE MCProcess ----------------------------
(* A small instance of Process: command lines around every limit. *)
EXTENDS Process

Word(o, word) == [opt |-> o, says |-> word, number |-> 0]
Numeric(o, n) == [opt |-> o, says |-> "number", number |-> n]

Numbers ==
    {Numeric("p", n) : n \in {-1, 0, 80, 65535, 65536}}
    \cup {Numeric("d", n) : n \in {-1, 0, 1, 999, 1000, 65536, 65537}}
    \cup {Numeric("r", n) : n \in {0, 1, 256, 65536}}
    \cup {[opt |-> o, says |-> "tail", number |-> 5] : o \in {"p", "d", "r"}}
    \cup {Word(o, "text") : o \in {"p", "d", "r"}}

Others == {Word("t", w) : w \in {"tcp", "udp", "text"}} \cup {Word(o, "text") : o \in {"s", "h", "?"}}

Few == UNION {[1 .. n -> Numbers \cup Others] : n \in 0 .. 2}

\* Up to two options after, or before, a protocol and a host.
MCCommandLines ==
    {<<Word("t", w), Word("s", "text")>> \o few : w \in {"tcp", "udp"}, few \in Few}
    \cup {few \o <<Word("s", "text"), Word("t", w)>> : w \in {"tcp", "udp"}, few \in Few}
    \cup Few
==========================================================================
