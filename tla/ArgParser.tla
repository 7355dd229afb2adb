----------------------------- MODULE ArgParser -----------------------------
(***************************************************************************)
(* The command line: CLI_Parser::parse_args (arg_parser.cpp).              *)
(*                                                                         *)
(* getopt hands over one option at a time, in the order given; what it     *)
(* does not know, or what has lost its argument, comes back as "?".  An    *)
(* argument is known by how the parser reads it: one of the two protocols, *)
(* a number, a number with a tail that stoi disregards, or a text, which   *)
(* stoi throws on, as it does on a number beyond the range of int.         *)
(*                                                                         *)
(* NotNarrowed, DefaultsMixedUp and DefaultsIfAbsent are no part of the    *)
(* model: each is the operator after it with a mistake in it, which a      *)
(* property has to detect.                                                 *)
(***************************************************************************)
EXTENDS Integers, Sequences

CONSTANT CommandLines    \* what may be typed after the name of the program

Options ==
    [opt : {"t", "s", "p", "d", "r", "h", "?"},
     says : {"tcp", "udp", "number", "tail", "text"}, number : Int]

\* The values of a uint16_t.
MaxWord == 65535
Words == 0 .. MaxWord

ASSUME CommandLinesAssumption == CommandLines \subseteq Seq(Options)

VARIABLES
    pc,             \* the statement the process is at
    argv,           \* the command line
    optind,         \* the option getopt returns next
    info,           \* the connection_info under construction
    server_port,    \* the port as a number
    complaint,      \* what the last ERR was about
    status          \* the argument of exit, "none" before it is called

arguments == <<argv, optind, info, server_port>>
parserVars == <<pc, arguments, complaint, status>>

NoPort == [says |-> "none", number |-> 0]
DefaultPort == [says |-> "number", number |-> 4567]
Ports == [says : {"none", "number", "tail"}, number : Words]

\* new connection_info() sets every field to zero.
NoInfo ==
    [sock_type |-> "none", host |-> FALSE, port |-> NoPort, udp_timeout |-> 0,
     max_udp_retransmission |-> 0]

ParserInit ==
    /\ pc = "Parse" /\ argv \in CommandLines /\ optind = 1
    /\ info = NoInfo /\ server_port = 0
    /\ complaint = "none" /\ status = "none"

-----------------------------------------------------------------------------
(* One option. *)

arg == argv[optind]
At(opts) == pc = "Parse" /\ optind <= Len(argv) /\ arg.opt \in opts

Keep(new_info, new_port) ==
    /\ info' = new_info /\ server_port' = new_port
    /\ optind' = optind + 1
    /\ UNCHANGED <<pc, argv, complaint, status>>

\* delete cli_info and exit, or the end of a program that catches nothing.
Refuse(place, code, about) ==
    /\ pc' = place /\ status' = code /\ complaint' = about
    /\ UNCHANGED arguments

UInt16(n) == n % (MaxWord + 1)

TakeProtocol ==
    /\ At({"t"}) /\ arg.says \in {"tcp", "udp"}
    /\ Keep([info EXCEPT !.sock_type = arg.says], server_port)

RefuseProtocol == At({"t"}) /\ arg.says \notin {"tcp", "udp"} /\ Refuse("Exit", "failure", "protocol")

TakeHost == At({"s"}) /\ Keep([info EXCEPT !.host = TRUE], server_port)

IsNumber == arg.says \in {"number", "tail"}

\* The text is kept for getaddrinfo, the number only for its range.
TakePort ==
    /\ At({"p"}) /\ IsNumber /\ arg.number \in Words
    /\ Keep([info EXCEPT !.port = [says |-> arg.says, number |-> arg.number]], arg.number)

RefusePort ==
    At({"p"}) /\ IsNumber /\ arg.number \notin Words /\ Refuse("Exit", "failure", "port")

NotNarrowed == arg.number

\* The int that stoi returns is assigned to a uint16_t.
Narrowed == UInt16(arg.number)

TakeTimeout ==
    At({"d"}) /\ IsNumber /\ Keep([info EXCEPT !.udp_timeout = Narrowed], server_port)

TakeRetransmissions ==
    /\ At({"r"}) /\ IsNumber
    /\ Keep([info EXCEPT !.max_udp_retransmission = Narrowed], server_port)

\* std::invalid_argument and std::out_of_range are caught nowhere.
Throw == At({"p", "d", "r"}) /\ ~IsNumber /\ Refuse("Aborted", "none", "none")

ShowHelp == At({"h"}) /\ Refuse("Exit", "success", "none")

SkipOption == At({"?"}) /\ Keep(info, server_port)

-----------------------------------------------------------------------------
(* After the last option. *)

AllRead == pc = "Parse" /\ optind > Len(argv)

NoProtocol == AllRead /\ info.sock_type = "none" /\ Refuse("Exit", "failure", "no protocol")

DefaultsMixedUp ==
    [info EXCEPT !.udp_timeout = IF @ = 0 THEN 250 ELSE @,
                 !.max_udp_retransmission = IF info.udp_timeout = 0 THEN 3 ELSE @,
                 !.port = IF server_port = 0 THEN DefaultPort ELSE @]


\* Zero stands for "not given", so a zero that was given is lost.
Defaults ==
    [info EXCEPT !.udp_timeout = IF @ = 0 THEN 250 ELSE @,
                 !.max_udp_retransmission = IF @ = 0 THEN 3 ELSE @,
                 !.port = IF server_port = 0 THEN DefaultPort ELSE @]

ReturnInfo ==
    /\ AllRead /\ info.sock_type # "none"
    /\ info' = Defaults /\ pc' = "New"
    /\ UNCHANGED <<argv, optind, server_port, complaint, status>>

ParseArgs ==
    \/ TakeProtocol \/ RefuseProtocol \/ TakeHost \/ TakePort \/ RefusePort
    \/ TakeTimeout \/ TakeRetransmissions \/ Throw \/ ShowHelp \/ SkipOption
    \/ NoProtocol \/ ReturnInfo

-----------------------------------------------------------------------------
(* The command line read as a whole, by the table of README.md:50, independent  *)
(* of the loop.                                                             *)

Given(opts) == {i \in DOMAIN argv : argv[i].opt \in opts}
Last(opt) == argv[CHOOSE i \in Given({opt}) : \A j \in Given({opt}) : j <= i]
Number(opt, default) == IF Given({opt}) = {} THEN default ELSE Last(opt).number

\* The last of several options of a kind counts; what is not given has the value
\* in the table.
Meant ==
    [sock_type |-> Last("t").says, host |-> Given({"s"}) # {},
     port |-> [says |-> "number", number |-> Number("p", DefaultPort.number)],
     udp_timeout |-> Number("d", 250),
     max_udp_retransmission |-> Number("r", 3)]

\* The types of the table: uint16, and uint8 for the retransmissions.
Limit(opt) == IF opt = "r" THEN 255 ELSE MaxWord

\* What README.md:96 has refused in so many words, what stoi cannot read, and -h.
IsReadable(o) ==
    /\ o.opt = "t" => o.says \in {"tcp", "udp"}
    /\ o.opt \in {"p", "d", "r"} => o.says \in {"number", "tail"}
    /\ o.opt = "p" => o.number \in Words
    /\ o.opt # "h"

IsGood(o) ==
    /\ IsReadable(o) /\ o.opt # "?"
    /\ o.opt \in {"p", "d", "r"} => o.says = "number" /\ o.number \in 0 .. Limit(o.opt)

Acceptable == Given({"t"}) # {} /\ \A i \in DOMAIN argv : IsGood(argv[i])

NoZero == 0 \notin {Meant.port.number, Meant.udp_timeout, Meant.max_udp_retransmission}
=============================================================================
