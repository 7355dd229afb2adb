---------------------------- MODULE MCTcpClient ----------------------------
(* A small instance of TcpClient. *)
EXTENDS TcpClient

MCLines == {[type |-> "AUTH", wire |-> TRUE], [type |-> "JOIN", wire |-> TRUE],
            [type |-> "MSG", wire |-> FALSE], [type |-> "LOCAL", wire |-> FALSE]}

\* Each type process_inbound_msg can find.
MCMessages ==
    [verb : {"REPLY"}, verdict : {"OK", "NOK"}, words : {4}, is : {TRUE}]
    \cup [verb : {"MSG", "ERR"}, verdict : {"OTHER"}, words : {4}, is : {TRUE}]
    \cup {[verb |-> "BYE", verdict |-> "OTHER", words |-> 1, is |-> FALSE],
          [verb |-> "MSG", verdict |-> "OTHER", words |-> 4, is |-> FALSE]}

\* Enough for the runs about liveness: requests, their REPLYs and chat.
LiveLines == {[type |-> "AUTH", wire |-> TRUE], [type |-> "JOIN", wire |-> TRUE]}
LiveMessages ==
    [verb : {"REPLY"}, verdict : {"OK", "NOK"}, words : {4}, is : {TRUE}]
    \cup [verb : {"MSG"}, verdict : {"OTHER"}, words : {4}, is : {TRUE}]
=============================================================================
