---------------------------- MODULE MCUdpClient ----------------------------
(* A small instance of UdpClient against an arbitrary server. *)
EXTENDS UdpClient

\* One line of each kind check_user_message can make ready to send.
MCInputs == {[type |-> "AUTH", wire |-> TRUE], [type |-> "JOIN", wire |-> TRUE],
             [type |-> "MSG", wire |-> TRUE], [type |-> "MSG", wire |-> FALSE],
             [type |-> "USER_CMD", wire |-> FALSE]}

\* The id a UDPMessage keeps when none is read: uint16_t(-1).
DefaultId == IdSpace - 1

\* Two ids of the server, and every id the client can have used as a reference.
MCDatagrams ==
    [type : {"CONFIRM"}, id : {DefaultId}, ref : 0 .. MaxMsgs, port : {ServerPort},
     short : {FALSE}]
    \cup [type : {"REPLY_OK", "REPLY_NOK"}, id : {0, 1}, ref : 0 .. MaxMsgs - 1,
          port : Ports \ {ServerPort, UnsetPort}, short : {FALSE}]
    \cup [type : {"REPLY_OK", "MSG"}, id : {0}, ref : {0},
          port : Ports \ {ServerPort, UnsetPort}, short : {TRUE}]
    \cup [type : {"MSG", "BYE", "ERR"}, id : {0, 1}, ref : {0},
          port : Ports \ {ServerPort, UnsetPort}, short : {FALSE}]
    \cup [type : {"INVALID_MSG"}, id : {DefaultId}, ref : {0},
          port : Ports \ {ServerPort, UnsetPort}, short : {FALSE}]
=============================================================================
