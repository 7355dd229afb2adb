---------------------------- MODULE MCUdpSession ----------------------------
(* Small instances of UdpSession. *)
EXTENDS UdpSession

MCInputs == {[type |-> "AUTH", wire |-> TRUE], [type |-> "JOIN", wire |-> TRUE],
             [type |-> "MSG", wire |-> TRUE]}

MCDatagrams == ServerDatagrams
=============================================================================
