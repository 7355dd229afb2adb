----------------------------- MODULE Departure -----------------------------
(***************************************************************************)
(* What both clients promise of the way they leave: exit_program           *)
(* (main.cpp) has the last word.  Once it has been called nothing but a    *)
(* BYE goes out, the reason it was given is the exit code, and only the    *)
(* CTRL-C of a user who does not want to wait for the end of the BYE may   *)
(* turn that code into a success, or a connection that breaks under the    *)
(* BYE into a failure.                                                     *)
(***************************************************************************)
VARIABLES
    phase,   \* "chatting", "leaving" while the end of a BYE is awaited, or "gone"
    code,    \* the exit code: "none" before it is known, "success" or "failure"
    said     \* everything sent so far except the BYEs

vars == <<phase, code, said>>

Init == phase = "chatting" /\ code = "none" /\ said = {}

\* Anything may be sent.
Talk == phase = "chatting" /\ phase' = "chatting" /\ UNCHANGED code

\* An ERR or a CONFIRM may still go out with the decision to leave.
Leave ==
    /\ phase = "chatting" /\ phase' \in {"leaving", "gone"}
    /\ code' \in {"success", "failure"}

InterruptLeaving ==
    /\ phase = "leaving" /\ phase' \in {"leaving", "gone"}
    /\ code' = "success"
    /\ UNCHANGED said

Go == phase = "leaving" /\ phase' = "gone" /\ UNCHANGED <<code, said>>

Break == phase = "leaving" /\ phase' = "gone" /\ code' = "failure" /\ UNCHANGED said

Next == Talk \/ Leave \/ InterruptLeaving \/ Go \/ Break

Spec == Init /\ [][Next]_vars
=============================================================================
