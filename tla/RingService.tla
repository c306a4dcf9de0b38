---------------------------- MODULE RingService ----------------------------
(***************************************************************************)
(* What the relay promises the application: one Venus command ring, served *)
(* in order, with bounded room, whose answers are in the application's own *)
(* memory before the ring says a command is done.  This is what a Mesa     *)
(* client gets from a renderer on its own machine; RelayRing shows that    *)
(* the two daemons and the links between them implement it.                *)
(*                                                                         *)
(* A position is a count of commands since the session began: the ring's   *)
(* free-running cursors, one unit per command.                             *)
(***************************************************************************)
EXTENDS Integers

CONSTANT Room   \* commands the ring holds at once, one or more

VARIABLES
    issued,     \* commands the application has put in its ring
    executed,   \* commands the renderer has run
    answered,   \* commands whose reply is in the application's memory
    released    \* commands the ring reports done: vn_ring_wait_seqno returns

svars == <<issued, executed, answered, released>>

Init == issued = 0 /\ executed = 0 /\ answered = 0 /\ released = 0

\* The application adds a command when the ring has room for it.
Issue ==
    /\ issued - released < Room
    /\ issued' = issued + 1
    /\ UNCHANGED <<executed, answered, released>>

\* The renderer runs the next command.
Execute ==
    /\ executed < issued
    /\ executed' = executed + 1
    /\ UNCHANGED <<issued, answered, released>>

\* Replies become visible to the application, several at a time perhaps.
Answer ==
    /\ \E n \in answered + 1 .. executed : answered' = n
    /\ UNCHANGED <<issued, executed, released>>

\* Commands are reported done, but only once they are answered.
Release ==
    /\ \E n \in released + 1 .. answered : released' = n
    /\ UNCHANGED <<issued, executed, answered>>

Next == Issue \/ Execute \/ Answer \/ Release

Spec == Init /\ [][Next]_svars
=============================================================================
