------------------------------ MODULE Endpoint ------------------------------
(***************************************************************************)
(* What an event loop needs to know of a wslay context whose application   *)
(* never closes on its own: e.rd is wslay_event_want_read, e.wr is         *)
(* wslay_event_want_write, e.failed says that the last call did not return *)
(* 0.  EchoServer shows that the library keeps to it, Reactor relies on    *)
(* it.                                                                     *)
(***************************************************************************)

Endpoint == [ rd : BOOLEAN, wr : BOOLEAN, failed : BOOLEAN ]

NewEndpoint == [ rd |-> TRUE, wr |-> FALSE, failed |-> FALSE ]

(* Receiving never takes away what there is to write, and when it ends     *)
(* reading without an error there is a Close to write.                     *)
RecvCall(e) ==
    { x \in Endpoint : /\ e.rd
                       /\ e.wr => x.wr
                       /\ ~x.rd /\ ~x.failed => x.wr
                       /\ x.failed => ~x.rd }

(* Sending does not affect reading; a failure ends writing.                *)
SendCall(e) ==
    { x \in Endpoint : /\ e.wr
                       /\ x.rd = e.rd
                       /\ x.failed => ~x.wr }
=============================================================================
