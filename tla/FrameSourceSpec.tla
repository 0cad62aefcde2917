-------------------------- MODULE FrameSourceSpec --------------------------
(* FrameSource as a specification: nothing but calls of wslay_frame_recv.  *)
EXTENDS FrameSource

VARIABLE last     \* what the last call gave its caller

Init == /\ SourceInit
        /\ last = [ iocb |-> NoIocb, result |-> 0, failed |-> FALSE ]

Next == \E src \in {source} : \E o \in wslay_frame_recv(src) :
          /\ source' = o.source
          /\ last' = [ iocb |-> o.iocb, result |-> o.result, failed |-> o.failed ]

Spec == Init /\ [][Next]_<< source, last >>
=============================================================================
