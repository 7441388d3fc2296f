----------------------------- MODULE MCEventPump -----------------------------
(* An instance of EventPump: samples of both ABIs and ones no decoder takes. *)
EXTENDS EventPump

V1 == [len |-> 580, version |-> 0, phase |-> 0, source |-> 0, flags |-> {}]
V2 == [len |-> 640, version |-> 2, phase |-> 5, source |-> 4, flags |-> {"result"}]

MCSamples == {V1, [V2 EXCEPT !.phase = 6]}
MCKnownFlags == {"result", "requested", "actual", "syscall", "vector"}
===============================================================================
