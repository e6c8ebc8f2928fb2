-------------------------- MODULE MCNamedBarrier --------------------------
(* Model values and the workers' program for NamedBarrier.                *)
EXTENDS NamedBarrierCrash

CONSTANTS p1, p2, p3, g, h

\* Register g, meet twice on g, register h, meet on h.
MCProg == <<[op |-> "register", name |-> g], [op |-> "barrier", name |-> g],
            [op |-> "barrier", name |-> g], [op |-> "register", name |-> h],
            [op |-> "barrier", name |-> h]>>
=============================================================================
