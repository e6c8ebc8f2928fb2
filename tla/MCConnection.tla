---------------------------- MODULE MCConnection ----------------------------
(* Model values for Connection.                                           *)
EXTENDS Connection

CONSTANTS w1, b1, b2, nb

=============================================================================
