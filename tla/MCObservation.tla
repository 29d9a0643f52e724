--------------------------- MODULE MCObservation ---------------------------
(* Instances of Observation for TLC: a message is empty, one address (a    *)
(* self-announcement) or two (a complete reply).                           *)
EXTENDS Observation

CONSTANTS n1, n2, b1, b2, b3

SomeMessages == {{}, {b1}, {b2, b3}}
=============================================================================
