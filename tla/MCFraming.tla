----------------------------- MODULE MCFraming -----------------------------
(* Instances of Framing for TLC: every stream of Count envelopes with the  *)
(* given sizes and kinds of fault, laid out one after the other.           *)
EXTENDS Framing

CONSTANTS Count, Sizes, Kinds

Shapes ==
    [size : Sizes, fault : Kinds \ {"oversize"}]
        \cup [size : {MaxPayload + 1}, fault : Kinds \cap {"oversize"}]

Laid(shape) ==
    LET at[i \in 1..Count] == IF i = 1 THEN 0 ELSE at[i - 1] + Header + shape[i - 1].size
    IN  [i \in 1..Count |-> [at |-> at[i], size |-> shape[i].size, fault |-> shape[i].fault]]

AllStreams == {Laid(shape) : shape \in [1..Count -> Shapes]}
=============================================================================
