----------------------------- MODULE Manifests -----------------------------
(***************************************************************************)
(* What snapshot_manifest.json promises whoever opens the run directory    *)
(* after a crash (src/src/output.rs, write_snapshot): it names no          *)
(* generation, or one of those begun, and which one is left to the crash   *)
(* only between a replacement and the next report.  No step brings an      *)
(* older generation back.  SnapshotFs implements this.                     *)
(***************************************************************************)
EXTENDS Naturals

CONSTANT MaxGenerations    \* bound: generations begun

VARIABLES
    begun,          \* the last generation begun
    open,           \* it is being written
    recoverable,    \* the generations a crash may leave the manifest naming; 0 is none
    reported        \* generations for which Ok was returned

vars == <<begun, open, recoverable, reported>>

Init ==
    /\ begun = 0
    /\ open = FALSE
    /\ recoverable = {0}
    /\ reported = {}

Begin ==
    /\ ~open
    /\ begun < MaxGenerations
    /\ begun' = begun + 1
    /\ open' = TRUE
    /\ UNCHANGED <<recoverable, reported>>

(* The manifest is replaced in one step; a crash may undo it. *)
Replace ==
    /\ open
    /\ begun \notin recoverable
    /\ recoverable' = recoverable \cup {begun}
    /\ UNCHANGED <<begun, open, reported>>

(* What is reported is all that a crash can leave. *)
Report ==
    /\ open
    /\ begun \in recoverable
    /\ recoverable' = {begun}
    /\ reported' = reported \cup {begun}
    /\ open' = FALSE
    /\ UNCHANGED begun

(* Replaced or not, the generation is not reported. *)
Abandon ==
    /\ open
    /\ open' = FALSE
    /\ UNCHANGED <<begun, recoverable, reported>>

Next == Begin \/ Replace \/ Report \/ Abandon

Spec == Init /\ [][Next]_vars
=============================================================================
