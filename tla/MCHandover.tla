------------------------------ MODULE MCHandover ------------------------------
(* Small instances of Handover: the console and late listeners. *)
EXTENDS Handover

MCLate == {"studio"}
MCTwoLate == {"studio", "functions"}

=============================================================================
