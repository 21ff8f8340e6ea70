------------------------------ MODULE MCServing ------------------------------
(* Two requests and a health probe over a pool of two: one can keep the     *)
(* loop or a script while another holds what it waits for, and the pool can *)
(* run out.  The scripts run one at a time, as often as the operator likes. *)
EXTENDS Serving
=============================================================================
