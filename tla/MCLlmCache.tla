------------------------------ MODULE MCLlmCache ------------------------------
(***************************************************************************)
(* One bulk valuation, repeated over sessions.                             *)
(***************************************************************************)
EXTENDS LlmCache

MCRequests == {[kind |-> "provisional_valuations"]}
=============================================================================
