---------------------------- MODULE MCAgentLoop ----------------------------
(***************************************************************************)
(* Instances of AgentLoop for TLC: two error types of one kind, so that a  *)
(* kind's budget can run out before any of its types trips the breaker.    *)
(***************************************************************************)
EXTENDS AgentLoop

MCKindOf == [t \in Types |-> "transient"]

=============================================================================
