---------------------------- MODULE MCAgentHolds ----------------------------
(***************************************************************************)
(* Instances of AgentHolds for TLC: a Claude session outside every         *)
(* checkout, a Codex session inside the one checkout, the shared identity  *)
(* of Codex over MCP, and an agent of a kind nothing discovers.            *)
(***************************************************************************)
EXTENDS AgentHolds

CONSTANTS a, b, m, o, d1

MCKind == [h \in Holders |-> CASE h = a -> "claude"
                            [] h = o -> "other"
                            [] OTHER -> "codex"]
MCCwd == [h \in Holders |-> IF h = b THEN d1 ELSE None]
=============================================================================
