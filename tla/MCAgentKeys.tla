---------------------------- MODULE MCAgentKeys -----------------------------
(* AgentKeys with all four providers and room for two keys beside the      *)
(* first one, and a cache of one signed request, which the other pushes    *)
(* out between two copies of the first.                                    *)
EXTENDS AgentKeys

MCKeys == {"k0", "k1", "k2"}
MCOf == [r \in Requests |-> IF r = "other" THEN "theirs" ELSE "ours"]
MCProviders == {"claude", "codex", "copilot", "gemini"}
=============================================================================
