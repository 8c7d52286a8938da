---------------------------- MODULE MCAgentConf -----------------------------
(* AgentConf for TLC: two modes the agent knows and a word it does not.    *)
EXTENDS AgentConf

MCOption == {"auto", "manual", "automatic"}
MCMode   == {"auto", "manual"}
=============================================================================
