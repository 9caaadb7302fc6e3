---------------------------- MODULE MCAgentFiles ----------------------------
(***************************************************************************)
(* Model-checking instance of the two installers that edit files a user     *)
(* owns: the agent hooks and the composed plugin.  They share no state; a   *)
(* behaviour runs one of them, chosen at the start.                         *)
(***************************************************************************)
EXTENDS HookInstall, PluginCompose

VARIABLE part

agentVars == <<hookVars, pluginVars, part>>

MCInit ==
  /\ part \in {"hooks", "plugin"}
  /\ HookInit
  /\ PluginInit
  /\ part = "hooks" => documents = {"mcp.json"}
  /\ part = "plugin" => git = "none"

HookStep == part = "hooks" /\ HookNext /\ UNCHANGED <<pluginVars, part>>
PluginStep == part = "plugin" /\ PluginNext /\ UNCHANGED <<hookVars, part>>

MCNext == HookStep \/ PluginStep

MCSpec == MCInit /\ [][MCNext]_agentVars
=============================================================================
