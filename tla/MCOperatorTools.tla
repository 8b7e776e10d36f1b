-------------------------- MODULE MCOperatorTools ---------------------------
(***************************************************************************)
(* One run for four commands that an operator gives by hand.  They share   *)
(* no state, so that nothing is lost by letting one of them, chosen in the *)
(* initial state, move alone: the state spaces add up instead of           *)
(* multiplying.                                                            *)
(***************************************************************************)
EXTENDS ProviderChoice, AgentInstall, OperatorAccess, ProxmoxCheckpoint, TLC

VARIABLE tool  \* the command that the behaviour is about

Init ==
    /\ tool \in {"provider", "install", "access", "checkpoint"}
    /\ ProviderInit /\ InstallInit /\ AccessInit /\ CheckpointInit

ProviderMoves ==
    tool = "provider" /\ ProviderNext /\ UNCHANGED <<tool, installVars, accessVars, checkpointVars>>

InstallMoves ==
    tool = "install" /\ InstallNext /\ UNCHANGED <<tool, providerVars, accessVars, checkpointVars>>

AccessMoves ==
    tool = "access" /\ AccessNext /\ UNCHANGED <<tool, providerVars, installVars, checkpointVars>>

CheckpointMoves ==
    tool = "checkpoint" /\ CheckpointNext /\ UNCHANGED <<tool, providerVars, installVars, accessVars>>

Next == ProviderMoves \/ InstallMoves \/ AccessMoves \/ CheckpointMoves

Spec == Init /\ [][Next]_<<tool, providerVars, installVars, accessVars, checkpointVars>>

Symmetry == Permutations(Terminals) \cup Permutations(Endpoints)

\* The files, locals and resources of the command that moves have legal values.
TypeOK ==
    CASE tool = "provider"   -> ProviderTypeOK
      [] tool = "install"    -> InstallTypeOK
      [] tool = "access"     -> AccessTypeOK
      [] tool = "checkpoint" -> CheckpointTypeOK

=============================================================================
