-------------------------- MODULE MCAgentScheduler --------------------------
(***************************************************************************)
(* The Agent's scheduler with the default windows of GovernorConfig.       *)
(* Streaks saturate past the largest of them.                              *)
(***************************************************************************)
EXTENDS AgentScheduler

Observation(memory, power, saver) ==
    [memory |-> memory, busy |-> FALSE, power |-> power, saver |-> saver]

\* One observation for each way through evaluate.
SomePressures ==
    {Observation("ample", "Ac", FALSE), Observation("low", "Ac", FALSE),
     Observation("critical", "Ac", FALSE), Observation("ample", "Battery", FALSE),
     Observation("ample", "Battery", TRUE)}

CalmOnAc == {Observation("ample", "Ac", FALSE)}
CalmOrCritical == CalmOnAc \cup {Observation("critical", "Ac", FALSE)}
PowerUnknown == CalmOnAc \cup {Observation("ample", "Unknown", FALSE)}

=============================================================================
