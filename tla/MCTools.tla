------------------------------- MODULE MCTools -------------------------------
(***************************************************************************)
(* The parts of the program that run beside the palace, each with its own  *)
(* files and processes. They share nothing: a behaviour is one of one of   *)
(* them, picked at the start, so that their state spaces add up.           *)
(***************************************************************************)
EXTENDS EntityRegistry, LegacyRegistry, StopHook, Splitter, EmbedHelper, TLC

CONSTANTS s1, s2, s3, t1, t2, t3, t4, t5, t6, f1, f2

SanitizedIDValue == (s1 :> "own") @@ (s2 :> "unknown") @@ (s3 :> "unknown")
BatchSizeValue == [c \in Callers |-> 1]
NameOfValue == (t1 :> "x") @@ (t2 :> "y") @@ (t3 :> "y") @@ (t4 :> "x") @@ (t5 :> "z") @@ (t6 :> "w")
SafeStemValue == (f1 :> "f") @@ (f2 :> "f")
TranscriptsValue == {<<t5, t1, t2>>, <<t2, t3>>, <<t4, t6, t3>>, <<t4>>}

VARIABLE tool
toolsVars == <<registryVars, legacyVars, hookVars, splitterVars, helperVars, tool>>

ToolsInit ==
    /\ RegistryInit /\ LegacyInit /\ HookInit /\ SplitterInit /\ HelperInit
    /\ tool \in {"registry", "legacy", "hook", "splitter", "helper"}

ToolsNext ==
    /\ UNCHANGED tool
    /\ \/ /\ tool = "registry" /\ RegistryNext
          /\ UNCHANGED <<legacyVars, hookVars, splitterVars, helperVars>>
       \/ /\ tool = "legacy" /\ LegacyNext
          /\ UNCHANGED <<registryVars, hookVars, splitterVars, helperVars>>
       \/ /\ tool = "hook" /\ HookNext
          /\ UNCHANGED <<registryVars, legacyVars, splitterVars, helperVars>>
       \/ /\ tool = "splitter" /\ SplitterNext
          /\ UNCHANGED <<registryVars, legacyVars, hookVars, helperVars>>
       \/ /\ tool = "helper" /\ HelperNext
          /\ UNCHANGED <<registryVars, legacyVars, hookVars, splitterVars>>

\* The helper's fairness asks nothing of a behaviour of another part: its
\* actions would have to be fair there too, so it holds for its own only.
ToolsSpec ==
    /\ ToolsInit /\ [][ToolsNext]_toolsVars
    /\ tool = "helper" => HelperFairness

\* Bounds the hooks: the session with a file of its own, or the two that share
\* one, of which nothing is claimed; and two saves a session.
SharedAreShort ==
    LET Unused(s) == stopping[s].stage = "none" /\ spoken[s] = 0
    IN  /\ spoken[s2] <= 2 /\ spoken[s3] <= 1
        /\ \A s \in Sessions : blocks[s] <= 2
        /\ Unused(s1) \/ (Unused(s2) /\ Unused(s3))
=============================================================================
