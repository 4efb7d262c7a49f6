-------------------------- MODULE MCOpenCodeRunner --------------------------
(* One sandboxed attempt.  A sandbox only adds steps: the bridge is        *)
(* spawned (or not, without network bridges), and orphaned processes may   *)
(* die (Orphaned, which nothing forces), so every behaviour of an          *)
(* unsandboxed attempt is one of these, but for the variable sandboxed.    *)
EXTENDS OpenCodeRunner

SandboxedInit == RunnerInit /\ sandboxed = TRUE
SandboxedSpec == SandboxedInit /\ [][RunnerNext]_runnerVars /\ RunnerFairness
=============================================================================
