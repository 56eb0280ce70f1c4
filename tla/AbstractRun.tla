----------------------------- MODULE AbstractRun -----------------------------
(***************************************************************************)
(* What one process of the generator promises (spec 4.5 and 7): the      *)
(* stages run in a fixed order, none before the previous one is over; a  *)
(* run exits 0 only after the last stage and exits 1 from any stage;     *)
(* the root key is generated once, in the root issuance stage, and is    *)
(* not replaced for the rest of the run.  A new process starts without   *)
(* a root key.  Stages are numbered 1..Len(StageNames); 0 is "no process".*)
(***************************************************************************)
EXTENDS Integers, Sequences

CONSTANTS
    StageNames,  \* the stages in the order of the spec
    RootStage,   \* the stage that issues the root key
    NoKey,       \* no root key yet
    MaxRuns      \* number of processes started one after another

VARIABLES
    stage,     \* 0 between processes, else the stage being executed
    exitCode,  \* -1 while a process runs, then its exit code
    rootKey,   \* the root key of the current process
    runs       \* processes started so far

vars == <<stage, exitCode, rootKey, runs>>

Last == Len(StageNames)

Init ==
    /\ stage = 0
    /\ exitCode = -1
    /\ rootKey = NoKey
    /\ runs = 0

Begin ==
    /\ stage = 0
    /\ runs < MaxRuns
    /\ stage' = 1
    /\ exitCode' = -1
    /\ rootKey' = NoKey
    /\ runs' = runs + 1

\* The root stage generates the root key, once.
IssueRoot ==
    /\ stage = RootStage
    /\ rootKey = NoKey
    /\ rootKey' # NoKey
    /\ UNCHANGED <<stage, exitCode, runs>>

\* The current stage is over; a later stage begins (stages with nothing to
\* do may be passed over).
Advance ==
    /\ stage \in 1..Last - 1
    /\ stage' \in stage + 1..Last
    /\ stage >= RootStage => rootKey # NoKey
    /\ UNCHANGED <<exitCode, rootKey, runs>>

\* An exception leaves run(): exit 1.
Fail ==
    /\ stage # 0
    /\ stage' = 0
    /\ exitCode' = 1
    /\ UNCHANGED <<rootKey, runs>>

\* The last stage is over: exit 0.
Finish ==
    /\ stage = Last
    /\ stage' = 0
    /\ exitCode' = 0
    /\ UNCHANGED <<rootKey, runs>>

Next == Begin \/ IssueRoot \/ Advance \/ Fail \/ Finish

Spec == Init /\ [][Next]_vars

=============================================================================
