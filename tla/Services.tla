------------------------------ MODULE Services ------------------------------
(***************************************************************************)
(* What runs on the machine of a member, side by side: the agent of cpstart *)
(* (AgentRunner), its setups of containers (Wsl2Setup on Windows, MacSetup  *)
(* on macOS) and the overlay network of an agent (Overlay).  They have no   *)
(* variable in common.                                                      *)
(***************************************************************************)
CONSTANTS
    Changes, MaxAgentRuns, Refused, DiskFails, Factory,  \* of AgentRunner
    Names, Asks, Overrides, MaxSetups, MayBreak, NoName,         \* of Wsl2Setup
    MaxMacSetups,                                                \* of MacSetup
    MaxAgents, Console, WritesFail                               \* of Overlay

VARIABLES
    rStatus, cur, done, runs, closed, settings, rRequest, rMain, rProxy, panicked,
    name, wStatus, wSetup, wMachine, proxy, wRunning, socat, wStored, wRequest, wMain, target,
    mStatus, mSetup, mMachine, started,
    oAgent, cancelled, stop, file, running, exited, process, nat

rVars == <<rStatus, cur, done, runs, closed, settings, rRequest, rMain, rProxy, panicked>>
wVars == <<name, wStatus, wSetup, wMachine, proxy, wRunning, socat, wStored, wRequest, wMain, target>>
mVars == <<mStatus, mSetup, mMachine, started>>
oVars == <<oAgent, cancelled, stop, file, running, exited, process, nat>>

Runner == INSTANCE AgentRunner WITH
    Requests <- Changes, MaxRuns <- MaxAgentRuns,
    status <- rStatus, request <- rRequest, main <- rMain, proxy <- rProxy

Wsl2 == INSTANCE Wsl2Setup WITH
    Requests <- Asks, MaxRuns <- MaxSetups, status <- wStatus, setup <- wSetup, machine <- wMachine,
    running <- wRunning, stored <- wStored, request <- wRequest, main <- wMain

Colima == INSTANCE MacSetup WITH
    MaxRuns <- MaxMacSetups, status <- mStatus, setup <- mSetup, machine <- mMachine

Nebula == INSTANCE Overlay WITH agent <- oAgent

ASSUME ServicesAssumption ==
    /\ Runner!AgentRunnerAssumption /\ Wsl2!Wsl2SetupAssumption
    /\ Colima!MacSetupAssumption /\ Nebula!OverlayAssumption

-----------------------------------------------------------------------------
\* One agent at a time works on the machine, and no channel of a run is closed twice, unless a
\* run of the agent was overtaken.
AgentsInTurn == Runner!AgentsInTurn

\* The status of a setup that has ended is that of one setup, on Windows and on macOS.
StatusIsOneSetup == Wsl2!StatusIsOneSetup /\ Colima!StatusIsOneSetup

\* A nebula process has read the files of one registration, its own.
OwnFiles == Nebula!OwnFiles

\* Of an agent that has returned and was stopped, no nebula process is left.
StopEndsOverlay == Nebula!StopEndsOverlay

\* A setup ends, and can be asked for again, unless one of its commands hangs.
SetupEnds == Wsl2!SetupEnds /\ Colima!SetupEnds

\* After a signal the program ends, whether it prepares WSL2 or runs an agent that was told to end.
ProgramEnds == Runner!ShutdownEnds /\ Wsl2!ProgramEnds

\* What handlers.go says of a change of settings, and the code does not keep.
ChangeTakesEffect == Runner!ChangeTakesEffect
=============================================================================
