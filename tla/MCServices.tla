----------------------------- MODULE MCServices -----------------------------
(***************************************************************************)
(* Small instances of AgentRunner, Wsl2Setup, MacSetup and Overlay for TLC. *)
(* They have no variable in common, so a behaviour is one of a single       *)
(* instance, which part names, and the others stand still.                  *)
(***************************************************************************)
EXTENDS Services, TLC

CONSTANT Parts  \* the instances that are checked

VARIABLE part

\* WSL2 once more, where no command breaks and a request for a setup comes beside the one that
\* main may start, with the name of a distribution that is not there yet.
Requested == INSTANCE Wsl2Setup WITH
    Requests <- {"h1"}, Overrides <- {"n2"}, MaxRuns <- MaxSetups, MayBreak <- FALSE,
    status <- wStatus, setup <- wSetup, machine <- wMachine, running <- wRunning,
    stored <- wStored, request <- wRequest, main <- wMain

ASSUME Requested!Wsl2SetupAssumption

all == <<part, rVars, wVars, mVars, oVars>>

\* The machine to begin with only varies where it is set up.
ServicesInit ==
    /\ part \in Parts
    /\ Runner!Init /\ Nebula!Init
    /\ CASE part = "asked" -> Requested!Init /\ name = "n1" /\ "n2" \notin wMachine.distros
         [] part = "wsl2" -> Wsl2!Init
         [] OTHER -> Wsl2!Init /\ name = "n1" /\ ~wMachine.wsl
    /\ part # "macos" => mMachine = [brew |-> FALSE, colima |-> FALSE, vm |-> "off", socket |-> FALSE]
    /\ Colima!Init

\* A step of one part.
Agent(A) == part = "agent" /\ A /\ UNCHANGED <<part, wVars, mVars, oVars>>
Setup(p, A) == part \in p /\ A /\ UNCHANGED <<part, rVars, mVars, oVars>>
Mac(A) == part = "macos" /\ A /\ UNCHANGED <<part, rVars, wVars, oVars>>
Network(A) == part = "overlay" /\ A /\ UNCHANGED <<part, rVars, wVars, mVars>>

ServicesNext ==
    \/ Agent(Runner!Next)
    \/ Setup({"asked"}, Requested!Next)
    \/ Setup({"wsl2"}, Wsl2!Next)
    \/ Mac(Colima!Next)
    \/ Network(Nebula!Next)

\* What the specifications of the modules ask for.
ServicesFairness ==
    LET Wsl(A) == Setup({"asked", "wsl2"}, A)
    IN  /\ \A n \in Runner!Runs : WF_all(Agent(Runner!Goroutine(n)))
        /\ \A h \in Changes : WF_all(Agent(Runner!Handler(h)))
        /\ WF_all(Agent(Runner!MainGoesOn))
        /\ \A r \in Wsl2!Runs : WF_all(Wsl(Wsl2!Setup(r)))
        /\ \A n \in Wsl2!Proxies : WF_all(Wsl(Wsl2!Proxying(n)))
        /\ WF_all(Wsl(Wsl2!MainGoesOn))
        /\ \A r \in Colima!Runs : WF_all(Mac(Colima!Setup(r)))

ServicesSpec == ServicesInit /\ [][ServicesNext]_all /\ ServicesFairness

-----------------------------------------------------------------------------
\* The variables of the modules have their types.
TypesOK == Runner!TypeOK /\ Wsl2!TypeOK /\ Nebula!TypeOK
=============================================================================
