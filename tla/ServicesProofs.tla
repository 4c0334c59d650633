--------------------------- MODULE ServicesProofs ---------------------------
(***************************************************************************)
(* One agent at a time works on a machine, with an overlay network of its   *)
(* own that ends with it, and the status that a setup ends with is its own. *)
(***************************************************************************)
EXTENDS Services, Naturals, TLAPS

-----------------------------------------------------------------------------
\* The overlay network, under the agent program, which stops an agent when its Start has
\* returned and only then makes the next.

NebulaTyped ==
    /\ oAgent \in [Nebula!Agents -> {"none", "registering", "configure", "caCrt", "nodeCrt", "nodeKey",
                                     "config", "start", "serving", "returned"}]
    /\ stop \in [Nebula!Agents -> {"none", "waits", "stopped"}]
    /\ file \in [{"caCrt", "nodeCrt", "nodeKey", "config"} -> Nat]
    /\ process \in [Nebula!Agents -> SUBSET Nat]

\* Whoever has begun comes after agents that have ended.
InOrder ==
    \A n \in Nebula!Agents : oAgent[n] # "none" =>
        \A k \in Nebula!Agents : k < n => oAgent[k] = "returned" /\ stop[k] = "stopped"

\* The files that an agent has got past are its own.
Written ==
    \A n \in Nebula!Agents :
        /\ oAgent[n] \in {"nodeCrt", "nodeKey", "config", "start"} => file["caCrt"] = n
        /\ oAgent[n] \in {"nodeKey", "config", "start"} => file["nodeCrt"] = n
        /\ oAgent[n] \in {"config", "start"} => file["nodeKey"] = n
        /\ oAgent[n] = "start" => file["config"] = n

\* A nebula that runs is known to its manager, and none is left once the manager stops.
Known ==
    \A n \in Nebula!Agents :
        /\ process[n] # {} => n \in running
        /\ stop[n] # "none" => oAgent[n] = "returned" /\ process[n] = {}

NebulaInv == NebulaTyped /\ InOrder /\ Written /\ Known /\ OwnFiles

LEMMA FilesAre == Nebula!Files = {"caCrt", "nodeCrt", "nodeKey", "config"}
BY DEF Nebula!Files, Nebula!After

LEMMA NebulaStarts == Nebula!Init => NebulaInv
BY FilesAre DEF Nebula!Init, NebulaInv, NebulaTyped, InOrder, Written, Known, OwnFiles, Nebula!OwnFiles

LEMMA NebulaSteps == ASSUME ~Console, NebulaInv, Nebula!Next PROVE NebulaInv'
<1> USE DEF NebulaInv, Nebula!Goes
<1>0. \A n \in Nebula!Agents : n \in Nat
  BY ServicesAssumption DEF Nebula!OverlayAssumption, Nebula!Agents
<1>1. ASSUME NEW n \in Nebula!Agents, Nebula!Make(n) PROVE NebulaInv'
  <2>1. NebulaTyped'
    BY <1>0, <1>1 DEF Nebula!Make, NebulaTyped
  <2>2. InOrder'
    BY <1>0, <1>1 DEF Nebula!Make, NebulaTyped, InOrder, Known
  <2>3. Written'
    BY <1>0, <1>1 DEF Nebula!Make, NebulaTyped, InOrder, Written
  <2>4. Known'
    BY <1>0, <1>1 DEF Nebula!Make, NebulaTyped, Known
  <2>5. OwnFiles'
    BY <1>0, <1>1 DEF Nebula!Make, NebulaTyped, Written, OwnFiles, Nebula!OwnFiles
  <2> QED BY <2>1, <2>2, <2>3, <2>4, <2>5
<1>2. ASSUME NEW n \in Nebula!Agents, Nebula!Register(n) PROVE NebulaInv'
  <2>1. NebulaTyped'
    BY <1>0, <1>2 DEF Nebula!Register, NebulaTyped
  <2>2. InOrder'
    BY <1>0, <1>2 DEF Nebula!Register, NebulaTyped, InOrder, Known
  <2>3. Written'
    BY <1>0, <1>2 DEF Nebula!Register, NebulaTyped, InOrder, Written
  <2>4. Known'
    BY <1>0, <1>2 DEF Nebula!Register, NebulaTyped, Known
  <2>5. OwnFiles'
    BY <1>0, <1>2 DEF Nebula!Register, NebulaTyped, Written, OwnFiles, Nebula!OwnFiles
  <2> QED BY <2>1, <2>2, <2>3, <2>4, <2>5
<1>3. ASSUME NEW n \in Nebula!Agents, Nebula!Configure(n) PROVE NebulaInv'
  <2>1. NebulaTyped'
    BY <1>0, <1>3 DEF Nebula!Configure, NebulaTyped
  <2>2. InOrder'
    BY <1>0, <1>3 DEF Nebula!Configure, NebulaTyped, InOrder, Known
  <2>3. Written'
    BY <1>0, <1>3 DEF Nebula!Configure, NebulaTyped, InOrder, Written
  <2>4. Known'
    BY <1>0, <1>3 DEF Nebula!Configure, NebulaTyped, Known
  <2>5. OwnFiles'
    BY <1>0, <1>3 DEF Nebula!Configure, NebulaTyped, Written, OwnFiles, Nebula!OwnFiles
  <2> QED BY <2>1, <2>2, <2>3, <2>4, <2>5
<1>4. ASSUME NEW n \in Nebula!Agents, Nebula!Write(n) PROVE NebulaInv'
  <2>1. NebulaTyped'
    BY FilesAre, <1>0, <1>4 DEF Nebula!Write, Nebula!Writing, Nebula!After, Nebula!AfterFailure, NebulaTyped
  <2>2. InOrder'
    BY FilesAre, <1>0, <1>4 DEF Nebula!Write, Nebula!Writing, Nebula!After, Nebula!AfterFailure, NebulaTyped, InOrder, Known
  <2>3. Written'
    BY FilesAre, <1>0, <1>4 DEF Nebula!Write, Nebula!Writing, Nebula!After, Nebula!AfterFailure, NebulaTyped, InOrder, Written
  <2>4. Known'
    BY FilesAre, <1>0, <1>4 DEF Nebula!Write, Nebula!Writing, Nebula!After, Nebula!AfterFailure, NebulaTyped, Known
  <2>5. OwnFiles'
    BY FilesAre, <1>0, <1>4 DEF Nebula!Write, Nebula!Writing, Nebula!After, Nebula!AfterFailure, NebulaTyped, Written, OwnFiles, Nebula!OwnFiles
  <2> QED BY <2>1, <2>2, <2>3, <2>4, <2>5
<1>5. ASSUME NEW n \in Nebula!Agents, Nebula!Start(n) PROVE NebulaInv'
  <2>1. NebulaTyped'
    BY FilesAre, <1>0, <1>5 DEF Nebula!Start, Nebula!Tracked, NebulaTyped
  <2>2. InOrder'
    BY FilesAre, <1>0, <1>5 DEF Nebula!Start, Nebula!Tracked, NebulaTyped, InOrder, Known
  <2>3. Written'
    BY FilesAre, <1>0, <1>5 DEF Nebula!Start, Nebula!Tracked, NebulaTyped, InOrder, Written
  <2>4. Known'
    BY FilesAre, <1>0, <1>5 DEF Nebula!Start, Nebula!Tracked, NebulaTyped, Known
  <2>5. OwnFiles'
    BY FilesAre, <1>0, <1>5 DEF Nebula!Start, Nebula!Tracked, NebulaTyped, Written, OwnFiles, Nebula!OwnFiles
  <2> QED BY <2>1, <2>2, <2>3, <2>4, <2>5
<1>6. ASSUME NEW n \in Nebula!Agents, Nebula!Return(n) PROVE NebulaInv'
  <2>1. NebulaTyped'
    BY <1>0, <1>6 DEF Nebula!Return, NebulaTyped
  <2>2. InOrder'
    BY <1>0, <1>6 DEF Nebula!Return, NebulaTyped, InOrder, Known
  <2>3. Written'
    BY <1>0, <1>6 DEF Nebula!Return, NebulaTyped, InOrder, Written
  <2>4. Known'
    BY <1>0, <1>6 DEF Nebula!Return, NebulaTyped, Known
  <2>5. OwnFiles'
    BY <1>0, <1>6 DEF Nebula!Return, NebulaTyped, Written, OwnFiles, Nebula!OwnFiles
  <2> QED BY <2>1, <2>2, <2>3, <2>4, <2>5
<1>7. ASSUME NEW n \in Nebula!Agents, Nebula!Dies(n) PROVE NebulaInv'
  <2>1. NebulaTyped'
    BY <1>0, <1>7 DEF Nebula!Dies, NebulaTyped
  <2>2. InOrder'
    BY <1>0, <1>7 DEF Nebula!Dies, NebulaTyped, InOrder, Known
  <2>3. Written'
    BY <1>0, <1>7 DEF Nebula!Dies, NebulaTyped, InOrder, Written
  <2>4. Known'
    BY <1>0, <1>7 DEF Nebula!Dies, NebulaTyped, Known
  <2>5. OwnFiles'
    BY <1>0, <1>7 DEF Nebula!Dies, NebulaTyped, Written, OwnFiles, Nebula!OwnFiles
  <2> QED BY <2>1, <2>2, <2>3, <2>4, <2>5
<1>8. ASSUME NEW n \in Nebula!Agents, Nebula!Monitor(n) PROVE NebulaInv'
  <2>1. NebulaTyped'
    BY <1>0, <1>8 DEF Nebula!Monitor, Nebula!Monitored, NebulaTyped
  <2>2. InOrder'
    BY <1>0, <1>8 DEF Nebula!Monitor, Nebula!Monitored, NebulaTyped, InOrder, Known
  <2>3. Written'
    BY <1>0, <1>8 DEF Nebula!Monitor, Nebula!Monitored, NebulaTyped, InOrder, Written
  <2>4. Known'
    BY <1>0, <1>8 DEF Nebula!Monitor, Nebula!Monitored, NebulaTyped, Known
  <2>5. OwnFiles'
    BY <1>0, <1>8 DEF Nebula!Monitor, Nebula!Monitored, NebulaTyped, Written, OwnFiles, Nebula!OwnFiles
  <2> QED BY <2>1, <2>2, <2>3, <2>4, <2>5
<1>9. ASSUME NEW n \in Nebula!Agents, Nebula!DetectNat(n) PROVE NebulaInv'
  <2>1. NebulaTyped'
    BY <1>0, <1>9 DEF Nebula!DetectNat, NebulaTyped
  <2>2. InOrder'
    BY <1>0, <1>9 DEF Nebula!DetectNat, NebulaTyped, InOrder, Known
  <2>3. Written'
    BY <1>0, <1>9 DEF Nebula!DetectNat, NebulaTyped, InOrder, Written
  <2>4. Known'
    BY <1>0, <1>9 DEF Nebula!DetectNat, NebulaTyped, Known
  <2>5. OwnFiles'
    BY <1>0, <1>9 DEF Nebula!DetectNat, NebulaTyped, Written, OwnFiles, Nebula!OwnFiles
  <2> QED BY <2>1, <2>2, <2>3, <2>4, <2>5
<1>10. ASSUME NEW n \in Nebula!Agents, Nebula!Cancel(n) PROVE NebulaInv'
  <2>1. NebulaTyped'
    BY <1>0, <1>10 DEF Nebula!Cancel, NebulaTyped
  <2>2. InOrder'
    BY <1>0, <1>10 DEF Nebula!Cancel, NebulaTyped, InOrder, Known
  <2>3. Written'
    BY <1>0, <1>10 DEF Nebula!Cancel, NebulaTyped, InOrder, Written
  <2>4. Known'
    BY <1>0, <1>10 DEF Nebula!Cancel, NebulaTyped, Known
  <2>5. OwnFiles'
    BY <1>0, <1>10 DEF Nebula!Cancel, NebulaTyped, Written, OwnFiles, Nebula!OwnFiles
  <2> QED BY <2>1, <2>2, <2>3, <2>4, <2>5
<1>11. ASSUME NEW n \in Nebula!Agents, Nebula!Stop(n) PROVE NebulaInv'
  <2>1. NebulaTyped'
    BY <1>0, <1>11 DEF Nebula!Stop, NebulaTyped
  <2>2. InOrder'
    BY <1>0, <1>11 DEF Nebula!Stop, NebulaTyped, InOrder, Known
  <2>3. Written'
    BY <1>0, <1>11 DEF Nebula!Stop, NebulaTyped, InOrder, Written
  <2>4. Known'
    BY <1>0, <1>11 DEF Nebula!Stop, NebulaTyped, Known
  <2>5. OwnFiles'
    BY <1>0, <1>11 DEF Nebula!Stop, NebulaTyped, Written, OwnFiles, Nebula!OwnFiles
  <2> QED BY <2>1, <2>2, <2>3, <2>4, <2>5
<1>12. ASSUME NEW n \in Nebula!Agents, Nebula!Stopped(n) PROVE NebulaInv'
  <2>1. NebulaTyped'
    BY <1>0, <1>12 DEF Nebula!Stopped, NebulaTyped
  <2>2. InOrder'
    BY <1>0, <1>12 DEF Nebula!Stopped, NebulaTyped, InOrder, Known
  <2>3. Written'
    BY <1>0, <1>12 DEF Nebula!Stopped, NebulaTyped, InOrder, Written
  <2>4. Known'
    BY <1>0, <1>12 DEF Nebula!Stopped, NebulaTyped, Known
  <2>5. OwnFiles'
    BY <1>0, <1>12 DEF Nebula!Stopped, NebulaTyped, Written, OwnFiles, Nebula!OwnFiles
  <2> QED BY <2>1, <2>2, <2>3, <2>4, <2>5
<1> QED BY <1>1, <1>2, <1>3, <1>4, <1>5, <1>6, <1>7, <1>8, <1>9, <1>10, <1>11, <1>12
       DEF Nebula!Next, Nebula!Goroutine

LEMMA NebulaKept == ASSUME ~Console PROVE NebulaInv /\ [Nebula!Next]_Nebula!vars => NebulaInv'
<1>1. ASSUME NebulaInv, UNCHANGED Nebula!vars PROVE NebulaInv'
  BY <1>1 DEF Nebula!vars, NebulaInv, NebulaTyped, InOrder, Written, Known, OwnFiles, Nebula!OwnFiles
<1> QED BY <1>1, NebulaSteps

\* With the agent program, which runs one agent after the other: for any number of agents, failed
\* writes and ends of nebula, a nebula process has read the files of its own registration only.
THEOREM ReadsOwnFiles == ASSUME ~Console PROVE Nebula!Spec => []OwnFiles
<1>1. NebulaInv => OwnFiles
  BY DEF NebulaInv
<1> QED BY <1>1, NebulaStarts, NebulaKept, PTL DEF Nebula!Spec

\* And once an agent has returned and was stopped, its nebula is gone, whichever of the manager,
\* the monitor and nebula itself came first.
THEOREM OverlayEnds == ASSUME ~Console PROVE Nebula!Spec => []StopEndsOverlay
<1>1. NebulaInv => StopEndsOverlay
  BY DEF NebulaInv, Known, StopEndsOverlay, Nebula!StopEndsOverlay
<1> QED BY <1>1, NebulaStarts, NebulaKept, PTL DEF Nebula!Spec

-----------------------------------------------------------------------------
\* The agent of cpstart, through any number of restarts, as long as no run is overtaken.

RunRecord ==
    [pc : {"none", "new", "registering", "serving", "leaving", "closing", "gone"},
     cancelled : BOOLEAN, chan : Nat, settings : Changes \cup {Factory}, runtime : BOOLEAN]

RequestPlaces == [Changes -> {"idle", "stop", "start", "answered", "error"}]
MainPlaces == [pc : {"begins", "waits for a signal", "waits", "waiting", "ended"}, told : Nat, chan : Nat]

RunnerTyped ==
    /\ cur \in Nat /\ done = cur
    /\ runs \in [Runner!Runs -> RunRecord]
    /\ settings \in Changes \cup {Factory}
    /\ rRequest \in RequestPlaces
    /\ rMain \in MainPlaces

\* A run whose goroutine is past its work.
Past(pc) == pc \in {"leaving", "closing", "gone"}

\* The runs are taken in order, and main starts the first.
Taken ==
    /\ \A n \in Runner!Runs : runs[n].pc = "none" <=> n > cur
    /\ rMain.pc = "begins" => /\ cur = 0 /\ rStatus = "stopped"
                              /\ \A h \in Changes : rRequest[h] = "idle"
    /\ rMain.pc # "begins" => cur \in Runner!Runs

\* The status says that the latest run works for as long as it does; so whoever starts the next
\* finds it past its work.
Latest ==
    \A n \in Runner!Runs :
        /\ n = cur => rStatus \in {"starting", "running"} \/ Past(runs[n].pc)
        /\ n < cur => Past(runs[n].pc)

\* Each run closes the channel that was made for it.
OwnChannel ==
    \A n \in Runner!Runs :
        /\ runs[n].pc \notin {"none", "new"} => runs[n].chan = n
        /\ n \in closed => runs[n].pc = "gone"

RunnerInv == RunnerTyped /\ Taken /\ Latest /\ OwnChannel /\ ~panicked

LEMMA RunsFrom1 == 1 \in Runner!Runs /\ \A n \in Runner!Runs : n \in Nat /\ n > 0
BY ServicesAssumption DEF Runner!AgentRunnerAssumption, Runner!Runs

LEMMA RunnerBegins == Runner!Init => RunnerInv
<1> SUFFICES ASSUME Runner!Init PROVE RunnerInv
  OBVIOUS
<1>1. RunnerTyped
  BY RunsFrom1 DEF Runner!Init, Runner!NoRun, RunnerTyped, RunRecord, RequestPlaces, MainPlaces
<1> QED BY <1>1, RunsFrom1 DEF Runner!Init, Runner!NoRun, RunnerInv, Taken, Latest, OwnChannel

LEMMA LatestWorks == RunnerInv => Runner!InTurn
<1> SUFFICES ASSUME RunnerInv PROVE Runner!InTurn
  OBVIOUS
<1>1. ASSUME NEW n \in Runner!Runs, Runner!Working(n) PROVE n = cur
  <2>1. n \in Nat /\ cur \in Nat /\ runs[n].pc \in {"registering", "serving"}
    BY <1>1, RunsFrom1 DEF RunnerInv, RunnerTyped, Runner!Working
  <2>2. ~(n > cur) /\ ~(n < cur)
    BY <2>1 DEF RunnerInv, Taken, Latest, Past
  <2> QED BY <2>1, <2>2
<1> QED BY <1>1 DEF Runner!InTurn, RunnerInv

\* A goroutine goes on.
LEMMA RunMoves ==
    ASSUME RunnerInv, NEW n \in Runner!Runs, NEW r \in RunRecord,
           runs[n].pc \notin {"none", "gone"}, r.pc \notin {"none", "new"}, r.chan = n,
           Past(runs[n].pc) => Past(r.pc),
           runs' = [runs EXCEPT ![n] = r],
           UNCHANGED <<cur, done, settings, rRequest, rMain>>,
           n = cur => rStatus' \in {"starting", "running"} \/ Past(r.pc), n # cur => UNCHANGED rStatus,
           \A c \in closed' : c \in closed \/ (c = n /\ r.pc = "gone"),
           ~panicked'
    PROVE  RunnerInv'
<1> USE DEF RunnerInv
<1>1. /\ runs'[n] = r /\ \A k \in Runner!Runs \ {n} : runs'[k] = runs[k]
      /\ runs' \in [Runner!Runs -> RunRecord]
  BY DEF RunnerTyped
<1>2. RunnerTyped'
  BY <1>1 DEF RunnerTyped
<1>3. n \in Nat /\ n > 0 /\ cur \in Nat /\ ~(n > cur) /\ rMain.pc # "begins"
  BY RunsFrom1 DEF Taken, RunnerTyped
<1>4. Taken'
  BY <1>1, <1>3 DEF Taken
<1>5. Latest'
  <2> SUFFICES ASSUME NEW k \in Runner!Runs
               PROVE  /\ k = cur => rStatus' \in {"starting", "running"} \/ Past(runs'[k].pc)
                      /\ k < cur => Past(runs'[k].pc)
    BY DEF Latest
  <2>1. /\ k = cur => rStatus \in {"starting", "running"} \/ Past(runs[k].pc)
        /\ k < cur => Past(runs[k].pc)
    BY DEF Latest
  <2>2. CASE k = n
    BY <1>1, <2>1, <2>2
  <2>3. CASE k # n
    BY <1>1, <2>1, <2>3
  <2> QED BY <2>2, <2>3
<1>6. OwnChannel'
  BY <1>1 DEF OwnChannel
<1> QED BY <1>2, <1>4, <1>5, <1>6

\* Nobody starts a run, and no run goes on.
LEMMA RunsStay ==
    ASSUME RunnerInv, RunnerTyped',
           \A n \in Runner!Runs : runs'[n].pc = runs[n].pc /\ runs'[n].chan = runs[n].chan,
           UNCHANGED <<rStatus, cur, closed, panicked>>,
           rMain'.pc = "begins" => rMain.pc = "begins" /\ UNCHANGED rRequest,
           rMain.pc = "begins" => rMain'.pc = "begins"
    PROVE  RunnerInv'
<1>1. Taken'
  BY DEF RunnerInv, Taken
<1>2. Latest'
  BY DEF RunnerInv, Latest, Past
<1>3. OwnChannel'
  BY DEF RunnerInv, OwnChannel
<1> QED BY <1>1, <1>2, <1>3 DEF RunnerInv

\* A run is told to end, or gets the container runtime.
LEMMA Told ==
    ASSUME RunnerTyped, runs' = runs \/ runs' = [runs EXCEPT ![cur].cancelled = TRUE]
                        \/ runs' = [runs EXCEPT ![cur].runtime = TRUE]
    PROVE  /\ runs' \in [Runner!Runs -> RunRecord]
           /\ \A n \in Runner!Runs : runs'[n].pc = runs[n].pc /\ runs'[n].chan = runs[n].chan
<1>1. runs \in [Runner!Runs -> RunRecord] /\ \A n \in Runner!Runs : runs[n] \in RunRecord
  BY DEF RunnerTyped
<1>2. CASE runs' = runs
  BY <1>1, <1>2
<1>3. ASSUME NEW new, runs' = [runs EXCEPT ![cur] = new],
             cur \in Runner!Runs => new \in RunRecord /\ new.pc = runs[cur].pc /\ new.chan = runs[cur].chan
      PROVE  /\ runs' \in [Runner!Runs -> RunRecord]
             /\ \A n \in Runner!Runs : runs'[n].pc = runs[n].pc /\ runs'[n].chan = runs[n].chan
  BY <1>1, <1>3
<1>4. CASE runs' = [runs EXCEPT ![cur].cancelled = TRUE]
  <2> DEFINE new == [runs[cur] EXCEPT !.cancelled = TRUE]
  <2>1. cur \in Runner!Runs => new \in RunRecord /\ new.pc = runs[cur].pc /\ new.chan = runs[cur].chan
    BY <1>1 DEF RunRecord
  <2>2. runs' = [runs EXCEPT ![cur] = new]
    BY <1>4
  <2> HIDE DEF new
  <2> QED BY <1>3, <2>1, <2>2
<1>5. CASE runs' = [runs EXCEPT ![cur].runtime = TRUE]
  <2> DEFINE new == [runs[cur] EXCEPT !.runtime = TRUE]
  <2>1. cur \in Runner!Runs => new \in RunRecord /\ new.pc = runs[cur].pc /\ new.chan = runs[cur].chan
    BY <1>1 DEF RunRecord
  <2>2. runs' = [runs EXCEPT ![cur] = new]
    BY <1>5
  <2> HIDE DEF new
  <2> QED BY <1>3, <2>1, <2>2
<1> QED BY <1>2, <1>4, <1>5

\* The outcomes of Runner.Start.
Refuses == rStatus \in {"starting", "running"} /\ UNCHANGED <<rStatus, cur, done, runs>>
Starts ==
    /\ rStatus \notin {"starting", "running"} /\ rStatus' = "starting"
    /\ cur + 1 \in Runner!Runs /\ cur' = cur + 1 /\ done' = cur + 1
    /\ runs' = [runs EXCEPT ![cur + 1] = [@ EXCEPT !.pc = "new", !.settings = settings]]

LEMMA StartOutcome == ASSUME RunnerInv, Runner!Start PROVE Refuses \/ Starts
<1>1. CASE ~Runner!MayStart
  BY <1>1 DEF Runner!Start, Runner!MayStart, Refuses
<1>2. CASE Runner!MayStart
  <2>1. Runner!Fresh = {n \in Runner!Runs : n > cur}
    BY DEF Runner!Fresh, RunnerInv, Taken
  <2>2. PICK m \in Runner!Fresh : TRUE
    BY <1>2 DEF Runner!Start
  <2>3. MaxAgentRuns \in Nat /\ cur \in Nat /\ \A k \in Runner!Runs : k \in Nat
    BY ServicesAssumption, RunsFrom1 DEF Runner!AgentRunnerAssumption, RunnerInv, RunnerTyped
  <2>4. m > cur /\ m \in 1..MaxAgentRuns
    BY <2>1 DEF Runner!Runs
  <2>5. cur + 1 \in Runner!Runs
    BY <2>3, <2>4 DEF Runner!Runs
  <2>6. cur + 1 \in Runner!Fresh /\ \A k \in Runner!Fresh : cur + 1 <= k
    BY <2>1, <2>3, <2>5
  <2> DEFINE first == CHOOSE n \in Runner!Fresh : \A k \in Runner!Fresh : n <= k
  <2>7. first \in Runner!Fresh /\ \A k \in Runner!Fresh : first <= k
    BY <2>6
  <2>8. /\ rStatus' = "starting" /\ cur' = first /\ done' = first
        /\ runs' = [runs EXCEPT ![first] = [@ EXCEPT !.pc = "new", !.settings = settings]]
    BY <1>2 DEF Runner!Start
  <2> HIDE DEF first
  <2>9. first = cur + 1
    <3>1. first \in Nat /\ first <= cur + 1 /\ cur + 1 <= first
      BY <2>1, <2>3, <2>6, <2>7
    <3> QED BY <2>3, <3>1
  <2> QED BY <1>2, <2>5, <2>8, <2>9 DEF Runner!MayStart, Starts
<1> QED BY <1>1, <1>2

\* What a new run is; the one before it, if any, is past its work.
LEMMA NewRun ==
    ASSUME RunnerInv, Starts,
           rMain'.pc # "begins", UNCHANGED <<settings, closed, panicked>>,
           rRequest' \in RequestPlaces,
           rMain' \in MainPlaces
    PROVE  RunnerInv'
<1> DEFINE new == [runs[cur + 1] EXCEPT !.pc = "new", !.settings = settings]
<1>1. /\ cur \in Nat /\ cur + 1 \in Runner!Runs /\ cur' = cur + 1
      /\ settings \in Changes \cup {Factory} /\ runs \in [Runner!Runs -> RunRecord]
  BY DEF RunnerInv, RunnerTyped, Starts
<1>2. new \in RunRecord /\ new.pc = "new"
  BY <1>1 DEF RunRecord
<1>3. runs' = [runs EXCEPT ![cur + 1] = new]
  BY DEF Starts
<1> HIDE DEF new
<1>4. /\ runs'[cur + 1] = new /\ \A k \in Runner!Runs : k # cur + 1 => runs'[k] = runs[k]
      /\ runs' \in [Runner!Runs -> RunRecord]
  BY <1>1, <1>2, <1>3
<1>5. RunnerTyped'
  BY <1>1, <1>4 DEF RunnerTyped, Starts
<1>6. Taken'
  <2>1. \A n \in Runner!Runs : runs'[n].pc = "none" <=> n > cur'
    <3> SUFFICES ASSUME NEW n \in Runner!Runs PROVE runs'[n].pc = "none" <=> n > cur'
      OBVIOUS
    <3>1. n \in Nat /\ (runs[n].pc = "none" <=> n > cur)
      BY RunsFrom1 DEF RunnerInv, Taken
    <3>2. CASE n = cur + 1
      BY <1>1, <1>2, <1>4, <3>2
    <3>3. CASE n # cur + 1
      BY <1>1, <1>4, <3>1, <3>3
    <3> QED BY <3>2, <3>3
  <2> QED BY <1>1, <2>1 DEF Taken
<1>7. Latest'
  <2> SUFFICES ASSUME NEW n \in Runner!Runs PROVE n < cur' => Past(runs'[n].pc)
    BY DEF Starts, Latest
  <2>1. n \in Nat
    BY RunsFrom1
  <2>2. n = cur \/ n < cur => Past(runs[n].pc)
    BY DEF RunnerInv, Latest, Starts
  <2>3. n < cur' => n # cur + 1 /\ (n = cur \/ n < cur)
    BY <1>1, <2>1
  <2> QED BY <1>4, <2>2, <2>3
<1>8. OwnChannel'
  <2>1. cur + 1 \notin closed
    <3>1. runs[cur + 1].pc = "none"
      BY <1>1 DEF RunnerInv, Taken
    <3> QED BY <1>1, <3>1 DEF RunnerInv, OwnChannel
  <2> QED BY <1>1, <1>2, <1>4, <2>1 DEF RunnerInv, OwnChannel
<1> QED BY <1>5, <1>6, <1>7, <1>8 DEF RunnerInv

LEMMA GoroutineSteps ==
    ASSUME ~Runner!Overtaken, RunnerInv, NEW n \in Runner!Runs, Runner!Goroutine(n) PROVE RunnerInv'
<1>1. /\ runs[n] \in RunRecord /\ n \in Nat /\ n > 0 /\ cur \in Nat /\ done = cur
      /\ runs \in [Runner!Runs -> RunRecord]
  BY RunsFrom1 DEF RunnerInv, RunnerTyped
<1>2. runs[n].pc # "none" => ~(n > cur) /\ cur \in Runner!Runs /\ runs[cur].pc # "none"
  <2>1. cur \in Runner!Runs => runs[cur].pc # "none"
    BY <1>1 DEF RunnerInv, Taken
  <2>2. rMain.pc = "begins" => runs[n].pc = "none"
    BY <1>1 DEF RunnerInv, Taken
  <2> QED BY <1>1, <2>1, <2>2 DEF RunnerInv, Taken
<1>3. runs[n].pc \notin {"none", "new"} => runs[n].chan = n
  BY DEF RunnerInv, OwnChannel
<1>4. runs[n].pc # "none" /\ ~Past(runs[n].pc) => n = cur
  BY <1>1, <1>2 DEF RunnerInv, Latest
<1>5. runs[n].pc = "leaving" => n = cur
  BY <1>1, <1>2 DEF Runner!Overtaken
<1>6. CASE Runner!Begin(n)
  <2> DEFINE r == [runs[n] EXCEPT !.pc = "registering", !.chan = done]
  <2>1. n = cur
    BY <1>4, <1>6 DEF Runner!Begin, Past
  <2>2. r \in RunRecord /\ r.pc = "registering" /\ r.chan = n
    BY <1>1, <2>1 DEF RunRecord
  <2>3. runs' = [runs EXCEPT ![n] = r] /\ rStatus' = "running" /\ runs[n].pc = "new"
    BY <1>6 DEF Runner!Begin, Runner!Begun
  <2> HIDE DEF r
  <2>4. UNCHANGED <<cur, done, closed, settings, rRequest, rMain, panicked>>
    BY <1>6 DEF Runner!Begin
  <2> QED BY <2>1, <2>2, <2>3, <2>4, RunMoves DEF Past, RunnerInv
<1>7. CASE Runner!Serve(n)
  <2> DEFINE r == [runs[n] EXCEPT !.pc = "serving"]
  <2>1. r \in RunRecord /\ r.pc = "serving" /\ r.chan = runs[n].chan
    BY <1>1 DEF RunRecord
  <2>2. runs' = [runs EXCEPT ![n] = r] /\ runs[n].pc = "registering" /\ UNCHANGED rStatus
    BY <1>7 DEF Runner!Serve
  <2>3. n = cur /\ rStatus \in {"starting", "running"}
    BY <1>4, <2>2 DEF RunnerInv, Latest, Past
  <2> HIDE DEF r
  <2>4. UNCHANGED <<cur, done, closed, settings, rRequest, rMain, panicked>>
    BY <1>7 DEF Runner!Serve
  <2>5. r.chan = n /\ rStatus' \in {"starting", "running"}
    BY <1>3, <2>1, <2>2, <2>3
  <2> QED BY <2>1, <2>2, <2>3, <2>4, <2>5, RunMoves DEF Past, RunnerInv
<1>8. CASE Runner!Fail(n) \/ Runner!Return(n)
  <2> DEFINE r == [runs[n] EXCEPT !.pc = "leaving"]
  <2>1. r \in RunRecord /\ r.pc = "leaving" /\ r.chan = runs[n].chan
    BY <1>1 DEF RunRecord
  <2>2. runs' = [runs EXCEPT ![n] = r] /\ runs[n].pc \in {"registering", "serving"}
    BY <1>8 DEF Runner!Fail, Runner!Return
  <2> HIDE DEF r
  <2>3. UNCHANGED <<cur, done, settings, rRequest, rMain, closed, panicked>>
    BY <1>8 DEF Runner!Fail, Runner!Return
  <2>4. n = cur
    BY <1>4, <2>2 DEF Past
  <2> QED BY <1>3, <2>1, <2>2, <2>3, <2>4, RunMoves DEF Past, RunnerInv
<1>9. CASE Runner!Leave(n)
  <2> DEFINE r == [runs[n] EXCEPT !.pc = "closing"]
  <2>1. r \in RunRecord /\ r.pc = "closing" /\ r.chan = runs[n].chan
    BY <1>1 DEF RunRecord
  <2>2. runs' = [runs EXCEPT ![n] = r] /\ runs[n].pc = "leaving"
    BY <1>9 DEF Runner!Leave
  <2> HIDE DEF r
  <2> QED BY <1>3, <1>5, <1>9, <2>1, <2>2, RunMoves DEF Runner!Leave, Past, RunnerInv
<1>10. CASE Runner!Close(n)
  <2> DEFINE r == [runs[n] EXCEPT !.pc = "gone"]
  <2>1. r \in RunRecord /\ r.pc = "gone" /\ r.chan = runs[n].chan
    BY <1>1 DEF RunRecord
  <2>2. runs' = [runs EXCEPT ![n] = r] /\ runs[n].pc = "closing"
    BY <1>10 DEF Runner!Close
  <2>3. n \notin closed
    BY <2>2 DEF RunnerInv, OwnChannel
  <2>4. ~panicked' /\ closed' = closed \cup {n}
    BY <1>3, <1>10, <2>2, <2>3 DEF Runner!Close
  <2> HIDE DEF r
  <2> QED BY <1>3, <1>10, <2>1, <2>2, <2>4, RunMoves DEF Runner!Close, Past, RunnerInv
<1> QED BY <1>6, <1>7, <1>8, <1>9, <1>10 DEF Runner!Goroutine

LEMMA HandlersStep ==
    ASSUME RunnerInv, NEW h \in Changes, Runner!Change(h) \/ Runner!Handler(h)
    PROVE  RunnerInv'
<1>1. RunnerTyped
  BY DEF RunnerInv
<1>2. CASE Runner!Change(h)
  <2>1. RunnerTyped'
    BY <1>1, <1>2 DEF RunnerTyped, RequestPlaces, MainPlaces, Runner!Change, Runner!Goto
  <2>2. UNCHANGED <<rStatus, cur, runs, closed, panicked, rMain>> /\ rMain.pc # "begins"
    BY <1>2 DEF Runner!Change
  <2> QED BY <2>1, <2>2, RunsStay
<1>3. CASE Runner!RequestStops(h)
  <2>1. rMain.pc # "begins" /\ UNCHANGED <<rStatus, cur, done, closed, panicked, rMain, settings>>
    BY <1>3 DEF RunnerInv, Taken, Runner!RequestStops
  <2>3. /\ runs' \in [Runner!Runs -> RunRecord]
        /\ \A n \in Runner!Runs : runs'[n].pc = runs[n].pc /\ runs'[n].chan = runs[n].chan
    <3>1. runs' = runs \/ (runs' = [runs EXCEPT ![cur].cancelled = TRUE])
      BY <1>3 DEF Runner!RequestStops, Runner!Stopped
    <3> QED BY <1>1, <3>1, Told
  <2>4. RunnerTyped'
    BY <1>1, <1>3, <2>1, <2>3 DEF RunnerTyped, RequestPlaces, MainPlaces, Runner!RequestStops, Runner!Goto
  <2> QED BY <2>1, <2>3, <2>4, RunsStay
<1>4. CASE Runner!RequestStarts(h)
  <2>1. rMain.pc # "begins"
    BY <1>4 DEF RunnerInv, Taken, Runner!RequestStarts
  <2>2. /\ rRequest' \in RequestPlaces
        /\ UNCHANGED <<settings, closed, panicked, rMain>>
    BY <1>1, <1>4 DEF RunnerTyped, RequestPlaces, MainPlaces, Runner!RequestStarts, Runner!Goto
  <2>3. CASE Starts
    BY <1>1, <2>1, <2>2, <2>3, NewRun DEF RunnerTyped
  <2>4. CASE Refuses
    <3>1. RunnerTyped'
      BY <1>1, <2>2, <2>4 DEF RunnerTyped, Refuses
    <3> QED BY <2>1, <2>2, <2>4, <3>1, RunsStay DEF Refuses
  <2> QED BY <1>4, <2>3, <2>4, StartOutcome DEF Runner!RequestStarts
<1> QED BY <1>2, <1>3, <1>4 DEF Runner!Handler

LEMMA MainSteps ==
    ASSUME RunnerInv, Runner!MainGoesOn \/ Runner!MainStops \/ Runner!ProxyReady PROVE RunnerInv'
<1>1. RunnerTyped
  BY DEF RunnerInv
<1>2. CASE Runner!MainStarts
  <2>1. cur = 0 /\ rStatus = "stopped"
    BY <1>2 DEF RunnerInv, Taken, Runner!MainStarts
  <2>2. Starts
    BY <1>2, <2>1, StartOutcome DEF Refuses, Runner!MainStarts
  <2>3. /\ rMain' \in MainPlaces
        /\ rMain'.pc # "begins" /\ UNCHANGED <<settings, closed, panicked, rRequest>>
    BY <1>1, <1>2 DEF RunnerTyped, MainPlaces, Runner!MainStarts
  <2> QED BY <1>1, <2>1, <2>2, <2>3, NewRun DEF RunnerTyped
<1>3. CASE Runner!MainWaits \/ Runner!MainEnds
  <2>1. rMain.pc # "begins" /\ UNCHANGED <<rStatus, cur, done, runs, closed, panicked, rRequest, settings>>
    BY <1>3 DEF Runner!MainWaits, Runner!MainEnds
  <2>2. /\ rMain' \in MainPlaces
        /\ rMain'.pc # "begins"
    <3>1. done \in Nat
      BY <1>1 DEF RunnerTyped
    <3>2. CASE Runner!MainWaits
      BY <1>1, <3>1, <3>2 DEF RunnerTyped, MainPlaces, Runner!MainWaits
    <3>3. CASE Runner!MainEnds
      BY <1>1, <3>3 DEF RunnerTyped, MainPlaces, Runner!MainEnds
    <3> QED BY <1>3, <3>2, <3>3
  <2>3. RunnerTyped'
    BY <1>1, <2>1, <2>2 DEF RunnerTyped
  <2> QED BY <2>1, <2>2, <2>3, RunsStay
<1>4. CASE Runner!MainStops \/ Runner!ProxyReady
  <2>1. /\ rMain.pc # "begins" /\ rMain'.pc # "begins"
        /\ rMain' \in MainPlaces
        /\ UNCHANGED <<rStatus, cur, done, closed, panicked, rRequest, settings>>
    BY <1>1, <1>4 DEF RunnerTyped, MainPlaces, Runner!MainStops, Runner!ProxyReady
  <2>2. /\ runs' \in [Runner!Runs -> RunRecord]
        /\ \A n \in Runner!Runs : runs'[n].pc = runs[n].pc /\ runs'[n].chan = runs[n].chan
    <3>1. \/ runs' = runs
          \/ runs' = [runs EXCEPT ![cur].cancelled = TRUE]
          \/ runs' = [runs EXCEPT ![cur].runtime = TRUE]
      BY <1>4 DEF Runner!MainStops, Runner!Stopped, Runner!ProxyReady
    <3> QED BY <1>1, <3>1, Told
  <2>3. RunnerTyped'
    BY <1>1, <2>1, <2>2 DEF RunnerTyped
  <2> QED BY <2>1, <2>2, <2>3, RunsStay
<1> QED BY <1>2, <1>3, <1>4 DEF Runner!MainGoesOn

LEMMA RunnerSteps == ASSUME ~Runner!Overtaken, RunnerInv, Runner!Next PROVE RunnerInv'
BY GoroutineSteps, HandlersStep, MainSteps DEF Runner!Next

LEMMA RunnerKept == ~Runner!Overtaken /\ RunnerInv /\ [Runner!Next]_Runner!vars => RunnerInv'
<1>1. ASSUME RunnerInv, UNCHANGED Runner!vars PROVE RunnerInv'
  BY <1>1 DEF Runner!vars, RunnerInv, RunnerTyped, Taken, Latest, OwnChannel, Past
<1> QED BY <1>1, RunnerSteps

\* For any number of runs and requests, registrations and disks that fail, and an end of the
\* program at any moment: as long as no Start overtakes a run that failed, between its status and
\* its deferred function, one agent at a time works, and no channel is closed twice.
THEOREM OneAgentWorks == Runner!Spec => AgentsInTurn
<1> QED BY RunnerBegins, RunnerKept, LatestWorks, PTL DEF Runner!Spec, AgentsInTurn, Runner!AgentsInTurn

-----------------------------------------------------------------------------
\* The setup of WSL2, for any requests.

WslOutcomes == {"pending", "running", "done", "failed", "skipped"}
WslPlaces ==
    {"detect", "find", "install", "installed", "use", "containerd", "configure", "gpu", "launch", "verify"}

WslStatus == [started : BOOLEAN, running : BOOLEAN, error : BOOLEAN, steps : [1..6 -> WslOutcomes]]
WslRun == [pc : WslPlaces \cup {"none", "ready", "failed", "hung"},
           distro : Names \cup {NoName}]
WslMachine ==
    [wsl : BOOLEAN, distros : SUBSET Names, containerd : SUBSET Names,
     files : SUBSET (Names \cup {NoName}), up : SUBSET Names]

\* The step that a setup at pc is about.
WslStepAt(pc) ==
    CASE pc = "detect" -> 1 [] pc \in {"find", "install", "installed", "use"} -> 2
      [] pc = "containerd" -> 3 [] pc = "configure" -> 4 [] pc = "gpu" -> 5 [] OTHER -> 6

WslTyped ==
    /\ wStatus \in WslStatus /\ wSetup \in [Wsl2!Runs -> WslRun]
    /\ wMachine \in WslMachine /\ name \in Names

\* The steps before k are good, and none from k on has come out.
WslUpTo(k) ==
    \A i \in 1..6 : /\ i < k => wStatus.steps[i] \in {"done", "skipped"}
                    /\ i >= k => wStatus.steps[i] \in {"pending", "running"}

\* A setup that is under way is the only one, and the status is its own.
WslOwned ==
    \A r \in Wsl2!Runs : wSetup[r].pc \in WslPlaces =>
        /\ \A q \in Wsl2!Runs : wSetup[q].pc \in WslPlaces => q = r
        /\ wStatus.running /\ wStatus.started /\ ~wStatus.error
        /\ WslUpTo(WslStepAt(wSetup[r].pc))

\* A setup that hangs keeps the status running, and none is under way.
WslHung ==
    \A r \in Wsl2!Runs : wSetup[r].pc = "hung" =>
        wStatus.running /\ \A q \in Wsl2!Runs : wSetup[q].pc \notin WslPlaces

WslInv == WslTyped /\ WslOwned /\ WslHung /\ Wsl2!StatusIsOneSetup

LEMMA WslStarts == Wsl2!Init => WslInv
<1> SUFFICES ASSUME Wsl2!Init PROVE WslInv
  OBVIOUS
<1>1. WslTyped
  <2>1. wStatus \in WslStatus
    BY DEF Wsl2!Init, Wsl2!Steps, WslStatus, WslOutcomes
  <2>2. wSetup \in [Wsl2!Runs -> WslRun]
    BY DEF Wsl2!Init, WslRun
  <2>3. wMachine \in WslMachine
    BY DEF Wsl2!Init, WslMachine
  <2> QED BY <2>1, <2>2, <2>3 DEF Wsl2!Init, WslTyped
<1>2. \A r \in Wsl2!Runs : wSetup[r].pc = "none"
  BY DEF Wsl2!Init
<1>3. ~wStatus.started
  BY DEF Wsl2!Init
<1> QED BY <1>1, <1>2, <1>3 DEF WslInv, WslOwned, WslHung, WslPlaces, Wsl2!StatusIsOneSetup

\* A setup goes on, its step done or not, and whatever else the machine gets.
LEMMA WslGoesOn ==
    ASSUME WslInv, NEW r \in Wsl2!Runs, wSetup[r].pc \in WslPlaces,
           NEW s \in WslRun, s.pc \in WslPlaces, wSetup' = [wSetup EXCEPT ![r] = s],
           wStatus' \in WslStatus, wStatus'.running, wStatus'.started, ~wStatus'.error,
           WslUpTo(WslStepAt(s.pc))',
           wMachine' \in WslMachine, name' = name
    PROVE  WslInv'
<1> USE DEF WslInv
<1>1. /\ wSetup'[r] = s /\ \A q \in Wsl2!Runs : q # r => wSetup'[q] = wSetup[q]
      /\ wSetup' \in [Wsl2!Runs -> WslRun]
  BY DEF WslTyped
<1>2. \A q \in Wsl2!Runs : wSetup'[q].pc \in WslPlaces => q = r
  BY <1>1 DEF WslOwned
<1>3. WslTyped'
  BY <1>1 DEF WslTyped
<1>4. WslOwned'
  BY <1>1, <1>2 DEF WslOwned
<1>5. Wsl2!StatusIsOneSetup'
  BY DEF Wsl2!StatusIsOneSetup
<1>6. WslHung'
  BY <1>1 DEF WslHung, WslPlaces
<1> QED BY <1>3, <1>4, <1>5, <1>6

\* A setup ends.
LEMMA WslEnds ==
    ASSUME WslInv, NEW r \in Wsl2!Runs, wSetup[r].pc \in WslPlaces,
           NEW s \in WslRun, s.pc \in {"ready", "failed"}, wSetup' = [wSetup EXCEPT ![r] = s],
           wStatus' \in WslStatus, Wsl2!StatusIsOneSetup',
           UNCHANGED <<wMachine, name>>
    PROVE  WslInv'
<1> USE DEF WslInv
<1>1. /\ wSetup'[r] = s /\ \A q \in Wsl2!Runs : q # r => wSetup'[q] = wSetup[q]
      /\ wSetup' \in [Wsl2!Runs -> WslRun]
  BY DEF WslTyped
<1>2. \A q \in Wsl2!Runs : wSetup'[q].pc \notin WslPlaces
  BY <1>1 DEF WslOwned, WslPlaces
<1>3. WslTyped'
  BY <1>1 DEF WslTyped
<1>4. WslOwned'
  BY <1>2 DEF WslOwned
<1>5. WslHung'
  BY <1>1 DEF WslHung, WslPlaces
<1> QED BY <1>3, <1>4, <1>5

\* A command of a setup hangs.
LEMMA WslHangs == ASSUME WslInv, NEW r \in Wsl2!Runs, Wsl2!Hang(r) PROVE WslInv'
<1> USE DEF WslInv
<1>1. /\ wSetup[r].pc \in WslPlaces /\ UNCHANGED <<wStatus, wMachine, name>>
      /\ wSetup' = [wSetup EXCEPT ![r].pc = "hung"]
  BY DEF Wsl2!Hang, Wsl2!At, WslPlaces
<1> DEFINE s == [wSetup[r] EXCEPT !.pc = "hung"]
<1>2. s \in WslRun /\ s.pc = "hung"
  BY DEF WslTyped, WslRun
<1>3. wSetup' = [wSetup EXCEPT ![r] = s]
  BY <1>1
<1> HIDE DEF s
<1>4. /\ wSetup'[r] = s /\ \A q \in Wsl2!Runs : q # r => wSetup'[q] = wSetup[q]
      /\ wSetup' \in [Wsl2!Runs -> WslRun]
  BY <1>2, <1>3 DEF WslTyped
<1>5. wStatus.running /\ \A q \in Wsl2!Runs : wSetup'[q].pc \notin WslPlaces
  BY <1>1, <1>2, <1>4 DEF WslOwned, WslPlaces
<1>6. WslTyped'
  BY <1>1, <1>4 DEF WslTyped
<1>7. WslOwned' /\ WslHung' /\ Wsl2!StatusIsOneSetup'
  BY <1>1, <1>5 DEF WslOwned, WslHung, Wsl2!StatusIsOneSetup
<1> QED BY <1>6, <1>7

\* Nothing happens to a setup.
LEMMA WslStays ==
    ASSUME WslInv, UNCHANGED <<wStatus, wSetup>>, wMachine' \in WslMachine, name' \in Names
    PROVE  WslInv'
<1>1. WslTyped'
  BY DEF WslInv, WslTyped
<1>2. WslOwned'
  BY DEF WslInv, WslOwned, WslUpTo
<1>3. Wsl2!StatusIsOneSetup'
  BY DEF WslInv, Wsl2!StatusIsOneSetup, Wsl2!Good
<1>4. WslHung'
  BY DEF WslInv, WslHung
<1> QED BY <1>1, <1>2, <1>3, <1>4 DEF WslInv

LEMMA WslStepsAt ==
    /\ WslStepAt("detect") = 1 /\ WslStepAt("find") = 2 /\ WslStepAt("install") = 2
    /\ WslStepAt("installed") = 2 /\ WslStepAt("use") = 2 /\ WslStepAt("containerd") = 3
    /\ WslStepAt("configure") = 4 /\ WslStepAt("gpu") = 5
    /\ WslStepAt("launch") = 6 /\ WslStepAt("verify") = 6
BY DEF WslStepAt

\* Automator.Start.
LEMMA WslAsked == ASSUME WslInv, Wsl2!Start, UNCHANGED <<wMachine, name>> PROVE WslInv'
<1> USE DEF WslInv
<1>1. CASE ~Wsl2!MayStart
  <2>1. UNCHANGED <<wStatus, wSetup>>
    BY <1>1 DEF Wsl2!Start
  <2> QED BY <2>1, WslStays DEF WslTyped
<1>2. CASE Wsl2!MayStart
  <2>1. PICK r \in Wsl2!Runs : wSetup[r].pc = "none" /\ wStatus' = Wsl2!Started
                               /\ wSetup' = [wSetup EXCEPT ![r].pc = "detect"]
    BY <1>2 DEF Wsl2!Start
  <2> DEFINE s == [wSetup[r] EXCEPT !.pc = "detect"]
  <2>2. s \in WslRun /\ s.pc = "detect"
    BY DEF WslTyped, WslRun, WslPlaces
  <2>3. wSetup' = [wSetup EXCEPT ![r] = s]
    BY <2>1 DEF WslTyped
  <2> HIDE DEF s
  <2>4. /\ wSetup'[r] = s /\ \A q \in Wsl2!Runs : q # r => wSetup'[q] = wSetup[q]
        /\ wSetup' \in [Wsl2!Runs -> WslRun]
    BY <2>2, <2>3 DEF WslTyped
  <2>5. \A q \in Wsl2!Runs : wSetup[q].pc \notin WslPlaces \cup {"hung"}
    BY <1>2 DEF WslOwned, WslHung, Wsl2!MayStart
  <2>6. /\ wStatus' \in WslStatus /\ wStatus'.running /\ wStatus'.started /\ ~wStatus'.error
        /\ \A i \in 1..6 : wStatus'.steps[i] = "pending"
    BY <2>1 DEF Wsl2!Started, Wsl2!Steps, WslStatus, WslOutcomes
  <2>7. WslTyped'
    BY <2>4, <2>6 DEF WslTyped
  <2>8. WslUpTo(1)'
    BY <2>6 DEF WslUpTo
  <2>9. WslOwned'
    BY <2>2, <2>4, <2>5, <2>6, <2>8, WslStepsAt DEF WslOwned
  <2>10. Wsl2!StatusIsOneSetup'
    BY <2>6 DEF Wsl2!StatusIsOneSetup
  <2>11. WslHung'
    BY <2>2, <2>4, <2>5 DEF WslHung
  <2> QED BY <2>7, <2>9, <2>10, <2>11
<1> QED BY <1>1, <1>2

\* A step comes out well.
LEMMA WslStep ==
    ASSUME WslInv, NEW r \in Wsl2!Runs, wSetup[r].pc \in WslPlaces, NEW i \in 1..5,
           i = WslStepAt(wSetup[r].pc), NEW o \in {"done", "skipped"}, NEW pc \in WslPlaces,
           WslStepAt(pc) = i + 1, Wsl2!Step(r, i, o, pc),
           wMachine' \in WslMachine, name' = name
    PROVE  WslInv'
<1> USE DEF WslInv
<1> DEFINE s == [wSetup[r] EXCEPT !.pc = pc]
<1>1. s \in WslRun /\ s.pc = pc
  BY DEF WslTyped, WslRun
<1>2. wSetup' = [wSetup EXCEPT ![r] = s]
  BY DEF Wsl2!Step
<1> HIDE DEF s
<1>3. wStatus \in WslStatus /\ wStatus.running /\ wStatus.started /\ ~wStatus.error /\ WslUpTo(i)
  BY DEF WslTyped, WslOwned
<1> DEFINE steps == [k \in 1..6 |-> IF k = i THEN o ELSE IF k = i + 1 THEN "running" ELSE wStatus.steps[k]]
<1>4. wStatus' = [wStatus EXCEPT !.steps = steps]
  BY DEF Wsl2!Step, Wsl2!Steps
<1>5. steps \in [1..6 -> WslOutcomes]
  BY <1>3 DEF WslStatus, WslOutcomes
<1>6. \A k \in 1..6 : /\ k < i + 1 => steps[k] \in {"done", "skipped"}
                      /\ k >= i + 1 => steps[k] \in {"pending", "running"}
  BY <1>3 DEF WslUpTo
<1> HIDE DEF steps
<1>7. /\ wStatus' \in WslStatus /\ wStatus'.running /\ wStatus'.started /\ ~wStatus'.error
      /\ wStatus'.steps = steps
  BY <1>3, <1>4, <1>5 DEF WslStatus
<1>8. WslUpTo(i + 1)'
  BY <1>6, <1>7 DEF WslUpTo
<1> QED BY <1>1, <1>2, <1>7, <1>8, WslGoesOn

\* A step comes out badly.
LEMMA WslFails ==
    ASSUME WslInv, NEW r \in Wsl2!Runs, wSetup[r].pc \in WslPlaces, NEW i \in 1..6,
           i = WslStepAt(wSetup[r].pc), Wsl2!Fails(r, i), UNCHANGED <<wMachine, name>>
    PROVE  WslInv'
<1> USE DEF WslInv
<1> DEFINE s == [wSetup[r] EXCEPT !.pc = "failed"]
<1>1. s \in WslRun /\ s.pc = "failed"
  BY DEF WslTyped, WslRun
<1>2. wSetup' = [wSetup EXCEPT ![r] = s]
  BY DEF Wsl2!Fails
<1> HIDE DEF s
<1>3. wStatus \in WslStatus /\ WslUpTo(i)
  BY DEF WslTyped, WslOwned
<1> DEFINE steps == [wStatus.steps EXCEPT ![i] = "failed"]
<1>4. wStatus' = [wStatus EXCEPT !.steps = steps, !.error = TRUE, !.running = FALSE]
  BY DEF Wsl2!Fails, Wsl2!Failed
<1>5. steps \in [1..6 -> WslOutcomes]
  BY <1>3 DEF WslStatus, WslOutcomes
<1>6. /\ steps[i] = "failed"
      /\ \A k \in 1..6 : /\ k < i => steps[k] \in {"done", "skipped"}
                         /\ k > i => steps[k] \in {"pending", "running"}
  BY <1>3 DEF WslUpTo, WslStatus
<1> HIDE DEF steps
<1>7. wStatus' \in WslStatus /\ wStatus'.error /\ wStatus'.steps = steps
  BY <1>3, <1>4, <1>5 DEF WslStatus
<1>8. Wsl2!StatusIsOneSetup'
  BY <1>6, <1>7 DEF Wsl2!StatusIsOneSetup, Wsl2!Steps, Wsl2!Good
<1> QED BY <1>1, <1>2, <1>7, <1>8, WslEnds

\* A setup goes on within a step.
LEMMA WslMoves ==
    ASSUME WslInv, NEW r \in Wsl2!Runs, wSetup[r].pc \in WslPlaces,
           NEW s \in WslRun, s.pc \in WslPlaces, WslStepAt(s.pc) = WslStepAt(wSetup[r].pc),
           wSetup' = [wSetup EXCEPT ![r] = s],
           wMachine' \in WslMachine, UNCHANGED <<wStatus, name>>
    PROVE  WslInv'
<1>1. /\ wStatus \in WslStatus /\ wStatus.running /\ wStatus.started /\ ~wStatus.error
      /\ WslUpTo(WslStepAt(s.pc))
  BY DEF WslInv, WslTyped, WslOwned
<1>2. WslUpTo(WslStepAt(s.pc))'
  BY <1>1 DEF WslUpTo
<1> QED BY <1>1, <1>2, WslGoesOn

LEMMA WslSetupSteps == ASSUME WslInv, NEW r \in Wsl2!Runs, Wsl2!Setup(r) PROVE WslInv'
<1>1. wMachine \in WslMachine /\ name \in Names /\ wSetup[r] \in WslRun
  BY DEF WslInv, WslTyped
<1>2. \A pc \in WslPlaces : [wSetup[r] EXCEPT !.pc = pc] \in WslRun /\ [wSetup[r] EXCEPT !.pc = pc].pc = pc
  BY <1>1 DEF WslRun
<1>3. \A pc \in WslPlaces, d \in Names :
          /\ [wSetup[r] EXCEPT !.pc = pc, !.distro = d] \in WslRun
          /\ [wSetup[r] EXCEPT !.pc = pc, !.distro = d].pc = pc
  BY <1>1 DEF WslRun
<1>4. CASE Wsl2!Detect(r)
  <2>1. wSetup[r].pc = "detect" /\ UNCHANGED <<wMachine, name>>
    BY <1>4 DEF Wsl2!Detect, Wsl2!At
  <2>2. Wsl2!Step(r, 1, "done", "find") \/ Wsl2!Fails(r, 1)
    BY <1>4 DEF Wsl2!Detect
  <2> QED BY <1>1, <2>1, <2>2, WslStep, WslFails, WslStepsAt DEF WslPlaces
<1>5. CASE Wsl2!Find(r)
  <2>1. wSetup[r].pc = "find" /\ UNCHANGED <<wStatus, wMachine, name>>
    BY <1>5 DEF Wsl2!Find, Wsl2!At
  <2>2. CASE \E d \in wMachine.distros : wSetup' = [wSetup EXCEPT ![r].pc = "use", ![r].distro = d]
    <3>1. PICK d \in wMachine.distros : wSetup' = [wSetup EXCEPT ![r].pc = "use", ![r].distro = d]
      BY <2>2
    <3> DEFINE s == [wSetup[r] EXCEPT !.pc = "use", !.distro = d]
    <3>2. d \in Names
      BY <1>1 DEF WslMachine
    <3>3. s \in WslRun /\ s.pc = "use"
      BY <1>3, <3>2 DEF WslPlaces
    <3>4. wSetup \in [Wsl2!Runs -> WslRun]
      BY DEF WslInv, WslTyped
    <3>5. wSetup' = [wSetup EXCEPT ![r] = s]
      BY <3>1, <3>4
    <3> HIDE DEF s
    <3> QED BY <1>1, <2>1, <3>3, <3>5, WslMoves, WslStepsAt DEF WslPlaces
  <2>3. CASE wSetup' = [wSetup EXCEPT ![r].pc = "install"]
    <3> DEFINE s == [wSetup[r] EXCEPT !.pc = "install"]
    <3>1. s \in WslRun /\ s.pc = "install" /\ wSetup' = [wSetup EXCEPT ![r] = s]
      BY <1>2, <2>3 DEF WslPlaces
    <3> HIDE DEF s
    <3> QED BY <1>1, <2>1, <3>1, WslMoves, WslStepsAt DEF WslPlaces
  <2> QED BY <1>5, <2>2, <2>3 DEF Wsl2!Find
<1>6. CASE Wsl2!Install(r)
  <2>1. wSetup[r].pc = "install" /\ name' = name
    BY <1>6 DEF Wsl2!Install, Wsl2!At
  <2>2. CASE wMachine' = Wsl2!Installed /\ wSetup' = [wSetup EXCEPT ![r].pc = "installed"] /\ UNCHANGED wStatus
    <3> DEFINE s == [wSetup[r] EXCEPT !.pc = "installed"]
    <3>1. s \in WslRun /\ s.pc = "installed" /\ wSetup' = [wSetup EXCEPT ![r] = s]
      BY <1>2, <2>2 DEF WslPlaces
    <3>2. wMachine' \in WslMachine
      BY <1>1, <2>2 DEF WslMachine, Wsl2!Installed
    <3>3. UNCHANGED <<wStatus, name>> /\ wSetup[r].pc \in WslPlaces /\ s.pc \in WslPlaces
          /\ WslStepAt(s.pc) = WslStepAt(wSetup[r].pc)
      BY <2>1, <2>2, <3>1, WslStepsAt DEF WslPlaces
    <3> HIDE DEF s
    <3> QED BY <3>1, <3>2, <3>3, WslMoves
  <2>3. CASE Wsl2!Fails(r, 2) /\ UNCHANGED wMachine
    BY <2>1, <2>3, WslFails, WslStepsAt DEF WslPlaces
  <2> QED BY <1>6, <2>2, <2>3 DEF Wsl2!Install
<1>7. CASE Wsl2!Name(r)
  <2>1. wSetup[r].pc = "installed" /\ UNCHANGED <<wStatus, wMachine, name>>
    BY <1>7 DEF Wsl2!Name, Wsl2!At
  <2> DEFINE s == [wSetup[r] EXCEPT !.pc = "use", !.distro = name]
  <2>2. s \in WslRun /\ s.pc = "use"
    BY <1>1, <1>3 DEF WslPlaces
  <2>3. wSetup \in [Wsl2!Runs -> WslRun]
    BY DEF WslInv, WslTyped
  <2>4. wSetup' = [wSetup EXCEPT ![r] = s]
    BY <1>7, <2>3 DEF Wsl2!Name
  <2> HIDE DEF s
  <2> QED BY <1>1, <2>1, <2>2, <2>4, WslMoves, WslStepsAt DEF WslPlaces
<1>8. CASE Wsl2!Use(r)
  BY <1>1, <1>8, WslStep, WslStepsAt DEF Wsl2!Use, Wsl2!At, WslPlaces
<1>9. CASE Wsl2!Containerd(r)
  <2>1. wSetup[r].pc = "containerd" /\ name' = name
    BY <1>9 DEF Wsl2!Containerd, Wsl2!At
  <2>2. CASE Wsl2!Step(r, 3, "skipped", "configure") /\ UNCHANGED wMachine
    BY <1>1, <2>1, <2>2, WslStep, WslStepsAt DEF WslPlaces
  <2>3. CASE /\ wSetup[r].distro \in wMachine.distros
             /\ \E up \in {{}, {wSetup[r].distro}} :
                   wMachine' = [wMachine EXCEPT !.containerd = @ \cup {wSetup[r].distro}, !.up = @ \cup up]
             /\ Wsl2!Step(r, 3, "done", "configure")
    <3>1. wSetup[r].distro \in Names
      BY <1>1, <2>3 DEF WslMachine
    <3>2. PICK up \in SUBSET Names :
              wMachine' = [wMachine EXCEPT !.containerd = @ \cup {wSetup[r].distro}, !.up = @ \cup up]
      BY <2>3, <3>1
    <3>3. wMachine.containerd \cup {wSetup[r].distro} \in SUBSET Names /\ wMachine.up \cup up \in SUBSET Names
      BY <1>1, <3>1 DEF WslMachine
    <3>4. wMachine' \in WslMachine
      BY <1>1, <3>2, <3>3 DEF WslMachine
    <3> QED BY <2>1, <2>3, <3>4, WslStep, WslStepsAt DEF WslPlaces
  <2>4. CASE Wsl2!Fails(r, 3) /\ UNCHANGED wMachine
    BY <2>1, <2>4, WslFails, WslStepsAt DEF WslPlaces
  <2> QED BY <1>9, <2>2, <2>3, <2>4 DEF Wsl2!Containerd
<1>10. CASE Wsl2!Configure(r)
  <2>1. wSetup[r].pc = "configure" /\ name' = name
    BY <1>10 DEF Wsl2!Configure, Wsl2!At
  <2>2. wMachine' \in WslMachine
    <3>1. CASE UNCHANGED wMachine
      BY <1>1, <3>1
    <3>2. CASE \E f \in {{}, {wSetup[r].distro}} : wMachine' = [wMachine EXCEPT !.files = @ \cup f]
      <4>1. PICK f \in SUBSET (Names \cup {NoName}) : wMachine' = [wMachine EXCEPT !.files = @ \cup f]
        BY <1>1, <3>2 DEF WslRun
      <4>2. wMachine.files \cup f \in SUBSET (Names \cup {NoName})
        BY <1>1 DEF WslMachine
      <4> QED BY <1>1, <4>1, <4>2 DEF WslMachine
    <3> QED BY <1>10, <3>1, <3>2 DEF Wsl2!Configure
  <2>3. \E o \in {"done", "skipped"} : Wsl2!Step(r, 4, o, "gpu")
    BY <1>10 DEF Wsl2!Configure
  <2> QED BY <2>1, <2>2, <2>3, WslStep, WslStepsAt DEF WslPlaces
<1>11. CASE Wsl2!Gpu(r)
  BY <1>1, <1>11, WslStep, WslStepsAt DEF Wsl2!Gpu, Wsl2!At, WslPlaces
<1>12. CASE Wsl2!Launch(r)
  <2>1. wSetup[r].pc = "launch" /\ UNCHANGED <<wStatus, name>>
    BY <1>12 DEF Wsl2!Launch, Wsl2!At
  <2> DEFINE s == [wSetup[r] EXCEPT !.pc = "verify"]
  <2>2. s \in WslRun /\ s.pc = "verify" /\ wSetup' = [wSetup EXCEPT ![r] = s]
    BY <1>2, <1>12 DEF WslPlaces, Wsl2!Launch
  <2>3. wMachine' \in WslMachine
    BY <1>1, <1>12 DEF WslMachine, Wsl2!Launch
  <2> HIDE DEF s
  <2> QED BY <2>1, <2>2, <2>3, WslMoves, WslStepsAt DEF WslPlaces
<1>13. CASE Wsl2!Verify(r)
  <2>1. wSetup[r].pc = "verify" /\ UNCHANGED <<wMachine, name>>
    BY <1>13 DEF Wsl2!Verify, Wsl2!At
  <2>2. CASE /\ Wsl2!Verified(wSetup[r].distro)
             /\ wStatus' = [wStatus EXCEPT !.steps[6] = "done", !.running = FALSE]
             /\ wSetup' = [wSetup EXCEPT ![r].pc = "ready"]
    <3> DEFINE s == [wSetup[r] EXCEPT !.pc = "ready"]
    <3>1. s \in WslRun /\ s.pc = "ready" /\ wSetup' = [wSetup EXCEPT ![r] = s]
      BY <1>1, <2>2 DEF WslRun
    <3> HIDE DEF s
    <3>3. wStatus \in WslStatus /\ ~wStatus.error /\ WslUpTo(6)
      BY <2>1, WslStepsAt DEF WslInv, WslTyped, WslOwned, WslPlaces
    <3> DEFINE steps == [wStatus.steps EXCEPT ![6] = "done"]
    <3>4. steps \in [1..6 -> WslOutcomes] /\ \A i \in 1..6 : steps[i] \in {"done", "skipped"}
      BY <3>3 DEF WslStatus, WslOutcomes, WslUpTo
    <3>5. wStatus' = [wStatus EXCEPT !.steps = steps, !.running = FALSE]
      BY <2>2
    <3> HIDE DEF steps
    <3>6. wStatus' \in WslStatus /\ ~wStatus'.error /\ wStatus'.steps = steps
      BY <3>3, <3>4, <3>5 DEF WslStatus
    <3>7. Wsl2!StatusIsOneSetup'
      BY <3>4, <3>6 DEF Wsl2!StatusIsOneSetup, Wsl2!Steps, Wsl2!Good
    <3> QED BY <2>1, <3>1, <3>6, <3>7, WslEnds DEF WslPlaces
  <2>3. CASE Wsl2!Fails(r, 6)
    BY <2>1, <2>3, WslFails, WslStepsAt DEF WslPlaces
  <2> QED BY <1>13, <2>2, <2>3 DEF Wsl2!Verify
<1> QED BY <1>4, <1>5, <1>6, <1>7, <1>8, <1>9, <1>10, <1>11, <1>12, <1>13 DEF Wsl2!Setup

LEMMA WslOtherSteps ==
    ASSUME WslInv, Wsl2!Next, ~\E r \in Wsl2!Runs : Wsl2!Setup(r) \/ Wsl2!Hang(r) PROVE WslInv'
<1>1. wMachine \in WslMachine /\ name \in Names
  BY DEF WslInv, WslTyped
<1>2. ASSUME NEW n \in Wsl2!Proxies, Wsl2!Proxying(n) \/ Wsl2!SocatDies(n) PROVE WslInv'
  <2>1. UNCHANGED <<name, wStatus, wSetup>>
    BY <1>2 DEF Wsl2!Proxying, Wsl2!DetectDistro, Wsl2!Prepare, Wsl2!Clean, Wsl2!Listen, Wsl2!Probe,
                Wsl2!Store, Wsl2!Notice, Wsl2!SocatDies, Wsl2!sVars
  <2>2. wMachine' \in WslMachine
    <3>1. CASE Wsl2!Prepare(n)
      BY <1>1, <3>1 DEF Wsl2!Prepare, WslMachine
    <3>2. CASE ~Wsl2!Prepare(n)
      BY <1>1, <1>2, <3>2 DEF Wsl2!Proxying, Wsl2!DetectDistro, Wsl2!Clean, Wsl2!Listen, Wsl2!Probe,
                              Wsl2!Store, Wsl2!Notice, Wsl2!SocatDies
    <3> QED BY <3>1, <3>2
  <2> QED BY <1>1, <2>1, <2>2, WslStays
<1>3. ASSUME NEW h \in Asks, Wsl2!SetConfig(h) PROVE WslInv'
  <2>1. UNCHANGED <<wStatus, wSetup, wMachine>> /\ name' \in Names
    BY <1>1, <1>3, ServicesAssumption DEF Wsl2!SetConfig, Wsl2!Wsl2SetupAssumption
  <2> QED BY <1>1, <2>1, WslStays
<1>4. ASSUME NEW h \in Asks, Wsl2!Ask(h) PROVE WslInv'
  BY <1>4, WslAsked DEF Wsl2!Ask
<1>5. CASE Wsl2!MainServes
  <2>1. (Wsl2!Start \/ UNCHANGED <<wStatus, wSetup>>) /\ UNCHANGED <<wMachine, name>>
    BY <1>5 DEF Wsl2!MainServes
  <2> QED BY <1>1, <2>1, WslAsked, WslStays
<1>6. CASE Wsl2!MainTries \/ Wsl2!MainStops
  <2>1. UNCHANGED <<name, wStatus, wSetup, wMachine>>
    BY <1>6 DEF Wsl2!MainTries, Wsl2!MainStops, Wsl2!sVars
  <2> QED BY <1>1, <2>1, WslStays
<1>7. CASE Wsl2!MainEnds \/ \E d \in Names : Wsl2!ContainerdEnds(d)
  <2>1. UNCHANGED <<name, wStatus, wSetup>>
    BY <1>7 DEF Wsl2!MainEnds, Wsl2!ContainerdEnds, Wsl2!sVars
  <2>2. \E d : wMachine' = [wMachine EXCEPT !.up = @ \ {d}]
    BY <1>7 DEF Wsl2!MainEnds, Wsl2!ContainerdEnds
  <2>3. wMachine' \in WslMachine
    BY <1>1, <2>2 DEF WslMachine
  <2> QED BY <1>1, <2>1, <2>3, WslStays
<1> QED BY <1>2, <1>3, <1>4, <1>5, <1>6, <1>7 DEF Wsl2!Next, Wsl2!MainGoesOn

LEMMA WslKept == WslInv /\ [Wsl2!Next]_Wsl2!vars => WslInv'
<1>1. ASSUME WslInv, UNCHANGED Wsl2!vars PROVE WslInv'
  <2>1. UNCHANGED <<wStatus, wSetup, wMachine, name>>
    BY <1>1 DEF Wsl2!vars, Wsl2!sVars
  <2> QED BY <1>1, <2>1, WslStays DEF WslInv, WslTyped
<1> QED BY <1>1, WslSetupSteps, WslHangs, WslOtherSteps

-----------------------------------------------------------------------------
\* The setups of macOS, of two automators that do not know of each other.

MacStatus ==
    [started : BOOLEAN, running : BOOLEAN, error : BOOLEAN,
     steps : [1..4 -> {"pending", "running", "done", "failed"}]]
MacPlaces == {"brew", "colima", "start", "wait", "verify"}
MacRun == [automator : {"main", "page"}, pc : MacPlaces \cup {"none", "ready", "failed", "hung"}]

\* The step that a setup at pc is about.
MacStepAt(pc) ==
    CASE pc = "brew" -> 1 [] pc = "colima" -> 2 [] pc \in {"start", "wait"} -> 3 [] OTHER -> 4

MacTyped == mStatus \in [{"main", "page"} -> MacStatus] /\ mSetup \in [Colima!Runs -> MacRun]

\* In a status, the steps before k are done, and none from k on has come out.
MacUpTo(s, k) ==
    \A i \in 1..4 : /\ i < k => s.steps[i] = "done"
                    /\ i >= k => s.steps[i] \in {"pending", "running"}

\* A status of a setup that has come to step k.
MacAt(s, k) == s.running /\ s.started /\ ~s.error /\ MacUpTo(s, k)

\* A setup that is under way is the only one of its automator, ...
MacAlone ==
    \A r, q \in Colima!Runs :
        mSetup[r].pc \in MacPlaces /\ mSetup[q].pc \in MacPlaces /\ mSetup[q].automator = mSetup[r].automator => q = r

\* ... and the status is its own.
MacOwned ==
    \A r \in Colima!Runs :
        mSetup[r].pc \in MacPlaces => MacAt(mStatus[mSetup[r].automator], MacStepAt(mSetup[r].pc))

\* A setup that hangs keeps the status of its automator running, and that has none under way.
MacHung ==
    \A r \in Colima!Runs : mSetup[r].pc = "hung" =>
        /\ mStatus[mSetup[r].automator].running
        /\ \A q \in Colima!Runs : mSetup[q].pc \in MacPlaces => mSetup[q].automator # mSetup[r].automator

\* What StatusIsOneSetup says of one status.
MacOne(s) ==
    s.started /\ ~s.running =>
        IF ~s.error THEN \A i \in 1..4 : s.steps[i] = "done"
        ELSE \E k \in 1..4 : s.steps[k] = "failed" /\ \A i \in 1..4 : (i < k) = (s.steps[i] = "done")

MacInv == MacTyped /\ MacAlone /\ MacOwned /\ MacHung /\ \A a \in {"main", "page"} : MacOne(mStatus[a])

LEMMA MacShows == MacInv => Colima!StatusIsOneSetup
BY DEF MacInv, MacOne, Colima!StatusIsOneSetup, Colima!Automators, Colima!Steps

LEMMA MacStarts == Colima!Init => MacInv
<1> SUFFICES ASSUME Colima!Init PROVE MacInv
  OBVIOUS
<1>1. Colima!Idle \in MacStatus /\ ~Colima!Idle.started
  BY DEF Colima!Idle, Colima!Steps, MacStatus
<1>2. mStatus = [a \in {"main", "page"} |-> Colima!Idle]
  BY DEF Colima!Init, Colima!Automators
<1>3. mSetup = [r \in Colima!Runs |-> [automator |-> "page", pc |-> "none"]]
  BY DEF Colima!Init
<1>4. MacTyped
  BY <1>1, <1>2, <1>3 DEF MacTyped, MacRun
<1>5. MacAlone /\ MacOwned /\ MacHung
  BY <1>3 DEF MacAlone, MacOwned, MacHung, MacPlaces
<1> QED BY <1>1, <1>2, <1>4, <1>5 DEF MacInv, MacOne

\* A setup goes on or ends, and sets the status of its automator.
LEMMA MacChanges ==
    ASSUME MacInv, NEW r \in Colima!Runs, mSetup[r].pc \in MacPlaces,
           NEW a \in {"main", "page"}, a = mSetup[r].automator,
           NEW t \in MacRun, t.automator = a, mSetup' = [mSetup EXCEPT ![r] = t],
           NEW s \in MacStatus, mStatus' = [mStatus EXCEPT ![a] = s],
           t.pc \in MacPlaces => MacAt(s, MacStepAt(t.pc)), t.pc = "hung" => s.running, MacOne(s)
    PROVE  MacInv'
<1> USE DEF MacInv
<1>1. ASSUME NEW q \in Colima!Runs, q # r, mSetup[q].pc \in MacPlaces
      PROVE  mSetup[q].automator # a /\ mSetup[q].automator \in {"main", "page"}
  BY <1>1 DEF MacAlone, MacTyped, MacRun
<1>2. /\ mSetup'[r] = t /\ \A q \in Colima!Runs : q # r => mSetup'[q] = mSetup[q]
      /\ mSetup' \in [Colima!Runs -> MacRun]
  BY DEF MacTyped
<1>3. mStatus \in [{"main", "page"} -> MacStatus]
  BY DEF MacTyped
<1>4. mStatus'[a] = s
  BY <1>3
<1>5. \A b \in {"main", "page"} : b # a => mStatus'[b] = mStatus[b]
  BY <1>3
<1>6. mStatus' \in [{"main", "page"} -> MacStatus]
  BY <1>3
<1>7. MacTyped'
  BY <1>2, <1>6 DEF MacTyped
<1>8. MacAlone'
  BY <1>1, <1>2 DEF MacAlone
<1>9. MacOwned'
  <2> SUFFICES ASSUME NEW q \in Colima!Runs, mSetup'[q].pc \in MacPlaces
               PROVE  MacAt(mStatus'[mSetup'[q].automator], MacStepAt(mSetup'[q].pc))
    BY DEF MacOwned, MacAt, MacUpTo
  <2>1. CASE q = r
    BY <1>2, <1>4, <2>1
  <2>2. CASE q # r
    <3>1. mSetup'[q] = mSetup[q] /\ mSetup[q].automator # a /\ mSetup[q].automator \in {"main", "page"}
      BY <1>1, <1>2, <2>2
    <3>2. mStatus'[mSetup[q].automator] = mStatus[mSetup[q].automator]
      BY <1>5, <3>1
    <3>3. MacAt(mStatus[mSetup[q].automator], MacStepAt(mSetup[q].pc))
      BY <3>1 DEF MacOwned
    <3> QED BY <3>1, <3>2, <3>3
  <2> QED BY <2>1, <2>2
<1>10. \A b \in {"main", "page"} : MacOne(mStatus'[b])
  BY <1>4, <1>5
<1>11. MacHung'
  <2> SUFFICES ASSUME NEW q \in Colima!Runs, mSetup'[q].pc = "hung"
               PROVE  /\ mStatus'[mSetup'[q].automator].running
                      /\ \A p \in Colima!Runs : mSetup'[p].pc \in MacPlaces => mSetup'[p].automator # mSetup'[q].automator
    BY DEF MacHung
  <2>1. CASE q = r
    <3>1. t.pc = "hung" /\ t.pc \notin MacPlaces
      BY <1>2, <2>1 DEF MacPlaces
    <3> QED BY <1>1, <1>2, <1>4, <2>1, <3>1
  <2>2. CASE q # r
    <3>1. mSetup'[q] = mSetup[q] /\ mSetup[q].pc = "hung" /\ mSetup[q].automator \in {"main", "page"}
      BY <1>2, <2>2 DEF MacTyped, MacRun
    <3>2. /\ mStatus[mSetup[q].automator].running
          /\ \A p \in Colima!Runs : mSetup[p].pc \in MacPlaces => mSetup[p].automator # mSetup[q].automator
      BY <3>1 DEF MacHung
    <3>3. mSetup[q].automator # a
      BY <3>2
    <3> QED BY <1>2, <1>5, <3>1, <3>2, <3>3
  <2> QED BY <2>1, <2>2
<1> QED BY <1>7, <1>8, <1>9, <1>10, <1>11 DEF MacOne

\* Nothing happens to a setup.
LEMMA MacStays == ASSUME MacInv, UNCHANGED <<mStatus, mSetup>> PROVE MacInv'
BY DEF MacInv, MacTyped, MacAlone, MacOwned, MacHung, MacAt, MacUpTo, MacOne

LEMMA MacStepsAt ==
    /\ MacStepAt("brew") = 1 /\ MacStepAt("colima") = 2 /\ MacStepAt("start") = 3
    /\ MacStepAt("wait") = 3 /\ MacStepAt("verify") = 4
BY DEF MacStepAt

\* What is known of a setup that is under way.
LEMMA MacUnderWay ==
    ASSUME MacInv, NEW r \in Colima!Runs, mSetup[r].pc \in MacPlaces
    PROVE  /\ mSetup[r].automator \in {"main", "page"}
           /\ mStatus[mSetup[r].automator] \in MacStatus
           /\ MacAt(mStatus[mSetup[r].automator], MacStepAt(mSetup[r].pc))
           /\ \A pc \in MacPlaces \cup {"ready", "failed", "hung"} :
                 \E t \in MacRun : /\ t = [mSetup[r] EXCEPT !.pc = pc]
                                   /\ t.pc = pc /\ t.automator = mSetup[r].automator
<1>1. mSetup[r] \in MacRun
  BY DEF MacInv, MacTyped
<1>2. mSetup[r].automator \in {"main", "page"}
  BY <1>1 DEF MacRun
<1>3. mStatus[mSetup[r].automator] \in MacStatus
  BY <1>2 DEF MacInv, MacTyped
<1>4. MacAt(mStatus[mSetup[r].automator], MacStepAt(mSetup[r].pc))
  BY DEF MacInv, MacOwned
<1>5. ASSUME NEW pc \in MacPlaces \cup {"ready", "failed", "hung"}
      PROVE  \E t \in MacRun : /\ t = [mSetup[r] EXCEPT !.pc = pc]
                               /\ t.pc = pc /\ t.automator = mSetup[r].automator
  <2> DEFINE t == [mSetup[r] EXCEPT !.pc = pc]
  <2>1. t \in MacRun /\ t.pc = pc /\ t.automator = mSetup[r].automator
    BY <1>1 DEF MacRun
  <2> QED BY <2>1
<1> QED BY <1>2, <1>3, <1>4, <1>5

\* A step comes out well.
LEMMA MacDone ==
    ASSUME MacInv, NEW r \in Colima!Runs, mSetup[r].pc \in MacPlaces, NEW i \in 1..3,
           i = MacStepAt(mSetup[r].pc), NEW pc \in MacPlaces, MacStepAt(pc) = i + 1, Colima!Done(r, i, pc)
    PROVE  MacInv'
<1> PICK a \in {"main", "page"} : a = mSetup[r].automator
  BY MacUnderWay
<1> PICK t \in MacRun : t = [mSetup[r] EXCEPT !.pc = pc] /\ t.pc = pc /\ t.automator = a
  BY MacUnderWay
<1>1. mStatus[a] \in MacStatus /\ MacAt(mStatus[a], i)
  BY MacUnderWay
<1> DEFINE steps == [k \in 1..4 |-> IF k = i THEN "done" ELSE IF k = i + 1 THEN "running" ELSE mStatus[a].steps[k]]
           new == [mStatus[a] EXCEPT !.steps = steps]
<1>2. mSetup' = [mSetup EXCEPT ![r] = t] /\ mStatus' = [mStatus EXCEPT ![a] = new]
  BY DEF Colima!Done, Colima!Steps
<1>3. steps \in [1..4 -> {"pending", "running", "done", "failed"}]
  BY <1>1 DEF MacStatus
<1>4. \A k \in 1..4 : /\ k < i + 1 => steps[k] = "done"
                      /\ k >= i + 1 => steps[k] \in {"pending", "running"}
  BY <1>1 DEF MacAt, MacUpTo
<1> HIDE DEF steps
<1>5. new \in MacStatus /\ new.running /\ new.started /\ ~new.error /\ new.steps = steps
  BY <1>1, <1>3 DEF MacStatus, MacAt
<1> HIDE DEF new
<1>6. MacAt(new, i + 1) /\ MacOne(new)
  BY <1>4, <1>5 DEF MacAt, MacUpTo, MacOne
<1> PICK s \in MacStatus : s = new
  BY <1>5
<1> QED BY <1>2, <1>6, MacChanges DEF MacPlaces

\* A step comes out badly.
LEMMA MacFails ==
    ASSUME MacInv, NEW r \in Colima!Runs, mSetup[r].pc \in MacPlaces, NEW i \in 1..4,
           i = MacStepAt(mSetup[r].pc), Colima!Fails(r, i)
    PROVE  MacInv'
<1> PICK a \in {"main", "page"} : a = mSetup[r].automator
  BY MacUnderWay
<1> PICK t \in MacRun : t = [mSetup[r] EXCEPT !.pc = "failed"] /\ t.pc = "failed" /\ t.automator = a
  BY MacUnderWay
<1>1. mStatus[a] \in MacStatus /\ MacAt(mStatus[a], i)
  BY MacUnderWay
<1> DEFINE steps == [mStatus[a].steps EXCEPT ![i] = "failed"]
           new == [mStatus[a] EXCEPT !.steps = steps, !.error = TRUE, !.running = FALSE]
<1>2. mSetup' = [mSetup EXCEPT ![r] = t] /\ mStatus' = [mStatus EXCEPT ![a] = new]
  BY DEF Colima!Fails, Colima!Failed
<1>3. steps \in [1..4 -> {"pending", "running", "done", "failed"}]
  BY <1>1 DEF MacStatus
<1>4. /\ steps[i] = "failed"
      /\ \A k \in 1..4 : /\ k < i => steps[k] = "done"
                         /\ k > i => steps[k] \in {"pending", "running"}
  BY <1>1 DEF MacAt, MacUpTo, MacStatus
<1> HIDE DEF steps
<1>5. new \in MacStatus /\ new.error /\ new.steps = steps
  BY <1>1, <1>3 DEF MacStatus, MacAt
<1> HIDE DEF new
<1>6. MacOne(new)
  BY <1>4, <1>5 DEF MacOne
<1> PICK s \in MacStatus : s = new
  BY <1>5
<1> QED BY <1>2, <1>6, MacChanges DEF MacPlaces

LEMMA MacSetupSteps == ASSUME MacInv, NEW r \in Colima!Runs, Colima!Setup(r) PROVE MacInv'
<1>1. CASE Colima!Brew(r)
  <2>1. mSetup[r].pc = "brew" /\ (Colima!Done(r, 1, "colima") \/ Colima!Fails(r, 1))
    BY <1>1 DEF Colima!Brew
  <2> QED BY <2>1, MacDone, MacFails, MacStepsAt DEF MacPlaces
<1>2. CASE Colima!Colima(r)
  <2>1. mSetup[r].pc = "colima" /\ (Colima!Done(r, 2, "start") \/ Colima!Fails(r, 2))
    BY <1>2 DEF Colima!Colima
  <2> QED BY <2>1, MacDone, MacFails, MacStepsAt DEF MacPlaces
<1>3. CASE Colima!StartColima(r)
  <2>1. CASE Colima!Fails(r, 3)
    BY <1>3, <2>1, MacFails, MacStepsAt DEF MacPlaces, Colima!StartColima
  <2>2. CASE mSetup' = [mSetup EXCEPT ![r].pc = "wait"] /\ UNCHANGED mStatus
    <3> PICK a \in {"main", "page"} : a = mSetup[r].automator
      BY <1>3, MacUnderWay DEF MacPlaces, Colima!StartColima
    <3> PICK t \in MacRun : t = [mSetup[r] EXCEPT !.pc = "wait"] /\ t.pc = "wait" /\ t.automator = a
      BY <1>3, MacUnderWay DEF MacPlaces, Colima!StartColima
    <3>1. mSetup[r].pc \in MacPlaces /\ MacStepAt(mSetup[r].pc) = MacStepAt("wait") /\ "wait" \in MacPlaces
      BY <1>3, MacStepsAt DEF MacPlaces, Colima!StartColima
    <3>2. mStatus[a] \in MacStatus /\ MacAt(mStatus[a], MacStepAt(t.pc)) /\ MacOne(mStatus[a])
      BY <3>1, MacUnderWay DEF MacInv
    <3>3. mStatus' = [mStatus EXCEPT ![a] = mStatus[a]]
      BY <2>2 DEF MacInv, MacTyped
    <3> PICK s \in MacStatus : s = mStatus[a]
      BY <3>2
    <3> QED BY <2>2, <3>1, <3>2, <3>3, MacChanges
  <2> QED BY <1>3, <2>1, <2>2 DEF Colima!StartColima
<1>4. CASE Colima!WaitForSocket(r)
  <2>1. mSetup[r].pc = "wait" /\ (Colima!Done(r, 3, "verify") \/ Colima!Fails(r, 3))
    BY <1>4 DEF Colima!WaitForSocket
  <2> QED BY <2>1, MacDone, MacFails, MacStepsAt DEF MacPlaces
<1>5. CASE Colima!Verify(r)
  <2>1. CASE Colima!Fails(r, 4)
    BY <1>5, <2>1, MacFails, MacStepsAt DEF MacPlaces, Colima!Verify
  <2>2. CASE ~Colima!Fails(r, 4)
    <3> PICK a \in {"main", "page"} : a = mSetup[r].automator
      BY <1>5, MacUnderWay DEF MacPlaces, Colima!Verify
    <3> PICK t \in MacRun : t = [mSetup[r] EXCEPT !.pc = "ready"] /\ t.pc = "ready" /\ t.automator = a
      BY <1>5, MacUnderWay DEF MacPlaces, Colima!Verify
    <3>1. mSetup[r].pc \in MacPlaces /\ MacStepAt(mSetup[r].pc) = 4
      BY <1>5, MacStepsAt DEF MacPlaces, Colima!Verify
    <3>2. mStatus[a] \in MacStatus /\ MacAt(mStatus[a], 4)
      BY <3>1, MacUnderWay
    <3> DEFINE steps == [mStatus[a].steps EXCEPT ![4] = "done"]
               new == [mStatus[a] EXCEPT !.steps = steps, !.running = FALSE]
    <3>3. mSetup' = [mSetup EXCEPT ![r] = t] /\ mStatus' = [mStatus EXCEPT ![a] = new]
      BY <1>5, <2>2 DEF Colima!Verify
    <3>4. steps \in [1..4 -> {"pending", "running", "done", "failed"}] /\ \A k \in 1..4 : steps[k] = "done"
      BY <3>2 DEF MacStatus, MacAt, MacUpTo
    <3> HIDE DEF steps
    <3>5. new \in MacStatus /\ ~new.error /\ new.steps = steps
      BY <3>2, <3>4 DEF MacStatus, MacAt
    <3> HIDE DEF new
    <3>6. MacOne(new)
      BY <3>4, <3>5 DEF MacOne
    <3> PICK s \in MacStatus : s = new
      BY <3>5
    <3> QED BY <3>1, <3>3, <3>6, MacChanges DEF MacPlaces
  <2> QED BY <2>1, <2>2
<1> QED BY <1>1, <1>2, <1>3, <1>4, <1>5 DEF Colima!Setup

\* A command of a setup hangs.
LEMMA MacHangs == ASSUME MacInv, NEW r \in Colima!Runs, Colima!Hang(r) PROVE MacInv'
<1>1. /\ mSetup[r].pc \in MacPlaces /\ UNCHANGED mStatus
      /\ mSetup' = [mSetup EXCEPT ![r].pc = "hung"]
  BY DEF Colima!Hang, MacPlaces
<1> PICK a \in {"main", "page"} : a = mSetup[r].automator
  BY <1>1, MacUnderWay
<1> PICK t \in MacRun : t = [mSetup[r] EXCEPT !.pc = "hung"] /\ t.pc = "hung" /\ t.automator = a
  BY <1>1, MacUnderWay
<1>2. mStatus[a] \in MacStatus /\ MacAt(mStatus[a], MacStepAt(mSetup[r].pc)) /\ MacOne(mStatus[a])
  BY <1>1, MacUnderWay DEF MacInv
<1>3. mStatus' = [mStatus EXCEPT ![a] = mStatus[a]] /\ mSetup' = [mSetup EXCEPT ![r] = t]
  BY <1>1 DEF MacInv, MacTyped
<1>4. mStatus[a].running /\ t.pc \notin MacPlaces
  BY <1>2 DEF MacAt, MacPlaces
<1> PICK s \in MacStatus : s = mStatus[a]
  BY <1>2
<1> QED BY <1>1, <1>2, <1>3, <1>4, MacChanges

\* Automator.Start.
LEMMA MacAsked == ASSUME MacInv, NEW a \in {"main", "page"}, Colima!Start(a) PROVE MacInv'
<1> USE DEF MacInv
<1>1. CASE ~Colima!MayStart(a)
  BY <1>1, MacStays DEF Colima!Start
<1>2. CASE Colima!MayStart(a)
  <2> DEFINE new == [Colima!Idle EXCEPT !.started = TRUE, !.running = TRUE]
  <2>1. PICK r \in Colima!Runs : /\ mStatus' = [mStatus EXCEPT ![a] = new]
                                 /\ mSetup' = [mSetup EXCEPT ![r] = [automator |-> a, pc |-> "brew"]]
    BY <1>2 DEF Colima!Start
  <2>2. new \in MacStatus /\ MacAt(new, 1) /\ MacOne(new)
    <3>1. Colima!Idle \in MacStatus /\ ~Colima!Idle.error /\ \A i \in 1..4 : Colima!Idle.steps[i] = "pending"
      BY DEF Colima!Idle, Colima!Steps, MacStatus
    <3>2. new \in MacStatus /\ new.started /\ new.running /\ ~new.error /\ new.steps = Colima!Idle.steps
      BY <3>1 DEF MacStatus
    <3> HIDE DEF new
    <3> QED BY <3>1, <3>2 DEF MacAt, MacUpTo, MacOne
  <2> HIDE DEF new
  <2>3. ~mStatus[a].running
    BY <1>2 DEF Colima!MayStart
  <2>4. \A q \in Colima!Runs : mSetup[q].pc \in MacPlaces \cup {"hung"} => mSetup[q].automator # a
    BY <2>3 DEF MacOwned, MacAt, MacHung
  <2>5. /\ mSetup'[r] = [automator |-> a, pc |-> "brew"]
        /\ \A q \in Colima!Runs : q # r => mSetup'[q] = mSetup[q]
    BY <2>1 DEF MacTyped
  <2>6. mSetup' \in [Colima!Runs -> MacRun]
    <3>1. [automator |-> a, pc |-> "brew"] \in MacRun
      BY DEF MacRun, MacPlaces
    <3> QED BY <2>1, <3>1 DEF MacTyped
  <2>7. mStatus \in [{"main", "page"} -> MacStatus]
    BY DEF MacTyped
  <2>8. mStatus'[a] = new /\ \A b \in {"main", "page"} : b # a => mStatus'[b] = mStatus[b]
    BY <2>1, <2>7
  <2>9. mStatus' \in [{"main", "page"} -> MacStatus]
    BY <2>1, <2>2, <2>7
  <2>10. MacTyped'
    BY <2>6, <2>9 DEF MacTyped
  <2>11. MacAlone'
    BY <2>4, <2>5 DEF MacAlone
  <2>12. MacOwned'
    <3> SUFFICES ASSUME NEW q \in Colima!Runs, mSetup'[q].pc \in MacPlaces
                 PROVE  MacAt(mStatus'[mSetup'[q].automator], MacStepAt(mSetup'[q].pc))
      BY DEF MacOwned, MacAt, MacUpTo
    <3>1. CASE q = r
      BY <2>2, <2>5, <2>8, <3>1, MacStepsAt
    <3>2. CASE q # r
      <4>1. mSetup'[q] = mSetup[q] /\ mSetup[q].automator # a
        BY <2>4, <2>5, <3>2
      <4>2. mSetup[q].automator \in {"main", "page"}
        BY DEF MacTyped, MacRun
      <4>3. mStatus'[mSetup[q].automator] = mStatus[mSetup[q].automator]
        BY <2>8, <4>1, <4>2
      <4>4. MacAt(mStatus[mSetup[q].automator], MacStepAt(mSetup[q].pc))
        BY <4>1 DEF MacOwned
      <4> QED BY <4>1, <4>3, <4>4
    <3> QED BY <3>1, <3>2
  <2>13. \A b \in {"main", "page"} : MacOne(mStatus'[b])
    BY <2>2, <2>8
  <2>14. MacHung'
    <3> SUFFICES ASSUME NEW q \in Colima!Runs, mSetup'[q].pc = "hung"
                 PROVE  /\ mStatus'[mSetup'[q].automator].running
                        /\ \A p \in Colima!Runs : mSetup'[p].pc \in MacPlaces => mSetup'[p].automator # mSetup'[q].automator
      BY DEF MacHung
    <3>1. q # r /\ mSetup'[q] = mSetup[q] /\ mSetup[q].automator # a
      BY <2>4, <2>5
    <3>2. mSetup[q].automator \in {"main", "page"}
      BY DEF MacTyped, MacRun
    <3>3. /\ mStatus[mSetup[q].automator].running
          /\ \A p \in Colima!Runs : mSetup[p].pc \in MacPlaces => mSetup[p].automator # mSetup[q].automator
      BY <3>1 DEF MacHung
    <3> QED BY <2>5, <2>8, <3>1, <3>2, <3>3
  <2> QED BY <2>10, <2>11, <2>12, <2>13, <2>14 DEF MacOne
<1> QED BY <1>1, <1>2

LEMMA MacKept == MacInv /\ [Colima!Next]_Colima!vars => MacInv'
<1> SUFFICES ASSUME MacInv, [Colima!Next]_Colima!vars PROVE MacInv'
  OBVIOUS
<1>1. CASE UNCHANGED Colima!vars
  BY <1>1, MacStays DEF Colima!vars
<1>2. ASSUME NEW r \in Colima!Runs, Colima!Setup(r) PROVE MacInv'
  BY <1>2, MacSetupSteps
<1>6. ASSUME NEW r \in Colima!Runs, Colima!Hang(r) PROVE MacInv'
  BY <1>6, MacHangs
<1>3. CASE Colima!Colimas
  BY <1>3, MacStays DEF Colima!Colimas
<1>4. CASE Colima!MainStarts
  BY <1>4, MacStays, MacAsked DEF Colima!MainStarts
<1>5. CASE Colima!PageStarts
  BY <1>5, MacAsked DEF Colima!PageStarts
<1> QED BY <1>1, <1>2, <1>3, <1>4, <1>5, <1>6 DEF Colima!Next

\* Whatever fails, and however many setups are asked for: the status that is shown of a setup that
\* has ended is the outcome of that setup, on Windows and of each automator on macOS.
THEOREM SetupShown == Wsl2!Spec /\ Colima!Spec => []StatusIsOneSetup
<1>1. WslInv /\ MacInv => StatusIsOneSetup
  BY MacShows DEF WslInv, StatusIsOneSetup
<1>2. Wsl2!Spec => []WslInv
  BY WslStarts, WslKept, PTL DEF Wsl2!Spec
<1>3. Colima!Spec => []MacInv
  BY MacStarts, MacKept, PTL DEF Colima!Spec
<1> QED BY <1>1, <1>2, <1>3, PTL
=============================================================================
