-------------------------- MODULE HostDeployProofs --------------------------
(***************************************************************************)
(* Theorems of HostDeploy, for any hosts, requests and restarts.           *)
(***************************************************************************)
EXTENDS HostDeploy, TLAPS

Tasks == Queued \union Running \union Finished \union {"none"}

(***************************************************************************)
(* Types.                                                                  *)
(***************************************************************************)
\* Replacing the task of one request for one host.
LEMMA TaskType ==
    ASSUME NEW T \in [Reqs -> [Hosts -> Tasks]],
           NEW r \in Reqs, NEW h \in Hosts, NEW s \in Tasks
    PROVE  [T EXCEPT ![r][h] = s] \in [Reqs -> [Hosts -> Tasks]]
OBVIOUS

\* Replacing all tasks of one request.
LEMMA TasksType ==
    ASSUME NEW T \in [Reqs -> [Hosts -> Tasks]],
           NEW r \in Reqs, NEW f \in [Hosts -> Tasks]
    PROVE  [T EXCEPT ![r] = f] \in [Reqs -> [Hosts -> Tasks]]
OBVIOUS

LEMMA EndTaskType ==
    ASSUME TypeOK, NEW r \in Reqs, NEW h \in Hosts, NEW s \in {"ok", "bad"},
           EndTask(r, h, s)
    PROVE  task' \in [Reqs -> [Hosts -> Tasks]]
<1>1. (IF req[r] \in {"check", "config"} THEN s ELSE "none") \in Tasks
  BY DEF Tasks, Finished
<1> QED
  BY <1>1, TaskType DEF EndTask, TypeOK, Tasks

LEMMA StatusType ==
    ASSUME TypeOK, NEW h \in Hosts, NEW s \in Statuses, SetStatus(h, s)
    PROVE  status' \in [Hosts -> Statuses]
BY DEF TypeOK, SetStatus

LEMMA TypeInit == Init => TypeOK
<1> SUFFICES ASSUME Init PROVE TypeOK
    OBVIOUS
<1>1. Idle \in [Hosts -> Tasks]
  BY DEF Tasks, Idle
<1>2. task \in [Reqs -> [Hosts -> Tasks]]
  BY <1>1 DEF Init
<1>3. asked \in 0 .. MaxAsk /\ crashes \in 0 .. MaxCrash
  BY HostDeployAssumption DEF Init
<1> QED
  BY <1>2, <1>3 DEF Init, TypeOK, Statuses, Tasks

\* The steps of a task.
LEMMA TypeTask ==
    ASSUME TypeOK, NEW r \in Reqs, NEW h \in Hosts, TaskStep(r, h)
    PROVE  TypeOK'
<1> USE DEF TypeOK
<1>1. CASE CheckStarts(r, h)
  <2>1. task' \in [Reqs -> [Hosts -> Tasks]]
    BY <1>1, TaskType DEF CheckStarts, Tasks, Running
  <2> QED
    BY <1>1, <2>1 DEF CheckStarts, hostVars, chainVars, Tasks
<1>2. CASE CheckEnds(r, h)
  <2>1. task' \in [Reqs -> [Hosts -> Tasks]]
    BY <1>2, EndTaskType DEF CheckEnds
  <2>2. status' \in [Hosts -> Statuses]
    BY <1>2, StatusType DEF CheckEnds, Statuses
  <2> QED
    BY <1>2, <2>1, <2>2 DEF CheckEnds, hostVars, chainVars, Tasks
<1>3. CASE InitSkips(r, h)
  <2>1. task' \in [Reqs -> [Hosts -> Tasks]]
    BY <1>3, EndTaskType DEF InitSkips
  <2>2. status' \in [Hosts -> Statuses]
    BY <1>3, StatusType DEF InitSkips, Statuses
  <2> QED
    BY <1>3, <2>1, <2>2 DEF InitSkips, hostVars, chainVars, Tasks
<1>4. CASE InitStarts(r, h)
  <2>1. task' \in [Reqs -> [Hosts -> Tasks]]
    BY <1>4, TaskType DEF InitStarts, Tasks, Running
  <2>2. status' \in [Hosts -> Statuses]
    BY <1>4, StatusType DEF InitStarts, Statuses
  <2> QED
    BY <1>4, <2>1, <2>2 DEF InitStarts, hostVars, chainVars, Tasks
<1>5. CASE ExecHostInit(r, h)
  <2>1. task' \in [Reqs -> [Hosts -> Tasks]]
    <3>1. CASE task' = [task EXCEPT ![r][h] = "pulling"]
      BY <3>1, TaskType DEF Tasks, Running
    <3>2. CASE EndTask(r, h, "bad")
      BY <3>2, EndTaskType
    <3> QED
      BY <1>5, <3>1, <3>2 DEF ExecHostInit
  <2>2. status' \in [Hosts -> Statuses]
    BY <1>5, StatusType DEF ExecHostInit, Statuses
  <2> QED
    BY <1>5, <2>1, <2>2 DEF ExecHostInit, hostVars, chainVars, Tasks
<1>6. CASE PullImage(r, h)
  <2>1. task' \in [Reqs -> [Hosts -> Tasks]]
    BY <1>6, EndTaskType DEF PullImage
  <2>2. status' \in [Hosts -> Statuses]
    BY <1>6, StatusType DEF PullImage, Statuses
  <2> QED
    BY <1>6, <2>1, <2>2 DEF PullImage, hostVars, chainVars, Tasks
<1>7. CASE ScpStarts(r, h)
  <2>1. task' \in [Reqs -> [Hosts -> Tasks]]
    BY <1>7, TaskType DEF ScpStarts, Tasks, Running
  <2> QED
    BY <1>7, <2>1 DEF ScpStarts, hostVars, chainVars, Tasks
<1>8. CASE ScpEnds(r, h)
  <2>1. task' \in [Reqs -> [Hosts -> Tasks]]
    BY <1>8, EndTaskType DEF ScpEnds
  <2>2. status' \in [Hosts -> Statuses]
    BY <1>8, StatusType DEF ScpEnds, Statuses
  <2> QED
    BY <1>8, <2>1, <2>2 DEF ScpEnds, hostVars, chainVars, Tasks
<1> QED
  BY <1>1, <1>2, <1>3, <1>4, <1>5, <1>6, <1>7, <1>8 DEF TaskStep

LEMMA AskType == ASSUME TypeOK, Ask PROVE asked' \in 0 .. MaxAsk
BY HostDeployAssumption DEF TypeOK, Ask

\* The steps of a request.
LEMMA TypeRequest ==
    ASSUME TypeOK, NEW r \in Reqs, Request(r)
    PROVE  TypeOK'
<1> USE DEF TypeOK, hostVars, chainVars
<1>1. ASSUME NEW H \in SUBSET Hosts, BatchCheck(r, H) PROVE TypeOK'
  <2>1. [h \in Hosts |-> IF h \in H THEN "check" ELSE "none"] \in [Hosts -> Tasks]
    BY DEF Tasks, Queued
  <2>2. task' \in [Reqs -> [Hosts -> Tasks]]
    BY <1>1, <2>1, TasksType DEF BatchCheck, Tasks
  <2> QED
    BY <1>1, <2>2, AskType DEF BatchCheck, Tasks
<1>2. ASSUME NEW H \in SUBSET Hosts, InitHostAndDocker(r, H) PROVE TypeOK'
  <2>1. [h \in Hosts |-> IF h \notin H THEN "none"
                         ELSE IF status[h] \in successOrInitiating THEN "skip" ELSE "init"]
          \in [Hosts -> Tasks]
    BY DEF Tasks, Queued
  <2>2. task' \in [Reqs -> [Hosts -> Tasks]]
    BY <1>2, <2>1, TasksType DEF InitHostAndDocker, Tasks
  <2>3. skipped' \subseteq Hosts
    BY <1>2 DEF InitHostAndDocker
  <2> QED
    BY <1>2, <2>2, <2>3, AskType DEF InitHostAndDocker, Tasks
<1>3. CASE CheckAnswers(r)
  <2>1. [h \in Hosts |-> IF task[r][h] = "checking" THEN "checking" ELSE "none"]
          \in [Hosts -> Tasks]
    BY DEF Tasks, Running
  <2>2. task' \in [Reqs -> [Hosts -> Tasks]]
    BY <1>3, <2>1, TasksType DEF CheckAnswers, Tasks
  <2>3. status' \in [Hosts -> Statuses]
    BY <1>3 DEF CheckAnswers, Statuses
  <2> QED
    BY <1>3, <2>2, <2>3 DEF CheckAnswers, Tasks
<1>4. CASE ConfigChain(r)
  <2>1. [h \in Hosts |-> "scp"] \in [Hosts -> Tasks]
    BY DEF Tasks, Queued
  <2>2. task' \in [Reqs -> [Hosts -> Tasks]]
    BY <1>4, <2>1, TasksType DEF ConfigChain, Tasks
  <2> QED
    BY <1>4, <2>2, AskType DEF ConfigChain, Tasks
<1>5. CASE ConfigChainFails(r)
  BY <1>5, AskType DEF ConfigChainFails
<1>6. CASE ConfigSucceeds(r)
  <2>1. Idle \in [Hosts -> Tasks]
    BY DEF Tasks, Idle
  <2>2. task' \in [Reqs -> [Hosts -> Tasks]]
    BY <1>6, <2>1, TasksType DEF ConfigSucceeds, Tasks
  <2> QED
    BY <1>6, <2>2 DEF ConfigSucceeds, Tasks
<1>7. CASE ConfigCommits(r)
  BY <1>7 DEF ConfigCommits
<1>8. CASE ConfigFails(r)
  <2>1. [h \in Hosts |-> IF task[r][h] = "copying" THEN "copying" ELSE "none"]
          \in [Hosts -> Tasks]
    BY DEF Tasks, Running
  <2>2. task' \in [Reqs -> [Hosts -> Tasks]]
    BY <1>8, <2>1, TasksType DEF ConfigFails, Tasks
  <2> QED
    BY <1>8, <2>2 DEF ConfigFails, Tasks
<1>9. CASE StartChain(r)
  BY <1>9, AskType DEF StartChain
<1>10. CASE AsyncStartChain(r)
  BY <1>10 DEF AsyncStartChain
<1>11. CASE StartResult(r)
  BY <1>11 DEF StartResult
<1> QED
  BY <1>1, <1>2, <1>3, <1>4, <1>5, <1>6, <1>7, <1>8, <1>9, <1>10, <1>11 DEF Request

LEMMA TypeNext == TypeOK /\ [Next]_vars => TypeOK'
<1> SUFFICES ASSUME TypeOK, [Next]_vars PROVE TypeOK'
    OBVIOUS
<1> USE DEF TypeOK, hostVars, chainVars
<1>1. ASSUME NEW h \in Hosts, SyncCheckPort(h) PROVE TypeOK'
  <2>1. status' \in [Hosts -> Statuses]
    BY <1>1, StatusType DEF SyncCheckPort, Statuses
  <2> QED
    BY <1>1, <2>1, AskType DEF SyncCheckPort
<1>2. CASE PollMarks
  BY <1>2 DEF PollMarks, Statuses
<1>3. ASSUME NEW H \in SUBSET Hosts, PollReads(H) PROVE TypeOK'
  BY <1>3 DEF PollReads
<1>4. CASE Crash
  <2>1. Idle \in [Hosts -> Tasks]
    BY DEF Tasks, Idle
  <2>2. task' \in [Reqs -> [Hosts -> Tasks]]
    BY <1>4, <2>1 DEF Crash
  <2> QED
    BY <1>4, <2>2, HostDeployAssumption DEF Crash, Tasks
<1>5. CASE UNCHANGED vars
  BY <1>5 DEF vars
<1> QED
  BY <1>1, <1>2, <1>3, <1>4, <1>5, TypeTask, TypeRequest DEF Next, Poll

\* Hosts, requests, tasks and the chain's row keep their types.
THEOREM HostTypeCorrect == Spec => []TypeOK
BY TypeInit, TypeNext, PTL DEF Spec

(***************************************************************************)
(* The chain's files.                                                      *)
(***************************************************************************)
LEMMA FilesNext == TypeOK /\ RowHasFiles /\ [Next]_vars => RowHasFiles'
<1> SUFFICES ASSUME TypeOK, RowHasFiles, [Next]_vars PROVE RowHasFiles'
    OBVIOUS
<1> USE DEF TypeOK, RowHasFiles, hostVars, chainVars
<1>1. ASSUME NEW r \in Reqs, NEW h \in Hosts, TaskStep(r, h) PROVE RowHasFiles'
  BY <1>1 DEF TaskStep, CheckStarts, CheckEnds, InitSkips, InitStarts, ExecHostInit,
              PullImage, ScpStarts, ScpEnds
<1>2. ASSUME NEW r \in Reqs, Request(r) PROVE RowHasFiles'
  <2>1. ASSUME NEW H \in SUBSET Hosts, BatchCheck(r, H) \/ InitHostAndDocker(r, H)
        PROVE  RowHasFiles'
    BY <2>1 DEF BatchCheck, InitHostAndDocker
  <2>2. CASE CheckAnswers(r) \/ ConfigFails(r)
    BY <2>2 DEF CheckAnswers, ConfigFails
  <2>3. CASE ConfigChain(r)
    BY <2>3 DEF ConfigChain
  \* The files are moved away only while no row and no other request needs them.
  <2>4. CASE ConfigChainFails(r)
    BY <2>4 DEF ConfigChainFails, MayBuild
  <2>5. CASE ConfigSucceeds(r) \/ ConfigCommits(r)
    BY <2>5 DEF ConfigSucceeds, ConfigCommits
  <2>6. CASE StartChain(r) \/ AsyncStartChain(r) \/ StartResult(r)
    BY <2>6 DEF StartChain, AsyncStartChain, StartResult
  <2> QED
    BY <1>2, <2>1, <2>2, <2>3, <2>4, <2>5, <2>6 DEF Request
<1>3. CASE Poll \/ \E h \in Hosts : SyncCheckPort(h)
  BY <1>3 DEF Poll, PollMarks, PollReads, SyncCheckPort
<1>4. CASE Crash
  BY <1>4 DEF Crash
<1>5. CASE UNCHANGED vars
  BY <1>5 DEF vars
<1> QED
  BY <1>1, <1>2, <1>3, <1>4, <1>5 DEF Next

\* The generated files of the chain are there whenever its row is, or a request is
\* about to commit it (DeployService.configChain, ChainService.generateConfigLocal).
THEOREM FilesAreThere == Spec => []RowHasFiles
<1>1. Init => RowHasFiles
  BY DEF Init, RowHasFiles
<1> QED
  BY <1>1, TypeInit, TypeNext, FilesNext, PTL DEF Spec

(***************************************************************************)
(* What a host that may be configured, or started on, holds.               *)
(***************************************************************************)
Done(h) == h \in skipped \/ h \in inited \intersect image

\* A status after a successful initialisation, or a task that will write one,
\* stands on an initialisation that is done.
StatusStands ==
    \A h \in Hosts :
        status[h] \in {"INIT_SUCCESS", "CONFIG_SUCCESS", "CONFIG_FAIL"} => Done(h)

TaskStands ==
    \A r \in Reqs, h \in Hosts :
        /\ task[r][h] \in {"scp", "copying"} => Done(h)
        /\ task[r][h] = "skip" => Done(h)
        /\ task[r][h] = "pulling" => h \in inited

\* A request that configures waits for copies only; what has been copied is there,
\* and so is the image it looked for.
ConfigStands ==
    \A r \in Reqs :
        /\ req[r] = "config" =>
              \A h \in Hosts : /\ task[r][h] \in {"scp", "copying", "ok", "bad"}
                               /\ task[r][h] = "ok" => h \in conf
        /\ req[r] \in {"config", "commit"} => Hosts \subseteq image
        /\ req[r] = "commit" => Hosts \subseteq conf

RowStands == chain # "none" => Hosts \subseteq image \intersect conf

Stands == TypeOK /\ StatusStands /\ TaskStands /\ ConfigStands /\ RowStands

LEMMA StandsInit == Init => Stands
BY TypeInit DEF Init, Stands, StatusStands, TaskStands, ConfigStands, RowStands, Idle

\* One task changes, the others stay.
LEMMA OneTask ==
    ASSUME TypeOK, NEW r \in Reqs, NEW h \in Hosts, NEW s,
           task' = [task EXCEPT ![r][h] = s]
    PROVE  \A q \in Reqs, g \in Hosts :
              task'[q][g] = IF q = r /\ g = h THEN s ELSE task[q][g]
BY DEF TypeOK

\* The steps of a task.
LEMMA StandsTask ==
    ASSUME Stands, NEW r \in Reqs, NEW h \in Hosts, TaskStep(r, h)
    PROVE  Stands'
<1> USE DEF Stands, Done, hostVars, chainVars
<1>1. TypeOK'
  BY TypeTask
<1>2. CASE CheckStarts(r, h)
  <2>1. \A q \in Reqs, g \in Hosts : q # r \/ g # h => task'[q][g] = task[q][g]
    BY <1>2, OneTask DEF CheckStarts, EndTask
  <2>2. task'[r][h] = "checking"
    BY <1>2 DEF CheckStarts, EndTask, TypeOK
  <2>3. StatusStands'
    BY <1>2 DEF CheckStarts, SetStatus, StatusStands, TaskStands, TypeOK
  <2>4. TaskStands'
    BY <1>2, <2>1, <2>2 DEF CheckStarts, TaskStands
  <2>5. ConfigStands'
    BY <1>2, <2>1, <2>2 DEF CheckStarts, ConfigStands, EndTask
  <2>6. RowStands'
    BY <1>2 DEF CheckStarts, RowStands
  <2> QED
    BY <1>1, <2>3, <2>4, <2>5, <2>6
<1>3. CASE CheckEnds(r, h)
  <2>1. \A q \in Reqs, g \in Hosts : q # r \/ g # h => task'[q][g] = task[q][g]
    BY <1>3, OneTask DEF CheckEnds, EndTask
  <2>2. task'[r][h] \in {"ok", "bad", "none"}
    BY <1>3 DEF CheckEnds, EndTask, TypeOK
  <2>3. StatusStands'
    BY <1>3 DEF CheckEnds, SetStatus, StatusStands, TaskStands, TypeOK
  <2>4. TaskStands'
    BY <1>3, <2>1, <2>2 DEF CheckEnds, TaskStands
  <2>5. ConfigStands'
    BY <1>3, <2>1, <2>2 DEF CheckEnds, ConfigStands, EndTask
  <2>6. RowStands'
    BY <1>3 DEF CheckEnds, RowStands
  <2> QED
    BY <1>1, <2>3, <2>4, <2>5, <2>6
<1>4. CASE InitSkips(r, h)
  <2>1. \A q \in Reqs, g \in Hosts : q # r \/ g # h => task'[q][g] = task[q][g]
    BY <1>4, OneTask DEF InitSkips, EndTask
  <2>2. task'[r][h] \in {"ok", "bad", "none"}
    BY <1>4 DEF InitSkips, EndTask, TypeOK
  <2>3. StatusStands'
    BY <1>4 DEF InitSkips, SetStatus, StatusStands, TaskStands, TypeOK
  <2>4. TaskStands'
    BY <1>4, <2>1, <2>2 DEF InitSkips, TaskStands
  <2>5. ConfigStands'
    BY <1>4, <2>1, <2>2 DEF InitSkips, ConfigStands, EndTask
  <2>6. RowStands'
    BY <1>4 DEF InitSkips, RowStands
  <2> QED
    BY <1>1, <2>3, <2>4, <2>5, <2>6
<1>5. CASE InitStarts(r, h)
  <2>1. \A q \in Reqs, g \in Hosts : q # r \/ g # h => task'[q][g] = task[q][g]
    BY <1>5, OneTask DEF InitStarts, EndTask
  <2>2. task'[r][h] = "initing"
    BY <1>5 DEF InitStarts, EndTask, TypeOK
  <2>3. StatusStands'
    BY <1>5 DEF InitStarts, SetStatus, StatusStands, TaskStands, TypeOK
  <2>4. TaskStands'
    BY <1>5, <2>1, <2>2 DEF InitStarts, TaskStands
  <2>5. ConfigStands'
    BY <1>5, <2>1, <2>2 DEF InitStarts, ConfigStands, EndTask
  <2>6. RowStands'
    BY <1>5 DEF InitStarts, RowStands
  <2> QED
    BY <1>1, <2>3, <2>4, <2>5, <2>6
<1>6. CASE ExecHostInit(r, h)
  <2>1. \A q \in Reqs, g \in Hosts : q # r \/ g # h => task'[q][g] = task[q][g]
    BY <1>6, OneTask DEF ExecHostInit, EndTask
  <2>2. task'[r][h] \in {"pulling", "bad", "none"} /\ (task'[r][h] = "pulling" => h \in inited')
    BY <1>6 DEF ExecHostInit, EndTask, TypeOK
  <2>3. StatusStands'
    BY <1>6 DEF ExecHostInit, SetStatus, StatusStands, TaskStands, TypeOK
  <2>4. TaskStands'
    BY <1>6, <2>1, <2>2 DEF ExecHostInit, TaskStands
  <2>5. ConfigStands'
    BY <1>6, <2>1, <2>2 DEF ExecHostInit, ConfigStands, EndTask
  <2>6. RowStands'
    BY <1>6 DEF ExecHostInit, RowStands
  <2> QED
    BY <1>1, <2>3, <2>4, <2>5, <2>6
<1>7. CASE PullImage(r, h)
  <2>1. \A q \in Reqs, g \in Hosts : q # r \/ g # h => task'[q][g] = task[q][g]
    BY <1>7, OneTask DEF PullImage, EndTask
  <2>2. task'[r][h] \in {"ok", "bad", "none"}
    BY <1>7 DEF PullImage, EndTask, TypeOK
  <2>3. StatusStands'
    BY <1>7 DEF PullImage, SetStatus, StatusStands, TaskStands, TypeOK
  <2>4. TaskStands'
    BY <1>7, <2>1, <2>2 DEF PullImage, TaskStands
  <2>5. ConfigStands'
    BY <1>7, <2>1, <2>2 DEF PullImage, ConfigStands, EndTask
  <2>6. RowStands'
    BY <1>7 DEF PullImage, RowStands
  <2> QED
    BY <1>1, <2>3, <2>4, <2>5, <2>6
<1>8. CASE ScpStarts(r, h)
  <2>1. \A q \in Reqs, g \in Hosts : q # r \/ g # h => task'[q][g] = task[q][g]
    BY <1>8, OneTask DEF ScpStarts, EndTask
  <2>2. task'[r][h] = "copying"
    BY <1>8 DEF ScpStarts, EndTask, TypeOK
  <2>3. StatusStands'
    BY <1>8 DEF ScpStarts, SetStatus, StatusStands, TaskStands, TypeOK
  <2>4. TaskStands'
    BY <1>8, <2>1, <2>2 DEF ScpStarts, TaskStands
  <2>5. ConfigStands'
    BY <1>8, <2>1, <2>2 DEF ScpStarts, ConfigStands, EndTask
  <2>6. RowStands'
    BY <1>8 DEF ScpStarts, RowStands
  <2> QED
    BY <1>1, <2>3, <2>4, <2>5, <2>6
<1>9. CASE ScpEnds(r, h)
  <2>1. \A q \in Reqs, g \in Hosts : q # r \/ g # h => task'[q][g] = task[q][g]
    BY <1>9, OneTask DEF ScpEnds, EndTask
  <2>2. task'[r][h] \in {"ok", "bad", "none"} /\ (task'[r][h] = "ok" => h \in conf')
              /\ (req[r] = "config" => task'[r][h] # "none")
    BY <1>9 DEF ScpEnds, EndTask, TypeOK
  <2>3. StatusStands'
    BY <1>9 DEF ScpEnds, SetStatus, StatusStands, TaskStands, TypeOK
  <2>4. TaskStands'
    BY <1>9, <2>1, <2>2 DEF ScpEnds, TaskStands
  <2>5. ConfigStands'
    BY <1>9, <2>1, <2>2 DEF ScpEnds, ConfigStands, EndTask
  <2>6. RowStands'
    BY <1>9 DEF ScpEnds, RowStands
  <2> QED
    BY <1>1, <2>3, <2>4, <2>5, <2>6
<1> QED
  BY <1>2, <1>3, <1>4, <1>5, <1>6, <1>7, <1>8, <1>9 DEF TaskStep

\* The steps of a request.
LEMMA StandsRequest ==
    ASSUME Stands, NEW r \in Reqs, Request(r)
    PROVE  Stands'
<1> USE DEF Stands, Done, hostVars, chainVars
<1>1. TypeOK'
  BY TypeRequest
<1>2. ASSUME NEW H \in SUBSET Hosts, BatchCheck(r, H) PROVE Stands'
  <2>1. (\A h \in Hosts : task'[r][h] = IF h \in H THEN "check" ELSE "none")
        /\ \A q \in Reqs : q # r => task'[q] = task[q]
    BY <1>2 DEF BatchCheck, TypeOK
  <2>3. StatusStands'
    BY <1>2 DEF BatchCheck, StatusStands, TypeOK
  <2>4. TaskStands'
    BY <1>2, <2>1 DEF BatchCheck, TaskStands, StatusStands
  <2>5. ConfigStands'
    BY <1>2, <2>1 DEF BatchCheck, ConfigStands, RowStands, TypeOK
  <2>6. RowStands'
    BY <1>2 DEF BatchCheck, RowStands, ConfigStands, TypeOK
  <2> QED
    BY <1>1, <2>3, <2>4, <2>5, <2>6
<1>3. ASSUME NEW H \in SUBSET Hosts, InitHostAndDocker(r, H) PROVE Stands'
  <2>1. (\A h \in Hosts : task'[r][h] = IF h \notin H THEN "none"
                                        ELSE IF status[h] \in successOrInitiating
                                        THEN "skip" ELSE "init")
        /\ \A q \in Reqs : q # r => task'[q] = task[q]
    BY <1>3 DEF InitHostAndDocker, TypeOK
  <2>3. StatusStands'
    BY <1>3 DEF InitHostAndDocker, StatusStands, TypeOK
  <2>4. TaskStands'
    BY <1>3, <2>1 DEF InitHostAndDocker, TaskStands, StatusStands, successOrInitiating, Free, Unused
  <2>5. ConfigStands'
    BY <1>3, <2>1 DEF InitHostAndDocker, ConfigStands, RowStands, TypeOK, successOrInitiating, Free, Unused
  <2>6. RowStands'
    BY <1>3 DEF InitHostAndDocker, RowStands, ConfigStands, TypeOK
  <2> QED
    BY <1>1, <2>3, <2>4, <2>5, <2>6
<1>4. CASE CheckAnswers(r)
  <2>1. (\A h \in Hosts : task'[r][h] = IF task[r][h] = "checking" THEN "checking" ELSE "none")
        /\ \A q \in Reqs : q # r => task'[q] = task[q]
    BY <1>4 DEF CheckAnswers, TypeOK
  <2>3. StatusStands'
    BY <1>4 DEF CheckAnswers, StatusStands, TypeOK
  <2>4. TaskStands'
    BY <1>4, <2>1 DEF CheckAnswers, TaskStands, StatusStands
  <2>5. ConfigStands'
    BY <1>4, <2>1 DEF CheckAnswers, ConfigStands, RowStands, TypeOK
  <2>6. RowStands'
    BY <1>4 DEF CheckAnswers, RowStands, ConfigStands, TypeOK
  <2> QED
    BY <1>1, <2>3, <2>4, <2>5, <2>6
<1>5. CASE ConfigChain(r)
  <2>1. (\A h \in Hosts : task'[r][h] = "scp")
        /\ \A q \in Reqs : q # r => task'[q] = task[q]
    BY <1>5 DEF ConfigChain, TypeOK
  <2>3. StatusStands'
    BY <1>5 DEF ConfigChain, StatusStands, TypeOK
  <2>4. TaskStands'
    BY <1>5, <2>1 DEF ConfigChain, TaskStands, StatusStands, Configurable
  <2>5. ConfigStands'
    BY <1>5, <2>1 DEF ConfigChain, ConfigStands, RowStands, TypeOK, Configurable
  <2>6. RowStands'
    BY <1>5 DEF ConfigChain, RowStands, ConfigStands, TypeOK
  <2> QED
    BY <1>1, <2>3, <2>4, <2>5, <2>6
<1>6. CASE ConfigChainFails(r)
  <2>3. StatusStands'
    BY <1>6 DEF ConfigChainFails, StatusStands, TypeOK
  <2>4. TaskStands'
    BY <1>6 DEF ConfigChainFails, TaskStands, StatusStands
  <2>5. ConfigStands'
    BY <1>6 DEF ConfigChainFails, ConfigStands, RowStands, TypeOK
  <2>6. RowStands'
    BY <1>6 DEF ConfigChainFails, RowStands, ConfigStands, TypeOK
  <2> QED
    BY <1>1, <2>3, <2>4, <2>5, <2>6
<1>7. CASE ConfigSucceeds(r)
  <2>1. (\A h \in Hosts : task'[r][h] = "none")
        /\ \A q \in Reqs : q # r => task'[q] = task[q]
    BY <1>7 DEF ConfigSucceeds, TypeOK, Idle
  <2>3. StatusStands'
    BY <1>7 DEF ConfigSucceeds, StatusStands, TypeOK
  <2>4. TaskStands'
    BY <1>7, <2>1 DEF ConfigSucceeds, TaskStands, StatusStands
  <2>5. ConfigStands'
    BY <1>7, <2>1 DEF ConfigSucceeds, ConfigStands, RowStands, TypeOK
  <2>6. RowStands'
    BY <1>7 DEF ConfigSucceeds, RowStands, ConfigStands, TypeOK
  <2> QED
    BY <1>1, <2>3, <2>4, <2>5, <2>6
<1>8. CASE ConfigCommits(r)
  <2>3. StatusStands'
    BY <1>8 DEF ConfigCommits, StatusStands, TypeOK
  <2>4. TaskStands'
    BY <1>8 DEF ConfigCommits, TaskStands, StatusStands
  <2>5. ConfigStands'
    BY <1>8 DEF ConfigCommits, ConfigStands, RowStands, TypeOK
  <2>6. RowStands'
    BY <1>8 DEF ConfigCommits, RowStands, ConfigStands, TypeOK
  <2> QED
    BY <1>1, <2>3, <2>4, <2>5, <2>6
<1>9. CASE ConfigFails(r)
  <2>1. (\A h \in Hosts : task'[r][h] = IF task[r][h] = "copying" THEN "copying" ELSE "none")
        /\ \A q \in Reqs : q # r => task'[q] = task[q]
    BY <1>9 DEF ConfigFails, TypeOK
  <2>3. StatusStands'
    BY <1>9 DEF ConfigFails, StatusStands, TypeOK
  <2>4. TaskStands'
    BY <1>9, <2>1 DEF ConfigFails, TaskStands, StatusStands
  <2>5. ConfigStands'
    BY <1>9, <2>1 DEF ConfigFails, ConfigStands, RowStands, TypeOK
  <2>6. RowStands'
    BY <1>9 DEF ConfigFails, RowStands, ConfigStands, TypeOK
  <2> QED
    BY <1>1, <2>3, <2>4, <2>5, <2>6
<1>10. CASE StartChain(r) \/ AsyncStartChain(r) \/ StartResult(r)
  <2>3. StatusStands'
    BY <1>10 DEF StartChain, AsyncStartChain, StartResult, StatusStands, TypeOK
  <2>4. TaskStands'
    BY <1>10 DEF StartChain, AsyncStartChain, StartResult, TaskStands, StatusStands
  <2>5. ConfigStands'
    BY <1>10 DEF StartChain, AsyncStartChain, StartResult, ConfigStands, RowStands, TypeOK
  <2>6. RowStands'
    BY <1>10 DEF StartChain, AsyncStartChain, StartResult, RowStands, ConfigStands, TypeOK
  <2> QED
    BY <1>1, <2>3, <2>4, <2>5, <2>6
<1> QED
  BY <1>2, <1>3, <1>4, <1>5, <1>6, <1>7, <1>8, <1>9, <1>10 DEF Request

LEMMA StandsNext == Stands /\ [Next]_vars => Stands'
<1> SUFFICES ASSUME Stands, [Next]_vars PROVE Stands'
    OBVIOUS
<1> USE DEF Stands, Done, hostVars, chainVars
<1>1. TypeOK'
  BY TypeNext
\* What these write is no status that stands on anything.
<1>2. CASE Poll \/ \E h \in Hosts : SyncCheckPort(h)
  <2>1. StatusStands'
    BY <1>2 DEF Poll, PollMarks, PollReads, SyncCheckPort, SetStatus, StatusStands, TypeOK
  <2>2. TaskStands' /\ ConfigStands' /\ RowStands'
    BY <1>2 DEF Poll, PollMarks, PollReads, SyncCheckPort, TaskStands, ConfigStands, RowStands
  <2> QED
    BY <1>1, <2>1, <2>2
<1>3. CASE Crash
  BY <1>1, <1>3 DEF Crash, Idle, StatusStands, TaskStands, ConfigStands, RowStands
<1>4. CASE UNCHANGED vars
  BY <1>1, <1>4 DEF vars, StatusStands, TaskStands, ConfigStands, RowStands
<1> QED
  BY <1>2, <1>3, <1>4, StandsTask, StandsRequest DEF Next

\* A host whose status is "host init success" has run the init script to its end
\* and has the image (HostService.initHostAndDocker), unless another initialisation
\* met it INITIATING.
THEOREM InitSuccessIsDone == Spec => []InitSuccessMeansDone
<1>1. Stands => InitSuccessMeansDone
  BY DEF Stands, StatusStands, Done, InitSuccessMeansDone
<1> QED
  BY <1>1, StandsInit, StandsNext, PTL DEF Spec

LEMMA StartStep ==
    ASSUME Stands, [Next]_vars, NEW r \in Reqs,
           launch[r] = "none", launch'[r] = "queued"
    PROVE  Hosts \subseteq image \intersect conf
<1> USE DEF Stands, hostVars, chainVars
<1>1. CASE UNCHANGED vars
  BY <1>1 DEF vars
<1>2. ASSUME NEW q \in Reqs, Request(q) PROVE Hosts \subseteq image \intersect conf
  <2>1. CASE ConfigSucceeds(q)
    <3>1. q = r
      BY <2>1 DEF ConfigSucceeds, TypeOK
    <3> QED
      BY <2>1, <3>1 DEF ConfigSucceeds, ConfigStands
  <2>2. CASE StartChain(q)
    BY <2>2 DEF StartChain, RowStands
  <2>3. CASE AsyncStartChain(q) \/ StartResult(q)
    BY <2>3 DEF AsyncStartChain, StartResult, TypeOK
  <2>4. CASE ~ConfigSucceeds(q) /\ ~StartChain(q) /\ ~AsyncStartChain(q) /\ ~StartResult(q)
    BY <1>2, <2>4 DEF Request, BatchCheck, InitHostAndDocker, CheckAnswers, ConfigChain,
                      ConfigChainFails, ConfigCommits, ConfigFails
  <2> QED
    BY <2>1, <2>2, <2>3, <2>4
<1>3. ASSUME NEW q \in Reqs, NEW h \in Hosts, TaskStep(q, h) PROVE FALSE
  BY <1>3 DEF TaskStep, CheckStarts, CheckEnds, InitSkips, InitStarts, ExecHostInit,
              PullImage, ScpStarts, ScpEnds
<1>4. CASE Poll \/ \E h \in Hosts : SyncCheckPort(h)
  BY <1>4 DEF Poll, PollMarks, PollReads, SyncCheckPort
<1>5. CASE Crash
  BY <1>5 DEF Crash
<1> QED
  BY <1>1, <1>2, <1>3, <1>4, <1>5 DEF Next

\* A start is only ever submitted for hosts that all hold the image and the
\* configuration (DeployService.configChain, NodeAsyncService.asyncStartChain).
THEOREM StartsAreReady == Spec => StartsOnReadyHosts
<1>1. Stands /\ [Next]_vars =>
        [\A r \in Reqs : launch[r] = "none" /\ launch'[r] = "queued"
            => Hosts \subseteq image \intersect conf]_vars
  BY StartStep
<1> QED
  BY <1>1, StandsInit, StandsNext, PTL DEF Spec, StartsOnReadyHosts
=============================================================================
