----------------------------- MODULE HostDeploy -----------------------------
(***************************************************************************)
(* Deploying a chain on hosts, the way the deploy pages drive it: check    *)
(* the hosts, initialise them, configure the chain on them, start it.      *)
(*                                                                         *)
(* Every request hands one task per host to the pool deployAsyncScheduler; *)
(* a task writes the host's status by itself, in transactions of its own.  *)
(* The check and the configuration wait for their tasks and, when the wait *)
(* times out, mark the hosts whose task is not done and cancel it, which   *)
(* stops a queued task only: a task that runs goes on and writes its       *)
(* status late.  The initialisation does not wait at all; a poll of the    *)
(* page marks the hosts that have been INITIATING for too long.            *)
(*                                                                         *)
(* The configuration is one database transaction: what it wrote itself is  *)
(* undone when it throws, the files on the manager's disk are not, and     *)
(* neither is what its tasks wrote.                                        *)
(***************************************************************************)
EXTENDS Naturals, FiniteSets

CONSTANTS
    Hosts,      \* the rows of tb_host the chain is deployed on
    Reqs,       \* request slots: how many requests can be under way at once
                \* (numbers: a request takes the first free one)
    MaxAsk,     \* bound: requests over a behaviour
    MaxCrash    \* bound: restarts of the node manager

ASSUME HostDeployAssumption ==
    /\ IsFiniteSet(Hosts) /\ Hosts # {}
    /\ Reqs \subseteq Nat
    /\ MaxAsk \in Nat /\ MaxCrash \in Nat

VARIABLES
    status,     \* committed status of each host
    inited,     \* hosts whose init script has completed
    image,      \* hosts that have the image of the front and the node
    conf,       \* hosts that hold the configuration of the chain
    chain,      \* committed status of the chain's row, or "none"
    chainDir,   \* the generated files of the chain exist on the manager
    req,        \* what each request slot is waiting for
    task,       \* task[r][h]: the task of request r for host h
    late,       \* hosts the poll of the page read as timed out
    launch,     \* the asynchronous start each slot submitted last
    started,    \* the containers of all fronts of the chain were run
    skipped,    \* history: hosts that an initialisation met INITIATING
    asked, crashes

vars == <<status, inited, image, conf, chain, chainDir, req, task, late,
          launch, started, skipped, asked, crashes>>

hostVars == <<status, inited, image, conf>>
chainVars == <<chain, chainDir, launch, started>>

Statuses == {"ADDED", "INITIATING", "INIT_SUCCESS", "INIT_FAILED",
             "CHECK_SUCCESS", "CHECK_FAILED", "CONFIG_SUCCESS", "CONFIG_FAIL"}

(* Statuses for which a new initialisation has nothing to do. *)
successOrInitiating ==
    {"CONFIG_FAIL", "CONFIG_SUCCESS", "INIT_SUCCESS", "INITIATING"}

(* A task is queued, running or finished.  "skip" is a queued init task    *)
(* that saw a host already initialised or initiating.                      *)
Queued   == {"check", "init", "skip", "scp"}
Running  == {"checking", "initing", "pulling", "copying"}
Finished == {"ok", "bad"}

Idle == [h \in Hosts |-> "none"]
Unused(r) == req[r] = "idle" /\ task[r] = Idle /\ launch[r] = "none"

(* A request takes the first slot that is free: slots have no identity.    *)
Free(r) == Unused(r) /\ \A q \in Reqs : q < r => ~Unused(q)

Ask == asked < MaxAsk /\ asked' = asked + 1

(* The task of r for h ends with res: a waiting request sees the result,   *)
(* for any other one the task is just gone.                                *)
EndTask(r, h, res) ==
    task' = [task EXCEPT ![r][h] = IF req[r] \in {"check", "config"}
                                   THEN res ELSE "none"]

SetStatus(h, s) == status' = [status EXCEPT ![h] = s]
-----------------------------------------------------------------------------
(***************************************************************************)
(* The host check: memory, processor, ping, docker.                        *)
(***************************************************************************)
BatchCheck(r, H) ==
    /\ Ask /\ Free(r)
    /\ req' = [req EXCEPT ![r] = "check"]
    /\ task' = [task EXCEPT ![r] = [h \in Hosts |-> IF h \in H THEN "check" ELSE "none"]]
    /\ UNCHANGED <<hostVars, chainVars, late, skipped, crashes>>

CheckStarts(r, h) ==
    /\ task[r][h] = "check"
    /\ task' = [task EXCEPT ![r][h] = "checking"]
    /\ UNCHANGED <<hostVars, chainVars, req, late, asked, skipped, crashes>>

CheckEnds(r, h) ==
    /\ task[r][h] = "checking"
    /\ \/ SetStatus(h, "CHECK_SUCCESS") /\ EndTask(r, h, "ok")
       \/ SetStatus(h, "CHECK_FAILED")  /\ EndTask(r, h, "bad")
    /\ UNCHANGED <<inited, image, conf, chainVars, req, late, asked, skipped, crashes>>

(* Mutant: an answered request keeps its running tasks as timed out ones.  *)
CheckAnswersTimedOut(r) ==
    /\ req[r] = "check"
    /\ status' = [h \in Hosts |-> IF task[r][h] \in {"check", "checking"}
                                  THEN "CHECK_FAILED" ELSE status[h]]
    /\ task' = [task EXCEPT ![r] =
            [h \in Hosts |-> IF task[r][h] = "checking" THEN "timedOut" ELSE "none"]]
    /\ req' = [req EXCEPT ![r] = "idle"]
    /\ UNCHANGED <<inited, image, conf, chainVars, late, asked, skipped, crashes>>

(* The request answers: every task has finished, or the wait timed out.    *)
CheckAnswers(r) ==
    /\ req[r] = "check"
    /\ status' = [h \in Hosts |-> IF task[r][h] \in {"check", "checking"}
                                  THEN "CHECK_FAILED" ELSE status[h]]
    /\ task' = [task EXCEPT ![r] =
            [h \in Hosts |-> IF task[r][h] = "checking" THEN "checking" ELSE "none"]]
    /\ req' = [req EXCEPT ![r] = "idle"]
    /\ UNCHANGED <<inited, image, conf, chainVars, late, asked, skipped, crashes>>

(* The port check runs in the request itself and stops at the first host   *)
(* that fails; one host is enough to see what it writes.                   *)
SyncCheckPort(h) ==
    /\ Ask
    /\ \E s \in {"CHECK_SUCCESS", "CHECK_FAILED"} : SetStatus(h, s)
    /\ UNCHANGED <<inited, image, conf, chainVars, req, task, late, skipped, crashes>>
-----------------------------------------------------------------------------
(***************************************************************************)
(* The initialisation: the init script, then the image.                    *)
(***************************************************************************)
(* Mutant: a host whose check succeeded counts as initialised.             *)
InitHostAndDockerChecked(r, H) ==
    /\ Ask /\ Free(r)
    /\ task' = [task EXCEPT ![r] =
            [h \in Hosts |-> IF h \notin H THEN "none"
                             ELSE IF status[h] \in successOrInitiating \union {"CHECK_SUCCESS"}
                             THEN "skip" ELSE "init"]]
    /\ skipped' = skipped \union {h \in H : status[h] = "INITIATING"}
    /\ UNCHANGED <<hostVars, chainVars, req, late, crashes>>

(* Hosts that are initialised, or INITIATING, get a task that only writes  *)
(* the success; the status is the one read before the tasks were made.     *)
InitHostAndDocker(r, H) ==
    /\ Ask /\ Free(r)
    /\ task' = [task EXCEPT ![r] =
            [h \in Hosts |-> IF h \notin H THEN "none"
                             ELSE IF status[h] \in successOrInitiating THEN "skip"
                             ELSE "init"]]
    /\ skipped' = skipped \union {h \in H : status[h] = "INITIATING"}
    /\ UNCHANGED <<hostVars, chainVars, req, late, crashes>>

InitSkips(r, h) ==
    /\ task[r][h] = "skip"
    /\ SetStatus(h, "INIT_SUCCESS")
    /\ EndTask(r, h, "ok")
    /\ UNCHANGED <<inited, image, conf, chainVars, req, late, asked, skipped, crashes>>

InitStarts(r, h) ==
    /\ task[r][h] = "init"
    /\ SetStatus(h, "INITIATING")
    /\ task' = [task EXCEPT ![r][h] = "initing"]
    /\ UNCHANGED <<inited, image, conf, chainVars, req, late, asked, skipped, crashes>>

ExecHostInit(r, h) ==
    /\ task[r][h] = "initing"
    /\ \/ /\ inited' = inited \union {h}
          /\ task' = [task EXCEPT ![r][h] = "pulling"]
          /\ UNCHANGED status
       \/ SetStatus(h, "INIT_FAILED") /\ EndTask(r, h, "bad") /\ UNCHANGED inited
    /\ UNCHANGED <<image, conf, chainVars, req, late, asked, skipped, crashes>>

PullImage(r, h) ==
    /\ task[r][h] = "pulling"
    /\ \/ image' = image \union {h} /\ SetStatus(h, "INIT_SUCCESS") /\ EndTask(r, h, "ok")
       \/ SetStatus(h, "INIT_FAILED") /\ EndTask(r, h, "bad") /\ UNCHANGED image
    /\ UNCHANGED <<inited, conf, chainVars, req, late, asked, skipped, crashes>>

(* Mutant: the poll only times out hosts whose task it knows to be live.   *)
PollReadsLive(H) ==
    /\ late = {}
    /\ H # {} /\ H \subseteq {h \in Hosts : status[h] = "INITIATING"}
    /\ \A h \in H : \E r \in Reqs : task[r][h] \in {"initing", "pulling"}
    /\ late' = H
    /\ UNCHANGED <<hostVars, chainVars, req, task, asked, skipped, crashes>>

(* The poll of the page reads the hosts, finds some INITIATING for longer  *)
(* than the limit, and marks the ones it read.                             *)
PollReads(H) ==
    /\ late = {}
    /\ H # {} /\ H \subseteq {h \in Hosts : status[h] = "INITIATING"}
    /\ late' = H
    /\ UNCHANGED <<hostVars, chainVars, req, task, asked, skipped, crashes>>

PollMarks ==
    /\ late # {}
    /\ status' = [h \in Hosts |-> IF h \in late THEN "INIT_FAILED" ELSE status[h]]
    /\ late' = {}
    /\ UNCHANGED <<inited, image, conf, chainVars, req, task, asked, skipped, crashes>>
-----------------------------------------------------------------------------
(***************************************************************************)
(* The configuration of the chain and its asynchronous start.              *)
(***************************************************************************)
(* Every host is initialised and has the image; then the files and the     *)
(* rows of the chain are made, unless its row says they were.              *)
Configurable ==
    /\ \A h \in Hosts : status[h] = "INIT_SUCCESS"
    /\ Hosts \subseteq image

(* Mutant: files that exist already are not refused.                       *)
MayBuildOver == chain = "none"

(* The rows are made only by a request that makes the files: it refuses    *)
(* when they exist.                                                        *)
MayBuild == chain = "none" /\ ~chainDir

ConfigChain(r) ==
    /\ Ask /\ Free(r)
    /\ Configurable
    /\ chain = "INITIALIZED" \/ MayBuild
    /\ chainDir' = TRUE
    /\ req' = [req EXCEPT ![r] = "config"]
    /\ task' = [task EXCEPT ![r] = [h \in Hosts |-> "scp"]]
    /\ UNCHANGED <<hostVars, chain, launch, started, late, skipped, crashes>>

(* The script that makes the files fails, or the rows cannot be written;   *)
(* the files are moved away then, if that works.                           *)
ConfigChainFails(r) ==
    /\ Ask /\ Free(r)
    /\ Configurable
    /\ MayBuild
    /\ chainDir' \in BOOLEAN
    /\ UNCHANGED <<hostVars, chain, launch, started, req, task, late, skipped, crashes>>

ScpStarts(r, h) ==
    /\ task[r][h] = "scp"
    /\ task' = [task EXCEPT ![r][h] = "copying"]
    /\ UNCHANGED <<hostVars, chainVars, req, late, asked, skipped, crashes>>

ScpEnds(r, h) ==
    /\ task[r][h] = "copying"
    /\ \/ conf' = conf \union {h} /\ SetStatus(h, "CONFIG_SUCCESS") /\ EndTask(r, h, "ok")
       \/ SetStatus(h, "CONFIG_FAIL") /\ EndTask(r, h, "bad") /\ UNCHANGED conf
    /\ UNCHANGED <<inited, image, chainVars, req, late, asked, skipped, crashes>>

(* Mutant: the tasks that ended are counted, not the ones that succeeded.  *)
ConfigSucceedsWhenEnded(r) ==
    /\ req[r] = "config"
    /\ \A h \in Hosts : task[r][h] \in Finished
    /\ launch' = [launch EXCEPT ![r] = "queued"]
    /\ req' = [req EXCEPT ![r] = "commit"]
    /\ task' = [task EXCEPT ![r] = Idle]
    /\ UNCHANGED <<hostVars, chain, chainDir, started, late, asked, skipped, crashes>>

(* All copies succeeded: the start is handed to the pool, and the          *)
(* transaction commits after that.                                         *)
ConfigSucceeds(r) ==
    /\ req[r] = "config"
    /\ \A h \in Hosts : task[r][h] = "ok"
    /\ launch' = [launch EXCEPT ![r] = "queued"]
    /\ req' = [req EXCEPT ![r] = "commit"]
    /\ task' = [task EXCEPT ![r] = Idle]
    /\ UNCHANGED <<hostVars, chain, chainDir, started, late, asked, skipped, crashes>>

ConfigCommits(r) ==
    /\ req[r] = "commit"
    /\ chain' = IF chain = "none" THEN "INITIALIZED" ELSE chain
    /\ req' = [req EXCEPT ![r] = "idle"]
    /\ UNCHANGED <<hostVars, chainDir, launch, started, task, late, asked, skipped, crashes>>

(* A copy failed or the wait timed out: the request throws, and everything *)
(* it wrote itself is undone, the CONFIG_FAIL of the late hosts included.  *)
ConfigFails(r) ==
    /\ req[r] = "config"
    /\ \E h \in Hosts : task[r][h] # "ok"
    /\ req' = [req EXCEPT ![r] = "idle"]
    /\ task' = [task EXCEPT ![r] =
            [h \in Hosts |-> IF task[r][h] = "copying" THEN "copying" ELSE "none"]]
    /\ UNCHANGED <<hostVars, chainVars, late, asked, skipped, crashes>>

(* The start asked for by a request of its own.                            *)
StartChain(r) ==
    /\ Ask /\ Free(r)
    /\ chain # "none"
    /\ IF chain = "INITIALIZED"
       THEN launch' = [launch EXCEPT ![r] = "queued"] /\ UNCHANGED chain
       ELSE chain' = "START_FAIL" /\ UNCHANGED launch
    /\ UNCHANGED <<hostVars, chainDir, started, req, task, late, skipped, crashes>>

(* The asynchronous start lists the fronts of the chain and runs their     *)
(* containers.  Before the commit the list is empty: nothing to run, and   *)
(* all of nothing succeeded.                                               *)
AsyncStartChain(r) ==
    /\ launch[r] = "queued"
    /\ \/ chain = "none" /\ launch' = [launch EXCEPT ![r] = "up"] /\ UNCHANGED started
       \/ /\ chain # "none"
          /\ \/ launch' = [launch EXCEPT ![r] = "up"] /\ started' = TRUE
             \/ launch' = [launch EXCEPT ![r] = "down"] /\ UNCHANGED started
    /\ UNCHANGED <<hostVars, chain, chainDir, req, task, late, asked, skipped, crashes>>

(* Its result is written when the row is no longer locked by the           *)
(* transaction that inserts it.                                            *)
StartResult(r) ==
    /\ launch[r] \in {"up", "down"}
    /\ chain # "none"
    /\ chain' = IF launch[r] = "up" THEN "RUNNING" ELSE "START_FAIL"
    /\ launch' = [launch EXCEPT ![r] = "none"]
    /\ UNCHANGED <<hostVars, chainDir, started, req, task, late, asked, skipped, crashes>>
-----------------------------------------------------------------------------
(* The manager is restarted: requests and tasks are gone, transactions     *)
(* under way are undone.                                                   *)
Crash ==
    /\ crashes < MaxCrash
    /\ crashes' = crashes + 1
    /\ req' = [r \in Reqs |-> "idle"]
    /\ task' = [r \in Reqs |-> Idle]
    /\ launch' = [r \in Reqs |-> "none"]
    /\ late' = {}
    /\ UNCHANGED <<hostVars, chain, chainDir, started, skipped, asked>>

Init ==
    /\ status = [h \in Hosts |-> "ADDED"]
    /\ inited = {} /\ image = {} /\ conf = {}
    /\ chain = "none" /\ chainDir = FALSE
    /\ req = [r \in Reqs |-> "idle"]
    /\ task = [r \in Reqs |-> Idle]
    /\ late = {}
    /\ launch = [r \in Reqs |-> "none"]
    /\ started = FALSE /\ skipped = {}
    /\ asked = 0 /\ crashes = 0

TaskStep(r, h) ==
    \/ CheckStarts(r, h)  \/ CheckEnds(r, h)
    \/ InitSkips(r, h)    \/ InitStarts(r, h) \/ ExecHostInit(r, h) \/ PullImage(r, h)
    \/ ScpStarts(r, h)    \/ ScpEnds(r, h)

Request(r) ==
    \/ \E H \in SUBSET Hosts \ {{}} : BatchCheck(r, H) \/ InitHostAndDocker(r, H)
    \/ CheckAnswers(r)
    \/ ConfigChain(r) \/ ConfigChainFails(r)
    \/ ConfigSucceeds(r) \/ ConfigCommits(r) \/ ConfigFails(r)
    \/ StartChain(r) \/ AsyncStartChain(r) \/ StartResult(r)

Poll == PollMarks \/ \E H \in SUBSET Hosts : PollReads(H)

Next ==
    \/ \E r \in Reqs : Request(r) \/ \E h \in Hosts : TaskStep(r, h)
    \/ \E h \in Hosts : SyncCheckPort(h)
    \/ Poll
    \/ Crash

Spec == Init /\ [][Next]_vars

(* The page polls as long as it shows an INITIATING host, and time passes: *)
(* a host that stays INITIATING is at last read as timed out.              *)
FairSpec ==
    /\ Spec
    /\ WF_vars(PollMarks \/ PollReads({h \in Hosts : status[h] = "INITIATING"}))
-----------------------------------------------------------------------------
(* Types of the variables.                                                 *)
TypeOK ==
    /\ status \in [Hosts -> Statuses]
    /\ inited \subseteq Hosts /\ image \subseteq Hosts /\ conf \subseteq Hosts
    /\ chain \in {"none", "INITIALIZED", "RUNNING", "START_FAIL"}
    /\ chainDir \in BOOLEAN /\ started \in BOOLEAN
    /\ req \in [Reqs -> {"idle", "check", "config", "commit"}]
    /\ task \in [Reqs -> [Hosts -> Queued \union Running \union Finished \union {"none"}]]
    /\ late \subseteq Hosts /\ skipped \subseteq Hosts
    /\ launch \in [Reqs -> {"none", "queued", "up", "down"}]
    /\ asked \in 0 .. MaxAsk /\ crashes \in 0 .. MaxCrash

(* The chain's files stay where its row says they are: a second click on   *)
(* the configuration, whose rows cannot be written, does not move away the *)
(* files the first click is about to commit a row for.                     *)
RowHasFiles == chain # "none" \/ (\E r \in Reqs : req[r] \in {"config", "commit"}) => chainDir

(* A start is only ever submitted for hosts that all hold the image and    *)
(* the configuration, whatever tasks of timed-out requests, of overlapping *)
(* initialisations and of checks have done to the statuses meanwhile.      *)
StartsOnReadyHosts ==
    [][\A r \in Reqs : launch[r] = "none" /\ launch'[r] = "queued"
            => Hosts \subseteq image \intersect conf]_vars

(* Again and again no host at all is INITIATING, even when the manager was *)
(* restarted and the task that would have ended it is gone.                *)
InitiatingEnds == []<>(\A h \in Hosts : status[h] # "INITIATING")

(* A host whose status is "host init success" has run the init script to   *)
(* its end and has the image, whatever late tasks, timeouts and checks     *)
(* wrote, unless another initialisation met it INITIATING: that one writes *)
(* INIT_SUCCESS at once, while the first is at work or after it has died.  *)
InitSuccessMeansDone ==
    \A h \in Hosts : status[h] = "INIT_SUCCESS" /\ h \notin skipped
                        => h \in inited \intersect image

(* A chain is RUNNING only when the containers of its fronts have been     *)
(* run.  It does not hold: the start submitted before the commit may find  *)
(* no front.                                                               *)
RunningMeansStarted == chain = "RUNNING" => started
=============================================================================
