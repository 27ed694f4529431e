# WeBASE-Node-Manager: a TLA+ model

TLA+ modules, TLC configurations and TLAPS proofs for the core of
WeBASE-Node-Manager, the Spring Boot service that keeps a relational mirror of
a FISCO BCOS consortium chain, audits and counts its transactions, and deploys
and operates the chain's nodes.  Source paths below are relative to
`src/src/main/java/com/webank/webase/node/mgr/`.

`PROJECT.json` lists the components, the runs, the source lines of every
definition (`map`), a mutation of the model per checked property (`mutants`),
the hazards of the code and the disagreements found (`findings`).

## 1. The system and its parts

The manager is one process.  It talks to *fronts* (WeBASE-Front, one beside
every node of the chain) over HTTP, to MySQL through MyBatis, to hosts through
ansible/docker/shell, and to a web console.  State lives in MySQL; between
requests the process keeps a cache of the front-group map, a latch, a few flags
and its thread pools.  Three kinds of actor change the state at the same time:
scheduled tasks (`scheduler/`, `alert/task/`), request threads, and pool threads (`@Async` methods
and the two pools of the deployment).

| Component | State it keeps | Operations | Interacts with | What is hard | What makes it correct |
|---|---|---|---|---|---|
| **Block mirror** (`scheduler/PullBlockTransTask`, `block/`, `transaction/`) | `tb_block_<g>`, `tb_trans_hash_<g>`; a latch | a round every 30 s; one asynchronous pull per group | fronts (any of a group, at random), clean-up | fronts lag and fail; several statements per block without a transaction; a shared latch; restarts | the table is a gap-free window of the chain; stored blocks have their transactions; the window catches up |
| **Clean-up** (`scheduler/DeleteInfoTask`) | - | trims blocks, transactions, audit rows | block mirror, audit, daily statistics | runs between their statements | removes nothing that is still needed |
| **Daily statistics** (`scheduler/StatisticsTransdailyTask`, `transdaily/`) | `tb_trans_daily` | every minute, resume from the last row and add | block mirror, clean-up | resumes from a row; an update matches the block number read earlier; one failure ends the run for all groups | each block counted exactly once, none jumped over |
| **Transaction audit** (`scheduler/TransMonitorTask`, `monitor/`) | `tb_user_transaction_monitor`, `statistics_flag` | analyse, find row, add, flag | user registration, contract saving, clean-up | others rename the rows between query and write; a transaction whose analysis always fails | counts add up; a registered name is never shown as unusual; a bad transaction does not block the others |
| **Deployment** (`deploy/`) | `tb_host`, `tb_chain`, files on disk, pool tasks | check, initialise, poll, configure, start; add, upgrade, delete | remote commands, fronts | tasks outlive the request that timed out; transactions and asynchronous calls overlap | a chain starts only on ready hosts; nothing stays INITIATING; rows and files agree |
| **Front and node lifecycle** (`front/FrontService`, `node/`) | `tb_front.status`, containers | start, restart, stop, refresh; register, remove | remote commands, group synchronisation | long transactions that sleep; late checks; stale counts | restarts exclude each other; what is down is seen; one node stays up |
| **Group synchronisation** (`scheduler/ResetGroupListTask`, `group/`) | `tb_group`, `tb_front_group_map`, `tb_node` | reset of all groups, status of each | fronts, map cache, all tables of a removed group | fronts disagree; a group disappears while others work on its tables | a group is removed only when nobody holds it |
| **Map cache and choice of a front** (`frontgroupmap/`, `front/frontinterface/FrontRestTools`) | an in-memory list; a black list of failing URLs | read, reload; try the next front | everybody who calls a front | cache cleared and reloaded by many threads; retry | the cache agrees with the table at last |
| **Block performance statistics** (`statistic/`, `scheduler/TransMonitorTask`) | `tb_stat`; a latch | a round of pulls, one row per block with the time since the block before | fronts, clean-up, removal of a group | the next row starts from the row with the greatest id; a group far behind asks beyond the end of the chain; a pull outlives the removal of its group | the rows are a gap-free window; each measures from the block right before it; the window catches up |
| **Node status and alerts** (`alert/`, `node/`) | `tb_node` (height, view, active, time of the last update), `tb_front.status`, time of the last mail | a check by every page of nodes and by the monitor; a mail | fronts, mail, every request that writes the same rows | checks overlap with rows read earlier; the check gives up at the first young row; requests make rows young | a node that stops is found and mailed about; one that is alive is cleared |
| **Contracts, ABIs, methods** (`contract/`, `method/`) | their tables | save, deploy, bind | fronts, audit | deploying while saving | one row per address |
| **Users and keys** (`user/`) | `tb_user`, the sign service | create, bind, import | sign service, audit | two stores | both know the user |
| **Accounts, tokens, roles** (`account/`, `config/security/`) | their tables | login, expiry | web | expiry and renewal | an expired token is refused |
| **Certificates** (`cert/`) | `tb_cert` | pull once | fronts | concurrent pulls | one row per certificate |
| **Governance and precompiled** (`precompiled/`) | the chain's | forwarded requests | fronts | - | - |
| **Events, external accounts and contracts** (`event/`, `external/`) | lists of addresses | extracted from blocks | block mirror | as the pull | no address lost |
| **Application integration** (`appintegration/`) | `tb_app_info` | register, check port | - | - | - |
| **Remote commands** (`deploy/service/AnsibleService`, `DockerCommandService`, `DeployShellService`, `tools/cmd/`) | none | run a command with a timeout | hosts | no answer in time throws, the command may have worked | modelled by outcomes |
| **Configuration and web layer** (`config/`, `base/`) | pools, cache | - | all | sizes, isolation | assumptions of the models |

## 2. What is modelled

Every action is one statement of SQL that commits by itself, one call to a
front or host together with what the code does with the answer, or one database
transaction seen at its commit, according to what the code's transactions
really are.  The reads of one transaction see one snapshot (MySQL REPEATABLE
READ together with MyBatis' first-level cache), so they are one step; readers
see committed rows only; an update of a row another transaction has written
waits until that transaction ends.

### `BlockPull` (and its abstract form `BlockMirror`)

`BlockMirror` is what the block table of a group promises to all its users: a
window of the chain that starts anywhere, grows at the top by exactly one block
and is trimmed at the bottom.

`BlockPull` is the code: the round of `PullBlockTransTask.pullBlockStart`
(`PullBlockStart`, `PullBlockEnd`, `waiting` is the latch), per group the
pull of `BlockService.pullBlockByGroupId`:

| Action | Code |
|---|---|
| `ReadHeight`, `ReadNext` | `getLatestBlockNumber`, `getNextBlockNumber`; two calls, each to any front, hence two answers from `Reported(g)` |
| `ExitLoop`, `FetchBlock`, `FetchNothing` | the loop condition; `getBlockByNumber`, which returns null for every error |
| `AddBlockInfo` | the row is added only on top of the newest; a refusal returns silently |
| `AddTransInfo`, `SaveDone` | one transaction per step, `insert ignore` |
| `Refresh` | next number read again, the height only when used up |
| `PullFails`, `Crash` | any call throws (the `finally` counts the latch down); the process restarts |
| `DeleteBlock`, `DeleteTransHash` | the clean-up of both tables by `DeleteInfoTask`: the blocks below the retention, and transactions beyond theirs |
| `ChainGrows` | the chain (external) |

`saveBLockInfo` is `@Transactional` but is called on `this`, so it is modelled
statement by statement.

Which transactions `DeleteTransHash` takes is up to the audit and the daily
statistics (they must be audited and of a counted day), so it takes any set that
leaves `TransRetain`; a block that is kept, or is still being saved, may lose some.
Its statements one by one are in `TransMonitor`.  `gone` is history: the
transactions it took.  `cut` is history too: the blocks whose save was interrupted.

### `TransDaily`

One run of `StatisticsTransdailyTask` (it is `synchronized`): `StartStatistics`
reads the latest row of every group, `QueryBlockList` the blocks of the next
group, `AddToDay`, `UpdateOldDay`, `AddDay`, `UpdateLastDay` are the loop over
the blocks.  It EXTENDS `BlockMirror`: the block tables move by `MirrorMoves`, a
step the pull is proved to implement, so the two modules compose through the
abstract specification and not through the pull's state.

### `TransMonitor`

The audit of one group, statement by statement, with the three writers that
cross it: user registration (which renames rows by user), `saveContract` (which
renames rows by interface, later than it saves), and the clean-up of
transactions and of audit rows.  A row's key is what `queryTbMonitor` matches
on; `disturbed` and `stale` are history variables that say when another writer
stepped between the audit's query and its write.  Deployment or call, ABI
decoding and method look-up are abstracted to the key.

The table has no key of its own and several rows may agree in everything, so
`rows` maps numbers, given in the order of insertion, to rows; no action looks at
a number but to write the rows it found.  `home[t]` is history: the rows that
transaction `t` was counted in, those cleaned up since included.  `list` is the
set of transactions still to be dealt with, of which the loop takes the least
(`Current`).  `DayOfYear` is Java's `getDayOfYear`, which is all that the code
compares of two timestamps.

### `HostDeploy`

A chain deployed on the hosts of `tb_host` through
`DeployService`, `HostService` and `NodeAsyncService`
(`deploy/service/`).  Each request slot has one pool task per
host.  `BatchCheck`, `InitHostAndDocker`, `ConfigChain` hand out tasks;
`CheckStarts`/`CheckEnds`, `InitStarts`/`ExecHostInit`/`PullImage`,
`InitSkips`, `ScpStarts`/`ScpEnds` are the tasks; `CheckAnswers`,
`ConfigSucceeds`, `ConfigFails` are the ends of the waits, by completion or by
timeout (a cancelled running task goes on and writes late).  `PollReads` and
`PollMarks` are the page's poll.  `ConfigCommits` is the end of the
configuration's transaction, `AsyncStartChain` and `StartResult` the start that
was submitted from inside it.

### `FrontLifecycle`

`FrontService.restart`, `stopNode`, `stopNodeForce` and `refreshFrontStatus`
with the row lock the first status write takes (`lock`), the sleep of
`dockerRestartPeriodTime`, and the port check that is scheduled and writes by
itself (`check`).  Besides, every request the manager sends to a
front ends in `updateFrontWithInternal`: `RequestEnds` is the answer (and the read
of the row), `RequestWrites` the later write, so that the answer of a front from
before its stop may still be written after it.  A command that gets no answer in
time throws and may have worked all the same (`RestartThrows`).  Left out: whether the node still
belongs to a group (only `stopNode` asks), that `ChainService.runTask` gates the
refresh, and more than one request on its way at a time (each writes by itself).

### `GroupSync`

`GroupService.resetGroupList`, run by the task and, inside its own
transaction, by `operateGroup`; one group.  `Enter` and `Leave` take and free the
monitor; between them each call to a front and each statement that can wait is a
step:

| Action | Code |
|---|---|
| `OperateGroup`, `MarkStopped` | `operateGroup`: the front stops or starts the group, a stop marks its row |
| `AskPeers`, `SaveGroup`, `AskStatus`, `WriteRow` | `saveDataOfGroup` with `newFrontGroup`, front by front; `CREATE TABLE` commits what precedes it |
| `RemoveInvalidPeer`, `NoFrontAnswers`, `FrontAnswersError` | `removeInvalidPeer`, which asks a front of the cached map through `FrontRestTools` |
| `CheckGroupStatus`, `CheckSameChain`, `CheckGenesis` | the three checks that write `tb_group` |
| `RemoveInvalidMap`, `CheckMapByLocal` | the two that correct `tb_front_group_map` by local rows |
| `PullStatusFileFails` | `pullGroupStatusFile`, after the reset of `operateGroup`: the copy from the host of a docker front fails and the request is rolled back |
| `Commit`, `Rollback` (in `Throws`, `LockTimeout` and the failures above) | the end of the outermost transaction, after the monitor is free |
| `RemoveFront`, `RemoveAllData` | the removals that cross a reset |
| `OtherReads`, `OtherAssigns` | `getAllMap` by any other thread: the table is read, then `mapList` assigned |

`work[t]` holds the uncommitted writes of a thread, which are also its row
locks; `snap[t]` is what a request's REPEATABLE READ transaction reads (the
task's is READ COMMITTED).  `kept`, and the type "overtaken" of a request, are
history: which stops were committed, and which were undone outside before their
request committed.  A reset started asynchronously behaves as the
task's.  Left out: `tb_node`, the status of `tb_front`, `ChainService.runTask`.

### `BlockStat`

The statistics of every block (`tb_stat`), as `BlockPull` models the mirror:
`BlockStatStart` and `BlockStatEnd` are the round of `TransMonitorTask.blockStatStart`
and its latch; the pull of `StatService.pullBlockStatistic` is

| Action | Code |
|---|---|
| `ReadLatest`, `ReadNone`, `FetchZero` | `getMaxByGroupId` (the row with the greatest id); without a row, block 0 is asked for its time |
| `ReadHeight` with `PageEnd` | the height of any front, and the bound of the loop; a group that is far behind adds the page size to the height of the chain |
| `FetchBlock`, `FetchNothing`, `ExitLoop` | one block of the loop; every error is turned into null, which ends the pull |
| `SaveStat` | `saveStat` and `lastBlockTimestamp` |
| `PullFails`, `Crash` | any other call throws; the process restarts |
| `DeleteBlockStat` | the statistics part of `DeleteInfoTask` |
| `RemoveGroup`, `ListGroup`, `NewChain` | `removeAllDataByGroupId` as one transaction, the reset that finds the group again, perhaps on another chain |

A time is the block it belongs to, `<<chain, number>>`, which is all a cycle is
computed from; sizes and TPS are data.  `torn` is a history variable: the groups
whose last removal met a running pull.  The log line of the page says "pull 10
block one time" (`StatService` line 108); the code adds the page size to the
height of the chain, so such a round asks for all blocks and ends at the first one
that does not exist.  No checked property depends on which of the two is meant.

### `NodeWatch`

Whether a node is alive, for one group: `NodeService.checkAndUpdateNodeStatus`,
run by a page (`"page"`) and by `NodeStatusMonitorTask` (`"task"`), and the two
writes of `FrontRestTools` to the same rows.

| Action | Code |
|---|---|
| `Begin` | the rows, the consensus status and the observers are read; the monitor first looks at its alert interval |
| `JumpOver` | the row at hand was written less than an interval ago: `return`, so the rows after it are not looked at |
| `Check`, `FrontFollows`, `Breaks` | the row is compared and updated, then the row of its front; any of the calls, those for the consensus status and the observers included, may throw |
| `EndOfPass`, `Mail`, `NothingToMail` | the monitor reads the rows again and mails about the nodes that are INVALID and not out of the group (`Abnormal`) |
| `AlertFails`, `MailLost` | the nodes out of the group cannot be read, or the mail to all users throws: no mail, `last_alert_time` unchanged; a mail to a list of users fails: the error is swallowed, and `last_alert_time` is set |
| `Request`, `MarkDown` | `updateFrontWithInternal`; an answer "node is down" also writes DOWN, and a new `modify_time`, to the rows of the node |
| `Move`, `StopOrStart`, `RowAges`, `AlertAges` | nodes and clocks |

Heights and views are one flag (is what the chain reports still what was
recorded?) and clocks are ages (young, an interval old), since that is all the check compares.  What
is assumed of the chain is that within the check's interval (some 7.5 s and a second
for every node) a sealer that is alive imports a block or, on an idle chain, changes
its view, and that an observer that is alive imports a block or is at the height of
the chain, for which `Verdict` finds it sound.  So a row of a live sealer gets old only once the
chain reports something else (`CanBeOld`); a sealer slower than that would be
taken for dead by the code.  The roles (sealer, observer, or out of the group:
"remove") are data the chain holds and do not change in a behaviour.  A group is
checked by itself; the row and what the chain says of the node are read in one
step; mail server and rule are enabled, and the chain was deployed by hand (else
fronts do not follow their nodes).

## 3. What is checked

Twelve runs; the first number of each cell is the number of distinct states.

| Run | Instance | Shows |
|---|---|---|
| `block_pull` | 139,384; two groups that share the latch, heights to 4 and 0, blocks with no, one and two transactions, two blocks and two transactions retained, lag 1, two failures or restarts | `CountByMinMax`, `TransOfStoredBlocks`, `SavedInFull`, refinement `MirrorsChain`, liveness `CatchesUp` (for each group, although the other's front fails) |
| `block_stat` | 158,476; two groups that share the latch, heights to 4 and 0, page 1, retention 2, lag 1, a failure or restart, a removal and a new chain | `IdsFollowNumbers`, `CycleIsExact`, refinement `StatMirrors`, liveness `StatCatchesUp` |
| `trans_daily` | 186,870; two groups, four blocks over two days, one empty block, one failure | `CountsExact`, `NothingJumpedOver`, `NeverLowered`, `CountedAtLast` |
| `trans_monitor` | 3.1 million; three transactions on two days, two users, two methods, a restart | `CountsAddUp`, `RowsAreOfOneDay`, `UnusualIsUnregistered`, `CleanUpKeeps` |
| `trans_monitor_live` | two transactions, the first can never be analysed | `AllAudited` |
| `host_deploy` | 1.4 million; two hosts, two slots, three requests, a restart | `RowHasFiles`, `InitSuccessMeansDone`, `StartsOnReadyHosts`, `InitiatingEnds` |
| `front_lifecycle` | 542,949; two fronts, two threads, a container that dies, requests without bound | `RestartsExclude`, `FirstDownIsSeen` |
| `group_sync` | 368,786; two fronts, five initial states, one request, one change outside the manager, one load of the cache by another thread | `StoppedIsKept`, `MapFollows`, `CacheFollows`, `GroupFollows`, `NoOrphansAtLast` |
| `node_watch` | 258,500; a sealer with a front and an observer behind it, or a node that is out of the group, with a front, and a sealer behind it; a page and the monitor, everything without bound | `DeadIsFound`, `AliveIsCleared`, `DeadIsMailed` |
| `block_pull_atomic`, `host_deploy_start`, `front_lifecycle_stop` | small | the three findings below: each stated property is violated |

**Why the bounds are enough.**  Retention is shorter than the chain, so a trim
happens at every point of a pull; two failures cover a failure while the first
is being recovered from; a lag of one separates "the front that gave the
height" from "the front that gives the block", and larger lags only repeat it;
the second group needs one block, to hold the latch open or to fail while the
first one pulls.  Two transactions retained are fewer than the retained blocks may
have, so kept blocks lose transactions too.
`TransDaily` needs a change of day, a block without transactions and two groups
(the abort of one ends the other's turn).  `TransMonitor` needs two
transactions that share a row, one that does not, a list shorter than the
backlog, and one rename of each kind.  `NodeWatch` needs two nodes, the first with a
front: only a node with a front can be answered DOWN for, and only a node behind
another can be hidden by it.  Deployment needs two hosts (one ready,
one not) and two overlapping requests; three requests are an initialisation, one
that overlaps it, and a configuration (hosts can be configured without a check).  The lifecycle
needs two fronts (the last running, and the order of the list) and two threads.
`GroupSync` starts where earlier changes may have led (a wiped front, a front of
another chain, a group nobody has, a front that never ran it), so one more
change, one request and one foreign load of the cache put each of them at every
point of a reset, and the resets that follow are unbounded.
Every bound is a constant: `MaxHeight`, `LastHeight`, `MaxFail`, `MaxCrash`,
`MaxAsk`, `MaxDie`, `NumTx`, `MaxChange`, `MaxLoad`, `MaxRemovals`.

**Deadlock** is checked in `BlockPull`, `BlockStat`, `TransDaily`, `TransMonitor`,
`GroupSync` and `NodeWatch`, which run for ever.  `HostDeploy` and `FrontLifecycle` stop when nobody asks for
anything more, so their configurations switch it off.

**Fairness.**

* `BlockPull`: weak fairness of the scheduler (`PullBlockStart`,
  `PullBlockEnd`) and of a pull's steps, since every call has a timeout; strong fairness of
  `FetchBlock`: a front is picked at random each time, so among infinitely many
  requests for an existing block some succeed.
* `BlockStat`: as `BlockPull`; strong fairness of `FetchZero` and `FetchBlock`.
  `StatCatchesUp` speaks of groups that stay listed, up to the lag of the fronts.
* `TransDaily`: weak fairness of the run's steps (cron, each minute).
* `TransMonitor`: weak fairness of the scheduler and of the loop; strong fairness
  of the steps on one transaction, which come and go with the list they are on.
  No fairness for the pull, the renamings or the clean-up.
* `HostDeploy`: weak fairness of the poll only, which the page repeats; none for
  the tasks, which may die with the process.
* `FrontLifecycle`: weak fairness of the refresh, repeated by the page, of
  `RequestWrites` (an answered request writes), and of the steps of what was asked
  for (commands have timeouts, sleeps end).
* `NodeWatch`: weak fairness of the clock, of sealers that are alive (an observer
  may stay where it is), of the monitor's schedule (`Begin`), and of a check under
  way; strong fairness of comparing a row that was old when it was read (`Compares`:
  a call may fail, but not for ever), and of `Mail`: of the mails that are tried
  again and again, some are sent.  None for the comparison of a row that was young
  when it was read, nor for pages, requests or changes of a node.
* `GroupSync`: weak fairness of the task (`fixedDelay`), of a reset's steps
  (calls have timeouts) and of `LockTimeout`; strong fairness of
  `RemoveInvalidPeer`, since the front is chosen at random, and of a request's
  `Enter`, since the task rests between two resets while the request waits.
  None for changes, users and other readers of the cache, which are bounded:
  the liveness properties say what holds once they rest.

`CatchesUp` is stated for `FromZero` or a lag below `pullBlockInitCnts` (1000 by
default): with a larger lag TLC shows a pull of an empty table that computes its
first block from one front's height and compares it with another front's, and so
never starts.

## 4. Where the code and its words disagree

Each is a run that TLC ends with a counterexample; the quotations are in
`PROJECT.json`.

1. **A block may be stored without its transactions** (`SaveIsAtomic`):
   `saveBLockInfo` is transactional only when called through the proxy, and
   `BlockService` line 117 calls it on `this`.  A failure in between leaves a block
   some of whose transactions were never stored.
2. **A chain may be RUNNING though nothing was started**
   (`RunningMeansStarted`): `DeployService` line 137 submits the asynchronous
   start inside the transaction that inserts the fronts it lists.
3. **Two stops may leave no running node** (`LastRunningKept`): the count is
   read before the sleep, the status is written after it.

Seen with TLC while the properties were being written, and not kept as runs of
their own; the properties that are checked carry the guard that excludes them:

* `FlaggedIsCounted` of `TransMonitor` fails when a rename steps between the
  audit's query and its write: the update by key matches nothing and a count is
  lost, or two rows become one.  `CountsAddUp` allows exactly that
  (`disturbed`).
* Whether a transaction is of a new day is decided by the day of the year alone
  (`MonitorService` line 124): transactions of one run that are whole years apart,
  with nothing in between, are counted in one row.  `RowsAreOfOneDay` therefore
  speaks of the day of the year.
* A host that a second initialisation meets INITIATING is marked INIT_SUCCESS
  at once, before the first one has finished.  `InitSuccessMeansDone` excludes
  these hosts (`skipped`); `StartsOnReadyHosts` holds all the same, because the
  configuration looks for the image itself and copies its files itself.
* A configuration that fails leaves the generated files without a row of the
  chain; the next one is refused because they exist.
* The status "before" a restart is written to hide the front from the scheduled
  tasks (comment at `FrontService` line 997), but it is committed only after the
  sleep.

* `resetGroupList` is `synchronized "to avoid deadlock"` (`GroupService` line
  286), but `operateGroup` writes the row of a stopped group first and waits for
  the monitor afterwards, while a reset inside the monitor waits for that row.
  Only the database's lock timeout ends it, by rolling the reset back.  The same
  order is what keeps that reset from writing its older answer NORMAL
  (`StoppedIsKept`).  Without `LockTimeout` the model deadlocks; without the
  strong fairness of `Enter` the task may take the monitor again and again.
* A reset throws, and is rolled back, when another thread fills the cache after
  it was cleared and the fronts named there do not answer; with pages that poll
  this can repeat, which is why other loads are bounded in `MapFollows`.
* `refreshFrontStatus`, which refreshes "front's status" of all fronts in its loop,
  returns from its catch block at the first front that does not answer
  (`FrontService` line 1296).  The fronts after it keep their status, RUNNING
  included, until they are asked for something else; `FirstDownIsSeen` promises the
  first one only.
* A pull of the statistics that outlives the removal of its group writes rows that
  a later chain with the same group id takes for its own: its next pull starts
  above them, and one cycle is the difference between two chains.  `CycleIsExact`
  and `StatCatchesUp` exclude the groups this happened to (`torn`); the window of
  numbers stays free of gaps even then.
* An answer "node is down" writes DOWN and a new `modify_time` to the rows of the
  front's node, and a check returns at the first row that is young.  While such
  answers recur, a pass of the check may end at that row every time, so the nodes
  after it need not be compared (`HiddenByOthers`), and that node itself, which is
  DOWN and not INVALID, need not be mailed about (`Hidden`).  TLC refutes the
  properties of `NodeWatch` without these exceptions; a node's own answers do not
  excuse that it reads NORMAL although it is dead, or INVALID although it is alive.
* A mail to a list of users that fails is swallowed (`MailService` lines 330-337),
  so the rule counts as alerted and is silent for an interval although nobody was
  told (`MailLost`); a mail to all users that fails is tried again at the next run.
  `DeadIsMailed` promises a mail at last, not one per interval.
* CONFLICT_GROUP_GENESIS is never taken back; `GroupFollows` allows it to stay.
* A group stopped at the node itself keeps its row NORMAL: the reset skips a
  front whose peers it cannot get (`MapFollows` speaks of fronts that run the
  group or do not have it).

## 5. What is proved

For every value of the constants, from the assumption named in the module that
declares them (`BlockPullAssumption` and so on) and nothing else, except where the
statement says so:

| Module | Theorem | Statement |
|---|---|---|
| `BlockPullProofs` | `Inductive` | `Spec => []IInv` |
| | `TypeCorrect`, `TransStored`, `SavedFull`, `CountExact` | `[]TypeOK`, `[]TransOfStoredBlocks`, `[]SavedInFull`, `[]CountByMinMax` |
| | `Refinement` | `Spec => MirrorsChain`: the pull implements `BlockMirror` |
| `BlockStatProofs` | `StatTypeCorrect`, `IdsAgree`, `CyclesExact` | `[]TypeOK`, `[]IdsFollowNumbers`, `[]CycleIsExact` |
| | `StatImplementsMirror` | `Spec => StatMirrors`: the statistics implement `BlockMirror`, but for a removal |
| `TransDailyProofs` | `DailyTypeCorrect` | `[]TypeOK` |
| | `CountsAreExact` | `[]CountsExact`, when `DaysInOrder` |
| | `NothingIsJumpedOver`, `CountsNeverFall` | `[]NothingJumpedOver`, `NeverLowered`, when `DaysInOrder` |
| `TransMonitorProofs` | `AuditTypeCorrect`, `CountsAlwaysAddUp` | `[]TypeOK`, `[]CountsAddUp` |
| | `RowsKeepToOneDay`, `UnusualStaysUnregistered` | `[]RowsAreOfOneDay`, `[]UnusualIsUnregistered` |
| | `CleanUpIsSafe` | `Spec => CleanUpKeeps` |
| `HostDeployProofs` | `HostTypeCorrect`, `FilesAreThere`, `InitSuccessIsDone` | `[]TypeOK`, `[]RowHasFiles`, `[]InitSuccessMeansDone` |
| | `StartsAreReady` | `Spec => StartsOnReadyHosts` |
| `FrontLifecycleProofs` | `FrontTypeCorrect`, `RestartsAreExclusive` | `[]TypeOK`, `[]RestartsExclude` |
| `GroupSyncProofs` | `GroupTypeCorrect`, `StoppedStaysStopped` | `[]TypeOK`, `[]StoppedIsKept` |
| `NodeWatchProofs` | `WatchTypeCorrect` | `[]TypeOK` |

`DaysInOrder` is what TransDaily's properties need of the chain: a block is not of
an earlier day than the one below it.  The nodes' clocks decide that, outside this
code.  TLC's instance satisfies it.

The arguments, each around an inductive strengthening (the properties are not
inductive by themselves):

* **`BlockPull`** (`IInv`).  `Windows`: the table of a group is an interval;
  `CountByMinMax` follows from the cardinality of an interval, and each step of
  `BlockMirror` needs it.  `LatchCovers`: a pull is under way only while the round
  waits, so a round never starts a pull over another one.  `Ready`: between reading
  the next number and adding the row, the pull asks for exactly the block the table
  is ready to take (or the table is empty), and the block exists.  The clean-up
  could break this only by removing the newest block; it never does, because
  `RetainMax > 0`.  This is why `addBlockInfo` never refuses a row whose
  transactions are then stored.  `Saving`: while its transactions are written the
  block is the newest row, and exactly the first `saved` of its transactions were ever
  stored.  It speaks of what was ever stored (`Stored`: what is there and what the
  clean-up took, `gone`), since `DeleteTransHash` may take them meanwhile; that
  nothing taken is inserted once more (`SavedInFull`) follows from `Saving` and
  `EverStored`, nothing above the newest row was ever stored.
* **`BlockStat`** (`IInv`).  `Windows` and `IdsBelowNext` make ids and numbers grow
  together; `UnderWay`: a pull that knows where to go on is right above the newest
  row, unless the rows were removed meanwhile (then it opens a new window);
  `Intact`: of a group that is not `torn`, the pull holds the time of the block
  before the next one, and nothing is left of a group that is not listed.  The
  removal breaks only `Intact`, which is why the windows survive it and the cycles
  need the exception.
* **`TransDaily`** (`IInv`).  `Rows` and `RowsComplete`: a day's row names a block of
  that day that is still below the newest one, and every stored block up to it is
  counted; `InfoHolds`: what was read of the groups that are still to come has not
  changed, since one run at a time writes rows.  `Walk` is about the group at hand:
  its position, the blocks ahead of it, the row of the day it started from, and
  that everything behind it is counted or waits in the sum.  That the update by the
  block number read earlier matches the row is a consequence.  For the counts
  (`CInv`): `RowsExact` says that a row's count is the sum of the transactions of
  the blocks counted for its day, `CountedUpToRow` that those blocks are not above
  the block the row names, and `NetExact` that what the run holds is that sum plus
  the blocks waiting, so that writing it, after any failure, counts no block twice.
  The sums are over finite sets; that a sum grows by the value of the member added
  is proved first (`SumOneMore`).
* **`TransMonitor`**.  Counts (`CountsInv`): what is on the audit's list is not
  flagged and was never counted (`Waiting`), because only the audit flags and it
  takes a transaction off the list when it does; so `RowsAddUp`, a count is the
  number of transactions at home in the row, grows by exactly one.  That the update
  reaches exactly one row needs `Steady`: undisturbed, no two rows agree in their
  key, and what the query found is still so.  Days (`DaysInv`): at every step of an
  analysis the time held is of the day of the transaction at hand (`DayUnderWay`);
  the write only reaches rows of exactly that time.  Users (`UsersInv`): a sender
  looked up as unknown is unknown still, or the registration was noted (`LookedUp`).
  Clean-up (`CleanInv`): between its two statements the table has at least as many
  transactions as it counted (`Surplus`), and the removal takes at most the
  difference, since the set of the `k` oldest has at most `k` members (the number of
  those below one is a one-to-one rank; `OldestCount`).
* **`HostDeploy`** (`Stands`).  Every status after an initialisation, and every task
  that is going to write one, stands on an initialisation that is done (or was
  skipped over); a finished copy means the host holds the configuration; a
  configuration under way means all hosts have the image.  So late tasks of
  requests that timed out change statuses, but never what a start relies on.
* **`FrontLifecycle`**.  The lock is taken by the step that starts a restart and
  freed by the step that ends it; the theorem shows that no other thread, the
  refresh and the stops included, frees it in between.
* **`GroupSync`** (`StopInv`).  A reset that saw the group running may still hold an
  uncommitted NORMAL when a request stops it, and would write it back.  It cannot,
  because the request marks the row at once and waits for the row's lock: once it is
  past `MarkStopped`, no thread holds a NORMAL for the row (`NotWritten`), and none
  can write one, since `WriteRow` follows an answer of a running front.  The
  request's own mark, or a row that is not NORMAL already, makes the commit safe;
  the `CREATE TABLE` that commits in the middle of a reset is no exception.  Any
  number of requests may overlap; the run has one.

A proof has one lemma or step per action, and under it one step per conjunct the
action can disturb; the temporal theorems combine the steps with PTL.

## 6. What is only model-checked

* Liveness, which needs fairness and ENABLED and is out of the prover's reach:
  `CatchesUp`, `StatCatchesUp`, `CountedAtLast`, `AllAudited`, `InitiatingEnds`,
  `FirstDownIsSeen`, the three of `NodeWatch`, and `MapFollows`, `CacheFollows`,
  `GroupFollows`, `NoOrphansAtLast` of `GroupSync`.

Every invariant and every other action property and refinement of the runs is a
theorem of section 5.  The theorems about sums and cardinalities rest on facts about
all finite sets that ask for induction; the library's induction theorems have an
operator as parameter and cannot be used, so those facts are proved by a smallest
counterexample instead (a set of least cardinality, or a least member, for which the
fact fails).

## 7. Not modelled, and why

* Adding, upgrading and deleting nodes and chains, and the host table
  (`deploy/`): the same tasks, timeouts and transactions as the deployment that is
  modelled, on more rows.
* `newFront`, `generateGroup`, `batchStartGroup`, and the rows of `tb_node` that a
  reset adds and deletes.
* The choice of a front in `FrontRestTools`: its black list is kept in an
  unsynchronised map, so what it holds after two threads have written is up to the
  JVM.  To the callers the outcome is any front of the group, or none, which is what
  `BlockPull`, `BlockStat` and `GroupSync` allow.
* Contracts, users, accounts, certificates, events and external contracts,
  applications: single requests on single rows, with no protocol of their own; the
  two that reach into other components (`addUserInfo`, `saveContract`) are actions
  of `TransMonitor`.  The audit and certificate monitors mail by the rule `NodeWatch`
  models, on the state of other components.
* Governance and precompiled contracts: requests passed on to a front.
* Framework configuration, web layer, logging, mail texts, encoding: no control.
* Remote commands (ansible, docker, shell) appear by outcome: success, failure, or
  no answer in time.
* `src/main/resources/swagger/`: the bundled pages of the Swagger UI, vendored and
  minified JavaScript of another project, which only draws the API's documentation.
  The manager itself is the Java under `src/main/java` and the SQL under
  `src/main/resources/mapper`, and that is what every definition of `map` refers to.

## 8. Plan and state

1. `BlockMirror`, `BlockPull`, `BlockPullProofs` - done.
2. `TransDaily` (on `BlockMirror`) with `TransDailyProofs`, `TransMonitor` with
   `TransMonitorProofs`, `HostDeploy` with `HostDeployProofs`, `FrontLifecycle` with
   `FrontLifecycleProofs` - done.
3. `GroupSync` with `GroupSyncProofs` - done for the reset, stop and start of a
   group and the removals.
4. `BlockStat` (a second refinement of `BlockMirror`, and the group that is removed
   while a pull works on it) with `BlockStatProofs` - done.
5. `NodeWatch` with `NodeWatchProofs` - done for the check, its overlaps and the mail.
6. Every safety invariant and action property of the runs is proved - done.
7. Worth adding to a later version: registration of fronts and generation of groups
   in `GroupSync`, the remaining operations of the deployment.
