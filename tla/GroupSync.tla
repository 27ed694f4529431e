----------------------------- MODULE GroupSync -----------------------------
(***************************************************************************)
(* GroupService.resetGroupList and those who write the same rows.  A reset *)
(* asks every front about a group and brings three things into line with   *)
(* the answers: tb_front_group_map (which front serves the group), tb_group*)
(* (the status that decides whether blocks are pulled and audited) and the *)
(* cache of the map, which every request to "some front of the group" uses.*)
(*                                                                         *)
(* One group.  Resets exclude each other by the monitor of GroupService,   *)
(* which a reset leaves before its transaction commits.  Uncommitted       *)
(* writes of thread t are in work[t]; a row written there is locked.       *)
(* The task's transaction is READ COMMITTED; that of a request is the      *)
(* database's default, REPEATABLE READ: it reads snap[t] and its own       *)
(* writes.  CREATE TABLE and DROP TABLE commit what precedes them.         *)
(*                                                                         *)
(* "task" stands for the scheduled reset and for every asynchronous one.   *)
(*                                                                         *)
(* Left out: tb_node and the status of tb_front (the fronts marked stopped *)
(* are those that do not answer), ChainService.runTask, the height by      *)
(* which a row is of a sealer or an observer (Behind is fixed), and the    *)
(* first-level cache of MyBatis, by which a query repeated in a reset that *)
(* has written nothing answers as before.                                  *)
(***************************************************************************)
EXTENDS Integers, FiniteSets, FiniteSetsExt

CONSTANTS
    NumFronts,      \* fronts are numbered in the order of tb_front
    Requests,       \* request threads (GroupController.operateGroup)
    Behind,         \* fronts whose node is below the highest block
    InitWorlds,     \* what the fronts and tb_block may hold when a check begins
    MaxChange,      \* bound: changes of the fronts outside the manager
    MaxAsk,         \* bound: requests of users
    MaxLoad         \* bound: loads of the cache by other threads

Fronts == 1..NumFronts
Threads == {"task"} \cup Requests

ASSUME GroupSyncAssumption ==
    /\ NumFronts \in Nat \ {0}
    /\ {"task", "free"} \intersect Requests = {}
    /\ Behind \subseteq Fronts
    /\ InitWorlds \subseteq
          [node : [Fronts -> {"run", "stop", "gone"}],
           chain : [Fronts -> 0..2], stored : 0..2]
    /\ MaxChange \in Nat /\ MaxAsk \in Nat /\ MaxLoad \in Nat

VARIABLES
    node,       \* [Fronts -> "run" | "stop" | "gone" | "down"]: the group there
    chain,      \* [Fronts -> 0..2]: block at the height of stored; 0: none yet
    stored,     \* tb_block: chain of the smallest stored block; 0: no block
    db,         \* committed: [map, group, reg] of tb_front_group_map, tb_group
                \* and tb_front
    work,       \* [Threads -> uncommitted writes]
    snap,       \* [Requests -> what its transaction reads]
    cache,      \* mapList of FrontGroupMapCache; empty is reloaded like null
    monitor,    \* the thread inside resetGroupList, or "free"
    pc,         \* [Threads -> step]
    op,         \* [Requests -> what was asked: type and front]
    fronts,     \* of the reset: frontList
    todo,       \* of the reset: fronts its loop has still to visit
    row,        \* of the reset: answer and query result for newFrontGroup
    heard,      \* of the reset: "none" | "others" | "listed" (allGroupSet)
    reading,    \* a list read by another thread, before it becomes mapList
    kept,       \* history: fronts whose group a committed request stopped
    changes, asks, loads

locals == <<fronts, todo, row, heard>>
world == <<node, chain, stored, kept, changes>>
count == <<changes, asks, loads>>
vars == <<node, chain, stored, db, work, snap, cache, monitor, pc, op, fronts,
          todo, row, heard, reading, kept, changes, asks, loads>>

Entries == {"none", "normal", "maintaining"}
Maps == [Fronts -> Entries]
Statuses == {"none", "normal", "maintaining", "genesis", "local"}
Tables == [map : Maps, group : Statuses, reg : SUBSET Fronts]
Works == [map : [Fronts -> Entries \cup {"unset"}],
          group : Statuses \cup {"unset"}, gone : SUBSET Fronts]
ResetSteps == {"ask", "save", "status", "row", "group", "local", "genesis", "invalid", "others"}
OtherSteps == {"idle", "mark", "enter", "commit"}
NoMap == [f \in Fronts |-> "none"]
NoWork == [map |-> [f \in Fronts |-> "unset"], group |-> "unset", gone |-> {}]
NoRow == [status |-> "none", found |-> FALSE]
NoRows == [map |-> NoMap, group |-> "none", reg |-> {}]
NoOp == [type |-> "none", front |-> 0]
Ops == {NoOp} \cup [type : {"stop", "start", "refused", "overtaken"}, front : Fronts]

-----------------------------------------------------------------------------
\* What thread t reads: its own writes over its snapshot or the committed rows.
Base(t) == IF t \in Requests THEN snap[t] ELSE db
Over(w, m) == [f \in Fronts |-> IF w[f] = "unset" THEN m[f] ELSE w[f]]
SeenMap(t) == Over(work[t].map, Base(t).map)
SeenGroup(t) == IF work[t].group = "unset" THEN Base(t).group ELSE work[t].group
SeenReg(t) == Base(t).reg \ work[t].gone

\* The rows once the writes of t are committed.
Committed(t) ==
    [map |-> Over(work[t].map, db.map),
     group |-> IF work[t].group = "unset" THEN db.group ELSE work[t].group,
     reg |-> db.reg \ work[t].gone]

\* Row locks: nobody else has an uncommitted write there.
FreeRow(t, f) == \A u \in Threads \ {t} : work[u].map[f] = "unset"
FreeGroup(t) == \A u \in Threads \ {t} : work[u].group = "unset"

\* updateStatus of tb_group: without the row nothing is updated.
PutGroup(t, s) ==
    work' = IF s = SeenGroup(t) \/ (db.group = "none" /\ work[t].group = "unset")
            THEN work ELSE [work EXCEPT ![t].group = s]

\* newFrontGroupWithStatus after its query: insert, or update by map_id.
Duplicate(t, f, found) ==
    ~found /\ db.map[f] # "none" /\ work[t].map[f] = "unset"
PutRow(t, f, s, found) ==
    /\ FreeRow(t, f)
    /\ ~Duplicate(t, f, found)
    /\ work' = IF found /\ db.map[f] = "none" /\ work[t].map[f] = "unset"
               THEN work ELSE [work EXCEPT ![t].map[f] = s]

\* getSealerOrObserverMap: the rows of sealers; without any, of observers.
Load(m) ==
    LET rows == {f \in Fronts : m[f] # "none"}
        shown == IF rows \subseteq Behind THEN rows ELSE rows \ Behind
    IN  [f \in Fronts |-> IF f \in shown THEN m[f] ELSE "none"]

\* getMapListByGroupId for a thread that reads the table itself.
CachedFor(t) == IF cache = NoMap THEN Load(SeenMap(t)) ELSE cache
Serving(c) == {f \in Fronts : c[f] = "normal"}

At == Min(todo)
Genesis(c) == IF c = 2 THEN 2 ELSE 1
Inside(t, step) == monitor = t /\ pc[t] = step
Goto(t, step) == pc' = [pc EXCEPT ![t] = step]
Rest(t) == IF t = "task" THEN "enter" ELSE "idle"

\* The rows a reset left behind: a front that has always been stopped is in
\* the group list, but no row was ever written for it.
RowsOf(n) ==
    [map |-> [f \in Fronts |-> CASE n[f] = "run" -> "normal"
                                 [] n[f] = "gone" -> "maintaining"
                                 [] OTHER -> "none"],
     group |-> IF \A f \in Fronts : n[f] = "gone" THEN "maintaining" ELSE "normal",
     reg |-> Fronts]

Init ==
    /\ \E w \in InitWorlds :
          node = w.node /\ chain = w.chain /\ stored = w.stored /\ db = RowsOf(w.node)
    /\ work = [t \in Threads |-> NoWork]
    /\ snap = [t \in Requests |-> NoRows]
    /\ cache = NoMap
    /\ monitor = "free"
    /\ pc = [t \in Threads |-> Rest(t)]
    /\ op = [t \in Requests |-> NoOp]
    /\ fronts = {} /\ todo = {} /\ row = NoRow /\ heard = "none"
    /\ reading = NoMap
    /\ kept = {}
    /\ changes = 0 /\ asks = 0 /\ loads = 0

-----------------------------------------------------------------------------
\* History: what requests did to front f is undone by what happens to it now.
Overtaken(f) ==
    [t \in Requests |-> IF op[t].front = f THEN [op[t] EXCEPT !.type = "overtaken"]
                                          ELSE op[t]]

\* A front or its node goes down, comes back, leaves or enters the group.
NodeChanges(f) ==
    /\ changes < MaxChange
    /\ \E s \in {"run", "stop", "gone", "down"} \ {node[f]} :
          node' = [node EXCEPT ![f] = s]
    /\ kept' = kept \ {f}
    /\ op' = Overtaken(f)
    /\ changes' = changes + 1
    /\ UNCHANGED <<chain, stored, db, work, snap, cache, monitor, pc, locals,
                   reading, asks, loads>>

\* The pull stores the first block (module BlockPull).
PullStores ==
    /\ stored = 0
    /\ db.group = "normal"
    /\ \E f \in Fronts :
          node[f] = "run" /\ cache[f] = "normal" /\ chain[f] # 0 /\ stored' = chain[f]
    /\ UNCHANGED <<node, chain, db, work, snap, cache, monitor, pc, op, locals,
                   reading, kept, count>>

\* Any other thread calls getAllMap: it reads the table ...
OtherReads ==
    /\ loads < MaxLoad
    /\ cache = NoMap
    /\ reading = NoMap
    /\ reading' = Load(db.map)
    /\ loads' = loads + 1
    /\ UNCHANGED <<world, db, work, snap, cache, monitor, pc, op, locals, asks>>

\* ... and makes what it read the mapList of all.
OtherAssigns ==
    /\ reading # NoMap
    /\ cache' = reading
    /\ reading' = NoMap
    /\ UNCHANGED <<world, db, work, snap, monitor, pc, op, locals, asks, loads>>

-----------------------------------------------------------------------------
\* operateGroup: the front stops or starts the group; a front that cannot do
\* so answers with another code, and one that is down ends the request.
OperateGroup(t, f, type) ==
    LET does == (type = "stop" /\ node[f] = "run") \/ (type = "start" /\ node[f] = "stop")
    IN  /\ pc[t] = "idle"
        /\ asks < MaxAsk
        /\ f \in db.reg
        /\ node[f] # "down"
        /\ node' = IF does THEN [node EXCEPT ![f] = IF type = "stop" THEN "stop" ELSE "run"]
                   ELSE node
        /\ kept' = IF does THEN kept \ {f} ELSE kept
        /\ snap' = [snap EXCEPT ![t] = db]
        /\ op' = [(IF does THEN Overtaken(f) ELSE op) EXCEPT
                      ![t] = [type |-> IF does THEN type ELSE "refused", front |-> f]]
        /\ Goto(t, IF does /\ type = "stop" THEN "mark" ELSE "enter")
        /\ asks' = asks + 1
        /\ UNCHANGED <<chain, stored, db, work, cache, monitor, locals, reading,
                       changes, loads>>

\* Mutant of MarkStopped: the row is left to the reset.
MarkStoppedLater(t) ==
    /\ pc[t] = "mark"
    /\ Goto(t, "enter")
    /\ UNCHANGED <<world, db, work, snap, cache, monitor, op, locals, reading,
                   asks, loads>>

\* A group that was stopped is marked at once, since the reset cannot see it.
MarkStopped(t) ==
    LET f == op[t].front
    IN  /\ pc[t] = "mark"
        /\ f \in SeenReg(t)
        /\ PutRow(t, f, "maintaining", SeenMap(t)[f] # "none")
        /\ Goto(t, "enter")
        /\ UNCHANGED <<world, db, snap, cache, monitor, op, locals, reading,
                       asks, loads>>

\* removeFront: front and map rows, the cache, and then the commit.
RemoveFront(t, f) ==
    /\ pc[t] = "idle"
    /\ asks < MaxAsk
    /\ f \in db.reg
    /\ FreeRow(t, f)
    /\ \A u \in Threads : f \notin work[u].gone
    /\ work' = [work EXCEPT ![t].map[f] = "none", ![t].gone = {f}]
    /\ cache' = NoMap
    /\ Goto(t, "commit")
    /\ asks' = asks + 1
    /\ UNCHANGED <<world, db, snap, monitor, op, locals, reading, loads>>

\* removeAllDataByGroupId, which DROP TABLE commits.
RemoveAllData ==
    /\ asks < MaxAsk
    /\ db.group # "none"
    /\ \A t \in Threads : work[t].group = "unset" /\ work[t].map = NoWork.map
    /\ db' = [db EXCEPT !.group = "none", !.map = NoMap]
    /\ stored' = 0
    /\ asks' = asks + 1
    /\ UNCHANGED <<node, chain, work, snap, cache, monitor, pc, op, locals,
                   reading, kept, changes, loads>>

-----------------------------------------------------------------------------
\* Mutant of Enter: resets do not exclude each other.
EnterUnsynchronized(t) ==
    /\ pc[t] = "enter"
    /\ fronts' = SeenReg(t)
    /\ todo' = SeenReg(t)
    /\ heard' = "none"
    /\ IF SeenReg(t) = {}
       THEN Goto(t, "commit") /\ UNCHANGED <<monitor, cache>>
       ELSE Goto(t, "ask") /\ monitor' = t /\ cache' = NoMap
    /\ UNCHANGED <<world, db, work, snap, op, row, reading, asks, loads>>

\* Mutant of Enter: the cache is not cleared.
EnterUncleared(t) ==
    /\ pc[t] = "enter"
    /\ monitor = "free"
    /\ fronts' = SeenReg(t)
    /\ todo' = SeenReg(t)
    /\ heard' = "none"
    /\ IF SeenReg(t) = {}
       THEN Goto(t, "commit") /\ UNCHANGED monitor
       ELSE Goto(t, "ask") /\ monitor' = t
    /\ UNCHANGED <<world, db, work, snap, cache, op, row, reading, asks, loads>>

\* resetGroupList takes the monitor, reads the fronts and clears the cache.
Enter(t) ==
    /\ pc[t] = "enter"
    /\ monitor = "free"
    /\ fronts' = SeenReg(t)
    /\ todo' = SeenReg(t)
    /\ heard' = "none"
    /\ IF SeenReg(t) = {}
       THEN Goto(t, "commit") /\ UNCHANGED <<monitor, cache>>
       ELSE Goto(t, "ask") /\ monitor' = t /\ cache' = NoMap
    /\ UNCHANGED <<world, db, work, snap, op, row, reading, asks, loads>>

\* saveDataOfGroup: the group list and the peers of the next front.  No answer,
\* no such group or no peers (the group is stopped): on to the next front.
AskPeers(t) ==
    /\ Inside(t, "ask")
    /\ todo # {}
    /\ heard' = CASE node[At] = "down" -> heard
                  [] node[At] = "gone" -> IF heard = "listed" THEN heard ELSE "others"
                  [] OTHER -> "listed"
    /\ IF node[At] # "run"
       THEN todo' = todo \ {At} /\ UNCHANGED pc
       ELSE /\ \E differs \in BOOLEAN :
                  Goto(t, IF differs \/ SeenGroup(t) = "none" THEN "save" ELSE "status")
            /\ UNCHANGED todo
    /\ UNCHANGED <<world, db, work, snap, cache, monitor, op, fronts, row,
                   reading, asks, loads>>

\* saveGroup: a new group or another number of nodes; CREATE TABLE commits.
SaveGroup(t) ==
    /\ Inside(t, "save")
    /\ FreeGroup(t)
    /\ LET now == Committed(t)
           saved == [now EXCEPT !.group = IF @ = "none" THEN "normal" ELSE @]
       IN  /\ db' = saved
           /\ snap' = IF t \in Requests THEN [snap EXCEPT ![t] = saved] ELSE snap
    /\ work' = [work EXCEPT ![t] = NoWork]
    /\ Goto(t, "status")
    /\ UNCHANGED <<world, cache, monitor, op, locals, reading, asks, loads>>

\* newFrontGroup asks the front for the group's status; then the map row is
\* queried and the front looked up.  (An answer with an error code writes no
\* row; the front does not run the group then, and the next call fails.)
AskStatus(t) ==
    /\ Inside(t, "status")
    /\ node[At] # "down"
    /\ At \in SeenReg(t)
    /\ row' = [status |-> IF node[At] = "run" THEN "normal" ELSE "maintaining",
               found |-> SeenMap(t)[At] # "none"]
    /\ Goto(t, "row")
    /\ UNCHANGED <<world, db, work, snap, cache, monitor, op, fronts, todo, heard,
                   reading, asks, loads>>

\* The row is written, and the peers, sealers and observers are fetched.
WriteRow(t) ==
    /\ Inside(t, "row")
    /\ node[At] = "run"
    /\ PutRow(t, At, row.status, row.found)
    /\ row' = NoRow
    /\ todo' = todo \ {At}
    /\ Goto(t, "ask")
    /\ UNCHANGED <<world, db, snap, cache, monitor, op, fronts, heard, reading,
                   asks, loads>>

\* The loop over the fronts is at its end.
AllAsked(t) == Inside(t, "ask") /\ todo = {}

\* removeInvalidPeer: while a front shows peers, one of the fronts the cache
\* names is asked for the sealers and observers.
RemoveInvalidPeer(t) ==
    /\ AllAsked(t)
    /\ IF \A f \in fronts : node[f] # "run"
       THEN UNCHANGED cache
       ELSE /\ cache' = CachedFor(t)
            /\ \E f \in Serving(CachedFor(t)) : node[f] = "run"
    /\ Goto(t, "group")
    /\ UNCHANGED <<world, db, work, snap, monitor, op, locals, reading, asks,
                   loads>>

\* Mutant of CheckGroupStatus: a group that is found again stays as it is.
CheckGroupStatusOnce(t) ==
    /\ Inside(t, "group")
    /\ FreeGroup(t)
    /\ PutGroup(t, IF heard = "others" /\ SeenGroup(t) = "normal"
                   THEN "maintaining" ELSE SeenGroup(t))
    /\ Goto(t, "local")
    /\ UNCHANGED <<world, db, snap, cache, monitor, op, locals, reading, asks,
                   loads>>

\* checkAndUpdateGroupStatus; when no front answered it returns.
CheckGroupStatus(t) ==
    /\ Inside(t, "group")
    /\ FreeGroup(t)
    /\ PutGroup(t, CASE heard = "listed" /\ SeenGroup(t) = "maintaining" -> "normal"
                     [] heard = "others" /\ SeenGroup(t) = "normal" -> "maintaining"
                     [] OTHER -> SeenGroup(t))
    /\ Goto(t, "local")
    /\ UNCHANGED <<world, db, snap, cache, monitor, op, locals, reading, asks,
                   loads>>

\* checkSameChainDataWithLocal: the smallest stored block against the first
\* front that has the block at that height.
CheckSameChain(t) ==
    LET serving == Serving(CachedFor(t))
        having == {f \in serving : node[f] = "run" /\ chain[f] # 0}
        conflict == IF having = {} THEN serving # {} ELSE chain[Min(having)] # stored
    IN  /\ Inside(t, "local")
        /\ FreeGroup(t)
        /\ IF stored = 0 \/ SeenGroup(t) = "none"
           THEN UNCHANGED <<work, cache>>
           ELSE /\ cache' = CachedFor(t)
                /\ PutGroup(t, CASE conflict -> "local"
                                 [] SeenGroup(t) = "local" -> "normal"
                                 [] OTHER -> SeenGroup(t))
        /\ Goto(t, "genesis")
        /\ UNCHANGED <<world, db, snap, monitor, op, locals, reading, asks, loads>>

\* checkGroupGenesisSameWithEach.
CheckGenesis(t) ==
    LET having == {f \in SeenReg(t) : node[f] = "run"}
    IN  /\ Inside(t, "genesis")
        /\ FreeGroup(t)
        /\ PutGroup(t, IF /\ SeenGroup(t) # "none"
                          /\ \E f, g \in having : Genesis(chain[f]) # Genesis(chain[g])
                       THEN "genesis" ELSE SeenGroup(t))
        /\ Goto(t, "invalid")
        /\ UNCHANGED <<world, db, snap, cache, monitor, op, locals, reading, asks,
                       loads>>

\* Mutant of RemoveInvalidMap: only rows without a group are removed.
RemoveInvalidMapOfGroup(t) ==
    LET invalid == {f \in Fronts : SeenMap(t)[f] # "none" /\ SeenGroup(t) = "none"}
    IN  /\ Inside(t, "invalid")
        /\ \A f \in invalid : FreeRow(t, f)
        /\ work' = [work EXCEPT ![t].map =
                       [f \in Fronts |-> IF f \in invalid THEN "none" ELSE @[f]]]
        /\ todo' = fronts
        /\ Goto(t, "others")
        /\ UNCHANGED <<world, db, snap, cache, monitor, op, fronts, row, heard,
                       reading, asks, loads>>

\* removeInvalidFrontGroupMap: rows without a front or without a group.
RemoveInvalidMap(t) ==
    LET invalid == {f \in Fronts : /\ SeenMap(t)[f] # "none"
                                   /\ f \notin SeenReg(t) \/ SeenGroup(t) = "none"}
    IN  /\ Inside(t, "invalid")
        /\ \A f \in invalid : FreeRow(t, f)
        /\ work' = [work EXCEPT ![t].map =
                       [f \in Fronts |-> IF f \in invalid THEN "none" ELSE @[f]]]
        /\ todo' = fronts
        /\ Goto(t, "others")
        /\ UNCHANGED <<world, db, snap, cache, monitor, op, fronts, row, heard,
                       reading, asks, loads>>

\* Mutant of CheckMapByLocal: fronts without the group are left alone.
CheckMapByLocalNot(t) ==
    /\ Inside(t, "others")
    /\ todo # {}
    /\ todo' = todo \ {At}
    /\ UNCHANGED <<world, db, work, snap, cache, monitor, pc, op, fronts, row,
                   heard, reading, asks, loads>>

\* checkGroupMapByLocalGroupList: a front that answers without the group.
CheckMapByLocal(t) ==
    /\ Inside(t, "others")
    /\ todo # {}
    /\ IF node[At] = "gone" /\ SeenGroup(t) # "none"
       THEN /\ At \in SeenReg(t)
            /\ PutRow(t, At, "maintaining", SeenMap(t)[At] # "none")
       ELSE UNCHANGED work
    /\ todo' = todo \ {At}
    /\ UNCHANGED <<world, db, snap, cache, monitor, pc, op, fronts, row, heard,
                   reading, asks, loads>>

\* resetGroupList returns: the monitor is free, nothing is committed yet.
Leave(t) ==
    /\ Inside(t, "others")
    /\ todo = {}
    /\ monitor' = "free"
    /\ Goto(t, "commit")
    /\ fronts' = {} /\ heard' = "none"
    /\ UNCHANGED <<world, db, work, snap, cache, op, todo, row, reading, asks,
                   loads>>

\* The proxy commits the transaction of the outermost call.
Commit(t) ==
    /\ pc[t] = "commit"
    /\ db' = Committed(t)
    /\ work' = [work EXCEPT ![t] = NoWork]
    /\ Goto(t, Rest(t))
    /\ IF t \in Requests
       THEN /\ kept' = IF op[t].type = "stop" THEN kept \cup {op[t].front} ELSE kept
            /\ op' = [op EXCEPT ![t] = NoOp]
            /\ snap' = [snap EXCEPT ![t] = NoRows]
       ELSE UNCHANGED <<kept, op, snap>>
    /\ UNCHANGED <<node, chain, stored, cache, monitor, locals, reading, count>>

-----------------------------------------------------------------------------
\* The transaction is rolled back and the exception leaves resetGroupList.
Rollback(t) ==
    /\ work' = [work EXCEPT ![t] = NoWork]
    /\ IF monitor = t
       THEN /\ monitor' = "free"
            /\ fronts' = {} /\ todo' = {} /\ row' = NoRow /\ heard' = "none"
       ELSE UNCHANGED <<monitor, locals>>
    /\ IF t \in Requests
       THEN op' = [op EXCEPT ![t] = NoOp] /\ snap' = [snap EXCEPT ![t] = NoRows]
       ELSE UNCHANGED <<op, snap>>
    /\ Goto(t, Rest(t))
    /\ UNCHANGED <<world, db, reading, asks, loads>>

\* A front that no longer answers, is no longer in tb_front, or whose row
\* someone else has just inserted.
Throws(t) ==
    /\ \/ Inside(t, "status") /\ (node[At] = "down" \/ At \notin SeenReg(t))
       \/ Inside(t, "row") /\ (node[At] # "run" \/ Duplicate(t, At, row.found))
       \/ pc[t] = "mark" /\ op[t].front \notin SeenReg(t)
       \/ /\ Inside(t, "others") /\ todo # {}
          /\ node[At] = "gone" /\ SeenGroup(t) # "none"
          /\ At \notin SeenReg(t) \/ Duplicate(t, At, SeenMap(t)[At] # "none")
    /\ Rollback(t)
    /\ UNCHANGED cache

\* The fronts the cache names do not answer, or it names none.
NoFrontAnswers(t) ==
    /\ AllAsked(t)
    /\ \E f \in fronts : node[f] = "run"
    /\ \A f \in Serving(CachedFor(t)) : node[f] # "run"
    /\ cache' = CachedFor(t)
    /\ Rollback(t)

\* One of them answers with an error before another one was tried.
FrontAnswersError(t) ==
    /\ AllAsked(t)
    /\ \E f \in fronts : node[f] = "run"
    /\ \E f \in Serving(CachedFor(t)) : node[f] # "run"
    /\ cache' = CachedFor(t)
    /\ Rollback(t)

\* After the reset of operateGroup, the group's status file cannot be copied
\* from the host of a front in docker (pullGroupStatusFile): the reset, the mark
\* and all else the request has written are undone, the group stays stopped.
PullStatusFileFails(t) ==
    /\ t \in Requests
    /\ pc[t] = "commit" /\ op[t] # NoOp
    /\ Rollback(t)
    /\ UNCHANGED cache

\* The row t is about to write.
Wants(t, f) ==
    \/ pc[t] = "mark" /\ f = op[t].front
    \/ Inside(t, "row") /\ f = At
    \/ Inside(t, "invalid") /\ (f \notin SeenReg(t) \/ SeenGroup(t) = "none")
    \/ Inside(t, "others") /\ todo # {} /\ f = At

\* innodb_lock_wait_timeout.
LockTimeout(t) ==
    /\ \E f \in Fronts : Wants(t, f) /\ ~FreeRow(t, f)
    /\ Rollback(t)
    /\ UNCHANGED cache

-----------------------------------------------------------------------------
ResetStep(t) ==
    \/ Enter(t) \/ AskPeers(t) \/ SaveGroup(t) \/ AskStatus(t) \/ WriteRow(t)
    \/ RemoveInvalidPeer(t) \/ CheckGroupStatus(t)
    \/ CheckSameChain(t) \/ CheckGenesis(t) \/ RemoveInvalidMap(t)
    \/ CheckMapByLocal(t) \/ Leave(t) \/ Commit(t)
    \/ Throws(t) \/ NoFrontAnswers(t)

Ask(t) ==
    \E f \in Fronts :
        OperateGroup(t, f, "stop") \/ OperateGroup(t, f, "start") \/ RemoveFront(t, f)

Next ==
    \/ \E f \in Fronts : NodeChanges(f)
    \/ PullStores \/ OtherReads \/ OtherAssigns \/ RemoveAllData
    \/ \E t \in Requests : Ask(t) \/ MarkStopped(t)
    \/ \E t \in Threads :
          \/ ResetStep(t) \/ FrontAnswersError(t) \/ LockTimeout(t)
          \/ PullStatusFileFails(t)

Spec == Init /\ [][Next]_vars

\* The task is repeated, every call has a timeout, and so has every lock wait.
\* A front is chosen at random: one that answers is chosen at last.  The task
\* rests between two resets, so a request that waits gets the monitor at last.
Fairness ==
    /\ WF_vars(OtherAssigns) /\ WF_vars(PullStores)
    /\ \A t \in Requests : WF_vars(MarkStopped(t)) /\ SF_vars(Enter(t))
    /\ \A t \in Threads :
          /\ WF_vars(ResetStep(t)) /\ WF_vars(LockTimeout(t))
          /\ SF_vars(RemoveInvalidPeer(t))

FairSpec == Spec /\ Fairness

-----------------------------------------------------------------------------
\* Type invariant; only the thread inside the monitor is at a step of a reset.
TypeOK ==
    /\ node \in [Fronts -> {"run", "stop", "gone", "down"}]
    /\ chain \in [Fronts -> 0..2]
    /\ stored \in 0..2
    /\ db \in Tables /\ snap \in [Requests -> Tables]
    /\ work \in [Threads -> Works]
    /\ cache \in Maps /\ reading \in Maps
    /\ op \in [Requests -> Ops]
    /\ row \in [status : Entries, found : BOOLEAN]
    /\ heard \in {"none", "others", "listed"}
    /\ kept \subseteq Fronts
    /\ fronts \subseteq Fronts /\ todo \subseteq fronts
    /\ monitor \in Threads \cup {"free"}
    /\ pc \in [Threads -> ResetSteps \cup OtherSteps]
    /\ \A t \in Threads :
          /\ pc[t] \in IF t = monitor THEN ResetSteps ELSE {Rest(t), "mark", "enter", "commit"}
          /\ pc[t] \in {"save", "status", "row"} => todo # {}

\* A group that operateGroup stopped at a front is not marked NORMAL there
\* before the front runs it again, whatever other resets had seen before.
StoppedIsKept == \A f \in kept : db.map[f] # "normal"

\* Once fronts and users rest: a front that runs the group is NORMAL for it, one
\* that answers without the group is not.
MapFollows ==
    <>[](\A f \in db.reg : /\ node[f] = "run" => db.map[f] = "normal"
                           /\ node[f] = "gone" => db.map[f] # "normal")

\* Once they rest, the list that requests choose their front from is the table.
CacheFollows == <>[](cache \in {NoMap, Load(db.map)})

\* Once they rest: fronts with different genesis blocks are seen, stored blocks
\* of another chain are seen, and a group without conflict is NORMAL again
\* (only a conflict of genesis blocks is never taken back).
GroupFollows ==
    LET having == {f \in db.reg : node[f] = "run"}
        differ == \E f, g \in having : Genesis(chain[f]) # Genesis(chain[g])
        foreign == stored # 0 /\ \A f \in having : chain[f] # stored
        same == stored # 0 => \A f \in having : chain[f] = stored
    IN  <>[](having # {} =>
                /\ differ => db.group = "genesis"
                /\ ~differ /\ foreign => db.group = "local"
                /\ ~differ /\ same => db.group \in {"normal", "genesis"})

\* Once they rest, no row of the map is left of a removed front or group,
\* although a reset may insert one while the removal is being committed.
NoOrphansAtLast ==
    <>[](\A f \in Fronts : db.map[f] # "none" => f \in db.reg /\ db.group # "none")
=============================================================================
