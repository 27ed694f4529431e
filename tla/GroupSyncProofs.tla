-------------------------- MODULE GroupSyncProofs --------------------------
(***************************************************************************)
(* Theorems of GroupSync, for any number of fronts, requests and changes.  *)
(***************************************************************************)
EXTENDS GroupSync, TLAPS

(***************************************************************************)
(* What a thread reads and writes.                                         *)
(***************************************************************************)
LEMMA Different == "task" \notin Requests /\ "free" \notin Threads
BY GroupSyncAssumption DEF Threads

LEMMA Over_Type ==
    ASSUME NEW w \in [Fronts -> Entries \cup {"unset"}], NEW m \in Maps
    PROVE  Over(w, m) \in Maps
<1>1. \A f \in Fronts : w[f] # "unset" => w[f] \in Entries
  OBVIOUS
<1> QED
  BY <1>1 DEF Over, Maps

LEMMA SeenType ==
    ASSUME TypeOK, NEW t \in Threads
    PROVE  /\ SeenMap(t) \in Maps
           /\ SeenGroup(t) \in Statuses
           /\ SeenReg(t) \subseteq Fronts
           /\ Committed(t) \in Tables
<1>1. Base(t) \in Tables /\ db \in Tables /\ work[t] \in Works
  BY DEF TypeOK, Base, Threads
<1>2. SeenMap(t) \in Maps
  BY <1>1, Over_Type DEF SeenMap, Tables, Works
<1>3. SeenGroup(t) \in Statuses
  BY <1>1 DEF SeenGroup, Tables, Works
<1>4. SeenReg(t) \subseteq Fronts
  BY <1>1 DEF SeenReg, Tables, Works
<1>5. Over(work[t].map, db.map) \in Maps
  BY <1>1, Over_Type DEF Tables, Works
<1>6. Committed(t) \in Tables
  BY <1>1, <1>5 DEF Committed, Tables, Works
<1> QED
  BY <1>2, <1>3, <1>4, <1>6

LEMMA NoWorkType == NoWork \in Works /\ NoRow \in [status : Entries, found : BOOLEAN]
BY DEF NoWork, NoRow, Works, Entries, Statuses

LEMMA NoMapType == NoMap \in Maps /\ NoRows \in Tables
<1>1. NoMap \in Maps
  BY DEF NoMap, Maps, Entries
<1> QED
  BY <1>1 DEF NoRows, Tables, Statuses

LEMMA WorkType ==
    ASSUME TypeOK, NEW t \in Threads, NEW w \in Works, work' = [work EXCEPT ![t] = w]
    PROVE  work' \in [Threads -> Works]
BY DEF TypeOK

\* One row of the map is written by t.
LEMMA RowWritten ==
    ASSUME NEW W \in [Threads -> Works], NEW t \in Threads, NEW f, NEW s \in Entries
    PROVE  [W EXCEPT ![t].map[f] = s] \in [Threads -> Works]
<1>1. [W[t].map EXCEPT ![f] = s] \in [Fronts -> Entries \cup {"unset"}]
  BY DEF Works
<1>2. [W[t] EXCEPT !.map = [W[t].map EXCEPT ![f] = s]] \in Works
  BY <1>1 DEF Works
<1>3. [W EXCEPT ![t].map[f] = s] = [W EXCEPT ![t] = [W[t] EXCEPT !.map = [W[t].map EXCEPT ![f] = s]]]
  BY DEF Works
<1> QED
  BY <1>2, <1>3

LEMMA PutRowType ==
    ASSUME TypeOK, NEW t \in Threads, NEW f, NEW s \in Entries, NEW b, PutRow(t, f, s, b)
    PROVE  work' \in [Threads -> Works]
BY RowWritten DEF TypeOK, PutRow

LEMMA PutGroupType ==
    ASSUME TypeOK, NEW t \in Threads, NEW s \in Statuses, PutGroup(t, s)
    PROVE  work' \in [Threads -> Works]
<1>0. work[t] \in Works
  BY DEF TypeOK
<1>1. [work[t] EXCEPT !.group = s] \in Works
  BY <1>0 DEF Works
<1>2. [work EXCEPT ![t].group = s] = [work EXCEPT ![t] = [work[t] EXCEPT !.group = s]]
  BY DEF TypeOK
<1> QED
  BY <1>1, <1>2 DEF TypeOK, PutGroup

LEMMA LoadType == ASSUME NEW m \in Maps PROVE Load(m) \in Maps
BY DEF Load, Maps, Entries

LEMMA CachedType == ASSUME TypeOK, NEW t \in Threads PROVE CachedFor(t) \in Maps
BY SeenType, LoadType DEF CachedFor, TypeOK

(***************************************************************************)
(* Where the threads are.                                                  *)
(***************************************************************************)
Places ==
    /\ monitor \in Threads \cup {"free"}
    /\ pc \in [Threads -> ResetSteps \cup OtherSteps]
    /\ \A t \in Threads :
          /\ pc[t] \in IF t = monitor THEN ResetSteps ELSE {Rest(t), "mark", "enter", "commit"}
          /\ pc[t] \in {"save", "status", "row"} => todo # {}

\* Of the rest of the state.
Data ==
    /\ node \in [Fronts -> {"run", "stop", "gone", "down"}]
    /\ chain \in [Fronts -> 0..2] /\ stored \in 0..2
    /\ db \in Tables /\ snap \in [Requests -> Tables]
    /\ work \in [Threads -> Works]
    /\ cache \in Maps /\ reading \in Maps
    /\ op \in [Requests -> Ops]
    /\ row \in [status : Entries, found : BOOLEAN]
    /\ heard \in {"none", "others", "listed"}
    /\ kept \subseteq Fronts
    /\ fronts \subseteq Fronts /\ todo \subseteq fronts

LEMMA Parts == TypeOK <=> Data /\ Places
BY DEF TypeOK, Data, Places

LEMMA PartsNext == TypeOK' <=> Data' /\ Places'
BY DEF TypeOK, Data, Places

LEMMA RestType ==
    \A t \in Threads : Rest(t) \in OtherSteps /\ Rest(t) \notin ResetSteps
BY DEF Rest, OtherSteps, ResetSteps

\* A thread goes on inside the monitor, or takes it.
LEMMA GoesInside ==
    ASSUME Places, NEW t \in Threads, NEW p \in ResetSteps, Goto(t, p),
           monitor \in {t, "free"}, monitor' = t,
           p \in {"save", "status", "row"} => todo' # {}
    PROVE  Places'
<1>1. pc' \in [Threads -> ResetSteps \cup OtherSteps] /\ pc'[t] = p
  BY DEF Places, Goto
<1>2. ASSUME NEW u \in Threads, u # t
      PROVE  pc'[u] \in {Rest(u), "mark", "enter", "commit"}
  <2>1. u # monitor
    BY <1>2, Different
  <2> QED
    BY <1>2, <2>1 DEF Places, Goto
<1>3. ASSUME NEW u \in Threads, u # t
      PROVE  pc'[u] \notin {"save", "status", "row"}
  BY <1>2, <1>3 DEF Rest
<1> QED
  BY <1>1, <1>2, <1>3 DEF Places

\* A thread goes on outside, or leaves the monitor.
LEMMA GoesOutside ==
    ASSUME Places, NEW t \in Threads, NEW p \in {Rest(t), "mark", "enter", "commit"},
           Goto(t, p), monitor' = IF monitor = t THEN "free" ELSE monitor,
           monitor \in {t, "free"} \/ todo' = todo
    PROVE  Places'
<1>1. pc' \in [Threads -> ResetSteps \cup OtherSteps] /\ pc'[t] = p
  BY RestType DEF Places, Goto, OtherSteps
<1>2. p \notin {"save", "status", "row"}
  BY DEF Rest
<1>3. t # monitor'
  BY Different
<1>4. ASSUME NEW u \in Threads, u # t
      PROVE  /\ pc'[u] \in IF u = monitor' THEN ResetSteps ELSE {Rest(u), "mark", "enter", "commit"}
             /\ pc'[u] \in {"save", "status", "row"} => todo' # {}
  <2>1. pc'[u] = pc[u]
    BY <1>4 DEF Places, Goto
  <2>2. u = monitor' <=> u = monitor
    BY <1>4, Different
  <2>3. CASE monitor \in {t, "free"}
    <3>1. pc[u] \in {Rest(u), "mark", "enter", "commit"}
      BY <1>4, <2>3, Different DEF Places
    <3> QED
      BY <2>1, <2>2, <2>3, <3>1, <1>4, Different DEF Rest
  <2>4. CASE todo' = todo
    BY <2>1, <2>2, <2>4 DEF Places
  <2> QED
    BY <2>3, <2>4
<1> QED
  BY <1>1, <1>2, <1>3, <1>4 DEF Places

LEMMA StaysThere ==
    ASSUME Places, UNCHANGED <<monitor, pc>>, todo' # {} \/ todo' = todo
    PROVE  Places'
BY DEF Places

LEMMA OvertakenType ==
    ASSUME op \in [Requests -> Ops], NEW f \in Fronts
    PROVE  Overtaken(f) \in [Requests -> Ops]
<1>1. 0 \notin Fronts
  BY GroupSyncAssumption DEF Fronts
<1>2. ASSUME NEW t \in Requests, op[t].front = f
      PROVE  [op[t] EXCEPT !.type = "overtaken"] \in Ops
  BY <1>1, <1>2 DEF Ops, NoOp
<1> QED
  BY <1>2 DEF Overtaken

LEMMA TypeInit == Init => TypeOK
<1> SUFFICES ASSUME Init PROVE TypeOK
    OBVIOUS
<1>1. PICK w \in InitWorlds :
         node = w.node /\ chain = w.chain /\ stored = w.stored /\ db = RowsOf(w.node)
  BY DEF Init
<1>2. w \in [node : [Fronts -> {"run", "stop", "gone"}], chain : [Fronts -> 0..2],
              stored : 0..2]
  BY GroupSyncAssumption
<1>3. RowsOf(w.node) \in Tables
  BY DEF RowsOf, Tables, Maps, Entries, Statuses
<1>4. Data
  BY <1>1, <1>2, <1>3, NoWorkType, NoMapType DEF Init, Data, Ops
<1>5. Places
  BY RestType, Different DEF Init, Places, Rest
<1> QED
  BY <1>4, <1>5, Parts

(***************************************************************************)
(* Types.                                                                  *)
(***************************************************************************)
\* The world, the cache and the removals.
LEMMA TypeOutside ==
    ASSUME TypeOK,
           (\E f \in Fronts : NodeChanges(f)) \/ PullStores \/ OtherReads \/ OtherAssigns
              \/ RemoveAllData
    PROVE  TypeOK'
<1> USE DEF Data, world, locals, count
<1>0. Data /\ Places
  BY Parts
<1>1. ASSUME NEW f \in Fronts, NodeChanges(f) PROVE TypeOK'
  <2>1. Overtaken(f) \in [Requests -> Ops]
    BY <1>0, OvertakenType
  <2>2. Data'
    BY <1>0, <1>1, <2>1 DEF NodeChanges
  <2>3. Places'
    BY <1>0, <1>1, StaysThere DEF NodeChanges
  <2> QED
    BY <2>2, <2>3, PartsNext
<1>2. CASE PullStores
  <2>1. Data'
    BY <1>0, <1>2 DEF PullStores
  <2>2. Places'
    BY <1>0, <1>2, StaysThere DEF PullStores
  <2> QED
    BY <2>1, <2>2, PartsNext
<1>3. CASE OtherReads
  <2>1. Load(db.map) \in Maps
    BY <1>0, LoadType DEF Tables
  <2>2. Data'
    BY <1>0, <1>3, <2>1 DEF OtherReads
  <2>3. Places'
    BY <1>0, <1>3, StaysThere DEF OtherReads
  <2> QED
    BY <2>2, <2>3, PartsNext
<1>4. CASE OtherAssigns
  <2>1. Data'
    BY <1>0, <1>4, NoMapType DEF OtherAssigns
  <2>2. Places'
    BY <1>0, <1>4, StaysThere DEF OtherAssigns
  <2> QED
    BY <2>1, <2>2, PartsNext
<1>5. CASE RemoveAllData
  <2>1. db' \in Tables
    BY <1>0, <1>5, NoMapType DEF RemoveAllData, Tables, Statuses
  <2>2. Data'
    BY <1>0, <1>5, <2>1 DEF RemoveAllData
  <2>3. Places'
    BY <1>0, <1>5, StaysThere DEF RemoveAllData
  <2> QED
    BY <2>2, <2>3, PartsNext
<1> QED
  BY <1>1, <1>2, <1>3, <1>4, <1>5

\* The requests of users.
LEMMA TypeRequest ==
    ASSUME TypeOK, NEW t \in Requests, Ask(t) \/ MarkStopped(t)
    PROVE  TypeOK'
<1> USE DEF Data, world, locals, count
<1>0. Data /\ Places
  BY Parts
<1>a. t \in Threads /\ Rest(t) = "idle"
  BY Different DEF Threads, Rest
<1>b. pc[t] \in OtherSteps => monitor # t
  BY <1>0, <1>a DEF Places, OtherSteps, ResetSteps
<1>1. ASSUME NEW f \in Fronts, NEW type \in {"stop", "start"}, OperateGroup(t, f, type)
      PROVE  TypeOK'
  <2> DEFINE does == \/ type = "stop" /\ node[f] = "run"
                     \/ type = "start" /\ node[f] = "stop"
  <2>1. Overtaken(f) \in [Requests -> Ops] /\ op \in [Requests -> Ops]
    BY <1>0, OvertakenType
  <2>2. [type |-> IF does THEN type ELSE "refused", front |-> f] \in Ops
    BY DEF Ops
  <2>3. op' \in [Requests -> Ops]
    BY <1>1, <2>1, <2>2 DEF OperateGroup
  <2>4. node' \in [Fronts -> {"run", "stop", "gone", "down"}]
    BY <1>0, <1>1 DEF OperateGroup
  <2>5. snap' \in [Requests -> Tables] /\ kept' \subseteq Fronts
    BY <1>0, <1>1 DEF OperateGroup
  <2>6. Data'
    BY <1>0, <1>1, <2>3, <2>4, <2>5 DEF OperateGroup
  <2>7. Places'
    BY <1>0, <1>a, <1>b, <1>1, GoesOutside DEF OperateGroup, OtherSteps
  <2> QED
    BY <2>6, <2>7, PartsNext
<1>2. ASSUME NEW f \in Fronts, RemoveFront(t, f) PROVE TypeOK'
  <2>1. [work EXCEPT ![t].map[f] = "none"] \in [Threads -> Works]
    BY <1>0, <1>a, RowWritten DEF Entries
  <2>2. work' \in [Threads -> Works]
    BY <1>0, <1>a, <1>2, <2>1 DEF RemoveFront, Works, Entries
  <2>3. Data'
    BY <1>0, <1>2, <2>2, NoMapType DEF RemoveFront
  <2>4. Places'
    BY <1>0, <1>a, <1>b, <1>2, GoesOutside DEF RemoveFront, OtherSteps
  <2> QED
    BY <2>3, <2>4, PartsNext
<1>3. CASE MarkStopped(t)
  <2>1. work' \in [Threads -> Works]
    BY <1>a, <1>3, PutRowType DEF MarkStopped, Entries
  <2>2. Data'
    BY <1>0, <1>3, <2>1 DEF MarkStopped
  <2>3. Places'
    BY <1>0, <1>a, <1>b, <1>3, GoesOutside DEF MarkStopped, OtherSteps
  <2> QED
    BY <2>2, <2>3, PartsNext
<1> QED
  BY <1>1, <1>2, <1>3 DEF Ask

\* An exception ends the transaction.
LEMMA TypeRollback ==
    ASSUME TypeOK, NEW t \in Threads, Rollback(t), cache' \in Maps
    PROVE  TypeOK'
<1> USE DEF Rollback, Data, world, locals
<1>0. Data /\ Places
  BY Parts
<1>1. work' \in [Threads -> Works]
  BY <1>0, NoWorkType
<1>2. op' \in [Requests -> Ops] /\ snap' \in [Requests -> Tables]
  <2>1. CASE t \in Requests
    BY <1>0, <2>1, NoMapType DEF Ops
  <2>2. CASE t \notin Requests
    BY <1>0, <2>2
  <2> QED
    BY <2>1, <2>2
<1>3. Data'
  BY <1>0, <1>1, <1>2, NoWorkType
<1>4. Places'
  BY <1>0, GoesOutside
<1> QED
  BY <1>3, <1>4, PartsNext

LEMMA TypeThrows ==
    ASSUME TypeOK, NEW t \in Threads,
           \/ Throws(t) \/ NoFrontAnswers(t) \/ FrontAnswersError(t)
           \/ LockTimeout(t) \/ PullStatusFileFails(t)
    PROVE  TypeOK'
<1>1. Rollback(t)
  BY DEF Throws, NoFrontAnswers, FrontAnswersError, LockTimeout,
         PullStatusFileFails
<1>2. cache' \in Maps
  BY CachedType DEF Throws, NoFrontAnswers, FrontAnswersError, LockTimeout,
                    PullStatusFileFails, TypeOK
<1> QED
  BY <1>1, <1>2, TypeRollback

\* The loop over the fronts.
LEMMA TypeAsks ==
    ASSUME TypeOK, NEW t \in Threads,
           Enter(t) \/ AskPeers(t) \/ SaveGroup(t) \/ AskStatus(t) \/ WriteRow(t)
    PROVE  TypeOK'
<1> USE DEF Data, world, locals, Inside
<1>0. Data /\ Places
  BY Parts
<1>a. /\ SeenReg(t) \subseteq Fronts
      /\ Committed(t) \in Tables
  BY SeenType
<1>1. CASE Enter(t)
  <2>1. Data'
    BY <1>0, <1>a, <1>1, NoMapType DEF Enter
  <2>2. SeenReg(t) = {} => Places'
    BY <1>0, <1>1, GoesOutside, Different DEF Enter
  <2>3. SeenReg(t) # {} => Places'
    BY <1>0, <1>1, GoesInside DEF Enter, ResetSteps
  <2> QED
    BY <2>1, <2>2, <2>3, PartsNext
<1>2. CASE AskPeers(t)
  <2>1. Data'
    BY <1>0, <1>2 DEF AskPeers
  <2>2. CASE node[At] # "run"
    <3>1. pc'[t] = "ask"
      BY <1>2, <2>2 DEF AskPeers
    <3>2. \A u \in Threads : u # t => pc'[u] \notin {"save", "status", "row"}
      BY <1>0, <1>2, <2>2 DEF AskPeers, Places, Rest
    <3> QED
      BY <1>0, <1>2, <2>1, <2>2, <3>1, <3>2, PartsNext DEF AskPeers, Places
  <2>3. CASE node[At] = "run"
    <3>1. Goto(t, "save") \/ Goto(t, "status")
      BY <1>2, <2>3 DEF AskPeers
    <3>2. todo # {} /\ UNCHANGED <<todo, monitor>> /\ monitor = t
      BY <1>2, <2>3 DEF AskPeers
    <3>3. Places'
      BY <1>0, <3>1, <3>2, GoesInside DEF ResetSteps
    <3> QED
      BY <2>1, <3>3, PartsNext
  <2> QED
    BY <2>2, <2>3
<1>3. CASE SaveGroup(t)
  <2>1. db' \in Tables
    BY <1>0, <1>a, <1>3 DEF SaveGroup, Tables, Statuses
  <2>2. snap' \in [Requests -> Tables]
    BY <1>0, <1>3, <2>1 DEF SaveGroup
  <2>3. work' \in [Threads -> Works]
    BY <1>0, <1>3, NoWorkType DEF SaveGroup
  <2>4. Data'
    BY <1>0, <1>3, <2>1, <2>2, <2>3 DEF SaveGroup
  <2>5. todo # {}
    BY <1>0, <1>3 DEF SaveGroup, Places
  <2>6. Places'
    BY <1>0, <1>3, <2>5, GoesInside DEF SaveGroup, ResetSteps
  <2> QED
    BY <2>4, <2>6, PartsNext
<1>4. CASE AskStatus(t)
  <2>1. Data'
    BY <1>0, <1>4 DEF AskStatus, Entries
  <2>2. todo # {}
    BY <1>0, <1>4 DEF AskStatus, Places
  <2>3. Places'
    BY <1>0, <1>4, <2>2, GoesInside DEF AskStatus, ResetSteps
  <2> QED
    BY <2>1, <2>3, PartsNext
<1>5. CASE WriteRow(t)
  <2>1. work' \in [Threads -> Works]
    BY <1>0, <1>5, PutRowType DEF WriteRow
  <2>2. Data'
    BY <1>0, <1>5, <2>1, NoWorkType DEF WriteRow
  <2>3. Places'
    BY <1>0, <1>5, GoesInside DEF WriteRow, ResetSteps
  <2> QED
    BY <2>2, <2>3, PartsNext
<1> QED
  BY <1>1, <1>2, <1>3, <1>4, <1>5

\* The checks of the group's status.
LEMMA TypeChecks ==
    ASSUME TypeOK, NEW t \in Threads,
           RemoveInvalidPeer(t) \/ CheckGroupStatus(t) \/ CheckSameChain(t)
              \/ CheckGenesis(t)
    PROVE  TypeOK'
<1> USE DEF Data, world, locals, Inside
<1>0. Data /\ Places
  BY Parts
<1>a. SeenGroup(t) \in Statuses /\ CachedFor(t) \in Maps
  BY SeenType, CachedType
<1>1. CASE RemoveInvalidPeer(t)
  <2>1. cache' \in Maps
    BY <1>0, <1>a, <1>1 DEF RemoveInvalidPeer
  <2>2. Data'
    BY <1>0, <1>1, <2>1 DEF RemoveInvalidPeer
  <2>3. Places'
    BY <1>0, <1>1, GoesInside DEF RemoveInvalidPeer, AllAsked, ResetSteps
  <2> QED
    BY <2>2, <2>3, PartsNext
<1>2. CASE CheckGroupStatus(t)
  <2>1. PICK s \in Statuses : PutGroup(t, s)
    BY <1>a, <1>2 DEF CheckGroupStatus, Statuses
  <2>2. work' \in [Threads -> Works]
    BY <2>1, PutGroupType
  <2>3. Data'
    BY <1>0, <1>2, <2>2 DEF CheckGroupStatus
  <2>4. Places'
    BY <1>0, <1>2, GoesInside DEF CheckGroupStatus, ResetSteps
  <2> QED
    BY <2>3, <2>4, PartsNext
<1>3. CASE CheckSameChain(t)
  <2>1. (work' = work /\ cache' = cache)
           \/ (cache' = CachedFor(t) /\ \E s \in Statuses : PutGroup(t, s))
    BY <1>a, <1>3 DEF CheckSameChain, Statuses
  <2>2. work' \in [Threads -> Works] /\ cache' \in Maps
    BY <1>0, <1>a, <2>1, PutGroupType
  <2>3. Data'
    BY <1>0, <1>3, <2>2 DEF CheckSameChain
  <2>4. Places'
    BY <1>0, <1>3, GoesInside DEF CheckSameChain, ResetSteps
  <2> QED
    BY <2>3, <2>4, PartsNext
<1>4. CASE CheckGenesis(t)
  <2>1. PICK s \in Statuses : PutGroup(t, s)
    BY <1>a, <1>4 DEF CheckGenesis, Statuses
  <2>2. work' \in [Threads -> Works]
    BY <2>1, PutGroupType
  <2>3. Data'
    BY <1>0, <1>4, <2>2 DEF CheckGenesis
  <2>4. Places'
    BY <1>0, <1>4, GoesInside DEF CheckGenesis, ResetSteps
  <2> QED
    BY <2>3, <2>4, PartsNext
<1> QED
  BY <1>1, <1>2, <1>3, <1>4

\* The clean-up, the end of the reset and the commit.
LEMMA TypeEnds ==
    ASSUME TypeOK, NEW t \in Threads,
           RemoveInvalidMap(t) \/ CheckMapByLocal(t) \/ Leave(t) \/ Commit(t)
    PROVE  TypeOK'
<1> USE DEF Data, world, locals, count, Inside
<1>0. Data /\ Places
  BY Parts
<1>1. CASE RemoveInvalidMap(t)
  <2> DEFINE invalid == {f \in Fronts : /\ SeenMap(t)[f] # "none"
                                        /\ f \notin SeenReg(t) \/ SeenGroup(t) = "none"}
             removed == [f \in Fronts |-> IF f \in invalid THEN "none" ELSE work[t].map[f]]
  <2>1. work[t] \in Works
    BY <1>0
  <2>2. removed \in [Fronts -> Entries \cup {"unset"}]
    BY <2>1 DEF Works, Entries
  <2>3. work' = [work EXCEPT ![t] = [work[t] EXCEPT !.map = removed]]
    BY <1>0, <1>1 DEF RemoveInvalidMap
  <2>4. [work[t] EXCEPT !.map = removed] \in Works
    BY <2>1, <2>2 DEF Works
  <2>5. work' \in [Threads -> Works]
    BY <1>0, <2>3, <2>4
  <2>6. Data'
    BY <1>0, <1>1, <2>5 DEF RemoveInvalidMap
  <2>7. Places'
    BY <1>0, <1>1, GoesInside DEF RemoveInvalidMap, ResetSteps
  <2> QED
    BY <2>6, <2>7, PartsNext
<1>2. CASE CheckMapByLocal(t)
  <2>1. work' \in [Threads -> Works]
    BY <1>0, <1>2, PutRowType DEF CheckMapByLocal, Entries
  <2>2. Data'
    BY <1>0, <1>2, <2>1 DEF CheckMapByLocal
  <2>3. Goto(t, "others")
    BY <1>0, <1>2 DEF CheckMapByLocal, Goto, Places
  <2>4. Places'
    BY <1>0, <1>2, <2>3, GoesInside DEF CheckMapByLocal, ResetSteps
  <2> QED
    BY <2>2, <2>4, PartsNext
<1>3. CASE Leave(t)
  <2>1. Data'
    BY <1>0, <1>3 DEF Leave
  <2>2. Places'
    BY <1>0, <1>3, GoesOutside DEF Leave
  <2> QED
    BY <2>1, <2>2, PartsNext
<1>4. CASE Commit(t)
  <2>1. db' \in Tables
    BY <1>4, SeenType DEF Commit
  <2>2. work' \in [Threads -> Works]
    BY <1>0, <1>4, NoWorkType DEF Commit
  <2>3. t \notin Requests => Data'
    BY <1>0, <1>4, <2>1, <2>2 DEF Commit
  <2>4. ASSUME t \in Requests PROVE Data'
    <3>1. op' \in [Requests -> Ops]
      BY <1>0, <1>4, <2>4 DEF Commit, Ops
    <3>2. snap' \in [Requests -> Tables]
      BY <1>0, <1>4, <2>4, NoMapType DEF Commit
    <3>3. op[t].type = "stop" => op[t].front \in Fronts
      BY <1>0, <2>4 DEF Ops, NoOp
    <3>4. kept' \subseteq Fronts
      BY <1>0, <1>4, <2>4, <3>3 DEF Commit
    <3> QED
      BY <1>0, <1>4, <2>1, <2>2, <2>4, <3>1, <3>2, <3>4 DEF Commit
  <2>5. monitor # t
    BY <1>0, <1>4 DEF Commit, Places, ResetSteps
  <2>6. Places'
    BY <1>0, <1>4, <2>5, GoesOutside DEF Commit
  <2> QED
    BY <2>3, <2>4, <2>6, PartsNext
<1> QED
  BY <1>1, <1>2, <1>3, <1>4

LEMMA TypeNext == TypeOK /\ [Next]_vars => TypeOK'
<1> SUFFICES ASSUME TypeOK, [Next]_vars PROVE TypeOK'
    OBVIOUS
<1>1. CASE Next
  BY <1>1, TypeOutside, TypeRequest, TypeThrows, TypeAsks, TypeChecks, TypeEnds
  DEF Next, ResetStep
<1>2. CASE UNCHANGED vars
  BY <1>2 DEF vars, TypeOK
<1> QED
  BY <1>1, <1>2

\* Every row and every answer has its type, and only the thread inside the
\* monitor of GroupService is at a step of resetGroupList.
THEOREM GroupTypeCorrect == Spec => []TypeOK
<1>1. Init => TypeOK
  BY TypeInit
<1>2. TypeOK /\ [Next]_vars => TypeOK'
  BY TypeNext
<1> QED
  BY <1>1, <1>2, PTL DEF Spec

(***************************************************************************)
(* A stopped group stays stopped.                                          *)
(***************************************************************************)
\* No thread is about to commit NORMAL for f.
NotWritten(f) == \A u \in Threads : work[u].map[f] # "normal"

\* The request t has stopped a group: until it commits, its mark on the row, or
\* the row as it is, is not NORMAL, and nobody has read a running front since.
StopHolds(t) ==
    op[t].type = "stop" =>
        LET f == op[t].front
        IN  /\ node[f] = "stop"
            /\ pc[t] # "idle"
            /\ pc[t] # "mark" => /\ NotWritten(f)
                                 /\ work[t].map[f] # "unset" \/ db.map[f] # "normal"

KeptHolds(f) == node[f] = "stop" /\ db.map[f] # "normal" /\ NotWritten(f)

StopInv == (\A f \in kept : KeptHolds(f)) /\ (\A t \in Requests : StopHolds(t))

LEMMA StopInit == Init => StopInv
BY DEF Init, StopInv, StopHolds, NoOp

\* Whose group is stopped is a front.
LEMMA StopFront ==
    ASSUME TypeOK, NEW t \in Requests, op[t].type = "stop"
    PROVE  op[t].front \in Fronts
BY DEF TypeOK, Ops, NoOp

\* A step that writes NORMAL only for a front that runs the group.
LEMMA StopQuiet ==
    ASSUME TypeOK, StopInv, UNCHANGED <<node, db, kept, op>>,
           \A u \in Requests : \/ pc'[u] = pc[u]
                               \/ pc[u] # "mark" /\ pc'[u] \notin {"idle", "mark"},
           \A u \in Threads, f \in Fronts :
              \/ work'[u].map[f] = work[u].map[f]
              \/ work'[u].map[f] \in {"none", "maintaining"}
              \/ node[f] = "run"
    PROVE  StopInv'
<1>1. ASSUME NEW f \in Fronts, node[f] = "stop", NotWritten(f) PROVE NotWritten(f)'
  BY <1>1 DEF NotWritten
<1>2. ASSUME NEW f \in kept PROVE KeptHolds(f)'
  <2>1. f \in Fronts /\ KeptHolds(f)
    BY <1>2 DEF TypeOK, StopInv
  <2> QED
    BY <1>1, <2>1 DEF KeptHolds
<1>3. ASSUME NEW t \in Requests, op[t].type = "stop" PROVE StopHolds(t)'
  <2> DEFINE f == op[t].front
  <2>1. f \in Fronts /\ StopHolds(t) /\ t \in Threads
    BY <1>3, StopFront DEF StopInv, Threads
  <2>2. node[f] = "stop" /\ pc[t] # "idle"
    BY <1>3, <2>1 DEF StopHolds
  <2>3. node'[f] = "stop" /\ pc'[t] # "idle"
    BY <2>2
  <2>4. CASE pc[t] = "mark" /\ pc'[t] = "mark"
    BY <2>3, <2>4 DEF StopHolds
  <2>5. CASE pc[t] # "mark"
    <3>1. NotWritten(f) /\ (work[t].map[f] # "unset" \/ db.map[f] # "normal")
      BY <1>3, <2>1, <2>5 DEF StopHolds
    <3>2. NotWritten(f)'
      BY <1>1, <2>1, <2>2, <3>1
    <3>3. (work[t].map[f] # "unset" \/ db.map[f] # "normal")'
      BY <2>1, <2>2, <3>1
    <3> QED
      BY <2>3, <3>2, <3>3 DEF StopHolds
  <2> QED
    BY <2>4, <2>5
<1> QED
  BY <1>2, <1>3 DEF StopInv, StopHolds

LEMMA StopOutside ==
    ASSUME TypeOK, StopInv,
           (\E f \in Fronts : NodeChanges(f)) \/ PullStores \/ OtherReads \/ OtherAssigns
              \/ RemoveAllData \/ UNCHANGED vars
    PROVE  StopInv'
<1>1. ASSUME NEW f \in Fronts, NodeChanges(f) PROVE StopInv'
  <2>1. \A g \in kept' : g \in kept /\ g # f
    BY <1>1 DEF NodeChanges
  <2>2. \A g \in Fronts : g # f => node'[g] = node[g]
    BY <1>1 DEF NodeChanges
  <2>3. UNCHANGED <<db, work, pc>>
    BY <1>1 DEF NodeChanges
  <2>4. \A t \in Requests : op'[t].type = "stop" => op'[t] = op[t] /\ op[t].front # f
    BY <1>1 DEF NodeChanges, Overtaken, TypeOK, Ops, NoOp
  <2>5. ASSUME NEW g \in kept' PROVE KeptHolds(g)'
    BY <2>1, <2>2, <2>3, <2>5 DEF StopInv, KeptHolds, NotWritten, TypeOK
  <2>6. ASSUME NEW t \in Requests PROVE StopHolds(t)'
    BY <2>2, <2>3, <2>4, StopFront DEF StopInv, StopHolds, NotWritten
  <2> QED
    BY <2>5, <2>6 DEF StopInv
<1>2. CASE PullStores \/ OtherReads \/ OtherAssigns \/ UNCHANGED vars
  BY <1>2, StopQuiet DEF PullStores, OtherReads, OtherAssigns, vars, world, locals, count
<1>3. CASE RemoveAllData
  <2>1. UNCHANGED <<node, work, pc, op, kept>> /\ db'.map = NoMap
    BY <1>3 DEF RemoveAllData, TypeOK, Tables
  <2>2. \A f \in Fronts : db'.map[f] # "normal"
    BY <2>1 DEF NoMap
  <2>3. ASSUME NEW f \in kept PROVE KeptHolds(f)'
    BY <2>1, <2>2 DEF StopInv, KeptHolds, NotWritten, TypeOK
  <2>4. ASSUME NEW t \in Requests PROVE StopHolds(t)'
    BY <2>1, <2>2, StopFront DEF StopInv, StopHolds, NotWritten
  <2> QED
    BY <2>1, <2>3, <2>4 DEF StopInv
<1> QED
  BY <1>1, <1>2, <1>3

\* One row is written.
LEMMA PutRowWrites ==
    ASSUME TypeOK, NEW t \in Threads, NEW f \in Fronts, NEW s, NEW b, PutRow(t, f, s, b)
    PROVE  /\ \A u \in Threads, g \in Fronts :
                 work'[u].map[g] = work[u].map[g] \/ (g = f /\ work'[u].map[g] = s)
           /\ \/ work'[t].map[f] = s
              \/ work' = work /\ work[t].map[f] = "unset" /\ db.map[f] = "none"
BY DEF TypeOK, PutRow, Works

LEMMA StopRequest ==
    ASSUME TypeOK, StopInv, NEW t \in Requests, Ask(t) \/ MarkStopped(t)
    PROVE  StopInv'
<1>a. t \in Threads
  BY DEF Threads
<1>1. ASSUME NEW f \in Fronts, NEW type \in {"stop", "start"}, OperateGroup(t, f, type)
      PROVE  StopInv'
  <2> DEFINE does == \/ type = "stop" /\ node[f] = "run"
                     \/ type = "start" /\ node[f] = "stop"
  <2>1. UNCHANGED <<db, work>>
    BY <1>1 DEF OperateGroup
  <2>2. \A g \in Fronts : node'[g] = node[g] \/ (does /\ g = f)
    BY <1>1 DEF OperateGroup, TypeOK
  <2>3. kept' = IF does THEN kept \ {f} ELSE kept
    BY <1>1 DEF OperateGroup
  <2>4. ASSUME NEW g \in kept' PROVE KeptHolds(g)'
    BY <2>1, <2>2, <2>3, <2>4 DEF StopInv, KeptHolds, NotWritten, TypeOK
  <2>5. ASSUME NEW u \in Requests, u # t, op'[u].type = "stop" PROVE StopHolds(u)'
    <3>1. op'[u] = op[u] /\ (does => op[u].front # f)
      <4>1. CASE does
        <5>1. op'[u] = Overtaken(f)[u]
          BY <1>1, <2>5, <4>1 DEF OperateGroup, Overtaken
        <5>2. op[u].front = f => Overtaken(f)[u].type = "overtaken"
          BY DEF Overtaken, TypeOK, Ops, NoOp
        <5>3. op[u].front # f => Overtaken(f)[u] = op[u]
          BY DEF Overtaken
        <5> QED
          BY <2>5, <5>1, <5>2, <5>3
      <4>2. CASE ~does
        BY <1>1, <2>5, <4>2 DEF OperateGroup, TypeOK
      <4> QED
        BY <4>1, <4>2
    <3>2. pc'[u] = pc[u]
      BY <1>1, <1>a, <2>5 DEF OperateGroup, Goto, TypeOK, Threads
    <3>3. op[u].front \in Fronts
      BY <2>5, <3>1, StopFront
    <3> QED
      BY <2>1, <2>2, <2>5, <3>1, <3>2, <3>3 DEF StopInv, StopHolds, NotWritten
  <2>6. ASSUME op'[t].type = "stop" PROVE StopHolds(t)'
    <3>1. op'[t] = [type |-> IF does THEN type ELSE "refused", front |-> f]
      BY <1>1 DEF OperateGroup, Overtaken, TypeOK
    <3>2. does /\ type = "stop" /\ op'[t].front = f
      BY <2>6, <3>1
    <3>3. node'[f] = "stop" /\ pc'[t] = "mark"
      BY <1>1, <1>a, <3>2 DEF OperateGroup, Goto, TypeOK
    <3> QED
      BY <3>2, <3>3 DEF StopHolds
  <2> QED
    BY <2>4, <2>5, <2>6 DEF StopInv, StopHolds
<1>2. ASSUME NEW f \in Fronts, RemoveFront(t, f) PROVE StopInv'
  <2>1. UNCHANGED <<node, db, kept, op>>
    BY <1>2 DEF RemoveFront, world
  <2>2. \A u \in Requests : \/ pc'[u] = pc[u]
                            \/ pc[u] # "mark" /\ pc'[u] \notin {"idle", "mark"}
    BY <1>2, <1>a DEF RemoveFront, Goto, TypeOK, Threads
  <2>3. \A u \in Threads, g \in Fronts :
           work'[u].map[g] = work[u].map[g] \/ work'[u].map[g] = "none"
    BY <1>2, <1>a DEF RemoveFront, TypeOK, Works
  <2> QED
    BY <2>1, <2>2, <2>3, StopQuiet
<1>3. CASE MarkStopped(t)
  <2> DEFINE f == op[t].front
  <2>1. UNCHANGED <<node, db, kept, op>>
    BY <1>3 DEF MarkStopped, world
  <2>2. f \in Fronts /\ PutRow(t, f, "maintaining", SeenMap(t)[f] # "none")
    BY <1>3, <1>a, SeenType DEF MarkStopped
  <2>3. /\ \A u \in Threads, g \in Fronts :
              \/ work'[u].map[g] = work[u].map[g]
              \/ g = f /\ work'[u].map[g] = "maintaining"
        /\ \/ work'[t].map[f] = "maintaining"
           \/ work' = work /\ work[t].map[f] = "unset" /\ db.map[f] = "none"
    BY <1>a, <2>2, PutRowWrites
  <2>4. \A u \in Threads \ {t} : work[u].map[f] = "unset"
    BY <2>2 DEF PutRow, FreeRow
  <2>5. ASSUME NEW g \in kept PROVE KeptHolds(g)'
    BY <2>1, <2>3 DEF StopInv, KeptHolds, NotWritten, TypeOK
  <2>6. ASSUME NEW u \in Requests, u # t, op[u].type = "stop" PROVE StopHolds(u)'
    <3>1. pc'[u] = pc[u]
      BY <1>3, <1>a, <2>6 DEF MarkStopped, Goto, TypeOK, Threads
    <3>2. op[u].front \in Fronts /\ u \in Threads
      BY <2>6, StopFront DEF Threads
    <3> QED
      BY <2>1, <2>3, <2>6, <3>1, <3>2 DEF StopInv, StopHolds, NotWritten
  <2>7. ASSUME op[t].type = "stop" PROVE StopHolds(t)'
    <3>1. node'[f] = "stop"
      BY <2>1, <2>7 DEF StopInv, StopHolds
    <3>2. pc'[t] = "enter"
      BY <1>3, <1>a DEF MarkStopped, Goto, TypeOK
    <3>3. \A u \in Threads : u # t => work'[u].map[f] # "normal"
      BY <2>2, <2>3, <2>4
    <3>4. work'[t].map[f] # "normal"
      BY <2>3
    <3> QED
      BY <2>1, <2>3, <3>1, <3>2, <3>3, <3>4 DEF StopHolds, NotWritten
  <2> QED
    BY <2>1, <2>5, <2>6, <2>7 DEF StopInv, StopHolds
<1> QED
  BY <1>1, <1>2, <1>3 DEF Ask

LEMMA PutGroupWrites ==
    ASSUME TypeOK, NEW t \in Threads, NEW s, PutGroup(t, s)
    PROVE  \A u \in Threads : work'[u].map = work[u].map
BY DEF TypeOK, PutGroup, Works

\* Where a reset goes from one step to the next.
LEMMA GoesOn ==
    ASSUME TypeOK, NEW t \in Threads, pc[t] # "mark",
           NEW p, p \notin {"idle", "mark"}, Goto(t, p)
    PROVE  \A u \in Requests : \/ pc'[u] = pc[u]
                               \/ pc[u] # "mark" /\ pc'[u] \notin {"idle", "mark"}
BY DEF TypeOK, Goto, Threads

LEMMA StopReset ==
    ASSUME TypeOK, StopInv, NEW t \in Threads,
           \/ Enter(t) \/ AskPeers(t) \/ AskStatus(t) \/ WriteRow(t)
           \/ RemoveInvalidPeer(t) \/ CheckGroupStatus(t) \/ CheckSameChain(t)
           \/ CheckGenesis(t) \/ RemoveInvalidMap(t) \/ CheckMapByLocal(t) \/ Leave(t)
    PROVE  StopInv'
<1> DEFINE Pcs == \A u \in Requests :
                     pc'[u] = pc[u] \/ (pc[u] # "mark" /\ pc'[u] \notin {"idle", "mark"})
           Writes == \A u \in Threads, f \in Fronts :
                        \/ work'[u].map[f] = work[u].map[f]
                        \/ work'[u].map[f] \in {"none", "maintaining"}
                        \/ node[f] = "run"
<1> USE DEF world, Inside
<1>0. UNCHANGED <<node, db, kept, op>>
  BY DEF Enter, AskPeers, AskStatus, WriteRow, RemoveInvalidPeer, CheckGroupStatus,
         CheckSameChain, CheckGenesis, RemoveInvalidMap, CheckMapByLocal, Leave
<1>1. CASE Enter(t) \/ AskPeers(t) \/ AskStatus(t) \/ RemoveInvalidPeer(t) \/ Leave(t)
  <2>1. Pcs
    BY <1>1, GoesOn DEF Enter, AskPeers, AskStatus, RemoveInvalidPeer, AllAsked, Leave
  <2>2. UNCHANGED work
    BY <1>1 DEF Enter, AskPeers, AskStatus, RemoveInvalidPeer, Leave
  <2> QED
    BY <1>0, <2>1, <2>2, StopQuiet
<1>2. CASE CheckGroupStatus(t) \/ CheckSameChain(t) \/ CheckGenesis(t)
  <2>1. Pcs
    BY <1>2, GoesOn DEF CheckGroupStatus, CheckSameChain, CheckGenesis
  <2>2. UNCHANGED work \/ \E s : PutGroup(t, s)
    BY <1>2 DEF CheckGroupStatus, CheckSameChain, CheckGenesis
  <2>3. Writes
    BY <2>2, PutGroupWrites
  <2> QED
    BY <1>0, <2>1, <2>3, StopQuiet
<1>3. CASE WriteRow(t)
  <2>1. Pcs
    BY <1>3, GoesOn DEF WriteRow
  <2>2. ASSUME NEW u \in Threads, NEW f \in Fronts, f # At
        PROVE  work'[u].map[f] = work[u].map[f]
    BY <1>3, <2>2 DEF WriteRow, PutRow, TypeOK, Works
  <2>3. node[At] = "run"
    BY <1>3 DEF WriteRow
  <2>4. Writes
    BY <2>2, <2>3
  <2> QED
    BY <1>0, <2>1, <2>4, StopQuiet
<1>4. CASE RemoveInvalidMap(t)
  <2>1. Pcs
    BY <1>4, GoesOn DEF RemoveInvalidMap
  <2>2. Writes
    BY <1>4 DEF RemoveInvalidMap, TypeOK, Works
  <2> QED
    BY <1>0, <2>1, <2>2, StopQuiet
<1>5. CASE CheckMapByLocal(t)
  <2>1. Pcs
    BY <1>5 DEF CheckMapByLocal
  <2>2. Writes
    BY <1>5 DEF CheckMapByLocal, PutRow, TypeOK, Works
  <2> QED
    BY <1>0, <2>1, <2>2, StopQuiet
<1> QED
  BY <1>1, <1>2, <1>3, <1>4, <1>5

\* The rows of a thread become those of the table.
LEMMA CommittedMap ==
    ASSUME TypeOK, NEW t \in Threads, NEW f \in Fronts
    PROVE  Committed(t).map[f] = IF work[t].map[f] = "unset" THEN db.map[f] ELSE work[t].map[f]
BY DEF Committed, Over

\* What is committed does not undo what was stopped, and neither does what is
\* rolled back; t has nothing left to write.
LEMMA StopOthers ==
    ASSUME TypeOK, StopInv, NEW t \in Threads, UNCHANGED node,
           db'.map = db.map \/ db'.map = Committed(t).map,
           work' = [work EXCEPT ![t] = NoWork]
    PROVE  /\ \A f \in kept : KeptHolds(f)'
           /\ \A u \in Requests :
                 u # t /\ op'[u] = op[u] /\ pc'[u] = pc[u] => StopHolds(u)'
<1>1. ASSUME NEW f \in Fronts, NotWritten(f) PROVE NotWritten(f)'
  BY <1>1 DEF NotWritten, NoWork, TypeOK
<1>2. ASSUME NEW f \in Fronts, NotWritten(f), db.map[f] # "normal"
      PROVE  db'.map[f] # "normal"
  BY <1>2, CommittedMap DEF NotWritten
<1>3. ASSUME NEW f \in kept PROVE KeptHolds(f)'
  BY <1>1, <1>2, <1>3 DEF StopInv, KeptHolds, TypeOK
<1>4. ASSUME NEW u \in Requests, u # t, op'[u] = op[u], pc'[u] = pc[u] PROVE StopHolds(u)'
  <2> DEFINE f == op[u].front
  <2>1. CASE op[u].type # "stop" \/ pc[u] = "mark"
    BY <1>4, <2>1 DEF StopInv, StopHolds
  <2>2. CASE op[u].type = "stop" /\ pc[u] # "mark"
    <3>1. f \in Fronts /\ StopHolds(u) /\ u \in Threads
      BY <2>2, StopFront DEF StopInv, Threads
    <3>2. NotWritten(f) /\ (work[u].map[f] # "unset" \/ db.map[f] # "normal")
      BY <2>2, <3>1 DEF StopHolds
    <3>3. work'[u] = work[u]
      BY <1>4, <3>1 DEF TypeOK
    <3>4. NotWritten(f)' /\ (work'[u].map[f] # "unset" \/ db'.map[f] # "normal")
      BY <1>1, <1>2, <1>4, <3>1, <3>2, <3>3
    <3> QED
      BY <1>4, <2>2, <3>1, <3>4 DEF StopHolds
  <2> QED
    BY <2>1, <2>2
<1> QED
  BY <1>3, <1>4

\* What t has stopped is not NORMAL once it has committed.
LEMMA StopCommitted ==
    ASSUME TypeOK, StopInv, NEW t \in Requests, op[t].type = "stop", pc[t] # "mark",
           NEW f, f = op[t].front,
           UNCHANGED node, db'.map = Committed(t).map,
           work' = [work EXCEPT ![t] = NoWork]
    PROVE  KeptHolds(f)'
<1>1. f \in Fronts /\ StopHolds(t) /\ t \in Threads
  BY StopFront DEF StopInv, Threads
<1>2. /\ node[f] = "stop" /\ NotWritten(f)
      /\ work[t].map[f] # "unset" \/ db.map[f] # "normal"
  BY <1>1 DEF StopHolds
<1>3. db'.map[f] # "normal"
  BY <1>1, <1>2, CommittedMap DEF NotWritten
<1>4. NotWritten(f)'
  BY <1>1, <1>2 DEF NotWritten, NoWork, TypeOK
<1> QED
  BY <1>2, <1>3, <1>4 DEF KeptHolds

LEMMA StopCommits ==
    ASSUME TypeOK, StopInv, NEW t \in Threads, SaveGroup(t) \/ Commit(t)
    PROVE  StopInv'
<1>1. UNCHANGED node /\ work' = [work EXCEPT ![t] = NoWork] /\ pc[t] # "mark"
  <2>1. CASE SaveGroup(t)
    BY <2>1 DEF SaveGroup, world, Inside
  <2>2. CASE Commit(t)
    BY <2>2 DEF Commit
  <2> QED
    BY <2>1, <2>2
<1>2. db'.map = Committed(t).map
  <2>1. Committed(t) \in Tables
    BY SeenType
  <2>2. CASE SaveGroup(t)
    <3>1. PICK g : db' = [Committed(t) EXCEPT !.group = g]
      BY <2>2 DEF SaveGroup
    <3> QED
      BY <2>1, <3>1 DEF Tables
  <2>3. CASE Commit(t)
    BY <2>3 DEF Commit
  <2> QED
    BY <2>2, <2>3
<1>3. /\ \A f \in kept : KeptHolds(f)'
      /\ \A u \in Requests :
            u # t /\ op'[u] = op[u] /\ pc'[u] = pc[u] => StopHolds(u)'
  BY <1>1, <1>2, StopOthers
<1>4. ASSUME NEW u \in Requests, u # t PROVE op'[u] = op[u] /\ pc'[u] = pc[u]
  BY <1>4 DEF SaveGroup, Commit, Goto, TypeOK, Threads
<1>5. CASE SaveGroup(t)
  <2>1. UNCHANGED <<op, kept>> /\ pc' = [pc EXCEPT ![t] = "status"]
    BY <1>5 DEF SaveGroup, world, Goto
  <2>2. ASSUME t \in Requests, op[t].type = "stop" PROVE StopHolds(t)'
    <3>1. \A f : f = op[t].front => KeptHolds(f)'
      BY <1>1, <1>2, <2>2, StopCommitted
    <3>2. pc'[t] = "status"
      BY <2>1 DEF TypeOK
    <3> QED
      BY <2>1, <3>1, <3>2 DEF StopHolds, KeptHolds
  <2> QED
    BY <1>3, <1>4, <2>1, <2>2 DEF StopInv, StopHolds
<1>6. CASE Commit(t)
  <2>1. ASSUME NEW f \in kept' PROVE KeptHolds(f)'
    <3>1. f \in kept \/ (t \in Requests /\ op[t].type = "stop" /\ f = op[t].front)
      BY <1>6, <2>1 DEF Commit
    <3> QED
      BY <1>1, <1>2, <1>3, <3>1, StopCommitted
  <2>2. t \in Requests => op'[t] = NoOp
    BY <1>6 DEF Commit, TypeOK
  <2>3. t \in Requests => StopHolds(t)'
    BY <2>2 DEF StopHolds, NoOp
  <2> QED
    BY <1>3, <1>4, <2>1, <2>3 DEF StopInv
<1> QED
  BY <1>5, <1>6

LEMMA StopThrows ==
    ASSUME TypeOK, StopInv, NEW t \in Threads,
           \/ Throws(t) \/ NoFrontAnswers(t) \/ FrontAnswersError(t)
           \/ LockTimeout(t) \/ PullStatusFileFails(t)
    PROVE  StopInv'
<1>1. Rollback(t)
  BY DEF Throws, NoFrontAnswers, FrontAnswersError, LockTimeout,
         PullStatusFileFails
<1>2. UNCHANGED <<node, db, kept>> /\ work' = [work EXCEPT ![t] = NoWork]
  BY <1>1 DEF Rollback, world
<1>3. /\ \A f \in kept : KeptHolds(f)'
      /\ \A u \in Requests :
            u # t /\ op'[u] = op[u] /\ pc'[u] = pc[u] => StopHolds(u)'
  BY <1>2, StopOthers
<1>4. ASSUME NEW u \in Requests, u # t PROVE op'[u] = op[u] /\ pc'[u] = pc[u]
  BY <1>1, <1>4 DEF Rollback, Goto, TypeOK, Threads
<1>5. t \in Requests => op'[t] = NoOp
  BY <1>1 DEF Rollback, TypeOK
<1>6. t \in Requests => StopHolds(t)'
  BY <1>5 DEF StopHolds, NoOp
<1> QED
  BY <1>2, <1>3, <1>4, <1>6 DEF StopInv

LEMMA StopNext == TypeOK /\ StopInv /\ [Next]_vars => StopInv'
<1> SUFFICES ASSUME TypeOK, StopInv, [Next]_vars PROVE StopInv'
    OBVIOUS
<1>1. CASE Next
  BY <1>1, StopOutside, StopRequest, StopReset, StopCommits, StopThrows
  DEF Next, ResetStep
<1>2. CASE UNCHANGED vars
  BY <1>2, StopOutside
<1> QED
  BY <1>1, <1>2

\* A group that operateGroup stopped at a front is never marked NORMAL there
\* before the front runs it again, however many requests and resets overlap.
THEOREM StoppedStaysStopped == Spec => []StoppedIsKept
<1>1. Init => TypeOK /\ StopInv
  BY TypeInit, StopInit
<1>2. TypeOK /\ StopInv /\ [Next]_vars => TypeOK' /\ StopInv'
  BY TypeNext, StopNext
<1>3. StopInv => StoppedIsKept
  BY DEF StopInv, KeptHolds, StoppedIsKept
<1> QED
  BY <1>1, <1>2, <1>3, PTL DEF Spec
=============================================================================
