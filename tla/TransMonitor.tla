---------------------------- MODULE TransMonitor ----------------------------
(***************************************************************************)
(* The transaction audit of one group: MonitorService.transMonitorByGroupId*)
(* reads transactions with statistics_flag 1 (here "unstat"), finds the     *)
(* user and the contract of each, adds it to its row of                    *)
(* tb_user_transaction_monitor and sets the flag to 2 (here "stat").       *)
(* Meanwhile users are registered (UserService) and contracts saved        *)
(* (ContractService), which renames rows, and DeleteInfoTask removes       *)
(* flagged transactions and old rows.                                      *)
(*                                                                         *)
(* All calls go to one contract.  An action is one statement, or one       *)
(* transaction seen at its commit: registering a user inserts and renames  *)
(* in one transaction, saving a contract renames later.  The audit table   *)
(* has no key of its own; rows are numbered here as they are inserted.     *)
(***************************************************************************)
EXTENDS Integers, FiniteSets, FiniteSetsExt

CONSTANTS
    NumTx,        \* transactions of the group, numbered in block order
    Users,        \* addresses that send transactions
    Methods,      \* methods of the contract
    From,         \* sender of each transaction
    Method,       \* method called by each transaction
    Stamp,        \* block timestamp of each transaction
    DayLength,    \* timestamps per day
    YearLength,   \* days per year
    Broken,       \* transactions whose analysis always throws
    ListLimit,    \* "limit 2000" of listOfUnStatTransHash
    UnusualMax,   \* constant.monitorUnusualMaxCount
    TransRetain,  \* constant.transRetainMax
    RowRetain,    \* constant.monitorInfoRetainMax
    MaxCrash      \* bound: number of restarts considered

Trans == 1..NumTx

ASSUME TransMonitorAssumption ==
    /\ NumTx \in Nat
    /\ Methods # {}
    /\ From \in [Trans -> Users]
    /\ Method \in [Trans -> Methods]
    /\ Stamp \in [Trans -> Nat \ {0}]
    /\ \A t \in Trans, s \in Trans : t < s => Stamp[t] <= Stamp[s]
    /\ Broken \subseteq Trans
    /\ {DayLength, YearLength, ListLimit, UnusualMax, TransRetain, RowRetain}
          \subseteq Nat \ {0}
    /\ MaxCrash \in Nat

VARIABLES
    flag,         \* [Trans -> "none": not pulled yet, statistics_flag, "gone"]
    daily,        \* max(block_number) of the group in tb_trans_daily
    rows,         \* tb_user_transaction_monitor: [numbers of rows -> Rows]
    lastRow,      \* number of the row inserted last
    users,        \* addresses with a row in tb_user
    contract,     \* progress of saveContract for the contract
    iface,        \* the interface name updateUnusualContract will write
    pc,           \* where the audit is
    list,         \* transHashList without those dealt with, by block_number
    createTime,   \* createTime of the audit; 0 while it is its start
    result,       \* what monitorUser, monitorContract and queryTbMonitor found
    sub,          \* subTransNum of a clean-up between its two statements
    crashes,      \* restarts so far
    home,         \* history: [Trans -> numbers of the rows it was counted in]
    disturbed,    \* history: a row changed under the audit, or two became one
    stale         \* history: a name appeared after the audit had looked for it

monitor == <<rows, lastRow, home, disturbed, stale>>
names == <<users, contract, iface>>
audit == <<pc, list, createTime, result>>
vars == <<flag, daily, rows, lastRow, users, contract, iface, pc, list,
          createTime, result, sub, crashes, home, disturbed, stale>>

\* A row: sender, whether user_name is a registered name, method in
\* interface_name, whether contract_name is a name, create_time, trans_count.
Rows == [user : Users, named : BOOLEAN, iface : Methods, known : BOOLEAN,
         time : Nat, count : Nat]

Key(r) == <<r.user, r.named, r.iface, r.known, r.time>>
InTable == {t \in Trans : flag[t] \in {"unstat", "stat"}}
UnStat == {t \in Trans : flag[t] = "unstat"}
Counted == {t \in Trans : flag[t] \in {"stat", "gone"}}
Current == Min(list)
Auditing == pc \in {"user", "contract", "row", "write"}

\* getDayOfYear: the year does not matter.
DayOfYear(stamp) == (stamp \div DayLength) % YearLength

\* The transactions that row i counts.
CountedIn(i) == {t \in Trans : i \in home[t]}

\* The k smallest members of S.
Oldest(S, k) == {t \in S : Cardinality({s \in S : s < t}) < k}

\* Two rows of rs that queryTbMonitor cannot tell apart.
HasTwins(rs) ==
    \E i, j \in DOMAIN rs : i # j /\ Key(rs[i]) = Key(rs[j])

Init ==
    /\ flag = [t \in Trans |-> "none"]
    /\ daily = 0
    /\ rows = [i \in {} |-> {}]
    /\ lastRow = 0
    /\ users = {}
    /\ contract = "unknown"
    /\ iface = CHOOSE m \in Methods : TRUE
    /\ pc = "idle"
    /\ list = {}
    /\ createTime = 0
    /\ result = [named |-> FALSE, known |-> FALSE, found |-> FALSE]
    /\ sub = 0
    /\ crashes = 0
    /\ home = [t \in Trans |-> {}]
    /\ disturbed = FALSE
    /\ stale = FALSE

-----------------------------------------------------------------------------
\* The pull stores the next transaction with the default flag 1.
Pull(t) ==
    /\ flag[t] = "none"
    /\ \A s \in Trans : s < t => flag[s] # "none"
    /\ flag' = [flag EXCEPT ![t] = "unstat"]
    /\ UNCHANGED <<daily, monitor, names, audit, sub, crashes>>

\* The scheduled audit starts.
StartMonitor ==
    /\ pc = "idle"
    /\ pc' = "query"
    /\ createTime' = 0
    /\ UNCHANGED <<flag, daily, monitor, names, list, result, sub, crashes>>

\* transHashList = queryUnStatTransHashList(groupId); nothing to do: return.
QueryUnStat ==
    /\ pc = "query"
    /\ list' = Oldest(UnStat, ListLimit)
    /\ pc' = IF UnStat = {} THEN "idle" ELSE "max"
    /\ UNCHANGED <<flag, daily, monitor, names, createTime, result, sub, crashes>>

\* countOfUnusualUser or countOfUnusualContract has reached the limit.
AtUnusualMax ==
    \/ Cardinality({rows[i].user : i \in {j \in DOMAIN rows : ~rows[j].named}})
          >= UnusualMax
    \/ UnusualMax = 1 /\ \E i \in DOMAIN rows : ~rows[i].known

\* checkUnusualMax: too much that is unusual ends the audit.
CheckUnusualMax ==
    /\ pc = "max"
    /\ pc' = IF AtUnusualMax THEN "idle" ELSE "trans"
    /\ UNCHANGED <<flag, daily, monitor, names, list, createTime, result, sub,
                   crashes>>

\* Mutant of NextTrans: createTime is only set once in a run.
NextTransOnce ==
    /\ pc = "trans"
    /\ list # {}
    /\ createTime' = IF createTime = 0 THEN Stamp[Current] ELSE createTime
    /\ pc' = "user"
    /\ UNCHANGED <<flag, daily, monitor, names, list, result, sub, crashes>>

\* Head of the loop over the list: createTime is the timestamp of the first
\* transaction of the run, and of the first of every new day.
NextTrans ==
    /\ pc = "trans"
    /\ list # {}
    /\ createTime' =
          IF createTime = 0 \/ DayOfYear(createTime) # DayOfYear(Stamp[Current])
          THEN Stamp[Current] ELSE createTime
    /\ pc' = "user"
    /\ UNCHANGED <<flag, daily, monitor, names, list, result, sub, crashes>>

\* The list is done: query again, or return when the time is up.
EndList ==
    /\ pc = "trans"
    /\ list = {}
    /\ pc' \in {"query", "idle"}
    /\ UNCHANGED <<flag, daily, monitor, names, list, createTime, result, sub,
                   crashes>>

\* monitorUser: the name of the sender, or its address.
MonitorUser(t) ==
    /\ pc = "user"
    /\ t = Current
    /\ result' = [result EXCEPT !.named = From[t] \in users]
    /\ pc' = "contract"
    /\ UNCHANGED <<flag, daily, monitor, names, list, createTime, sub, crashes>>

\* monitorContract: the name of the contract, or its bytecode.
MonitorContract(t) ==
    /\ pc = "contract"
    /\ t = Current
    /\ t \notin Broken
    /\ result' = [result EXCEPT !.known = contract # "unknown"]
    /\ pc' = "row"
    /\ UNCHANGED <<flag, daily, monitor, names, list, createTime, sub, crashes>>

\* The key of the transaction under analysis.
KeyOf(t) == <<From[t], result.named, Method[t], result.known, createTime>>

\* dataAddAndUpdate, first statement: is there a row already?
QueryTbMonitor(t) ==
    /\ pc = "row"
    /\ t = Current
    /\ result' = [result EXCEPT !.found = \E i \in DOMAIN rows : Key(rows[i]) = KeyOf(t)]
    /\ pc' = "write"
    /\ UNCHANGED <<flag, daily, monitor, names, list, createTime, sub, crashes>>

\* The row(s) that the second statement writes: an update reaches every row of
\* the key, which may be none by then.
Reached(t) == {i \in DOMAIN rows : Key(rows[i]) = KeyOf(t)}

Write(t) ==
    IF result.found
    THEN /\ rows' = [i \in DOMAIN rows |->
                        IF i \in Reached(t) THEN [rows[i] EXCEPT !.count = @ + 1]
                        ELSE rows[i]]
         /\ home' = [home EXCEPT ![t] = @ \cup Reached(t)]
         /\ UNCHANGED lastRow
    ELSE /\ lastRow' = lastRow + 1
         /\ rows' = [i \in DOMAIN rows \cup {lastRow'} |->
                        IF i # lastRow' THEN rows[i]
                        ELSE [user |-> From[t], named |-> result.named,
                              iface |-> Method[t], known |-> result.known,
                              time |-> createTime, count |-> 1]]
         /\ home' = [home EXCEPT ![t] = @ \cup {lastRow'}]

\* Mutant of DataAddAndUpdate: the flag is left to a later statement.
DataAddAndUpdateUnflagged(t) ==
    /\ pc = "write"
    /\ t = Current
    /\ Write(t)
    /\ UNCHANGED flag
    /\ list' = list \ {Current}
    /\ pc' = "trans"
    /\ UNCHANGED <<daily, names, createTime, result, sub, crashes, disturbed, stale>>

\* Mutant of DataAddAndUpdate: on to the next without asking if there is one.
DataAddAndUpdateNoEnd(t) ==
    /\ pc = "write"
    /\ t = Current
    /\ Write(t)
    /\ flag' = [flag EXCEPT ![t] = "stat"]
    /\ list' = list \ {Current}
    /\ pc' = "user"
    /\ UNCHANGED <<daily, names, createTime, result, sub, crashes, disturbed, stale>>

\* dataAddAndUpdate commits: the row and the flag together.
DataAddAndUpdate(t) ==
    /\ pc = "write"
    /\ t = Current
    /\ Write(t)
    /\ flag' = [flag EXCEPT ![t] = "stat"]
    /\ list' = list \ {Current}
    /\ pc' = "trans"
    /\ UNCHANGED <<daily, names, createTime, result, sub, crashes, disturbed, stale>>

\* Mutant of JumpOver: the failure of one transaction ends the whole run.
JumpOverAborts ==
    /\ Auditing
    /\ list' = list \ {Current}
    /\ pc' = "idle"
    /\ UNCHANGED <<flag, daily, monitor, names, createTime, result, sub, crashes>>

\* monitorTransHash finds nothing at the front or throws: on to the next.
JumpOver ==
    /\ Auditing
    /\ list' = list \ {Current}
    /\ pc' = "trans"
    /\ UNCHANGED <<flag, daily, monitor, names, createTime, result, sub, crashes>>

\* The process dies; what is committed stays.
Crash ==
    /\ pc # "idle"
    /\ crashes < MaxCrash
    /\ crashes' = crashes + 1
    /\ pc' = "idle"
    /\ sub' = 0
    /\ contract' = IF contract \in {"saved", "renaming"} THEN "done" ELSE contract
    /\ UNCHANGED <<flag, daily, monitor, users, iface, list, createTime, result>>

-----------------------------------------------------------------------------
\* Mutant of AddUser: updateUnusualUser is forgotten.
AddUserOnly(u) ==
    /\ u \notin users
    /\ users' = users \cup {u}
    /\ stale' = (stale \/ (pc \in {"contract", "row", "write"} /\ From[Current] = u))
    /\ UNCHANGED <<flag, daily, rows, lastRow, contract, iface, audit, sub,
                   crashes, home, disturbed>>

\* addUserInfo and bindUserInfo commit: the user and updateUnusualUser.
AddUser(u) ==
    /\ u \notin users
    /\ users' = users \cup {u}
    /\ LET renamed == [i \in DOMAIN rows |->
                          IF rows[i].user = u
                          THEN [rows[i] EXCEPT !.named = TRUE] ELSE rows[i]]
       IN  /\ rows' = renamed
           /\ disturbed' = \/ disturbed
                           \/ HasTwins(renamed)
                           \/ pc = "write" /\ renamed # rows
    /\ stale' = (stale \/ (pc \in {"contract", "row", "write"} /\ From[Current] = u))
    /\ UNCHANGED <<flag, daily, lastRow, contract, iface, audit, sub, crashes, home>>

\* saveContract stores the contract; its updateUnusualContract comes after.
SaveContract ==
    /\ contract = "unknown"
    /\ contract' = "saved"
    /\ UNCHANGED <<flag, daily, monitor, users, iface, audit, sub, crashes>>

\* queryUnusualTxhash and the analysis of that transaction; nothing: return.
QueryUnusualTxhash ==
    /\ contract = "saved"
    /\ \/ /\ \A i \in DOMAIN rows : rows[i].known
          /\ contract' = "done"
          /\ UNCHANGED iface
       \/ \E i \in DOMAIN rows :
             /\ ~rows[i].known
             /\ contract' = "renaming"
             /\ iface' = rows[i].iface
    /\ UNCHANGED <<flag, daily, monitor, users, audit, sub, crashes>>

\* updateUnusualContract: name and interface of every row of the contract.
UpdateUnusualContract ==
    /\ contract = "renaming"
    /\ contract' = "done"
    /\ LET renamed == [i \in DOMAIN rows |->
                          IF rows[i].known THEN rows[i]
                          ELSE [rows[i] EXCEPT !.known = TRUE, !.iface = iface]]
       IN  /\ rows' = renamed
           /\ disturbed' = \/ disturbed
                           \/ HasTwins(renamed)
                           \/ pc = "write" /\ renamed # rows
    /\ UNCHANGED <<flag, daily, lastRow, users, iface, audit, sub, crashes, home,
                   stale>>

\* The front does not answer: the failure is only logged.
UpdateUnusualFails ==
    /\ contract \in {"saved", "renaming"}
    /\ contract' = "done"
    /\ UNCHANGED <<flag, daily, monitor, users, iface, audit, sub, crashes>>

-----------------------------------------------------------------------------
\* The daily statistics reach a later block (module TransDaily).
DailyAdvances ==
    /\ \E t \in Trans : t > daily /\ flag[t] # "none" /\ daily' = t
    /\ UNCHANGED <<flag, monitor, names, audit, sub, crashes>>

\* Mutant of CountTrans: one row too many is to be removed.
CountTransOneMore ==
    /\ sub = 0
    /\ Cardinality(InTable) >= TransRetain
    /\ sub' = Cardinality(InTable) - TransRetain + 1
    /\ UNCHANGED <<flag, daily, monitor, names, audit, crashes>>

\* deleteTransHash, first statement: how many rows are too many?
CountTrans ==
    /\ sub = 0
    /\ Cardinality(InTable) > TransRetain
    /\ sub' = Cardinality(InTable) - TransRetain
    /\ UNCHANGED <<flag, daily, monitor, names, audit, crashes>>

\* deleteTransHash, second statement: flagged rows of counted days only.
RemoveTrans ==
    /\ sub > 0
    /\ LET removed == Oldest({t \in Trans : flag[t] = "stat" /\ t <= daily}, sub)
       IN  flag' = [t \in Trans |-> IF t \in removed THEN "gone" ELSE flag[t]]
    /\ sub' = 0
    /\ UNCHANGED <<daily, monitor, names, audit, crashes>>

\* The create_times that deleteAndRetainMax keeps: those of the newest rows.
KeptTimes ==
    {rows[i].time : i \in {j \in DOMAIN rows :
        Cardinality({k \in DOMAIN rows : rows[k].time > rows[j].time}) < RowRetain}}

\* deleteTransMonitor: usual rows older than that.
DeleteTransMonitor ==
    LET kept == {i \in DOMAIN rows :
                    rows[i].time \in KeptTimes \/ ~rows[i].named \/ ~rows[i].known}
    IN  /\ kept # DOMAIN rows
        /\ rows' = Restrict(rows, kept)
        /\ disturbed' = (disturbed \/ pc = "write")
        /\ UNCHANGED <<flag, daily, lastRow, names, audit, sub, crashes, home, stale>>

-----------------------------------------------------------------------------
Audit(t) ==
    \/ MonitorUser(t) \/ MonitorContract(t) \/ QueryTbMonitor(t)
    \/ DataAddAndUpdate(t)

Next ==
    \/ StartMonitor \/ QueryUnStat \/ CheckUnusualMax \/ NextTrans \/ EndList
    \/ JumpOver \/ Crash
    \/ \E t \in Trans : Pull(t) \/ Audit(t)
    \/ \E u \in Users : AddUser(u)
    \/ SaveContract \/ QueryUnusualTxhash \/ UpdateUnusualContract
    \/ UpdateUnusualFails
    \/ DailyAdvances \/ CountTrans \/ RemoveTrans \/ DeleteTransMonitor

Spec == Init /\ [][Next]_vars

\* The scheduler runs the audit again and again and its thread is not
\* stopped; each step of an analysis that is tried for ever succeeds at last.
Fairness ==
    /\ WF_vars(StartMonitor) /\ WF_vars(QueryUnStat) /\ WF_vars(CheckUnusualMax)
    /\ WF_vars(NextTrans) /\ WF_vars(EndList) /\ WF_vars(JumpOver)
    /\ \A t \in Trans :
          /\ SF_vars(MonitorUser(t)) /\ SF_vars(MonitorContract(t))
          /\ SF_vars(QueryTbMonitor(t)) /\ SF_vars(DataAddAndUpdate(t))

FairSpec == Spec /\ Fairness

-----------------------------------------------------------------------------
\* Type invariant.
TypeOK ==
    /\ flag \in [Trans -> {"none", "unstat", "stat", "gone"}]
    /\ daily \in 0..NumTx
    /\ lastRow \in Nat
    /\ DOMAIN rows \subseteq 1..lastRow
    /\ rows \in [DOMAIN rows -> Rows]
    /\ users \subseteq Users
    /\ contract \in {"unknown", "saved", "renaming", "done"}
    /\ iface \in Methods
    /\ pc \in {"idle", "query", "max", "trans", "user", "contract", "row", "write"}
    /\ list \subseteq Trans
    /\ Auditing => list # {}
    /\ createTime \in Nat
    /\ result \in [named : BOOLEAN, known : BOOLEAN, found : BOOLEAN]
    /\ sub \in 0..NumTx
    /\ crashes \in 0..MaxCrash
    /\ home \in [Trans -> SUBSET (1..lastRow)]
    /\ disturbed \in BOOLEAN
    /\ stale \in BOOLEAN

\* What the column comment of statistics_flag says (2: counted): a flagged
\* transaction is counted, and in one row.  By itself it does not hold: a
\* concurrent renaming loses or doubles a count.
FlaggedIsCounted == \A t \in Counted : \E i \in 1..lastRow : home[t] = {i}

\* A row's count is the number of transactions counted in it, each once and all
\* flagged, across failures, restarts, repeated analysis, renaming and clean-up.
\* And no flagged transaction is left out or in two rows, as long as no other
\* writer changes a row between the query and the write of dataAddAndUpdate, or
\* makes two rows indistinguishable.
CountsAddUp ==
    /\ \A i \in DOMAIN rows : rows[i].count = Cardinality(CountedIn(i))
    /\ \A t \in Trans \ Counted : home[t] = {}
    /\ ~disturbed => FlaggedIsCounted

\* A row counts transactions of its sender and of its day, although its time is
\* that of the first transaction of a run, several lists of a run may share it,
\* transactions fail in between and rows are renamed.  Its day is one of the
\* year: of transactions a year apart the code does not tell the days apart.
RowsAreOfOneDay ==
    \A i \in DOMAIN rows : \A t \in CountedIn(i) :
        rows[i].user = From[t] /\ DayOfYear(rows[i].time) = DayOfYear(Stamp[t])

\* A registered user has no abnormal row (user_type 1), whatever was audited
\* before: only an analysis that had looked the user up earlier leaves one.
UnusualIsUnregistered ==
    ~stale => \A i \in DOMAIN rows : ~rows[i].named => rows[i].user \notin users

\* The clean-up, whose count and removal are two statements with the pull, the
\* audit and the daily statistics in between, never takes a transaction that
\* the audit still has to count, and leaves transRetainMax rows.
CleanUpKeeps ==
    [][\A t \in Trans : flag[t] # "gone" /\ flag'[t] = "gone" =>
          flag[t] = "stat" /\ Cardinality(InTable') >= TransRetain]_vars

\* Every transaction of the table is counted at last, unless the unusual users
\* and contracts reach their limit; transactions whose analysis always fails
\* stay at the head of the list and must not fill it.
AllAudited ==
    Cardinality(Broken) < ListLimit =>
        \A t \in Trans \ Broken :
            flag[t] = "unstat" ~> (flag[t] # "unstat" \/ AtUnusualMax)
=============================================================================
