--------------------------- MODULE FrontLifecycle ---------------------------
(***************************************************************************)
(* Starting, restarting and stopping the fronts of a chain (a front and    *)
(* its node run in one container), and the refresh that compares the       *)
(* statuses in tb_front with the fronts that answer.                       *)
(*                                                                         *)
(* A restart is one long transaction: it writes the status "before", so    *)
(* the front's row is locked, runs the container, schedules a check of the *)
(* ports after dockerRestartPeriodTime, sleeps as long, and commits.  The  *)
(* check writes its result by itself, when the row is free.  A stop reads  *)
(* the statuses, stops the container, sleeps, and only then writes.  Any   *)
(* request that is sent to a front writes its outcome to the front's row.  *)
(* Readers see committed rows.                                             *)
(***************************************************************************)
EXTENDS Naturals

CONSTANTS
    N,          \* the fronts of the chain are 1 .. N, in the order of tb_front
    Threads,    \* request threads
    MaxAsk,     \* bound: start and stop requests over a behaviour
    MaxDie      \* bound: containers that die by themselves

ASSUME FrontLifecycleAssumption ==
    /\ N \in Nat \ {0}
    /\ MaxAsk \in Nat /\ MaxDie \in Nat
    /\ {"none", "refresh"} \intersect Threads = {}

Fronts == 1 .. N

VARIABLES
    status,     \* committed status of each front
    map,        \* committed status of the front's rows in tb_front_group_map
    up,         \* the front's container runs and answers
    lock,       \* who holds the lock of the front's row
    op,         \* what each request thread is doing
    check,      \* the check of the ports each thread scheduled last
    refresh,    \* the refresh: the front it is at (0: none) and its answer
    fresh,      \* uncommitted statuses the refresh has written
    request,    \* the outcome of a request to a front, not yet written
    asked, died

vars == <<status, map, up, lock, op, check, refresh, fresh, request, asked, died>>

Statuses == {"RUNNING", "STOPPED", "STARTING"}
Ops == [pc : {"idle", "run", "removed", "sleep", "stopping"},
        front : Fronts, before : Statuses]
Checks == [pc : {"none", "scheduled", "checked"}, front : Fronts, found : BOOLEAN]
Refreshes == [at : 0 .. N, pc : {"none", "ask", "write"}, answers : BOOLEAN]
Requests == [front : Fronts, writes : {"none", "RUNNING", "STOPPED"}]

NoOp == [pc |-> "idle", front |-> 1, before |-> "STOPPED"]
NoCheck == [pc |-> "none", front |-> 1, found |-> FALSE]
NoRefresh == [at |-> 0, pc |-> "none", answers |-> FALSE]
NoRequest == [front |-> 1, writes |-> "none"]

isRunning(f) == status[f] = "RUNNING"
Unlocked(f) == lock[f] = "none"

Ask(t) ==
    /\ op[t] = NoOp /\ check[t] = NoCheck
    /\ asked < MaxAsk
    /\ asked' = asked + 1
-----------------------------------------------------------------------------
(***************************************************************************)
(* FrontService.restart: before is STOPPED when one node is started or     *)
(* restarted, STARTING when the fronts of a group are.                     *)
(***************************************************************************)
(* Mutant: the status is written in a transaction of its own.              *)
RestartUnlocked(t, f, before) ==
    /\ Ask(t)
    /\ lock' = [lock EXCEPT ![f] = t]
    /\ op' = [op EXCEPT ![t] = [pc |-> "run", front |-> f, before |-> before]]
    /\ UNCHANGED <<status, map, up, check, refresh, fresh, request, died>>

Restart(t, f, before) ==
    /\ Ask(t)
    /\ Unlocked(f)
    /\ lock' = [lock EXCEPT ![f] = t]
    /\ op' = [op EXCEPT ![t] = [pc |-> "run", front |-> f, before |-> before]]
    /\ UNCHANGED <<status, map, up, check, refresh, fresh, request, died>>

(* The old container is removed first.                                     *)
RemoveContainer(t) ==
    LET f == op[t].front IN
    /\ op[t].pc = "run"
    /\ up' = [up EXCEPT ![f] = FALSE]
    /\ op' = [op EXCEPT ![t].pc = "removed"]
    /\ UNCHANGED <<status, map, lock, check, refresh, fresh, request, asked, died>>

(* The new one runs, or it does not: the result of the command is not      *)
(* looked at, the check of the ports will tell.                            *)
RunContainer(t) ==
    LET f == op[t].front IN
    /\ op[t].pc = "removed"
    /\ \E ok \in BOOLEAN : up' = [up EXCEPT ![f] = ok]
    /\ check' = [check EXCEPT ![t] = [pc |-> "scheduled", front |-> f, found |-> FALSE]]
    /\ op' = [op EXCEPT ![t].pc = "sleep"]
    /\ UNCHANGED <<status, map, lock, refresh, fresh, request, asked, died>>

(* A command that times out throws, although the old container may have    *)
(* been removed, or the new one started: the status "failed" is written    *)
(* and undone with the rest of the transaction.                            *)
RestartThrows(t) ==
    LET f == op[t].front IN
    /\ op[t].pc \in {"run", "removed"}
    /\ \/ UNCHANGED up
       \/ op[t].pc = "run" /\ up' = [up EXCEPT ![f] = FALSE]
       \/ op[t].pc = "removed" /\ up' = [up EXCEPT ![f] = TRUE]
    /\ lock' = [lock EXCEPT ![f] = "none"]
    /\ op' = [op EXCEPT ![t] = NoOp]
    /\ UNCHANGED <<status, map, check, refresh, fresh, request, asked, died>>

RestartCommits(t) ==
    LET f == op[t].front IN
    /\ op[t].pc = "sleep"
    /\ status' = [status EXCEPT ![f] = op[t].before]
    /\ map' = [map EXCEPT ![f] = "MAINTAINING"]
    /\ lock' = [lock EXCEPT ![f] = "none"]
    /\ op' = [op EXCEPT ![t] = NoOp]
    /\ UNCHANGED <<up, check, refresh, fresh, request, asked, died>>

CheckPorts(t) ==
    /\ check[t].pc = "scheduled"
    /\ check' = [check EXCEPT ![t].pc = "checked", ![t].found = up[check[t].front]]
    /\ UNCHANGED <<status, map, up, lock, op, refresh, fresh, request, asked, died>>

(* The command of the check times out: the scheduled task is over.         *)
CheckThrows(t) ==
    /\ check[t].pc = "scheduled"
    /\ check' = [check EXCEPT ![t] = NoCheck]
    /\ UNCHANGED <<status, map, up, lock, op, refresh, fresh, request, asked, died>>

(* The map follows when the peers of a group list the node.                *)
CheckWrites(t) ==
    LET f == check[t].front IN
    /\ check[t].pc = "checked"
    /\ Unlocked(f)
    /\ status' = [status EXCEPT ![f] = IF check[t].found THEN "RUNNING" ELSE "STOPPED"]
    /\ \/ check[t].found /\ map' = [map EXCEPT ![f] = "NORMAL"]
       \/ UNCHANGED map
    /\ check' = [check EXCEPT ![t] = NoCheck]
    /\ UNCHANGED <<up, lock, op, refresh, fresh, request, asked, died>>
-----------------------------------------------------------------------------
(***************************************************************************)
(* FrontService.stopNode and stopNodeForce; whether the node still belongs *)
(* to a group, which only the former asks, is left out.                    *)
(***************************************************************************)
StopNode(t, f) ==
    /\ Ask(t)
    /\ isRunning(f)
    /\ \E g \in Fronts \ {f} : isRunning(g)
    /\ up' = [up EXCEPT ![f] = FALSE]
    /\ op' = [op EXCEPT ![t] = [pc |-> "stopping", front |-> f, before |-> "STOPPED"]]
    /\ UNCHANGED <<status, map, lock, check, refresh, fresh, request, died>>

(* The command that removes the container times out, before or after it    *)
(* did its work; nothing is written.                                       *)
StopThrows(t, f) ==
    /\ Ask(t)
    /\ isRunning(f)
    /\ \E g \in Fronts \ {f} : isRunning(g)
    /\ up' = [up EXCEPT ![f] = FALSE]
    /\ UNCHANGED <<status, map, lock, op, check, refresh, fresh, request, died>>

StopCommits(t) ==
    LET f == op[t].front IN
    /\ op[t].pc = "stopping"
    /\ Unlocked(f)
    /\ map' = [map EXCEPT ![f] = "MAINTAINING"]
    /\ status' = [status EXCEPT ![f] = "STOPPED"]
    /\ op' = [op EXCEPT ![t] = NoOp]
    /\ UNCHANGED <<up, lock, check, refresh, fresh, request, asked, died>>
-----------------------------------------------------------------------------
(***************************************************************************)
(* FrontService.refreshFrontStatus: one transaction over all fronts, which *)
(* returns at the first one that does not answer.                          *)
(***************************************************************************)
RefreshStarts ==
    /\ refresh = NoRefresh
    /\ refresh' = [at |-> 1, pc |-> "ask", answers |-> FALSE]
    /\ UNCHANGED <<status, map, up, lock, op, check, fresh, request, asked, died>>

RefreshAsks ==
    /\ refresh.pc = "ask"
    /\ refresh' = [refresh EXCEPT !.pc = "write", !.answers = up[refresh.at]]
    /\ UNCHANGED <<status, map, up, lock, op, check, fresh, request, asked, died>>

(* Mutant: the refresh goes on after the last front.                       *)
RefreshNextPastEnd ==
    LET f == refresh.at IN
    /\ refresh.pc = "write" /\ refresh.answers
    /\ Unlocked(f)
    /\ lock' = [lock EXCEPT ![f] = "refresh"]
    /\ fresh' = [fresh EXCEPT ![f] = "RUNNING"]
    /\ refresh' = [at |-> f + 1, pc |-> "ask", answers |-> FALSE]
    /\ UNCHANGED <<status, map, up, op, check, request, asked, died>>

(* An answer marks the front RUNNING and the refresh goes on.              *)
RefreshNext ==
    LET f == refresh.at IN
    /\ refresh.pc = "write" /\ refresh.answers /\ f < N
    /\ Unlocked(f)
    /\ lock' = [lock EXCEPT ![f] = "refresh"]
    /\ fresh' = [fresh EXCEPT ![f] = "RUNNING"]
    /\ refresh' = [at |-> f + 1, pc |-> "ask", answers |-> FALSE]
    /\ UNCHANGED <<status, map, up, op, check, request, asked, died>>

(* Mutant: the answer that is missing throws out of the transaction.       *)
RefreshEndsOrThrows ==
    LET f == refresh.at IN
    /\ refresh.pc = "write" /\ (~refresh.answers \/ f = N)
    /\ Unlocked(f)
    /\ status' = [g \in Fronts |-> IF g = f /\ refresh.answers THEN "RUNNING"
                    ELSE IF refresh.answers /\ fresh[g] # "none" THEN fresh[g]
                    ELSE status[g]]
    /\ fresh' = [g \in Fronts |-> "none"]
    /\ lock' = [g \in Fronts |-> IF lock[g] = "refresh" THEN "none" ELSE lock[g]]
    /\ refresh' = NoRefresh
    /\ UNCHANGED <<map, up, op, check, request, asked, died>>

(* No answer, or no front left: the last status is written and all commit. *)
RefreshEnds ==
    LET f == refresh.at IN
    /\ refresh.pc = "write" /\ (~refresh.answers \/ f = N)
    /\ Unlocked(f)
    /\ status' = [g \in Fronts |->
            IF g = f THEN IF refresh.answers THEN "RUNNING" ELSE "STOPPED"
            ELSE IF fresh[g] # "none" THEN fresh[g] ELSE status[g]]
    /\ fresh' = [g \in Fronts |-> "none"]
    /\ lock' = [g \in Fronts |-> IF lock[g] = "refresh" THEN "none" ELSE lock[g]]
    /\ refresh' = NoRefresh
    /\ UNCHANGED <<map, up, op, check, request, asked, died>>

-----------------------------------------------------------------------------
(***************************************************************************)
(* FrontRestTools: every request to a front ends in updateFrontWithInternal*)
(* with its outcome, which does nothing when the row says so already, or   *)
(* was written a moment ago.  The row is written later than it was read.   *)
(***************************************************************************)
RequestEnds(f) ==
    /\ request = NoRequest
    /\ \E outcome \in IF up[f] THEN {"RUNNING", "STOPPED"} ELSE {"STOPPED"} :
          /\ status[f] # outcome
          /\ request' = [front |-> f, writes |-> outcome]
    /\ UNCHANGED <<status, map, up, lock, op, check, refresh, fresh, asked, died>>

RequestWrites ==
    LET f == request.front IN
    /\ request.writes # "none"
    /\ Unlocked(f)
    /\ status' = [status EXCEPT ![f] = request.writes]
    /\ request' = NoRequest
    /\ UNCHANGED <<map, up, lock, op, check, refresh, fresh, asked, died>>

Die(f) ==
    /\ up[f] /\ died < MaxDie
    /\ died' = died + 1
    /\ up' = [up EXCEPT ![f] = FALSE]
    /\ UNCHANGED <<status, map, lock, op, check, refresh, fresh, request, asked>>
-----------------------------------------------------------------------------
(* A deployed chain, all of whose fronts run.                              *)
Init ==
    /\ status = [f \in Fronts |-> "RUNNING"]
    /\ map = [f \in Fronts |-> "NORMAL"]
    /\ up = [f \in Fronts |-> TRUE]
    /\ lock = [f \in Fronts |-> "none"]
    /\ op = [t \in Threads |-> NoOp]
    /\ check = [t \in Threads |-> NoCheck]
    /\ refresh = NoRefresh
    /\ fresh = [f \in Fronts |-> "none"]
    /\ request = NoRequest
    /\ asked = 0 /\ died = 0

Asks(t) == \E f \in Fronts :
    \/ Restart(t, f, "STOPPED") \/ Restart(t, f, "STARTING")
    \/ StopNode(t, f) \/ StopThrows(t, f)

Goes(t) ==
    \/ RemoveContainer(t) \/ RunContainer(t) \/ RestartThrows(t) \/ RestartCommits(t)
    \/ CheckPorts(t) \/ CheckThrows(t) \/ CheckWrites(t)
    \/ StopCommits(t)

Refresh == RefreshStarts \/ RefreshAsks \/ RefreshNext \/ RefreshEnds

Next ==
    \/ \E t \in Threads : Asks(t) \/ Goes(t)
    \/ Refresh \/ RequestWrites
    \/ \E f \in Fronts : RequestEnds(f) \/ Die(f)

Spec == Init /\ [][Next]_vars

(* Commands have timeouts and sleeps end, so what was asked for goes on;   *)
(* the refresh is asked for again and again by the page of the fronts.     *)
FairSpec ==
    /\ Spec
    /\ WF_vars(Refresh) /\ WF_vars(RequestWrites)
    /\ \A t \in Threads : WF_vars(Goes(t))
-----------------------------------------------------------------------------
(* Types of the variables.                                                 *)
TypeOK ==
    /\ status \in [Fronts -> Statuses]
    /\ map \in [Fronts -> {"NORMAL", "MAINTAINING"}]
    /\ up \in [Fronts -> BOOLEAN]
    /\ lock \in [Fronts -> Threads \union {"none", "refresh"}]
    /\ op \in [Threads -> Ops]
    /\ check \in [Threads -> Checks]
    /\ refresh \in Refreshes
    /\ fresh \in [Fronts -> {"none", "RUNNING"}]
    /\ request \in Requests
    /\ asked \in 0 .. MaxAsk /\ died \in 0 .. MaxDie

(* Two restarts of one front never recreate its container at the same      *)
(* time, and a refresh does not hold the row meanwhile: the uncommitted    *)
(* status is what keeps them apart.                                        *)
RestartsExclude ==
    \A t \in Threads : op[t].pc \in {"run", "removed", "sleep"} => lock[op[t].front] = t

(* The first front of the list that stays down is marked as not running    *)
(* for good, whatever starts, stops, late checks, requests and other       *)
(* refreshes wrote.                                                        *)
FirstDownIsSeen ==
    \A f \in Fronts :
        <>[](~up[f] /\ \A g \in 1 .. f - 1 : up[g]) => <>[]~isRunning(f)

(* A stop leaves another front of the chain that is RUNNING, or at least   *)
(* has its container.  It does not hold: two stops of different nodes both *)
(* count the two.                                                          *)
LastRunningKept ==
    [][\A t \in Threads : op[t].pc = "stopping" /\ op'[t].pc = "idle"
            => \E g \in Fronts : status'[g] = "RUNNING" \/ up'[g]]_vars
=============================================================================
