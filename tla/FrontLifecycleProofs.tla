------------------------ MODULE FrontLifecycleProofs ------------------------
(***************************************************************************)
(* Theorems of FrontLifecycle, for any number of fronts and threads.       *)
(***************************************************************************)
EXTENDS FrontLifecycle, TLAPS

USE FrontLifecycleAssumption DEF Fronts

(***************************************************************************)
(* The records the variables hold.                                         *)
(***************************************************************************)
\* What has nothing under way is a value of its type.
LEMMA NothingUnderWay ==
    /\ NoOp \in Ops /\ NoCheck \in Checks
    /\ NoRefresh \in Refreshes /\ NoRequest \in Requests
BY DEF NoOp, NoCheck, NoRefresh, NoRequest, Ops, Checks, Refreshes, Requests, Statuses

\* An operation, or a check, that goes on to its next step.
LEMMA OpGoesOn ==
    ASSUME NEW o \in Ops, NEW p \in {"run", "removed", "sleep"}
    PROVE  [o EXCEPT !.pc = p] \in Ops
BY DEF Ops

LEMMA CheckGoesOn ==
    ASSUME NEW c \in Checks, NEW b \in BOOLEAN
    PROVE  [c EXCEPT !.pc = "checked", !.found = b] \in Checks
BY DEF Checks

LEMMA RefreshGoesOn ==
    ASSUME NEW r \in Refreshes, NEW b \in BOOLEAN
    PROVE  [r EXCEPT !.pc = "write", !.answers = b] \in Refreshes
BY DEF Refreshes

(***************************************************************************)
(* Types.                                                                  *)
(***************************************************************************)
LEMMA TypeInit == Init => TypeOK
BY NothingUnderWay DEF Init, TypeOK, Statuses

\* A front a refresh is at is a front: it is at 0 only when there is no refresh.
RefreshAt == refresh.pc # "none" => refresh.at \in Fronts

LEMMA RefreshAtInit == Init => RefreshAt
BY DEF Init, RefreshAt, NoRefresh

LEMMA TypeNext == TypeOK /\ RefreshAt /\ [Next]_vars => TypeOK' /\ RefreshAt'
<1> SUFFICES ASSUME TypeOK, RefreshAt, [Next]_vars PROVE TypeOK' /\ RefreshAt'
    OBVIOUS
<1> USE DEF TypeOK, RefreshAt
<1>1. ASSUME NEW t \in Threads, NEW f \in Fronts, NEW b \in {"STOPPED", "STARTING"},
             Restart(t, f, b)
      PROVE  TypeOK' /\ RefreshAt'
  <2>1. [pc |-> "run", front |-> f, before |-> b] \in Ops
    BY DEF Ops, Statuses
  <2> QED
    BY <1>1, <2>1 DEF Restart, Ask
<1>2. ASSUME NEW t \in Threads, RemoveContainer(t) PROVE TypeOK' /\ RefreshAt'
  <2>1. [op[t] EXCEPT !.pc = "removed"] \in Ops
    BY OpGoesOn
  <2> QED
    BY <1>2, <2>1 DEF RemoveContainer
<1>3. ASSUME NEW t \in Threads, RunContainer(t) PROVE TypeOK' /\ RefreshAt'
  <2>1. [op[t] EXCEPT !.pc = "sleep"] \in Ops
    BY OpGoesOn
  <2>2. [pc |-> "scheduled", front |-> op[t].front, found |-> FALSE] \in Checks
    BY DEF Checks, Ops
  <2> QED
    BY <1>3, <2>1, <2>2 DEF RunContainer
<1>4. ASSUME NEW t \in Threads, RestartThrows(t) PROVE TypeOK' /\ RefreshAt'
  BY <1>4, NothingUnderWay DEF RestartThrows
<1>5. ASSUME NEW t \in Threads, RestartCommits(t) PROVE TypeOK' /\ RefreshAt'
  <2>1. op[t].before \in Statuses
    BY DEF Ops
  <2> QED
    BY <1>5, <2>1, NothingUnderWay DEF RestartCommits
<1>6. ASSUME NEW t \in Threads, CheckPorts(t) PROVE TypeOK' /\ RefreshAt'
  <2>1. up[check[t].front] \in BOOLEAN
    BY DEF Checks
  <2>2. [check[t] EXCEPT !.pc = "checked", !.found = up[check[t].front]] \in Checks
    BY <2>1, CheckGoesOn
  <2> QED
    BY <1>6, <2>2 DEF CheckPorts
<1>7. ASSUME NEW t \in Threads, CheckThrows(t) PROVE TypeOK' /\ RefreshAt'
  BY <1>7, NothingUnderWay DEF CheckThrows
<1>8. ASSUME NEW t \in Threads, CheckWrites(t) PROVE TypeOK' /\ RefreshAt'
  <2>1. check' \in [Threads -> Checks]
    BY <1>8, NothingUnderWay DEF CheckWrites
  <2>2. status' \in [Fronts -> Statuses]
    BY <1>8 DEF CheckWrites, Statuses
  <2>3. map' \in [Fronts -> {"NORMAL", "MAINTAINING"}]
    BY <1>8 DEF CheckWrites
  <2> QED
    BY <1>8, <2>1, <2>2, <2>3 DEF CheckWrites
<1>9. ASSUME NEW t \in Threads, NEW f \in Fronts, StopNode(t, f) PROVE TypeOK' /\ RefreshAt'
  <2>1. [pc |-> "stopping", front |-> f, before |-> "STOPPED"] \in Ops
    BY DEF Ops, Statuses
  <2> QED
    BY <1>9, <2>1 DEF StopNode, Ask
<1>10. ASSUME NEW t \in Threads, NEW f \in Fronts, StopThrows(t, f) PROVE TypeOK' /\ RefreshAt'
  BY <1>10 DEF StopThrows, Ask
<1>11. ASSUME NEW t \in Threads, StopCommits(t) PROVE TypeOK' /\ RefreshAt'
  BY <1>11, NothingUnderWay DEF StopCommits, Statuses
<1>12. CASE RefreshStarts
  BY <1>12 DEF RefreshStarts, Refreshes
<1>13. CASE RefreshAsks
  <2>1. refresh.at \in Fronts
    BY <1>13 DEF RefreshAsks
  <2>2. refresh' \in Refreshes
    BY <1>13, <2>1, RefreshGoesOn DEF RefreshAsks
  <2>3. refresh'.at = refresh.at
    BY <1>13 DEF RefreshAsks, Refreshes
  <2> QED
    BY <1>13, <2>1, <2>2, <2>3 DEF RefreshAsks
<1>14. CASE RefreshNext
  <2>1. refresh.at \in Fronts /\ refresh.at + 1 \in Fronts
    BY <1>14 DEF RefreshNext
  <2>2. refresh' \in Refreshes /\ refresh'.at \in Fronts
    BY <1>14, <2>1 DEF RefreshNext, Refreshes
  <2>3. lock' \in [Fronts -> Threads \union {"none", "refresh"}]
    BY <1>14 DEF RefreshNext
  <2>4. fresh' \in [Fronts -> {"none", "RUNNING"}]
    BY <1>14 DEF RefreshNext
  <2> QED
    BY <1>14, <2>2, <2>3, <2>4 DEF RefreshNext
<1>15. CASE RefreshEnds
  BY <1>15, NothingUnderWay DEF RefreshEnds, NoRefresh, Statuses
<1>16. ASSUME NEW f \in Fronts, Die(f) PROVE TypeOK' /\ RefreshAt'
  BY <1>16 DEF Die
<1>17. ASSUME NEW f \in Fronts, RequestEnds(f) PROVE TypeOK' /\ RefreshAt'
  <2>1. request' \in Requests
    BY <1>17 DEF RequestEnds, Requests
  <2> QED
    BY <1>17, <2>1 DEF RequestEnds
<1>18. CASE RequestWrites
  <2>1. request.writes \in {"RUNNING", "STOPPED"} \/ request.writes = "none"
    BY DEF Requests
  <2>2. request.writes # "none" => status' \in [Fronts -> Statuses]
    BY <1>18, <2>1 DEF RequestWrites, Statuses
  <2> QED
    BY <1>18, <2>2, NothingUnderWay DEF RequestWrites
<1>19. CASE UNCHANGED vars
  BY <1>19 DEF vars
<1> QED
  BY <1>1, <1>2, <1>3, <1>4, <1>5, <1>6, <1>7, <1>8, <1>9, <1>10, <1>11, <1>12,
     <1>13, <1>14, <1>15, <1>16, <1>17, <1>18, <1>19 DEF Next, Asks, Goes, Refresh

\* Statuses, locks, requests, checks and the refresh keep their types; a refresh
\* (FrontService.refreshFrontStatus) never goes past the last front.
THEOREM FrontTypeCorrect == Spec => []TypeOK
BY TypeInit, RefreshAtInit, TypeNext, PTL DEF Spec

(***************************************************************************)
(* The lock of the front's row.                                            *)
(***************************************************************************)
LEMMA ExcludeInit == Init => RestartsExclude
BY DEF Init, RestartsExclude, NoOp

LEMMA ExcludeNext == TypeOK /\ RestartsExclude /\ [Next]_vars => RestartsExclude'
<1> SUFFICES ASSUME TypeOK, RestartsExclude, [Next]_vars,
                    NEW u \in Threads, op'[u].pc \in {"run", "removed", "sleep"}
             PROVE  lock'[op'[u].front] = u
    BY DEF RestartsExclude
<1> USE DEF TypeOK, RestartsExclude
<1> DEFINE Held == op[u].pc \in {"run", "removed", "sleep"} /\ lock[op[u].front] = u
           Same == op'[u] = op[u]
<1>0. Same => Held /\ op[u].front \in Fronts
  BY DEF Ops
\* Only the thread itself, or nobody, changes the lock of the front it works on.
<1>1. ASSUME NEW t \in Threads, NEW f \in Fronts, NEW b \in {"STOPPED", "STARTING"},
             Restart(t, f, b)
      PROVE  lock'[op'[u].front] = u
  <2>1. CASE u = t
    BY <1>1, <2>1 DEF Restart
  <2>2. CASE u # t
    BY <1>0, <1>1, <2>2 DEF Restart, Unlocked
  <2> QED
    BY <2>1, <2>2
<1>2. ASSUME NEW t \in Threads, RemoveContainer(t) \/ RunContainer(t)
      PROVE  lock'[op'[u].front] = u
  <2>1. CASE u = t
    <3>1. op'[u].front = op[u].front
      BY <1>2, <2>1 DEF RemoveContainer, RunContainer, Ops
    <3> QED
      BY <1>2, <2>1, <3>1 DEF RemoveContainer, RunContainer
  <2>2. CASE u # t
    BY <1>0, <1>2, <2>2 DEF RemoveContainer, RunContainer
  <2> QED
    BY <2>1, <2>2
<1>3. ASSUME NEW t \in Threads, RestartThrows(t) \/ RestartCommits(t)
      PROVE  lock'[op'[u].front] = u
  <2>1. u # t
    BY <1>3 DEF RestartThrows, RestartCommits, NoOp
  <2>2. lock[op[t].front] = t
    BY <1>3 DEF RestartThrows, RestartCommits
  <2> QED
    BY <1>0, <1>3, <2>1, <2>2 DEF RestartThrows, RestartCommits
<1>4. ASSUME NEW t \in Threads, CheckPorts(t) \/ CheckThrows(t) \/ CheckWrites(t)
      PROVE  lock'[op'[u].front] = u
  BY <1>0, <1>4 DEF CheckPorts, CheckThrows, CheckWrites
<1>5. ASSUME NEW t \in Threads, NEW f \in Fronts, StopNode(t, f) \/ StopThrows(t, f)
      PROVE  lock'[op'[u].front] = u
  BY <1>0, <1>5 DEF StopNode, StopThrows
<1>6. ASSUME NEW t \in Threads, StopCommits(t)
      PROVE  lock'[op'[u].front] = u
  BY <1>0, <1>6 DEF StopCommits, NoOp
<1>7. CASE RefreshStarts \/ RefreshAsks
  BY <1>0, <1>7 DEF RefreshStarts, RefreshAsks
<1>8. CASE RefreshNext
  BY <1>0, <1>8 DEF RefreshNext, Unlocked
<1>9. CASE RefreshEnds
  BY <1>0, <1>9 DEF RefreshEnds
<1>10. ASSUME NEW f \in Fronts, Die(f) PROVE lock'[op'[u].front] = u
  BY <1>0, <1>10 DEF Die
<1>11. ASSUME NEW f \in Fronts, RequestEnds(f) PROVE lock'[op'[u].front] = u
  BY <1>0, <1>11 DEF RequestEnds
<1>12. CASE RequestWrites
  BY <1>0, <1>12 DEF RequestWrites
<1>13. CASE UNCHANGED vars
  BY <1>0, <1>13 DEF vars
<1> QED
  BY <1>1, <1>2, <1>3, <1>4, <1>5, <1>6, <1>7, <1>8, <1>9, <1>10, <1>11, <1>12, <1>13
     DEF Next, Asks, Goes, Refresh

\* Two restarts of one front never recreate its container at the same time, and a
\* refresh does not write its row meanwhile (FrontService.restart writes the status
\* "before" first, in the transaction that runs the container).
THEOREM RestartsAreExclusive == Spec => []RestartsExclude
BY TypeInit, RefreshAtInit, TypeNext, ExcludeInit, ExcludeNext, PTL DEF Spec
=============================================================================
