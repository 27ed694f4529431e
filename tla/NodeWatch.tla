----------------------------- MODULE NodeWatch -----------------------------
(***************************************************************************)
(* Whether a node of a group is alive: the rows of tb_node, the checks     *)
(* that compare each row with what the chain reports                       *)
(* (NodeService.checkAndUpdateNodeStatus), the requests to fronts that     *)
(* change the same rows (FrontRestTools.restTemplateExchange), and the     *)
(* monitor that mails when a node is invalid (NodeStatusMonitorTask).      *)
(* Checks overlap: any page of the node list runs one, and so does the     *)
(* monitor.                                                                *)
(*                                                                         *)
(* A block height is not a number here but a flag, `same': the chain still *)
(* reports for the node what the row holds.  A modify_time is not a clock  *)
(* reading but an age: "fresh" after a write, "old" once the interval of   *)
(* the check has passed.  What is assumed of the chain is that within that *)
(* interval a sealer that is alive imports a block or, while the chain is  *)
(* idle, changes its view, and that an observer that is alive imports a    *)
(* block or is at the height of the chain.  A row is read from the chain   *)
(* and updated in one step; the row of its front follows in a later one.   *)
(***************************************************************************)
EXTENDS Naturals

CONSTANTS
    N,        \* number of nodes of the group; rows are read in the order 1..N
    Fronts,   \* the nodes that have a row in tb_front
    Roles     \* what the chain may say the nodes are, as [node -> role]

Nodes == 1..N
Role == {"sealer", "observer", "remove"}

ASSUMPTION NodeWatchAssumption ==
    N \in Nat \ {0} /\ Fronts \subseteq Nodes /\ Roles \subseteq [Nodes -> Role]

VARIABLES
    role,     \* what each node is in the group; no step changes it
    alive,    \* which nodes run
    active,   \* tb_node.node_active: DataStatus NORMAL, INVALID or DOWN
    mark,     \* tb_node's block_number, pbft_view and modify_time, as [age, same]
    front,    \* tb_front.status of the nodes that have a front
    pass,     \* the checks under way, and what each has read
    recent    \* tb_alert_rule.last_alert_time is within alert_interval_seconds

vars == <<role, alive, active, mark, front, pass, recent>>

Checkers == {"page", "task"}
Marks == [age : {"fresh", "old"}, same : BOOLEAN]
Old == [age |-> "old", same |-> TRUE]
Verdicts == {"NORMAL", "INVALID"}

\* A check: the node it is at, what it does there, and the rows it has read.
Passes == [at   : Nodes,
           step : {"idle", "check", "front", "alert"},
           said : Verdicts,
           rows : [Nodes -> Marks]]
Idle == [at |-> 1, step |-> "idle", said |-> "NORMAL", rows |-> [n \in Nodes |-> Old]]

(***************************************************************************)
(* Types and initial states: the rows have just been added with height 0,  *)
(* and a row never updated is checked at once, like an old one.            *)
(***************************************************************************)
TypeOK ==
    /\ role \in Roles
    /\ alive \in [Nodes -> BOOLEAN]
    /\ active \in [Nodes -> Verdicts \cup {"DOWN"}]
    /\ mark \in [Nodes -> Marks]
    /\ front \in [Fronts -> {"RUNNING", "STOPPED"}]
    /\ pass \in [Checkers -> Passes]
    /\ recent \in BOOLEAN

Init ==
    /\ role \in Roles
    /\ alive \in [Nodes -> BOOLEAN]
    /\ active = [n \in Nodes |-> "INVALID"]
    /\ mark = [n \in Nodes |-> [Old EXCEPT !.same = ~alive[n]]]
    /\ front = [n \in Fronts |-> "RUNNING"]
    /\ pass = [c \in Checkers |-> Idle]
    /\ recent = FALSE

(***************************************************************************)
(* The chain and the clock.                                                *)
(***************************************************************************)
\* What the chain reports for the node is no longer what was recorded: neither
\* in its row nor in what a check has read of the row and not compared yet.
Shifted(m) == [m EXCEPT !.same = FALSE]

ToCompare(p, n) ==
    \/ p.step = "check" /\ n >= p.at
    \/ p.step = "front" /\ n > p.at

Shift(n) ==
    /\ mark' = [mark EXCEPT ![n] = Shifted(@)]
    /\ pass' = [c \in Checkers |->
                  IF ToCompare(pass[c], n)
                  THEN [pass[c] EXCEPT !.rows[n] = Shifted(@)]
                  ELSE pass[c]]

\* A node that is alive imports a block, or changes its view.
Move(n) ==
    /\ alive[n]
    /\ Shift(n)
    /\ UNCHANGED <<role, alive, active, front, recent>>

\* A node stops, and leaves the list of peers, so that its height reads 0; or
\* it comes back, and its height reads again.
StopOrStart(n) ==
    /\ alive' = [alive EXCEPT ![n] = ~@]
    /\ Shift(n)
    /\ UNCHANGED <<role, active, front, recent>>

\* A row may be an interval old: if the node is a sealer alive, it has moved.
CanBeOld(n, m) == role[n] = "sealer" /\ alive[n] => ~m.same

RowAges(n) ==
    /\ mark[n].age # "old"
    /\ CanBeOld(n, mark[n])
    /\ mark' = [mark EXCEPT ![n].age = "old"]
    /\ UNCHANGED <<role, alive, active, front, pass, recent>>

AlertAges ==
    /\ recent
    /\ recent' = FALSE
    /\ UNCHANGED <<role, alive, active, mark, front, pass>>

(***************************************************************************)
(* One check of the group.                                                 *)
(***************************************************************************)
\* Mutant of EndOfPass: the monitor leaves with the check.
EndOfPassUnseen(c) == Idle

\* After the loop: the monitor looks at the rows, a page is done.
EndOfPass(c) == IF c = "task" THEN [Idle EXCEPT !.step = "alert"] ELSE Idle

\* Mutant of AfterRow: no end of the list.
AfterRowPastEnd(c, p) ==
    [p EXCEPT !.at = @ + 1, !.step = "check", !.said = "NORMAL", !.rows[p.at] = Old]

\* The row is done: the next one, with nothing left of the rows behind.
AfterRow(c, p) ==
    IF p.at = N
    THEN EndOfPass(c)
    ELSE [p EXCEPT !.at = @ + 1, !.step = "check", !.said = "NORMAL", !.rows[p.at] = Old]

\* The rows are read, then the consensus status and the observers.  The
\* monitor first checks that the last mail is an alert interval away.
Begin(c) ==
    /\ pass[c].step = "idle"
    /\ c = "task" => ~recent
    /\ pass' = [pass EXCEPT ![c] = [Idle EXCEPT !.step = "check", !.rows = mark]]
    /\ UNCHANGED <<role, alive, active, mark, front, recent>>

\* The row read was updated less than an interval ago: the whole check ends.
JumpOver(c) ==
    /\ pass[c].step = "check"
    /\ pass[c].rows[pass[c].at].age # "old"
    /\ pass' = [pass EXCEPT ![c] = EndOfPass(c)]
    /\ UNCHANGED <<role, alive, active, mark, front, recent>>

\* Mutant of Verdict: an observer is not compared with the height of the chain.
VerdictOfSealers(n, same) ==
    IF same /\ role[n] # "observer" THEN "INVALID" ELSE "NORMAL"

\* INVALID when the row read says what the chain still says, and no observer is
\* excused for being at the height of the chain.
Verdict(n, same) ==
    IF same /\ ~(role[n] = "observer" /\ alive[n]) THEN "INVALID" ELSE "NORMAL"

\* Mutant of Due: the interval is not looked at.
DueAlways(n, read) == TRUE

\* The row read is an interval old by the time its turn comes.
Due(n, read) == CanBeOld(n, read)

\* The row is compared with the chain and updated: what it then holds is what the
\* chain reports, stored anew (NORMAL) or found unchanged (INVALID).
Check(c, n) ==
    /\ pass[c].step = "check" /\ pass[c].at = n
    /\ LET read == pass[c].rows[n]
           said == Verdict(n, read.same) IN
       /\ Due(n, read)
       /\ active' = [active EXCEPT ![n] = said]
       /\ mark' = [mark EXCEPT ![n] = [age |-> "fresh", same |-> TRUE]]
       /\ pass' = [pass EXCEPT ![c] =
                     IF n \in Fronts
                     THEN [@ EXCEPT !.step = "front", !.said = said, !.rows[n] = Old]
                     ELSE AfterRow(c, @)]
    /\ UNCHANGED <<role, alive, front, recent>>

\* The row of the node's front follows the verdict.
FrontFollows(c) ==
    /\ pass[c].step = "front"
    /\ front' = [front EXCEPT ![pass[c].at] =
                   IF pass[c].said = "NORMAL" THEN "RUNNING" ELSE "STOPPED"]
    /\ pass' = [pass EXCEPT ![c] = AfterRow(c, @)]
    /\ UNCHANGED <<role, alive, active, mark, recent>>

\* The consensus status or the observers cannot be read after all, or a later
\* request of the check or its update of a row fails: the monitor catches the
\* failure and still looks at the rows.
Breaks(c) ==
    /\ pass[c].step = "check"
    /\ pass' = [pass EXCEPT ![c] = EndOfPass(c)]
    /\ UNCHANGED <<role, alive, active, mark, front, recent>>

(***************************************************************************)
(* The other writers.                                                      *)
(***************************************************************************)
\* A request to the front is answered, or the front is not reached: its row says
\* so, unless it was written a moment ago (updateFrontWithInternal).
Request(n) ==
    /\ n \in Fronts
    /\ \E status \in {"RUNNING", "STOPPED"} : front' = [front EXCEPT ![n] = status]
    /\ UNCHANGED <<role, alive, active, mark, pass, recent>>

\* The answer is "node is down": besides, the rows of the front's node are written
\* back with DOWN, and with a new modify_time.
MarkDown(n) ==
    /\ n \in Fronts
    /\ \E status \in {front[n], "STOPPED"} : front' = [front EXCEPT ![n] = status]
    /\ active' = [active EXCEPT ![n] = "DOWN"]
    /\ mark' = [mark EXCEPT ![n].age = "fresh"]
    /\ UNCHANGED <<role, alive, pass, recent>>

\* A node the monitor mails about (isNodeInvalid): INVALID, and not out of the
\* group (checkAbnormalNodeIsNotRemove).
Abnormal(n) == active[n] = "INVALID" /\ role[n] # "remove"

\* The mail goes out, and the rule's last_alert_time is set.
Mail ==
    /\ pass["task"].step = "alert"
    /\ \E n \in Nodes : Abnormal(n)
    /\ recent' = TRUE
    /\ pass' = [pass EXCEPT !["task"] = Idle]
    /\ UNCHANGED <<role, alive, active, mark, front>>

\* Nothing is wrong.
NothingToMail ==
    /\ pass["task"].step = "alert"
    /\ \A n \in Nodes : ~Abnormal(n)
    /\ pass' = [pass EXCEPT !["task"] = Idle]
    /\ UNCHANGED <<role, alive, active, mark, front, recent>>

\* The front does not tell which nodes are out of the group, or the mail to all
\* users fails: the exception ends the run before last_alert_time is set.
AlertFails ==
    /\ pass["task"].step = "alert"
    /\ \E n \in Nodes : active[n] = "INVALID"
    /\ pass' = [pass EXCEPT !["task"] = Idle]
    /\ UNCHANGED <<role, alive, active, mark, front, recent>>

\* The mail to a list of users fails: handleAllUserEmail swallows that, and
\* last_alert_time is set although nothing was sent.
MailLost ==
    /\ pass["task"].step = "alert"
    /\ \E n \in Nodes : Abnormal(n)
    /\ recent' = TRUE
    /\ pass' = [pass EXCEPT !["task"] = Idle]
    /\ UNCHANGED <<role, alive, active, mark, front>>

Next ==
    \/ \E n \in Nodes :
          Move(n) \/ StopOrStart(n) \/ RowAges(n) \/ Request(n) \/ MarkDown(n)
    \/ AlertAges \/ Mail \/ NothingToMail \/ AlertFails \/ MailLost
    \/ \E c \in Checkers : Begin(c) \/ JumpOver(c) \/ FrontFollows(c) \/ Breaks(c)
    \/ \E c \in Checkers, n \in Nodes : Check(c, n)

Spec == Init /\ [][Next]_vars

\* A check under way goes on.
Goes(c) ==
    \/ JumpOver(c) \/ FrontFollows(c) \/ Breaks(c)
    \/ \E n \in Nodes : Check(c, n)
    \/ c = "task" /\ (Mail \/ NothingToMail \/ AlertFails \/ MailLost)

\* A row that was an interval old when it was read is compared, whoever does it:
\* only a failure keeps a check from that.
Compares(n) == \E c \in Checkers : pass[c].rows[n].age = "old" /\ Check(c, n)

\* Time passes, sealers that are alive move, the monitor's fixed-delay schedule
\* runs, the requests to the chain do not fail for ever, and a mail that is tried
\* again and again is sent at last.
Fairness ==
    /\ \A n \in Nodes : /\ WF_vars(role[n] = "sealer" /\ Move(n))
                        /\ WF_vars(RowAges(n))
                        /\ SF_vars(Compares(n))
    /\ WF_vars(AlertAges)
    /\ WF_vars(Begin("task"))
    /\ \A c \in Checkers : WF_vars(Goes(c))
    /\ SF_vars(Mail)

FairSpec == Spec /\ Fairness

(***************************************************************************)
(* Properties.                                                             *)
(***************************************************************************)
\* Requests to the front of a node ahead of n in the list are answered "node is
\* down" again and again.  Each answer makes that row young, and a check gives up
\* at the first row that is young, so it may never come to n.
HiddenByOthers(n) == \E m \in 1..(n - 1) : []<><<MarkDown(m)>>_vars

\* The same, or n's own row is written back with DOWN again and again.
Hidden(n) == \E m \in 1..n : []<><<MarkDown(m)>>_vars

\* A node that has stopped for good is found: its row is from some point on never
\* NORMAL again, whatever late check of a page still holds, and its front is put
\* to STOPPED again whenever a request has been answered.
DeadIsFound ==
    \A n \in Nodes :
        <>[](~alive[n]) =>
            /\ <>[](active[n] # "NORMAL") \/ HiddenByOthers(n)
            /\ n \in Fronts => []<>(front[n] = "STOPPED") \/ Hidden(n)

\* A node of the group that stays alive is from some point on never INVALID,
\* however the checks that compare its row overlap, and its front is put to
\* RUNNING again whenever a request has failed.
AliveIsCleared ==
    \A n \in Nodes :
        <>[](alive[n] /\ role[n] # "remove") =>
            /\ <>[](active[n] # "INVALID") \/ HiddenByOthers(n)
            /\ n \in Fronts => []<>(front[n] = "RUNNING") \/ Hidden(n)

\* A mail about a node of the group that has stopped for good is sent again and
\* again, although alerts fail, are lost and are kept back by those about other
\* nodes; unless DOWN, which the monitor takes for sound, is written to its row,
\* or to one ahead of it, again and again.
DeadIsMailed ==
    \A n \in Nodes :
        <>[](~alive[n] /\ role[n] # "remove") =>
            []<><<Mail /\ Abnormal(n)>>_vars \/ Hidden(n)

=============================================================================
