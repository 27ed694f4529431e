-------------------------- MODULE NodeWatchProofs --------------------------
(***************************************************************************)
(* Theorems of NodeWatch, for any number of nodes and fronts.              *)
(***************************************************************************)
EXTENDS NodeWatch, TLAPS

LEMMA IdleType == Old \in Marks /\ Idle \in Passes /\ \A c : EndOfPass(c) \in Passes
<1>1. Old \in Marks /\ 1 \in Nodes
  BY NodeWatchAssumption DEF Old, Marks, Nodes
<1>2. Idle \in Passes
  BY <1>1 DEF Idle, Passes, Verdicts
<1>3. [Idle EXCEPT !.step = "alert"] \in Passes
  BY <1>2 DEF Passes
<1> QED
  BY <1>1, <1>2, <1>3 DEF EndOfPass

\* What a check has read of a row is left behind, or changes.
LEMMA RowsType ==
    ASSUME NEW p \in Passes, NEW n, NEW m \in Marks
    PROVE  [p EXCEPT !.rows[n] = m] \in Passes
<1>1. [p.rows EXCEPT ![n] = m] \in [Nodes -> Marks]
  BY DEF Passes
<1>2. [p EXCEPT !.rows[n] = m] = [p EXCEPT !.rows = [p.rows EXCEPT ![n] = m]]
  BY DEF Passes
<1> QED
  BY <1>1, <1>2 DEF Passes

\* A check never goes past the last row.
LEMMA AfterRowType ==
    ASSUME NEW p \in Passes, NEW c
    PROVE  AfterRow(c, p) \in Passes
<1>1. CASE p.at = N
  BY <1>1, IdleType DEF AfterRow
<1>2. CASE p.at # N
  <2>1. p.at + 1 \in Nodes
    BY <1>2, NodeWatchAssumption DEF Passes, Nodes
  <2>2. [p.rows EXCEPT ![p.at] = Old] \in [Nodes -> Marks]
    BY IdleType DEF Passes
  <2>3. AfterRow(c, p) = [p EXCEPT !.at = p.at + 1, !.step = "check", !.said = "NORMAL",
                                   !.rows = [p.rows EXCEPT ![p.at] = Old]]
    BY <1>2 DEF AfterRow, Passes
  <2> QED
    BY <2>1, <2>2, <2>3 DEF Passes, Verdicts
<1> QED
  BY <1>1, <1>2

LEMMA ShiftedType == ASSUME NEW m \in Marks PROVE Shifted(m) \in Marks
BY DEF Shifted, Marks

LEMMA ShiftType ==
    ASSUME TypeOK, NEW n \in Nodes, Shift(n)
    PROVE  mark' \in [Nodes -> Marks] /\ pass' \in [Checkers -> Passes]
<1>1. mark' \in [Nodes -> Marks]
  BY ShiftedType DEF TypeOK, Shift
<1>2. ASSUME NEW c \in Checkers
      PROVE  [pass[c] EXCEPT !.rows[n] = Shifted(@)] \in Passes
  <2>1. pass[c] \in Passes
    BY DEF TypeOK
  <2>2. Shifted(pass[c].rows[n]) \in Marks
    BY <2>1, ShiftedType DEF Passes
  <2>3. [pass[c] EXCEPT !.rows[n] = Shifted(pass[c].rows[n])] \in Passes
    BY <2>1, <2>2, RowsType
  <2> QED
    BY <2>1, <2>3 DEF Passes
<1> QED
  BY <1>1, <1>2 DEF TypeOK, Shift

LEMMA WatchInit == Init => TypeOK
<1> SUFFICES ASSUME Init PROVE TypeOK
    OBVIOUS
<1>1. mark \in [Nodes -> Marks]
  BY DEF Init, Old, Marks
<1> QED
  BY <1>1, IdleType DEF Init, TypeOK, Verdicts

\* The chain, the clock and the requests to fronts.
LEMMA WatchOthers ==
    ASSUME TypeOK, NEW n \in Nodes,
           \/ Move(n) \/ StopOrStart(n) \/ RowAges(n) \/ Request(n) \/ MarkDown(n)
           \/ AlertAges \/ Mail \/ NothingToMail \/ AlertFails \/ MailLost
    PROVE  TypeOK'
<1>1. CASE Move(n)
  BY <1>1, ShiftType DEF Move, TypeOK
<1>2. CASE StopOrStart(n)
  BY <1>2, ShiftType DEF StopOrStart, TypeOK
<1>3. CASE RowAges(n) \/ MarkDown(n)
  <2>1. ASSUME NEW a \in {"fresh", "old"}
        PROVE  [mark EXCEPT ![n].age = a] \in [Nodes -> Marks]
    BY DEF TypeOK, Marks
  <2>2. CASE RowAges(n)
    BY <2>1, <2>2 DEF RowAges, TypeOK
  <2>3. CASE MarkDown(n)
    BY <2>1, <2>3 DEF MarkDown, TypeOK
  <2> QED
    BY <1>3, <2>2, <2>3
<1>4. CASE Request(n)
  BY <1>4 DEF Request, TypeOK
<1>5. CASE AlertAges
  BY <1>5 DEF AlertAges, TypeOK
<1>6. CASE Mail \/ NothingToMail \/ AlertFails \/ MailLost
  <2>1. recent' \in BOOLEAN
    BY <1>6 DEF Mail, NothingToMail, AlertFails, MailLost, TypeOK
  <2> QED
    BY <1>6, <2>1, IdleType DEF Mail, NothingToMail, AlertFails, MailLost, TypeOK
<1> QED
  BY <1>1, <1>2, <1>3, <1>4, <1>5, <1>6

\* The checks.
LEMMA WatchChecks ==
    ASSUME TypeOK, NEW c \in Checkers,
           \/ Begin(c) \/ JumpOver(c) \/ FrontFollows(c) \/ Breaks(c)
           \/ \E n \in Nodes : Check(c, n)
    PROVE  TypeOK'
<1>0. pass[c] \in Passes
  BY DEF TypeOK
<1>1. CASE Begin(c)
  <2>1. [Idle EXCEPT !.step = "check", !.rows = mark] \in Passes
    BY IdleType DEF Passes, TypeOK
  <2> QED
    BY <1>1, <2>1 DEF Begin, TypeOK
<1>2. CASE JumpOver(c) \/ Breaks(c)
  BY <1>2, IdleType DEF JumpOver, Breaks, TypeOK
<1>3. CASE FrontFollows(c)
  BY <1>0, <1>3, AfterRowType DEF FrontFollows, TypeOK
<1>4. ASSUME NEW n \in Nodes, Check(c, n) PROVE TypeOK'
  <2> DEFINE said == Verdict(n, pass[c].rows[n].same)
  <2>1. /\ active' = [active EXCEPT ![n] = said]
        /\ mark' = [mark EXCEPT ![n] = [age |-> "fresh", same |-> TRUE]]
        /\ pass' = [pass EXCEPT ![c] =
                      IF n \in Fronts
                      THEN [pass[c] EXCEPT !.step = "front", !.said = said,
                                           !.rows[n] = Old]
                      ELSE AfterRow(c, pass[c])]
    BY <1>4 DEF Check, TypeOK
  <2>2. said \in Verdicts
    BY DEF Verdict, Verdicts
  <2>3. active' \in [Nodes -> Verdicts \cup {"DOWN"}]
    BY <2>1, <2>2 DEF TypeOK
  <2>4. mark' \in [Nodes -> Marks]
    BY <2>1 DEF TypeOK, Marks
  <2>5. [pass[c] EXCEPT !.step = "front", !.said = said, !.rows[n] = Old] \in Passes
    <3>1. [pass[c] EXCEPT !.step = "front", !.said = said] \in Passes
      BY <1>0, <2>2 DEF Passes
    <3>2. [[pass[c] EXCEPT !.step = "front", !.said = said] EXCEPT !.rows[n] = Old] \in Passes
      BY <3>1, RowsType, IdleType
    <3> QED
      BY <1>0, <3>2 DEF Passes
  <2>6. pass' \in [Checkers -> Passes]
    BY <1>0, <2>1, <2>5, AfterRowType DEF TypeOK
  <2>7. UNCHANGED <<role, alive, front, recent>>
    BY <1>4 DEF Check
  <2> QED
    BY <2>3, <2>4, <2>6, <2>7 DEF TypeOK
<1> QED
  BY <1>1, <1>2, <1>3, <1>4

\* Rows, fronts and checks have their types: a check never goes past the last
\* row of the list it has read.
THEOREM WatchTypeCorrect == Spec => []TypeOK
<1>1. Init => TypeOK
  BY WatchInit
<1>2. TypeOK /\ [Next]_vars => TypeOK'
  <2> SUFFICES ASSUME TypeOK, [Next]_vars PROVE TypeOK'
      OBVIOUS
  <2>1. 1 \in Nodes
    BY NodeWatchAssumption DEF Nodes
  <2>2. CASE Next
    BY <2>1, <2>2, WatchOthers, WatchChecks DEF Next
  <2>3. CASE UNCHANGED vars
    BY <2>3 DEF vars, TypeOK
  <2> QED
    BY <2>2, <2>3
<1> QED
  BY <1>1, <1>2, PTL DEF Spec
=============================================================================
