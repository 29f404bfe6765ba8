--------------------------- MODULE OracleXAProofs ---------------------------
(***************************************************************************)
(* An in-doubt branch is never lost, for every value of the constants and   *)
(* so for any number of crashes and faults: IndInv of OracleXA is           *)
(* inductive.  First the types: lemmas on the operators and one lemma per   *)
(* action.  Then the ownership discipline: a step changes what concerns one *)
(* branch, and the three frame lemmas say what it has to establish for that *)
(* branch alone when it is taken by a connection, by a thread of the        *)
(* recovery manager or at startup; one lemma per action establishes it.     *)
(***************************************************************************)
EXTENDS OracleXA, TLAPS

\* The states a row may be in.
LEMMA StateFacts ==
    /\ {"ACTIVE", "PREPARED", "PREPARING", "COMMITTING", "COMMITTING_ONE_PHASE", "ROLLING_BACK",
        "ROLLING_BACK_ACTIVE", "READ_ONLY", "COMMITTED", "ROLLED_BACK", "HEURISTIC_COMMIT",
        "HEURISTIC_ROLLBACK", "HEURISTIC_MIXED", "HEURISTIC_HAZARD"} \subseteq BranchState
    /\ Resolved \cup Heuristic \subseteq BranchState
    /\ "ABSENT" \notin BranchState
  BY DEF BranchState, Intent, OnePhaseIntent, Resolved, Heuristic

\* The fields of an operation in progress.
LEMMA OpFields ==
  ASSUME NEW o \in Op
  PROVE  /\ o.from \in BranchState /\ o.goal \in BranchState
         /\ o.pc = "idle" => o = NoOp
         /\ o.pc # "idle" => o.pc \in OpPc /\ o.b \in Branch
  BY StateFacts DEF Op, OpPc, NoOp, Doing

\* An operation in progress is an Op.
LEMMA DoingType ==
  ASSUME NEW pc \in OpPc, NEW b \in Branch, NEW from \in BranchState, NEW goal \in BranchState
  PROVE  Doing(pc, b, from, goal) \in Op
  BY DEF Doing, Op

\* A connection without an operation.
LEMMA NoOpType == NoOp \in Op /\ NoOp.pc = "idle" /\ NoOp.b = NoBranch
  BY DEF NoOp, Op, Doing

\* The fields of a recovery manager call.
LEMMA TaskFields ==
  ASSUME NEW k \in Task
  PROVE  /\ k.decision \in Decision /\ k.from \in BranchState /\ k.goal \in BranchState
         /\ k.pc = "idle" => k = NoTask
         /\ k.pc # "idle" => k.pc \in TaskPc /\ k.b \in Branch
  BY StateFacts DEF Task, TaskPc, NoTask, Job, Decision

\* A recovery manager call is a Task.
LEMMA JobType ==
  ASSUME NEW pc \in TaskPc, NEW b \in Branch, NEW d \in Decision,
         NEW from \in BranchState, NEW goal \in BranchState
  PROVE  Job(pc, b, d, from, goal) \in Task
  BY DEF Job, Task

\* A thread without a call.
LEMMA NoTaskType == NoTask \in Task /\ NoTask.pc = "idle"
  BY DEF NoTask, Task, Job

\* The outcome of a decision is a state of a row.
LEMMA TerminalOfType == ASSUME NEW d PROVE TerminalOf(d) \in BranchState
  BY StateFacts DEF TerminalOf

\* The announcement of a decision is a state of a row.
LEMMA IntentOfType == ASSUME NEW d PROVE IntentOf(d) \in BranchState
  BY StateFacts DEF IntentOf

\* A journal write stays within the bound on faults.
LEMMA CountType ==
  ASSUME TypeOK, NEW r \in WriteResult, CountWrite(r)
  PROVE  jfaults' \in 0..MaxJournalFaults
<1>1. jfaults \in 0..MaxJournalFaults /\ MaxJournalFaults \in Nat
  BY ConstantsAssumption DEF TypeOK, ConstantsAssumption
<1> QED
  BY <1>1 DEF CountWrite, WriteResult

\* A compare-and-set keeps the types.
LEMMA WriteType ==
  ASSUME TypeOK, NEW b, NEW from, NEW to \in BranchState, NEW r \in WriteResult,
         Write(b, from, to, r)
  PROVE  /\ jstate' \in [Branch -> BranchState \cup {"ABSENT"}]
         /\ jfaults' \in 0..MaxJournalFaults
<1>1. jstate' \in [Branch -> BranchState \cup {"ABSENT"}]
  BY DEF Write, TypeOK
<1>2. jfaults' \in 0..MaxJournalFaults
  BY CountType DEF Write
<1> QED
  BY <1>1, <1>2

\* A delete keeps the types.
LEMMA DeleteType ==
  ASSUME TypeOK, NEW b, NEW r \in WriteResult, Delete(b, r)
  PROVE  /\ jstate' \in [Branch -> BranchState \cup {"ABSENT"}]
         /\ jconn' \in [Branch -> Conn \cup {NoConn}]
         /\ jfaults' \in 0..MaxJournalFaults
<1>1. jstate' \in [Branch -> BranchState \cup {"ABSENT"}]
  BY DEF Delete, TypeOK
<1>2. jconn' \in [Branch -> Conn \cup {NoConn}]
  BY DEF Delete, TypeOK
<1>3. jfaults' \in 0..MaxJournalFaults
  BY CountType DEF Delete
<1> QED
  BY <1>1, <1>2, <1>3

\* A failed XA call stays within the bound on faults.
LEMMA XaFaultType ==
  ASSUME TypeOK, XaFault
  PROVE  xfaults' \in 0..MaxXaFaults
<1>1. xfaults \in 0..MaxXaFaults /\ MaxXaFaults \in Nat
  BY ConstantsAssumption DEF TypeOK, ConstantsAssumption
<1> QED
  BY <1>1 DEF XaFault

\* What the reconciliation records is a state of a row.
LEMMA ReconcileGoalType ==
  ASSUME NEW s \in BranchState \cup {"ABSENT"}, NEW p \in BOOLEAN,
         ReconcileGoal(s, p) # s, ReconcileGoal(s, p) # "xa"
  PROVE  s \in BranchState /\ ReconcileGoal(s, p) \in BranchState
  BY StateFacts DEF ReconcileGoal

\* OpenConnection keeps the types.
LEMMA OpenConnectionType ==
  ASSUME TypeOK, NEW c \in Conn, OpenConnection(c)
  PROVE  TypeOK'
<1>1. status' \in [Conn -> {"new", "open", "closed"}]
  BY DEF OpenConnection, TypeOK
<1>2. UNCHANGED <<jstate, jconn, db, applied, inTransaction, active, op, task, phase, scan, todo,
               crashes, xfaults, jfaults, asked, told, promised, forgotten>>
  BY DEF OpenConnection, journalVars, dbVars, connVars, startVars, history
<1> QED
  BY <1>1, <1>2 DEF TypeOK

\* BeginTransaction keeps the types.
LEMMA BeginTransactionType ==
  ASSUME TypeOK, NEW c \in Conn, BeginTransaction(c)
  PROVE  TypeOK'
<1>1. inTransaction' \subseteq Conn
  BY DEF BeginTransaction, TypeOK
<1>2. UNCHANGED <<jstate, jconn, db, applied, status, active, op, task, phase, scan, todo, crashes,
               xfaults, jfaults, asked, told, promised, forgotten>>
  BY DEF BeginTransaction, journalVars, dbVars, connVars, startVars, history
<1> QED
  BY <1>1, <1>2 DEF TypeOK

\* FinishTransaction keeps the types.
LEMMA FinishTransactionType ==
  ASSUME TypeOK, NEW c \in Conn, FinishTransaction(c)
  PROVE  TypeOK'
<1>1. status' \in [Conn -> {"new", "open", "closed"}]
  BY DEF FinishTransaction, TypeOK
<1>2. inTransaction' \subseteq Conn
  BY DEF FinishTransaction, TypeOK
<1>3. xfaults' \in 0..MaxXaFaults
  BY XaFaultType DEF FinishTransaction, TypeOK
<1>4. UNCHANGED <<jstate, jconn, db, applied, active, op, task, phase, scan, todo, crashes,
               jfaults, asked, told, promised, forgotten>>
  BY DEF FinishTransaction, journalVars, dbVars, connVars, startVars, history
<1> QED
  BY <1>1, <1>2, <1>3, <1>4 DEF TypeOK

\* BeginInsert keeps the types.
LEMMA BeginInsertType ==
  ASSUME TypeOK, NEW c \in Conn, NEW b \in Branch, BeginInsert(c, b)
  PROVE  TypeOK'
<1>1. jstate' \in [Branch -> BranchState \cup {"ABSENT"}]
  BY StateFacts DEF BeginInsert, TypeOK
<1>2. jconn' \in [Branch -> Conn \cup {NoConn}]
  BY DEF BeginInsert, TypeOK
<1>3. jfaults' \in 0..MaxJournalFaults
  BY CountType DEF BeginInsert, TypeOK
<1>4. op' \in [Conn -> Op]
  BY DoingType, StateFacts DEF BeginInsert, TypeOK, OpPc
<1>5. UNCHANGED <<db, applied, status, inTransaction, active, task, phase, scan, todo, crashes,
               xfaults, asked, told, promised, forgotten>>
  BY DEF BeginInsert, journalVars, dbVars, connVars, startVars, history
<1> QED
  BY <1>1, <1>2, <1>3, <1>4, <1>5 DEF TypeOK

\* BeginStart keeps the types.
LEMMA BeginStartType ==
  ASSUME TypeOK, NEW c \in Conn, BeginStart(c)
  PROVE  TypeOK'
<1>1. op[c].b \in Branch /\ op[c].from \in BranchState /\ op[c].goal \in BranchState
  BY OpFields DEF TypeOK, Busy, BeginStart
<1>2. db' \in [Branch -> DbState]
  BY <1>1 DEF BeginStart, TypeOK, DbState
<1>3. active' \in [Conn -> Branch \cup {NoBranch}]
  BY <1>1 DEF BeginStart, TypeOK
<1>4. op' \in [Conn -> Op]
  BY <1>1, DoingType, NoOpType, StateFacts DEF BeginStart, TypeOK, OpPc
<1>5. xfaults' \in 0..MaxXaFaults
  BY <1>1, XaFaultType DEF BeginStart, TypeOK
<1>6. UNCHANGED <<jstate, jconn, applied, status, inTransaction, task, phase, scan, todo, crashes,
               jfaults, asked, told, promised, forgotten>>
  BY DEF BeginStart, journalVars, dbVars, connVars, startVars, history
<1> QED
  BY <1>1, <1>2, <1>3, <1>4, <1>5, <1>6 DEF TypeOK

\* BeginUndo keeps the types.
LEMMA BeginUndoType ==
  ASSUME TypeOK, NEW c \in Conn, BeginUndo(c)
  PROVE  TypeOK'
<1>1. jstate' \in [Branch -> BranchState \cup {"ABSENT"}]
  BY DeleteType DEF BeginUndo, TypeOK
<1>2. jconn' \in [Branch -> Conn \cup {NoConn}]
  BY DeleteType DEF BeginUndo, TypeOK
<1>3. jfaults' \in 0..MaxJournalFaults
  BY DeleteType DEF BeginUndo, TypeOK
<1>4. op' \in [Conn -> Op]
  BY NoOpType DEF BeginUndo, TypeOK
<1>5. UNCHANGED <<db, applied, status, inTransaction, active, task, phase, scan, todo, crashes,
               xfaults, asked, told, promised, forgotten>>
  BY DEF BeginUndo, journalVars, dbVars, connVars, startVars, history
<1> QED
  BY <1>1, <1>2, <1>3, <1>4, <1>5 DEF TypeOK

\* PrepareAgain keeps the types.
LEMMA PrepareAgainType ==
  ASSUME TypeOK, NEW c \in Conn, NEW b \in Branch, PrepareAgain(c, b)
  PROVE  TypeOK'
<1>1. promised' \subseteq Branch
  BY DEF PrepareAgain, TypeOK
<1>2. UNCHANGED <<jstate, jconn, db, applied, status, inTransaction, active, op, task, phase, scan,
               todo, crashes, xfaults, jfaults, asked, told, forgotten>>
  BY DEF PrepareAgain, journalVars, dbVars, connVars, startVars, history
<1> QED
  BY <1>1, <1>2 DEF TypeOK

\* PrepareIntent keeps the types.
LEMMA PrepareIntentType ==
  ASSUME TypeOK, NEW c \in Conn, NEW b \in Branch, PrepareIntent(c, b)
  PROVE  TypeOK'
<1>1. jstate' \in [Branch -> BranchState \cup {"ABSENT"}]
  BY WriteType, StateFacts DEF PrepareIntent, TypeOK
<1>2. jfaults' \in 0..MaxJournalFaults
  BY WriteType, StateFacts DEF PrepareIntent, TypeOK
<1>3. op' \in [Conn -> Op]
  BY DoingType, StateFacts DEF PrepareIntent, TypeOK, OpPc
<1>4. UNCHANGED <<jconn, db, applied, status, inTransaction, active, task, phase, scan, todo,
               crashes, xfaults, asked, told, promised, forgotten>>
  BY DEF PrepareIntent, journalVars, dbVars, connVars, startVars, history
<1> QED
  BY <1>1, <1>2, <1>3, <1>4 DEF TypeOK

\* PrepareXa keeps the types.
LEMMA PrepareXaType ==
  ASSUME TypeOK, NEW c \in Conn, PrepareXa(c)
  PROVE  TypeOK'
<1>1. op[c].b \in Branch /\ op[c].from \in BranchState /\ op[c].goal \in BranchState
  BY OpFields DEF TypeOK, Busy, PrepareXa
<1>2. db' \in [Branch -> DbState]
  BY <1>1 DEF PrepareXa, TypeOK, DbState
<1>3. status' \in [Conn -> {"new", "open", "closed"}]
  BY <1>1 DEF PrepareXa, TypeOK
<1>4. active' \in [Conn -> Branch \cup {NoBranch}]
  BY <1>1 DEF PrepareXa, TypeOK
<1>5. op' \in [Conn -> Op]
  BY <1>1, DoingType, NoOpType, StateFacts DEF PrepareXa, TypeOK, OpPc
<1>6. xfaults' \in 0..MaxXaFaults
  BY <1>1, XaFaultType DEF PrepareXa, TypeOK
<1>7. UNCHANGED <<jstate, jconn, applied, inTransaction, task, phase, scan, todo, crashes, jfaults,
               asked, told, promised, forgotten>>
  BY DEF PrepareXa, journalVars, dbVars, connVars, startVars, history
<1> QED
  BY <1>1, <1>2, <1>3, <1>4, <1>5, <1>6, <1>7 DEF TypeOK

\* RecordPrepare keeps the types.
LEMMA RecordPrepareType ==
  ASSUME TypeOK, NEW c \in Conn, RecordPrepare(c)
  PROVE  TypeOK'
<1>1. op[c].b \in Branch /\ op[c].from \in BranchState /\ op[c].goal \in BranchState
  BY OpFields DEF TypeOK, Busy, RecordPrepare
<1>2. jstate' \in [Branch -> BranchState \cup {"ABSENT"}]
  BY <1>1, WriteType DEF RecordPrepare, TypeOK
<1>3. jfaults' \in 0..MaxJournalFaults
  BY <1>1, WriteType DEF RecordPrepare, TypeOK
<1>4. promised' \subseteq Branch
  BY <1>1 DEF RecordPrepare, TypeOK
<1>5. op' \in [Conn -> Op]
  BY <1>1, NoOpType DEF RecordPrepare, TypeOK
<1>6. UNCHANGED <<jconn, db, applied, status, inTransaction, active, task, phase, scan, todo,
               crashes, xfaults, asked, told, forgotten>>
  BY DEF RecordPrepare, journalVars, dbVars, connVars, startVars, history
<1> QED
  BY <1>1, <1>2, <1>3, <1>4, <1>5, <1>6 DEF TypeOK

\* ResolveActiveIntent keeps the types.
LEMMA ResolveActiveIntentType ==
  ASSUME TypeOK, NEW c \in Conn, NEW b \in Branch, NEW d \in Decision, ResolveActiveIntent(c, b, d)
  PROVE  TypeOK'
<1>1. jstate' \in [Branch -> BranchState \cup {"ABSENT"}]
  BY WriteType, StateFacts DEF ResolveActiveIntent, TypeOK
<1>2. jfaults' \in 0..MaxJournalFaults
  BY WriteType, StateFacts DEF ResolveActiveIntent, TypeOK
<1>3. asked' \in [Branch -> SUBSET Decision]
  BY DEF ResolveActiveIntent, TypeOK
<1>4. op' \in [Conn -> Op]
  BY DoingType, StateFacts, TerminalOfType DEF ResolveActiveIntent, TypeOK, OpPc
<1>5. UNCHANGED <<jconn, db, applied, status, inTransaction, active, task, phase, scan, todo,
               crashes, xfaults, told, promised, forgotten>>
  BY DEF ResolveActiveIntent, journalVars, dbVars, connVars, startVars, history
<1> QED
  BY <1>1, <1>2, <1>3, <1>4, <1>5 DEF TypeOK

\* ResolveActiveAgain keeps the types.
LEMMA ResolveActiveAgainType ==
  ASSUME TypeOK, NEW c \in Conn, NEW b \in Branch, ResolveActiveAgain(c, b)
  PROVE  TypeOK'
<1>1. told' \in [Branch -> SUBSET BranchState]
  BY StateFacts DEF ResolveActiveAgain, TypeOK, IsTerminal
<1>2. UNCHANGED <<jstate, jconn, db, applied, status, inTransaction, active, op, task, phase, scan,
               todo, crashes, xfaults, jfaults, asked, promised, forgotten>>
  BY DEF ResolveActiveAgain, journalVars, dbVars, connVars, startVars, history
<1> QED
  BY <1>1, <1>2 DEF TypeOK

\* ResolveActiveXa keeps the types.
LEMMA ResolveActiveXaType ==
  ASSUME TypeOK, NEW c \in Conn, ResolveActiveXa(c)
  PROVE  TypeOK'
<1>1. op[c].b \in Branch /\ op[c].from \in BranchState /\ op[c].goal \in BranchState
  BY OpFields DEF TypeOK, Busy, ResolveActiveXa
<1>2. \A g \in BranchState : Doing("recordFailure", op[c].b, op[c].from, g) \in Op
  BY <1>1, DoingType DEF OpPc
<1>3. Doing("recordResolve", op[c].b, op[c].from, op[c].goal) \in Op
  BY <1>1, DoingType DEF OpPc
<1>4. HeuristicOutcomes \subseteq BranchState /\ "HEURISTIC_HAZARD" \in BranchState
  BY StateFacts, ConstantsAssumption DEF ConstantsAssumption
<1>5. db' \in [Branch -> DbState]
  BY <1>1, <1>2, <1>3, <1>4, ConstantsAssumption DEF ResolveActiveXa, TypeOK, DbState, dbVars,
     Heuristic, ConstantsAssumption
<1>6. applied' \subseteq Branch
  BY <1>1, <1>2, <1>3, <1>4 DEF ResolveActiveXa, TypeOK, dbVars
<1>7. active' \in [Conn -> Branch \cup {NoBranch}]
  BY <1>1, <1>2, <1>3, <1>4 DEF ResolveActiveXa, TypeOK
<1>8. op' \in [Conn -> Op]
  BY <1>1, <1>2, <1>3, <1>4 DEF ResolveActiveXa, TypeOK
<1>9. xfaults' \in 0..MaxXaFaults
  BY <1>1, <1>2, <1>3, <1>4, XaFaultType DEF ResolveActiveXa, TypeOK
<1>10. UNCHANGED <<jstate, jconn, status, inTransaction, task, phase, scan, todo, crashes, jfaults,
               asked, told, promised, forgotten>>
  BY DEF ResolveActiveXa, journalVars, dbVars, connVars, startVars, history
<1> QED
  BY <1>1, <1>2, <1>3, <1>4, <1>5, <1>6, <1>7, <1>8, <1>9, <1>10 DEF TypeOK

\* RecordResolve keeps the types.
LEMMA RecordResolveType ==
  ASSUME TypeOK, NEW c \in Conn, RecordResolve(c)
  PROVE  TypeOK'
<1>1. op[c].b \in Branch /\ op[c].from \in BranchState /\ op[c].goal \in BranchState
  BY OpFields DEF TypeOK, Busy, RecordResolve
<1>2. jstate' \in [Branch -> BranchState \cup {"ABSENT"}]
  BY <1>1, WriteType DEF RecordResolve, TypeOK
<1>3. jfaults' \in 0..MaxJournalFaults
  BY <1>1, WriteType DEF RecordResolve, TypeOK
<1>4. active' \in [Conn -> Branch \cup {NoBranch}]
  BY <1>1 DEF RecordResolve, TypeOK
<1>5. op' \in [Conn -> Op]
  BY <1>1, NoOpType DEF RecordResolve, TypeOK
<1>6. told' \in [Branch -> SUBSET BranchState]
  BY <1>1 DEF RecordResolve, TypeOK
<1>7. UNCHANGED <<jconn, db, applied, status, inTransaction, task, phase, scan, todo, crashes,
               xfaults, asked, promised, forgotten>>
  BY DEF RecordResolve, journalVars, dbVars, connVars, startVars, history
<1> QED
  BY <1>1, <1>2, <1>3, <1>4, <1>5, <1>6, <1>7 DEF TypeOK

\* RecordFailure keeps the types.
LEMMA RecordFailureType ==
  ASSUME TypeOK, NEW c \in Conn, RecordFailure(c)
  PROVE  TypeOK'
<1>1. op[c].b \in Branch /\ op[c].from \in BranchState /\ op[c].goal \in BranchState
  BY OpFields DEF TypeOK, Busy, RecordFailure
<1>2. jstate' \in [Branch -> BranchState \cup {"ABSENT"}]
  BY <1>1, WriteType DEF RecordFailure, TypeOK
<1>3. jfaults' \in 0..MaxJournalFaults
  BY <1>1, WriteType DEF RecordFailure, TypeOK
<1>4. status' \in [Conn -> {"new", "open", "closed"}]
  BY <1>1 DEF RecordFailure, TypeOK
<1>5. op' \in [Conn -> Op]
  BY <1>1, NoOpType DEF RecordFailure, TypeOK
<1>6. told' \in [Branch -> SUBSET BranchState]
  BY <1>1 DEF RecordFailure, TypeOK
<1>7. UNCHANGED <<jconn, db, applied, inTransaction, active, task, phase, scan, todo, crashes,
               xfaults, asked, promised, forgotten>>
  BY DEF RecordFailure, journalVars, dbVars, connVars, startVars, history
<1> QED
  BY <1>1, <1>2, <1>3, <1>4, <1>5, <1>6, <1>7 DEF TypeOK

\* CloseIntent keeps the types.
LEMMA CloseIntentType ==
  ASSUME TypeOK, NEW c \in Conn, CloseIntent(c)
  PROVE  TypeOK'
<1>1. jstate' \in [Branch -> BranchState \cup {"ABSENT"}]
  BY WriteType, StateFacts DEF CloseIntent, TypeOK
<1>2. jfaults' \in 0..MaxJournalFaults
  BY WriteType, StateFacts DEF CloseIntent, TypeOK
<1>3. status' \in [Conn -> {"new", "open", "closed"}]
  BY DEF CloseIntent, TypeOK
<1>4. inTransaction' \subseteq Conn
  BY DEF CloseIntent, TypeOK
<1>5. active' \in [Conn -> Branch \cup {NoBranch}]
  BY DEF CloseIntent, TypeOK
<1>6. op' \in [Conn -> Op]
  BY DoingType, StateFacts DEF CloseIntent, TypeOK, OpPc
<1>7. UNCHANGED <<jconn, db, applied, task, phase, scan, todo, crashes, xfaults, asked, told,
               promised, forgotten>>
  BY DEF CloseIntent, journalVars, dbVars, connVars, startVars, history
<1> QED
  BY <1>1, <1>2, <1>3, <1>4, <1>5, <1>6, <1>7 DEF TypeOK

\* CloseXa keeps the types.
LEMMA CloseXaType ==
  ASSUME TypeOK, NEW c \in Conn, CloseXa(c)
  PROVE  TypeOK'
<1>1. op[c].b \in Branch /\ op[c].from \in BranchState /\ op[c].goal \in BranchState
  BY OpFields DEF TypeOK, Busy, CloseXa
<1>2. db' \in [Branch -> DbState]
  BY <1>1 DEF CloseXa, TypeOK, DbState
<1>3. op' \in [Conn -> Op]
  BY <1>1, DoingType, NoOpType DEF CloseXa, TypeOK, OpPc
<1>4. xfaults' \in 0..MaxXaFaults
  BY <1>1, XaFaultType DEF CloseXa, TypeOK
<1>5. UNCHANGED <<jstate, jconn, applied, status, inTransaction, active, task, phase, scan, todo,
               crashes, jfaults, asked, told, promised, forgotten>>
  BY DEF CloseXa, journalVars, dbVars, connVars, startVars, history
<1> QED
  BY <1>1, <1>2, <1>3, <1>4, <1>5 DEF TypeOK

\* RecordClose keeps the types.
LEMMA RecordCloseType ==
  ASSUME TypeOK, NEW c \in Conn, RecordClose(c)
  PROVE  TypeOK'
<1>1. op[c].b \in Branch /\ op[c].from \in BranchState /\ op[c].goal \in BranchState
  BY OpFields DEF TypeOK, Busy, RecordClose
<1>2. jstate' \in [Branch -> BranchState \cup {"ABSENT"}]
  BY <1>1, WriteType DEF RecordClose, TypeOK
<1>3. jfaults' \in 0..MaxJournalFaults
  BY <1>1, WriteType DEF RecordClose, TypeOK
<1>4. op' \in [Conn -> Op]
  BY <1>1, NoOpType DEF RecordClose, TypeOK
<1>5. UNCHANGED <<jconn, db, applied, status, inTransaction, active, task, phase, scan, todo,
               crashes, xfaults, asked, told, promised, forgotten>>
  BY DEF RecordClose, journalVars, dbVars, connVars, startVars, history
<1> QED
  BY <1>1, <1>2, <1>3, <1>4, <1>5 DEF TypeOK

\* CallResolve keeps the types.
LEMMA CallResolveType ==
  ASSUME TypeOK, NEW w \in Worker, NEW b \in Branch, NEW d \in Decision, CallResolve(w, b, d)
  PROVE  TypeOK'
<1>1. task' \in [Thread -> Task]
  BY JobType, StateFacts DEF CallResolve, TypeOK, GoOn, TaskPc, Thread
<1>2. UNCHANGED <<jstate, jconn, db, applied, status, inTransaction, active, op, phase, scan, todo,
               crashes, xfaults, jfaults, asked, told, promised, forgotten>>
  BY DEF CallResolve, journalVars, dbVars, connVars, startVars, history, GoOn, Reply, Throw
<1> QED
  BY <1>1, <1>2 DEF TypeOK

\* ResolveFind keeps the types.
LEMMA ResolveFindType ==
  ASSUME TypeOK, NEW w \in Worker, ResolveFind(w)
  PROVE  TypeOK'
<1>1. task[w].b \in Branch /\ task[w].decision \in Decision /\ task[w].from \in BranchState /\ task[w].goal \in BranchState
  BY TaskFields DEF TypeOK, Thread, At, ResolveFind
<1>2. Job("finishScan", task[w].b, "commit", "COMMITTING", "COMMITTED") \in Task
               /\ Job("finishScan", task[w].b, "rollback", "ROLLING_BACK", "ROLLED_BACK") \in Task
               /\ Job("cas", task[w].b, task[w].decision, "PREPARED", "ACTIVE") \in Task
  BY <1>1, JobType, StateFacts, TerminalOfType, IntentOfType DEF TaskPc, Decision
<1>3. task' \in [Thread -> Task]
  BY <1>1, <1>2, NoTaskType DEF ResolveFind, TypeOK, GoOn, Reply, Throw, Thread
<1>4. told' \in [Branch -> SUBSET BranchState]
  BY <1>1, <1>2, StateFacts DEF ResolveFind, TypeOK, GoOn, Reply, Throw, IsTerminal
<1>5. phase' \in {"down", "starting", "up"}
  BY <1>1, <1>2 DEF ResolveFind, TypeOK, GoOn, Reply, Throw, startVars
<1>6. scan' \subseteq Branch
  BY <1>1, <1>2 DEF ResolveFind, TypeOK, GoOn, Reply, Throw, startVars
<1>7. todo' \subseteq Branch
  BY <1>1, <1>2 DEF ResolveFind, TypeOK, GoOn, Reply, Throw, startVars
<1>8. UNCHANGED <<jstate, jconn, db, applied, status, inTransaction, active, op, crashes, xfaults,
               jfaults, asked, promised, forgotten>>
  BY DEF ResolveFind, journalVars, dbVars, connVars, startVars, history
<1> QED
  BY <1>1, <1>2, <1>3, <1>4, <1>5, <1>6, <1>7, <1>8 DEF TypeOK

\* ResolveCas keeps the types.
LEMMA ResolveCasType ==
  ASSUME TypeOK, NEW w \in Worker, ResolveCas(w)
  PROVE  TypeOK'
<1>1. task[w].b \in Branch /\ task[w].decision \in Decision /\ task[w].from \in BranchState /\ task[w].goal \in BranchState
  BY TaskFields DEF TypeOK, Thread, At, ResolveCas
<1>2. Job("scan", task[w].b, task[w].decision, IntentOf(task[w].decision), TerminalOf(task[w].decision)) \in Task /\ Job("find", task[w].b, task[w].decision, "ACTIVE", "ACTIVE") \in Task
  BY <1>1, JobType, StateFacts, TerminalOfType, IntentOfType DEF TaskPc, Decision
<1>3. jstate' \in [Branch -> BranchState \cup {"ABSENT"}]
  BY <1>1, <1>2, WriteType, IntentOfType DEF ResolveCas, TypeOK
<1>4. jfaults' \in 0..MaxJournalFaults
  BY <1>1, <1>2, WriteType, IntentOfType DEF ResolveCas, TypeOK
<1>5. asked' \in [Branch -> SUBSET Decision]
  BY <1>1, <1>2 DEF ResolveCas, TypeOK
<1>6. task' \in [Thread -> Task]
  BY <1>1, <1>2, NoTaskType DEF ResolveCas, TypeOK, GoOn, Reply, Throw, Thread
<1>7. told' \in [Branch -> SUBSET BranchState]
  BY <1>1, <1>2, StateFacts DEF ResolveCas, TypeOK, GoOn, Reply, Throw, IsTerminal
<1>8. phase' \in {"down", "starting", "up"}
  BY <1>1, <1>2 DEF ResolveCas, TypeOK, GoOn, Reply, Throw, startVars
<1>9. scan' \subseteq Branch
  BY <1>1, <1>2 DEF ResolveCas, TypeOK, GoOn, Reply, Throw, startVars
<1>10. todo' \subseteq Branch
  BY <1>1, <1>2 DEF ResolveCas, TypeOK, GoOn, Reply, Throw, startVars
<1>11. UNCHANGED <<jconn, db, applied, status, inTransaction, active, op, crashes, xfaults,
               promised, forgotten>>
  BY DEF ResolveCas, journalVars, dbVars, connVars, startVars, history
<1> QED
  BY <1>1, <1>2, <1>3, <1>4, <1>5, <1>6, <1>7, <1>8, <1>9, <1>10, <1>11 DEF TypeOK

\* ResolveScan keeps the types.
LEMMA ResolveScanType ==
  ASSUME TypeOK, NEW w \in Worker, ResolveScan(w)
  PROVE  TypeOK'
<1>1. task[w].b \in Branch /\ task[w].decision \in Decision /\ task[w].from \in BranchState /\ task[w].goal \in BranchState
  BY TaskFields DEF TypeOK, Thread, At, ResolveScan
<1>2. task' \in [Thread -> Task]
  BY <1>1, JobType, NoTaskType, StateFacts, TerminalOfType DEF ResolveScan, TypeOK, GoOn, Reply,
     Throw, TaskPc, Thread
<1>3. told' \in [Branch -> SUBSET BranchState]
  BY <1>1, StateFacts DEF ResolveScan, TypeOK, GoOn, Reply, Throw, IsTerminal
<1>4. phase' \in {"down", "starting", "up"}
  BY <1>1 DEF ResolveScan, TypeOK, GoOn, Reply, Throw, startVars
<1>5. scan' \subseteq Branch
  BY <1>1 DEF ResolveScan, TypeOK, GoOn, Reply, Throw, startVars
<1>6. todo' \subseteq Branch
  BY <1>1 DEF ResolveScan, TypeOK, GoOn, Reply, Throw, startVars
<1>7. xfaults' \in 0..MaxXaFaults
  BY <1>1, XaFaultType DEF ResolveScan, TypeOK
<1>8. UNCHANGED <<jstate, jconn, db, applied, status, inTransaction, active, op, crashes, jfaults,
               asked, promised, forgotten>>
  BY DEF ResolveScan, journalVars, dbVars, connVars, startVars, history
<1> QED
  BY <1>1, <1>2, <1>3, <1>4, <1>5, <1>6, <1>7, <1>8 DEF TypeOK

\* ResolveXa keeps the types.
LEMMA ResolveXaType ==
  ASSUME TypeOK, NEW t \in Thread, ResolveXa(t)
  PROVE  TypeOK'
<1>1. task[t].b \in Branch /\ task[t].decision \in Decision /\ task[t].from \in BranchState /\ task[t].goal \in BranchState
  BY TaskFields DEF TypeOK, Thread, At, ResolveXa
<1>2. db' \in [Branch -> DbState]
  BY <1>1 DEF ResolveXa, TypeOK, DbState, dbVars
<1>3. applied' \subseteq Branch
  BY <1>1 DEF ResolveXa, TypeOK, dbVars
<1>4. task' \in [Thread -> Task]
  BY <1>1, JobType, NoTaskType, StateFacts, TerminalOfType DEF ResolveXa, TypeOK, GoOn, Reply,
     Throw, TaskPc, Thread
<1>5. told' \in [Branch -> SUBSET BranchState]
  BY <1>1, StateFacts DEF ResolveXa, TypeOK, GoOn, Reply, Throw, IsTerminal
<1>6. phase' \in {"down", "starting", "up"}
  BY <1>1 DEF ResolveXa, TypeOK, GoOn, Reply, Throw, startVars
<1>7. scan' \subseteq Branch
  BY <1>1 DEF ResolveXa, TypeOK, GoOn, Reply, Throw, startVars
<1>8. todo' \subseteq Branch
  BY <1>1 DEF ResolveXa, TypeOK, GoOn, Reply, Throw, startVars
<1>9. xfaults' \in 0..MaxXaFaults
  BY <1>1, XaFaultType DEF ResolveXa, TypeOK
<1>10. UNCHANGED <<jstate, jconn, status, inTransaction, active, op, crashes, jfaults, asked,
               promised, forgotten>>
  BY DEF ResolveXa, journalVars, dbVars, connVars, startVars, history
<1> QED
  BY <1>1, <1>2, <1>3, <1>4, <1>5, <1>6, <1>7, <1>8, <1>9, <1>10 DEF TypeOK

\* ResolveNota keeps the types.
LEMMA ResolveNotaType ==
  ASSUME TypeOK, NEW t \in Thread, ResolveNota(t)
  PROVE  TypeOK'
<1>1. task[t].b \in Branch /\ task[t].decision \in Decision /\ task[t].from \in BranchState /\ task[t].goal \in BranchState
  BY TaskFields DEF TypeOK, Thread, At, ResolveNota
<1>2. Job("record", task[t].b, task[t].decision, task[t].from, task[t].goal) \in Task
  BY <1>1, JobType, StateFacts, TerminalOfType, IntentOfType DEF TaskPc, Decision
<1>3. task' \in [Thread -> Task]
  BY <1>1, <1>2, NoTaskType DEF ResolveNota, TypeOK, GoOn, Reply, Throw, Thread
<1>4. told' \in [Branch -> SUBSET BranchState]
  BY <1>1, <1>2, StateFacts DEF ResolveNota, TypeOK, GoOn, Reply, Throw, IsTerminal
<1>5. phase' \in {"down", "starting", "up"}
  BY <1>1, <1>2 DEF ResolveNota, TypeOK, GoOn, Reply, Throw, startVars
<1>6. scan' \subseteq Branch
  BY <1>1, <1>2 DEF ResolveNota, TypeOK, GoOn, Reply, Throw, startVars
<1>7. todo' \subseteq Branch
  BY <1>1, <1>2 DEF ResolveNota, TypeOK, GoOn, Reply, Throw, startVars
<1>8. UNCHANGED <<jstate, jconn, db, applied, status, inTransaction, active, op, crashes, xfaults,
               jfaults, asked, promised, forgotten>>
  BY DEF ResolveNota, journalVars, dbVars, connVars, startVars, history
<1> QED
  BY <1>1, <1>2, <1>3, <1>4, <1>5, <1>6, <1>7, <1>8 DEF TypeOK

\* ResolveRecord keeps the types.
LEMMA ResolveRecordType ==
  ASSUME TypeOK, NEW t \in Thread, ResolveRecord(t)
  PROVE  TypeOK'
<1>1. task[t].b \in Branch /\ task[t].decision \in Decision /\ task[t].from \in BranchState /\ task[t].goal \in BranchState
  BY TaskFields DEF TypeOK, Thread, At, ResolveRecord
<1>2. jstate' \in [Branch -> BranchState \cup {"ABSENT"}]
  BY <1>1, WriteType DEF ResolveRecord, TypeOK
<1>3. jfaults' \in 0..MaxJournalFaults
  BY <1>1, WriteType DEF ResolveRecord, TypeOK
<1>4. task' \in [Thread -> Task]
  BY <1>1, JobType, NoTaskType, StateFacts DEF ResolveRecord, TypeOK, GoOn, Reply, Throw, TaskPc,
     Thread
<1>5. told' \in [Branch -> SUBSET BranchState]
  BY <1>1, StateFacts DEF ResolveRecord, TypeOK, GoOn, Reply, Throw, IsTerminal
<1>6. phase' \in {"down", "starting", "up"}
  BY <1>1 DEF ResolveRecord, TypeOK, GoOn, Reply, Throw, startVars
<1>7. scan' \subseteq Branch
  BY <1>1 DEF ResolveRecord, TypeOK, GoOn, Reply, Throw, startVars
<1>8. todo' \subseteq Branch
  BY <1>1 DEF ResolveRecord, TypeOK, GoOn, Reply, Throw, startVars
<1>9. UNCHANGED <<jconn, db, applied, status, inTransaction, active, op, crashes, xfaults, asked,
               promised, forgotten>>
  BY DEF ResolveRecord, journalVars, dbVars, connVars, startVars, history
<1> QED
  BY <1>1, <1>2, <1>3, <1>4, <1>5, <1>6, <1>7, <1>8, <1>9 DEF TypeOK

\* CallForget keeps the types.
LEMMA CallForgetType ==
  ASSUME TypeOK, NEW w \in Worker, NEW b \in Branch, CallForget(w, b)
  PROVE  TypeOK'
<1>1. Job("forgetXa", b, "rollback", "ACTIVE", "ACTIVE") \in Task
               /\ Job("forgetDelete", b, "rollback", "ACTIVE", "ACTIVE") \in Task
  BY JobType, StateFacts DEF TaskPc, Decision
<1>2. task' \in [Thread -> Task]
  BY <1>1 DEF CallForget, TypeOK, GoOn, Thread
<1>3. forgotten' \subseteq Branch
  BY <1>1 DEF CallForget, TypeOK
<1>4. UNCHANGED <<jstate, jconn, db, applied, status, inTransaction, active, op, phase, scan, todo,
               crashes, xfaults, jfaults, asked, told, promised>>
  BY DEF CallForget, journalVars, dbVars, connVars, startVars, history, GoOn, Reply, Throw
<1> QED
  BY <1>1, <1>2, <1>3, <1>4 DEF TypeOK

\* ForgetXa keeps the types.
LEMMA ForgetXaType ==
  ASSUME TypeOK, NEW w \in Worker, ForgetXa(w)
  PROVE  TypeOK'
<1>1. task[w].b \in Branch /\ task[w].decision \in Decision /\ task[w].from \in BranchState /\ task[w].goal \in BranchState
  BY TaskFields DEF TypeOK, Thread, At, ForgetXa
<1>2. Job("forgetDelete", task[w].b, "rollback", "ACTIVE", "ACTIVE") \in Task
  BY <1>1, JobType, StateFacts, TerminalOfType, IntentOfType DEF TaskPc, Decision
<1>3. db' \in [Branch -> DbState]
  BY <1>1, <1>2 DEF ForgetXa, TypeOK, DbState
<1>4. task' \in [Thread -> Task]
  BY <1>1, <1>2, NoTaskType DEF ForgetXa, TypeOK, GoOn, Reply, Throw, Thread
<1>5. told' \in [Branch -> SUBSET BranchState]
  BY <1>1, <1>2, StateFacts DEF ForgetXa, TypeOK, GoOn, Reply, Throw, IsTerminal
<1>6. phase' \in {"down", "starting", "up"}
  BY <1>1, <1>2 DEF ForgetXa, TypeOK, GoOn, Reply, Throw, startVars
<1>7. scan' \subseteq Branch
  BY <1>1, <1>2 DEF ForgetXa, TypeOK, GoOn, Reply, Throw, startVars
<1>8. todo' \subseteq Branch
  BY <1>1, <1>2 DEF ForgetXa, TypeOK, GoOn, Reply, Throw, startVars
<1>9. xfaults' \in 0..MaxXaFaults
  BY <1>1, <1>2, XaFaultType DEF ForgetXa, TypeOK
<1>10. UNCHANGED <<jstate, jconn, applied, status, inTransaction, active, op, crashes, jfaults,
               asked, promised, forgotten>>
  BY DEF ForgetXa, journalVars, dbVars, connVars, startVars, history
<1> QED
  BY <1>1, <1>2, <1>3, <1>4, <1>5, <1>6, <1>7, <1>8, <1>9, <1>10 DEF TypeOK

\* ForgetDelete keeps the types.
LEMMA ForgetDeleteType ==
  ASSUME TypeOK, NEW w \in Worker, ForgetDelete(w)
  PROVE  TypeOK'
<1>1. jstate' \in [Branch -> BranchState \cup {"ABSENT"}]
  BY DeleteType DEF ForgetDelete, TypeOK
<1>2. jconn' \in [Branch -> Conn \cup {NoConn}]
  BY DeleteType DEF ForgetDelete, TypeOK
<1>3. jfaults' \in 0..MaxJournalFaults
  BY DeleteType DEF ForgetDelete, TypeOK
<1>4. task' \in [Thread -> Task]
  BY NoTaskType DEF ForgetDelete, TypeOK, Thread
<1>5. UNCHANGED <<db, applied, status, inTransaction, active, op, phase, scan, todo, crashes,
               xfaults, asked, told, promised, forgotten>>
  BY DEF ForgetDelete, journalVars, dbVars, connVars, startVars, history
<1> QED
  BY <1>1, <1>2, <1>3, <1>4, <1>5 DEF TypeOK

\* Crash keeps the types.
LEMMA CrashType ==
  ASSUME TypeOK, Crash
  PROVE  TypeOK'
<1>1. phase' \in {"down", "starting", "up"}
  BY DEF Crash, TypeOK
<1>2. scan' \subseteq Branch
  BY DEF Crash, TypeOK
<1>3. todo' \subseteq Branch
  BY DEF Crash, TypeOK
<1>4. crashes' \in 0..MaxCrashes
  BY ConstantsAssumption DEF Crash, TypeOK, ConstantsAssumption
<1>5. status' \in [Conn -> {"new", "open", "closed"}]
  BY DEF Crash, TypeOK
<1>6. inTransaction' \subseteq Conn
  BY DEF Crash, TypeOK
<1>7. active' \in [Conn -> Branch \cup {NoBranch}]
  BY DEF Crash, TypeOK
<1>8. op' \in [Conn -> Op]
  BY NoOpType DEF Crash, TypeOK
<1>9. task' \in [Thread -> Task]
  BY NoTaskType DEF Crash, TypeOK
<1>10. UNCHANGED <<jstate, jconn, db, applied, xfaults, jfaults, asked, told, promised, forgotten>>
  BY DEF Crash, journalVars, dbVars, connVars, startVars, history
<1> QED
  BY <1>1, <1>2, <1>3, <1>4, <1>5, <1>6, <1>7, <1>8, <1>9, <1>10 DEF TypeOK

\* Restart keeps the types.
LEMMA RestartType ==
  ASSUME TypeOK, Restart
  PROVE  TypeOK'
<1>1. phase' \in {"down", "starting", "up"}
  BY DEF Restart, TypeOK
<1>2. scan' \subseteq Branch
  BY DEF Restart, TypeOK
<1>3. todo' \subseteq Branch
  BY DEF Restart, TypeOK
<1>4. UNCHANGED <<jstate, jconn, db, applied, status, inTransaction, active, op, task, crashes,
               xfaults, jfaults, asked, told, promised, forgotten>>
  BY DEF Restart, journalVars, dbVars, connVars, startVars, history
<1> QED
  BY <1>1, <1>2, <1>3, <1>4 DEF TypeOK

\* Reconcile keeps the types.
LEMMA ReconcileType ==
  ASSUME TypeOK, NEW b \in Branch, Reconcile(b)
  PROVE  TypeOK'
<1>1. \A d \in Decision : \A s \in BranchState : Job("xa", b, d, s, TerminalOf(d)) \in Task
  BY JobType, TerminalOfType DEF TaskPc
<1>2. \A d \in Decision : \A s \in BranchState,
               g \in BranchState : Job("record", b, d, s, g) \in Task
  BY JobType DEF TaskPc
<1>3. jstate[b] \in BranchState \cup {"ABSENT"} /\ (b \in scan) \in BOOLEAN
  BY DEF TypeOK
<1>4. ReconcileGoal(jstate[b], b \in scan) = "xa" => jstate[b] \in BranchState
  BY <1>3, StateFacts DEF ReconcileGoal
<1>5. ReconcileGoal(jstate[b], b \in scan) \notin {jstate[b], "xa"} => jstate[b] \in BranchState /\ ReconcileGoal(jstate[b], b \in scan) \in BranchState
  BY <1>3, ReconcileGoalType
<1>6. "commit" \in Decision /\ "rollback" \in Decision
  BY DEF Decision
<1>7. todo' \subseteq Branch
  BY <1>1, <1>2, <1>3, <1>4, <1>5, <1>6 DEF Reconcile, TypeOK
<1>8. task' \in [Thread -> Task]
  BY <1>1, <1>2, <1>3, <1>4, <1>5, <1>6 DEF Reconcile, TypeOK, Thread
<1>9. UNCHANGED <<jstate, jconn, db, applied, status, inTransaction, active, op, phase, scan,
               crashes, xfaults, jfaults, asked, told, promised, forgotten>>
  BY DEF Reconcile, journalVars, dbVars, connVars, startVars, history
<1> QED
  BY <1>1, <1>2, <1>3, <1>4, <1>5, <1>6, <1>7, <1>8, <1>9 DEF TypeOK

\* Started keeps the types.
LEMMA StartedType ==
  ASSUME TypeOK, Started
  PROVE  TypeOK'
<1>1. phase' \in {"down", "starting", "up"}
  BY DEF Started, TypeOK
<1>2. scan' \subseteq Branch
  BY DEF Started, TypeOK
<1>3. UNCHANGED <<jstate, jconn, db, applied, status, inTransaction, active, op, task, todo,
               crashes, xfaults, jfaults, asked, told, promised, forgotten>>
  BY DEF Started, journalVars, dbVars, connVars, startVars, history
<1> QED
  BY <1>1, <1>2, <1>3 DEF TypeOK

\* DbHeuristic keeps the types.
LEMMA DbHeuristicType ==
  ASSUME TypeOK, NEW b \in Branch, DbHeuristic(b)
  PROVE  TypeOK'
<1>1. db' \in [Branch -> DbState]
  BY ConstantsAssumption DEF DbHeuristic, TypeOK, DbState, Heuristic, ConstantsAssumption
<1>2. applied' \subseteq Branch
  BY DEF DbHeuristic, TypeOK
<1>3. UNCHANGED <<jstate, jconn, status, inTransaction, active, op, task, phase, scan, todo,
               crashes, xfaults, jfaults, asked, told, promised, forgotten>>
  BY DEF DbHeuristic, journalVars, dbVars, connVars, startVars, history
<1> QED
  BY <1>1, <1>2, <1>3 DEF TypeOK

\* DbAbort keeps the types.
LEMMA DbAbortType ==
  ASSUME TypeOK, NEW b \in Branch, DbAbort(b)
  PROVE  TypeOK'
<1>1. db' \in [Branch -> DbState]
  BY DEF DbAbort, TypeOK, DbState
<1>2. UNCHANGED <<jstate, jconn, applied, status, inTransaction, active, op, task, phase, scan,
               todo, crashes, xfaults, jfaults, asked, told, promised, forgotten>>
  BY DEF DbAbort, journalVars, dbVars, connVars, startVars, history
<1> QED
  BY <1>1, <1>2 DEF TypeOK

\* Every variable has its type before the provider is first started.
LEMMA TypeInit == Init => TypeOK
<1> SUFFICES ASSUME Init PROVE TypeOK
  OBVIOUS
<1>1. /\ crashes \in 0..MaxCrashes
      /\ xfaults \in 0..MaxXaFaults
      /\ jfaults \in 0..MaxJournalFaults
  BY ConstantsAssumption DEF Init, ConstantsAssumption
<1>2. /\ jstate \in [Branch -> BranchState \cup {"ABSENT"}]
      /\ jconn \in [Branch -> Conn \cup {NoConn}]
      /\ db \in [Branch -> DbState]
  BY DEF Init, DbState
<1>3. /\ status \in [Conn -> {"new", "open", "closed"}]
      /\ active \in [Conn -> Branch \cup {NoBranch}]
      /\ op \in [Conn -> Op]
      /\ task \in [Thread -> Task]
  BY NoOpType, NoTaskType DEF Init
<1>4. /\ asked \in [Branch -> SUBSET Decision]
      /\ told \in [Branch -> SUBSET BranchState]
  BY DEF Init
<1>5. /\ applied \subseteq Branch
      /\ inTransaction \subseteq Conn
      /\ phase \in {"down", "starting", "up"}
      /\ scan \subseteq Branch
      /\ todo \subseteq Branch
      /\ promised \subseteq Branch
      /\ forgotten \subseteq Branch
  BY DEF Init
<1> QED
  BY <1>1, <1>2, <1>3, <1>4, <1>5 DEF TypeOK

\* Every operation, crash, restart and step of the resource manager keeps the types.
LEMMA TypeStep == TypeOK /\ [Next]_vars => TypeOK'
<1> SUFFICES ASSUME TypeOK, [Next]_vars PROVE TypeOK'
  OBVIOUS
<1>1. ASSUME NEW c \in Conn, ConnStep(c) PROVE TypeOK'
  BY <1>1, BeginStartType, BeginUndoType, PrepareXaType, RecordPrepareType, ResolveActiveXaType,
     RecordResolveType, RecordFailureType, CloseXaType, RecordCloseType DEF ConnStep
<1>2. ASSUME NEW c \in Conn, ConnCall(c) PROVE TypeOK'
  BY <1>2, OpenConnectionType, BeginTransactionType, FinishTransactionType, CloseIntentType,
     BeginInsertType, PrepareAgainType, PrepareIntentType, ResolveActiveAgainType,
     ResolveActiveIntentType DEF ConnCall
<1>3. ASSUME NEW w \in Worker, WorkerStep(w) PROVE TypeOK'
  BY <1>3, ResolveFindType, ResolveCasType, ResolveScanType, ForgetXaType, ForgetDeleteType
     DEF WorkerStep
<1>4. ASSUME NEW w \in Worker, WorkerCall(w) PROVE TypeOK'
  BY <1>4, CallResolveType, CallForgetType DEF WorkerCall
<1>5. ASSUME NEW t \in Thread, TaskStep(t) PROVE TypeOK'
  BY <1>5, ResolveXaType, ResolveNotaType, ResolveRecordType DEF TaskStep
<1>6. ASSUME Crash \/ Restart \/ Started PROVE TypeOK'
  BY <1>6, CrashType, RestartType, StartedType
<1>7. ASSUME NEW b \in Branch, Reconcile(b) \/ DbHeuristic(b) \/ DbAbort(b) PROVE TypeOK'
  BY <1>7, ReconcileType, DbHeuristicType, DbAbortType
<1>8. CASE UNCHANGED vars
  BY <1>8 DEF vars, TypeOK
<1> QED
  BY <1>1, <1>2, <1>3, <1>4, <1>5, <1>6, <1>7, <1>8 DEF Next

\* The types of the journal, the database, the connections, the threads and the
\* bounds hold in every reachable state, for any set of branches, connections
\* and threads and any bounds.
THEOREM TypeCorrect == Spec => []TypeOK
  BY TypeInit, TypeStep, PTL DEF Spec

-----------------------------------------------------------------------------
(* The ownership discipline *)

\* A connection that holds a branch holds it alone, and nobody is resolving it.
LEMMA HeldAlone ==
  ASSUME Inv, NEW c \in Conn, NEW b \in Branch, Holds(c, b)
  PROVE  /\ \A e \in Conn \ {c} : ~Holds(e, b)
         /\ \A w \in Worker : Resolving(w) => task[w].b # b
  BY DEF Inv, HolderInv, WorkerInv

\* The branch of a connection's operation, with what the connection knows of it.
LEMMA OpBranch ==
  ASSUME TypeOK, Inv, NEW c \in Conn, op[c].pc # "idle"
  PROVE  op[c].b \in Branch /\ Holds(c, op[c].b) /\ OpInv(c) /\ HeldInv(c)
<1>1. op[c] \in Op
  BY DEF TypeOK
<1> QED
  BY <1>1, OpFields DEF Inv, Holds

\* What a connection knows of its branch stays true while nobody touches the branch.
LEMMA OpUntouched ==
  ASSUME TypeOK, Inv, NEW e \in Conn, op'[e] = op[e], active'[e] = active[e],
         forgotten' = forgotten,
         op[e].pc # "idle" =>
           jstate'[op[e].b] = jstate[op[e].b] /\ db'[op[e].b] = db[op[e].b]
  PROVE  OpInv(e)'
<1>1. CASE op[e].pc = "idle"
  BY <1>1 DEF OpInv
<1>2. CASE op[e].pc # "idle"
  <2>1. OpInv(e)
    BY DEF Inv
  <2> QED
    BY <1>2, <2>1 DEF OpInv
<1> QED
  BY <1>1, <1>2

\* The step of a connection that keeps Inv: it changes what concerns one
\* branch, which no other connection holds and no thread is resolving.
LEMMA ConnFrame ==
  ASSUME TypeOK, TypeOK', Inv, NEW c \in Conn, NEW b \in Branch,
         phase = "up", UNCHANGED <<task, phase, scan, todo, forgotten>>,
         \A e \in Conn \ {c} : active'[e] = active[e] /\ op'[e] = op[e] /\ ~Holds(e, b),
         \A x \in Branch \ {b} : jstate'[x] = jstate[x] /\ db'[x] = db[x],
         \A w \in Worker : Resolving(w) => task[w].b # b,
         \A x \in Branch \ {b} : Holds(c, x)' => Holds(c, x),
         HeldInv(c)', OpInv(c)',
         InDoubt(db'[b]) => IsRecoverable(jstate'[b]) /\ b \notin forgotten,
         b \in forgotten => IsTerminal(jstate'[b]) \/ jstate'[b] \in {"ABSENT", "ROLLING_BACK_ACTIVE"}
  PROVE  Inv'
<1>1. InDoubtListed'
  BY DEF Inv, InDoubtListed
<1>2. DownInv' /\ ScanInv'
  BY DEF DownInv, ScanInv
<1>3. ASSUME NEW e \in Conn PROVE HeldInv(e)' /\ OpInv(e)'
  <2>1. CASE e = c
    BY <2>1
  <2>2. CASE e # c
    <3>1. active[e] # b /\ op[e].b # b /\ active'[e] = active[e] /\ op'[e] = op[e]
      BY <2>2 DEF Holds
    <3>2. active[e] \in Branch \cup {NoBranch} /\ op[e] \in Op
      BY DEF TypeOK
    <3>3. HeldInv(e)'
      BY <3>1, <3>2 DEF Inv, HeldInv
    <3>4. op[e].pc # "idle" => jstate'[op[e].b] = jstate[op[e].b] /\ db'[op[e].b] = db[op[e].b]
      BY <3>1, OpBranch
    <3>5. OpInv(e)'
      BY <3>1, <3>4, OpUntouched
    <3> QED
      BY <3>3, <3>5
  <2> QED
    BY <2>1, <2>2
<1>4. HolderInv'
  <2> SUFFICES ASSUME NEW x \in Branch, NEW e \in Conn, NEW f \in Conn, Holds(e, x)', Holds(f, x)'
               PROVE  e = f
    BY DEF HolderInv
  <2>1. \A g \in Conn \ {c} : Holds(g, x)' => Holds(g, x) /\ x # b
    BY DEF Holds
  <2>2. Holds(c, x)' /\ x # b => Holds(c, x)
    OBVIOUS
  <2> QED
    BY <2>1, <2>2 DEF Inv, HolderInv
<1>5. ForgottenInv'
  <2>1. forgotten \subseteq Branch
    BY DEF TypeOK
  <2> QED
    BY <2>1 DEF Inv, ForgottenInv
<1>6. ASSUME NEW w \in Worker PROVE WorkerInv(w)'
  <2>1. task[w] \in Task /\ WorkerInv(w) /\ task'[w] = task[w]
    BY DEF TypeOK, Inv, Thread
  <2>2. CASE task[w].pc = "idle"
    BY <2>1, <2>2 DEF WorkerInv, Resolving
  <2>3. CASE task[w].b = b /\ task[w].pc # "idle"
    BY <2>1, <2>3 DEF WorkerInv, Resolving
  <2>4. CASE task[w].b # b /\ task[w].pc # "idle"
    <3>1. task[w].b \in Branch
      BY <2>1, <2>4, TaskFields
    <3>2. \A e \in Conn : Holds(e, task[w].b)' => Holds(e, task[w].b)
      BY <2>4, <3>1 DEF Holds
    <3>3. jstate'[task[w].b] = jstate[task[w].b] /\ db'[task[w].b] = db[task[w].b]
      BY <2>4, <3>1
    <3> QED
      BY <2>1, <3>2, <3>3 DEF WorkerInv, Resolving
  <2> QED
    BY <2>2, <2>3, <2>4
<1>7. StartupInv'
  BY DEF Inv, StartupInv
<1> QED
  BY <1>1, <1>2, <1>3, <1>4, <1>5, <1>6, <1>7 DEF Inv

\* The step of a thread that keeps Inv: it changes what concerns one branch,
\* moves its row only forward, and never puts it in doubt.
LEMMA WorkerFrame ==
  ASSUME TypeOK, TypeOK', Inv, NEW w \in Worker, NEW b \in Branch,
         phase = "up", UNCHANGED <<active, op, phase, scan, todo>>,
         \A t \in Thread \ {w} : task'[t] = task[t],
         \A x \in Branch \ {b} : jstate'[x] = jstate[x] /\ db'[x] = db[x] /\ (x \in forgotten' <=> x \in forgotten),
         b \in forgotten => b \in forgotten',
         b \in forgotten' => b \in forgotten \/ IsTerminal(jstate[b]),
         InDoubt(db'[b]) => InDoubt(db[b]) /\ IsRecoverable(jstate'[b]),
         b \in forgotten' => IsTerminal(jstate'[b]) \/ jstate'[b] \in {"ABSENT", "ROLLING_BACK_ACTIVE"},
         \/ jstate'[b] = jstate[b]
         \/ jstate'[b] = "ABSENT" /\ b \in forgotten
         \/ jstate[b] = "PREPARED"
         \/ IsTerminal(jstate'[b]) /\ \A c \in Conn : ~Holds(c, b),
         WorkerInv(w)'
  PROVE  Inv'
<1>1. InDoubtListed'
  BY DEF Inv, InDoubtListed
<1>2. DownInv' /\ ScanInv'
  BY DEF DownInv, ScanInv
<1>3. ASSUME NEW e \in Conn PROVE HeldInv(e)'
  <2>1. active[e] \in Branch \cup {NoBranch} /\ HeldInv(e) /\ active'[e] = active[e]
    BY DEF TypeOK, Inv
  <2> QED
    BY <2>1 DEF HeldInv, HeldRow, OnePhaseIntent, Holds
<1>4. ASSUME NEW e \in Conn PROVE OpInv(e)'
  <2>1. op[e] \in Op /\ op'[e] = op[e] /\ active'[e] = active[e]
    BY DEF TypeOK
  <2>2. CASE op[e].pc = "idle"
    BY <2>1, <2>2 DEF OpInv
  <2>3. CASE op[e].pc # "idle" /\ op[e].b # b
    BY <2>1, <2>3, OpBranch DEF OpInv
  <2>4. CASE op[e].pc # "idle" /\ op[e].b = b
    <3>1. OpInv(e) /\ Holds(e, b) /\ op[e].pc \in OpPc
      BY <2>1, <2>4, OpBranch, OpFields
    <3>2. jstate[b] \in {"ACTIVE", "PREPARING", "ABSENT"} \cup OnePhaseIntent
      BY <2>4, <3>1 DEF OpInv, OpPc, OnePhaseIntent
    <3>3. ~IsTerminal(jstate[b]) /\ jstate[b] # "PREPARED"
      BY <3>2 DEF IsTerminal, Resolved, Heuristic, OnePhaseIntent
    <3>4. (b \in forgotten' <=> b \in forgotten) /\ (jstate'[b] = jstate[b] \/ (jstate'[b] = "ABSENT" /\ b \in forgotten))
      BY <3>1, <3>3
    <3> QED
      BY <2>1, <2>4, <3>1, <3>4 DEF OpInv
  <2> QED
    BY <2>2, <2>3, <2>4
<1>5. HolderInv'
  BY DEF Inv, HolderInv, Holds
<1>6. ForgottenInv'
  <2>1. forgotten' \subseteq Branch
    BY DEF TypeOK
  <2> QED
    BY <2>1 DEF Inv, ForgottenInv
<1>7. ASSUME NEW u \in Worker, u # w PROVE WorkerInv(u)'
  <2>1. task[u] \in Task /\ WorkerInv(u) /\ task'[u] = task[u]
    BY <1>7 DEF TypeOK, Inv, Thread
  <2>2. CASE task[u].pc = "idle"
    BY <2>1, <2>2 DEF WorkerInv, Resolving
  <2>3. CASE task[u].pc # "idle" /\ task[u].b # b
    <3>1. task[u].b \in Branch
      BY <2>1, <2>3, TaskFields
    <3> QED
      BY <2>1, <2>3, <3>1 DEF WorkerInv, Resolving, Holds
  <2>4. CASE task[u].pc # "idle" /\ task[u].b = b
    <3>1. ASSUME Resolving(u) PROVE jstate[b] # "PREPARED"
      BY <2>1, <2>4, <3>1
         DEF Inv, WorkerInv, ForgottenInv, IntentOf, IsTerminal, Resolved, Heuristic
    <3> QED
      BY <2>1, <2>4, <3>1 DEF WorkerInv, Resolving, Holds
  <2> QED
    BY <2>2, <2>3, <2>4
<1>8. StartupInv'
  <2>1. task'[Startup] = task[Startup] /\ phase # "starting"
    BY ConstantsAssumption DEF ConstantsAssumption, Thread
  <2> QED
    BY <2>1 DEF Inv, StartupInv
<1> QED
  BY <1>1, <1>2, <1>3, <1>4, <1>5, <1>6, <1>7, <1>8 DEF Inv

\* A branch without a row that was never forgotten is held and resolved by nobody.
LEMMA AbsentAlone ==
  ASSUME TypeOK, Inv, NEW b \in Branch, jstate[b] = "ABSENT", b \notin forgotten
  PROVE  /\ \A e \in Conn : ~Holds(e, b)
         /\ \A w \in Worker : Resolving(w) => task[w].b # b
<1>1. ASSUME NEW e \in Conn, Holds(e, b) PROVE FALSE
  <2>1. op[e].pc # "idle" => op[e].pc \in OpPc /\ OpInv(e)
    BY OpFields DEF TypeOK, Inv
  <2>2. op[e].pc = "idle" => op[e].b = NoBranch
    BY OpFields, NoOpType DEF TypeOK
  <2>3. active[e] # b
    BY ConstantsAssumption DEF Inv, HeldInv, ConstantsAssumption
  <2> QED
    BY <1>1, <2>1, <2>2, <2>3, ConstantsAssumption
       DEF Holds, OpInv, OpPc, OnePhaseIntent, ConstantsAssumption
<1>2. ASSUME NEW w \in Worker, Resolving(w), task[w].b = b PROVE FALSE
  BY <1>2 DEF Inv, WorkerInv, IntentOf, IsTerminal, Resolved, Heuristic
<1> QED
  BY <1>1, <1>2

\* A branch is begun by a connection that holds nothing.
LEMMA BeginInsertInd ==
  ASSUME TypeOK, TypeOK', Inv, NEW c \in Conn, NEW b \in Branch, BeginInsert(c, b)
  PROVE  Inv'
<1>1. /\ b \in Branch /\ phase = "up"
      /\ op[c] = NoOp /\ op[c].b = NoBranch /\ OpInv(c) /\ HeldInv(c)
  BY OpFields, NoOpType DEF BeginInsert, Ready, TypeOK, Inv
<1>2. /\ active[c] = NoBranch /\ jstate[b] = "ABSENT" /\ b \notin forgotten
      /\ ~InDoubt(db[b])
  BY <1>1, ConstantsAssumption DEF BeginInsert, ConstantsAssumption, Inv, InDoubtListed,
     IsRecoverable, Intent, OnePhaseIntent, Heuristic
<1>3. /\ \A e \in Conn \ {c} : ~Holds(e, b)
      /\ \A w \in Worker : Resolving(w) => task[w].b # b
  BY <1>2, AbsentAlone
<1>4. /\ UNCHANGED <<task, phase, scan, todo, forgotten>>
      /\ \A e \in Conn \ {c} : active'[e] = active[e] /\ op'[e] = op[e]
      /\ \A x \in Branch \ {b} : jstate'[x] = jstate[x] /\ db'[x] = db[x]
  BY <1>1, <1>2 DEF BeginInsert, TypeOK, journalVars, dbVars, startVars, history
<1>5. /\ active'[c] = NoBranch /\ db'[b] = db[b]
      /\ \/ op'[c] = NoOp /\ jstate'[b] \in {"ABSENT", "ACTIVE"}
         \/ op'[c] = Doing("start", b, "ACTIVE", "ACTIVE") /\ jstate'[b] = "ACTIVE"
  BY <1>1, <1>2, ConstantsAssumption DEF BeginInsert, TypeOK, ConstantsAssumption, dbVars
<1>6. HeldInv(c)'
  BY <1>1, <1>2, <1>4, <1>5 DEF HeldInv, HeldRow, OnePhaseIntent
<1>7. OpInv(c)'
  BY <1>1, <1>2, <1>4, <1>5 DEF OpInv, Doing, NoOp, OnePhaseIntent
<1>8. \A x \in Branch \ {b} : Holds(c, x)' => Holds(c, x)
  BY <1>1, <1>2, <1>5, ConstantsAssumption DEF Holds, Doing, NoOp, ConstantsAssumption
<1>9. /\ InDoubt(db'[b]) => IsRecoverable(jstate'[b]) /\ b \notin forgotten
      /\ b \in forgotten => IsTerminal(jstate'[b]) \/ jstate'[b] \in {"ABSENT", "ROLLING_BACK_ACTIVE"}
  BY <1>1, <1>2, <1>5 DEF Inv, InDoubtListed, ForgottenInv, IsRecoverable, IsTerminal, Intent,
     OnePhaseIntent, Resolved, Heuristic
<1> QED
  BY <1>1, <1>3, <1>4, <1>6, <1>7, <1>8, <1>9, ConnFrame

\* The branch becomes active, or its row is about to be deleted again.
LEMMA BeginStartInd ==
  ASSUME TypeOK, TypeOK', Inv, NEW c \in Conn, BeginStart(c)
  PROVE  Inv'
<1> DEFINE b == op[c].b
<1>1. /\ b \in Branch /\ phase = "up"
      /\ Holds(c, b) /\ OpInv(c) /\ HeldInv(c)
  BY OpBranch DEF BeginStart, Busy
<1>2. /\ active[c] = NoBranch /\ jstate[b] = "ACTIVE" /\ b \notin forgotten
      /\ ~InDoubt(db[b])
  BY <1>1, ConstantsAssumption DEF BeginStart, ConstantsAssumption, Busy, OpInv, Inv,
     InDoubtListed, IsRecoverable, Intent, OnePhaseIntent, Heuristic
<1>3. /\ \A e \in Conn \ {c} : ~Holds(e, b)
      /\ \A w \in Worker : Resolving(w) => task[w].b # b
  BY <1>1, <1>2, HeldAlone
<1>4. /\ UNCHANGED <<task, phase, scan, todo, forgotten>>
      /\ \A e \in Conn \ {c} : active'[e] = active[e] /\ op'[e] = op[e]
      /\ \A x \in Branch \ {b} : jstate'[x] = jstate[x] /\ db'[x] = db[x]
  BY <1>1, <1>2 DEF BeginStart, TypeOK, journalVars, dbVars, startVars, history
<1>5. /\ jstate'[b] = "ACTIVE" /\ ~InDoubt(db'[b])
      /\ \/ active'[c] = b /\ op'[c] = NoOp
         \/ active'[c] = NoBranch /\ op'[c] = Doing("undo", b, "ACTIVE", "ACTIVE")
  BY <1>1, <1>2, ConstantsAssumption DEF BeginStart, TypeOK, ConstantsAssumption, journalVars,
     InDoubt, Heuristic
<1>6. HeldInv(c)'
  BY <1>1, <1>2, <1>4, <1>5 DEF HeldInv, HeldRow, OnePhaseIntent
<1>7. OpInv(c)'
  BY <1>1, <1>2, <1>4, <1>5 DEF OpInv, Doing, NoOp, OnePhaseIntent
<1>8. \A x \in Branch \ {b} : Holds(c, x)' => Holds(c, x)
  BY <1>1, <1>2, <1>5, ConstantsAssumption DEF Holds, Doing, NoOp, ConstantsAssumption
<1>9. /\ InDoubt(db'[b]) => IsRecoverable(jstate'[b]) /\ b \notin forgotten
      /\ b \in forgotten => IsTerminal(jstate'[b]) \/ jstate'[b] \in {"ABSENT", "ROLLING_BACK_ACTIVE"}
  BY <1>1, <1>2, <1>5 DEF Inv, InDoubtListed, ForgottenInv, IsRecoverable, IsTerminal, Intent,
     OnePhaseIntent, Resolved, Heuristic
<1> QED
  BY <1>1, <1>3, <1>4, <1>6, <1>7, <1>8, <1>9, ConnFrame

\* A branch that was not started is held by nobody any more.
LEMMA BeginUndoInd ==
  ASSUME TypeOK, TypeOK', Inv, NEW c \in Conn, BeginUndo(c)
  PROVE  Inv'
<1> DEFINE b == op[c].b
<1>1. /\ b \in Branch /\ phase = "up"
      /\ Holds(c, b) /\ OpInv(c) /\ HeldInv(c)
  BY OpBranch DEF BeginUndo, Busy
<1>2. /\ active[c] = NoBranch /\ jstate[b] = "ACTIVE" /\ b \notin forgotten
      /\ ~InDoubt(db[b])
  BY <1>1, ConstantsAssumption DEF BeginUndo, ConstantsAssumption, Busy, OpInv, Inv, InDoubtListed,
     IsRecoverable, Intent, OnePhaseIntent, Heuristic
<1>3. /\ \A e \in Conn \ {c} : ~Holds(e, b)
      /\ \A w \in Worker : Resolving(w) => task[w].b # b
  BY <1>1, <1>2, HeldAlone
<1>4. /\ UNCHANGED <<task, phase, scan, todo, forgotten>>
      /\ \A e \in Conn \ {c} : active'[e] = active[e] /\ op'[e] = op[e]
      /\ \A x \in Branch \ {b} : jstate'[x] = jstate[x] /\ db'[x] = db[x]
  BY <1>1, <1>2 DEF BeginUndo, TypeOK, journalVars, dbVars, startVars, history, Delete
<1>5. /\ jstate'[b] \in {"ABSENT", "ACTIVE"} /\ db'[b] = db[b]
      /\ active'[c] = NoBranch /\ op'[c] = NoOp
  BY <1>1, <1>2, ConstantsAssumption DEF BeginUndo, TypeOK, ConstantsAssumption, Delete, dbVars
<1>6. HeldInv(c)'
  BY <1>1, <1>2, <1>4, <1>5 DEF HeldInv, HeldRow, OnePhaseIntent
<1>7. OpInv(c)'
  BY <1>1, <1>2, <1>4, <1>5 DEF OpInv, Doing, NoOp, OnePhaseIntent
<1>8. \A x \in Branch \ {b} : Holds(c, x)' => Holds(c, x)
  BY <1>1, <1>2, <1>5, ConstantsAssumption DEF Holds, Doing, NoOp, ConstantsAssumption
<1>9. /\ InDoubt(db'[b]) => IsRecoverable(jstate'[b]) /\ b \notin forgotten
      /\ b \in forgotten => IsTerminal(jstate'[b]) \/ jstate'[b] \in {"ABSENT", "ROLLING_BACK_ACTIVE"}
  BY <1>1, <1>2, <1>5 DEF Inv, InDoubtListed, ForgottenInv, IsRecoverable, IsTerminal, Intent,
     OnePhaseIntent, Resolved, Heuristic
<1> QED
  BY <1>1, <1>3, <1>4, <1>6, <1>7, <1>8, <1>9, ConnFrame

\* The connection announces the prepare of the branch it is active on.
LEMMA PrepareIntentInd ==
  ASSUME TypeOK, TypeOK', Inv, NEW c \in Conn, NEW b \in Branch, PrepareIntent(c, b)
  PROVE  Inv'
<1>1. /\ b \in Branch /\ phase = "up"
      /\ op[c] = NoOp /\ op[c].b = NoBranch /\ OpInv(c) /\ HeldInv(c)
  BY OpFields, NoOpType DEF PrepareIntent, Ready, TypeOK, Inv
<1>2. /\ active[c] = b /\ jstate[b] = "ACTIVE" /\ b \notin forgotten /\ Holds(c, b)
      /\ ~InDoubt(db[b])
  BY <1>1, ConstantsAssumption DEF PrepareIntent, ConstantsAssumption, Holds, Inv, InDoubtListed,
     ForgottenInv, IsTerminal, IsRecoverable, Intent, OnePhaseIntent, Resolved, Heuristic
<1>3. /\ \A e \in Conn \ {c} : ~Holds(e, b)
      /\ \A w \in Worker : Resolving(w) => task[w].b # b
  BY <1>1, <1>2, HeldAlone DEF Holds
<1>4. /\ UNCHANGED <<task, phase, scan, todo, forgotten>>
      /\ \A e \in Conn \ {c} : active'[e] = active[e] /\ op'[e] = op[e]
      /\ \A x \in Branch \ {b} : jstate'[x] = jstate[x] /\ db'[x] = db[x]
  BY <1>1, <1>2 DEF PrepareIntent, TypeOK, journalVars, dbVars, startVars, history, Write
<1>5. /\ active'[c] = b /\ db'[b] = db[b]
      /\ \/ op'[c] = NoOp /\ jstate'[b] \in {"ACTIVE", "PREPARING"}
         \/ op'[c] = Doing("prepare", b, "PREPARING", "PREPARED") /\ jstate'[b] = "PREPARING"
  BY <1>1, <1>2, ConstantsAssumption DEF PrepareIntent, TypeOK, ConstantsAssumption, Write, dbVars
<1>6. HeldInv(c)'
  BY <1>1, <1>2, <1>4, <1>5 DEF HeldInv, HeldRow, OnePhaseIntent
<1>7. OpInv(c)'
  BY <1>1, <1>2, <1>4, <1>5 DEF OpInv, Doing, NoOp, OnePhaseIntent
<1>8. \A x \in Branch \ {b} : Holds(c, x)' => Holds(c, x)
  BY <1>1, <1>2, <1>5, ConstantsAssumption DEF Holds, Doing, NoOp, ConstantsAssumption
<1>9. /\ InDoubt(db'[b]) => IsRecoverable(jstate'[b]) /\ b \notin forgotten
      /\ b \in forgotten => IsTerminal(jstate'[b]) \/ jstate'[b] \in {"ABSENT", "ROLLING_BACK_ACTIVE"}
  BY <1>1, <1>2, <1>5 DEF Inv, InDoubtListed, ForgottenInv, IsRecoverable, IsTerminal, Intent,
     OnePhaseIntent, Resolved, Heuristic
<1> QED
  BY <1>1, <1>3, <1>4, <1>6, <1>7, <1>8, <1>9, ConnFrame

\* The branch comes to be in doubt under a row that announces it.
LEMMA PrepareXaInd ==
  ASSUME TypeOK, TypeOK', Inv, NEW c \in Conn, PrepareXa(c)
  PROVE  Inv'
<1> DEFINE b == op[c].b
<1>1. /\ b \in Branch /\ phase = "up"
      /\ Holds(c, b) /\ OpInv(c) /\ HeldInv(c)
  BY OpBranch DEF PrepareXa, Busy
<1>2. /\ active[c] = b /\ jstate[b] = "PREPARING" /\ b \notin forgotten
      /\ ~InDoubt(db[b])
  BY <1>1, ConstantsAssumption DEF PrepareXa, ConstantsAssumption, Busy, OpInv, HeldInv, TypeOK
<1>3. /\ \A e \in Conn \ {c} : ~Holds(e, b)
      /\ \A w \in Worker : Resolving(w) => task[w].b # b
  BY <1>1, <1>2, HeldAlone
<1>4. /\ UNCHANGED <<task, phase, scan, todo, forgotten>>
      /\ \A e \in Conn \ {c} : active'[e] = active[e] /\ op'[e] = op[e]
      /\ \A x \in Branch \ {b} : jstate'[x] = jstate[x] /\ db'[x] = db[x]
  BY <1>1, <1>2 DEF PrepareXa, TypeOK, journalVars, dbVars, startVars, history
<1>5. /\ active'[c] = NoBranch /\ jstate'[b] = "PREPARING"
      /\ \/ op'[c] = NoOp
         \/ op'[c] = Doing("recordPrepare", b, "PREPARING", "PREPARED")
         \/ op'[c] = Doing("recordPrepare", b, "PREPARING", "READ_ONLY") /\ db'[b] = "none"
  BY <1>1, <1>2, ConstantsAssumption DEF PrepareXa, TypeOK, ConstantsAssumption, journalVars
<1>6. HeldInv(c)'
  BY <1>1, <1>2, <1>4, <1>5 DEF HeldInv, HeldRow, OnePhaseIntent
<1>7. OpInv(c)'
  BY <1>1, <1>2, <1>4, <1>5 DEF OpInv, Doing, NoOp, OnePhaseIntent, InDoubt, Heuristic
<1>8. \A x \in Branch \ {b} : Holds(c, x)' => Holds(c, x)
  BY <1>1, <1>2, <1>5, ConstantsAssumption DEF Holds, Doing, NoOp, ConstantsAssumption
<1>9. /\ InDoubt(db'[b]) => IsRecoverable(jstate'[b]) /\ b \notin forgotten
      /\ b \in forgotten => IsTerminal(jstate'[b]) \/ jstate'[b] \in {"ABSENT", "ROLLING_BACK_ACTIVE"}
  BY <1>1, <1>2, <1>5 DEF Inv, InDoubtListed, ForgottenInv, IsRecoverable, IsTerminal, Intent,
     OnePhaseIntent, Resolved, Heuristic
<1> QED
  BY <1>1, <1>3, <1>4, <1>6, <1>7, <1>8, <1>9, ConnFrame

\* The outcome of a prepare is recorded; only a finished branch leaves the list.
LEMMA RecordPrepareInd ==
  ASSUME TypeOK, TypeOK', Inv, NEW c \in Conn, RecordPrepare(c)
  PROVE  Inv'
<1> DEFINE b == op[c].b
<1>1. /\ b \in Branch /\ phase = "up"
      /\ Holds(c, b) /\ OpInv(c) /\ HeldInv(c)
  BY OpBranch DEF RecordPrepare, Busy
<1>2. /\ active[c] = NoBranch /\ jstate[b] = "PREPARING" /\ b \notin forgotten /\ op[c].from = "PREPARING"
      /\ op[c].goal = "PREPARED" \/ (op[c].goal = "READ_ONLY" /\ ~InDoubt(db[b]))
  BY <1>1, ConstantsAssumption DEF RecordPrepare, ConstantsAssumption, Busy, OpInv
<1>3. /\ \A e \in Conn \ {c} : ~Holds(e, b)
      /\ \A w \in Worker : Resolving(w) => task[w].b # b
  BY <1>1, <1>2, HeldAlone
<1>4. /\ UNCHANGED <<task, phase, scan, todo, forgotten>>
      /\ \A e \in Conn \ {c} : active'[e] = active[e] /\ op'[e] = op[e]
      /\ \A x \in Branch \ {b} : jstate'[x] = jstate[x] /\ db'[x] = db[x]
  BY <1>1, <1>2 DEF RecordPrepare, TypeOK, journalVars, dbVars, startVars, history, Write
<1>5. /\ active'[c] = NoBranch /\ op'[c] = NoOp /\ db'[b] = db[b]
      /\ jstate'[b] \in {"PREPARING", op[c].goal}
  BY <1>1, <1>2, ConstantsAssumption DEF RecordPrepare, TypeOK, ConstantsAssumption, Write, dbVars
<1>6. HeldInv(c)'
  BY <1>1, <1>2, <1>4, <1>5 DEF HeldInv, HeldRow, OnePhaseIntent
<1>7. OpInv(c)'
  BY <1>1, <1>2, <1>4, <1>5 DEF OpInv, Doing, NoOp, OnePhaseIntent
<1>8. \A x \in Branch \ {b} : Holds(c, x)' => Holds(c, x)
  BY <1>1, <1>2, <1>5, ConstantsAssumption DEF Holds, Doing, NoOp, ConstantsAssumption
<1>9. /\ InDoubt(db'[b]) => IsRecoverable(jstate'[b]) /\ b \notin forgotten
      /\ b \in forgotten => IsTerminal(jstate'[b]) \/ jstate'[b] \in {"ABSENT", "ROLLING_BACK_ACTIVE"}
  BY <1>1, <1>2, <1>5 DEF Inv, InDoubtListed, ForgottenInv, IsRecoverable, IsTerminal, Intent,
     OnePhaseIntent, Resolved, Heuristic
<1> QED
  BY <1>1, <1>3, <1>4, <1>6, <1>7, <1>8, <1>9, ConnFrame

\* The connection announces how it resolves the branch it is active on.
LEMMA ResolveActiveIntentInd ==
  ASSUME TypeOK, TypeOK', Inv, NEW c \in Conn, NEW b \in Branch, NEW d \in Decision,
         ResolveActiveIntent(c, b, d)
  PROVE  Inv'
<1>1. /\ b \in Branch /\ phase = "up"
      /\ op[c] = NoOp /\ op[c].b = NoBranch /\ OpInv(c) /\ HeldInv(c)
  BY OpFields, NoOpType DEF ResolveActiveIntent, Ready, TypeOK, Inv
<1>2. /\ active[c] = b /\ jstate[b] = "ACTIVE" /\ b \notin forgotten /\ Holds(c, b)
      /\ ~InDoubt(db[b])
  BY <1>1, ConstantsAssumption DEF ResolveActiveIntent, ConstantsAssumption, Holds, Inv,
     InDoubtListed, ForgottenInv, IsTerminal, IsRecoverable, Intent, OnePhaseIntent, Resolved,
     Heuristic
<1>3. /\ \A e \in Conn \ {c} : ~Holds(e, b)
      /\ \A w \in Worker : Resolving(w) => task[w].b # b
  BY <1>1, <1>2, HeldAlone DEF Holds
<1>4. /\ UNCHANGED <<task, phase, scan, todo, forgotten>>
      /\ \A e \in Conn \ {c} : active'[e] = active[e] /\ op'[e] = op[e]
      /\ \A x \in Branch \ {b} : jstate'[x] = jstate[x] /\ db'[x] = db[x]
  BY <1>1, <1>2 DEF ResolveActiveIntent, TypeOK, journalVars, dbVars, startVars, history, Write
<1>5. /\ active'[c] = b /\ db'[b] = db[b]
      /\ \/ op'[c] = NoOp /\ jstate'[b] \in {"ACTIVE"} \cup OnePhaseIntent
         \/ op'[c] = Doing("resolve", b, "COMMITTING_ONE_PHASE", "COMMITTED") /\ jstate'[b] = "COMMITTING_ONE_PHASE"
         \/ op'[c] = Doing("resolve", b, "ROLLING_BACK_ACTIVE", "ROLLED_BACK") /\ jstate'[b] = "ROLLING_BACK_ACTIVE"
  BY <1>1, <1>2, ConstantsAssumption DEF ResolveActiveIntent, TypeOK, ConstantsAssumption, Write,
     dbVars, TerminalOf, OnePhaseIntent
<1>6. HeldInv(c)'
  BY <1>1, <1>2, <1>4, <1>5 DEF HeldInv, HeldRow, OnePhaseIntent
<1>7. OpInv(c)'
  BY <1>1, <1>2, <1>4, <1>5 DEF OpInv, Doing, NoOp, OnePhaseIntent
<1>8. \A x \in Branch \ {b} : Holds(c, x)' => Holds(c, x)
  BY <1>1, <1>2, <1>5, ConstantsAssumption DEF Holds, Doing, NoOp, ConstantsAssumption
<1>9. /\ InDoubt(db'[b]) => IsRecoverable(jstate'[b]) /\ b \notin forgotten
      /\ b \in forgotten => IsTerminal(jstate'[b]) \/ jstate'[b] \in {"ABSENT", "ROLLING_BACK_ACTIVE"}
  BY <1>1, <1>2, <1>5 DEF Inv, InDoubtListed, ForgottenInv, IsRecoverable, IsTerminal, Intent,
     OnePhaseIntent, Resolved, Heuristic
<1> QED
  BY <1>1, <1>3, <1>4, <1>6, <1>7, <1>8, <1>9, ConnFrame

\* A resolved branch is not in doubt; one that Oracle completed itself is still listed.
LEMMA ResolveActiveXaInd ==
  ASSUME TypeOK, TypeOK', Inv, NEW c \in Conn, ResolveActiveXa(c)
  PROVE  Inv'
<1> DEFINE b == op[c].b
<1>1. /\ b \in Branch /\ phase = "up"
      /\ Holds(c, b) /\ OpInv(c) /\ HeldInv(c)
  BY OpBranch DEF ResolveActiveXa, Busy
<1>2. /\ active[c] = b /\ jstate[b] = op[c].from /\ b \notin forgotten /\ op[c].from \in OnePhaseIntent
      /\ op[c].goal = IF op[c].from = "COMMITTING_ONE_PHASE" THEN "COMMITTED" ELSE "ROLLED_BACK"
      /\ ~InDoubt(db[b])
  BY <1>1, ConstantsAssumption DEF ResolveActiveXa, ConstantsAssumption, Busy, OpInv, HeldInv,
     TypeOK
<1>3. /\ \A e \in Conn \ {c} : ~Holds(e, b)
      /\ \A w \in Worker : Resolving(w) => task[w].b # b
  BY <1>1, <1>2, HeldAlone
<1>4. /\ UNCHANGED <<task, phase, scan, todo, forgotten>>
      /\ \A e \in Conn \ {c} : active'[e] = active[e] /\ op'[e] = op[e]
      /\ \A x \in Branch \ {b} : jstate'[x] = jstate[x] /\ db'[x] = db[x]
  BY <1>1, <1>2 DEF ResolveActiveXa, TypeOK, journalVars, dbVars, startVars, history
<1>5. /\ jstate'[b] = op[c].from /\ op'[c].b = b /\ op'[c].from = op[c].from
      /\ \/ op'[c].pc = "recordResolve" /\ op'[c].goal = op[c].goal /\ active'[c] = b /\ db'[b] = "none"
         \/ op'[c].pc = "recordFailure" /\ op'[c].goal \in Heuristic /\ active'[c] = NoBranch
  BY <1>1, <1>2, ConstantsAssumption DEF ResolveActiveXa, TypeOK, ConstantsAssumption, journalVars,
     Heuristic, Doing
<1>6. HeldInv(c)'
  BY <1>1, <1>2, <1>4, <1>5 DEF HeldInv, HeldRow, OnePhaseIntent, InDoubt, Heuristic
<1>7. OpInv(c)'
  BY <1>1, <1>2, <1>4, <1>5 DEF OpInv, Doing, NoOp, OnePhaseIntent
<1>8. \A x \in Branch \ {b} : Holds(c, x)' => Holds(c, x)
  BY <1>1, <1>2, <1>5, ConstantsAssumption DEF Holds, Doing, NoOp, ConstantsAssumption
<1>9. /\ InDoubt(db'[b]) => IsRecoverable(jstate'[b]) /\ b \notin forgotten
      /\ b \in forgotten => IsTerminal(jstate'[b]) \/ jstate'[b] \in {"ABSENT", "ROLLING_BACK_ACTIVE"}
  BY <1>1, <1>2, <1>5 DEF Inv, InDoubtListed, ForgottenInv, IsRecoverable, IsTerminal, Intent,
     OnePhaseIntent, Resolved, Heuristic
<1> QED
  BY <1>1, <1>3, <1>4, <1>6, <1>7, <1>8, <1>9, ConnFrame

\* A branch resolved through its connection is not in doubt.
LEMMA RecordResolveInd ==
  ASSUME TypeOK, TypeOK', Inv, NEW c \in Conn, RecordResolve(c)
  PROVE  Inv'
<1> DEFINE b == op[c].b
<1>1. /\ b \in Branch /\ phase = "up"
      /\ Holds(c, b) /\ OpInv(c) /\ HeldInv(c)
  BY OpBranch DEF RecordResolve, Busy
<1>2. /\ active[c] = b /\ jstate[b] = op[c].from /\ b \notin forgotten /\ op[c].from \in OnePhaseIntent
      /\ op[c].goal = IF op[c].from = "COMMITTING_ONE_PHASE" THEN "COMMITTED" ELSE "ROLLED_BACK"
      /\ ~InDoubt(db[b])
  BY <1>1, ConstantsAssumption DEF RecordResolve, ConstantsAssumption, Busy, OpInv, HeldInv, TypeOK
<1>3. /\ \A e \in Conn \ {c} : ~Holds(e, b)
      /\ \A w \in Worker : Resolving(w) => task[w].b # b
  BY <1>1, <1>2, HeldAlone
<1>4. /\ UNCHANGED <<task, phase, scan, todo, forgotten>>
      /\ \A e \in Conn \ {c} : active'[e] = active[e] /\ op'[e] = op[e]
      /\ \A x \in Branch \ {b} : jstate'[x] = jstate[x] /\ db'[x] = db[x]
  BY <1>1, <1>2 DEF RecordResolve, TypeOK, journalVars, dbVars, startVars, history, Write
<1>5. /\ op'[c] = NoOp /\ db'[b] = db[b] /\ active'[c] \in {b, NoBranch}
      /\ jstate'[b] \in {op[c].from, op[c].goal}
  BY <1>1, <1>2, ConstantsAssumption DEF RecordResolve, TypeOK, ConstantsAssumption, Write, dbVars
<1>6. HeldInv(c)'
  BY <1>1, <1>2, <1>4, <1>5 DEF HeldInv, HeldRow, OnePhaseIntent
<1>7. OpInv(c)'
  BY <1>1, <1>2, <1>4, <1>5 DEF OpInv, Doing, NoOp, OnePhaseIntent
<1>8. \A x \in Branch \ {b} : Holds(c, x)' => Holds(c, x)
  BY <1>1, <1>2, <1>5, ConstantsAssumption DEF Holds, Doing, NoOp, ConstantsAssumption
<1>9. /\ InDoubt(db'[b]) => IsRecoverable(jstate'[b]) /\ b \notin forgotten
      /\ b \in forgotten => IsTerminal(jstate'[b]) \/ jstate'[b] \in {"ABSENT", "ROLLING_BACK_ACTIVE"}
  BY <1>1, <1>2, <1>5 DEF Inv, InDoubtListed, ForgottenInv, IsRecoverable, IsTerminal, Intent,
     OnePhaseIntent, Resolved, Heuristic
<1> QED
  BY <1>1, <1>3, <1>4, <1>6, <1>7, <1>8, <1>9, ConnFrame

\* A failed resolution is recorded in a state that is still listed.
LEMMA RecordFailureInd ==
  ASSUME TypeOK, TypeOK', Inv, NEW c \in Conn, RecordFailure(c)
  PROVE  Inv'
<1> DEFINE b == op[c].b
<1>1. /\ b \in Branch /\ phase = "up"
      /\ Holds(c, b) /\ OpInv(c) /\ HeldInv(c)
  BY OpBranch DEF RecordFailure, Busy
<1>2. /\ active[c] = NoBranch /\ jstate[b] = op[c].from /\ b \notin forgotten
      /\ op[c].from \in OnePhaseIntent /\ op[c].goal \in Heuristic
  BY <1>1, ConstantsAssumption DEF RecordFailure, ConstantsAssumption, Busy, OpInv
<1>3. /\ \A e \in Conn \ {c} : ~Holds(e, b)
      /\ \A w \in Worker : Resolving(w) => task[w].b # b
  BY <1>1, <1>2, HeldAlone
<1>4. /\ UNCHANGED <<task, phase, scan, todo, forgotten>>
      /\ \A e \in Conn \ {c} : active'[e] = active[e] /\ op'[e] = op[e]
      /\ \A x \in Branch \ {b} : jstate'[x] = jstate[x] /\ db'[x] = db[x]
  BY <1>1, <1>2 DEF RecordFailure, TypeOK, journalVars, dbVars, startVars, history, Write
<1>5. /\ op'[c] = NoOp /\ db'[b] = db[b] /\ active'[c] = NoBranch
      /\ jstate'[b] \in {op[c].from, op[c].goal}
  BY <1>1, <1>2, ConstantsAssumption DEF RecordFailure, TypeOK, ConstantsAssumption, Write, dbVars
<1>6. HeldInv(c)'
  BY <1>1, <1>2, <1>4, <1>5 DEF HeldInv, HeldRow, OnePhaseIntent
<1>7. OpInv(c)'
  BY <1>1, <1>2, <1>4, <1>5 DEF OpInv, Doing, NoOp, OnePhaseIntent
<1>8. \A x \in Branch \ {b} : Holds(c, x)' => Holds(c, x)
  BY <1>1, <1>2, <1>5, ConstantsAssumption DEF Holds, Doing, NoOp, ConstantsAssumption
<1>9. /\ InDoubt(db'[b]) => IsRecoverable(jstate'[b]) /\ b \notin forgotten
      /\ b \in forgotten => IsTerminal(jstate'[b]) \/ jstate'[b] \in {"ABSENT", "ROLLING_BACK_ACTIVE"}
  BY <1>1, <1>2, <1>5 DEF Inv, InDoubtListed, ForgottenInv, IsRecoverable, IsTerminal, Intent,
     OnePhaseIntent, Resolved, Heuristic
<1> QED
  BY <1>1, <1>3, <1>4, <1>6, <1>7, <1>8, <1>9, ConnFrame

\* close() rolls back a branch that is not in doubt.
LEMMA CloseXaInd ==
  ASSUME TypeOK, TypeOK', Inv, NEW c \in Conn, CloseXa(c)
  PROVE  Inv'
<1> DEFINE b == op[c].b
<1>1. /\ b \in Branch /\ phase = "up"
      /\ Holds(c, b) /\ OpInv(c) /\ HeldInv(c)
  BY OpBranch DEF CloseXa, Busy
<1>2. /\ active[c] = NoBranch /\ jstate[b] \in {"ROLLING_BACK_ACTIVE", "ABSENT"} /\ (jstate[b] = "ABSENT" => b \in forgotten)
      /\ op[c].from = "ROLLING_BACK_ACTIVE" /\ op[c].goal = "ROLLED_BACK"
      /\ ~InDoubt(db[b])
  BY <1>1, ConstantsAssumption DEF CloseXa, ConstantsAssumption, Busy, OpInv
<1>3. /\ \A e \in Conn \ {c} : ~Holds(e, b)
      /\ \A w \in Worker : Resolving(w) => task[w].b # b
  BY <1>1, <1>2, HeldAlone
<1>4. /\ UNCHANGED <<task, phase, scan, todo, forgotten>>
      /\ \A e \in Conn \ {c} : active'[e] = active[e] /\ op'[e] = op[e]
      /\ \A x \in Branch \ {b} : jstate'[x] = jstate[x] /\ db'[x] = db[x]
  BY <1>1, <1>2 DEF CloseXa, TypeOK, journalVars, dbVars, startVars, history
<1>5. /\ active'[c] = NoBranch /\ jstate'[b] = jstate[b] /\ ~InDoubt(db'[b])
      /\ op'[c] = NoOp \/ op'[c] = Doing("recordClose", b, "ROLLING_BACK_ACTIVE", "ROLLED_BACK")
  BY <1>1, <1>2, ConstantsAssumption DEF CloseXa, TypeOK, ConstantsAssumption, journalVars,
     InDoubt, Heuristic
<1>6. HeldInv(c)'
  BY <1>1, <1>2, <1>4, <1>5 DEF HeldInv, HeldRow, OnePhaseIntent
<1>7. OpInv(c)'
  BY <1>1, <1>2, <1>4, <1>5 DEF OpInv, Doing, NoOp, OnePhaseIntent
<1>8. \A x \in Branch \ {b} : Holds(c, x)' => Holds(c, x)
  BY <1>1, <1>2, <1>5, ConstantsAssumption DEF Holds, Doing, NoOp, ConstantsAssumption
<1>9. /\ InDoubt(db'[b]) => IsRecoverable(jstate'[b]) /\ b \notin forgotten
      /\ b \in forgotten => IsTerminal(jstate'[b]) \/ jstate'[b] \in {"ABSENT", "ROLLING_BACK_ACTIVE"}
  BY <1>1, <1>2, <1>5 DEF Inv, InDoubtListed, ForgottenInv, IsRecoverable, IsTerminal, Intent,
     OnePhaseIntent, Resolved, Heuristic
<1> QED
  BY <1>1, <1>3, <1>4, <1>6, <1>7, <1>8, <1>9, ConnFrame

\* The rollback that close() made is recorded.
LEMMA RecordCloseInd ==
  ASSUME TypeOK, TypeOK', Inv, NEW c \in Conn, RecordClose(c)
  PROVE  Inv'
<1> DEFINE b == op[c].b
<1>1. /\ b \in Branch /\ phase = "up"
      /\ Holds(c, b) /\ OpInv(c) /\ HeldInv(c)
  BY OpBranch DEF RecordClose, Busy
<1>2. /\ active[c] = NoBranch /\ jstate[b] \in {"ROLLING_BACK_ACTIVE", "ABSENT"} /\ (jstate[b] = "ABSENT" => b \in forgotten)
      /\ op[c].from = "ROLLING_BACK_ACTIVE" /\ op[c].goal = "ROLLED_BACK"
      /\ ~InDoubt(db[b])
  BY <1>1, ConstantsAssumption DEF RecordClose, ConstantsAssumption, Busy, OpInv
<1>3. /\ \A e \in Conn \ {c} : ~Holds(e, b)
      /\ \A w \in Worker : Resolving(w) => task[w].b # b
  BY <1>1, <1>2, HeldAlone
<1>4. /\ UNCHANGED <<task, phase, scan, todo, forgotten>>
      /\ \A e \in Conn \ {c} : active'[e] = active[e] /\ op'[e] = op[e]
      /\ \A x \in Branch \ {b} : jstate'[x] = jstate[x] /\ db'[x] = db[x]
  BY <1>1, <1>2 DEF RecordClose, TypeOK, journalVars, dbVars, startVars, history, Write
<1>5. /\ active'[c] = NoBranch /\ op'[c] = NoOp /\ db'[b] = db[b]
      /\ jstate'[b] \in {jstate[b], "ROLLED_BACK"}
  BY <1>1, <1>2, ConstantsAssumption DEF RecordClose, TypeOK, ConstantsAssumption, Write, dbVars
<1>6. HeldInv(c)'
  BY <1>1, <1>2, <1>4, <1>5 DEF HeldInv, HeldRow, OnePhaseIntent
<1>7. OpInv(c)'
  BY <1>1, <1>2, <1>4, <1>5 DEF OpInv, Doing, NoOp, OnePhaseIntent
<1>8. \A x \in Branch \ {b} : Holds(c, x)' => Holds(c, x)
  BY <1>1, <1>2, <1>5, ConstantsAssumption DEF Holds, Doing, NoOp, ConstantsAssumption
<1>9. /\ InDoubt(db'[b]) => IsRecoverable(jstate'[b]) /\ b \notin forgotten
      /\ b \in forgotten => IsTerminal(jstate'[b]) \/ jstate'[b] \in {"ABSENT", "ROLLING_BACK_ACTIVE"}
  BY <1>1, <1>2, <1>5 DEF Inv, InDoubtListed, ForgottenInv, IsRecoverable, IsTerminal, Intent,
     OnePhaseIntent, Resolved, Heuristic
<1> QED
  BY <1>1, <1>3, <1>4, <1>6, <1>7, <1>8, <1>9, ConnFrame

\* A step that touches nothing Inv speaks of.
LEMMA Untouched ==
  ASSUME Inv, UNCHANGED <<jstate, db, active, op, task, phase, scan, todo, forgotten>>
  PROVE  Inv'
<1>1. InDoubtListed' /\ DownInv' /\ ForgottenInv' /\ ScanInv'
  BY DEF Inv, InDoubtListed, DownInv, ForgottenInv, ScanInv
<1>2. ASSUME NEW c \in Conn PROVE HeldInv(c)' /\ OpInv(c)'
  BY DEF Inv, HeldInv, OpInv
<1>3. HolderInv'
  BY DEF Inv, HolderInv, Holds
<1>4. ASSUME NEW w \in Worker PROVE WorkerInv(w)'
  BY DEF Inv, WorkerInv, Resolving, Holds
<1>5. StartupInv'
  BY DEF Inv, StartupInv
<1> QED
  BY <1>1, <1>2, <1>3, <1>4, <1>5 DEF Inv

\* Opening, a local transaction and repeated requests do not concern a branch's row.
LEMMA ConnCallUntouched ==
  ASSUME NEW c \in Conn,
         \/ OpenConnection(c) \/ BeginTransaction(c) \/ FinishTransaction(c)
         \/ \E b \in Branch : PrepareAgain(c, b) \/ ResolveActiveAgain(c, b)
  PROVE  UNCHANGED <<jstate, db, active, op, task, phase, scan, todo, forgotten>>
  BY DEF OpenConnection, BeginTransaction, FinishTransaction, PrepareAgain, ResolveActiveAgain,
         journalVars, dbVars, connVars, startVars, history

\* close() announces a rollback of what the connection holds, and only of that.
LEMMA CloseIntentInd ==
  ASSUME TypeOK, TypeOK', Inv, NEW c \in Conn, CloseIntent(c)
  PROVE  Inv'
<1> DEFINE b == active[c]
<1>1. /\ phase = "up" /\ op[c] = NoOp /\ op[c].b = NoBranch
      /\ b \in Branch \cup {NoBranch} /\ HeldInv(c) /\ OpInv(c)
  BY OpFields, NoOpType DEF CloseIntent, Ready, TypeOK, Inv
<1>2. CASE b = NoBranch
  <2>1. UNCHANGED <<jstate, db, op, task, phase, scan, todo, forgotten>>
    BY <1>2, ConstantsAssumption DEF CloseIntent, ConstantsAssumption, dbVars, startVars, history
  <2>2. active' = active
    BY <1>2 DEF CloseIntent, TypeOK
  <2> QED
    BY <2>1, <2>2, Untouched
<1>3. CASE b \in Branch
  <2>1. /\ Holds(c, b) /\ jstate[b] \in HeldRow /\ ~InDoubt(db[b])
        /\ jstate[b] = "ABSENT" => b \in forgotten
    BY <1>1, <1>3, ConstantsAssumption DEF Holds, HeldInv, ConstantsAssumption
  <2>2. /\ \A e \in Conn \ {c} : ~Holds(e, b)
        /\ \A w \in Worker : Resolving(w) => task[w].b # b
    BY <1>3, <2>1, HeldAlone
  <2>3. /\ UNCHANGED <<task, phase, scan, todo, forgotten, db>>
        /\ \A e \in Conn \ {c} : active'[e] = active[e] /\ op'[e] = op[e]
        /\ \A x \in Branch \ {b} : jstate'[x] = jstate[x]
    BY DEF CloseIntent, Write, TypeOK, dbVars, startVars, history
  <2>4. /\ active'[c] = NoBranch
        /\ \/ op'[c] = NoOp /\ jstate'[b] \in {jstate[b], "ROLLING_BACK_ACTIVE"}
           \/ /\ op'[c] = Doing("closing", b, "ROLLING_BACK_ACTIVE", "ROLLED_BACK")
              /\ jstate'[b] = "ROLLING_BACK_ACTIVE"
    BY <1>1, <1>3 DEF CloseIntent, Write, TypeOK
  <2>5. HeldInv(c)'
    BY <2>4 DEF HeldInv
  <2>6. OpInv(c)'
    BY <1>1, <2>1, <2>3, <2>4 DEF OpInv, Doing, NoOp
  <2>7. \A x \in Branch \ {b} : Holds(c, x)' => Holds(c, x)
    BY <1>1, <2>4, ConstantsAssumption DEF Holds, Doing, NoOp, ConstantsAssumption
  <2>8. /\ ~InDoubt(db'[b])
        /\ b \in forgotten => IsTerminal(jstate'[b]) \/ jstate'[b] \in {"ABSENT", "ROLLING_BACK_ACTIVE"}
    BY <2>1, <2>3, <2>4 DEF Inv, ForgottenInv
  <2> QED
    BY <1>1, <1>3, <2>2, <2>3, <2>5, <2>6, <2>7, <2>8, ConnFrame
<1> QED
  BY <1>1, <1>2, <1>3

\* A branch in doubt, or whose detached resolution is announced, is held by nobody.
LEMMA HeldRows ==
  ASSUME TypeOK, Inv, NEW c \in Conn, NEW b \in Branch, Holds(c, b)
  PROVE  jstate[b] \in HeldRow
<1>1. CASE active[c] = b
  BY <1>1, ConstantsAssumption DEF Inv, HeldInv, ConstantsAssumption
<1>2. CASE op[c].b = b
  <2>1. op[c] \in Op /\ op[c].pc # "idle"
    BY <1>2, OpFields, NoOpType, ConstantsAssumption DEF TypeOK, ConstantsAssumption
  <2>2. OpInv(c) /\ op[c].pc \in OpPc
    BY <2>1, OpFields DEF Inv
  <2> QED
    BY <1>2, <2>2 DEF OpInv, OpPc, HeldRow, OnePhaseIntent
<1> QED
  BY <1>1, <1>2 DEF Holds

\* What a thread knows of the branch it works on.
LEMMA TaskBranch ==
  ASSUME TypeOK, Inv, NEW w \in Worker, task[w].pc # "idle"
  PROVE  /\ w \in Thread /\ w # Startup
         /\ task[w].b \in Branch /\ task[w].decision \in Decision /\ WorkerInv(w)
<1>1. w \in Thread /\ w # Startup
  BY ConstantsAssumption DEF ConstantsAssumption, Thread
<1>2. task[w] \in Task
  BY <1>1 DEF TypeOK
<1> QED
  BY <1>1, <1>2, TaskFields DEF Inv

\* A resolution is asked for: nothing is announced yet.
LEMMA CallResolveInd ==
  ASSUME TypeOK, TypeOK', Inv, NEW w \in Worker, NEW b \in Branch, NEW d \in Decision,
         CallResolve(w, b, d)
  PROVE  Inv'
<1>1. /\ phase = "up" /\ w \in Thread
      /\ UNCHANGED <<jstate, db, active, op, phase, scan, todo, forgotten>>
      /\ \A t \in Thread \ {w} : task'[t] = task[t]
      /\ task'[w].pc = "find"
  BY ConstantsAssumption DEF CallResolve, At, Running, GoOn, Job, TypeOK, Thread,
     ConstantsAssumption,
     journalVars, dbVars, connVars, startVars
<1>2. WorkerInv(w)'
  BY <1>1 DEF WorkerInv, Resolving
<1> QED
  BY <1>1, <1>2, WorkerFrame DEF Inv, InDoubtListed, ForgottenInv

\* A thread finds a resolution announced, a prepared branch, or nothing to do.
LEMMA ResolveFindInd ==
  ASSUME TypeOK, TypeOK', Inv, NEW w \in Worker, ResolveFind(w)
  PROVE  Inv'
<1> DEFINE b == task[w].b
<1>1. b \in Branch /\ w \in Thread /\ w # Startup
  BY TaskBranch DEF ResolveFind, At
<1>2. /\ phase = "up"
      /\ UNCHANGED <<jstate, db, active, op, phase, scan, todo, forgotten>>
      /\ \A t \in Thread \ {w} : task'[t] = task[t]
  BY <1>1 DEF ResolveFind, At, Running, GoOn, Reply, Throw, TypeOK, journalVars, dbVars, connVars,
     startVars
<1>3. \/ task'[w].pc \in {"idle", "cas"}
      \/ /\ task'[w].pc = "finishScan" /\ task'[w].b = b
         /\ task'[w].from = IntentOf(task'[w].decision) /\ jstate[b] = task'[w].from
         /\ jstate[b] \in {"COMMITTING", "ROLLING_BACK"}
  BY <1>1, NoTaskType DEF ResolveFind, GoOn, Reply, Throw, Job, TypeOK, IntentOf
<1>4. jstate[b] \in {"COMMITTING", "ROLLING_BACK"} => \A c \in Conn : ~Holds(c, b)
  BY <1>1, HeldRows DEF HeldRow, OnePhaseIntent
<1>5. WorkerInv(w)'
  BY <1>2, <1>3, <1>4 DEF WorkerInv, Resolving, Holds
<1> QED
  BY <1>1, <1>2, <1>5, WorkerFrame DEF Inv, InDoubtListed, ForgottenInv

\* A prepared branch, which nobody holds, has its resolution announced.
LEMMA ResolveCasInd ==
  ASSUME TypeOK, TypeOK', Inv, NEW w \in Worker, ResolveCas(w)
  PROVE  Inv'
<1> DEFINE b == task[w].b
           d == task[w].decision
<1>1. b \in Branch /\ w \in Thread /\ w # Startup
  BY TaskBranch DEF ResolveCas, At
<1>2. /\ phase = "up"
      /\ UNCHANGED <<db, active, op, phase, scan, todo, forgotten>>
      /\ \A t \in Thread \ {w} : task'[t] = task[t]
      /\ \A x \in Branch \ {b} : jstate'[x] = jstate[x]
  BY <1>1 DEF ResolveCas, At, Running, GoOn, Throw, Write, TypeOK, dbVars, connVars, startVars
<1>3. jstate'[b] = jstate[b] \/ (jstate[b] = "PREPARED" /\ jstate'[b] = IntentOf(d))
  BY <1>1 DEF ResolveCas, Write, TypeOK
<1>4. \/ task'[w].pc \in {"idle", "find"}
      \/ /\ task'[w].pc = "scan" /\ task'[w].b = b
         /\ task'[w].from = IntentOf(task'[w].decision) /\ jstate'[b] = task'[w].from
         /\ jstate[b] = "PREPARED"
  BY <1>1, NoTaskType DEF ResolveCas, GoOn, Throw, Job, TypeOK, Write
<1>5. jstate[b] = "PREPARED" => b \notin forgotten /\ \A c \in Conn : ~Holds(c, b)
  BY <1>1, HeldRows DEF Inv, ForgottenInv, IsTerminal, Resolved, Heuristic, HeldRow, OnePhaseIntent
<1>6. WorkerInv(w)'
  BY <1>2, <1>4, <1>5 DEF WorkerInv, Resolving, Holds
<1>7. /\ InDoubt(db'[b]) => IsRecoverable(jstate'[b])
      /\ b \in forgotten => IsTerminal(jstate'[b]) \/ jstate'[b] \in {"ABSENT", "ROLLING_BACK_ACTIVE"}
  BY <1>1, <1>2, <1>3, <1>5 DEF Inv, InDoubtListed, ForgottenInv, IsRecoverable, IntentOf, Intent
<1> QED
  BY <1>1, <1>2, <1>3, <1>6, <1>7, WorkerFrame

\* The scan tells whether the branch is still in doubt; the row stays.
LEMMA ResolveScanInd ==
  ASSUME TypeOK, TypeOK', Inv, NEW w \in Worker, ResolveScan(w)
  PROVE  Inv'
<1> DEFINE b == task[w].b
<1>1. b \in Branch /\ w \in Thread /\ w # Startup /\ Resolving(w) /\ WorkerInv(w)
  BY TaskBranch DEF ResolveScan, At, Resolving
<1>2. /\ phase = "up"
      /\ UNCHANGED <<jstate, db, active, op, phase, scan, todo, forgotten>>
      /\ \A t \in Thread \ {w} : task'[t] = task[t]
  BY <1>1 DEF ResolveScan, At, Running, GoOn, Throw, TypeOK, journalVars, dbVars, connVars,
     startVars
<1>3. \/ task'[w].pc = "idle"
      \/ /\ task'[w].b = b /\ task'[w].from = task[w].from /\ task'[w].decision = task[w].decision
         /\ \/ task'[w].pc = "xa"
            \/ /\ task'[w].pc = "record" /\ ~InDoubt(db[b])
               /\ task'[w].goal \in {"HEURISTIC_HAZARD", TerminalOf(task[w].decision)}
  BY <1>1, NoTaskType DEF ResolveScan, GoOn, Throw, Job, TypeOK
<1>4. WorkerInv(w)'
  BY <1>1, <1>2, <1>3 DEF WorkerInv, Resolving, Holds, Heuristic
<1> QED
  BY <1>1, <1>2, <1>4, WorkerFrame DEF Inv, InDoubtListed, ForgottenInv

\* The resource manager is asked to resolve the branch; the row stays.
LEMMA WorkerXaInd ==
  ASSUME TypeOK, TypeOK', Inv, NEW w \in Worker, ResolveXa(w)
  PROVE  Inv'
<1> DEFINE b == task[w].b
<1>1. b \in Branch /\ w \in Thread /\ w # Startup /\ Resolving(w) /\ WorkerInv(w)
  BY TaskBranch DEF ResolveXa, At, Resolving
<1>2. /\ phase = "up"
      /\ UNCHANGED <<jstate, active, op, phase, scan, todo, forgotten>>
      /\ \A t \in Thread \ {w} : task'[t] = task[t]
      /\ \A x \in Branch \ {b} : db'[x] = db[x]
  BY <1>1 DEF ResolveXa, At, Running, GoOn, Throw, TypeOK, journalVars, dbVars, connVars, startVars
<1>3. InDoubt(db'[b]) => InDoubt(db[b])
  BY <1>1 DEF ResolveXa, TypeOK, InDoubt, dbVars, Heuristic
<1>4. \/ task'[w].pc = "idle"
      \/ /\ task'[w].b = b /\ task'[w].from = task[w].from /\ task'[w].decision = task[w].decision
         /\ \/ task'[w].pc \in {"record", "nota"} /\ ~InDoubt(db'[b]) /\ task'[w].goal = TerminalOf(task[w].decision)
            \/ task'[w].pc = "record" /\ task'[w].goal \in Heuristic
  BY <1>1, NoTaskType DEF ResolveXa, GoOn, Throw, Job, TypeOK, InDoubt, dbVars, Heuristic
<1>5. WorkerInv(w)'
  BY <1>1, <1>2, <1>4 DEF WorkerInv, Resolving, Holds
<1> QED
  BY <1>1, <1>2, <1>3, <1>5, WorkerFrame DEF Inv, InDoubtListed, ForgottenInv

\* After XAER_NOTA the terminal row is returned, or the outcome is recorded.
LEMMA WorkerNotaInd ==
  ASSUME TypeOK, TypeOK', Inv, NEW w \in Worker, ResolveNota(w)
  PROVE  Inv'
<1> DEFINE b == task[w].b
<1>1. b \in Branch /\ w \in Thread /\ w # Startup /\ task[w].pc = "nota" /\ WorkerInv(w)
  BY TaskBranch DEF ResolveNota, At
<1>2. /\ phase = "up"
      /\ UNCHANGED <<jstate, db, active, op, phase, scan, todo, forgotten>>
      /\ \A t \in Thread \ {w} : task'[t] = task[t]
  BY <1>1 DEF ResolveNota, At, Running, GoOn, Reply, TypeOK, journalVars, dbVars, connVars,
     startVars
<1>3. \/ task'[w].pc = "idle"
      \/ /\ task'[w].b = b /\ task'[w].from = task[w].from /\ task'[w].decision = task[w].decision
         /\ task'[w].pc = "record" /\ task'[w].goal = task[w].goal
  BY <1>1, NoTaskType DEF ResolveNota, GoOn, Reply, Job, TypeOK
<1>4. WorkerInv(w)'
  BY <1>1, <1>2, <1>3 DEF WorkerInv, Resolving, Holds
<1> QED
  BY <1>1, <1>2, <1>4, WorkerFrame DEF Inv, InDoubtListed, ForgottenInv

\* The outcome recorded is heuristic, or that of a branch no longer in doubt.
LEMMA WorkerRecordInd ==
  ASSUME TypeOK, TypeOK', Inv, NEW w \in Worker, ResolveRecord(w)
  PROVE  Inv'
<1> DEFINE b == task[w].b
<1>1. b \in Branch /\ w \in Thread /\ w # Startup /\ task[w].pc = "record" /\ WorkerInv(w)
  BY TaskBranch DEF ResolveRecord, At
<1>2. /\ phase = "up" /\ task'[w] = NoTask
      /\ UNCHANGED <<db, active, op, phase, scan, todo, forgotten>>
      /\ \A t \in Thread \ {w} : task'[t] = task[t]
      /\ \A x \in Branch \ {b} : jstate'[x] = jstate[x]
  BY <1>1 DEF ResolveRecord, At, Running, Reply, Throw, Write, TypeOK, dbVars, connVars, startVars
<1>3. jstate'[b] \in {jstate[b], task[w].goal}
  BY <1>1 DEF ResolveRecord, Write, TypeOK
<1>4. /\ \A c \in Conn : ~Holds(c, b)
      /\ task[w].goal \in Heuristic \/ (task[w].goal = TerminalOf(task[w].decision) /\ ~InDoubt(db[b]))
  BY <1>1 DEF WorkerInv, Resolving
<1>5. WorkerInv(w)'
  BY <1>2, NoTaskType DEF WorkerInv, Resolving
<1>6. IsTerminal(task[w].goal)
  BY <1>4 DEF IsTerminal, TerminalOf, Resolved
<1>7. /\ InDoubt(db'[b]) => IsRecoverable(jstate'[b])
      /\ b \in forgotten => IsTerminal(jstate'[b]) \/ jstate'[b] \in {"ABSENT", "ROLLING_BACK_ACTIVE"}
  BY <1>1, <1>2, <1>3, <1>4, <1>6 DEF Inv, InDoubtListed, ForgottenInv, IsRecoverable
<1> QED
  BY <1>1, <1>2, <1>3, <1>4, <1>5, <1>6, <1>7, WorkerFrame

\* Only a branch with a terminal row is forgotten.
LEMMA CallForgetInd ==
  ASSUME TypeOK, TypeOK', Inv, NEW w \in Worker, NEW b \in Branch, CallForget(w, b)
  PROVE  Inv'
<1>1. w \in Thread /\ w # Startup
  BY ConstantsAssumption DEF ConstantsAssumption, Thread
<1>2. /\ phase = "up" /\ IsTerminal(jstate[b])
      /\ UNCHANGED <<jstate, db, active, op, phase, scan, todo>>
      /\ \A t \in Thread \ {w} : task'[t] = task[t]
      /\ forgotten' = forgotten \cup {b}
  BY <1>1 DEF CallForget, At, Running, GoOn, TypeOK, journalVars, dbVars, connVars, startVars
<1>3. /\ task'[w].b = b
      /\ \/ task'[w].pc = "forgetXa"
         \/ task'[w].pc = "forgetDelete" /\ jstate[b] \notin Heuristic
  BY <1>1 DEF CallForget, GoOn, Job, TypeOK
<1>4. jstate[b] \notin Heuristic => ~InDoubt(db[b])
  BY <1>2 DEF Inv, InDoubtListed, IsRecoverable, IsTerminal, Resolved, Intent, OnePhaseIntent
<1>5. WorkerInv(w)'
  BY <1>2, <1>3, <1>4 DEF WorkerInv, Resolving
<1>6. InDoubt(db'[b]) => InDoubt(db[b]) /\ IsRecoverable(jstate'[b])
  BY <1>2 DEF Inv, InDoubtListed
<1> QED
  BY <1>1, <1>2, <1>5, <1>6, WorkerFrame

\* The resource manager forgets the branch before its row goes.
LEMMA ForgetXaInd ==
  ASSUME TypeOK, TypeOK', Inv, NEW w \in Worker, ForgetXa(w)
  PROVE  Inv'
<1> DEFINE b == task[w].b
<1>1. b \in Branch /\ w \in Thread /\ w # Startup /\ task[w].pc = "forgetXa" /\ WorkerInv(w)
  BY TaskBranch DEF ForgetXa, At
<1>2. /\ phase = "up"
      /\ UNCHANGED <<jstate, active, op, phase, scan, todo, forgotten>>
      /\ \A t \in Thread \ {w} : task'[t] = task[t]
      /\ \A x \in Branch \ {b} : db'[x] = db[x]
  BY <1>1 DEF ForgetXa, At, Running, GoOn, Throw, TypeOK, journalVars, connVars, startVars
<1>3. InDoubt(db'[b]) => InDoubt(db[b])
  BY <1>1 DEF ForgetXa, TypeOK, InDoubt, Heuristic
<1>4. \/ task'[w].pc = "idle"
      \/ task'[w].pc = "forgetDelete" /\ task'[w].b = b /\ ~InDoubt(db'[b])
  BY <1>1, NoTaskType DEF ForgetXa, GoOn, Throw, Job, TypeOK, InDoubt, Heuristic
<1>5. WorkerInv(w)'
  BY <1>1, <1>2, <1>4 DEF WorkerInv, Resolving
<1> QED
  BY <1>1, <1>2, <1>3, <1>5, WorkerFrame DEF Inv, InDoubtListed, ForgottenInv

\* The row goes only when the branch is not in doubt.
LEMMA ForgetDeleteInd ==
  ASSUME TypeOK, TypeOK', Inv, NEW w \in Worker, ForgetDelete(w)
  PROVE  Inv'
<1> DEFINE b == task[w].b
<1>1. b \in Branch /\ w \in Thread /\ w # Startup /\ task[w].pc = "forgetDelete" /\ WorkerInv(w)
  BY TaskBranch DEF ForgetDelete, At
<1>2. /\ phase = "up" /\ task'[w] = NoTask
      /\ UNCHANGED <<db, active, op, phase, scan, todo, forgotten>>
      /\ \A t \in Thread \ {w} : task'[t] = task[t]
      /\ \A x \in Branch \ {b} : jstate'[x] = jstate[x]
      /\ jstate'[b] \in {jstate[b], "ABSENT"}
  BY <1>1 DEF ForgetDelete, At, Running, Delete, TypeOK, dbVars, connVars, startVars, history
<1>3. b \in forgotten /\ ~InDoubt(db[b])
  BY <1>1 DEF WorkerInv
<1>4. WorkerInv(w)'
  BY <1>2, NoTaskType DEF WorkerInv, Resolving
<1>5. IsTerminal(jstate'[b]) \/ jstate'[b] \in {"ABSENT", "ROLLING_BACK_ACTIVE"}
  BY <1>2, <1>3 DEF Inv, ForgottenInv
<1> QED
  BY <1>1, <1>2, <1>3, <1>4, <1>5, WorkerFrame

\* While the provider is not up no connection holds anything and no thread works.
LEMMA DownQuiet ==
  ASSUME Inv, phase # "up"
  PROVE  /\ \A c \in Conn : active[c] = NoBranch /\ op[c].pc = "idle"
         /\ \A w \in Worker : task[w].pc = "idle"
  BY DEF Inv, DownInv, WorkerInv

\* A step of the startup thread that keeps Inv: it changes what concerns one
\* branch that it has taken off its list.
LEMMA StartFrame ==
  ASSUME TypeOK, TypeOK', Inv, NEW b \in Branch,
         phase = "starting", phase' \in {"starting", "down"},
         UNCHANGED <<active, op, forgotten>>,
         \A w \in Worker : task'[w] = task[w],
         \A x \in Branch \ {b} : jstate'[x] = jstate[x] /\ db'[x] = db[x],
         b \notin todo', todo' \subseteq todo, phase' = "starting" => scan' = scan,
         InDoubt(db'[b]) => IsRecoverable(jstate'[b]),
         b \in forgotten => IsTerminal(jstate'[b]) \/ jstate'[b] \in {"ABSENT", "ROLLING_BACK_ACTIVE"},
         StartupInv'
  PROVE  Inv'
<1>1. InDoubtListed'
  BY DEF Inv, InDoubtListed
<1>2. DownInv'
  BY DownQuiet DEF DownInv
<1>3. ASSUME NEW c \in Conn PROVE HeldInv(c)' /\ OpInv(c)'
  <2>1. active'[c] = NoBranch /\ op'[c].pc = "idle"
    BY DownQuiet
  <2> QED
    BY <2>1 DEF HeldInv, OpInv
<1>4. HolderInv'
  BY DEF Inv, HolderInv, Holds
<1>5. ForgottenInv'
  <2>1. forgotten \subseteq Branch
    BY DEF TypeOK
  <2> QED
    BY <2>1 DEF Inv, ForgottenInv
<1>6. ASSUME NEW w \in Worker PROVE WorkerInv(w)'
  <2>1. task'[w].pc = "idle"
    BY DownQuiet
  <2> QED
    BY <2>1 DEF WorkerInv, Resolving
<1>7. ScanInv'
  <2>1. todo \subseteq Branch
    BY DEF TypeOK
  <2> QED
    BY <2>1 DEF Inv, ScanInv
<1> QED
  BY <1>1, <1>2, <1>3, <1>4, <1>5, <1>6, <1>7 DEF Inv

\* What the startup thread knows of the branch it is reconciling.
LEMMA StartBranch ==
  ASSUME TypeOK, Inv, task[Startup].pc # "idle"
  PROVE  /\ Startup \in Thread /\ Startup \notin Worker
         /\ task[Startup].b \in Branch /\ task[Startup].decision \in Decision
         /\ phase = "starting" /\ StartupInv
         /\ task[Startup].b \notin todo /\ jstate[task[Startup].b] = task[Startup].from
<1>1. Startup \in Thread /\ Startup \notin Worker
  BY ConstantsAssumption DEF ConstantsAssumption, Thread
<1>2. task[Startup] \in Task
  BY <1>1 DEF TypeOK
<1> QED
  BY <1>1, <1>2, TaskFields DEF Inv, StartupInv

\* An interrupted resolution is finished in the resource manager.
LEMMA StartupXaInd ==
  ASSUME TypeOK, TypeOK', Inv, ResolveXa(Startup)
  PROVE  Inv'
<1> DEFINE b == task[Startup].b
<1>1. task[Startup].pc = "xa"
  BY DEF ResolveXa, At
<1>2. /\ b \in Branch /\ Startup \in Thread /\ Startup \notin Worker /\ phase = "starting"
      /\ b \notin todo /\ jstate[b] = task[Startup].from /\ StartupInv
  BY <1>1, StartBranch
<1>3. /\ UNCHANGED <<jstate, active, op, forgotten>>
      /\ phase' \in {"starting", "down"} /\ (phase' = "starting" => scan' = scan /\ todo' = todo)
      /\ todo' \subseteq todo
      /\ \A w \in Worker : task'[w] = task[w]
      /\ \A x \in Branch \ {b} : db'[x] = db[x]
  BY <1>2 DEF ResolveXa, GoOn, Throw, TypeOK, Thread, journalVars, dbVars, connVars, startVars
<1>4. InDoubt(db'[b]) => InDoubt(db[b])
  BY <1>2 DEF ResolveXa, TypeOK, InDoubt, dbVars, Heuristic
<1>5. \/ task'[Startup].pc = "idle"
      \/ /\ phase' = "starting"
         /\ task'[Startup].b = b /\ task'[Startup].from = task[Startup].from
         /\ task'[Startup].decision = task[Startup].decision
         /\ \/ /\ task'[Startup].pc \in {"record", "nota"} /\ ~InDoubt(db'[b])
               /\ task'[Startup].goal = TerminalOf(task[Startup].decision)
            \/ task'[Startup].pc = "record" /\ task'[Startup].goal \in Heuristic
  BY <1>2, NoTaskType DEF ResolveXa, GoOn, Throw, Job, TypeOK, InDoubt, dbVars, startVars, Heuristic
<1>6. StartupInv'
  <2>1. CASE task'[Startup].pc = "idle"
    BY <2>1 DEF StartupInv
  <2>2. CASE task'[Startup].pc # "idle"
    BY <1>1, <1>2, <1>3, <1>5, <2>2 DEF StartupInv, TerminalOf, Resolved, Intent, OnePhaseIntent
  <2> QED
    BY <2>1, <2>2
<1>7. /\ InDoubt(db'[b]) => IsRecoverable(jstate'[b])
      /\ b \in forgotten => IsTerminal(jstate'[b]) \/ jstate'[b] \in {"ABSENT", "ROLLING_BACK_ACTIVE"}
  BY <1>2, <1>3, <1>4 DEF Inv, InDoubtListed, ForgottenInv
<1> QED
  BY <1>2, <1>3, <1>6, <1>7, StartFrame

\* The branch was gone: the row still announces what is now recorded.
LEMMA StartupNotaInd ==
  ASSUME TypeOK, TypeOK', Inv, ResolveNota(Startup)
  PROVE  Inv'
<1> DEFINE b == task[Startup].b
<1>1. task[Startup].pc = "nota"
  BY DEF ResolveNota, At
<1>2. /\ b \in Branch /\ Startup \in Thread /\ Startup \notin Worker /\ phase = "starting"
      /\ b \notin todo /\ jstate[b] = task[Startup].from /\ StartupInv
  BY <1>1, StartBranch
<1>3. /\ UNCHANGED <<jstate, db, active, op, forgotten, phase, scan, todo>>
      /\ \A w \in Worker : task'[w] = task[w]
  BY <1>2 DEF ResolveNota, GoOn, Reply, TypeOK, Thread, journalVars, dbVars, connVars, startVars
<1>4. \/ task'[Startup].pc = "idle"
      \/ /\ task'[Startup].b = b /\ task'[Startup].from = task[Startup].from
         /\ task'[Startup].pc = "record" /\ task'[Startup].goal = task[Startup].goal
  BY <1>2, NoTaskType DEF ResolveNota, GoOn, Reply, Job, TypeOK
<1>5. StartupInv'
  BY <1>1, <1>2, <1>3, <1>4 DEF StartupInv, TerminalOf, Resolved, Intent, OnePhaseIntent
<1> QED
  BY <1>2, <1>3, <1>5, StartFrame DEF Inv, InDoubtListed, ForgottenInv

\* What is recorded at startup is listed, or the branch is not in doubt.
LEMMA StartupRecordInd ==
  ASSUME TypeOK, TypeOK', Inv, ResolveRecord(Startup)
  PROVE  Inv'
<1> DEFINE b == task[Startup].b
<1>1. task[Startup].pc = "record"
  BY DEF ResolveRecord, At
<1>2. /\ b \in Branch /\ Startup \in Thread /\ Startup \notin Worker /\ phase = "starting"
      /\ b \notin todo /\ jstate[b] = task[Startup].from /\ StartupInv
  BY <1>1, StartBranch
<1>3. /\ UNCHANGED <<db, active, op, forgotten>>
      /\ phase' \in {"starting", "down"} /\ (phase' = "starting" => scan' = scan)
      /\ todo' \subseteq todo
      /\ task'[Startup] = NoTask
      /\ \A w \in Worker : task'[w] = task[w]
      /\ \A x \in Branch \ {b} : jstate'[x] = jstate[x]
      /\ jstate'[b] \in {jstate[b], task[Startup].goal}
  BY <1>2 DEF ResolveRecord, Reply, Throw, Write, TypeOK, Thread, dbVars, connVars, startVars
<1>4. StartupInv'
  BY <1>3, NoTaskType DEF StartupInv
<1>5. /\ task[Startup].from \in {"ACTIVE", "PREPARED"} \cup Intent
      /\ \/ task[Startup].goal = "PREPARED" /\ task[Startup].from \in {"PREPARING", "PREPARED"}
         \/ task[Startup].goal \in Heuristic
         \/ task[Startup].goal \in Resolved /\ ~InDoubt(db[b])
  BY <1>1, <1>2 DEF StartupInv
<1>6. InDoubt(db'[b]) => IsRecoverable(jstate'[b])
  BY <1>2, <1>3, <1>5 DEF Inv, InDoubtListed, IsRecoverable
<1>7. b \in forgotten => IsTerminal(jstate'[b]) \/ jstate'[b] \in {"ABSENT", "ROLLING_BACK_ACTIVE"}
  BY <1>2, <1>3, <1>5 DEF Inv, ForgottenInv, IsTerminal, Resolved, Heuristic
<1> QED
  BY <1>2, <1>3, <1>4, <1>6, <1>7, StartFrame

\* What the reconciliation of a pending row may decide.
LEMMA ReconcileGoalFacts ==
  ASSUME NEW s \in BranchState \cup {"ABSENT"}, NEW p \in BOOLEAN
  PROVE  /\ ReconcileGoal(s, p) = "xa" => s \in {"COMMITTING", "ROLLING_BACK", "ROLLING_BACK_ACTIVE"}
         /\ ReconcileGoal(s, p) \notin {s, "xa"} =>
              /\ s \in {"ACTIVE", "PREPARED"} \cup Intent
              /\ \/ ReconcileGoal(s, p) = "PREPARED" /\ s \in {"PREPARING", "PREPARED"}
                 \/ ReconcileGoal(s, p) \in Heuristic
                 \/ ReconcileGoal(s, p) \in Resolved /\ (~p \/ s = "ACTIVE")
<1>1. CASE p
  BY <1>1 DEF ReconcileGoal, BranchState, Heuristic, Resolved, Intent, OnePhaseIntent
<1>2. CASE ~p
  BY <1>2 DEF ReconcileGoal, BranchState, Heuristic, Resolved, Intent, OnePhaseIntent
<1> QED
  BY <1>1, <1>2

\* The startup thread decides on a row from the scan, which is still valid for it.
LEMMA ReconcileInd ==
  ASSUME TypeOK, TypeOK', Inv, NEW b \in Branch, Reconcile(b)
  PROVE  Inv'
<1> DEFINE s == jstate[b]
           goal == ReconcileGoal(s, b \in scan)
           d == IF s = "COMMITTING" THEN "commit" ELSE "rollback"
<1>1. /\ phase = "starting" /\ Startup \in Thread /\ Startup \notin Worker
      /\ task[Startup].pc = "idle" /\ b \in todo
      /\ UNCHANGED <<jstate, db, active, op, forgotten, phase, scan>>
      /\ todo' = todo \ {b}
  BY ConstantsAssumption DEF Reconcile, At, Running, ConstantsAssumption, Thread, journalVars,
     dbVars, connVars, history
<1>2. (b \in scan) <=> InDoubt(db[b])
  BY <1>1 DEF Inv, ScanInv
<1>3. s \in BranchState \cup {"ABSENT"}
  BY DEF TypeOK
<1>4. /\ goal = "xa" => s \in {"COMMITTING", "ROLLING_BACK", "ROLLING_BACK_ACTIVE"}
      /\ goal \notin {s, "xa"} =>
           /\ s \in {"ACTIVE", "PREPARED"} \cup Intent
           /\ \/ goal = "PREPARED" /\ s \in {"PREPARING", "PREPARED"}
              \/ goal \in Heuristic
              \/ goal \in Resolved /\ (b \notin scan \/ s = "ACTIVE")
  BY <1>3, ReconcileGoalFacts, (b \in scan) \in BOOLEAN
<1>5. s = "ACTIVE" => ~InDoubt(db[b])
  BY DEF Inv, InDoubtListed, IsRecoverable, Heuristic, Intent, OnePhaseIntent
<1>6. /\ \A w \in Worker : task'[w] = task[w]
      /\ \/ task'[Startup].pc = "idle"
         \/ /\ goal = "xa" /\ task'[Startup] = Job("xa", b, d, s, TerminalOf(d))
         \/ /\ goal \notin {s, "xa"} /\ task'[Startup] = Job("record", b, d, s, goal)
  BY <1>1 DEF Reconcile, TypeOK, Thread
<1>7. StartupInv'
  <2>1. CASE task'[Startup].pc = "idle"
    BY <2>1 DEF StartupInv
  <2>2. CASE goal = "xa" /\ task'[Startup] = Job("xa", b, d, s, TerminalOf(d))
    BY <1>1, <1>4, <2>2 DEF StartupInv, Job
  <2>3. CASE goal \notin {s, "xa"} /\ task'[Startup] = Job("record", b, d, s, goal)
    <3> HIDE DEF goal, s, d
    <3>1. \/ goal = "PREPARED" /\ s \in {"PREPARING", "PREPARED"}
          \/ goal \in Heuristic
          \/ goal \in Resolved /\ ~InDoubt(db[b])
      BY <1>2, <1>4, <1>5, <2>3
    <3>2. s \in {"ACTIVE", "PREPARED"} \cup Intent
      BY <1>4, <2>3
    <3> QED
      BY <1>1, <2>3, <3>1, <3>2 DEF StartupInv, Job, s
  <2> QED
    BY <1>6, <2>1, <2>2, <2>3
<1> QED
  BY <1>1, <1>6, <1>7, StartFrame DEF Inv, InDoubtListed, ForgottenInv

\* A crash leaves nobody holding anything.
LEMMA CrashInd ==
  ASSUME TypeOK, TypeOK', Inv, Crash
  PROVE  Inv'
<1>1. /\ UNCHANGED <<jstate, db, forgotten>> /\ phase' = "down"
      /\ \A c \in Conn : active'[c] = NoBranch /\ op'[c].pc = "idle" /\ op'[c].b = NoBranch
      /\ \A t \in Thread : task'[t].pc = "idle"
  BY NoOpType, NoTaskType DEF Crash, journalVars, dbVars, history
<1>2. InDoubtListed' /\ DownInv' /\ ForgottenInv' /\ ScanInv'
  BY <1>1 DEF Inv, InDoubtListed, DownInv, ForgottenInv, ScanInv
<1>3. \A c \in Conn : HeldInv(c)' /\ OpInv(c)'
  BY <1>1 DEF HeldInv, OpInv
<1>4. HolderInv'
  BY <1>1, ConstantsAssumption DEF HolderInv, Holds, ConstantsAssumption
<1>5. (\A w \in Worker : WorkerInv(w)') /\ StartupInv'
  BY <1>1 DEF WorkerInv, StartupInv, Resolving, Thread
<1> QED
  BY <1>2, <1>3, <1>4, <1>5 DEF Inv

\* A restart takes a scan of what is in doubt and a list of the pending rows.
LEMMA RestartInd ==
  ASSUME TypeOK, TypeOK', Inv, Restart
  PROVE  Inv'
<1>1. /\ UNCHANGED <<jstate, db, active, op, task, forgotten>>
      /\ phase = "down" /\ phase' = "starting"
      /\ scan' = {b \in Branch : InDoubt(db[b])} /\ todo' \subseteq Branch
  BY DEF Restart, journalVars, dbVars, connVars, history
<1>2. InDoubtListed' /\ DownInv' /\ ForgottenInv' /\ HolderInv'
  BY <1>1 DEF Inv, InDoubtListed, DownInv, ForgottenInv, HolderInv, Holds
<1>3. ScanInv'
  BY <1>1 DEF ScanInv
<1>4. \A c \in Conn : HeldInv(c)' /\ OpInv(c)'
  BY <1>1, DownQuiet DEF HeldInv, OpInv
<1>5. \A w \in Worker : WorkerInv(w)'
  BY <1>1, DownQuiet DEF WorkerInv, Resolving
<1>6. StartupInv'
  BY <1>1 DEF Inv, StartupInv
<1> QED
  BY <1>2, <1>3, <1>4, <1>5, <1>6 DEF Inv

\* The provider serves once every pending row has been visited.
LEMMA StartedInd ==
  ASSUME TypeOK, TypeOK', Inv, Started
  PROVE  Inv'
<1>1. /\ UNCHANGED <<jstate, db, active, op, task, forgotten>>
      /\ phase = "starting" /\ phase' = "up" /\ task[Startup].pc = "idle"
  BY DEF Started, At, Running, journalVars, dbVars, connVars, history
<1>2. InDoubtListed' /\ DownInv' /\ ForgottenInv' /\ HolderInv' /\ ScanInv'
  BY <1>1 DEF Inv, InDoubtListed, DownInv, ForgottenInv, HolderInv, Holds, ScanInv
<1>3. \A c \in Conn : HeldInv(c)' /\ OpInv(c)'
  BY <1>1, DownQuiet DEF HeldInv, OpInv
<1>4. \A w \in Worker : WorkerInv(w)'
  BY <1>1, DownQuiet DEF WorkerInv, Resolving
<1>5. StartupInv'
  BY <1>1 DEF StartupInv
<1> QED
  BY <1>2, <1>3, <1>4, <1>5 DEF Inv

\* What the resource manager does by itself puts no branch in doubt or out of it.
LEMMA DbInd ==
  ASSUME TypeOK, TypeOK', Inv, NEW b \in Branch, DbHeuristic(b) \/ DbAbort(b)
  PROVE  Inv'
<1>1. UNCHANGED <<jstate, active, op, task, phase, scan, todo, forgotten>>
  BY DEF DbHeuristic, DbAbort, journalVars, connVars, startVars, history
<1>2. \A x \in Branch : InDoubt(db'[x]) <=> InDoubt(db[x])
  BY ConstantsAssumption DEF DbHeuristic, DbAbort, TypeOK, InDoubt, Heuristic, ConstantsAssumption
<1>3. InDoubtListed' /\ DownInv' /\ ForgottenInv' /\ HolderInv'
  BY <1>1, <1>2 DEF Inv, InDoubtListed, DownInv, ForgottenInv, HolderInv, Holds
<1>4. ScanInv'
  BY <1>1, <1>2 DEF Inv, ScanInv, TypeOK
<1>5. ASSUME NEW c \in Conn PROVE HeldInv(c)'
  <2>1. active[c] \in Branch \cup {NoBranch} /\ HeldInv(c)
    BY DEF TypeOK, Inv
  <2> QED
    BY <1>1, <1>2, <2>1 DEF HeldInv
<1>6. ASSUME NEW c \in Conn PROVE OpInv(c)'
  <2>1. CASE op[c].pc = "idle"
    BY <1>1, <2>1 DEF OpInv
  <2>2. CASE op[c].pc # "idle"
    <3>1. op[c].b \in Branch /\ OpInv(c)
      BY <2>2, OpBranch
    <3>2. InDoubt(db'[op[c].b]) <=> InDoubt(db[op[c].b])
      BY <1>2, <3>1
    <3> QED
      BY <1>1, <3>1, <3>2 DEF OpInv
  <2> QED
    BY <2>1, <2>2
<1>7. ASSUME NEW w \in Worker PROVE WorkerInv(w)'
  <2>1. CASE task[w].pc = "idle"
    BY <1>1, <2>1 DEF WorkerInv, Resolving
  <2>2. CASE task[w].pc # "idle"
    BY <1>1, <1>2, <2>2, TaskBranch DEF WorkerInv, Resolving, Holds
  <2> QED
    BY <2>1, <2>2
<1>8. StartupInv'
  <2>1. CASE task[Startup].pc = "idle"
    BY <1>1, <2>1 DEF StartupInv
  <2>2. CASE task[Startup].pc # "idle"
    BY <1>1, <1>2, <2>2, StartBranch DEF StartupInv
  <2> QED
    BY <2>1, <2>2
<1> QED
  BY <1>3, <1>4, <1>5, <1>6, <1>7, <1>8 DEF Inv

\* Before the provider is first started nothing is held or in doubt.
LEMMA IndInit == Init => Inv
<1> SUFFICES ASSUME Init PROVE Inv
  OBVIOUS
<1>1. /\ \A b \in Branch : ~InDoubt(db[b])
      /\ \A c \in Conn : active[c] = NoBranch /\ op[c].pc = "idle" /\ op[c].b = NoBranch
      /\ \A t \in Thread : task[t].pc = "idle"
      /\ phase = "down" /\ forgotten = {}
  BY NoOpType, NoTaskType DEF Init, InDoubt, Heuristic
<1>2. InDoubtListed /\ DownInv /\ ForgottenInv /\ ScanInv
  BY <1>1 DEF InDoubtListed, DownInv, ForgottenInv, ScanInv
<1>3. \A c \in Conn : HeldInv(c) /\ OpInv(c)
  BY <1>1 DEF HeldInv, OpInv
<1>4. HolderInv
  BY <1>1, ConstantsAssumption DEF HolderInv, Holds, ConstantsAssumption
<1>5. (\A w \in Worker : WorkerInv(w)) /\ StartupInv
  BY <1>1 DEF WorkerInv, StartupInv, Resolving, Thread
<1> QED
  BY <1>2, <1>3, <1>4, <1>5 DEF Inv

\* Every operation, crash, restart and step of the resource manager keeps the
\* ownership discipline.
LEMMA IndStep == IndInv /\ [Next]_vars => IndInv'
<1> SUFFICES ASSUME TypeOK, Inv, [Next]_vars PROVE IndInv'
  BY DEF IndInv
<1>1. TypeOK'
  BY TypeStep
<1>2. ASSUME NEW c \in Conn, ConnStep(c) PROVE Inv'
  BY <1>1, <1>2, BeginStartInd, BeginUndoInd, PrepareXaInd, RecordPrepareInd, ResolveActiveXaInd,
     RecordResolveInd, RecordFailureInd, CloseXaInd, RecordCloseInd DEF ConnStep
<1>3. ASSUME NEW c \in Conn, ConnCall(c) PROVE Inv'
  BY <1>1, <1>3, ConnCallUntouched, Untouched, CloseIntentInd, BeginInsertInd, PrepareIntentInd,
     ResolveActiveIntentInd DEF ConnCall
<1>4. ASSUME NEW w \in Worker, WorkerStep(w) PROVE Inv'
  BY <1>1, <1>4, ResolveFindInd, ResolveCasInd, ResolveScanInd, ForgetXaInd, ForgetDeleteInd
     DEF WorkerStep
<1>5. ASSUME NEW w \in Worker, WorkerCall(w) PROVE Inv'
  BY <1>1, <1>5, CallResolveInd, CallForgetInd DEF WorkerCall
<1>6. ASSUME NEW t \in Thread, TaskStep(t) PROVE Inv'
  BY <1>1, <1>6, WorkerXaInd, WorkerNotaInd, WorkerRecordInd, StartupXaInd, StartupNotaInd,
     StartupRecordInd DEF TaskStep, Thread
<1>7. ASSUME Crash \/ Restart \/ Started PROVE Inv'
  BY <1>1, <1>7, CrashInd, RestartInd, StartedInd
<1>8. ASSUME NEW b \in Branch, Reconcile(b) \/ DbHeuristic(b) \/ DbAbort(b) PROVE Inv'
  BY <1>1, <1>8, ReconcileInd, DbInd
<1>9. CASE UNCHANGED vars
  <2>1. UNCHANGED <<jstate, db, active, op, task, phase, scan, todo, forgotten>>
    BY <1>9 DEF vars
  <2> QED
    BY <1>1, <2>1, Untouched DEF IndInv
<1> QED
  BY <1>1, <1>2, <1>3, <1>4, <1>5, <1>6, <1>7, <1>8, <1>9 DEF Next, IndInv

\* The ownership discipline of branches holds in every reachable state.
THEOREM Discipline == Spec => []IndInv
<1>1. Init => IndInv
  BY TypeInit, IndInit DEF IndInv
<1> QED
  BY <1>1, IndStep, PTL DEF Spec

\* A branch that the database holds in doubt has a row that recover() lists:
\* whatever crashes, fails or runs concurrently, and however often.
THEOREM InDoubtKept == Spec => []InDoubtListed
<1>1. IndInv => InDoubtListed
  BY DEF IndInv, Inv
<1> QED
  BY <1>1, Discipline, PTL

(***************************************************************************)
(* What the journal reports is what the database did.  While no journal    *)
(* write fails, TruthInv is inductive: a row that reports an outcome       *)
(* reports the one of the database, what an operation or a thread is about *)
(* to record is true unless another one recorded it first, and the replies *)
(* name the terminal row.  Run oracle_xa_truth_violation shows why the     *)
(* hypothesis is needed.  AskedInv is inductive without it: nothing is     *)
(* announced that was not asked for.  As above, frame lemmas say what a    *)
(* step has to establish for the one branch it concerns.                   *)
(***************************************************************************)

\* Without journal faults every write returns.
LEMMA WritesReturn ==
  ASSUME TypeOK, MaxJournalFaults = 0
  PROVE  WriteResult = {"ok"}
<1>1. jfaults = 0
  BY DEF TypeOK
<1> QED
  BY <1>1 DEF WriteResult

\* A connection's step keeps TruthInv when it keeps it for its own branch.
LEMMA ConnTruth ==
  ASSUME TypeOK, TypeOK', Inv, TruthInv, NEW c \in Conn, NEW b \in Branch,
         phase = "up", UNCHANGED <<task, forgotten>>,
         \A e \in Conn \ {c} : active'[e] = active[e] /\ op'[e] = op[e] /\ ~Holds(e, b),
         \A w \in Worker : Resolving(w) => task[w].b # b,
         \A x \in Branch \ {b} : /\ jstate'[x] = jstate[x] /\ db'[x] = db[x] /\ told'[x] = told[x]
                                 /\ x \in applied' <=> x \in applied,
         Truth(b)', ReplyInv(b)', OpTruth(c)'
  PROVE  TruthInv'
<1>1. ASSUME NEW x \in Branch PROVE Truth(x)' /\ ReplyInv(x)'
  <2>1. CASE x = b
    BY <2>1
  <2>2. CASE x # b
    <3>1. Truth(x) /\ ReplyInv(x)
      BY DEF TruthInv
    <3>2. Truth(x)'
      BY <2>2, <3>1 DEF Truth, RowTrue, Undone
    <3>3. ReplyInv(x)'
      BY <2>2, <3>1 DEF ReplyInv
    <3> QED
      BY <3>2, <3>3
  <2> QED
    BY <2>1, <2>2
<1>2. ASSUME NEW e \in Conn PROVE OpTruth(e)'
  <2>1. CASE e = c
    BY <2>1
  <2>2. CASE e # c
    <3>1. OpTruth(e) /\ ~Holds(e, b) /\ active'[e] = active[e] /\ op'[e] = op[e]
      BY <2>2 DEF TruthInv
    <3>2. active[e] \in Branch \cup {NoBranch} /\ op[e] \in Op
      BY DEF TypeOK
    <3>3. op[e].pc # "idle" => op[e].b \in Branch \ {b}
      BY <3>1, <3>2, OpFields DEF Holds
    <3>4. active[e] # NoBranch => active[e] \in Branch \ {b}
      BY <3>1, <3>2 DEF Holds
    <3> QED
      BY <3>1, <3>3, <3>4 DEF OpTruth, RowTrue
  <2> QED
    BY <2>1, <2>2
<1>3. ASSUME NEW t \in Thread PROVE TaskTruth(t)'
  <2>1. TaskTruth(t) /\ task[t] \in Task /\ task'[t] = task[t]
    BY DEF TruthInv, TypeOK
  <2>2. CASE task[t].pc = "record"
    <3>1. task[t].b \in Branch
      BY <2>1, <2>2, TaskFields
    <3>2. t # Startup
      BY <2>2 DEF Inv, StartupInv
    <3>3. task[t].b # b
      BY <2>2, <3>2 DEF Thread, Resolving
    <3> QED
      BY <2>1, <3>1, <3>3 DEF TaskTruth, RowTrue
  <2>3. CASE task[t].pc # "record"
    BY <2>1, <2>3 DEF TaskTruth
  <2> QED
    BY <2>2, <2>3
<1> QED
  BY <1>1, <1>2, <1>3 DEF TruthInv

\* What an operation is about to record stays true while its branch is not touched.
LEMMA OpTruthKept ==
  ASSUME TypeOK, TruthInv, NEW e \in Conn, active'[e] = active[e], op'[e] = op[e],
         \A x \in Branch : Holds(e, x) => /\ jstate'[x] = jstate[x] /\ db'[x] = db[x]
                                          /\ x \in applied' <=> x \in applied
  PROVE  OpTruth(e)'
<1>1. OpTruth(e)
  BY DEF TruthInv
<1>2. active[e] \in Branch \cup {NoBranch} /\ op[e] \in Op
  BY DEF TypeOK
<1>3. op[e].pc # "idle" => op[e].b \in Branch
  BY <1>2, OpFields
<1> QED
  BY <1>1, <1>2, <1>3 DEF OpTruth, RowTrue, Holds

\* What a thread is about to record stays true while its branch is not touched.
LEMMA TaskTruthKept ==
  ASSUME TypeOK, TruthInv, NEW u \in Thread, task'[u] = task[u],
         task[u].pc = "record" =>
           /\ jstate'[task[u].b] = jstate[task[u].b] /\ db'[task[u].b] = db[task[u].b]
           /\ task[u].b \in applied' <=> task[u].b \in applied
  PROVE  TaskTruth(u)'
<1>1. TaskTruth(u)
  BY DEF TruthInv
<1> QED
  BY <1>1 DEF TaskTruth, RowTrue

\* A step that touches one branch and no connection keeps TruthInv when it keeps
\* it for that branch and for those who work on it.
LEMMA TaskFrame ==
  ASSUME TypeOK, Inv, TruthInv, NEW b \in Branch, UNCHANGED <<active, op>>,
         \A x \in Branch \ {b} : /\ jstate'[x] = jstate[x] /\ db'[x] = db[x] /\ told'[x] = told[x]
                                 /\ x \in applied' <=> x \in applied
                                 /\ x \in forgotten' <=> x \in forgotten,
         \A e \in Conn : Holds(e, b) => OpTruth(e)',
         Truth(b)', ReplyInv(b)',
         \A u \in Thread : TaskTruth(u)' \/ (task'[u] = task[u] /\ task[u].b # b)
  PROVE  TruthInv'
<1>1. ASSUME NEW x \in Branch PROVE Truth(x)' /\ ReplyInv(x)'
  <2>1. CASE x = b
    BY <2>1
  <2>2. CASE x # b
    <3>1. Truth(x) /\ ReplyInv(x)
      BY DEF TruthInv
    <3>2. Truth(x)'
      BY <2>2, <3>1 DEF Truth, RowTrue, Undone
    <3>3. ReplyInv(x)'
      BY <2>2, <3>1 DEF ReplyInv
    <3> QED
      BY <3>2, <3>3
  <2> QED
    BY <2>1, <2>2
<1>2. ASSUME NEW e \in Conn PROVE OpTruth(e)'
  <2>1. CASE Holds(e, b)
    BY <2>1
  <2>2. CASE ~Holds(e, b)
    BY <2>2, OpTruthKept
  <2> QED
    BY <2>1, <2>2
<1>3. ASSUME NEW u \in Thread PROVE TaskTruth(u)'
  <2>1. CASE TaskTruth(u)'
    BY <2>1
  <2>2. CASE task'[u] = task[u] /\ task[u].b # b
    <3>1. task[u].pc = "record" => task[u].b \in Branch
      BY TaskFields DEF TypeOK
    <3> QED
      BY <2>2, <3>1, TaskTruthKept
  <2> QED
    BY <2>1, <2>2
<1> QED
  BY <1>1, <1>2, <1>3 DEF TruthInv

\* A step after which a branch, its rows and those who work on it are as before.
LEMMA TruthUntouched ==
  ASSUME TypeOK, Inv, TruthInv, UNCHANGED <<jstate, db, applied, told, forgotten>>,
         \A e \in Conn : OpTruth(e)' \/ (active'[e] = active[e] /\ op'[e] = op[e]),
         \A u \in Thread : TaskTruth(u)' \/ task'[u] = task[u]
  PROVE  TruthInv'
<1>1. ASSUME NEW x \in Branch PROVE Truth(x)' /\ ReplyInv(x)'
  <2>1. Truth(x) /\ ReplyInv(x)
    BY DEF TruthInv
  <2> QED
    BY <2>1 DEF Truth, RowTrue, Undone, ReplyInv
<1>2. ASSUME NEW e \in Conn PROVE OpTruth(e)'
  BY OpTruthKept
<1>3. ASSUME NEW u \in Thread PROVE TaskTruth(u)'
  BY TaskTruthKept
<1> QED
  BY <1>1, <1>2, <1>3 DEF TruthInv

\* What a thread knows of the branch it is resolving, at startup or later.
LEMMA ResolvingBranch ==
  ASSUME TypeOK, Inv, NEW t \in Thread,
         task[t].pc \in {"scan", "finishScan", "xa", "nota", "record"}
  PROVE  /\ task[t].b \in Branch /\ task[t].decision \in Decision
         /\ \A e \in Conn : ~Holds(e, task[t].b)
         /\ \/ jstate[task[t].b] = task[t].from
            \/ t # Startup /\ (IsTerminal(jstate[task[t].b]) \/ task[t].b \in forgotten)
         /\ task[t].pc # "record" =>
              \/ task[t].decision = "commit" /\ task[t].from = "COMMITTING"
              \/ task[t].decision = "rollback" /\ task[t].from \in {"ROLLING_BACK", "ROLLING_BACK_ACTIVE"}
         /\ task[t].pc = "nota" => task[t].goal = TerminalOf(task[t].decision) /\ ~InDoubt(db[task[t].b])
         /\ task[t].from \in {"ACTIVE", "PREPARED"} \cup Intent
         /\ t # Startup => task[t].from \in {"COMMITTING", "ROLLING_BACK"}
         /\ task[t].pc = "record" => task[t].goal \in Heuristic \cup Resolved \cup {"PREPARED"}
         /\ task[t].pc = "record" /\ t # Startup => task[t].goal # "PREPARED"
<1>1. CASE t = Startup
  <2>1. task[Startup].pc # "idle"
    BY <1>1
  <2>2. /\ task[Startup].b \in Branch /\ task[Startup].decision \in Decision
        /\ phase = "starting" /\ StartupInv
    BY <2>1, StartBranch
  <2>3. \A e \in Conn : active[e] = NoBranch /\ op[e].b = NoBranch
    BY <2>2, OpFields, NoOpType DEF Inv, DownInv, TypeOK
  <2>4. \A e \in Conn : ~Holds(e, task[Startup].b)
    BY <2>2, <2>3, ConstantsAssumption DEF Holds, ConstantsAssumption
  <2> QED
    BY <1>1, <2>2, <2>4 DEF StartupInv, Intent, OnePhaseIntent
<1>2. CASE t # Startup
  <2>1. t \in Worker /\ Resolving(t) /\ task[t].pc # "idle"
    BY <1>2 DEF Thread, Resolving
  <2>2. task[t].b \in Branch /\ task[t].decision \in Decision /\ WorkerInv(t)
    BY <2>1, TaskBranch
  <2> QED
    BY <1>2, <2>1, <2>2 DEF WorkerInv, IntentOf, TerminalOf, Decision, Intent, Resolved, Heuristic
<1> QED
  BY <1>1, <1>2

\* The branch is active in the database, or nothing has changed.
LEMMA BeginStartTruth ==
  ASSUME TypeOK, TypeOK', Inv, TruthInv, MaxJournalFaults = 0, NEW c \in Conn,
         BeginStart(c)
  PROVE  TruthInv'
<1>1. PICK b \in Branch : b = op[c].b /\ phase = "up" /\ Holds(c, b) /\ OpInv(c) /\ HeldInv(c)
  BY OpBranch DEF BeginStart, Busy
<1>2. Truth(b) /\ ReplyInv(b) /\ OpTruth(c)
  BY <1>1 DEF TruthInv
<1>3. /\ active[c] = NoBranch /\ jstate[b] = "ACTIVE" /\ b \notin forgotten
      /\ ~InDoubt(db[b])
  BY <1>1, <1>2, ConstantsAssumption
     DEF ConstantsAssumption, BeginStart, Busy, OpInv, Inv, InDoubtListed, IsRecoverable, Intent,
        OnePhaseIntent, Heuristic
<1>4. /\ \A e \in Conn \ {c} : ~Holds(e, b)
      /\ \A w \in Worker : Resolving(w) => task[w].b # b
  BY <1>1, HeldAlone
<1>5. /\ UNCHANGED <<task, forgotten>>
      /\ \A e \in Conn \ {c} : active'[e] = active[e] /\ op'[e] = op[e]
      /\ \A x \in Branch \ {b} : /\ jstate'[x] = jstate[x] /\ db'[x] = db[x] /\ told'[x] = told[x]
                                 /\ x \in applied' <=> x \in applied
  BY <1>1, <1>3 DEF BeginStart, TypeOK, journalVars, dbVars, startVars, history
<1>6. /\ jstate'[b] = "ACTIVE" /\ db'[b] \in {"active", db[b]} /\ told' = told /\ applied' = applied
      /\ \/ active'[c] = b /\ op'[c] = NoOp
         \/ active'[c] = NoBranch /\ op'[c] = Doing("undo", b, "ACTIVE", "ACTIVE")
  BY <1>1, <1>3, WritesReturn, ConstantsAssumption
     DEF BeginStart, ConstantsAssumption, TypeOK, journalVars, dbVars, startVars, history
<1>7. Truth(b)'
  BY <1>1, <1>2, <1>3, <1>5, <1>6
     DEF Truth, RowTrue, Undone, InDoubt, IsTerminal, Resolved, Heuristic, OnePhaseIntent
<1>8. ReplyInv(b)'
  BY <1>1, <1>2, <1>3, <1>5, <1>6 DEF ReplyInv, IsTerminal, Resolved, Heuristic, OnePhaseIntent
<1>9. OpTruth(c)'
  BY <1>1, <1>2, <1>3, <1>5, <1>6
     DEF OpTruth, RowTrue, Truth, Undone, Doing, NoOp, InDoubt, Heuristic
<1> QED
  BY <1>1, <1>4, <1>5, <1>7, <1>8, <1>9, ConnTruth

\* The row of a branch that was not started goes, and no reply has named it.
LEMMA BeginUndoTruth ==
  ASSUME TypeOK, TypeOK', Inv, TruthInv, MaxJournalFaults = 0, NEW c \in Conn,
         BeginUndo(c)
  PROVE  TruthInv'
<1>1. PICK b \in Branch : b = op[c].b /\ phase = "up" /\ Holds(c, b) /\ OpInv(c) /\ HeldInv(c)
  BY OpBranch DEF BeginUndo, Busy
<1>2. Truth(b) /\ ReplyInv(b) /\ OpTruth(c)
  BY <1>1 DEF TruthInv
<1>3. /\ active[c] = NoBranch /\ jstate[b] = "ACTIVE" /\ b \notin forgotten
      /\ ~InDoubt(db[b])
  BY <1>1, <1>2, ConstantsAssumption
     DEF ConstantsAssumption, BeginUndo, Busy, OpInv, Inv, InDoubtListed, IsRecoverable, Intent,
        OnePhaseIntent, Heuristic
<1>4. /\ \A e \in Conn \ {c} : ~Holds(e, b)
      /\ \A w \in Worker : Resolving(w) => task[w].b # b
  BY <1>1, HeldAlone
<1>5. /\ UNCHANGED <<task, forgotten>>
      /\ \A e \in Conn \ {c} : active'[e] = active[e] /\ op'[e] = op[e]
      /\ \A x \in Branch \ {b} : /\ jstate'[x] = jstate[x] /\ db'[x] = db[x] /\ told'[x] = told[x]
                                 /\ x \in applied' <=> x \in applied
  BY <1>1, <1>3 DEF BeginUndo, TypeOK, journalVars, dbVars, startVars, history, Delete
<1>6. /\ jstate'[b] = "ABSENT" /\ db'[b] = db[b] /\ told' = told /\ applied' = applied
      /\ active'[c] = NoBranch /\ op'[c] = NoOp
  BY <1>1, <1>3, WritesReturn, ConstantsAssumption
     DEF BeginUndo, ConstantsAssumption, TypeOK, journalVars, dbVars, startVars, history, Delete
<1>7. Truth(b)'
  BY <1>1, <1>2, <1>3, <1>5, <1>6
     DEF Truth, RowTrue, Undone, InDoubt, IsTerminal, Resolved, Heuristic, OnePhaseIntent
<1>8. ReplyInv(b)'
  BY <1>1, <1>2, <1>3, <1>5, <1>6 DEF ReplyInv, IsTerminal, Resolved, Heuristic, OnePhaseIntent
<1>9. OpTruth(c)'
  BY <1>1, <1>2, <1>3, <1>5, <1>6
     DEF OpTruth, RowTrue, Truth, Undone, Doing, NoOp, InDoubt, Heuristic
<1> QED
  BY <1>1, <1>4, <1>5, <1>7, <1>8, <1>9, ConnTruth

\* The branch is announced as being prepared.
LEMMA PrepareIntentTruth ==
  ASSUME TypeOK, TypeOK', Inv, TruthInv, MaxJournalFaults = 0, NEW c \in Conn, NEW b \in Branch,
         PrepareIntent(c, b)
  PROVE  TruthInv'
<1>1. /\ b \in Branch /\ phase = "up" /\ op[c] = NoOp /\ op[c].b = NoBranch
      /\ Holds(c, b) /\ OpInv(c) /\ HeldInv(c)
  BY OpFields, NoOpType DEF PrepareIntent, Ready, TypeOK, Inv, Holds
<1>2. Truth(b) /\ ReplyInv(b) /\ OpTruth(c)
  BY <1>1 DEF TruthInv
<1>3. /\ active[c] = b /\ jstate[b] = "ACTIVE" /\ b \notin forgotten
      /\ ~InDoubt(db[b])
  BY <1>1, <1>2, ConstantsAssumption
     DEF ConstantsAssumption, PrepareIntent, Truth, Inv, InDoubtListed, IsRecoverable, Intent,
        OnePhaseIntent, Heuristic, IsTerminal, Resolved
<1>4. /\ \A e \in Conn \ {c} : ~Holds(e, b)
      /\ \A w \in Worker : Resolving(w) => task[w].b # b
  BY <1>1, HeldAlone
<1>5. /\ UNCHANGED <<task, forgotten>>
      /\ \A e \in Conn \ {c} : active'[e] = active[e] /\ op'[e] = op[e]
      /\ \A x \in Branch \ {b} : /\ jstate'[x] = jstate[x] /\ db'[x] = db[x] /\ told'[x] = told[x]
                                 /\ x \in applied' <=> x \in applied
  BY <1>1, <1>3 DEF PrepareIntent, TypeOK, journalVars, dbVars, startVars, history, Write
<1>6. /\ jstate'[b] = "PREPARING" /\ db'[b] = db[b] /\ told' = told /\ applied' = applied
      /\ active'[c] = b /\ op'[c] = Doing("prepare", b, "PREPARING", "PREPARED")
  BY <1>1, <1>3, WritesReturn, ConstantsAssumption
     DEF PrepareIntent, ConstantsAssumption, TypeOK, journalVars, dbVars, startVars, history, Write
<1>7. Truth(b)'
  BY <1>1, <1>2, <1>3, <1>5, <1>6
     DEF Truth, RowTrue, Undone, InDoubt, IsTerminal, Resolved, Heuristic, OnePhaseIntent
<1>8. ReplyInv(b)'
  BY <1>1, <1>2, <1>3, <1>5, <1>6 DEF ReplyInv, IsTerminal, Resolved, Heuristic, OnePhaseIntent
<1>9. OpTruth(c)'
  BY <1>1, <1>2, <1>3, <1>5, <1>6
     DEF OpTruth, RowTrue, Truth, Undone, Doing, NoOp, InDoubt, Heuristic
<1> QED
  BY <1>1, <1>4, <1>5, <1>7, <1>8, <1>9, ConnTruth

\* Only the branch that the database prepared is about to be recorded as prepared.
LEMMA PrepareXaTruth ==
  ASSUME TypeOK, TypeOK', Inv, TruthInv, MaxJournalFaults = 0, NEW c \in Conn,
         PrepareXa(c)
  PROVE  TruthInv'
<1>1. PICK b \in Branch : b = op[c].b /\ phase = "up" /\ Holds(c, b) /\ OpInv(c) /\ HeldInv(c)
  BY OpBranch DEF PrepareXa, Busy
<1>2. Truth(b) /\ ReplyInv(b) /\ OpTruth(c)
  BY <1>1 DEF TruthInv
<1>3. /\ active[c] = b /\ jstate[b] = "PREPARING" /\ b \notin forgotten
      /\ ~InDoubt(db[b])
  BY <1>1, <1>2, ConstantsAssumption DEF ConstantsAssumption, PrepareXa, Busy, OpInv, HeldInv
<1>4. /\ \A e \in Conn \ {c} : ~Holds(e, b)
      /\ \A w \in Worker : Resolving(w) => task[w].b # b
  BY <1>1, HeldAlone
<1>5. /\ UNCHANGED <<task, forgotten>>
      /\ \A e \in Conn \ {c} : active'[e] = active[e] /\ op'[e] = op[e]
      /\ \A x \in Branch \ {b} : /\ jstate'[x] = jstate[x] /\ db'[x] = db[x] /\ told'[x] = told[x]
                                 /\ x \in applied' <=> x \in applied
  BY <1>1, <1>3 DEF PrepareXa, TypeOK, journalVars, dbVars, startVars, history
<1>6. /\ jstate'[b] = "PREPARING" /\ told' = told /\ applied' = applied
      /\ active'[c] = NoBranch
      /\ \/ op'[c] = NoOp /\ db'[b] \in {db[b], "prepared", "none"}
         \/ op'[c] = Doing("recordPrepare", b, "PREPARING", "PREPARED") /\ db'[b] = "prepared"
         \/ op'[c] = Doing("recordPrepare", b, "PREPARING", "READ_ONLY") /\ db'[b] = "none"
  BY <1>1, <1>3, WritesReturn, ConstantsAssumption
     DEF PrepareXa, ConstantsAssumption, TypeOK, journalVars, dbVars, startVars, history
<1>7. Truth(b)'
  BY <1>1, <1>2, <1>3, <1>5, <1>6
     DEF Truth, RowTrue, Undone, InDoubt, IsTerminal, Resolved, Heuristic, OnePhaseIntent
<1>8. ReplyInv(b)'
  BY <1>1, <1>2, <1>3, <1>5, <1>6 DEF ReplyInv, IsTerminal, Resolved, Heuristic, OnePhaseIntent
<1>9. OpTruth(c)'
  BY <1>1, <1>2, <1>3, <1>5, <1>6
     DEF OpTruth, RowTrue, Truth, Undone, Doing, NoOp, InDoubt, Heuristic
<1> QED
  BY <1>1, <1>4, <1>5, <1>7, <1>8, <1>9, ConnTruth

\* A read-only branch has nothing to commit.
LEMMA RecordPrepareTruth ==
  ASSUME TypeOK, TypeOK', Inv, TruthInv, MaxJournalFaults = 0, NEW c \in Conn,
         RecordPrepare(c)
  PROVE  TruthInv'
<1>1. PICK b \in Branch : b = op[c].b /\ phase = "up" /\ Holds(c, b) /\ OpInv(c) /\ HeldInv(c)
  BY OpBranch DEF RecordPrepare, Busy
<1>2. Truth(b) /\ ReplyInv(b) /\ OpTruth(c)
  BY <1>1 DEF TruthInv
<1>3. /\ active[c] = NoBranch /\ jstate[b] = "PREPARING" /\ b \notin forgotten
      /\ op[c].from = "PREPARING"
      /\ \/ op[c].goal = "PREPARED" /\ InDoubt(db[b])
         \/ op[c].goal = "READ_ONLY" /\ ~InDoubt(db[b]) /\ b \notin applied
  BY <1>1, <1>2, ConstantsAssumption
     DEF ConstantsAssumption, RecordPrepare, Busy, OpInv, OpTruth, Truth, Undone
<1>4. /\ \A e \in Conn \ {c} : ~Holds(e, b)
      /\ \A w \in Worker : Resolving(w) => task[w].b # b
  BY <1>1, HeldAlone
<1>5. /\ UNCHANGED <<task, forgotten>>
      /\ \A e \in Conn \ {c} : active'[e] = active[e] /\ op'[e] = op[e]
      /\ \A x \in Branch \ {b} : /\ jstate'[x] = jstate[x] /\ db'[x] = db[x] /\ told'[x] = told[x]
                                 /\ x \in applied' <=> x \in applied
  BY <1>1, <1>3 DEF RecordPrepare, TypeOK, journalVars, dbVars, startVars, history, Write
<1>6. /\ jstate'[b] = op[c].goal /\ db'[b] = db[b] /\ told' = told /\ applied' = applied
      /\ active'[c] = NoBranch /\ op'[c] = NoOp
  BY <1>1, <1>3, WritesReturn, ConstantsAssumption
     DEF RecordPrepare, ConstantsAssumption, TypeOK, journalVars, dbVars, startVars, history, Write
<1>7. Truth(b)'
  BY <1>1, <1>2, <1>3, <1>5, <1>6
     DEF Truth, RowTrue, Undone, InDoubt, IsTerminal, Resolved, Heuristic, OnePhaseIntent
<1>8. ReplyInv(b)'
  BY <1>1, <1>2, <1>3, <1>5, <1>6 DEF ReplyInv, IsTerminal, Resolved, Heuristic, OnePhaseIntent
<1>9. OpTruth(c)'
  BY <1>1, <1>2, <1>3, <1>5, <1>6
     DEF OpTruth, RowTrue, Truth, Undone, Doing, NoOp, InDoubt, Heuristic
<1> QED
  BY <1>1, <1>4, <1>5, <1>7, <1>8, <1>9, ConnTruth

\* The resolution of an active branch is announced.
LEMMA ResolveActiveIntentTruth ==
  ASSUME TypeOK, TypeOK', Inv, TruthInv, MaxJournalFaults = 0, NEW c \in Conn, NEW b \in Branch,
         NEW d \in Decision,
         ResolveActiveIntent(c, b, d)
  PROVE  TruthInv'
<1>1. /\ b \in Branch /\ phase = "up" /\ op[c] = NoOp /\ op[c].b = NoBranch
      /\ Holds(c, b) /\ OpInv(c) /\ HeldInv(c)
  BY OpFields, NoOpType DEF ResolveActiveIntent, Ready, TypeOK, Inv, Holds
<1>2. Truth(b) /\ ReplyInv(b) /\ OpTruth(c)
  BY <1>1 DEF TruthInv
<1>3. /\ active[c] = b /\ jstate[b] = "ACTIVE" /\ b \notin forgotten
      /\ ~InDoubt(db[b])
  BY <1>1, <1>2, ConstantsAssumption
     DEF ConstantsAssumption, ResolveActiveIntent, Truth, Inv, InDoubtListed, IsRecoverable, Intent,
        OnePhaseIntent, Heuristic, IsTerminal, Resolved
<1>4. /\ \A e \in Conn \ {c} : ~Holds(e, b)
      /\ \A w \in Worker : Resolving(w) => task[w].b # b
  BY <1>1, HeldAlone
<1>5. /\ UNCHANGED <<task, forgotten>>
      /\ \A e \in Conn \ {c} : active'[e] = active[e] /\ op'[e] = op[e]
      /\ \A x \in Branch \ {b} : /\ jstate'[x] = jstate[x] /\ db'[x] = db[x] /\ told'[x] = told[x]
                                 /\ x \in applied' <=> x \in applied
  BY <1>1, <1>3 DEF ResolveActiveIntent, TypeOK, journalVars, dbVars, startVars, history, Write
<1>6. /\ jstate'[b] \in OnePhaseIntent /\ db'[b] = db[b] /\ told' = told /\ applied' = applied
      /\ active'[c] = b /\ op'[c].pc = "resolve" /\ op'[c].b = b
  BY <1>1, <1>3, WritesReturn, ConstantsAssumption
     DEF ResolveActiveIntent, ConstantsAssumption, TypeOK, journalVars, dbVars, startVars, history,
        Write, Doing, OnePhaseIntent
<1>7. Truth(b)'
  BY <1>1, <1>2, <1>3, <1>5, <1>6
     DEF Truth, RowTrue, Undone, InDoubt, IsTerminal, Resolved, Heuristic, OnePhaseIntent
<1>8. ReplyInv(b)'
  BY <1>1, <1>2, <1>3, <1>5, <1>6 DEF ReplyInv, IsTerminal, Resolved, Heuristic, OnePhaseIntent
<1>9. OpTruth(c)'
  BY <1>1, <1>2, <1>3, <1>5, <1>6
     DEF OpTruth, RowTrue, Truth, Undone, Doing, NoOp, InDoubt, Heuristic
<1> QED
  BY <1>1, <1>4, <1>5, <1>7, <1>8, <1>9, ConnTruth

\* The outcome about to be recorded is the one the database had.
LEMMA ResolveActiveXaTruth ==
  ASSUME TypeOK, TypeOK', Inv, TruthInv, MaxJournalFaults = 0, NEW c \in Conn,
         ResolveActiveXa(c)
  PROVE  TruthInv'
<1>1. PICK b \in Branch : b = op[c].b /\ phase = "up" /\ Holds(c, b) /\ OpInv(c) /\ HeldInv(c)
  BY OpBranch DEF ResolveActiveXa, Busy
<1>2. Truth(b) /\ ReplyInv(b) /\ OpTruth(c)
  BY <1>1 DEF TruthInv
<1>3. /\ active[c] = b /\ jstate[b] = op[c].from /\ b \notin forgotten /\ op[c].from \in OnePhaseIntent
      /\ op[c].goal = IF op[c].from = "COMMITTING_ONE_PHASE" THEN "COMMITTED" ELSE "ROLLED_BACK"
      /\ ~InDoubt(db[b])
  BY <1>1, <1>2, ConstantsAssumption DEF ConstantsAssumption, ResolveActiveXa, Busy, OpInv, HeldInv
<1>4. /\ \A e \in Conn \ {c} : ~Holds(e, b)
      /\ \A w \in Worker : Resolving(w) => task[w].b # b
  BY <1>1, HeldAlone
<1>5. /\ UNCHANGED <<task, forgotten>>
      /\ \A e \in Conn \ {c} : active'[e] = active[e] /\ op'[e] = op[e]
      /\ \A x \in Branch \ {b} : /\ jstate'[x] = jstate[x] /\ db'[x] = db[x] /\ told'[x] = told[x]
                                 /\ x \in applied' <=> x \in applied
  BY <1>1, <1>3 DEF ResolveActiveXa, TypeOK, journalVars, dbVars, startVars, history
<1>6. /\ jstate'[b] = jstate[b] /\ told' = told /\ op'[c].b = b
      /\ \/ /\ op'[c].pc = "recordResolve" /\ op'[c].goal = op[c].goal /\ db[b] = "active" /\ db'[b] = "none"
            /\ b \in applied' <=> b \in applied \/ op[c].goal = "COMMITTED"
         \/ /\ op'[c].pc = "recordFailure" /\ op'[c].goal = "HEURISTIC_HAZARD"
            /\ db'[b] = db[b] /\ applied' = applied
         \/ /\ op'[c].pc = "recordFailure" /\ op'[c].goal = "HEURISTIC_HAZARD"
            /\ db'[b] = "none" /\ (b \in applied' => b \in applied \/ op[c].goal = "COMMITTED")
         \/ /\ op'[c].pc = "recordFailure" /\ op'[c].goal = db'[b] /\ db[b] = "active"
            /\ db'[b] \in {"HEURISTIC_COMMIT", "HEURISTIC_ROLLBACK", "HEURISTIC_MIXED"}
            /\ b \in applied' <=> b \in applied \/ db'[b] # "HEURISTIC_ROLLBACK"
  BY <1>1, <1>3, WritesReturn, ConstantsAssumption
     DEF ResolveActiveXa, ConstantsAssumption, TypeOK, journalVars, dbVars, startVars, history,
        Doing
<1>7. Truth(b)'
  BY <1>1, <1>2, <1>3, <1>5, <1>6
     DEF Truth, RowTrue, Undone, InDoubt, IsTerminal, Resolved, Heuristic, OnePhaseIntent
<1>8. ReplyInv(b)'
  BY <1>1, <1>2, <1>3, <1>5, <1>6 DEF ReplyInv, IsTerminal, Resolved, Heuristic, OnePhaseIntent
<1>9. OpTruth(c)'
  BY <1>1, <1>2, <1>3, <1>5, <1>6
     DEF OpTruth, RowTrue, Truth, Undone, Doing, NoOp, InDoubt, Heuristic
<1> QED
  BY <1>1, <1>4, <1>5, <1>7, <1>8, <1>9, ConnTruth

\* The reply is the outcome, which nobody was told before.
LEMMA RecordResolveTruth ==
  ASSUME TypeOK, TypeOK', Inv, TruthInv, MaxJournalFaults = 0, NEW c \in Conn,
         RecordResolve(c)
  PROVE  TruthInv'
<1>1. PICK b \in Branch : b = op[c].b /\ phase = "up" /\ Holds(c, b) /\ OpInv(c) /\ HeldInv(c)
  BY OpBranch DEF RecordResolve, Busy
<1>2. Truth(b) /\ ReplyInv(b) /\ OpTruth(c)
  BY <1>1 DEF TruthInv
<1>3. /\ active[c] = b /\ jstate[b] = op[c].from /\ b \notin forgotten /\ op[c].from \in OnePhaseIntent
      /\ op[c].goal = IF op[c].from = "COMMITTING_ONE_PHASE" THEN "COMMITTED" ELSE "ROLLED_BACK"
      /\ ~InDoubt(db[b])
      /\ op[c].goal = "COMMITTED" => b \in applied
      /\ op[c].goal = "ROLLED_BACK" => b \notin applied
  BY <1>1, <1>2, ConstantsAssumption
     DEF ConstantsAssumption, RecordResolve, Busy, OpInv, HeldInv, OpTruth, Truth, Undone,
        OnePhaseIntent
<1>4. /\ \A e \in Conn \ {c} : ~Holds(e, b)
      /\ \A w \in Worker : Resolving(w) => task[w].b # b
  BY <1>1, HeldAlone
<1>5. /\ UNCHANGED <<task, forgotten>>
      /\ \A e \in Conn \ {c} : active'[e] = active[e] /\ op'[e] = op[e]
      /\ \A x \in Branch \ {b} : /\ jstate'[x] = jstate[x] /\ db'[x] = db[x] /\ told'[x] = told[x]
                                 /\ x \in applied' <=> x \in applied
  BY <1>1, <1>3 DEF RecordResolve, TypeOK, journalVars, dbVars, startVars, history, Write, Moved
<1>6. /\ jstate'[b] = op[c].goal /\ db'[b] = db[b] /\ applied' = applied
      /\ told'[b] = told[b] \cup {op[c].goal}
      /\ active'[c] = NoBranch /\ op'[c] = NoOp
  BY <1>1, <1>3, WritesReturn, ConstantsAssumption
     DEF RecordResolve, ConstantsAssumption, TypeOK, journalVars, dbVars, startVars, history, Write,
        Moved
<1>7. Truth(b)'
  BY <1>1, <1>2, <1>3, <1>5, <1>6
     DEF Truth, RowTrue, Undone, InDoubt, IsTerminal, Resolved, Heuristic, OnePhaseIntent
<1>8. ReplyInv(b)'
  BY <1>1, <1>2, <1>3, <1>5, <1>6 DEF ReplyInv, IsTerminal, Resolved, Heuristic, OnePhaseIntent
<1>9. OpTruth(c)'
  BY <1>1, <1>2, <1>3, <1>5, <1>6
     DEF OpTruth, RowTrue, Truth, Undone, Doing, NoOp, InDoubt, Heuristic
<1> QED
  BY <1>1, <1>4, <1>5, <1>7, <1>8, <1>9, ConnTruth

\* The reply is the outcome that the database reported.
LEMMA RecordFailureTruth ==
  ASSUME TypeOK, TypeOK', Inv, TruthInv, MaxJournalFaults = 0, NEW c \in Conn,
         RecordFailure(c)
  PROVE  TruthInv'
<1>1. PICK b \in Branch : b = op[c].b /\ phase = "up" /\ Holds(c, b) /\ OpInv(c) /\ HeldInv(c)
  BY OpBranch DEF RecordFailure, Busy
<1>2. Truth(b) /\ ReplyInv(b) /\ OpTruth(c)
  BY <1>1 DEF TruthInv
<1>3. /\ active[c] = NoBranch /\ jstate[b] = op[c].from /\ b \notin forgotten /\ op[c].from \in OnePhaseIntent
      /\ op[c].goal \in Heuristic /\ RowTrue(b, op[c].goal)
      /\ db[b] # "prepared"
  BY <1>1, <1>2, ConstantsAssumption
     DEF ConstantsAssumption, RecordFailure, Busy, OpInv, OpTruth, Truth, OnePhaseIntent
<1>4. /\ \A e \in Conn \ {c} : ~Holds(e, b)
      /\ \A w \in Worker : Resolving(w) => task[w].b # b
  BY <1>1, HeldAlone
<1>5. /\ UNCHANGED <<task, forgotten>>
      /\ \A e \in Conn \ {c} : active'[e] = active[e] /\ op'[e] = op[e]
      /\ \A x \in Branch \ {b} : /\ jstate'[x] = jstate[x] /\ db'[x] = db[x] /\ told'[x] = told[x]
                                 /\ x \in applied' <=> x \in applied
  BY <1>1, <1>3 DEF RecordFailure, TypeOK, journalVars, dbVars, startVars, history, Write, Moved
<1>6. /\ jstate'[b] = op[c].goal /\ db'[b] = db[b] /\ applied' = applied
      /\ told'[b] \in {told[b], told[b] \cup {op[c].goal}}
      /\ active'[c] = NoBranch /\ op'[c] = NoOp
  BY <1>1, <1>3, WritesReturn, ConstantsAssumption
     DEF RecordFailure, ConstantsAssumption, TypeOK, journalVars, dbVars, startVars, history, Write,
        Moved
<1>7. Truth(b)'
  BY <1>1, <1>2, <1>3, <1>5, <1>6
     DEF Truth, RowTrue, Undone, InDoubt, IsTerminal, Resolved, Heuristic, OnePhaseIntent
<1>8. ReplyInv(b)'
  BY <1>1, <1>2, <1>3, <1>5, <1>6 DEF ReplyInv, IsTerminal, Resolved, Heuristic, OnePhaseIntent
<1>9. OpTruth(c)'
  BY <1>1, <1>2, <1>3, <1>5, <1>6
     DEF OpTruth, RowTrue, Truth, Undone, Doing, NoOp, InDoubt, Heuristic
<1> QED
  BY <1>1, <1>4, <1>5, <1>7, <1>8, <1>9, ConnTruth

\* close() commits nothing.
LEMMA CloseXaTruth ==
  ASSUME TypeOK, TypeOK', Inv, TruthInv, MaxJournalFaults = 0, NEW c \in Conn,
         CloseXa(c)
  PROVE  TruthInv'
<1>1. PICK b \in Branch : b = op[c].b /\ phase = "up" /\ Holds(c, b) /\ OpInv(c) /\ HeldInv(c)
  BY OpBranch DEF CloseXa, Busy
<1>2. Truth(b) /\ ReplyInv(b) /\ OpTruth(c)
  BY <1>1 DEF TruthInv
<1>3. /\ active[c] = NoBranch /\ ~InDoubt(db[b])
      /\ jstate[b] = "ROLLING_BACK_ACTIVE" \/ (jstate[b] = "ABSENT" /\ b \in forgotten)
  BY <1>1, <1>2, ConstantsAssumption DEF ConstantsAssumption, CloseXa, Busy, OpInv
<1>4. /\ \A e \in Conn \ {c} : ~Holds(e, b)
      /\ \A w \in Worker : Resolving(w) => task[w].b # b
  BY <1>1, HeldAlone
<1>5. /\ UNCHANGED <<task, forgotten>>
      /\ \A e \in Conn \ {c} : active'[e] = active[e] /\ op'[e] = op[e]
      /\ \A x \in Branch \ {b} : /\ jstate'[x] = jstate[x] /\ db'[x] = db[x] /\ told'[x] = told[x]
                                 /\ x \in applied' <=> x \in applied
  BY <1>1, <1>3 DEF CloseXa, TypeOK, journalVars, dbVars, startVars, history
<1>6. /\ jstate'[b] = jstate[b] /\ told' = told /\ applied' = applied
      /\ active'[c] = NoBranch /\ db'[b] \in {db[b], "none"}
      /\ op'[c].pc \in {"idle", "recordClose"}
  BY <1>1, <1>3, WritesReturn, ConstantsAssumption
     DEF CloseXa, ConstantsAssumption, TypeOK, journalVars, dbVars, startVars, history, Doing, NoOp
<1>7. Truth(b)'
  BY <1>1, <1>2, <1>3, <1>5, <1>6
     DEF Truth, RowTrue, Undone, InDoubt, IsTerminal, Resolved, Heuristic, OnePhaseIntent
<1>8. ReplyInv(b)'
  BY <1>1, <1>2, <1>3, <1>5, <1>6 DEF ReplyInv, IsTerminal, Resolved, Heuristic, OnePhaseIntent
<1>9. OpTruth(c)'
  BY <1>1, <1>2, <1>3, <1>5, <1>6
     DEF OpTruth, RowTrue, Truth, Undone, Doing, NoOp, InDoubt, Heuristic
<1> QED
  BY <1>1, <1>4, <1>5, <1>7, <1>8, <1>9, ConnTruth

\* What close() rolled back was not committed.
LEMMA RecordCloseTruth ==
  ASSUME TypeOK, TypeOK', Inv, TruthInv, MaxJournalFaults = 0, NEW c \in Conn,
         RecordClose(c)
  PROVE  TruthInv'
<1>1. PICK b \in Branch : b = op[c].b /\ phase = "up" /\ Holds(c, b) /\ OpInv(c) /\ HeldInv(c)
  BY OpBranch DEF RecordClose, Busy
<1>2. Truth(b) /\ ReplyInv(b) /\ OpTruth(c)
  BY <1>1 DEF TruthInv
<1>3. /\ active[c] = NoBranch /\ ~InDoubt(db[b])
      /\ op[c].from = "ROLLING_BACK_ACTIVE" /\ op[c].goal = "ROLLED_BACK"
      /\ jstate[b] = "ROLLING_BACK_ACTIVE" \/ (jstate[b] = "ABSENT" /\ b \in forgotten)
  BY <1>1, <1>2, ConstantsAssumption DEF ConstantsAssumption, RecordClose, Busy, OpInv
<1>4. /\ \A e \in Conn \ {c} : ~Holds(e, b)
      /\ \A w \in Worker : Resolving(w) => task[w].b # b
  BY <1>1, HeldAlone
<1>5. /\ UNCHANGED <<task, forgotten>>
      /\ \A e \in Conn \ {c} : active'[e] = active[e] /\ op'[e] = op[e]
      /\ \A x \in Branch \ {b} : /\ jstate'[x] = jstate[x] /\ db'[x] = db[x] /\ told'[x] = told[x]
                                 /\ x \in applied' <=> x \in applied
  BY <1>1, <1>3 DEF RecordClose, TypeOK, journalVars, dbVars, startVars, history, Write
<1>6. /\ jstate'[b] = IF jstate[b] = "ABSENT" THEN "ABSENT" ELSE "ROLLED_BACK"
      /\ db'[b] = db[b] /\ told' = told /\ applied' = applied
      /\ active'[c] = NoBranch /\ op'[c] = NoOp
  BY <1>1, <1>3, WritesReturn, ConstantsAssumption
     DEF RecordClose, ConstantsAssumption, TypeOK, journalVars, dbVars, startVars, history, Write
<1>7. Truth(b)'
  BY <1>1, <1>2, <1>3, <1>5, <1>6
     DEF Truth, RowTrue, Undone, InDoubt, IsTerminal, Resolved, Heuristic, OnePhaseIntent
<1>8. ReplyInv(b)'
  BY <1>1, <1>2, <1>3, <1>5, <1>6 DEF ReplyInv, IsTerminal, Resolved, Heuristic, OnePhaseIntent
<1>9. OpTruth(c)'
  BY <1>1, <1>2, <1>3, <1>5, <1>6
     DEF OpTruth, RowTrue, Truth, Undone, Doing, NoOp, InDoubt, Heuristic
<1> QED
  BY <1>1, <1>4, <1>5, <1>7, <1>8, <1>9, ConnTruth

\* A branch that is begun was not committed before, and nobody was told about it.
LEMMA BeginInsertTruth ==
  ASSUME TypeOK, TypeOK', Inv, TruthInv, MaxJournalFaults = 0, NEW c \in Conn, NEW b \in Branch,
         BeginInsert(c, b)
  PROVE  TruthInv'
<1>1. /\ phase = "up" /\ active[c] = NoBranch /\ jstate[b] = "ABSENT" /\ b \notin forgotten
      /\ ~InDoubt(db[b]) /\ Truth(b) /\ ReplyInv(b)
  BY DEF BeginInsert, Ready, TruthInv, Inv, InDoubtListed, IsRecoverable, Intent, OnePhaseIntent,
         Heuristic
<1>2. /\ \A e \in Conn \ {c} : ~Holds(e, b)
      /\ \A w \in Worker : Resolving(w) => task[w].b # b
  BY <1>1, AbsentAlone
<1>3. /\ UNCHANGED <<task, forgotten>>
      /\ \A e \in Conn \ {c} : active'[e] = active[e] /\ op'[e] = op[e]
      /\ \A x \in Branch \ {b} : /\ jstate'[x] = jstate[x] /\ db'[x] = db[x] /\ told'[x] = told[x]
                                 /\ x \in applied' <=> x \in applied
  BY DEF BeginInsert, TypeOK, dbVars, history
<1>4. /\ jstate'[b] = "ACTIVE" /\ db'[b] = db[b] /\ told' = told /\ applied' = applied
      /\ op'[c] = Doing("start", b, "ACTIVE", "ACTIVE")
  BY WritesReturn DEF BeginInsert, TypeOK, dbVars, history
<1>5. Truth(b)'
  BY <1>1, <1>3, <1>4
     DEF Truth, RowTrue, Undone, InDoubt, IsTerminal, Resolved, Heuristic, OnePhaseIntent
<1>6. ReplyInv(b)'
  BY <1>1, <1>3, <1>4 DEF ReplyInv, IsTerminal, Resolved, Heuristic
<1>7. OpTruth(c)'
  BY <1>4 DEF OpTruth, Doing
<1> QED
  BY <1>1, <1>2, <1>3, <1>5, <1>6, <1>7, ConnTruth

\* close() announces the rollback of a branch that is still ACTIVE.
LEMMA CloseIntentTruth ==
  ASSUME TypeOK, TypeOK', Inv, TruthInv, MaxJournalFaults = 0, NEW c \in Conn, CloseIntent(c)
  PROVE  TruthInv'
<1>1. PICK b \in Branch \cup {NoBranch} : b = active[c]
  BY DEF TypeOK
<1>2. phase = "up" /\ op[c].pc = "idle" /\ HeldInv(c) /\ OpTruth(c)
  BY DEF CloseIntent, Ready, TruthInv, Inv
<1>3. CASE b = NoBranch
  <2>1. UNCHANGED <<jstate, db, applied, told, forgotten, op, task>>
    BY <1>1, <1>3, ConstantsAssumption DEF CloseIntent, ConstantsAssumption, dbVars, history
  <2>2. \A e \in Conn : active'[e] = active[e]
    BY <1>1, <1>3 DEF CloseIntent, TypeOK
  <2> QED
    BY <2>1, <2>2, TruthUntouched
<1>4. CASE b \in Branch
  <2>1. /\ jstate[b] = "ACTIVE" /\ ~InDoubt(db[b]) /\ Holds(c, b)
        /\ Truth(b) /\ ReplyInv(b)
    BY <1>1, <1>2, <1>4, ConstantsAssumption
       DEF OpTruth, HeldInv, Holds, TruthInv, ConstantsAssumption
  <2>2. b \notin forgotten
    BY <2>1 DEF Truth, IsTerminal, Resolved, Heuristic
  <2>3. /\ \A e \in Conn \ {c} : ~Holds(e, b)
        /\ \A w \in Worker : Resolving(w) => task[w].b # b
    BY <1>4, <2>1, HeldAlone
  <2>4. /\ UNCHANGED <<task, forgotten, told, db, applied>>
        /\ \A e \in Conn \ {c} : active'[e] = active[e] /\ op'[e] = op[e]
        /\ \A x \in Branch \ {b} : jstate'[x] = jstate[x]
    BY <1>1 DEF CloseIntent, Write, TypeOK, dbVars, history
  <2>5. /\ jstate'[b] = "ROLLING_BACK_ACTIVE"
        /\ op'[c] = Doing("closing", b, "ROLLING_BACK_ACTIVE", "ROLLED_BACK")
    BY <1>1, <1>4, <2>1, WritesReturn DEF CloseIntent, Write, TypeOK
  <2>6. Truth(b)'
    BY <1>4, <2>1, <2>2, <2>4, <2>5
       DEF Truth, RowTrue, Undone, InDoubt, IsTerminal, Resolved, Heuristic, OnePhaseIntent
  <2>7. ReplyInv(b)'
    BY <2>1, <2>2, <2>4, <2>5 DEF ReplyInv, IsTerminal, Resolved, Heuristic
  <2>8. OpTruth(c)'
    BY <2>5 DEF OpTruth, Doing
  <2> QED
    BY <1>2, <1>4, <2>3, <2>4, <2>6, <2>7, <2>8, ConnTruth
<1> QED
  BY <1>3, <1>4

\* A repeated request is told the terminal row.
LEMMA ResolveActiveAgainTruth ==
  ASSUME TypeOK, Inv, TruthInv, NEW c \in Conn, NEW b \in Branch, ResolveActiveAgain(c, b)
  PROVE  TruthInv'
<1>1. /\ UNCHANGED <<jstate, db, applied, forgotten, active, op, task>>
      /\ told' = [told EXCEPT ![b] = @ \cup {jstate[b]}] /\ IsTerminal(jstate[b])
  BY DEF ResolveActiveAgain, journalVars, dbVars, connVars
<1>2. Truth(b) /\ ReplyInv(b)
  BY DEF TruthInv
<1>3. Truth(b)'
  BY <1>1, <1>2 DEF Truth, RowTrue, Undone
<1>4. told'[b] = told[b] \cup {jstate[b]} /\ \A x \in Branch \ {b} : told'[x] = told[x]
  BY <1>1 DEF TypeOK
<1>5. ReplyInv(b)'
  BY <1>1, <1>2, <1>4 DEF ReplyInv
<1>6. \A e \in Conn : OpTruth(e)'
  BY <1>1, OpTruthKept
<1>7. \A u \in Thread : TaskTruth(u)'
  BY <1>1, TaskTruthKept
<1> QED
  BY <1>1, <1>3, <1>4, <1>5, <1>6, <1>7, TaskFrame

\* The steps that only go on: nothing is recorded, told or resolved.
LEMMA QuietTruth ==
  ASSUME TypeOK, Inv, TruthInv,
         \/ \E c \in Conn : \/ OpenConnection(c) \/ BeginTransaction(c) \/ FinishTransaction(c)
                            \/ \E b \in Branch : PrepareAgain(c, b)
         \/ Restart \/ Started \/ UNCHANGED vars
  PROVE  TruthInv'
<1>1. UNCHANGED <<jstate, db, applied, told, forgotten, active, op, task>>
  BY DEF OpenConnection, BeginTransaction, FinishTransaction, PrepareAgain, Restart, Started, vars,
         journalVars, dbVars, connVars, startVars, history
<1> QED
  BY <1>1, TruthUntouched

\* A crash loses what was about to be recorded.
LEMMA CrashTruth ==
  ASSUME TypeOK, Inv, TruthInv, Crash
  PROVE  TruthInv'
<1>1. /\ UNCHANGED <<jstate, db, applied, told, forgotten>>
      /\ \A e \in Conn : active'[e] = NoBranch /\ op'[e] = NoOp
      /\ \A u \in Thread : task'[u] = NoTask
  BY DEF Crash, journalVars, dbVars, history
<1>2. \A e \in Conn : OpTruth(e)'
  BY <1>1, NoOpType DEF OpTruth
<1>3. \A u \in Thread : TaskTruth(u)'
  BY <1>1, NoTaskType DEF TaskTruth
<1> QED
  BY <1>1, <1>2, <1>3, TruthUntouched

\* What Oracle decides about a prepared branch is what the row will report.
LEMMA DbHeuristicTruth ==
  ASSUME TypeOK, Inv, TruthInv, NEW b \in Branch, DbHeuristic(b)
  PROVE  TruthInv'
<1>1. /\ db[b] = "prepared" /\ UNCHANGED <<jstate, told, forgotten, active, op, task>>
      /\ \A x \in Branch \ {b} : db'[x] = db[x] /\ (x \in applied' <=> x \in applied)
      /\ db'[b] \in {"HEURISTIC_COMMIT", "HEURISTIC_ROLLBACK", "HEURISTIC_MIXED"}
      /\ b \in applied' <=> b \in applied \/ db'[b] # "HEURISTIC_ROLLBACK"
  BY ConstantsAssumption
     DEF DbHeuristic, TypeOK, ConstantsAssumption, journalVars, connVars, history
<1>2. Truth(b) /\ ReplyInv(b)
  BY DEF TruthInv
<1>3. Truth(b)' /\ ReplyInv(b)'
  BY <1>1, <1>2 DEF Truth, ReplyInv, RowTrue, Undone, InDoubt, Heuristic
<1>4. ASSUME NEW e \in Conn, Holds(e, b) PROVE OpTruth(e)'
  <2>1. op[e] \in Op /\ OpTruth(e) /\ OpInv(e) /\ HeldInv(e)
    BY DEF TypeOK, TruthInv, Inv
  <2>2. active[e] # b
    BY <1>1, <2>1, ConstantsAssumption DEF HeldInv, InDoubt, ConstantsAssumption
  <2>3. op[e].b = b /\ op[e].pc # "idle"
    BY <1>4, <2>1, <2>2, OpFields, NoOpType, ConstantsAssumption DEF Holds, ConstantsAssumption
  <2>4. op[e].pc # "recordFailure"
    BY <1>1, <1>2, <2>1, <2>3 DEF OpInv, Truth, OnePhaseIntent
  <2> QED
    BY <1>1, <2>1, <2>3, <2>4 DEF OpTruth, InDoubt, Heuristic
<1>5. ASSUME NEW u \in Thread, task[u].b = b PROVE TaskTruth(u)'
  <2>1. TaskTruth(u)
    BY DEF TruthInv
  <2> QED
    BY <1>1, <1>5, <2>1 DEF TaskTruth, RowTrue, InDoubt, Heuristic
<1> QED
  BY <1>1, <1>3, <1>4, <1>5, TaskFrame

\* Work that was never prepared is lost, and no row says otherwise.
LEMMA DbAbortTruth ==
  ASSUME TypeOK, Inv, TruthInv, NEW b \in Branch, DbAbort(b)
  PROVE  TruthInv'
<1>1. /\ db[b] = "active" /\ UNCHANGED <<jstate, applied, told, forgotten, active, op, task>>
      /\ \A x \in Branch \ {b} : db'[x] = db[x]
      /\ db'[b] = "none" /\ \A e \in Conn : ~Holds(e, b)
  BY DEF DbAbort, TypeOK, journalVars, connVars, history, Holds
<1>2. Truth(b) /\ ReplyInv(b)
  BY DEF TruthInv
<1>3. Truth(b)' /\ ReplyInv(b)'
  BY <1>1, <1>2 DEF Truth, ReplyInv, RowTrue, Undone, InDoubt, Heuristic
<1>4. ASSUME NEW u \in Thread, task[u].b = b PROVE TaskTruth(u)'
  <2>1. TaskTruth(u)
    BY DEF TruthInv
  <2> QED
    BY <1>1, <1>4, <2>1 DEF TaskTruth, RowTrue, InDoubt, Heuristic
<1> QED
  BY <1>1, <1>3, <1>4, TaskFrame

\* A thread that is going to record nothing yet.
LEMMA CallResolveTruth ==
  ASSUME TypeOK, Inv, TruthInv, NEW w \in Worker, NEW b \in Branch, NEW d \in Decision,
         CallResolve(w, b, d)
  PROVE  TruthInv'
<1>1. /\ UNCHANGED <<jstate, db, applied, told, forgotten, active, op>>
      /\ \A u \in Thread \ {w} : task'[u] = task[u]
      /\ w \in Thread /\ task'[w] = Job("find", b, d, "ACTIVE", "ACTIVE")
  BY DEF CallResolve, GoOn, TypeOK, Thread, journalVars, dbVars, connVars
<1>2. TaskTruth(w)'
  BY <1>1 DEF TaskTruth, Job
<1> QED
  BY <1>1, <1>2, TruthUntouched

\* A reply that names the terminal row of the branch keeps ReplyInv; the threads
\* and operations on the branch are not concerned.
LEMMA ReplyTruth ==
  ASSUME TypeOK, Inv, TruthInv, NEW t \in Thread, NEW b \in Branch, NEW s,
         b = task[t].b, s = jstate[b], IsTerminal(s), Reply(t, s),
         UNCHANGED <<jstate, db, applied, forgotten, active, op>>
  PROVE  TruthInv'
<1>1. /\ \A u \in Thread \ {t} : task'[u] = task[u]
      /\ task'[t] = NoTask
      /\ \A x \in Branch \ {b} : told'[x] = told[x]
      /\ told'[b] \in {told[b], told[b] \cup {s}}
  BY DEF Reply, TypeOK
<1>2. Truth(b) /\ ReplyInv(b)
  BY DEF TruthInv
<1>3. Truth(b)'
  BY <1>2 DEF Truth, RowTrue, Undone
<1>4. ReplyInv(b)'
  BY <1>1, <1>2 DEF ReplyInv
<1>5. \A e \in Conn : OpTruth(e)'
  BY OpTruthKept
<1>6. ASSUME NEW u \in Thread PROVE TaskTruth(u)'
  <2>1. CASE u = t
    BY <1>1, <2>1, NoTaskType DEF TaskTruth
  <2>2. CASE u # t
    BY <1>1, <2>2, TaskTruthKept
  <2> QED
    BY <2>1, <2>2
<1> QED
  BY <1>1, <1>3, <1>4, <1>5, <1>6, TaskFrame

\* A thread that goes on or gives up without touching a branch.
LEMMA GoOnTruth ==
  ASSUME TypeOK, Inv, TruthInv, NEW t \in Thread,
         UNCHANGED <<jstate, db, applied, told, forgotten, active, op>>,
         \A u \in Thread \ {t} : task'[u] = task[u], TaskTruth(t)'
  PROVE  TruthInv'
  BY TruthUntouched

\* What is announced, or already terminal, is found.
LEMMA ResolveFindTruth ==
  ASSUME TypeOK, Inv, TruthInv, NEW w \in Worker, ResolveFind(w)
  PROVE  TruthInv'
<1>1. PICK b \in Branch : b = task[w].b /\ w \in Thread /\ w # Startup
  BY TaskBranch DEF ResolveFind, At
<1>2. UNCHANGED <<jstate, db, applied, forgotten, active, op>>
  BY DEF ResolveFind, journalVars, dbVars, connVars
<1>3. CASE IsTerminal(jstate[b]) /\ Reply(w, jstate[b])
  BY <1>1, <1>2, <1>3, ReplyTruth
<1>4. CASE ~(IsTerminal(jstate[b]) /\ Reply(w, jstate[b]))
  <2>1. /\ told' = told /\ \A u \in Thread \ {w} : task'[u] = task[u]
        /\ task'[w].pc # "record"
    BY <1>1, <1>4, NoTaskType DEF ResolveFind, GoOn, Throw, Job, TypeOK
  <2>2. TaskTruth(w)'
    BY <2>1 DEF TaskTruth
  <2> QED
    BY <1>1, <1>2, <2>1, <2>2, GoOnTruth
<1> QED
  BY <1>3, <1>4

\* Nobody is about to record a resolution of a branch that is still PREPARED.
LEMMA ResolveCasTruth ==
  ASSUME TypeOK, TypeOK', Inv, TruthInv, MaxJournalFaults = 0, NEW w \in Worker, ResolveCas(w)
  PROVE  TruthInv'
<1>1. PICK b \in Branch : b = task[w].b /\ w \in Thread /\ w # Startup /\ task[w].decision \in Decision
  BY TaskBranch DEF ResolveCas, At
<1>2. /\ UNCHANGED <<db, applied, told, forgotten, active, op>> /\ phase = "up"
      /\ \A u \in Thread \ {w} : task'[u] = task[u]
      /\ task'[w].pc # "record"
      /\ \A x \in Branch \ {b} : jstate'[x] = jstate[x]
      /\ jstate'[b] = IF jstate[b] = "PREPARED" THEN IntentOf(task[w].decision) ELSE jstate[b]
  BY <1>1, WritesReturn, NoTaskType
     DEF ResolveCas, Write, At, Running, GoOn, Throw, Job, TypeOK, dbVars, connVars
<1>3. TaskTruth(w)'
  BY <1>2 DEF TaskTruth
<1>4. CASE jstate[b] # "PREPARED"
  <2>1. jstate' = jstate
    BY <1>2, <1>4 DEF TypeOK
  <2> QED
    BY <1>1, <1>2, <1>3, <2>1, GoOnTruth
<1>5. CASE jstate[b] = "PREPARED"
  <2>1. Truth(b) /\ ReplyInv(b) /\ jstate'[b] \in {"COMMITTING", "ROLLING_BACK"}
    BY <1>1, <1>2, <1>5 DEF TruthInv, IntentOf, Decision
  <2>2. b \notin forgotten
    BY <1>5, <2>1 DEF Truth, IsTerminal, Resolved, Heuristic
  <2>3. Truth(b)'
    BY <1>2, <1>5, <2>1, <2>2
       DEF Truth, RowTrue, Undone, InDoubt, IsTerminal, Resolved, Heuristic
  <2>4. ReplyInv(b)'
    BY <1>2, <1>5, <2>1, <2>2 DEF ReplyInv, IsTerminal, Resolved, Heuristic
  <2>5. \A e \in Conn : ~Holds(e, b)
    BY <1>5, HeldRows DEF HeldRow, OnePhaseIntent
  <2>6. ASSUME NEW u \in Thread \ {w}, task[u].b = b PROVE task[u].pc # "record"
    <3>1. u = Startup => task[u].pc = "idle"
      BY <1>2 DEF Inv, StartupInv
    <3> QED
      BY <1>5, <2>2, <2>6, <3>1, ResolvingBranch DEF IsTerminal, Resolved, Heuristic
  <2>7. \A u \in Thread : TaskTruth(u)' \/ (task'[u] = task[u] /\ task[u].b # b)
    BY <1>2, <1>3, <2>6 DEF TaskTruth
  <2> QED
    BY <1>1, <1>2, <2>3, <2>4, <2>5, <2>7, TaskFrame
<1> QED
  BY <1>4, <1>5

\* A branch that is not in doubt and whose resolution is announced was resolved that way.
LEMMA GoneAsAnnounced ==
  ASSUME TypeOK, Inv, TruthInv, NEW t \in Thread, NEW b \in Branch, b = task[t].b,
         task[t].pc \in {"scan", "finishScan", "nota"}, ~InDoubt(db[b]),
         jstate[b] = task[t].from
  PROVE  RowTrue(b, TerminalOf(task[t].decision))
<1>1. Truth(b)
  BY DEF TruthInv
<1>2. \/ task[t].decision = "commit" /\ task[t].from = "COMMITTING"
      \/ task[t].decision = "rollback" /\ task[t].from \in {"ROLLING_BACK", "ROLLING_BACK_ACTIVE"}
  BY ResolvingBranch
<1> QED
  BY <1>1, <1>2 DEF Truth, RowTrue, Undone, TerminalOf

\* A scan that misses the branch means a hazard, or the announced outcome.
LEMMA ResolveScanTruth ==
  ASSUME TypeOK, Inv, TruthInv, NEW w \in Worker, ResolveScan(w)
  PROVE  TruthInv'
<1>1. PICK b \in Branch : /\ b = task[w].b /\ w \in Thread /\ w # Startup
                          /\ task[w].pc \in {"scan", "finishScan"}
  BY TaskBranch DEF ResolveScan, At
<1>2. /\ UNCHANGED <<jstate, db, applied, told, forgotten, active, op>>
      /\ \A u \in Thread \ {w} : task'[u] = task[u]
  BY <1>1 DEF ResolveScan, GoOn, Throw, TypeOK, journalVars, dbVars, connVars
<1>3. \/ task'[w].pc # "record"
      \/ /\ ~InDoubt(db[b]) /\ task'[w].b = b /\ task'[w].from = task[w].from
         /\ task'[w].goal \in {"HEURISTIC_HAZARD", TerminalOf(task[w].decision)}
  BY <1>1, NoTaskType DEF ResolveScan, GoOn, Throw, Job, TypeOK
<1>4. TaskTruth(w)'
  <2>1. CASE task'[w].pc # "record"
    BY <2>1 DEF TaskTruth
  <2>2. CASE /\ ~InDoubt(db[b]) /\ task'[w].b = b /\ task'[w].from = task[w].from
             /\ task'[w].goal \in {"HEURISTIC_HAZARD", TerminalOf(task[w].decision)}
    <3>1. jstate[b] = task[w].from => RowTrue(b, TerminalOf(task[w].decision))
      BY <1>1, <2>2, GoneAsAnnounced
    <3>2. task'[w].goal # "PREPARED" /\ db[b] # "prepared"
      BY <2>2 DEF TerminalOf, InDoubt
    <3> QED
      BY <1>2, <2>2, <3>1, <3>2 DEF TaskTruth, RowTrue
  <2> QED
    BY <1>3, <2>1, <2>2
<1> QED
  BY <1>1, <1>2, <1>4, GoOnTruth

\* The resource manager no longer knows the branch: it was resolved as announced.
LEMMA ResolveNotaTruth ==
  ASSUME TypeOK, Inv, TruthInv, NEW t \in Thread, ResolveNota(t)
  PROVE  TruthInv'
<1>1. task[t].pc = "nota"
  BY DEF ResolveNota, At
<1>2. PICK b \in Branch : /\ b = task[t].b /\ task[t].goal = TerminalOf(task[t].decision)
                          /\ ~InDoubt(db[b])
  BY <1>1, ResolvingBranch
<1>3. UNCHANGED <<jstate, db, applied, forgotten, active, op>>
  BY DEF ResolveNota, journalVars, dbVars, connVars
<1>4. CASE IsTerminal(jstate[b])
  BY <1>2, <1>3, <1>4, ReplyTruth DEF ResolveNota
<1>5. CASE ~IsTerminal(jstate[b])
  <2>1. /\ told' = told /\ \A u \in Thread \ {t} : task'[u] = task[u]
        /\ task'[t].b = b /\ task'[t].from = task[t].from /\ task'[t].goal = task[t].goal
    BY <1>2, <1>5 DEF ResolveNota, GoOn, Job, TypeOK
  <2>2. jstate[b] = task[t].from => RowTrue(b, TerminalOf(task[t].decision))
    BY <1>1, <1>2, GoneAsAnnounced
  <2>3. task'[t].goal # "PREPARED" /\ db[b] # "prepared"
    BY <1>2, <2>1 DEF TerminalOf, InDoubt
  <2>4. TaskTruth(t)'
    BY <1>2, <1>3, <2>1, <2>2, <2>3 DEF TaskTruth, RowTrue
  <2> QED
    BY <1>3, <2>1, <2>4, GoOnTruth
<1> QED
  BY <1>4, <1>5

\* A prepared branch is resolved as its row announces; what other threads are
\* about to record of it is neither outcome.
LEMMA ResolveXaTruth ==
  ASSUME TypeOK, TypeOK', Inv, TruthInv, NEW t \in Thread, ResolveXa(t)
  PROVE  TruthInv'
<1>1. task[t].pc = "xa"
  BY DEF ResolveXa, At
<1>2. PICK b \in Branch :
        /\ b = task[t].b /\ \A e \in Conn : ~Holds(e, b)
        /\ jstate[b] = task[t].from \/ IsTerminal(jstate[b]) \/ b \in forgotten
        /\ \/ task[t].decision = "commit" /\ task[t].from = "COMMITTING"
           \/ task[t].decision = "rollback" /\ task[t].from \in {"ROLLING_BACK", "ROLLING_BACK_ACTIVE"}
  BY <1>1, ResolvingBranch
<1>3. Truth(b) /\ ReplyInv(b)
  BY DEF TruthInv
<1>4. /\ UNCHANGED <<jstate, told, forgotten, active, op>>
      /\ \A u \in Thread \ {t} : task'[u] = task[u]
      /\ \A x \in Branch \ {b} : db'[x] = db[x] /\ (x \in applied' <=> x \in applied)
  BY <1>2 DEF ResolveXa, GoOn, Throw, TypeOK, journalVars, dbVars, connVars
<1>5. task'[t].pc = "record" => task'[t].b = b /\ task'[t].from = task[t].from
  BY <1>2, NoTaskType DEF ResolveXa, GoOn, Throw, Job, TypeOK
<1>6. CASE UNCHANGED dbVars
  <2>1. task'[t].pc = "record" => task'[t].goal = db[b] /\ db[b] \in Heuristic
    <3>1. CASE db[b] = "prepared"
      <4>1. db'[b] = db[b]
        BY <1>6 DEF dbVars
      <4>2. task'[t].pc # "record"
        BY <1>2, <3>1, <4>1, NoTaskType DEF ResolveXa, GoOn, Throw, Job, TypeOK, Heuristic, InDoubt
      <4> QED
        BY <4>2
    <3>2. CASE db[b] # "prepared"
      BY <1>2, <3>2, NoTaskType DEF ResolveXa, GoOn, Throw, Job, TypeOK
    <3> QED
      BY <3>1, <3>2
  <2>2. TaskTruth(t)'
    BY <1>3, <1>4, <1>5, <1>6, <2>1 DEF TaskTruth, RowTrue, Truth, dbVars, Heuristic
  <2> QED
    BY <1>4, <1>6, <2>2, GoOnTruth DEF dbVars
<1>7. CASE /\ db[b] = "prepared" /\ db'[b] = "none"
           /\ b \in applied' <=> b \in applied \/ task[t].decision = "commit"
           /\ task'[t].pc = "record" => task'[t].goal = TerminalOf(task[t].decision)
  <2>1. jstate[b] = task[t].from /\ jstate[b] \in {"COMMITTING", "ROLLING_BACK"} /\ b \notin applied
    BY <1>2, <1>3, <1>7 DEF Truth, IsTerminal, Resolved, Heuristic
  <2>2. Truth(b)'
    BY <1>2, <1>3, <1>4, <1>7, <2>1
       DEF Truth, RowTrue, Undone, InDoubt, IsTerminal, Resolved, Heuristic
  <2>3. ReplyInv(b)'
    BY <1>3, <1>4 DEF ReplyInv
  <2>4. TaskTruth(t)'
    BY <1>2, <1>4, <1>5, <1>7, <2>1 DEF TaskTruth, RowTrue, TerminalOf
  <2>5. ASSUME NEW u \in Thread \ {t}, task[u].b = b PROVE TaskTruth(u)'
    <3>1. TaskTruth(u)
      BY DEF TruthInv
    <3>2. CASE task[u].pc = "record" /\ jstate[b] = task[u].from
      <4>1. task[u].goal = "PREPARED"
        BY <1>7, <2>5, <3>1, <3>2 DEF TaskTruth
      <4>2. u = Startup
        BY <3>2, <4>1, ResolvingBranch
      <4>3. phase = "starting" /\ t \in Worker
        BY <3>2, <4>2 DEF Inv, StartupInv, Thread
      <4> QED
        BY <1>1, <4>3 DEF Inv, WorkerInv
    <3>3. CASE ~(task[u].pc = "record" /\ jstate[b] = task[u].from)
      BY <1>4, <2>5, <3>3 DEF TaskTruth
    <3> QED
      BY <3>2, <3>3
  <2> QED
    BY <1>2, <1>4, <2>2, <2>3, <2>4, <2>5, TaskFrame
<1>8. \/ UNCHANGED dbVars
      \/ /\ db[b] = "prepared" /\ db'[b] = "none"
         /\ b \in applied' <=> b \in applied \/ task[t].decision = "commit"
         /\ task'[t].pc = "record" => task'[t].goal = TerminalOf(task[t].decision)
  BY <1>2, NoTaskType DEF ResolveXa, GoOn, Throw, Job, TypeOK
<1> QED
  BY <1>6, <1>7, <1>8

\* The recorded outcome is true, it ends every other resolution of the branch,
\* and the reply names the row.
LEMMA ResolveRecordTruth ==
  ASSUME TypeOK, TypeOK', Inv, TruthInv, MaxJournalFaults = 0, NEW t \in Thread, ResolveRecord(t)
  PROVE  TruthInv'
<1>1. task[t].pc = "record" /\ Running(t)
  BY DEF ResolveRecord, At
<1>2. PICK b \in Branch :
        /\ b = task[t].b /\ \A e \in Conn : ~Holds(e, b)
        /\ task[t].from \in {"ACTIVE", "PREPARED"} \cup Intent
        /\ task[t].goal \in Heuristic \cup Resolved \cup {"PREPARED"}
        /\ t # Startup => task[t].goal # "PREPARED"
        /\ t = Startup => jstate[b] = task[t].from
  BY <1>1, ResolvingBranch
<1>3. Truth(b) /\ ReplyInv(b) /\ TaskTruth(t)
  BY DEF TruthInv
<1>4. /\ UNCHANGED <<db, applied, forgotten, active, op>>
      /\ \A u \in Thread \ {t} : task'[u] = task[u]
      /\ task'[t] = NoTask
      /\ \A x \in Branch \ {b} : jstate'[x] = jstate[x] /\ told'[x] = told[x]
  BY <1>2, WritesReturn DEF ResolveRecord, Write, Reply, Throw, TypeOK, dbVars, connVars
<1>5. /\ jstate'[b] = IF jstate[b] = task[t].from THEN task[t].goal ELSE jstate[b]
      /\ \/ told'[b] = told[b]
         \/ t # Startup /\ jstate'[b] = task[t].goal /\ told'[b] = told[b] \cup {task[t].goal}
  BY <1>2, WritesReturn DEF ResolveRecord, Write, Moved, Reply, Throw, TypeOK
<1>6. TaskTruth(t)'
  BY <1>4, NoTaskType DEF TaskTruth
<1>7. Truth(b)'
  <2>1. CASE jstate[b] = task[t].from
    <3>1. /\ RowTrue(b, task[t].goal) /\ (task[t].goal # "PREPARED" => db[b] # "prepared")
          /\ task[t].goal = "PREPARED" => InDoubt(db[b])
      BY <1>1, <1>2, <1>3, <2>1 DEF TaskTruth
    <3>2. b \notin forgotten
      BY <1>2, <1>3, <2>1 DEF Truth, IsTerminal, Resolved, Heuristic, Intent, OnePhaseIntent
    <3> QED
      BY <1>2, <1>3, <1>4, <1>5, <2>1, <3>1, <3>2
         DEF Truth, RowTrue, Undone, InDoubt, Resolved, Heuristic
  <2>2. CASE jstate[b] # task[t].from
    BY <1>3, <1>4, <1>5, <2>2 DEF Truth, RowTrue, Undone
  <2> QED
    BY <2>1, <2>2
<1>8. ReplyInv(b)'
  <2>1. CASE jstate[b] = task[t].from
    <3>1. told[b] = {}
      BY <1>2, <1>3, <2>1 DEF ReplyInv, IsTerminal, Resolved, Heuristic, Intent, OnePhaseIntent
    <3> QED
      BY <1>2, <1>5, <2>1, <3>1 DEF ReplyInv, IsTerminal
  <2>2. CASE jstate[b] # task[t].from
    BY <1>2, <1>3, <1>4, <1>5, <2>2 DEF ReplyInv, IsTerminal
  <2> QED
    BY <2>1, <2>2
<1>9. ASSUME NEW u \in Thread \ {t}, task[u].b = b PROVE TaskTruth(u)'
  <2>1. CASE task[u].pc = "record"
    <3>1. u # Startup
      <4>1. t # Startup => phase # "starting"
        BY <1>1 DEF Running
      <4> QED
        BY <2>1, <4>1 DEF Inv, StartupInv
    <3>2. t # Startup
      <4>1. phase = "up"
        BY <2>1, <3>1 DEF Inv, WorkerInv, Thread
      <4> QED
        BY <1>1, <4>1 DEF Running
    <3>3. task[u].from \in {"COMMITTING", "ROLLING_BACK"}
      BY <2>1, <3>1, ResolvingBranch
    <3>4. CASE jstate[b] = task[t].from
      <4>1. jstate'[b] # task[u].from
        BY <1>2, <1>5, <3>2, <3>3, <3>4 DEF Heuristic, Resolved
      <4> QED
        BY <1>4, <1>9, <4>1 DEF TaskTruth
    <3>5. CASE jstate[b] # task[t].from
      BY <1>4, <1>5, <1>9, <3>5, TaskTruthKept
    <3> QED
      BY <3>4, <3>5
  <2>2. CASE task[u].pc # "record"
    BY <1>4, <2>2 DEF TaskTruth
  <2> QED
    BY <2>1, <2>2
<1> QED
  BY <1>2, <1>4, <1>6, <1>7, <1>8, <1>9, TaskFrame

\* Only a terminal row is forgotten.
LEMMA CallForgetTruth ==
  ASSUME TypeOK, Inv, TruthInv, NEW w \in Worker, NEW b \in Branch, CallForget(w, b)
  PROVE  TruthInv'
<1>1. /\ UNCHANGED <<jstate, db, applied, told, active, op>> /\ IsTerminal(jstate[b])
      /\ w \in Thread /\ \A u \in Thread \ {w} : task'[u] = task[u]
      /\ task'[w].pc # "record" /\ forgotten' = forgotten \cup {b}
  BY DEF CallForget, GoOn, Job, TypeOK, Thread, journalVars, dbVars, connVars
<1>2. Truth(b) /\ ReplyInv(b)
  BY DEF TruthInv
<1>3. Truth(b)'
  BY <1>1, <1>2 DEF Truth, RowTrue, Undone
<1>4. ReplyInv(b)'
  BY <1>1, <1>2 DEF ReplyInv
<1>5. \A e \in Conn : OpTruth(e)'
  BY <1>1, OpTruthKept
<1>6. ASSUME NEW u \in Thread PROVE TaskTruth(u)'
  <2>1. CASE u = w
    BY <1>1, <2>1 DEF TaskTruth
  <2>2. CASE u # w
    BY <1>1, <2>2, TaskTruthKept
  <2> QED
    BY <2>1, <2>2
<1> QED
  BY <1>1, <1>3, <1>4, <1>5, <1>6, TaskFrame

\* A forgotten branch concerns nobody: neither an operation nor a thread that
\* still works on it is about to record anything true of it.
LEMMA ForgottenBranch ==
  ASSUME TypeOK, Inv, TruthInv, NEW b \in forgotten, b \in Branch, UNCHANGED <<active, op>>,
         jstate'[b] \in {jstate[b], "ABSENT"}
  PROVE  /\ \A e \in Conn : Holds(e, b) => OpTruth(e)'
         /\ \A u \in Thread : task'[u] = task[u] /\ task[u].b = b => TaskTruth(u)'
         /\ jstate[b] = "ABSENT" \/ IsTerminal(jstate[b])
<1>1. Truth(b) /\ (jstate[b] = "ABSENT" \/ IsTerminal(jstate[b]))
  BY DEF TruthInv, Truth
<1>2. ASSUME NEW e \in Conn, Holds(e, b) PROVE OpTruth(e)'
  <2>1. op[e] \in Op /\ OpTruth(e) /\ OpInv(e)
    BY DEF TypeOK, TruthInv, Inv
  <2>2. CASE op[e].pc = "idle"
    <3>1. active[e] = b
      BY <1>2, <2>1, <2>2, OpFields, NoOpType, ConstantsAssumption DEF Holds, ConstantsAssumption
    <3> QED
      BY <1>1, <2>1, <2>2, <3>1, ConstantsAssumption
         DEF OpTruth, IsTerminal, Resolved, Heuristic, ConstantsAssumption
  <2>3. CASE op[e].pc # "idle"
    <3>1. op[e].pc \in OpPc /\ HeldInv(e)
      BY <2>1, <2>3, OpFields DEF Inv
    <3>2. CASE op[e].b = b
      BY <2>1, <2>3, <3>1, <3>2 DEF OpInv, OpPc, OpTruth
    <3>3. CASE op[e].b # b
      <4>1. active[e] = b
        BY <1>2, <3>3 DEF Holds
      <4> QED
        BY <2>1, <2>3, <3>1, <3>3, <4>1, ConstantsAssumption DEF OpInv, OpPc, ConstantsAssumption
    <3> QED
      BY <3>2, <3>3
  <2> QED
    BY <2>2, <2>3
<1>3. ASSUME NEW u \in Thread, task'[u] = task[u], task[u].b = b PROVE TaskTruth(u)'
  <2>1. CASE task[u].pc = "record"
    <3>1. task[u].from \in {"ACTIVE", "PREPARED"} \cup Intent
      BY <2>1, ResolvingBranch
    <3> QED
      BY <1>1, <1>3, <3>1
         DEF TaskTruth, IsTerminal, Resolved, Heuristic, Intent, OnePhaseIntent
  <2>2. CASE task[u].pc # "record"
    BY <1>3, <2>2 DEF TaskTruth
  <2> QED
    BY <2>1, <2>2
<1> QED
  BY <1>1, <1>2, <1>3

\* The resource manager forgets an outcome that the row still reports.
LEMMA ForgetXaTruth ==
  ASSUME TypeOK, TypeOK', Inv, TruthInv, NEW w \in Worker, ForgetXa(w)
  PROVE  TruthInv'
<1>1. PICK b \in Branch : b = task[w].b /\ w \in Thread /\ w # Startup /\ b \in forgotten
  BY TaskBranch DEF ForgetXa, At, WorkerInv
<1>2. /\ UNCHANGED <<jstate, applied, told, forgotten, active, op>>
      /\ \A u \in Thread \ {w} : task'[u] = task[u]
      /\ \A x \in Branch \ {b} : db'[x] = db[x]
      /\ db'[b] \in {db[b], "none"} /\ task'[w].pc # "record"
  BY <1>1, NoTaskType DEF ForgetXa, GoOn, Throw, Job, TypeOK, journalVars, connVars
<1>3. Truth(b) /\ ReplyInv(b)
  BY DEF TruthInv
<1>4. /\ \A e \in Conn : Holds(e, b) => OpTruth(e)'
      /\ \A u \in Thread : task'[u] = task[u] /\ task[u].b = b => TaskTruth(u)'
      /\ jstate[b] = "ABSENT" \/ IsTerminal(jstate[b])
  BY <1>1, <1>2, ForgottenBranch
<1>5. Truth(b)' /\ ReplyInv(b)'
  BY <1>1, <1>2, <1>3, <1>4
     DEF Truth, RowTrue, Undone, ReplyInv, InDoubt, IsTerminal, Resolved, Heuristic
<1>6. TaskTruth(w)'
  BY <1>2 DEF TaskTruth
<1> QED
  BY <1>1, <1>2, <1>4, <1>5, <1>6, TaskFrame

\* The row of a forgotten branch goes.
LEMMA ForgetDeleteTruth ==
  ASSUME TypeOK, TypeOK', Inv, TruthInv, MaxJournalFaults = 0, NEW w \in Worker, ForgetDelete(w)
  PROVE  TruthInv'
<1>1. PICK b \in Branch : b = task[w].b /\ w \in Thread /\ w # Startup /\ b \in forgotten
  BY TaskBranch DEF ForgetDelete, At, WorkerInv
<1>2. /\ UNCHANGED <<db, applied, told, forgotten, active, op>>
      /\ \A u \in Thread \ {w} : task'[u] = task[u]
      /\ \A x \in Branch \ {b} : jstate'[x] = jstate[x]
      /\ jstate'[b] = "ABSENT" /\ task'[w].pc # "record"
  BY <1>1, NoTaskType, WritesReturn DEF ForgetDelete, Delete, TypeOK, dbVars, connVars, history
<1>3. Truth(b) /\ ReplyInv(b)
  BY DEF TruthInv
<1>4. /\ \A e \in Conn : Holds(e, b) => OpTruth(e)'
      /\ \A u \in Thread : task'[u] = task[u] /\ task[u].b = b => TaskTruth(u)'
      /\ jstate[b] = "ABSENT" \/ IsTerminal(jstate[b])
  BY <1>1, <1>2, ForgottenBranch
<1>5. Truth(b)' /\ ReplyInv(b)'
  BY <1>1, <1>2, <1>3, <1>4
     DEF Truth, RowTrue, Undone, ReplyInv, InDoubt, IsTerminal, Resolved, Heuristic
<1>6. TaskTruth(w)'
  BY <1>2 DEF TaskTruth
<1> QED
  BY <1>1, <1>2, <1>4, <1>5, <1>6, TaskFrame

\* What the reconciliation decides from the row and the scan is true.
LEMMA ReconcileTruth ==
  ASSUME TypeOK, Inv, TruthInv, NEW b \in Branch, Reconcile(b)
  PROVE  TruthInv'
<1>1. PICK s \in BranchState \cup {"ABSENT"} : s = jstate[b]
  BY DEF TypeOK
<1>2. PICK p \in BOOLEAN : p = (b \in scan)
  <2>1. (b \in scan) \in BOOLEAN
    OBVIOUS
  <2> QED
    BY <2>1, Zenon
<1>3. /\ UNCHANGED <<jstate, db, applied, told, forgotten, active, op>>
      /\ Startup \in Thread /\ phase = "starting" /\ b \in todo
      /\ \A u \in Thread \ {Startup} : task'[u] = task[u]
      /\ \/ task'[Startup] = task[Startup]
         \/ task'[Startup].pc # "record"
         \/ /\ task'[Startup].b = b /\ task'[Startup].from = s
            /\ task'[Startup].goal = ReconcileGoal(s, p) /\ ReconcileGoal(s, p) \notin {s, "xa"}
  BY <1>1, <1>2 DEF Reconcile, At, Running, Job, TypeOK, Thread, journalVars, dbVars, connVars, history
<1>4. p <=> InDoubt(db[b])
  BY <1>2, <1>3 DEF Inv, ScanInv
<1>5. Truth(b) /\ (InDoubt(db[b]) => IsRecoverable(jstate[b]))
  BY DEF TruthInv, Inv, InDoubtListed
<1>6. ReconcileGoal(s, p) \notin {s, "xa"} =>
        /\ RowTrue(b, ReconcileGoal(s, p))
        /\ ReconcileGoal(s, p) # "PREPARED" => db[b] # "prepared"
        /\ ReconcileGoal(s, p) = "PREPARED" => InDoubt(db[b])
  <2>1. CASE p
    BY <1>1, <1>4, <1>5, <2>1 DEF ReconcileGoal, Truth, RowTrue, IsRecoverable, InDoubt, BranchState,
       Heuristic, Resolved, Intent, OnePhaseIntent
  <2>2. CASE ~p
    BY <1>1, <1>4, <1>5, <2>2 DEF ReconcileGoal, Truth, Undone, RowTrue, InDoubt, BranchState,
       Heuristic, Resolved, Intent, OnePhaseIntent
  <2> QED
    BY <2>1, <2>2
<1>7. TaskTruth(Startup)' \/ task'[Startup] = task[Startup]
  BY <1>3, <1>6 DEF TaskTruth, RowTrue
<1> QED
  BY <1>3, <1>7, TruthUntouched

\* Initially journal and database are empty.
LEMMA TruthInit == Init => TruthInv
<1> SUFFICES ASSUME Init PROVE TruthInv
  OBVIOUS
<1>1. /\ \A b \in Branch : jstate[b] = "ABSENT" /\ db[b] = "none" /\ told[b] = {}
      /\ applied = {} /\ forgotten = {}
      /\ \A c \in Conn : active[c] = NoBranch /\ op[c].pc = "idle"
      /\ \A t \in Thread : task[t].pc = "idle"
  BY NoOpType, NoTaskType DEF Init
<1>2. ASSUME NEW b \in Branch PROVE Truth(b) /\ ReplyInv(b)
  BY <1>1 DEF Truth, RowTrue, Undone, ReplyInv, InDoubt, Heuristic
<1>3. \A c \in Conn : OpTruth(c)
  BY <1>1 DEF OpTruth
<1>4. \A t \in Thread : TaskTruth(t)
  BY <1>1 DEF TaskTruth
<1> QED
  BY <1>2, <1>3, <1>4 DEF TruthInv

\* Every step keeps journal, database and replies in agreement when no journal
\* write fails.
LEMMA TruthStep ==
  ASSUME MaxJournalFaults = 0
  PROVE  IndInv /\ TruthInv /\ [Next]_vars => TruthInv'
<1> SUFFICES ASSUME TypeOK, Inv, TruthInv, [Next]_vars PROVE TruthInv'
  BY DEF IndInv
<1>1. TypeOK'
  BY TypeStep
<1>2. ASSUME NEW c \in Conn, ConnStep(c) PROVE TruthInv'
  BY <1>1, <1>2, BeginStartTruth, BeginUndoTruth, PrepareXaTruth, RecordPrepareTruth,
     ResolveActiveXaTruth, RecordResolveTruth, RecordFailureTruth, CloseXaTruth, RecordCloseTruth
     DEF ConnStep
<1>3. ASSUME NEW c \in Conn, ConnCall(c) PROVE TruthInv'
  BY <1>1, <1>3, QuietTruth, CloseIntentTruth, BeginInsertTruth, PrepareIntentTruth,
     ResolveActiveIntentTruth, ResolveActiveAgainTruth DEF ConnCall
<1>4. ASSUME NEW w \in Worker, WorkerStep(w) PROVE TruthInv'
  BY <1>1, <1>4, ResolveFindTruth, ResolveCasTruth, ResolveScanTruth, ForgetXaTruth,
     ForgetDeleteTruth DEF WorkerStep
<1>5. ASSUME NEW w \in Worker, WorkerCall(w) PROVE TruthInv'
  BY <1>5, CallResolveTruth, CallForgetTruth DEF WorkerCall
<1>6. ASSUME NEW t \in Thread, TaskStep(t) PROVE TruthInv'
  BY <1>1, <1>6, ResolveXaTruth, ResolveNotaTruth, ResolveRecordTruth DEF TaskStep
<1>7. ASSUME NEW b \in Branch, Reconcile(b) \/ DbHeuristic(b) \/ DbAbort(b) PROVE TruthInv'
  BY <1>7, ReconcileTruth, DbHeuristicTruth, DbAbortTruth
<1> QED
  BY <1>2, <1>3, <1>4, <1>5, <1>6, <1>7, QuietTruth, CrashTruth DEF Next

\* What journal, database and replies know of each other, in every reachable state.
THEOREM TruthKept ==
  ASSUME MaxJournalFaults = 0
  PROVE  Spec => []TruthInv
<1>1. IndInv /\ TruthInv /\ [Next]_vars => TruthInv'
  BY TruthStep
<1> QED
  BY <1>1, TruthInit, Discipline, PTL DEF Spec

\* What status() reports of a branch is never an outcome the database did not
\* have, whatever crashes or runs concurrently and however often, as long as no
\* journal write fails.
THEOREM JournalAlwaysTruthful ==
  ASSUME MaxJournalFaults = 0
  PROVE  Spec => []JournalTruthful
<1>1. ASSUME TruthInv PROVE JournalTruthful
  <2>1. ASSUME NEW b \in Branch
        PROVE  LET reported == PublicState(jstate[b])
               IN  /\ reported \in {"COMMITTED", "HEURISTIC_COMMIT"} => b \in applied
                   /\ reported \in {"READ_ONLY", "ROLLED_BACK", "HEURISTIC_ROLLBACK"} => b \notin applied
    <3>1. Truth(b)
      BY <1>1 DEF TruthInv
    <3>2. jstate[b] \notin Intent => PublicState(jstate[b]) \in {jstate[b], "NOT_FOUND"}
      BY DEF PublicState
    <3>3. jstate[b] \in Intent => PublicState(jstate[b]) = "HEURISTIC_HAZARD"
      BY DEF PublicState, Intent, OnePhaseIntent
    <3> HIDE DEF PublicState
    <3> QED
      BY <3>1, <3>2, <3>3 DEF Truth, RowTrue
  <2> QED
    BY <2>1 DEF JournalTruthful
<1>2. TruthInv => JournalTruthful
  BY <1>1
<1> QED
  BY <1>2, TruthKept, PTL

\* All the commits and rollbacks of a branch that return a terminal state return
\* the same one, which its row keeps until it is forgotten.
THEOREM RepliesAlwaysAgree ==
  ASSUME MaxJournalFaults = 0
  PROVE  Spec => []RepliesAgree
<1>1. TruthInv => RepliesAgree
  BY DEF TruthInv, ReplyInv, RepliesAgree
<1> QED
  BY <1>1, TruthKept, PTL

\* The rows a step may move are not terminal, but for one that was forgotten.
LEMMA RowKept ==
  ASSUME TypeOK, Inv, TruthInv, MaxJournalFaults = 0, Next, NEW b \in Branch, IsTerminal(jstate[b])
  PROVE  \/ jstate'[b] = jstate[b]
         \/ jstate'[b] = "ABSENT" /\ b \in forgotten
<1> DEFINE Kept == jstate'[b] = jstate[b] \/ (jstate'[b] = "ABSENT" /\ b \in forgotten)
<1>1. jstate[b] \notin {"ACTIVE", "PREPARED", "ABSENT"} \cup Intent
  BY DEF IsTerminal, Resolved, Heuristic, Intent, OnePhaseIntent
<1>2. ASSUME NEW x \in Branch, NEW from \in {"ACTIVE", "PREPARED", "ABSENT"} \cup Intent, NEW to, NEW r,
             Write(x, from, to, r)
      PROVE  Kept
  BY <1>1, <1>2 DEF Write, TypeOK
<1>3. ASSUME NEW c \in Conn, ConnStep(c) PROVE Kept
  <2>1. CASE BeginStart(c) \/ PrepareXa(c) \/ ResolveActiveXa(c) \/ CloseXa(c)
    BY <2>1 DEF BeginStart, PrepareXa, ResolveActiveXa, CloseXa, journalVars
  <2>2. CASE BeginUndo(c)
    <3>1. op[c].b \in Branch /\ jstate[op[c].b] = "ACTIVE"
      BY <2>2, OpBranch DEF BeginUndo, Busy, OpInv
    <3> QED
      BY <1>1, <2>2, <3>1 DEF BeginUndo, Delete, TypeOK
  <2>3. CASE RecordPrepare(c)
    <3>1. op[c].b \in Branch /\ op[c].from = "PREPARING"
      BY <2>3, OpBranch DEF RecordPrepare, Busy, OpInv
    <3> QED
      BY <1>2, <2>3, <3>1 DEF RecordPrepare, Intent
  <2>4. CASE RecordResolve(c)
    <3>1. op[c].b \in Branch /\ op[c].from \in OnePhaseIntent
      BY <2>4, OpBranch DEF RecordResolve, Busy, OpInv
    <3> QED
      BY <1>2, <2>4, <3>1 DEF RecordResolve, Intent
  <2>5. CASE RecordFailure(c)
    <3>1. op[c].b \in Branch /\ op[c].from \in OnePhaseIntent
      BY <2>5, OpBranch DEF RecordFailure, Busy, OpInv
    <3> QED
      BY <1>2, <2>5, <3>1 DEF RecordFailure, Intent
  <2>6. CASE RecordClose(c)
    <3>1. op[c].b \in Branch /\ op[c].from = "ROLLING_BACK_ACTIVE"
      BY <2>6, OpBranch DEF RecordClose, Busy, OpInv
    <3> QED
      BY <1>2, <2>6, <3>1 DEF RecordClose, Intent, OnePhaseIntent
  <2> QED
    BY <1>3, <2>1, <2>2, <2>3, <2>4, <2>5, <2>6 DEF ConnStep
<1>4. ASSUME NEW c \in Conn, ConnCall(c) PROVE Kept
  <2>1. CASE \/ OpenConnection(c) \/ BeginTransaction(c) \/ FinishTransaction(c)
             \/ \E x \in Branch : PrepareAgain(c, x) \/ ResolveActiveAgain(c, x)
    BY <2>1, ConnCallUntouched
  <2>2. CASE CloseIntent(c)
    <3>1. OpTruth(c) /\ op[c].pc = "idle" /\ active[c] \in Branch \cup {NoBranch}
      BY <2>2 DEF CloseIntent, Ready, TruthInv, TypeOK
    <3>2. CASE active[c] \in Branch
      <4>1. jstate[active[c]] = "ACTIVE"
        BY <3>1, <3>2, ConstantsAssumption DEF OpTruth, ConstantsAssumption
      <4> QED
        BY <1>2, <2>2, <3>2, <4>1 DEF CloseIntent
    <3>3. CASE active[c] = NoBranch
      BY <2>2, <3>3, ConstantsAssumption DEF CloseIntent, ConstantsAssumption
    <3> QED
      BY <3>1, <3>2, <3>3
  <2>3. ASSUME NEW x \in Branch, BeginInsert(c, x) PROVE Kept
    BY <1>1, <2>3 DEF BeginInsert, TypeOK
  <2>4. ASSUME NEW x \in Branch, PrepareIntent(c, x) PROVE Kept
    BY <1>2, <2>4 DEF PrepareIntent
  <2>5. ASSUME NEW x \in Branch, NEW d \in Decision, ResolveActiveIntent(c, x, d) PROVE Kept
    BY <1>2, <2>5 DEF ResolveActiveIntent
  <2> QED
    BY <1>4, <2>1, <2>2, <2>3, <2>4, <2>5 DEF ConnCall
<1>5. ASSUME NEW w \in Worker, WorkerStep(w) \/ WorkerCall(w) PROVE Kept
  <2>1. CASE ResolveFind(w) \/ ResolveScan(w) \/ ForgetXa(w) \/ WorkerCall(w)
    BY <2>1 DEF ResolveFind, ResolveScan, ForgetXa, WorkerCall, CallForget, CallResolve, journalVars
  <2>2. CASE ResolveCas(w)
    <3>1. task[w].b \in Branch
      BY <2>2, TaskBranch DEF ResolveCas, At
    <3> QED
      BY <1>2, <2>2, <3>1 DEF ResolveCas
  <2>3. CASE ForgetDelete(w)
    <3>1. task[w].b \in Branch /\ task[w].b \in forgotten
      BY <2>3, TaskBranch DEF ForgetDelete, At, WorkerInv
    <3> QED
      BY <2>3, <3>1 DEF ForgetDelete, Delete, TypeOK
  <2> QED
    BY <1>5, <2>1, <2>2, <2>3 DEF WorkerStep
<1>6. ASSUME NEW t \in Thread, TaskStep(t) PROVE Kept
  <2>1. CASE ResolveXa(t) \/ ResolveNota(t)
    BY <2>1 DEF ResolveXa, ResolveNota, journalVars
  <2>2. CASE ResolveRecord(t)
    <3>1. task[t].b \in Branch /\ task[t].from \in {"ACTIVE", "PREPARED"} \cup Intent
      BY <2>2, ResolvingBranch DEF ResolveRecord, At
    <3> QED
      BY <1>2, <2>2, <3>1 DEF ResolveRecord
  <2> QED
    BY <1>6, <2>1, <2>2 DEF TaskStep
<1>7. CASE Crash \/ Restart \/ Started \/ \E x \in Branch : Reconcile(x) \/ DbHeuristic(x) \/ DbAbort(x)
  BY <1>7 DEF Crash, Restart, Started, Reconcile, DbHeuristic, DbAbort, journalVars
<1> QED
  BY <1>3, <1>4, <1>5, <1>6, <1>7 DEF Next

\* The compare-and-set of transition() never rewrites a terminal row: it only
\* goes away, once Kubling asked to forget the branch.
THEOREM TerminalRowsKept ==
  ASSUME MaxJournalFaults = 0
  PROVE  Spec => TerminalKept
<1>1. IndInv /\ TruthInv /\ [Next]_vars =>
        [\A b \in Branch : IsTerminal(jstate[b]) =>
           \/ jstate'[b] = jstate[b]
           \/ jstate'[b] = "ABSENT" /\ b \in forgotten]_vars
  BY RowKept DEF IndInv
<1> QED
  BY <1>1, Discipline, TruthKept, PTL DEF Spec, TerminalKept

-----------------------------------------------------------------------------
(* What is announced was asked for *)

\* A step that moves no row and lets nobody take hold of a branch.
LEMMA AskedKept ==
  ASSUME AskedInv, UNCHANGED <<jstate, asked, promised>>, forgotten \subseteq forgotten',
         \A e \in Conn, x \in Branch : Holds(e, x)' => Holds(e, x), StartupGoal'
  PROVE  AskedInv'
<1>1. ASSUME NEW x \in Branch PROVE AskedRow(x)'
  <2>1. AskedRow(x)
    BY DEF AskedInv
  <2> QED
    BY <2>1 DEF AskedRow
<1> QED
  BY <1>1 DEF AskedInv

\* A step that moves the row of one branch.
LEMMA AskedFrame ==
  ASSUME AskedInv, NEW b \in Branch, forgotten' = forgotten,
         \A x \in Branch \ {b} : /\ jstate'[x] = jstate[x] /\ asked'[x] = asked[x]
                                 /\ x \in promised' <=> x \in promised
                                 /\ \A e \in Conn : Holds(e, x)' => Holds(e, x),
         AskedRow(b)', StartupGoal'
  PROVE  AskedInv'
<1>1. ASSUME NEW x \in Branch PROVE AskedRow(x)'
  <2>1. CASE x = b
    BY <2>1
  <2>2. CASE x # b
    <3>1. AskedRow(x)
      BY DEF AskedInv
    <3> QED
      BY <2>2, <3>1 DEF AskedRow
  <2> QED
    BY <2>1, <2>2
<1> QED
  BY <1>1 DEF AskedInv

\* The connection that holds a branch moves its row: its prepare was not
\* acknowledged, and the row says committed only when a commit was asked for.
LEMMA AskedHeld ==
  ASSUME AskedInv, NEW c \in Conn, NEW b \in Branch, Holds(c, b),
         UNCHANGED <<task, forgotten, promised>>,
         \A x \in Branch \ {b} : jstate'[x] = jstate[x] /\ asked'[x] = asked[x],
         \A e \in Conn, x \in Branch : Holds(e, x)' => Holds(e, x),
         jstate'[b] \in {"COMMITTING_ONE_PHASE", "COMMITTED"} => "commit" \in asked'[b],
         jstate'[b] \notin {"COMMITTING", "ROLLING_BACK"}
  PROVE  AskedInv'
<1>1. b \notin promised /\ StartupGoal
  BY DEF AskedInv, AskedRow
<1>2. AskedRow(b)'
  BY <1>1 DEF AskedRow
<1>3. StartupGoal'
  BY <1>1 DEF StartupGoal
<1> QED
  BY <1>2, <1>3, AskedFrame

\* The operations of a connection that move no row.
LEMMA ConnQuietAsked ==
  ASSUME TypeOK, Inv, AskedInv, NEW c \in Conn,
         \/ OpenConnection(c) \/ BeginTransaction(c) \/ FinishTransaction(c)
         \/ \E b \in Branch : ResolveActiveAgain(c, b)
         \/ BeginStart(c) \/ PrepareXa(c) \/ ResolveActiveXa(c) \/ CloseXa(c)
  PROVE  AskedInv'
<1>1. UNCHANGED <<jstate, asked, promised, forgotten, task>>
  BY DEF OpenConnection, BeginTransaction, FinishTransaction, ResolveActiveAgain, BeginStart,
         PrepareXa, ResolveActiveXa, CloseXa, journalVars, history
<1>2. \A e \in Conn \ {c} : active'[e] = active[e] /\ op'[e] = op[e]
  BY DEF OpenConnection, BeginTransaction, FinishTransaction, ResolveActiveAgain, BeginStart,
         PrepareXa, ResolveActiveXa, CloseXa, connVars, TypeOK
<1>3. active'[c] \in {active[c], op[c].b, NoBranch} /\ op'[c].b \in {op[c].b, NoBranch}
  BY NoOpType DEF OpenConnection, BeginTransaction, FinishTransaction, ResolveActiveAgain, BeginStart,
         PrepareXa, ResolveActiveXa, CloseXa, connVars, TypeOK, Doing
<1>4. \A e \in Conn, x \in Branch : Holds(e, x)' => Holds(e, x)
  BY <1>2, <1>3, ConstantsAssumption DEF Holds, ConstantsAssumption
<1>5. StartupGoal'
  BY <1>1 DEF AskedInv, StartupGoal
<1> QED
  BY <1>1, <1>4, <1>5, AskedKept

\* The operations of a connection that move the row of the branch it holds.
LEMMA ConnHeldAsked ==
  ASSUME TypeOK, Inv, AskedInv, NEW c \in Conn,
         BeginUndo(c) \/ RecordResolve(c) \/ RecordFailure(c) \/ RecordClose(c)
  PROVE  AskedInv'
<1>1. op[c].pc \in {"undo", "recordResolve", "recordFailure", "recordClose"}
  BY DEF BeginUndo, RecordResolve, RecordFailure, RecordClose, Busy
<1>2. PICK b \in Branch : b = op[c].b /\ Holds(c, b) /\ OpInv(c) /\ AskedRow(b)
  BY <1>1, OpBranch DEF AskedInv
<1>3. UNCHANGED <<task, forgotten, promised, asked>>
  BY DEF BeginUndo, RecordResolve, RecordFailure, RecordClose, history
<1>4. \A x \in Branch \ {b} : jstate'[x] = jstate[x]
  BY <1>2 DEF BeginUndo, RecordResolve, RecordFailure, RecordClose, Delete, Write, TypeOK
<1>5. /\ \A e \in Conn \ {c} : active'[e] = active[e] /\ op'[e] = op[e]
      /\ active'[c] \in {active[c], NoBranch} /\ op'[c].b = NoBranch
  BY NoOpType DEF BeginUndo, RecordResolve, RecordFailure, RecordClose, TypeOK
<1>6. \A e \in Conn, x \in Branch : Holds(e, x)' => Holds(e, x)
  BY <1>5, ConstantsAssumption DEF Holds, ConstantsAssumption
<1>7. \/ jstate'[b] \in {jstate[b], "ABSENT"} /\ op[c].pc = "undo"
      \/ jstate'[b] \in {jstate[b], op[c].goal} /\ op[c].pc # "undo"
  BY <1>2 DEF BeginUndo, RecordResolve, RecordFailure, RecordClose, Busy, Delete, Write, TypeOK
<1>8. /\ jstate'[b] \in {"COMMITTING_ONE_PHASE", "COMMITTED"} => "commit" \in asked[b]
      /\ jstate'[b] \notin {"COMMITTING", "ROLLING_BACK"}
  BY <1>1, <1>2, <1>7 DEF OpInv, AskedRow, OnePhaseIntent, Heuristic
<1> QED
  BY <1>2, <1>3, <1>4, <1>6, <1>8, AskedHeld

\* The calls that announce something about the branch the connection holds.
LEMMA ConnIntentAsked ==
  ASSUME TypeOK, Inv, AskedInv, NEW c \in Conn, NEW b \in Branch, active[c] = b,
         \/ PrepareIntent(c, b) \/ CloseIntent(c)
         \/ \E d \in Decision : ResolveActiveIntent(c, b, d)
  PROVE  AskedInv'
<1>1. Holds(c, b) /\ AskedRow(b) /\ jstate[b] \in HeldRow
  BY HeldRows DEF Holds, AskedInv
<1>2. UNCHANGED <<task, forgotten, promised>>
  BY DEF PrepareIntent, CloseIntent, ResolveActiveIntent, history
<1>3. \A x \in Branch \ {b} : jstate'[x] = jstate[x] /\ asked'[x] = asked[x]
  BY DEF PrepareIntent, CloseIntent, ResolveActiveIntent, Write, TypeOK, history
<1>4. /\ \A e \in Conn \ {c} : active'[e] = active[e] /\ op'[e] = op[e]
      /\ active'[c] \in {active[c], NoBranch} /\ op'[c].b \in {b, op[c].b}
  BY DEF PrepareIntent, CloseIntent, ResolveActiveIntent, Doing, TypeOK
<1>5. \A e \in Conn, x \in Branch : Holds(e, x)' => Holds(e, x)
  BY <1>1, <1>4, ConstantsAssumption DEF Holds, ConstantsAssumption
<1>6. /\ jstate'[b] \in {"COMMITTING_ONE_PHASE", "COMMITTED"} => "commit" \in asked'[b]
      /\ jstate'[b] \notin {"COMMITTING", "ROLLING_BACK"}
  <2>1. CASE PrepareIntent(c, b) \/ CloseIntent(c)
    BY <1>1, <2>1 DEF PrepareIntent, CloseIntent, Write, TypeOK, history, AskedRow, HeldRow,
       OnePhaseIntent
  <2>2. ASSUME NEW d \in Decision, ResolveActiveIntent(c, b, d)
        PROVE  /\ jstate'[b] \in {"COMMITTING_ONE_PHASE", "COMMITTED"} => "commit" \in asked'[b]
               /\ jstate'[b] \notin {"COMMITTING", "ROLLING_BACK"}
    BY <1>1, <2>2 DEF ResolveActiveIntent, Write, TypeOK, Decision
  <2> QED
    BY <2>1, <2>2
<1> QED
  BY <1>1, <1>2, <1>3, <1>5, <1>6, AskedHeld

\* close() of a connection that holds nothing.
LEMMA CloseNothingAsked ==
  ASSUME TypeOK, Inv, AskedInv, NEW c \in Conn, active[c] = NoBranch, CloseIntent(c)
  PROVE  AskedInv'
<1>1. UNCHANGED <<jstate, asked, promised, forgotten, task, op>>
  BY ConstantsAssumption DEF CloseIntent, ConstantsAssumption, history
<1>2. \A e \in Conn : active'[e] = active[e]
  BY DEF CloseIntent, TypeOK
<1>3. \A e \in Conn, x \in Branch : Holds(e, x)' => Holds(e, x)
  BY <1>1, <1>2 DEF Holds
<1>4. StartupGoal'
  BY <1>1 DEF AskedInv, StartupGoal
<1> QED
  BY <1>1, <1>3, <1>4, AskedKept

\* A branch that is begun has no acknowledged prepare.
LEMMA BeginInsertAsked ==
  ASSUME TypeOK, Inv, AskedInv, NEW c \in Conn, NEW b \in Branch, BeginInsert(c, b)
  PROVE  AskedInv'
<1>1. AskedRow(b) /\ b \notin promised
  BY DEF BeginInsert, AskedInv, AskedRow
<1>2. /\ UNCHANGED <<task, forgotten, promised, asked, active>>
      /\ \A x \in Branch \ {b} : jstate'[x] = jstate[x]
      /\ \A e \in Conn \ {c} : op'[e] = op[e]
      /\ op'[c].b \in {op[c].b, b} /\ jstate'[b] \in {"ABSENT", "ACTIVE"}
  BY DEF BeginInsert, TypeOK, Doing, history
<1>3. \A x \in Branch \ {b}, e \in Conn : Holds(e, x)' => Holds(e, x)
  BY <1>2 DEF Holds
<1>4. AskedRow(b)'
  BY <1>1, <1>2 DEF AskedRow
<1>5. StartupGoal'
  BY <1>2 DEF AskedInv, StartupGoal
<1> QED
  BY <1>2, <1>3, <1>4, <1>5, AskedFrame

\* An acknowledged prepare leaves the branch with nobody.
LEMMA PreparedAsked ==
  ASSUME TypeOK, Inv, AskedInv, NEW c \in Conn,
         RecordPrepare(c) \/ \E x \in Branch : PrepareAgain(c, x)
  PROVE  AskedInv'
<1>1. CASE RecordPrepare(c)
  <2>1. op[c].pc = "recordPrepare"
    BY <1>1 DEF RecordPrepare, Busy
  <2>2. PICK b \in Branch : b = op[c].b /\ Holds(c, b) /\ OpInv(c) /\ AskedRow(b)
    BY <2>1, OpBranch DEF AskedInv
  <2>3. /\ active[c] = NoBranch /\ jstate[b] = "PREPARING" /\ op[c].from = "PREPARING"
        /\ op[c].goal \in {"PREPARED", "READ_ONLY"} /\ b \notin promised
    BY <2>1, <2>2 DEF OpInv, AskedRow
  <2>4. /\ UNCHANGED <<task, forgotten, asked, active>>
        /\ \A x \in Branch \ {b} : jstate'[x] = jstate[x] /\ (x \in promised' <=> x \in promised)
        /\ \A e \in Conn \ {c} : op'[e] = op[e]
        /\ op'[c].b = NoBranch
    BY <1>1, <2>2, NoOpType DEF RecordPrepare, Write, TypeOK
  <2>5. /\ jstate'[b] \in {jstate[b], op[c].goal}
        /\ b \in promised' => jstate'[b] = "PREPARED"
    BY <1>1, <2>2, <2>3 DEF RecordPrepare, Write, Moved, TypeOK
  <2>6. \A e \in Conn : ~Holds(e, b)'
    BY <2>2, <2>3, <2>4, HeldAlone, ConstantsAssumption DEF Holds, ConstantsAssumption
  <2>7. \A x \in Branch, e \in Conn : Holds(e, x)' => Holds(e, x)
    BY <2>4, ConstantsAssumption DEF Holds, ConstantsAssumption
  <2>8. AskedRow(b)'
    BY <2>3, <2>5, <2>6 DEF AskedRow, OnePhaseIntent
  <2>9. StartupGoal'
    BY <2>4 DEF AskedInv, StartupGoal
  <2> QED
    BY <2>4, <2>7, <2>8, <2>9, AskedFrame
<1>2. ASSUME NEW b \in Branch, PrepareAgain(c, b) PROVE AskedInv'
  <2>1. /\ UNCHANGED <<jstate, active, op, task, asked, forgotten>> /\ jstate[b] = "PREPARED"
        /\ promised' = promised \cup {b}
    BY <1>2 DEF PrepareAgain, journalVars, connVars
  <2>2. \A e \in Conn : ~Holds(e, b)
    BY <2>1, HeldRows DEF HeldRow, OnePhaseIntent
  <2>3. \A x \in Branch, e \in Conn : Holds(e, x)' => Holds(e, x)
    BY <2>1 DEF Holds
  <2>4. AskedRow(b)'
    BY <2>1, <2>2, <2>3 DEF AskedRow, OnePhaseIntent
  <2>5. StartupGoal'
    BY <2>1 DEF AskedInv, StartupGoal
  <2> QED
    BY <2>1, <2>3, <2>4, <2>5, AskedFrame
<1> QED
  BY <1>1, <1>2

\* The steps of the recovery manager's threads, of the process and of the
\* database that move no row.
LEMMA ThreadQuietAsked ==
  ASSUME TypeOK, Inv, AskedInv, UNCHANGED <<jstate, asked, promised>>, forgotten \subseteq forgotten',
         \A e \in Conn : /\ active'[e] \in {active[e], NoBranch}
                         /\ op'[e].b \in {op[e].b, NoBranch},
         task'[Startup] = task[Startup] \/ StartupGoal'
  PROVE  AskedInv'
<1>1. \A e \in Conn, x \in Branch : Holds(e, x)' => Holds(e, x)
  BY ConstantsAssumption DEF Holds, ConstantsAssumption
<1>2. StartupGoal'
  BY DEF AskedInv, StartupGoal
<1> QED
  BY <1>1, <1>2, AskedKept

\* The steps of a thread that announce and record nothing.
LEMMA WorkerQuietAsked ==
  ASSUME TypeOK, Inv, AskedInv, NEW w \in Worker,
         ResolveFind(w) \/ ResolveScan(w) \/ ForgetXa(w) \/ WorkerCall(w)
  PROVE  AskedInv'
<1>1. /\ UNCHANGED <<jstate, asked, promised, active, op>> /\ forgotten \subseteq forgotten'
  BY DEF ResolveFind, ResolveScan, ForgetXa, WorkerCall, CallForget, CallResolve, journalVars, connVars
<1>2. task'[Startup] = task[Startup]
  BY ConstantsAssumption DEF ResolveFind, ResolveScan, ForgetXa, WorkerCall, CallForget, CallResolve, GoOn,
     Reply, Throw, ConstantsAssumption, TypeOK, Thread
<1> QED
  BY <1>1, <1>2, ThreadQuietAsked

\* The announcement of a detached resolution follows the request.
LEMMA ResolveCasAsked ==
  ASSUME TypeOK, Inv, AskedInv, NEW w \in Worker, ResolveCas(w)
  PROVE  AskedInv'
<1>1. PICK b \in Branch : b = task[w].b /\ w \in Thread /\ w # Startup /\ task[w].decision \in Decision
  BY TaskBranch DEF ResolveCas, At
<1>2. /\ UNCHANGED <<promised, forgotten, active, op>> /\ task'[Startup] = task[Startup]
      /\ \A x \in Branch \ {b} : jstate'[x] = jstate[x] /\ asked'[x] = asked[x]
  BY <1>1 DEF ResolveCas, Write, GoOn, Throw, TypeOK, Thread, connVars
<1>3. /\ asked'[b] = IF jstate[b] = "PREPARED" THEN asked[b] \cup {task[w].decision} ELSE asked[b]
      /\ jstate'[b] = jstate[b] \/ (jstate[b] = "PREPARED" /\ jstate'[b] = IntentOf(task[w].decision))
  BY <1>1 DEF ResolveCas, Write, TypeOK
<1>4. \A x \in Branch, e \in Conn : Holds(e, x)' => Holds(e, x)
  BY <1>2 DEF Holds
<1>5. AskedRow(b)
  BY DEF AskedInv
<1>6. AskedRow(b)'
  BY <1>1, <1>2, <1>3, <1>4, <1>5 DEF AskedRow, IntentOf, Decision, OnePhaseIntent
<1>7. StartupGoal'
  BY <1>2 DEF AskedInv, StartupGoal
<1> QED
  BY <1>2, <1>4, <1>6, <1>7, AskedFrame

\* A forgotten row may go.
LEMMA ForgetDeleteAsked ==
  ASSUME TypeOK, Inv, AskedInv, NEW w \in Worker, ForgetDelete(w)
  PROVE  AskedInv'
<1>1. PICK b \in Branch : b = task[w].b /\ w \in Thread /\ w # Startup /\ b \in forgotten
  BY TaskBranch DEF ForgetDelete, At, WorkerInv
<1>2. /\ UNCHANGED <<asked, promised, forgotten, active, op>> /\ task'[Startup] = task[Startup]
      /\ \A x \in Branch \ {b} : jstate'[x] = jstate[x]
      /\ jstate'[b] \in {jstate[b], "ABSENT"}
  BY <1>1 DEF ForgetDelete, Delete, TypeOK, Thread, connVars, history
<1>3. \A x \in Branch, e \in Conn : Holds(e, x)' => Holds(e, x)
  BY <1>2 DEF Holds
<1>4. AskedRow(b)
  BY DEF AskedInv
<1>5. AskedRow(b)'
  BY <1>1, <1>2, <1>3, <1>4 DEF AskedRow, OnePhaseIntent
<1>6. StartupGoal'
  BY <1>2 DEF AskedInv, StartupGoal
<1> QED
  BY <1>2, <1>3, <1>5, <1>6, AskedFrame

\* What a thread is about to record is the outcome that the row announces.
LEMMA TaskQuietAsked ==
  ASSUME TypeOK, Inv, AskedInv, NEW t \in Thread, ResolveXa(t) \/ ResolveNota(t)
  PROVE  AskedInv'
<1>1. UNCHANGED <<jstate, asked, promised, forgotten, active, op>>
  BY DEF ResolveXa, ResolveNota, journalVars, connVars
<1>2. CASE t # Startup
  <2>1. task'[Startup] = task[Startup]
    BY <1>2 DEF ResolveXa, ResolveNota, GoOn, Reply, Throw, TypeOK, Thread
  <2> QED
    BY <1>1, <2>1, ThreadQuietAsked
<1>3. CASE t = Startup
  <2>1. /\ task[t].pc \in {"xa", "nota"} /\ task[t].b \in Branch
        /\ \/ task[t].decision = "commit" /\ task[t].from = "COMMITTING"
           \/ task[t].decision = "rollback" /\ task[t].from \in {"ROLLING_BACK", "ROLLING_BACK_ACTIVE"}
        /\ task[t].pc = "nota" => task[t].goal = TerminalOf(task[t].decision)
    BY ResolvingBranch DEF ResolveXa, ResolveNota, At
  <2>2. \/ task'[t].pc # "record"
        \/ /\ task'[t].from = task[t].from
           /\ task'[t].goal \in {TerminalOf(task[t].decision)} \cup Heuristic
    BY <2>1, NoTaskType DEF ResolveXa, ResolveNota, At, GoOn, Reply, Throw, Job, TypeOK
  <2>3. StartupGoal'
    BY <1>3, <2>1, <2>2 DEF StartupGoal, TerminalOf, Heuristic
  <2> QED
    BY <1>1, <2>3, ThreadQuietAsked
<1> QED
  BY <1>2, <1>3

\* A thread moves an announced row to the outcome that it announces.
LEMMA ResolveRecordAsked ==
  ASSUME TypeOK, Inv, AskedInv, NEW t \in Thread, ResolveRecord(t)
  PROVE  AskedInv'
<1>1. task[t].pc = "record"
  BY DEF ResolveRecord, At
<1>2. PICK b \in Branch :
        /\ b = task[t].b /\ \A e \in Conn : ~Holds(e, b)
        /\ task[t].from \in {"ACTIVE", "PREPARED"} \cup Intent
        /\ task[t].goal \in Heuristic \cup Resolved \cup {"PREPARED"}
  BY <1>1, ResolvingBranch
<1>3. /\ task[t].goal = "COMMITTED" => task[t].from = "COMMITTING"
      /\ task[t].goal = "ROLLED_BACK" => task[t].from \in {"ACTIVE", "ROLLING_BACK", "ROLLING_BACK_ACTIVE"}
  <2>1. CASE t = Startup
    BY <1>1, <2>1 DEF AskedInv, StartupGoal
  <2>2. CASE t # Startup
    BY <1>1, <2>2 DEF Inv, WorkerInv, Resolving, Thread, IntentOf, TerminalOf, Heuristic
  <2> QED
    BY <2>1, <2>2
<1>4. /\ UNCHANGED <<asked, promised, forgotten, active, op>>
      /\ task'[Startup] \in {task[Startup], NoTask}
      /\ \A x \in Branch \ {b} : jstate'[x] = jstate[x]
      /\ jstate'[b] = jstate[b] \/ (jstate[b] = task[t].from /\ jstate'[b] = task[t].goal)
  BY <1>2 DEF ResolveRecord, Write, Reply, Throw, TypeOK, Thread, connVars
<1>5. \A x \in Branch, e \in Conn : Holds(e, x)' => Holds(e, x)
  BY <1>4 DEF Holds
<1>6. AskedRow(b)
  BY DEF AskedInv
<1>7. AskedRow(b)'
  BY <1>2, <1>3, <1>4, <1>5, <1>6 DEF AskedRow, OnePhaseIntent, Heuristic, Resolved
<1>8. StartupGoal'
  BY <1>4, NoTaskType DEF AskedInv, StartupGoal
<1> QED
  BY <1>4, <1>5, <1>7, <1>8, AskedFrame

\* The startup reconciliation records an outcome that its row announces.
LEMMA ReconcileAsked ==
  ASSUME TypeOK, Inv, AskedInv, NEW b \in Branch, Reconcile(b)
  PROVE  AskedInv'
<1>1. PICK s \in BranchState \cup {"ABSENT"} : s = jstate[b]
  BY DEF TypeOK
<1>2. PICK p \in BOOLEAN : p = (b \in scan)
  <2>1. (b \in scan) \in BOOLEAN
    OBVIOUS
  <2> QED
    BY <2>1, Zenon
<1>3. /\ UNCHANGED <<jstate, asked, promised, forgotten, active, op>>
      /\ \/ task'[Startup] = task[Startup]
         \/ task'[Startup].pc # "record"
         \/ /\ task'[Startup].from = s /\ task'[Startup].goal = ReconcileGoal(s, p)
            /\ ReconcileGoal(s, p) # s
  BY <1>1, <1>2 DEF Reconcile, Job, TypeOK, Thread, journalVars, connVars, history
<1>4. ReconcileGoal(s, p) # s =>
        /\ ReconcileGoal(s, p) = "COMMITTED" => s = "COMMITTING"
        /\ ReconcileGoal(s, p) = "ROLLED_BACK" => s \in {"ACTIVE", "ROLLING_BACK", "ROLLING_BACK_ACTIVE"}
  <2>1. CASE p
    BY <2>1 DEF ReconcileGoal, BranchState, Heuristic, Resolved, Intent, OnePhaseIntent
  <2>2. CASE ~p
    BY <2>2 DEF ReconcileGoal, BranchState, Heuristic, Resolved, Intent, OnePhaseIntent
  <2> QED
    BY <2>1, <2>2
<1>5. task'[Startup] = task[Startup] \/ StartupGoal'
  BY <1>3, <1>4 DEF StartupGoal
<1> QED
  BY <1>3, <1>5, ThreadQuietAsked

\* Crash, restart and the database request nothing.
LEMMA OutsideAsked ==
  ASSUME TypeOK, Inv, AskedInv,
         Crash \/ Restart \/ Started \/ (\E b \in Branch : DbHeuristic(b) \/ DbAbort(b)) \/ UNCHANGED vars
  PROVE  AskedInv'
<1>1. UNCHANGED <<jstate, asked, promised, forgotten>>
  BY DEF Crash, Restart, Started, DbHeuristic, DbAbort, vars, journalVars, history
<1>2. \A e \in Conn : active'[e] \in {active[e], NoBranch} /\ op'[e].b \in {op[e].b, NoBranch}
  BY NoOpType DEF Crash, Restart, Started, DbHeuristic, DbAbort, vars, connVars
<1>3. task'[Startup] \in {task[Startup], NoTask}
  BY DEF Crash, Restart, Started, DbHeuristic, DbAbort, vars, Thread
<1>4. task'[Startup] = task[Startup] \/ StartupGoal'
  BY <1>3, NoTaskType DEF StartupGoal
<1> QED
  BY <1>1, <1>2, <1>4, ThreadQuietAsked

\* Initially nothing is announced.
LEMMA AskedInit == Init => AskedInv
<1> SUFFICES ASSUME Init PROVE AskedInv
  OBVIOUS
<1>1. (\A b \in Branch : jstate[b] = "ABSENT") /\ promised = {} /\ task[Startup].pc = "idle"
  BY NoTaskType DEF Init, Thread
<1>2. StartupGoal
  BY <1>1 DEF StartupGoal
<1>3. \A b \in Branch : AskedRow(b)
  BY <1>1 DEF AskedRow
<1> QED
  BY <1>2, <1>3 DEF AskedInv

\* No step announces or records an outcome that was not requested.
LEMMA AskedStep == IndInv /\ AskedInv /\ [Next]_vars => AskedInv'
<1> SUFFICES ASSUME TypeOK, Inv, AskedInv, [Next]_vars PROVE AskedInv'
  BY DEF IndInv
<1>1. ASSUME NEW c \in Conn, ConnStep(c) PROVE AskedInv'
  BY <1>1, ConnQuietAsked, ConnHeldAsked, PreparedAsked DEF ConnStep
<1>2. ASSUME NEW c \in Conn, ConnCall(c) PROVE AskedInv'
  <2>1. CASE CloseIntent(c)
    <3>1. active[c] \in Branch \cup {NoBranch}
      BY DEF TypeOK
    <3> QED
      BY <2>1, <3>1, ConnIntentAsked, CloseNothingAsked
  <2>2. ASSUME NEW b \in Branch, PrepareIntent(c, b) PROVE AskedInv'
    BY <2>2, ConnIntentAsked DEF PrepareIntent
  <2>3. ASSUME NEW b \in Branch, NEW d \in Decision, ResolveActiveIntent(c, b, d) PROVE AskedInv'
    BY <2>3, ConnIntentAsked DEF ResolveActiveIntent
  <2> QED
    BY <1>2, <2>1, <2>2, <2>3, ConnQuietAsked, BeginInsertAsked, PreparedAsked DEF ConnCall
<1>3. ASSUME NEW w \in Worker, WorkerStep(w) \/ WorkerCall(w) PROVE AskedInv'
  BY <1>3, WorkerQuietAsked, ResolveCasAsked, ForgetDeleteAsked DEF WorkerStep
<1>4. ASSUME NEW t \in Thread, TaskStep(t) PROVE AskedInv'
  BY <1>4, TaskQuietAsked, ResolveRecordAsked DEF TaskStep
<1> QED
  BY <1>1, <1>2, <1>3, <1>4, ReconcileAsked, OutsideAsked DEF Next

\* The provider decides nothing by itself, also when journal writes fail: a row is
\* committed on request only, and after an acknowledged prepare the startup pass
\* and close() roll nothing back that nobody asked to roll back.
THEOREM OutcomesRequested == Spec => []OutcomeRequested
<1>1. AskedInv => OutcomeRequested
  BY DEF AskedInv, AskedRow, OutcomeRequested
<1> QED
  BY <1>1, AskedInit, AskedStep, Discipline, PTL DEF Spec
==============================================================================
