------------------------------ MODULE OracleXA ------------------------------
(***************************************************************************)
(* Durable XA branches of the Oracle provider.                             *)
(*                                                                         *)
(* Three parties share a branch:                                           *)
(*   - the logical connection that began it (LogicalConnection.java), whose *)
(*     operations hold the connection's lock;                              *)
(*   - the recovery manager (TransactionRecoveryManager.java), whose        *)
(*     operations run in any number of gRPC threads without a lock, and     *)
(*     once, alone, when the provider starts;                              *)
(*   - the Oracle resource manager itself (external).                      *)
(* They agree through a journal table (JdbcTransactionJournal.java) whose   *)
(* rows are written by compare-and-set, each write its own transaction.     *)
(*                                                                         *)
(* One action is one call to the journal or to the resource manager, with   *)
(* the code up to the next such call.  The provider may crash between any   *)
(* two.  Reading the row of an ACTIVE branch and writing its next state is  *)
(* one action: only the connection that holds the branch writes that row.   *)
(* The XA flags, XIDs and the branch's own SQL are left out.                *)
(***************************************************************************)
EXTENDS Naturals

CONSTANTS
    Branch,             \* branch identities Kubling assigns
    Conn,               \* logical connection identifiers (never reused)
    Worker,             \* gRPC threads that may be inside the recovery manager
    Startup,            \* the thread that runs validate() when the provider starts
    NoBranch, NoConn,
    HeuristicOutcomes,  \* what Oracle may decide by itself about a prepared branch
    MaxCrashes,         \* bound: crashes of the provider
    MaxXaFaults,        \* bound: XA calls that end in a non-heuristic XAException
    MaxJournalFaults    \* bound: journal writes that end in a SQLException

ASSUME ConstantsAssumption ==
    /\ Startup \notin Worker
    /\ NoBranch \notin Branch
    /\ NoConn \notin Conn
    /\ HeuristicOutcomes \subseteq {"HEURISTIC_COMMIT", "HEURISTIC_ROLLBACK", "HEURISTIC_MIXED"}
    /\ MaxCrashes \in Nat
    /\ MaxXaFaults \in Nat
    /\ MaxJournalFaults \in Nat

-----------------------------------------------------------------------------
(* BranchState.java *)

Heuristic == {"HEURISTIC_COMMIT", "HEURISTIC_ROLLBACK", "HEURISTIC_MIXED", "HEURISTIC_HAZARD"}

\* States that announce a call to the resource manager before it is made; the
\* one-phase ones announce the resolution of a branch that was never prepared.
OnePhaseIntent == {"COMMITTING_ONE_PHASE", "ROLLING_BACK_ACTIVE"}

Intent == {"PREPARING", "COMMITTING", "ROLLING_BACK"} \cup OnePhaseIntent

Resolved == {"READ_ONLY", "COMMITTED", "ROLLED_BACK"}

BranchState == {"ACTIVE", "PREPARED"} \cup Intent \cup Resolved \cup Heuristic

IsTerminal(s) == s \in Resolved \cup Heuristic

IsRecoverable(s) == s \in {"PREPARED"} \cup Intent \cup Heuristic

\* What a coordinator is told about a row.
PublicState(s) ==
    CASE s \in Intent -> "HEURISTIC_HAZARD"
      [] s = "ABSENT" -> "NOT_FOUND"
      [] OTHER -> s

\* The rows that pending() selects.
IsPending(s) == s \in BranchState \ Resolved

Decision == {"commit", "rollback"}

TerminalOf(d) == IF d = "commit" THEN "COMMITTED" ELSE "ROLLED_BACK"

\* The announcement of a detached resolution.
IntentOf(d) == IF d = "commit" THEN "COMMITTING" ELSE "ROLLING_BACK"

-----------------------------------------------------------------------------
VARIABLES
    jstate,     \* BRANCH_STATE column of the journal row, "ABSENT" without a row
    jconn,      \* CONNECTION_ID column
    db,         \* external: the branch in the resource manager
    applied,    \* external: the branches whose work is committed in the database
    status,     \* logical connections: opened, and not closed or poisoned
    inTransaction, \* logical connections with a local transaction
    active,     \* activeBranch of a logical connection
    op,         \* the operation a logical connection has in progress
    task,       \* recovery manager calls in progress
    phase,      \* life of the provider process
    scan,       \* XIDs that the startup scan returned
    todo,       \* pending rows the startup reconciliation has still to visit
    crashes, xfaults, jfaults,  \* used parts of the bounds
    asked,      \* history: resolutions requested and begun
    told,       \* history: terminal states returned by commit and rollback
    promised,   \* history: branches whose prepare returned PREPARED
    forgotten   \* history: branches Kubling asked to forget

journalVars == <<jstate, jconn>>
dbVars == <<db, applied>>
connVars == <<status, inTransaction, active, op>>
startVars == <<phase, scan, todo>>
history == <<asked, told, promised, forgotten>>
vars == <<jstate, jconn, db, applied, status, inTransaction, active, op, task, phase, scan, todo,
          crashes, xfaults, jfaults, asked, told, promised, forgotten>>

Thread == Worker \cup {Startup}

DbState == {"none", "active", "prepared"} \cup Heuristic

\* The XIDs a recovery scan of the resource manager returns.
InDoubt(s) == s \in {"prepared"} \cup Heuristic

OpPc == {"start", "undo", "prepare", "recordPrepare", "resolve",
         "recordResolve", "recordFailure", "closing", "recordClose"}

TaskPc == {"find", "cas", "scan", "finishScan", "xa", "nota", "record",
           "forgetXa", "forgetDelete"}

\* pc: the call to make next; b: the branch; from, goal: the transition to record.
Doing(pc, b, from, goal) == [pc |-> pc, b |-> b, from |-> from, goal |-> goal]

NoOp == Doing("idle", NoBranch, "ACTIVE", "ACTIVE")

Op == [pc : OpPc, b : Branch, from : BranchState, goal : BranchState] \cup {NoOp}

Job(pc, b, decision, from, goal) ==
    [pc |-> pc, b |-> b, decision |-> decision, from |-> from, goal |-> goal]

NoTask == Job("idle", NoBranch, "rollback", "ACTIVE", "ACTIVE")

Task == [pc : TaskPc, b : Branch, decision : Decision, from : BranchState, goal : BranchState]
            \cup {NoTask}

Init ==
    /\ jstate = [b \in Branch |-> "ABSENT"]
    /\ jconn = [b \in Branch |-> NoConn]
    /\ db = [b \in Branch |-> "none"]
    /\ applied = {}
    /\ status = [c \in Conn |-> "new"]
    /\ inTransaction = {}
    /\ active = [c \in Conn |-> NoBranch]
    /\ op = [c \in Conn |-> NoOp]
    /\ task = [t \in Thread |-> NoTask]
    /\ phase = "down"
    /\ scan = {}
    /\ todo = {}
    /\ crashes = 0 /\ xfaults = 0 /\ jfaults = 0
    /\ asked = [b \in Branch |-> {}]
    /\ told = [b \in Branch |-> {}]
    /\ promised = {}
    /\ forgotten = {}

-----------------------------------------------------------------------------
(* JdbcTransactionJournal.java *)

\* A write returns, or throws with the change made ("lost") or not ("failed").
WriteResult == {"ok"} \cup (IF jfaults < MaxJournalFaults THEN {"lost", "failed"} ELSE {})

CountWrite(r) == jfaults' = IF r = "ok" THEN jfaults ELSE jfaults + 1

\* Mutant: the update does not compare the row with the expected state.
MutWrite(b, from, to, r) ==
    /\ jstate' = IF r # "failed" THEN [jstate EXCEPT ![b] = to] ELSE jstate
    /\ CountWrite(r)

\* UPDATE ... SET BRANCH_STATE = to WHERE ... AND BRANCH_STATE = from
Write(b, from, to, r) ==
    /\ jstate' = IF r # "failed" /\ jstate[b] = from
                 THEN [jstate EXCEPT ![b] = to] ELSE jstate
    /\ CountWrite(r)

\* transition() returns: the row moved, or another thread had already moved it there.
Moved(b, from, to, r) == r = "ok" /\ jstate[b] \in {from, to}

\* DELETE of the row, whatever its state.
Delete(b, r) ==
    /\ jstate' = IF r # "failed" THEN [jstate EXCEPT ![b] = "ABSENT"] ELSE jstate
    /\ jconn' = IF r # "failed" THEN [jconn EXCEPT ![b] = NoConn] ELSE jconn
    /\ CountWrite(r)

\* An XA call ends in an XAException that is not a heuristic outcome.
XaFault == xfaults < MaxXaFaults /\ xfaults' = xfaults + 1

-----------------------------------------------------------------------------
(* LogicalConnection.java: one operation at a time, under the lock *)

Ready(c) == phase = "up" /\ status[c] = "open" /\ op[c].pc = "idle"

Busy(c, pc) == phase = "up" /\ op[c].pc = pc

OpenConnection(c) ==
    /\ phase = "up" /\ status[c] = "new"
    /\ status' = [status EXCEPT ![c] = "open"]
    /\ UNCHANGED <<journalVars, dbVars, inTransaction, active, op, task, startVars,
                   crashes, xfaults, jfaults, history>>

BeginTransaction(c) ==
    /\ Ready(c) /\ c \notin inTransaction /\ active[c] = NoBranch
    /\ inTransaction' = inTransaction \cup {c}
    /\ UNCHANGED <<journalVars, dbVars, status, active, op, task, startVars,
                   crashes, xfaults, jfaults, history>>

\* A connection that cannot be put back in auto-commit mode is closed.
FinishTransaction(c) ==
    /\ Ready(c) /\ c \in inTransaction
    /\ inTransaction' = inTransaction \ {c}
    /\ \/ UNCHANGED <<status, xfaults>>
       \/ XaFault /\ status' = [status EXCEPT ![c] = "closed"]
    /\ UNCHANGED <<journalVars, dbVars, active, op, task, startVars, crashes, jfaults, history>>

\* Kubling does not assign an identity again once it has asked to forget it.
BeginInsert(c, b) ==
    /\ Ready(c) /\ active[c] = NoBranch /\ c \notin inTransaction
    /\ b \notin forgotten
    /\ jstate[b] = "ABSENT"
    /\ \E r \in WriteResult :
         /\ jstate' = IF r # "failed" THEN [jstate EXCEPT ![b] = "ACTIVE"] ELSE jstate
         /\ jconn' = IF r # "failed" THEN [jconn EXCEPT ![b] = c] ELSE jconn
         /\ CountWrite(r)
         /\ op' = IF r = "ok" THEN [op EXCEPT ![c] = Doing("start", b, "ACTIVE", "ACTIVE")] ELSE op
    /\ UNCHANGED <<dbVars, status, inTransaction, active, task, startVars, crashes, xfaults, history>>

BeginStart(c) ==
    LET b == op[c].b
        undo == op' = [op EXCEPT ![c] = Doing("undo", b, "ACTIVE", "ACTIVE")] /\ UNCHANGED active IN
    /\ Busy(c, "start")
    /\ \/ /\ db[b] = "none"
          /\ db' = [db EXCEPT ![b] = "active"]
          /\ active' = [active EXCEPT ![c] = b]
          /\ op' = [op EXCEPT ![c] = NoOp]
          /\ UNCHANGED xfaults
       \/ /\ XaFault
          /\ db' = db \/ (db[b] = "none" /\ db' = [db EXCEPT ![b] = "active"])
          /\ undo
       \/ db[b] # "none" /\ undo /\ UNCHANGED <<db, xfaults>>
    /\ UNCHANGED <<journalVars, applied, status, inTransaction, task, startVars, crashes, jfaults, history>>

BeginUndo(c) ==
    /\ Busy(c, "undo")
    /\ \E r \in WriteResult : Delete(op[c].b, r)
    /\ op' = [op EXCEPT ![c] = NoOp]
    /\ UNCHANGED <<dbVars, status, inTransaction, active, task, startVars, crashes, xfaults, history>>

\* A repeated prepare on the same connection returns the retained outcome.
PrepareAgain(c, b) ==
    /\ Ready(c) /\ jconn[b] = c /\ jstate[b] = "PREPARED"
    /\ promised' = promised \cup {b}
    /\ UNCHANGED <<journalVars, dbVars, connVars, task, startVars, crashes, xfaults, jfaults,
                   asked, told, forgotten>>

PrepareIntent(c, b) ==
    /\ Ready(c) /\ jconn[b] = c /\ active[c] = b /\ jstate[b] = "ACTIVE"
    /\ \E r \in WriteResult :
         /\ Write(b, "ACTIVE", "PREPARING", r)
         /\ op' = IF r = "ok" THEN [op EXCEPT ![c] = Doing("prepare", b, "PREPARING", "PREPARED")] ELSE op
    /\ UNCHANGED <<jconn, dbVars, status, inTransaction, active, task, startVars, crashes, xfaults, history>>

\* Mutant: the connection keeps the branch active once it is prepared.
MutPrepareXa(c) ==
    LET b == op[c].b IN
    /\ Busy(c, "prepare")
    /\ db[b] = "active"
    /\ db' = [db EXCEPT ![b] = "prepared"]
    /\ op' = [op EXCEPT ![c] = Doing("recordPrepare", b, "PREPARING", "PREPARED")]
    /\ UNCHANGED <<journalVars, applied, status, inTransaction, active, task, startVars,
                   crashes, xfaults, jfaults, history>>

\* An XAException poisons the connection and leaves the row PREPARING.
PrepareXa(c) ==
    LET b == op[c].b
        next(s, goal) ==
            /\ db' = [db EXCEPT ![b] = s]
            /\ op' = [op EXCEPT ![c] = Doing("recordPrepare", b, "PREPARING", goal)]
            /\ UNCHANGED <<status, xfaults>> IN
    /\ Busy(c, "prepare")
    /\ active' = [active EXCEPT ![c] = NoBranch]
    /\ \/ db[b] = "active" /\ next("prepared", "PREPARED")
       \/ db[b] = "active" /\ next("none", "READ_ONLY")
       \/ /\ XaFault
          /\ db' = db \/ (db[b] = "active" /\ \E s \in {"prepared", "none"} : db' = [db EXCEPT ![b] = s])
          /\ status' = [status EXCEPT ![c] = "closed"]
          /\ op' = [op EXCEPT ![c] = NoOp]
    /\ UNCHANGED <<journalVars, applied, inTransaction, task, startVars, crashes, jfaults, history>>

RecordPrepare(c) ==
    LET b == op[c].b  from == op[c].from  goal == op[c].goal IN
    /\ Busy(c, "recordPrepare")
    /\ \E r \in WriteResult :
         /\ Write(b, from, goal, r)
         /\ promised' = IF Moved(b, from, goal, r) /\ goal = "PREPARED"
                        THEN promised \cup {b} ELSE promised
    /\ op' = [op EXCEPT ![c] = NoOp]
    /\ UNCHANGED <<jconn, dbVars, status, inTransaction, active, task, startVars, crashes, xfaults,
                   asked, told, forgotten>>

\* A one-phase commit, or the rollback of an active branch.
ResolveActiveIntent(c, b, d) ==
    LET intent == IF d = "commit" THEN "COMMITTING_ONE_PHASE" ELSE "ROLLING_BACK_ACTIVE" IN
    /\ Ready(c) /\ jconn[b] = c /\ active[c] = b /\ jstate[b] = "ACTIVE"
    /\ asked' = [asked EXCEPT ![b] = @ \cup {d}]
    /\ \E r \in WriteResult :
         /\ Write(b, "ACTIVE", intent, r)
         /\ op' = IF r = "ok" THEN [op EXCEPT ![c] = Doing("resolve", b, intent, TerminalOf(d))] ELSE op
    /\ UNCHANGED <<jconn, dbVars, status, inTransaction, active, task, startVars, crashes, xfaults,
                   told, promised, forgotten>>

\* A resolution through a connection of a branch that has a terminal row.
ResolveActiveAgain(c, b) ==
    /\ Ready(c) /\ IsTerminal(jstate[b])
    /\ told' = [told EXCEPT ![b] = @ \cup {jstate[b]}]
    /\ UNCHANGED <<journalVars, dbVars, connVars, task, startVars, crashes, xfaults, jfaults,
                   asked, promised, forgotten>>

\* xa_end and the one-phase commit or rollback; a failure is recorded as a
\* heuristic outcome, and as a hazard when Oracle does not say which.
ResolveActiveXa(c) ==
    LET b == op[c].b
        commit == op[c].goal = "COMMITTED"
        failAs(goal) ==
            /\ op' = [op EXCEPT ![c] = Doing("recordFailure", b, op[c].from, goal)]
            /\ active' = [active EXCEPT ![c] = NoBranch] IN
    /\ Busy(c, "resolve")
    /\ \/ /\ db[b] = "active"
          /\ db' = [db EXCEPT ![b] = "none"]
          /\ applied' = IF commit THEN applied \cup {b} ELSE applied
          /\ op' = [op EXCEPT ![c] = Doing("recordResolve", b, op[c].from, op[c].goal)]
          /\ UNCHANGED <<active, xfaults>>
       \/ /\ XaFault
          /\ \/ UNCHANGED dbVars
             \/ /\ db[b] = "active"
                /\ db' = [db EXCEPT ![b] = "none"]
                /\ applied' = applied \/ (commit /\ applied' = applied \cup {b})
          /\ failAs("HEURISTIC_HAZARD")
       \/ /\ db[b] = "active"
          /\ \E h \in HeuristicOutcomes :
               /\ db' = [db EXCEPT ![b] = h]
               /\ applied' = IF h = "HEURISTIC_ROLLBACK" THEN applied ELSE applied \cup {b}
               /\ failAs(h)
          /\ UNCHANGED xfaults
    /\ UNCHANGED <<journalVars, status, inTransaction, task, startVars, crashes, jfaults, history>>

\* The active branch is cleared only after the terminal state is recorded.
RecordResolve(c) ==
    LET b == op[c].b  from == op[c].from  goal == op[c].goal IN
    /\ Busy(c, "recordResolve")
    /\ op' = [op EXCEPT ![c] = NoOp]
    /\ \E r \in WriteResult :
         /\ Write(b, from, goal, r)
         /\ IF Moved(b, from, goal, r)
            THEN /\ active' = [active EXCEPT ![c] = NoBranch]
                 /\ told' = [told EXCEPT ![b] = @ \cup {goal}]
            ELSE UNCHANGED <<active, told>>
    /\ UNCHANGED <<jconn, dbVars, status, inTransaction, task, startVars, crashes, xfaults,
                   asked, promised, forgotten>>

\* After an XAException: a heuristic outcome is returned, any other is rethrown.
RecordFailure(c) ==
    LET b == op[c].b  from == op[c].from  goal == op[c].goal IN
    /\ Busy(c, "recordFailure")
    /\ op' = [op EXCEPT ![c] = NoOp]
    /\ \E r \in WriteResult :
         /\ Write(b, from, goal, r)
         /\ IF Moved(b, from, goal, r)
            THEN /\ status' = [status EXCEPT ![c] = "closed"]
                 /\ told' = IF goal = "HEURISTIC_HAZARD" THEN told
                            ELSE [told EXCEPT ![b] = @ \cup {goal}]
            ELSE UNCHANGED <<status, told>>
    /\ UNCHANGED <<jconn, dbVars, inTransaction, active, task, startVars, crashes, xfaults,
                   asked, promised, forgotten>>

\* close() rolls back what the connection still holds, whatever the row says.
CloseIntent(c) ==
    LET b == active[c] IN
    /\ Ready(c)
    /\ status' = [status EXCEPT ![c] = "closed"]
    /\ inTransaction' = inTransaction \ {c}
    /\ active' = [active EXCEPT ![c] = NoBranch]
    /\ IF b \in Branch /\ jstate[b] # "ABSENT"
       THEN \E r \in WriteResult :
              /\ Write(b, jstate[b], "ROLLING_BACK_ACTIVE", r)
              /\ op' = IF r = "ok"
                       THEN [op EXCEPT ![c] = Doing("closing", b, "ROLLING_BACK_ACTIVE", "ROLLED_BACK")]
                       ELSE op
       ELSE UNCHANGED <<jstate, jfaults, op>>
    /\ UNCHANGED <<jconn, dbVars, task, startVars, crashes, xfaults, history>>

CloseXa(c) ==
    LET b == op[c].b IN
    /\ Busy(c, "closing")
    /\ \/ /\ db[b] = "active"
          /\ db' = [db EXCEPT ![b] = "none"]
          /\ op' = [op EXCEPT ![c] = Doing("recordClose", b, op[c].from, op[c].goal)]
          /\ UNCHANGED xfaults
       \/ /\ XaFault
          /\ db' = db \/ (db[b] = "active" /\ db' = [db EXCEPT ![b] = "none"])
          /\ op' = [op EXCEPT ![c] = NoOp]
       \/ db[b] # "active" /\ op' = [op EXCEPT ![c] = NoOp] /\ UNCHANGED <<db, xfaults>>
    /\ UNCHANGED <<journalVars, applied, status, inTransaction, active, task, startVars,
                   crashes, jfaults, history>>

RecordClose(c) ==
    /\ Busy(c, "recordClose")
    /\ \E r \in WriteResult : Write(op[c].b, op[c].from, op[c].goal, r)
    /\ op' = [op EXCEPT ![c] = NoOp]
    /\ UNCHANGED <<jconn, dbVars, status, inTransaction, active, task, startVars, crashes, xfaults, history>>

-----------------------------------------------------------------------------
(* TransactionRecoveryManager.java: no lock *)

Running(t) == IF t = Startup THEN phase = "starting" ELSE phase = "up"

At(t, pc) == Running(t) /\ task[t].pc = pc

\* The thread's call goes on to its next call.
GoOn(t, job) == task' = [task EXCEPT ![t] = job] /\ UNCHANGED <<told, startVars>>

\* The thread's call ends, with a terminal state returned to the coordinator.
Reply(t, state) ==
    /\ task' = [task EXCEPT ![t] = NoTask]
    /\ told' = IF t = Startup THEN told ELSE [told EXCEPT ![task[t].b] = @ \cup {state}]
    /\ UNCHANGED startVars

\* The thread's call throws: at startup validate() gives the lease back and the process ends.
Throw(t) ==
    /\ task' = [task EXCEPT ![t] = NoTask]
    /\ IF t = Startup
       THEN phase' = "down" /\ scan' = {} /\ todo' = {}
       ELSE UNCHANGED startVars
    /\ UNCHANGED told

CallResolve(w, b, d) ==
    /\ At(w, "idle")
    /\ GoOn(w, Job("find", b, d, "ACTIVE", "ACTIVE"))
    /\ UNCHANGED <<journalVars, dbVars, connVars, crashes, xfaults, jfaults, asked, promised, forgotten>>

\* Mutant: a resolution that another call announced is left to that call.
MutResolveFind(w) ==
    LET k == task[w]  s == jstate[k.b] IN
    /\ At(w, "find")
    /\ \/ IsTerminal(s) /\ Reply(w, s)
       \/ s = "PREPARED" /\ GoOn(w, Job("cas", k.b, k.decision, "PREPARED", "ACTIVE"))
       \/ ~IsTerminal(s) /\ s # "PREPARED" /\ Throw(w)
    /\ UNCHANGED <<journalVars, dbVars, connVars, crashes, xfaults, jfaults, asked, promised, forgotten>>

\* A resolution already announced is finished, whichever one this call asked for.
ResolveFind(w) ==
    LET k == task[w]  s == jstate[k.b] IN
    /\ At(w, "find")
    /\ \/ IsTerminal(s) /\ Reply(w, s)
       \/ s = "COMMITTING" /\ GoOn(w, Job("finishScan", k.b, "commit", "COMMITTING", "COMMITTED"))
       \/ s = "ROLLING_BACK" /\ GoOn(w, Job("finishScan", k.b, "rollback", "ROLLING_BACK", "ROLLED_BACK"))
       \/ s = "PREPARED" /\ GoOn(w, Job("cas", k.b, k.decision, "PREPARED", "ACTIVE"))
       \/ s \in {"ABSENT", "ACTIVE", "PREPARING"} \cup OnePhaseIntent /\ Throw(w)
    /\ UNCHANGED <<journalVars, dbVars, connVars, crashes, xfaults, jfaults, asked, promised, forgotten>>

\* A lost compare-and-set starts the resolution again.
ResolveCas(w) ==
    LET k == task[w]  b == k.b  d == k.decision IN
    /\ At(w, "cas")
    /\ \E r \in WriteResult :
         /\ Write(b, "PREPARED", IntentOf(d), r)
         /\ \/ r = "ok" /\ jstate[b] = "PREPARED" /\ GoOn(w, Job("scan", b, d, IntentOf(d), TerminalOf(d)))
            \/ r = "ok" /\ jstate[b] # "PREPARED" /\ GoOn(w, Job("find", b, d, "ACTIVE", "ACTIVE"))
            \/ r # "ok" /\ Throw(w)
    /\ asked' = IF jstate[b] = "PREPARED" THEN [asked EXCEPT ![b] = @ \cup {d}] ELSE asked
    /\ UNCHANGED <<jconn, dbVars, connVars, crashes, xfaults, promised, forgotten>>

\* An XID that is gone means a hazard to the thread that announced the
\* resolution, and the announced outcome to one that found it announced.
ResolveScan(w) ==
    LET k == task[w]
        goal == IF k.pc = "scan" THEN "HEURISTIC_HAZARD" ELSE TerminalOf(k.decision) IN
    /\ At(w, "scan") \/ At(w, "finishScan")
    /\ \/ /\ InDoubt(db[k.b])
          /\ GoOn(w, Job("xa", k.b, k.decision, k.from, TerminalOf(k.decision)))
          /\ UNCHANGED xfaults
       \/ /\ ~InDoubt(db[k.b])
          /\ GoOn(w, Job("record", k.b, k.decision, k.from, goal))
          /\ UNCHANGED xfaults
       \/ XaFault /\ Throw(w)
    /\ UNCHANGED <<journalVars, dbVars, connVars, crashes, jfaults, asked, promised, forgotten>>

ResolveXa(t) ==
    LET k == task[t]  b == k.b
        resolve == /\ db[b] = "prepared"
                   /\ db' = [db EXCEPT ![b] = "none"]
                   /\ applied' = IF k.decision = "commit" THEN applied \cup {b} ELSE applied
        goTo(pc, goal) == GoOn(t, Job(pc, b, k.decision, k.from, goal)) /\ UNCHANGED xfaults IN
    /\ At(t, "xa")
    /\ \/ resolve /\ goTo("record", TerminalOf(k.decision))
       \/ db[b] \in Heuristic /\ UNCHANGED dbVars /\ goTo("record", db[b])
       \/ ~InDoubt(db[b]) /\ UNCHANGED dbVars /\ goTo("nota", TerminalOf(k.decision))
       \/ XaFault /\ UNCHANGED dbVars /\ Throw(t)
       \/ XaFault /\ resolve /\ Throw(t)
    /\ UNCHANGED <<journalVars, connVars, crashes, jfaults, asked, promised, forgotten>>

\* Mutant: XAER_NOTA is taken for this call's own outcome.
MutResolveNota(t) ==
    /\ At(t, "nota")
    /\ Reply(t, task[t].goal)
    /\ UNCHANGED <<journalVars, dbVars, connVars, crashes, xfaults, jfaults, asked, promised, forgotten>>

\* XAER_NOTA: another thread resolved the branch; its terminal row is returned.
ResolveNota(t) ==
    LET k == task[t] IN
    /\ At(t, "nota")
    /\ IF IsTerminal(jstate[k.b])
       THEN Reply(t, jstate[k.b])
       ELSE GoOn(t, Job("record", k.b, k.decision, k.from, k.goal))
    /\ UNCHANGED <<journalVars, dbVars, connVars, crashes, xfaults, jfaults, asked, promised, forgotten>>

ResolveRecord(t) ==
    LET k == task[t] IN
    /\ At(t, "record")
    /\ \E r \in WriteResult :
         /\ Write(k.b, k.from, k.goal, r)
         /\ IF Moved(k.b, k.from, k.goal, r) THEN Reply(t, k.goal) ELSE Throw(t)
    /\ UNCHANGED <<jconn, dbVars, connVars, crashes, xfaults, asked, promised, forgotten>>

\* Only a terminal row is forgotten; a heuristic one in the resource manager first.
CallForget(w, b) ==
    /\ At(w, "idle")
    /\ IsTerminal(jstate[b])
    /\ LET pc == IF jstate[b] \in Heuristic THEN "forgetXa" ELSE "forgetDelete"
       IN  GoOn(w, Job(pc, b, "rollback", "ACTIVE", "ACTIVE"))
    /\ forgotten' = forgotten \cup {b}
    /\ UNCHANGED <<journalVars, dbVars, connVars, crashes, xfaults, jfaults, asked, promised>>

\* Mutant: the row is deleted and the resource manager keeps its entry.
MutForgetXa(w) ==
    /\ At(w, "forgetXa")
    /\ GoOn(w, Job("forgetDelete", task[w].b, "rollback", "ACTIVE", "ACTIVE"))
    /\ UNCHANGED <<journalVars, dbVars, connVars, crashes, xfaults, jfaults, asked, promised, forgotten>>

ForgetXa(w) ==
    LET b == task[w].b IN
    /\ At(w, "forgetXa")
    /\ \/ /\ db[b] \in Heuristic \cup {"none"}
          /\ db' = [db EXCEPT ![b] = "none"]
          /\ GoOn(w, Job("forgetDelete", b, "rollback", "ACTIVE", "ACTIVE"))
          /\ UNCHANGED xfaults
       \/ db[b] \in {"active", "prepared"} /\ Throw(w) /\ UNCHANGED <<db, xfaults>>
       \/ XaFault /\ Throw(w) /\ UNCHANGED db
    /\ UNCHANGED <<journalVars, applied, connVars, crashes, jfaults, asked, promised, forgotten>>

ForgetDelete(w) ==
    /\ At(w, "forgetDelete")
    /\ \E r \in WriteResult : Delete(task[w].b, r)
    /\ task' = [task EXCEPT ![w] = NoTask]
    /\ UNCHANGED <<dbVars, connVars, startVars, crashes, xfaults, history>>

-----------------------------------------------------------------------------
(* Crash and restart: validate() and reconcileAfterRestart() *)

\* The process ends; connections and calls are lost, journal and database stay.
Crash ==
    /\ phase # "down" /\ crashes < MaxCrashes
    /\ crashes' = crashes + 1
    /\ phase' = "down" /\ scan' = {} /\ todo' = {}
    /\ status' = [c \in Conn |-> IF status[c] = "new" THEN "new" ELSE "closed"]
    /\ inTransaction' = {}
    /\ active' = [c \in Conn |-> NoBranch]
    /\ op' = [c \in Conn |-> NoOp]
    /\ task' = [t \in Thread |-> NoTask]
    /\ UNCHANGED <<journalVars, dbVars, xfaults, jfaults, history>>

\* The lease is held: no other instance works on this resource manager.
Restart ==
    /\ phase = "down"
    /\ phase' = "starting"
    /\ scan' = {b \in Branch : InDoubt(db[b])}
    /\ todo' = {b \in Branch : IsPending(jstate[b])}
    /\ UNCHANGED <<journalVars, dbVars, connVars, task, crashes, xfaults, jfaults, history>>

\* Mutant: an interrupted one-phase commit is presumed committed.
MutReconcileGoal(s, present) ==
    CASE s = "ACTIVE" -> "ROLLED_BACK"
      [] s \in {"PREPARING", "PREPARED"} -> IF present THEN "PREPARED" ELSE "HEURISTIC_HAZARD"
      [] s = "COMMITTING" -> IF present THEN "xa" ELSE "COMMITTED"
      [] s = "COMMITTING_ONE_PHASE" -> "COMMITTED"
      [] s \in {"ROLLING_BACK", "ROLLING_BACK_ACTIVE"} -> IF present THEN "xa" ELSE "ROLLED_BACK"
      [] OTHER -> s

\* The state a pending row is given, "xa" for a resolution that must be finished.
ReconcileGoal(s, present) ==
    CASE s = "ACTIVE" -> "ROLLED_BACK"
      [] s = "PREPARING" -> IF present THEN "PREPARED" ELSE "HEURISTIC_HAZARD"
      [] s = "PREPARED" -> IF present THEN "PREPARED" ELSE "HEURISTIC_HAZARD"
      [] s = "COMMITTING" -> IF present THEN "xa" ELSE "COMMITTED"
      [] s = "COMMITTING_ONE_PHASE" -> "HEURISTIC_HAZARD"
      [] s \in {"ROLLING_BACK", "ROLLING_BACK_ACTIVE"} -> IF present THEN "xa" ELSE "ROLLED_BACK"
      [] OTHER -> s

Reconcile(b) ==
    LET s == jstate[b]
        goal == ReconcileGoal(s, b \in scan)
        d == IF s = "COMMITTING" THEN "commit" ELSE "rollback" IN
    /\ At(Startup, "idle")
    /\ b \in todo
    /\ todo' = todo \ {b}
    /\ task' = CASE goal = s -> task
                 [] goal = "xa" -> [task EXCEPT ![Startup] = Job("xa", b, d, s, TerminalOf(d))]
                 [] OTHER -> [task EXCEPT ![Startup] = Job("record", b, d, s, goal)]
    /\ UNCHANGED <<journalVars, dbVars, connVars, phase, scan, crashes, xfaults, jfaults, history>>

Started ==
    /\ At(Startup, "idle") /\ todo = {}
    /\ phase' = "up" /\ scan' = {}
    /\ UNCHANGED <<journalVars, dbVars, connVars, task, todo, crashes, xfaults, jfaults, history>>

-----------------------------------------------------------------------------
(* The Oracle resource manager, external *)

\* An administrator, or Oracle itself, completes a prepared branch.
DbHeuristic(b) ==
    /\ db[b] = "prepared"
    /\ \E h \in HeuristicOutcomes :
         /\ db' = [db EXCEPT ![b] = h]
         /\ applied' = IF h = "HEURISTIC_ROLLBACK" THEN applied ELSE applied \cup {b}
    /\ UNCHANGED <<journalVars, connVars, task, startVars, crashes, xfaults, jfaults, history>>

\* Work that was never prepared is rolled back once no session holds it.
DbAbort(b) ==
    /\ db[b] = "active"
    /\ \A c \in Conn : active[c] # b /\ op[c].b # b
    /\ db' = [db EXCEPT ![b] = "none"]
    /\ UNCHANGED <<journalVars, applied, connVars, task, startVars, crashes, xfaults, jfaults, history>>

-----------------------------------------------------------------------------
ConnStep(c) ==
    \/ BeginStart(c) \/ BeginUndo(c)
    \/ PrepareXa(c) \/ RecordPrepare(c)
    \/ ResolveActiveXa(c) \/ RecordResolve(c) \/ RecordFailure(c)
    \/ CloseXa(c) \/ RecordClose(c)

ConnCall(c) ==
    \/ OpenConnection(c) \/ BeginTransaction(c) \/ FinishTransaction(c) \/ CloseIntent(c)
    \/ \E b \in Branch :
         \/ BeginInsert(c, b) \/ PrepareAgain(c, b) \/ PrepareIntent(c, b)
         \/ ResolveActiveAgain(c, b)
         \/ \E d \in Decision : ResolveActiveIntent(c, b, d)

WorkerStep(w) ==
    \/ ResolveFind(w) \/ ResolveCas(w) \/ ResolveScan(w)
    \/ ForgetXa(w) \/ ForgetDelete(w)

TaskStep(t) == ResolveXa(t) \/ ResolveNota(t) \/ ResolveRecord(t)

WorkerCall(w) ==
    \E b \in Branch :
      \/ CallForget(w, b)
      \/ \E d \in Decision : CallResolve(w, b, d)

Next ==
    \/ \E c \in Conn : ConnStep(c) \/ ConnCall(c)
    \/ \E w \in Worker : WorkerStep(w) \/ WorkerCall(w)
    \/ \E t \in Thread : TaskStep(t)
    \/ Crash \/ Restart \/ Started
    \/ \E b \in Branch : Reconcile(b) \/ DbHeuristic(b) \/ DbAbort(b)

Spec == Init /\ [][Next]_vars

(***************************************************************************)
(* Threads inside an operation go on (the operations end in calls with a    *)
(* timeout), the provider is restarted after it ends, and a coordinator     *)
(* keeps trying to resolve, and then to forget, a branch it knows of.       *)
(***************************************************************************)
Fairness ==
    /\ \A c \in Conn : WF_vars(ConnStep(c))
    /\ \A w \in Worker : WF_vars(WorkerStep(w))
    /\ \A t \in Thread : WF_vars(TaskStep(t))
    /\ WF_vars(Restart) /\ WF_vars(Started)
    /\ \A b \in Branch : WF_vars(Reconcile(b))
    /\ \A b \in Branch : SF_vars(\E w \in Worker, d \in Decision : CallResolve(w, b, d))
    /\ \A b \in Branch : SF_vars(\E w \in Worker : CallForget(w, b))

FairSpec == Spec /\ Fairness

-----------------------------------------------------------------------------
(* Properties *)

\* Every variable has its type, in every interleaving of the handlers.
TypeOK ==
    /\ jstate \in [Branch -> BranchState \cup {"ABSENT"}]
    /\ jconn \in [Branch -> Conn \cup {NoConn}]
    /\ db \in [Branch -> DbState]
    /\ applied \subseteq Branch
    /\ status \in [Conn -> {"new", "open", "closed"}]
    /\ inTransaction \subseteq Conn
    /\ active \in [Conn -> Branch \cup {NoBranch}]
    /\ op \in [Conn -> Op]
    /\ task \in [Thread -> Task]
    /\ phase \in {"down", "starting", "up"}
    /\ scan \subseteq Branch
    /\ todo \subseteq Branch
    /\ crashes \in 0..MaxCrashes
    /\ xfaults \in 0..MaxXaFaults
    /\ jfaults \in 0..MaxJournalFaults
    /\ asked \in [Branch -> SUBSET Decision]
    /\ told \in [Branch -> SUBSET BranchState]
    /\ promised \subseteq Branch
    /\ forgotten \subseteq Branch

\* What status() reports of a branch is never an outcome the database did not
\* have, through crashes, failed XA calls and concurrent resolutions; a row that
\* only announces a call to the database is reported as a hazard (publicState).
JournalTruthful ==
    \A b \in Branch :
      LET reported == PublicState(jstate[b])
      IN  /\ reported \in {"COMMITTED", "HEURISTIC_COMMIT"} => b \in applied
          /\ reported \in {"READ_ONLY", "ROLLED_BACK", "HEURISTIC_ROLLBACK"} => b \notin applied

\* A branch the database holds in doubt has a row that recover() lists, so a
\* restarted coordinator can find it: no crash, failed call or forget loses it.
InDoubtListed ==
    \A b \in Branch : InDoubt(db[b]) => IsRecoverable(jstate[b])

\* The provider decides nothing by itself: a committed row follows a request to
\* commit, and a branch whose prepare was acknowledged is rolled back only on
\* request (closing its connection or restarting must not do it).
OutcomeRequested ==
    \A b \in Branch :
      /\ jstate[b] = "COMMITTED" => "commit" \in asked[b]
      /\ jstate[b] = "ROLLED_BACK" /\ b \in promised => "rollback" \in asked[b]

\* Every commit and rollback of a branch that returns a terminal state returns
\* the same one, and it is the one the journal retains until it is forgotten.
RepliesAgree ==
    \A b \in Branch : \A s \in told[b] : jstate[b] \in {s, "ABSENT"}

\* A terminal row is never rewritten; it only disappears, and only once Kubling
\* asked to forget the branch.
TerminalKept ==
    [][\A b \in Branch : IsTerminal(jstate[b]) =>
         \/ jstate'[b] = jstate[b]
         \/ jstate'[b] = "ABSENT" /\ b \in forgotten]_vars

\* A branch that is prepared, or whose announced resolution was interrupted,
\* reaches a terminal row as long as the coordinator repeats its request:
\* neither a crash nor a failed XA call or journal write leaves it in doubt.
PreparedResolved ==
    \A b \in Branch :
      jstate[b] \in {"PREPARED", "COMMITTING", "ROLLING_BACK"} ~>
        (IsTerminal(jstate[b]) \/ jstate[b] = "ABSENT")

-----------------------------------------------------------------------------
(***************************************************************************)
(* The inductive invariant.  A branch is held by at most one connection     *)
(* from its begin until it is prepared or resolved, and while it is held    *)
(* nobody else writes its row.  A prepared branch is held by none, and its  *)
(* row only moves forward: PREPARED, an announced resolution, a terminal    *)
(* state, nothing.                                                         *)
(***************************************************************************)

\* A connection holds a branch while it is active on it or works on it.
Holds(c, b) == active[c] = b \/ op[c].b = b

\* Rows a connection may still be active on: never one that was prepared.
HeldRow == {"ACTIVE", "PREPARING", "COMMITTED", "ROLLED_BACK", "ABSENT"} \cup OnePhaseIntent

\* Without a running provider no connection holds anything.
DownInv == phase # "up" => \A c \in Conn : active[c] = NoBranch /\ op[c].pc = "idle"

\* What a connection is active on is not prepared, and has a row until it is forgotten.
HeldInv(c) ==
    LET b == active[c] IN
    b # NoBranch =>
      /\ jstate[b] \in HeldRow
      /\ jstate[b] = "ABSENT" => b \in forgotten
      /\ ~InDoubt(db[b])

\* What a connection knows of the branch it works on, at each call.
OpInv(c) ==
    LET o == op[c]  s == jstate[op[c].b] IN
    /\ o.pc \in {"start", "undo"} =>
         active[c] = NoBranch /\ s = "ACTIVE" /\ o.b \notin forgotten
    /\ o.pc = "prepare" =>
         active[c] = o.b /\ s = "PREPARING" /\ o.b \notin forgotten
    /\ o.pc = "recordPrepare" =>
         /\ active[c] = NoBranch /\ s = "PREPARING" /\ o.b \notin forgotten /\ o.from = "PREPARING"
         /\ o.goal = "PREPARED" \/ (o.goal = "READ_ONLY" /\ ~InDoubt(db[o.b]))
    /\ o.pc \in {"resolve", "recordResolve"} =>
         /\ active[c] = o.b /\ s = o.from /\ o.b \notin forgotten /\ o.from \in OnePhaseIntent
         /\ o.goal = IF o.from = "COMMITTING_ONE_PHASE" THEN "COMMITTED" ELSE "ROLLED_BACK"
    /\ o.pc = "recordFailure" =>
         /\ active[c] = NoBranch /\ s = o.from /\ o.b \notin forgotten /\ o.from \in OnePhaseIntent
         /\ o.goal \in Heuristic
    /\ o.pc \in {"closing", "recordClose"} =>
         /\ active[c] = NoBranch /\ s \in {"ROLLING_BACK_ACTIVE", "ABSENT"}
         /\ s = "ABSENT" => o.b \in forgotten
         /\ o.from = "ROLLING_BACK_ACTIVE" /\ o.goal = "ROLLED_BACK"
         /\ ~InDoubt(db[o.b])

\* A thread of the recovery manager is resolving a branch it found announced.
Resolving(w) == task[w].pc \in {"scan", "finishScan", "xa", "nota", "record"}

\* A resolution announced in the journal, or a stale one, is never taken back.
WorkerInv(w) ==
    LET k == task[w]  b == task[w].b IN
    /\ phase # "up" => k.pc = "idle"
    /\ Resolving(w) =>
         /\ k.from = IntentOf(k.decision)
         /\ jstate[b] = k.from \/ IsTerminal(jstate[b]) \/ b \in forgotten
         /\ \A c \in Conn : ~Holds(c, b)
    /\ k.pc = "nota" => k.goal = TerminalOf(k.decision) /\ ~InDoubt(db[b])
    /\ k.pc = "record" =>
         k.goal \in Heuristic \/ (k.goal = TerminalOf(k.decision) /\ ~InDoubt(db[b]))
    /\ k.pc \in {"forgetXa", "forgetDelete"} => b \in forgotten
    /\ k.pc = "forgetDelete" => ~InDoubt(db[b])

StartupInv ==
    LET k == task[Startup]  b == task[Startup].b IN
    /\ k.pc \in {"idle", "xa", "nota", "record"}
    /\ phase # "starting" => k.pc = "idle"
    /\ k.pc # "idle" => b \notin todo /\ jstate[b] = k.from
    /\ k.pc \in {"xa", "nota"} =>
         \/ k.decision = "commit" /\ k.from = "COMMITTING"
         \/ k.decision = "rollback" /\ k.from \in {"ROLLING_BACK", "ROLLING_BACK_ACTIVE"}
    /\ k.pc = "nota" => k.goal = TerminalOf(k.decision) /\ ~InDoubt(db[b])
    /\ k.pc = "record" =>
         /\ k.from \in {"ACTIVE", "PREPARED"} \cup Intent
         /\ \/ k.goal = "PREPARED" /\ k.from \in {"PREPARING", "PREPARED"}
            \/ k.goal \in Heuristic
            \/ k.goal \in Resolved /\ ~InDoubt(db[b])

\* The startup scan still tells what is in doubt of the rows it has to visit.
ScanInv ==
    phase = "starting" => \A b \in todo : (b \in scan) <=> InDoubt(db[b])

\* A forgotten branch had a terminal row; only close() may have overwritten it.
ForgottenInv ==
    \A b \in forgotten : IsTerminal(jstate[b]) \/ jstate[b] \in {"ABSENT", "ROLLING_BACK_ACTIVE"}

HolderInv ==
    \A b \in Branch : \A c, e \in Conn : Holds(c, b) /\ Holds(e, b) => c = e

Inv ==
    /\ InDoubtListed
    /\ DownInv
    /\ \A c \in Conn : HeldInv(c) /\ OpInv(c)
    /\ HolderInv
    /\ ForgottenInv
    /\ \A w \in Worker : WorkerInv(w)
    /\ StartupInv
    /\ ScanInv

\* The ownership discipline that keeps an in-doubt branch listed: while a
\* connection holds a branch it alone writes the row, a resolution found
\* announced is only finished, and the startup scan stays valid until the row
\* it is about has been reconciled.
IndInv == TypeOK /\ Inv
(***************************************************************************)
(* What the rows say is true, as long as no journal write fails.           *)
(***************************************************************************)
\* Rows of branches that are not, or not yet, committed.
Undone(b) ==
    \/ jstate[b] \in {"ACTIVE", "PREPARING", "ROLLING_BACK", "ROLLING_BACK_ACTIVE"}
    \/ jstate[b] = "ABSENT" /\ b \notin forgotten

\* A row that reports an outcome reports the one of the database.
RowTrue(b, s) ==
    /\ s \in {"COMMITTED", "HEURISTIC_COMMIT"} => b \in applied
    /\ s \in {"READ_ONLY", "ROLLED_BACK", "HEURISTIC_ROLLBACK"} => b \notin applied

\* What journal and database know of each other's state of a branch.
Truth(b) ==
    /\ RowTrue(b, jstate[b])
    /\ db[b] \in {"active", "prepared", "HEURISTIC_ROLLBACK"} => b \notin applied
    /\ db[b] = "HEURISTIC_COMMIT" => b \in applied
    /\ db[b] = "prepared" => jstate[b] \in {"PREPARING", "PREPARED", "COMMITTING", "ROLLING_BACK"}
    /\ jstate[b] = "PREPARED" => InDoubt(db[b])
    /\ ~InDoubt(db[b]) /\ jstate[b] = "COMMITTING" => b \in applied
    /\ ~InDoubt(db[b]) /\ Undone(b) => b \notin applied
    /\ b \in forgotten => IsTerminal(jstate[b]) \/ jstate[b] = "ABSENT"

\* What an operation is about to record is true.
OpTruth(c) ==
    LET o == op[c] IN
    /\ o.pc = "idle" /\ active[c] # NoBranch => jstate[active[c]] = "ACTIVE"
    /\ o.pc = "recordPrepare" /\ o.goal = "PREPARED" => InDoubt(db[o.b])
    /\ o.pc = "recordResolve" /\ o.goal = "COMMITTED" => o.b \in applied
    /\ o.pc = "recordFailure" => RowTrue(o.b, o.goal)

\* What a thread of the recovery manager is about to record is true, unless
\* another one has recorded it already.
TaskTruth(t) ==
    LET k == task[t] IN
    k.pc = "record" /\ jstate[k.b] = k.from =>
        /\ RowTrue(k.b, k.goal)
        /\ k.goal # "PREPARED" => db[k.b] # "prepared"
        /\ k.goal = "PREPARED" => InDoubt(db[k.b])

\* Replies name the terminal row, which is only ever forgotten.
ReplyInv(b) ==
    \A s \in told[b] :
        /\ IsTerminal(s)
        /\ jstate[b] = s \/ (jstate[b] = "ABSENT" /\ b \in forgotten)

TruthInv ==
    /\ \A b \in Branch : Truth(b) /\ ReplyInv(b)
    /\ \A c \in Conn : OpTruth(c)
    /\ \A t \in Thread : TaskTruth(t)

(***************************************************************************)
(* What is announced was asked for, also when journal writes fail.         *)
(***************************************************************************)
AskedRow(b) ==
    /\ jstate[b] \in {"COMMITTING", "COMMITTING_ONE_PHASE", "COMMITTED"} => "commit" \in asked[b]
    /\ jstate[b] = "ROLLING_BACK" => "rollback" \in asked[b]
    /\ jstate[b] = "ROLLED_BACK" /\ b \in promised => "rollback" \in asked[b]
    /\ b \in promised => /\ jstate[b] \notin {"ACTIVE", "PREPARING"} \cup OnePhaseIntent
                         /\ jstate[b] = "ABSENT" => b \in forgotten
                         /\ \A c \in Conn : ~Holds(c, b)

\* The outcome that startup records is the one its row announces.
StartupGoal ==
    LET k == task[Startup] IN
    k.pc = "record" =>
        /\ k.goal = "COMMITTED" => k.from = "COMMITTING"
        /\ k.goal = "ROLLED_BACK" => k.from \in {"ACTIVE", "ROLLING_BACK", "ROLLING_BACK_ACTIVE"}

AskedInv == StartupGoal /\ \A b \in Branch : AskedRow(b)
=============================================================================
