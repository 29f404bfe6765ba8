--------------------------- MODULE SharedSessions ---------------------------
(***************************************************************************)
(* How the Cassandra, Redis and Kubernetes providers share backend         *)
(* sessions between logical connections (provider.go, connection.go and    *)
(* session.go or client.go of each).  The provider keeps one counted entry *)
(* per slot; connections, and the provider's own Metadata and Health       *)
(* calls, acquire and release it.  Cassandra and Kubernetes open a session *)
(* outside the provider's mutex: an entry whose ready channel is still     *)
(* open is waited for.  Redis makes its client under the mutex.            *)
(*                                                                         *)
(* The code of a critical section is one step; what happens between an     *)
(* unlock and the next lock interleaves.  An entry opens one session at    *)
(* most, so one identifier stands for both.                                *)
(***************************************************************************)
EXTENDS Naturals, Sequences, FiniteSets

CONSTANTS
    Conns,        \* logical connections
    Tasks,        \* goroutines that serve calls
    Namespaces,   \* the configured namespaces, in the order sort.Strings gives
    MaxRuns,      \* bound: calls each goroutine serves
    None          \* no entry, no connection

Slot == {Namespaces[i] : i \in DOMAIN Namespaces}

\* The entry a goroutine would make in a given call for a given slot.
Ids == Tasks \X (1 .. MaxRuns) \X Slot

\* Namespaces are the keys of a map, each of them once.
ASSUME SharedAssumption ==
    /\ IsFiniteSet(Conns) /\ IsFiniteSet(Tasks) /\ Conns \cap Tasks = {}
    /\ MaxRuns \in Nat \ {0}
    /\ Namespaces \in Seq(Slot) /\ Namespaces # <<>>
    /\ \A i, j \in DOMAIN Namespaces : Namespaces[i] = Namespaces[j] => i = j
    /\ None \notin Conns \cup Ids

VARIABLES
    kind,         \* which provider this is
    table,        \* Provider.sessions, Provider.clients or Provider.client
    entries,      \* the entries ever made and the session of each
    conns,        \* the logical connections
    tasks         \* the goroutines

vars == <<kind, table, entries, conns, tasks>>

Entry == [phase : {"unborn", "opening", "ready", "failed"},
          refs : 0 .. Cardinality(Conns) + Cardinality(Tasks),
          session : {"unborn", "open", "closed"}]
Held == [Slot -> Ids \cup {None}]
Conn == [closed : BOOLEAN, held : Held, leaving : Held, last : Ids \cup {None}]
PC == {"idle", "acquire", "wait", "open", "install", "use", "release", "close"}
Task == [pc : PC, run : 0 .. MaxRuns, conn : Conns \cup {None}, ns : Slot,
         entry : Ids \cup {None}, using : Ids \cup {None},
         next : {"idle", "use", "acquire"}]

TypeOK ==
    /\ kind \in {"cassandra", "redis", "kubernetes"}
    /\ table \in Held
    /\ entries \in [Ids -> Entry]
    /\ conns \in [Conns -> Conn]
    /\ tasks \in [Tasks -> Task]

\* A goroutine between two calls.
Resting(run) ==
    [pc |-> "idle", run |-> run, conn |-> None, ns |-> Namespaces[1],
     entry |-> None, using |-> None, next |-> "idle"]

Nothing == [n \in Slot |-> None]

\* newProvider, and Open for each connection: nothing is acquired yet.
Init ==
    /\ kind \in {"cassandra", "redis", "kubernetes"}
    /\ table = Nothing
    /\ entries = [e \in Ids |-> [phase |-> "unborn", refs |-> 0, session |-> "unborn"]]
    /\ conns = [c \in Conns |->
                   [closed |-> FALSE, held |-> Nothing, leaving |-> Nothing, last |-> None]]
    /\ tasks = [t \in Tasks |-> Resting(0)]

\* A Kubernetes provider has one cluster, so one slot.
Slots == IF kind = "kubernetes" THEN {Namespaces[1]} ELSE Slot

At(t, pc) == tasks[t].pc = pc

Become(t, r) == tasks' = [tasks EXCEPT ![t] = r]

-----------------------------------------------------------------------------
(* Connection.session, Connection.client, Connection.clientFor: first what  *)
(* the connection already holds, read under its RLock.                      *)

Lookup(t) ==
    /\ At(t, "idle") /\ tasks[t].run < MaxRuns
    /\ \E c \in Conns, n \in Slots :
          LET held == conns[c].held[n]
          IN Become(t, IF conns[c].closed THEN Resting(tasks[t].run + 1)
                       ELSE [Resting(tasks[t].run + 1) EXCEPT
                               !.pc = IF held = None THEN "acquire" ELSE "use",
                               !.conn = c, !.ns = n, !.using = held])
    /\ UNCHANGED <<kind, table, entries, conns>>

\* The connection was not locked while the session was acquired: it may have
\* been closed, or have got the same session through another request.
Install(t) ==
    LET c == tasks[t].conn
        n == tasks[t].ns
        e == tasks[t].entry
        existing == conns[c].held[n]
    IN /\ At(t, "install")
       /\ IF conns[c].closed
          THEN Become(t, [tasks[t] EXCEPT !.pc = "release", !.next = "idle"])
          ELSE IF existing # None
          THEN Become(t, [tasks[t] EXCEPT !.pc = "release", !.next = "use", !.using = existing])
          ELSE Become(t, [tasks[t] EXCEPT !.pc = "use", !.using = e, !.entry = None])
       /\ conns' = IF conns[c].closed \/ existing # None THEN conns
                   ELSE [conns EXCEPT ![c].held[n] = e]
       /\ UNCHANGED <<kind, table, entries>>

\* The query or mutation that needed the session ends.
Finish(t) ==
    /\ At(t, "use") /\ tasks[t].conn # None
    /\ Become(t, Resting(tasks[t].run))
    /\ UNCHANGED <<kind, table, entries, conns>>

session(t) == kind = "cassandra" /\ Lookup(t)
sessionAcquired(t) == kind = "cassandra" /\ Install(t)
client(t) == kind = "redis" /\ Lookup(t)
clientAcquired(t) == kind = "redis" /\ Install(t)
clientFor(t) == kind = "kubernetes" /\ Lookup(t)
clientForAcquired(t) == kind = "kubernetes" /\ Install(t)

-----------------------------------------------------------------------------
(* acquireSession and acquireClient: under the provider's mutex, join the   *)
(* entry, wait for it, or become the goroutine that opens it.               *)

JoinEntry(t, e) ==
    /\ entries' = [entries EXCEPT ![e].refs = @ + 1]
    /\ Become(t, [tasks[t] EXCEPT !.pc = IF tasks[t].conn = None THEN "use" ELSE "install",
                                  !.entry = e])
    /\ UNCHANGED <<kind, table, conns>>

NewId(t) == <<t, tasks[t].run, tasks[t].ns>>

FindEntry(t) ==
    LET n == tasks[t].ns
        e == table[n]
    IN /\ At(t, "acquire")
       /\ \/ e # None /\ entries[e].phase = "ready" /\ JoinEntry(t, e)
          \/ /\ e # None /\ entries[e].phase = "opening"
             /\ Become(t, [tasks[t] EXCEPT !.pc = "wait", !.entry = e])
             /\ UNCHANGED <<kind, table, entries, conns>>
          \/ /\ e = None
             /\ table' = [table EXCEPT ![n] = NewId(t)]
             /\ entries' = [entries EXCEPT ![NewId(t)].phase = "opening"]
             /\ Become(t, [tasks[t] EXCEPT !.pc = "open", !.entry = NewId(t)])
             /\ UNCHANGED <<kind, conns>>

\* Mutant: whoever waited joins the entry without looking at the table again.
AwaitEntryBlindly(t) ==
    LET e == tasks[t].entry
    IN /\ At(t, "wait")
       /\ \/ /\ entries[e].phase = "failed"
             /\ Become(t, Resting(tasks[t].run))
             /\ UNCHANGED <<kind, table, entries, conns>>
          \/ entries[e].phase = "ready" /\ JoinEntry(t, e)

\* The ready channel was closed.  The opener's error is everyone's; an entry
\* that was opened and released meanwhile is not joined.
AwaitEntry(t) ==
    LET e == tasks[t].entry
    IN /\ At(t, "wait")
       /\ \/ /\ entries[e].phase = "failed"
             /\ Become(t, Resting(tasks[t].run))
             /\ UNCHANGED <<kind, table, entries, conns>>
          \/ /\ entries[e].phase = "ready" /\ table[tasks[t].ns] # e
             /\ Become(t, [tasks[t] EXCEPT !.pc = "acquire", !.entry = None])
             /\ UNCHANGED <<kind, table, entries, conns>>
          \/ entries[e].phase = "ready" /\ table[tasks[t].ns] = e /\ JoinEntry(t, e)

\* The caller's context ends while it waits.
GiveUp(t) ==
    /\ At(t, "wait")
    /\ Become(t, Resting(tasks[t].run))
    /\ UNCHANGED <<kind, table, entries, conns>>

\* Mutant: a failed open leaves its entry in the table with ready open.
OpenedNeverReady(t) ==
    LET e == tasks[t].entry
    IN /\ At(t, "open")
       /\ \/ Become(t, Resting(tasks[t].run)) /\ UNCHANGED entries
          \/ /\ entries' = [entries EXCEPT ![e] =
                    [phase |-> "ready", refs |-> 1, session |-> "open"]]
             /\ Become(t, [tasks[t] EXCEPT
                    !.pc = IF tasks[t].conn = None THEN "use" ELSE "install"])
       /\ UNCHANGED <<kind, table, conns>>

\* newSession returned.  When the call was cancelled meanwhile, createSession
\* and newClusterClient close what they opened and report the error.
Opened(t) ==
    LET n == tasks[t].ns
        e == tasks[t].entry
    IN /\ At(t, "open")
       /\ \/ /\ table' = [table EXCEPT ![n] = None]
             /\ entries' = [entries EXCEPT ![e].phase = "failed"]
             /\ Become(t, Resting(tasks[t].run))
          \/ /\ entries' = [entries EXCEPT ![e] =
                    [phase |-> "ready", refs |-> 1, session |-> "open"]]
             /\ Become(t, [tasks[t] EXCEPT
                    !.pc = IF tasks[t].conn = None THEN "use" ELSE "install"])
             /\ UNCHANGED table
       /\ UNCHANGED <<kind, conns>>

acquireSession(t) == kind = "cassandra" /\ (FindEntry(t) \/ AwaitEntry(t))
createSession(t) == kind = "cassandra" /\ Opened(t)
acquireClusterClient(t) == kind = "kubernetes" /\ (FindEntry(t) \/ AwaitEntry(t))
newClusterClient(t) == kind = "kubernetes" /\ Opened(t)

\* Redis: newRedisClient does not connect, and runs under the mutex.
acquireClient(t) ==
    LET n == tasks[t].ns
        e == table[n]
    IN /\ kind = "redis" /\ At(t, "acquire")
       /\ \/ e # None /\ JoinEntry(t, e)
          \/ /\ e = None
             /\ table' = [table EXCEPT ![n] = NewId(t)]
             /\ entries' = [entries EXCEPT ![NewId(t)] =
                    [phase |-> "ready", refs |-> 1, session |-> "open"]]
             /\ Become(t, [tasks[t] EXCEPT
                    !.pc = IF tasks[t].conn = None THEN "use" ELSE "install",
                    !.entry = NewId(t)])
             /\ UNCHANGED <<kind, conns>>

-----------------------------------------------------------------------------
(* releaseSession and releaseClient: the entry must still be the one of the *)
(* slot; the last reference removes it, and the session is closed after the *)
(* unlock.                                                                  *)

Stale(n, e) == table[n] # e \/ entries[e].refs = 0
LastReference(n, e) == ~Stale(n, e) /\ entries[e].refs = 1

Drop(n, e) ==
    /\ entries' = IF Stale(n, e) THEN entries ELSE [entries EXCEPT ![e].refs = @ - 1]
    /\ table' = IF LastReference(n, e) THEN [table EXCEPT ![n] = None] ELSE table

\* Where a goroutine goes after its release: nowhere, on with the session the
\* connection had, or on to the next namespace of Metadata or Health.
Onward(t) ==
    IF tasks[t].next = "idle" THEN Resting(tasks[t].run)
    ELSE [tasks[t] EXCEPT !.pc = tasks[t].next, !.entry = None, !.next = "idle",
        !.ns = IF tasks[t].next = "acquire"
               THEN Namespaces[1 + CHOOSE i \in DOMAIN Namespaces : Namespaces[i] = @]
               ELSE @]

ReleaseEntry(t) ==
    LET n == tasks[t].ns
        e == tasks[t].entry
    IN /\ At(t, "release")
       /\ Drop(n, e)
       /\ Become(t, IF LastReference(n, e) THEN [tasks[t] EXCEPT !.pc = "close"] ELSE Onward(t))
       /\ UNCHANGED <<kind, conns>>

CloseEntry(t) ==
    /\ At(t, "close")
    /\ entries' = [entries EXCEPT ![tasks[t].entry].session = "closed"]
    /\ Become(t, Onward(t))
    /\ UNCHANGED <<kind, table, conns>>

releaseSession(t) == kind = "cassandra" /\ (ReleaseEntry(t) \/ CloseEntry(t))
releaseClient(t) == kind = "redis" /\ (ReleaseEntry(t) \/ CloseEntry(t))
releaseClusterClient(t) == kind = "kubernetes" /\ (ReleaseEntry(t) \/ CloseEntry(t))

-----------------------------------------------------------------------------
(* The provider's own calls: Metadata of Cassandra, Health of Redis, Health *)
(* and Metadata of Kubernetes.  Each namespace in turn is acquired, used    *)
(* and released; a failure ends the call, after the release.                *)

StartSurvey(t) ==
    /\ At(t, "idle") /\ tasks[t].run < MaxRuns
    /\ Become(t, [Resting(tasks[t].run + 1) EXCEPT !.pc = "acquire"])
    /\ UNCHANGED <<kind, table, entries, conns>>

SurveyUsed(t, more) ==
    /\ At(t, "use") /\ tasks[t].conn = None
    /\ \E next \in {"idle"} \cup (IF more THEN {"acquire"} ELSE {}) :
          Become(t, [tasks[t] EXCEPT !.pc = "release", !.next = next])
    /\ UNCHANGED <<kind, table, entries, conns>>

MoreNamespaces(t) == tasks[t].ns # Namespaces[Len(Namespaces)]

CassandraMetadata(t) == kind = "cassandra" /\ (StartSurvey(t) \/ SurveyUsed(t, MoreNamespaces(t)))
RedisHealth(t) == kind = "redis" /\ (StartSurvey(t) \/ SurveyUsed(t, MoreNamespaces(t)))
KubernetesHealth(t) == kind = "kubernetes" /\ (StartSurvey(t) \/ SurveyUsed(t, FALSE))

\* Metadata of Kubernetes releases the client on each of its nine ways out.
KubernetesMetadata(t) == kind = "kubernetes" /\ (StartSurvey(t) \/ SurveyUsed(t, FALSE))

-----------------------------------------------------------------------------
(* Connection.Close: take what is held, then release it slot by slot, in    *)
(* the order a Go map happens to give.                                      *)

TakeHeld(c) ==
    /\ ~conns[c].closed
    /\ conns' = [conns EXCEPT ![c].closed = TRUE, ![c].held = Nothing,
                              ![c].leaving = conns[c].held]
    /\ UNCHANGED <<kind, table, entries, tasks>>

\* Mutant: Close closes every session it held, whoever else holds it.
DropHeldClosing(c) ==
    /\ conns[c].last = None
    /\ \E n \in Slot :
          LET e == conns[c].leaving[n]
          IN /\ e # None
             /\ Drop(n, e)
             /\ conns' = [conns EXCEPT ![c].leaving[n] = None, ![c].last = e]
    /\ UNCHANGED <<kind, tasks>>

DropHeld(c) ==
    /\ conns[c].last = None
    /\ \E n \in Slot :
          LET e == conns[c].leaving[n]
          IN /\ e # None
             /\ Drop(n, e)
             /\ conns' = [conns EXCEPT ![c].leaving[n] = None,
                              ![c].last = IF LastReference(n, e) THEN e ELSE None]
    /\ UNCHANGED <<kind, tasks>>

CloseHeld(c) ==
    /\ conns[c].last # None
    /\ entries' = [entries EXCEPT ![conns[c].last].session = "closed"]
    /\ conns' = [conns EXCEPT ![c].last = None]
    /\ UNCHANGED <<kind, table, tasks>>

CassandraClose(c) == kind = "cassandra" /\ (TakeHeld(c) \/ DropHeld(c) \/ CloseHeld(c))
RedisClose(c) == kind = "redis" /\ (TakeHeld(c) \/ DropHeld(c) \/ CloseHeld(c))
KubernetesClose(c) == kind = "kubernetes" /\ (TakeHeld(c) \/ DropHeld(c) \/ CloseHeld(c))

-----------------------------------------------------------------------------
TaskNext(t) ==
    \/ session(t) \/ sessionAcquired(t) \/ acquireSession(t) \/ createSession(t)
    \/ releaseSession(t) \/ CassandraMetadata(t)
    \/ client(t) \/ clientAcquired(t) \/ acquireClient(t)
    \/ releaseClient(t) \/ RedisHealth(t)
    \/ clientFor(t) \/ clientForAcquired(t) \/ acquireClusterClient(t)
    \/ newClusterClient(t) \/ releaseClusterClient(t)
    \/ KubernetesHealth(t) \/ KubernetesMetadata(t)
    \/ Finish(t)

ConnNext(c) == CassandraClose(c) \/ RedisClose(c) \/ KubernetesClose(c)

\* Every goroutine served its calls and every connection is closed.
Done ==
    /\ \A t \in Tasks : At(t, "idle") /\ tasks[t].run = MaxRuns
    /\ \A c \in Conns : conns[c].closed /\ conns[c].leaving = Nothing /\ conns[c].last = None
    /\ UNCHANGED vars

Next ==
    \/ \E t \in Tasks : TaskNext(t) \/ GiveUp(t)
    \/ \E c \in Conns : ConnNext(c)
    \/ Done

\* A goroutine that serves a call goes on; the driver answers, so opening a
\* session ends, with a session or with an error.
Fairness ==
    /\ \A t \in Tasks : WF_vars(~At(t, "idle") /\ TaskNext(t))
    /\ \A c \in Conns : WF_vars(conns[c].closed /\ ConnNext(c))

Spec == Init /\ [][Next]_vars /\ Fairness

-----------------------------------------------------------------------------
\* Who holds a reference to e: a goroutine between its acquire and its release
\* or its install, and a connection until Close has released the slot.
TaskHolds(t, e) ==
    /\ tasks[t].entry = e
    /\ At(t, "install") \/ At(t, "release") \/ (At(t, "use") /\ tasks[t].conn = None)

ConnHolds(c, e) == \E n \in Slot : conns[c].held[n] = e \/ conns[c].leaving[n] = e

Holders(e) == {t \in Tasks : TaskHolds(t, e)} \cup {c \in Conns : ConnHolds(c, e)}

\* A session is open for as long as an open connection holds it, a request on
\* an open connection runs with it or a provider call uses it, however the
\* closing of other connections interleaves with acquireSession.
HeldOpen ==
    /\ \A c \in Conns, n \in Slot :
          conns[c].held[n] # None => entries[conns[c].held[n]].session = "open"
    /\ \A t \in Tasks : At(t, "use") =>
          IF tasks[t].conn = None THEN entries[tasks[t].entry].session = "open"
          ELSE conns[tasks[t].conn].closed \/ entries[tasks[t].using].session = "open"

\* The count in an entry is the number of its holders, an entry in the table is
\* being opened or held, and one that left the table is closed or about to be.
ReferencesExact ==
    \A e \in Ids :
        /\ entries[e].refs = Cardinality(Holders(e))
        /\ (\E n \in Slot : table[n] = e) <=>
              entries[e].phase = "opening" \/ entries[e].refs > 0
        /\ entries[e].session = "open" /\ entries[e].refs = 0 =>
              \/ \E t \in Tasks : At(t, "close") /\ tasks[t].entry = e
              \/ \E c \in Conns : conns[c].last = e

\* The three providers implement the shared lease.
Lease == INSTANCE SessionLease
    WITH Slots <- Slot, Sessions <- Ids, Users <- Tasks \cup Conns, Nobody <- None,
         current <- [n \in Slot |->
                       IF table[n] # None /\ entries[table[n]].phase = "ready"
                       THEN table[n] ELSE None],
         life <- [e \in Ids |-> entries[e].session],
         holders <- [e \in Ids |-> Holders(e)]

\* Sessions are open while they are held, and counted exactly, and the tables and
\* counts keep their types (acquireSession, releaseSession).
SessionsSound == TypeOK /\ HeldOpen /\ ReferencesExact

\* acquireSession, releaseSession and Close of each provider implement the
\* shared lease: one session per slot, joined by whoever asks, and closed only
\* after its last holder left.
ImplementsLease == Lease!LeaseSafety

\* A call that waits for a session that another call opens, or that must open
\* its own, always returns, and a session that its last holder left is closed.
LeaseServed ==
    /\ \A t \in Tasks : ~At(t, "idle") ~> At(t, "idle")
    /\ Lease!LeaseFairness
=============================================================================
