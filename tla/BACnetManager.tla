---------------------------- MODULE BACnetManager ----------------------------
(***************************************************************************)
(* The discovery manager of the BACnet provider                            *)
(* (providers/bacnet/internal/discovery/manager.go): its clients, its      *)
(* refresh loops, the queries and updates that read and write through the  *)
(* same clients, and Close.                                                *)
(*                                                                         *)
(* Every attachment has one client (a UDP socket) and two locks:           *)
(* discoveryMu admits one refresh at a time, useMu (a sync.RWMutex, where  *)
(* a waiting writer keeps new readers out) is held for reading by whoever  *)
(* uses the client and for writing by Close.  What a refresh finds and     *)
(* what the registry makes of it is BACnetRegistry.                        *)
(***************************************************************************)
EXTENDS Naturals

CONSTANTS
    Attachment, Scope, Caller,   \* sockets; logical scopes; requests
    AttachmentOf,                \* config.Scope.AttachmentID
    Closer                       \* the goroutine that calls Close

\* The configuration refers every scope to a configured attachment.
ASSUME TopologyAssumption ==
    /\ AttachmentOf \in [Scope -> Attachment]
    /\ Scope \cap Caller = {}
    /\ Closer \notin Scope

VARIABLES
    phase,         \* New: "opening", then "ready" or "failed"
    client,        \* attachmentState.client: "none", "open", "closed"
    started,       \* Manager.started
    closed,        \* Manager.closed
    cancelled,     \* the context of the refresh loops has ended
    discoveryMu,   \* who holds attachmentState.discoveryMu
    readers,       \* who holds attachmentState.useMu for reading
    writer,        \* Close holds it for writing
    loop,          \* where each runScope goroutine is
    call,          \* where each request is
    closer         \* where Close is

vars == <<phase, client, started, closed, cancelled,
          discoveryMu, readers, writer, loop, call, closer>>
manager == <<phase, client, started, closed, cancelled>>

InRefresh == {"rlock", "recheck", "discover", "identify"}
Reading == {"recheck", "discover", "identify"}

Idle == [pc |-> "idle"]

\* Snapshot visits the attachments that are left, then the request may go on
\* to read or write a device of one attachment.
Request ==
    [pc : {"snapshot"}, todo : SUBSET Attachment]
    \cup [pc : {"status"}, at : Attachment, todo : SUBSET Attachment]
    \cup [pc : {"acquire", "check", "using"}, at : Attachment]

Closing ==
    [pc : {"cancel", "wait", "done"}]
    \cup [pc : {"next"}, todo : SUBSET Attachment]
    \cup [pc : {"lockUse", "closing"}, at : Attachment, todo : SUBSET Attachment]

TypeOK ==
    /\ phase \in {"opening", "ready", "failed"}
    /\ client \in [Attachment -> {"none", "open", "closed"}]
    /\ started \in BOOLEAN /\ closed \in BOOLEAN /\ cancelled \in BOOLEAN
    /\ discoveryMu \in [Attachment -> SUBSET (Scope \cup {Closer})]
    /\ readers \in [Attachment -> SUBSET (Scope \cup Caller)]
    /\ writer \in [Attachment -> BOOLEAN]
    /\ loop \in [Scope -> {"off", "refresh", "lock", "timer", "done"} \cup InRefresh]
    /\ call \in [Caller -> Request \cup {Idle}]
    /\ closer \in Closing \cup {Idle}

Init ==
    /\ phase = IF Attachment = {} THEN "ready" ELSE "opening"
    /\ client = [a \in Attachment |-> "none"]
    /\ started = FALSE /\ closed = FALSE /\ cancelled = FALSE
    /\ discoveryMu = [a \in Attachment |-> {}]
    /\ readers = [a \in Attachment |-> {}]
    /\ writer = [a \in Attachment |-> FALSE]
    /\ loop = [s \in Scope |-> "off"]
    /\ call = [p \in Caller |-> Idle]
    /\ closer = Idle

(***************************************************************************)
(* New opens the clients one by one; when one cannot be opened, those that *)
(* are open are closed again and New fails.                                *)
(***************************************************************************)
Settled == <<started, closed, cancelled, discoveryMu, readers, writer, loop, call, closer>>

OpenClient(a) ==
    /\ phase = "opening" /\ client[a] = "none"
    /\ client' = [client EXCEPT ![a] = "open"]
    /\ phase' = IF \A b \in Attachment : client'[b] = "open" THEN "ready" ELSE "opening"
    /\ UNCHANGED Settled

OpenFails(a) ==
    /\ phase = "opening" /\ client[a] = "none"
    /\ client' = [b \in Attachment |-> IF client[b] = "open" THEN "closed" ELSE client[b]]
    /\ phase' = "failed"
    /\ UNCHANGED Settled

(***************************************************************************)
(* Start and the refresh loops: runScope calls RefreshScope, then waits    *)
(* for its timer or for the end of its context.                            *)
(***************************************************************************)
Start ==
    /\ phase = "ready" /\ ~closed /\ ~started
    /\ started' = TRUE
    /\ loop' = [s \in Scope |-> "refresh"]
    /\ UNCHANGED <<phase, client, closed, cancelled, discoveryMu, readers, writer, call, closer>>

Moves(s, pc) == loop' = [loop EXCEPT ![s] = pc]

BeginRefresh(s) ==
    /\ loop[s] = "refresh"
    /\ Moves(s, IF closed THEN "timer" ELSE "lock")
    /\ UNCHANGED <<manager, discoveryMu, readers, writer, call, closer>>

LockDiscovery(s) ==
    LET a == AttachmentOf[s]
    IN  /\ loop[s] = "lock" /\ discoveryMu[a] = {}
        /\ discoveryMu' = [discoveryMu EXCEPT ![a] = {s}]
        /\ Moves(s, "rlock")
        /\ UNCHANGED <<manager, readers, writer, call, closer>>

\* useMu.RLock() succeeds while no writer holds or awaits the lock.
Readable(a) ==
    /\ ~writer[a]
    /\ ~ (closer.pc = "lockUse" /\ closer.at = a)

LockUse(s) ==
    LET a == AttachmentOf[s]
    IN  /\ loop[s] = "rlock" /\ Readable(a)
        /\ readers' = [readers EXCEPT ![a] = @ \cup {s}]
        /\ Moves(s, "recheck")
        /\ UNCHANGED <<manager, discoveryMu, writer, call, closer>>

\* The deferred unlocks of RefreshScope, whatever it returns.
MutReturn(s) ==
    /\ readers' = [readers EXCEPT ![AttachmentOf[s]] = @ \ {s}]
    /\ UNCHANGED discoveryMu
    /\ Moves(s, "timer")

Return(s) ==
    /\ readers' = [readers EXCEPT ![AttachmentOf[s]] = @ \ {s}]
    /\ discoveryMu' = [discoveryMu EXCEPT ![AttachmentOf[s]] = @ \ {s}]
    /\ Moves(s, "timer")

Recheck(s) ==
    /\ loop[s] = "recheck"
    /\ IF closed THEN Return(s)
                 ELSE Moves(s, "discover") /\ UNCHANGED <<discoveryMu, readers>>
    /\ UNCHANGED <<manager, writer, call, closer>>

\* client.Discover returns and the context is looked at.
Discovered(s) ==
    /\ loop[s] = "discover"
    /\ IF cancelled THEN Return(s)
                    ELSE Moves(s, "identify") /\ UNCHANGED <<discoveryMu, readers>>
    /\ UNCHANGED <<manager, writer, call, closer>>

\* The devices have been identified, or the context ended meanwhile.
Identified(s) ==
    /\ loop[s] = "identify"
    /\ Return(s)
    /\ UNCHANGED <<manager, writer, call, closer>>

MutTimer(s) ==
    /\ loop[s] = "timer"
    /\ Moves(s, "refresh")
    /\ UNCHANGED <<manager, discoveryMu, readers, writer, call, closer>>

Timer(s) ==
    /\ loop[s] = "timer"
    /\ \/ Moves(s, "refresh")
       \/ cancelled /\ Moves(s, "done")
    /\ UNCHANGED <<manager, discoveryMu, readers, writer, call, closer>>

(***************************************************************************)
(* Requests: Snapshot asks every client for its status under the read lock *)
(* (without looking at closed), then a device is read or written through   *)
(* acquireAttachment.                                                      *)
(***************************************************************************)
Becomes(p, r) == call' = [call EXCEPT ![p] = r]

Snapshot(p) ==
    /\ phase = "ready" /\ call[p] = Idle
    /\ Becomes(p, [pc |-> "snapshot", todo |-> Attachment])
    /\ UNCHANGED <<manager, discoveryMu, readers, writer, loop, closer>>

Status(p) ==
    \/ /\ call[p].pc = "snapshot"
       /\ \E a \in call[p].todo :
            /\ Readable(a)
            /\ readers' = [readers EXCEPT ![a] = @ \cup {p}]
            /\ Becomes(p, [pc |-> "status", at |-> a, todo |-> call[p].todo \ {a}])
       /\ UNCHANGED <<manager, discoveryMu, writer, loop, closer>>
    \/ /\ call[p].pc = "status"
       /\ readers' = [readers EXCEPT ![call[p].at] = @ \ {p}]
       /\ Becomes(p, [pc |-> "snapshot", todo |-> call[p].todo])
       /\ UNCHANGED <<manager, discoveryMu, writer, loop, closer>>

\* The snapshot is complete: the request is answered from it, or it names a
\* device of some attachment.
Select(p) ==
    /\ call[p].pc = "snapshot" /\ call[p].todo = {}
    /\ \/ Becomes(p, Idle)
       \/ \E a \in Attachment : Becomes(p, [pc |-> "acquire", at |-> a])
    /\ UNCHANGED <<manager, discoveryMu, readers, writer, loop, closer>>

Acquire(p) ==
    /\ call[p].pc = "acquire" /\ Readable(call[p].at)
    /\ readers' = [readers EXCEPT ![call[p].at] = @ \cup {p}]
    /\ Becomes(p, [pc |-> "check", at |-> call[p].at])
    /\ UNCHANGED <<manager, discoveryMu, writer, loop, closer>>

Release(p) ==
    /\ readers' = [readers EXCEPT ![call[p].at] = @ \ {p}]
    /\ Becomes(p, Idle)

MutCheck(p) ==
    /\ call[p].pc = "check"
    /\ Becomes(p, [pc |-> "using", at |-> call[p].at]) /\ UNCHANGED readers
    /\ UNCHANGED <<manager, discoveryMu, writer, loop, closer>>

Check(p) ==
    /\ call[p].pc = "check"
    /\ IF closed THEN Release(p)
                 ELSE Becomes(p, [pc |-> "using", at |-> call[p].at]) /\ UNCHANGED readers
    /\ UNCHANGED <<manager, discoveryMu, writer, loop, closer>>

Used(p) ==
    /\ call[p].pc = "using"
    /\ Release(p)
    /\ UNCHANGED <<manager, discoveryMu, writer, loop, closer>>

(***************************************************************************)
(* Close: the second call returns at once; the first cancels the loops,    *)
(* waits for them, and closes client after client under both locks.        *)
(***************************************************************************)
Close ==
    /\ phase = "ready" /\ ~closed
    /\ closed' = TRUE
    /\ closer' = [pc |-> "cancel"]
    /\ UNCHANGED <<phase, client, started, cancelled, discoveryMu, readers, writer, loop, call>>

Cancel ==
    /\ closer.pc = "cancel"
    /\ cancelled' = started
    /\ closer' = [pc |-> "wait"]
    /\ UNCHANGED <<phase, client, started, closed, discoveryMu, readers, writer, loop, call>>

NextClient(todo) == IF todo = {} THEN [pc |-> "done"] ELSE [pc |-> "next", todo |-> todo]

MutWait ==
    /\ closer.pc = "wait"
    /\ closer' = NextClient(Attachment)
    /\ UNCHANGED <<manager, discoveryMu, readers, writer, loop, call>>

Wait ==
    /\ closer.pc = "wait"
    /\ \A s \in Scope : loop[s] \in {"off", "done"}
    /\ closer' = NextClient(Attachment)
    /\ UNCHANGED <<manager, discoveryMu, readers, writer, loop, call>>

CloseLockDiscovery ==
    /\ closer.pc = "next"
    /\ \E a \in closer.todo :
         /\ discoveryMu[a] = {}
         /\ discoveryMu' = [discoveryMu EXCEPT ![a] = {Closer}]
         /\ closer' = [pc |-> "lockUse", at |-> a, todo |-> closer.todo \ {a}]
    /\ UNCHANGED <<manager, readers, writer, loop, call>>

CloseLockUse ==
    /\ closer.pc = "lockUse" /\ readers[closer.at] = {}
    /\ writer' = [writer EXCEPT ![closer.at] = TRUE]
    /\ closer' = [closer EXCEPT !.pc = "closing"]
    /\ UNCHANGED <<manager, discoveryMu, readers, loop, call>>

CloseClient ==
    /\ closer.pc = "closing"
    /\ client' = [client EXCEPT ![closer.at] = "closed"]
    /\ writer' = [writer EXCEPT ![closer.at] = FALSE]
    /\ discoveryMu' = [discoveryMu EXCEPT ![closer.at] = {}]
    /\ closer' = NextClient(closer.todo)
    /\ UNCHANGED <<phase, started, closed, cancelled, readers, loop, call>>

RunScope(s) ==
    \/ BeginRefresh(s) \/ LockDiscovery(s) \/ LockUse(s) \/ Recheck(s)
    \/ Discovered(s) \/ Identified(s) \/ Timer(s)

Serve(p) == Status(p) \/ Select(p) \/ Acquire(p) \/ Check(p) \/ Used(p)

FinishClose == Cancel \/ Wait \/ CloseLockDiscovery \/ CloseLockUse \/ CloseClient

Next ==
    \/ \E a \in Attachment : OpenClient(a) \/ OpenFails(a)
    \/ Start
    \/ \E s \in Scope : RunScope(s)
    \/ \E p \in Caller : Snapshot(p) \/ Serve(p)
    \/ Close \/ FinishClose

Spec == Init /\ [][Next]_vars

(***************************************************************************)
(* Every goroutine that can go on does; a Discover, a read and a write end *)
(* (the transport bounds them by its window and its APDU timeout, and      *)
(* Discover also watches its context).  A sync.Mutex hands itself to a     *)
(* waiter that has starved, hence strong fairness for discoveryMu; of a    *)
(* timer and an ended context that stay ready, select takes each in the    *)
(* end.                                                                    *)
(***************************************************************************)
Fairness ==
    /\ \A s \in Scope :
         /\ WF_vars(RunScope(s))
         /\ SF_vars(LockDiscovery(s))
         /\ SF_vars(Timer(s) /\ loop'[s] = "done")
    /\ \A p \in Caller : WF_vars(Serve(p))
    /\ WF_vars(FinishClose)
    /\ SF_vars(CloseLockDiscovery)

LiveSpec == Spec /\ Fairness

-----------------------------------------------------------------------------
(***************************************************************************)
(* Properties                                                              *)
(***************************************************************************)

\* Discover, Identify, ReadObjectList, ReadProperties and WriteProperty are
\* only called on a client that is open, however Close, refreshes and requests
\* interleave (manager.go:161-168 and 347-363 against 391-395).
UsedOpen ==
    /\ \A s \in Scope : loop[s] \in {"discover", "identify"} => client[AttachmentOf[s]] = "open"
    /\ \A p \in Caller : call[p].pc = "using" => client[call[p].at] = "open"

\* When New has failed or Close has returned, no client is left open, no refresh
\* loop runs and no request uses a client (manager.go:60-73 and 366-398).
NothingLeft ==
    (phase = "failed" \/ closer.pc = "done") =>
        /\ \A a \in Attachment : client[a] # "open"
        /\ \A s \in Scope : loop[s] \in {"off", "done"}
        /\ \A p \in Caller : call[p].pc # "using"

\* Locks are held exactly by those between locking and unlocking, and a client
\* is closed only after closed was set (manager.go:159-168, 347-363, 366-398):
\* what UsedOpen and NothingLeft rest on.
LoopLocks ==
    \A a \in Attachment, s \in Scope :
        /\ s \in readers[a] <=> (AttachmentOf[s] = a /\ loop[s] \in Reading)
        /\ s \in discoveryMu[a] <=> (AttachmentOf[s] = a /\ loop[s] \in InRefresh)

CallLocks ==
    \A a \in Attachment, p \in Caller :
        p \in readers[a] <=> (call[p].pc \in {"status", "check", "using"} /\ call[p].at = a)

CloseLocks ==
    \A a \in Attachment :
        /\ writer[a] <=> (closer.pc = "closing" /\ closer.at = a)
        /\ writer[a] => readers[a] = {}

ClientsExact ==
    /\ closed <=> closer # Idle
    /\ ~started => \A s \in Scope : loop[s] = "off"
    /\ phase = "opening" => /\ ~closed
                            /\ \A a \in Attachment : client[a] # "closed"
                            /\ \A s \in Scope : loop[s] = "off"
                            /\ \A p \in Caller : call[p] = Idle
    /\ phase = "failed" => /\ ~closed
                           /\ \A a \in Attachment : client[a] # "open"
                           /\ \A s \in Scope : loop[s] = "off"
                           /\ \A p \in Caller : call[p] = Idle
    /\ phase = "ready" /\ closer.pc \in {"idle", "cancel", "wait"} =>
           \A a \in Attachment : client[a] = "open"
    /\ closer.pc \in {"next", "lockUse", "closing", "done"} =>
           /\ phase = "ready"
           /\ \A s \in Scope : loop[s] \in {"off", "done"}
           /\ \A a \in Attachment : client[a] = "closed" \/
                 (closer.pc # "done" /\ (a \in closer.todo \/ (closer.pc # "next" /\ a = closer.at)))

IndInv == TypeOK /\ LoopLocks /\ CallLocks /\ CloseLocks /\ ClientsExact /\ UsedOpen

\* Close returns although requests keep coming and scopes wait for each other's
\* discovery window (manager.go:378, 391).
CloseReturns == closed ~> closer.pc = "done"

\* Until Close, every scope is refreshed again and again, also when scopes share
\* an attachment and queue for its discoveryMu (manager.go:113-135, 159).
RefreshesGoOn ==
    \A s \in Scope : []<>(loop[s] = "discover" \/ closed \/ ~started)
=============================================================================
