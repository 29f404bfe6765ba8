--------------------------- MODULE ProviderServer ---------------------------
(***************************************************************************)
(* The connection registry of the Go SDK server (sdk-go/provider:          *)
(* registry.go, server.go) and the part of every request handler that      *)
(* deals with it: acquire, use, release.                                   *)
(*                                                                         *)
(* A logical connection is found in a map under the registry's lock and    *)
(* then used under its own read lock; closing removes it from the map      *)
(* first and takes the write lock, so it waits for the requests already    *)
(* using it and those that found it before it was removed get NotFound.    *)
(* The locks are Go's sync.RWMutex: a writer that waits keeps new readers  *)
(* out.  Connection identifiers are random and never met again: one member *)
(* of Conn stands for one connection the provider opens.                   *)
(***************************************************************************)
EXTENDS Naturals

CONSTANTS Conn, Caller     \* connections; goroutines serving requests

VARIABLES
    source,       \* the provider's connection: "unopened", "open", "closed"
    closings,     \* how often its Close was called
    registered,   \* keys of connectionRegistry.connections
    closed,       \* managedConnection.closed
    readers,      \* requests that hold its read lock
    writer,       \* closers that hold its write lock
    waiting,      \* closers waiting in mu.Lock()
    call          \* what each goroutine is doing

vars == <<source, closings, registered, closed, readers, writer, waiting, call>>
locks == <<readers, writer, waiting>>

Idle == [pc |-> "idle"]

\* An OpenConnection whose connection is not registered yet, a request that
\* found its connection, a request using it (with or without a result or LOB
\* stream open on it), and a close with the connections it still has to close.
Activity ==
    [pc : {"opened", "found"}, conn : Conn]
    \cup [pc : {"using"}, conn : Conn, stream : {"none", "open", "ended"}]
    \cup [pc : {"closing"}, todo : SUBSET Conn]
    \cup [pc : {"waiting", "locked"}, conn : Conn, todo : SUBSET Conn]

TypeOK ==
    /\ source \in [Conn -> {"unopened", "open", "closed"}]
    /\ closings \in [Conn -> Nat]
    /\ registered \subseteq Conn
    /\ closed \in [Conn -> BOOLEAN]
    /\ readers \in [Conn -> SUBSET Caller]
    /\ writer \in [Conn -> SUBSET Caller]
    /\ waiting \in [Conn -> SUBSET Caller]
    /\ call \in [Caller -> Activity \cup {Idle}]

Init ==
    /\ source = [k \in Conn |-> "unopened"]
    /\ closings = [k \in Conn |-> 0]
    /\ registered = {}
    /\ closed = [k \in Conn |-> FALSE]
    /\ readers = [k \in Conn |-> {}]
    /\ writer = [k \in Conn |-> {}]
    /\ waiting = [k \in Conn |-> {}]
    /\ call = [p \in Caller |-> Idle]

Becomes(p, a) == call' = [call EXCEPT ![p] = a]

\* Connection.Close of the provider.
CloseConn(k) ==
    /\ source' = [source EXCEPT ![k] = "closed"]
    /\ closings' = [closings EXCEPT ![k] = @ + 1]

(***************************************************************************)
(* OpenConnection: the provider opens first; registering may fail when no  *)
(* identifier can be drawn, and the connection is closed again.            *)
(***************************************************************************)
Open(p, k) ==
    /\ call[p] = Idle /\ source[k] = "unopened"
    /\ source' = [source EXCEPT ![k] = "open"]
    /\ Becomes(p, [pc |-> "opened", conn |-> k])
    /\ UNCHANGED <<closings, registered, closed, locks>>

MutAdd(p) ==
    /\ call[p].pc = "opened"
    /\ \/ registered' = registered \cup {call[p].conn}
       \/ UNCHANGED registered
    /\ Becomes(p, Idle)
    /\ UNCHANGED <<source, closings, closed, locks>>

MutAddTwice(p) ==
    /\ call[p].pc = "opened"
    /\ registered' = registered \cup {call[p].conn}
    /\ \/ UNCHANGED <<source, closings>>
       \/ CloseConn(call[p].conn)
    /\ Becomes(p, Idle)
    /\ UNCHANGED <<closed, locks>>

Add(p) ==
    /\ call[p].pc = "opened"
    /\ \/ /\ registered' = registered \cup {call[p].conn}
          /\ UNCHANGED <<source, closings>>
       \/ /\ CloseConn(call[p].conn)
          /\ UNCHANGED registered
    /\ Becomes(p, Idle)
    /\ UNCHANGED <<closed, locks>>

(***************************************************************************)
(* acquire, in its two steps, and the request that uses the connection.    *)
(* An identifier that is not in the map is answered NotFound at once.      *)
(***************************************************************************)
Find(p, k) ==
    /\ call[p] = Idle
    /\ IF k \in registered THEN Becomes(p, [pc |-> "found", conn |-> k])
                           ELSE UNCHANGED call
    /\ UNCHANGED <<source, closings, registered, closed, locks>>

MutAcquire(p) ==
    LET k == call[p].conn
    IN  /\ call[p].pc = "found"
        /\ writer[k] = {} /\ waiting[k] = {}
        /\ readers' = [readers EXCEPT ![k] = @ \cup {p}]
        /\ Becomes(p, [pc |-> "using", conn |-> k, stream |-> "none"])
        /\ UNCHANGED <<source, closings, registered, closed, writer, waiting>>

Acquire(p) ==
    LET k == call[p].conn
    IN  /\ call[p].pc = "found"
        /\ writer[k] = {} /\ waiting[k] = {}
        /\ \/ /\ closed[k]
              /\ Becomes(p, Idle)                        \* NotFound
              /\ UNCHANGED readers
           \/ /\ ~closed[k]
              /\ readers' = [readers EXCEPT ![k] = @ \cup {p}]
              /\ Becomes(p, [pc |-> "using", conn |-> k, stream |-> "none"])
        /\ UNCHANGED <<source, closings, registered, closed, writer, waiting>>

\* Query and ReadLob open a stream; their deferred calls close it before the
\* connection is released.  Every other request only calls the connection.
OpenStream(p) ==
    /\ call[p].pc = "using" /\ call[p].stream = "none"
    /\ call' = [call EXCEPT ![p].stream = "open"]
    /\ UNCHANGED <<source, closings, registered, closed, locks>>

CloseStream(p) ==
    /\ call[p].pc = "using" /\ call[p].stream = "open"
    /\ call' = [call EXCEPT ![p].stream = "ended"]
    /\ UNCHANGED <<source, closings, registered, closed, locks>>

MutRelease(p) ==
    /\ call[p].pc = "using" /\ call[p].stream # "open"
    /\ call' = [call EXCEPT ![p].stream = "none"]
    /\ UNCHANGED <<source, closings, registered, closed, locks>>

Release(p) ==
    /\ call[p].pc = "using" /\ call[p].stream # "open"
    /\ readers' = [readers EXCEPT ![call[p].conn] = @ \ {p}]
    /\ Becomes(p, Idle)
    /\ UNCHANGED <<source, closings, registered, closed, writer, waiting>>

(***************************************************************************)
(* CloseConnection and Server.Close: remove first, then close one by one.  *)
(***************************************************************************)
Remove(p, k) ==
    /\ call[p] = Idle /\ k \in registered
    /\ registered' = registered \ {k}
    /\ Becomes(p, [pc |-> "closing", todo |-> {k}])
    /\ UNCHANGED <<source, closings, closed, locks>>

RemoveAll(p) ==
    /\ call[p] = Idle
    /\ registered' = {}
    /\ Becomes(p, [pc |-> "closing", todo |-> registered])
    /\ UNCHANGED <<source, closings, closed, locks>>

\* managedConnection.close: ask for the write lock, ...
Lock(p) ==
    /\ call[p].pc = "closing"
    /\ \E k \in call[p].todo :
         /\ waiting' = [waiting EXCEPT ![k] = @ \cup {p}]
         /\ Becomes(p, [pc |-> "waiting", conn |-> k, todo |-> call[p].todo])
    /\ UNCHANGED <<source, closings, registered, closed, readers, writer>>

\* ... get it once no reader is left, ...
Locked(p) ==
    LET k == call[p].conn
    IN  /\ call[p].pc = "waiting"
        /\ readers[k] = {} /\ writer[k] = {}
        /\ writer' = [writer EXCEPT ![k] = {p}]
        /\ waiting' = [waiting EXCEPT ![k] = @ \ {p}]
        /\ call' = [call EXCEPT ![p].pc = "locked"]
        /\ UNCHANGED <<source, closings, registered, closed, readers>>

\* ... and close the connection unless it is closed already.  An error of the
\* provider's Close is kept and does not stop the loop.
Close(p) ==
    LET k == call[p].conn
    IN  /\ call[p].pc = "locked"
        /\ \/ /\ closed[k]
              /\ UNCHANGED <<source, closings, closed>>
           \/ /\ ~closed[k]
              /\ closed' = [closed EXCEPT ![k] = TRUE]
              /\ CloseConn(k)
        /\ writer' = [writer EXCEPT ![k] = {}]
        /\ Becomes(p, [pc |-> "closing", todo |-> call[p].todo \ {k}])
        /\ UNCHANGED <<registered, readers, waiting>>

Closed(p) ==
    /\ call[p].pc = "closing" /\ call[p].todo = {}
    /\ Becomes(p, Idle)
    /\ UNCHANGED <<source, closings, registered, closed, locks>>

(***************************************************************************)
(* Next-state relation.                                                    *)
(***************************************************************************)
Begin(p) ==
    \/ \E k \in Conn : Open(p, k) \/ Find(p, k) \/ Remove(p, k)
    \/ RemoveAll(p)

\* What a goroutine that has begun does next; only some handlers open a
\* stream, and that none has to is left to OpenStream.
Continue(p) ==
    \/ Add(p) \/ Acquire(p) \/ CloseStream(p) \/ Release(p)
    \/ Lock(p) \/ Locked(p) \/ Close(p) \/ Closed(p)

Next == \E p \in Caller : Begin(p) \/ OpenStream(p) \/ Continue(p)

Spec == Init /\ [][Next]_vars

\* A goroutine that can go on goes on: handlers run to their end, and streams
\* of the provider come to an end.
Fairness == \A p \in Caller : WF_vars(Continue(p))

LiveSpec == Spec /\ Fairness

(***************************************************************************)
(* Properties.                                                             *)
(***************************************************************************)
Using(p) == call[p].pc = "using"

\* Open at the provider, and never closed.
Live(k) == source[k] = "open" /\ closings[k] = 0 /\ ~closed[k]

InHand(p) == CASE call[p].pc \in {"closing", "waiting", "locked"} -> call[p].todo
               [] call[p].pc = "opened" -> {call[p].conn}
               [] OTHER -> {}

\* No request works on a connection whose provider side is closed, in
\* particular none that found it in the map before it was removed, and no
\* stream outlives the connection (acquire's second check, the write lock).
UsedOpen == \A p \in Caller : Using(p) => source[call[p].conn] = "open"

\* The provider's Close is called at most once for a connection, however
\* CloseConnection, Server.Close and failed registrations overlap.
ClosedOnce == \A k \in Conn : closings[k] <= 1

\* No connection leaks: one that is open at the provider is in the map, or a
\* goroutine has it in hand to register or to close it.
Accounted ==
    \A k \in Conn : source[k] = "open" =>
        k \in registered \/ \E p \in Caller : k \in InHand(p)

(***************************************************************************)
(* The inductive invariant.                                                *)
(***************************************************************************)
At(k, pc) == {p \in Caller : call[p].pc = pc /\ call[p].conn = k}

\* The locks are held by the goroutines that are past them, and a writer
\* excludes readers and other writers.
LockInv ==
    \A k \in Conn :
        /\ readers[k] = At(k, "using")
        /\ writer[k] = At(k, "locked")
        /\ waiting[k] = At(k, "waiting")
        /\ writer[k] # {} => readers[k] = {}
        /\ \A p, q \in writer[k] : p = q

\* Whoever closes has the connection on its list.
TodoInv ==
    \A p \in Caller : call[p].pc \in {"waiting", "locked"} =>
        call[p].conn \in call[p].todo

\* A connection has one owner: the map or one goroutine.  What is owned is
\* open and was never closed.
OwnerInv ==
    /\ \A k \in registered : Live(k)
    /\ \A p \in Caller : \A k \in InHand(p) : Live(k) /\ k \notin registered
    /\ \A p, q \in Caller : p # q => InHand(p) \cap InHand(q) = {}

\* A goroutine that found a connection finds it usable or marked closed; it
\* was registered, so nobody is about to register it.
FoundInv ==
    \A p, q \in Caller : call[p].pc \in {"found", "using"} =>
        /\ closed[call[p].conn] \/ Live(call[p].conn)
        /\ call[q].pc = "opened" => call[q].conn # call[p].conn

SourceInv ==
    \A k \in Conn :
        /\ source[k] = "unopened" => closings[k] = 0 /\ ~closed[k]
        /\ source[k] = "closed" => closings[k] = 1
        /\ closed[k] => source[k] = "closed"

\* The registry's bookkeeping: locks, owners and marks agree with what the
\* goroutines are doing (add, acquire, close, closeAll).
IndInv ==
    /\ TypeOK /\ LockInv /\ TodoInv /\ OwnerInv /\ FoundInv /\ SourceInv
    /\ UsedOpen /\ Accounted

\* A close returns: it is not starved by requests that keep coming.
CloseReturns == \A p \in Caller : (call[p].pc = "closing") ~> (call[p] = Idle)
=============================================================================
