---------------------------- MODULE HostGateway ----------------------------
(***************************************************************************)
(* Agent sessions of the Host Provider: the Connect handler of the Agent   *)
(* Gateway (gateway/server.go), the registry of durable sessions           *)
(* (registry/memory.go, registry/bolt.go) and the directory of live        *)
(* transport streams (gateway/directory.go).                               *)
(*                                                                         *)
(* One member of Stream is one Connect call and the session it opens (a    *)
(* session identifier is random and used once).  The registry is changed   *)
(* under its own lock or transaction, the directory under another one: the *)
(* handler's steps between them are separate actions, so that handlers of  *)
(* one host meet in every order.  Scans are in HostScan; here they only    *)
(* appear as a reason for a stream to end.                                 *)
(*                                                                         *)
(* Restart is the end of the process: streams and directory are gone, the  *)
(* Bolt registry is opened again.  The clock may be set back at any time:  *)
(* stored times are compared with it, the lease timers are not affected.   *)
(***************************************************************************)
EXTENDS Naturals

CONSTANTS
    Host,             \* host keys: namespace and agent identifier
    Stream,           \* Connect calls
    HostOf,           \* the host a stream's hello names
    None,             \* no stream
    Lease,            \* LeaseDuration
    MaxTime,          \* bound: the clock stops there
    MaxRestarts,      \* bound: restarts of the provider
    MaxSetBacks       \* bound: times the clock is set back

ASSUME GatewayAssumption ==
    /\ HostOf \in [Stream -> Host]
    /\ None \notin Stream
    /\ Lease \in Nat \ {0} /\ MaxTime \in Nat
    /\ MaxRestarts \in Nat /\ MaxSetBacks \in Nat

VARIABLES
    now, restarts, setBacks,
    latest,                            \* history: the latest time shown
    generations, current, session,     \* registry
    bound, byID, done,                 \* directory; done: closed Session.done
    conn, timer,                       \* the Connect handlers
    unclosed     \* history: sessions CloseSession left open since the restart

registry == <<generations, current, session>>
directory == <<bound, byID, done>>
clock == <<now, restarts, setBacks, latest>>
vars == <<clock, registry, directory, conn, timer, unclosed>>

\* Later than every time of a run: DisconnectedAt of a session that is not.
Never == MaxTime + Lease + 1

Time == 0 .. Never

Phase == {"new", "observed", "opened", "replacing", "bound", "serving",
          "renewing", "renewed", "leaving", "unbound", "ended"}

\* AgentSession; generation 0: not opened.
Session == [gen : Nat, connected : Time, lastSeen : Time, expires : Time,
            disconnected : Time]

TypeOK ==
    /\ now \in 0 .. MaxTime /\ latest \in 0 .. MaxTime /\ now <= latest
    /\ restarts \in 0 .. MaxRestarts /\ setBacks \in 0 .. MaxSetBacks
    /\ generations \in [Host -> Nat]
    /\ current \in [Host -> Stream \cup {None}]
    /\ session \in [Stream -> Session]
    /\ bound \in [Host -> Stream \cup {None}]
    /\ byID \subseteq Stream /\ done \subseteq Stream
    /\ conn \in [Stream -> [pc : Phase, at : 0 .. MaxTime,
                            previous : Stream \cup {None}]]
    /\ timer \in [Stream -> Time]
    /\ unclosed \subseteq Stream

NoSession == [gen |-> 0, connected |-> 0, lastSeen |-> 0, expires |-> 0,
              disconnected |-> Never]

Init ==
    /\ now = 0 /\ restarts = 0 /\ setBacks = 0 /\ latest = 0
    /\ generations = [h \in Host |-> 0]
    /\ current = [h \in Host |-> None]
    /\ session = [s \in Stream |-> NoSession]
    /\ bound = [h \in Host |-> None]
    /\ byID = {} /\ done = {}
    /\ conn = [s \in Stream |-> [pc |-> "new", at |-> 0, previous |-> None]]
    /\ timer = [s \in Stream |-> 0]
    /\ unclosed = {}

\* A handler that has returned, its timer stopped.
Returned == [pc |-> "ended", at |-> 0, previous |-> None]

Return(s) ==
    /\ conn' = [conn EXCEPT ![s] = Returned]
    /\ timer' = [timer EXCEPT ![s] = 0]

Goto(s, pc) == conn' = [conn EXCEPT ![s].pc = pc]

(***************************************************************************)
(* Registry.                                                               *)
(***************************************************************************)
ActiveAt(x, at) ==
    /\ x.gen # 0 /\ x.connected <= at /\ at < x.expires
    /\ at < x.disconnected

\* SnapshotActive: the sessions a query is planned for.
Roster == {s \in Stream : current[HostOf[s]] = s /\ ActiveAt(session[s], now)}

MutMarkDisconnected(x, at) == x

markDisconnected(x, at) ==
    IF at < x.disconnected THEN [x EXCEPT !.disconnected = at] ELSE x

\* A session that is opened becomes the current one of its host and the one
\* before is disconnected, unless the window is older than what was seen.
OpenSession(s) ==
    LET h == HostOf[s]
        p == current[h]
        at == conn[s].at
        fresh == [gen |-> generations[h] + 1, connected |-> at, lastSeen |-> at,
                  expires |-> at + Lease, disconnected |-> Never]
    IN  /\ conn[s].pc = "observed"
        /\ \/ /\ p # None => session[p].lastSeen <= at
              /\ generations' = [generations EXCEPT ![h] = @ + 1]
              /\ current' = [current EXCEPT ![h] = s]
              /\ session' = [t \in Stream |->
                    IF t = s THEN fresh
                    ELSE IF t = p THEN markDisconnected(session[t], at)
                    ELSE session[t]]
              /\ Goto(s, "opened") /\ UNCHANGED timer
           \/ Return(s) /\ UNCHANGED registry
        /\ UNCHANGED <<clock, directory, unclosed>>

\* RenewSession accepts the window of s.
Renewable(s) ==
    LET x == session[s]
        at == conn[s].at
    IN  /\ current[HostOf[s]] = s /\ x.disconnected = Never
        /\ x.lastSeen <= at /\ ActiveAt(x, at)
        /\ at + Lease > x.expires

MutRenewSession(s) ==
    /\ conn[s].pc = "renewing"
    /\ \/ /\ Renewable(s)
          /\ session' = [session EXCEPT ![s].lastSeen = conn[s].at,
                                        ![s].expires = conn[s].at + Lease]
          /\ Goto(s, "renewed")
       \/ ~Renewable(s) /\ Goto(s, "serving") /\ UNCHANGED session
    /\ UNCHANGED <<clock, generations, current, directory, timer, unclosed>>

RenewSession(s) ==
    /\ conn[s].pc = "renewing"
    /\ \/ /\ Renewable(s)
          /\ session' = [session EXCEPT ![s].lastSeen = conn[s].at,
                                        ![s].expires = conn[s].at + Lease]
          /\ Goto(s, "renewed")
       \/ Goto(s, "leaving") /\ UNCHANGED session
    /\ UNCHANGED <<clock, generations, current, directory, timer, unclosed>>

\* The last step of the handler, with the time it read after Unbind.  A time
\* before the connection is refused, and the store may fail to write: either
\* is only reported, and the handler returns.
CloseSession(s) ==
    /\ conn[s].pc = "unbound"
    /\ \/ /\ session[s].connected <= conn[s].at
          /\ session' = [session EXCEPT ![s] = markDisconnected(@, conn[s].at)]
          /\ UNCHANGED unclosed
       \/ unclosed' = unclosed \cup {s} /\ UNCHANGED session
    /\ Return(s)
    /\ UNCHANGED <<clock, generations, current, directory>>

(***************************************************************************)
(* Directory.                                                              *)
(***************************************************************************)
\* Bind installs the stream under the lock; the binding it replaces is closed
\* after the lock was released.
Bind(s) ==
    LET h == HostOf[s]
    IN  /\ conn[s].pc = "opened"
        /\ bound' = [bound EXCEPT ![h] = s]
        /\ byID' = (byID \ {bound[h]}) \cup {s}
        /\ conn' = [conn EXCEPT ![s].pc = "replacing", ![s].previous = bound[h]]
        /\ UNCHANGED <<clock, registry, done, timer, unclosed>>

CloseReplaced(s) ==
    /\ conn[s].pc = "replacing"
    /\ done' = done \cup ({conn[s].previous} \ {None})
    /\ conn' = [conn EXCEPT ![s].pc = "bound", ![s].previous = None]
    /\ UNCHANGED <<clock, registry, bound, byID, timer, unclosed>>

MutUnbind(s) ==
    LET h == HostOf[s]
    IN  /\ conn[s].pc = "leaving"
        /\ byID' = byID \ {s, bound[h]}
        /\ bound' = [bound EXCEPT ![h] = None]
        /\ done' = done \cup {s}
        /\ conn' = [conn EXCEPT ![s].pc = "unbound", ![s].at = now]
        /\ UNCHANGED <<clock, registry, timer, unclosed>>

\* Unbind removes only the exact binding.
Unbind(s) ==
    LET h == HostOf[s]
    IN  /\ conn[s].pc = "leaving"
        /\ byID' = byID \ {s}
        /\ bound' = IF bound[h] = s THEN [bound EXCEPT ![h] = None] ELSE bound
        /\ done' = done \cup {s}
        /\ conn' = [conn EXCEPT ![s].pc = "unbound", ![s].at = now]
        /\ UNCHANGED <<clock, registry, timer, unclosed>>

(***************************************************************************)
(* Connect.                                                                *)
(***************************************************************************)
\* hello was received, validated and authorized; the window is read from the
\* clock now and used later.  A hello that is refused changes nothing.
Observe(s) ==
    /\ conn[s].pc = "new"
    /\ conn' = [conn EXCEPT ![s].pc = "observed", ![s].at = now]
    /\ UNCHANGED <<clock, registry, directory, timer, unclosed>>

\* SessionAccepted is sent, unless the binding was closed or the transport
\* fails; the lease timer starts.
Accept(s) ==
    /\ conn[s].pc = "bound"
    /\ \/ /\ s \notin done
          /\ Goto(s, "serving")
          /\ timer' = [timer EXCEPT ![s] = now + Lease]
       \/ Goto(s, "leaving") /\ UNCHANGED timer
    /\ UNCHANGED <<clock, registry, directory, unclosed>>

\* The loop's select: the binding was closed, the lease timer fired, or the
\* stream failed, ended or carried a message the loop refuses.
Superseded(s) ==
    /\ conn[s].pc = "serving" /\ s \in done
    /\ Goto(s, "leaving")
    /\ UNCHANGED <<clock, registry, directory, timer, unclosed>>

LeaseExpired(s) ==
    /\ conn[s].pc = "serving" /\ timer[s] <= now
    /\ Goto(s, "leaving")
    /\ UNCHANGED <<clock, registry, directory, timer, unclosed>>

Disconnect(s) ==
    /\ conn[s].pc = "serving"
    /\ Goto(s, "leaving")
    /\ UNCHANGED <<clock, registry, directory, timer, unclosed>>

\* A heartbeat with an increasing sequence number.
Heartbeat(s) ==
    /\ conn[s].pc = "serving"
    /\ IF bound[HostOf[s]] = s
       THEN conn' = [conn EXCEPT ![s].pc = "renewing", ![s].at = now]
       ELSE Goto(s, "leaving")
    /\ UNCHANGED <<clock, registry, directory, timer, unclosed>>

\* The timer is set again and the heartbeat acknowledged.
Acknowledge(s) ==
    /\ conn[s].pc = "renewed"
    /\ timer' = [timer EXCEPT ![s] = now + Lease]
    /\ \/ s \notin done /\ Goto(s, "serving")
       \/ Goto(s, "leaving")
    /\ UNCHANGED <<clock, registry, directory, unclosed>>

(***************************************************************************)
(* Time, and restarts of the provider.                                     *)
(***************************************************************************)
Later(x, y) == IF x < y THEN y ELSE x

Tick ==
    /\ now < MaxTime
    /\ now' = now + 1
    /\ latest' = Later(latest, now')
    /\ UNCHANGED <<restarts, setBacks, registry, directory, conn, timer, unclosed>>

\* The clock is set back; the lease timers run on.
SetBack ==
    /\ setBacks < MaxSetBacks
    /\ setBacks' = setBacks + 1
    /\ \E d \in 1 .. now :
         /\ now' = now - d
         /\ timer' = [s \in Stream |-> IF timer[s] < d THEN 0 ELSE timer[s] - d]
    /\ UNCHANGED <<restarts, latest, registry, directory, conn, unclosed>>

\* openBolt marks the sessions that were current disconnected.
Restart ==
    /\ restarts < MaxRestarts
    /\ restarts' = restarts + 1
    /\ session' = [s \in Stream |->
            IF current[HostOf[s]] = s
            THEN markDisconnected(session[s], Later(now, session[s].lastSeen))
            ELSE session[s]]
    /\ bound' = [h \in Host |-> None]
    /\ byID' = {} /\ done' = {}
    /\ conn' = [s \in Stream |->
            IF conn[s].pc = "new" THEN conn[s] ELSE Returned]
    /\ timer' = [s \in Stream |-> 0]
    /\ unclosed' = {}
    /\ UNCHANGED <<now, setBacks, latest, generations, current>>

(***************************************************************************)
(* Next-state relation.                                                    *)
(***************************************************************************)
Proceed(s) ==
    \/ OpenSession(s) \/ Bind(s) \/ CloseReplaced(s) \/ Accept(s)
    \/ Superseded(s) \/ LeaseExpired(s) \/ RenewSession(s) \/ Acknowledge(s)
    \/ Unbind(s) \/ CloseSession(s)

Next ==
    \/ \E s \in Stream : Observe(s) \/ Heartbeat(s) \/ Disconnect(s) \/ Proceed(s)
    \/ Tick
    \/ SetBack
    \/ Restart

Spec == Init /\ [][Next]_vars

\* A handler goes on when it can, and an agent whose stream is served sends
\* heartbeats (or its stream fails).
Fairness == \A s \in Stream : WF_vars(Proceed(s)) /\ WF_vars(Heartbeat(s))

LiveSpec == Spec /\ Fairness

(***************************************************************************)
(* Properties.                                                             *)
(***************************************************************************)
\* Streams whose handler is between Bind and Unbind.
AttachedPhase == {"replacing", "bound", "serving", "renewing", "renewed", "leaving"}

Attached(s) == conn[s].pc \in AttachedPhase

\* A session supersedes the older ones of its host for good: only the newest
\* one, which has the host's generation, can be connected, so that a roster
\* has at most one session per host; a late close or renewal of a replaced
\* stream changes nothing of that (OpenSession, RenewSession, CloseSession).
OnlyNewestConnected ==
    \A s \in Stream : session[s].gen # 0 =>
        IF current[HostOf[s]] = s
        THEN session[s].gen = generations[HostOf[s]]
        ELSE /\ session[s].disconnected # Never
             /\ session[s].gen < generations[HostOf[s]]

\* The directory is exact: its two maps hold the same streams, each is still
\* attached, and an attached stream that is missing was replaced, and is told
\* or about to be told; no stream ever removes its replacement (Bind, Unbind).
DirectoryExact ==
    /\ byID = {bound[h] : h \in Host} \ {None}
    /\ \A h \in Host : bound[h] # None => HostOf[bound[h]] = h /\ Attached(bound[h])
    /\ \A s \in Stream : Attached(s) /\ bound[HostOf[s]] # s =>
         s \in done \/ \E t \in Stream : conn[t].previous = s

\* A query is planned for a session whose stream has ended in two cases only:
\* its close was refused or could not be written, and the provider was not
\* restarted since; or the clock shows a time before the end that was
\* recorded, a time it has shown already.  The first lasts until the lease
\* expires, the second until the clock comes to that time (CloseSession,
\* initialize, SnapshotActive).
EndedUnlisted ==
    \A s \in Roster : conn[s].pc = "ended" =>
        s \in unclosed \/ (now < session[s].disconnected /\ session[s].disconnected <= latest)

\* Why these hold.  A host's current session is one of that host, and a stream
\* has no session before OpenSession:
Unopened ==
    /\ \A h \in Host : current[h] # None => HostOf[current[h]] = h
    /\ \A s \in Stream : conn[s].pc \in {"new", "observed"} =>
         session[s] = NoSession /\ current[HostOf[s]] # s

\* only a handler inside Bind has a binding left to close:
PreviousKept ==
    \A s \in Stream : conn[s].pc # "replacing" => conn[s].previous = None

\* and no time that was read or recorded is later than every time shown, so
\* that a recorded end is past unless the clock was set back, and the end of a
\* session that has ended is recorded or was left open by CloseSession.
TimesPast ==
    \A s \in Stream :
        /\ conn[s].at <= latest /\ session[s].lastSeen <= latest
        /\ session[s].disconnected \in 0 .. latest \cup {Never}
        /\ conn[s].pc = "ended" /\ session[s].gen # 0 =>
             s \in unclosed \/ session[s].disconnected # Never

\* The inductive invariant of the proofs: what the registry, the directory and
\* the handlers' program counters have to do with each other.
IndInv ==
    /\ TypeOK /\ OnlyNewestConnected /\ Unopened
    /\ DirectoryExact /\ PreviousKept
    /\ TimesPast

\* A binding the registry does not consider current is given up: its next
\* heartbeat is refused.  Scans for the host are refused meanwhile.
StaleBindingEnds ==
    \A s \in Stream :
        (bound[HostOf[s]] = s /\ current[HostOf[s]] # s) ~> (bound[HostOf[s]] # s)
=============================================================================
