------------------------- MODULE HostGatewayProofs -------------------------
(***************************************************************************)
(* Proofs about HostGateway: for every set of hosts and streams, every     *)
(* lease, any number of restarts and a clock that is set back at any time, *)
(* a superseded session stays superseded, the directory is exact, and a    *)
(* dead session is offered to queries only in the cases EndedUnlisted      *)
(* names.                                                                  *)
(***************************************************************************)
EXTENDS HostGateway, TLAPS

USE GatewayAssumption

\* Facts about the record fields that every later step uses.
LEMMA Times ==
    /\ Never \in Nat /\ MaxTime < Never
    /\ 0 .. MaxTime \subseteq Time
    /\ \A at \in 0 .. MaxTime : at + Lease \in Time /\ at + Lease < Never
BY DEF Never, Time

LEMMA SessionFields ==
    ASSUME NEW x \in Session
    PROVE  /\ x.gen \in Nat /\ x.connected \in Time /\ x.lastSeen \in Time
           /\ x.expires \in Time /\ x.disconnected \in Time
BY DEF Session

\* Marking a session disconnected touches nothing else of it, never makes it
\* connected again, and leaves the earlier of the two times.
LEMMA Marked ==
    ASSUME NEW x \in Session, NEW at \in Time
    PROVE  LET y == markDisconnected(x, at)
           IN  /\ y \in Session
               /\ y.gen = x.gen /\ y.connected = x.connected
               /\ y.lastSeen = x.lastSeen /\ y.expires = x.expires
               /\ y.disconnected \in {x.disconnected, at}
               /\ y.disconnected <= at /\ y.disconnected <= x.disconnected
BY Times DEF markDisconnected, Session, Time

LEMMA InitType == Init => TypeOK
<1>1. NoSession \in Session
  BY Times DEF NoSession, Session, Time
<1>2. 0 \in Time
  BY Times DEF Time
<1> QED
  BY <1>1, <1>2 DEF Init, TypeOK, Phase

LEMMA TypeOpen ==
    ASSUME TypeOK, NEW s \in Stream, OpenSession(s)
    PROVE  TypeOK'
<1> DEFINE h == HostOf[s]
           at == conn[s].at
           fresh == [gen |-> generations[h] + 1, connected |-> at, lastSeen |-> at,
                     expires |-> at + Lease, disconnected |-> Never]
<1>1. at \in 0 .. MaxTime /\ h \in Host
  BY DEF TypeOK
<1>2. fresh \in Session
  <2>1. generations[h] + 1 \in Nat
    BY <1>1 DEF TypeOK
  <2>2. at \in Time /\ at + Lease \in Time /\ Never \in Time
    BY <1>1, Times DEF Time
  <2> HIDE DEF h, at
  <2> QED BY <2>1, <2>2 DEF Session
<1>3. session' \in [Stream -> Session]
  <2>1. \A t \in Stream : markDisconnected(session[t], at) \in Session
    BY <1>1, Marked, Times DEF TypeOK
  <2> QED BY <1>2, <2>1 DEF OpenSession, registry, TypeOK
<1>4. generations' \in [Host -> Nat] /\ current' \in [Host -> Stream \cup {None}]
  BY <1>1 DEF OpenSession, registry, TypeOK
<1>5. conn' \in [Stream -> [pc : Phase, at : 0 .. MaxTime, previous : Stream \cup {None}]]
  BY DEF OpenSession, TypeOK, Goto, Return, Returned, Phase
<1>6. timer' \in [Stream -> Time]
  BY Times DEF OpenSession, TypeOK, Return, Time
<1> QED
  BY <1>3, <1>4, <1>5, <1>6 DEF OpenSession, TypeOK, clock, directory

LEMMA TypeSession ==
    ASSUME TypeOK, NEW s \in Stream, RenewSession(s) \/ CloseSession(s)
    PROVE  TypeOK'
<1>1. conn[s].at \in 0 .. MaxTime /\ session[s] \in Session
  BY DEF TypeOK
<1>2. session' \in [Stream -> Session]
  <2>1. CASE RenewSession(s)
    BY <2>1, <1>1, Times DEF RenewSession, TypeOK, Session, Time
  <2>2. CASE CloseSession(s)
    <3>1. markDisconnected(session[s], conn[s].at) \in Session
      BY <1>1, Times, Marked
    <3> QED BY <2>2, <3>1 DEF CloseSession, TypeOK
  <2> QED BY <2>1, <2>2
<1>3. conn' \in [Stream -> [pc : Phase, at : 0 .. MaxTime, previous : Stream \cup {None}]]
  BY DEF RenewSession, CloseSession, TypeOK, Goto, Return, Returned, Phase
<1>4. timer' \in [Stream -> Time]
  BY Times DEF RenewSession, CloseSession, TypeOK, Return, Time
<1> QED
  BY <1>2, <1>3, <1>4 DEF RenewSession, CloseSession, TypeOK, clock, directory

LEMMA TypeDirectory ==
    ASSUME TypeOK, NEW s \in Stream, Bind(s) \/ CloseReplaced(s) \/ Unbind(s)
    PROVE  TypeOK'
<1>1. bound' \in [Host -> Stream \cup {None}] /\ byID' \subseteq Stream /\ done' \subseteq Stream
  BY DEF Bind, CloseReplaced, Unbind, TypeOK
<1>2. conn' \in [Stream -> [pc : Phase, at : 0 .. MaxTime, previous : Stream \cup {None}]]
  BY DEF Bind, CloseReplaced, Unbind, TypeOK, Phase
<1> QED
  BY <1>1, <1>2 DEF Bind, CloseReplaced, Unbind, TypeOK, clock, registry

LEMMA TypeConnect ==
    ASSUME TypeOK, NEW s \in Stream,
           Observe(s) \/ Accept(s) \/ Superseded(s) \/ LeaseExpired(s)
             \/ Disconnect(s) \/ Heartbeat(s) \/ Acknowledge(s)
    PROVE  TypeOK'
<1>1. timer' \in [Stream -> Time]
  BY Times DEF Observe, Accept, Superseded, LeaseExpired, Disconnect, Heartbeat,
     Acknowledge, TypeOK
<1>2. conn' \in [Stream -> [pc : Phase, at : 0 .. MaxTime, previous : Stream \cup {None}]]
  BY DEF Observe, Accept, Superseded, LeaseExpired, Disconnect, Heartbeat,
     Acknowledge, TypeOK, Goto, Phase
<1> QED
  BY <1>1, <1>2 DEF Observe, Accept, Superseded, LeaseExpired, Disconnect, Heartbeat,
     Acknowledge, TypeOK, clock, registry, directory

LEMMA TypeRestart ==
    ASSUME TypeOK, Restart
    PROVE  TypeOK'
<1>1. now' = now /\ now \in 0 .. MaxTime /\ restarts' \in 0 .. MaxRestarts
  BY DEF Restart, TypeOK
<1>2. session' \in [Stream -> Session]
  <2>1. \A s \in Stream : Later(now, session[s].lastSeen) \in Time
    BY <1>1, Times, SessionFields DEF TypeOK, Later
  <2>2. \A s \in Stream :
          markDisconnected(session[s], Later(now, session[s].lastSeen)) \in Session
    BY <2>1, Marked DEF TypeOK
  <2> QED BY <2>2 DEF Restart, TypeOK
<1>3. conn' \in [Stream -> [pc : Phase, at : 0 .. MaxTime, previous : Stream \cup {None}]]
  BY DEF Restart, TypeOK, Returned, Phase
<1> QED
  BY <1>1, <1>2, <1>3, Times DEF Restart, TypeOK, Time

LEMMA TypeSetBack ==
    ASSUME TypeOK, SetBack
    PROVE  TypeOK'
<1>1. PICK d \in 1 .. now :
         /\ now' = now - d
         /\ timer' = [s \in Stream |-> IF timer[s] < d THEN 0 ELSE timer[s] - d]
  BY DEF SetBack
<1>2. now' \in 0 .. MaxTime /\ now' <= latest /\ setBacks' \in 0 .. MaxSetBacks
  BY <1>1 DEF SetBack, TypeOK
<1>3. \A s \in Stream : (IF timer[s] < d THEN 0 ELSE timer[s] - d) \in Time
  BY <1>1, Times DEF TypeOK, Time
<1>4. timer' \in [Stream -> Time]
  BY <1>1, <1>3
<1> QED
  BY <1>2, <1>4 DEF SetBack, TypeOK, registry, directory

LEMMA TypeStep == TypeOK /\ [Next]_vars => TypeOK'
<1> SUFFICES ASSUME TypeOK, [Next]_vars PROVE TypeOK'
  OBVIOUS
<1>1. CASE Tick
  BY <1>1 DEF Tick, TypeOK, Later, registry, directory
<1>2. CASE UNCHANGED vars
  BY <1>2 DEF vars, TypeOK, clock, registry, directory
<1> QED
  BY <1>1, <1>2, TypeOpen, TypeSession, TypeDirectory, TypeConnect, TypeSetBack,
     TypeRestart
  DEF Next, Proceed

(***************************************************************************)
(* Superseded sessions.                                                    *)
(***************************************************************************)
Registered == OnlyNewestConnected /\ Unopened

LEMMA RegisteredOpen ==
    ASSUME TypeOK, Registered, NEW s \in Stream, OpenSession(s)
    PROVE  Registered'
<1> DEFINE h == HostOf[s]
           p == current[h]
           at == conn[s].at
<1>1. at \in 0 .. MaxTime /\ h \in Host /\ session[s] = NoSession /\ p # s
  BY DEF TypeOK, Registered, Unopened, OpenSession
<1>2. CASE UNCHANGED registry /\ Return(s)
  BY <1>2, <1>1 DEF Registered, OnlyNewestConnected, Unopened, registry, Return, Returned,
     TypeOK
<1>3. CASE /\ generations' = [generations EXCEPT ![h] = @ + 1]
           /\ current' = [current EXCEPT ![h] = s]
           /\ session' = [t \in Stream |->
                IF t = s THEN [gen |-> generations[h] + 1, connected |-> at, lastSeen |-> at,
                               expires |-> at + Lease, disconnected |-> Never]
                ELSE IF t = p THEN markDisconnected(session[t], at)
                ELSE session[t]]
           /\ Goto(s, "opened")
  <2>1. generations'[h] = generations[h] + 1 /\ current'[h] = s
    BY <1>3, <1>1 DEF TypeOK
  <2>2. \A g \in Host \ {h} : generations'[g] = generations[g] /\ current'[g] = current[g]
    BY <1>3 DEF TypeOK
  <2>3. OnlyNewestConnected'
    <3> SUFFICES ASSUME NEW t \in Stream, session'[t].gen # 0
                 PROVE  IF current'[HostOf[t]] = t
                        THEN session'[t].gen = generations'[HostOf[t]]
                        ELSE /\ session'[t].disconnected # Never
                             /\ session'[t].gen < generations'[HostOf[t]]
      BY DEF OnlyNewestConnected
    <3>1. CASE t = s
      BY <3>1, <1>3, <2>1 DEF TypeOK
    <3>2. CASE t # s /\ t = p
      <4>1. session'[t] = markDisconnected(session[t], at)
        BY <3>2, <1>3
      <4>2. /\ session'[t].gen = session[t].gen
            /\ session'[t].disconnected <= at
        <5>1. session[t] \in Session /\ at \in Time
          BY <1>1, Times DEF TypeOK
        <5> HIDE DEF at
        <5> QED BY <4>1, <5>1, Marked
      <4>3. session'[t].disconnected # Never
        BY <4>2, <1>1, Times
      <4>4. HostOf[t] = h
        BY <3>2, <1>1 DEF Registered, Unopened
      <4>5. session[t].gen = generations[h] /\ generations[h] \in Nat
        BY <4>2, <4>4, <3>2, <1>1 DEF Registered, OnlyNewestConnected, TypeOK
      <4> QED BY <4>5, <4>2, <4>3, <4>4, <2>1, <3>2
    <3>3. CASE t # s /\ t # p
      <4>1. session'[t] = session[t]
        BY <3>3, <1>3
      <4>2. CASE HostOf[t] = h
        BY <4>1, <4>2, <3>3, <1>1, <2>1, SessionFields
        DEF Registered, OnlyNewestConnected, TypeOK
      <4>3. CASE HostOf[t] # h
        <5>1. HostOf[t] \in Host \ {h}
          BY <4>3
        <5> QED
          BY <5>1, <4>1, <2>2 DEF Registered, OnlyNewestConnected
      <4> QED BY <4>2, <4>3
    <3> QED BY <3>1, <3>2, <3>3
  <2>4. Unopened'
    <3>1. ASSUME NEW g \in Host, current'[g] # None
          PROVE  HostOf[current'[g]] = g
      BY <3>1, <2>1, <2>2 DEF Registered, Unopened
    <3>2. ASSUME NEW t \in Stream, conn'[t].pc \in {"new", "observed"}
          PROVE  session'[t] = NoSession /\ current'[HostOf[t]] # t
      <4>1. t # s /\ conn'[t].pc = conn[t].pc
        BY <3>2, <1>3 DEF Goto, TypeOK
      <4>2. session[t] = NoSession /\ current[HostOf[t]] # t
        BY <4>1, <3>2 DEF Registered, Unopened
      <4>3. t # p
        BY <4>2, <1>1 DEF Registered, Unopened
      <4>4. current'[HostOf[t]] # t
        BY <4>1, <4>2, <2>1, <2>2
      <4>5. session'[t] = session[t]
        BY <4>1, <4>3, <1>3
      <4> QED BY <4>2, <4>4, <4>5
    <3> QED BY <3>1, <3>2 DEF Unopened
  <2> QED BY <2>3, <2>4 DEF Registered
<1> QED
  BY <1>2, <1>3 DEF OpenSession

\* A step that changes a session only as RenewSession, CloseSession and the
\* opening of the registry do, and no more than the fields named here.
LEMMA RegisteredKept ==
    ASSUME TypeOK, Registered,
           UNCHANGED <<generations, current>>,
           \A s \in Stream :
              /\ session'[s].gen = session[s].gen
              /\ session[s].disconnected # Never => session'[s].disconnected # Never
              /\ conn'[s].pc \in {"new", "observed"} =>
                   conn[s].pc \in {"new", "observed"} /\ session'[s] = session[s]
    PROVE  Registered'
BY DEF Registered, OnlyNewestConnected, Unopened

LEMMA RegisteredStep ==
    ASSUME TypeOK, Registered, [Next]_vars
    PROVE  Registered'
<1>1. ASSUME NEW s \in Stream, RenewSession(s)
      PROVE  Registered'
  <2>1. /\ UNCHANGED <<generations, current>>
        /\ \A t \in Stream :
              /\ session'[t].gen = session[t].gen
              /\ session'[t].disconnected = session[t].disconnected
              /\ t # s => session'[t] = session[t]
    BY <1>1 DEF RenewSession, TypeOK, Session
  <2>2. \A t \in Stream : conn'[t].pc \in {"new", "observed"} =>
           t # s /\ conn[t].pc \in {"new", "observed"}
    BY <1>1 DEF RenewSession, TypeOK, Goto
  <2> QED BY <2>1, <2>2, RegisteredKept
<1>2. ASSUME NEW s \in Stream, CloseSession(s)
      PROVE  Registered'
  <2>1. UNCHANGED <<generations, current>> /\ \A t \in Stream \ {s} : session'[t] = session[t]
    BY <1>2 DEF CloseSession, TypeOK
  <2>2. session'[s] \in {session[s], markDisconnected(session[s], conn[s].at)}
    BY <1>2 DEF CloseSession, TypeOK
  <2>3. /\ session'[s].gen = session[s].gen
        /\ session[s].disconnected # Never => session'[s].disconnected # Never
    <3>1. conn[s].at \in Time /\ conn[s].at < Never /\ session[s] \in Session
      BY Times DEF TypeOK, Time
    <3>2. LET y == markDisconnected(session[s], conn[s].at)
          IN  y.gen = session[s].gen /\ y.disconnected \in {session[s].disconnected, conn[s].at}
      BY <3>1, Marked
    <3>3. conn[s].at # Never
      BY <3>1, Times DEF Time
    <3>4. CASE session'[s] = session[s]
      BY <3>4
    <3>5. CASE session'[s] = markDisconnected(session[s], conn[s].at)
      BY <3>5, <3>2, <3>3
    <3> QED BY <2>2, <3>4, <3>5
  <2>4. \A t \in Stream : conn'[t].pc \in {"new", "observed"} =>
           t # s /\ conn[t].pc \in {"new", "observed"}
    BY <1>2 DEF CloseSession, TypeOK, Return, Returned
  <2> QED BY <2>1, <2>3, <2>4, RegisteredKept
<1>3. ASSUME Restart
      PROVE  Registered'
  <2>1. ASSUME NEW t \in Stream
        PROVE  /\ session'[t].gen = session[t].gen
               /\ session[t].disconnected # Never => session'[t].disconnected # Never
               /\ conn'[t].pc \in {"new", "observed"} =>
                    conn[t].pc \in {"new", "observed"} /\ session'[t] = session[t]
    <3>1. Later(now, session[t].lastSeen) \in Time
      BY <1>3, TypeRestart, Times, SessionFields DEF TypeOK, Later
    <3>2. session'[t] \in {session[t], markDisconnected(session[t], Later(now, session[t].lastSeen))}
      BY <1>3 DEF Restart
    <3>3. LET y == markDisconnected(session[t], Later(now, session[t].lastSeen))
          IN  /\ y \in Session /\ y.gen = session[t].gen
              /\ y.disconnected <= session[t].disconnected
      BY <3>1, Marked DEF TypeOK
    <3>4. /\ session'[t].gen = session[t].gen
          /\ session[t].disconnected # Never => session'[t].disconnected # Never
      <4>1. CASE session'[t] = session[t]
        BY <4>1
      <4>2. CASE session'[t] = markDisconnected(session[t], Later(now, session[t].lastSeen))
        <5>1. /\ session'[t].gen = session[t].gen
              /\ session'[t].disconnected <= session[t].disconnected
              /\ session'[t].disconnected \in Time /\ session[t].disconnected \in Time
          BY <4>2, <3>3, SessionFields DEF TypeOK
        <5> QED BY <5>1, Times DEF Time
      <4> QED BY <3>2, <4>1, <4>2
    <3>5. conn'[t].pc \in {"new", "observed"} =>
            conn[t].pc = "new" /\ session'[t] = session[t]
      BY <1>3 DEF Restart, Returned, Registered, Unopened
    <3> QED BY <3>4, <3>5
  <2> QED BY <2>1, <1>3, RegisteredKept DEF Restart
<1>4. ASSUME NEW s \in Stream,
             Bind(s) \/ CloseReplaced(s) \/ Unbind(s) \/ Observe(s) \/ Accept(s)
               \/ Superseded(s) \/ LeaseExpired(s) \/ Disconnect(s) \/ Heartbeat(s)
               \/ Acknowledge(s)
      PROVE  Registered'
  <2>1. UNCHANGED registry
    BY <1>4 DEF Bind, CloseReplaced, Unbind, Observe, Accept, Superseded, LeaseExpired,
       Disconnect, Heartbeat, Acknowledge
  <2>2. \A t \in Stream : conn'[t].pc \in {"new", "observed"} =>
           conn[t].pc \in {"new", "observed"}
    BY <1>4 DEF Bind, CloseReplaced, Unbind, Observe, Accept, Superseded, LeaseExpired,
       Disconnect, Heartbeat, Acknowledge, TypeOK, Goto
  <2> QED BY <2>1, <2>2, RegisteredKept DEF registry
<1>5. ASSUME Tick \/ SetBack \/ UNCHANGED vars
      PROVE  Registered'
  BY <1>5 DEF Tick, SetBack, vars, registry, Registered, OnlyNewestConnected, Unopened
<1> QED
  BY <1>1, <1>2, <1>3, <1>4, <1>5, RegisteredOpen DEF Next, Proceed

(***************************************************************************)
(* The directory.                                                          *)
(***************************************************************************)
Exact == DirectoryExact /\ PreviousKept

LEMMA ExactBind ==
    ASSUME TypeOK, Exact, NEW s \in Stream, Bind(s)
    PROVE  Exact'
<1> DEFINE h == HostOf[s]
<1>1. h \in Host /\ conn[s].pc = "opened" /\ ~Attached(s)
  BY DEF Bind, Attached, AttachedPhase
<1>2. /\ bound'[h] = s /\ \A g \in Host \ {h} : bound'[g] = bound[g]
      /\ byID' = (byID \ {bound[h]}) \cup {s} /\ done' = done
  BY <1>1 DEF Bind, TypeOK
<1>3. /\ conn'[s].pc = "replacing" /\ conn'[s].previous = bound[h]
      /\ \A t \in Stream \ {s} : conn'[t] = conn[t]
  BY DEF Bind, TypeOK
<1>4. conn[s].previous = None
  BY <1>1 DEF Exact, PreviousKept
<1>5. \A g \in Host : bound[g] # s
  BY <1>1 DEF Exact, DirectoryExact
<1> HIDE DEF h
<1>6. byID' = {bound'[g] : g \in Host} \ {None}
  <2>1. byID = {bound[g] : g \in Host} \ {None}
    BY DEF Exact, DirectoryExact
  <2>2. \A g \in Host \ {h} : bound[g] = bound[h] => bound[g] = None
    BY <1>1 DEF Exact, DirectoryExact, h
  <2> QED BY <2>1, <2>2, <1>1, <1>2
<1>7. ASSUME NEW g \in Host, bound'[g] # None
      PROVE  HostOf[bound'[g]] = g /\ conn'[bound'[g]].pc \in AttachedPhase
  <2>1. CASE g = h
    BY <2>1, <1>2, <1>3 DEF AttachedPhase, h
  <2>2. CASE g # h
    <3>1. bound'[g] = bound[g] /\ bound[g] # s /\ bound[g] \in Stream
      BY <2>2, <1>2, <1>5, <1>7 DEF TypeOK
    <3> QED
      BY <3>1, <1>3, <1>7 DEF Exact, DirectoryExact, Attached
  <2> QED BY <2>1, <2>2
<1>8. ASSUME NEW t \in Stream, conn'[t].pc \in AttachedPhase, bound'[HostOf[t]] # t
      PROVE  t \in done' \/ \E u \in Stream : conn'[u].previous = t
  <2>1. t # s
    BY <1>8, <1>2 DEF h
  <2>2. Attached(t)
    BY <2>1, <1>3, <1>8 DEF Attached
  <2>3. CASE bound[HostOf[t]] = t
    <3>1. HostOf[t] = h
      BY <2>3, <1>2, <1>8
    <3> QED BY <3>1, <2>3, <1>3
  <2>4. CASE bound[HostOf[t]] # t
    <3>1. t \in done \/ \E u \in Stream : conn[u].previous = t
      BY <2>2, <2>4 DEF Exact, DirectoryExact
    <3>2. t # None
      OBVIOUS
    <3> QED BY <3>1, <3>2, <1>2, <1>3, <1>4
  <2> QED BY <2>3, <2>4
<1>9. PreviousKept'
  BY <1>3 DEF Exact, PreviousKept
<1> QED
  BY <1>6, <1>7, <1>8, <1>9 DEF Exact, DirectoryExact, Attached

LEMMA ExactUnbind ==
    ASSUME TypeOK, Exact, NEW s \in Stream, Unbind(s)
    PROVE  Exact'
<1> DEFINE h == HostOf[s]
<1>1. h \in Host /\ conn[s].pc = "leaving" /\ conn[s].previous = None
  BY DEF Unbind, Exact, PreviousKept
<1>2. /\ byID' = byID \ {s} /\ done' = done \cup {s}
      /\ bound'[h] = IF bound[h] = s THEN None ELSE bound[h]
      /\ \A g \in Host \ {h} : bound'[g] = bound[g]
  BY <1>1 DEF Unbind, TypeOK
<1>3. /\ conn'[s].pc = "unbound" /\ conn'[s].previous = None
      /\ \A t \in Stream \ {s} : conn'[t] = conn[t]
  BY <1>1 DEF Unbind, TypeOK
<1>4. \A g \in Host \ {h} : bound[g] # s
  BY DEF Exact, DirectoryExact
<1> HIDE DEF h
<1>5. \A g \in Host : bound'[g] = IF bound[g] = s THEN None ELSE bound[g]
  BY <1>2, <1>4
<1>6. byID' = {bound'[g] : g \in Host} \ {None}
  <2>1. byID = {bound[g] : g \in Host} \ {None}
    BY DEF Exact, DirectoryExact
  <2> QED BY <2>1, <1>2, <1>5
<1>7. ASSUME NEW g \in Host, bound'[g] # None
      PROVE  HostOf[bound'[g]] = g /\ conn'[bound'[g]].pc \in AttachedPhase
  <2>1. bound'[g] = bound[g] /\ bound[g] # s /\ bound[g] \in Stream
    BY <1>5, <1>7 DEF TypeOK
  <2> QED BY <2>1, <1>3, <1>7 DEF Exact, DirectoryExact, Attached
<1>8. ASSUME NEW t \in Stream, conn'[t].pc \in AttachedPhase, bound'[HostOf[t]] # t
      PROVE  t \in done' \/ \E u \in Stream : conn'[u].previous = t
  <2>1. t # s /\ Attached(t)
    BY <1>8, <1>3 DEF Attached, AttachedPhase
  <2>2. bound[HostOf[t]] # t
    BY <2>1, <1>5, <1>8
  <2>3. t \in done \/ \E u \in Stream : conn[u].previous = t
    BY <2>1, <2>2 DEF Exact, DirectoryExact
  <2> QED BY <2>3, <1>1, <1>2, <1>3
<1>9. PreviousKept'
  BY <1>3 DEF Exact, PreviousKept
<1> QED
  BY <1>6, <1>7, <1>8, <1>9 DEF Exact, DirectoryExact, Attached

\* A step that leaves the directory and the bindings to close alone and lets
\* no handler pass Bind or Unbind.
LEMMA ExactKept ==
    ASSUME TypeOK, Exact, UNCHANGED directory,
           \A t \in Stream :
              /\ conn'[t].previous = conn[t].previous
              /\ conn'[t].pc \in AttachedPhase <=> conn[t].pc \in AttachedPhase
              /\ conn'[t].pc = "replacing" <=> conn[t].pc = "replacing"
    PROVE  Exact'
<1>1. PreviousKept'
  BY DEF Exact, PreviousKept
<1>2. \A h \in Host : bound[h] # None => bound[h] \in Stream
  BY DEF TypeOK
<1> QED
  BY <1>1, <1>2 DEF Exact, DirectoryExact, Attached, directory

LEMMA ExactStep ==
    ASSUME TypeOK, Exact, [Next]_vars
    PROVE  Exact'
<1>1. ASSUME NEW s \in Stream, CloseReplaced(s)
      PROVE  Exact'
  <2>1. /\ UNCHANGED <<bound, byID>> /\ done \cup ({conn[s].previous} \ {None}) = done'
        /\ conn[s].pc = "replacing" /\ conn'[s].pc = "bound" /\ conn'[s].previous = None
        /\ \A t \in Stream \ {s} : conn'[t] = conn[t]
    BY <1>1 DEF CloseReplaced, TypeOK
  <2>2. PreviousKept'
    BY <2>1 DEF Exact, PreviousKept
  <2>3. \A t \in Stream : conn'[t].pc \in AttachedPhase <=> conn[t].pc \in AttachedPhase
    BY <2>1 DEF AttachedPhase
  <2>4. \A h \in Host : bound[h] # None => bound[h] \in Stream
    BY DEF TypeOK
  <2>5. \A t \in Stream : (t \in done \/ \E u \in Stream : conn[u].previous = t) =>
           (t \in done' \/ \E u \in Stream : conn'[u].previous = t)
    BY <2>1
  <2> QED BY <2>1, <2>2, <2>3, <2>4, <2>5 DEF Exact, DirectoryExact, Attached
<1>2. ASSUME NEW s \in Stream,
             OpenSession(s) \/ RenewSession(s) \/ CloseSession(s) \/ Observe(s)
               \/ Accept(s) \/ Superseded(s) \/ LeaseExpired(s) \/ Disconnect(s)
               \/ Heartbeat(s) \/ Acknowledge(s)
      PROVE  Exact'
  <2>1. UNCHANGED directory
    BY <1>2 DEF OpenSession, RenewSession, CloseSession, Observe, Accept, Superseded,
       LeaseExpired, Disconnect, Heartbeat, Acknowledge
  <2>2. \A t \in Stream \ {s} : conn'[t] = conn[t]
    BY <1>2 DEF OpenSession, RenewSession, CloseSession, Observe, Accept, Superseded,
       LeaseExpired, Disconnect, Heartbeat, Acknowledge, TypeOK, Goto, Return
  <2>3. conn[s].pc # "replacing"
    BY <1>2 DEF OpenSession, RenewSession, CloseSession, Observe, Accept, Superseded,
       LeaseExpired, Disconnect, Heartbeat, Acknowledge
  <2>4. /\ conn'[s].previous \in {conn[s].previous, None} /\ conn'[s].pc # "replacing"
        /\ conn'[s].pc \in AttachedPhase <=> conn[s].pc \in AttachedPhase
    <3>1. CASE OpenSession(s) \/ CloseSession(s)
      BY <3>1 DEF OpenSession, CloseSession, TypeOK, Goto, Return, Returned, AttachedPhase
    <3>2. CASE RenewSession(s) \/ Observe(s) \/ Accept(s) \/ Superseded(s)
      BY <3>2 DEF RenewSession, Observe, Accept, Superseded, TypeOK, Goto, AttachedPhase
    <3>3. CASE LeaseExpired(s) \/ Disconnect(s) \/ Heartbeat(s) \/ Acknowledge(s)
      BY <3>3 DEF LeaseExpired, Disconnect, Heartbeat, Acknowledge, TypeOK, Goto,
         AttachedPhase
    <3> QED BY <1>2, <3>1, <3>2, <3>3
  <2>5. conn[s].previous = None
    BY <2>3 DEF Exact, PreviousKept
  <2> QED BY <2>1, <2>2, <2>3, <2>4, <2>5, ExactKept
<1>3. ASSUME Restart
      PROVE  Exact'
  <2>1. /\ byID' = {} /\ \A h \in Host : bound'[h] = None
        /\ \A s \in Stream : conn'[s].pc \in {"new", "ended"} /\ conn'[s].previous = None
    BY <1>3 DEF Restart, Returned, Exact, PreviousKept
  <2> QED BY <2>1 DEF Exact, DirectoryExact, PreviousKept, Attached, AttachedPhase
<1>4. ASSUME Tick \/ SetBack \/ UNCHANGED vars
      PROVE  Exact'
  BY <1>4, ExactKept DEF Tick, SetBack, vars
<1> QED
  BY <1>1, <1>2, <1>3, <1>4, ExactBind, ExactUnbind DEF Next, Proceed

(***************************************************************************)
(* Times.                                                                  *)
(***************************************************************************)
LEMMA PastStep ==
    ASSUME TypeOK, OnlyNewestConnected, Unopened, TimesPast, [Next]_vars
    PROVE  TimesPast'
<1> DEFINE Past(t) ==
             /\ conn[t].at <= latest /\ session[t].lastSeen <= latest
             /\ session[t].disconnected \in 0 .. latest \cup {Never}
             /\ conn[t].pc = "ended" /\ session[t].gen # 0 =>
                  t \in unclosed \/ session[t].disconnected # Never
<1>1. \A t \in Stream :
        /\ Past(t) /\ conn[t].at \in 0 .. MaxTime /\ session[t] \in Session
        /\ now \in 0 .. MaxTime /\ latest \in 0 .. MaxTime /\ now <= latest
        /\ session[t].disconnected \in Time
        /\ session[t].connected \in Time /\ session[t].lastSeen \in Time
  BY SessionFields DEF TimesPast, TypeOK
<1>2. (\A t \in Stream : Past(t)') => TimesPast'
  BY DEF TimesPast
<1>3. ASSUME NEW s \in Stream, OpenSession(s)
      PROVE  TimesPast'
  <2>1. latest' = latest /\ unclosed' = unclosed /\ session[s] = NoSession /\ HostOf[s] \in Host
    BY <1>3 DEF OpenSession, clock, Unopened
  <2>2. CASE UNCHANGED registry /\ Return(s)
    <3>1. \A t \in Stream \ {s} : conn'[t] = conn[t] /\ session'[t] = session[t]
      BY <2>2 DEF Return, registry, TypeOK
    <3>2. Past(s)'
      BY <2>1, <2>2, <1>1 DEF Return, Returned, registry, TypeOK, NoSession
    <3>3. \A t \in Stream \ {s} : Past(t)'
      BY <3>1, <2>1, <1>1
    <3> QED BY <3>2, <3>3, <1>2
  <2>3. CASE ~(UNCHANGED registry /\ Return(s))
    <3>1. /\ \A t \in Stream \ {s} : conn'[t] = conn[t] /\
                session'[t] \in {session[t], markDisconnected(session[t], conn[s].at)}
          /\ conn'[s].at = conn[s].at /\ conn'[s].pc = "opened"
          /\ session'[s].connected = conn[s].at /\ session'[s].lastSeen = conn[s].at
          /\ session'[s].disconnected = Never
      BY <1>3, <2>3 DEF OpenSession, Goto, TypeOK
    <3>2. Past(s)'
      BY <3>1, <2>1, <1>1
    <3>3. ASSUME NEW t \in Stream \ {s}
          PROVE  Past(t)'
      <4>1. CASE session'[t] = session[t]
        BY <4>1, <3>1, <2>1, <1>1
      <4>2. CASE session'[t] = markDisconnected(session[t], conn[s].at)
        <5>1. conn[s].at \in Time /\ conn[s].at \in 0 .. latest /\ conn[s].at # Never
          BY <1>1, Times DEF Time
        <5>2. /\ session'[t].gen = session[t].gen
              /\ session'[t].connected = session[t].connected
              /\ session'[t].lastSeen = session[t].lastSeen
              /\ session'[t].disconnected \in {session[t].disconnected, conn[s].at}
          <6>1. session[t] \in Session
            BY <1>1
          <6> QED BY <4>2, <5>1, <6>1, Marked
        <5> QED BY <5>1, <5>2, <3>1, <2>1, <1>1
      <4> QED BY <3>1, <4>1, <4>2
    <3> QED BY <3>2, <3>3, <1>2
  <2> QED BY <2>2, <2>3
<1>4. ASSUME NEW s \in Stream, RenewSession(s)
      PROVE  TimesPast'
  <2>1. latest' = latest /\ unclosed' = unclosed /\ conn[s].pc = "renewing"
    BY <1>4 DEF RenewSession, clock
  <2>2. /\ \A t \in Stream \ {s} : conn'[t] = conn[t] /\ session'[t] = session[t]
        /\ conn'[s].at = conn[s].at /\ conn'[s].pc \in {"renewed", "leaving"}
        /\ session'[s].connected = session[s].connected
        /\ session'[s].disconnected = session[s].disconnected
        /\ session'[s].lastSeen \in {session[s].lastSeen, conn[s].at}
    BY <1>4 DEF RenewSession, Goto, TypeOK, Session
  <2>3. \A t \in Stream : Past(t)'
    BY <2>1, <2>2, <1>1
  <2> QED BY <2>3, <1>2
<1>5. ASSUME NEW s \in Stream, CloseSession(s)
      PROVE  TimesPast'
  <2>1. /\ latest' = latest /\ unclosed \subseteq unclosed'
        /\ \A t \in Stream \ {s} : conn'[t] = conn[t] /\ session'[t] = session[t]
        /\ conn'[s].at = 0 /\ conn'[s].pc = "ended"
    BY <1>5 DEF CloseSession, clock, TypeOK, Return, Returned
  <2>2. CASE s \in unclosed' /\ session'[s] = session[s]
    BY <2>1, <2>2, <1>1, <1>2
  <2>3. CASE session'[s] = markDisconnected(session[s], conn[s].at)
    <3>1. conn[s].at \in Time /\ conn[s].at \in 0 .. latest /\ session[s] \in Session
      BY <1>1, Times
    <3>2. /\ session'[s].lastSeen = session[s].lastSeen
          /\ session'[s].disconnected \in {session[s].disconnected, conn[s].at}
          /\ session'[s].disconnected <= conn[s].at
      BY <2>3, <3>1, Marked
    <3>3. session'[s].disconnected \in 0 .. latest /\ session'[s].disconnected # Never
      BY <3>1, <3>2, <1>1, Times DEF Time
    <3>4. Past(s)'
      BY <2>1, <3>2, <3>3, <1>1
    <3>5. \A t \in Stream \ {s} : Past(t)'
      BY <2>1, <1>1
    <3> QED BY <3>4, <3>5, <1>2
  <2> QED BY <1>5, <2>2, <2>3 DEF CloseSession, TypeOK
<1>6. ASSUME Restart
      PROVE  TimesPast'
  <2>1. latest' = latest
    BY <1>6 DEF Restart
  <2>2. ASSUME NEW t \in Stream
        PROVE  Past(t)'
    <3> DEFINE at == Later(now, session[t].lastSeen)
    <3>1. /\ conn'[t] = IF conn[t].pc = "new" THEN conn[t] ELSE Returned
          /\ session'[t] = IF current[HostOf[t]] = t
                           THEN markDisconnected(session[t], at)
                           ELSE session[t]
      BY <1>6 DEF Restart
    <3>2. at \in 0 .. latest /\ at \in Time /\ at # Never
      BY <1>1, Times DEF Later, Time
    <3>3. CASE current[HostOf[t]] = t
      <4>1. session'[t] = markDisconnected(session[t], at) /\ session[t] \in Session
        BY <3>1, <3>3, <1>1
      <4> HIDE DEF at
      <4>2. /\ session'[t].gen = session[t].gen /\ session'[t].lastSeen = session[t].lastSeen
            /\ session'[t].disconnected \in {session[t].disconnected, at}
            /\ session'[t].disconnected <= at
        BY <3>2, <4>1, Marked
      <4>3. session'[t].disconnected \in 0 .. latest /\ session'[t].disconnected # Never
        BY <3>2, <4>2, <1>1, Times DEF Time
      <4> QED BY <4>2, <4>3, <3>1, <2>1, <1>1 DEF Returned
    <3>4. CASE current[HostOf[t]] # t
      <4>1. session'[t] = session[t] /\ (session[t].gen # 0 => session[t].disconnected # Never)
        BY <3>4, <3>1 DEF OnlyNewestConnected
      <4>2. CASE conn[t].pc = "new"
        BY <4>2, <4>1, <3>1, <2>1, <1>1
      <4>3. CASE conn[t].pc # "new"
        <5>1. conn'[t].at = 0 /\ conn'[t].pc = "ended"
          BY <4>3, <3>1 DEF Returned
        <5> QED BY <5>1, <4>1, <2>1, <1>1
      <4> QED BY <4>2, <4>3
    <3> QED BY <3>3, <3>4
  <2> QED BY <2>2, <1>2
<1>7. ASSUME NEW s \in Stream,
             Bind(s) \/ CloseReplaced(s) \/ Unbind(s) \/ Observe(s) \/ Accept(s)
               \/ Superseded(s) \/ LeaseExpired(s) \/ Disconnect(s) \/ Heartbeat(s)
               \/ Acknowledge(s)
      PROVE  TimesPast'
  <2>1. /\ latest' = latest /\ session' = session /\ unclosed' = unclosed
        /\ \A t \in Stream \ {s} : conn'[t] = conn[t]
    BY <1>7 DEF Bind, CloseReplaced, Unbind, Observe, Accept, Superseded, LeaseExpired,
       Disconnect, Heartbeat, Acknowledge, clock, registry, TypeOK, Goto
  <2>2. conn'[s].at \in {conn[s].at, now}
    BY <1>7 DEF Bind, CloseReplaced, Unbind, Observe, Accept, Superseded, LeaseExpired,
       Disconnect, Heartbeat, Acknowledge, TypeOK, Goto
  <2>3. conn'[s].pc # "ended" /\ conn[s].pc # "ended"
    BY <1>7 DEF Bind, CloseReplaced, Unbind, Observe, Accept, Superseded, LeaseExpired,
       Disconnect, Heartbeat, Acknowledge, TypeOK, Goto
  <2>5. Past(s)'
    BY <2>1, <2>2, <2>3, <1>1 DEF Time
  <2>6. \A t \in Stream \ {s} : Past(t)'
    BY <2>1, <1>1
  <2> QED BY <2>5, <2>6, <1>2
<1>8. ASSUME Tick \/ SetBack \/ UNCHANGED vars
      PROVE  TimesPast'
  <2>1. latest' \in Nat /\ latest <= latest'
    BY <1>8, <1>1 DEF Tick, SetBack, vars, clock, Later, TypeOK
  <2>2. conn' = conn /\ session' = session /\ unclosed' = unclosed
    BY <1>8 DEF Tick, SetBack, vars, registry
  <2>3. \A t \in Stream : Past(t)'
    BY <2>1, <2>2, <1>1 DEF Time
  <2> QED BY <2>3, <1>2
<1> QED
  BY <1>3, <1>4, <1>5, <1>6, <1>7, <1>8 DEF Next, Proceed

(***************************************************************************)
(* The theorems.                                                           *)
(***************************************************************************)
\* Registry, directory and handlers agree in every reachable state
\* (registry/bolt.go, gateway/directory.go, Connect).
THEOREM Agreement == Spec => []IndInv
<1>1. Init => IndInv
  <2> SUFFICES ASSUME Init PROVE IndInv
    OBVIOUS
  <2>1. TypeOK
    BY InitType
  <2>2. OnlyNewestConnected /\ Unopened
    BY DEF Init, OnlyNewestConnected, Unopened, NoSession
  <2>3. DirectoryExact /\ PreviousKept
    BY DEF Init, DirectoryExact, PreviousKept, Attached, AttachedPhase
  <2>4. TimesPast
    BY DEF Init, TimesPast, NoSession
  <2> QED BY <2>1, <2>2, <2>3, <2>4 DEF IndInv
<1>2. IndInv /\ [Next]_vars => IndInv'
  <2> SUFFICES ASSUME IndInv, [Next]_vars PROVE IndInv'
    OBVIOUS
  <2>1. TypeOK /\ Registered /\ Exact
    BY DEF IndInv, Registered, Exact
  <2>2. TypeOK' /\ Registered' /\ Exact'
    BY <2>1, TypeStep, RegisteredStep, ExactStep
  <2>3. TimesPast'
    BY <2>1, PastStep DEF IndInv, Registered
  <2> QED BY <2>2, <2>3 DEF IndInv, Registered, Exact
<1> QED
  BY <1>1, <1>2, PTL DEF Spec

\* A session that was replaced is never connected again, whatever its stream
\* still does (OpenSession, RenewSession, CloseSession, initialize).
THEOREM Supersession == Spec => []OnlyNewestConnected
BY Agreement, PTL DEF IndInv

\* The directory's two maps agree, hold attached streams only, and a stream
\* that is missing was told that it was replaced (Bind, Unbind).
THEOREM ExactDirectory == Spec => []DirectoryExact
BY Agreement, PTL DEF IndInv

\* A query is planned for a session whose stream has ended only if its close
\* could not be recorded or the clock is behind the end recorded, whenever the
\* store fails and the clock is set back (CloseSession, initialize,
\* SnapshotActive).
THEOREM NoDeadTarget == Spec => []EndedUnlisted
<1>1. IndInv => EndedUnlisted
  <2> SUFFICES ASSUME IndInv, NEW s \in Stream, ActiveAt(session[s], now),
                      conn[s].pc = "ended", s \notin unclosed
               PROVE  now < session[s].disconnected /\ session[s].disconnected <= latest
    BY DEF EndedUnlisted, Roster
  <2>1. session[s].gen # 0 /\ now < session[s].disconnected
    BY DEF ActiveAt
  <2>2. latest \in Nat /\ session[s].disconnected \in 0 .. latest \cup {Never}
    BY DEF IndInv, TypeOK, TimesPast
  <2>3. session[s].disconnected # Never
    BY <2>1 DEF IndInv, TimesPast
  <2> QED BY <2>1, <2>2, <2>3
<1> QED
  BY <1>1, Agreement, PTL
=============================================================================
