------------------------- MODULE ProviderSDKProofs -------------------------
(***************************************************************************)
(* Proofs about the server of the Go SDK: ProviderServer, for any number   *)
(* of connections and goroutines (the inductive invariant IndInv, and from *)
(* it UsedOpen, ClosedOnce and Accounted), and ProviderStreams, for any    *)
(* integer width, requests and responses (StreamsInv for the streams and   *)
(* UnaryInv for the other handlers, and from them StreamsExact).           *)
(***************************************************************************)
EXTENDS ProviderServer, ProviderStreams, TLAPS

\* The fields an activity has at each program counter.
LEMMA Fields ==
    ASSUME NEW a \in Activity \cup {Idle}
    PROVE  /\ a = Idle <=> a.pc = "idle"
           /\ a.pc \in {"opened", "found", "using", "waiting", "locked"} => a.conn \in Conn
           /\ a.pc \in {"closing", "waiting", "locked"} => a.todo \subseteq Conn
           /\ a.pc = "using" => a.stream \in {"none", "open", "ended"}
BY DEF Activity, Idle

\* Open keeps the inductive invariant.
LEMMA OpenInd ==
    ASSUME IndInv, NEW p \in Caller, NEW k \in Conn, Open(p, k)
    PROVE  IndInv'
<1>0. \A q \in Caller : call[q] \in Activity \cup {Idle}
    BY DEF IndInv, TypeOK
<1> USE Fields, <1>0 DEF Open, Becomes, CloseConn, locks, IndInv
<1>h. InHand(p) = {} /\ InHand(p)' = {k}
    BY DEF InHand, TypeOK, Idle
<1>o. \A q \in Caller : q # p => InHand(q)' = InHand(q)
    BY DEF InHand, TypeOK, Idle
<1>1. TypeOK'
    BY DEF TypeOK, Activity, Idle, Live, OwnerInv, InHand, TodoInv
<1>2. LockInv'
    BY DEF TypeOK, Idle, LockInv, At
<1>3. TodoInv'
    BY DEF TypeOK, Idle, TodoInv
<1>4. OwnerInv'
    BY <1>h, <1>o DEF TypeOK, OwnerInv, Live, SourceInv, Idle
<1>5. FoundInv'
    BY DEF TypeOK, Idle, FoundInv, Live, OwnerInv, InHand, SourceInv, TodoInv
<1>6. SourceInv'
    BY DEF TypeOK, Idle, SourceInv, OwnerInv, Live, InHand, TodoInv
<1>7. UsedOpen'
    BY DEF TypeOK, Idle, UsedOpen, Using, FoundInv, Live, OwnerInv, InHand, LockInv, At, TodoInv, SourceInv
<1>8. Accounted'
    BY <1>h, <1>o DEF TypeOK, Accounted, OwnerInv, Live, SourceInv, Idle
<1> QED BY <1>1, <1>2, <1>3, <1>4, <1>5, <1>6, <1>7, <1>8 DEF IndInv

\* Add keeps the inductive invariant.
LEMMA AddInd ==
    ASSUME IndInv, NEW p \in Caller, Add(p)
    PROVE  IndInv'
<1>0. \A q \in Caller : call[q] \in Activity \cup {Idle}
    BY DEF IndInv, TypeOK
<1> USE Fields, <1>0 DEF Add, Becomes, CloseConn, locks, IndInv
<1>h. InHand(p) = {call[p].conn} /\ InHand(p)' = {}
    BY DEF InHand, TypeOK, Idle
<1>o. \A q \in Caller : q # p => InHand(q)' = InHand(q)
    BY DEF InHand, TypeOK, Idle
<1>1. TypeOK'
    BY DEF TypeOK, Activity, Idle, Live, OwnerInv, InHand, TodoInv
<1>2. LockInv'
    BY DEF TypeOK, Idle, LockInv, At
<1>3. TodoInv'
    BY DEF TypeOK, Idle, TodoInv
<1>4. OwnerInv'
  <2> DEFINE c == call[p].conn
  <2>1. Live(c) /\ c \notin registered /\ c \in Conn
    BY <1>h DEF OwnerInv
  <2>2. \A q \in Caller : q # p => c \notin InHand(q)
    BY <1>h DEF OwnerInv
  <2>3. CASE registered' = registered \cup {c} /\ UNCHANGED <<source, closings>>
    BY <1>h, <1>o, <2>1, <2>2, <2>3 DEF OwnerInv, Live
  <2>4. CASE CloseConn(c) /\ UNCHANGED registered
    <3>1. \A k \in Conn : k # c /\ Live(k) => Live(k)'
        BY <2>4 DEF Live, TypeOK
    <3>2. \A q \in Caller : InHand(q)' \subseteq InHand(q) /\ c \notin InHand(q)'
        BY <1>h, <1>o, <2>2
    <3>3. \A q \in Caller : InHand(q) \subseteq Conn
        BY DEF InHand
    <3> HIDE DEF c
    <3> QED BY <2>1, <2>4, <3>1, <3>2, <3>3 DEF OwnerInv, TypeOK
  <2> QED BY <2>3, <2>4
<1>5. FoundInv'
    BY DEF TypeOK, Idle, FoundInv, Live, OwnerInv, InHand, SourceInv, TodoInv
<1>6. SourceInv'
    BY DEF TypeOK, Idle, SourceInv, OwnerInv, Live, InHand, TodoInv
<1>7. UsedOpen'
    BY DEF TypeOK, Idle, UsedOpen, Using, FoundInv, Live, OwnerInv, InHand, LockInv, At, TodoInv, SourceInv
<1>8. Accounted'
    BY <1>h, <1>o DEF TypeOK, Accounted, OwnerInv, Live, SourceInv, Idle
<1> QED BY <1>1, <1>2, <1>3, <1>4, <1>5, <1>6, <1>7, <1>8 DEF IndInv

\* Find keeps the inductive invariant.
LEMMA FindInd ==
    ASSUME IndInv, NEW p \in Caller, NEW k \in Conn, Find(p, k)
    PROVE  IndInv'
<1>0. \A q \in Caller : call[q] \in Activity \cup {Idle}
    BY DEF IndInv, TypeOK
<1> USE Fields, <1>0 DEF Find, Becomes, CloseConn, locks, IndInv
<1>h. InHand(p)' = InHand(p)
    BY DEF InHand, TypeOK, Idle
<1>o. \A q \in Caller : q # p => InHand(q)' = InHand(q)
    BY DEF InHand, TypeOK, Idle
<1>1. TypeOK'
    BY DEF TypeOK, Activity, Idle, Live, OwnerInv, InHand, TodoInv
<1>2. LockInv'
  <2>1. \A q \in Caller : q # p => call'[q] = call[q]
    BY DEF TypeOK
  <2>2. call[p].pc = "idle" /\ call'[p].pc \in {"idle", "found"}
    BY DEF TypeOK, Idle
  <2>3. \A c \in Conn, pc \in {"using", "locked", "waiting"} : At(c, pc)' = At(c, pc)
    BY <2>1, <2>2 DEF At
  <2> QED BY <2>3 DEF LockInv
<1>3. TodoInv'
    BY DEF TypeOK, Idle, TodoInv
<1>4. OwnerInv'
    BY <1>h, <1>o DEF TypeOK, OwnerInv, Live, SourceInv, Idle
<1>5. FoundInv'
    BY DEF TypeOK, Idle, FoundInv, Live, OwnerInv, InHand, SourceInv, TodoInv
<1>6. SourceInv'
    BY DEF TypeOK, Idle, SourceInv, OwnerInv, Live, InHand, TodoInv
<1>7. UsedOpen'
    BY DEF TypeOK, Idle, UsedOpen, Using, FoundInv, Live, OwnerInv, InHand, LockInv, At, TodoInv, SourceInv
<1>8. Accounted'
    BY <1>h, <1>o DEF TypeOK, Accounted, OwnerInv, Live, SourceInv, Idle
<1> QED BY <1>1, <1>2, <1>3, <1>4, <1>5, <1>6, <1>7, <1>8 DEF IndInv

\* Acquire keeps the inductive invariant.
LEMMA AcquireInd ==
    ASSUME IndInv, NEW p \in Caller, Acquire(p)
    PROVE  IndInv'
<1>0. \A q \in Caller : call[q] \in Activity \cup {Idle}
    BY DEF IndInv, TypeOK
<1> USE Fields, <1>0 DEF Acquire, Becomes, CloseConn, locks, IndInv
<1>h. InHand(p)' = InHand(p)
    BY DEF InHand, TypeOK, Idle
<1>o. \A q \in Caller : q # p => InHand(q)' = InHand(q)
    BY DEF InHand, TypeOK, Idle
<1>1. TypeOK'
    BY DEF TypeOK, Activity, Idle, Live, OwnerInv, InHand, TodoInv
<1>2. LockInv'
    BY DEF TypeOK, Idle, LockInv, At
<1>3. TodoInv'
    BY DEF TypeOK, Idle, TodoInv
<1>4. OwnerInv'
    BY <1>h, <1>o DEF TypeOK, OwnerInv, Live, SourceInv, Idle
<1>5. FoundInv'
    BY DEF TypeOK, Idle, FoundInv, Live, OwnerInv, InHand, SourceInv, TodoInv
<1>6. SourceInv'
    BY DEF TypeOK, Idle, SourceInv, OwnerInv, Live, InHand, TodoInv
<1>7. UsedOpen'
    BY DEF TypeOK, Idle, UsedOpen, Using, FoundInv, Live, OwnerInv, InHand, LockInv, At, TodoInv, SourceInv
<1>8. Accounted'
    BY <1>h, <1>o DEF TypeOK, Accounted, OwnerInv, Live, SourceInv, Idle
<1> QED BY <1>1, <1>2, <1>3, <1>4, <1>5, <1>6, <1>7, <1>8 DEF IndInv

\* OpenStream keeps the inductive invariant.
LEMMA OpenStreamInd ==
    ASSUME IndInv, NEW p \in Caller, OpenStream(p)
    PROVE  IndInv'
<1>0. \A q \in Caller : call[q] \in Activity \cup {Idle}
    BY DEF IndInv, TypeOK
<1> USE Fields, <1>0 DEF OpenStream, Becomes, CloseConn, locks, IndInv
<1>h. InHand(p)' = InHand(p)
    BY DEF InHand, TypeOK, Idle
<1>o. \A q \in Caller : q # p => InHand(q)' = InHand(q)
    BY DEF InHand, TypeOK, Idle
<1>1. TypeOK'
    BY DEF TypeOK, Activity, Idle, Live, OwnerInv, InHand, TodoInv
<1>2. LockInv'
    BY DEF TypeOK, Idle, LockInv, At
<1>3. TodoInv'
    BY DEF TypeOK, Idle, TodoInv
<1>4. OwnerInv'
    BY <1>h, <1>o DEF TypeOK, OwnerInv, Live, SourceInv, Idle
<1>5. FoundInv'
    BY DEF TypeOK, Idle, FoundInv, Live, OwnerInv, InHand, SourceInv, TodoInv
<1>6. SourceInv'
    BY DEF TypeOK, Idle, SourceInv, OwnerInv, Live, InHand, TodoInv
<1>7. UsedOpen'
    BY DEF TypeOK, Idle, UsedOpen, Using, FoundInv, Live, OwnerInv, InHand, LockInv, At, TodoInv, SourceInv
<1>8. Accounted'
    BY <1>h, <1>o DEF TypeOK, Accounted, OwnerInv, Live, SourceInv, Idle
<1> QED BY <1>1, <1>2, <1>3, <1>4, <1>5, <1>6, <1>7, <1>8 DEF IndInv

\* CloseStream keeps the inductive invariant.
LEMMA CloseStreamInd ==
    ASSUME IndInv, NEW p \in Caller, CloseStream(p)
    PROVE  IndInv'
<1>0. \A q \in Caller : call[q] \in Activity \cup {Idle}
    BY DEF IndInv, TypeOK
<1> USE Fields, <1>0 DEF CloseStream, Becomes, CloseConn, locks, IndInv
<1>h. InHand(p)' = InHand(p)
    BY DEF InHand, TypeOK, Idle
<1>o. \A q \in Caller : q # p => InHand(q)' = InHand(q)
    BY DEF InHand, TypeOK, Idle
<1>1. TypeOK'
    BY DEF TypeOK, Activity, Idle, Live, OwnerInv, InHand, TodoInv
<1>2. LockInv'
    BY DEF TypeOK, Idle, LockInv, At
<1>3. TodoInv'
    BY DEF TypeOK, Idle, TodoInv
<1>4. OwnerInv'
    BY <1>h, <1>o DEF TypeOK, OwnerInv, Live, SourceInv, Idle
<1>5. FoundInv'
    BY DEF TypeOK, Idle, FoundInv, Live, OwnerInv, InHand, SourceInv, TodoInv
<1>6. SourceInv'
    BY DEF TypeOK, Idle, SourceInv, OwnerInv, Live, InHand, TodoInv
<1>7. UsedOpen'
    BY DEF TypeOK, Idle, UsedOpen, Using, FoundInv, Live, OwnerInv, InHand, LockInv, At, TodoInv, SourceInv
<1>8. Accounted'
    BY <1>h, <1>o DEF TypeOK, Accounted, OwnerInv, Live, SourceInv, Idle
<1> QED BY <1>1, <1>2, <1>3, <1>4, <1>5, <1>6, <1>7, <1>8 DEF IndInv

\* Release keeps the inductive invariant.
LEMMA ReleaseInd ==
    ASSUME IndInv, NEW p \in Caller, Release(p)
    PROVE  IndInv'
<1>0. \A q \in Caller : call[q] \in Activity \cup {Idle}
    BY DEF IndInv, TypeOK
<1> USE Fields, <1>0 DEF Release, Becomes, CloseConn, locks, IndInv
<1>h. InHand(p)' = InHand(p)
    BY DEF InHand, TypeOK, Idle
<1>o. \A q \in Caller : q # p => InHand(q)' = InHand(q)
    BY DEF InHand, TypeOK, Idle
<1>1. TypeOK'
    BY DEF TypeOK, Activity, Idle, Live, OwnerInv, InHand, TodoInv
<1>2. LockInv'
    BY DEF TypeOK, Idle, LockInv, At
<1>3. TodoInv'
    BY DEF TypeOK, Idle, TodoInv
<1>4. OwnerInv'
    BY <1>h, <1>o DEF TypeOK, OwnerInv, Live, SourceInv, Idle
<1>5. FoundInv'
    BY DEF TypeOK, Idle, FoundInv, Live, OwnerInv, InHand, SourceInv, TodoInv
<1>6. SourceInv'
    BY DEF TypeOK, Idle, SourceInv, OwnerInv, Live, InHand, TodoInv
<1>7. UsedOpen'
    BY DEF TypeOK, Idle, UsedOpen, Using, FoundInv, Live, OwnerInv, InHand, LockInv, At, TodoInv, SourceInv
<1>8. Accounted'
    BY <1>h, <1>o DEF TypeOK, Accounted, OwnerInv, Live, SourceInv, Idle
<1> QED BY <1>1, <1>2, <1>3, <1>4, <1>5, <1>6, <1>7, <1>8 DEF IndInv

\* Remove keeps the inductive invariant.
LEMMA RemoveInd ==
    ASSUME IndInv, NEW p \in Caller, NEW k \in Conn, Remove(p, k)
    PROVE  IndInv'
<1>0. \A q \in Caller : call[q] \in Activity \cup {Idle}
    BY DEF IndInv, TypeOK
<1> USE Fields, <1>0 DEF Remove, Becomes, CloseConn, locks, IndInv
<1>h. InHand(p) = {} /\ InHand(p)' = {k}
    BY DEF InHand, TypeOK, Idle
<1>o. \A q \in Caller : q # p => InHand(q)' = InHand(q)
    BY DEF InHand, TypeOK, Idle
<1>1. TypeOK'
    BY DEF TypeOK, Activity, Idle, Live, OwnerInv, InHand, TodoInv
<1>2. LockInv'
    BY DEF TypeOK, Idle, LockInv, At
<1>3. TodoInv'
    BY DEF TypeOK, Idle, TodoInv
<1>4. OwnerInv'
    BY <1>h, <1>o DEF TypeOK, OwnerInv, Live, SourceInv, Idle
<1>5. FoundInv'
    BY DEF TypeOK, Idle, FoundInv, Live, OwnerInv, InHand, SourceInv, TodoInv
<1>6. SourceInv'
    BY DEF TypeOK, Idle, SourceInv, OwnerInv, Live, InHand, TodoInv
<1>7. UsedOpen'
    BY DEF TypeOK, Idle, UsedOpen, Using, FoundInv, Live, OwnerInv, InHand, LockInv, At, TodoInv, SourceInv
<1>8. Accounted'
    BY <1>h, <1>o DEF TypeOK, Accounted, OwnerInv, Live, SourceInv, Idle
<1> QED BY <1>1, <1>2, <1>3, <1>4, <1>5, <1>6, <1>7, <1>8 DEF IndInv

\* RemoveAll keeps the inductive invariant.
LEMMA RemoveAllInd ==
    ASSUME IndInv, NEW p \in Caller, RemoveAll(p)
    PROVE  IndInv'
<1>0. \A q \in Caller : call[q] \in Activity \cup {Idle}
    BY DEF IndInv, TypeOK
<1> USE Fields, <1>0 DEF RemoveAll, Becomes, CloseConn, locks, IndInv
<1>h. InHand(p) = {} /\ InHand(p)' = registered
    BY DEF InHand, TypeOK, Idle
<1>o. \A q \in Caller : q # p => InHand(q)' = InHand(q)
    BY DEF InHand, TypeOK, Idle
<1>1. TypeOK'
    BY DEF TypeOK, Activity, Idle, Live, OwnerInv, InHand, TodoInv
<1>2. LockInv'
    BY DEF TypeOK, Idle, LockInv, At
<1>3. TodoInv'
    BY DEF TypeOK, Idle, TodoInv
<1>4. OwnerInv'
    BY <1>h, <1>o DEF TypeOK, OwnerInv, Live, SourceInv, Idle
<1>5. FoundInv'
    BY DEF TypeOK, Idle, FoundInv, Live, OwnerInv, InHand, SourceInv, TodoInv
<1>6. SourceInv'
    BY DEF TypeOK, Idle, SourceInv, OwnerInv, Live, InHand, TodoInv
<1>7. UsedOpen'
    BY DEF TypeOK, Idle, UsedOpen, Using, FoundInv, Live, OwnerInv, InHand, LockInv, At, TodoInv, SourceInv
<1>8. Accounted'
    BY <1>h, <1>o DEF TypeOK, Accounted, OwnerInv, Live, SourceInv, Idle
<1> QED BY <1>1, <1>2, <1>3, <1>4, <1>5, <1>6, <1>7, <1>8 DEF IndInv

\* Lock keeps the inductive invariant.
LEMMA LockInd ==
    ASSUME IndInv, NEW p \in Caller, Lock(p)
    PROVE  IndInv'
<1>0. \A q \in Caller : call[q] \in Activity \cup {Idle}
    BY DEF IndInv, TypeOK
<1> USE Fields, <1>0 DEF Lock, Becomes, CloseConn, locks, IndInv
<1>h. InHand(p)' = InHand(p)
    BY DEF InHand, TypeOK, Idle
<1>o. \A q \in Caller : q # p => InHand(q)' = InHand(q)
    BY DEF InHand, TypeOK, Idle
<1>1. TypeOK'
    BY DEF TypeOK, Activity, Idle, Live, OwnerInv, InHand, TodoInv
<1>2. LockInv'
    BY DEF TypeOK, Idle, LockInv, At
<1>3. TodoInv'
    BY DEF TypeOK, Idle, TodoInv
<1>4. OwnerInv'
    BY <1>h, <1>o DEF TypeOK, OwnerInv, Live, SourceInv, Idle
<1>5. FoundInv'
    BY DEF TypeOK, Idle, FoundInv, Live, OwnerInv, InHand, SourceInv, TodoInv
<1>6. SourceInv'
    BY DEF TypeOK, Idle, SourceInv, OwnerInv, Live, InHand, TodoInv
<1>7. UsedOpen'
    BY DEF TypeOK, Idle, UsedOpen, Using, FoundInv, Live, OwnerInv, InHand, LockInv, At, TodoInv, SourceInv
<1>8. Accounted'
    BY <1>h, <1>o DEF TypeOK, Accounted, OwnerInv, Live, SourceInv, Idle
<1> QED BY <1>1, <1>2, <1>3, <1>4, <1>5, <1>6, <1>7, <1>8 DEF IndInv

\* Locked keeps the inductive invariant.
LEMMA LockedInd ==
    ASSUME IndInv, NEW p \in Caller, Locked(p)
    PROVE  IndInv'
<1>0. \A q \in Caller : call[q] \in Activity \cup {Idle}
    BY DEF IndInv, TypeOK
<1> USE Fields, <1>0 DEF Locked, Becomes, CloseConn, locks, IndInv
<1>h. InHand(p)' = InHand(p)
    BY DEF InHand, TypeOK, Idle
<1>o. \A q \in Caller : q # p => InHand(q)' = InHand(q)
    BY DEF InHand, TypeOK, Idle
<1>1. TypeOK'
    BY DEF TypeOK, Activity, Idle, Live, OwnerInv, InHand, TodoInv
<1>2. LockInv'
    BY DEF TypeOK, Idle, LockInv, At
<1>3. TodoInv'
    BY DEF TypeOK, Idle, TodoInv
<1>4. OwnerInv'
    BY <1>h, <1>o DEF TypeOK, OwnerInv, Live, SourceInv, Idle
<1>5. FoundInv'
    BY DEF TypeOK, Idle, FoundInv, Live, OwnerInv, InHand, SourceInv, TodoInv
<1>6. SourceInv'
    BY DEF TypeOK, Idle, SourceInv, OwnerInv, Live, InHand, TodoInv
<1>7. UsedOpen'
    BY DEF TypeOK, Idle, UsedOpen, Using, FoundInv, Live, OwnerInv, InHand, LockInv, At, TodoInv, SourceInv
<1>8. Accounted'
    BY <1>h, <1>o DEF TypeOK, Accounted, OwnerInv, Live, SourceInv, Idle
<1> QED BY <1>1, <1>2, <1>3, <1>4, <1>5, <1>6, <1>7, <1>8 DEF IndInv

\* Close keeps the inductive invariant.
LEMMA CloseInd ==
    ASSUME IndInv, NEW p \in Caller, Close(p)
    PROVE  IndInv'
<1>0. \A q \in Caller : call[q] \in Activity \cup {Idle}
    BY DEF IndInv, TypeOK
<1> USE Fields, <1>0 DEF Close, Becomes, CloseConn, locks, IndInv
<1>h. InHand(p)' = InHand(p) \ {call[p].conn}
    BY DEF InHand, TypeOK, Idle
<1>o. \A q \in Caller : q # p => InHand(q)' = InHand(q)
    BY DEF InHand, TypeOK, Idle
<1>c. call[p].conn \in InHand(p)
    BY DEF InHand, TodoInv
<1>1. TypeOK'
  <2>1. call' \in [Caller -> Activity \cup {Idle}]
    BY DEF TypeOK, Activity
  <2>2. CASE closed[call[p].conn]
    BY <2>1, <2>2 DEF TypeOK
  <2>3. CASE ~closed[call[p].conn]
    <3>1. closed' \in [Conn -> BOOLEAN]
        BY <2>3 DEF TypeOK
    <3>2. source' \in [Conn -> {"unopened", "open", "closed"}]
        BY <2>3 DEF TypeOK
    <3>3. closings' \in [Conn -> Nat]
        BY <2>3 DEF TypeOK
    <3>4. writer' \in [Conn -> SUBSET Caller]
        BY DEF TypeOK
    <3> QED BY <2>1, <3>1, <3>2, <3>3, <3>4 DEF TypeOK
  <2> QED BY <2>2, <2>3
<1>2. LockInv'
    BY DEF TypeOK, Idle, LockInv, At
<1>3. TodoInv'
    BY DEF TypeOK, Idle, TodoInv
<1>4. OwnerInv'
  <2> DEFINE c == call[p].conn
  <2>1. c \in Conn /\ c \notin registered /\ \A q \in Caller : q # p => c \notin InHand(q)
    BY <1>c DEF OwnerInv
  <2>2. \A k \in Conn : k # c /\ Live(k) => Live(k)'
    BY DEF Live, TypeOK
  <2> HIDE DEF c
  <2>3. \A q \in Caller : InHand(q)' \subseteq InHand(q) /\ c \notin InHand(q)'
    BY <1>h, <1>o, <2>1 DEF c
  <2>4. \A q \in Caller : InHand(q) \subseteq Conn
    BY DEF InHand
  <2> QED BY <2>1, <2>2, <2>3, <2>4 DEF OwnerInv, TypeOK
<1>5. FoundInv'
    BY DEF TypeOK, Idle, FoundInv, Live, OwnerInv, InHand, SourceInv, TodoInv
<1>6. SourceInv'
    BY DEF TypeOK, Idle, SourceInv, OwnerInv, Live, InHand, TodoInv
<1>7. UsedOpen'
  <2>1. writer[call[p].conn] # {}
    BY DEF LockInv, At
  <2>2. \A q \in Caller : Using(q) => call[q].conn # call[p].conn
    BY <2>1 DEF LockInv, At, Using
  <2>3. \A q \in Caller : Using(q)' => Using(q) /\ call'[q] = call[q]
    BY DEF Using, TypeOK
  <2> QED BY <2>2, <2>3 DEF UsedOpen, Using, TypeOK
<1>8. Accounted'
    BY <1>h, <1>o, <1>c DEF TypeOK, Accounted, OwnerInv, Live, SourceInv, Idle
<1> QED BY <1>1, <1>2, <1>3, <1>4, <1>5, <1>6, <1>7, <1>8 DEF IndInv

\* Closed keeps the inductive invariant.
LEMMA ClosedInd ==
    ASSUME IndInv, NEW p \in Caller, Closed(p)
    PROVE  IndInv'
<1>0. \A q \in Caller : call[q] \in Activity \cup {Idle}
    BY DEF IndInv, TypeOK
<1> USE Fields, <1>0 DEF Closed, Becomes, CloseConn, locks, IndInv
<1>h. InHand(p)' = InHand(p)
    BY DEF InHand, TypeOK, Idle
<1>o. \A q \in Caller : q # p => InHand(q)' = InHand(q)
    BY DEF InHand, TypeOK, Idle
<1>1. TypeOK'
    BY DEF TypeOK, Activity, Idle, Live, OwnerInv, InHand, TodoInv
<1>2. LockInv'
    BY DEF TypeOK, Idle, LockInv, At
<1>3. TodoInv'
    BY DEF TypeOK, Idle, TodoInv
<1>4. OwnerInv'
    BY <1>h, <1>o DEF TypeOK, OwnerInv, Live, SourceInv, Idle
<1>5. FoundInv'
    BY DEF TypeOK, Idle, FoundInv, Live, OwnerInv, InHand, SourceInv, TodoInv
<1>6. SourceInv'
    BY DEF TypeOK, Idle, SourceInv, OwnerInv, Live, InHand, TodoInv
<1>7. UsedOpen'
    BY DEF TypeOK, Idle, UsedOpen, Using, FoundInv, Live, OwnerInv, InHand, LockInv, At, TodoInv, SourceInv
<1>8. Accounted'
    BY <1>h, <1>o DEF TypeOK, Accounted, OwnerInv, Live, SourceInv, Idle
<1> QED BY <1>1, <1>2, <1>3, <1>4, <1>5, <1>6, <1>7, <1>8 DEF IndInv

\* The initial states satisfy the inductive invariant.
LEMMA IndInit == Init => IndInv
BY DEF Init, IndInv, TypeOK, Activity, Idle, LockInv, At, TodoInv, OwnerInv, InHand,
       FoundInv, SourceInv, UsedOpen, Using, Accounted

\* Every step keeps it.
LEMMA IndStep == IndInv /\ [Next]_vars => IndInv'
<1> SUFFICES ASSUME IndInv, [Next]_vars PROVE IndInv'
    OBVIOUS
<1>1. CASE UNCHANGED vars
    BY <1>1 DEF vars, IndInv, TypeOK, LockInv, At, TodoInv, OwnerInv, InHand, Live,
       FoundInv, SourceInv, UsedOpen, Using, Accounted
<1>2. CASE Next
  <2> PICK p \in Caller : Begin(p) \/ OpenStream(p) \/ Continue(p)
    BY <1>2 DEF Next
  <2>1. CASE Begin(p)
    BY <2>1, OpenInd, FindInd, RemoveInd, RemoveAllInd DEF Begin
  <2>2. CASE OpenStream(p)
    BY <2>2, OpenStreamInd
  <2>3. CASE Continue(p)
    BY <2>3, AddInd, AcquireInd, CloseStreamInd, ReleaseInd, LockInd, LockedInd,
       CloseInd, ClosedInd DEF Continue
  <2> QED BY <2>1, <2>2, <2>3
<1> QED BY <1>1, <1>2

\* The registry's bookkeeping is right in every reachable state, for any
\* number of connections and requests.
THEOREM Bookkeeping == Spec => []IndInv
<1> QED BY IndInit, IndStep, PTL DEF Spec

\* No request ever works on a connection that is closed at the provider.
THEOREM NoUseAfterClose == Spec => []UsedOpen
<1>1. IndInv => UsedOpen
    BY DEF IndInv
<1> QED BY Bookkeeping, <1>1, PTL

\* The provider's Close is called at most once for each connection.
THEOREM NoDoubleClose == Spec => []ClosedOnce
<1>1. IndInv => ClosedOnce
  <2> SUFFICES ASSUME IndInv, NEW k \in Conn PROVE closings[k] <= 1
    BY DEF ClosedOnce
  <2>1. CASE source[k] = "unopened"
    BY <2>1 DEF IndInv, SourceInv
  <2>2. CASE source[k] = "closed"
    BY <2>2 DEF IndInv, SourceInv
  <2>3. CASE source[k] = "open"
    BY <2>3 DEF IndInv, Accounted, OwnerInv, Live
  <2> QED BY <2>1, <2>2, <2>3 DEF IndInv, TypeOK
<1> QED BY Bookkeeping, <1>1, PTL

\* No connection leaks: it is in the map or in the hands of a goroutine.
THEOREM NoLeak == Spec => []Accounted
<1>1. IndInv => Accounted
    BY DEF IndInv
<1> QED BY Bookkeeping, <1>1, PTL

(***************************************************************************)
(* The streaming handlers.                                                 *)
(***************************************************************************)
Rpc(name) == request # NoRequest /\ request.rpc = name

\* Where the chunks sent so far end.
SentTo(r, s) == IF s = <<>> THEN r.offset ELSE s[Len(s)].offset + s[Len(s)].size

\* A chunk that was sent and the request it serves.
WithinRequest(r, c) ==
    /\ r.offset <= c.offset /\ c.offset + c.size <= MaxUint
    /\ r.length # NoLength => c.offset + c.size - r.offset <= r.length
    /\ r.maxChunk > 0 => c.size <= r.maxChunk

Contiguous(r, s) ==
    \A i \in DOMAIN s :
        /\ WithinRequest(r, s[i])
        /\ s[i].offset = IF i = 1 THEN r.offset ELSE s[i - 1].offset + s[i - 1].size

\* The counters of ReadLob never wrap: they are what the chunks add up to.
LobInv ==
    Rpc("ReadLob") =>
        /\ sent \in Seq(Chunk) /\ Contiguous(request, sent)
        /\ expected = SentTo(request, sent) /\ request.offset <= expected
        /\ bytes = expected - request.offset
        /\ \A i \in DOMAIN sent : sent[i].end => i = Len(sent) /\ status # "running"
        /\ status = "OK" => sent # <<>> /\ sent[Len(sent)].end

RecoverInv ==
    Rpc("Recover") =>
        /\ sent \in Seq(Recovered)
        /\ \A i, j \in DOMAIN sent : sent[i].branch = sent[j].branch => i = j
        /\ \A i \in DOMAIN sent : validRecoveryState(sent[i].state)
        /\ status = "OK" => drained

StreamsInv == StreamsTypeOK /\ QueryHonest /\ LobInv /\ RecoverInv

\* The types of requests and responses tell the calls apart.
LEMMA Requests ==
    /\ NoRequest.rpc = "none"
    /\ \A r \in QueryRequest : r.rpc = "Query" /\ r.acceptOutcome \in BOOLEAN
    /\ \A r \in LobRequest : /\ r.rpc = "ReadLob" /\ r.offset \in 0 .. MaxUint
                             /\ r.length \in 0 .. NoLength /\ r.maxChunk \in 0 .. MaxUint
    /\ \A r \in RecoverRequest : r.rpc = "Recover"
  BY DEF NoRequest, QueryRequest, LobRequest, RecoverRequest

LEMMA Appended ==
    ASSUME NEW T, NEW s \in Seq(T), NEW x \in T
    PROVE  /\ Append(s, x) \in Seq(T) /\ Len(s) \in Nat /\ Len(Append(s, x)) = Len(s) + 1
           /\ DOMAIN s = 1 .. Len(s) /\ DOMAIN Append(s, x) = 1 .. Len(s) + 1
           /\ \A i \in 1 .. Len(s) : Append(s, x)[i] = s[i] /\ i # Len(s) + 1
           /\ Append(s, x)[Len(s) + 1] = x /\ Append(s, x) # <<>>
           /\ s = <<>> <=> Len(s) = 0
  OBVIOUS

\* The checks of a chunk keep the sums below the largest integer.
LEMMA NoWrap ==
    ASSUME NEW x \in Nat, NEW y \in Nat, x + y <= MaxUint
    PROVE  AddUint(x, y) = x + y
  BY StreamsAssumption DEF AddUint

LEMMA EmptySent == \A T : <<>> \in Seq(T)
  OBVIOUS

LEMMA StreamsInitial == StreamsInit => StreamsInv
  <1> SUFFICES ASSUME StreamsInit PROVE StreamsInv
    OBVIOUS
  <1>1. StreamsTypeOK
    <2>1. sent \in Seq(Chunk \cup Recovered \cup {ABatch})
      BY EmptySent DEF StreamsInit
    <2>2. expected \in 0 .. MaxUint /\ bytes \in 0 .. MaxUint
      BY StreamsAssumption DEF StreamsInit
    <2> QED BY <2>1, <2>2 DEF StreamsInit, StreamsTypeOK
  <1>2. ~Rpc("Query") /\ ~Rpc("ReadLob") /\ ~Rpc("Recover")
    BY DEF StreamsInit, Rpc
  <1> QED BY <1>1, <1>2 DEF StreamsInv, QueryHonest, Answered, LobInv, RecoverInv, Rpc

LEMMA StartKeeps ==
    ASSUME NEW r \in QueryRequest \cup LobRequest \cup RecoverRequest, Start(r)
    PROVE  StreamsInv'
  <1>1. /\ request' = r /\ sent' = <<>> /\ bytes' = 0
        /\ outcome' = NoOutcome /\ told' = NoOutcome /\ drained' = FALSE
        /\ status' \in {"error", "running"}
    BY DEF Start
  <1>2. expected' \in 0 .. MaxUint /\ (r.rpc = "ReadLob" => expected' = r.offset)
    BY Requests, StreamsAssumption DEF Start
  <1>3. StreamsTypeOK'
    <2>1. sent' \in Seq(Chunk \cup Recovered \cup {ABatch})
      BY <1>1, EmptySent
    <2>2. bytes' \in 0 .. MaxUint
      BY <1>1, StreamsAssumption
    <2> QED BY <1>1, <1>2, <2>1, <2>2 DEF StreamsTypeOK
  <1>4. r.rpc = "ReadLob" => r \in LobRequest /\ r.offset \in Nat
    BY Requests
  <1>5. DOMAIN <<>> = {} /\ <<>> \in Seq(Chunk) /\ <<>> \in Seq(Recovered)
    OBVIOUS
  <1>6. LobInv'
    BY <1>1, <1>2, <1>4, <1>5 DEF LobInv, Rpc, Contiguous, SentTo
  <1>7. RecoverInv' /\ QueryHonest'
    BY <1>1, <1>5 DEF RecoverInv, Rpc, QueryHonest, Answered
  <1> QED BY <1>3, <1>6, <1>7 DEF StreamsInv

LEMMA FailKeeps ==
    ASSUME StreamsInv, Fail
    PROVE  StreamsInv'
  <1>1. /\ status = "running" /\ status' = "error"
        /\ UNCHANGED <<request, sent, outcome, told, drained, expected, bytes>>
    BY DEF Fail
  <1>2. StreamsTypeOK'
    BY <1>1 DEF StreamsInv, StreamsTypeOK
  <1>3. LobInv'
    BY <1>1 DEF StreamsInv, LobInv, Rpc
  <1>4. RecoverInv' /\ QueryHonest'
    BY <1>1 DEF StreamsInv, RecoverInv, Rpc, QueryHonest, Answered
  <1> QED BY <1>2, <1>3, <1>4 DEF StreamsInv

LEMMA QueryKeeps ==
    ASSUME StreamsInv, QueryBatch \/ \E o \in Outcome : QueryEnd(o)
    PROVE  StreamsInv'
  <1>1. /\ request.rpc = "Query" /\ status = "running"
        /\ UNCHANGED <<request, expected, bytes>>
    BY DEF QueryBatch, QueryEnd, Serving
  <1>2. LobInv' /\ RecoverInv'
    BY <1>1 DEF LobInv, RecoverInv, Rpc
  <1>3. CASE QueryBatch
    <2>1. sent' \in Seq(Chunk \cup Recovered \cup {ABatch})
      BY <1>3 DEF QueryBatch, StreamsInv, StreamsTypeOK
    <2> QED BY <1>2, <1>3, <2>1, <1>1 DEF QueryBatch, StreamsInv, StreamsTypeOK, QueryHonest, Answered
  <1>4. ASSUME NEW o \in Outcome, QueryEnd(o) PROVE StreamsInv'
    <2>1. /\ outcome' = o /\ drained' = TRUE /\ UNCHANGED <<request, sent>>
          /\ told' \in {o, NoOutcome, told} /\ status' \in {"OK", "error"}
      BY <1>4 DEF QueryEnd, Closing
    <2>2. StreamsTypeOK'
      BY <1>1, <2>1 DEF StreamsInv, StreamsTypeOK
    <2>3. ASSUME status' = "OK" PROVE QueryHonest'
      <3>1. /\ Accepts(request, o)
            /\ told' = IF request.acceptOutcome THEN o ELSE NoOutcome
        BY <1>4, <2>3 DEF QueryEnd
      <3>2. request \in QueryRequest
        BY <1>1, Requests DEF StreamsInv, StreamsTypeOK
      <3>3. o.completion = "PARTIAL" => request.allowPartial /\ "CAUSE" \in o.warnings
        BY <3>1 DEF Accepts, validateQueryOutcome
      <3>4. ~request.acceptOutcome => o = Complete
        BY <3>1, <3>3 DEF Accepts, validateQueryOutcome, Outcome, Complete
      <3>5. told' = o \/ (told' = NoOutcome /\ o = Complete)
        BY <3>1, <3>4
      <3> QED BY <2>1, <3>3, <3>5 DEF QueryHonest
    <2> QED BY <1>2, <2>1, <2>2, <2>3 DEF StreamsInv, QueryHonest, Answered
  <1> QED BY <1>3, <1>4

LEMMA LobKeeps ==
    ASSUME StreamsInv, NEW c \in Chunk, LobChunk(c)
    PROVE  StreamsInv'
  <1>1. /\ request.rpc = "ReadLob" /\ status = "running" /\ Passes(request, c)
        /\ sent' = Append(sent, c) /\ UNCHANGED <<request, outcome, told, drained>>
        /\ expected' = AddUint(expected, c.size) /\ bytes' = AddUint(bytes, c.size)
        /\ status' \in {"OK", "error", "running"} /\ (status' = "OK" => c.end)
        /\ (c.end => status' # "running")
    BY DEF LobChunk, Serving, Closing
  <1>2. request \in LobRequest /\ Rpc("ReadLob")
    BY <1>1, Requests DEF StreamsInv, StreamsTypeOK, Rpc
  <1> DEFINE r == request
             s == sent
             n == Len(sent)
  <1>3. /\ r.offset \in Nat /\ r.length \in Nat /\ r.maxChunk \in Nat /\ NoLength \in Nat
        /\ c.offset \in Nat /\ c.size \in Nat /\ c.offset <= MaxUint /\ MaxUint \in Nat
        /\ expected \in Nat /\ bytes \in Nat
    BY <1>2, Requests, StreamsAssumption DEF StreamsInv, StreamsTypeOK, Chunk, NoLength
  <1>4. /\ s \in Seq(Chunk) /\ Contiguous(r, s) /\ expected = SentTo(r, s)
        /\ r.offset <= expected /\ bytes = expected - r.offset
        /\ \A i \in DOMAIN s : ~s[i].end
    BY <1>1, <1>2 DEF StreamsInv, LobInv
  <1>5. /\ c.offset = expected /\ c.size <= MaxUint - expected
        /\ r.maxChunk > 0 => c.size <= r.maxChunk
        /\ r.length # NoLength => (c.size <= r.length /\ bytes <= r.length - c.size)
    BY <1>1 DEF Passes
  <1>6. /\ expected' = c.offset + c.size /\ bytes' = bytes + c.size
        /\ expected' <= MaxUint /\ bytes' <= MaxUint
    <2>1. expected + c.size <= MaxUint /\ bytes + c.size <= MaxUint
      BY <1>3, <1>4, <1>5
    <2> QED BY <1>1, <1>3, <1>5, <2>1, NoWrap
  <1>7. /\ sent' \in Seq(Chunk) /\ n \in Nat /\ Len(sent') = n + 1
        /\ DOMAIN s = 1 .. n /\ DOMAIN sent' = 1 .. n + 1
        /\ \A i \in 1 .. n : sent'[i] = s[i] /\ i # n + 1
        /\ sent'[n + 1] = c /\ sent' # <<>> /\ (s = <<>> <=> n = 0)
    BY <1>1, <1>4, Appended
  <1>8. WithinRequest(r, c)
    <2>1. r.offset <= c.offset /\ c.offset + c.size <= MaxUint
      BY <1>3, <1>4, <1>5
    <2>2. r.length # NoLength => c.offset + c.size - r.offset <= r.length
      BY <1>3, <1>4, <1>5
    <2> QED BY <1>5, <2>1, <2>2 DEF WithinRequest
  <1>9. Contiguous(r, sent')
    <2>1. ASSUME NEW i \in 1 .. n
          PROVE  /\ WithinRequest(r, sent'[i])
                 /\ sent'[i].offset = IF i = 1 THEN r.offset
                                      ELSE sent'[i - 1].offset + sent'[i - 1].size
      <3>1. i # 1 => i - 1 \in 1 .. n
        BY <1>7
      <3> QED BY <1>4, <1>7, <3>1 DEF Contiguous
    <2>2. /\ WithinRequest(r, sent'[n + 1])
          /\ sent'[n + 1].offset = IF n + 1 = 1 THEN r.offset
                                   ELSE sent'[n + 1 - 1].offset + sent'[n + 1 - 1].size
      <3>1. n + 1 = 1 => c.offset = r.offset
        BY <1>4, <1>5, <1>7 DEF SentTo
      <3>2. n + 1 # 1 => /\ n + 1 - 1 = n /\ sent'[n] = s[n]
                         /\ c.offset = s[n].offset + s[n].size
        BY <1>4, <1>5, <1>7 DEF SentTo
      <3> QED BY <1>7, <1>8, <3>1, <3>2
    <2>3. \A i \in 1 .. n + 1 : i \in 1 .. n \/ i = n + 1
      BY <1>7
    <2> HIDE DEF n, r
    <2> QED BY <1>7, <2>1, <2>2, <2>3 DEF Contiguous
  <1>10. expected' = SentTo(r, sent') /\ r.offset <= expected' /\ bytes' = expected' - r.offset
    <2>1. SentTo(r, sent') = c.offset + c.size
      BY <1>7 DEF SentTo
    <2>2. expected' = SentTo(r, sent') /\ expected' = expected + c.size
      BY <1>5, <1>6, <2>1
    <2> DEFINE o == r.offset
    <2>3. o \in Nat /\ c.size \in Nat /\ o <= expected /\ bytes = expected - o /\ expected \in Nat
      BY <1>3, <1>4
    <2> HIDE DEF o
    <2>4. o <= expected' /\ bytes' = expected' - o
      BY <1>6, <2>2, <2>3
    <2> QED BY <2>2, <2>4 DEF o
  <1>11. /\ \A i \in DOMAIN sent' : sent'[i].end => i = Len(sent') /\ status' # "running"
         /\ status' = "OK" => sent' # <<>> /\ sent'[Len(sent')].end
    <2>1. \A i \in 1 .. n + 1 : i \in 1 .. n \/ i = n + 1
      BY <1>7
    <2> HIDE DEF n
    <2> QED BY <1>1, <1>4, <1>7, <2>1
  <1>12. LobInv'
    BY <1>1, <1>7, <1>9, <1>10, <1>11 DEF LobInv
  <1>13. RecoverInv' /\ QueryHonest'
    BY <1>1, <1>2 DEF RecoverInv, Rpc, QueryHonest, Answered
  <1>14. StreamsTypeOK'
    <2>1. sent' \in Seq(Chunk \cup Recovered \cup {ABatch})
      BY <1>1 DEF StreamsInv, StreamsTypeOK
    <2>2. expected' \in 0 .. MaxUint /\ bytes' \in 0 .. MaxUint
      BY <1>3, <1>6
    <2> QED BY <1>1, <2>1, <2>2 DEF StreamsInv, StreamsTypeOK
  <1> QED BY <1>12, <1>13, <1>14 DEF StreamsInv

LEMMA RecoverKeeps ==
    ASSUME StreamsInv, NEW batch \in RecoveryBatch, RecoverBatch(batch)
    PROVE  StreamsInv'
  <1>1. /\ request.rpc = "Recover" /\ status = "running" /\ Admits(batch)
        /\ sent' = sent \o batch
        /\ UNCHANGED <<request, outcome, told, drained, expected, bytes, status>>
    BY DEF RecoverBatch, Serving
  <1>2. Rpc("Recover") /\ ~Rpc("ReadLob") /\ ~Rpc("Query")
    BY <1>1 DEF Rpc, NoRequest
  <1>3. batch \in Seq(Recovered)
    <2>1. PICK k \in 0 .. MaxBatch : batch \in [1 .. k -> Recovered]
      BY DEF RecoveryBatch
    <2>2. k \in Nat
      BY StreamsAssumption
    <2> QED BY <2>1, <2>2
  <1> DEFINE s == sent
             n == Len(sent)
             m == Len(batch)
  <1>4. /\ s \in Seq(Recovered)
        /\ \A i, j \in DOMAIN s : s[i].branch = s[j].branch => i = j
        /\ \A i \in DOMAIN s : validRecoveryState(s[i].state)
    BY <1>2 DEF StreamsInv, RecoverInv
  <1>5. /\ n \in Nat /\ m \in Nat /\ DOMAIN s = 1 .. n /\ DOMAIN batch = 1 .. m
        /\ sent' \in Seq(Recovered) /\ DOMAIN sent' = 1 .. n + m
        /\ \A i \in 1 .. n : sent'[i] = s[i]
        /\ \A i \in 1 .. m : sent'[n + i] = batch[i]
    BY <1>1, <1>3, <1>4
  <1>6. \A i \in 1 .. n + m : i \in 1 .. n \/ \E k \in 1 .. m : i = n + k
    <2> SUFFICES ASSUME NEW i \in 1 .. n + m, i \notin 1 .. n
                 PROVE  \E k \in 1 .. m : i = n + k
      OBVIOUS
    <2>1. i - n \in 1 .. m /\ i = n + (i - n)
      BY <1>5
    <2> QED BY <2>1
  <1>7. /\ \A i \in 1 .. m : validRecoveryState(batch[i].state)
        /\ \A i \in 1 .. m, j \in 1 .. n : s[j].branch # batch[i].branch
        /\ \A i \in 1 .. m : \A j \in 1 .. i - 1 : batch[j].branch # batch[i].branch
    BY <1>1, <1>5 DEF Admits
  <1>8. \A i, j \in 1 .. m : batch[i].branch = batch[j].branch => i = j
    <2> SUFFICES ASSUME NEW i \in 1 .. m, NEW j \in 1 .. m, i # j, batch[i].branch = batch[j].branch
                 PROVE  FALSE
      OBVIOUS
    <2>1. i \in 1 .. j - 1 \/ j \in 1 .. i - 1
      BY <1>5
    <2> QED BY <1>7, <2>1
  <1> HIDE DEF n, m, s
  <1>9. ASSUME NEW i \in DOMAIN sent'
        PROVE  /\ validRecoveryState(sent'[i].state)
               /\ \/ i \in 1 .. n /\ sent'[i] = s[i]
                  \/ \E k \in 1 .. m : i = n + k /\ sent'[i] = batch[k]
    <2>1. CASE i \in 1 .. n
      BY <1>4, <1>5, <2>1
    <2>2. CASE i \notin 1 .. n
      <3>1. PICK k \in 1 .. m : i = n + k
        BY <1>5, <1>6, <2>2
      <3>2. sent'[i] = batch[k]
        BY <1>5, <3>1
      <3> QED BY <1>7, <3>1, <3>2
    <2> QED BY <2>1, <2>2
  <1>10. ASSUME NEW i \in DOMAIN sent', NEW j \in DOMAIN sent', sent'[i].branch = sent'[j].branch
         PROVE  i = j
    <2>1. CASE sent'[i] = s[i] /\ i \in 1 .. n
      <3>1. j \in 1 .. n /\ sent'[j] = s[j]
        BY <1>7, <1>9, <1>10, <2>1
      <3> QED BY <1>4, <1>5, <1>10, <2>1, <3>1
    <2>2. ASSUME NEW k \in 1 .. m, i = n + k, sent'[i] = batch[k]
          PROVE  i = j
      <3>1. PICK l \in 1 .. m : j = n + l /\ sent'[j] = batch[l]
        BY <1>7, <1>9, <1>10, <2>2
      <3>2. k = l
        BY <1>8, <1>10, <2>2, <3>1
      <3> QED BY <2>2, <3>1, <3>2
    <2> QED BY <1>9, <2>1, <2>2
  <1>11. RecoverInv' /\ LobInv' /\ QueryHonest'
    BY <1>1, <1>2, <1>5, <1>9, <1>10 DEF RecoverInv, LobInv, Rpc, QueryHonest, Answered
  <1>12. sent' \in Seq(Chunk \cup Recovered \cup {ABatch})
    BY <1>5
  <1> QED BY <1>1, <1>11, <1>12 DEF StreamsInv, StreamsTypeOK

LEMMA RecoverEndKeeps ==
    ASSUME StreamsInv, RecoverEnd
    PROVE  StreamsInv'
  <1>1. /\ request.rpc = "Recover" /\ drained' = TRUE /\ status' \in {"OK", "error"}
        /\ UNCHANGED <<request, sent, outcome, told, expected, bytes>>
    BY DEF RecoverEnd, Closing
  <1>2. RecoverInv' /\ LobInv' /\ QueryHonest'
    BY <1>1 DEF StreamsInv, RecoverInv, LobInv, Rpc, QueryHonest, Answered
  <1> QED BY <1>1, <1>2 DEF StreamsInv, StreamsTypeOK

LEMMA StreamStep ==
    ASSUME StreamsInv, StreamNext \/ UNCHANGED streamVars
    PROVE  StreamsInv'
  <1>1. CASE UNCHANGED streamVars
    BY <1>1 DEF streamVars, StreamsInv, StreamsTypeOK, RecoverInv, LobInv, Rpc, QueryHonest, Answered
  <1> QED BY <1>1, StartKeeps, FailKeeps, QueryKeeps, LobKeeps, RecoverKeeps, RecoverEndKeeps
        DEF StreamNext

(***************************************************************************)
(* The unary handlers: whom a call reached is what the request and the     *)
(* provider's manager say, and the capabilities a client was told agree    *)
(* with that manager.                                                      *)
(***************************************************************************)
UnaryInv ==
    /\ UnaryTypeOK
    /\ advert = "unsupported" => manager = "none"
    /\ advert \in ResourceManager => manager = advert
    /\ IF asked \in UnaryRequest THEN reached = Callee(asked) ELSE reached = "nobody"
    /\ result = "running" => asked \in UnaryRequest /\ reached # "nobody"
    /\ (asked \in BranchRequest /\ result = "OK") =>
         reached # "nobody" /\ reply # "none" /\ Passed(asked, reply)

LEMMA UnaryRequests ==
    /\ NoRequest \notin UnaryRequest /\ CapabilitiesRequest \notin UnaryRequest
    /\ BranchRequest \subseteq UnaryRequest
    /\ \A r \in BranchRequest :
         r.rpc \in {"Begin", "Prepare", "Commit", "Rollback", "Status", "Forget"}
  BY DEF NoRequest, CapabilitiesRequest, UnaryRequest, BranchRequest, MutationRequest,
         NativeRequest, ReleaseRequest

LEMMA CalleeType ==
    ASSUME NEW r
    PROVE  Callee(r) \in {"connection", "manager", "nobody"}
  <1>1. BranchCallee(r) \in {"connection", "manager", "nobody"}
    BY DEF BranchCallee, BranchConnection, CommitTransactionBranch, RollbackTransactionBranch
  <1>2. /\ MutationCallee(r) \in {"connection", "nobody"}
        /\ NativeCallee(r) \in {"connection", "nobody"}
        /\ ReleaseLobCallee(r) \in {"connection", "nobody"}
    BY DEF MutationCallee, NativeCallee, ReleaseLobCallee
  <1> QED BY <1>1, <1>2 DEF Callee

\* The manager is called for a two-phase commit or rollback, a status or a forget
\* of a branch that names it.
LEMMA ManagerCalled ==
    ASSUME NEW r \in UnaryRequest, Callee(r) = "manager"
    PROVE  /\ r \in BranchRequest /\ r.rpc \in {"Commit", "Rollback", "Status", "Forget"}
           /\ r.rpc = "Commit" => ~r.onePhase
           /\ r.rpc \in {"Commit", "Rollback"} => r.conn = "absent"
  <1>1. r \in BranchRequest /\ BranchCallee(r) = "manager"
    BY DEF Callee, MutationCallee, NativeCallee, ReleaseLobCallee
  <1>2. r.rpc \in {"Begin", "Prepare", "Commit", "Rollback", "Status", "Forget"}
    BY <1>1, UnaryRequests
  <1>3. CASE r.rpc \in {"Begin", "Prepare"}
    BY <1>1, <1>3 DEF BranchCallee, BranchConnection
  <1>4. CASE r.rpc = "Commit"
    BY <1>1, <1>4 DEF BranchCallee, BranchConnection, CommitTransactionBranch
  <1>5. CASE r.rpc = "Rollback"
    BY <1>1, <1>5 DEF BranchCallee, BranchConnection, RollbackTransactionBranch
  <1>6. CASE r.rpc \in {"Status", "Forget"}
    BY <1>1, <1>6
  <1> QED BY <1>1, <1>2, <1>3, <1>4, <1>5, <1>6

\* A branch call that reaches anybody names the provider's manager.
LEMMA BranchCalled ==
    ASSUME NEW r \in BranchRequest, Callee(r) # "nobody"
    PROVE  manager \in ResourceManager /\ r.branch = manager
  <1>1. r \notin MutationRequest /\ r \notin NativeRequest
    BY UnaryRequests DEF MutationRequest, NativeRequest
  <1>2. BranchCallee(r) # "nobody"
    BY <1>1 DEF Callee
  <1>3. prepareTransactionBranchRequest(r.branch)
    BY <1>2 DEF BranchCallee
  <1> QED BY <1>3 DEF prepareTransactionBranchRequest, transactionRecoveryManager,
             validateTransactionBranchID

LEMMA AskKeeps ==
    ASSUME UnaryInv, NEW r \in UnaryRequest, Ask(r)
    PROVE  UnaryInv'
  <1>1. /\ asked' = r /\ reply' = "none" /\ reached' = Callee(r)
        /\ manager' = manager /\ advert' = advert
        /\ result' = IF Callee(r) = "nobody" THEN "error" ELSE "running"
    BY DEF Ask
  <1>2. Callee(r)' = Callee(r)
    BY <1>1 DEF Callee, BranchCallee, prepareTransactionBranchRequest,
                transactionRecoveryManager, MutationCallee, NativeCallee, ReleaseLobCallee
  <1>3. UnaryTypeOK'
    BY <1>1, CalleeType DEF UnaryInv, UnaryTypeOK
  <1>4. Callee(asked)' = Callee(r)
    BY <1>1, <1>2
  <1> QED BY <1>1, <1>3, <1>4 DEF UnaryInv

LEMMA AnswerKeeps ==
    ASSUME UnaryInv, NEW a \in BranchState \cup {"done", "unsupported", "failed"}, Answer(a)
    PROVE  UnaryInv'
  <1>1. /\ asked' = asked /\ reached' = reached /\ manager' = manager /\ advert' = advert
        /\ result = "running" /\ result' \in {"OK", "error"}
        /\ result' = "OK" => reply' = a /\ Passed(asked, a) /\ a # "failed"
        /\ reply' \in {a, reply} /\ (result' # "OK" => reply' = reply)
    BY DEF Answer
  <1>2. Callee(asked)' = Callee(asked)
    BY <1>1 DEF Callee, BranchCallee, prepareTransactionBranchRequest,
                transactionRecoveryManager, MutationCallee, NativeCallee, ReleaseLobCallee
  <1>3. a \in Answers(asked) \cup {"failed"}
    BY DEF Answer
  <1>4. a = "unsupported" => asked.rpc = "Insert"
    BY <1>3 DEF Answers, BranchState
  <1>5. result' = "OK" => reply' \in BranchState \cup {"done"}
    BY <1>1, <1>4 DEF Passed
  <1>6. UnaryTypeOK'
    BY <1>1, <1>5 DEF UnaryInv, UnaryTypeOK
  <1>7. "none" \notin BranchState \cup {"done"}
    BY DEF BranchState
  <1> QED BY <1>1, <1>2, <1>5, <1>6, <1>7 DEF UnaryInv

LEMMA CapabilitiesKeep ==
    ASSUME UnaryInv, NEW c \in BranchId \cup {"unsupported"}, GetCapabilities(c)
    PROVE  UnaryInv'
  <1>1. /\ asked' = CapabilitiesRequest /\ reached' = "nobody" /\ manager' = manager
        /\ result' \in {"OK", "error"} /\ reply' \in {"done", "none"}
        /\ \/ /\ c # "malformed" /\ validateTransactionRecoveryImplementation(c) /\ advert' = c
           \/ advert' = advert
    BY DEF GetCapabilities
  <1>2. /\ advert' \in ResourceManager \cup {"unknown", "unsupported"}
        /\ advert' = "unsupported" => manager' = "none"
        /\ advert' \in ResourceManager => manager' = advert'
    BY <1>1, StreamsAssumption DEF UnaryInv, UnaryTypeOK, BranchId,
       validateTransactionRecoveryImplementation, transactionRecoveryManager
  <1>3. asked' \notin UnaryRequest /\ asked' \notin BranchRequest
    BY <1>1, UnaryRequests
  <1>4. UnaryTypeOK'
    BY <1>1, <1>2 DEF UnaryInv, UnaryTypeOK
  <1> QED BY <1>1, <1>2, <1>3, <1>4 DEF UnaryInv

LEMMA UnaryStep ==
    ASSUME UnaryInv, UnaryNext \/ UNCHANGED unaryVars
    PROVE  UnaryInv'
  <1>1. CASE UNCHANGED unaryVars
    <2>1. Callee(asked)' = Callee(asked)
      BY <1>1 DEF unaryVars, Callee, BranchCallee, prepareTransactionBranchRequest,
                transactionRecoveryManager, MutationCallee, NativeCallee, ReleaseLobCallee
    <2> QED BY <1>1, <2>1 DEF unaryVars, UnaryInv, UnaryTypeOK
  <1> QED BY <1>1, AskKeeps, AnswerKeeps, CapabilitiesKeep DEF UnaryNext

LEMMA UnaryInitial == StreamsInit => UnaryInv
  BY UnaryRequests, StreamsAssumption DEF StreamsInit, UnaryInv, UnaryTypeOK

\* What the inductive invariant says of the calls is what a coordinator relies on.
LEMMA UnaryRelied == UnaryInv => UnaryExact
  <1> SUFFICES ASSUME UnaryInv PROVE UnaryExact
    OBVIOUS
  <1>1. asked \in BranchRequest /\ reached # "nobody" =>
          manager \in ResourceManager /\ asked.branch = manager
    BY UnaryRequests, BranchCalled DEF UnaryInv
  <1>2. reached = "manager" => asked \in UnaryRequest /\ Callee(asked) = "manager"
    BY DEF UnaryInv
  <1>3. advert = "unsupported" => (asked \in BranchRequest => reached = "nobody")
    BY <1>1, StreamsAssumption DEF UnaryInv
  <1>4. advert \in ResourceManager =>
          (asked \in BranchRequest /\ reached # "nobody" => asked.branch = advert)
    BY <1>1 DEF UnaryInv
  <1>5. (asked \in BranchRequest /\ result = "OK") =>
          /\ reached # "nobody"
          /\ asked.rpc \in {"Commit", "Rollback"} =>
               reply \notin {"UNSPECIFIED", "unnamed", "ACTIVE", "PREPARED", "none"}
          /\ asked.rpc = "Prepare" => reply \in {"PREPARED", "READ_ONLY"}
    BY DEF UnaryInv, Passed, validPrepareOutcome, validResolutionState
  <1> QED BY <1>2, <1>3, <1>4, <1>5, ManagerCalled DEF UnaryExact, UnaryInv

LEMMA StreamsStep ==
    ASSUME StreamsInv /\ UnaryInv, [StreamsNext]_streamsVars
    PROVE  (StreamsInv /\ UnaryInv)'
  <1>1. \/ StreamNext /\ UNCHANGED unaryVars
        \/ UnaryNext /\ UNCHANGED streamVars
        \/ UNCHANGED streamVars /\ UNCHANGED unaryVars
    BY DEF StreamsNext, streamsVars
  <1> QED BY <1>1, StreamStep, UnaryStep

\* Whatever a provider returns, a query is answered honestly, a LOB and a
\* recovery scan exactly, and a branch operation by the party that owns the branch
\* and with a state that means what the call promises, for any integer width, LOB,
\* request, resource managers and branches (Query, ReadLob,
\* RecoverTransactionBranches, CommitTransactionBranch and the other handlers).
THEOREM StreamsAlwaysExact == StreamsSpec => []StreamsExact
  <1>1. StreamsInv /\ UnaryInv => StreamsExact
    <2> SUFFICES ASSUME StreamsInv, UnaryInv PROVE StreamsExact
      OBVIOUS
    <2>1. LobExact
      BY DEF StreamsInv, LobExact, LobInv, Rpc, Contiguous, WithinRequest
    <2>2. QueryHonest /\ RecoverExact
      BY DEF StreamsInv, RecoverExact, RecoverInv, Rpc
    <2> QED BY <2>1, <2>2, UnaryRelied DEF StreamsExact
  <1>2. StreamsInit => StreamsInv /\ UnaryInv
    BY StreamsInitial, UnaryInitial
  <1> QED BY <1>1, <1>2, StreamsStep, PTL DEF StreamsSpec
=============================================================================
