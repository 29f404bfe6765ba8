---------------------------- MODULE BACnetProofs ----------------------------
(***************************************************************************)
(* Proofs about the discovery of the BACnet provider.  BACnetManager, for  *)
(* any attachments, scopes and requests: the inductive invariant IndInv,   *)
(* and from it UsedOpen and NothingLeft.  BACnetRegistry, for any devices, *)
(* routes, static configurations and TTL: RegistryExact and DevicesKept,   *)
(* from RegistryInd.                                                       *)
(***************************************************************************)
EXTENDS BACnetManager, BACnetRegistry, TLAPS

-----------------------------------------------------------------------------
(* The discovery manager                                                    *)

\* The fields a request has at each program counter.
LEMMA RequestFields ==
    ASSUME NEW r \in Request \cup {Idle}
    PROVE  /\ r = Idle <=> r.pc = "idle"
           /\ r.pc \in {"status", "acquire", "check", "using"} => r.at \in Attachment
           /\ r.pc \in {"snapshot", "status"} => r.todo \subseteq Attachment
           /\ r.pc \in {"idle", "snapshot", "status", "acquire", "check", "using"}
BY DEF Request, Idle

\* The fields Close has at each program counter.
LEMMA CloserFields ==
    ASSUME NEW c \in Closing \cup {Idle}
    PROVE  /\ c = Idle <=> c.pc = "idle"
           /\ c.pc \in {"lockUse", "closing"} => c.at \in Attachment
           /\ c.pc \in {"next", "lockUse", "closing"} => c.todo \subseteq Attachment
           /\ c.pc \in {"idle", "cancel", "wait", "next", "lockUse", "closing", "done"}
BY DEF Closing, Idle

\* OpenClient keeps the inductive invariant.
LEMMA OpenClientInd ==
    ASSUME IndInv, NEW a \in Attachment, OpenClient(a)
    PROVE  IndInv'
<1>0. /\ \A q \in Caller : call[q] \in Request \cup {Idle}
      /\ closer \in Closing \cup {Idle}
    BY DEF IndInv, TypeOK
<1> USE RequestFields, CloserFields, TopologyAssumption, <1>0 DEF OpenClient, Settled, manager, IndInv, TypeOK, InRefresh, Reading
<1>1. TypeOK'
    BY DEF Request, Closing, Idle
<1>2. LoopLocks'
    BY DEF LoopLocks, Idle
<1>3. CallLocks'
    BY DEF CallLocks, Idle
<1>4. CloseLocks'
    BY DEF CloseLocks, LoopLocks, CallLocks, Idle
<1>5. ClientsExact'
    BY DEF ClientsExact, Idle
<1>6. UsedOpen'
    BY DEF UsedOpen, ClientsExact, LoopLocks, CallLocks, Idle
<1> QED BY <1>1, <1>2, <1>3, <1>4, <1>5, <1>6 DEF IndInv

\* OpenFails keeps the inductive invariant.
LEMMA OpenFailsInd ==
    ASSUME IndInv, NEW a \in Attachment, OpenFails(a)
    PROVE  IndInv'
<1>0. /\ \A q \in Caller : call[q] \in Request \cup {Idle}
      /\ closer \in Closing \cup {Idle}
    BY DEF IndInv, TypeOK
<1> USE RequestFields, CloserFields, TopologyAssumption, <1>0 DEF OpenFails, Settled, manager, IndInv, TypeOK, InRefresh, Reading
<1>1. TypeOK'
    BY DEF Request, Closing, Idle
<1>2. LoopLocks'
    BY DEF LoopLocks, Idle
<1>3. CallLocks'
    BY DEF CallLocks, Idle
<1>4. CloseLocks'
    BY DEF CloseLocks, LoopLocks, CallLocks, Idle
<1>5. ClientsExact'
    BY DEF ClientsExact, Idle
<1>6. UsedOpen'
    BY DEF UsedOpen, ClientsExact, LoopLocks, CallLocks, Idle
<1> QED BY <1>1, <1>2, <1>3, <1>4, <1>5, <1>6 DEF IndInv

\* Start keeps the inductive invariant.
LEMMA StartInd ==
    ASSUME IndInv, Start
    PROVE  IndInv'
<1>0. /\ \A q \in Caller : call[q] \in Request \cup {Idle}
      /\ closer \in Closing \cup {Idle}
    BY DEF IndInv, TypeOK
<1> USE RequestFields, CloserFields, TopologyAssumption, <1>0 DEF Start, manager, IndInv, TypeOK, InRefresh, Reading
<1>1. TypeOK'
    BY DEF Request, Closing, Idle
<1>2. LoopLocks'
    BY DEF LoopLocks, ClientsExact, Idle
<1>3. CallLocks'
    BY DEF CallLocks, Idle
<1>4. CloseLocks'
    BY DEF CloseLocks, LoopLocks, CallLocks, Idle
<1>5. ClientsExact'
    BY DEF ClientsExact, Idle
<1>6. UsedOpen'
    BY DEF UsedOpen, ClientsExact, LoopLocks, CallLocks, Idle
<1> QED BY <1>1, <1>2, <1>3, <1>4, <1>5, <1>6 DEF IndInv

\* BeginRefresh keeps the inductive invariant.
LEMMA BeginRefreshInd ==
    ASSUME IndInv, NEW s \in Scope, BeginRefresh(s)
    PROVE  IndInv'
<1>0. /\ \A q \in Caller : call[q] \in Request \cup {Idle}
      /\ closer \in Closing \cup {Idle}
    BY DEF IndInv, TypeOK
<1> USE RequestFields, CloserFields, TopologyAssumption, <1>0 DEF BeginRefresh, Moves, manager, IndInv, TypeOK, InRefresh, Reading
<1>1. TypeOK'
    BY DEF Request, Closing, Idle
<1>2. LoopLocks'
    BY DEF LoopLocks, Idle
<1>3. CallLocks'
    BY DEF CallLocks, Idle
<1>4. CloseLocks'
    BY DEF CloseLocks, LoopLocks, CallLocks, Idle
<1>5. ClientsExact'
    BY DEF ClientsExact, Idle
<1>6. UsedOpen'
    BY DEF UsedOpen, ClientsExact, LoopLocks, CallLocks, Idle
<1> QED BY <1>1, <1>2, <1>3, <1>4, <1>5, <1>6 DEF IndInv

\* LockDiscovery keeps the inductive invariant.
LEMMA LockDiscoveryInd ==
    ASSUME IndInv, NEW s \in Scope, LockDiscovery(s)
    PROVE  IndInv'
<1>0. /\ \A q \in Caller : call[q] \in Request \cup {Idle}
      /\ closer \in Closing \cup {Idle}
    BY DEF IndInv, TypeOK
<1> USE RequestFields, CloserFields, TopologyAssumption, <1>0 DEF LockDiscovery, Moves, manager, IndInv, TypeOK, InRefresh, Reading
<1>1. TypeOK'
    BY DEF Request, Closing, Idle
<1>2. LoopLocks'
    BY DEF LoopLocks, Idle
<1>3. CallLocks'
    BY DEF CallLocks, Idle
<1>4. CloseLocks'
    BY DEF CloseLocks, LoopLocks, CallLocks, Idle
<1>5. ClientsExact'
    BY DEF ClientsExact, Idle
<1>6. UsedOpen'
    BY DEF UsedOpen, ClientsExact, LoopLocks, CallLocks, Idle
<1> QED BY <1>1, <1>2, <1>3, <1>4, <1>5, <1>6 DEF IndInv

\* LockUse keeps the inductive invariant.
LEMMA LockUseInd ==
    ASSUME IndInv, NEW s \in Scope, LockUse(s)
    PROVE  IndInv'
<1>0. /\ \A q \in Caller : call[q] \in Request \cup {Idle}
      /\ closer \in Closing \cup {Idle}
    BY DEF IndInv, TypeOK
<1> USE RequestFields, CloserFields, TopologyAssumption, <1>0 DEF LockUse, Moves, Readable, manager, IndInv, TypeOK, InRefresh, Reading
<1>1. TypeOK'
    BY DEF Request, Closing, Idle
<1>2. LoopLocks'
    BY DEF LoopLocks, Idle
<1>3. CallLocks'
    BY DEF CallLocks, Idle
<1>4. CloseLocks'
    BY DEF CloseLocks, LoopLocks, CallLocks, Idle
<1>5. ClientsExact'
    BY DEF ClientsExact, Idle
<1>6. UsedOpen'
    BY DEF UsedOpen, ClientsExact, LoopLocks, CallLocks, Idle
<1> QED BY <1>1, <1>2, <1>3, <1>4, <1>5, <1>6 DEF IndInv

\* Recheck keeps the inductive invariant.
LEMMA RecheckInd ==
    ASSUME IndInv, NEW s \in Scope, Recheck(s)
    PROVE  IndInv'
<1>0. /\ \A q \in Caller : call[q] \in Request \cup {Idle}
      /\ closer \in Closing \cup {Idle}
    BY DEF IndInv, TypeOK
<1> USE RequestFields, CloserFields, TopologyAssumption, <1>0 DEF Recheck, Moves, Return, manager, IndInv, TypeOK, InRefresh, Reading
<1>1. TypeOK'
  <2>1. CASE closed
    BY <2>1 DEF Request, Closing, Idle
  <2>2. CASE ~closed
    BY <2>2 DEF Request, Closing, Idle
  <2> QED BY <2>1, <2>2
<1>2. LoopLocks'
    BY DEF LoopLocks, Idle
<1>3. CallLocks'
    BY DEF CallLocks, Idle
<1>4. CloseLocks'
    BY DEF CloseLocks, LoopLocks, CallLocks, Idle
<1>5. ClientsExact'
    BY DEF ClientsExact, Idle
<1>6. UsedOpen'
    BY DEF UsedOpen, ClientsExact, LoopLocks, CallLocks, Idle
<1> QED BY <1>1, <1>2, <1>3, <1>4, <1>5, <1>6 DEF IndInv

\* Discovered keeps the inductive invariant.
LEMMA DiscoveredInd ==
    ASSUME IndInv, NEW s \in Scope, Discovered(s)
    PROVE  IndInv'
<1>0. /\ \A q \in Caller : call[q] \in Request \cup {Idle}
      /\ closer \in Closing \cup {Idle}
    BY DEF IndInv, TypeOK
<1> USE RequestFields, CloserFields, TopologyAssumption, <1>0 DEF Discovered, Moves, Return, manager, IndInv, TypeOK, InRefresh, Reading
<1>1. TypeOK'
    BY DEF Request, Closing, Idle
<1>2. LoopLocks'
    BY DEF LoopLocks, Idle
<1>3. CallLocks'
    BY DEF CallLocks, Idle
<1>4. CloseLocks'
    BY DEF CloseLocks, LoopLocks, CallLocks, Idle
<1>5. ClientsExact'
    BY DEF ClientsExact, Idle
<1>6. UsedOpen'
    BY DEF UsedOpen, ClientsExact, LoopLocks, CallLocks, Idle
<1> QED BY <1>1, <1>2, <1>3, <1>4, <1>5, <1>6 DEF IndInv

\* Identified keeps the inductive invariant.
LEMMA IdentifiedInd ==
    ASSUME IndInv, NEW s \in Scope, Identified(s)
    PROVE  IndInv'
<1>0. /\ \A q \in Caller : call[q] \in Request \cup {Idle}
      /\ closer \in Closing \cup {Idle}
    BY DEF IndInv, TypeOK
<1> USE RequestFields, CloserFields, TopologyAssumption, <1>0 DEF Identified, Moves, Return, manager, IndInv, TypeOK, InRefresh, Reading
<1>1. TypeOK'
    BY DEF Request, Closing, Idle
<1>2. LoopLocks'
    BY DEF LoopLocks, Idle
<1>3. CallLocks'
    BY DEF CallLocks, Idle
<1>4. CloseLocks'
    BY DEF CloseLocks, LoopLocks, CallLocks, Idle
<1>5. ClientsExact'
    BY DEF ClientsExact, Idle
<1>6. UsedOpen'
    BY DEF UsedOpen, ClientsExact, LoopLocks, CallLocks, Idle
<1> QED BY <1>1, <1>2, <1>3, <1>4, <1>5, <1>6 DEF IndInv

\* Timer keeps the inductive invariant.
LEMMA TimerInd ==
    ASSUME IndInv, NEW s \in Scope, Timer(s)
    PROVE  IndInv'
<1>0. /\ \A q \in Caller : call[q] \in Request \cup {Idle}
      /\ closer \in Closing \cup {Idle}
    BY DEF IndInv, TypeOK
<1> USE RequestFields, CloserFields, TopologyAssumption, <1>0 DEF Timer, Moves, manager, IndInv, TypeOK, InRefresh, Reading
<1>1. TypeOK'
    BY DEF Request, Closing, Idle
<1>2. LoopLocks'
    BY DEF LoopLocks, Idle
<1>3. CallLocks'
    BY DEF CallLocks, Idle
<1>4. CloseLocks'
    BY DEF CloseLocks, LoopLocks, CallLocks, Idle
<1>5. ClientsExact'
    BY DEF ClientsExact, Idle
<1>6. UsedOpen'
    BY DEF UsedOpen, ClientsExact, LoopLocks, CallLocks, Idle
<1> QED BY <1>1, <1>2, <1>3, <1>4, <1>5, <1>6 DEF IndInv

\* Snapshot keeps the inductive invariant.
LEMMA SnapshotInd ==
    ASSUME IndInv, NEW p \in Caller, Snapshot(p)
    PROVE  IndInv'
<1>0. /\ \A q \in Caller : call[q] \in Request \cup {Idle}
      /\ closer \in Closing \cup {Idle}
    BY DEF IndInv, TypeOK
<1> USE RequestFields, CloserFields, TopologyAssumption, <1>0 DEF Snapshot, Becomes, manager, IndInv, TypeOK, InRefresh, Reading
<1>1. TypeOK'
    BY DEF Request, Closing, Idle
<1>2. LoopLocks'
    BY DEF LoopLocks, Idle
<1>3. CallLocks'
    BY DEF CallLocks, Idle
<1>4. CloseLocks'
    BY DEF CloseLocks, LoopLocks, CallLocks, Idle
<1>5. ClientsExact'
    BY DEF ClientsExact, Idle
<1>6. UsedOpen'
    BY DEF UsedOpen, ClientsExact, LoopLocks, CallLocks, Idle
<1> QED BY <1>1, <1>2, <1>3, <1>4, <1>5, <1>6 DEF IndInv

\* Status keeps the inductive invariant.
LEMMA StatusInd ==
    ASSUME IndInv, NEW p \in Caller, Status(p)
    PROVE  IndInv'
<1>0. /\ \A q \in Caller : call[q] \in Request \cup {Idle}
      /\ closer \in Closing \cup {Idle}
    BY DEF IndInv, TypeOK
<1> USE RequestFields, CloserFields, TopologyAssumption, <1>0 DEF Status, Becomes, Readable, manager, IndInv, TypeOK, InRefresh, Reading
<1>1. TypeOK'
    BY DEF Request, Closing, Idle
<1>2. LoopLocks'
  <2>1. p \notin Scope
    OBVIOUS
  <2>2. UNCHANGED <<loop, discoveryMu>>
    OBVIOUS
  <2>3. \A a \in Attachment, s \in Scope : s \in readers'[a] <=> s \in readers[a]
    <3>1. CASE call[p].pc = "snapshot"
      BY <2>1, <3>1 DEF Idle
    <3>2. CASE call[p].pc = "status"
      BY <2>1, <3>2 DEF Idle
    <3> QED BY <3>1, <3>2
  <2> QED BY <2>2, <2>3 DEF LoopLocks
<1>3. CallLocks'
    BY DEF CallLocks, Idle
<1>4. CloseLocks'
    BY DEF CloseLocks, LoopLocks, CallLocks, Idle
<1>5. ClientsExact'
    BY DEF ClientsExact, Idle
<1>6. UsedOpen'
    BY DEF UsedOpen, ClientsExact, LoopLocks, CallLocks, Idle
<1> QED BY <1>1, <1>2, <1>3, <1>4, <1>5, <1>6 DEF IndInv

\* Select keeps the inductive invariant.
LEMMA SelectInd ==
    ASSUME IndInv, NEW p \in Caller, Select(p)
    PROVE  IndInv'
<1>0. /\ \A q \in Caller : call[q] \in Request \cup {Idle}
      /\ closer \in Closing \cup {Idle}
    BY DEF IndInv, TypeOK
<1> USE RequestFields, CloserFields, TopologyAssumption, <1>0 DEF Select, Becomes, manager, IndInv, TypeOK, InRefresh, Reading
<1>1. TypeOK'
    BY DEF Request, Closing, Idle
<1>2. LoopLocks'
    BY DEF LoopLocks, Idle
<1>3. CallLocks'
    BY DEF CallLocks, Idle
<1>4. CloseLocks'
    BY DEF CloseLocks, LoopLocks, CallLocks, Idle
<1>5. ClientsExact'
    BY DEF ClientsExact, Idle
<1>6. UsedOpen'
    BY DEF UsedOpen, ClientsExact, LoopLocks, CallLocks, Idle
<1> QED BY <1>1, <1>2, <1>3, <1>4, <1>5, <1>6 DEF IndInv

\* Acquire keeps the inductive invariant.
LEMMA AcquireInd ==
    ASSUME IndInv, NEW p \in Caller, Acquire(p)
    PROVE  IndInv'
<1>0. /\ \A q \in Caller : call[q] \in Request \cup {Idle}
      /\ closer \in Closing \cup {Idle}
    BY DEF IndInv, TypeOK
<1> USE RequestFields, CloserFields, TopologyAssumption, <1>0 DEF Acquire, Becomes, Readable, manager, IndInv, TypeOK, InRefresh, Reading
<1>1. TypeOK'
    BY DEF Request, Closing, Idle
<1>2. LoopLocks'
    BY DEF LoopLocks, Idle
<1>3. CallLocks'
    BY DEF CallLocks, Idle
<1>4. CloseLocks'
    BY DEF CloseLocks, LoopLocks, CallLocks, Idle
<1>5. ClientsExact'
    BY DEF ClientsExact, Idle
<1>6. UsedOpen'
    BY DEF UsedOpen, ClientsExact, LoopLocks, CallLocks, Idle
<1> QED BY <1>1, <1>2, <1>3, <1>4, <1>5, <1>6 DEF IndInv

\* Check keeps the inductive invariant.
LEMMA CheckInd ==
    ASSUME IndInv, NEW p \in Caller, Check(p)
    PROVE  IndInv'
<1>0. /\ \A q \in Caller : call[q] \in Request \cup {Idle}
      /\ closer \in Closing \cup {Idle}
    BY DEF IndInv, TypeOK
<1> USE RequestFields, CloserFields, TopologyAssumption, <1>0 DEF Check, Becomes, Release, manager, IndInv, TypeOK, InRefresh, Reading
<1>1. TypeOK'
    BY DEF Request, Closing, Idle
<1>2. LoopLocks'
    BY DEF LoopLocks, Idle
<1>3. CallLocks'
    BY DEF CallLocks, Idle
<1>4. CloseLocks'
    BY DEF CloseLocks, LoopLocks, CallLocks, Idle
<1>5. ClientsExact'
    BY DEF ClientsExact, Idle
<1>6. UsedOpen'
    BY DEF UsedOpen, ClientsExact, LoopLocks, CallLocks, Idle
<1> QED BY <1>1, <1>2, <1>3, <1>4, <1>5, <1>6 DEF IndInv

\* Used keeps the inductive invariant.
LEMMA UsedInd ==
    ASSUME IndInv, NEW p \in Caller, Used(p)
    PROVE  IndInv'
<1>0. /\ \A q \in Caller : call[q] \in Request \cup {Idle}
      /\ closer \in Closing \cup {Idle}
    BY DEF IndInv, TypeOK
<1> USE RequestFields, CloserFields, TopologyAssumption, <1>0 DEF Used, Becomes, Release, manager, IndInv, TypeOK, InRefresh, Reading
<1>1. TypeOK'
    BY DEF Request, Closing, Idle
<1>2. LoopLocks'
    BY DEF LoopLocks, Idle
<1>3. CallLocks'
    BY DEF CallLocks, Idle
<1>4. CloseLocks'
    BY DEF CloseLocks, LoopLocks, CallLocks, Idle
<1>5. ClientsExact'
    BY DEF ClientsExact, Idle
<1>6. UsedOpen'
    BY DEF UsedOpen, ClientsExact, LoopLocks, CallLocks, Idle
<1> QED BY <1>1, <1>2, <1>3, <1>4, <1>5, <1>6 DEF IndInv

\* Close keeps the inductive invariant.
LEMMA CloseInd ==
    ASSUME IndInv, Close
    PROVE  IndInv'
<1>0. /\ \A q \in Caller : call[q] \in Request \cup {Idle}
      /\ closer \in Closing \cup {Idle}
    BY DEF IndInv, TypeOK
<1> USE RequestFields, CloserFields, TopologyAssumption, <1>0 DEF Close, manager, IndInv, TypeOK, InRefresh, Reading
<1>1. TypeOK'
    BY DEF Request, Closing, Idle
<1>2. LoopLocks'
    BY DEF LoopLocks, Idle
<1>3. CallLocks'
    BY DEF CallLocks, Idle
<1>4. CloseLocks'
  <2>1. closer.pc = "idle" /\ closer'.pc = "cancel"
    BY DEF ClientsExact, Idle
  <2> QED BY <2>1 DEF CloseLocks
<1>5. ClientsExact'
    BY DEF ClientsExact, Idle
<1>6. UsedOpen'
    BY DEF UsedOpen, ClientsExact, LoopLocks, CallLocks, Idle
<1> QED BY <1>1, <1>2, <1>3, <1>4, <1>5, <1>6 DEF IndInv

\* Cancel keeps the inductive invariant.
LEMMA CancelInd ==
    ASSUME IndInv, Cancel
    PROVE  IndInv'
<1>0. /\ \A q \in Caller : call[q] \in Request \cup {Idle}
      /\ closer \in Closing \cup {Idle}
    BY DEF IndInv, TypeOK
<1> USE RequestFields, CloserFields, TopologyAssumption, <1>0 DEF Cancel, manager, IndInv, TypeOK, InRefresh, Reading
<1>1. TypeOK'
    BY DEF Request, Closing, Idle
<1>2. LoopLocks'
    BY DEF LoopLocks, Idle
<1>3. CallLocks'
    BY DEF CallLocks, Idle
<1>4. CloseLocks'
    BY DEF CloseLocks, LoopLocks, CallLocks, Idle
<1>5. ClientsExact'
    BY DEF ClientsExact, Idle
<1>6. UsedOpen'
    BY DEF UsedOpen, ClientsExact, LoopLocks, CallLocks, Idle
<1> QED BY <1>1, <1>2, <1>3, <1>4, <1>5, <1>6 DEF IndInv

\* Wait keeps the inductive invariant.
LEMMA WaitInd ==
    ASSUME IndInv, Wait
    PROVE  IndInv'
<1>0. /\ \A q \in Caller : call[q] \in Request \cup {Idle}
      /\ closer \in Closing \cup {Idle}
    BY DEF IndInv, TypeOK
<1> USE RequestFields, CloserFields, TopologyAssumption, <1>0 DEF Wait, NextClient, manager, IndInv, TypeOK, InRefresh, Reading
<1>1. TypeOK'
    BY DEF Request, Closing, Idle
<1>2. LoopLocks'
    BY DEF LoopLocks, Idle
<1>3. CallLocks'
    BY DEF CallLocks, Idle
<1>4. CloseLocks'
    BY DEF CloseLocks, LoopLocks, CallLocks, Idle
<1>5. ClientsExact'
    BY DEF ClientsExact, Idle
<1>6. UsedOpen'
    BY DEF UsedOpen, ClientsExact, LoopLocks, CallLocks, Idle
<1> QED BY <1>1, <1>2, <1>3, <1>4, <1>5, <1>6 DEF IndInv

\* CloseLockDiscovery keeps the inductive invariant.
LEMMA CloseLockDiscoveryInd ==
    ASSUME IndInv, CloseLockDiscovery
    PROVE  IndInv'
<1>0. /\ \A q \in Caller : call[q] \in Request \cup {Idle}
      /\ closer \in Closing \cup {Idle}
    BY DEF IndInv, TypeOK
<1> USE RequestFields, CloserFields, TopologyAssumption, <1>0 DEF CloseLockDiscovery, manager, IndInv, TypeOK, InRefresh, Reading
<1>1. TypeOK'
    BY DEF Request, Closing, Idle
<1>2. LoopLocks'
    BY DEF LoopLocks, Idle
<1>3. CallLocks'
    BY DEF CallLocks, Idle
<1>4. CloseLocks'
    BY DEF CloseLocks, LoopLocks, CallLocks, Idle
<1>5. ClientsExact'
    BY DEF ClientsExact, Idle
<1>6. UsedOpen'
    BY DEF UsedOpen, ClientsExact, LoopLocks, CallLocks, Idle
<1> QED BY <1>1, <1>2, <1>3, <1>4, <1>5, <1>6 DEF IndInv

\* CloseLockUse keeps the inductive invariant.
LEMMA CloseLockUseInd ==
    ASSUME IndInv, CloseLockUse
    PROVE  IndInv'
<1>0. /\ \A q \in Caller : call[q] \in Request \cup {Idle}
      /\ closer \in Closing \cup {Idle}
    BY DEF IndInv, TypeOK
<1> USE RequestFields, CloserFields, TopologyAssumption, <1>0 DEF CloseLockUse, manager, IndInv, TypeOK, InRefresh, Reading
<1>1. TypeOK'
    BY DEF Request, Closing, Idle
<1>2. LoopLocks'
    BY DEF LoopLocks, Idle
<1>3. CallLocks'
    BY DEF CallLocks, Idle
<1>4. CloseLocks'
    BY DEF CloseLocks, LoopLocks, CallLocks, Idle
<1>5. ClientsExact'
    BY DEF ClientsExact, Idle
<1>6. UsedOpen'
    BY DEF UsedOpen, ClientsExact, LoopLocks, CallLocks, Idle
<1> QED BY <1>1, <1>2, <1>3, <1>4, <1>5, <1>6 DEF IndInv

\* CloseClient keeps the inductive invariant.
LEMMA CloseClientInd ==
    ASSUME IndInv, CloseClient
    PROVE  IndInv'
<1>0. /\ \A q \in Caller : call[q] \in Request \cup {Idle}
      /\ closer \in Closing \cup {Idle}
    BY DEF IndInv, TypeOK
<1> USE RequestFields, CloserFields, TopologyAssumption, <1>0 DEF CloseClient, NextClient, manager, IndInv, TypeOK, InRefresh, Reading
<1>1. TypeOK'
    BY DEF Request, Closing, Idle
<1>2. LoopLocks'
  <2>1. \A s \in Scope : loop[s] \in {"off", "done"}
    BY DEF ClientsExact
  <2>2. \A a \in Attachment, s \in Scope : s \notin discoveryMu[a] /\ s \notin readers[a]
    BY <2>1 DEF LoopLocks
  <2>3. \A a \in Attachment, s \in Scope : s \notin discoveryMu'[a] /\ s \notin readers'[a]
    BY <2>2
  <2> QED BY <2>1, <2>3 DEF LoopLocks
<1>3. CallLocks'
    BY DEF CallLocks, Idle
<1>4. CloseLocks'
    BY DEF CloseLocks, LoopLocks, CallLocks, Idle
<1>5. ClientsExact'
    BY DEF ClientsExact, Idle
<1>6. UsedOpen'
  <2>1. \A s \in Scope : loop'[s] \in {"off", "done"}
    BY DEF ClientsExact
  <2>2. readers[closer.at] = {}
    BY DEF CloseLocks
  <2>3. ASSUME NEW q \in Caller, call[q].pc = "using"
        PROVE  call[q].at \in Attachment /\ call[q].at # closer.at
    BY <2>2, <2>3 DEF CallLocks
  <2>4. \A q \in Caller : call'[q].pc = "using" => client'[call'[q].at] = "open"
    BY <2>3 DEF UsedOpen
  <2> QED BY <2>1, <2>4 DEF UsedOpen
<1> QED BY <1>1, <1>2, <1>3, <1>4, <1>5, <1>6 DEF IndInv

\* The initial states satisfy the inductive invariant.
LEMMA InitInd == Init => IndInv
<1> SUFFICES ASSUME Init PROVE IndInv
    OBVIOUS
<1> USE TopologyAssumption DEF Init, InRefresh, Reading, Idle
<1>1. TypeOK
    BY DEF TypeOK
<1>2. LoopLocks
    BY DEF LoopLocks
<1>3. CallLocks
    BY DEF CallLocks
<1>4. CloseLocks
    BY DEF CloseLocks
<1>5. ClientsExact
    BY DEF ClientsExact
<1>6. UsedOpen
    BY DEF UsedOpen
<1> QED BY <1>1, <1>2, <1>3, <1>4, <1>5, <1>6 DEF IndInv

\* Every step keeps the inductive invariant.
LEMMA StepInd == IndInv /\ [Next]_vars => IndInv'
<1> SUFFICES ASSUME IndInv, [Next]_vars PROVE IndInv'
    OBVIOUS
<1>1. CASE \E a \in Attachment : OpenClient(a) \/ OpenFails(a)
    BY <1>1, OpenClientInd, OpenFailsInd
<1>2. CASE Start
    BY <1>2, StartInd
<1>3. CASE \E s \in Scope : RunScope(s)
    BY <1>3, BeginRefreshInd, LockDiscoveryInd, LockUseInd, RecheckInd, DiscoveredInd,
       IdentifiedInd, TimerInd DEF RunScope
<1>4. CASE \E p \in Caller : Snapshot(p) \/ Serve(p)
    BY <1>4, SnapshotInd, StatusInd, SelectInd, AcquireInd, CheckInd, UsedInd DEF Serve
<1>5. CASE Close \/ FinishClose
    BY <1>5, CloseInd, CancelInd, WaitInd, CloseLockDiscoveryInd, CloseLockUseInd, CloseClientInd
    DEF FinishClose
<1>6. CASE UNCHANGED vars
    BY <1>6 DEF vars, IndInv, TypeOK, LoopLocks, CallLocks, CloseLocks, ClientsExact, UsedOpen
<1> QED BY <1>1, <1>2, <1>3, <1>4, <1>5, <1>6 DEF Next

\* In every reachable state the locks are held by those between locking and
\* unlocking, and clients are closed only by a Close that has waited for the
\* refresh loops.
THEOREM LockDiscipline == Spec => []IndInv
<1>1. Init => IndInv
    BY InitInd
<1>2. IndInv /\ [Next]_vars => IndInv'
    BY StepInd
<1> QED BY <1>1, <1>2, PTL DEF Spec

\* No refresh and no request ever uses a client that is not open.
THEOREM NoClosedClient == Spec => []UsedOpen
<1>1. IndInv => UsedOpen
    BY DEF IndInv
<1> QED BY <1>1, LockDiscipline, PTL

\* After Close or a failed New nothing is open and nothing runs.
THEOREM CleanEnd == Spec => []NothingLeft
<1>1. IndInv => NothingLeft
  <2> SUFFICES ASSUME IndInv, phase = "failed" \/ closer.pc = "done"
               PROVE  /\ \A a \in Attachment : client[a] # "open"
                      /\ \A s \in Scope : loop[s] \in {"off", "done"}
                      /\ \A p \in Caller : call[p].pc # "using"
    BY DEF NothingLeft
  <2>1. \A p \in Caller : call[p] \in Request \cup {Idle}
    BY DEF IndInv, TypeOK
  <2>2. CASE phase = "failed"
    BY <2>1, <2>2, RequestFields DEF IndInv, ClientsExact
  <2>3. CASE closer.pc = "done"
    BY <2>1, <2>3, RequestFields DEF IndInv, ClientsExact, UsedOpen
  <2> QED BY <2>2, <2>3
<1> QED BY <1>1, LockDiscipline, PTL

-----------------------------------------------------------------------------
(* The registry of a scope                                                  *)

\* A refresh is later than the one before it, and than every sighting in the
\* snapshot it replaces.
StampsOrdered ==
    /\ 1 <= now /\ lastAttempt <= now /\ lastSuccess <= lastAttempt
    /\ \A i \in DOMAIN devices : devices[i].lastSeen <= now
    /\ refresh # NoRefresh =>
          /\ 1 <= refresh.attemptedAt /\ refresh.attemptedAt <= now
          /\ lastAttempt <= refresh.attemptedAt
          /\ \A i \in DOMAIN devices : devices[i].lastSeen <= refresh.attemptedAt
          /\ refresh.pc = "window" =>
                refresh.attemptedAt <= refresh.startedAt /\ refresh.startedAt <= now

RegistryInd == RegistryExact /\ StampsOrdered

\* The fields a refresh has at each of its steps.
LEMMA RefreshFields ==
    ASSUME RegistryTypeOK
    PROVE  /\ refresh = NoRefresh <=> refresh.pc = "idle"
           /\ refresh.pc \in {"idle", "queued", "window"}
           /\ refresh # NoRefresh => refresh.attemptedAt \in Time
           /\ refresh.pc = "window" => refresh.startedAt \in Time
BY DEF RegistryTypeOK, NoRefresh

\* What a refresh that found a device on one route lists of it.
WellIdentified(i, d, at) ==
    /\ d \in Device
    /\ ~d.issue => d.lastSeen # 0 /\ d.profile = ProfileOf[<<d.vendor, d.model>>]
    /\ d.lastSeen # 0 => at <= d.lastSeen /\ d.lastSeen <= now
    /\ i \in DOMAIN staticRoute => d.route = staticRoute[i]

\* Identify names the route of the sighting and the profile that the identity
\* selects, and dates a static device by the attempt.
LEMMA IdentifiedDeviceExact ==
    ASSUME RegistryInd, refresh.pc = "window", NEW seen \in Sightings(refresh.startedAt),
           NEW i \in Unique(NormalizeObservations(seen)), NEW reading \in Readings
    PROVE  WellIdentified(i, IdentifiedDevice(i, NormalizeObservations(seen), reading,
                                          refresh.attemptedAt), refresh.attemptedAt)
<1> DEFINE observations == NormalizeObservations(seen)
           at == refresh.attemptedAt
           r == CHOOSE r \in Route : <<i, r>> \in DOMAIN observations
           d == IdentifiedDevice(i, observations, reading, at)
<1>1. /\ at \in Time /\ refresh.startedAt \in Time /\ at <= refresh.startedAt /\ 1 <= at
      /\ refresh.startedAt <= now /\ now \in Time /\ MaxTime \in Nat
    BY RefreshFields, RegistryAssumption
       DEF RegistryInd, RegistryExact, StampsOrdered, RegistryTypeOK, NoRefresh
<1>2. /\ DOMAIN seen \subseteq Instance \X Route
      /\ \A k \in DOMAIN seen : seen[k] \in refresh.startedAt .. now
    BY DEF Sightings
<1>3. /\ DOMAIN observations = DOMAIN seen \cup StaticSightings
      /\ \A k \in DOMAIN observations :
            observations[k] = IF k \in StaticSightings THEN 0 ELSE seen[k]
    BY DEF NormalizeObservations
<1> HIDE DEF observations
<1>4. i \in Instance \ Duplicated(observations) /\ \E s \in Route : <<i, s>> \in DOMAIN observations
    BY DEF Unique, observations
<1>5. r \in Route /\ <<i, r>> \in DOMAIN observations
    BY <1>4
<1>6. i \in DOMAIN staticRoute => r = staticRoute[i]
    <2> SUFFICES ASSUME i \in DOMAIN staticRoute PROVE r = staticRoute[i]
        OBVIOUS
    <2>1. staticRoute[i] \in Route /\ <<i, staticRoute[i]>> \in DOMAIN observations
        BY <1>3, RegistryAssumption
           DEF StaticSightings, RegistryInd, RegistryExact, RegistryTypeOK
    <2> QED BY <1>4, <1>5, <2>1 DEF Duplicated
<1>7. /\ d.route = r /\ d.vendor = reading.vendor /\ d.model = reading.model
      /\ d.profile = ProfileOf[<<reading.vendor, reading.model>>]
      /\ d.lastSeen = IF observations[<<i, r>>] = 0 /\ ~reading.failed THEN at
                      ELSE observations[<<i, r>>]
      /\ d.static = (<<i, r>> \in StaticSightings) /\ d.issue = reading.issue
    BY DEF IdentifiedDevice
<1>8. /\ reading.vendor \in 0..MaxVendor /\ reading.model \in 0..MaxModel
      /\ reading.issue \in BOOLEAN /\ reading.failed \in BOOLEAN /\ (reading.failed => reading.issue)
    BY DEF Readings
<1>9. d.profile \in Profile
    BY <1>7, <1>8, RegistryAssumption
<1>10. observations[<<i, r>>] = 0 \/ observations[<<i, r>>] \in refresh.startedAt .. now
    BY <1>2, <1>3, <1>5
<1>11. /\ d.lastSeen \in Time /\ (d.lastSeen # 0 => at <= d.lastSeen /\ d.lastSeen <= now)
       /\ ~d.issue => d.lastSeen # 0
    BY <1>1, <1>7, <1>8, <1>10 DEF Time
<1>12. d \in Device
    BY <1>5, <1>7, <1>8, <1>9, <1>11 DEF IdentifiedDevice, Device
<1> HIDE DEF d, r
<1>13. WellIdentified(i, d, at)
    BY <1>6, <1>7, <1>11, <1>12 DEF WellIdentified
<1> QED BY <1>13 DEF d, observations

\* What registry.replace makes of the devices D that were found on one route.
Replaced(conflicts, D, merged) ==
    /\ DOMAIN merged \subseteq Instance /\ conflicts \cap DOMAIN merged = {}
    /\ \A i \in DOMAIN merged :
          /\ merged[i] \in Device /\ merged[i].lastSeen <= now
          /\ ~merged[i].issue => merged[i].profile = ProfileOf[<<merged[i].vendor, merged[i].model>>]
          /\ i \in D /\ i \in DOMAIN staticRoute => merged[i].route = staticRoute[i]
          /\ i \notin D => merged[i].lastSeen # 0 /\ refresh.attemptedAt - merged[i].lastSeen < TTL
    /\ \A i \in DOMAIN devices \cap DOMAIN merged : merged[i].lastSeen >= devices[i].lastSeen
    /\ \A i \in DOMAIN devices \ DOMAIN merged :
          \/ i \in conflicts \/ devices[i].lastSeen = 0
          \/ refresh.attemptedAt - devices[i].lastSeen >= TTL

\* registry.replace lists what was found, and a while longer what was not.
LEMMA ReplaceExact ==
    ASSUME RegistryInd, refresh.pc = "window", NEW conflicts \in SUBSET Instance,
           NEW current, DOMAIN current \in SUBSET (Instance \ conflicts),
           \A i \in DOMAIN current : WellIdentified(i, current[i], refresh.attemptedAt)
    PROVE  Replaced(conflicts, DOMAIN current,
                    MergeRetainedDevices(current, conflicts, refresh.attemptedAt))
<1> DEFINE at == refresh.attemptedAt
           D == DOMAIN current
           kept == Retained(current, conflicts, at)
           merged == MergeRetainedDevices(current, conflicts, at)
<1>1. at \in Nat /\ now \in Nat /\ at <= now /\ 1 <= at /\ TTL \in Nat /\ MaxTime \in Nat
    BY RefreshFields, RegistryAssumption
       DEF RegistryInd, RegistryExact, StampsOrdered, RegistryTypeOK, NoRefresh, Time
<1>2. \A i \in DOMAIN devices :
         /\ i \in Instance /\ devices[i] \in Device /\ devices[i].lastSeen \in Nat
         /\ devices[i].lastSeen <= at
         /\ ~devices[i].issue =>
               devices[i].profile = ProfileOf[<<devices[i].vendor, devices[i].model>>]
    BY RegistryAssumption
       DEF RegistryInd, RegistryExact, StampsOrdered, RegistryTypeOK, NoRefresh, Time, Device, CleanProfile
<1>3. kept = {i \in DOMAIN devices \ (D \cup conflicts) :
                devices[i].lastSeen # 0 /\ TTL > 0 /\ at - devices[i].lastSeen < TTL}
    BY DEF Retained
<1> HIDE DEF kept
<1>4. /\ DOMAIN merged = D \cup kept
      /\ \A i \in kept : merged[i] = devices[i]
      /\ \A i \in D : merged[i] = IF i \in DOMAIN devices THEN MergeDevice(current[i], devices[i])
                                  ELSE current[i]
    BY <1>3 DEF MergeRetainedDevices, kept
<1> HIDE DEF merged
<1>5. ASSUME NEW i \in D, i \in DOMAIN devices
      PROVE  LET d == MergeDevice(current[i], devices[i])
             IN /\ d \in Device /\ d.lastSeen <= now /\ d.lastSeen >= devices[i].lastSeen
                /\ ~d.issue => d.profile = ProfileOf[<<d.vendor, d.model>>]
                /\ d.route = current[i].route
    <2> DEFINE c == current[i]
               o == devices[i]
    <2>1. /\ c \in Device /\ (~c.issue => c.lastSeen # 0 /\ c.profile = ProfileOf[<<c.vendor, c.model>>])
          /\ c.lastSeen # 0 => at <= c.lastSeen /\ c.lastSeen <= now
        BY DEF WellIdentified
    <2>2. o \in Device /\ o.lastSeen \in Nat /\ o.lastSeen <= at
        BY <1>2, <1>5
    <2>3. c.lastSeen \in Nat /\ c.issue \in BOOLEAN
        BY <2>1, <1>1 DEF Device, Time
    <2> HIDE DEF c, o
    <2>4. CASE ~c.issue
        BY <1>1, <2>1, <2>2, <2>3, <2>4 DEF MergeDevice, c, o
    <2>5. CASE c.issue
        <3> DEFINE d == [c EXCEPT !.vendor = Known(c.vendor, o.vendor),
                                  !.model = Known(c.model, o.model),
                                  !.profile = o.profile,
                                  !.lastSeen = Known(c.lastSeen, o.lastSeen)]
        <3>1. MergeDevice(c, o) = d
            BY <2>1, <2>5 DEF MergeDevice, Device
        <3>2. /\ Known(c.vendor, o.vendor) \in 0..MaxVendor /\ Known(c.model, o.model) \in 0..MaxModel
              /\ Known(c.lastSeen, o.lastSeen) \in Time
            BY <2>1, <2>2 DEF Known, Device
        <3>3. /\ d \in Device /\ d.issue /\ d.route = c.route
              /\ d.lastSeen = Known(c.lastSeen, o.lastSeen)
            BY <2>1, <2>2, <2>5, <3>2 DEF Device
        <3>4. d.lastSeen <= now /\ d.lastSeen >= o.lastSeen
            BY <1>1, <2>1, <2>2, <2>3, <3>3 DEF Known
        <3> HIDE DEF d
        <3> QED BY <3>1, <3>3, <3>4 DEF c, o
    <2> QED BY <2>3, <2>4, <2>5
<1>6. ASSUME NEW i \in D, i \notin DOMAIN devices
      PROVE  /\ merged[i] \in Device /\ merged[i].lastSeen <= now /\ merged[i].route = current[i].route
             /\ ~merged[i].issue => merged[i].profile = ProfileOf[<<merged[i].vendor, merged[i].model>>]
    <2>1. merged[i] = current[i]
        BY <1>4, <1>6
    <2> QED BY <1>1, <2>1 DEF WellIdentified
<1>7. ASSUME NEW i \in D
      PROVE  /\ merged[i] \in Device /\ merged[i].lastSeen <= now
             /\ ~merged[i].issue => merged[i].profile = ProfileOf[<<merged[i].vendor, merged[i].model>>]
             /\ i \in DOMAIN staticRoute => merged[i].route = staticRoute[i]
             /\ i \in DOMAIN devices => merged[i].lastSeen >= devices[i].lastSeen
    <2>1. i \in DOMAIN staticRoute => current[i].route = staticRoute[i]
        BY DEF WellIdentified
    <2> QED BY <1>4, <1>5, <1>6, <2>1
<1>8. ASSUME NEW i \in kept
      PROVE  /\ i \in DOMAIN devices /\ i \notin D /\ i \notin conflicts /\ merged[i] = devices[i]
             /\ merged[i].lastSeen # 0 /\ at - merged[i].lastSeen < TTL /\ merged[i].lastSeen <= now
    <2>1. /\ i \in DOMAIN devices /\ i \notin D /\ i \notin conflicts
          /\ devices[i].lastSeen # 0 /\ at - devices[i].lastSeen < TTL
        BY <1>3
    <2>2. merged[i] = devices[i]
        BY <1>4
    <2>3. devices[i].lastSeen <= now
        <3>1. devices[i].lastSeen \in Nat /\ devices[i].lastSeen <= at
            BY <1>2, <2>1
        <3> QED BY <1>1, <3>1
    <2> QED BY <2>1, <2>2, <2>3
<1>9. \A i \in DOMAIN merged :
         /\ merged[i] \in Device /\ merged[i].lastSeen <= now
         /\ ~merged[i].issue => merged[i].profile = ProfileOf[<<merged[i].vendor, merged[i].model>>]
         /\ i \in D /\ i \in DOMAIN staticRoute => merged[i].route = staticRoute[i]
         /\ i \notin D => merged[i].lastSeen # 0 /\ at - merged[i].lastSeen < TTL
    BY <1>2, <1>4, <1>7, <1>8
<1>10. \A i \in DOMAIN devices \cap DOMAIN merged : merged[i].lastSeen >= devices[i].lastSeen
    <2> SUFFICES ASSUME NEW i \in DOMAIN devices, i \in DOMAIN merged
                 PROVE  merged[i].lastSeen >= devices[i].lastSeen
        OBVIOUS
    <2>1. CASE i \in D
        BY <1>7, <2>1
    <2>2. CASE i \in kept
        <3>1. devices[i].lastSeen \in Nat
            BY <1>2
        <3>2. merged[i] = devices[i]
            BY <1>4, <2>2
        <3> QED BY <3>1, <3>2
    <2> QED BY <1>4, <2>1, <2>2
<1>11. \A i \in DOMAIN devices \ DOMAIN merged :
          i \in conflicts \/ devices[i].lastSeen = 0 \/ at - devices[i].lastSeen >= TTL
    <2> SUFFICES ASSUME NEW i \in DOMAIN devices, i \notin DOMAIN merged, i \notin conflicts,
                        devices[i].lastSeen # 0, ~(at - devices[i].lastSeen >= TTL)
                 PROVE  FALSE
        OBVIOUS
    <2>1. i \notin D /\ i \notin kept
        BY <1>4
    <2>2. devices[i].lastSeen \in Nat /\ devices[i].lastSeen <= at
        BY <1>2
    <2>3. at - devices[i].lastSeen < TTL /\ TTL > 0
        BY <1>1, <2>2
    <2> QED BY <1>3, <2>1, <2>3
<1>12. DOMAIN merged \subseteq Instance /\ conflicts \cap DOMAIN merged = {}
    BY <1>2, <1>4, <1>8
<1> QED BY <1>9, <1>10, <1>11, <1>12 DEF Replaced, merged

\* A refresh that ends keeps the invariant, and what was learnt of the devices.
LEMMA FinishInd ==
    ASSUME RegistryInd, Finish
    PROVE  /\ RegistryInd'
           /\ \A i \in DOMAIN devices \cap DOMAIN devices' : devices'[i].lastSeen >= devices[i].lastSeen
           /\ \A i \in DOMAIN devices \ DOMAIN devices' :
                 \/ i \in duplicates'
                 \/ devices[i].lastSeen = 0
                 \/ lastAttempt' - devices[i].lastSeen >= TTL
<1>1. PICK seen \in Sightings(refresh.startedAt), failed \in BOOLEAN :
         \E readings \in [Unique(NormalizeObservations(seen)) -> Readings] :
            LET observations == NormalizeObservations(seen)
                conflicts == Duplicated(observations)
                current == [i \in Unique(observations) |->
                              IdentifiedDevice(i, observations, readings[i], refresh.attemptedAt)]
            IN  /\ devices' = MergeRetainedDevices(current, conflicts, refresh.attemptedAt)
                /\ duplicates' = conflicts
                /\ lastSuccess' = IF failed \/ conflicts # {} THEN lastSuccess ELSE refresh.attemptedAt
                /\ found' = DOMAIN current
    BY DEF Finish
<1> DEFINE observations == NormalizeObservations(seen)
           conflicts == Duplicated(observations)
           D == Unique(observations)
           at == refresh.attemptedAt
<1>2. PICK readings \in [D -> Readings] :
         LET current == [i \in D |-> IdentifiedDevice(i, observations, readings[i], at)]
         IN  /\ devices' = MergeRetainedDevices(current, conflicts, at)
             /\ duplicates' = conflicts
             /\ lastSuccess' = IF failed \/ conflicts # {} THEN lastSuccess ELSE at
             /\ found' = DOMAIN current
    BY <1>1
<1> DEFINE current == [i \in D |-> IdentifiedDevice(i, observations, readings[i], at)]
<1>3. refresh.pc = "window" /\ lastAttempt' = at /\ refresh' = NoRefresh /\ UNCHANGED <<staticRoute, now>>
    BY DEF Finish
<1>4. conflicts \in SUBSET Instance /\ D \in SUBSET (Instance \ conflicts)
    BY DEF Duplicated, Unique
<1>5. \A i \in D : WellIdentified(i, current[i], at)
    BY <1>3, IdentifiedDeviceExact
<1>6. DOMAIN current = D /\ found' = D /\ duplicates' = conflicts
      /\ devices' = MergeRetainedDevices(current, conflicts, at)
      /\ lastSuccess' = IF failed \/ conflicts # {} THEN lastSuccess ELSE at
    BY <1>2
<1> HIDE DEF current, D, conflicts, observations
<1>7. Replaced(conflicts, D, devices')
    BY <1>3, <1>4, <1>5, <1>6, ReplaceExact
<1>8. /\ at \in Time /\ at <= now /\ 1 <= at /\ lastAttempt <= at /\ now \in Time /\ MaxTime \in Nat
      /\ lastSuccess <= lastAttempt /\ lastSuccess \in Time /\ lastAttempt \in Time
    BY <1>3, RefreshFields, RegistryAssumption
       DEF RegistryInd, RegistryExact, StampsOrdered, RegistryTypeOK, NoRefresh
<1>9. RegistryTypeOK'
    BY <1>3, <1>4, <1>6, <1>7, <1>8 DEF RegistryInd, RegistryExact, RegistryTypeOK, Replaced
<1>10. ConflictHidden' /\ RetainedFresh' /\ CleanProfile'
    BY <1>3, <1>6, <1>7 DEF ConflictHidden, RetainedFresh, CleanProfile, Replaced
<1>11. StampsOrdered'
    <2>1. \A i \in DOMAIN devices' : devices'[i].lastSeen <= now
        BY <1>7 DEF Replaced
    <2>2. lastSuccess' <= lastAttempt'
        BY <1>3, <1>6, <1>8 DEF Time
    <2>3. 1 <= now' /\ lastAttempt' <= now'
        BY <1>3, <1>8 DEF Time
    <2> QED BY <1>3, <2>1, <2>2, <2>3 DEF StampsOrdered
<1>12. RegistryInd'
    BY <1>9, <1>10, <1>11 DEF RegistryInd, RegistryExact
<1> QED BY <1>3, <1>6, <1>7, <1>12 DEF Replaced

\* The clock and the steps of a refresh before its end leave the snapshot alone.
LEMMA WaitingInd ==
    ASSUME RegistryInd, UNCHANGED scope,
           Tick \/ Attempt \/ OpenWindow \/ Abandon \/ UNCHANGED registryVars
    PROVE  RegistryInd'
<1>1. /\ UNCHANGED <<devices, duplicates, lastAttempt, lastSuccess, found, staticRoute>>
      /\ now' \in Time /\ now <= now' /\ now \in Time /\ MaxTime \in Nat
    BY RegistryAssumption
       DEF scope, Tick, Attempt, OpenWindow, Abandon, registryVars, RegistryInd, RegistryExact,
           RegistryTypeOK, Time
<1>2. ConflictHidden' /\ RetainedFresh' /\ CleanProfile'
    BY <1>1 DEF RegistryInd, RegistryExact, ConflictHidden, RetainedFresh, CleanProfile
<1>3. \A i \in DOMAIN devices : devices[i].lastSeen \in Nat
    BY RegistryAssumption DEF RegistryInd, RegistryExact, RegistryTypeOK, Device, Time
<1>4. refresh' \in {NoRefresh} \cup [pc : {"queued"}, attemptedAt : Time]
                     \cup [pc : {"window"}, attemptedAt : Time, startedAt : Time]
    BY <1>1, RefreshFields
       DEF RegistryInd, RegistryExact, RegistryTypeOK, Tick, Attempt, OpenWindow, Abandon,
           registryVars, NoRefresh
<1>5. RegistryTypeOK'
    BY <1>1, <1>4 DEF RegistryInd, RegistryExact, RegistryTypeOK
<1>6. StampsOrdered'
    <2>1. /\ 1 <= now' /\ lastAttempt <= now' /\ lastSuccess <= lastAttempt
          /\ \A i \in DOMAIN devices : devices[i].lastSeen <= now'
        BY <1>1, <1>3 DEF RegistryInd, RegistryExact, RegistryTypeOK, StampsOrdered, Time
    <2>2. CASE Tick \/ UNCHANGED registryVars
        <3>1. UNCHANGED refresh
            BY <2>2 DEF Tick, registryVars
        <3> QED BY <1>1, <2>1, <3>1, RefreshFields
               DEF StampsOrdered, RegistryInd, RegistryExact, Time, NoRefresh
    <2>3. CASE Attempt
        BY <1>1, <2>1, <2>3 DEF Attempt, StampsOrdered, RegistryInd, NoRefresh, Time
    <2>4. CASE OpenWindow
        BY <1>1, <2>1, <2>4, RefreshFields
           DEF OpenWindow, StampsOrdered, RegistryInd, RegistryExact, NoRefresh, Time
    <2>5. CASE Abandon
        BY <1>1, <2>1, <2>5 DEF Abandon, StampsOrdered
    <2> QED BY <2>2, <2>3, <2>4, <2>5
<1> QED BY <1>2, <1>5, <1>6 DEF RegistryInd, RegistryExact

\* A scope that was never refreshed lists nothing.
LEMMA RegistryInitInd ==
    ASSUME RegistryInit
    PROVE  RegistryInd
<1>1. DOMAIN devices = {} /\ 0 \in Time /\ 1 \in Time
    BY RegistryAssumption DEF RegistryInit, Time
<1>2. RegistryTypeOK
    BY <1>1 DEF RegistryInit, RegistryTypeOK
<1>3. ConflictHidden /\ RetainedFresh /\ CleanProfile
    BY <1>1 DEF RegistryInit, ConflictHidden, RetainedFresh, CleanProfile
<1>4. StampsOrdered
    BY <1>1 DEF RegistryInit, StampsOrdered
<1> QED BY <1>2, <1>3, <1>4 DEF RegistryInd, RegistryExact

\* Every step keeps the invariant and what was learnt of the devices.
LEMMA RegistryStep ==
    ASSUME RegistryInd, [RegistryNext]_registryVars
    PROVE  /\ RegistryInd'
           /\ \A i \in DOMAIN devices \cap DOMAIN devices' : devices'[i].lastSeen >= devices[i].lastSeen
           /\ \A i \in DOMAIN devices \ DOMAIN devices' :
                 \/ i \in duplicates'
                 \/ devices[i].lastSeen = 0
                 \/ lastAttempt' - devices[i].lastSeen >= TTL
<1>1. CASE Finish
    BY <1>1, FinishInd
<1>2. CASE Tick \/ Attempt \/ OpenWindow \/ Abandon \/ UNCHANGED registryVars
    <2>1. UNCHANGED scope
        BY <1>2 DEF Tick, Attempt, OpenWindow, Abandon, registryVars, scope
    <2>2. RegistryInd'
        BY <1>2, <2>1, WaitingInd
    <2>3. \A i \in DOMAIN devices : devices[i].lastSeen \in Nat
        BY RegistryAssumption DEF RegistryInd, RegistryExact, RegistryTypeOK, Device, Time
    <2> QED BY <2>1, <2>2, <2>3 DEF scope
<1> QED BY <1>1, <1>2 DEF RegistryNext

\* What a scope lists is sound after every sequence of refreshes, for any
\* devices, routes, static configuration and TTL.
THEOREM RegistryAlwaysExact == RegistrySpec => []RegistryExact
<1>1. RegistryInit => RegistryInd
    BY RegistryInitInd
<1>2. RegistryInd /\ [RegistryNext]_registryVars => RegistryInd'
    BY RegistryStep
<1>3. RegistryInd => RegistryExact
    BY DEF RegistryInd
<1> QED BY <1>1, <1>2, <1>3, PTL DEF RegistrySpec

\* A refresh never forgets when a device was last seen, and drops none before
\* the TTL but for a conflict.
THEOREM RegistryKeepsDevices == RegistrySpec => DevicesKept
<1>1. RegistryInit => RegistryInd
    BY RegistryInitInd
<1>2. RegistryInd /\ [RegistryNext]_registryVars => RegistryInd'
    BY RegistryStep
<1>3. RegistryInd /\ [RegistryNext]_registryVars =>
         [\A i \in DOMAIN devices \cap DOMAIN devices' :
             devices'[i].lastSeen >= devices[i].lastSeen]_registryVars
    BY RegistryStep
<1>4. RegistryInd /\ [RegistryNext]_registryVars =>
         [\A i \in DOMAIN devices \ DOMAIN devices' :
             \/ i \in duplicates'
             \/ devices[i].lastSeen = 0
             \/ lastAttempt' - devices[i].lastSeen >= TTL]_registryVars
    BY RegistryStep
<1> QED BY <1>1, <1>2, <1>3, <1>4, PTL DEF RegistrySpec, DevicesKept, LastSeenMonotone, DropJustified
=============================================================================
