--------------------------- MODULE BackendProofs ---------------------------
(***************************************************************************)
(* Proofs about the providers that work on a shared backend.  Of           *)
(* SharedSessions, for any connections, goroutines and namespaces: the     *)
(* inductive invariant IndInv, SessionsSound, and that the three providers *)
(* implement the safety part of SessionLease.  Of KubernetesStream, for    *)
(* any list, pages, columns, batch and limit: EofComplete.                 *)
(***************************************************************************)
EXTENDS SharedSessions, KubernetesStream, FiniteSetTheorems, TLAPS

-----------------------------------------------------------------------------
(* The inductive invariant                                                  *)

\* The place of a namespace in the order of a survey.
Place(n) == CHOOSE i \in DOMAIN Namespaces : Namespaces[i] = n

\* What a goroutine's record holds at each of its steps.
TaskShape(t) ==
    LET k == tasks[t]
    IN /\ k.pc = "idle" => k = Resting(k.run)
       /\ k.pc # "idle" => k.run > 0
       /\ k.pc \in {"acquire", "wait", "open", "install"} => k.next = "idle" /\ k.using = None
       /\ k.pc = "acquire" => k.entry = None
       /\ k.pc \in {"wait", "open", "install", "release", "close"} =>
             k.entry # None /\ k.entry[3] = k.ns
       /\ k.pc = "open" => k.entry = NewId(t)
       /\ k.pc = "install" => k.conn # None
       /\ k.pc = "use" =>
             /\ k.next = "idle"
             /\ IF k.conn = None THEN k.entry # None /\ k.entry[3] = k.ns ELSE k.entry = None
       /\ k.next = "acquire" => k.conn = None /\ k.ns # Namespaces[Len(Namespaces)]
       /\ k.next = "use" => k.conn # None
       /\ k.conn = None => k.using = None

\* Entries are kept under their own slot; a closed connection holds nothing.
SlotsExact ==
    /\ \A n \in Slot : table[n] # None => table[n][3] = n
    /\ \A c \in Conns, n \in Slot :
          /\ conns[c].held[n] # None => conns[c].held[n][3] = n
          /\ conns[c].leaving[n] # None => conns[c].leaving[n][3] = n
          /\ conns[c].closed => conns[c].held[n] = None
          /\ ~conns[c].closed => conns[c].leaving[n] = None /\ conns[c].last = None

\* A goroutine has made the entries of its earlier calls and, in a survey, of
\* the namespaces before: the one it would make next is new.
IdsFresh ==
    \A e \in Ids : entries[e].phase # "unborn" =>
        LET k == tasks[e[1]]
        IN /\ e[2] <= k.run
           /\ e[2] = k.run =>
                 /\ Place(e[3]) <= Place(k.ns) \/ k.pc = "idle"
                 /\ k.pc \in {"acquire", "wait"} => Place(e[3]) < Place(k.ns)

\* The life of an entry: it counts references only while it is in the table,
\* and its session is open as long as it does.
LifeExact ==
    \A e \in Ids :
        LET x == entries[e]
        IN /\ x.phase # "ready" => x.refs = 0 /\ x.session = "unborn"
           /\ x.phase = "ready" => x.session # "unborn"
           /\ x.refs > 0 => x.session = "open"
           /\ x.phase \in {"unborn", "failed"} => table[e[3]] # e
           /\ x.phase = "opening" =>
                 table[e[3]] = e /\ At(e[1], "open") /\ tasks[e[1]].entry = e
           /\ x.phase = "ready" => (table[e[3]] = e <=> x.refs > 0)

\* What goroutines and connections know of an entry they have in hand.
InHand ==
    /\ \A t \in Tasks :
          /\ At(t, "wait") => entries[tasks[t].entry].phase # "unborn"
          /\ At(t, "open") => entries[tasks[t].entry].phase = "opening" /\ kind # "redis"
          /\ At(t, "close") =>
                entries[tasks[t].entry].phase = "ready" /\ entries[tasks[t].entry].refs = 0
    /\ \A c \in Conns : conns[c].last # None =>
          entries[conns[c].last].phase = "ready" /\ entries[conns[c].last].refs = 0

\* Entries count their holders, and a session nobody holds is being closed.
CountsExact ==
    \A e \in Ids :
        /\ entries[e].refs = Cardinality(Holders(e))
        /\ entries[e].session = "open" /\ entries[e].refs = 0 =>
              \/ \E t \in Tasks : At(t, "close") /\ tasks[t].entry = e
              \/ \E c \in Conns : conns[c].last = e

\* A request uses what its connection holds, until that one is closed.
UsesHeld ==
    \A t \in Tasks :
        LET k == tasks[t]
        IN k.conn # None /\ (k.pc = "use" \/ k.next = "use") =>
              k.using # None /\ (conns[k.conn].closed \/ conns[k.conn].held[k.ns] = k.using)

Shapes == \A t \in Tasks : TaskShape(t)

IndInv ==
    /\ TypeOK /\ Shapes /\ SlotsExact /\ IdsFresh /\ LifeExact /\ InHand
    /\ CountsExact /\ UsesHeld

-----------------------------------------------------------------------------
(* The lease that the sessions implement                                    *)

\* The session handed out for a slot: one that is still being opened is not.
Handed(n) ==
    IF table[n] # None /\ entries[table[n]].phase = "ready" THEN table[n] ELSE None

LeaseStep == [Lease!LeaseNext]_(Lease!leaseVars)

\* A step that leaves what the lease shows as it was.
LEMMA LeaseStutter ==
    ASSUME \A e \in Ids : Holders(e)' = Holders(e) /\ entries'[e].session = entries[e].session,
           \A n \in Slot : Handed(n)' = Handed(n)
    PROVE  LeaseStep
<1>1. [n \in Slot |-> Handed(n)]' = [n \in Slot |-> Handed(n)]
    OBVIOUS
<1>2. [e \in Ids |-> entries[e].session]' = [e \in Ids |-> entries[e].session]
    OBVIOUS
<1>3. [e \in Ids |-> Holders(e)]' = [e \in Ids |-> Holders(e)]
    OBVIOUS
<1> QED BY <1>1, <1>2, <1>3 DEF LeaseStep, Lease!leaseVars, Handed

-----------------------------------------------------------------------------
(* Facts about the operators                                                *)

\* The parts of an entry's identifier.
LEMMA IdParts ==
    ASSUME NEW e \in Ids
    PROVE  /\ e[1] \in Tasks /\ e[2] \in 1 .. MaxRuns /\ e[3] \in Slot
           /\ e = <<e[1], e[2], e[3]>> /\ e # None
BY SharedAssumption DEF Ids

\* Places of namespaces, and the namespace that follows another one.
LEMMA Places ==
    /\ Namespaces[1] \in Slot /\ Len(Namespaces) \in Nat
    /\ \A n \in Slot : /\ Place(n) \in Nat /\ Place(n) \in DOMAIN Namespaces
                       /\ Namespaces[Place(n)] = n
    /\ \A n \in Slot : n # Namespaces[Len(Namespaces)] =>
          /\ Namespaces[1 + Place(n)] \in Slot
          /\ Place(Namespaces[1 + Place(n)]) = 1 + Place(n)
<1> DOMAIN Namespaces = 1 .. Len(Namespaces) /\ Len(Namespaces) \in Nat \ {0}
    BY SharedAssumption
<1>1. Namespaces[1] \in Slot
    BY DEF Slot
<1>2. \A n \in Slot : /\ Place(n) \in Nat /\ Place(n) \in DOMAIN Namespaces
                      /\ Namespaces[Place(n)] = n
    <2> SUFFICES ASSUME NEW n \in Slot
                 PROVE  /\ Place(n) \in Nat /\ Place(n) \in DOMAIN Namespaces
                        /\ Namespaces[Place(n)] = n
        OBVIOUS
    <2>1. \E i \in DOMAIN Namespaces : Namespaces[i] = n
        BY DEF Slot
    <2> QED BY <2>1 DEF Place
<1>3. ASSUME NEW n \in Slot, n # Namespaces[Len(Namespaces)]
      PROVE  /\ Namespaces[1 + Place(n)] \in Slot
             /\ Place(Namespaces[1 + Place(n)]) = 1 + Place(n)
    <2>1. 1 + Place(n) \in DOMAIN Namespaces
        BY <1>2, <1>3
    <2>2. Namespaces[1 + Place(n)] \in Slot
        BY <2>1 DEF Slot
    <2> QED BY <1>2, <2>1, <2>2, SharedAssumption
<1> QED BY <1>1, <1>2, <1>3

\* Who holds an entry is one of finitely many.
LEMMA HoldersFinite ==
    /\ IsFiniteSet(Tasks \cup Conns)
    /\ Cardinality(Tasks \cup Conns) = Cardinality(Tasks) + Cardinality(Conns)
    /\ Cardinality(Tasks) \in Nat /\ Cardinality(Conns) \in Nat
    /\ \A H \in SUBSET (Tasks \cup Conns) :
          /\ IsFiniteSet(H)
          /\ Cardinality(H) \in 0 .. Cardinality(Conns) + Cardinality(Tasks)
          /\ (Cardinality(H) = 0 <=> H = {})
          /\ \A u \in Tasks \cup Conns :
                /\ u \in H => Cardinality(H \ {u}) = Cardinality(H) - 1
                /\ u \notin H => Cardinality(H \cup {u}) = Cardinality(H) + 1
                /\ u \in H /\ Cardinality(H) = 1 => H = {u}
<1>1. /\ IsFiniteSet(Tasks \cup Conns)
      /\ Cardinality(Tasks \cup Conns) = Cardinality(Tasks) + Cardinality(Conns)
      /\ Cardinality(Tasks) \in Nat /\ Cardinality(Conns) \in Nat
    <2>1. Cardinality(Tasks \cap Conns) = 0
        BY SharedAssumption, FS_EmptySet
    <2>2. /\ IsFiniteSet(Tasks \cup Conns)
          /\ Cardinality(Tasks \cup Conns)
                = Cardinality(Tasks) + Cardinality(Conns) - Cardinality(Tasks \cap Conns)
        BY SharedAssumption, FS_Union
    <2>3. Cardinality(Tasks) \in Nat /\ Cardinality(Conns) \in Nat
        BY SharedAssumption, FS_CardinalityType
    <2> QED BY <2>1, <2>2, <2>3
<1>2. ASSUME NEW H \in SUBSET (Tasks \cup Conns)
      PROVE  /\ IsFiniteSet(H)
             /\ Cardinality(H) \in 0 .. Cardinality(Conns) + Cardinality(Tasks)
             /\ (Cardinality(H) = 0 <=> H = {})
    BY <1>1, FS_Subset, FS_CardinalityType, FS_EmptySet
<1>3. ASSUME NEW H \in SUBSET (Tasks \cup Conns), NEW u \in Tasks \cup Conns
      PROVE  /\ u \in H => Cardinality(H \ {u}) = Cardinality(H) - 1
             /\ u \notin H => Cardinality(H \cup {u}) = Cardinality(H) + 1
             /\ u \in H /\ Cardinality(H) = 1 => H = {u}
    <2>1. IsFiniteSet(H)
        BY <1>2
    <2>2. /\ u \in H => Cardinality(H \ {u}) = Cardinality(H) - 1
          /\ u \notin H => Cardinality(H \cup {u}) = Cardinality(H) + 1
        BY <2>1, FS_AddElement, FS_RemoveElement
    <2>3. u \in H /\ Cardinality(H) = 1 => H = {u}
        BY <2>1, FS_Singleton
    <2> QED BY <2>2, <2>3
<1> QED BY <1>1, <1>2, <1>3

\* Only goroutine t moves, and it holds afterwards what it held before.
LEMMA TaskStep ==
    ASSUME IndInv, NEW t \in Tasks, NEW k \in Task,
           tasks' = [tasks EXCEPT ![t] = k], UNCHANGED <<kind, table, entries, conns>>,
           TaskShape(t)',
           \A e \in Ids : TaskHolds(t, e)' <=> TaskHolds(t, e),
           tasks[t].pc \notin {"open", "close"}, k.pc \notin {"open", "close"},
           k.pc = "wait" => entries[k.entry].phase # "unborn",
           \/ k.run = tasks[t].run + 1
           \/ /\ k.run = tasks[t].run /\ tasks[t].pc # "idle"
              /\ k.pc = "idle" \/ k.ns = tasks[t].ns
              /\ k.pc \in {"acquire", "wait"} => tasks[t].pc \in {"acquire", "wait"},
           k.conn # None /\ (k.pc = "use" \/ k.next = "use") =>
              k.using # None /\ (conns[k.conn].closed \/ conns[k.conn].held[k.ns] = k.using)
    PROVE  IndInv' /\ LeaseStep
<1> USE DEF IndInv
<1>0. /\ tasks' \in [Tasks -> Task] /\ tasks'[t] = k
      /\ \A u \in Tasks : u # t => tasks'[u] = tasks[u]
    BY DEF TypeOK
<1>1. TypeOK'
    BY <1>0 DEF TypeOK
<1>2. Shapes'
    <2> SUFFICES ASSUME NEW u \in Tasks, u # t PROVE TaskShape(u)'
        BY DEF Shapes
    <2> QED BY <1>0 DEF Shapes, TaskShape, NewId
<1>3. SlotsExact'
    BY DEF SlotsExact
<1>4. IdsFresh'
    <2> SUFFICES ASSUME NEW e \in Ids, entries[e].phase # "unborn"
                 PROVE  LET q == tasks'[e[1]]
                        IN /\ e[2] <= q.run
                           /\ e[2] = q.run =>
                                 /\ Place(e[3]) <= Place(q.ns) \/ q.pc = "idle"
                                 /\ q.pc \in {"acquire", "wait"} => Place(e[3]) < Place(q.ns)
        BY DEF IdsFresh
    <2>1. CASE e[1] = t
        <3>1. tasks[t].run \in Nat /\ k.run \in Nat
            BY SharedAssumption DEF TypeOK, Task
        <3>2. e[2] \in Nat /\ e[2] <= tasks[t].run
            BY <2>1, IdParts DEF IdsFresh
        <3>3. CASE k.run = tasks[t].run + 1
            BY <1>0, <2>1, <3>1, <3>2, <3>3
        <3>4. CASE k.run = tasks[t].run /\ tasks[t].pc # "idle"
            BY <1>0, <2>1, <3>1, <3>2, <3>4 DEF IdsFresh
        <3> QED BY <3>3, <3>4
    <2>2. CASE e[1] # t
        BY <1>0, <2>2, IdParts DEF IdsFresh
    <2> QED BY <2>1, <2>2
<1>5. LifeExact'
    BY <1>0, IdParts DEF LifeExact, At
<1>6. InHand'
    BY <1>0 DEF InHand, At
<1>7. CountsExact'
    <2>1. \A e \in Ids : Holders(e)' = Holders(e)
        BY <1>0 DEF Holders, TaskHolds, ConnHolds, At
    <2> QED BY <1>0, <2>1 DEF CountsExact, At
<1>8. UsesHeld'
    BY <1>0 DEF UsesHeld
<1>9. LeaseStep
    <2>1. \A e \in Ids : Holders(e)' = Holders(e)
        BY <1>0 DEF Holders, TaskHolds, ConnHolds, At
    <2> QED BY <2>1, LeaseStutter DEF Handed
<1> QED BY <1>1, <1>2, <1>3, <1>4, <1>5, <1>6, <1>7, <1>8, <1>9

\* The record of a goroutine has its fields.
LEMMA TaskFields ==
    ASSUME TypeOK, NEW t \in Tasks
    PROVE  /\ tasks[t] \in Task /\ tasks[t].pc \in PC /\ tasks[t].run \in 0 .. MaxRuns
           /\ tasks[t].conn \in Conns \cup {None} /\ tasks[t].ns \in Slot
           /\ tasks[t].entry \in Ids \cup {None} /\ tasks[t].using \in Ids \cup {None}
           /\ tasks[t].next \in {"idle", "use", "acquire"}
BY DEF TypeOK, Task

\* A goroutine at rest.
LEMMA RestingTask ==
    ASSUME NEW r \in 0 .. MaxRuns
    PROVE  /\ Resting(r) \in Task /\ Resting(r).pc = "idle" /\ Resting(r).run = r
           /\ Resting(r).conn = None /\ Resting(r).ns = Namespaces[1]
           /\ Resting(r).entry = None /\ Resting(r).using = None /\ Resting(r).next = "idle"
BY Places DEF Resting, Task, PC

\* A goroutine without a reference that comes to rest.
LEMMA Rest ==
    ASSUME IndInv, NEW t \in Tasks, Become(t, Resting(tasks[t].run)),
           UNCHANGED <<kind, table, entries, conns>>,
           \/ At(t, "wait")
           \/ At(t, "use") /\ tasks[t].conn # None
    PROVE  IndInv' /\ LeaseStep
<1> DEFINE k == Resting(tasks[t].run)
<1>1. /\ k \in Task /\ k.pc = "idle" /\ k.run = tasks[t].run /\ k.conn = None
      /\ k.entry = None /\ k.next = "idle" /\ k.using = None
    BY TaskFields, RestingTask DEF IndInv
<1>2. tasks' = [tasks EXCEPT ![t] = k] /\ tasks'[t] = k
    BY DEF Become, IndInv, TypeOK
<1>3. TaskShape(t)'
    BY <1>1, <1>2, TaskFields DEF TaskShape, IndInv, Shapes, At
<1>4. \A e \in Ids : TaskHolds(t, e)' <=> TaskHolds(t, e)
    BY <1>1, <1>2 DEF TaskHolds, At
<1> HIDE DEF k
<1> QED BY <1>1, <1>2, <1>3, <1>4, TaskStep DEF At

\* A request looks at what its connection holds.
LEMMA LookupInd ==
    ASSUME IndInv, NEW t \in Tasks, Lookup(t)
    PROVE  IndInv' /\ LeaseStep
<1>1. PICK c \in Conns, n \in Slots :
          Become(t, IF conns[c].closed THEN Resting(tasks[t].run + 1)
                    ELSE [Resting(tasks[t].run + 1) EXCEPT
                            !.pc = IF conns[c].held[n] = None THEN "acquire" ELSE "use",
                            !.conn = c, !.ns = n, !.using = conns[c].held[n]])
    BY DEF Lookup
<1>2. /\ At(t, "idle") /\ tasks[t].run + 1 \in 0 .. MaxRuns /\ tasks[t].run + 1 > 0
      /\ tasks[t].run \in Nat /\ n \in Slot
      /\ conns[c].held[n] \in Ids \cup {None} /\ conns[c].held \in Held
      /\ UNCHANGED <<kind, table, entries, conns>>
    BY TaskFields, SharedAssumption, Places DEF Lookup, IndInv, TypeOK, Conn, Held, Slots
<1> DEFINE r == Resting(tasks[t].run + 1)
           k == IF conns[c].closed THEN r
                ELSE [r EXCEPT !.pc = IF conns[c].held[n] = None THEN "acquire" ELSE "use",
                               !.conn = c, !.ns = n, !.using = conns[c].held[n]]
<1>3. /\ k \in Task /\ k.run = tasks[t].run + 1 /\ k.next = "idle" /\ k.entry = None
      /\ k.pc \in {"idle", "acquire", "use"} /\ (k.pc = "idle" => k = r)
      /\ k.pc = "use" => k.conn # None /\ k.using # None /\ conns[k.conn].held[k.ns] = k.using
      /\ k.pc = "acquire" => k.using = None
      /\ k.conn = None => k.using = None
    <2>1. /\ r \in Task /\ r.pc = "idle" /\ r.run = tasks[t].run + 1 /\ r.next = "idle"
          /\ r.entry = None /\ r.using = None
        BY <1>2, RestingTask
    <2> HIDE DEF r
    <2> QED BY <1>2, <2>1, SharedAssumption DEF Task, PC
<1>4. tasks' = [tasks EXCEPT ![t] = k] /\ tasks'[t] = k
    BY <1>1 DEF Become, IndInv, TypeOK
<1>5. TaskShape(t)'
    <2>1. k.pc = "idle" => k = Resting(k.run)
        BY <1>3
    <2> HIDE DEF k
    <2> QED BY <1>2, <1>3, <1>4, <2>1 DEF TaskShape
<1>6. \A e \in Ids : TaskHolds(t, e)' <=> TaskHolds(t, e)
    <2> HIDE DEF k
    <2> QED BY <1>2, <1>3, <1>4 DEF TaskHolds, At
<1> HIDE DEF k
<1> QED BY <1>2, <1>3, <1>4, <1>5, <1>6, TaskStep DEF At

\* A goroutine starts to wait for an entry, or to acquire once more.
LEMMA WaitInd ==
    ASSUME IndInv, NEW t \in Tasks, UNCHANGED <<kind, table, entries, conns>>,
           \/ /\ At(t, "acquire") /\ table[tasks[t].ns] # None
              /\ Become(t, [tasks[t] EXCEPT !.pc = "wait", !.entry = table[tasks[t].ns]])
           \/ /\ At(t, "wait")
              /\ Become(t, [tasks[t] EXCEPT !.pc = "acquire", !.entry = None])
    PROVE  IndInv' /\ LeaseStep
<1> DEFINE n == tasks[t].ns
           e == table[n]
<1>0. tasks[t] \in Task /\ n \in Slot /\ e \in Ids \cup {None} /\ TaskShape(t)
    BY TaskFields DEF IndInv, TypeOK, Held, Shapes
<1>1. CASE At(t, "acquire") /\ e # None /\ Become(t, [tasks[t] EXCEPT !.pc = "wait", !.entry = e])
    <2> DEFINE k == [tasks[t] EXCEPT !.pc = "wait", !.entry = e]
    <2>1. /\ k \in Task /\ k.pc = "wait" /\ k.entry = e /\ k.run = tasks[t].run
          /\ k.ns = n /\ k.next = tasks[t].next /\ k.using = tasks[t].using
          /\ k.conn = tasks[t].conn
        BY <1>0, <1>1 DEF Task, PC
    <2>2. tasks' = [tasks EXCEPT ![t] = k] /\ tasks'[t] = k
        BY <1>1 DEF Become, IndInv, TypeOK
    <2>3. e \in Ids /\ e[3] = n /\ entries[e].phase # "unborn"
        BY <1>0, <1>1, IdParts DEF IndInv, SlotsExact, LifeExact
    <2> HIDE DEF k
    <2>4. TaskShape(t)' /\ tasks[t].next = "idle"
        BY <1>0, <1>1, <2>1, <2>2, <2>3 DEF TaskShape, At
    <2>5. \A f \in Ids : TaskHolds(t, f)' <=> TaskHolds(t, f)
        BY <1>1, <2>1, <2>2 DEF TaskHolds, At
    <2> QED BY <1>1, <2>1, <2>2, <2>3, <2>4, <2>5, TaskStep DEF At
<1>2. CASE At(t, "wait") /\ Become(t, [tasks[t] EXCEPT !.pc = "acquire", !.entry = None])
    <2> DEFINE k == [tasks[t] EXCEPT !.pc = "acquire", !.entry = None]
    <2>1. /\ k \in Task /\ k.pc = "acquire" /\ k.entry = None /\ k.run = tasks[t].run
          /\ k.ns = n /\ k.next = tasks[t].next /\ k.using = tasks[t].using
          /\ k.conn = tasks[t].conn
        BY <1>0, <1>2 DEF Task, PC
    <2>2. tasks' = [tasks EXCEPT ![t] = k] /\ tasks'[t] = k
        BY <1>2 DEF Become, IndInv, TypeOK
    <2> HIDE DEF k
    <2>4. TaskShape(t)' /\ tasks[t].next = "idle"
        BY <1>0, <1>2, <2>1, <2>2 DEF TaskShape, At
    <2>5. \A f \in Ids : TaskHolds(t, f)' <=> TaskHolds(t, f)
        BY <1>2, <2>1, <2>2 DEF TaskHolds, At
    <2> QED BY <1>2, <2>1, <2>2, <2>4, <2>5, TaskStep DEF At
<1> QED BY <1>1, <1>2

\* A call of the provider starts.
LEMMA StartSurveyInd ==
    ASSUME IndInv, NEW t \in Tasks, StartSurvey(t)
    PROVE  IndInv' /\ LeaseStep
<1> DEFINE r == Resting(tasks[t].run + 1)
           k == [r EXCEPT !.pc = "acquire"]
<1>1. /\ At(t, "idle") /\ tasks[t].run + 1 \in 0 .. MaxRuns /\ tasks[t].run + 1 > 0
      /\ tasks[t].run \in Nat /\ UNCHANGED <<kind, table, entries, conns>>
    BY TaskFields, SharedAssumption DEF StartSurvey, IndInv
<1>2. /\ k \in Task /\ k.pc = "acquire" /\ k.run = tasks[t].run + 1 /\ k.conn = None
      /\ k.entry = None /\ k.next = "idle" /\ k.using = None
    <2>1. /\ r \in Task /\ r.run = tasks[t].run + 1 /\ r.conn = None
          /\ r.entry = None /\ r.next = "idle" /\ r.using = None
        BY <1>1, RestingTask
    <2> HIDE DEF r
    <2> QED BY <2>1 DEF Task, PC
<1>3. tasks' = [tasks EXCEPT ![t] = k] /\ tasks'[t] = k
    BY DEF StartSurvey, Become, IndInv, TypeOK
<1> HIDE DEF k
<1>4. TaskShape(t)'
    BY <1>1, <1>2, <1>3 DEF TaskShape
<1>5. \A e \in Ids : TaskHolds(t, e)' <=> TaskHolds(t, e)
    BY <1>1, <1>2, <1>3 DEF TaskHolds, At
<1> QED BY <1>1, <1>2, <1>3, <1>4, <1>5, TaskStep DEF At

\* A goroutine goes on to release what it holds.
LEMMA ToRelease ==
    ASSUME IndInv, NEW t \in Tasks, NEW next \in {"idle", "use", "acquire"},
           NEW using \in Ids \cup {None},
           Become(t, [tasks[t] EXCEPT !.pc = "release", !.next = next, !.using = using]),
           UNCHANGED <<kind, table, entries, conns>>,
           \/ /\ At(t, "use") /\ tasks[t].conn = None /\ next # "use" /\ using = tasks[t].using
              /\ next = "acquire" => tasks[t].ns # Namespaces[Len(Namespaces)]
           \/ /\ At(t, "install") /\ next # "acquire"
              /\ next = "use" => using # None /\ conns[tasks[t].conn].held[tasks[t].ns] = using
    PROVE  IndInv' /\ LeaseStep
<1> DEFINE k == [tasks[t] EXCEPT !.pc = "release", !.next = next, !.using = using]
<1>0. tasks[t] \in Task /\ TaskShape(t)
    BY TaskFields DEF IndInv, Shapes
<1>1. /\ k \in Task /\ k.pc = "release" /\ k.entry = tasks[t].entry /\ k.run = tasks[t].run
      /\ k.ns = tasks[t].ns /\ k.next = next /\ k.using = using /\ k.conn = tasks[t].conn
    BY <1>0 DEF Task, PC
<1>2. tasks' = [tasks EXCEPT ![t] = k] /\ tasks'[t] = k
    BY DEF Become, IndInv, TypeOK
<1> HIDE DEF k
<1>3. TaskShape(t)'
    BY <1>0, <1>1, <1>2 DEF TaskShape, At
<1>4. \A e \in Ids : TaskHolds(t, e)' <=> TaskHolds(t, e)
    BY <1>1, <1>2 DEF TaskHolds, At
<1> QED BY <1>0, <1>1, <1>2, <1>3, <1>4, TaskStep DEF At, TaskShape

\* The use of a session by a call of the provider ends.
LEMMA SurveyUsedInd ==
    ASSUME IndInv, NEW t \in Tasks, NEW more, more => MoreNamespaces(t), SurveyUsed(t, more)
    PROVE  IndInv' /\ LeaseStep
<1>1. PICK next \in {"idle"} \cup (IF more THEN {"acquire"} ELSE {}) :
          Become(t, [tasks[t] EXCEPT !.pc = "release", !.next = next])
    BY DEF SurveyUsed
<1>2. /\ At(t, "use") /\ tasks[t].conn = None /\ UNCHANGED <<kind, table, entries, conns>>
      /\ next \in {"idle", "acquire"}
      /\ next = "acquire" => tasks[t].ns # Namespaces[Len(Namespaces)]
    BY <1>1 DEF SurveyUsed, MoreNamespaces
<1>3. tasks[t] \in Task /\ tasks[t].using \in Ids \cup {None}
    BY TaskFields DEF IndInv
<1>4. [tasks[t] EXCEPT !.pc = "release", !.next = next]
        = [tasks[t] EXCEPT !.pc = "release", !.next = next, !.using = tasks[t].using]
    BY <1>3 DEF Task
<1> QED BY <1>1, <1>2, <1>3, <1>4, ToRelease

\* What the invariant gives about a holder of an entry.
LEMMA HolderFacts ==
    ASSUME IndInv, NEW e \in Ids
    PROVE  /\ Holders(e) \in SUBSET (Tasks \cup Conns)
           /\ entries[e] \in Entry /\ entries[e].refs \in Nat
           /\ entries[e].refs = 0 <=> Holders(e) = {}
           /\ Holders(e) # {} => /\ entries[e].phase = "ready" /\ entries[e].session = "open"
                                 /\ table[e[3]] = e
<1>1. Holders(e) \in SUBSET (Tasks \cup Conns)
    BY DEF Holders
<1>2. entries[e] \in Entry /\ entries[e].refs \in Nat
    BY HoldersFinite DEF IndInv, TypeOK, Entry
<1>3. entries[e].refs = 0 <=> Holders(e) = {}
    BY <1>1, HoldersFinite DEF IndInv, CountsExact
<1>4. entries[e].refs > 0 => /\ entries[e].phase = "ready" /\ entries[e].session = "open"
                             /\ table[e[3]] = e
    BY <1>2 DEF IndInv, LifeExact
<1> QED BY <1>1, <1>2, <1>3, <1>4

\* The entry a goroutine would make is new.
LEMMA NewIdFresh ==
    ASSUME IndInv, NEW t \in Tasks, At(t, "acquire")
    PROVE  /\ NewId(t) \in Ids /\ NewId(t)[1] = t /\ NewId(t)[3] = tasks[t].ns
           /\ entries[NewId(t)].phase = "unborn"
<1>1. tasks[t].run \in 1 .. MaxRuns /\ tasks[t].ns \in Slot
    BY TaskFields, SharedAssumption DEF IndInv, Shapes, TaskShape, At
<1>2. NewId(t) \in Ids /\ NewId(t)[1] = t /\ NewId(t)[3] = tasks[t].ns /\ NewId(t)[2] = tasks[t].run
    BY <1>1 DEF NewId, Ids
<1>3. entries[NewId(t)].phase = "unborn"
    <2> DEFINE e == NewId(t)
    <2> HIDE DEF e
    <2> SUFFICES ASSUME entries[e].phase # "unborn" PROVE FALSE
        BY DEF e
    <2>1. Place(e[3]) < Place(tasks[t].ns)
        BY <1>2 DEF IndInv, IdsFresh, At, e
    <2> QED BY <1>1, <1>2, <2>1, Places DEF e
<1> QED BY <1>2, <1>3

\* Only goroutine t and one entry e move, with the table's place for e.
EntryMoves(t, k, e, x, v) ==
    /\ tasks' = [tasks EXCEPT ![t] = k] /\ entries' = [entries EXCEPT ![e] = x]
    /\ table' = [table EXCEPT ![e[3]] = v] /\ UNCHANGED <<kind, conns>>
    /\ v = table[e[3]] \/ (v \in {e, None} /\ table[e[3]] \in {e, None})
    /\ TaskShape(t)'

\* What the entry becomes is a state of its life.
EntryLives(t, k, e, x, v) ==
    /\ x.phase # "ready" => x.refs = 0 /\ x.session = "unborn"
    /\ x.phase = "ready" => x.session # "unborn" /\ (v = e <=> x.refs > 0)
    /\ x.refs > 0 => x.session = "open"
    /\ x.phase \in {"unborn", "failed"} => v # e
    /\ x.phase = "opening" => v = e /\ e[1] = t /\ k.pc = "open" /\ k.entry = e
    /\ entries[e].phase = "opening" => e[1] = t
    /\ entries[e].phase # "unborn" => x.phase # "unborn"
    /\ entries[e].phase = "ready" /\ entries[e].refs = 0 => x.phase = "ready" /\ x.refs = 0

\* What the goroutine knows of the entry, and which entries it has made.
EntryKnown(t, k, e, x) ==
    /\ k.pc # "wait" /\ (tasks[t].pc = "open" => tasks[t].entry = e)
    /\ k.pc = "open" => k.entry = e /\ x.phase = "opening" /\ kind # "redis"
    /\ k.pc = "close" => k.entry = e /\ x.phase = "ready" /\ x.refs = 0
    /\ tasks[t].pc = "close" => tasks[t].entry = e
    /\ k.conn # None /\ (k.pc = "use" \/ k.next = "use") =>
          k.using # None /\ (conns[k.conn].closed \/ conns[k.conn].held[k.ns] = k.using)
    /\ k.run = tasks[t].run /\ tasks[t].pc # "idle"
    /\ k.pc = "idle" \/ Place(tasks[t].ns) <= Place(k.ns)
    /\ k.pc = "acquire" => Place(tasks[t].ns) < Place(k.ns)
    /\ entries[e].phase = "unborn" =>
          e[1] = t /\ e[2] = k.run /\ e[3] = k.ns /\ k.pc # "acquire"

\* The holders of the entry are counted; nobody else's change.
EntryCounted(t, k, e, x) ==
    /\ \A f \in Ids : f # e => Holders(f)' = Holders(f)
    /\ x.refs = Cardinality(Holders(e)')
    /\ x.session = "open" /\ x.refs = 0 =>
          \/ k.pc = "close"
          \/ \E u \in Tasks : u # t /\ At(u, "close") /\ tasks[u].entry = e
          \/ \E c \in Conns : conns[c].last = e

\* Such a step keeps the invariant.
LEMMA EntryStep ==
    ASSUME IndInv, NEW t \in Tasks, NEW k \in Task, NEW e \in Ids, NEW x \in Entry, NEW v,
           EntryMoves(t, k, e, x, v), EntryLives(t, k, e, x, v),
           EntryKnown(t, k, e, x), EntryCounted(t, k, e, x)
    PROVE  IndInv'
<1> USE DEF EntryMoves, EntryLives, EntryKnown, EntryCounted
<1>1. /\ tasks'[t] = k /\ tasks' \in [Tasks -> Task]
      /\ \A u \in Tasks : u # t => tasks'[u] = tasks[u]
    BY DEF IndInv, TypeOK
<1>2. /\ entries' \in [Ids -> Entry] /\ entries'[e] = x
      /\ \A f \in Ids : f # e => entries'[f] = entries[f]
    BY DEF IndInv, TypeOK
<1>3. e[1] \in Tasks /\ e[3] \in Slot /\ e # None
    BY IdParts
<1>4. /\ v \in Ids \cup {None}
      /\ table' \in Held /\ table'[e[3]] = v
      /\ \A m \in Slot : m # e[3] => table'[m] = table[m]
    BY <1>3 DEF IndInv, TypeOK, Held
<1>5. TypeOK'
    BY <1>1, <1>2, <1>4 DEF IndInv, TypeOK
<1>6. Shapes'
    <2> SUFFICES ASSUME NEW u \in Tasks, u # t PROVE TaskShape(u)'
        BY DEF Shapes
    <2> QED BY <1>1 DEF IndInv, Shapes, TaskShape, NewId
<1>7. SlotsExact'
    BY <1>3, <1>4 DEF IndInv, SlotsExact
<1>8. IdsFresh'
    <2> SUFFICES ASSUME NEW f \in Ids, entries'[f].phase # "unborn"
                 PROVE  LET q == tasks'[f[1]]
                        IN /\ f[2] <= q.run
                           /\ f[2] = q.run =>
                                 /\ Place(f[3]) <= Place(q.ns) \/ q.pc = "idle"
                                 /\ q.pc \in {"acquire", "wait"} => Place(f[3]) < Place(q.ns)
        BY DEF IdsFresh
    <2>1. k.ns \in Slot /\ Place(k.ns) \in Nat /\ k.run \in Nat
        BY Places, SharedAssumption DEF Task
    <2>2. CASE f = e /\ entries[e].phase = "unborn"
        BY <1>1, <2>1, <2>2
    <2>3. CASE entries[f].phase # "unborn" /\ f[1] = t
        <3>1. tasks[t].ns \in Slot /\ Place(tasks[t].ns) \in Nat /\ Place(f[3]) \in Nat
            BY IdParts, TaskFields, Places DEF IndInv
        <3>2. f[2] <= k.run /\ (f[2] = k.run => Place(f[3]) <= Place(tasks[t].ns))
            BY <2>3 DEF IndInv, IdsFresh
        <3> QED BY <1>1, <2>1, <2>3, <3>1, <3>2
    <2>4. CASE entries[f].phase # "unborn" /\ f[1] # t
        BY <1>1, <2>4, IdParts DEF IndInv, IdsFresh
    <2> QED BY <1>2, <2>2, <2>3, <2>4
<1>9. LifeExact'
    <2> SUFFICES ASSUME NEW f \in Ids
                 PROVE  LET y == entries'[f]
                        IN /\ y.phase # "ready" => y.refs = 0 /\ y.session = "unborn"
                           /\ y.phase = "ready" => y.session # "unborn"
                           /\ y.refs > 0 => y.session = "open"
                           /\ y.phase \in {"unborn", "failed"} => table'[f[3]] # f
                           /\ y.phase = "opening" =>
                                 table'[f[3]] = f /\ At(f[1], "open")' /\ tasks'[f[1]].entry = f
                           /\ y.phase = "ready" => (table'[f[3]] = f <=> y.refs > 0)
        BY DEF LifeExact
    <2>1. CASE f = e
        BY <1>1, <1>2, <1>3, <1>4, <2>1 DEF At
    <2>2. CASE f # e
        <3>1. f[3] \in Slot /\ f[1] \in Tasks /\ f # None
            BY IdParts
        <3>2. table'[f[3]] = f <=> table[f[3]] = f
            BY <1>4, <2>2, <3>1
        <3>3. entries[f].phase = "opening" => f[1] # t
            BY <2>2 DEF IndInv, LifeExact, At
        <3> QED BY <1>1, <1>2, <2>2, <3>1, <3>2, <3>3 DEF IndInv, LifeExact, At
    <2> QED BY <2>1, <2>2
<1>10. InHand'
    <2>1. ASSUME NEW u \in Tasks
          PROVE  /\ At(u, "wait")' => entries'[tasks'[u].entry].phase # "unborn"
                 /\ At(u, "open")' => /\ entries'[tasks'[u].entry].phase = "opening"
                                      /\ kind' # "redis"
                 /\ At(u, "close")' => /\ entries'[tasks'[u].entry].phase = "ready"
                                       /\ entries'[tasks'[u].entry].refs = 0
        <3>1. CASE u = t
            BY <1>1, <1>2, <3>1 DEF At
        <3>2. CASE u # t
            <4>1. tasks[u].pc \in {"wait", "open", "close"} => tasks[u].entry \in Ids
                BY TaskFields DEF IndInv, Shapes, TaskShape
            <4>2. tasks[u].pc = "open" => tasks[u].entry[1] = u
                BY DEF IndInv, Shapes, TaskShape, NewId
            <4> QED BY <1>1, <1>2, <3>2, <4>1, <4>2 DEF IndInv, InHand, At
        <3> QED BY <3>1, <3>2
    <2>2. ASSUME NEW c \in Conns, conns[c].last # None
          PROVE  entries'[conns[c].last].phase = "ready" /\ entries'[conns[c].last].refs = 0
        <3>1. conns[c].last \in Ids
            BY <2>2 DEF IndInv, TypeOK, Conn
        <3> QED BY <1>2, <2>2, <3>1 DEF IndInv, InHand
    <2> QED BY <2>1, <2>2 DEF InHand
<1>11. CountsExact'
    <2>1. ASSUME NEW f \in Ids, f # e
          PROVE  /\ entries'[f].refs = Cardinality(Holders(f)')
                 /\ entries'[f].session = "open" /\ entries'[f].refs = 0 =>
                       \/ \E u \in Tasks : At(u, "close")' /\ tasks'[u].entry = f
                       \/ \E c \in Conns : conns'[c].last = f
        <3>1. \A u \in Tasks : At(u, "close") /\ tasks[u].entry = f => u # t
            BY <2>1 DEF At
        <3> QED BY <1>1, <1>2, <2>1, <3>1 DEF IndInv, CountsExact, At
    <2>2. /\ entries'[e].refs = Cardinality(Holders(e)')
          /\ entries'[e].session = "open" /\ entries'[e].refs = 0 =>
                \/ \E u \in Tasks : At(u, "close")' /\ tasks'[u].entry = e
                \/ \E c \in Conns : conns'[c].last = e
        BY <1>1, <1>2 DEF At
    <2> QED BY <2>1, <2>2 DEF CountsExact
<1>12. UsesHeld'
    BY <1>1 DEF IndInv, UsesHeld
<1> QED BY <1>5, <1>6, <1>7, <1>8, <1>9, <1>10, <1>11, <1>12 DEF IndInv

\* A goroutine gets a reference to an entry that is, or becomes, ready: it joins
\* it, it has opened it, or it makes it under the mutex.
LEMMA AcquiredInd ==
    ASSUME IndInv, NEW t \in Tasks, NEW e \in Ids, e[3] = tasks[t].ns,
           Become(t, [tasks[t] EXCEPT !.pc = IF tasks[t].conn = None THEN "use" ELSE "install",
                                      !.entry = e]),
           entries' = [entries EXCEPT ![e] = [phase |-> "ready", refs |-> entries[e].refs + 1,
                                              session |-> "open"]],
           table' = [table EXCEPT ![tasks[t].ns] = e],
           UNCHANGED <<kind, conns>>,
           \/ /\ tasks[t].pc \in {"acquire", "wait"}
              /\ entries[e].phase = "ready" /\ table[tasks[t].ns] = e
           \/ tasks[t].pc = "open" /\ e = tasks[t].entry
           \/ /\ tasks[t].pc = "acquire" /\ e = NewId(t) /\ table[tasks[t].ns] = None
    PROVE  IndInv' /\ LeaseStep
<1> DEFINE n == tasks[t].ns
           k == [tasks[t] EXCEPT !.pc = IF tasks[t].conn = None THEN "use" ELSE "install",
                                 !.entry = e]
<1>0. /\ tasks[t] \in Task /\ n \in Slot /\ TaskShape(t)
      /\ tasks[t].pc \in {"acquire", "wait", "open"}
      /\ tasks[t].next = "idle" /\ tasks[t].using = None /\ tasks[t].run > 0
    BY TaskFields DEF IndInv, Shapes, TaskShape
<1>1. /\ k \in Task /\ k.pc = (IF k.conn = None THEN "use" ELSE "install") /\ k.entry = e
      /\ k.run = tasks[t].run /\ k.ns = n /\ k.next = "idle" /\ k.using = None
      /\ k.conn = tasks[t].conn
    BY <1>0 DEF Task, PC
<1>2. /\ tasks' = [tasks EXCEPT ![t] = k] /\ tasks'[t] = k /\ tasks' \in [Tasks -> Task]
      /\ \A u \in Tasks : u # t => tasks'[u] = tasks[u]
    BY <1>1 DEF Become, IndInv, TypeOK
<1> HIDE DEF k
<1>3. /\ entries'[e] = [phase |-> "ready", refs |-> entries[e].refs + 1, session |-> "open"]
      /\ \A f \in Ids : f # e => entries'[f] = entries[f]
      /\ DOMAIN entries' = Ids
    BY DEF IndInv, TypeOK
<1>4. table' \in Held /\ table'[n] = e /\ \A m \in Slot : m # n => table'[m] = table[m]
    BY <1>0 DEF IndInv, TypeOK, Held
<1>5. /\ table[n] \in {e, None}
      /\ \/ entries[e].phase = "ready" /\ entries[e].refs > 0 /\ tasks[t].pc # "open"
         \/ entries[e].phase = "opening" /\ tasks[t].pc = "open" /\ tasks[t].entry = e /\ e[1] = t
         \/ /\ entries[e].phase = "unborn" /\ tasks[t].pc = "acquire" /\ e[1] = t
            /\ e[2] = tasks[t].run
      /\ entries[e].refs \in Nat
    <2>1. CASE /\ tasks[t].pc \in {"acquire", "wait"}
               /\ entries[e].phase = "ready" /\ table[n] = e
        BY <2>1, HolderFacts DEF IndInv, LifeExact
    <2>2. CASE tasks[t].pc = "open" /\ e = tasks[t].entry
        BY <1>0, <2>2, HolderFacts DEF IndInv, LifeExact, InHand, TaskShape, NewId, At
    <2>3. CASE tasks[t].pc = "acquire" /\ e = NewId(t) /\ table[n] = None
        <3>1. entries[e].phase = "unborn" /\ e[1] = t
            BY <2>3, NewIdFresh DEF At
        <3>2. e[2] = tasks[t].run
            BY <2>3 DEF NewId
        <3> QED BY <2>3, <3>1, <3>2, HolderFacts
    <2> QED BY <2>1, <2>2, <2>3
<1>6. TaskShape(t)'
    BY <1>0, <1>1, <1>2, IdParts DEF TaskShape
<1>11. /\ t \notin Holders(e) /\ Holders(e)' = Holders(e) \cup {t}
       /\ \A f \in Ids : f # e => Holders(f)' = Holders(f)
    <2>1. t \notin Conns
        BY SharedAssumption
    <2>2. \A f \in Ids : ~TaskHolds(t, f) /\ (TaskHolds(t, f)' <=> f = e)
        BY <1>0, <1>1, <1>2 DEF TaskHolds, At
    <2>3. \A f \in Ids, u \in Tasks : u # t => (TaskHolds(u, f)' <=> TaskHolds(u, f))
        BY <1>2 DEF TaskHolds, At
    <2>4. \A f \in Ids, c \in Conns : ConnHolds(c, f)' <=> ConnHolds(c, f)
        BY DEF ConnHolds
    <2> QED BY <2>1, <2>2, <2>3, <2>4 DEF Holders
<1>12. /\ [phase |-> "ready", refs |-> entries[e].refs + 1, session |-> "open"] \in Entry
       /\ entries[e].refs + 1 = Cardinality(Holders(e)')
    <2>1. entries[e].refs = Cardinality(Holders(e)) /\ Holders(e) \in SUBSET (Tasks \cup Conns)
        BY HolderFacts DEF IndInv, CountsExact
    <2>2. Cardinality(Holders(e) \cup {t}) = Cardinality(Holders(e)) + 1
        BY <1>11, <2>1, HoldersFinite
    <2>3. entries[e].refs + 1 = Cardinality(Holders(e)')
        BY <1>11, <2>1, <2>2
    <2>4. Holders(e)' \in SUBSET (Tasks \cup Conns)
        BY <1>11, <2>1
    <2>5. Cardinality(Holders(e)') \in 0 .. Cardinality(Conns) + Cardinality(Tasks)
        BY <2>4, HoldersFinite
    <2> QED BY <2>3, <2>5 DEF Entry
<1>13. IndInv'
    <2> DEFINE x == [phase |-> "ready", refs |-> entries[e].refs + 1, session |-> "open"]
    <2>1. /\ x \in Entry /\ x.phase = "ready" /\ x.refs = entries[e].refs + 1
          /\ x.refs > 0 /\ x.session = "open" /\ entries' = [entries EXCEPT ![e] = x]
        BY <1>5, <1>12
    <2>2. x.refs = Cardinality(Holders(e)')
        BY <1>12
    <2> HIDE DEF x
    <2>3. table' = [table EXCEPT ![e[3]] = e] /\ table[e[3]] \in {e, None}
        BY <1>5
    <2>4. Place(n) \in Nat /\ e # None /\ e \in {e, None}
        BY <1>0, Places, IdParts
    <2>5. EntryMoves(t, k, e, x, e)
        BY <1>2, <1>6, <2>1, <2>3 DEF EntryMoves
    <2>6. EntryLives(t, k, e, x, e)
        BY <1>5, <2>1 DEF EntryLives
    <2>7. EntryKnown(t, k, e, x)
        BY <1>0, <1>1, <1>5, <2>4 DEF EntryKnown
    <2>8. EntryCounted(t, k, e, x)
        BY <1>11, <2>1, <2>2 DEF EntryCounted
    <2> QED BY <1>1, <2>1, <2>5, <2>6, <2>7, <2>8, EntryStep
<1>15. LeaseStep
    <2> DEFINE current == [m \in Slot |-> Handed(m)]
               life == [f \in Ids |-> entries[f].session]
               holders == [f \in Ids |-> Holders(f)]
    <2>1. PICK s \in Slot : s = n
        BY <1>0
    <2>2. \A f \in Ids : Holders(f)' = IF f = e THEN Holders(e) \cup {t} ELSE Holders(f)
        BY <1>11, <2>1
    <2>3. \A m \in Slot : m # s => Handed(m)' = Handed(m)
        <3> SUFFICES ASSUME NEW m \in Slot, m # s PROVE Handed(m)' = Handed(m)
            OBVIOUS
        <3>1. table'[m] = table[m] /\ table[m] \in Ids \cup {None} /\ table[m] # e
            BY <1>4, <2>1, IdParts DEF IndInv, TypeOK, Held, SlotsExact
        <3> QED BY <1>3, <2>1, <3>1 DEF Handed
    <2>4. Handed(s)' = e
        BY <1>3, <1>4, <2>1, IdParts DEF Handed
    <2>5. CASE entries[e].phase = "ready"
        <3>1. table[s] = e /\ entries[e].session = "open"
            BY <2>1, <1>5, <2>5, IdParts DEF IndInv, LifeExact
        <3>2. Handed(s) = e
            BY <2>1, <2>5, <3>1, IdParts DEF Handed
        <3>3. \A f \in Ids : entries'[f].session = entries[f].session
            BY <1>3, <2>1, <3>1
        <3>4. current' = current /\ life' = life
            BY <2>1, <2>3, <2>4, <3>2, <3>3
        <3>5. holders' = [holders EXCEPT ![e] = @ \cup {t}]
            BY <2>1, <2>2
        <3>6. current[s] = e /\ t \notin holders[e]
            BY <1>11, <2>1, <3>2
        <3>7. Lease!Join(s, e, t)
            BY <2>1, <3>4, <3>5, <3>6 DEF Lease!Join, Handed
        <3> QED BY <2>1, <3>7 DEF LeaseStep, Lease!LeaseNext
    <2>6. CASE entries[e].phase # "ready"
        <3>1. entries[e].session = "unborn" /\ Holders(e) = {} /\ (table[s] = None \/ table[s] = e)
            BY <2>1, <1>5, <2>6, HolderFacts DEF IndInv, LifeExact
        <3>2. Handed(s) = None
            BY <2>1, <2>6, <3>1 DEF Handed
        <3>3. current' = [current EXCEPT ![s] = e]
            BY <2>1, <2>3, <2>4
        <3>4. life' = [life EXCEPT ![e] = "open"]
            BY <1>3, <2>1
        <3>5. holders' = [holders EXCEPT ![e] = {t}]
            BY <2>1, <2>2, <3>1
        <3>6. current[s] = None /\ life[e] = "unborn"
            BY <2>1, <3>1, <3>2
        <3>7. Lease!Create(s, e, t)
            BY <2>1, <3>3, <3>4, <3>5, <3>6 DEF Lease!Create, Handed
        <3> QED BY <2>1, <3>7 DEF LeaseStep, Lease!LeaseNext
    <2> QED BY <2>5, <2>6
<1> QED BY <1>13, <1>15

\* acquireSession finds a session, in the table or once it was opened.
LEMMA JoinInd ==
    ASSUME IndInv, NEW t \in Tasks, NEW e \in Ids, tasks[t].pc \in {"acquire", "wait"},
           entries[e].phase = "ready", table[tasks[t].ns] = e, JoinEntry(t, e)
    PROVE  IndInv' /\ LeaseStep
<1>1. e[3] = tasks[t].ns /\ tasks[t].ns \in Slot
    BY TaskFields, IdParts DEF IndInv, SlotsExact
<1>2. /\ entries[e] \in Entry /\ entries[e].refs \in Nat /\ entries[e].session = "open"
      /\ entries \in [Ids -> Entry]
    BY <1>1, HolderFacts DEF IndInv, LifeExact, TypeOK
<1>3. entries' = [entries EXCEPT ![e] = [phase |-> "ready", refs |-> entries[e].refs + 1,
                                         session |-> "open"]]
    <2>1. [entries[e] EXCEPT !.refs = entries[e].refs + 1]
            = [phase |-> "ready", refs |-> entries[e].refs + 1, session |-> "open"]
        BY <1>2 DEF Entry
    <2>2. entries' = [entries EXCEPT ![e] = [entries[e] EXCEPT !.refs = entries[e].refs + 1]]
        BY <1>2 DEF JoinEntry
    <2> QED BY <2>1, <2>2
<1>4. table' = [table EXCEPT ![tasks[t].ns] = e]
    BY <1>1 DEF JoinEntry, IndInv, TypeOK, Held
<1> QED BY <1>1, <1>3, <1>4, AcquiredInd DEF JoinEntry

\* newSession succeeded, and the entry becomes ready.
LEMMA OpenedReadyInd ==
    ASSUME IndInv, NEW t \in Tasks, At(t, "open"), UNCHANGED <<kind, conns, table>>,
           entries' = [entries EXCEPT ![tasks[t].entry] =
                          [phase |-> "ready", refs |-> 1, session |-> "open"]],
           Become(t, [tasks[t] EXCEPT !.pc = IF tasks[t].conn = None THEN "use" ELSE "install"])
    PROVE  IndInv' /\ LeaseStep
<1>1. PICK e \in Ids : e = tasks[t].entry
    BY TaskFields DEF IndInv, Shapes, TaskShape, At
<1>2. e[3] = tasks[t].ns /\ tasks[t].ns \in Slot /\ tasks[t] \in Task
    BY <1>1, TaskFields DEF IndInv, Shapes, TaskShape, At
<1>3. entries[e].refs = 0 /\ table[tasks[t].ns] = e
    BY <1>1, <1>2 DEF IndInv, InHand, LifeExact, At
<1>4. entries' = [entries EXCEPT ![e] = [phase |-> "ready", refs |-> entries[e].refs + 1,
                                         session |-> "open"]]
    BY <1>1, <1>3
<1>5. table' = [table EXCEPT ![tasks[t].ns] = e]
    BY <1>2, <1>3 DEF IndInv, TypeOK, Held
<1>6. [tasks[t] EXCEPT !.pc = IF tasks[t].conn = None THEN "use" ELSE "install"]
        = [tasks[t] EXCEPT !.pc = IF tasks[t].conn = None THEN "use" ELSE "install", !.entry = e]
    BY <1>1, <1>2 DEF Task
<1> QED BY <1>1, <1>2, <1>4, <1>5, <1>6, AcquiredInd DEF At

\* acquireClient of Redis joins the client of the namespace, or makes it.
LEMMA acquireClientInd ==
    ASSUME IndInv, NEW t \in Tasks, acquireClient(t)
    PROVE  IndInv' /\ LeaseStep
<1> DEFINE e == table[tasks[t].ns]
<1>1. kind = "redis" /\ tasks[t].pc = "acquire" /\ tasks[t].ns \in Slot /\ e \in Ids \cup {None}
    BY TaskFields DEF acquireClient, At, IndInv, TypeOK, Held
<1>2. CASE e # None /\ JoinEntry(t, e)
    <2>1. e \in Ids /\ e[1] \in Tasks /\ e[3] = tasks[t].ns
        BY <1>1, <1>2, IdParts DEF IndInv, SlotsExact
    <2>2. entries[e].phase \in {"unborn", "opening", "ready", "failed"}
        BY <2>1 DEF IndInv, TypeOK, Entry
    <2>3. entries[e].phase = "ready"
        BY <1>1, <2>1, <2>2 DEF IndInv, LifeExact, InHand
    <2> QED BY <1>1, <1>2, <2>1, <2>3, JoinInd
<1>3. CASE e = None /\ ~(e # None /\ JoinEntry(t, e))
    <2>1. PICK f \in Ids : f = NewId(t)
        BY <1>1, NewIdFresh DEF At
    <2>2. entries[f].phase = "unborn" /\ entries[f].refs = 0 /\ f[3] = tasks[t].ns
        BY <1>1, <2>1, NewIdFresh DEF At, IndInv, LifeExact
    <2>3. /\ table' = [table EXCEPT ![tasks[t].ns] = f]
          /\ entries' = [entries EXCEPT ![f] =
                    [phase |-> "ready", refs |-> entries[f].refs + 1, session |-> "open"]]
          /\ Become(t, [tasks[t] EXCEPT
                    !.pc = IF tasks[t].conn = None THEN "use" ELSE "install", !.entry = f])
          /\ UNCHANGED <<kind, conns>>
        BY <1>3, <2>1, <2>2 DEF acquireClient
    <2> QED BY <1>1, <1>3, <2>1, <2>2, <2>3, AcquiredInd
<1> QED BY <1>2, <1>3 DEF acquireClient

\* What such a step makes of the sessions that are handed out.
LEMMA HandedMoves ==
    ASSUME IndInv, NEW t \in Tasks, NEW k \in Task, NEW e \in Ids, NEW x \in Entry, NEW v,
           EntryMoves(t, k, e, x, v), v \in {e, None}, table[e[3]] \in {e, None}
    PROVE  /\ e[3] \in Slot
           /\ \A m \in Slot : m # e[3] => Handed(m)' = Handed(m)
           /\ Handed(e[3])' = IF v = e /\ x.phase = "ready" THEN e ELSE None
           /\ Handed(e[3]) = IF table[e[3]] = e /\ entries[e].phase = "ready" THEN e ELSE None
<1>1. e[3] \in Slot /\ e # None
    BY IdParts
<1>2. /\ entries'[e] = x /\ (\A f \in Ids : f # e => entries'[f] = entries[f])
      /\ table'[e[3]] = v /\ (\A m \in Slot : m # e[3] => table'[m] = table[m])
    BY <1>1 DEF EntryMoves, IndInv, TypeOK, Held
<1>3. ASSUME NEW m \in Slot, m # e[3] PROVE Handed(m)' = Handed(m)
    <2>1. table'[m] = table[m] /\ table[m] \in Ids \cup {None} /\ table[m] # e
        BY <1>2, <1>3, IdParts DEF IndInv, TypeOK, Held, SlotsExact
    <2> QED BY <1>2, <2>1 DEF Handed
<1>4. Handed(e[3])' = IF v = e /\ x.phase = "ready" THEN e ELSE None
    BY <1>1, <1>2 DEF Handed, EntryMoves
<1>5. Handed(e[3]) = IF table[e[3]] = e /\ entries[e].phase = "ready" THEN e ELSE None
    BY <1>1 DEF Handed, EntryMoves
<1> QED BY <1>1, <1>3, <1>4, <1>5

\* A goroutine becomes the one that opens the session.
LEMMA OpeningInd ==
    ASSUME IndInv, NEW t \in Tasks, At(t, "acquire"), kind # "redis", UNCHANGED <<kind, conns>>,
           table[tasks[t].ns] = None, table' = [table EXCEPT ![tasks[t].ns] = NewId(t)],
           entries' = [entries EXCEPT ![NewId(t)].phase = "opening"],
           Become(t, [tasks[t] EXCEPT !.pc = "open", !.entry = NewId(t)])
    PROVE  IndInv' /\ LeaseStep
<1>1. PICK e \in Ids : e = NewId(t)
    BY NewIdFresh
<1>2. /\ entries[e].phase = "unborn" /\ e[1] = t /\ e[3] = tasks[t].ns
      /\ e[2] = tasks[t].run /\ e # None
    BY <1>1, NewIdFresh, IdParts DEF NewId
<1> DEFINE k == [tasks[t] EXCEPT !.pc = "open", !.entry = e]
           x == [entries[e] EXCEPT !.phase = "opening"]
<1>3. /\ tasks[t] \in Task /\ TaskShape(t) /\ tasks[t].pc = "acquire" /\ tasks[t].ns \in Slot
      /\ Place(tasks[t].ns) \in Nat
    BY TaskFields, Places DEF IndInv, Shapes, At
<1>4. /\ entries[e] \in Entry /\ entries[e].refs = 0 /\ entries[e].session = "unborn"
      /\ Holders(e) = {}
    BY <1>2, HolderFacts DEF IndInv, LifeExact
<1>5. x \in Entry /\ x.phase = "opening" /\ x.refs = 0 /\ x.session = "unborn"
    BY <1>4 DEF Entry
<1>6. /\ k \in Task /\ k.pc = "open" /\ k.entry = e /\ k.run = tasks[t].run
      /\ k.ns = tasks[t].ns /\ k.next = tasks[t].next /\ k.using = tasks[t].using
      /\ k.conn = tasks[t].conn
    BY <1>3 DEF Task, PC
<1>7. tasks' = [tasks EXCEPT ![t] = k] /\ entries' = [entries EXCEPT ![e] = x]
    BY <1>1 DEF Become, IndInv, TypeOK
<1> HIDE DEF k, x
<1>8. tasks'[t] = k /\ \A u \in Tasks : u # t => tasks'[u] = tasks[u]
    BY <1>7 DEF IndInv, TypeOK
<1>9. TaskShape(t)' /\ tasks[t].next = "idle"
    <2>1. NewId(t)' = NewId(t)
        BY <1>6, <1>8 DEF NewId
    <2> QED BY <1>1, <1>2, <1>3, <1>6, <1>8, <2>1 DEF TaskShape
<1>10. \A f \in Ids : Holders(f)' = Holders(f)
    BY <1>3, <1>6, <1>8 DEF Holders, TaskHolds, ConnHolds, At
<1>11. EntryMoves(t, k, e, x, e)
    BY <1>1, <1>2, <1>7, <1>9 DEF EntryMoves
<1>12. EntryLives(t, k, e, x, e)
    BY <1>2, <1>5, <1>6 DEF EntryLives
<1>13. EntryKnown(t, k, e, x)
    BY <1>2, <1>3, <1>5, <1>6, <1>9 DEF EntryKnown
<1>14. EntryCounted(t, k, e, x)
    <2>1. x.refs = Cardinality(Holders(e)')
        BY <1>4, <1>5, <1>10 DEF IndInv, CountsExact
    <2> QED BY <1>5, <1>10, <2>1 DEF EntryCounted
<1>15. IndInv'
    BY <1>5, <1>6, <1>11, <1>12, <1>13, <1>14, EntryStep
<1>16. LeaseStep
    <2>1. \A m \in Slot : Handed(m)' = Handed(m)
        <3> SUFFICES ASSUME NEW m \in Slot PROVE Handed(m)' = Handed(m)
            OBVIOUS
        <3>1. CASE m = e[3]
            BY <1>2, <1>5, <1>6, <1>11, <3>1, HandedMoves
        <3>2. CASE m # e[3]
            BY <1>2, <1>5, <1>6, <1>11, <3>2, HandedMoves
        <3> QED BY <3>1, <3>2
    <2>2. \A f \in Ids : entries'[f].session = entries[f].session
        BY <1>4, <1>5, <1>7 DEF IndInv, TypeOK
    <2> QED BY <1>10, <2>1, <2>2, LeaseStutter
<1> QED BY <1>15, <1>16

\* newSession failed: whoever waits for the entry learns it.
LEMMA OpenFailedInd ==
    ASSUME IndInv, NEW t \in Tasks, At(t, "open"), UNCHANGED <<kind, conns>>,
           table' = [table EXCEPT ![tasks[t].ns] = None],
           entries' = [entries EXCEPT ![tasks[t].entry].phase = "failed"],
           Become(t, Resting(tasks[t].run))
    PROVE  IndInv' /\ LeaseStep
<1>1. PICK e \in Ids : e = tasks[t].entry
    BY TaskFields DEF IndInv, Shapes, TaskShape, At
<1>2. /\ e[3] = tasks[t].ns /\ e[1] = t /\ e # None /\ entries[e].phase = "opening"
      /\ table[e[3]] = e
    BY <1>1, IdParts DEF IndInv, Shapes, TaskShape, At, NewId, InHand, LifeExact
<1> DEFINE k == Resting(tasks[t].run)
           x == [entries[e] EXCEPT !.phase = "failed"]
<1>4. /\ entries[e] \in Entry /\ entries[e].refs = 0 /\ entries[e].session = "unborn"
      /\ Holders(e) = {} /\ tasks[t].pc = "open"
    BY <1>2, HolderFacts DEF IndInv, LifeExact, At
<1>5. x \in Entry /\ x.phase = "failed" /\ x.refs = 0 /\ x.session = "unborn"
    BY <1>4 DEF Entry
<1>6. /\ k \in Task /\ k.pc = "idle" /\ k.run = tasks[t].run /\ k.conn = None
      /\ k.entry = None /\ k.next = "idle" /\ k.using = None /\ k = Resting(k.run)
    BY TaskFields, RestingTask DEF IndInv
<1>7. tasks' = [tasks EXCEPT ![t] = k] /\ entries' = [entries EXCEPT ![e] = x]
    BY <1>1 DEF Become, IndInv, TypeOK
<1> HIDE DEF k, x
<1>8. tasks'[t] = k /\ \A u \in Tasks : u # t => tasks'[u] = tasks[u]
    BY <1>7 DEF IndInv, TypeOK
<1>9. TaskShape(t)'
    BY <1>6, <1>8 DEF TaskShape
<1>10. \A f \in Ids : Holders(f)' = Holders(f)
    BY <1>4, <1>6, <1>8 DEF Holders, TaskHolds, ConnHolds, At
<1>11. EntryMoves(t, k, e, x, None)
    BY <1>2, <1>7, <1>9 DEF EntryMoves
<1>12. EntryLives(t, k, e, x, None)
    BY <1>2, <1>5 DEF EntryLives
<1>13. EntryKnown(t, k, e, x)
    BY <1>1, <1>2, <1>4, <1>6 DEF EntryKnown
<1>14. EntryCounted(t, k, e, x)
    <2>1. x.refs = Cardinality(Holders(e)')
        BY <1>4, <1>5, <1>10 DEF IndInv, CountsExact
    <2> QED BY <1>5, <1>10, <2>1 DEF EntryCounted
<1>15. IndInv'
    BY <1>5, <1>6, <1>11, <1>12, <1>13, <1>14, EntryStep
<1>16. LeaseStep
    <2>1. \A m \in Slot : Handed(m)' = Handed(m)
        <3> SUFFICES ASSUME NEW m \in Slot PROVE Handed(m)' = Handed(m)
            OBVIOUS
        <3>1. CASE m = e[3]
            BY <1>2, <1>5, <1>6, <1>11, <3>1, HandedMoves
        <3>2. CASE m # e[3]
            BY <1>2, <1>5, <1>6, <1>11, <3>2, HandedMoves
        <3> QED BY <3>1, <3>2
    <2>2. \A f \in Ids : entries'[f].session = entries[f].session
        BY <1>4, <1>5, <1>7 DEF IndInv, TypeOK
    <2> QED BY <1>10, <2>1, <2>2, LeaseStutter
<1> QED BY <1>15, <1>16

\* Where a goroutine goes after a release.
LEMMA OnwardTask ==
    ASSUME IndInv, NEW t \in Tasks, tasks[t].pc \in {"release", "close"}
    PROVE  /\ Onward(t) \in Task /\ Onward(t).run = tasks[t].run /\ tasks[t].run > 0
           /\ Onward(t).entry = None /\ Onward(t).next = "idle"
           /\ Onward(t).pc \in {"idle", "use", "acquire"}
           /\ Onward(t).pc = "idle" => Onward(t) = Resting(tasks[t].run)
           /\ Onward(t).pc = "use" =>
                 /\ Onward(t).conn = tasks[t].conn /\ tasks[t].conn # None
                 /\ tasks[t].next = "use" /\ Onward(t).using = tasks[t].using
                 /\ Onward(t).ns = tasks[t].ns
           /\ Onward(t).pc = "acquire" =>
                 Onward(t).conn = None /\ Place(Onward(t).ns) = 1 + Place(tasks[t].ns)
           /\ Onward(t).conn = None => Onward(t).using = None
<1>1. /\ tasks[t] \in Task /\ TaskShape(t) /\ tasks[t].run > 0
      /\ tasks[t].next \in {"idle", "use", "acquire"} /\ tasks[t].ns \in Slot
    BY TaskFields DEF IndInv, Shapes, TaskShape
<1>2. CASE tasks[t].next = "idle"
    BY <1>1, <1>2, RestingTask, TaskFields DEF Onward, IndInv
<1>3. CASE tasks[t].next = "use"
    BY <1>1, <1>3 DEF Onward, Task, PC, TaskShape
<1>4. CASE tasks[t].next = "acquire"
    <2>1. tasks[t].conn = None /\ tasks[t].using = None /\ tasks[t].ns # Namespaces[Len(Namespaces)]
        BY <1>1, <1>4 DEF TaskShape
    <2> DEFINE m == Namespaces[1 + Place(tasks[t].ns)]
    <2>2. m \in Slot /\ Place(m) = 1 + Place(tasks[t].ns)
        BY <1>1, <2>1, Places
    <2>3. Onward(t) = [tasks[t] EXCEPT !.pc = "acquire", !.entry = None, !.next = "idle", !.ns = m]
        BY <1>1, <1>4 DEF Onward, Place
    <2> HIDE DEF m
    <2> QED BY <1>1, <2>1, <2>2, <2>3 DEF Task, PC
<1> QED BY <1>1, <1>2, <1>3, <1>4

\* A holder drops its reference: the entry is in the table, and the last
\* reference takes it out.
LEMMA DropFacts ==
    ASSUME IndInv, NEW e \in Ids, NEW u \in Holders(e), Drop(e[3], e)
    PROVE  /\ LastReference(e[3], e) <=> Holders(e) = {u}
           /\ entries[e].phase = "ready" /\ entries[e].session = "open" /\ entries[e].refs > 0
           /\ table[e[3]] = e /\ entries[e] \in Entry /\ entries[e].refs \in Nat
           /\ entries' = [entries EXCEPT ![e] = [entries[e] EXCEPT !.refs = entries[e].refs - 1]]
           /\ table' = [table EXCEPT ![e[3]] = IF Holders(e) = {u} THEN None ELSE e]
           /\ entries[e].refs - 1 = Cardinality(Holders(e) \ {u})
           /\ entries[e].refs - 1 = 0 <=> Holders(e) = {u}
<1>1. /\ Holders(e) \in SUBSET (Tasks \cup Conns) /\ entries[e] \in Entry
      /\ entries[e].refs \in Nat /\ entries[e].refs > 0
      /\ entries[e].phase = "ready" /\ entries[e].session = "open" /\ table[e[3]] = e
    BY HolderFacts
<1>2. u \in Tasks \cup Conns /\ entries[e].refs = Cardinality(Holders(e)) /\ e[3] \in Slot
    BY <1>1, IdParts DEF IndInv, CountsExact
<1>3. entries[e].refs - 1 = Cardinality(Holders(e) \ {u})
    BY <1>1, <1>2, HoldersFinite
<1>4. entries[e].refs - 1 = 0 <=> Holders(e) = {u}
    <2>1. entries[e].refs = 1 => Holders(e) = {u}
        <3>1. Cardinality(Holders(e)) = 1 => Holders(e) = {u}
            BY <1>1, <1>2, HoldersFinite
        <3> QED BY <1>2, <3>1
    <2>2. Holders(e) = {u} => Cardinality(Holders(e) \ {u}) = 0
        BY FS_EmptySet
    <2> QED BY <1>1, <1>3, <2>1, <2>2
<1>5. ~Stale(e[3], e) /\ (LastReference(e[3], e) <=> Holders(e) = {u})
    BY <1>1, <1>4 DEF Stale, LastReference
<1>6. entries' = [entries EXCEPT ![e] = [entries[e] EXCEPT !.refs = entries[e].refs - 1]]
    BY <1>5 DEF Drop, IndInv, TypeOK
<1>7. table' = [table EXCEPT ![e[3]] = IF Holders(e) = {u} THEN None ELSE e]
    BY <1>1, <1>2, <1>5 DEF Drop, IndInv, TypeOK, Held
<1> QED BY <1>1, <1>3, <1>4, <1>5, <1>6, <1>7

\* A holder that drops its reference leaves the lease.
LEMMA LeaveLease ==
    ASSUME IndInv, NEW e \in Ids, NEW u \in Holders(e), Drop(e[3], e),
           Holders(e)' = Holders(e) \ {u},
           \A f \in Ids : f # e => Holders(f)' = Holders(f)
    PROVE  LeaseStep
<1> DEFINE current == [m \in Slot |-> Handed(m)]
           life == [f \in Ids |-> entries[f].session]
           holders == [f \in Ids |-> Holders(f)]
           x == [entries[e] EXCEPT !.refs = entries[e].refs - 1]
           v == IF Holders(e) = {u} THEN None ELSE e
<1>1. u \in Tasks \cup Conns /\ e[3] \in Slot /\ e # None
    BY HolderFacts, IdParts
<1>2. /\ entries[e].phase = "ready" /\ table[e[3]] = e /\ entries[e] \in Entry
      /\ entries' = [entries EXCEPT ![e] = x] /\ table' = [table EXCEPT ![e[3]] = v]
    BY DropFacts
<1>3. x.phase = "ready" /\ x.session = entries[e].session
    BY <1>2 DEF Entry
<1> HIDE DEF x
<1>4. /\ entries'[e] = x /\ (\A f \in Ids : f # e => entries'[f] = entries[f])
      /\ table'[e[3]] = v /\ (\A m \in Slot : m # e[3] => table'[m] = table[m])
    BY <1>1, <1>2 DEF IndInv, TypeOK, Held
<1>5. \A m \in Slot : m # e[3] => Handed(m)' = Handed(m)
    <2> SUFFICES ASSUME NEW m \in Slot, m # e[3] PROVE Handed(m)' = Handed(m)
        OBVIOUS
    <2>1. table'[m] = table[m] /\ table[m] \in Ids \cup {None} /\ table[m] # e
        BY <1>4, IdParts DEF IndInv, TypeOK, Held, SlotsExact
    <2> QED BY <1>4, <2>1 DEF Handed
<1>6. Handed(e[3]) = e /\ Handed(e[3])' = v
    BY <1>1, <1>2, <1>3, <1>4 DEF Handed
<1>7. current' = [current EXCEPT ![e[3]] = IF holders[e] = {u} THEN None ELSE @]
    BY <1>1, <1>5, <1>6
<1>8. holders' = [holders EXCEPT ![e] = @ \ {u}]
    OBVIOUS
<1>9. life' = life
    BY <1>3, <1>4
<1>10. current[e[3]] = e /\ u \in holders[e]
    BY <1>1, <1>6
<1>11. Lease!Leave(e[3], e, u)
    BY <1>7, <1>8, <1>9, <1>10 DEF Lease!Leave, Handed
<1> QED BY <1>1, <1>11 DEF LeaseStep, Lease!LeaseNext

\* releaseSession under the mutex.
LEMMA ReleaseEntryInd ==
    ASSUME IndInv, NEW t \in Tasks, ReleaseEntry(t)
    PROVE  IndInv' /\ LeaseStep
<1>1. PICK e \in Ids : e = tasks[t].entry
    BY TaskFields DEF IndInv, Shapes, TaskShape, At, ReleaseEntry
<1>2. /\ e[3] = tasks[t].ns /\ e # None /\ tasks[t].pc = "release" /\ tasks[t] \in Task
      /\ TaskShape(t) /\ Place(tasks[t].ns) \in Nat
    BY <1>1, IdParts, TaskFields, Places DEF IndInv, Shapes, TaskShape, At, ReleaseEntry
<1>3. t \in Holders(e) /\ t \notin Conns
    BY <1>1, <1>2, SharedAssumption DEF Holders, TaskHolds, At
<1>4. Drop(e[3], e)
    BY <1>1, <1>2 DEF ReleaseEntry
<1> DEFINE last == Holders(e) = {t}
           k == IF last THEN [tasks[t] EXCEPT !.pc = "close"] ELSE Onward(t)
           x == [entries[e] EXCEPT !.refs = entries[e].refs - 1]
           v == IF last THEN None ELSE e
<1>5. /\ entries[e].phase = "ready" /\ entries[e].session = "open" /\ entries[e].refs > 0
      /\ entries[e] \in Entry /\ entries[e].refs \in Nat /\ table[e[3]] = e
      /\ entries' = [entries EXCEPT ![e] = x] /\ table' = [table EXCEPT ![e[3]] = v]
      /\ entries[e].refs - 1 = Cardinality(Holders(e) \ {t})
      /\ entries[e].refs - 1 = 0 <=> last
      /\ LastReference(e[3], e) <=> last
    BY <1>3, <1>4, DropFacts
<1>6. /\ x \in Entry /\ x.phase = "ready" /\ x.session = "open" /\ x.refs = entries[e].refs - 1
    BY <1>5, HoldersFinite DEF Entry
<1>7. /\ k \in Task /\ k.run = tasks[t].run /\ tasks[t].run > 0
      /\ last => k.pc = "close" /\ k.entry = e /\ k.ns = tasks[t].ns /\ k.next = tasks[t].next
                 /\ k.using = tasks[t].using /\ k.conn = tasks[t].conn
      /\ ~last =>
           /\ k.entry = None /\ k.next = "idle" /\ k.pc \in {"idle", "use", "acquire"}
           /\ k.pc = "idle" => k = Resting(k.run)
           /\ k.pc = "use" => /\ k.conn = tasks[t].conn /\ k.conn # None /\ tasks[t].next = "use"
                              /\ k.using = tasks[t].using /\ k.ns = tasks[t].ns
           /\ k.pc = "acquire" => k.conn = None /\ Place(k.ns) = 1 + Place(tasks[t].ns)
           /\ k.conn = None => k.using = None
    <2>1. CASE last
        BY <1>1, <1>2, <2>1 DEF Task, PC, TaskShape
    <2>2. CASE ~last
        BY <1>2, <2>2, OnwardTask
    <2> QED BY <2>1, <2>2
<1>8. tasks' = [tasks EXCEPT ![t] = k] /\ UNCHANGED <<kind, conns>>
    BY <1>1, <1>2, <1>5 DEF ReleaseEntry, Become
<1> HIDE DEF k, x
<1>9. tasks'[t] = k /\ \A u \in Tasks : u # t => tasks'[u] = tasks[u]
    BY <1>7, <1>8 DEF IndInv, TypeOK
<1>10. TaskShape(t)'
    <2>1. CASE last
        BY <1>1, <1>2, <1>7, <1>9, <2>1 DEF TaskShape
    <2>2. CASE ~last
        BY <1>2, <1>7, <1>9, <2>2 DEF TaskShape
    <2> QED BY <2>1, <2>2
<1>11. Holders(e)' = Holders(e) \ {t} /\ \A f \in Ids : f # e => Holders(f)' = Holders(f)
    <2>1. \A f \in Ids : ~TaskHolds(t, f)' /\ (TaskHolds(t, f) => f = e)
        BY <1>1, <1>2, <1>7, <1>9 DEF TaskHolds, At
    <2>2. \A f \in Ids, u \in Tasks : u # t => (TaskHolds(u, f)' <=> TaskHolds(u, f))
        BY <1>9 DEF TaskHolds, At
    <2>3. \A f \in Ids, c \in Conns : ConnHolds(c, f)' <=> ConnHolds(c, f)
        BY <1>8 DEF ConnHolds
    <2> QED BY <1>3, <2>1, <2>2, <2>3 DEF Holders
<1>12. EntryMoves(t, k, e, x, v)
    BY <1>5, <1>8, <1>10 DEF EntryMoves
<1>13. EntryLives(t, k, e, x, v)
    BY <1>2, <1>5, <1>6 DEF EntryLives
<1>14. EntryKnown(t, k, e, x)
    <2>1. k.pc = "use" => conns[k.conn].closed \/ conns[k.conn].held[k.ns] = k.using
        BY <1>7 DEF IndInv, UsesHeld
    <2>2. tasks[t].next = "use" => /\ tasks[t].using # None /\ tasks[t].conn # None
                                   /\ \/ conns[tasks[t].conn].closed
                                      \/ conns[tasks[t].conn].held[tasks[t].ns] = tasks[t].using
        BY <1>2 DEF IndInv, UsesHeld, TaskShape
    <2>3. CASE last
        BY <1>2, <1>5, <1>6, <1>7, <2>2, <2>3 DEF EntryKnown
    <2>4. CASE ~last
        BY <1>2, <1>5, <1>6, <1>7, <2>1, <2>2, <2>4 DEF EntryKnown
    <2> QED BY <2>3, <2>4
<1>15. EntryCounted(t, k, e, x)
    BY <1>5, <1>6, <1>7, <1>11 DEF EntryCounted
<1>16. IndInv'
    BY <1>6, <1>7, <1>12, <1>13, <1>14, <1>15, EntryStep
<1>17. LeaseStep
    BY <1>3, <1>4, <1>11, LeaveLease
<1> QED BY <1>16, <1>17

\* A session that nobody holds is closed, or was before.
LEMMA ShutLease ==
    ASSUME IndInv, NEW e \in Ids, entries[e].phase = "ready", entries[e].refs = 0,
           entries' = [entries EXCEPT ![e].session = "closed"], table' = table,
           \A f \in Ids : Holders(f)' = Holders(f)
    PROVE  LeaseStep
<1> DEFINE current == [m \in Slot |-> Handed(m)]
           life == [f \in Ids |-> entries[f].session]
           holders == [f \in Ids |-> Holders(f)]
<1>1. /\ entries[e] \in Entry /\ entries[e].session \in {"open", "closed"} /\ Holders(e) = {}
      /\ e[3] \in Slot /\ e # None /\ table[e[3]] # e
    BY HolderFacts, IdParts DEF IndInv, LifeExact, Entry
<1>2. /\ entries'[e].session = "closed" /\ entries'[e].phase = entries[e].phase
      /\ \A f \in Ids : f # e => entries'[f] = entries[f]
    BY <1>1 DEF IndInv, TypeOK, Entry
<1>3. \A m \in Slot : table[m] \in Ids \cup {None} /\ table[m] # e
    BY <1>1 DEF IndInv, SlotsExact, TypeOK, Held
<1>4. \A m \in Slot : Handed(m)' = Handed(m) /\ Handed(m) # e
    BY <1>1, <1>2, <1>3 DEF Handed
<1>5. CASE entries[e].session = "closed"
    <2>1. \A f \in Ids : entries'[f].session = entries[f].session
        BY <1>2, <1>5
    <2> QED BY <1>4, <2>1, LeaseStutter
<1>6. CASE entries[e].session = "open"
    <2>1. current' = current /\ holders' = holders
        BY <1>4
    <2>2. life' = [life EXCEPT ![e] = "closed"]
        <3>1. \A f \in Ids : entries'[f].session = IF f = e THEN "closed" ELSE entries[f].session
            BY <1>2
        <3> QED BY <3>1
    <2>3. life[e] = "open" /\ holders[e] = {} /\ \A m \in Slot : current[m] # e
        BY <1>1, <1>4, <1>6
    <2>4. Lease!Shut(e)
        BY <2>1, <2>2, <2>3 DEF Lease!Shut, Handed
    <2> QED BY <2>4 DEF LeaseStep, Lease!LeaseNext
<1> QED BY <1>1, <1>5, <1>6

\* releaseSession after the unlock.
LEMMA CloseEntryInd ==
    ASSUME IndInv, NEW t \in Tasks, CloseEntry(t)
    PROVE  IndInv' /\ LeaseStep
<1>1. PICK e \in Ids : e = tasks[t].entry
    BY TaskFields DEF IndInv, Shapes, TaskShape, At, CloseEntry
<1>2. /\ e[3] = tasks[t].ns /\ e # None /\ tasks[t].pc = "close" /\ e[3] \in Slot
      /\ Place(tasks[t].ns) \in Nat
      /\ entries[e].phase = "ready" /\ entries[e].refs = 0
    BY <1>1, IdParts, TaskFields, Places
       DEF IndInv, Shapes, TaskShape, At, CloseEntry, InHand
<1>3. /\ entries' = [entries EXCEPT ![e].session = "closed"]
      /\ UNCHANGED <<kind, table, conns>> /\ Become(t, Onward(t))
    BY <1>1 DEF CloseEntry
<1> DEFINE k == Onward(t)
           x == [entries[e] EXCEPT !.session = "closed"]
<1>4. entries[e] \in Entry /\ Holders(e) = {} /\ table[e[3]] # e
    BY <1>2, HolderFacts DEF IndInv, LifeExact
<1>5. x \in Entry /\ x.phase = "ready" /\ x.session = "closed" /\ x.refs = 0
    BY <1>2, <1>4 DEF Entry
<1>6. /\ k \in Task /\ k.run = tasks[t].run /\ tasks[t].run > 0
      /\ k.entry = None /\ k.next = "idle" /\ k.pc \in {"idle", "use", "acquire"}
      /\ k.pc = "idle" => k = Resting(k.run)
      /\ k.pc = "use" => /\ k.conn = tasks[t].conn /\ k.conn # None /\ tasks[t].next = "use"
                         /\ k.using = tasks[t].using /\ k.ns = tasks[t].ns
      /\ k.pc = "acquire" => k.conn = None /\ Place(k.ns) = 1 + Place(tasks[t].ns)
      /\ k.conn = None => k.using = None
    BY <1>2, OnwardTask
<1>7. /\ tasks' = [tasks EXCEPT ![t] = k] /\ entries' = [entries EXCEPT ![e] = x]
      /\ table' = [table EXCEPT ![e[3]] = table[e[3]]]
    BY <1>2, <1>3 DEF Become, IndInv, TypeOK, Held
<1> HIDE DEF k, x
<1>8. tasks'[t] = k /\ \A u \in Tasks : u # t => tasks'[u] = tasks[u]
    BY <1>6, <1>7 DEF IndInv, TypeOK
<1>9. TaskShape(t)'
    BY <1>6, <1>8 DEF TaskShape
<1>10. \A f \in Ids : Holders(f)' = Holders(f)
    BY <1>2, <1>3, <1>6, <1>8 DEF Holders, TaskHolds, ConnHolds, At
<1>11. EntryMoves(t, k, e, x, table[e[3]])
    BY <1>3, <1>7, <1>9 DEF EntryMoves
<1>12. EntryLives(t, k, e, x, table[e[3]])
    BY <1>2, <1>4, <1>5 DEF EntryLives
<1>13. EntryKnown(t, k, e, x)
    <2>1. k.pc = "use" => /\ k.using # None
                          /\ conns[k.conn].closed \/ conns[k.conn].held[k.ns] = k.using
        BY <1>6 DEF IndInv, UsesHeld
    <2> QED BY <1>1, <1>2, <1>5, <1>6, <2>1 DEF EntryKnown
<1>14. EntryCounted(t, k, e, x)
    <2>1. x.refs = Cardinality(Holders(e)')
        BY <1>2, <1>5, <1>10 DEF IndInv, CountsExact
    <2> QED BY <1>5, <1>10, <2>1 DEF EntryCounted
<1>15. IndInv'
    BY <1>5, <1>6, <1>11, <1>12, <1>13, <1>14, EntryStep
<1>16. LeaseStep
    BY <1>2, <1>3, <1>10, ShutLease
<1> QED BY <1>15, <1>16

\* A connection holds an entry in the slot of that entry only.
LEMMA ConnHoldsSlot ==
    ASSUME IndInv, NEW c \in Conns, NEW e \in Ids
    PROVE  /\ conns[c] \in Conn /\ conns[c].held \in Held /\ conns[c].leaving \in Held
           /\ ConnHolds(c, e) <=> conns[c].held[e[3]] = e \/ conns[c].leaving[e[3]] = e
<1>1. conns[c] \in Conn /\ conns[c].held \in Held /\ conns[c].leaving \in Held
    BY DEF IndInv, TypeOK, Conn
<1>2. e[3] \in Slot /\ e # None
    BY IdParts
<1> QED BY <1>1, <1>2 DEF ConnHolds, IndInv, SlotsExact

\* A request hands the reference it acquired to its connection.
LEMMA TransferInd ==
    ASSUME IndInv, NEW t \in Tasks, At(t, "install"),
           ~conns[tasks[t].conn].closed, conns[tasks[t].conn].held[tasks[t].ns] = None,
           Become(t, [tasks[t] EXCEPT !.pc = "use", !.using = tasks[t].entry, !.entry = None]),
           conns' = [conns EXCEPT ![tasks[t].conn].held[tasks[t].ns] = tasks[t].entry],
           UNCHANGED <<kind, table, entries>>
    PROVE  IndInv' /\ LeaseStep
<1>1. PICK e \in Ids : e = tasks[t].entry
    BY TaskFields DEF IndInv, Shapes, TaskShape, At
<1>2. PICK c \in Conns : c = tasks[t].conn
    BY TaskFields DEF IndInv, Shapes, TaskShape, At
<1>3. /\ e[3] = tasks[t].ns /\ e # None /\ tasks[t].pc = "install" /\ tasks[t] \in Task
      /\ TaskShape(t) /\ e[3] \in Slot /\ c # None /\ tasks[t].run > 0 /\ tasks[t].next = "idle"
    BY <1>1, <1>2, IdParts, TaskFields, SharedAssumption DEF IndInv, Shapes, TaskShape, At
<1> DEFINE k == [tasks[t] EXCEPT !.pc = "use", !.using = e, !.entry = None]
           y == [conns[c] EXCEPT !.held[e[3]] = e]
<1>4. /\ k \in Task /\ k.pc = "use" /\ k.using = e /\ k.entry = None /\ k.run = tasks[t].run
      /\ k.ns = e[3] /\ k.next = "idle" /\ k.conn = c
    BY <1>2, <1>3 DEF Task, PC
<1>5. /\ conns[c] \in Conn /\ conns[c].held \in Held /\ conns[c].leaving \in Held
      /\ ~conns[c].closed /\ conns[c].held[e[3]] = None /\ conns[c].last = None
      /\ \A n \in Slot : conns[c].leaving[n] = None
    BY <1>2, <1>3, ConnHoldsSlot DEF IndInv, SlotsExact
<1>6. /\ y \in Conn /\ y.closed = FALSE /\ y.last = None /\ y.leaving = conns[c].leaving
      /\ y.held[e[3]] = e /\ \A n \in Slot : n # e[3] => y.held[n] = conns[c].held[n]
    BY <1>3, <1>5 DEF Conn, Held
<1>7. tasks' = [tasks EXCEPT ![t] = k] /\ conns' = [conns EXCEPT ![c] = y]
    BY <1>1, <1>2, <1>3 DEF Become, IndInv, TypeOK
<1> HIDE DEF k, y
<1>8. /\ tasks'[t] = k /\ (\A u \in Tasks : u # t => tasks'[u] = tasks[u])
      /\ conns'[c] = y /\ (\A d \in Conns : d # c => conns'[d] = conns[d])
      /\ tasks' \in [Tasks -> Task] /\ conns' \in [Conns -> Conn]
    BY <1>4, <1>6, <1>7 DEF IndInv, TypeOK
<1>9. TypeOK'
    BY <1>8 DEF IndInv, TypeOK
<1>10. Shapes'
    <2> SUFFICES ASSUME NEW u \in Tasks PROVE TaskShape(u)'
        BY DEF Shapes
    <2>1. CASE u = t
        BY <1>3, <1>4, <1>8, <2>1 DEF TaskShape
    <2>2. CASE u # t
        BY <1>8, <2>2 DEF IndInv, Shapes, TaskShape, NewId
    <2> QED BY <2>1, <2>2
<1>11. SlotsExact'
    <2> SUFFICES ASSUME NEW d \in Conns, NEW n \in Slot
                 PROVE  /\ conns'[d].held[n] # None => conns'[d].held[n][3] = n
                        /\ conns'[d].leaving[n] # None => conns'[d].leaving[n][3] = n
                        /\ conns'[d].closed => conns'[d].held[n] = None
                        /\ ~conns'[d].closed => conns'[d].leaving[n] = None /\ conns'[d].last = None
        BY DEF IndInv, SlotsExact
    <2>0. /\ conns[d].held[n] # None => conns[d].held[n][3] = n
          /\ conns[d].leaving[n] # None => conns[d].leaving[n][3] = n
          /\ conns[d].closed => conns[d].held[n] = None
          /\ ~conns[d].closed => conns[d].leaving[n] = None /\ conns[d].last = None
        BY DEF IndInv, SlotsExact
    <2>1. CASE d = c
        <3>1. y.held[n] # None => y.held[n][3] = n
            BY <1>6, <2>0, <2>1
        <3>2. y.leaving[n] = None /\ y.last = None /\ y.closed = FALSE
            BY <1>5, <1>6
        <3>3. conns'[d] = y
            BY <1>8, <2>1
        <3> QED BY <3>1, <3>2, <3>3
    <2>2. CASE d # c
        <3>1. conns'[d] = conns[d]
            BY <1>8, <2>2
        <3> QED BY <2>0, <3>1
    <2> QED BY <2>1, <2>2
<1>12. IdsFresh'
    <2>1. \A u \in Tasks : /\ tasks'[u].run = tasks[u].run /\ tasks'[u].ns = tasks[u].ns
                           /\ tasks'[u].pc = "idle" <=> tasks[u].pc = "idle"
                           /\ tasks'[u].pc \in {"acquire", "wait"} => tasks'[u].pc = tasks[u].pc
        BY <1>3, <1>4, <1>8
    <2> QED BY <2>1, IdParts DEF IndInv, IdsFresh
<1>13. LifeExact'
    BY <1>3, <1>8, IdParts DEF IndInv, LifeExact, At
<1>14. InHand'
    BY <1>4, <1>5, <1>6, <1>8 DEF IndInv, InHand, At
<1>15. /\ t \in Holders(e) /\ c \notin Holders(e) /\ Holders(e)' = (Holders(e) \ {t}) \cup {c}
       /\ \A f \in Ids : f # e => Holders(f)' = Holders(f)
    <2>1. t \notin Conns /\ c \notin Tasks
        BY SharedAssumption
    <2>2. \A f \in Ids : ~TaskHolds(t, f)' /\ (TaskHolds(t, f) <=> f = e)
        BY <1>1, <1>3, <1>4, <1>8 DEF TaskHolds, At
    <2>3. \A f \in Ids, u \in Tasks : u # t => (TaskHolds(u, f)' <=> TaskHolds(u, f))
        BY <1>8 DEF TaskHolds, At
    <2>4. \A f \in Ids, d \in Conns : d # c => (ConnHolds(d, f)' <=> ConnHolds(d, f))
        BY <1>8 DEF ConnHolds
    <2>5. \A f \in Ids : f # e => (ConnHolds(c, f)' <=> ConnHolds(c, f))
        <3>1. \A n \in Slot : /\ conns'[c].leaving[n] = conns[c].leaving[n]
                              /\ conns'[c].held[n] = IF n = e[3] THEN e ELSE conns[c].held[n]
            BY <1>6, <1>8
        <3>2. \A f \in Ids : f # None
            BY IdParts
        <3> QED BY <1>5, <3>1, <3>2 DEF ConnHolds
    <2>6. ConnHolds(c, e)' /\ ~ConnHolds(c, e)
        BY <1>3, <1>5, <1>6, <1>8, ConnHoldsSlot DEF ConnHolds
    <2> QED BY <2>1, <2>2, <2>3, <2>4, <2>5, <2>6 DEF Holders
<1>16. Cardinality(Holders(e)') = Cardinality(Holders(e))
    <2>1. Holders(e) \in SUBSET (Tasks \cup Conns) /\ c \notin Holders(e) \ {t}
        BY <1>15, HolderFacts
    <2>2. Cardinality(Holders(e) \ {t}) = Cardinality(Holders(e)) - 1
        BY <1>15, <2>1, HoldersFinite
    <2>3. Cardinality((Holders(e) \ {t}) \cup {c}) = Cardinality(Holders(e) \ {t}) + 1
        BY <2>1, HoldersFinite
    <2>4. Cardinality(Holders(e)) \in Nat
        BY <2>1, HoldersFinite
    <2> QED BY <1>15, <2>2, <2>3, <2>4
<1>17. CountsExact'
    <2> SUFFICES ASSUME NEW f \in Ids
                 PROVE  /\ entries[f].refs = Cardinality(Holders(f)')
                        /\ entries[f].session = "open" /\ entries[f].refs = 0 =>
                              \/ \E u \in Tasks : At(u, "close")' /\ tasks'[u].entry = f
                              \/ \E d \in Conns : conns'[d].last = f
        BY DEF CountsExact
    <2>1. entries[f].refs = Cardinality(Holders(f)')
        <3>1. CASE f = e
            BY <1>16, <3>1 DEF IndInv, CountsExact
        <3>2. CASE f # e
            BY <1>15, <3>2 DEF IndInv, CountsExact
        <3> QED BY <3>1, <3>2
    <2>2. \A u \in Tasks : At(u, "close") => At(u, "close")' /\ tasks'[u].entry = tasks[u].entry
        BY <1>3, <1>8 DEF At
    <2>3. \A d \in Conns : conns'[d].last = conns[d].last
        BY <1>5, <1>6, <1>8
    <2> QED BY <2>1, <2>2, <2>3 DEF IndInv, CountsExact
<1>18. UsesHeld'
    <2> SUFFICES ASSUME NEW u \in Tasks, tasks'[u].conn # None,
                        tasks'[u].pc = "use" \/ tasks'[u].next = "use"
                 PROVE  /\ tasks'[u].using # None
                        /\ \/ conns'[tasks'[u].conn].closed
                           \/ conns'[tasks'[u].conn].held[tasks'[u].ns] = tasks'[u].using
        BY DEF UsesHeld
    <2>1. CASE u = t
        BY <1>3, <1>4, <1>6, <1>8, <2>1
    <2>2. CASE u # t
        <3>1. tasks'[u] = tasks[u] /\ tasks[u].conn \in Conns /\ tasks[u].ns \in Slot
            BY <1>8, <2>2, TaskFields DEF IndInv
        <3>2. /\ tasks[u].using # None
              /\ \/ conns[tasks[u].conn].closed
                 \/ conns[tasks[u].conn].held[tasks[u].ns] = tasks[u].using
            BY <3>1 DEF IndInv, UsesHeld
        <3> QED BY <1>5, <1>6, <1>8, <3>1, <3>2
    <2> QED BY <2>1, <2>2
<1>19. LeaseStep
    <2> DEFINE current == [m \in Slot |-> Handed(m)]
               life == [f \in Ids |-> entries[f].session]
               holders == [f \in Ids |-> Holders(f)]
    <2>1. current' = current /\ life' = life
        BY DEF Handed
    <2>2. holders' = [holders EXCEPT ![e] = (@ \ {t}) \cup {c}]
        BY <1>15
    <2>3. t \in holders[e] /\ c \notin holders[e]
        BY <1>15
    <2>4. Lease!Transfer(e, t, c)
        BY <2>1, <2>2, <2>3 DEF Lease!Transfer, Handed
    <2> QED BY <2>4 DEF LeaseStep, Lease!LeaseNext
<1> QED BY <1>9, <1>10, <1>11, <1>12, <1>13, <1>14, <1>17, <1>18, <1>19 DEF IndInv

\* Close takes what the connection holds.
LEMMA TakeHeldInd ==
    ASSUME IndInv, NEW c \in Conns, TakeHeld(c)
    PROVE  IndInv' /\ LeaseStep
<1> DEFINE y == [conns[c] EXCEPT !.closed = TRUE, !.held = Nothing, !.leaving = conns[c].held]
<1>1. /\ conns[c] \in Conn /\ conns[c].held \in Held /\ conns[c].leaving \in Held
      /\ ~conns[c].closed /\ \A n \in Slot : conns[c].leaving[n] = None
    BY DEF IndInv, TypeOK, Conn, SlotsExact, TakeHeld
<1>2. Nothing \in Held /\ \A n \in Slot : Nothing[n] = None
    BY DEF Nothing, Held
<1>3. /\ y \in Conn /\ y.closed = TRUE /\ y.held = Nothing /\ y.leaving = conns[c].held
      /\ y.last = conns[c].last
    BY <1>1, <1>2 DEF Conn
<1>4. conns' = [conns EXCEPT ![c] = y] /\ UNCHANGED <<kind, table, entries, tasks>>
    BY DEF TakeHeld, IndInv, TypeOK
<1> HIDE DEF y
<1>5. /\ conns' \in [Conns -> Conn] /\ conns'[c] = y
      /\ \A d \in Conns : d # c => conns'[d] = conns[d]
    BY <1>3, <1>4 DEF IndInv, TypeOK
<1>6. TypeOK' /\ Shapes' /\ IdsFresh' /\ LifeExact'
    BY <1>4, <1>5 DEF IndInv, TypeOK, Shapes, TaskShape, IdsFresh, LifeExact, At, NewId
<1>7. SlotsExact'
    <2> SUFFICES ASSUME NEW d \in Conns, NEW n \in Slot
                 PROVE  /\ conns'[d].held[n] # None => conns'[d].held[n][3] = n
                        /\ conns'[d].leaving[n] # None => conns'[d].leaving[n][3] = n
                        /\ conns'[d].closed => conns'[d].held[n] = None
                        /\ ~conns'[d].closed => conns'[d].leaving[n] = None /\ conns'[d].last = None
        BY <1>4 DEF IndInv, SlotsExact
    <2>0. /\ conns[d].held[n] # None => conns[d].held[n][3] = n
          /\ conns[d].leaving[n] # None => conns[d].leaving[n][3] = n
          /\ conns[d].closed => conns[d].held[n] = None
          /\ ~conns[d].closed => conns[d].leaving[n] = None /\ conns[d].last = None
        BY DEF IndInv, SlotsExact
    <2>1. CASE d = c
        BY <1>2, <1>3, <1>5, <2>0, <2>1
    <2>2. CASE d # c
        <3>1. conns'[d] = conns[d]
            BY <1>5, <2>2
        <3> QED BY <2>0, <3>1
    <2> QED BY <2>1, <2>2
<1>8. \A d \in Conns : conns'[d].last = conns[d].last
    BY <1>3, <1>5
<1>9. InHand'
    BY <1>4, <1>8 DEF IndInv, InHand, At
<1>10. \A f \in Ids : Holders(f)' = Holders(f)
    <2> SUFFICES ASSUME NEW f \in Ids PROVE Holders(f)' = Holders(f)
        OBVIOUS
    <2>1. \A u \in Tasks : TaskHolds(u, f)' <=> TaskHolds(u, f)
        BY <1>4 DEF TaskHolds, At
    <2>2. \A d \in Conns : d # c => (ConnHolds(d, f)' <=> ConnHolds(d, f))
        BY <1>5 DEF ConnHolds
    <2>3. ConnHolds(c, f)' <=> ConnHolds(c, f)
        <3>1. f # None
            BY IdParts
        <3> QED BY <1>1, <1>2, <1>3, <1>5, <3>1 DEF ConnHolds
    <2> QED BY <2>1, <2>2, <2>3 DEF Holders
<1>11. CountsExact'
    BY <1>4, <1>8, <1>10 DEF IndInv, CountsExact, At
<1>12. UsesHeld'
    <2> SUFFICES ASSUME NEW u \in Tasks, tasks[u].conn # None,
                        tasks[u].pc = "use" \/ tasks[u].next = "use"
                 PROVE  /\ tasks[u].using # None
                        /\ \/ conns'[tasks[u].conn].closed
                           \/ conns'[tasks[u].conn].held[tasks[u].ns] = tasks[u].using
        BY <1>4 DEF UsesHeld
    <2>1. tasks[u].conn \in Conns
        BY TaskFields DEF IndInv
    <2> QED BY <1>3, <1>5, <2>1 DEF IndInv, UsesHeld
<1>13. LeaseStep
    BY <1>4, <1>10, LeaseStutter DEF Handed
<1> QED BY <1>6, <1>7, <1>9, <1>11, <1>12, <1>13 DEF IndInv

\* Only a closed connection c and one entry e, which was ready, move.
ConnMoves(c, y, e, x, v) ==
    /\ conns' = [conns EXCEPT ![c] = y] /\ entries' = [entries EXCEPT ![e] = x]
    /\ table' = [table EXCEPT ![e[3]] = v] /\ UNCHANGED <<kind, tasks>>
    /\ v = table[e[3]] \/ (v = None /\ table[e[3]] = e)
    /\ conns[c].closed /\ y.closed /\ y.held = conns[c].held
    /\ \A n \in Slot : y.leaving[n] # None => y.leaving[n] = conns[c].leaving[n]

\* The entry lives on, and those that count it agree.
ConnCounts(c, y, e, x, v) ==
    /\ entries[e].phase = "ready" /\ x.phase = "ready" /\ x.session # "unborn"
    /\ v = e <=> x.refs > 0
    /\ x.refs > 0 => x.session = "open"
    /\ entries[e].refs = 0 => x.refs = 0
    /\ conns[c].last \in {e, None} /\ y.last \in {e, None}
    /\ y.last = e => x.refs = 0
    /\ x.session = "open" /\ x.refs = 0 => y.last = e
    /\ x.refs = Cardinality(Holders(e)')
    /\ \A f \in Ids : f # e => Holders(f)' = Holders(f)

\* Such a step keeps the invariant.
LEMMA ConnStep ==
    ASSUME IndInv, NEW c \in Conns, NEW y \in Conn, NEW e \in Ids, NEW x \in Entry, NEW v,
           ConnMoves(c, y, e, x, v), ConnCounts(c, y, e, x, v)
    PROVE  IndInv'
<1> USE DEF ConnMoves, ConnCounts
<1>1. /\ conns' \in [Conns -> Conn] /\ conns'[c] = y
      /\ \A d \in Conns : d # c => conns'[d] = conns[d]
    BY DEF IndInv, TypeOK
<1>2. /\ entries' \in [Ids -> Entry] /\ entries'[e] = x
      /\ \A f \in Ids : f # e => entries'[f] = entries[f]
    BY DEF IndInv, TypeOK
<1>3. e[1] \in Tasks /\ e[3] \in Slot /\ e # None
    BY IdParts
<1>4. /\ v \in Ids \cup {None} /\ table' \in Held /\ table'[e[3]] = v
      /\ \A m \in Slot : m # e[3] => table'[m] = table[m]
    BY <1>3 DEF IndInv, TypeOK, Held
<1>5. TypeOK' /\ Shapes'
    BY <1>1, <1>2, <1>4 DEF IndInv, TypeOK, Shapes, TaskShape, NewId
<1>6. SlotsExact'
    <2>1. \A n \in Slot : table'[n] # None => table'[n][3] = n
        BY <1>3, <1>4 DEF IndInv, SlotsExact
    <2> SUFFICES ASSUME NEW d \in Conns, NEW n \in Slot
                 PROVE  /\ conns'[d].held[n] # None => conns'[d].held[n][3] = n
                        /\ conns'[d].leaving[n] # None => conns'[d].leaving[n][3] = n
                        /\ conns'[d].closed => conns'[d].held[n] = None
                        /\ ~conns'[d].closed => conns'[d].leaving[n] = None /\ conns'[d].last = None
        BY <2>1 DEF SlotsExact
    <2>2. /\ conns[d].held[n] # None => conns[d].held[n][3] = n
          /\ conns[d].leaving[n] # None => conns[d].leaving[n][3] = n
          /\ conns[d].closed => conns[d].held[n] = None
          /\ ~conns[d].closed => conns[d].leaving[n] = None /\ conns[d].last = None
        BY DEF IndInv, SlotsExact
    <2>3. CASE d = c
        BY <1>1, <2>2, <2>3
    <2>4. CASE d # c
        <3>1. conns'[d] = conns[d]
            BY <1>1, <2>4
        <3> QED BY <2>2, <3>1
    <2> QED BY <2>3, <2>4
<1>7. IdsFresh'
    BY <1>2 DEF IndInv, IdsFresh
<1>8. LifeExact'
    <2> SUFFICES ASSUME NEW f \in Ids
                 PROVE  LET z == entries'[f]
                        IN /\ z.phase # "ready" => z.refs = 0 /\ z.session = "unborn"
                           /\ z.phase = "ready" => z.session # "unborn"
                           /\ z.refs > 0 => z.session = "open"
                           /\ z.phase \in {"unborn", "failed"} => table'[f[3]] # f
                           /\ z.phase = "opening" =>
                                 table'[f[3]] = f /\ At(f[1], "open")' /\ tasks'[f[1]].entry = f
                           /\ z.phase = "ready" => (table'[f[3]] = f <=> z.refs > 0)
        BY DEF LifeExact
    <2>1. CASE f = e
        BY <1>2, <1>3, <1>4, <2>1
    <2>2. CASE f # e
        <3>1. f[3] \in Slot /\ f[1] \in Tasks /\ f # None
            BY IdParts
        <3>2. table'[f[3]] = f <=> table[f[3]] = f
            BY <1>4, <2>2, <3>1
        <3> QED BY <1>2, <2>2, <3>1, <3>2 DEF IndInv, LifeExact, At
    <2> QED BY <2>1, <2>2
<1>9. InHand'
    <2>1. ASSUME NEW u \in Tasks
          PROVE  /\ At(u, "wait")' => entries'[tasks'[u].entry].phase # "unborn"
                 /\ At(u, "open")' => /\ entries'[tasks'[u].entry].phase = "opening"
                                      /\ kind' # "redis"
                 /\ At(u, "close")' => /\ entries'[tasks'[u].entry].phase = "ready"
                                       /\ entries'[tasks'[u].entry].refs = 0
        <3>1. tasks[u].pc \in {"wait", "open", "close"} => tasks[u].entry \in Ids
            BY TaskFields DEF IndInv, Shapes, TaskShape
        <3> QED BY <1>2, <3>1 DEF IndInv, InHand, At
    <2>2. ASSUME NEW d \in Conns, conns'[d].last # None
          PROVE  entries'[conns'[d].last].phase = "ready" /\ entries'[conns'[d].last].refs = 0
        <3>1. CASE d = c
            BY <1>1, <1>2, <2>2, <3>1
        <3>2. CASE d # c
            <4>1. conns'[d].last = conns[d].last /\ conns[d].last \in Ids
                BY <1>1, <2>2, <3>2 DEF IndInv, TypeOK, Conn
            <4> QED BY <1>2, <2>2, <4>1 DEF IndInv, InHand
        <3> QED BY <3>1, <3>2
    <2> QED BY <2>1, <2>2 DEF InHand
<1>10. CountsExact'
    <2>1. ASSUME NEW f \in Ids, f # e
          PROVE  /\ entries'[f].refs = Cardinality(Holders(f)')
                 /\ entries'[f].session = "open" /\ entries'[f].refs = 0 =>
                       \/ \E u \in Tasks : At(u, "close")' /\ tasks'[u].entry = f
                       \/ \E d \in Conns : conns'[d].last = f
        <3>1. \A d \in Conns : conns[d].last = f => conns'[d].last = f
            BY <1>1, <2>1, IdParts
        <3> QED BY <1>2, <2>1, <3>1 DEF IndInv, CountsExact, At
    <2>2. /\ entries'[e].refs = Cardinality(Holders(e)')
          /\ entries'[e].session = "open" /\ entries'[e].refs = 0 =>
                \/ \E u \in Tasks : At(u, "close")' /\ tasks'[u].entry = e
                \/ \E d \in Conns : conns'[d].last = e
        BY <1>1, <1>2
    <2> QED BY <2>1, <2>2 DEF CountsExact
<1>11. UsesHeld'
    <2> SUFFICES ASSUME NEW u \in Tasks, tasks[u].conn # None,
                        tasks[u].pc = "use" \/ tasks[u].next = "use"
                 PROVE  /\ tasks[u].using # None
                        /\ \/ conns'[tasks[u].conn].closed
                           \/ conns'[tasks[u].conn].held[tasks[u].ns] = tasks[u].using
        BY DEF UsesHeld
    <2>1. tasks[u].conn \in Conns
        BY TaskFields DEF IndInv
    <2> QED BY <1>1, <2>1 DEF IndInv, UsesHeld
<1> QED BY <1>5, <1>6, <1>7, <1>8, <1>9, <1>10, <1>11 DEF IndInv

\* Close releases what it took, slot by slot.
LEMMA DropHeldInd ==
    ASSUME IndInv, NEW c \in Conns, DropHeld(c)
    PROVE  IndInv' /\ LeaseStep
<1>1. PICK n \in Slot : /\ conns[c].leaving[n] # None /\ Drop(n, conns[c].leaving[n])
                        /\ conns' = [conns EXCEPT
                              ![c].leaving[n] = None,
                              ![c].last = IF LastReference(n, conns[c].leaving[n])
                                          THEN conns[c].leaving[n] ELSE None]
    BY DEF DropHeld
<1>2. PICK e \in Ids : e = conns[c].leaving[n]
    BY <1>1 DEF IndInv, TypeOK, Conn, Held
<1>3. /\ n = e[3] /\ e # None /\ conns[c] \in Conn /\ conns[c].leaving \in Held
      /\ conns[c].closed /\ conns[c].last = None /\ UNCHANGED <<kind, tasks>>
      /\ \A m \in Slot : conns[c].held[m] = None
    BY <1>1, <1>2, IdParts DEF IndInv, SlotsExact, TypeOK, Conn, DropHeld
<1>4. c \in Holders(e) /\ c \notin Tasks /\ Drop(e[3], e)
    BY <1>1, <1>2, <1>3, SharedAssumption DEF Holders, ConnHolds
<1> DEFINE last == Holders(e) = {c}
           y == [conns[c] EXCEPT !.leaving[n] = None, !.last = IF last THEN e ELSE None]
           x == [entries[e] EXCEPT !.refs = entries[e].refs - 1]
           v == IF last THEN None ELSE e
<1>5. /\ entries[e].phase = "ready" /\ entries[e].session = "open" /\ entries[e].refs > 0
      /\ entries[e] \in Entry /\ entries[e].refs \in Nat /\ table[e[3]] = e
      /\ entries' = [entries EXCEPT ![e] = x] /\ table' = [table EXCEPT ![e[3]] = v]
      /\ entries[e].refs - 1 = Cardinality(Holders(e) \ {c})
      /\ entries[e].refs - 1 = 0 <=> last
      /\ LastReference(e[3], e) <=> last
    BY <1>4, DropFacts
<1>6. x \in Entry /\ x.phase = "ready" /\ x.session = "open" /\ x.refs = entries[e].refs - 1
    BY <1>5, HoldersFinite DEF Entry
<1>7. /\ y \in Conn /\ y.closed = conns[c].closed /\ y.held = conns[c].held
      /\ y.leaving[n] = None /\ (\A m \in Slot : m # n => y.leaving[m] = conns[c].leaving[m])
      /\ y.last = IF last THEN e ELSE None
    BY <1>3 DEF Conn, Held
<1>8. conns' = [conns EXCEPT ![c] = y]
    BY <1>1, <1>2, <1>3, <1>5 DEF IndInv, TypeOK
<1> HIDE DEF x, y
<1>9. conns'[c] = y /\ \A d \in Conns : d # c => conns'[d] = conns[d]
    BY <1>7, <1>8 DEF IndInv, TypeOK
<1>10. Holders(e)' = Holders(e) \ {c} /\ \A f \in Ids : f # e => Holders(f)' = Holders(f)
    <2>1. \A f \in Ids, u \in Tasks : TaskHolds(u, f)' <=> TaskHolds(u, f)
        BY <1>3 DEF TaskHolds, At
    <2>2. \A f \in Ids, d \in Conns : d # c => (ConnHolds(d, f)' <=> ConnHolds(d, f))
        BY <1>9 DEF ConnHolds
    <2>3. \A f \in Ids : f # e => (ConnHolds(c, f)' <=> ConnHolds(c, f))
        BY <1>2, <1>7, <1>9, IdParts DEF ConnHolds
    <2>4. ~ConnHolds(c, e)'
        <3>1. \A m \in Slot : m # n => conns[c].leaving[m] # e
            BY <1>3 DEF IndInv, SlotsExact
        <3> QED BY <1>3, <1>7, <1>9, <3>1 DEF ConnHolds
    <2> QED BY <1>4, <2>1, <2>2, <2>3, <2>4 DEF Holders
<1>11. ConnMoves(c, y, e, x, v)
    BY <1>3, <1>5, <1>7, <1>8 DEF ConnMoves
<1>12. ConnCounts(c, y, e, x, v)
    <2>1. x.refs = Cardinality(Holders(e)')
        BY <1>5, <1>6, <1>10
    <2> QED BY <1>3, <1>5, <1>6, <1>7, <1>10, <2>1 DEF ConnCounts
<1>13. IndInv'
    BY <1>6, <1>7, <1>11, <1>12, ConnStep
<1>14. LeaseStep
    BY <1>4, <1>10, LeaveLease
<1> QED BY <1>13, <1>14

\* Close closes the session whose last reference it dropped.
LEMMA CloseHeldInd ==
    ASSUME IndInv, NEW c \in Conns, CloseHeld(c)
    PROVE  IndInv' /\ LeaseStep
<1>1. PICK e \in Ids : e = conns[c].last
    BY DEF CloseHeld, IndInv, TypeOK, Conn
<1>2. /\ e # None /\ e[3] \in Slot /\ conns[c] \in Conn /\ conns[c].closed
      /\ entries[e].phase = "ready" /\ entries[e].refs = 0
      /\ entries[e] \in Entry /\ Holders(e) = {} /\ table[e[3]] # e
    <2>1. /\ e # None /\ e[3] \in Slot /\ conns[c] \in Conn
          /\ entries[e].phase = "ready" /\ entries[e].refs = 0
        BY <1>1, IdParts DEF IndInv, TypeOK, InHand
    <2>2. conns[c].closed
        BY <1>1, <2>1 DEF IndInv, SlotsExact
    <2> QED BY <2>1, <2>2, HolderFacts DEF IndInv, LifeExact
<1> DEFINE y == [conns[c] EXCEPT !.last = None]
           x == [entries[e] EXCEPT !.session = "closed"]
<1>3. x \in Entry /\ x.phase = "ready" /\ x.session = "closed" /\ x.refs = 0
    BY <1>2 DEF Entry
<1>4. /\ y \in Conn /\ y.closed = conns[c].closed /\ y.held = conns[c].held
      /\ y.leaving = conns[c].leaving /\ y.last = None
    BY <1>2 DEF Conn
<1>5. /\ conns' = [conns EXCEPT ![c] = y] /\ entries' = [entries EXCEPT ![e] = x]
      /\ table' = [table EXCEPT ![e[3]] = table[e[3]]] /\ UNCHANGED <<kind, table, tasks>>
      /\ entries' = [entries EXCEPT ![e].session = "closed"]
    BY <1>1, <1>2 DEF CloseHeld, IndInv, TypeOK, Held
<1> HIDE DEF x, y
<1>6. conns'[c] = y /\ \A d \in Conns : d # c => conns'[d] = conns[d]
    BY <1>4, <1>5 DEF IndInv, TypeOK
<1>7. \A f \in Ids : Holders(f)' = Holders(f)
    BY <1>4, <1>5, <1>6 DEF Holders, TaskHolds, ConnHolds, At
<1>8. ConnMoves(c, y, e, x, table[e[3]])
    BY <1>2, <1>4, <1>5 DEF ConnMoves
<1>9. ConnCounts(c, y, e, x, table[e[3]])
    <2>1. x.refs = Cardinality(Holders(e)')
        BY <1>2, <1>3, <1>7 DEF IndInv, CountsExact
    <2> QED BY <1>1, <1>2, <1>3, <1>4, <1>7, <2>1 DEF ConnCounts
<1>10. IndInv'
    BY <1>3, <1>4, <1>8, <1>9, ConnStep
<1>11. LeaseStep
    BY <1>2, <1>5, <1>7, ShutLease
<1> QED BY <1>10, <1>11

\* A request has acquired its session and looks at its connection again.
LEMMA InstallInd ==
    ASSUME IndInv, NEW t \in Tasks, Install(t)
    PROVE  IndInv' /\ LeaseStep
<1> DEFINE c == tasks[t].conn
           n == tasks[t].ns
           existing == conns[c].held[n]
<1>1. /\ At(t, "install") /\ c \in Conns /\ n \in Slot /\ tasks[t] \in Task
      /\ tasks[t].using \in Ids \cup {None} /\ existing \in Ids \cup {None}
      /\ UNCHANGED <<kind, table, entries>>
    BY TaskFields DEF Install, IndInv, Shapes, TaskShape, At, TypeOK, Conn, Held
<1>2. CASE conns[c].closed
    <2>1. Become(t, [tasks[t] EXCEPT !.pc = "release", !.next = "idle"]) /\ conns' = conns
        BY <1>2 DEF Install
    <2>2. [tasks[t] EXCEPT !.pc = "release", !.next = "idle"]
            = [tasks[t] EXCEPT !.pc = "release", !.next = "idle", !.using = tasks[t].using]
        BY <1>1 DEF Task
    <2> QED BY <1>1, <2>1, <2>2, ToRelease
<1>3. CASE ~conns[c].closed /\ existing # None
    <2>1. /\ Become(t, [tasks[t] EXCEPT !.pc = "release", !.next = "use", !.using = existing])
          /\ conns' = conns
        BY <1>3 DEF Install
    <2> QED BY <1>1, <1>3, <2>1, ToRelease
<1>4. CASE ~conns[c].closed /\ existing = None
    BY <1>1, <1>4, TransferInd DEF Install
<1> QED BY <1>2, <1>3, <1>4

\* acquireSession and acquireClient under the mutex.
LEMMA FindEntryInd ==
    ASSUME IndInv, NEW t \in Tasks, kind # "redis", FindEntry(t)
    PROVE  IndInv' /\ LeaseStep
<1> DEFINE e == table[tasks[t].ns]
<1>1. At(t, "acquire") /\ e \in Ids \cup {None}
    BY TaskFields DEF FindEntry, IndInv, TypeOK, Held
<1>2. CASE e # None /\ entries[e].phase = "ready" /\ JoinEntry(t, e)
    BY <1>1, <1>2, JoinInd DEF At
<1>3. CASE /\ e # None /\ entries[e].phase = "opening"
           /\ Become(t, [tasks[t] EXCEPT !.pc = "wait", !.entry = e])
           /\ UNCHANGED <<kind, table, entries, conns>>
    BY <1>1, <1>3, WaitInd
<1>4. CASE /\ e = None
           /\ table' = [table EXCEPT ![tasks[t].ns] = NewId(t)]
           /\ entries' = [entries EXCEPT ![NewId(t)].phase = "opening"]
           /\ Become(t, [tasks[t] EXCEPT !.pc = "open", !.entry = NewId(t)])
           /\ UNCHANGED <<kind, conns>>
    BY <1>1, <1>4, OpeningInd
<1> QED BY <1>2, <1>3, <1>4 DEF FindEntry

\* acquireSession and acquireClient once the ready channel is closed.
LEMMA AwaitEntryInd ==
    ASSUME IndInv, NEW t \in Tasks, AwaitEntry(t)
    PROVE  IndInv' /\ LeaseStep
<1> DEFINE e == tasks[t].entry
<1>1. At(t, "wait") /\ e \in Ids
    BY TaskFields DEF AwaitEntry, IndInv, Shapes, TaskShape, At
<1>2. CASE /\ entries[e].phase = "failed" /\ Become(t, Resting(tasks[t].run))
           /\ UNCHANGED <<kind, table, entries, conns>>
    BY <1>1, <1>2, Rest
<1>3. CASE /\ entries[e].phase = "ready" /\ table[tasks[t].ns] # e
           /\ Become(t, [tasks[t] EXCEPT !.pc = "acquire", !.entry = None])
           /\ UNCHANGED <<kind, table, entries, conns>>
    BY <1>1, <1>3, WaitInd
<1>4. CASE entries[e].phase = "ready" /\ table[tasks[t].ns] = e /\ JoinEntry(t, e)
    BY <1>1, <1>4, JoinInd DEF At
<1> QED BY <1>2, <1>3, <1>4 DEF AwaitEntry

\* newSession returned.
LEMMA OpenedInd ==
    ASSUME IndInv, NEW t \in Tasks, Opened(t)
    PROVE  IndInv' /\ LeaseStep
<1>1. At(t, "open") /\ UNCHANGED <<kind, conns>>
    BY DEF Opened
<1>2. CASE /\ table' = [table EXCEPT ![tasks[t].ns] = None]
           /\ entries' = [entries EXCEPT ![tasks[t].entry].phase = "failed"]
           /\ Become(t, Resting(tasks[t].run))
    BY <1>1, <1>2, OpenFailedInd
<1>3. CASE /\ entries' = [entries EXCEPT ![tasks[t].entry] =
                    [phase |-> "ready", refs |-> 1, session |-> "open"]]
           /\ Become(t, [tasks[t] EXCEPT
                    !.pc = IF tasks[t].conn = None THEN "use" ELSE "install"])
           /\ UNCHANGED table
    BY <1>1, <1>3, OpenedReadyInd
<1> QED BY <1>2, <1>3 DEF Opened

-----------------------------------------------------------------------------
(* The theorems                                                             *)

\* newProvider and Open: nothing is acquired.
LEMMA InitInd ==
    ASSUME Init
    PROVE  IndInv /\ Lease!LeaseInit
<1>1. Nothing \in Held /\ \A n \in Slot : Nothing[n] = None
    BY DEF Nothing, Held
<1>2. /\ table \in Held /\ \A n \in Slot : table[n] = None
    BY <1>1 DEF Init
<1>3. \A e \in Ids : /\ entries[e].phase = "unborn" /\ entries[e].refs = 0
                     /\ entries[e].session = "unborn"
    BY DEF Init
<1>4. \A c \in Conns : /\ conns[c].closed = FALSE /\ conns[c].last = None
                       /\ \A n \in Slot : conns[c].held[n] = None /\ conns[c].leaving[n] = None
    BY <1>1 DEF Init
<1>5. Resting(0) \in Task /\ Resting(0).pc = "idle" /\ Resting(0).run = 0
    BY RestingTask, SharedAssumption
<1>6. \A t \in Tasks : tasks[t] = Resting(0)
    BY DEF Init
<1>7. TypeOK
    <2>1. tasks \in [Tasks -> Task]
        BY <1>5 DEF Init
    <2>2. entries \in [Ids -> Entry]
        BY HoldersFinite DEF Init, Entry
    <2>3. conns \in [Conns -> Conn]
        BY <1>1 DEF Init, Conn
    <2> QED BY <1>2, <2>1, <2>2, <2>3 DEF Init, TypeOK
<1>8. Shapes
    BY <1>5, <1>6, RestingTask, SharedAssumption DEF Shapes, TaskShape
<1>9. SlotsExact
    BY <1>2, <1>4 DEF SlotsExact
<1>10. IdsFresh /\ LifeExact
    BY <1>2, <1>3, IdParts DEF IdsFresh, LifeExact
<1>11. InHand /\ UsesHeld
    BY <1>4, <1>5, <1>6, RestingTask, SharedAssumption DEF InHand, UsesHeld, At
<1>12. \A e \in Ids : Holders(e) = {}
    BY <1>4, <1>5, <1>6, IdParts DEF Holders, TaskHolds, ConnHolds, At
<1>13. CountsExact
    BY <1>3, <1>12, FS_EmptySet DEF CountsExact
<1>14. Lease!LeaseInit
    <2>1. [n \in Slot |-> Handed(n)] = [n \in Slot |-> None]
        BY <1>2 DEF Handed
    <2>2. [e \in Ids |-> entries[e].session] = [e \in Ids |-> "unborn"]
        BY <1>3
    <2>3. [e \in Ids |-> Holders(e)] = [e \in Ids |-> {}]
        BY <1>12
    <2> QED BY <2>1, <2>2, <2>3 DEF Lease!LeaseInit, Handed
<1> QED BY <1>7, <1>8, <1>9, <1>10, <1>11, <1>13, <1>14 DEF IndInv

\* Every step of a goroutine.
LEMMA TaskNextInd ==
    ASSUME IndInv, NEW t \in Tasks, TaskNext(t) \/ GiveUp(t)
    PROVE  IndInv' /\ LeaseStep
<1>1. CASE session(t) \/ client(t) \/ clientFor(t)
    BY <1>1, LookupInd DEF session, client, clientFor
<1>2. CASE sessionAcquired(t) \/ clientAcquired(t) \/ clientForAcquired(t)
    BY <1>2, InstallInd DEF sessionAcquired, clientAcquired, clientForAcquired
<1>3. CASE acquireSession(t) \/ acquireClusterClient(t)
    BY <1>3, FindEntryInd, AwaitEntryInd DEF acquireSession, acquireClusterClient
<1>4. CASE acquireClient(t)
    BY <1>4, acquireClientInd
<1>5. CASE createSession(t) \/ newClusterClient(t)
    BY <1>5, OpenedInd DEF createSession, newClusterClient
<1>6. CASE releaseSession(t) \/ releaseClient(t) \/ releaseClusterClient(t)
    BY <1>6, ReleaseEntryInd, CloseEntryInd
       DEF releaseSession, releaseClient, releaseClusterClient
<1>7. CASE CassandraMetadata(t) \/ RedisHealth(t)
    BY <1>7, StartSurveyInd, SurveyUsedInd DEF CassandraMetadata, RedisHealth
<1>8. CASE KubernetesHealth(t) \/ KubernetesMetadata(t)
    BY <1>8, StartSurveyInd, SurveyUsedInd DEF KubernetesHealth, KubernetesMetadata
<1>9. CASE Finish(t) \/ GiveUp(t)
    BY <1>9, Rest DEF Finish, GiveUp
<1> QED BY <1>1, <1>2, <1>3, <1>4, <1>5, <1>6, <1>7, <1>8, <1>9 DEF TaskNext

\* Every step keeps the invariant and is a step of the lease, or none.
LEMMA NextInd ==
    ASSUME IndInv, [Next]_vars
    PROVE  IndInv' /\ LeaseStep
<1>1. CASE \E t \in Tasks : TaskNext(t) \/ GiveUp(t)
    BY <1>1, TaskNextInd
<1>2. CASE \E c \in Conns : ConnNext(c)
    BY <1>2, TakeHeldInd, DropHeldInd, CloseHeldInd
       DEF ConnNext, CassandraClose, RedisClose, KubernetesClose
<1>3. CASE UNCHANGED vars
    <2>1. UNCHANGED <<kind, table, entries, conns, tasks>>
        BY <1>3 DEF vars
    <2>2. \A e \in Ids : Holders(e)' = Holders(e)
        BY <2>1 DEF Holders, TaskHolds, ConnHolds, At
    <2>3. LeaseStep
        BY <2>1, <2>2, LeaseStutter DEF Handed
    <2>4. TypeOK' /\ SlotsExact' /\ IdsFresh' /\ LifeExact' /\ InHand' /\ UsesHeld'
        BY <2>1 DEF IndInv, TypeOK, SlotsExact, IdsFresh, LifeExact, InHand, UsesHeld, At
    <2>5. Shapes'
        BY <2>1 DEF IndInv, Shapes, TaskShape, NewId
    <2>6. CountsExact'
        BY <2>1, <2>2 DEF IndInv, CountsExact, At
    <2> QED BY <2>3, <2>4, <2>5, <2>6 DEF IndInv
<1>4. CASE Done
    BY <1>3, <1>4 DEF Done
<1> QED BY <1>1, <1>2, <1>3, <1>4 DEF Next

\* The inductive invariant of the shared sessions.
THEOREM SessionsInductive == Spec => []IndInv
<1>1. Init => IndInv
    BY InitInd
<1>2. IndInv /\ [Next]_vars => IndInv'
    BY NextInd
<1> QED BY <1>1, <1>2, PTL DEF Spec

\* An open connection's sessions are open, a request on it runs with an open
\* session, and an entry's count is the number of its holders.
LEMMA IndInvSound ==
    ASSUME IndInv
    PROVE  SessionsSound
<1>1. TypeOK
    BY DEF IndInv
<1>2. ASSUME NEW c \in Conns, NEW n \in Slot, conns[c].held[n] # None
      PROVE  entries[conns[c].held[n]].session = "open"
    <2>1. PICK e \in Ids : e = conns[c].held[n]
        BY <1>2 DEF IndInv, TypeOK, Conn, Held
    <2>2. c \in Holders(e)
        BY <2>1 DEF Holders, ConnHolds
    <2> QED BY <2>1, <2>2, HolderFacts
<1>3. ASSUME NEW t \in Tasks, At(t, "use"), tasks[t].conn = None
      PROVE  entries[tasks[t].entry].session = "open"
    <2>1. PICK e \in Ids : e = tasks[t].entry
        BY <1>3, TaskFields DEF IndInv, Shapes, TaskShape, At
    <2>2. t \in Holders(e)
        BY <1>3, <2>1 DEF Holders, TaskHolds
    <2> QED BY <2>1, <2>2, HolderFacts
<1>4. ASSUME NEW t \in Tasks, At(t, "use"), tasks[t].conn # None
      PROVE  conns[tasks[t].conn].closed \/ entries[tasks[t].using].session = "open"
    <2>1. tasks[t].conn \in Conns /\ tasks[t].ns \in Slot
        BY <1>4, TaskFields DEF IndInv
    <2>2. /\ tasks[t].using # None
          /\ \/ conns[tasks[t].conn].closed
             \/ conns[tasks[t].conn].held[tasks[t].ns] = tasks[t].using
        BY <1>4 DEF IndInv, UsesHeld, At
    <2> QED BY <1>2, <2>1, <2>2
<1>5. HeldOpen
    BY <1>2, <1>3, <1>4 DEF HeldOpen
<1>6. ASSUME NEW e \in Ids
      PROVE  (\E n \in Slot : table[n] = e) <=> entries[e].phase = "opening" \/ entries[e].refs > 0
    <2>1. e[3] \in Slot /\ e # None
        BY IdParts
    <2>2. (\E n \in Slot : table[n] = e) <=> table[e[3]] = e
        BY <2>1 DEF IndInv, SlotsExact
    <2>3. /\ entries[e].phase \in {"unborn", "opening", "ready", "failed"}
          /\ entries[e].refs \in Nat
        BY HolderFacts DEF Entry
    <2> QED BY <2>2, <2>3 DEF IndInv, LifeExact
<1>7. ReferencesExact
    BY <1>6 DEF ReferencesExact, IndInv, CountsExact
<1> QED BY <1>1, <1>5, <1>7 DEF SessionsSound

\* Sessions are open while they are held and counted exactly, for any
\* connections, goroutines and namespaces.
THEOREM SessionsAreSound == Spec => []SessionsSound
<1>1. IndInv => SessionsSound
    BY IndInvSound
<1> QED BY <1>1, SessionsInductive, PTL

\* Every step of the three providers is a step of the lease they share, or none
\* that it shows.
THEOREM LeaseImplemented == Spec => ImplementsLease
<1>1. Init => Lease!LeaseInit
    BY InitInd
<1>2. IndInv /\ [Next]_vars => [Lease!LeaseNext]_(Lease!leaseVars)
    BY NextInd DEF LeaseStep
<1> QED BY <1>1, <1>2, SessionsInductive, PTL DEF Spec, ImplementsLease, Lease!LeaseSafety

-----------------------------------------------------------------------------
(* The result stream of the Kubernetes provider *)

LEMMA OpenedStream ==
    ASSUME NEW documents, NEW items \in Seq(documents), NEW columns, NEW batch \in Nat,
           NEW limit \in {NoLimit} \cup (Nat \ {0})
    PROVE  LET s == newKubernetesResultStream(items, columns, batch, limit)
           IN IsStream(s) /\ Counted(s) /\ ShownSoFar(s, NothingRead)
<1> DEFINE s == newKubernetesResultStream(items, columns, batch, limit)
<1>1. Len(items) \in Nat /\ queryBatchSize(batch) \in Nat \ {0}
    BY DEF queryBatchSize
<1>2. IsStream(s)
    BY <1>1 DEF newKubernetesResultStream, IsStream, NoLimit
<1>3. Counted(s)
    BY DEF newKubernetesResultStream, Counted, NoLimit
<1>4. Shown(s, s.next - 1) = <<>>
    BY DEF newKubernetesResultStream, Shown
<1>5. ShownSoFar(s, NothingRead)
    BY <1>4 DEF newKubernetesResultStream, ShownSoFar, NothingRead
<1> QED BY <1>2, <1>3, <1>5

LEMMA EmptyStream ==
    LET s == newEmptyKubernetesResultStream
    IN IsStream(s) /\ Counted(s) /\ ShownSoFar(s, NothingRead)
<1> DEFINE s == newEmptyKubernetesResultStream
<1>1. IsStream(s) /\ Counted(s)
    BY DEF newEmptyKubernetesResultStream, IsStream, Counted, NoLimit, queryBatchSize
<1>2. Shown(s, s.next - 1) = <<>>
    BY DEF newEmptyKubernetesResultStream, Shown
<1>3. ShownSoFar(s, NothingRead)
    BY <1>2 DEF newEmptyKubernetesResultStream, ShownSoFar, NothingRead, Limited, NoLimit
<1> QED BY <1>1, <1>3

\* A failure ends the stream where it is.
LEMMA BrokenStream ==
    ASSUME NEW s, NEW r, IsStream(s), Counted(s), ShownSoFar(s, r)
    PROVE  /\ IsStream(Broken(s)) /\ Counted(Broken(s))
           /\ ShownSoFar(Broken(s), [r EXCEPT !.saw = "error"])
<1>1. /\ DOMAIN Broken(s) = DOMAIN s /\ Broken(s).done /\ Broken(s).error
      /\ Broken(s).done \in BOOLEAN /\ Broken(s).error \in BOOLEAN /\ Broken(s).open = s.open
      /\ Broken(s).items = s.items /\ Broken(s).columns = s.columns /\ Broken(s).next = s.next
      /\ Broken(s).batch = s.batch /\ Broken(s).remaining = s.remaining /\ Broken(s).limit = s.limit
    BY DEF IsStream, Broken
<1>2. IsStream(Broken(s)) /\ Counted(Broken(s))
    BY <1>1 DEF IsStream, Counted
<1>3. Shown(Broken(s), Broken(s).next - 1) = Shown(s, s.next - 1)
    BY <1>1 DEF Shown
<1>4. /\ [r EXCEPT !.saw = "error"].rows = Shown(s, s.next - 1)
      /\ [r EXCEPT !.saw = "error"].saw = "error"
      /\ DOMAIN [r EXCEPT !.saw = "error"] = {"rows", "saw"}
    BY DEF ShownSoFar
<1>5. ShownSoFar(Broken(s), [r EXCEPT !.saw = "error"])
    BY <1>1, <1>3, <1>4 DEF ShownSoFar
<1> QED BY <1>2, <1>5

\* What is taken of a page are the next objects, no more than the limit lets
\* through, and a page after which the stream is done was the last one.
LEMMA PageTaken ==
    ASSUME NEW s, IsStream(s), Counted(s), NEW page \in Pages(s)
    PROVE  LET n == Taken(s, page)
               t == PageAfter(s, page)
           IN /\ n \in Nat /\ s.next + n \in 1 .. Len(s.items) + 1
              /\ t.items = s.items /\ t.columns = s.columns /\ t.next = s.next + n
              /\ t.error = s.error /\ t.limit = s.limit /\ t.done \in BOOLEAN
              /\ IsStream(t) /\ Counted(t)
              /\ t.done => s.next + n - 1 = Limited(Len(s.items), s.limit)
<1> DEFINE n == Taken(s, page)
           t == PageAfter(s, page)
           left == IF s.limit = NoLimit THEN NoLimit ELSE s.remaining - n
<1>1. /\ page.size \in 0 .. Len(s.items) - s.next + 1 /\ page.token \in BOOLEAN
      /\ s.next + page.size <= Len(s.items) => page.token
    BY DEF Pages
<1>2. /\ Len(s.items) \in Nat /\ s.next \in 1 .. Len(s.items) + 1
      /\ s.limit \in {NoLimit} \cup Nat
    BY DEF IsStream
<1>3. /\ n \in Nat /\ n <= page.size
      /\ s.limit # NoLimit => n <= s.remaining /\ (n < page.size => n = s.remaining)
      /\ s.limit = NoLimit => n = page.size
    BY <1>1, <1>2 DEF Taken, Counted
<1>4. s.next + n \in 1 .. Len(s.items) + 1
    BY <1>1, <1>2, <1>3
<1>5. /\ DOMAIN t = DOMAIN s /\ t.done = (left = 0 \/ ~page.token) /\ t.next = s.next + n
      /\ t.remaining = left /\ t.open = s.open /\ t.error = s.error /\ t.items = s.items
      /\ t.columns = s.columns /\ t.batch = s.batch /\ t.limit = s.limit
    BY DEF PageAfter, IsStream
<1>6. IsStream(t) /\ Counted(t)
    <2> HIDE DEF t, n
    <2>1. IsStream(t)
        BY <1>2, <1>4, <1>5 DEF IsStream
    <2>2. Counted(t)
        BY <1>2, <1>3, <1>5 DEF Counted, NoLimit
    <2> QED BY <2>1, <2>2
<1>7. ASSUME t.done PROVE s.next + n - 1 = Limited(Len(s.items), s.limit)
    <2> HIDE DEF t, n
    <2>1. left = 0 \/ ~page.token
        BY <1>5, <1>7
    <2>2. CASE s.limit = NoLimit
        BY <2>1, <2>2, <1>1, <1>2, <1>3 DEF Limited, NoLimit
    <2>3. CASE s.limit # NoLimit
        <3>1. s.remaining \in Nat /\ s.remaining = s.limit - (s.next - 1) /\ s.limit \in Nat
            BY <2>3, <1>2 DEF Counted
        <3>2. n <= s.remaining /\ n <= page.size /\ (n < page.size => n = s.remaining) /\ n \in Nat
            BY <2>3, <1>3
        <3>3. CASE n = s.remaining
            <4>1. s.next + n - 1 = s.limit /\ s.limit <= Len(s.items)
                BY <3>1, <3>2, <3>3, <1>2, <1>4
            <4> QED BY <4>1, <3>1, <2>3, <1>2 DEF Limited
        <3>4. CASE n # s.remaining
            <4>1. n = page.size /\ page.size \in Nat
                BY <3>2, <3>4, <1>1
            <4>2. left = s.remaining - n
                BY <2>3
            <4>3. ~page.token
                BY <2>1, <4>2, <3>1, <3>2, <3>4
            <4>4. s.next + n - 1 = Len(s.items)
                BY <4>1, <4>3, <1>1, <1>2
            <4>5. ~(s.limit < Len(s.items))
                BY <4>4, <3>1, <3>2, <1>2
            <4> QED BY <4>4, <4>5 DEF Limited
        <3> QED BY <3>3, <3>4
    <2> QED BY <2>2, <2>3
<1> QED BY <1>3, <1>4, <1>5, <1>6, <1>7

\* A page whose objects are converted extends what the reader has.
LEMMA PageShown ==
    ASSUME NEW s, NEW r, IsStream(s), Counted(s), ShownSoFar(s, r), ~s.done, r.saw = "nothing",
           NEW page \in Pages(s)
    PROVE  LET t == PageAfter(s, page)
               tuples == PageTuples(s, page)
           IN /\ ShownSoFar(t, [r EXCEPT !.rows = @ \o tuples])
              /\ tuples = <<>> /\ t.done => ShownSoFar(t, [r EXCEPT !.saw = "eof"])
<1> DEFINE t == PageAfter(s, page)
           tuples == PageTuples(s, page)
           n == Taken(s, page)
           k == s.next - 1
<1>1. /\ n \in Nat /\ s.next \in Nat \ {0}
      /\ t.items = s.items /\ t.columns = s.columns /\ t.next = s.next + n
      /\ t.error = s.error /\ t.limit = s.limit /\ t.done \in BOOLEAN
      /\ t.done => s.next + n - 1 = Limited(Len(s.items), s.limit)
    BY PageTaken DEF IsStream
<1>2. ~s.error /\ s.error \in BOOLEAN
    BY DEF ShownSoFar, IsStream
<1>3. Shown(s, k) \o tuples = Shown(t, k + n)
    <2>1. Shown(t, k + n) = [i \in 1 .. k + n |-> resourceTuple(s.items[i], s.columns)]
        BY <1>1 DEF Shown
    <2> DEFINE tup(i) == resourceTuple(s.items[i], s.columns)
    <2>2. Shown(s, k) = [i \in 1 .. k |-> tup(i)]
        BY DEF Shown
    <2>3. tuples = [i \in 1 .. n |-> tup(s.next + i - 1)]
        BY DEF PageTuples
    <2>4. k \in Nat /\ s.next = k + 1
        BY <1>1
    <2> HIDE DEF tup, tuples, n, k
    <2>5. [i \in 1 .. k |-> tup(i)] \o [i \in 1 .. n |-> tup(s.next + i - 1)]
            = [i \in 1 .. k + n |-> tup(i)]
        BY <1>1, <2>4
    <2> QED BY <2>1, <2>2, <2>3, <2>5 DEF tup
<1>4. DOMAIN r = {"rows", "saw"} /\ r.rows = Shown(s, k)
    BY DEF ShownSoFar
<1>5. ShownSoFar(t, [r EXCEPT !.rows = @ \o tuples])
    <2> HIDE DEF t, tuples
    <2> DEFINE q == [r EXCEPT !.rows = @ \o tuples]
    <2>1. t.next - 1 = k + n
        BY <1>1
    <2>2. r.rows \o tuples = Shown(t, t.next - 1)
        BY <1>3, <1>4, <2>1
    <2>3. DOMAIN q = {"rows", "saw"} /\ q.rows = r.rows \o tuples /\ q.saw = r.saw
        BY <1>4
    <2> HIDE DEF n, q
    <2>4. ShownSoFar(t, q)
        BY <2>2, <2>3, <1>1, <1>2 DEF ShownSoFar
    <2> QED BY <2>4 DEF q
<1>6. ASSUME tuples = <<>>, t.done PROVE ShownSoFar(t, [r EXCEPT !.saw = "eof"])
    <2>1. n = 0
        BY <1>1, <1>6 DEF PageTuples
    <2> HIDE DEF t, tuples, n
    <2>2. Shown(t, t.next - 1) = Shown(s, k)
        BY <1>1, <2>1 DEF Shown
    <2>3. /\ [r EXCEPT !.saw = "eof"].rows = Shown(t, t.next - 1)
          /\ [r EXCEPT !.saw = "eof"].saw = "eof"
          /\ DOMAIN [r EXCEPT !.saw = "eof"] = {"rows", "saw"}
        BY <2>2, <1>4
    <2> QED BY <2>3, <1>1, <1>2, <1>6 DEF ShownSoFar
<1> QED BY <1>5, <1>6

\* A stream that has ended keeps what it showed.
LEMMA StreamTold ==
    ASSUME NEW s, NEW r, IsStream(s), Counted(s), ShownSoFar(s, r), r.saw = "nothing",
           s.done \/ Asked(s) = 0
    PROVE  LET t == [s EXCEPT !.done = TRUE]
           IN /\ IsStream(t) /\ Counted(t)
              /\ ShownSoFar(t, [r EXCEPT !.saw = IF s.error THEN "error" ELSE "eof"])
<1> DEFINE t == [s EXCEPT !.done = TRUE]
           told == IF s.error THEN "error" ELSE "eof"
<1>1. /\ DOMAIN t = DOMAIN s /\ t.done /\ t.done \in BOOLEAN /\ t.open = s.open
      /\ t.error = s.error /\ t.items = s.items /\ t.columns = s.columns /\ t.next = s.next
      /\ t.batch = s.batch /\ t.remaining = s.remaining /\ t.limit = s.limit
    BY DEF IsStream
<1>2. IsStream(t) /\ Counted(t)
    BY <1>1 DEF IsStream, Counted
<1>3. ~s.error => s.next - 1 = Limited(Len(s.items), s.limit)
    <2>1. CASE s.done
        BY <2>1 DEF ShownSoFar, IsStream
    <2>2. CASE Asked(s) = 0
        <3>1. s.limit # NoLimit /\ s.remaining = 0
            BY <2>2 DEF Asked, IsStream
        <3>2. s.next - 1 = s.limit /\ s.next - 1 <= Len(s.items)
            BY <3>1 DEF Counted, IsStream
        <3> QED BY <3>1, <3>2 DEF Limited, IsStream
    <2> QED BY <2>1, <2>2
<1>4. Shown(t, t.next - 1) = Shown(s, s.next - 1)
    BY <1>1 DEF Shown
<1>5. /\ [r EXCEPT !.saw = told].rows = Shown(s, s.next - 1)
      /\ [r EXCEPT !.saw = told].saw = told
      /\ DOMAIN [r EXCEPT !.saw = told] = {"rows", "saw"}
    BY DEF ShownSoFar
<1>6. ShownSoFar(t, [r EXCEPT !.saw = told])
    BY <1>1, <1>3, <1>4, <1>5 DEF ShownSoFar, IsStream
<1> QED BY <1>2, <1>6

LEMMA StreamStepInv == StreamInv /\ [StreamStep]_streamVars => StreamInv'
<1> SUFFICES ASSUME StreamInv, [StreamStep]_streamVars PROVE StreamInv'
    OBVIOUS
<1>1. kstream.open => IsStream(kstream) /\ Counted(kstream) /\ ShownSoFar(kstream, kreader)
    BY DEF StreamInv, NoStream
<1>2. CASE StreamOpens
    <2>1. CASE OpenStream(NoStream)
        BY <2>1 DEF OpenStream, StreamInv
    <2>2. CASE OpenStream(newEmptyKubernetesResultStream)
        BY <2>2, EmptyStream DEF OpenStream, StreamInv
    <2>3. ASSUME NEW documents, NEW columns, NEW items \in Seq(documents), NEW batch \in Nat,
                 NEW limit \in {NoLimit} \cup (Nat \ {0}),
                 OpenStream(newKubernetesResultStream(items, columns, batch, limit))
          PROVE  StreamInv'
        BY <2>3, OpenedStream DEF OpenStream, StreamInv
    <2> QED BY <1>2, <2>1, <2>2, <2>3 DEF StreamOpens
<1>3. CASE StreamEnds
    BY <1>1, <1>3, StreamTold DEF StreamEnds, StreamInv
<1>4. CASE StreamNext
    <2>1. /\ kstream.open /\ kreader.saw = "nothing" /\ ~kstream.done
          /\ IsStream(kstream) /\ Counted(kstream) /\ ShownSoFar(kstream, kreader)
        BY <1>1, <1>4 DEF StreamNext
    <2> DEFINE tuples(page) == PageTuples(kstream, page)
               after(page) == PageAfter(kstream, page)
    <2>2. PICK page \in Pages(kstream) :
              \/ kstream' = Broken(kstream) /\ kreader' = [kreader EXCEPT !.saw = "error"]
              \/ /\ kstream' = after(page)
                 /\ \/ tuples(page) = <<>> /\ after(page).done /\ kreader' = [kreader EXCEPT !.saw = "eof"]
                    \/ kreader' = [kreader EXCEPT !.rows = @ \o tuples(page)]
        BY <1>4 DEF StreamNext
    <2>3. IsStream(after(page)) /\ Counted(after(page))
        BY <2>1, PageTaken
    <2>4. /\ ShownSoFar(after(page), [kreader EXCEPT !.rows = @ \o tuples(page)])
          /\ tuples(page) = <<>> /\ after(page).done =>
                ShownSoFar(after(page), [kreader EXCEPT !.saw = "eof"])
        BY <2>1, PageShown
    <2>5. /\ IsStream(Broken(kstream)) /\ Counted(Broken(kstream))
          /\ ShownSoFar(Broken(kstream), [kreader EXCEPT !.saw = "error"])
        BY <2>1, BrokenStream
    <2> HIDE DEF tuples, after
    <2> QED BY <2>2, <2>3, <2>4, <2>5 DEF StreamInv
<1>5. CASE StreamBreaks
    BY <1>1, <1>5, BrokenStream DEF StreamBreaks, StreamInv
<1>6. CASE StreamClose
    BY <1>6 DEF StreamClose, StreamInv
<1>7. CASE UNCHANGED streamVars
    BY <1>7 DEF streamVars, StreamInv
<1> QED BY <1>2, <1>3, <1>4, <1>5, <1>6, <1>7 DEF StreamStep

\* A reader of the Kubernetes result stream that is told the end has the tuples
\* of all the objects of the list, in order, or of as many as the limit asked
\* for: for any list, columns, batch size and limit, and however the server cuts
\* the list into pages (kubernetesResultStream.Next).
THEOREM EofAlwaysComplete == StreamSpec => []EofComplete
<1>1. StreamInit => StreamInv
    BY DEF StreamInit, StreamInv
<1>2. StreamInv => EofComplete
    <2> SUFFICES ASSUME StreamInv, kreader.saw = "eof"
                 PROVE  kreader.rows = Shown(kstream, Limited(Len(kstream.items), kstream.limit))
        BY DEF EofComplete, Shown
    <2>1. ShownSoFar(kstream, kreader)
        BY DEF StreamInv, NothingRead
    <2> QED BY <2>1 DEF ShownSoFar
<1> QED BY <1>1, <1>2, StreamStepInv, PTL DEF StreamSpec
=============================================================================
