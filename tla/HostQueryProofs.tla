-------------------------- MODULE HostQueryProofs --------------------------
(***************************************************************************)
(* Proofs about the fan-out of a host query, for any targets, workers,     *)
(* rows and batch size: a query that ends and was not cancelled accounts   *)
(* for every target exactly once, and a closed query has no worker left.   *)
(*                                                                         *)
(* The argument counts.  A target is outstanding while it waits to be fed  *)
(* or is held by a worker; as long as the stream is not cancelled,         *)
(* remaining is the number of outstanding targets, and the rows received,  *)
(* returned or pending, are all rows of the targets that are neither       *)
(* outstanding nor failed, and of no other.                                *)
(***************************************************************************)
EXTENDS HostQuery, FiniteSetTheorems, SequenceTheorems, TLAPS

Busy(w) == worker[w].pc \in {"scanning", "offering"}

Held(t) == \E w \in Worker : Busy(w) /\ worker[w].target = t

\* Targets whose event has still to be received.
Outstanding == {t \in Target : t \in todo \/ Held(t)}

IndexesOf(s, t) == {i \in DOMAIN s : s[i] = t}

Count(s, t) == Cardinality(IndexesOf(s, t))

Received == returned \o stream.pending

\* Where the caller is when the stream waits, has ended, or was cancelled by its
\* own error; events is closed after the last worker.
Phases ==
    /\ queryCaller = "selecting" => stream.remaining > 0
    /\ stream.outcome # "none" => queryCaller \in {"end", "closing", "closed"}
    /\ streamDone /\ ~requestDone => queryCaller \in {"error", "closing", "closed"}
    /\ eventsClosed => \A w \in Worker : worker[w].pc = "exited"
    /\ queryCaller = "closed" => eventsClosed
    /\ \A w \in Worker : Busy(w) => worker[w].target \in Target

\* Every outstanding target has one owner, and remaining counts them.
Owned ==
    /\ \A w \in Worker : Busy(w) => worker[w].target \in Target \ todo
    /\ \A v, w \in Worker : Busy(v) /\ Busy(w) /\ v # w =>
            worker[v].target # worker[w].target
    /\ stream.remaining = Cardinality(Outstanding)
    /\ stream.failed \cap Outstanding = {}
    /\ jobsClosed => todo = {}
    /\ todo # {} => \E w \in Worker : worker[w].pc # "exited"

Share(t) == IF t \in Outstanding \cup stream.failed THEN 0 ELSE RowsPerTarget

Collected == \A t \in Target : Count(Received, t) = Share(t)

Allowed ==
    /\ request.allowPartial => request.acceptOutcome
    /\ stream.failed \subseteq stream.warned
    /\ stream.failed # {} => request.allowPartial
    /\ stream.warned # {} => request.acceptOutcome

Final ==
    stream.outcome # "none" /\ ~requestDone =>
        /\ Whole(stream.failed)
        /\ stream.outcome = "partial" <=> stream.failed # {}

QueryInv ==
    /\ QueryTypeOK /\ Phases /\ Allowed /\ Final
    /\ ~streamDone => Owned /\ Collected

-----------------------------------------------------------------------------
\* Lemmas about sequences of rows.

LEMMA MinOfTwo ==
    ASSUME NEW a \in Nat, NEW b \in Nat
    PROVE  /\ Min({a, b}) \in Nat /\ Min({a, b}) <= a /\ Min({a, b}) <= b
           /\ Min({a, b}) \in {a, b}
  <1>1. \E x \in {a, b} : \A y \in {a, b} : x =< y
    <2>1. CASE a =< b
      BY <2>1
    <2>2. CASE ~(a =< b)
      BY <2>2
    <2> QED BY <2>1, <2>2
  <1> QED BY <1>1 DEF Min

LEMMA CopiesSeq ==
    ASSUME NEW u \in Target
    PROVE  /\ [i \in 1 .. RowsPerTarget |-> u] \in Seq(Target)
           /\ Len([i \in 1 .. RowsPerTarget |-> u]) = RowsPerTarget
  BY QueryAssumption

LEMMA NoIndex ==
    ASSUME NEW s \in Seq(Target), NEW t
    PROVE  IsFiniteSet(IndexesOf(s, t))
  <1>1. IndexesOf(s, t) \subseteq 1 .. Len(s)
    BY DEF IndexesOf
  <1>2. IsFiniteSet(1 .. Len(s))
    BY FS_Interval
  <1> QED BY <1>1, <1>2, FS_Subset

\* The rows of a target that has none yet are appended.
LEMMA CountCopies ==
    ASSUME NEW s \in Seq(Target), NEW u \in Target, Count(s, u) = 0, NEW t \in Target
    PROVE  Count(s \o [i \in 1 .. RowsPerTarget |-> u], t) =
                IF t = u THEN RowsPerTarget ELSE Count(s, t)
  <1> DEFINE r == [i \in 1 .. RowsPerTarget |-> u]
             c == s \o r
  <1>1. /\ r \in Seq(Target) /\ Len(r) = RowsPerTarget
        /\ \A i \in 1 .. RowsPerTarget : r[i] = u
    BY CopiesSeq
  <1> HIDE DEF r
  <1>2. /\ c \in Seq(Target) /\ Len(c) = Len(s) + RowsPerTarget
        /\ \A i \in 1 .. Len(s) + RowsPerTarget :
              c[i] = IF i <= Len(s) THEN s[i] ELSE r[i - Len(s)]
    BY <1>1, ConcatProperties
  <1>3. /\ DOMAIN s = 1 .. Len(s) /\ DOMAIN c = 1 .. Len(s) + RowsPerTarget
        /\ Len(s) \in Nat /\ RowsPerTarget \in Nat
    BY <1>2, LenProperties, QueryAssumption
  <1>4. \A i \in 1 .. Len(s) + RowsPerTarget : ~(i <= Len(s)) => c[i] = u
    BY <1>1, <1>2, <1>3
  <1> HIDE DEF c
  <1>5. CASE t = u
    <2>1. IndexesOf(s, u) = {}
      BY NoIndex, FS_EmptySet DEF Count
    <2>2. \A i \in 1 .. Len(s) : s[i] # u
      BY <2>1, <1>3 DEF IndexesOf
    <2>3. IndexesOf(c, u) = Len(s) + 1 .. Len(s) + RowsPerTarget
      BY <1>2, <1>3, <1>4, <2>2 DEF IndexesOf
    <2>4. Cardinality(Len(s) + 1 .. Len(s) + RowsPerTarget) = RowsPerTarget
      <3> DEFINE a == Len(s) + 1
                 b == Len(s) + RowsPerTarget
      <3>1. a \in Int /\ b \in Int /\ (IF a > b THEN 0 ELSE b - a + 1) = RowsPerTarget
        BY <1>3
      <3> HIDE DEF a, b
      <3>2. Cardinality(a .. b) = IF a > b THEN 0 ELSE b - a + 1
        BY <3>1, FS_Interval
      <3> QED BY <3>1, <3>2 DEF a, b
    <2> QED BY <1>5, <2>3, <2>4 DEF Count, c, r
  <1>6. CASE t # u
    <2>1. IndexesOf(c, t) = IndexesOf(s, t)
      BY <1>2, <1>3, <1>4, <1>6 DEF IndexesOf
    <2> QED BY <1>6, <2>1 DEF Count, c, r
  <1> QED BY <1>5, <1>6

\* A batch moves the head of what is pending to what is returned.
LEMMA BatchKeeps ==
    ASSUME NEW s \in Seq(Target), NEW p \in Seq(Target),
           NEW n \in Nat, n <= Len(p)
    PROVE  /\ s \o SubSeq(p, 1, n) \in Seq(Target)
           /\ SubSeq(p, n + 1, Len(p)) \in Seq(Target)
           /\ (s \o SubSeq(p, 1, n)) \o SubSeq(p, n + 1, Len(p)) = s \o p
  <1>1. Len(p) \in Nat /\ \A i \in 1 .. Len(p) : p[i] \in Target
    BY LenProperties, ElementOfSeq
  <1>2. SubSeq(p, 1, n) \in Seq(Target)
    BY <1>1, SubSeqProperties
  <1>3. SubSeq(p, n + 1, Len(p)) \in Seq(Target)
    BY <1>1, SubSeqProperties
  <1>4. SubSeq(p, 1, n) \o SubSeq(p, n + 1, Len(p)) = SubSeq(p, 1, Len(p))
    <2>1. /\ 1 \in 1 .. Len(p) + 1 /\ n \in 1 - 1 .. Len(p) /\ Len(p) \in n .. Len(p)
      BY <1>1
    <2> QED BY <2>1, ConcatAdjacentSubSeq
  <1>5. SubSeq(p, 1, Len(p)) = p
    BY SubSeqFull
  <1>6. (s \o SubSeq(p, 1, n)) \o SubSeq(p, n + 1, Len(p)) =
            s \o (SubSeq(p, 1, n) \o SubSeq(p, n + 1, Len(p)))
    <2> DEFINE x == SubSeq(p, 1, n)
               y == SubSeq(p, n + 1, Len(p))
    <2>1. x \in Seq(Target) /\ y \in Seq(Target)
      BY <1>2, <1>3
    <2> HIDE DEF x, y
    <2>2. (s \o x) \o y = s \o (x \o y)
      BY <2>1, ConcatAssociative
    <2> QED BY <2>2 DEF x, y
  <1>7. s \o SubSeq(p, 1, n) \in Seq(Target)
    BY <1>2, ConcatProperties
  <1> QED BY <1>3, <1>4, <1>5, <1>6, <1>7

LEMMA OutstandingFinite ==
    /\ IsFiniteSet(Outstanding)
    /\ Cardinality(Outstanding) \in Nat /\ Cardinality(Target) \in Nat
    /\ Cardinality(Outstanding) <= Cardinality(Target)
  <1>1. Outstanding \in SUBSET Target
    BY DEF Outstanding
  <1>2. IsFiniteSet(Target)
    BY QueryAssumption
  <1>3. IsFiniteSet(Outstanding) /\ Cardinality(Outstanding) <= Cardinality(Target)
    BY <1>1, <1>2, FS_Subset
  <1> QED BY <1>2, <1>3, FS_CardinalityType

LEMMA QueryInitial == QueryInit => QueryInv
  <1> SUFFICES ASSUME QueryInit PROVE QueryInv
    OBVIOUS
  <1> USE DEF QueryInit
  <1>1. PICK W \in SUBSET Worker :
           /\ Cardinality(W) = Min({Cardinality(Worker), Cardinality(Target)})
           /\ worker = [w \in Worker |->
                          IF w \in W THEN NoWork ELSE [NoWork EXCEPT !.pc = "exited"]]
    OBVIOUS
  <1>2. /\ Cardinality(Target) \in Nat /\ Cardinality(Worker) \in Nat
        /\ Cardinality(Worker) # 0 /\ (Target # {} => Cardinality(Target) # 0)
    BY QueryAssumption, FS_CardinalityType, FS_EmptySet
  <1>3. Target # {} => W # {}
    <2>1. Target # {} => Min({Cardinality(Worker), Cardinality(Target)}) # 0
      BY <1>2, MinOfTwo
    <2> QED BY <1>1, <2>1, FS_EmptySet
  <1>4. /\ \A w \in Worker : ~Busy(w)
        /\ \A w \in W : worker[w].pc = "idle"
    BY <1>1 DEF NoWork, Busy
  <1>5. Outstanding = Target
    BY <1>4 DEF Outstanding, Held
  <1>6. QueryTypeOK
    <2>1. worker \in [Worker -> [pc : {"idle", "scanning", "offering", "exited"},
                                 target : Target \cup {NoTarget}, event : Event]]
      BY <1>1 DEF NoWork, Event
    <2>2. stream \in [remaining : 0 .. Cardinality(Target), pending : Seq(Target),
                      failed : SUBSET Target, warned : SUBSET Target,
                      outcome : {"none", "complete", "partial"}]
      BY <1>2, EmptySeq
    <2> QED BY <2>1, <2>2, EmptySeq DEF QueryTypeOK
  <1>7. Phases /\ Allowed /\ Final
    BY <1>4 DEF Phases, Allowed, Final
  <1>8. Owned
    BY <1>3, <1>4, <1>5 DEF Owned
  <1>9. Collected
    <2>1. Received = <<>>
      BY ConcatEmptySeq, EmptySeq DEF Received
    <2>2. \A t : IndexesOf(<<>>, t) = {}
      BY DEF IndexesOf
    <2> QED BY <1>5, <2>1, <2>2, FS_EmptySet DEF Collected, Count, Share
  <1> QED BY <1>6, <1>7, <1>8, <1>9 DEF QueryInv

-----------------------------------------------------------------------------
\* One lemma per action.

\* Steps that leave the stream, its rows and its owners alone.
LEMMA OwnersKept ==
    ASSUME QueryInv, ~streamDone', ~streamDone,
           UNCHANGED <<todo, stream, returned>>,
           jobsClosed' => todo = {},
           worker' \in [Worker -> [pc : {"idle", "scanning", "offering", "exited"},
                                   target : Target \cup {NoTarget}, event : Event]],
           \A w \in Worker : /\ Busy(w)' <=> Busy(w)
                             /\ Busy(w) => worker'[w].target = worker[w].target
                             /\ todo # {} => (worker'[w].pc = "exited" <=> worker[w].pc = "exited")
    PROVE  Owned' /\ Collected'
  <1> USE DEF QueryInv
  <1>1. Outstanding' = Outstanding
    BY DEF Outstanding, Held
  <1>2. Owned'
    BY <1>1 DEF Owned
  <1>3. Collected'
    BY <1>1 DEF Collected, Share, Received
  <1> QED BY <1>2, <1>3

LEMMA FeedKeeps ==
    ASSUME QueryInv, NEW w \in Worker, Feed(w)
    PROVE  QueryInv'
  <1> USE DEF Feed, contexts
  <1>0. QueryTypeOK
    BY DEF QueryInv
  <1>1. PICK t \in todo :
            /\ todo' = todo \ {t}
            /\ worker' = [worker EXCEPT ![w] = [pc |-> "scanning", target |-> t,
                                                event |-> "rows"]]
    OBVIOUS
  <1>2. /\ t \in Target
        /\ \A v \in Worker : v # w => worker'[v] = worker[v]
        /\ worker'[w] = [pc |-> "scanning", target |-> t, event |-> "rows"]
    BY <1>0, <1>1 DEF QueryTypeOK
  <1>3. QueryTypeOK'
    <2>1. worker' \in [Worker -> [pc : {"idle", "scanning", "offering", "exited"},
                                 target : Target \cup {NoTarget}, event : Event]]
      BY <1>0, <1>1, <1>2 DEF QueryTypeOK, Event
    <2> QED BY <1>0, <1>1, <2>1 DEF QueryTypeOK
  <1>4. Phases'
    BY <1>2 DEF QueryInv, Phases, Busy
  <1>5. Allowed' /\ Final'
    BY DEF QueryInv, Allowed, Final, Whole, RowsOf
  <1>6. ASSUME ~streamDone' PROVE Owned' /\ Collected'
    <2>1. Owned /\ Collected
      BY <1>6 DEF QueryInv
    <2>2. ~Busy(w) /\ Busy(w)' /\ \A v \in Worker : v # w => Busy(v)' = Busy(v)
      BY <1>2 DEF Busy
    <2>3. Outstanding' = Outstanding
      <3>1. ASSUME NEW x \in Target PROVE x \in Outstanding' <=> x \in Outstanding
        <4>1. CASE x = t
          BY <1>1, <1>2, <2>2, <4>1 DEF Outstanding, Held
        <4>2. CASE x # t
          BY <1>1, <1>2, <2>2, <4>2 DEF Outstanding, Held
        <4> QED BY <4>1, <4>2
      <3>2. Outstanding' \subseteq Target /\ Outstanding \subseteq Target
        BY DEF Outstanding
      <3> QED BY <3>1, <3>2
    <2>4. Owned'
      <3>1. \A v \in Worker : Busy(v)' => worker'[v].target \in Target \ todo'
        BY <1>1, <1>2, <2>1, <2>2 DEF Owned
      <3>2. \A v, x \in Worker : Busy(v)' /\ Busy(x)' /\ v # x =>
              worker'[v].target # worker'[x].target
        BY <1>1, <1>2, <2>1, <2>2 DEF Owned
      <3>3. \E v \in Worker : worker'[v].pc # "exited"
        BY <1>2
      <3> QED BY <1>1, <2>1, <2>3, <3>1, <3>2, <3>3 DEF Owned
    <2>5. Collected'
      BY <2>1, <2>3 DEF Collected, Share, Received
    <2> QED BY <2>4, <2>5
  <1> QED BY <1>3, <1>4, <1>5, <1>6 DEF QueryInv

LEMMA ScannedKeeps ==
    ASSUME QueryInv, NEW w \in Worker, Scanned(w)
    PROVE  QueryInv'
  <1> USE DEF Scanned, contexts, feeder
  <1>0. QueryTypeOK
    BY DEF QueryInv
  <1>1. PICK e \in Event : worker' = [worker EXCEPT ![w].pc = "offering", ![w].event = e]
    OBVIOUS
  <1>2. /\ \A v \in Worker : v # w => worker'[v] = worker[v]
        /\ worker'[w].pc = "offering" /\ worker'[w].target = worker[w].target
        /\ worker[w].pc = "scanning"
    BY <1>0, <1>1 DEF QueryTypeOK
  <1>3. worker' \in [Worker -> [pc : {"idle", "scanning", "offering", "exited"},
                               target : Target \cup {NoTarget}, event : Event]]
    <2>1. worker[w] \in [pc : {"idle", "scanning", "offering", "exited"},
                         target : Target \cup {NoTarget}, event : Event]
      BY <1>0 DEF QueryTypeOK
    <2>2. [worker[w] EXCEPT !.pc = "offering", !.event = e] =
             [pc |-> "offering", target |-> worker[w].target, event |-> e]
      <3> DEFINE r == worker[w]
      <3>1. r \in [pc : {"idle", "scanning", "offering", "exited"},
                   target : Target \cup {NoTarget}, event : Event]
        BY <2>1
      <3> HIDE DEF r, Scanned
      <3>2. [r EXCEPT !.pc = "offering", !.event = e] =
              [pc |-> "offering", target |-> r.target, event |-> e]
        <4>1. [r EXCEPT !.pc = "offering"] =
                [pc |-> "offering", target |-> r.target, event |-> r.event]
          BY <3>1
        <4>2. [[pc |-> "offering", target |-> r.target, event |-> r.event] EXCEPT !.event = e]
                = [pc |-> "offering", target |-> r.target, event |-> e]
          OBVIOUS
        <4> QED BY <4>1, <4>2
      <3> QED BY <3>2 DEF r
    <2>3. worker' = [worker EXCEPT
             ![w] = [pc |-> "offering", target |-> worker[w].target, event |-> e]]
      BY <1>1, <2>2
    <2> QED BY <1>0, <2>1, <2>3 DEF QueryTypeOK
  <1>4. QueryTypeOK'
    BY <1>0, <1>3 DEF QueryTypeOK
  <1>5. Phases'
    BY <1>2 DEF QueryInv, Phases, Busy
  <1>6. Allowed' /\ Final'
    BY DEF QueryInv, Allowed, Final, Whole, RowsOf
  <1>7. \A v \in Worker : /\ Busy(v)' <=> Busy(v)
                          /\ worker'[v].target = worker[v].target
                          /\ worker'[v].pc = "exited" <=> worker[v].pc = "exited"
    BY <1>2 DEF Busy
  <1>8. ~streamDone' => Owned' /\ Collected'
    <2>1. ~streamDone' => (jobsClosed' => todo = {})
      BY DEF QueryInv, Owned
    <2> QED BY <1>3, <1>7, <2>1, OwnersKept
  <1> QED BY <1>4, <1>5, <1>6, <1>8 DEF QueryInv

LEMMA ExitKeeps ==
    ASSUME QueryInv, NEW w \in Worker, Exit(w)
    PROVE  QueryInv'
  <1> USE DEF Exit, contexts, feeder
  <1>0. QueryTypeOK
    BY DEF QueryInv
  <1>1. worker' = [worker EXCEPT ![w] = [NoWork EXCEPT !.pc = "exited"]]
    OBVIOUS
  <1>2. /\ \A v \in Worker : v # w => worker'[v] = worker[v]
        /\ worker'[w].pc = "exited" /\ worker[w].pc \in {"idle", "offering"}
    BY <1>0, <1>1 DEF QueryTypeOK, NoWork
  <1>3. worker' \in [Worker -> [pc : {"idle", "scanning", "offering", "exited"},
                               target : Target \cup {NoTarget}, event : Event]]
    BY <1>0, <1>1 DEF QueryTypeOK, Event, NoWork
  <1>4. QueryTypeOK'
    BY <1>0, <1>3 DEF QueryTypeOK
  <1>5. Phases'
    BY <1>2 DEF QueryInv, Phases, Busy
  <1>6. Allowed' /\ Final'
    BY DEF QueryInv, Allowed, Final, Whole, RowsOf
  <1>7. ASSUME ~streamDone' PROVE Owned' /\ Collected'
    <2>1. jobsClosed /\ worker[w].pc = "idle" /\ todo = {}
      BY <1>7 DEF QueryInv, Owned
    <2>2. \A v \in Worker : /\ Busy(v)' <=> Busy(v)
                            /\ Busy(v) => worker'[v].target = worker[v].target
      BY <1>2, <2>1 DEF Busy
    <2> QED BY <1>3, <1>7, <2>1, <2>2, OwnersKept
  <1> QED BY <1>4, <1>5, <1>6, <1>7 DEF QueryInv

LEMMA FeedEndKeeps ==
    ASSUME QueryInv, FeedEnd
    PROVE  QueryInv'
  <1> USE DEF FeedEnd, contexts
  <1>1. QueryTypeOK'
    BY DEF QueryInv, QueryTypeOK
  <1>2. Phases' /\ Allowed' /\ Final'
    BY DEF QueryInv, Phases, Busy, Allowed, Final, Whole, RowsOf
  <1>3. ~streamDone' => Owned' /\ Collected'
    BY OwnersKept DEF QueryInv, QueryTypeOK, Busy
  <1> QED BY <1>1, <1>2, <1>3 DEF QueryInv

LEMMA CloseEventsKeeps ==
    ASSUME QueryInv, CloseEvents
    PROVE  QueryInv'
  <1> USE DEF CloseEvents, contexts, feeder
  <1>1. QueryTypeOK'
    BY DEF QueryInv, QueryTypeOK
  <1>2. Phases' /\ Allowed' /\ Final'
    BY DEF QueryInv, Phases, Busy, Allowed, Final, Whole, RowsOf
  <1>3. ~streamDone' => Owned' /\ Collected'
    BY OwnersKept DEF QueryInv, QueryTypeOK, Busy, Owned
  <1> QED BY <1>1, <1>2, <1>3 DEF QueryInv

\* Steps of the caller that leave the stream and its goroutines alone.
LEMMA CallerMoves ==
    ASSUME QueryInv,
           UNCHANGED <<request, requestDone, feeder, worker, eventsClosed, stream, returned>>,
           \/ Call \/ TakeCancelled \/ Close \/ Closed
    PROVE  QueryInv'
  <1> USE DEF contexts, feeder
  <1>1. QueryTypeOK'
    BY DEF QueryInv, QueryTypeOK, Call, TakeCancelled, Close, Closed
  <1>2. Phases'
    BY DEF QueryInv, QueryTypeOK, Phases, Busy, Call, TakeCancelled, Close, Closed
  <1>3. Allowed' /\ Final'
    BY DEF QueryInv, Allowed, Final, Whole, RowsOf
  <1>4. ~streamDone' => ~streamDone
    BY DEF Call, TakeCancelled, Close, Closed
  <1>5. ~streamDone' => Owned' /\ Collected'
    BY <1>4, OwnersKept DEF QueryInv, QueryTypeOK, Busy, Owned
  <1> QED BY <1>1, <1>2, <1>3, <1>5 DEF QueryInv

LEMMA CancelRequestKeeps ==
    ASSUME QueryInv, CancelRequest
    PROVE  QueryInv'
  <1> USE DEF CancelRequest, feeder
  <1>1. QueryTypeOK'
    BY DEF QueryInv, QueryTypeOK
  <1>2. Phases' /\ Allowed' /\ Final' /\ streamDone'
    BY DEF QueryInv, Phases, Busy, Allowed, Final
  <1> QED BY <1>1, <1>2 DEF QueryInv

\* The closed channel is received from only when the stream was cancelled: before
\* that, remaining says that a worker still holds a target or waits for one.
LEMMA TakeClosedKeeps ==
    ASSUME QueryInv, TakeClosed
    PROVE  QueryInv'
  <1> USE DEF TakeClosed, contexts, feeder
  <1>1. streamDone
    <2> SUFFICES ASSUME ~streamDone PROVE FALSE
      OBVIOUS
    <2>1. Owned /\ \A w \in Worker : worker[w].pc = "exited"
      BY DEF QueryInv, Phases, Busy
    <2>2. todo = {} /\ \A w \in Worker : ~Busy(w)
      BY <2>1 DEF Owned, Busy
    <2>3. Outstanding = {}
      BY <2>2 DEF Outstanding, Held
    <2>4. stream.remaining = 0
      BY <2>1, <2>3, FS_EmptySet DEF Owned
    <2> QED BY <2>4 DEF QueryInv, Phases, Busy
  <1>2. /\ stream' \in [remaining : 0 .. Cardinality(Target), pending : Seq(Target),
                        failed : SUBSET Target, warned : SUBSET Target,
                        outcome : {"none", "complete", "partial"}]
        /\ stream'.outcome = stream.outcome /\ stream'.failed = stream.failed
        /\ stream'.warned = stream.warned
    <2>1. stream \in [remaining : 0 .. Cardinality(Target), pending : Seq(Target),
                      failed : SUBSET Target, warned : SUBSET Target,
                      outcome : {"none", "complete", "partial"}]
      BY DEF QueryInv, QueryTypeOK
    <2>2. stream' = [remaining |-> 0, pending |-> stream.pending, failed |-> stream.failed,
                     warned |-> stream.warned, outcome |-> stream.outcome]
      BY <2>1
    <2>3. 0 \in 0 .. Cardinality(Target)
      BY OutstandingFinite
    <2> QED BY <2>1, <2>2, <2>3
  <1>3. QueryTypeOK'
    BY <1>2 DEF QueryInv, QueryTypeOK
  <1>4. requestDone
    BY <1>1 DEF QueryInv, Phases, Busy
  <1>5. Phases'
    BY <1>2, <1>4 DEF QueryInv, Phases, Busy
  <1>6. Allowed' /\ Final'
    BY <1>2, <1>4 DEF QueryInv, Allowed, Final
  <1> QED BY <1>1, <1>3, <1>5, <1>6 DEF QueryInv

StreamRecord ==
    [remaining : 0 .. Cardinality(Target), pending : Seq(Target),
     failed : SUBSET Target, warned : SUBSET Target,
     outcome : {"none", "complete", "partial"}]

LEMMA LoopKeeps ==
    ASSUME QueryInv, Loop
    PROVE  QueryInv'
  <1> USE DEF contexts, feeder
  <1> DEFINE n == Min({BatchSize, Len(stream.pending)})
             p == stream.pending
  <1>0. /\ queryCaller = "looping" /\ stream.outcome = "none"
        /\ streamDone => requestDone
        /\ UNCHANGED <<request, requestDone, streamDone, todo, jobsClosed, worker, eventsClosed>>
    BY DEF Loop, QueryInv, Phases, Busy
  <1>1. stream \in StreamRecord /\ p \in Seq(Target) /\ returned \in Seq(Target)
    BY DEF QueryInv, QueryTypeOK, StreamRecord
  <1>2. n \in Nat /\ n <= Len(p)
    BY <1>1, MinOfTwo, LenProperties, QueryAssumption
  <1> HIDE DEF n
  <1>3. CASE /\ p # <<>>
             /\ returned' = returned \o SubSeq(p, 1, n)
             /\ stream' = [stream EXCEPT !.pending = SubSeq(@, n + 1, Len(@))]
             /\ queryCaller' = "calling"
    <2>1. /\ stream' = [remaining |-> stream.remaining, pending |-> SubSeq(p, n + 1, Len(p)),
                         failed |-> stream.failed, warned |-> stream.warned,
                         outcome |-> stream.outcome]
      BY <1>1, <1>3 DEF StreamRecord
    <2>2. /\ SubSeq(p, n + 1, Len(p)) \in Seq(Target) /\ returned' \in Seq(Target)
          /\ returned' \o SubSeq(p, n + 1, Len(p)) = returned \o p
      BY <1>1, <1>2, <1>3, BatchKeeps
    <2>3. stream' \in StreamRecord
      BY <1>1, <2>1, <2>2 DEF StreamRecord
    <2>4. QueryTypeOK'
      BY <1>0, <1>3, <2>2, <2>3 DEF QueryInv, QueryTypeOK, StreamRecord
    <2>5. Phases' /\ Allowed' /\ Final'
      BY <1>0, <1>3, <2>1 DEF QueryInv, Phases, Busy, Allowed, Final
    <2>6. ASSUME ~streamDone' PROVE Owned' /\ Collected'
      <3>1. Owned /\ Collected
        BY <1>0, <2>6 DEF QueryInv
      <3>2. Outstanding' = Outstanding /\ Received' = Received
        BY <1>0, <2>1, <2>2 DEF Outstanding, Held, Busy, Received
      <3> QED BY <1>0, <2>1, <3>1, <3>2 DEF Owned, Collected, Share, Busy
    <2> QED BY <2>4, <2>5, <2>6 DEF QueryInv
  <1>4. CASE /\ p = <<>> /\ stream.remaining = 0
             /\ stream' = finishOutcome /\ queryCaller' = "end" /\ UNCHANGED returned
    <2>1. /\ stream' = [remaining |-> stream.remaining, pending |-> p,
                         failed |-> stream.failed, warned |-> stream.warned,
                         outcome |-> IF stream.failed = {} THEN "complete" ELSE "partial"]
      BY <1>1, <1>4 DEF finishOutcome, StreamRecord
    <2>2. stream' \in StreamRecord
      BY <1>1, <2>1 DEF StreamRecord
    <2>3. QueryTypeOK'
      BY <1>0, <1>4, <2>2 DEF QueryInv, QueryTypeOK, StreamRecord
    <2>4. Phases' /\ Allowed'
      BY <1>0, <1>4, <2>1 DEF QueryInv, Phases, Busy, Allowed
    <2>5. ASSUME ~streamDone PROVE /\ Owned /\ Collected
                                   /\ Outstanding = {} /\ Received = returned
      <3>1. Owned /\ Collected
        BY <2>5 DEF QueryInv
      <3>2. Outstanding = {}
        BY <1>4, <3>1, OutstandingFinite, FS_EmptySet DEF Owned
      <3>3. Received = returned
        BY <1>1, <1>4, ConcatEmptySeq DEF Received
      <3> QED BY <3>1, <3>2, <3>3
    <2>6. Final'
      <3> SUFFICES ASSUME ~requestDone'
                   PROVE  /\ Whole(stream.failed)'
                          /\ (stream.outcome = "partial" <=> stream.failed # {})'
        BY DEF Final
      <3>1. ~streamDone
        BY <1>0
      <3>2. \A t \in Target : Count(returned, t) =
                IF t \in stream.failed THEN 0 ELSE RowsPerTarget
        BY <2>5, <3>1 DEF Collected, Share
      <3>3. Whole(stream.failed)'
        BY <1>4, <2>1, <3>2 DEF Whole, RowsOf, Count, IndexesOf
      <3> QED BY <2>1, <3>3
    <2>7. ASSUME ~streamDone' PROVE Owned' /\ Collected'
      <3>1. Outstanding' = Outstanding /\ Received' = Received
        BY <1>0, <1>4, <2>1 DEF Outstanding, Held, Busy, Received
      <3> QED BY <1>0, <2>1, <2>5, <2>7, <3>1 DEF Owned, Collected, Share, Busy
    <2> QED BY <2>3, <2>4, <2>6, <2>7 DEF QueryInv
  <1>5. CASE /\ stream.remaining > 0 /\ queryCaller' = "selecting"
             /\ UNCHANGED <<stream, returned>>
    <2>1. QueryTypeOK'
      BY <1>0, <1>5 DEF QueryInv, QueryTypeOK
    <2>2. Phases' /\ Allowed' /\ Final'
      BY <1>0, <1>5 DEF QueryInv, Phases, Busy, Allowed, Final
    <2>3. ~streamDone' => Owned' /\ Collected'
      BY <1>0, <1>5, OwnersKept DEF QueryInv, QueryTypeOK, Busy, Owned
    <2> QED BY <2>1, <2>2, <2>3 DEF QueryInv
  <1> QED BY <1>3, <1>4, <1>5 DEF Loop, n

\* The event of a target is received: the target is no longer outstanding, and
\* its rows are pending or it failed.
LEMMA TakeKeeps ==
    ASSUME QueryInv, NEW w \in Worker, Take(w)
    PROVE  QueryInv'
  <1> USE DEF contexts, feeder
  <1> DEFINE e == worker[w].event
             t == worker[w].target
             rows == [i \in 1 .. RowsPerTarget |-> t]
  <1>0. /\ queryCaller = "selecting" /\ worker[w].pc = "offering"
        /\ worker' = [worker EXCEPT ![w] = NoWork]
        /\ UNCHANGED <<request, requestDone, todo, jobsClosed, eventsClosed, returned>>
        /\ stream.remaining > 0 /\ stream.outcome = "none"
        /\ streamDone => requestDone
        /\ ~eventsClosed
    BY DEF Take, QueryInv, Phases, Busy
  <1>1. /\ stream \in StreamRecord /\ returned \in Seq(Target)
        /\ worker \in [Worker -> [pc : {"idle", "scanning", "offering", "exited"},
                                  target : Target \cup {NoTarget}, event : Event]]
    BY DEF QueryInv, QueryTypeOK, StreamRecord
  <1>2. worker' \in [Worker -> [pc : {"idle", "scanning", "offering", "exited"},
                               target : Target \cup {NoTarget}, event : Event]]
    BY <1>0, <1>1 DEF NoWork, Event
  <1>3. /\ worker'[w].pc = "idle" /\ \A v \in Worker : v # w => worker'[v] = worker[v]
    BY <1>0, <1>1 DEF NoWork
  <1>4. stream.remaining - 1 \in 0 .. Cardinality(Target)
    BY <1>0, <1>1, OutstandingFinite DEF StreamRecord
  <1>5. CASE /\ stream' = [stream EXCEPT !.remaining = @ - 1]
             /\ streamDone' = TRUE /\ queryCaller' = "error"
    <2>1. stream' = [remaining |-> stream.remaining - 1, pending |-> stream.pending,
                     failed |-> stream.failed, warned |-> stream.warned,
                     outcome |-> stream.outcome]
      BY <1>1, <1>5 DEF StreamRecord
    <2>2. stream' \in StreamRecord
      BY <1>1, <1>4, <2>1 DEF StreamRecord
    <2>3. QueryTypeOK'
      BY <1>0, <1>2, <1>5, <2>2 DEF QueryInv, QueryTypeOK, StreamRecord
    <2>4. Phases' /\ Allowed' /\ Final'
      BY <1>0, <1>3, <1>5, <2>1 DEF QueryInv, Phases, Busy, Allowed, Final
    <2> QED BY <1>5, <2>3, <2>4 DEF QueryInv
  <1>6. CASE /\ ~Refused(e)
             /\ stream' = [stream EXCEPT
                        !.remaining = @ - 1,
                        !.failed = IF e = "failure" THEN @ \cup {t} ELSE @,
                        !.warned = IF e # "rows" THEN @ \cup {t} ELSE @,
                        !.pending = IF e = "failure" THEN @ ELSE @ \o rows]
             /\ queryCaller' = "looping" /\ UNCHANGED streamDone
    <2>1. stream' = [remaining |-> stream.remaining - 1,
                     pending |-> IF e = "failure" THEN stream.pending
                                 ELSE stream.pending \o rows,
                     failed |-> IF e = "failure" THEN stream.failed \cup {t}
                                ELSE stream.failed,
                     warned |-> IF e # "rows" THEN stream.warned \cup {t}
                                ELSE stream.warned,
                     outcome |-> stream.outcome]
      BY <1>1, <1>6 DEF StreamRecord
    <2>2. t \in Target
      BY <1>0 DEF QueryInv, Phases, Busy
    <2>3. rows \in Seq(Target)
      BY <2>2, CopiesSeq
    <2> HIDE DEF rows
    <2>4. stream.pending \in Seq(Target) /\ stream.pending \o rows \in Seq(Target)
      BY <1>1, <2>3, ConcatProperties DEF StreamRecord
    <2>5. stream' \in StreamRecord
      BY <1>1, <1>4, <2>1, <2>2, <2>4 DEF StreamRecord
    <2>6. QueryTypeOK'
      BY <1>0, <1>2, <1>6, <2>5 DEF QueryInv, QueryTypeOK, StreamRecord
    <2>7. \A v \in Worker : Busy(v)' <=> Busy(v) /\ v # w
      BY <1>3 DEF Busy
    <2>8. Phases'
      BY <1>0, <1>3, <1>6, <2>1, <2>7 DEF QueryInv, Phases, Busy
    <2>9. Final'
      BY <1>0, <2>1 DEF Final
    <2>10. Allowed'
      <3>1. e \in Event
        BY <1>1
      <3>2. e # "rows" => request.acceptOutcome
        BY <1>6, <3>1 DEF Refused, Event, QueryInv, Allowed
      <3>3. e = "failure" => request.allowPartial
        BY <1>6 DEF Refused
      <3> HIDE DEF e
      <3> QED BY <1>0, <2>1, <3>2, <3>3 DEF QueryInv, Allowed
    <2>11. ASSUME ~streamDone' PROVE Owned' /\ Collected'
      <3>1. Owned /\ Collected
        BY <1>6, <2>11 DEF QueryInv
      <3>2. Busy(w) /\ t \in Outstanding
        BY <1>0, <2>2 DEF Busy, Outstanding, Held
      <3>3. Outstanding' = Outstanding \ {t}
        <4>1. \A v \in Worker : Busy(v)' => worker'[v].target # t
          BY <1>3, <2>7, <3>1, <3>2 DEF Owned
        <4>2. t \notin todo
          BY <3>1, <3>2 DEF Owned
        <4>3. t \notin Outstanding'
          BY <1>0, <4>1, <4>2 DEF Outstanding, Held
        <4>4. ASSUME NEW x \in Target, x # t
              PROVE  x \in Outstanding' <=> x \in Outstanding
          BY <1>0, <1>3, <2>7, <4>4 DEF Outstanding, Held
        <4>5. Outstanding' \subseteq Target /\ Outstanding \subseteq Target
          BY DEF Outstanding
        <4> HIDE DEF t
        <4> QED BY <4>3, <4>4, <4>5
      <3>4. Cardinality(Outstanding') = stream.remaining - 1
        <4> HIDE DEF t
        <4>1. Cardinality(Outstanding \ {t}) = Cardinality(Outstanding) - 1
          BY <3>2, OutstandingFinite, FS_RemoveElement
        <4> QED BY <3>1, <3>3, <4>1 DEF Owned
      <3>5. Owned'
        <4>1. \A v \in Worker : Busy(v)' => worker'[v].target \in Target \ todo'
          BY <1>0, <1>3, <2>7, <3>1 DEF Owned
        <4>2. \A v, x \in Worker : Busy(v)' /\ Busy(x)' /\ v # x =>
                worker'[v].target # worker'[x].target
          BY <1>3, <2>7, <3>1 DEF Owned
        <4>3. stream'.failed \cap Outstanding' = {}
          BY <2>1, <3>1, <3>3 DEF Owned
        <4>4. \E v \in Worker : worker'[v].pc # "exited"
          BY <1>3
        <4> QED BY <1>0, <2>1, <3>1, <3>4, <4>1, <4>2, <4>3, <4>4 DEF Owned
      <3>6. Count(Received, t) = 0 /\ Received \in Seq(Target)
        <4>1. Count(Received, t) = 0
          BY <2>2, <3>1, <3>2 DEF Collected, Share
        <4> QED BY <1>1, <2>4, <4>1, ConcatProperties DEF Received
      <3>7. CASE e = "failure"
        <4>1. Received' = Received /\ stream'.failed = stream.failed \cup {t}
          BY <1>0, <2>1, <3>7 DEF Received
        <4>2. \A x \in Target : Share(x)' = Share(x)
          BY <3>2, <3>3, <4>1 DEF Share
        <4> QED BY <3>1, <3>5, <4>1, <4>2 DEF Collected
      <3>8. CASE e # "failure"
        <4>1. stream'.failed = stream.failed /\ stream'.pending = stream.pending \o rows
          BY <2>1, <3>8
        <4>2. Received' = Received \o rows
          <5>1. returned \o (stream.pending \o rows) = (returned \o stream.pending) \o rows
            <6> DEFINE q == stream.pending
            <6>1. q \in Seq(Target)
              BY <2>4
            <6> HIDE DEF q
            <6>2. returned \o (q \o rows) = (returned \o q) \o rows
              BY <1>1, <2>3, <6>1, ConcatAssociative
            <6> QED BY <6>2 DEF q
          <5> QED BY <1>0, <4>1, <5>1 DEF Received
        <4>3. ASSUME NEW x \in Target
              PROVE  Count(Received \o rows, x) =
                        IF x = t THEN RowsPerTarget ELSE Count(Received, x)
          <5> HIDE DEF t
          <5> QED BY <2>2, <3>6, CountCopies DEF rows
        <4>4. ASSUME NEW x \in Target
              PROVE  Share(x)' = IF x = t THEN RowsPerTarget ELSE Share(x)
          <5>1. t \notin stream.failed
            BY <3>1, <3>2 DEF Owned
          <5> HIDE DEF t
          <5> QED BY <3>2, <3>3, <4>1, <5>1 DEF Share
        <4> QED BY <3>1, <3>5, <4>2, <4>3, <4>4 DEF Collected
      <3> QED BY <3>7, <3>8
    <2> QED BY <2>6, <2>8, <2>9, <2>10, <2>11 DEF QueryInv
  <1> QED BY <1>5, <1>6 DEF Take

-----------------------------------------------------------------------------
LEMMA QueryStep == QueryInv /\ [QueryNext]_queryVars => QueryInv'
  <1> SUFFICES ASSUME QueryInv, [QueryNext]_queryVars PROVE QueryInv'
    OBVIOUS
  <1>1. CASE UNCHANGED queryVars
    BY <1>1 DEF queryVars, contexts, feeder, QueryInv, QueryTypeOK, Phases, Allowed, Final,
        Whole, RowsOf, Owned, Collected, Share, Outstanding, Held, Busy, Received
  <1>2. ASSUME NEW w \in Worker, WorkerStep(w) PROVE QueryInv'
    BY <1>2, FeedKeeps, ScannedKeeps, ExitKeeps, TakeKeeps DEF WorkerStep
  <1>3. CASE Call \/ TakeCancelled \/ Close \/ Closed
    BY <1>3, CallerMoves DEF Call, TakeCancelled, Close, Closed, contexts
  <1> QED BY <1>1, <1>2, <1>3, FeedEndKeeps, CloseEventsKeeps, LoopKeeps, TakeClosedKeeps,
        CancelRequestKeeps DEF QueryNext

LEMMA QueryInvImplies == QueryInv => RowsAccounted
  <1> SUFFICES ASSUME QueryInv PROVE RowsAccounted
    OBVIOUS
  <1>1. Accounted
    BY DEF QueryInv, Accounted, Allowed, Final
  <1>2. ClosedQuiet
    BY DEF QueryInv, ClosedQuiet, Phases, Busy
  <1> QED BY <1>1, <1>2 DEF RowsAccounted

\* The counting invariant of the fan-out: outstanding targets have one owner,
\* remaining counts them, and the rows received are those of the others
\* (newDistributedStream, runWorker, Next).
THEOREM QueryInductive == QuerySpec => []QueryInv
  <1>1. QueryInit => QueryInv
    BY QueryInitial
  <1>2. QueryInv /\ [QueryNext]_queryVars => QueryInv'
    BY QueryStep
  <1> QED BY <1>1, <1>2, PTL DEF QuerySpec

\* A query that ends and was not cancelled accounts for every target exactly
\* once, and a closed one has no worker left, for any targets, number of workers,
\* rows and batch size (Next, finishOutcome, Close).
THEOREM QueryAccounts == QuerySpec => []RowsAccounted
  BY QueryInductive, QueryInvImplies, PTL
=============================================================================
