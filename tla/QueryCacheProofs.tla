-------------------------- MODULE QueryCacheProofs --------------------------
(***************************************************************************)
(* Theorems of QueryCache, for any number of connections, branches,        *)
(* readers, recovery callers, entities and calls.                          *)
(***************************************************************************)
EXTENDS QueryCache, FiniteSetTheorems, TLAPS

\* What c has noted to be invalidated holds all of W.
Noted(c, W) == pendingAll[c] \/ W \subseteq pending[c]

\* What a retained or taken invalidation p concerns holds all of W.
Holds(p, W) == p.found /\ ~p.blank => p.all \/ W \subseteq p.entities

\* The source's transaction and the cache's idea of it: a call that is about to
\* succeed has ended the transaction.
Ended(o) ==
    \/ o.call = "close"
    \/ o.call = "commit" /\ o.ok
    \/ o.call \in {"prepare", "resolve"} /\ o.outcome # "error"

TxInv(c) ==
    /\ tx[c] = "none" => written[c] = {} /\ changed[c] = {}
    /\ tx[c] # "none" => active[c]
    /\ \A b \in Branch : tx[c] = b => branch[b].home = c /\ branch[b].state = "active"
    /\ Ended(op[c]) => tx[c] = "none"

\* What the calls of a transaction have changed, and what a connection is about
\* to acknowledge, has been noted by the cache.
NotedInv(c) ==
    /\ Noted(c, changed[c])
    /\ op[c].call \in {"commit", "resolve"} => Noted(c, op[c].writes)
    /\ op[c].call = "close" => op[c].writes = {} \/ (active[c] /\ Noted(c, op[c].writes))

\* What a PrepareBranch that is about to return knows of its branch.
PrepareInv(b, c) ==
    op[c].call = "prepare" /\ op[c].branch = b /\ op[c].outcome = "PREPARED" =>
       /\ branch[b].home = c /\ branch[b].state \notin {"none", "active"}
       /\ ~op[c].again => active[c]

\* The changes of a branch are noted by its connection or retained.
BranchInv(b) ==
    /\ branch[b].state = "none" => branch[b].home = "none"
    /\ branch[b].state \in {"none", "active"} => branch[b].told = {} /\ ~retained[b].found
    /\ branch[b].state # "forgotten" => Holds(retained[b], branch[b].told)
    /\ \A c \in Conn : branch[b].home = c /\ active[c] => Noted(c, branch[b].told)
    /\ \A c \in Conn : PrepareInv(b, c)

\* What a recovery caller is about to acknowledge is retained, or everything
\* will be invalidated, or nothing is left of it.
TaskInv(w) ==
    LET t == worker[w] IN
    /\ t.pc = "called" =>
          (t.writes # {} => /\ t.invalidate
                            /\ branch[t.branch].state \in {"committed", "heuristic", "forgotten"}
                            /\ t.writes = branch[t.branch].told
                            /\ Holds(retained[t.branch], t.writes))
    /\ t.pc = "taken" => Holds(t.pend, t.writes)

\* A result of the current generation is no older than what was acknowledged.
FreshAt(x, global, entities, known) ==
    /\ x.gen.global <= global
    /\ x.gen.entity <= entities[x.entity]
    /\ x.gen.global = global /\ x.gen.entity = entities[x.entity] =>
          \A e \in Reads[x.entity] : x.got[e] = Unread \/ x.got[e] >= known[e]

Fresh(x) == FreshAt(x, globalGeneration, entityGenerations, acked)

FreshInv ==
    /\ \A e \in Entity : acked[e] <= committed[e]
    /\ \A r \in Reader : reader[r].pc = "reading" => Fresh(reader[r])
    /\ \A i \in DOMAIN store : Fresh(store[i]) /\ ToRead(store[i]) = {}

CoverInv ==
    /\ \A c \in Conn : TxInv(c) /\ NotedInv(c)
    /\ \A b \in Branch : BranchInv(b)
    /\ \A w \in Worker : TaskInv(w)

CacheInv == TypeOK /\ CoverInv /\ FreshInv

\* A query reads uncommitted data only if a transaction began on its connection
\* while it was open.
CleanInv ==
    /\ \A r \in Reader : reader[r] # Idle /\ tx[reader[r].conn] # "none" => reader[r].overlapped
    /\ \A r \in Reader : reader[r].pc = "reading" /\ reader[r].dirty => reader[r].overlapped
    /\ \A i \in DOMAIN store : store[i].dirty => store[i].overlapped

(***************************************************************************)
(* Types.                                                                  *)
(***************************************************************************)
\* The fields of a call that is under way.
LEMMA OpFields ==
    ASSUME NEW o \in Calling \cup {NoOp}
    PROVE  /\ o.call \in {"none", "mutate", "commit", "close", "prepare", "resolve"}
           /\ o.call = "none" <=> o = NoOp
           /\ o.call \in {"mutate", "commit", "close", "resolve"} => o.writes \in SUBSET Entity
           /\ o.call \in {"mutate", "commit", "close"} => o.ok \in BOOLEAN
           /\ o.call = "mutate" => o.named \in BOOLEAN
           /\ o.call = "prepare" => /\ o.branch \in Branch /\ o.again \in BOOLEAN
                                    /\ o.outcome \in {"PREPARED", "READ_ONLY", "error"}
           /\ o.call = "resolve" => o.outcome \in {"committed", "rolledBack", "error"}
<1>1. CASE o = NoOp
  BY <1>1 DEF NoOp
<1>2. CASE o \in Calling
  BY <1>2 DEF Calling, NoOp
<1> QED BY <1>1, <1>2

\* The fields of a query that is under way.
LEMMA ReaderFields ==
    ASSUME NEW s \in Opened \cup Recording \cup {Idle}
    PROVE  /\ s.pc \in {"idle", "lookup", "reading"}
           /\ s.pc = "idle" <=> s = Idle
           /\ s.pc # "idle" => s.conn \in Conn /\ s.entity \in Entity /\ s.overlapped \in BOOLEAN
           /\ s.pc = "lookup" => s \in Opened
           /\ s.pc = "reading" => /\ s \in Recording /\ s.gen \in Generation
                                  /\ s.got \in Versions /\ s.dirty \in BOOLEAN
                                  /\ s.size \in Nat /\ s.cacheable \in BOOLEAN
<1>1. CASE s = Idle
  BY <1>1 DEF Idle
<1>2. CASE s \in Opened
  BY <1>2 DEF Opened, Idle
<1>3. CASE s \in Recording
  BY <1>3 DEF Recording, Idle
<1> QED BY <1>1, <1>2, <1>3

\* The fields of a recovery call that is under way.
LEMMA TaskFields ==
    ASSUME NEW t \in Task \cup {Idle}
    PROVE  /\ t.pc \in {"idle", "called", "taken", "forgotten"}
           /\ t.pc = "idle" <=> t = Idle
           /\ t.pc \in {"called", "forgotten"} => t.branch \in Branch
           /\ t.pc \in {"called", "taken"} => t.ok \in BOOLEAN /\ t.writes \in SUBSET Entity
           /\ t.pc = "called" => t.invalidate \in BOOLEAN
           /\ t.pc = "taken" => t.pend \in Retained
<1>1. CASE t = Idle
  BY <1>1 DEF Idle
<1>2. CASE t \in Task
  BY <1>2 DEF Task, Idle
<1> QED BY <1>1, <1>2

\* The types hold at the start.
LEMMA InitTypes == Init => TypeOK
<1> SUFFICES ASSUME Init PROVE TypeOK
  OBVIOUS
<1>1. NoBranch \in BranchOf /\ NotRetained \in Retained
  BY DEF NoBranch, BranchOf, NotRetained, Retained
<1>2. store \in Seq(Entry)
  BY DEF Init
<1>3. calls \in 0 .. MaxCalls
  BY CacheAssumption DEF Init
<1> QED
  BY <1>1, <1>2, <1>3 DEF Init, TypeOK

\* The types of the source, of the connections and of the rest.
SourceTypes ==
    /\ committed \in [Entity -> Nat]
    /\ tx \in [Conn -> {"none", "local"} \cup Branch]
    /\ written \in [Conn -> SUBSET Entity]
    /\ changed \in [Conn -> SUBSET Entity]
    /\ branch \in [Branch -> BranchOf]

ConnTypes ==
    /\ open \in [Conn -> BOOLEAN] /\ active \in [Conn -> BOOLEAN]
    /\ pending \in [Conn -> SUBSET Entity]
    /\ pendingAll \in [Conn -> BOOLEAN]
    /\ op \in [Conn -> Calling \cup {NoOp}]
    /\ \A c \in Conn : pendingAll[c] => pending[c] = {}

GenTypes ==
    /\ globalGeneration \in Nat
    /\ entityGenerations \in [Entity -> Nat]

\* The type invariant by groups of variables.
LEMMA TypeParts ==
    TypeOK <=> /\ SourceTypes /\ ConnTypes /\ GenTypes
               /\ acked \in [Entity -> Nat]
               /\ store \in Seq(Entry)
               /\ retained \in [Branch -> Retained]
               /\ reader \in [Reader -> Opened \cup Recording \cup {Idle}]
               /\ worker \in [Worker -> Task \cup {Idle}]
               /\ calls \in 0 .. MaxCalls
  BY DEF TypeOK, SourceTypes, ConnTypes, GenTypes

\* Generations are numbers, whatever is invalidated.
LEMMA GenTyped ==
    ASSUME GenTypes,
           UNCHANGED gens \/ invalidateAll \/ (\E E \in SUBSET Entity : invalidateEntities(E))
    PROVE  GenTypes'
  BY DEF GenTypes, gens, invalidateAll, invalidateEntities

\* Acknowledging keeps the versions natural numbers.
LEMMA AckTyped ==
    ASSUME SourceTypes, acked \in [Entity -> Nat], NEW W, Acknowledge(W) \/ UNCHANGED acked
    PROVE  acked' \in [Entity -> Nat]
  BY DEF SourceTypes, Acknowledge

\* A commit only advances versions.
LEMMA CommitsTyped ==
    ASSUME SourceTypes, NEW W, Commits(W) \/ UNCHANGED committed
    PROVE  /\ committed' \in [Entity -> Nat]
           /\ \A e \in Entity : committed[e] <= committed'[e]
  BY DEF SourceTypes, Commits

\* Invalidating what a connection noted keeps the generations' types.
LEMMA PendingTyped ==
    ASSUME ConnTypes, GenTypes, NEW c \in Conn, invalidatePendingLocked(c)
    PROVE  GenTypes'
  BY GenTyped DEF ConnTypes, invalidatePendingLocked

\* Calls stay within their bound.
LEMMA CallTyped ==
    ASSUME calls \in 0 .. MaxCalls, Call PROVE calls' \in 0 .. MaxCalls
  BY CacheAssumption DEF Call

\* A connection's call ends.
LEMMA DoneTyped ==
    ASSUME ConnTypes, NEW c \in Conn, Done(c)
    PROVE  op' \in [Conn -> Calling \cup {NoOp}] /\ op'[c] = NoOp
  BY DEF ConnTypes, Done

\* A connection's idea of its transaction is cleared or kept.
LEMMA ClearTyped ==
    ASSUME ConnTypes, NEW c \in Conn, ClearActive(c) \/ UNCHANGED <<active, pending, pendingAll>>
    PROVE  /\ active' \in [Conn -> BOOLEAN] /\ pending' \in [Conn -> SUBSET Entity]
           /\ pendingAll' \in [Conn -> BOOLEAN]
           /\ \A d \in Conn : pendingAll'[d] => pending'[d] = {}
  BY DEF ConnTypes, ClearActive

\* The source's transaction ends or is kept.
LEMMA EndTxTyped ==
    ASSUME SourceTypes, NEW c \in Conn, EndTx(c) \/ UNCHANGED <<tx, written, changed>>
    PROVE  /\ tx' \in [Conn -> {"none", "local"} \cup Branch]
           /\ written' \in [Conn -> SUBSET Entity] /\ changed' \in [Conn -> SUBSET Entity]
  BY DEF SourceTypes, EndTx


(***************************************************************************)
(* The store: its entries after an operation were there before, or are new.*)
(***************************************************************************)
LEMMA Prepended ==
    ASSUME NEW S, NEW x \in S, NEW q \in Seq(S)
    PROVE  /\ <<x>> \o q \in Seq(S)
           /\ \A k \in DOMAIN (<<x>> \o q) :
                 (<<x>> \o q)[k] = x \/ \E j \in DOMAIN q : (<<x>> \o q)[k] = q[j]
<1>1. <<x>> \o q \in Seq(S) /\ Len(<<x>> \o q) = Len(q) + 1 /\ (<<x>> \o q)[1] = x
      /\ \A k \in 2 .. Len(<<x>> \o q) : k - 1 \in DOMAIN q /\ (<<x>> \o q)[k] = q[k - 1]
  OBVIOUS
<1> QED BY <1>1

\* memoryStore.remove leaves entries that were there.
LEMMA WithoutKeeps ==
    ASSUME store \in Seq(Entry), NEW x
    PROVE  /\ Without(x) \in Seq(Entry)
           /\ \A k \in DOMAIN Without(x) : \E j \in DOMAIN store : Without(x)[k] = store[j]
<1>1. CASE PlacesOf(x) = {}
  BY <1>1 DEF Without
<1>2. CASE PlacesOf(x) # {}
  <2>1. PICK i \in DOMAIN store : i = CHOOSE j \in PlacesOf(x) : TRUE
    BY <1>2 DEF PlacesOf
  <2>2. Without(x) = SubSeq(store, 1, i - 1) \o SubSeq(store, i + 1, Len(store))
    BY <1>2, <2>1 DEF Without, RemoveAt
  <2>3. i \in 1 .. Len(store)
    BY <2>1
  <2> DEFINE A == SubSeq(store, 1, i - 1)
             B == SubSeq(store, i + 1, Len(store))
  <2>4. A \in Seq(Entry) /\ Len(A) = i - 1 /\ \A k \in 1 .. i - 1 : A[k] = store[k]
    BY <2>3
  <2>5. B \in Seq(Entry) /\ Len(B) = Len(store) - i
        /\ \A k \in 1 .. Len(store) - i : B[k] = store[i + k]
    BY <2>3
  <2>6. Without(x) = A \o B
    BY <2>2
  <2> HIDE DEF A, B
  <2>7. A \o B \in Seq(Entry) /\ Len(A \o B) = Len(store) - 1
    BY <2>3, <2>4, <2>5
  <2>8. ASSUME NEW k \in DOMAIN (A \o B)
        PROVE  \E j \in DOMAIN store : (A \o B)[k] = store[j]
    <3>1. CASE k <= i - 1
      BY <2>3, <2>4, <2>5, <2>7, <2>8, <3>1
    <3>2. CASE k > i - 1
      <4>1. k - (i - 1) \in 1 .. Len(store) - i /\ (A \o B)[k] = B[k - (i - 1)]
        BY <2>3, <2>4, <2>5, <2>7, <2>8, <3>2
      <4>2. i + (k - (i - 1)) = k + 1 /\ k + 1 \in 1 .. Len(store)
        BY <2>3, <2>7, <2>8, <4>1, <3>2
      <4>3. B[k - (i - 1)] = store[k + 1]
        BY <2>5, <4>1, <4>2
      <4> QED BY <4>1, <4>2, <4>3
    <3> QED BY <2>7, <2>8, <2>3, <3>1, <3>2
  <2> QED BY <2>6, <2>7, <2>8
<1> QED BY <1>1, <1>2

\* memoryStore.set adds the given entry to entries that were there.
LEMMA SetKeeps ==
    ASSUME store \in Seq(Entry), NEW x \in Entry, set(x)
    PROVE  /\ store' \in Seq(Entry)
           /\ \A k \in DOMAIN store' : store'[k] = x \/ \E j \in DOMAIN store : store'[k] = store[j]
<1> DEFINE W == Without(x)
<1>1. W \in Seq(Entry) /\ \A k \in DOMAIN W : \E j \in DOMAIN store : W[k] = store[j]
  BY WithoutKeeps
<1>2. PICK n \in 0 .. Len(<<x>> \o W) : store' = SubSeq(<<x>> \o W, 1, n)
  BY DEF set
<1> HIDE DEF W
<1> DEFINE s == <<x>> \o W
<1>3. s \in Seq(Entry) /\ \A k \in DOMAIN s : s[k] = x \/ \E j \in DOMAIN W : s[k] = W[j]
  BY <1>1, Prepended
<1>4. \A k \in DOMAIN s : s[k] = x \/ \E j \in DOMAIN store : s[k] = store[j]
  BY <1>1, <1>3
<1> HIDE DEF s
<1>5. store' = SubSeq(s, 1, n) /\ n \in 0 .. Len(s)
  BY <1>2 DEF s
<1> QED BY <1>3, <1>4, <1>5

\* memoryStore.get moves an entry to the front and adds none.
LEMMA FrontKeeps ==
    ASSUME store \in Seq(Entry), NEW i \in DOMAIN store,
           store' = <<store[i]>> \o Without(store[i])
    PROVE  /\ store' \in Seq(Entry)
           /\ \A k \in DOMAIN store' : \E j \in DOMAIN store : store'[k] = store[j]
<1> DEFINE W == Without(store[i])
<1>1. W \in Seq(Entry) /\ \A k \in DOMAIN W : \E j \in DOMAIN store : W[k] = store[j]
  BY WithoutKeeps
<1>2. store' = <<store[i]>> \o W /\ store[i] \in Entry
  OBVIOUS
<1> HIDE DEF W
<1> DEFINE s == <<store[i]>> \o W
<1>3. s \in Seq(Entry) /\ \A k \in DOMAIN s : s[k] = store[i] \/ \E j \in DOMAIN W : s[k] = W[j]
  BY <1>1, <1>2, Prepended
<1>4. store' = s
  BY <1>2
<1> HIDE DEF s
<1> QED BY <1>1, <1>3, <1>4

(***************************************************************************)
(* Types of the queries.                                                   *)
(***************************************************************************)
\* QueryCheck keeps the types.
LEMMA QueryCheckTypes ==
    ASSUME TypeOK, NEW r \in Reader, NEW c \in Conn, NEW q \in Entity, QueryCheck(r, c, q)
    PROVE  TypeOK'
<1>1. Opening(c, q) \in Opened
  BY DEF Opened, Opening
<1>2. reader' \in [Reader -> Opened \cup Recording \cup {Idle}]
  BY <1>1 DEF QueryCheck, TypeOK
<1> QED BY <1>2 DEF TypeOK, QueryCheck, source, conns, gens

\* QueryLookup keeps the types.
LEMMA QueryLookupTypes ==
    ASSUME TypeOK, NEW r \in Reader, QueryLookup(r)
    PROVE  TypeOK'
<1> DEFINE q == reader[r].entity
           s == [pc |-> "reading", conn |-> reader[r].conn, entity |-> q,
                 gen |-> generation(q), got |-> [e \in Entity |-> Unread],
                 dirty |-> FALSE, overlapped |-> reader[r].overlapped, size |-> 0, cacheable |-> TRUE]
<1>1. reader[r].conn \in Conn /\ q \in Entity /\ reader[r].overlapped \in BOOLEAN
  BY ReaderFields DEF TypeOK, QueryLookup
<1>2. generation(q) \in Generation
  BY <1>1 DEF generation, Generation, TypeOK
<1>3. [e \in Entity |-> Unread] \in Versions
  BY DEF Versions
<1>4. s \in Recording
  BY <1>1, <1>2, <1>3 DEF Recording
<1>5. reader' \in [Reader -> Opened \cup Recording \cup {Idle}]
  BY <1>4 DEF QueryLookup, TypeOK
<1>6. store' \in Seq(Entry)
  <2>1. store \in Seq(Entry)
    BY DEF TypeOK
  <2>2. ASSUME NEW i \in Hit(q), store' = <<store[i]>> \o Without(store[i])
        PROVE  store' \in Seq(Entry)
    BY <2>1, <2>2, FrontKeeps DEF Hit, PlacesOf
  <2>3. Without([entity |-> q, gen |-> generation(q)]) \in Seq(Entry)
    BY <2>1, WithoutKeeps
  <2> QED BY <2>2, <2>3 DEF QueryLookup
<1> QED BY <1>5, <1>6 DEF TypeOK, QueryLookup, source, conns, gens

\* One batch: the version read of one more entity.
LEMMA NextBatchReads ==
    ASSUME TypeOK, NEW r \in Reader, NextBatch(r)
    PROVE  \E e \in Entity : \E ok \in BOOLEAN :
              LET s == reader[r] IN
              /\ s \in Recording /\ reader'[r] \in Recording
              /\ reader'[r].got = [s.got EXCEPT ![e] = committed[e]]
              /\ reader'[r].dirty = (s.dirty \/ e \in written[s.conn])
              /\ reader'[r].gen = s.gen /\ reader'[r].entity = s.entity
              /\ reader'[r].conn = s.conn /\ reader'[r].overlapped = s.overlapped
              /\ reader' = [reader EXCEPT ![r] = reader'[r]]
<1> DEFINE s == reader[r]
<1>1. s \in Recording /\ s.got \in Versions /\ s.entity \in Entity /\ s.size \in Nat /\ s.overlapped \in BOOLEAN
  BY ReaderFields DEF TypeOK, NextBatch
<1>2. PICK e \in ToRead(s), fit \in BOOLEAN :
        reader' = [reader EXCEPT ![r] =
                 [pc |-> "reading", conn |-> s.conn, entity |-> s.entity, gen |-> s.gen,
                  got |-> [s.got EXCEPT ![e] = committed[e]],
                  dirty |-> s.dirty \/ e \in written[s.conn], overlapped |-> s.overlapped,
                  size |-> s.size + 1,
                  cacheable |-> s.cacheable /\ fit /\ s.size + 1 <= MaxEntryBytes]]
  BY DEF NextBatch
<1>3. e \in Entity
  BY <1>1, <1>2, CacheAssumption DEF ToRead
<1>4. [s.got EXCEPT ![e] = committed[e]] \in Versions
  BY <1>1, <1>3 DEF Versions, TypeOK
<1> DEFINE g == [s.got EXCEPT ![e] = committed[e]]
           d == (s.dirty \/ e \in written[s.conn])
           k == (s.cacheable /\ fit /\ s.size + 1 <= MaxEntryBytes)
<1>5. d \in BOOLEAN /\ k \in BOOLEAN /\ s.size + 1 \in Nat
  BY <1>1 DEF Recording
<1>6. reader' = [reader EXCEPT ![r] =
           [pc |-> "reading", conn |-> s.conn, entity |-> s.entity, gen |-> s.gen, got |-> g,
            dirty |-> d, overlapped |-> s.overlapped, size |-> s.size + 1, cacheable |-> k]]
  BY <1>2
<1>7. g \in Versions
  BY <1>4
<1> HIDE DEF g, d, k
<1>9. reader'[r] = [pc |-> "reading", conn |-> s.conn, entity |-> s.entity, gen |-> s.gen, got |-> g,
           dirty |-> d, overlapped |-> s.overlapped, size |-> s.size + 1, cacheable |-> k]
  BY <1>6 DEF TypeOK
<1>10. reader'[r] \in Recording
  BY <1>1, <1>5, <1>7, <1>9 DEF Recording
<1>11. reader' = [reader EXCEPT ![r] = reader'[r]]
  BY <1>6, <1>9
<1>12. reader'[r].got = g /\ reader'[r].dirty = d /\ reader'[r].gen = s.gen /\ reader'[r].entity = s.entity
       /\ reader'[r].conn = s.conn /\ reader'[r].overlapped = s.overlapped
  BY <1>9
<1> QED BY <1>1, <1>3, <1>10, <1>11, <1>12 DEF g, d

\* NextBatch keeps the types.
LEMMA NextBatchTypes ==
    ASSUME TypeOK, NEW r \in Reader, NextBatch(r)
    PROVE  TypeOK'
<1>1. reader' \in [Reader -> Opened \cup Recording \cup {Idle}]
  BY NextBatchReads DEF TypeOK
<1> QED BY <1>1 DEF TypeOK, NextBatch, source, conns, gens

\* The entry a recording makes.
EntryOf(s) == [entity |-> s.entity, gen |-> s.gen, got |-> s.got,
               dirty |-> s.dirty, overlapped |-> s.overlapped, size |-> s.size]

\* Closing a stream adds its own result only, and only a whole one.
LEMMA CloseStreamStores ==
    ASSUME TypeOK, NEW r \in Reader, CloseStream(r)
    PROVE  /\ store' \in Seq(Entry)
           /\ reader[r] \in Recording
           /\ \A k \in DOMAIN store' :
                \/ \E j \in DOMAIN store : store'[k] = store[j]
                \/ store'[k] = EntryOf(reader[r]) /\ ToRead(reader[r]) = {}
<1>1. reader[r] \in Recording
  BY ReaderFields DEF TypeOK, CloseStream
<1>2. EntryOf(reader[r]) \in Entry
  BY <1>1 DEF Recording, Entry, EntryOf
<1>3. store \in Seq(Entry)
  BY DEF TypeOK
<1>4. CASE UNCHANGED store
  BY <1>1, <1>3, <1>4
<1>5. CASE ToRead(reader[r]) = {} /\ set(EntryOf(reader[r]))
  BY <1>1, <1>2, <1>3, <1>5, SetKeeps
<1> QED BY <1>4, <1>5 DEF CloseStream, storeIfCurrent, EntryOf

\* CloseStream keeps the types.
LEMMA CloseStreamTypes ==
    ASSUME TypeOK, NEW r \in Reader, CloseStream(r)
    PROVE  TypeOK'
<1>1. reader' \in [Reader -> Opened \cup Recording \cup {Idle}]
  BY DEF CloseStream, TypeOK
<1> QED BY <1>1, CloseStreamStores DEF TypeOK, CloseStream, source, conns, gens


(***************************************************************************)
(* Types of the calls of a connection.                                     *)
(***************************************************************************)
\* Open keeps the types.
LEMMA OpenTypes ==
    ASSUME TypeOK, NEW c \in Conn, Open(c) PROVE TypeOK'
  BY DEF TypeOK, Open, source, gens

\* A call begins.
LEMMA BegunTyped ==
    ASSUME ConnTypes, NEW c \in Conn, NEW o \in Calling, Begun(c, o)
    PROVE  op' \in [Conn -> Calling \cup {NoOp}]
  BY DEF ConnTypes, Begun

\* Mutate keeps the types.
LEMMA MutateTypes ==
    ASSUME TypeOK, NEW c \in Conn, NEW e \in Entity, NEW named \in BOOLEAN, Mutate(c, e, named)
    PROVE  TypeOK'
<1>1. SourceTypes /\ ConnTypes
  BY TypeParts
<1>2. \A ok \in BOOLEAN : [call |-> "mutate", ok |-> ok, writes |-> {e}, named |-> named] \in Calling
  BY DEF Calling
<1>3. op' \in [Conn -> Calling \cup {NoOp}]
  BY <1>1, <1>2, BegunTyped DEF Mutate
<1>4. committed' \in [Entity -> Nat]
  BY <1>1, CommitsTyped DEF Mutate
<1>5. written' \in [Conn -> SUBSET Entity]
  BY <1>1 DEF Mutate, SourceTypes
<1>6. calls' \in 0 .. MaxCalls
  BY CallTyped DEF Mutate, TypeOK
<1> QED BY <1>3, <1>4, <1>5, <1>6 DEF TypeOK, Mutate, gens

\* MutateDone keeps the types.
LEMMA MutateDoneTypes ==
    ASSUME TypeOK, NEW c \in Conn, MutateDone(c) PROVE TypeOK'
<1>1. SourceTypes /\ ConnTypes /\ GenTypes /\ acked \in [Entity -> Nat]
  BY TypeParts
<1>2. op[c].writes \in SUBSET Entity
  BY OpFields DEF MutateDone, TypeOK
<1>3. op' \in [Conn -> Calling \cup {NoOp}]
  BY <1>1, DoneTyped DEF MutateDone
<1>4. GenTypes'
  BY <1>1, <1>2, GenTyped DEF MutateDone
<1>5. acked' \in [Entity -> Nat]
  BY <1>1, AckTyped DEF MutateDone
<1>6. pending' \in [Conn -> SUBSET Entity] /\ pendingAll' \in [Conn -> BOOLEAN]
      /\ \A d \in Conn : pendingAll'[d] => pending'[d] = {}
  BY <1>1, <1>2 DEF MutateDone, ConnTypes
<1>7. changed' \in [Conn -> SUBSET Entity]
  BY <1>1, <1>2 DEF MutateDone, SourceTypes
<1> QED BY <1>3, <1>4, <1>5, <1>6, <1>7 DEF TypeOK, MutateDone, GenTypes

\* A query that is open when a transaction begins is marked, and otherwise kept.
LEMMA ReadersMarked ==
    ASSUME TypeOK, NEW c \in Conn, MarkActive(c)
    PROVE  /\ reader' \in [Reader -> Opened \cup Recording \cup {Idle}]
           /\ \A r \in Reader :
                \/ reader'[r] = reader[r] /\ ~(reader[r] # Idle /\ reader[r].conn = c)
                \/ /\ reader[r] # Idle /\ reader[r].conn = c /\ reader'[r] # Idle
                   /\ reader'[r] \in Opened \cup Recording
                   /\ reader'[r].overlapped /\ reader'[r].pc = reader[r].pc
                   /\ reader'[r].conn = reader[r].conn /\ reader'[r].entity = reader[r].entity
                   /\ reader[r].pc = "reading" =>
                         /\ reader'[r].gen = reader[r].gen /\ reader'[r].got = reader[r].got
                         /\ reader'[r].size = reader[r].size
                         /\ reader'[r].cacheable = reader[r].cacheable
<1>1. ASSUME NEW s \in Opened
      PROVE  /\ [s EXCEPT !.overlapped = TRUE] \in Opened /\ [s EXCEPT !.overlapped = TRUE] # Idle
             /\ [s EXCEPT !.overlapped = TRUE].overlapped
             /\ [s EXCEPT !.overlapped = TRUE].pc = s.pc /\ s.pc # "reading"
             /\ [s EXCEPT !.overlapped = TRUE].conn = s.conn
             /\ [s EXCEPT !.overlapped = TRUE].entity = s.entity
  BY DEF Opened, Idle
<1>2. ASSUME NEW s \in Recording
      PROVE  /\ [s EXCEPT !.overlapped = TRUE] \in Recording /\ [s EXCEPT !.overlapped = TRUE] # Idle
             /\ [s EXCEPT !.overlapped = TRUE].overlapped
             /\ [s EXCEPT !.overlapped = TRUE].pc = s.pc
             /\ [s EXCEPT !.overlapped = TRUE].conn = s.conn
             /\ [s EXCEPT !.overlapped = TRUE].entity = s.entity
             /\ [s EXCEPT !.overlapped = TRUE].gen = s.gen
             /\ [s EXCEPT !.overlapped = TRUE].got = s.got
             /\ [s EXCEPT !.overlapped = TRUE].size = s.size
             /\ [s EXCEPT !.overlapped = TRUE].cacheable = s.cacheable
  BY DEF Recording, Idle
<1>3. ASSUME NEW r \in Reader
      PROVE  /\ reader[r] \in Opened \cup Recording \cup {Idle}
             /\ reader'[r] = IF reader[r] # Idle /\ reader[r].conn = c
                             THEN [reader[r] EXCEPT !.overlapped = TRUE] ELSE reader[r]
  BY <1>3 DEF MarkActive, TypeOK
<1>4. \A r \in Reader :
        \/ reader'[r] = reader[r] /\ ~(reader[r] # Idle /\ reader[r].conn = c)
        \/ /\ reader[r] # Idle /\ reader[r].conn = c /\ reader'[r] # Idle
           /\ reader'[r] \in Opened \cup Recording
           /\ reader'[r].overlapped /\ reader'[r].pc = reader[r].pc
           /\ reader'[r].conn = reader[r].conn /\ reader'[r].entity = reader[r].entity
           /\ reader[r].pc = "reading" =>
                 /\ reader'[r].gen = reader[r].gen /\ reader'[r].got = reader[r].got
                 /\ reader'[r].size = reader[r].size
                 /\ reader'[r].cacheable = reader[r].cacheable
  <2> TAKE r \in Reader
  <2>1. CASE ~(reader[r] # Idle /\ reader[r].conn = c)
    BY <1>3, <2>1
  <2>2. CASE reader[r] # Idle /\ reader[r].conn = c
    <3>1. reader'[r] = [reader[r] EXCEPT !.overlapped = TRUE] /\ reader[r] \in Opened \cup Recording
      BY <1>3, <2>2
    <3> QED BY <1>1, <1>2, <2>2, <3>1
  <2> QED BY <2>1, <2>2
<1>5. reader' = [r \in Reader |-> reader'[r]]
  BY DEF MarkActive
<1>6. \A r \in Reader : reader'[r] \in Opened \cup Recording \cup {Idle}
  BY <1>3, <1>4
<1> QED BY <1>4, <1>5, <1>6

\* A transaction begins: the types are kept.
LEMMA MarkActiveTypes ==
    ASSUME TypeOK, NEW c \in Conn, MarkActive(c), Call,
           branch' \in [Branch -> BranchOf],
           tx' \in [Conn -> {"none", "local"} \cup Branch]
    PROVE  TypeOK'
<1>1. active' \in [Conn -> BOOLEAN] /\ pending' \in [Conn -> SUBSET Entity]
      /\ pendingAll' \in [Conn -> BOOLEAN]
      /\ \A d \in Conn : pendingAll'[d] => pending'[d] = {}
  BY DEF MarkActive, TypeOK
<1>2. calls' \in 0 .. MaxCalls
  BY CallTyped DEF TypeOK
<1>3. reader' \in [Reader -> Opened \cup Recording \cup {Idle}]
  BY ReadersMarked DEF TypeOK
<1> QED BY <1>1, <1>2, <1>3 DEF TypeOK, MarkActive, gens

\* Leaving a branch changes its home alone.
LEMMA LeaveTyped ==
    ASSUME TypeOK, NEW c \in Conn
    PROVE  /\ Leave(c) \in [Branch -> BranchOf]
           /\ \A b \in Branch : /\ Leave(c)[b].state = branch[b].state
                                /\ Leave(c)[b].writes = branch[b].writes
                                /\ Leave(c)[b].told = branch[b].told
                                /\ Leave(c)[b].home = IF branch[b].home = c THEN "none"
                                                      ELSE branch[b].home
<1>1. ASSUME NEW b \in Branch
      PROVE  /\ Leave(c)[b] \in BranchOf
             /\ Leave(c)[b].state = branch[b].state
             /\ Leave(c)[b].writes = branch[b].writes
             /\ Leave(c)[b].told = branch[b].told
             /\ Leave(c)[b].home = IF branch[b].home = c THEN "none" ELSE branch[b].home
  <2>1. branch[b] \in BranchOf
    BY <1>1 DEF TypeOK
  <2>2. Leave(c)[b] = IF branch[b].home = c THEN [branch[b] EXCEPT !.home = "none"] ELSE branch[b]
    BY <1>1 DEF Leave
  <2> QED BY <2>1, <2>2 DEF BranchOf
<1> QED BY <1>1 DEF Leave

\* Begin keeps the types.
LEMMA BeginTypes ==
    ASSUME TypeOK, NEW c \in Conn, Begin(c) PROVE TypeOK'
<1>1. tx' \in [Conn -> {"none", "local"} \cup Branch]
  BY DEF Begin, TypeOK
<1> QED BY <1>1, MarkActiveTypes, LeaveTyped DEF Begin

\* BeginBranch keeps the types.
LEMMA BeginBranchTypes ==
    ASSUME TypeOK, NEW c \in Conn, NEW b \in Branch, BeginBranch(c, b) PROVE TypeOK'
<1>1. tx' \in [Conn -> {"none", "local"} \cup Branch]
  BY DEF BeginBranch, TypeOK
<1>2. [branch[b] EXCEPT !.state = "active", !.home = c] \in BranchOf
  <2>1. branch[b] \in BranchOf
    BY DEF TypeOK
  <2> QED BY <2>1 DEF BranchOf
<1>3. branch' \in [Branch -> BranchOf]
  <2>1. CASE branch' = [Leave(c) EXCEPT ![b] = [branch[b] EXCEPT !.state = "active", !.home = c]]
    BY <1>2, <2>1, LeaveTyped
  <2>2. CASE UNCHANGED branch
    BY <2>2 DEF TypeOK
  <2> QED BY <2>1, <2>2 DEF BeginBranch
<1> QED BY <1>1, <1>3, MarkActiveTypes DEF BeginBranch

\* Commit keeps the types.
LEMMA CommitTypes ==
    ASSUME TypeOK, NEW c \in Conn, Commit(c) PROVE TypeOK'
<1>1. SourceTypes /\ ConnTypes
  BY TypeParts
<1>2. \A ok \in BOOLEAN : [call |-> "commit", ok |-> ok, writes |-> changed[c]] \in Calling
  BY <1>1 DEF SourceTypes, Calling
<1>3. op' \in [Conn -> Calling \cup {NoOp}]
  BY <1>1, <1>2, BegunTyped DEF Commit
<1>4. committed' \in [Entity -> Nat]
  BY <1>1, CommitsTyped DEF Commit
<1>5. tx' \in [Conn -> {"none", "local"} \cup Branch] /\ written' \in [Conn -> SUBSET Entity]
      /\ changed' \in [Conn -> SUBSET Entity]
  BY <1>1, EndTxTyped DEF Commit
<1>6. calls' \in 0 .. MaxCalls
  BY CallTyped DEF Commit, TypeOK
<1> QED BY <1>3, <1>4, <1>5, <1>6 DEF TypeOK, Commit, gens

\* CommitDone keeps the types.
LEMMA CommitDoneTypes ==
    ASSUME TypeOK, NEW c \in Conn, CommitDone(c) PROVE TypeOK'
<1>1. SourceTypes /\ ConnTypes /\ GenTypes /\ acked \in [Entity -> Nat]
  BY TypeParts
<1>3. op' \in [Conn -> Calling \cup {NoOp}]
  BY <1>1, DoneTyped DEF CommitDone
<1>4. GenTypes'
  BY <1>1, PendingTyped DEF CommitDone
<1>5. acked' \in [Entity -> Nat]
  BY <1>1, AckTyped DEF CommitDone
<1>6. ClearActive(c) \/ UNCHANGED <<active, pending, pendingAll>>
  BY DEF CommitDone
<1> QED BY <1>1, <1>3, <1>4, <1>5, <1>6, ClearTyped DEF TypeOK, CommitDone, source, GenTypes

\* Rollback keeps the types.
LEMMA RollbackTypes ==
    ASSUME TypeOK, NEW c \in Conn, Rollback(c) PROVE TypeOK'
<1>1. SourceTypes /\ ConnTypes /\ GenTypes
  BY TypeParts
<1>2. GenTypes'
  BY <1>1, PendingTyped, GenTyped DEF Rollback
<1>3. ClearActive(c) \/ UNCHANGED <<active, pending, pendingAll>>
  BY DEF Rollback
<1>4. EndTx(c) \/ UNCHANGED <<tx, written, changed>>
  BY DEF Rollback
<1>5. calls' \in 0 .. MaxCalls
  BY CallTyped DEF Rollback, TypeOK
<1> QED BY <1>1, <1>2, <1>3, <1>4, <1>5, ClearTyped, EndTxTyped DEF TypeOK, Rollback, GenTypes

\* InTransaction keeps the types.
LEMMA InTransactionTypes ==
    ASSUME TypeOK, NEW c \in Conn, InTransaction(c) PROVE TypeOK'
<1>1. SourceTypes /\ ConnTypes /\ GenTypes
  BY TypeParts
<1>2. GenTypes'
  BY <1>1, PendingTyped, GenTyped DEF InTransaction
<1>3. active' \in [Conn -> BOOLEAN] /\ pending' \in [Conn -> SUBSET Entity]
      /\ pendingAll' \in [Conn -> BOOLEAN]
      /\ \A d \in Conn : pendingAll'[d] => pending'[d] = {}
  <2>1. CASE tx[c] = "none"
    BY <1>1, <2>1, ClearTyped DEF InTransaction
  <2>2. CASE tx[c] # "none"
    BY <1>1, <2>2 DEF InTransaction, ConnTypes
  <2> QED BY <2>1, <2>2
<1>5. calls' \in 0 .. MaxCalls
  BY CallTyped DEF InTransaction, TypeOK
<1> QED BY <1>2, <1>3, <1>5 DEF TypeOK, InTransaction, GenTypes, source

\* Close in the source, field by field.
LEMMA CloseBranches ==
    ASSUME TypeOK, NEW c \in Conn, Close(c)
    PROVE  /\ branch' \in [Branch -> BranchOf]
           /\ \A b \in Branch : /\ branch'[b].state = IF tx[c] = b THEN "rolledBack"
                                                      ELSE branch[b].state
                                /\ branch'[b].writes = branch[b].writes
                                /\ branch'[b].told = branch[b].told
                                /\ branch'[b].home = IF branch[b].home = c THEN "none"
                                                      ELSE branch[b].home
<1>1. ASSUME NEW b \in Branch
      PROVE  /\ branch'[b] \in BranchOf
             /\ branch'[b].state = IF tx[c] = b THEN "rolledBack" ELSE branch[b].state
             /\ branch'[b].writes = branch[b].writes
             /\ branch'[b].told = branch[b].told
             /\ branch'[b].home = IF branch[b].home = c THEN "none" ELSE branch[b].home
  <2>1. branch[b] \in BranchOf
    BY <1>1 DEF TypeOK
  <2>2. branch'[b] = [branch[b] EXCEPT !.state = IF tx[c] = b THEN "rolledBack" ELSE @,
                                       !.home = IF @ = c THEN "none" ELSE @]
    BY <1>1 DEF Close
  <2> QED BY <2>1, <2>2 DEF BranchOf
<1> QED BY <1>1 DEF Close

\* Close keeps the types.
LEMMA CloseTypes ==
    ASSUME TypeOK, NEW c \in Conn, Close(c) PROVE TypeOK'
<1>1. SourceTypes /\ ConnTypes
  BY TypeParts
<1>2. [call |-> "close", ok |-> TRUE, writes |-> changed[c]] \in Calling
  BY <1>1 DEF SourceTypes, Calling
<1>3. op' \in [Conn -> Calling \cup {NoOp}]
  BY <1>1, <1>2, BegunTyped DEF Close
<1>4. committed' \in [Entity -> Nat]
  BY <1>1, CommitsTyped DEF Close
<1>5. tx' \in [Conn -> {"none", "local"} \cup Branch] /\ written' \in [Conn -> SUBSET Entity]
      /\ changed' \in [Conn -> SUBSET Entity]
  BY <1>1, EndTxTyped DEF Close
<1>6. calls' \in 0 .. MaxCalls
  BY CallTyped DEF Close, TypeOK
<1> QED BY <1>3, <1>4, <1>5, <1>6, CloseBranches DEF TypeOK, Close, gens

\* CloseDone keeps the types.
LEMMA CloseDoneTypes ==
    ASSUME TypeOK, NEW c \in Conn, CloseDone(c) PROVE TypeOK'
<1>1. SourceTypes /\ ConnTypes /\ GenTypes /\ acked \in [Entity -> Nat]
  BY TypeParts
<1>3. op' \in [Conn -> Calling \cup {NoOp}]
  BY <1>1, DoneTyped DEF CloseDone
<1>4. GenTypes'
  BY <1>1, PendingTyped, GenTyped DEF CloseDone
<1>5. acked' \in [Entity -> Nat]
  BY <1>1, AckTyped DEF CloseDone
<1>6. open' \in [Conn -> BOOLEAN]
  BY <1>1 DEF CloseDone, ConnTypes
<1> QED BY <1>1, <1>3, <1>4, <1>5, <1>6, ClearTyped DEF TypeOK, CloseDone, source, GenTypes


(***************************************************************************)
(* A branch changes its state.                                             *)
(***************************************************************************)
\* Only branch b changed, to this state, these writes and these known changes.
BranchTo(b, s, W, T) ==
    /\ branch'[b].state = s /\ branch'[b].writes = W /\ branch'[b].told = T
    /\ branch'[b].home = branch[b].home
    /\ \A x \in Branch : x # b => branch'[x] = branch[x]

\* The two ways an action changes one branch.
LEMMA BranchMoves ==
    ASSUME TypeOK, NEW b \in Branch,
           NEW s \in {"none", "active", "prepared", "committed", "rolledBack", "heuristic", "forgotten"},
           NEW W \in SUBSET Entity, NEW T \in SUBSET Entity
    PROVE  /\ branch' = [branch EXCEPT ![b].state = s] =>
                 branch' \in [Branch -> BranchOf] /\ BranchTo(b, s, branch[b].writes, branch[b].told)
           /\ branch' = [branch EXCEPT ![b].state = s, ![b].writes = W, ![b].told = T] =>
                 branch' \in [Branch -> BranchOf] /\ BranchTo(b, s, W, T)
<1>1. branch \in [Branch -> BranchOf] /\ branch[b] \in BranchOf
  BY DEF TypeOK
<1>2. ASSUME branch' = [branch EXCEPT ![b].state = s]
      PROVE  branch' \in [Branch -> BranchOf] /\ BranchTo(b, s, branch[b].writes, branch[b].told)
  <2>1. branch'[b] = [branch[b] EXCEPT !.state = s] /\ \A x \in Branch : x # b => branch'[x] = branch[x]
    BY <1>1, <1>2
  <2>2. [branch[b] EXCEPT !.state = s] \in BranchOf
    BY <1>1 DEF BranchOf
  <2>3. branch' = [branch EXCEPT ![b] = [branch[b] EXCEPT !.state = s]]
    BY <1>2
  <2> QED BY <1>1, <2>1, <2>2, <2>3 DEF BranchTo, BranchOf
<1>3. ASSUME branch' = [branch EXCEPT ![b].state = s, ![b].writes = W, ![b].told = T]
      PROVE  branch' \in [Branch -> BranchOf] /\ BranchTo(b, s, W, T)
  <2>1. branch'[b] = [branch[b] EXCEPT !.state = s, !.writes = W, !.told = T]
        /\ \A x \in Branch : x # b => branch'[x] = branch[x]
    BY <1>1, <1>3
  <2>2. [branch[b] EXCEPT !.state = s, !.writes = W, !.told = T] \in BranchOf
    BY <1>1 DEF BranchOf
  <2>3. branch' = [branch EXCEPT ![b] = branch'[b]]
    BY <1>1, <1>3
  <2>4. branch'[b].state = s /\ branch'[b].home = branch[b].home
        /\ branch'[b].writes = W /\ branch'[b].told = T
    BY <1>1, <2>1 DEF BranchOf
  <2>5. branch' \in [Branch -> BranchOf]
    BY <1>1, <2>1, <2>2, <2>3
  <2> QED BY <2>1, <2>4, <2>5 DEF BranchTo
<1> QED BY <1>2, <1>3

\* The ways a call of PrepareBranch goes in the source.
PrepareReadOnly(c, b) ==
    /\ tx[c] = b /\ op'[c] = [call |-> "prepare", outcome |-> "READ_ONLY", branch |-> b, again |-> FALSE]
    /\ written[c] = {} /\ EndTx(c)
    /\ BranchTo(b, "committed", branch[b].writes, branch[b].told)
PrepareHeld(c, b) ==
    /\ tx[c] = b /\ EndTx(c)
    /\ \E outcome \in {"PREPARED", "error"} :
          op'[c] = [call |-> "prepare", outcome |-> outcome, branch |-> b, again |-> FALSE]
    /\ BranchTo(b, "prepared", written[c], changed[c])
PrepareFailed(c, b) ==
    /\ tx[c] = b /\ UNCHANGED <<branch, tx, written, changed>>
    /\ op'[c] = [call |-> "prepare", outcome |-> "error", branch |-> b, again |-> FALSE]
PrepareAgain(c, b) ==
    /\ tx[c] = "none" /\ branch[b].state = "prepared" /\ branch[b].home = c
    /\ op'[c] = [call |-> "prepare", outcome |-> "PREPARED", branch |-> b, again |-> TRUE]
    /\ UNCHANGED <<branch, tx, written, changed>>

\* PrepareBranch goes one of these ways.
LEMMA PrepareCases ==
    ASSUME TypeOK, NEW c \in Conn, NEW b \in Branch, PrepareBranch(c, b)
    PROVE  /\ PrepareReadOnly(c, b) \/ PrepareHeld(c, b) \/ PrepareFailed(c, b) \/ PrepareAgain(c, b)
           /\ op' = [op EXCEPT ![c] = op'[c]] /\ op'[c] \in Calling
           /\ branch' \in [Branch -> BranchOf]
<1> DEFINE o(x, y) == [call |-> "prepare", outcome |-> x, branch |-> b, again |-> y]
<1>1. \A x \in {"PREPARED", "READ_ONLY", "error"}, y \in BOOLEAN : o(x, y) \in Calling
  BY DEF Calling
<1>2. \A x \in {"PREPARED", "READ_ONLY", "error"}, y \in BOOLEAN :
         Begun(c, o(x, y)) => op'[c] = o(x, y) /\ op' = [op EXCEPT ![c] = op'[c]]
  BY DEF Begun, TypeOK
<1>3. written[c] \in SUBSET Entity /\ changed[c] \in SUBSET Entity /\ branch \in [Branch -> BranchOf]
  BY DEF TypeOK
<1> HIDE DEF o
<1>4. CASE /\ Begun(c, o("READ_ONLY", FALSE)) /\ written[c] = {} /\ tx[c] = b
           /\ branch' = [branch EXCEPT ![b].state = "committed"] /\ EndTx(c)
  <2>1. branch' \in [Branch -> BranchOf] /\ BranchTo(b, "committed", branch[b].writes, branch[b].told)
    BY <1>3, <1>4, BranchMoves
  <2>2. op'[c] = o("READ_ONLY", FALSE) /\ op' = [op EXCEPT ![c] = op'[c]] /\ op'[c] \in Calling
    BY <1>1, <1>2, <1>4
  <2>3. PrepareReadOnly(c, b)
    BY <1>4, <2>1, <2>2 DEF PrepareReadOnly, o
  <2> QED BY <2>1, <2>2, <2>3
<1>5. ASSUME NEW x \in {"PREPARED", "error"}, Begun(c, o(x, FALSE)), tx[c] = b,
             branch' = [branch EXCEPT ![b].state = "prepared", ![b].writes = written[c],
                                      ![b].told = changed[c]], EndTx(c)
      PROVE  /\ PrepareHeld(c, b) /\ op' = [op EXCEPT ![c] = op'[c]] /\ op'[c] \in Calling
             /\ branch' \in [Branch -> BranchOf]
  <2>4. ASSUME NEW s \in {"prepared"} PROVE
           branch' = [branch EXCEPT ![b].state = s, ![b].writes = written[c], ![b].told = changed[c]] =>
               branch' \in [Branch -> BranchOf] /\ BranchTo(b, s, written[c], changed[c])
    <3>1. s \in {"none", "active", "prepared", "committed", "rolledBack", "heuristic", "forgotten"}
      OBVIOUS
    <3> QED BY <1>3, <3>1, BranchMoves, Zenon
  <2>1. branch' \in [Branch -> BranchOf] /\ BranchTo(b, "prepared", written[c], changed[c])
    BY <1>5, <2>4
  <2>2. op'[c] = o(x, FALSE) /\ op' = [op EXCEPT ![c] = op'[c]] /\ op'[c] \in Calling
    BY <1>1, <1>2, <1>5
  <2>3. PrepareHeld(c, b)
    BY <1>5, <2>1, <2>2 DEF PrepareHeld, o
  <2> QED BY <2>1, <2>2, <2>3
<1>6. CASE Begun(c, o("error", FALSE)) /\ tx[c] = b /\ UNCHANGED <<branch, tx, written, changed>>
  <2>2. op'[c] = o("error", FALSE) /\ op' = [op EXCEPT ![c] = op'[c]] /\ op'[c] \in Calling
    BY <1>1, <1>2, <1>6
  <2>3. PrepareFailed(c, b)
    BY <1>6, <2>2 DEF PrepareFailed, o
  <2> QED BY <1>3, <1>6, <2>2, <2>3
<1>7. CASE /\ Begun(c, o("PREPARED", TRUE)) /\ tx[c] = "none" /\ branch[b].state = "prepared"
           /\ branch[b].home = c
           /\ UNCHANGED <<branch, tx, written, changed>>
  <2>2. op'[c] = o("PREPARED", TRUE) /\ op' = [op EXCEPT ![c] = op'[c]] /\ op'[c] \in Calling
    BY <1>1, <1>2, <1>7
  <2>3. PrepareAgain(c, b)
    BY <1>7, <2>2 DEF PrepareAgain, o
  <2> QED BY <1>3, <1>7, <2>2, <2>3
<1> QED BY <1>4, <1>5, <1>6, <1>7 DEF PrepareBranch, o

\* PrepareBranch keeps the types.
LEMMA PrepareBranchTypes ==
    ASSUME TypeOK, NEW c \in Conn, NEW b \in Branch, PrepareBranch(c, b)
    PROVE  TypeOK'
<1>1. SourceTypes /\ ConnTypes
  BY TypeParts
<1>2. op' \in [Conn -> Calling \cup {NoOp}]
  BY <1>1, PrepareCases DEF ConnTypes
<1>3. EndTx(c) \/ UNCHANGED <<tx, written, changed>>
  BY DEF PrepareBranch
<1>4. calls' \in 0 .. MaxCalls
  BY CallTyped DEF PrepareBranch, TypeOK
<1> QED BY <1>1, <1>2, <1>3, <1>4, EndTxTyped, PrepareCases DEF TypeOK, PrepareBranch, gens

\* What retainBranchInvalidation leaves under the branch.
LEMMA RetainTyped ==
    ASSUME TypeOK, NEW c \in Conn, NEW b \in Branch, retainBranchInvalidation(c, b)
    PROVE  /\ retained' \in [Branch -> Retained]
           /\ \A x \in Branch : x # b => retained'[x] = retained[x]
           /\ retained'[b].found
           /\ retained'[b].blank = (retained[b].blank \/ (~retained[b].found /\ ~active[c]))
           /\ retained'[b].all = (pendingAll[c] \/ retained[b].all)
           /\ retained'[b].entities = IF retained'[b].all THEN {}
                                      ELSE retained[b].entities \cup pending[c]
<1> DEFINE all == pendingAll[c] \/ retained[b].all
           blank == retained[b].blank \/ (~retained[b].found /\ ~active[c])
           E == IF all THEN {} ELSE retained[b].entities \cup pending[c]
<1>1. retained' = [retained EXCEPT ![b] = [found |-> TRUE, all |-> all, blank |-> blank, entities |-> E]]
  BY DEF retainBranchInvalidation
<1>2. all \in BOOLEAN /\ E \in SUBSET Entity /\ blank \in BOOLEAN
  <2>1. retained[b] \in Retained
    BY DEF TypeOK
  <2> QED BY <2>1 DEF TypeOK, Retained
<1>3. E = IF all THEN {} ELSE retained[b].entities \cup pending[c]
  OBVIOUS
<1>4. all = (pendingAll[c] \/ retained[b].all)
      /\ blank = (retained[b].blank \/ (~retained[b].found /\ ~active[c]))
  OBVIOUS
<1> HIDE DEF E, all, blank
<1>5. [found |-> TRUE, all |-> all, blank |-> blank, entities |-> E] \in Retained
  BY <1>2 DEF Retained
<1>6. retained'[b] = [found |-> TRUE, all |-> all, blank |-> blank, entities |-> E]
      /\ \A x \in Branch : x # b => retained'[x] = retained[x]
  BY <1>1 DEF TypeOK
<1>7. retained' \in [Branch -> Retained]
  BY <1>1, <1>5 DEF TypeOK
<1>8. retained'[b].found = TRUE /\ retained'[b].all = all /\ retained'[b].entities = E
      /\ retained'[b].blank = blank
  BY <1>6
<1> QED BY <1>3, <1>4, <1>6, <1>7, <1>8

\* PrepareDone keeps the types.
LEMMA PrepareDoneTypes ==
    ASSUME TypeOK, NEW c \in Conn, PrepareDone(c) PROVE TypeOK'
<1>1. SourceTypes /\ ConnTypes /\ GenTypes
  BY TypeParts
<1>2. op[c].branch \in Branch
  BY OpFields DEF PrepareDone, TypeOK
<1>3. op' \in [Conn -> Calling \cup {NoOp}]
  BY <1>1, DoneTyped DEF PrepareDone
<1>4. GenTypes'
  BY <1>1, PendingTyped, GenTyped DEF PrepareDone
<1>5. ClearActive(c) \/ UNCHANGED <<active, pending, pendingAll>>
  BY DEF PrepareDone
<1>6. retained' \in [Branch -> Retained]
  BY <1>2, RetainTyped DEF PrepareDone, TypeOK
<1> QED BY <1>1, <1>3, <1>4, <1>5, <1>6, ClearTyped DEF TypeOK, PrepareDone, source, GenTypes


\* The ways a resolution by the connection goes in the source.
ResolveEnds(c, b, goal) ==
    /\ tx[c] = b /\ EndTx(c)
    /\ \E outcome \in {goal, "error"} :
          op'[c] = [call |-> "resolve", outcome |-> outcome, writes |-> changed[c]]
    /\ BranchTo(b, goal, written[c], changed[c])
    /\ IF goal = "committed" THEN Commits(written[c]) ELSE UNCHANGED committed
ResolveFails(c, b) ==
    /\ tx[c] = b /\ UNCHANGED <<branch, committed, tx, written, changed>>
    /\ op'[c] = [call |-> "resolve", outcome |-> "error", writes |-> changed[c]]
ResolveAgain(c, b) ==
    /\ tx[c] = "none" /\ branch[b].home = c
    /\ branch[b].state \in {"committed", "rolledBack"}
    /\ op'[c] = [call |-> "resolve", outcome |-> branch[b].state,
                writes |-> IF active[c] THEN branch[b].told ELSE {}]
    /\ UNCHANGED <<branch, committed, tx, written, changed>>

\* CommitBranch and RollbackBranch of a connection go one of these ways.
LEMMA ResolveBranchCases ==
    ASSUME TypeOK, NEW c \in Conn, NEW b \in Branch, NEW goal \in {"committed", "rolledBack"},
           ResolveBranch(c, b, goal)
    PROVE  /\ ResolveEnds(c, b, goal) \/ ResolveFails(c, b) \/ ResolveAgain(c, b)
           /\ op' = [op EXCEPT ![c] = op'[c]] /\ op'[c] \in Calling
           /\ branch' \in [Branch -> BranchOf]
<1> DEFINE o(x, W) == [call |-> "resolve", outcome |-> x, writes |-> W]
<1>0. branch[b] \in BranchOf
  BY DEF TypeOK
<1>1. written[c] \in SUBSET Entity /\ changed[c] \in SUBSET Entity
      /\ branch[b].told \in SUBSET Entity /\ branch \in [Branch -> BranchOf]
  BY <1>0 DEF TypeOK, BranchOf
<1>2. \A x \in {"committed", "rolledBack", "error"}, W \in SUBSET Entity :
         o(x, W) \in Calling
  BY DEF Calling
<1>3. \A x, W : Begun(c, o(x, W)) => op'[c] = o(x, W) /\ op' = [op EXCEPT ![c] = op'[c]]
  BY DEF Begun, TypeOK
<1> HIDE DEF o
<1>4. ASSUME NEW x \in {goal, "error"}, Begun(c, o(x, changed[c])), tx[c] = b,
             branch' = [branch EXCEPT ![b].state = goal, ![b].writes = written[c],
                                      ![b].told = changed[c]],
             IF goal = "committed" THEN Commits(written[c]) ELSE UNCHANGED committed,
             EndTx(c)
      PROVE  /\ ResolveEnds(c, b, goal) /\ op' = [op EXCEPT ![c] = op'[c]] /\ op'[c] \in Calling
             /\ branch' \in [Branch -> BranchOf]
  <2>4. goal \in {"none", "active", "prepared", "committed", "rolledBack", "heuristic", "forgotten"}
    OBVIOUS
  <2>1. branch' \in [Branch -> BranchOf] /\ BranchTo(b, goal, written[c], changed[c])
    BY <1>1, <1>4, <2>4, BranchMoves, Zenon
  <2>2. op'[c] = o(x, changed[c]) /\ op' = [op EXCEPT ![c] = op'[c]] /\ op'[c] \in Calling
    BY <1>1, <1>2, <1>3, <1>4
  <2>3. ResolveEnds(c, b, goal)
    BY <1>4, <2>1, <2>2 DEF ResolveEnds, o
  <2> QED BY <2>1, <2>2, <2>3
<1>5. CASE Begun(c, o("error", changed[c])) /\ tx[c] = b /\ UNCHANGED <<branch, committed, tx, written, changed>>
  <2>2. op'[c] = o("error", changed[c]) /\ op' = [op EXCEPT ![c] = op'[c]] /\ op'[c] \in Calling
    BY <1>1, <1>2, <1>3, <1>5
  <2>3. ResolveFails(c, b)
    BY <1>5, <2>2 DEF ResolveFails, o
  <2> QED BY <1>1, <1>5, <2>2, <2>3
<1>6. CASE /\ Begun(c, o(branch[b].state, IF active[c] THEN branch[b].told ELSE {}))
           /\ tx[c] = "none" /\ branch[b].home = c
           /\ branch[b].state \in {"committed", "rolledBack"}
           /\ UNCHANGED <<branch, committed, tx, written, changed>>
  <2>1. PICK W \in SUBSET Entity : W = IF active[c] THEN branch[b].told ELSE {}
    BY <1>1
  <2>2. op'[c] = o(branch[b].state, W) /\ op' = [op EXCEPT ![c] = op'[c]] /\ op'[c] \in Calling
    BY <1>2, <1>3, <1>6, <2>1
  <2>3. ResolveAgain(c, b)
    BY <1>6, <2>1, <2>2 DEF ResolveAgain, o
  <2> QED BY <1>1, <1>6, <2>2, <2>3
<1> QED BY <1>4, <1>5, <1>6 DEF ResolveBranch, o, source

\* ResolveBranch keeps the types.
LEMMA ResolveBranchTypes ==
    ASSUME TypeOK, NEW c \in Conn, NEW b \in Branch, NEW goal \in {"committed", "rolledBack"},
           ResolveBranch(c, b, goal)
    PROVE  TypeOK'
<1>1. SourceTypes /\ ConnTypes
  BY TypeParts
<1>2. op' \in [Conn -> Calling \cup {NoOp}]
  BY <1>1, ResolveBranchCases DEF ConnTypes
<1>3. EndTx(c) \/ UNCHANGED <<tx, written, changed>>
  BY DEF ResolveBranch, source
<1>4. calls' \in 0 .. MaxCalls
  BY CallTyped DEF ResolveBranch, TypeOK
<1>5. committed' \in [Entity -> Nat]
  BY <1>1, CommitsTyped DEF ResolveBranch, source
<1> QED BY <1>1, <1>2, <1>3, <1>4, <1>5, EndTxTyped, ResolveBranchCases DEF TypeOK, ResolveBranch, gens

\* ResolveBranchDone keeps the types.
LEMMA ResolveBranchDoneTypes ==
    ASSUME TypeOK, NEW c \in Conn, ResolveBranchDone(c) PROVE TypeOK'
<1>1. SourceTypes /\ ConnTypes /\ GenTypes /\ acked \in [Entity -> Nat]
  BY TypeParts
<1>3. op' \in [Conn -> Calling \cup {NoOp}]
  BY <1>1, DoneTyped DEF ResolveBranchDone
<1>4. GenTypes'
  BY <1>1, PendingTyped, GenTyped DEF ResolveBranchDone
<1>5. acked' \in [Entity -> Nat]
  BY <1>1, AckTyped DEF ResolveBranchDone
<1>6. ClearActive(c) \/ UNCHANGED <<active, pending, pendingAll>>
  BY DEF ResolveBranchDone
<1> QED BY <1>1, <1>3, <1>4, <1>5, <1>6, ClearTyped DEF TypeOK, ResolveBranchDone, source, GenTypes

(***************************************************************************)
(* Types of the recovery manager's calls and of the rest.                  *)
(***************************************************************************)
\* A resolution through the recovery manager: what it does to the branch and
\* what its caller knows.
Resolved(w, b) ==
    \E s \in {"none", "active", "prepared", "committed", "rolledBack", "heuristic", "forgotten"},
       ok, inv \in BOOLEAN, W \in {branch[b].told, {}} :
       /\ BranchTo(b, s, branch[b].writes, branch[b].told)
       /\ s # branch[b].state => branch[b].state = "prepared" /\ s \in {"committed", "rolledBack"}
       /\ worker' = [worker EXCEPT ![w] = [pc |-> "called", branch |-> b, invalidate |-> inv,
                                           ok |-> ok, writes |-> W]]
       /\ W # {} => s \in {"committed", "heuristic"} /\ inv

\* A resolution by the recovery manager in the source.
LEMMA ResolveCases ==
    ASSUME TypeOK, NEW w \in Worker, NEW b \in Branch, NEW goal \in {"committed", "rolledBack"},
           Resolve(w, b, goal)
    PROVE  /\ Resolved(w, b) /\ branch' \in [Branch -> BranchOf]
           /\ Commits(branch[b].writes) \/ UNCHANGED committed
<1> DEFINE called(s, ok) ==
        [pc |-> "called", branch |-> b, ok |-> ok,
         invalidate |-> ~ok \/ s # "rolledBack",
         writes |-> IF ok /\ s \in {"committed", "heuristic"} THEN branch[b].told ELSE {}]
<1>1. branch[b] \in BranchOf /\ branch[b].state \in {"none", "active", "prepared", "committed",
                      "rolledBack", "heuristic", "forgotten"} /\ {} \in SUBSET Entity
  BY DEF TypeOK, BranchOf
<1>2. PICK s \in {branch[b].state, goal}, ok \in BOOLEAN :
        /\ branch' = [branch EXCEPT ![b].state = s]
        /\ worker' = [worker EXCEPT ![w] = called(s, ok)]
        /\ s # branch[b].state => branch[b].state = "prepared" /\ s \in {"committed", "rolledBack"}
  BY DEF Resolve
<1>3. s \in {"none", "active", "prepared", "committed", "rolledBack", "heuristic", "forgotten"}
  BY <1>1, <1>2
<1>4. BranchTo(b, s, branch[b].writes, branch[b].told) /\ branch' \in [Branch -> BranchOf]
  BY <1>1, <1>2, <1>3, BranchMoves
<1> DEFINE inv == (~ok \/ s # "rolledBack")
           W == IF ok /\ s \in {"committed", "heuristic"} THEN branch[b].told ELSE {}
<1>5. /\ worker' = [worker EXCEPT ![w] = [pc |-> "called", branch |-> b, invalidate |-> inv,
                                           ok |-> ok, writes |-> W]]
  BY <1>2
<1>6. inv \in BOOLEAN /\ W \in {branch[b].told, {}}
  OBVIOUS
<1>7. W # {} => s \in {"committed", "heuristic"} /\ inv
  OBVIOUS
<1> HIDE DEF inv, W
<1>8. Resolved(w, b)
  BY <1>2, <1>3, <1>4, <1>5, <1>6, <1>7 DEF Resolved
<1> QED BY <1>4, <1>8 DEF Resolve

\* Resolve keeps the types.
LEMMA ResolveTypes ==
    ASSUME TypeOK, NEW w \in Worker, NEW b \in Branch, NEW goal \in {"committed", "rolledBack"},
           Resolve(w, b, goal)
    PROVE  TypeOK'
<1>1. SourceTypes
  BY TypeParts
<1>2. committed' \in [Entity -> Nat]
  BY <1>1, ResolveCases, CommitsTyped
<1>3. worker' \in [Worker -> Task \cup {Idle}]
  <2>1. branch[b] \in BranchOf
    BY DEF TypeOK
  <2>2. {branch[b].told, {}} \subseteq SUBSET Entity
    BY <2>1 DEF BranchOf
  <2>3. \A ok, inv \in BOOLEAN, W \in SUBSET Entity :
          [pc |-> "called", branch |-> b, invalidate |-> inv, ok |-> ok, writes |-> W] \in Task
    BY DEF Task
  <2>4. Resolved(w, b)
    BY ResolveCases
  <2>5. PICK ok \in BOOLEAN, inv \in BOOLEAN, W \in {branch[b].told, {}} :
          worker' = [worker EXCEPT ![w] = [pc |-> "called", branch |-> b, invalidate |-> inv,
                                           ok |-> ok, writes |-> W]]
    BY <2>4 DEF Resolved
  <2>6. [pc |-> "called", branch |-> b, invalidate |-> inv, ok |-> ok, writes |-> W] \in Task
    BY <2>2, <2>3
  <2> QED BY <2>5, <2>6 DEF TypeOK
<1>4. calls' \in 0 .. MaxCalls
  BY CallTyped DEF Resolve, TypeOK
<1> QED BY <1>2, <1>3, <1>4, ResolveCases DEF TypeOK, Resolve, conns, gens

\* ResolveTake keeps the types.
LEMMA ResolveTakeTypes ==
    ASSUME TypeOK, NEW w \in Worker, ResolveTake(w) PROVE TypeOK'
<1> DEFINE t == worker[w]
<1>1. t.branch \in Branch /\ t.ok \in BOOLEAN /\ t.writes \in SUBSET Entity
  BY TaskFields DEF TypeOK, ResolveTake
<1>2. retained[t.branch] \in Retained
  BY <1>1 DEF TypeOK
<1>3. [pc |-> "taken", pend |-> retained[t.branch], ok |-> t.ok, writes |-> t.writes] \in Task
  BY <1>1, <1>2 DEF Task
<1>4. worker' \in [Worker -> Task \cup {Idle}]
  BY <1>3 DEF ResolveTake, TypeOK
<1>5. NotRetained \in Retained
  BY DEF NotRetained, Retained
<1>6. retained' \in [Branch -> Retained]
  BY <1>5 DEF ResolveTake, TypeOK
<1> QED BY <1>4, <1>6 DEF TypeOK, ResolveTake, source, conns, gens

\* ResolveInvalidate keeps the types.
LEMMA ResolveInvalidateTypes ==
    ASSUME TypeOK, NEW w \in Worker, ResolveInvalidate(w) PROVE TypeOK'
<1> DEFINE t == worker[w]
<1>0. SourceTypes /\ GenTypes /\ acked \in [Entity -> Nat]
  BY TypeParts
<1>1. t.pend \in Retained
  BY TaskFields DEF TypeOK, ResolveInvalidate
<1>2. t.pend.entities \in SUBSET Entity
  BY <1>1 DEF Retained
<1>3. GenTypes'
  BY <1>0, <1>2, GenTyped DEF ResolveInvalidate
<1>4. acked' \in [Entity -> Nat]
  BY <1>0, AckTyped DEF ResolveInvalidate
<1>5. worker' \in [Worker -> Task \cup {Idle}]
  BY DEF ResolveInvalidate, TypeOK
<1> QED BY <1>3, <1>4, <1>5 DEF TypeOK, ResolveInvalidate, source, conns, GenTypes

\* Forget keeps the types.
LEMMA ForgetTypes ==
    ASSUME TypeOK, NEW w \in Worker, NEW b \in Branch, Forget(w, b) PROVE TypeOK'
<1>1. [pc |-> "forgotten", branch |-> b] \in Task
  BY DEF Task
<1>2. worker' \in [Worker -> Task \cup {Idle}]
  BY <1>1 DEF Forget, TypeOK
<1>3. branch' \in [Branch -> BranchOf]
  <2>1. {} \in SUBSET Entity
    OBVIOUS
  <2> QED BY <2>1, BranchMoves DEF Forget
<1>4. calls' \in 0 .. MaxCalls
  BY CallTyped DEF Forget, TypeOK
<1> QED BY <1>2, <1>3, <1>4 DEF TypeOK, Forget, conns, gens

\* ForgetDone keeps the types.
LEMMA ForgetDoneTypes ==
    ASSUME TypeOK, NEW w \in Worker, ForgetDone(w) PROVE TypeOK'
<1>1. NotRetained \in Retained
  BY DEF NotRetained, Retained
<1>2. retained' \in [Branch -> Retained] /\ worker' \in [Worker -> Task \cup {Idle}]
  BY <1>1 DEF ForgetDone, TypeOK
<1> QED BY <1>2 DEF TypeOK, ForgetDone, source, conns, gens

\* SourceChange keeps the types.
LEMMA SourceChangeTypes ==
    ASSUME TypeOK, NEW e \in Entity, SourceChange(e) PROVE TypeOK'
<1>1. committed' \in [Entity -> Nat]
  BY TypeParts, CommitsTyped DEF SourceChange
<1>2. calls' \in 0 .. MaxCalls
  BY CallTyped DEF SourceChange, TypeOK
<1> QED BY <1>1, <1>2 DEF TypeOK, SourceChange, conns, gens

\* Heuristic keeps the types.
LEMMA HeuristicTypes ==
    ASSUME TypeOK, NEW b \in Branch, Heuristic(b) PROVE TypeOK'
<1>1. committed' \in [Entity -> Nat]
  BY TypeParts, CommitsTyped DEF Heuristic
<1>2. calls' \in 0 .. MaxCalls
  BY CallTyped DEF Heuristic, TypeOK
<1>3. branch' \in [Branch -> BranchOf]
  <2>1. {} \in SUBSET Entity
    OBVIOUS
  <2> QED BY <2>1, BranchMoves DEF Heuristic
<1> QED BY <1>1, <1>2, <1>3 DEF TypeOK, Heuristic, conns, gens

\* Invalidate keeps the types.
LEMMA InvalidateTypes ==
    ASSUME TypeOK, (\E E \in SUBSET Entity : Invalidate(E)) \/ InvalidateAll PROVE TypeOK'
<1>1. SourceTypes /\ GenTypes /\ acked \in [Entity -> Nat]
  BY TypeParts
<1>2. GenTypes'
  BY <1>1, GenTyped DEF Invalidate, InvalidateAll
<1>3. acked' \in [Entity -> Nat]
  BY <1>1, AckTyped DEF Invalidate, InvalidateAll
<1>4. calls' \in 0 .. MaxCalls
  BY CallTyped DEF Invalidate, InvalidateAll, TypeOK
<1> QED BY <1>2, <1>3, <1>4 DEF TypeOK, Invalidate, InvalidateAll, source, conns, GenTypes

\* Every step keeps the types.
LEMMA TypeStep ==
    ASSUME TypeOK, [Next]_vars PROVE TypeOK'
<1>1. CASE UNCHANGED vars
  BY <1>1 DEF vars, source, conns, gens, TypeOK
<1>2. ASSUME NEW r \in Reader, ReaderStep(r) PROVE TypeOK'
  BY <1>2, QueryCheckTypes, QueryLookupTypes, NextBatchTypes, CloseStreamTypes DEF ReaderStep
<1>3. ASSUME NEW c \in Conn, ConnStep(c) PROVE TypeOK'
  BY <1>3, OpenTypes, MutateTypes, MutateDoneTypes, BeginTypes, BeginBranchTypes, CommitTypes,
     CommitDoneTypes, RollbackTypes, InTransactionTypes, CloseTypes, CloseDoneTypes,
     PrepareBranchTypes, PrepareDoneTypes, ResolveBranchTypes, ResolveBranchDoneTypes DEF ConnStep
<1>4. ASSUME NEW w \in Worker, WorkerStep(w) PROVE TypeOK'
  BY <1>4, ResolveTypes, ResolveTakeTypes, ResolveInvalidateTypes, ForgetTypes, ForgetDoneTypes
     DEF WorkerStep
<1> QED BY <1>1, <1>2, <1>3, <1>4, SourceChangeTypes, HeuristicTypes, InvalidateTypes DEF Next


(***************************************************************************)
(* Freshness.                                                              *)
(***************************************************************************)
\* A query that reads a changed entity is invalidated with it.
LEMMA ReadersExpanded ==
    ASSUME NEW E \in SUBSET Entity, NEW q \in Entity, NEW e \in Reads[q], e \in E
    PROVE  q \in expandEntities(E)
<1>1. q \in expandEntities({e})
  BY CacheAssumption
<1> QED BY <1>1 DEF expandEntities

\* What is invalidated reaches every query that reads an entity of W.
Covers(W) ==
    \/ W = {} /\ UNCHANGED gens
    \/ invalidateAll
    \/ \E E \in SUBSET Entity : W \subseteq E /\ invalidateEntities(E)

\* A result stays fresh when the invalidation reaches what is acknowledged.
LEMMA FreshKept ==
    ASSUME TypeOK, TypeOK', NEW W, Covers(W),
           \A e \in Entity : acked[e] <= committed[e],
           \A e \in Entity : acked'[e] = acked[e] \/ e \in W,
           NEW x, x.entity \in Entity, x.gen \in Generation, x.got \in Versions,
           FreshAt(x, globalGeneration, entityGenerations, acked)
    PROVE  FreshAt(x, globalGeneration', entityGenerations', acked')
<1>0. /\ x.gen.global \in Nat /\ x.gen.entity \in Nat
      /\ Reads[x.entity] \subseteq Entity
  BY CacheAssumption DEF Generation
<1>1. CASE W = {} /\ UNCHANGED gens
  BY <1>0, <1>1 DEF FreshAt, gens
<1>2. CASE invalidateAll
  BY <1>2, <1>0 DEF invalidateAll, FreshAt, TypeOK
<1>3. ASSUME NEW E \in SUBSET Entity, W \subseteq E, invalidateEntities(E)
      PROVE  FreshAt(x, globalGeneration', entityGenerations', acked')
  <2>1. CASE x.entity \in expandEntities(E)
    <3>1. entityGenerations'[x.entity] = entityGenerations[x.entity] + 1
          /\ entityGenerations[x.entity] \in Nat /\ globalGeneration' = globalGeneration
      BY <1>3, <2>1 DEF invalidateEntities, TypeOK
    <3> QED BY <3>1, <1>0 DEF FreshAt
  <2>2. CASE x.entity \notin expandEntities(E)
    <3>1. entityGenerations'[x.entity] = entityGenerations[x.entity]
          /\ globalGeneration' = globalGeneration
      BY <1>3, <2>2 DEF invalidateEntities
    <3>2. \A e \in Reads[x.entity] : acked'[e] = acked[e]
      BY <1>0, <1>3, <2>2, ReadersExpanded
    <3> QED BY <3>1, <3>2 DEF FreshAt
  <2> QED BY <2>1, <2>2
<1> QED BY <1>1, <1>2, <1>3 DEF Covers

\* The part of FreshInv that is about results.
AllFresh(rd, st, g, eg, ak) ==
    /\ \A r \in Reader : rd[r].pc = "reading" => FreshAt(rd[r], g, eg, ak)
    /\ \A i \in DOMAIN st : FreshAt(st[i], g, eg, ak) /\ ToRead(st[i]) = {}

\* FreshInv in this and in the next state.
LEMMA FreshParts ==
    /\ FreshInv <=> /\ \A e \in Entity : acked[e] <= committed[e]
                    /\ AllFresh(reader, store, globalGeneration, entityGenerations, acked)
    /\ FreshInv' <=> /\ \A e \in Entity : acked'[e] <= committed'[e]
                     /\ AllFresh(reader', store', globalGeneration', entityGenerations', acked')
  BY DEF FreshInv, AllFresh, Fresh

\* The entries of the store are entries.
LEMMA EntryFields ==
    ASSUME TypeOK, NEW i \in DOMAIN store
    PROVE  store[i] \in Entry /\ store[i].entity \in Entity /\ store[i].gen \in Generation /\ store[i].got \in Versions
<1>1. store[i] \in Entry
  BY DEF TypeOK
<1> QED BY <1>1 DEF Entry

\* Steps that leave the store alone, and of the queries what they have read.
LEMMA FreshStep ==
    ASSUME TypeOK, TypeOK', FreshInv, UNCHANGED store, NEW W, Covers(W),
           \A e \in Entity : acked'[e] = acked[e] \/ (e \in W /\ acked'[e] = committed[e]),
           \A r \in Reader : reader'[r].pc = "reading" =>
              /\ reader[r].pc = "reading" /\ reader'[r].entity = reader[r].entity
              /\ reader'[r].gen = reader[r].gen /\ reader'[r].got = reader[r].got,
           \A e \in Entity : committed[e] <= committed'[e]
    PROVE  FreshInv'
<1>1. /\ \A e \in Entity : acked[e] <= committed[e]
      /\ AllFresh(reader, store, globalGeneration, entityGenerations, acked)
  BY FreshParts
<1>2. \A e \in Entity : acked'[e] <= committed'[e]
  <2> TAKE e \in Entity
  <2>1. acked[e] \in Nat /\ acked'[e] \in Nat /\ committed[e] \in Nat /\ committed'[e] \in Nat
    BY DEF TypeOK
  <2>2. acked[e] <= committed[e] /\ committed[e] <= committed'[e]
        /\ (acked'[e] = acked[e] \/ acked'[e] = committed[e])
    BY <1>1
  <2> QED BY <2>1, <2>2
<1>3. ASSUME NEW r \in Reader, reader'[r].pc = "reading"
      PROVE  FreshAt(reader'[r], globalGeneration', entityGenerations', acked')
  <2>1. reader[r].entity \in Entity /\ reader[r].gen \in Generation /\ reader[r].got \in Versions
    BY <1>3, ReaderFields DEF TypeOK
  <2>2. FreshAt(reader[r], globalGeneration', entityGenerations', acked')
    BY <1>1, <1>3, <2>1, FreshKept DEF AllFresh
  <2> QED BY <1>3, <2>2 DEF FreshAt
<1>4. ASSUME NEW i \in DOMAIN store
      PROVE  FreshAt(store[i], globalGeneration', entityGenerations', acked') /\ ToRead(store[i]) = {}
  BY <1>1, EntryFields, FreshKept DEF AllFresh
<1>5. AllFresh(reader', store', globalGeneration', entityGenerations', acked')
  BY <1>3, <1>4 DEF AllFresh
<1> QED BY <1>2, <1>5, FreshParts

\* Steps of a reader change no generation and acknowledge nothing.
LEMMA FreshLookup ==
    ASSUME TypeOK, FreshInv, NEW r \in Reader, QueryLookup(r)
    PROVE  FreshInv'
<1> DEFINE q == reader[r].entity
<1>1. /\ \A e \in Entity : acked[e] <= committed[e]
      /\ AllFresh(reader, store, globalGeneration, entityGenerations, acked)
  BY FreshParts
<1>2. q \in Entity
  BY ReaderFields DEF TypeOK, QueryLookup
<1>3. \A k \in DOMAIN store' : \E j \in DOMAIN store : store'[k] = store[j]
  <2>1. store \in Seq(Entry)
    BY DEF TypeOK
  <2>2. ASSUME NEW i \in Hit(q), store' = <<store[i]>> \o Without(store[i])
        PROVE  \A k \in DOMAIN store' : \E j \in DOMAIN store : store'[k] = store[j]
    BY <2>1, <2>2, FrontKeeps DEF Hit, PlacesOf
  <2>3. CASE store' = Without([entity |-> q, gen |-> generation(q)])
    BY <2>1, <2>3, WithoutKeeps
  <2> QED BY <2>2, <2>3 DEF QueryLookup
<1>4. UNCHANGED <<committed, acked, gens>>
  BY DEF QueryLookup, source
<1>5. \A i \in DOMAIN store' : FreshAt(store'[i], globalGeneration, entityGenerations, acked)
                               /\ ToRead(store'[i]) = {}
  BY <1>1, <1>3 DEF AllFresh
<1>6. \A p \in Reader : p # r => reader'[p] = reader[p]
  BY DEF QueryLookup, TypeOK
<1>7. reader'[r].pc = "reading" => FreshAt(reader'[r], globalGeneration, entityGenerations, acked)
  <2>1. CASE reader'[r] = Idle
    BY <2>1 DEF Idle
  <2>2. CASE reader'[r] = [pc |-> "reading", conn |-> reader[r].conn, entity |-> q,
                           gen |-> generation(q), got |-> [e \in Entity |-> Unread],
                           dirty |-> FALSE, overlapped |-> reader[r].overlapped, size |-> 0, cacheable |-> TRUE]
    <3>1. \A e \in Reads[q] : [x \in Entity |-> Unread][e] = Unread
      BY <1>2, CacheAssumption
    <3>2. reader'[r].gen = generation(q) /\ reader'[r].entity = q
          /\ reader'[r].got = [x \in Entity |-> Unread]
      BY <2>2
    <3>3. reader'[r].gen.global = globalGeneration /\ reader'[r].gen.entity = entityGenerations[q]
      BY <3>2 DEF generation
    <3>4. globalGeneration \in Nat /\ entityGenerations[q] \in Nat
      BY <1>2 DEF TypeOK
    <3> QED BY <3>1, <3>2, <3>3, <3>4 DEF FreshAt
  <2> QED BY <2>1, <2>2 DEF QueryLookup, TypeOK
<1>8. AllFresh(reader', store', globalGeneration, entityGenerations, acked)
  BY <1>1, <1>5, <1>6, <1>7 DEF AllFresh
<1> QED BY <1>1, <1>4, <1>8, FreshParts DEF gens

\* A batch read now is as new as anything acknowledged.
LEMMA FreshBatch ==
    ASSUME TypeOK, FreshInv, NEW r \in Reader, NextBatch(r)
    PROVE  FreshInv'
<1>1. /\ \A e \in Entity : acked[e] <= committed[e]
      /\ AllFresh(reader, store, globalGeneration, entityGenerations, acked)
  BY FreshParts
<1>2. PICK e \in Entity :
        /\ reader[r] \in Recording /\ reader'[r] \in Recording
        /\ reader'[r].got = [reader[r].got EXCEPT ![e] = committed[e]]
        /\ reader'[r].gen = reader[r].gen /\ reader'[r].entity = reader[r].entity
        /\ reader' = [reader EXCEPT ![r] = reader'[r]]
  BY NextBatchReads
<1>3. UNCHANGED <<committed, acked, gens, store>>
  BY DEF NextBatch, source
<1>4. \A p \in Reader : p # r => reader'[p] = reader[p]
  BY <1>2 DEF TypeOK
<1>5. reader[r].pc = "reading" /\ reader[r].got \in Versions /\ reader[r].entity \in Entity
  BY <1>2 DEF Recording
<1>6. FreshAt(reader[r], globalGeneration, entityGenerations, acked)
  BY <1>1, <1>5 DEF AllFresh
<1>7. Reads[reader[r].entity] \subseteq Entity
  BY <1>5, CacheAssumption
<1>8. \A x \in Entity : reader'[r].got[x] = IF x = e THEN committed[e] ELSE reader[r].got[x]
  BY <1>2, <1>5 DEF Versions
<1>9. committed[e] >= acked[e] /\ committed[e] \in Nat /\ acked[e] \in Nat
  BY <1>1 DEF TypeOK
<1>10. FreshAt(reader'[r], globalGeneration, entityGenerations, acked)
  BY <1>2, <1>6, <1>7, <1>8, <1>9 DEF FreshAt
<1>11. AllFresh(reader', store', globalGeneration, entityGenerations, acked)
  BY <1>1, <1>3, <1>4, <1>10 DEF AllFresh
<1> QED BY <1>1, <1>3, <1>11, FreshParts DEF gens

\* A whole result that is stored was fresh while it was recorded.
LEMMA FreshClose ==
    ASSUME TypeOK, FreshInv, NEW r \in Reader, CloseStream(r)
    PROVE  FreshInv'
<1>1. /\ \A e \in Entity : acked[e] <= committed[e]
      /\ AllFresh(reader, store, globalGeneration, entityGenerations, acked)
  BY FreshParts
<1>2. UNCHANGED <<committed, acked, gens>>
  BY DEF CloseStream, source
<1>3. \A p \in Reader : reader'[p] = IF p = r THEN Idle ELSE reader[p]
  BY DEF CloseStream, TypeOK
<1>4. FreshAt(reader[r], globalGeneration, entityGenerations, acked)
  BY <1>1 DEF AllFresh, CloseStream
<1>5. FreshAt(EntryOf(reader[r]), globalGeneration, entityGenerations, acked)
  BY <1>4 DEF FreshAt, EntryOf
<1>6. ToRead(reader[r]) = {} => ToRead(EntryOf(reader[r])) = {}
  BY DEF ToRead, EntryOf
<1>7. \A i \in DOMAIN store' : FreshAt(store'[i], globalGeneration, entityGenerations, acked)
                               /\ ToRead(store'[i]) = {}
  BY <1>1, <1>5, <1>6, CloseStreamStores DEF AllFresh
<1>8. AllFresh(reader', store', globalGeneration, entityGenerations, acked)
  BY <1>1, <1>3, <1>7 DEF AllFresh, Idle
<1> QED BY <1>1, <1>2, <1>8, FreshParts DEF gens


(***************************************************************************)
(* What a step leaves alone.                                               *)
(***************************************************************************)
\* What c has noted only grows.
Grows(c) == \/ pendingAll'[c]
            \/ pendingAll'[c] = pendingAll[c] /\ pending[c] \subseteq pending'[c]

\* What was noted stays noted.
LEMMA NotedGrows ==
    ASSUME NEW c, NEW W, Grows(c), Noted(c, W)
    PROVE  Noted(c, W)'
  BY DEF Grows, Noted

\* A connection the step does not touch.
LEMMA ConnFrame ==
    ASSUME NEW c \in Conn, TxInv(c), NotedInv(c),
           tx'[c] = tx[c], written'[c] = written[c], changed'[c] = changed[c],
           active'[c] = active[c],
           pending'[c] = pending[c], pendingAll'[c] = pendingAll[c], op'[c] = op[c],
           \A b \in Branch : tx[c] = b => branch'[b].home = c /\ branch'[b].state = "active"
    PROVE  TxInv(c)' /\ NotedInv(c)'
<1>1. TxInv(c)'
  BY DEF TxInv, Ended
<1>2. NotedInv(c)'
  BY DEF NotedInv, Noted
<1> QED BY <1>1, <1>2

\* What c notes of its branches is kept, or it is not active any more.
Keeps(c) == active'[c] => active[c] /\ Grows(c)

\* A branch the step does not touch.
LEMMA BranchFrame ==
    ASSUME NEW b \in Branch, BranchInv(b),
           branch'[b].state = branch[b].state, branch'[b].told = branch[b].told,
           branch'[b].home = branch[b].home, retained'[b] = retained[b],
           \A c \in Conn : branch[b].home = c => Keeps(c),
           \A c \in Conn : op'[c].call = "prepare" => op'[c] = op[c] /\ active'[c] = active[c]
    PROVE  BranchInv(b)'
<1>1. \A c \in Conn : PrepareInv(b, c)'
  BY DEF BranchInv, PrepareInv
<1>2. ASSUME NEW c \in Conn, branch[b].home = c, active'[c]
      PROVE  Noted(c, branch[b].told)'
  <2>1. Noted(c, branch[b].told) /\ Grows(c)
    BY <1>2 DEF BranchInv, Keeps
  <2> QED BY <2>1 DEF Noted, Grows
<1> QED BY <1>1, <1>2 DEF BranchInv, Holds, Noted

\* A branch that a recovery caller has resolved stays as it is.
Stays(b) ==
    branch[b].state \in {"committed", "heuristic", "forgotten"} =>
       /\ branch'[b].state \in {"committed", "heuristic", "forgotten"}
       /\ branch'[b].told = branch[b].told
       /\ Holds(retained[b], branch[b].told) => Holds(retained'[b], branch[b].told)

\* A recovery caller the step does not touch.
LEMMA TaskFrame ==
    ASSUME TypeOK, NEW w \in Worker, TaskInv(w), worker'[w] = worker[w],
           \A b \in Branch : Stays(b)
    PROVE  TaskInv(w)'
<1>1. worker[w] \in Task \cup {Idle}
  BY DEF TypeOK
<1>2. CASE worker[w].pc = "called"
  <2>1. PICK b \in Branch : b = worker[w].branch
    BY <1>1, <1>2, TaskFields
  <2>2. Stays(b)
    OBVIOUS
  <2> QED BY <1>2, <2>1, <2>2 DEF TaskInv, Stays
<1>3. CASE worker[w].pc # "called"
  BY <1>3 DEF TaskInv, Holds
<1> QED BY <1>2, <1>3

\* An unchanged branch stays what its recovery callers know.
LEMMA Same ==
    ASSUME NEW b, branch'[b].state = branch[b].state, branch'[b].told = branch[b].told,
           retained'[b] = retained[b]
    PROVE  Stays(b)
  BY DEF Stays

\* Steps that concern neither connections nor branches.
LEMMA QuietCover ==
    ASSUME TypeOK, CoverInv,
           UNCHANGED <<tx, written, changed, branch, active, pending, pendingAll, op, retained,
                       worker>>
    PROVE  CoverInv'
<1>1. \A c \in Conn : TxInv(c)' /\ NotedInv(c)'
  BY ConnFrame DEF CoverInv, TxInv
<1>2. \A b \in Branch : BranchInv(b)'
  BY BranchFrame DEF CoverInv, Grows, Keeps
<1>3. \A w \in Worker : TaskInv(w)'
  BY TaskFrame, Same DEF CoverInv
<1> QED BY <1>1, <1>2, <1>3 DEF CoverInv

\* What a step of c does not touch.
OthersSame(c) ==
    \A d \in Conn : d # c =>
       /\ tx'[d] = tx[d] /\ written'[d] = written[d] /\ changed'[d] = changed[d]
       /\ active'[d] = active[d]
       /\ pending'[d] = pending[d] /\ pendingAll'[d] = pendingAll[d] /\ op'[d] = op[d]

\* Steps of one connection that change no branch: what is left to show is what
\* its own call knows.
LEMMA OwnCover ==
    ASSUME TypeOK, CoverInv, NEW c \in Conn, UNCHANGED <<branch, retained, worker>>,
           OthersSame(c), Keeps(c), op'[c].call # "prepare", TxInv(c)', NotedInv(c)'
    PROVE  CoverInv'
<1>1. \A d \in Conn : TxInv(d)' /\ NotedInv(d)'
  <2> TAKE d \in Conn
  <2>1. CASE d = c
    BY <2>1
  <2>2. CASE d # c
    BY <2>2, ConnFrame DEF CoverInv, TxInv, OthersSame
  <2> QED BY <2>1, <2>2
<1>2. \A d \in Conn : Keeps(d) /\ (d # c => op'[d] = op[d] /\ active'[d] = active[d])
  BY DEF Grows, Keeps, OthersSame
<1>3. \A b \in Branch : BranchInv(b)'
  BY <1>2, BranchFrame DEF CoverInv
<1>4. \A w \in Worker : TaskInv(w)'
  BY TaskFrame, Same DEF CoverInv
<1> QED BY <1>1, <1>3, <1>4 DEF CoverInv


\* Mutate keeps the changes noted or retained.
LEMMA MutateCover ==
    ASSUME TypeOK, CoverInv, NEW c \in Conn, NEW e \in Entity, NEW named \in BOOLEAN,
           Mutate(c, e, named)
    PROVE  CoverInv'
<1>1. TxInv(c) /\ NotedInv(c)
  BY DEF CoverInv
<1>2. UNCHANGED <<branch, retained, worker, tx, changed, active, pending, pendingAll>>
  BY DEF Mutate
<1>3. OthersSame(c)
  BY DEF Mutate, Begun, TypeOK, OthersSame
<1>4. op'[c].call = "mutate"
  BY DEF Mutate, Begun, TypeOK
<1>5. tx[c] = "none" => written'[c] = written[c]
  BY DEF Mutate
<1>6. TxInv(c)'
  BY <1>1, <1>2, <1>4, <1>5 DEF TxInv, Ended
<1>7. NotedInv(c)'
  BY <1>1, <1>2, <1>4 DEF NotedInv, Noted
<1> QED BY <1>2, <1>3, <1>4, <1>6, <1>7, OwnCover DEF Grows, Keeps

\* MutateDone keeps the changes noted or retained.
LEMMA MutateDoneCover ==
    ASSUME TypeOK, CoverInv, NEW c \in Conn, MutateDone(c)
    PROVE  CoverInv'
<1>1. TxInv(c) /\ NotedInv(c) /\ op[c].call = "mutate"
  BY DEF CoverInv, MutateDone
<1>2. UNCHANGED <<branch, retained, worker, tx, written, active>>
  BY DEF MutateDone
<1>3. OthersSame(c)
  BY DEF MutateDone, Done, TypeOK, OthersSame
<1>4. op'[c] = NoOp /\ op'[c].call = "none"
  BY DEF MutateDone, Done, TypeOK, NoOp
<1>5. Grows(c)
  BY DEF MutateDone, Grows, TypeOK
<1>6. tx[c] = "none" => changed'[c] = changed[c]
  BY <1>1 DEF MutateDone, TxInv
<1>7. TxInv(c)'
  BY <1>1, <1>2, <1>4, <1>6 DEF TxInv, Ended, NoOp
<1>8. pendingAll'[c] \/ changed'[c] \subseteq pending'[c]
  <2>1. pendingAll[c] \/ changed[c] \subseteq pending[c]
    BY <1>1 DEF NotedInv, Noted
  <2>2. CASE op[c].ok /\ active[c]
    <3>0. changed'[c] \subseteq changed[c] \cup op[c].writes
      BY <2>2 DEF MutateDone, TypeOK
    <3>1. CASE op[c].named /\ ~pendingAll[c]
      <4>1. pending' = [pending EXCEPT ![c] = @ \cup op[c].writes]
        BY <2>2, <3>1 DEF MutateDone
      <4>2. pending'[c] = pending[c] \cup op[c].writes
        BY <4>1 DEF TypeOK
      <4> QED BY <2>1, <3>0, <3>1, <4>2
    <3>2. CASE ~(op[c].named /\ ~pendingAll[c])
      <4>1. pendingAll' = [pendingAll EXCEPT ![c] = TRUE]
        BY <2>2, <3>2 DEF MutateDone
      <4> QED BY <4>1 DEF TypeOK
    <3> QED BY <3>1, <3>2
  <2>3. CASE ~(op[c].ok /\ active[c])
    BY <2>1, <2>3 DEF MutateDone
  <2> QED BY <2>2, <2>3
<1>9. NotedInv(c)'
  BY <1>4, <1>8 DEF NotedInv, Noted
<1> QED BY <1>2, <1>3, <1>4, <1>5, <1>7, <1>9, OwnCover DEF Keeps

\* Commit keeps the changes noted or retained.
LEMMA CommitCover ==
    ASSUME TypeOK, CoverInv, NEW c \in Conn, Commit(c)
    PROVE  CoverInv'
<1>1. TxInv(c) /\ NotedInv(c) /\ tx[c] = "local"
  BY DEF CoverInv, Commit
<1>2. UNCHANGED <<branch, retained, worker, active, pending, pendingAll>>
  BY DEF Commit
<1>3. OthersSame(c)
  BY DEF Commit, Begun, EndTx, TypeOK, OthersSame
<1>4. PICK ok \in BOOLEAN :
         /\ op'[c] = [call |-> "commit", ok |-> ok, writes |-> changed[c]]
         /\ \/ tx'[c] = "none" /\ written'[c] = {} /\ changed'[c] = {}
            \/ ~ok /\ tx'[c] = tx[c] /\ written'[c] = written[c] /\ changed'[c] = changed[c]
  BY DEF Commit, Begun, EndTx, TypeOK
<1>5. op'[c].call = "commit" /\ op'[c].ok = ok /\ op'[c].writes = changed[c]
  BY <1>4
<1>6. TxInv(c)'
  BY <1>1, <1>2, <1>4, <1>5, CacheAssumption DEF TxInv, Ended
<1>7. NotedInv(c)'
  BY <1>1, <1>2, <1>4, <1>5 DEF NotedInv, Noted
<1> QED BY <1>2, <1>3, <1>5, <1>6, <1>7, OwnCover DEF Grows, Keeps

\* c ends its call and clears what it noted, or keeps it.
LEMMA EndCover ==
    ASSUME TypeOK, CoverInv, NEW c \in Conn, Done(c),
           UNCHANGED <<tx, written, changed, branch, retained, worker>>,
           \/ ClearActive(c) /\ tx[c] = "none"
           \/ UNCHANGED <<active, pending, pendingAll>>
    PROVE  CoverInv'
<1>1. TxInv(c) /\ NotedInv(c)
  BY DEF CoverInv
<1>2. OthersSame(c) /\ op'[c] = NoOp /\ op'[c].call = "none"
  BY DEF OthersSame, ClearActive, Done, TypeOK, NoOp
<1>3. TxInv(c)'
  BY <1>1, <1>2, CacheAssumption DEF TxInv, Ended
<1>4. NotedInv(c)'
  BY <1>1, <1>2 DEF NotedInv, Noted, TxInv
<1>5. Keeps(c)
  BY DEF Keeps, Grows, ClearActive, TypeOK
<1> QED BY <1>2, <1>3, <1>4, <1>5, OwnCover

\* CommitDone keeps the changes noted or retained.
LEMMA CommitDoneCover ==
    ASSUME TypeOK, CoverInv, NEW c \in Conn, CommitDone(c)
    PROVE  CoverInv'
<1>1. TxInv(c) /\ op[c].call = "commit" /\ Done(c)
  BY DEF CoverInv, CommitDone
<1>2. UNCHANGED <<tx, written, changed, branch, retained, worker>>
  BY DEF CommitDone, source
<1>3. (ClearActive(c) /\ op[c].ok) \/ UNCHANGED <<active, pending, pendingAll>>
  BY DEF CommitDone
<1> QED BY <1>1, <1>2, <1>3, EndCover DEF TxInv, Ended

\* CloseDone keeps the changes noted or retained.
LEMMA CloseDoneCover ==
    ASSUME TypeOK, CoverInv, NEW c \in Conn, CloseDone(c)
    PROVE  CoverInv'
<1>1. TxInv(c) /\ op[c].call = "close" /\ Done(c) /\ ClearActive(c)
  BY DEF CoverInv, CloseDone
<1>2. UNCHANGED <<tx, written, changed, branch, retained, worker>>
  BY DEF CloseDone, source
<1> QED BY <1>1, <1>2, EndCover DEF TxInv, Ended

\* Rollback keeps the changes noted or retained.
LEMMA RollbackCover ==
    ASSUME TypeOK, CoverInv, NEW c \in Conn, Rollback(c)
    PROVE  CoverInv'
<1>1. TxInv(c) /\ NotedInv(c) /\ op[c] = NoOp /\ tx[c] \in {"local", "none"} /\ active[c]
  BY DEF CoverInv, Rollback, Unlocked
<1>2. UNCHANGED <<branch, retained, worker, op>>
  BY DEF Rollback
<1>3. OthersSame(c)
  BY DEF Rollback, EndTx, ClearActive, TypeOK, OthersSame
<1>4. \/ tx'[c] = "none" /\ written'[c] = {} /\ changed'[c] = {}
      \/ /\ tx'[c] = tx[c] /\ written'[c] = written[c] /\ changed'[c] = changed[c]
         /\ UNCHANGED <<active, pending, pendingAll>>
  BY DEF Rollback, EndTx, TypeOK
<1>5. TxInv(c)'
  BY <1>1, <1>2, <1>4, CacheAssumption DEF TxInv, Ended, NoOp
<1>6. NotedInv(c)'
  BY <1>1, <1>2, <1>4 DEF NotedInv, Noted, NoOp
<1>7. Keeps(c)
  BY DEF Rollback, Keeps, Grows, ClearActive, TypeOK
<1>8. op'[c].call # "prepare"
  BY <1>1, <1>2 DEF NoOp
<1> QED BY <1>2, <1>3, <1>5, <1>6, <1>7, <1>8, OwnCover

\* InTransaction keeps the changes noted or retained.
LEMMA InTransactionCover ==
    ASSUME TypeOK, CoverInv, NEW c \in Conn, InTransaction(c)
    PROVE  CoverInv'
<1>1. TxInv(c) /\ NotedInv(c) /\ op[c] = NoOp /\ op[c].call = "none"
  BY DEF CoverInv, InTransaction, Unlocked, NoOp
<1>2. UNCHANGED <<op, tx, written, changed, branch, retained, worker>>
  BY DEF InTransaction, source
<1>3. OthersSame(c)
  BY <1>2 DEF OthersSame, InTransaction, ClearActive, TypeOK
<1>4. tx[c] # "none" => active[c] /\ active'[c] /\ UNCHANGED <<pending, pendingAll>>
  BY <1>1 DEF InTransaction, TxInv, TypeOK
<1>5. tx[c] = "none" => ~active'[c]
  BY DEF InTransaction, ClearActive, TypeOK
<1>6. TxInv(c)'
  BY <1>1, <1>2, <1>4, CacheAssumption DEF TxInv, Ended
<1>7. NotedInv(c)'
  BY <1>1, <1>2, <1>4 DEF NotedInv, Noted, TxInv
<1>8. Keeps(c)
  BY <1>4, <1>5 DEF Keeps, Grows
<1> QED BY <1>1, <1>2, <1>3, <1>6, <1>7, <1>8, OwnCover


(***************************************************************************)
(* Steps of a connection that change its branch.                           *)
(***************************************************************************)
\* A step of one connection, from what it does to c and to the branches.
LEMMA ConnCover ==
    ASSUME TypeOK, CoverInv, NEW c \in Conn, OthersSame(c), worker' = worker,
           TxInv(c)', NotedInv(c)',
           \A b \in Branch : BranchInv(b)' /\ Stays(b),
           \A b \in Branch : \A d \in Conn : d # c /\ branch[b].home = d =>
              branch'[b].home = d /\ branch'[b].state = branch[b].state
    PROVE  CoverInv'
<1>1. \A d \in Conn : TxInv(d)' /\ NotedInv(d)'
  <2> TAKE d \in Conn
  <2>1. CASE d = c
    BY <2>1
  <2>2. CASE d # c
    <3>1. TxInv(d) /\ NotedInv(d)
      BY DEF CoverInv
    <3>2. \A b \in Branch : tx[d] = b => branch'[b].home = d /\ branch'[b].state = "active"
      BY <2>2, <3>1 DEF TxInv
    <3> QED BY <2>2, <3>1, <3>2, ConnFrame DEF OthersSame
  <2> QED BY <2>1, <2>2
<1>2. \A w \in Worker : TaskInv(w)'
  BY TaskFrame DEF CoverInv
<1> QED BY <1>1, <1>2 DEF CoverInv

\* Other connections prepare other branches.
LEMMA OtherPrepare ==
    ASSUME TypeOK, NEW b \in Branch, BranchInv(b), NEW c \in Conn, OthersSame(c),
           NEW d \in Conn, d # c, branch[b].home \in {c, "none"}
    PROVE  PrepareInv(b, d)'
<1>1. op'[d] = op[d] /\ branch[b].home # d
  BY CacheAssumption DEF OthersSame
<1>2. PrepareInv(b, d)
  BY DEF BranchInv
<1> QED BY <1>1, <1>2 DEF PrepareInv

\* A branch the call of c does not concern.
LEMMA OtherBranch ==
    ASSUME TypeOK, NEW b \in Branch, BranchInv(b), NEW c \in Conn, OthersSame(c),
           branch'[b] = branch[b], retained'[b] = retained[b],
           branch[b].home # c \/ Keeps(c),
           op'[c].call = "prepare" => op'[c].branch # b \/ op'[c].outcome # "PREPARED"
    PROVE  BranchInv(b)' /\ Stays(b)
<1>1. \A d \in Conn : d # c => Keeps(d) /\ active'[d] = active[d] /\ op'[d] = op[d]
  BY DEF OthersSame, Grows, Keeps
<1>2. \A d \in Conn : PrepareInv(b, d)'
  <2> TAKE d \in Conn
  <2>1. PrepareInv(b, d)
    BY DEF BranchInv
  <2>2. CASE d = c
    BY <2>2 DEF PrepareInv
  <2>3. CASE d # c
    BY <1>1, <2>1, <2>3 DEF PrepareInv
  <2> QED BY <2>2, <2>3
<1>3. ASSUME NEW d \in Conn, branch[b].home = d, active'[d]
      PROVE  pendingAll'[d] \/ branch[b].told \subseteq pending'[d]
  <2>1. active[d] /\ Grows(d)
    BY <1>1, <1>3 DEF Keeps
  <2>2. Noted(d, branch[b].told)
    BY <1>3, <2>1 DEF BranchInv
  <2> QED BY <2>1, <2>2 DEF Noted, Grows
<1>4. BranchInv(b)'
  BY <1>2, <1>3 DEF BranchInv, Holds, Noted
<1> QED BY <1>4, Same

\* A branch whose connection leaves it.
LEMMA LeavingBranch ==
    ASSUME TypeOK, NEW b \in Branch, BranchInv(b), NEW c \in Conn, OthersSame(c),
           branch[b].home = c, branch'[b].home = "none", branch'[b].state = branch[b].state,
           branch'[b].told = branch[b].told,
           retained'[b] = retained[b], op'[c].call # "prepare"
    PROVE  BranchInv(b)' /\ Stays(b)
<1>1. \A d \in Conn : PrepareInv(b, d)'
  <2> TAKE d \in Conn
  <2>1. CASE d = c
    BY <2>1 DEF PrepareInv
  <2>2. CASE d # c
    BY <2>2, OtherPrepare
  <2> QED BY <2>1, <2>2
<1>2. \A d \in Conn : branch'[b].home # d
  BY CacheAssumption
<1>3. BranchInv(b)'
  BY <1>1, <1>2 DEF BranchInv, Holds
<1> QED BY <1>3, Same

\* Begin keeps the changes noted or retained.
LEMMA BeginCover ==
    ASSUME TypeOK, CoverInv, NEW c \in Conn, Begin(c)
    PROVE  CoverInv'
<1>1. TxInv(c) /\ NotedInv(c) /\ op[c] = NoOp /\ tx[c] = "none" /\ op[c].call = "none"
  BY DEF CoverInv, Begin, Unlocked, NoOp
<1>2. UNCHANGED <<op, written, changed, retained, worker>> /\ branch' = Leave(c)
  BY DEF Begin, MarkActive
<1>3. OthersSame(c)
  BY DEF OthersSame, Begin, MarkActive, TypeOK
<1>4. tx'[c] = "local" /\ active'[c]
  BY DEF Begin, MarkActive, TypeOK
<1>6. TxInv(c)'
  BY <1>1, <1>2, <1>4, CacheAssumption DEF TxInv, Ended
<1>7. NotedInv(c)'
  BY <1>1, <1>2 DEF NotedInv, Noted, TxInv
<1>9. ASSUME NEW b \in Branch PROVE BranchInv(b)' /\ Stays(b)
  <2>1. CASE branch[b].home = c
    BY <1>1, <1>2, <1>3, <1>9, <2>1, LeavingBranch, LeaveTyped DEF CoverInv
  <2>2. CASE branch[b].home # c
    <3>1. branch'[b] = branch[b]
      BY <1>2, <2>2 DEF Leave
    <3> QED BY <1>1, <1>2, <1>3, <2>2, <3>1, OtherBranch DEF CoverInv
  <2> QED BY <2>1, <2>2
<1>11. \A b \in Branch : \A d \in Conn : d # c /\ branch[b].home = d =>
          branch'[b].home = d /\ branch'[b].state = branch[b].state
  BY <1>2, LeaveTyped
<1> QED BY <1>2, <1>3, <1>6, <1>7, <1>9, <1>11, ConnCover

\* BeginBranch keeps the changes noted or retained.
LEMMA BeginBranchCover ==
    ASSUME TypeOK, CoverInv, NEW c \in Conn, NEW b \in Branch, BeginBranch(c, b)
    PROVE  CoverInv'
<1>1. TxInv(c) /\ NotedInv(c) /\ op[c] = NoOp /\ op[c].call = "none"
  BY DEF CoverInv, BeginBranch, Unlocked, NoOp
<1>2. UNCHANGED <<op, written, changed, retained, worker>>
  BY DEF BeginBranch, MarkActive
<1>3. OthersSame(c)
  BY DEF OthersSame, BeginBranch, MarkActive, TypeOK
<1>4. tx'[c] = b /\ active'[c] /\ b # "none" /\ b # "local"
  BY CacheAssumption DEF BeginBranch, MarkActive, TypeOK
<1>5. CASE tx[c] = b /\ UNCHANGED branch
  <2>1. active[c]
    BY <1>1, <1>4, <1>5 DEF TxInv
  <2>2. UNCHANGED <<pending, pendingAll>>
    BY <2>1 DEF BeginBranch, MarkActive
  <2>3. TxInv(c)' /\ NotedInv(c)'
    BY <1>1, <1>2, <1>4, <1>5, <2>1, <2>2, ConnFrame DEF TxInv
  <2> QED BY <1>1, <1>2, <1>3, <1>5, <2>1, <2>2, <2>3, OwnCover DEF Keeps, Grows
<1>6. CASE /\ tx[c] = "none" /\ branch[b].state = "none"
           /\ branch' = [Leave(c) EXCEPT ![b] = [branch[b] EXCEPT !.state = "active", !.home = c]]
  <2>0. branch[b] \in BranchOf /\ BranchInv(b)
    BY DEF TypeOK, CoverInv
  <2>1. /\ \A x \in Branch : x # b => branch'[x] = Leave(c)[x]
        /\ branch'[b] = [branch[b] EXCEPT !.state = "active", !.home = c]
    BY <1>6, LeaveTyped
  <2>2. /\ branch'[b].state = "active" /\ branch'[b].home = c
        /\ branch'[b].told = branch[b].told
    BY <2>0, <2>1 DEF BranchOf
  <2>3. branch[b].told = {} /\ branch[b].home = "none" /\ ~retained[b].found
    BY <1>6, <2>0 DEF BranchInv
  <2>5. TxInv(c)'
    BY <1>1, <1>2, <1>4, <2>2 DEF TxInv, Ended
  <2>6. NotedInv(c)'
    BY <1>1, <1>2, <1>6 DEF NotedInv, Noted, TxInv
  <2>8. ASSUME NEW x \in Branch PROVE BranchInv(x)' /\ Stays(x)
    <3>1. CASE x = b
      <4>1. \A d \in Conn : PrepareInv(b, d)'
        <5> TAKE d \in Conn
        <5>1. CASE d = c
          BY <1>1, <1>2, <5>1 DEF PrepareInv
        <5>2. CASE d # c
          BY <1>3, <2>0, <2>3, <5>2, OtherPrepare
        <5> QED BY <5>1, <5>2
      <4>2. BranchInv(b)'
        BY <1>2, <1>4, <2>2, <2>3, <4>1, CacheAssumption DEF BranchInv, Holds, Noted
      <4>3. Stays(b)
        BY <1>6, <2>2 DEF Stays
      <4> QED BY <3>1, <4>2, <4>3
    <3>2. CASE x # b /\ branch[x].home = c
      BY <1>1, <1>2, <1>3, <2>1, <2>8, <3>2, LeavingBranch, LeaveTyped DEF CoverInv
    <3>3. CASE x # b /\ branch[x].home # c
      <4>1. branch'[x] = branch[x]
        BY <2>1, <3>3 DEF Leave
      <4> QED BY <1>1, <1>2, <1>3, <3>3, <4>1, OtherBranch DEF CoverInv
    <3> QED BY <3>1, <3>2, <3>3
  <2>10. \A x \in Branch : \A d \in Conn : d # c /\ branch[x].home = d =>
            branch'[x].home = d /\ branch'[x].state = branch[x].state
    BY <2>1, <2>3, LeaveTyped, CacheAssumption
  <2> QED BY <1>2, <1>3, <2>5, <2>6, <2>8, <2>10, ConnCover
<1> QED BY <1>5, <1>6 DEF BeginBranch

\* Close keeps the changes noted or retained.
LEMMA CloseCover ==
    ASSUME TypeOK, CoverInv, NEW c \in Conn, Close(c)
    PROVE  CoverInv'
<1>1. TxInv(c) /\ NotedInv(c)
  BY DEF CoverInv
<1>2. UNCHANGED <<active, pending, pendingAll, retained, worker>>
  BY DEF Close
<1>3. OthersSame(c)
  BY DEF OthersSame, Close, Begun, EndTx, TypeOK
<1>4. /\ tx'[c] = "none" /\ written'[c] = {} /\ changed'[c] = {}
      /\ op'[c] = [call |-> "close", ok |-> TRUE, writes |-> changed[c]]
  BY DEF Close, EndTx, Begun, TypeOK
<1>5. op'[c].call = "close" /\ op'[c].writes = changed[c]
  BY <1>4
<1>6. \A b \in Branch : /\ branch'[b].state = IF tx[c] = b THEN "rolledBack" ELSE branch[b].state
                        /\ branch'[b].writes = branch[b].writes
                        /\ branch'[b].told = branch[b].told
                        /\ branch'[b].home = IF branch[b].home = c THEN "none" ELSE branch[b].home
  BY CloseBranches
<1>8. TxInv(c)'
  BY <1>4, <1>5, CacheAssumption DEF TxInv, Ended
<1>9. NotedInv(c)'
  BY <1>1, <1>2, <1>4, <1>5 DEF NotedInv, Noted, TxInv
<1>11. ASSUME NEW b \in Branch PROVE BranchInv(b)' /\ Stays(b)
  <2>0. BranchInv(b)
    BY DEF CoverInv
  <2>1. CASE tx[c] = b
    <3>1. branch[b].state = "active" /\ branch[b].home = c /\ branch[b].told = {} /\ ~retained[b].found
      BY <1>1, <2>0, <2>1 DEF TxInv, BranchInv
    <3>2. \A d \in Conn : PrepareInv(b, d)'
      <4> TAKE d \in Conn
      <4>1. CASE d = c
        BY <1>5, <4>1 DEF PrepareInv
      <4>2. CASE d # c
        BY <1>3, <2>0, <3>1, <4>2, OtherPrepare
      <4> QED BY <4>1, <4>2
    <3>3. /\ branch'[b].state = "rolledBack" /\ branch'[b].told = {}
          /\ \A d \in Conn : branch'[b].home # d
      BY <1>6, <2>1, <3>1, CacheAssumption
    <3>4. BranchInv(b)'
      BY <1>2, <3>1, <3>2, <3>3 DEF BranchInv, Holds
    <3>5. Stays(b)
      BY <3>1 DEF Stays
    <3> QED BY <3>4, <3>5
  <2>2. CASE tx[c] # b /\ branch[b].home = c
    BY <1>2, <1>3, <1>5, <1>6, <2>0, <2>2, LeavingBranch
  <2>3. CASE tx[c] # b /\ branch[b].home # c
    <3>0. branch[b] \in BranchOf /\ branch'[b] \in BranchOf
      BY CloseBranches DEF TypeOK
    <3>1. branch'[b] = branch[b]
      BY <1>6, <2>3, <3>0 DEF BranchOf
    <3> QED BY <1>2, <1>3, <1>5, <2>0, <2>3, <3>1, OtherBranch
  <2> QED BY <2>1, <2>2, <2>3
<1>13. \A b \in Branch : \A d \in Conn : d # c /\ branch[b].home = d =>
          branch'[b].home = d /\ branch'[b].state = branch[b].state
  BY <1>1, <1>6 DEF TxInv
<1> QED BY <1>2, <1>3, <1>8, <1>9, <1>11, <1>13, ConnCover


\* The branch of c's transaction goes to state s with the changes T, which c has
\* noted.
LEMMA OwnBranch ==
    ASSUME TypeOK, CoverInv, NEW c \in Conn, NEW b \in Branch, tx[c] = b,
           OthersSame(c), UNCHANGED <<active, pending, pendingAll, retained, worker>>,
           NEW s \in {"prepared", "committed", "rolledBack"}, NEW W, NEW T, Noted(c, T),
           BranchTo(b, s, W, T),
           op'[c].call = "prepare" => op'[c].branch = b,
           TxInv(c)', NotedInv(c)'
    PROVE  CoverInv'
<1>1. TxInv(c) /\ BranchInv(b)
  BY DEF CoverInv
<1>2. branch[b].home = c /\ branch[b].state = "active" /\ active[c] /\ ~retained[b].found
  BY <1>1, CacheAssumption DEF TxInv, BranchInv
<1>3. /\ branch'[b].state = s /\ branch'[b].told = T /\ branch'[b].home = c
      /\ \A x \in Branch : x # b => branch'[x] = branch[x]
  BY <1>2 DEF BranchTo
<1>5. ASSUME NEW x \in Branch PROVE BranchInv(x)' /\ Stays(x)
  <2>1. CASE x = b
    <3>1. \A d \in Conn : PrepareInv(b, d)'
      <4> TAKE d \in Conn
      <4>1. CASE d = c
        BY <1>2, <1>3, <4>1 DEF PrepareInv
      <4>2. CASE d # c
        BY <1>1, <1>2, <4>2, OtherPrepare
      <4> QED BY <4>1, <4>2
    <3>2. \A d \in Conn : branch'[b].home = d => d = c
      BY <1>3
    <3>3. pendingAll'[c] \/ T \subseteq pending'[c]
      BY DEF Noted
    <3>4. BranchInv(b)'
      BY <1>2, <1>3, <3>1, <3>2, <3>3 DEF BranchInv, Holds, Noted
    <3>5. Stays(b)
      BY <1>2 DEF Stays
    <3> QED BY <2>1, <3>4, <3>5
  <2>2. CASE x # b
    BY <1>3, <2>2, OtherBranch DEF CoverInv, Keeps, Grows
  <2> QED BY <2>1, <2>2
<1>7. \A x \in Branch : \A d \in Conn : d # c /\ branch[x].home = d =>
         branch'[x].home = d /\ branch'[x].state = branch[x].state
  BY <1>2, <1>3
<1> QED BY <1>5, <1>7, ConnCover

\* PrepareBranch keeps the changes noted or retained.
LEMMA PrepareBranchCover ==
    ASSUME TypeOK, CoverInv, NEW c \in Conn, NEW b \in Branch, PrepareBranch(c, b)
    PROVE  CoverInv'
<1>1. TxInv(c) /\ NotedInv(c) /\ BranchInv(b)
  BY DEF CoverInv
<1>2. UNCHANGED <<active, pending, pendingAll, retained, worker>>
  BY DEF PrepareBranch
<1>3. op' = [op EXCEPT ![c] = op'[c]]
  BY PrepareCases
<1>4. EndTx(c) \/ UNCHANGED <<tx, written, changed>>
  BY DEF PrepareBranch
<1>5. OthersSame(c)
  BY <1>2, <1>3, <1>4 DEF OthersSame, EndTx, TypeOK
<1>6. Noted(c, changed[c])
  BY <1>1 DEF NotedInv
<1>7. CASE PrepareReadOnly(c, b)
  <2>1. op'[c].call = "prepare" /\ op'[c].branch = b
    BY <1>7 DEF PrepareReadOnly
  <2>2. tx'[c] = "none" /\ written'[c] = {} /\ changed'[c] = {} /\ tx[c] = b
    BY <1>7 DEF PrepareReadOnly, EndTx, TypeOK
  <2>3. TxInv(c)'
    BY <2>1, <2>2, CacheAssumption DEF TxInv, Ended
  <2>4. NotedInv(c)'
    BY <2>1, <2>2 DEF NotedInv, Noted
  <2>5. branch[b].told = {}
    BY <1>1, <2>2 DEF TxInv, BranchInv
  <2>6. Noted(c, branch[b].told)
    BY <2>5 DEF Noted
  <2> QED BY <1>2, <1>5, <1>7, <2>1, <2>2, <2>3, <2>4, <2>6, OwnBranch DEF PrepareReadOnly
<1>8. CASE PrepareHeld(c, b)
  <2>1. op'[c].call = "prepare" /\ op'[c].branch = b
    BY <1>8 DEF PrepareHeld
  <2>2. tx'[c] = "none" /\ written'[c] = {} /\ changed'[c] = {} /\ tx[c] = b
    BY <1>8 DEF PrepareHeld, EndTx, TypeOK
  <2>3. TxInv(c)'
    BY <2>1, <2>2, CacheAssumption DEF TxInv, Ended
  <2>4. NotedInv(c)'
    BY <2>1, <2>2 DEF NotedInv, Noted
  <2>5. BranchTo(b, "prepared", written[c], changed[c])
    BY <1>8 DEF PrepareHeld
  <2> QED BY <1>2, <1>5, <1>6, <2>1, <2>2, <2>3, <2>4, <2>5, OwnBranch
<1>9. CASE PrepareFailed(c, b) \/ PrepareAgain(c, b)
  <2>1. /\ op'[c].call = "prepare" /\ op'[c].branch = b
        /\ \/ op'[c].outcome = "error"
           \/ op'[c].again /\ branch[b].home = c /\ branch[b].state = "prepared" /\ tx[c] = "none"
    BY <1>9 DEF PrepareFailed, PrepareAgain
  <2>2. UNCHANGED <<branch, tx, written, changed>>
    BY <1>9 DEF PrepareFailed, PrepareAgain
  <2>3. TxInv(c)'
    BY <1>1, <1>2, <2>1, <2>2 DEF TxInv, Ended
  <2>4. NotedInv(c)'
    BY <1>2, <1>6, <2>1, <2>2 DEF NotedInv, Noted
  <2>6. ASSUME NEW x \in Branch PROVE BranchInv(x)' /\ Stays(x)
    <3>1. BranchInv(x)
      BY DEF CoverInv
    <3>2. \A d \in Conn : PrepareInv(x, d)'
      <4> TAKE d \in Conn
      <4>1. CASE d = c
        BY <2>1, <2>2, <4>1 DEF PrepareInv
      <4>2. CASE d # c
        BY <1>2, <1>5, <2>2, <3>1, <4>2 DEF BranchInv, PrepareInv, OthersSame
      <4> QED BY <4>1, <4>2
    <3> QED BY <1>2, <2>2, <3>1, <3>2, Same DEF BranchInv, Holds, Noted
  <2> QED BY <1>2, <1>5, <2>2, <2>3, <2>4, <2>6, ConnCover
<1> QED BY <1>7, <1>8, <1>9, PrepareCases

\* A branch was prepared: what its connection noted is retained now.
LEMMA RetainCover ==
    ASSUME TypeOK, CoverInv, NEW c \in Conn, NEW b \in Branch,
           retainBranchInvalidation(c, b), ClearActive(c), Done(c), tx[c] = "none",
           UNCHANGED <<tx, written, changed, branch, worker>>,
           branch[b].home = c, branch[b].state \notin {"none", "active"}
    PROVE  CoverInv'
<1>1. TxInv(c) /\ BranchInv(b)
  BY DEF CoverInv
<1>2. OthersSame(c) /\ op'[c] = NoOp /\ op'[c].call = "none" /\ ~active'[c]
  BY DEF OthersSame, ClearActive, Done, TypeOK, NoOp
<1>3. TxInv(c)'
  BY <1>1, <1>2, CacheAssumption DEF TxInv, Ended
<1>4. NotedInv(c)'
  BY <1>1, <1>2 DEF NotedInv, Noted, TxInv
<1>5. /\ \A x \in Branch : x # b => retained'[x] = retained[x]
      /\ retained'[b].found
      /\ retained'[b].blank = (retained[b].blank \/ (~retained[b].found /\ ~active[c]))
      /\ retained'[b].all = (pendingAll[c] \/ retained[b].all)
      /\ retained'[b].entities = IF retained'[b].all THEN {}
                                 ELSE retained[b].entities \cup pending[c]
  BY RetainTyped
<1>6. Holds(retained[b], branch[b].told) => Holds(retained'[b], branch[b].told)
  <2>1. active[c] => pendingAll[c] \/ branch[b].told \subseteq pending[c]
    BY <1>1 DEF BranchInv, Noted
  <2> QED BY <1>5, <2>1 DEF Holds
<1>7. ASSUME NEW x \in Branch PROVE BranchInv(x)' /\ Stays(x)
  <2>0. BranchInv(x)
    BY DEF CoverInv
  <2>1. CASE x = b
    <3>1. \A d \in Conn : PrepareInv(b, d)'
      <4> TAKE d \in Conn
      <4>1. CASE d = c
        BY <1>2, <4>1 DEF PrepareInv
      <4>2. CASE d # c
        BY <1>1, <1>2, <4>2, OtherPrepare
      <4> QED BY <4>1, <4>2
    <3>2. BranchInv(b)'
      <4>1. branch'[b].state # "forgotten" => Holds(retained'[b], branch'[b].told)
        BY <1>1, <1>6 DEF BranchInv
      <4>2. \A d \in Conn : branch'[b].home = d => ~active'[d]
        BY <1>2
      <4> QED BY <3>1, <4>1, <4>2 DEF BranchInv
    <3>3. Stays(b)
      BY <1>6 DEF Stays
    <3> QED BY <2>1, <3>2, <3>3
  <2>2. CASE x # b
    BY <1>2, <1>5, <2>0, <2>2, OtherBranch DEF Keeps
  <2> QED BY <2>1, <2>2
<1> QED BY <1>2, <1>3, <1>4, <1>7, ConnCover

\* PrepareDone keeps the changes noted or retained.
LEMMA PrepareDoneCover ==
    ASSUME TypeOK, CoverInv, NEW c \in Conn, PrepareDone(c)
    PROVE  CoverInv'
<1>1. TxInv(c) /\ op[c].call = "prepare"
  BY DEF CoverInv, PrepareDone
<1>2. PICK b \in Branch : b = op[c].branch
  BY <1>1, OpFields DEF TypeOK
<1>3. PrepareInv(b, c)
  BY DEF CoverInv, BranchInv
<1>4. UNCHANGED <<tx, written, changed, branch, worker>> /\ Done(c)
  BY DEF PrepareDone, source
<1>5. CASE op[c].outcome = "PREPARED"
  <2>1. tx[c] = "none" /\ branch[b].home = c /\ branch[b].state \notin {"none", "active"}
    BY <1>1, <1>2, <1>3, <1>5 DEF TxInv, Ended, PrepareInv
  <2>2. ClearActive(c) /\ retainBranchInvalidation(c, b)
    BY <1>2, <1>5 DEF PrepareDone
  <2> QED BY <1>4, <2>1, <2>2, RetainCover
<1>6. CASE op[c].outcome # "PREPARED"
  <2>1. /\ UNCHANGED retained
        /\ \/ ClearActive(c) /\ op[c].outcome # "error"
           \/ UNCHANGED <<active, pending, pendingAll>>
    BY <1>6 DEF PrepareDone
  <2> QED BY <1>1, <1>4, <2>1, EndCover DEF TxInv, Ended
<1> QED BY <1>5, <1>6

\* ResolveBranch keeps the changes noted or retained.
LEMMA ResolveBranchCover ==
    ASSUME TypeOK, CoverInv, NEW c \in Conn, NEW b \in Branch, NEW goal \in {"committed", "rolledBack"},
           ResolveBranch(c, b, goal)
    PROVE  CoverInv'
<1>1. TxInv(c) /\ NotedInv(c) /\ BranchInv(b)
  BY DEF CoverInv
<1>2. UNCHANGED <<active, pending, pendingAll, retained, worker>>
  BY DEF ResolveBranch
<1>3. op' = [op EXCEPT ![c] = op'[c]]
  BY ResolveBranchCases
<1>4. EndTx(c) \/ UNCHANGED <<tx, written, changed>>
  BY DEF ResolveBranch, source
<1>5. OthersSame(c)
  BY <1>2, <1>3, <1>4 DEF OthersSame, EndTx, TypeOK
<1>6. Noted(c, changed[c])
  BY <1>1 DEF NotedInv
<1>7. CASE ResolveEnds(c, b, goal)
  <2>1. op'[c].call = "resolve" /\ op'[c].writes = changed[c]
    BY <1>7 DEF ResolveEnds
  <2>2. tx'[c] = "none" /\ written'[c] = {} /\ changed'[c] = {} /\ tx[c] = b
    BY <1>7 DEF ResolveEnds, EndTx, TypeOK
  <2>3. TxInv(c)'
    BY <2>1, <2>2, CacheAssumption DEF TxInv, Ended
  <2>4. NotedInv(c)'
    BY <1>2, <1>6, <2>1, <2>2 DEF NotedInv, Noted
  <2>5. BranchTo(b, goal, written[c], changed[c])
    BY <1>7 DEF ResolveEnds
  <2> QED BY <1>2, <1>5, <1>6, <2>1, <2>2, <2>3, <2>4, <2>5, OwnBranch
<1>8. CASE ResolveFails(c, b) \/ ResolveAgain(c, b)
  <2>1. /\ op'[c].call = "resolve" /\ UNCHANGED <<branch, tx, written, changed>>
        /\ \/ op'[c].writes = changed[c] /\ op'[c].outcome = "error"
           \/ op'[c].writes = {} /\ tx[c] = "none"
           \/ op'[c].writes = branch[b].told /\ tx[c] = "none" /\ branch[b].home = c /\ active[c]
    BY <1>8 DEF ResolveFails, ResolveAgain
  <2>2. Noted(c, op'[c].writes)
    BY <1>1, <1>6, <2>1 DEF BranchInv, Noted
  <2>3. TxInv(c)'
    BY <1>1, <1>2, <2>1 DEF TxInv, Ended
  <2>4. NotedInv(c)'
    BY <1>2, <1>6, <2>1, <2>2 DEF NotedInv, Noted
  <2> QED BY <1>2, <1>5, <2>1, <2>3, <2>4, OwnCover DEF Keeps, Grows
<1> QED BY <1>7, <1>8, ResolveBranchCases

\* ResolveBranchDone keeps the changes noted or retained.
LEMMA ResolveBranchDoneCover ==
    ASSUME TypeOK, CoverInv, NEW c \in Conn, ResolveBranchDone(c)
    PROVE  CoverInv'
<1>1. TxInv(c) /\ op[c].call = "resolve"
  BY DEF CoverInv, ResolveBranchDone
<1>2. UNCHANGED <<tx, written, changed, branch, worker, retained>> /\ Done(c)
  BY DEF ResolveBranchDone, source
<1>3. (ClearActive(c) /\ op[c].outcome # "error") \/ UNCHANGED <<active, pending, pendingAll>>
  BY DEF ResolveBranchDone
<1> QED BY <1>1, <1>2, <1>3, EndCover DEF TxInv, Ended


(***************************************************************************)
(* Steps of the recovery manager and of the source.                        *)
(***************************************************************************)
\* Steps that concern no connection.
LEMMA AwayCover ==
    ASSUME TypeOK, CoverInv,
           UNCHANGED <<tx, written, changed, active, pending, pendingAll, op>>,
           \A b \in Branch : branch'[b].home = branch[b].home,
           \A b \in Branch : branch[b].state = "active" => branch'[b].state = "active",
           \A b \in Branch : BranchInv(b)',
           \A w \in Worker : TaskInv(w)'
    PROVE  CoverInv'
<1>1. ASSUME NEW c \in Conn PROVE TxInv(c)' /\ NotedInv(c)'
  <2>1. TxInv(c) /\ NotedInv(c)
    BY DEF CoverInv
  <2>2. \A b \in Branch : tx[c] = b => branch'[b].home = c /\ branch'[b].state = "active"
    BY <2>1 DEF TxInv
  <2> QED BY <2>1, <2>2, ConnFrame
<1> QED BY <1>1 DEF CoverInv

\* A branch is decided or forgotten past the connections.
LEMMA MovedBranch ==
    ASSUME TypeOK, CoverInv, NEW b \in Branch, NEW s,
           UNCHANGED <<active, pending, pendingAll, op, retained>>,
           BranchTo(b, s, branch[b].writes, branch[b].told),
           \/ s = branch[b].state
           \/ s \in {"committed", "rolledBack", "heuristic"} /\ branch[b].state = "prepared"
           \/ s = "forgotten" /\ branch[b].state \notin {"none", "active", "prepared"}
    PROVE  \A x \in Branch : /\ BranchInv(x)' /\ Stays(x)
                             /\ branch'[x].home = branch[x].home
                             /\ branch[x].state = "active" => branch'[x].state = "active"
<1> TAKE x \in Branch
<1>1. BranchInv(x)
  BY DEF CoverInv
<1>2. CASE x = b
  <2>1. branch'[b].state = s /\ branch'[b].told = branch[b].told /\ branch'[b].home = branch[b].home
    BY DEF BranchTo
  <2>2. \A c \in Conn : PrepareInv(b, c)'
    BY <1>1, <1>2, <2>1 DEF BranchInv, PrepareInv
  <2>3. BranchInv(b)'
    BY <1>1, <1>2, <2>1, <2>2 DEF BranchInv, Holds, Noted
  <2>4. Stays(b)
    BY <2>1 DEF Stays
  <2> QED BY <1>2, <2>1, <2>3, <2>4
<1>3. CASE x # b
  BY <1>1, <1>3, BranchFrame, Same DEF BranchTo, Grows, Keeps
<1> QED BY <1>2, <1>3

\* Resolve keeps the changes noted or retained.
LEMMA ResolveCover ==
    ASSUME TypeOK, CoverInv, NEW w \in Worker, NEW b \in Branch,
           NEW goal \in {"committed", "rolledBack"}, Resolve(w, b, goal)
    PROVE  CoverInv'
<1>1. UNCHANGED <<tx, written, changed, active, pending, pendingAll, op, retained>>
  BY DEF Resolve, conns
<1>3. PICK s \in {"none", "active", "prepared", "committed", "rolledBack", "heuristic", "forgotten"},
           ok \in BOOLEAN, inv \in BOOLEAN, W \in {branch[b].told, {}} :
       /\ BranchTo(b, s, branch[b].writes, branch[b].told)
       /\ s # branch[b].state => branch[b].state = "prepared" /\ s \in {"committed", "rolledBack"}
       /\ worker' = [worker EXCEPT ![w] = [pc |-> "called", branch |-> b, invalidate |-> inv,
                                           ok |-> ok, writes |-> W]]
       /\ W # {} => s \in {"committed", "heuristic"} /\ inv
  BY ResolveCases DEF Resolved
<1>4. branch'[b].state = s /\ branch'[b].told = branch[b].told
  BY <1>3 DEF BranchTo
<1>5. BranchInv(b)
  BY DEF CoverInv
<1>6. \A x \in Branch : /\ BranchInv(x)' /\ Stays(x)
                        /\ branch'[x].home = branch[x].home
                        /\ branch[x].state = "active" => branch'[x].state = "active"
  BY <1>1, <1>3, MovedBranch
<1>7. ASSUME NEW v \in Worker PROVE TaskInv(v)'
  <2>1. CASE v = w
    <3>1. worker'[w] = [pc |-> "called", branch |-> b, invalidate |-> inv, ok |-> ok, writes |-> W]
      BY <1>3 DEF TypeOK
    <3>2. worker'[w].pc = "called" /\ worker'[w].branch = b /\ worker'[w].invalidate = inv
          /\ worker'[w].writes = W
      BY <3>1
    <3>3. W # {} => Holds(retained[b], W) /\ W = branch[b].told
      BY <1>3, <1>5 DEF BranchInv
    <3> QED BY <1>1, <1>3, <1>4, <2>1, <3>2, <3>3 DEF TaskInv
  <2>2. CASE v # w
    <3>1. worker'[v] = worker[v]
      BY <1>3, <2>2 DEF TypeOK
    <3> QED BY <1>6, <3>1, TaskFrame DEF CoverInv
  <2> QED BY <2>1, <2>2
<1> QED BY <1>1, <1>6, <1>7, AwayCover

\* A retained invalidation is taken or dropped.
LEMMA DropCover ==
    ASSUME TypeOK, CoverInv, NEW b \in Branch,
           retained' = [retained EXCEPT ![b] = NotRetained],
           UNCHANGED <<tx, written, changed, active, pending, pendingAll, op, branch>>,
           NEW w \in Worker, TaskInv(w)', \A v \in Worker : v # w => worker'[v] = worker[v]
    PROVE  CoverInv'
<1>1. ~retained'[b].found /\ \A x \in Branch : x # b => retained'[x] = retained[x]
  BY DEF TypeOK, NotRetained
<1>2. ASSUME NEW x \in Branch PROVE BranchInv(x)' /\ Stays(x)
  <2>0. BranchInv(x)
    BY DEF CoverInv
  <2>1. CASE x = b
    <3>1. \A c \in Conn : PrepareInv(b, c)'
      BY <2>0, <2>1 DEF BranchInv, PrepareInv
    <3>2. BranchInv(b)'
      BY <1>1, <2>0, <2>1, <3>1 DEF BranchInv, Holds, Noted
    <3>3. Stays(b)
      BY <1>1 DEF Stays, Holds
    <3> QED BY <2>1, <3>2, <3>3
  <2>2. CASE x # b
    BY <1>1, <2>0, <2>2, BranchFrame, Same DEF Grows, Keeps
  <2> QED BY <2>1, <2>2
<1>3. \A v \in Worker : TaskInv(v)'
  BY <1>2, TaskFrame DEF CoverInv
<1> QED BY <1>2, <1>3, AwayCover

\* ResolveTake keeps the changes noted or retained.
LEMMA ResolveTakeCover ==
    ASSUME TypeOK, CoverInv, NEW w \in Worker, ResolveTake(w)
    PROVE  CoverInv'
<1>1. worker[w] \in Task \cup {Idle} /\ worker[w].pc = "called" /\ TaskInv(w)
  BY DEF TypeOK, CoverInv, ResolveTake
<1>2. PICK b \in Branch : b = worker[w].branch
  BY <1>1, TaskFields
<1>3. Holds(retained[b], worker[w].writes)
  BY <1>1, <1>2 DEF TaskInv, Holds
<1>4. \/ worker'[w] = [pc |-> "taken", pend |-> retained[b], ok |-> worker[w].ok,
                       writes |-> worker[w].writes]
      \/ worker'[w] = Idle
  BY <1>2 DEF ResolveTake, TypeOK
<1>5. TaskInv(w)'
  <2>1. CASE worker'[w] = Idle
    BY <2>1 DEF TaskInv, Idle
  <2>2. CASE worker'[w] = [pc |-> "taken", pend |-> retained[b], ok |-> worker[w].ok,
                           writes |-> worker[w].writes]
    <3>1. worker'[w].pc = "taken" /\ worker'[w].pend = retained[b] /\ worker'[w].writes = worker[w].writes
      BY <2>2
    <3> QED BY <1>3, <3>1 DEF TaskInv
  <2> QED BY <1>4, <2>1, <2>2
<1>6. \A v \in Worker : v # w => worker'[v] = worker[v]
  BY DEF ResolveTake, TypeOK
<1>7. UNCHANGED <<tx, written, changed, active, pending, pendingAll, op, branch>>
      /\ retained' = [retained EXCEPT ![b] = NotRetained]
  BY <1>2 DEF ResolveTake, source, conns
<1> QED BY <1>5, <1>6, <1>7, DropCover

\* ForgetDone keeps the changes noted or retained.
LEMMA ForgetDoneCover ==
    ASSUME TypeOK, CoverInv, NEW w \in Worker, ForgetDone(w)
    PROVE  CoverInv'
<1>1. worker[w] \in Task \cup {Idle} /\ worker[w].pc = "forgotten"
  BY DEF TypeOK, ForgetDone
<1>2. PICK b \in Branch : b = worker[w].branch
  BY <1>1, TaskFields
<1>4. worker'[w] = Idle /\ \A v \in Worker : v # w => worker'[v] = worker[v]
  BY DEF ForgetDone, TypeOK
<1>5. TaskInv(w)'
  BY <1>4 DEF TaskInv, Idle
<1>6. UNCHANGED <<tx, written, changed, active, pending, pendingAll, op, branch>>
      /\ retained' = [retained EXCEPT ![b] = NotRetained]
  BY <1>2 DEF ForgetDone, source, conns
<1> QED BY <1>4, <1>5, <1>6, DropCover

\* ResolveInvalidate keeps the changes noted or retained.
LEMMA ResolveInvalidateCover ==
    ASSUME TypeOK, CoverInv, NEW w \in Worker, ResolveInvalidate(w)
    PROVE  CoverInv'
<1>1. UNCHANGED <<tx, written, changed, active, pending, pendingAll, op, branch, retained>>
  BY DEF ResolveInvalidate, source, conns
<1>2. worker'[w] = Idle /\ \A v \in Worker : v # w => worker'[v] = worker[v]
  BY DEF ResolveInvalidate, TypeOK
<1>3. TaskInv(w)'
  BY <1>2 DEF TaskInv, Idle
<1>4. \A b \in Branch : BranchInv(b)' /\ Stays(b)
  BY <1>1, BranchFrame, Same DEF CoverInv, Grows, Keeps
<1>5. \A v \in Worker : TaskInv(v)'
  BY <1>2, <1>3, <1>4, TaskFrame DEF CoverInv
<1> QED BY <1>1, <1>4, <1>5, AwayCover

\* Forget keeps the changes noted or retained.
LEMMA ForgetCover ==
    ASSUME TypeOK, CoverInv, NEW w \in Worker, NEW b \in Branch, Forget(w, b)
    PROVE  CoverInv'
<1>1. UNCHANGED <<tx, written, changed, active, pending, pendingAll, op, retained>>
      /\ branch[b].state \notin {"none", "active", "prepared"}
  BY DEF Forget, conns
<1>2. BranchTo(b, "forgotten", branch[b].writes, branch[b].told)
  <2>1. {} \in SUBSET Entity
    OBVIOUS
  <2> QED BY <2>1, BranchMoves DEF Forget
<1>3. \A x \in Branch : /\ BranchInv(x)' /\ Stays(x)
                        /\ branch'[x].home = branch[x].home
                        /\ branch[x].state = "active" => branch'[x].state = "active"
  BY <1>1, <1>2, MovedBranch
<1>4. worker'[w] = [pc |-> "forgotten", branch |-> b] /\ \A v \in Worker : v # w => worker'[v] = worker[v]
  BY DEF Forget, TypeOK
<1>5. TaskInv(w)'
  BY <1>4 DEF TaskInv
<1>6. \A v \in Worker : TaskInv(v)'
  BY <1>3, <1>4, <1>5, TaskFrame DEF CoverInv
<1> QED BY <1>1, <1>3, <1>6, AwayCover

\* Heuristic keeps the changes noted or retained.
LEMMA HeuristicCover ==
    ASSUME TypeOK, CoverInv, NEW b \in Branch, Heuristic(b)
    PROVE  CoverInv'
<1>1. UNCHANGED <<tx, written, changed, active, pending, pendingAll, op, retained, worker>>
      /\ branch[b].state = "prepared"
  BY DEF Heuristic, conns
<1>2. BranchTo(b, "heuristic", branch[b].writes, branch[b].told)
  <2>1. {} \in SUBSET Entity
    OBVIOUS
  <2> QED BY <2>1, BranchMoves DEF Heuristic
<1>3. \A x \in Branch : /\ BranchInv(x)' /\ Stays(x)
                        /\ branch'[x].home = branch[x].home
                        /\ branch[x].state = "active" => branch'[x].state = "active"
  BY <1>1, <1>2, MovedBranch
<1>4. \A v \in Worker : TaskInv(v)'
  BY <1>1, <1>3, TaskFrame DEF CoverInv
<1> QED BY <1>1, <1>3, <1>4, AwayCover

\* Every step keeps the changes noted or retained.
LEMMA CoverStep ==
    ASSUME TypeOK, CoverInv, [Next]_vars
    PROVE  CoverInv'
<1>1. CASE UNCHANGED vars
  BY <1>1, QuietCover DEF vars, source, conns
<1>2. ASSUME NEW r \in Reader, ReaderStep(r) PROVE CoverInv'
  BY <1>2, QuietCover DEF ReaderStep, QueryCheck, QueryLookup, NextBatch, CloseStream, source, conns
<1>3. ASSUME NEW c \in Conn, ConnStep(c) PROVE CoverInv'
  <2>1. CASE Open(c)
    BY <2>1, QuietCover DEF Open, source
  <2> QED BY <1>3, <2>1, MutateCover, MutateDoneCover, BeginCover, BeginBranchCover, CommitCover,
         CommitDoneCover, RollbackCover, InTransactionCover, CloseCover, CloseDoneCover,
         PrepareBranchCover, PrepareDoneCover, ResolveBranchCover, ResolveBranchDoneCover DEF ConnStep
<1>4. ASSUME NEW w \in Worker, WorkerStep(w) PROVE CoverInv'
  BY <1>4, ResolveCover, ResolveTakeCover, ResolveInvalidateCover, ForgetCover, ForgetDoneCover
     DEF WorkerStep
<1>5. ASSUME NEW e \in Entity, SourceChange(e) PROVE CoverInv'
  BY <1>5, QuietCover DEF SourceChange, conns
<1>6. ASSUME (\E E \in SUBSET Entity : Invalidate(E)) \/ InvalidateAll PROVE CoverInv'
  BY <1>6, QuietCover DEF Invalidate, InvalidateAll, source, conns
<1> QED BY <1>1, <1>2, <1>3, <1>4, <1>5, <1>6, HeuristicCover DEF Next


\* Invalidating what a connection noted reaches all of it.
LEMMA PendingCovers ==
    ASSUME TypeOK, NEW c \in Conn, NEW W, Noted(c, W), invalidatePendingLocked(c)
    PROVE  Covers(W)
<1>1. pending[c] \in SUBSET Entity
  BY DEF TypeOK
<1> QED BY <1>1 DEF invalidatePendingLocked, Noted, Covers

\* Nothing is always noted.
LEMMA NothingNoted ==
    ASSUME NEW c \in Conn PROVE Noted(c, {})
  BY DEF Noted

\* What is acknowledged is what the source has committed.
LEMMA Acknowledged ==
    ASSUME TypeOK, NEW W, Acknowledge(W) \/ UNCHANGED acked
    PROVE  \A e \in Entity : acked'[e] = acked[e] \/ (e \in W /\ acked'[e] = committed[e])
  BY DEF Acknowledge

\* Versions only grow.
LEMMA VersionsGrow ==
    ASSUME TypeOK, (\E W \in SUBSET Entity : Commits(W)) \/ UNCHANGED committed
    PROVE  \A e \in Entity : committed[e] <= committed'[e]
  BY CommitsTyped, TypeParts

\* A step that acknowledges nothing.
LEMMA FreshUnacknowledged ==
    ASSUME TypeOK, TypeOK', FreshInv, UNCHANGED <<acked, store>>,
           UNCHANGED reader \/ \E c \in Conn : MarkActive(c),
           UNCHANGED gens \/ \E c \in Conn : invalidatePendingLocked(c),
           (\E W \in SUBSET Entity : Commits(W)) \/ UNCHANGED committed
    PROVE  FreshInv'
<1>1. Covers({})
  BY PendingCovers, NothingNoted DEF Covers
<1>2. \A e \in Entity : acked'[e] = acked[e] \/ (e \in {} /\ acked'[e] = committed[e])
  OBVIOUS
<1>3. \A r \in Reader : reader'[r].pc = "reading" =>
              /\ reader[r].pc = "reading" /\ reader'[r].entity = reader[r].entity
              /\ reader'[r].gen = reader[r].gen /\ reader'[r].got = reader[r].got
  BY ReadersMarked
<1> QED BY <1>1, <1>2, <1>3, VersionsGrow, FreshStep

\* The first steps of the calls: the source may commit.
LEMMA FreshCalls ==
    ASSUME TypeOK, TypeOK', FreshInv, NEW c \in Conn,
           \/ Open(c) \/ Begin(c) \/ Commit(c) \/ Rollback(c) \/ InTransaction(c) \/ Close(c)
           \/ \E e \in Entity, named \in BOOLEAN : Mutate(c, e, named)
           \/ \E b \in Branch : BeginBranch(c, b) \/ PrepareBranch(c, b)
           \/ \E b \in Branch, goal \in {"committed", "rolledBack"} : ResolveBranch(c, b, goal)
           \/ PrepareDone(c)
    PROVE  FreshInv'
<1>1. written[c] \in SUBSET Entity
  BY DEF TypeOK
<1>2. CASE Open(c)
  BY <1>2, FreshUnacknowledged DEF Open, source
<1>3. CASE Begin(c)
  BY <1>3, FreshUnacknowledged DEF Begin, MarkActive
<1>4. CASE Commit(c)
  BY <1>1, <1>4, FreshUnacknowledged DEF Commit
<1>5. CASE Rollback(c)
  BY <1>5, FreshUnacknowledged DEF Rollback
<1>6. CASE InTransaction(c)
  BY <1>6, FreshUnacknowledged DEF InTransaction, source
<1>7. CASE Close(c)
  BY <1>1, <1>7, FreshUnacknowledged DEF Close
<1>8. ASSUME NEW e \in Entity, NEW named \in BOOLEAN, Mutate(c, e, named) PROVE FreshInv'
  <2>1. {e} \in SUBSET Entity /\ {} \in SUBSET Entity
    OBVIOUS
  <2>2. (\E W \in SUBSET Entity : Commits(W)) \/ UNCHANGED committed
    BY <1>8, <2>1 DEF Mutate
  <2> QED BY <1>8, <2>2, FreshUnacknowledged DEF Mutate
<1>9. ASSUME NEW b \in Branch, BeginBranch(c, b) PROVE FreshInv'
  BY <1>9, FreshUnacknowledged DEF BeginBranch, MarkActive
<1>10. ASSUME NEW b \in Branch, PrepareBranch(c, b) PROVE FreshInv'
  BY <1>10, FreshUnacknowledged DEF PrepareBranch
<1>11. ASSUME NEW b \in Branch, NEW goal \in {"committed", "rolledBack"}, ResolveBranch(c, b, goal)
       PROVE  FreshInv'
  BY <1>1, <1>11, FreshUnacknowledged DEF ResolveBranch, source
<1>12. CASE PrepareDone(c)
  BY <1>12, FreshUnacknowledged DEF PrepareDone, source
<1> QED BY <1>2, <1>3, <1>4, <1>5, <1>6, <1>7, <1>8, <1>9, <1>10, <1>11, <1>12

\* The last steps: what is acknowledged was noted, and is invalidated.
LEMMA FreshMutateDone ==
    ASSUME TypeOK, TypeOK', FreshInv, NEW c \in Conn, MutateDone(c)
    PROVE  FreshInv'
<1>1. UNCHANGED <<committed, reader, store>>
  BY DEF MutateDone
<1>2. CASE UNCHANGED <<acked, gens>>
  BY <1>1, <1>2, FreshUnacknowledged
<1>3. CASE /\ IF op[c].named THEN invalidateEntities(op[c].writes) ELSE invalidateAll
           /\ Acknowledge(op[c].writes)
  <2>1. op[c].writes \in SUBSET Entity
    BY OpFields DEF MutateDone, TypeOK
  <2>2. Covers(op[c].writes)
    BY <1>3, <2>1 DEF Covers
  <2> QED BY <1>1, <1>3, <2>2, Acknowledged, VersionsGrow, FreshStep
<1> QED BY <1>2, <1>3 DEF MutateDone

\* Commit returns: its changes were noted, and are invalidated.
LEMMA FreshCommitDone ==
    ASSUME TypeOK, TypeOK', CoverInv, FreshInv, NEW c \in Conn, CommitDone(c)
    PROVE  FreshInv'
<1>1. UNCHANGED <<committed, reader, store>> /\ invalidatePendingLocked(c)
  BY DEF CommitDone, source
<1>2. Noted(c, op[c].writes)
  BY DEF CoverInv, NotedInv, CommitDone
<1>3. Acknowledge(op[c].writes) \/ UNCHANGED acked
  BY DEF CommitDone
<1> QED BY <1>1, <1>2, <1>3, PendingCovers, Acknowledged, VersionsGrow, FreshStep

\* Close returns: what it committed was noted by an active connection.
LEMMA FreshCloseDone ==
    ASSUME TypeOK, TypeOK', CoverInv, FreshInv, NEW c \in Conn, CloseDone(c)
    PROVE  FreshInv'
<1>1. UNCHANGED <<committed, reader, store>> /\ Acknowledge(op[c].writes)
  BY DEF CloseDone, source
<1>2. op[c].writes = {} \/ (active[c] /\ Noted(c, op[c].writes))
  BY DEF CoverInv, NotedInv, CloseDone
<1>3. Covers(op[c].writes)
  <2>1. CASE active[c]
    BY <1>2, <2>1, PendingCovers, NothingNoted DEF CloseDone
  <2>2. CASE ~active[c]
    BY <1>2, <2>2 DEF CloseDone, Covers
  <2> QED BY <2>1, <2>2
<1> QED BY <1>1, <1>3, Acknowledged, VersionsGrow, FreshStep

\* CommitBranch and RollbackBranch of a connection return.
LEMMA FreshResolveBranchDone ==
    ASSUME TypeOK, TypeOK', CoverInv, FreshInv, NEW c \in Conn, ResolveBranchDone(c)
    PROVE  FreshInv'
<1>1. UNCHANGED <<committed, reader, store>>
  BY DEF ResolveBranchDone, source
<1>2. CASE op[c].outcome = "committed"
  <2>1. invalidatePendingLocked(c) /\ Acknowledge(op[c].writes)
    BY <1>2 DEF ResolveBranchDone
  <2>2. Noted(c, op[c].writes)
    BY DEF CoverInv, NotedInv, ResolveBranchDone
  <2> QED BY <1>1, <2>1, <2>2, PendingCovers, Acknowledged, VersionsGrow, FreshStep
<1>3. CASE op[c].outcome # "committed"
  BY <1>1, <1>3, FreshUnacknowledged DEF ResolveBranchDone
<1> QED BY <1>2, <1>3

\* A recovery caller acknowledges what it took.
LEMMA FreshWorker ==
    ASSUME TypeOK, TypeOK', CoverInv, FreshInv, NEW w \in Worker, WorkerStep(w)
    PROVE  FreshInv'
<1>1. ASSUME NEW b \in Branch, NEW goal \in {"committed", "rolledBack"}, Resolve(w, b, goal)
      PROVE  FreshInv'
  <2>1. branch[b].writes \in SUBSET Entity
    BY DEF TypeOK, BranchOf
  <2> QED BY <1>1, <2>1, FreshUnacknowledged DEF Resolve
<1>2. CASE ResolveTake(w) \/ ForgetDone(w)
  BY <1>2, FreshUnacknowledged DEF ResolveTake, ForgetDone, source
<1>3. ASSUME NEW b \in Branch, Forget(w, b) PROVE FreshInv'
  BY <1>3, FreshUnacknowledged DEF Forget
<1>4. CASE ResolveInvalidate(w)
  <2> DEFINE W == IF worker[w].pend.blank THEN {} ELSE worker[w].writes
  <2>1. UNCHANGED <<committed, reader, store>> /\ Acknowledge(W)
    BY <1>4 DEF ResolveInvalidate, source
  <2>2. Holds(worker[w].pend, worker[w].writes)
    BY <1>4 DEF CoverInv, TaskInv, ResolveInvalidate
  <2>3. worker[w].pend.entities \in SUBSET Entity
    BY <1>4, TaskFields DEF ResolveInvalidate, TypeOK, Retained
  <2>4. Covers(W)
    BY <1>4, <2>2, <2>3 DEF ResolveInvalidate, Holds, Covers
  <2> QED BY <2>1, <2>4, Acknowledged, VersionsGrow, FreshStep
<1> QED BY <1>1, <1>2, <1>3, <1>4 DEF WorkerStep

\* The source changes on its own, or the Controller invalidates.
LEMMA FreshOutside ==
    ASSUME TypeOK, TypeOK', FreshInv,
           \/ \E e \in Entity : SourceChange(e)
           \/ \E b \in Branch : Heuristic(b)
           \/ \E E \in SUBSET Entity : Invalidate(E)
           \/ InvalidateAll
    PROVE  FreshInv'
<1>1. ASSUME NEW e \in Entity, SourceChange(e) PROVE FreshInv'
  <2>1. {e} \in SUBSET Entity
    OBVIOUS
  <2> QED BY <1>1, <2>1, FreshUnacknowledged DEF SourceChange
<1>2. ASSUME NEW b \in Branch, Heuristic(b) PROVE FreshInv'
  <2>1. branch[b].writes \in SUBSET Entity
    BY DEF TypeOK, BranchOf
  <2> QED BY <1>2, <2>1, FreshUnacknowledged DEF Heuristic
<1>3. ASSUME NEW E \in SUBSET Entity, Invalidate(E) PROVE FreshInv'
  <2>1. Covers(E) /\ Acknowledge(E) /\ UNCHANGED <<committed, reader, store>>
    BY <1>3 DEF Invalidate, Covers, source
  <2> QED BY <2>1, Acknowledged, VersionsGrow, FreshStep
<1>4. CASE InvalidateAll
  <2>1. Covers(Entity) /\ Acknowledge(Entity) /\ UNCHANGED <<committed, reader, store>>
    BY <1>4 DEF InvalidateAll, Covers, source
  <2> QED BY <2>1, Acknowledged, VersionsGrow, FreshStep
<1> QED BY <1>1, <1>2, <1>3, <1>4

\* A query looks up, reads or stores.
LEMMA FreshReader ==
    ASSUME TypeOK, FreshInv, NEW r \in Reader, ReaderStep(r)
    PROVE  FreshInv'
<1>1. ASSUME NEW c \in Conn, NEW q \in Entity, QueryCheck(r, c, q) PROVE FreshInv'
  <2>1. UNCHANGED <<committed, acked, gens, store>>
    BY <1>1 DEF QueryCheck, source
  <2>2. \A p \in Reader : reader'[p] = reader[p] \/ reader'[p].pc = "lookup"
    BY <1>1 DEF QueryCheck, Opening, TypeOK
  <2>3. AllFresh(reader', store', globalGeneration', entityGenerations', acked')
    BY <2>1, <2>2, FreshParts DEF AllFresh, gens
  <2> QED BY <2>1, <2>3, FreshParts
<1> QED BY <1>1, FreshLookup, FreshBatch, FreshClose DEF ReaderStep

\* Every step keeps results fresh.
LEMMA FreshNext ==
    ASSUME TypeOK, TypeOK', CoverInv, FreshInv, [Next]_vars
    PROVE  FreshInv'
<1>1. CASE UNCHANGED vars
  BY <1>1, FreshUnacknowledged DEF vars, source
<1>2. ASSUME NEW c \in Conn, ConnStep(c) PROVE FreshInv'
  BY <1>2, FreshCalls, FreshMutateDone, FreshCommitDone, FreshCloseDone, FreshResolveBranchDone
     DEF ConnStep
<1> QED BY <1>1, <1>2, FreshReader, FreshWorker, FreshOutside DEF Next

(***************************************************************************)
(* The inductive invariant.                                                *)
(***************************************************************************)
LEMMA InitCache == Init => CacheInv
<1> SUFFICES ASSUME Init PROVE CacheInv
  OBVIOUS
<1>1. TypeOK
  BY InitTypes
<1>2. ASSUME NEW c \in Conn PROVE TxInv(c) /\ NotedInv(c)
  <2>1. tx[c] = "none" /\ written[c] = {} /\ changed[c] = {} /\ op[c].call = "none" /\ \A b \in Branch : branch[b].home = "none"
    BY DEF Init, NoBranch, NoOp
  <2> QED BY <2>1, CacheAssumption DEF TxInv, NotedInv, Noted, Ended
<1>3. ASSUME NEW b \in Branch PROVE BranchInv(b)
  <2>1. branch[b] = NoBranch /\ retained[b] = NotRetained /\ \A c \in Conn : op[c].call = "none"
    BY DEF Init, NoOp
  <2> QED BY <2>1, CacheAssumption DEF BranchInv, PrepareInv, NoBranch, NotRetained, Holds
<1>4. ASSUME NEW w \in Worker PROVE TaskInv(w)
  BY DEF Init, TaskInv, Idle
<1>5. FreshInv
  BY DEF Init, FreshInv, Idle
<1> QED BY <1>1, <1>2, <1>3, <1>4, <1>5 DEF CacheInv, CoverInv

\* Type correctness of the query cache for every instance, whatever its callers
\* do: the changes a connection noted, the retained changes of the branches, the
\* streams being recorded and the store of sdk-go/provider/cache.
THEOREM CacheTyped == Spec => []TypeOK
  BY InitTypes, TypeStep, PTL DEF Spec

\* The invariant behind the cache's freshness: what the calls of a transaction
\* changed is noted by its connection (recordMutationLocked) or retained under
\* its branch (retainBranchInvalidation) until it is invalidated, and every
\* result of the current generation, stored or being recorded, is no older than
\* what was acknowledged.  A branch that is prepared again when neither is left
\* keeps the mark of a record of no changes.
THEOREM CacheInductive == Spec => []CacheInv
<1>1. CacheInv /\ [Next]_vars => CacheInv'
  BY TypeStep, CoverStep, FreshNext DEF CacheInv
<1> QED BY <1>1, InitCache, PTL DEF Spec

\* The invariant gives the property the run checks.
LEMMA FreshEntries == ASSUME TypeOK, FreshInv PROVE CacheFresh
<1> SUFFICES ASSUME NEW i \in DOMAIN store, Reachable(store[i]), NEW e \in Reads[store[i].entity]
             PROVE  store[i].got[e] >= acked[e]
  BY DEF CacheFresh, Entries, Range
<1>1. Fresh(store[i]) /\ ToRead(store[i]) = {}
  BY DEF FreshInv
<1>2. store[i].gen.global = globalGeneration /\ store[i].gen.entity = entityGenerations[store[i].entity]
  BY DEF Reachable, generation
<1>3. store[i].got[e] # Unread
  BY <1>1 DEF ToRead
<1> QED BY <1>1, <1>2, <1>3 DEF Fresh, FreshAt

\* Once a change, a commit, the commit of a branch or Controller.Invalidate has
\* returned, no query is answered from the cache with older data of the entities
\* concerned or of those that depend on them, however the calls of all
\* connections, streams and recovery callers interleave, fail and are repeated
\* (storeIfCurrent, invalidateEntities, invalidatePendingLocked,
\* resolveBranchInvalidation), except for the two things CacheFresh names: a
\* change made outside of a transaction that the cache only noted, and a branch
\* prepared again when nothing noted of it was left.
THEOREM CacheAlwaysFresh == Spec => []CacheFresh
<1>1. CacheInv => CacheFresh
  BY FreshEntries DEF CacheInv
<1> QED BY <1>1, CacheInductive, PTL

(***************************************************************************)
(* Uncommitted data.                                                       *)
(***************************************************************************)
\* Every step keeps what queries that were not overlapped read, and what of it is
\* stored, committed.
LEMMA CleanStep ==
    ASSUME TypeOK, TypeOK', CoverInv, CleanInv, [Next]_vars
    PROVE  CleanInv'
<1>1. ASSUME UNCHANGED <<reader, store>>, \A c \in Conn : tx'[c] = tx[c] \/ tx'[c] = "none"
      PROVE  CleanInv'
  <2>1. ASSUME NEW r \in Reader, reader[r] # Idle, tx'[reader[r].conn] # "none"
        PROVE  reader[r].overlapped
    <3>1. reader[r].conn \in Conn
      BY <2>1, ReaderFields DEF TypeOK
    <3> QED BY <1>1, <2>1, <3>1 DEF CleanInv
  <2> QED BY <1>1, <2>1 DEF CleanInv
<1>2. ASSUME NEW r \in Reader, ReaderStep(r) PROVE CleanInv'
  <2>1. ASSUME NEW c \in Conn, NEW q \in Entity, QueryCheck(r, c, q) PROVE CleanInv'
    <3>1. UNCHANGED <<tx, store>>
      BY <2>1 DEF QueryCheck, source
    <3>2. \A p \in Reader : \/ reader'[p] = reader[p]
                            \/ reader'[p].pc = "lookup" /\ reader'[p].conn = c /\ ~active[c]
      BY <2>1 DEF QueryCheck, TypeOK, Opening
    <3>3. ~active[c] => tx[c] = "none"
      BY DEF CoverInv, TxInv
    <3> QED BY <3>1, <3>2, <3>3 DEF CleanInv
  <2>2. CASE QueryLookup(r)
    <3>1. UNCHANGED tx
      BY <2>2 DEF QueryLookup, source
    <3>2. \A p \in Reader : \/ reader'[p] = reader[p] \/ reader'[p] = Idle
                            \/ /\ p = r /\ reader'[p].conn = reader[r].conn /\ ~reader'[p].dirty
                               /\ reader'[p].overlapped = reader[r].overlapped
      <4> DEFINE q == reader[r].entity
                 s == [pc |-> "reading", conn |-> reader[r].conn, entity |-> q,
                       gen |-> generation(q), got |-> [e \in Entity |-> Unread],
                       dirty |-> FALSE, overlapped |-> reader[r].overlapped, size |-> 0, cacheable |-> TRUE]
      <4>1. \A p \in Reader : p # r => reader'[p] = reader[p]
        BY <2>2 DEF QueryLookup, TypeOK
      <4>2. reader'[r] = Idle \/ reader'[r] = s
        BY <2>2 DEF QueryLookup, TypeOK
      <4> QED BY <4>1, <4>2
    <3>3. reader[r] # Idle
      BY <2>2 DEF QueryLookup, Idle
    <3>4. \A k \in DOMAIN store' : \E j \in DOMAIN store : store'[k] = store[j]
      <4>1. store \in Seq(Entry)
        BY DEF TypeOK
      <4>2. ASSUME NEW i \in Hit(reader[r].entity), store' = <<store[i]>> \o Without(store[i])
            PROVE  \A k \in DOMAIN store' : \E j \in DOMAIN store : store'[k] = store[j]
        BY <4>1, <4>2, FrontKeeps DEF Hit, PlacesOf
      <4>3. CASE store' = Without([entity |-> reader[r].entity, gen |-> generation(reader[r].entity)])
        BY <4>1, <4>3, WithoutKeeps
      <4> QED BY <2>2, <4>2, <4>3 DEF QueryLookup
    <3> QED BY <3>1, <3>2, <3>3, <3>4 DEF CleanInv, Idle
  <2>3. CASE NextBatch(r)
    <3>1. UNCHANGED <<tx, store>>
      BY <2>3 DEF NextBatch, source
    <3>2. PICK e \in Entity :
            /\ reader[r] \in Recording /\ reader'[r] \in Recording
            /\ reader'[r].dirty = (reader[r].dirty \/ e \in written[reader[r].conn])
            /\ reader'[r].conn = reader[r].conn /\ reader'[r].overlapped = reader[r].overlapped
            /\ reader' = [reader EXCEPT ![r] = reader'[r]]
      BY <2>3, NextBatchReads
    <3>4. reader[r] # Idle /\ reader[r].pc = "reading" /\ reader[r].conn \in Conn
      BY <3>2 DEF Recording, Idle
    <3>5. tx[reader[r].conn] # "none" \/ reader[r].dirty => reader[r].overlapped
      BY <3>4 DEF CleanInv
    <3>6. tx[reader[r].conn] = "none" => written[reader[r].conn] = {}
      BY <3>4 DEF CoverInv, TxInv
    <3>7. \A p \in Reader : p # r => reader'[p] = reader[p]
      BY <3>2 DEF TypeOK
    <3>8. reader'[r].dirty => reader'[r].overlapped
      BY <3>2, <3>5, <3>6
    <3> QED BY <3>1, <3>2, <3>5, <3>7, <3>8 DEF CleanInv
  <2>4. CASE CloseStream(r)
    <3>1. UNCHANGED tx /\ \A p \in Reader : reader'[p] = IF p = r THEN Idle ELSE reader[p]
      BY <2>4 DEF CloseStream, source, TypeOK
    <3>2. reader[r].dirty => reader[r].overlapped
      BY <2>4 DEF CloseStream, CleanInv
    <3>3. EntryOf(reader[r]).dirty => EntryOf(reader[r]).overlapped
      BY <3>2 DEF EntryOf
    <3>4. \A k \in DOMAIN store' : store'[k].dirty => store'[k].overlapped
      BY <2>4, <3>3, CloseStreamStores DEF CleanInv
    <3> QED BY <3>1, <3>4 DEF CleanInv, Idle
  <2> QED BY <1>2, <2>1, <2>2, <2>3, <2>4 DEF ReaderStep
<1>3. ASSUME NEW c \in Conn, MarkActive(c), \A d \in Conn : d # c => tx'[d] = tx[d]
      PROVE  CleanInv'
  <2>1. UNCHANGED store
    BY <1>3 DEF MarkActive
  <2>2. ASSUME NEW r \in Reader
        PROVE  /\ reader'[r] # Idle /\ tx'[reader'[r].conn] # "none" => reader'[r].overlapped
               /\ reader'[r].pc = "reading" /\ reader'[r].dirty => reader'[r].overlapped
    <3>1. CASE reader'[r].overlapped
      BY <3>1
    <3>2. CASE reader'[r] = reader[r] /\ ~(reader[r] # Idle /\ reader[r].conn = c)
      <4>1. reader[r] # Idle => reader[r].conn \in Conn
        BY ReaderFields DEF TypeOK
      <4> QED BY <1>3, <3>2, <4>1 DEF CleanInv
    <3> QED BY <1>3, <3>1, <3>2, ReadersMarked
  <2> QED BY <2>1, <2>2 DEF CleanInv
<1>4. ASSUME NEW c \in Conn, ConnStep(c) PROVE CleanInv'
  <2>1. \A d \in Conn : d # c => tx'[d] = tx[d]
    BY <1>4 DEF ConnStep, Open, Mutate, MutateDone, Begin, BeginBranch, Commit, CommitDone,
       Rollback, InTransaction, Close, CloseDone, PrepareBranch, PrepareDone, ResolveBranch,
       ResolveBranchDone, EndTx, TypeOK, source
  <2>2. CASE Begin(c) \/ \E b \in Branch : BeginBranch(c, b)
    <3>1. MarkActive(c)
      BY <2>2 DEF Begin, BeginBranch
    <3> QED BY <1>3, <2>1, <3>1
  <2>3. CASE ~(Begin(c) \/ \E b \in Branch : BeginBranch(c, b))
    <3>1. UNCHANGED <<reader, store>>
      BY <1>4, <2>3 DEF ConnStep, Open, Mutate, MutateDone, Commit, CommitDone,
         Rollback, InTransaction, Close, CloseDone, PrepareBranch, PrepareDone, ResolveBranch,
         ResolveBranchDone
    <3>2. tx'[c] = tx[c] \/ tx'[c] = "none"
      BY <1>4, <2>3 DEF ConnStep, Open, Mutate, MutateDone, Commit, CommitDone,
         Rollback, InTransaction, Close, CloseDone, PrepareBranch, PrepareDone, ResolveBranch,
         ResolveBranchDone, EndTx, TypeOK, source
    <3> QED BY <1>1, <2>1, <3>1, <3>2
  <2> QED BY <2>2, <2>3
<1>5. ASSUME UNCHANGED <<tx, reader, store>> PROVE CleanInv'
  BY <1>1, <1>5
<1>6. CASE UNCHANGED vars
  BY <1>5, <1>6 DEF vars, source
<1>7. ASSUME NEW w \in Worker, WorkerStep(w) PROVE CleanInv'
  BY <1>5, <1>7 DEF WorkerStep, Resolve, ResolveTake, ResolveInvalidate, Forget, ForgetDone, source
<1>8. ASSUME \/ \E e \in Entity : SourceChange(e)
             \/ \E b \in Branch : Heuristic(b)
             \/ \E E \in SUBSET Entity : Invalidate(E)
             \/ InvalidateAll
      PROVE  CleanInv'
  BY <1>5, <1>8 DEF SourceChange, Heuristic, Invalidate, InvalidateAll, source
<1> QED BY <1>2, <1>4, <1>6, <1>7, <1>8 DEF Next

\* What a transaction wrote and did not commit comes into the cache only through
\* a query that was open on the connection when the transaction began: Query
\* tests transactionActive once, before it looks the cache up, and that test
\* keeps every later query of the connection out.
THEOREM NothingUncommittedCached == Spec => []NothingUncommitted
<1>1. Init => CleanInv
  BY DEF Init, CleanInv, Idle
<1>2. CacheInv /\ CacheInv' /\ CleanInv /\ [Next]_vars => CleanInv'
  BY CleanStep DEF CacheInv
<1>3. CacheInv /\ CleanInv => NothingUncommitted
  BY DEF CacheInv, CleanInv, NothingUncommitted, Entries, Range
<1> QED BY <1>1, <1>2, <1>3, CacheInductive, PTL DEF Spec

(***************************************************************************)
(* The limits of the store.                                                *)
(***************************************************************************)
\* t is made of entries of s, none of them used twice.
Embeds(f, t, s) ==
    /\ f \in [DOMAIN t -> DOMAIN s]
    /\ \A j, k \in DOMAIN t : f[j] = f[k] => j = k
    /\ \A k \in DOMAIN t : t[k] = s[f[k]]

\* The bytes of entries that keep MaxEntryBytes are finitely many.
LEMMA HeldFinite ==
    ASSUME NEW s \in Seq(Entry), \A k \in DOMAIN s : s[k].size <= MaxEntryBytes
    PROVE  IsFiniteSet(Held(s))
<1>1. Held(s) \subseteq (1 .. Len(s)) \X (1 .. MaxEntryBytes)
  <2> SUFFICES ASSUME NEW k \in DOMAIN s, NEW p \in {k} \X (1 .. s[k].size)
               PROVE  p \in (1 .. Len(s)) \X (1 .. MaxEntryBytes)
    BY DEF Held
  <2>0. s[k] \in Entry /\ k \in 1 .. Len(s)
    OBVIOUS
  <2>1. s[k].size \in Nat /\ s[k].size <= MaxEntryBytes /\ k \in 1 .. Len(s)
    BY <2>0 DEF Entry
  <2>2. MaxEntryBytes \in Nat
    BY CacheAssumption
  <2> QED BY <2>1, <2>2
<1>2. IsFiniteSet(1 .. Len(s)) /\ IsFiniteSet(1 .. MaxEntryBytes)
  BY FS_Interval, CacheAssumption
<1>3. IsFiniteSet((1 .. Len(s)) \X (1 .. MaxEntryBytes))
  BY <1>2, FS_Product
<1> QED BY <1>1, <1>3, FS_Subset

\* Entries that were there before take no more room.
LEMMA EmbeddedBytes ==
    ASSUME NEW s \in Seq(Entry), \A k \in DOMAIN s : s[k].size <= MaxEntryBytes,
           NEW t \in Seq(Entry), NEW f, Embeds(f, t, s)
    PROVE  /\ Bytes(s) \in Nat /\ Bytes(t) \in Nat
           /\ Bytes(t) <= Bytes(s)
<1> DEFINE g == [p \in Held(t) |-> <<f[p[1]], p[2]>>]
<1>1. ASSUME NEW p \in Held(t)
      PROVE  /\ p[1] \in DOMAIN t /\ p = <<p[1], p[2]>>
             /\ <<f[p[1]], p[2]>> \in Held(s)
  <2>1. PICK k \in DOMAIN t : p \in {k} \X (1 .. t[k].size)
    BY <1>1 DEF Held
  <2>2. p[1] = k /\ p[2] \in 1 .. t[k].size /\ p = <<p[1], p[2]>>
    BY <2>1
  <2>3. f[k] \in DOMAIN s /\ s[f[k]] = t[k]
    BY <2>1 DEF Embeds
  <2>4. <<f[k], p[2]>> \in {f[k]} \X (1 .. s[f[k]].size)
    BY <2>2, <2>3
  <2> QED BY <2>1, <2>2, <2>3, <2>4 DEF Held
<1>2. g \in [Held(t) -> Held(s)]
  BY <1>1
<1>3. ASSUME NEW p \in Held(t), NEW o \in Held(t), g[p] = g[o] PROVE p = o
  <2>1. f[p[1]] = f[o[1]] /\ p[2] = o[2]
    BY <1>3
  <2>2. p[1] = o[1]
    BY <1>1, <2>1 DEF Embeds
  <2> QED BY <1>1, <2>1, <2>2
<1>4. g \in Injection(Held(t), Held(s))
  BY <1>2, <1>3 DEF Injection, IsInjective
<1>5. IsFiniteSet(Held(s))
  BY HeldFinite
<1> HIDE DEF g
<1>6. IsFiniteSet(Held(t)) /\ Cardinality(Held(t)) <= Cardinality(Held(s))
  BY <1>4, <1>5, FS_Injection
<1> QED BY <1>5, <1>6, FS_CardinalityType DEF Bytes

\* One entry per key.
OneEach(s) == \A i, j \in DOMAIN s : SameKey(s[i], s[j]) => i = j

\* The store within its limits.
Kept(s) ==
    /\ Len(s) <= MaxEntries /\ Bytes(s) <= MaxBytes
    /\ OneEach(s)
    /\ \A k \in DOMAIN s : s[k].size <= MaxEntryBytes

\* What is made of entries of a store within its limits, each used once and no
\* more of them, is within them.
LEMMA EmbeddedKept ==
    ASSUME NEW s \in Seq(Entry), Kept(s), NEW t \in Seq(Entry), Len(t) <= Len(s),
           NEW f, Embeds(f, t, s)
    PROVE  Kept(t)
<1>1. \A k \in DOMAIN s : s[k].size <= MaxEntryBytes
  BY DEF Kept
<1>2. Bytes(s) \in Nat /\ Bytes(t) \in Nat /\ Bytes(t) <= Bytes(s) /\ Bytes(s) <= MaxBytes
  BY <1>1, EmbeddedBytes DEF Kept
<1>3. Bytes(t) <= MaxBytes
  BY <1>2, CacheAssumption
<1>4. Len(t) <= MaxEntries
  <2>1. Len(s) \in Nat /\ Len(t) \in Nat /\ Len(s) <= MaxEntries
    BY DEF Kept
  <2> QED BY <2>1, CacheAssumption
<1>5. OneEach(t)
  BY DEF OneEach, Embeds, Kept
<1>6. \A k \in DOMAIN t : t[k].size <= MaxEntryBytes
  BY <1>1 DEF Embeds
<1> QED BY <1>3, <1>4, <1>5, <1>6 DEF Kept

\* memoryStore.remove: what is left, and where it was.
LEMMA WithoutEmbeds ==
    ASSUME store \in Seq(Entry), NEW x, NEW i \in PlacesOf(x), PlacesOf(x) = {i}
    PROVE  /\ i \in 1 .. Len(store)
           /\ Without(x) \in Seq(Entry) /\ Len(Without(x)) = Len(store) - 1
           /\ \A k \in 1 .. Len(store) - 1 :
                Without(x)[k] = store[IF k < i THEN k ELSE k + 1]
<1>1. i = (CHOOSE j \in PlacesOf(x) : TRUE) /\ i \in 1 .. Len(store)
  BY DEF PlacesOf
<1>2. Without(x) = SubSeq(store, 1, i - 1) \o SubSeq(store, i + 1, Len(store))
  BY <1>1 DEF Without, RemoveAt
<1> DEFINE A == SubSeq(store, 1, i - 1)
           B == SubSeq(store, i + 1, Len(store))
<1>3. A \in Seq(Entry) /\ Len(A) = i - 1 /\ \A k \in 1 .. i - 1 : A[k] = store[k]
  BY <1>1
<1>4. B \in Seq(Entry) /\ Len(B) = Len(store) - i
      /\ \A k \in 1 .. Len(store) - i : B[k] = store[i + k]
  BY <1>1
<1>5. Without(x) = A \o B
  BY <1>2
<1> HIDE DEF A, B
<1>6. A \o B \in Seq(Entry) /\ Len(A \o B) = Len(store) - 1
  BY <1>1, <1>3, <1>4
<1>7. ASSUME NEW k \in 1 .. Len(store) - 1
      PROVE  (A \o B)[k] = store[IF k < i THEN k ELSE k + 1]
  <2>1. CASE k < i
    BY <1>1, <1>3, <1>4, <1>7, <2>1
  <2>2. CASE ~(k < i)
    <3>1. k - (i - 1) \in 1 .. Len(store) - i /\ (A \o B)[k] = B[k - (i - 1)]
      BY <1>1, <1>3, <1>4, <1>6, <1>7, <2>2
    <3>2. i + (k - (i - 1)) = k + 1
      BY <1>1, <1>7
    <3>3. B[k - (i - 1)] = store[k + 1]
      BY <1>4, <3>1, <3>2
    <3> QED BY <2>2, <3>1, <3>3
  <2> QED BY <2>1, <2>2
<1> QED BY <1>1, <1>5, <1>6, <1>7

\* A key is at one place at most.
LEMMA OnePlace ==
    ASSUME OneEach(store), NEW x, NEW i \in PlacesOf(x)
    PROVE  PlacesOf(x) = {i}
<1>1. ASSUME NEW j \in PlacesOf(x) PROVE j = i
  <2>1. i \in DOMAIN store /\ j \in DOMAIN store /\ SameKey(store[i], x) /\ SameKey(store[j], x)
    BY <1>1 DEF PlacesOf
  <2>2. SameKey(store[i], store[j])
    BY <2>1 DEF SameKey
  <2> QED BY <2>1, <2>2 DEF OneEach
<1> QED BY <1>1

\* memoryStore.remove keeps the limits, and leaves no entry of the key.
LEMMA WithoutKept ==
    ASSUME store \in Seq(Entry), Kept(store), NEW x
    PROVE  /\ Without(x) \in Seq(Entry) /\ Kept(Without(x))
           /\ \A k \in DOMAIN Without(x) : ~SameKey(Without(x)[k], x)
<1>1. CASE PlacesOf(x) = {}
  BY <1>1 DEF Without, PlacesOf
<1>2. CASE PlacesOf(x) # {}
  <2>1. PICK i \in PlacesOf(x) : TRUE
    BY <1>2
  <2>2. PlacesOf(x) = {i}
    BY <2>1, OnePlace DEF Kept
  <2> DEFINE W == Without(x)
             f == [k \in 1 .. Len(store) - 1 |-> IF k < i THEN k ELSE k + 1]
  <2>3. /\ i \in 1 .. Len(store)
        /\ W \in Seq(Entry) /\ Len(W) = Len(store) - 1
        /\ \A k \in 1 .. Len(store) - 1 : W[k] = store[IF k < i THEN k ELSE k + 1]
    BY <2>2, WithoutEmbeds
  <2> HIDE DEF W
  <2>4. DOMAIN W = 1 .. Len(store) - 1 /\ DOMAIN store = 1 .. Len(store) /\ Len(store) \in Nat
    BY <2>3
  <2>5. \A k \in 1 .. Len(store) - 1 : f[k] = IF k < i THEN k ELSE k + 1
    OBVIOUS
  <2>6. \A k \in 1 .. Len(store) - 1 : f[k] \in 1 .. Len(store) /\ f[k] # i
    BY <2>3, <2>4, <2>5
  <2>7. \A j, k \in 1 .. Len(store) - 1 : f[j] = f[k] => j = k
    BY <2>3, <2>4, <2>5
  <2>8. f \in [DOMAIN W -> DOMAIN store]
    <3>1. f = [k \in DOMAIN W |-> f[k]]
      BY <2>4
    <3> QED BY <3>1, <2>4, <2>6
  <2>9. \A k \in 1 .. Len(store) - 1 : W[k] = store[f[k]]
    BY <2>3, <2>5
  <2> HIDE DEF f
  <2>10. Embeds(f, W, store)
    BY <2>4, <2>7, <2>8, <2>9 DEF Embeds
  <2>11. Kept(W)
    <3>1. Len(W) <= Len(store)
      BY <2>3, <2>4
    <3> QED BY <3>1, <2>3, <2>10, EmbeddedKept
  <2>12. ASSUME NEW k \in DOMAIN W PROVE ~SameKey(W[k], x)
    <3>1. f[k] \in DOMAIN store /\ f[k] \notin PlacesOf(x) /\ W[k] = store[f[k]]
      BY <2>2, <2>4, <2>6, <2>9, <2>12
    <3> QED BY <3>1 DEF PlacesOf
  <2> QED BY <2>3, <2>11, <2>12 DEF W
<1> QED BY <1>1, <1>2

\* memoryStore.get keeps the limits: the entry moved to the front was there.
LEMMA FrontKept ==
    ASSUME store \in Seq(Entry), Kept(store), NEW i \in DOMAIN store
    PROVE  Kept(<<store[i]>> \o Without(store[i]))
<1>1. i \in PlacesOf(store[i])
  BY DEF PlacesOf, SameKey
<1>2. PlacesOf(store[i]) = {i}
  BY <1>1, OnePlace DEF Kept
<1> DEFINE W == Without(store[i])
           x == store[i]
           t == <<x>> \o W
           f == [k \in 1 .. Len(store) |-> IF k = 1 THEN i ELSE IF k - 1 < i THEN k - 1 ELSE k]
<1>3. /\ i \in 1 .. Len(store)
      /\ W \in Seq(Entry) /\ Len(W) = Len(store) - 1
      /\ \A k \in 1 .. Len(store) - 1 : W[k] = store[IF k < i THEN k ELSE k + 1]
  BY <1>1, <1>2, WithoutEmbeds
<1>4. x \in Entry /\ Len(store) \in Nat /\ DOMAIN store = 1 .. Len(store)
  OBVIOUS
<1> HIDE DEF W, x
<1>5. t \in Seq(Entry) /\ Len(t) = Len(store) /\ t[1] = x
      /\ \A k \in 2 .. Len(store) : t[k] = W[k - 1]
  BY <1>3, <1>4
<1>6. \A k \in 1 .. Len(store) : f[k] = IF k = 1 THEN i ELSE IF k - 1 < i THEN k - 1 ELSE k
  OBVIOUS
<1>7. \A k \in 1 .. Len(store) : f[k] \in 1 .. Len(store)
  BY <1>3, <1>4, <1>6
<1>8. \A j, k \in 1 .. Len(store) : f[j] = f[k] => j = k
  BY <1>3, <1>4, <1>6
<1>9. DOMAIN t = 1 .. Len(store)
  BY <1>5
<1> HIDE DEF t
<1>10. ASSUME NEW k \in 1 .. Len(store) PROVE t[k] = store[f[k]]
  <2>1. CASE k = 1
    BY <1>5, <1>6, <1>10, <2>1 DEF x
  <2>2. CASE k # 1
    <3>1. k \in 2 .. Len(store) /\ k - 1 \in 1 .. Len(store) - 1 /\ (k - 1) + 1 = k
      BY <1>4, <1>10, <2>2
    <3>2. t[k] = W[k - 1] /\ W[k - 1] = store[IF k - 1 < i THEN k - 1 ELSE (k - 1) + 1]
      BY <1>3, <1>5, <3>1
    <3> QED BY <1>6, <1>10, <2>2, <3>1, <3>2
  <2> QED BY <2>1, <2>2
<1>11. f \in [DOMAIN t -> DOMAIN store]
  BY <1>4, <1>7, <1>9
<1> HIDE DEF f
<1>12. Embeds(f, t, store)
  BY <1>4, <1>8, <1>9, <1>10, <1>11 DEF Embeds
<1>13. Kept(t)
  BY <1>4, <1>5, <1>12, EmbeddedKept
<1> QED BY <1>13 DEF t, x, W

\* memoryStore.set ends within the limits.
LEMMA SetKept ==
    ASSUME store \in Seq(Entry), Kept(store), NEW x \in Entry, x.size <= MaxEntryBytes, set(x)
    PROVE  Kept(store')
<1> DEFINE W == Without(x)
           s == <<x>> \o W
<1>1. W \in Seq(Entry) /\ Kept(W) /\ \A k \in DOMAIN W : ~SameKey(W[k], x)
  BY WithoutKept
<1>2. PICK n \in 0 .. Len(s) : /\ n <= MaxEntries /\ Bytes(SubSeq(s, 1, n)) <= MaxBytes
                               /\ store' = SubSeq(s, 1, n)
  BY DEF set
<1> HIDE DEF W
<1>3. s \in Seq(Entry) /\ Len(s) = Len(W) + 1 /\ s[1] = x
      /\ \A k \in 2 .. Len(s) : k - 1 \in DOMAIN W /\ s[k] = W[k - 1]
  BY <1>1
<1>4. \A k \in DOMAIN s : k \in 1 .. Len(s) /\ (k = 1 \/ k \in 2 .. Len(s))
  BY <1>3
<1> HIDE DEF s
<1>5. OneEach(s)
  <2> SUFFICES ASSUME NEW j \in DOMAIN s, NEW k \in DOMAIN s, SameKey(s[j], s[k])
               PROVE  j = k
    BY DEF OneEach
  <2>1. CASE j = 1 /\ k = 1
    BY <2>1
  <2>2. CASE j = 1 /\ k \in 2 .. Len(s)
    BY <1>1, <1>3, <2>2 DEF SameKey
  <2>3. CASE j \in 2 .. Len(s) /\ k = 1
    BY <1>1, <1>3, <2>3 DEF SameKey
  <2>4. CASE j \in 2 .. Len(s) /\ k \in 2 .. Len(s)
    <3>1. j - 1 \in DOMAIN W /\ k - 1 \in DOMAIN W /\ SameKey(W[j - 1], W[k - 1])
      BY <1>3, <2>4
    <3>2. j - 1 = k - 1
      BY <1>1, <3>1 DEF Kept, OneEach
    <3> QED BY <2>4, <3>2
  <2> QED BY <1>4, <2>1, <2>2, <2>3, <2>4
<1>6. \A k \in DOMAIN s : s[k].size <= MaxEntryBytes
  BY <1>1, <1>3, <1>4 DEF Kept
<1>7. Len(store') = n /\ DOMAIN store' = 1 .. n /\ 1 .. n \subseteq DOMAIN s
      /\ \A k \in 1 .. n : store'[k] = s[k]
  BY <1>2, <1>3
<1>8. OneEach(store') /\ \A k \in DOMAIN store' : store'[k].size <= MaxEntryBytes
  BY <1>5, <1>6, <1>7 DEF OneEach
<1> QED BY <1>2, <1>7, <1>8 DEF Kept

\* A result of a generation that has come.
Past(x, global, entities) ==
    /\ x.gen.global <= global
    /\ x.gen.entity <= entities[x.entity]

\* The store within its limits; it holds whole results, and these and the results
\* being recorded are of generations that have come.  A result that may still be
\* stored is within the limit of one entry.
StoreInv ==
    /\ Kept(store)
    /\ \A i \in DOMAIN store : ToRead(store[i]) = {} /\ Past(store[i], globalGeneration, entityGenerations)
    /\ \A r \in Reader : reader[r].pc = "reading" =>
         /\ Past(reader[r], globalGeneration, entityGenerations)
         /\ reader[r].cacheable => reader[r].size <= MaxEntryBytes

\* No step sets a generation back.
Later == /\ globalGeneration <= globalGeneration'
         /\ \A e \in Entity : entityGenerations[e] <= entityGenerations'[e]

\* A generation that is kept or incremented is not set back.
LEMMA LaterGens ==
    ASSUME TypeOK,
           UNCHANGED gens \/ invalidateAll \/ (\E E \in SUBSET Entity : invalidateEntities(E))
    PROVE  Later
<1>1. globalGeneration \in Nat /\ \A e \in Entity : entityGenerations[e] \in Nat
  BY DEF TypeOK
<1>2. CASE UNCHANGED gens
  BY <1>1, <1>2 DEF gens, Later
<1>3. CASE invalidateAll
  BY <1>1, <1>3 DEF invalidateAll, Later
<1>4. ASSUME NEW E \in SUBSET Entity, invalidateEntities(E) PROVE Later
  BY <1>1, <1>4 DEF invalidateEntities, Later
<1> QED BY <1>2, <1>3, <1>4

\* What has come stays in the past.
LEMMA StaysPast ==
    ASSUME TypeOK, TypeOK', Later, NEW x, x.entity \in Entity, x.gen \in Generation,
           Past(x, globalGeneration, entityGenerations)
    PROVE  Past(x, globalGeneration', entityGenerations')
<1>1. /\ globalGeneration \in Nat /\ globalGeneration' \in Nat
      /\ entityGenerations[x.entity] \in Nat /\ entityGenerations'[x.entity] \in Nat
      /\ x.gen.global \in Nat /\ x.gen.entity \in Nat
  BY DEF TypeOK, Generation
<1> QED BY <1>1 DEF Later, Past

\* Steps that leave the store alone, and of the queries what they have read.
LEMMA StoreStep ==
    ASSUME TypeOK, TypeOK', StoreInv, UNCHANGED store, Later,
           UNCHANGED reader \/ \E c \in Conn : MarkActive(c)
    PROVE  StoreInv'
<1>0. \A r \in Reader : reader'[r].pc = "reading" =>
         /\ reader[r].pc = "reading" /\ reader'[r].entity = reader[r].entity
         /\ reader'[r].gen = reader[r].gen /\ reader'[r].size = reader[r].size
         /\ reader'[r].cacheable = reader[r].cacheable
  BY ReadersMarked
<1>1. ASSUME NEW i \in DOMAIN store PROVE Past(store[i], globalGeneration', entityGenerations')
  BY EntryFields, StaysPast DEF StoreInv
<1>2. ASSUME NEW r \in Reader, reader[r].pc = "reading"
      PROVE  Past(reader[r], globalGeneration', entityGenerations')
  <2>1. reader[r].entity \in Entity /\ reader[r].gen \in Generation
    BY <1>2, ReaderFields DEF TypeOK
  <2> QED BY <1>2, <2>1, StaysPast DEF StoreInv
<1>3. Kept(store')
  BY DEF StoreInv
<1>4. ASSUME NEW i \in DOMAIN store' PROVE ToRead(store'[i]) = {} /\ Past(store'[i], globalGeneration', entityGenerations')
  BY <1>1 DEF StoreInv
<1>5. ASSUME NEW r \in Reader, reader'[r].pc = "reading"
      PROVE  /\ Past(reader'[r], globalGeneration', entityGenerations')
             /\ reader'[r].cacheable => reader'[r].size <= MaxEntryBytes
  BY <1>0, <1>2, <1>5 DEF StoreInv, Past
<1> QED BY <1>3, <1>4, <1>5 DEF StoreInv

\* The calls of a connection leave the store alone and set no generation back.
LEMMA StoreConn ==
    ASSUME TypeOK, NEW c \in Conn, ConnStep(c)
    PROVE  /\ UNCHANGED store /\ Later
           /\ UNCHANGED reader \/ \E d \in Conn : MarkActive(d)
<1>0. UNCHANGED reader \/ MarkActive(c)
  BY DEF ConnStep, Open, Mutate, MutateDone, Begin, BeginBranch, Commit, CommitDone,
     Rollback, InTransaction, Close, CloseDone, PrepareBranch, PrepareDone, ResolveBranch,
     ResolveBranchDone
<1>1. UNCHANGED store
  BY DEF ConnStep, Open, Mutate, MutateDone, Begin, BeginBranch, MarkActive, Commit, CommitDone,
     Rollback, InTransaction, Close, CloseDone, PrepareBranch, PrepareDone, ResolveBranch,
     ResolveBranchDone
<1>2. pending[c] \in SUBSET Entity
  BY DEF TypeOK
<1>3. invalidatePendingLocked(c) \/ UNCHANGED gens => Later
  BY <1>2, LaterGens DEF invalidatePendingLocked
<1>4. CASE MutateDone(c)
  <2>1. op[c].writes \in SUBSET Entity
    BY <1>4, OpFields DEF MutateDone, TypeOK
  <2> QED BY <1>4, <2>1, LaterGens DEF MutateDone
<1> QED BY <1>0, <1>1, <1>3, <1>4 DEF ConnStep, Open, Mutate, Begin, BeginBranch, MarkActive, Commit, CommitDone,
     Rollback, InTransaction, Close, CloseDone, PrepareBranch, PrepareDone, ResolveBranch,
     ResolveBranchDone

\* Neither do the calls of the recovery manager and what happens outside.
LEMMA StoreElsewhere ==
    ASSUME TypeOK,
           \/ \E w \in Worker : WorkerStep(w)
           \/ \E e \in Entity : SourceChange(e)
           \/ \E b \in Branch : Heuristic(b)
           \/ \E E \in SUBSET Entity : Invalidate(E)
           \/ InvalidateAll
           \/ UNCHANGED vars
    PROVE  UNCHANGED <<reader, store>> /\ Later
<1>1. UNCHANGED <<reader, store>>
  BY DEF WorkerStep, Resolve, ResolveTake, ResolveInvalidate, Forget, ForgetDone, SourceChange,
     Heuristic, Invalidate, InvalidateAll, vars
<1>2. ASSUME NEW w \in Worker, ResolveInvalidate(w) PROVE Later
  <2>1. worker[w].pend \in Retained
    BY <1>2, TaskFields DEF ResolveInvalidate, TypeOK
  <2>2. worker[w].pend.entities \in SUBSET Entity
    BY <2>1 DEF Retained
  <2> QED BY <1>2, <2>2, LaterGens DEF ResolveInvalidate
<1>3. ASSUME NEW w \in Worker, WorkerStep(w), ~ResolveInvalidate(w) PROVE Later
  BY <1>3, LaterGens DEF WorkerStep, Resolve, ResolveTake, Forget, ForgetDone
<1>4. Invalidate({}) \/ (\E E \in SUBSET Entity : Invalidate(E)) \/ InvalidateAll => Later
  BY LaterGens DEF Invalidate, InvalidateAll
<1> QED BY <1>1, <1>2, <1>3, <1>4, LaterGens DEF SourceChange, Heuristic, vars

\* What a query looks up is moved to the front or removed.
LEMMA StoreLookup ==
    ASSUME TypeOK, StoreInv, NEW r \in Reader, QueryLookup(r)
    PROVE  StoreInv'
<1> DEFINE q == reader[r].entity
           none == [entity |-> q, gen |-> generation(q)]
           s == [pc |-> "reading", conn |-> reader[r].conn, entity |-> q,
                 gen |-> generation(q), got |-> [e \in Entity |-> Unread],
                 dirty |-> FALSE, overlapped |-> reader[r].overlapped, size |-> 0, cacheable |-> TRUE]
<1>1. store \in Seq(Entry) /\ Kept(store) /\ q \in Entity
  BY ReaderFields DEF TypeOK, QueryLookup, StoreInv
<1>2. Kept(store') /\ \A k \in DOMAIN store' : \E j \in DOMAIN store : store'[k] = store[j]
  <2>1. ASSUME NEW i \in Hit(q), store' = <<store[i]>> \o Without(store[i])
        PROVE  Kept(store') /\ \A k \in DOMAIN store' : \E j \in DOMAIN store : store'[k] = store[j]
    BY <1>1, <2>1, FrontKept, FrontKeeps DEF Hit, PlacesOf
  <2>2. CASE store' = Without(none)
    BY <1>1, <2>2, WithoutKept, WithoutKeeps
  <2> QED BY <2>1, <2>2 DEF QueryLookup
<1>3. UNCHANGED gens
  BY DEF QueryLookup
<1>4. \A p \in Reader : p # r => reader'[p] = reader[p]
  BY DEF QueryLookup, TypeOK
<1>5. reader'[r] = Idle \/ reader'[r] = s
  BY DEF QueryLookup, TypeOK
<1>6. reader'[r].pc = "reading" => /\ Past(reader'[r], globalGeneration, entityGenerations)
                                   /\ reader'[r].size <= MaxEntryBytes
  <2>1. Idle.pc # "reading"
    BY DEF Idle
  <2>2. s.gen.global = globalGeneration /\ s.gen.entity = entityGenerations[s.entity] /\ s.size = 0
    BY DEF generation
  <2>3. globalGeneration \in Nat /\ entityGenerations[q] \in Nat /\ 0 <= MaxEntryBytes
    BY <1>1, CacheAssumption DEF TypeOK
  <2> QED BY <1>5, <2>1, <2>2, <2>3 DEF Past
<1>7. \A i \in DOMAIN store' : ToRead(store'[i]) = {} /\ Past(store'[i], globalGeneration, entityGenerations)
  BY <1>2 DEF StoreInv
<1>8. \A p \in Reader : reader'[p].pc = "reading" =>
         /\ Past(reader'[p], globalGeneration, entityGenerations)
         /\ reader'[p].cacheable => reader'[p].size <= MaxEntryBytes
  BY <1>4, <1>6 DEF StoreInv
<1> QED BY <1>2, <1>3, <1>7, <1>8 DEF StoreInv, gens

\* A batch that makes the result too large makes it not cacheable.
LEMMA StoreBatch ==
    ASSUME TypeOK, StoreInv, NEW r \in Reader, NextBatch(r)
    PROVE  StoreInv'
<1>1. /\ reader[r] \in Recording /\ reader'[r] \in Recording
      /\ reader'[r].gen = reader[r].gen /\ reader'[r].entity = reader[r].entity
      /\ reader' = [reader EXCEPT ![r] = reader'[r]]
  BY NextBatchReads
<1>2. reader'[r].cacheable => reader'[r].size <= MaxEntryBytes
  <2> DEFINE s == reader[r]
  <2>1. PICK e \in ToRead(s), fit \in BOOLEAN :
          reader' = [reader EXCEPT ![r] =
                 [pc |-> "reading", conn |-> s.conn, entity |-> s.entity, gen |-> s.gen,
                  got |-> [s.got EXCEPT ![e] = committed[e]],
                  dirty |-> s.dirty \/ e \in written[s.conn], overlapped |-> s.overlapped,
                  size |-> s.size + 1,
                  cacheable |-> s.cacheable /\ fit /\ s.size + 1 <= MaxEntryBytes]]
    BY DEF NextBatch
  <2> DEFINE d == (s.dirty \/ e \in written[s.conn])
             k == (s.cacheable /\ fit /\ s.size + 1 <= MaxEntryBytes)
             g == [s.got EXCEPT ![e] = committed[e]]
  <2>2. k => s.size + 1 <= MaxEntryBytes
    OBVIOUS
  <2>3. reader' = [reader EXCEPT ![r] =
             [pc |-> "reading", conn |-> s.conn, entity |-> s.entity, gen |-> s.gen, got |-> g,
              dirty |-> d, overlapped |-> s.overlapped, size |-> s.size + 1, cacheable |-> k]]
    BY <2>1
  <2> HIDE DEF g, d, k
  <2>4. reader'[r].cacheable = k /\ reader'[r].size = s.size + 1
    BY <2>3 DEF TypeOK
  <2> QED BY <2>2, <2>4
<1>3. UNCHANGED <<gens, store>>
  BY DEF NextBatch
<1>4. \A p \in Reader : p # r => reader'[p] = reader[p]
  BY <1>1 DEF TypeOK
<1>5. Past(reader'[r], globalGeneration, entityGenerations)
  BY <1>1 DEF StoreInv, Past, NextBatch
<1>6. \A p \in Reader : reader'[p].pc = "reading" =>
         /\ Past(reader'[p], globalGeneration, entityGenerations)
         /\ reader'[p].cacheable => reader'[p].size <= MaxEntryBytes
  BY <1>2, <1>4, <1>5 DEF StoreInv
<1> QED BY <1>3, <1>6 DEF StoreInv, gens

\* What is stored at the end is whole and within the limit of one entry.
LEMMA StoreClose ==
    ASSUME TypeOK, StoreInv, NEW r \in Reader, CloseStream(r)
    PROVE  StoreInv'
<1>1. reader[r] \in Recording /\ reader[r].pc = "reading"
  BY ReaderFields DEF TypeOK, CloseStream
<1> DEFINE x == EntryOf(reader[r])
<1>2. x \in Entry
  BY <1>1 DEF Recording, Entry, EntryOf
<1>3. store \in Seq(Entry) /\ Kept(store)
  BY DEF TypeOK, StoreInv
<1>4. Past(reader[r], globalGeneration, entityGenerations)
      /\ (reader[r].cacheable => reader[r].size <= MaxEntryBytes)
  BY <1>1 DEF StoreInv
<1>5. Past(x, globalGeneration, entityGenerations) /\ (ToRead(reader[r]) = {} => ToRead(x) = {})
      /\ x.size = reader[r].size
  BY <1>4 DEF EntryOf, Past, ToRead
<1> HIDE DEF x
<1>6. UNCHANGED store \/ (reader[r].cacheable /\ set(x))
  BY DEF CloseStream, storeIfCurrent, EntryOf, x
<1>7. Kept(store')
  <2>1. CASE UNCHANGED store
    BY <1>3, <2>1
  <2>2. CASE reader[r].cacheable /\ set(x)
    BY <1>2, <1>3, <1>4, <1>5, <2>2, SetKept
  <2> QED BY <1>6, <2>1, <2>2
<1>8. \A k \in DOMAIN store' : \/ \E j \in DOMAIN store : store'[k] = store[j]
                               \/ store'[k] = x /\ ToRead(reader[r]) = {}
  BY CloseStreamStores DEF x
<1>9. \A i \in DOMAIN store' : ToRead(store'[i]) = {} /\ Past(store'[i], globalGeneration, entityGenerations)
  BY <1>5, <1>8 DEF StoreInv
<1>10. UNCHANGED gens /\ \A p \in Reader : reader'[p] = IF p = r THEN Idle ELSE reader[p]
  BY DEF CloseStream, TypeOK
<1>11. \A p \in Reader : reader'[p].pc = "reading" =>
         /\ Past(reader'[p], globalGeneration, entityGenerations)
         /\ reader'[p].cacheable => reader'[p].size <= MaxEntryBytes
  BY <1>10 DEF StoreInv, Idle
<1> QED BY <1>7, <1>9, <1>10, <1>11 DEF StoreInv, gens

\* Every step of a query keeps the store within its limits.
LEMMA StoreReader ==
    ASSUME TypeOK, StoreInv, NEW r \in Reader, ReaderStep(r)
    PROVE  StoreInv'
<1>1. ASSUME NEW c \in Conn, NEW q \in Entity, QueryCheck(r, c, q) PROVE StoreInv'
  <2>1. UNCHANGED <<gens, store>>
    BY <1>1 DEF QueryCheck
  <2>2. \A p \in Reader : reader'[p] = reader[p] \/ reader'[p].pc = "lookup"
    BY <1>1 DEF QueryCheck, Opening, TypeOK
  <2>3. \A p \in Reader : reader'[p].pc = "reading" =>
         /\ Past(reader'[p], globalGeneration, entityGenerations)
         /\ reader'[p].cacheable => reader'[p].size <= MaxEntryBytes
    BY <2>2 DEF StoreInv
  <2> QED BY <2>1, <2>3 DEF StoreInv, gens
<1> QED BY <1>1, StoreLookup, StoreBatch, StoreClose DEF ReaderStep

\* The store starts empty.
LEMMA StoreInit == Init => StoreInv
<1> SUFFICES ASSUME Init PROVE StoreInv
  OBVIOUS
<1>1. store = <<>> /\ DOMAIN store = {} /\ Len(store) = 0
  BY DEF Init
<1>2. Held(store) = {}
  BY <1>1 DEF Held
<1>3. Bytes(store) = 0
  BY <1>2, FS_EmptySet DEF Bytes
<1>4. Kept(store)
  BY <1>1, <1>3, CacheAssumption DEF Kept, OneEach
<1> QED BY <1>1, <1>4 DEF StoreInv, Init, Idle

\* The store of the cache (memoryStore) never holds more entries or more bytes
\* than its limits, nor an entry larger than maxEntryBytes, nor two entries of
\* one key, nor the result of a stream that was not read to its end, nor one of
\* a generation still to come, whatever its callers do and however their calls,
\* lookups, evictions and stores interleave.
THEOREM StoreAlwaysSound == Spec => []StoreSound
<1>1. TypeOK /\ TypeOK' /\ StoreInv /\ [Next]_vars => StoreInv'
  <2> SUFFICES ASSUME TypeOK, TypeOK', StoreInv, [Next]_vars PROVE StoreInv'
    OBVIOUS
  <2> QED BY StoreReader, StoreConn, StoreElsewhere, StoreStep DEF Next
<1>2. TypeOK /\ StoreInv => StoreSound
  <2> SUFFICES ASSUME TypeOK, StoreInv PROVE StoreSound
    OBVIOUS
  <2>1. \A x \in Entries : \E i \in DOMAIN store : x = store[i]
    BY DEF Entries, Range
  <2> QED BY <2>1 DEF StoreSound, StoreInv, Kept, OneEach, Past
<1> QED BY <1>1, <1>2, StoreInit, CacheTyped, PTL DEF Spec
=============================================================================
