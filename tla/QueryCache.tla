----------------------------- MODULE QueryCache -----------------------------
(***************************************************************************)
(* The optional read-through query cache of the Go SDK                     *)
(* (sdk-go/provider/cache): one cacheState shared by every wrapped         *)
(* connection and by the wrapped recovery manager of a provider.           *)
(*                                                                         *)
(* Entries are keyed by the entity queried and by the pair of generations  *)
(* read when the query began; an invalidation increments generations and   *)
(* so makes every older entry, and every fill still in flight, unreachable.*)
(* Mutations of a native transaction are only noted (pendingEntities) and  *)
(* invalidated at its end; those of a durable branch are retained under    *)
(* the branch when it is prepared and invalidated when it is resolved.     *)
(*                                                                         *)
(* The source behind the provider is external: `committed' numbers the     *)
(* committed versions of each entity, `tx' and `written' are the           *)
(* transaction a connection runs and what it wrote, `branch' the durable   *)
(* branches; `changed' is what the calls of the transaction that returned  *)
(* successfully have changed.  A result is the version read of each entity *)
(* the query reads; one request is modelled per entity (the digest is part *)
(* of the key, and different digests never share an entry).  A             *)
(* connection's transactionMu is held from a call's source step to its     *)
(* cache step: while op[c] is not NoOp the lock is taken.                  *)
(***************************************************************************)
EXTENDS Integers, Sequences, FiniteSets, SequencesExt

CONSTANTS
    Entity,          \* entities that are queried and changed
    Dependents,      \* Config.Dependencies: changed entity -> dependents
    Reads,           \* the entities a query of an entity gets its rows from
    Conn,            \* logical connections
    Branch,          \* durable transaction branches
    Reader,          \* callers of Query
    Worker,          \* callers of the recovery manager
    MaxEntries, MaxBytes, MaxEntryBytes,   \* limits of the store
    MaxCalls         \* bound: calls that may change the source or the cache

(***************************************************************************)
(* The set expandEntities computes: its work list ends with the least set  *)
(* that holds the given entities and the dependents of its members.        *)
(***************************************************************************)
expandEntities(E) ==
    {d \in Entity : \A S \in SUBSET Entity :
        (E \subseteq S /\ \A e \in S : Dependents[e] \subseteq S) => d \in S}

\* The configuration describes the reads: a query of q depends on every
\* entity it reads, possibly through other entities.  maxEntryBytes is cut
\* to maxBytes by normalizeConfig.
ASSUME CacheAssumption ==
    /\ Dependents \in [Entity -> SUBSET Entity]
    /\ Reads \in [Entity -> SUBSET Entity]
    /\ \A q \in Entity : \A e \in Reads[q] : q \in expandEntities({e})
    /\ MaxEntries \in Nat \ {0} /\ MaxBytes \in Nat \ {0}
    /\ MaxEntryBytes \in 1 .. MaxBytes
    /\ MaxCalls \in Nat
    /\ Branch \cap {"none", "local"} = {} /\ "none" \notin Conn

NoOp == [call |-> "none"]
Idle == [pc |-> "idle"]

VARIABLES
    committed, acked, tx, written, changed, branch,  \* the source
    open, active, pending, pendingAll, op,           \* cachedConnection
    globalGeneration, entityGenerations, store, retained,   \* cacheState
    reader, worker, calls

source == <<committed, tx, written, changed, branch>>
conns == <<open, active, pending, pendingAll, op>>
gens == <<globalGeneration, entityGenerations>>
vars == <<source, acked, conns, gens, store, retained, reader, worker, calls>>

(***************************************************************************)
(* Types.                                                                  *)
(***************************************************************************)
Generation == [global : Nat, entity : Nat]
Unread == -1
Versions == [Entity -> Nat \cup {Unread}]
Entry == [entity : Entity, gen : Generation, got : Versions,
          dirty : BOOLEAN, overlapped : BOOLEAN, size : Nat]
BranchOf == [state : {"none", "active", "prepared", "committed",
                      "rolledBack", "heuristic", "forgotten"},
             writes : SUBSET Entity, told : SUBSET Entity,
             home : Conn \cup {"none"}]
Retained == [found : BOOLEAN, entities : SUBSET Entity, all : BOOLEAN,
             blank : BOOLEAN]
Opened == [pc : {"lookup"}, conn : Conn, entity : Entity, overlapped : BOOLEAN]
Recording == [pc : {"reading"}, conn : Conn, entity : Entity,
              gen : Generation, got : Versions, dirty : BOOLEAN,
              overlapped : BOOLEAN, size : Nat, cacheable : BOOLEAN]
Calling == [call : {"mutate"}, ok : BOOLEAN, writes : SUBSET Entity,
            named : BOOLEAN]
           \cup [call : {"commit", "close"}, ok : BOOLEAN,
                 writes : SUBSET Entity]
           \cup [call : {"prepare"}, outcome : {"PREPARED", "READ_ONLY", "error"},
                 branch : Branch, again : BOOLEAN]
           \cup [call : {"resolve"}, outcome : {"committed", "rolledBack", "error"},
                 writes : SUBSET Entity]
Task == [pc : {"called"}, branch : Branch, invalidate : BOOLEAN,
         ok : BOOLEAN, writes : SUBSET Entity]
        \cup [pc : {"taken"}, pend : Retained, ok : BOOLEAN,
              writes : SUBSET Entity]
        \cup [pc : {"forgotten"}, branch : Branch]

TypeOK ==
    /\ committed \in [Entity -> Nat] /\ acked \in [Entity -> Nat]
    /\ tx \in [Conn -> {"none", "local"} \cup Branch]
    /\ written \in [Conn -> SUBSET Entity]
    /\ changed \in [Conn -> SUBSET Entity]
    /\ branch \in [Branch -> BranchOf]
    /\ open \in [Conn -> BOOLEAN] /\ active \in [Conn -> BOOLEAN]
    /\ pending \in [Conn -> SUBSET Entity]
    /\ pendingAll \in [Conn -> BOOLEAN]
    /\ op \in [Conn -> Calling \cup {NoOp}]
    /\ globalGeneration \in Nat
    /\ entityGenerations \in [Entity -> Nat]
    /\ store \in Seq(Entry)
    /\ retained \in [Branch -> Retained]
    /\ reader \in [Reader -> Opened \cup Recording \cup {Idle}]
    /\ worker \in [Worker -> Task \cup {Idle}]
    /\ \A c \in Conn : pendingAll[c] => pending[c] = {}
    /\ calls \in 0 .. MaxCalls

NotRetained == [found |-> FALSE, entities |-> {}, all |-> FALSE, blank |-> FALSE]
NoBranch == [state |-> "none", writes |-> {}, told |-> {}, home |-> "none"]

Init ==
    /\ committed = [e \in Entity |-> 0] /\ acked = [e \in Entity |-> 0]
    /\ tx = [c \in Conn |-> "none"]
    /\ written = [c \in Conn |-> {}] /\ changed = [c \in Conn |-> {}]
    /\ branch = [b \in Branch |-> NoBranch]
    /\ open = [c \in Conn |-> FALSE] /\ active = [c \in Conn |-> FALSE]
    /\ pending = [c \in Conn |-> {}]
    /\ pendingAll = [c \in Conn |-> FALSE]
    /\ op = [c \in Conn |-> NoOp]
    /\ globalGeneration = 0
    /\ entityGenerations = [e \in Entity |-> 0]
    /\ store = <<>>
    /\ retained = [b \in Branch |-> NotRetained]
    /\ reader = [r \in Reader |-> Idle]
    /\ worker = [w \in Worker |-> Idle]
    /\ calls = 0

(***************************************************************************)
(* cacheState: generations and their increments.                           *)
(***************************************************************************)
generation(e) == [global |-> globalGeneration, entity |-> entityGenerations[e]]

invalidateEntities(E) ==
    /\ entityGenerations' = [e \in Entity |-> IF e \in expandEntities(E)
                                              THEN entityGenerations[e] + 1
                                              ELSE entityGenerations[e]]
    /\ UNCHANGED globalGeneration

invalidateAll ==
    /\ globalGeneration' = globalGeneration + 1
    /\ UNCHANGED entityGenerations

\* What the caller of an acknowledged call may rely on from now on: no query
\* that begins later is answered with older data of the entities in W.
Acknowledge(W) == acked' = [e \in Entity |-> IF e \in W THEN committed[e]
                                             ELSE acked[e]]

MutInvalidatePending(c) ==
    IF pendingAll[c] THEN invalidateAll
    ELSE /\ entityGenerations' = [e \in Entity |-> IF e \in pending[c]
                                                   THEN entityGenerations[e] + 1
                                                   ELSE entityGenerations[e]]
         /\ UNCHANGED globalGeneration

invalidatePendingLocked(c) ==
    IF pendingAll[c] THEN invalidateAll ELSE invalidateEntities(pending[c])

ClearActive(c) ==
    /\ active' = [active EXCEPT ![c] = FALSE]
    /\ pending' = [pending EXCEPT ![c] = {}]
    /\ pendingAll' = [pendingAll EXCEPT ![c] = FALSE]

(***************************************************************************)
(* memoryStore: most recently used first.                                  *)
(***************************************************************************)
\* The bytes held, one element for each byte of each entry, and their number.
Held(s) == UNION {{i} \X (1 .. s[i].size) : i \in DOMAIN s}

Bytes(s) == Cardinality(Held(s))

SameKey(x, y) == x.entity = y.entity /\ x.gen = y.gen

\* Where the store holds the key of x: nowhere or at one place.
PlacesOf(x) == {i \in DOMAIN store : SameKey(store[i], x)}

Without(x) == IF PlacesOf(x) = {} THEN store
              ELSE RemoveAt(store, CHOOSE i \in PlacesOf(x) : TRUE)

\* set: replace the key's entry, put it in front, drop from the back until
\* both limits hold.
MutSet(x) ==
    LET s == <<x>> \o Without(x)
        Fits(n) == n <= MaxEntries \/ Bytes(SubSeq(s, 1, n)) <= MaxBytes
    IN  \E n \in 0 .. Len(s) : /\ Fits(n) /\ \A m \in n + 1 .. Len(s) : ~Fits(m)
                               /\ store' = SubSeq(s, 1, n)

set(x) ==
    LET s == <<x>> \o Without(x)
        Fits(n) == n <= MaxEntries /\ Bytes(SubSeq(s, 1, n)) <= MaxBytes
    IN  \E n \in 0 .. Len(s) : /\ Fits(n) /\ \A m \in n + 1 .. Len(s) : ~Fits(m)
                               /\ store' = SubSeq(s, 1, n)

(***************************************************************************)
(* Query.  A query made while transactionActive goes to the source and     *)
(* leaves the cache alone; any other one looks the cache up later, after   *)
(* transactionMu was released.                                             *)
(***************************************************************************)
Unlocked(c) == open[c] /\ op[c] = NoOp

Opening(c, q) == [pc |-> "lookup", conn |-> c, entity |-> q, overlapped |-> FALSE]

MutQueryCheck(r, c, q) ==
    /\ reader[r] = Idle /\ Unlocked(c)
    /\ reader' = [reader EXCEPT ![r] = Opening(c, q)]
    /\ UNCHANGED <<source, acked, conns, gens, store, retained, worker, calls>>

QueryCheck(r, c, q) ==
    /\ reader[r] = Idle /\ Unlocked(c)
    /\ \/ active[c] /\ UNCHANGED reader      \* answered by the source
       \/ /\ ~active[c]
          /\ reader' = [reader EXCEPT ![r] = Opening(c, q)]
    /\ UNCHANGED <<source, acked, conns, gens, store, retained, worker, calls>>

\* get: where the current entry of q is.
Hit(q) == PlacesOf([entity |-> q, gen |-> generation(q)])

\* lookup: an entry of the current generation is replayed and moved to the
\* front, unless its time to live is over: that one is removed, and the source
\* asked, as when there is none.  (Time is abstract: whether an entry has
\* expired is decided when it is looked up.)  The stream records the
\* generation captured here.
QueryLookup(r) ==
    LET q == reader[r].entity
        g == generation(q)
    IN  /\ reader[r].pc = "lookup"
        /\ \/ \E i \in Hit(q) :
                /\ store' = <<store[i]>> \o Without(store[i])
                /\ reader' = [reader EXCEPT ![r] = Idle]
           \/ /\ store' = Without([entity |-> q, gen |-> g])
              /\ \/ reader' = [reader EXCEPT ![r] =
                        [pc |-> "reading", conn |-> reader[r].conn, entity |-> q,
                         gen |-> g, got |-> [e \in Entity |-> Unread],
                         dirty |-> FALSE, overlapped |-> reader[r].overlapped,
                         size |-> 0, cacheable |-> TRUE]]
                 \/ reader' = [reader EXCEPT ![r] = Idle]   \* the source failed
        /\ UNCHANGED <<source, acked, conns, gens, retained, worker, calls>>

ToRead(s) == {e \in Reads[s.entity] : s.got[e] = Unread}

\* Next: one batch, here the rows of one entity of the query, read from what
\* the connection sees: its own uncommitted writes included.  A stream that
\* fails, carries LOB references, ends partial or with warnings, or grows
\* past maxEntryBytes is not cacheable any more.
NextBatch(r) ==
    LET s == reader[r]
    IN  /\ s.pc = "reading"
        /\ \E e \in ToRead(s), fit \in BOOLEAN :
             reader' = [reader EXCEPT ![r] =
                 [pc |-> "reading", conn |-> s.conn, entity |-> s.entity, gen |-> s.gen,
                  got |-> [s.got EXCEPT ![e] = committed[e]],
                  dirty |-> s.dirty \/ e \in written[s.conn], overlapped |-> s.overlapped,
                  size |-> s.size + 1,
                  cacheable |-> s.cacheable /\ fit /\ s.size + 1 <= MaxEntryBytes]]
        /\ UNCHANGED <<source, acked, conns, gens, store, retained, worker, calls>>

storeIfCurrent(s) ==
    IF s.gen = generation(s.entity)
    THEN set([entity |-> s.entity, gen |-> s.gen, got |-> s.got,
              dirty |-> s.dirty, overlapped |-> s.overlapped, size |-> s.size])
    ELSE UNCHANGED store

\* Close: a stream read to its end is stored if its generation is still
\* current; one closed early, or whose source failed to close, is not.
CloseStream(r) ==
    LET s == reader[r]
    IN  /\ s.pc = "reading"
        /\ \/ UNCHANGED store
           \/ s.cacheable /\ ToRead(s) = {} /\ storeIfCurrent(s)
        /\ reader' = [reader EXCEPT ![r] = Idle]
        /\ UNCHANGED <<source, acked, conns, gens, retained, worker, calls>>

(***************************************************************************)
(* The source: what a call of the wrapped connection does to the data.     *)
(***************************************************************************)
Commits(W) == committed' = [e \in Entity |-> IF e \in W THEN committed[e] + 1
                                             ELSE committed[e]]

Call == calls < MaxCalls /\ calls' = calls + 1

Begun(c, o) == op' = [op EXCEPT ![c] = o]

Done(c) == op' = [op EXCEPT ![c] = NoOp]

\* The transaction of c ends in the source.
EndTx(c) ==
    /\ tx' = [tx EXCEPT ![c] = "none"]
    /\ written' = [written EXCEPT ![c] = {}]
    /\ changed' = [changed EXCEPT ![c] = {}]

NoQueryOn(c) == {r \in Reader : reader[r] # Idle /\ reader[r].conn = c} = {}

\* c begins another transaction: no call of an earlier branch is repeated on c.
Leave(c) == [b \in Branch |-> IF branch[b].home = c
                              THEN [branch[b] EXCEPT !.home = "none"]
                              ELSE branch[b]]

\* OpenConnection, wrapped by Provider.Open.
Open(c) ==
    /\ ~open[c]
    /\ open' = [open EXCEPT ![c] = TRUE]
    /\ UNCHANGED <<source, acked, active, pending, pendingAll, op, gens, store,
                   retained, reader, worker, calls>>

(***************************************************************************)
(* Insert, Update, Delete.  The source executes the change first: in a     *)
(* transaction it stays uncommitted, outside of one it is committed at     *)
(* once, also while the cache still takes a transaction for active that    *)
(* the source has ended (a Commit or Rollback that failed).  A change that *)
(* fails may have had its effect.                                          *)
(***************************************************************************)
Mutate(c, e, named) ==
    /\ Unlocked(c) /\ Call
    /\ \E ok, effect \in BOOLEAN :
         /\ ok => effect
         /\ Begun(c, [call |-> "mutate", ok |-> ok, writes |-> {e}, named |-> named])
         /\ LET W == IF effect THEN {e} ELSE {}
            IN  \/ /\ tx[c] # "none"
                   /\ written' = [written EXCEPT ![c] = @ \cup W]
                   /\ UNCHANGED committed
                \/ tx[c] = "none" /\ Commits(W) /\ UNCHANGED written
    /\ UNCHANGED <<acked, tx, changed, branch, open, active, pending, pendingAll, gens,
                   store, retained, reader, worker>>

\* recordMutationLocked after a successful change, which is noted or
\* invalidated; a request without a usable entity name counts as a change of
\* everything.  Its caller may rely on it when the transaction that made it is
\* committed or, outside of one, now: a change made outside of a transaction
\* and only noted is the case the code does not cover.
MutateDone(c) ==
    LET o == op[c]
    IN  /\ o.call = "mutate"
        /\ \/ /\ o.ok /\ active[c]
              /\ IF o.named /\ ~pendingAll[c]
                 THEN /\ pending' = [pending EXCEPT ![c] = @ \cup o.writes]
                      /\ UNCHANGED pendingAll
                 ELSE /\ pendingAll' = [pendingAll EXCEPT ![c] = TRUE]
                      /\ pending' = [pending EXCEPT ![c] = {}]
              /\ changed' = IF tx[c] = "none" THEN changed
                            ELSE [changed EXCEPT ![c] = @ \cup o.writes]
              /\ UNCHANGED <<acked, gens>>
           \/ /\ o.ok /\ ~active[c]
              /\ IF o.named THEN invalidateEntities(o.writes) ELSE invalidateAll
              /\ Acknowledge(o.writes)
              /\ UNCHANGED <<pending, pendingAll, changed>>
           \/ /\ ~o.ok
              /\ UNCHANGED <<acked, gens, pending, pendingAll, changed>>
        /\ Done(c)
        /\ UNCHANGED <<committed, tx, written, branch, open, active, store, retained,
                       reader, worker, calls>>

(***************************************************************************)
(* Begin, BeginBranch, and the repeated BeginBranch of the active branch:  *)
(* pending is kept when the cache already saw a transaction.               *)
(***************************************************************************)
MarkActive(c) ==
    /\ active' = [active EXCEPT ![c] = TRUE]
    /\ IF active[c] THEN UNCHANGED <<pending, pendingAll>>
       ELSE /\ pending' = [pending EXCEPT ![c] = {}]
            /\ pendingAll' = [pendingAll EXCEPT ![c] = FALSE]
    /\ reader' = [r \in Reader |-> IF reader[r] # Idle /\ reader[r].conn = c
                                   THEN [reader[r] EXCEPT !.overlapped = TRUE]
                                   ELSE reader[r]]
    /\ UNCHANGED <<committed, written, changed, acked, open, op, gens, store, retained,
                   worker>>

Begin(c) ==
    /\ Unlocked(c) /\ Call
    /\ tx[c] = "none"
    /\ tx' = [tx EXCEPT ![c] = "local"]
    /\ MarkActive(c)
    /\ branch' = Leave(c)

BeginBranch(c, b) ==
    /\ Unlocked(c) /\ Call
    /\ \/ /\ tx[c] = "none" /\ branch[b].state = "none"
          /\ branch' = [Leave(c) EXCEPT ![b] = [branch[b] EXCEPT !.state = "active", !.home = c]]
       \/ /\ tx[c] = b
          /\ UNCHANGED branch
    /\ tx' = [tx EXCEPT ![c] = b]
    /\ MarkActive(c)

\* Commit: an error may come before or after the source committed or gave up.
Commit(c) ==
    /\ Unlocked(c) /\ Call /\ tx[c] = "local"
    /\ \E ok \in BOOLEAN :
         /\ Begun(c, [call |-> "commit", ok |-> ok, writes |-> changed[c]])
         /\ \/ Commits(written[c]) /\ EndTx(c)
            \/ ~ok /\ UNCHANGED committed /\ EndTx(c)
            \/ ~ok /\ UNCHANGED <<committed, tx, written, changed>>
    /\ UNCHANGED <<acked, branch, open, active, pending, pendingAll, gens, store,
                   retained, reader, worker>>

CommitDone(c) ==
    LET o == op[c]
    IN  /\ o.call = "commit"
        /\ invalidatePendingLocked(c)
        /\ IF o.ok THEN ClearActive(c) /\ Acknowledge(o.writes)
                   ELSE UNCHANGED <<active, pending, pendingAll, acked>>
        /\ Done(c)
        /\ UNCHANGED <<source, open, store, retained, reader, worker, calls>>

\* Rollback: no step of it is visible outside, so it is one action.  It ends
\* native transactions; a branch is rolled back by name.
Rollback(c) ==
    /\ Unlocked(c) /\ Call /\ active[c] /\ tx[c] \in {"local", "none"}
    /\ \/ EndTx(c) /\ ClearActive(c) /\ UNCHANGED gens
       \/ /\ EndTx(c) \/ UNCHANGED <<tx, written, changed>>
          /\ invalidatePendingLocked(c)
          /\ UNCHANGED <<active, pending, pendingAll>>
    /\ UNCHANGED <<committed, branch, acked, open, op, store, retained, reader,
                   worker>>

\* InTransaction: the cache adopts what the source says, and invalidates what
\* a transaction it did not see end may have committed.
InTransaction(c) ==
    /\ Unlocked(c) /\ Call
    /\ IF tx[c] = "none"
       THEN /\ IF active[c] THEN invalidatePendingLocked(c) ELSE UNCHANGED gens
            /\ ClearActive(c)
       ELSE /\ active' = [active EXCEPT ![c] = TRUE]
            /\ UNCHANGED <<pending, pendingAll, gens>>
    /\ UNCHANGED <<source, acked, open, op, store, retained, reader, worker>>

\* Close, called by the registry once no other call uses the connection: the
\* source ends what was active, committing or rolling it back.
Close(c) ==
    /\ Unlocked(c) /\ Call /\ NoQueryOn(c)
    /\ Begun(c, [call |-> "close", ok |-> TRUE, writes |-> changed[c]])
    /\ UNCHANGED committed \/ (tx[c] = "local" /\ Commits(written[c]))
    /\ branch' = [b \in Branch |->
                    [branch[b] EXCEPT !.state = IF tx[c] = b THEN "rolledBack" ELSE @,
                                      !.home = IF @ = c THEN "none" ELSE @]]
    /\ EndTx(c)
    /\ UNCHANGED <<acked, open, active, pending, pendingAll, gens, store, retained,
                   reader, worker>>

CloseDone(c) ==
    /\ op[c].call = "close"
    /\ IF active[c] THEN invalidatePendingLocked(c) ELSE UNCHANGED gens
    /\ ClearActive(c) /\ Acknowledge(op[c].writes)
    /\ open' = [open EXCEPT ![c] = FALSE]
    /\ Done(c)
    /\ UNCHANGED <<source, store, retained, reader, worker, calls>>

(***************************************************************************)
(* PrepareBranch on the branch's connection.  The source prepares first;   *)
(* the branch is then in doubt and any recovery caller may resolve it,     *)
(* before or after the cache retains what it changed.  A repeated call     *)
(* returns PREPARED again, whatever happened to the branch and to the      *)
(* connection's notes since the first one.                                 *)
(***************************************************************************)
PrepareBranch(c, b) ==
    LET Prepare(outcome, again) ==
            Begun(c, [call |-> "prepare", outcome |-> outcome, branch |-> b,
                      again |-> again])
    IN  /\ Unlocked(c) /\ Call
        /\ \/ /\ tx[c] = b
              /\ \/ /\ Prepare("READ_ONLY", FALSE) /\ written[c] = {}
                    /\ branch' = [branch EXCEPT ![b].state = "committed"]
                    /\ EndTx(c)
                 \/ /\ Prepare("PREPARED", FALSE) \/ Prepare("error", FALSE)
                    /\ branch' = [branch EXCEPT ![b].state = "prepared",
                                               ![b].writes = written[c],
                                               ![b].told = changed[c]]
                    /\ EndTx(c)
                 \/ /\ Prepare("error", FALSE)
                    /\ UNCHANGED <<branch, tx, written, changed>>
           \/ /\ tx[c] = "none" /\ branch[b].state = "prepared"
              /\ branch[b].home = c
              /\ Prepare("PREPARED", TRUE)
              /\ UNCHANGED <<branch, tx, written, changed>>
        /\ UNCHANGED <<committed, acked, open, active, pending, pendingAll, gens,
                       store, retained, reader, worker>>

\* What a repeated PrepareBranch finds pending is merged with what the first
\* one retained.  When both are gone (a resolution took what was retained, or
\* InTransaction or Rollback dropped the notes) a record of no changes is left,
\* as if the branch had made none: blank remembers that.
retainBranchInvalidation(c, b) ==
    LET all == pendingAll[c] \/ retained[b].all
    IN  retained' = [retained EXCEPT ![b] =
            [found |-> TRUE, all |-> all,
             blank |-> retained[b].blank \/ (~retained[b].found /\ ~active[c]),
             entities |-> IF all THEN {} ELSE retained[b].entities \cup pending[c]]]

PrepareDone(c) ==
    LET o == op[c]
    IN  /\ o.call = "prepare"
        /\ \/ /\ o.outcome = "PREPARED"
              /\ retainBranchInvalidation(c, o.branch) /\ ClearActive(c)
              /\ UNCHANGED gens
           \/ /\ o.outcome = "READ_ONLY"
              /\ ClearActive(c)
              /\ UNCHANGED <<gens, retained>>
           \/ /\ o.outcome = "error"
              /\ invalidatePendingLocked(c)
              /\ UNCHANGED <<active, pending, pendingAll, retained>>
        /\ Done(c)
        /\ UNCHANGED <<source, acked, open, store, reader, worker, calls>>

\* CommitBranch and RollbackBranch of the connection: a one-phase commit or
\* the rollback of an active branch, or such a call repeated.  One repeated
\* when nothing is noted any more invalidates nothing: the outcome it repeats
\* was acknowledged, or will be, by the call that ended the branch.
ResolveBranch(c, b, goal) ==
    /\ Unlocked(c) /\ Call
    /\ \/ /\ tx[c] = b
          /\ \E outcome \in {goal, "error"} :
               /\ Begun(c, [call |-> "resolve", outcome |-> outcome, writes |-> changed[c]])
               /\ \/ /\ branch' = [branch EXCEPT ![b].state = goal,
                                              ![b].writes = written[c],
                                              ![b].told = changed[c]]
                     /\ IF goal = "committed" THEN Commits(written[c])
                        ELSE UNCHANGED committed
                     /\ EndTx(c)
                  \/ outcome = "error" /\ UNCHANGED source
       \/ /\ tx[c] = "none" /\ branch[b].home = c
          /\ branch[b].state \in {"committed", "rolledBack"}
          /\ Begun(c, [call |-> "resolve", outcome |-> branch[b].state,
                       writes |-> IF active[c] THEN branch[b].told ELSE {}])
          /\ UNCHANGED source
    /\ UNCHANGED <<acked, open, active, pending, pendingAll, gens, store, retained,
                   reader, worker>>

ResolveBranchDone(c) ==
    LET o == op[c]
    IN  /\ o.call = "resolve"
        /\ IF o.outcome = "rolledBack" THEN UNCHANGED gens ELSE invalidatePendingLocked(c)
        /\ IF o.outcome = "error" THEN UNCHANGED <<active, pending, pendingAll>>
                                  ELSE ClearActive(c)
        /\ IF o.outcome = "committed" THEN Acknowledge(o.writes) ELSE UNCHANGED acked
        /\ Done(c)
        /\ UNCHANGED <<source, open, store, retained, reader, worker, calls>>

(***************************************************************************)
(* The wrapped recovery manager: any thread, any branch, no connection.    *)
(***************************************************************************)
Resolve(w, b, goal) ==
    LET was == branch[b].state
        End(s) == branch' = [branch EXCEPT ![b].state = s]
        Called(s, ok) == worker' = [worker EXCEPT ![w] =
            [pc |-> "called", branch |-> b, ok |-> ok,
             invalidate |-> ~ok \/ s # "rolledBack",
             writes |-> IF ok /\ s \in {"committed", "heuristic"}
                        THEN branch[b].told ELSE {}]]
    IN  /\ worker[w] = Idle /\ Call
        /\ \/ /\ was = "prepared" /\ End(goal)
              /\ IF goal = "committed" THEN Commits(branch[b].writes)
                 ELSE UNCHANGED committed
              /\ \E ok \in BOOLEAN : Called(goal, ok)
           \/ /\ was \notin {"prepared", "active"}
              /\ Called(was, TRUE) /\ End(was)
              /\ UNCHANGED committed
           \/ /\ Called(was, FALSE) /\ End(was)
              /\ UNCHANGED committed
        /\ UNCHANGED <<tx, written, changed, acked, conns, gens, store, retained, reader>>

\* resolveBranchInvalidation: the retained changes are taken under the lock
\* and invalidated after it was released.
ResolveTake(w) ==
    LET t == worker[w]
    IN  /\ t.pc = "called"
        /\ retained' = [retained EXCEPT ![t.branch] = NotRetained]
        /\ worker' = [worker EXCEPT ![w] =
                IF t.invalidate
                THEN [pc |-> "taken", pend |-> retained[t.branch], ok |-> t.ok,
                      writes |-> t.writes]
                ELSE Idle]
        /\ UNCHANGED <<source, acked, conns, gens, store, reader, calls>>

ResolveInvalidate(w) ==
    LET t == worker[w]
    IN  /\ t.pc = "taken"
        /\ IF ~t.pend.found \/ t.pend.all THEN invalidateAll
           ELSE invalidateEntities(t.pend.entities)
        /\ Acknowledge(IF t.pend.blank THEN {} ELSE t.writes)
        /\ worker' = [worker EXCEPT ![w] = Idle]
        /\ UNCHANGED <<source, conns, store, retained, reader, calls>>

\* ForgetBranch: the source drops the outcome, then the cache drops what it
\* retained.  A branch that is active or prepared is refused, and the identity
\* of a forgotten one is not used again.
Forget(w, b) ==
    /\ worker[w] = Idle /\ Call
    /\ branch[b].state \notin {"none", "active", "prepared"}
    /\ branch' = [branch EXCEPT ![b].state = "forgotten"]
    /\ worker' = [worker EXCEPT ![w] = [pc |-> "forgotten", branch |-> b]]
    /\ UNCHANGED <<committed, tx, written, changed, acked, conns, gens, store, retained, reader>>

ForgetDone(w) ==
    /\ worker[w].pc = "forgotten"
    /\ retained' = [retained EXCEPT ![worker[w].branch] = NotRetained]
    /\ worker' = [worker EXCEPT ![w] = Idle]
    /\ UNCHANGED <<source, acked, conns, gens, store, reader, calls>>

(***************************************************************************)
(* Changes made past the SDK, and the Controller that reports them.        *)
(***************************************************************************)
SourceChange(e) ==
    /\ Call /\ Commits({e})
    /\ UNCHANGED <<tx, written, changed, branch, acked, conns, gens, store, retained, reader,
                   worker>>

\* The source commits a prepared branch on its own.
Heuristic(b) ==
    /\ branch[b].state = "prepared" /\ Call
    /\ branch' = [branch EXCEPT ![b].state = "heuristic"]
    /\ Commits(branch[b].writes)
    /\ UNCHANGED <<tx, written, changed, acked, conns, gens, store, retained, reader, worker>>

Invalidate(E) ==
    /\ Call /\ E # {}
    /\ invalidateEntities(E) /\ Acknowledge(E)
    /\ UNCHANGED <<source, conns, store, retained, reader, worker>>

InvalidateAll ==
    /\ Call
    /\ invalidateAll /\ Acknowledge(Entity)
    /\ UNCHANGED <<source, conns, store, retained, reader, worker>>

(***************************************************************************)
(* Next-state relation.                                                    *)
(***************************************************************************)
ReaderStep(r) ==
    \/ \E c \in Conn, q \in Entity : QueryCheck(r, c, q)
    \/ QueryLookup(r)
    \/ NextBatch(r)
    \/ CloseStream(r)

ConnStep(c) ==
    \/ Open(c)
    \/ \E e \in Entity, named \in BOOLEAN : Mutate(c, e, named)
    \/ MutateDone(c)
    \/ Begin(c)
    \/ \E b \in Branch : BeginBranch(c, b)
    \/ Commit(c)
    \/ CommitDone(c)
    \/ Rollback(c)
    \/ InTransaction(c)
    \/ Close(c)
    \/ CloseDone(c)
    \/ \E b \in Branch : PrepareBranch(c, b)
    \/ PrepareDone(c)
    \/ \E b \in Branch, goal \in {"committed", "rolledBack"} : ResolveBranch(c, b, goal)
    \/ ResolveBranchDone(c)

WorkerStep(w) ==
    \/ \E b \in Branch, goal \in {"committed", "rolledBack"} : Resolve(w, b, goal)
    \/ ResolveTake(w)
    \/ ResolveInvalidate(w)
    \/ \E b \in Branch : Forget(w, b)
    \/ ForgetDone(w)

Next ==
    \/ \E r \in Reader : ReaderStep(r)
    \/ \E c \in Conn : ConnStep(c)
    \/ \E w \in Worker : WorkerStep(w)
    \/ \E e \in Entity : SourceChange(e)
    \/ \E b \in Branch : Heuristic(b)
    \/ \E E \in SUBSET Entity : Invalidate(E)
    \/ InvalidateAll

Spec == Init /\ [][Next]_vars

(***************************************************************************)
(* Properties.                                                             *)
(***************************************************************************)
Reachable(x) == x.gen = generation(x.entity)

Entries == Range(store)

\* A cached result that a query can still be answered with is never older
\* than what was acknowledged: once a change, a commit, the commit of a
\* branch or Controller.Invalidate has returned, no later query is answered
\* from the cache with older data of the entities concerned, nor of the
\* entities that depend on them.  Two things are not acknowledged in this
\* sense, the only ones the code leaves stale: a change made outside of a
\* transaction while the cache takes one for active, and a branch prepared
\* again when nothing noted of it was left (storeIfCurrent,
\* invalidateEntities, recordMutationLocked, resolveBranchInvalidation).
CacheFresh ==
    \A x \in Entries : Reachable(x) =>
        \A e \in Reads[x.entity] : x.got[e] >= acked[e]

\* Data a transaction wrote and did not commit comes into the cache in one way
\* only: through a query that was open, past the test of transactionActive,
\* when the transaction began on its connection.  A query that begins while a
\* transaction is active never leaves anything in the cache (Query).
NothingUncommitted == \A x \in Entries : x.dirty => x.overlapped

\* The cache's state is of its type, and the store keeps its limits, holds one
\* entry per key, only whole results, and none of a generation that is still to
\* come (memoryStore.set).
StoreSound ==
    /\ TypeOK
    /\ Len(store) <= MaxEntries /\ Bytes(store) <= MaxBytes
    /\ \A i, j \in DOMAIN store : SameKey(store[i], store[j]) => i = j
    /\ \A x \in Entries :
         /\ ToRead(x) = {} /\ x.size <= MaxEntryBytes
         /\ x.gen.global <= globalGeneration
         /\ x.gen.entity <= entityGenerations[x.entity]
=============================================================================
